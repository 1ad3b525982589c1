--------------------------- MODULE PollController ---------------------------
(***************************************************************************)
(* The Poll reconciler of internal/controller/poll_controller.go with its  *)
(* work queue. One worker (MaxConcurrentReconciles is 1) runs Reconcile    *)
(* one call at a time; between two actions of a call users, the other      *)
(* controller, the watch streams and the clock may move.                   *)
(*                                                                         *)
(*    idle --PollGet--> list --PollList--> patch --PollPatch--> requeue    *)
(*                          \---- nothing to write ------------/   |       *)
(*    idle <----------------------- PollRequeue -------------------+       *)
(***************************************************************************)
EXTENDS ApiServer

CONSTANTS
    MergesTimers,   \* an immediate add absorbs the delayed one of the same key
    MaxFaults       \* bound: failed calls to the API server

VARIABLES
    pollQ,      \* keys ready in the work queue
    timer,      \* the time at which a key was asked to be added again, or Nil
    pw,         \* the worker: where it is in Reconcile, and its local variables
    faults      \* number of failed calls so far

pollCtlVars == <<pollQ, timer, pw>>

ASSUME FaultsAssumption == MaxFaults \in Nat /\ MergesTimers \in BOOLEAN

PollWorker ==
    [pc      : {"idle", "list", "patch", "requeue"},
     key     : Polls \cup {Nil},
     poll    : Poll \cup {Nil},          \* poll; base of the patch
     desired : PollStatus \cup {Nil}]    \* desiredStatus

IdlePollWorker == [pc |-> "idle", key |-> Nil, poll |-> Nil, desired |-> Nil]

PollCtlTypeOK ==
    /\ pollQ \subseteq Polls
    /\ timer \in [Polls -> Nat \cup {Nil}]
    /\ pw \in PollWorker
    /\ pw.pc # "idle" => pw.key # Nil /\ pw.poll # Nil /\ pw.desired # Nil
    /\ faults \in 0..MaxFaults

PollCtlInit ==
    /\ pollQ = {}
    /\ timer = [p \in Polls |-> Nil]
    /\ pw = IdlePollWorker
    /\ faults = 0

----------------------------------------------------------------------------
(* Work queue (external): a set of ready keys and at most one delayed entry *)
(* per key, which keeps its earliest time.                                  *)

TimersAfterAdd(keys) ==
    [p \in Polls |-> IF MergesTimers /\ p \in keys THEN Nil ELSE timer[p]]

EnqueuePolls(keys) ==
    /\ pollQ' = pollQ \cup keys
    /\ timer' = TimersAfterAdd(keys)

EnqueuePollAt(p, t) ==
    /\ timer' = IF \/ MergesTimers /\ p \in pollQ
                   \/ timer[p] # Nil /\ timer[p] <= t
                THEN timer
                ELSE [timer EXCEPT ![p] = t]
    /\ UNCHANGED pollQ

\* A delayed entry whose time has come becomes ready.
PollTimerFires(p) ==
    /\ timer[p] # Nil
    /\ timer[p] <= now
    /\ pollQ' = pollQ \cup {p}
    /\ timer' = [timer EXCEPT ![p] = Nil]
    /\ UNCHANGED <<apiVars, pw, faults>>

----------------------------------------------------------------------------
(* Reconcile *)

\* Get, and the phase computed from the time read next.
PollGet(p) ==
    /\ pw.pc = "idle"
    /\ p \in pollQ
    /\ pollQ' = pollQ \ {p}
    /\ pw' = IF PollCache[p] = Nil THEN IdlePollWorker
             ELSE [pc |-> "list", key |-> p, poll |-> PollCache[p],
                   desired |-> ComputePhase(PollCache[p].spec,
                                            PollCache[p].status, now)]
    /\ UNCHANGED <<apiVars, timer, faults>>

\* Mutant of PollList: an unchanged status returns before the requeue.
PollListReturnsEarly ==
    /\ pw.pc = "list"
    /\ LET desired == WithTally(pw.key, pw.poll, pw.desired, RespCache)
       IN  pw' = IF StatusEqual(pw.poll.status, desired) THEN IdlePollWorker
                 ELSE [pw EXCEPT !.desired = desired, !.pc = "patch"]
    /\ UNCHANGED <<apiVars, pollQ, timer, faults>>

\* List the responses, finish the desired status, and skip an equal one.
PollList ==
    /\ pw.pc = "list"
    /\ LET desired == WithTally(pw.key, pw.poll, pw.desired, RespCache)
       IN  pw' = [pw EXCEPT !.desired = desired,
                            !.pc = IF StatusEqual(pw.poll.status, desired)
                                   THEN "requeue" ELSE "patch"]
    /\ UNCHANGED <<apiVars, pollQ, timer, faults>>

\* What the status patch of the worker makes of the stored Poll.
PatchedPoll ==
    [PollTruth[pw.key] EXCEPT
        !.status = MergePollStatus(@, pw.poll.status, pw.desired)]

\* The patch is applied; poll now holds what the server answered.
PollPatch ==
    /\ pw.pc = "patch"
    /\ PollTruth[pw.key] # Nil
    /\ WritePoll(pw.key, PatchedPoll)
    /\ pw' = [pw EXCEPT !.pc = "requeue", !.poll = PatchedPoll]
    /\ UNCHANGED <<respV, now, ops, pollQ, timer, faults>>

\* Mutant of PollReconcileFails: the error is logged and dropped.
PollErrorDropped ==
    /\ UNCHANGED <<pollQ, timer>>
    /\ pw' = IdlePollWorker

\* Reconcile returns an error: its key is added again (after a back-off).
PollReconcileFails ==
    /\ EnqueuePolls({pw.key})
    /\ pw' = IdlePollWorker

\* The Poll is gone: the patch is answered NotFound.
PollPatchNotFound ==
    /\ pw.pc = "patch"
    /\ PollTruth[pw.key] = Nil
    /\ PollReconcileFails
    /\ UNCHANGED <<apiVars, faults>>

\* The call fails, before or after the server applied it.
PollPatchFault ==
    /\ pw.pc = "patch"
    /\ faults < MaxFaults
    /\ faults' = faults + 1
    /\ \/ UNCHANGED pollV
       \/ PollTruth[pw.key] # Nil /\ WritePoll(pw.key, PatchedPoll)
    /\ PollReconcileFails
    /\ UNCHANGED <<respV, now, ops>>

\* Mutant of PollRequeue: requeued whether or not closesAt is still to come.
PollRequeueAlways ==
    /\ pw.pc = "requeue"
    /\ IF pw.poll.spec.closesAt # Nil
       THEN EnqueuePollAt(pw.key, pw.poll.spec.closesAt)
       ELSE UNCHANGED <<pollQ, timer>>
    /\ pw' = IdlePollWorker
    /\ UNCHANGED <<apiVars, faults>>

\* RequeueAfter until closesAt while the Poll is Open; phase is the one
\* computed at the start, closesAt and the time are read now.
PollRequeue ==
    /\ pw.pc = "requeue"
    /\ IF /\ pw.desired.phase = "Open"
          /\ pw.poll.spec.closesAt # Nil
          /\ now < pw.poll.spec.closesAt
       THEN EnqueuePollAt(pw.key, pw.poll.spec.closesAt)
       ELSE UNCHANGED <<pollQ, timer>>
    /\ pw' = IdlePollWorker
    /\ UNCHANGED <<apiVars, faults>>

PollWorkerStep ==
    \/ \E p \in Polls : PollGet(p)
    \/ PollList
    \/ PollPatch
    \/ PollPatchNotFound
    \/ PollRequeue

----------------------------------------------------------------------------
\* Mutant of MapResponseToPoll: responses are not watched.
MapResponseToNoPoll(resp) == {}

\* mapResponseToPoll: the Poll a response refers to.
MapResponseToPoll(resp) == IF resp = Nil THEN {} ELSE {resp.spec.pollRef}
=============================================================================
