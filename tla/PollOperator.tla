---------------------------- MODULE PollOperator ----------------------------
(***************************************************************************)
(* The operator: both controllers, the caches they share and their         *)
(* environment, and the restart of the manager process (cmd/main.go). Only *)
(* the leader runs the controllers, so one copy of each is modelled.       *)
(***************************************************************************)
EXTENDS PollResponseController

CONSTANT MaxCrashes     \* bound: restarts of the manager

VARIABLE crashes        \* number of restarts so far

ASSUME CrashesAssumption == MaxCrashes \in Nat

vars == <<pollV, respV, now, ops, pollQ, timer, pw, faults, respQ, note, rw,
          crashes>>

TypeOK ==
    /\ ApiTypeOK
    /\ PollCtlTypeOK
    /\ RespCtlTypeOK
    /\ crashes \in 0..MaxCrashes

Init ==
    /\ ApiInit
    /\ PollCtlInit
    /\ RespCtlInit
    /\ crashes = 0

----------------------------------------------------------------------------
(* Watch events. A delivery updates the cache and then runs the handlers of *)
(* both controllers, registered by their SetupWithManager.                  *)

\* Mutant of ChangedIn: status writes are filtered out (GenerationChangedPredicate).
GenerationChangedIn(old, new) ==
    {k \in DOMAIN new :
        \/ (old[k] = Nil) # (new[k] = Nil)
        \/ old[k] # Nil /\ new[k] # Nil /\ old[k].generation # new[k].generation}

\* The names whose object differs between two snapshots.
ChangedIn(old, new) == {k \in DOMAIN new : new[k] # old[k]}

\* Of a Poll event: For(&Poll{}) in one controller, Watches(&Poll{}) in the
\* other, whose handler runs later.
DeliverPoll ==
    /\ Len(pollV) > 1
    /\ LET changed == ChangedIn(pollV[1], pollV[2])
       IN  /\ EnqueuePolls(changed)
           /\ note' = note \cup changed
    /\ pollV' = Tail(pollV)
    /\ UNCHANGED <<respV, now, ops, pw, faults, respQ, rw, crashes>>

\* Of a PollResponse event: For(&PollResponse{}), and Watches(&PollResponse{})
\* with mapResponseToPoll on the object before and after.
DeliverResponse ==
    /\ Len(respV) > 1
    /\ LET changed == ChangedIn(respV[1], respV[2])
       IN  /\ respQ' = respQ \cup changed
           /\ EnqueuePolls(UNION {MapResponseToPoll(respV[1][r])
                                  \cup MapResponseToPoll(respV[2][r]) : r \in changed})
    /\ respV' = Tail(respV)
    /\ UNCHANGED <<pollV, now, ops, pw, faults, note, rw, crashes>>

\* Mutant of Restart: nothing is reconciled until it changes again.
RestartWithoutList ==
    /\ crashes < MaxCrashes
    /\ crashes' = crashes + 1
    /\ pollV' = <<PollTruth>>
    /\ respV' = <<RespTruth>>
    /\ note' = {} /\ respQ' = {} /\ pollQ' = {}
    /\ timer' = [p \in Polls |-> Nil]
    /\ pw' = IdlePollWorker
    /\ rw' = IdleRespWorker
    /\ UNCHANGED <<now, ops, faults>>

\* The manager stops wherever it is and starts again: queues, timers and
\* workers are lost, the caches list the stored objects, and every object
\* listed is an event.
Restart ==
    /\ crashes < MaxCrashes
    /\ crashes' = crashes + 1
    /\ pollV' = <<PollTruth>>
    /\ respV' = <<RespTruth>>
    /\ LET polls == {p \in Polls : PollTruth[p] # Nil}
           resps == {r \in Responses : RespTruth[r] # Nil}
       IN  /\ note' = polls
           /\ respQ' = resps
           /\ pollQ' = polls \cup {RespTruth[r].spec.pollRef : r \in resps}
    /\ timer' = [p \in Polls |-> Nil]
    /\ pw' = IdlePollWorker
    /\ rw' = IdleRespWorker
    /\ UNCHANGED <<now, ops, faults>>

----------------------------------------------------------------------------
(* What is not the operator's own doing. *)
Environment ==
    \/ UserStep /\ UNCHANGED <<pollCtlVars, respCtlVars, faults, crashes>>
    \/ \E r \in Responses :
          CollectGarbage(r) /\ UNCHANGED <<pollCtlVars, respCtlVars, faults, crashes>>
    \/ Tick /\ UNCHANGED <<pollCtlVars, respCtlVars, faults, crashes>>

PollControllerStep ==
    \/ PollWorkerStep /\ UNCHANGED <<respCtlVars, crashes>>
    \/ PollPatchFault /\ UNCHANGED <<respCtlVars, crashes>>
    \/ \E p \in Polls : PollTimerFires(p) /\ UNCHANGED <<respCtlVars, crashes>>

ResponseControllerStep ==
    \/ RespWorkerStep /\ UNCHANGED crashes
    \/ RespWriteFault /\ UNCHANGED crashes
    \/ \E p \in Polls : HandlePollEvent(p) /\ UNCHANGED crashes

Next ==
    \/ Environment
    \/ DeliverPoll
    \/ DeliverResponse
    \/ PollControllerStep
    \/ ResponseControllerStep
    \/ Restart

Spec == Init /\ [][Next]_vars

\* The watch streams, the event handler, the workers, the timers and the
\* garbage collector run whenever they can: they are goroutines of a live
\* process or the cluster's own controllers. Users, the clock, faults and
\* restarts are never forced.
Fairness ==
    /\ WF_vars(DeliverPoll)
    /\ WF_vars(DeliverResponse)
    /\ WF_vars(PollWorkerStep /\ UNCHANGED <<respCtlVars, crashes>>)
    /\ WF_vars(RespWorkerStep /\ UNCHANGED crashes)
    /\ \A p \in Polls :
          /\ WF_vars(PollTimerFires(p) /\ UNCHANGED <<respCtlVars, crashes>>)
          /\ WF_vars(HandlePollEvent(p) /\ UNCHANGED crashes)
    /\ \A r \in Responses :
          WF_vars(CollectGarbage(r) /\ UNCHANGED <<pollCtlVars, respCtlVars, faults, crashes>>)

FairSpec == Spec /\ Fairness
----------------------------------------------------------------------------
(* Properties *)

PollBusy(p) == pw.pc # "idle" /\ pw.key = p

RespBusy(r) == rw.pc # "idle" /\ rw.key = r

\* Nothing written is still on its way to the caches.
Drained == Len(pollV) = 1 /\ Len(respV) = 1

\* No event, key or running call is left that would reconcile Poll p.
PollQuiet(p) == Drained /\ p \notin pollQ /\ ~PollBusy(p)

\* Likewise for response r.
RespQuiet(r) == Drained /\ note = {} /\ r \notin respQ /\ ~RespBusy(r)

\* Once nothing is left to reconcile Poll p, its stored status is, to
\* statusEqual, the one Reconcile would compute at some moment up to now from
\* the objects as they are stored: no event, merge patch from a stale base,
\* restart or failed call has been lost on the way (poll_controller.go:56-112).
QuietTally ==
    \A p \in Polls :
       PollQuiet(p) /\ PollTruth[p] # Nil =>
          \E t \in 0..now :
             StatusEqual(PollTruth[p].status,
                         DesiredPollStatus(p, PollTruth[p], RespTruth, t))

\* Once nothing is left to reconcile response r, it is owned by the Poll it
\* refers to, under that Poll's current uid, and its verdict is the one for the
\* Poll and the response as they are stored, at some moment up to now
\* (pollresponse_controller.go:76-113).
QuietVerdict ==
    \A r \in Responses :
       RespQuiet(r) /\ RespTruth[r] # Nil /\ ~RespTruth[r].deleting =>
          LET resp == RespTruth[r]
              name == resp.spec.pollRef
              poll == PollTruth[name]
          IN  IF poll = Nil
              THEN resp.status = NotFoundStatus(resp)
              ELSE /\ resp.owner = [name |-> name, uid |-> poll.uid]
                   /\ \E t \in 0..now :
                         resp.status = ValidatedStatus(poll, resp, t)

\* A Poll last seen Open before its closing time, with nothing left to
\* reconcile it, has a delayed queue entry no later than that time
\* (poll_controller.go:104-109).
DeadlineArmed ==
    \A p \in Polls :
       /\ PollQuiet(p)
       /\ PollTruth[p] # Nil
       /\ PollTruth[p].status.phase = "Open"
       /\ PollTruth[p].spec.closesAt # Nil
       /\ now < PollTruth[p].spec.closesAt
       => timer[p] # Nil /\ timer[p] <= PollTruth[p].spec.closesAt

\* A closing published for the Poll's present generation is final: until users
\* change the Poll, no later reconcile, however stale the object it started
\* from, takes it back (poll_controller.go:116-139).
ClosingKept ==
    \A p \in Polls :
       LET old == PollTruth[p]
           new == PollTruth'[p]
       IN  /\ old # Nil /\ new # Nil
           /\ old.uid = new.uid /\ old.generation = new.generation
           /\ old.status.ready = [phase |-> "Closed",
                                  observedGeneration |-> old.generation]
           => /\ new.status.ready = old.status.ready
              /\ old.status.phase = "Closed" => new.status.phase = "Closed"

ClosedIsFinal == [][ClosingKept]_vars

\* Nothing at all is left to do.
Quiescent ==
    /\ Drained
    /\ pollQ = {} /\ note = {} /\ respQ = {}
    /\ pw.pc = "idle" /\ rw.pc = "idle"

\* The operator comes to rest once users do: the status writes of the two
\* controllers, each of which wakes the other, do not keep each other going
\* (SetupWithManager of both controllers).
Settles == <>[]Quiescent

AnswersBy(r, q) ==
    {i \in DOMAIN RespTruth[r].spec.answers :
        RespTruth[r].spec.answers[i].questionID = q}

Chose(r, q, o) ==
    \E i \in AnswersBy(r, q) :
       \E j \in DOMAIN RespTruth[r].spec.answers[i].selectedOptions :
          RespTruth[r].spec.answers[i].selectedOptions[j] = o

\* The two controllers agree on what a vote is. At rest every question counts
\* each response that answers it once, and each of its options each response that
\* chose it once; none that is counted chose anything else: aggregateResults skips
\* none of what validateResponse let through, and counts none of it twice
\* (poll_controller.go:184-200). A respondent may have several responses, each of
\* which counts. Said of Polls without a counted response that is being deleted:
\* those are not judged again.
TalliesAddUp ==
    Quiescent =>
       \A p \in Polls, q \in Questions :
          LET question == PollTruth[p].spec.questions[q]
              result == PollTruth[p].status.results[q]
              counted == CountedResponses(p, RespTruth)
              voters == {r \in counted : AnswersBy(r, q) # {}}
              choosers(o) == {r \in voters : Chose(r, q, o)}
          IN  /\ PollTruth[p] # Nil /\ question # Nil
              /\ \A r \in counted : ~RespTruth[r].deleting
              => /\ result.responses = Cardinality(voters)
                 /\ \A o \in Options :
                       IF o \in TalliedOptions(question)
                       THEN VotesOrZero(result.options, o) = Cardinality(choosers(o))
                       ELSE choosers(o) = {}
=============================================================================
