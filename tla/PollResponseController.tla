----------------------- MODULE PollResponseController -----------------------
(***************************************************************************)
(* The PollResponse reconciler of                                          *)
(* internal/controller/pollresponse_controller.go with its work queue and  *)
(* the handler of Poll events, which lists the responses when it runs.     *)
(*                                                                         *)
(*    idle --RespGet--> poll --RespGetPoll--> own --EnsureOwner-+          *)
(*                       |  \--- already owned ---> validate <--+          *)
(*                       \---- no such Poll ------> patch <-- Validate     *)
(***************************************************************************)
EXTENDS PollController

VARIABLES
    respQ,      \* keys ready in the work queue
    note,       \* Polls with an event mapPollToResponses has not handled yet
    rw          \* the worker: where it is in Reconcile, and its local variables

respCtlVars == <<respQ, note, rw>>

RespWorker ==
    [pc      : {"idle", "poll", "own", "validate", "patch"},
     key     : Responses \cup {Nil},
     resp    : PollResponse \cup {Nil},           \* resp; base of the patches
     poll    : Poll \cup {Nil},                   \* poll
     desired : PollResponseStatus \cup {Nil}]     \* desired

IdleRespWorker ==
    [pc |-> "idle", key |-> Nil, resp |-> Nil, poll |-> Nil, desired |-> Nil]

RespCtlTypeOK ==
    /\ respQ \subseteq Responses
    /\ note \subseteq Polls
    /\ rw \in RespWorker
    /\ rw.pc # "idle" => rw.key # Nil /\ rw.resp # Nil
    /\ rw.pc \in {"own", "validate"} => rw.poll # Nil
    /\ rw.pc = "patch" => rw.desired # Nil

RespCtlInit ==
    /\ respQ = {}
    /\ note = {}
    /\ rw = IdleRespWorker

----------------------------------------------------------------------------
\* Mutant of MapPollToResponses: what is accepted is not validated again.
MapPollToOpenResponses(p) ==
    {r \in Responses : /\ RespCache[r] # Nil
                       /\ RespCache[r].spec.pollRef = p
                       /\ RespCache[r].status.phase # "Accepted"}

\* mapPollToResponses: the cached responses that refer to Poll p.
MapPollToResponses(p) ==
    {r \in Responses : RespCache[r] # Nil /\ RespCache[r].spec.pollRef = p}

HandlePollEvent(p) ==
    /\ p \in note
    /\ note' = note \ {p}
    /\ respQ' = respQ \cup MapPollToResponses(p)
    /\ UNCHANGED <<apiVars, pollCtlVars, faults, rw>>

----------------------------------------------------------------------------
(* Reconcile *)

RespGet(r) ==
    /\ rw.pc = "idle"
    /\ r \in respQ
    /\ respQ' = respQ \ {r}
    /\ rw' = IF RespCache[r] = Nil \/ RespCache[r].deleting THEN IdleRespWorker
             ELSE [IdleRespWorker EXCEPT !.pc = "poll", !.key = r,
                                         !.resp = RespCache[r]]
    /\ UNCHANGED <<apiVars, pollCtlVars, faults, note>>

\* Mutant of Conclude: the new status is not handed to the patch.
ConcludeWithoutStatus(desired) ==
    rw' = IF ResponseStatusEqual(rw.resp.status, desired) THEN IdleRespWorker
          ELSE [rw EXCEPT !.pc = "patch", !.poll = Nil]

\* accept or reject with the status they build: skip an equal one.
Conclude(desired) ==
    rw' = IF ResponseStatusEqual(rw.resp.status, desired) THEN IdleRespWorker
          ELSE [rw EXCEPT !.pc = "patch", !.poll = Nil, !.desired = desired]

\* Mutant of RespReconcileFails: the error is logged and dropped.
RespErrorDropped ==
    /\ UNCHANGED respQ
    /\ rw' = IdleRespWorker

RespReconcileFails ==
    /\ respQ' = respQ \cup {rw.key}
    /\ rw' = IdleRespWorker

\* Mutant of OwnedBy: owners are compared by name.
OwnedByName(resp, poll) ==
    resp.owner # Nil /\ resp.owner.name = resp.spec.pollRef

OwnedBy(resp, poll) == resp.owner # Nil /\ resp.owner.uid = poll.uid

\* SetControllerReference refuses: the controller is an object of another name.
\* One of the same name is replaced, whatever its uid. (external)
AlreadyOwned(resp) == resp.owner # Nil /\ resp.owner.name # resp.spec.pollRef

\* Get the Poll, and decide whether the response needs its owner reference.
RespGetPoll ==
    LET poll == PollCache[rw.resp.spec.pollRef]
        goto(pc) == rw' = [rw EXCEPT !.pc = pc, !.poll = poll] /\ UNCHANGED respQ
    IN  /\ rw.pc = "poll"
        /\ \/ /\ poll = Nil
              /\ Conclude(NotFoundStatus(rw.resp))
              /\ UNCHANGED respQ
           \/ /\ poll # Nil
              /\ OwnedBy(rw.resp, poll)
              /\ goto("validate")
           \/ /\ poll # Nil
              /\ ~OwnedBy(rw.resp, poll) /\ ~AlreadyOwned(rw.resp)
              /\ goto("own")
           \/ /\ poll # Nil
              /\ ~OwnedBy(rw.resp, poll) /\ AlreadyOwned(rw.resp)
              /\ RespReconcileFails
        /\ UNCHANGED <<apiVars, pollCtlVars, faults, note>>

\* What the owner reference patch makes of the stored response.
OwnedResponse ==
    [RespTruth[rw.key] EXCEPT
        !.owner = [name |-> rw.resp.spec.pollRef, uid |-> rw.poll.uid]]

\* The patch is applied; resp now holds what the server answered.
EnsureOwnerReference ==
    /\ rw.pc = "own"
    /\ RespTruth[rw.key] # Nil
    /\ WriteResponse(rw.key, OwnedResponse)
    /\ rw' = [rw EXCEPT !.pc = "validate", !.resp = OwnedResponse]
    /\ UNCHANGED <<pollV, now, ops, pollCtlVars, faults, respQ, note>>

Validate ==
    /\ rw.pc = "validate"
    /\ Conclude(ValidatedStatus(rw.poll, rw.resp, now))
    /\ UNCHANGED <<apiVars, pollCtlVars, faults, respQ, note>>

\* What the status patch makes of the stored response.
JudgedResponse ==
    [RespTruth[rw.key] EXCEPT
        !.status = MergeResponseStatus(@, rw.resp.status, rw.desired)]

RespPatch ==
    /\ rw.pc = "patch"
    /\ RespTruth[rw.key] # Nil
    /\ WriteResponse(rw.key, JudgedResponse)
    /\ rw' = IdleRespWorker
    /\ UNCHANGED <<pollV, now, ops, pollCtlVars, faults, respQ, note>>

\* The response is gone: the patch is answered NotFound.
RespWriteNotFound ==
    /\ rw.pc \in {"own", "patch"}
    /\ RespTruth[rw.key] = Nil
    /\ RespReconcileFails
    /\ UNCHANGED <<apiVars, pollCtlVars, faults, note>>

\* The call fails, before or after the server applied it.
RespWriteFault ==
    /\ rw.pc \in {"own", "patch"}
    /\ faults < MaxFaults
    /\ faults' = faults + 1
    /\ \/ UNCHANGED respV
       \/ /\ RespTruth[rw.key] # Nil
          /\ \/ rw.pc = "own" /\ WriteResponse(rw.key, OwnedResponse)
             \/ rw.pc = "patch" /\ WriteResponse(rw.key, JudgedResponse)
    /\ RespReconcileFails
    /\ UNCHANGED <<pollV, now, ops, pollCtlVars, note>>

RespWorkerStep ==
    \/ \E r \in Responses : RespGet(r)
    \/ RespGetPoll
    \/ EnsureOwnerReference
    \/ Validate
    \/ RespPatch
    \/ RespWriteNotFound
=============================================================================
