----------------------------- MODULE ApiServer ------------------------------
(***************************************************************************)
(* The environment of the two controllers (external): the API server that  *)
(* stores the objects, the watch streams that feed the informer caches of  *)
(* the manager's client, the users, the garbage collector and the clock.   *)
(*                                                                         *)
(* Of each kind the state keeps the sequence of snapshots the watch stream *)
(* still has to deliver: the first is what the cache holds, the last what  *)
(* the API server stores. A write appends a snapshot, a delivery drops the *)
(* first. Reads of the reconcilers see the cache, their writes go to the   *)
(* server.                                                                 *)
(***************************************************************************)
EXTENDS PollAdmission, ResponseValidation

CONSTANTS
    UserOps,    \* the kinds of operations users perform
    MaxOps,     \* bound: operations users perform
    MaxTime,    \* bound: the clock
    MaxLag      \* bound: snapshots a cache is behind

VARIABLES
    pollV,      \* snapshots of the Polls, oldest (cache) to newest (server)
    respV,      \* snapshots of the PollResponses, likewise
    now,        \* the clock of the operator's process
    ops         \* number of user operations so far; also the source of uids

apiVars == <<pollV, respV, now, ops>>

AllUserOps == {"CreatePoll", "UpdatePoll", "DeletePoll", "CreateResponse",
               "UpdateResponse", "DeleteResponse", "ForegroundDeleteResponse"}

ASSUME BoundsAssumption ==
    /\ MaxOps \in Nat /\ MaxTime \in Nat /\ MaxLag \in Nat \ {0}
    /\ UserOps \subseteq AllUserOps

PollCache == pollV[1]
PollTruth == pollV[Len(pollV)]
RespCache == respV[1]
RespTruth == respV[Len(respV)]

ApiTypeOK ==
    /\ pollV \in Seq(PollStore) /\ Len(pollV) \in 1..(MaxLag + 1)
    /\ respV \in Seq(ResponseStore) /\ Len(respV) \in 1..(MaxLag + 1)
    /\ now \in 0..MaxTime
    /\ ops \in 0..MaxOps

ApiInit ==
    /\ pollV = <<[p \in Polls |-> Nil]>>
    /\ respV = <<[r \in Responses |-> Nil]>>
    /\ now = 0
    /\ ops = 0

----------------------------------------------------------------------------
(* Writes. One that changes nothing creates no version and no event.        *)

WritePoll(p, obj) ==
    /\ Len(pollV) <= MaxLag
    /\ pollV' = IF obj = PollTruth[p] THEN pollV
                ELSE Append(pollV, [PollTruth EXCEPT ![p] = obj])

WriteResponse(r, obj) ==
    /\ Len(respV) <= MaxLag
    /\ respV' = IF obj = RespTruth[r] THEN respV
                ELSE Append(respV, [RespTruth EXCEPT ![r] = obj])

----------------------------------------------------------------------------
(* Users *)

UserOp(kind) ==
    /\ kind \in UserOps
    /\ ops < MaxOps
    /\ ops' = ops + 1
    /\ UNCHANGED now

CreatePoll(p, spec) ==
    /\ UserOp("CreatePoll")
    /\ PollTruth[p] = Nil
    /\ PollCreateAllowed(spec)
    /\ WritePoll(p, [uid |-> ops + 1, generation |-> 1, spec |-> spec,
                     status |-> EmptyPollStatus])
    /\ UNCHANGED respV

\* A changed spec is a new generation.
UpdatePoll(p, spec) ==
    /\ UserOp("UpdatePoll")
    /\ PollTruth[p] # Nil
    /\ spec # PollTruth[p].spec
    /\ PollUpdateAllowed(PollTruth[p].spec, spec)
    /\ WritePoll(p, [PollTruth[p] EXCEPT !.spec = spec, !.generation = @ + 1])
    /\ UNCHANGED respV

DeletePoll(p) ==
    /\ UserOp("DeletePoll")
    /\ PollTruth[p] # Nil
    /\ WritePoll(p, Nil)
    /\ UNCHANGED respV

NewResponse(spec) ==
    [generation |-> 1, spec |-> spec, owner |-> Nil, deleting |-> FALSE,
     status |-> EmptyResponseStatus]

CreateResponse(r, spec) ==
    /\ UserOp("CreateResponse")
    /\ RespTruth[r] = Nil
    /\ ResponseCreateAllowed(spec)
    /\ WriteResponse(r, NewResponse(spec))
    /\ UNCHANGED pollV

UpdateResponse(r, spec) ==
    /\ UserOp("UpdateResponse")
    /\ RespTruth[r] # Nil
    /\ spec # RespTruth[r].spec
    /\ ResponseUpdateAllowed(RespTruth[r].spec, spec)
    /\ WriteResponse(r, [RespTruth[r] EXCEPT !.spec = spec, !.generation = @ + 1])
    /\ UNCHANGED pollV

DeleteResponse(r) ==
    /\ UserOp("DeleteResponse")
    /\ RespTruth[r] # Nil
    /\ WriteResponse(r, Nil)
    /\ UNCHANGED pollV

\* Foreground deletion keeps the object, with a deletionTimestamp, until the
\* garbage collector has dealt with its dependents.
ForegroundDeleteResponse(r) ==
    /\ UserOp("ForegroundDeleteResponse")
    /\ RespTruth[r] # Nil
    /\ ~RespTruth[r].deleting
    /\ WriteResponse(r, [RespTruth[r] EXCEPT !.deleting = TRUE])
    /\ UNCHANGED pollV

UserStep ==
    \/ \E p \in Polls :
          \/ \E spec \in PollSpecs : CreatePoll(p, spec)
          \/ \E spec \in PollSpecs : UpdatePoll(p, spec)
          \/ DeletePoll(p)
    \/ \E r \in Responses :
          \/ \E spec \in ResponseSpecs : CreateResponse(r, spec)
          \/ \E spec \in ResponseSpecs : UpdateResponse(r, spec)
          \/ DeleteResponse(r)
          \/ ForegroundDeleteResponse(r)

----------------------------------------------------------------------------
(* Garbage collector and clock *)

\* The owner references that name a stored Poll under its uid.
LiveOwners ==
    {[name |-> p, uid |-> PollTruth[p].uid] : p \in {q \in Polls : PollTruth[q] # Nil}}

Orphaned(resp) == resp.owner # Nil /\ resp.owner \notin LiveOwners

CollectGarbage(r) ==
    /\ RespTruth[r] # Nil
    /\ RespTruth[r].deleting \/ Orphaned(RespTruth[r])
    /\ WriteResponse(r, Nil)
    /\ UNCHANGED <<pollV, now, ops>>

Tick ==
    /\ now < MaxTime
    /\ now' = now + 1
    /\ UNCHANGED <<pollV, respV, ops>>
=============================================================================
