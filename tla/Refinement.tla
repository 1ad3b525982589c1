----------------------------- MODULE Refinement -----------------------------
(***************************************************************************)
(* The operator implements TallyService and VerdictService: the stored     *)
(* objects and the clock are theirs. A Poll is unsettled while an event    *)
(* about it is on its way to the caches, its key is ready, or the worker   *)
(* has it; a response is pending while a version of it, or an event of the *)
(* Poll it refers to, is on its way, its key is ready, or the worker has   *)
(* it.                                                                     *)
(***************************************************************************)
EXTENDS PollOperator

\* The server stores a version of p the cache does not hold yet.
PollAwaited(p) == \E i \in 1..Len(pollV) : pollV[i][p] # pollV[1][p]

\* The server stores a version of a response about p the cache does not hold.
VoteAwaited(p) ==
    \E i, j \in 1..Len(respV), r \in Responses :
       /\ respV[i][r] # respV[j][r]
       /\ respV[i][r] # Nil
       /\ respV[i][r].spec.pollRef = p

Unsettled == {p \in Polls : p \in pollQ \/ PollBusy(p) \/ PollAwaited(p) \/ VoteAwaited(p)}

Service == INSTANCE TallyService
              WITH polls <- PollTruth, votes <- RespTruth, time <- now,
                   unsettled <- Unsettled

\* Every behaviour of the operator is one of the service: a write of one Poll or
\* response disturbs only the Polls it is about, a status is published only for
\* a Poll that something woke, and nobody stops looking at a Poll, whatever was
\* stale, lost, retried or restarted, before its stored status is right
\* (poll_controller.go:56-112 and 294-320).
ImplementsTallyService == Service!Spec

----------------------------------------------------------------------------
\* The server stores a version of r the cache does not hold yet.
RespAwaited(r) == \E i \in 1..Len(respV) : respV[i][r] # respV[1][r]

\* A version of the stored Poll r refers to has still to be delivered, or its
\* event to be mapped to r.
ReferenceAwaited(r) ==
    /\ RespTruth[r] # Nil
    /\ RespTruth[r].spec.pollRef \in note \/ PollAwaited(RespTruth[r].spec.pollRef)

Pending ==
    {r \in Responses : r \in respQ \/ RespBusy(r) \/ RespAwaited(r) \/ ReferenceAwaited(r)}

Verdicts == INSTANCE VerdictService
               WITH polls <- PollTruth, votes <- RespTruth, time <- now,
                    pending <- Pending

\* Every behaviour of the operator is one of the service: owner and verdict of a
\* response change only while it is pending, and it is pending, through stale
\* reads, lost answers, retries, restarts and Polls recreated under another uid,
\* until the stored Poll and response agree with them
\* (pollresponse_controller.go:76-128, 231-287 and 310-345).
ImplementsVerdictService == Verdicts!Spec
=============================================================================
