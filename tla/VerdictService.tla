--------------------------- MODULE VerdictService ---------------------------
(***************************************************************************)
(* What the operator promises about owners and verdicts, with no caches,   *)
(* queues, workers or restarts: only the stored objects, the clock and the *)
(* responses somebody still has to look at. A response nobody has to look  *)
(* at belongs to the stored Poll it refers to and carries its verdict, and *)
(* its owner and verdict do not change; each change of an object concerns  *)
(* the responses it is about and no other.                                 *)
(***************************************************************************)
EXTENDS ResponseValidation

VARIABLES
    polls,      \* the stored Polls
    votes,      \* the stored responses
    time,       \* the clock
    pending     \* responses whose owner or verdict may be behind

verdictVars == <<polls, votes, time, pending>>

\* The responses that refer to Poll p.
Concerned(p) == {r \in Responses : votes[r] # Nil /\ votes[r].spec.pollRef = p}

\* The owner and verdict of r are those its Poll gives it at some moment up to now.
Judged(r) ==
    LET name == votes[r].spec.pollRef
        poll == polls[name]
    IN  IF poll = Nil
        THEN votes[r].status = NotFoundStatus(votes[r])
        ELSE /\ votes[r].owner = [name |-> name, uid |-> poll.uid]
             /\ \E t \in 0..time : votes[r].status = ValidatedStatus(poll, votes[r], t)

\* What is being deleted is not judged any more.
Settled(r) == votes[r] = Nil \/ votes[r].deleting \/ Judged(r)

Init ==
    /\ polls = [p \in Polls |-> Nil]
    /\ votes = [r \in Responses |-> Nil]
    /\ time = 0
    /\ pending = {}

\* A Poll is created, edited, tallied or deleted.
ChangePoll(p) ==
    /\ polls' = [polls EXCEPT ![p] = polls'[p]]
    /\ pending' = pending \cup Concerned(p)
    /\ UNCHANGED <<votes, time>>

\* A vote is cast without owner and verdict, changed, or removed.
ChangeVote(r) ==
    /\ votes' = [votes EXCEPT ![r] = votes'[r]]
    /\ votes'[r] \in PollResponse \cup {Nil}
    /\ votes'[r] # Nil =>
          IF votes[r] = Nil
          THEN votes'[r].owner = Nil /\ votes'[r].status = EmptyResponseStatus
          ELSE votes'[r].owner = votes[r].owner /\ votes'[r].status = votes[r].status
    /\ pending' = pending \cup {r}
    /\ UNCHANGED <<polls, time>>

\* The owner or the verdict of a response changes only while it is pending, and
\* nothing else of it does.
Judge(r) ==
    /\ r \in pending
    /\ votes[r] # Nil /\ votes'[r] \in PollResponse
    /\ votes' = [votes EXCEPT ![r].owner = votes'[r].owner, ![r].status = votes'[r].status]
    /\ UNCHANGED <<polls, time, pending>>

\* Responses are let go when they are settled; others are looked at again.
Look ==
    /\ pending' \subseteq Responses
    /\ \A r \in pending \ pending' : Settled(r)
    /\ UNCHANGED <<polls, votes, time>>

Clock ==
    /\ time' = time + 1
    /\ UNCHANGED <<polls, votes, pending>>

Next ==
    \/ \E p \in Polls : ChangePoll(p)
    \/ \E r \in Responses : ChangeVote(r) \/ Judge(r)
    \/ Look
    \/ Clock

Spec == Init /\ [][Next]_verdictVars

\* A response nobody has to look at belongs to its Poll and carries its verdict.
SettledIsJudged == \A r \in Responses : r \notin pending => Settled(r)
=============================================================================
