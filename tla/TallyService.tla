---------------------------- MODULE TallyService ----------------------------
(***************************************************************************)
(* What the operator promises about the published tally, with no caches,   *)
(* queues, workers or restarts: only the stored objects, the clock and the *)
(* Polls somebody still has to look at. A Poll nobody has to look at shows  *)
(* the status Reconcile computes from the stored objects, and its status    *)
(* does not change; each change of an object concerns the Polls it is about *)
(* and no other.                                                            *)
(***************************************************************************)
EXTENDS PollAggregation

VARIABLES
    polls,      \* the stored Polls
    votes,      \* the stored responses
    time,       \* the clock
    unsettled   \* Polls whose status may be behind

serviceVars == <<polls, votes, time, unsettled>>

\* The Poll a vote is about.
About(vote) == IF vote = Nil THEN {} ELSE {vote.spec.pollRef}

\* The status of p is, to statusEqual, the one for the stored objects at some
\* moment up to now.
Current(p) ==
    \/ polls[p] = Nil
    \/ \E t \in 0..time :
          StatusEqual(polls[p].status, DesiredPollStatus(p, polls[p], votes, t))

Init ==
    /\ polls = [p \in Polls |-> Nil]
    /\ votes = [r \in Responses |-> Nil]
    /\ time = 0
    /\ unsettled = {}

\* Users create a Poll with an empty status, change its spec, or delete it.
ChangePoll(p) ==
    /\ polls' = [polls EXCEPT ![p] = polls'[p]]
    /\ polls'[p] # Nil =>
          polls'[p].status = IF polls[p] = Nil THEN EmptyPollStatus ELSE polls[p].status
    /\ unsettled' = unsettled \cup {p}
    /\ UNCHANGED <<votes, time>>

\* A vote is cast, changed, judged, given an owner or removed.
ChangeVote(r) ==
    /\ votes' = [votes EXCEPT ![r] = votes'[r]]
    /\ unsettled' = unsettled \cup About(votes[r]) \cup About(votes'[r])
    /\ UNCHANGED <<polls, time>>

\* The status of a Poll changes only while it is unsettled.
Publish(p) ==
    /\ p \in unsettled
    /\ polls[p] # Nil /\ polls'[p] # Nil
    /\ polls' = [polls EXCEPT ![p].status = polls'[p].status]
    /\ UNCHANGED <<votes, time, unsettled>>

\* Polls are settled when their status is current; others are looked at again.
Look ==
    /\ unsettled' \subseteq Polls
    /\ \A p \in unsettled \ unsettled' : Current(p)
    /\ UNCHANGED <<polls, votes, time>>

Clock ==
    /\ time' = time + 1
    /\ UNCHANGED <<polls, votes, unsettled>>

Next ==
    \/ \E p \in Polls : ChangePoll(p) \/ Publish(p)
    \/ \E r \in Responses : ChangeVote(r)
    \/ Look
    \/ Clock

Spec == Init /\ [][Next]_serviceVars

\* A Poll nobody has to look at shows the status for the stored objects.
SettledIsCurrent == \A p \in Polls : p \notin unsettled => Current(p)
=============================================================================
