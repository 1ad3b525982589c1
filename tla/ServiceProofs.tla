--------------------------- MODULE ServiceProofs ----------------------------
(***************************************************************************)
(* What the abstract services promise follows from their actions alone.    *)
(***************************************************************************)
EXTENDS TallyService, StatusProofs, TLAPS

VARIABLE pending    \* of VerdictService, whose other variables are TallyService's

Verdicts == INSTANCE VerdictService

----------------------------------------------------------------------------
(* Tallies *)

(* The domains the actions keep.                                            *)
Shape == DOMAIN polls = Polls /\ DOMAIN votes = Responses /\ time \in Nat

(* A Poll stays current while it, and the votes about it, stay as they are. *)
LEMMA CurrentLocal ==
    ASSUME NEW p \in Polls, Current(p), time \in Nat, time' \in Nat, time <= time',
           polls'[p] = polls[p],
           \A r \in Responses :
              votes'[r] = votes[r] \/ p \notin About(votes[r]) \cup About(votes'[r])
    PROVE  Current(p)'
<1>1. CASE polls[p] = Nil
  BY <1>1 DEF Current
<1>2. CASE polls[p] # Nil
  <2>1. PICK t \in 0..time :
           StatusEqual(polls[p].status, DesiredPollStatus(p, polls[p], votes, t))
    BY <1>2 DEF Current
  <2>2. \A r \in Responses :
           \/ votes'[r] = votes[r]
           \/ /\ votes[r] = Nil \/ votes[r].spec.pollRef # p
              /\ votes'[r] = Nil \/ votes'[r].spec.pollRef # p
    BY DEF About
  <2>3. DesiredPollStatus(p, polls[p], votes', t) = DesiredPollStatus(p, polls[p], votes, t)
    BY <2>2, TallyLocal DEF DesiredPollStatus, WithTally
  <2>4. t \in 0..time'
    OBVIOUS
  <2> QED BY <2>1, <2>3, <2>4 DEF Current
<1> QED BY <1>1, <1>2

(* A Poll that is not unsettled is current: a changed vote disturbs only    *)
(* the tally of the Poll it is about (aggregateResults counts a response    *)
(* for its pollRef, poll_controller.go:173-182).                            *)
THEOREM ServiceSettles == Spec => []SettledIsCurrent
<1>1. Init => Shape /\ SettledIsCurrent
  BY DEF Init, Shape, SettledIsCurrent, Current
<1>2. Shape /\ SettledIsCurrent /\ [Next]_serviceVars => (Shape /\ SettledIsCurrent)'
  <2> SUFFICES ASSUME Shape, SettledIsCurrent, [Next]_serviceVars
               PROVE  Shape' /\ SettledIsCurrent'
    OBVIOUS
  <2>1. ASSUME NEW q \in Polls, ChangePoll(q)
        PROVE  Shape' /\ SettledIsCurrent'
    <3>1. Shape'
      BY <2>1 DEF ChangePoll, Shape
    <3>2. ASSUME NEW p \in Polls, p \notin unsettled' PROVE Current(p)'
      <4>1. p # q /\ p \notin unsettled /\ polls'[p] = polls[p] /\ votes' = votes /\ time' = time
        BY <2>1, <3>2 DEF ChangePoll, Shape
      <4> QED BY <4>1, CurrentLocal DEF SettledIsCurrent, Shape
    <3> QED BY <3>1, <3>2 DEF SettledIsCurrent
  <2>2. ASSUME NEW q \in Polls, Publish(q)
        PROVE  Shape' /\ SettledIsCurrent'
    <3>1. Shape'
      BY <2>2 DEF Publish, Shape
    <3>2. ASSUME NEW p \in Polls, p \notin unsettled' PROVE Current(p)'
      <4>1. p # q /\ p \notin unsettled /\ polls'[p] = polls[p] /\ votes' = votes /\ time' = time
        BY <2>2, <3>2 DEF Publish, Shape
      <4> QED BY <4>1, CurrentLocal DEF SettledIsCurrent, Shape
    <3> QED BY <3>1, <3>2 DEF SettledIsCurrent
  <2>3. ASSUME NEW s \in Responses, ChangeVote(s)
        PROVE  Shape' /\ SettledIsCurrent'
    <3>1. Shape'
      BY <2>3 DEF ChangeVote, Shape
    <3>2. ASSUME NEW p \in Polls, p \notin unsettled' PROVE Current(p)'
      <4>1. p \notin unsettled /\ polls' = polls /\ time' = time
        BY <2>3, <3>2 DEF ChangeVote
      <4>2. \A r \in Responses :
               votes'[r] = votes[r] \/ p \notin About(votes[r]) \cup About(votes'[r])
        BY <2>3, <3>2 DEF ChangeVote, Shape
      <4> QED BY <4>1, <4>2, CurrentLocal DEF SettledIsCurrent, Shape
    <3> QED BY <3>1, <3>2 DEF SettledIsCurrent
  <2>4. CASE Look \/ UNCHANGED serviceVars
    <3>1. UNCHANGED <<polls, votes, time>>
      BY <2>4 DEF Look, serviceVars
    <3>2. ASSUME NEW p \in Polls, p \notin unsettled' PROVE Current(p)'
      <4>1. Current(p)
        BY <2>4, <3>2 DEF Look, serviceVars, SettledIsCurrent
      <4> QED BY <3>1, <4>1, CurrentLocal DEF Shape
    <3> QED BY <3>1, <3>2 DEF SettledIsCurrent, Shape
  <2>5. CASE Clock
    <3>1. UNCHANGED <<polls, votes, unsettled>> /\ time \in Nat /\ time' = time + 1
      BY <2>5 DEF Clock, Shape
    <3>2. ASSUME NEW p \in Polls, p \notin unsettled' PROVE Current(p)'
      BY <3>1, <3>2, CurrentLocal DEF SettledIsCurrent
    <3> QED BY <3>1, <3>2 DEF SettledIsCurrent, Shape
  <2> QED BY <2>1, <2>2, <2>3, <2>4, <2>5 DEF Next
<1> QED BY <1>1, <1>2, PTL DEF Spec

----------------------------------------------------------------------------
(* Verdicts *)

(* The types the actions keep.                                              *)
VotesTyped == DOMAIN polls = Polls /\ votes \in ResponseStore /\ time \in Nat

(* The types of the service are those of the API.                           *)
LEMMA SameResponses == Verdicts!PollResponse = PollResponse
<1>1. Verdicts!FreeText = FreeText
  BY DEF FreeText, Verdicts!FreeText
<1>2. Verdicts!PollResponseSpec = PollResponseSpec
  BY <1>1 DEF PollResponseSpec, PollAnswer, Verdicts!PollResponseSpec, Verdicts!PollAnswer
<1>3. Verdicts!PollResponseStatus = PollResponseStatus
  BY DEF PollResponseStatus, PollResponsePhases, VerdictCondition, Reasons,
     Verdicts!PollResponseStatus, Verdicts!PollResponsePhases,
     Verdicts!VerdictCondition, Verdicts!Reasons
<1> QED BY <1>2, <1>3 DEF PollResponse, OwnerReference,
        Verdicts!PollResponse, Verdicts!OwnerReference

(* A settled response stays so while it and its Poll stay as they are.      *)
LEMMA SettledLocal ==
    ASSUME NEW r \in Responses, Verdicts!Settled(r), votes'[r] = votes[r],
           votes[r] # Nil =>
              polls'[votes[r].spec.pollRef] = polls[votes[r].spec.pollRef],
           time \in Nat, time' \in Nat, time <= time'
    PROVE  Verdicts!Settled(r)'
<1>1. CASE votes[r] = Nil \/ votes[r].deleting
  BY <1>1 DEF Verdicts!Settled
<1>2. CASE votes[r] # Nil /\ Verdicts!Judged(r)
  <2>1. 0..time \subseteq 0..time'
    OBVIOUS
  <2> QED BY <1>2, <2>1 DEF Verdicts!Settled, Verdicts!Judged
<1> QED BY <1>1, <1>2 DEF Verdicts!Settled

(* A response that is not pending is settled: a changed Poll disturbs only  *)
(* the verdicts of the responses that refer to it (mapPollToResponses,      *)
(* pollresponse_controller.go:322-345).                                     *)
THEOREM VerdictsSettle == Verdicts!Spec => []Verdicts!SettledIsJudged
<1>1. Verdicts!Init => VotesTyped /\ Verdicts!SettledIsJudged
  BY DEF Verdicts!Init, VotesTyped, ResponseStore, Verdicts!SettledIsJudged, Verdicts!Settled
<1>2. VotesTyped /\ Verdicts!SettledIsJudged /\ [Verdicts!Next]_(Verdicts!verdictVars)
         => (VotesTyped /\ Verdicts!SettledIsJudged)'
  <2> SUFFICES ASSUME VotesTyped, Verdicts!SettledIsJudged, [Verdicts!Next]_(Verdicts!verdictVars)
               PROVE  VotesTyped' /\ Verdicts!SettledIsJudged'
    OBVIOUS
  <2>1. ASSUME NEW p \in Polls, Verdicts!ChangePoll(p)
        PROVE  VotesTyped' /\ Verdicts!SettledIsJudged'
    <3>1. VotesTyped'
      BY <2>1 DEF Verdicts!ChangePoll, VotesTyped
    <3>2. ASSUME NEW r \in Responses, r \notin pending' PROVE Verdicts!Settled(r)'
      <4>1. /\ r \notin pending /\ votes' = votes /\ time' = time
            /\ votes[r] # Nil => votes[r].spec.pollRef # p
        BY <2>1, <3>2 DEF Verdicts!ChangePoll, Verdicts!Concerned
      <4>2. \A q \in Polls : q # p => polls'[q] = polls[q]
        BY <2>1 DEF Verdicts!ChangePoll, VotesTyped
      <4>3. votes[r] # Nil => votes[r].spec.pollRef \in Polls
        BY DEF VotesTyped, ResponseStore, PollResponse, PollResponseSpec
      <4> QED BY <4>1, <4>2, <4>3, SettledLocal DEF Verdicts!SettledIsJudged, VotesTyped
    <3> QED BY <3>1, <3>2 DEF Verdicts!SettledIsJudged
  <2>2. ASSUME NEW s \in Responses, Verdicts!ChangeVote(s) \/ Verdicts!Judge(s)
        PROVE  VotesTyped' /\ Verdicts!SettledIsJudged'
    <3>1. votes' = [votes EXCEPT ![s] = votes'[s]] /\ votes'[s] \in PollResponse \cup {Nil}
      <4>1. CASE Verdicts!ChangeVote(s)
        BY <4>1, SameResponses DEF Verdicts!ChangeVote
      <4>2. CASE Verdicts!Judge(s)
        <5> DEFINE new == [votes[s] EXCEPT !.owner = votes'[s].owner,
                                           !.status = votes'[s].status]
        <5>1. votes' = [votes EXCEPT ![s] = new] /\ votes'[s] \in PollResponse
          BY <4>2, SameResponses DEF Verdicts!Judge, VotesTyped, ResponseStore
        <5> HIDE DEF new
        <5>2. votes'[s] = new
          BY <5>1 DEF VotesTyped, ResponseStore
        <5> QED BY <5>1, <5>2
      <4> QED BY <2>2, <4>1, <4>2
    <3>2. UNCHANGED <<polls, time>> /\ pending \subseteq pending' /\ s \in pending'
      BY <2>2 DEF Verdicts!ChangeVote, Verdicts!Judge
    <3>3. VotesTyped'
      BY <3>1, <3>2 DEF VotesTyped, ResponseStore
    <3>4. ASSUME NEW r \in Responses, r \notin pending' PROVE Verdicts!Settled(r)'
      <4>1. r # s /\ r \notin pending
        BY <3>2, <3>4
      <4>2. votes'[r] = votes[r]
        BY <3>1, <4>1 DEF VotesTyped, ResponseStore
      <4> QED BY <3>2, <4>1, <4>2, SettledLocal DEF Verdicts!SettledIsJudged, VotesTyped
    <3> QED BY <3>3, <3>4 DEF Verdicts!SettledIsJudged
  <2>3. CASE Verdicts!Look \/ UNCHANGED Verdicts!verdictVars
    <3>1. UNCHANGED <<polls, votes, time>>
      BY <2>3 DEF Verdicts!Look, Verdicts!verdictVars
    <3>2. ASSUME NEW r \in Responses, r \notin pending' PROVE Verdicts!Settled(r)'
      <4>1. Verdicts!Settled(r)
        BY <2>3, <3>2 DEF Verdicts!Look, Verdicts!verdictVars, Verdicts!SettledIsJudged
      <4> QED BY <3>1, <4>1, SettledLocal DEF VotesTyped
    <3> QED BY <3>1, <3>2 DEF Verdicts!SettledIsJudged, VotesTyped
  <2>4. CASE Verdicts!Clock
    <3>1. UNCHANGED <<polls, votes, pending>> /\ time \in Nat /\ time' = time + 1
      BY <2>4 DEF Verdicts!Clock, VotesTyped
    <3>2. ASSUME NEW r \in Responses, r \notin pending' PROVE Verdicts!Settled(r)'
      BY <3>1, <3>2, SettledLocal DEF Verdicts!SettledIsJudged
    <3> QED BY <3>1, <3>2 DEF Verdicts!SettledIsJudged, VotesTyped
  <2> QED BY <2>1, <2>2, <2>3, <2>4 DEF Verdicts!Next
<1> QED BY <1>1, <1>2, PTL DEF Verdicts!Spec
=============================================================================
