---------------------------- MODULE StatusProofs ----------------------------
(***************************************************************************)
(* What the pure operators of PollAggregation and ResponseValidation       *)
(* return, for every value of the constants: types, what a merge patch     *)
(* from an up-to-date base does, and which responses a tally depends on.   *)
(***************************************************************************)
EXTENDS ResponseValidation, FiniteSetTheorems, TLAPS

----------------------------------------------------------------------------
(* The status of a Poll                                                     *)

(* The set of counted answers, and of counted votes, is finite.             *)
LEMMA TallyFinite ==
    ASSUME NEW p, NEW q, NEW o, NEW list
    PROVE  /\ IsFiniteSet(CountedResponses(p, list))
           /\ IsFiniteSet(AnswersTo(q, p, list))
           /\ IsFiniteSet(VotesFor(o, q, p, list))
<1>1. IsFiniteSet(1..MaxAnswers) /\ IsFiniteSet(1..MaxSelections)
  BY FS_Interval, LimitsAssumption
<1>2. IsFiniteSet(CountedResponses(p, list))
  BY NamesAssumption, FS_Subset DEF CountedResponses
<1>3. IsFiniteSet(AnswersTo(q, p, list))
  <2>1. IsFiniteSet(CountedResponses(p, list) \X (1..MaxAnswers))
    BY <1>1, <1>2, FS_Product
  <2>2. AnswersTo(q, p, list) \subseteq CountedResponses(p, list) \X (1..MaxAnswers)
    BY DEF AnswersTo
  <2> QED BY <2>1, <2>2, FS_Subset
<1>4. IsFiniteSet(VotesFor(o, q, p, list))
  <2>1. IsFiniteSet(AnswersTo(q, p, list) \X (1..MaxSelections))
    BY <1>1, <1>3, FS_Product
  <2>2. VotesFor(o, q, p, list) \subseteq AnswersTo(q, p, list) \X (1..MaxSelections)
    BY DEF VotesFor
  <2> QED BY <2>1, <2>2, FS_Subset
<1> QED BY <1>2, <1>3, <1>4

(* aggregateResults returns a tally and a number of responses.              *)
LEMMA TallyType ==
    ASSUME NEW p, NEW spec, NEW list
    PROVE  /\ AggregateResults(p, spec, list) \in QuestionResults
           /\ TotalResponses(p, list) \in Nat
<1>1. ASSUME NEW q \in Questions
      PROVE  Cardinality(AnswersTo(q, p, list)) \in Nat
  BY TallyFinite, FS_CardinalityType
<1>2. ASSUME NEW q \in Questions, NEW o \in Options
      PROVE  Cardinality(VotesFor(o, q, p, list)) \in Nat
  BY TallyFinite, FS_CardinalityType
<1>3. ASSUME NEW q \in Questions
      PROVE  [o \in Options |->
                 IF o \in TalliedOptions(spec.questions[q])
                 THEN Cardinality(VotesFor(o, q, p, list)) ELSE Nil]
             \in [Options -> Nat \cup {Nil}]
  BY <1>2
<1>4. AggregateResults(p, spec, list) \in QuestionResults
  BY <1>1, <1>3 DEF AggregateResults, QuestionResults, QuestionResult
<1>5. TotalResponses(p, list) \in Nat
  BY TallyFinite, FS_CardinalityType DEF TotalResponses
<1> QED BY <1>4, <1>5

(* computePhase keeps the type of the status it fills in.                   *)
LEMMA ComputePhaseType ==
    ASSUME NEW spec \in PollSpec, NEW status \in PollStatus, NEW t \in Nat
    PROVE  ComputePhase(spec, status, t) \in PollStatus
BY DEF ComputePhase, PollStatus, PollPhases

LEMMA DesiredType ==
    ASSUME NEW p, NEW poll \in Poll, NEW list, NEW status \in PollStatus
    PROVE  WithTally(p, poll, status, list) \in PollStatus
<1>1. AggregateResults(p, poll.spec, list) \in QuestionResults
      /\ TotalResponses(p, list) \in Nat
  BY TallyType
<1>2. [phase |-> status.phase, observedGeneration |-> poll.generation] \in ReadyCondition
  BY DEF ReadyCondition, Poll, PollStatus
<1> QED BY <1>1, <1>2 DEF WithTally, PollStatus

(* A merge patch writes field by field values of the right type ...         *)
LEMMA MergePollStatusType ==
    ASSUME NEW stored \in PollStatus, NEW base \in PollStatus,
           NEW desired \in PollStatus
    PROVE  MergePollStatus(stored, base, desired) \in PollStatus
BY DEF MergePollStatus, Patched, PollStatus

(* ... and, computed from what is stored, stores exactly the desired one.   *)
LEMMA MergePollStatusFresh ==
    ASSUME NEW base \in PollStatus, NEW desired \in PollStatus
    PROVE  MergePollStatus(base, base, desired) = desired
BY DEF MergePollStatus, Patched, PollStatus

(* statusEqual is reflexive.                                                *)
LEMMA StatusEqualReflexive ==
    ASSUME NEW status \in PollStatus
    PROVE  StatusEqual(status, status)
<1>1. ASSUME NEW options \in [Options -> Nat \cup {Nil}]
      PROVE  OptionsEqual(options, options)
  BY DEF OptionsEqual, Entries, VotesOrZero
<1>2. ResultsEqual(status.results, status.results)
  <2>1. status.results \in QuestionResults
    BY DEF PollStatus
  <2>2. ASSUME NEW q \in Entries(status.results)
        PROVE  /\ status.results[q] # Nil
               /\ OptionsEqual(status.results[q].options, status.results[q].options)
    <3>1. status.results[q] \in QuestionResult
      BY <2>1 DEF QuestionResults, Entries
    <3> QED BY <3>1, <1>1 DEF QuestionResult, Entries
  <2> QED BY <2>2 DEF ResultsEqual
<1> QED BY <1>2 DEF StatusEqual

(* A status that is equal to the desired one, to statusEqual, shows the     *)
(* counts of the tally.                                                     *)
LEMMA EqualShowsTally ==
    ASSUME NEW p, NEW poll \in Poll, NEW list, NEW t \in Nat, NEW status,
           StatusEqual(status, DesiredPollStatus(p, poll, list, t)),
           NEW q \in Questions, poll.spec.questions[q] # Nil
    PROVE  /\ status.results[q].responses = Cardinality(AnswersTo(q, p, list))
           /\ \A o \in Options :
                 o \in TalliedOptions(poll.spec.questions[q]) =>
                    VotesOrZero(status.results[q].options, o) = Cardinality(VotesFor(o, q, p, list))
<1> DEFINE results == AggregateResults(p, poll.spec, list)
<1>1. ComputePhase(poll.spec, poll.status, t) \in PollStatus
  BY ComputePhaseType DEF Poll
<1>2. ResultsEqual(status.results, results)
  BY <1>1 DEF StatusEqual, DesiredPollStatus, WithTally, PollStatus
<1>3. results \in QuestionResults
  BY TallyType
<1>4. /\ results[q].responses = Cardinality(AnswersTo(q, p, list))
      /\ \A o \in Options :
            o \in TalliedOptions(poll.spec.questions[q]) =>
               results[q].options[o] = Cardinality(VotesFor(o, q, p, list))
  BY DEF AggregateResults
<1>5. results[q] \in QuestionResult
  <2>1. [o \in Options |-> IF o \in TalliedOptions(poll.spec.questions[q])
                           THEN Cardinality(VotesFor(o, q, p, list)) ELSE Nil]
           \in [Options -> Nat \cup {Nil}]
    BY TallyFinite, FS_CardinalityType
  <2>2. Cardinality(AnswersTo(q, p, list)) \in Nat
    BY TallyFinite, FS_CardinalityType
  <2> QED BY <2>1, <2>2 DEF AggregateResults, QuestionResult
<1> HIDE DEF results
<1>6. q \in Entries(results)
  BY <1>3, <1>5, NilAssumption DEF Entries, QuestionResults
<1>7. /\ status.results[q].responses = results[q].responses
      /\ OptionsEqual(status.results[q].options, results[q].options)
  BY <1>2, <1>6 DEF ResultsEqual
<1>8. ASSUME NEW o \in Options, o \in TalliedOptions(poll.spec.questions[q])
      PROVE  VotesOrZero(status.results[q].options, o) = results[q].options[o]
  <2>1. results[q].options[o] \in Nat
    BY <1>4, <1>8, TallyFinite, FS_CardinalityType
  <2>2. o \in Entries(results[q].options)
    BY <1>5, <2>1, NilAssumption DEF Entries, QuestionResult
  <2> QED BY <1>7, <2>2 DEF OptionsEqual
<1> QED BY <1>4, <1>7, <1>8

(* The tally for p depends only on the responses that refer to p: a change  *)
(* of others leaves it as it was.                                           *)
LEMMA TallyLocal ==
    ASSUME NEW p \in Polls, NEW spec,
           NEW old, NEW new,
           \A r \in Responses :
              \/ new[r] = old[r]
              \/ /\ old[r] = Nil \/ old[r].spec.pollRef # p
                 /\ new[r] = Nil \/ new[r].spec.pollRef # p
    PROVE  /\ AggregateResults(p, spec, new) = AggregateResults(p, spec, old)
           /\ TotalResponses(p, new) = TotalResponses(p, old)
<1>1. /\ CountedResponses(p, new) = CountedResponses(p, old)
      /\ \A r \in CountedResponses(p, old) : new[r] = old[r]
  BY DEF CountedResponses
<1>2. ASSUME NEW q PROVE AnswersTo(q, p, new) = AnswersTo(q, p, old)
  BY <1>1 DEF AnswersTo
<1>3. ASSUME NEW q, NEW o PROVE VotesFor(o, q, p, new) = VotesFor(o, q, p, old)
  <2>1. \A a \in AnswersTo(q, p, old) : new[a[1]] = old[a[1]]
    BY <1>1 DEF AnswersTo
  <2> DEFINE All == AnswersTo(q, p, old) \X (1..MaxSelections)
             Vote(list, v) ==
                LET selected == list[v[1][1]].spec.answers[v[1][2]].selectedOptions
                IN  v[2] <= Len(selected) /\ selected[v[2]] = o
  <2>2. \A v \in All : v[1] \in AnswersTo(q, p, old)
    OBVIOUS
  <2>3. \A v \in All : new[v[1][1]] = old[v[1][1]]
    BY <2>1, <2>2
  <2>4. \A v \in All : Vote(new, v) = Vote(old, v)
    BY <2>3
  <2>5. VotesFor(o, q, p, new) = {v \in All : Vote(new, v)}
    BY <1>2 DEF VotesFor
  <2>6. VotesFor(o, q, p, old) = {v \in All : Vote(old, v)}
    BY DEF VotesFor
  <2> HIDE DEF All, Vote
  <2> QED BY <2>4, <2>5, <2>6
<1>4. AggregateResults(p, spec, new) = AggregateResults(p, spec, old)
  BY <1>2, <1>3 DEF AggregateResults
<1>5. TotalResponses(p, new) = TotalResponses(p, old)
  BY <1>1 DEF TotalResponses
<1> QED BY <1>4, <1>5

----------------------------------------------------------------------------
(* The status of a response                                                *)

(* Every verdict has one of the declared reasons.                           *)
LEMMA ReasonType ==
    ASSUME NEW pollSpec, NEW respSpec, NEW t
    PROVE  ValidateResponse(pollSpec, respSpec, t) \in Reasons
<1>1. ASSUME NEW options, NEW selected
      PROVE  SelectionsReason(options, selected) \in Reasons
  BY DEF SelectionsReason, Reasons
<1>2. ASSUME NEW question, NEW ans
      PROVE  ChoiceReason(question, ans) \in Reasons
  BY <1>1 DEF ChoiceReason, Reasons
<1>3. ASSUME NEW question, NEW ans
      PROVE  FreeTextReason(question, ans) \in Reasons
  BY DEF FreeTextReason, Reasons
<1>4. ASSUME NEW questions, NEW ans
      PROVE  AnswerReason(questions, ans) \in Reasons
  BY <1>2, <1>3 DEF AnswerReason, ValidateAnswer, Reasons
<1> QED BY <1>4 DEF ValidateResponse, Reasons

LEMMA AcceptedStatusType ==
    ASSUME NEW resp \in PollResponse, NEW g \in Nat, NEW t \in Nat
    PROVE  AcceptedStatus(resp, g, t) \in PollResponseStatus
BY DEF AcceptedStatus, Verdict, VerdictCondition, Reasons, PollResponse,
       PollResponseStatus, PollResponsePhases

LEMMA RejectedStatusType ==
    ASSUME NEW resp \in PollResponse, NEW g \in Nat, NEW reason \in Reasons
    PROVE  RejectedStatus(resp, g, reason) \in PollResponseStatus
BY DEF RejectedStatus, Verdict, VerdictCondition, PollResponse,
       PollResponseStatus, PollResponsePhases

(* The statuses the reconciler writes have the declared type.               *)
LEMMA ValidatedStatusType ==
    ASSUME NEW poll \in Poll, NEW resp \in PollResponse, NEW t \in Nat
    PROVE  ValidatedStatus(poll, resp, t) \in PollResponseStatus
<1>1. poll.generation \in Nat
  BY DEF Poll
<1>2. ValidateResponse(poll.spec, resp.spec, t) \in Reasons
  BY ReasonType
<1> QED BY <1>1, <1>2, AcceptedStatusType, RejectedStatusType DEF ValidatedStatus

LEMMA NotFoundStatusType ==
    ASSUME NEW resp \in PollResponse
    PROVE  NotFoundStatus(resp) \in PollResponseStatus
BY RejectedStatusType DEF NotFoundStatus, Reasons

LEMMA MergeResponseStatusType ==
    ASSUME NEW stored \in PollResponseStatus, NEW base \in PollResponseStatus,
           NEW desired \in PollResponseStatus
    PROVE  MergeResponseStatus(stored, base, desired) \in PollResponseStatus
BY DEF MergeResponseStatus, Patched, PollResponseStatus

(* A merge patch computed from what is stored stores exactly the desired    *)
(* status.                                                                  *)
LEMMA MergeResponseStatusFresh ==
    ASSUME NEW base \in PollResponseStatus, NEW desired \in PollResponseStatus
    PROVE  MergeResponseStatus(base, base, desired) = desired
BY DEF MergeResponseStatus, Patched, PollResponseStatus

----------------------------------------------------------------------------
(* What Accepted means                                                      *)

(* A non-empty set of numbers has a first.                                  *)
LEMMA FirstOf ==
    ASSUME NEW S \in SUBSET Nat, S # {}
    PROVE  Min(S) \in S
<1>1. PICK x \in S : \A y \in S : ~ (<<y, x>> \in OpToRel(<, Nat))
  BY NatLessThanWellFounded, WFMin
<1>2. \A y \in S : ~ (y < x)
  BY <1>1, Zenon DEF OpToRel
<1>3. \A y \in S : x =< y
  BY <1>2
<1> QED BY <1>3 DEF Min

(* validateResponse accepts nothing unless validateAnswer accepts each      *)
(* answer: no failure is passed over.                                       *)
LEMMA AcceptsEachAnswer ==
    ASSUME NEW pollSpec, NEW respSpec \in PollResponseSpec, NEW t,
           ValidateResponse(pollSpec, respSpec, t) = "Accepted",
           NEW i \in 1..Len(respSpec.answers)
    PROVE  AnswerReason(pollSpec.questions, respSpec.answers[i]) = "Accepted"
<1> DEFINE Reason(k) == AnswerReason(pollSpec.questions, respSpec.answers[k])
           failing == {k \in DOMAIN respSpec.answers : Reason(k) # "Accepted"}
<1>1. DOMAIN respSpec.answers = 1..Len(respSpec.answers) /\ Len(respSpec.answers) \in Nat
  BY DEF PollResponseSpec
<1>2. failing = {} \/ Reason(Min(failing)) = "Accepted"
  BY DEF ValidateResponse
<1>3. failing \in SUBSET Nat
  BY <1>1
<1>4. failing # {} => Min(failing) \in failing
  <2> HIDE DEF failing
  <2> QED BY <1>3, FirstOf
<1>5. failing = {}
  BY <1>2, <1>4
<1> QED BY <1>1, <1>5

(* An accepted answer selects options the tally has, none of them twice.    *)
LEMMA AcceptedSelections ==
    ASSUME NEW question \in PollQuestion, NEW ans \in PollAnswer,
           ValidateAnswer(question, ans) = "Accepted",
           NEW j \in 1..Len(ans.selectedOptions)
    PROVE  /\ ans.selectedOptions[j] \in TalliedOptions(question)
           /\ \A i \in 1..(j - 1) : ans.selectedOptions[i] # ans.selectedOptions[j]
<1>1. ans.selectedOptions \in Seq(Options) /\ ans.selectedOptions # << >>
  BY DEF PollAnswer
<1>2. question.type = "Choice" /\ question.choice # Nil
  BY <1>1 DEF ValidateAnswer, ChoiceReason, FreeTextReason
<1>3. question.choice.options \in Seq(Options)
  BY <1>2 DEF PollQuestion, ChoiceQuestion
<1>4. SelectionsReason(question.choice.options, ans.selectedOptions) = "Accepted"
  BY <1>2 DEF ValidateAnswer, ChoiceReason
<1>5. /\ ans.selectedOptions[j] \in
              {question.choice.options[k] : k \in DOMAIN question.choice.options}
      /\ \A i \in 1..(j - 1) : ans.selectedOptions[i] # ans.selectedOptions[j]
  BY <1>1, <1>4 DEF SelectionsReason
<1> QED BY <1>2, <1>3, <1>5 DEF TalliedOptions

(* A function that meets every element of T once tells that T has as many   *)
(* elements as its domain.                                                  *)
LEMMA SameCount ==
    ASSUME NEW S, NEW T, IsFiniteSet(S), NEW f \in [S -> T],
           \A x, y \in S : f[x] = f[y] => x = y,
           \A z \in T : \E x \in S : f[x] = z
    PROVE  Cardinality(T) = Cardinality(S)
<1>1. f \in Bijection(S, T)
  BY DEF Bijection, Injection, Surjection, IsInjective
<1> QED BY <1>1, FS_Bijection DEF ExistsBijection
=============================================================================
