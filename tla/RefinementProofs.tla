-------------------------- MODULE RefinementProofs --------------------------
(***************************************************************************)
(* The operator implements TallyService and VerdictService, for every      *)
(* value of the constants.                                                 *)
(***************************************************************************)
EXTENDS VerdictProofs

----------------------------------------------------------------------------
(* Tallies                                                                  *)

(* The operators of the service are those of the operator.                  *)
LEMMA SameVerdict ==
    ASSUME NEW a, NEW b, NEW p, NEW poll, NEW list, NEW t
    PROVE  /\ Service!StatusEqual(a, b) = StatusEqual(a, b)
           /\ Service!DesiredPollStatus(p, poll, list, t) = DesiredPollStatus(p, poll, list, t)
           /\ Service!EmptyPollStatus = EmptyPollStatus
<1>1. ASSUME NEW S PROVE Service!Cardinality(S) = Cardinality(S)
  BY DEF Cardinality, Service!Cardinality
<1>2. Service!StatusEqual(a, b) = StatusEqual(a, b)
  BY <1>1 DEF StatusEqual, ResultsEqual, OptionsEqual, Entries, VotesOrZero,
     Service!StatusEqual, Service!ResultsEqual, Service!OptionsEqual,
     Service!Entries, Service!VotesOrZero
<1>3. /\ Service!CountedResponses(p, list) = CountedResponses(p, list)
      /\ \A q : Service!AnswersTo(q, p, list) = AnswersTo(q, p, list)
      /\ \A o, q : Service!VotesFor(o, q, p, list) = VotesFor(o, q, p, list)
      /\ \A question : Service!TalliedOptions(question) = TalliedOptions(question)
  BY DEF CountedResponses, AnswersTo, VotesFor, TalliedOptions,
     Service!CountedResponses, Service!AnswersTo, Service!VotesFor,
     Service!TalliedOptions
<1>4. /\ Service!AggregateResults(p, poll.spec, list) = AggregateResults(p, poll.spec, list)
      /\ Service!TotalResponses(p, list) = TotalResponses(p, list)
  BY <1>1, <1>3 DEF AggregateResults, TotalResponses,
     Service!AggregateResults, Service!TotalResponses
<1>5. Service!ComputePhase(poll.spec, poll.status, t) = ComputePhase(poll.spec, poll.status, t)
  BY DEF ComputePhase, PastClosing, Service!ComputePhase, Service!PastClosing
<1>6. Service!DesiredPollStatus(p, poll, list, t) = DesiredPollStatus(p, poll, list, t)
  BY <1>4, <1>5 DEF DesiredPollStatus, WithTally,
     Service!DesiredPollStatus, Service!WithTally
<1>7. Service!EmptyPollStatus = EmptyPollStatus
  BY DEF EmptyPollStatus, Service!EmptyPollStatus
<1> QED BY <1>2, <1>6, <1>7

----------------------------------------------------------------------------
(* The Polls a write puts a vote on its way to.                             *)
LEMMA WriteVoteAwaited ==
    ASSUME ApiTypeOK, NEW r \in Responses, NEW obj, WriteResponse(r, obj), obj # RespTruth[r]
    PROVE  /\ RespTruth' = [RespTruth EXCEPT ![r] = obj]
           /\ \A p \in Polls :
                 VoteAwaited(p)' <=>
                    \/ VoteAwaited(p)
                    \/ p \in MapResponseToPoll(RespTruth[r]) \cup MapResponseToPoll(obj)
<1> DEFINE n == Len(respV)
           new == [RespTruth EXCEPT ![r] = obj]
<1>1. respV \in Seq(ResponseStore) /\ n \in Nat /\ n >= 1 /\ RespTruth \in ResponseStore
  BY BoundsAssumption, SnapshotType DEF ApiTypeOK
<1>2. respV' = Append(respV, new)
  BY DEF WriteResponse
<1>3. /\ new[r] = obj
      /\ \A s \in Responses : s # r => new[s] = RespTruth[s]
  BY <1>1 DEF ResponseStore
<1> HIDE DEF new
<1>4. /\ Len(respV') = n + 1
      /\ \A i \in 1..n : respV'[i] = respV[i]
      /\ respV'[n + 1] = new
  BY <1>1, <1>2
<1>5. RespTruth' = new
  BY <1>4 DEF RespTruth
<1>6. ASSUME NEW p \in Polls
      PROVE  VoteAwaited(p)' <=>
                \/ VoteAwaited(p)
                \/ p \in MapResponseToPoll(RespTruth[r]) \cup MapResponseToPoll(obj)
  <2> DEFINE At(i, s) == respV'[i][s] # Nil /\ respV'[i][s].spec.pollRef = p
  <2>1. VoteAwaited(p)' <=>
           \E i, j \in 1..(n + 1), s \in Responses : respV'[i][s] # respV'[j][s] /\ At(i, s)
    BY <1>4 DEF VoteAwaited
  <2>2. VoteAwaited(p) <=>
           \E i, j \in 1..n, s \in Responses : respV'[i][s] # respV'[j][s] /\ At(i, s)
    BY <1>1, <1>4 DEF VoteAwaited
  <2>3. /\ p \in MapResponseToPoll(RespTruth[r]) <=> At(n, r)
        /\ p \in MapResponseToPoll(obj) <=> At(n + 1, r)
    BY <1>1, <1>3, <1>4 DEF MapResponseToPoll, RespTruth
  <2>4. /\ n \in 1..n /\ n \in 1..(n + 1) /\ n + 1 \in 1..(n + 1)
        /\ respV'[n] = RespTruth
        /\ \A i \in 1..(n + 1) : i \in 1..n \/ i = n + 1
        /\ \A i \in 1..n : i \in 1..(n + 1)
    BY <1>1, <1>4 DEF RespTruth
  <2>5. /\ respV'[n][r] # respV'[n + 1][r]
        /\ \A s \in Responses : s # r => respV'[n + 1][s] = respV'[n][s]
    BY <1>3, <1>4, <2>4
  <2> HIDE DEF At
  <2>6. ASSUME VoteAwaited(p) \/ At(n, r) \/ At(n + 1, r)
        PROVE  VoteAwaited(p)'
    BY <2>1, <2>2, <2>4, <2>5, <2>6
  <2>7. ASSUME NEW i \in 1..(n + 1), NEW j \in 1..(n + 1), NEW s \in Responses,
               respV'[i][s] # respV'[j][s], At(i, s)
        PROVE  VoteAwaited(p) \/ At(n, r) \/ At(n + 1, r)
    <3>1. CASE s # r
      <4> DEFINE k(m) == IF m = n + 1 THEN n ELSE m
      <4>1. k(i) \in 1..n /\ k(j) \in 1..n
        BY <2>4
      <4>2. respV'[k(i)][s] = respV'[i][s] /\ respV'[k(j)][s] = respV'[j][s]
        BY <2>5, <3>1
      <4>3. At(k(i), s)
        BY <2>7, <4>2 DEF At
      <4> HIDE DEF k
      <4> QED BY <2>2, <2>7, <4>1, <4>2, <4>3
    <3>2. CASE s = r /\ i = n + 1
      BY <2>7, <3>2
    <3>3. CASE s = r /\ i \in 1..n
      <4>1. CASE respV'[i][r] = respV'[n][r]
        BY <2>7, <3>3, <4>1 DEF At
      <4>2. CASE respV'[i][r] # respV'[n][r]
        BY <2>2, <2>4, <2>7, <3>3, <4>2
      <4> QED BY <4>1, <4>2
    <3> QED BY <2>4, <3>1, <3>2, <3>3
  <2>8. VoteAwaited(p)' => VoteAwaited(p) \/ At(n, r) \/ At(n + 1, r)
    BY <2>1, <2>7
  <2> QED BY <2>3, <2>6, <2>8
<1> QED BY <1>5, <1>6 DEF new

----------------------------------------------------------------------------
(* A settled Poll is current: nothing about it is on its way, so what the   *)
(* caches hold of it is what is stored.                                     *)
LEMMA TrackedIsCurrent ==
    ASSUME TypeOK, TallyTracked
    PROVE  Service!SettledIsCurrent
<1> SUFFICES ASSUME NEW p \in Polls, p \notin Unsettled, PollTruth[p] # Nil
             PROVE  \E t \in 0..now :
                       StatusEqual(PollTruth[p].status,
                                   DesiredPollStatus(p, PollTruth[p], RespTruth, t))
  BY SameVerdict DEF Service!SettledIsCurrent, Service!Current
<1>1. /\ p \notin pollQ /\ ~PollBusy(p) /\ ~PollAwaited(p) /\ ~VoteAwaited(p)
  BY DEF Unsettled
<1>2. /\ Len(pollV) \in Nat /\ Len(pollV) >= 1 /\ Len(respV) \in Nat /\ Len(respV) >= 1
      /\ RespCache \in ResponseStore /\ RespTruth \in ResponseStore
  BY BoundsAssumption, SnapshotType DEF TypeOK, ApiTypeOK
<1>3. PollTruth[p] = PollCache[p]
  BY <1>1, <1>2 DEF PollAwaited, PollTruth, PollCache
<1>4. \A r \in Responses :
         \/ RespTruth[r] = RespCache[r]
         \/ /\ RespCache[r] = Nil \/ RespCache[r].spec.pollRef # p
            /\ RespTruth[r] = Nil \/ RespTruth[r].spec.pollRef # p
  BY <1>1, <1>2 DEF VoteAwaited, RespTruth, RespCache
<1>5. TallyCurrent(p)
  BY <1>1 DEF TallyTracked, TallyInHand, PollBusy
<1>6. PICK t \in 0..now :
         StatusEqual(PollCache[p].status, DesiredPollStatus(p, PollCache[p], RespCache, t))
  BY <1>3, <1>5 DEF TallyCurrent
<1>7. DesiredPollStatus(p, PollTruth[p], RespTruth, t)
         = DesiredPollStatus(p, PollTruth[p], RespCache, t)
  BY <1>2, <1>4, DesiredLocal DEF DesiredPollStatus
<1> QED BY <1>3, <1>6, <1>7

----------------------------------------------------------------------------
(* Steps. One that leaves the stored objects and the clock alone is a Look. *)
LEMMA LookStep ==
    ASSUME Service!SettledIsCurrent', UNCHANGED <<PollTruth, RespTruth, now>>
    PROVE  Service!Look
<1>1. ASSUME NEW p \in Polls, p \notin Unsettled' PROVE Service!Current(p)
  <2>1. Service!Current(p)'
    BY <1>1 DEF Service!SettledIsCurrent
  <2> QED BY <2>1, SameVerdict DEF Service!Current
<1> QED BY <1>1 DEF Service!Look, Unsettled

(* A write to a Poll that leaves queue and worker alone unsettles that Poll *)
(* and no other.                                                            *)
LEMMA ChangePollStep ==
    ASSUME TypeOK, Service!SettledIsCurrent', NEW p \in Polls, NEW obj, WritePoll(p, obj),
           obj # Nil => obj.status = IF PollTruth[p] = Nil THEN EmptyPollStatus
                                     ELSE PollTruth[p].status,
           UNCHANGED <<respV, now, pollQ, pw>>
    PROVE  Service!ChangePoll(p) \/ Service!Look
<1>1. ApiTypeOK /\ PollTruth \in PollStore /\ RespTruth' = RespTruth
  BY SnapshotType DEF TypeOK, RespTruth
<1>2. CASE obj = PollTruth[p]
  <2>1. PollTruth' = PollTruth
    BY <1>2 DEF WritePoll, PollTruth
  <2> QED BY <1>1, <2>1, LookStep
<1>3. CASE obj # PollTruth[p]
  <2>1. /\ PollTruth' = [PollTruth EXCEPT ![p] = obj]
        /\ \A q \in Polls : PollAwaited(q)' <=> PollAwaited(q) \/ q = p
    BY <1>1, <1>3, WritePollAwaited
  <2>2. PollTruth'[p] = obj
    BY <1>1, <2>1 DEF PollStore
  <2>3. Unsettled' = Unsettled \cup {p}
    BY <2>1 DEF Unsettled, PollBusy, VoteAwaited
  <2> QED BY <1>1, <2>1, <2>2, <2>3, SameVerdict DEF Service!ChangePoll
<1> QED BY <1>2, <1>3

(* A write to a response unsettles the Polls it refers to before and after. *)
LEMMA ChangeVoteStep ==
    ASSUME TypeOK, Service!SettledIsCurrent', NEW r \in Responses,
           NEW obj \in PollResponse \cup {Nil}, WriteResponse(r, obj),
           UNCHANGED <<pollV, now, pollQ, pw>>
    PROVE  Service!ChangeVote(r) \/ Service!Look
<1>1. ApiTypeOK /\ RespTruth \in ResponseStore /\ PollTruth' = PollTruth
  BY SnapshotType DEF TypeOK, PollTruth
<1> DEFINE about == MapResponseToPoll(RespTruth[r]) \cup MapResponseToPoll(obj)
<1>2. CASE obj = RespTruth[r]
  <2>1. RespTruth' = RespTruth
    BY <1>2 DEF WriteResponse, RespTruth
  <2> QED BY <1>1, <2>1, LookStep
<1>3. CASE obj # RespTruth[r]
  <2>1. /\ RespTruth' = [RespTruth EXCEPT ![r] = obj]
        /\ \A p \in Polls :
              VoteAwaited(p)' <=> VoteAwaited(p) \/ p \in about
    BY <1>1, <1>3, WriteVoteAwaited
  <2>2. RespTruth'[r] = obj
    BY <1>1, <2>1 DEF ResponseStore
  <2>3. about \subseteq Polls
    BY <1>1 DEF MapResponseToPoll, ResponseStore, PollResponse, PollResponseSpec
  <2> HIDE DEF about
  <2>4. Unsettled' = Unsettled \cup about
    BY <2>1, <2>3 DEF Unsettled, PollBusy, PollAwaited
  <2>5. about = Service!About(RespTruth[r]) \cup Service!About(obj)
    BY DEF about, MapResponseToPoll, Service!About
  <2>6. Unsettled' = Unsettled \cup Service!About(RespTruth[r]) \cup Service!About(RespTruth'[r])
    BY <2>2, <2>4, <2>5
  <2> QED BY <1>1, <2>1, <2>2, <2>6 DEF Service!ChangeVote
<1> QED BY <1>2, <1>3

(* The worker publishes only for the Poll it holds, which stays unsettled:  *)
(* the write is on its way to the cache, or the key is queued again.        *)
LEMMA PublishStep ==
    ASSUME TypeOK, Service!SettledIsCurrent', pw.pc = "patch", PollTruth[pw.key] # Nil,
           WritePoll(pw.key, PatchedPoll), UNCHANGED <<respV, now>>,
           \/ UNCHANGED pollQ /\ pw'.pc # "idle" /\ pw'.key = pw.key
           \/ pollQ' = pollQ \cup {pw.key} /\ pw'.pc = "idle"
    PROVE  Service!Publish(pw.key) \/ Service!Look
<1>1. ApiTypeOK /\ PollTruth \in PollStore /\ RespTruth' = RespTruth /\ pw.key \in Polls
  BY SnapshotType, PollWorkerFacts DEF TypeOK, RespTruth
<1>2. CASE PatchedPoll = PollTruth[pw.key]
  <2>1. PollTruth' = PollTruth
    BY <1>2 DEF WritePoll, PollTruth
  <2> QED BY <1>1, <2>1, LookStep
<1>3. CASE PatchedPoll # PollTruth[pw.key]
  <2>1. /\ PollTruth' = [PollTruth EXCEPT ![pw.key] = PatchedPoll]
        /\ \A q \in Polls : PollAwaited(q)' <=> PollAwaited(q) \/ q = pw.key
    BY <1>1, <1>3, WritePollAwaited
  <2>2. \A q \in Polls : VoteAwaited(q)' <=> VoteAwaited(q)
    BY DEF VoteAwaited
  <2>3. \A q \in Polls : q \in pollQ' \/ PollBusy(q)' \/ q = pw.key
                        <=> q \in pollQ \/ PollBusy(q)
    BY DEF PollBusy
  <2>4. Unsettled' = Unsettled /\ pw.key \in Unsettled
    BY <1>1, <2>1, <2>2, <2>3 DEF Unsettled, PollBusy
  <2>5. PatchedPoll = [PollTruth[pw.key] EXCEPT !.status = PatchedPoll.status]
        /\ PatchedPoll # Nil
    <3>1. PollTruth[pw.key] \in Poll
      BY <1>1 DEF PollStore
    <3>2. PatchedPoll \in Poll
      BY <1>1, PatchedPollType DEF TypeOK
    <3> QED BY <3>1, <3>2, NilAssumption DEF PatchedPoll, Poll
  <2>6. PollTruth'[pw.key] = PatchedPoll
    BY <1>1, <2>1 DEF PollStore
  <2> QED BY <1>1, <2>1, <2>4, <2>5, <2>6 DEF Service!Publish
<1> QED BY <1>2, <1>3

LEMMA PollControllerImplements ==
    ASSUME TypeOK, Service!SettledIsCurrent', PollControllerStep
    PROVE  Service!Look \/ \E p \in Polls : Service!Publish(p)
<1>1. CASE UNCHANGED <<pollV, respV, now>>
  BY <1>1, LookStep DEF PollTruth, RespTruth
<1>2. CASE PollPatch
  <2>1. pw'.pc # "idle" /\ pw'.key = pw.key /\ pw.key \in Polls
    BY <1>2, PollWorkerFacts DEF PollPatch, TypeOK, PollCtlTypeOK, PollWorker
  <2> QED BY <1>2, <2>1, PublishStep DEF PollPatch
<1>3. CASE PollPatchFault /\ ~UNCHANGED pollV
  <2>1. pw'.pc = "idle" /\ pw.key \in Polls
    BY <1>3, PollWorkerFacts
       DEF PollPatchFault, PollReconcileFails, IdlePollWorker, TypeOK
  <2> QED BY <1>3, <2>1, PublishStep DEF PollPatchFault, PollReconcileFails, EnqueuePolls
<1> QED BY <1>1, <1>2, <1>3
     DEF PollControllerStep, PollWorkerStep, PollGet, PollList, PollPatchNotFound,
         PollRequeue, PollPatchFault, PollTimerFires, apiVars

LEMMA ResponseControllerImplements ==
    ASSUME TypeOK, Service!SettledIsCurrent', ResponseControllerStep
    PROVE  Service!Look \/ \E r \in Responses : Service!ChangeVote(r)
<1>1. ApiTypeOK /\ RespCtlTypeOK
  BY DEF TypeOK
<1>2. UNCHANGED <<pollV, now, pollQ, pw>>
  BY DEF ResponseControllerStep, RespWorkerStep, RespGet, RespGetPoll,
     EnsureOwnerReference, Validate, RespPatch, RespWriteNotFound,
     RespWriteFault, HandlePollEvent, apiVars, pollCtlVars
<1>3. \/ UNCHANGED respV
      \/ \E obj \in PollResponse : WriteResponse(rw.key, obj) /\ rw.pc # "idle"
  <2>1. UNCHANGED respV \/ EnsureOwnerReference \/ RespPatch \/ RespWriteFault
    BY DEF ResponseControllerStep, RespWorkerStep, RespGet, RespGetPoll,
       Validate, RespWriteNotFound, HandlePollEvent, apiVars
  <2> QED BY <1>1, <2>1, OwnedResponseType, JudgedResponseType
          DEF EnsureOwnerReference, RespPatch, RespWriteFault
<1>4. CASE UNCHANGED respV
  BY <1>2, <1>4, LookStep DEF PollTruth, RespTruth
<1>5. CASE \E obj \in PollResponse : WriteResponse(rw.key, obj) /\ rw.pc # "idle"
  <2>1. rw.key \in Responses
    BY <1>1, <1>5, RespWorkerFacts
  <2> QED BY <1>2, <1>5, <2>1, ChangeVoteStep
<1> QED BY <1>3, <1>4, <1>5

(* Users, the garbage collector and the clock.                              *)
LEMMA UserStepImplements ==
    ASSUME TypeOK, Service!SettledIsCurrent', UserStep, UNCHANGED <<pollQ, pw>>
    PROVE  \/ Service!Look
           \/ \E p \in Polls : Service!ChangePoll(p)
           \/ \E r \in Responses : Service!ChangeVote(r)
<1>1. ApiTypeOK /\ PollTruth \in PollStore
  BY SnapshotType DEF TypeOK
<1>2. UNCHANGED now
  BY DEF UserStep, CreatePoll, UpdatePoll, DeletePoll, CreateResponse,
     UpdateResponse, DeleteResponse, ForegroundDeleteResponse, UserOp
<1>3. \/ /\ UNCHANGED respV
         /\ \/ \E p \in Polls, spec \in PollSpecs : CreatePoll(p, spec) \/ UpdatePoll(p, spec)
            \/ \E p \in Polls : DeletePoll(p)
      \/ /\ UNCHANGED pollV
         /\ \/ UNCHANGED respV
            \/ \E r \in Responses, obj \in PollResponse \cup {Nil} : WriteResponse(r, obj)
  <2>1. \/ \E p \in Polls, spec \in PollSpecs : CreatePoll(p, spec) \/ UpdatePoll(p, spec)
        \/ \E p \in Polls : DeletePoll(p)
        \/ UNCHANGED pollV
    BY DEF UserStep, CreateResponse, UpdateResponse, DeleteResponse,
       ForegroundDeleteResponse
  <2>2. \/ /\ UNCHANGED respV
           /\ \E p \in Polls, obj \in Poll \cup {Nil} : WritePoll(p, obj)
        \/ /\ UNCHANGED pollV
           /\ \E r \in Responses, obj \in PollResponse \cup {Nil} : WriteResponse(r, obj)
    BY <1>1, UserStepWrites
  <2>3. (\E p \in Polls, spec \in PollSpecs : CreatePoll(p, spec) \/ UpdatePoll(p, spec))
        \/ (\E p \in Polls : DeletePoll(p)) => UNCHANGED respV
    BY DEF CreatePoll, UpdatePoll, DeletePoll
  <2> QED BY <2>1, <2>2, <2>3
<1>4. CASE UNCHANGED respV /\ \E p \in Polls, spec \in PollSpecs :
                                 CreatePoll(p, spec) \/ UpdatePoll(p, spec)
  <2>1. PICK p \in Polls, spec \in PollSpecs : CreatePoll(p, spec) \/ UpdatePoll(p, spec)
    BY <1>4
  <2>2. CASE CreatePoll(p, spec)
    <3> DEFINE obj == [uid |-> ops + 1, generation |-> 1, spec |-> spec,
                       status |-> EmptyPollStatus]
    <3>1. WritePoll(p, obj) /\ PollTruth[p] = Nil /\ obj.status = EmptyPollStatus
      BY <2>2 DEF CreatePoll
    <3> HIDE DEF obj
    <3> QED BY <1>2, <1>4, <3>1, ChangePollStep
  <2>3. CASE UpdatePoll(p, spec)
    <3> DEFINE obj == [PollTruth[p] EXCEPT !.spec = spec, !.generation = @ + 1]
    <3>1. WritePoll(p, obj) /\ PollTruth[p] # Nil
      BY <2>3 DEF UpdatePoll
    <3>2. obj.status = PollTruth[p].status
      BY <1>1, <3>1 DEF PollStore, Poll
    <3> HIDE DEF obj
    <3> QED BY <1>2, <1>4, <3>1, <3>2, ChangePollStep
  <2> QED BY <2>1, <2>2, <2>3
<1>5. CASE UNCHANGED respV /\ \E p \in Polls : DeletePoll(p)
  BY <1>2, <1>5, ChangePollStep DEF DeletePoll
<1>6. CASE UNCHANGED pollV /\ \E r \in Responses, obj \in PollResponse \cup {Nil} :
                                 WriteResponse(r, obj)
  BY <1>2, <1>6, ChangeVoteStep
<1>7. CASE UNCHANGED <<pollV, respV>>
  BY <1>2, <1>7, LookStep DEF PollTruth, RespTruth
<1> QED BY <1>3, <1>4, <1>5, <1>6, <1>7

LEMMA EnvironmentImplements ==
    ASSUME TypeOK, Service!SettledIsCurrent', Environment
    PROVE  Service!Next
<1>1. UNCHANGED <<pollQ, pw>>
  BY DEF Environment, pollCtlVars
<1>2. CASE UserStep
  BY <1>1, <1>2, UserStepImplements DEF Service!Next
<1>3. CASE \E r \in Responses : CollectGarbage(r)
  <2>1. PICK r \in Responses : CollectGarbage(r)
    BY <1>3
  <2>2. WriteResponse(r, Nil) /\ UNCHANGED <<pollV, now>>
    BY <2>1 DEF CollectGarbage
  <2> QED BY <1>1, <2>2, ChangeVoteStep DEF Service!Next
<1>4. CASE Tick
  <2>1. UNCHANGED <<pollV, respV>> /\ now' = now + 1
    BY <1>4 DEF Tick
  <2>2. UNCHANGED <<PollTruth, RespTruth, Unsettled>>
    BY <1>1, <2>1 DEF PollTruth, RespTruth, Unsettled, PollBusy, PollAwaited, VoteAwaited
  <2> QED BY <2>1, <2>2 DEF Service!Next, Service!Clock
<1> QED BY <1>2, <1>3, <1>4 DEF Environment

(* Deliveries and restarts leave the stored objects alone.                  *)
LEMMA DeliveriesLook ==
    ASSUME TypeOK, Service!SettledIsCurrent',
           DeliverPoll \/ DeliverResponse \/ Restart \/ UNCHANGED vars
    PROVE  Service!Look
<1>1. /\ pollV \in Seq(PollStore) /\ respV \in Seq(ResponseStore)
      /\ Len(pollV) \in Nat /\ Len(respV) \in Nat
  BY BoundsAssumption DEF TypeOK, ApiTypeOK
<1>2. CASE DeliverPoll
  BY <1>1, <1>2, LookStep DEF DeliverPoll, PollTruth, RespTruth
<1>3. CASE DeliverResponse
  BY <1>1, <1>3, LookStep DEF DeliverResponse, PollTruth, RespTruth
<1>4. CASE Restart
  BY <1>4, LookStep DEF Restart, PollTruth, RespTruth
<1>5. CASE UNCHANGED vars
  BY <1>5, LookStep DEF vars, PollTruth, RespTruth
<1> QED BY <1>2, <1>3, <1>4, <1>5

----------------------------------------------------------------------------
(* At every moment, a Poll that nothing about is under way shows the status *)
(* Reconcile would compute from the stored objects, whatever else is under  *)
(* way (poll_controller.go:56-112).                                         *)
THEOREM SettledPollsAreCurrent == Spec => []Service!SettledIsCurrent
<1>1. TypeOK /\ TallyTracked => Service!SettledIsCurrent
  BY TrackedIsCurrent
<1> QED BY <1>1, TypeCorrect, TallyAlwaysTracked, PTL

(* The operator, with its lagging caches, queues, merge patches, faults and *)
(* restarts, does nothing to the stored objects that the service would not  *)
(* (poll_controller.go:56-112 and 294-320).                                 *)
THEOREM OperatorImplementsService == Spec => ImplementsTallyService
<1>1. Init => Service!Init
  <2>1. Init => \A p \in Polls : ~PollAwaited(p) /\ ~VoteAwaited(p)
    BY DEF Init, ApiInit, PollAwaited, VoteAwaited
  <2> QED BY <2>1 DEF Init, ApiInit, PollCtlInit, IdlePollWorker, PollTruth, RespTruth,
          Service!Init, Unsettled, PollBusy
<1>2. TypeOK /\ Service!SettledIsCurrent' /\ [Next]_vars => [Service!Next]_(Service!serviceVars)
  <2> SUFFICES ASSUME TypeOK, Service!SettledIsCurrent', [Next]_vars
               PROVE  Service!Next
    OBVIOUS
  <2>1. CASE Environment
    BY <2>1, EnvironmentImplements
  <2>2. CASE PollControllerStep
    BY <2>2, PollControllerImplements DEF Service!Next
  <2>3. CASE ResponseControllerStep
    BY <2>3, ResponseControllerImplements DEF Service!Next
  <2>4. CASE DeliverPoll \/ DeliverResponse \/ Restart \/ UNCHANGED vars
    BY <2>4, DeliveriesLook DEF Service!Next
  <2> QED BY <2>1, <2>2, <2>3, <2>4 DEF Next
<1> QED BY <1>1, <1>2, TypeCorrect, SettledPollsAreCurrent, PTL
    DEF Spec, Service!Spec, ImplementsTallyService

----------------------------------------------------------------------------
(* Verdicts                                                                 *)

(* The operators of the verdict service are those of the operator.          *)
LEMMA SameReason ==
    ASSUME NEW question, NEW ans
    PROVE  Verdicts!ValidateAnswer(question, ans) = ValidateAnswer(question, ans)
<1>1. ASSUME NEW S PROVE Verdicts!Min(S) = Min(S)
  BY DEF Min, Verdicts!Min
<1>2. ASSUME NEW f PROVE Verdicts!IsInjective(f) = IsInjective(f)
  BY DEF IsInjective, Verdicts!IsInjective
<1>3. ASSUME NEW options, NEW selected
      PROVE  Verdicts!SelectionsReason(options, selected) = SelectionsReason(options, selected)
  BY <1>1 DEF SelectionsReason, Verdicts!SelectionsReason
<1>4. Verdicts!ChoiceReason(question, ans) = ChoiceReason(question, ans)
  BY <1>3 DEF ChoiceReason, NoText, Verdicts!ChoiceReason, Verdicts!NoText
<1>5. Verdicts!FreeTextReason(question, ans) = FreeTextReason(question, ans)
  BY DEF FreeTextReason, NoText, Verdicts!FreeTextReason, Verdicts!NoText
<1> QED BY <1>4, <1>5 DEF ValidateAnswer, Verdicts!ValidateAnswer

LEMMA SameVerdicts ==
    ASSUME NEW poll, NEW resp, NEW t
    PROVE  /\ Verdicts!ValidatedStatus(poll, resp, t) = ValidatedStatus(poll, resp, t)
           /\ Verdicts!NotFoundStatus(resp) = NotFoundStatus(resp)
           /\ Verdicts!EmptyResponseStatus = EmptyResponseStatus
<1>1. ASSUME NEW S PROVE Verdicts!Min(S) = Min(S)
  BY DEF Min, Verdicts!Min
<1>2. ASSUME NEW questions, NEW ans
      PROVE  Verdicts!AnswerReason(questions, ans) = AnswerReason(questions, ans)
  BY SameReason DEF AnswerReason, Verdicts!AnswerReason
<1>3. Verdicts!PastClosing(poll.spec, t) = PastClosing(poll.spec, t)
  BY DEF PastClosing, Verdicts!PastClosing
<1>4. Verdicts!ValidateResponse(poll.spec, resp.spec, t)
         = ValidateResponse(poll.spec, resp.spec, t)
  BY <1>1, <1>2, <1>3 DEF ValidateResponse, Verdicts!ValidateResponse
<1>5. /\ \A g, reason : Verdicts!RejectedStatus(resp, g, reason) = RejectedStatus(resp, g, reason)
      /\ \A g : Verdicts!AcceptedStatus(resp, g, t) = AcceptedStatus(resp, g, t)
  BY DEF RejectedStatus, AcceptedStatus, Verdict,
     Verdicts!RejectedStatus, Verdicts!AcceptedStatus, Verdicts!Verdict
<1> QED BY <1>4, <1>5 DEF ValidatedStatus, NotFoundStatus, EmptyResponseStatus,
        Verdicts!ValidatedStatus, Verdicts!NotFoundStatus, Verdicts!EmptyResponseStatus

LEMMA SameResponses == Verdicts!PollResponse = PollResponse
<1>1. Verdicts!FreeText = FreeText
  BY DEF FreeText, Verdicts!FreeText
<1>2. Verdicts!PollResponseSpec = PollResponseSpec
  BY <1>1 DEF PollResponseSpec, PollAnswer, Verdicts!PollResponseSpec, Verdicts!PollAnswer
<1>3. Verdicts!PollResponseStatus = PollResponseStatus
  BY DEF PollResponseStatus, PollResponsePhases, VerdictCondition, Reasons,
     Verdicts!PollResponseStatus, Verdicts!PollResponsePhases,
     Verdicts!VerdictCondition, Verdicts!Reasons
<1> QED BY <1>2, <1>3 DEF PollResponse, OwnerReference,
        Verdicts!PollResponse, Verdicts!OwnerReference

(* What a write puts on the way to the caches: a version of its own object. *)
LEMMA WriteResponseAwaited ==
    ASSUME ApiTypeOK, NEW r \in Responses, NEW obj, WriteResponse(r, obj), obj # RespTruth[r]
    PROVE  /\ RespTruth' = [RespTruth EXCEPT ![r] = obj]
           /\ \A s \in Responses : RespAwaited(s)' <=> RespAwaited(s) \/ s = r
<1> DEFINE new == [RespTruth EXCEPT ![r] = obj]
<1>1. respV \in Seq(ResponseStore) /\ Len(respV) > 0 /\ RespTruth \in ResponseStore
  BY BoundsAssumption, SnapshotType DEF ApiTypeOK
<1>2. respV' = Append(respV, new)
  BY DEF WriteResponse
<1>3. new[r] = obj /\ \A s \in Responses : s # r => new[s] = RespTruth[s]
  BY <1>1 DEF ResponseStore
<1> HIDE DEF new
<1>4. RespTruth' = new
  BY <1>1, <1>2 DEF RespTruth
<1>5. ASSUME NEW s \in Responses PROVE RespAwaited(s)' <=> RespAwaited(s) \/ s = r
  <2>1. RespAwaited(s)' <=> RespAwaited(s) \/ new[s] # RespTruth[s]
    BY <1>1, <1>2, StreamAppend DEF RespAwaited, RespTruth
  <2> QED BY <1>3, <2>1
<1> QED BY <1>4, <1>5 DEF new

----------------------------------------------------------------------------
(* A response that is not pending is settled: nothing about it or its Poll  *)
(* is on its way, so what the caches hold of both is what is stored.        *)
LEMMA TrackedIsJudged ==
    ASSUME TypeOK, VerdictTracked
    PROVE  Verdicts!SettledIsJudged
<1> SUFFICES ASSUME NEW r \in Responses, r \notin Pending,
                    RespTruth[r] # Nil, ~RespTruth[r].deleting
             PROVE  Judged(RespTruth[r], PollTruth)
  BY SameVerdicts DEF Verdicts!SettledIsJudged, Verdicts!Settled, Verdicts!Judged, Judged
<1>1. r \notin respQ /\ ~RespBusy(r) /\ ~RespAwaited(r) /\ ~ReferenceAwaited(r)
  BY DEF Pending
<1>2. RespTruth[r] = RespCache[r]
  BY <1>1, EndsOfStream DEF RespAwaited, TypeOK
<1>3. PollTruth[RespTruth[r].spec.pollRef] = PollCache[RespTruth[r].spec.pollRef]
  BY <1>1, EndsOfStream DEF ReferenceAwaited, PollAwaited, TypeOK
<1>4. ~PollNoted(r) /\ ~VerdictInHand(r)
  BY <1>1, <1>2 DEF PollNoted, ReferenceAwaited, VerdictInHand, RespBusy
<1>5. Judged(RespCache[r], PollCache)
  BY <1>1, <1>2, <1>4 DEF VerdictTracked, VerdictCurrent
<1> QED BY <1>2, <1>3, <1>5 DEF Judged

----------------------------------------------------------------------------
(* Steps. One that leaves the stored objects and the clock alone is a Look. *)
LEMMA LetGoStep ==
    ASSUME Verdicts!SettledIsJudged', UNCHANGED <<PollTruth, RespTruth, now>>
    PROVE  Verdicts!Look
<1>1. ASSUME NEW r \in Responses, r \notin Pending' PROVE Verdicts!Settled(r)
  <2>1. Verdicts!Settled(r)'
    BY <1>1 DEF Verdicts!SettledIsJudged
  <2> QED BY <2>1, SameVerdicts DEF Verdicts!Settled, Verdicts!Judged
<1> QED BY <1>1 DEF Verdicts!Look, Pending

(* A write to a Poll makes the responses that refer to it pending.          *)
LEMMA PollWriteStep ==
    ASSUME TypeOK, Verdicts!SettledIsJudged', NEW p \in Polls, NEW obj, WritePoll(p, obj),
           UNCHANGED <<respV, now, respQ, note, rw>>
    PROVE  Verdicts!ChangePoll(p) \/ Verdicts!Look
<1>1. ApiTypeOK /\ PollTruth \in PollStore /\ RespTruth' = RespTruth /\ RespTruth \in ResponseStore
  BY SnapshotType DEF TypeOK, RespTruth
<1>2. CASE obj = PollTruth[p]
  <2>1. PollTruth' = PollTruth
    BY <1>2 DEF WritePoll, PollTruth
  <2> QED BY <1>1, <2>1, LetGoStep
<1>3. CASE obj # PollTruth[p]
  <2>1. /\ PollTruth' = [PollTruth EXCEPT ![p] = obj]
        /\ \A q \in Polls : PollAwaited(q)' <=> PollAwaited(q) \/ q = p
    BY <1>1, <1>3, WritePollAwaited
  <2>2. PollTruth'[p] = obj
    BY <1>1, <2>1 DEF PollStore
  <2>3. \A r \in Responses : RespTruth[r] # Nil => RespTruth[r].spec.pollRef \in Polls
    BY <1>1 DEF ResponseStore, PollResponse, PollResponseSpec
  <2>4. \A r \in Responses :
           ReferenceAwaited(r)' <=> ReferenceAwaited(r) \/ r \in Verdicts!Concerned(p)
    BY <1>1, <2>1, <2>3 DEF ReferenceAwaited, Verdicts!Concerned
  <2>5. \A r \in Responses : /\ RespBusy(r)' <=> RespBusy(r)
                             /\ RespAwaited(r)' <=> RespAwaited(r)
    BY DEF RespBusy, RespAwaited
  <2>6. Pending' = Pending \cup Verdicts!Concerned(p)
    BY <2>4, <2>5 DEF Pending, Verdicts!Concerned
  <2> QED BY <1>1, <2>1, <2>2, <2>6 DEF Verdicts!ChangePoll
<1> QED BY <1>2, <1>3

(* A write to a response makes it pending, and no other.                    *)
LEMMA VoteWritePending ==
    ASSUME TypeOK, NEW r \in Responses, NEW obj, WriteResponse(r, obj), obj # RespTruth[r],
           UNCHANGED <<pollV, note>>,
           \A s \in Responses \ {r} :
              s \in respQ' \/ RespBusy(s)' <=> s \in respQ \/ RespBusy(s)
    PROVE  /\ RespTruth' = [RespTruth EXCEPT ![r] = obj] /\ RespTruth'[r] = obj
           /\ Pending' = Pending \cup {r}
<1>1. ApiTypeOK /\ RespTruth \in ResponseStore
  BY SnapshotType DEF TypeOK
<1>2. /\ RespTruth' = [RespTruth EXCEPT ![r] = obj]
      /\ \A s \in Responses : RespAwaited(s)' <=> RespAwaited(s) \/ s = r
  BY <1>1, WriteResponseAwaited
<1>3. RespTruth'[r] = obj /\ \A s \in Responses \ {r} : RespTruth'[s] = RespTruth[s]
  BY <1>1, <1>2 DEF ResponseStore
<1>4. \A s \in Responses \ {r} : ReferenceAwaited(s)' <=> ReferenceAwaited(s)
  BY <1>3 DEF ReferenceAwaited, PollAwaited
<1>5. \A s \in Responses : s \in Pending' <=> s \in Pending \/ s = r
  BY <1>2, <1>4 DEF Pending
<1>6. Pending \subseteq Responses /\ Pending' \subseteq Responses
  BY DEF Pending
<1> QED BY <1>2, <1>3, <1>5, <1>6

(* One that keeps owner and status is a change of the vote.                 *)
LEMMA VoteWriteStep ==
    ASSUME TypeOK, Verdicts!SettledIsJudged', NEW r \in Responses,
           NEW obj \in PollResponse \cup {Nil}, WriteResponse(r, obj),
           obj # Nil => IF RespTruth[r] = Nil
                        THEN obj.owner = Nil /\ obj.status = EmptyResponseStatus
                        ELSE obj.owner = RespTruth[r].owner /\ obj.status = RespTruth[r].status,
           UNCHANGED <<pollV, now, respQ, note, rw>>
    PROVE  Verdicts!ChangeVote(r) \/ Verdicts!Look
<1>1. PollTruth' = PollTruth
  BY DEF PollTruth
<1>2. CASE obj = RespTruth[r]
  <2>1. RespTruth' = RespTruth
    BY <1>2 DEF WriteResponse, RespTruth
  <2> QED BY <1>1, <2>1, LetGoStep
<1>3. CASE obj # RespTruth[r]
  <2>1. /\ RespTruth' = [RespTruth EXCEPT ![r] = obj] /\ RespTruth'[r] = obj
        /\ Pending' = Pending \cup {r}
    BY <1>3, VoteWritePending DEF RespBusy
  <2> QED BY <1>1, <2>1, SameVerdicts, SameResponses DEF Verdicts!ChangeVote
<1> QED BY <1>2, <1>3

(* The worker gives owner or verdict only to the response it holds, which   *)
(* stays pending: the write is on its way to the cache.                     *)
LEMMA JudgeStep ==
    ASSUME TypeOK, Verdicts!SettledIsJudged', rw.pc # "idle", RespTruth[rw.key] # Nil,
           NEW obj \in PollResponse, WriteResponse(rw.key, obj),
           obj = [RespTruth[rw.key] EXCEPT !.owner = obj.owner, !.status = obj.status],
           UNCHANGED <<pollV, now, note>>,
           respQ \subseteq respQ' /\ respQ' \subseteq respQ \cup {rw.key},
           rw'.key = rw.key \/ rw'.pc = "idle"
    PROVE  Verdicts!Judge(rw.key) \/ Verdicts!Look
<1>1. rw.key \in Responses /\ RespTruth \in ResponseStore /\ PollTruth' = PollTruth
  BY SnapshotType, RespWorkerFacts DEF TypeOK, PollTruth
<1>2. CASE obj = RespTruth[rw.key]
  <2>1. RespTruth' = RespTruth
    BY <1>2 DEF WriteResponse, RespTruth
  <2> QED BY <1>1, <2>1, LetGoStep
<1>3. CASE obj # RespTruth[rw.key]
  <2>1. \A s \in Responses \ {rw.key} :
           s \in respQ' \/ RespBusy(s)' <=> s \in respQ \/ RespBusy(s)
    BY DEF RespBusy
  <2>2. /\ RespTruth' = [RespTruth EXCEPT ![rw.key] = obj] /\ RespTruth'[rw.key] = obj
        /\ Pending' = Pending \cup {rw.key}
    BY <1>1, <1>3, <2>1, VoteWritePending
  <2>3. rw.key \in Pending
    BY <1>1 DEF Pending, RespBusy
  <2>4. [RespTruth EXCEPT ![rw.key] = obj]
           = [RespTruth EXCEPT ![rw.key].owner = obj.owner, ![rw.key].status = obj.status]
    BY <1>1 DEF ResponseStore
  <2>5. RespTruth' = [RespTruth EXCEPT ![rw.key].owner = RespTruth'[rw.key].owner,
                                       ![rw.key].status = RespTruth'[rw.key].status]
    <3> DEFINE owner == obj.owner
               status == obj.status
    <3>1. RespTruth' = [RespTruth EXCEPT ![rw.key].owner = owner, ![rw.key].status = status]
      BY <2>2, <2>4
    <3>2. RespTruth'[rw.key].owner = owner /\ RespTruth'[rw.key].status = status
      BY <2>2
    <3> HIDE DEF owner, status
    <3> QED BY <3>1, <3>2
  <2>6. /\ UNCHANGED <<PollTruth, now, Pending>>
        /\ RespTruth'[rw.key] \in Verdicts!PollResponse
    BY <1>1, <2>2, <2>3, SameResponses
  <2> HIDE DEF Verdicts!PollResponse
  <2> QED BY <2>3, <2>5, <2>6 DEF Verdicts!Judge
<1> QED BY <1>2, <1>3

(* The two patches of the reconciler.                                       *)
LEMMA PatchesJudge ==
    ASSUME TypeOK, RespTruth[rw.key] # Nil, rw.pc \in {"own", "patch"},
           NEW obj, \/ rw.pc = "own" /\ obj = OwnedResponse
                    \/ rw.pc = "patch" /\ obj = JudgedResponse
    PROVE  /\ obj \in PollResponse
           /\ obj = [RespTruth[rw.key] EXCEPT !.owner = obj.owner, !.status = obj.status]
<1>1. ApiTypeOK /\ RespCtlTypeOK /\ rw.key \in Responses
  BY RespWorkerFacts DEF TypeOK
<1>2. RespTruth[rw.key] \in PollResponse
  BY <1>1, SnapshotType DEF ResponseStore
<1>3. obj \in PollResponse
  BY <1>1, OwnedResponseType, JudgedResponseType
<1> QED BY <1>2, <1>3 DEF OwnedResponse, JudgedResponse, PollResponse

LEMMA ResponseControllerJudges ==
    ASSUME TypeOK, Verdicts!SettledIsJudged', ResponseControllerStep
    PROVE  Verdicts!Look \/ \E r \in Responses : Verdicts!Judge(r)
<1>1. UNCHANGED <<pollV, now>> /\ RespCtlTypeOK
  BY DEF ResponseControllerStep, RespWorkerStep, RespGet, RespGetPoll,
     EnsureOwnerReference, Validate, RespPatch, RespWriteNotFound,
     RespWriteFault, HandlePollEvent, apiVars, TypeOK
<1>2. CASE UNCHANGED respV
  BY <1>1, <1>2, LetGoStep DEF PollTruth, RespTruth
<1>3. CASE EnsureOwnerReference \/ RespPatch \/ (RespWriteFault /\ ~UNCHANGED respV)
  <2>1. /\ rw.pc \in {"own", "patch"} /\ RespTruth[rw.key] # Nil /\ UNCHANGED note
        /\ respQ \subseteq respQ' /\ respQ' \subseteq respQ \cup {rw.key}
    <3>1. CASE EnsureOwnerReference
      BY <3>1 DEF EnsureOwnerReference
    <3>2. CASE RespPatch
      BY <3>2 DEF RespPatch
    <3>3. CASE RespWriteFault /\ ~UNCHANGED respV
      BY <3>3 DEF RespWriteFault, RespReconcileFails
    <3> QED BY <1>3, <3>1, <3>2, <3>3
  <2>2. rw'.key = rw.key \/ rw'.pc = "idle"
    <3>1. CASE EnsureOwnerReference
      BY <1>1, <3>1 DEF EnsureOwnerReference, RespCtlTypeOK, RespWorker
    <3>2. CASE RespPatch \/ RespWriteFault
      BY <3>2 DEF RespPatch, RespWriteFault, RespReconcileFails, IdleRespWorker
    <3> QED BY <1>3, <3>1, <3>2
  <2>3. PICK obj : /\ WriteResponse(rw.key, obj)
                   /\ \/ rw.pc = "own" /\ obj = OwnedResponse
                      \/ rw.pc = "patch" /\ obj = JudgedResponse
    BY <1>3 DEF EnsureOwnerReference, RespPatch, RespWriteFault
  <2>4. /\ obj \in PollResponse
        /\ obj = [RespTruth[rw.key] EXCEPT !.owner = obj.owner, !.status = obj.status]
    BY <2>1, <2>3, PatchesJudge
  <2>5. rw.key \in Responses
    BY <1>1, <2>1, RespWorkerFacts
  <2> QED BY <1>1, <2>1, <2>2, <2>3, <2>4, <2>5, JudgeStep
<1> QED BY <1>2, <1>3 DEF ResponseControllerStep, RespWorkerStep, RespGet, RespGetPoll,
        Validate, RespWriteNotFound, RespWriteFault, HandlePollEvent, apiVars

(* Users neither own nor judge.                                             *)
LEMMA UserStepVotes ==
    ASSUME ApiTypeOK, UserStep, ~UNCHANGED respV
    PROVE  \E r \in Responses, obj \in PollResponse \cup {Nil} :
              /\ WriteResponse(r, obj)
              /\ obj # Nil =>
                    IF RespTruth[r] = Nil
                    THEN obj.owner = Nil /\ obj.status = EmptyResponseStatus
                    ELSE obj.owner = RespTruth[r].owner /\ obj.status = RespTruth[r].status
<1>1. RespTruth \in ResponseStore
  BY SnapshotType
<1>2. ASSUME NEW r \in Responses, NEW spec \in ResponseSpecs, CreateResponse(r, spec)
      PROVE  /\ WriteResponse(r, NewResponse(spec)) /\ RespTruth[r] = Nil
             /\ NewResponse(spec) \in PollResponse
             /\ NewResponse(spec).owner = Nil
             /\ NewResponse(spec).status = EmptyResponseStatus
  <2>1. EmptyResponseStatus \in PollResponseStatus
    BY DEF EmptyResponseStatus, PollResponseStatus, PollResponsePhases
  <2> QED BY <1>2, <2>1, SpecsAssumption DEF CreateResponse, NewResponse, PollResponse
<1>3. ASSUME NEW r \in Responses, NEW obj, RespTruth[r] # Nil,
             \/ \E spec \in ResponseSpecs :
                   obj = [RespTruth[r] EXCEPT !.spec = spec, !.generation = @ + 1]
             \/ obj = [RespTruth[r] EXCEPT !.deleting = TRUE]
      PROVE  /\ obj \in PollResponse
             /\ obj.owner = RespTruth[r].owner /\ obj.status = RespTruth[r].status
  <2>1. RespTruth[r] \in PollResponse
    BY <1>1, <1>3 DEF ResponseStore
  <2>2. CASE obj = [RespTruth[r] EXCEPT !.deleting = TRUE]
    BY <2>1, <2>2 DEF PollResponse
  <2>3. ASSUME NEW spec \in ResponseSpecs,
               obj = [RespTruth[r] EXCEPT !.spec = spec, !.generation = @ + 1]
        PROVE  /\ obj \in PollResponse
               /\ obj.owner = RespTruth[r].owner /\ obj.status = RespTruth[r].status
    <3>1. obj \in PollResponse
      BY <2>1, <2>3, SpecsAssumption, EditedResponseType
    <3> QED BY <2>1, <2>3, <3>1 DEF PollResponse
  <2> QED BY <1>3, <2>2, <2>3
<1>4. CASE \E r \in Responses, spec \in ResponseSpecs : CreateResponse(r, spec)
  BY <1>2, <1>4
<1>5. CASE \E r \in Responses, spec \in ResponseSpecs : UpdateResponse(r, spec)
  <2>1. PICK r \in Responses, spec \in ResponseSpecs : UpdateResponse(r, spec)
    BY <1>5
  <2> DEFINE obj == [RespTruth[r] EXCEPT !.spec = spec, !.generation = @ + 1]
  <2>2. RespTruth[r] # Nil /\ WriteResponse(r, obj)
    BY <2>1 DEF UpdateResponse
  <2>3. /\ obj \in PollResponse
        /\ obj.owner = RespTruth[r].owner /\ obj.status = RespTruth[r].status
    BY <1>3, <2>2
  <2> HIDE DEF obj
  <2> QED BY <2>2, <2>3
<1>6. CASE \E r \in Responses : DeleteResponse(r)
  BY <1>6 DEF DeleteResponse
<1>7. CASE \E r \in Responses : ForegroundDeleteResponse(r)
  BY <1>3, <1>7 DEF ForegroundDeleteResponse
<1> QED BY <1>4, <1>5, <1>6, <1>7 DEF UserStep, CreatePoll, UpdatePoll, DeletePoll

(* Users, the garbage collector, the clock and the Poll controller.         *)
LEMMA OthersChange ==
    ASSUME TypeOK, Verdicts!SettledIsJudged', Environment \/ PollControllerStep
    PROVE  Verdicts!Next
<1>1. ApiTypeOK /\ UNCHANGED <<respQ, note, rw>>
  BY DEF TypeOK, Environment, PollControllerStep, respCtlVars
<1>2. CASE Tick
  <2>1. UNCHANGED <<pollV, respV>> /\ now' = now + 1
    BY <1>2 DEF Tick
  <2>2. UNCHANGED <<PollTruth, RespTruth, Pending>>
    BY <1>1, <2>1 DEF PollTruth, RespTruth, Pending, RespBusy, RespAwaited,
       ReferenceAwaited, PollAwaited
  <2> QED BY <2>1, <2>2 DEF Verdicts!Next, Verdicts!Clock
<1>3. CASE ~UNCHANGED pollV
  <2>1. UNCHANGED <<respV, now>>
    BY <1>3 DEF Environment, UserStep, UserOp, CreatePoll, UpdatePoll, DeletePoll, CreateResponse,
       UpdateResponse, DeleteResponse, ForegroundDeleteResponse, CollectGarbage, Tick,
       PollControllerStep, PollWorkerStep, PollGet, PollList, PollPatch,
       PollPatchNotFound, PollRequeue, PollPatchFault, PollTimerFires, apiVars
  <2>2. PICK p \in Polls : \E obj \in Poll \cup {Nil} : WritePoll(p, obj)
    <3>1. WritesPoll
      BY <1>1, <1>3, UserWritesPoll, PatchWritesPoll
         DEF Environment, CollectGarbage, Tick, PollControllerStep, PollWorkerStep, PollGet,
             PollList, PollPatchNotFound, PollRequeue, PollTimerFires, apiVars, TypeOK
    <3> QED BY <3>1 DEF WritesPoll
  <2> QED BY <1>1, <2>1, <2>2, PollWriteStep DEF Verdicts!Next
<1>4. CASE ~UNCHANGED respV
  <2>1. UserStep \/ \E r \in Responses : CollectGarbage(r)
    BY <1>4 DEF Environment, Tick, PollControllerStep, PollWorkerStep, PollGet, PollList,
       PollPatch, PollPatchNotFound, PollRequeue, PollPatchFault, PollTimerFires, apiVars
  <2>2. UNCHANGED <<pollV, now>>
    BY <1>4, <2>1 DEF UserStep, UserOp, CreatePoll, UpdatePoll, DeletePoll, CreateResponse,
       UpdateResponse, DeleteResponse, ForegroundDeleteResponse, CollectGarbage
  <2>3. PICK r \in Responses : \E obj \in PollResponse \cup {Nil} :
              /\ WriteResponse(r, obj)
              /\ obj # Nil =>
                    IF RespTruth[r] = Nil
                    THEN obj.owner = Nil /\ obj.status = EmptyResponseStatus
                    ELSE obj.owner = RespTruth[r].owner /\ obj.status = RespTruth[r].status
    BY <1>1, <1>4, <2>1, UserStepVotes DEF CollectGarbage
  <2> QED BY <1>1, <2>2, <2>3, VoteWriteStep DEF Verdicts!Next
<1>5. CASE UNCHANGED <<pollV, respV>> /\ ~Tick
  <2>1. UNCHANGED now
    BY <1>5 DEF Environment, UserStep, UserOp, CreatePoll, UpdatePoll, DeletePoll, CreateResponse,
       UpdateResponse, DeleteResponse, ForegroundDeleteResponse, CollectGarbage,
       PollControllerStep, PollWorkerStep, PollGet, PollList, PollPatch,
       PollPatchNotFound, PollRequeue, PollPatchFault, PollTimerFires, apiVars
  <2> QED BY <1>5, <2>1, LetGoStep DEF PollTruth, RespTruth, Verdicts!Next
<1> QED BY <1>2, <1>3, <1>4, <1>5

(* Deliveries and restarts leave the stored objects alone.                  *)
LEMMA DeliveriesLetGo ==
    ASSUME TypeOK, Verdicts!SettledIsJudged',
           DeliverPoll \/ DeliverResponse \/ Restart \/ UNCHANGED vars
    PROVE  Verdicts!Look
<1>1. /\ pollV \in Seq(PollStore) /\ respV \in Seq(ResponseStore)
      /\ Len(pollV) \in Nat /\ Len(respV) \in Nat
  BY BoundsAssumption DEF TypeOK, ApiTypeOK
<1>2. CASE DeliverPoll
  BY <1>1, <1>2, LetGoStep DEF DeliverPoll, PollTruth, RespTruth
<1>3. CASE DeliverResponse
  BY <1>1, <1>3, LetGoStep DEF DeliverResponse, PollTruth, RespTruth
<1>4. CASE Restart
  BY <1>4, LetGoStep DEF Restart, PollTruth, RespTruth
<1>5. CASE UNCHANGED vars
  BY <1>5, LetGoStep DEF vars, PollTruth, RespTruth
<1> QED BY <1>2, <1>3, <1>4, <1>5

----------------------------------------------------------------------------
(* At every moment, a response that nothing about is under way belongs to   *)
(* the stored Poll it refers to and carries its verdict, whatever else is   *)
(* under way (pollresponse_controller.go:76-113).                           *)
THEOREM SettledVotesAreJudged == Spec => []Verdicts!SettledIsJudged
<1>1. TypeOK /\ VerdictTracked => Verdicts!SettledIsJudged
  BY TrackedIsJudged
<1> QED BY <1>1, TypeCorrect, VerdictAlwaysTracked, PTL

(* The operator does nothing to the stored objects that the verdict service *)
(* would not: it gives owner and verdict to a response only while something *)
(* about it is under way, and lets none go that is not judged               *)
(* (pollresponse_controller.go:76-128, 231-287 and 310-345).                *)
THEOREM OperatorImplementsVerdicts == Spec => ImplementsVerdictService
<1>1. Init => Verdicts!Init
  <2>1. Init => \A r \in Responses : ~RespAwaited(r) /\ ~ReferenceAwaited(r)
    BY DEF Init, ApiInit, RespAwaited, ReferenceAwaited, RespTruth
  <2> QED BY <2>1 DEF Init, ApiInit, RespCtlInit, IdleRespWorker, PollTruth, RespTruth,
          Verdicts!Init, Pending, RespBusy
<1>2. TypeOK /\ Verdicts!SettledIsJudged' /\ [Next]_vars
         => [Verdicts!Next]_(Verdicts!verdictVars)
  <2> SUFFICES ASSUME TypeOK, Verdicts!SettledIsJudged', [Next]_vars
               PROVE  Verdicts!Next
    OBVIOUS
  <2>1. CASE Environment \/ PollControllerStep
    BY <2>1, OthersChange
  <2>2. CASE ResponseControllerStep
    BY <2>2, ResponseControllerJudges DEF Verdicts!Next
  <2>3. CASE DeliverPoll \/ DeliverResponse \/ Restart \/ UNCHANGED vars
    BY <2>3, DeliveriesLetGo DEF Verdicts!Next
  <2> QED BY <2>1, <2>2, <2>3 DEF Next
<1> QED BY <1>1, <1>2, TypeCorrect, SettledVotesAreJudged, PTL
    DEF Spec, Verdicts!Spec, ImplementsVerdictService
=============================================================================
