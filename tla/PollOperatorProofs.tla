------------------------- MODULE PollOperatorProofs -------------------------
(***************************************************************************)
(* Theorems of PollOperator, for every value of its constants.             *)
(***************************************************************************)
EXTENDS Refinement, ApiServerProofs

----------------------------------------------------------------------------
(* The invariant behind QuietTally: at every moment somebody will look at   *)
(* Poll p again, or its status is what Reconcile would compute from the     *)
(* caches.                                                                  *)

\* The running call works on p from what the caches hold now.
TallyInHand(p) ==
    /\ pw.key = p
    /\ pw.poll = PollCache[p]
    /\ \E t \in 0..now :
          \/ /\ pw.pc = "list"
             /\ pw.desired = ComputePhase(pw.poll.spec, pw.poll.status, t)
          \/ /\ pw.pc = "patch"
             /\ pw.desired = DesiredPollStatus(p, pw.poll, RespCache, t)

\* The cached status of p is, to statusEqual, the one Reconcile would compute.
TallyCurrent(p) ==
    \/ PollCache[p] = Nil
    \/ \E t \in 0..now :
          StatusEqual(PollCache[p].status,
                      DesiredPollStatus(p, PollCache[p], RespCache, t))

TallyTracked ==
    \A p \in Polls :
       p \in pollQ \/ PollAwaited(p) \/ TallyInHand(p) \/ TallyCurrent(p)

----------------------------------------------------------------------------
(* What a watch stream still has to deliver *)

(* A Poll event does not concern the Polls it is not about.                 *)
LEMMA AwaitedAfterPollEvent ==
    ASSUME pollV \in Seq(PollStore), Len(pollV) > 1, pollV' = Tail(pollV),
           NEW p \in Polls, p \notin ChangedIn(pollV[1], pollV[2])
    PROVE  PollCache'[p] = PollCache[p] /\ (PollAwaited(p) => PollAwaited(p)')
<1>1. pollV[2] \in PollStore
  OBVIOUS
<1>2. pollV[2][p] = pollV[1][p]
  BY <1>1 DEF ChangedIn, PollStore
<1>3. /\ Tail(pollV)[1][p] = pollV[1][p]
      /\ (\E i \in 1..Len(pollV) : pollV[i][p] # pollV[1][p]) =>
            \E i \in 1..Len(Tail(pollV)) : Tail(pollV)[i][p] # Tail(pollV)[1][p]
  BY <1>2, StreamTail
<1> QED BY <1>3 DEF PollCache, PollAwaited

(* A write is not seen by the cache, and what is awaited remains so.        *)
LEMMA AwaitedAfterPollWrite ==
    ASSUME ApiTypeOK, NEW q \in Polls, NEW obj \in Poll \cup {Nil}, WritePoll(q, obj)
    PROVE  PollCache' = PollCache /\ \A p \in Polls : PollAwaited(p) => PollAwaited(p)'
<1>1. /\ Len(pollV) \in Nat /\ Len(pollV) >= 1
      /\ Len(pollV') \in Nat /\ Len(pollV) <= Len(pollV')
      /\ \A i \in 1..Len(pollV) : pollV'[i] = pollV[i]
  BY WritePollFacts, BoundsAssumption DEF ApiTypeOK
<1> QED BY <1>1 DEF PollCache, PollAwaited

(* What a write puts on the way to the caches: a version of its own object. *)
LEMMA WritePollAwaited ==
    ASSUME ApiTypeOK, NEW p \in Polls, NEW obj, WritePoll(p, obj), obj # PollTruth[p]
    PROVE  /\ PollTruth' = [PollTruth EXCEPT ![p] = obj]
           /\ \A q \in Polls : PollAwaited(q)' <=> PollAwaited(q) \/ q = p
<1> DEFINE new == [PollTruth EXCEPT ![p] = obj]
<1>1. pollV \in Seq(PollStore) /\ Len(pollV) > 0 /\ PollTruth \in PollStore
  BY BoundsAssumption, SnapshotType DEF ApiTypeOK
<1>2. pollV' = Append(pollV, new)
  BY DEF WritePoll
<1>3. new[p] = obj /\ \A q \in Polls : q # p => new[q] = PollTruth[q]
  BY <1>1 DEF PollStore
<1> HIDE DEF new
<1>4. PollTruth' = new
  BY <1>1, <1>2 DEF PollTruth
<1>5. ASSUME NEW q \in Polls PROVE PollAwaited(q)' <=> PollAwaited(q) \/ q = p
  <2>1. PollAwaited(q)' <=> PollAwaited(q) \/ new[q] # PollTruth[q]
    BY <1>1, <1>2, StreamAppend DEF PollAwaited, PollTruth
  <2> QED BY <1>3, <2>1
<1> QED BY <1>4, <1>5 DEF new

----------------------------------------------------------------------------
(* Type correctness, action by action *)

(* The Poll controller.                                                     *)
LEMMA EnqueuePollsType ==
    ASSUME PollCtlTypeOK, NEW keys \in SUBSET Polls, EnqueuePolls(keys)
    PROVE  pollQ' \subseteq Polls /\ timer' \in [Polls -> Nat \cup {Nil}]
BY DEF EnqueuePolls, TimersAfterAdd, PollCtlTypeOK

LEMMA IdlePollWorkerType ==
    IdlePollWorker \in PollWorker /\ IdlePollWorker.pc = "idle"
BY DEF IdlePollWorker, PollWorker

(* A worker in the middle of a call has all of its local variables.         *)
LEMMA PollWorkerFacts ==
    ASSUME PollCtlTypeOK, pw.pc # "idle"
    PROVE  pw.key \in Polls /\ pw.poll \in Poll /\ pw.desired \in PollStatus
BY DEF PollCtlTypeOK, PollWorker

LEMMA PatchedPollType ==
    ASSUME ApiTypeOK, PollCtlTypeOK, pw.pc # "idle", PollTruth[pw.key] # Nil
    PROVE  PatchedPoll \in Poll
<1>1. pw.key \in Polls /\ pw.poll \in Poll /\ pw.desired \in PollStatus
  BY PollWorkerFacts
<1>2. PollTruth[pw.key] \in Poll
  BY <1>1, SnapshotType DEF PollStore
<1>3. MergePollStatus(PollTruth[pw.key].status, pw.poll.status, pw.desired) \in PollStatus
  BY <1>1, <1>2, MergePollStatusType DEF Poll
<1> QED BY <1>2, <1>3 DEF PatchedPoll, Poll

LEMMA PollGetType ==
    ASSUME ApiTypeOK, PollCtlTypeOK, NEW p \in Polls, PollGet(p)
    PROVE  ApiTypeOK' /\ PollCtlTypeOK'
<1>1. pollQ' \subseteq Polls /\ UNCHANGED <<apiVars, timer, faults>>
  BY DEF PollGet, PollCtlTypeOK
<1>2. CASE PollCache[p] = Nil
  BY <1>1, <1>2, IdlePollWorkerType DEF PollGet, PollCtlTypeOK, ApiTypeOK, apiVars
<1>3. CASE PollCache[p] # Nil
  <2>1. PollCache[p] \in Poll
    BY <1>3, SnapshotType DEF PollStore
  <2>2. now \in Nat
    BY BoundsAssumption DEF ApiTypeOK
  <2>3. ComputePhase(PollCache[p].spec, PollCache[p].status, now) \in PollStatus
    BY <2>1, <2>2, ComputePhaseType DEF Poll
  <2>4. /\ pw'.pc = "list" /\ pw'.key = p /\ pw'.poll = PollCache[p]
        /\ pw'.desired = ComputePhase(PollCache[p].spec, PollCache[p].status, now)
        /\ pw' = [pc |-> "list", key |-> p, poll |-> PollCache[p],
                  desired |-> pw'.desired]
    BY <1>3 DEF PollGet
  <2>5. pw' \in PollWorker /\ pw'.key # Nil /\ pw'.poll # Nil /\ pw'.desired # Nil
    BY <2>1, <2>3, <2>4, NilAssumption DEF PollWorker
  <2> QED BY <1>1, <2>5 DEF PollCtlTypeOK, ApiTypeOK, apiVars
<1> QED BY <1>2, <1>3

LEMMA PollListType ==
    ASSUME ApiTypeOK, PollCtlTypeOK, PollList
    PROVE  ApiTypeOK' /\ PollCtlTypeOK'
<1> DEFINE desired == WithTally(pw.key, pw.poll, pw.desired, RespCache)
<1>1. pw.key \in Polls /\ pw.poll \in Poll /\ pw.desired \in PollStatus
  BY PollWorkerFacts DEF PollList
<1>2. desired \in PollStatus
  BY <1>1, DesiredType
<1>3. \E pc \in {"requeue", "patch"} : pw' = [pw EXCEPT !.desired = desired, !.pc = pc]
  BY DEF PollList
<1> HIDE DEF desired
<1>4. pw' \in PollWorker /\ pw'.key = pw.key /\ pw'.poll = pw.poll /\ pw'.desired = desired
  BY <1>2, <1>3 DEF PollCtlTypeOK, PollWorker
<1> QED BY <1>1, <1>2, <1>4, NilAssumption DEF PollList, PollCtlTypeOK, ApiTypeOK, apiVars

LEMMA PollPatchType ==
    ASSUME ApiTypeOK, PollCtlTypeOK, PollPatch
    PROVE  ApiTypeOK' /\ PollCtlTypeOK'
<1>1. pw.key \in Polls /\ pw.poll \in Poll /\ pw.desired \in PollStatus
  BY PollWorkerFacts DEF PollPatch
<1>2. PatchedPoll \in Poll
  BY PatchedPollType DEF PollPatch
<1>3. ApiTypeOK'
  BY <1>1, <1>2, WritePollFacts DEF PollPatch, ApiTypeOK
<1>4. pw' \in PollWorker /\ pw'.key = pw.key /\ pw'.poll = PatchedPoll
      /\ pw'.desired = pw.desired
  BY <1>2 DEF PollPatch, PollCtlTypeOK, PollWorker
<1> QED BY <1>1, <1>2, <1>3, <1>4, NilAssumption DEF PollPatch, PollCtlTypeOK

LEMMA PollReconcileFailsType ==
    ASSUME PollCtlTypeOK, pw.pc # "idle", PollReconcileFails, faults' \in 0..MaxFaults
    PROVE  PollCtlTypeOK'
<1>1. {pw.key} \in SUBSET Polls
  BY PollWorkerFacts
<1> QED BY <1>1, EnqueuePollsType, IdlePollWorkerType DEF PollReconcileFails, PollCtlTypeOK

LEMMA PollPatchNotFoundType ==
    ASSUME ApiTypeOK, PollCtlTypeOK, PollPatchNotFound
    PROVE  ApiTypeOK' /\ PollCtlTypeOK'
<1>1. pw.pc # "idle" /\ PollReconcileFails /\ UNCHANGED <<apiVars, faults>>
  BY DEF PollPatchNotFound
<1>2. faults' \in 0..MaxFaults
  BY <1>1 DEF PollCtlTypeOK
<1>3. PollCtlTypeOK'
  BY <1>1, <1>2, PollReconcileFailsType
<1> QED BY <1>1, <1>3 DEF ApiTypeOK, apiVars

LEMMA PollPatchFaultType ==
    ASSUME ApiTypeOK, PollCtlTypeOK, PollPatchFault
    PROVE  ApiTypeOK' /\ PollCtlTypeOK'
<1>1. faults' \in 0..MaxFaults
  BY FaultsAssumption DEF PollPatchFault, PollCtlTypeOK
<1>2. PollCtlTypeOK'
  BY <1>1, PollReconcileFailsType DEF PollPatchFault
<1>3. CASE UNCHANGED pollV
  BY <1>2, <1>3 DEF PollPatchFault, ApiTypeOK
<1>4. CASE PollTruth[pw.key] # Nil /\ WritePoll(pw.key, PatchedPoll)
  <2>1. pw.key \in Polls /\ PatchedPoll \in Poll
    BY <1>4, PollWorkerFacts, PatchedPollType DEF PollPatchFault
  <2> QED BY <1>2, <1>4, <2>1, WritePollFacts DEF PollPatchFault, ApiTypeOK
<1> QED BY <1>3, <1>4 DEF PollPatchFault

LEMMA PollRequeueType ==
    ASSUME ApiTypeOK, PollCtlTypeOK, PollRequeue
    PROVE  ApiTypeOK' /\ PollCtlTypeOK'
<1>1. pw.key \in Polls /\ pw.poll \in Poll
  BY PollWorkerFacts DEF PollRequeue
<1>2. pw.poll.spec.closesAt \in Nat \cup {Nil}
  BY <1>1 DEF Poll, PollSpec
<1>3. pollQ' \subseteq Polls /\ timer' \in [Polls -> Nat \cup {Nil}]
  BY <1>1, <1>2 DEF PollRequeue, EnqueuePollAt, PollCtlTypeOK
<1> QED BY <1>3, IdlePollWorkerType DEF PollRequeue, PollCtlTypeOK, ApiTypeOK, apiVars

LEMMA PollTimerFiresType ==
    ASSUME ApiTypeOK, PollCtlTypeOK, NEW p \in Polls, PollTimerFires(p)
    PROVE  ApiTypeOK' /\ PollCtlTypeOK'
BY DEF PollTimerFires, PollCtlTypeOK, ApiTypeOK, apiVars

(* The PollResponse controller.                                             *)
LEMMA IdleRespWorkerType ==
    IdleRespWorker \in RespWorker /\ IdleRespWorker.pc = "idle"
BY DEF IdleRespWorker, RespWorker

LEMMA RespWorkerFacts ==
    ASSUME RespCtlTypeOK, rw.pc # "idle"
    PROVE  /\ rw.key \in Responses /\ rw.resp \in PollResponse
           /\ rw.pc \in {"own", "validate"} => rw.poll \in Poll
           /\ rw.pc = "patch" => rw.desired \in PollResponseStatus
BY DEF RespCtlTypeOK, RespWorker

LEMMA ConcludeType ==
    ASSUME RespCtlTypeOK, rw.pc # "idle", UNCHANGED note, respQ' \subseteq Responses,
           NEW desired \in PollResponseStatus, Conclude(desired)
    PROVE  RespCtlTypeOK'
<1>1. rw.key \in Responses /\ rw.resp \in PollResponse
  BY RespWorkerFacts
<1>2. CASE rw' = IdleRespWorker
  BY <1>2, IdleRespWorkerType DEF RespCtlTypeOK
<1>3. CASE rw' = [rw EXCEPT !.pc = "patch", !.poll = Nil, !.desired = desired]
  <2>1. /\ rw' \in RespWorker /\ rw'.pc = "patch" /\ rw'.key = rw.key
        /\ rw'.resp = rw.resp /\ rw'.desired = desired
    BY <1>3 DEF RespCtlTypeOK, RespWorker
  <2> QED BY <1>1, <2>1, NilAssumption DEF RespCtlTypeOK
<1> QED BY <1>2, <1>3 DEF Conclude

LEMMA RespReconcileFailsType ==
    ASSUME RespCtlTypeOK, rw.pc # "idle", RespReconcileFails, UNCHANGED note
    PROVE  RespCtlTypeOK'
<1>1. rw.key \in Responses
  BY RespWorkerFacts
<1> QED BY <1>1, IdleRespWorkerType DEF RespReconcileFails, RespCtlTypeOK

LEMMA HandlePollEventType ==
    ASSUME RespCtlTypeOK, NEW p \in Polls, HandlePollEvent(p)
    PROVE  RespCtlTypeOK'
BY DEF HandlePollEvent, MapPollToResponses, RespCtlTypeOK

LEMMA RespGetType ==
    ASSUME ApiTypeOK, RespCtlTypeOK, NEW r \in Responses, RespGet(r)
    PROVE  RespCtlTypeOK'
<1>1. respQ' \subseteq Responses /\ note' \subseteq Polls
  BY DEF RespGet, RespCtlTypeOK
<1>2. CASE rw' = IdleRespWorker
  BY <1>1, <1>2, IdleRespWorkerType DEF RespCtlTypeOK
<1>3. CASE /\ RespCache[r] # Nil
           /\ rw' = [IdleRespWorker EXCEPT !.pc = "poll", !.key = r, !.resp = RespCache[r]]
  <2>1. RespCache[r] \in PollResponse
    BY <1>3, SnapshotType DEF ResponseStore
  <2>2. rw' \in RespWorker /\ rw'.pc = "poll" /\ rw'.key = r /\ rw'.resp = RespCache[r]
    BY <1>3, <2>1 DEF IdleRespWorker, RespWorker
  <2> QED BY <1>1, <2>1, <2>2, NilAssumption DEF RespCtlTypeOK
<1> QED BY <1>2, <1>3 DEF RespGet

LEMMA RespGetPollType ==
    ASSUME ApiTypeOK, RespCtlTypeOK, RespGetPoll
    PROVE  RespCtlTypeOK'
<1> DEFINE poll == PollCache[rw.resp.spec.pollRef]
<1>1. rw.key \in Responses /\ rw.resp \in PollResponse /\ rw.pc = "poll"
  BY RespWorkerFacts DEF RespGetPoll
<1>2. UNCHANGED note
  BY DEF RespGetPoll
<1>3. CASE Conclude(NotFoundStatus(rw.resp)) /\ UNCHANGED respQ
  <2>1. respQ' \subseteq Responses
    BY <1>3 DEF RespCtlTypeOK
  <2> QED BY <1>1, <1>2, <1>3, <2>1, NotFoundStatusType, ConcludeType
<1>4. CASE /\ poll # Nil /\ UNCHANGED respQ
           /\ \E pc \in {"validate", "own"} : rw' = [rw EXCEPT !.pc = pc, !.poll = poll]
  <2>1. rw.resp.spec.pollRef \in Polls
    BY <1>1 DEF PollResponse, PollResponseSpec
  <2>2. poll \in Poll
    BY <1>4, <2>1, SnapshotType DEF PollStore
  <2> HIDE DEF poll
  <2>3. /\ rw' \in RespWorker /\ rw'.pc \in {"validate", "own"}
        /\ rw'.key = rw.key /\ rw'.resp = rw.resp /\ rw'.poll = poll
    BY <1>4, <2>2 DEF RespCtlTypeOK, RespWorker
  <2> QED BY <1>1, <1>2, <1>4, <2>2, <2>3, NilAssumption DEF RespCtlTypeOK
<1>5. CASE RespReconcileFails
  BY <1>1, <1>2, <1>5, RespReconcileFailsType
<1> QED BY <1>3, <1>4, <1>5 DEF RespGetPoll

LEMMA OwnedResponseType ==
    ASSUME ApiTypeOK, RespCtlTypeOK, rw.pc = "own", RespTruth[rw.key] # Nil
    PROVE  OwnedResponse \in PollResponse
<1>1. rw.key \in Responses /\ rw.resp \in PollResponse /\ rw.poll \in Poll
  BY RespWorkerFacts
<1>2. RespTruth[rw.key] \in PollResponse
  BY <1>1, SnapshotType DEF ResponseStore
<1>3. [name |-> rw.resp.spec.pollRef, uid |-> rw.poll.uid] \in OwnerReference
  BY <1>1 DEF PollResponse, PollResponseSpec, Poll, OwnerReference
<1> QED BY <1>2, <1>3 DEF OwnedResponse, PollResponse

LEMMA JudgedResponseType ==
    ASSUME ApiTypeOK, RespCtlTypeOK, rw.pc = "patch", RespTruth[rw.key] # Nil
    PROVE  JudgedResponse \in PollResponse
<1>1. rw.key \in Responses /\ rw.resp \in PollResponse /\ rw.desired \in PollResponseStatus
  BY RespWorkerFacts
<1>2. RespTruth[rw.key] \in PollResponse
  BY <1>1, SnapshotType DEF ResponseStore
<1>3. MergeResponseStatus(RespTruth[rw.key].status, rw.resp.status, rw.desired)
      \in PollResponseStatus
  BY <1>1, <1>2, MergeResponseStatusType DEF PollResponse
<1> QED BY <1>2, <1>3 DEF JudgedResponse, PollResponse

LEMMA EnsureOwnerReferenceType ==
    ASSUME ApiTypeOK, RespCtlTypeOK, EnsureOwnerReference
    PROVE  ApiTypeOK' /\ RespCtlTypeOK'
<1>1. rw.key \in Responses /\ rw.poll \in Poll
  BY RespWorkerFacts DEF EnsureOwnerReference
<1>2. OwnedResponse \in PollResponse
  BY OwnedResponseType DEF EnsureOwnerReference
<1>3. ApiTypeOK'
  BY <1>1, <1>2, WriteResponseFacts DEF EnsureOwnerReference, ApiTypeOK
<1>4. /\ rw' \in RespWorker /\ rw'.pc = "validate" /\ rw'.key = rw.key
      /\ rw'.resp = OwnedResponse /\ rw'.poll = rw.poll
  BY <1>2 DEF EnsureOwnerReference, RespCtlTypeOK, RespWorker
<1> QED BY <1>1, <1>2, <1>3, <1>4, NilAssumption DEF EnsureOwnerReference, RespCtlTypeOK

LEMMA ValidateType ==
    ASSUME ApiTypeOK, RespCtlTypeOK, Validate
    PROVE  RespCtlTypeOK'
<1>1. rw.resp \in PollResponse /\ rw.poll \in Poll
  BY RespWorkerFacts DEF Validate
<1>2. now \in Nat
  BY BoundsAssumption DEF ApiTypeOK
<1>3. ValidatedStatus(rw.poll, rw.resp, now) \in PollResponseStatus
  BY <1>1, <1>2, ValidatedStatusType
<1>4. respQ' \subseteq Responses
  BY DEF Validate, RespCtlTypeOK
<1> QED BY <1>3, <1>4, ConcludeType DEF Validate

LEMMA RespPatchType ==
    ASSUME ApiTypeOK, RespCtlTypeOK, RespPatch
    PROVE  ApiTypeOK' /\ RespCtlTypeOK'
<1>1. rw.key \in Responses
  BY RespWorkerFacts DEF RespPatch
<1>2. JudgedResponse \in PollResponse
  BY JudgedResponseType DEF RespPatch
<1> QED BY <1>1, <1>2, WriteResponseFacts, IdleRespWorkerType
        DEF RespPatch, ApiTypeOK, RespCtlTypeOK

LEMMA RespWriteNotFoundType ==
    ASSUME ApiTypeOK, RespCtlTypeOK, RespWriteNotFound
    PROVE  RespCtlTypeOK'
<1>1. rw.pc # "idle" /\ RespReconcileFails /\ UNCHANGED note
  BY DEF RespWriteNotFound
<1> QED BY <1>1, RespReconcileFailsType

LEMMA RespWriteFaultType ==
    ASSUME ApiTypeOK, RespCtlTypeOK, RespWriteFault
    PROVE  ApiTypeOK' /\ RespCtlTypeOK'
<1>1. rw.pc # "idle" /\ RespReconcileFails /\ UNCHANGED note
      /\ UNCHANGED <<pollV, now, ops>>
  BY DEF RespWriteFault
<1>2. RespCtlTypeOK'
  BY <1>1, RespReconcileFailsType
<1>3. rw.key \in Responses
  BY <1>1, RespWorkerFacts
<1>4. CASE UNCHANGED respV
  BY <1>1, <1>2, <1>4 DEF ApiTypeOK
<1>5. CASE /\ RespTruth[rw.key] # Nil
           /\ \E obj \in PollResponse : WriteResponse(rw.key, obj)
  BY <1>1, <1>2, <1>3, <1>5, WriteResponseFacts DEF ApiTypeOK
<1> QED BY <1>4, <1>5, OwnedResponseType, JudgedResponseType DEF RespWriteFault

(* Watch events and restarts.                                               *)
LEMMA PollEventFacts ==
    ASSUME ApiTypeOK, Len(pollV) > 1
    PROVE  /\ pollV[1] \in PollStore /\ pollV[2] \in PollStore
           /\ ChangedIn(pollV[1], pollV[2]) \subseteq Polls
<1>1. pollV[1] \in PollStore /\ pollV[2] \in PollStore
  BY DEF ApiTypeOK
<1> QED BY <1>1 DEF PollStore, ChangedIn

LEMMA ResponseEventFacts ==
    ASSUME ApiTypeOK, Len(respV) > 1
    PROVE  /\ respV[1] \in ResponseStore /\ respV[2] \in ResponseStore
           /\ ChangedIn(respV[1], respV[2]) \subseteq Responses
           /\ \A r \in Responses : /\ MapResponseToPoll(respV[1][r]) \subseteq Polls
                                   /\ MapResponseToPoll(respV[2][r]) \subseteq Polls
<1>1. respV[1] \in ResponseStore /\ respV[2] \in ResponseStore
  BY DEF ApiTypeOK
<1>2. \A resp \in PollResponse \cup {Nil} : MapResponseToPoll(resp) \subseteq Polls
  BY DEF MapResponseToPoll, PollResponse, PollResponseSpec
<1> QED BY <1>1, <1>2 DEF ResponseStore, ChangedIn

LEMMA DeliverPollType ==
    ASSUME TypeOK, DeliverPoll
    PROVE  TypeOK'
<1>1. ApiTypeOK /\ PollCtlTypeOK /\ RespCtlTypeOK
  BY DEF TypeOK
<1>2. Len(pollV) > 1 /\ pollV' = Tail(pollV)
      /\ UNCHANGED <<respV, now, ops, pw, faults, respQ, rw, crashes>>
  BY DEF DeliverPoll
<1>3. ApiTypeOK'
  BY <1>1, <1>2, BoundsAssumption DEF ApiTypeOK
<1>4. ChangedIn(pollV[1], pollV[2]) \in SUBSET Polls
  BY <1>1, <1>2, PollEventFacts
<1>5. pollQ' \subseteq Polls /\ timer' \in [Polls -> Nat \cup {Nil}]
  BY <1>1, <1>4, EnqueuePollsType DEF DeliverPoll
<1>6. note' \subseteq Polls
  BY <1>1, <1>4 DEF DeliverPoll, RespCtlTypeOK
<1> QED BY <1>1, <1>2, <1>3, <1>5, <1>6 DEF TypeOK, PollCtlTypeOK, RespCtlTypeOK

LEMMA DeliverResponseType ==
    ASSUME TypeOK, DeliverResponse
    PROVE  TypeOK'
<1> DEFINE changed == ChangedIn(respV[1], respV[2])
           polls == UNION {MapResponseToPoll(respV[1][r])
                           \cup MapResponseToPoll(respV[2][r]) : r \in changed}
<1>1. ApiTypeOK /\ PollCtlTypeOK /\ RespCtlTypeOK
  BY DEF TypeOK
<1>2. Len(respV) > 1 /\ respV' = Tail(respV)
      /\ UNCHANGED <<pollV, now, ops, pw, faults, note, rw, crashes>>
  BY DEF DeliverResponse
<1>3. ApiTypeOK'
  BY <1>1, <1>2, BoundsAssumption DEF ApiTypeOK
<1>4. changed \subseteq Responses /\ polls \in SUBSET Polls
  BY <1>1, <1>2, ResponseEventFacts
<1>5. EnqueuePolls(polls) /\ respQ' = respQ \cup changed
  BY DEF DeliverResponse
<1> HIDE DEF changed, polls
<1>6. pollQ' \subseteq Polls /\ timer' \in [Polls -> Nat \cup {Nil}]
  BY <1>1, <1>4, <1>5, EnqueuePollsType
<1> QED BY <1>1, <1>2, <1>3, <1>4, <1>5, <1>6 DEF TypeOK, PollCtlTypeOK, RespCtlTypeOK

LEMMA RestartType ==
    ASSUME TypeOK, Restart
    PROVE  TypeOK'
<1>1. ApiTypeOK /\ PollCtlTypeOK /\ RespCtlTypeOK
  BY DEF TypeOK
<1>2. PollTruth \in PollStore /\ RespTruth \in ResponseStore
  BY <1>1, SnapshotType
<1>3. ApiTypeOK'
  BY <1>1, <1>2, BoundsAssumption DEF Restart, ApiTypeOK
<1>4. \A r \in Responses : RespTruth[r] # Nil => RespTruth[r].spec.pollRef \in Polls
  BY <1>2 DEF ResponseStore, PollResponse, PollResponseSpec
<1>5. pollQ' \subseteq Polls /\ note' \subseteq Polls /\ respQ' \subseteq Responses
  BY <1>4 DEF Restart
<1>6. timer' \in [Polls -> Nat \cup {Nil}]
  BY DEF Restart
<1>7. crashes' \in 0..MaxCrashes
  BY CrashesAssumption DEF Restart, TypeOK
<1>8. PollCtlTypeOK' /\ RespCtlTypeOK'
  BY <1>1, <1>5, <1>6, IdlePollWorkerType, IdleRespWorkerType
     DEF Restart, PollCtlTypeOK, RespCtlTypeOK
<1> QED BY <1>3, <1>7, <1>8 DEF TypeOK

----------------------------------------------------------------------------
(* No step of the operator or its environment leaves the declared types: in *)
(* particular no call reaches a patch without a desired status, and no      *)
(* worker runs without an object (Reconcile of both controllers).           *)
THEOREM TypeCorrect == Spec => []TypeOK
<1>1. Init => TypeOK
  <2> SUFFICES ASSUME Init PROVE TypeOK
    OBVIOUS
  <2>1. ApiTypeOK
    BY BoundsAssumption DEF Init, ApiInit, ApiTypeOK, PollStore, ResponseStore
  <2>2. PollCtlTypeOK
    BY IdlePollWorkerType, FaultsAssumption DEF Init, PollCtlInit, PollCtlTypeOK
  <2>3. RespCtlTypeOK
    BY IdleRespWorkerType DEF Init, RespCtlInit, RespCtlTypeOK
  <2> QED BY <2>1, <2>2, <2>3, CrashesAssumption DEF Init, TypeOK
<1>2. TypeOK /\ [Next]_vars => TypeOK'
  <2> SUFFICES ASSUME TypeOK, [Next]_vars PROVE TypeOK'
    OBVIOUS
  <2>1. ApiTypeOK /\ PollCtlTypeOK /\ RespCtlTypeOK /\ crashes \in 0..MaxCrashes
    BY DEF TypeOK
  <2>2. CASE Environment
    <3>1. UNCHANGED <<pollCtlVars, respCtlVars, faults, crashes>>
      BY <2>2 DEF Environment
    <3>2. ApiTypeOK'
      BY <2>1, <2>2, UserStepType, CollectGarbageType, TickType DEF Environment
    <3> QED BY <2>1, <3>1, <3>2
            DEF TypeOK, pollCtlVars, respCtlVars, PollCtlTypeOK, RespCtlTypeOK
  <2>3. CASE DeliverPoll
    BY <2>3, DeliverPollType
  <2>4. CASE DeliverResponse
    BY <2>4, DeliverResponseType
  <2>5. CASE PollControllerStep
    <3>1. UNCHANGED <<respCtlVars, crashes>>
      BY <2>5 DEF PollControllerStep
    <3>2. ApiTypeOK' /\ PollCtlTypeOK'
      BY <2>1, <2>5, PollGetType, PollListType, PollPatchType, PollPatchNotFoundType,
         PollRequeueType, PollPatchFaultType, PollTimerFiresType
         DEF PollControllerStep, PollWorkerStep
    <3> QED BY <2>1, <3>1, <3>2 DEF TypeOK, respCtlVars, RespCtlTypeOK
  <2>6. CASE ResponseControllerStep
    <3>1. UNCHANGED <<pollCtlVars, crashes>> /\ faults' \in 0..MaxFaults
      <4>1. UNCHANGED <<pollCtlVars, crashes>>
        BY <2>6 DEF ResponseControllerStep, RespWorkerStep, RespGet, RespGetPoll,
                    EnsureOwnerReference, Validate, RespPatch, RespWriteNotFound,
                    RespWriteFault, HandlePollEvent
      <4>2. UNCHANGED faults \/ RespWriteFault
        BY <2>6 DEF ResponseControllerStep, RespWorkerStep, RespGet, RespGetPoll,
                    EnsureOwnerReference, Validate, RespPatch, RespWriteNotFound,
                    HandlePollEvent
      <4>3. RespWriteFault => faults < MaxFaults /\ faults' = faults + 1
        BY DEF RespWriteFault
      <4> QED BY <2>1, <4>1, <4>2, <4>3, FaultsAssumption DEF PollCtlTypeOK
    <3>2. CASE UNCHANGED apiVars
      <4>1. RespCtlTypeOK'
        BY <2>1, <2>6, HandlePollEventType, RespGetType, RespGetPollType, ValidateType,
           EnsureOwnerReferenceType, RespPatchType, RespWriteNotFoundType,
           RespWriteFaultType DEF ResponseControllerStep, RespWorkerStep
      <4> QED BY <2>1, <3>1, <3>2, <4>1
              DEF TypeOK, apiVars, pollCtlVars, ApiTypeOK, PollCtlTypeOK
    <3>3. CASE EnsureOwnerReference \/ RespPatch \/ RespWriteFault
      <4>1. ApiTypeOK' /\ RespCtlTypeOK'
        BY <2>1, <3>3, EnsureOwnerReferenceType, RespPatchType, RespWriteFaultType
      <4> QED BY <2>1, <3>1, <4>1 DEF TypeOK, pollCtlVars, PollCtlTypeOK
    <3> QED BY <2>6, <3>2, <3>3
            DEF ResponseControllerStep, RespWorkerStep, RespGet, RespGetPoll,
                Validate, RespWriteNotFound, HandlePollEvent
  <2>7. CASE Restart
    BY <2>7, RestartType
  <2>8. CASE UNCHANGED vars
    BY <2>1, <2>8 DEF vars, TypeOK, ApiTypeOK, PollCtlTypeOK, RespCtlTypeOK,
       PollCache, PollTruth, RespCache, RespTruth
  <2> QED BY <2>2, <2>3, <2>4, <2>5, <2>6, <2>7, <2>8 DEF Next
<1> QED BY <1>1, <1>2, PTL DEF Spec

----------------------------------------------------------------------------
(* The tally *)

(* A step that leaves the caches, the Poll worker and the keys alone, and   *)
(* at most lengthens the stream or moves the clock, keeps track.            *)
LEMMA TrackedUndisturbed ==
    ASSUME TypeOK, TallyTracked,
           Len(pollV) <= Len(pollV'), Len(pollV') \in Nat,
           \A i \in 1..Len(pollV) : pollV'[i] = pollV[i],
           respV'[1] = respV[1],
           pollQ \subseteq pollQ', UNCHANGED pw, now <= now', now' \in Nat
    PROVE  TallyTracked'
<1>1. Len(pollV) \in Nat /\ Len(pollV) >= 1 /\ now \in Nat
  BY BoundsAssumption DEF TypeOK, ApiTypeOK
<1>2. PollCache' = PollCache /\ RespCache' = RespCache /\ pollV'[1] = pollV[1]
  BY <1>1 DEF PollCache, RespCache
<1>3. 0..now \subseteq 0..now'
  BY <1>1
<1>4. ASSUME NEW p \in Polls, PollAwaited(p) PROVE PollAwaited(p)'
  BY <1>1, <1>2, <1>4 DEF PollAwaited
<1>5. ASSUME NEW p \in Polls, TallyInHand(p) PROVE TallyInHand(p)'
  BY <1>2, <1>3, <1>5 DEF TallyInHand
<1>6. ASSUME NEW p \in Polls, TallyCurrent(p) PROVE TallyCurrent(p)'
  BY <1>2, <1>3, <1>6 DEF TallyCurrent
<1> QED BY <1>4, <1>5, <1>6 DEF TallyTracked

(* Writes to the stored responses leave the cached ones alone.              *)
LEMMA ResponseWriteKeepsCache ==
    ASSUME ApiTypeOK, NEW r \in Responses, NEW obj \in PollResponse \cup {Nil},
           WriteResponse(r, obj)
    PROVE  respV'[1] = respV[1]
BY WriteResponseFacts DEF ApiTypeOK

(* Every write to the Polls that is not the Poll worker's lengthens the     *)
(* stream at most.                                                          *)
LEMMA StreamOnlyGrows ==
    ASSUME TypeOK, Environment \/ ResponseControllerStep
    PROVE  /\ Len(pollV) <= Len(pollV') /\ Len(pollV') \in Nat
           /\ \A i \in 1..Len(pollV) : pollV'[i] = pollV[i]
           /\ respV'[1] = respV[1]
           /\ UNCHANGED <<pollQ, pw>>
           /\ now <= now' /\ now' \in Nat
<1>1. ApiTypeOK /\ PollCtlTypeOK /\ RespCtlTypeOK
  BY DEF TypeOK
<1>2. now \in Nat /\ Len(pollV) \in Nat
  BY <1>1, BoundsAssumption DEF ApiTypeOK
<1>3. CASE ResponseControllerStep
  <2>1. UNCHANGED <<pollV, now, pollQ, pw>>
    BY <1>3 DEF ResponseControllerStep, RespWorkerStep, RespGet, RespGetPoll,
       EnsureOwnerReference, Validate, RespPatch, RespWriteNotFound,
       RespWriteFault, HandlePollEvent, apiVars, pollCtlVars
  <2>2. CASE UNCHANGED respV
    BY <1>2, <2>1, <2>2
  <2>3. CASE \E obj \in PollResponse : WriteResponse(rw.key, obj) /\ rw.pc # "idle"
    <3>1. rw.key \in Responses
      BY <1>1, <2>3, RespWorkerFacts
    <3> QED BY <1>1, <1>2, <2>1, <2>3, <3>1, ResponseWriteKeepsCache
  <2>4. UNCHANGED respV \/ EnsureOwnerReference \/ RespPatch \/ RespWriteFault
    BY <1>3 DEF ResponseControllerStep, RespWorkerStep, RespGet, RespGetPoll,
       Validate, RespWriteNotFound, HandlePollEvent, apiVars
  <2>5. ASSUME EnsureOwnerReference \/ RespPatch \/ RespWriteFault
        PROVE  \/ UNCHANGED respV
               \/ \E obj \in PollResponse : WriteResponse(rw.key, obj) /\ rw.pc # "idle"
    BY <1>1, <2>5, OwnedResponseType, JudgedResponseType
       DEF EnsureOwnerReference, RespPatch, RespWriteFault
  <2> QED BY <2>2, <2>3, <2>4, <2>5
<1>4. CASE Environment
  <2>1. UNCHANGED <<pollQ, pw>>
    BY <1>4 DEF Environment, pollCtlVars
  <2>2. PollTruth \in PollStore /\ RespTruth \in ResponseStore
    BY <1>1, SnapshotType
  <2>3. CASE Tick
    BY <1>2, <2>1, <2>3 DEF Tick
  <2>4. CASE \E r \in Responses : CollectGarbage(r)
    BY <1>1, <1>2, <2>1, <2>4, ResponseWriteKeepsCache DEF CollectGarbage
  <2>5. CASE UserStep
    <3>1. UNCHANGED now
      BY <2>5 DEF UserStep, CreatePoll, UpdatePoll, DeletePoll, CreateResponse,
         UpdateResponse, DeleteResponse, ForegroundDeleteResponse, UserOp
    <3>2. \/ /\ UNCHANGED respV
             /\ \E p \in Polls, obj \in Poll \cup {Nil} : WritePoll(p, obj)
          \/ /\ UNCHANGED pollV
             /\ \E r \in Responses, obj \in PollResponse \cup {Nil} : WriteResponse(r, obj)
      BY <1>1, <2>5, UserStepWrites
    <3>3. CASE UNCHANGED respV /\ \E p \in Polls, obj \in Poll \cup {Nil} : WritePoll(p, obj)
      BY <1>1, <1>2, <2>1, <3>1, <3>3, WritePollFacts
    <3>4. CASE UNCHANGED pollV
               /\ \E r \in Responses, obj \in PollResponse \cup {Nil} : WriteResponse(r, obj)
      BY <1>1, <1>2, <2>1, <3>1, <3>4, ResponseWriteKeepsCache
    <3> QED BY <3>2, <3>3, <3>4
  <2> QED BY <1>4, <2>3, <2>4, <2>5 DEF Environment
<1> QED BY <1>3, <1>4

(* A Poll event queues the Poll it is about, and leaves the others as they  *)
(* were.                                                                    *)
LEMMA TrackedDeliverPoll ==
    ASSUME TypeOK, TallyTracked, DeliverPoll
    PROVE  TallyTracked'
<1>1. pollV \in Seq(PollStore) /\ Len(pollV) > 1 /\ pollV' = Tail(pollV)
  BY DEF DeliverPoll, TypeOK, ApiTypeOK
<1>2. /\ UNCHANGED <<respV, now, pw>>
      /\ pollQ' = pollQ \cup ChangedIn(pollV[1], pollV[2])
  BY DEF DeliverPoll, EnqueuePolls
<1>3. SUFFICES ASSUME NEW p \in Polls, p \notin pollQ'
               PROVE  PollAwaited(p)' \/ TallyInHand(p)' \/ TallyCurrent(p)'
  BY DEF TallyTracked
<1>4. p \notin pollQ /\ p \notin ChangedIn(pollV[1], pollV[2])
  BY <1>2, <1>3
<1>5. /\ PollCache'[p] = PollCache[p] /\ RespCache' = RespCache
      /\ PollAwaited(p) => PollAwaited(p)'
  BY <1>1, <1>2, <1>4, AwaitedAfterPollEvent DEF RespCache
<1>6. CASE TallyInHand(p)
  BY <1>2, <1>5, <1>6 DEF TallyInHand
<1>7. CASE TallyCurrent(p)
  BY <1>2, <1>5, <1>7 DEF TallyCurrent
<1> QED BY <1>4, <1>5, <1>6, <1>7 DEF TallyTracked

(* What Reconcile computes for p does not change with responses that do not *)
(* refer to p.                                                              *)
LEMMA DesiredLocal ==
    ASSUME NEW p \in Polls, NEW poll, NEW status,
           NEW old \in ResponseStore, NEW new \in ResponseStore,
           \A r \in Responses :
              \/ new[r] = old[r]
              \/ /\ old[r] = Nil \/ old[r].spec.pollRef # p
                 /\ new[r] = Nil \/ new[r].spec.pollRef # p
    PROVE  WithTally(p, poll, status, new) = WithTally(p, poll, status, old)
<1>1. /\ AggregateResults(p, poll.spec, new) = AggregateResults(p, poll.spec, old)
      /\ TotalResponses(p, new) = TotalResponses(p, old)
  BY TallyLocal
<1> QED BY <1>1 DEF WithTally

(* A PollResponse event queues the Polls it refers to before and after, and *)
(* does not concern the others.                                             *)
LEMMA TrackedDeliverResponse ==
    ASSUME TypeOK, TallyTracked, DeliverResponse
    PROVE  TallyTracked'
<1> DEFINE changed == ChangedIn(respV[1], respV[2])
           polls == UNION {MapResponseToPoll(respV[1][r])
                           \cup MapResponseToPoll(respV[2][r]) : r \in changed}
<1>1. /\ Len(respV) > 1 /\ respV \in Seq(ResponseStore)
      /\ respV[1] \in ResponseStore /\ respV[2] \in ResponseStore
  BY ResponseEventFacts DEF DeliverResponse, TypeOK, ApiTypeOK
<1>2. /\ RespCache = respV[1] /\ RespCache' = respV[2]
      /\ UNCHANGED <<pollV, now, pw>>
      /\ pollQ' = pollQ \cup polls
  BY <1>1 DEF DeliverResponse, EnqueuePolls, RespCache
<1>3. SUFFICES ASSUME NEW p \in Polls, p \notin pollQ'
               PROVE  PollAwaited(p)' \/ TallyInHand(p)' \/ TallyCurrent(p)'
  BY DEF TallyTracked
<1>4. PollCache' = PollCache
  BY <1>2 DEF PollCache
<1>5. ASSUME NEW r \in Responses
      PROVE  \/ respV[2][r] = respV[1][r]
             \/ /\ respV[1][r] = Nil \/ respV[1][r].spec.pollRef # p
                /\ respV[2][r] = Nil \/ respV[2][r].spec.pollRef # p
  <2>1. CASE r \notin changed
    BY <1>1, <2>1 DEF ChangedIn, ResponseStore
  <2>2. CASE r \in changed
    <3>1. /\ p \notin MapResponseToPoll(respV[1][r])
          /\ p \notin MapResponseToPoll(respV[2][r])
      BY <1>2, <1>3, <2>2
    <3> QED BY <3>1 DEF MapResponseToPoll
  <2> QED BY <2>1, <2>2
<1>6. ASSUME NEW poll, NEW t
      PROVE  DesiredPollStatus(p, poll, RespCache', t) = DesiredPollStatus(p, poll, RespCache, t)
  BY <1>1, <1>2, <1>5, DesiredLocal DEF DesiredPollStatus
<1>7. CASE PollAwaited(p)
  BY <1>2, <1>7 DEF PollAwaited
<1>8. CASE TallyInHand(p)
  BY <1>2, <1>4, <1>6, <1>8 DEF TallyInHand
<1>9. CASE TallyCurrent(p)
  BY <1>2, <1>4, <1>6, <1>9 DEF TallyCurrent
<1> QED BY <1>2, <1>3, <1>7, <1>8, <1>9 DEF TallyTracked

(* A restart queues every stored Poll.                                      *)
LEMMA TrackedRestart ==
    ASSUME TypeOK, Restart
    PROVE  TallyTracked'
<1>1. PollCache' = PollTruth
  BY DEF Restart, PollCache
<1>2. ASSUME NEW p \in Polls
      PROVE  p \in pollQ' \/ PollCache'[p] = Nil
  BY <1>1 DEF Restart
<1> QED BY <1>2 DEF TallyTracked, TallyCurrent

(* Taking a key off the queue puts it in the worker's hands, at the time    *)
(* the worker reads.                                                        *)
LEMMA TrackedPollGet ==
    ASSUME TypeOK, TallyTracked, NEW q \in Polls, PollGet(q)
    PROVE  TallyTracked'
<1>1. /\ UNCHANGED <<pollV, respV, now>> /\ pollQ' = pollQ \ {q} /\ pw.pc = "idle"
      /\ now \in Nat
  BY BoundsAssumption DEF PollGet, apiVars, TypeOK, ApiTypeOK
<1>2. PollCache' = PollCache /\ RespCache' = RespCache
  BY <1>1 DEF PollCache, RespCache
<1>3. SUFFICES ASSUME NEW p \in Polls, p \notin pollQ'
               PROVE  PollAwaited(p)' \/ TallyInHand(p)' \/ TallyCurrent(p)'
  BY DEF TallyTracked
<1>4. CASE p = q
  <2>1. CASE PollCache[p] = Nil
    BY <1>2, <2>1 DEF TallyCurrent
  <2>2. CASE PollCache[p] # Nil
    <3>1. /\ pw'.pc = "list" /\ pw'.key = p /\ pw'.poll = PollCache[p]
          /\ pw'.desired = ComputePhase(PollCache[p].spec, PollCache[p].status, now)
      BY <1>4, <2>2 DEF PollGet
    <3>2. now \in 0..now'
      BY <1>1
    <3> QED BY <1>2, <3>1, <3>2 DEF TallyInHand
  <2> QED BY <2>1, <2>2
<1>5. CASE p # q
  <2>1. PollAwaited(p) \/ TallyCurrent(p)
    BY <1>1, <1>3, <1>5 DEF TallyTracked, TallyInHand
  <2>2. PollAwaited(p) => PollAwaited(p)'
    BY <1>1 DEF PollAwaited
  <2>3. TallyCurrent(p) => TallyCurrent(p)'
    BY <1>1, <1>2 DEF TallyCurrent
  <2> QED BY <2>1, <2>2, <2>3
<1> QED BY <1>4, <1>5

(* Listing completes the desired status from the same cache; only an equal  *)
(* one is not written.                                                      *)
LEMMA TrackedPollList ==
    ASSUME TypeOK, TallyTracked, PollList
    PROVE  TallyTracked'
<1> DEFINE desired == WithTally(pw.key, pw.poll, pw.desired, RespCache)
<1>1. /\ UNCHANGED <<pollV, respV, now, pollQ>> /\ pw.pc = "list"
      /\ pw' = [pw EXCEPT !.desired = desired,
                          !.pc = IF StatusEqual(pw.poll.status, desired)
                                 THEN "requeue" ELSE "patch"]
  BY DEF PollList, apiVars
<1> HIDE DEF desired
<1>2. PollCache' = PollCache /\ RespCache' = RespCache
  BY <1>1 DEF PollCache, RespCache
<1>3. SUFFICES ASSUME NEW p \in Polls, p \notin pollQ'
               PROVE  PollAwaited(p)' \/ TallyInHand(p)' \/ TallyCurrent(p)'
  BY DEF TallyTracked
<1>4. CASE PollAwaited(p)
  BY <1>1, <1>4 DEF PollAwaited
<1>5. CASE TallyCurrent(p)
  BY <1>1, <1>2, <1>5 DEF TallyCurrent
<1>6. CASE TallyInHand(p)
  <2>1. pw.key = p /\ pw.poll = PollCache[p]
    BY <1>6 DEF TallyInHand
  <2>2. PICK t \in 0..now : pw.desired = ComputePhase(pw.poll.spec, pw.poll.status, t)
    BY <1>1, <1>6 DEF TallyInHand
  <2>3. desired = DesiredPollStatus(p, pw.poll, RespCache, t)
    BY <2>1, <2>2 DEF desired, DesiredPollStatus
  <2>4. CASE StatusEqual(pw.poll.status, desired)
    BY <1>1, <1>2, <2>1, <2>2, <2>3, <2>4 DEF TallyCurrent
  <2>5. CASE ~StatusEqual(pw.poll.status, desired)
    <3>1. /\ pw'.pc = "patch" /\ pw'.desired = desired
          /\ pw'.key = pw.key /\ pw'.poll = pw.poll
      BY <1>1, <2>5 DEF TypeOK, PollCtlTypeOK, PollWorker
    <3> QED BY <1>1, <1>2, <2>1, <2>2, <2>3, <3>1 DEF TallyInHand
  <2> QED BY <2>4, <2>5
<1> QED BY <1>1, <1>3, <1>4, <1>5, <1>6 DEF TallyTracked

(* A patch from an up-to-date base stores the desired status: either that   *)
(* is a new version, which the cache awaits, or it was in place.            *)
LEMMA PatchInHand ==
    ASSUME ApiTypeOK, PollCtlTypeOK, pw.pc = "patch", NEW p \in Polls, pw.key = p,
           PollTruth[p] # Nil, WritePoll(p, PatchedPoll),
           pw.poll = PollCache[p], ~PollAwaited(p)
    PROVE  \/ PollAwaited(p)'
           \/ PatchedPoll = PollCache[p] /\ PatchedPoll.status = pw.desired
<1>1. pw.poll \in Poll /\ pw.desired \in PollStatus /\ PatchedPoll \in Poll
  BY PollWorkerFacts, PatchedPollType
<1>2. /\ Len(pollV) \in Nat /\ Len(pollV) >= 1
      /\ Len(pollV') \in Nat /\ Len(pollV) <= Len(pollV')
      /\ \A i \in 1..Len(pollV) : pollV'[i] = pollV[i]
      /\ PollTruth'[p] = PatchedPoll
  BY <1>1, WritePollFacts, BoundsAssumption DEF ApiTypeOK
<1>3. PollTruth[p] = PollCache[p] /\ pollV'[1] = pollV[1]
  BY <1>2 DEF PollAwaited, PollTruth, PollCache
<1>4. CASE PatchedPoll # PollCache[p]
  <2>1. pollV'[Len(pollV')][p] # pollV'[1][p]
    BY <1>2, <1>3, <1>4 DEF PollTruth, PollCache
  <2>2. Len(pollV') \in 1..Len(pollV')
    BY <1>2
  <2> QED BY <2>1, <2>2 DEF PollAwaited
<1>5. CASE PatchedPoll = PollCache[p]
  <2>1. PatchedPoll.status = MergePollStatus(pw.poll.status, pw.poll.status, pw.desired)
    BY <1>1, <1>3 DEF PatchedPoll, Poll
  <2>2. PatchedPoll.status = pw.desired
    BY <1>1, <2>1, MergePollStatusFresh DEF Poll
  <2> QED BY <1>5, <2>2
<1> QED BY <1>4, <1>5

(* A patch that writes something is awaited by the cache; one that writes   *)
(* nothing, from an up-to-date base, found the desired status in place.     *)
LEMMA TrackedPollPatch ==
    ASSUME TypeOK, TallyTracked, PollPatch
    PROVE  TallyTracked'
<1>1. ApiTypeOK /\ PollCtlTypeOK
  BY DEF TypeOK
<1>2. /\ UNCHANGED <<respV, now, pollQ>> /\ pw.pc = "patch"
      /\ PollTruth[pw.key] # Nil /\ WritePoll(pw.key, PatchedPoll)
  BY DEF PollPatch
<1>3. pw.key \in Polls /\ pw.desired \in PollStatus /\ PatchedPoll \in Poll
  BY <1>1, <1>2, PollWorkerFacts, PatchedPollType
<1>4. /\ PollCache' = PollCache /\ RespCache' = RespCache
      /\ \A p \in Polls : PollAwaited(p) => PollAwaited(p)'
  BY <1>1, <1>2, <1>3, AwaitedAfterPollWrite DEF RespCache
<1>5. SUFFICES ASSUME NEW p \in Polls, p \notin pollQ'
               PROVE  PollAwaited(p)' \/ TallyInHand(p)' \/ TallyCurrent(p)'
  BY DEF TallyTracked
<1>6. CASE PollAwaited(p)
  BY <1>4, <1>6
<1>7. CASE TallyCurrent(p)
  BY <1>2, <1>4, <1>7 DEF TallyCurrent
<1>8. CASE TallyInHand(p) /\ ~PollAwaited(p)
  <2>1. pw.key = p /\ pw.poll = PollCache[p]
    BY <1>8 DEF TallyInHand
  <2>2. PICK t \in 0..now : pw.desired = DesiredPollStatus(p, pw.poll, RespCache, t)
    BY <1>2, <1>8 DEF TallyInHand
  <2>3. PollAwaited(p)' \/ (PatchedPoll = PollCache[p] /\ PatchedPoll.status = pw.desired)
    <3>1. PollTruth[p] # Nil /\ WritePoll(p, PatchedPoll)
      BY <1>2, <2>1
    <3> QED BY <1>1, <1>2, <1>8, <2>1, <3>1, PatchInHand
  <2>4. CASE PatchedPoll = PollCache[p] /\ PatchedPoll.status = pw.desired
    <3>1. StatusEqual(PollCache[p].status, pw.desired)
      BY <1>3, <2>4, StatusEqualReflexive
    <3> QED BY <1>2, <1>4, <2>1, <2>2, <3>1 DEF TallyCurrent
  <2> QED BY <2>3, <2>4
<1> QED BY <1>2, <1>5, <1>6, <1>7, <1>8 DEF TallyTracked

(* A failed call puts its key back, whatever it wrote.                      *)
LEMMA TrackedPollFails ==
    ASSUME TypeOK, TallyTracked, PollPatchNotFound \/ PollPatchFault
    PROVE  TallyTracked'
<1>1. ApiTypeOK /\ PollCtlTypeOK
  BY DEF TypeOK
<1>2. /\ UNCHANGED <<respV, now>> /\ pw.pc = "patch"
      /\ pollQ' = pollQ \cup {pw.key}
      /\ \/ UNCHANGED pollV
         \/ PollTruth[pw.key] # Nil /\ WritePoll(pw.key, PatchedPoll)
  <2>1. CASE PollPatchNotFound
    BY <2>1 DEF PollPatchNotFound, PollReconcileFails, EnqueuePolls, apiVars
  <2>2. CASE PollPatchFault
    BY <2>2 DEF PollPatchFault, PollReconcileFails, EnqueuePolls
  <2> QED BY <2>1, <2>2
<1>3. Len(pollV) \in Nat /\ Len(pollV) >= 1
  BY <1>1, BoundsAssumption DEF ApiTypeOK
<1>4. /\ Len(pollV') \in Nat /\ Len(pollV) <= Len(pollV')
      /\ \A i \in 1..Len(pollV) : pollV'[i] = pollV[i]
  <2>1. CASE UNCHANGED pollV
    BY <1>3, <2>1
  <2>2. CASE PollTruth[pw.key] # Nil /\ WritePoll(pw.key, PatchedPoll)
    <3>1. pw.key \in Polls /\ PatchedPoll \in Poll
      BY <1>1, <1>2, <2>2, PollWorkerFacts, PatchedPollType
    <3> QED BY <1>1, <2>2, <3>1, WritePollFacts
  <2> QED BY <1>2, <2>1, <2>2
<1>5. PollCache' = PollCache /\ RespCache' = RespCache /\ pollV'[1] = pollV[1]
  BY <1>2, <1>3, <1>4 DEF PollCache, RespCache
<1>6. SUFFICES ASSUME NEW p \in Polls, p \notin pollQ'
               PROVE  PollAwaited(p)' \/ TallyCurrent(p)'
  BY DEF TallyTracked
<1>7. PollAwaited(p) \/ TallyCurrent(p)
  BY <1>2, <1>6 DEF TallyTracked, TallyInHand
<1>8. PollAwaited(p) => PollAwaited(p)'
  BY <1>3, <1>4, <1>5 DEF PollAwaited
<1>9. TallyCurrent(p) => TallyCurrent(p)'
  BY <1>2, <1>5 DEF TallyCurrent
<1> QED BY <1>7, <1>8, <1>9

(* Nothing is in hand any more when Reconcile returns.                      *)
LEMMA TrackedPollRequeue ==
    ASSUME TypeOK, TallyTracked, PollRequeue
    PROVE  TallyTracked'
<1>1. UNCHANGED <<pollV, respV, now, pollQ>> /\ pw.pc = "requeue"
  BY DEF PollRequeue, EnqueuePollAt, apiVars
<1>2. PollCache' = PollCache /\ RespCache' = RespCache
  BY <1>1 DEF PollCache, RespCache
<1>3. SUFFICES ASSUME NEW p \in Polls, p \notin pollQ'
               PROVE  PollAwaited(p)' \/ TallyCurrent(p)'
  BY DEF TallyTracked
<1>4. PollAwaited(p) \/ TallyCurrent(p)
  BY <1>1, <1>3 DEF TallyTracked, TallyInHand
<1>5. PollAwaited(p) => PollAwaited(p)'
  BY <1>1 DEF PollAwaited
<1>6. TallyCurrent(p) => TallyCurrent(p)'
  BY <1>1, <1>2 DEF TallyCurrent
<1> QED BY <1>4, <1>5, <1>6

LEMMA TrackedPollTimer ==
    ASSUME TypeOK, TallyTracked, NEW q \in Polls, PollTimerFires(q)
    PROVE  TallyTracked'
<1>1. UNCHANGED <<pollV, respV, now, pw>> /\ pollQ \subseteq pollQ'
  BY DEF PollTimerFires, apiVars
<1>2. now \in Nat /\ Len(pollV) \in Nat
  BY BoundsAssumption DEF TypeOK, ApiTypeOK
<1> QED BY <1>1, <1>2, TrackedUndisturbed

----------------------------------------------------------------------------
(* The inductive invariant of the tally, relative to TypeOK: every Poll is  *)
(* queued, or awaited by the cache, or in the worker's hands, or up to date *)
(* (poll_controller.go:56-112 and 294-320).                                 *)
THEOREM TallyAlwaysTracked == Spec => []TallyTracked
<1>1. Init => TallyTracked
  BY DEF Init, ApiInit, PollCache, TallyTracked, TallyCurrent
<1>2. TypeOK /\ TallyTracked /\ [Next]_vars => TallyTracked'
  <2> SUFFICES ASSUME TypeOK, TallyTracked, [Next]_vars PROVE TallyTracked'
    OBVIOUS
  <2>1. CASE Environment \/ ResponseControllerStep
    <3>1. /\ Len(pollV) <= Len(pollV') /\ Len(pollV') \in Nat
          /\ \A i \in 1..Len(pollV) : pollV'[i] = pollV[i]
          /\ respV'[1] = respV[1]
          /\ UNCHANGED <<pollQ, pw>>
          /\ now <= now' /\ now' \in Nat
      BY <2>1, StreamOnlyGrows
    <3> QED BY <3>1, TrackedUndisturbed
  <2>2. CASE DeliverPoll
    BY <2>2, TrackedDeliverPoll
  <2>3. CASE DeliverResponse
    BY <2>3, TrackedDeliverResponse
  <2>4. CASE PollControllerStep
    BY <2>4, TrackedPollGet, TrackedPollList, TrackedPollPatch, TrackedPollFails,
       TrackedPollRequeue, TrackedPollTimer DEF PollControllerStep, PollWorkerStep
  <2>5. CASE Restart
    BY <2>5, TrackedRestart
  <2>6. CASE UNCHANGED vars
    <3>1. UNCHANGED <<pollV, respV, pollQ, pw, now>>
      BY <2>6 DEF vars
    <3>2. Len(pollV) \in Nat /\ now \in Nat
      BY BoundsAssumption DEF TypeOK, ApiTypeOK
    <3> QED BY <3>1, <3>2, TrackedUndisturbed
  <2> QED BY <2>1, <2>2, <2>3, <2>4, <2>5, <2>6 DEF Next
<1> QED BY <1>1, <1>2, TypeCorrect, PTL DEF Spec

(* However the steps of users, garbage collector, watch streams, both       *)
(* controllers, faults and restarts interleave: once nothing is left to     *)
(* reconcile a Poll, its stored status is what Reconcile would compute from *)
(* the stored objects (poll_controller.go:56-112).                          *)
THEOREM TallyNeverLost == Spec => []QuietTally
<1>1. TypeOK /\ TallyTracked => QuietTally
  <2> SUFFICES ASSUME TallyTracked, NEW p \in Polls, PollQuiet(p), PollTruth[p] # Nil
               PROVE  \E t \in 0..now :
                         StatusEqual(PollTruth[p].status,
                                     DesiredPollStatus(p, PollTruth[p], RespTruth, t))
    BY DEF QuietTally
  <2>1. PollTruth = PollCache /\ RespTruth = RespCache /\ ~PollAwaited(p)
    BY DEF PollQuiet, Drained, PollTruth, PollCache, RespTruth, RespCache, PollAwaited
  <2>2. p \notin pollQ /\ ~TallyInHand(p)
    BY DEF PollQuiet, PollBusy, TallyInHand
  <2> QED BY <2>1, <2>2 DEF TallyTracked, TallyCurrent
<1> QED BY <1>1, TypeCorrect, TallyAlwaysTracked, PTL
=============================================================================
