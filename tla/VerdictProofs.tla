---------------------------- MODULE VerdictProofs ----------------------------
(***************************************************************************)
(* What the PollResponse controller does about verdicts, for every value   *)
(* of the constants: none is lost, and the tally counts what they accept.  *)
(***************************************************************************)
EXTENDS PollOperatorProofs

----------------------------------------------------------------------------
(* The invariants behind QuietVerdict: at every moment somebody will look   *)
(* at response r again, or it is owned and judged by the cached Poll.       *)

\* An event of the Poll r refers to has still to be mapped to r.
PollNoted(r) == RespCache[r] # Nil /\ RespCache[r].spec.pollRef \in note

\* The running call works on r from what the caches hold now, and has either
\* still to judge it or something to write that is not stored yet.
VerdictInHand(r) ==
    LET poll == PollCache[rw.resp.spec.pollRef]
    IN  /\ rw.key = r
        /\ rw.resp = RespCache[r]
        /\ \/ rw.pc = "poll"
           \/ rw.pc = "own" /\ rw.poll = poll /\ ~OwnedBy(rw.resp, poll)
           \/ rw.pc = "validate" /\ rw.poll = poll /\ OwnedBy(rw.resp, poll)
           \/ rw.pc = "patch" /\ rw.desired # rw.resp.status

\* resp is owned by the Poll it refers to and judged by it as it is in polls.
Judged(resp, polls) ==
    LET name == resp.spec.pollRef
        poll == polls[name]
    IN  IF poll = Nil
        THEN resp.status = NotFoundStatus(resp)
        ELSE /\ resp.owner = [name |-> name, uid |-> poll.uid]
             /\ \E t \in 0..now : resp.status = ValidatedStatus(poll, resp, t)

VerdictCurrent(r) ==
    RespCache[r] # Nil /\ ~RespCache[r].deleting => Judged(RespCache[r], PollCache)

VerdictTracked ==
    \A r \in Responses :
       r \in respQ \/ RespAwaited(r) \/ PollNoted(r) \/ VerdictInHand(r) \/ VerdictCurrent(r)

\* The uids of the versions of Poll p, and the owners of those of response r,
\* that the server or the cache holds.
Uids(p) == {pollV[i][p].uid : i \in {k \in 1..Len(pollV) : pollV[k][p] # Nil}}

Owners(r) ==
    {respV[i][r].owner : i \in {k \in 1..Len(respV) : respV[k][r] # Nil}} \ {Nil}

\* The uid was given, and no Poll of another name has it.
UidOf(name, uid) == uid <= ops /\ \A p \in Polls : uid \in Uids(p) => p = name

\* Owner references are told apart by uid alone (pollresponse_controller.go:118):
\* whatever carries a uid carries the name that goes with it.
UidsTell ==
    /\ \A p \in Polls : \A uid \in Uids(p) : UidOf(p, uid)
    /\ \A r \in Responses : \A owner \in Owners(r) : UidOf(owner.name, owner.uid)
    /\ rw.pc = "own" => UidOf(rw.resp.spec.pollRef, rw.poll.uid)

\* Nobody but users writes the spec of a response.
SpecsSubmitted ==
    \A i \in 1..Len(respV), r \in Responses :
       respV[i][r] # Nil => respV[i][r].spec \in ResponseSpecs

----------------------------------------------------------------------------
(* What is written *)

\* obj is a version that may follow the stored response r: only users write the
\* spec, and only the reconciler an owner, the one it has looked up.
Follows(r, obj) ==
    obj # Nil =>
       /\ \/ obj.spec \in ResponseSpecs
          \/ RespTruth[r] # Nil /\ obj.spec = RespTruth[r].spec
       /\ \/ obj.owner = Nil
          \/ RespTruth[r] # Nil /\ obj.owner = RespTruth[r].owner
          \/ rw.pc = "own" /\ obj.owner = [name |-> rw.resp.spec.pollRef, uid |-> rw.poll.uid]

WritesResponse ==
    \E r \in Responses, obj \in PollResponse \cup {Nil} :
       WriteResponse(r, obj) /\ Follows(r, obj)

LEMMA UserWritesResponse ==
    ASSUME ApiTypeOK, UserStep
    PROVE  UNCHANGED respV \/ WritesResponse
<1>1. RespTruth \in ResponseStore
  BY SnapshotType
<1>2. ASSUME NEW r \in Responses, NEW spec \in ResponseSpecs, CreateResponse(r, spec)
      PROVE  WritesResponse
  <2>1. EmptyResponseStatus \in PollResponseStatus
    BY DEF EmptyResponseStatus, PollResponseStatus, PollResponsePhases
  <2>2. /\ NewResponse(spec) \in PollResponse
        /\ NewResponse(spec).spec = spec /\ NewResponse(spec).owner = Nil
    BY <2>1, SpecsAssumption DEF PollResponse, NewResponse
  <2> QED BY <2>2, <1>2 DEF CreateResponse, WritesResponse, Follows
<1>3. ASSUME NEW r \in Responses, NEW spec \in ResponseSpecs, UpdateResponse(r, spec)
      PROVE  WritesResponse
  <2> DEFINE obj == [RespTruth[r] EXCEPT !.spec = spec, !.generation = @ + 1]
  <2>1. RespTruth[r] \in PollResponse /\ WriteResponse(r, obj)
    BY <1>1, <1>3 DEF UpdateResponse, ResponseStore
  <2>2. obj \in PollResponse
    BY <2>1, SpecsAssumption, EditedResponseType
  <2>3. obj.spec = spec /\ obj.owner = RespTruth[r].owner
    BY <2>1 DEF PollResponse
  <2> HIDE DEF obj
  <2> QED BY <2>1, <2>2, <2>3, <1>3 DEF UpdateResponse, WritesResponse, Follows
<1>4. ASSUME NEW r \in Responses, DeleteResponse(r)
      PROVE  WritesResponse
  BY <1>4 DEF DeleteResponse, WritesResponse, Follows
<1>5. ASSUME NEW r \in Responses, ForegroundDeleteResponse(r)
      PROVE  WritesResponse
  <2> DEFINE obj == [RespTruth[r] EXCEPT !.deleting = TRUE]
  <2>1. RespTruth[r] \in PollResponse /\ WriteResponse(r, obj)
    BY <1>1, <1>5 DEF ForegroundDeleteResponse, ResponseStore
  <2>2. obj \in PollResponse /\ obj.spec = RespTruth[r].spec /\ obj.owner = RespTruth[r].owner
    BY <2>1 DEF PollResponse
  <2> HIDE DEF obj
  <2> QED BY <2>1, <2>2, <1>5 DEF ForegroundDeleteResponse, WritesResponse, Follows
<1>6. CASE \E p \in Polls : \/ \E spec \in PollSpecs : CreatePoll(p, spec) \/ UpdatePoll(p, spec)
                            \/ DeletePoll(p)
  BY <1>6 DEF CreatePoll, UpdatePoll, DeletePoll
<1> QED BY <1>2, <1>3, <1>4, <1>5, <1>6 DEF UserStep

(* The two patches of the reconciler.                                       *)
LEMMA PatchWritesResponse ==
    ASSUME ApiTypeOK, RespCtlTypeOK, EnsureOwnerReference \/ RespPatch \/ RespWriteFault
    PROVE  UNCHANGED respV \/ WritesResponse
<1>1. ASSUME rw.pc = "own", RespTruth[rw.key] # Nil, WriteResponse(rw.key, OwnedResponse)
      PROVE  WritesResponse
  <2>1. rw.key \in Responses /\ OwnedResponse \in PollResponse
    BY <1>1, RespWorkerFacts, OwnedResponseType
  <2>2. RespTruth[rw.key] \in PollResponse
    BY <1>1, <2>1, SnapshotType DEF ResponseStore
  <2>3. /\ OwnedResponse.spec = RespTruth[rw.key].spec
        /\ OwnedResponse.owner = [name |-> rw.resp.spec.pollRef, uid |-> rw.poll.uid]
    BY <2>2 DEF OwnedResponse, PollResponse
  <2> QED BY <1>1, <2>1, <2>3 DEF WritesResponse, Follows
<1>2. ASSUME rw.pc = "patch", RespTruth[rw.key] # Nil, WriteResponse(rw.key, JudgedResponse)
      PROVE  WritesResponse
  <2>1. rw.key \in Responses /\ JudgedResponse \in PollResponse
    BY <1>2, RespWorkerFacts, JudgedResponseType
  <2>2. RespTruth[rw.key] \in PollResponse
    BY <1>2, <2>1, SnapshotType DEF ResponseStore
  <2>3. /\ JudgedResponse.spec = RespTruth[rw.key].spec
        /\ JudgedResponse.owner = RespTruth[rw.key].owner
    BY <2>2 DEF JudgedResponse, PollResponse
  <2> QED BY <1>2, <2>1, <2>3 DEF WritesResponse, Follows
<1> QED BY <1>1, <1>2 DEF EnsureOwnerReference, RespPatch, RespWriteFault

(* What a step does to the stream of responses.                             *)
LEMMA ResponseSteps ==
    ASSUME TypeOK, [Next]_vars
    PROVE  DeliverResponse \/ Restart \/ UNCHANGED respV \/ WritesResponse
<1>1. ApiTypeOK /\ RespCtlTypeOK
  BY DEF TypeOK
<1>2. CASE Environment
  <2>1. CASE \E r \in Responses : CollectGarbage(r)
    BY <2>1 DEF CollectGarbage, WritesResponse, Follows
  <2> QED BY <1>1, <1>2, <2>1, UserWritesResponse DEF Environment, Tick
<1>3. CASE DeliverPoll
  BY <1>3 DEF DeliverPoll
<1>4. CASE PollControllerStep
  BY <1>4 DEF PollControllerStep, PollWorkerStep, PollGet, PollList, PollPatch,
     PollPatchNotFound, PollRequeue, PollPatchFault, PollTimerFires, apiVars
<1>5. CASE ResponseControllerStep
  <2>1. CASE EnsureOwnerReference \/ RespPatch \/ RespWriteFault
    BY <1>1, <2>1, PatchWritesResponse
  <2> QED BY <1>5, <2>1 DEF ResponseControllerStep, RespWorkerStep, RespGet, RespGetPoll,
             Validate, RespWriteNotFound, HandlePollEvent, apiVars
<1>6. CASE UNCHANGED vars
  BY <1>6 DEF vars
<1> QED BY <1>2, <1>3, <1>4, <1>5, <1>6 DEF Next

(* A version a step leads to was there before, or follows what was stored.  *)
LEMMA ResponseVersions ==
    ASSUME TypeOK, [Next]_vars, NEW r \in Responses, NEW i \in 1..Len(respV'),
           respV'[i][r] # Nil
    PROVE  \/ \E k \in 1..Len(respV) : respV'[i][r] = respV[k][r]
           \/ Follows(r, respV'[i][r])
<1>1. ApiTypeOK /\ respV \in Seq(ResponseStore)
  BY DEF TypeOK, ApiTypeOK
<1>2. Len(respV) \in Nat /\ Len(respV) \in 1..Len(respV) /\ RespTruth = respV[Len(respV)]
  BY <1>1, EndsOfStream
<1>3. CASE UNCHANGED respV
  BY <1>3
<1>4. CASE DeliverResponse
  <2>1. i + 1 \in 1..Len(respV) /\ respV'[i] = respV[i + 1]
    BY <1>1, <1>2, <1>4 DEF DeliverResponse
  <2> QED BY <2>1
<1>5. CASE Restart
  <2>1. respV'[i] = RespTruth
    BY <1>5 DEF Restart
  <2> QED BY <1>2, <2>1
<1>6. CASE WritesResponse
  <2>1. PICK s \in Responses, obj \in PollResponse \cup {Nil} :
             WriteResponse(s, obj) /\ Follows(s, obj)
    BY <1>6 DEF WritesResponse
  <2>2. \/ i \in 1..Len(respV) /\ respV'[i] = respV[i]
        \/ /\ i = Len(respV) + 1 /\ respV'[i][s] = obj
           /\ \A t \in Responses \ {s} : respV'[i][t] = RespTruth[t]
    BY <1>1, <2>1, VersionsAfterResponseWrite
  <2> QED BY <1>2, <2>1, <2>2
<1> QED BY <1>3, <1>4, <1>5, <1>6, ResponseSteps

(* Nobody but users writes the spec of a response: what the webhook and the *)
(* CRD said of a submitted spec stays true of the stored one                *)
(* (pollresponse_controller.go:107-151 and 200-260).                        *)
THEOREM SpecsAlwaysSubmitted == Spec => []SpecsSubmitted
<1>1. Init => SpecsSubmitted
  BY DEF Init, ApiInit, SpecsSubmitted
<1>2. TypeOK /\ SpecsSubmitted /\ [Next]_vars => SpecsSubmitted'
  <2> SUFFICES ASSUME TypeOK, SpecsSubmitted, [Next]_vars,
                      NEW i \in 1..Len(respV'), NEW r \in Responses, respV'[i][r] # Nil
               PROVE  respV'[i][r].spec \in ResponseSpecs
    BY DEF SpecsSubmitted
  <2>1. Len(respV) \in 1..Len(respV) /\ RespTruth = respV[Len(respV)]
    BY EndsOfStream DEF TypeOK
  <2> QED BY <2>1, ResponseVersions DEF Follows, SpecsSubmitted
<1> QED BY <1>1, <1>2, TypeCorrect, PTL DEF Spec

----------------------------------------------------------------------------
(* Uids                                                                     *)

\* A write to a stored Poll keeps its uid; a Poll that is created gets a new one.
WritesPoll ==
    \E p \in Polls, obj \in Poll \cup {Nil} :
       /\ WritePoll(p, obj)
       /\ obj # Nil => IF PollTruth[p] # Nil THEN obj.uid = PollTruth[p].uid
                       ELSE obj.uid = ops + 1 /\ ops' = ops + 1

LEMMA UserWritesPoll ==
    ASSUME ApiTypeOK, UserStep
    PROVE  UNCHANGED pollV \/ WritesPoll
<1>1. PollTruth \in PollStore
  BY SnapshotType
<1>2. ASSUME NEW p \in Polls, NEW spec \in PollSpecs, CreatePoll(p, spec)
      PROVE  WritesPoll
  <2> DEFINE obj == [uid |-> ops + 1, generation |-> 1, spec |-> spec,
                     status |-> EmptyPollStatus]
  <2>1. EmptyPollStatus \in PollStatus
    BY DEF EmptyPollStatus, PollStatus, PollPhases, QuestionResults
  <2>2. obj \in Poll /\ obj.uid = ops + 1
    BY <2>1, SpecsAssumption, BoundsAssumption DEF Poll, ApiTypeOK
  <2>3. PollTruth[p] = Nil /\ WritePoll(p, obj) /\ ops' = ops + 1
    BY <1>2 DEF CreatePoll, UserOp
  <2> HIDE DEF obj
  <2> QED BY <2>2, <2>3 DEF WritesPoll
<1>3. ASSUME NEW p \in Polls, NEW spec \in PollSpecs, UpdatePoll(p, spec)
      PROVE  WritesPoll
  <2> DEFINE obj == [PollTruth[p] EXCEPT !.spec = spec, !.generation = @ + 1]
  <2>1. PollTruth[p] \in Poll /\ PollTruth[p] # Nil /\ WritePoll(p, obj)
    BY <1>1, <1>3 DEF UpdatePoll, PollStore
  <2>2. obj \in Poll
    BY <2>1, SpecsAssumption, EditedPollType
  <2>3. obj.uid = PollTruth[p].uid
    BY <2>1 DEF Poll
  <2> HIDE DEF obj
  <2> QED BY <2>1, <2>2, <2>3 DEF WritesPoll
<1>4. ASSUME NEW p \in Polls, DeletePoll(p)
      PROVE  WritesPoll
  BY <1>4 DEF DeletePoll, WritesPoll
<1> QED BY <1>2, <1>3, <1>4 DEF UserStep, CreateResponse, UpdateResponse,
           DeleteResponse, ForegroundDeleteResponse

LEMMA PatchWritesPoll ==
    ASSUME ApiTypeOK, PollCtlTypeOK, PollPatch \/ PollPatchFault
    PROVE  UNCHANGED pollV \/ WritesPoll
<1> SUFFICES ASSUME pw.pc = "patch", PollTruth[pw.key] # Nil,
                    WritePoll(pw.key, PatchedPoll)
             PROVE  WritesPoll
  BY DEF PollPatch, PollPatchFault
<1>1. pw.key \in Polls /\ PatchedPoll \in Poll
  BY PollWorkerFacts, PatchedPollType
<1>2. PollTruth[pw.key] \in Poll
  BY <1>1, SnapshotType DEF PollStore
<1>3. PatchedPoll.uid = PollTruth[pw.key].uid
  BY <1>2 DEF PatchedPoll, Poll
<1> QED BY <1>1, <1>3 DEF WritesPoll

(* What a step does to the stream of Polls.                                 *)
LEMMA PollSteps ==
    ASSUME TypeOK, [Next]_vars
    PROVE  /\ ops' \in {ops, ops + 1}
           /\ DeliverPoll \/ Restart \/ UNCHANGED pollV \/ WritesPoll
<1>1. ApiTypeOK /\ PollCtlTypeOK
  BY DEF TypeOK
<1>2. CASE UserStep
  <2>1. ops' = ops + 1
    BY <1>2 DEF UserStep, CreatePoll, UpdatePoll, DeletePoll, CreateResponse,
       UpdateResponse, DeleteResponse, ForegroundDeleteResponse, UserOp
  <2> QED BY <1>1, <1>2, <2>1, UserWritesPoll
<1>3. CASE Environment /\ ~UserStep
  BY <1>3 DEF Environment, CollectGarbage, Tick
<1>4. CASE DeliverPoll \/ DeliverResponse \/ Restart
  BY <1>4 DEF DeliverPoll, DeliverResponse, Restart
<1>5. CASE PollControllerStep
  <2>1. CASE PollPatch \/ PollPatchFault
    <3>1. ops' = ops
      BY <2>1 DEF PollPatch, PollPatchFault
    <3> QED BY <1>1, <2>1, <3>1, PatchWritesPoll
  <2> QED BY <1>5, <2>1 DEF PollControllerStep, PollWorkerStep, PollGet, PollList,
             PollPatchNotFound, PollRequeue, PollTimerFires, apiVars
<1>6. CASE ResponseControllerStep
  BY <1>6 DEF ResponseControllerStep, RespWorkerStep, RespGet, RespGetPoll,
     EnsureOwnerReference, Validate, RespPatch, RespWriteNotFound,
     RespWriteFault, HandlePollEvent, apiVars
<1>7. CASE UNCHANGED vars
  BY <1>7 DEF vars
<1> QED BY <1>2, <1>3, <1>4, <1>5, <1>6, <1>7 DEF Next

(* The uids of a Poll after a step were there before, but for a new one     *)
(* given to a Poll that is created.                                         *)
LEMMA UidsAfter ==
    ASSUME TypeOK, [Next]_vars
    PROVE  \/ \A q \in Polls : Uids(q)' \subseteq Uids(q)
           \/ /\ ops' = ops + 1
              /\ \E p \in Polls :
                    /\ Uids(p)' \subseteq Uids(p) \cup {ops + 1}
                    /\ \A q \in Polls \ {p} : Uids(q)' \subseteq Uids(q)
<1>1. ApiTypeOK /\ pollV \in Seq(PollStore)
  BY DEF TypeOK, ApiTypeOK
<1>2. Len(pollV) \in Nat /\ Len(pollV) \in 1..Len(pollV) /\ PollTruth = pollV[Len(pollV)]
  BY <1>1, EndsOfStream
<1>3. ASSUME NEW q \in Polls,
             \A i \in 1..Len(pollV') : \E k \in 1..Len(pollV) : pollV'[i][q] = pollV[k][q]
      PROVE  Uids(q)' \subseteq Uids(q)
  BY <1>3 DEF Uids
<1>4. CASE UNCHANGED pollV
  BY <1>3, <1>4
<1>5. CASE DeliverPoll
  <2>1. \A i \in 1..Len(pollV') : i + 1 \in 1..Len(pollV) /\ pollV'[i] = pollV[i + 1]
    BY <1>1, <1>2, <1>5 DEF DeliverPoll
  <2> QED BY <1>3, <2>1
<1>6. CASE Restart
  <2>1. \A i \in 1..Len(pollV') : pollV'[i] = PollTruth
    BY <1>6 DEF Restart
  <2> QED BY <1>2, <1>3, <2>1
<1>7. CASE WritesPoll
  <2>1. PICK p \in Polls, obj \in Poll \cup {Nil} :
             /\ WritePoll(p, obj)
             /\ obj # Nil => IF PollTruth[p] # Nil THEN obj.uid = PollTruth[p].uid
                             ELSE obj.uid = ops + 1 /\ ops' = ops + 1
    BY <1>7 DEF WritesPoll
  <2>2. ASSUME NEW i \in 1..Len(pollV')
        PROVE  \/ i \in 1..Len(pollV) /\ pollV'[i] = pollV[i]
               \/ /\ i = Len(pollV) + 1 /\ pollV'[i][p] = obj
                  /\ \A q \in Polls \ {p} : pollV'[i][q] = PollTruth[q]
    BY <1>1, <2>1, VersionsAfterWrite
  <2>3. \A q \in Polls \ {p} : Uids(q)' \subseteq Uids(q)
    BY <1>2, <1>3, <2>2
  <2>4. PollTruth[p] # Nil => PollTruth[p].uid \in Uids(p)
    BY <1>2 DEF Uids
  <2>5. ASSUME NEW i \in 1..Len(pollV'), pollV'[i][p] # Nil
        PROVE  \/ pollV'[i][p].uid \in Uids(p)
               \/ pollV'[i][p].uid = ops + 1 /\ ops' = ops + 1
    <3>1. i \in 1..Len(pollV) /\ pollV'[i] = pollV[i] => pollV'[i][p].uid \in Uids(p)
      BY <2>5 DEF Uids
    <3> QED BY <2>1, <2>2, <2>4, <2>5, <3>1
  <2>6. \A uid \in Uids(p)' : uid \in Uids(p) \/ (uid = ops + 1 /\ ops' = ops + 1)
    BY <2>5 DEF Uids
  <2> QED BY <2>3, <2>6
<1> QED BY <1>4, <1>5, <1>6, <1>7, PollSteps

(* A name keeps its claim to a uid: no other name is given one that was     *)
(* given before.                                                            *)
LEMMA UidKept ==
    ASSUME TypeOK, [Next]_vars, NEW name, NEW uid \in Nat, UidOf(name, uid)
    PROVE  UidOf(name, uid)'
<1>1. ops \in Nat /\ ops' \in {ops, ops + 1}
  BY PollSteps, BoundsAssumption DEF TypeOK, ApiTypeOK
<1>2. uid # ops + 1
  BY <1>1 DEF UidOf
<1>3. \A p \in Polls : uid \in Uids(p)' => uid \in Uids(p)
  BY <1>2, UidsAfter
<1> QED BY <1>1, <1>3 DEF UidOf

LEMMA UidType ==
    ASSUME ApiTypeOK, NEW p \in Polls
    PROVE  Uids(p) \subseteq Nat
<1>1. \A i \in 1..Len(pollV) : pollV[i][p] \in Poll \cup {Nil}
  BY DEF ApiTypeOK, PollStore
<1> QED BY <1>1 DEF Uids, Poll

LEMMA OwnerType ==
    ASSUME ApiTypeOK, NEW r \in Responses, NEW owner \in Owners(r)
    PROVE  owner \in OwnerReference
<1>1. \A i \in 1..Len(respV) : respV[i][r] \in PollResponse \cup {Nil}
  BY DEF ApiTypeOK, ResponseStore
<1> QED BY <1>1 DEF Owners, PollResponse

(* An owner after a step was there before, or is the one the worker gives.  *)
LEMMA OwnersAfter ==
    ASSUME TypeOK, [Next]_vars, NEW r \in Responses
    PROVE  \A owner \in Owners(r)' :
              \/ owner \in Owners(r)
              \/ rw.pc = "own" /\ owner = [name |-> rw.resp.spec.pollRef, uid |-> rw.poll.uid]
<1>1. Len(respV) \in 1..Len(respV) /\ RespTruth = respV[Len(respV)]
  BY EndsOfStream DEF TypeOK
<1>2. ASSUME NEW i \in 1..Len(respV'), respV'[i][r] # Nil, respV'[i][r].owner # Nil
      PROVE  \/ respV'[i][r].owner \in Owners(r)
             \/ /\ rw.pc = "own"
                /\ respV'[i][r].owner = [name |-> rw.resp.spec.pollRef, uid |-> rw.poll.uid]
  <2>1. \A k \in 1..Len(respV) :
           respV[k][r] # Nil /\ respV[k][r].owner # Nil => respV[k][r].owner \in Owners(r)
    BY DEF Owners
  <2> QED BY <1>1, <1>2, <2>1, ResponseVersions DEF Follows
<1> QED BY <1>2 DEF Owners

(* The Poll the worker is to give a response to is one the cache held.      *)
LEMMA OwnInHand ==
    ASSUME TypeOK, [Next]_vars, rw'.pc = "own"
    PROVE  \/ UNCHANGED rw
           \/ /\ rw'.resp.spec.pollRef \in Polls
              /\ rw'.poll.uid \in Uids(rw'.resp.spec.pollRef)
<1>1. ApiTypeOK /\ RespCtlTypeOK
  BY DEF TypeOK
<1>2. CASE RespGetPoll
  <2> DEFINE poll == PollCache[rw.resp.spec.pollRef]
  <2>1. rw.resp \in PollResponse
    BY <1>1, <1>2, RespWorkerFacts DEF RespGetPoll
  <2>2. rw.resp.spec.pollRef \in Polls
    BY <2>1 DEF PollResponse, PollResponseSpec
  <2>3. CASE poll # Nil /\ \E pc \in {"own", "validate"} : rw' = [rw EXCEPT !.pc = pc, !.poll = poll]
    <3>1. rw'.resp = rw.resp /\ rw'.poll = PollCache[rw.resp.spec.pollRef]
      BY <1>1, <2>3 DEF RespCtlTypeOK, RespWorker
    <3>2. 1 \in 1..Len(pollV) /\ PollCache = pollV[1]
      BY <1>1, EndsOfStream
    <3> QED BY <2>2, <2>3, <3>1, <3>2 DEF Uids
  <2>4. CASE rw' = IdleRespWorker
    BY <2>4 DEF IdleRespWorker
  <2>5. CASE Conclude(NotFoundStatus(rw.resp))
    BY <1>1, <2>4, <2>5 DEF Conclude, RespCtlTypeOK, RespWorker
  <2> QED BY <1>2, <2>3, <2>4, <2>5 DEF RespGetPoll, RespReconcileFails
<1>3. ASSUME NEW r \in Responses, RespGet(r)
      PROVE  FALSE
  BY <1>3 DEF RespGet, IdleRespWorker
<1>4. CASE RespPatch \/ RespWriteNotFound \/ RespWriteFault \/ Restart
  BY <1>4 DEF RespPatch, RespWriteNotFound, RespWriteFault, RespReconcileFails, Restart,
     IdleRespWorker
<1>5. CASE EnsureOwnerReference \/ Validate
  <2>1. CASE EnsureOwnerReference
    BY <1>1, <2>1 DEF EnsureOwnerReference, RespCtlTypeOK, RespWorker
  <2>2. CASE Validate
    <3>1. PICK status : Conclude(status)
      BY <2>2 DEF Validate
    <3> QED BY <1>1, <3>1 DEF Conclude, IdleRespWorker, RespCtlTypeOK, RespWorker
  <2> QED BY <1>5, <2>1, <2>2
<1>6. CASE \E p \in Polls : HandlePollEvent(p)
  BY <1>6 DEF HandlePollEvent
<1>7. CASE Environment \/ DeliverPoll \/ DeliverResponse \/ PollControllerStep \/ UNCHANGED vars
  BY <1>7 DEF Environment, DeliverPoll, DeliverResponse, PollControllerStep, vars, respCtlVars
<1> QED BY <1>2, <1>3, <1>4, <1>5, <1>6, <1>7 DEF Next, ResponseControllerStep, RespWorkerStep

(* Comparing owners by uid alone tells Polls of different names apart       *)
(* (pollresponse_controller.go:118).                                        *)
THEOREM UidsAlwaysTell == Spec => []UidsTell
<1>1. Init => UidsTell
  BY DEF Init, ApiInit, RespCtlInit, IdleRespWorker, UidsTell, Uids, Owners
<1>2. TypeOK /\ UidsTell /\ [Next]_vars => UidsTell'
  <2> SUFFICES ASSUME TypeOK, UidsTell, [Next]_vars PROVE UidsTell'
    OBVIOUS
  <2>1. ApiTypeOK /\ RespCtlTypeOK /\ ops \in Nat
    BY BoundsAssumption DEF TypeOK, ApiTypeOK
  <2>2. ASSUME NEW p \in Polls, NEW uid \in Uids(p)
        PROVE  uid <= ops /\ UidOf(p, uid)'
    <3>1. uid \in Nat /\ UidOf(p, uid)
      BY <2>1, UidType DEF UidsTell
    <3> QED BY <3>1, UidKept DEF UidOf
  <2>3. ASSUME NEW p \in Polls, NEW uid \in Uids(p)'
        PROVE  UidOf(p, uid)'
    <3>1. CASE uid \in Uids(p)
      BY <2>2, <3>1
    <3>2. CASE uid \notin Uids(p)
      <4>1. uid = ops + 1 /\ ops' = ops + 1 /\ \A q \in Polls \ {p} : Uids(q)' \subseteq Uids(q)
        BY <3>2, UidsAfter
      <4>2. \A q \in Polls \ {p} : uid \notin Uids(q)'
        BY <2>1, <2>2, <4>1
      <4> QED BY <2>1, <4>1, <4>2 DEF UidOf
    <3> QED BY <3>1, <3>2
  <2>4. ASSUME NEW r \in Responses, NEW owner \in Owners(r)'
        PROVE  UidOf(owner.name, owner.uid)'
    <3>1. owner.uid \in Nat /\ UidOf(owner.name, owner.uid)
      <4>1. CASE owner \in Owners(r)
        BY <2>1, <4>1, OwnerType DEF UidsTell, OwnerReference
      <4>2. CASE /\ rw.pc = "own"
                 /\ owner = [name |-> rw.resp.spec.pollRef, uid |-> rw.poll.uid]
        BY <2>1, <4>2, RespWorkerFacts DEF UidsTell, Poll
      <4> QED BY <4>1, <4>2, OwnersAfter
    <3> QED BY <3>1, UidKept
  <2>5. ASSUME rw'.pc = "own", NEW name, NEW uid,
               name = rw'.resp.spec.pollRef, uid = rw'.poll.uid
        PROVE  UidOf(name, uid)'
    <3>1. CASE UNCHANGED rw
      <4>1. uid \in Nat /\ UidOf(name, uid)
        BY <2>1, <2>5, <3>1, RespWorkerFacts DEF UidsTell, Poll
      <4> QED BY <4>1, UidKept
    <3>2. CASE name \in Polls /\ uid \in Uids(name)
      BY <2>2, <3>2
    <3> QED BY <2>5, <3>1, <3>2, OwnInHand
  <2>6. (rw.pc = "own" => UidOf(rw.resp.spec.pollRef, rw.poll.uid))'
    BY <2>5 DEF UidOf
  <2> QED BY <2>3, <2>4, <2>6 DEF UidsTell
<1> QED BY <1>1, <1>2, TypeCorrect, PTL DEF Spec

\* The uids still carried by anything: the versions of Polls that the server or
\* the cache holds, the owners of those of responses, and the Poll the worker is
\* about to make the owner of its response.
Carried ==
    LET kept  == UNION {Uids(p) : p \in Polls}
        owned == {owner.uid : owner \in UNION {Owners(r) : r \in Responses}}
        given == {uid \in {rw.poll.uid} : rw.pc = "own"}
    IN  kept \cup owned \cup given

\* A stored Poll keeps its uid until it is deleted, and one created under a name
\* has a uid that nothing carries: no owner reference, cached Poll or Poll in the
\* worker's hands from an earlier incarnation, of this name or another, can be
\* taken for one of the new (pollresponse_controller.go:118).
IncarnationsDiffer ==
    \A p \in Polls :
       PollTruth'[p] # Nil =>
          IF PollTruth[p] # Nil THEN PollTruth'[p].uid = PollTruth[p].uid
          ELSE PollTruth'[p].uid \notin Carried

LEMMA TruthKept ==
    ASSUME ApiTypeOK, DeliverPoll \/ Restart
    PROVE  PollTruth' = PollTruth
<1>1. pollV \in Seq(PollStore)
  BY DEF ApiTypeOK
<1>2. CASE DeliverPoll
  BY <1>1, <1>2 DEF DeliverPoll, PollTruth
<1>3. CASE Restart
  <2>1. pollV' = <<PollTruth>>
    BY <1>3 DEF Restart
  <2> QED BY <2>1 DEF PollTruth
<1> QED BY <1>2, <1>3

LEMMA CarriedIsGiven ==
    ASSUME TypeOK, UidsTell, NEW uid \in Carried
    PROVE  uid <= ops
<1>1. CASE \E p \in Polls : uid \in Uids(p)
  BY <1>1 DEF UidsTell, UidOf
<1>2. CASE \E r \in Responses : \E owner \in Owners(r) : uid = owner.uid
  BY <1>2 DEF UidsTell, UidOf
<1>3. CASE rw.pc = "own" /\ uid = rw.poll.uid
  BY <1>3 DEF UidsTell, UidOf
<1> QED BY <1>1, <1>2, <1>3 DEF Carried

(* A recreated Poll is never taken for the one that was deleted, whatever   *)
(* still refers to that one: ensureOwnerReference compares uids alone.      *)
THEOREM IncarnationsAlwaysDiffer == Spec => [][IncarnationsDiffer]_vars
<1>1. TypeOK /\ UidsTell /\ [Next]_vars => [IncarnationsDiffer]_vars
  <2> SUFFICES ASSUME TypeOK, UidsTell, [Next]_vars, NEW q \in Polls, PollTruth'[q] # Nil
               PROVE  IF PollTruth[q] # Nil THEN PollTruth'[q].uid = PollTruth[q].uid
                      ELSE PollTruth'[q].uid \notin Carried
    BY DEF IncarnationsDiffer
  <2>1. ApiTypeOK /\ ops \in Nat
    BY BoundsAssumption DEF TypeOK, ApiTypeOK
  <2>2. ASSUME PollTruth'[q] = PollTruth[q]
        PROVE  PollTruth[q] # Nil /\ PollTruth'[q].uid = PollTruth[q].uid
    BY <2>2
  <2>3. CASE DeliverPoll \/ Restart
    BY <2>1, <2>2, <2>3, TruthKept
  <2>4. CASE UNCHANGED pollV
    <3>1. PollTruth' = PollTruth
      BY <2>4 DEF PollTruth
    <3> QED BY <2>2, <3>1
  <2>5. CASE WritesPoll
    <3>1. PICK p \in Polls, obj \in Poll \cup {Nil} :
               /\ WritePoll(p, obj)
               /\ obj # Nil => IF PollTruth[p] # Nil THEN obj.uid = PollTruth[p].uid
                               ELSE obj.uid = ops + 1 /\ ops' = ops + 1
      BY <2>5 DEF WritesPoll
    <3>2. CASE obj = PollTruth[p]
      <4>1. UNCHANGED pollV
        BY <3>1, <3>2 DEF WritePoll
      <4> QED BY <2>4, <4>1
    <3>3. CASE obj # PollTruth[p]
      <4>1. PollTruth' = [PollTruth EXCEPT ![p] = obj] /\ PollTruth \in PollStore
        BY <2>1, <3>1, <3>3, WritePollAwaited, SnapshotType
      <4>2. PollTruth'[q] = IF q = p THEN obj ELSE PollTruth[q]
        BY <4>1 DEF PollStore
      <4>3. CASE q # p
        BY <2>2, <4>2, <4>3
      <4>4. CASE q = p
        <5>1. PollTruth'[q] = obj /\ obj # Nil
          BY <4>2, <4>4
        <5>2. ASSUME obj.uid = ops + 1 PROVE obj.uid \notin Carried
          BY <2>1, <5>2, CarriedIsGiven
        <5> QED BY <3>1, <4>4, <5>1, <5>2
      <4> QED BY <4>3, <4>4
    <3> QED BY <3>2, <3>3
  <2> QED BY <2>3, <2>4, <2>5, PollSteps
<1> QED BY <1>1, TypeCorrect, UidsAlwaysTell, PTL DEF Spec

----------------------------------------------------------------------------
(* The verdict                                                              *)

(* A write is not seen by the cache, and what is awaited remains so.        *)
LEMMA AwaitedAfterResponseWrite ==
    ASSUME ApiTypeOK, NEW s \in Responses, NEW obj \in PollResponse \cup {Nil},
           WriteResponse(s, obj)
    PROVE  RespCache' = RespCache /\ \A r \in Responses : RespAwaited(r) => RespAwaited(r)'
<1>1. /\ Len(respV) \in Nat /\ Len(respV) >= 1
      /\ Len(respV') \in Nat /\ Len(respV) <= Len(respV')
      /\ \A i \in 1..Len(respV) : respV'[i] = respV[i]
  BY WriteResponseFacts, BoundsAssumption DEF ApiTypeOK
<1> QED BY <1>1 DEF RespCache, RespAwaited

(* What is not the worker's business stays as it is with the cached         *)
(* response and its Poll.                                                   *)
LEMMA VerdictSettled ==
    ASSUME NEW r \in Responses,
           RespAwaited(r) \/ PollNoted(r) \/ VerdictCurrent(r),
           RespAwaited(r) => RespAwaited(r)',
           RespCache'[r] = RespCache[r],
           RespCache[r] # Nil =>
              PollCache'[RespCache[r].spec.pollRef] = PollCache[RespCache[r].spec.pollRef],
           note \subseteq note', now \in Nat, now' \in Nat, now <= now'
    PROVE  RespAwaited(r)' \/ PollNoted(r)' \/ VerdictCurrent(r)'
<1>1. CASE PollNoted(r)
  BY <1>1 DEF PollNoted
<1>2. CASE VerdictCurrent(r)
  <2>1. 0..now \subseteq 0..now'
    OBVIOUS
  <2> QED BY <1>2, <2>1 DEF VerdictCurrent, Judged
<1> QED BY <1>1, <1>2

(* Nor does what is in hand change, with the worker.                        *)
LEMMA VerdictUndisturbed ==
    ASSUME RespCtlTypeOK, NEW r \in Responses,
           RespAwaited(r) \/ PollNoted(r) \/ VerdictInHand(r) \/ VerdictCurrent(r),
           RespAwaited(r) => RespAwaited(r)',
           RespCache'[r] = RespCache[r],
           RespCache[r] # Nil =>
              PollCache'[RespCache[r].spec.pollRef] = PollCache[RespCache[r].spec.pollRef],
           note \subseteq note', now \in Nat, now' \in Nat, now <= now', UNCHANGED rw
    PROVE  RespAwaited(r)' \/ PollNoted(r)' \/ VerdictInHand(r)' \/ VerdictCurrent(r)'
<1>1. CASE VerdictInHand(r)
  <2>1. rw.resp = RespCache[r] /\ RespCache[r] # Nil
    BY <1>1 DEF VerdictInHand, RespCtlTypeOK
  <2> QED BY <1>1, <2>1 DEF VerdictInHand
<1> QED BY <1>1, VerdictSettled

(* A Poll event leaves a note for the responses that refer to it, and does  *)
(* not concern the others.                                                  *)
LEMMA VerdictDeliverPoll ==
    ASSUME TypeOK, VerdictTracked, DeliverPoll
    PROVE  VerdictTracked'
<1>1. /\ ApiTypeOK /\ RespCtlTypeOK /\ now \in Nat
      /\ pollV \in Seq(PollStore) /\ Len(pollV) > 1 /\ RespCache \in ResponseStore
  BY SnapshotType, BoundsAssumption DEF DeliverPoll, TypeOK, ApiTypeOK
<1>2. /\ UNCHANGED <<respV, now, respQ, rw>> /\ pollV' = Tail(pollV)
      /\ note' = note \cup ChangedIn(pollV[1], pollV[2])
  BY DEF DeliverPoll
<1>3. SUFFICES ASSUME NEW r \in Responses, r \notin respQ'
               PROVE  RespAwaited(r)' \/ PollNoted(r)' \/ VerdictInHand(r)' \/ VerdictCurrent(r)'
  BY DEF VerdictTracked
<1>4. RespCache' = RespCache /\ (RespAwaited(r) => RespAwaited(r)')
  BY <1>2 DEF RespCache, RespAwaited
<1>5. CASE RespCache[r] # Nil /\ RespCache[r].spec.pollRef \in ChangedIn(pollV[1], pollV[2])
  BY <1>2, <1>4, <1>5 DEF PollNoted
<1>6. CASE RespCache[r] = Nil \/ RespCache[r].spec.pollRef \notin ChangedIn(pollV[1], pollV[2])
  <2>1. RespCache[r] # Nil => RespCache[r].spec.pollRef \in Polls
    BY <1>1 DEF ResponseStore, PollResponse, PollResponseSpec
  <2>2. RespCache[r] # Nil =>
           PollCache'[RespCache[r].spec.pollRef] = PollCache[RespCache[r].spec.pollRef]
    BY <1>1, <1>2, <1>6, <2>1, AwaitedAfterPollEvent
  <2>3. RespAwaited(r) \/ PollNoted(r) \/ VerdictInHand(r) \/ VerdictCurrent(r)
    BY <1>2, <1>3 DEF VerdictTracked
  <2> QED BY <1>1, <1>2, <1>4, <2>2, <2>3, VerdictUndisturbed
<1> QED BY <1>5, <1>6

(* A PollResponse event queues the responses it is about.                   *)
LEMMA VerdictDeliverResponse ==
    ASSUME TypeOK, VerdictTracked, DeliverResponse
    PROVE  VerdictTracked'
<1>1. /\ RespCtlTypeOK /\ now \in Nat
      /\ respV \in Seq(ResponseStore) /\ Len(respV) > 1
  BY BoundsAssumption DEF DeliverResponse, TypeOK, ApiTypeOK
<1>2. /\ UNCHANGED <<pollV, now, note, rw>> /\ respV' = Tail(respV)
      /\ respQ' = respQ \cup ChangedIn(respV[1], respV[2])
  BY DEF DeliverResponse
<1>3. SUFFICES ASSUME NEW r \in Responses, r \notin respQ'
               PROVE  RespAwaited(r)' \/ PollNoted(r)' \/ VerdictInHand(r)' \/ VerdictCurrent(r)'
  BY DEF VerdictTracked
<1>4. respV[2][r] = respV[1][r] /\ r \notin respQ
  BY <1>1, <1>2, <1>3 DEF ChangedIn, ResponseStore
<1>5. /\ Tail(respV)[1][r] = respV[1][r]
      /\ (\E i \in 1..Len(respV) : respV[i][r] # respV[1][r]) =>
            \E i \in 1..Len(Tail(respV)) : Tail(respV)[i][r] # Tail(respV)[1][r]
  BY <1>1, <1>4, StreamTail
<1>6. RespCache'[r] = RespCache[r] /\ (RespAwaited(r) => RespAwaited(r)')
  BY <1>2, <1>5 DEF RespCache, RespAwaited
<1>7. PollCache' = PollCache
  BY <1>2 DEF PollCache
<1> QED BY <1>1, <1>2, <1>4, <1>6, <1>7, VerdictUndisturbed DEF VerdictTracked

(* A restart queues every stored response.                                  *)
LEMMA VerdictRestart ==
    ASSUME Restart
    PROVE  VerdictTracked'
<1>1. RespCache' = RespTruth
  BY DEF Restart, RespCache
<1>2. ASSUME NEW r \in Responses
      PROVE  r \in respQ' \/ RespCache'[r] = Nil
  BY <1>1 DEF Restart
<1> QED BY <1>2 DEF VerdictTracked, VerdictCurrent

(* mapPollToResponses queues the responses it finds in the cache.           *)
LEMMA VerdictPollEvent ==
    ASSUME TypeOK, VerdictTracked, NEW p \in Polls, HandlePollEvent(p)
    PROVE  VerdictTracked'
<1>1. /\ RespCtlTypeOK /\ UNCHANGED <<pollV, respV, now, rw>>
      /\ note' = note \ {p} /\ respQ' = respQ \cup MapPollToResponses(p)
  BY DEF HandlePollEvent, apiVars, TypeOK
<1>2. PollCache' = PollCache /\ RespCache' = RespCache
  BY <1>1 DEF PollCache, RespCache
<1>3. SUFFICES ASSUME NEW r \in Responses, r \notin respQ'
               PROVE  RespAwaited(r)' \/ PollNoted(r)' \/ VerdictInHand(r)' \/ VerdictCurrent(r)'
  BY DEF VerdictTracked
<1>4. r \notin respQ /\ r \notin MapPollToResponses(p)
  BY <1>1, <1>3
<1>5. CASE RespAwaited(r)
  BY <1>1, <1>5 DEF RespAwaited
<1>6. CASE PollNoted(r)
  BY <1>1, <1>2, <1>4, <1>6 DEF PollNoted, MapPollToResponses
<1>7. CASE VerdictInHand(r)
  BY <1>1, <1>2, <1>7 DEF VerdictInHand
<1>8. CASE VerdictCurrent(r)
  BY <1>1, <1>2, <1>8 DEF VerdictCurrent, Judged
<1> QED BY <1>4, <1>5, <1>6, <1>7, <1>8 DEF VerdictTracked

----------------------------------------------------------------------------
(* The steps of Reconcile. A response other than the worker's is settled.   *)

LEMMA VerdictOfOthers ==
    ASSUME TypeOK, VerdictTracked, UNCHANGED <<now, note>>,
           RespCache' = RespCache, PollCache' = PollCache,
           \A r \in Responses : RespAwaited(r) => RespAwaited(r)',
           NEW r \in Responses, r \notin respQ, ~VerdictInHand(r)
    PROVE  RespAwaited(r)' \/ PollNoted(r)' \/ VerdictCurrent(r)'
<1>1. RespAwaited(r) \/ PollNoted(r) \/ VerdictCurrent(r)
  BY DEF VerdictTracked
<1>2. now \in Nat
  BY BoundsAssumption DEF TypeOK, ApiTypeOK
<1> QED BY <1>1, <1>2, VerdictSettled

(* A step that writes nothing leaves the caches and what they await.        *)
LEMMA ReadsOnly ==
    ASSUME UNCHANGED apiVars
    PROVE  /\ UNCHANGED now /\ RespCache' = RespCache /\ PollCache' = PollCache
           /\ \A r \in Responses : RespAwaited(r) => RespAwaited(r)'
BY DEF apiVars, RespCache, PollCache, RespAwaited

LEMMA VerdictGet ==
    ASSUME TypeOK, VerdictTracked, NEW s \in Responses, RespGet(s)
    PROVE  VerdictTracked'
<1>1. UNCHANGED apiVars /\ UNCHANGED note /\ respQ' = respQ \ {s} /\ rw.pc = "idle"
  BY DEF RespGet
<1>2. /\ UNCHANGED <<now, note>> /\ RespCache' = RespCache /\ PollCache' = PollCache
      /\ \A r \in Responses : RespAwaited(r) => RespAwaited(r)'
  BY <1>1, ReadsOnly
<1>3. SUFFICES ASSUME NEW r \in Responses, r \notin respQ'
               PROVE  RespAwaited(r)' \/ PollNoted(r)' \/ VerdictInHand(r)' \/ VerdictCurrent(r)'
  BY DEF VerdictTracked
<1>4. CASE r # s
  <2>1. r \notin respQ /\ ~VerdictInHand(r)
    BY <1>1, <1>3, <1>4 DEF VerdictInHand
  <2> QED BY <1>2, <2>1, VerdictOfOthers
<1>5. CASE r = s /\ (RespCache[r] = Nil \/ RespCache[r].deleting)
  BY <1>2, <1>5 DEF VerdictCurrent
<1>6. CASE r = s /\ ~(RespCache[r] = Nil \/ RespCache[r].deleting)
  <2>1. rw' = [IdleRespWorker EXCEPT !.pc = "poll", !.key = r, !.resp = RespCache[r]]
    BY <1>6 DEF RespGet
  <2>2. rw'.pc = "poll" /\ rw'.key = r /\ rw'.resp = RespCache[r]
    BY <2>1 DEF IdleRespWorker
  <2> QED BY <1>2, <2>2 DEF VerdictInHand
<1> QED BY <1>4, <1>5, <1>6

(* accept and reject: the status is in place, or goes to the patch.         *)
LEMMA Concluded ==
    ASSUME RespCtlTypeOK, NEW desired, Conclude(desired)
    PROVE  \/ rw.resp.status = desired
           \/ /\ rw'.pc = "patch" /\ rw'.key = rw.key /\ rw'.resp = rw.resp
              /\ rw'.desired = desired /\ desired # rw.resp.status
BY DEF Conclude, ResponseStatusEqual, RespCtlTypeOK, RespWorker

(* Looking up the Poll sends each response where it belongs.                *)
LEMMA VerdictGetPoll ==
    ASSUME TypeOK, VerdictTracked, RespGetPoll
    PROVE  VerdictTracked'
<1> DEFINE poll == PollCache[rw.resp.spec.pollRef]
<1>1. RespCtlTypeOK /\ UNCHANGED apiVars /\ UNCHANGED note /\ rw.pc = "poll"
  BY DEF RespGetPoll, TypeOK
<1>2. /\ UNCHANGED <<now, note>> /\ RespCache' = RespCache /\ PollCache' = PollCache
      /\ \A r \in Responses : RespAwaited(r) => RespAwaited(r)'
  BY <1>1, ReadsOnly
<1>3. SUFFICES ASSUME NEW r \in Responses, r \notin respQ'
               PROVE  RespAwaited(r)' \/ PollNoted(r)' \/ VerdictInHand(r)' \/ VerdictCurrent(r)'
  BY DEF VerdictTracked
<1>4. r \notin respQ /\ (RespReconcileFails => r # rw.key)
  BY <1>3 DEF RespGetPoll, RespReconcileFails
<1>5. CASE ~VerdictInHand(r)
  BY <1>2, <1>4, <1>5, VerdictOfOthers
<1>6. CASE VerdictInHand(r)
  <2>1. rw.key = r /\ rw.resp = RespCache[r]
    BY <1>6 DEF VerdictInHand
  <2>2. CASE poll = Nil /\ Conclude(NotFoundStatus(rw.resp))
    <3>1. CASE rw.resp.status = NotFoundStatus(rw.resp)
      BY <1>2, <2>1, <2>2, <3>1 DEF VerdictCurrent, Judged
    <3>2. CASE /\ rw'.pc = "patch" /\ rw'.key = rw.key /\ rw'.resp = rw.resp
               /\ rw'.desired # rw.resp.status
      BY <1>2, <2>1, <3>2 DEF VerdictInHand
    <3> QED BY <1>1, <2>2, <3>1, <3>2, Concluded
  <2>3. CASE /\ poll # Nil /\ OwnedBy(rw.resp, poll)
             /\ rw' = [rw EXCEPT !.pc = "validate", !.poll = poll]
    <3>1. rw'.pc = "validate" /\ rw'.key = r /\ rw'.resp = rw.resp /\ rw'.poll = poll
      BY <1>1, <2>1, <2>3 DEF RespCtlTypeOK, RespWorker
    <3> QED BY <1>2, <2>1, <2>3, <3>1 DEF VerdictInHand, OwnedBy
  <2>4. CASE /\ poll # Nil /\ ~OwnedBy(rw.resp, poll)
             /\ rw' = [rw EXCEPT !.pc = "own", !.poll = poll]
    <3>1. rw'.pc = "own" /\ rw'.key = r /\ rw'.resp = rw.resp /\ rw'.poll = poll
      BY <1>1, <2>1, <2>4 DEF RespCtlTypeOK, RespWorker
    <3> QED BY <1>2, <2>1, <2>4, <3>1 DEF VerdictInHand, OwnedBy
  <2> QED BY <1>4, <2>1, <2>2, <2>3, <2>4 DEF RespGetPoll
<1> QED BY <1>5, <1>6

(* Uids being what they are, a response owned by the uid of the Poll it     *)
(* refers to is owned by that Poll.                                         *)
LEMMA OwnedExactly ==
    ASSUME TypeOK, UidsTell, NEW r \in Responses, RespCache[r] # Nil,
           PollCache[RespCache[r].spec.pollRef] # Nil,
           OwnedBy(RespCache[r], PollCache[RespCache[r].spec.pollRef])
    PROVE  RespCache[r].owner =
              [name |-> RespCache[r].spec.pollRef,
               uid  |-> PollCache[RespCache[r].spec.pollRef].uid]
<1> DEFINE resp == RespCache[r]
           poll == PollCache[resp.spec.pollRef]
<1>1. ApiTypeOK /\ RespCache \in ResponseStore
  BY SnapshotType DEF TypeOK
<1>2. /\ 1 \in 1..Len(pollV) /\ PollCache = pollV[1]
      /\ 1 \in 1..Len(respV) /\ RespCache = respV[1]
  BY <1>1, EndsOfStream
<1>3. resp \in PollResponse /\ resp.spec.pollRef \in Polls /\ resp.owner # Nil
  BY <1>1 DEF ResponseStore, PollResponse, PollResponseSpec, OwnedBy
<1>4. resp.owner \in Owners(r) /\ poll.uid \in Uids(resp.spec.pollRef)
  BY <1>2, <1>3 DEF Owners, Uids
<1>5. resp.owner \in OwnerReference /\ UidOf(resp.owner.name, resp.owner.uid)
  BY <1>1, <1>4, OwnerType DEF UidsTell
<1>6. resp.owner.uid = poll.uid
  BY DEF OwnedBy
<1>7. resp.owner.name = resp.spec.pollRef
  BY <1>3, <1>4, <1>5, <1>6 DEF UidOf
<1> QED BY <1>5, <1>6, <1>7 DEF OwnerReference

LEMMA VerdictValidate ==
    ASSUME TypeOK, UidsTell, VerdictTracked, Validate
    PROVE  VerdictTracked'
<1>1. /\ RespCtlTypeOK /\ UNCHANGED apiVars /\ UNCHANGED <<note, respQ>>
      /\ rw.pc = "validate" /\ Conclude(ValidatedStatus(rw.poll, rw.resp, now))
  BY DEF Validate, TypeOK
<1>2. /\ UNCHANGED <<now, note>> /\ RespCache' = RespCache /\ PollCache' = PollCache
      /\ \A r \in Responses : RespAwaited(r) => RespAwaited(r)'
  BY <1>1, ReadsOnly
<1>3. SUFFICES ASSUME NEW r \in Responses, r \notin respQ'
               PROVE  RespAwaited(r)' \/ PollNoted(r)' \/ VerdictInHand(r)' \/ VerdictCurrent(r)'
  BY DEF VerdictTracked
<1>4. CASE ~VerdictInHand(r)
  BY <1>1, <1>2, <1>3, <1>4, VerdictOfOthers
<1>5. CASE VerdictInHand(r)
  <2>1. /\ rw.key = r /\ rw.resp = RespCache[r] /\ rw.poll = PollCache[rw.resp.spec.pollRef]
        /\ OwnedBy(rw.resp, rw.poll) /\ rw.resp # Nil /\ rw.poll # Nil
    BY <1>1, <1>5 DEF VerdictInHand, RespCtlTypeOK
  <2>2. CASE rw.resp.status = ValidatedStatus(rw.poll, rw.resp, now)
    <3>1. rw.resp.owner = [name |-> rw.resp.spec.pollRef, uid |-> rw.poll.uid]
      BY <2>1, OwnedExactly
    <3>2. now \in 0..now'
      BY <1>2, BoundsAssumption DEF TypeOK, ApiTypeOK
    <3> QED BY <1>2, <2>1, <2>2, <3>1, <3>2 DEF VerdictCurrent, Judged
  <2>3. CASE /\ rw'.pc = "patch" /\ rw'.key = rw.key /\ rw'.resp = rw.resp
             /\ rw'.desired # rw.resp.status
    BY <1>2, <2>1, <2>3 DEF VerdictInHand
  <2> QED BY <1>1, <2>2, <2>3, Concluded
<1> QED BY <1>4, <1>5

(* What is written to a response the cache is up to date with is awaited,   *)
(* if it differs.                                                           *)
LEMMA WriteAwaited ==
    ASSUME ApiTypeOK, NEW r \in Responses, NEW obj \in PollResponse, WriteResponse(r, obj),
           obj # RespCache[r]
    PROVE  RespAwaited(r)'
<1>1. /\ Len(respV') \in Nat /\ Len(respV') >= 1 /\ RespTruth'[r] = obj
      /\ RespCache' = RespCache
  BY WriteResponseFacts, AwaitedAfterResponseWrite, BoundsAssumption DEF ApiTypeOK
<1>2. Len(respV') \in 1..Len(respV') /\ respV'[Len(respV')][r] # respV'[1][r]
  BY <1>1 DEF RespTruth, RespCache
<1> QED BY <1>2 DEF RespAwaited

LEMMA VerdictOwn ==
    ASSUME TypeOK, VerdictTracked, EnsureOwnerReference
    PROVE  VerdictTracked'
<1>1. /\ ApiTypeOK /\ RespCtlTypeOK /\ UNCHANGED <<pollV, now, note, respQ>> /\ rw.pc = "own"
      /\ RespTruth[rw.key] # Nil /\ WriteResponse(rw.key, OwnedResponse)
  BY DEF EnsureOwnerReference, TypeOK
<1>2. rw.key \in Responses /\ OwnedResponse \in PollResponse
  BY <1>1, RespWorkerFacts, OwnedResponseType
<1>3. /\ RespCache' = RespCache /\ PollCache' = PollCache
      /\ \A r \in Responses : RespAwaited(r) => RespAwaited(r)'
  BY <1>1, <1>2, AwaitedAfterResponseWrite DEF PollCache
<1>4. SUFFICES ASSUME NEW r \in Responses, r \notin respQ'
               PROVE  RespAwaited(r)' \/ PollNoted(r)' \/ VerdictInHand(r)' \/ VerdictCurrent(r)'
  BY DEF VerdictTracked
<1>5. CASE ~VerdictInHand(r)
  BY <1>1, <1>3, <1>4, <1>5, VerdictOfOthers
<1>6. CASE VerdictInHand(r)
  <2>1. rw.key = r /\ rw.resp = RespCache[r] /\ ~OwnedBy(rw.resp, rw.poll)
    BY <1>1, <1>6 DEF VerdictInHand
  <2>2. RespTruth[r] \in PollResponse
    BY <1>1, <1>2, <2>1, SnapshotType DEF ResponseStore
  <2>3. OwnedResponse.owner = [name |-> rw.resp.spec.pollRef, uid |-> rw.poll.uid]
    BY <2>1, <2>2 DEF OwnedResponse, PollResponse
  <2>4. OwnedResponse.owner # Nil
    BY <1>2, <2>3, NilAssumption, RespWorkerFacts, <1>1
       DEF OwnerReference, PollResponse, PollResponseSpec, Poll
  <2>5. OwnedResponse # RespCache[r]
    BY <2>1, <2>3, <2>4 DEF OwnedBy
  <2> QED BY <1>1, <1>2, <2>1, <2>5, WriteAwaited
<1> QED BY <1>5, <1>6

LEMMA VerdictPatch ==
    ASSUME TypeOK, VerdictTracked, RespPatch
    PROVE  VerdictTracked'
<1>1. /\ ApiTypeOK /\ RespCtlTypeOK /\ UNCHANGED <<pollV, now, note, respQ>> /\ rw.pc = "patch"
      /\ RespTruth[rw.key] # Nil /\ WriteResponse(rw.key, JudgedResponse)
  BY DEF RespPatch, TypeOK
<1>2. /\ rw.key \in Responses /\ JudgedResponse \in PollResponse
      /\ rw.resp \in PollResponse /\ rw.desired \in PollResponseStatus
  BY <1>1, RespWorkerFacts, JudgedResponseType
<1>3. /\ RespCache' = RespCache /\ PollCache' = PollCache
      /\ \A r \in Responses : RespAwaited(r) => RespAwaited(r)'
  BY <1>1, <1>2, AwaitedAfterResponseWrite DEF PollCache
<1>4. SUFFICES ASSUME NEW r \in Responses, r \notin respQ'
               PROVE  RespAwaited(r)' \/ PollNoted(r)' \/ VerdictInHand(r)' \/ VerdictCurrent(r)'
  BY DEF VerdictTracked
<1>5. CASE ~VerdictInHand(r)
  BY <1>1, <1>3, <1>4, <1>5, VerdictOfOthers
<1>6. CASE RespAwaited(r)
  BY <1>3, <1>6
<1>7. CASE VerdictInHand(r) /\ ~RespAwaited(r)
  <2>1. rw.key = r /\ rw.resp = RespCache[r] /\ rw.desired # rw.resp.status
    BY <1>1, <1>7 DEF VerdictInHand
  <2>2. RespTruth[r] = RespCache[r]
    BY <1>1, <1>7, EndsOfStream DEF RespAwaited
  <2>3. JudgedResponse.status = MergeResponseStatus(rw.resp.status, rw.resp.status, rw.desired)
    BY <1>2, <2>1, <2>2 DEF JudgedResponse, PollResponse
  <2>4. JudgedResponse.status = rw.desired
    BY <1>2, <2>3, MergeResponseStatusFresh DEF PollResponse
  <2>5. JudgedResponse # RespCache[r]
    BY <2>1, <2>4
  <2> QED BY <1>1, <1>2, <2>1, <2>5, WriteAwaited
<1> QED BY <1>5, <1>6, <1>7

(* A failed call puts its key back, whatever it wrote.                      *)
LEMMA VerdictFails ==
    ASSUME TypeOK, VerdictTracked, RespWriteNotFound \/ RespWriteFault
    PROVE  VerdictTracked'
<1>1. /\ ApiTypeOK /\ RespCtlTypeOK /\ UNCHANGED <<pollV, now, note>>
      /\ respQ' = respQ \cup {rw.key}
      /\ UNCHANGED respV \/ RespWriteFault
  BY DEF RespWriteNotFound, RespWriteFault, RespReconcileFails, apiVars, TypeOK
<1>2. UNCHANGED respV \/ WritesResponse
  BY <1>1, PatchWritesResponse
<1>3. /\ RespCache' = RespCache /\ PollCache' = PollCache
      /\ \A r \in Responses : RespAwaited(r) => RespAwaited(r)'
  <2>1. CASE UNCHANGED respV
    BY <1>1, <2>1 DEF RespCache, PollCache, RespAwaited
  <2>2. CASE WritesResponse
    BY <1>1, <2>2, AwaitedAfterResponseWrite DEF WritesResponse, PollCache
  <2> QED BY <1>2, <2>1, <2>2
<1>4. SUFFICES ASSUME NEW r \in Responses, r \notin respQ'
               PROVE  RespAwaited(r)' \/ PollNoted(r)' \/ VerdictInHand(r)' \/ VerdictCurrent(r)'
  BY DEF VerdictTracked
<1>5. r \notin respQ /\ ~VerdictInHand(r)
  BY <1>1, <1>4 DEF VerdictInHand
<1> QED BY <1>1, <1>3, <1>5, VerdictOfOthers

(* Steps that are not the PollResponse controller's leave what it does to   *)
(* it.                                                                      *)
LEMMA VerdictElsewhere ==
    ASSUME TypeOK, VerdictTracked, Environment \/ PollControllerStep \/ UNCHANGED vars,
           ~DeliverPoll, ~DeliverResponse, ~Restart
    PROVE  VerdictTracked'
<1>1. ApiTypeOK /\ RespCtlTypeOK /\ now \in Nat
  BY BoundsAssumption DEF TypeOK, ApiTypeOK
<1>2. /\ UNCHANGED pollV \/ WritesPoll
      /\ UNCHANGED respV \/ WritesResponse
  BY PollSteps, ResponseSteps DEF Next
<1>3. PollCache' = PollCache
  <2>1. CASE UNCHANGED pollV
    BY <2>1 DEF PollCache
  <2>2. CASE WritesPoll
    BY <1>1, <2>2, AwaitedAfterPollWrite DEF WritesPoll
  <2> QED BY <1>2, <2>1, <2>2
<1>4. RespCache' = RespCache /\ \A r \in Responses : RespAwaited(r) => RespAwaited(r)'
  <2>1. CASE UNCHANGED respV
    BY <2>1 DEF RespCache, RespAwaited
  <2>2. CASE WritesResponse
    BY <1>1, <2>2, AwaitedAfterResponseWrite DEF WritesResponse
  <2> QED BY <1>2, <2>1, <2>2
<1>5. UNCHANGED <<respQ, note, rw>>
  BY DEF Environment, PollControllerStep, vars, respCtlVars
<1>6. now' \in Nat /\ now <= now'
  <2>1. CASE Environment
    BY <2>1, StreamOnlyGrows
  <2>2. CASE PollControllerStep \/ UNCHANGED vars
    BY <1>1, <2>2 DEF PollControllerStep, PollWorkerStep, PollGet, PollList, PollPatch,
       PollPatchNotFound, PollRequeue, PollPatchFault, PollTimerFires, apiVars, vars
  <2> QED BY <2>1, <2>2
<1> QED BY <1>1, <1>3, <1>4, <1>5, <1>6, VerdictUndisturbed DEF VerdictTracked

(* The inductive invariant of the verdict, relative to TypeOK and UidsTell: *)
(* every response is queued, or awaited by the cache, or noted, or in the   *)
(* worker's hands, or judged (pollresponse_controller.go:76-151, 322-345).  *)
THEOREM VerdictAlwaysTracked == Spec => []VerdictTracked
<1>1. Init => VerdictTracked
  BY DEF Init, ApiInit, RespCache, VerdictTracked, VerdictCurrent
<1>2. TypeOK /\ UidsTell /\ VerdictTracked /\ [Next]_vars => VerdictTracked'
  <2> SUFFICES ASSUME TypeOK, UidsTell, VerdictTracked, [Next]_vars PROVE VerdictTracked'
    OBVIOUS
  <2>1. CASE DeliverPoll
    BY <2>1, VerdictDeliverPoll
  <2>2. CASE DeliverResponse
    BY <2>2, VerdictDeliverResponse
  <2>3. CASE Restart
    BY <2>3, VerdictRestart
  <2>4. CASE ResponseControllerStep
    BY <2>4, VerdictPollEvent, VerdictGet, VerdictGetPoll, VerdictOwn, VerdictValidate,
       VerdictPatch, VerdictFails DEF ResponseControllerStep, RespWorkerStep
  <2> QED BY <2>1, <2>2, <2>3, <2>4, VerdictElsewhere DEF Next
<1> QED BY <1>1, <1>2, TypeCorrect, UidsAlwaysTell, PTL DEF Spec

(* However steps, faults and restarts interleave, and whatever is deleted   *)
(* and created again: once nothing is left to reconcile a response, it is   *)
(* owned by the Poll it refers to and its verdict is that Poll's            *)
(* (pollresponse_controller.go:76-113).                                     *)
THEOREM VerdictNeverLost == Spec => []QuietVerdict
<1>1. VerdictTracked => QuietVerdict
  <2> SUFFICES ASSUME VerdictTracked, NEW r \in Responses, RespQuiet(r),
                      RespTruth[r] # Nil, ~RespTruth[r].deleting
               PROVE  Judged(RespTruth[r], PollTruth)
    BY DEF QuietVerdict, Judged
  <2>1. PollTruth = PollCache /\ RespTruth = RespCache /\ ~RespAwaited(r)
    BY DEF RespQuiet, Drained, PollTruth, PollCache, RespTruth, RespCache, RespAwaited
  <2>2. r \notin respQ /\ ~PollNoted(r) /\ ~VerdictInHand(r)
    BY DEF RespQuiet, RespBusy, PollNoted, VerdictInHand
  <2> QED BY <2>1, <2>2 DEF VerdictTracked, VerdictCurrent
<1> QED BY <1>1, VerdictAlwaysTracked, PTL

----------------------------------------------------------------------------
(* Verdicts and tallies                                                     *)

Voters(p, q) == {r \in CountedResponses(p, RespTruth) : AnswersBy(r, q) # {}}

Choosers(p, q, o) == {r \in Voters(p, q) : Chose(r, q, o)}

LEMMA SequenceDomain ==
    ASSUME NEW T, NEW s \in Seq(T)
    PROVE  DOMAIN s = 1..Len(s)
OBVIOUS

(* A stored response has few answers, with few selections, of different     *)
(* questions: that was so when it was submitted.                            *)
LEMMA StoredAnswers ==
    ASSUME TypeOK, SpecsSubmitted, NEW r \in Responses, RespTruth[r] # Nil
    PROVE  LET answers == RespTruth[r].spec.answers
           IN  /\ answers \in Seq(PollAnswer) /\ RespTruth[r].spec \in PollResponseSpec
               /\ Len(answers) \in Nat /\ Len(answers) <= MaxAnswers
               /\ DOMAIN answers = 1..Len(answers)
               /\ \A i \in 1..Len(answers) :
                     /\ answers[i] \in PollAnswer
                     /\ answers[i].selectedOptions \in Seq(Options)
                     /\ DOMAIN answers[i].selectedOptions
                           = 1..Len(answers[i].selectedOptions)
                     /\ Len(answers[i].selectedOptions) \in Nat
                     /\ Len(answers[i].selectedOptions) <= MaxSelections
               /\ \A i, j \in 1..Len(answers) :
                     answers[i].questionID = answers[j].questionID => i = j
<1>1. RespTruth[r].spec \in ResponseSpecs
  BY EndsOfStream DEF SpecsSubmitted, TypeOK
<1>2. RespTruth[r].spec \in PollResponseSpec
  BY <1>1, SpecsAssumption
<1>3. PICK answers \in Seq(PollAnswer) : answers = RespTruth[r].spec.answers
  BY <1>2 DEF PollResponseSpec
<1>4. /\ Len(answers) <= MaxAnswers
      /\ \A i \in 1..Len(answers) : Len(answers[i].selectedOptions) <= MaxSelections
      /\ \A i, j \in 1..Len(answers) :
            answers[i].questionID = answers[j].questionID => i = j
  BY <1>1, <1>3, AnswersAssumption
<1>5. ASSUME NEW i \in 1..Len(answers)
      PROVE  /\ answers[i] \in PollAnswer
             /\ answers[i].selectedOptions \in Seq(Options)
             /\ Len(answers[i].selectedOptions) \in Nat
             /\ DOMAIN answers[i].selectedOptions = 1..Len(answers[i].selectedOptions)
  <2>1. answers[i] \in PollAnswer
    OBVIOUS
  <2>2. answers[i].selectedOptions \in Seq(Options)
    BY <2>1 DEF PollAnswer
  <2> QED BY <2>1, <2>2, SequenceDomain
<1>6. Len(answers) \in Nat /\ DOMAIN answers = 1..Len(answers)
  BY SequenceDomain
<1> QED BY <1>2, <1>3, <1>4, <1>5, <1>6

(* Every counted answer is that of one voter.                               *)
LEMMA VotersCounted ==
    ASSUME TypeOK, SpecsSubmitted, NEW p \in Polls, NEW q
    PROVE  Cardinality(AnswersTo(q, p, RespTruth)) = Cardinality(Voters(p, q))
<1> DEFINE S == AnswersTo(q, p, RespTruth)
           f == [a \in S |-> a[1]]
<1>1. \A r \in CountedResponses(p, RespTruth) : r \in Responses /\ RespTruth[r] # Nil
  BY DEF CountedResponses
<1>2. ASSUME NEW a \in S
      PROVE  /\ a[1] \in CountedResponses(p, RespTruth)
             /\ a[2] \in 1..Len(RespTruth[a[1]].spec.answers)
             /\ RespTruth[a[1]].spec.answers[a[2]].questionID = q
             /\ a = <<a[1], a[2]>>
  <2>1. /\ a \in CountedResponses(p, RespTruth) \X (1..MaxAnswers)
        /\ a[2] <= Len(RespTruth[a[1]].spec.answers)
        /\ RespTruth[a[1]].spec.answers[a[2]].questionID = q
    BY DEF AnswersTo
  <2>2. Len(RespTruth[a[1]].spec.answers) \in Nat
    BY <1>1, <2>1, StoredAnswers
  <2> QED BY <2>1, <2>2, LimitsAssumption
<1>3. ASSUME NEW a \in S PROVE a[1] \in Voters(p, q)
  <2>1. DOMAIN RespTruth[a[1]].spec.answers = 1..Len(RespTruth[a[1]].spec.answers)
    BY <1>1, <1>2, StoredAnswers
  <2> QED BY <1>2, <2>1 DEF Voters, AnswersBy
<1>4. ASSUME NEW a \in S, NEW b \in S, a[1] = b[1] PROVE a = b
  <2>1. a[2] = b[2]
    BY <1>1, <1>2, <1>4, StoredAnswers
  <2> QED BY <1>2, <1>4, <2>1
<1>5. ASSUME NEW r \in Voters(p, q) PROVE \E a \in S : a[1] = r
  <2>1. r \in CountedResponses(p, RespTruth) /\ r \in Responses /\ RespTruth[r] # Nil
    BY <1>1 DEF Voters
  <2>2. PICK i \in AnswersBy(r, q) : TRUE
    BY DEF Voters
  <2>3. i \in 1..Len(RespTruth[r].spec.answers) /\ RespTruth[r].spec.answers[i].questionID = q
    BY <2>1, <2>2, StoredAnswers DEF AnswersBy
  <2>4. i \in 1..MaxAnswers /\ i <= Len(RespTruth[r].spec.answers)
    BY <2>1, <2>3, StoredAnswers, LimitsAssumption
  <2>5. <<r, i>> \in S
    BY <2>1, <2>3, <2>4 DEF AnswersTo
  <2> QED BY <2>5
<1>6. IsFiniteSet(S)
  BY TallyFinite
<1> HIDE DEF S
<1>7. /\ f \in [S -> Voters(p, q)]
      /\ \A a, b \in S : f[a] = f[b] => a = b
      /\ \A r \in Voters(p, q) : \E a \in S : f[a] = r
  BY <1>3, <1>4, <1>5
<1> HIDE DEF f
<1>8. Cardinality(Voters(p, q)) = Cardinality(S)
  BY <1>6, <1>7, SameCount
<1> QED BY <1>8 DEF S

(* At rest, what is counted is what the stored Poll accepts.                *)
LEMMA CountedIsAccepted ==
    ASSUME TypeOK, SpecsSubmitted, QuietVerdict, Quiescent, NEW p \in Polls, PollTruth[p] # Nil,
           NEW r \in CountedResponses(p, RespTruth), ~RespTruth[r].deleting,
           NEW i \in 1..Len(RespTruth[r].spec.answers)
    PROVE  AnswerReason(PollTruth[p].spec.questions, RespTruth[r].spec.answers[i]) = "Accepted"
<1> DEFINE resp == RespTruth[r]
           poll == PollTruth[p]
<1>1. /\ r \in Responses /\ resp # Nil /\ resp.spec.pollRef = p
      /\ resp.status.phase = "Accepted"
  BY DEF CountedResponses
<1>2. RespQuiet(r)
  BY DEF Quiescent, RespQuiet, RespBusy
<1>3. PICK t \in 0..now : resp.status = ValidatedStatus(poll, resp, t)
  BY <1>1, <1>2 DEF QuietVerdict
<1>4. ValidateResponse(poll.spec, resp.spec, t) = "Accepted"
  BY <1>1, <1>3 DEF ValidatedStatus, RejectedStatus
<1>5. resp.spec \in PollResponseSpec
  BY <1>1, StoredAnswers
<1> QED BY <1>4, <1>5, AcceptsEachAnswer

(* Every counted vote is that of one chooser, and nobody chose an option    *)
(* that is not counted.                                                     *)
LEMMA ChoosersCounted ==
    ASSUME TypeOK, SpecsSubmitted, QuietVerdict, Quiescent, NEW p \in Polls, NEW q \in Questions,
           PollTruth[p] # Nil, PollTruth[p].spec.questions[q] # Nil,
           \A r \in CountedResponses(p, RespTruth) : ~RespTruth[r].deleting,
           NEW o \in Options
    PROVE  /\ Cardinality(VotesFor(o, q, p, RespTruth)) = Cardinality(Choosers(p, q, o))
           /\ o \notin TalliedOptions(PollTruth[p].spec.questions[q]) => Choosers(p, q, o) = {}
<1> DEFINE question == PollTruth[p].spec.questions[q]
           counted == CountedResponses(p, RespTruth)
           size(r) == Len(RespTruth[r].spec.answers)
           asks(r, i) == RespTruth[r].spec.answers[i].questionID
           selected(r, i) == RespTruth[r].spec.answers[i].selectedOptions
           S == VotesFor(o, q, p, RespTruth)
           f == [v \in S |-> v[1][1]]
<1>1. ASSUME NEW r \in counted
      PROVE  /\ r \in Responses /\ size(r) \in Nat /\ size(r) <= MaxAnswers
             /\ DOMAIN RespTruth[r].spec.answers = 1..size(r)
             /\ \A i, j \in 1..size(r) : asks(r, i) = asks(r, j) => i = j
             /\ \A i \in 1..size(r) :
                   /\ RespTruth[r].spec.answers[i] \in PollAnswer
                   /\ Len(selected(r, i)) \in Nat /\ Len(selected(r, i)) <= MaxSelections
                   /\ DOMAIN selected(r, i) = 1..Len(selected(r, i))
  <2>1. r \in Responses /\ RespTruth[r] # Nil
    BY DEF CountedResponses
  <2>2. LET answers == RespTruth[r].spec.answers
        IN  /\ Len(answers) \in Nat /\ Len(answers) <= MaxAnswers
            /\ DOMAIN answers = 1..Len(answers)
            /\ \A i \in 1..Len(answers) :
                  /\ answers[i] \in PollAnswer
                  /\ DOMAIN answers[i].selectedOptions
                        = 1..Len(answers[i].selectedOptions)
                  /\ Len(answers[i].selectedOptions) \in Nat
                  /\ Len(answers[i].selectedOptions) <= MaxSelections
            /\ \A i, j \in 1..Len(answers) :
                  answers[i].questionID = answers[j].questionID => i = j
    BY <2>1, StoredAnswers
  <2> QED BY <2>1, <2>2
<1>2. ASSUME NEW r \in counted, NEW i \in 1..size(r), asks(r, i) = q,
             NEW j \in 1..Len(selected(r, i))
      PROVE  /\ selected(r, i)[j] \in TalliedOptions(question)
             /\ \A k \in 1..(j - 1) : selected(r, i)[k] # selected(r, i)[j]
  <2>1. question \in PollQuestion
    <3>1. PollTruth[p] \in Poll
      BY SnapshotType DEF TypeOK, PollStore
    <3> QED BY <3>1 DEF Poll, PollSpec
  <2>2. RespTruth[r].spec.answers[i] \in PollAnswer
    BY <1>1
  <2>3. AnswerReason(PollTruth[p].spec.questions, RespTruth[r].spec.answers[i]) = "Accepted"
    BY CountedIsAccepted
  <2>4. ValidateAnswer(question, RespTruth[r].spec.answers[i]) = "Accepted"
    BY <1>2, <2>3 DEF AnswerReason
  <2> HIDE DEF question
  <2> QED BY <2>1, <2>2, <2>4, AcceptedSelections
<1>3. ASSUME NEW v \in S
      PROVE  \E r \in counted : \E i \in 1..size(r) : \E j \in 1..Len(selected(r, i)) :
                asks(r, i) = q /\ selected(r, i)[j] = o /\ v = <<<<r, i>>, j>>
  <2> DEFINE T == AnswersTo(q, p, RespTruth)
  <2> HIDE DEF T
  <2>0. \E a \in T, j \in 1..MaxSelections :
             v = <<a, j>> /\ j <= Len(selected(a[1], a[2])) /\ selected(a[1], a[2])[j] = o
    <3>1. /\ v \in T \X (1..MaxSelections)
          /\ v[2] <= Len(selected(v[1][1], v[1][2]))
          /\ selected(v[1][1], v[1][2])[v[2]] = o
      BY DEF VotesFor, T
    <3> HIDE DEF selected, S
    <3> QED BY <3>1
  <2>1. PICK a \in AnswersTo(q, p, RespTruth), j \in 1..MaxSelections :
             v = <<a, j>> /\ j <= Len(selected(a[1], a[2])) /\ selected(a[1], a[2])[j] = o
    BY <2>0 DEF T
  <2>2. PICK r \in counted, i \in 1..MaxAnswers :
             a = <<r, i>> /\ i <= size(r) /\ asks(r, i) = q
    BY DEF AnswersTo
  <2>3. i \in 1..size(r)
    BY <1>1, <2>2, LimitsAssumption
  <2>4. j \in 1..Len(selected(r, i))
    BY <1>1, <2>1, <2>2, <2>3, LimitsAssumption
  <2> QED BY <2>1, <2>2, <2>3, <2>4
<1>4. ASSUME NEW r \in counted, NEW i \in 1..size(r), NEW j \in 1..Len(selected(r, i)),
             asks(r, i) = q, selected(r, i)[j] = o
      PROVE  <<<<r, i>>, j>> \in S
  <2>1. /\ i \in 1..MaxAnswers /\ i <= size(r)
        /\ j \in 1..MaxSelections /\ j <= Len(selected(r, i))
    <3>1. /\ size(r) \in Nat /\ size(r) <= MaxAnswers
          /\ Len(selected(r, i)) \in Nat /\ Len(selected(r, i)) <= MaxSelections
      BY <1>1
    <3> HIDE DEF size, selected
    <3> QED BY <3>1, LimitsAssumption
  <2>2. <<r, i>> \in AnswersTo(q, p, RespTruth)
    BY <1>4, <2>1 DEF AnswersTo
  <2> QED BY <1>4, <2>1, <2>2 DEF VotesFor
<1>5. ASSUME NEW r
      PROVE  r \in Choosers(p, q, o) <=>
                /\ r \in counted
                /\ \E i \in 1..size(r) : \E j \in 1..Len(selected(r, i)) :
                      asks(r, i) = q /\ selected(r, i)[j] = o
  BY <1>1 DEF Choosers, Voters, Chose, AnswersBy
<1>6. IsFiniteSet(S)
  BY TallyFinite
<1> HIDE DEF counted, size, asks, selected, S, question
<1>7. ASSUME NEW v \in S, NEW w \in S, v[1][1] = w[1][1] PROVE v = w
  <2>1. PICK r \in counted : \E i \in 1..size(r) : \E j \in 1..Len(selected(r, i)) :
                asks(r, i) = q /\ selected(r, i)[j] = o /\ v = <<<<r, i>>, j>>
    BY <1>3
  <2>2. PICK i \in 1..size(r) : \E j \in 1..Len(selected(r, i)) :
                asks(r, i) = q /\ selected(r, i)[j] = o /\ v = <<<<r, i>>, j>>
    BY <2>1
  <2>3. PICK j \in 1..Len(selected(r, i)) :
                asks(r, i) = q /\ selected(r, i)[j] = o /\ v = <<<<r, i>>, j>>
    BY <2>2
  <2>4. PICK k \in 1..size(r) : \E l \in 1..Len(selected(r, k)) :
                asks(r, k) = q /\ selected(r, k)[l] = o /\ w = <<<<r, k>>, l>>
    <3>1. PICK s \in counted : \E k \in 1..size(s) : \E l \in 1..Len(selected(s, k)) :
                  asks(s, k) = q /\ selected(s, k)[l] = o /\ w = <<<<s, k>>, l>>
      BY <1>3
    <3>2. s = r
      BY <1>7, <2>3, <3>1
    <3> QED BY <3>1, <3>2
  <2>5. k = i
    BY <1>1, <2>3, <2>4
  <2>6. PICK l \in 1..Len(selected(r, i)) : selected(r, i)[l] = o /\ w = <<<<r, i>>, l>>
    BY <2>4, <2>5
  <2>7. /\ Len(selected(r, i)) \in Nat
        /\ \A m \in 1..(j - 1) : selected(r, i)[m] # o
        /\ \A m \in 1..(l - 1) : selected(r, i)[m] # o
    BY <1>1, <1>2, <2>3, <2>6
  <2>8. l = j
    BY <2>3, <2>6, <2>7
  <2> QED BY <2>3, <2>6, <2>8
<1>8. \A v \in S : v[1][1] \in Choosers(p, q, o)
  BY <1>3, <1>5
<1>9. ASSUME NEW r \in Choosers(p, q, o) PROVE \E v \in S : v[1][1] = r
  <2>1. PICK i \in 1..size(r) : \E j \in 1..Len(selected(r, i)) :
                asks(r, i) = q /\ selected(r, i)[j] = o
    BY <1>5
  <2>2. PICK j \in 1..Len(selected(r, i)) : asks(r, i) = q /\ selected(r, i)[j] = o
    BY <2>1
  <2>3. <<<<r, i>>, j>> \in S
    BY <1>4, <1>5, <2>2
  <2> QED BY <2>3
<1>10. /\ f \in [S -> Choosers(p, q, o)]
       /\ \A v, w \in S : f[v] = f[w] => v = w
       /\ \A r \in Choosers(p, q, o) : \E v \in S : f[v] = r
  BY <1>7, <1>8, <1>9
<1> HIDE DEF f
<1>11. Cardinality(Choosers(p, q, o)) = Cardinality(S)
  BY <1>6, <1>10, SameCount
<1>12. Choosers(p, q, o) # {} => o \in TalliedOptions(question)
  BY <1>2, <1>5
<1> QED BY <1>11, <1>12 DEF S, question

(* The verdicts of one controller make the counts of the other those of     *)
(* voters: at rest aggregateResults neither skips nor repeats a vote that   *)
(* validateResponse let through (poll_controller.go:184-200,                *)
(* pollresponse_controller.go:200-260).                                     *)
THEOREM TalliesAlwaysAddUp == Spec => []TalliesAddUp
<1>1. TypeOK /\ QuietTally /\ QuietVerdict /\ SpecsSubmitted => TalliesAddUp
  <2> SUFFICES ASSUME TypeOK, QuietTally, QuietVerdict, SpecsSubmitted, Quiescent,
                      NEW p \in Polls, NEW q \in Questions,
                      PollTruth[p] # Nil, PollTruth[p].spec.questions[q] # Nil,
                      \A r \in CountedResponses(p, RespTruth) : ~RespTruth[r].deleting
               PROVE  LET question == PollTruth[p].spec.questions[q]
                          result == PollTruth[p].status.results[q]
                      IN  /\ result.responses = Cardinality(Voters(p, q))
                          /\ \A o \in Options :
                                IF o \in TalliedOptions(question)
                                THEN VotesOrZero(result.options, o)
                                        = Cardinality(Choosers(p, q, o))
                                ELSE Choosers(p, q, o) = {}
    BY DEF TalliesAddUp, Voters, Choosers
  <2>1. PollQuiet(p)
    BY DEF Quiescent, PollQuiet, PollBusy
  <2>2. PICK t \in 0..now :
             StatusEqual(PollTruth[p].status,
                         DesiredPollStatus(p, PollTruth[p], RespTruth, t))
    BY <2>1 DEF QuietTally
  <2>3. t \in Nat /\ PollTruth[p] \in Poll
    BY SnapshotType, BoundsAssumption DEF TypeOK, ApiTypeOK, PollStore
  <2>4. /\ PollTruth[p].status.results[q].responses = Cardinality(AnswersTo(q, p, RespTruth))
        /\ \A o \in Options :
              o \in TalliedOptions(PollTruth[p].spec.questions[q]) =>
                 VotesOrZero(PollTruth[p].status.results[q].options, o)
                    = Cardinality(VotesFor(o, q, p, RespTruth))
    BY <2>2, <2>3, EqualShowsTally
  <2> QED BY <2>4, VotersCounted, ChoosersCounted
<1> QED BY <1>1, TypeCorrect, TallyNeverLost, VerdictNeverLost, SpecsAlwaysSubmitted, PTL
=============================================================================
