--------------------------- MODULE ApiServerProofs --------------------------
(***************************************************************************)
(* What the actions of ApiServer do to the watch streams, for every value   *)
(* of the constants: the lemmas the proofs about the controllers and about  *)
(* the web UI share.                                                       *)
(***************************************************************************)
EXTENDS ApiServer, StatusProofs, SequenceTheorems, TLAPS

----------------------------------------------------------------------------
(* The watch streams *)

(* The cache and the server hold snapshots of the declared type.            *)
LEMMA SnapshotType ==
    ASSUME ApiTypeOK
    PROVE  /\ PollCache \in PollStore /\ PollTruth \in PollStore
           /\ RespCache \in ResponseStore /\ RespTruth \in ResponseStore
BY BoundsAssumption DEF ApiTypeOK, PollCache, PollTruth, RespCache, RespTruth

(* A write leaves what the stream already holds, and adds at most one       *)
(* snapshot: the server's with the written object.                          *)
LEMMA WritePollFacts ==
    ASSUME ApiTypeOK, NEW p \in Polls, NEW obj \in Poll \cup {Nil},
           WritePoll(p, obj)
    PROVE  /\ pollV' \in Seq(PollStore)
           /\ Len(pollV') \in 1..(MaxLag + 1)
           /\ Len(pollV) <= Len(pollV')
           /\ \A i \in 1..Len(pollV) : pollV'[i] = pollV[i]
           /\ PollTruth'[p] = obj
<1>1. PollTruth \in PollStore
  BY SnapshotType
<1>2. [PollTruth EXCEPT ![p] = obj] \in PollStore
  BY <1>1 DEF PollStore
<1>3. CASE obj = PollTruth[p]
  BY <1>3 DEF WritePoll, PollTruth, ApiTypeOK
<1>4. CASE obj # PollTruth[p]
  <2> DEFINE new == [PollTruth EXCEPT ![p] = obj]
  <2>1. pollV' = Append(pollV, new) /\ Len(pollV) <= MaxLag
    BY <1>4 DEF WritePoll
  <2>2. new[p] = obj
    BY <1>1 DEF PollStore
  <2>3. new \in PollStore
    BY <1>2
  <2> HIDE DEF new
  <2> QED BY <2>1, <2>2, <2>3, BoundsAssumption DEF ApiTypeOK, PollTruth
<1> QED BY <1>3, <1>4

LEMMA WriteResponseFacts ==
    ASSUME ApiTypeOK, NEW r \in Responses, NEW obj \in PollResponse \cup {Nil},
           WriteResponse(r, obj)
    PROVE  /\ respV' \in Seq(ResponseStore)
           /\ Len(respV') \in 1..(MaxLag + 1)
           /\ Len(respV) <= Len(respV')
           /\ \A i \in 1..Len(respV) : respV'[i] = respV[i]
           /\ RespTruth'[r] = obj
<1>1. RespTruth \in ResponseStore
  BY SnapshotType
<1>2. [RespTruth EXCEPT ![r] = obj] \in ResponseStore
  BY <1>1 DEF ResponseStore
<1>3. CASE obj = RespTruth[r]
  BY <1>3 DEF WriteResponse, RespTruth, ApiTypeOK
<1>4. CASE obj # RespTruth[r]
  <2> DEFINE new == [RespTruth EXCEPT ![r] = obj]
  <2>1. respV' = Append(respV, new) /\ Len(respV) <= MaxLag
    BY <1>4 DEF WriteResponse
  <2>2. new[r] = obj
    BY <1>1 DEF ResponseStore
  <2>3. new \in ResponseStore
    BY <1>2
  <2> HIDE DEF new
  <2> QED BY <2>1, <2>2, <2>3, BoundsAssumption DEF ApiTypeOK, RespTruth
<1> QED BY <1>3, <1>4

(* What a stream holds besides its first snapshot: a version of k that      *)
(* differs from the first's is still there when the first is dropped,       *)
(* unless it is the next one.                                               *)
LEMMA StreamTail ==
    ASSUME NEW S, NEW s \in Seq(S), Len(s) > 1, NEW k, s[2][k] = s[1][k]
    PROVE  /\ Tail(s)[1][k] = s[1][k]
           /\ (\E i \in 1..Len(s) : s[i][k] # s[1][k]) =>
                 \E i \in 1..Len(Tail(s)) : Tail(s)[i][k] # Tail(s)[1][k]
<1>1. /\ Len(Tail(s)) = Len(s) - 1
      /\ \A i \in 1..Len(Tail(s)) : Tail(s)[i] = s[i + 1]
  OBVIOUS
<1>2. Tail(s)[1] = s[2]
  BY <1>1
<1>3. ASSUME NEW i \in 1..Len(s), s[i][k] # s[1][k]
      PROVE  \E j \in 1..Len(Tail(s)) : Tail(s)[j][k] # Tail(s)[1][k]
  <2>1. i - 1 \in 1..Len(Tail(s)) /\ Tail(s)[i - 1] = s[i]
    BY <1>1, <1>3
  <2> QED BY <1>2, <1>3, <2>1
<1> QED BY <1>2, <1>3

(* A new last snapshot makes the versions of k differ where it differs from *)
(* the one that was last.                                                   *)
LEMMA StreamAppend ==
    ASSUME NEW S, NEW s \in Seq(S), Len(s) > 0, NEW x, NEW k, NEW t, t = Append(s, x)
    PROVE  (\E i \in 1..Len(t) : t[i][k] # t[1][k]) <=>
              (\E i \in 1..Len(s) : s[i][k] # s[1][k]) \/ x[k] # s[Len(s)][k]
<1> DEFINE n == Len(s)
<1>1. /\ n \in Nat /\ n >= 1 /\ Len(t) = n + 1 /\ t[n + 1] = x
      /\ \A i \in 1..n : t[i] = s[i]
  OBVIOUS
<1>2. ASSUME NEW i \in 1..n, s[i][k] # s[1][k]
      PROVE  \E j \in 1..Len(t) : t[j][k] # t[1][k]
  BY <1>1, <1>2
<1>3. ASSUME x[k] # s[n][k]
      PROVE  \E j \in 1..Len(t) : t[j][k] # t[1][k]
  <2>1. t[n + 1][k] # t[n][k] /\ n \in 1..Len(t) /\ n + 1 \in 1..Len(t)
    BY <1>1, <1>3
  <2> QED BY <2>1
<1>4. ASSUME NEW j \in 1..Len(t), t[j][k] # t[1][k], x[k] = s[n][k]
      PROVE  \E i \in 1..n : s[i][k] # s[1][k]
  <2>1. CASE j = n + 1
    BY <1>1, <1>4, <2>1
  <2>2. CASE j \in 1..n
    BY <1>1, <1>4, <2>2
  <2> QED BY <1>1, <2>1, <2>2
<1> QED BY <1>2, <1>3, <1>4

(* A stream has a first and a last snapshot.                                *)
LEMMA EndsOfStream ==
    ASSUME ApiTypeOK
    PROVE  /\ Len(pollV) \in Nat /\ 1 \in 1..Len(pollV) /\ Len(pollV) \in 1..Len(pollV)
           /\ PollCache = pollV[1] /\ PollTruth = pollV[Len(pollV)]
           /\ Len(respV) \in Nat /\ 1 \in 1..Len(respV) /\ Len(respV) \in 1..Len(respV)
           /\ RespCache = respV[1] /\ RespTruth = respV[Len(respV)]
BY BoundsAssumption DEF ApiTypeOK, PollCache, PollTruth, RespCache, RespTruth

(* A write keeps all versions and adds at most one, of its own object.      *)
LEMMA VersionsAfterWrite ==
    ASSUME ApiTypeOK, NEW p \in Polls, NEW obj \in Poll \cup {Nil}, WritePoll(p, obj),
           NEW i \in 1..Len(pollV')
    PROVE  \/ i \in 1..Len(pollV) /\ pollV'[i] = pollV[i]
           \/ /\ i = Len(pollV) + 1 /\ pollV'[i][p] = obj
              /\ \A q \in Polls \ {p} : pollV'[i][q] = PollTruth[q]
<1>1. PollTruth \in PollStore /\ Len(pollV) \in Nat
  BY SnapshotType, EndsOfStream
<1>2. CASE obj = PollTruth[p]
  BY <1>2 DEF WritePoll
<1>3. CASE obj # PollTruth[p]
  <2> DEFINE new == [PollTruth EXCEPT ![p] = obj]
  <2>1. pollV' = Append(pollV, new)
    BY <1>3 DEF WritePoll
  <2>2. new[p] = obj /\ \A q \in Polls \ {p} : new[q] = PollTruth[q]
    BY <1>1 DEF PollStore
  <2> HIDE DEF new
  <2>3. CASE i \in 1..Len(pollV)
    BY <2>1, <2>3 DEF ApiTypeOK
  <2>4. CASE i \notin 1..Len(pollV)
    <3>1. i = Len(pollV) + 1 /\ pollV'[i] = new
      BY <1>1, <2>1, <2>4 DEF ApiTypeOK
    <3> QED BY <2>2, <3>1
  <2> QED BY <2>3, <2>4
<1> QED BY <1>2, <1>3

(* Likewise of the responses.                                               *)
LEMMA VersionsAfterResponseWrite ==
    ASSUME ApiTypeOK, NEW r \in Responses, NEW obj \in PollResponse \cup {Nil},
           WriteResponse(r, obj), NEW i \in 1..Len(respV')
    PROVE  \/ i \in 1..Len(respV) /\ respV'[i] = respV[i]
           \/ /\ i = Len(respV) + 1 /\ respV'[i][r] = obj
              /\ \A s \in Responses \ {r} : respV'[i][s] = RespTruth[s]
<1>1. RespTruth \in ResponseStore /\ Len(respV) \in Nat
  BY SnapshotType, EndsOfStream
<1>2. CASE obj = RespTruth[r]
  BY <1>2 DEF WriteResponse
<1>3. CASE obj # RespTruth[r]
  <2> DEFINE new == [RespTruth EXCEPT ![r] = obj]
  <2>1. respV' = Append(respV, new)
    BY <1>3 DEF WriteResponse
  <2>2. new[r] = obj /\ \A s \in Responses \ {r} : new[s] = RespTruth[s]
    BY <1>1 DEF ResponseStore
  <2> HIDE DEF new
  <2>3. CASE i \in 1..Len(respV)
    BY <2>1, <2>3 DEF ApiTypeOK
  <2>4. CASE i \notin 1..Len(respV)
    <3>1. i = Len(respV) + 1 /\ respV'[i] = new
      BY <1>1, <2>1, <2>4 DEF ApiTypeOK
    <3> QED BY <2>2, <3>1
  <2> QED BY <2>3, <2>4
<1> QED BY <1>2, <1>3

----------------------------------------------------------------------------
(* Objects *)

LEMMA EditedPollType ==
    ASSUME NEW poll \in Poll, NEW spec \in PollSpec
    PROVE  [poll EXCEPT !.spec = spec, !.generation = @ + 1] \in Poll
<1>1. poll.generation + 1 \in Nat
  BY DEF Poll
<1> QED BY <1>1 DEF Poll

LEMMA EditedResponseType ==
    ASSUME NEW resp \in PollResponse, NEW spec \in PollResponseSpec
    PROVE  [resp EXCEPT !.spec = spec, !.generation = @ + 1] \in PollResponse
<1>1. resp.generation + 1 \in Nat
  BY DEF PollResponse
<1> QED BY <1>1 DEF PollResponse

----------------------------------------------------------------------------
(* Type correctness, action by action *)

(* What users do is one write of a well-typed object, or of its absence.    *)
LEMMA UserStepWrites ==
    ASSUME ApiTypeOK, UserStep
    PROVE  \/ /\ UNCHANGED respV
              /\ \E p \in Polls, obj \in Poll \cup {Nil} : WritePoll(p, obj)
           \/ /\ UNCHANGED pollV
              /\ \E r \in Responses, obj \in PollResponse \cup {Nil} : WriteResponse(r, obj)
<1> DEFINE WritesPoll(p) == UNCHANGED respV /\ \E obj \in Poll \cup {Nil} : WritePoll(p, obj)
           WritesResponse(r) ==
              UNCHANGED pollV /\ \E obj \in PollResponse \cup {Nil} : WriteResponse(r, obj)
<1>1. PollTruth \in PollStore /\ RespTruth \in ResponseStore
  BY SnapshotType
<1>2. ASSUME NEW p \in Polls, NEW spec \in PollSpecs, CreatePoll(p, spec)
      PROVE  WritesPoll(p)
  <2>1. EmptyPollStatus \in PollStatus
    BY DEF EmptyPollStatus, PollStatus, PollPhases, QuestionResults
  <2>2. [uid |-> ops + 1, generation |-> 1, spec |-> spec,
         status |-> EmptyPollStatus] \in Poll
    BY <2>1, SpecsAssumption, BoundsAssumption DEF Poll, ApiTypeOK
  <2> QED BY <2>2, <1>2 DEF CreatePoll
<1>3. ASSUME NEW p \in Polls, NEW spec \in PollSpecs, UpdatePoll(p, spec)
      PROVE  WritesPoll(p)
  <2>1. PollTruth[p] \in Poll
    BY <1>1, <1>3 DEF UpdatePoll, PollStore
  <2>2. [PollTruth[p] EXCEPT !.spec = spec, !.generation = @ + 1] \in Poll
    BY <2>1, SpecsAssumption, EditedPollType
  <2> QED BY <2>2, <1>3 DEF UpdatePoll
<1>4. ASSUME NEW p \in Polls, DeletePoll(p)
      PROVE  WritesPoll(p)
  BY <1>4 DEF DeletePoll
<1>5. ASSUME NEW r \in Responses, NEW spec \in ResponseSpecs, CreateResponse(r, spec)
      PROVE  WritesResponse(r)
  <2>1. EmptyResponseStatus \in PollResponseStatus
    BY DEF EmptyResponseStatus, PollResponseStatus, PollResponsePhases
  <2>2. NewResponse(spec) \in PollResponse
    BY <2>1, SpecsAssumption DEF PollResponse, NewResponse
  <2> QED BY <2>2, <1>5 DEF CreateResponse
<1>6. ASSUME NEW r \in Responses, NEW spec \in ResponseSpecs, UpdateResponse(r, spec)
      PROVE  WritesResponse(r)
  <2>1. RespTruth[r] \in PollResponse
    BY <1>1, <1>6 DEF UpdateResponse, ResponseStore
  <2>2. [RespTruth[r] EXCEPT !.spec = spec, !.generation = @ + 1] \in PollResponse
    BY <2>1, SpecsAssumption, EditedResponseType
  <2> QED BY <2>2, <1>6 DEF UpdateResponse
<1>7. ASSUME NEW r \in Responses, DeleteResponse(r)
      PROVE  WritesResponse(r)
  BY <1>7 DEF DeleteResponse
<1>8. ASSUME NEW r \in Responses, ForegroundDeleteResponse(r)
      PROVE  WritesResponse(r)
  <2>1. RespTruth[r] \in PollResponse
    BY <1>1, <1>8 DEF ForegroundDeleteResponse, ResponseStore
  <2>2. [RespTruth[r] EXCEPT !.deleting = TRUE] \in PollResponse
    BY <2>1 DEF PollResponse
  <2> QED BY <2>2, <1>8 DEF ForegroundDeleteResponse
<1>9. (\E p \in Polls : WritesPoll(p)) \/ (\E r \in Responses : WritesResponse(r))
  <2> HIDE DEF WritesPoll, WritesResponse
  <2> QED BY <1>2, <1>3, <1>4, <1>5, <1>6, <1>7, <1>8 DEF UserStep
<1> QED BY <1>9

(* Users, the garbage collector and the clock.                              *)
LEMMA UserStepType ==
    ASSUME ApiTypeOK, UserStep
    PROVE  ApiTypeOK'
<1>1. \E kind : UserOp(kind)
  BY DEF UserStep, CreatePoll, UpdatePoll, DeletePoll, CreateResponse,
     UpdateResponse, DeleteResponse, ForegroundDeleteResponse
<1>2. now' \in 0..MaxTime /\ ops' \in 0..MaxOps
  BY <1>1, BoundsAssumption DEF UserOp, ApiTypeOK
<1> QED BY <1>2, UserStepWrites, WritePollFacts, WriteResponseFacts DEF ApiTypeOK

LEMMA CollectGarbageType ==
    ASSUME ApiTypeOK, NEW r \in Responses, CollectGarbage(r)
    PROVE  ApiTypeOK'
BY WriteResponseFacts DEF CollectGarbage, ApiTypeOK

LEMMA TickType ==
    ASSUME ApiTypeOK, Tick
    PROVE  ApiTypeOK'
BY BoundsAssumption DEF Tick, ApiTypeOK
=============================================================================
