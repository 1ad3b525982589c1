--------------------------- MODULE ClosingProofs ----------------------------
(***************************************************************************)
(* What the Poll controller does about closing times, for every value of   *)
(* the constants: the deadline is not forgotten, and a closing is final.   *)
(***************************************************************************)
EXTENDS PollOperatorProofs

----------------------------------------------------------------------------
(* The invariant behind DeadlineArmed, likewise for the delayed entry of p. *)

DeadlineInHand(p) ==
    /\ pw.key = p
    /\ pw.poll = PollCache[p]
    /\ \/ pw.pc \in {"list", "patch"}
       \/ pw.pc = "requeue" /\ pw.desired.phase = PollCache[p].status.phase

DeadlineSet(p) ==
    /\ PollCache[p] # Nil
    /\ PollCache[p].status.phase = "Open"
    /\ PollCache[p].spec.closesAt # Nil
    /\ now < PollCache[p].spec.closesAt
    => timer[p] # Nil /\ timer[p] <= PollCache[p].spec.closesAt

DeadlineTracked ==
    \A p \in Polls :
       p \in pollQ \/ PollAwaited(p) \/ DeadlineInHand(p) \/ DeadlineSet(p)

----------------------------------------------------------------------------
(* The invariants behind ClosedIsFinal, of behaviours in which no Poll is   *)
(* deleted.                                                                 *)

PollsKept == \A p \in Polls : PollTruth[p] # Nil => PollTruth'[p] # Nil

PollsRemain == [][PollsKept]_vars

\* new is a later generation of a Poll than old, or the same, with its spec.
Succeeds(new, old) ==
    /\ old.generation <= new.generation
    /\ old.generation = new.generation => old.spec = new.spec

GenerationsOrdered ==
    \A p \in Polls : \A i, j \in 1..Len(pollV) :
       i <= j /\ pollV[i][p] # Nil =>
          pollV[j][p] # Nil /\ Succeeds(pollV[j][p], pollV[i][p])

\* The Ready conditions published for Poll p that the server or the cache holds.
Published(p) ==
    {pollV[i][p].status.ready : i \in {k \in 1..Len(pollV) : pollV[k][p] # Nil}} \ {Nil}

Reconciling == pw.pc \in {"list", "patch"}

\* What the worker holds is no newer than the cache, and what is published no
\* newer than what it holds.
HeldWasCached ==
    Reconciling =>
       /\ PollCache[pw.key] # Nil
       /\ Succeeds(PollCache[pw.key], pw.poll)
       /\ \A ready \in Published(pw.key) : ready.observedGeneration <= pw.poll.generation

\* ready is of a generation the cache has had, and if it closes p, then every
\* version of that generation is due to be closed.
WasDue(p, ready) ==
    /\ PollCache[p] # Nil
    /\ ready.observedGeneration <= PollCache[p].generation
    /\ ready.phase = "Closed" =>
          \A j \in 1..Len(pollV) :
             pollV[j][p] # Nil /\ pollV[j][p].generation = ready.observedGeneration
             => PastClosing(pollV[j][p].spec, now)

PublishedWasDue ==
    \A p \in Polls : \A ready \in Published(p) : WasDue(p, ready)

\* The worker closes a Poll only when it is due, and closes it again when its
\* closing is published.
ClosingKnown ==
    Reconciling =>
       /\ pw.desired.phase = "Closed" => PastClosing(pw.poll.spec, now)
       /\ pw.pc = "patch" =>
             pw.desired.ready = [phase |-> pw.desired.phase,
                                 observedGeneration |-> pw.poll.generation]
       /\ [phase |-> "Closed", observedGeneration |-> pw.poll.generation]
             \in Published(pw.key)
          => pw.desired.phase = "Closed"

ClosingTracked ==
    GenerationsOrdered /\ HeldWasCached /\ PublishedWasDue /\ ClosingKnown

----------------------------------------------------------------------------
(* The deadline *)

(* Times are numbers, so that an absent one is not mistaken for one.        *)
LEMMA DeadlineType ==
    ASSUME ApiTypeOK, NEW p \in Polls, PollCache[p] # Nil
    PROVE  PollCache[p] \in Poll /\ PollCache[p].spec.closesAt \in Nat \cup {Nil}
<1>1. PollCache[p] \in Poll
  BY SnapshotType DEF PollStore
<1> QED BY <1>1 DEF Poll, PollSpec

(* What is tracked stays so while the cached Poll, the worker and the       *)
(* delayed entry stay as they are.                                          *)
LEMMA DeadlineUndisturbed ==
    ASSUME ApiTypeOK, NEW p \in Polls,
           PollAwaited(p) \/ DeadlineInHand(p) \/ DeadlineSet(p),
           PollAwaited(p) => PollAwaited(p)',
           PollCache'[p] = PollCache[p], UNCHANGED pw, timer'[p] = timer[p],
           now \in Nat, now' \in Nat, now <= now'
    PROVE  PollAwaited(p)' \/ DeadlineInHand(p)' \/ DeadlineSet(p)'
<1>1. CASE DeadlineInHand(p)
  BY <1>1 DEF DeadlineInHand
<1>2. CASE DeadlineSet(p)
  <2> SUFFICES ASSUME PollCache[p] # Nil, PollCache[p].status.phase = "Open",
                      PollCache[p].spec.closesAt # Nil,
                      now' < PollCache[p].spec.closesAt
               PROVE  timer[p] # Nil /\ timer[p] <= PollCache[p].spec.closesAt
    BY DEF DeadlineSet
  <2>1. PollCache[p].spec.closesAt \in Nat
    BY DeadlineType
  <2>2. now < PollCache[p].spec.closesAt
    BY <2>1
  <2> QED BY <1>2, <2>2 DEF DeadlineSet
<1> QED BY <1>1, <1>2

(* An immediate add touches the delayed entries of its own keys only.       *)
LEMMA TimersOfOthers ==
    ASSUME PollCtlTypeOK, NEW keys, EnqueuePolls(keys), NEW p \in Polls, p \notin keys
    PROVE  timer'[p] = timer[p]
BY DEF EnqueuePolls, TimersAfterAdd, PollCtlTypeOK

LEMMA DeadlineDeliverPoll ==
    ASSUME TypeOK, DeadlineTracked, DeliverPoll
    PROVE  DeadlineTracked'
<1>1. ApiTypeOK /\ PollCtlTypeOK /\ now \in Nat /\ Len(pollV) > 1 /\ pollV \in Seq(PollStore)
  BY BoundsAssumption DEF TypeOK, ApiTypeOK, DeliverPoll
<1>2. /\ UNCHANGED <<now, pw>> /\ pollV' = Tail(pollV)
      /\ EnqueuePolls(ChangedIn(pollV[1], pollV[2]))
  BY DEF DeliverPoll
<1>3. SUFFICES ASSUME NEW p \in Polls, p \notin pollQ'
               PROVE  PollAwaited(p)' \/ DeadlineInHand(p)' \/ DeadlineSet(p)'
  BY DEF DeadlineTracked
<1>4. p \notin pollQ /\ p \notin ChangedIn(pollV[1], pollV[2])
  BY <1>2, <1>3 DEF EnqueuePolls
<1>5. PollCache'[p] = PollCache[p] /\ (PollAwaited(p) => PollAwaited(p)')
  BY <1>1, <1>2, <1>4, AwaitedAfterPollEvent
<1>6. timer'[p] = timer[p]
  BY <1>1, <1>2, <1>4, TimersOfOthers
<1> QED BY <1>1, <1>2, <1>4, <1>5, <1>6, DeadlineUndisturbed DEF DeadlineTracked

LEMMA DeadlineDeliverResponse ==
    ASSUME TypeOK, DeadlineTracked, DeliverResponse
    PROVE  DeadlineTracked'
<1>1. ApiTypeOK /\ PollCtlTypeOK /\ now \in Nat
  BY BoundsAssumption DEF TypeOK, ApiTypeOK
<1>2. PICK keys : EnqueuePolls(keys) /\ UNCHANGED <<pollV, now, pw>>
  BY DEF DeliverResponse
<1>3. SUFFICES ASSUME NEW p \in Polls, p \notin pollQ'
               PROVE  PollAwaited(p)' \/ DeadlineInHand(p)' \/ DeadlineSet(p)'
  BY DEF DeadlineTracked
<1>4. p \notin pollQ /\ p \notin keys
  BY <1>2, <1>3 DEF EnqueuePolls
<1>5. PollCache'[p] = PollCache[p] /\ (PollAwaited(p) => PollAwaited(p)')
  BY <1>2 DEF PollCache, PollAwaited
<1>6. timer'[p] = timer[p]
  BY <1>1, <1>2, <1>4, TimersOfOthers
<1> QED BY <1>1, <1>2, <1>4, <1>5, <1>6, DeadlineUndisturbed DEF DeadlineTracked

LEMMA DeadlineRestart ==
    ASSUME Restart
    PROVE  DeadlineTracked'
<1>1. PollCache' = PollTruth
  BY DEF Restart, PollCache
<1>2. ASSUME NEW p \in Polls
      PROVE  p \in pollQ' \/ PollCache'[p] = Nil
  BY <1>1 DEF Restart
<1> QED BY <1>2 DEF DeadlineTracked, DeadlineSet

LEMMA DeadlinePollGet ==
    ASSUME TypeOK, DeadlineTracked, NEW q \in Polls, PollGet(q)
    PROVE  DeadlineTracked'
<1>1. /\ UNCHANGED <<pollV, now, timer>> /\ pollQ' = pollQ \ {q} /\ pw.pc = "idle"
  BY DEF PollGet, apiVars
<1>2. PollCache' = PollCache
  BY <1>1 DEF PollCache
<1>3. SUFFICES ASSUME NEW p \in Polls, p \notin pollQ'
               PROVE  PollAwaited(p)' \/ DeadlineInHand(p)' \/ DeadlineSet(p)'
  BY DEF DeadlineTracked
<1>4. CASE p = q /\ PollCache[p] = Nil
  BY <1>2, <1>4 DEF DeadlineSet
<1>5. CASE p = q /\ PollCache[p] # Nil
  BY <1>2, <1>5 DEF PollGet, DeadlineInHand
<1>6. CASE p # q
  <2>1. PollAwaited(p) \/ DeadlineSet(p)
    BY <1>1, <1>3, <1>6 DEF DeadlineTracked, DeadlineInHand
  <2> QED BY <1>1, <1>2, <2>1 DEF PollAwaited, DeadlineSet
<1> QED BY <1>4, <1>5, <1>6

(* statusEqual compares phases: a Poll that need not be written has the     *)
(* phase that was computed.                                                 *)
LEMMA DeadlinePollList ==
    ASSUME TypeOK, DeadlineTracked, PollList
    PROVE  DeadlineTracked'
<1> DEFINE desired == WithTally(pw.key, pw.poll, pw.desired, RespCache)
<1>1. /\ UNCHANGED <<pollV, now, timer, pollQ>> /\ pw.pc = "list"
      /\ pw' = [pw EXCEPT !.desired = desired,
                          !.pc = IF StatusEqual(pw.poll.status, desired)
                                 THEN "requeue" ELSE "patch"]
  BY DEF PollList, apiVars
<1> HIDE DEF desired
<1>2. PollCache' = PollCache
  BY <1>1 DEF PollCache
<1>3. SUFFICES ASSUME NEW p \in Polls, p \notin pollQ'
               PROVE  PollAwaited(p)' \/ DeadlineInHand(p)' \/ DeadlineSet(p)'
  BY DEF DeadlineTracked
<1>4. CASE PollAwaited(p)
  BY <1>1, <1>4 DEF PollAwaited
<1>5. CASE DeadlineSet(p)
  BY <1>1, <1>2, <1>5 DEF DeadlineSet
<1>6. CASE DeadlineInHand(p)
  <2>1. /\ pw'.key = p /\ pw'.poll = PollCache[p] /\ pw'.desired = desired
        /\ pw'.pc = IF StatusEqual(pw.poll.status, desired) THEN "requeue" ELSE "patch"
    BY <1>1, <1>6 DEF DeadlineInHand, TypeOK, PollCtlTypeOK, PollWorker
  <2>2. StatusEqual(pw.poll.status, desired) => desired.phase = PollCache[p].status.phase
    BY <1>6 DEF StatusEqual, DeadlineInHand
  <2> QED BY <1>2, <2>1, <2>2 DEF DeadlineInHand
<1> QED BY <1>1, <1>3, <1>4, <1>5, <1>6 DEF DeadlineTracked

(* A patch that changes nothing leaves the published phase the desired one. *)
LEMMA DeadlinePollPatch ==
    ASSUME TypeOK, DeadlineTracked, PollPatch
    PROVE  DeadlineTracked'
<1>1. ApiTypeOK /\ PollCtlTypeOK
  BY DEF TypeOK
<1>2. /\ UNCHANGED <<now, pollQ, timer>> /\ pw.pc = "patch"
      /\ PollTruth[pw.key] # Nil /\ WritePoll(pw.key, PatchedPoll)
      /\ pw' = [pw EXCEPT !.pc = "requeue", !.poll = PatchedPoll]
  BY DEF PollPatch
<1>3. /\ pw.key \in Polls /\ pw.poll \in Poll /\ pw.desired \in PollStatus
      /\ PatchedPoll \in Poll
  BY <1>1, <1>2, PollWorkerFacts, PatchedPollType
<1>4. PollCache' = PollCache /\ \A p \in Polls : PollAwaited(p) => PollAwaited(p)'
  BY <1>1, <1>2, <1>3, AwaitedAfterPollWrite
<1>5. SUFFICES ASSUME NEW p \in Polls, p \notin pollQ'
               PROVE  PollAwaited(p)' \/ DeadlineInHand(p)' \/ DeadlineSet(p)'
  BY DEF DeadlineTracked
<1>6. CASE PollAwaited(p)
  BY <1>4, <1>6
<1>7. CASE DeadlineSet(p)
  BY <1>2, <1>4, <1>7 DEF DeadlineSet
<1>8. CASE DeadlineInHand(p) /\ ~PollAwaited(p)
  <2>1. pw.key = p /\ pw.poll = PollCache[p]
    BY <1>8 DEF DeadlineInHand
  <2>2. PollAwaited(p)' \/ (PatchedPoll = PollCache[p] /\ PatchedPoll.status = pw.desired)
    <3>1. PollTruth[p] # Nil /\ WritePoll(p, PatchedPoll)
      BY <1>2, <2>1
    <3> QED BY <1>1, <1>2, <1>8, <2>1, <3>1, PatchInHand
  <2>3. CASE PatchedPoll = PollCache[p] /\ PatchedPoll.status = pw.desired
    <3>1. /\ pw'.pc = "requeue" /\ pw'.key = p /\ pw'.poll = PatchedPoll
          /\ pw'.desired = pw.desired
      BY <1>1, <1>2, <2>1 DEF PollCtlTypeOK, PollWorker
    <3> QED BY <1>4, <2>3, <3>1 DEF DeadlineInHand
  <2> QED BY <2>2, <2>3
<1> QED BY <1>2, <1>5, <1>6, <1>7, <1>8 DEF DeadlineTracked

LEMMA DeadlinePollFails ==
    ASSUME TypeOK, DeadlineTracked, PollPatchNotFound \/ PollPatchFault
    PROVE  DeadlineTracked'
<1>1. ApiTypeOK /\ PollCtlTypeOK /\ now \in Nat
  BY BoundsAssumption DEF TypeOK, ApiTypeOK
<1>2. /\ UNCHANGED now /\ pw.pc = "patch" /\ EnqueuePolls({pw.key})
      /\ \/ UNCHANGED pollV
         \/ PollTruth[pw.key] # Nil /\ WritePoll(pw.key, PatchedPoll)
  BY DEF PollPatchNotFound, PollPatchFault, PollReconcileFails, apiVars
<1>3. PollCache' = PollCache /\ \A p \in Polls : PollAwaited(p) => PollAwaited(p)'
  <2>1. CASE UNCHANGED pollV
    BY <2>1 DEF PollCache, PollAwaited
  <2>2. CASE PollTruth[pw.key] # Nil /\ WritePoll(pw.key, PatchedPoll)
    <3>1. pw.key \in Polls /\ PatchedPoll \in Poll
      BY <1>1, <1>2, <2>2, PollWorkerFacts, PatchedPollType
    <3> QED BY <1>1, <2>2, <3>1, AwaitedAfterPollWrite
  <2> QED BY <1>2, <2>1, <2>2
<1>4. SUFFICES ASSUME NEW p \in Polls, p \notin pollQ'
               PROVE  PollAwaited(p)' \/ DeadlineSet(p)'
  BY DEF DeadlineTracked
<1>5. p \notin pollQ /\ p # pw.key
  BY <1>2, <1>4 DEF EnqueuePolls
<1>6. PollAwaited(p) \/ DeadlineSet(p)
  BY <1>5 DEF DeadlineTracked, DeadlineInHand
<1>7. timer'[p] = timer[p]
  BY <1>1, <1>2, <1>5, TimersOfOthers
<1> QED BY <1>2, <1>3, <1>6, <1>7 DEF DeadlineSet

(* RequeueAfter: unless the Poll is closed or closing, an entry no later    *)
(* than closesAt is there afterwards.                                       *)
LEMMA DeadlinePollRequeue ==
    ASSUME TypeOK, DeadlineTracked, PollRequeue
    PROVE  DeadlineTracked'
<1> DEFINE closesAt == pw.poll.spec.closesAt
           waits == pw.desired.phase = "Open" /\ closesAt # Nil /\ now < closesAt
<1>1. /\ ApiTypeOK /\ PollCtlTypeOK /\ UNCHANGED <<pollV, now, pollQ>> /\ pw.pc = "requeue"
      /\ IF waits THEN EnqueuePollAt(pw.key, closesAt) ELSE UNCHANGED timer
  BY DEF PollRequeue, EnqueuePollAt, apiVars, TypeOK
<1>2. pw.key \in Polls /\ closesAt \in Nat \cup {Nil}
  BY <1>1, PollWorkerFacts DEF Poll, PollSpec
<1>3. PollCache' = PollCache
  BY <1>1 DEF PollCache
<1>4. SUFFICES ASSUME NEW p \in Polls, p \notin pollQ'
               PROVE  PollAwaited(p)' \/ DeadlineSet(p)'
  BY DEF DeadlineTracked
<1>5. timer \in [Polls -> Nat \cup {Nil}] /\ Nil \notin Nat /\ p \notin pollQ
  BY <1>1, <1>4, NilAssumption DEF PollCtlTypeOK
<1>6. CASE PollAwaited(p)
  BY <1>1, <1>6 DEF PollAwaited
<1>7. CASE DeadlineSet(p)
  <2>1. timer'[p] = timer[p] \/ timer[p] = Nil \/ (timer'[p] <= timer[p] /\ timer'[p] \in Nat)
    BY <1>1, <1>2, <1>5 DEF EnqueuePollAt
  <2>2. CASE PollCache[p] = Nil
    BY <1>3, <2>2 DEF DeadlineSet
  <2>3. CASE PollCache[p] # Nil
    <3>1. PollCache[p].spec.closesAt \in Nat \cup {Nil}
      BY <1>1, <2>3, DeadlineType
    <3> QED BY <1>1, <1>3, <1>5, <1>7, <2>1, <2>3, <3>1 DEF DeadlineSet
  <2> QED BY <2>2, <2>3
<1>8. CASE DeadlineInHand(p)
  <2>1. /\ pw.key = p /\ pw.poll = PollCache[p]
        /\ pw.desired.phase = PollCache[p].status.phase
    BY <1>1, <1>8 DEF DeadlineInHand
  <2>2. CASE ~waits
    BY <1>1, <1>3, <2>1, <2>2 DEF DeadlineSet
  <2>3. CASE waits
    <3>1. timer'[p] # Nil /\ timer'[p] <= closesAt
      <4>1. closesAt \in Nat /\ EnqueuePollAt(p, closesAt)
        BY <1>1, <1>2, <2>1, <2>3
      <4> HIDE DEF closesAt, waits
      <4> QED BY <1>5, <4>1 DEF EnqueuePollAt
    <3> QED BY <1>3, <2>1, <3>1 DEF DeadlineSet
  <2> QED BY <2>2, <2>3
<1> QED BY <1>1, <1>4, <1>6, <1>7, <1>8 DEF DeadlineTracked

LEMMA DeadlinePollTimer ==
    ASSUME TypeOK, DeadlineTracked, NEW q \in Polls, PollTimerFires(q)
    PROVE  DeadlineTracked'
<1>1. /\ ApiTypeOK /\ PollCtlTypeOK /\ now \in Nat
      /\ UNCHANGED <<pollV, now, pw>> /\ pollQ' = pollQ \cup {q}
      /\ timer' = [timer EXCEPT ![q] = Nil]
  BY BoundsAssumption DEF PollTimerFires, apiVars, TypeOK, ApiTypeOK
<1>2. SUFFICES ASSUME NEW p \in Polls, p \notin pollQ'
               PROVE  PollAwaited(p)' \/ DeadlineInHand(p)' \/ DeadlineSet(p)'
  BY DEF DeadlineTracked
<1>3. p \notin pollQ /\ timer'[p] = timer[p]
  BY <1>1, <1>2 DEF PollCtlTypeOK
<1>4. PollCache'[p] = PollCache[p] /\ (PollAwaited(p) => PollAwaited(p)')
  BY <1>1 DEF PollCache, PollAwaited
<1> QED BY <1>1, <1>3, <1>4, DeadlineUndisturbed DEF DeadlineTracked

(* The inductive invariant of the deadline, relative to TypeOK: every Poll  *)
(* is queued, or awaited by the cache, or in the worker's hands, or has its *)
(* delayed entry if it needs one (poll_controller.go:104-112).              *)
THEOREM DeadlineAlwaysTracked == Spec => []DeadlineTracked
<1>1. Init => DeadlineTracked
  BY DEF Init, ApiInit, PollCache, DeadlineTracked, DeadlineSet
<1>2. TypeOK /\ DeadlineTracked /\ [Next]_vars => DeadlineTracked'
  <2> SUFFICES ASSUME TypeOK, DeadlineTracked, [Next]_vars PROVE DeadlineTracked'
    OBVIOUS
  <2>1. ApiTypeOK /\ now \in Nat /\ Len(pollV) \in Nat
    BY BoundsAssumption DEF TypeOK, ApiTypeOK
  <2>2. CASE Environment \/ ResponseControllerStep
    <3>1. /\ Len(pollV) <= Len(pollV') /\ Len(pollV') \in Nat /\ Len(pollV) >= 1
          /\ \A i \in 1..Len(pollV) : pollV'[i] = pollV[i]
          /\ UNCHANGED <<pollQ, pw>> /\ now <= now' /\ now' \in Nat
      BY <2>1, <2>2, StreamOnlyGrows DEF ApiTypeOK
    <3>2. UNCHANGED timer
      BY <2>2 DEF Environment, ResponseControllerStep, RespWorkerStep, RespGet,
         RespGetPoll, EnsureOwnerReference, Validate, RespPatch, RespWriteNotFound,
         RespWriteFault, HandlePollEvent, pollCtlVars
    <3>3. PollCache' = PollCache /\ \A p \in Polls : PollAwaited(p) => PollAwaited(p)'
      BY <2>1, <3>1 DEF PollCache, PollAwaited
    <3> QED BY <2>1, <3>1, <3>2, <3>3, DeadlineUndisturbed DEF DeadlineTracked
  <2>3. CASE DeliverPoll
    BY <2>3, DeadlineDeliverPoll
  <2>4. CASE DeliverResponse
    BY <2>4, DeadlineDeliverResponse
  <2>5. CASE PollControllerStep
    BY <2>5, DeadlinePollGet, DeadlinePollList, DeadlinePollPatch, DeadlinePollFails,
       DeadlinePollRequeue, DeadlinePollTimer DEF PollControllerStep, PollWorkerStep
  <2>6. CASE Restart
    BY <2>6, DeadlineRestart
  <2>7. CASE UNCHANGED vars
    <3>1. /\ UNCHANGED <<pollV, timer, pollQ, pw, now>> /\ PollCache' = PollCache
          /\ \A p \in Polls : PollAwaited(p) => PollAwaited(p)'
      BY <2>7 DEF vars, PollCache, PollAwaited
    <3> QED BY <2>1, <3>1, DeadlineUndisturbed DEF DeadlineTracked
  <2> QED BY <2>2, <2>3, <2>4, <2>5, <2>6, <2>7 DEF Next
<1> QED BY <1>1, <1>2, TypeCorrect, PTL DEF Spec

(* However steps, faults and restarts interleave, and whether or not an     *)
(* immediate add absorbs a delayed one: an Open Poll whose closing time is  *)
(* ahead and for which nothing is left to do will be looked at by then      *)
(* (poll_controller.go:104-109).                                            *)
THEOREM DeadlineNeverForgotten == Spec => []DeadlineArmed
<1>1. DeadlineTracked => DeadlineArmed
  <2> SUFFICES ASSUME DeadlineTracked, NEW p \in Polls, PollQuiet(p)
               PROVE  /\ PollTruth[p] # Nil
                      /\ PollTruth[p].status.phase = "Open"
                      /\ PollTruth[p].spec.closesAt # Nil
                      /\ now < PollTruth[p].spec.closesAt
                      => timer[p] # Nil /\ timer[p] <= PollTruth[p].spec.closesAt
    BY DEF DeadlineArmed
  <2>1. PollTruth = PollCache /\ ~PollAwaited(p) /\ p \notin pollQ /\ ~DeadlineInHand(p)
    BY DEF PollQuiet, Drained, PollTruth, PollCache, PollAwaited, PollBusy, DeadlineInHand
  <2> QED BY <2>1 DEF DeadlineTracked, DeadlineSet
<1> QED BY <1>1, DeadlineAlwaysTracked, PTL
----------------------------------------------------------------------------
(* The versions of a Poll *)

(* What the comparisons of versions are about has the declared type.        *)
LEMMA VersionType ==
    ASSUME ApiTypeOK, NEW p \in Polls, NEW i \in 1..Len(pollV), pollV[i][p] # Nil
    PROVE  /\ pollV[i][p] \in Poll /\ pollV[i][p].generation \in Nat
           /\ pollV[i][p].spec.closesAt \in Nat \cup {Nil}
           /\ pollV[i][p].status.ready # Nil =>
                 pollV[i][p].status.ready.observedGeneration \in Nat
<1>1. pollV[i] \in PollStore
  BY DEF ApiTypeOK
<1>2. pollV[i][p] \in Poll
  BY <1>1 DEF PollStore
<1> QED BY <1>2 DEF Poll, PollSpec, PollStatus, ReadyCondition

(* A write of a successor, or of the first version, keeps the order.        *)
LEMMA OrderedAfterWrite ==
    ASSUME ApiTypeOK, GenerationsOrdered,
           NEW p \in Polls, NEW obj \in Poll, WritePoll(p, obj),
           PollTruth[p] # Nil => Succeeds(obj, PollTruth[p])
    PROVE  GenerationsOrdered'
<1> SUFFICES ASSUME NEW q \in Polls, NEW i \in 1..Len(pollV'), NEW j \in 1..Len(pollV'),
                    i <= j, pollV'[i][q] # Nil
             PROVE  pollV'[j][q] # Nil /\ Succeeds(pollV'[j][q], pollV'[i][q])
  BY DEF GenerationsOrdered, Succeeds
<1>1. Len(pollV) \in Nat /\ Len(pollV) \in 1..Len(pollV) /\ PollTruth = pollV[Len(pollV)]
  BY EndsOfStream
<1>2. obj # Nil /\ obj.generation \in Nat
  BY NilAssumption DEF Poll
<1>3. CASE j \in 1..Len(pollV) /\ pollV'[j] = pollV[j]
  <2>1. i \in 1..Len(pollV) /\ pollV'[i] = pollV[i]
    BY <1>1, <1>3, VersionsAfterWrite
  <2> QED BY <1>3, <2>1 DEF GenerationsOrdered
<1>4. CASE i = j /\ j = Len(pollV) + 1
  <2>1. pollV'[i][q] = obj \/ pollV'[i][q] = PollTruth[q]
    BY <1>1, <1>4, VersionsAfterWrite
  <2>2. pollV'[i][q].generation \in Nat
    BY <1>1, <1>2, <2>1, VersionType
  <2> QED BY <1>4, <2>2 DEF Succeeds
<1>5. CASE i # j /\ j = Len(pollV) + 1
  <2>1. i \in 1..Len(pollV) /\ pollV'[i] = pollV[i] /\ i <= Len(pollV)
    BY <1>1, <1>5, VersionsAfterWrite
  <2>2. PollTruth[q] # Nil /\ Succeeds(PollTruth[q], pollV[i][q])
    BY <1>1, <2>1 DEF GenerationsOrdered
  <2>3. pollV[i][q].generation \in Nat /\ PollTruth[q].generation \in Nat
    BY <1>1, <2>1, <2>2, VersionType
  <2>4. CASE q # p
    <3>1. pollV'[j][q] = PollTruth[q]
      BY <1>1, <1>5, <2>4, VersionsAfterWrite
    <3> QED BY <2>1, <2>2, <3>1
  <2>5. CASE q = p
    <3>1. pollV'[j][q] = obj
      BY <1>1, <1>5, <2>5, VersionsAfterWrite
    <3> QED BY <1>2, <2>1, <2>2, <2>3, <2>5, <3>1 DEF Succeeds
  <2> QED BY <2>4, <2>5
<1> QED BY <1>1, <1>3, <1>4, <1>5, VersionsAfterWrite

(* What a write publishes was published, or is what it writes.              *)
LEMMA PublishedAfterWrite ==
    ASSUME ApiTypeOK, NEW p \in Polls, NEW obj \in Poll, WritePoll(p, obj), NEW q \in Polls
    PROVE  /\ Published(q)' \subseteq Published(q) \cup {obj.status.ready}
           /\ q # p => Published(q)' \subseteq Published(q)
<1>1. Len(pollV) \in Nat /\ Len(pollV) \in 1..Len(pollV) /\ PollTruth = pollV[Len(pollV)]
  BY EndsOfStream
<1>2. ASSUME NEW i \in 1..Len(pollV'), pollV'[i][q] # Nil, pollV'[i][q].status.ready # Nil
      PROVE  \/ pollV'[i][q].status.ready \in Published(q)
             \/ q = p /\ pollV'[i][q].status.ready = obj.status.ready
  <2>1. CASE q = p /\ pollV'[i][q] = obj
    BY <2>1
  <2>2. CASE pollV'[i][q] = PollTruth[q]
    BY <1>1, <1>2, <2>2 DEF Published
  <2>3. CASE i \in 1..Len(pollV) /\ pollV'[i] = pollV[i]
    BY <1>2, <2>3 DEF Published
  <2> QED BY <2>1, <2>2, <2>3, VersionsAfterWrite
<1> QED BY <1>2 DEF Published

(* What is published is of some stored or cached version.                   *)
LEMMA PublishedFacts ==
    ASSUME ApiTypeOK, NEW p \in Polls, NEW ready \in Published(p)
    PROVE  ready # Nil /\ ready.observedGeneration \in Nat
<1>1. PICK i \in 1..Len(pollV) :
         pollV[i][p] # Nil /\ ready = pollV[i][p].status.ready /\ ready # Nil
  BY DEF Published
<1> QED BY <1>1, VersionType

(* A write keeps every closing due that was, unless it adds a version of    *)
(* its generation that is not.                                              *)
LEMMA DueAfterWrite ==
    ASSUME ApiTypeOK, PublishedWasDue, UNCHANGED now,
           NEW p \in Polls, NEW obj \in Poll, WritePoll(p, obj),
           \/ /\ PollTruth[p] # Nil /\ obj.generation = PollTruth[p].generation
              /\ obj.spec = PollTruth[p].spec
           \/ PollCache[p] # Nil => PollCache[p].generation < obj.generation,
           obj.status.ready \in Published(p) \cup {Nil} \/ WasDue(p, obj.status.ready),
           obj.status.ready # Nil => obj.status.ready.observedGeneration \in Nat
    PROVE  PublishedWasDue'
<1> SUFFICES ASSUME NEW q \in Polls, NEW ready \in Published(q)'
             PROVE  WasDue(q, ready)'
  BY DEF PublishedWasDue
<1>1. /\ Len(pollV) \in Nat /\ 1 \in 1..Len(pollV) /\ Len(pollV) \in 1..Len(pollV)
      /\ PollCache = pollV[1] /\ PollTruth = pollV[Len(pollV)] /\ PollCache' = PollCache
  BY EndsOfStream, AwaitedAfterPollWrite
<1>2. ready # Nil
  BY DEF Published
<1>3. WasDue(q, ready) /\ ready.observedGeneration \in Nat
  <2>1. CASE ready \in Published(q)
    BY <2>1, PublishedFacts DEF PublishedWasDue
  <2>2. CASE ready \notin Published(q)
    BY <1>2, <2>2, PublishedAfterWrite
  <2> QED BY <2>1, <2>2
<1>4. PollCache[q] # Nil /\ PollCache[q].generation \in Nat
      /\ ready.observedGeneration <= PollCache[q].generation
  BY <1>1, <1>3, VersionType DEF WasDue
<1>5. ASSUME ready.phase = "Closed", NEW j \in 1..Len(pollV'), pollV'[j][q] # Nil,
             pollV'[j][q].generation = ready.observedGeneration
      PROVE  PastClosing(pollV'[j][q].spec, now)
  <2>1. ASSUME NEW k \in 1..Len(pollV), pollV[k][q] # Nil,
               pollV[k][q].generation = ready.observedGeneration
        PROVE  PastClosing(pollV[k][q].spec, now)
    BY <1>3, <1>5, <2>1 DEF WasDue
  <2>2. CASE q = p /\ pollV'[j][q] = obj
    <3>1. obj.generation \in Nat
      BY DEF Poll
    <3>2. PollTruth[p] # Nil /\ obj.generation = PollTruth[p].generation
          /\ obj.spec = PollTruth[p].spec
      BY <1>4, <1>5, <2>2, <3>1
    <3> QED BY <1>1, <1>5, <2>1, <2>2, <3>2
  <2>3. CASE pollV'[j][q] = PollTruth[q]
    BY <1>1, <1>5, <2>1, <2>3
  <2>4. CASE j \in 1..Len(pollV) /\ pollV'[j] = pollV[j]
    BY <1>5, <2>1, <2>4
  <2> QED BY <2>2, <2>3, <2>4, VersionsAfterWrite
<1> QED BY <1>1, <1>4, <1>5 DEF WasDue

(* What the worker holds it may go on with after a write that publishes     *)
(* nothing new.                                                             *)
LEMMA HeldAfterWrite ==
    ASSUME ApiTypeOK, PollCtlTypeOK, HeldWasCached, ClosingKnown,
           NEW p \in Polls, NEW obj \in Poll, WritePoll(p, obj), UNCHANGED <<pw, now>>,
           obj.status.ready \in Published(p) \cup {Nil}
    PROVE  HeldWasCached' /\ ClosingKnown'
<1>1. PollCache' = PollCache
  BY AwaitedAfterPollWrite
<1>2. ASSUME Reconciling PROVE Published(pw.key)' \subseteq Published(pw.key)
  <2>1. pw.key \in Polls /\ UNCHANGED pw
    BY <1>2, PollWorkerFacts DEF Reconciling
  <2>2. \A q \in Polls : Published(q)' \subseteq Published(q)
    <3>1. \A q \in Polls : Nil \notin Published(q)'
      BY DEF Published
    <3> QED BY <3>1, PublishedAfterWrite
  <2> QED BY <2>1, <2>2 DEF Published
<1>3. UNCHANGED Reconciling
  BY DEF Reconciling
<1>4. HeldWasCached'
  BY <1>1, <1>2, <1>3 DEF HeldWasCached, Succeeds
<1>5. ClosingKnown'
  BY <1>2, <1>3 DEF ClosingKnown, PastClosing
<1> QED BY <1>4, <1>5

----------------------------------------------------------------------------
(* A closing is final *)

(* Time passes, and the cache moves on by k versions: it then holds         *)
(* successors of what it held.                                              *)
LEMMA ClosingMovesOn ==
    ASSUME ApiTypeOK, PollCtlTypeOK, ClosingTracked,
           NEW k \in Nat, k < Len(pollV), Len(pollV') = Len(pollV) - k,
           \A i \in 1..Len(pollV') : pollV'[i] = pollV[i + k],
           now' \in Nat, now <= now'
    PROVE  /\ GenerationsOrdered' /\ PublishedWasDue'
           /\ UNCHANGED pw \/ ~Reconciling' => HeldWasCached' /\ ClosingKnown'
<1>1. /\ Len(pollV) \in Nat /\ Len(pollV') \in Nat /\ 1 \in 1..Len(pollV)
      /\ PollCache = pollV[1] /\ PollCache' = pollV[1 + k] /\ 1 + k \in 1..Len(pollV)
  BY EndsOfStream DEF PollCache
<1>2. \A i \in 1..Len(pollV') : i + k \in 1..Len(pollV)
  BY <1>1
<1>3. now \in Nat
  BY BoundsAssumption DEF ApiTypeOK
<1>4. GenerationsOrdered'
  <2> SUFFICES ASSUME NEW p \in Polls, NEW i \in 1..Len(pollV'), NEW j \in 1..Len(pollV'),
                      i <= j, pollV'[i][p] # Nil
               PROVE  pollV'[j][p] # Nil /\ Succeeds(pollV'[j][p], pollV'[i][p])
    BY DEF GenerationsOrdered, Succeeds
  <2>1. /\ i + k \in 1..Len(pollV) /\ j + k \in 1..Len(pollV) /\ i + k <= j + k
        /\ pollV'[i] = pollV[i + k] /\ pollV'[j] = pollV[j + k]
    BY <1>1, <1>2
  <2> QED BY <2>1 DEF ClosingTracked, GenerationsOrdered
<1>5. ASSUME NEW p \in Polls PROVE Published(p)' \subseteq Published(p)
  BY <1>2 DEF Published
<1>6. ASSUME NEW p \in Polls, PollCache[p] # Nil
      PROVE  /\ PollCache'[p] # Nil /\ Succeeds(PollCache'[p], PollCache[p])
             /\ PollCache[p].generation \in Nat /\ PollCache'[p].generation \in Nat
  <2>1. PollCache'[p] # Nil /\ Succeeds(PollCache'[p], PollCache[p])
    BY <1>1, <1>6 DEF ClosingTracked, GenerationsOrdered
  <2> QED BY <1>1, <1>6, <2>1, VersionType
<1>7. ASSUME NEW p \in Polls, NEW i \in 1..Len(pollV), pollV[i][p] # Nil,
             PastClosing(pollV[i][p].spec, now)
      PROVE  PastClosing(pollV[i][p].spec, now')
  <2>1. pollV[i][p].spec.closesAt \in Nat \cup {Nil}
    BY <1>7, VersionType
  <2> QED BY <1>3, <1>7, <2>1 DEF PastClosing
<1>8. PublishedWasDue'
  <2> SUFFICES ASSUME NEW p \in Polls, NEW ready \in Published(p)'
               PROVE  WasDue(p, ready)'
    BY DEF PublishedWasDue
  <2>1. WasDue(p, ready) /\ ready.observedGeneration \in Nat
    BY <1>5, PublishedFacts DEF ClosingTracked, PublishedWasDue
  <2>2. /\ PollCache'[p] # Nil
        /\ ready.observedGeneration <= PollCache'[p].generation
    BY <1>6, <2>1 DEF WasDue, Succeeds
  <2>3. ASSUME ready.phase = "Closed", NEW j \in 1..Len(pollV'), pollV'[j][p] # Nil,
               pollV'[j][p].generation = ready.observedGeneration
        PROVE  PastClosing(pollV'[j][p].spec, now')
    BY <1>2, <1>7, <2>1, <2>3 DEF WasDue
  <2> QED BY <2>2, <2>3 DEF WasDue
<1>9. ASSUME UNCHANGED pw PROVE HeldWasCached' /\ ClosingKnown'
  <2> SUFFICES ASSUME Reconciling PROVE HeldWasCached' /\ ClosingKnown'
    BY <1>9 DEF HeldWasCached, ClosingKnown, Reconciling
  <2>1. pw.key \in Polls /\ pw.poll \in Poll /\ pw.poll.generation \in Nat
        /\ pw.poll.spec.closesAt \in Nat \cup {Nil}
    BY PollWorkerFacts DEF Reconciling, Poll, PollSpec
  <2>2. Published(pw.key)' \subseteq Published(pw.key)
    BY <1>5, <1>9, <2>1 DEF Published
  <2>3. HeldWasCached'
    <3>1. PollCache[pw.key] # Nil /\ Succeeds(PollCache[pw.key], pw.poll)
      BY DEF ClosingTracked, HeldWasCached
    <3>2. PollCache'[pw.key] # Nil /\ Succeeds(PollCache'[pw.key], pw.poll)
      BY <1>6, <2>1, <3>1 DEF Succeeds
    <3> QED BY <1>9, <2>2, <3>2 DEF ClosingTracked, HeldWasCached, Succeeds
  <2>4. ClosingKnown'
    <3>1. PastClosing(pw.poll.spec, now) => PastClosing(pw.poll.spec, now')
      BY <1>3, <2>1 DEF PastClosing
    <3> QED BY <1>9, <2>2, <3>1 DEF ClosingTracked, ClosingKnown, PastClosing
  <2> QED BY <2>3, <2>4
<1>10. ~Reconciling' => HeldWasCached' /\ ClosingKnown'
  BY DEF HeldWasCached, ClosingKnown, Reconciling
<1> QED BY <1>4, <1>8, <1>9, <1>10

(* What users write: a Poll is created where no version of one is left, and *)
(* an edit makes a later generation.                                        *)
LEMMA ClosingUser ==
    ASSUME TypeOK, ClosingTracked, UserStep, UNCHANGED pw, PollsKept
    PROVE  ClosingTracked'
<1>1. ApiTypeOK /\ PollCtlTypeOK /\ UNCHANGED now /\ now \in Nat
  <2>1. UNCHANGED now
    BY DEF UserStep, CreatePoll, UpdatePoll, DeletePoll, CreateResponse,
       UpdateResponse, DeleteResponse, ForegroundDeleteResponse, UserOp
  <2> QED BY <2>1, BoundsAssumption DEF TypeOK, ApiTypeOK
<1>2. /\ Len(pollV) \in Nat /\ 1 \in 1..Len(pollV) /\ Len(pollV) \in 1..Len(pollV)
      /\ PollCache = pollV[1] /\ PollTruth = pollV[Len(pollV)]
  BY <1>1, EndsOfStream
<1>3. ASSUME NEW p \in Polls, NEW spec \in PollSpecs, CreatePoll(p, spec)
      PROVE  ClosingTracked'
  <2> DEFINE obj == [uid |-> ops + 1, generation |-> 1, spec |-> spec,
                     status |-> EmptyPollStatus]
  <2>1. PollTruth[p] = Nil /\ WritePoll(p, obj)
    BY <1>3 DEF CreatePoll
  <2>2. obj \in Poll /\ obj.status.ready = Nil
    <3>1. EmptyPollStatus \in PollStatus /\ EmptyPollStatus.ready = Nil
      BY DEF EmptyPollStatus, PollStatus, PollPhases, QuestionResults
    <3> QED BY <1>1, <3>1, SpecsAssumption, BoundsAssumption DEF Poll, ApiTypeOK
  <2> HIDE DEF obj
  <2>3. PollCache[p] = Nil
    BY <1>2, <2>1 DEF ClosingTracked, GenerationsOrdered
  <2>4. GenerationsOrdered'
    BY <1>1, <2>1, <2>2, OrderedAfterWrite DEF ClosingTracked
  <2>5. PublishedWasDue'
    BY <1>1, <2>1, <2>2, <2>3, DueAfterWrite DEF ClosingTracked
  <2> QED BY <1>1, <2>1, <2>2, <2>4, <2>5, HeldAfterWrite DEF ClosingTracked
<1>4. ASSUME NEW p \in Polls, NEW spec \in PollSpecs, UpdatePoll(p, spec)
      PROVE  ClosingTracked'
  <2> DEFINE old == PollTruth[p]
             obj == [old EXCEPT !.spec = spec, !.generation = @ + 1]
  <2>1. old # Nil /\ WritePoll(p, obj)
    BY <1>4 DEF UpdatePoll
  <2>2. old \in Poll /\ old.generation \in Nat
    BY <1>1, <1>2, <2>1, VersionType
  <2>3. obj \in Poll /\ obj.generation = old.generation + 1 /\ obj.status = old.status
    BY <2>2, SpecsAssumption, EditedPollType DEF Poll
  <2>4. old.status.ready \in Published(p) \cup {Nil}
    BY <1>2, <2>1 DEF Published
  <2>5. PollCache[p] # Nil => PollCache[p].generation \in Nat
                              /\ PollCache[p].generation <= old.generation
    BY <1>1, <1>2, VersionType DEF ClosingTracked, GenerationsOrdered, Succeeds
  <2> HIDE DEF old, obj
  <2>6. GenerationsOrdered'
    <3>1. Succeeds(obj, old)
      BY <2>2, <2>3 DEF Succeeds
    <3> QED BY <1>1, <2>1, <2>3, <3>1, OrderedAfterWrite DEF ClosingTracked, old
  <2>7. PublishedWasDue'
    <3>1. PollCache[p] # Nil => PollCache[p].generation < obj.generation
      BY <2>2, <2>3, <2>5
    <3>2. obj.status.ready # Nil => obj.status.ready.observedGeneration \in Nat
      BY <1>1, <2>3, <2>4, PublishedFacts
    <3> QED BY <1>1, <2>1, <2>3, <2>4, <3>1, <3>2, DueAfterWrite DEF ClosingTracked
  <2> QED BY <1>1, <2>1, <2>3, <2>4, <2>6, <2>7, HeldAfterWrite DEF ClosingTracked
<1>5. ASSUME NEW p \in Polls, DeletePoll(p)
      PROVE  FALSE
  <2>1. PollTruth[p] # Nil /\ WritePoll(p, Nil)
    BY <1>5 DEF DeletePoll
  <2> QED BY <1>1, <2>1, WritePollFacts DEF PollsKept
<1>6. CASE UNCHANGED pollV
  <2>1. Len(pollV') = Len(pollV) - 0 /\ \A i \in 1..Len(pollV') : pollV'[i] = pollV[i + 0]
    BY <1>2, <1>6
  <2> QED BY <1>1, <1>2, <2>1, ClosingMovesOn DEF ClosingTracked
<1>7. \/ UNCHANGED pollV
      \/ \E p \in Polls : \/ \E spec \in PollSpecs : CreatePoll(p, spec) \/ UpdatePoll(p, spec)
                          \/ DeletePoll(p)
  BY DEF UserStep, CreateResponse, UpdateResponse, DeleteResponse, ForegroundDeleteResponse
<1> QED BY <1>3, <1>4, <1>5, <1>6, <1>7

(* What the status patch does to the condition: it keeps the stored one, or *)
(* publishes the generation the worker holds, and closes it only when due.  *)
LEMMA PatchedReady ==
    ASSUME TypeOK, ClosingTracked, pw.pc = "patch", NEW p \in Polls, pw.key = p,
           PollTruth[p] # Nil
    PROVE  /\ PatchedPoll \in Poll
           /\ PatchedPoll.generation = PollTruth[p].generation
           /\ PatchedPoll.spec = PollTruth[p].spec
           /\ \/ PatchedPoll.status.ready = PollTruth[p].status.ready
              \/ PatchedPoll.status.ready = pw.desired.ready
<1>1. PatchedPoll \in Poll
  BY PatchedPollType DEF TypeOK
<1>2. PollTruth[p] \in Poll
  BY SnapshotType DEF TypeOK, PollStore
<1>3. PatchedPoll = [PollTruth[p] EXCEPT
         !.status = MergePollStatus(PollTruth[p].status, pw.poll.status, pw.desired)]
  BY DEF PatchedPoll
<1> QED BY <1>1, <1>2, <1>3 DEF Poll, MergePollStatus, Patched

(* The patch publishes what is due, and the worker goes on to something     *)
(* else.                                                                    *)
LEMMA ClosingPatch ==
    ASSUME TypeOK, ClosingTracked, pw.pc = "patch", PollTruth[pw.key] # Nil,
           WritePoll(pw.key, PatchedPoll), ~Reconciling', UNCHANGED now
    PROVE  ClosingTracked'
<1> DEFINE p == pw.key
           ready == PatchedPoll.status.ready
<1>1. /\ ApiTypeOK /\ PollCtlTypeOK /\ p \in Polls /\ pw.poll \in Poll
      /\ pw.poll.generation \in Nat /\ pw.desired \in PollStatus
  BY PollWorkerFacts DEF TypeOK, Poll
<1>2. /\ Len(pollV) \in Nat /\ 1 \in 1..Len(pollV) /\ Len(pollV) \in 1..Len(pollV)
      /\ PollCache = pollV[1] /\ PollTruth = pollV[Len(pollV)]
  BY <1>1, EndsOfStream
<1>3. /\ PatchedPoll \in Poll /\ PatchedPoll.generation = PollTruth[p].generation
      /\ PatchedPoll.spec = PollTruth[p].spec
      /\ ready = PollTruth[p].status.ready \/ ready = pw.desired.ready
  BY <1>1, PatchedReady
<1>4. PollTruth[p].generation \in Nat
  BY <1>1, <1>2, VersionType
<1>5. /\ PollCache[p] # Nil /\ Succeeds(PollCache[p], pw.poll)
      /\ pw.desired.phase = "Closed" => PastClosing(pw.poll.spec, now)
      /\ pw.desired.ready = [phase |-> pw.desired.phase,
                             observedGeneration |-> pw.poll.generation]
  BY DEF ClosingTracked, HeldWasCached, ClosingKnown, Reconciling
<1>6. ready \in Published(p) \cup {Nil} \/ WasDue(p, ready)
  <2>1. CASE ready = PollTruth[p].status.ready
    BY <1>2, <2>1 DEF Published
  <2>2. CASE ready = pw.desired.ready
    <3>1. ready.observedGeneration = pw.poll.generation /\ ready.phase = pw.desired.phase
      BY <1>5, <2>2
    <3>2. ASSUME ready.phase = "Closed", NEW j \in 1..Len(pollV), pollV[j][p] # Nil,
                 pollV[j][p].generation = ready.observedGeneration
          PROVE  PastClosing(pollV[j][p].spec, now)
      <4>1. Succeeds(pollV[j][p], PollCache[p])
        BY <1>1, <1>2, <1>5 DEF ClosingTracked, GenerationsOrdered
      <4>2. PollCache[p].generation \in Nat /\ pollV[j][p].generation \in Nat
        BY <1>1, <1>2, <1>5, <3>2, VersionType
      <4>3. pollV[j][p].spec = pw.poll.spec
        BY <1>1, <1>5, <3>1, <3>2, <4>1, <4>2 DEF Succeeds
      <4> QED BY <1>5, <3>1, <3>2, <4>3
    <3> QED BY <1>5, <3>1, <3>2 DEF WasDue, Succeeds
  <2> QED BY <1>3, <2>1, <2>2
<1>7. ready # Nil => ready.observedGeneration \in Nat
  BY <1>3 DEF Poll, PollStatus, ReadyCondition
<1>8. WritePoll(p, PatchedPoll) /\ PollTruth[p] # Nil
  OBVIOUS
<1> HIDE DEF p, ready
<1>9. PublishedWasDue'
  BY <1>1, <1>3, <1>6, <1>7, <1>8, DueAfterWrite DEF ClosingTracked, ready
<1>10. GenerationsOrdered'
  <2>1. Succeeds(PatchedPoll, PollTruth[p])
    BY <1>3, <1>4 DEF Succeeds
  <2> QED BY <1>1, <1>3, <1>8, <2>1, OrderedAfterWrite DEF ClosingTracked
<1> QED BY <1>9, <1>10 DEF ClosingTracked, HeldWasCached, ClosingKnown, Reconciling

(* Reconcile starts from what the cache holds, and so from a generation at  *)
(* least as late as any that is published; if that one is closed, it is due *)
(* and computePhase closes it again.                                        *)
LEMMA ClosingPollGet ==
    ASSUME TypeOK, ClosingTracked, NEW p \in Polls, PollGet(p)
    PROVE  HeldWasCached' /\ ClosingKnown'
<1>1. UNCHANGED <<pollV, now>> /\ ApiTypeOK
  BY DEF PollGet, apiVars, TypeOK
<1>2. CASE PollCache[p] = Nil
  <2>1. ~Reconciling'
    BY <1>2 DEF PollGet, IdlePollWorker, Reconciling
  <2> QED BY <2>1 DEF HeldWasCached, ClosingKnown, Reconciling
<1>3. CASE PollCache[p] # Nil
  <2> DEFINE poll == PollCache[p]
  <2>1. /\ pw'.pc = "list" /\ pw'.key = p /\ pw'.poll = poll
        /\ pw'.desired = ComputePhase(poll.spec, poll.status, now)
    BY <1>3 DEF PollGet
  <2>2. poll \in Poll /\ poll.generation \in Nat /\ 1 \in 1..Len(pollV) /\ poll = pollV[1][p]
    BY <1>1, <1>3, EndsOfStream, VersionType
  <2>3. pw'.desired.phase = "Closed" <=> PastClosing(poll.spec, now)
    <3>1. poll.status \in PollStatus
      BY <2>2 DEF Poll
    <3> QED BY <2>1, <3>1 DEF ComputePhase, PollStatus
  <2>4. \A ready \in Published(p) : WasDue(p, ready)
    BY DEF ClosingTracked, PublishedWasDue
  <2>5. Published(p)' = Published(p) /\ PollCache' = PollCache
    BY <1>1 DEF Published, PollCache
  <2>6. Published(pw.key)' = Published(p)
    BY <1>1, <2>1 DEF Published
  <2> HIDE DEF poll
  <2>7. HeldWasCached'
    <3>1. Succeeds(poll, poll)
      BY <2>2 DEF Succeeds
    <3>2. \A ready \in Published(p) : ready.observedGeneration <= poll.generation
      BY <2>4 DEF WasDue, poll
    <3> QED BY <1>3, <2>1, <2>5, <2>6, <3>1, <3>2 DEF HeldWasCached, Succeeds, poll
  <2>8. ClosingKnown'
    <3>1. [phase |-> "Closed", observedGeneration |-> poll.generation] \in Published(p)
          => PastClosing(poll.spec, now)
      <4>1. SUFFICES ASSUME [phase |-> "Closed", observedGeneration |-> poll.generation]
                            \in Published(p)
                     PROVE  PastClosing(poll.spec, now)
        OBVIOUS
      <4>2. WasDue(p, [phase |-> "Closed", observedGeneration |-> poll.generation])
        BY <2>4, <4>1
      <4> QED BY <1>3, <2>2, <4>2 DEF WasDue, poll
    <3> QED BY <1>1, <2>1, <2>3, <2>6, <3>1 DEF ClosingKnown, PastClosing
  <2> QED BY <2>7, <2>8
<1> QED BY <1>2, <1>3

LEMMA ClosingPollList ==
    ASSUME TypeOK, ClosingTracked, PollList
    PROVE  HeldWasCached' /\ ClosingKnown'
<1> DEFINE desired == WithTally(pw.key, pw.poll, pw.desired, RespCache)
<1>1. /\ UNCHANGED <<pollV, now>> /\ pw.pc = "list" /\ pw.desired \in PollStatus
      /\ pw' = [pw EXCEPT !.desired = desired,
                          !.pc = IF StatusEqual(pw.poll.status, desired)
                                 THEN "requeue" ELSE "patch"]
  BY PollWorkerFacts DEF PollList, apiVars, TypeOK
<1>2. desired.phase = pw.desired.phase
      /\ desired.ready = [phase |-> pw.desired.phase,
                          observedGeneration |-> pw.poll.generation]
  BY <1>1 DEF WithTally, PollStatus
<1> HIDE DEF desired
<1>3. /\ pw'.key = pw.key /\ pw'.poll = pw.poll /\ pw'.desired = desired
      /\ pw'.pc \in {"requeue", "patch"}
  BY <1>1 DEF TypeOK, PollCtlTypeOK, PollWorker
<1>4. Published(pw.key)' = Published(pw.key) /\ PollCache' = PollCache
  BY <1>1, <1>3 DEF Published, PollCache
<1>5. Reconciling
  BY <1>1 DEF Reconciling
<1>6. HeldWasCached'
  BY <1>3, <1>4, <1>5 DEF ClosingTracked, HeldWasCached, Succeeds
<1>7. ClosingKnown'
  BY <1>1, <1>2, <1>3, <1>4, <1>5 DEF ClosingTracked, ClosingKnown, PastClosing
<1> QED BY <1>6, <1>7

(* The inductive invariant of closings, relative to TypeOK: generations are *)
(* ordered, the worker holds one no older than any published, and what is   *)
(* published as closed was due (poll_controller.go:116-139). It needs that  *)
(* no Poll is deleted: a patch names an object, not an incarnation of it,   *)
(* and one computed from a deleted Poll may land on its successor.          *)
THEOREM ClosingAlwaysTracked == Spec /\ PollsRemain => []ClosingTracked
<1>1. Init => ClosingTracked
  <2> SUFFICES ASSUME Init PROVE ClosingTracked
    OBVIOUS
  <2>1. Len(pollV) = 1 /\ \A p \in Polls : pollV[1][p] = Nil
    BY DEF Init, ApiInit
  <2>2. \A p \in Polls : Published(p) = {}
    BY <2>1 DEF Published
  <2>3. ~Reconciling
    BY DEF Init, PollCtlInit, IdlePollWorker, Reconciling
  <2> QED BY <2>1, <2>2, <2>3
          DEF ClosingTracked, GenerationsOrdered, HeldWasCached, PublishedWasDue, ClosingKnown
<1>2. TypeOK /\ ClosingTracked /\ [Next]_vars /\ [PollsKept]_vars => ClosingTracked'
  <2> SUFFICES ASSUME TypeOK, ClosingTracked, [Next]_vars, [PollsKept]_vars
               PROVE  ClosingTracked'
    OBVIOUS
  <2>1. /\ ApiTypeOK /\ PollCtlTypeOK /\ now \in Nat /\ Len(pollV) \in Nat
        /\ pollV \in Seq(PollStore) /\ Len(pollV) >= 1
    BY BoundsAssumption DEF TypeOK, ApiTypeOK
  <2>2. ASSUME UNCHANGED pollV, now' \in Nat, now <= now'
        PROVE  /\ GenerationsOrdered' /\ PublishedWasDue'
               /\ UNCHANGED pw \/ ~Reconciling' => ClosingTracked'
    <3>1. Len(pollV') = Len(pollV) - 0 /\ \A i \in 1..Len(pollV') : pollV'[i] = pollV[i + 0]
      BY <2>1, <2>2
    <3>2. 0 \in Nat /\ 0 < Len(pollV)
      BY <2>1
    <3>3. /\ GenerationsOrdered' /\ PublishedWasDue'
          /\ UNCHANGED pw \/ ~Reconciling' => HeldWasCached' /\ ClosingKnown'
      BY <2>1, <2>2, <3>1, <3>2, ClosingMovesOn
    <3> QED BY <3>3 DEF ClosingTracked
  <2>3. CASE UserStep /\ UNCHANGED pollCtlVars
    <3>1. PollsKept \/ UNCHANGED vars
      OBVIOUS
    <3>2. CASE UNCHANGED vars
      <4>1. UNCHANGED <<pollV, pw>> /\ now' = now
        BY <3>2 DEF vars
      <4> QED BY <2>1, <2>2, <4>1
    <3> QED BY <2>3, <3>1, <3>2, ClosingUser DEF pollCtlVars
  <2>4. CASE Environment /\ ~UserStep
    <3>1. UNCHANGED <<pollV, pw>> /\ now' \in Nat /\ now <= now'
      BY <2>1, <2>4 DEF Environment, CollectGarbage, Tick, pollCtlVars
    <3> QED BY <2>2, <3>1
  <2>5. CASE DeliverPoll
    <3>1. Len(pollV) > 1 /\ pollV' = Tail(pollV) /\ UNCHANGED <<now, pw>>
      BY <2>5 DEF DeliverPoll
    <3>2. Len(pollV') = Len(pollV) - 1 /\ \A i \in 1..Len(pollV') : pollV'[i] = pollV[i + 1]
      BY <2>1, <3>1
    <3> QED BY <2>1, <3>1, <3>2, ClosingMovesOn DEF ClosingTracked
  <2>6. CASE DeliverResponse
    BY <2>1, <2>2, <2>6 DEF DeliverResponse
  <2>7. ASSUME NEW p \in Polls, PollGet(p) PROVE ClosingTracked'
    BY <2>1, <2>2, <2>7, ClosingPollGet DEF ClosingTracked, PollGet, apiVars
  <2>8. CASE PollList
    BY <2>1, <2>2, <2>8, ClosingPollList DEF ClosingTracked, PollList, apiVars
  <2>9. CASE PollPatch
    <3>1. pw'.pc = "requeue"
      BY <2>1, <2>9 DEF PollPatch, PollCtlTypeOK, PollWorker
    <3> QED BY <2>9, <3>1, ClosingPatch DEF PollPatch, Reconciling
  <2>10. CASE PollPatchNotFound \/ PollPatchFault
    <3>1. ~Reconciling' /\ UNCHANGED now /\ pw.pc = "patch"
      BY <2>10 DEF PollPatchNotFound, PollPatchFault, PollReconcileFails, IdlePollWorker,
         Reconciling, apiVars
    <3>2. UNCHANGED pollV \/ (PollTruth[pw.key] # Nil /\ WritePoll(pw.key, PatchedPoll))
      BY <2>10 DEF PollPatchNotFound, PollPatchFault, apiVars
    <3> QED BY <2>1, <2>2, <3>1, <3>2, ClosingPatch
  <2>11. CASE PollRequeue
    <3>1. ~Reconciling' /\ UNCHANGED <<pollV, now>>
      BY <2>11 DEF PollRequeue, IdlePollWorker, Reconciling, apiVars
    <3> QED BY <2>1, <2>2, <3>1
  <2>12. ASSUME NEW p \in Polls, PollTimerFires(p) PROVE ClosingTracked'
    BY <2>1, <2>2, <2>12 DEF PollTimerFires, apiVars
  <2>13. CASE ResponseControllerStep
    <3>1. UNCHANGED <<pollV, now, pw>>
      BY <2>13 DEF ResponseControllerStep, RespWorkerStep, RespGet, RespGetPoll,
         EnsureOwnerReference, Validate, RespPatch, RespWriteNotFound,
         RespWriteFault, HandlePollEvent, apiVars, pollCtlVars
    <3> QED BY <2>1, <2>2, <3>1
  <2>14. CASE Restart
    <3>1. pollV' = <<PollTruth>> /\ UNCHANGED now /\ ~Reconciling'
      BY <2>14 DEF Restart, IdlePollWorker, Reconciling
    <3> DEFINE k == Len(pollV) - 1
    <3>2. /\ k \in Nat /\ k < Len(pollV) /\ Len(pollV') = Len(pollV) - k
          /\ \A i \in 1..Len(pollV') : pollV'[i] = pollV[i + k]
      BY <2>1, <3>1 DEF PollTruth
    <3> HIDE DEF k
    <3>3. GenerationsOrdered' /\ PublishedWasDue' /\ HeldWasCached' /\ ClosingKnown'
      BY <2>1, <3>1, <3>2, ClosingMovesOn
    <3> QED BY <3>3 DEF ClosingTracked
  <2>15. CASE UNCHANGED vars
    <3>1. UNCHANGED <<pollV, pw>> /\ now' = now
      BY <2>15 DEF vars
    <3> QED BY <2>1, <2>2, <3>1
  <2> QED BY <2>3, <2>4, <2>5, <2>6, <2>7, <2>8, <2>9, <2>10, <2>11, <2>12, <2>13,
             <2>14, <2>15 DEF Next, Environment, PollControllerStep, PollWorkerStep
<1> QED BY <1>1, <1>2, TypeCorrect, PTL DEF Spec, PollsRemain

(* A step that patches the status of p writes the closing again.            *)
LEMMA ClosingRewritten ==
    ASSUME TypeOK, ClosingTracked, pw.pc = "patch", NEW p \in Polls, pw.key = p,
           PollTruth[p] # Nil,
           PollTruth[p].status.ready =
              [phase |-> "Closed", observedGeneration |-> PollTruth[p].generation]
    PROVE  /\ PatchedPoll.status.ready = PollTruth[p].status.ready
           /\ PollTruth[p].status.phase = "Closed" => PatchedPoll.status.phase = "Closed"
<1> DEFINE truth == PollTruth[p]
<1>1. /\ ApiTypeOK /\ pw.poll \in Poll /\ pw.poll.generation \in Nat
      /\ pw.desired \in PollStatus
  BY PollWorkerFacts DEF TypeOK, Poll
<1>2. /\ Len(pollV) \in Nat /\ 1 \in 1..Len(pollV) /\ Len(pollV) \in 1..Len(pollV)
      /\ PollCache = pollV[1] /\ PollTruth = pollV[Len(pollV)]
  BY <1>1, EndsOfStream
<1>3. truth \in Poll /\ truth.generation \in Nat
  BY <1>1, <1>2, VersionType
<1>4. truth.status.ready \in Published(p)
  <2>1. truth.status.ready # Nil
    <3>1. [phase |-> "Closed", observedGeneration |-> truth.generation] \in ReadyCondition
      BY <1>3 DEF ReadyCondition, PollPhases
    <3> QED BY <3>1, NilAssumption
  <2> QED BY <1>2, <2>1 DEF Published
<1>5. pw.poll.generation = truth.generation
  <2>1. truth.generation <= pw.poll.generation
    BY <1>4 DEF ClosingTracked, HeldWasCached, Reconciling
  <2>2. PollCache[p] # Nil /\ pw.poll.generation <= PollCache[p].generation
    BY DEF ClosingTracked, HeldWasCached, Reconciling, Succeeds
  <2>3. PollCache[p].generation \in Nat /\ PollCache[p].generation <= truth.generation
    BY <1>1, <1>2, <2>2, VersionType DEF ClosingTracked, GenerationsOrdered, Succeeds
  <2> QED BY <1>1, <1>3, <2>1, <2>2, <2>3
<1>6. pw.desired.phase = "Closed" /\ pw.desired.ready = truth.status.ready
  BY <1>4, <1>5 DEF ClosingTracked, ClosingKnown, Reconciling
<1>7. PatchedPoll = [truth EXCEPT
         !.status = MergePollStatus(truth.status, pw.poll.status, pw.desired)]
  BY DEF PatchedPoll
<1> HIDE DEF truth
<1> QED BY <1>3, <1>6, <1>7 DEF Poll, MergePollStatus, Patched, truth

(* While no Poll is deleted, a closing published for the present generation *)
(* stands until users change the Poll, however stale the reconcile that     *)
(* writes next (poll_controller.go:116-139).                                *)
THEOREM ClosingStands == Spec /\ PollsRemain => ClosedIsFinal
<1>1. TypeOK /\ ClosingTracked /\ [Next]_vars => [ClosingKept]_vars
  <2> SUFFICES ASSUME TypeOK, ClosingTracked, Next,
                      NEW p \in Polls, PollTruth[p] # Nil, PollTruth'[p] # Nil,
                      PollTruth[p].generation = PollTruth'[p].generation,
                      PollTruth[p].status.ready =
                         [phase |-> "Closed", observedGeneration |-> PollTruth[p].generation]
               PROVE  /\ PollTruth'[p].status.ready = PollTruth[p].status.ready
                      /\ PollTruth[p].status.phase = "Closed" =>
                            PollTruth'[p].status.phase = "Closed"
    BY DEF ClosingKept
  <2>1. /\ ApiTypeOK /\ PollCtlTypeOK /\ Len(pollV) \in Nat /\ Len(pollV) >= 1
        /\ pollV \in Seq(PollStore) /\ PollTruth \in PollStore /\ PollTruth[p] \in Poll
    BY SnapshotType, BoundsAssumption DEF TypeOK, ApiTypeOK, PollStore
  <2>2. ASSUME NEW q \in Polls, NEW obj \in Poll \cup {Nil}, WritePoll(q, obj)
        PROVE  PollTruth'[p] = IF p = q THEN obj ELSE PollTruth[p]
    BY <2>1, <2>2 DEF WritePoll, PollTruth, PollStore
  <2>3. ASSUME NEW spec \in PollSpecs, UpdatePoll(p, spec)
        PROVE  FALSE
    <3> DEFINE obj == [PollTruth[p] EXCEPT !.spec = spec, !.generation = @ + 1]
    <3>1. WritePoll(p, obj)
      BY <2>3 DEF UpdatePoll
    <3>2. obj \in Poll /\ obj.generation = PollTruth[p].generation + 1
          /\ PollTruth[p].generation \in Nat
      BY <2>1, SpecsAssumption, EditedPollType DEF Poll
    <3> HIDE DEF obj
    <3> QED BY <2>2, <3>1, <3>2
  <2>4. CASE pw.pc = "patch" /\ PollTruth[pw.key] # Nil /\ WritePoll(pw.key, PatchedPoll)
    <3>1. pw.key \in Polls /\ PatchedPoll \in Poll
      BY <2>1, <2>4, PollWorkerFacts, PatchedPollType
    <3>2. CASE pw.key = p
      BY <2>2, <2>4, <3>1, <3>2, ClosingRewritten
    <3>3. CASE pw.key # p
      BY <2>2, <2>4, <3>1, <3>3
    <3> QED BY <3>2, <3>3
  <2>5. CASE UNCHANGED PollTruth
    BY <2>5
  <2>6. CASE UserStep
    <3>1. \/ UNCHANGED pollV
          \/ \E q \in Polls \ {p}, obj \in Poll \cup {Nil} : WritePoll(q, obj)
          \/ \E spec \in PollSpecs : UpdatePoll(p, spec)
      <4>1. ASSUME NEW spec \in PollSpecs, CreatePoll(p, spec) PROVE FALSE
        BY <4>1 DEF CreatePoll
      <4>2. ASSUME DeletePoll(p) PROVE FALSE
        BY <2>2, <4>2 DEF DeletePoll
      <4>3. ASSUME NEW q \in Polls \ {p}, NEW spec \in PollSpecs,
                   CreatePoll(q, spec) \/ UpdatePoll(q, spec) \/ DeletePoll(q)
            PROVE  \E obj \in Poll \cup {Nil} : WritePoll(q, obj)
        <5>1. CASE CreatePoll(q, spec)
          <6>1. EmptyPollStatus \in PollStatus
            BY DEF EmptyPollStatus, PollStatus, PollPhases, QuestionResults
          <6>2. [uid |-> ops + 1, generation |-> 1, spec |-> spec,
                 status |-> EmptyPollStatus] \in Poll
            BY <2>1, <6>1, SpecsAssumption, BoundsAssumption DEF Poll, ApiTypeOK
          <6> QED BY <5>1, <6>2 DEF CreatePoll
        <5>2. CASE UpdatePoll(q, spec)
          <6>1. PollTruth[q] \in Poll
            BY <2>1, <5>2 DEF UpdatePoll, PollStore
          <6> QED BY <5>2, <6>1, SpecsAssumption, EditedPollType DEF UpdatePoll
        <5>3. CASE DeletePoll(q)
          BY <5>3 DEF DeletePoll
        <5> QED BY <4>3, <5>1, <5>2, <5>3
      <4>4. \/ UNCHANGED pollV
            \/ \E q \in Polls : \/ \E spec \in PollSpecs : \/ CreatePoll(q, spec)
                                                         \/ UpdatePoll(q, spec)
                                \/ DeletePoll(q)
        BY <2>6 DEF UserStep, CreateResponse, UpdateResponse, DeleteResponse,
           ForegroundDeleteResponse
      <4> QED BY <4>1, <4>2, <4>3, <4>4 DEF DeletePoll
    <3> QED BY <2>2, <2>3, <2>5, <3>1 DEF PollTruth
  <2>7. CASE \/ DeliverResponse \/ ResponseControllerStep
             \/ Environment /\ ~UserStep
             \/ PollControllerStep /\ ~PollPatch /\ ~PollPatchFault
    <3>1. UNCHANGED pollV
      BY <2>7 DEF Environment, CollectGarbage, Tick, DeliverResponse, PollControllerStep,
         PollWorkerStep, PollGet, PollList, PollPatchNotFound, PollRequeue, PollTimerFires,
         ResponseControllerStep, RespWorkerStep, RespGet, RespGetPoll,
         EnsureOwnerReference, Validate, RespPatch, RespWriteNotFound,
         RespWriteFault, HandlePollEvent, apiVars
    <3> QED BY <2>5, <3>1 DEF PollTruth
  <2>8. CASE DeliverPoll \/ Restart
    <3>1. CASE DeliverPoll
      <4>1. Len(pollV) > 1 /\ pollV' = Tail(pollV)
        BY <3>1 DEF DeliverPoll
      <4>2. pollV'[Len(pollV')] = pollV[Len(pollV)]
        BY <2>1, <4>1
      <4> QED BY <2>5, <4>2 DEF PollTruth
    <3>2. CASE Restart
      <4>1. pollV' = <<PollTruth>>
        BY <3>2 DEF Restart
      <4>2. pollV'[Len(pollV')] = PollTruth
        BY <4>1
      <4> QED BY <2>5, <4>2 DEF PollTruth
    <3> QED BY <2>8, <3>1, <3>2
  <2>9. CASE PollPatch \/ PollPatchFault
    <3>1. UNCHANGED pollV \/ (PollTruth[pw.key] # Nil /\ WritePoll(pw.key, PatchedPoll))
      BY <2>9 DEF PollPatch, PollPatchFault
    <3>2. pw.pc = "patch"
      BY <2>9 DEF PollPatch, PollPatchFault
    <3> QED BY <2>4, <2>5, <3>1, <3>2 DEF PollTruth
  <2> QED BY <2>6, <2>7, <2>8, <2>9 DEF Next
<1> QED BY <1>1, TypeCorrect, ClosingAlwaysTracked, PTL DEF Spec, ClosedIsFinal
=============================================================================
