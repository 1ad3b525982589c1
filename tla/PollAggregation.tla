-------------------------- MODULE PollAggregation ---------------------------
(***************************************************************************)
(* The pure part of internal/controller/poll_controller.go: the status the *)
(* Poll reconciler wants for a Poll, when it takes two statuses for equal, *)
(* and what its merge patch does to the stored status.                     *)
(***************************************************************************)
EXTENDS PollSchema

\* closesAt is set and now is not before it.
PastClosing(spec, now) == spec.closesAt # Nil /\ now >= spec.closesAt

\* Mutant of ComputePhase: a Poll that has been closed before is not closed again.
ComputePhaseClosingOnce(spec, status, now) ==
    IF PastClosing(spec, now) /\ status.closedAt = Nil
    THEN [status EXCEPT !.phase = "Closed", !.closedAt = now,
                        !.openedAt = IF @ = Nil THEN now ELSE @]
    ELSE [status EXCEPT !.phase = "Open", !.closedAt = Nil,
                        !.openedAt = IF @ = Nil THEN now ELSE @]

\* computePhase together with the assignment of its result: phase and
\* lifecycle times from the previous status, everything else kept.
ComputePhase(spec, status, now) ==
    IF PastClosing(spec, now)
    THEN LET closedAt == IF status.closedAt = Nil THEN now ELSE status.closedAt
         IN  [status EXCEPT !.phase = "Closed",
                            !.closedAt = closedAt,
                            !.openedAt = IF @ = Nil THEN closedAt ELSE @]
    ELSE [status EXCEPT !.phase = "Open",
                        !.closedAt = Nil,
                        !.openedAt = IF @ = Nil THEN now ELSE @]

----------------------------------------------------------------------------
(* Tally *)

\* The responses aggregateResults counts for Poll p among those listed.
CountedResponses(p, list) ==
    {r \in Responses : /\ list[r] # Nil
                       /\ list[r].status.phase = "Accepted"
                       /\ list[r].spec.pollRef = p}

\* The answers, as (response, index), that name question q.
AnswersTo(q, p, list) ==
    {a \in CountedResponses(p, list) \X (1..MaxAnswers) :
        /\ a[2] <= Len(list[a[1]].spec.answers)
        /\ list[a[1]].spec.answers[a[2]].questionID = q}

\* The selections, as (answer, index), of option o in an answer to q.
VotesFor(o, q, p, list) ==
    {v \in AnswersTo(q, p, list) \X (1..MaxSelections) :
        LET selected == list[v[1][1]].spec.answers[v[1][2]].selectedOptions
        IN  v[2] <= Len(selected) /\ selected[v[2]] = o}

\* The options results are broken down by: those of a Choice question.
TalliedOptions(question) ==
    IF question.type = "Choice" /\ question.choice # Nil
    THEN {question.choice.options[i] : i \in 1..Len(question.choice.options)}
    ELSE {}

AggregateResults(p, spec, list) ==
    [q \in Questions |->
        IF spec.questions[q] = Nil THEN Nil
        ELSE [responses |-> Cardinality(AnswersTo(q, p, list)),
              options   |-> [o \in Options |->
                  IF o \in TalliedOptions(spec.questions[q])
                  THEN Cardinality(VotesFor(o, q, p, list)) ELSE Nil]]]

TotalResponses(p, list) == Cardinality(CountedResponses(p, list))

----------------------------------------------------------------------------
(* Desired status *)

\* status is the outcome of ComputePhase; the rest of Reconcile fills in the
\* tally and the Ready condition.
WithTally(p, poll, status, list) ==
    [status EXCEPT
        !.results = AggregateResults(p, poll.spec, list),
        !.totalResponses = TotalResponses(p, list),
        !.ready = [phase |-> status.phase,
                   observedGeneration |-> poll.generation]]

\* What one undisturbed run of Reconcile at time now wants for Poll p.
DesiredPollStatus(p, poll, list, now) ==
    WithTally(p, poll, ComputePhase(poll.spec, poll.status, now), list)

----------------------------------------------------------------------------
(* statusEqual *)

Entries(map) == {k \in DOMAIN map : map[k] # Nil}

\* The votes statusEqual reads for an option: a missing one reads as zero.
VotesOrZero(options, o) == IF options[o] = Nil THEN 0 ELSE options[o]

OptionsEqual(a, b) ==
    /\ Cardinality(Entries(a)) = Cardinality(Entries(b))
    /\ \A o \in Entries(b) : VotesOrZero(a, o) = b[o]

ResultsEqual(a, b) ==
    /\ Cardinality(Entries(a)) = Cardinality(Entries(b))
    /\ \A q \in Entries(b) :
          /\ a[q] # Nil
          /\ a[q].responses = b[q].responses
          /\ OptionsEqual(a[q].options, b[q].options)

StatusEqual(a, b) ==
    /\ a.phase = b.phase
    /\ a.totalResponses = b.totalResponses
    /\ a.openedAt = b.openedAt
    /\ a.closedAt = b.closedAt
    /\ ResultsEqual(a.results, b.results)
    /\ a.ready = b.ready

----------------------------------------------------------------------------
\* client.MergeFrom(base): the patch carries the top-level fields in which
\* desired differs from base, and no resource version; the server writes those
\* and keeps its own value of the others. (external)
Patched(stored, base, desired) == IF desired = base THEN stored ELSE desired

MergePollStatus(stored, base, desired) ==
    [phase          |-> Patched(stored.phase, base.phase, desired.phase),
     openedAt       |-> Patched(stored.openedAt, base.openedAt, desired.openedAt),
     closedAt       |-> Patched(stored.closedAt, base.closedAt, desired.closedAt),
     results        |-> Patched(stored.results, base.results, desired.results),
     totalResponses |-> Patched(stored.totalResponses, base.totalResponses,
                                desired.totalResponses),
     ready          |-> Patched(stored.ready, base.ready, desired.ready)]
=============================================================================
