------------------------- MODULE ResponseValidation -------------------------
(***************************************************************************)
(* The pure part of internal/controller/pollresponse_controller.go: the    *)
(* verdict on a response, the status accept and reject want, and when two  *)
(* response statuses are taken for equal.                                  *)
(***************************************************************************)
EXTENDS PollAggregation, FiniteSetsExt

\* A reason other than "Accepted" is the validationError of that reason;
\* "Accepted" stands for the nil error.

\* Mutant of SelectionsReason: options are not looked up.
SelectionsReasonRepeatsOnly(options, selected) ==
    IF IsInjective(selected) THEN "Accepted" ELSE "TooManyChoices"

\* The first selection that is not an option of the question, or that was
\* selected before, decides the reason.
SelectionsReason(options, selected) ==
    LET allowed == {options[i] : i \in DOMAIN options}
        Unknown(j) == selected[j] \notin allowed
        Repeated(j) == \E i \in 1..(j - 1) : selected[i] = selected[j]
        failing == {j \in DOMAIN selected : Unknown(j) \/ Repeated(j)}
    IN  IF failing = {} THEN "Accepted"
        ELSE IF Unknown(Min(failing)) THEN "UnknownOption" ELSE "TooManyChoices"

ChoiceReason(question, ans) ==
    IF question.choice = Nil THEN "InvalidQuestion"
    ELSE IF ans.text # NoText THEN "WrongAnswerType"
    ELSE IF ans.selectedOptions = << >> THEN "EmptyAnswer"
    ELSE IF ~question.choice.allowMultipleChoices /\ Len(ans.selectedOptions) > 1
         THEN "TooManyChoices"
         ELSE SelectionsReason(question.choice.options, ans.selectedOptions)

\* The length compared with maxResponseLength is len(ans.Text), in bytes.
FreeTextReason(question, ans) ==
    IF ans.selectedOptions # << >> THEN "WrongAnswerType"
    ELSE IF ans.text = NoText THEN "EmptyAnswer"
    ELSE IF /\ question.freeText # Nil
            /\ question.freeText.maxResponseLength > 0
            /\ ans.text.bytes > question.freeText.maxResponseLength
         THEN "TextTooLong"
         ELSE "Accepted"

ValidateAnswer(question, ans) ==
    IF question.type = "Choice" THEN ChoiceReason(question, ans)
    ELSE IF question.type = "FreeText" THEN FreeTextReason(question, ans)
    ELSE "InvalidQuestion"

AnswerReason(questions, ans) ==
    IF questions[ans.questionID] = Nil THEN "UnknownQuestion"
    ELSE ValidateAnswer(questions[ans.questionID], ans)

\* The closing time comes first, then the first answer that fails.
ValidateResponse(pollSpec, respSpec, now) ==
    LET Reason(i) == AnswerReason(pollSpec.questions, respSpec.answers[i])
        failing == {i \in DOMAIN respSpec.answers : Reason(i) # "Accepted"}
    IN  IF PastClosing(pollSpec, now) THEN "PollClosed"
        ELSE IF failing = {} THEN "Accepted"
        ELSE Reason(Min(failing))

----------------------------------------------------------------------------
(* accept and reject *)

Verdict(reason, generation) ==
    [reason |-> reason, observedGeneration |-> generation]

AcceptedStatus(resp, pollGeneration, now) ==
    [phase |-> "Accepted",
     observedPollGeneration |-> pollGeneration,
     acceptedAt |-> IF resp.status.acceptedAt = Nil THEN now
                    ELSE resp.status.acceptedAt,
     verdict |-> Verdict("Accepted", resp.generation)]

RejectedStatus(resp, pollGeneration, reason) ==
    [phase |-> "Rejected",
     observedPollGeneration |-> pollGeneration,
     acceptedAt |-> Nil,
     verdict |-> Verdict(reason, resp.generation)]

\* The status one undisturbed validation of resp against poll wants at now.
ValidatedStatus(poll, resp, now) ==
    LET reason == ValidateResponse(poll.spec, resp.spec, now)
    IN  IF reason = "Accepted"
        THEN AcceptedStatus(resp, poll.generation, now)
        ELSE RejectedStatus(resp, poll.generation, reason)

\* The Poll is not in the cache: generation 0 is recorded.
NotFoundStatus(resp) == RejectedStatus(resp, 0, "PollNotFound")

\* Every field is compared, and the conditions without their times.
ResponseStatusEqual(a, b) == a = b

\* The merge patch of accept and reject (external, see MergePollStatus).
MergeResponseStatus(stored, base, desired) ==
    [phase      |-> Patched(stored.phase, base.phase, desired.phase),
     observedPollGeneration |->
         Patched(stored.observedPollGeneration, base.observedPollGeneration,
                 desired.observedPollGeneration),
     acceptedAt |-> Patched(stored.acceptedAt, base.acceptedAt, desired.acceptedAt),
     verdict    |-> Patched(stored.verdict, base.verdict, desired.verdict)]
=============================================================================
