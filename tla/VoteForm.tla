------------------------------ MODULE VoteForm ------------------------------
(***************************************************************************)
(* The vote form of internal/ui: what the page of a Poll lets a browser     *)
(* submit (templates/poll.html) and the answers buildAnswers makes of it.   *)
(*                                                                         *)
(* A form has a list of strings for each question, the options chosen or    *)
(* the text typed; the same strings are read as options or as a text, by    *)
(* what the question is when the form arrives. Here Options holds every     *)
(* string a form can have, options and texts. Of the form only the fields   *)
(* of the page's questions are modelled.                                    *)
(***************************************************************************)
EXTENDS PollAdmission, ResponseValidation, SequencesExt

CONSTANTS
    Trimmed,    \* strings.TrimSpace of a string
    TextOf,     \* the lengths of a string
    TextInputs  \* what voters type into a text field

\* A Poll asks a finite list of questions. Only the empty string has no length,
\* and a string grows no longer when it is trimmed.
ASSUME FormAssumption ==
    /\ IsFiniteSet(Questions)
    /\ Trimmed \in [Options -> Options]
    /\ TextOf \in [Options -> FreeText]
    /\ TextInputs \subseteq Options
    /\ \A s \in Options :
          /\ TextOf[s] = NoText <=> s = ""
          /\ TextOf[Trimmed[s]].chars <= TextOf[s].chars

\* What a browser sends for a question whose field is not there.
NoInput == << >>

\* The values of s at the positions kept, in their order.
Picked(s, kept) ==
    LET Place(i) == Cardinality({j \in kept : j <= i})
    IN  [k \in 1..Cardinality(kept) |-> s[CHOOSE i \in kept : Place(i) = k]]

\* The strings a browser may send for a question: of check boxes where several
\* choices are allowed, of radio buttons of which one or none is on, or of a text
\* area, whose maxlength counts characters and is left out when it is 0.
Offered(question) ==
    IF question = Nil THEN {NoInput}
    ELSE IF question.type = "Choice"
    THEN LET options == IF question.choice = Nil THEN << >> ELSE question.choice.options
             multiple == question.choice # Nil /\ question.choice.allowMultipleChoices
         IN  {Picked(options, on) :
                on \in {s \in SUBSET DOMAIN options : multiple \/ Cardinality(s) <= 1}}
    ELSE LET limit == IF question.freeText = Nil THEN 0
                      ELSE question.freeText.maxResponseLength
         IN  {<<t>> : t \in {s \in TextInputs : limit # 0 => TextOf[s].chars <= limit}}

Forms(questions) ==
    {form \in [Questions -> UNION {Offered(questions[q]) : q \in Questions}] :
        \A q \in Questions : form[q] \in Offered(questions[q])}

----------------------------------------------------------------------------
(* buildAnswers *)

TrimmedSelection(values) ==
    LET trimmed == [i \in DOMAIN values |-> Trimmed[values[i]]]
    IN  Picked(trimmed, {i \in DOMAIN trimmed : trimmed[i] # ""})

\* A text is the first value, whatever else was sent.
TrimmedText(values) == IF values = << >> THEN NoText ELSE TextOf[Trimmed[values[1]]]

\* Mutant of AnswerFrom: the values are selections whatever the question is.
AnswerFromSelections(q, question, values) ==
    [questionID |-> q, selectedOptions |-> TrimmedSelection(values), text |-> NoText]

\* What buildAnswers makes of the values for a question: its type in the Poll the
\* handler has read decides, not the field the values were entered in.
AnswerFrom(q, question, values) ==
    IF question.type = "Choice"
    THEN [questionID |-> q, selectedOptions |-> TrimmedSelection(values), text |-> NoText]
    ELSE [questionID |-> q, selectedOptions |-> << >>, text |-> TrimmedText(values)]

Blank(answer) == answer.selectedOptions = << >> /\ answer.text = NoText

\* Mutant of BuildAnswers: questions left blank are answered with nothing.
BuildAnswersKeepingBlanks(questions, form) ==
    LET asked == SetToSeq({q \in Questions : questions[q] # Nil})
    IN  [i \in DOMAIN asked |-> AnswerFrom(asked[i], questions[asked[i]], form[asked[i]])]

\* The questions of the Poll that were filled in, in some order; those of the
\* form that the Poll does not have are not looked at. None is an error.
BuildAnswers(questions, form) ==
    LET answered == SetToSeq({q \in Questions :
                       questions[q] # Nil /\ ~Blank(AnswerFrom(q, questions[q], form[q]))})
    IN  [i \in DOMAIN answered |->
            AnswerFrom(answered[i], questions[answered[i]], form[answered[i]])]
=============================================================================
