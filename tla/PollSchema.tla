----------------------------- MODULE PollSchema -----------------------------
(***************************************************************************)
(* The two API types of the operator, api/v1/poll_types.go and             *)
(* api/v1/pollresponse_types.go, reduced to the fields the controllers and *)
(* the webhooks read or write.                                             *)
(*                                                                         *)
(*  - An object name is a member of Polls or Responses; namespaces are     *)
(*    independent of one another and one of them is modelled.              *)
(*  - A time is a natural number, Nil an absent pointer.                   *)
(*  - A free text is represented by its lengths in characters and in bytes. *)
(*  - Lists that the API server keeps as maps (questions, answers' ids,    *)
(*    results, conditions) lose their order; the options of a question and *)
(*    the selections of an answer are atomic lists and stay sequences.     *)
(*  - A map keyed by question id or option is a function that is Nil where   *)
(*    the map has no entry.                                                *)
(*  - Prompts, titles, descriptions and condition messages are left out.   *)
(***************************************************************************)
EXTENDS Integers, Sequences, FiniteSets

CONSTANTS
    Polls,          \* names of Poll objects
    Responses,      \* names of PollResponse objects
    Questions,      \* question ids
    Options,        \* option strings; the empty string may be one of them
    Respondents,    \* values of spec.respondent
    Nil,            \* an absent object, pointer or field
    PollSpecs,      \* the Poll specs users submit
    ResponseSpecs,  \* the PollResponse specs users submit
    MaxAnswers,     \* CRD: MaxItems of spec.answers (50)
    MaxSelections   \* CRD: MaxItems of selectedOptions (20)

----------------------------------------------------------------------------
(* Poll *)

\* The phase is "" until the controller first writes it.
PollPhases == {"", "Pending", "Open", "Closed"}

QuestionTypes == {"Choice", "FreeText"}

ChoiceQuestion == [options : Seq(Options), allowMultipleChoices : BOOLEAN]

FreeTextQuestion == [maxResponseLength : Nat]

PollQuestion ==
    [type     : QuestionTypes,
     choice   : ChoiceQuestion \cup {Nil},
     freeText : FreeTextQuestion \cup {Nil}]

\* spec.questions is a map keyed by question id (listType=map, listMapKey=id).
PollSpec ==
    [questions : [Questions -> PollQuestion \cup {Nil}],
     closesAt  : Nat \cup {Nil}]

\* The votes per option, none for FreeText questions.
QuestionResult == [responses : Nat, options : [Options -> Nat \cup {Nil}]]

QuestionResults == [Questions -> QuestionResult \cup {Nil}]

\* The Ready condition is determined by the phase and the generation it was
\* computed for; its message and transition time carry nothing more.
ReadyCondition == [phase : PollPhases, observedGeneration : Nat]

PollStatus ==
    [phase          : PollPhases,
     openedAt       : Nat \cup {Nil},
     closedAt       : Nat \cup {Nil},
     results        : QuestionResults,
     totalResponses : Nat,
     ready          : ReadyCondition \cup {Nil}]

Poll == [uid : Nat, generation : Nat, spec : PollSpec, status : PollStatus]

\* What the API server stores when a Poll is created: status is a subresource.
EmptyPollStatus ==
    [phase |-> "", openedAt |-> Nil, closedAt |-> Nil,
     results |-> [q \in Questions |-> Nil], totalResponses |-> 0, ready |-> Nil]

----------------------------------------------------------------------------
(* PollResponse *)

PollResponsePhases == {"", "Pending", "Accepted", "Rejected"}

\* The reasons a verdict carries (pollresponse_controller.go).
Reasons ==
    {"Accepted", "PollNotFound", "PollClosed", "UnknownQuestion",
     "WrongAnswerType", "UnknownOption", "EmptyAnswer", "TooManyChoices",
     "TextTooLong", "InvalidQuestion"}

\* A character takes one byte or more; NoText is the empty string.
FreeText == {t \in [chars : Nat, bytes : Nat] :
                t.chars <= t.bytes /\ (t.chars = 0 => t.bytes = 0)}

NoText == [chars |-> 0, bytes |-> 0]

PollAnswer ==
    [questionID : Questions, selectedOptions : Seq(Options), text : FreeText]

PollResponseSpec ==
    [pollRef : Polls, respondent : Respondents, answers : Seq(PollAnswer)]

OwnerReference == [name : Polls, uid : Nat]

\* Validated and Counted are always written together, with one reason.
VerdictCondition == [reason : Reasons, observedGeneration : Nat]

PollResponseStatus ==
    [phase                  : PollResponsePhases,
     observedPollGeneration : Nat,
     acceptedAt             : Nat \cup {Nil},
     verdict                : VerdictCondition \cup {Nil}]

PollResponse ==
    [generation : Nat,
     spec       : PollResponseSpec,
     owner      : OwnerReference \cup {Nil},
     deleting   : BOOLEAN,
     status     : PollResponseStatus]

EmptyResponseStatus ==
    [phase |-> "", observedPollGeneration |-> 0, acceptedAt |-> Nil,
     verdict |-> Nil]

----------------------------------------------------------------------------
(* What a list of the objects of one kind returns: the object under each    *)
(* name, or Nil.                                                            *)
PollStore == [Polls -> Poll \cup {Nil}]

ResponseStore == [Responses -> PollResponse \cup {Nil}]

----------------------------------------------------------------------------
ASSUME NamesAssumption == IsFiniteSet(Responses) /\ IsFiniteSet(Polls)

ASSUME LimitsAssumption == MaxAnswers \in Nat /\ MaxSelections \in Nat

ASSUME SpecsAssumption ==
    /\ PollSpecs \subseteq PollSpec
    /\ ResponseSpecs \subseteq PollResponseSpec

\* Nil is told apart from every value a field can hold.
ASSUME NilAssumption ==
    Nil \notin Polls \cup Responses \cup Nat
               \cup Poll \cup PollStatus \cup ReadyCondition
               \cup PollResponse \cup PollResponseStatus \cup VerdictCondition
               \cup PollQuestion \cup ChoiceQuestion \cup FreeTextQuestion
               \cup QuestionResult \cup OwnerReference

\* The CRD bounds the lists of a submitted response, and its answers are a map
\* by question id.
ASSUME AnswersAssumption ==
    \A s \in ResponseSpecs :
       /\ Len(s.answers) <= MaxAnswers
       /\ \A i \in 1..Len(s.answers) :
             Len(s.answers[i].selectedOptions) <= MaxSelections
       /\ \A i, j \in 1..Len(s.answers) :
             s.answers[i].questionID = s.answers[j].questionID => i = j
=============================================================================
