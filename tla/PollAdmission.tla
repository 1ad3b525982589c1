--------------------------- MODULE PollAdmission ----------------------------
(***************************************************************************)
(* The validating webhooks, internal/webhook/v1: pure predicates the API   *)
(* server asks before it stores a Poll or a PollResponse. A list of field  *)
(* errors is modelled by whether it is empty. Deletes are always allowed.  *)
(***************************************************************************)
EXTENDS PollSchema, Functions

CONSTANT EnableWebhooks     \* cmd/main.go: ENABLE_WEBHOOKS is not "false"

ASSUME WebhooksAssumption == EnableWebhooks \in BOOLEAN

ValidChoiceOptions(c) ==
    /\ \A i \in DOMAIN c.options : c.options[i] # ""
    /\ IsInjective(c.options)

ValidQuestion(q) ==
    \/ /\ q.type = "Choice"
       /\ q.choice # Nil
       /\ ValidChoiceOptions(q.choice)
       /\ q.freeText = Nil
    \/ /\ q.type = "FreeText"
       /\ q.freeText # Nil
       /\ q.choice = Nil

ValidPollSpec(spec) ==
    \A q \in Questions : spec.questions[q] # Nil => ValidQuestion(spec.questions[q])

\* A question present before and after keeps its type; ids may come and go.
ValidPollUpdate(old, new) ==
    \A q \in Questions :
       old.questions[q] # Nil /\ new.questions[q] # Nil
          => new.questions[q].type = old.questions[q].type

PollCreateAllowed(spec) == EnableWebhooks => ValidPollSpec(spec)

PollUpdateAllowed(old, new) ==
    EnableWebhooks => ValidPollSpec(new) /\ ValidPollUpdate(old, new)

----------------------------------------------------------------------------
\* Exactly one of selectedOptions and text, selections distinct and not empty.
ValidAnswerShape(ans) ==
    /\ (ans.selectedOptions # << >>) # (ans.text # NoText)
    /\ \A i \in DOMAIN ans.selectedOptions : ans.selectedOptions[i] # ""
    /\ IsInjective(ans.selectedOptions)

ValidPollResponseSpec(spec) ==
    \A i \in DOMAIN spec.answers : ValidAnswerShape(spec.answers[i])

ResponseCreateAllowed(spec) == EnableWebhooks => ValidPollResponseSpec(spec)

ResponseUpdateAllowed(old, new) ==
    EnableWebhooks =>
       /\ ValidPollResponseSpec(new)
       /\ new.pollRef = old.pollRef
=============================================================================
