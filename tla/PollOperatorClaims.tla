------------------------- MODULE PollOperatorClaims -------------------------
(***************************************************************************)
(* What the repository's comments say of the operator and the code, as     *)
(* PollOperator models it, does not keep. Each definition quotes the line  *)
(* it states; each has a run that finds its counterexample.                *)
(***************************************************************************)
EXTENDS PollOperator

\* poll_controller.go:104 "Requeue at closesAt so we transition to Closed on
\* time": a Poll whose closing time has come is in the end Closed.
ClosesInTheEnd ==
    <>[](\A p \in Polls :
            PollTruth[p] # Nil /\ PastClosing(PollTruth[p].spec, now)
               => PollTruth[p].status.phase = "Closed")

\* poll_types.go:135 "option is the choice text, matching an entry in the
\* question's options": the published options are in the end the question's.
ResultsMatchOptions ==
    <>[](\A p \in Polls, q \in Questions :
            LET poll == PollTruth[p]
            IN  poll # Nil /\ poll.spec.questions[q] # Nil /\ poll.status.results[q] # Nil
                   => Entries(poll.status.results[q].options)
                         = TalliedOptions(poll.spec.questions[q]))

\* pollresponse_controller.go:145 "Reject responses submitted after the Poll
\* closed": a response already accepted is not rejected for the Poll's closing.
AcceptedBeforeClosingStays ==
    [][\A r \in Responses :
          LET old == RespTruth[r]
              new == RespTruth'[r]
          IN  /\ old # Nil /\ new # Nil
              /\ old.status.phase = "Accepted" /\ new.status.phase = "Rejected"
              => new.status.verdict.reason # "PollClosed"]_vars

\* poll_types.go:101 "maxResponseLength caps the length of an accepted response,
\* in characters": a text is too long only if it has more characters than that.
LimitIsInCharacters ==
    \A r \in Responses :
       LET resp == RespTruth[r]
           poll == PollTruth[resp.spec.pollRef]
       IN  /\ resp # Nil
           /\ resp.status.verdict = Verdict("TextTooLong", resp.generation)
           /\ poll # Nil /\ resp.status.observedPollGeneration = poll.generation
           => \E i \in DOMAIN resp.spec.answers :
                 LET question == poll.spec.questions[resp.spec.answers[i].questionID]
                 IN  /\ question # Nil /\ question.freeText # Nil
                     /\ resp.spec.answers[i].text.chars
                           > question.freeText.maxResponseLength
=============================================================================
