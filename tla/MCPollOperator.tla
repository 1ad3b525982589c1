--------------------------- MODULE MCPollOperator ---------------------------
(***************************************************************************)
(* Instances of PollOperator for TLC: the specs users submit and the       *)
(* symmetry of the object names.                                           *)
(***************************************************************************)
EXTENDS PollOperatorClaims, Refinement, TLC

Choice(opts, multi, closing) ==
    [questions |-> [q \in Questions |->
        IF q = "q1"
        THEN [type |-> "Choice",
              choice |-> [options |-> opts, allowMultipleChoices |-> multi],
              freeText |-> Nil]
        ELSE Nil],
     closesAt |-> closing]

Answer(q, selected, text) ==
    [questionID |-> q, selectedOptions |-> selected, text |-> text]

Vote(p, o) ==
    [pollRef |-> p, respondent |-> "v",
     answers |-> <<Answer("q1", <<o>>, NoText)>>]

Symmetry == Permutations(Responses) \cup Permutations(Polls)

\* Polls: one, one whose second option is replaced, one whose closing time is
\* moved, one that closes at 1 or not at all.
MCOnePoll == {Choice(<<"a", "b">>, FALSE, Nil)}
MCPollSpecs == {Choice(<<"a", "b">>, FALSE, Nil), Choice(<<"a", "c">>, FALSE, Nil)}
MCClosesAtOne == {Choice(<<"a", "b">>, FALSE, 1)}
MCClosingSpecs == {Choice(<<"a", "b">>, FALSE, 1), Choice(<<"a", "b">>, FALSE, 2)}
MCReopenSpecs == {Choice(<<"a", "b">>, FALSE, 1), Choice(<<"a", "b">>, FALSE, Nil)}

\* Votes for either option, or for the one that is never replaced.
MCResponseSpecs == {Vote(p, o) : p \in Polls, o \in {"a", "b"}}
MCOneVote == {Vote(p, "a") : p \in Polls}

\* Texts, and answers that have one.
Text(chars, bytes) == [chars |-> chars, bytes |-> bytes]

Written(q, text) == Answer(q, << >>, text)
Chosen(q, selected) == Answer(q, selected, NoText)

\* A survey with a question of each type; one whose second question has gone
\* and whose first takes several choices; one no webhook would let through.
Survey(multi, choice, ids) ==
    [questions |-> [q \in Questions |->
        IF q \notin ids THEN Nil
        ELSE IF q = "q1"
        THEN [type |-> "Choice",
              choice |-> IF choice = << >> THEN Nil
                         ELSE [options |-> choice, allowMultipleChoices |-> multi],
              freeText |-> Nil]
        ELSE [type |-> "FreeText", choice |-> Nil,
              freeText |-> [maxResponseLength |-> 1]]],
     closesAt |-> Nil]

MCSurvey == {Survey(FALSE, <<"a", "b">>, {"q1", "q2"}),
             Survey(TRUE, <<"a", "b">>, {"q1"}),
             Survey(TRUE, << >>, {"q1", "q2"})}

\* The ballots cast in it: good ones, and ones that are rejected, or that only
\* the webhook refuses.
Ballots(answers) ==
    {[pollRef |-> p, respondent |-> "v", answers |-> a] : p \in Polls, a \in answers}

MCBallotSpecs ==
    Ballots({<<Chosen("q1", <<"a", "b">>)>>,
             <<Chosen("q1", <<"b">>), Written("q2", Text(1, 1))>>,
             <<Answer("q2", <<"a">>, Text(1, 1)), Chosen("q1", <<"a">>)>>,
             <<Chosen("q1", <<"a", "c">>)>>,
             <<Chosen("q1", <<"a", "a">>)>>})

\* A text of one character that takes two bytes.
MCAccent == Ballots({<<Written("q2", Text(1, 2))>>})
=============================================================================
