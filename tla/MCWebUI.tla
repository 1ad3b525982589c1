------------------------------ MODULE MCWebUI -------------------------------
(***************************************************************************)
(* Instances of WebUI for TLC.                                             *)
(***************************************************************************)
EXTENDS WebUI

OfChoice(opts, multi) ==
    [type |-> "Choice", freeText |-> Nil,
     choice |-> [options |-> opts, allowMultipleChoices |-> multi]]

OfText(limit) ==
    [type |-> "FreeText", choice |-> Nil, freeText |-> [maxResponseLength |-> limit]]

Survey(first, second) ==
    [questions |-> [q \in Questions |-> IF q = "q1" THEN first ELSE second],
     closesAt |-> Nil]

\* The survey; one with fewer choices and characters, an option that has become
\* another and has a space; and one whose first question takes a text, as it can
\* after a deletion.
MCEdited == {Survey(OfChoice(<<"a", "b">>, TRUE), OfText(2)),
             Survey(OfChoice(<<"a", " b">>, FALSE), OfText(1)),
             Survey(OfText(1), Nil)}

MCOneChoice == {Survey(OfChoice(<<"a", "b">>, FALSE), Nil)}

MCTrimmed == [s \in Options |-> IF s = " b" THEN "b" ELSE IF s = " " THEN "" ELSE s]

\* A string is as long as it looks, but for the letter of two bytes.
MCTextOf == [s \in Options |->
               IF s = "e'" THEN [chars |-> 1, bytes |-> 2]
               ELSE [chars |-> Len(s), bytes |-> Len(s)]]

\* A space, two letters, and a letter of two bytes.
MCInputs == {" ", "bb", "e'"}
=============================================================================
