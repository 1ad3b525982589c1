---------------------------- MODULE WebUIProofs -----------------------------
(***************************************************************************)
(* Proofs about the web UI. Of the two goroutines of Server.Start           *)
(* (internal/ui/server.go): each is done with the other when Start returns, *)
(* and until then one of them has a step to take. Of the handlers           *)
(* (internal/ui/handlers.go): each has what it works on, and a vote answers *)
(* what was filled in, once, in a way the operator accepts. Of the          *)
(* templates (internal/ui/templates.go): where the bars of the results fit. *)
(***************************************************************************)
EXTENDS WebUI, ApiServerProofs, ResultBars

----------------------------------------------------------------------------
(* Server.Start *)

\* The goroutine sends one result, and Start takes it when it returns; Start
\* waits for it after Shutdown only.
ServerInv ==
    /\ start \in {"select", "shutdown", "drain", "returned"}
    /\ listener \in {"new", "opening", "serving", "sending", "failing", "done"}
    /\ errCh \in {<< >>, <<"nil">>, <<"error">>}
    /\ start \in {"shutdown", "drain"} => closing
    /\ listener = "done" <=> errCh # << >> \/ start = "returned"
    /\ start = "returned" => errCh = << >>

\* Start never waits for a result that nobody sends: the goroutine has sent it,
\* or is on its way there with the listener told to close (server.go:94-101).
ResultComes ==
    start \in {"shutdown", "drain"} =>
       errCh # << >> \/ (closing /\ listener # "done")

LEMMA ServerInvInitially == UiInit => ServerInv
BY DEF UiInit, ServerInv

(* Requests, users and caches leave the server alone.                       *)
LEMMA RequestsLeaveServer ==
    ASSUME Cluster \/ \E v \in Respondents : Voter(v) \/ Handler(v)
    PROVE  UNCHANGED serverVars
<1>1. CASE Cluster
  BY <1>1 DEF Cluster
<1>2. ASSUME NEW v \in Respondents, Voter(v) PROVE UNCHANGED serverVars
  BY <1>2 DEF Voter, OpenPage, SubmitForm, CookieExpires
<1>3. ASSUME NEW v \in Respondents, Handler(v) PROVE UNCHANGED serverVars
  BY <1>3 DEF Handler, ReadPoll, CreateVote, CreateVoteFails
<1> QED BY <1>1, <1>2, <1>3

LEMMA ServerInvKept ==
    ASSUME ServerInv, [UiNext]_allVars
    PROVE  ServerInv'
<1> USE DEF ServerInv
<1>1. ASSUME UNCHANGED serverVars PROVE ServerInv'
  BY <1>1 DEF serverVars
<1>2. CASE UNCHANGED allVars
  BY <1>1, <1>2 DEF allVars
<1>3. CASE Cluster \/ \E v \in Respondents : Voter(v) \/ Handler(v)
  <2>1. UNCHANGED serverVars
    BY <1>3, RequestsLeaveServer
  <2> QED BY <1>1, <2>1
<1>4. CASE Cancel
  BY <1>4 DEF Cancel
<1>5. CASE Goroutine
  <2>1. CASE Listen
    BY <2>1 DEF Listen
  <2>2. CASE ListenerOpens \/ ListenerFails
    BY <2>2 DEF ListenerOpens, ListenerFails
  <2>3. CASE ServerClosed
    BY <2>3 DEF ServerClosed
  <2>4. CASE SendResult
    <3>1. errCh' \in {<<"nil">>, <<"error">>}
      BY <2>4 DEF SendResult
    <3>2. errCh' # << >>
      BY <3>1
    <3> QED BY <2>4, <3>1, <3>2 DEF SendResult
  <2> QED BY <1>5, <2>1, <2>2, <2>3, <2>4 DEF Goroutine
<1>6. CASE Start
  <2>1. CASE SelectCancelled
    BY <2>1 DEF SelectCancelled
  <2>2. CASE SelectError
    BY <2>2 DEF SelectError
  <2>3. CASE ShutdownReturns
    BY <2>3 DEF ShutdownReturns
  <2>4. CASE Drain
    BY <2>4 DEF Drain
  <2> QED BY <1>6, <2>1, <2>2, <2>3, <2>4 DEF Start
<1> QED BY <1>2, <1>3, <1>4, <1>5, <1>6 DEF UiNext

LEMMA ServerInvAlways == UiSpec => []ServerInv
BY ServerInvInitially, ServerInvKept, PTL DEF UiSpec

(* Start leaves no goroutine and no result behind, whether the listener     *)
(* failed, the manager stopped it, or both at once (server.go:93-105).      *)
THEOREM NothingIsLeftRunning == UiSpec => []NothingLeftRunning
<1>1. ServerInv => NothingLeftRunning
  BY DEF ServerInv, NothingLeftRunning
<1> QED BY <1>1, ServerInvAlways, PTL

(* Nor does it wait for ever: the send and the receive never miss each      *)
(* other, since the channel keeps the one result (server.go:83, 101).       *)
THEOREM ResultAlwaysComes == UiSpec => []ResultComes
<1>1. ServerInv => ResultComes
  BY DEF ServerInv, ResultComes
<1> QED BY <1>1, ServerInvAlways, PTL

----------------------------------------------------------------------------
(* Forms and their answers *)

LEMMA CountUpTo ==
    ASSUME NEW n \in Nat
    PROVE  IsFiniteSet(1..n) /\ Cardinality(1..n) = n
BY FS_Interval

(* The values picked at some positions of a sequence: one for each, in      *)
(* order, so all of them are the sequence itself.                           *)
LEMMA PickedValues ==
    ASSUME NEW S, NEW s \in Seq(S), NEW kept \in SUBSET DOMAIN s
    PROVE  /\ Picked(s, kept) \in Seq(S)
           /\ Len(Picked(s, kept)) = Cardinality(kept)
           /\ \A k \in DOMAIN Picked(s, kept) : \E i \in kept : Picked(s, kept)[k] = s[i]
           /\ \A i \in kept : \E k \in DOMAIN Picked(s, kept) : Picked(s, kept)[k] = s[i]
           /\ IsInjective(s) => IsInjective(Picked(s, kept))
           /\ kept = DOMAIN s => Picked(s, kept) = s
<1> DEFINE n == Cardinality(kept)
           upTo(i) == {j \in kept : j <= i}
           Place(i) == Cardinality(upTo(i))
           place == [i \in kept |-> Place(i)]
           at(k) == CHOOSE i \in kept : Place(i) = k
<1>1. /\ DOMAIN s = 1..Len(s) /\ Len(s) \in Nat
      /\ IsFiniteSet(1..Len(s)) /\ Cardinality(1..Len(s)) = Len(s)
  <2>1. DOMAIN s = 1..Len(s) /\ Len(s) \in Nat
    OBVIOUS
  <2> QED BY <2>1, CountUpTo
<1>2. IsFiniteSet(kept) /\ n \in Nat /\ \A i \in kept : i \in Nat
  BY <1>1, FS_Subset, FS_CardinalityType
<1>3. ASSUME NEW i
      PROVE  IsFiniteSet(upTo(i)) /\ Place(i) \in Nat /\ Place(i) <= n
  BY <1>2, FS_Subset, FS_CardinalityType
<1>4. ASSUME NEW i \in kept
      PROVE  Place(i) \in 1..n
  <2>1. upTo(i) # {}
    BY <1>2
  <2> HIDE DEF upTo, n
  <2> QED BY <1>2, <1>3, <2>1, FS_EmptySet
<1>5. ASSUME NEW i \in kept, NEW j \in kept, i < j
      PROVE  Place(i) < Place(j)
  <2>1. upTo(i) \subseteq upTo(j) /\ j \in upTo(j) /\ j \notin upTo(i)
    BY <1>2, <1>5
  <2> HIDE DEF upTo
  <2>2. Place(i) <= Place(j) /\ Place(i) # Place(j)
    BY <1>3, <2>1, FS_Subset
  <2> QED BY <1>3, <2>2
<1> HIDE DEF Place, n
<1>6. \A i, j \in kept : Place(i) = Place(j) => i = j
  <2> SUFFICES ASSUME NEW i \in kept, NEW j \in kept, Place(i) = Place(j), i # j
               PROVE  FALSE
    OBVIOUS
  <2>1. i < j \/ j < i
    BY <1>2
  <2> QED BY <1>4, <1>5, <2>1, <1>2
<1>7. \A k \in 1..n : \E i \in kept : Place(i) = k
  <2>1. place \in Injection(kept, 1..n)
    BY <1>4, <1>6 DEF Injection, IsInjective
  <2>2. IsFiniteSet(1..n) /\ Cardinality(1..n) = n
    BY <1>2, CountUpTo
  <2>3. place \in Surjection(kept, 1..n)
    BY <2>1, <2>2, FS_Injection DEF n
  <2> QED BY <2>3 DEF Surjection
<1>8. \A k \in 1..n : at(k) \in kept /\ Place(at(k)) = k
  BY <1>7
<1>9. Picked(s, kept) = [k \in 1..n |-> s[at(k)]]
  BY DEF Picked, n, Place
<1> HIDE DEF at
<1>10. Picked(s, kept) \in Seq(S) /\ Len(Picked(s, kept)) = n
  <2>1. \A k \in 1..n : s[at(k)] \in S
    BY <1>1, <1>8
  <2> QED BY <1>2, <1>9, <2>1
<1>11. \A k \in DOMAIN Picked(s, kept) : \E i \in kept : Picked(s, kept)[k] = s[i]
  BY <1>8, <1>9
<1>12. ASSUME NEW i \in kept
       PROVE  \E k \in DOMAIN Picked(s, kept) : Picked(s, kept)[k] = s[i]
  <2>1. Place(i) \in 1..n /\ at(Place(i)) = i
    BY <1>4, <1>6, <1>8
  <2> QED BY <1>9, <2>1
<1>13. ASSUME IsInjective(s) PROVE IsInjective(Picked(s, kept))
  <2>1. \A k, m \in 1..n : s[at(k)] = s[at(m)] => k = m
    BY <1>1, <1>8, <1>13 DEF IsInjective
  <2> QED BY <1>9, <2>1 DEF IsInjective
<1>14. ASSUME kept = DOMAIN s PROVE Picked(s, kept) = s
  <2>1. n = Len(s)
    BY <1>1, <1>14 DEF n
  <2>2. ASSUME NEW i \in kept PROVE Place(i) = i
    <3>1. upTo(i) = 1..i
      BY <1>1, <1>14
    <3>2. i \in Nat /\ i >= 1
      BY <1>1
    <3>3. Cardinality(1..i) = i
      BY <3>2, CountUpTo
    <3> QED BY <3>1, <3>3 DEF Place
  <2>3. \A k \in 1..n : at(k) = k
    BY <1>8, <2>2
  <2> QED BY <1>1, <1>9, <2>1, <2>3
<1> QED BY <1>10, <1>11, <1>12, <1>13, <1>14 DEF n

\* The questions of the Poll that form fills in.
FilledIn(questions, form) ==
    {q \in Questions : questions[q] # Nil /\ ~Blank(AnswerFrom(q, questions[q], form[q]))}

\* answers are one to each question form fills in, with what was entered there.
OneToEach(answers, questions, form) ==
    /\ \A i \in DOMAIN answers :
          LET q == answers[i].questionID
          IN  /\ q \in FilledIn(questions, form)
              /\ answers[i] = AnswerFrom(q, questions[q], form[q])
    /\ \A i, j \in DOMAIN answers :
          answers[i].questionID = answers[j].questionID => i = j
    /\ \A q \in FilledIn(questions, form) :
          \E i \in DOMAIN answers : answers[i].questionID = q

(* SetToSeq enumerates a finite set, every element once.                    *)
LEMMA Enumerates ==
    ASSUME NEW S, IsFiniteSet(S)
    PROVE  /\ SetToSeq(S) \in [1..Cardinality(S) -> S]
           /\ \A i, j \in 1..Cardinality(S) : SetToSeq(S)[i] = SetToSeq(S)[j] => i = j
           /\ \A x \in S : \E i \in 1..Cardinality(S) : SetToSeq(S)[i] = x
<1> DEFINE n == Cardinality(S)
           s == SetToSeq(S)
<1>1. n \in Nat /\ ExistsBijection(1..n, S)
  BY FS_CardinalityType
<1>2. \E f \in [1..n -> S] : IsInjective(f)
  BY <1>1 DEF ExistsBijection, Bijection, Injection
<1>3. s \in [1..n -> S] /\ IsInjective(s)
  BY <1>2 DEF SetToSeq
<1>4. s \in Injection(1..n, S)
  BY <1>3 DEF Injection
<1>5. Cardinality(1..n) = n
  BY <1>1, FS_Interval
<1>6. s \in Surjection(1..n, S)
  BY <1>4, <1>5, FS_Injection
<1> HIDE DEF s, n
<1>7. /\ s \in [1..n -> S]
      /\ \A i, j \in 1..n : s[i] = s[j] => i = j
      /\ \A x \in S : \E i \in 1..n : s[i] = x
  BY <1>3, <1>6 DEF IsInjective, Surjection
<1> QED BY <1>7 DEF s, n

(* buildAnswers makes one answer of every question that is filled in.       *)
LEMMA BuildsOneEach ==
    ASSUME NEW questions, NEW form
    PROVE  OneToEach(BuildAnswers(questions, form), questions, form)
<1> DEFINE F == FilledIn(questions, form)
           s == SetToSeq(F)
           n == Cardinality(F)
           answer(q) == AnswerFrom(q, questions[q], form[q])
<1>1. BuildAnswers(questions, form) = [i \in DOMAIN s |-> answer(s[i])]
  BY DEF BuildAnswers, FilledIn
<1>2. IsFiniteSet(F)
  BY FormAssumption, FS_Subset DEF FilledIn
<1>3. /\ s \in [1..n -> F]
      /\ \A i, j \in 1..n : s[i] = s[j] => i = j
      /\ \A q \in F : \E i \in 1..n : s[i] = q
  BY <1>2, Enumerates
<1>4. \A q : answer(q).questionID = q
  BY DEF AnswerFrom
<1> HIDE DEF F, s, n, answer
<1>5. LET answers == [i \in DOMAIN s |-> answer(s[i])]
      IN  /\ \A i \in DOMAIN answers :
                LET q == answers[i].questionID
                IN  q \in F /\ answers[i] = answer(q)
          /\ \A i, j \in DOMAIN answers :
                answers[i].questionID = answers[j].questionID => i = j
          /\ \A q \in F : \E i \in DOMAIN answers : answers[i].questionID = q
  BY <1>3, <1>4
<1> QED BY <1>1, <1>5 DEF F, answer, OneToEach

\* The empty string, by a name that the provers can leave unexpanded.
NoString == ""

(* What is assumed of the strings of a form, each fact by itself.           *)
LEMMA Strings ==
    /\ IsFiniteSet(Questions)
    /\ TextInputs \subseteq Options
    /\ \A s \in Options : Trimmed[s] \in Options /\ TextOf[s] \in FreeText
    /\ \A s \in Options : TextOf[s] = NoText <=> s = NoString
    /\ \A s \in Options : TextOf[Trimmed[s]].chars <= TextOf[s].chars
<1>1. Trimmed \in [Options -> Options] /\ TextOf \in [Options -> FreeText]
  BY FormAssumption, Zenon
<1>2. \A s \in Options : Trimmed[s] \in Options /\ TextOf[s] \in FreeText
  BY <1>1
<1>3. \A s \in Options : TextOf[s] = NoText <=> s = NoString
  BY FormAssumption, Zenon DEF NoString
<1>4. \A s \in Options : TextOf[Trimmed[s]].chars <= TextOf[s].chars
  BY FormAssumption, Zenon
<1> QED BY <1>2, <1>3, <1>4, FormAssumption, Zenon

(* What a page offers for a question has the type of an input.              *)
LEMMA OfferedType ==
    ASSUME NEW question \in PollQuestion \cup {Nil}, NEW input \in Offered(question)
    PROVE  input \in Input
<1>1. CASE question = Nil
  BY <1>1 DEF Offered, NoInput, Input
<1>2. CASE question # Nil /\ question.type = "Choice"
  <2> DEFINE options == IF question.choice = Nil THEN << >> ELSE question.choice.options
  <2>1. options \in Seq(Options)
    BY <1>2 DEF PollQuestion, ChoiceQuestion
  <2>2. PICK on \in SUBSET DOMAIN options : input = Picked(options, on)
    BY <1>2 DEF Offered
  <2> HIDE DEF options
  <2> QED BY <2>1, <2>2, PickedValues DEF Input
<1>3. CASE question # Nil /\ question.type # "Choice"
  <2>1. PICK t \in TextInputs : input = <<t>>
    BY <1>3 DEF Offered
  <2> QED BY <2>1, Strings DEF Input
<1> QED BY <1>1, <1>2, <1>3

LEMMA FormType ==
    ASSUME NEW questions \in Asked, NEW form \in Forms(questions)
    PROVE  /\ form \in [Questions -> Input]
           /\ \A q \in Questions : form[q] \in Offered(questions[q])
<1>1. /\ \A q \in Questions : form[q] \in Offered(questions[q])
      /\ form \in [Questions -> UNION {Offered(questions[q]) : q \in Questions}]
  BY DEF Forms
<1>2. \A q \in Questions : form[q] \in Input
  BY <1>1, OfferedType DEF Asked
<1> QED BY <1>1, <1>2

(* The selections kept are the values that are not blank, trimmed.          *)
LEMMA KeptSelections ==
    ASSUME NEW values \in Input
    PROVE  /\ TrimmedSelection(values) \in Seq(Options)
           /\ TrimmedSelection(values) = << >> <=> ~Filled(values)
           /\ \A k \in DOMAIN TrimmedSelection(values) :
                 /\ TrimmedSelection(values)[k] # NoString
                 /\ \E i \in DOMAIN values : TrimmedSelection(values)[k] = Trimmed[values[i]]
           /\ \A i \in DOMAIN values : Trimmed[values[i]] # NoString =>
                 \E k \in DOMAIN TrimmedSelection(values) :
                    TrimmedSelection(values)[k] = Trimmed[values[i]]
           /\ Len(values) <= 1 => IsInjective(TrimmedSelection(values))
           /\ (\A i \in DOMAIN values : Trimmed[values[i]] = values[i] /\ values[i] # NoString)
                 => TrimmedSelection(values) = values
<1> DEFINE trimmed == [i \in DOMAIN values |-> Trimmed[values[i]]]
           kept == {i \in DOMAIN trimmed : trimmed[i] # NoString}
           selection == TrimmedSelection(values)
<1>1. values \in Seq(Options) /\ DOMAIN values = 1..Len(values) /\ Len(values) \in Nat
  BY DEF Input
<1>2. trimmed \in Seq(Options) /\ kept \in SUBSET DOMAIN trimmed /\ Len(trimmed) = Len(values)
  BY <1>1, Strings
<1>3. selection = Picked(trimmed, kept)
  BY DEF TrimmedSelection, NoString
<1>4. Filled(values) <=> kept # {}
  BY DEF Filled, NoString
<1>5. \A i \in DOMAIN trimmed : trimmed[i] = Trimmed[values[i]] /\ i \in DOMAIN values
  OBVIOUS
<1>6. /\ \A i \in kept : trimmed[i] # NoString
      /\ \A i \in DOMAIN values : Trimmed[values[i]] # NoString =>
            i \in kept /\ trimmed[i] = Trimmed[values[i]]
  OBVIOUS
<1>7. Len(values) <= 1 => IsInjective(trimmed)
  BY <1>1 DEF IsInjective
<1>8. (\A i \in DOMAIN values : Trimmed[values[i]] = values[i] /\ values[i] # NoString)
         => kept = DOMAIN trimmed /\ trimmed = values
  BY <1>1
<1>9. IsFiniteSet(kept)
  <2>1. IsFiniteSet(DOMAIN trimmed)
    BY <1>1, CountUpTo
  <2> QED BY <1>2, <2>1, FS_Subset
<1> HIDE DEF trimmed, kept, selection
<1>10. /\ selection \in Seq(Options) /\ Len(selection) = Cardinality(kept)
       /\ \A k \in DOMAIN selection : \E i \in kept : selection[k] = trimmed[i]
       /\ \A i \in kept : \E k \in DOMAIN selection : selection[k] = trimmed[i]
       /\ IsInjective(trimmed) => IsInjective(selection)
       /\ kept = DOMAIN trimmed => selection = trimmed
  BY <1>2, <1>3, PickedValues
<1>11. selection = << >> <=> kept = {}
  BY <1>9, <1>10, FS_EmptySet
<1>12. \A k \in DOMAIN selection :
          selection[k] # NoString /\ \E i \in DOMAIN values : selection[k] = Trimmed[values[i]]
  BY <1>2, <1>5, <1>6, <1>10
<1>13. \A i \in DOMAIN values : Trimmed[values[i]] # NoString =>
          \E k \in DOMAIN selection : selection[k] = Trimmed[values[i]]
  BY <1>6, <1>10
<1> QED BY <1>4, <1>7, <1>8, <1>10, <1>11, <1>12, <1>13 DEF selection

(* The text kept is the first value, trimmed.                               *)
LEMMA KeptText ==
    ASSUME NEW values \in Input
    PROVE  /\ TrimmedText(values) \in FreeText
           /\ TrimmedText(values) = NoText <=> values = << >> \/ Trimmed[values[1]] = NoString
           /\ TrimmedText(values) # NoText =>
                 1 \in DOMAIN values /\ TrimmedText(values) = TextOf[Trimmed[values[1]]]
<1>1. NoText \in FreeText
  BY DEF NoText, FreeText
<1>2. CASE values = << >>
  BY <1>1, <1>2 DEF TrimmedText
<1>3. CASE values # << >>
  <2>1. 1 \in DOMAIN values /\ values[1] \in Options
    BY <1>3 DEF Input
  <2>2. Trimmed[values[1]] \in Options
    BY <2>1, Strings
  <2>3. /\ TextOf[Trimmed[values[1]]] \in FreeText
        /\ TextOf[Trimmed[values[1]]] = NoText <=> Trimmed[values[1]] = NoString
    BY <2>2, Strings
  <2> QED BY <1>3, <2>1, <2>3 DEF TrimmedText
<1> QED BY <1>2, <1>3

(* What buildAnswers makes of an input is an answer.                        *)
LEMMA AnswerType ==
    ASSUME NEW q \in Questions, NEW question, NEW input \in Input
    PROVE  AnswerFrom(q, question, input) \in PollAnswer
<1>1. TrimmedSelection(input) \in Seq(Options) /\ << >> \in Seq(Options)
  BY KeptSelections
<1>2. NoText \in FreeText /\ TrimmedText(input) \in FreeText
  BY KeptText DEF NoText, FreeText
<1> QED BY <1>1, <1>2 DEF AnswerFrom, PollAnswer

(* A question is skipped when nothing was entered for it, or when a text is *)
(* asked for and what was entered first is blank.                           *)
LEMMA SkippedIfBlank ==
    ASSUME NEW q, NEW question, NEW values \in Input
    PROVE  /\ question.type = "Choice" =>
                 (Blank(AnswerFrom(q, question, values)) <=> ~Filled(values))
           /\ question.type # "Choice" =>
                 (Blank(AnswerFrom(q, question, values))
                    <=> values = << >> \/ Trimmed[values[1]] = NoString)
           /\ ~Blank(AnswerFrom(q, question, values)) => Filled(values)
<1>1. CASE question.type = "Choice"
  BY <1>1, KeptSelections DEF AnswerFrom, Blank
<1>2. CASE question.type # "Choice"
  <2>1. Blank(AnswerFrom(q, question, values)) <=> TrimmedText(values) = NoText
    BY <1>2 DEF AnswerFrom, Blank
  <2>2. values # << >> => 1 \in DOMAIN values
    BY DEF Input
  <2>3. 1 \in DOMAIN values /\ Trimmed[values[1]] # NoString => Filled(values)
    BY DEF Filled, NoString
  <2> QED BY <1>2, <2>1, <2>2, <2>3, KeptText
<1> QED BY <1>1, <1>2

LEMMA AnswersType ==
    ASSUME NEW questions, NEW form \in [Questions -> Input]
    PROVE  BuildAnswers(questions, form) \in Seq(PollAnswer)
<1> DEFINE F == FilledIn(questions, form)
           s == SetToSeq(F)
           n == Cardinality(F)
           answer(q) == AnswerFrom(q, questions[q], form[q])
<1>1. BuildAnswers(questions, form) = [i \in DOMAIN s |-> answer(s[i])]
  BY DEF BuildAnswers, FilledIn
<1>2. F \subseteq Questions /\ IsFiniteSet(F)
  BY Strings, FS_Subset DEF FilledIn
<1>3. s \in [1..n -> F] /\ n \in Nat
  BY <1>2, Enumerates, FS_CardinalityType
<1>4. \A q \in Questions : answer(q) \in PollAnswer
  BY AnswerType
<1> HIDE DEF F, s, n, answer
<1>5. \A i \in 1..n : answer(s[i]) \in PollAnswer
  BY <1>2, <1>3, <1>4
<1> QED BY <1>1, <1>3, <1>5

----------------------------------------------------------------------------
(* Tabs *)

\* What a step may make of the tab of v: a page, a form that page offers, the
\* handler's reading of the Poll for it, or nothing of these.
TabStep(v) ==
    LET old == tab[v]
        new == tab'[v]
    IN  \/ new = old
        \/ new.pc = "blank"
        \/ new.pc = "answered" /\ new.poll \in Polls
        \/ /\ new.pc = "page" /\ new.poll \in Polls
           /\ PollCache[new.poll] # Nil
           /\ new.page = PollCache[new.poll].spec.questions
        \/ /\ old.pc = "page" /\ new.pc = "posted"
           /\ new.poll = old.poll /\ new.page = old.page
           /\ new.form \in Forms(old.page)
        \/ /\ old.pc = "posted" /\ new.pc = "creating"
           /\ new.poll = old.poll /\ new.page = old.page /\ new.form = old.form
           /\ PollCache[old.poll] # Nil
           /\ new.read = PollCache[old.poll].spec.questions
           /\ BuildAnswers(new.read, new.form) # << >>

\* The browsers keep their type, and each takes one of these steps.
TabsStep ==
    /\ tab' \in [Respondents -> Tab]
    /\ cookie' \in [Respondents -> Messages \cup {Nil}]
    /\ \A v \in Respondents : TabStep(v)

LEMMA TabsStay ==
    ASSUME UiTypeOK, UNCHANGED tab, cookie' \in [Respondents -> Messages \cup {Nil}]
    PROVE  TabsStep
<1>1. tab' \in [Respondents -> Tab] /\ \A v \in Respondents : tab'[v] = tab[v]
  BY DEF UiTypeOK
<1> QED BY <1>1 DEF TabsStep, TabStep

LEMMA OneTabSteps ==
    ASSUME UiTypeOK, cookie' \in [Respondents -> Messages \cup {Nil}],
           NEW v \in Respondents, NEW new \in Tab, tab' = [tab EXCEPT ![v] = new],
           tab'[v] = new => TabStep(v)
    PROVE  TabsStep
<1>1. /\ tab' \in [Respondents -> Tab] /\ tab'[v] = new
      /\ \A w \in Respondents : w = v \/ tab'[w] = tab[w]
  BY DEF UiTypeOK
<1>2. ASSUME NEW w \in Respondents PROVE TabStep(w)
  BY <1>1 DEF TabStep
<1> QED BY <1>1, <1>2 DEF TabsStep

LEMMA FreshType ==
    ASSUME UiTypeOK, NEW v \in Respondents
    PROVE  Fresh(v) \in Tab /\ Fresh(v).pc = "blank"
<1>1. tab[v].posts \in 0..MaxPosts /\ tab[v].told \in Messages \cup {Nil}
  BY DEF UiTypeOK, Tab
<1>2. BlankTab \in Tab /\ BlankTab.pc = "blank"
  BY UiAssumption DEF BlankTab, Tab
<1> QED BY <1>1, <1>2 DEF Fresh, Tab

(* The questions of a Poll the cache holds.                                 *)
LEMMA CachedQuestions ==
    ASSUME UiTypeOK, NEW p \in Polls, PollCache[p] # Nil
    PROVE  PollCache[p] \in Poll /\ PollCache[p].spec.questions \in Asked
<1>1. PollCache \in PollStore
  BY SnapshotType DEF UiTypeOK
<1>2. PollCache[p] \in Poll
  BY <1>1 DEF PollStore
<1> QED BY <1>2 DEF Poll, PollSpec, Asked

LEMMA FlashStep ==
    ASSUME UiTypeOK, NEW v \in Respondents, NEW message \in Messages,
           tab[v].pc \in {"posted", "creating"}, FlashAndRedirect(v, message)
    PROVE  TabsStep
<1>1. tab[v].poll \in Polls
  BY DEF UiTypeOK
<1>2. PICK new : /\ new = [Fresh(v) EXCEPT !.pc = "answered", !.poll = tab[v].poll]
                 /\ tab' = [tab EXCEPT ![v] = new]
  BY DEF FlashAndRedirect
<1>3. new \in Tab /\ new.pc = "answered" /\ new.poll \in Polls
  BY <1>1, <1>2, FreshType DEF Tab
<1>4. cookie' \in [Respondents -> Messages \cup {Nil}]
  BY DEF FlashAndRedirect, UiTypeOK
<1>5. tab'[v] = new => TabStep(v)
  BY <1>3 DEF TabStep
<1> QED BY <1>2, <1>3, <1>4, <1>5, OneTabSteps

LEMMA VoterStep ==
    ASSUME UiTypeOK, NEW v \in Respondents, Voter(v)
    PROVE  TabsStep
<1>1. tab[v] \in Tab /\ cookie \in [Respondents -> Messages \cup {Nil}]
  BY DEF UiTypeOK
<1>2. Fresh(v) \in Tab /\ Fresh(v).pc = "blank"
  BY FreshType
<1>3. ASSUME NEW p \in Polls, OpenPage(v, p) PROVE TabsStep
  <2>1. cookie' \in [Respondents -> Messages \cup {Nil}]
    BY <1>1, <1>3 DEF OpenPage
  <2>2. CASE PollCache[p] = Nil
    <3>1. tab' = [tab EXCEPT ![v] = Fresh(v)]
      BY <1>3, <2>2 DEF OpenPage
    <3>2. tab'[v] = Fresh(v) => TabStep(v)
      BY <1>2 DEF TabStep
    <3> QED BY <1>2, <2>1, <3>1, <3>2, OneTabSteps
  <2>3. CASE PollCache[p] # Nil
    <3> DEFINE questions == PollCache[p].spec.questions
               open == PollCache[p].status.phase = "Open"
               told == IF cookie[v] = Nil THEN Fresh(v).told ELSE cookie[v]
    <3>1. tab' = [tab EXCEPT ![v] = [Fresh(v) EXCEPT !.pc = "page", !.poll = p,
                              !.page = questions, !.open = open, !.told = told]]
      BY <1>3, <2>3 DEF OpenPage
    <3>2. questions \in Asked /\ open \in BOOLEAN /\ told \in Messages \cup {Nil}
      BY <1>1, <1>2, <2>3, CachedQuestions DEF Tab
    <3> HIDE DEF questions, open, told
    <3> DEFINE new == [Fresh(v) EXCEPT !.pc = "page", !.poll = p, !.page = questions,
                                       !.open = open, !.told = told]
    <3>3. new \in Tab /\ new.pc = "page" /\ new.poll = p /\ new.page = questions
      BY <1>2, <3>2 DEF Tab
    <3> HIDE DEF new
    <3>4. tab'[v] = new => TabStep(v)
      BY <2>3, <3>3 DEF TabStep, questions
    <3> QED BY <2>1, <3>1, <3>3, <3>4, OneTabSteps DEF new
  <2> QED BY <2>2, <2>3
<1>4. CASE SubmitForm(v)
  <2>1. PICK form \in Forms(tab[v].page) :
           tab' = [tab EXCEPT ![v].pc = "posted", ![v].form = form,
                              ![v].posts = @ + 1, ![v].told = Nil]
    BY <1>4 DEF SubmitForm
  <2>2. PICK new : /\ new = [tab[v] EXCEPT !.pc = "posted", !.form = form,
                                           !.posts = @ + 1, !.told = Nil]
                   /\ tab' = [tab EXCEPT ![v] = new]
    BY <2>1 DEF UiTypeOK
  <2>3. tab[v].pc = "page" /\ tab[v].page \in Asked /\ tab[v].posts + 1 \in 0..MaxPosts
    BY <1>1, <1>4, UiAssumption DEF SubmitForm, UiTypeOK, Tab
  <2>4. form \in [Questions -> Input]
    BY <2>3, FormType
  <2>5. /\ new \in Tab /\ new.pc = "posted" /\ new.poll = tab[v].poll
        /\ new.page = tab[v].page /\ new.form = form
    BY <1>1, <2>2, <2>3, <2>4 DEF Tab
  <2>6. tab'[v] = new => TabStep(v)
    BY <2>3, <2>5 DEF TabStep
  <2>7. UNCHANGED cookie
    BY <1>4 DEF SubmitForm
  <2> QED BY <1>1, <2>2, <2>5, <2>6, <2>7, OneTabSteps
<1>5. CASE CookieExpires(v)
  BY <1>1, <1>5, TabsStay DEF CookieExpires
<1> QED BY <1>3, <1>4, <1>5 DEF Voter

LEMMA HandlerStep ==
    ASSUME UiTypeOK, NEW v \in Respondents, Handler(v)
    PROVE  TabsStep
<1>1. tab[v] \in Tab /\ cookie \in [Respondents -> Messages \cup {Nil}]
  BY DEF UiTypeOK
<1>2. {"thanks", "unbuilt", "refused"} \subseteq Messages
  BY DEF Messages
<1>3. CASE ReadPoll(v)
  <2> DEFINE p == tab[v].poll
             questions == PollCache[p].spec.questions
  <2>1. tab[v].pc = "posted" /\ p \in Polls
    BY <1>3 DEF ReadPoll, UiTypeOK
  <2>2. CASE tab' = [tab EXCEPT ![v] = Fresh(v)] /\ UNCHANGED cookie
    <3>1. tab'[v] = Fresh(v) => TabStep(v)
      BY FreshType DEF TabStep
    <3> QED BY <1>1, <2>2, <3>1, FreshType, OneTabSteps
  <2>3. CASE FlashAndRedirect(v, "unbuilt")
    BY <1>2, <2>1, <2>3, FlashStep
  <2>4. CASE /\ PollCache[p] # Nil
             /\ BuildAnswers(questions, tab[v].form) # << >>
             /\ tab' = [tab EXCEPT ![v].pc = "creating", ![v].read = questions]
             /\ UNCHANGED cookie
    <3>1. questions \in Asked
      BY <2>1, <2>4, CachedQuestions
    <3> HIDE DEF questions
    <3>2. PICK new : /\ new = [tab[v] EXCEPT !.pc = "creating", !.read = questions]
                     /\ tab' = [tab EXCEPT ![v] = new]
      BY <2>4 DEF UiTypeOK
    <3>3. /\ new \in Tab /\ new.pc = "creating" /\ new.read = questions
          /\ new.poll = tab[v].poll /\ new.page = tab[v].page /\ new.form = tab[v].form
      BY <1>1, <3>1, <3>2 DEF Tab
    <3>4. tab'[v] = new => TabStep(v)
      BY <2>1, <2>4, <3>3 DEF TabStep, questions
    <3> QED BY <1>1, <2>4, <3>2, <3>3, <3>4, OneTabSteps
  <2> QED BY <1>3, <2>2, <2>3, <2>4 DEF ReadPoll
<1>4. CASE CreateVote(v)
  BY <1>2, <1>4, FlashStep DEF CreateVote
<1>5. CASE CreateVoteFails(v)
  BY <1>2, <1>5, FlashStep DEF CreateVoteFails
<1> QED BY <1>3, <1>4, <1>5 DEF Handler

(* Nothing else touches the browsers.                                       *)
LEMMA EachTabSteps ==
    ASSUME UiTypeOK, [UiNext]_allVars
    PROVE  TabsStep
<1>1. CASE UNCHANGED allVars \/ Cluster \/ Cancel \/ Goroutine \/ Start
  <2>1. UNCHANGED uiVars
    BY <1>1 DEF allVars, Cluster, Cancel, Goroutine, Listen, ListenerOpens, ListenerFails,
       ServerClosed, SendResult, Start, SelectCancelled, SelectError, ShutdownReturns, Drain
  <2>2. UNCHANGED tab /\ cookie' \in [Respondents -> Messages \cup {Nil}]
    BY <2>1 DEF uiVars, UiTypeOK
  <2> QED BY <2>2, TabsStay
<1> QED BY <1>1, VoterStep, HandlerStep DEF UiNext

----------------------------------------------------------------------------
(* Type correctness *)

LEMMA UiTypeInitially == UiInit => UiTypeOK
<1> SUFFICES ASSUME UiInit PROVE UiTypeOK
  OBVIOUS
<1>1. ApiTypeOK
  BY BoundsAssumption DEF UiInit, ApiInit, ApiTypeOK, PollStore, ResponseStore
<1>2. BlankTab \in Tab /\ BlankTab.pc = "blank"
  BY UiAssumption DEF BlankTab, Tab
<1>3. tab \in [Respondents -> Tab] /\ \A v \in Respondents : tab[v].pc = "blank"
  BY <1>2 DEF UiInit
<1>4. cookie \in [Respondents -> Messages \cup {Nil}] /\ lost \in 0..MaxLost
  BY UiAssumption DEF UiInit
<1> QED BY <1>1, <1>3, <1>4 DEF UiTypeOK, UiInit

(* The status the Poll controller publishes.                                *)
LEMMA PublishedType ==
    ASSUME ApiTypeOK, NEW p \in Polls, PollTruth[p] # Nil
    PROVE  [PollTruth[p] EXCEPT
               !.status = DesiredPollStatus(p, PollTruth[p], RespTruth, now)] \in Poll
<1>1. PollTruth[p] \in Poll
  BY SnapshotType DEF PollStore
<1>2. now \in Nat
  BY BoundsAssumption DEF ApiTypeOK
<1>3. ComputePhase(PollTruth[p].spec, PollTruth[p].status, now) \in PollStatus
  BY <1>1, <1>2, ComputePhaseType DEF Poll
<1>4. DesiredPollStatus(p, PollTruth[p], RespTruth, now) \in PollStatus
  BY <1>1, <1>3, DesiredType DEF DesiredPollStatus
<1> QED BY <1>1, <1>4 DEF Poll

LEMMA ClusterType ==
    ASSUME ApiTypeOK, UserStep \/ DeliverToCache \/ \E p \in Polls : PublishStatus(p)
    PROVE  ApiTypeOK'
<1>1. CASE UserStep
  BY <1>1, UserStepType
<1>2. CASE DeliverToCache
  <2>1. ASSUME NEW S, NEW s \in Seq(S), Len(s) \in 1..(MaxLag + 1), Len(s) > 1
        PROVE  Tail(s) \in Seq(S) /\ Len(Tail(s)) \in 1..(MaxLag + 1)
    BY <2>1, BoundsAssumption
  <2> QED BY <1>2, <2>1 DEF DeliverToCache, ApiTypeOK
<1>3. ASSUME NEW p \in Polls, PublishStatus(p) PROVE ApiTypeOK'
  <2>1. PICK obj \in Poll : WritePoll(p, obj)
    BY <1>3, PublishedType DEF PublishStatus
  <2>2. pollV' \in Seq(PollStore) /\ Len(pollV') \in 1..(MaxLag + 1)
    BY <2>1, WritePollFacts
  <2> QED BY <1>3, <2>2 DEF PublishStatus, ApiTypeOK
<1> QED BY <1>1, <1>2, <1>3

LEMMA StoreVoteType ==
    ASSUME UiTypeOK, NEW v \in Respondents, tab[v].pc = "creating",
           StoreVote(v) \/ UNCHANGED respV, UNCHANGED <<pollV, now, ops>>
    PROVE  ApiTypeOK'
<1>1. CASE UNCHANGED respV
  BY <1>1 DEF UiTypeOK, ApiTypeOK
<1>2. CASE StoreVote(v)
  <2>1. NewResponse(VoteSpec(v)) \in PollResponse
    <3>1. VoteSpec(v) \in PollResponseSpec
      BY DEF UiTypeOK
    <3>2. EmptyResponseStatus \in PollResponseStatus
      BY DEF EmptyResponseStatus, PollResponseStatus, PollResponsePhases
    <3> QED BY <3>1, <3>2 DEF PollResponse, NewResponse
  <2>2. \E r \in Responses : WriteResponse(r, NewResponse(VoteSpec(v)))
    BY <1>2 DEF StoreVote
  <2>3. respV' \in Seq(ResponseStore) /\ Len(respV') \in 1..(MaxLag + 1)
    BY <2>1, <2>2, WriteResponseFacts DEF UiTypeOK
  <2> QED BY <2>3 DEF UiTypeOK, ApiTypeOK
<1> QED BY <1>1, <1>2

LEMMA StoreTypeKept ==
    ASSUME UiTypeOK, [UiNext]_allVars
    PROVE  ApiTypeOK' /\ lost' \in 0..MaxLost
<1>0. ApiTypeOK /\ lost \in 0..MaxLost
  BY DEF UiTypeOK
<1>1. ASSUME UNCHANGED apiVars PROVE ApiTypeOK'
  BY <1>0, <1>1 DEF apiVars, ApiTypeOK
<1>2. CASE UNCHANGED allVars \/ Cancel \/ Goroutine \/ Start
  <2>1. UNCHANGED <<apiVars, lost>>
    BY <1>2 DEF allVars, Cancel, Goroutine, Listen, ListenerOpens, ListenerFails,
       ServerClosed, SendResult, Start, SelectCancelled, SelectError, ShutdownReturns, Drain
  <2> QED BY <1>0, <1>1, <2>1
<1>3. CASE Cluster
  BY <1>0, <1>3, ClusterType DEF Cluster
<1>4. ASSUME NEW v \in Respondents, Voter(v) \/ ReadPoll(v)
      PROVE  ApiTypeOK' /\ lost' \in 0..MaxLost
  <2>1. UNCHANGED <<apiVars, lost>>
    BY <1>4 DEF Voter, OpenPage, SubmitForm, CookieExpires, ReadPoll
  <2> QED BY <1>0, <1>1, <2>1
<1>5. ASSUME NEW v \in Respondents, CreateVote(v)
      PROVE  ApiTypeOK' /\ lost' \in 0..MaxLost
  <2>1. /\ tab[v].pc = "creating" /\ (StoreVote(v) \/ UNCHANGED respV)
        /\ UNCHANGED <<pollV, now, ops>> /\ UNCHANGED lost
    BY <1>5 DEF CreateVote
  <2> QED BY <1>0, <2>1, StoreVoteType
<1>6. ASSUME NEW v \in Respondents, CreateVoteFails(v)
      PROVE  ApiTypeOK' /\ lost' \in 0..MaxLost
  <2>1. /\ tab[v].pc = "creating" /\ (StoreVote(v) \/ UNCHANGED respV)
        /\ UNCHANGED <<pollV, now, ops>>
    BY <1>6 DEF CreateVoteFails
  <2>2. lost' \in 0..MaxLost
    BY <1>0, <1>6, UiAssumption DEF CreateVoteFails
  <2> QED BY <2>1, <2>2, StoreVoteType
<1> QED BY <1>2, <1>3, <1>4, <1>5, <1>6 DEF UiNext, Handler

LEMMA UiTypeKept ==
    ASSUME UiTypeOK, ServerInv, [UiNext]_allVars
    PROVE  UiTypeOK'
<1>1. ApiTypeOK' /\ lost' \in 0..MaxLost
  BY StoreTypeKept
<1>2. /\ TabsStep
      /\ tab' \in [Respondents -> Tab]
      /\ cookie' \in [Respondents -> Messages \cup {Nil}]
  BY EachTabSteps DEF TabsStep
<1>3. ASSUME NEW v \in Respondents
      PROVE  LET at == tab'[v].pc
             IN  /\ at # "blank" => tab'[v].poll \in Polls
                 /\ at \in {"page", "posted", "creating"} => tab'[v].page \in Asked
                 /\ at \in {"posted", "creating"} => tab'[v].form \in Forms(tab'[v].page)
                 /\ at = "creating" => tab'[v].read \in Asked
  <2>1. TabStep(v)
    BY <1>2 DEF TabsStep
  <2>2. CASE tab'[v] = tab[v]
    BY <2>2 DEF UiTypeOK
  <2>3. CASE tab'[v].pc = "blank"
    BY <2>3
  <2>4. CASE tab'[v].pc = "answered" /\ tab'[v].poll \in Polls
    BY <2>4
  <2>5. CASE /\ tab'[v].pc = "page" /\ tab'[v].poll \in Polls
             /\ PollCache[tab'[v].poll] # Nil
             /\ tab'[v].page = PollCache[tab'[v].poll].spec.questions
    BY <2>5, CachedQuestions
  <2>6. CASE /\ tab[v].pc = "page" /\ tab'[v].pc = "posted"
             /\ tab'[v].poll = tab[v].poll /\ tab'[v].page = tab[v].page
             /\ tab'[v].form \in Forms(tab[v].page)
    BY <2>6 DEF UiTypeOK
  <2>7. CASE /\ tab[v].pc = "posted" /\ tab'[v].pc = "creating"
             /\ tab'[v].poll = tab[v].poll /\ tab'[v].page = tab[v].page
             /\ tab'[v].form = tab[v].form
             /\ PollCache[tab[v].poll] # Nil
             /\ tab'[v].read = PollCache[tab[v].poll].spec.questions
    BY <2>7, CachedQuestions DEF UiTypeOK
  <2> QED BY <2>1, <2>2, <2>3, <2>4, <2>5, <2>6, <2>7 DEF TabStep
<1>4. ASSUME NEW v \in Respondents, tab'[v].pc = "creating"
      PROVE  VoteSpec(v)' \in PollResponseSpec
  <2>1. tab'[v].poll \in Polls /\ tab'[v].form \in [Questions -> Input]
    BY <1>3, <1>4, FormType
  <2>2. BuildAnswers(tab'[v].read, tab'[v].form) \in Seq(PollAnswer)
    BY <2>1, AnswersType
  <2> QED BY <2>1, <2>2 DEF VoteSpec, PollResponseSpec
<1>5. ServerInv' /\ cancelled' \in BOOLEAN /\ closing' \in BOOLEAN
  <2>1. cancelled' \in BOOLEAN /\ closing' \in BOOLEAN
    <3>1. CASE UNCHANGED serverVars
      BY <3>1 DEF serverVars, UiTypeOK
    <3>2. CASE UNCHANGED allVars
      BY <3>2 DEF allVars, serverVars, UiTypeOK
    <3>3. CASE Cancel \/ Goroutine \/ Start
      BY <3>3 DEF UiTypeOK, Cancel, Goroutine, Listen, ListenerOpens, ListenerFails,
         ServerClosed, SendResult, Start, SelectCancelled, SelectError, ShutdownReturns, Drain
    <3> QED BY <3>1, <3>2, <3>3, RequestsLeaveServer DEF UiNext
  <2> QED BY <2>1, ServerInvKept
<1> QED BY <1>1, <1>2, <1>3, <1>4, <1>5 DEF UiTypeOK, ServerInv

(* Each tab has what the step it is at needs, whatever was edited, deleted  *)
(* or closed in the meantime: handleVote never works on a form or a Poll it *)
(* does not have, and what it creates is a response (handlers.go:122-223).  *)
THEOREM UiTypeCorrect == UiSpec => []UiTypeOK
BY UiTypeInitially, UiTypeKept, ServerInvInitially, ServerInvKept, PTL DEF UiSpec

----------------------------------------------------------------------------
(* Votes *)

\* The questions are what the Poll webhook admits.
AskedValid(questions) ==
    \A q \in Questions : questions[q] # Nil => ValidQuestion(questions[q])

\* An input of a plain form.
PlainInput(question, input) ==
    IF question.type = "Choice"
    THEN \A i \in DOMAIN input : Trimmed[input[i]] = input[i]
    ELSE TrimmedText(input).chars = TrimmedText(input).bytes

(* What a page that shows a valid question lets a voter choose.             *)
LEMMA ChosenAsShown ==
    ASSUME NEW question \in PollQuestion, ValidQuestion(question), question.type = "Choice",
           NEW input \in Offered(question), PlainInput(question, input)
    PROVE  /\ input \in Seq(Options)
           /\ TrimmedSelection(input) = input
           /\ IsInjective(input)
           /\ \A i \in DOMAIN input :
                 \E j \in DOMAIN question.choice.options : input[i] = question.choice.options[j]
           /\ question.choice.allowMultipleChoices \/ Len(input) <= 1
<1> DEFINE options == question.choice.options
<1>1. question # Nil /\ question.choice # Nil /\ ValidChoiceOptions(question.choice)
  BY NilAssumption DEF ValidQuestion
<1>2. options \in Seq(Options)
  BY <1>1 DEF PollQuestion, ChoiceQuestion
<1>3. PICK on \in SUBSET DOMAIN options :
         /\ input = Picked(options, on)
         /\ question.choice.allowMultipleChoices \/ Cardinality(on) <= 1
  BY <1>1 DEF Offered
<1>4. IsInjective(options) /\ \A i \in DOMAIN options : options[i] # NoString
  BY <1>1 DEF ValidChoiceOptions, NoString
<1>5. /\ input \in Seq(Options) /\ IsInjective(input) /\ Len(input) = Cardinality(on)
      /\ \A i \in DOMAIN input : \E j \in on : input[i] = options[j]
  <2> HIDE DEF options
  <2> QED BY <1>2, <1>3, <1>4, PickedValues
<1>6. \A i \in DOMAIN input : input[i] # NoString /\ \E j \in DOMAIN options : input[i] = options[j]
  BY <1>4, <1>5
<1>7. TrimmedSelection(input) = input
  BY <1>5, <1>6, KeptSelections DEF Input, PlainInput
<1> QED BY <1>3, <1>5, <1>6, <1>7

(* ... and type.                                                            *)
LEMMA TypedAsShown ==
    ASSUME NEW question \in PollQuestion, ValidQuestion(question), question.type = "FreeText",
           NEW input \in Offered(question)
    PROVE  /\ input \in Seq(Options) /\ Len(input) = 1
           /\ LET limit == question.freeText.maxResponseLength
              IN  /\ limit \in Nat
                  /\ PlainInput(question, input) /\ limit > 0
                        => TrimmedText(input).bytes <= limit
<1> DEFINE limit == question.freeText.maxResponseLength
<1>1. question # Nil /\ question.freeText # Nil
  BY NilAssumption DEF ValidQuestion
<1>2. limit \in Nat
  BY <1>1 DEF PollQuestion, FreeTextQuestion
<1>3. PICK t \in TextInputs : input = <<t>> /\ (limit # 0 => TextOf[t].chars <= limit)
  BY <1>1 DEF Offered
<1>4. t \in Options /\ Trimmed[t] \in Options
  BY <1>3, Strings
<1>5. TrimmedText(input) = TextOf[Trimmed[t]]
  BY <1>3 DEF TrimmedText
<1>6. /\ TextOf[t] \in FreeText /\ TextOf[Trimmed[t]] \in FreeText
      /\ TextOf[Trimmed[t]].chars <= TextOf[t].chars
  BY <1>4, Strings
<1>7. ASSUME PlainInput(question, input), limit > 0
      PROVE  TrimmedText(input).bytes <= limit
  <2>1. TextOf[Trimmed[t]].chars = TextOf[Trimmed[t]].bytes
    BY <1>5, <1>7 DEF PlainInput
  <2>2. TextOf[t].chars \in Nat /\ TextOf[Trimmed[t]].bytes \in Nat
    BY <1>6 DEF FreeText
  <2> HIDE DEF limit
  <2> QED BY <1>2, <1>3, <1>5, <1>6, <1>7, <2>1, <2>2
<1> QED BY <1>2, <1>3, <1>4, <1>7

(* Whatever is chosen in a plain form is chosen once.                       *)
LEMMA ChosenOnce ==
    ASSUME NEW shown \in PollQuestion, ValidQuestion(shown),
           NEW input \in Offered(shown), PlainInput(shown, input)
    PROVE  IsInjective(TrimmedSelection(input))
<1>1. input \in Input
  BY OfferedType
<1>2. CASE shown.type = "Choice"
  BY <1>2, ChosenAsShown
<1>3. CASE shown.type = "FreeText"
  <2>1. Len(input) = 1
    BY <1>3, TypedAsShown
  <2>2. Len(input) <= 1 => IsInjective(TrimmedSelection(input))
    BY <1>1, KeptSelections, Zenon
  <2> QED BY <2>1, <2>2
<1> QED BY <1>2, <1>3 DEF PollQuestion, QuestionTypes

\* The webhook accepts the shape of ans, and what the operator may hold against
\* it is a change of the question; there is none when the question is the one
\* the page showed, and then ans says the input.
FitsInput(ans, input, shown, read) ==
    /\ ValidAnswerShape(ans)
    /\ ValidateAnswer(read, ans) \in
          {"Accepted", "UnknownOption", "TooManyChoices", "TextTooLong"}
    /\ shown = read => /\ ans.selectedOptions \in {<< >>, input}
                       /\ ans.text \in {NoText, TrimmedText(input)}
                       /\ ValidateAnswer(read, ans) = "Accepted"

(* Validation of a plain answer to the question the page showed, and to the *)
(* question it has become.                                                  *)
LEMMA AnswerFits ==
    ASSUME NEW q, NEW shown \in PollQuestion \cup {Nil}, shown # Nil => ValidQuestion(shown),
           NEW read \in PollQuestion, ValidQuestion(read),
           NEW input \in Offered(shown), shown # Nil => PlainInput(shown, input),
           NEW ans, ans = AnswerFrom(q, read, input), ~Blank(ans)
    PROVE  FitsInput(ans, input, shown, read)
<1>0. input \in Input
  BY OfferedType
<1>1. shown # Nil
  <2>1. Filled(input)
    BY <1>0, SkippedIfBlank
  <2>2. shown = Nil => input = << >>
    BY DEF Offered, NoInput
  <2>3. input = << >> => ~Filled(input)
    BY DEF Filled
  <2> QED BY <2>1, <2>2, <2>3
<1>2. /\ shown \in PollQuestion /\ ValidQuestion(shown)
      /\ PlainInput(shown, input) /\ IsInjective(TrimmedSelection(input))
  BY <1>1, ChosenOnce
<1>3. CASE read.type = "Choice"
  <2> DEFINE selected == TrimmedSelection(input)
  <2>1. ans.selectedOptions = selected /\ ans.text = NoText
    BY <1>3 DEF AnswerFrom
  <2>2. selected # << >> /\ \A k \in DOMAIN selected : selected[k] # NoString
    BY <1>0, <2>1, KeptSelections DEF Blank
  <2>3. read.choice # Nil
    BY <1>3 DEF ValidQuestion
  <2> HIDE DEF selected
  <2>4. ValidateAnswer(read, ans) =
           IF ~read.choice.allowMultipleChoices /\ Len(selected) > 1
           THEN "TooManyChoices"
           ELSE SelectionsReason(read.choice.options, selected)
    BY <1>3, <2>1, <2>2, <2>3 DEF ValidateAnswer, ChoiceReason
  <2>5. SelectionsReason(read.choice.options, selected) \in
           {"Accepted", "UnknownOption", "TooManyChoices"}
    BY DEF SelectionsReason
  <2>6. ASSUME shown = read
        PROVE  selected = input /\ ValidateAnswer(read, ans) = "Accepted"
    <3>1. input \in Offered(read) /\ PlainInput(read, input)
      BY <1>2, <2>6
    <3>2. /\ selected \in Seq(Options) /\ selected = input
          /\ IsInjective(selected)
          /\ \A i \in DOMAIN selected : \E j \in DOMAIN read.choice.options :
                selected[i] = read.choice.options[j]
          /\ read.choice.allowMultipleChoices \/ Len(selected) <= 1
      BY <1>3, <3>1, ChosenAsShown DEF selected
    <3>3. DOMAIN selected = 1..Len(selected) /\ Len(selected) \in Nat
      BY <3>2
    <3>4. \A j \in DOMAIN selected :
             /\ selected[j] \in {read.choice.options[i] : i \in DOMAIN read.choice.options}
             /\ ~\E i \in 1..(j - 1) : selected[i] = selected[j]
      BY <3>2, <3>3 DEF IsInjective
    <3>5. SelectionsReason(read.choice.options, selected) = "Accepted"
      BY <3>4 DEF SelectionsReason
    <3> QED BY <2>4, <3>2, <3>3, <3>5
  <2>7. ValidAnswerShape(ans)
    <3>1. IsInjective(selected)
      BY <1>2 DEF selected
    <3> QED BY <2>1, <2>2, <3>1 DEF ValidAnswerShape, NoString
  <2> QED BY <2>1, <2>4, <2>5, <2>6, <2>7 DEF FitsInput
<1>4. CASE read.type = "FreeText"
  <2>1. ans.selectedOptions = << >> /\ ans.text = TrimmedText(input)
    BY <1>4 DEF AnswerFrom
  <2>2. ans.text # NoText
    BY <2>1 DEF Blank
  <2>3. ValidateAnswer(read, ans) =
           IF /\ read.freeText # Nil /\ read.freeText.maxResponseLength > 0
              /\ ans.text.bytes > read.freeText.maxResponseLength
           THEN "TextTooLong" ELSE "Accepted"
    BY <1>4, <2>1, <2>2 DEF ValidateAnswer, FreeTextReason
  <2>4. ValidAnswerShape(ans)
    BY <2>1, <2>2 DEF ValidAnswerShape, IsInjective
  <2>5. ASSUME shown = read PROVE ValidateAnswer(read, ans) = "Accepted"
    <3>1. /\ read.freeText.maxResponseLength \in Nat
          /\ read.freeText.maxResponseLength > 0 =>
                TrimmedText(input).bytes <= read.freeText.maxResponseLength
      BY <1>2, <1>4, <2>5, TypedAsShown
    <3>2. TrimmedText(input).bytes \in Nat
      BY <1>0, KeptText DEF FreeText
    <3> QED BY <2>1, <2>3, <3>1, <3>2
  <2> QED BY <2>1, <2>3, <2>4, <2>5 DEF FitsInput
<1> QED BY <1>3, <1>4 DEF PollQuestion, QuestionTypes

(* An input is answered exactly if something was entered, when the question *)
(* is the one the page showed.                                              *)
LEMMA FilledIsAnswered ==
    ASSUME NEW q, NEW question \in PollQuestion, ValidQuestion(question),
           NEW input \in Offered(question)
    PROVE  Filled(input) <=> ~Blank(AnswerFrom(q, question, input))
<1>1. input \in Input
  BY OfferedType
<1>2. CASE question.type = "Choice"
  BY <1>1, <1>2, SkippedIfBlank
<1>3. CASE question.type = "FreeText"
  <2>1. DOMAIN input = {1} /\ input # << >>
    BY <1>3, TypedAsShown
  <2>2. Filled(input) <=> Trimmed[input[1]] # NoString
    BY <2>1 DEF Filled, NoString
  <2> QED BY <1>1, <1>3, <2>1, <2>2, SkippedIfBlank
<1> QED BY <1>2, <1>3 DEF PollQuestion, QuestionTypes

(* What buildAnswers makes of a plain form of a valid page, for the         *)
(* questions of another valid Poll.                                         *)
LEMMA FormFits ==
    ASSUME NEW page \in Asked, AskedValid(page), NEW read \in Asked, AskedValid(read),
           NEW form \in Forms(page), PlainForm(page, form),
           NEW answers, OneToEach(answers, read, form)
    PROVE  /\ VoteFits(page, read, form, answers)
           /\ \A i \in DOMAIN answers : ValidAnswerShape(answers[i])
<1> DEFINE To(q) == {i \in DOMAIN answers : answers[i].questionID = q}
<1>1. ASSUME NEW q \in Questions
      PROVE  /\ form[q] \in Offered(page[q]) /\ form[q] \in Input
             /\ page[q] # Nil => PlainInput(page[q], form[q])
             /\ page[q] \in PollQuestion \cup {Nil} /\ read[q] \in PollQuestion \cup {Nil}
             /\ page[q] # Nil => ValidQuestion(page[q])
             /\ read[q] # Nil => ValidQuestion(read[q])
  BY FormType DEF Asked, AskedValid, PlainForm, PlainInput
<1>2. ASSUME NEW i \in DOMAIN answers, NEW q, q = answers[i].questionID
      PROVE  /\ q \in Questions /\ read[q] # Nil
             /\ answers[i] = AnswerFrom(q, read[q], form[q]) /\ ~Blank(answers[i])
  BY <1>2 DEF OneToEach, FilledIn
<1>3. ASSUME NEW i \in DOMAIN answers, NEW q, q = answers[i].questionID
      PROVE  /\ ValidAnswerShape(answers[i])
             /\ Filled(form[q])
             /\ AnswerReason(read, answers[i]) \in
                   {"Accepted", "UnknownOption", "TooManyChoices", "TextTooLong"}
             /\ page[q] = read[q] =>
                   /\ answers[i].selectedOptions \in {<< >>, form[q]}
                   /\ answers[i].text \in {NoText, TrimmedText(form[q])}
                   /\ AnswerReason(read, answers[i]) = "Accepted"
  <2> DEFINE ans == answers[i]
  <2>1. /\ q \in Questions /\ read[q] # Nil
        /\ ans = AnswerFrom(q, read[q], form[q]) /\ ~Blank(ans)
    BY <1>2, <1>3
  <2>2. AnswerReason(read, ans) = ValidateAnswer(read[q], ans)
    BY <1>3, <2>1 DEF AnswerReason
  <2>3. read[q] \in PollQuestion /\ ValidQuestion(read[q])
    BY <1>1, <2>1
  <2>4. /\ form[q] \in Offered(page[q]) /\ form[q] \in Input
        /\ page[q] \in PollQuestion \cup {Nil}
        /\ page[q] # Nil => ValidQuestion(page[q]) /\ PlainInput(page[q], form[q])
    BY <1>1, <2>1
  <2> HIDE DEF ans
  <2>5. FitsInput(ans, form[q], page[q], read[q])
    BY <2>1, <2>3, <2>4, AnswerFits
  <2>6. Filled(form[q])
    BY <2>1, <2>4, SkippedIfBlank
  <2> QED BY <2>2, <2>5, <2>6 DEF ans, FitsInput
<1>4. ASSUME NEW q \in Questions, page[q] = read[q]
      PROVE  Cardinality(To(q)) = IF Filled(form[q]) THEN 1 ELSE 0
  <2>1. Filled(form[q]) <=> q \in FilledIn(read, form)
    <3>1. CASE read[q] = Nil
      <4>1. form[q] = << >>
        BY <1>1, <1>4, <3>1 DEF Offered, NoInput
      <4> QED BY <3>1, <4>1 DEF FilledIn, Filled
    <3>2. CASE read[q] # Nil
      <4>1. /\ read[q] \in PollQuestion /\ ValidQuestion(read[q])
            /\ form[q] \in Offered(read[q])
        BY <1>1, <1>4, <3>2
      <4> QED BY <3>2, <4>1, FilledIsAnswered DEF FilledIn
    <3> QED BY <3>1, <3>2
  <2>2. CASE Filled(form[q])
    <3>1. PICK i \in DOMAIN answers : answers[i].questionID = q
      BY <2>1, <2>2 DEF OneToEach
    <3>2. To(q) = {i}
      BY <3>1 DEF OneToEach
    <3> QED BY <2>2, <3>2, FS_Singleton
  <2>3. CASE ~Filled(form[q])
    <3>1. To(q) = {}
      BY <2>1, <2>3 DEF OneToEach
    <3> QED BY <2>3, <3>1, FS_EmptySet
  <2> QED BY <2>2, <2>3
<1>5. ASSUME NEW q \in Questions, NEW i \in To(q)
      PROVE  i \in DOMAIN answers /\ q = answers[i].questionID
  BY <1>5
<1>6. VoteFits(page, read, form, answers)
  <2> HIDE DEF To
  <2>1. \A q \in Questions :
           /\ \A i \in To(q) :
                 /\ Filled(form[q])
                 /\ AnswerReason(read, answers[i]) \in
                       {"Accepted", "UnknownOption", "TooManyChoices", "TextTooLong"}
           /\ page[q] = read[q] =>
                 /\ Cardinality(To(q)) = IF Filled(form[q]) THEN 1 ELSE 0
                 /\ \A i \in To(q) :
                       /\ answers[i].selectedOptions \in {<< >>, form[q]}
                       /\ answers[i].text \in {NoText, TrimmedText(form[q])}
                       /\ AnswerReason(read, answers[i]) = "Accepted"
    BY <1>3, <1>4, <1>5
  <2> QED BY <2>1 DEF VoteFits, To
<1> QED BY <1>3, <1>6

\* The Poll webhook has admitted every version of a Poll, and so the questions of
\* every page and of every reading of a handler.
PollsValid ==
    \A i \in 1..Len(pollV) : \A p \in Polls :
       pollV[i][p] # Nil => ValidPollSpec(pollV[i][p].spec)

TabsValid ==
    \A v \in Respondents :
       /\ tab[v].pc \in {"page", "posted", "creating"} => AskedValid(tab[v].page)
       /\ tab[v].pc = "creating" => AskedValid(tab[v].read)

LEMMA ValidAfterWrite ==
    ASSUME ApiTypeOK, PollsValid, NEW p \in Polls, NEW obj \in Poll \cup {Nil},
           obj # Nil => ValidPollSpec(obj.spec), WritePoll(p, obj)
    PROVE  PollsValid'
<1> SUFFICES ASSUME NEW i \in 1..Len(pollV'), NEW q \in Polls, pollV'[i][q] # Nil
             PROVE  ValidPollSpec(pollV'[i][q].spec)
  BY DEF PollsValid, ValidPollSpec, ValidQuestion, ValidChoiceOptions
<1>1. Len(pollV) \in 1..Len(pollV) /\ PollTruth = pollV[Len(pollV)]
  BY EndsOfStream
<1>2. \/ i \in 1..Len(pollV) /\ pollV'[i] = pollV[i]
      \/ /\ i = Len(pollV) + 1 /\ pollV'[i][p] = obj
         /\ \A r \in Polls \ {p} : pollV'[i][r] = PollTruth[r]
  BY VersionsAfterWrite
<1>3. CASE i \in 1..Len(pollV) /\ pollV'[i] = pollV[i]
  BY <1>3 DEF PollsValid
<1>4. CASE pollV'[i][q] = obj
  BY <1>4
<1>5. CASE pollV'[i][q] = PollTruth[q]
  BY <1>1, <1>5 DEF PollsValid
<1> QED BY <1>2, <1>3, <1>4, <1>5

LEMMA PollsValidKept ==
    ASSUME EnableWebhooks, ApiTypeOK, PollsValid, [UiNext]_allVars
    PROVE  PollsValid'
<1>1. ASSUME UNCHANGED pollV PROVE PollsValid'
  BY <1>1 DEF PollsValid
<1>2. \A p \in Polls : PollTruth[p] # Nil => PollTruth[p] \in Poll /\ ValidPollSpec(PollTruth[p].spec)
  BY SnapshotType, EndsOfStream DEF PollsValid, PollStore
<1>3. CASE UserStep
  <2>1. ASSUME NEW p \in Polls, NEW spec \in PollSpecs, CreatePoll(p, spec)
        PROVE  PollsValid'
    <3> DEFINE obj == [uid |-> ops + 1, generation |-> 1, spec |-> spec,
                       status |-> EmptyPollStatus]
    <3>1. obj \in Poll
      BY SpecsAssumption, BoundsAssumption DEF Poll, ApiTypeOK, EmptyPollStatus,
         PollStatus, PollPhases, QuestionResults
    <3>2. ValidPollSpec(obj.spec) /\ WritePoll(p, obj)
      BY <2>1 DEF CreatePoll, PollCreateAllowed
    <3> HIDE DEF obj
    <3> QED BY <3>1, <3>2, ValidAfterWrite
  <2>2. ASSUME NEW p \in Polls, NEW spec \in PollSpecs, UpdatePoll(p, spec)
        PROVE  PollsValid'
    <3> DEFINE obj == [PollTruth[p] EXCEPT !.spec = spec, !.generation = @ + 1]
    <3>1. PollTruth[p] \in Poll
      BY <1>2, <2>2 DEF UpdatePoll
    <3>2. obj \in Poll /\ obj.spec = spec
      BY <3>1, SpecsAssumption, EditedPollType DEF Poll
    <3>3. ValidPollSpec(spec) /\ WritePoll(p, obj)
      BY <2>2 DEF UpdatePoll, PollUpdateAllowed
    <3> HIDE DEF obj
    <3> QED BY <3>2, <3>3, ValidAfterWrite
  <2>3. ASSUME NEW p \in Polls, DeletePoll(p) PROVE PollsValid'
    <3>1. WritePoll(p, Nil)
      BY <2>3 DEF DeletePoll
    <3> QED BY <3>1, ValidAfterWrite
  <2>4. ASSUME NEW r \in Responses,
               \/ \E spec \in ResponseSpecs : CreateResponse(r, spec)
               \/ \E spec \in ResponseSpecs : UpdateResponse(r, spec)
               \/ DeleteResponse(r) \/ ForegroundDeleteResponse(r)
        PROVE  UNCHANGED pollV
    BY <2>4 DEF CreateResponse, UpdateResponse, DeleteResponse, ForegroundDeleteResponse
  <2> QED BY <1>1, <1>3, <2>1, <2>2, <2>3, <2>4 DEF UserStep
<1>4. CASE DeliverToCache
  <2>1. CASE pollV' = Tail(pollV) /\ Len(pollV) > 1
    <3>1. /\ Len(pollV') = Len(pollV) - 1 /\ Len(pollV) \in Nat
          /\ \A i \in 1..Len(pollV') : pollV'[i] = pollV[i + 1]
      BY <2>1 DEF ApiTypeOK
    <3>2. \A i \in 1..Len(pollV') : i + 1 \in 1..Len(pollV)
      BY <3>1
    <3> QED BY <3>1, <3>2 DEF PollsValid
  <2> QED BY <1>1, <1>4, <2>1 DEF DeliverToCache
<1>5. ASSUME NEW p \in Polls, PublishStatus(p) PROVE PollsValid'
  <2> DEFINE obj == [PollTruth[p] EXCEPT
                        !.status = DesiredPollStatus(p, PollTruth[p], RespTruth, now)]
  <2>1. PollTruth[p] # Nil /\ WritePoll(p, obj)
    BY <1>5 DEF PublishStatus
  <2>2. obj \in Poll
    BY <2>1, PublishedType
  <2>3. obj.spec = PollTruth[p].spec
    BY <1>2, <2>1 DEF Poll
  <2> HIDE DEF obj
  <2> QED BY <1>2, <2>1, <2>2, <2>3, ValidAfterWrite
<1>6. CASE UNCHANGED allVars \/ Cancel \/ Goroutine \/ Start
  BY <1>1, <1>6 DEF allVars, apiVars, Cancel, Goroutine, Listen, ListenerOpens, ListenerFails,
     ServerClosed, SendResult, Start, SelectCancelled, SelectError, ShutdownReturns, Drain
<1>7. ASSUME NEW v \in Respondents, Voter(v) \/ Handler(v) PROVE UNCHANGED pollV
  BY <1>7 DEF apiVars, Voter, OpenPage, SubmitForm, CookieExpires, Handler, ReadPoll,
     CreateVote, CreateVoteFails
<1> QED BY <1>1, <1>3, <1>4, <1>5, <1>6, <1>7 DEF UiNext, Cluster

(* What a page shows, and what a handler reads, is in the cache.            *)
LEMMA TabsValidKept ==
    ASSUME UiTypeOK, PollsValid, TabsValid, TabsStep
    PROVE  TabsValid'
<1>1. ASSUME NEW p \in Polls, PollCache[p] # Nil
      PROVE  AskedValid(PollCache[p].spec.questions)
  <2>1. PollCache = pollV[1] /\ 1 \in 1..Len(pollV)
    BY EndsOfStream DEF UiTypeOK
  <2> QED BY <1>1, <2>1 DEF PollsValid, AskedValid, ValidPollSpec
<1>2. ASSUME NEW v \in Respondents
      PROVE  /\ tab'[v].pc \in {"page", "posted", "creating"} => AskedValid(tab'[v].page)
             /\ tab'[v].pc = "creating" => AskedValid(tab'[v].read)
  <2>1. TabStep(v)
    BY DEF TabsStep
  <2>2. tab[v].pc # "blank" => tab[v].poll \in Polls
    BY DEF UiTypeOK
  <2> QED BY <1>1, <2>1, <2>2 DEF TabStep, TabsValid
<1> QED BY <1>2 DEF TabsValid, AskedValid

\* answers says what was entered in form, for the questions read: of each at most
\* once, either by a text or by selections, nothing that was not entered, and
\* leaving out no value entered for a question that takes choices nor any other
\* question whose first value is not blank.
SaysWhatWasEntered(answers, read, form) ==
    LET Entered(q) == {Trimmed[form[q][k]] : k \in DOMAIN form[q]} \ {NoString}
        Selected(q, s) ==
            \E i \in DOMAIN answers : \E k \in DOMAIN answers[i].selectedOptions :
               answers[i].questionID = q /\ answers[i].selectedOptions[k] = s
    IN  /\ \A i, j \in DOMAIN answers :
              answers[i].questionID = answers[j].questionID => i = j
        /\ \A i \in DOMAIN answers :
              LET q == answers[i].questionID
              IN  /\ q \in Questions /\ read[q] # Nil
                  /\ (answers[i].selectedOptions # << >>) # (answers[i].text # NoText)
                  /\ \A k \in DOMAIN answers[i].selectedOptions :
                        answers[i].selectedOptions[k] \in Entered(q)
                  /\ answers[i].text # NoText =>
                        answers[i].text \in {TextOf[s] : s \in Entered(q)}
        /\ \A q \in Questions :
              read[q] # Nil =>
                 IF read[q].type = "Choice" THEN \A s \in Entered(q) : Selected(q, s)
                 ELSE form[q] # << >> /\ Trimmed[form[q][1]] # NoString =>
                         \E i \in DOMAIN answers : answers[i].questionID = q

\* The vote a handler creates has an answer and says what was entered, whatever
\* the questions of the page have become: edited, gone, or replaced by ones of
\* the other type (handlers.go:228-270; the list map of pollresponse_types.go:86
\* demands one answer for each question).
OneAnswerEach ==
    \A v \in Respondents :
       tab[v].pc = "creating" =>
          /\ VoteSpec(v).answers # << >>
          /\ SaysWhatWasEntered(VoteSpec(v).answers, tab[v].read, tab[v].form)

(* One answer of buildAnswers says something, and only what was entered.    *)
LEMMA AnswerSays ==
    ASSUME NEW q, NEW question, NEW values \in Input,
           NEW ans, ans = AnswerFrom(q, question, values), ~Blank(ans)
    PROVE  LET entered == {Trimmed[values[k]] : k \in DOMAIN values} \ {NoString}
           IN  /\ (ans.selectedOptions # << >>) # (ans.text # NoText)
               /\ \A k \in DOMAIN ans.selectedOptions : ans.selectedOptions[k] \in entered
               /\ ans.text # NoText => ans.text \in {TextOf[s] : s \in entered}
<1> DEFINE entered == {Trimmed[values[k]] : k \in DOMAIN values} \ {NoString}
<1>1. CASE question.type = "Choice"
  <2>1. ans.selectedOptions = TrimmedSelection(values) /\ ans.text = NoText
    BY <1>1 DEF AnswerFrom
  <2>2. \A k \in DOMAIN TrimmedSelection(values) : TrimmedSelection(values)[k] \in entered
    BY KeptSelections
  <2> QED BY <2>1, <2>2 DEF Blank
<1>2. CASE question.type # "Choice"
  <2>1. ans.selectedOptions = << >> /\ ans.text = TrimmedText(values)
    BY <1>2 DEF AnswerFrom
  <2>2. ans.text # NoText
    BY <2>1 DEF Blank
  <2>3. /\ 1 \in DOMAIN values /\ Trimmed[values[1]] # NoString
        /\ ans.text = TextOf[Trimmed[values[1]]]
    <3>1. values = << >> \/ 1 \in DOMAIN values
      BY DEF Input
    <3> QED BY <2>1, <2>2, <3>1, KeptText
  <2>4. Trimmed[values[1]] \in entered
    BY <2>3
  <2> QED BY <2>1, <2>2, <2>3, <2>4
<1> QED BY <1>1, <1>2

LEMMA BuiltFromForm ==
    ASSUME NEW page \in Asked, NEW form \in Forms(page), NEW read,
           NEW answers, OneToEach(answers, read, form)
    PROVE  SaysWhatWasEntered(answers, read, form)
<1>1. \A q \in Questions : form[q] \in Input
  BY FormType
<1>2. ASSUME NEW i \in DOMAIN answers, NEW q, q = answers[i].questionID
      PROVE  LET entered == {Trimmed[form[q][k]] : k \in DOMAIN form[q]} \ {NoString}
             IN  /\ q \in Questions /\ read[q] # Nil
                 /\ (answers[i].selectedOptions # << >>) # (answers[i].text # NoText)
                 /\ \A k \in DOMAIN answers[i].selectedOptions :
                       answers[i].selectedOptions[k] \in entered
                 /\ answers[i].text # NoText =>
                       answers[i].text \in {TextOf[s] : s \in entered}
  <2>1. /\ q \in Questions /\ read[q] # Nil
        /\ answers[i] = AnswerFrom(q, read[q], form[q]) /\ ~Blank(answers[i])
    BY <1>2 DEF OneToEach, FilledIn
  <2> QED BY <1>1, <2>1, AnswerSays
<1>3. \A i, j \in DOMAIN answers :
         answers[i].questionID = answers[j].questionID => i = j
  BY DEF OneToEach
<1>4. ASSUME NEW q \in Questions, read[q] # Nil,
             ~Blank(AnswerFrom(q, read[q], form[q]))
      PROVE  \E i \in DOMAIN answers :
                answers[i].questionID = q /\ answers[i] = AnswerFrom(q, read[q], form[q])
  <2>1. q \in FilledIn(read, form)
    BY <1>4 DEF FilledIn
  <2> QED BY <2>1 DEF OneToEach
<1>5. ASSUME NEW q \in Questions, read[q] # Nil, read[q].type = "Choice",
             NEW k \in DOMAIN form[q], Trimmed[form[q][k]] # NoString
      PROVE  \E i \in DOMAIN answers : \E m \in DOMAIN answers[i].selectedOptions :
                /\ answers[i].questionID = q
                /\ answers[i].selectedOptions[m] = Trimmed[form[q][k]]
  <2>1. Filled(form[q])
    BY <1>5 DEF Filled, NoString
  <2>2. ~Blank(AnswerFrom(q, read[q], form[q]))
    BY <1>1, <1>5, <2>1, SkippedIfBlank
  <2>3. PICK i \in DOMAIN answers :
             answers[i].questionID = q /\ answers[i] = AnswerFrom(q, read[q], form[q])
    BY <1>4, <1>5, <2>2
  <2>4. answers[i].selectedOptions = TrimmedSelection(form[q])
    BY <1>5, <2>3 DEF AnswerFrom
  <2> QED BY <1>1, <1>5, <2>3, <2>4, KeptSelections
<1>6. ASSUME NEW q \in Questions, read[q] # Nil, read[q].type # "Choice",
             form[q] # << >>, Trimmed[form[q][1]] # NoString
      PROVE  \E i \in DOMAIN answers : answers[i].questionID = q
  <2>1. ~Blank(AnswerFrom(q, read[q], form[q]))
    BY <1>1, <1>6, SkippedIfBlank
  <2> QED BY <1>4, <1>6, <2>1
<1> QED BY <1>2, <1>3, <1>5, <1>6 DEF SaysWhatWasEntered

\* A handler goes on only with answers.
HandlerInv ==
    \A v \in Respondents :
       tab[v].pc = "creating" => BuildAnswers(tab[v].read, tab[v].form) # << >>

LEMMA HandlerInvKept ==
    ASSUME HandlerInv, TabsStep
    PROVE  HandlerInv'
<1> SUFFICES ASSUME NEW v \in Respondents, tab'[v].pc = "creating"
             PROVE  BuildAnswers(tab'[v].read, tab'[v].form) # << >>
  BY DEF HandlerInv
<1>1. TabStep(v)
  BY DEF TabsStep
<1> QED BY <1>1 DEF TabStep, HandlerInv

LEMMA TabsInitially == UiInit => HandlerInv /\ TabsValid /\ PollsValid
<1> SUFFICES ASSUME UiInit PROVE HandlerInv /\ TabsValid /\ PollsValid
  OBVIOUS
<1>1. \A v \in Respondents : tab[v].pc = "blank"
  BY DEF UiInit, BlankTab
<1>2. PollsValid
  BY DEF UiInit, ApiInit, PollsValid
<1> QED BY <1>1, <1>2 DEF HandlerInv, TabsValid

(* However old the page a vote was filled in on, and whatever became of the *)
(* Poll since: what the handler creates has an answer, at most one to each  *)
(* question, says nothing that was not entered, mixes no text with          *)
(* selections, and leaves out no value entered for a question that takes    *)
(* choices nor any other question whose first value is not blank; with      *)
(* webhooks on or off (handlers.go:176-200, 228-270).                       *)
THEOREM VotesAnswerOnce == UiSpec => []OneAnswerEach
<1>1. UiTypeOK /\ HandlerInv => OneAnswerEach
  <2> SUFFICES ASSUME UiTypeOK, HandlerInv, NEW v \in Respondents, tab[v].pc = "creating"
               PROVE  /\ VoteSpec(v).answers # << >>
                      /\ SaysWhatWasEntered(VoteSpec(v).answers, tab[v].read, tab[v].form)
    BY DEF OneAnswerEach
  <2>1. VoteSpec(v).answers = BuildAnswers(tab[v].read, tab[v].form)
    BY DEF VoteSpec
  <2>2. BuildAnswers(tab[v].read, tab[v].form) # << >>
    BY DEF HandlerInv
  <2>3. OneToEach(BuildAnswers(tab[v].read, tab[v].form), tab[v].read, tab[v].form)
    BY BuildsOneEach
  <2>4. tab[v].page \in Asked /\ tab[v].form \in Forms(tab[v].page)
    BY DEF UiTypeOK
  <2> QED BY <2>1, <2>2, <2>3, <2>4, BuiltFromForm
<1>2. UiTypeOK /\ HandlerInv /\ [UiNext]_allVars => HandlerInv'
  BY HandlerInvKept, EachTabSteps
<1> QED BY <1>1, <1>2, TabsInitially, UiTypeCorrect, PTL DEF UiSpec

(* With the webhooks on, a vote is what the voter filled in: no edit of the *)
(* Poll between the page and the POST makes buildAnswers submit an answer   *)
(* that admission refuses, or that validation rejects for another reason    *)
(* than what was edited (handlers.go:186-270).                              *)
THEOREM VotesAlwaysFit ==
    ASSUME EnableWebhooks
    PROVE  UiSpec => []VotesFit
<1>1. UiTypeOK /\ TabsValid => VotesFit
  <2> SUFFICES ASSUME UiTypeOK, TabsValid, NEW v \in Respondents, tab[v].pc = "creating",
                      PlainForm(tab[v].page, tab[v].form)
               PROVE  /\ ResponseCreateAllowed(VoteSpec(v))
                      /\ VoteFits(tab[v].page, tab[v].read, tab[v].form, VoteSpec(v).answers)
    BY DEF VotesFit
  <2> DEFINE answers == VoteSpec(v).answers
  <2>1. answers = BuildAnswers(tab[v].read, tab[v].form)
    BY DEF VoteSpec
  <2>2. OneToEach(answers, tab[v].read, tab[v].form)
    BY <2>1, BuildsOneEach
  <2>3. /\ tab[v].page \in Asked /\ tab[v].read \in Asked
        /\ tab[v].form \in Forms(tab[v].page)
        /\ AskedValid(tab[v].page) /\ AskedValid(tab[v].read)
    BY DEF UiTypeOK, TabsValid
  <2> HIDE DEF answers
  <2>4. /\ VoteFits(tab[v].page, tab[v].read, tab[v].form, answers)
        /\ \A i \in DOMAIN answers : ValidAnswerShape(answers[i])
    BY <2>2, <2>3, FormFits
  <2> QED BY <2>4 DEF answers, ResponseCreateAllowed, ValidPollResponseSpec
<1>2. UiTypeOK /\ PollsValid /\ [UiNext]_allVars => PollsValid'
  BY PollsValidKept DEF UiTypeOK
<1>3. UiTypeOK /\ PollsValid /\ TabsValid /\ [UiNext]_allVars => TabsValid'
  BY TabsValidKept, EachTabSteps
<1> QED BY <1>1, <1>2, <1>3, TabsInitially, UiTypeCorrect, PTL DEF UiSpec

----------------------------------------------------------------------------
(* The bars of the results *)

(* A remainder of less than the divisor is the number itself.               *)
LEMMA SmallRemainder ==
    ASSUME NEW d \in Nat \ {0}, NEW k \in 0..(d - 1)
    PROVE  k % d = k
OBVIOUS

(* An int32 keeps what fits, and takes the next numbers for negative ones.  *)
LEMMA Int32Value ==
    ASSUME MaxInt32 \in Nat, NEW n \in 0..(2 * MaxInt32 + 1)
    PROVE  Int32(n) = IF n <= MaxInt32 THEN n ELSE n - (2 * MaxInt32 + 2)
<1> DEFINE d == 2 * MaxInt32 + 2
<1>1. d \in Nat \ {0}
  OBVIOUS
<1>2. CASE n <= MaxInt32
  <2>1. n + MaxInt32 + 1 \in 0..(d - 1)
    BY <1>2
  <2> HIDE DEF d
  <2>2. (n + MaxInt32 + 1) % d = n + MaxInt32 + 1
    BY <1>1, <2>1, SmallRemainder
  <2> QED BY <1>2, <2>2 DEF Int32, d
<1>3. CASE n > MaxInt32
  <2>1. n + MaxInt32 + 1 - d \in 0..(d - 1)
    BY <1>3
  <2> HIDE DEF d
  <2>2. (n + MaxInt32 + 1) % d = n + MaxInt32 + 1 - d
    BY <1>1, <2>1
  <2> QED BY <1>3, <2>2 DEF Int32, d
<1> QED BY <1>2, <1>3

LEMMA QuotientBound ==
    ASSUME NEW n \in Nat, NEW d \in Nat \ {0}, NEW k \in Nat, n <= k * d
    PROVE  n \div d \in 0..k
<1> DEFINE quot == n \div d
           rem == n % d
<1>1. /\ quot \in Int /\ rem \in 0..(d - 1)
      /\ n = d * quot + rem
  OBVIOUS
<1>2. quot >= 0
  <2>1. SUFFICES ASSUME quot <= -1 PROVE FALSE
    BY <1>1
  <2> HIDE DEF quot, rem
  <2>2. d * quot <= -d
    BY <1>1, <2>1, SMTT(30)
  <2> QED BY <1>1, <2>2
<1>3. quot <= k
  <2>1. SUFFICES ASSUME quot >= k + 1 PROVE FALSE
    BY <1>1
  <2> HIDE DEF quot, rem
  <2>2. d * quot >= d * (k + 1)
    BY <1>1, <2>1, SMTT(30)
  <2>3. d * (k + 1) = k * d + d
    BY SMTT(30)
  <2> QED BY <1>1, <2>2, <2>3
<1> QED BY <1>1, <1>2, <1>3

(* maxVotes finds the largest number of votes.                              *)
LEMMA MaxVotesIsLargest ==
    ASSUME NEW S, NEW limit \in Nat, NEW votes \in [S -> 0..limit]
    PROVE  /\ MaxVotes(votes) \in 0..limit
           /\ \A o \in S : votes[o] <= MaxVotes(votes)
<1>1. CASE \A o \in S : votes[o] <= 0
  BY <1>1 DEF MaxVotes
<1>2. CASE \E o \in S : ~(votes[o] <= 0)
  <2> DEFINE slack == {limit - votes[o] : o \in S}
             less == OpToRel(<, Nat)
  <2>1. slack \subseteq Nat /\ slack # {}
    BY <1>2
  <2>2. PICK least \in slack : \A n \in slack : <<n, least>> \notin less
    <3>1. IsWellFoundedOn(less, Nat)
      BY NatLessThanWellFounded
    <3> HIDE DEF slack, less
    <3> QED BY <2>1, <3>1, WFMin
  <2>3. \A n \in slack : least <= n
    <3>1. TAKE n \in slack
    <3>2. n \in Nat /\ least \in Nat
      BY <2>1
    <3>3. <<n, least>> \in less <=> n < least
      BY <3>2 DEF OpToRel
    <3> HIDE DEF slack, less
    <3> QED BY <2>2, <3>1, <3>2, <3>3
  <2>4. PICK o \in S : least = limit - votes[o]
    BY <2>2
  <2>5. \A x \in S : votes[x] <= votes[o]
    <3>1. TAKE x \in S
    <3>2. limit - votes[o] <= limit - votes[x]
      BY <2>3, <2>4
    <3> QED BY <3>2
  <2>6. \E m \in {votes[x] : x \in S} : \A x \in S : votes[x] <= m
    BY <2>5
  <2>7. /\ MaxVotes(votes) \in {votes[x] : x \in S}
        /\ \A x \in S : votes[x] <= MaxVotes(votes)
    BY <1>2, <2>6 DEF MaxVotes
  <2> QED BY <2>7
<1> QED BY <1>1, <1>2

(* While a hundred times the votes of the leading option fit in an int32,   *)
(* that is up to 21474836 votes, every bar of the question is drawn with a  *)
(* width of 0 to 100 percent (templates.go:33-47).                          *)
THEOREM BarsFit ==
    ASSUME MaxInt32 \in Nat, NEW limit \in Nat, 100 * limit <= MaxInt32,
           NEW S, NEW votes \in [S -> 0..limit], NEW o \in S
    PROVE  BarWidth(votes[o], MaxVotes(votes)) \in 0..100
<1> DEFINE max == MaxVotes(votes)
           mine == votes[o]
<1>1. max \in 0..limit /\ mine \in 0..max
  <2>1. max \in 0..limit /\ \A x \in S : votes[x] <= max
    BY MaxVotesIsLargest
  <2> HIDE DEF max
  <2> QED BY <2>1
<1> SUFFICES BarWidth(mine, max) \in 0..100
  OBVIOUS
<1> HIDE DEF max, mine
<1>2. CASE max = 0
  BY <1>2 DEF BarWidth
<1>3. CASE max > 0
  <2>1. mine * 100 \in 0..MaxInt32 /\ mine * 100 <= 100 * max
    BY <1>1
  <2>2. Int32(mine * 100) = mine * 100
    BY <2>1, Int32Value
  <2>3. (mine * 100) \div max \in 0..100
    BY <1>1, <1>3, <2>1, QuotientBound
  <2> QED BY <1>1, <1>3, <2>1, <2>2, <2>3 DEF BarWidth, Quotient
<1> QED BY <1>1, <1>2, <1>3

(* A hundred times more votes than that become a negative number, until    *)
(* the product has wrapped all the way round.                               *)
LEMMA WrappedBar ==
    ASSUME MaxInt32 \in Nat, NEW votes \in Nat, NEW max \in Nat \ {0},
           votes * 100 \in (MaxInt32 + 1)..(2 * MaxInt32 + 1)
    PROVE  BarWidth(votes, max) <= 0
<1> DEFINE kept == Int32(votes * 100)
<1>1. kept \in Int /\ kept < 0
  BY Int32Value
<1> HIDE DEF kept
<1>2. (-kept) \div max >= 0
  <2>1. -kept \in Nat /\ -kept <= (-kept) * max
    BY <1>1
  <2> QED BY <2>1, QuotientBound
<1> QED BY <1>1, <1>2 DEF BarWidth, Quotient, kept

(* Beyond that bound the bars stand on their head: an option whose votes    *)
(* exceed it, the leading one among them, is drawn without a bar, while one *)
(* with fewer votes keeps its percentage (templates.go:33-47).              *)
THEOREM BarsWrap ==
    ASSUME MaxInt32 \in Nat, NEW limit \in Nat, 100 * limit <= 2 * MaxInt32 + 1,
           NEW S, NEW votes \in [S -> 0..limit], NEW o \in S,
           100 * MaxVotes(votes) > MaxInt32
    PROVE  IF 100 * votes[o] > MaxInt32
           THEN BarWidth(votes[o], MaxVotes(votes)) <= 0
           ELSE BarWidth(votes[o], MaxVotes(votes)) = (100 * votes[o]) \div MaxVotes(votes)
<1> DEFINE max == MaxVotes(votes)
           mine == votes[o]
<1>1. max \in 0..limit /\ mine \in 0..limit
  BY MaxVotesIsLargest
<1> SUFFICES IF 100 * mine > MaxInt32
             THEN BarWidth(mine, max) <= 0
             ELSE BarWidth(mine, max) = (100 * mine) \div max
  OBVIOUS
<1>2. 100 * max > MaxInt32
  OBVIOUS
<1> HIDE DEF max, mine
<1>3. max \in Nat \ {0} /\ mine * 100 = 100 * mine
  BY <1>1, <1>2
<1>4. CASE 100 * mine > MaxInt32
  <2>1. mine * 100 \in (MaxInt32 + 1)..(2 * MaxInt32 + 1)
    BY <1>1, <1>4
  <2> QED BY <1>1, <1>3, <1>4, <2>1, WrappedBar
<1>5. CASE ~(100 * mine > MaxInt32)
  <2>1. mine * 100 \in 0..MaxInt32
    BY <1>1, <1>5
  <2>2. Int32(mine * 100) = mine * 100
    BY <2>1, Int32Value
  <2> QED BY <1>1, <1>3, <1>5, <2>1, <2>2 DEF BarWidth, Quotient
<1> QED BY <1>4, <1>5
=============================================================================
