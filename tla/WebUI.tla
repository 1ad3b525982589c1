------------------------------- MODULE WebUI --------------------------------
(***************************************************************************)
(* The web UI, internal/ui: voters' browsers, the handlers that serve them  *)
(* from the cache and create their responses, and the HTTP server that the  *)
(* manager starts and stops (Server.Start, its goroutine and its channel).  *)
(* The controllers appear only as the status they publish.                  *)
(*                                                                         *)
(*   browser:  blank -> page -> posted -> creating -> answered -> page ...  *)
(*   Start:    select -> shutdown -> drain -> returned                      *)
(*   its goroutine (listener):  new -> opening -> serving -> sending -> done *)
(***************************************************************************)
EXTENDS ApiServer, VoteForm

CONSTANTS
    MaxPosts,   \* bound: forms one voter submits
    MaxLost     \* bound: calls to the API server whose answer is lost

VARIABLES
    tab,        \* the browser of each respondent
    cookie,     \* the flash cookie in that browser: a kind of message, or Nil
    lost,       \* number of lost answers so far
    cancelled,  \* the context Start was given, also that of every request
    start,      \* where Start is
    listener,   \* where its goroutine is
    errCh,      \* the channel between them: << >>, <<"nil">> or <<"error">>
    closing     \* Shutdown has been called

uiVars == <<tab, cookie>>
serverVars == <<cancelled, start, listener, errCh, closing>>
allVars == <<apiVars, uiVars, serverVars, lost>>

ASSUME UiAssumption == MaxPosts \in Nat /\ MaxLost \in Nat

\* A browser's tab. page and read are the questions of the Poll when the page was
\* rendered and when the handler of the POST read it, open whether the page has
\* a form, posts the forms submitted so far and told the last message displayed.
BlankTab == [pc |-> "blank", poll |-> Nil, page |-> Nil, open |-> FALSE, form |-> Nil,
             read |-> Nil, posts |-> 0, told |-> Nil]

Asked == [Questions -> PollQuestion \cup {Nil}]

Input == Seq(Options)

Messages == {"thanks", "unbuilt", "refused"}

Tab == [pc    : {"blank", "page", "posted", "creating", "answered"},
        poll  : Polls \cup {Nil},
        page  : Asked \cup {Nil},
        open  : BOOLEAN,
        form  : [Questions -> Input] \cup {Nil},
        read  : Asked \cup {Nil},
        posts : 0..MaxPosts,
        told  : Messages \cup {Nil}]

UiInit ==
    /\ ApiInit
    /\ tab = [v \in Respondents |-> BlankTab]
    /\ cookie = [v \in Respondents |-> Nil]
    /\ lost = 0
    /\ cancelled = FALSE
    /\ start = "select"
    /\ listener = "new"
    /\ errCh = << >>
    /\ closing = FALSE

----------------------------------------------------------------------------
(* The browser *)

\* New requests are taken while the listener is open.
Listening == listener = "serving" /\ ~closing

\* What a tab keeps from one page to the next, with a field changed or not.
Fresh(v) == [BlankTab EXCEPT !.posts = tab[v].posts, !.told = tab[v].told]

\* A GET of the Poll's page: its questions, its form if it is Open, and the
\* message of the cookie, which stays. A Poll the cache does not hold is 404.
OpenPage(v, p) ==
    /\ tab[v].pc \in {"blank", "page", "answered"}
    /\ tab[v].pc = "answered" => p = tab[v].poll         \* the redirect
    /\ Listening
    /\ tab' = [tab EXCEPT ![v] =
          IF PollCache[p] = Nil THEN Fresh(v)
          ELSE [Fresh(v) EXCEPT !.pc = "page", !.poll = p,
                                !.page = PollCache[p].spec.questions,
                                !.open = PollCache[p].status.phase = "Open",
                                !.told = IF cookie[v] = Nil THEN @ ELSE cookie[v]]]
    /\ UNCHANGED <<apiVars, cookie, lost, serverVars>>

\* A voter submits the form, and again only after being told that it failed.
SubmitForm(v) ==
    /\ tab[v].pc = "page"
    /\ tab[v].open
    /\ tab[v].posts < MaxPosts
    /\ tab[v].posts > 0 => tab[v].told \in {"unbuilt", "refused"}
    /\ Listening
    /\ \E form \in Forms(tab[v].page) :
          tab' = [tab EXCEPT ![v].pc = "posted", ![v].form = form,
                             ![v].posts = @ + 1, ![v].told = Nil]
    /\ UNCHANGED <<apiVars, cookie, lost, serverVars>>

\* After 30 seconds.
CookieExpires(v) ==
    /\ cookie[v] # Nil
    /\ cookie' = [cookie EXCEPT ![v] = Nil]
    /\ UNCHANGED <<apiVars, tab, lost, serverVars>>

----------------------------------------------------------------------------
(* handleVote *)

\* Mutant of FlashAndRedirect: the redirect does not name the Poll.
FlashAndRedirectHome(v, message) ==
    /\ tab' = [tab EXCEPT ![v] = [Fresh(v) EXCEPT !.pc = "answered"]]
    /\ cookie' = [cookie EXCEPT ![v] = message]

\* The answer of a POST: the cookie and the redirect.
FlashAndRedirect(v, message) ==
    /\ tab' = [tab EXCEPT ![v] = [Fresh(v) EXCEPT !.pc = "answered",
                                                  !.poll = tab[v].poll]]
    /\ cookie' = [cookie EXCEPT ![v] = message]

\* The response made of the form and the Poll the handler has read.
VoteSpec(v) ==
    [pollRef |-> tab[v].poll, respondent |-> v,
     answers |-> BuildAnswers(tab[v].read, tab[v].form)]

\* Get the Poll and build the answers; a Poll that is gone is 404.
ReadPoll(v) ==
    LET poll == PollCache[tab[v].poll]
    IN  /\ tab[v].pc = "posted"
        /\ \/ /\ poll = Nil
              /\ tab' = [tab EXCEPT ![v] = Fresh(v)]
              /\ UNCHANGED cookie
           \/ /\ poll # Nil
              /\ BuildAnswers(poll.spec.questions, tab[v].form) = << >>
              /\ FlashAndRedirect(v, "unbuilt")
           \/ /\ poll # Nil
              /\ BuildAnswers(poll.spec.questions, tab[v].form) # << >>
              /\ tab' = [tab EXCEPT ![v].pc = "creating",
                                    ![v].read = poll.spec.questions]
              /\ UNCHANGED cookie
        /\ UNCHANGED <<apiVars, lost, serverVars>>

\* The server generates a free name and stores the response.
StoreVote(v) ==
    /\ ResponseCreateAllowed(VoteSpec(v))
    /\ \E r \in Responses :
          /\ RespTruth[r] = Nil
          /\ WriteResponse(r, NewResponse(VoteSpec(v)))

CreateVote(v) ==
    /\ tab[v].pc = "creating"
    /\ \/ /\ StoreVote(v)
          /\ FlashAndRedirect(v, "thanks")
       \/ /\ ~ResponseCreateAllowed(VoteSpec(v))
          /\ FlashAndRedirect(v, "refused")
          /\ UNCHANGED respV
    /\ UNCHANGED <<pollV, now, ops, lost, serverVars>>

\* The call returns an error, before or after the server stored the response:
\* its answer is lost, or the context of the request is cancelled.
CreateVoteFails(v) ==
    /\ tab[v].pc = "creating"
    /\ \/ cancelled /\ UNCHANGED lost
       \/ lost < MaxLost /\ lost' = lost + 1
    /\ StoreVote(v) \/ UNCHANGED respV
    /\ FlashAndRedirect(v, "refused")
    /\ UNCHANGED <<pollV, now, ops, serverVars>>

----------------------------------------------------------------------------
(* Server.Start *)

Cancel ==
    /\ ~cancelled
    /\ cancelled' = TRUE
    /\ UNCHANGED <<apiVars, uiVars, lost, start, listener, errCh, closing>>

\* ListenAndServe goes on to open its listener, unless Shutdown came first.
Listen ==
    /\ listener = "new"
    /\ listener' = IF closing THEN "sending" ELSE "opening"
    /\ UNCHANGED <<apiVars, uiVars, lost, cancelled, start, errCh, closing>>

\* The listener is open, perhaps after Shutdown.
ListenerOpens ==
    /\ listener = "opening"
    /\ listener' = "serving"
    /\ UNCHANGED <<apiVars, uiVars, lost, cancelled, start, errCh, closing>>

\* The address is taken, even after Shutdown; or accepting fails while the server
\* runs.
ListenerFails ==
    /\ listener = "opening" \/ (listener = "serving" /\ ~closing)
    /\ listener' = "failing"
    /\ UNCHANGED <<apiVars, uiVars, lost, cancelled, start, errCh, closing>>

\* Shutdown has closed the listener, or came before it was served: ErrServerClosed.
ServerClosed ==
    /\ listener = "serving"
    /\ closing
    /\ listener' = "sending"
    /\ UNCHANGED <<apiVars, uiVars, lost, cancelled, start, errCh, closing>>

\* The channel has room for one value.
SendResult ==
    /\ listener \in {"sending", "failing"}
    /\ errCh = << >>
    /\ errCh' = IF listener = "failing" THEN <<"error">> ELSE <<"nil">>
    /\ listener' = "done"
    /\ UNCHANGED <<apiVars, uiVars, lost, cancelled, start, closing>>

\* Mutant of SelectCancelled: the server is not told to stop.
SelectCancelledOnly ==
    /\ start = "select"
    /\ cancelled
    /\ start' = "shutdown"
    /\ UNCHANGED <<apiVars, uiVars, lost, cancelled, listener, errCh, closing>>

SelectCancelled ==
    /\ start = "select"
    /\ cancelled
    /\ start' = "shutdown"
    /\ closing' = TRUE
    /\ UNCHANGED <<apiVars, uiVars, lost, cancelled, listener, errCh>>

SelectError ==
    /\ start = "select"
    /\ errCh # << >>
    /\ start' = "returned"
    /\ errCh' = << >>
    /\ UNCHANGED <<apiVars, uiVars, lost, cancelled, listener, closing>>

\* Shutdown returns when no request is being handled, or after ten seconds.
ShutdownReturns ==
    /\ start = "shutdown"
    /\ start' = "drain"
    /\ UNCHANGED <<apiVars, uiVars, lost, cancelled, listener, errCh, closing>>

\* Mutant of Drain: the result of the goroutine is not waited for.
DrainSkipped ==
    /\ start = "drain"
    /\ start' = "returned"
    /\ UNCHANGED <<apiVars, uiVars, lost, cancelled, listener, errCh, closing>>

Drain ==
    /\ start = "drain"
    /\ errCh # << >>
    /\ start' = "returned"
    /\ errCh' = << >>
    /\ UNCHANGED <<apiVars, uiVars, lost, cancelled, listener, closing>>

----------------------------------------------------------------------------
(* Around it: users, the status the Poll controller publishes, the caches.  *)

PublishStatus(p) ==
    /\ PollTruth[p] # Nil
    /\ WritePoll(p, [PollTruth[p] EXCEPT
                        !.status = DesiredPollStatus(p, PollTruth[p], RespTruth, now)])
    /\ UNCHANGED <<respV, now, ops>>

DeliverToCache ==
    \/ Len(pollV) > 1 /\ pollV' = Tail(pollV) /\ UNCHANGED <<respV, now, ops>>
    \/ Len(respV) > 1 /\ respV' = Tail(respV) /\ UNCHANGED <<pollV, now, ops>>

Cluster ==
    /\ UserStep \/ DeliverToCache \/ \E p \in Polls : PublishStatus(p)
    /\ UNCHANGED <<uiVars, lost, serverVars>>

Voter(v) ==
    \/ \E p \in Polls : OpenPage(v, p)
    \/ SubmitForm(v)
    \/ CookieExpires(v)

Handler(v) == ReadPoll(v) \/ CreateVote(v) \/ CreateVoteFails(v)

Goroutine == Listen \/ ListenerOpens \/ ListenerFails \/ ServerClosed \/ SendResult

Start == SelectCancelled \/ SelectError \/ ShutdownReturns \/ Drain

UiNext ==
    \/ Cluster
    \/ \E v \in Respondents : Voter(v) \/ Handler(v)
    \/ Cancel
    \/ Goroutine
    \/ Start

UiSpec == UiInit /\ [][UiNext]_allVars

\* The two goroutines run when they can; nothing makes a voter vote, a listener
\* fail or the manager stop.
UiFairSpec ==
    /\ UiSpec
    /\ WF_allVars(Start)
    /\ WF_allVars(Listen \/ ListenerOpens \/ ServerClosed \/ SendResult)

----------------------------------------------------------------------------
(* Properties *)

\* Each tab has what the step it is at needs: the Poll the browser is redirected
\* to, the page the form was on, a form that page offers, the questions read by the
\* handler (handlers.go:122-223); and a vote is a response the CRD takes.
UiTypeOK ==
    /\ ApiTypeOK
    /\ tab \in [Respondents -> Tab]
    /\ \A v \in Respondents :
          LET at == tab[v].pc
          IN  /\ at # "blank" => tab[v].poll \in Polls
              /\ at \in {"page", "posted", "creating"} => tab[v].page \in Asked
              /\ at \in {"posted", "creating"} => tab[v].form \in Forms(tab[v].page)
              /\ at = "creating" => /\ tab[v].read \in Asked
                                    /\ VoteSpec(v) \in PollResponseSpec
    /\ cookie \in [Respondents -> Messages \cup {Nil}]
    /\ lost \in 0..MaxLost
    /\ cancelled \in BOOLEAN /\ closing \in BOOLEAN
    /\ start \in {"select", "shutdown", "drain", "returned"}
    /\ listener \in {"new", "opening", "serving", "sending", "failing", "done"}
    /\ errCh \in {<< >>, <<"nil">>, <<"error">>}

\* Once the manager stops the UI, Start returns, whatever the listener was
\* doing at that moment and whether or not its error came first
\* (server.go:93-105).
StartReturns == cancelled ~> start = "returned"

\* Start leaves nothing behind: its goroutine has ended and its result was taken
\* (server.go:100 "Drain the goroutine so we don't leak").
NothingLeftRunning == start = "returned" => listener = "done" /\ errCh = << >>

\* The options chosen have no white space around them, and a character of the
\* texts typed takes a byte.
PlainForm(page, form) ==
    \A q \in Questions :
       page[q] # Nil =>
          IF page[q].type = "Choice"
          THEN \A i \in DOMAIN form[q] : Trimmed[form[q][i]] = form[q][i]
          ELSE TrimmedText(form[q]).chars = TrimmedText(form[q]).bytes

\* Something was entered that is not blank.
Filled(values) == \E i \in DOMAIN values : Trimmed[values[i]] # ""

VoteFits(page, read, form, answers) ==
    LET To(q) == {i \in DOMAIN answers : answers[i].questionID = q}
    IN  \A q \in Questions :
           /\ \A i \in To(q) :
                 /\ Filled(form[q])
                 /\ AnswerReason(read, answers[i]) \in
                       {"Accepted", "UnknownOption", "TooManyChoices", "TextTooLong"}
           /\ page[q] = read[q] =>
                 /\ Cardinality(To(q)) = IF Filled(form[q]) THEN 1 ELSE 0
                 /\ \A i \in To(q) :
                       /\ answers[i].selectedOptions \in {<< >>, form[q]}
                       /\ answers[i].text \in {NoText, TrimmedText(form[q])}
                       /\ AnswerReason(read, answers[i]) = "Accepted"

\* A vote is what the voter filled in. Of the questions the handler reads as the
\* page showed them, exactly those filled in are answered, with the values that
\* were entered, in a way admission and validation accept. Of one that was edited,
\* or replaced by one of the other type under its id, the answer can fail for its
\* option, its second choice or its length, never for its shape; and nothing is
\* answered that was not filled in (handlers.go:186-270). Said of plain forms.
VotesFit ==
    \A v \in Respondents :
       tab[v].pc = "creating" /\ PlainForm(tab[v].page, tab[v].form) =>
          /\ ResponseCreateAllowed(VoteSpec(v))
          /\ VoteFits(tab[v].page, tab[v].read, tab[v].form, VoteSpec(v).answers)

\* handlers.go:218 "Server refused the vote": a vote of which the page says so is
\* not stored, so a voter who votes again only when told so has one response.
RefusedIsNotStored ==
    \A v \in Respondents :
       Cardinality({r \in Responses :
                       RespTruth[r] # Nil /\ RespTruth[r].spec.respondent = v}) <= 1
=============================================================================
