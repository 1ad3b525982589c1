# A specification of the poll operator

The poll operator is a Kubernetes operator with two custom resources. A `Poll`
holds questions and an optional closing time; a `PollResponse` holds one
voter's answers. One controller validates responses, the other tallies the
accepted ones into the Poll's status; a web UI shows Polls and creates
responses. This directory holds a TLA+ model of the two controllers, of the web
UI and of the cluster they run in, two abstract specifications the controllers
implement, the TLC configurations that check all this, and proofs about it
checked by TLAPS.

## 1. The system

| Component | State | Operations | Talks to |
|---|---|---|---|
| API types (`api/v1`) | – | types, CRD limits | all |
| Poll webhook (`internal/webhook/v1/poll_webhook.go`) | – | `ValidateCreate`, `ValidateUpdate`, `ValidateDelete` | asked by the API server before it stores a Poll |
| PollResponse webhook (`pollresponse_webhook.go`) | – | likewise | likewise |
| Poll reconciler (`internal/controller/poll_controller.go`) | work queue, delayed entries, one running call | `Reconcile`, `mapResponseToPoll` | reads the cache, patches `Poll.status` |
| PollResponse reconciler (`pollresponse_controller.go`) | work queue, pending Poll events, one running call | `Reconcile`, `mapPollToResponses` | reads the cache, patches `PollResponse` metadata and status |
| Manager (`cmd/main.go`) | – | starts both controllers, webhooks, UI; leader election | process life cycle |
| API server, watches, caches, garbage collector (external) | stored objects, undelivered events, cached objects | writes, deliveries, collection of orphans | everybody |
| Web UI handlers (`internal/ui/handlers.go`) | a message cookie in each browser | list, detail, vote | read the cache, create PollResponses |
| Web UI server (`server.go`) | one goroutine, one channel, the listener | `Start`, until its context is cancelled | started and stopped by the manager |
| Web UI templates (`templates.go`, `templates/`) | – | the vote form, the bars of the results | filled in by voters |
| Generated code, manifests, tests | – | – | – |

How they interact. Users (and the UI) create, edit and delete objects. Every
stored version of an object is delivered, in order, to the manager's informer
cache; a delivery queues keys in both controllers: a Poll event queues the Poll
and, by a handler that lists the cached responses when it runs, the responses
that refer to it; a PollResponse event queues the response and the Poll it
refers to before and after. A reconcile reads the cache and patches the server.
So each controller's write is, later, an event for the other one, and neither
ever sees the stored objects themselves.

What is hard:

* reads lag behind writes, and Poll and PollResponse caches lag independently;
* a status patch (`client.MergeFrom`) carries only the top-level status fields
  in which the desired status differs from the *cached* one, and no resource
  version: there is no optimistic lock, patches of stale reconciles are applied
  field by field, and the `IsConflict` branches cannot be reached;
* an object may be deleted and created again under its name during a call;
* the closing time is reached by the clock alone, while the delayed queue entry
  that should notice lives in memory and may be absorbed by an earlier event;
* calls fail, before or after they took effect; the manager restarts;
* the two controllers decide separately what a valid vote is;
* a vote form is filled in on a page that may be older than the Poll the handler
  reads, and the answer to the create may be lost;
* the listener of the UI may fail, or not be open yet, when the context of the
  server is cancelled.

What makes each component correct:

* Poll reconciler: nothing that happened is missed by the tally (`QuietTally`);
  the deadline is remembered (`DeadlineArmed`) and a closing is final
  (`ClosedIsFinal`); it counts all that was accepted (`TalliesAddUp`).
* PollResponse reconciler: verdict and owner are those of the current Poll
  (`QuietVerdict`).
* Both: they stop when there is nothing to do (`Settles`), and together keep the
  promises of `TallyService` and `VerdictService` (`ImplementsTallyService`,
  `ImplementsVerdictService`).
* Webhooks: they are the precondition of users' writes.
* UI handlers: a vote is what the voter filled in (`VotesFit`).
* UI server: `Start` always returns and leaves nothing behind (`StartReturns`,
  `NothingLeftRunning`).
* Templates: bars stay between 0 and 100 percent (`BarsFit`).

The hazards behind these properties are listed, with their lines, in
`PROJECT.json`.

## 2. Modules

    PollSchema            the API types
      PollAdmission       the webhooks
      PollAggregation     computePhase, aggregateResults, statusEqual, merge patch
        ResponseValidation    validateResponse, accept, reject
          ApiServer           API server, watches, users, garbage collector, clock
            PollController        work queue and Reconcile of Polls
              PollResponseController  the same of PollResponses
                PollOperator          composition, restart, properties
                  PollOperatorClaims    what comments say and the code does not do
                  VoteHistory           with a history of what was cast when
                  Refinement            PollOperator as an implementation of both of
    PollAggregation
      TallyService        the promise: a settled Poll shows the right tally
      ResponseValidation
        VerdictService      the promise: a settled response has its Poll's verdict
    ApiServer
      VoteForm            the vote form, buildAnswers
        WebUI               browsers, handleVote, Server.Start and its goroutine
    ResultBars            maxVotes and barWidth in 32 bits
    MCPollOperator, MCVoteHistory, MCWebUI            instances for TLC

Theorems are in modules of their own:

    StatusProofs              lemmas on computePhase, aggregateResults, statusEqual,
                              the merge patch and validateResponse
      ServiceProofs             about TallyService and VerdictService
      ApiServerProofs           what writes, deliveries and users do to what is stored
        PollOperatorProofs        types and the tally
          ClosingProofs             deadlines and closings
          VerdictProofs             owners, verdicts, and verdicts against tallies
            RefinementProofs          PollOperator implements the two services
        WebUIProofs               the UI's types, Server.Start, the answers of a
                                  vote, the bars

The inductive invariants stand at the head of the module that proves them.

A module extends those above it that it is indented under (`ApiServer` extends
`PollAdmission` and `ResponseValidation`; `VoteForm` extends those two and
`WebUI` composes it with `ApiServer`). `Refinement` instantiates `TallyService`
and `VerdictService`.

**State.** `pollV` is the sequence of snapshots of all Polls that the watch
stream still has to deliver: its first element is the cache, its last one what
the API server stores. A write appends, a delivery drops the first. `respV` is
the same for responses. `now` is the clock, `ops` counts user operations and
gives uids. `pollQ` and `respQ` are the ready keys of the work queues, `timer`
the delayed entry of each Poll, `note` the Poll events `mapPollToResponses` has
not handled yet. `pw` and `rw` are the two workers: where in `Reconcile` they
are, and the local variables they carry. `faults` and `crashes` count failed
calls and restarts.

**Actions and code.** A call of `Reconcile` is cut wherever something else can
happen and matter: at each API call and each reading of the clock.

| Action | Code |
|---|---|
| `PollGet` | `Get`, clock, `computePhase` (poll_controller.go:56-72) |
| `PollList` | `List`, `aggregateResults`, `setReadyCondition`, `statusEqual` (74-88) |
| `PollPatch`, `PollPatchNotFound`, `PollPatchFault` | the status patch and its error returns (88-102) |
| `PollRequeue` | second clock reading, `RequeueAfter` (104-112) |
| `RespGet` | `Get`, deletion check (pollresponse_controller.go:76-88) |
| `RespGetPoll` | `Get` of the Poll, `reject` of a missing one, the uid loop and `SetControllerReference` of `ensureOwnerReference` (90-126) |
| `EnsureOwnerReference` | the owner patch (127) |
| `Validate` | clock, `validateResponse`, the status `accept` or `reject` want, skip of an equal one (107-112, 231-287) |
| `RespPatch`, `RespWriteNotFound`, `RespWriteFault` | the status patch and its error returns |
| `DeliverPoll`, `DeliverResponse`, `HandlePollEvent` | `SetupWithManager`, `mapResponseToPoll`, `mapPollToResponses` |
| `Restart` | stop and start of the manager: queues and workers are lost, the new cache lists every object and each is an event |

`WebUI` has the objects, caches and users of `ApiServer`, and instead of the two
controllers only the status they publish (`PublishStatus`). `tab` is the browser
of each voter: where it is between two pages, the questions its page was
rendered from, the form, and the questions the handler of the POST read; `cookie`
is the flash cookie. `cancelled`, `start`, `listener`, `errCh` and `closing` are
the context, the position of `Start` and of its goroutine, the channel of one
place and whether `Shutdown` was called. `lost` counts lost answers.

| Action | Code |
|---|---|
| `OpenPage` | `handlePollDetail`, `readFlash` (handlers.go:122-173, 306-312) |
| `SubmitForm` with `Forms`, `Offered` | the form of poll.html (45-75): radio buttons or check boxes, `maxlength`; a list of strings for each question |
| `ReadPoll` with `BuildAnswers` | `handleVote` up to `buildAnswers`: 404, "could not build", or answers, each by the type the question has now (handlers.go:176-200, 228-270) |
| `CreateVote`, `CreateVoteFails` | `Create` accepted, refused, or failed before or after it was stored (214-223) |
| `Listen`, `ListenerOpens`, `ListenerFails`, `ServerClosed`, `SendResult` | the goroutine of `Start` (server.go:84-91): `ListenAndServe` looks whether the server is shutting down, then opens the listener, then serves; opening can fail also after `Shutdown` was called |
| `SelectCancelled`, `SelectError`, `ShutdownReturns`, `Drain` | the select, `Shutdown` and the drain (93-105) |

`VoteHistory` adds one history variable to `PollOperator`: under which uid of its
Poll a response was cast. The model has no creation times, and a claim about the
garbage collector needs to know which of the two came first.

`TallyService` has four variables: stored Polls, stored responses, the clock and
the set of unsettled Polls. A Poll's status changes only while it is unsettled,
a changed vote unsettles the Polls it is about before and after, and a Poll
leaves the set only when its status is current. Under `Refinement` a Poll
is unsettled while its key is ready, the worker holds it, or a version of it or
of a response about it is on its way to the caches.

`VerdictService` is the same of responses: `pending` is the set of those whose
owner or verdict may be behind. Only `Judge` changes owner and status, and only
of a pending response; a changed Poll makes those that refer to it pending; a
response leaves the set only when its owner is the stored Poll and its status
the one that Poll gives it (or it is being deleted). Under `Refinement` a
response is pending while its key is ready, the worker holds it, a version of it
is on its way, or a version or an event of the Poll it refers to is.

After a patch the local object is what the server answered, as in the code:
`PollRequeue` reads `closesAt` from there and `Validate` judges the response
`EnsureOwnerReference` returned.

**External parts** are modelled from how the code uses them. A work queue holds
a key once. With controller-runtime's priority queue an immediate add of a key
absorbs its delayed entry, with the classic queue both remain: `MergesTimers`
chooses, and the runs use the priority queue, the default of the version in
`go.mod`. `SetControllerReference` refuses if the response is controlled by an
object of another *name*, and replaces an owner of the same name whatever its
uid. The garbage collector deletes a response whose owner's uid does not exist.
A patch that changes nothing makes no version and no event.

**Abstractions.** One namespace. Free text is its lengths in characters and in
bytes. Lists the API server
keeps as maps have no order. A condition is its reason or phase and its
observed generation; messages, transition times, prompts and titles are left
out. The message of a rejection is determined by the reason, the two specs and
the Poll's generation except when a Poll is recreated with the same generation
and another spec, where the code would also rewrite the message. Options of a
question are unique even with webhooks off, since the server refuses a status
with duplicates. Reads of the cache do not fail. Back-off is not timed. Not
modelled either: the resync every ten hours, a request of the old process that
arrives after a restart, two leaders at once, foreground deletion of Polls.
Of the UI: a form holds only the fields of its page's questions, each with a list
of strings. The members of `Options` are all the strings a form can have: options
of a Poll and `TextInputs`, what voters type; `TextOf` gives the lengths of a
string read as a text and `Trimmed` what `TrimSpace` leaves of it. The cookie
carries a kind of message, its wording and what cookies do to it are left out; a
request that is still handled when `Start` has returned ends with the process.

## 3. Properties and runs

`Quiet` means that nothing written is still on its way to the caches and no key,
event or running call is left for the object.

| Property | Says |
|---|---|
| `TypeOK` | stored objects, queues and the workers' locals have their types; a worker never reaches a patch without a status |
| `QuietTally` | a quiet Poll stores the status `Reconcile` would compute from the stored objects at some moment up to now |
| `ImplementsTallyService` | the same, said of every moment and Poll by Poll: the operator refines `TallyService` |
| `QuietVerdict` | a quiet response is owned by its Poll's current uid and carries the verdict for the stored Poll and response |
| `ImplementsVerdictService` | the same, said of every moment and response by response: the operator refines `VerdictService` |
| `DeadlineArmed` | a quiet Open Poll before `closesAt` has a delayed entry no later than it |
| `ClosedIsFinal` | a closing published for the current generation is not taken back unless users edit the Poll; of operators whose users delete no Poll (see below) |
| `TalliesAddUp` | at rest the votes of an option are the accepted responses that chose it, and none of them chose anything else: validation and aggregation agree. A respondent with two responses counts twice, in the code as in the model |
| `Settles` | after the users' last operation both controllers come to rest |
| `UiTypeOK` | each tab has what its step needs: a Poll to go back to, a page, a form that page offers, the questions read; a vote is a response the CRD takes |
| `VotesFit` | of the questions the handler reads as the page showed them exactly those filled in are answered, as they were, and the answers pass admission and validation; an edited question, or one replaced by one of the other type, costs its answer an option, a second choice or its length at most. Said of plain forms: no white space around the options chosen, no character of several bytes |
| `StartReturns` | once the context is cancelled `Start` returns |
| `NothingLeftRunning` | when it has, its goroutine has ended and the channel is empty |

Passing runs:

| Run | Instance | What it shows |
|---|---|---|
| `edit` | 1 Poll, 2 responses, 3 operations, caches up to 2 versions behind, options {a,b} or {a,c} | votes racing an edit, and each other: `QuietTally`, `QuietVerdict`, `TypeOK` |
| `recreate` | 2 Polls, 1 response name, 4 operations with deletes | uids, owners, garbage collection, patches on recreated objects: `ImplementsTallyService`, `ImplementsVerdictService` |
| `closing` | 1 Poll closing at 1 or 2 and moved between them, clock up to 1, the classic queue, `FairSpec` | `DeadlineArmed`, `ClosedIsFinal`, `Settles` |
| `restart` | 1 failed call, 1 restart, foreground deletion, closing at 1 | `ImplementsTallyService`, `ImplementsVerdictService`, `DeadlineArmed` after faults |
| `ballots` | webhooks off; a survey that loses a question, takes several choices or is malformed; five ballots, good and bad | `TalliesAddUp` |
| `ui` (`MCWebUI`) | 1 Poll of two questions with 3 specs, edited, deleted, and created again with a text where there were choices or the other way round; 3 operations, 1 form, texts of 0 to 2 characters, one with a two-byte character; `UiFairSpec` | `UiTypeOK`, `VotesFit`, `StartReturns`, `NothingLeftRunning` |

Runs that find a counterexample (each definition quotes the line it states):

| Run | Claim | What happens |
|---|---|---|
| `late_close` | "transition to Closed on time" | `closesAt` passes between the two clock readings of one call: not closed, not requeued |
| `stale_option` | options match the question's | a merge patch from a stale base omits `results`; then a missing option reads as 0 votes and the difference is never repaired |
| `vote_wiped` | rejects responses submitted after the closing | responses accepted in time are judged again when the Poll closes, and rejected |
| `vote_collected` (`MCVoteHistory`) | a response is collected when the Poll is deleted | the owner is taken from a cached Poll of an old uid: the garbage collector deletes a vote whose Poll is there |
| `long_text` | `maxResponseLength` is "in characters" | it is compared with the length in bytes |
| `refused_vote` (`MCWebUI`) | "Server refused the vote" | the page says so also when the create was stored and its answer lost; the voter votes twice |

`ClosedIsFinal` is checked where users delete no Poll, and does not hold where
they do. TLC's history: a Poll whose closing time has passed is read by a
reconcile; it is deleted and created again, with a later closing time; the patch
of the old call, which names the object and not its uid, closes the new one,
which has the same generation; the next reconcile opens it again. No comment
promises otherwise, and by `QuietTally` and `ImplementsTallyService`, which hold
with deletions, the new Poll ends up right.

Three more disagreements were seen in the model and have no run of their own: the
Poll webhook says that question ids are "not renamed in place"
(poll_webhook.go:157) and admits an update that drops an id and adds another; the
patches carry no resource version, so a stale reconcile can rewrite `openedAt`
(the conflict branch of poll_controller.go:92 is never taken), and an owner
patch can land on a response that was deleted and created again for another
Poll, whose reconciles then fail for ever (pollresponse_controller.go:125).

**Bounds.** `MaxOps`, `MaxTime`, `MaxLag`, `MaxFaults`, `MaxCrashes` bound user
operations, clock, undelivered versions, failed calls and restarts; they appear
in the guards of `UserOp`, `Tick`, `WritePoll`/`WriteResponse`,
`PollPatchFault`/`RespWriteFault` and `Restart`. They are enough for the
question of each run: a lost update needs one write behind a stale read, which
lag 1 gives, and the mixture of fields of two reconciles needs lag 2 (`edit`);
uid mistakes need create, delete, create and a response (4 operations,
`recreate`); a question of the other type under the same id needs create, delete
and create (3 operations, `ui`); a deadline needs a time before and one after it. In `WebUI`,
`MaxPosts` bounds the forms a voter submits (one shows what becomes of a form,
two a voter who tries again) and `MaxLost` the answers that are lost. Two responses are
used where votes meet (`edit`), one where only its own history matters. A
writer waits while `MaxLag` versions are undelivered, so the bound removes long
lags and never an order of steps. The proofs do not depend on the bounds.
Responses and Polls are symmetric in `edit` and `recreate`; runs with fairness
use no symmetry.

Deadlock is not checked: once the users have used their operations and both
controllers are idle the system rightly does nothing more.

**Fairness** (`FairSpec`): weak fairness of watch delivery, of the event
handler per Poll, of each worker, of each timer that is due and of the garbage
collector. These are goroutines of a running process or controllers of the
cluster that are never disabled by each other for ever: each worker is the only
consumer of its queue, and a delivery stays possible until it happens. Users,
the clock, faults and restarts are never forced; `ClosesInTheEnd` therefore
asks only about a closing time that has come. `UiFairSpec` assumes that `Start`
and its goroutine run when they can and that `Shutdown` returns, which its
timeout of ten seconds guarantees; nothing makes a voter vote, a listener fail
or the manager stop, so `StartReturns` starts from the cancelled context.

Every property of a passing run has a mutant in `PROJECT.json`: the model of a
plausible bug (a handler that watches less, an early return before the requeue,
an error dropped, an owner compared by name, ...) in which the run finds it
violated.

## 4. Proofs

Everything here is proved for every value of the constants.

**Why a lost event cannot happen.** Four properties of the operator speak of
quiet states, in which nothing is left to do: `QuietTally`, `QuietVerdict`,
`DeadlineArmed` and `TalliesAddUp`. None is inductive: they say nothing of the
states between. The following are true there too, each time as "somebody will look at the object again, or it is right as it is":

| Invariant | Of each | Somebody will look again | It is right |
|---|---|---|---|
| `TallyTracked` | Poll | key queued; a version on its way (`PollAwaited`); the running call works on what the caches hold now (`TallyInHand`) | the cached status is, to `statusEqual`, what `Reconcile` would compute (`TallyCurrent`) |
| `VerdictTracked` | response | the same (`RespAwaited`, `VerdictInHand`); or an event of its Poll waits to be mapped to it (`PollNoted`) | owner and verdict are those of the cached Poll (`VerdictCurrent`) |
| `DeadlineTracked` | Poll | the same (`DeadlineInHand`) | a delayed entry no later than `closesAt` (`DeadlineSet`) |

A patch either changes what is stored, and the new version is then awaited, or
changes nothing although it was computed from an up-to-date base, and then what
was wanted is in place. This is the whole argument why a missing resource version
loses no vote: the write of a stale reconcile is itself an event. In a quiet
state the middle column is excluded and cache and server agree.

| Theorem | Module | By |
|---|---|---|
| `TypeCorrect`: `[]TypeOK` | `PollOperatorProofs` | one lemma per action; what a worker holds between two actions is part of `TypeOK`, which makes it inductive |
| `TallyNeverLost`: `[]QuietTally` | `PollOperatorProofs` | `TypeOK /\ TallyTracked`; deliveries leave the tally of Polls they are not about alone (`TallyLocal`), and a patch that is a no-op was right (`MergePollStatusFresh`) |
| `SpecsAlwaysSubmitted`, `UidsAlwaysTell` | `VerdictProofs` | see below |
| `IncarnationsAlwaysDiffer`: `[][IncarnationsDiffer]_vars` | `VerdictProofs` | `TypeOK /\ UidsTell` |
| `VerdictNeverLost`: `[]QuietVerdict` | `VerdictProofs` | `TypeOK /\ UidsTell /\ VerdictTracked` |
| `TalliesAlwaysAddUp`: `[]TalliesAddUp` | `VerdictProofs` | the two theorems before it, and `SpecsSubmitted` |
| `DeadlineNeverForgotten`: `[]DeadlineArmed` | `ClosingProofs` | `TypeOK /\ DeadlineTracked` |
| `ClosingStands`: `PollsRemain => ClosedIsFinal` | `ClosingProofs` | `TypeOK /\ ClosingTracked` |
| `ServiceSettles`: `[]SettledIsCurrent` | `ServiceProofs` | `TallyLocal` |
| `VerdictsSettle`: `[]SettledIsJudged` | `ServiceProofs` | `SettledLocal` |
| `SettledPollsAreCurrent`, `OperatorImplementsService` | `RefinementProofs` | `TypeOK /\ TallyTracked` |
| `SettledVotesAreJudged`, `OperatorImplementsVerdicts` | `RefinementProofs` | `TypeOK /\ VerdictTracked` |
| `NothingIsLeftRunning`, `ResultAlwaysComes` | `WebUIProofs` | `ServerInv` |
| `UiTypeCorrect`: `[]UiTypeOK` | `WebUIProofs` | `UiTypeOK /\ ServerInv` |
| `VotesAnswerOnce`: `[]OneAnswerEach` | `WebUIProofs` | `HandlerInv` and `BuildsOneEach` |
| `VotesAlwaysFit`: `[]VotesFit`, with webhooks on | `WebUIProofs` | `UiTypeOK`, `HandlerInv`, `PollsValid` and `TabsValid` |
| `BarsFit`, `BarsWrap` | `WebUIProofs` | arithmetic |

*Verdicts.* Between the two patches of a call the response has its new owner and
the old verdict, so `VerdictInHand` has a case for every place in `Reconcile`,
and the case of the owner patch needs that it does change something. The uid
loop of `ensureOwnerReference` compares uids alone. That this is enough is
`UidsTell`: a uid, wherever it is kept (a stored version, one on its way, an
owner reference, the worker's Poll), belongs to one name. So a response whose
owner has the right uid has the right owner altogether, and `OwnedBy` skips no
patch that is needed. `UidsTell` says nothing of two incarnations under one name;
`IncarnationsAlwaysDiffer` does: a Poll that is created has a uid that none of
those places holds, and keeps it until it is deleted.

*Verdicts against tallies.* `TalliesAddUp` relates what one controller accepted
to what the other counted. By `TallyNeverLost` the stored results are the
cardinalities of the answers and selections about a question; by
`VerdictNeverLost` every counted response is accepted by the stored Poll
(`CountedIsAccepted`), so each answer has one question, and each selection is an
option of it that occurs once (`AcceptedSelections`). Taking the response of a
selection is then a bijection (`ChoosersCounted`, `SameCount`), which turns
votes into responses. That the answers of a response are about different questions is
the list-map key of the CRD (`AnswersAssumption`), and that it stays true of
what is stored is `SpecsAlwaysSubmitted`.

*Closings.* `ClosingTracked` orders what exists of a Poll: the worker holds a
version no newer than the cache, whatever is published is of a generation no
newer than what the worker holds, a published closing was due for every version
of its generation (`PublishedWasDue`), and a worker that sees one closes too
(`ClosingKnown`). The hypothesis `PollsRemain` says that no Poll ceases to
exist; section 3 shows the history it excludes. It restricts users only: editing,
closing times that move, faults and restarts remain.

*The refinements.* `SettledPollsAreCurrent`: a Poll that is not unsettled is
current. Cache and server agree on it and on the responses about it, though not
on others; `TallyLocal` does the rest. `OperatorImplementsService`: a write to a
Poll or response puts exactly the Polls concerned among the unsettled
(`WritePollAwaited`, `WriteVoteAwaited`); the worker publishes only for the key
it holds; every other step leaves the stored objects alone, and the Polls that
become settled in it are current in the state after it.

`OperatorImplementsVerdicts` goes the same way: a write to a Poll makes exactly
the responses that refer to it pending, a write to a response exactly that one
(`WriteResponseAwaited`); users and the garbage collector keep owner and status
(`UserStepVotes`), the worker writes nothing else (`PatchesJudge`) and only for
the response it holds. Handing a response on, from the watch stream to `note`,
from there to the queue, to the worker and back to the stream, keeps it in
`pending`, and where the chain ends it is settled (`SettledVotesAreJudged`).
Nothing is said here of how often a verdict changes on the way, nor that a
response is judged at all: that is `Settles`.

*The server of the UI.* `ServerInv` says that the goroutine sends one result and
that Start takes it: `listener = "done"` exactly when it is in the channel or
`Start` has returned. `ResultAlwaysComes` is what remains of `StartReturns`
without fairness: `Start` never waits for a result that nobody will send.

*The answers of a vote.* `VotesAnswerOnce` compares the answers with the strings
entered in the form (`SaysWhatWasEntered`): however old the page, and whatever
type a question has by now, no question is answered twice, no answer has both a
text and selections or says anything that was not entered, every string entered
for a question that takes choices is selected, and every other question whose
first string is not blank is answered. So what the UI creates has the list-map key
and the shape the CRD and the webhook demand. `HandlerInv` carries the check of `ReadPoll`, that there is
an answer at all, to the create; that questions are enumerated once each is
`Enumerates`. `VotesAlwaysFit` adds, for plain forms, that admission and validation
accept it as long as the question is the one the page showed.
What the loop over the values keeps is stated by position (`Picked`), so no
induction is needed: what is entered in a plain form is what is read
(`PickedValues`, `ChosenAsShown`, `TypedAsShown`), and an answer to a question
the page showed can fail only by what was edited since (`AnswerFits`). It is
said of webhooks on, since only then is every Poll's question one that can be
answered (`PollsValid`), and that this is true of the older Poll in a tab is
`TabsValid`.

*Bars.* For a largest integer `MaxInt32`, bars lie between 0 and 100 percent as
long as a hundred times the votes of the leading option fit (`BarsFit`: 21474836
votes for 32 bits). Beyond it, until the product has wrapped all the way round, an
option whose own hundredfold does not fit has no bar of positive width, the leading
one among them, while one with fewer votes keeps its percentage (`BarsWrap`): with
22000000 votes against 1000000 only the loser has a bar, of 4 percent.

The assumptions are those named in the modules: finite sets of names, `Nil`
different from every value, specs of the declared type, natural bounds. None
restricts the order of steps. The invariants above were model-checked on the
instances of section 3 before they were proved.

Only model-checked:

* `Settles`, `StartReturns`: liveness under fairness, and `ENABLED`, are out of
  the prover's reach.
* The claims of section 3 that do not hold.

The library's induction theorems cannot be instantiated by the installed
provers. So tallies are cardinalities and not recursive sums, a filter is stated
by the positions it keeps, and where a least element is needed its existence
comes from the well-foundedness of the natural numbers (`FirstOf`).

## 5. Plan

Done: the controllers, their abstract specifications with the refinements, the web
UI, the garbage collector's mistake, runs with webhooks off, with the classic
queue, with a question removed and with texts of two lengths; the proofs of
section 4.

All safety properties the runs check are proved, `ClosedIsFinal` and `VotesFit`
under their hypotheses, and so are both refinements.

Worth modelling, if the code grows: the loops of `aggregateResults` as folds
against the cardinalities of `PollAggregation`; two voters in `WebUI`.

## 6. Not modelled

* `handleRoot`, `handleListPolls`, `/healthz` and the routes: they read the cache
  or nothing and keep no state.
* HTML and its escaping, wording, logs, what a cookie does to a message.
* The leader election protocol, metrics, TLS, health checks and flags of
  `cmd/main.go`: library code and configuration. The start-up of the manager
  either completes or exits, and has no state in between.
* Generated deep copies (a copy is the value in TLA+), scheme registration,
  manifests, CRDs beyond the types they enforce, and the tests.
