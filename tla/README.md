# AlertLens: a TLA+ verification project

AlertLens listens to one Slack channel. An Alertmanager notification in it
starts an investigation: the alert is verified with Alertmanager, Holmes is
asked, the answer is posted in the notification's thread. Users ask questions
with `@AlertLens`, and a cron schedule starts investigations of its own. This
directory holds TLA+ models of that program, the TLC runs that check them and
theorems checked by TLAPS. Paths below are relative to the repository.

## Inventory

| component | source | state | operations | what must be right |
|---|---|---|---|---|
| Work pool | `internal/service/service.go` | queue (channel), `accepting` under `intakeMu`, 64 thread-lock stripes, `forcedReplyContext`, work context | `Submit`, `SubmitScheduled`, workers' `handle`, `Run` | no send on the closed queue; accepted work ends once and is reported; reactions, replies and counters tell how it ended; `Run` returns |
| Process | `cmd/alertlens/main.go` | two error channels, `serviceDone` | `serve` | every stop ends the process, nothing is left running, the exit status tells the truth |
| Slack client: connection | `internal/slack/client.go` | connected flag, consumer goroutine | `Run`, `consume`, `Ready` | readiness is off and no handler runs once `Run` has returned |
| Slack client: calls | `internal/slack/client.go` | none (Slack's reactions and threads) | `AddReaction`, `RemoveReaction`, `Reply`, `Post`, one retry after a rate limit | no double effect, ends with its context |
| Slack client: history | `internal/slack/client.go` | pages read so far | `Conversation` | everything eligible before the ask, nothing else |
| Conversation budget | `internal/service/conversation.go`, `prompt.go` | none | `boundConversation`, `truncateBytes` | within the budget, root and newest messages |
| Answer splitting | `internal/service/prompt.go` | none | `splitSlack`, `splitSlackOverflow` | ends, loses nothing, every message fits |
| Prompt building | `internal/service/prompt.go` | none | `buildRequest`, `boundAlerts`, `boundRunbooks`, `sanitize` | payloads within their limits |
| Alertmanager client | `internal/alertmanager/client.go` | attempt counter | `Active` | verified against one true answer; bounded retries of passing failures only |
| Holmes client, decoder | `internal/holmes` | decoder position | `Chat`, `decodeResponse` | the analysis or an error, a partial analysis kept |
| Marker | `internal/marker/marker.go` | none | `Parse`, `Present` | status, name and namespace, or a broken marker |
| Metrics | `internal/observability/metrics.go` | counters, gauges | | one count per outcome, gauges that show the present |
| Configuration | `internal/config/config.go` | none after start | `Load` | positive sizes, valid schedules |
| Health | `internal/health/handler.go` | none | `/readyz` | reads the connection flag |

How they interact: the consumer goroutine acknowledges a Slack event and calls
`Submit`; cron jobs call `SubmitScheduled`; both put work into the queue that
the workers range over. A worker takes the lock of the thread, calls
Alertmanager or `Conversation`, then Holmes, and reports through Slack.
`serve` runs the HTTP server, the Slack client and `Run` under one context.

What is hard here: the queue is closed while submitters and cron jobs may still
use it; a forced shutdown cancels workers anywhere in a handler and changes the
context their reports use; Slack calls have no timeout, may fail, or take
effect and report an error; a thread changes between two pages of its history
and while an ask waits for the lock; three goroutines can stop `serve` before it
waits for them; Slack delivers again what it does not know to be acknowledged;
Holmes' answer arrives in a stream that may break off or not be JSON at all.
`PROJECT.json` lists each hazard at its line.

## Modules

| module | models | extends / instances |
|---|---|---|
| `Service` | the work pool: one process per call of `Submit`/`SubmitScheduled`, one per worker, and `Run` with its closing goroutine | |
| `ServiceProperties` | fairness and properties of `Service`; the refinement mapping | `Service`; `Pool == INSTANCE WorkPool` |
| `WorkPool` | what the pool promises, without locks, contexts and Slack | |
| `ServiceProofs` | theorems about `Service`: types, intake, shutdown, refinement, counters; answers, marks, runs and reactions | `ServiceProperties`, `FiniteSetTheorems`, `TLAPS` |
| `Serve` | `serve` composed with `Client.Run`/`consume`; the service's `Run` as one step | |
| `AlertmanagerClient` | one call of `Active` | |
| `AlertmanagerProofs` | theorems about it | `AlertmanagerClient`, `TLAPS` |
| `SplitSlack` | from the answer to the messages | |
| `SplitSlackProofs` | theorems about it | `SplitSlack`, `SequenceFacts` |
| `SequenceFacts` | lemmas on numbers, sums and sequences, induction among them | library theorems, `TLAPS` |
| `SlackCall` | the calls of Slack's Web API, with their retry, side by side on one message | `Promise == INSTANCE SlackPromise` |
| `SlackPromise` | what a caller may assume of them | |
| `SlackCallProofs` | theorems about `SlackCall`, the refinement among them | `SlackCall`, `TLAPS` |
| `Channel` | Slack's deliveries, their acknowledgement, `translate`, and the death of the process | |
| `ProcessProofs` | theorems about `Serve` and `Channel` | `Serve`, `Channel`, `TLAPS` |
| `HolmesResponse` | the streaming decoder of Holmes' answer, and what `Chat` makes of it | |
| `HolmesProofs` | theorems about it | `HolmesResponse`, `SequenceFacts` |
| `Conversation` | `boundConversation`, `truncateBytes` as operators | |
| `ThreadHistory` | one thread: `Conversation` page by page, `handleAsk`'s lock, users and answers around it | `Conversation` |
| `ThreadHistoryProofs` | theorems about both | `ThreadHistory`, `SequenceFacts` |
| `MC*` | instances for TLC | |

### Service

`sub[i]` is where the submitter of item `i` is, `wpc[w]`, `job[w]`, `ctx[w]` and
`answer[w]` are a worker's place, item, context and Holmes answer; `lock` is
`threadLocks`; `stage` is the place of `Run`, `intake` is `accepting` with the
mutex as a submitter sees it (`"closing"`: the writer waits and keeps new
readers out), `replyCtx` is `forcedReplyContext`. `reactions` and `thread` are
what Slack shows. An action is the code from one call that another goroutine
can see to the next one. Calls whose error the code drops (reactions, failure
replies) and the counters between them are a list `todo[p]`, made in program
order, one action (`BestEffort`) each; a process does nothing else until its
list is empty. So the list of `failHolmesRequest` in the code is the operator
`FailHolmesRequest`, and so on for each reporting function.

A Slack call on a live context succeeds; with `SlackFaults` it may also fail,
with or without having taken effect. On a context that has ended it fails
(`Alive`). The work context ends with the forced cancellation; `expired` holds the others that
have ended: the Slack consumer's (`"consumer"`, which `Client.Run` cancels when the
connection is given up, so before the service's context or with it), the one deadline
of five seconds for the reports of all queued runs (`"deadline"`), and that of a worker's own
report in `failHolmesRequest` (the worker). An end is a step of its own
(`ConsumerStops`, `DeadlinePasses`, `ReplyTimesOut`), taken only while somebody makes a call on
that context; otherwise nobody could tell. How long a call or a rate
limit takes is not counted: a deadline may pass at any moment. The ghost `whole` holds how
many parts Holmes' answer to an item has, 0 unless it came without an error,
within the byte limit and within `MaxParts`. Texts are
reduced to their kind (a part, or which failure reply), an answer to the number
of its parts and whether it came with an error or was cut. Holmes and
Alertmanager answer anything their clients can return.

### Serve

`main` is the place of `serve`; its `select` is two steps. If a case is ready
when `serve` arrives, any ready case is taken; otherwise it waits and the first
event wakes it (`woken`). Goroutines start before the select is reached.
A signal that comes in that gap counts as a `mishap`: see `GracefulExit` below.

### AlertmanagerClient

`attempt` is the loop's variable and `pc` the place in the loop: before the
request, request sent, pause, returned. The server's alerts (`firing`) change at
any moment. The ghost `truths` holds what matched since the last request.

### SplitSlack

`pc = "split"` is the loop of `splitSlackContent` (`Cut`, `LastPart`), `SplitAgain`
and `Settle` are the two ends of the loop body of `splitSlack`; the overflow
split is one pass with a fixed prefix, cut at `MaxParts`. Runes are line feeds,
carriage returns and others. `Base` and `Frame` scale the numerals and the
punctuation of the prefix. What the proofs need of the constants, that a prefix
leaves room for text, is `SplitAssumption`; the code's 4000 runes, 10 parts and
base 10 satisfy it for every text a program can hold.

### SlackCall and SlackPromise

`pc[c]` is the place of call `c`: not begun, its request under way, the pause of
`retryRateLimit`, returned. Slack is two actions: it handles a request, at once
or after its caller has given up, or refuses it without effect. The answer is
read by `Receive`, or lost (`Lose`: a broken connection, the end of the context).
`EndContext` is the forced cancellation or the reply deadline. In `SlackPromise`
only effects and results are left: at most one effect, in one moment, an effect
behind each success, and possibly one behind an error, even later. `Service`
applies what a lost call does during the call; `SlackCall` shows that it may come
later. The HTTP client's own habits are external, as `src` relies on them:
nothing is sent on a context that has ended, and a request that was sent is
not repeated by it.

### Channel

`log` is what was written, `owed` what Slack has to deliver until it gets an
acknowledgement, `taken` the envelope in the hands of `consume`, `work` what the
service has accepted (of a repeated event, once). An acknowledgement reaches
Slack, fails, or is sent and lost; one that comes too late, because `Submit`
waits for a Slack call, is the same as one that is lost. `Restart` is any death;
everything but Slack's side is forgotten. A forced shutdown is such a death for
the questions that are queued: they are dropped in silence. `Channel` and `Serve`
look at the same goroutine from two sides; their names differ throughout, so that
one module can extend both.

### HolmesResponse

The body is chosen token by token while the decoder reads it: a bracket, a string
of pieces, a number of characters, a word, or the end, in time or by a broken
connection. `place` is where the decoder is in its grammar and `stack` the calls
of `skipObject` and `skipArray` that are open, so that `depth` is its length.
Pieces have widths in bytes; a surrogate pair is two of them. Its properties are
not about the decoder's steps: they compare it with the set of documents that
the grammar of RFC 8259 generates, `IsNumber` and all, and with the runes of a text
taken place by place. The grammar's lists are derived from the left, phrases of n
tokens from shorter ones, so that no phrase is derived twice. An analysis over its
limit is not simply its longest prefix: `readString` keeps every rune that still
fits, also after one that did not, so `LastWholeAnalysis` says that it begins as it
should and has no room for one of its runes. `HolmesAssumption` has a positive depth
limit, as the constant in the code is, and a longest body, since `Inputs` is what
bounds a run; it may be any length.
A duplicate key is allowed, a top-level analysis that is no string is not: both
as the code has it.

### Conversation and ThreadHistory

A message's timestamp is its place in the thread; a text is the sequence of its
runes' widths in bytes, after `sanitize`. Request 1 is whatever the root starts
(an alert, a scheduled run, a question of its own) and is answered without a
history. Requests wait in `pending` for the thread's lock and take it in any
order. `Replies` is Slack's `conversations.replies`: the messages after the
cursor and before `latest`, `latest` not included, as the client's request asks.
Deleted roots keep a tombstone, so the root is always the first message.
`Positions` lists what a loop over messages keeps, in their order. `Bytes` and the
loop of `BoundConversation` are recursive functions, so that they can be proved about.
`HistoryAssumption` has widths of UTF-8 (1 to 4), a positive budget (`config.go`
admits no other) and one text that is not empty.

## What the runs check

All runs but those marked "finding" pass.

| run | instance | checks |
|---|---|---|
| `alert` | an alert and a question in its thread, 2 workers, queue of 1; Slack answers (`ResponsiveSpec`) | `TypeOK`, `RepliesContiguous`, `AcceptedEnds` |
| `crowd` | an alert delivered twice, a scheduled run, an invalid marker; 1 worker, queue of 1; Slack answers as long as the context lives | `NoSendOnClosedQueue`, `OnlyForcedSkips`, `CountedOnce`, `NoRunVanishes`, `CronNeverRefused`, `ForcedReportsBounded`, `ReactionsSettle`, `ImplementsPool` |
| `faults` | a run whose answer has up to 3 parts, 2 of them sent, a resolved alert, idle talk; 1 worker; every Slack call may fail, only seem to fail, or hang (`FairSpec`) | `CheckMeansAnswered`, `ShutdownCompletes` |
| `serve` | everything | `NothingLeftBehind`, `UnreadyAfterRun`, `StopIsReported`, `GracefulExit`, `ServeReturns` |
| `alertmanager` | 3 attempts, 3 alerts that differ in one label each | `AnswerWasTrue`, `DefinitiveStands`, `GivesUpLate`, `LeavesAfterCancel`, `Returns` |
| `split` | all texts of words and lines up to 12 runes, with carriage returns up to 8, repetitive ones of 26 | `ContentPreserved`, `MessagesFit`, `NoEmptyPart`, `OverflowFillsParts`, `SplittingEnds` |
| `history` | a thread of up to 5 messages of 1 and 3 bytes, pages of 2, a budget of 5 | `EndsBeforeTheAsk`, `NothingOverlooked`, `BudgetKeptAndUsed` |
| `decoder` | every body of up to 9 tokens over 5 literals and up to 10 over 2; every short string, name and number; depth limit 2, analysis limit 5 | `AcceptsExactlyTheDocuments`, `LastWholeAnalysis`, `SuccessMeansWhole` |
| `calls` | two calls of any kind | `GivesUpForAReason`, `ImplementsPromise`, `CallReturns` |
| `channel` | two messages, five kinds of writers, two texts, two faults | `RepeatsOnlyLostAcks`, `QuestionsEnd` |
| `unreported` | a run and a question under its root; Slack answers | finding: `RunReported` |
| `overtaken` | a thread of 5 | finding: `AnswersAvailable` |

### Findings

- `unreported`: a scheduled run ends without any reply in its thread though Slack answers and no
  deadline passed. The shortest way is through `failHolmesRequest`: it looks at the context
  (`service.go:431`) before the forced cancellation and makes its reply (`:435`) after it, on the
  dead context. The other: the cancellation falls between Holmes' answer and its
  delivery, and `failHolmesAnswerDelivery` replies on the same context (`:446`) without
  looking. In both the root keeps its hourglass, which is all that
  `NoRunVanishes` promises.
- `overtaken`: the history is cut at the ask's own timestamp, so an ask that
  waited for its thread's lock does not see the answer it waited for. The test
  that expects it uses a fake Slack without timestamps.

More disagreements were met that have no run of their own:

- `failHolmesRequest` and `failHolmesAnswerDelivery` count `Event("failed")` for
  scheduled runs too (`service.go:426`, `:444`), though
  `alertlens_events_total` is described as "Slack events by bounded outcome."
  (`metrics.go:28`). `CountedOnce` states the accounting as the code has it.
- `Conversation` keeps the parts that were delivered of an answer that failed
  later, and drops the failure reply that says so (`client.go:138`); the design
  (docs/superpowers/specs/2026-07-11-alertlens-design.md:125, and again :262) speaks of
  "prior successful AlertLens answers". No property is about it: `Eligible` takes the kind of a reply for the
  comparison of prefixes in the code.
- What the shutdown leaves behind, and no document mentions. A run that is still queued when
  the drain times out, and whose report comes after the deadline of five seconds all
  queued runs share (`service.go:236`), ends with neither reply nor hourglass: only its
  root and the counter remain. That is the condition `ReportsInTime` of `NoRunVanishes`.
  And an event that `Submit` turns away after the consumer's context has ended
  (`slack/client.go:54,61`) may keep its eyes without an x, or show nothing: the
  exception `TurnedAway` of `ReactionsSettle`, which holds all other reactions of such a
  message to the rule.
- `boundConversation` goes on while anything remains of the budget: a newer
  message whose next rune is too wide is cut, possibly to nothing, and an older,
  smaller one is still included (`conversation.go:27`); `CONTEXT.md:48` has the
  newest messages "until that byte limit".
- `GracefulExit` excludes a signal that comes before `serve` reaches its select.
  The select may then find `slackErr` ready beside `ctx.Done()` and take it, and
  unlike `main.go:135` the case at 114-120 does not look at `ctx.Err()`, so a clean
  stop exits with 1. Without `main = "starting"` in `Signal`'s `mishap'`, TLC finds
  that trace.

### Bounds, and why they are enough

The queue of one place makes it full with two items; `crowd` fills the worker,
the queue and the submitter that finds it full. The two deliveries
of the alert are the same in every respect, hence `SYMMETRY` in `crowd` (no liveness is
checked there; `ImplementsPool` is about steps). Two workers are what two
threads of control need to interleave in one thread (`alert`). One part per
answer is enough for something to come between it and the failure that follows
it or the reactions around it, and `parts` may be one more than `MaxParts`, the
answer that does not fit; `faults` has two parts, so that the second may be missing. Between them
the three instances have every kind of item. Every message has its own lock stripe, so TLC does not try
threads that wait for each other by sharing one: `AnswersDoNotMix` is proved for shared stripes, but
that they cannot starve each other rests on a worker never holding two. The thread of five messages has
two pages before the last ask and a deletion between them. In `split` the limit 9 with numerals of base 3 makes
the prefix grow twice within a text of 12 runes, as it does in the code with
100 parts and base 10. Three attempts is the code's own number.

Two Slack calls are what one can do behind the other's back on a reaction. In
`channel` two messages let one question be owed, held or worked on while another
envelope of the same or of the other message is, and two faults let an
acknowledgement get lost and the process die, or die twice. In `decoder` depth 2 needs
five tokens to be exceeded, ten tokens hold two whole analyses, or one beside a
nested value; the limit of 5 bytes lies within a wide rune, a surrogate pair
and before a narrow rune; the texts and numbers are longer than any look-ahead
of the decoder.

`CHECK_DEADLOCK FALSE` is set for the runs of `ThreadHistory` and `Channel`: with
the largest number of messages, no fault left and no request left, they are at
rest. Every other system
stutters only in an explicit `Terminated` state, or when everything has ended.

### Fairness

`FairSpec` of `Service`: a goroutine that is not inside a Slack call on a context
without a deadline keeps running; Alertmanager's and Holmes' clients have
timeouts, so those calls end. The Slack client has none, so a call on the work
context may last until the forced shutdown cancels it (`MayHang`),
and one on a context with a deadline until that passes (`TimeLimit` is fair).
`ResponsiveSpec` adds that Slack answers. The drain timer fires because `RunStep`
is fair. `Serve`: goroutines run, a handler whose context is done returns, a
cancelled socket or `auth.test` returns; strong fairness only for the consumer's
`done` case, since `select` chooses at random among ready cases. Nothing else
has to stop by itself. `AlertmanagerClient`: the client's timeout ends an attempt
and the timer fires. `SplitSlack`: a function that runs.
`SlackCall`: only a call whose context has ended has to go on; Slack may never
answer and names the delay of the pause, so nothing else is fair. `Channel`:
Slack delivers again and again what it is owed (strong fairness: the consumer
may be busy in between), `consume` runs, and the service settles what it has
accepted, which is `AcceptedEnds` of `ServiceProperties`. That `Handle` is fair assumes that
the Slack call inside `Submit` ends, for which the code has no timeout. `HolmesResponse` claims no
progress: a body may stop, and then the client's timeout breaks it.

## What is proved

`ServiceProofs`, for any set of items, workers, messages and stripes, any
capacity and number of parts, under `ServiceAssumption`:

- `TypeCorrect`: `TypeOK`. Inductive together with `HoldsJob` (a worker outside
  `idle` and `exited` holds an item, a process with calls left acts for one).
- `IntakeSafe`, `RunsAdmitted`: from `IntakeInv`, which says that a closed or
  closing intake means `Run` is past its scheduler and no cron job is running,
  and that only Slack items hold the read lock.
- `ForcedReportsHaveDeadline`, `SkipsAreForced`: from `ShutdownInv`: the deadline
  context is stored in every stage from which the work context is cancelled.
- `ServiceImplementsPool`: `Service` implements `WorkPool`. The mapping takes the
  queue, the jobs and the ghosts as they are; it needs `PlaceInv` (only accepted
  items are queued, held, finished or abandoned, and nothing is queued once a
  worker has left) for "accepted once", and `ShutdownInv` for "nothing is left
  when `Run` returns".
- `EverythingCountsOnce`: `CountedOnce`. `CountInv` ties each counter to the
  number of items in a set: the runs, the accepted events and the handled or
  rejected events that have been counted by where they are and what their lists
  still hold. The events may be fewer than the counts, by the failed runs that
  counted as events too: `RunsFailing`, the workers that will count such a run
  as failed, is the slack that makes this inductive. `TallyInv` says which counters a
  list may hold, each once, `EndInv` that what was abandoned is nowhere in the pool. The
  sets are finite for any set of items, since only finitely many have moved.

The theorems about what the users see rest on these invariants, under the same
assumption and for shared lock stripes too:

- `AnswersDoNotMix`: `RepliesContiguous`. `UniqueInv`: an item is queued once, or held by one worker, or finished. `OwnInv`: a worker has
  replies in its list, or is at a place where it posts parts, only while it owns
  the stripe of its item's thread. `ThreadInv` is about who wrote what: an item with
  a reply in the thread is finished, or held by a worker that may still write, or was
  refused at the intake; of two that wrote there, the one that was not the last
  has finished. Contiguity alone is not inductive: it says nothing of who may still
  write. All but `UniqueInv` need that the shutdown is graceful, because the reply of a
  skipped run is made without the lock.
- `TheMarkMeansAnswered`: `CheckMeansAnswered`. `AnswerInv`
  follows one item through its submitter, the queue and its worker: nothing is
  replied before delivery; while parts go out there are only parts, and of these as
  many as `sent` says, counted place by place in the thread (`PartsAdd`), and `whole` agrees with the answer in
  the worker's hands; a list that
  holds the check mark holds no reply and begins after a whole answer, all parts of which are out; and who
  shows the mark has nothing more to say. It holds with faults and after the
  forced cancellation.
- `RunsStayVisible`: `NoRunVanishes`. `RunInv` says of a worker
  with a scheduled run that there is a reply; or the hourglass, which goes only
  after a reply or not at all because the calls of this worker fail; or, on a
  context of its own that has not ended, a reply in its list. `ReportsInTime` is the
  condition: no report has run into its deadline so far. It needs `ShutdownInv` (the reply context
  is in place when the cancellation is seen) and `AnswerInv` (an answer whose parts
  are out left one).
- `ReactionsTellTheEnd`: `ReactionsSettle`, for any number of items on one message.
  `ReactInv` asks of each reaction that is shown for an item that owes it: whose worker
  or submitter is going to take the eyes or the hourglass away, or who ends with
  this mark. The other way round every item that has ended shows its mark, or a list
  holds it: x if a failure reply of it is in the thread or in the same list, and
  its own mark otherwise. Who has been turned away after the end of the consumer's
  context owes neither. It uses
  `AnswerInv`, `ContextInv` (once the service's context has ended the consumer's has, and no worker
  leaves the work context before the forced cancellation), and that nothing was
  cancelled while the shutdown is graceful.

`AlertmanagerProofs`, for any alerts and any number of attempts, under
`AlertmanagerAssumption`: type correctness with the bound on requests
(`CallTypeCorrect`), `VerifiedAgainstTheTruth`, `DefinitiveOutcomesStand`,
`PersistsToTheEnd` and `LeavesPromptly`. The inductive `CallInv` ties the loop
counter to the requests sent: without it nothing bounds them. `LeavesPromptly` rests on another:
after the end of the context, in round n, the loop is still in round n, or is in the next one and
can only leave (`Leaving`).

`SlackCallProofs`, for any set of calls: `CallTypes` (at most two requests),
`ErrorsHaveAReason`, and `CallsImplementPromise`, the refinement. Its invariant ties
what Slack did with the last request to what the call returned: a request that
is repeated was refused, so it had no effect.

`ProcessProofs` on `Serve`, on the one instance there is: `NothingIsLeftBehind`,
`UnreadyOnceItReturned`, `EveryStopIsReported`, `SignalIsGraceful`. `ServeInv` has five
parts beside the types: what the place of `serve` says of what it has cancelled
and received, that who has not returned has sent nothing, when there is a
consumer and the flag may be set, that what stopped by itself and was selected is
reported, and that without a mishap only the signal ends anything (a signal before the
select is a mishap, so `SignalIsGraceful` says nothing of it). TLC's run of
`Serve` is complete; the proof adds the reason.

`ProcessProofs` on `Channel`, for any messages, texts, writers and number of faults:
`OnlyLostAcksRepeat`. The invariant counts where an envelope can be: how often it was
handed over, whether the consumer holds it and whether Slack still owes it add up
to at most one more than the acknowledgements that were lost; and a message that
is not written yet is nowhere.

`SplitSlackProofs`, for any answers and limits under `SplitAssumption`: `ContentKept`,
`AllFit`, `NoneEmpty`, `OverflowFull`, from `SplitInvariant`. `SplitInv` says that
the parts cut so far and the rest are the answer, that no part is wider than what the
current prefix leaves, and how many there can be: a part is not empty, so there are at
most as many as runes, and in the overflow each is cut at the width, so that
enough text makes enough parts. That the prefix of a part is not wider than the
one the width was computed for needs `DigitsMonotonic`, and so an induction.

`ThreadHistoryProofs`, for any texts, page size and number of messages under
`HistoryAssumption`: `HistoryEndsBeforeTheAsk`, `NothingIsOverlooked`. `HistoryInv` says that the pages read so far hold, in order,
all up to the cursor that still exists, and that what `Conversation` returned tells all
before the ask. Neither is lost when the thread grows or messages are deleted
(`GrownHasAll`); what a page adds is `PositionsGive`. `TheBudgetIsKeptAndUsed` is about
the operators of `Conversation`: after each turn of the loop what is kept and what
remains add up to the budget, and as long as more than the widest rune remains
nothing was cut.

`HolmesProofs`, for bodies of any length over any literals, any depth limit and any
limit of the analysis, under `HolmesAssumption`: `Acceptance`, `Delivery` and
`Success`. The decoder never looks back and the grammar does not look ahead, so the
proof has two directions.

- Nothing legal is refused: `DocumentsRead`, by induction over the derivation of the
  phrases (`PhraseInduction`). A value, member or list that keeps the limits of
  `Documents` leads the decoder, whatever is on its stack, from where one may begin to
  where it ends with the same stack. The limits speak of the whole document, so the
  induction carries what they say of a part that begins where b brackets are open
  (`Fits`, `Chosen`). What a run has read is then that same way, for the decoder is
  deterministic on classes (`ReadsSame`, `TokenMoves`), and on every beginning of a
  document it has not failed (`ReadsBeginning`).
- Nothing else is accepted: `EndIsDocument`. The invariant `Parses` cuts what has been read at the
  brackets that are open (`Frames`) and says of each of them which list of its grammar
  stands in it; closing one joins the innermost list to the value it is
  (`FramesPop`). `Tracks` ties the length of the stack to the brackets that are open, and
  the place to the name just read, which is what the two limits need.

`TokenClass` is the part about single tokens: `skipNumber` passes exactly the numbers
(`NumberEndsIsNumber`, `IsNumberEnds`), and the name that is compared after it was cut at
`NameLimit` is analysis only if the whole name is (`NameIsAnalysis`). For the analysis,
`DecodeRunes` shows that taking pairs from the left makes the runes defined place by
place, and `ReadStringDelivers` what is kept of them within a limit; `Texts` grows by
a text exactly where the decoder stores one (`TextsGrow`). `IInv` puts these together.
It says that a way exists, through any number of places, and that cuts exist: TLC
cannot evaluate that, but it has checked each of the three properties that follow.

Induction is available in these proofs as a fact about sets of numbers (`Least`,
`Induct` in `SequenceFacts`): a set with 0 and the successor of each member is `Nat`.
The recursive functions of the models, `FlattenSeq` among them, are unfolded with
it, by way of a lemma that says that the function exists.

Only model-checked: liveness, which needs `ENABLED`, out of the prover's reach:
`AcceptedEnds`, `ShutdownCompletes`, `ServeReturns`, `Returns`, `SplittingEnds`,
`CallReturns`, `QuestionsEnd`. Every safety property of a passing run has a theorem.

## Not modelled

How texts are put together: `messageText` from attachments and fields, the prompt,
`sanitize` with its regular expressions, and the limits of the alert payload and
the runbooks (`boundAlerts`, `boundRunbooks`), which depend on the size of
marshalled JSON. The configuration, which is parsed once and then constant; what it
guarantees is assumed of the constants. The gauges and histograms, which nothing
in the program reads. HTTP routing, the wiring in `run` and `main`, the chart and
the scripts.

## Plan

1. Done: `Service`, `WorkPool`, their runs, and the proof of every safety property
   those runs check; `Serve`, `AlertmanagerClient`, `SplitSlack`, `Conversation` and
   `ThreadHistory`, each with proofs of all its safety properties; `SlackCall` with
   its abstract specification and proofs; `Channel` with its proof; `HolmesResponse`
   with the proof that it accepts exactly the grammar.
2. Left to extend: `boundAlerts` and `boundRunbooks` over abstract sizes; an
   abstract specification of a verified investigation that `Service` with
   `AlertmanagerClient` implements.
