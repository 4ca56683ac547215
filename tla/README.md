# Quoto, verified

Quoto is a Telegram bot that publishes one quote a day in every group that
agreed to it. All day it stores a group's messages and reactions and describes
its pictures and videos; at the group's cutoff it lets an AI score the messages,
picks the quote and posts it. This directory holds TLA+ modules translated from
the Go code in `src/`, the TLC instances that check them, and proofs that TLAPS
checks.

    tlc -config DailyQuote_one_process.cfg MCDailyQuote     # a run
    tlc -config ServiceCalls.cfg MCServiceCalls
    tlapm DailyQuoteProofs.tla                              # the proofs of a module

`PROJECT.json` maps every definition to the lines it models and lists the runs,
the hazards, the mutants (each property is violated once a plausible bug is put
into the model) and the disagreements between code and documents.

## 1. The system

| Part | State it keeps | Operations |
|---|---|---|
| Update poller `bot/bot.go` | offset, 16 slots, handlers | poll, accept, handle, stop, confirm |
| Collection `bot/collect.go`, `bot/events.go` | none of its own | save, edit, reactions, membership, migration |
| Store `db/*.go` | tables `messages`, `message_media`, `reactions`, `group_settings`, `quotes` | one transaction per call |
| Scheduler `scheduler/*.go` | per group: lock, finished day, reminded day, earliest retry | minute tick, catch-up after an acceptance, stop |
| Quote windows `window/window.go` | none | the day a cutoff closes, in any time zone |
| Media queue `media/pipeline.go`, `pgstore.go` | three channels, reserved rows, leases in the table | submit, route, recover, claim, analyse, finish |
| Media analysis `media/analyse.go`, `cache.go` | calls in flight, cache table | look up, fetch, describe once per file |
| AI `ai/*.go`, clients `claude/`, `openrouter/` | circuit breaker, media cooldown | evaluate a day, describe a file, read the event stream |
| Telegram client `telegram/client.go` | alert keys | send with flood control, classify the outcome, alert |
| Panels `bot/callbacks.go`, `state.go`, `menu/` | throttle, open panels | buttons, agreement |
| Parser and scoring `ai/parse.go`, `scoring/` | none | read the answer, pick the primary message and its context |
| Reports `scheduler/pgreports.go` | two tables | save a report with its scores, remove old text |
| Audit log `audit/audit.go` | a file, the time of its last cleanup | append, clean up |
| Process `cmd/bot/main.go`, migrations `db/migrate.go` | advisory lock, ledger, the parts that run | connect, migrate, check, run, stop |

How they interact: the poller hands every update to a goroutine, which writes to
the store and submits new media rows to the media queue. The media queue and the
scheduler read and write the same tables; the scheduler deletes the messages of
a finished day, and with them rows the media queue may be working on. An
acceptance of the agreement starts a catch-up of the scheduler next to its
minute tick. All groups share the circuit breaker of the evaluations, and all
files the cooldown of OpenRouter. What an evaluation answers passes the parser,
then the scoring, and becomes both the post and the report of the day. All
processes of the bot share the database and nothing else; two of them overlap
during a deploy.

What is hard:

* a send cannot be undone and its answer may be lost, while the process may die
  between the send and the record of it (scheduler);
* rows claimed by time: stale quotes, leases of media rows;
* bounded queues that drop work, and a recovery pass that must find it again;
* state read before a long call (AI, download, getChat) and used after it;
* up to 16 handlers of one group at once, updates delivered twice after a crash;
* clocks that are changed over a cutoff;
* counters and cooldowns that calls in flight from before keep moving;
* answers of a model, streams and logs that may be cut, torn or wrong anywhere;
* buttons pressed by people who lose their rights while the press is handled.

What makes each part correct is stated by the properties below; the parts
without a module are in section 7, and all hazards are in `PROJECT.json`.

## 2. Modules

| Module | Models | Kind |
|---|---|---|
| `DailyQuote` | one group's quote days: `scheduler.go`, `process.go`, `publish.go`, `db/quotes.go` | state machine |
| `QuoteLedger` | what the table of quotes promises: the abstract specification of `DailyQuote` | state machine |
| `DailyQuoteInv` | the inductive invariants of `DailyQuote` | definitions |
| `DailyQuoteProofs` | types, and at most one quote a day | proofs |
| `DailyQuoteOutcomes` | the refinement of `QuoteLedger`, notices, stale rows, and what one process guarantees | proofs |
| `MediaPipeline` | the media queue with analysis, cache and leases | state machine |
| `MediaPipelineInv`, `MediaPipelineProofs` | the inductive invariants of `MediaPipeline`; theorems | definitions; proofs |
| `QuoteWindow` | the arithmetic of `window.go`, asked at every tick | operators and a clock |
| `QuoteWindowProofs` | theorems about `QuoteWindow` | proofs |
| `UpdateFeed` | poller, collection, reactions, membership and migration of a group | state machine |
| `UpdateFeedProofs` | theorems about `UpdateFeed` | proofs |
| `Evaluation` | the evaluations of several groups with their breaker: `ai/eval.go`, `service.go`, the retries of `claude/client.go` | state machine |
| `MediaDescribe` | the descriptions of several files with OpenRouter's cooldown: `ai/media.go` | state machine |
| `Providers` | what Claude and OpenRouter may answer and what may be tried again, for both | operators |
| `ClaudeStream` | the event stream of one call: `claude/stream.go` | state machine |
| `Outbox` | flood control and alerts: `telegram/client.go` | state machine |
| `Answers` | from the window and the answer to quote and score rows: `ai/parse.go`, `scoring.go`, `pgreports.go` | operators in a pipeline |
| `Reports` | the transactions that save and scrub a report: `pgreports.go` | state machine |
| `AuditLog` | the log file: `audit.go` | state machine |
| `Startup` | two releases that start, migrate, run and stop: `main.go`, `migrate.go` | state machine |
| `Panels` | the handlers of buttons: `callbacks.go`, `db/groups.go` | state machine |
| `PanelMemory` | throttle and registry: `state.go` | two state machines |
| `ServiceCallsProofs` | theorems about `Evaluation`, `MediaDescribe`, `ClaudeStream`, `Outbox` | proofs |
| `RecordsAndPanelsProofs` | theorems about `Startup`, `Reports`, `AuditLog`, `Panels`, `PanelMemory` | proofs |
| `AnswersProofs` | theorems about `Answers` | proofs |
| `MC...` | symmetries, values of constants, and the two sums below | instances |

Some machines touch each other only through values that each of them takes as
given: the outcome of a send, of a description, of an evaluation. They are
checked side by side: `MCServiceCalls` and `MCRecordsAndPanels` hold the
variables of several machines and one more, `machine`, that says which of them
this behaviour runs. One run then asks what these machines promise, in as many
states as their sum, not their product.

### DailyQuote

The state is that of the code: the row of each quote day (`row`), the group's
settings, the messages of each day as "none", "few" or "enough" (`win`), the
memory a process has of its group (`mem`: finished day, reminded day, earliest
retry), its lock, the list of groups the tick is working through, and one record
per run: the tick's, and one per press of the agreement button. `pc` of a run
names its next call; each call to the database, the AI or Telegram is a step, so
that runs of one or two processes interleave at every call and a crash may fall
between any two. What a run read earlier (its snapshot of the group, the stale
rows, the failed row) stays in its record and may be out of date when it is used.

`posts`, `notices` and `nudges` are history: what the group really saw. A send has
four outcomes (delivered, refused, lost before delivery, lost after it); the code sees
three and cannot tell the last two apart. A database call may be lost after it took
effect.

`QuoteLedger` says what may happen to a day. Its quote is posted at most once, only
while the day is claimed and by the run that claimed it and still works on it
(`working`). Only that run records the outcome. An unknown outcome never changes. A
published one changes only to unknown, and only by the run still recording it: when the
answer of `MarkPublished` is lost, `publish.go:67` marks the row unknown. A claim is
written off only when nobody works on it, and only a day that failed, with nothing
posted, is opened again. `KeepsLedger` is the refinement: the ledger is
read off the rows, `working` off the runs that own their day's claim.

### MediaPipeline

One process, or several, with the inbox, the light and the video queue, the set
of reserved rows, the workers, the job slots (`maxConcurrent`), the calls in flight,
and in the database the media rows with status, attempts, lease and due time, and
the cache of descriptions. Every job goes through the labels of `process` and
`analyse`; Submit, the router, the recovery pass and the clock are actions of
their own. A graceful stop cancels the jobs and leaves their rows `processing`,
which for the database is the same as a crash, so they share an action.
`before` and `shut` of a job are history: whether its file was cached and its group
closed when it last could know, at its start and again when its download ended.

Files are told apart by one identity. The look-alike search by perceptual hash,
several kinds and several prompt versions of one file are left out. The query of
the recovery pass (`Pending`) may return any rows up to its limit.

### QuoteWindow

Instants and clock readings are integers, a zone changes its offset once. `At`,
`ClosedForDay`, `QuoteDayOf`, `LastClosed` and `Due` are operators; the state
machine asks `Due` at every tick and collects the days it found.

### UpdateFeed

The members act (post, edit, react, remove the bot, upgrade the group) and every
act appends to Telegram's log. The poller asks for the log from its offset on,
accepts updates in order as slots come free, and the handlers run at once. A
transaction is one step; other calls (getChat) are steps too. Telegram drops an
update once a later offset passed it. `text`, `likes`, `member` and `chat` are
what the members see; `dbText`, `dbLikes` and `group` are what the database has.

Left out: panels, callbacks, private chats, work in the background, a second
process (Telegram refuses two pollers) and messages whose edit turns them into a
bare link. There is one emoji. Message ids of the old and the new chat are
distinct.

### Evaluation and MediaDescribe

One HTTP request is one step, with one of the answers that `Providers` tells
apart: an HTTP status, a broken connection, a stream that was cut or overran its
budget, an answer that does not parse. An `eval` holds the candidate of the
chain, the attempt on it and the retry inside the client. `failures` and
`breakerLeft` are the breaker of `service.go`, shared by all evaluations, its
instant turned into a timer; likewise `pauseLeft` is OpenRouter's cooldown.
Calls that began before the breaker or the cooldown started end after it and
move it: that is what the properties are about. `recent` and `lastWord` are
history. The process may stop, and the caller of a description may go away, at any request.

### ClaudeStream

The server's side (what it has sent of its message, pieces of text as members of
a set) and the accumulator. The stream may end, break or bring an error between
any two events, or a message may begin anew after a decline.

### Outbox

Posts under way, each with its attempt, the last error and, as history, whether
Telegram really posted it and whether an answer left that open. The map of alert
keys is modelled with its bound and the rule that drops the oldest.

### Answers

One behaviour takes a window and an answer through `Prepare`, `parseEvaluation`,
`Pick` and `scoreRows`. A JSON value is a token with a type and a number in
halves, so that a float, a text that is a number and one that is too large are
told apart; scores are in twentieths, the grid of `normalizeScores`. These Go
functions are pure, and so are the operators: each takes what the function takes
and returns what it returns, whatever the state.

### Reports, AuditLog, Startup, Panels, PanelMemory

`Reports`: one statement is one step at READ COMMITTED: a `SELECT ... FOR UPDATE`
sees a snapshot, then waits for whoever has the row. Row locks and the wait of a
unique index are guards.

`AuditLog`: the stamp, the mutex, the cleanup line by line into a second file, the
rename and the append are steps; the process may die at any of them, an append
may stop halfway and leave a torn line, and a cleanup may fail.

`Startup`: the parts of a process from `connect` to its exit, the statements of
`Migrate` with the advisory lock, on every kind of database `adoptAlembic` tells
apart. The comparison of the catalogue is one condition (`tables`).

`Panels`: a press passes the gate (owner, throttle, known action), reads the
group, asks Telegram whether the person is an administrator, changes the row under
its lock, reads it again, draws the panel and answers; every call may fail and the
rights may change between any two. `owed` is what the presses that went through
add up to. `PanelMemory`: two maps under a mutex each, ages counted in ticks.

## 3. Runs

Twelve runs; those that expect a violation are section 5.

| Run | Question | Instance |
|---|---|---|
| `DailyQuote_one_process` | one quote at most, on record, no retry after an unknown outcome, no notice next to a quote, no window cleared early | one process, one day, a press of the button, one restart, one change of settings; lost, refused and unknown answers |
| `DailyQuote_reminder` | AI only for open days, one reminder a day | two days, failing queries, a chat that is gone |
| `DailyQuote_two_processes` | the same with two processes; no live run is written off; the inductive invariant; the refinement | two processes on one busy day, no restart; refused sends, unknown outcomes, lost acknowledgements of the database; a row is stale as soon as the time allows |
| `MediaPipeline_jobs` | one job per row that owns it, attempts bounded, outcomes stay, no foreign timeout; nothing is downloaded or sent that was cached, or closed, when the job could last look | two video rows with one file, two workers, queues of one place, one fault, one change of the switch or deletion |
| `MediaPipeline_settles` | every row gets an outcome (liveness) | two rows, one unreadable, one worker, queues of one place |
| `QuoteWindow_days` | windows tile, no day is skipped or early or late | half-hour units, four days, every cutoff, changes of up to an hour both ways in one night |
| `UpdateFeed_days` | nothing skipped, nothing repeated without a cut, a stop finishes, in order the database is what the members see | three updates, two messages, two slots, one failed call, one stop or crash |
| `ServiceCalls` | `RequestsBounded`, `EvaluationsSettle` (liveness), `BreakerIsFair`; `ResultsAreHonest`, `PauseIsEarned`; `WholeMessage`; `PostsAreHonest`, `QuietUnlessCrowded` | two evaluations over Claude and OpenRouter, two attempts each with one retry, breaker at two; two descriptions over two models; two messages of two pieces; one post, four alert keys in a map of two |
| `RecordsAndPanels` | `QuoteIsBest`, `ReportAgrees`; `LogHoldsItsWeek`; `ReportStands`; `MigratedOnceBeforeServing`; `PressesAreSound`; `MemoryIsBounded` | some ten thousand answers to two windows; two writers, two records, two faults; two savers, four calls; two releases, two starts each, all databases; two people, two handlers, three presses; maps of one to four keys |

A property with several parts (`BreakerIsFair`, `ReportStands`, ...) is a
conjunction of named ones; the parts are commented where they are defined. Three
runs check the inductive invariants on which the proofs rest, which is more than the
properties they are for: `SerialInv` (one process), `WholeInv` (two) and `PipelineInv`,
which has `JobsAreExclusive`, the attempts, the cache and the times as parts.

Bounds, and why they suffice:

* `NDays`: a run touches one day and the rows of older days only through
  `recoverStale`, so two days show every interplay; one day is used where the
  property is about one row.
* `MaxTime`, `RetryAfter`, `StaleAfter`, `PublishTimeout`: the code's 15, 15
  and 3 minutes shrink to the smallest units that keep their order,
  which is all the code relies on. The time allows a failed try, its retry, a
  write-off and one more try. With two processes `StaleAfter` equals `PublishTimeout`,
  the tightest the assumption admits, and is less than `MaxTime`: a row that its run left
  becomes stale and is written off, by either process, while the other is at work, and a
  failed try has its retry. That run has no restart; crashes with two processes rest on
  the theorems, which bound nothing.
* `MaxRestarts`, `MaxFaults`, `MaxChanges`, `MaxEnds`: a fault is one lost, refused
  or unknown answer. The dangerous cases need one or two in the same run, and a
  restart that follows; DailyQuote bounds faults only by its time.
* Queues of one place and two rows make a full queue; two workers with one file
  make a shared call; `MaxAttempts` = 2 lets the budget run out.
* Attempts, retries, models, thresholds of two: the code's five failures, three
  attempts and several models are counters that the code only compares with their
  limit; two of each lets a counter be reset, run out and be overtaken by another
  call. Timers of two ticks are still running when a call from before ends.
* Two writers, savers, releases, handlers: the code locks in pairs (mutex, row,
  advisory lock), so the second one is who finds the lock taken or the row gone.
  Four saves let a saver fail, repeat and meet a committed report.
* Answers: lists of up to three scores over five kinds of ids make repeats,
  inventions, unreadable values and ties; up to four messages of context exceed
  the limit of three on either side of the quote.
* Three updates: a message with its edit or two reactions, or a message with the
  upgrade and the service message of the new chat. Two slots overlap any two.

`CHECK_DEADLOCK FALSE` is set because the modelled time, updates and restarts end.

At the deadline of a commit (`PublishTimeout`) the model lets the pending call
succeed or end. "few" also stands for days that are skipped after filtering.
The one-process run leaves single failing queries out, as a crash at the same
place covers their rows; the reminder run has them.

### Fairness

Two runs need it.

`MediaPipeline_settles`: weak fairness is given to each goroutine (router,
recovery pass, worker, submit, the next start of the process), since Go runs
every runnable goroutine and the container restarts the process, and to the
clock. Strong fairness is given to taking a job slot, whose waiters
are served in order. Faults and crashes are bounded (`MaxFaults`) and get none:
a database that always fails settles nothing.

`ServiceCalls`: weak fairness of the next request of each evaluation
(`EvalStep`), because each request ends by its own timeout and each pause by its
timer, and of the timer of the breaker. New evaluations, stops and the answers of
the providers get none: the chain must end whatever they are.

There is no fairness in the other modules; their properties are safety properties.

## 4. Theorems

TLAPS proves these for every value of the constants that the named ASSUMEs admit.
Every safety property and every action property that a passing run checks is one of
them. "One" marks the theorems that assume a single process (`OneProcess`).

| Theorem | What it says |
|---|---|
| **`DailyQuoteProofs`** | |
| `TypeCorrect` | types: a run past its lock works on a day of the model |
| `InvariantHolds` | `IInv` is inductive |
| `AtMostOnce` | a day's quote is delivered at most once, for any number of processes, presses, days, restarts and all faults at any time |
| `PostsAreOnRecord` | a delivered quote keeps a row that is not failed |
| **`DailyQuoteOutcomes`** | |
| `WholeInvariant` | `WholeInv` is inductive |
| `ImplementsLedger` | `DailyQuote` implements `QuoteLedger`: a day is posted, settled and reopened only as the ledger allows, by whom it allows |
| `PublishedIsFinal` | no step deletes, fails or claims again a published row |
| `NeverBoth` | a day has a quote or a notice, never both |
| `NoneWrittenOffAlive` | no row is written off while the run that works on it lives, in whatever process |
| `OneRunAtATime` (one) | `SerialInv` is inductive: one run at a time works on the group, and knows its row |
| `AskedWhenOpen` (one) | the AI is asked, and its verdict recorded, only for a day without a row |
| `UnknownStays` (one) | nothing is sent for a day whose outcome is unknown, and its row stays |
| `WindowKept` (one) | the messages of a day worth a quote stay until its outcome is on record |
| `NudgedOnce` (one) | one reminder of the agreement per day and start |
| **`MediaPipelineProofs`** | |
| `TypeCorrect` | types; a job's own end of time is never its result |
| `QueuedOnce` | a reserved row is in exactly one place of its process, an unreserved one nowhere |
| `JobsExclusive` (one) | no two jobs of one row, and a job owns its row |
| `AttemptsEnd` (one) | a row is analysed at most `MaxAttempts` times, cooldowns aside |
| `OutcomesStay` (one) | a final outcome is never put back to work |
| `SendsOnlyItsOwn` | a file cached at the start of its job is not downloaded, one cached when the download ended is not sent; neither in a group closed by then |
| `TimesAreOwn` | with at most two slots no job ends for good because another job's time was over |
| `PipelineInvariant` (one) | `PipelineInv` is inductive, with at most two slots |
| **`QuoteWindowProofs`** | |
| `NoDayIsSkipped` | `Due` finds every day before it is too late |
| `CutoffsAreFirst` | `At` is the first instant that shows the reading |
| `DaysTileTime` | windows of consecutive days meet, none is empty |
| `DueDaysAreTimely` | a due day is closed (unless its cutoff was skipped), and recent |
| `LastClosedAlwaysLatest` | `LastClosed` names the latest closed window |
| **`UpdateFeedProofs`** | |
| `FeedInvariant` | `FeedInv` is inductive |
| `HandledOnceAlways` | no update is dropped unstarted, or started more than once more than there were cuts |
| `StopsFinish` | after a stop, what Telegram has dropped was handled to its end |
| `SerialAlwaysFaithful` | handled in order and without failures, the database is what the members see |
| **`ServiceCallsProofs`** | |
| `RequestsAlwaysBounded` | an evaluation sends at most the requests of the candidates it came to |
| `BreakerAlwaysFair` | the breaker opens only on a row of failures, and never for a stop |
| `DescribedHonestly` | an uncounted result sent nothing; a file is given up only when no failure may pass |
| `PauseAlwaysEarned` | the pause begins with a file no model takes without payment, and is OpenRouter's last word |
| `MessageAlwaysWhole` | a returned message has all its pieces in order, and nothing of one taken back |
| `PostsAlwaysHonest` | a post is in the chat at most once, and its last error tells whether it may be there |
| `AlertsStayQuiet` | the alert map is bounded, and repeats an alert early only when crowded |
| **`RecordsAndPanelsProofs`** | |
| `StartupInvariant` | `StartupInv` is inductive |
| `ServedAfterMigrations` | a migration runs once, the ledger is true, nobody serves on a database that lacks one |
| `ReportsAlwaysStand` | a parsed report is kept, a day never loses its last report, the two tables agree |
| `LogAlwaysHoldsItsWeek` | a written record stays for its week, wherever a write or a cleanup is cut |
| `PressesAlwaysSound` | a press is answered once, counts once, and changes a setting only for an administrator |
| `MemoryAlwaysBounded` | both maps of the panels are bounded and forget only what is old or crowded out |
| **`AnswersProofs`** | |
| `QuoteAlwaysBest` | the quote is the model's pick or the best message that can be one, for every window and answer |
| `ReportAlwaysAgrees` | context, rows, ranks, flags and scores are those of the answer and the post, but for the score of an unscored pick (section 5) |

### The arguments

Most properties are not inductive. What each proof adds, and why it is needed:

**DailyQuote, the claim on a day.** A state in which two runs are about to send
for one day satisfies `QuoteAtMostOnce`. `IInv` (`DailyQuoteInv`) adds why that cannot
be: a run that is about to send holds the row its own `Create` inserted, nothing was
posted for its day, the row is `publishing` (or `publish_unknown`, written off by
another run), no other run holds it, and a run about to delete a row holds one that
failed or is unknown, for which nothing was posted and nobody sends; row identities
are never used again. The proof has a step per action and under it one per conjunct
that the action touches.

**DailyQuote, outcomes.** `OutcomeInv` adds that a confirmed send was a post and that
a notice stays on record. From it every step changes the rows and the posts in one
of a few ways (`Kept`, `Posted`, `Inserted`, `Deleted`, ...), one lemma per action, and each
of these is a step of the ledger or leaves it alone. Who may take it needs
`ClaimInv`: the row of a day that a run works on is still the row it claimed
(`OwnersKeepClaim`), and a row about to be deleted has failed (`DeletedIsFailed`).

**DailyQuote, stale rows.** `LiveInv` is about time: the committed part of a run has
a deadline, at most `PublishTimeout` ahead and not passed; its row was changed no
earlier than `PublishTimeout` before the deadline (`LiveIsFresh`); and a stale row that
another run has read about is finished by nobody (`StaleIsDead`). With
`PublishTimeout <= StaleAfter` a row that is old enough to be written off belongs to no
committed run. Ids must be unique across days (`IdsAreUnique`), or a write by id could
change another day's row.

**DailyQuote, one process.** `SerialInv` says that every busy run has the lock of its
process, and names for each `pc` the statuses the row of its day may have. A second
process has a lock of its own and may change the row, see section 5. `ReminderInv` counts: a reminder
of a day, plus the one that is still due, is covered by the starts of the process; it needs that the
tick's days never go back and that only the tick reminds.

**MediaPipeline.** `ReservedOnce` puts a reserved row into exactly one of inbox, queue
and worker, for any number of processes. With one process, a row is then worked on by one job, and
`Owned` says that this job's count is the row's. `AttemptsInv` carries the number of
analyses through crashes: a row that is `processing` may be one ahead of its count.
`PrivacyInv` remembers at each label what the searches and gates have shown since the
start of the job (`Uncached`, `LetOut`), and starts over when the download ends.
`TimesInv` is for `NoForeignTimeout`: a job that waited for another's call and goes
again has the least time left of all that run (`AgainIsFirst`), so the second call it
joins cannot end before it by time. This needs that only two jobs run at once, which is the
code's limit (`maxConcurrent`, `media/config.go:21`). With three slots TLC finds a
counterexample in the model: raising that limit would break the property.

**UpdateFeed.** `FeedInv`: the batch continues the log where the process is, and every
update up to there was started or dropped. `SerialFeed` is for faithfulness: there
is a sequence of databases, one per update of the log, each made from the one before by `After`
(what a handler does when nobody interferes); the present one is the one at the last accepted
update or, while a handler is at work, on the way to it (`AtWork`); and the last one, which no
handler may have reached yet, mirrors what the members see. The two halves are
independent: members change only the end of the log, handlers only the place in it.

**Service calls.** `PostInv`: a post that goes on was not delivered and no answer left
that open; waiting means the answer was a 429. `BreakerInv`: the history ends in as
many failures as the breaker has counted. `BudgetInv`: the candidates before
the present one cost no more than their budgets (`CostTo`, a recursive function), the present one
what its attempts and tries count. `DescInv`: a description that reaches the pause without a
failure has sent nothing. `AlertInv` and the invariants of `PanelMemory` say that the map
holds true ages and that a key it lost while still of interest was followed by as
many younger ones as the map holds. `StreamInv`: the text of the accumulator is the
server's, whatever the blocks it is divided into.

**Records and panels.** `StartupInv`: exactly the process between its lock and its
unlock is the holder of the lock, the list it works through is what the ledger lacks,
a recorded baseline is whole. `ReportsInv`: what a transaction is going to
delete is not a parsed report, and who has inserted deletes all that is committed while
nobody else inserts or deletes. `AuditInv`: the second file has every line read so far that is
not expired, and a record in the log has a line of its own date or shares a torn one.
`PanelsInv`: a handler past Telegram's answer belongs to somebody
who was an administrator since the press, and so does any handler whose person is
one now; the second part is what the first needs when rights change.

**Answers.** `AnswersInv` says that each stage is made by the code's functions from
the stages before; the work is in what these return for lists of any length:
the parser keeps one score per known id (`ParserIsRight`), the report lists it with
that message (`ScoreIsListed`), the sort places
every message once (`Places`), the loop finds the first best one (`FallbackIsBest`), the
context is a part of the chosen ids with half the limit before the quote
(`SelectionFacts`, `WindowShows`).

`QuoteWindowProofs` rests on lemmas about one zone: at most one reading is skipped or
repeated, by less than the catch-up time.

### Assumptions

The hypotheses are the ASSUMEs that the modules name, and TLC evaluates all of them:

* `DailyQuote`: bounds are positive, and `PublishTimeout <= StaleAfter` (in the code 3
  and 15 minutes, `scheduler.go`).
* `QuoteWindow`: no zone is a day off UTC and no change of the offset is as long as
  the catch-up time; the code's two hours are longer than any daylight-saving change.
* `MediaPipeline`: workers are finitely many, limits are positive.
* `Outbox`, `PanelMemory`: keys, people and panels are finite sets, as any behaviour meets
  only so many; the throttle's window is not longer than the age it forgets.
* `AuditLog`: an old log is any sequence of lines. `Startup`: versions are positive, every
  release has the baseline. The names that stand for nobody are nobody's.
* `Answers`: message ids count from 1 and a reply names at most one quote.
* `Evaluation`, `MediaDescribe`, `ClaudeStream`, `Panels`: models, attempts, thresholds,
  messages and minutes are at least one. `Reports` needs none.

### What is not proved

* Liveness under fairness, and ENABLED, are beyond these provers: `EveryRowSettles` and
  `EvaluationsSettle` stay with TLC, as do the three runs of section 5.
* With two processes, the properties marked "one". `UnknownIsFinal` and
  `WindowKeptUntilSettled` are false then (section 5). `JobsAreExclusive`,
  `AttemptsBounded` and `OutcomeStays` rest on the reservations of a single process;
  between two there is only the lease, and `Finish` does not look at it.
* Induction: the library's theorems take the property as an operator, which these
  provers cannot instantiate. `AnswersProofs` proves induction for a set of numbers instead
  (`Induction`, from the cardinality of intervals), and the sequences of `UpdateFeedProofs`
  grow by one element at a step. No module declares a RECURSIVE operator.

## 5. Where code and documents disagree

Each is a run that expects a violation, with the quoted line in `PROJECT.json`.

* `DailyQuote_notice_repeated`: the retry of a boring-day notice does not claim the
  row before it sends, so a crash after the send repeats the notice. The
  statuses "follow publishQuote's rule" (`publish.go:89`) only for the first send.
* `UpdateFeed_upgrade_race`: while `onMigrated` waits for getChat, the first
  message of the supergroup creates settings for the new id. The move is then
  skipped without an alert, and the group starts over with default settings.
* `UpdateFeed_anonymous_admin`: a migration notice without a sender, which a test
  says "still moves" the group, does not record the new chat and so moves nothing
  unless another bot on the database knows the chat.

Seen while modelling, without a run:

* `tick` checks `completed` before it takes the lock and not again, so a day that a
  catch-up finished in between is run once more. The run finds its row and ends;
  the comment at `scheduler.go:148` ("no more runs for it") is a little too strong.
* `src/README.md:100` says the bot "retries every minute"; the tick comes every
  minute, a retry only `retryAfter` (15 minutes) after the last try.
* Lease and job of a media row have one length and the lease starts first, and
  `Finish` writes by row id without looking at the lease. One process is guarded by
  its reservations. With two, the second may claim a row whose first job is still
  to store its outcome; both outcomes are valid and the last one stays.
* Two processes may both retry a failed notice, so `UnknownIsFinal` and
  `WindowKeptUntilSettled` are checked for one process only.
* "One model call per file" (`pipeline.go:65`): a search of the cache that misses
  just before the other job's answer is stored, and reaches the flight when that call
  has returned, describes the file again. The cache is not searched again inside the
  flight; the answer is the same and the price is a second call.
  `SendsOnlyWhatItMay` therefore speaks of a file that was cached when the download ended.
* `analyse.go:62` calls its gate "the last look before the model". A job that joined
  another's call, whose owner then ran out of time, goes again (`analyse.go:170`) and
  may send without a new look. The same holds for a group that closes between that look
  and the call. The property speaks of a group closed when the download ended.
* A message the model picks without scoring it is posted with `neutralScore`, 0.5
  (`scoring.go:25`), and recorded with 0 and the last rank (`pgreports.go:331`).
  `ReportAgrees` excepts its score.
* A day that is retried after `publish_failed` is evaluated anew and may post another
  quote, while its first parsed report is kept (`pgreports.go:156`). `ReportAgrees` is
  about one evaluation, its post and its report.
* "Lines expire after seven days" (`audit.go:5`): a record that is appended to a torn
  line shares its line and its date, and goes with it; a line that is torn inside its
  `created_at` has no date and is kept. `LogHoldsItsWeek` excepts both.
* `scheduler.go:51` says that "nothing older than about 27 hours can be used"; a
  catch-up after an acceptance uses the window that closed today, at any time of the
  day, whose oldest message may be almost 48 hours old (49 with an autumn change).
  That is inside the 72 hours kept.
* `concurrency = 8` is "how many groups run at once" for the tick only: a catch-up does
  not take a place of the semaphore.

## 6. Abstractions to keep in mind

One group is modelled in `DailyQuote`, `UpdateFeed` and `Panels`; `Evaluation` has
several, with the breaker they share. The dispatcher's eight places are not
modelled. Texts and layouts are left out, and scores everywhere but in `Answers`. A
transaction is atomic and takes effect or not, its acknowledgement may be lost.
Clocks of two processes agree. The chat's administrators may change a group's
settings at any call of a run, within `MaxChanges`.

An evaluation that is `idle` may begin again, so two stand for any number over
time. The watchdog of the stream and the two timeouts of a request are one cut.
A line of the audit log longer than the reader takes, which the next cleanup
drops, is not modelled. The jitter of pauses is left out: no property depends on
how long one is.

`MediaPipeline` takes the result of a description as a choice; `MediaDescribe` says
which results there are and what each rests on. The same holds for `DailyQuote`
with `Outbox` (a send), `Evaluation` and `Answers` (the quote), and for `Reports`.

## 7. Plan

What would add most, in this order:

1. Proofs: what two processes keep of the properties proved for one (section 4 says
   which); an abstract specification of the media queue, a row that is claimed and
   settled like a day in `QuoteLedger`, and its refinement; the composition of
   `Evaluation`, `Answers` and `Reports` with the scheduler's step that calls them.
2. The dispatcher of the scheduler: several groups, the semaphore of eight, the stop.
3. The automatic claims of language and time zone (`db/groups.go`), the commands.
4. Liveness of `DailyQuote`: a day that can be published is settled.

## Not modelled

* Media normalisation (`normalize.go`, `phash.go`), the subprocess runner: image
  arithmetic and an external converter. What they return is a choice of `MediaPipeline`.
* Menus, agreement text, deep links, translations, the building of posts and of
  requests, prompts, prices, schemas: conversions without state or control.
* Statistics, the pool of connections, the health endpoint: they only read.
* Domain types, configuration, logging.
* The language block of an answer, and how JSON is found in prose.
