# Verification of the trading monitoring dashboard

The repository is a trading dashboard for Taiwan index futures: workers that move
broker quotes through Redis Streams into Redis state and SQL tables, a FastAPI
service that serves them as REST baselines and one stream of server-sent events, and
a React application that merges the two on charts, behind accounts and a paid
subscription. This directory holds TLA+ modules that model the parts in which steps of
several actors interleave, TLC configurations that check small instances, and proofs
that TLAPS checks. The code is the reference: a definition's lines are in
`PROJECT.json` under `map`. Paths below are relative to `apps/backend/app/` or, for the
frontend, to `apps/frontend/src/`.

## 1. The system

| part | state it keeps | operations | interacts with | hard behaviour | correct when |
| --- | --- | --- | --- | --- | --- |
| **tick pipeline** `stream_processing/runner.py` | one `TickStateMachine` a contract, hand-off queue, pending batch, retry counter; in Redis the consumer group's pending list, `k:current`, `k:zset` | consume round (reclaim, read, handle, ack), sink loop, `stop_async` | Redis Streams, SQL, `worker_runtime` | memory changes before it is written; redelivery, reclaim and late ticks; worker thread that outlives its coroutine; crash | bars are in order and summarise their ticks; Redis is never behind SQL; no accepted bar vanishes |
| **bid-ask pipeline** same file | `BidAskStateMachine`: latest quote, quotes by second, last second emitted; its own queue and batch | handle quote, carry forward on an idle round, sink loop | as above; upsert where the last item of a key wins | seconds consumed before they are written; late quotes | one sample a second, each the last quote of its second or the one carried forward |
| **worker runtime** `stream_processing/worker_runtime.py` | state, runner, lifecycle lock | start, stop, run_forever | the runner's tasks, signals | stop racing a failed task, stop that times out | at most one live runner; a dead task stops the worker |
| **billing** `services/billing_service.py`, two repositories, `routes/billing.py` | `subscriptions` row of a user, `billing_events` ledger | checkout, webhook | Stripe; threads of the web server | read and write in different sessions; duplicated, reordered and failed events | an event counts once; an entitlement was granted; a cancellation holds |
| **latest state** `latest_state/runner.py` | state of a symbol, last ingest sequence, dirty set, pending acks | handle spot, flush | Redis, ingestion | sequence restart, acks held back by a dirty symbol | what is acknowledged is flushed; sequence never goes back |
| **quote processing** `quote_processing/runner.py` | counters of a contract by trade date | handle quote | Redis, SQL sink | counters move before a failing write; late event flips the date | counters equal the events of the date |
| **market and OTC summary** `market_summary/`, `otc_summary/` | latest snapshot, minute buffer, list of rows to write | handle, roll over, flush | Redis, SQL | forced flush of the running minute at stop | one final snapshot a minute |
| **index contribution** `index_contribution/` | contributions, sector sums, processed event ids, minute snapshots | handle spot, publish, flush, daily reset | Redis, SQL | id marked before publication; reset against late updates | sector sums equal their members; an event is published |
| **market ingestion** `market_ingestion/` | bounded queue, sequence counters, reconnect task | SDK callbacks, writer loop, reconnect, resubscribe | broker SDK, Redis | callbacks from SDK threads, drops, retries, reconnects racing stop | sequences increase; one reconnect at a time |
| **email** `repositories/email_outbox_repository.py`, `services/email_*`, `apps/backend/workers/email_*` | outbox row, delivery log; in Redis the stream and the group's pending list | create, recover, claim, publish, reclaim, read, send, record, acknowledge; webhook | requests, Redis Stream, SQL, provider | claim, publication, sending, recording and acknowledgement are separate writes; a row recovered while its entry waits; crash | a second mail has a reason; what is acknowledged has its outcome; every mail settles |
| **batch jobs and backfill** `modules/batch_shared`, `modules/historical_backfill` | job row, Redis list, checkpoint | trigger, dequeue, run, retry | Redis, SQL | dequeue before record, duplicate triggers | one active job a key; progress does not go back |
| **authentication, OTP** `services/auth_service.py`, `services/otp_service.py` | denylist, challenges, one-time tokens | refresh, verify, register | SQL | check and write in two sessions | a token is used once; attempts are bounded |
| **rate limiter, SSE guard** `services/rate_limiter.py` | request times, open connections | allow, acquire, release | routes | release after an aborted stream | connections never exceed the limit |
| **serving, crawler, analytics, models** | none shared | queries, jobs | all of the above | formats and I/O | not modelled (section 7) |

The frontend runs on one event loop (and a worker's): its steps are tasks, and what
interleaves are continuations, timers, answers and React's effects.

| part | state it keeps | operations | interacts with | hard behaviour | correct when |
| --- | --- | --- | --- | --- | --- |
| **realtime client** `app/RealtimeBootstrap.tsx`, `features/realtime/` | the manager's controller, start number, timers, pending batch, status; the worker's batch; the realtime store | connect, disconnect, stream, reconnect, collect, flush | the serving stream, the session, every chart | a start that waits for a stream slow to die; timers and messages that outlive a session; two batching windows | one stream, of the session in force; a truthful status; nothing received is lost or taken back |
| **session and subscription** `app/SessionBootstrap.tsx`, `lib/store/auth-store.ts`, `lib/guards/`, `features/auth/`, `features/subscription/`, the user menu | the store: token, role, entitlement, resolved, checkout id; in-flight calls | bootstrap, login, registration, logout, checkout, its result page, the customer portal, redirections | auth and billing routes, the refresh cookie, Stripe's pages | continuations that write the store two awaits after they read it; guards that redirect on the same store | token and role are one account's; content was granted; redirections end |
| **dashboard timelines** `features/dashboard/hooks/`, `lib/`, `DashboardMetricPanels.tsx` | a series a hook with its index map; cached baselines | baseline, prefetch, patch, upsert, overlay | REST, query cache, realtime store | baselines and payloads race; late samples; mounts that find half of it | series ordered and indexed, made of real samples, with the newest one |
| **shell and navigation** `app/navigation/`, `app/layout/` | location, skeleton and its target | click, prefetch, land, history | the pages | a navigation that waits, overtaken by another | the skeleton goes away |
| **loader, analytics and audit pages** `features/dashboard/` (panels, jobs table), `features/analytics/`, `features/admin/` | batches of jobs, their panels; form, query cache, page, sort | load, filter, sort, page, retry | batch and analytics routes, the shell | a batch that outlives its page; answers of an older form | every job is listed or lost for a reason; what is drawn is what the form asks for |
| **presentation** charts, wording, generated interface components, demo pages | none another part reads | render | all of the above | layout | not modelled (section 7) |

The hazards this gives rise to, each at its line with the properties that cover it, are
in `PROJECT.json` under `hazards`.

## 2. Modules

**`TickBars`** is `TickStateMachine` as pure operators. A tick is its minute, whether it
lies in the day session (a fact finer than the minute, hence part of the input), a
price or `None`, and a volume. `Dropped`, `OpenedBar`, `UpdatedBar`, `Archived` and
`DayOpen/High/Low` are the branches of `apply_tick` and `_update_day_state`; `HasAmplitude`
is the condition under which `to_dict` does not raise. A malformed entry (no code, no
timestamp) has the same effect as a tick without a price: counted and acknowledged.

**`DbSink`** is the database sink: `queue` is the asyncio queue, `pending` and `retries`
the two fields behind it, `sink` the place of the coroutine (`idle`, `persisting` while
its thread runs, `persisted`/`failed` once the thread ended and the coroutine has not
resumed, `flushing`/`flushed` in `stop_async`), `orphan` the batch of a thread whose
coroutine was cancelled, `rows` the table, `dead` and `logged` the two ways a bar is
given up. A failed commit may have committed nothing, everything, or, once the
duplicate-tolerant path runs row by row, some first part (`PersistFails`). The synchronous
flush alternates the tick and the bid-ask sink; the other sink shows as `FlushAbandoned`
(its exception ends the flush) and in the choice of `FlushQuarantine` (a turn that
flushed nothing here goes on if the other sink flushed something).

**`WriteBehind`** is the abstract promise of such a sink: an item accepted is held until
its key has a row or it was given up; rows are never replaced; only the end of the process
forgets what is held. Memory is all a process has, so `Forget` is free in this promise: the
loss of accepted bars with a crash is permitted, and is no violation of it.

**`TickPipeline`** extends both: consumer group (`delivered`, `pel`, `idle`), consume loop
(`phase`, `work`, `acking`), machine, Redis keys, stop, crash and restart. The loop and the
sink coroutine share an event loop, so `CoroutineTurn` happens only while the loop is at an
await or gone; `ThreadStep` happens at any time. `PublishTick`, `RedisFails`, `InvalidOpen`
and `QueueFullTick` are the ways `_handle_tick_entry` ends after `apply_tick` has moved the
machine; `AckError` and `RefreshFails` are the exceptions no `try` surrounds, which kill the
tick task. `applied` and `missed` are history variables that the properties use.

**`Billing`** models `BillingService` at the granularity of database sessions. Checkouts
run in threads (`Checkouts`), webhooks one at a time (`Webhook`): a checkout reads the row
and decides what to write (`ReadForCheckout`), the upsert loads (`Load`) and commits
(`Commit`) in a session of its own, then the Stripe session is opened. The webhook inserts
the ledger row (`FirstDelivery`), decides on the row as it is (`Ignore`, `Decide`), upserts
and marks the event. An upsert writes only the columns that differ from the row it loaded
(`Written`). Stripe is external: it sends an event for each change of a
subscription and delivers them in any order, again until it has a 2xx answer.

**`EmailPipeline`** models requests (`Enqueue`), the worker's one thread (`at` is where it is
in `run_once`; the compose files run one such process) and the webhook. A row is its place in the
order of `created_at`, an entry its position in the stream. `recover_stale_processing` and
`mark_processing` write over what an earlier statement read, with the webhook's commits in between,
so they are two steps each (`Recover`/`Recovered`, `Claim`/`Claimed`). `mark_sent` and
`mark_failed*` write whatever the row is: only the order of the commits matters, and each is one step;
`retry_count` is written by this thread alone. A statement or call that raises after it took effect
is the effect followed by `HandlingRaises`. `PublishRaises`, `ReclaimRaises` and `ReadRaises` are the
other exceptions the code catches; the rest end the process (`Crash`), which is started again
(`Start`). A signal ends the loop at a place where a crash does no more than the signal.
`onupdate` of `updated_at` is in `SetStatus`, the minute of a row and the half minute of an entry in `Ages` and
`EntryIdles`. Provider and Redis are external: a mail is accepted or rejected, the answer may be
lost, events come later, any number of times, for mails that were accepted. (The request the
provider gets carries no `outbox_id`, which an event needs to be handled; how the account is set up to
add it is not in the repository.) `unrecorded` and `refused` are history variables: acceptances
the worker had no chance to record, and events that took `sent` back.

**`ServingFeed`** is what becomes of one serving event, as pure operators: the schemas
(`Conforms`), the session-hours filter (`ShouldApply`), the collector of the manager
(`Collect`) and the worker's copy of it (`CollectRaw`), the merge of batches (`Merge`, the
later wins slot by slot) and the store's update (`ApplyBatch`, with the capped series of the
distribution). The worker has no schemas: of a sector event it checks only that a time is
there for the heartbeat. An event's payload is its place in the feed.

**`LatestBoard`** is the abstract promise of a live display: what is learned is never older
than what it replaces, what is shown only catches up, and both can be given up together.

**`RealtimeManager`** extends `ServingFeed`: `RealtimeBootstrap`'s effect and cleanup
(`EnterSession`, `LeaveSession`), `startWhenReady` with its await of the old stream
(`StartWhenReady`, `Resume`), the reconnection timer (`TimerFires`), the stream's life
(`Opens`, `StreamEnds`, `StreamBreaks`, `AbortSettles`, `Fails`), frames cut across
chunks (`Chunk`), the 100 ms window (`Flush`), the worker with a window of its own
(`EmitBatch`, `WorkerTakes`, `WorkerTimer`, `BatchArrives`) and the mock build
(`MockEmits`). `streams` are requests that have not settled, aborted ones among them;
`waiting` the starts that await one; `startSequence` is a number of which only its being
different matters. `heard` is a history variable: the newest collected value of a slot.

**`Session`** is the browser's session. `calls` are calls in flight whose continuations
write the store or move the browser, `live` while the page that made them is mounted;
`boot` is the bootstrap; `Target` is where the page at hand redirects, taken from
the guards, the pages for visitors and the result page. A checkout's continuation writes the
session it captured (`CheckoutAnswers`, `CheckoutSettles`, `Renewed`). A load of the
document drops what is in flight, whose answer may or may not have set the cookie
(`Dropped`). Pages behind a guard of the same kind are one. The server's billing answers
are external: any status of the account at any time (`Answers`).

**`TimelineSeries`** is the series arithmetic: upsert with its index map, the builders of the
six series from baseline rows, today's candle, the gap panel's, the thinned-out OTC line, the
overlay. A value is the place in the feed of the sample it comes from, so that two values
are equal only if they are the same sample. **`Timelines`** extends it with the hooks: `cache` and
`fetch` are react-query's, `latest` the realtime store's newest payload of a channel, `charts`
the hooks' series and index. A commit runs a hook's reset effect, then its patch effect if its
dependencies changed (`Committed`, `Resets`, `Reapplies`).

**`Shell`**, **`JobLoader`**, **`QueryPages`** and their composition **`Console`**: the location
and the skeleton; the loader's panels, batches and table; the pages that draw what a form
asks for out of a shared query cache. Of the cache they keep what react-query does with an
error: it is hidden while a query without data is fetched and shown again if that request is
aborted (`ShownError`), and what nobody looks at is remembered for its data, or for the
error of a query that a *Retry* fetched although it was not enabled (`Remembered`). The audit
page's details stay open while a failed refetch takes its table away. `Console` conjoins a navigation with what it does to
the pages (`LoaderFollows`, `PagesFollow`), and sends a page away that was refused.

The `MC*` modules give the constants small values. **`TickPipelineProofs`** (with the
lemmas about `DbSink`), **`BillingProofs`**, **`EmailProofs`**, **`RealtimeProofs`**, **`SessionProofs`**,
**`TimelinesProofs`** and **`ConsoleProofs`** hold the proofs, and **`DataLemmas`** what several of them need to know of
numbers, finite sets, sums and sequences.

## 3. Runs

| run | shows |
| --- | --- |
| `tick_safety` | the seven invariants below and the refinement of `WriteBehind`, over five streams |
| `tick_liveness` | `Drains`: everything ends acknowledged and settled |
| `tick_hand_off` | *violated*: a closed bar is always handed off |
| `billing_safety` | the billing invariants and the action property |
| `billing_revocation` | *violated*: a revoked entitlement stays revoked |
| `billing_out_of_order` | *violated*: with all events answered, the row agrees with Stripe |
| `email_delivery` | the email invariants, `SentStands`, and `Settles`: every mail is sent or has failed in the end |
| `realtime_safety` | one stream, a truthful status, nothing lost, the refinement of `LatestBoard`, reconnection |
| `realtime_worker_validation` | *violated*: what the store shows has passed its schema |
| `session_safety` | the session's invariants, the end of the bootstrap and of redirections |
| `timeline_safety` | what the charts show while baselines and payloads race |
| `console_safety` | jobs, pages, query cache and skeleton under any navigation |

### What the properties say: backend

`BarsInOrder`: pending batch, queue and open bar hold strictly
increasing minutes, so a process never offers two bars of a minute. `BarsMatchTicks`: each
bar in the pending batch, in the queue and open is the summary of exactly the ticks of its
minute that were applied (a tick applied twice counts twice: redelivery is visible in the
history, not hidden). It says nothing of `k:zset` and the table; `ArchivedComplete` does
(section 4).
`DayFieldsMatchTicks`: day high, low and open are those of the session's ticks of
the machine's trade date. `ArchivedBeforePersisted`: what the sink holds, wrote or gave up
is in `k:zset`. `AckedIsPublished`: an entry that was applied is acknowledged only when
`k:current` is the open bar. `SinkConsistent`: one row a key, and what an orphaned thread holds
is pending, persisted or given up. `SinkKeepsPromise`: the sink implements `WriteBehind`.
`LedgerMatchesEffects`: an event is applied at most once, and the ledger's `processed` and
`ignored` are true. `EntitlementWasGranted`: an entitlement comes from an applied event about
that user's subscription. `OnlyCheckoutsReviveCanceled`: no webhook step leaves `canceled`.
`MailsExplained`: the provider accepts a mail again only if an acceptance went unrecorded or an event
took `sent` back; entries delivered again, rows recovered while their entry waits, and
publications that raised though they were made are no reasons. `AckedIsSettled`: the row of an
acknowledged entry is sent or failed, and stays so. `AttemptsInOrder`: the worker's log entries of a
row are numbered in order, and a failed attempt's number is not used again. `SentStands`: nothing
but an event takes `sent` back, unless an acceptance had gone unrecorded or an event had done so
before (a second mail is then on its way and may be rejected). `Settles`: no mail stays pending or processing.

### What the properties say: frontend

*Realtime.* `OneLiveStream`: at most one stream is not aborted; it is the one whose
controller is held, its token is the session's, and neither a timer nor a start that will go
on stands beside it. `QuietWhenStopped`: after disconnect no timer, batch, worker, message or
live stream is left. `StatusTellsTruth`: connected, connecting, retrying, error and idle each
mean what the connection is doing. `PendingIsArmed`: a batch that waits has its
flush armed, in both windows. `NothingLost`: the newest collected value of a slot is in the
store or on its way, through worker, message and manager. `SeriesOrdered`: the
distribution stays in order, and within the cap unless the server sent a longer one (a series
of the server is stored as it comes, only appending cuts it). `RefinesBoard`: the store catches up, never goes
back and forgets only with the session. `Reconnects`: a session gets its stream or a
final refusal.

*Session.* `OneAccount`: whoever writes the store last, token and role are of one account.
`ContentWasGranted`: gated content needs an administrator or an account that this
document was told is entitled. `SessionFollowsCookie`: while no call was started before
another had ended, the session shown is the cookie's; calls that cross (a logout overtaken by
a login) may break that, and the property says so. `Resolves`, `RedirectsSettle`: a document
does not wait for ever, and guards and pages never send the browser round in a circle.

*Timelines.* `SeriesWellFormed`: points in order, the index map that of the series.
`ShownIsReal`: every point is a sample of its own minute, highs and opens are real prices in
the right order, OTC changes count from the first minute, yesterday's volume is there where
the baseline has it. `BaselineCovered`: a fetched baseline is on the chart and no minute is
older than it unless the realtime store is. `LatestShown`: the newest payload taken
stays on the chart until a baseline replaces the series of a hook that does not patch
again (that hooks differ in this is the code's behaviour; the property names which).
`OverlayCarries`: the second line shows the last known quote, never a later one.
`LoadingEnds`: a baseline stops loading.

*Console.* `JobsAccounted`: every job of the server is listed, in a batch still running, or
lost with a failed batch or a page that was left; none is listed twice. `PageReachable`: the
pager is at most one page past its samples. `ShownIsAsked`: what is drawn was asked for
with the parameters the form has now. `SkeletonEnds`: the skeleton goes, unless another
navigation overtook the one it was for; that exception is real, as a late dashboard
or a step back leaves it up until the next click (`ShellNavigationContext.tsx:77`).

### The violated runs

The four violations are disagreements between code and documents, with their quotes under
`findings` in `PROJECT.json`:

- *Hand-off.* `apply_tick` moves the machine first. If `put_nowait` then raises `QueueFull`,
  the entry is redelivered, belongs now to the open minute, and is acknowledged; the bar it
  closed is in `k:zset` and never in the table. The same shape follows a Redis error, a lost
  claim or a zero-priced open.
- *Revocation.* A checkout that read an active row before a deletion was processed writes
  `active` and the entitlement back afterwards.
- *Out of order.* A deletion delivered before the completion finds no row, is answered 2xx
  and forgotten; the completion then activates a subscription Stripe no longer has.
- *Worker validation.* The design has the worker validate; its collector does not, and the
  manager merges what it posts, so a malformed payload reaches the store in that build only.

Two more disagreements are seen in the code without a run. A failed billing event has a ledger row, so
its replay is answered as a duplicate (`billing_service.py:162`), where the runbook
(`docs/plans/2026-02-25-stripe-webhook-ops-runbook.md:17`) has it replayed. The mail design
(`docs/plans/2026-03-23-otp-email-verification-and-notification-service-design-v2.md:196`) tries a mail
again up to a limit; the code sets the row to `failed` with the first failure and dispatches pending
rows only, and `max_retry` is compared nowhere.

Behaviour met on the way that no document speaks against, and that has no property: a
server that accepts and closes at once is asked again every second, since an
accepted stream resets the backoff (`realtime-manager.ts:1026`); *Retry* of the event page does
not fetch a registry that failed (`EventAnalyticsPage.tsx:180`); the success page leaves at the
first answer that is not yet paid (`CheckoutResultPage.tsx:104`); the OTC line stays empty after
a failed baseline until the next visit (`use-otc-index-series.ts:108`); within a window
an older payload of the same slot is never seen by a hook, so its minute may lack a point.

### Bounds

`MCTickPipeline` uses trade dates of two minutes so that three minutes cross one, streams of
four entries, at most two failures (Redis error, lost reply, signal, crash: the
interesting stories need one or two), reads and claims of two entries, queue and batch of
two, one retry. Five streams cover two ticks of a minute, a late tick, an
out-of-session tick, a missing and a zero price, and four bars in a row, which fill queue
and batch. `MaxApplied` stops the reclaim of entries once six ticks were applied, which
lets an entry be applied two or three times. The liveness instance has queue and batch
of one, three entries, and a database that may fail every time; `MaxApplied` of seven is not
reached with two failures, so the bound hides no reclaim there. Zero-priced ticks are not
among its streams: such an entry fails on every delivery until a tick of a later minute
replaces the bar, so `Drains` is not true of a stream that ends in one.

`MCBilling` has two users, two subscriptions and two checkout requests (two first checkouts of
one user, a checkout beside a webhook, two users at once), three events, one redelivery after
an answer and one failure. Users, subscriptions and checkouts are symmetric; the runs
check safety only, for which that is sound. Deadlock is off in these runs because Stripe
stops when its events are used up; in the tick runs it is on. It is off in the frontend's runs:
a browser nobody touches stops.

`MCEmail` has two rows, dispatches of one and reads of two, two exceptions or crashes and one event. Two
rows are what a batch of entries and a failure between them need; two faults lose an answer and
interrupt what follows. `MaxCopies` keeps a row from getting stale once two of its entries are
open, which bounds the stream; a row recovered while its entry waits still has two. Dispatches of two, and a
second event (a mail taken back, sent again and taken back again), make the instance too
large for liveness; the safety properties hold there too when the `.cfg` says so
(5.1 million states for the first, 8.6 for both with reads of one), and the theorems speak of all
sizes. The worker's thread keeps turning, so deadlock is on.

`MCRealtime` has two sessions, four start numbers (one in force, one live, two waiting) and
one posted message at a time; sessions and numbers are reused, so connects and
disconnects are unbounded. One feed is the distribution (series, a point of the same time,
a later one), which exercises order and cap; the other has an event without an
instrument and one that fills two slots. Instrument codes are ordered only by their bars, and
a day has ten ticks, so that both ends of the session and a time outside occur. Each pass is
made in the local, the worker and the mock build. One counted attempt is enough for
the backoff to differ from the first delay.

`MCSession` has a member whose billing changes and an administrator, two calls at once and two
documents: enough for a continuation to outlive its page, meet another's session, and for a
document to restore what the one before left.

`MCTimelines` looks at the hooks that share a series two at a time and at the others alone,
with three or four samples: minutes with two samples, a gap, a late one, a payload
without a field. Two visits and one prefetch reach every race between cache and mount.

`MCConsole` takes four tours through pages that share something, with up to three navigations
and three edits, two batches of one or two jobs, failures with and without
authorisation, and two pages of samples, so that a filter can take them away.

### Fairness

`Drains` uses weak fairness for steps a running thread takes by itself (the loop's next
step, the worker thread, the flush, exit, the supervisor's restart), and strong fairness
where a step is enabled again and again without being due: the coroutine's turn (asyncio
runs ready callbacks in order, and every round ends in an await), an entry's idle time
passing, and Redis neither refusing every `XAUTOCLAIM` nor withholding published entries for
ever. Nothing is assumed of the database: bounded retries and the dead letter do the work.

`Settles` uses weak fairness only: the worker's thread goes on (every call returns or raises, the
provider's within the client's ten seconds), a process that is down is started again
(`restart: unless-stopped`), and time passes for rows and entries. Exceptions and crashes stay free to happen, as
often as the bound allows; a database or provider that fails for ever settles nothing.

In the frontend nothing makes the user act or the feed go on. `Reconnects` assumes that timers
fire, that an awaited promise settles and a request ends (weak fairness), and that a
server asked again and again accepts in the end (strong fairness of `Opens`: a refusal
is no promise of the client's). `Resolves` and `RedirectsSettle` assume that the bootstrap's
requests are answered or fail (the client's `fetch` rejects) and that React renders.
`LoadingEnds` assumes that a request that is out is answered and a query whose requests are
answered resolves; failures stay free to happen, and the retry limit is what ends them.
`SkeletonEnds` assumes that a prefetch settles (its `finally` navigates whatever it
brought) and that the 260 ms timer fires.

## 4. Proofs

All theorems hold for every value of the constants under the assumptions the modules
state (`TradeDateAssumption`, `NoneAssumption`, `SinkAssumption`, `PipelineAssumption`,
`BillingAssumption`, `NoRowAssumption`, `EmailAssumption`, `FeedAssumption`, `ManagerAssumption`,
`SessionAssumption`, `TimelinesAssumption`, `LocationAssumption`, `ShellAssumption`, `LoaderAssumption`,
`QueryAssumption`): positive sizes, `None` distinct from data, bounds that are numbers. TLC evaluates them
on every run. Two say more than that. `FeedsAssumption` of `RealtimeManager`, on what the
server sends: an event's number is its place in the feed; bars are of the stream's code,
because the manager asks for the stream without one (`routes/serving.py`); and the
distribution's items are in order of time, since the ingestor stamps them with its clock and the
server reads a series before it sends the points after it. `TimelinesAssumption` says of a
feed that is looked at with the OTC chart that no value precedes the day's first in its minute:
changes are from the first point the page has, and if a later sample were of an earlier minute
they would be from a point that is no longer the first. Other feeds are arbitrary.

*Induction over data.* The library's induction theorems take an operator, which the provers
cannot instantiate; well-foundedness is a statement about sets and needs none. `DataLemmas`
proves from it, for sets, that a set with zero and successors has every number (`Induction`),
that a family which has a finite set with all its proper subsets has them all
(`SubsetInduction`), and with these that the sum over a finite set exists, does not depend on
the order and grows by the value of a new member (`SumAdd`), and that a finite set of numbers can
be listed in descending order (`Descending`).

*Tick pipeline.* `TypeCorrect` is inductive by itself. The other invariants are not:
`BarsInOrder` needs the fact that nothing is queued or pending before a first bar is open
(`NothingBeforeFirstBar`), since an empty machine accepts a tick of any minute; the promise
needs `SinkConsistent`, since the flush may release a batch only if the orphaned thread's
items are accounted for, and `ArchivedBeforePersisted` needs type correctness. Their
conjunction is `IInv`, and `StepKeepsPromise` proves that every step preserves it *and* maps to
a `WriteBehind` step. The proof first shows that a step does one of five things to machine,
archive and sink (`NextKinds`) and then treats the five; the lemmas on batches and rows
(`NewRowsUnique`, `NewRowsCover`, `SinkMoveSettles`, ...) do not mention the
loop and are meant for the other pipelines with such a sink. `AckCorrect` needs
`LastAppliedOpen`: the open bar is of the minute of the tick applied last, so a dropped
tick cannot be that tick. `BarsCorrect` carries `BarsSummarise`: every bar the process still
answers for is the summary of the positions of its minute in the history, with the first and
the last position, the places of the extrema and the sum of the volumes named. It needs
`HistoryInOrder`, that no tick of the history is later than the open bar, so that a
bar once closed gets no tick more; a tick adds one position to one set (`SumAdd`).
`ArchivedComplete` takes this to the archive: the only step that adds to `k:zset`
(`ArchiveKinds`) adds the bar that was open, a tick of a later minute in hand, so the step
leaves the positions of the bar's minute as they are. No bar gets there unless it is the
summary of the applied ticks of its minute and the minute is over for that process; with `ArchiveCorrect`, every row, dead letter
and log line is such a bar. A process that starts anew has a new history, so after a crash
its bar of the minute summarises the ticks that *it* applied. The formula holds on the
instance of `tick_safety` too, which does not list it.
`DayFieldsCorrect` does the same for the session's ticks of the machine's trade date
(`DayFieldsShow`).

*Billing.* `IdempotenceCorrect` strengthens the ledger invariant with what is known of
the event in hand (`HandledEvent`); `CancellationCorrect` with the fact that a row the webhook
loaded or decided on is not canceled behind its back (`CancelInv`); `EntitlementCorrect` with
the owner of the subscription a row names (`OwnerInv`) and with grants that wait in writers
and survive lost updates of single columns (`GrantInv`).

*Email.* `MailsCorrect` needs to know who may still write over `sent`. `MailsOf` counts: a row that is
not sent, and whose acceptance is not the answer in hand (`NotRecorded`), has a reason for every
acceptance. So has a row that the dispatcher will write (`Writes`) or the worker is sending (`Sending`), whatever
its status says by then: it was read when it was not sent, and an event that made it sent
since is of a mail with a reason. `DispatchOver` says that the dispatcher holds no rows while the worker
delivers, so what it writes over has not been sent in between. `SentCorrect` is read off the same
invariant: a row that is sent was accepted, and whoever takes `sent` back is an event, `Writes` or `Sending`.
`AckedCorrect` carries `AckInv`: the row whose entry is about to be acknowledged is settled, and the
commit the dispatcher has in hand (`Commits`) is of a row of which no entry was acknowledged
(`NoneAcked`): it was read pending or processing, so by the invariant itself none had been, and the thread
acknowledges nothing before that commit. `AttemptsCorrect` carries `AttemptsOf`: every number in a row's
log is at most that of its next attempt, and less if the attempt failed (`Below`), because a failure
is counted before it is logged; an attempt in hand is the next one, or a failure counted already.

*Realtime.* `ConnectionCorrect` (`OneLiveStream`) rests on three facts that `ConnInv` adds.
`NumbersApart`: a stream's or a waiting start's number is its own, since a new start takes one
that nothing uses. `AbortHeldFacts`: by the invariant itself the only live stream is the one
whose controller is held, so aborting what is held leaves none live; a start then launches
the only one. `ResumesAlone`: a waiting start that is still in force has no timer beside
it, so when it resumes nothing can be live or about to be. Without the last, the invariant is
not inductive: a resumed start might find an armed timer.
On it stands `StatInv`, which proves `TypeCorrect`, `QuietCorrect`, `StatusCorrect` and
`ArmedCorrect` in one induction. It adds `TimerTold`: a timer is armed by a failure and
the status says retrying until it fires, so a start put off by an old stream does not
leave the page connecting; and `MockAlone`: the mock build has nothing but its generator.
`LiveMeans` joins the two invariants: a live stream means a session, no timer and no start
that will go on, which is what a stream's failure and its chunks need.

`DeliveryInv` proves `NothingLostCorrect`, `SeriesCorrect` and `BoardRefined`. The way of an event
has stages: the store, the pending batch, the posted batches, the worker's batch, the
messages to the worker, the rest of the feed. `StagesInOrder` and `ArrivalsInOrder` say that
nothing in a later stage is older than anything in an earlier one, because batches move on as a
whole; so a merge in which the later batch wins never takes a newer value back.
`NothingLost` alone is not enough for that, since it speaks only of what wins.
Merging commutes with showing (`SlotsOver`) because a batch holds one bar, of the stream's code;
with bars of two codes it would not, and the second bar would take the first one's place.
`SeriesInv` compares the last item of the series with every point that may still come
(`Coming`): so it stays in order when a series replaces it and its own point arrives
afterwards. In `BoardRefined`, a chunk, a parsed message and a mock tick map to `Learn`, a flush
to `Show`, a session's start to `GiveUp`, its end to `Clear`, all else to stuttering.

*Session.* One induction proves all the invariants (`IInv`), the types with them. `BootFirst`: until the bootstrap
is done nothing is in flight and the store is a visitor's, so the token it sets is the
cookie's. `CallsInv`: every call carries token and role of one account and an entitlement that was
granted, and a checkout whose page is mounted finds a session to capture. This is why a
late continuation cannot mix accounts: it puts back a whole captured session.
`GrantInv`: an entitlement in the store or in the page's query was told to this document.
`FollowInv`: while calls do not cross at most one is in flight, and it has the store's token or
there is none. From it follow `AccountCorrect`, `GrantCorrect` and `CookieCorrect`. Calls are
treated by what a step does to them: fewer of them or cut off from their page
(`FewerKeeps`), one more (`StartKeeps`), one changed (`ChangeKeeps`).

*Timelines.* The proof goes from the operators to the steps. `FindsFirst`: bisection on a series
in order ends at the first position that is not before the minute, by induction on the width of
the range. `UpsertLaw` follows: an upsert with the index of the series gives a series in order
with *its* index, changes no other minute's last point and leaves the point in its place.
`SortedInOrder` (ranks in a strict order are a bijection) gives the sorts, and with `Picked` every
baseline is `MadeOf` rows of the answer. `Fits` says of a series what `ShownIsReal` needs and
more: a chart is in order, of real samples, and for candles, the gap panel and the OTC chart
what their `extra` may be. A baseline fits (`BaselineFits`), and a patch of what fits fits
(`PatchLaw`); `Covers` compares a series with a baseline. The inductive invariant `IInv` says
that every chart fits the samples and the cache and has the index of its series
(`ChartsFit`), covers its baseline while mounted (`ChartsCover`), is empty otherwise
(`ChartsLeft`), and that the OTC request is the page's own and only out while there is no OTC
baseline (`OtcOnce`): without that, a failure, which empties the series, would uncover a baseline.
An answer is the hard step: a hook whose reset effect does not run must fit the *new* cache.
`CandlesKept` shows why the candle does: it is not reset when today's bars become none (the
last sample was late, so no minute is closed), and then the new baseline asks nothing of it.
`LatestCorrect` follows the same steps: what the patch effect ran on shows the payload, and what
`CommittedPromised` leaves over is another baseline. `OverlayLaw` unrolls the carried value
minute by minute; `DrawnLaw` is division.

*Console.* `LoaderInv` splits `JobsAccounted` into parts that a step can disturb one at a time: no
job is in two places (`OnePlace`), every job is in one (`EveryJob`), and a panel that loads has
one running batch (`OneOwner`). That the table can be sorted is a lemma (`TableOrder`). `QueryInv`
says that the cache holds under a key only what was asked with it, and that an entry is looked at
or remembered, and that requests are out only for what is looked at (`CacheFaithful`); every redraw and every answer preserves it
(`RedrawnFaithful`), and `ShownCorrect` follows. The pager's bound survives an edit of the filters
because the page starts again at one when they change.

Only model-checked: liveness under fairness (`Drains`, `Settles`, `Reconnects`, `Resolves`,
`RedirectsSettle`, `LoadingEnds`, `SkeletonEnds`), which the prover cannot do. Every invariant
and every action property of a passing run is proved, and both refinements. The other way
round, the types of every component but the tick pipeline (where they bound queue, batch and retries) are
proved and not run: the proof says more, and what runs cost goes to the properties that relate
two pieces of state. A violated run has
nothing to prove.

## 5. What is abstracted

*Backend.* One contract and one stream a pipeline (contracts share only the round and the sink; a
failing entry also ends the round for the streams after its own). Metrics, logs, TTLs and key
names. Redis is atomic a command and does not lose acknowledged writes. `kcurrent` is the hash
of the trade date written last; `k:zset` is the union over trade dates. The day fields' floats
are naturals. In `EmailPipeline`, templates, recipients and payloads, the log entries the webhook appends (they
repeat the number of the row's next attempt), its signature check, the duplicate idempotency
key that a request is refused for, and an entry without a row, since no code deletes rows. In `Billing`, Stripe customers, period ends, the audit log and the
signature check; `update` events carry the mapped status, the unmapped ones being ignored.

*Frontend.* Payload values are places in the feed; schemas are whether they hold; times are
ticks. `RealtimeManager` leaves out the branches for a test environment and for a response
without a body, and the `insecure_transport` branch, for `stream` calls `fetch` directly and
nothing on its way throws that error (the API client does, `client.ts:41`). `Session` leaves out the resend of a one-time password and its
cooldown, other tabs, a cookie that expires, StrictMode's second run of effects, the cached
billing status between two visits of the subscription page, and a verification page opened
without a registration. `Timelines` looks at one trading day with every time in its session:
left out are the session-bounds filter, payloads that carry yesterday's volume, the change of day,
the collection of cached baselines, the distribution's baseline (it goes through the realtime
store) and formatting. `Console` leaves out preferences (language, color mode, sidebar),
prefetch on hover, refetch on reconnect, the collection of cache entries and the rows of
histograms.

## 6. Plan

1. *Done:* the tick pipeline, billing, email, the realtime client, session, timelines and console,
   with the proofs of section 4: every safety property that a run checks.
2. `BidAskPipeline` on the sink's shape with upserts: samples are contiguous seconds, each the
   last quote of its second or the one carried forward. Hazards: seconds consumed before they
   are written (`runner.py:774`), a late quote stored under an emitted second and never
   removed (`:278`).
3. `BatchJobs` with the backfill checkpoint: one active job a key, no job lost between
   dequeue and record (`redis_queue.py:28`), a retry that starts again at the first chunk
   (`historical_backfill/job.py:51`).
4. `LatestState` with the spot sequence of `MarketIngestion`: a restarted ingestor's updates
   are dropped until it has caught up (`latest_state/runner.py:330`); acknowledgements held
   back by one dirty symbol (`:255`); the bounded queue and the reconnect limit of ingestion.
5. `IndexContribution`: sector sums against their definition, ids marked before publication
   (`engine.py:107`), daily reset.
6. `QuoteProcessing` and `MarketSummary`: an event of the previous date resets the counters
   (`quote_processing/runner.py:125`), a redelivery counts twice (`:345`), a forced flush
   of the running minute (`market_summary/runner.py:549`).
7. `WorkerRuntime` (stop and run_forever under the lifecycle lock), `Auth` (two refreshes pass
   the denylist check together, `auth_service.py:85`), `RateLimiter`.

Runs are few on purpose: one safety run for each component, liveness where the code promises
progress, and a violation run only for a disagreement with a document.

## 7. Not modelled

Serving routes and the serving store read Redis and SQL and format the answer. The market
crawler and kbar analytics fetch, parse and compute numbers. Models and migrations are
declarations; their unique keys are in the modules that rely on them. The frontend's
presentation draws what the modelled stores and hooks hold: charts, wording, generated
interface components, preferences, demo pages with constant data; the settings pages and
`nav-user.tsx` are reached by no route. The backend's parts of section 6 from item 2 on are left
to that plan: they run the same kind of loops as the tick pipeline, each with hazards of its
own, and a module of one belongs here only whole.
