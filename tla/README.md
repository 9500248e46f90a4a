# Verification of ApiMonitor

TLA+ models of ApiMonitor (an HTTP uptime monitor: Node, Postgres, Redis/BullMQ), checked with TLC
and, where stated, proved with TLAPS. Paths below are relative to the repository root `src/`.

## The system

Two kinds of processes, any number of each, share one Postgres and one Redis.

| Component | State | Operations | What is hard about it |
|---|---|---|---|
| Check recording (`src/services/checks.ts`, `src/checks/*`) | `monitors.current_status`, `checks`, `incidents` | probe, then one transaction under the row lock | overlapping checks of one monitor, edits and deletes meanwhile, failures at every await |
| Check worker (`src/queue/checkWorker.ts`) | the active jobs | run a check, publish, queue the alert, remove an orphaned schedule | dies between COMMIT and what follows |
| Schedules (`src/queue/scheduler.ts`, `reconcile.ts`, `src/index.ts`) | BullMQ job schedulers in Redis, derived from `monitors` | upsert, remove, reconcile pass at API start | two stores and no transaction over both |
| Monitors API (`src/routes/monitors.ts`, `src/services/monitors.ts`) | `monitors` | POST, PATCH, DELETE, reads | a rule over two columns, the row lock, ownership, the Redis half of each request |
| Alert delivery (`src/queue/alert*.ts`, `src/services/alerts.ts`, `src/alerts/*`) | alert jobs in Redis, `webhook_deliveries` | queue, deliver, retry, record, sweep | at-least-once queue, lost answers, two executions of one job, eviction |
| Partition maintenance (`src/maintenance/partitions.ts`, `src/queue/maintenance.ts`) | partitions of `checks`, the default partition, an advisory lock | create ahead, drop aged out | overlapping runs, midnight, gaps |
| Rate limiter (`src/middleware/rateLimit.ts`, `limits.ts`) | counters with expiry in Redis | hit | window boundary, counters without expiry, hits counted twice, Redis down or restarted |
| Migrations (`src/db/migrate.ts`, `src/db/migrations`) | `schema_migrations`, the schema, an advisory lock | apply what is missing | concurrent migrators, failure between files, edited files, code that runs on an older schema |
| Realtime (`src/realtime/*`) | rooms of the sockets, the bridge's subscription | publish, forward, subscribe | fire-and-forget events, lost and out of order |
| Dashboard (`public/app.js`) | the key, the list, the selection, its chart, a socket | sign in and out, select, re-read, apply events | requests that are never cancelled and answer into a page that has moved on |
| Accounts and keys (`src/auth`, `src/services/accounts.ts`, `src/scripts`) | `accounts`, `api_keys` | create, look up, revoke | ownership across migrations 003 and 004 |
| Plumbing (connections, errors, logging) | - | - | - |

They interact so: the API writes `monitors` and the schedulers; a scheduler produces check jobs; a check job
writes the status, opens or resolves an incident, publishes both and queues an alert; the alert worker reads the
incident and writes `webhook_deliveries`; the sweep reads both and queues what is missing; maintenance adds and
removes the tables check jobs write to; the bridge forwards what is published to the pages that asked for it, and a
page reads the rest over REST, through the limiters. Deleting a monitor cascades into incidents and deliveries
under all of them.

What makes each correct:

- *recording*: status and incidents agree, one incident per outage, each transition announced by one run;
- *schedules*: active monitors are scheduled at their interval, deleted ones are not;
- *monitors API*: a request takes effect at one moment or not at all, and no row breaks the timeout rule;
- *alerts*: none forgotten, none marked done undelivered, repeats only for a reason;
- *maintenance*: today has a partition, retained data is kept;
- *rate limits*: a caller is refused only for its own hits, never gets more than the windows allow, and is not blocked
  for longer than it was told;
- *migrations*: the record is true after any failure, the running code fits the schema (but for one operation of the
  old code), nobody loses a monitor;
- *live status*: a page that stays behind does so for a reason that is not a disconnect;
- *dashboard*: the chart is the selected monitor's, and what a session has drawn is its own account's.

`PROJECT.json` lists the hazards at their lines, with the properties that cover each and a note where none does.

## Modules

| Module | Models |
|---|---|
| `Incidents` | a check from `runCheck` to `enqueueAlert`, against other checks, the API and failures |
| `OutageLog` | abstract: what `Incidents` promises about outages |
| `Schedules` | API handlers, reconcile passes and jobs over Postgres rows and Redis schedulers |
| `Partitions` | daily partitions, inserts, maintenance runs |
| `Alerts` | alert jobs, the handler's steps, the delivery table, the sweep, and BullMQ around them |
| `AlertLog` | abstract: what `Alerts` promises about deliveries |
| `MonitorConfig` | the requests of the monitors API over the configuration columns and the owner |
| `ConfigStore` | abstract: the same requests, each in one step |
| `RateLimit` | a request's way through the three limiters, the script, the counters' expiry, Redis |
| `Migrations` | the runner, and ownership across 001, 003 and 004 while two versions of the code run |
| `LiveStatus` | a result from `recordCheck` through publish, bridge, room and page, with reconnects and re-reads |
| `Dashboard` | the page's session, list, selection, chart and sockets, with requests in flight |
| `*Proofs` | theorems about the module of that name; `PageProofs` is about `Dashboard` and `LiveStatus` |
| `MC*` | what TLC's instances need; one `.cfg` per run |

An operator named `X_Something` just before `X` is a mutation of `X`: a plausible bug that one of the properties
must catch.

### Incidents

A run is one execution of the check job's handler; `pc` follows it: loaded (`probing`), answered (`probed`), inside
the transaction (`locked`), after COMMIT (`committed`). The transaction is two steps. `LockMonitor` is `SELECT ...
FOR UPDATE`, which also reads the previous status; `CommitCheck` is all it writes, visible at COMMIT. Nothing else
needs to be split: whatever conflicts with the writes in between waits for the lock. `updateMonitor` (only
`is_active` matters here) and `deleteMonitor`, with its cascade, wait for the lock too. `FailCheck` is an error or
the death of the process at any point: an open transaction rolls back and its lock goes; after COMMIT the alert in
hand is lost, which the ghost `lost` remembers. The unique index on open incidents is a guard of `OpenIncident`; that
it never matters is the property `TransitionFindsItsIncident`.

### Schedules

Each handler is two steps: the write in Postgres, then the write in Redis (`WriteSchedule`) of what the first step
saw. A DELETE that deletes nothing reads again (`Lookup`). A pass (`reconcileSchedules`) reads Redis, reads Postgres,
then writes one difference at a time, active monitors first. A job loads its row when it runs, and removes its
scheduler when there is none. Intervals are seconds in rows and milliseconds in schedulers (`EveryOf`). Handlers,
passes and jobs may be cut short anywhere, `MaxFailures` times in all. Three history variables state the
properties; no action reads them. `raced` holds the monitors whose write overlapped another write or a pass, or was
cut short; a pass with nothing written under it clears it.

### Partitions

Days are counted from today, so that time is unbounded and the state finite: `NewDay` shifts everything, and
`Oldest` stands for all days beyond retention. A run takes the advisory lock, lists the partitions and fixes its
`today` in one step (nobody else changes partitions under the lock, and what midnight does in between is what it does
just after), then creates, then drops, one statement per step. `CREATE` fails when the default partition has rows of
its day, as in Postgres, and the failure ends the run as the exception does. A row's day is that of its transaction's
start: today or, across midnight, yesterday. `age` is history: days since the day taken as today by the last complete run.

### Alerts

One monitor with any number of alerts (an alert is an incident and an event, which is also the job id). `age` is what
the sweep's query tells apart: under 2 minutes, up to 24 hours, older. The handler's awaits are its steps:
context, delivery record, send, record, return; each may fail (`ReadFails`, `SendRefused`, `RecordFails`), which is a
retry. An execution whose lock was lost goes on working (`owner` is no longer
it), and its ending changes nothing in the queue. BullMQ itself is external: locks, stalls (`maxStalledCount` is not
set, so 1), backoff and eviction, with the options `enqueueAlert` gives. `excuses` counts the events after which one
more send is legitimate. `AlertLog` has none of this: alerts are committed, taken up while the webhook is set, received
(any number of times) and recorded; an alert is in hand from the load of its context until the record is written or the
execution ends, so one that loaded before the monitor was deleted may still send, and no later one does.

### MonitorConfig

A request arrives, is handled and answered. POST, GET and DELETE are one statement each and so one step; a PATCH is
`SelectForUpdate` (BEGIN, the read under the row lock) and `updateMonitor` (the rule on the merged values, UPDATE,
COMMIT or ROLLBACK). Nothing in between can be seen by others, and whoever conflicts waits for the lock, DELETE
included. `FailRequest` is an error before COMMIT, after which nothing has changed. `ScheduleFails` is one after it
(`scheduleMonitor` or `unscheduleMonitor` throws, or COMMIT's answer is lost): the caller gets a 500 too, and the
change stays. So a 500 tells a caller nothing, and `ConfigStore` promises no more: a request takes effect at one moment,
on the row as it is then, or not at all; any answer but a 500 is true of that moment, and a request may answer 500
either way (`Fail`). What the failed scheduling does to Redis is in `Schedules`. Only `interval_seconds`, `timeout_ms` and the owner are kept: no other column takes
part in a condition. Ids are never reused (`used`), as UUIDs are not.

### RateLimit

A request is at a limiter (`ip`, `key`, `create`), at authentication, or done. A limiter lets it through uncounted when
there is nobody to limit by (`SkipLimit`; `req.ip` is undefined once the socket is gone). `Hit` is one execution of the script
and what the middleware makes of its answer. `HitUnanswered` is a hit that Redis counted and whose answer was lost:
ioredis sends it again when the connection is back (so one request counts twice), or `FailOpen` lets the
request through. Redis may come back empty. Time is in ticks, several to the second, because `Retry-After` is rounded
up to seconds. Counters stop one above their limit, which no condition can tell from more. The history is kept for one
limiter and caller only (`watched`, any of them), to keep the state small: `passed` is the set of its hits that were
counted by the script and let through in the last window (those that failed open or were skipped are not among them, and
a restart that empties Redis empties it), each a pair of its age and its place among those of its tick.

### Migrations

The operator follows the comments of the migrations: expand with `--to 003` while the old code runs, deploy the new
code, stop the old, then 004. The target is compared as the code does, as a string with a prefix of the file's name:
`--to 003` stops before 004, a bare `--to 3` stops nowhere and applies 004. That the operator writes targets as the files
are named while the old code runs is an assumption (`Start`). Within that, any number of migrators start at any time with any target allowed so far
and with files of which one may have been edited; each stops, fails or dies anywhere. A file and its record are one
Postgres transaction, so one step (`ApplyFile`): that no crash comes between them rests on Postgres, and what would
happen otherwise is the mutation `Record_OutsideTransaction`. The account 003 makes for a key has the key's name here. From 003 on,
`api_keys.account_id` is NOT NULL, so the old code's `createApiKey` fails (its INSERT names no account), while it
still creates monitors by key: that is the reason for the catching up in 004. `failed` is history, the operations of the
old code that the schema did not allow.

### LiveStatus

A status is a version, the n-th result recorded for its monitor, so that older and newer can be told apart.
Publishing, forwarding and emitting are one step, `publishEvent`, between the commit and the arrival at the page:
the two hops in between keep their order, and what they lose is one of its outcomes. The socket delivers in order;
a disconnect loses what is under way in both directions and the rooms. A `loadMonitors` reads the rows in one step and
shows them in another, and any number of calls overlap, as nothing in the page orders them. `excused` and `missed`
are history: the first remembers which monitors have a reason to be shown wrong (an event lost or overtaken while
connected, a list that arrived late), the second the newest status published while the page was not connected. A
failed re-read (also a 429) leaves the page labelled "live" but in no rooms (`failed`). The specification is `LSSpec`,
from `LSInit` and `LSNext`, so that one module can extend it and `Dashboard`.

### Dashboard

Every `await` of the page splits a handler; `call` holds what is in flight, with the key it was sent with. Nothing is
cancelled: an answer is applied to the page as it is by then, a 401 signs out whoever is signed in, and a `start()`
that ends after its session opens a socket only if somebody is signed in. `signOut` empties `state.monitors` and
the selection, but neither the list on the page (`listed`), which can still be clicked, nor `state.checks` (`chart`). Two
history variables state what a session shows: `drawn`, which of list and chart it has drawn itself, and `overlap`,
whether a session ended while other requests were in flight. `SessionsAreSeparate` excepts both: before a session has
drawn its own list the page has that of the session before, and its checks until it has drawn a chart; and after an
`overlap` late answers can put anything of the session before into this one, e.g. two overlapping `start()` open two
sockets.

## Runs

| Run | Question and result |
|---|---|
| `incidents` | Do status and incidents agree, does each transition find what it expects, is it announced by one run, is the whole an outage log, and does every check end? Yes. 2 monitors, 2 runs, 3 incidents: a monitor goes down, recovers and goes down again while the other has its own outage. |
| `schedules` | What survives races between requests, passes and jobs? A posted, never edited monitor keeps its scheduler; Redis differs from Postgres only for raced monitors, and an undisturbed pass repairs them; a deleted monitor stops firing for good. 1 monitor, 2 handlers, 2 passes, 1 job, 2 intervals, 1 failure. |
| `schedules_any_time` | Is a pass "safe to run at any time"? **No**, see below. |
| `partitions` | Are runs exclusive, is retained data kept, how long a gap is harmless? Yes; yes; `daysAhead` days. 2 runs, 2 days ahead, 2 retained, 2 deaths: shorter and longer gaps than the buffer, every age of a partition, a midnight inside a run. |
| `partitions_gap` | Does the table recover from a longer gap? **No**, see below. |
| `alerts` | Is an alert ever marked done undelivered, repeated without a reason, recorded without having arrived, or forgotten? No. One alert, 2 overlapping executions, 2 sweeps, 2 attempts, 1 stall, 3 faults. |
| `config` | Do racing requests keep the rule and behave as if one at a time? Yes, and a 500 may mean either. 2 requests of 2 accounts on 2 ids; the default timeout is just too long for the shorter interval. |
| `rate_limit` | What does a fixed window allow, who is refused, and for how long? At most twice the limit in any window's length; only who used the limit up; never longer than told, and never for good. Windows of two seconds of two ticks, limits 2, 2 and 1, one address and one account: hits of the account's other limiter are in the run, other callers only in the theorem. |
| `migrations` | Do migrators take turns, is the record true, is an edited file refused, does the code fit the schema, does every monitor keep its owner, does every migrator end? Yes, but for the old code's key creation, see below. 2 migrators, targets 003, a bare 3 or none, 2 keys of one or two accounts, 1 monitor created by either code. |
| `live_status` | Does a page hear of what it shows, and why may a status stay behind? Yes; never because of a disconnect alone. 3 results, 3 runs, 3 overlapping reads. |
| `live_status_missed` | Is what was missed while disconnected recovered by the re-read? **Not always**, see below. |
| `dashboard` | Is the chart the selected monitor's, and are sessions separate? Yes; the second once a session has drawn its own, and unless one ended with requests in flight. 2 accounts with 2 and 1 monitors, 3 requests, 2 sockets. |

The bounds are small because the interactions are: a race needs two parties, and a third (a sweep, a pass, a job, a
read) is there where the code has one. Alerts and monitors do not interact except through locks and queues whose
fairness is assumed. Attempts, stalls, days, limits and windows are cut down to the least values with a first, a
middle and a last one. Named bounds: `IncidentBound` (ids left cover every run under way), `MaxFailures`, `MaxFaults`,
`MaxDeaths`, `MaxVersion` (results of a monitor); a maintenance run crosses at most one midnight. The theorems below do
without the bounds on the instance.

Deadlock is checked everywhere but in `Incidents` and `Alerts`, where the system may stop: all monitors deleted, all ids
used. Runs with liveness use no symmetry.

### Fairness

Only what has begun is assumed to go on; no request, failure or deletion is ever owed.
*Incidents*: a probe ends (`AbortSignal.timeout`), transactions and Redis make progress, and the row lock is strongly
fair, since Postgres queues waiters. *Schedules*: handlers, passes and jobs go on; a scheduler that exists keeps firing and
its job gets a slot (the queue is first come, first served). *Partitions*: days go by, runs go on, the nightly job,
which waits in Redis, is taken. *Alerts*: handlers, sweeps and BullMQ's timers go on and a waiting job gets its turn;
the receiver owes nothing, and no alert has to become old (that would make the property hold for no good reason).
*Migrations*: statements end, and the advisory lock is granted in the order it was asked for (strong fairness).
*RateLimit*: time passes, nothing else. *MonitorConfig*, *LiveStatus* and *Dashboard* assume none: their
properties are about safety, and a page or a caller may go away at any time.

### Disagreements between the code and its comments

1. `schedules_any_time`. `src/queue/reconcile.ts:12-13` calls a pass "safe to run at any time and from several
   processes". With nothing failing and one request at a time: a pass reads Redis with the monitor scheduled and
   Postgres with it paused; a PATCH resumes it and schedules it; the pass then removes that scheduler. The monitor is
   active and never checked until its next PATCH or the next API start. The read order only protects a POST
   (`PostedStaysScheduled`, which holds).
2. `partitions_gap`. `src/db/migrations/002_partition_checks.sql:27-28` expects the default partition to stay empty
   because maintenance keeps ahead of now. After `daysAhead` days without a complete run, the first check of a day
   (workers start checking before maintenance, `src/worker.ts:8` and `:34`, and the nightly run is at 03:00) lands
   in the default partition; then `CREATE TABLE` for that day fails, the exception ends the run before tomorrow is
   reached, and so on every day. No worker has to die for it: `MaxDeaths` is 0 in this run.
3. `live_status_missed`. `public/app.js:138-139` says that anything missed while disconnected is recovered by
   re-reading over REST. Nothing orders the reads of two connects. A connect sends its read and the page disconnects;
   the server makes the read then (or just before the disconnect, it makes no difference); a result is recorded and
   published meanwhile; the next connect reads and shows it; then the first answer arrives and puts the old status back
   (`public/app.js:47`). The page stays behind until the monitor's next result.
4. `src/db/migrations/003_accounts.sql:4-5` says that it "only ADDS things and copies data, so the code that is still
   running [...] keeps working". Line 32 of the same file, `SET NOT NULL`, makes the old code's `createApiKey` fail with
   23502, as `test/integration/migrations.test.ts:176` asserts of an INSERT without an account. `Migrations` has it (`OldCreateApiKey`,
   `failed`), and `RunningCodeWorks` excepts exactly this operation, from exactly this migration on; there is no
   run of its own for it.

## Proofs

Eight modules prove, for all values of the constants, every safety property that the passing runs check on small
instances. `PROJECT.json` lists the theorems. The assumptions are the named ones of each module: limits
are naturals, a null value (`None`, `Nil`) is none of the values it stands beside (also none of the records a variable
may hold), `Executors` is finite, a process is not both a handler and a slot.

*`IncidentsProofs`*: types, `DownMeansOpenIncident`, `TransitionFindsItsIncident`. `DownMeansOpenIncident` is not
inductive: a run commits on the strength of the status it read when it took the lock. `IInv` adds what makes that
sound: locks and program counters name each other (`LocksMatchRuns`), what a run read under the lock is still true
(`LockedViewIsCurrent`), a monitor not created yet has no past (`AbsentIsBlank`), and at most one incident of a monitor
is open (`AtMostOneOpen`). `TransitionMovesOneIncident` is the heart of it, the three outcomes of a commit.

In the same module: `AnnouncedByOneRun`, and that `Incidents` implements `OutageLog`: initial states map to initial
states, every step to a step or a stutter. Alerts are about what has happened (`AlertsHaveHappened`), so the alert of a
new transition cannot be around yet.

*`SchedulesProofs`*: types, `PostedStaysScheduled`, `InSyncUnlessRaced`. The first property needs
`PassesSeePosted`: whatever a pass found in Redis of an unedited monitor, it finds in Postgres too, because it reads
Postgres second. The second needs that passes under way agree on what disturbed them (`PassesAgree`) and that what one
has seen of an undisturbed monitor is what there is (`UndisturbedIsSeen`), so that an undisturbed pass ends with the two stores equal.

*`AlertsProofs`*: types, `CompletedMeansDelivered`, `RepeatsExplained`, and the implementation of `AlertLog`. An execution reaches the handler's end only with
its delivery recorded (`FinishedIsDelivered`). For the repeats, the executions that lost their job (`Strays`) are
counted: sends so far, plus strays, plus one if a send is open to the job's owner or a later one (`MaySend`), never
exceed one more than the excuses (`SendsAreCovered`). Each step keeps the sum or brings its excuse. In the same module: `Alerts` implements
`AlertLog`. Whatever is owed, queued, listed by a sweep or worked on was committed (`NothingUncommitted`) and an execution gets
to its record only by a send that was accepted (`SentBeforeRecord`). With several executions of one alert, one ends
without putting it down if another still has it (`HandsMove`).

*`PartitionsProofs`*: types, `SnapshotIsCurrent`, `RetainedIsKept`, `AheadCoversGaps`. From the day a run looks at next on, what it
found is what there is (`FoundIsCurrent`), the days behind it have partitions (`BehindIsThere`), so that a complete run
covers the days ahead and each midnight uncovers one (`CoveredAhead`).

*`MonitorConfigProofs`*: types, `RuleHolds`, and that `MonitorConfig` implements `ConfigStore`. A PATCH that has read a row
holds its lock (`ReadersHoldLock`) and the row is still the one it read (`LockedRowIsCurrent`), so its write can be
taken for one step judged by the current row. An error after that write is a `Fail` of the abstract request, which has
taken effect already.

*`MigrationsProofs`*: types and all five safety properties. What a migrator went past is on record as it has it
(`GoneThrough`), nobody is told to pass 003 while the old code runs (`StopsAtExpand`), before 003 no
monitor has an account (`BeforeExpand`). `StopsAtExpand` rests on `TextsCompare`: a target written like a file's name is
exceeded exactly by the files after it.

*`RateLimitProofs`*: types, `AtMostTwice`, `OverOnlyWhenUsedUp`, `RetryAfterIsTrue`. A stretch of a window's length
straddles two windows of the counter, and which hits belong to which is not in the bound itself. `IInv` splits the
remembered hits at the counter's start, `WindowTicks - ttl` ticks ago: those since (`InWindow`) are at most the limit,
and as many as the counter says unless the connection resent or Redis lost something (`WindowIsCounted`); those older
(`Before`) all belong to one earlier window and are at most the limit too (`BeforeIsOneWindow`). `Authenticated`, a
request past authentication has an account, is what makes a counter one caller's. The hits of a tick are numbered without a gap
(`HitsAreNumbered`), so a new hit adds one to the set. `RetryAfterIsTrue` is inductive once hits are known never to move an expiry.

*`PageProofs`*, on `Dashboard`: types, `ChartIsOfSelected`, `SessionsAreSeparate`. Unless `overlap`, the requests in flight are the
session's (`CallsOfSession`), what it has drawn is its own (`OwnList`), and a `start()` that is waiting is alone (`StartIsAlone`).

*`PageProofs`*, on `LiveStatus`: types, `JoinedWhatItShows`, `StaleIsExplained`. The last is about settled monitors only and says
nothing of the way there. `CatchesUp` does: a connected page that is behind on a monitor, with no excuse and no failed re-read,
has the newest status still to come, as a run's event, in the socket's queue or in a list that is being read.
Each action consumes one of these by showing it, or leaves an excuse. It needs that nothing under way is newer than the row
(`RememberedIsPast`) and that what is in the page was created (`OnlyCreatedIsKnown`).

Only model-checked: liveness (`ChecksFinish`, `DeletedStopsFiring`, `AlertsSettle`, `MigratorsFinish`,
`BlockedIsTemporary`), as the prover handles neither `ENABLED` nor fairness; and the three disagreements
above, which are counterexamples.

## Not modelled

- Timestamps: `checked_at`, `started_at` and `resolved_at` are transaction start times, so their order may differ from
  the order of commits, and the order of probes may differ from both. `Incidents` has the order of commits only.
- The incident feed of the page and what it draws; unsubscribing (the page never does) and malformed messages.
- Graceful shutdown of the processes: every death in the models is at least as abrupt.
- Scripts that insert an account or revoke a key by one statement; connection settings, logging, error formatting.

## Plan

Done: all modules of the plan, with their proofs. What could be added, in this order:

1. Transaction start times in `Incidents` (an older result recorded last, an incident that ends before it started).
2. `Incidents` and `Alerts` composed, from the transition to the delivery.
3. Abstract specifications that `Schedules` and `LiveStatus` implement, between undisturbed requests and while connected.
