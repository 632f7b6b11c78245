# TLA+ models of the cruise price checker

The price checker watches cruise offers. A user stores an offer URL; a scan
opens it in several browser profiles, one after the other and in up to three
rounds, compares the prices and writes a history row; a scheduler starts scans
on its own and alerts go out when a price falls. This directory holds TLA+
modules of the backend, the TLC configurations that check them on small
instances, and proofs checked by TLAPS. Source references are relative to
`backend/app/` unless they start with `README.md` (the repository's one).

## 1. What is here

| File | Content |
|---|---|
| `ScanLifecycle.tla` | abstract: what the pipeline promises about one scan row |
| `ScanQueue.tla` | scan creation, daily limit, in-memory queue, pools, `execute_scan` by its commits, deletion, shutdown, crash |
| `MCScanQueue.tla`, `ScanQueue_*.cfg` | its instances for TLC |
| `ScanQueue_proofs.tla` | its theorems |
| `ScanReport.tla` | abstract: what a client that polls a running scan sees of it |
| `ScanRunner.tla` | one `execute_scan` from the inside: rounds, tests, attempts, blocks, early stop |
| `MCScanRunner.tla`, `ScanRunner_*.cfg` | its instances for TLC |
| `ScanRunner_proofs.tla` | its theorems |
| `BookingFlow.tla`, `MCBookingFlow.tla`, `BookingFlow.cfg`, `BookingFlow_proofs.tla` | the MSC adapter: one walk through the booking funnel of a site that shows what it likes |
| `PriceAnalysis.tla`, `MCPriceAnalysis.tla`, `PriceAnalysis*.cfg`, `PriceAnalysis_proofs.tla` | from the request over the test matrix and the table of results to the verdict |
| `AlertDispatch.tla`, `MCAlertDispatch.tla`, `AlertDispatch.cfg`, `AlertDispatch_proofs.tla` | the end of a scan: history row, alerts, channels, next to other scans of the cruise |
| `Scheduler.tla`, `MCScheduler.tla`, `Scheduler.cfg`, `Scheduler_proofs.tla` | the tick, the requests that change a cruise, the next check a scan sets |
| `PROJECT.json` | components, runs, the faulty variant that breaks each property, definition-to-source map, hazards, findings, theorems |

Run `tlc -config ScanQueue_postgres.cfg MCScanQueue.tla` (and likewise the
others) and `tlapm ScanQueue_proofs.tla` (and the other five).

Some modules contain definitions called *faulty variant*. They are not part of
any specification: each is one action changed the way a plausible bug would
change it, and the property it belongs to (`mutants` in `PROJECT.json`) is
violated when it stands in for the action.

## 2. Inventory of the system

One process: FastAPI request threads, an APScheduler thread, and the worker
threads of a `ThreadPoolExecutor`. They share the `ScanQueue` object (under a
lock) and the database (each with a session of its own).

| Component | State | Operations | What makes it hard | What makes it correct |
|---|---|---|---|---|
| Scan queue `scanner/queue.py` | `_queued`, `_running`, `_executor`, `_closed`; pool work queues | `submit`, `job`, `shutdown`, `status`, `is_active`, `check_rate_limit` | three lock regions in two threads; pool rebuilt after shutdown while the old threads go on | a scan has one job; the registry is exact; every registration ends |
| Scan creation `services.py` | rows of `scans`, `cruises` | `create_scan`, `get_or_create_cruise`, `apply_parsed` | check, insert and submit are three steps; look-up before insert | the daily limit; no accepted scan is forgotten; one row per URL |
| Scan runner `scanner/runner.py` | `scans`, `scan_results`, `scan_logs`, `price_history`, `next_check_at` | `execute_scan`, `run_single_test`, `_mark_skipped`, `_write_history`, `_update_schedule` | many commits; retries; a block in the middle; a failing commit in the failure handler | leaves the site alone after a block; every test accounted for; ends; DONE or FAILED |
| Artifacts `scanner/artifacts.py` | files per scan, profile and round | `screenshot`, `html` | names repeat from test to test | a result points at its own picture |
| Analysis `comparison/analysis.py` | none (pure) | `build_analysis` | merges rounds and tests | verdict and reproducibility say what was measured |
| Offer identity `comparison/identity.py` | none (pure) | `compare_identity`, `group_identical` | unknown fields are skipped, so sameness is not transitive | grouping does not depend on order |
| Scheduler `scheduler/service.py` | `next_check_at`, `monitoring_enabled` | `tick`, `start`/`stop_scheduler` | waits while any scan is registered; PATCH during a scan | a due cruise is checked eventually |
| Alerts `notify/dispatcher.py` | `last_triggered_at`, `last_notified_price` | `evaluate_alerts` | sends before it commits; two scans of one cruise | one message per price within the window |
| MSC adapter `providers/msc/adapter.py` | browser page, funnel position | `run_flow` | the site decides which page comes next | never enters personal data or payment; ends |
| REST API `api/routes.py` | - | CRUD of cruises and alerts, `start_scan`, `delete_cruise`, admin | deletion while a scan runs | - |
| Life cycle `main.py` | - | `lifespan` | restart in one process, crash | nothing half-done looks finished |
| Database `db.py`, `models.py` | tables | sessions, cascades | SQLite reuses ids, PostgreSQL does not | - |
| Channels `notify/channels.py` | - | `configured`, `send` | an answer that is lost or late | nothing is delivered without an address |
| Provider interface `providers/base.py` | `PriceBreakdown`, identity of a flow | `merge`, statuses | later pages fill blanks of earlier ones | the first reading stays |
| Browser sessions `browser/` | one browser per test, profile directories | open, close, profile choice | persistent directory of one profile | closed after every flow |
| Mock, parsers, helpers, configuration, flights, frontend, deployment | - | string functions, declarations, presentation | - | not or only partly modelled (section 8) |

Interactions: a request or `tick` calls `create_scan`, which reads the window
of `check_rate_limit`, commits the row and calls `queue.submit`; a worker calls
`execute_scan`, which calls the adapter per test, `build_analysis` per round,
and at the end the history, the schedule and `evaluate_alerts`. The frontend
polls `scans.status`. `tick` reads `queue.status()`.

## 3. How the modules correspond to the code

### ScanLifecycle

The promise the API's users rely on: a row appears QUEUED, becomes RUNNING,
then DONE or FAILED (or FAILED at once), changes status only while it has a job
registered with the queue, never goes back, and can vanish with its cruise.
Two variables, no thread, pool, lock or session.

### ScanQueue

- *Database*: `status`, `owner` (the columns of `scans`), `cruises`, `recent`
  (the rows in the 24 hour window, the only trace of time), `nextId`.
  `ReuseIds` selects how the database hands out integer keys: SQLite without
  AUTOINCREMENT reuses the highest freed one, PostgreSQL does not. Foreign keys
  are enforced on both (`db.py` sets the SQLite pragma).
- *Queue*: `executor`, `pools`, `queued`, `running`, `work`. `_running` is the
  set of its keys: an entry is removed by the job itself, so an entry whose
  future is done does not exist, and the lock spans `executor.submit` and the
  assignment. `_closed` is TRUE only together with `_executor = None`.
- *Callers* (`callerAt`): a request thread or the scheduler thread inside
  `create_scan`. `CheckRateLimit`, `InsertScan`, `Submit` are the three
  separate steps; `InsertFails`, `RefreshFails` and `SubmitRaises` their
  failures. The last two leave a committed row behind: the refresh raises
  because the row is gone or because the database is, and `executor.submit`
  raises in a process that ends or cannot start a thread, after the scan has
  been put into `_queued`; whether its job is in the work queue all the same is
  left open.
- *Workers* (`workerAt`): `TakeJob` (the pool), `BeginJob` (first lock region),
  `LoadScan`, `StartScan`/`RefuseScan`, `CompleteScan`/`FailScan`/`LoseScan`,
  `EndJob` (last lock region). One action per commit or lock region: in between
  nothing shared is touched that the properties speak of. `LoseScan` is the
  branch where a flush failed and the handler fails too, because it does not
  roll back the session (`runner.py:457-467`).
- *Environment*: `DeleteCruise`, `AgeOut`, `Shutdown`, `Startup`, `Crash`. A
  shutdown leaves the threads of the old pool at work; a crash empties the
  memory and leaves the rows.

`lost` (rows whose thread died or gave up with its work undone), `stray` (scans
in `_queued` whose submission raised) and `crashes` exist for the properties and
the bounds only.

### ScanReport

The promise a client relies on that polls `GET /scans/{id}` from RUNNING to the
end: the results of a round come in the order of its tests and are final; after
a block the rest of the round may come in as SKIPPED in one piece, and then no
result follows; a round is counted when every test of it has a result; only a
scan that stands between two rounds can be DONE. Three variables (`report`,
`roundsCompleted`, `status`); attempts, settings, pictures and verdicts are
hidden.

### ScanRunner

The step `exec` of a ScanQueue worker, opened up. `at` is the place in
`execute_scan`/`run_single_test`; `round`, `index`, `attempts`, `blockedCount`,
`aborted` are the locals of the same names, `rows` the `scan_results`, `files`
what lies in the artifact folders. `Attempt` is one pass of the retry loop with
any outcome; a flow status is its class, because the code distinguishes only
`BLOCKED_STATES`, `RETRYABLE` and the rest. `Record` is the commit of a
result, `Abort` the stop after a block with `_mark_skipped`, `EndRound`,
`Analyse` (interim verdict and the decision on another round) and `Finish` the
commits of `execute_scan`, `Fail` and `Lose` its two ways out by an exception.
The settings are a variable that never changes, so one run covers every
combination. At least one test per round: an empty matrix is `RefuseScan`.

The verdict is chosen among those the prices allow: identities are not in the
model, so `not_comparable` is possible whenever two tests have a price.

### BookingFlow

One `run_flow` with the session around it, from `Launch` to `CloseSession`.
`pc` is the place in the code, `page` what the browser shows, `kind` the page
type read last (`ctx.page_type`), `prices` and `trip` the merged
`PriceBreakdown` and identity, `status` the status of the result. A page is its
type, its notices, three prices and the tariff; what the recognisers of
`price_parser.py` and `selectors.py` make of a text is an input. One action per
stretch of code between two clicks: `OpenOffer`, `AcceptCookies`, `ReadOffer`,
then per turn `Inspect` (guard, notices, hard stop, branch by page type) and
`ReadSummary`, `StartBooking`, `Choose` (preferred tariff, first option, any
button), `AfterChoice`, `Continue`, and `AfterLoop`. `Interrupt` is any
exception of Playwright at any place. A click has three outcomes: nothing
happened, it was clicked, or it reached the site and still raised or could not
be told (`_guarded_click` returns None) so that the flow goes on as if nothing
had happened. The site answers every click that reached it with any page.
`stale` counts the clicks since the page type was read and `blind` remembers
how stale the page type was when a click hit a restricted page; `told`
remembers the notice of a changed price. These three exist for the properties.

Assumptions: the text of a page can be read; a page changes only in answer to a
click; cookie clicks do not count as turns and change no page type.

### PriceAnalysis

`build_matrix` is pure and stands as the operators from `ProfilesOf` to `Specs`
and `Notes`; `Kept` is the filter of its list comprehensions, the elements of a list
that are in a set, in their order. `build_analysis` is a machine whose steps are the rounds of its
loops: `AddResult` (any outcome for the next test of the round), `EndResults`,
`GroupRow` (one row into `group_identical`), `Conclude` (verdict and
reproducibility). `execute_scan` calls it after every round, and `NextRound`
goes on to another one unless the verdict is that there is no difference
(`runner.py:414-430`), so that only tables arise that a scan can have. A row has the price per round and what is known of the
offer. Exact fields are compared as values, free texts by the relation
`Similar`, which is symmetric and need not be transitive, as the code's
similarity of texts is. Amounts are cents, so that differences are exact;
results are read in the order in which they were stored. (The query of
`execute_scan` names no order; both databases return the rows of so small a table
in this one.) The placeholders `compare_identity` takes for missing ("-", "n/a",
...; `identity.py:44`) are not values of an exact field: no recogniser produces
them there, and where the blanks of a row or a group are filled, the code knows
only `None` and the empty text.

### AlertDispatch

Any number of scans of one cruise at the end of `execute_scan`. `stage` says
how far a scan is; `WriteHistory` and `CommitScan` are apart because the stamp
of the row is taken before the commit, so that the order of the stamps and the
order in which rows become visible differ. `LoadAlerts` and `LoadHistory` are
the two queries of `evaluate_alerts`; `eval` holds what the session keeps from
them (`expire_on_commit=False`). `Send` delivers a message or fails to,
`Record` and `RecordFails` are the commit of the alert. `CreateAlert`,
`DeleteAlert`, `Tick` and `Crash` run in between. `recorded` is the list of
committed messages and `heard` how many of them were there when the alerts were
loaded; both exist for the properties. Percentages are whole numbers.

### Scheduler

One action per step of `tick`: `LoadCruises`, then per cruise `AskQueue` and
`create_scan`, `EndTick`, `TickFails`; the order of the cruises is left open,
which includes the fixed order of the code. `create_scan` is run by the tick
(`Ticker`) and by requests, side by side: the check (`RequestScan`,
`CheckRateLimit`), the commit (`InsertScan`) and the submission (`Submit`) are
three steps, so that several callers pass the limit together (finding 1) and
requests come between the question of the tick and its scan. `callerAt` is the
place of a caller; `Abandon` is an exception in between, which after the commit
leaves a row that is counted and never executed. `CreateCruise` (a POST for a
link that is known) and `UpdateCruise` are the other requests; `BeginScan`,
`CompleteScan`, `FailScan` the scan with the cruise as it was loaded at its
start.

Time goes in steps of `CHECK_EVERY_MINUTES` and is kept as what is left of it
(`next`, `left`), so that nothing grows without bound. `started_at` is set when
the row is created (`models.py:118`) and never again, so a scan counts for a day
from its creation: `left` runs down while it waits, and goes with it when it
starts. `Count` is what `check_rate_limit` counts: rows about to be submitted,
rows that wait and still have time left, and the others by what is left of
their day (`recent[c]`, a histogram, since nothing else of them is ever read). A
tick, a request and the start of a scan take less than a step. `Edited` are the
cruises whose settings requests change, `Asked` those they ask a scan for; a
cruise outside of them is left alone in the run, not in the proof.

### Composition

`ScanQueue` implements `ScanLifecycle` (`LifecycleSpec`, an INSTANCE with
`Scan <- ScanId, active <- Jobs`: a scan is active while it has a job, which is
what `_running` says unless a submission raised), and `ScanRunner` implements `ScanReport`
(`PolledSpec`, with `report <- Report`, the rows of `scan_results` as one set);
both are checked and proved.
`ScanRunner` describes the interval between `StartScan` and
`CompleteScan`/`FailScan`/`LoseScan` of one worker: its status moves from
RUNNING to DONE or FAILED or stays, and scans share no variable of that module
except the files, whose folder carries the scan id. The two are kept apart so
that TLC can look at each on its own; the queue never looks into a scan.

`BookingFlow` is one `Attempt` of `ScanRunner`: it ends with one status out of
the classes `Attempt` chooses from, and `Terminates` is what lets `Attempt` be
one step. `PriceAnalysis` is the verdict of `Analyse`, which `ScanRunner` leaves
open between the ones the prices allow. `AlertDispatch` follows the DONE of
`ScanRunner` in the same thread. `Scheduler` contains the whole of `ScanQueue`
as a sequence with one thread: what a tick reads of the queue is whether
anything is registered. That these fit is argued here and not checked; a module
that composes two of them would multiply state spaces that have nothing in
common but the joint.

## 4. Runs

| Run | Expect | Bounds | Distinct states |
|---|---|---|---|
| `queue_postgres` | pass | 1 cruise, 2 callers, 1 worker per pool, 2 scans, 2 pools, 1 crash, failing commits, 1 submission that raises | 79,248 |
| `queue_sqlite` | pass | 2 cruises and 2 callers (symmetric), 3 scans, 2 pools, ids reused | 3,280,707 |
| `runner_rounds` | pass | 2 tests of one profile, 2 prices, rounds 1..2, retries 0..2, block limit 0..2 | 658,869 |
| `booking_flow` | pass | 13 pages of all types, every notice, 3 turns | 707,520 |
| `price_analysis` | pass | 6 requests of up to 3 tests in 1 round or 2 tests in 2, 3 prices, 3 identities | 39,720 |
| `alert_dispatch` | pass | 3 scans (symmetric) on 2 threads, 2 alerts, 2 prices, window of 1, 1 mishap | 3,311,004 |
| `scheduler` | pass | 2 cruises, 2 intervals, the tick and 1 request, a day of 5 steps, 1 scan per day, scans of up to 1 step, 1 mishap | 428,748 |
| `queue_ratelimit` | violation of `DailyLimitHolds` | 2 callers, limit 1 | |
| `queue_flushfailure` | violation of `JobLeavesVerdict` | 1 scan, failing commits | |
| `queue_idreuse` | violation of `WritesOwnScan` | 2 cruises, ids reused | |
| `runner_evidence` | violation of `EvidenceIsOwn` | 2 tests of one profile, 1 round | |
| `analysis_reproduced` | violation of `ReproducedTwice` | 2 tests in 2 rounds | |

What the passing runs say:

- `queue_postgres`: `RegistryExact` (in every interleaving `_running` is the
  waiting plus the held jobs, and `_queued` the waiting ones and those just
  taken; a submission that raised leaves its entry in `_queued`),
  `AccountedFor` (every QUEUED or RUNNING row
  has a thread that will change it, unless its process or its session died or
  its refresh or submission raised), `LifecycleSpec`, `RegistrationEnds` (an
  entry of `_running` goes away again), `EventuallySettled` (an accepted scan is
  settled, also when the queue is shut down while it waits).
- `queue_sqlite`: `EachScanOnce` (no scan id has two jobs, across pools and
  with reused ids), `OvershootBounded` (the daily limit is exceeded by at most
  the concurrent callers minus one).
- `runner_rounds`: `RetriesUsed`, `NothingHidden`, `EarlyStopJustified`,
  `NoVisitAfterBlock`, `PolledSpec` (the refinement of `ScanReport`),
  `Terminates`.
- `booking_flow`: `HardStop` (nothing is clicked on a page for personal data or
  payment, or on a challenge, that was read), `BlockReported` and
  `ChangeReported` (what the flow was told is in its status),
  `FirstReadingStays`, `Terminates`.
- `price_analysis`: `NothingDropped` (a combination asked for is tested or
  named in the notes), `RefusalWitnessed` and `OnlyMatchedCompared` (the greedy
  grouping neither separates nor joins what it should not), `VerdictOfEveryRound`
  (the minimum over rounds hides nothing unless prices are called dynamic).
- `alert_dispatch`: `RepeatExplained` (the ways in which a message can be
  repeated within the window, and no others), `DueServed` (nothing due is left
  out by an evaluation that ends in order), `NoFalseDrop` (whosever row is taken
  for the own one, a message about a drop is true).
- `scheduler`: `OneScheduledAtATime` (whatever requests do between the question
  of a tick to the queue and its scan), `CountedAtStart` (no scan waits until it
  is not counted any more), `WatchedVisited` (no watched cruise starves),
  `StaleScheduleHeals` (a next check computed from an old interval does not last).

Two of them say less than their names. `RepeatExplained` speaks of messages that
were recorded: one that was delivered and whose answer was lost, or after which
the process ended before the commit, is sent again and is not in the record.
`DueServed` speaks of evaluations that end in order: the alerts behind one whose
commit fails are not told.

**Why the bounds are enough to be interesting.** Two callers are needed for the
race of the limit; a limit of one makes it bite at once, and with the three scans
of `queue_sqlite` the bound on the excess (two) could be passed. Two pools and a
shutdown let old and new threads live side by side; the shutdown is guarded by
`pools < MaxPools` so that a pool number is left for the next submission. Two
ids suffice for a reuse while the old job is alive and for two scans waiting in
one pool; the three of `queue_sqlite` also overlap old jobs, a waiting one and one
being created. One crash leaves rows behind that a second generation of scans
meets, and one submission that raises (`MaxStray`) an entry of `_queued` that a
second scan meets. With reused ids no submission raises: the model keeps `_queued`
as a set, and the list of the code could hold an id twice then.
Two tests and two rounds give a block in the first, the last and the next
round, blocks spread over rounds, prices that differ in one round and not in
the other; the settings 0, 1 and 2 lie on both sides of `max(1, ...)` and of
the block limit. `MaxScans`, `MaxPools`, `MaxStray` and `MaxCrashes` are the only bounds
of these two modules that are not parameters of the program.

Three turns let a flow choose, continue and meet what that brought up; the pages
put every notice where it matters, among them a challenge on a payment page and
a changed price before the summary. The offers of `price_analysis` have a free
text that is similar to two others which are not similar to each other, and a
missing exact field, the case in which the order of grouping counts; the prices
lie on both sides of the tolerance. In `alert_dispatch` two scans are evaluated
at once and a third one afterwards, inside or outside of the window (the clock
takes one step, which is the whole window); the price that is repeated and the
one in between are both there. `MaxTime` and `MaxMishaps` (deletions, failing
commits, crashes) are its bounds, `MaxScanTicks` and `MaxMishaps` those of
`scheduler`. There the scans of the one cruise that is asked for, a second one
past the limit among them, keep the ticks off for four of the five steps of a
day, so that the fifth is the one in which the other must get its turn.

`Day` is not free in `WatchedVisited` and in `CountedAtStart`. At one time at
most `K = MaxPerDay + Cardinality(Caller) - 1` scans of a cruise count
(finding 1). `WatchedVisited` holds if a day is longer than
`(Cardinality(Cruise) - 1) * K * (MaxScanTicks + 1)`, the time the others can
keep the ticks off; the bound is sufficient and a little too large (TLC finds a
starving cruise in a day of three steps and none in a day of four).
`CountedAtStart` holds if it is longer than
`Cardinality(Cruise) * K * MaxScanTicks`; without that it is false: when requests
ask for both cruises, TLC finds a scan that starts without being counted in a day
of two steps and, with two scans a day, in one of three.
A real day has 144 steps. With six scans per cruise and day, one request beside
the tick (`K = 7`) and scans of three steps, the first hypothesis admits six
cruises and the second six; with many requests for one cruise at the same
moment, or many watched cruises whose checks keep failing, a cruise can starve.

**Deadlock** is checked for `scheduler`. The other systems really stop: the
runner, the flow and the analysis when they have ended, the queue when all ids
are used, all rows are final and the window is empty, the alerts when every scan
has ended and the clock stands at its bound.

## 5. Fairness

`ScanQueue`: weak fairness for every caller and every worker, nothing for
deletion, ageing, shutdown, start or crash. The operating system runs the
threads, and each of their steps ends: page loads, clicks and waits of the
browser carry timeouts, the number of attempts and of funnel steps is bounded,
the database connection has a busy timeout. (That a text or a title can be read
in time is an assumption: `page.evaluate` and `page.title` have no timeout of
their own.) Threads of a pool that was shut
down with `wait=False` keep running (`queue.py:96`), so their fairness stays.
`ScanRunner` and `BookingFlow`: weak fairness of `Next`, the one thread of the
scan, under the same assumption, so no step of the flow waits for ever. `Scheduler`: weak fairness of the tick, of the start and of the end of a
scan, of the requests inside `create_scan`, and of time. Whether a scan completes or fails is left open: a site may
fail for ever and a cruise must be visited all the same. That requests come is
not assumed, and ticks may fail and processes end `MaxMishaps` times.

## 6. Proofs

The theorems hold for every value of the constants that satisfies the named
assumptions of the module (`QueueAssumption`, `RunnerAssumption`,
`StepsAssumption`, `IdentityAssumption`, ...): any finite set of callers, any
set of cruises, any limit and number of workers, any number of tests, turns,
rounds, scans and alerts, any prices, outcomes, pages and settings.

`ScanQueue_proofs`

1. `TypeCorrect`. `TypeOK` also says that a caller that submits and a worker
   that works have a scan, and that a pool number is left when there is no pool;
   without these the step of `Submit` and `TakeJob` does not go through.
2. `JobInvariant`, from `JobInv = RegisteredExactly /\ EachScanOnce /\
   QueuedExactly`. None of the three is inductive alone: removing an entry at
   the end of a job is right only if no second job exists, and that no second job
   is created rests on the registry being exact. `Registration` (`RegistryExact`,
   the first and the third of them) and
   `NoDoubleExecution` follow. Holds with and without reuse of ids. `FreshInv`
   goes with it: a scan is submitted once, so the entry a raised submission leaves
   in `_queued` is not one of a scan that is about to be registered.
3. `OvershootTheorem`, from `LimitInv`, which counts the callers that have passed
   the check as well: the check raises the second number, the insert moves one
   unit from it to the first.
4. `RowInvariant` (`~ReuseIds`): the place of a scan's thread determines the
   status of its row, and ids not yet drawn have neither row nor job.
   `NothingForgotten` (`AccountedFor`) and `ImplementsLifecycle`
   (`LifecycleSpec`) rest on it. With reused ids the life cycle is not
   implemented: finding 3.

`ScanRunner_proofs`

1. `TypeCorrect`, with the clause that an attempt starts only below the limit.
2. `RetriesTheorem`, from `RetryInv`: what is about to be recorded has used its
   attempts if it is a technical failure.
3. `NothingHiddenTheorem`, from `PositionInv`: the tests that have a row are
   those the position has passed.
4. `NoVisitTheorem`, from `BlockInv`: `blockedCount` is the number of blocked
   rows and is below the limit wherever another test may follow.
5. `EarlyStopTheorem`, from `StopInv`: the reason the last analysis had for going
   to the end (a block, the last round, equal prices) still holds when the scan
   is DONE, because no row changes in between.
6. `ImplementsReport` (`PolledSpec`): `Record` is `Deliver`, `Abort` is `GiveUp`
   (which adds nothing after the last test of a round), `EndRound` is
   `CloseRound`, `Finish` is `Complete`, `Fail` is `Break`; attempts, analyses and
   lost sessions are stutters. `PositionInv` says which tests of
   the round have been delivered, `SkipInv` that SKIPPED rows exist only once
   `aborted` is set, so that nothing can be delivered after them.
7. `EffortTheorem`: every step lowers `Effort`, the tests of this and the later
   rounds times the steps one test can take (`Limit + 6`), plus what is left of the
   current one. An upper bound for the length of every scan, failures and
   retries included.

`BookingFlow_proofs`, from one invariant: the place in the code bounds the
clicks since the page type was read, and a page the flow has read and not clicked
away is one it may work on. `TypeCorrect` (with at most four clicks per turn),
`HardStopTheorem`, `BlockReportedTheorem`, `ChangeReportedTheorem`,
`FirstReadingTheorem`. `EffortTheorem`: every step lowers `Effort`, made of the
turns left and the place in the turn, which starts below `13 * (MaxSteps + 1)`.

The two effort theorems are the part of `Terminates` that needs neither fairness
nor ENABLED: no scan and no flow goes on for ever. That one which has not ended
can take a step remains with TLC.

`PriceAnalysis_proofs`, from the loop invariant of `group_identical`: what a
group says of its offer comes from a member (`Explained`) and contradicts no
member (`Covered`), so that a second group means two contradicting rows
(`Split`). `RefusalTheorem`, `OnlyMatchedTheorem`; `EveryRoundTheorem` needs the
minima over rounds as well. `TypeCorrect` and `NothingDroppedTheorem` rest on
lemmas about `Kept` and about the numbering of the matrix. `KeptElements`: the
places of the kept elements are numbered by how many of them come before, which
is onto, so that nothing is lost and nothing added. `Numbered`: profile, mode,
referrer and proxy are the digits of a test's number in a mixed radix (`DivMod`,
`Below`), so that every combination has a number below the product of the
lengths, and the notes name the cut if the number lies beyond the limit.

`AlertDispatch_proofs`, from `IInv`: `Progress` (how far a scan is determines
what it has written), `Logged` and `Distinct` (records and stamps), `Remembered`
(an alert, and every copy of it, shows the last record of it that was there) and
`Messages`, the three properties per scan and alert. `Frame` collects what no
step changes of a scan that has got so far, which is why what was true when a
message went out stays true. `TypeCorrect`, `RepeatsExplained`, `DropsReal`,
`DueAlertsServed`. The last needs that a nonempty set of prices has a minimum,
which comes from the well-foundedness of the naturals; `DropsReal` rests on the
percentage being at least one: were the row of another scan the last one, the
scan's own price would be among the earlier ones and could not have dropped.

`Scheduler_proofs`

1. `TypeCorrect`, with the bounds of the next checks and of a scan's age.
2. `ScheduledOnce`, from `Inv = Types /\ TickAlone /\ OneScheduledAtATime`.
   The tick asks the queue before it checks, inserts and submits; what it knows
   from the answer must last until the submission. `TickAlone` says that it does:
   while the tick is inside `create_scan`, none of the scans that wait or run is
   the scheduler's, whatever requests put there.
3. `CountedTheorem` (`CountedAtStart`), from `LimitInv = Bounded /\ Timely`.
   `Bounded`: the scans of a cruise that count, together with the callers that
   have passed the check and not inserted yet, are at most `Limit = MaxPerDay +
   Cardinality(Caller) - 1`; each step of `create_scan` moves one unit from one
   term of this sum to the next, a start moves one from the waiting scans to the
   histogram, a crash all of them, and time takes away. `Timely`: no scan has
   waited longer than those ahead of it can have taken. This needs `LongDay`:
   finitely many cruises, and a day longer than `Cardinality(Cruise) * Limit *
   MaxScanTicks`, all the scans that can count one after the other. The run
   satisfies it; without it the statement is false (section 4).

Only model-checked: the liveness properties (`EventuallySettled`,
`RegistrationEnds`, `Terminates` of both modules, `WatchedVisited`,
`StaleScheduleHeals`), which need ENABLED and fairness. Every other property of a
passing run is a theorem; `AccountedFor` and `LifecycleSpec` under the hypothesis
`~ReuseIds` of their run, `CountedAtStart` under `LongDay`, which its run satisfies.

## 7. Findings and hazards

1. **The daily limit is not a hard one.** `create_scan` counts, then inserts, in
   two transactions and without a lock. `README.md:187` calls the limit a
   "harte Obergrenze". The excess is bounded by the concurrency
   (`OvershootTheorem`). It is a limit of creations: the day of a scan begins when
   its row is created, not when the site is visited, so the visits of two days'
   creations can fall into one day, at most twice as many. What cannot happen in a
   long enough day is that a scan waits until it has dropped out of the count
   (`CountedTheorem`).
2. **A failed flush loses the verdict.** The handler uses the session without a
   rollback, its own query raises and is swallowed; the row stays QUEUED or
   RUNNING. `AccountedFor` states this exception.
3. **On SQLite a job may write the status of another scan**, one that took over
   the id of a deleted row while the old job was running; the new scan itself
   is dropped by `submit` as already running.
4. **Screenshots of one profile overwrite each other** when a matrix has more
   than one test per profile (cookie modes, referrers, proxies).

5. **A difference measured once is called reproduced** when a complete round
   shows it and a later round yields a price for one of the two tests only: rounds
   are counted per test, not per pair (`analysis.py:286`). The complete round has to
   come first; after an incomplete one the verdict is "no difference" and the scan
   stops.

The following were met while modelling. Each is part of a module as the code has
it; the property named says what is left.

- `services.py:112`: between the commit of a new row and its registration the
  refresh, the executor or the start of a thread may raise. The request fails, the
  row stays QUEUED for ever, and it counts for the daily limit (`AccountedFor` and
  `EventuallySettled` name this exception).
- `adapter.py:584`, the hard stop: the page type is read once per turn. A click
  that reached the site and still raised, or whose label could not be read,
  counts as none, and the next click of the turn hits a page nobody looked at
  (`HardStop` speaks of pages that were read).
- `adapter.py:99`: a challenge that comes up after the last turn, or with an
  unnoticed click, is not reported (`BlockReported` excludes both).
- `base.py:127`: a total of an early page outlives that of the summary, and a
  flow is OK with a total although the summary shows none (`FirstReadingStays`).
  `merge` overwrites `source_labels` all the same (`base.py:137`), so the label
  can belong to a price that was not taken.
- `adapter.py:706`: an aborted flow keeps its prices and loses the identity of
  the offer, so its prices are compared without one. The tariff of the identity
  is that of the start page, while the result stores the chosen one
  (`runner.py:290-296`).
- `COOKIE_BANNER_CHANGED` is declared and never set; a proxy that is
  misconfigured means a direct connection (`session.py:76`).
- `dispatcher.py:16`, "Never send the same alert more than once per this
  window": two prices in turn, the record of an evaluation that began earlier,
  and a lost answer or commit repeat a message. `RepeatExplained` names the
  reasons, and `RepeatsExplained` proves that there are no others.
- `schemas.py:41` cuts the lists of a request to twelve names without a note.
- `routes.py:133`: a POST for a known link sets the interval to what the
  request says, "manual" if it says nothing, and leaves `next_check_at`.

`PROJECT.json` lists every hazard met while reading, the covered ones with
their properties and the others with the reason why none does.

## 8. Not modelled, and what could follow

Not modelled, and why:

- *Strings.* The recognisers and parsers of prices and links, the normalisation
  and similarity of texts, path helpers, log redaction and the wording of
  headlines, warnings and messages. What they decide is an input of the modules
  (page types, notices, prices, `Similar`, `Acceptable`); that they decide
  rightly is for unit tests with real pages.
- *I/O.* Playwright, SMTP and HTTP, the persistent profile directory and the
  start-up wait for the database. Their outcomes, with failures and late
  answers, are choices of the modules.
- *New cruises.* `get_or_create_cruise` for an unknown link and what
  `apply_parsed` fills in from a link. The race between two requests for one
  link ends at the unique constraint.
- *Two read-only or manual operations* that touch no other component: the reset
  of a browser profile and the test message of an alert.
- The mock provider (a test double), the flight interface (no implementation),
  the registry (a lookup), declarations, frontend and deployment.

What could follow: the joint of `ScanRunner` and `BookingFlow` as an abstract
specification of one attempt with both modules shown to fit it; and the composition
of `Scheduler` with the pools of `ScanQueue`, where a tick reads the registry
while jobs move through it.
