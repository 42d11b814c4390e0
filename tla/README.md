# A TLA+ verification of sqlhealthwatch

sqlhealthwatch is an agentless monitor for a fleet of SQL Server instances. Task
Scheduler starts `python -m sqlhealthwatch fast` every 15 minutes and `daily` once a
day. Each start is a process that connects to a repository database, takes a lock for
its tier, fans out over the fleet with a pool of threads, collects, evaluates
thresholds, pages, and ends. Nothing runs between two starts: whatever one run owes
the next is in the repository's tables, and whatever keeps two runs apart is there
too. That is where its hard behaviour is, and what these modules model.

Paths below are relative to `src/src/sqlhealthwatch/` unless they start with `src/`.

## Inventory

| Component | State | Operations | Interacts with | Must hold |
|---|---|---|---|---|
| Tier run orchestration (`runner.py`, `storage/repository.py`, `__main__.py`) | `mon.runs`, `mon.server_status`, `mon.server`, the application lock per tier, the pool's threads | `run_tier`, `tier_lock`, `start_run`, `ensure_server`, `_fan_out`, `_collect_server`, `_current_run_id`, `finish_run`, the exit status | all of the below, once per server; other invocations through the lock and the tables | one invocation per tier; a worker reports under its own run; totals, status rows and exit status agree; every failure is reported; runs end and locks are freed |
| Alert router (`alerting/router.py`, `config.py:263-277`, `util/timeutil.py:18-26`) | `mon.alert_log` | `decide`, `dispatch`, `_record`, `routing_for`, `in_quiet_hours` | a router per worker, channels, the log that all workers share | cooldown within its reach; nothing suppressed without a page; a standing problem keeps paging |
| Deadlock ingestion (`collectors/deadlocks.py`, `runner.py:267-296`) | `mon.collector_watermark`, `mon.deadlock_event` | watermark read, `fetch` with fallback, watermark move, `write` | event file and ring buffer of the monitored server | each event stored, once |
| Threshold analysis (`analyze/thresholds.py`, `analyze/derive.py`, `runner.py:299-378`) | none; reads back histories of samples | `evaluate` and its rules, the derived rates and projections | sample tables, alert router | grading is monotone and matches the configured thresholds; a history describes the present |
| Collector base and gating (`collectors/base.py`, `collectors/__init__.py`, `version.py`, `runner.py:221-296`) | the features of the instance and the frames of a pass | `_probe`, `applies_to`, `sql_file_for`, `target_databases`, `collect`, the time budget, `_persist` | connection to the monitored server, repository | nothing is sent that the instance cannot answer; one failing collector or database costs the others nothing; what was not collected is reported as skipped |
| Collectors (`collectors/*.py`) | none | one `transform` each | base | each row is mapped to its table's columns |
| Retention (`storage/retention.py`) | every table | `prune`, batched delete, partition switch, `_prune_runs`, `prune_exports` | inserts of both tiers and of `test-conn`, other prunes | no reader ever misses a row; what has expired goes |
| Bootstrap (`storage/repository.py:97-110`) | the schema | `bootstrap`, `schema_exists`, `_split_batches` | first invocations of every command | a whole schema, whoever comes first |
| Connection (`connection.py`) | a session | `connect` with one retry, `query`, `close` | every component | no session outlives its command or its attempt |
| Command line (`__main__.py`) | none | `fast`, `daily`, `test-conn`, `prune` | the above | the exit status can be trusted |
| Configuration (`config.py`) | loaded once | `load_config`, `Thresholds.effective`, `routing_for` | all | overrides win in the documented order |
| Channels (`alerting/email.py`, `teams.py`, `slack.py`) | none | `send` | the outside | a send that returns has delivered |
| Parquet export (`storage/parquet_export.py`) | dated folders | `export_frame` | `prune_exports` | as for retention |
| Logging, secrets, text | files | append | - | - |

What is hard here: two invocations of different tiers always may overlap, two of the
same tier when a run is slow; the lock lives in a session that is idle for the length
of a run; workers are threads with connections of their own; every statement commits by
itself, so any sequence of statements may be cut short by an error or a kill; the
cooldown is looked up before a page and logged after it; the watermark moves before the
rows it stands for are written. `PROJECT.json` lists each of these at its line.

## Modules

| Module | Models |
|---|---|
| `TierRun` | `run_tier`, `_fan_out`, `_collect_server` and the statements they issue, for several invocations at once |
| `RunLedger` | the abstract promise of the run records, which `TierRun` refines |
| `AlertRouter` | `AlertRouter` for several dispatchers that share `mon.alert_log` |
| `DeadlockIngest` | the watermark protocol between `DeadlockCollector`, `_run_collectors` and `_persist` |
| `CollectorPass` | the passes over one server: `_run_collectors`, `_persist`, and the histories that the next pass reads back |
| `VersionGating` | the probe, the gates, the SQL variants and the loops over the databases, on an instance that is patched and whose databases come and go |
| `Startup` | `connect` with its retry, `schema_exists`, `bootstrap`: how each command comes to work on the repository |
| `Retention` | `prune` and `prune_exports` among the commands that write; builds on `Startup` |
| `RecentRows` | the abstract promise to the readers of the repository, which `Retention` refines |
| `ThresholdOverrides` | `Thresholds.effective` and `_deep_merge` on the one `Thresholds` object all workers share |
| `ThresholdRules` | `evaluate`, its rules, `derive`'s averages and projections, `chain_depth`, as operators |
| `Analysis` | workers that resolve thresholds and evaluate the rules, while a server gets worse; composes the two above |
| `TierRunProofs` | the theorems about `TierRun`, that it implements `RunLedger` among them |
| `DeadlockIngestProofs`, `AlertRouterProofs` | those about `DeadlockIngest` and `AlertRouter` |
| `CollectorPassProofs`, `VersionGatingProofs` | those about `CollectorPass` and `VersionGating` |
| `RetentionProofs` | those about `Startup` and `Retention` |
| `RuleProofs` | the lemmas about the operators of `ThresholdRules`: sums, averages, projections, severities, and that the rules are monotone |
| `AnalysisProofs` | the theorems about `Analysis`, those about `ThresholdOverrides` among them |
| `MC...` | the small instances TLC checks |

### TierRun

One process `p` per invocation. `pc[p]` is where its main thread is in `run_tier`
("locking", "starting", "resolving", "fanout", "leaving", ...) and ends as the exit status
of `_run_tier` ("ok", "skipped", "failed") or "dead". `sess[p]` and `owner[t]` are the
main connection and the session-owned application lock. `ledger`, `started`, `okCount`,
`failedCount` are the columns of `mon.runs`, `dim` the rows of `mon.server`, `status`
those of `mon.server_status`. `worker[p][s]` is where the pool thread for server `s` is
in `_collect_server`, `attached[p][s]` the run id it looked up, `result[p][s]` the
`ServerResult` it returned.

Every statement that can interleave is an action: `SelectServer` and `InsertServer` are
two, because `ensure_server` is two statements with no transaction around them. The
error handler of a worker is one action with four outcomes (nothing, the status row, the
row and the finding, all three): its three statements are sequential in one thread, in
one `try`, and no other actor's step depends on their intermediate states. What a
worker does between attaching and its status row is one step that works or raises; the
parts of it that have a protocol of their own are `AlertRouter` and `DeadlockIngest`.

The environment may make a monitored server fail, a repository statement raise without
effect ("repo") or after it has taken effect ("ack": autocommit has the row, the
acknowledgement is lost), a main session be cut, a process be killed (its session outlives
it until the server notices), and the clock tie: `started_utc` is a `DATETIME2(0)`. `Faults`
selects among them, so that each property is checked under the faults it has to survive; the
runs and the theorems name the ones left out. A lost acknowledgement after
`record_server_status(..., True)` (`runner.py:184`) sends the worker into its error handler,
which adds a failed row next to the ok one, a finding and a page. So `FailureReported` holds
under it, and `BooksAgree` does not: the totals and the status rows then disagree, and a run
whose `finish_run` is not acknowledged is closed and exits 1.

### RunLedger

Per invocation a phase, a row, an outcome per server and a tally. Runs of a tier do not
overlap, each server settles once, the row closes with the totals of all of them, and
nothing changes after the end. `TierRun!KeepsLedger` is its refinement: the phase is a
function of `pc`, the other variables are `ledger`, `result` and the two counts.

### AlertRouter

A dispatcher is a worker with a router of its own. `batch` holds the findings still to
route, `left` the positions of the current one's route still to send to; `Decide`, `Send`/`SendFails`
and `Record` are the lookup, the send and the log row, which nothing holds together.
`logAge` is the age of the newest successful row of `mon.alert_log` per fingerprint, the
only thing the router asks of it; ages saturate at the cooldown, which leaves the state
space finite without bounding time. `sentAge` and `burst` are history variables: what
really went out, and how many pages of a fingerprint came each within a cooldown of the
last. A fault that hides a page from the cooldown (a send that raises after it has
delivered, a lost row, a failing lookup, a kill before the row) sets that count back, so
that `BurstBounded` can be checked under all faults: between two of them, no more than one
page per dispatcher. That is more than `router.py:9-10` says ("the same fingerprint is not
re-sent within the cooldown window"): the fast and the daily tier hold different locks, both may
look the cooldown up before either logs, and one problem is then paged twice without any fault.

### DeadlockIngest

Events are numbered in the order of their time. The event file holds an interval of
them, the ring buffer another. A worker reads the watermark (`ReadWatermark`), reads what
is newer (`Fetch`: file, else ring buffer, else nothing), moves the watermark (`Mark`, also
in a dry run) and inserts (`Write`). `Written` says what a refused INSERT leaves behind,
`Interrupted` what a failing or killed one does: every batch is committed by itself.

The watermark moves before the rows are written, in dry runs too, and past whatever the
ring buffer no longer has. What that costs is real, and is kept in the history variable
`forgone`; `NoEventLost` and `EveryDeadlockStored` say that nothing else is ever lost.

### CollectorPass

One worker's passes over one server, one after the other. `turn` walks the plan, once to
collect and once to persist; `frames` are the collectors that have a result, `skipped` is
who is on the list the code keeps (one that failed before the budget ran out is on it
twice). Two samples are followed through the repository. `cpuRows` are the last rows of
`mon.cpu_sample`, NULLs included, as `recent_values` returns them; `ioRow` is the newest
cumulative counter, which `counter_delta` compares with the current one. `raised`, `cut`,
`since` and `reset` are history: why a collector is missing, and what the counter really
gained.

### VersionGating

Passes of either tier over one instance. `server` is what the instance is: its major
version, whether it is Azure SQL DB, and `offers`, the objects and columns that not every
release has. `features` is what the pass believes of it (`ServerFeatures`): `Probe` takes
the version, the four objects that `feature_probe.sql` asks for and the online databases,
anew in each pass. `AppliesTo` is every `applies_to`, `Variant` every `sql_file_for`, `Uses`
what each file of `src/sql/` needs. A statement is answered if the instance offers what its
file uses; a collector whose statement is not goes to `failed`, except for the per-database
ones, which note the database (`noted`) and go on. `Queries` and `Skips` are one
statement each, because databases go offline between any two of them; the query history
sends four to each database (`sent`), and one refused drops the rest of that database.

What an instance offers is not in the code. `Matrix` states it the way section 2.1 of
`src/sqlhealthwatch_spec.md` does, and adds what else the files of `src/sql/` use and an older
release lacks (`total_page_count` of `dm_db_file_space_usage`, SQL Server 2012); `Fleet` in `MCVersionGating` has the seven kinds of
instance that section tells apart from 2008 on. Azure SQL DB answers no `USE`, so there every
per-database statement is skipped: that follows from the platform and is marked external.

`CollectorPass` takes the outcome of the gates as its constant `Applies` and adds what
`VersionGating` leaves out: the budget, failures of other kinds, storing, the next pass.

The specification promises that "every collector self-gates" and never errs. The code keeps
that for all collectors but one: `tempdb_usage.sql` reads `total_page_count`, and
`TempdbCollector` is gated by `is_box_product` only (`collectors/io_disk.py:60`), so on 2008 and
2008 R2 it raises in every daily pass. `OnlyTempdbRefused` says both halves: before 2012 a daily
pass has a failed collector, and nothing but this one is ever refused.

`query_store.py:8-10` promises that a query is never counted twice, with the plan-cache path
as the one exception. It is the other way round: on the plan-cache path the query history
leaves the CPU ranking out, and with the Query Store both collectors collect it
(`query_store.py:63`, `cpu.py:84`). `RankedOnce` is the promise, and the run `ranked` refutes it;
`RankingsDivided` is what the code does keep to: it is the CPU ranking only, and only on that path.

Three more things are kept under "hazards": on 2005 `cpu_top_queries.sql` reads `query_hash`,
with no variant and no gate (`Matrix` therefore starts at 2008); on Azure without the Query Store
nobody collects the CPU ranking; the query history visits excluded databases.

### Startup and Retention

`Startup` follows one process through one command after the other: `opening` and `setting` are
the two statements of an attempt of `connect`, `asking` is `schema_exists`, `looking` and `making`
are the two halves of each batch of `schema.sql`, between which a rival may be quicker. Which
command a process runs matters only once it is connected (`cmd`). `sessions` counts what it
holds on the server: an attempt whose SET batch fails leaves its connection to be dropped by
the next `raw.cursor()`, which is why two are possible for a moment. Objects are made in the
order of the script, so `made` is how many there are. A bootstrap that a fault ends leaves a
schema that `schema_exists` takes for whole ever after; `spoiled` remembers that, and
`SchemaUnspoiled` says that nothing else does it.

`Retention` adds the rows. A store (a table, or the export archive with its dated folders) is a
count of rows per age in whole days, and every age that has expired is one age: `DELETE ...
WHERE t < DATEADD(day, -n, ...)` cannot tell more. `Delete` is one statement of the batched
loop, with the batch of either strategy; `SkipTable` the error path of `_prune_table`, which a
partitioned table always takes under `partition_switch`; `Trim` one folder of `prune_exports`,
which raises when a rival has removed it. A prune takes no lock, so any number of them meet each
other, the writers and midnight (`Tick`). `RecentRows` has rows, days and no retention; what a
reader asks for (`Window`) looks the same in both (`PruneInvisible`).

Three things the model shows are hazards and no promise: a schema that stays half made; a
table that is partitioned is never pruned by `partition_switch`, and `prune` exits 0 all the
same; the archive's folders bear UTC dates and are judged by local ones (`Late[Archive]`).

### ThresholdOverrides, ThresholdRules, Analysis

A category of thresholds is a block of keys, and `_deep_merge` puts an overlay's block into
the result by reference when the base has none. So `own[w]` holds the blocks a worker has
copied and `alias[w]`, for the others, whose block it looks at; a later layer writes to
whichever it is, and `overrides` is a variable because of that. `Intended` is the
documented precedence, stated without any merging.

`ThresholdRules` has one operator per rule, from an `AnalysisInput` and the effective
thresholds to a set of findings; a finding keeps category, severity, metric and object.
`None` stands for None, NULL and NaN, except in growth series, which hold numbers only (see
"Not modelled"). The projection works in whole numbers: the slope is
a fraction, the days are in tenths as `round(..., 1)` leaves them.

In `Analysis` one server, `Watched`, is measured: `Worsens` moves one measurement to a worse
notch, `Blocks` adds a blocked session, `Fills` adds a sample to a growth series. Workers
resolve and evaluate at any time in between; `graded` is the worst severity per category.

## Runs

| Run | Shows | Bounds |
|---|---|---|
| `tiers` | invocations of one tier never collect a server at once; workers find their own run; totals, status rows, exit status agree; closed runs gain no rows; `TierRun` implements `RunLedger` | 2 fast and 1 daily invocation, 2 servers, a pool of 1: a server waits in the pool while another fails, both tiers run at once, and the second fast one meets the lock or comes after the first. Two starting times, so that two of the three get a row in `mon.runs` and the third is skipped or fails; three rows are covered by `OwnRunFound`, `OverlapGuarded` and `LedgerKept`. A view leaves out `findings` and `paged`, which nothing reads but `live` |
| `live` | invocations end, locks are freed, failures are reported, no worker attaches to an older run | 2 invocations of one tier, 2 servers, a pool of 1, one dry run; failing servers, lost acknowledgements, lost sessions and kills. A clock that ties or steps back makes the run too long; it is covered by `AttachedRunCorrect` and `FailuresReported` |
| `newserver` | **violated**: two tiers meet a new server | 1 fast, 1 daily invocation, 2 servers |
| `paging` | at most one page per dispatcher within a cooldown window, but for faults that hide one; suppression is justified; the log is never ahead of the truth; a standing problem keeps paging; quiet hours against their meaning; routes hold only enabled channels | 2 dispatchers, 1 fingerprint, 3 channels of which 2 are enabled, a day of 3 hours, a cooldown of 2, all faults; batches that meet the severity and the category gate, page two channels, and hold one fingerprint twice |
| `store` | rivals leave a whole schema; no session outlives its attempt; a table left behind without an error is clean; readers never notice retention; what has expired goes | 2 processes that run any command by turns, one of them with `partition_switch`; a schema and 2 tables, one of them partitioned; up to 2 rows, batches of 1 and 2; horizons of 0 and 1 days, so that an age is within, at or beyond; one retry, one table lost to a fault per prune, and at most one midnight per prune |
| `ingest` | every deadlock is stored or forgone, none is sent twice, the watermark never goes back | a worker and a dry run by turns, 3 events, all faults: one event may be stored while the next is marked and a third yet to happen |
| `dryrun` | **violated**: a dry run writes | 1 worker |
| `pass` | a missing collector has a reason of its own and is listed; an interval is what the counter gained since the last stored sample; a lasting CPU load is graded for what it is | a plan of 3 collectors, one of them gated, 2 samples per average, counters up to 2, all faults |
| `gates` | nothing is sent that the instance cannot answer, but for the tempdb statement before 2012; a database costs only its own rows, in every collector; only the CPU ranking with the Query Store is collected twice; a database that stays is reached in the end | the seven instances of `Fleet`, patched and upgraded between passes; 3 databases, one excluded, one read-only, so that each loop has at least one database after the one that fails; the full plans of both tiers |
| `ranked` | **violated**: a ranking is collected by two collectors | the instances of `gates`, without a fault |
| `rules` | thresholds are each server's own; a worse server is never graded milder; projections lie between the rates observed; chain depths | 2 workers, 2 servers, 2 tags whose overrides meet, the notches of `MCAnalysis` at and on both sides of every threshold, series of 3 samples, 3 sessions and a walk of at most 2 |
| `leak` | **violated**: thresholds of one server reach another | the same without a default block for `blocking` |

The violated runs are disagreements between what a comment or the manual says and what
the code does; `PROJECT.json` quotes both sides under "findings". The
one about `tempdb_usage.sql` needs no violated run, since `OnlyTempdbRefused` states it.

### Fairness

`TierRun`: a process that was started keeps being scheduled, its main thread and each of
its workers (weak fairness of their steps): connects, queries, the lock request and the
HTTP and SMTP calls all carry timeouts, so each returns or raises. SQL Server eventually
ends the session of a dead client. No invocation need ever start and no fault need ever
happen, so nothing is shown by waiting for one.

`AlertRouter`: dispatchers keep coming, also outside quiet hours (the fast tier runs every
15 minutes); no channel, lookup or process fails every single time; there are moments
without a dispatch under way, time passes then, and so every hour comes again. `Slow = FALSE` is an assumption of
all runs: a dispatch takes seconds and the hour does not turn in the middle of it.

`DeadlockIngest`: daily runs keep coming and go on once begun; neither reading the event
file nor the MERGE fails every time.

`CollectorPass`: again and again a pass stores its CPU sample and one gets as far as the
evaluation, and the instance does not restart for ever. Each is needed: a pass that never
stores leaves the history as it is, and NULL percentages after a start are rows like any
other in `TOP (N)`, so that the average has nothing to say until they are out of it.

`Retention`: a command that was started goes on (every connect and statement has a timeout), the
scheduler starts prunes again and again, one of them not under `partition_switch` (strong
fairness of its choice, since every other command may come first), and faults do not go on for
ever. Nothing need be written, and midnights need not pass.

`VersionGating`: a pass goes on once begun, the daily tier keeps running, and not every
listing of the databases fails (strong fairness of a pass that lists them: databases come and
go, so it is not enabled all the time).

## Proofs

TLAPS proves, for any number of invocations, tiers, servers and pool threads:

- `TypeCorrect`: `TypeOK`, under every fault. Strengthened by `Attached`: whoever is past
  attaching without having failed has a run, which is what makes a status row well typed.
- `AttachedRunCorrect`: `AttachedRunNotOlder`, under every fault. Strengthened by
  `RowPhase`: an invocation that is past `start_run` has a row, so its own row is among the
  candidates when its worker looks for the newest.
- `OverlapGuarded`: `NoDoubleCollection`, provided no session is lost. The invariant is
  `LockHeld`: whoever is between the lock and the end owns its tier's lock and has a
  session. It is what a lost session breaks.
- `OwnRunFound`: `ReportsUnderOwnRun`, provided no session is lost and the clock neither
  ties nor steps back. The invariant is `LastStarted`: an invocation that is running has
  the strictly newest row of its tier.
- `BooksKept` and `ClosedRunsSealed`: `BooksAgree` and `FinishedRunsAreSealed`, under the same two
  provisos; `BooksKept` needs a third, that a statement that takes effect is acknowledged
  (`"ack" \notin Faults`). For the seal it is enough that a status row stands under the run of its own
  process (`OwnRows`). For the books the invariant says that it does and agrees
  with that process's result for the server (`Told`), that a server has no result before its worker
  returns (`UnsettledBefore`), and that a closed row holds the totals of a settled fleet
  (`TotalsWritten`). The counts agree because the rows of a run map one to one to its servers
  (`RowsCounted`).
- `FailuresReported`: `FailureReported`, provided no repository statement is refused; a lost
  acknowledgement may be what makes the failure. A worker that fails has then
  attached to a run (`Reported`).
- `LedgerKept`: `KeepsLedger`, provided no session is lost. It needs,
  next to `LockHeld` and `RowPhase`, that no server is settled before the fan-out
  (`UnsettledBefore`); each action of the main thread and of the workers is then a step of
  `RunLedger` or leaves its variables alone.

For any number of workers and events, and under every fault (`DeadlockIngestProofs`):

- `IngestTypeCorrect`, `NothingMissed`, `NothingSentTwice` and `WatermarkAdvances`, for
  `TypeOK`, `NoEventLost`, `NoDuplicateSent` and `WatermarkMonotone`. One inductive invariant
  carries them: only one worker is away from "idle" (`Alone`, which is the tier lock),
  a frame holds only events newer than the watermark its worker read, and that is
  the watermark as long as it has not marked (`Frames`); what is stored is never ahead
  of it, and the targets hold what no run has passed (`Sources`).

For any `AnalysisInput` of the right types and any thresholds (`RuleProofs`):

- `NoBetterNoMilder`: the rules are monotone. `NoBetter(i, j)` says measurement by measurement that
  `j` is no better than `i`; whatever `evaluate` finds in `i` is then answered in `j` by a finding of
  the same category that is at least as severe. There is one lemma per rule (`CpuAnswered`,
  `MemoryAnswered`, ...) and one per way a value is judged (`SeverityNoMilder`, `GradeNoMilder`, ...).
  Where a rule stops looking once a stricter one speaks (the node's page life expectancy), the
  lemma shows that the stricter one stays.

For any servers, tags, overrides, workers, inputs, notches, growths and bounds (`AnalysisProofs`):

- `TypeCorrect`: `TypeOK`, by `TypeInv`, which adds that a worker that is merging has a layer left.
  That the days of a growth series stay in order when one is added, or the first one dropped
  (`SampledType`), and that every way to get worse leaves an input the rules can be evaluated on
  (`WorsensStep`) are part of it.
- `OwnThresholdsKept`: `OwnThresholds`, provided that no category missing from the defaults is
  set by two layers of one server (`NoneShared`). Layer by layer, a worker's own blocks are the
  intended ones (`OwnSoFar`, by `BlockStep`, which peels the last layer off the intended
  block) and each of its other blocks belongs to the one layer that sets it
  (`AliasSoFar`); no merge then writes to the overrides. The shipped `thresholds.yml`
  satisfies `NoneShared`; without it the run `leak` shows what happens.
- `NeverGradedMilder`: `SeverityNeverFalls`, under `NoneShared`. The invariant is `Standing`: nothing
  is graded more severely than the input of the moment deserves under the intended thresholds.
  It holds because a worsening satisfies `NoBetter`, because the rules are monotone, and because a
  worker that evaluates has the intended thresholds. Without `NoneShared` a worker could grade with
  another server's limits, and a later one more mildly with the right ones.
- `ProjectionsBracketed`: `ProjectionBracketed`, for growth series of any length. What bounds the
  rate of every two neighbouring samples bounds that of any two (`EveryPair`), and the least-squares
  slope is an average of those, weighted by the squares of the days between (`SlopeBeyond`); rounding
  costs half a tenth of a day (`RoundedBounds`).
- `ChainDepthsCount`: `ChainDepthCounts`, for any blocking graph, cycles included, and any limit of the
  walk (`ChainDepthExact`): what the walk has seen is the part of the way to the head that comes
  first, so it has the whole of it when it stops by itself.

For any fleet within `Matrix`, any databases and any patching (`VersionGatingProofs`):

- `TempdbAloneRefused`: `OnlyTempdbRefused`. The invariant adds that the features of a pass are those of the
  instance (`Fresh`), which is why they are probed anew each time. `GateSuffices` is the heart of
  it: a collector that the features let through, tempdb's apart, chooses a file whose objects are
  offered; `TempdbAnswered` says when the tempdb statement is. Per-database collectors never fail as a whole, whatever their files use.
- `DatabasesIsolated`: `DatabaseIsolated`. A target is pending, through or noted (`LoopInv`), and of the
  database a collector is at, the rankings sent so far are there (`AtInv`). That only offline
  databases are noted rests on `GateSuffices`: the statement itself can always be answered.
- `TypeCorrect`: `TypeOK`, outside `Matrix` too.
- `RankingsKeptApart`: `RankingsDivided`. The rows of a pass all belong to one source, but for the ranking by
  cpu, and whoever had its turn on the plan cache has brought what it owes (`RankInv`, on the
  daily plan as `DailyPlan` reads it).

For any plan and gate, any budget, and under every fault (`CollectorPassProofs`):

- `TypeCorrect`: `TypeOK`; an interval is never negative.
- `FailuresIsolated`: `FailureIsolated`. In the loop the collectors before the current one are
  accounted for and nothing is said yet of the rest (`IsolInv`); that the plan names no
  collector twice is needed.
- `IntervalsHonest`: `IntervalHonest`. The stored counter and what was done since make up the one
  that runs, and after a restart that one is no more than what was done since (`BookInv`).

For any dispatchers, fingerprints, routes and tags, and under every fault (`AlertRouterProofs`):

- `TypeCorrect`: `TypeOK`, which says that a router that is sending has somewhere to send to.
- `LogHonest` and `SuppressesOnlyThePaged`: `LogNotAhead` and `SuppressionJustified`. The invariant
  adds that a router about to write a successful row has delivered its finding within the hour
  (`Recorded`); the suppression then follows from the age in the log, which is no less than the
  true one.
- `PagesBounded`: `BurstBounded`, for a finite number of dispatchers and routes that name no channel
  twice (`NoChannelTwice`: a route `[email, email]` pages twice, as the code does). The invariant
  keeps books per fingerprint and channel (`Book`): while the last page is fresh, the pages made and
  the routers that still have one to make (`Ahead`) never outnumber the routers, and as long as none
  is logged the pages are one per router about to log (`Unlogged`). It is inductive because no
  router is both, and because whoever decides after a row is written is held back.
- `QuietByTheHour`: `QuietWindow`. The arithmetic of the clock, over midnight too, is
  `WindowByTheClock`.

All but the first assume `~Slow`, that no dispatch is under way when the hour turns; with it a
router could log, or judge the quiet hours by, an hour that has passed.

For any script of the schema, any number of processes and of retries (`RetentionProofs`, first part):

- `StartupTypeCorrect`: `StartupTypeOK`, with the sessions each place allows.
- `BootstrapComplete`: `SchemaUnspoiled`. The invariant is that no bootstrap has come further than
  one past what is made (`InOrder`), and that a schema begun and not finished has a bootstrap that
  makes the next object, unless a fault ended one (`Led`).

For any tables, horizons, batch sizes and number of prunes, and under every fault
(`RetentionProofs`, second part):

- `StartsUp`: `Retention` implements `StartupSpec`, so `SchemaComplete` and the types of `Startup` come
  for free; `TypeCorrect` adds the counts.
- `LeftClean`: `PrunedClean`. It needs that only a prune is past its first table (`Walking`), and that
  no step but midnight makes a table less clean (`StaysClean`), rivals' deletes included.
- `PruneUnseen`: `PruneInvisible`, the refinement of `RecentRows`. Every step changes one count
  (`CellSeen`): beyond all windows when rows are deleted, inside one when they are written. The
  assumption is `HorizonAssumption`: no reader looks further back than rows are kept.

The constants' assumptions are those stated in the modules: `TierRun` (finite non-empty
fleet, at least one pool thread), `DeadlockIngest` (dry runs are workers), `AlertRouter` (routes name known channels; a window of hours),
`ThresholdOverrides` (thresholds are dictionaries of dictionaries, tags are not servers),
`ThresholdRules` (`None` is neither a number nor a severity), `Analysis` (inputs, notches and thresholds
have the types of `InputType` and `LimitsType`; the sampling gaps are positive days),
`VersionGating` (finitely many databases; what an instance is), and `Startup` and `Retention` (the
script names its tables; readers' windows lie within the horizons).

What the rules compute goes by recursion over a history: a sum, a walk. The induction theorems of
the library take an operator and cannot be used here. `RuleProofs` argues by the least number
instead (`Least`: a set of naturals that is not empty has one): the first prefix on which a claim
fails cannot be the empty one, and the recursive equation, which holds because a function that
satisfies it exists, carries the claim over from the prefix before. This is why `SumOf` and
`ChainDepth` are recursive functions.

Every invariant, action property and refinement that a run checks is the subject of a theorem.
Only model-checked are the liveness properties, since neither fairness nor ENABLED is within reach of
the provers: `RunEnds`, `LockFreed`, `StandingProblemPaged`, `EveryDeadlockStored`, `SteadyLoadGraded`,
`DatabaseReached` and `ExpiredGone`. The four violated properties are what TLC refutes, and there is
nothing to prove of them.

## Not modelled

Layout of messages and reports, parsing of YAML, XML and command lines, the column
mapping of the collectors, the files inside the Parquet archive, packaging. Index maintenance
(`rebuild_repository_indexes`) changes no row. `TierRun` takes the schema to exist; `Startup` does
not. A growth series is taken to hold numbers: a NULL `used_mb` next to numbers is read back
as NaN, which passes `is not None` (`runner.py:348`, `derive.py`) and comparisons alike, and ends
as a warn finding with nan days; the theorems about projections do not speak of such a series.
That a schema left half made by a failed bootstrap is never completed is not excluded by
`SchemaUnspoiled`, which excuses it (`spoiled`). That `prune_batch_rows` and the horizons are positive is an assumption: the settings are not
validated. The bit width of counters never matters: they count servers.

## Plan

1. `TierRun`, `RunLedger`, `AlertRouter`, `DeadlockIngest`; the proofs about `TierRun` and
   `DeadlockIngest` (done).
2. `CollectorPass`: gating, the time budget, failing collectors, partial persistence (done).
3. `ThresholdOverrides`, `ThresholdRules`, `Analysis`, and the proof about overrides (done).
   The proofs about the rules and about `Analysis` (done).
4. `VersionGating` and the proofs about it and about `CollectorPass` (done).
5. `Startup`, `Retention`, `RecentRows` and the proofs about them (done).
6. The proofs about `AlertRouter` (done).
7. The promises of `query_store.py` and of the specification about gating, where the code falls
   short of them: `ranked`, `OnlyTempdbRefused` (done). Lost acknowledgements in `TierRun` (done).
