# A TLA+ development of the Plunet production metrics backend

This directory holds TLA+ modules that model the backend under `src/backend/app`, TLC
configurations that check them on small instances, and theorems that TLAPS proves for every
value of the constants. `PROJECT.json` lists the components, the runs, the mutants that show
each property can fail, the source lines every definition stands for, the hazards and the
theorems.

## 1. Inventory

The program is one FastAPI backend (Python, SQLAlchemy, PostgreSQL at READ COMMITTED), a
Next.js dashboard that polls it, and three background pipelines. All durable state is in the
database; the processes keep only the locals of their threads, the scheduler and two small
status registers.

| Component | State it keeps | Operations | Hard behaviour |
|---|---|---|---|
| Nightly pipeline (`services/sync_pipeline.py`) | one `sync_log` row per run, the phases in its `details_json` | resolve orphans, create row, collect GitLab and Jira, four derivations, snapshots, finish, exception handler | some fifteen short transactions per run; overlap with other runs, death between any two of them |
| Process life cycle, scheduler (`main.py`, `scheduler.py`) | threads, APScheduler jobs | start, reconcile, fire, stop | restart in the middle of a run; several starters of one pipeline |
| Admin triggers (`api/admin_*.py`) | none, or a status register under a lock | start a daemon thread | no mutual exclusion with the scheduler or with each other |
| Status endpoint (`services/sync_status_service.py`) | none | read `sync_log` | guesses from times whether a running row is alive |
| Webhook (`services/webhook_service.py`) | none | one POST | sent after the commit, errors swallowed |
| Snapshots (`services/snapshot_service.py`) | `metric_snapshot` | delete and insert per repository and window, one commit | no unique key; concurrent refreshes |
| Allocation (`jira_analytics/allocation`) | `monthly_topic_effort_base`, `monthly_allocated_effort` | rebuild some months | six callers, two unrelated locks |
| Jira analytics sync (`jira_analytics/sync_pipeline.py`, `collector.py`) | warehouse tables, one `sync_log` row | ingest, workflows, membership, allocation | errors inside phases, row created before the try block |
| HRworks sync (`hrworks/`) | roster, monthly hours, one `sync_log` row | ingest month by month, allocation of changed months | commits per month, partial errors |
| GitLab collector, Jira bug collector | releases, merge requests, bugs, worklogs | fetch everything, upsert, reconcile, one commit | guards against mass deletion, stale derived columns |
| Derivations | bug-release links, fix releases, lead times | recompute | run from data of the same run, or of an overlapping one |
| Metric formulas, period windows | none | medians, rates, windows | boundaries, empty sets, rounding |
| Feature membership, families, workflows, status intervals | derived tables | recompute | cycles and orders in a graph, overlapping intervals |
| User assignments | role assignments with validity ranges | insert, split, close | overlapping or missing ranges |
| Configuration | one row, environment | load, update, reschedule | precedence, jobs out of step with the row |
| Reports, audits, drilldowns, public metrics, raw tables, data health | none | read | arithmetic only |
| Authentication, people data | session cookie, password rows | login, logout | sequential |
| Frontend, migrations, scripts | none of the system's | render, migrate | outside the running backend |

Interaction: the pipelines and the admin endpoints meet only in the database. There is no
message queue; a run is known to others only by its `sync_log` row. The process start is the
one moment at which a process changes rows that it does not own without being a run.

What makes each correct:

* a run's row tells what the run did, and keeps telling it whatever repairs are made;
* a repair declares a row crashed only when nobody works on it;
* snapshots and monthly effort are derived from one consistent state of the data, once;
* a reader of the status endpoint sees work that is going on and no work that is not;
* every row that says "running" is resolved at last;
* the pure algorithms agree with their definition at every boundary.

## 2. Plan

Done, in the order of importance:

1. `NightlySync`, `SyncRegister`, `SyncStatus` with proofs: the core (section 3).
2. `SnapshotRefresh`: delete-and-insert under READ COMMITTED, with the dashboard as its reader,
   and proofs (section 5).
3. `AllocationRebuild`: concurrent rebuilds, their locks and status registers, with proofs
   (section 4).
4. `SyncPipelines`, the HRworks and Jira analytics pipelines with their rows, and the collectors
   under the three pipelines: `PagedFetch`, `DoraWarehouse`, `BugHealth`, `HrworksData`,
   `HrworksPeriods`, `JiraIngest` (section 6).
5. Reference data and what is derived from it: `UserAssignments`, `FeatureMembership`,
   `WorkflowSync`, `StatusAnalysis`, `AllocationShares` (section 7).
6. Figures and reports, read along two ways: `Metrics`, `ReleaseViews`, `FeatureReports`,
   `EffortReports` (section 7); and `Configuration`, the settings and the jobs (section 8).

The modules of 4 to 6 share one run with `SnapshotRefresh`: `MCBackend` puts an instance of each
side by side (section 9).

Theorems: every safety property of the runs on `NightlySync`, `SyncStatus`, `AllocationRebuild`
and `SnapshotRefresh`, with the action properties and the refinement (sections 3 to 5); those of
every module of the `backend` run that collects or keeps data: `SyncPipelines`, `DoraWarehouse`,
`HrworksData`, `HrworksPeriods`, `JiraIngest`, `PagedFetch`, `BugHealth`, `WorkflowSync` (section 6),
`UserAssignments`, `FeatureMembership`, `FeatureReports` (section 7) and `Configuration` (section 8);
and of those that compute: `AllocationShares`, `EffortReports`, `StatusAnalysis` and the windows of
`Metrics` (section 7).

Left, further theorems: the figures of `Metrics` (`FiguresAgree`), the lists of `ReleaseViews`, and
the order of the lines of a table of `StatusAnalysis` (`RowsAreWhole`).

## 3. The core: the nightly pipeline

### Modules

* `NightlySync` is the pipeline with everything that starts, repairs or kills its runs. A run
  is a record: `at` and `stage` are its program counter, the other fields are the local
  variables of `run_nightly_sync` (`gitlab_ok` and `jira_ok` together are `ok`,
  `pipeline_runtime` is `phases`, `snapshots_written > 0` is `published # "no"`). `log` is
  `sync_log`, one row per run; `instance` is the life cycle of a backend process;
  `fresh` is the set of derivations that have been run since the collected data last changed.
  Every action is one database transaction with the in-memory work before it. Its disjunct
  `Raise` or `Abandon` is the same transaction failing, inside or outside the try block.
* `SyncRegister` is what `sync_log` promises to its readers: opened once, closed once by its
  run, declared crashed only when nobody works on the row.
* `SyncStatus` adds the view of the status endpoint, as operators over `sync_log`.
* `MCNightlySync` instantiates them; `NightlySyncProofs` holds the theorems.

### What is abstracted

Texts, durations, counts of records and the payload of the webhook are left out: no branch of
the pipeline depends on them. Time is a clock that may stand still between any two steps, so
ties of timestamps occur. Each derivation and each collector is atomic, as its single commit
makes it; a collector that fails commits nothing. A commit is either done or raises: a commit
that succeeds on the server while the client sees an error is not modelled. The repair's two
UPDATE statements are one transaction and are taken as atomic; under READ COMMITTED another
commit could fall between them, which would only let the second see a later "latest end". The
repair's first UPDATE also touches rows of the other two pipelines, which this module has not.
`refresh_snapshots` is taken to write at least one row (there is an active repository).
Snapshots published by a run in which only one collector succeeded are computed without new
derivations; the tests ask for exactly that (`test_scheduler_and_sync_pipeline.py:110`), and
such a run ends as `partial_failure`.

### Runs

| Run | Instance | Shows |
|---|---|---|
| `nightly_overlap` | 2 runs, 1 process, manual trigger, a token for GitLab that may be missing, database failures, derivation 2 may raise, clock to 2 | what a row says of its own run is coherent whatever overlaps: phases form a prefix of the pipeline and snapshots are gated (`PhasesAreSound`), the verdict agrees with the phases and the webhook with the verdict (`OutcomeIsTold`), a verdict is never rewritten, and a row that is declared crashed for its age and revived by its run keeps sane times (`RowTimes`) |
| `nightly_crash` | 2 runs, manual trigger, 1 process that may die and restart anywhere, clock to 2, fair | the endpoint shows no phantom run and does not forget the last success; every run ends and, if the process stays up, every running row is resolved (`RunsResolve`) |
| `nightly_serial` | 2 runs, 1 process, no manual trigger, crashes and database failures, derivation 1 may raise, clock to 3 | no working run is declared crashed, repaired rows keep sane times over crash and restart, success means derived snapshots, the endpoint shows work and its last success is the latest (`StatusIsTrue`), `sync_log` implements `SyncRegister` |
| `nightly_superseded`, `nightly_underived`, `nightly_unsettled`, `nightly_hidden` | 3, 2, 1, 2 runs | four sentences of the documentation and comments that the code does not keep (below) |

Bounds. Two runs are enough for one run to disturb another, and for a run to be preceded by a
crashed one; the superseded case needs a third that starts while one works and one has ended.
The clock starts at 1. In `nightly_overlap` and `nightly_crash` it goes to 2 and
`OrphanAge` is 0, so that a run of the first tick is declared too old in the second, by another run
while it is at work or after a crash, and may end all the same. In `nightly_serial` it goes to 3
with an `OrphanAge` of 1: a row may be young, superseded or too old. `RowTimes` is checked in the
first and the last of them, one for rows revived by their runs and one for crashes and restarts.
`MaxTime` bounds the clock, never the steps of a run. The derivations allowed to
raise are one in each run (a different one), because the four are alike; TLC explores both
outcomes and all later ones.

Fairness. `WF(RunStep)` for every run: a thread that can take its next step takes it, because
every external call has a timeout and database sessions are short. `WF(ProcessStep)`: a process
that was started reaches its scheduler. No fairness is assumed of triggers, the clock, crashes
or failures. For the rows, `RunsResolve` further assumes that eventually the processes stay up:
without it nobody is left to repair one.
The run has no database failures: a failure before the try block leaves a row `running` until a
process starts or a run begins after four hours, and nothing obliges either to happen, so nothing
is claimed of such a row.

### Disagreements found

* `nightly_superseded`: the repair's message says that a later run finished and this one was
  abandoned; with a manual trigger a working run is marked so.
* `nightly_underived`: snapshots gated "so stale or partially-derived relationships are not
  published": the gate does not see the data that another run has collected meanwhile.
* `nightly_unsettled`: "each phase transitions through pending, running, and a terminal state":
  the phase that raised stays `running` in a closed row.
* `nightly_hidden`: the status endpoint hides a run that still works when an overlapping older
  one ends.

### What is proved

`NightlySyncProofs` proves, for any set of runs and processes, any faults, tokens, flaky
derivations and times:

* `TypeCorrect`: `Spec => []TypeOK`.
* `OwnOutcomeFinal`: `Spec => OwnOutcomeIsFinal`. The invariant behind it is `LifeInv`: before
  its creation a row is absent, and while its run works on it the row is running or has been
  declared crashed; hence a closed row belongs to nobody who could write it.
* Under `Serial` (no manual trigger, at most one process): `NeverFalselyCrashed` and the refinement
  `LogIsRegister`, both over `RunsExclude` (`max_instances=1` keeps runs apart). The invariant is
  `SerialInv`: runs exclude each other, a live run is a scheduled run of a process that is up, and
  its row is running. Mutual exclusion alone is not inductive: firing looks at the scheduled runs of
  its own process only, and a repair at the start must know that no run is alive.

The argument goes over `StepEffect`: every step is quiet (it only repairs rows), kills the
threads of a process, starts a run, or has one of five effects on one run (`Effect`).

On what a row, the webhook and the status endpoint say it proves:

* For every deployment, manual triggers and several processes included: `PhasesSound` and
  `OutcomeTold` from `StoryInv`, which relates the phases in the memory of a run to those in its
  row and both to its program counter; `RowsTimed` from `TimesInv` (no row starts in the future, so
  that no repair can end it before it started); and the action property `FreshnessIsKept`, because no
  step rewrites a row that says success.
* Under `Serial`: `SuccessIsDerived` from `DerivedInv`, by which a run behind its derivations finds
  them all fresh unless it has noted a failure; and `StatusTrue` from `NewestInv`: the row of a
  run at work is the newest, so that nothing hides it.
* Under `OneHealthyProcess` (one instance whose database answers and whose start reconciles; any
  triggers): `NoPhantom` from `PhantomInv`, by which a running row without a thread has a process
  that is down or about to reconcile. The run that checks it is of this deployment.

The constants' assumptions are those of `NightlySync`. `RunsResolve` is a liveness property and is
model-checked only.

## 4. Monthly allocation

### Module

`AllocationRebuild` models `rebuild_monthly_allocation` as what it is, one transaction at READ
COMMITTED, together with its callers: the admin endpoint and the report endpoint for all
months, each with its own lock and status register (`register`), the endpoints for one month,
and the last phases of the HRworks and Jira analytics pipelines, which take no lock. A rebuild
is a record of `job`: its program counter, the months left (`todo`), the rows its current
DELETE has seen (`seen`), and what it has deleted and inserted but not committed (`drop`,
`made`). `table` holds the committed rows of `monthly_topic_effort_base` ("topics") and
`monthly_allocated_effort` ("effort"). `met` is history only: which transactions were open
together.

For each month, `StartDelete` takes the snapshot of a DELETE, `EndDelete` waits for row locks
and deletes what is left of the snapshot, once per table; `Derive` is `_refresh_topic_base`,
`Allocate` is `_allocate_period`, which reads the topic rows it can see, its own or not.

What is abstracted. The rows that one rebuild derives for one month are one element: the pair of
the rebuild that wrote it and the rebuild whose topic row it was computed from; hours, roles
and percentages are left out. A month has worklogs, so that a rebuild derives at least one
topic row of it. A DELETE obtains the locks of all the rows it has seen at one moment; two
DELETEs that lock the rows of one month in different orders are left to PostgreSQL, which would
fail one of them (`Fail`). Reads of worklogs, assignments and rules come before any write and
are left out. An "all months" request without a guard is one of the HRworks requests.

### Runs

| Run | Instance | Shows |
|---|---|---|
| `allocation_overlap` | 3 rebuilds, 2 months, four kinds of caller, crashes and failures | duplicates need transactions that were open together; each register is a lock; no topic row is without effort; no month is ever seen empty; rebuilds never wait in a circle, because every caller sorts its months; and in the behaviours in which all rebuilds go through one register, a month is the work of one rebuild |

Two overlapping rebuilds do duplicate a month: each DELETE misses the rows of the other. The
repository claims nothing about this, so no run states its absence; `DuplicatesNeedOverlap`
says exactly when it can happen, and `OneBatch` that it cannot through one register. Three
rebuilds let two overlap and a third come after, which cleans up: a DELETE sees all committed
rows. They are also what a circle of waits needs, the first to commit the rows whose locks the
two others want. No liveness is claimed: PostgreSQL ends a wait in a circle by an error, so that
a rebuild would end in any case, and `NoCircle` says more, that none is ever ended that way.

### What is proved

`AllocationRebuildProofs` proves every safety property of the runs, for any number of rebuilds
and months: `AllocationTyped`, `DuplicatesOverlapped`, `EffortIsComplete`, `MonthsNeverEmptied`,
`RegistersLock`, `OneRegisterOneBatch` and `NoCircleOfWaits`. The inductive
invariant `Inv` has a part per transaction (`JobInv`) and a part for the committed rows:

* `Shape`, `Pending`: what is deleted and inserted follows the program counter (`Cleared`,
  `Allocated`);
* `Meetings`: transactions that are open now have met;
* `CommittedPast`, `SeenPast`: rows are visible to others only after their writer has ended;
* `Late`: a committed row that an open transaction has not seen or deleted was committed by one
  that it has met, which is why duplicates need overlap;
* `Recomputed`: where a transaction deleted effort of a topic row that stays, it has computed
  that effort again, which is why no effort is lost at its commit.

`TopicsAreAllocated` is not inductive without `Recomputed`, nor that without `SeenPast`.
`OneBatch` follows from the others: through one register no two rebuilds ever meet
(`NeverMet`). `NoCircle` needs one more invariant, `Ordered`: the months a rebuild has done come
before those that are left, so that it waits only for rebuilds that are at a later month or at
a later table of the same month (`WaitsForLater`), and a finite circle would have a greatest
element. `Month` is a minimum; that a nonempty set of naturals has one (`LeastNatural`,
`NaturalSets`) is proved from the well-foundedness of strict inclusion on finite sets. The
assumptions are those of `AllocationRebuild`.

## 5. Metric snapshots

### Module

`SnapshotRefresh` models `refresh_snapshots` as one transaction at READ COMMITTED, the run of the
pipeline around it as far as the refresh depends on it, and the three statements with which the
dashboard reads its current metrics.

* `run` is a run and its transaction: the order in which the repositories came out of the SELECT
  (`order`), the period windows (`windows`), the position (`place`, `window`), the metrics read
  so far (`mttr`, `lead`), the rows the current DELETE has seen (`seen`), and what is deleted and
  added but not committed (`drop`, `made`). `Collect` stands for everything before the gate: it
  changes the collected data (`version`) and may make repositories known.
* `Plan` fixes repositories and windows, `Repair` reads one window's mean time to repair,
  `Measure`, `StartDelete` and `EndDelete` make one row, `Commit` publishes. The session has
  `autoflush` off, which is why added rows reach the table only at the commit.
* `snapshot` is the committed `metric_snapshot`; `request` is a reader between its statements;
  `met` is history only, as in section 4.

What is abstracted. A metric is the version of the data it was read from; what the formulas
compute and the calendar are `Metrics` (section 7): windows are numbers, the present day lies in
window `today`, and may be the last day of it. A row is read by about eight statements; the
model keeps two of them, the lead times and the last one, which counts them. A DELETE obtains the
locks of all rows it has seen at one moment, as in section 4. The detection of circles of waits
is PostgreSQL's (`BreakCircle`, external). A run that fails, whether by an exception or the end
of its process, is rolled back and does no more; which row it leaves in `sync_log` is section 3's
subject. The program goes through the windows of several period types, one type after the other
and always in the same order; the model has the windows of one type. The two mean times to repair
of a window are read in one step.

### Runs

| Run | Instance | Shows |
|---|---|---|
| `snapshots_overlap` | 3 runs, scheduled and manual, 2 repositories, 2 windows of which the present one is covered, database failures; `TwoRunsAcrossDays` bounds it: on the first day the repositories become known at once, and behaviours that go on to the second day have 2 runs | a window is stored twice only by refreshes that were open together; no window disappears; refreshes wait in a circle only when the SELECT returned the repositories in different orders |
| `backend` | 2 scheduled runs, 2 repositories, 3 windows of which 2 are covered, a reader, database failures | without a manual trigger no repository counts twice in a window, published rows are of one version of the data, and what the reader has listed it finds |
| `snapshots_duplicate` | 2 runs, 1 repository, 1 window | two refreshes that overlap store a window twice (below) |

Three runs let two overlap and a third replace what both left. A circle of waits needs rows
committed before, by the first run, and two repositories; the overlap run covers one window at a
time because rows of one repository are taken from the oldest window to the newest by every run;
that several windows add no circle rests on the theorem `CircleReorders`, not on this run. The
`backend` run (section 9) moves the day further, so that windows drop out of the lookback and new
ones appear, and so that the reader sees windows with and without stored rows. No fairness is
assumed and no liveness stated: that a run ends is section 3's subject.

### Disagreement found

* `snapshots_duplicate`: "Delete the existing snapshot" and "Insert a fresh row": two refreshes
  that overlap do not see each other's rows, and the table has no unique key. The dashboard
  sums the samples of both until the next refresh.

### What is proved

`SnapshotRefreshProofs` proves, for any number of runs, repositories, windows and readers and any
faults: `SnapshotsTyped`, `DuplicatesOverlapped`, `WindowsNeverVanish` and `ListedWindowsFound`;
and when no run is started by hand (`ScheduledOnly`): `StoredOnce` (one row per repository and
window, the very statement that `snapshots_duplicate` refutes for manual triggers), `CountedOnce`
and `PublishedAtOnce`. The inductive invariant `Inv` has for each run

* `Shape` and `Fresh`: the position of the refresh, and that it adds at most one row for each
  window of a repository, which holds because repositories are distinct in `order` and a window
  is taken only when it is not yet written;
* `Covering`: for every row it deletes it adds one of the same key, hence `WindowsStay`;
* `Late`: a committed row that it replaces without deleting it was committed by a refresh that
  was open with it, hence `DuplicatesNeedOverlap`; `Meetings` makes `met` symmetric;

and for each request `Listed`: a listed window has rows until they are loaded. Without a manual
trigger, `AloneInv` says that runs exclude each other and nobody ever meets; then `Even` relates
every metric read so far to the version of the data, which only a live run changes. The
assumptions are those of `SnapshotRefresh`; the exclusion of scheduled runs is that of one
backend process.

`CircleReorders` (`CircleNeedsReorder`) holds in every deployment. Its invariant `PositionInv` says
that a refresh takes the known repositories in one order and the windows of each ascending, and
that every row it has deleted lies behind its place. If all refreshes that wait had the same
order, the one that is furthest would wait for a row behind its own place; the furthest exists
though runs and repositories are unbounded, because strict inclusion of finite sets is
well-founded, and an order that covers all known repositories is widest.

## 6. Collection

### Modules

* `SyncPipelines` has the HRworks and the Jira analytics pipeline. `row` is the status of a run's
  row in `sync_log`, `old` the runs whose row is older than the repair waits, `thread` the
  program counter and the memory of a run (errors, whether anything was processed, the touched
  months). `written[m]` are the runs that changed the data of month m, `included[m]` those whose
  changes the monthly effort of m contains. Every action is one transaction: a row, one person
  (`CommitPerson`), the issues, workflows, memberships, the rebuild, the verdict. `Repair` is the
  nightly repair, which asks for no source and is therefore what closes these rows too.
  `SuccessIsAllocated` relates the verdict to the effort through commits month by month, partial
  errors and repairs; `RowsAreClosed` is its liveness.
* `PagedFetch` reads one collection of a remote service page by page while it changes there and
  requests fail: by page numbers until a short page, by offsets until a total, or by tokens, as
  each of the four clients does it; with the attempts of tenacity and the login of HRworks, whose
  attempts are nested. A service may send fewer items at a time than it is asked for (`cap`), for
  every reader. `FetchIsComplete`: what was there all the time is received, but for one item for
  each that was removed; nothing twice if nothing changed; the number of calls is bounded. It does
  not hold of a reader that takes a short page for the last one when the service caps its pages
  (`StopsShort`): that one has the first page, nothing tells it from a small collection, and
  `DoraWarehouse` therefore takes any subset of the tags and requests for an answer.
* `DoraWarehouse` has the tables of one repository from night to night: releases, merge requests,
  bugs, their links and the columns derived from them, while tags, titles and issues change and the
  lookback moves. `CollectGitLab` and `CollectJira` are one transaction each, a derivation too, and
  any of them may fail. Sessions have `autoflush` off (`database.py:27`) and the upserts only add:
  the reconciliation, the first commits and the mapping of a run find the rows of earlier commits,
  as the run has changed them, and none that it has added. A new request is dated and mapped a run
  later, and no request to a release that its own run has added. `DoraConsistent`: recent merge
  requests name stored releases that came after the merge, a QA date belongs to the issue named now,
  and after a clean night links and fixes match the names. `ReleasesAreKept` is what a collection
  keeps: a release where there was one, half as many as before once the guard applies, and a release
  for every request that could be mapped with what was known before.
* `BugHealth` is the verdict on a bug from its data and its parent's, and the first day of QA from
  a changelog that the search cuts off. The verdict is checked against a definition by evidence.
* `HrworksData` has the cached roster, the list of denied persons, Jira users that appear later,
  and the monthly hours: denied persons are not asked for, hours belong to the user they are
  stored for (`HrworksSafe`), and a refresh never empties the roster (`KeepsRoster`).
  `HrworksPeriods` computes the months of a run over turns of the year and negative settings.
* `JiraIngest` is the transaction of the Jira analytics collector over all issues of a search, with
  moved and reused keys, parents and relations that arrive late, and the rollback at an issue that
  fails. `session` is the transaction's view, `table` the committed one. `JiraConsistent`: keys
  and ids stay unique at every statement, links lead to the issues they name, no issue is stored
  by half, and a run without errors has stored all it saw.

### What is abstracted

Of the services only the order of items and which of them exist is kept. Days are numbers. The
HRworks addresses are taken as normalised to the company's domain. Rows of several repositories do
not meet in the collector, so there is one. Commits may be dated after the merge, and tags before
it. Custom fields, users, projects and the details of `sync_log` are left out. In `SyncPipelines` a
rebuild is one step and its transaction is open before it; what overlapping rebuilds do is section
4's subject, so `SuccessIsAllocated` speaks of runs whose rebuild met no other.

### What is proved

* `SyncPipelinesProofs`, for any number of runs and months: `PipelinesTyped` and
  `AllocatedAfterSuccess` (`SuccessIsAllocated`), assuming that a run is one of one pipeline
  (`Apart`). The property is not inductive; `AllocatedInv` adds that the HRworks pipeline remembers
  every month it has committed until its rebuild (`Remembered`), that a rebuild that was alone has
  read the changes of its run and is still alone (`ReadOwn`), and that every rebuild that is open
  when a run is through has read its changes as well, so that it cannot write an older effort
  afterwards (`Settled`).
* `CollectorProofs`, of `HrworksData`, for any persons, users, addresses and months: `HrworksTyped`,
  `HoursAreOwn` (`HrworksSafe`) and `RosterStays` (`RosterNeverEmptied`), assuming that ids and
  months are numbers (`Numbered`) and that an entry of the roster is not the missing one
  (`Distinct`). `HrworksInv` carries the address of a person from the lookup through the cached
  roster (`RosterBelongs`) and the pairs a run has still to ask for (`TodoBelongs`) to the stored
  hours.
* `DoraWarehouseProofs`, for any tags, requests, bugs, lookback and number of nights:
  `WarehouseTyped`, `WarehouseConsistent` (`DoraConsistent`) and, for finitely many tags,
  `ReleasesStay` (`ReleasesAreKept`). `DoraInv` adds to the property that a request waits from its
  merge to the day of its tag, also when the tag is gone (`RowsDated`), without which the earliest
  fix of a bug need not exist, and what holds between the steps of a night without failures
  (`NightIsRight`). It assumes that days are numbered (`DaysCounted`), that Jira's dates are days or
  missing (`IssuesDated`) and that a stored row is not the missing one (`RowsAreRows`).
  The module also holds the theorems of `Metrics` (section 7).

`CollectorProofs` also holds the theorems of five modules without a run of their own, each under a
named assumption on the constants:

* `JiraIngest`: `IssuesTyped` and `IssuesAreConsistent` (`JiraConsistent`), assuming that the search
  answers finitely many issues whose keys differ and that no row is the missing one (`Searchable`).
  The session is related to the committed table through every statement of the transaction: what
  one issue has renamed, another may still refer to until it is read itself.
* `PagedFetch`: `FetchesTyped` and `FetchesAreComplete` (`FetchIsComplete`), for any collection, page
  size, caps of the service and number of attempts (`Sized`). The invariant counts, for a reader at an
  offset, how many items that lasted lie before the offset and have not been received: each removal
  adds at most one.
* `WorkflowSync`: `WorkflowsTyped`, `WorkflowsAreSound` and the action property `MappingsAreKept`,
  assuming that chunks are sets of projects (`Chunked`).
* `BugHealth`: `BugsJudged`, assuming that bugs are records as the collector reads them
  (`BugsDescribed`). The first day of QA of the whole changelog is the least of a set, found by
  well-foundedness.
* `HrworksPeriods`: `MonthsCovered`, for all days and settings (`Bounded`: months from 1 to 12, and a
  bound `Longest` on the months of one run that no setting exceeds). A month has a number; each step
  over the calendar adds one to it, by induction on the number of steps.

The guard against mass deletion compares the tags of the answer, new ones included, with the
releases of earlier commits. It does not bound what is deleted: of 11 releases an answer of five
tags, one of them new, deletes seven. What it bounds is what is left, and `LeavesHalf` says that.

### Disagreement found

* `bug_labels`: "IF any Jira label contains substring \"test\": pre-production": the search does not
  ask Jira for labels, so the gate never applies and the bug is judged by its versions and
  customers (`jira_bug_collector.py:697-711`, `jira-production-bug-filter-decision.md:46-48`). The
  run's instance has one bug at a time with every combination of a label, versions, customers and
  the Exalate flag.

## 7. Reference data, figures and reports

### Modules

* `UserAssignments`: role assignments with ranges, the admin requests that close one and open the
  next without a lock (read in one step, written in another), and two ways of reading them. Two
  rows are valid on a day only after requests that overlapped; the readers agree; history of
  earlier days is kept and the latest request counts from its day.
* `FeatureMembership`: the roots by type, the walk over the links from each root and the choice of
  one feature per issue. Checked against reachability: every reached issue has exactly one
  feature, archived features and ideas yield to live projects, an issue's own links win.
* `WorkflowSync`: the mapping of project and type to workflow, from the schemes in chunks that may
  fail, or guessed from statuses; and the workflow of an issue and of a sub-task.
* `StatusAnalysis`: intervals per status from transitions, cut to a range, with only the
  transitions loaded that the query loads; days per status and thrash scores. A range never has
  days that the whole history has not, and has all of them unless an issue was resolved in it and
  moved on; ranges that follow each other add up in the same way. A row of the table gives the
  average of all issues and one per priority that has a column; an issue of another priority
  (`Unknown`, or one that Jira has renamed) counts in the first only, and `RowsByPriority` says that
  columns and such issues make up the whole. An average is kept as its days and its issues.
* `AllocationShares`: what one rebuild writes, with the roles of the day, exclusions, clocked hours,
  overhead and proportional shares. Clocked hours are all in a person's rows but for rounding,
  counted once unless the role changes within the month.
* `EffortReports` extends it with the reports: investment, cost and ranking of features, issues
  without a feature, heatmap, planned and unplanned work, interruptions, availability, capacity.
  They know a person's team in three ways (by a SQL join, by the assignment service, by the issue);
  `ReportsAgree` says which totals agree all the same and which only under which condition.
* `FeatureReports`: families with their members and suggestions, the hours by feature and by
  family, their drill-downs and the delivery progress. A row is counted in one line, drill-downs
  contain the hours of their line only, and what they leave out is named.
* `Metrics`: windows of weeks, months and quarters, cohorts, medians with their two roundings, the
  DORA rates and levels, the stored rows, the current figures and the history made of them, and
  the breakdown read from the merge requests. `WindowsTile`: windows cover each day once;
  `FiguresAgree`: figures from rows and from merge requests agree when the rows are fresh.
* `ReleaseViews` extends it with the lists behind the figures: pages against their count
  statements, failed releases against the failure rate, incidents in histogram, paths and pages,
  hours by role and by team.

### What is abstracted

Hours are seconds or ten-thousandths, as columns keep them, or sets of the rows they are summed from
(`FeatureReports`), so that a row lost or counted twice shows whatever its hours. Ratios are in
ten-thousandths. Weeks and months have one to three days in the models; the arithmetic with real
months is in `HrworksPeriods`. Reports are read-only and evaluated in every reachable state of their
tables. The medians of `StatusAnalysis` and the rounding of its averages, rounding for display,
sorting of equal rows, exports and texts are left out.

### What is proved

`ReferenceDataProofs` has the theorems of four of these modules, each for every value of its
constants and under one named assumption:

* `UserAssignments`: `AssignmentsTyped`, `AssignmentsAreSound` and the action property
  `AssignmentsAreKept`, assuming that the missing value is no row and no request (`Apart`).
  `OneRowPerDay` speaks of requests by the mark they leave on rows (`overlapped`): two rows that are
  valid on one day, once two requests have overlapped, are not healed by later requests that were
  alone. The run has three requests so that this happens.
* `FeatureMembership`: `MembershipsTyped` and `MembershipsAreRight`, for finitely many issues with any
  links (`Related`). The walk and the reference (who is within so many links) agree by induction on
  the depth; the candidate chosen for an issue exists because the order by which candidates are
  compared is total on a finite set.
* `FeatureReports`: `FamiliesTyped` and `HoursAreCounted`, assuming that families, features and the
  other lines of a report have names of their own (`Identified`).
* `StatusAnalysis`: `HistoriesTyped` and `DaysAddUp` (`RangeLosesNothing`, `RangesAddUp` and
  `RowsByPriority`), for finitely many issues and a missing value that is no day (`Dated`). The
  invariant `Chronicle` has the transitions of an issue in order and before today. An interval cut
  to a range and the same interval cut to two halves of it agree day by day; the transitions a range
  leaves out lie before a resolution that is itself before the range (`PartKnown`), and what one
  part has, the whole has (`ShareFits`).

`AllocationRebuildProofs` has those of `AllocationShares` and `EffortReports`: `EffortTyped`,
`EffortIsShared` and `ReportsAreOne`. The invariant is `EffortInv`: inputs and tables keep their
types, and a month that is fresh has exactly the rows a rebuild would write now (`FreshIsRebuilt`);
from it the theorems are statements on what one rebuild computes and what each report makes of its
rows. The assumption `Known` names what the tables admit: days and months of one calendar, seconds
that are natural, worklogs with ids of their own, assignments in the order of their beginnings,
percentages from 0 to 100 (`schemas/jira_user_admin.py:43`), and the topics' rules of the
migrations, of which none is both direct and indirect. Where a clause holds only under a condition
(an unchanged role within the month, a person with a team) the property states it.

`DoraWarehouseProofs` has `FiguresTyped` and `WindowsAreTiled` (`WindowsTile`) of `Metrics`, for any
lengths of weeks and any first days of months (`Measurable`, whose `Calendar` asks that months
follow each other and that a quarter is known beyond the last day). `FiguresInv` says that rows are
of repositories and windows that there are. Windows of months and quarters are stepped through by
the number of the month, and a day lies in the window of its own number only. That the rows and the
breakdown agree (`BreakdownAgrees`) is stated of windows within the lookback: with a lookback
shorter than the current windows they would not.

A docstring the runs do not refute: `api/metrics_public.py:232` speaks of the hours of bugs linked
through `BugRelease`, the code takes the Jira keys of the release's merge requests, as
`WorklogHours` does.

## 8. Configuration

`Configuration` has the settings document, the encrypted token, the environment of a process, the
jobs with their triggers, and PATCH requests in four steps: read, commit, load, move the jobs one
after the other. A process may stop and start with another key and another environment.
`ConfigurationApplies`: requests that came one after the other leave the document they asked for;
the jobs follow it, also after an error, as far as `TriggersFollow` says; and settings that would
keep a process from coming up are only left by a request that was answered with an error. Of two
overlapping PATCHes the later takes back what the earlier set; the repository says nothing of
that, so the model only records it (`raced`).

`ReferenceDataProofs` proves `ConfigurationTyped` and `SettingsApply` (`ConfigurationApplies`) for
any number of requests, bodies, secrets, environments and restarts. `Sound` assumes of the bodies
what `AdminConfigPatch` checks (`schemas/admin_config.py:59-65`: hours from 0 to 23); days of the
week are not checked there, and the theorem covers those that no job can be built from. By
`OneByOne`, the open request has read what is stored unless requests have raced; by `MovesJobs`, a
request that moves the jobs has moved those behind its place to what is stored; `Settled` carries
both to the next restart.

## 9. The `backend` run

`MCBackend` has one instance of every module of sections 5 to 8. `Init` chooses the `part`, and a
behaviour is one of that part while the others rest: the parts do not share tables in the models,
so an interleaving of them would add states and no behaviour. `SnapshotRefresh` and
`SyncPipelines` keep variables of their own; the others share the slots `s1` to `s14`. The run
reaches some 740 000 states. Each property is a property of its parts, guarded by the part.

| Part | Instance | Why it is enough |
|---|---|---|
| snapshots | section 5 | a reader between two refreshes, a window that drops out |
| pipelines | one run of each pipeline, 2 months, crash, repairs | each run meets the other's rebuild and a repair at every step |
| dora | 4 tags (two of one version, one pre-release), 1 merge request, 1 bug, lookback of 1, 2 days, any number of nights, one change outside; at first the request names the bug | tags vanish between nights, the merge request leaves the lookback, links match two tags, the guard applies above two releases instead of ten, new tags push out old ones |
| fetch | 3 items, pages of 2 that the service may cut to 1, 4 attempts, 1 change | items shift over a page boundary in both directions, attempts are used up |
| hrworks | 2 persons, 2 users, 2 months, 1 change outside | an address of one person that is another user's |
| periods | days at both ends of months around the turn of the year, settings from -1 to 13 | every wrap of the month arithmetic |
| ingest | 3 issues, 3 keys, 2 runs, 2 changes | a key reused by another issue, a parent that arrives later |
| health | some 12 000 bugs with and without parents, histories of 3 entries | every gate of the verdict with every other |
| assignments | 1 user, 3 requests, 3 days, 2 roles and teams | overlap, gap, change on the same day |
| membership | 4 issues, depth 2, 2 changes | two roots that reach one issue by different links |
| effort | 2 persons, 2 months of 2 days, 5 worklogs, 3 changes | a change of role within a month, hours with no topic |
| features | 2 families, 2 features, 9 rows of every kind, 4 changes | every line of a matrix, a family switched off |
| workflow | 2 projects, 3 workflows in two batches, 2 steps | a chunk fails after a change |
| waiting | 2 issues, 5 statuses of which two are shown as one, a priority without a column, 3 days | reopening, a move after the resolution |
| figures | 2 repositories, 2 releases, 4 merge requests, 2 bugs, 5 days, 2 changes | windows cut by the lookback, ties, rows that are stale |
| config | 2 requests, 6 bodies, a key set or not, an environment | a job that cannot be built between two that can |

Deadlock is not checked: every part stops when its bounded counters or its last step are reached.

Fairness. `WF` of `Age` for every run: time passes. `WF(Repair)`: the nightly pipeline is scheduled
every day, and its orphan resolution asks for no source. Nothing is assumed of the threads of the
two pipelines, nor of triggers, crashes or failures: `RowsAreClosed` holds though a thread may
stop anywhere.

Proved of the parts of this run, for every value of the constants, are `CountsOnce`,
`PublishedTogether` and `ListedWindowsHaveRows` (section 5), `SuccessIsAllocated`, `DoraConsistent`,
`HrworksSafe`, `JiraConsistent`, `FetchIsComplete` and `BugsAreJudged` (section 6), the parts
`UserAssignments`, `FeatureMembership` and `WorkflowSync` of `ReferenceDataSound` (sections 6 and
7), the parts `FeatureReports`, `AllocationShares`, `EffortReports` and (but for `RowsAreWhole`)
`StatusAnalysis` of `AnalysisAddsUp` (section 7), the windows of `MetricsAgree` (section 7),
`ConfigurationApplies` (section 8) and the clauses of `NothingIsLost`. The theorems name the
property of the component's module; that `MCBackend` rests all parts but one is left to TLC.

What a loop computes is proved by induction on a number, with the statement given as a set
(`Climbs` and `StepsExist` of `NaturalSets`), because the library's rules take an operator as a
parameter. Model-checked only are the medians,
rates and agreements of the figures (the rest of `MetricsAgree`), the lines of a table of statuses
(`RowsAreWhole`), and liveness under fairness (`RowsAreClosed`, `RunsResolve`), which the prover does
not reach.

## 10. Not modelled

* Authentication and the password for people data, the raw table browser and data health, schema
  migrations, the frontend: sequential handlers around library calls, or read-only queries, or no
  part of the running backend.
* Of modelled components: the feature investment audit, reports that only list rows, exports and
  search; the import of role assignments from the settings (`role_sync.py`); the extraction of
  custom fields, users and projects; the parsing of versions and addresses; the text of messages.
* Sessions, the connection pool and the isolation of PostgreSQL beyond what sections 4 and 5 use.
