-------------------------- MODULE SnapshotRefresh --------------------------
(***************************************************************************)
(* refresh_snapshots (services/snapshot_service.py), the snapshots phase   *)
(* of the nightly pipeline, and the reader behind the dashboard's current  *)
(* metrics (services/metrics_public_service.py).                           *)
(*                                                                         *)
(* A run collects data, then refreshes in one transaction at READ          *)
(* COMMITTED: it reads mean times to repair for every period window, and   *)
(* then, for each repository and window, reads the metrics, deletes the    *)
(* stored row and adds a new one.  The session does not flush by itself,   *)
(* so the new rows reach the table at the final commit.  metric_snapshot   *)
(* has no unique key besides its id.                                       *)
(*                                                                         *)
(* The collected data is represented by its version, a metric by the       *)
(* version it was read from, a period window by its number.                *)
(***************************************************************************)
EXTENDS Integers, Sequences, FiniteSets, FiniteSetsExt

CONSTANTS
    Runs,           \* the runs of the nightly pipeline considered
    Repositories,   \* the repositories that may be known
    Horizon,        \* the last window whose days are considered
    Lookback,       \* lookback_days, counted in windows
    Readers,        \* the requests for current metrics considered
    Shown,          \* the windows that make up the current metrics
    Triggers,       \* what may start a run: "scheduler" and/or "manual"
    Faults          \* what may go wrong: "database"

ASSUME RepositoriesAssumption == IsFiniteSet(Repositories)
ASSUME WindowsAssumption == Horizon \in Nat \ {0} /\ Lookback \in Nat
ASSUME ReadersAssumption == Shown \in Nat \ {0}
ASSUME TriggersAssumption == Triggers \subseteq {"scheduler", "manual"}
ASSUME RefreshFaults == Faults \subseteq {"database"}

Windows == 1..Horizon

VARIABLES
    run,        \* each run of the pipeline and its transaction
    snapshot,   \* the committed rows of metric_snapshot
    known,      \* the active repositories
    version,    \* how often the collected data has changed
    today,      \* the window of the present day
    request,    \* each request for current metrics
    met         \* history: the refreshes that each refresh overlapped in time

vars == <<run, snapshot, known, version, today, request, met>>

-----------------------------------------------------------------------------

NewRun ==
    [at |-> "idle", trigger |-> "none", order |-> <<>>, windows |-> {}, place |-> 1,
     window |-> 1, mttr |-> [w \in Windows |-> 0], lead |-> 0, seen |-> {}, drop |-> {},
     made |-> {}]

NewRequest == [at |-> "idle", recent |-> {}, rows |-> {}]

Init ==
    /\ run = [j \in Runs |-> NewRun]
    /\ snapshot = {}
    /\ known = {}
    /\ version = 0
    /\ today = 1
    /\ request = [q \in Readers |-> NewRequest]
    /\ met = [j \in Runs |-> {}]

Refreshing == {"repair", "measure", "delete", "wait", "commit"}

Active(j) == run[j].at \in Refreshing

Alive(j) == run[j].at \notin {"idle", "done"}

Set(j, changes) == run' = [run EXCEPT ![j] = changes]

(* Days pass. *)
Tick ==
    /\ today < Horizon
    /\ today' = today + 1
    /\ UNCHANGED <<run, snapshot, known, version, request, met>>

-----------------------------------------------------------------------------
(* The run around the refresh *)

(* Mutant of FireSchedule: the job is registered without max_instances. *)
FireScheduleAnyway(j) ==
    /\ "scheduler" \in Triggers
    /\ run[j].at = "idle"
    /\ Set(j, [run[j] EXCEPT !.at = "collect", !.trigger = "scheduler"])
    /\ UNCHANGED <<snapshot, known, version, today, request, met>>

(* The scheduler keeps one instance of its job. *)
FireSchedule(j) ==
    /\ "scheduler" \in Triggers
    /\ run[j].at = "idle"
    /\ \A k \in Runs : ~(Alive(k) /\ run[k].trigger = "scheduler")
    /\ Set(j, [run[j] EXCEPT !.at = "collect", !.trigger = "scheduler"])
    /\ UNCHANGED <<snapshot, known, version, today, request, met>>

TriggerManually(j) ==
    /\ "manual" \in Triggers
    /\ run[j].at = "idle"
    /\ Set(j, [run[j] EXCEPT !.at = "collect", !.trigger = "manual"])
    /\ UNCHANGED <<snapshot, known, version, today, request, met>>

(* The collectors and derivations, up to the gate before the snapshots.  A project
   seen for the first time becomes an active repository; none is ever deactivated. *)
Collect(j) ==
    /\ run[j].at = "collect"
    /\ version' = version + 1
    /\ \E found \in SUBSET Repositories : known' = known \cup found
    /\ Set(j, [run[j] EXCEPT !.at = "plan"])
    /\ UNCHANGED <<snapshot, today, request, met>>

-----------------------------------------------------------------------------
(* The refresh *)

(* The repositories are selected without ORDER BY. *)
Orders(S) == {s \in [1..Cardinality(S) -> S] : \A i, k \in DOMAIN s : s[i] = s[k] => i = k}

(* Mutant of Covered: the loop over the windows goes one too far. *)
CoveredBeyond(day) == {w \in 1..(Horizon + 1) : day - Lookback <= w /\ w <= day + 1}

Covered(day) == {w \in Windows : day - Lookback <= w /\ w <= day}

(* Every loop over the windows goes from the oldest to the newest. *)
NextWindow(j, todo) == Min(todo)

(* The repositories and the windows are fixed; without a repository nothing is done. *)
Plan(j) ==
    /\ run[j].at = "plan"
    /\ IF known = {}
         THEN Set(j, [run[j] EXCEPT !.at = "done"]) /\ UNCHANGED met
         ELSE /\ \E order \in Orders(known) :
                    Set(j, [run[j] EXCEPT !.at = "repair", !.order = order,
                                          !.windows = Covered(today),
                                          !.window = NextWindow(j, Covered(today))])
              /\ met' = [k \in Runs |->
                            IF k = j THEN {q \in Runs : Active(q)}
                            ELSE IF Active(k) THEN met[k] \cup {j} ELSE met[k]]
    /\ UNCHANGED <<snapshot, known, version, today, request>>

Later(j) == {w \in run[j].windows : run[j].mttr[w] = 0} \ {run[j].window}

(* The mean times to repair of a window, which all repositories share. *)
Repair(j) ==
    /\ run[j].at = "repair"
    /\ LET mttr == [run[j].mttr EXCEPT ![run[j].window] = version]
       IN  IF Later(j) = {}
             THEN Set(j, [run[j] EXCEPT !.at = "measure", !.mttr = mttr,
                                        !.window = NextWindow(j, run[j].windows)])
             ELSE Set(j, [run[j] EXCEPT !.mttr = mttr, !.window = NextWindow(j, Later(j))])
    /\ UNCHANGED <<snapshot, known, version, today, request, met>>

(* Mutant of Repository: a manual refresh goes through the list backwards. *)
RepositoryBackwards(j) ==
    run[j].order[IF run[j].trigger = "manual" THEN Len(run[j].order) + 1 - run[j].place
                                             ELSE run[j].place]

Repository(j) == run[j].order[run[j].place]

(* calculate_period_metrics, its lead times. *)
Measure(j) ==
    /\ run[j].at = "measure"
    /\ Set(j, [run[j] EXCEPT !.at = "delete", !.lead = version])
    /\ UNCHANGED <<snapshot, known, version, today, request, met>>

Row(j) ==
    [repository |-> Repository(j), window |-> run[j].window, by |-> j,
     mttr |-> run[j].mttr[run[j].window], lead |-> run[j].lead, count |-> version]

(* Mutant of Stored: the DELETE names the first repository in every round. *)
StoredOfFirst(j) ==
    {x \in snapshot : x.repository = run[j].order[1] /\ x.window = run[j].window}

Stored(j) == {x \in snapshot : x.repository = Repository(j) /\ x.window = run[j].window}

(* The last query of calculate_period_metrics counts the lead times; then the DELETE
   starts with the rows committed so far. *)
StartDelete(j) ==
    /\ run[j].at = "delete"
    /\ Set(j, [run[j] EXCEPT !.at = "wait", !.seen = Stored(j),
                             !.made = run[j].made \cup {Row(j)}])
    /\ UNCHANGED <<snapshot, known, version, today, request, met>>

WaitsFor(j, k) == run[j].at = "wait" /\ k # j /\ run[j].seen \cap run[k].drop # {}

Written(j) == {x.window : x \in {y \in run[j].made : y.repository = Repository(j)}}

Rest(j) == run[j].windows \ Written(j)

(* The position after the present window: the next one of this repository, the first
   one of the next repository, or the commit. *)
Advanced(j, changes) ==
    IF Rest(j) # {}
      THEN [changes EXCEPT !.at = "measure", !.window = NextWindow(j, Rest(j))]
    ELSE IF run[j].place < Len(run[j].order)
      THEN [changes EXCEPT !.at = "measure", !.place = run[j].place + 1,
                           !.window = NextWindow(j, run[j].windows)]
    ELSE [changes EXCEPT !.at = "commit"]

(* Mutant of EndDelete: every window is committed by itself, as far as it is. *)
EndDeleteAndCommit(j) ==
    /\ run[j].at = "wait"
    /\ \A k \in Runs : ~WaitsFor(j, k)
    /\ snapshot' = snapshot \ run[j].seen
    /\ Set(j, Advanced(j, [run[j] EXCEPT !.seen = {}]))
    /\ UNCHANGED <<known, version, today, request, met>>

(* It waits for transactions that have deleted rows it has seen, then deletes those
   that are left.  Rows committed since its start are not seen. *)
EndDelete(j) ==
    /\ run[j].at = "wait"
    /\ \A k \in Runs : ~WaitsFor(j, k)
    /\ Set(j, Advanced(j, [run[j] EXCEPT !.seen = {},
                                         !.drop = run[j].drop \cup (run[j].seen \cap snapshot)]))
    /\ UNCHANGED <<snapshot, known, version, today, request, met>>

Ended(j) == Set(j, [NewRun EXCEPT !.at = "done", !.trigger = run[j].trigger])

Commit(j) ==
    /\ run[j].at = "commit"
    /\ snapshot' = (snapshot \ run[j].drop) \cup run[j].made
    /\ Ended(j)
    /\ UNCHANGED <<known, version, today, request, met>>

(* Any statement may raise; everything is rolled back and the run ends as failed. *)
Fail(j) ==
    /\ "database" \in Faults
    /\ Alive(j)
    /\ Ended(j)
    /\ UNCHANGED <<snapshot, known, version, today, request, met>>

Circle(S) == \A j \in S : \E k \in S : WaitsFor(j, k)

(* PostgreSQL ends a wait in a circle by raising in one of the waiting statements. *)
BreakCircle(j) ==
    /\ \E S \in SUBSET Runs : j \in S /\ Circle(S) /\ \E k \in S : WaitsFor(k, j)
    /\ Ended(j)
    /\ UNCHANGED <<snapshot, known, version, today, request, met>>

-----------------------------------------------------------------------------
(* The dashboard: three statements, each of which sees what is then committed *)

Newest(S, n) == {w \in S : Cardinality({x \in S : x > w}) < n}

Stocked == {x.window : x \in snapshot}

(* Mutant of ListWindows: windows with no rows are listed too. *)
ListCalendar(q) ==
    /\ request[q].at = "idle"
    /\ request' = [request EXCEPT ![q].at = "current", ![q].recent = Newest(1..today, 2 * Shown)]
    /\ UNCHANGED <<run, snapshot, known, version, today, met>>

(* _recent_windows: the windows that have ended by today, or all when there are none.
   Today may be the last day of its window. *)
ListWindows(q) ==
    /\ request[q].at = "idle"
    /\ \E last \in {today - 1, today} :
          LET past   == {w \in Stocked : w <= last}
              recent == Newest(IF past = {} THEN Stocked ELSE past, 2 * Shown)
          IN  request' = [request EXCEPT ![q].recent = recent,
                                         ![q].at = IF recent = {} THEN "done" ELSE "current"]
    /\ UNCHANGED <<run, snapshot, known, version, today, met>>

(* With few windows the newest one is compared with the one before. *)
Span(recent) == IF Cardinality(recent) <= Shown THEN 1 ELSE Shown

Current(q) == Newest(request[q].recent, Span(request[q].recent))

Previous(q) ==
    Newest(request[q].recent, 2 * Span(request[q].recent)) \ Current(q)

LoadCurrent(q) ==
    /\ request[q].at = "current"
    /\ request' = [request EXCEPT ![q].at = "previous",
                                  ![q].rows = {x \in snapshot : x.window \in Current(q)}]
    /\ UNCHANGED <<run, snapshot, known, version, today, met>>

LoadPrevious(q) ==
    /\ request[q].at = "previous"
    /\ request' = [request EXCEPT ![q].at = "done",
                                  ![q].rows = @ \cup {x \in snapshot : x.window \in Previous(q)}]
    /\ UNCHANGED <<run, snapshot, known, version, today, met>>

-----------------------------------------------------------------------------

Step(j) ==
    \/ Collect(j) \/ Plan(j) \/ Repair(j) \/ Measure(j) \/ StartDelete(j) \/ EndDelete(j)
    \/ Commit(j)

Next ==
    \/ Tick
    \/ \E j \in Runs : FireSchedule(j) \/ TriggerManually(j) \/ Step(j) \/ Fail(j) \/ BreakCircle(j)
    \/ \E q \in Readers : ListWindows(q) \/ LoadCurrent(q) \/ LoadPrevious(q)

Spec == Init /\ [][Next]_vars

-----------------------------------------------------------------------------
(* Properties *)

Rows ==
    [repository : Repositories, window : Windows, by : Runs, mttr : Nat, lead : Nat, count : Nat]

Run ==
    [at : Refreshing \cup {"idle", "collect", "plan", "done"},
     trigger : Triggers \cup {"none"},
     order : Seq(Repositories),
     windows : SUBSET Windows, place : Nat, window : Windows, mttr : [Windows -> Nat],
     lead : Nat, seen : SUBSET Rows, drop : SUBSET Rows, made : SUBSET Rows]

Request ==
    [at : {"idle", "current", "previous", "done"}, recent : SUBSET Windows, rows : SUBSET Rows]

(* The variables hold what transactions, tables and requests can hold. *)
TypeOK ==
    /\ run \in [Runs -> Run]
    /\ snapshot \subseteq Rows
    /\ known \subseteq Repositories
    /\ version \in Nat
    /\ today \in Windows
    /\ request \in [Readers -> Request]
    /\ met \in [Runs -> SUBSET Runs]

SameKey(x, y) == x.repository = y.repository /\ x.window = y.window

(* A window is stored twice for one repository only by two refreshes that were open at
   the same time, never by two in sequence nor by one. *)
DuplicatesNeedOverlap ==
    \A x, y \in snapshot : SameKey(x, y) /\ x # y => y.by \in met[x.by]

(* The documentation's promise: a refresh replaces the stored row of a window. *)
OneRowPerWindow == \A x, y \in snapshot : SameKey(x, y) => x = y

(* The dashboard sums the lead-time samples of the rows that it has loaded with two
   statements: without a manual trigger no repository counts twice in a window. *)
CountsOnce ==
    \A q \in Readers : \A x, y \in request[q].rows : SameKey(x, y) => x = y

(* A window once shown for a repository does not disappear, whatever fails. *)
WindowsStay == [][\A x \in snapshot : \E y \in snapshot' : SameKey(x, y)]_vars

(* The dashboard lists windows with one statement and loads their rows with two more:
   refreshes that commit in between leave no listed window without rows. *)
ListedWindowsHaveRows ==
    \A q \in Readers :
        request[q].at \in {"previous", "done"} =>
            \A w \in Current(q) \cup (IF request[q].at = "done" THEN Previous(q) ELSE {}) :
                \E x \in request[q].rows : x.window = w

(* Refreshes wait for each other in a circle only if they took the repositories in
   different orders: the order of the windows never makes one. *)
CircleNeedsReorder ==
    \A S \in (SUBSET Runs) \ {{}} :
        Circle(S) => \E j, k \in S : \E r, s \in known :
            /\ \E a, b \in DOMAIN run[j].order :
                  a < b /\ run[j].order[a] = r /\ run[j].order[b] = s
            /\ \E a, b \in DOMAIN run[k].order :
                  a < b /\ run[k].order[a] = s /\ run[k].order[b] = r

(* Without a manual trigger all rows that a refresh publishes, and all metrics of a
   row, come from one version of the collected data. *)
PublishedTogether ==
    \A x, y \in snapshot : x.by = y.by => x.lead = y.lead /\ x.mttr = y.lead /\ x.count = y.lead

=============================================================================
