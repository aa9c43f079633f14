------------------------------- MODULE Metrics -------------------------------
(* The figures of the dashboard (services/metric_service.py, snapshot_service.py,  *)
(* lead_time_breakdown.py, metrics_public_service.py): the metrics of a window of   *)
(* days, the stored rows of all windows, and the current and historic figures made  *)
(* of the rows, with a breakdown that is read from the merge requests instead.      *)
(* Days are numbers; ratios are kept in ten-thousandths as the columns keep them.   *)
EXTENDS Integers, FiniteSetsExt, SequencesExt

CONSTANTS Repos,          \* the active repositories
          Tags, RepoOf,   \* releases, and tag -> its repository
          Requests,       \* merge requests: [repo, lead, wait, branch, marked, key, status]
          Shape,          \* merge request -> that record
          Bugs, Bug,      \* bugs: bug -> [eligible, valid, alpha, minutes, key]
          Streams,        \* branch -> "feature", "patch" or "other"
          WeekDays, MonthStarts,  \* days of a week, sequence of the first days of months
          Horizon,        \* period type -> windows that make up the current figures
          Lookback, LastDay, MaxEdits, None

VARIABLES released,  \* table release: tag -> [day, customer], or None
          shipped,   \* merge_request.first_customer_tag: merge request -> tag or None
          linked,    \* table bug_release: <<bug, tag>>
          fixed,     \* production_bug.first_fix_release_tag: bug -> tag or None
          closed,    \* production_bug.closed_at: bug -> day or None
          rows,      \* table metric_snapshot: [repo, type, start, end] -> the metrics
          fresh,     \* whether nothing was collected since the rows were written
          today, edits

data == <<released, shipped, linked, fixed, closed>>
vars == <<data, rows, fresh, today, edits>>
Types == {"WEEK", "MONTH", "QUARTER"}
Days == 0..LastDay
Scale == 10000

Init == /\ released = [t \in Tags |-> None] /\ shipped = [m \in Requests |-> None]
        /\ linked = {} /\ fixed = [b \in Bugs |-> None] /\ closed = [b \in Bugs |-> None]
        /\ rows = <<>> /\ fresh = TRUE /\ today = 0 /\ edits = 0
-----------------------------------------------------------------------------
(* The calendar. *)
MonthOf(d) == Max({n \in DOMAIN MonthStarts : MonthStarts[n] <= d})
NextMonth(d) == MonthStarts[MonthOf(d) + 1]

PeriodStart(type, d) ==
  CASE type = "WEEK" -> d - (d % WeekDays)
    [] type = "MONTH" -> MonthStarts[MonthOf(d)]
    [] type = "QUARTER" -> MonthStarts[((MonthOf(d) - 1) \div 3) * 3 + 1]

(* Mutant of PeriodEnd: a week ends on the first day of the next. *)
PeriodEndLater(type, start) ==
  CASE type = "WEEK" -> start + WeekDays
    [] type = "MONTH" -> NextMonth(start) - 1
    [] type = "QUARTER" -> NextMonth(MonthStarts[MonthOf(start) + 2]) - 1

PeriodEnd(type, start) ==
  CASE type = "WEEK" -> start + WeekDays - 1
    [] type = "MONTH" -> NextMonth(start) - 1
    [] type = "QUARTER" -> NextMonth(MonthStarts[MonthOf(start) + 2]) - 1
NextPeriodStart(type, start) ==
  CASE type = "WEEK" -> start + WeekDays
    [] type = "MONTH" -> NextMonth(start)
    [] type = "QUARTER" -> NextMonth(NextMonth(NextMonth(start)))

BuildWindows(type, from, to) ==
  LET cursor[c \in 0..(LastDay + 1)] ==
        IF c > to THEN {}
        ELSE {[start |-> c, end |-> PeriodEnd(type, c)]}
             \cup cursor[Min({LastDay + 1, NextPeriodStart(type, c)})]
  IN  cursor[PeriodStart(type, from)]
-----------------------------------------------------------------------------
(* Medians of the members of S for which f has a value: the half rounds up in the      *)
(* rows, down in the figures made of rows, to even in the lists of bugs.              *)
Values(S, f(_)) == {v \in {[of |-> s, value |-> f(s)] : s \in S} : v.value # None}
AtRank(values, n) ==
  Min({v.value : v \in {v \in values : Cardinality({u \in values : u.value <= v.value}) >= n}})
Middles(values, n) == AtRank(values, (n + 1) \div 2) + AtRank(values, (n + 2) \div 2)
Twice(values) == Middles(values, Cardinality(values))
MedianUp(values) == IF values = {} THEN None ELSE (Twice(values) + 1) \div 2
MedianInt(values) == IF values = {} THEN None ELSE Twice(values) \div 2
HalfToEven(n) == IF n % 2 = 0 THEN n \div 2 ELSE IF n % 4 = 1 THEN n \div 2 ELSE n \div 2 + 1
MedianFromSorted(values) == IF values = {} THEN None ELSE HalfToEven(Twice(values))
Ratio(n, d) == (2 * n * Scale + d) \div (2 * d)

(* The metrics of a repository in a window. *)
In(d, w) == d # None /\ w.start <= d /\ d <= w.end
TagDay(m) == IF shipped[m] = None THEN None ELSE released[shipped[m]].day
CustomerReleases(repo, w) ==
  {t \in Tags : released[t] # None /\ RepoOf[t] = repo /\ released[t].customer /\ In(released[t].day, w)}
DeploymentFrequency(repo, w) ==
  Ratio(Cardinality(CustomerReleases(repo, w)) * WeekDays, w.end - w.start + 1)

(* Merge requests that only prepare a release are left out. *)
Excluded(m) == Shape[m].marked
Cohort(repos, w) == {m \in Requests : Shape[m].repo \in repos /\ In(TagDay(m), w) /\ ~ Excluded(m)}
Sample(cohort) == {m \in cohort : Shape[m].lead # None}
Included(m) == shipped[m] # None /\ ~ Shape[m].marked

Lead(m) == Shape[m].lead
Wait(m) == Shape[m].wait
Dev(m) == IF Lead(m) # None /\ Wait(m) # None /\ Lead(m) >= Wait(m) THEN Lead(m) - Wait(m) ELSE None

Eligible(b) == Bug[b].eligible
ChangeFailureRate(repo, w) ==
  LET all == CustomerReleases(repo, w)
      failed == {t \in all : \E b \in Bugs : <<b, t>> \in linked /\ Eligible(b)}
  IN  IF all = {} THEN 0 ELSE Ratio(Cardinality(failed), Cardinality(all))

Measured(w) == {b \in Bugs : Bug[b].valid /\ fixed[b] # None /\ In(released[fixed[b]].day, w)}
Alpha(b) == Bug[b].alpha
MttrAlpha(w) == MedianUp(Values(Measured(w), Alpha))
Mttr(w) == MedianUp(Values({b \in Bugs : Bug[b].valid /\ In(closed[b], w)}, LAMBDA b : Bug[b].minutes))

MatchCounts(cohort) ==
  [s \in {Shape[m].status : m \in cohort} |-> Cardinality({m \in cohort : Shape[m].status = s})]

MetricsOf(cohort, repo, w) ==
  [deployment |-> DeploymentFrequency(repo, w), cfr |-> ChangeFailureRate(repo, w),
   lead |-> MedianUp(Values(cohort, Lead)), wait |-> MedianUp(Values(cohort, Wait)),
   dev |-> MedianUp(Values(cohort, Dev)), alpha |-> MttrAlpha(w), mttr |-> Mttr(w),
   sample |-> Cardinality(Sample(cohort)), counts |-> MatchCounts(cohort)]
PeriodMetrics(repo, w) == MetricsOf(Cohort({repo}, w), repo, w)

RowKeys == UNION {{[repo |-> r, type |-> p, start |-> w.start, end |-> w.end]
                    : r \in Repos, w \in BuildWindows(p, Max({0, today - Lookback}), today)} : p \in Types}

(* A refresh replaces the rows of its windows and leaves the older ones. *)
Refresh ==
  /\ rows' = [k \in DOMAIN rows \cup RowKeys |-> IF k \in RowKeys THEN PeriodMetrics(k.repo, k) ELSE rows[k]]
  /\ fresh' = TRUE
  /\ UNCHANGED <<data, today, edits>>
-----------------------------------------------------------------------------
(* What the collectors find. *)
Edit == edits < MaxEdits /\ edits' = edits + 1 /\ fresh' = FALSE /\ UNCHANGED <<rows, today>>
Publish(t, customer) ==
  /\ Edit /\ released[t] = None
  /\ released' = [released EXCEPT ![t] = [day |-> today, customer |-> customer]]
  /\ UNCHANGED <<shipped, linked, fixed, closed>>
Ship(m, t) ==
  /\ Edit /\ shipped[m] = None /\ Shape[m].repo = RepoOf[t] /\ released[t] # None /\ released[t].customer
  /\ shipped' = [shipped EXCEPT ![m] = t]
  /\ UNCHANGED <<released, linked, fixed, closed>>
Link(b, t) ==
  /\ Edit /\ released[t] # None /\ <<b, t>> \notin linked
  /\ linked' = linked \cup {<<b, t>>}
  /\ UNCHANGED <<released, shipped, fixed, closed>>
Fix(b, t) ==
  /\ Edit /\ fixed[b] = None /\ released[t] # None /\ released[t].customer
  /\ fixed' = [fixed EXCEPT ![b] = t] /\ closed' = [closed EXCEPT ![b] = today]
  /\ UNCHANGED <<released, shipped, linked>>
Tick == today < LastDay /\ today' = today + 1 /\ UNCHANGED <<data, rows, fresh, edits>>

Next == \/ \E t \in Tags, customer \in BOOLEAN : Publish(t, customer)
        \/ \E m \in Requests, t \in Tags : Ship(m, t)
        \/ \E b \in Bugs, t \in Tags : Link(b, t)
        \/ \E b \in Bugs, t \in Tags : Fix(b, t)
        \/ Refresh
        \/ Tick
Spec == Init /\ [][Next]_vars
-----------------------------------------------------------------------------
(* The latest windows with rows, those that have ended before those that have not,     *)
(* with the number of later ones.                                                     *)
Ranked(windows) == {[start |-> w.start, end |-> w.end, rank |-> Cardinality({v \in windows : v.end > w.end})] : w \in windows}
PastOrAll(windows) ==
  IF \E w \in windows : w.end <= today THEN {w \in windows : w.end <= today} ELSE windows
RowWindows(type, repos) ==
  {[start |-> k.start, end |-> k.end] : k \in {k \in DOMAIN rows : k.type = type /\ k.repo \in repos}}
RecentWindows(type, repos, limit) ==
  {w \in Ranked(PastOrAll(RowWindows(type, repos))) : w.rank < limit}
RowsOf(type, windows, repos) ==
  {[key |-> k, row |-> rows[k]] :
     k \in {k \in DOMAIN rows : /\ k.type = type /\ k.repo \in repos
                                /\ \E w \in windows : w.start = k.start /\ w.end = k.end}}

(* Means of ratios as [sum, n], medians of medians, sums of counts. *)
Mean(R, f(_)) == IF R = {} THEN None ELSE [sum |-> MapThenSumSet(f, R), n |-> Cardinality(R)]
Aggregate(R) ==
  [deployment |-> Mean(R, LAMBDA r : r.row.deployment), cfr |-> Mean(R, LAMBDA r : r.row.cfr),
   lead |-> MedianInt(Values(R, LAMBDA r : r.row.lead)), wait |-> MedianInt(Values(R, LAMBDA r : r.row.wait)),
   dev |-> MedianInt(Values(R, LAMBDA r : r.row.dev)), alpha |-> MedianInt(Values(R, LAMBDA r : r.row.alpha)),
   sample |-> MapThenSumSet(LAMBDA r : r.row.sample, R),
   counts |-> [s \in UNION {DOMAIN r.row.counts : r \in R} |->
                 MapThenSumSet(LAMBDA r : r.row.counts[s], {r \in R : s \in DOMAIN r.row.counts})]]

TrendOf(a, b) ==
  IF b = 0 THEN (IF a = 0 THEN "STABLE" ELSE "UP")
  ELSE IF 2000 * (IF a > b THEN a - b ELSE b - a) < b THEN "STABLE" ELSE IF a > b THEN "UP" ELSE "DOWN"
Trend(cur, prev) ==
  IF cur = None \/ prev = None THEN None ELSE TrendOf(cur.sum * prev.n, prev.sum * cur.n)

(* Levels, from 1 (low) to 4 (elite), of a mean or of minutes; the overall level is   *)
(* the lowest, and each figure is shown with a level of its own.                      *)
Level(elite, high, medium) == IF elite THEN 4 ELSE IF high THEN 3 ELSE IF medium THEN 2 ELSE 1
DeploymentLevel(v) == Level(v.sum > 7 * Scale * v.n, v.sum >= Scale * v.n, 4 * v.sum >= Scale * v.n)
LeadTimeLevel(v) == Level(v < 60, v < 7 * 24 * 60, v < 30 * 24 * 60)
CfrLevel(v) == Level(20 * v.sum < Scale * v.n, 10 * v.sum <= Scale * v.n, 20 * v.sum <= 3 * Scale * v.n)
MttrLevel(v) == Level(v < 60, v < 24 * 60, v <= 7 * 24 * 60)
PerformanceLevel(a) ==
  IF None \in {a.deployment, a.lead, a.cfr, a.alpha} THEN None
  ELSE Min({DeploymentLevel(a.deployment), LeadTimeLevel(a.lead), CfrLevel(a.cfr), MttrLevel(a.alpha)})
DeploymentLevelOnly(v) == Level(v.sum > 7 * Scale * v.n, v.sum >= Scale * v.n, 4 * v.sum >= Scale * v.n)
LeadLevelOnly(v) == Level(v < 60, v < 7 * 24 * 60, v < 30 * 24 * 60)
CfrLevelOnly(v) == Level(20 * v.sum < Scale * v.n, 10 * v.sum <= Scale * v.n, 20 * v.sum <= 3 * Scale * v.n)
MttrLevelOnly(v) == Level(v < 60, v < 24 * 60, v <= 7 * 24 * 60)
LevelsFor(a) ==
  LET Of(v, level(_)) == IF v = None THEN None ELSE level(v)
  IN  [overall |-> PerformanceLevel(a),
       each |-> <<Of(a.deployment, DeploymentLevelOnly), Of(a.lead, LeadLevelOnly),
                  Of(a.cfr, CfrLevelOnly), Of(a.alpha, MttrLevelOnly)>>]

(* The breakdown reads the merge requests of the days, by branch or by stream. *)
Named(key, S) == [key |-> key, sample |-> Cardinality(S), lead |-> MedianUp(Values(S, Lead))]
BreakdownOf(cohort, name(_)) ==
  {Named(key, {m \in cohort : name(m) = key}) : key \in {name(m) : m \in cohort}}
ByBranch(cohort) == BreakdownOf(cohort, LAMBDA m : Shape[m].branch)
Stream(m) == Streams[Shape[m].branch]
ByStream(cohort) ==
  BreakdownOf(cohort, Stream)
  \cup {[key |-> s, sample |-> 0, lead |-> None] : s \in {"feature", "patch"} \ {Stream(m) : m \in cohort}}

(* The current figures are of the last windows and are compared with the windows       *)
(* before them; with too few windows, of the last one and the one before.             *)
SpanOf(windows) ==
  [start |-> Min({w.start : w \in windows}), end |-> Min({Max({w.end : w \in windows}), today})]
Displayed(repos, cur, prev, span, a, b) ==
  [span |-> span, windows |-> cur, before |-> prev, figures |-> a, levels |-> LevelsFor(a),
   trend |-> Trend(a.deployment, b.deployment), past |-> b, cohort |-> Sample(Cohort(repos, span))]
Compared(type, repos, cur, prev) ==
  Displayed(repos, cur, prev, SpanOf(cur), Aggregate(RowsOf(type, cur, repos)), Aggregate(RowsOf(type, prev, repos)))
Split(type, repos, recent, n) ==
  Compared(type, repos, {w \in recent : w.rank < n}, {w \in recent : w.rank \in n..2 * n - 1})
CurrentOf(type, repos, recent) ==
  IF recent = {} THEN None
  ELSE Split(type, repos, recent, IF Cardinality(recent) <= Horizon[type] THEN 1 ELSE Horizon[type])
Current(type, repos) == CurrentOf(type, repos, RecentWindows(type, repos, 2 * Horizon[type]))

(* A page of the history, the newest windows first; the merge requests of the page    *)
(* are read at once and then divided among its windows.                              *)
HistoryWindows(type, from, to, repos) == {w \in RowWindows(type, repos) : w.end >= from /\ w.start <= to}
Point(w, to, a, batch) ==
  [window |-> w, end |-> Min({w.end, to}), figures |-> a, levels |-> LevelsFor(a),
   cohort |-> {m \in batch : In(TagDay(m), w)}]
HistoryPoints(type, to, repos, slice, batch) ==
  {Point(w, to, Aggregate(RowsOf(type, {w}, repos)), batch) : w \in slice}
Batch(repos, slice) ==
  IF slice = {} THEN {}
  ELSE Sample(Cohort(repos, [start |-> Min({w.start : w \in slice}), end |-> Max({w.end : w \in slice})]))
HistorySlice(windows, page, size) ==
  {w \in windows : Cardinality({v \in windows : v.start > w.start}) \div size = page}
PageOf(type, to, repos, slice, total, page, size) ==
  [data |-> HistoryPoints(type, to, repos, slice, Batch(repos, slice)),
   total |-> total, pages |-> (total + size - 1) \div size,
   next |-> (page + 1) * size < total, page |-> page]
History(type, from, to, repos, page, size) ==
  LET windows == HistoryWindows(type, from, to, repos)
  IN  PageOf(type, to, repos, HistorySlice(windows, page, size), Cardinality(windows), page, size)
-----------------------------------------------------------------------------
TypeOK == /\ \A k \in DOMAIN rows : k.repo \in Repos /\ k.type \in Types /\ k.start \in Days
          /\ today \in Days /\ edits \in 0..MaxEdits /\ fresh \in BOOLEAN
          /\ \A m \in Requests : shipped[m] # None => released[shipped[m]] # None

Selections == {Repos} \cup {{r} : r \in Repos}
Gapless(windows) == \A d \in Min({w.start : w \in windows})..Max({w.end : w \in windows}) : \E w \in windows : In(d, w)
Samples(breakdown) == MapThenSumSet(LAMBDA e : e.sample, breakdown)

(* The windows of a type cover each day of the lookback, today included, once. *)
WindowsTile ==
  \A p \in Types, from \in 0..today :
    \A d \in from..today : Cardinality({w \in BuildWindows(p, from, today) : In(d, w)}) = 1

(* Figures that come from the stored rows agree with those read from the merge         *)
(* requests: when the rows are fresh and their windows without a gap, the samples of  *)
(* the breakdown are the samples of the rows, by branch as by stream.                 *)
BreakdownAgrees(c) ==
  fresh /\ Gapless(c.windows) =>
    /\ Samples(ByBranch(c.cohort)) = c.figures.sample
    /\ Samples(ByStream(c.cohort)) = c.figures.sample
    /\ MapThenSumSet(LAMBDA s : c.figures.counts[s], DOMAIN c.figures.counts) >= c.figures.sample

(* The current windows are newer than the ones they are compared with, and the overall *)
(* level is the lowest of the levels shown with the figures.                         *)
CurrentIsConsistent(c) ==
  /\ \A v \in c.windows, w \in c.before : w.end < v.start
  /\ c.levels.overall # None => c.levels.overall = Min({c.levels.each[n] : n \in 1..4})
  /\ c.figures.cfr # None => c.figures.cfr.sum <= Scale * c.figures.cfr.n

(* The pages of a history hold every window once, and fresh rows agree with the         *)
(* merge requests of the page.                                                        *)
PagesAreWhole(windows, pages) ==
  /\ \A e \in pages : e.next <=> (e.page + 1 < e.pages)
  /\ MapThenSumSet(LAMBDA e : Cardinality(e.data), pages) = Cardinality(windows)
  /\ {point.window : point \in UNION {e.data : e \in {e \in pages : e.page < e.pages}}} = windows
  /\ fresh => \A e \in pages : \A point \in e.data :
       Cardinality(point.cohort) = point.figures.sample \/ point.window.end < today - Lookback
HistoryIsWhole ==
  \A p \in Types, repos \in Selections, size \in 1..2 :
    PagesAreWhole(HistoryWindows(p, 0, today, repos), {History(p, 0, today, repos, i, size) : i \in 0..LastDay})

FiguresAgree ==
  /\ \A c \in {Current(p, repos) : p \in Types, repos \in Selections} \ {None} : BreakdownAgrees(c) /\ CurrentIsConsistent(c)
  /\ HistoryIsWhole
=============================================================================
