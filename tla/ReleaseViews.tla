----------------------------- MODULE ReleaseViews -----------------------------
(* The lists behind the figures (services/release_drilldown_service.py,            *)
(* mttr_alpha_stats.py, release_worklog_hours_service.py, api/metrics_public.py):   *)
(* customer releases, those that failed, their merge requests and bugs, the times   *)
(* to restore and the hours booked.  A list is asked for page by page, and its       *)
(* length is counted by a statement of its own.                                     *)
EXTENDS Metrics

CONSTANTS VersionOf, \* tag -> <<major, minor, patch>>, or None
          Path,      \* bug -> how its fix was found, or None
          Bins,      \* sequence of [from, to] in minutes, the last one open (to = None)
          Horizons,  \* period type -> days shown when none are asked for
          Worklogs,  \* worklogs: [key, seconds, account, author]
          ByAccount, ByAuthor,  \* account and author -> <<role, team>>
          Denied     \* accounts left out of the reports

Paged(q, page, size) == SubSeq(q, page * size + 1, Min({page * size + size, Len(q)}))
Pages(total, size) == (total + size - 1) \div size
Later(a, b) == released[a].day > released[b].day
Lane(t) == IF VersionOf[t] = None THEN "unknown"
           ELSE IF VersionOf[t][3] > 0 THEN "patch" ELSE IF VersionOf[t][2] > 0 THEN "minor" ELSE "major"

(* Customer releases, the latest first, with the number of their merge requests. *)
Customers(repos) == {t \in Tags : released[t] # None /\ released[t].customer /\ RepoOf[t] \in repos}
CountCustomerReleases(repos) == Cardinality(Customers(repos))
MergeRequestsOf(t) == {m \in Requests : shipped[m] = t /\ Shape[m].repo = RepoOf[t]}
CustomerReleasesPage(repos, page, size) ==
  LET slice == Paged(SetToSortSeq(Customers(repos), Later), page, size)
  IN  [n \in DOMAIN slice |-> [tag |-> slice[n], lane |-> Lane(slice[n]),
                               requests |-> Cardinality(MergeRequestsOf(slice[n]))]]
PreviousCustomerRelease(t) ==
  LET before == {s \in Customers({RepoOf[t]}) : released[s].day < released[t].day}
  IN  IF before = {} THEN None ELSE CHOOSE s \in before : \A u \in before : released[u].day <= released[s].day
Timeline(repos, major, customersOnly, limit) ==
  LET all == {t \in Tags : /\ released[t] # None /\ VersionOf[t] # None /\ VersionOf[t][1] >= major
                           /\ RepoOf[t] \in repos /\ (customersOnly => released[t].customer)}
      sorted == SetToSortSeq(all, LAMBDA a, b : released[a].day < released[b].day)
  IN  SubSeq(sorted, 1, Min({limit, Len(sorted)}))

(* The merge requests of a release and whether the lead time counts them. *)
MergeRequestsPage(t, page, size) ==
  LET slice == Paged(SetToSeq(MergeRequestsOf(t)), page, size)
  IN  [n \in DOMAIN slice |-> [request |-> slice[n], included |-> Included(slice[n])]]
CountMergeRequests(t) == Cardinality({m \in Requests : shipped[m] = t /\ Shape[m].repo = RepoOf[t]})
CountWithKey(t) == Cardinality({m \in MergeRequestsOf(t) : Shape[m].key # None})

(* Releases that failed: customer releases with an eligible bug. *)
BugsOf(t) == {b \in Bugs : <<b, t>> \in linked /\ Eligible(b) /\ released[t].customer}
Failed(repos) == {t \in Customers(repos) : \E b \in Bugs : <<b, t>> \in linked /\ Eligible(b)}
CountFailed(repos) == Cardinality(Failed(repos))
FailedPage(repos, page, size) ==
  LET issues(t) == Cardinality({b \in Bugs : <<b, t>> \in linked /\ Eligible(b)})
      slice == Paged(SetToSortSeq({t \in Customers(repos) : issues(t) > 0}, Later), page, size)
  IN  [n \in DOMAIN slice |-> [tag |-> slice[n], issues |-> issues(slice[n]), lane |-> Lane(slice[n]),
                               requests |-> Cardinality(MergeRequestsOf(slice[n]))]]
BugsPage(t, page, size) == Paged(SetToSeq(BugsOf(t)), page, size)
CountBugs(t) == Cardinality(BugsOf(t))

(* Times to restore of the bugs fixed by a release of some days. *)
MttrWindow(type, from, to) ==
  LET end == IF to = None THEN today ELSE to
  IN  [start |-> IF from = None THEN end - Horizons[type] ELSE from, end |-> end]
Incidents(w) == {b \in Measured(w) : Alpha(b) # None}
CountIncidents(w, tag) == Cardinality({b \in Incidents(w) : tag = None \/ fixed[b] = tag})
IncidentsPage(w, tag, page, size) ==
  Paged(SetToSortSeq({b \in Incidents(w) : tag = None \/ fixed[b] = tag},
                     LAMBDA a, b : Alpha(a) > Alpha(b) \/ (Alpha(a) = Alpha(b) /\ a < b)), page, size)
PathCounts(w) ==
  LET name(b) == IF Path[b] = None THEN "unknown" ELSE Path[b]
  IN  {[path |-> p, count |-> Cardinality({b \in Incidents(w) : name(b) = p})] : p \in {name(b) : b \in Incidents(w)}}
FixReleases(w) == {fixed[b] : b \in Incidents(w)}
FixReleasesPage(w, page, size) ==
  LET slice == Paged(SetToSortSeq(FixReleases(w), Later), page, size)
  IN  [n \in DOMAIN slice |-> [tag |-> slice[n], issues |-> CountIncidents(w, slice[n]),
         median |-> MedianFromSorted(Values({b \in Incidents(w) : fixed[b] = slice[n]}, Alpha))]]

(* Percentiles between the closest ranks, in hundredths and then rounded to even. *)
RoundHundredths(n) ==
  LET whole == n \div 100
      part == n % 100
  IN  IF part < 50 \/ (part = 50 /\ whole % 2 = 0) THEN whole ELSE whole + 1
Between(values, at, last, weight) ==
  RoundHundredths((100 - weight) * AtRank(values, at) + weight * AtRank(values, Min({at + 1, last})))
Percentile(values, p) ==
  LET pos == (Cardinality(values) - 1) * p
  IN  Between(values, pos \div 100 + 1, Cardinality(values), pos % 100)
Percentiles(values) ==
  <<AtRank(values, 1), Percentile(values, 75), Percentile(values, 90), Percentile(values, 95),
    AtRank(values, Cardinality(values))>>
BinOf(v) ==
  LET at == {n \in DOMAIN Bins : Bins[n].to = None \/ (Bins[n].from <= v /\ v < Bins[n].to)}
  IN  IF Bins[Min(at)].to = None /\ v < Bins[Min(at)].from THEN None ELSE Min(at)
Histogram(values) == [n \in DOMAIN Bins |-> Cardinality({v \in values : BinOf(v.value) = n})]
SummaryOf(values, paths) ==
  [count |-> Cardinality(values), median |-> MedianFromSorted(values), paths |-> paths, histogram |-> Histogram(values),
   percentiles |-> IF values = {} THEN <<>> ELSE Percentiles(values)]
Summary(w) == SummaryOf(Values(Incidents(w), Alpha), PathCounts(w))

(* Hours booked on the bugs that the merge requests of a release name. *)
WorklogsFor(t) ==
  {l \in Worklogs : /\ l.account \notin Denied
                    /\ \E m \in MergeRequestsOf(t) : Shape[m].key # None /\ Shape[m].key = l.key}
Assigned(l) ==
  IF l.account # None /\ ByAccount[l.account] # None THEN ByAccount[l.account]
  ELSE IF l.author # None /\ ByAuthor[l.author] # None THEN ByAuthor[l.author] ELSE <<None, None>>
WorklogHours(t) ==
  LET all == WorklogsFor(t)
      Sum(S) == MapThenSumSet(LAMBDA l : l.seconds, S)
      role(l) == IF Assigned(l)[1] \in {"pm", "dev", "qa", "sup"} THEN Assigned(l)[1] ELSE None
  IN  [total |-> Sum(all),
       roles |-> {[role |-> r, seconds |-> Sum({l \in all : role(l) = r})] : r \in {"pm", "dev", "qa", "sup", None}},
       teams |-> {[team |-> m, seconds |-> Sum({l \in all : Assigned(l)[2] = m})] : m \in {Assigned(l)[2] : l \in all}}]
-----------------------------------------------------------------------------
AllPages(page(_), n) == UNION {ToSet(page(i)) : i \in 0..n}
MaxSize == 2

(* Every list, page by page, is as long as the statement that counts it says, and holds *)
(* nothing twice.                                                                       *)
ListsAreCounted ==
  \A repos \in Selections, size \in 1..MaxSize :
    LET n == Cardinality(Tags)
    IN  /\ Cardinality(AllPages(LAMBDA i : CustomerReleasesPage(repos, i, size), n)) = CountCustomerReleases(repos)
        /\ Cardinality(AllPages(LAMBDA i : FailedPage(repos, i, size), n)) = CountFailed(repos)
        /\ \A e \in AllPages(LAMBDA i : FailedPage(repos, i, size), n) : e.issues = CountBugs(e.tag)
        /\ \A t \in Customers(repos) :
             /\ Cardinality(AllPages(LAMBDA i : MergeRequestsPage(t, i, size), Cardinality(Requests))) = CountMergeRequests(t)
             /\ CountWithKey(t) <= CountMergeRequests(t)

(* The lists add up to the figures: the failed releases of a window are the numerator of *)
(* its failure rate, and the merge requests marked as included its lead time cohort.    *)
ListsMatchFigures ==
  \A r \in Repos, from, to \in 0..today :
    LET w == [start |-> from, end |-> to]
        there == {t \in Customers({r}) : In(released[t].day, w)}
        included == UNION {{e.request : e \in {e \in ToSet(MergeRequestsPage(t, 0, Cardinality(Requests))) : e.included}}
                            : t \in there}
    IN  from <= to =>
          /\ there # {} => ChangeFailureRate(r, w) = Ratio(Cardinality(there \cap Failed({r})), Cardinality(there))
          /\ included = Cohort({r}, w)

(* Every incident of a window is in one bin, on one path and at one release, and the     *)
(* percentiles lie between the smallest and the largest time, in order.                 *)
IncidentsAddUp ==
  \A type \in Types, to \in 0..today :
    LET w == MttrWindow(type, None, to)
        s == Summary(w)
    IN  /\ MapThenSumSet(LAMBDA n : s.histogram[n], DOMAIN Bins) = s.count
        /\ MapThenSumSet(LAMBDA p : p.count, s.paths) = s.count
        /\ MapThenSumSet(LAMBDA e : e.issues, AllPages(LAMBDA i : FixReleasesPage(w, i, 1), Cardinality(Tags))) = s.count
        /\ Cardinality(AllPages(LAMBDA i : IncidentsPage(w, None, i, 1), Cardinality(Bugs))) = CountIncidents(w, None)
        /\ s.count > 0 => /\ \A n \in 1..4 : s.percentiles[n] <= s.percentiles[n + 1]
                          /\ s.median <= s.percentiles[2] /\ s.percentiles[1] <= s.median

(* The hours by role and the hours by team are both all the hours. *)
HoursAddUp ==
  \A t \in Tags : LET h == WorklogHours(t)
                  IN  /\ MapThenSumSet(LAMBDA e : e.seconds, h.roles) = h.total
                      /\ MapThenSumSet(LAMBDA e : e.seconds, h.teams) = h.total

ViewsAgree == ListsAreCounted /\ ListsMatchFigures /\ IncidentsAddUp /\ HoursAddUp
=============================================================================
