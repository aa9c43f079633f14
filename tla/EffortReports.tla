---------------------------- MODULE EffortReports ----------------------------
(* The reports on effort (jira_analytics/reports/reports_service.py) as the tables   *)
(* of a rebuild, the assignments and the clocked hours stand when they are asked     *)
(* for.  They know the team of a person in three ways: as SQL finds it in the         *)
(* assignments, as the assignment service resolves it, and as the team of the issue. *)
(* Figures are not rounded for display here.                                         *)
EXTENDS AllocationShares

CONSTANTS Produced,        \* roles of the heatmap, Developer and QA
          CapacityTeams,   \* teams of the capacity forecast
          ReportTeams,     \* teams of the report on interruptions
          HighEffort, ManyPeople,  \* thresholds for issues without a feature
          Started,         \* issue -> its last start [day, age, raised, activity], or None
          RecentBug, Recent,       \* ages at which a start is an interruption
          Unknown          \* the team of those who have none

Teams == {a.team : a \in UNION {{h[n] : n \in DOMAIN h} : h \in Histories}} \ {None}
Bounds == {b \in [from : DOMAIN MonthOf, to : DOMAIN MonthOf] : b.from <= b.to}

(* Months touched by the days asked for, and months whose first day is one of them.  *)
MonthlyPeriodBounds(b) == {m \in Months : MonthOf[b.from] <= m /\ m <= MonthOf[b.to]}
FirstDaysIn(b) == {m \in Months : b.from <= FirstDay[m] /\ FirstDay[m] <= b.to}

Kinds == {"direct_worklog", "indirect_allocated"}
AllocatedEffort(months) == {e \in effort : e.month \in months /\ e.kind \in Kinds}
-----------------------------------------------------------------------------
(* The assignment of a person as the assignment service resolves it: with a team     *)
(* before one without, when none is valid.                                          *)
Latest(some) == CHOOSE a \in some : \A b \in some : b.from <= a.from
PreferBest(some) ==
  LET teamed == {a \in some : a.team # None} IN IF teamed = {} THEN Latest(some) ELSE Latest(teamed)
PickAssignment(some, day) ==
  CASE some = {} -> None
    [] \E a \in some : Valid(a, day) -> Latest({a \in some : Valid(a, day)})
    [] (\E a \in some : a.from <= day) /\ ~ \E a \in some : Valid(a, day) -> PreferBest({a \in some : a.from <= day})
    [] OTHER -> PreferBest(some)
AssignmentsOf(p) == {assigned[p][n] : n \in DOMAIN assigned[p]}
AssignmentForAllocatedSource(p, day) == PickAssignment(AssignmentsOf(p), day)

NormalizedTeam(team) == IF team = None THEN Unknown ELSE team
TeamOf(p, m) ==
  LET a == AssignmentForAllocatedSource(p, FirstDay[m]) IN IF a = None THEN Unknown ELSE NormalizedTeam(a.team)

(* The assignments that SQL joins, valid on the first day of the month. *)
JoinedTeams(e) == {a.team : a \in {a \in AssignmentsOf(e.person) : Valid(a, FirstDay[e.month])}} \ {None}
FilterByAssignmentTeam(rows, team) == {e \in rows : team = None \/ team \in JoinedTeams(e)}
AvailableAssignmentTeams(months) == UNION {JoinedTeams(e) : e \in AllocatedEffort(months)}

(* Hours per month and kind of investment. *)
Category(topic) ==
  CASE topic = "feature" -> "feature"
    [] topic = "tech_support" -> "support"
    [] topic = "unassigned_bug" -> "bugs_without_feature"
    [] topic = "issue_without_feature" -> "small_improvements"
    [] OTHER -> "unclassified"
ByCategory(rows) ==
  {[period |-> e.month, category |-> Category(e.topic),
    hours |-> Hours({f \in rows : f.month = e.month /\ Category(f.topic) = Category(e.topic)})] : e \in rows}
InvestmentCategory(b, team) == ByCategory(FilterByAssignmentTeam(AllocatedEffort(MonthlyPeriodBounds(b)), team))
-----------------------------------------------------------------------------
(* Features: rows of the team of the issue, in the months that begin in the days.    *)
FeatureRows(b, team) ==
  {e \in effort : e.month \in FirstDaysIn(b) /\ e.topic = "feature" /\ team \in {None, e.team}}
Root(e) == Issue[e.issue].root
Costs(key, rows) ==
  [feature |-> key, total |-> Hours(rows),
   by |-> {[kind |-> e.kind, role |-> e.role,
            hours |-> Hours({f \in rows : f.kind = e.kind /\ f.role = e.role})] : e \in rows}]
CostsOf(rows) == {Costs(key, {e \in rows : Root(e) = key}) : key \in {Root(e) : e \in rows}}
FeatureCost(b, team) == CostsOf(FeatureRows(b, team))

(* The ranking has columns for some roles only; its total has the rest as well.  Of   *)
(* features with equal totals any may be cut off.                                    *)
InvestmentRoleBucket(e) ==
  CASE e.kind = "direct_worklog" /\ e.role \in {"dev", "qa", "ux"} -> e.role
    [] e.kind = "indirect_allocated" /\ e.role = "pm" -> "product_overhead"
    [] e.kind = "indirect_allocated" /\ e.role = "architect" -> "dev_overhead"
    [] OTHER -> None
Buckets == {"dev", "qa", "ux", "product_overhead", "dev_overhead"}
Ranked(key, rows) ==
  [feature |-> key, total |-> Hours(rows),
   columns |-> [k \in Buckets |-> Hours({e \in rows : InvestmentRoleBucket(e) = k})],
   series |-> {[period |-> m, total |-> Hours({e \in rows : e.month = m})] : m \in {e.month : e \in rows}}]
RankedFeatures(rows) == {Ranked(key, {e \in rows : Root(e) = key}) : key \in {Root(e) : e \in rows}}
InvestmentRankings(all, limit) ==
  {some \in SUBSET all : /\ Cardinality(some) = Min({limit, Cardinality(all)})
                         /\ \A r \in some, s \in all \ some : r.total >= s.total}

(* Issues without a feature, with the contributors and what is odd about them.       *)
Flagged(flag, holds) == IF holds THEN {flag} ELSE {}
Unassigned(issue, rows) ==
  [issue |-> issue, seconds |-> Seconds(rows), contributors |-> Cardinality({t.person : t \in rows}),
   flags |-> Flagged("high_effort", Seconds(rows) > HighEffort)
             \cup Flagged("many_people", Cardinality({t.person : t \in rows}) > ManyPeople)]
WithoutFeature(b, team) == {t \in topics : t.month \in FirstDaysIn(b) /\ Issue[t.issue].root = None /\ team \in {None, t.team}}
UnassignedIssues(rows) == {Unassigned(i, {t \in rows : t.issue = i}) : i \in {t.issue : t \in rows}}
IssuesWithoutFeature(b, team, least) == {s \in UnassignedIssues(WithoutFeature(b, team)) : s.seconds >= least}
-----------------------------------------------------------------------------
(* Hours of those who produce, by team as resolved, topic and person.  The team of    *)
(* each row is found once.                                                            *)
Teamed(rows) == {[team |-> TeamOf(e.person, e.month), row |-> e] : e \in rows}
HeatmapRows(months, team) ==
  {t \in Teamed({e \in AllocatedEffort(months) : e.role \in Produced}) : team \in {None, t.team}}
TeamedHours(rows) == Hours({t.row : t \in rows})
TopicLabel(e) == IF e.topic = "feature" THEN Root(e) ELSE e.topic
Cell(k, rows) ==
  [team |-> k.team, topic |-> k.topic, person |-> k.person,
   hours |-> [r \in Produced |-> TeamedHours({t \in rows : t.row.role = r})]]
CellKey(t) == [team |-> t.team, topic |-> TopicLabel(t.row), person |-> t.row.person]
WorkAllocationHeatmap(rows) ==
  {c \in {Cell(k, {t \in rows : CellKey(t) = k}) : k \in {CellKey(t) : t \in rows}} : \E r \in Produced : c.hours[r] > 0}
CellHours(c) == SumFunction([r \in Produced |-> c.hours[r]])

(* Planned work against the rest, by team and month.  Rows without a topic type are   *)
(* neither, but their teams and months are shown.                                    *)
Improvements == {"tech_support", "unassigned_bug", "issue_without_feature"}
FocusOf(k, rows) ==
  [team |-> k.team, month |-> k.month, roadmap |-> TeamedHours({t \in rows : t.row.topic = "feature"}),
   improvement |-> TeamedHours({t \in rows : t.row.topic \in Improvements})]
TeamMonth(t) == [team |-> t.team, month |-> t.row.month]
PlannedVsUnplanned(rows) ==
  {FocusOf(k, {t \in rows : TeamMonth(t) = k}) : k \in {TeamMonth(t) : t \in rows}}

(* Interruptions: an issue counts for the month of its last start and for the team    *)
(* that booked most of its hours.                                                    *)
TopicTypes(rows) == {t.row.topic : t \in rows}
Confidence(s, bug) ==
  CASE (bug /\ s.age <= RecentBug) \/ s.raised -> "high"
    [] s.age <= Recent -> IF s.activity THEN "high" ELSE "medium"
    [] s.activity -> "weak"
    [] OTHER -> "none"
HoursFor(rows, team) == TeamedHours({t \in rows : t.team = team})
MostOf(rows) ==
  LET names == {t.team : t \in rows}
  IN  CHOOSE n \in names : \A o \in names : \/ HoursFor(rows, n) > HoursFor(rows, o)
                                            \/ HoursFor(rows, n) = HoursFor(rows, o) /\ (o # n => n # Unknown)
Interruption(i, rows) ==
  [issue |-> i, team |-> MostOf(rows), month |-> MonthOf[Started[i].day],
   roadmap |-> TeamedHours({t \in rows : t.row.topic = "feature"}),
   improvement |-> TeamedHours({t \in rows : t.row.topic # "feature"}),
   confidence |-> Confidence(Started[i], "unassigned_bug" \in TopicTypes(rows) \/ Issue[i].type = "Bug")]
StartedIssues(b) == {i \in DOMAIN Issue : Started[i] # None /\ b.from <= Started[i].day /\ Started[i].day <= b.to}
InterruptionIssues(issues, rows) ==
  {x \in {Interruption(i, {t \in rows : t.row.issue = i}) : i \in {i \in issues : \E t \in rows : t.row.issue = i}} :
     x.roadmap + x.improvement > 0 /\ x.team \in ReportTeams}
IsInterrupted(x) == x.improvement > 0 /\ x.confidence \in {"high", "medium"}
InterruptionRow(k, some) ==
  [team |-> k.team, month |-> k.month,
   roadmap |-> SumFunction([x \in some |-> x.roadmap]), started |-> Cardinality({x \in some : x.roadmap > 0}),
   interrupting |-> SumFunction([x \in {x \in some : IsInterrupted(x)} |-> x.improvement]),
   maybe |-> Cardinality({x \in some : x.improvement > 0 /\ x.confidence = "weak"})]
RealInterruptionRatio(issues) ==
  {InterruptionRow(k, {x \in issues : x.team = k.team /\ x.month = k.month})
     : k \in {[team |-> x.team, month |-> x.month]
                : x \in {x \in issues : x.roadmap > 0 \/ IsInterrupted(x) \/ (x.improvement > 0 /\ x.confidence = "weak")}}}
-----------------------------------------------------------------------------
(* Hours that HRworks planned for those who produce, excluded persons too. *)
Producer(p, m) == RoleOf(AssignmentForAllocatedSource(p, FirstDay[m])) \in Produced
PlannedHours(p, m) == IF clocked[p][m] = None THEN 0 ELSE clocked[p][m].planned
Logged(p, m) == {t \in topics : t.person = p /\ t.month = m /\ t.role \in Produced}
Seen(p, m) == Producer(p, m) /\ (clocked[p][m] # None \/ Logged(p, m) # {})

(* Availability against booked hours; teams without availability are left out.        *)
AvailabilityCells(months, team) ==
  {c \in {[team |-> TeamOf(k[1], k[2]), month |-> k[2], person |-> k[1],
           available |-> PlannedHours(k[1], k[2]), logged |-> Seconds(Logged(k[1], k[2]))]
            : k \in {k \in Persons \X months : Seen(k[1], k[2])}} : team \in {None, c.team}}
Available(cells) == SumFunction([c \in cells |-> c.available])
AvailabilityVsBooked(cells) == {c \in cells : \E d \in cells : d.team = c.team /\ d.available > 0}
MissingHrworksPeople(table) == {c \in table : c.available = 0 /\ c.logged > 0}

(* The capacity forecast: persons assigned at the end of a month have a line even      *)
(* without hours, if an assignment touches the first days of the months; hours count   *)
(* for the team of the month's first day.                                            *)
LastDayOf(m) == Max({d \in DOMAIN MonthOf : MonthOf[d] = m})
Touches(a, months) ==
  a.from <= FirstDay[Max(months)] /\ (a.to = None \/ a.to >= FirstDay[Min(months)])
AssignedLines(months, teams) ==
  UNION {{[team |-> NormalizedTeam(a.team), role |-> a.role, person |-> p]
            : a \in {a \in AssignmentsOf(p) : /\ a.role \in Produced /\ NormalizedTeam(a.team) \in teams
                                              /\ Touches(a, months) /\ \E m \in months : Valid(a, LastDayOf(m))}}
           : p \in Persons}
Capacity(p, m) ==
  [team |-> TeamOf(p, m), role |-> RoleOf(AssignmentForAllocatedSource(p, FirstDay[m])), person |-> p,
   month |-> m, hours |-> PlannedHours(p, m)]
CapacityHours(months, teams) ==
  {c \in {Capacity(k[1], k[2]) : k \in {k \in Persons \X months : clocked[k[1]][k[2]] # None}} :
     c.role \in Produced /\ c.team \in teams}
LineKey(c) == [team |-> c.team, role |-> c.role, person |-> c.person]
CapacityTable(hours, lines) ==
  {[line |-> l, hours |-> Hours({c \in hours : LineKey(c) = l})] : l \in lines \cup {LineKey(c) : c \in hours}}
CapacitySeries(hours, months, teams) ==
  {[team |-> k[1], month |-> k[2], hours |-> Hours({c \in hours : c.team = k[1] /\ c.month = k[2]})] : k \in teams \X months}
-----------------------------------------------------------------------------
(* The properties of the reports compare figures of different reports in the same      *)
(* state.  A page of the heatmap for each team has the rows of the page of all teams,  *)
(* and with the hours of no topic type the two kinds of work make up the heatmap.      *)
HeatmapAgrees(b) ==
  LET rows == HeatmapRows(MonthlyPeriodBounds(b), None)
      unclassified == {t \in rows : t.row.topic = "unclassified"}
      focus == PlannedVsUnplanned(rows)
      cells == WorkAllocationHeatmap(rows)
  IN  /\ UNION {WorkAllocationHeatmap(HeatmapRows(MonthlyPeriodBounds(b), team)) : team \in Teams \cup {Unknown}} = cells
      /\ SumFunction([c \in cells |-> CellHours(c)]) =
           TeamedHours(unclassified) + SumFunction([f \in focus |-> f.roadmap + f.improvement])

(* The report on interruptions has every hour of the heatmap at most once, though the   *)
(* hours of an issue may be of several teams and months.                              *)
InterruptionsAgree(b) ==
  LET rows == {t \in HeatmapRows(MonthlyPeriodBounds(b), None) : t.row.topic \in Improvements \cup {"feature"}}
      issues == InterruptionIssues(StartedIssues(b), rows)
      table == RealInterruptionRatio(issues)
      count == SumFunction([r \in table |-> r.roadmap + r.interrupting])
  IN  /\ count <= TeamedHours({t \in rows : t.row.issue \in StartedIssues(b)})
      /\ count + SumFunction([x \in issues |-> IF IsInterrupted(x) THEN 0 ELSE x.improvement])
           = SumFunction([x \in issues |-> x.roadmap + x.improvement])

(* The page of a team has no more than the page of all, and what all pages lack is the *)
(* work of persons without an assignment that is valid that day and names a team.      *)
InvestmentAgrees(b) ==
  LET rows == AllocatedEffort(MonthlyPeriodBounds(b))
      ofTeams == UNION {FilterByAssignmentTeam(rows, team) : team \in AvailableAssignmentTeams(MonthlyPeriodBounds(b))}
      once == \A e \in rows : Cardinality(JoinedTeams(e)) <= 1
      pages == SumFunction([team \in Teams |-> Hours(InvestmentCategory(b, team))])
  IN  /\ Hours(InvestmentCategory(b, None)) = Hours(rows)
      /\ once => pages = Hours(ofTeams)
      /\ \A e \in rows \ ofTeams : LET a == AssignmentForAllocatedSource(e.person, FirstDay[e.month])
                                   IN  a # None /\ Valid(a, FirstDay[e.month]) => a.team = None

(* Both reports on features give the same totals, columns and months stay below them,   *)
(* and with whole months they are the investment in features.                         *)
FeaturesAgree(b, team) ==
  LET costs == FeatureCost(b, team)
      ranked == RankedFeatures(FeatureRows(b, team))
  IN  /\ {<<c.feature, c.total>> : c \in costs} = {<<r.feature, r.total>> : r \in ranked}
      /\ \A c \in costs : Hours(c.by) = c.total
      /\ \A r \in ranked : /\ SumFunction([k \in Buckets |-> r.columns[k]]) <= r.total
                           /\ SumFunction([s \in r.series |-> s.total]) = r.total
      /\ \A table \in InvestmentRankings(ranked, 1) : \A r \in table, c \in costs : c.total <= r.total
      /\ team = None /\ b.from \in {FirstDay[m] : m \in Months} =>
           SumFunction([c \in costs |-> c.total])
             = Hours({i \in InvestmentCategory(b, None) : i.category = "feature"})

(* Every second booked by someone who produces is with a feature or with an issue        *)
(* without one.                                                                        *)
UnassignedAgrees(b) ==
  LET rows == {t \in topics : t.month \in FirstDaysIn(b)}
  IN  SumFunction([s \in IssuesWithoutFeature(b, None, 0) |-> s.seconds])
        + Seconds({t \in rows : t.topic = "feature"}) = Seconds(rows)

(* The forecast and the availability have the same hours for a team and month, and a     *)
(* row for every person of the heatmap's teams.                                       *)
CapacityAgrees(b) ==
  LET months == MonthlyPeriodBounds(b)
      teams == CapacityTeams
      hours == CapacityHours(months, teams)
      table == CapacityTable(hours, AssignedLines(months, teams))
      cells == AvailabilityCells(months, None)
  IN  /\ SumFunction([l \in table |-> l.hours]) = SumFunction([s \in CapacitySeries(hours, months, teams) |-> s.hours])
      /\ \A s \in CapacitySeries(hours, months, teams) :
           s.hours = Available({c \in cells : c.team = s.team /\ c.month = s.month})
      /\ Available(AvailabilityVsBooked(cells)) = Available(cells)
      /\ \A c \in cells \ AvailabilityVsBooked(cells) : c \in MissingHrworksPeople(cells) \/ c.logged = 0

(* A person whose assignment is valid that day has one role in the rebuild and in the    *)
(* reports, and the team of the reports is one that SQL joins.                         *)
AssignmentsAgree ==
  \A p \in Persons, day \in DOMAIN MonthOf :
    LET a == AssignmentForAllocatedSource(p, day)
    IN  a # None /\ Valid(a, day) => AssignmentForUser(assigned[p], day) = a

ReportsAgree ==
  /\ AssignmentsAgree
  /\ \A b \in Bounds : /\ HeatmapAgrees(b) /\ InterruptionsAgree(b) /\ InvestmentAgrees(b)
                       /\ UnassignedAgrees(b) /\ CapacityAgrees(b)
                       /\ \A team \in {None} \cup Teams : FeaturesAgree(b, team)
=============================================================================
