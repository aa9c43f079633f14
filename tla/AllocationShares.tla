--------------------------- MODULE AllocationShares ---------------------------
(* What a rebuild of monthly effort writes (jira_analytics/allocation): a topic row  *)
(* and a direct row for every worklog of a person who produces, and the clocked      *)
(* hours of the others as overhead and as shares of the topics, project by project.  *)
(* AllocationRebuild has the transactions; here a rebuild is one step.  Worklogs are *)
(* in seconds, hours in ten-thousandths, as the columns keep them.                   *)
EXTENDS Integers, FiniteSetsExt, Functions

CONSTANTS Persons, Months, MonthOf,  \* day -> its month
          FirstDay,      \* month -> its first day
          Work,          \* worklogs: [id, person, day, issue, seconds]
          Issue,         \* issue -> [root, type, project, team]
          Excluded,      \* projects that no report reads
          Direct,        \* roles that produce
          Rule,          \* role -> [indirect, overhead, scope], of the active rules
          Histories,     \* sequences of assignments [role, team, percentage, scope, from, to]
          Clocks,        \* hours that HRworks may report for a month: [planned, clocked]
          None, MaxEdits

VARIABLES worklogs, assigned, excluded, clocked,  \* what the rebuild reads
          topics,   \* table monthly_topic_effort_base
          effort,   \* table monthly_allocated_effort
          fresh,    \* months rebuilt since something they depend on changed
          edits

inputs == <<worklogs, assigned, excluded, clocked>>
vars == <<inputs, topics, effort, fresh, edits>>

(* Worklogs have been collected, and nothing is rebuilt yet. *)
Init == /\ worklogs = Work /\ assigned = [p \in Persons |-> <<>>] /\ excluded = {}
        /\ clocked = [p \in Persons |-> [m \in Months |-> None]]
        /\ topics = {} /\ effort = {} /\ fresh = {} /\ edits = 0

Round(n, d) == (2 * n + d) \div (2 * d)
-----------------------------------------------------------------------------
(* The assignment of a day: the latest valid one, else the latest that had begun,    *)
(* else the first one.                                                               *)
Valid(a, day) == a.from <= day /\ (a.to = None \/ a.to >= day)
AssignmentForUser(rows, day) ==
  IF rows = <<>> THEN None
  ELSE IF \E n \in DOMAIN rows : Valid(rows[n], day) THEN rows[Max({n \in DOMAIN rows : Valid(rows[n], day)})]
  ELSE IF rows[1].from <= day THEN rows[Max({n \in DOMAIN rows : rows[n].from <= day})]
  ELSE rows[1]
RoleOf(a) == IF a = None THEN None ELSE a.role
RoleForWorklog(w) ==
  IF w.person = None \/ w.person \in excluded THEN None ELSE RoleOf(AssignmentForUser(assigned[w.person], w.day))

ClassifyTopicType(issue) ==
  CASE issue.root # None -> "feature"
    [] issue.root = None /\ issue.type = "Tech Support" -> "tech_support"
    [] issue.root = None /\ issue.type = "Bug" -> "unassigned_bug"
    [] issue.root = None /\ issue.type = None -> "unclassified"
    [] OTHER -> "issue_without_feature"

Booked(m) == {w \in worklogs : MonthOf[w.day] = m /\ Issue[w.issue].project \notin Excluded}
TopicRow(w, m) == [month |-> m, of |-> w.id, issue |-> w.issue, topic |-> ClassifyTopicType(Issue[w.issue]),
                   team |-> Issue[w.issue].team, person |-> w.person, role |-> RoleForWorklog(w), seconds |-> w.seconds]
RefreshTopicBase(m) == {TopicRow(w, m) : w \in {w \in Booked(m) : RoleForWorklog(w) \in Direct}}

(* The percentage of the assignment goes before the overhead of its rule. *)
OverheadOf(rule, a) == IF a.percentage # None THEN 100 - a.percentage ELSE rule.overhead
ScopeOf(rule, a) == IF a.scope # None THEN a.scope ELSE rule.scope

(* An effort row tells of a topic, or of none. *)
NoTopic(team) == [of |-> None, issue |-> None, topic |-> "shared_overhead", team |-> team]
EffortRow(kind, m, person, role, t, hours) ==
  [kind |-> kind, month |-> m, person |-> person, role |-> role,
   of |-> t.of, issue |-> t.issue, topic |-> t.topic, team |-> t.team, hours |-> hours]
DirectRow(t) == EffortRow("direct_worklog", t.month, t.person, t.role, t, Round(t.seconds * 25, 9))

(* A person's hours are divided among the projects by their direct hours, and in a    *)
(* project among its topics; with scope team_only among those of the person's team   *)
(* (names are compared without case and surrounding blanks),                         *)
(* which for a person without a team are the topics without one.                     *)
Eligible(topicRows, scope, team) == {t \in topicRows : scope = "team_only" => t.team = team}
Seconds(topicRows) == SumFunction([t \in topicRows |-> t.seconds])
InProject(topicRows, t) == {u \in topicRows : Issue[u.issue].project = Issue[t.issue].project}
Share(t, allocatable, total, project) ==
  Round(allocatable * Seconds(project) * t.seconds, 100 * total * Seconds(project))
IndirectRow(p, m, role, eligible, allocatable, t) ==
  EffortRow("indirect_allocated", m, p, role, t, Share(t, allocatable, Seconds(eligible), InProject(eligible, t)))
AllocateIndirect(p, m, role, eligible, allocatable) ==
  IF allocatable <= 0 \/ Seconds(eligible) = 0 THEN {}
  ELSE {IndirectRow(p, m, role, eligible, allocatable, t)
          : t \in {t \in eligible : Seconds(InProject(eligible, t)) > 0}}

Overhead(p, m, a, hundredths) ==
  IF hundredths <= 0 THEN {}
  ELSE {EffortRow("shared_overhead", m, p, a.role, NoTopic(a.team), Round(hundredths, 100))}
SharesOf(p, m, a, rule, worked, eligible) ==
  Overhead(p, m, a, worked * OverheadOf(rule, a))
  \cup AllocateIndirect(p, m, a.role, eligible, worked * (100 - OverheadOf(rule, a)))
IndirectRows(p, m, topicRows, a) ==
  IF RoleOf(a) \notin DOMAIN Rule \/ clocked[p][m] = None THEN {}
  ELSE IF ~ Rule[a.role].indirect THEN {}
  ELSE SharesOf(p, m, a, Rule[a.role], clocked[p][m].clocked,
                Eligible(topicRows, ScopeOf(Rule[a.role], a), a.team))

(* The role of the month is the one of its first day. *)
AllocatePeriod(m, topicRows) ==
  {DirectRow(t) : t \in topicRows}
  \cup UNION {IndirectRows(p, m, topicRows, AssignmentForUser(assigned[p], FirstDay[m])) : p \in Persons \ excluded}

(* Without months, those that have worklogs. *)
DistinctWorklogMonths == {MonthOf[w.day] : w \in {w \in worklogs : Issue[w.issue].project \notin Excluded}}
RebuildMonthlyAllocation(months) ==
  /\ topics' = {t \in topics : t.month \notin months} \cup UNION {RefreshTopicBase(m) : m \in months}
  /\ effort' = {e \in effort : e.month \notin months} \cup UNION {AllocatePeriod(m, RefreshTopicBase(m)) : m \in months}
  /\ fresh' = fresh \cup months
  /\ UNCHANGED <<inputs, edits>>
-----------------------------------------------------------------------------
(* The admin, Jira and HRworks change what it reads. *)
Edit == edits < MaxEdits /\ edits' = edits + 1 /\ UNCHANGED <<topics, effort>>
Book(w) ==
  /\ Edit
  /\ worklogs' = IF w \in worklogs THEN worklogs \ {w} ELSE worklogs \cup {w}
  /\ fresh' = fresh \ {MonthOf[w.day]}
  /\ UNCHANGED <<assigned, excluded, clocked>>
Assign(p, history) ==
  /\ Edit /\ history # assigned[p]
  /\ assigned' = [assigned EXCEPT ![p] = history] /\ fresh' = {}
  /\ UNCHANGED <<worklogs, excluded, clocked>>
Exclude(p) ==
  /\ Edit
  /\ excluded' = IF p \in excluded THEN excluded \ {p} ELSE excluded \cup {p}
  /\ fresh' = {}
  /\ UNCHANGED <<worklogs, assigned, clocked>>
Clock(p, m, hours) ==
  /\ Edit /\ hours # clocked[p][m]
  /\ clocked' = [clocked EXCEPT ![p][m] = hours] /\ fresh' = fresh \ {m}
  /\ UNCHANGED <<worklogs, assigned, excluded>>

Next == \/ \E w \in Work : Book(w)
        \/ \E p \in Persons : \/ Exclude(p)
                              \/ \E history \in Histories : Assign(p, history)
                              \/ \E m \in Months, hours \in Clocks : Clock(p, m, hours)
        \/ \E months \in {DistinctWorklogMonths} \cup {{m} : m \in Months} : RebuildMonthlyAllocation(months)
Spec == Init /\ [][Next]_vars
-----------------------------------------------------------------------------
TypeOK == /\ worklogs \subseteq Work /\ excluded \subseteq Persons /\ fresh \subseteq Months
          /\ \A e \in effort : e.month \in Months /\ e.hours \in Nat /\ e.person \in Persons
          /\ edits \in 0..MaxEdits

Hours(rows) == SumFunction([e \in rows |-> e.hours])
Of(p, m, kind) == {e \in effort : e.person = p /\ e.month = m /\ e.kind = kind}
Near(a, b, n) == 2 * a <= 2 * b + n /\ 2 * b <= 2 * a + n

(* The hours that HRworks clocked for a person are all in the person's rows, but for   *)
(* the rounding of each row, unless no topic may take a share of them.                *)
ClockedHoursAreShared ==
  \A m \in fresh, p \in Persons :
    LET rows == Of(p, m, "indirect_allocated")
        overhead == Of(p, m, "shared_overhead")
    IN  rows # {} => Near(Hours(rows) + Hours(overhead), clocked[p][m].clocked, Cardinality(rows) + Cardinality(overhead))

(* Nobody's hours are counted as worklogs and again as shares, unless the person's     *)
(* role changes within the month.                                                     *)
RolesIn(p, m) == {RoleOf(AssignmentForUser(assigned[p], d)) : d \in {d \in DOMAIN MonthOf : MonthOf[d] = m}}
HoursAreCountedOnce ==
  \A m \in fresh, p \in Persons :
    Of(p, m, "direct_worklog") # {} /\ Of(p, m, "indirect_allocated") \cup Of(p, m, "shared_overhead") # {}
      => Cardinality(RolesIn(p, m)) > 1

(* The two tables of a month tell of the same worklogs, those of the month, and nobody  *)
(* who is excluded or has no role is in them.                                         *)
SharesAreOfTopics ==
  \A m \in fresh :
    LET ids == {t.of : t \in {t \in topics : t.month = m}}
    IN  /\ {e.of : e \in {e \in effort : e.month = m}} \subseteq ids \cup {None}
        /\ ids = {e.of : e \in {e \in effort : e.month = m /\ e.kind = "direct_worklog"}}
        /\ \A e \in {e \in effort : e.month = m} : e.person \notin excluded /\ assigned[e.person] # <<>>

EffortAddsUp == ClockedHoursAreShared /\ HoursAreCountedOnce /\ SharesAreOfTopics
=============================================================================
