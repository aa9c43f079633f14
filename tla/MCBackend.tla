------------------------------ MODULE MCBackend ------------------------------
(* One instance of each part of the backend, for TLC.  A behaviour is one of one   *)
(* part, which Init chooses; the others rest.  SnapshotRefresh and SyncPipelines   *)
(* have variables of their own, the rest share the slots s1 to s14, in the order   *)
(* in which their modules declare their variables.                                 *)
EXTENDS SnapshotRefresh, TLC

CONSTANTS None, Done

VARIABLES part,
          row, old, thread, written, included,
          s1, s2, s3, s4, s5, s6, s7, s8, s9, s10, s11, s12, s13, s14

pipelineVars == <<row, old, thread, written, included>>
from12 == <<s12, s13, s14>>
from10 == <<s10, s11, from12>>
from9 == <<s9, from10>>
from8 == <<s8, from9>>
from6 == <<s6, s7, from8>>
from4 == <<s4, s5, from6>>
from3 == <<s3, from4>>
slots == <<s1, s2, from3>>
shared == <<pipelineVars, vars>>
backendVars == <<part, slots, shared>>
-----------------------------------------------------------------------------
(* Synchronisation of hours and issues. *)
Pipelines == INSTANCE SyncPipelines WITH
  HrRuns <- {"h1"}, JiraRuns <- {"j1"}, Months <- {1, 2}

(* GitLab and Jira: tags with and without the leading v, one of a pre-release, a     *)
(* first commit dated after the merge, a bug that counts or does not, and a title that  *)
(* names the bug at first.                                                          *)
DoraVersion(t) == IF t = "v1" THEN "1" ELSE t
DoraIssue(healthy, affects, fix) ==
  [isBug |-> TRUE, healthy |-> healthy, urgent |-> TRUE, affects |-> affects, fix |-> fix, created |-> 1, ready |-> 1]
Dora == INSTANCE DoraWarehouse WITH
  Tags <- {"v1", "1", "2", "2-rc"}, CustomerTags <- {"v1", "1", "2"},
  TagDate <- ("v1" :> 0 @@ "1" :> 1 @@ "2-rc" :> 2 @@ "2" :> 2), Version <- DoraVersion,
  Requests <- {"q1"}, MergedAt <- ("q1" :> 1), FirstCommit <- ("q1" :> 2), Carries <- ("q1" :> {"v1", "1", "2-rc"}),
  Keys <- {"k1"}, Issues <- {DoraIssue(TRUE, "1", "2"), DoraIssue(FALSE, "2", "1")},
  Lookback <- 1, GuardAbove <- 2, FirstDay <- 2, LastDay <- 3, MaxEdits <- 1,
  tags <- s1, titles <- s2, issue <- s3, edits <- s4, today <- s5, stage <- s6, failed <- s7,
  release <- s8, mr <- s9, bug <- s10, link <- s11

Fetch == INSTANCE PagedFetch WITH
  Items <- {"a", "b", "c"}, PageSize <- 2, Caps <- {1, 2, 3}, Attempts <- 4, MaxChanges <- 1,
  Kinds <- {"tags", "merge_requests", "commits", "refs", "persons", "worklogs", "changelog", "workflows", "search"},
  kind <- s1, list <- s2, cap <- s3, base <- s4, inserted <- s5, touched <- s6, removed <- s7, offset <- s8,
  got <- s9, attempt <- s10, login <- s11, token <- s12, calls <- s13, outcome <- s14

(* Two persons, one of them with a business address that is another user's. *)
Hrworks == INSTANCE HrworksData WITH
  Persons <- {"p1", "p2"}, Mails <- ("p1" :> [id |-> "e1", business |-> None] @@ "p2" :> [id |-> "e3", business |-> "e2"]),
  Users <- {1, 3}, MailOf <- (1 :> "e1" @@ 3 :> "e2"), Months <- {1, 2}, MaxChanges <- 1,
  hr <- s1, users <- s2, denied <- s3, changes <- s4, roster <- s5, stale <- s6, hours <- s7, run <- s8

Periods == INSTANCE HrworksPeriods WITH
  Dates <- {2025, 2026} \X {1, 6, 7, 12} \X {1, 31}, Backs <- {-1, 0, 3, 13}, Forecasts <- {-1, 0, 6},
  FullYears <- <<2024, 2025>>, Forecast <- 6, Longest <- 48,
  today <- s1, mode <- s2, back <- s3, ahead <- s4, windows <- s5

(* At first a parent, its child and an issue that may take over the parent's key. *)
JiraIssue(k, up) == [key |-> k, up |-> up]
Ingest == INSTANCE JiraIngest WITH
  Ids <- {1, 2, 3}, Keys <- {"A", "B", "C"}, Parents <- {"A"}, MaxRuns <- 2, MaxEdits <- 2,
  First <- {<<JiraIssue("A", None), JiraIssue("B", "A"), JiraIssue("C", None)>>},
  jira <- s1, edits <- s2, table <- s3, session <- s4, run <- s5

(* Bugs as they are judged, and bugs with a history of their status. *)
ParentBugs == [type : {"bug", "epic", "story"}, testing : BOOLEAN, affects : {{}, {1}}, fix : {{}, {2}, {0}},
               exalate : {FALSE}, customers : {{}, {"plunet"}}]
JudgedBugs == [labels : {{}, {"test"}, {"ignored"}}, affects : {{}, {1}, {0}}, fix : {{}, {1}, {2}}, exalate : BOOLEAN,
               customers : {{}, {"plunet"}, {"plunet", "acme"}}, parent : {None} \cup ParentBugs,
               history : {<<>>}, embedded : {None}]
DatedBugs == [labels : {{}}, affects : {{1}}, fix : {{1}}, exalate : {TRUE}, customers : {{}}, parent : {None},
              history : {<<[day |-> 3, ready |-> a], [day |-> 2, ready |-> b], [day |-> 1, ready |-> c]>> :
                           a, b, c \in BOOLEAN},
              embedded : {None, 0, 1, 3}]
Health == INSTANCE BugHealth WITH Bugs <- JudgedBugs \cup DatedBugs, NextMinor <- 0, Plunet <- "plunet", bug <- s1, judged <- s2
-----------------------------------------------------------------------------
Assignments == INSTANCE UserAssignments WITH
  Users <- {"u1"}, Requests <- {1, 2, 3}, Roles <- ("Developer" :> "global" @@ "QA" :> "team_only"),
  Teams <- {"none", "T"}, NoTeam <- "none", LastDay <- 3,
  known <- s1, excluded <- s2, rows <- s3, today <- s4, request <- s5

Membership == INSTANCE FeatureMembership WITH
  Issues <- {"P", "Q", "s", "t"}, Pmgt <- {"P", "Q"}, Sources <- {"issue_link", "parent", "subtask"},
  Key <- ("P" :> 1 @@ "Q" :> 2 @@ "s" :> 3 @@ "t" :> 4), MaxDepth <- 2, MaxEdits <- 2,
  kind <- s1, archived <- s2, parent <- s3, links <- s4, root <- s5, member <- s6, fresh <- s7, edits <- s8

(* Two persons, of whom one has worked as a manager, issues of and without a feature *)
(* or a type, and months of two days.                                               *)
Assignment(role, team, percentage, scope, from, to) ==
  [role |-> role, team |-> team, percentage |-> percentage, scope |-> scope, from |-> from, to |-> to]
Worklog(id, person, day, issue, seconds) == [id |-> id, person |-> person, day |-> day, issue |-> issue, seconds |-> seconds]
IssueOf(root, type, project, team) == [root |-> root, type |-> type, project |-> project, team |-> team]
RuleOf(indirect, overhead) == [indirect |-> indirect, overhead |-> overhead, scope |-> "global"]
StartOf(day, age, activity) == [day |-> day, age |-> age, raised |-> FALSE, activity |-> activity]
Reports == INSTANCE EffortReports WITH
  Persons <- {"ann", "bob"}, Months <- {1, 2}, MonthOf <- <<1, 1, 2, 2>>, FirstDay <- <<1, 3>>,
  Work <- {Worklog(1, "ann", 2, "i", 36), Worklog(2, "ann", 1, "j", 13), Worklog(3, "bob", 2, "k", 7),
           Worklog(4, None, 3, "i", 7), Worklog(5, "ann", 4, "k", 7)},
  Issue <- ("i" :> IssueOf("r", "Story", 1, "A") @@ "j" :> IssueOf(None, "Bug", 1, None) @@ "k" :> IssueOf(None, None, 2, "A")),
  Excluded <- {3}, Direct <- {"dev"}, Rule <- ("dev" :> RuleOf(FALSE, 0) @@ "pm" :> RuleOf(TRUE, 20)),
  Histories <- {<<Assignment("dev", "A", None, None, 2, None)>>,
                <<Assignment("pm", "A", 70, "team_only", 1, 1), Assignment("dev", "B", None, None, 2, None)>>,
                <<Assignment("pm", None, None, None, 1, 2)>>},
  Clocks <- {[planned |-> 200, clocked |-> 100], [planned |-> 100, clocked |-> 0]}, MaxEdits <- 3,
  Produced <- {"dev", "qa"}, CapacityTeams <- {"A", "B"}, ReportTeams <- {"A", "B"}, HighEffort <- 20, ManyPeople <- 1,
  Started <- ("i" :> StartOf(2, 3, TRUE) @@ "j" :> StartOf(3, 2, FALSE) @@ "k" :> None),
  RecentBug <- 2, Recent <- 1, Unknown <- "Unknown",
  worklogs <- s1, assigned <- s2, excluded <- s3, clocked <- s4, topics <- s5, effort <- s6, fresh <- s7, edits <- s8

(* Hours of issues, of an epic, of the issue of a feature, without an issue, without *)
(* a feature, of a project left out and of shared overhead.                          *)
AllocatedRow(id, root, issue, topic, type, role, team, kind, project) ==
  [id |-> id, root |-> root, issue |-> issue, topic |-> topic, type |-> type, role |-> role,
   team |-> team, kind |-> kind, project |-> project]
EffortRows ==
  {AllocatedRow(1, "r1", "i1", "pmgt_feature", "Story", "Developer", "A", "direct", "X"),
   AllocatedRow(2, "r1", "e1", "pmgt_feature", "Epic", "QA", "B", "direct", "X"),
   AllocatedRow(3, "r1", "p1", "pmgt_feature", "Project", "Developer", "A", "direct", "X"),
   AllocatedRow(4, "r2", None, "pmgt_feature", None, "Product Manager", "A", "indirect", "X"),
   AllocatedRow(5, "r2", "i2", "unassigned_bug", "Bug", None, "B", "direct", "X"),
   AllocatedRow(6, None, "i3", "unassigned_bug", "Bug", "QA", "B", "direct", "X"),
   AllocatedRow(7, None, None, "overhead", None, "Developer", "A", "indirect", "X"),
   AllocatedRow(8, None, "i4", "issue_without_feature", "Epic", "QA", "A", "direct", "ITS"),
   AllocatedRow(9, None, None, "overhead", None, "Developer", "A", "shared_overhead", "X")}
Features == INSTANCE FeatureReports WITH
  Families <- {"f1", "f2"}, Roots <- {"r1", "r2"}, Tokens <- {"invoice"}, Effort <- EffortRows, Excluded <- {"ITS"},
  RootIssue <- ("r1" :> "p1" @@ "r2" :> "p2"), Epics <- {"e1"},
  Above <- ("i1" :> "e1" @@ "e1" :> "p1" @@ "p1" :> None @@ "p2" :> None @@ "i2" :> "e1" @@ "i3" :> None @@ "i4" :> None),
  MemberIssues <- ("r1" :> {"p1", "e1", "i1"} @@ "r2" :> {"p2", "i2"}),
  Title <- ("r1" :> {"invoice"} @@ "r2" :> {"invoice"}), Implementers <- ("r1" :> {"i1", "e1"} @@ "r2" :> {"i2"}),
  Buckets <- ("Developer" :> "dev" @@ "QA" :> "qa" @@ "Product Manager" :> "pm"),
  Filters <- [role : {None, "dev", "unmapped"}, team : {None, "B"}], MaxEdits <- 4,
  family <- s1, memberOf <- s2, decisions <- s3, shown <- s4, activeRoots <- s5, progress <- s6, edits <- s7

Workflow == INSTANCE WorkflowSync WITH
  Projects <- {"p", "q"}, Types <- {"bug", "task"}, Default <- "*", Workflows <- {"w1", "w2", "w3"},
  Chunks <- {{"p"}, {"q"}}, Batches <- {{"w1", "w2"}, {"w3"}},
  Refs <- ("w1" :> {1, 2, 3} @@ "w2" :> {1, 2} @@ "w3" :> {1, 4}), TypeStatuses <- ("bug" :> {1, 2} @@ "task" :> {5}),
  Named <- ("w1" :> None @@ "w2" :> None @@ "w3" :> <<"p", "task">>), MaxSteps <- 2,
  scheme <- s1, table <- s2, mapping <- s3, last <- s4, steps <- s5

Waiting == INSTANCE StatusAnalysis WITH
  Issues <- {"i", "k"}, Priority <- ("i" :> "Major" @@ "k" :> "Unknown"), Columns <- {"Major", "Minor"},
  Statuses <- {"In Arbeit", "In Progress", "Test", "Resolved", "Done"},
  Display <- ("In Arbeit" :> "In Progress" @@ "In Progress" :> "In Progress" @@ "Test" :> "Test"
              @@ "Resolved" :> "Resolved" @@ "Done" :> "Done"),
  Excluded <- {"Done"}, Closed <- {"Resolved", "Done"}, Declared <- <<"In Progress">>,
  Rank <- ("In Progress" :> 1 @@ "Resolved" :> 2 @@ "Test" :> 3 @@ "Done" :> 0), LastDay <- 3,
  history <- s1, resolved <- s2, now <- s3

(* Two repositories; merge requests with and without lead time; weeks of two days    *)
(* and months of about as many.                                                      *)
MergeRequest(repo, lead, wait, branch, key, status) ==
  [repo |-> repo, lead |-> lead, wait |-> wait, branch |-> branch, marked |-> branch = "release", key |-> key, status |-> status]
ProductionBug(eligible, alpha, key) == [eligible |-> eligible, valid |-> TRUE, alpha |-> alpha, minutes |-> 70, key |-> key]
Figures == INSTANCE ReleaseViews WITH
  Repos <- {"r", "s"}, Tags <- {"a", "c"}, RepoOf <- ("a" :> "r" @@ "c" :> "s"), Requests <- 1..4,
  Shape <- <<MergeRequest("r", 50, 20, "master", 1, "ok"), MergeRequest("r", None, 5, "11.x", None, "none"),
             MergeRequest("s", 90, None, "x", 1, "ok"),
             MergeRequest("r", 30, 10, "release", None, "ok")>>,
  Bugs <- {1, 2}, Bug <- <<ProductionBug(TRUE, 40, 1), ProductionBug(FALSE, 80, 2)>>,
  Streams <- ("master" :> "feature" @@ "11.x" :> "patch" @@ "x" :> "other" @@ "release" :> "other"),
  WeekDays <- 2, MonthStarts <- <<0, 2, 4, 5, 7, 9, 11, 13, 15>>,
  Horizon <- ("WEEK" :> 2 @@ "MONTH" :> 1 @@ "QUARTER" :> 1), Lookback <- 2, LastDay <- 4, MaxEdits <- 2,
  VersionOf <- ("a" :> <<8, 1, 0>> @@ "c" :> None), Path <- <<"mr", None>>,
  Bins <- <<[from |-> 0, to |-> 60], [from |-> 60, to |-> None]>>,
  Horizons <- ("WEEK" :> 1 @@ "MONTH" :> 2 @@ "QUARTER" :> 4),
  Worklogs <- {[key |-> 1, seconds |-> 3, account |-> "x", author |-> None],
               [key |-> 1, seconds |-> 5, account |-> None, author |-> "ann"],
               [key |-> 1, seconds |-> 7, account |-> "y", author |-> None]},
  ByAccount <- ("x" :> <<"dev", "T">> @@ "y" :> None), ByAuthor <- ("ann" :> <<"other", None>>), Denied <- {},
  released <- s1, shipped <- s2, linked <- s3, fixed <- s4, closed <- s5, rows <- s6, fresh <- s7, today <- s8, edits <- s9

Config == INSTANCE Configuration WITH
  Requests <- {"c1", "c2"}, Secrets <- {"k", None}, Overrides <- {<<>>, "day" :> "env"},
  Bodies <- {"hour" :> "a", "hour" :> "null", "day" :> "bad", "day" :> "null" @@ "analytics" :> "b",
             "hour" :> "b" @@ "webhook" :> "null", "paths" :> "empty" @@ "token" :> "t"},
  stored <- s1, token <- s2, process <- s3, triggers <- s4, request <- s5, wanted <- s6, raced <- s7
-----------------------------------------------------------------------------
free12 == s12 = <<>> /\ s13 = <<>> /\ s14 = <<>>
free10 == s10 = <<>> /\ s11 = <<>> /\ free12
free9 == s9 = <<>> /\ free10
free8 == s8 = <<>> /\ free9
free6 == s6 = <<>> /\ s7 = <<>> /\ free8
free4 == s4 = <<>> /\ s5 = <<>> /\ free6
free3 == s3 = <<>> /\ free4
free == s1 = <<>> /\ s2 = <<>> /\ free3

BackendInit ==
  /\ Init
  /\ Pipelines!Init
  /\ \/ part \in {"snapshots", "pipelines"} /\ free
     \/ part = "dora" /\ Dora!Init /\ s2 = [q \in {"q1"} |-> "k1"] /\ free12
     \/ part = "fetch" /\ Fetch!Init
     \/ part = "hrworks" /\ Hrworks!Init /\ free9
     \/ part = "periods" /\ Periods!Init /\ free6
     \/ part = "ingest" /\ Ingest!Init /\ free6
     \/ part = "health" /\ Health!Init /\ free3
     \/ part = "assignments" /\ Assignments!Init /\ free6
     \/ part = "membership" /\ Membership!Init /\ free9
     \/ part = "effort" /\ Reports!Init /\ free9
     \/ part = "features" /\ Features!Init /\ free8
     \/ part = "workflow" /\ Workflow!Init /\ free6
     \/ part = "waiting" /\ Waiting!Init /\ free4
     \/ part = "figures" /\ Figures!Init /\ free10
     \/ part = "config" /\ Config!Init /\ free8

BackendNext ==
  /\ UNCHANGED part
  /\ \/ part = "snapshots" /\ Next /\ UNCHANGED <<pipelineVars, slots>>
     \/ part = "pipelines" /\ Pipelines!Next /\ UNCHANGED <<vars, slots>>
     \/ part = "dora" /\ Dora!Next /\ UNCHANGED <<shared, from12>>
     \/ part = "fetch" /\ Fetch!Next /\ UNCHANGED shared
     \/ part = "hrworks" /\ Hrworks!Next /\ UNCHANGED <<shared, from9>>
     \/ part = "periods" /\ Periods!Next /\ UNCHANGED <<shared, from6>>
     \/ part = "ingest" /\ Ingest!Next /\ UNCHANGED <<shared, from6>>
     \/ part = "health" /\ Health!Next /\ UNCHANGED <<shared, from3>>
     \/ part = "assignments" /\ Assignments!Next /\ UNCHANGED <<shared, from6>>
     \/ part = "membership" /\ Membership!Next /\ UNCHANGED <<shared, from9>>
     \/ part = "effort" /\ Reports!Next /\ UNCHANGED <<shared, from9>>
     \/ part = "features" /\ Features!Next /\ UNCHANGED <<shared, from8>>
     \/ part = "workflow" /\ Workflow!Next /\ UNCHANGED <<shared, from6>>
     \/ part = "waiting" /\ Waiting!Next /\ UNCHANGED <<shared, from4>>
     \/ part = "figures" /\ Figures!Next /\ UNCHANGED <<shared, from10>>
     \/ part = "config" /\ Config!Next /\ UNCHANGED <<shared, from8>>

(* Fairness as SyncPipelines states it. *)
BackendSpec ==
  /\ BackendInit /\ [][BackendNext]_backendVars
  /\ \A r \in Pipelines!PipelineRuns : WF_backendVars(part = "pipelines" /\ Pipelines!Age(r) /\ UNCHANGED <<part, vars, slots>>)
  /\ WF_backendVars(part = "pipelines" /\ Pipelines!Repair /\ UNCHANGED <<part, vars, slots>>)
-----------------------------------------------------------------------------
In(name, property) == part = name => property

(* Every variable of every part keeps its type. *)
BackendTypeOK ==
  /\ Pipelines!TypeOK
  /\ In("dora", Dora!TypeOK)
  /\ In("fetch", Fetch!TypeOK)
  /\ In("hrworks", Hrworks!TypeOK)
  /\ In("ingest", Ingest!TypeOK)
  /\ In("assignments", Assignments!TypeOK)
  /\ In("membership", Membership!TypeOK)
  /\ In("effort", Reports!TypeOK)
  /\ In("features", Features!TypeOK)
  /\ In("workflow", Workflow!TypeOK)
  /\ In("waiting", Waiting!TypeOK)
  /\ In("figures", Figures!TypeOK)
  /\ In("config", Config!TypeOK)

(* A run of the HRworks or the Jira pipeline that says success has its changes in the *)
(* monthly effort, unless rebuilds were open together.                              *)
SuccessIsAllocated == Pipelines!SuccessIsAllocated

(* No row of the two pipelines says running for ever. *)
RowsAreClosed == Pipelines!RowsAreClosed

(* Recent merge requests name releases that exist, a day of QA is that of the issue  *)
(* named now, and a night without failures leaves links and fixes that match.        *)
DoraConsistent == In("dora", Dora!DoraConsistent)

(* A collection read page by page is complete but for what was removed meanwhile,    *)
(* and no request is sent more often than its attempts allow.                        *)
FetchIsComplete == In("fetch", Fetch!FetchIsComplete)

(* Denied persons are not asked for, stored hours belong to the user they are stored *)
(* for, and the months of a run are those of the calendar.                           *)
HrworksSafe == In("hrworks", Hrworks!HrworksSafe) /\ In("periods", Periods!WindowsAreTheMonths)

(* Stored issues are unique, whole, linked to the issues they name, and all that a   *)
(* run without errors has seen.                                                     *)
JiraConsistent == In("ingest", Ingest!JiraConsistent)

(* The verdict on a bug follows from its data and those of its parent.               *)
BugsAreJudged == In("health", Health!BugsAreJudged)

(* Roles of users do not overlap, issues belong to the feature that reaches them, and *)
(* the statuses of a project and type are those of its workflow.                     *)
ReferenceDataSound ==
  /\ In("assignments", Assignments!AssignmentsSound)
  /\ In("membership", Membership!MembershipsAreRight)
  /\ In("workflow", Workflow!WorkflowsSound)

(* What is computed from one set of hours or transitions along two ways adds up to   *)
(* the same: days per status, hours per feature and family, effort and its reports.  *)
AnalysisAddsUp ==
  /\ In("waiting", Waiting!StatusesAddUp)
  /\ In("features", Features!HoursAndProgress)
  /\ In("effort", Reports!EffortAddsUp /\ Reports!ReportsAgree)

(* Figures from stored rows and figures from merge requests agree, and windows cover  *)
(* each day once.                                                                   *)
MetricsAgree ==
  In("figures", Figures!WindowsTile /\ Figures!FiguresAgree /\ Figures!ViewsAgree)

(* No step deletes more than it may: releases, persons of the roster, past roles and  *)
(* mappings of workflows.                                                           *)
NothingIsLost ==
  [][/\ In("dora", Dora!LeavesHalf /\ Dora!MapsWhatIsKnown)
     /\ In("hrworks", Hrworks!KeepsRoster)
     /\ In("assignments", Assignments!KeepsHistory /\ Assignments!LatestCounts)
     /\ In("workflow", Workflow!KeepsMappings)]_backendVars

(* The jobs follow the saved settings, which are those that were asked for.          *)
ConfigurationApplies == In("config", Config!ConfigurationApplies)
=============================================================================
