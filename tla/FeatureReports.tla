----------------------------- MODULE FeatureReports -----------------------------
(* Families of features as the admin keeps them, and the hours of features, families *)
(* and their drill-downs that are read from the allocated effort                     *)
(* (services/admin_jira_feature_families_service.py, jira_analytics/                 *)
(* feature_hours_service.py, feature_family_hours_service.py,                        *)
(* feature_delivery_progress.py).  Hours are the rows they are summed from, so a     *)
(* row that is counted twice or lost is seen whatever its hours.                     *)
EXTENDS FiniteSets, Functions

CONSTANTS Families, Roots, Tokens,
          Effort,        \* rows of an allocation: [id, root, issue, topic, type, role, team, kind, project]
          Excluded,      \* projects that no report reads
          RootIssue,     \* root -> its own issue
          Epics,         \* issues that are epics
          Above,         \* issue -> epic it is linked to or parent, or None
          MemberIssues,  \* root -> issues of its membership
          Title,         \* root -> tokens of its name
          Implementers,  \* root -> issues that implement it
          Buckets,       \* role of an allocation -> role of worklogs, where there is one
          Filters,       \* filters of the reader: [role, team], None for all
          None,
          MaxEdits       \* bound on requests and collections

VARIABLES family,     \* table jira_feature_family: family -> [active, words]
          memberOf,   \* table jira_feature_family_member: root -> family
          decisions,  \* table of decisions: set of [suggestion, verdict]
          shown,      \* the suggestions that the admin last listed
          activeRoots,
          progress,   \* implementer -> "done", "in_progress" or "before"
          edits

vars == <<family, memberOf, decisions, shown, activeRoots, progress, edits>>

AllImplementers == UNION {Implementers[r] : r \in Roots}
Statuses == {"done", "in_progress", "before"}

Init == /\ family = <<>> /\ memberOf = <<>> /\ decisions = {} /\ shown = {}
        /\ activeRoots = Roots
        /\ progress = [i \in AllImplementers |-> "before"]
        /\ edits = 0

ActiveFamilies == {f \in DOMAIN family : family[f].active}
Unassigned == activeRoots \ DOMAIN memberOf
MembersOf(f) == {r \in DOMAIN memberOf : memberOf[r] = f}
-----------------------------------------------------------------------------
(* Suggestions: unassigned features whose name shares a word with a family.  The     *)
(* words that matched are part of the identity, so a rejection ends when they change.*)
Suggestion(f, r) == [family |-> f, root |-> r, words |-> family[f].words, matched |-> family[f].words \cap Title[r]]
Suggestions ==
  {s \in {Suggestion(f, r) : f \in ActiveFamilies, r \in Unassigned} :
     s.matched # {} /\ [suggestion |-> s, verdict |-> "rejected"] \notin decisions}

ListSuggestions == /\ shown' = Suggestions
                   /\ UNCHANGED <<family, memberOf, decisions, activeRoots, progress>>

Decided(s, verdict) == {d \in decisions : d.suggestion # s} \cup {[suggestion |-> s, verdict |-> verdict]}

(* Accepting does not ask whether the suggestion still stands: the feature leaves    *)
(* the family it is in by now.                                                       *)
Accept(s) == /\ memberOf' = [r \in DOMAIN memberOf \cup {s.root} |-> IF r = s.root THEN s.family ELSE memberOf[r]]
             /\ decisions' = Decided(s, "accepted")
             /\ UNCHANGED <<family, shown, activeRoots, progress>>
Reject(s) == /\ decisions' = Decided(s, "rejected")
             /\ shown' = {t \in Suggestions : t # s}
             /\ UNCHANGED <<family, memberOf, activeRoots, progress>>

CreateFamily(f, words) ==
  /\ f \notin DOMAIN family
  /\ family' = [g \in DOMAIN family \cup {f} |-> IF g = f THEN [active |-> TRUE, words |-> words] ELSE family[g]]
  /\ UNCHANGED <<memberOf, decisions, shown, activeRoots, progress>>
PatchFamily(f) ==
  /\ f \in DOMAIN family
  /\ \/ family' = [family EXCEPT ![f].active = ~family[f].active]
     \/ \E words \in SUBSET Tokens : family' = [family EXCEPT ![f].words = words]
  /\ UNCHANGED <<memberOf, decisions, shown, activeRoots, progress>>

(* The members of a family are replaced; a feature named leaves its other family.    *)
PutMembers(f, roots) ==
  /\ f \in DOMAIN family
  /\ memberOf' = [r \in (DOMAIN memberOf \ MembersOf(f)) \cup roots |-> IF r \in roots THEN f ELSE memberOf[r]]
  /\ UNCHANGED <<family, decisions, shown, activeRoots, progress>>

(* The next nightly run finds other roots and other states of the implementers.      *)
Collect ==
  /\ \/ /\ \E r \in Roots : activeRoots' = IF r \in activeRoots THEN activeRoots \ {r} ELSE activeRoots \cup {r}
        /\ UNCHANGED progress
     \/ /\ \E i \in AllImplementers, s \in Statuses : progress' = [progress EXCEPT ![i] = s]
        /\ UNCHANGED activeRoots
  /\ UNCHANGED <<family, memberOf, decisions, shown>>

Next == /\ edits < MaxEdits
        /\ edits' = edits + 1
        /\ \/ ListSuggestions
           \/ \E s \in shown : Accept(s) \/ Reject(s)
           \/ \E f \in Families : \/ \E words \in SUBSET Tokens : CreateFamily(f, words)
                                  \/ PatchFamily(f)
                                  \/ \E roots \in SUBSET Roots : PutMembers(f, roots)
           \/ Collect
Spec == Init /\ [][Next]_vars
-----------------------------------------------------------------------------
Role(row) == IF row.role \in DOMAIN Buckets THEN Buckets[row.role] ELSE row.role

(* Rows that a report reads, after the filters for role and team. *)
Fetched == {row \in Effort : row.kind \in {"direct", "indirect"} /\ row.project \notin Excluded}
Passes(row, filter) ==
  /\ filter.role = None \/ IF filter.role = "unmapped" THEN row.role = None ELSE Role(row) = filter.role
  /\ filter.team \in {None, row.team}
Passing(filter) == {row \in Fetched : Passes(row, filter)}

(* Where a row without an active feature is counted: by its topic, else by the type  *)
(* of the issue.                                                                     *)
Others == {"other_bug", "other_feature", "other_misc"}
Classify(row) ==
  CASE row.topic = "unassigned_bug" -> "other_bug"
    [] row.topic = "issue_without_feature" -> "other_feature"
    [] row.topic \in {"tech_support", "unclassified"} -> "other_misc"
    [] OTHER -> IF row.type = "Bug" THEN "other_bug"
                ELSE IF row.type = "Epic" THEN "other_feature" ELSE "other_misc"

FeatureMatrix(filter) ==
  [b \in activeRoots \cup Others |->
    {row \in Passing(filter) : b = IF row.root \in activeRoots THEN row.root ELSE Classify(row)}]

(* The drill-down of a bucket reads only rows that have no feature at all, that of a *)
(* feature only rows of issues, and not those of its own issue.                      *)
OtherDrilldown(b, filter) == {row \in Passing(filter) : row.root = None /\ Classify(row) = b}
FeatureDrilldown(r, filter) ==
  {row \in Passing(filter) : r \in activeRoots /\ row.root = r /\ row.issue \notin {None, RootIssue[r]}}

(* The section of an issue: the first epic of the feature on the way up, the issue    *)
(* itself if it is an epic, else the rest.                                           *)
Section(issue, r) ==
  LET epics == Epics \cap MemberIssues[r]
      way[n \in 0..Cardinality(DOMAIN Above)] ==
        IF n = 0 THEN issue ELSE IF way[n - 1] = None THEN None ELSE Above[way[n - 1]]
      met == {n \in DOMAIN way : way[n] \in epics}
      first == CHOOSE n \in met : \A m \in met : n <= m
  IN  IF met # {} THEN way[first] ELSE IF issue \in Epics THEN issue ELSE None
Sections(r, filter) ==
  LET rows == FeatureDrilldown(r, filter)
  IN  [e \in {Section(row.issue, r) : row \in rows} |-> {row \in rows : Section(row.issue, r) = e}]

(* Hours of a family are those of its members; features without a family have a row  *)
(* of their own.  A switched-off family keeps its members but has no row.            *)
FamilyMatrix(filter) ==
  [b \in ActiveFamilies \cup Unassigned |->
    {row \in Passing(filter) :
       /\ row.root \in activeRoots
       /\ b = IF row.root \in DOMAIN memberOf THEN memberOf[row.root] ELSE row.root}]
FamilyDrilldown(b, filter) ==
  UNION {FeatureDrilldown(r, filter) : r \in IF b \in Roots THEN {b} ELSE MembersOf(b) \cap activeRoots}

(* Progress of a feature from its implementers, and of a family from its features.   *)
DeliveryProgress(r) ==
  LET all == {progress[i] : i \in Implementers[r]}
  IN  CASE all = {} -> None
        [] all = {"done"} -> "done"
        [] all = {"before"} -> "in preparation"
        [] OTHER -> "in progress"
RollupProgress(f) ==
  LET all == {DeliveryProgress(r) : r \in MembersOf(f) \cap activeRoots} \ {None}
  IN  IF all = {} THEN None ELSE IF all = {"done"} THEN "done" ELSE "in progress"
-----------------------------------------------------------------------------
TypeOK == /\ DOMAIN family \subseteq Families /\ DOMAIN memberOf \subseteq Roots
          /\ \A r \in DOMAIN memberOf : memberOf[r] \in DOMAIN family
          /\ activeRoots \subseteq Roots /\ progress \in [AllImplementers -> Statuses]

CountedIn(matrix, row) == {b \in DOMAIN matrix : row \in matrix[b]}

(* Every row that passes the filter is in exactly one line of the matrix of features,*)
(* and in one of the matrix of families when its feature is active, unless the family*)
(* is switched off: the two never disagree about a feature otherwise.                *)
HoursAreKept ==
  \A filter \in Filters :
    LET features == FeatureMatrix(filter)
        families == FamilyMatrix(filter)
    IN  \A row \in Passing(filter) :
          /\ Cardinality(CountedIn(features, row)) = 1
          /\ Cardinality(CountedIn(families, row)) =
               IF /\ row.root \in activeRoots
                  /\ row.root \in DOMAIN memberOf => family[memberOf[row.root]].active
               THEN 1 ELSE 0

(* A drill-down shows hours of its line only, each in one section; what it leaves out *)
(* has no issue, or the issue of the feature itself, or a feature that is switched    *)
(* off.                                                                               *)
LeftOut(rows, filter) ==
  \A row \in rows : \/ row.issue = None
                    \/ row.root \in Roots /\ row.issue = RootIssue[row.root]
                    \/ row.root \in Roots \ activeRoots
DrilldownsAgree ==
  \A filter \in Filters :
    LET features == FeatureMatrix(filter)
        families == FamilyMatrix(filter)
        Lines(b) == IF b \in Others THEN OtherDrilldown(b, filter) ELSE FeatureDrilldown(b, filter)
    IN  /\ \A b \in DOMAIN features :
             Lines(b) \subseteq features[b] /\ LeftOut(features[b] \ Lines(b), filter)
        /\ \A b \in DOMAIN families :
             /\ FamilyDrilldown(b, filter) \subseteq families[b]
             /\ LeftOut(families[b] \ FamilyDrilldown(b, filter), filter)
        /\ \A r \in activeRoots : \A row \in FeatureDrilldown(r, filter) :
             Cardinality(CountedIn(Sections(r, filter), row)) = 1

(* A family is done only when every issue that implements one of its features is.    *)
DoneIsDone ==
  \A f \in DOMAIN family : RollupProgress(f) = "done" =>
    \A r \in MembersOf(f) \cap activeRoots : \A i \in Implementers[r] : progress[i] = "done"

HoursAndProgress == HoursAreKept /\ DrilldownsAgree /\ DoneIsDone
=============================================================================
