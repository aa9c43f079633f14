----------------------------- MODULE BugHealth -----------------------------
(* How the nightly Jira collector judges one bug: what it asks Jira for, whether    *)
(* the bug counts as one of production, and when it was first ready for QA          *)
(* (services/jira_bug_collector.py).  A step stores the judgement of one issue.     *)
EXTENDS Integers, FiniteSets, FiniteSetsExt, Sequences, SequencesExt

CONSTANTS Bugs,      \* bugs as Jira holds them: records [labels, affects, fix, exalate,
                     \* customers, parent, history, embedded]
          None,
          NextMinor, \* a version that is the marker of the next minor release
          Plunet     \* the name of the company as a customer

VARIABLES bug,    \* the issue in Jira
          judged  \* [healthy, memo, ready] as stored, or None

vars == <<bug, judged>>

Init == bug \in Bugs /\ judged = None
-----------------------------------------------------------------------------
(* The fields named in the search and in the request for a parent: no labels.       *)
Requested == {"versions", "fixVersions", "parent", "customfield_10114", "customfield_10123"}
Given(field, value, empty) == IF field \in Requested THEN value ELSE empty

(* What the search returns of an issue.  Its parent comes with type and summary     *)
(* only, so that the versions of a parent that is a bug are read by a request.      *)
Searched(b) == [labels |-> Given("labels", b.labels, {}),
                affects |-> Given("versions", b.affects, {}),
                fix |-> Given("fixVersions", b.fix, {}),
                exalate |-> Given("customfield_10114", b.exalate, FALSE),
                customers |-> Given("customfield_10123", b.customers, {}),
                parent |-> b.parent]
Bare(p) == [p EXCEPT !.affects = {}, !.fix = {}, !.exalate = FALSE, !.customers = {}]
Parent(b) == IF b.parent = None THEN None
             ELSE IF b.parent.type = "bug" THEN b.parent ELSE Bare(b.parent)

(* Missing data that make an issue unhealthy, before any override. *)
PrimaryReasons(i) ==
  {r \in {"no affected version", "no customer and no fix", "customer is Plunet"} :
     \/ r = "no affected version" /\ i.affects = {}
     \/ r = "no customer and no fix" /\ ~i.exalate /\ i.customers = {} /\ i.fix = {}
     \/ r = "customer is Plunet" /\ ~i.exalate /\ i.customers = {Plunet}}

(* Versions that are no numbers are left out of the comparison. *)
FixedLater(i) == LET affects == i.affects \ {NextMinor}
                     fix == i.fix \ {NextMinor}
                 IN  affects # {} /\ fix # {} /\ Max(fix) > Max(affects)

PreProductionParents == {"techsupport", "new feature", "analysis", "epic", "improvement"}
ParentIsPreProduction(p) == p # None /\ (p.testing \/ p.type \in PreProductionParents)
NextMinorStated(i, p) == NextMinor \in i.affects \cup i.fix \cup
                                       IF p = None THEN {} ELSE p.affects \cup p.fix

Judgement(healthy, memo) == [healthy |-> healthy, memo |-> memo]
EvaluateIssueHealth(i, p) ==
  IF "test" \in i.labels THEN Judgement(TRUE, "pre-production")
  ELSE IF "ignored" \in i.labels THEN Judgement(TRUE, "ignored")
  ELSE IF PrimaryReasons(i) = {} THEN Judgement(TRUE, "post-production")
  ELSE IF ParentIsPreProduction(p) THEN Judgement(TRUE, "pre-production")
  ELSE IF \/ FixedLater(i)
          \/ p # None /\ p.type = "bug" /\ (PrimaryReasons(p) = {} \/ FixedLater(p))
          \/ NextMinorStated(i, p)
       THEN Judgement(TRUE, "post-production")
  ELSE Judgement(FALSE, "unhealthy")

(* Mutant of Histories: the embedded entries are taken as the whole changelog. *)
HistoriesEmbedded(b) == IF b.embedded = None THEN b.history ELSE SubSeq(b.history, 1, b.embedded)

(* The search embeds the newest entries of the changelog with their total number;   *)
(* if some are missing, or all, the changelog is fetched.                           *)
Histories(b) ==
  IF b.embedded = None \/ b.embedded < Len(b.history) THEN b.history
  ELSE SubSeq(b.history, 1, b.embedded)
FirstReadyForQa(entries) ==
  LET days == {entries[i].day : i \in {i \in DOMAIN entries : entries[i].ready}}
  IN  IF days = {} THEN None ELSE Min(days)

Judge == /\ judged = None
         /\ LET health == EvaluateIssueHealth(Searched(bug), Parent(bug))
            IN  judged' = [healthy |-> health.healthy, memo |-> health.memo,
                           ready |-> FirstReadyForQa(Histories(bug))]
         /\ UNCHANGED bug

Next == Judge
Spec == Init /\ [][Next]_vars
-----------------------------------------------------------------------------
(* A bug counts for production, and is not set aside as unhealthy, exactly when     *)
(* there is evidence in its data or in those of a parent that is a bug, and no      *)
(* parent of another kind speaks for an internal issue.                             *)
Complete(i) == /\ i.affects # {}
               /\ \/ i.exalate
                  \/ i.fix # {} /\ i.customers = {}
                  \/ i.customers \ {Plunet} # {}
FixFollows(i) == /\ i.affects \ {NextMinor} # {}
                 /\ \E f \in i.fix \ {NextMinor} : \A a \in i.affects \ {NextMinor} : a < f
Evidence == \/ FixFollows(bug)
            \/ bug.parent # None /\ bug.parent.type = "bug"
               /\ (Complete(bug.parent) \/ FixFollows(bug.parent))
            \/ NextMinor \in bug.affects \cup bug.fix
            \/ bug.parent # None /\ bug.parent.type = "bug"
               /\ NextMinor \in bug.parent.affects \cup bug.parent.fix
VerdictIsJustified ==
  judged # None =>
    /\ judged.memo = "post-production"
         <=> \/ Complete(bug)
             \/ ~ParentIsPreProduction(bug.parent) /\ Evidence
    /\ judged.healthy <=> judged.memo # "unhealthy"

(* The stored day is the first at which the issue was ready for QA, though the      *)
(* search sends the changelog cut off and newest first.                             *)
ReadyIsEarliest ==
  judged # None =>
    \A i \in DOMAIN bug.history :
      bug.history[i].ready => judged.ready # None /\ judged.ready <= bug.history[i].day

BugsAreJudged == VerdictIsJustified /\ ReadyIsEarliest

(* The documented label gate: a bug with a label that contains "test" is one of     *)
(* pre-production.                                                                  *)
TestLabelsArePreProduction ==
  judged # None /\ "test" \in bug.labels => judged.memo = "pre-production"
=============================================================================
