----------------------------- MODULE JiraIngest -----------------------------
(* The Jira analytics collector (jira_analytics/collector.py, extractors.py): one   *)
(* transaction over all issues that a search returned, rolled back as a whole when  *)
(* one of them fails, and continued with the next; while issues are created, moved  *)
(* to other keys, linked and deleted in Jira.                                       *)
EXTENDS Integers, FiniteSets, FiniteSetsExt

CONSTANTS Ids,      \* Jira ids of issues
          Keys,     \* Jira keys
          Parents,  \* keys that issues name as that of their parent
          First,    \* what Jira may hold at first
          None,
          MaxRuns, MaxEdits

Pks == 1..Cardinality(Ids) + 1  \* primary keys; that of a deleted row may come back

VARIABLES jira,     \* Jira: id -> [key, up], up the key of its parent and link, or None
          edits,
          table,    \* committed rows: [issue, relation]
          session,  \* rows as the open transaction sees them, or None
          run       \* the run: number, issues to do, issues seen, issue at work, errors

vars == <<jira, edits, table, session, run>>

Absent == [pk \in Pks |-> None]
Init == /\ jira \in First
        /\ edits = 0
        /\ table = [issue |-> Absent, relation |-> {}]
        /\ session = None
        /\ run = [number |-> 0, todo |-> {}, seen |-> {}, at |-> None, errors |-> FALSE]

Taken == {jira[i].key : i \in {i \in Ids : jira[i] # None}}

EditJira(i) == /\ edits < MaxEdits
               /\ edits' = edits + 1
               /\ \/ \E k \in Keys \ Taken, u \in Parents \cup {None} :
                       u # k /\ jira' = [jira EXCEPT ![i] = [key |-> k, up |-> u]]
                  \/ jira[i] # None /\ jira' = [jira EXCEPT ![i] = None]
               /\ UNCHANGED <<table, session, run>>
-----------------------------------------------------------------------------
(* The issues updated within the lookback, as one answer. *)
Updated == SUBSET {i \in Ids : jira[i] # None}
Raw(i) == [id |-> i, key |-> jira[i].key, up |-> jira[i].up]
SearchIssues == /\ session = None /\ run.number < MaxRuns
                /\ \E found \in Updated :
                     run' = [number |-> run.number + 1, todo |-> {Raw(i) : i \in found},
                             seen |-> {Raw(i) : i \in found}, at |-> None, errors |-> FALSE]
                /\ session' = table
                /\ UNCHANGED <<jira, edits, table>>

Rows(db) == {pk \in Pks : db.issue[pk] # None}
ByKey(db, k) == {pk \in Rows(db) : db.issue[pk].key = k}
ById(db, i) == {pk \in Rows(db) : db.issue[pk].id = i}
Target(db, k) == IF ByKey(db, k) = {} THEN None ELSE CHOOSE pk \in ByKey(db, k) : TRUE

(* A row goes with its relations; references to it become empty. *)
Orphaned(row, pk) == IF row = None \/ row.parent # pk THEN row ELSE [row EXCEPT !.parent = None]
Deleted(db, pk) ==
  [issue |-> [p \in Pks |-> IF p = pk THEN None ELSE Orphaned(db.issue[p], pk)],
   relation |-> {[r EXCEPT !.target = IF @ = pk THEN None ELSE @] :
                   r \in {r \in db.relation : r.source # pk}}]

(* The row of an issue is found by its id, then by its key; a second row that holds  *)
(* the key is deleted.                                                              *)
WithoutHolder(db, raw) ==
  IF ById(db, raw.id) # {} /\ ByKey(db, raw.key) \ ById(db, raw.id) # {}
  THEN Deleted(db, Target(db, raw.key)) ELSE db
IssueRow(db, raw) == IF ById(db, raw.id) # {} THEN CHOOSE pk \in ById(db, raw.id) : TRUE
                     ELSE IF ByKey(db, raw.key) # {} THEN Target(db, raw.key)
                     ELSE Min(Pks \ Rows(db))

Parts == {"detail", "fields", "sprints", "worklogs", "transitions"}
NoKids == [part \in Parts |-> 0]

(* The parent is looked up once, in the rows that are there by now. *)
UpsertedIssue(db, raw) ==
  LET cleared == WithoutHolder(db, raw)
      pk == IssueRow(cleared, raw)
      before == cleared.issue[pk]
      since == IF before # None THEN IF before.key = raw.key THEN before.since ELSE run.number
               ELSE run.number
      named == [id |-> raw.id, key |-> raw.key, up |-> raw.up, parent |-> None,
                core |-> run.number, kids |-> IF before = None THEN NoKids ELSE before.kids,
                since |-> since]
      stored == [cleared EXCEPT !.issue[pk] = named]
  IN  [stored EXCEPT !.issue[pk].parent = Target(IF before = None THEN stored ELSE cleared, raw.up)]

(* Worklogs and changelog are fetched before anything is written. *)
UpsertIssue == /\ session # None /\ run.at = None
               /\ \E raw \in run.todo :
                    /\ session' = UpsertedIssue(session, raw)
                    /\ run' = [run EXCEPT !.todo = @ \ {raw}, !.at = raw]
               /\ UNCHANGED <<jira, edits, table>>

(* What belongs to an issue is stored part by part, by natural keys, and nothing of  *)
(* it is ever deleted.                                                              *)
With(db, pk, part) == [db EXCEPT !.issue[pk].kids[part] = run.number]
UpsertDetail(db, pk) == With(db, pk, "detail")
UpsertFieldValues(db, pk) == With(db, pk, "fields")
UpsertSprints(db, pk) == With(db, pk, "sprints")
UpsertWorklogs(db, pk) == With(db, pk, "worklogs")
UpsertTransitions(db, pk) == With(db, pk, "transitions")

FindRelation(db, pk, key) == {r \in db.relation : r.source = pk /\ r.key = key}
ExtractRelations(raw) == {raw.up} \ {None}
UpsertRelations(db, pk, raw) ==
  [db EXCEPT !.relation =
     (@ \ UNION {FindRelation(db, pk, k) : k \in ExtractRelations(raw)})
     \cup {[source |-> pk, key |-> k, target |-> Target(db, k)] : k \in ExtractRelations(raw)}]

UpsertedChildren(db, raw) ==
  LET pk == CHOOSE pk \in ById(db, raw.id) : TRUE
      detailed == UpsertFieldValues(UpsertDetail(db, pk), pk)
      logged == UpsertTransitions(UpsertWorklogs(UpsertSprints(detailed, pk), pk), pk)
  IN  UpsertRelations(logged, pk, raw)

UpsertChildren == /\ run.at # None
                  /\ session' = UpsertedChildren(session, run.at)
                  /\ run' = [run EXCEPT !.at = None]
                  /\ UNCHANGED <<jira, edits, table>>

(* Mutant of IssueFails: what the run has written stays in the transaction. *)
IssueFailsWithoutRollback ==
  /\ session # None
  /\ \/ run.at # None /\ run' = [run EXCEPT !.at = None, !.errors = TRUE]
     \/ /\ run.at = None
        /\ \E raw \in run.todo : run' = [run EXCEPT !.todo = @ \ {raw}, !.errors = TRUE]
  /\ UNCHANGED <<jira, edits, table, session>>

(* A failed request or statement rolls back what the run has written so far, and     *)
(* the next issue starts from the committed rows.                                   *)
IssueFails == /\ session # None
              /\ \/ run.at # None /\ run' = [run EXCEPT !.at = None, !.errors = TRUE]
                 \/ /\ run.at = None
                    /\ \E raw \in run.todo : run' = [run EXCEPT !.todo = @ \ {raw}, !.errors = TRUE]
              /\ session' = table
              /\ UNCHANGED <<jira, edits, table>>

ResolveTargets(db) ==
  [db EXCEPT !.relation = {[r EXCEPT !.target = IF @ = None THEN Target(db, r.key) ELSE @] : r \in @}]

Commit == /\ session # None /\ run.todo = {} /\ run.at = None
          /\ table' = ResolveTargets(session)
          /\ session' = None
          /\ UNCHANGED <<jira, edits, run>>

(* The final statements fail, or the process ends. *)
RunFails == /\ session # None
            /\ session' = None
            /\ run' = [run EXCEPT !.todo = {}, !.seen = {}, !.at = None, !.errors = TRUE]
            /\ UNCHANGED <<jira, edits, table>>

Next == \/ \E i \in Ids : EditJira(i)
        \/ SearchIssues \/ UpsertIssue \/ UpsertChildren \/ IssueFails \/ Commit \/ RunFails

Spec == Init /\ [][Next]_vars
-----------------------------------------------------------------------------
TypeOK == /\ \A pk \in Rows(table) : /\ table.issue[pk].id \in Ids /\ table.issue[pk].key \in Keys
                                     /\ table.issue[pk].parent \in Pks \cup {None}
          /\ \A r \in table.relation : r.source \in Pks /\ r.target \in Pks \cup {None}

(* Ids and keys stay unique through moved and reused keys, in the transaction as    *)
(* well: none of its statements meets a unique constraint.                          *)
RowsUnique == \A db \in {table, session} \ {None} :
                \A p, q \in Rows(db) : p # q => /\ db.issue[p].id # db.issue[q].id
                                                /\ db.issue[p].key # db.issue[q].key

(* References lead to rows, and a committed relation lacks its target only while no  *)
(* issue of that key is stored, whichever of the two came first.                    *)
LinksResolved == /\ \A r \in table.relation : /\ r.source \in Rows(table)
                                              /\ r.target \in Rows(table) \cup {None}
                                              /\ r.target = None => ByKey(table, r.key) = {}
                 /\ \A pk \in Rows(table) : table.issue[pk].parent \in Rows(table) \cup {None}

(* Unlike relations, parents are not resolved at the end: a stored parent is missed  *)
(* only by children not read again since it got its key.                            *)
ParentsResolved == \A p, c \in Rows(table) :
                     /\ table.issue[c].up = table.issue[p].key
                     /\ table.issue[p].since < table.issue[c].core
                     => table.issue[c].parent = p

(* A committed issue has the children that were fetched with it: no failure leaves   *)
(* half of one.                                                                     *)
IssuesAreWhole == \A pk \in Rows(table) : 
                    \A part \in Parts : table.issue[pk].kids[part] = table.issue[pk].core

(* A run without errors has stored every issue that it saw, under its present key;   *)
(* no later issue of the same run takes its row away.                               *)
SeenAreStored == session = None /\ ~run.errors =>
                   \A raw \in run.seen : \E pk \in ById(table, raw.id) :
                      /\ table.issue[pk].key = raw.key
                      /\ raw.up # None => \E r \in table.relation : r.source = pk /\ r.key = raw.up

JiraConsistent == RowsUnique /\ LinksResolved /\ ParentsResolved /\ IssuesAreWhole /\ SeenAreStored
=============================================================================
