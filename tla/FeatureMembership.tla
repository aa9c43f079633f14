--------------------------- MODULE FeatureMembership ---------------------------
(* To which PMGT feature an issue belongs (jira_analytics/feature_membership.py):   *)
(* the roots are detected from the type of the issues, the links between issues are *)
(* walked from each root, and of the candidates found for an issue one is stored.   *)
(* The tables are rebuilt in one transaction, after the issues were collected.      *)
EXTENDS Integers, Sequences, SequencesExt, FiniteSetsExt, Functions, TLC

CONSTANTS Issues,
          Pmgt,        \* issues of the root project
          Sources,     \* the sources of relations that occur
          Key,         \* issue -> number, in the order of the keys
          None,
          MaxDepth, MaxEdits

VARIABLES kind,        \* per issue of the root project: "project", "idea" or "task"
          archived,    \* issues with the archive flag
          parent,      \* issue -> parent or None
          links,       \* table jira_issue_relation, of the edges that count
          root,        \* table jira_feature_root: issue -> [active, kind]
          member,      \* table jira_feature_membership
          fresh,       \* nothing changed since the last rebuild
          edits

vars == <<kind, archived, parent, links, root, member, fresh, edits>>

RootTypes == {"project", "idea"}
Reversed == {"parent", "epic_link", "connected", "issue_link", "implements"}
StrongThreshold == 70

Init == /\ kind \in [Pmgt -> RootTypes]
        /\ archived \in SUBSET Pmgt /\ links = {} /\ root = <<>> /\ member = {}
        /\ parent = [i \in Issues |-> None]
        /\ fresh = FALSE /\ edits = 0
-----------------------------------------------------------------------------
(* The strength of an edge: the source of the relation, and whether it leads to an  *)
(* issue of the root project.                                                       *)
Strength(source, target) ==
  CASE source = "connected" -> IF target \in Pmgt THEN 100 ELSE 60
    [] source \in {"parent", "subtask", "epic_link"} -> 80
    [] source = "implements" -> 70
    [] OTHER -> 50

Edge(from, to, source) == [from |-> from, to |-> to, strength |-> Strength(source, to), source |-> source]

(* Edges of the walk: every relation, most of them in both directions, and the      *)
(* parents.                                                                         *)
Edges == {Edge(l.from, l.to, l.source) : l \in links}
         \cup {Edge(l.to, l.from, l.source) : l \in {k \in links : k.source \in Reversed}}
         \cup {Edge(parent[i], i, "parent") : i \in {j \in Issues : parent[j] # None}}

Candidate(i, r, depth, strength, weakest) ==
  [issue |-> i, root |-> r, depth |-> depth, strength |-> strength, weakest |-> weakest]
IssuesOf(some) == {c.issue : c \in some}
Of(i, some) == {c \in some : c.issue = i}

(* What the walk from r may find for the issues.  It visits an issue once, on a      *)
(* shortest path; which one is a matter of the order of the rows.                   *)
Walked(r, edges) ==
  LET found[n \in 0..MaxDepth] ==
        IF n = 0 THEN {Candidate(r, r, 0, 100, 100)}
        ELSE LET before == found[n - 1]
                 next == {e \in edges : e.from \in IssuesOf(before) /\ e.to \notin IssuesOf(before)}
             IN  before \cup UNION {{Candidate(e.to, r, n, e.strength, Min({c.weakest, e.strength})) :
                                       c \in Of(e.from, before)} : e \in next}
  IN  found[MaxDepth]

(* The nearest root above an issue, unless the chain of parents ends or closes.      *)
Above(i, roots) ==
  LET up[n \in 1..Cardinality(Issues)] ==
        IF n = 1 THEN parent[i]
        ELSE LET at == up[n - 1] IN IF at \in roots \cup {None} THEN at ELSE parent[at]
      steps == {n \in 1..Cardinality(Issues) : up[n] \in roots}
  IN  IF steps = {} THEN {} ELSE {[root |-> up[Min(steps)], steps |-> Min(steps)]}

(* Links of the issue itself to a root, and the chain of its parents.               *)
Direct(i, roots) ==
  {Candidate(i, l.to, 1, Strength(l.source, l.to), Strength(l.source, l.to)) :
     l \in {k \in links : k.from = i /\ k.to \in roots}}
  \cup {Candidate(i, a.root, a.steps, 80, 80) : a \in Above(i, roots)}

Prefer(some, Wanted(_)) == LET wanted == {c \in some : Wanted(c)} IN IF wanted = {} THEN some ELSE wanted

RootIsArchived(r) == r \in archived

(* Of several roots those that are not archived, then projects; then a strong        *)
(* attachment, the strongest path, the shortest, the last key.                      *)
Better(c, d) ==
  \/ c.strength > d.strength
  \/ c.strength = d.strength /\ c.weakest > d.weakest
  \/ c.strength = d.strength /\ c.weakest = d.weakest /\ c.depth < d.depth
  \/ c.strength = d.strength /\ c.weakest = d.weakest /\ c.depth = d.depth /\ Key[c.root] >= Key[d.root]

Resolve(some, table) ==
  LET several == Cardinality({c.root : c \in some}) > 1
      live == IF several THEN Prefer(some, LAMBDA c : ~RootIsArchived(c.root)) ELSE some
      pool == IF several THEN Prefer(live, LAMBDA c : table[c.root].kind = "project") ELSE live
      strong == Prefer(pool, LAMBDA c : c.strength >= StrongThreshold)
  IN  CHOOSE c \in strong : \A d \in strong : Better(c, d)

(* Mutant of DetectRoots: an issue that is no feature any more stays a root. *)
DetectRootsOnly ==
  LET seen == {i \in Pmgt : kind[i] \in RootTypes}
  IN  [i \in DOMAIN root \cup seen |-> IF i \in seen THEN [active |-> TRUE, kind |-> kind[i]] ELSE root[i]]

(* Roots by the type of the issue; the others are switched off, never deleted.      *)
DetectRoots ==
  LET seen == {i \in Pmgt : kind[i] \in RootTypes}
  IN  [i \in DOMAIN root \cup seen |->
        IF i \in seen THEN [active |-> TRUE, kind |-> kind[i]] ELSE [root[i] EXCEPT !.active = FALSE]]

ActiveRoots(table) == {r \in DOMAIN table : table[r].active}

(* What may be stored for an issue, of what was found for it: a root belongs to     *)
(* itself, and for any other there is one candidate from each root that reached it.  *)
Winners(i, found, table) ==
  LET roots == {c.root : c \in found}
      picks == {pick \in SUBSET found : \A r \in roots : Cardinality({c \in pick : c.root = r}) = 1}
  IN  IF i \in ActiveRoots(table) THEN {c \in found : c.root = i}
      ELSE {Resolve(pick \cup Direct(i, ActiveRoots(table)), table) : pick \in picks}

Refresh ==
  LET table == DetectRoots
      edges == Edges
      walked == UNION {Walked(r, edges) : r \in ActiveRoots(table)}
      winners == UNION {Winners(i, Of(i, walked), table) : i \in IssuesOf(walked)}
  IN  /\ ~fresh
      /\ root' = table
      /\ member' \in {rows \in SUBSET winners : \A i \in IssuesOf(walked) : Cardinality(Of(i, rows)) = 1}
      /\ fresh' = TRUE
      /\ UNCHANGED <<kind, archived, parent, links, edits>>

Edit == /\ edits < MaxEdits
        /\ edits' = edits + 1
        /\ fresh' = FALSE
        /\ UNCHANGED <<root, member>>

(* Other answers of Jira at the next collection. *)
Retype == /\ Edit
          /\ \E i \in Pmgt, k \in {"project", "idea", "task"} : kind' = [kind EXCEPT ![i] = k]
          /\ UNCHANGED <<archived, parent, links>>
Archive == /\ Edit
           /\ \E i \in Pmgt : archived' = archived \cup {i}
           /\ UNCHANGED <<kind, parent, links>>
Link == /\ Edit
        /\ \E i, j \in Issues, s \in Sources :
             /\ i # j
             /\ parent' = IF s = "parent" THEN [parent EXCEPT ![i] = j] ELSE parent
             /\ links' = {l \in links : s # "parent" \/ l.from # i \/ l.source # "parent"}
                         \cup {[from |-> i, to |-> j,
                                source |-> IF s = "issue_link" /\ {i, j} \cap Pmgt # {} THEN "connected" ELSE s]}
        /\ UNCHANGED <<kind, archived>>

Next == Refresh \/ Retype \/ Archive \/ Link
Spec == Init /\ [][Next]_vars
-----------------------------------------------------------------------------
TypeOK == /\ DOMAIN root \subseteq Pmgt
          /\ \A m \in member : m.issue \in Issues /\ m.root \in Pmgt /\ m.depth \in 0..Cardinality(Issues)

Linked(i, j) ==
  \/ parent[j] = i
  \/ \E l \in links : \/ l.from = i /\ l.to = j
                      \/ l.from = j /\ l.to = i /\ l.source # "subtask"
Near(r) == FoldLeft(LAMBDA some, n : some \cup {j \in Issues : \E i \in some : Linked(i, j)},
                    {r}, [n \in 1..MaxDepth |-> n])
Features == {i \in Pmgt : kind[i] \in RootTypes}
ReachedBy(i) == {r \in Features : i \in Near(r)}

(* Exactly the issues that some feature of today reaches have one, and a root is    *)
(* its own: nothing stays with a root that is none any more.                         *)
EveryReachedHasOne ==
  /\ \A i \in Issues : Cardinality(Of(i, member)) = IF ReachedBy(i) = {} THEN 0 ELSE 1
  /\ \A m \in member : /\ m.root \in ReachedBy(m.issue) \cup {c.root : c \in Direct(m.issue, Features)}
                       /\ m.issue \in Features => m.root = m.issue

Attached == {m \in member : m.issue \notin Features}

(* An issue stays with an archived feature only when no live one reaches it, and with *)
(* an idea only when no live project does.                                           *)
LesserYield ==
  \A m \in Attached :
    /\ m.root \in archived => ReachedBy(m.issue) \subseteq archived
    /\ kind[m.root] = "idea" => \A r \in ReachedBy(m.issue) \ archived : kind[r] = "idea"

(* A link or parent chain of the issue itself to a live project is not beaten by a   *)
(* weaker path.                                                                      *)
OwnLinksHold ==
  \A m \in Attached : \A c \in Direct(m.issue, Features) :
    c.root \notin archived /\ kind[c.root] = "project" => m.strength >= c.strength

(* The rebuilt memberships say where an issue belongs, whatever changed before.      *)
MembershipsAreRight == fresh => EveryReachedHasOne /\ LesserYield /\ OwnLinksHold
=============================================================================
