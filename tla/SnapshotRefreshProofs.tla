----------------------- MODULE SnapshotRefreshProofs -----------------------
(***************************************************************************)
(* Theorems about SnapshotRefresh, for any number of runs, repositories,   *)
(* windows and readers.                                                    *)
(***************************************************************************)
EXTENDS SnapshotRefresh, NaturalSets

-----------------------------------------------------------------------------
(* The inductive invariants *)

Writing == {"measure", "delete", "wait", "commit"}

HasKey(x, j) == x.repository = Repository(j) /\ x.window = run[j].window

(* The position of a refresh, and what is empty at it. *)
Shape(j) ==
    /\ run[j].at \in {"idle", "collect", "plan"} => run[j].place = 1
    /\ Active(j) =>
          /\ run[j].place \in DOMAIN run[j].order
          /\ \A i, k \in DOMAIN run[j].order : run[j].order[i] = run[j].order[k] => i = k
          /\ run[j].windows # {}
          /\ run[j].window \in run[j].windows
    /\ run[j].at # "wait" => run[j].seen = {}
    /\ run[j].at \notin Writing => run[j].made = {} /\ run[j].drop = {}

(* A refresh adds at most one row for each window of a repository. *)
Fresh(j) ==
    /\ \A y \in run[j].made :
          y.by = j /\ \E p \in DOMAIN run[j].order : p =< run[j].place /\ y.repository = run[j].order[p]
    /\ \A x, y \in run[j].made : SameKey(x, y) => x = y
    /\ run[j].at \in {"measure", "delete"} => \A y \in run[j].made : ~HasKey(y, j)

(* For all that a refresh deletes it adds a row. *)
Covering(j) ==
    /\ \A x \in run[j].seen : HasKey(x, j)
    /\ run[j].at = "wait" => \E y \in run[j].made : HasKey(y, j)
    /\ \A x \in run[j].drop : \E y \in run[j].made : SameKey(x, y)

Own(j) == Shape(j) /\ Fresh(j) /\ Covering(j)

(* Rows that a refresh does not replace were committed while it was open. *)
Late(j) ==
    \A x \in snapshot, y \in run[j].made :
        SameKey(x, y) => x \in run[j].drop \cup run[j].seen \/ x.by \in met[j]

Meetings ==
    /\ \A j, k \in Runs : k \in met[j] <=> j \in met[k]
    /\ \A j, k \in Runs : Active(j) /\ Active(k) /\ j # k => k \in met[j]
    /\ \A j \in Runs : run[j].at \in {"idle", "collect", "plan"} => met[j] = {}

Inv ==
    /\ TypeOK
    /\ \A j \in Runs : Own(j) /\ Late(j)
    /\ Meetings
    /\ DuplicatesNeedOverlap

-----------------------------------------------------------------------------
(* Lemmas about the operators *)

LEMMA NextIn ==
  ASSUME NEW j, NEW S \in SUBSET Windows, S # {}
  PROVE  NextWindow(j, S) \in S
<1>1. S \in SUBSET Nat
  BY WindowsAssumption DEF Windows
<1> QED BY <1>1, LeastNatural DEF NextWindow

LEMMA CoveredDay ==
  ASSUME NEW day \in Windows
  PROVE  Covered(day) \in SUBSET Windows /\ Covered(day) # {}
<1>1. day \in Covered(day)
  BY WindowsAssumption DEF Covered, Windows
<1> QED BY <1>1 DEF Covered

LEMMA OrdersAre ==
  ASSUME NEW S \in SUBSET Repositories, S # {}, NEW s \in Orders(S)
  PROVE  /\ s \in Seq(Repositories) /\ 1 \in DOMAIN s
         /\ \A i, k \in DOMAIN s : s[i] = s[k] => i = k
<1>1. IsFiniteSet(S)
  BY RepositoriesAssumption, FS_Subset
<1>2. Cardinality(S) \in Nat /\ Cardinality(S) # 0
  BY <1>1, FS_CardinalityType, FS_EmptySet
<1>3. s \in [1..Cardinality(S) -> Repositories]
  BY DEF Orders
<1> QED BY <1>2, <1>3 DEF Orders

LEMMA SetRun ==
  ASSUME TypeOK, NEW j \in Runs, NEW r \in Run, Set(j, r)
  PROVE  /\ run' \in [Runs -> Run] /\ run'[j] = r
         /\ \A k \in Runs \ {j} : run'[k] = run[k]
BY DEF TypeOK, Set

LEMMA SameRun ==
  ASSUME NEW k \in Runs, Own(k), run'[k] = run[k]
  PROVE  Own(k)'
BY DEF Own, Shape, Fresh, Covering, HasKey, Repository, Active, SameKey

-----------------------------------------------------------------------------
(* The steps of one run, action by action: its record, its type and its invariant *)

Begins(j) == FireSchedule(j) \/ TriggerManually(j)

LEMMA BeginsInv ==
  ASSUME Inv, NEW j \in Runs, Begins(j)
  PROVE  /\ run' \in [Runs -> Run] /\ \A k \in Runs \ {j} : run'[k] = run[k]
         /\ run[j].at = "idle" /\ run'[j].at = "collect"
         /\ Own(j)' /\ run'[j].made = {}
<1>1. PICK t \in Triggers : run[j].at = "idle" /\ Set(j, [run[j] EXCEPT !.at = "collect", !.trigger = t])
  BY DEF Begins, FireSchedule, TriggerManually
<1> DEFINE r == [run[j] EXCEPT !.at = "collect", !.trigger = t]
<1>2. r \in Run /\ run[j] \in Run
  <2>1. run[j] \in Run
    BY DEF Inv, TypeOK
  <2>2. t \in Triggers \cup {"none"}
    OBVIOUS
  <2> QED BY <2>1, <2>2 DEF Run
<1>3. Shape(j) /\ Fresh(j) /\ Covering(j)
  BY DEF Inv, Own
<1>4. run' \in [Runs -> Run] /\ run'[j] = r /\ \A k \in Runs \ {j} : run'[k] = run[k]
  <2> HIDE DEF r
  <2> QED BY <1>1, <1>2, SetRun DEF Inv, r
<1>5. r.at = "collect" /\ r.place = 1 /\ r.made = {} /\ r.drop = {} /\ r.seen = {}
  BY <1>1, <1>2, <1>3 DEF Shape, Run, Writing
<1> QED BY <1>1, <1>4, <1>5 DEF Own, Shape, Fresh, Covering, Active, Refreshing, Writing

LEMMA CollectInv ==
  ASSUME Inv, NEW j \in Runs, Collect(j)
  PROVE  /\ run' \in [Runs -> Run] /\ \A k \in Runs \ {j} : run'[k] = run[k]
         /\ run[j].at = "collect" /\ run'[j].at = "plan"
         /\ Own(j)' /\ run'[j].made = {} /\ run'[j].trigger = run[j].trigger
<1> DEFINE r == [run[j] EXCEPT !.at = "plan"]
<1>1. run[j].at = "collect" /\ Set(j, r)
  BY DEF Collect
<1>2. r \in Run /\ run[j] \in Run
  BY ZenonT(40) DEF Inv, TypeOK, Run
<1>3. Shape(j)
  BY DEF Inv, Own
<1>4. run' \in [Runs -> Run] /\ run'[j] = r /\ \A k \in Runs \ {j} : run'[k] = run[k]
  <2> HIDE DEF r
  <2> QED BY <1>1, <1>2, SetRun DEF Inv
<1>5. r.at = "plan" /\ r.place = 1 /\ r.made = {} /\ r.drop = {} /\ r.seen = {} /\ r.trigger = run[j].trigger
  BY <1>1, <1>2, <1>3 DEF Shape, Run, Writing
<1> QED BY <1>1, <1>4, <1>5 DEF Own, Shape, Fresh, Covering, Active, Refreshing, Writing

LEMMA PlanInv ==
  ASSUME Inv, NEW j \in Runs, Plan(j)
  PROVE  /\ run' \in [Runs -> Run] /\ \A k \in Runs \ {j} : run'[k] = run[k]
         /\ run[j].at = "plan"
         /\ \/ run'[j].at = "done" /\ UNCHANGED met
            \/ /\ run'[j].at = "repair"
               /\ met' = [k \in Runs |->
                             IF k = j THEN {q \in Runs : Active(q)}
                             ELSE IF Active(k) THEN met[k] \cup {j} ELSE met[k]]
         /\ Own(j)' /\ run'[j].made = {} /\ run'[j].trigger = run[j].trigger
         /\ run'[j].mttr = run[j].mttr
<1>1. run[j] \in Run /\ run[j].at = "plan"
  BY DEF Inv, TypeOK, Plan
<1>2. run[j].made = {} /\ run[j].drop = {} /\ run[j].seen = {} /\ run[j].place = 1
  BY <1>1 DEF Inv, Own, Shape, Writing
<1>3. CASE known = {}
  <2> DEFINE r == [run[j] EXCEPT !.at = "done"]
  <2>1. r \in Run /\ r.at = "done" /\ r.made = {} /\ r.drop = {} /\ r.seen = {}
        /\ r.trigger = run[j].trigger /\ r.mttr = run[j].mttr
    BY <1>1, <1>2 DEF Run
  <2>2. Set(j, r) /\ UNCHANGED met
    BY <1>3 DEF Plan
  <2> HIDE DEF r
  <2>3. run' \in [Runs -> Run] /\ run'[j] = r /\ \A k \in Runs \ {j} : run'[k] = run[k]
    BY <2>1, <2>2, SetRun DEF Inv
  <2> QED BY <1>1, <2>1, <2>2, <2>3
             DEF Own, Shape, Fresh, Covering, Active, Refreshing, Writing
<1>4. CASE known # {}
  <2>1. PICK order \in Orders(known) :
           Set(j, [run[j] EXCEPT !.at = "repair", !.order = order, !.windows = Covered(today),
                                 !.window = NextWindow(j, Covered(today))])
    BY <1>4 DEF Plan
  <2> DEFINE r == [run[j] EXCEPT !.at = "repair", !.order = order, !.windows = Covered(today),
                                 !.window = NextWindow(j, Covered(today))]
  <2>2. today \in Windows /\ known \in SUBSET Repositories
    BY DEF Inv, TypeOK
  <2>3. Covered(today) \in SUBSET Windows /\ Covered(today) # {}
    BY <2>2, CoveredDay
  <2>4. NextWindow(j, Covered(today)) \in Covered(today)
    BY <2>3, NextIn
  <2>5. /\ order \in Seq(Repositories) /\ 1 \in DOMAIN order
        /\ \A i, k \in DOMAIN order : order[i] = order[k] => i = k
    BY <1>4, <2>2, OrdersAre
  <2>6. /\ r \in Run /\ r.at = "repair" /\ r.made = {} /\ r.drop = {} /\ r.seen = {}
        /\ r.trigger = run[j].trigger /\ r.order = order /\ r.windows = Covered(today)
        /\ r.window = NextWindow(j, Covered(today)) /\ r.place = run[j].place
        /\ r.mttr = run[j].mttr
    <3>1. NextWindow(j, Covered(today)) \in Windows
      BY <2>3, <2>4
    <3>2. r \in Run
      BY <1>1, <2>3, <2>5, <3>1 DEF Run, Refreshing
    <3> QED BY <1>1, <1>2, <3>2 DEF Run
  <2> HIDE DEF r
  <2>7. run' \in [Runs -> Run] /\ run'[j] = r /\ \A k \in Runs \ {j} : run'[k] = run[k]
    BY <2>1, <2>6, SetRun DEF Inv, r
  <2>8. Own(j)'
    BY <1>1, <2>3, <2>4, <2>5, <2>6, <2>7, <1>2
       DEF Own, Shape, Fresh, Covering, Active, Refreshing, Writing
  <2> QED BY <1>1, <1>4, <2>6, <2>7, <2>8 DEF Plan
<1> QED BY <1>3, <1>4

LEMMA RepairInv ==
  ASSUME Inv, NEW j \in Runs, Repair(j)
  PROVE  /\ run' \in [Runs -> Run] /\ \A k \in Runs \ {j} : run'[k] = run[k]
         /\ run[j].at = "repair" /\ run'[j].at \in {"repair", "measure"}
         /\ run'[j].at = "repair" <=> Later(j) # {}
         /\ run'[j].mttr = [run[j].mttr EXCEPT ![run[j].window] = version]
         /\ run'[j].windows = run[j].windows
         /\ Own(j)' /\ run'[j].made = {} /\ run'[j].trigger = run[j].trigger
<1> DEFINE mttr == [run[j].mttr EXCEPT ![run[j].window] = version]
           window == IF Later(j) = {} THEN NextWindow(j, run[j].windows) ELSE NextWindow(j, Later(j))
           at == IF Later(j) = {} THEN "measure" ELSE "repair"
           r == [run[j] EXCEPT !.at = at, !.mttr = mttr, !.window = window]
<1>1. run[j] \in Run /\ run[j].at = "repair" /\ version \in Nat
  BY DEF Inv, TypeOK, Repair
<1>2. Shape(j)
  BY DEF Inv, Own
<1>3. Set(j, r)
  <2>1. CASE Later(j) = {}
    BY <1>1, <2>1 DEF Repair, Set, Run
  <2>2. CASE Later(j) # {}
    BY <1>1, <2>2 DEF Repair, Set, Run
  <2> QED BY <2>1, <2>2
<1>4. mttr \in [Windows -> Nat]
  BY <1>1 DEF Run
<1>5. window \in run[j].windows /\ window \in Windows /\ run[j].windows \subseteq Windows
  <2>1. run[j].windows \in SUBSET Windows /\ run[j].windows # {} /\ Later(j) \in SUBSET run[j].windows
    BY <1>1, <1>2 DEF Shape, Active, Refreshing, Run, Later
  <2>2. CASE Later(j) = {}
    BY <2>1, <2>2, NextIn
  <2>3. CASE Later(j) # {}
    BY <2>1, <2>3, NextIn
  <2> QED BY <2>1, <2>2, <2>3
<1>6. at \in {"measure", "repair"} /\ (at = "repair" <=> Later(j) # {})
  OBVIOUS
<1> HIDE DEF mttr, window, at
<1>7. r \in Run
  BY <1>1, <1>4, <1>5, <1>6 DEF Run, Refreshing
<1>8. /\ r.at = at /\ r.mttr = mttr /\ r.window = window /\ r.windows = run[j].windows
      /\ r.made = {} /\ r.drop = {} /\ r.seen = {} /\ r.trigger = run[j].trigger
      /\ r.order = run[j].order /\ r.place = run[j].place
  BY <1>1, <1>2 DEF Run, Shape, Writing
<1> HIDE DEF r
<1>9. run' \in [Runs -> Run] /\ run'[j] = r /\ \A k \in Runs \ {j} : run'[k] = run[k]
  BY <1>3, <1>7, SetRun DEF Inv
<1>10. Own(j)'
  BY <1>1, <1>2, <1>5, <1>6, <1>8, <1>9
     DEF Own, Shape, Fresh, Covering, Active, Refreshing, Writing
<1> QED BY <1>1, <1>6, <1>8, <1>9, <1>10 DEF mttr

LEMMA MeasureInv ==
  ASSUME Inv, NEW j \in Runs, Measure(j)
  PROVE  /\ run' \in [Runs -> Run] /\ \A k \in Runs \ {j} : run'[k] = run[k]
         /\ run[j].at = "measure"
         /\ run'[j] = [run[j] EXCEPT !.at = "delete", !.lead = version]
         /\ Own(j)'
<1> DEFINE r == [run[j] EXCEPT !.at = "delete", !.lead = version]
<1>1. run[j] \in Run /\ run[j].at = "measure" /\ version \in Nat /\ Set(j, r)
  BY DEF Inv, TypeOK, Measure
<1>2. Own(j)
  BY DEF Inv
<1>3. r \in Run
  BY <1>1 DEF Run, Refreshing
<1>4. /\ r.at = "delete" /\ r.window = run[j].window /\ r.windows = run[j].windows
      /\ r.made = run[j].made /\ r.drop = run[j].drop /\ r.seen = run[j].seen
      /\ r.order = run[j].order /\ r.place = run[j].place
  BY <1>1 DEF Run
<1> HIDE DEF r
<1>6. run' \in [Runs -> Run] /\ run'[j] = r /\ \A k \in Runs \ {j} : run'[k] = run[k]
  BY <1>1, <1>3, SetRun DEF Inv
<1>7. Own(j)'
  BY <1>1, <1>2, <1>4, <1>6
     DEF Own, Shape, Fresh, Covering, Active, Refreshing, Writing, HasKey, Repository, SameKey
<1> QED BY <1>1, <1>6, <1>7 DEF r

LEMMA StartDeleteInv ==
  ASSUME Inv, NEW j \in Runs, StartDelete(j)
  PROVE  /\ run' \in [Runs -> Run] /\ \A k \in Runs \ {j} : run'[k] = run[k]
         /\ run[j].at = "delete"
         /\ run'[j] = [run[j] EXCEPT !.at = "wait", !.seen = Stored(j),
                                     !.made = run[j].made \cup {Row(j)}]
         /\ Own(j)'
<1> DEFINE r == [run[j] EXCEPT !.at = "wait", !.seen = Stored(j),
                               !.made = run[j].made \cup {Row(j)}]
<1>1. run[j] \in Run /\ run[j].at = "delete" /\ version \in Nat /\ Set(j, r)
  BY DEF Inv, TypeOK, StartDelete
<1>2. Own(j)
  BY DEF Inv
<1>3. Repository(j) \in Repositories
  <2>1. run[j].order \in Seq(Repositories) /\ run[j].place \in DOMAIN run[j].order
    BY <1>1, <1>2 DEF Run, Own, Shape, Active, Refreshing
  <2> QED BY <2>1 DEF Repository
<1>4. Row(j) \in Rows
  BY <1>1, <1>3 DEF Row, Rows, Run
<1>5. Stored(j) \in SUBSET Rows
  BY DEF Stored, Inv, TypeOK
<1>6. r \in Run
  BY <1>1, <1>4, <1>5 DEF Run, Refreshing
<1>7. /\ r.at = "wait" /\ r.window = run[j].window /\ r.windows = run[j].windows
      /\ r.made = run[j].made \cup {Row(j)} /\ r.drop = run[j].drop /\ r.seen = Stored(j)
      /\ r.order = run[j].order /\ r.place = run[j].place
  BY <1>1 DEF Run
<1> HIDE DEF r
<1>8. run' \in [Runs -> Run] /\ run'[j] = r /\ \A k \in Runs \ {j} : run'[k] = run[k]
  BY <1>1, <1>6, SetRun DEF Inv
<1>9. Row(j).repository = Repository(j) /\ Row(j).window = run[j].window /\ Row(j).by = j
  BY DEF Row
<1>10. Shape(j)'
  BY <1>1, <1>2, <1>7, <1>8 DEF Own, Shape, Active, Refreshing, Writing
<1>11. Fresh(j)'
  <2>1. run[j].place \in DOMAIN run[j].order /\ run[j].place \in Nat
    BY <1>1, <1>2 DEF Own, Shape, Active, Refreshing, Run
  <2>2. \A y \in r.made :
           y.by = j /\ \E p \in DOMAIN r.order : p =< r.place /\ y.repository = r.order[p]
    BY <1>2, <1>7, <1>9, <2>1 DEF Own, Fresh, Repository
  <2>3. \A x, y \in r.made : SameKey(x, y) => x = y
    BY <1>1, <1>2, <1>7, <1>9 DEF Own, Fresh, HasKey, SameKey
  <2> QED BY <1>7, <1>8, <2>2, <2>3 DEF Fresh, SameKey
<1>12. Covering(j)'
  BY <1>1, <1>2, <1>7, <1>8, <1>9 DEF Own, Covering, HasKey, Repository, SameKey, Stored
<1> QED BY <1>1, <1>8, <1>10, <1>11, <1>12 DEF r, Own

(* After the DELETE the refresh is at a window it has not yet written, or at its end. *)
LEMMA EndDeleteInv ==
  ASSUME Inv, NEW j \in Runs, EndDelete(j)
  PROVE  /\ run' \in [Runs -> Run] /\ \A k \in Runs \ {j} : run'[k] = run[k]
         /\ run[j].at = "wait" /\ run'[j].at \in {"measure", "commit"}
         /\ run'[j].seen = {} /\ run'[j].drop = run[j].drop \cup (run[j].seen \cap snapshot)
         /\ run'[j].made = run[j].made /\ run'[j].trigger = run[j].trigger
         /\ run'[j].mttr = run[j].mttr /\ run'[j].windows = run[j].windows
         /\ Own(j)'
<1> DEFINE drop == run[j].drop \cup (run[j].seen \cap snapshot)
           base == [run[j] EXCEPT !.seen = {}, !.drop = drop]
           r == Advanced(j, base)
<1>1. run[j] \in Run /\ run[j].at = "wait" /\ Set(j, r)
  BY DEF Inv, TypeOK, EndDelete
<1>2. Shape(j) /\ Fresh(j) /\ Covering(j)
  BY DEF Inv, Own
<1>3. /\ base \in Run /\ base.window = run[j].window /\ base.windows = run[j].windows
      /\ base.made = run[j].made /\ base.drop = drop /\ base.seen = {}
      /\ base.order = run[j].order /\ base.place = run[j].place
      /\ base.trigger = run[j].trigger /\ base.mttr = run[j].mttr
  BY <1>1 DEF Run
<1> HIDE DEF base
<1>4. /\ run[j].windows \in SUBSET Windows /\ run[j].windows # {}
      /\ Rest(j) \in SUBSET run[j].windows
  BY <1>1, <1>2 DEF Run, Shape, Active, Refreshing, Rest
<1>5. /\ run[j].place \in DOMAIN run[j].order /\ run[j].order \in Seq(Repositories)
      /\ \A i, k \in DOMAIN run[j].order : run[j].order[i] = run[j].order[k] => i = k
  BY <1>1, <1>2 DEF Run, Shape, Active, Refreshing
<1>6. /\ r \in Run /\ r.at \in {"measure", "commit"} /\ r.windows = run[j].windows
      /\ r.made = run[j].made /\ r.drop = drop /\ r.seen = {} /\ r.order = run[j].order
      /\ r.trigger = run[j].trigger /\ r.mttr = run[j].mttr
      /\ r.window \in run[j].windows /\ r.place \in DOMAIN run[j].order /\ run[j].place =< r.place
      /\ r.at = "measure" => \A y \in r.made : ~(y.repository = r.order[r.place] /\ y.window = r.window)
  <2>1. CASE Rest(j) # {}
    <3>1. NextWindow(j, Rest(j)) \in Rest(j)
      BY <1>4, <2>1, NextIn
    <3>2. r = [base EXCEPT !.at = "measure", !.window = NextWindow(j, Rest(j))]
      BY <2>1 DEF Advanced
    <3>3. /\ r \in Run /\ r.at = "measure" /\ r.window = NextWindow(j, Rest(j))
          /\ r.windows = base.windows /\ r.made = base.made /\ r.drop = base.drop /\ r.seen = base.seen
          /\ r.order = base.order /\ r.place = base.place
          /\ r.trigger = base.trigger /\ r.mttr = base.mttr
      BY <1>3, <1>4, <3>1, <3>2, ZenonT(40) DEF Run, Refreshing
    <3>4. \A y \in run[j].made : ~(y.repository = Repository(j) /\ y.window = NextWindow(j, Rest(j)))
      BY <3>1 DEF Rest, Written
    <3> HIDE DEF r
    <3> QED BY <1>3, <1>4, <1>5, <3>1, <3>3, <3>4 DEF Repository
  <2>2. CASE Rest(j) = {} /\ run[j].place < Len(run[j].order)
    <3>1. NextWindow(j, run[j].windows) \in run[j].windows
      BY <1>4, NextIn
    <3>2. r = [base EXCEPT !.at = "measure", !.place = run[j].place + 1,
                           !.window = NextWindow(j, run[j].windows)]
      BY <2>2 DEF Advanced
    <3>3. /\ r \in Run /\ r.at = "measure" /\ r.window = NextWindow(j, run[j].windows)
          /\ r.windows = base.windows /\ r.made = base.made /\ r.drop = base.drop /\ r.seen = base.seen
          /\ r.order = base.order /\ r.place = run[j].place + 1
          /\ r.trigger = base.trigger /\ r.mttr = base.mttr
      <4>1. NextWindow(j, run[j].windows) \in Windows /\ run[j].place + 1 \in Nat
        BY <1>4, <1>5, <3>1
      <4>2. r \in Run
        BY <1>3, <4>1, <3>2, ZenonT(40) DEF Run, Refreshing
      <4> QED BY <1>3, <4>2, <3>2 DEF Run
    <3>4. run[j].place + 1 \in DOMAIN run[j].order
      BY <1>5, <2>2
    <3>5. \A y \in run[j].made : y.repository # run[j].order[run[j].place + 1]
      <4>1. SUFFICES ASSUME NEW y \in run[j].made, y.repository = run[j].order[run[j].place + 1]
                     PROVE  FALSE
        OBVIOUS
      <4>2. PICK p \in DOMAIN run[j].order : p =< run[j].place /\ y.repository = run[j].order[p]
        BY <1>2 DEF Fresh
      <4>3. p = run[j].place + 1
        BY <1>5, <3>4, <4>1, <4>2
      <4> QED BY <1>5, <4>2, <4>3
    <3> HIDE DEF r
    <3> QED BY <1>3, <1>4, <1>5, <3>1, <3>3, <3>4, <3>5
  <2>3. CASE Rest(j) = {} /\ ~(run[j].place < Len(run[j].order))
    <3>1. r = [base EXCEPT !.at = "commit"]
      BY <2>3 DEF Advanced
    <3>2. /\ r \in Run /\ r.at = "commit" /\ r.window = base.window
          /\ r.windows = base.windows /\ r.made = base.made /\ r.drop = base.drop /\ r.seen = base.seen
          /\ r.order = base.order /\ r.place = base.place
          /\ r.trigger = base.trigger /\ r.mttr = base.mttr
      BY <1>3, <3>1 DEF Run, Refreshing
    <3> HIDE DEF r
    <3> QED BY <1>1, <1>2, <1>3, <1>5, <3>2 DEF Shape, Active, Refreshing
  <2> QED BY <2>1, <2>2, <2>3
<1> HIDE DEF r
<1>7. run' \in [Runs -> Run] /\ run'[j] = r /\ \A k \in Runs \ {j} : run'[k] = run[k]
  BY <1>1, <1>6, SetRun DEF Inv
<1>8. Shape(j)'
  BY <1>5, <1>6, <1>7, <1>4 DEF Shape, Active, Refreshing, Writing
<1>9. Fresh(j)'
  <2>1. \A y \in r.made :
           y.by = j /\ \E p \in DOMAIN r.order : p =< r.place /\ y.repository = r.order[p]
    <3>1. \A p \in DOMAIN r.order : p =< run[j].place => p =< r.place
      BY <1>5, <1>6
    <3> QED BY <1>2, <1>6, <3>1 DEF Fresh
  <2> QED BY <1>2, <1>6, <1>7, <2>1 DEF Fresh, SameKey, HasKey, Repository
<1>10. Covering(j)'
  <2>1. \A x \in drop : \E y \in run[j].made : SameKey(x, y)
    BY <1>1, <1>2 DEF Covering, HasKey, SameKey
  <2> QED BY <1>6, <1>7, <2>1 DEF Covering, SameKey
<1> QED BY <1>1, <1>6, <1>7, <1>8, <1>9, <1>10 DEF Own

LEMMA EndedInv ==
  ASSUME Inv, NEW j \in Runs, Ended(j)
  PROVE  /\ run' \in [Runs -> Run] /\ \A k \in Runs \ {j} : run'[k] = run[k]
         /\ run'[j].at = "done"
         /\ Own(j)' /\ run'[j].made = {} /\ run'[j].trigger = run[j].trigger
<1> DEFINE r == [NewRun EXCEPT !.at = "done", !.trigger = run[j].trigger]
<1>1. run[j] \in Run
  BY DEF Inv, TypeOK
<1>2. NewRun \in Run
  BY WindowsAssumption DEF NewRun, Run, Windows
<1>3. r \in Run /\ r.at = "done" /\ r.made = {} /\ r.drop = {} /\ r.seen = {}
      /\ r.trigger = run[j].trigger
  BY <1>1, <1>2 DEF NewRun, Run
<1> HIDE DEF r
<1>4. run' \in [Runs -> Run] /\ run'[j] = r /\ \A k \in Runs \ {j} : run'[k] = run[k]
  BY <1>3, SetRun DEF Inv, Ended, r
<1> QED BY <1>3, <1>4 DEF Own, Shape, Fresh, Covering, Active, Refreshing, Writing

-----------------------------------------------------------------------------
(* All steps *)

RunStep(j) ==
    \/ Begins(j) \/ Step(j) \/ Fail(j) \/ BreakCircle(j)

Elsewhere == Tick \/ (\E q \in Readers : ListWindows(q) \/ LoadCurrent(q) \/ LoadPrevious(q))
             \/ UNCHANGED vars

LEMMA StepKinds == [Next]_vars => Elsewhere \/ \E j \in Runs : RunStep(j)
BY DEF Next, Elsewhere, RunStep, Begins

LEMMA ElsewhereKeeps == Elsewhere => UNCHANGED <<run, snapshot, version, known, met>>
BY DEF Elsewhere, Tick, ListWindows, LoadCurrent, LoadPrevious, vars

LEMMA StepInv ==
  ASSUME Inv, NEW j \in Runs, RunStep(j)
  PROVE  /\ run' \in [Runs -> Run] /\ \A k \in Runs \ {j} : run'[k] = run[k]
         /\ Own(j)'
<1>1. Fail(j) \/ BreakCircle(j) \/ Commit(j) => Ended(j)
  BY DEF Fail, BreakCircle, Commit
<1> QED
  BY <1>1, BeginsInv, CollectInv, PlanInv, RepairInv, MeasureInv, StartDeleteInv, EndDeleteInv,
     EndedInv DEF RunStep, Step

LEMMA OwnNext ==
  ASSUME Inv, [Next]_vars
  PROVE  run' \in [Runs -> Run] /\ \A k \in Runs : Own(k)'
<1>1. CASE Elsewhere
  BY <1>1, ElsewhereKeeps, SameRun DEF Inv, TypeOK
<1>2. CASE \E j \in Runs : RunStep(j)
  <2>1. PICK j \in Runs : RunStep(j)
    BY <1>2
  <2> QED BY <2>1, StepInv, SameRun DEF Inv
<1> QED BY <1>1, <1>2, StepKinds

LEMMA RowsNext ==
  ASSUME Inv, [Next]_vars
  PROVE  /\ \/ snapshot' = snapshot
            \/ \E j \in Runs : /\ run[j].at = "commit" /\ Ended(j) /\ UNCHANGED met
                                /\ snapshot' = (snapshot \ run[j].drop) \cup run[j].made
         /\ snapshot' \subseteq Rows
<1>1. snapshot \subseteq Rows /\ \A j \in Runs : run[j].made \subseteq Rows
  BY DEF Inv, TypeOK, Run
<1>2. CASE Elsewhere
  BY <1>1, <1>2, ElsewhereKeeps
<1>3. CASE \E j \in Runs : RunStep(j)
  <2>1. PICK j \in Runs : RunStep(j)
    BY <1>3
  <2>2. CASE Commit(j)
    BY <1>1, <2>2 DEF Commit
  <2>3. CASE ~Commit(j)
    BY <1>1, <2>1, <2>3 DEF RunStep, Begins, FireSchedule, TriggerManually, Step, Collect, Plan,
       Repair, Measure, StartDelete, EndDelete, Fail, BreakCircle
  <2> QED BY <2>2, <2>3
<1> QED BY <1>2, <1>3, StepKinds

(* Only the plan of a refresh changes who has met whom. *)
LEMMA MetNext ==
  ASSUME Inv, [Next]_vars
  PROVE  UNCHANGED met \/ \E j \in Runs : Plan(j) /\ run'[j].at = "repair"
<1>1. CASE Elsewhere
  BY <1>1, ElsewhereKeeps
<1>2. CASE \E j \in Runs : RunStep(j)
  <2>1. PICK j \in Runs : RunStep(j)
    BY <1>2
  <2>2. CASE Plan(j)
    BY <2>2, PlanInv
  <2>3. CASE ~Plan(j)
    BY <2>1, <2>3 DEF RunStep, Begins, FireSchedule, TriggerManually, Step, Collect, Commit,
       Repair, Measure, StartDelete, EndDelete, Fail, BreakCircle
  <2> QED BY <2>2, <2>3
<1> QED BY <1>1, <1>2, StepKinds

(* A refresh becomes active by its plan only, and is then not before it again. *)
LEMMA PhaseNext ==
  ASSUME Inv, [Next]_vars, NEW k \in Runs
  PROVE  /\ Active(k)' => Active(k) \/ (Plan(k) /\ run'[k].at = "repair")
         /\ run'[k].at \in {"idle", "collect", "plan"} => run[k].at \in {"idle", "collect", "plan"}
<1>1. CASE Elsewhere
  BY <1>1, ElsewhereKeeps DEF Active
<1>2. CASE \E j \in Runs : RunStep(j)
  <2>1. PICK j \in Runs : RunStep(j)
    BY <1>2
  <2>2. CASE j # k
    BY <2>1, <2>2, StepInv DEF Active
  <2>3. CASE j = k
    <3>1. Fail(k) \/ BreakCircle(k) \/ Commit(k) => Ended(k)
      BY DEF Fail, BreakCircle, Commit
    <3>2. \/ Begins(k) \/ Collect(k) \/ Plan(k) \/ Repair(k) \/ Measure(k) \/ StartDelete(k)
          \/ EndDelete(k) \/ Ended(k)
      BY <2>1, <2>3, <3>1 DEF RunStep, Step
    <3>3. CASE StartDelete(k) \/ Measure(k)
      <4>1. run[k] \in Run
        BY DEF Inv, TypeOK
      <4> QED BY <3>3, <4>1, StartDeleteInv, MeasureInv, ZenonT(40) DEF Active, Refreshing, Run
    <3>4. CASE Begins(k) \/ Collect(k) \/ Plan(k)
      BY <3>4, BeginsInv, CollectInv, PlanInv DEF Active, Refreshing
    <3>5. CASE Repair(k) \/ EndDelete(k) \/ Ended(k)
      BY <3>5, RepairInv, EndDeleteInv, EndedInv DEF Active, Refreshing
    <3> QED BY <3>2, <3>3, <3>4, <3>5
  <2> QED BY <2>2, <2>3
<1> QED BY <1>1, <1>2, StepKinds

LEMMA MeetingsNext ==
  ASSUME Inv, [Next]_vars
  PROVE  Meetings' /\ met' \in [Runs -> SUBSET Runs]
<1>1. Meetings /\ met \in [Runs -> SUBSET Runs]
  BY DEF Inv, TypeOK
<1>2. CASE UNCHANGED met /\ ~(\E j \in Runs : Plan(j) /\ run'[j].at = "repair")
  <2>1. \A j, k \in Runs : k \in met'[j] <=> j \in met'[k]
    BY <1>1, <1>2 DEF Meetings
  <2>2. \A j, k \in Runs : Active(j)' /\ Active(k)' /\ j # k => k \in met'[j]
    BY <1>1, <1>2, PhaseNext DEF Meetings
  <2>3. \A j \in Runs : run'[j].at \in {"idle", "collect", "plan"} => met'[j] = {}
    BY <1>1, <1>2, PhaseNext DEF Meetings
  <2> QED BY <1>1, <1>2, <2>1, <2>2, <2>3 DEF Meetings
<1>3. CASE \E j \in Runs : Plan(j) /\ run'[j].at = "repair"
  <2>1. PICK j \in Runs : Plan(j) /\ run'[j].at = "repair"
    BY <1>3
  <2>2. /\ \A k \in Runs \ {j} : run'[k] = run[k]
        /\ run[j].at = "plan"
        /\ met' = [k \in Runs |-> IF k = j THEN {q \in Runs : Active(q)}
                                  ELSE IF Active(k) THEN met[k] \cup {j} ELSE met[k]]
    BY <2>1, PlanInv
  <2>3. ~Active(j) /\ met[j] = {} /\ \A k \in Runs : j \notin met[k]
    BY <1>1, <2>2 DEF Active, Refreshing, Meetings
  <2>4. \A k \in Runs \ {j} : Active(k)' = Active(k)
    BY <2>2 DEF Active
  <2>5. \A i, k \in Runs : k \in met'[i] <=> i \in met'[k]
    BY <1>1, <2>2, <2>3 DEF Meetings
  <2>6. \A i, k \in Runs : Active(i)' /\ Active(k)' /\ i # k => k \in met'[i]
    BY <1>1, <2>2, <2>3, <2>4 DEF Meetings
  <2>7. \A i \in Runs : run'[i].at \in {"idle", "collect", "plan"} => met'[i] = {}
    BY <1>1, <2>1, <2>2 DEF Meetings, Active, Refreshing
  <2>8. met' \in [Runs -> SUBSET Runs]
    BY <1>1, <2>2
  <2> QED BY <2>5, <2>6, <2>7, <2>8 DEF Meetings
<1> QED BY <1>2, <1>3, MetNext

LEMMA MetGrows ==
  ASSUME Inv, [Next]_vars, NEW k \in Runs
  PROVE  met[k] \subseteq met'[k]
<1>1. CASE \E j \in Runs : Plan(j) /\ run'[j].at = "repair"
  BY <1>1, PlanInv DEF Inv, Meetings
<1> QED BY <1>1, MetNext

LEMMA LateNext ==
  ASSUME Inv, [Next]_vars, NEW k \in Runs
  PROVE  Late(k)'
<1>1. Late(k) /\ Own(k)
  BY DEF Inv
<1>2. CASE run'[k] = run[k] /\ snapshot' = snapshot
  BY <1>1, <1>2, MetGrows DEF Late, SameKey
<1>3. CASE run'[k].made = {}
  BY <1>3 DEF Late
<1>4. CASE Elsewhere
  BY <1>2, <1>4, ElsewhereKeeps
<1>5. CASE \E j \in Runs : RunStep(j)
  <2>1. PICK j \in Runs : RunStep(j)
    BY <1>5
  <2>2. CASE j # k
    <3>1. run'[k] = run[k]
      BY <2>1, <2>2, StepInv
    <3>2. ASSUME NEW i \in Runs, run[i].at = "commit", Ended(i), UNCHANGED met,
                 snapshot' = (snapshot \ run[i].drop) \cup run[i].made
          PROVE  Late(k)'
      <4>1. i = j
        BY <2>1, <3>2, StepInv, EndedInv
      <4>2. SUFFICES ASSUME NEW x \in snapshot', NEW y \in run[k].made, SameKey(x, y), x \in run[j].made
                     PROVE  x.by \in met[k]
        BY <1>1, <3>1, <3>2, <4>1 DEF Late, SameKey
      <4>3. x.by = j
        BY <4>2 DEF Inv, Own, Fresh
      <4>4. Active(k) /\ Active(j)
        BY <1>1, <3>2, <4>1, <4>2 DEF Own, Shape, Writing, Active, Refreshing
      <4> QED BY <2>2, <4>3, <4>4 DEF Inv, Meetings
    <3> QED BY <1>2, <3>1, <3>2, RowsNext
  <2>3. CASE j = k
    <3>1. Fail(k) \/ BreakCircle(k) \/ Commit(k) => Ended(k)
      BY DEF Fail, BreakCircle, Commit
    <3>2. \/ Begins(k) \/ Collect(k) \/ Plan(k) \/ Repair(k) \/ Measure(k) \/ StartDelete(k)
          \/ EndDelete(k) \/ Ended(k)
      BY <2>1, <2>3, <3>1 DEF RunStep, Step
    <3>3. run[k] \in Run
      BY DEF Inv, TypeOK
    <3>4. CASE Begins(k) \/ Collect(k) \/ Plan(k) \/ Repair(k) \/ Ended(k)
      BY <1>3, <3>4, BeginsInv, CollectInv, PlanInv, RepairInv, EndedInv
    <3>5. CASE Measure(k)
      <4>1. /\ run'[k].made = run[k].made /\ run'[k].drop = run[k].drop
            /\ run'[k].seen = run[k].seen /\ UNCHANGED <<snapshot, met>>
        <5>1. run'[k] = [run[k] EXCEPT !.at = "delete", !.lead = version]
          BY <3>5, MeasureInv
        <5>2. UNCHANGED <<snapshot, met>>
          BY <3>5 DEF Measure
        <5> QED BY <3>3, <5>1, <5>2 DEF Run
      <4> QED BY <1>1, <4>1 DEF Late, SameKey
    <3>6. CASE StartDelete(k)
      <4>1. /\ run'[k].made = run[k].made \cup {Row(k)} /\ run'[k].drop = run[k].drop
            /\ run'[k].seen = Stored(k) /\ run[k].seen = {} /\ UNCHANGED <<snapshot, met>>
        <5>1. /\ run[k].at = "delete"
              /\ run'[k] = [run[k] EXCEPT !.at = "wait", !.seen = Stored(k),
                                          !.made = run[k].made \cup {Row(k)}]
          BY <3>6, StartDeleteInv
        <5>2. UNCHANGED <<snapshot, met>>
          BY <3>6 DEF StartDelete
        <5>3. run[k].seen = {}
          BY <1>1, <5>1 DEF Own, Shape
        <5> QED BY <3>3, <5>1, <5>2, <5>3 DEF Run
      <4>2. \A x \in snapshot : SameKey(x, Row(k)) => x \in Stored(k)
        BY DEF SameKey, Row, Stored
      <4> QED BY <1>1, <4>1, <4>2 DEF Late, SameKey
    <3>7. CASE EndDelete(k)
      <4>1. /\ run'[k].made = run[k].made /\ UNCHANGED <<snapshot, met>>
            /\ run'[k].drop = run[k].drop \cup (run[k].seen \cap snapshot) /\ run'[k].seen = {}
        BY <3>7, EndDeleteInv DEF EndDelete
      <4> QED BY <1>1, <4>1 DEF Late, SameKey
    <3> QED BY <3>2, <3>4, <3>5, <3>6, <3>7
  <2> QED BY <2>2, <2>3
<1> QED BY <1>4, <1>5, StepKinds

LEMMA DuplicatesNext ==
  ASSUME Inv, [Next]_vars
  PROVE  DuplicatesNeedOverlap'
<1>1. CASE snapshot' = snapshot
  <2>1. snapshot \subseteq Rows /\ \A x \in snapshot : x.by \in Runs
    BY DEF Inv, TypeOK, Rows
  <2> QED BY <1>1, <2>1, MetGrows DEF Inv, DuplicatesNeedOverlap, SameKey
<1>2. ASSUME NEW j \in Runs, run[j].at = "commit", UNCHANGED met,
             snapshot' = (snapshot \ run[j].drop) \cup run[j].made
      PROVE  DuplicatesNeedOverlap'
  <2>1. Own(j) /\ Late(j) /\ Meetings /\ DuplicatesNeedOverlap
    BY DEF Inv
  <2>2. run[j].seen = {}
    BY <1>2, <2>1 DEF Own, Shape
  <2>3. \A x \in snapshot : x.by \in Runs
    BY DEF Inv, TypeOK, Rows
  <2>4. ASSUME NEW x \in snapshot \ run[j].drop, NEW y \in run[j].made, SameKey(x, y) \/ SameKey(y, x)
        PROVE  x.by \in met[j] /\ j \in met[x.by] /\ y.by = j
    <3>1. x.by \in met[j]
      BY <2>1, <2>2, <2>4 DEF Late, SameKey
    <3> QED BY <2>1, <2>3, <3>1 DEF Meetings, Own, Fresh
  <2>5. SUFFICES ASSUME NEW x \in snapshot', NEW y \in snapshot', SameKey(x, y), x # y
                 PROVE  y.by \in met[x.by]
    BY <1>2 DEF DuplicatesNeedOverlap, SameKey
  <2>6. CASE x \in snapshot \ run[j].drop /\ y \in snapshot \ run[j].drop
    BY <2>1, <2>5, <2>6 DEF DuplicatesNeedOverlap
  <2>7. CASE x \in snapshot \ run[j].drop /\ y \in run[j].made
    BY <2>4, <2>5, <2>7
  <2>8. CASE x \in run[j].made /\ y \in snapshot \ run[j].drop
    BY <2>4, <2>5, <2>8
  <2>9. CASE x \in run[j].made /\ y \in run[j].made
    BY <2>1, <2>5, <2>9 DEF Own, Fresh
  <2> QED BY <1>2, <2>6, <2>7, <2>8, <2>9
<1> QED BY <1>1, <1>2, RowsNext

LEMMA NewestPart == \A S, n : Newest(S, n) \subseteq S
BY DEF Newest

LEMMA RequestsNext ==
  ASSUME Inv, [Next]_vars
  PROVE  request' \in [Readers -> Request]
<1>1. request \in [Readers -> Request] /\ snapshot \in SUBSET Rows
  BY DEF Inv, TypeOK
<1>2. Stocked \in SUBSET Windows
  BY <1>1 DEF Stocked, Rows
<1>3. CASE \E q \in Readers : ListWindows(q)
  <2>1. PICK q \in Readers : ListWindows(q)
    BY <1>3
  <2>2. PICK recent \in SUBSET Stocked, at \in {"done", "current"} :
           request' = [request EXCEPT ![q].recent = recent, ![q].at = at]
    BY <2>1, NewestPart DEF ListWindows
  <2> QED BY <1>1, <1>2, <2>2 DEF Request
<1>4. CASE \E q \in Readers : LoadCurrent(q)
  <2>1. PICK q \in Readers : LoadCurrent(q)
    BY <1>4
  <2>2. PICK rows \in SUBSET Rows :
           request' = [request EXCEPT ![q].at = "previous", ![q].rows = rows]
    BY <1>1, <2>1 DEF LoadCurrent
  <2> QED BY <1>1, <2>2 DEF Request
<1>5. CASE \E q \in Readers : LoadPrevious(q)
  <2>1. PICK q \in Readers : LoadPrevious(q)
    BY <1>5
  <2>2. PICK rows \in SUBSET Rows :
           request' = [request EXCEPT ![q].at = "done", ![q].rows = @ \cup rows]
    BY <1>1, <2>1 DEF LoadPrevious
  <2> QED BY <1>1, <2>2 DEF Request
<1>6. CASE UNCHANGED request
  BY <1>1, <1>6
<1>7. CASE Elsewhere
  BY <1>3, <1>4, <1>5, <1>6, <1>7 DEF Elsewhere, Tick, vars
<1>8. CASE \E j \in Runs : RunStep(j)
  BY <1>6, <1>8 DEF RunStep, Begins, FireSchedule, TriggerManually, Step, Collect, Plan, Commit,
     Repair, Measure, StartDelete, EndDelete, Fail, BreakCircle
<1> QED BY <1>7, <1>8, StepKinds

LEMMA RestNext ==
  ASSUME Inv, [Next]_vars
  PROVE  known' \subseteq Repositories /\ version' \in Nat /\ today' \in Windows
<1>1. known \subseteq Repositories /\ version \in Nat /\ today \in Windows
  BY DEF Inv, TypeOK
<1>2. CASE Tick
  BY <1>1, <1>2, WindowsAssumption DEF Tick, Windows
<1>3. CASE \E j \in Runs : Collect(j)
  BY <1>1, <1>3 DEF Collect
<1>4. CASE UNCHANGED <<known, version, today>>
  BY <1>1, <1>4
<1> QED
  BY <1>2, <1>3, <1>4 DEF Next, vars, ListWindows, LoadCurrent, LoadPrevious, FireSchedule,
     TriggerManually, Step, Plan, Commit, Repair, Measure, StartDelete, EndDelete, Fail,
     BreakCircle

LEMMA InvInit == Init => Inv
<1> SUFFICES ASSUME Init PROVE Inv
  OBVIOUS
<1>1. NewRun \in Run
  BY WindowsAssumption DEF NewRun, Run, Windows
<1>2. NewRequest \in Request
  BY DEF NewRequest, Request
<1>3. TypeOK
  BY <1>1, <1>2, WindowsAssumption DEF Init, TypeOK, Windows
<1>4. \A j \in Runs : Own(j) /\ Late(j)
  BY DEF Init, NewRun, Own, Shape, Fresh, Covering, Late, Active, Refreshing, Writing
<1>5. Meetings /\ DuplicatesNeedOverlap
  BY DEF Init, NewRun, Meetings, DuplicatesNeedOverlap, Active, Refreshing
<1> QED BY <1>3, <1>4, <1>5 DEF Inv

LEMMA InvNext == Inv /\ [Next]_vars => Inv'
<1> SUFFICES ASSUME Inv, [Next]_vars PROVE Inv'
  OBVIOUS
<1>1. TypeOK'
  BY OwnNext, RowsNext, MeetingsNext, RequestsNext, RestNext DEF TypeOK
<1>2. \A j \in Runs : Own(j)' /\ Late(j)'
  BY OwnNext, LateNext
<1> QED BY <1>1, <1>2, MeetingsNext, DuplicatesNext DEF Inv

LEMMA Invariance == Spec => []Inv
BY InvInit, InvNext, PTL DEF Spec

(* Runs, transactions, stored rows and requests keep their types. *)
THEOREM SnapshotsTyped == Spec => []TypeOK
<1>1. Inv => TypeOK
  BY DEF Inv
<1> QED BY <1>1, Invariance, PTL

(* A window is stored twice for a repository only by refreshes that were open together. *)
THEOREM DuplicatesOverlapped == Spec => []DuplicatesNeedOverlap
<1>1. Inv => DuplicatesNeedOverlap
  BY DEF Inv
<1> QED BY <1>1, Invariance, PTL

(* No commit removes the rows of a window without adding one for it. *)
THEOREM WindowsNeverVanish == Spec => WindowsStay
<1>1. ASSUME Inv, [Next]_vars
      PROVE  \A x \in snapshot : \E y \in snapshot' : SameKey(x, y)
  <2>1. CASE snapshot' = snapshot
    BY <2>1 DEF SameKey
  <2>2. ASSUME NEW j \in Runs, snapshot' = (snapshot \ run[j].drop) \cup run[j].made
        PROVE  \A x \in snapshot : \E y \in snapshot' : SameKey(x, y)
    <3>1. Covering(j)
      BY <1>1 DEF Inv, Own
    <3>2. \A x : SameKey(x, x)
      BY DEF SameKey
    <3> QED BY <2>2, <3>1, <3>2 DEF Covering
  <2> QED BY <1>1, <2>1, <2>2, RowsNext
<1>2. Inv /\ [Next]_vars => [\A x \in snapshot : \E y \in snapshot' : SameKey(x, y)]_vars
  BY <1>1
<1> QED BY <1>2, Invariance, PTL DEF Spec, WindowsStay

-----------------------------------------------------------------------------
(* The dashboard's request between its statements *)

Listed(q) ==
    /\ request[q].at \in {"current", "previous"} => request[q].recent \subseteq Stocked
    /\ request[q].at \in {"previous", "done"} =>
          \A w \in Current(q) \cup (IF request[q].at = "done" THEN Previous(q) ELSE {}) :
              \E x \in request[q].rows : x.window = w

LEMMA StockedGrows == (\A x \in snapshot : \E y \in snapshot' : SameKey(x, y)) => Stocked \subseteq Stocked'
BY DEF Stocked, SameKey

LEMMA PartsOfRecent == ASSUME NEW q PROVE Current(q) \cup Previous(q) \subseteq request[q].recent
BY NewestPart DEF Current, Previous

LEMMA SameRequest ==
  ASSUME NEW q, Listed(q), request'[q] = request[q], Stocked \subseteq Stocked'
  PROVE  Listed(q)'
BY DEF Listed, Current, Previous, Span, Newest

LEMMA SameRequestElse ==
  ASSUME Inv, [Next]_vars, NEW q \in Readers,
         ~(ListWindows(q) \/ LoadCurrent(q) \/ LoadPrevious(q))
  PROVE  request'[q] = request[q]
<1>0. request \in [Readers -> Request]
  BY DEF Inv, TypeOK
<1>1. CASE UNCHANGED request
  BY <1>1
<1>2. CASE \E p \in Readers \ {q} : ListWindows(p)
  BY <1>0, <1>2 DEF ListWindows
<1>3. CASE \E p \in Readers \ {q} : LoadCurrent(p) \/ LoadPrevious(p)
  BY <1>0, <1>3 DEF LoadCurrent, LoadPrevious
<1>4. CASE \E j \in Runs : RunStep(j)
  BY <1>1, <1>4 DEF RunStep, Begins, FireSchedule, TriggerManually, Step, Collect, Plan,
     Commit, Repair, Measure, StartDelete, EndDelete, Fail, BreakCircle
<1>5. CASE Elsewhere
  BY <1>1, <1>2, <1>3, <1>5 DEF Elsewhere, Tick, vars
<1> QED BY <1>4, <1>5, StepKinds

LEMMA ListedNext ==
  ASSUME Inv, [Next]_vars, NEW q \in Readers, Listed(q),
         \A x \in snapshot : \E y \in snapshot' : SameKey(x, y)
  PROVE  Listed(q)'
<1>1. request[q] \in Request /\ request \in [Readers -> Request]
  BY DEF Inv, TypeOK
<1>2. Stocked \subseteq Stocked'
  BY StockedGrows
<1>3. CASE ListWindows(q)
  <2>1. PICK recent \in SUBSET Stocked :
           /\ request' = [request EXCEPT ![q].recent = recent,
                                         ![q].at = IF recent = {} THEN "done" ELSE "current"]
           /\ UNCHANGED snapshot
    <3> DEFINE Past(last) == {w \in Stocked : w <= last}
               Recent(last) == Newest(IF Past(last) = {} THEN Stocked ELSE Past(last), 2 * Shown)
    <3>1. PICK last \in {today - 1, today} :
             request' = [request EXCEPT ![q].recent = Recent(last),
                                        ![q].at = IF Recent(last) = {} THEN "done" ELSE "current"]
      BY <1>3 DEF ListWindows
    <3>2. Recent(last) \subseteq Stocked
      BY NewestPart
    <3>3. UNCHANGED snapshot
      BY <1>3 DEF ListWindows
    <3> HIDE DEF Recent
    <3> QED BY <3>1, <3>2, <3>3
  <2>2. /\ request'[q].recent = recent
        /\ request'[q].at = IF recent = {} THEN "done" ELSE "current"
    BY <1>1, <2>1 DEF Request
  <2>3. Current(q)' \cup Previous(q)' \subseteq recent
    BY <2>2, NewestPart DEF Current, Previous
  <2>4. CASE recent = {}
    BY <2>2, <2>3, <2>4 DEF Listed
  <2>5. CASE recent # {}
    BY <1>2, <2>2, <2>5 DEF Listed
  <2> QED BY <2>4, <2>5
<1>4. CASE LoadCurrent(q)
  <2>1. /\ request[q].at = "current" /\ request'[q].at = "previous"
        /\ request'[q].recent = request[q].recent
        /\ request'[q].rows = {x \in snapshot : x.window \in Current(q)}
    BY <1>1, <1>4 DEF LoadCurrent, Request
  <2>2. Current(q)' = Current(q)
    BY <2>1 DEF Current, Span, Newest
  <2>3. \A w \in Current(q) : \E x \in snapshot : x.window = w
    BY <2>1, PartsOfRecent DEF Listed, Stocked
  <2> QED BY <1>2, <2>1, <2>2, <2>3 DEF Listed
<1>5. CASE LoadPrevious(q)
  <2>1. /\ request[q].at = "previous" /\ request'[q].at = "done"
        /\ request'[q].recent = request[q].recent
        /\ request'[q].rows = request[q].rows \cup {x \in snapshot : x.window \in Previous(q)}
    BY <1>1, <1>5 DEF LoadPrevious, Request
  <2>2. Current(q)' = Current(q) /\ Previous(q)' = Previous(q)
    BY <2>1 DEF Current, Previous, Span, Newest
  <2>3. \A w \in Previous(q) : \E x \in snapshot : x.window = w
    BY <2>1, PartsOfRecent DEF Listed, Stocked
  <2> QED BY <2>1, <2>2, <2>3 DEF Listed
<1>6. CASE ~(ListWindows(q) \/ LoadCurrent(q) \/ LoadPrevious(q))
  <2>1. request'[q] = request[q]
    BY <1>6, SameRequestElse
  <2> QED BY <1>2, <2>1, SameRequest
<1> QED BY <1>3, <1>4, <1>5, <1>6

(* What the dashboard has listed it finds, whichever refreshes commit in between. *)
THEOREM ListedWindowsFound == Spec => []ListedWindowsHaveRows
<1>1. Init => \A q \in Readers : Listed(q)
  BY DEF Init, NewRequest, Listed
<1>2. (\A q \in Readers : Listed(q)) /\ Inv /\ [Next]_vars
        /\ [\A x \in snapshot : \E y \in snapshot' : SameKey(x, y)]_vars
      => (\A q \in Readers : Listed(q))'
  <2> SUFFICES ASSUME \A q \in Readers : Listed(q), Inv, [Next]_vars,
                      [\A x \in snapshot : \E y \in snapshot' : SameKey(x, y)]_vars,
                      NEW q \in Readers
               PROVE  Listed(q)'
    OBVIOUS
  <2>1. \A x \in snapshot : \E y \in snapshot' : SameKey(x, y)
    BY DEF SameKey, vars
  <2> QED BY <2>1, ListedNext
<1>3. (\A q \in Readers : Listed(q)) => ListedWindowsHaveRows
  BY DEF Listed, ListedWindowsHaveRows
<1> QED BY <1>1, <1>2, <1>3, Invariance, WindowsNeverVanish, PTL DEF Spec, WindowsStay

-----------------------------------------------------------------------------
(* Without a manual trigger *)

ScheduledOnly == "manual" \notin Triggers

AloneInv ==
    /\ \A j \in Runs : Alive(j) => run[j].trigger = "scheduler"
    /\ \A j, k \in Runs : Alive(j) /\ Alive(k) => j = k
    /\ \A j \in Runs : met[j] = {}

(* A run that is alive was so before, or nobody was. *)
LEMMA AliveNext ==
  ASSUME Inv, [Next]_vars, ScheduledOnly, NEW k \in Runs, Alive(k)'
  PROVE  \/ Alive(k) /\ run'[k].trigger = run[k].trigger
         \/ FireSchedule(k) /\ run'[k].trigger = "scheduler"
<1>1. CASE Elsewhere
  BY <1>1, ElsewhereKeeps DEF Alive
<1>2. CASE \E j \in Runs : RunStep(j)
  <2>1. PICK j \in Runs : RunStep(j)
    BY <1>2
  <2>2. CASE j # k
    BY <2>1, <2>2, StepInv DEF Alive
  <2>3. CASE j = k
    <3>1. Fail(k) \/ BreakCircle(k) \/ Commit(k) => Ended(k)
      BY DEF Fail, BreakCircle, Commit
    <3>2. \/ Begins(k) \/ Collect(k) \/ Plan(k) \/ Repair(k) \/ Measure(k) \/ StartDelete(k)
          \/ EndDelete(k) \/ Ended(k)
      BY <2>1, <2>3, <3>1 DEF RunStep, Step
    <3>3. run[k] \in Run /\ run \in [Runs -> Run]
      BY DEF Inv, TypeOK
    <3>4. CASE Begins(k)
      BY <3>3, <3>4, ZenonT(40) DEF Begins, FireSchedule, TriggerManually, ScheduledOnly, Set, Run
    <3>5. CASE Measure(k) \/ StartDelete(k)
      <4>1. CASE Measure(k)
        <5>1. /\ run[k].at = "measure"
              /\ run'[k] = [run[k] EXCEPT !.at = "delete", !.lead = version]
          BY <4>1, MeasureInv
        <5>2. run'[k].trigger = run[k].trigger
          BY <3>3, <5>1 DEF Run
        <5> QED BY <5>1, <5>2 DEF Alive
      <4>2. CASE StartDelete(k)
        <5>1. /\ run[k].at = "delete"
              /\ run'[k] = [run[k] EXCEPT !.at = "wait", !.seen = Stored(k),
                                          !.made = run[k].made \cup {Row(k)}]
          BY <4>2, StartDeleteInv
        <5>2. run'[k].trigger = run[k].trigger
          BY <3>3, <5>1 DEF Run
        <5> QED BY <5>1, <5>2 DEF Alive
      <4> QED BY <3>5, <4>1, <4>2
    <3>6. CASE Collect(k) \/ Plan(k) \/ Repair(k) \/ EndDelete(k) \/ Ended(k)
      BY <3>6, CollectInv, PlanInv, RepairInv, EndDeleteInv, EndedInv DEF Alive
    <3> QED BY <3>2, <3>4, <3>5, <3>6
  <2> QED BY <2>2, <2>3
<1> QED BY <1>1, <1>2, StepKinds

LEMMA AloneNext ==
  ASSUME ScheduledOnly, Inv, AloneInv, [Next]_vars
  PROVE  AloneInv'
<1>1. \A j \in Runs : Alive(j)' => run'[j].trigger = "scheduler"
  BY AliveNext DEF AloneInv
<1>2. ASSUME NEW j \in Runs, NEW k \in Runs, Alive(j)', Alive(k)' PROVE j = k
  <2>1. CASE Alive(j) /\ Alive(k)
    BY <2>1 DEF AloneInv
  <2>2. CASE FireSchedule(j)
    <3>1. ~Alive(k)
      BY <2>2 DEF FireSchedule, AloneInv
    <3>2. FireSchedule(k)
      BY <1>2, <3>1, AliveNext
    <3> QED BY <1>2, <2>2, <3>1, StepInv DEF RunStep, Begins, Alive
  <2>3. CASE FireSchedule(k)
    <3>1. ~Alive(j)
      BY <2>3 DEF FireSchedule, AloneInv
    <3> QED BY <1>2, <2>3, <3>1, StepInv DEF RunStep, Begins, Alive
  <2> QED BY <1>2, <2>1, <2>2, <2>3, AliveNext
<1>3. \A j \in Runs : met'[j] = {}
  <2>1. CASE UNCHANGED met
    BY <2>1 DEF AloneInv
  <2>2. CASE \E j \in Runs : Plan(j) /\ run'[j].at = "repair"
    <3>1. PICK j \in Runs : Plan(j) /\ run'[j].at = "repair"
      BY <2>2
    <3>2. /\ run[j].at = "plan"
          /\ met' = [k \in Runs |-> IF k = j THEN {q \in Runs : Active(q)}
                                    ELSE IF Active(k) THEN met[k] \cup {j} ELSE met[k]]
      BY <3>1, PlanInv
    <3>3. \A k \in Runs : ~Active(k)
      BY <3>2 DEF AloneInv, Active, Alive, Refreshing
    <3> QED BY <3>2, <3>3 DEF AloneInv
  <2> QED BY <2>1, <2>2, MetNext
<1> QED BY <1>1, <1>2, <1>3 DEF AloneInv

LEMMA Aloneness == ASSUME ScheduledOnly PROVE Spec => []AloneInv
<1>1. Init => AloneInv
  BY DEF Init, NewRun, AloneInv, Alive
<1>2. Inv /\ AloneInv /\ [Next]_vars => AloneInv'
  BY AloneNext
<1> QED BY <1>1, <1>2, Invariance, PTL DEF Spec

LEMMA AloneIsOnce == ASSUME Inv, AloneInv PROVE OneRowPerWindow
<1> SUFFICES ASSUME NEW x \in snapshot, NEW y \in snapshot, SameKey(x, y), x # y PROVE FALSE
  BY DEF OneRowPerWindow
<1>1. x.by \in Runs
  BY DEF Inv, TypeOK, Rows
<1> QED BY <1>1 DEF Inv, DuplicatesNeedOverlap, AloneInv

(* Without a manual trigger, the table has one row for each repository and window. *)
THEOREM StoredOnce == ASSUME ScheduledOnly PROVE Spec => []OneRowPerWindow
BY Aloneness, Invariance, AloneIsOnce, PTL

(* The two statements of the dashboard load different windows. *)
Loaded(q) ==
    /\ request[q].at \in {"idle", "current"} => request[q].rows = {}
    /\ request[q].at = "previous" => \A x \in request[q].rows : x.window \in Current(q)
    /\ \A x, y \in request[q].rows : SameKey(x, y) => x = y

LEMMA LoadedNext ==
  ASSUME Inv, OneRowPerWindow, [Next]_vars, NEW q \in Readers, Loaded(q)
  PROVE  Loaded(q)'
<1>1. request[q] \in Request /\ request \in [Readers -> Request]
  BY DEF Inv, TypeOK
<1>2. CASE ListWindows(q)
  <2>1. request[q].at = "idle" /\ request'[q].rows = request[q].rows
        /\ request'[q].at \in {"current", "done"}
    BY <1>1, <1>2 DEF ListWindows, Request
  <2> QED BY <2>1 DEF Loaded
<1>3. CASE LoadCurrent(q)
  <2>1. /\ request'[q].at = "previous"
        /\ request'[q].recent = request[q].recent
        /\ request'[q].rows = {x \in snapshot : x.window \in Current(q)}
    BY <1>1, <1>3 DEF LoadCurrent, Request
  <2>2. Current(q)' = Current(q)
    BY <2>1 DEF Current, Span, Newest
  <2> QED BY <2>1, <2>2 DEF Loaded, OneRowPerWindow, SameKey
<1>4. CASE LoadPrevious(q)
  <2>1. /\ request[q].at = "previous" /\ request'[q].at = "done"
        /\ request'[q].rows = request[q].rows \cup {x \in snapshot : x.window \in Previous(q)}
    BY <1>1, <1>4 DEF LoadPrevious, Request
  <2>2. Current(q) \cap Previous(q) = {}
    BY DEF Previous
  <2> QED BY <2>1, <2>2 DEF Loaded, OneRowPerWindow, SameKey
<1>5. CASE ~(ListWindows(q) \/ LoadCurrent(q) \/ LoadPrevious(q))
  <2>1. request'[q] = request[q]
    BY <1>5, SameRequestElse
  <2> QED BY <2>1 DEF Loaded, Current, Span, Newest, SameKey
<1> QED BY <1>2, <1>3, <1>4, <1>5

(* There, a request never holds two rows of one repository and window. *)
THEOREM CountedOnce == ASSUME ScheduledOnly PROVE Spec => []CountsOnce
<1>1. Init => \A q \in Readers : Loaded(q)
  BY DEF Init, NewRequest, Loaded
<1>2. (\A q \in Readers : Loaded(q)) /\ Inv /\ OneRowPerWindow /\ [Next]_vars
      => (\A q \in Readers : Loaded(q))'
  BY LoadedNext
<1>3. (\A q \in Readers : Loaded(q)) => CountsOnce
  BY DEF Loaded, CountsOnce
<1> QED BY <1>1, <1>2, <1>3, Invariance, StoredOnce, PTL DEF Spec

(* What a refresh has read so far, and nobody's rows of it are stored before its end. *)
Even(j) ==
    /\ run[j].at \in {"idle", "collect", "plan"} => \A w \in Windows : run[j].mttr[w] = 0
    /\ run[j].at \in {"plan"} \cup Refreshing => version # 0
    /\ run[j].at = "repair" => \A w \in Windows : run[j].mttr[w] \in {0, version}
    /\ run[j].at \in Writing => \A w \in run[j].windows : run[j].mttr[w] = version
    /\ run[j].at = "delete" => run[j].lead = version
    /\ \A y \in run[j].made : y.lead = version /\ y.mttr = version /\ y.count = version
    /\ run[j].at # "done" => \A x \in snapshot : x.by # j

(* Only the collection of a run that is alive changes the data. *)
LEMMA VersionNext ==
  ASSUME [Next]_vars
  PROVE  UNCHANGED version \/ \E j \in Runs : Collect(j)
BY DEF Next, vars, Tick, ListWindows, LoadCurrent, LoadPrevious, FireSchedule, TriggerManually,
   Step, Plan, Commit, Repair, Measure, StartDelete, EndDelete, Fail, BreakCircle

LEMMA StepOfOne ==
  ASSUME Inv, NEW j \in Runs, RunStep(j)
  PROVE  \/ Begins(j) \/ Collect(j) \/ Plan(j) \/ Repair(j) \/ Measure(j) \/ StartDelete(j)
         \/ EndDelete(j) \/ Ended(j)
BY DEF RunStep, Step, Fail, BreakCircle, Commit

LEMMA StepSame ==
  ASSUME NEW j \in Runs, RunStep(j), ~Ended(j)
  PROVE  snapshot' = snapshot /\ (~Collect(j) => version' = version)
BY DEF RunStep, Begins, FireSchedule, TriggerManually, Step, Collect, Plan, Commit, Repair,
   Measure, StartDelete, EndDelete, Fail, BreakCircle

LEMMA EvenOwn ==
  ASSUME Inv, AloneInv, NEW j \in Runs, Even(j), RunStep(j)
  PROVE  Even(j)'
<1>1. run[j] \in Run /\ version \in Nat /\ Own(j)
  BY DEF Inv, TypeOK
<1>2. CASE Ended(j)
  BY <1>2, EndedInv DEF Even, Refreshing, Writing
<1>3. ASSUME ~Ended(j)
      PROVE  snapshot' = snapshot /\ (~Collect(j) => version' = version)
  BY <1>3, StepSame
<1>4. CASE Begins(j) /\ ~Ended(j)
  <2>1. run'[j].mttr = run[j].mttr
    <3>1. run \in [Runs -> Run]
      BY DEF Inv, TypeOK
    <3>2. PICK trigger : run' = [run EXCEPT ![j] = [run[j] EXCEPT !.at = "collect", !.trigger = trigger]]
      BY <1>4 DEF Begins, FireSchedule, TriggerManually, Set
    <3>3. run'[j] = [run[j] EXCEPT !.at = "collect", !.trigger = trigger]
      BY <3>1, <3>2
    <3> QED BY <1>1, <3>3 DEF Run
  <2> QED BY <1>1, <1>3, <1>4, <2>1, BeginsInv DEF Even, Refreshing, Writing
<1>5. CASE Collect(j) /\ ~Ended(j)
  <2>1. run'[j].mttr = run[j].mttr
    <3>1. run \in [Runs -> Run]
      BY DEF Inv, TypeOK
    <3>2. run'[j] = [run[j] EXCEPT !.at = "plan"]
      BY <1>5, <3>1 DEF Collect, Set
    <3> QED BY <1>1, <3>2 DEF Run
  <2>2. version' # 0
    BY <1>1, <1>5 DEF Collect
  <2> QED BY <1>1, <1>3, <1>5, <2>1, <2>2, CollectInv DEF Even, Refreshing, Writing
<1>6. CASE Plan(j) /\ ~Ended(j)
  <2>1. version' = version /\ version # 0 /\ ~Collect(j)
    BY <1>3, <1>6, PlanInv, CollectInv DEF Even
  <2>2. run'[j].at \in {"repair", "done"} /\ run[j].at = "plan" /\ run'[j].made = {}
        /\ run'[j].mttr = run[j].mttr /\ snapshot' = snapshot
    BY <1>3, <1>6, PlanInv
  <2> QED BY <2>1, <2>2 DEF Even, Refreshing, Writing
<1>7. CASE Repair(j) /\ ~Ended(j)
  <2>1. /\ run[j].at = "repair" /\ run'[j].at \in {"repair", "measure"}
        /\ run'[j].at = "repair" <=> Later(j) # {}
        /\ run'[j].mttr = [run[j].mttr EXCEPT ![run[j].window] = version]
        /\ run'[j].windows = run[j].windows /\ run'[j].made = {}
    BY <1>7, RepairInv
  <2>2. version' = version /\ snapshot' = snapshot
    BY <1>3, <1>7, <2>1, CollectInv
  <2>3. \A w \in Windows : run'[j].mttr[w] = IF w = run[j].window THEN version ELSE run[j].mttr[w]
    BY <1>1, <2>1 DEF Run
  <2>4. run[j].windows \subseteq Windows
    BY <1>1 DEF Run
  <2>5. run'[j].at = "measure" => \A w \in run[j].windows : run'[j].mttr[w] = version
    BY <2>1, <2>3, <2>4 DEF Even, Later
  <2> QED BY <2>1, <2>2, <2>3, <2>5 DEF Even, Refreshing, Writing
<1>8. CASE Measure(j) /\ ~Ended(j)
  <2>1. run[j].at = "measure" /\ run'[j] = [run[j] EXCEPT !.at = "delete", !.lead = version]
    BY <1>8, MeasureInv
  <2>2. version' = version /\ snapshot' = snapshot
    BY <1>3, <1>8, <2>1, CollectInv
  <2>3. /\ run'[j].at = "delete" /\ run'[j].lead = version /\ run'[j].made = run[j].made
        /\ run'[j].mttr = run[j].mttr /\ run'[j].windows = run[j].windows
    BY <1>1, <2>1 DEF Run
  <2> QED BY <2>1, <2>2, <2>3 DEF Even, Refreshing, Writing
<1>9. CASE StartDelete(j) /\ ~Ended(j)
  <2>1. /\ run[j].at = "delete"
        /\ run'[j] = [run[j] EXCEPT !.at = "wait", !.seen = Stored(j),
                                    !.made = run[j].made \cup {Row(j)}]
    BY <1>9, StartDeleteInv
  <2>2. version' = version /\ snapshot' = snapshot
    BY <1>3, <1>9, <2>1, CollectInv
  <2>3. /\ run'[j].at = "wait" /\ run'[j].made = run[j].made \cup {Row(j)}
        /\ run'[j].mttr = run[j].mttr /\ run'[j].windows = run[j].windows
    BY <1>1, <2>1 DEF Run
  <2>4. run[j].window \in run[j].windows
    BY <1>1, <2>1 DEF Own, Shape, Active, Refreshing
  <2>5. Row(j).lead = version /\ Row(j).mttr = version /\ Row(j).count = version
    BY <2>1, <2>4 DEF Row, Even, Writing
  <2> QED BY <2>1, <2>2, <2>3, <2>5 DEF Even, Refreshing, Writing
<1>10. CASE EndDelete(j) /\ ~Ended(j)
  <2>1. /\ run[j].at = "wait" /\ run'[j].at \in {"measure", "commit"}
        /\ run'[j].made = run[j].made /\ run'[j].mttr = run[j].mttr
        /\ run'[j].windows = run[j].windows
    BY <1>10, EndDeleteInv
  <2>2. version' = version /\ snapshot' = snapshot
    BY <1>3, <1>10, <2>1, CollectInv
  <2> QED BY <2>1, <2>2 DEF Even, Refreshing, Writing
<1> QED BY <1>2, <1>4, <1>5, <1>6, <1>7, <1>8, <1>9, <1>10, StepOfOne

LEMMA EvenNext ==
  ASSUME Inv, AloneInv, [Next]_vars, NEW k \in Runs, Even(k)
  PROVE  Even(k)'
<1>1. Own(k)
  BY DEF Inv
<1>2. CASE Elsewhere
  BY <1>2, ElsewhereKeeps DEF Even
<1>3. CASE \E j \in Runs : RunStep(j)
  <2>1. PICK j \in Runs : RunStep(j)
    BY <1>3
  <2>2. CASE j = k
    BY <2>1, <2>2, EvenOwn
  <2>3. CASE j # k
    <3>1. run'[k] = run[k]
      BY <2>1, <2>3, StepInv
    <3>2. \A x \in snapshot' : x \in snapshot \/ x.by = j
      <4>1. CASE snapshot' = snapshot
        BY <4>1
      <4>2. ASSUME NEW i \in Runs, Ended(i), run[i].at = "commit",
                   snapshot' = (snapshot \ run[i].drop) \cup run[i].made
            PROVE  \A x \in snapshot' : x \in snapshot \/ x.by = j
        <5>1. i = j
          BY <2>1, <4>2, StepInv, EndedInv
        <5>2. Fresh(j)
          BY DEF Inv, Own
        <5> QED BY <4>2, <5>1, <5>2 DEF Fresh
      <4> QED BY <4>1, <4>2, RowsNext
    <3>3. CASE version' = version
      BY <2>3, <3>1, <3>2, <3>3 DEF Even
    <3>4. CASE version' # version
      <4>1. PICK i \in Runs : Collect(i)
        BY <3>4, VersionNext
      <4>2. i = j
        BY <2>1, <4>1, StepInv, CollectInv
      <4>3. run[k].at \in {"idle", "done"}
        BY <2>3, <4>1, <4>2 DEF AloneInv, Alive, Collect
      <4>4. run[k].made = {}
        BY <1>1, <4>3 DEF Own, Shape, Writing
      <4> QED BY <2>3, <3>1, <3>2, <4>3, <4>4 DEF Even, Refreshing, Writing
    <3> QED BY <3>3, <3>4
  <2> QED BY <2>2, <2>3
<1> QED BY <1>2, <1>3, StepKinds

LEMMA PublishedNext ==
  ASSUME Inv, PublishedTogether, \A j \in Runs : Even(j), [Next]_vars
  PROVE  PublishedTogether'
<1>1. CASE snapshot' = snapshot
  BY <1>1 DEF PublishedTogether
<1>2. ASSUME NEW j \in Runs, run[j].at = "commit",
             snapshot' = (snapshot \ run[j].drop) \cup run[j].made
      PROVE  PublishedTogether'
  <2>1. Fresh(j) /\ Even(j)
    BY DEF Inv, Own
  <2>2. \A x \in run[j].made : x.by = j /\ x.lead = version /\ x.mttr = version /\ x.count = version
    BY <2>1 DEF Fresh, Even
  <2>3. \A x \in snapshot : x.by # j
    BY <1>2, <2>1 DEF Even
  <2> QED BY <1>2, <2>2, <2>3 DEF PublishedTogether
<1> QED BY <1>1, <1>2, RowsNext

(* Without a manual trigger, what a refresh publishes is of one version of the data. *)
THEOREM PublishedAtOnce == ASSUME ScheduledOnly PROVE Spec => []PublishedTogether
<1>1. Init => PublishedTogether /\ \A j \in Runs : Even(j)
  BY DEF Init, NewRun, PublishedTogether, Even, Refreshing, Writing
<1>2. (\A j \in Runs : Even(j)) /\ Inv /\ AloneInv /\ [Next]_vars => (\A j \in Runs : Even(j))'
  BY EvenNext
<1>3. PublishedTogether /\ (\A j \in Runs : Even(j)) /\ Inv /\ [Next]_vars => PublishedTogether'
  BY PublishedNext
<1> QED BY <1>1, <1>2, <1>3, Invariance, Aloneness, PTL DEF Spec
-----------------------------------------------------------------------------
(* Waits in a circle.  A refresh walks its repositories and their windows in one
   direction only, so all that it has deleted lies behind it; and of two refreshes one
   has ordered all the repositories that the other knows. *)

Ordered(j) == {run[j].order[p] : p \in DOMAIN run[j].order}

(* x lies behind the place of j in its order. *)
Behind(j, x) ==
    \E p \in DOMAIN run[j].order :
        /\ run[j].order[p] = x.repository
        /\ p < run[j].place \/ (p = run[j].place /\ x.window < run[j].window)

Position(j) ==
    /\ Active(j) => Ordered(j) \subseteq known
    /\ run[j].at \in {"measure", "delete"} =>
          \A w \in run[j].windows : w < run[j].window => w \in Written(j)
    /\ run[j].at = "wait" =>
          \A w \in run[j].windows : w =< run[j].window => w \in Written(j)
    /\ run[j].at \in {"measure", "delete", "wait"} => \A x \in run[j].drop : Behind(j, x)

Nested ==
    \A j, k \in Runs : Active(j) /\ Active(k) =>
        Ordered(j) \subseteq Ordered(k) \/ Ordered(k) \subseteq Ordered(j)

PositionInv == Nested /\ \A j \in Runs : Position(j)

LEMMA NextBelow ==
  ASSUME NEW j, NEW S \in SUBSET Windows, NEW w \in S
  PROVE  NextWindow(j, S) =< w /\ NextWindow(j, S) \in S
<1>1. S \in SUBSET Nat
  BY WindowsAssumption DEF Windows
<1> QED BY <1>1, LeastNatural, LeastBelow DEF NextWindow

(* Where the steps of an active refresh leave it *)
LEMMA Walking ==
  ASSUME Inv, NEW j \in Runs, RunStep(j), Active(j), Active(j)'
  PROVE  /\ run'[j].order = run[j].order /\ run'[j].windows = run[j].windows
         /\ known' = known /\ \A k \in Runs \ {j} : run'[k] = run[k]
         /\ \/ run[j].at = "repair" /\ run'[j].at = "repair"
            \/ /\ run[j].at = "repair" /\ run'[j].at = "measure" /\ run'[j].drop = {}
               /\ run'[j].window = NextWindow(j, run[j].windows)
            \/ /\ run[j].at = "measure" /\ run'[j].at = "delete" /\ run'[j].drop = run[j].drop
               /\ run'[j].made = run[j].made
               /\ run'[j].place = run[j].place /\ run'[j].window = run[j].window
            \/ /\ run[j].at = "delete" /\ run'[j].at = "wait" /\ run'[j].drop = run[j].drop
               /\ run'[j].made = run[j].made \cup {Row(j)}
               /\ run'[j].place = run[j].place /\ run'[j].window = run[j].window
            \/ /\ run[j].at = "wait" /\ run'[j].at = "measure" /\ Rest(j) # {}
               /\ run'[j].drop \subseteq run[j].drop \cup run[j].seen
               /\ run'[j].made = run[j].made
               /\ run'[j].place = run[j].place /\ run'[j].window = NextWindow(j, Rest(j))
            \/ /\ run[j].at = "wait" /\ run'[j].at = "measure"
               /\ run'[j].drop \subseteq run[j].drop \cup run[j].seen
               /\ run'[j].place = run[j].place + 1
               /\ run'[j].window = NextWindow(j, run[j].windows)
            \/ run'[j].at = "commit"
<1>1. run[j] \in Run /\ Shape(j)
  BY DEF Inv, TypeOK, Own
<1>2. \A k \in Runs \ {j} : run'[k] = run[k]
  BY StepInv
<1>3. Repair(j) \/ Measure(j) \/ StartDelete(j) \/ EndDelete(j)
  <2>1. Ended(j) => ~Active(j)'
    BY EndedInv DEF Active, Refreshing
  <2>2. ~(Fail(j) \/ BreakCircle(j) \/ Commit(j))
    BY <2>1 DEF Fail, BreakCircle, Commit
  <2> QED BY <2>2 DEF RunStep, Begins, FireSchedule, TriggerManually, Step, Collect, Plan,
                      Active, Refreshing
<1>4. known' = known
  BY <1>3 DEF Repair, Measure, StartDelete, EndDelete
<1>5. CASE Repair(j)
  <2> DEFINE mttr == [run[j].mttr EXCEPT ![run[j].window] = version]
  <2>1. run'[j].at \in {"repair", "measure"} /\ run'[j].made = {} /\ run'[j].windows = run[j].windows
    BY <1>5, RepairInv
  <2>2. PICK window, at :
           /\ Set(j, [run[j] EXCEPT !.at = at, !.mttr = mttr, !.window = window])
           /\ at = "measure" => window = NextWindow(j, run[j].windows)
    <3>1. CASE Later(j) = {}
      BY <1>5, <3>1 DEF Repair
    <3>2. CASE Later(j) # {}
      <4>1. Set(j, [run[j] EXCEPT !.mttr = mttr, !.window = NextWindow(j, Later(j))])
        BY <1>5, <3>2 DEF Repair
      <4>2. [run[j] EXCEPT !.mttr = mttr, !.window = NextWindow(j, Later(j))]
              = [run[j] EXCEPT !.at = "repair", !.mttr = mttr, !.window = NextWindow(j, Later(j))]
        BY <1>1, <1>5 DEF Run, Repair
      <4> QED BY <4>1, <4>2, ZenonT(40)
    <3> QED BY <3>1, <3>2
  <2> HIDE DEF mttr
  <2>3. /\ run'[j].order = run[j].order /\ run'[j].drop = run[j].drop
        /\ run'[j].at = at /\ run'[j].window = window
    BY <1>1, <2>2 DEF Set, Run, Inv, TypeOK
  <2>4. run[j].at = "repair" /\ run[j].drop = {}
    BY <1>1, <1>5 DEF Repair, Shape, Writing
  <2> QED BY <1>2, <1>4, <2>1, <2>2, <2>3, <2>4
<1>6. CASE Measure(j)
  <2>1. run[j].at = "measure" /\ run'[j] = [run[j] EXCEPT !.at = "delete", !.lead = version]
    BY <1>6, MeasureInv
  <2>2. /\ run'[j].order = run[j].order /\ run'[j].windows = run[j].windows
        /\ run'[j].at = "delete" /\ run'[j].drop = run[j].drop /\ run'[j].made = run[j].made
        /\ run'[j].place = run[j].place /\ run'[j].window = run[j].window
    BY <1>1, <2>1 DEF Run
  <2> QED BY <1>2, <1>4, <2>1, <2>2
<1>7. CASE StartDelete(j)
  <2>1. /\ run[j].at = "delete"
        /\ run'[j] = [run[j] EXCEPT !.at = "wait", !.seen = Stored(j),
                                    !.made = run[j].made \cup {Row(j)}]
    BY <1>7, StartDeleteInv
  <2>2. /\ run'[j].order = run[j].order /\ run'[j].windows = run[j].windows
        /\ run'[j].at = "wait" /\ run'[j].drop = run[j].drop
        /\ run'[j].made = run[j].made \cup {Row(j)}
        /\ run'[j].place = run[j].place /\ run'[j].window = run[j].window
    BY <1>1, <2>1 DEF Run
  <2> QED BY <1>2, <1>4, <2>1, <2>2
<1>8. CASE EndDelete(j)
  <2> DEFINE drop == run[j].drop \cup (run[j].seen \cap snapshot)
             base == [run[j] EXCEPT !.seen = {}, !.drop = drop]
  <2>1. Set(j, Advanced(j, base)) /\ run[j].at = "wait"
    BY <1>8 DEF EndDelete
  <2>2. run'[j] = Advanced(j, base)
    BY <2>1 DEF Set, Inv, TypeOK
  <2>3. /\ base \in Run /\ base.order = run[j].order /\ base.windows = run[j].windows
        /\ base.made = run[j].made /\ base.drop = drop /\ base.place = run[j].place
    BY <1>1, <1>8, EndDeleteInv DEF Run, Inv, TypeOK
  <2> HIDE DEF base, drop
  <2>4. drop \subseteq run[j].drop \cup run[j].seen
    BY DEF drop
  <2>5. CASE Rest(j) # {}
    <3>1. run'[j] = [base EXCEPT !.at = "measure", !.window = NextWindow(j, Rest(j))]
      BY <2>2, <2>5 DEF Advanced
    <3> QED BY <1>2, <1>4, <2>1, <2>3, <2>4, <2>5, <3>1 DEF Run
  <2>6. CASE Rest(j) = {} /\ run[j].place < Len(run[j].order)
    <3>1. run'[j] = [base EXCEPT !.at = "measure", !.place = run[j].place + 1,
                                 !.window = NextWindow(j, run[j].windows)]
      BY <2>2, <2>6 DEF Advanced
    <3> QED BY <1>2, <1>4, <2>1, <2>3, <2>4, <3>1 DEF Run
  <2>7. CASE Rest(j) = {} /\ ~(run[j].place < Len(run[j].order))
    <3>1. run'[j] = [base EXCEPT !.at = "commit"]
      BY <2>2, <2>7 DEF Advanced
    <3> QED BY <1>2, <1>4, <2>3, <3>1 DEF Run
  <2> QED BY <2>5, <2>6, <2>7
<1> QED BY <1>3, <1>5, <1>6, <1>7, <1>8

(* A refresh goes on where nothing that it has deleted lies before it. *)
LEMMA WalkingPosition ==
  ASSUME Inv, NEW j \in Runs, RunStep(j), Active(j), Active(j)', Position(j)
  PROVE  Position(j)'
<1>1. run[j] \in Run /\ Shape(j) /\ Covering(j)
  BY DEF Inv, TypeOK, Own
<1>2. /\ run[j].windows \in SUBSET Windows /\ run[j].windows # {} /\ run[j].place \in Nat
      /\ run[j].place \in DOMAIN run[j].order
      /\ \A w \in Windows : w \in Nat /\ run[j].window \in Nat
  BY <1>1, WindowsAssumption DEF Run, Shape, Windows
<1>3. /\ run'[j].order = run[j].order /\ run'[j].windows = run[j].windows /\ known' = known
  BY Walking
<1>4. Ordered(j)' \subseteq known'
  BY <1>3 DEF Position, Ordered
<1>5. CASE run'[j].at = "repair" \/ run'[j].at = "commit"
  BY <1>4, <1>5 DEF Position
<1>6. CASE run[j].at = "repair" /\ run'[j].at = "measure"
  <2>1. run'[j].drop = {} /\ run'[j].window = NextWindow(j, run[j].windows)
    BY <1>6, Walking
  <2>2. \A w \in run'[j].windows : ~(w < run'[j].window)
    BY <1>2, <1>3, <2>1, NextBelow DEF Windows
  <2> QED BY <1>4, <1>6, <2>1, <2>2 DEF Position
<1>7. CASE run[j].at = "measure" /\ run'[j].at = "delete"
  <2>1. /\ run'[j].drop = run[j].drop /\ run'[j].made = run[j].made
        /\ run'[j].place = run[j].place /\ run'[j].window = run[j].window
    BY <1>7, Walking
  <2>2. Written(j)' = Written(j)
    BY <1>3, <2>1 DEF Written, Repository
  <2> QED BY <1>3, <1>4, <1>7, <2>1, <2>2 DEF Position, Behind
<1>8. CASE run[j].at = "delete" /\ run'[j].at = "wait"
  <2>1. /\ run'[j].drop = run[j].drop /\ run'[j].made = run[j].made \cup {Row(j)}
        /\ run'[j].place = run[j].place /\ run'[j].window = run[j].window
    BY <1>8, Walking
  <2>2. Row(j).repository = Repository(j) /\ Row(j).window = run[j].window
    BY DEF Row
  <2>3. Written(j)' = Written(j) \cup {run[j].window}
    BY <1>3, <2>1, <2>2 DEF Written, Repository
  <2>4. \A w \in run'[j].windows : w =< run'[j].window => w \in Written(j)'
    BY <1>2, <1>3, <1>8, <2>1, <2>3 DEF Position
  <2> QED BY <1>3, <1>4, <1>8, <2>1, <2>4 DEF Position, Behind
<1>9. CASE run[j].at = "wait" /\ run'[j].at = "measure"
  <2>1. run'[j].drop \subseteq run[j].drop \cup run[j].seen
    BY <1>9, Walking
  <2>2. \A x \in run[j].seen : x.repository = run[j].order[run[j].place] /\ x.window = run[j].window
    BY <1>1 DEF Covering, HasKey, Repository
  <2>3. \A x \in run[j].drop : Behind(j, x) /\ x.window \in Nat
    BY <1>1, <1>9, WindowsAssumption DEF Position, Run, Rows, Windows
  <2>4. CASE /\ Rest(j) # {} /\ run'[j].made = run[j].made
             /\ run'[j].place = run[j].place /\ run'[j].window = NextWindow(j, Rest(j))
    <3>1. Rest(j) \in SUBSET Windows /\ Rest(j) \subseteq run[j].windows
      BY <1>2 DEF Rest
    <3>2. run'[j].window \in Rest(j) /\ \A w \in Rest(j) : run'[j].window =< w
      BY <2>4, <3>1, NextBelow
    <3>3. run[j].window < run'[j].window /\ run'[j].window \in Nat
      BY <1>2, <1>9, <3>1, <3>2 DEF Position, Rest
    <3>4. \A w \in run'[j].windows : w < run'[j].window => w \in Written(j)'
      <4>1. Written(j)' = Written(j)
        BY <1>3, <2>4 DEF Written, Repository
      <4> QED BY <1>2, <1>3, <3>2, <3>3, <4>1 DEF Rest
    <3>5. ASSUME NEW x \in run'[j].drop PROVE Behind(j, x)'
      <4>1. CASE x \in run[j].seen
        BY <1>2, <1>3, <2>2, <2>4, <3>3, <4>1 DEF Behind
      <4>2. CASE x \in run[j].drop
        <5>1. PICK p \in DOMAIN run[j].order :
                 /\ run[j].order[p] = x.repository
                 /\ p < run[j].place \/ (p = run[j].place /\ x.window < run[j].window)
          BY <2>3, <4>2 DEF Behind
        <5>2. x.window < run[j].window => x.window < run'[j].window
          BY <1>2, <2>3, <3>3, <4>2
        <5> QED BY <1>3, <2>4, <5>1, <5>2 DEF Behind
      <4> QED BY <2>1, <4>1, <4>2
    <3> QED BY <1>4, <1>9, <3>4, <3>5 DEF Position
  <2>5. CASE /\ run'[j].place = run[j].place + 1
             /\ run'[j].window = NextWindow(j, run[j].windows)
    <3>1. \A w \in run'[j].windows : ~(w < run'[j].window)
      BY <1>2, <1>3, <2>5, NextBelow DEF Windows
    <3>2. ASSUME NEW x \in run'[j].drop PROVE Behind(j, x)'
      <4>1. CASE x \in run[j].seen
        BY <1>2, <1>3, <2>2, <2>5, <4>1 DEF Behind
      <4>2. CASE x \in run[j].drop
        <5>1. PICK p \in DOMAIN run[j].order :
                 run[j].order[p] = x.repository /\ (p < run[j].place \/ p = run[j].place)
          BY <2>3, <4>2 DEF Behind
        <5>2. run[j].order \in Seq(Repositories)
          BY <1>1 DEF Run
        <5>3. p < run'[j].place
          BY <1>2, <2>5, <5>1, <5>2
        <5> QED BY <1>3, <5>1, <5>3 DEF Behind
      <4> QED BY <2>1, <4>1, <4>2
    <3> QED BY <1>4, <1>9, <3>1, <3>2 DEF Position
  <2> QED BY <1>9, <2>4, <2>5, Walking
<1> QED BY <1>5, <1>6, <1>7, <1>8, <1>9, Walking

(* The plan of a refresh orders every repository that is known then. *)
LEMMA OrdersAll ==
  ASSUME NEW S, IsFiniteSet(S), NEW s \in Orders(S)
  PROVE  {s[p] : p \in DOMAIN s} = S
<1> DEFINE n == Cardinality(S)
<1>1. n \in Nat
  BY FS_CardinalityType
<1>2. s \in Injection(1..n, S)
  BY DEF Orders, Injection, IsInjective
<1>3. Cardinality(1..n) = n
  BY <1>1, FS_Interval
<1>4. s \in Surjection(1..n, S)
  BY <1>2, <1>3, FS_Injection
<1>5. \A t \in S : \E p \in 1..n : s[p] = t
  BY <1>4 DEF Surjection
<1>6. s \in [1..n -> S]
  BY DEF Orders
<1> QED BY <1>5, <1>6

LEMMA PlanOrders ==
  ASSUME Inv, NEW j \in Runs, Plan(j), run'[j].at = "repair"
  PROVE  Ordered(j)' = known /\ known' = known
<1>1. run[j] \in Run /\ run[j].at = "plan" /\ known' = known /\ known \in SUBSET Repositories
  BY DEF Inv, TypeOK, Plan
<1>2. known # {}
  <2>1. CASE known = {}
    <3>1. Set(j, [run[j] EXCEPT !.at = "done"])
      BY <2>1 DEF Plan
    <3>2. run'[j].at = "done"
      BY <1>1, <3>1 DEF Set, Run, Inv, TypeOK
    <3> QED BY <3>2
  <2> QED BY <2>1
<1>3. PICK order \in Orders(known) :
         Set(j, [run[j] EXCEPT !.at = "repair", !.order = order, !.windows = Covered(today),
                               !.window = NextWindow(j, Covered(today))])
  BY <1>2 DEF Plan
<1>4. run'[j].order = order
  BY <1>1, <1>3 DEF Set, Run, Inv, TypeOK
<1>5. IsFiniteSet(known)
  BY <1>1, RepositoriesAssumption, FS_Subset
<1> QED BY <1>1, <1>4, <1>5, OrdersAll DEF Ordered

(* No repository is forgotten. *)
LEMMA KnownGrows ==
  ASSUME Inv, [Next]_vars
  PROVE  known \subseteq known'
  BY DEF Next, Step, Tick, FireSchedule, TriggerManually, Collect, Plan, Repair, Measure,
         StartDelete, EndDelete, Commit, Fail, BreakCircle, ListWindows, LoadCurrent,
         LoadPrevious, vars

(* An active refresh keeps its order. *)
LEMMA OrderedNext ==
  ASSUME Inv, [Next]_vars, NEW k \in Runs, Active(k)'
  PROVE  \/ Active(k) /\ Ordered(k)' = Ordered(k)
         \/ Plan(k) /\ run'[k].at = "repair" /\ Ordered(k)' = known
<1>1. CASE run'[k] = run[k]
  BY <1>1 DEF Active, Ordered
<1>2. CASE run'[k] # run[k]
  <2>1. PICK j \in Runs : RunStep(j)
    BY <1>2, StepKinds, ElsewhereKeeps
  <2>2. j = k
    BY <1>2, <2>1, StepInv
  <2>3. CASE Active(k)
    BY <2>1, <2>2, <2>3, Walking DEF Ordered
  <2>4. CASE ~Active(k)
    BY <2>4, PhaseNext, PlanOrders
  <2> QED BY <2>3, <2>4
<1> QED BY <1>1, <1>2

LEMMA PositionNext ==
  ASSUME Inv, PositionInv, [Next]_vars
  PROVE  PositionInv'
<1>1. Nested'
  <2> SUFFICES ASSUME NEW j \in Runs, NEW k \in Runs, Active(j)', Active(k)'
               PROVE  Ordered(j)' \subseteq Ordered(k)' \/ Ordered(k)' \subseteq Ordered(j)'
    BY DEF Nested
  <2>1. \A q \in {j, k} : Active(q) => Ordered(q) \subseteq known
    BY DEF PositionInv, Position
  <2> QED BY <2>1, OrderedNext DEF PositionInv, Nested
<1>2. ASSUME NEW k \in Runs PROVE Position(k)'
  <2>1. Position(k) /\ known \subseteq known'
    BY KnownGrows DEF PositionInv
  <2>2. CASE run'[k] = run[k]
    <3>1. Written(k)' = Written(k) /\ Ordered(k)' = Ordered(k) /\ Active(k)' = Active(k)
      BY <2>2 DEF Written, Repository, Ordered, Active
    <3> QED BY <2>1, <2>2, <3>1 DEF Position, Behind
  <2>3. CASE run'[k] # run[k]
    <3>1. PICK j \in Runs : RunStep(j)
      BY <2>3, StepKinds, ElsewhereKeeps
    <3>2. j = k
      BY <2>3, <3>1, StepInv
    <3>3. CASE ~Active(k)'
      BY <3>3 DEF Position, Active, Refreshing
    <3>4. CASE Active(k)' /\ ~Active(k)
      <4>1. run'[k].at = "repair" /\ Ordered(k)' = known
        BY <3>4, OrderedNext
      <4> QED BY <2>1, <4>1 DEF Position
    <3>5. CASE Active(k)' /\ Active(k)
      BY <2>1, <3>1, <3>2, <3>5, WalkingPosition
    <3> QED BY <3>3, <3>4, <3>5
  <2> QED BY <2>2, <2>3
<1> QED BY <1>1, <1>2 DEF PositionInv


LEMMA InitPosition == Init => PositionInv
<1> SUFFICES ASSUME Init PROVE PositionInv
  OBVIOUS
<1>1. \A j \in Runs : run[j].at = "idle"
  BY DEF Init, NewRun
<1> QED BY <1>1 DEF PositionInv, Nested, Position, Active, Refreshing

(* j takes r before s. *)
Precedes(j, r, s) ==
    \E a, b \in DOMAIN run[j].order : a < b /\ run[j].order[a] = r /\ run[j].order[b] = s

(* Of refreshes with nested orders one has ordered what any of them has. *)
LEMMA WidestOrder ==
  ASSUME Inv, PositionInv, NEW S \in SUBSET Runs, S # {}, \A j \in S : Active(j)
  PROVE  \E m \in S : \A j \in S : Ordered(j) \subseteq Ordered(m)
<1> DEFINE others == {known \ Ordered(j) : j \in S}
<1>1. IsFiniteSet(known)
  BY RepositoriesAssumption, FS_Subset DEF Inv, TypeOK
<1>2. others \subseteq FiniteSubsetsOf(known)
  <2>1. ASSUME NEW j \in S PROVE IsFiniteSet(known \ Ordered(j)) /\ known \ Ordered(j) \in SUBSET known
    BY <1>1, FS_Subset
  <2> QED BY <2>1 DEF FiniteSubsetsOf
<1>3. others # {}
  OBVIOUS
<1>4. IsWellFoundedOn(StrictSubsetOrdering(known), FiniteSubsetsOf(known))
  BY FS_StrictSubsetOrderingWellFounded
<1>5. PICK low \in others : \A s \in others : <<s, low>> \notin StrictSubsetOrdering(known)
  <2> HIDE DEF others
  <2> QED BY <1>2, <1>3, <1>4, WFMin, Zenon
<1>6. PICK m \in S : low = known \ Ordered(m)
  BY <1>5
<1>7. ASSUME NEW j \in S PROVE Ordered(j) \subseteq Ordered(m)
  <2>1. Ordered(j) \subseteq known /\ Ordered(m) \subseteq known
    BY DEF PositionInv, Position
  <2>2. CASE ~(Ordered(j) \subseteq Ordered(m))
    <3>1. Ordered(m) \subseteq Ordered(j)
      BY <2>2 DEF PositionInv, Nested
    <3>2. known \ Ordered(j) \subseteq low /\ known \ Ordered(j) # low
      BY <1>6, <2>1, <2>2, <3>1
    <3>3. <<known \ Ordered(j), low>> \in StrictSubsetOrdering(known)
      BY <1>6, <3>2 DEF StrictSubsetOrdering
    <3> QED BY <1>5, <3>3
  <2> QED BY <2>2
<1> QED BY <1>7

(* The greatest value of a bounded measure *)
LEMMA GreatestOf ==
  ASSUME NEW S, S # {}, NEW bound \in Nat, NEW f \in [S -> Nat], \A j \in S : f[j] =< bound
  PROVE  \E top \in S : \A j \in S : f[j] =< f[top]
<1> DEFINE gaps == {bound - f[j] : j \in S}
<1>1. gaps \in SUBSET Nat /\ gaps # {}
  OBVIOUS
<1>2. PICK z \in gaps : \A y \in gaps : z =< y
  <2> HIDE DEF gaps
  <2> QED BY <1>1, LeastExists
<1>3. PICK top \in S : z = bound - f[top]
  BY <1>2
<1>4. ASSUME NEW j \in S PROVE f[j] =< f[top]
  <2>1. z =< bound - f[j]
    BY <1>2
  <2> QED BY <1>3, <2>1
<1> QED BY <1>4

(* A refresh waits for one that is further: in the order that both agree on, or, in the
   same repository, by its window. *)
LEMMA WaitsBehind ==
  ASSUME Inv, PositionInv, NEW j \in Runs, NEW k \in Runs, WaitsFor(j, k), run[k].at = "wait"
  PROVE  \/ Precedes(k, Repository(j), Repository(k))
         \/ Repository(j) = Repository(k) /\ run[j].window < run[k].window
<1>1. PICK x \in run[j].seen \cap run[k].drop : TRUE
  BY DEF WaitsFor
<1>2. x.repository = Repository(j) /\ x.window = run[j].window
  BY <1>1 DEF Inv, Own, Covering, HasKey
<1>3. PICK p \in DOMAIN run[k].order :
         /\ run[k].order[p] = x.repository
         /\ p < run[k].place \/ (p = run[k].place /\ x.window < run[k].window)
  BY <1>1 DEF PositionInv, Position, Behind
<1>4. run[k].place \in DOMAIN run[k].order
  BY DEF Inv, Own, Shape, Active, Refreshing
<1> QED BY <1>2, <1>3, <1>4 DEF Precedes, Repository

LEMMA NoCircle ==
  ASSUME Inv, PositionInv, NEW S \in SUBSET Runs, S # {}, Circle(S),
         \A j, k \in S : \A r, s \in known : ~(Precedes(j, r, s) /\ Precedes(k, s, r))
  PROVE  FALSE
<1>1. \A j \in S : run[j].at = "wait" /\ Active(j)
  BY DEF Circle, WaitsFor, Active, Refreshing
<1>2. PICK m \in S : \A j \in S : Ordered(j) \subseteq Ordered(m)
  BY <1>1, WidestOrder
<1>3. \A j \in S : run[j] \in Run /\ Repository(j) \in Ordered(j) /\ Ordered(j) \subseteq known
  BY <1>1 DEF Inv, TypeOK, Own, Shape, Repository, Ordered, PositionInv, Position
<1> DEFINE order == run[m].order
           rank == [j \in S |-> CHOOSE p \in DOMAIN order : order[p] = Repository(j)]
<1>4. \A j \in S : rank[j] \in DOMAIN order /\ order[rank[j]] = Repository(j)
  <2>1. ASSUME NEW j \in S PROVE \E p \in DOMAIN order : order[p] = Repository(j)
    BY <1>2, <1>3 DEF Ordered
  <2> QED BY <2>1
<1>5. order \in Seq(Repositories) /\ \A a, b \in DOMAIN order : order[a] = order[b] => a = b
  BY <1>1, <1>3 DEF Inv, Own, Shape, Run
<1> HIDE DEF rank, order
<1>6. DOMAIN order = 1..Len(order) /\ Len(order) \in Nat
  BY <1>5
<1>7. rank \in [S -> Nat] /\ \A j \in S : rank[j] =< Len(order)
  <2>1. rank = [j \in S |-> rank[j]]
    BY DEF rank
  <2> QED BY <1>4, <1>6, <2>1
<1>8. ASSUME NEW j \in S, NEW k \in S, WaitsFor(j, k)
      PROVE  rank[j] < rank[k] \/ (rank[j] = rank[k] /\ run[j].window < run[k].window)
  <2>1. CASE Repository(j) = Repository(k) /\ run[j].window < run[k].window
    BY <1>4, <1>5, <2>1
  <2>2. CASE Precedes(k, Repository(j), Repository(k))
    <3>1. ~Precedes(m, Repository(k), Repository(j))
      BY <1>3, <2>2
    <3>2. ~(rank[k] < rank[j])
      BY <1>4, <3>1 DEF Precedes, order
    <3>3. rank[j] # rank[k]
      <4>1. PICK a, b \in DOMAIN run[k].order :
               a < b /\ run[k].order[a] = Repository(j) /\ run[k].order[b] = Repository(k)
        BY <2>2 DEF Precedes
      <4>2. a # b
        BY <1>3, <4>1 DEF Run
      <4>3. Repository(j) # Repository(k)
        BY <1>1, <4>1, <4>2 DEF Inv, Own, Shape
      <4> QED BY <1>4, <4>3
    <3> QED BY <1>7, <3>2, <3>3
  <2> QED BY <1>1, <1>8, <2>1, <2>2, WaitsBehind
<1>9. PICK top \in S : \A j \in S : rank[j] =< rank[top]
  BY <1>6, <1>7, GreatestOf
<1> DEFINE T == {j \in S : rank[j] = rank[top]}
           window == [j \in T |-> run[j].window]
<1>10. T # {} /\ T \subseteq S
  OBVIOUS
<1>11. window \in [T -> Nat] /\ \A j \in T : window[j] =< Horizon
  <2>1. \A j \in T : run[j].window \in Nat /\ run[j].window =< Horizon
    BY <1>3, WindowsAssumption DEF Run, Windows
  <2> QED BY <2>1
<1>12. PICK last \in T : \A j \in T : window[j] =< window[last]
  <2> HIDE DEF window, T
  <2> QED BY <1>10, <1>11, GreatestOf, WindowsAssumption
<1>13. PICK k \in S : WaitsFor(last, k)
  BY DEF Circle
<1>14. last \in S /\ rank[last] = rank[top]
  BY <1>12
<1>15. rank[k] = rank[last] /\ run[last].window < run[k].window
  BY <1>7, <1>8, <1>9, <1>13, <1>14
<1>16. k \in T /\ window[k] = run[k].window /\ window[last] = run[last].window
  BY <1>14, <1>15
<1>17. run[k].window =< run[last].window
  BY <1>12, <1>16
<1> QED BY <1>3, <1>14, <1>15, <1>17, WindowsAssumption DEF Run, Windows

(* Refreshes wait for each other in a circle, of any length, only if two of them took
   two repositories in different orders: repositories that one of them did not know and
   the order of the windows never make one. *)
THEOREM CircleReorders == Spec => []CircleNeedsReorder
<1>1. Inv /\ PositionInv /\ [Next]_vars => PositionInv'
  BY PositionNext
<1>2. ASSUME Inv, PositionInv PROVE CircleNeedsReorder
  <2>1. ASSUME NEW S \in (SUBSET Runs) \ {{}}, Circle(S)
        PROVE  \E j, k \in S : \E r, s \in known : Precedes(j, r, s) /\ Precedes(k, s, r)
    BY <1>2, <2>1, NoCircle
  <2> QED BY <2>1 DEF CircleNeedsReorder, Precedes
<1>3. Inv /\ PositionInv => CircleNeedsReorder
  BY <1>2
<1> QED BY Invariance, InitPosition, <1>1, <1>3, PTL DEF Spec


=============================================================================
