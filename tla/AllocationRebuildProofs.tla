---------------------- MODULE AllocationRebuildProofs ----------------------
(***************************************************************************)
(* Theorems about AllocationRebuild, for any number of rebuilds and of     *)
(* months, any callers and any faults, and about EffortReports, for any    *)
(* worklogs, assignments and issues.                                       *)
(***************************************************************************)
EXTENDS AllocationRebuild, NaturalSets

-----------------------------------------------------------------------------
(* The inductive invariants *)

Working == {"delete", "wait", "derive", "allocate"}

(* The DELETE of the rows of table t and month m has been executed by j. *)
Cleared(j, t, m) ==
    /\ Active(j)
    /\ m \in job[j].months
    /\ \/ m \notin job[j].todo
       \/ m = Month(j) /\ job[j].at \in {"derive", "allocate"}
       \/ m = Month(j) /\ job[j].table = "effort" /\ t = "topics"

Allocated(j, m) == Active(j) /\ m \in job[j].months /\ m \notin job[j].todo

(* The program counter and the months left agree. *)
Shape(j) ==
    /\ job[j].todo \subseteq job[j].months
    /\ job[j].at \in Working => job[j].todo # {}
    /\ job[j].at \in {"idle", "commit", "report", "done"} => job[j].todo = {}
    /\ job[j].at # "wait" => job[j].seen = {}
    /\ job[j].at \in {"derive", "allocate"} => job[j].table = "effort"
    /\ job[j].at = "idle" => job[j].table = "topics"
    /\ job[j].at \in InTransaction \cup {"report"} => job[j].caller \in Callers

(* What a transaction has deleted and inserted so far. *)
Pending(j) ==
    /\ \A t \in Tables, m \in Months : ~ Cleared(j, t, m) =>
          job[j].drop[t][m] = {} /\ job[j].made[t][m] = {}
    /\ \A t \in Tables, m \in Months : \A x \in job[j].made[t][m] : x[1] = j
    /\ \A m \in Months : job[j].made["topics"][m] \subseteq {<<j, j>>}
    /\ job[j].at = "allocate" => job[j].made["topics"][Month(j)] = {<<j, j>>}
    /\ \A m \in Months : Allocated(j, m) =>
          <<j, j>> \in job[j].made["topics"][m] /\ <<j, j>> \in job[j].made["effort"][m]

(* Who met whom. *)
Meetings ==
    /\ \A j, k \in Rebuilds : k \in met[j] => j \in met[k]
    /\ \A j, k \in Rebuilds : Active(j) /\ Active(k) /\ j # k => k \in met[j]
    /\ \A j \in Rebuilds : job[j].at = "idle" => met[j] = {}

(* Rows are committed, seen and deleted after their writers and sources have ended. *)
Ends(k) == job[k].at \in {"report", "done"}

Past(rows) == \A x \in rows : Ends(x[1]) /\ Ends(x[2])

CommittedPast ==
    /\ \A t \in Tables, m \in Months : Past(table[t][m])
    /\ \A m \in Months : \A x \in table["topics"][m] : x[1] = x[2]

SeenPast(j) ==
    /\ Past(job[j].seen)
    /\ \A t \in Tables, m \in Months : Past(job[j].drop[t][m])
    /\ \A t \in Tables, m \in Months : \A x \in job[j].made[t][m] : x[2] = j \/ Ends(x[2])

(* Rows that a transaction does not replace were committed while it was open. *)
Late(j) ==
    /\ job[j].at = "wait" =>
          \A x \in table[job[j].table][Month(j)] \ job[j].seen : x[1] \in met[j]
    /\ \A t \in Tables, m \in Months : Cleared(j, t, m) =>
          \A x \in table[t][m] \ job[j].drop[t][m] : x[1] \in met[j]
    /\ \A t \in Tables, m \in Months : \A x \in job[j].made[t][m] : x[2] \in {j} \cup met[j]

(* Where effort of a topic row has been deleted, it has been computed anew. *)
Recomputed(j) ==
    \A m \in Months : Allocated(j, m) =>
       \A x \in table["topics"][m] \ job[j].drop["topics"][m] :
          \A y \in job[j].drop["effort"][m] :
             y[2] = x[1] => <<j, x[1]>> \in job[j].made["effort"][m]

JobInv(j) == Shape(j) /\ Pending(j) /\ SeenPast(j) /\ Late(j) /\ Recomputed(j)

Inv ==
    /\ TypeOK
    /\ \A j \in Rebuilds : JobInv(j)
    /\ Meetings
    /\ CommittedPast
    /\ DuplicatesNeedOverlap
    /\ TopicsAreAllocated

-----------------------------------------------------------------------------
LEMMA MonthInTodo ==
  ASSUME TypeOK, NEW j \in Rebuilds, job[j].todo # {}
  PROVE  /\ Month(j) \in job[j].todo /\ Month(j) \in Months
         /\ \A n \in job[j].todo : Month(j) =< n
<1>1. job[j].todo \subseteq Months
  BY DEF TypeOK, Job
<1>2. job[j].todo \in SUBSET Nat
  BY <1>1, MonthsAssumption
<1>3. Min(job[j].todo) \in job[j].todo
  BY <1>2, LeastNatural
<1>4. \A n \in job[j].todo : Min(job[j].todo) =< n
  BY <1>2, LeastBelow
<1> QED BY <1>1, <1>3, <1>4 DEF Month

-----------------------------------------------------------------------------
(* The bookkeeping of a transaction, cell by cell *)

LEMMA PutRows ==
  ASSUME NEW f \in RowSets, NEW t \in Tables, NEW m \in Months,
         NEW rows \in SUBSET (Rebuilds \X Rebuilds)
  PROVE  /\ Put(f, t, m, rows) \in RowSets
         /\ \A u \in Tables, n \in Months :
               Put(f, t, m, rows)[u][n] = IF u = t /\ n = m THEN rows ELSE f[u][n]
  BY DEF RowSets, Put

LEMMA NoRowsCells ==
  /\ NoRows \in RowSets
  /\ \A t \in Tables, m \in Months : NoRows[t][m] = {}
  BY DEF NoRows, RowSets

LEMMA NewJobType == NewJob \in Job
  BY NoRowsCells DEF NewJob, Job, Tables

(* What each step of a rebuild does to its own record; the others keep theirs. *)
LEMMA OneJobChanges ==
  ASSUME TypeOK, NEW j \in Rebuilds, NEW v, job' = [job EXCEPT ![j] = v]
  PROVE  /\ job'[j] = v
         /\ \A k \in Rebuilds : k # j => job'[k] = job[k]
         /\ v \in Job => job' \in [Rebuilds -> Job]
  BY DEF TypeOK

Others(j) == \A k \in Rebuilds : k # j => job'[k] = job[k]

Kept(j) == job'[j].caller = job[j].caller /\ job'[j].months = job[j].months

LEMMA StartDeleteEffect ==
  ASSUME TypeOK, NEW j \in Rebuilds, Shape(j), StartDelete(j)
  PROVE  /\ job' \in [Rebuilds -> Job] /\ Others(j) /\ Kept(j)
         /\ job[j].at = "delete" /\ job'[j].at = "wait"
         /\ job'[j].seen = table[job[j].table][Month(j)]
         /\ job'[j].todo = job[j].todo /\ job'[j].table = job[j].table
         /\ job'[j].drop = job[j].drop /\ job'[j].made = job[j].made
<1>1. job[j] \in Job /\ job[j].table \in Tables
  BY DEF TypeOK, Job
<1>2. Month(j) \in Months
  BY MonthInTodo DEF Shape, StartDelete, Working
<1>3. table[job[j].table][Month(j)] \in SUBSET (Rebuilds \X Rebuilds)
  BY <1>1, <1>2 DEF TypeOK, RowSets
<1>4. [job[j] EXCEPT !.at = "wait", !.seen = table[job[j].table][Month(j)]] \in Job
  BY <1>1, <1>3 DEF Job, InTransaction
<1>5. /\ job'[j] = [job[j] EXCEPT !.at = "wait", !.seen = table[job[j].table][Month(j)]]
      /\ Others(j) /\ job' \in [Rebuilds -> Job]
  BY <1>4, OneJobChanges DEF StartDelete, Set, Others
<1> QED BY <1>1, <1>5 DEF StartDelete, Job, Kept

LEMMA EndDeleteEffect ==
  ASSUME TypeOK, NEW j \in Rebuilds, Shape(j), EndDelete(j)
  PROVE  LET gone == job[j].seen \cap table[job[j].table][Month(j)]
         IN  /\ job' \in [Rebuilds -> Job] /\ Others(j) /\ Kept(j)
             /\ job[j].at = "wait"
             /\ job'[j].at = IF job[j].table = "topics" THEN "delete" ELSE "derive"
             /\ job'[j].table = "effort" /\ job'[j].seen = {}
             /\ job'[j].todo = job[j].todo /\ job'[j].made = job[j].made
             /\ \A u \in Tables, n \in Months :
                   job'[j].drop[u][n] = IF u = job[j].table /\ n = Month(j)
                                          THEN gone ELSE job[j].drop[u][n]
<1> DEFINE gone == job[j].seen \cap table[job[j].table][Month(j)]
           next == IF job[j].table = "topics" THEN "delete" ELSE "derive"
<1>1. job[j] \in Job /\ job[j].table \in Tables /\ job[j].drop \in RowSets
      /\ job[j].seen \in SUBSET (Rebuilds \X Rebuilds)
  BY DEF TypeOK, Job
<1>2. Month(j) \in Months
  BY MonthInTodo DEF Shape, EndDelete, Working
<1>3. gone \in SUBSET (Rebuilds \X Rebuilds)
  BY <1>1
<1>4. /\ Dropped(j, gone) \in RowSets
      /\ \A u \in Tables, n \in Months :
            Dropped(j, gone)[u][n] = IF u = job[j].table /\ n = Month(j)
                                       THEN gone ELSE job[j].drop[u][n]
  <2> HIDE DEF gone
  <2> QED BY <1>1, <1>2, <1>3, PutRows DEF Dropped
<1> DEFINE dropped == Dropped(j, gone)
           after == [job[j] EXCEPT !.at = next, !.table = "effort", !.seen = {}, !.drop = dropped]
<1>5. job' = [job EXCEPT ![j] = after]
  BY DEF EndDelete, Set
<1>6. job[j].at = "wait"
  BY DEF EndDelete
<1>7. /\ after \in Job /\ after.at = next /\ after.table = "effort" /\ after.seen = {}
      /\ after.drop = dropped /\ after.caller = job[j].caller /\ after.months = job[j].months
      /\ after.todo = job[j].todo /\ after.made = job[j].made
  <2>1. dropped \in RowSets
    BY <1>4
  <2> HIDE DEF dropped
  <2>2. next \in InTransaction
    BY DEF InTransaction
  <2> HIDE DEF next
  <2> QED BY <1>1, <2>1, <2>2 DEF Job, Tables
<1> HIDE DEF after, next
<1>8. job'[j] = after /\ Others(j) /\ job' \in [Rebuilds -> Job]
  BY <1>5, <1>7, OneJobChanges DEF Others
<1> HIDE DEF gone, dropped
<1>9. \A u \in Tables, n \in Months :
         dropped[u][n] = IF u = job[j].table /\ n = Month(j) THEN gone ELSE job[j].drop[u][n]
  BY <1>4 DEF dropped
<1> QED BY <1>6, <1>7, <1>8, <1>9 DEF Kept, next, gone

LEMMA DeriveEffect ==
  ASSUME TypeOK, NEW j \in Rebuilds, Shape(j), Derive(j)
  PROVE  /\ job' \in [Rebuilds -> Job] /\ Others(j) /\ Kept(j)
         /\ job[j].at = "derive" /\ job'[j].at = "allocate"
         /\ job'[j].table = job[j].table /\ job'[j].seen = job[j].seen
         /\ job'[j].todo = job[j].todo /\ job'[j].drop = job[j].drop
         /\ \A u \in Tables, n \in Months :
               job'[j].made[u][n] = IF u = "topics" /\ n = Month(j)
                                      THEN {<<j, j>>} ELSE job[j].made[u][n]
<1> DEFINE made == Made(j, "topics", {<<j, j>>})
           after == [job[j] EXCEPT !.at = "allocate", !.made = made]
<1>1. job[j] \in Job /\ job[j].made \in RowSets
  BY DEF TypeOK, Job
<1>2. Month(j) \in Months
  BY MonthInTodo DEF Shape, Derive, Working
<1>3. /\ made \in RowSets
      /\ \A u \in Tables, n \in Months :
            made[u][n] = IF u = "topics" /\ n = Month(j) THEN {<<j, j>>} ELSE job[j].made[u][n]
  <2>1. "topics" \in Tables /\ {<<j, j>>} \in SUBSET (Rebuilds \X Rebuilds)
    BY DEF Tables
  <2> QED BY <1>1, <1>2, <2>1, PutRows DEF Made
<1> HIDE DEF made
<1>4. job' = [job EXCEPT ![j] = after] /\ job[j].at = "derive"
  BY DEF Derive, Set, made
<1>5. /\ after \in Job /\ after.at = "allocate" /\ after.table = job[j].table
      /\ after.seen = job[j].seen /\ after.drop = job[j].drop /\ after.made = made
      /\ after.caller = job[j].caller /\ after.months = job[j].months /\ after.todo = job[j].todo
  BY <1>1, <1>3 DEF Job, InTransaction
<1> HIDE DEF after
<1>6. job'[j] = after /\ Others(j) /\ job' \in [Rebuilds -> Job]
  BY <1>4, <1>5, OneJobChanges DEF Others
<1> QED BY <1>3, <1>4, <1>5, <1>6 DEF Kept

LEMMA AllocateEffect ==
  ASSUME TypeOK, NEW j \in Rebuilds, Shape(j), Allocate(j)
  PROVE  /\ job' \in [Rebuilds -> Job] /\ Others(j) /\ Kept(j)
         /\ job[j].at = "allocate"
         /\ job'[j].at = IF job'[j].todo = {} THEN "commit" ELSE "delete"
         /\ job'[j].table = "topics" /\ job'[j].seen = job[j].seen
         /\ job'[j].todo = job[j].todo \ {Month(j)} /\ job'[j].drop = job[j].drop
         /\ \A u \in Tables, n \in Months :
               job'[j].made[u][n] =
                  IF u = "effort" /\ n = Month(j)
                    THEN {<<j, row[2]>> : row \in Visible(j, "topics", Month(j))}
                    ELSE job[j].made[u][n]
<1> DEFINE rest == job[j].todo \ {Month(j)}
           rows == {<<j, row[2]>> : row \in Visible(j, "topics", Month(j))}
           made == Made(j, "effort", rows)
           next == IF rest = {} THEN "commit" ELSE "delete"
           after == [job[j] EXCEPT !.at = next, !.table = "topics", !.todo = rest, !.made = made]
<1>1. job[j] \in Job /\ job[j].made \in RowSets /\ job[j].todo \in SUBSET Months
  BY DEF TypeOK, Job
<1>2. Month(j) \in Months
  BY MonthInTodo DEF Shape, Allocate, Working
<1>3. rows \in SUBSET (Rebuilds \X Rebuilds)
  <2>1. /\ table["topics"][Month(j)] \in SUBSET (Rebuilds \X Rebuilds)
        /\ job[j].made["topics"][Month(j)] \in SUBSET (Rebuilds \X Rebuilds)
    BY <1>1, <1>2 DEF TypeOK, RowSets, Tables
  <2>2. Visible(j, "topics", Month(j)) \in SUBSET (Rebuilds \X Rebuilds)
    BY <2>1 DEF Visible
  <2> QED BY <2>2
<1> HIDE DEF rows
<1>4. /\ made \in RowSets
      /\ \A u \in Tables, n \in Months :
            made[u][n] = IF u = "effort" /\ n = Month(j) THEN rows ELSE job[j].made[u][n]
  <2>1. "effort" \in Tables
    BY DEF Tables
  <2> QED BY <1>1, <1>2, <1>3, <2>1, PutRows DEF Made
<1> HIDE DEF made
<1>5. job' = [job EXCEPT ![j] = after] /\ job[j].at = "allocate"
  BY DEF Allocate, Set, made, rows
<1>6. rest \in SUBSET Months /\ next \in InTransaction
  BY <1>1 DEF InTransaction
<1> HIDE DEF rest, next
<1>7. /\ after \in Job /\ after.at = next /\ after.table = "topics" /\ after.todo = rest
      /\ after.seen = job[j].seen /\ after.drop = job[j].drop /\ after.made = made
      /\ after.caller = job[j].caller /\ after.months = job[j].months
  BY <1>1, <1>4, <1>6 DEF Job, Tables
<1> HIDE DEF after
<1>8. job'[j] = after /\ Others(j) /\ job' \in [Rebuilds -> Job]
  BY <1>5, <1>7, OneJobChanges DEF Others
<1> QED BY <1>4, <1>5, <1>7, <1>8 DEF Kept, rest, next, rows

LEMMA EndedEffect ==
  ASSUME TypeOK, NEW j \in Rebuilds, NEW committed \in BOOLEAN, job' = Ended(j, committed)
  PROVE  /\ job' \in [Rebuilds -> Job] /\ Others(j) /\ Kept(j)
         /\ job'[j].at = IF job[j].caller \in Registers THEN "report" ELSE "done"
         /\ job'[j].todo = {} /\ job'[j].seen = {} /\ job'[j].table = "topics"
         /\ job'[j].drop = NoRows /\ job'[j].made = NoRows
<1> DEFINE next == IF job[j].caller \in Registers THEN "report" ELSE "done"
           after == [job[j] EXCEPT !.at = next, !.table = "topics", !.todo = {}, !.seen = {},
                                   !.drop = NoRows, !.made = NoRows, !.committed = committed]
<1>1. job[j] \in Job
  BY DEF TypeOK
<1>2. next \in {"report", "done"}
  OBVIOUS
<1>3. job' = [job EXCEPT ![j] = after]
  BY DEF Ended, Set
<1> HIDE DEF next
<1>4. /\ after \in Job /\ after.at = next /\ after.table = "topics" /\ after.todo = {}
      /\ after.seen = {} /\ after.drop = NoRows /\ after.made = NoRows
      /\ after.caller = job[j].caller /\ after.months = job[j].months
  BY <1>1, <1>2, NoRowsCells DEF Job, Tables
<1> HIDE DEF after
<1>5. job'[j] = after /\ Others(j) /\ job' \in [Rebuilds -> Job]
  BY <1>3, <1>4, OneJobChanges DEF Others
<1> QED BY <1>4, <1>5 DEF Kept, next

LEMMA BeginEffect ==
  ASSUME TypeOK, NEW j \in Rebuilds, NEW caller \in Callers, Begin(j, caller)
  PROVE  /\ job' \in [Rebuilds -> Job] /\ Others(j)
         /\ job[j].at = "idle" /\ job'[j].at = "delete" /\ job'[j].caller = caller
         /\ job'[j].todo = job'[j].months /\ job'[j].todo # {}
         /\ job'[j].table = job[j].table /\ job'[j].seen = job[j].seen
         /\ job'[j].drop = job[j].drop /\ job'[j].made = job[j].made
<1>1. PICK months \in MonthsOf(caller) :
         job' = [job EXCEPT ![j] = [job[j] EXCEPT !.at = "delete", !.caller = caller,
                                                  !.months = months, !.todo = months]]
  BY DEF Begin, Set
<1>2. months \in SUBSET Months /\ months # {}
  BY CallersAssumption, MonthsAssumption DEF MonthsOf, Registers
<1> DEFINE after == [job[j] EXCEPT !.at = "delete", !.caller = caller,
                                   !.months = months, !.todo = months]
<1>3. job[j] \in Job
  BY DEF TypeOK
<1>4. /\ after \in Job /\ after.at = "delete" /\ after.caller = caller /\ after.months = months
      /\ after.todo = months /\ after.table = job[j].table /\ after.seen = job[j].seen
      /\ after.drop = job[j].drop /\ after.made = job[j].made
  BY <1>2, <1>3 DEF Job, InTransaction
<1> HIDE DEF after
<1>5. job'[j] = after /\ Others(j) /\ job' \in [Rebuilds -> Job]
  BY <1>1, <1>4, OneJobChanges DEF Others, after
<1> QED BY <1>2, <1>4, <1>5 DEF Begin

LEMMA ReportEffect ==
  ASSUME TypeOK, NEW j \in Rebuilds, Report(j)
  PROVE  /\ job' \in [Rebuilds -> Job] /\ Others(j) /\ Kept(j)
         /\ job[j].at = "report" /\ job'[j].at = "done"
         /\ job'[j].todo = job[j].todo /\ job'[j].table = job[j].table
         /\ job'[j].seen = job[j].seen /\ job'[j].drop = job[j].drop
         /\ job'[j].made = job[j].made
<1> DEFINE after == [job[j] EXCEPT !.at = "done"]
<1>1. job[j] \in Job
  BY DEF TypeOK
<1>2. /\ after \in Job /\ after.at = "done" /\ after.caller = job[j].caller
      /\ after.months = job[j].months /\ after.todo = job[j].todo /\ after.table = job[j].table
      /\ after.seen = job[j].seen /\ after.drop = job[j].drop /\ after.made = job[j].made
  BY <1>1 DEF Job
<1>3. job' = [job EXCEPT ![j] = after] /\ job[j].at = "report"
  BY DEF Report, Set
<1> HIDE DEF after
<1>4. job'[j] = after /\ Others(j) /\ job' \in [Rebuilds -> Job]
  BY <1>2, <1>3, OneJobChanges DEF Others
<1> QED BY <1>2, <1>3, <1>4 DEF Kept

-----------------------------------------------------------------------------
(* Steps that change nothing but the record of one open transaction *)

LEMMA SameJob ==
  ASSUME NEW k \in Rebuilds, job'[k] = job[k]
  PROVE  /\ Month(k)' = Month(k)
         /\ Active(k)' <=> Active(k)
         /\ \A t, m : Cleared(k, t, m)' <=> Cleared(k, t, m)
         /\ \A m : Allocated(k, m)' <=> Allocated(k, m)
         /\ Shape(k)' <=> Shape(k)
         /\ Pending(k)' <=> Pending(k)
<1>1. Month(k)' = Month(k)
  BY DEF Month
<1>2. Active(k)' <=> Active(k)
  BY DEF Active
<1>3. \A t, m : Cleared(k, t, m)' <=> Cleared(k, t, m)
  BY <1>1, <1>2 DEF Cleared
<1>4. \A m : Allocated(k, m)' <=> Allocated(k, m)
  BY <1>2 DEF Allocated
<1>5. Shape(k)' <=> Shape(k)
  BY DEF Shape
<1>6. Pending(k)' <=> Pending(k)
  BY <1>1, <1>3, <1>4 DEF Pending
<1> QED BY <1>1, <1>2, <1>3, <1>4, <1>5, <1>6

LEMMA PastStays ==
  ASSUME \A k \in Rebuilds : Ends(k) => Ends(k)',
         NEW rows \in SUBSET (Rebuilds \X Rebuilds), Past(rows)
  PROVE  \A x \in rows : Ends(x[1])' /\ Ends(x[2])'
  BY DEF Past

LEMMA TableType ==
  ASSUME TypeOK, NEW t \in Tables, NEW m \in Months
  PROVE  table[t][m] \in SUBSET (Rebuilds \X Rebuilds)
  BY DEF TypeOK, RowSets

LEMMA DropsType ==
  ASSUME TypeOK, NEW j \in Rebuilds, NEW t \in Tables, NEW m \in Months
  PROVE  /\ job[j].drop[t][m] \in SUBSET (Rebuilds \X Rebuilds)
         /\ job[j].made[t][m] \in SUBSET (Rebuilds \X Rebuilds)
         /\ job[j].seen \in SUBSET (Rebuilds \X Rebuilds)
         /\ table[t][m] \in SUBSET (Rebuilds \X Rebuilds)
  BY DEF TypeOK, Job, RowSets

(* A record that does not change keeps its invariant as long as the rows do. *)
LEMMA SameJobInv ==
  ASSUME TypeOK, NEW k \in Rebuilds, job'[k] = job[k], table' = table,
         met[k] \subseteq met'[k],
         \A r \in Rebuilds : Ends(r) => Ends(r)',
         JobInv(k)
  PROVE  JobInv(k)'
<1>1. job[k].seen \in SUBSET (Rebuilds \X Rebuilds)
  BY DEF TypeOK, Job
<1>2. Shape(k)' /\ Pending(k)'
  BY SameJob DEF JobInv
<1>3. SeenPast(k)'
  <2>1. \A x \in job[k].seen : Ends(x[1])' /\ Ends(x[2])'
    BY <1>1, PastStays DEF JobInv, SeenPast
  <2>2. \A t \in Tables, m \in Months : \A x \in job[k].drop[t][m] : Ends(x[1])' /\ Ends(x[2])'
    BY DropsType, PastStays DEF JobInv, SeenPast
  <2>3. \A t \in Tables, m \in Months : \A x \in job[k].made[t][m] : x[2] = k \/ Ends(x[2])'
    BY DropsType DEF JobInv, SeenPast
  <2> QED BY <2>1, <2>2, <2>3 DEF SeenPast, Past
<1>4. Late(k)'
  BY SameJob DEF JobInv, Late
<1>5. Recomputed(k)'
  BY SameJob DEF JobInv, Recomputed
<1> QED BY <1>2, <1>3, <1>4, <1>5 DEF JobInv

(* Then only the invariant of the one record is left to prove. *)
LEMMA OpenStep ==
  ASSUME Inv, NEW j \in Rebuilds, Others(j), job' \in [Rebuilds -> Job],
         UNCHANGED <<table, register, met>>, Active(j), Active(j)', JobInv(j)'
  PROVE  Inv'
<1>1. \A k \in Rebuilds : (Active(k)' <=> Active(k)) /\ (Ends(k)' <=> Ends(k))
                            /\ (job'[k].at = "idle" <=> job[k].at = "idle")
  BY DEF Others, Active, Ends, InTransaction
<1>2. \A k \in Rebuilds : JobInv(k)'
  <2>1. ASSUME NEW k \in Rebuilds, k # j PROVE JobInv(k)'
    BY <1>1, <2>1, SameJobInv DEF Inv, Others
  <2> QED BY <2>1
<1>3. TypeOK'
  BY DEF Inv, TypeOK
<1>4. Meetings'
  BY <1>1 DEF Inv, Meetings
<1>5. CommittedPast'
  <2>1. ASSUME NEW t \in Tables, NEW m \in Months PROVE Past(table[t][m])'
    <3>1. table[t][m] \in SUBSET (Rebuilds \X Rebuilds)
      BY DEF Inv, TypeOK, RowSets
    <3> QED BY <1>1, <3>1 DEF Inv, CommittedPast, Past
  <2> QED BY <2>1 DEF Inv, CommittedPast
<1>6. DuplicatesNeedOverlap' /\ TopicsAreAllocated'
  BY DEF Inv, DuplicatesNeedOverlap, TopicsAreAllocated
<1> QED BY <1>2, <1>3, <1>4, <1>5, <1>6 DEF Inv

LEMMA StartDeleteInv ==
  ASSUME Inv, NEW j \in Rebuilds, StartDelete(j)
  PROVE  Inv'
<1>1. TypeOK /\ JobInv(j) /\ Shape(j)
  BY DEF Inv, JobInv
<1>2. UNCHANGED <<table, register, met>>
  BY DEF StartDelete
<1>3. /\ job' \in [Rebuilds -> Job] /\ Others(j) /\ Kept(j)
      /\ job[j].at = "delete" /\ job'[j].at = "wait"
      /\ job'[j].seen = table[job[j].table][Month(j)]
      /\ job'[j].todo = job[j].todo /\ job'[j].table = job[j].table
      /\ job'[j].drop = job[j].drop /\ job'[j].made = job[j].made
  BY <1>1, StartDeleteEffect
<1>4. Active(j) /\ Active(j)'
  BY <1>3 DEF Active, InTransaction
<1>5. Month(j)' = Month(j)
  BY <1>3 DEF Month
<1>6. Month(j) \in Months /\ job[j].table \in Tables
  BY <1>1, <1>3, MonthInTodo DEF Shape, Working, TypeOK, Job
<1>7. /\ \A t, m : Cleared(j, t, m)' <=> Cleared(j, t, m)
      /\ \A m : Allocated(j, m)' <=> Allocated(j, m)
  BY <1>3, <1>4, <1>5 DEF Cleared, Allocated, Kept
<1>8. Shape(j)'
  BY <1>1, <1>3 DEF Shape, Kept, InTransaction, Working
<1>9. Pending(j)'
  BY <1>1, <1>3, <1>7 DEF JobInv, Pending
<1>10. \A k \in Rebuilds : Ends(k)' <=> Ends(k)
  BY <1>3 DEF Ends, Others
<1>11. SeenPast(j)'
  <2>1. \A x \in job'[j].seen : Ends(x[1])' /\ Ends(x[2])'
    BY <1>3, <1>6, <1>10, DropsType, PastStays DEF Inv, CommittedPast
  <2>2. \A t \in Tables, m \in Months : \A x \in job'[j].drop[t][m] : Ends(x[1])' /\ Ends(x[2])'
    BY <1>1, <1>3, <1>10, DropsType, PastStays DEF JobInv, SeenPast
  <2>3. \A t \in Tables, m \in Months : \A x \in job'[j].made[t][m] : x[2] = j \/ Ends(x[2])'
    BY <1>1, <1>3, <1>10, DropsType DEF JobInv, SeenPast
  <2> QED BY <2>1, <2>2, <2>3 DEF SeenPast, Past
<1>12. Late(j)'
  BY <1>1, <1>2, <1>3, <1>5, <1>7 DEF JobInv, Late
<1>13. Recomputed(j)'
  BY <1>1, <1>2, <1>3, <1>7 DEF JobInv, Recomputed
<1> QED BY <1>2, <1>3, <1>4, <1>8, <1>9, <1>11, <1>12, <1>13, OpenStep DEF JobInv

LEMMA EndDeleteInv ==
  ASSUME Inv, NEW j \in Rebuilds, EndDelete(j)
  PROVE  Inv'
<1> DEFINE gone == job[j].seen \cap table[job[j].table][Month(j)]
<1>1. TypeOK /\ JobInv(j) /\ Shape(j)
  BY DEF Inv, JobInv
<1>2. UNCHANGED <<table, register, met>>
  BY DEF EndDelete
<1>3. /\ job' \in [Rebuilds -> Job] /\ Others(j) /\ Kept(j)
      /\ job[j].at = "wait"
      /\ job'[j].at = IF job[j].table = "topics" THEN "delete" ELSE "derive"
      /\ job'[j].table = "effort" /\ job'[j].seen = {}
      /\ job'[j].todo = job[j].todo /\ job'[j].made = job[j].made
      /\ \A u \in Tables, n \in Months :
            job'[j].drop[u][n] = IF u = job[j].table /\ n = Month(j)
                                   THEN gone ELSE job[j].drop[u][n]
  BY <1>1, EndDeleteEffect
<1>4. Active(j) /\ Active(j)'
  BY <1>3 DEF Active, InTransaction
<1>5. Month(j)' = Month(j)
  BY <1>3 DEF Month
<1>6. /\ Month(j) \in Months /\ job[j].table \in Tables
      /\ Month(j) \in job[j].todo /\ job[j].todo \subseteq job[j].months
  BY <1>1, <1>3, MonthInTodo DEF Shape, Working, TypeOK, Job
<1>7. \A m : Allocated(j, m)' <=> Allocated(j, m)
  BY <1>3, <1>4 DEF Allocated, Kept
<1>8. \A t \in Tables, m \in Months :
         Cleared(j, t, m)' <=> Cleared(j, t, m) \/ (t = job[j].table /\ m = Month(j))
  BY <1>3, <1>4, <1>5, <1>6 DEF Cleared, Kept, Tables
<1>9. \A m \in Months : Allocated(j, m) => m # Month(j)
  BY <1>6 DEF Allocated
<1>10. Shape(j)'
  BY <1>1, <1>3 DEF Shape, Kept, InTransaction, Working
<1>11. Pending(j)'
  BY <1>1, <1>3, <1>7, <1>8 DEF JobInv, Pending
<1>12. \A k \in Rebuilds : Ends(k)' <=> Ends(k)
  BY <1>3 DEF Ends, Others
<1>13. SeenPast(j)'
  <2>1. \A x \in gone : Ends(x[1])' /\ Ends(x[2])'
    BY <1>1, <1>6, <1>12, DropsType, PastStays DEF JobInv, SeenPast
  <2>2. \A t \in Tables, m \in Months : \A x \in job[j].drop[t][m] : Ends(x[1])' /\ Ends(x[2])'
    BY <1>1, <1>12, DropsType, PastStays DEF JobInv, SeenPast
  <2>3. \A t \in Tables, m \in Months : \A x \in job'[j].made[t][m] : x[2] = j \/ Ends(x[2])'
    BY <1>1, <1>3, <1>12, DropsType DEF JobInv, SeenPast
  <2> QED BY <1>3, <2>1, <2>2, <2>3 DEF SeenPast, Past
<1>14. Late(j)'
  <2>1. \A x \in table[job[j].table][Month(j)] \ gone : x[1] \in met[j]
    BY <1>1, <1>3 DEF JobInv, Late
  <2>2. \A t \in Tables, m \in Months : Cleared(j, t, m)' =>
           \A x \in table[t][m] \ job'[j].drop[t][m] : x[1] \in met[j]
    BY <1>1, <1>3, <1>8, <2>1 DEF JobInv, Late
  <2>3. \A t \in Tables, m \in Months : \A x \in job'[j].made[t][m] : x[2] \in {j} \cup met[j]
    BY <1>1, <1>3 DEF JobInv, Late
  <2> QED BY <1>2, <1>3, <2>2, <2>3 DEF Late
<1>15. Recomputed(j)'
  BY <1>1, <1>2, <1>3, <1>7, <1>9 DEF JobInv, Recomputed, Tables
<1> QED BY <1>2, <1>3, <1>4, <1>10, <1>11, <1>13, <1>14, <1>15, OpenStep DEF JobInv

LEMMA DeriveInv ==
  ASSUME Inv, NEW j \in Rebuilds, Derive(j)
  PROVE  Inv'
<1>1. TypeOK /\ JobInv(j) /\ Shape(j)
  BY DEF Inv, JobInv
<1>2. UNCHANGED <<table, register, met>>
  BY DEF Derive
<1>3. /\ job' \in [Rebuilds -> Job] /\ Others(j) /\ Kept(j)
      /\ job[j].at = "derive" /\ job'[j].at = "allocate"
      /\ job'[j].table = job[j].table /\ job'[j].seen = job[j].seen
      /\ job'[j].todo = job[j].todo /\ job'[j].drop = job[j].drop
      /\ \A u \in Tables, n \in Months :
            job'[j].made[u][n] = IF u = "topics" /\ n = Month(j)
                                   THEN {<<j, j>>} ELSE job[j].made[u][n]
  BY <1>1, DeriveEffect
<1>4. Active(j) /\ Active(j)'
  BY <1>3 DEF Active, InTransaction
<1>5. Month(j)' = Month(j)
  BY <1>3 DEF Month
<1>6. Month(j) \in Months /\ Month(j) \in job[j].todo /\ job[j].todo \subseteq job[j].months
  BY <1>1, <1>3, MonthInTodo DEF Shape, Working
<1>7. \A m : Allocated(j, m)' <=> Allocated(j, m)
  BY <1>3, <1>4 DEF Allocated, Kept
<1>8. \A t, m : Cleared(j, t, m)' <=> Cleared(j, t, m)
  BY <1>3, <1>4, <1>5 DEF Cleared, Kept
<1>9. /\ \A m \in Months : Allocated(j, m) => m # Month(j)
      /\ \A t \in Tables : Cleared(j, t, Month(j))
  BY <1>3, <1>4, <1>6 DEF Allocated, Cleared
<1>10. Shape(j)'
  BY <1>1, <1>3 DEF Shape, Kept, InTransaction, Working
<1>11. Pending(j)'
  BY <1>1, <1>3, <1>5, <1>6, <1>7, <1>8, <1>9 DEF JobInv, Pending, Tables
<1>12. \A k \in Rebuilds : Ends(k)' <=> Ends(k)
  BY <1>3 DEF Ends, Others
<1>13. SeenPast(j)'
  <2>1. job[j].seen \in SUBSET (Rebuilds \X Rebuilds)
    BY <1>1 DEF TypeOK, Job
  <2>2. \A x \in job'[j].seen : Ends(x[1])' /\ Ends(x[2])'
    BY <1>1, <1>3, <1>12, <2>1, PastStays DEF JobInv, SeenPast
  <2>3. \A t \in Tables, m \in Months : \A x \in job'[j].drop[t][m] : Ends(x[1])' /\ Ends(x[2])'
    BY <1>1, <1>3, <1>12, DropsType, PastStays DEF JobInv, SeenPast
  <2>4. \A t \in Tables, m \in Months : \A x \in job[j].made[t][m] : x[2] = j \/ Ends(x[2])'
    BY <1>1, <1>12, DropsType DEF JobInv, SeenPast
  <2>5. \A t \in Tables, m \in Months : \A x \in job'[j].made[t][m] : x[2] = j \/ Ends(x[2])'
    BY <1>3, <2>4
  <2> QED BY <2>2, <2>3, <2>5 DEF SeenPast, Past
<1>14. Late(j)'
  BY <1>1, <1>2, <1>3, <1>8 DEF JobInv, Late
<1>15. Recomputed(j)'
  BY <1>1, <1>2, <1>3, <1>7 DEF JobInv, Recomputed, Tables
<1> QED BY <1>2, <1>3, <1>4, <1>10, <1>11, <1>13, <1>14, <1>15, OpenStep DEF JobInv

LEMMA AllocateInv ==
  ASSUME Inv, NEW j \in Rebuilds, Allocate(j)
  PROVE  Inv'
<1> DEFINE rows == {<<j, row[2]>> : row \in Visible(j, "topics", Month(j))}
<1>1. TypeOK /\ JobInv(j) /\ Shape(j)
  BY DEF Inv, JobInv
<1>2. UNCHANGED <<table, register, met>>
  BY DEF Allocate
<1>3. /\ job' \in [Rebuilds -> Job] /\ Others(j) /\ Kept(j)
      /\ job[j].at = "allocate"
      /\ job'[j].at = IF job'[j].todo = {} THEN "commit" ELSE "delete"
      /\ job'[j].table = "topics" /\ job'[j].seen = job[j].seen
      /\ job'[j].todo = job[j].todo \ {Month(j)} /\ job'[j].drop = job[j].drop
      /\ \A u \in Tables, n \in Months :
            job'[j].made[u][n] = IF u = "effort" /\ n = Month(j)
                                   THEN rows ELSE job[j].made[u][n]
  BY <1>1, AllocateEffect
<1>4. Active(j) /\ Active(j)'
  BY <1>3 DEF Active, InTransaction
<1>5. Month(j) \in Months /\ Month(j) \in job[j].todo /\ job[j].todo \subseteq job[j].months
  BY <1>1, <1>3, MonthInTodo DEF Shape, Working
<1>6. \A m : Allocated(j, m)' <=> Allocated(j, m) \/ m = Month(j)
  BY <1>3, <1>4, <1>5 DEF Allocated, Kept
<1>7. \A t \in Tables, m \in Months : Cleared(j, t, m)' <=> Cleared(j, t, m)
  <2>1. Month(j)' # Month(j) \/ job'[j].todo = {}
    <3>1. job'[j].todo \in SUBSET Nat
      BY <1>3, MonthsAssumption DEF Job
    <3>2. job'[j].todo # {} => Month(j)' \in job'[j].todo
      BY <3>1, LeastNatural DEF Month
    <3> QED BY <1>3, <3>2
  <2> QED BY <1>3, <1>4, <1>5, <2>1 DEF Cleared, Kept, Tables
<1>8. \A t \in Tables : Cleared(j, t, Month(j))
  BY <1>3, <1>4, <1>5 DEF Cleared
<1>9. /\ \A x \in table["topics"][Month(j)] \ job[j].drop["topics"][Month(j)] :
            x[1] = x[2] /\ x[1] \in met[j] /\ <<j, x[1]>> \in rows
      /\ <<j, j>> \in rows
      /\ \A x \in rows : x[1] = j /\ x[2] \in {j} \cup met[j]
  <2>1. "topics" \in Tables
    BY DEF Tables
  <2>2. \A x \in table["topics"][Month(j)] \ job[j].drop["topics"][Month(j)] :
           x[1] = x[2] /\ x[1] \in met[j]
    BY <1>1, <1>5, <1>8, <2>1 DEF Inv, CommittedPast, JobInv, Late
  <2>3. job[j].made["topics"][Month(j)] = {<<j, j>>}
    BY <1>1, <1>3 DEF JobInv, Pending
  <2> DEFINE old == table["topics"][Month(j)] \ job[j].drop["topics"][Month(j)]
  <2>4. Visible(j, "topics", Month(j)) = old \cup {<<j, j>>}
    BY <2>3 DEF Visible
  <2> HIDE DEF old
  <2>5. rows = {<<j, row[2]>> : row \in old} \cup {<<j, j>>}
    BY <2>4
  <2>6. \A x \in old : x[1] = x[2] /\ x[1] \in met[j]
    BY <2>2 DEF old
  <2> HIDE DEF rows
  <2>7. /\ \A x \in old : x[1] = x[2] /\ x[1] \in met[j] /\ <<j, x[1]>> \in rows
        /\ <<j, j>> \in rows
        /\ \A x \in rows : x[1] = j /\ x[2] \in {j} \cup met[j]
    BY <2>5, <2>6
  <2> QED BY <2>7 DEF old
<1> HIDE DEF rows
<1>10. Shape(j)'
  BY <1>1, <1>3 DEF Shape, Kept, InTransaction, Working
<1>11. Pending(j)'
  BY <1>1, <1>3, <1>5, <1>6, <1>7, <1>8, <1>9 DEF JobInv, Pending, Tables
<1>12. \A k \in Rebuilds : Ends(k)' <=> Ends(k)
  BY <1>3 DEF Ends, Others
<1>13. SeenPast(j)'
  <2>1. job[j].seen \in SUBSET (Rebuilds \X Rebuilds)
    BY <1>1 DEF TypeOK, Job
  <2>2. \A x \in job'[j].seen : Ends(x[1])' /\ Ends(x[2])'
    BY <1>1, <1>3, <1>12, <2>1, PastStays DEF JobInv, SeenPast
  <2>3. \A t \in Tables, m \in Months : \A x \in job'[j].drop[t][m] : Ends(x[1])' /\ Ends(x[2])'
    BY <1>1, <1>3, <1>12, DropsType, PastStays DEF JobInv, SeenPast
  <2>4. \A t \in Tables, m \in Months : \A x \in job[j].made[t][m] : x[2] = j \/ Ends(x[2])'
    BY <1>1, <1>12, DropsType DEF JobInv, SeenPast
  <2>5. \A x \in rows : x[2] = j \/ Ends(x[2])'
    <3>1. "topics" \in Tables
      BY DEF Tables
    <3>2. \A x \in table["topics"][Month(j)] : Ends(x[1])' /\ Ends(x[2])'
      BY <1>1, <1>5, <1>12, <3>1, DropsType, PastStays DEF Inv, CommittedPast
    <3> QED BY <1>5, <2>4, <3>1, <3>2 DEF rows, Visible
  <2>6. \A t \in Tables, m \in Months : \A x \in job'[j].made[t][m] : x[2] = j \/ Ends(x[2])'
    BY <1>3, <2>4, <2>5
  <2> QED BY <2>2, <2>3, <2>6 DEF SeenPast, Past
<1>14. Late(j)'
  BY <1>1, <1>2, <1>3, <1>7, <1>9 DEF JobInv, Late
<1>15. Recomputed(j)'
  BY <1>1, <1>2, <1>3, <1>6, <1>9 DEF JobInv, Recomputed, Tables
<1> QED BY <1>2, <1>3, <1>4, <1>10, <1>11, <1>13, <1>14, <1>15, OpenStep DEF JobInv

-----------------------------------------------------------------------------
(* Steps that open or end a transaction *)

(* Nothing is pending in a rebuild that is over. *)
LEMMA ClosedJobInv ==
  ASSUME NEW k \in Rebuilds, job'[k].at \in {"report", "done"},
         job'[k].at = "report" => job'[k].caller \in Callers,
         job'[k].todo = {}, job'[k].seen = {},
         \A t \in Tables, m \in Months : job'[k].drop[t][m] = {} /\ job'[k].made[t][m] = {}
  PROVE  JobInv(k)'
<1>1. ~ Active(k)'
  BY DEF Active, InTransaction
<1>2. \A t, m : ~ Cleared(k, t, m)'
  BY <1>1 DEF Cleared
<1>3. \A m : ~ Allocated(k, m)'
  BY <1>1 DEF Allocated
<1>4. Shape(k)'
  BY DEF Shape, Working, InTransaction
<1>5. Pending(k)'
  BY <1>3 DEF Pending, Tables
<1>6. SeenPast(k)'
  BY DEF SeenPast, Past
<1>7. Late(k)'
  BY <1>2 DEF Late
<1>8. Recomputed(k)'
  BY <1>3 DEF Recomputed
<1> QED BY <1>4, <1>5, <1>6, <1>7, <1>8 DEF JobInv

Statuses == {"idle", "running", "succeeded", "failed"}

LEMMA BeginInv ==
  ASSUME Inv, NEW j \in Rebuilds, NEW caller \in Callers, Begin(j, caller),
         register' \in [Registers -> Statuses]
  PROVE  Inv'
<1>1. TypeOK /\ JobInv(j) /\ Meetings
  BY DEF Inv
<1>2. table' = table
  BY DEF Begin
<1>3. /\ job' \in [Rebuilds -> Job] /\ Others(j)
      /\ job[j].at = "idle" /\ job'[j].at = "delete" /\ job'[j].caller = caller
      /\ job'[j].todo = job'[j].months /\ job'[j].todo # {}
      /\ job'[j].table = job[j].table /\ job'[j].seen = job[j].seen
      /\ job'[j].drop = job[j].drop /\ job'[j].made = job[j].made
  BY <1>1, BeginEffect
<1>4. /\ met' \in [Rebuilds -> SUBSET Rebuilds]
      /\ met'[j] = {q \in Rebuilds : Active(q)}
      /\ \A k \in Rebuilds : k # j =>
            met'[k] = IF Active(k) THEN met[k] \cup {j} ELSE met[k]
  BY <1>1 DEF Begin, TypeOK
<1>5. met[j] = {} /\ ~ Active(j) /\ Active(j)'
  BY <1>1, <1>3 DEF Meetings, Active, InTransaction
<1>6. \A k \in Rebuilds : met[k] \subseteq met'[k]
  BY <1>4, <1>5
<1>7. \A k \in Rebuilds : Ends(k) => Ends(k)'
  BY <1>3 DEF Ends, Others
<1>8. \A k \in Rebuilds : k # j => (Active(k)' <=> Active(k))
  BY <1>3 DEF Others, Active
<1>9. JobInv(j)'
  <2>1. \A t, m : ~ Cleared(j, t, m)
    BY <1>5 DEF Cleared
  <2>2. \A t \in Tables, m \in Months : job[j].drop[t][m] = {} /\ job[j].made[t][m] = {}
    BY <1>1, <2>1 DEF JobInv, Pending
  <2>3. job'[j].table = "topics"
    BY <1>1, <1>3 DEF JobInv, Shape
  <2>4. (\A t, m : ~ Cleared(j, t, m)') /\ (\A m : ~ Allocated(j, m)')
    BY <1>3, <2>3 DEF Cleared, Allocated
  <2>5. Shape(j)'
    BY <1>1, <1>3, <2>3 DEF JobInv, Shape, Working, InTransaction
  <2>6. Pending(j)'
    BY <1>3, <2>2, <2>4 DEF Pending, Tables
  <2>7. SeenPast(j)'
    <3>1. job[j].seen \in SUBSET (Rebuilds \X Rebuilds)
      BY <1>1 DEF TypeOK, Job
    <3>2. \A x \in job'[j].seen : Ends(x[1])' /\ Ends(x[2])'
      BY <1>1, <1>3, <1>7, <3>1, PastStays DEF JobInv, SeenPast
    <3> QED BY <1>3, <2>2, <3>2 DEF SeenPast, Past
  <2>8. Late(j)'
    BY <1>3, <2>2, <2>4 DEF Late
  <2>9. Recomputed(j)'
    BY <2>4 DEF Recomputed
  <2> QED BY <2>5, <2>6, <2>7, <2>8, <2>9 DEF JobInv
<1>10. \A k \in Rebuilds : JobInv(k)'
  <2>1. ASSUME NEW k \in Rebuilds, k # j PROVE JobInv(k)'
    BY <1>1, <1>2, <1>3, <1>6, <1>7, <2>1, SameJobInv DEF Inv, Others
  <2> QED BY <1>9, <2>1
<1>11. TypeOK'
  BY <1>1, <1>2, <1>3, <1>4 DEF TypeOK, Statuses
<1>12. Meetings'
  <2>1. \A k, l \in Rebuilds : l \in met'[k] => k \in met'[l]
    BY <1>1, <1>4, <1>5 DEF Meetings
  <2>2. \A k, l \in Rebuilds : Active(k)' /\ Active(l)' /\ k # l => l \in met'[k]
    BY <1>1, <1>4, <1>8 DEF Meetings
  <2>3. \A k \in Rebuilds : job'[k].at = "idle" => met'[k] = {}
    BY <1>1, <1>3, <1>4 DEF Meetings, Others, Active, InTransaction
  <2> QED BY <2>1, <2>2, <2>3 DEF Meetings
<1>13. CommittedPast'
  BY <1>1, <1>2, <1>7, DropsType, PastStays DEF Inv, CommittedPast, Past
<1>14. DuplicatesNeedOverlap'
  <2>1. ASSUME NEW t \in Tables, NEW m \in Months, NEW x \in table[t][m], NEW y \in table[t][m]
        PROVE  {x[2], y[1]} \subseteq {x[1]} \cup met'[x[1]]
    <3>1. x[1] \in Rebuilds
      BY <1>1, DropsType
    <3>2. {x[2], y[1]} \subseteq {x[1]} \cup met[x[1]]
      BY DEF Inv, DuplicatesNeedOverlap
    <3> QED BY <1>6, <3>1, <3>2
  <2> QED BY <1>2, <2>1 DEF DuplicatesNeedOverlap
<1>15. TopicsAreAllocated'
  BY <1>2 DEF Inv, TopicsAreAllocated
<1> QED BY <1>10, <1>11, <1>12, <1>13, <1>14, <1>15 DEF Inv

(* A rebuild that stops without committing leaves the rows as they are. *)
LEMMA LeaveInv ==
  ASSUME Inv, NEW j \in Rebuilds, Others(j), job' \in [Rebuilds -> Job],
         table' = table, met' = met, register' \in [Registers -> Statuses],
         job[j].at # "idle", job'[j].at \in {"report", "done"}, JobInv(j)'
  PROVE  Inv'
<1>1. \A k \in Rebuilds : (Active(k)' => Active(k)) /\ (Ends(k) => Ends(k)')
                            /\ (job'[k].at = "idle" <=> job[k].at = "idle")
  BY DEF Others, Active, Ends, InTransaction
<1>2. \A k \in Rebuilds : JobInv(k)'
  <2>1. ASSUME NEW k \in Rebuilds, k # j PROVE JobInv(k)'
    BY <1>1, <2>1, SameJobInv DEF Inv, Others
  <2> QED BY <2>1
<1>3. TypeOK'
  BY DEF Inv, TypeOK, Statuses
<1>4. Meetings'
  BY <1>1 DEF Inv, Meetings
<1>5. CommittedPast'
  BY <1>1, DropsType, PastStays DEF Inv, CommittedPast, Past
<1>6. DuplicatesNeedOverlap' /\ TopicsAreAllocated'
  BY DEF Inv, DuplicatesNeedOverlap, TopicsAreAllocated
<1> QED BY <1>2, <1>3, <1>4, <1>5, <1>6 DEF Inv

LEMMA FailInv ==
  ASSUME Inv, NEW j \in Rebuilds, Fail(j)
  PROVE  Inv'
<1>1. TypeOK /\ Shape(j) /\ Active(j) /\ job' = Ended(j, FALSE)
      /\ UNCHANGED <<table, register, met>>
  BY DEF Inv, JobInv, Fail
<1>2. /\ job' \in [Rebuilds -> Job] /\ Others(j) /\ Kept(j)
      /\ job'[j].at = IF job[j].caller \in Registers THEN "report" ELSE "done"
      /\ job'[j].todo = {} /\ job'[j].seen = {}
      /\ job'[j].drop = NoRows /\ job'[j].made = NoRows
  BY <1>1, EndedEffect
<1>3. job[j].caller \in Callers /\ job[j].at # "idle"
  BY <1>1 DEF Shape, Active, InTransaction
<1>4. JobInv(j)'
  BY <1>2, <1>3, ClosedJobInv, NoRowsCells DEF Kept
<1>5. register' \in [Registers -> Statuses]
  BY <1>1 DEF TypeOK, Statuses
<1> QED BY <1>1, <1>2, <1>3, <1>4, <1>5, LeaveInv

LEMMA ReportInv ==
  ASSUME Inv, NEW j \in Rebuilds, Report(j)
  PROVE  Inv'
<1>1. TypeOK /\ JobInv(j)
  BY DEF Inv
<1>2. /\ job' \in [Rebuilds -> Job] /\ Others(j) /\ Kept(j)
      /\ job[j].at = "report" /\ job'[j].at = "done"
      /\ job'[j].todo = job[j].todo
      /\ job'[j].seen = job[j].seen /\ job'[j].drop = job[j].drop
      /\ job'[j].made = job[j].made
  BY <1>1, ReportEffect
<1>3. \A t, m : ~ Cleared(j, t, m)
  BY <1>2 DEF Cleared, Active, InTransaction
<1>4. \A t \in Tables, m \in Months : job[j].drop[t][m] = {} /\ job[j].made[t][m] = {}
  BY <1>1, <1>3 DEF JobInv, Pending
<1>5. job[j].todo = {} /\ job[j].seen = {}
  BY <1>1, <1>2 DEF JobInv, Shape
<1>6. JobInv(j)'
  BY <1>2, <1>4, <1>5, ClosedJobInv
<1>7. register' \in [Registers -> Statuses] /\ table' = table /\ met' = met
  BY <1>1 DEF TypeOK, Statuses, Report
<1> QED BY <1>2, <1>6, <1>7, LeaveInv

LEMMA CommitInv ==
  ASSUME Inv, NEW j \in Rebuilds, Commit(j)
  PROVE  Inv'
<1>1. /\ TypeOK /\ JobInv(j) /\ Shape(j) /\ Pending(j) /\ job[j].at = "commit"
      /\ job' = Ended(j, TRUE) /\ UNCHANGED <<register, met>>
  BY DEF Inv, JobInv, Commit
<1>2. \A t \in Tables, m \in Months :
         table'[t][m] = (table[t][m] \ job[j].drop[t][m]) \cup job[j].made[t][m]
  BY DEF Commit, Visible
<1>3. /\ job' \in [Rebuilds -> Job] /\ Others(j) /\ Kept(j)
      /\ job'[j].at = IF job[j].caller \in Registers THEN "report" ELSE "done"
      /\ job'[j].todo = {} /\ job'[j].seen = {}
      /\ job'[j].drop = NoRows /\ job'[j].made = NoRows
  BY <1>1, EndedEffect
<1>4. Active(j) /\ ~ Ends(j) /\ ~ Active(j)' /\ Ends(j)'
  BY <1>1, <1>3 DEF Active, Ends, InTransaction
<1>5. /\ \A m : Allocated(j, m) <=> m \in job[j].months
      /\ \A t \in Tables : \A m : Cleared(j, t, m) <=> m \in job[j].months
  BY <1>1, <1>4 DEF Shape, Allocated, Cleared, Working
<1>6. \A t \in Tables, m \in Months \ job[j].months :
         job[j].drop[t][m] = {} /\ job[j].made[t][m] = {}
  BY <1>1, <1>5 DEF Pending
<1>7. table' \in RowSets
  <2>1. \A t \in Tables, m \in Months : table'[t][m] \in SUBSET (Rebuilds \X Rebuilds)
    BY <1>1, <1>2, DropsType
  <2>2. table' = [t \in Tables |-> [m \in Months |-> Visible(j, t, m)]]
    BY DEF Commit
  <2>3. \A t \in Tables, m \in Months : Visible(j, t, m) \in SUBSET (Rebuilds \X Rebuilds)
    BY <1>1, DropsType DEF Visible
  <2> QED BY <2>2, <2>3 DEF RowSets
<1>8. TypeOK'
  BY <1>1, <1>3, <1>7 DEF TypeOK
<1>9. /\ \A k \in Rebuilds : Ends(k) => Ends(k)'
      /\ \A k \in Rebuilds : Active(k)' => Active(k)
      /\ \A k \in Rebuilds : job'[k].at = "idle" => job[k].at = "idle"
  BY <1>3, <1>4 DEF Ends, Active, Others
<1>10. Meetings'
  BY <1>1, <1>9 DEF Inv, Meetings
<1>11. \A t \in Tables, m \in Months : \A x \in job[j].made[t][m] :
          /\ x[1] = j /\ x[2] \in {j} \cup met[j] /\ Ends(x[1])' /\ Ends(x[2])'
          /\ t = "topics" => x = <<j, j>>
  <2>1. ASSUME NEW t \in Tables, NEW m \in Months, NEW x \in job[j].made[t][m]
        PROVE  /\ x[1] = j /\ x[2] \in {j} \cup met[j] /\ Ends(x[1])' /\ Ends(x[2])'
               /\ t = "topics" => x = <<j, j>>
    <3>1. x \in Rebuilds \X Rebuilds
      BY <1>1, DropsType
    <3>2. x[1] = j /\ (t = "topics" => x = <<j, j>>)
      BY <1>1, <2>1 DEF Pending
    <3>3. x[2] \in {j} \cup met[j]
      BY <1>1, <2>1 DEF JobInv, Late
    <3>4. x[2] = j \/ Ends(x[2])
      BY <1>1, <2>1 DEF JobInv, SeenPast
    <3> QED BY <1>4, <1>9, <3>1, <3>2, <3>3, <3>4
  <2> QED BY <2>1
<1>12. CommittedPast'
  <2>1. \A t \in Tables, m \in Months : \A x \in table[t][m] : Ends(x[1])' /\ Ends(x[2])'
    BY <1>1, <1>9, DropsType, PastStays DEF Inv, CommittedPast
  <2>2. \A t \in Tables, m \in Months : \A x \in table'[t][m] : Ends(x[1])' /\ Ends(x[2])'
    BY <1>2, <1>11, <2>1
  <2>3. \A m \in Months : \A x \in table'["topics"][m] : x[1] = x[2]
    BY <1>2, <1>11 DEF Inv, CommittedPast, Tables
  <2> QED BY <2>2, <2>3 DEF CommittedPast, Past
<1>13. JobInv(j)'
  BY <1>1, <1>3, ClosedJobInv, NoRowsCells DEF Kept, Shape, InTransaction
<1>14. ASSUME NEW k \in Rebuilds, k # j PROVE JobInv(k)'
  <2>1. job'[k] = job[k] /\ JobInv(k)
    BY <1>3, <1>14 DEF Others, Inv
  <2>2. /\ Month(k)' = Month(k)
        /\ \A t, m : Cleared(k, t, m)' <=> Cleared(k, t, m)
        /\ \A m : Allocated(k, m)' <=> Allocated(k, m)
        /\ Shape(k)' /\ Pending(k)'
    BY <2>1, SameJob DEF JobInv
  <2>3. Active(k) => j \in met[k]
    BY <1>4, <1>14 DEF Inv, Meetings
  <2>4. SeenPast(k)'
    <3>1. job[k].seen \in SUBSET (Rebuilds \X Rebuilds)
      BY <1>1 DEF TypeOK, Job
    <3>2. \A x \in job[k].seen : Ends(x[1])' /\ Ends(x[2])'
      BY <1>9, <2>1, <3>1, PastStays DEF JobInv, SeenPast
    <3>3. \A t \in Tables, m \in Months : \A x \in job[k].drop[t][m] : Ends(x[1])' /\ Ends(x[2])'
      BY <1>1, <1>9, <2>1, DropsType, PastStays DEF JobInv, SeenPast
    <3>4. \A t \in Tables, m \in Months : \A x \in job[k].made[t][m] : x[2] = k \/ Ends(x[2])'
      BY <1>1, <1>9, <2>1, DropsType DEF JobInv, SeenPast
    <3> QED BY <2>1, <3>2, <3>3, <3>4 DEF SeenPast, Past
  <2>5. Late(k)'
    <3>1. job[k].at = "wait" =>
             \A x \in table'[job[k].table][Month(k)] \ job[k].seen : x[1] \in met[k]
      <4> SUFFICES ASSUME job[k].at = "wait",
                          NEW x \in table'[job[k].table][Month(k)] \ job[k].seen
                   PROVE  x[1] \in met[k]
        OBVIOUS
      <4>1. job[k].table \in Tables /\ Month(k) \in Months
        BY <1>1, <2>1, MonthInTodo DEF TypeOK, Job, JobInv, Shape, Working
      <4>2. x \in table[job[k].table][Month(k)] \/ x[1] = j
        BY <1>2, <1>11, <4>1
      <4>3. Active(k)
        BY DEF Active, InTransaction
      <4> QED BY <2>1, <2>3, <4>2, <4>3 DEF JobInv, Late
    <3>2. ASSUME NEW t \in Tables, NEW m \in Months, Cleared(k, t, m),
                 NEW x \in table'[t][m] \ job[k].drop[t][m]
          PROVE  x[1] \in met[k]
      <4>1. x \in table[t][m] \/ x[1] = j
        BY <1>2, <1>11
      <4> QED BY <2>1, <2>3, <3>2, <4>1 DEF JobInv, Late, Cleared
    <3>3. \A t \in Tables, m \in Months : \A x \in job[k].made[t][m] : x[2] \in {k} \cup met[k]
      BY <2>1 DEF JobInv, Late
    <3> QED BY <1>1, <2>1, <2>2, <3>1, <3>2, <3>3 DEF Late
  <2>6. Recomputed(k)'
    <3>1. ASSUME NEW m \in Months, Allocated(k, m),
                 NEW x \in table'["topics"][m] \ job[k].drop["topics"][m],
                 NEW y \in job[k].drop["effort"][m], y[2] = x[1]
          PROVE  <<k, x[1]>> \in job[k].made["effort"][m]
      <4>1. Ends(y[2])
        BY <2>1 DEF JobInv, SeenPast, Past, Tables
      <4>2. x[1] # j
        BY <1>4, <3>1, <4>1
      <4>3. x \in table["topics"][m]
        BY <1>2, <1>11, <4>2 DEF Tables
      <4> QED BY <2>1, <3>1, <4>3 DEF JobInv, Recomputed
    <3> QED BY <2>1, <2>2, <3>1 DEF Recomputed
  <2> QED BY <2>2, <2>4, <2>5, <2>6 DEF JobInv
<1>15. DuplicatesNeedOverlap'
  <2>1. ASSUME NEW t \in Tables, NEW m \in Months, NEW x \in table'[t][m], NEW y \in table'[t][m]
        PROVE  {x[2], y[1]} \subseteq {x[1]} \cup met[x[1]]
    <3>1. ASSUME NEW z \in table[t][m] \ job[j].drop[t][m], job[j].made[t][m] # {}
          PROVE  z[1] \in met[j] /\ j \in met[z[1]]
      <4>1. m \in job[j].months
        BY <1>6, <3>1
      <4>2. z[1] \in met[j] /\ z[1] \in Rebuilds
        BY <1>1, <1>5, <4>1, DropsType DEF JobInv, Late
      <4> QED BY <4>2 DEF Inv, Meetings
    <3>2. CASE x \in job[j].made[t][m]
      <4>1. x[1] = j /\ x[2] \in {j} \cup met[j]
        BY <1>11, <3>2
      <4>2. y \in job[j].made[t][m] \/ y \in table[t][m] \ job[j].drop[t][m]
        BY <1>2
      <4>3. y[1] \in {j} \cup met[j]
        BY <1>11, <3>1, <3>2, <4>2
      <4> QED BY <4>1, <4>3
    <3>3. CASE x \in table[t][m] \ job[j].drop[t][m]
      <4>1. y \in job[j].made[t][m] => y[1] \in met[x[1]]
        BY <1>11, <3>1, <3>3
      <4>2. y \in table[t][m] => y[1] \in {x[1]} \cup met[x[1]]
        BY <3>3 DEF Inv, DuplicatesNeedOverlap
      <4>3. x[2] \in {x[1]} \cup met[x[1]]
        BY <3>3 DEF Inv, DuplicatesNeedOverlap
      <4> QED BY <1>2, <4>1, <4>2, <4>3
    <3> QED BY <1>2, <3>2, <3>3
  <2> QED BY <1>1, <2>1 DEF DuplicatesNeedOverlap
<1>16. TopicsAreAllocated'
  <2>1. ASSUME NEW m \in Months, NEW x \in table'["topics"][m]
        PROVE  \E y \in table'["effort"][m] : y[2] = x[1]
    <3>1. /\ table'["topics"][m] = (table["topics"][m] \ job[j].drop["topics"][m])
                                      \cup job[j].made["topics"][m]
          /\ table'["effort"][m] = (table["effort"][m] \ job[j].drop["effort"][m])
                                      \cup job[j].made["effort"][m]
      BY <1>2 DEF Tables
    <3>2. CASE x \in job[j].made["topics"][m]
      <4>1. x = <<j, j>> /\ m \in job[j].months
        BY <1>6, <1>11, <3>2 DEF Tables
      <4>2. <<j, j>> \in job[j].made["effort"][m]
        BY <1>1, <1>5, <4>1 DEF Pending
      <4> QED BY <3>1, <4>1, <4>2
    <3>3. CASE x \in table["topics"][m] \ job[j].drop["topics"][m]
      <4>1. PICK y \in table["effort"][m] : y[2] = x[1]
        BY <3>3 DEF Inv, TopicsAreAllocated
      <4>2. CASE y \in job[j].drop["effort"][m]
        <5>1. m \in job[j].months
          BY <1>6, <4>2 DEF Tables
        <5>2. <<j, x[1]>> \in job[j].made["effort"][m]
          BY <1>1, <1>5, <3>3, <4>1, <4>2, <5>1 DEF JobInv, Recomputed
        <5> QED BY <3>1, <5>2
      <4> QED BY <3>1, <4>1, <4>2
    <3> QED BY <3>1, <3>2, <3>3
  <2> QED BY <2>1 DEF TopicsAreAllocated
<1> QED BY <1>8, <1>10, <1>12, <1>13, <1>14, <1>15, <1>16 DEF Inv

LEMMA CrashInv ==
  ASSUME Inv, Crash
  PROVE  Inv'
<1>1. TypeOK /\ UNCHANGED <<table, met>>
  BY DEF Inv, Crash
<1>2. ASSUME NEW k \in Rebuilds
      PROVE  IF Running(k)
               THEN /\ job'[k] \in Job /\ job'[k].at = "done" /\ job'[k].todo = {}
                    /\ job'[k].seen = {} /\ job'[k].drop = NoRows /\ job'[k].made = NoRows
               ELSE job'[k] = job[k]
  <2> DEFINE ended == Ended(k, job[k].committed)[k]
             after == [ended EXCEPT !.at = "done"]
  <2>1. job'[k] = IF Running(k) THEN after ELSE job[k]
    BY DEF Crash
  <2>2. /\ ended \in Job /\ ended.todo = {} /\ ended.seen = {}
        /\ ended.drop = NoRows /\ ended.made = NoRows
    <3> DEFINE next == IF job[k].caller \in Registers THEN "report" ELSE "done"
    <3>1. job[k] \in Job /\ job \in [Rebuilds -> Job]
      BY <1>1 DEF TypeOK
    <3>2. next \in {"report", "done"}
      OBVIOUS
    <3>3. ended = [job[k] EXCEPT !.at = next, !.table = "topics", !.todo = {}, !.seen = {},
                                 !.drop = NoRows, !.made = NoRows, !.committed = job[k].committed]
      BY <3>1 DEF Ended, Set
    <3> HIDE DEF next, ended
    <3> QED BY <3>1, <3>2, <3>3, NoRowsCells DEF Job, Tables
  <2> HIDE DEF ended
  <2>3. /\ after \in Job /\ after.at = "done" /\ after.todo = {} /\ after.seen = {}
        /\ after.drop = NoRows /\ after.made = NoRows
    BY <2>2 DEF Job
  <2> QED BY <2>1, <2>3
<1>3. job' \in [Rebuilds -> Job] /\ register' \in [Registers -> Statuses]
  <2>1. \A k \in Rebuilds : job'[k] \in Job
    BY <1>1, <1>2 DEF TypeOK
  <2>2. job' = [k \in Rebuilds |-> job'[k]]
    BY DEF Crash
  <2> QED BY <2>1, <2>2 DEF Crash, Statuses
<1>4. \A k \in Rebuilds : (Active(k)' => Active(k)) /\ (Ends(k) => Ends(k)')
                            /\ (job'[k].at = "idle" => job[k].at = "idle")
  BY <1>2 DEF Active, Ends, Running, InTransaction
<1>5. ASSUME NEW k \in Rebuilds PROVE JobInv(k)'
  <2>1. CASE Running(k)
    BY <1>2, <2>1, ClosedJobInv, NoRowsCells
  <2>2. CASE ~ Running(k)
    BY <1>1, <1>2, <1>4, <2>2, SameJobInv DEF Inv
  <2> QED BY <2>1, <2>2
<1>6. TypeOK'
  BY <1>1, <1>3 DEF TypeOK, Statuses
<1>7. Meetings'
  BY <1>1, <1>4 DEF Inv, Meetings
<1>8. CommittedPast'
  <2>1. \A t \in Tables, m \in Months : \A x \in table[t][m] : Ends(x[1])' /\ Ends(x[2])'
    BY <1>1, <1>4, TableType, PastStays DEF Inv, CommittedPast
  <2> QED BY <1>1, <2>1 DEF Inv, CommittedPast, Past
<1>9. DuplicatesNeedOverlap' /\ TopicsAreAllocated'
  BY <1>1 DEF Inv, DuplicatesNeedOverlap, TopicsAreAllocated
<1> QED BY <1>5, <1>6, <1>7, <1>8, <1>9 DEF Inv

-----------------------------------------------------------------------------
(* The theorems *)

LEMMA InitInv == Init => Inv
<1> SUFFICES ASSUME Init PROVE Inv
  OBVIOUS
<1>1. \A k \in Rebuilds : job[k] = NewJob /\ met[k] = {}
  BY DEF Init
<1>2. /\ NewJob.at = "idle" /\ NewJob.todo = {} /\ NewJob.months = {} /\ NewJob.seen = {}
      /\ NewJob.drop = NoRows /\ NewJob.made = NoRows /\ NewJob.table = "topics"
  BY DEF NewJob
<1>3. TypeOK
  BY NewJobType, NoRowsCells DEF Init, TypeOK
<1>4. ASSUME NEW k \in Rebuilds PROVE JobInv(k)
  <2>1. ~ Active(k)
    BY <1>1, <1>2 DEF Active, InTransaction
  <2>2. (\A t, m : ~ Cleared(k, t, m)) /\ (\A m : ~ Allocated(k, m))
    BY <2>1 DEF Cleared, Allocated
  <2>3. Shape(k)
    BY <1>1, <1>2 DEF Shape, Working, InTransaction
  <2>4. Pending(k)
    BY <1>1, <1>2, <2>2, NoRowsCells DEF Pending, Tables
  <2>5. SeenPast(k)
    BY <1>1, <1>2, NoRowsCells DEF SeenPast, Past
  <2>6. Late(k) /\ Recomputed(k)
    BY <1>1, <1>2, <2>2, NoRowsCells DEF Late, Recomputed
  <2> QED BY <2>3, <2>4, <2>5, <2>6 DEF JobInv
<1>5. Meetings
  BY <1>1, <1>2 DEF Meetings, Active, InTransaction
<1>6. table = NoRows
  BY DEF Init
<1>7. CommittedPast /\ DuplicatesNeedOverlap /\ TopicsAreAllocated
  BY <1>6, NoRowsCells DEF CommittedPast, Past, DuplicatesNeedOverlap, TopicsAreAllocated, Tables
<1> QED BY <1>3, <1>4, <1>5, <1>7 DEF Inv

LEMMA NextInv == Inv /\ [Next]_vars => Inv'
<1> SUFFICES ASSUME Inv, [Next]_vars PROVE Inv'
  OBVIOUS
<1>1. ASSUME NEW j \in Rebuilds, NEW caller \in Callers, RequestAll(j, caller)
      PROVE  Inv'
  <2>1. Begin(j, caller) /\ register' = [register EXCEPT ![caller] = "running"]
    BY <1>1 DEF RequestAll
  <2>2. register' \in [Registers -> Statuses]
    BY <2>1 DEF Inv, TypeOK, Statuses
  <2> QED BY <2>1, <2>2, BeginInv
<1>2. ASSUME NEW j \in Rebuilds, NEW caller \in Callers, RequestSome(j, caller)
      PROVE  Inv'
  BY <1>2, BeginInv DEF RequestSome, Inv, TypeOK, Statuses
<1>3. ASSUME NEW j \in Rebuilds, Step(j) PROVE Inv'
  BY <1>3, StartDeleteInv, EndDeleteInv, DeriveInv, AllocateInv, CommitInv, ReportInv DEF Step
<1>4. ASSUME NEW j \in Rebuilds, Fail(j) PROVE Inv'
  BY <1>4, FailInv
<1>5. CASE Crash
  BY <1>5, CrashInv
<1>6. CASE UNCHANGED vars
  <2>1. job' = job /\ table' = table /\ register' = register /\ met' = met
    BY <1>6 DEF vars
  <2>2. TypeOK' /\ (\A k \in Rebuilds : Ends(k)' <=> Ends(k))
    BY <2>1 DEF Inv, TypeOK, Ends
  <2>3. \A k \in Rebuilds : JobInv(k)'
    BY <2>1, <2>2, SameJobInv DEF Inv
  <2>4. Meetings' /\ DuplicatesNeedOverlap' /\ TopicsAreAllocated'
    BY <2>1 DEF Inv, Meetings, Active, DuplicatesNeedOverlap, TopicsAreAllocated
  <2>5. \A t \in Tables, m \in Months : \A x \in table[t][m] : Ends(x[1])' /\ Ends(x[2])'
    BY <2>2, TableType, PastStays DEF Inv, CommittedPast
  <2>6. CommittedPast'
    BY <2>1, <2>5 DEF Inv, CommittedPast, Past
  <2> QED BY <2>2, <2>3, <2>4, <2>6 DEF Inv
<1> QED BY <1>1, <1>2, <1>3, <1>4, <1>5, <1>6 DEF Next

LEMMA Invariance == Spec => []Inv
  BY InitInv, NextInv, PTL DEF Spec

(* Transactions, tables, registers and the history keep their types. *)
THEOREM AllocationTyped == Spec => []TypeOK
<1>1. Inv => TypeOK
  BY DEF Inv
<1> QED BY <1>1, Invariance, PTL

(* Monthly effort is counted twice only by rebuilds that were open together. *)
THEOREM DuplicatesOverlapped == Spec => []DuplicatesNeedOverlap
<1>1. Inv => DuplicatesNeedOverlap
  BY DEF Inv
<1> QED BY <1>1, Invariance, PTL

(* However rebuilds overlap, fail or die, no committed topic row is without effort. *)
THEOREM EffortIsComplete == Spec => []TopicsAreAllocated
<1>1. Inv => TopicsAreAllocated
  BY DEF Inv
<1> QED BY <1>1, Invariance, PTL

(* No commit ever makes a month empty that had rows. *)
THEOREM MonthsNeverEmptied == Spec => MonthsStay
<1>1. ASSUME Inv, [Next]_vars, NEW t \in Tables, NEW m \in Months, table[t][m] # {}
      PROVE  table'[t][m] # {}
  <2>1. ASSUME NEW j \in Rebuilds, Commit(j) PROVE table'[t][m] # {}
    <3>1. Shape(j) /\ Pending(j) /\ job[j].at = "commit"
      BY <1>1, <2>1 DEF Inv, JobInv, Commit
    <3>2. table'[t][m] = (table[t][m] \ job[j].drop[t][m]) \cup job[j].made[t][m]
      BY <2>1 DEF Commit, Visible
    <3>3. CASE Cleared(j, t, m)
      <4>1. Allocated(j, m)
        BY <3>1, <3>3 DEF Cleared, Allocated, Shape
      <4>2. <<j, j>> \in job[j].made[t][m]
        BY <3>1, <4>1 DEF Pending, Tables
      <4> QED BY <3>2, <4>2
    <3>4. CASE ~ Cleared(j, t, m)
      BY <1>1, <3>1, <3>2, <3>4 DEF Pending
    <3> QED BY <3>3, <3>4
  <2>2. (\E j \in Rebuilds : Commit(j)) \/ table' = table
    BY <1>1, Zenon DEF Next, Step, vars, RequestAll, RequestSome, Begin, StartDelete, EndDelete,
       Derive, Allocate, Fail, Report, Crash
  <2> QED BY <1>1, <2>1, <2>2
<1>2. Inv /\ [Next]_vars =>
        [\A t \in Tables, m \in Months : table[t][m] # {} => table'[t][m] # {}]_vars
  BY <1>1
<1> QED BY <1>2, Invariance, PTL DEF Spec, MonthsStay

-----------------------------------------------------------------------------
(* The registers as locks *)

AtWork(j, c) == Running(j) /\ job[j].caller = c

(* Of a step of one rebuild only its own part in the registers is left to prove. *)
LEMMA LockKept ==
  ASSUME TypeOK, RegisterIsLock, NEW j \in Rebuilds, Others(j),
         register' = register, \A c \in Registers : AtWork(j, c)' <=> AtWork(j, c)
  PROVE  RegisterIsLock'
<1>1. \A k \in Rebuilds, c \in Registers : AtWork(k, c)' <=> AtWork(k, c)
  BY DEF Others, AtWork, Running
<1> QED BY <1>1 DEF RegisterIsLock, AtWork

LEMMA LockNext == Inv /\ RegisterIsLock /\ [Next]_vars => RegisterIsLock'
<1> SUFFICES ASSUME Inv, RegisterIsLock, [Next]_vars PROVE RegisterIsLock'
  OBVIOUS
<1>1. TypeOK /\ \A j \in Rebuilds : Shape(j)
  BY DEF Inv, JobInv
<1>2. ASSUME NEW j \in Rebuilds, NEW caller \in Callers, RequestAll(j, caller)
      PROVE  RegisterIsLock'
  <2>1. /\ Begin(j, caller) /\ caller \in Registers /\ register[caller] # "running"
        /\ register' = [register EXCEPT ![caller] = "running"]
    BY <1>2 DEF RequestAll
  <2>2. Others(j) /\ job[j].at = "idle" /\ job'[j].at = "delete" /\ job'[j].caller = caller
    BY <1>1, <2>1, BeginEffect
  <2>3. AtWork(j, caller)' /\ \A c \in Registers : AtWork(j, c)' => c = caller
    BY <2>2 DEF AtWork, Running, InTransaction
  <2>4. \A k \in Rebuilds : k # j => \A c \in Registers : AtWork(k, c)' <=> AtWork(k, c)
    BY <2>2 DEF Others, AtWork, Running
  <2>5. \A c \in Registers : ~ AtWork(j, c)
    BY <2>2 DEF AtWork, Running, InTransaction
  <2>6. \A k \in Rebuilds : ~ AtWork(k, caller)
    BY <2>1 DEF RegisterIsLock, AtWork
  <2>7. \A c \in Registers : register'[c] = IF c = caller THEN "running" ELSE register[c]
    BY <1>1, <2>1 DEF TypeOK
  <2>8. \A c \in Registers : register[c] = "running" <=> \E k \in Rebuilds : AtWork(k, c)
    BY DEF RegisterIsLock, AtWork
  <2>9. \A c \in Registers, k, l \in Rebuilds : AtWork(k, c) /\ AtWork(l, c) => k = l
    BY DEF RegisterIsLock, AtWork
  <2>10. \A c \in Registers : register'[c] = "running" <=> \E k \in Rebuilds : AtWork(k, c)'
    BY <2>3, <2>4, <2>5, <2>7, <2>8
  <2>11. \A c \in Registers, k, l \in Rebuilds : AtWork(k, c)' /\ AtWork(l, c)' => k = l
    BY <2>3, <2>4, <2>6, <2>9
  <2> QED BY <2>10, <2>11 DEF RegisterIsLock, AtWork
<1>3. ASSUME NEW j \in Rebuilds, NEW caller \in Callers, RequestSome(j, caller)
      PROVE  RegisterIsLock'
  <2>1. Begin(j, caller) /\ caller \notin Registers /\ register' = register
    BY <1>3 DEF RequestSome
  <2>2. Others(j) /\ job[j].at = "idle" /\ job'[j].at = "delete" /\ job'[j].caller = caller
    BY <1>1, <2>1, BeginEffect
  <2>3. \A c \in Registers : AtWork(j, c)' <=> AtWork(j, c)
    BY <2>1, <2>2 DEF AtWork, Running, InTransaction
  <2> QED BY <1>1, <2>1, <2>2, <2>3, LockKept
<1>4. ASSUME NEW j \in Rebuilds, Others(j), Kept(j), register' = register,
             job[j].at \in InTransaction,
             \/ job'[j].at \in InTransaction
             \/ job'[j].at = IF job[j].caller \in Registers THEN "report" ELSE "done"
      PROVE  RegisterIsLock'
  <2>1. \A c \in Registers : AtWork(j, c)' <=> AtWork(j, c)
    BY <1>4 DEF AtWork, Running, Kept, InTransaction
  <2> QED BY <1>1, <1>4, <2>1, LockKept
<1>5. ASSUME NEW j \in Rebuilds, StartDelete(j) PROVE RegisterIsLock'
  BY <1>1, <1>4, <1>5, StartDeleteEffect DEF StartDelete, InTransaction
<1>6. ASSUME NEW j \in Rebuilds, EndDelete(j) PROVE RegisterIsLock'
  BY <1>1, <1>4, <1>6, EndDeleteEffect DEF EndDelete, InTransaction
<1>7. ASSUME NEW j \in Rebuilds, Derive(j) PROVE RegisterIsLock'
  BY <1>1, <1>4, <1>7, DeriveEffect DEF Derive, InTransaction
<1>8. ASSUME NEW j \in Rebuilds, Allocate(j) PROVE RegisterIsLock'
  BY <1>1, <1>4, <1>8, AllocateEffect DEF Allocate, InTransaction
<1>9. ASSUME NEW j \in Rebuilds, Commit(j) PROVE RegisterIsLock'
  BY <1>1, <1>4, <1>9, EndedEffect DEF Commit, InTransaction
<1>10. ASSUME NEW j \in Rebuilds, Fail(j) PROVE RegisterIsLock'
  BY <1>1, <1>4, <1>10, EndedEffect DEF Fail, Active
<1>11. ASSUME NEW j \in Rebuilds, Report(j) PROVE RegisterIsLock'
  <2> DEFINE caller == job[j].caller
  <2>1. Others(j) /\ job[j].at = "report" /\ job'[j].at = "done"
    BY <1>1, <1>11, ReportEffect
  <2>2. AtWork(j, caller) /\ \A c \in Registers : ~ AtWork(j, c)'
    BY <2>1 DEF AtWork, Running, InTransaction
  <2>3. \A k \in Rebuilds : k # j => \A c \in Registers : AtWork(k, c)' <=> AtWork(k, c)
    BY <2>1 DEF Others, AtWork, Running
  <2>4. \A c \in Registers : c # caller => ~ AtWork(j, c)
    BY DEF AtWork
  <2>5. \A c \in Registers : IF c = caller THEN register'[c] # "running"
                                           ELSE register'[c] = register[c]
    BY <1>1, <1>11 DEF TypeOK, Report
  <2>6. \A c \in Registers : register[c] = "running" <=> \E k \in Rebuilds : AtWork(k, c)
    BY DEF RegisterIsLock, AtWork
  <2>7. \A c \in Registers, k, l \in Rebuilds : AtWork(k, c) /\ AtWork(l, c) => k = l
    BY DEF RegisterIsLock, AtWork
  <2> HIDE DEF caller
  <2>8. \A c \in Registers : register'[c] = "running" <=> \E k \in Rebuilds : AtWork(k, c)'
    BY <2>2, <2>3, <2>4, <2>5, <2>6, <2>7
  <2>9. \A c \in Registers, k, l \in Rebuilds : AtWork(k, c)' /\ AtWork(l, c)' => k = l
    BY <2>2, <2>3, <2>7
  <2> QED BY <2>8, <2>9 DEF RegisterIsLock, AtWork
<1>12. CASE Crash
  <2>1. \A k \in Rebuilds : ~ Running(k)'
    <3>1. ASSUME NEW k \in Rebuilds PROVE ~ Running(k)'
      <4>1. CASE Running(k)
        <5>1. job'[k] = [Ended(k, job[k].committed)[k] EXCEPT !.at = "done"]
          BY <1>12, <4>1 DEF Crash
        <5>2. Ended(k, job[k].committed)[k] = [job[k] EXCEPT
                 !.at = IF job[k].caller \in Registers THEN "report" ELSE "done",
                 !.table = "topics", !.todo = {}, !.seen = {}, !.drop = NoRows,
                 !.made = NoRows, !.committed = job[k].committed]
          BY <1>1 DEF Ended, Set, TypeOK
        <5> DEFINE ended == Ended(k, job[k].committed)[k]
        <5>3. "at" \in DOMAIN ended
          BY <1>1, <5>2 DEF TypeOK, Job
        <5> HIDE DEF ended
        <5>4. job'[k].at = "done"
          BY <5>1, <5>3 DEF ended
        <5> QED BY <5>4 DEF Running, InTransaction
      <4>2. CASE ~ Running(k)
        BY <1>12, <4>2 DEF Crash, Running
      <4> QED BY <4>1, <4>2
    <3> QED BY <3>1
  <2>2. \A c \in Registers : register'[c] = "idle"
    BY <1>12 DEF Crash
  <2> QED BY <2>1, <2>2 DEF RegisterIsLock
<1>13. CASE UNCHANGED vars
  BY <1>13 DEF vars, RegisterIsLock, Running
<1> QED
  BY <1>2, <1>3, <1>5, <1>6, <1>7, <1>8, <1>9, <1>10, <1>11, <1>12, <1>13 DEF Next, Step

(* Each register says running exactly while one rebuild works for it. *)
THEOREM RegistersLock == Spec => []RegisterIsLock
<1>1. Init => RegisterIsLock
  BY DEF Init, RegisterIsLock, Running, NewJob, InTransaction
<1> QED BY <1>1, LockNext, Invariance, PTL DEF Spec

-----------------------------------------------------------------------------
(* How a step changes the caller and the months of a rebuild *)

Begun(k) == \E caller \in Callers : Begin(k, caller)

Moved(k) ==
    /\ Kept(k)
    /\ job'[k].todo \in {job[k].todo, {}, job[k].todo \ {Month(k)}}
    /\ job'[k].at = "idle" => job[k].at = "idle"

LEMMA BegunOrMoved ==
  ASSUME Inv, [Next]_vars, NEW k \in Rebuilds
  PROVE  Begun(k) \/ Moved(k)
<1>1. TypeOK /\ \A j \in Rebuilds : Shape(j)
  BY DEF Inv, JobInv
<1>2. ASSUME NEW j \in Rebuilds, NEW caller \in Callers, Begin(j, caller)
      PROVE  Begun(k) \/ Moved(k)
  <2>1. CASE j = k
    BY <1>2, <2>1 DEF Begun
  <2>2. CASE j # k
    <3>1. job'[k] = job[k]
      BY <1>1, <1>2, <2>2, BeginEffect DEF Others
    <3> QED BY <3>1 DEF Moved, Kept
  <2> QED BY <2>1, <2>2
<1>3. ASSUME NEW j \in Rebuilds, Others(j), Moved(j) PROVE Moved(k)
  BY <1>3 DEF Others, Moved, Kept
<1>4. ASSUME NEW j \in Rebuilds, StartDelete(j) PROVE Moved(k)
  <2>1. Others(j) /\ Moved(j)
    BY <1>1, <1>4, StartDeleteEffect DEF Moved
  <2> QED BY <1>3, <2>1
<1>5. ASSUME NEW j \in Rebuilds, EndDelete(j) PROVE Moved(k)
  <2>1. Others(j) /\ Moved(j)
    BY <1>1, <1>5, EndDeleteEffect DEF Moved
  <2> QED BY <1>3, <2>1
<1>6. ASSUME NEW j \in Rebuilds, Derive(j) PROVE Moved(k)
  <2>1. Others(j) /\ Moved(j)
    BY <1>1, <1>6, DeriveEffect DEF Moved
  <2> QED BY <1>3, <2>1
<1>7. ASSUME NEW j \in Rebuilds, Allocate(j) PROVE Moved(k)
  <2>1. Others(j) /\ Moved(j)
    BY <1>1, <1>7, AllocateEffect DEF Moved
  <2> QED BY <1>3, <2>1
<1>8. ASSUME NEW j \in Rebuilds, NEW committed \in BOOLEAN, job' = Ended(j, committed)
      PROVE  Moved(k)
  <2>1. Others(j) /\ Moved(j)
    BY <1>1, <1>8, EndedEffect DEF Moved
  <2> QED BY <1>3, <2>1
<1>9. ASSUME NEW j \in Rebuilds, Report(j) PROVE Moved(k)
  <2>1. Others(j) /\ Moved(j)
    BY <1>1, <1>9, ReportEffect DEF Moved
  <2> QED BY <1>3, <2>1
<1>10. CASE Crash
  <2> DEFINE ended == Ended(k, job[k].committed)[k]
  <2>1. job'[k] = IF Running(k) THEN [ended EXCEPT !.at = "done"] ELSE job[k]
    BY <1>10 DEF Crash
  <2>2. CASE Running(k)
    <3> DEFINE next == IF job[k].caller \in Registers THEN "report" ELSE "done"
    <3>1. job[k] \in Job /\ job \in [Rebuilds -> Job]
      BY <1>1 DEF TypeOK
    <3>2. ended = [job[k] EXCEPT !.at = next, !.table = "topics", !.todo = {}, !.seen = {},
                                 !.drop = NoRows, !.made = NoRows, !.committed = job[k].committed]
      BY <3>1 DEF Ended, Set
    <3> HIDE DEF next, ended
    <3>3. /\ ended.caller = job[k].caller /\ ended.months = job[k].months /\ ended.todo = {}
          /\ "at" \in DOMAIN ended
      BY <3>1, <3>2 DEF Job
    <3>4. job'[k] = [ended EXCEPT !.at = "done"]
      BY <2>1, <2>2 DEF ended
    <3> QED BY <3>3, <3>4 DEF Moved, Kept
  <2>3. CASE ~ Running(k)
    BY <2>1, <2>3 DEF Moved, Kept
  <2> QED BY <2>2, <2>3
<1>11. CASE UNCHANGED vars
  BY <1>11 DEF vars, Moved, Kept
<1> QED
  BY <1>2, <1>4, <1>5, <1>6, <1>7, <1>8, <1>9, <1>10, <1>11
     DEF Next, Step, RequestAll, RequestSome, Commit, Fail

-----------------------------------------------------------------------------
(* Rebuilds that go through one register *)

Only(c) == \A j \in Rebuilds : job[j].caller \in {c, "none"}

IdleCallers == \A j \in Rebuilds : job[j].at = "idle" => job[j].caller = "none"

NeverMet == \A c \in Registers : Only(c) => \A j \in Rebuilds : met[j] = {}

LEMMA IdleCallersNext == Inv /\ IdleCallers /\ [Next]_vars => IdleCallers'
<1> SUFFICES ASSUME Inv, IdleCallers, [Next]_vars, NEW k \in Rebuilds, job'[k].at = "idle"
             PROVE  job'[k].caller = "none"
  BY DEF IdleCallers
<1>1. CASE Moved(k)
  BY <1>1 DEF Moved, Kept, IdleCallers
<1>2. CASE Begun(k)
  BY <1>2, BeginEffect DEF Begun, Inv
<1> QED BY <1>1, <1>2, BegunOrMoved

LEMMA NeverMetNext ==
  Inv /\ RegisterIsLock /\ IdleCallers /\ NeverMet /\ [Next]_vars => NeverMet'
<1> SUFFICES ASSUME Inv, RegisterIsLock, IdleCallers, NeverMet, [Next]_vars,
                    NEW c \in Registers, Only(c)'
             PROVE  \A j \in Rebuilds : met'[j] = {}
  BY DEF NeverMet
<1>1. Only(c)
  <2>1. ASSUME NEW k \in Rebuilds PROVE job[k].caller \in {c, "none"}
    <3>1. CASE Moved(k)
      BY <3>1 DEF Moved, Kept, Only
    <3>2. CASE Begun(k)
      BY <3>2 DEF Begun, Begin, IdleCallers
    <3> QED BY <3>1, <3>2, BegunOrMoved
  <2> QED BY <2>1 DEF Only
<1>2. \A j \in Rebuilds : met[j] = {}
  BY <1>1 DEF NeverMet
<1>3. "none" \notin Callers /\ "none" \notin Registers
  BY CallersAssumption DEF Registers
<1>4. ASSUME NEW j \in Rebuilds, NEW caller \in Callers, Begin(j, caller)
      PROVE  caller = c
  <2>1. job'[j].caller = caller
    BY <1>4, BeginEffect DEF Inv
  <2> QED BY <1>3, <2>1 DEF Only
<1>5. ASSUME NEW j \in Rebuilds, NEW caller \in Callers, RequestAll(j, caller)
      PROVE  \A k \in Rebuilds : met'[k] = {}
  <2>1. Begin(j, caller) /\ register[c] # "running"
    BY <1>4, <1>5 DEF RequestAll
  <2>2. \A k \in Rebuilds : Active(k) => Running(k) /\ job[k].caller = c
    BY <1>1, <1>3 DEF Inv, JobInv, Shape, Active, Running, Only
  <2>3. \A k \in Rebuilds : ~ Active(k)
    BY <2>1, <2>2 DEF RegisterIsLock
  <2> QED BY <1>2, <2>1, <2>3 DEF Begin
<1>6. ASSUME NEW j \in Rebuilds, NEW caller \in Callers, RequestSome(j, caller)
      PROVE  FALSE
  BY <1>4, <1>6 DEF RequestSome
<1>7. (\E j \in Rebuilds, caller \in Callers : RequestAll(j, caller)) \/ met' = met
  BY <1>6, Zenon DEF Next, Step, vars, StartDelete, EndDelete, Derive, Allocate, Commit,
                     Fail, Report, Crash
<1> QED BY <1>2, <1>5, <1>7

LEMMA NeverMetOneBatch == Inv /\ NeverMet => OneBatch
<1> SUFFICES ASSUME Inv, NeverMet, OneCaller, NEW m \in Months
             PROVE  \E j \in Rebuilds : \A t \in Tables : table[t][m] \in {{}, {<<j, j>>}}
  BY DEF OneBatch
<1>0. \A j \in Rebuilds : met[j] = {}
  BY DEF NeverMet, OneCaller, Only
<1>1. ASSUME NEW t \in Tables, NEW x \in table[t][m]
      PROVE  x[1] \in Rebuilds /\ table[t][m] = {<<x[1], x[1]>>}
  <2>1. table[t][m] \in SUBSET (Rebuilds \X Rebuilds)
    BY TableType DEF Inv
  <2>2. \A y, z \in table[t][m] : z[2] = z[1] /\ y[1] = z[1]
    BY <1>0, <2>1 DEF Inv, DuplicatesNeedOverlap
  <2>3. \A y \in table[t][m] : y = <<x[1], x[1]>>
    BY <1>1, <2>1, <2>2
  <2> QED BY <1>1, <2>1, <2>3
<1>2. CASE \E x \in table["topics"][m] : TRUE
  <2>1. PICK x \in table["topics"][m] : TRUE
    BY <1>2
  <2>2. PICK y \in table["effort"][m] : y[2] = x[1]
    BY DEF Inv, TopicsAreAllocated
  <2>3. table["topics"][m] = {<<x[1], x[1]>>} /\ x[1] \in Rebuilds
    BY <1>1 DEF Tables
  <2>4. table["effort"][m] = {<<y[1], y[1]>>}
    BY <1>1 DEF Tables
  <2>5. y[1] = x[1]
    BY <2>2, <2>4
  <2> QED BY <2>3, <2>4, <2>5 DEF Tables
<1>3. CASE table["topics"][m] = {} /\ \E y \in table["effort"][m] : TRUE
  <2>1. PICK y \in table["effort"][m] : TRUE
    BY <1>3
  <2>2. table["effort"][m] = {<<y[1], y[1]>>} /\ y[1] \in Rebuilds
    BY <1>1 DEF Tables
  <2> QED BY <1>3, <2>2 DEF Tables
<1>4. CASE table["topics"][m] = {} /\ table["effort"][m] = {}
  BY <1>4, RebuildsAssumption DEF Tables
<1> QED BY <1>2, <1>3, <1>4

(* As long as all rebuilds go through one register, the rows of a month are those of
   one rebuild. *)
THEOREM OneRegisterOneBatch == Spec => []OneBatch
<1>1. Init => NeverMet /\ IdleCallers
  BY DEF Init, NeverMet, IdleCallers, NewJob
<1> QED
  BY <1>1, IdleCallersNext, NeverMetNext, NeverMetOneBatch, RegistersLock, Invariance, PTL
     DEF Spec

-----------------------------------------------------------------------------
(* Circles of waits *)

(* The months of a rebuild that are done come before those that are left. *)
Ordered(k) == \A m \in job[k].months \ job[k].todo, n \in job[k].todo : m < n

LEMMA OrderedNext ==
  Inv /\ (\A k \in Rebuilds : Ordered(k)) /\ [Next]_vars => \A k \in Rebuilds : Ordered(k)'
<1> SUFFICES ASSUME Inv, \A k \in Rebuilds : Ordered(k), [Next]_vars, NEW k \in Rebuilds
             PROVE  Ordered(k)'
  OBVIOUS
<1>1. CASE Begun(k)
  BY <1>1, BeginEffect DEF Begun, Inv, Ordered
<1>2. CASE Moved(k)
  <2>1. job[k].todo \in SUBSET Nat /\ job[k].months \in SUBSET Nat
    BY MonthsAssumption DEF Inv, TypeOK, Job
  <2>2. CASE job'[k].todo = job[k].todo \ {Month(k)} /\ job[k].todo # {}
    <3>2. (\A n \in job[k].todo : Month(k) =< n) /\ Month(k) \in Nat
      BY <2>1, <2>2, MonthInTodo DEF Inv
    <3>3. ASSUME NEW m \in job'[k].months \ job'[k].todo, NEW n \in job'[k].todo PROVE m < n
      <4>1. n \in job[k].todo /\ n # Month(k) /\ m \in job[k].months
        BY <1>2, <2>2 DEF Moved, Kept
      <4>2. CASE m = Month(k)
        BY <2>1, <3>2, <4>1, <4>2
      <4>3. CASE m # Month(k)
        BY <2>2, <4>1, <4>3 DEF Ordered
      <4> QED BY <4>2, <4>3
    <3> QED BY <3>3 DEF Ordered
  <2>3. CASE job'[k].todo = job[k].todo
    BY <1>2, <2>3 DEF Moved, Kept, Ordered
  <2>4. CASE job'[k].todo = {}
    BY <2>4 DEF Ordered
  <2> QED BY <1>2, <2>2, <2>3, <2>4 DEF Moved
<1> QED BY <1>1, <1>2, BegunOrMoved

(* Who is waited for is further on: in a later month, or in the second table. *)
LEMMA WaitsForLater ==
  ASSUME Inv, \A k \in Rebuilds : Ordered(k), NEW j \in Rebuilds, NEW k \in Rebuilds,
         WaitsFor(j, k), job[k].at = "wait"
  PROVE  \/ Month(j) < Month(k)
         \/ Month(j) = Month(k) /\ job[j].table = "topics" /\ job[k].table = "effort"
<1>1. /\ Month(j) \in Months /\ job[j].table \in Tables
      /\ Month(k) \in job[k].todo
  BY MonthInTodo DEF Inv, JobInv, Shape, Working, WaitsFor, TypeOK, Job
<1>2. job[k].drop[job[j].table][Month(j)] # {}
  BY DEF WaitsFor
<1>3. Cleared(k, job[j].table, Month(j))
  <2>1. Pending(k)
    BY DEF Inv, JobInv
  <2> QED BY <1>1, <1>2, <2>1 DEF Pending
<1>4. CASE Month(j) \notin job[k].todo
  BY <1>1, <1>3, <1>4 DEF Cleared, Ordered
<1>5. CASE Month(j) = Month(k) /\ job[k].table = "effort" /\ job[j].table = "topics"
  BY <1>5
<1> QED BY <1>3, <1>4, <1>5 DEF Cleared

LEMMA OrderedNoCircle == Inv /\ (\A k \in Rebuilds : Ordered(k)) => NoCircle
<1> SUFFICES ASSUME Inv, \A k \in Rebuilds : Ordered(k), NEW S \in SUBSET Rebuilds, S # {},
                    \A j \in S : \E k \in S : WaitsFor(j, k)
             PROVE  FALSE
  BY DEF NoCircle
<1> DEFINE Later(j) == {m \in Months : m > Month(j)}
           lists == {Later(j) : j \in S}
<1>1. \A j \in S : job[j].at = "wait" /\ Month(j) \in Months /\ Month(j) \in Nat
  BY MonthInTodo, MonthsAssumption DEF WaitsFor, Inv, JobInv, Shape, Working
<1>2. lists \subseteq FiniteSubsetsOf(Months) /\ lists # {}
  <2>1. ASSUME NEW j \in S PROVE IsFiniteSet(Later(j)) /\ Later(j) \in SUBSET Months
    BY MonthsAssumption, FS_Subset
  <2> QED BY <2>1 DEF FiniteSubsetsOf
<1>3. IsWellFoundedOn(StrictSubsetOrdering(Months), FiniteSubsetsOf(Months))
  BY FS_StrictSubsetOrderingWellFounded
<1>4. PICK low \in lists : \A s \in lists : <<s, low>> \notin StrictSubsetOrdering(Months)
  <2> HIDE DEF lists
  <2> QED BY <1>2, <1>3, WFMin, Zenon
<1>5. PICK j \in S : low = Later(j)
  BY <1>4
<1>6. ASSUME NEW k \in S PROVE ~ (Month(j) < Month(k))
  <2>1. SUFFICES ASSUME Month(j) < Month(k) PROVE FALSE
    OBVIOUS
  <2>2. Later(k) \subseteq Later(j)
    <3>1. Month(j) \in Nat /\ Month(k) \in Nat
      BY <1>1
    <3>2. \A m \in Nat : m > Month(k) => m > Month(j)
      BY <2>1, <3>1
    <3> QED BY <3>2, MonthsAssumption
  <2>3. Month(k) \in Later(j) /\ Month(k) \notin Later(k)
    BY <1>1, <2>1
  <2>4. Later(j) \in SUBSET Months /\ Later(k) \in SUBSET Months
    OBVIOUS
  <2> HIDE DEF Later
  <2>5. <<Later(k), Later(j)>> \in StrictSubsetOrdering(Months)
    BY <2>2, <2>3, <2>4 DEF StrictSubsetOrdering
  <2> QED BY <1>4, <1>5, <2>5
<1>7. PICK k \in S : WaitsFor(j, k)
  OBVIOUS
<1>8. Month(j) = Month(k) /\ job[k].table = "effort"
  BY <1>1, <1>6, <1>7, WaitsForLater
<1>9. PICK l \in S : WaitsFor(k, l)
  OBVIOUS
<1>10. Month(k) < Month(l)
  BY <1>1, <1>8, <1>9, WaitsForLater
<1> QED BY <1>6, <1>8, <1>10

(* No set of rebuilds ever waits in a circle, whoever called them for which months. *)
THEOREM NoCircleOfWaits == Spec => []NoCircle
<1>1. Init => \A k \in Rebuilds : Ordered(k)
  BY DEF Init, Ordered, NewJob
<1>2. (\A k \in Rebuilds : Ordered(k)) /\ Inv /\ [Next]_vars => (\A k \in Rebuilds : Ordered(k))'
  BY OrderedNext
<1> QED BY <1>1, <1>2, OrderedNoCircle, Invariance, PTL DEF Spec

-----------------------------------------------------------------------------
(* The effort of a month and the reports on it *)

CONSTANTS Persons, MonthOf, FirstDay, Work, Issue, Excluded, Direct, Rule, Histories, Clocks, None, MaxEdits,
          Produced, CapacityTeams, ReportTeams, HighEffort, ManyPeople, Started, RecentBug, Recent, Unknown
VARIABLES worklogs, assigned, excluded, clocked, topics, effort, fresh, edits

Reports == INSTANCE EffortReports

Days == DOMAIN MonthOf
Percentages == 0..100

CalendarKnown ==
    /\ Days \subseteq Nat /\ IsFiniteSet(Days)
    /\ \A d \in Days : MonthOf[d] \in Months /\ FirstDay[MonthOf[d]] =< d
    /\ \A c, d \in Days : c =< d => MonthOf[c] =< MonthOf[d]
    /\ \A m \in Months : FirstDay[m] \in Days /\ MonthOf[FirstDay[m]] = m

WorkKnown ==
    /\ IsFiniteSet(Persons) /\ IsFiniteSet(Work)
    /\ \A w \in Work : /\ w.person \in Persons \cup {None} /\ w.day \in Days /\ w.issue \in DOMAIN Issue
                       /\ w.seconds \in Nat /\ w.id # None
    /\ \A v, w \in Work : v.id = w.id => v = w

(* A role either produces or has its hours divided, and percentages are whole. *)
RolesKnown ==
    /\ None \notin Direct /\ None \notin DOMAIN Rule /\ None \notin Percentages
    /\ \A r \in DOMAIN Rule : Rule[r].overhead \in Percentages /\ (Rule[r].indirect => r \notin Direct)

(* Of the assignments of a person no two begin on one day, and they are in order. *)
HistoriesKnown ==
    /\ IsFiniteSet(Histories)
    /\ \A h \in Histories :
         /\ DOMAIN h \subseteq Nat /\ IsFiniteSet(DOMAIN h) /\ (h # <<>> => 1 \in DOMAIN h)
         /\ \A n \in DOMAIN h : h[n] # None /\ h[n].percentage \in Percentages \cup {None} /\ h[n].from \in Nat
         /\ \A m, n \in DOMAIN h : m < n => h[m].from < h[n].from

ClocksKnown ==
    /\ None \notin Clocks
    /\ \A c \in Clocks : c.planned \in Nat /\ c.clocked \in Nat

ReportsKnown == IsFiniteSet(DOMAIN Issue) /\ IsFiniteSet(Produced) /\ IsFiniteSet(CapacityTeams) /\ Unknown # None

Known ==
    /\ CalendarKnown /\ WorkKnown /\ RolesKnown /\ HistoriesKnown /\ ClocksKnown /\ ReportsKnown
    /\ MaxEdits \in Nat

TopicOK(t) ==
    /\ t.month \in Months /\ t.person \in Persons /\ t.issue \in DOMAIN Issue
    /\ t.topic = Reports!ClassifyTopicType(Issue[t.issue]) /\ t.team = Issue[t.issue].team
    /\ t.seconds \in Nat
EffortOK(e) ==
    /\ e.month \in Months /\ e.person \in Persons /\ e.hours \in Nat
    /\ \/ /\ e.kind \in {"direct_worklog", "indirect_allocated"} /\ e.issue \in DOMAIN Issue
          /\ e.topic = Reports!ClassifyTopicType(Issue[e.issue]) /\ e.team = Issue[e.issue].team
       \/ e.kind = "shared_overhead" /\ e.topic = "shared_overhead" /\ e.issue = None

InputsTyped ==
    /\ worklogs \subseteq Work /\ excluded \subseteq Persons
    /\ assigned \in [Persons -> Histories \cup {<<>>}]
    /\ clocked \in [Persons -> [Months -> Clocks \cup {None}]]
TablesTyped ==
    /\ IsFiniteSet(topics) /\ \A t \in topics : TopicOK(t)
    /\ IsFiniteSet(effort) /\ \A e \in effort : EffortOK(e)
    /\ fresh \subseteq Months /\ edits \in 0..MaxEdits

TopicsOf(m) == {t \in topics : t.month = m}
EffortOf(m) == {e \in effort : e.month = m}

(* A month that is fresh has what a rebuild would write now. *)
FreshIsRebuilt ==
    \A m \in fresh : /\ TopicsOf(m) = Reports!RefreshTopicBase(m)
                     /\ EffortOf(m) = Reports!AllocatePeriod(m, Reports!RefreshTopicBase(m))

EffortInv == InputsTyped /\ TablesTyped /\ FreshIsRebuilt

-----------------------------------------------------------------------------
LEMMA SumOfAll ==
  ASSUME NEW f
  PROVE  Reports!SumFunction(f) = SumFunctionOnSet(f, DOMAIN f)
  BY DEF Reports!SumFunction, Reports!SumFunctionOnSet, Reports!FoldFunctionOnSet, Reports!MapThenFoldSet,
         SumFunctionOnSet, FoldFunctionOnSet, MapThenFoldSet

(* The sums of a report are sums of any function with the values summed. *)
LEMMA SecondsSummed ==
  ASSUME NEW rows, IsFiniteSet(rows), NEW f, \A t \in rows : f[t] = t.seconds
  PROVE  Reports!Seconds(rows) = SumFunctionOnSet(f, rows)
<1> DEFINE g == [t \in rows |-> t.seconds]
<1>1. Reports!Seconds(rows) = SumFunctionOnSet(g, DOMAIN g)
  BY SumOfAll DEF Reports!Seconds
<1>2. DOMAIN g = rows /\ \A t \in rows : g[t] = f[t]
  OBVIOUS
<1> HIDE DEF g
<1>3. SumFunctionOnSet(g, rows) = SumFunctionOnSet(f, rows)
  BY <1>2, SumSame
<1> QED BY <1>1, <1>2, <1>3

LEMMA HoursSummed ==
  ASSUME NEW rows, IsFiniteSet(rows), NEW f, \A e \in rows : f[e] = e.hours
  PROVE  Reports!Hours(rows) = SumFunctionOnSet(f, rows)
<1> DEFINE g == [e \in rows |-> e.hours]
<1>1. Reports!Hours(rows) = SumFunctionOnSet(g, DOMAIN g)
  BY SumOfAll DEF Reports!Hours
<1>2. DOMAIN g = rows /\ \A e \in rows : g[e] = f[e]
  OBVIOUS
<1> HIDE DEF g
<1>3. SumFunctionOnSet(g, rows) = SumFunctionOnSet(f, rows)
  BY <1>2, SumSame
<1> QED BY <1>1, <1>2, <1>3

LEMMA Divides ==
  ASSUME NEW a \in Nat, NEW b \in Nat, b > 0
  PROVE  a \div b \in Nat /\ b * (a \div b) =< a /\ a < b * (a \div b) + b
<1>1. a \div b \in Nat
  OBVIOUS
<1>2. b * (a \div b) =< a
  OBVIOUS
<1>3. a < b * (a \div b) + b
  OBVIOUS
<1> QED BY <1>1, <1>2, <1>3

LEMMA Rounds ==
  ASSUME NEW n \in Nat, NEW d \in Nat, d > 0
  PROVE  LET v == Reports!Round(n, d)
         IN  v \in Nat /\ 2 * (d * v) =< 2 * n + d /\ 2 * n =< 2 * (d * v) + d
<1> DEFINE a == 2 * n + d
           b == 2 * d
           v == a \div b
<1>1. a \in Nat /\ b \in Nat /\ b > 0
  OBVIOUS
<1>2. v \in Nat /\ b * v =< a /\ a < b * v + b
  <2> HIDE DEF a, b
  <2> QED BY <1>1, Divides
<1>3. v \in Nat
  BY <1>2
<1> HIDE DEF v
<1>4. b * v = 2 * (d * v) /\ d * v \in Int
  BY <1>3
<1>5. 2 * (d * v) =< 2 * n + d /\ 2 * n =< 2 * (d * v) + d
  BY <1>2, <1>4
<1> QED BY <1>3, <1>5 DEF Reports!Round, v

LEMMA SecondsNatural ==
  ASSUME NEW rows, IsFiniteSet(rows), \A t \in rows : t.seconds \in Nat
  PROVE  Reports!Seconds(rows) \in Nat /\ \A t \in rows : t.seconds =< Reports!Seconds(rows)
<1> DEFINE f == [t \in rows |-> t.seconds]
<1>1. \A t \in rows : f[t] = t.seconds /\ f[t] \in Nat
  OBVIOUS
<1> HIDE DEF f
<1>2. Reports!Seconds(rows) = SumFunctionOnSet(f, rows)
  BY <1>1, SecondsSummed
<1>3. SumFunctionOnSet(f, rows) \in Nat /\ \A t \in rows : f[t] =< SumFunctionOnSet(f, rows)
  BY <1>1, SumNatural
<1> QED BY <1>1, <1>2, <1>3

LEMMA GreatestHere ==
  ASSUME NEW S \in SUBSET Nat, IsFiniteSet(S), S # {}
  PROVE  Reports!Max(S) \in S /\ \A x \in S : x =< Reports!Max(S)
<1>1. \E z \in S : \A y \in S : z >= y
  BY GreatestExists
<1>2. Reports!Max(S) \in S /\ \A y \in S : Reports!Max(S) >= y
  BY <1>1 DEF Reports!Max
<1> QED BY <1>2

(* The assignment of a day is one of the person's. *)
LEMMA AssignmentFound ==
  ASSUME Known, InputsTyped, NEW p \in Persons, NEW day
  PROVE  LET a == Reports!AssignmentForUser(assigned[p], day)
         IN  IF assigned[p] = <<>> THEN a = None
             ELSE /\ assigned[p] \in Histories /\ \E n \in DOMAIN assigned[p] : a = assigned[p][n]
                  /\ a # None /\ a.percentage \in Percentages \cup {None}
<1> DEFINE h == assigned[p]
           a == Reports!AssignmentForUser(h, day)
<1>1. CASE h = <<>>
  BY <1>1 DEF Reports!AssignmentForUser
<1>2. CASE h # <<>>
  <2>1. h \in Histories
    BY <1>2 DEF InputsTyped
  <2>2. /\ \A n \in DOMAIN h : h[n].percentage \in Percentages \cup {None} /\ h[n] # None
        /\ DOMAIN h \subseteq Nat /\ IsFiniteSet(DOMAIN h) /\ 1 \in DOMAIN h
    BY <1>2, <2>1 DEF Known, HistoriesKnown
  <2> HIDE DEF h
  <2> DEFINE valid == {n \in DOMAIN h : Reports!Valid(h[n], day)}
             past == {n \in DOMAIN h : h[n].from <= day}
  <2>3. (valid # {} => Reports!Max(valid) \in valid) /\ (past # {} => Reports!Max(past) \in past)
    <3>1. valid \subseteq DOMAIN h /\ past \subseteq DOMAIN h
      OBVIOUS
    <3> HIDE DEF valid, past
    <3> QED BY <2>2, <3>1, GreatestHere, FS_Subset
  <2>4. (\E n \in DOMAIN h : Reports!Valid(h[n], day)) <=> valid # {}
    OBVIOUS
  <2>5. h[1].from <= day => past # {}
    BY <2>2
  <2>6. a = IF valid # {} THEN h[Reports!Max(valid)] ELSE IF h[1].from <= day THEN h[Reports!Max(past)] ELSE h[1]
    BY <1>2, <2>4 DEF Reports!AssignmentForUser, h
  <2>7. \E n \in DOMAIN h : a = h[n]
    <3>1. valid \subseteq DOMAIN h /\ past \subseteq DOMAIN h
      OBVIOUS
    <3> HIDE DEF valid, past, a
    <3> QED BY <2>2, <2>3, <2>5, <2>6, <3>1
  <2> HIDE DEF a
  <2>8. a # None /\ a.percentage \in Percentages \cup {None}
    BY <2>2, <2>7
  <2> QED BY <1>2, <2>1, <2>7, <2>8 DEF h, a
<1> QED BY <1>1, <1>2

LEMMA TopicsBased ==
  ASSUME Known, InputsTyped, NEW m \in Months
  PROVE  LET rows == Reports!RefreshTopicBase(m)
         IN  /\ IsFiniteSet(rows)
             /\ \A t \in rows : /\ TopicOK(t) /\ t.month = m /\ t.of # None /\ t.role \in Direct
                                /\ \E w \in worklogs : /\ MonthOf[w.day] = m /\ t.person = w.person
                                                       /\ t.role = Reports!RoleForWorklog(w)
             /\ \A t, u \in rows : t.of = u.of => t = u
<1> DEFINE some == {w \in Reports!Booked(m) : Reports!RoleForWorklog(w) \in Direct}
           rows == {Reports!TopicRow(w, m) : w \in some}
<1>1. some \subseteq worklogs /\ some \subseteq Work /\ \A w \in some : MonthOf[w.day] = m /\ Reports!RoleForWorklog(w) \in Direct
  BY DEF InputsTyped, Reports!Booked
<1>2. rows = Reports!RefreshTopicBase(m)
  BY DEF Reports!RefreshTopicBase
<1>3. IsFiniteSet(rows)
  <2> DEFINE f == [w \in some |-> Reports!TopicRow(w, m)]
  <2>1. rows = {f[w] : w \in some}
    OBVIOUS
  <2>2. IsFiniteSet(some)
    BY <1>1, FS_Subset DEF Known, WorkKnown
  <2> HIDE DEF f, some, rows
  <2> QED BY <2>1, <2>2, ValuesFinite
<1>4. ASSUME NEW w \in some PROVE w.person \in Persons
  <2>1. w.person \in Persons \cup {None} /\ Reports!RoleForWorklog(w) # None
    BY <1>1 DEF Known, WorkKnown, RolesKnown
  <2>2. w.person # None
    BY <2>1 DEF Reports!RoleForWorklog
  <2> QED BY <2>1, <2>2
<1>5. ASSUME NEW w \in some
      PROVE  LET t == Reports!TopicRow(w, m)
             IN  /\ TopicOK(t) /\ t.month = m /\ t.of = w.id /\ t.of # None /\ t.role \in Direct
                 /\ t.person = w.person /\ t.role = Reports!RoleForWorklog(w)
  BY <1>1, <1>4 DEF Reports!TopicRow, TopicOK, Known, WorkKnown
<1>6. ASSUME NEW t \in rows, NEW u \in rows, t.of = u.of PROVE t = u
  <2>1. PICK w \in some : t = Reports!TopicRow(w, m)
    OBVIOUS
  <2>2. PICK v \in some : u = Reports!TopicRow(v, m)
    OBVIOUS
  <2>3. w.id = v.id
    BY <1>5, <1>6, <2>1, <2>2
  <2>4. w = v
    BY <1>1, <2>3 DEF Known, WorkKnown
  <2> QED BY <2>1, <2>2, <2>4
<1>7. ASSUME NEW t \in rows
      PROVE  /\ TopicOK(t) /\ t.month = m /\ t.of # None /\ t.role \in Direct
             /\ \E w \in worklogs : /\ MonthOf[w.day] = m /\ t.person = w.person
                                    /\ t.role = Reports!RoleForWorklog(w)
  <2>1. PICK w \in some : t = Reports!TopicRow(w, m)
    OBVIOUS
  <2> QED BY <1>1, <1>5, <2>1
<1> HIDE DEF rows
<1> QED BY <1>2, <1>3, <1>6, <1>7

(* Topics of one month among which a person's hours are divided *)
Dividable(rows) ==
    /\ IsFiniteSet(rows) /\ \A t \in rows : t.seconds \in Nat
    /\ \A t, u \in rows : t.of = u.of => t = u

(* Projects without seconds get no rows, and no topic with seconds is in one. *)
Shared(eligible) == {t \in eligible : Reports!Seconds(Reports!InProject(eligible, t)) > 0}

LEMMA SharedHasAll ==
  ASSUME NEW eligible, Dividable(eligible)
  PROVE  /\ Shared(eligible) \subseteq eligible /\ Dividable(Shared(eligible))
         /\ Reports!Seconds(Shared(eligible)) = Reports!Seconds(eligible)
<1> DEFINE some == Shared(eligible)
           rest == eligible \ some
           f == [t \in eligible |-> t.seconds]
<1>1. some \subseteq eligible /\ rest \subseteq eligible /\ some \cup rest = eligible /\ some \cap rest = {}
  BY DEF Shared
<1>2. IsFiniteSet(some) /\ IsFiniteSet(rest) /\ IsFiniteSet(eligible)
  BY <1>1, FS_Subset DEF Dividable
<1>3. ASSUME NEW t \in rest PROVE t.seconds = 0
  <2> DEFINE same == Reports!InProject(eligible, t)
  <2>1. same \subseteq eligible /\ t \in same /\ t \in eligible
    BY <1>1 DEF Reports!InProject
  <2>2. ~(Reports!Seconds(same) > 0)
    BY <2>1 DEF Shared
  <2> HIDE DEF same
  <2>3. Reports!Seconds(same) \in Nat /\ t.seconds =< Reports!Seconds(same) /\ t.seconds \in Nat
    <3>1. IsFiniteSet(same) /\ \A u \in same : u.seconds \in Nat
      BY <1>2, <2>1, FS_Subset DEF Dividable
    <3> QED BY <2>1, <3>1, SecondsNatural
  <2> QED BY <2>2, <2>3
<1>4. \A t \in eligible : f[t] = t.seconds /\ t.seconds \in Nat
  BY DEF Dividable
<1> HIDE DEF f, some, rest
<1>5. /\ Reports!Seconds(eligible) = SumFunctionOnSet(f, eligible)
      /\ Reports!Seconds(some) = SumFunctionOnSet(f, some)
  BY <1>1, <1>2, <1>4, SecondsSummed
<1>6. SumFunctionOnSet(f, rest) = 0
  BY <1>1, <1>2, <1>3, <1>4, SumZero
<1>7. Summable(f, some \cup rest) /\ Summable(f, some)
  <2>1. \A t \in eligible : f[t] \in Int
    BY <1>4
  <2>2. Summable(f, eligible) /\ Summable(f, some)
    BY <1>1, <1>2, <2>1 DEF Summable
  <2> QED BY <1>1, <2>2, Zenon
<1>8. SumFunctionOnSet(f, eligible) = SumFunctionOnSet(f, some) + 0
  BY <1>1, <1>6, <1>7, SumUnion
<1>9. SumFunctionOnSet(f, some) \in Int
  BY <1>7, SumNumber
<1>10. Dividable(some)
  BY <1>1, <1>2 DEF Dividable
<1> QED BY <1>1, <1>5, <1>8, <1>9, <1>10 DEF some

LEMMA ShareRounds ==
  ASSUME NEW t, t.seconds \in Nat, NEW allocatable \in Nat, NEW total \in Nat, total > 0,
         NEW project, Reports!Seconds(project) \in Nat, Reports!Seconds(project) > 0
  PROVE  LET v == Reports!Share(t, allocatable, total, project)
             d == 100 * total
         IN  /\ v \in Nat
             /\ 2 * (d * v) =< 2 * (allocatable * t.seconds) + d
             /\ 2 * (allocatable * t.seconds) =< 2 * (d * v) + d
<1> DEFINE p == Reports!Seconds(project)
           s == t.seconds
           v == Reports!Share(t, allocatable, total, project)
           d == 100 * total
           n == allocatable * p * s
           e == 100 * total * p
<1>1. p \in Nat /\ p > 0 /\ s \in Nat /\ d \in Nat /\ d > 0
  OBVIOUS
<1>2. v = Reports!Round(n, e)
  BY DEF Reports!Share
<1> HIDE DEF p, s, v
<1>3. n \in Nat /\ e \in Nat /\ e = p * d /\ n = p * (allocatable * s) /\ allocatable * s \in Nat
  BY <1>1
<1>4. e > 0
  BY <1>1
<1> HIDE DEF n, e, d
<1>5. v \in Nat /\ 2 * (e * v) =< 2 * n + e /\ 2 * n =< 2 * (e * v) + e
  BY <1>2, <1>3, <1>4, Rounds
<1> DEFINE x == 2 * (d * v)
           y == 2 * (allocatable * s)
<1>6. d * v \in Nat /\ x \in Nat /\ y \in Nat
  BY <1>1, <1>3, <1>5
<1>7. 2 * (e * v) = p * x /\ 2 * n = p * y
  <2>1. e * v = p * (d * v)
    BY <1>1, <1>3, <1>5
  <2> DEFINE g == d * v
             h == allocatable * s
  <2>2. 2 * (p * g) = p * (2 * g) /\ 2 * (p * h) = p * (2 * h)
    <3>1. g \in Nat /\ h \in Nat
      BY <1>3, <1>6
    <3> HIDE DEF g, h
    <3> QED BY <1>1, <3>1
  <2> QED BY <1>3, <2>1, <2>2
<1> HIDE DEF x, y
<1>8. p * (x + d) = p * x + e /\ p * (y + d) = p * y + e
  BY <1>1, <1>3, <1>6
<1>9. p * x =< p * (y + d) /\ p * y =< p * (x + d)
  BY <1>5, <1>7, <1>8
<1>10. x =< y + d /\ y =< x + d
  BY <1>1, <1>6, <1>9, Cancels
<1> QED BY <1>5, <1>10 DEF x, y, v, d, s

(* The shares of a person's hours, but for the rounding of each, make up the hours. *)
LEMMA SharesMakeUp ==
  ASSUME NEW p, NEW m, NEW role, NEW eligible, Dividable(eligible), NEW allocatable \in Nat
  PROVE  LET rows == Reports!AllocateIndirect(p, m, role, eligible, allocatable)
         IN  /\ IsFiniteSet(rows)
             /\ \A e \in rows : /\ e.kind = "indirect_allocated" /\ e.month = m /\ e.person = p /\ e.role = role
                                /\ e.hours \in Nat
                                /\ \E t \in eligible : /\ e.of = t.of /\ e.issue = t.issue
                                                       /\ e.topic = t.topic /\ e.team = t.team
             /\ rows # {} => /\ 200 * Reports!Hours(rows) =< 2 * allocatable + 100 * Cardinality(rows)
                             /\ 2 * allocatable =< 200 * Reports!Hours(rows) + 100 * Cardinality(rows)
<1> DEFINE rows == Reports!AllocateIndirect(p, m, role, eligible, allocatable)
           some == Shared(eligible)
           total == Reports!Seconds(eligible)
           Row(t) == Reports!IndirectRow(p, m, role, eligible, allocatable, t)
           Part(t) == Reports!Share(t, allocatable, total, Reports!InProject(eligible, t))
           r == [t \in some |-> Row(t)]
           v == [t \in some |-> Part(t)]
           n == [t \in some |-> allocatable * t.seconds]
           f == [t \in some |-> t.seconds]
           d == 100 * total
<1>1. /\ IsFiniteSet(eligible) /\ \A t \in eligible : t.seconds \in Nat
      /\ \A t, u \in eligible : t.of = u.of => t = u
  BY DEF Dividable
<1>2. some \subseteq eligible /\ Dividable(some) /\ Reports!Seconds(some) = total
  BY SharedHasAll
<1>3. total \in Nat
  BY <1>1, SecondsNatural
<1>4. CASE allocatable <= 0 \/ total = 0
  <2>1. rows = {}
    BY <1>4 DEF Reports!AllocateIndirect
  <2> HIDE DEF rows
  <2>2. IsFiniteSet(rows)
    BY <2>1, FS_EmptySet
  <2> QED BY <2>1, <2>2 DEF rows
<1>5. CASE ~(allocatable <= 0 \/ total = 0)
  <2>1. total > 0 /\ d \in Nat /\ d > 0
    BY <1>3, <1>5
  <2>2. rows = {r[t] : t \in some}
    BY <1>5 DEF Reports!AllocateIndirect, Shared
  <2>3. ASSUME NEW t \in some
        PROVE  /\ v[t] \in Nat /\ n[t] = allocatable * t.seconds /\ f[t] = t.seconds /\ f[t] \in Nat
               /\ 2 * (d * v[t]) =< 2 * n[t] + d /\ 2 * n[t] =< 2 * (d * v[t]) + d
    <3> DEFINE same == Reports!InProject(eligible, t)
    <3>1. t \in eligible /\ t.seconds \in Nat
      BY <1>1, <1>2
    <3>2. Reports!Seconds(same) > 0
      BY DEF Shared
    <3>3. IsFiniteSet(same) /\ \A u \in same : u.seconds \in Nat
      <4>1. same \subseteq eligible
        BY DEF Reports!InProject
      <4> HIDE DEF same
      <4> QED BY <1>1, <4>1, FS_Subset
    <3>4. Reports!Seconds(same) \in Nat
      <4> HIDE DEF same
      <4> QED BY <3>3, SecondsNatural
    <3>5. v[t] = Reports!Share(t, allocatable, total, same) /\ n[t] = allocatable * t.seconds /\ f[t] = t.seconds
      OBVIOUS
    <3> DEFINE share == Reports!Share(t, allocatable, total, same)
    <3> HIDE DEF v, n, f, same, total
    <3>6. total > 0
      BY <2>1
    <3>7. /\ share \in Nat /\ 2 * (d * share) =< 2 * (allocatable * t.seconds) + d
          /\ 2 * (allocatable * t.seconds) =< 2 * (d * share) + d
      BY <1>3, <3>1, <3>2, <3>4, <3>6, ShareRounds, ZenonT(40)
    <3> HIDE DEF share, d
    <3>8. v[t] = share
      BY <3>5 DEF share
    <3> QED BY <3>1, <3>5, <3>7, <3>8, Zenon
  <2>4. ASSUME NEW t \in some
        PROVE  /\ r[t].kind = "indirect_allocated" /\ r[t].month = m /\ r[t].person = p /\ r[t].role = role
               /\ r[t].of = t.of /\ r[t].issue = t.issue /\ r[t].topic = t.topic /\ r[t].team = t.team
               /\ r[t].hours = v[t]
    BY DEF Reports!IndirectRow, Reports!EffortRow
  <2>5. IsFiniteSet(some) /\ \A t, u \in some : t.of = u.of => t = u
    BY <1>2 DEF Dividable
  <2> HIDE DEF rows, some, total, r, v, n, f
  <2>6. \A t, u \in some : r[t] = r[u] => t = u
    <3>1. ASSUME NEW t \in some, NEW u \in some, r[t] = r[u] PROVE t = u
      <4>1. r[t].of = t.of /\ r[u].of = u.of
        BY <2>4
      <4> QED BY <2>5, <3>1, <4>1
    <3> QED BY <3>1
  <2>7. IsFiniteSet(rows) /\ Cardinality(rows) = Cardinality(some)
    BY <2>2, <2>5, <2>6, ValuesFinite, ImageSize
  <2>8. Reports!Hours(rows) = SumFunctionOnSet(v, some)
    <3> DEFINE h == [e \in rows |-> e.hours]
    <3>1. \A e \in rows : h[e] = e.hours
      OBVIOUS
    <3>2. \A t \in some : r[t] \in rows
      BY <2>2
    <3>3. \A t \in some : v[t] = h[r[t]] /\ v[t] \in Int
      BY <2>3, <2>4, <3>1, <3>2
    <3> HIDE DEF h
    <3>4. SumFunctionOnSet(h, {r[t] : t \in some}) = SumFunctionOnSet(v, some)
      BY <2>5, <2>6, <3>3, SumImage
    <3>5. Reports!Hours(rows) = SumFunctionOnSet(h, rows)
      BY <2>7, <3>1, HoursSummed
    <3> QED BY <2>2, <3>4, <3>5
  <2>9. SumFunctionOnSet(n, some) = allocatable * total
    <3>1. SumFunctionOnSet(f, some) = total
      BY <1>2, <2>3, <2>5, SecondsSummed
    <3>2. Summable(f, some)
      BY <2>3, <2>5 DEF Summable
    <3>3. \A t \in some : n[t] = allocatable * f[t]
      BY <2>3
    <3>4. SumFunctionOnSet(n, some) = allocatable * SumFunctionOnSet(f, some)
      <4>1. allocatable \in Int
        OBVIOUS
      <4> QED BY <3>2, <3>3, <4>1, SumTimes
    <3> QED BY <3>1, <3>4
  <2>10. Summable(n, some) /\ Summable(v, some)
    <3>1. \A t \in some : n[t] \in Int /\ v[t] \in Int
      <4>1. ASSUME NEW t \in some PROVE allocatable * t.seconds \in Int
        <5> DEFINE s == t.seconds
        <5>1. s \in Nat
          BY <2>3
        <5> HIDE DEF s
        <5>2. allocatable * s \in Int
          BY <5>1
        <5> QED BY <5>2 DEF s
      <4> QED BY <2>3, <4>1
    <3> QED BY <2>5, <3>1 DEF Summable
  <2> DEFINE V == SumFunctionOnSet(v, some)
             C == Cardinality(some)
  <2>11. /\ 2 * (d * V) =< 2 * SumFunctionOnSet(n, some) + d * C
         /\ 2 * SumFunctionOnSet(n, some) =< 2 * (d * V) + d * C
    <3> HIDE DEF d
    <3> QED BY <2>1, <2>3, <2>10, SumRounded
  <2>12. V \in Int /\ C \in Nat
    BY <2>5, <2>10, SumNumber, FS_CardinalityType
  <2> HIDE DEF V, C
  <2>13. 200 * V =< 2 * allocatable + 100 * C /\ 2 * allocatable =< 200 * V + 100 * C
    <3>1. 2 * (d * V) = total * (200 * V) /\ d * C = total * (100 * C) /\ 2 * (allocatable * total) = total * (2 * allocatable)
      BY <1>3, <2>12
    <3>2. /\ total * (2 * allocatable + 100 * C) = total * (2 * allocatable) + total * (100 * C)
          /\ total * (200 * V + 100 * C) = total * (200 * V) + total * (100 * C)
      BY <1>3, <2>12
    <3>3. total * (200 * V) =< total * (2 * allocatable + 100 * C) /\ total * (2 * allocatable) =< total * (200 * V + 100 * C)
      BY <2>9, <2>11, <3>1, <3>2
    <3> QED BY <1>3, <2>1, <2>12, <3>3, Cancels
  <2>14. ASSUME NEW e \in rows
         PROVE  /\ e.kind = "indirect_allocated" /\ e.month = m /\ e.person = p /\ e.role = role
                /\ e.hours \in Nat
                /\ \E t \in eligible : /\ e.of = t.of /\ e.issue = t.issue
                                       /\ e.topic = t.topic /\ e.team = t.team
    <3>1. PICK t \in some : e = r[t]
      BY <2>2
    <3>2. t \in eligible
      BY <1>2
    <3> QED BY <2>3, <2>4, <3>1, <3>2
  <2>15. /\ 200 * Reports!Hours(rows) =< 2 * allocatable + 100 * Cardinality(rows)
         /\ 2 * allocatable =< 200 * Reports!Hours(rows) + 100 * Cardinality(rows)
    BY <2>7, <2>8, <2>13 DEF V, C
  <2> QED BY <2>7, <2>14, <2>15 DEF rows
<1> QED BY <1>4, <1>5

LEMMA HoursTyped ==
  ASSUME NEW rows, IsFiniteSet(rows), \A e \in rows : e.hours \in Nat
  PROVE  Reports!Hours(rows) \in Nat
<1> DEFINE f == [e \in rows |-> e.hours]
<1>1. \A e \in rows : f[e] = e.hours /\ f[e] \in Nat
  OBVIOUS
<1> HIDE DEF f
<1>2. Reports!Hours(rows) = SumFunctionOnSet(f, rows)
  BY <1>1, HoursSummed
<1>3. SumFunctionOnSet(f, rows) \in Nat
  BY <1>1, SumNatural
<1> QED BY <1>2, <1>3

LEMMA HoursOfOne ==
  ASSUME NEW e, e.hours \in Nat
  PROVE  Reports!Hours({e}) = e.hours
<1> DEFINE f == [x \in {e} |-> x.hours]
<1>1. f[e] = e.hours /\ IsFiniteSet({e}) /\ IsFiniteSet({})
  BY FS_Singleton, FS_EmptySet
<1>2. \A x \in {e} : f[x] = x.hours
  OBVIOUS
<1> HIDE DEF f
<1>3. Reports!Hours({e}) = SumFunctionOnSet(f, {e})
  BY <1>1, <1>2, HoursSummed
<1>4. Summable(f, {} \cup {e}) /\ e \notin {}
  BY <1>1 DEF Summable
<1>5. SumFunctionOnSet(f, {} \cup {e}) = f[e] + SumFunctionOnSet(f, {})
  BY <1>4, SumAdd
<1>6. SumFunctionOnSet(f, {}) = 0
  BY SumNone
<1>7. {} \cup {e} = {e}
  OBVIOUS
<1>8. SumFunctionOnSet(f, {e}) = e.hours + 0
  BY <1>1, <1>5, <1>6, <1>7, Zenon
<1> QED BY <1>3, <1>8

(* The row of overhead has the person's overhead, but for its rounding. *)
LEMMA OverheadMakesUp ==
  ASSUME NEW p, NEW m, NEW a, NEW hundredths \in Nat
  PROVE  LET rows == Reports!Overhead(p, m, a, hundredths)
         IN  /\ IsFiniteSet(rows)
             /\ \A e \in rows : /\ e.kind = "shared_overhead" /\ e.month = m /\ e.person = p /\ e.role = a.role
                                /\ e.hours \in Nat /\ e.of = None /\ e.issue = None /\ e.topic = "shared_overhead"
             /\ 200 * Reports!Hours(rows) =< 2 * hundredths + 100 * Cardinality(rows)
             /\ 2 * hundredths =< 200 * Reports!Hours(rows) + 100 * Cardinality(rows)
<1> DEFINE rows == Reports!Overhead(p, m, a, hundredths)
           e == Reports!EffortRow("shared_overhead", m, p, a.role, Reports!NoTopic(a.team), Reports!Round(hundredths, 100))
<1>1. CASE hundredths <= 0
  <2>1. rows = {} /\ hundredths = 0
    BY <1>1 DEF Reports!Overhead
  <2>2. IsFiniteSet({}) /\ Cardinality({}) = 0
    BY FS_EmptySet
  <2>3. Reports!Hours({}) = 0
    <3> DEFINE f == [x \in {} |-> x.hours]
    <3>1. \A x \in {} : f[x] = x.hours
      OBVIOUS
    <3> HIDE DEF f
    <3>2. Reports!Hours({}) = SumFunctionOnSet(f, {})
      BY <2>2, <3>1, HoursSummed
    <3> QED BY <3>2, SumNone
  <2> HIDE DEF rows
  <2> QED BY <2>1, <2>2, <2>3 DEF rows
<1>2. CASE ~(hundredths <= 0)
  <2>1. rows = {e}
    BY <1>2 DEF Reports!Overhead
  <2>2. /\ e.kind = "shared_overhead" /\ e.month = m /\ e.person = p /\ e.role = a.role
        /\ e.of = None /\ e.issue = None /\ e.topic = "shared_overhead" /\ e.hours = Reports!Round(hundredths, 100)
    BY DEF Reports!EffortRow, Reports!NoTopic
  <2> DEFINE v == Reports!Round(hundredths, 100)
  <2>3. v \in Nat /\ 2 * (100 * v) =< 2 * hundredths + 100 /\ 2 * hundredths =< 2 * (100 * v) + 100
    BY Rounds
  <2> HIDE DEF e, v, rows
  <2>4. Reports!Hours(rows) = v /\ IsFiniteSet(rows) /\ Cardinality(rows) = 1
    BY <2>1, <2>2, <2>3, HoursOfOne, FS_Singleton DEF v
  <2>5. 200 * v =< 2 * hundredths + 100 * 1 /\ 2 * hundredths =< 200 * v + 100 * 1
    BY <2>3
  <2> QED BY <2>1, <2>2, <2>3, <2>4, <2>5 DEF rows, v
<1> QED BY <1>1, <1>2

(* A share of hours is about a topic, or about none. *)
OfTopic(e, t) == e.of = t.of /\ e.issue = t.issue /\ e.topic = t.topic /\ e.team = t.team
IsShare(e, rows) ==
    /\ e.hours \in Nat
    /\ \/ e.kind = "indirect_allocated" /\ \E t \in rows : OfTopic(e, t)
       \/ e.kind = "shared_overhead" /\ e.of = None /\ e.issue = None /\ e.topic = "shared_overhead"
OfKind(rows, kind) == {e \in rows : e.kind = kind}
MakeUp(some, others, worked) ==
    Reports!Near(Reports!Hours(some) + Reports!Hours(others), worked, Cardinality(some) + Cardinality(others))

LEMMA PersonsShares ==
  ASSUME Known, NEW p, NEW m, NEW a, a.percentage \in Percentages \cup {None}, NEW r \in DOMAIN Rule,
         NEW worked \in Nat, NEW eligible, Dividable(eligible)
  PROVE  LET rows == Reports!SharesOf(p, m, a, Rule[r], worked, eligible)
         IN  /\ IsFiniteSet(rows)
             /\ \A e \in rows : e.month = m /\ e.person = p /\ e.role = a.role /\ IsShare(e, eligible)
             /\ OfKind(rows, "indirect_allocated") # {} =>
                  MakeUp(OfKind(rows, "indirect_allocated"), OfKind(rows, "shared_overhead"), worked)
<1> DEFINE part == Reports!OverheadOf(Rule[r], a)
           x == worked * part
           y == worked * (100 - part)
           O == Reports!Overhead(p, m, a, x)
           I == Reports!AllocateIndirect(p, m, a.role, eligible, y)
           rows == Reports!SharesOf(p, m, a, Rule[r], worked, eligible)
<1>1. part \in 0..100
  BY DEF Reports!OverheadOf, Known, RolesKnown, Percentages
<1>2. rows = O \cup I
  BY DEF Reports!SharesOf
<1>3. x \in Nat /\ y \in Nat /\ x + y = 100 * worked
  <2> HIDE DEF part
  <2> QED BY <1>1
<1>4. /\ IsFiniteSet(O)
      /\ \A e \in O : /\ e.kind = "shared_overhead" /\ e.month = m /\ e.person = p /\ e.role = a.role
                      /\ e.hours \in Nat /\ e.of = None /\ e.issue = None /\ e.topic = "shared_overhead"
      /\ 200 * Reports!Hours(O) =< 2 * x + 100 * Cardinality(O)
      /\ 2 * x =< 200 * Reports!Hours(O) + 100 * Cardinality(O)
  <2> HIDE DEF x
  <2> QED BY <1>3, OverheadMakesUp
<1>5. /\ IsFiniteSet(I)
      /\ \A e \in I : /\ e.kind = "indirect_allocated" /\ e.month = m /\ e.person = p /\ e.role = a.role
                      /\ e.hours \in Nat /\ \E t \in eligible : OfTopic(e, t)
      /\ I # {} => /\ 200 * Reports!Hours(I) =< 2 * y + 100 * Cardinality(I)
                   /\ 2 * y =< 200 * Reports!Hours(I) + 100 * Cardinality(I)
  <2>1. /\ IsFiniteSet(I)
        /\ \A e \in I : /\ e.kind = "indirect_allocated" /\ e.month = m /\ e.person = p /\ e.role = a.role
                        /\ e.hours \in Nat
                        /\ \E t \in eligible : e.of = t.of /\ e.issue = t.issue /\ e.topic = t.topic /\ e.team = t.team
        /\ I # {} => /\ 200 * Reports!Hours(I) =< 2 * y + 100 * Cardinality(I)
                     /\ 2 * y =< 200 * Reports!Hours(I) + 100 * Cardinality(I)
    <3> HIDE DEF y
    <3> QED BY <1>3, SharesMakeUp
  <2> HIDE DEF I, y
  <2> QED BY <2>1 DEF OfTopic
<1> HIDE DEF O, I, x, y, rows
<1>6. OfKind(rows, "indirect_allocated") = I /\ OfKind(rows, "shared_overhead") = O
  BY <1>2, <1>4, <1>5 DEF OfKind
<1>7. IsFiniteSet(rows)
  BY <1>2, <1>4, <1>5, FS_Union
<1>8. \A e \in rows : e.month = m /\ e.person = p /\ e.role = a.role /\ IsShare(e, eligible)
  BY <1>2, <1>4, <1>5 DEF IsShare
<1>9. ASSUME I # {} PROVE MakeUp(I, O, worked)
  <2> DEFINE hi == Reports!Hours(I)
             ho == Reports!Hours(O)
             ci == Cardinality(I)
             co == Cardinality(O)
  <2>1. hi \in Nat /\ ho \in Nat /\ ci \in Nat /\ co \in Nat
    BY <1>4, <1>5, HoursTyped, FS_CardinalityType
  <2>2. /\ 200 * ho =< 2 * x + 100 * co /\ 2 * x =< 200 * ho + 100 * co
        /\ 200 * hi =< 2 * y + 100 * ci /\ 2 * y =< 200 * hi + 100 * ci
    BY <1>4, <1>5, <1>9
  <2> HIDE DEF hi, ho, ci, co
  <2>3. 2 * (hi + ho) =< 2 * worked + (ci + co) /\ 2 * worked =< 2 * (hi + ho) + (ci + co)
    BY <1>3, <2>1, <2>2
  <2> QED BY <2>3 DEF MakeUp, Reports!Near, hi, ho, ci, co
<1> QED BY <1>6, <1>7, <1>8, <1>9 DEF rows

(* The shares of a person in a month are those of the topics of the month. *)
LEMMA PersonAllocated ==
  ASSUME Known, InputsTyped, NEW m \in Months, NEW p \in Persons
  PROVE  LET topicRows == Reports!RefreshTopicBase(m)
             a == Reports!AssignmentForUser(assigned[p], FirstDay[m])
             rows == Reports!IndirectRows(p, m, topicRows, a)
         IN  /\ IsFiniteSet(rows)
             /\ \A e \in rows : /\ e.month = m /\ e.person = p /\ IsShare(e, topicRows)
                                /\ a # None /\ assigned[p] # <<>> /\ a.role \in DOMAIN Rule \ Direct
             /\ OfKind(rows, "indirect_allocated") # {} =>
                  MakeUp(OfKind(rows, "indirect_allocated"), OfKind(rows, "shared_overhead"), clocked[p][m].clocked)
<1> DEFINE topicRows == Reports!RefreshTopicBase(m)
           a == Reports!AssignmentForUser(assigned[p], FirstDay[m])
           rows == Reports!IndirectRows(p, m, topicRows, a)
<1>1. CASE Reports!RoleOf(a) \notin DOMAIN Rule \/ clocked[p][m] = None
  <2>1. rows = {}
    BY <1>1 DEF Reports!IndirectRows
  <2>2. IsFiniteSet({}) /\ OfKind({}, "indirect_allocated") = {}
    BY FS_EmptySet DEF OfKind
  <2> HIDE DEF rows, a, topicRows
  <2> QED BY <2>1, <2>2 DEF rows, a, topicRows
<1>2. CASE ~(Reports!RoleOf(a) \notin DOMAIN Rule \/ clocked[p][m] = None)
  <2>1. a # None
    BY <1>2 DEF Reports!RoleOf, Known, RolesKnown
  <2>2. a.role \in DOMAIN Rule
    BY <1>2, <2>1 DEF Reports!RoleOf
  <2>3. assigned[p] # <<>> /\ a.percentage \in Percentages \cup {None}
    <3> HIDE DEF a
    <3> QED BY <2>1, AssignmentFound DEF a
  <2>4. clocked[p][m].clocked \in Nat
    BY <1>2 DEF InputsTyped, Known, ClocksKnown
  <2>5. CASE ~ Rule[a.role].indirect
    <3>1. rows = {}
      BY <2>5 DEF Reports!IndirectRows
    <3>2. IsFiniteSet({}) /\ OfKind({}, "indirect_allocated") = {}
      BY FS_EmptySet DEF OfKind
    <3> HIDE DEF rows, a, topicRows
    <3> QED BY <3>1, <3>2 DEF rows, a, topicRows
  <2>6. CASE Rule[a.role].indirect
    <3> DEFINE eligible == Reports!Eligible(topicRows, Reports!ScopeOf(Rule[a.role], a), a.team)
    <3>1. rows = Reports!SharesOf(p, m, a, Rule[a.role], clocked[p][m].clocked, eligible)
      BY <1>2, <2>6 DEF Reports!IndirectRows
    <3>2. eligible \subseteq topicRows
      BY DEF Reports!Eligible
    <3>3. IsFiniteSet(topicRows) /\ (\A t \in topicRows : t.seconds \in Nat) /\ \A t, u \in topicRows : t.of = u.of => t = u
      <4> HIDE DEF topicRows
      <4> QED BY TopicsBased DEF topicRows, TopicOK
    <3> HIDE DEF eligible, topicRows, rows
    <3>4. Dividable(eligible)
      BY <3>2, <3>3, FS_Subset DEF Dividable
    <3>5. a.role \notin Direct
      BY <2>2, <2>6 DEF Known, RolesKnown
    <3> HIDE DEF a
    <3>6. /\ IsFiniteSet(rows)
          /\ \A e \in rows : e.month = m /\ e.person = p /\ e.role = a.role /\ IsShare(e, eligible)
          /\ OfKind(rows, "indirect_allocated") # {} =>
               MakeUp(OfKind(rows, "indirect_allocated"), OfKind(rows, "shared_overhead"), clocked[p][m].clocked)
      BY <2>2, <2>3, <2>4, <3>1, <3>4, PersonsShares, ZenonT(40)
    <3>7. \A e : IsShare(e, eligible) => IsShare(e, topicRows)
      BY <3>2 DEF IsShare
    <3> QED BY <2>1, <2>2, <2>3, <3>5, <3>6, <3>7 DEF rows, a, topicRows
  <2> QED BY <2>5, <2>6
<1> QED BY <1>1, <1>2

(* Who is a producer on a day is not excluded and has an assignment. *)
LEMMA ProducerAssigned ==
  ASSUME Known, InputsTyped, NEW w \in worklogs, Reports!RoleForWorklog(w) \in Direct
  PROVE  /\ w.person \in Persons \ excluded /\ assigned[w.person] # <<>>
         /\ Reports!RoleForWorklog(w) = Reports!RoleOf(Reports!AssignmentForUser(assigned[w.person], w.day))
<1>1. Reports!RoleForWorklog(w) # None
  BY DEF Known, RolesKnown
<1>2. /\ w.person # None /\ w.person \notin excluded
      /\ Reports!RoleForWorklog(w) = Reports!RoleOf(Reports!AssignmentForUser(assigned[w.person], w.day))
  BY <1>1 DEF Reports!RoleForWorklog
<1>3. w.person \in Persons
  BY <1>2 DEF Known, WorkKnown, InputsTyped
<1>4. assigned[w.person] # <<>>
  BY <1>1, <1>2, <1>3, AssignmentFound DEF Reports!RoleOf
<1> QED BY <1>2, <1>3, <1>4

FirstRole(p, m) == Reports!RoleOf(Reports!AssignmentForUser(assigned[p], FirstDay[m]))
OfPerson(rows, p, kind) == {e \in rows : e.person = p /\ e.kind = kind}

(* What a rebuild writes for a month, from the inputs as they are. *)
MonthsEffort(m, topicRows, rows) ==
    /\ IsFiniteSet(rows)
    /\ \A e \in rows : e.month = m /\ EffortOK(e) /\ e.person \notin excluded /\ assigned[e.person] # <<>>
    /\ \A e \in rows : e.of \in {t.of : t \in topicRows} \cup {None}
    /\ \A e \in OfKind(rows, "direct_worklog") :
         \E t \in topicRows : e.of = t.of /\ e.person = t.person /\ e.role = t.role
    /\ \A t \in topicRows : \E e \in OfKind(rows, "direct_worklog") : e.of = t.of
    /\ \A e \in rows : e.kind # "direct_worklog" => FirstRole(e.person, m) \in DOMAIN Rule \ Direct
    /\ \A p \in Persons :
         OfPerson(rows, p, "indirect_allocated") # {} =>
           MakeUp(OfPerson(rows, p, "indirect_allocated"), OfPerson(rows, p, "shared_overhead"), clocked[p][m].clocked)

LEMMA TopicsDirect ==
  ASSUME NEW t, TopicOK(t), t.role \in Direct
  PROVE  LET e == Reports!DirectRow(t)
         IN  /\ e.kind = "direct_worklog" /\ e.month = t.month /\ e.person = t.person /\ e.role = t.role
             /\ OfTopic(e, t) /\ EffortOK(e)
<1> DEFINE n == t.seconds * 25
           v == Reports!Round(n, 9)
<1>1. n \in Nat
  BY DEF TopicOK
<1>2. v \in Nat
  <2> HIDE DEF n
  <2> QED BY <1>1, Rounds
<1> QED BY <1>2 DEF Reports!DirectRow, Reports!EffortRow, OfTopic, EffortOK, TopicOK

LEMMA SharesTyped ==
  ASSUME NEW m \in Months, NEW rows, \A t \in rows : TopicOK(t), NEW e, IsShare(e, rows), e.month = m, e.person \in Persons
  PROVE  EffortOK(e)
  BY DEF IsShare, OfTopic, EffortOK, TopicOK

LEMMA MonthAllocated ==
  ASSUME Known, InputsTyped, NEW m \in Months
  PROVE  MonthsEffort(m, Reports!RefreshTopicBase(m), Reports!AllocatePeriod(m, Reports!RefreshTopicBase(m)))
<1> DEFINE topicRows == Reports!RefreshTopicBase(m)
           rows == Reports!AllocatePeriod(m, topicRows)
           some == Persons \ excluded
           direct == {Reports!DirectRow(t) : t \in topicRows}
           shares(p) == Reports!IndirectRows(p, m, topicRows, Reports!AssignmentForUser(assigned[p], FirstDay[m]))
           s == [p \in some |-> shares(p)]
           d == [t \in topicRows |-> Reports!DirectRow(t)]
<1>1. rows = direct \cup UNION {s[p] : p \in some}
  BY DEF Reports!AllocatePeriod
<1>2. /\ IsFiniteSet(topicRows)
      /\ \A t \in topicRows : /\ TopicOK(t) /\ t.month = m /\ t.of # None /\ t.role \in Direct
                              /\ \E w \in worklogs : t.person = w.person /\ t.role = Reports!RoleForWorklog(w)
  <2> HIDE DEF topicRows
  <2> QED BY TopicsBased DEF topicRows
<1>3. ASSUME NEW t \in topicRows
      PROVE  /\ d[t].kind = "direct_worklog" /\ d[t].month = m /\ d[t].person = t.person /\ d[t].role = t.role
             /\ d[t].of = t.of /\ EffortOK(d[t]) /\ d[t].person \in some /\ assigned[d[t].person] # <<>>
  <2>1. d[t] = Reports!DirectRow(t) /\ TopicOK(t) /\ t.role \in Direct /\ t.month = m
    BY <1>2
  <2>2. PICK w \in worklogs : t.person = w.person /\ t.role = Reports!RoleForWorklog(w)
    BY <1>2
  <2>3. t.person \in some /\ assigned[t.person] # <<>>
    BY <2>1, <2>2, ProducerAssigned
  <2> HIDE DEF d, topicRows, some
  <2> QED BY <2>1, <2>3, TopicsDirect DEF OfTopic
<1>4. direct = {d[t] : t \in topicRows}
  OBVIOUS
<1>5. ASSUME NEW p \in some
      PROVE  /\ IsFiniteSet(s[p])
             /\ \A e \in s[p] : /\ e.month = m /\ e.person = p /\ IsShare(e, topicRows) /\ EffortOK(e)
                                /\ assigned[p] # <<>> /\ FirstRole(p, m) \in DOMAIN Rule \ Direct
             /\ OfKind(s[p], "indirect_allocated") # {} =>
                  MakeUp(OfKind(s[p], "indirect_allocated"), OfKind(s[p], "shared_overhead"), clocked[p][m].clocked)
  <2> DEFINE a == Reports!AssignmentForUser(assigned[p], FirstDay[m])
  <2>1. s[p] = Reports!IndirectRows(p, m, topicRows, a)
    OBVIOUS
  <2> HIDE DEF s, a, topicRows
  <2>2. /\ IsFiniteSet(s[p])
        /\ \A e \in s[p] : /\ e.month = m /\ e.person = p /\ IsShare(e, topicRows)
                           /\ a # None /\ assigned[p] # <<>> /\ a.role \in DOMAIN Rule \ Direct
        /\ OfKind(s[p], "indirect_allocated") # {} =>
             MakeUp(OfKind(s[p], "indirect_allocated"), OfKind(s[p], "shared_overhead"), clocked[p][m].clocked)
    BY <2>1, PersonAllocated DEF a, topicRows
  <2>3. \A e \in s[p] : EffortOK(e)
    BY <1>2, <2>2, SharesTyped
  <2>4. a # None => FirstRole(p, m) = a.role
    BY DEF FirstRole, Reports!RoleOf, a
  <2> QED BY <2>2, <2>3, <2>4
<1> HIDE DEF topicRows, rows, direct, s, d
<1>6. IsFiniteSet(rows)
  <2>1. IsFiniteSet(direct)
    BY <1>2, <1>4, ValuesFinite
  <2>2. IsFiniteSet(some)
    BY FS_Subset DEF Known, WorkKnown
  <2> DEFINE sets == {s[p] : p \in some}
  <2>3. IsFiniteSet(sets)
    <3> HIDE DEF some
    <3> QED BY <2>2, ValuesFinite
  <2>4. \A T \in sets : IsFiniteSet(T)
    BY <1>5
  <2>5. IsFiniteSet(UNION sets)
    <3> HIDE DEF sets
    <3> QED BY <2>3, <2>4, FS_UNION
  <2> QED BY <1>1, <2>1, <2>5, FS_Union
<1>7. ASSUME NEW e \in rows
      PROVE  \/ e.kind = "direct_worklog" /\ \E t \in topicRows : e = d[t]
             \/ e.kind # "direct_worklog" /\ e.person \in some /\ e \in s[e.person]
  <2>1. CASE e \in direct
    BY <1>3, <1>4, <2>1
  <2>2. CASE e \in UNION {s[p] : p \in some}
    <3>1. PICK p \in some : e \in s[p]
      BY <2>2
    <3> QED BY <1>5, <3>1 DEF IsShare
  <2> QED BY <1>1, <2>1, <2>2
<1>8. ASSUME NEW e \in rows
      PROVE  /\ e.month = m /\ EffortOK(e) /\ e.person \notin excluded /\ assigned[e.person] # <<>>
             /\ e.of \in {t.of : t \in topicRows} \cup {None}
             /\ e.kind = "direct_worklog" => \E t \in topicRows : e.of = t.of /\ e.person = t.person /\ e.role = t.role
             /\ e.kind # "direct_worklog" => FirstRole(e.person, m) \in DOMAIN Rule \ Direct
  <2>1. CASE e.kind = "direct_worklog"
    <3>1. PICK t \in topicRows : e = d[t]
      BY <1>7, <2>1
    <3> QED BY <1>3, <2>1, <3>1
  <2>2. CASE e.kind # "direct_worklog"
    BY <1>5, <1>7, <2>2 DEF IsShare, OfTopic
  <2> QED BY <2>1, <2>2
<1>9. ASSUME NEW t \in topicRows PROVE \E e \in OfKind(rows, "direct_worklog") : e.of = t.of
  <2>1. d[t] \in rows
    BY <1>1, <1>4
  <2> QED BY <1>3, <2>1 DEF OfKind
<1>10. ASSUME NEW p \in Persons, OfPerson(rows, p, "indirect_allocated") # {}
       PROVE  MakeUp(OfPerson(rows, p, "indirect_allocated"), OfPerson(rows, p, "shared_overhead"), clocked[p][m].clocked)
  <2>1. p \in some
    BY <1>7, <1>10 DEF OfPerson
  <2>2. \A e \in s[p] : e \in rows /\ e.person = p
    BY <1>1, <1>5, <2>1
  <2>3. OfPerson(rows, p, "indirect_allocated") = OfKind(s[p], "indirect_allocated")
    BY <1>7, <2>2 DEF OfPerson, OfKind
  <2>4. OfPerson(rows, p, "shared_overhead") = OfKind(s[p], "shared_overhead")
    BY <1>7, <2>2 DEF OfPerson, OfKind
  <2> QED BY <1>5, <1>10, <2>1, <2>3, <2>4
<1>11. MonthsEffort(m, topicRows, rows)
  BY <1>6, <1>8, <1>9, <1>10 DEF MonthsEffort, OfKind
<1> QED BY <1>11 DEF rows, topicRows

-----------------------------------------------------------------------------
LEMMA EffortInit == ASSUME Known PROVE Reports!Init => EffortInv
<1> SUFFICES ASSUME Reports!Init PROVE EffortInv
  OBVIOUS
<1>1. InputsTyped
  BY DEF Reports!Init, InputsTyped
<1>2. TablesTyped
  BY FS_EmptySet DEF Reports!Init, TablesTyped, Known
<1>3. FreshIsRebuilt
  BY DEF Reports!Init, FreshIsRebuilt
<1> QED BY <1>1, <1>2, <1>3 DEF EffortInv

(* Months that are written anew, and the others *)
InMonth(rows, m) == {e \in rows : e.month = m}
Outside(rows, months) == {e \in rows : e.month \notin months}
Written(g, months) == UNION {g[m] : m \in months}
ByMonth(g, months) == \A m \in months : IsFiniteSet(g[m]) /\ \A e \in g[m] : e.month = m
Anew(put, rows, months, g) ==
    IsFiniteSet(put) /\ \A m : InMonth(put, m) = IF m \in months THEN g[m] ELSE InMonth(rows, m)

LEMMA MonthsPut ==
  ASSUME NEW rows, IsFiniteSet(rows), NEW months, IsFiniteSet(months), NEW g, NEW put,
         ByMonth(g, months), put = Outside(rows, months) \cup Written(g, months)
  PROVE  Anew(put, rows, months, g)
<1> DEFINE sets == {g[m] : m \in months}
<1>1. IsFiniteSet(Outside(rows, months))
  BY FS_Subset DEF Outside
<1>2. IsFiniteSet(sets)
  BY ValuesFinite
<1>3. \A T \in sets : IsFiniteSet(T)
  BY DEF ByMonth
<1>4. IsFiniteSet(UNION sets)
  <2> HIDE DEF sets
  <2> QED BY <1>2, <1>3, FS_UNION
<1>5. IsFiniteSet(put)
  <2> HIDE DEF sets
  <2> QED BY <1>1, <1>4, FS_Union DEF sets, Written
<1>6. ASSUME NEW m PROVE InMonth(put, m) = IF m \in months THEN g[m] ELSE InMonth(rows, m)
  BY DEF ByMonth, InMonth, Outside, Written
<1> QED BY <1>5, <1>6 DEF Anew

(* What is not written anew stays, and what is rebuilt depends on the inputs only. *)
LEMMA SameEffort ==
  ASSUME NEW m, UNCHANGED <<worklogs, assigned, excluded, clocked>>
  PROVE  /\ Reports!RefreshTopicBase(m)' = Reports!RefreshTopicBase(m)
         /\ Reports!AllocatePeriod(m, Reports!RefreshTopicBase(m))' = Reports!AllocatePeriod(m, Reports!RefreshTopicBase(m))
<1>1. Reports!RefreshTopicBase(m)' = Reports!RefreshTopicBase(m)
  BY DEF Reports!RefreshTopicBase, Reports!Booked, Reports!RoleForWorklog, Reports!TopicRow
<1>2. Reports!AllocatePeriod(m, Reports!RefreshTopicBase(m))' = Reports!AllocatePeriod(m, Reports!RefreshTopicBase(m))
  BY <1>1 DEF Reports!AllocatePeriod, Reports!IndirectRows
<1> QED BY <1>1, <1>2

LEMMA BookInv ==
  ASSUME Known, EffortInv, NEW w \in Work, Reports!Book(w)
  PROVE  EffortInv'
<1>1. /\ worklogs' \in {worklogs \ {w}, worklogs \cup {w}} /\ fresh' = fresh \ {MonthOf[w.day]}
      /\ UNCHANGED <<assigned, excluded, clocked, topics, effort>> /\ edits < MaxEdits /\ edits' = edits + 1
  BY DEF Reports!Book, Reports!Edit
<1>2. InputsTyped'
  BY <1>1 DEF EffortInv, InputsTyped
<1>3. edits' \in 0..MaxEdits
  BY <1>1 DEF EffortInv, TablesTyped, Known
<1>4. TablesTyped'
  BY <1>1, <1>3 DEF EffortInv, TablesTyped, TopicOK, EffortOK
<1>5. ASSUME NEW m \in fresh'
      PROVE  /\ Reports!RefreshTopicBase(m)' = Reports!RefreshTopicBase(m)
             /\ Reports!AllocatePeriod(m, Reports!RefreshTopicBase(m))' = Reports!AllocatePeriod(m, Reports!RefreshTopicBase(m))
  <2>1. Reports!Booked(m)' = Reports!Booked(m)
    BY <1>1, <1>5 DEF Reports!Booked
  <2>2. \A v : Reports!RoleForWorklog(v)' = Reports!RoleForWorklog(v)
    BY <1>1 DEF Reports!RoleForWorklog
  <2>3. Reports!RefreshTopicBase(m)' = Reports!RefreshTopicBase(m)
    BY <2>1, <2>2 DEF Reports!RefreshTopicBase, Reports!TopicRow
  <2>4. Reports!AllocatePeriod(m, Reports!RefreshTopicBase(m))' = Reports!AllocatePeriod(m, Reports!RefreshTopicBase(m))
    BY <1>1, <2>3 DEF Reports!AllocatePeriod, Reports!IndirectRows
  <2> QED BY <2>3, <2>4
<1>6. FreshIsRebuilt'
  BY <1>1, <1>5 DEF EffortInv, FreshIsRebuilt, TopicsOf, EffortOf
<1> QED BY <1>2, <1>4, <1>6 DEF EffortInv

LEMMA ClockInv ==
  ASSUME Known, EffortInv, NEW p \in Persons, NEW m \in Months, NEW hours \in Clocks, Reports!Clock(p, m, hours)
  PROVE  EffortInv'
<1>1. /\ clocked' = [clocked EXCEPT ![p][m] = hours] /\ fresh' = fresh \ {m}
      /\ UNCHANGED <<worklogs, assigned, excluded, topics, effort>> /\ edits < MaxEdits /\ edits' = edits + 1
  BY DEF Reports!Clock, Reports!Edit
<1>2. InputsTyped'
  BY <1>1 DEF EffortInv, InputsTyped
<1>3. edits' \in 0..MaxEdits
  BY <1>1 DEF EffortInv, TablesTyped, Known
<1>4. TablesTyped'
  BY <1>1, <1>3 DEF EffortInv, TablesTyped, TopicOK, EffortOK
<1>5. ASSUME NEW n \in fresh'
      PROVE  /\ Reports!RefreshTopicBase(n)' = Reports!RefreshTopicBase(n)
             /\ Reports!AllocatePeriod(n, Reports!RefreshTopicBase(n))' = Reports!AllocatePeriod(n, Reports!RefreshTopicBase(n))
  <2>1. \A q \in Persons : clocked'[q][n] = clocked[q][n]
    BY <1>1, <1>5 DEF EffortInv, InputsTyped
  <2>2. Reports!RefreshTopicBase(n)' = Reports!RefreshTopicBase(n)
    BY <1>1 DEF Reports!RefreshTopicBase, Reports!Booked, Reports!RoleForWorklog, Reports!TopicRow
  <2>3. Reports!AllocatePeriod(n, Reports!RefreshTopicBase(n))' = Reports!AllocatePeriod(n, Reports!RefreshTopicBase(n))
    BY <1>1, <2>1, <2>2 DEF Reports!AllocatePeriod, Reports!IndirectRows
  <2> QED BY <2>2, <2>3
<1>6. FreshIsRebuilt'
  BY <1>1, <1>5 DEF EffortInv, FreshIsRebuilt, TopicsOf, EffortOf
<1> QED BY <1>2, <1>4, <1>6 DEF EffortInv

LEMMA AssignInv ==
  ASSUME Known, EffortInv, NEW p \in Persons, NEW history \in Histories, Reports!Assign(p, history)
  PROVE  EffortInv'
<1>1. /\ assigned' = [assigned EXCEPT ![p] = history] /\ fresh' = {}
      /\ UNCHANGED <<worklogs, clocked, excluded, topics, effort>> /\ edits < MaxEdits /\ edits' = edits + 1
  BY DEF Reports!Assign, Reports!Edit
<1>2. InputsTyped'
  BY <1>1 DEF EffortInv, InputsTyped
<1>3. edits' \in 0..MaxEdits
  BY <1>1 DEF EffortInv, TablesTyped, Known
<1>4. TablesTyped'
  BY <1>1, <1>3 DEF EffortInv, TablesTyped, TopicOK, EffortOK
<1>5. FreshIsRebuilt'
  BY <1>1 DEF FreshIsRebuilt
<1> QED BY <1>2, <1>4, <1>5 DEF EffortInv

LEMMA ExcludeInv ==
  ASSUME Known, EffortInv, NEW p \in Persons, Reports!Exclude(p)
  PROVE  EffortInv'
<1>1. /\ excluded' \in {excluded \ {p}, excluded \cup {p}} /\ fresh' = {}
      /\ UNCHANGED <<worklogs, clocked, assigned, topics, effort>> /\ edits < MaxEdits /\ edits' = edits + 1
  BY DEF Reports!Exclude, Reports!Edit
<1>2. InputsTyped'
  BY <1>1 DEF EffortInv, InputsTyped
<1>3. edits' \in 0..MaxEdits
  BY <1>1 DEF EffortInv, TablesTyped, Known
<1>4. TablesTyped'
  BY <1>1, <1>3 DEF EffortInv, TablesTyped, TopicOK, EffortOK
<1>5. FreshIsRebuilt'
  BY <1>1 DEF FreshIsRebuilt
<1> QED BY <1>2, <1>4, <1>5 DEF EffortInv

LEMMA RebuildInv ==
  ASSUME Known, EffortInv, NEW months \in SUBSET Months, Reports!RebuildMonthlyAllocation(months)
  PROVE  EffortInv'
<1> DEFINE g == [m \in months |-> Reports!RefreshTopicBase(m)]
           h == [m \in months |-> Reports!AllocatePeriod(m, Reports!RefreshTopicBase(m))]
<1>1. /\ topics' = {t \in topics : t.month \notin months} \cup UNION {g[m] : m \in months}
      /\ effort' = {e \in effort : e.month \notin months} \cup UNION {h[m] : m \in months}
      /\ fresh' = fresh \cup months
      /\ UNCHANGED <<worklogs, assigned, excluded, clocked, edits>>
  BY DEF Reports!RebuildMonthlyAllocation, Reports!inputs
<1>2. ASSUME NEW m \in months
      PROVE  /\ g[m] = Reports!RefreshTopicBase(m) /\ h[m] = Reports!AllocatePeriod(m, Reports!RefreshTopicBase(m))
             /\ IsFiniteSet(g[m]) /\ \A t \in g[m] : t.month = m /\ TopicOK(t)
             /\ IsFiniteSet(h[m]) /\ \A e \in h[m] : e.month = m /\ EffortOK(e)
  <2>1. g[m] = Reports!RefreshTopicBase(m) /\ h[m] = Reports!AllocatePeriod(m, Reports!RefreshTopicBase(m)) /\ m \in Months
    OBVIOUS
  <2> HIDE DEF g, h
  <2>2. IsFiniteSet(g[m]) /\ \A t \in g[m] : t.month = m /\ TopicOK(t)
    BY <2>1, TopicsBased DEF EffortInv
  <2>3. IsFiniteSet(h[m]) /\ \A e \in h[m] : e.month = m /\ EffortOK(e)
    BY <2>1, MonthAllocated DEF EffortInv, MonthsEffort
  <2> QED BY <2>1, <2>2, <2>3
<1> HIDE DEF g, h
<1>3. IsFiniteSet(months)
  BY MonthsAssumption, FS_Subset
<1>4. IsFiniteSet(topics) /\ IsFiniteSet(effort)
  BY DEF EffortInv, TablesTyped
<1>5. Anew(topics', topics, months, g)
  <2>1. ByMonth(g, months)
    BY <1>2 DEF ByMonth
  <2>2. topics' = Outside(topics, months) \cup Written(g, months)
    BY <1>1 DEF Outside, Written
  <2> QED BY <1>3, <1>4, <2>1, <2>2, MonthsPut
<1>6. Anew(effort', effort, months, h)
  <2>1. ByMonth(h, months)
    BY <1>2 DEF ByMonth
  <2>2. effort' = Outside(effort, months) \cup Written(h, months)
    BY <1>1 DEF Outside, Written
  <2> QED BY <1>3, <1>4, <2>1, <2>2, MonthsPut
<1>7. InputsTyped'
  BY <1>1 DEF EffortInv, InputsTyped
<1>8. (\A t \in topics' : TopicOK(t)) /\ \A e \in effort' : EffortOK(e)
  BY <1>1, <1>2 DEF EffortInv, TablesTyped
<1>9. fresh' \subseteq Months /\ edits' \in 0..MaxEdits
  BY <1>1 DEF EffortInv, TablesTyped
<1>10. TablesTyped'
  BY <1>5, <1>6, <1>8, <1>9 DEF TablesTyped, TopicOK, EffortOK, Anew
<1>11. ASSUME NEW m \in fresh'
       PROVE  /\ TopicsOf(m)' = Reports!RefreshTopicBase(m)'
              /\ EffortOf(m)' = Reports!AllocatePeriod(m, Reports!RefreshTopicBase(m))'
  <2>1. /\ Reports!RefreshTopicBase(m)' = Reports!RefreshTopicBase(m)
        /\ Reports!AllocatePeriod(m, Reports!RefreshTopicBase(m))' = Reports!AllocatePeriod(m, Reports!RefreshTopicBase(m))
    BY <1>1, SameEffort
  <2>2. CASE m \in months
    BY <1>2, <1>5, <1>6, <2>1, <2>2 DEF TopicsOf, EffortOf, InMonth, Anew
  <2>3. CASE m \notin months
    BY <1>1, <1>5, <1>6, <2>1, <2>3 DEF TopicsOf, EffortOf, InMonth, Anew, EffortInv, FreshIsRebuilt
  <2> QED BY <2>2, <2>3
<1>12. FreshIsRebuilt'
  BY <1>11 DEF FreshIsRebuilt
<1> QED BY <1>7, <1>10, <1>12 DEF EffortInv

LEMMA EffortNext == ASSUME Known PROVE EffortInv /\ [Reports!Next]_(Reports!vars) => EffortInv'
<1> SUFFICES ASSUME EffortInv, [Reports!Next]_(Reports!vars) PROVE EffortInv'
  OBVIOUS
<1>1. CASE UNCHANGED Reports!vars
  <2>1. UNCHANGED <<worklogs, assigned, excluded, clocked, topics, effort, fresh, edits>>
    BY <1>1 DEF Reports!vars, Reports!inputs
  <2>2. \A m : /\ Reports!RefreshTopicBase(m)' = Reports!RefreshTopicBase(m)
               /\ Reports!AllocatePeriod(m, Reports!RefreshTopicBase(m))' = Reports!AllocatePeriod(m, Reports!RefreshTopicBase(m))
    BY <2>1, SameEffort
  <2>3. FreshIsRebuilt'
    BY <2>1, <2>2 DEF EffortInv, FreshIsRebuilt, TopicsOf, EffortOf
  <2>4. InputsTyped' /\ TablesTyped'
    BY <2>1 DEF EffortInv, InputsTyped, TablesTyped, TopicOK, EffortOK
  <2> QED BY <2>3, <2>4 DEF EffortInv
<1>2. CASE Reports!Next
  <2>1. ASSUME NEW w \in Work, Reports!Book(w) PROVE EffortInv'
    BY <2>1, BookInv
  <2>2. ASSUME NEW p \in Persons, Reports!Exclude(p) PROVE EffortInv'
    BY <2>2, ExcludeInv
  <2>3. ASSUME NEW p \in Persons, NEW history \in Histories, Reports!Assign(p, history) PROVE EffortInv'
    BY <2>3, AssignInv
  <2>4. ASSUME NEW p \in Persons, NEW m \in Months, NEW hours \in Clocks, Reports!Clock(p, m, hours) PROVE EffortInv'
    BY <2>4, ClockInv
  <2>5. ASSUME NEW months \in {Reports!DistinctWorklogMonths} \cup {{m} : m \in Months},
               Reports!RebuildMonthlyAllocation(months)
        PROVE  EffortInv'
    <3>1. Reports!DistinctWorklogMonths \subseteq Months
      <4>1. \A w \in worklogs : w.day \in Days
        BY DEF EffortInv, InputsTyped, Known, WorkKnown
      <4>2. \A w \in worklogs : MonthOf[w.day] \in Months
        BY <4>1 DEF Known, CalendarKnown
      <4> QED BY <4>2 DEF Reports!DistinctWorklogMonths
    <3>2. months \in SUBSET Months
      BY <3>1
    <3> QED BY <2>5, <3>2, RebuildInv
  <2> QED BY <1>2, <2>1, <2>2, <2>3, <2>4, <2>5 DEF Reports!Next
<1> QED BY <1>1, <1>2

-----------------------------------------------------------------------------
LEMMA EffortTypes == ASSUME Known, EffortInv PROVE Reports!TypeOK
  BY DEF EffortInv, InputsTyped, TablesTyped, EffortOK, Reports!TypeOK

LEMMA FreshEffort ==
  ASSUME Known, EffortInv, NEW m \in fresh
  PROVE  /\ m \in Months /\ TopicsOf(m) = Reports!RefreshTopicBase(m)
         /\ MonthsEffort(m, TopicsOf(m), EffortOf(m))
<1>1. m \in Months /\ InputsTyped
  BY DEF EffortInv, TablesTyped
<1>2. TopicsOf(m) = Reports!RefreshTopicBase(m) /\ EffortOf(m) = Reports!AllocatePeriod(m, Reports!RefreshTopicBase(m))
  BY DEF EffortInv, FreshIsRebuilt
<1>3. MonthsEffort(m, Reports!RefreshTopicBase(m), Reports!AllocatePeriod(m, Reports!RefreshTopicBase(m)))
  BY <1>1, MonthAllocated
<1> QED BY <1>1, <1>2, <1>3

LEMMA RowsOf ==
  ASSUME NEW p, NEW m, NEW kind
  PROVE  Reports!Of(p, m, kind) = OfPerson(EffortOf(m), p, kind)
  BY DEF Reports!Of, OfPerson, EffortOf

LEMMA SameSize == ASSUME NEW S PROVE Reports!Cardinality(S) = Cardinality(S)
  BY DEF Cardinality, Reports!Cardinality

LEMMA HoursShared == ASSUME Known, EffortInv PROVE Reports!ClockedHoursAreShared
<1>1. ASSUME NEW m \in fresh, NEW p \in Persons, Reports!Of(p, m, "indirect_allocated") # {}
      PROVE  MakeUp(Reports!Of(p, m, "indirect_allocated"), Reports!Of(p, m, "shared_overhead"), clocked[p][m].clocked)
  BY <1>1, FreshEffort, RowsOf DEF MonthsEffort
<1> QED BY <1>1, SameSize DEF Reports!ClockedHoursAreShared, MakeUp

LEMMA TwoOfMany ==
  ASSUME NEW S, IsFiniteSet(S), NEW x \in S, NEW y \in S, x # y
  PROVE  Cardinality(S) > 1
<1>1. IsFiniteSet({x}) /\ Cardinality({x}) = 1
  BY FS_Singleton
<1>2. Cardinality({x} \cup {y}) = 2
  BY <1>1, FS_AddElement
<1>3. {x} \cup {y} \subseteq S
  OBVIOUS
<1>4. Cardinality({x} \cup {y}) =< Cardinality(S) /\ Cardinality(S) \in Nat
  BY <1>3, FS_Subset, FS_CardinalityType
<1> QED BY <1>2, <1>4

LEMMA CountedOnce == ASSUME Known, EffortInv PROVE Reports!HoursAreCountedOnce
<1>1. ASSUME NEW m \in fresh, NEW p \in Persons,
             NEW e \in Reports!Of(p, m, "direct_worklog"),
             NEW f \in Reports!Of(p, m, "indirect_allocated") \cup Reports!Of(p, m, "shared_overhead")
      PROVE  Cardinality(Reports!RolesIn(p, m)) > 1
  <2> DEFINE role == [d \in Days |-> Reports!RoleOf(Reports!AssignmentForUser(assigned[p], d))]
             days == {d \in Days : MonthOf[d] = m}
  <2>1. Reports!RolesIn(p, m) = {role[d] : d \in days}
    BY DEF Reports!RolesIn, Days
  <2>2. IsFiniteSet(days)
    BY FS_Subset DEF Known, CalendarKnown
  <2>3. \A d \in Days : role[d] = Reports!RoleOf(Reports!AssignmentForUser(assigned[p], d))
    OBVIOUS
  <2>4. e \in OfKind(EffortOf(m), "direct_worklog") /\ e.person = p
    BY RowsOf DEF OfPerson, OfKind
  <2>5. f \in EffortOf(m) /\ f.person = p /\ f.kind # "direct_worklog"
    BY RowsOf DEF OfPerson
  <2>6. m \in Months /\ TopicsOf(m) = Reports!RefreshTopicBase(m) /\ MonthsEffort(m, TopicsOf(m), EffortOf(m)) /\ InputsTyped
    BY FreshEffort DEF EffortInv
  <2>7. PICK t \in TopicsOf(m) : e.person = t.person /\ e.role = t.role
    BY <2>4, <2>6 DEF MonthsEffort
  <2>8. /\ t.role \in Direct
        /\ \E w \in worklogs : MonthOf[w.day] = m /\ t.person = w.person /\ t.role = Reports!RoleForWorklog(w)
    BY <2>6, TopicsBased
  <2>9. PICK w \in worklogs : MonthOf[w.day] = m /\ t.person = w.person /\ t.role = Reports!RoleForWorklog(w)
    BY <2>8
  <2>10. w.day \in Days /\ FirstDay[m] \in Days /\ MonthOf[FirstDay[m]] = m
    BY <2>6 DEF Known, WorkKnown, CalendarKnown, InputsTyped
  <2>11. Reports!RoleForWorklog(w) = Reports!RoleOf(Reports!AssignmentForUser(assigned[w.person], w.day))
    BY <2>6, <2>8, <2>9, ProducerAssigned
  <2>12. role[w.day] \in Direct
    BY <2>3, <2>4, <2>7, <2>8, <2>9, <2>10, <2>11
  <2>13. role[FirstDay[m]] \notin Direct
    <3>1. FirstRole(p, m) \in DOMAIN Rule \ Direct
      BY <2>5, <2>6 DEF MonthsEffort
    <3> QED BY <2>3, <2>10, <3>1 DEF FirstRole
  <2> HIDE DEF role
  <2>14. IsFiniteSet({role[d] : d \in days})
    <3> HIDE DEF days
    <3> QED BY <2>2, ValuesFinite
  <2>15. role[w.day] \in {role[d] : d \in days} /\ role[FirstDay[m]] \in {role[d] : d \in days}
    BY <2>9, <2>10
  <2> QED BY <2>1, <2>12, <2>13, <2>14, <2>15, TwoOfMany
<1> QED BY <1>1, SameSize DEF Reports!HoursAreCountedOnce

LEMMA SharesOfTopics == ASSUME Known, EffortInv PROVE Reports!SharesAreOfTopics
<1>1. ASSUME NEW m \in fresh
      PROVE  LET ids == {t.of : t \in {t \in topics : t.month = m}}
             IN  /\ {e.of : e \in {e \in effort : e.month = m}} \subseteq ids \cup {None}
                 /\ ids = {e.of : e \in {e \in effort : e.month = m /\ e.kind = "direct_worklog"}}
                 /\ \A e \in {e \in effort : e.month = m} : e.person \notin excluded /\ assigned[e.person] # <<>>
  <2>1. MonthsEffort(m, TopicsOf(m), EffortOf(m))
    BY FreshEffort
  <2>2. TopicsOf(m) = {t \in topics : t.month = m} /\ EffortOf(m) = {e \in effort : e.month = m}
    BY DEF TopicsOf, EffortOf
  <2>3. OfKind(EffortOf(m), "direct_worklog") = {e \in effort : e.month = m /\ e.kind = "direct_worklog"}
    BY DEF OfKind, EffortOf
  <2>4. \A e \in EffortOf(m) : e.of \in {t.of : t \in TopicsOf(m)} \cup {None}
    BY <2>1 DEF MonthsEffort
  <2>5. {t.of : t \in TopicsOf(m)} = {e.of : e \in OfKind(EffortOf(m), "direct_worklog")}
    BY <2>1 DEF MonthsEffort
  <2>6. \A e \in EffortOf(m) : e.person \notin excluded /\ assigned[e.person] # <<>>
    BY <2>1 DEF MonthsEffort
  <2> QED BY <2>2, <2>3, <2>4, <2>5, <2>6
<1> QED BY <1>1 DEF Reports!SharesAreOfTopics

LEMMA EffortInvariance == ASSUME Known PROVE Reports!Spec => []EffortInv
<1>1. Reports!Init => EffortInv
  BY EffortInit
<1>2. EffortInv /\ [Reports!Next]_(Reports!vars) => EffortInv'
  BY EffortNext
<1> QED BY <1>1, <1>2, PTL DEF Reports!Spec

(* The rows of effort are of known months and persons and have no fraction of their    *)
(* last digit, whatever is booked, assigned, excluded and clocked between rebuilds     *)
(* (allocation_service.py, refresh_topic_base.py).                                     *)
THEOREM EffortTyped == ASSUME Known PROVE Reports!Spec => []Reports!TypeOK
<1>1. EffortInv => Reports!TypeOK
  BY EffortTypes
<1> QED BY <1>1, EffortInvariance, PTL

(* Once a month is rebuilt, the hours clocked for a person who does not book are all in *)
(* the person's rows but for their rounding, nobody's hours count as worklogs and again *)
(* as shares unless the role changes within the month, and the rows of both tables are  *)
(* about the same worklogs (allocation_service.py, refresh_topic_base.py).              *)
THEOREM EffortIsShared == ASSUME Known PROVE Reports!Spec => []Reports!EffortAddsUp
<1>1. EffortInv => Reports!EffortAddsUp
  BY HoursShared, CountedOnce, SharesOfTopics DEF Reports!EffortAddsUp
<1> QED BY <1>1, EffortInvariance, PTL

-----------------------------------------------------------------------------
(* What the reports add up *)

SecondsIn == [t \in topics |-> t.seconds]
HoursIn == [e \in effort |-> e.hours]

LEMMA PartHours ==
  ASSUME EffortInv, NEW rows \in SUBSET effort
  PROVE  /\ IsFiniteSet(rows) /\ Summable(HoursIn, rows) /\ \A e \in rows : HoursIn[e] = e.hours /\ HoursIn[e] \in Nat
         /\ Reports!Hours(rows) = SumFunctionOnSet(HoursIn, rows) /\ Reports!Hours(rows) \in Nat
<1>1. IsFiniteSet(rows)
  BY FS_Subset DEF EffortInv, TablesTyped
<1>2. \A e \in rows : HoursIn[e] = e.hours /\ HoursIn[e] \in Nat
  BY DEF HoursIn, EffortInv, TablesTyped, EffortOK
<1>3. Reports!Hours(rows) = SumFunctionOnSet(HoursIn, rows)
  BY <1>1, <1>2, HoursSummed
<1>4. SumFunctionOnSet(HoursIn, rows) \in Nat
  BY <1>1, <1>2, SumNatural
<1>5. Summable(HoursIn, rows)
  BY <1>1, <1>2 DEF Summable
<1> QED BY <1>1, <1>2, <1>3, <1>4, <1>5

LEMMA PartSeconds ==
  ASSUME EffortInv, NEW rows \in SUBSET topics
  PROVE  /\ IsFiniteSet(rows) /\ Summable(SecondsIn, rows) /\ \A t \in rows : SecondsIn[t] = t.seconds /\ SecondsIn[t] \in Nat
         /\ Reports!Seconds(rows) = SumFunctionOnSet(SecondsIn, rows) /\ Reports!Seconds(rows) \in Nat
<1>1. IsFiniteSet(rows)
  BY FS_Subset DEF EffortInv, TablesTyped
<1>2. \A t \in rows : SecondsIn[t] = t.seconds /\ SecondsIn[t] \in Nat
  BY DEF SecondsIn, EffortInv, TablesTyped, TopicOK
<1>3. Reports!Seconds(rows) = SumFunctionOnSet(SecondsIn, rows)
  BY <1>1, <1>2, SecondsSummed
<1>4. SumFunctionOnSet(SecondsIn, rows) \in Nat
  BY <1>1, <1>2, SumNatural
<1>5. Summable(SecondsIn, rows)
  BY <1>1, <1>2 DEF Summable
<1> QED BY <1>1, <1>2, <1>3, <1>4, <1>5

LEMMA FeaturesRooted ==
  ASSUME NEW issue
  PROVE  /\ Reports!ClassifyTopicType(issue) = "feature" <=> issue.root # None
         /\ Reports!ClassifyTopicType(issue) \in {"feature", "unclassified"} \cup Reports!Improvements
<1>1. CASE issue.root # None
  BY <1>1, Zenon DEF Reports!ClassifyTopicType, Reports!Improvements
<1>2. CASE issue.root = None
  BY <1>2, Zenon DEF Reports!ClassifyTopicType, Reports!Improvements
<1> QED BY <1>1, <1>2

LEMMA UnassignedAddUp == ASSUME EffortInv, NEW b PROVE Reports!UnassignedAgrees(b)
<1> DEFINE rows == {t \in topics : t.month \in Reports!FirstDaysIn(b)}
           without == Reports!WithoutFeature(b, None)
           featured == {t \in rows : t.topic = "feature"}
           ids == {t.issue : t \in without}
           of(i) == {t \in without : t.issue = i}
           key == [t \in without |-> t.issue]
           r == [i \in ids |-> Reports!Unassigned(i, of(i))]
           page == RowsFor(r, ids)
           g == [s \in Reports!IssuesWithoutFeature(b, None, 0) |-> s.seconds]
<1>1. without \subseteq topics /\ rows \subseteq topics /\ featured \subseteq topics
  BY DEF Reports!WithoutFeature
<1>2. rows = without \cup featured /\ without \cap featured = {}
  BY FeaturesRooted DEF Reports!WithoutFeature, EffortInv, TablesTyped, TopicOK
<1>3. ASSUME NEW i \in ids
      PROVE  /\ r[i].issue = i /\ r[i].seconds = SumFunctionOnSet(SecondsIn, Group(without, key, i))
             /\ r[i].seconds \in Nat
  <2>1. r[i].issue = i /\ r[i].seconds = Reports!Seconds(of(i))
    BY DEF Reports!Unassigned
  <2>2. of(i) \subseteq topics /\ of(i) = Group(without, key, i)
    BY <1>1 DEF Group
  <2> HIDE DEF r, of, key, without
  <2> QED BY <2>1, <2>2, PartSeconds
<1>4. Reports!IssuesWithoutFeature(b, None, 0) = page
  <2>1. page = Reports!UnassignedIssues(without)
    BY DEF Reports!UnassignedIssues, RowsFor
  <2>2. \A s \in page : s.seconds >= 0
    <3> HIDE DEF r, ids, key, without
    <3>1. ASSUME NEW i \in ids PROVE r[i].seconds >= 0
      BY <1>3
    <3> QED BY <3>1 DEF RowsFor
  <2> QED BY <2>1, <2>2 DEF Reports!IssuesWithoutFeature
<1>5. \A t \in without : key[t] \in ids
  OBVIOUS
<1>6. \A s \in page : g[s] = s.seconds
  BY <1>4
<1>7. DOMAIN g = page
  BY <1>4
<1>8. IsFiniteSet(ids)
  <2> DEFINE k == [t \in without |-> t.issue]
  <2>1. ids = {k[t] : t \in without} /\ IsFiniteSet(without)
    BY <1>1, PartSeconds
  <2> HIDE DEF k, ids, without
  <2> QED BY <2>1, ValuesFinite
<1>9. SumFunctionOnSet(g, page) = SumFunctionOnSet(SecondsIn, without)
  <2>1. Summable(SecondsIn, without)
    BY <1>1, PartSeconds
  <2>2. \A i, j \in ids : r[i] = r[j] => i = j
    BY <1>3
  <2>3. \A i \in ids : g[r[i]] = SumFunctionOnSet(SecondsIn, Group(without, key, i))
    <3> HIDE DEF r, ids, g, key
    <3> QED BY <1>3, <1>6 DEF RowsFor
  <2> HIDE DEF g, r, key, ids, without
  <2>4. Tabulates(r, ids, g, SecondsIn, without, key)
    BY <1>5, <1>8, <2>1, <2>2, <2>3 DEF Tabulates
  <2> QED BY <2>4, SumTable
<1>10. Reports!SumFunction(g) = SumFunctionOnSet(g, page)
  <2> HIDE DEF g, page
  <2> QED BY <1>7, SumOfAll
<1>11. /\ Reports!Seconds(rows) = SumFunctionOnSet(SecondsIn, without) + SumFunctionOnSet(SecondsIn, featured)
       /\ Reports!Seconds(featured) = SumFunctionOnSet(SecondsIn, featured)
  <2> HIDE DEF rows, without, featured
  <2>1. Summable(SecondsIn, without \cup featured)
    BY <1>1, <1>2, PartSeconds
  <2>2. SumFunctionOnSet(SecondsIn, without \cup featured) = SumFunctionOnSet(SecondsIn, without) + SumFunctionOnSet(SecondsIn, featured)
    BY <1>2, <2>1, SumUnion
  <2>3. Reports!Seconds(rows) = SumFunctionOnSet(SecondsIn, rows) /\ Reports!Seconds(featured) = SumFunctionOnSet(SecondsIn, featured)
    BY <1>1, PartSeconds
  <2> QED BY <1>2, <2>2, <2>3, Zenon
<1>12. Reports!SumFunction(g) + Reports!Seconds(featured) = Reports!Seconds(rows)
  <2> HIDE DEF g, rows, without, featured, page
  <2> QED BY <1>9, <1>10, <1>11, Zenon
<1> QED BY <1>12 DEF Reports!UnassignedAgrees

(* A report with a row of hours for each key of the rows of effort *)
KeysOf(rows, key) == {key[e] : e \in rows}
HoursTabled(r, g, rows, key) ==
    /\ \A k, l \in KeysOf(rows, key) : r[k] = r[l] => k = l
    /\ \A k \in KeysOf(rows, key) : g[r[k]] = Reports!Hours(Group(rows, key, k))

LEMMA HoursTable ==
  ASSUME EffortInv, NEW rows \in SUBSET effort, NEW key, NEW r, NEW g, HoursTabled(r, g, rows, key)
  PROVE  /\ IsFiniteSet(KeysOf(rows, key)) /\ IsFiniteSet(RowsFor(r, KeysOf(rows, key)))
         /\ SumFunctionOnSet(g, RowsFor(r, KeysOf(rows, key))) = Reports!Hours(rows)
<1> DEFINE K == KeysOf(rows, key)
<1>1. IsFiniteSet(K)
  <2>1. IsFiniteSet(rows)
    BY PartHours
  <2> QED BY <2>1, ValuesFinite DEF KeysOf
<1>2. \A e \in rows : key[e] \in K
  BY DEF KeysOf
<1>3. \A k \in K : g[r[k]] = SumFunctionOnSet(HoursIn, Group(rows, key, k))
  <2>1. ASSUME NEW k \in K PROVE Reports!Hours(Group(rows, key, k)) = SumFunctionOnSet(HoursIn, Group(rows, key, k))
    <3>1. Group(rows, key, k) \subseteq effort
      BY DEF Group
    <3> QED BY <3>1, PartHours
  <2> QED BY <2>1 DEF HoursTabled
<1>4. Tabulates(r, K, g, HoursIn, rows, key)
  BY <1>1, <1>2, <1>3, PartHours DEF Tabulates, HoursTabled
<1>5. SumFunctionOnSet(g, RowsFor(r, K)) = SumFunctionOnSet(HoursIn, rows)
  BY <1>4, SumTable
<1>6. IsFiniteSet(RowsFor(r, K))
  <2> HIDE DEF K
  <2> QED BY <1>1, ValuesFinite DEF RowsFor
<1> QED BY <1>1, <1>5, <1>6, PartHours

(* Hours per month and kind of investment are all hours of the rows. *)
LEMMA CategoriesAddUp ==
  ASSUME EffortInv, NEW rows \in SUBSET effort
  PROVE  /\ Reports!Hours(Reports!ByCategory(rows)) = Reports!Hours(rows)
         /\ \A category : {i \in Reports!ByCategory(rows) : i.category = category}
                            = Reports!ByCategory({e \in rows : Reports!Category(e.topic) = category})
<1> DEFINE key == [e \in rows |-> <<e.month, Reports!Category(e.topic)>>]
           Row(k) == [period |-> k[1], category |-> k[2], hours |-> Reports!Hours(Group(rows, key, k))]
           r == [k \in KeysOf(rows, key) |-> Row(k)]
           page == Reports!ByCategory(rows)
           g == [i \in page |-> i.hours]
<1>1. \A e \in rows : Group(rows, key, key[e]) = {f \in rows : f.month = e.month /\ Reports!Category(f.topic) = Reports!Category(e.topic)}
  BY DEF Group
<1>2. page = {Row(key[e]) : e \in rows}
  <2> DEFINE c(e) == [period |-> e.month, category |-> Reports!Category(e.topic),
                      hours |-> Reports!Hours({f \in rows : f.month = e.month /\ Reports!Category(f.topic) = Reports!Category(e.topic)})]
  <2>1. \A e \in rows : Row(key[e]) = c(e)
    <3>1. ASSUME NEW e \in rows PROVE Row(key[e]) = c(e)
      <4>1. key[e] = <<e.month, Reports!Category(e.topic)>>
        OBVIOUS
      <4> QED BY <1>1, <4>1
    <3> QED BY <3>1
  <2>2. page = {c(e) : e \in rows}
    BY DEF Reports!ByCategory
  <2> HIDE DEF page, Row, key, c
  <2> QED BY <2>1, <2>2
<1>3. page = RowsFor(r, KeysOf(rows, key))
  <2> HIDE DEF page, Row, key
  <2> QED BY <1>2 DEF RowsFor, KeysOf
<1>4. \A k \in KeysOf(rows, key) : r[k].period = k[1] /\ r[k].category = k[2] /\ r[k].hours = Reports!Hours(Group(rows, key, k))
  BY DEF KeysOf
<1>5. \A k \in KeysOf(rows, key) : k = <<k[1], k[2]>>
  BY DEF KeysOf
<1>6. HoursTabled(r, g, rows, key)
  <2>1. ASSUME NEW k \in KeysOf(rows, key), NEW l \in KeysOf(rows, key), r[k] = r[l] PROVE k = l
    <3>1. k[1] = l[1] /\ k[2] = l[2]
      <4> HIDE DEF r, key
      <4> QED BY <1>4, <2>1
    <3> QED BY <1>5, <3>1
  <2>2. ASSUME NEW k \in KeysOf(rows, key) PROVE g[r[k]] = Reports!Hours(Group(rows, key, k))
    <3>1. r[k] \in page
      <4> HIDE DEF r, key, page
      <4> QED BY <1>3 DEF RowsFor
    <3>2. g[r[k]] = r[k].hours
      <4> HIDE DEF r, key, page
      <4> QED BY <3>1
    <3> HIDE DEF r, key, page, g
    <3> QED BY <1>4, <3>2
  <2> HIDE DEF r, g, key
  <2> QED BY <2>1, <2>2 DEF HoursTabled
<1>7. Reports!Hours(page) = Reports!Hours(rows)
  <2>1. \A i \in page : g[i] = i.hours
    OBVIOUS
  <2> HIDE DEF r, g, key, page
  <2>2. IsFiniteSet(page) /\ SumFunctionOnSet(g, page) = Reports!Hours(rows)
    BY <1>3, <1>6, HoursTable
  <2> QED BY <2>1, <2>2, HoursSummed
<1>8. ASSUME NEW category
      PROVE  {i \in page : i.category = category} = Reports!ByCategory({e \in rows : Reports!Category(e.topic) = category})
  <2> DEFINE some == {e \in rows : Reports!Category(e.topic) = category}
             c(e, all) == [period |-> e.month, category |-> Reports!Category(e.topic),
                           hours |-> Reports!Hours({f \in all : f.month = e.month /\ Reports!Category(f.topic) = Reports!Category(e.topic)})]
  <2>1. \A e \in some : {f \in some : f.month = e.month /\ Reports!Category(f.topic) = Reports!Category(e.topic)}
                          = {f \in rows : f.month = e.month /\ Reports!Category(f.topic) = Reports!Category(e.topic)}
    OBVIOUS
  <2>2. \A e \in some : c(e, some) = c(e, rows)
    BY <2>1
  <2>3. page = {c(e, rows) : e \in rows} /\ Reports!ByCategory(some) = {c(e, some) : e \in some}
    BY DEF Reports!ByCategory
  <2>4. \A e \in rows : c(e, rows).category = Reports!Category(e.topic)
    OBVIOUS
  <2> HIDE DEF c, page
  <2>5. {i \in page : i.category = category} = {c(e, rows) : e \in some}
    BY <2>3, <2>4
  <2> QED BY <2>2, <2>3, <2>5
<1> QED BY <1>7, <1>8

-----------------------------------------------------------------------------
(* How reports resolve an assignment *)

LEMMA LatestFound ==
  ASSUME NEW some, IsFiniteSet(some), some # {}, \A a \in some : a.from \in Nat
  PROVE  Reports!Latest(some) \in some /\ \A a \in some : a.from =< Reports!Latest(some).from
<1> DEFINE f == [a \in some |-> a.from]
           S == {f[a] : a \in some}
<1>1. IsFiniteSet(S)
  <2> HIDE DEF f
  <2> QED BY ValuesFinite
<1>2. S \subseteq Nat /\ S # {}
  OBVIOUS
<1>3. \E z \in S : \A y \in S : z >= y
  <2> HIDE DEF S
  <2> QED BY <1>1, <1>2, GreatestExists
<1>4. \E a \in some : \A b \in some : b.from <= a.from
  BY <1>3
<1> QED BY <1>4 DEF Reports!Latest

LEMMA AssignmentsKnown ==
  ASSUME Known, InputsTyped, NEW p \in Persons
  PROVE  /\ IsFiniteSet(Reports!AssignmentsOf(p))
         /\ \A a \in Reports!AssignmentsOf(p) : /\ a # None /\ a.from \in Nat /\ a.team \in Reports!Teams \cup {None}
                                                /\ \E n \in DOMAIN assigned[p] : a = assigned[p][n]
<1> DEFINE h == assigned[p]
           all == Reports!AssignmentsOf(p)
<1>1. all = {h[n] : n \in DOMAIN h}
  BY DEF Reports!AssignmentsOf
<1>2. h \in Histories \cup {<<>>}
  BY DEF InputsTyped
<1>3. CASE h = <<>>
  <2>1. DOMAIN h = {}
    BY <1>3
  <2>2. all = {}
    <3> HIDE DEF h, all
    <3> QED BY <1>1, <2>1
  <2> HIDE DEF all
  <2> QED BY <2>2, FS_EmptySet DEF all
<1>4. CASE h \in Histories
  <2>1. IsFiniteSet(DOMAIN h) /\ \A n \in DOMAIN h : h[n] # None /\ h[n].from \in Nat
    BY <1>4 DEF Known, HistoriesKnown
  <2>2. \A n \in DOMAIN h : h[n].team \in Reports!Teams \cup {None}
    <3>1. ASSUME NEW n \in DOMAIN h PROVE h[n] \in UNION {{k[i] : i \in DOMAIN k} : k \in Histories}
      <4> HIDE DEF h
      <4>1. h[n] \in {h[i] : i \in DOMAIN h}
        OBVIOUS
      <4>2. {h[i] : i \in DOMAIN h} \in {{k[i] : i \in DOMAIN k} : k \in Histories}
        BY <1>4
      <4> QED BY <4>1, <4>2, Zenon
    <3> HIDE DEF h
    <3> QED BY <3>1 DEF Reports!Teams
  <2> HIDE DEF h
  <2>3. IsFiniteSet({h[n] : n \in DOMAIN h})
    BY <2>1, ValuesFinite
  <2> HIDE DEF all
  <2> QED BY <1>1, <2>1, <2>2, <2>3 DEF all, h
<1> QED BY <1>2, <1>3, <1>4

LEMMA TeamsFinite == ASSUME Known PROVE IsFiniteSet(Reports!Teams) /\ None \notin Reports!Teams
<1> DEFINE s == [h \in Histories |-> {h[n] : n \in DOMAIN h}]
           sets == {s[h] : h \in Histories}
           all == UNION sets
           f == [a \in all |-> a.team]
<1>1. \A h \in Histories : IsFiniteSet(s[h])
  <2>1. ASSUME NEW h \in Histories PROVE IsFiniteSet(s[h])
    <3>1. IsFiniteSet(DOMAIN h) /\ s[h] = {h[n] : n \in DOMAIN h}
      BY DEF Known, HistoriesKnown
    <3> HIDE DEF s
    <3> QED BY <3>1, ValuesFinite
  <2> QED BY <2>1
<1>2. Reports!Teams = {f[a] : a \in all} \ {None}
  <2>1. Reports!Teams = {a.team : a \in all} \ {None}
    <3>1. sets = {{h[n] : n \in DOMAIN h} : h \in Histories}
      OBVIOUS
    <3> HIDE DEF sets
    <3> QED BY <3>1 DEF Reports!Teams
  <2> HIDE DEF all
  <2> QED BY <2>1
<1> HIDE DEF s, f
<1>3. IsFiniteSet(sets) /\ \A T \in sets : IsFiniteSet(T)
  BY <1>1, ValuesFinite, SMTT(40) DEF Known, HistoriesKnown
<1>4. IsFiniteSet(all)
  <2> HIDE DEF sets
  <2> QED BY <1>3, FS_UNION
<1>5. IsFiniteSet({f[a] : a \in all})
  <2> HIDE DEF all
  <2> QED BY <1>4, ValuesFinite
<1>6. IsFiniteSet(Reports!Teams)
  <2> HIDE DEF all
  <2> QED BY <1>2, <1>5, FS_Subset
<1> QED BY <1>6 DEF Reports!Teams

LEMMA PreferFound ==
  ASSUME NEW some, IsFiniteSet(some), some # {}, \A a \in some : a.from \in Nat
  PROVE  Reports!PreferBest(some) \in some
<1> DEFINE teamed == {a \in some : a.team # None}
<1>1. IsFiniteSet(teamed) /\ teamed \subseteq some
  BY FS_Subset
<1>2. Reports!PreferBest(some) = IF teamed = {} THEN Reports!Latest(some) ELSE Reports!Latest(teamed)
  BY DEF Reports!PreferBest
<1> HIDE DEF teamed
<1>3. teamed # {} => Reports!Latest(teamed) \in some
  BY <1>1, LatestFound
<1> QED BY <1>2, <1>3, LatestFound

LEMMA PickFound ==
  ASSUME NEW some, IsFiniteSet(some), \A a \in some : a.from \in Nat, NEW day
  PROVE  LET a == Reports!PickAssignment(some, day)
             valid == {c \in some : Reports!Valid(c, day)}
         IN  /\ IF some = {} THEN a = None ELSE a \in some
             /\ valid # {} => a \in valid /\ \A c \in valid : c.from =< a.from
<1> DEFINE a == Reports!PickAssignment(some, day)
           valid == {c \in some : Reports!Valid(c, day)}
           past == {c \in some : c.from <= day}
<1>1. IsFiniteSet(valid) /\ valid \subseteq some /\ IsFiniteSet(past) /\ past \subseteq some
  BY FS_Subset
<1>2. CASE some = {}
  BY <1>2 DEF Reports!PickAssignment
<1>3. CASE valid # {}
  <2>1. some # {} /\ \E c \in some : Reports!Valid(c, day)
    BY <1>3
  <2>2. a = Reports!Latest(valid)
    BY <2>1, Zenon DEF Reports!PickAssignment
  <2> HIDE DEF a, valid
  <2>3. a \in valid /\ \A c \in valid : c.from =< a.from
    BY <1>1, <1>3, <2>2, LatestFound
  <2> QED BY <1>1, <2>3 DEF a, valid
<1>4. CASE some # {} /\ valid = {} /\ past # {}
  <2>1. some # {} /\ ~(\E c \in some : Reports!Valid(c, day)) /\ \E c \in some : c.from <= day
    BY <1>4
  <2>2. a = Reports!PreferBest(past)
    BY <2>1, Zenon DEF Reports!PickAssignment
  <2> HIDE DEF a, past, valid
  <2>3. a \in some
    BY <1>1, <1>4, <2>2, PreferFound
  <2> QED BY <1>4, <2>3 DEF a, valid
<1>5. CASE some # {} /\ valid = {} /\ past = {}
  <2>1. some # {} /\ ~(\E c \in some : Reports!Valid(c, day)) /\ ~(\E c \in some : c.from <= day)
    BY <1>5
  <2>2. a = Reports!PreferBest(some)
    BY <2>1, Zenon DEF Reports!PickAssignment
  <2> HIDE DEF a, past, valid
  <2>3. a \in some
    BY <1>1, <1>5, <2>2, PreferFound
  <2> QED BY <1>5, <2>3 DEF a, valid
<1> QED BY <1>2, <1>3, <1>4, <1>5

(* What the pages of the teams have and lack *)
LEMMA JoinedKnown ==
  ASSUME Known, EffortInv, NEW e \in effort
  PROVE  /\ Reports!JoinedTeams(e) \subseteq Reports!Teams /\ IsFiniteSet(Reports!JoinedTeams(e))
         /\ LET a == Reports!AssignmentForAllocatedSource(e.person, FirstDay[e.month])
            IN  /\ Reports!JoinedTeams(e) = {} => (a # None /\ Reports!Valid(a, FirstDay[e.month]) => a.team = None)
<1> DEFINE p == e.person
           day == FirstDay[e.month]
           a == Reports!AssignmentForAllocatedSource(p, day)
           all == Reports!AssignmentsOf(p)
<1>1. p \in Persons /\ InputsTyped
  BY DEF EffortInv, TablesTyped, EffortOK
<1>2. IsFiniteSet(all) /\ \A c \in all : c # None /\ c.from \in Nat /\ c.team \in Reports!Teams \cup {None}
  <2> HIDE DEF p
  <2> QED BY <1>1, AssignmentsKnown
<1>3. Reports!JoinedTeams(e) = {c.team : c \in {c \in all : Reports!Valid(c, day)}} \ {None}
  BY DEF Reports!JoinedTeams
<1>4. Reports!JoinedTeams(e) \subseteq Reports!Teams
  <2> HIDE DEF all, day
  <2> QED BY <1>2, <1>3
<1>5. IF all = {} THEN a = None ELSE a \in all
  <2>1. a = Reports!PickAssignment(all, day)
    BY DEF Reports!AssignmentForAllocatedSource
  <2> HIDE DEF a, all, day
  <2> QED BY <1>2, <2>1, PickFound
<1>6. ASSUME Reports!JoinedTeams(e) = {}, a # None, Reports!Valid(a, day) PROVE a.team = None
  <2>1. a \in all
    BY <1>5, <1>6
  <2> HIDE DEF a, all, day
  <2> QED BY <1>3, <1>6, <2>1
<1> QED BY <1>4, <1>6, TeamsFinite, FS_Subset

LEMMA InvestmentAddsUp == ASSUME Known, EffortInv, NEW b PROVE Reports!InvestmentAgrees(b)
<1> DEFINE months == Reports!MonthlyPeriodBounds(b)
           rows == Reports!AllocatedEffort(months)
           page(team) == Reports!FilterByAssignmentTeam(rows, team)
           ofTeams == UNION {page(team) : team \in Reports!AvailableAssignmentTeams(months)}
           joined(e) == Reports!JoinedTeams(e)
           g == [team \in Reports!Teams |-> Reports!Hours(Reports!InvestmentCategory(b, team))]
           key == [e \in ofTeams |-> CHOOSE team \in joined(e) : TRUE]
<1>1. rows \subseteq effort
  BY DEF Reports!AllocatedEffort
<1>2. \A team : page(team) \subseteq effort /\ page(team) = {e \in rows : team = None \/ team \in joined(e)}
  BY <1>1 DEF Reports!FilterByAssignmentTeam
<1>3. \A team : Reports!Hours(Reports!InvestmentCategory(b, team)) = Reports!Hours(page(team))
  <2>1. \A team : Reports!InvestmentCategory(b, team) = Reports!ByCategory(page(team))
    BY DEF Reports!InvestmentCategory
  <2> HIDE DEF page
  <2> QED BY <1>2, <2>1, CategoriesAddUp
<1>4. page(None) = rows
  BY <1>2
<1>5. \A e \in rows : joined(e) \subseteq Reports!Teams /\ IsFiniteSet(joined(e))
  BY <1>1, JoinedKnown
<1>6. ofTeams = {e \in rows : joined(e) # {}}
  <2>1. Reports!AvailableAssignmentTeams(months) = UNION {joined(e) : e \in rows}
    BY DEF Reports!AvailableAssignmentTeams
  <2>2. None \notin Reports!Teams
    BY TeamsFinite
  <2> HIDE DEF page, joined, rows
  <2>3. \A team \in Reports!AvailableAssignmentTeams(months) : team # None
    BY <1>5, <2>1, <2>2
  <2> QED BY <1>2, <2>1, <2>3
<1>7. ofTeams \subseteq effort
  BY <1>1, <1>6
<1>8. ASSUME \A e \in rows : Reports!Cardinality(joined(e)) <= 1
      PROVE  Reports!SumFunction(g) = Reports!Hours(ofTeams)
  <2>1. ASSUME NEW e \in ofTeams, NEW team \in joined(e) PROVE key[e] = team
    <3>1. e \in rows
      BY <1>6
    <3>2. Cardinality(joined(e)) =< 1 /\ IsFiniteSet(joined(e)) /\ Cardinality(joined(e)) \in Nat
      BY <1>5, <1>8, <3>1, SameSize, FS_CardinalityType
    <3>3. key[e] \in joined(e)
      <4> HIDE DEF joined, ofTeams
      <4> QED BY <2>1
    <3> HIDE DEF key, joined, ofTeams
    <3>4. key[e] # team => Cardinality(joined(e)) > 1
      BY <2>1, <3>2, <3>3, TwoOfMany
    <3> QED BY <3>2, <3>4
  <2>2. \A e \in ofTeams : key[e] \in joined(e)
    <3>1. \A e \in ofTeams : joined(e) # {}
      BY <1>6
    <3> HIDE DEF joined, ofTeams
    <3> QED BY <3>1
  <2>3. \A team \in Reports!Teams : page(team) = Group(ofTeams, key, team)
    <3>1. \A team \in Reports!Teams : page(team) = {e \in rows : team \in joined(e)}
      BY <1>2, TeamsFinite
    <3> HIDE DEF key, joined, ofTeams, page
    <3> QED BY <1>6, <2>1, <2>2, <3>1 DEF Group
  <2>4. \A team \in Reports!Teams : g[team] = SumFunctionOnSet(HoursIn, Group(ofTeams, key, team))
    <3>1. \A team \in Reports!Teams : g[team] = Reports!Hours(page(team))
      BY <1>3
    <3>2. \A team : Reports!Hours(page(team)) = SumFunctionOnSet(HoursIn, page(team))
      <4> HIDE DEF page
      <4> QED BY <1>2, PartHours
    <3> HIDE DEF g, page, key, ofTeams
    <3> QED BY <2>3, <3>1, <3>2
  <2>5. \A e \in ofTeams : key[e] \in Reports!Teams
    BY <1>5, <1>6, <2>2
  <2>6. DOMAIN g = Reports!Teams
    OBVIOUS
  <2> HIDE DEF g, key, ofTeams
  <2>7. SumFunctionOnSet(g, Reports!Teams) = SumFunctionOnSet(HoursIn, ofTeams)
    <3>1. Summable(HoursIn, ofTeams) /\ IsFiniteSet(Reports!Teams)
      BY <1>7, PartHours, TeamsFinite
    <3> QED BY <2>4, <2>5, <3>1, SumGroups
  <2> QED BY <1>7, <2>6, <2>7, PartHours, SumOfAll
<1>9. \A e \in rows \ ofTeams :
        LET a == Reports!AssignmentForAllocatedSource(e.person, FirstDay[e.month])
        IN  a # None /\ Reports!Valid(a, FirstDay[e.month]) => a.team = None
  BY <1>1, <1>6, JoinedKnown
<1>10. Reports!Hours(Reports!InvestmentCategory(b, None)) = Reports!Hours(rows)
  <2> HIDE DEF page, rows
  <2> QED BY <1>3, <1>4
<1> QED BY <1>8, <1>9, <1>10 DEF Reports!InvestmentAgrees

-----------------------------------------------------------------------------
(* The reports on features *)

LEMMA HoursOfTable ==
  ASSUME EffortInv, NEW rows \in SUBSET effort, NEW key, NEW r,
         \A k, l \in KeysOf(rows, key) : r[k] = r[l] => k = l,
         \A k \in KeysOf(rows, key) : r[k].hours = Reports!Hours(Group(rows, key, k))
  PROVE  Reports!Hours(RowsFor(r, KeysOf(rows, key))) = Reports!Hours(rows)
<1> DEFINE page == RowsFor(r, KeysOf(rows, key))
           g == [i \in page |-> i.hours]
<1>1. \A i \in page : g[i] = i.hours
  OBVIOUS
<1>2. \A k \in KeysOf(rows, key) : r[k] \in page
  BY DEF RowsFor
<1> HIDE DEF g, page
<1>3. HoursTabled(r, g, rows, key)
  BY <1>1, <1>2 DEF HoursTabled
<1>4. IsFiniteSet(page) /\ SumFunctionOnSet(g, page) = Reports!Hours(rows)
  BY <1>3, HoursTable DEF page
<1>5. Reports!Hours(page) = SumFunctionOnSet(g, page)
  BY <1>1, <1>4, HoursSummed
<1> QED BY <1>4, <1>5 DEF page

(* Hours per kind and role, per month and per column of the ranking *)
LEMMA KindsAddUp ==
  ASSUME EffortInv, NEW rows \in SUBSET effort, NEW feature
  PROVE  Reports!Hours(Reports!Costs(feature, rows).by) = Reports!Hours(rows)
<1> DEFINE key == [e \in rows |-> <<e.kind, e.role>>]
           Row(k) == [kind |-> k[1], role |-> k[2], hours |-> Reports!Hours(Group(rows, key, k))]
           r == [k \in KeysOf(rows, key) |-> Row(k)]
           c(e) == [kind |-> e.kind, role |-> e.role,
                    hours |-> Reports!Hours({f \in rows : f.kind = e.kind /\ f.role = e.role})]
           by == {c(e) : e \in rows}
<1>1. Reports!Costs(feature, rows).by = by
  BY DEF Reports!Costs
<1>2. \A e \in rows : Group(rows, key, key[e]) = {f \in rows : f.kind = e.kind /\ f.role = e.role}
  BY DEF Group
<1>3. \A e \in rows : Row(key[e]) = c(e)
  <2>1. ASSUME NEW e \in rows PROVE Row(key[e]) = c(e)
    <3>1. key[e] = <<e.kind, e.role>>
      OBVIOUS
    <3> QED BY <1>2, <3>1
  <2> QED BY <2>1
<1>4. by = RowsFor(r, KeysOf(rows, key))
  <2> HIDE DEF Row, key, c
  <2> QED BY <1>3 DEF RowsFor, KeysOf
<1>5. \A k \in KeysOf(rows, key) : /\ r[k].kind = k[1] /\ r[k].role = k[2] /\ k = <<k[1], k[2]>>
                                   /\ r[k].hours = Reports!Hours(Group(rows, key, k))
  BY DEF KeysOf
<1> HIDE DEF r, key, by
<1>6. \A k, l \in KeysOf(rows, key) : r[k] = r[l] => k = l
  <2>1. ASSUME NEW k \in KeysOf(rows, key), NEW l \in KeysOf(rows, key), r[k] = r[l] PROVE k = l
    <3>1. k[1] = l[1] /\ k[2] = l[2]
      BY <1>5, <2>1
    <3>2. k = <<k[1], k[2]>> /\ l = <<l[1], l[2]>>
      BY <1>5
    <3> QED BY <3>1, <3>2
  <2> QED BY <2>1
<1> QED BY <1>1, <1>4, <1>5, <1>6, HoursOfTable

LEMMA SeriesAddsUp ==
  ASSUME EffortInv, NEW rows \in SUBSET effort, NEW feature
  PROVE  LET series == Reports!Ranked(feature, rows).series
         IN  Reports!SumFunction([s \in series |-> s.total]) = Reports!Hours(rows)
<1> DEFINE key == [e \in rows |-> e.month]
           r == [m \in KeysOf(rows, key) |-> [period |-> m, total |-> Reports!Hours(Group(rows, key, m))]]
           page == RowsFor(r, KeysOf(rows, key))
           series == Reports!Ranked(feature, rows).series
           g == [s \in series |-> s.total]
<1>1. \A m : Group(rows, key, m) = {e \in rows : e.month = m}
  BY DEF Group
<1>2. series = {[period |-> m, total |-> Reports!Hours({e \in rows : e.month = m})] : m \in {e.month : e \in rows}}
  BY DEF Reports!Ranked
<1>3. KeysOf(rows, key) = {e.month : e \in rows}
  BY DEF KeysOf
<1>4. series = page
  <2> HIDE DEF key
  <2> QED BY <1>1, <1>2, <1>3 DEF RowsFor
<1>5. \A k \in KeysOf(rows, key) : r[k].period = k /\ r[k].total = Reports!Hours(Group(rows, key, k))
  OBVIOUS
<1>6. \A s \in series : g[s] = s.total
  OBVIOUS
<1>7. DOMAIN g = series
  OBVIOUS
<1> HIDE DEF r, key, g, series
<1>8. \A k \in KeysOf(rows, key) : r[k] \in series
  BY <1>4 DEF RowsFor
<1>9. \A k \in KeysOf(rows, key) : g[r[k]] = Reports!Hours(Group(rows, key, k))
  BY <1>5, <1>6, <1>8
<1>10. HoursTabled(r, g, rows, key)
  BY <1>5, <1>9 DEF HoursTabled
<1>11. SumFunctionOnSet(g, series) = Reports!Hours(rows)
  BY <1>4, <1>10, HoursTable
<1>12. Reports!SumFunction(g) = Reports!Hours(rows)
  BY <1>7, <1>11, SumOfAll
<1> QED BY <1>12 DEF g, series

LEMMA BucketsFinite == IsFiniteSet(Reports!Buckets)
<1>1. Reports!Buckets = {"dev"} \cup {"qa"} \cup {"ux"} \cup {"product_overhead"} \cup {"dev_overhead"}
  BY DEF Reports!Buckets
<1> QED BY <1>1, FS_Singleton, FS_Union

LEMMA ColumnsBelow ==
  ASSUME EffortInv, NEW rows \in SUBSET effort, NEW feature
  PROVE  LET columns == Reports!Ranked(feature, rows).columns
         IN  Reports!SumFunction([k \in Reports!Buckets |-> columns[k]]) <= Reports!Hours(rows)
<1> DEFINE some == {e \in rows : Reports!InvestmentRoleBucket(e) \in Reports!Buckets}
           key == [e \in some |-> Reports!InvestmentRoleBucket(e)]
           v == [k \in Reports!Buckets |-> Reports!Ranked(feature, rows).columns[k]]
<1>1. \A k \in Reports!Buckets : v[k] = Reports!Hours({e \in rows : Reports!InvestmentRoleBucket(e) = k})
  BY DEF Reports!Ranked
<1>2. \A k \in Reports!Buckets : Group(some, key, k) = {e \in rows : Reports!InvestmentRoleBucket(e) = k}
  BY DEF Group
<1>3. (\A e \in some : key[e] \in Reports!Buckets) /\ some \subseteq rows /\ some \subseteq effort
  OBVIOUS
<1>4. DOMAIN v = Reports!Buckets
  OBVIOUS
<1> HIDE DEF v, key, some
<1>5. \A k \in Reports!Buckets : v[k] = SumFunctionOnSet(HoursIn, Group(some, key, k))
  <2>1. ASSUME NEW k \in Reports!Buckets
        PROVE  Reports!Hours(Group(some, key, k)) = SumFunctionOnSet(HoursIn, Group(some, key, k))
    <3>1. Group(some, key, k) \subseteq effort
      BY <1>3 DEF Group
    <3> QED BY <3>1, PartHours
  <2> QED BY <1>1, <1>2, <2>1
<1>6. SumFunctionOnSet(v, Reports!Buckets) = SumFunctionOnSet(HoursIn, some)
  <2>1. Summable(HoursIn, some) /\ IsFiniteSet(Reports!Buckets)
    BY <1>3, PartHours, BucketsFinite
  <2> QED BY <1>3, <1>5, <2>1, SumGroups
<1>7. SumFunctionOnSet(HoursIn, some) =< SumFunctionOnSet(HoursIn, rows)
  <2>1. IsFiniteSet(rows) /\ \A e \in rows : HoursIn[e] \in Nat
    BY PartHours
  <2> QED BY <1>3, <2>1, SumPart
<1>8. Reports!SumFunction(v) <= Reports!Hours(rows)
  BY <1>4, <1>6, <1>7, SumOfAll, PartHours
<1> QED BY <1>8 DEF v

OfFeature(rows, key) == {e \in rows : Reports!Root(e) = key}
FeaturesOf(rows) == {Reports!Root(e) : e \in rows}
FeaturesTable(r, rows) ==
    \A k \in FeaturesOf(rows) : r[k].feature = k /\ r[k].total = Reports!Hours(OfFeature(rows, k))

(* A feature has one row in each report, with the hours of its rows of effort. *)
LEMMA FeaturesTabled ==
  ASSUME EffortInv, NEW rows \in SUBSET effort, NEW r, FeaturesTable(r, rows)
  PROVE  LET page == RowsFor(r, FeaturesOf(rows))
         IN  /\ IsFiniteSet(page)
             /\ {<<c.feature, c.total>> : c \in page} = {<<k, Reports!Hours(OfFeature(rows, k))>> : k \in FeaturesOf(rows)}
             /\ Reports!SumFunction([c \in page |-> c.total]) = Reports!Hours(rows)
             /\ \A c \in page : c.total \in Nat
<1> DEFINE key == [e \in rows |-> Reports!Root(e)]
           keys == FeaturesOf(rows)
           page == RowsFor(r, keys)
           g == [c \in page |-> c.total]
<1>1. KeysOf(rows, key) = keys
  BY DEF KeysOf, FeaturesOf
<1>2. \A k : Group(rows, key, k) = OfFeature(rows, k)
  BY DEF Group, OfFeature
<1>3. \A k \in keys : r[k].feature = k /\ r[k].total = Reports!Hours(OfFeature(rows, k))
  BY DEF FeaturesTable
<1>4. \A c \in page : g[c] = c.total
  OBVIOUS
<1>5. DOMAIN g = page
  OBVIOUS
<1>6. \A k : OfFeature(rows, k) \subseteq effort
  BY DEF OfFeature
<1>7. page = {r[k] : k \in keys}
  BY DEF RowsFor
<1> HIDE DEF key, g, page, keys
<1>8. {<<c.feature, c.total>> : c \in page} = {<<k, Reports!Hours(OfFeature(rows, k))>> : k \in keys}
  BY <1>3, <1>7
<1>9. HoursTabled(r, g, rows, key)
  <2>1. \A k, l \in keys : r[k] = r[l] => k = l
    BY <1>3
  <2>2. \A k \in keys : g[r[k]] = Reports!Hours(Group(rows, key, k))
    BY <1>2, <1>3, <1>4, <1>7
  <2> QED BY <1>1, <2>1, <2>2 DEF HoursTabled
<1>10. IsFiniteSet(page) /\ SumFunctionOnSet(g, page) = Reports!Hours(rows)
  BY <1>1, <1>9, HoursTable DEF page
<1>11. Reports!SumFunction(g) = Reports!Hours(rows)
  BY <1>5, <1>10, SumOfAll
<1>12. \A c \in page : c.total \in Nat
  BY <1>3, <1>6, <1>7, PartHours
<1> QED BY <1>8, <1>10, <1>11, <1>12 DEF g, page, keys

(* Months that begin in the days from a first day on are those the days touch. *)
LEMMA WholeMonths ==
  ASSUME Known, NEW b \in Reports!Bounds, NEW n \in Months, b.from = FirstDay[n]
  PROVE  Reports!FirstDaysIn(b) = Reports!MonthlyPeriodBounds(b)
<1>1. b.from \in Days /\ b.to \in Days /\ b.from <= b.to /\ Days \subseteq Nat
  BY DEF Reports!Bounds, Days, Known, CalendarKnown
<1>2. MonthOf[b.from] = n
  BY DEF Known, CalendarKnown
<1>3. MonthOf[b.to] \in Months /\ FirstDay[MonthOf[b.to]] =< b.to /\ FirstDay[MonthOf[b.to]] \in Days
  BY <1>1 DEF Known, CalendarKnown
<1>4. \A c, d \in Days : c =< d => MonthOf[c] =< MonthOf[d]
  BY DEF Known, CalendarKnown
<1>5. \A c, d \in Days : c =< d \/ d =< c
  BY <1>1
<1>6. ASSUME NEW m \in Months
      PROVE  (b.from <= FirstDay[m] /\ FirstDay[m] <= b.to) <=> (n <= m /\ m <= MonthOf[b.to])
  <2> DEFINE x == FirstDay[m]
  <2>1. x \in Days /\ MonthOf[x] = m /\ m \in Nat /\ n \in Nat /\ x \in Nat /\ b.from \in Nat /\ b.to \in Nat /\ MonthOf[b.to] \in Nat
    BY <1>1, <1>3, MonthsAssumption DEF Known, CalendarKnown
  <2> HIDE DEF x
  <2>2. b.from <= x /\ x <= b.to => n <= m /\ m <= MonthOf[b.to]
    BY <1>1, <1>2, <1>4, <2>1
  <2>3. ASSUME n <= m, m <= MonthOf[b.to] PROVE b.from <= x
    <3>1. CASE x =< b.from
      <4>1. m = n
        BY <1>1, <1>2, <1>4, <2>1, <2>3, <3>1
      <4> QED BY <2>1, <4>1 DEF x
    <3> QED BY <1>1, <1>5, <2>1, <3>1
  <2>4. ASSUME n <= m, m <= MonthOf[b.to] PROVE x <= b.to
    <3>1. CASE b.to =< x
      <4>1. m = MonthOf[b.to]
        BY <1>1, <1>4, <2>1, <2>4, <3>1
      <4> QED BY <1>3, <4>1 DEF x
    <3> QED BY <1>1, <1>5, <2>1, <3>1
  <2> QED BY <2>2, <2>3, <2>4 DEF x
<1> QED BY <1>2, <1>6 DEF Reports!FirstDaysIn, Reports!MonthlyPeriodBounds

LEMMA FeatureCategory ==
  ASSUME NEW topic
  PROVE  Reports!Category(topic) = "feature" <=> topic = "feature"
<1>1. CASE topic = "feature"
  BY <1>1, Zenon DEF Reports!Category
<1>2. CASE topic # "feature"
  <2>1. Reports!Category(topic) \in {"support", "bugs_without_feature", "small_improvements", "unclassified"}
    BY <1>2, Zenon DEF Reports!Category
  <2>2. Reports!Category(topic) # "feature"
    BY <2>1
  <2> QED BY <1>2, <2>2
<1> QED BY <1>1, <1>2

(* One row of a ranking, with none above it *)
LEMMA TopOfRanking ==
  ASSUME NEW all, IsFiniteSet(all), NEW top \in Reports!InvestmentRankings(all, 1), NEW r \in top
  PROVE  /\ r \in all
         /\ \A s \in all : s = r \/ r.total >= s.total
<1> DEFINE n == Reports!Cardinality(all)
<1>1. /\ top \subseteq all /\ Reports!Cardinality(top) = Reports!Min({1, n})
      /\ \A q \in top, s \in all \ top : q.total >= s.total
  BY DEF Reports!InvestmentRankings
<1>2. IsFiniteSet(top)
  BY <1>1, FS_Subset
<1>3. n \in Nat
  BY SameSize, FS_CardinalityType
<1> HIDE DEF n
<1>4. Reports!Min({1, n}) =< 1
  <2>1. \E x \in {1, n} : \A y \in {1, n} : x =< y
    BY <1>3
  <2>2. Reports!Min({1, n}) \in {1, n} /\ \A y \in {1, n} : Reports!Min({1, n}) =< y
    BY <2>1 DEF Reports!Min
  <2> QED BY <2>2
<1>5. Cardinality(top) =< 1
  BY <1>1, <1>2, <1>4, SameSize
<1>6. \A s \in top : s = r
  BY <1>2, <1>5, TwoOfMany, FS_CardinalityType
<1> QED BY <1>1, <1>6

LEMMA RowsHave ==
  ASSUME NEW k, NEW rows
  PROVE  /\ Reports!Costs(k, rows).feature = k /\ Reports!Costs(k, rows).total = Reports!Hours(rows)
         /\ Reports!Ranked(k, rows).feature = k /\ Reports!Ranked(k, rows).total = Reports!Hours(rows)
  BY DEF Reports!Costs, Reports!Ranked

LEMMA FeaturesAddUp == ASSUME Known, EffortInv, NEW b \in Reports!Bounds, NEW team PROVE Reports!FeaturesAgree(b, team)
<1> DEFINE rows == Reports!FeatureRows(b, team)
           keys == FeaturesOf(rows)
           costs == Reports!FeatureCost(b, team)
           ranked == Reports!RankedFeatures(rows)
           c == [k \in keys |-> Reports!Costs(k, OfFeature(rows, k))]
           q == [k \in keys |-> Reports!Ranked(k, OfFeature(rows, k))]
           pairs == {<<k, Reports!Hours(OfFeature(rows, k))>> : k \in keys}
<1>1. rows \subseteq effort
  BY DEF Reports!FeatureRows
<1>2. costs = RowsFor(c, keys)
  <2>1. costs = {Reports!Costs(k, {e \in rows : Reports!Root(e) = k}) : k \in {Reports!Root(e) : e \in rows}}
    BY DEF Reports!FeatureCost, Reports!CostsOf
  <2> HIDE DEF costs, rows
  <2> QED BY <2>1 DEF RowsFor, FeaturesOf, OfFeature
<1>3. ranked = RowsFor(q, keys)
  <2>1. ranked = {Reports!Ranked(k, {e \in rows : Reports!Root(e) = k}) : k \in {Reports!Root(e) : e \in rows}}
    BY DEF Reports!RankedFeatures
  <2> HIDE DEF ranked, rows
  <2> QED BY <2>1 DEF RowsFor, FeaturesOf, OfFeature
<1>4. \A k \in keys : /\ c[k] = Reports!Costs(k, OfFeature(rows, k)) /\ q[k] = Reports!Ranked(k, OfFeature(rows, k))
                      /\ OfFeature(rows, k) \subseteq effort
  <2> HIDE DEF rows
  <2> QED BY <1>1 DEF OfFeature
<1>5. FeaturesTable(c, rows) /\ FeaturesTable(q, rows)
  <2> HIDE DEF c, q, rows, keys
  <2>1. \A k \in keys : c[k].feature = k /\ c[k].total = Reports!Hours(OfFeature(rows, k))
    BY <1>4, RowsHave
  <2>2. \A k \in keys : q[k].feature = k /\ q[k].total = Reports!Hours(OfFeature(rows, k))
    BY <1>4, RowsHave
  <2> QED BY <2>1, <2>2 DEF FeaturesTable, keys
<1> HIDE DEF rows, c, q, costs, ranked
<1>6. /\ IsFiniteSet(ranked)
      /\ {<<x.feature, x.total>> : x \in costs} = pairs /\ {<<x.feature, x.total>> : x \in ranked} = pairs
      /\ Reports!SumFunction([x \in costs |-> x.total]) = Reports!Hours(rows)
      /\ \A x \in ranked : x.total \in Nat
  BY <1>1, <1>2, <1>3, <1>5, FeaturesTabled
<1>7. \A x \in costs : Reports!Hours(x.by) = x.total
  <2>1. ASSUME NEW k \in keys PROVE Reports!Hours(c[k].by) = c[k].total
    <3>1. c[k].total = Reports!Hours(OfFeature(rows, k))
      BY <1>5 DEF FeaturesTable
    <3> QED BY <1>4, <3>1, KindsAddUp
  <2> QED BY <1>2, <2>1 DEF RowsFor
<1>8. \A x \in ranked : /\ Reports!SumFunction([k \in Reports!Buckets |-> x.columns[k]]) <= x.total
                        /\ Reports!SumFunction([s \in x.series |-> s.total]) = x.total
  <2>1. ASSUME NEW k \in keys
        PROVE  /\ Reports!SumFunction([i \in Reports!Buckets |-> q[k].columns[i]]) <= q[k].total
               /\ Reports!SumFunction([s \in q[k].series |-> s.total]) = q[k].total
    <3>1. q[k].total = Reports!Hours(OfFeature(rows, k))
      BY <1>5 DEF FeaturesTable
    <3>2. Reports!SumFunction([i \in Reports!Buckets |-> q[k].columns[i]]) <= Reports!Hours(OfFeature(rows, k))
      BY <1>4, ColumnsBelow
    <3>3. Reports!SumFunction([s \in q[k].series |-> s.total]) = Reports!Hours(OfFeature(rows, k))
      BY <1>4, SeriesAddsUp
    <3> QED BY <3>1, <3>2, <3>3
  <2> QED BY <1>3, <2>1 DEF RowsFor
<1>9. ASSUME NEW top \in Reports!InvestmentRankings(ranked, 1), NEW r \in top, NEW x \in costs
      PROVE  x.total <= r.total
  <2>1. PICK s \in ranked : s.total = x.total
    <3>1. <<x.feature, x.total>> \in {<<y.feature, y.total>> : y \in ranked}
      <4> HIDE DEF pairs
      <4>1. <<x.feature, x.total>> \in {<<y.feature, y.total>> : y \in costs}
        OBVIOUS
      <4> QED BY <1>6, <4>1
    <3> QED BY <3>1
  <2>2. r \in ranked /\ (s = r \/ r.total >= s.total)
    BY <1>6, TopOfRanking
  <2>3. s.total \in Nat /\ r.total \in Nat
    BY <1>6, <2>2
  <2> QED BY <2>1, <2>2, <2>3
<1>10. ASSUME team = None, NEW n \in Months, b.from = FirstDay[n]
       PROVE  Reports!SumFunction([x \in costs |-> x.total])
                = Reports!Hours({i \in Reports!InvestmentCategory(b, None) : i.category = "feature"})
  <2> DEFINE all == Reports!AllocatedEffort(Reports!MonthlyPeriodBounds(b))
             some == {e \in all : Reports!Category(e.topic) = "feature"}
  <2>1. all \subseteq effort /\ some \subseteq effort
    BY DEF Reports!AllocatedEffort
  <2>2. Reports!InvestmentCategory(b, None) = Reports!ByCategory(all)
    <3>1. Reports!FilterByAssignmentTeam(all, None) = all
      BY DEF Reports!FilterByAssignmentTeam
    <3> HIDE DEF all
    <3> QED BY <3>1 DEF Reports!InvestmentCategory, all
  <2>3. Reports!Hours({i \in Reports!InvestmentCategory(b, None) : i.category = "feature"}) = Reports!Hours(some)
    <3> HIDE DEF all
    <3>1. {i \in Reports!ByCategory(all) : i.category = "feature"} = Reports!ByCategory(some)
      <4>1. \A category : {i \in Reports!ByCategory(all) : i.category = category}
                             = Reports!ByCategory({e \in all : Reports!Category(e.topic) = category})
        BY <2>1, CategoriesAddUp
      <4> QED BY <4>1, Zenon
    <3>2. Reports!Hours(Reports!ByCategory(some)) = Reports!Hours(some)
      <4> HIDE DEF some
      <4> QED BY <2>1, CategoriesAddUp
    <3> QED BY <2>2, <3>1, <3>2
  <2>4. some = rows
    <3>1. Reports!FirstDaysIn(b) = Reports!MonthlyPeriodBounds(b)
      BY <1>10, WholeMonths
    <3>2. some = {e \in all : e.topic = "feature"}
      BY FeatureCategory
    <3>3. \A e \in effort : e.topic = "feature" => e.kind \in Reports!Kinds
      BY DEF EffortInv, TablesTyped, EffortOK, Reports!Kinds
    <3>4. rows = {e \in effort : e.month \in Reports!FirstDaysIn(b) /\ e.topic = "feature"}
      BY <1>10 DEF rows, Reports!FeatureRows
    <3> QED BY <3>1, <3>2, <3>3, <3>4 DEF Reports!AllocatedEffort
  <2> QED BY <1>6, <2>3, <2>4
<1> HIDE DEF pairs
<1>11. {<<x.feature, x.total>> : x \in costs} = {<<x.feature, x.total>> : x \in ranked}
  BY <1>6
<1>12. team = None /\ b.from \in {FirstDay[m] : m \in Months} =>
          Reports!SumFunction([x \in costs |-> x.total])
            = Reports!Hours({i \in Reports!InvestmentCategory(b, None) : i.category = "feature"})
  BY <1>10
<1> QED BY <1>7, <1>8, <1>9, <1>11, <1>12 DEF Reports!FeaturesAgree, costs, ranked, rows

-----------------------------------------------------------------------------
(* The assignment that is valid on a day is the same in the rebuild and the reports. *)

LEMMA RebuildAssigns ==
  ASSUME Known, InputsTyped, NEW p \in Persons, NEW day, NEW k \in DOMAIN assigned[p],
         Reports!Valid(assigned[p][k], day),
         \A n \in DOMAIN assigned[p] : Reports!Valid(assigned[p][n], day) => assigned[p][n].from =< assigned[p][k].from
  PROVE  Reports!AssignmentForUser(assigned[p], day) = assigned[p][k]
<1> DEFINE h == assigned[p]
           valid == {n \in DOMAIN h : Reports!Valid(h[n], day)}
           n == Reports!Max(valid)
<1>1. h \in Histories /\ h # <<>>
  <2>1. h \in Histories \cup {<<>>}
    BY DEF InputsTyped
  <2>2. h # <<>>
    <3>1. DOMAIN <<>> = {}
      OBVIOUS
    <3>2. k \in DOMAIN h
      OBVIOUS
    <3> HIDE DEF h
    <3> QED BY <3>1, <3>2
  <2> HIDE DEF h
  <2> QED BY <2>1, <2>2
<1>2. /\ IsFiniteSet(DOMAIN h) /\ DOMAIN h \subseteq Nat /\ \A i \in DOMAIN h : h[i].from \in Nat
      /\ \A i, j \in DOMAIN h : i < j => h[i].from < h[j].from
  BY <1>1 DEF Known, HistoriesKnown
<1>3. k \in valid
  OBVIOUS
<1>4. IsFiniteSet(valid) /\ valid \subseteq Nat
  BY <1>2, FS_Subset
<1>5. Reports!AssignmentForUser(h, day) = h[n]
  <2>1. \E i \in DOMAIN h : Reports!Valid(h[i], day)
    BY <1>3
  <2> HIDE DEF h
  <2> QED BY <1>1, <2>1 DEF Reports!AssignmentForUser
<1>6. n \in valid /\ \A i \in valid : i =< n
  <2> HIDE DEF valid
  <2> QED BY <1>3, <1>4, GreatestHere
<1>7. h[n].from =< h[k].from /\ k =< n /\ n \in DOMAIN h /\ k \in DOMAIN h
  BY <1>3, <1>6
<1>8. n = k
  <2> HIDE DEF h, n, valid
  <2> QED BY <1>2, <1>7
<1> QED BY <1>5, <1>8

LEMMA AssignmentsMeet == ASSUME Known, InputsTyped PROVE Reports!AssignmentsAgree
<1>1. ASSUME NEW p \in Persons, NEW day \in DOMAIN MonthOf,
             Reports!AssignmentForAllocatedSource(p, day) # None,
             Reports!Valid(Reports!AssignmentForAllocatedSource(p, day), day)
      PROVE  Reports!AssignmentForUser(assigned[p], day) = Reports!AssignmentForAllocatedSource(p, day)
  <2> DEFINE a == Reports!AssignmentForAllocatedSource(p, day)
             all == Reports!AssignmentsOf(p)
  <2>1. a = Reports!PickAssignment(all, day)
    BY DEF Reports!AssignmentForAllocatedSource
  <2>2. /\ IsFiniteSet(all) /\ \A c \in all : c.from \in Nat
        /\ all = {assigned[p][n] : n \in DOMAIN assigned[p]}
    BY AssignmentsKnown DEF Reports!AssignmentsOf
  <2> HIDE DEF a, all
  <2>3. a # None /\ Reports!Valid(a, day)
    BY <1>1 DEF a
  <2>4. a \in all /\ \A c \in all : Reports!Valid(c, day) => c.from =< a.from
    BY <2>1, <2>2, <2>3, PickFound
  <2>5. PICK k \in DOMAIN assigned[p] : a = assigned[p][k]
    BY <2>2, <2>4
  <2>6. \A n \in DOMAIN assigned[p] : Reports!Valid(assigned[p][n], day) => assigned[p][n].from =< assigned[p][k].from
    BY <2>2, <2>4, <2>5
  <2>7. Reports!AssignmentForUser(assigned[p], day) = assigned[p][k]
    BY <2>3, <2>5, <2>6, RebuildAssigns
  <2> QED BY <2>5, <2>7 DEF a
<1> QED BY <1>1 DEF Reports!AssignmentsAgree

-----------------------------------------------------------------------------
(* The heatmap: rows of effort with the team of their person *)

TeamedRows == Reports!Teamed(effort)
HoursTeamed == [t \in TeamedRows |-> t.row.hours]

LEMMA TeamedKnown ==
  ASSUME EffortInv, NEW rows \in SUBSET effort
  PROVE  /\ Reports!Teamed(rows) \subseteq TeamedRows
         /\ \A t \in Reports!Teamed(rows) : /\ t = [team |-> Reports!TeamOf(t.row.person, t.row.month), row |-> t.row]
                                            /\ t.row \in rows
<1>1. ASSUME NEW some, NEW t \in Reports!Teamed(some)
      PROVE  t = [team |-> Reports!TeamOf(t.row.person, t.row.month), row |-> t.row] /\ t.row \in some
  <2>1. PICK e \in some : t = [team |-> Reports!TeamOf(e.person, e.month), row |-> e]
    BY <1>1 DEF Reports!Teamed
  <2> QED BY <2>1
<1>2. Reports!Teamed(rows) \subseteq TeamedRows
  BY DEF Reports!Teamed, TeamedRows
<1> QED BY <1>1, <1>2

LEMMA PartTeamed ==
  ASSUME EffortInv, NEW rows \in SUBSET TeamedRows
  PROVE  /\ IsFiniteSet(rows) /\ Summable(HoursTeamed, rows)
         /\ \A t \in rows : HoursTeamed[t] = t.row.hours /\ HoursTeamed[t] \in Nat /\ t.row \in effort
         /\ Reports!TeamedHours(rows) = SumFunctionOnSet(HoursTeamed, rows) /\ Reports!TeamedHours(rows) \in Nat
<1> DEFINE f == [e \in effort |-> [team |-> Reports!TeamOf(e.person, e.month), row |-> e]]
           r == [t \in rows |-> t.row]
           some == {t.row : t \in rows}
<1>1. \A t \in TeamedRows : /\ t = [team |-> Reports!TeamOf(t.row.person, t.row.month), row |-> t.row]
                            /\ t.row \in effort
  BY TeamedKnown DEF TeamedRows
<1>2. IsFiniteSet(rows)
  <2>1. TeamedRows = {f[e] : e \in effort}
    BY DEF TeamedRows, Reports!Teamed
  <2> HIDE DEF f
  <2>2. IsFiniteSet(TeamedRows)
    BY <2>1, ValuesFinite DEF EffortInv, TablesTyped
  <2> QED BY <2>2, FS_Subset
<1>3. \A t \in rows : HoursTeamed[t] = t.row.hours /\ HoursTeamed[t] \in Nat /\ t.row \in effort
  <2>1. \A e \in effort : e.hours \in Nat
    BY DEF EffortInv, TablesTyped, EffortOK
  <2> QED BY <1>1, <2>1 DEF HoursTeamed
<1>4. \A t, u \in rows : r[t] = r[u] => t = u
  <2>1. ASSUME NEW t \in rows, NEW u \in rows, t.row = u.row PROVE t = u
    BY <1>1, <2>1
  <2> QED BY <2>1
<1>5. \A t \in rows : HoursTeamed[t] = HoursIn[r[t]] /\ HoursTeamed[t] \in Int
  BY <1>3 DEF HoursIn
<1>6. some = {r[t] : t \in rows} /\ some \subseteq effort
  BY <1>3
<1> HIDE DEF r, some
<1>7. SumFunctionOnSet(HoursIn, some) = SumFunctionOnSet(HoursTeamed, rows)
  BY <1>2, <1>4, <1>5, <1>6, SumImage
<1>8. Reports!TeamedHours(rows) = Reports!Hours(some)
  BY DEF Reports!TeamedHours, some
<1>9. Summable(HoursTeamed, rows)
  BY <1>2, <1>5 DEF Summable
<1> QED BY <1>2, <1>3, <1>6, <1>7, <1>8, <1>9, PartHours

TeamedTabled(r, g, K, rows, key) ==
    /\ IsFiniteSet(K) /\ \A t \in rows : key[t] \in K
    /\ \A k, l \in K : r[k] = r[l] => k = l
    /\ \A k \in K : g[r[k]] = Reports!TeamedHours(Group(rows, key, k))

LEMMA TeamedTable ==
  ASSUME EffortInv, NEW rows \in SUBSET TeamedRows, NEW r, NEW g, NEW K, NEW key, TeamedTabled(r, g, K, rows, key)
  PROVE  /\ IsFiniteSet(RowsFor(r, K))
         /\ SumFunctionOnSet(g, RowsFor(r, K)) = Reports!TeamedHours(rows)
<1>1. \A k \in K : g[r[k]] = SumFunctionOnSet(HoursTeamed, Group(rows, key, k))
  <2>1. ASSUME NEW k \in K PROVE Reports!TeamedHours(Group(rows, key, k)) = SumFunctionOnSet(HoursTeamed, Group(rows, key, k))
    <3>1. Group(rows, key, k) \subseteq TeamedRows
      BY DEF Group
    <3> QED BY <3>1, PartTeamed
  <2> QED BY <2>1 DEF TeamedTabled
<1>2. Tabulates(r, K, g, HoursTeamed, rows, key)
  BY <1>1, PartTeamed DEF Tabulates, TeamedTabled
<1>3. SumFunctionOnSet(g, RowsFor(r, K)) = SumFunctionOnSet(HoursTeamed, rows)
  BY <1>2, SumTable
<1>4. IsFiniteSet(RowsFor(r, K))
  BY ValuesFinite DEF RowsFor, TeamedTabled
<1> QED BY <1>3, <1>4, PartTeamed

LEMMA TeamFound ==
  ASSUME Known, InputsTyped, NEW p \in Persons, NEW m
  PROVE  Reports!TeamOf(p, m) \in Reports!Teams \cup {Unknown}
<1> DEFINE a == Reports!AssignmentForAllocatedSource(p, FirstDay[m])
           all == Reports!AssignmentsOf(p)
<1>1. a = Reports!PickAssignment(all, FirstDay[m])
  BY DEF Reports!AssignmentForAllocatedSource
<1>2. IsFiniteSet(all) /\ \A c \in all : c # None /\ c.from \in Nat /\ c.team \in Reports!Teams \cup {None}
  BY AssignmentsKnown
<1>3. Reports!TeamOf(p, m) = IF a = None THEN Unknown ELSE Reports!NormalizedTeam(a.team)
  BY DEF Reports!TeamOf
<1> HIDE DEF a, all
<1>4. IF all = {} THEN a = None ELSE a \in all
  BY <1>1, <1>2, PickFound
<1> QED BY <1>2, <1>3, <1>4 DEF Reports!NormalizedTeam

(* The page of a team has the rows of that team, and the page of all has every row. *)
LEMMA HeatmapPages ==
  ASSUME Known, EffortInv, NEW months
  PROVE  LET rows == Reports!HeatmapRows(months, None)
         IN  /\ rows \subseteq TeamedRows
             /\ \A t \in rows : /\ t.team \in Reports!Teams \cup {Unknown} /\ t.row.role \in Produced
                                /\ t.row.topic \in {"feature", "unclassified"} \cup Reports!Improvements
             /\ \A team \in Reports!Teams \cup {Unknown} :
                  Reports!HeatmapRows(months, team) = {t \in rows : t.team = team}
<1> DEFINE some == {e \in Reports!AllocatedEffort(months) : e.role \in Produced}
           rows == Reports!HeatmapRows(months, None)
<1>1. some \subseteq effort /\ \A e \in some : e.role \in Produced /\ e.kind \in Reports!Kinds
  BY DEF Reports!AllocatedEffort
<1>2. \A team : Reports!HeatmapRows(months, team) = {t \in Reports!Teamed(some) : team \in {None, t.team}}
  BY DEF Reports!HeatmapRows
<1> HIDE DEF some, rows
<1>3. rows = Reports!Teamed(some)
  BY <1>2 DEF rows
<1>4. rows \subseteq TeamedRows /\ \A t \in rows : t.team = Reports!TeamOf(t.row.person, t.row.month) /\ t.row \in some
  BY <1>1, <1>3, TeamedKnown
<1>5. \A e \in some : e.person \in Persons /\ e.topic \in {"feature", "unclassified"} \cup Reports!Improvements
  <2>1. \A e \in effort : e.kind \in Reports!Kinds => e.topic = Reports!ClassifyTopicType(Issue[e.issue])
    BY DEF EffortInv, TablesTyped, EffortOK, Reports!Kinds
  <2>2. \A e \in effort : e.person \in Persons
    BY DEF EffortInv, TablesTyped, EffortOK
  <2>3. \A e \in some : e.topic \in {"feature", "unclassified"} \cup Reports!Improvements
    <3>1. ASSUME NEW e \in some PROVE e.topic \in {"feature", "unclassified"} \cup Reports!Improvements
      <4>1. e.topic = Reports!ClassifyTopicType(Issue[e.issue])
        BY <1>1, <2>1
      <4> QED BY <4>1, FeaturesRooted, Zenon
    <3> QED BY <3>1
  <2> QED BY <1>1, <2>2, <2>3
<1>6. \A t \in rows : t.team \in Reports!Teams \cup {Unknown}
  BY <1>4, <1>5, TeamFound DEF EffortInv
<1>7. \A team \in Reports!Teams \cup {Unknown} : team # None
  BY TeamsFinite DEF Known, ReportsKnown
<1>8. \A team \in Reports!Teams \cup {Unknown} : Reports!HeatmapRows(months, team) = {t \in rows : t.team = team}
  BY <1>2, <1>3, <1>7
<1> QED BY <1>1, <1>4, <1>5, <1>6, <1>8 DEF rows

CellKeys(rows) == {Reports!CellKey(t) : t \in rows}
CellRows(rows, k) == {t \in rows : Reports!CellKey(t) = k}
AllCells(rows) == {Reports!Cell(k, CellRows(rows, k)) : k \in CellKeys(rows)}
Shows(c) == \E r \in Produced : c.hours[r] > 0

LEMMA HeatmapCells ==
  ASSUME NEW rows
  PROVE  Reports!WorkAllocationHeatmap(rows) = {c \in AllCells(rows) : Shows(c)}
  BY DEF Reports!WorkAllocationHeatmap, AllCells, CellRows, CellKeys, Shows

LEMMA HeatmapSplits ==
  ASSUME NEW rows, NEW teams, \A t \in rows : t.team \in teams
  PROVE  UNION {Reports!WorkAllocationHeatmap({t \in rows : t.team = team}) : team \in teams} = Reports!WorkAllocationHeatmap(rows)
<1> DEFINE of(team) == {t \in rows : t.team = team}
<1>1. ASSUME NEW team PROVE AllCells(of(team)) = {Reports!Cell(k, CellRows(rows, k)) : k \in {k \in CellKeys(rows) : k.team = team}}
  <2>1. \A t : Reports!CellKey(t).team = t.team
    BY DEF Reports!CellKey
  <2>2. CellKeys(of(team)) = {k \in CellKeys(rows) : k.team = team}
    BY <2>1 DEF CellKeys
  <2>3. \A k : k.team = team => CellRows(of(team), k) = CellRows(rows, k)
    BY <2>1 DEF CellRows
  <2> HIDE DEF of
  <2> QED BY <2>2, <2>3 DEF AllCells
<1>2. \A k : Reports!Cell(k, CellRows(rows, k)).team = k.team
  BY DEF Reports!Cell
<1>3. \A k \in CellKeys(rows) : k.team \in teams
  BY DEF CellKeys, Reports!CellKey
<1>4. \A c \in AllCells(rows) : c.team \in teams
  BY <1>2, <1>3 DEF AllCells
<1>5. \A team : AllCells(of(team)) = {c \in AllCells(rows) : c.team = team}
  <2> DEFINE cell(k) == Reports!Cell(k, CellRows(rows, k))
  <2>1. AllCells(rows) = {cell(k) : k \in CellKeys(rows)}
    BY DEF AllCells
  <2>2. \A team : AllCells(of(team)) = {cell(k) : k \in {k \in CellKeys(rows) : k.team = team}}
    BY <1>1
  <2>3. \A k : cell(k).team = k.team
    BY <1>2
  <2> HIDE DEF cell, of
  <2> QED BY <2>1, <2>2, <2>3
<1>6. \A team : Reports!WorkAllocationHeatmap(of(team)) = {c \in AllCells(rows) : Shows(c) /\ c.team = team}
  <2> HIDE DEF of
  <2> QED BY <1>5, HeatmapCells
<1>7. UNION {Reports!WorkAllocationHeatmap(of(team)) : team \in teams} = {c \in AllCells(rows) : Shows(c)}
  <2> HIDE DEF of
  <2> QED BY <1>4, <1>6
<1> QED BY <1>7, HeatmapCells

(* A cell has the hours of its rows, by role. *)
LEMMA CellAddsUp ==
  ASSUME Known, EffortInv, NEW rows \in SUBSET TeamedRows, \A t \in rows : t.row.role \in Produced, NEW k
  PROVE  LET c == Reports!Cell(k, rows)
         IN  /\ Reports!CellHours(c) = Reports!TeamedHours(rows)
             /\ ~ Shows(c) => Reports!CellHours(c) = 0
<1> DEFINE c == Reports!Cell(k, rows)
           v == [r \in Produced |-> c.hours[r]]
           key == [t \in rows |-> t.row.role]
<1>1. \A r \in Produced : v[r] = Reports!TeamedHours({t \in rows : t.row.role = r})
  BY DEF Reports!Cell
<1>2. \A r : Group(rows, key, r) = {t \in rows : t.row.role = r}
  BY DEF Group
<1>3. (\A t \in rows : key[t] \in Produced) /\ DOMAIN v = Produced /\ IsFiniteSet(Produced)
  BY DEF Known, ReportsKnown
<1>4. Reports!CellHours(c) = Reports!SumFunction(v)
  BY DEF Reports!CellHours
<1>5. Shows(c) <=> \E r \in Produced : v[r] > 0
  BY DEF Shows
<1> HIDE DEF c, v, key
<1>6. \A r \in Produced : v[r] = SumFunctionOnSet(HoursTeamed, Group(rows, key, r)) /\ v[r] \in Nat
  <2>1. ASSUME NEW r \in Produced PROVE v[r] = SumFunctionOnSet(HoursTeamed, Group(rows, key, r)) /\ v[r] \in Nat
    <3>1. v[r] = Reports!TeamedHours(Group(rows, key, r))
      BY <1>1, <1>2
    <3>2. Group(rows, key, r) \subseteq TeamedRows
      BY DEF Group
    <3> QED BY <3>1, <3>2, PartTeamed
  <2> QED BY <2>1
<1>7. SumFunctionOnSet(v, Produced) = SumFunctionOnSet(HoursTeamed, rows)
  <2>1. Summable(HoursTeamed, rows)
    BY PartTeamed
  <2> QED BY <1>3, <1>6, <2>1, SumGroups
<1>8. Reports!CellHours(c) = SumFunctionOnSet(v, Produced)
  BY <1>3, <1>4, SumOfAll
<1>9. ~ Shows(c) => SumFunctionOnSet(v, Produced) = 0
  <2>1. ~ Shows(c) => \A r \in Produced : v[r] = 0
    BY <1>5, <1>6
  <2> QED BY <1>3, <2>1, SumZero
<1> QED BY <1>7, <1>8, <1>9, PartTeamed DEF c

LEMMA HeatmapAddsUp ==
  ASSUME Known, EffortInv, NEW rows \in SUBSET TeamedRows, \A t \in rows : t.row.role \in Produced
  PROVE  LET cells == Reports!WorkAllocationHeatmap(rows)
         IN  Reports!SumFunction([c \in cells |-> Reports!CellHours(c)]) = Reports!TeamedHours(rows)
<1> DEFINE all == AllCells(rows)
           cells == Reports!WorkAllocationHeatmap(rows)
           K == CellKeys(rows)
           key == [t \in rows |-> Reports!CellKey(t)]
           r == [k \in K |-> Reports!Cell(k, CellRows(rows, k))]
           g == [c \in all |-> Reports!CellHours(c)]
           h == [c \in cells |-> Reports!CellHours(c)]
<1>1. \A k \in K : r[k] = Reports!Cell(k, CellRows(rows, k))
  OBVIOUS
<1>2. IsFiniteSet(K) /\ (\A t \in rows : key[t] \in K) /\ \A k : Group(rows, key, k) = CellRows(rows, k)
  <2>1. K = {key[t] : t \in rows}
    BY DEF CellKeys
  <2>2. IsFiniteSet(rows)
    BY PartTeamed
  <2>3. IsFiniteSet(K)
    <3> HIDE DEF K, key
    <3> QED BY <2>1, <2>2, ValuesFinite
  <2>4. \A k : Group(rows, key, k) = CellRows(rows, k)
    BY DEF Group, CellRows
  <2>5. \A t \in rows : key[t] \in K
    <3> HIDE DEF K, key
    <3> QED BY <2>1
  <2> QED BY <2>3, <2>4, <2>5
<1>3. \A k, l \in K : r[k] = r[l] => k = l
  <2>1. \A k \in K : k = [team |-> k.team, topic |-> k.topic, person |-> k.person]
    BY DEF CellKeys, Reports!CellKey
  <2>2. \A k \in K : r[k].team = k.team /\ r[k].topic = k.topic /\ r[k].person = k.person
    BY DEF Reports!Cell
  <2> HIDE DEF K, r
  <2>3. ASSUME NEW k \in K, NEW l \in K, r[k] = r[l] PROVE k = l
    <3>1. k.team = l.team /\ k.topic = l.topic /\ k.person = l.person
      BY <2>2, <2>3
    <3>2. k = [team |-> k.team, topic |-> k.topic, person |-> k.person] /\ l = [team |-> l.team, topic |-> l.topic, person |-> l.person]
      BY <2>1
    <3> QED BY <3>1, <3>2
  <2> QED BY <2>3
<1>4. all = RowsFor(r, K)
  <2> HIDE DEF r
  <2> QED BY <1>1 DEF RowsFor, AllCells
<1>5. DOMAIN h = cells /\ (\A c \in cells : h[c] = Reports!CellHours(c)) /\ \A c \in all : g[c] = Reports!CellHours(c)
  OBVIOUS
<1>6. cells = {c \in all : Shows(c)}
  BY HeatmapCells
<1> HIDE DEF K, key, r, all, g, cells, h
<1>7. \A k \in K : Reports!CellHours(r[k]) = Reports!TeamedHours(Group(rows, key, k))
                   /\ (~ Shows(r[k]) => Reports!CellHours(r[k]) = 0) /\ r[k] \in all
  <2>1. ASSUME NEW k \in K
        PROVE  Reports!CellHours(r[k]) = Reports!TeamedHours(Group(rows, key, k)) /\ (~ Shows(r[k]) => Reports!CellHours(r[k]) = 0)
    <3>1. CellRows(rows, k) \subseteq TeamedRows /\ \A t \in CellRows(rows, k) : t.row.role \in Produced
      BY DEF CellRows
    <3> QED BY <1>1, <1>2, <3>1, CellAddsUp
  <2> QED BY <1>4, <2>1 DEF RowsFor
<1>8. \A k \in K : g[r[k]] = Reports!TeamedHours(Group(rows, key, k))
  BY <1>5, <1>7
<1>9. TeamedTabled(r, g, K, rows, key)
  BY <1>2, <1>3, <1>8 DEF TeamedTabled
<1>10. IsFiniteSet(all) /\ SumFunctionOnSet(g, all) = Reports!TeamedHours(rows)
  BY <1>4, <1>9, TeamedTable
<1>11. \A c \in all : g[c] \in Nat /\ (~ Shows(c) => g[c] = 0)
  <2>1. \A k \in K : Reports!TeamedHours(Group(rows, key, k)) \in Nat
    <3>1. \A k : Group(rows, key, k) \subseteq TeamedRows
      BY DEF Group
    <3> QED BY <3>1, PartTeamed
  <2> QED BY <1>4, <1>5, <1>7, <1>8, <2>1 DEF RowsFor
<1>12. SumFunctionOnSet(g, cells) = SumFunctionOnSet(g, all)
  <2>1. Summable(g, all) /\ cells \subseteq all /\ \A c \in all \ cells : g[c] = 0
    BY <1>6, <1>10, <1>11 DEF Summable
  <2> QED BY <2>1, SumRest
<1>13. SumFunctionOnSet(h, cells) = SumFunctionOnSet(g, cells)
  <2>1. IsFiniteSet(cells) /\ \A c \in cells : h[c] = g[c]
    BY <1>5, <1>6, <1>10, FS_Subset
  <2> QED BY <2>1, SumSame
<1> QED BY <1>5, <1>10, <1>12, <1>13, SumOfAll DEF h, cells

LEMMA TeamedParts ==
  ASSUME EffortInv, NEW S \in SUBSET TeamedRows, NEW T \in SUBSET TeamedRows, S \cap T = {}
  PROVE  Reports!TeamedHours(S \cup T) = Reports!TeamedHours(S) + Reports!TeamedHours(T)
<1>1. S \cup T \subseteq TeamedRows
  OBVIOUS
<1>2. Summable(HoursTeamed, S \cup T)
  BY <1>1, PartTeamed
<1>3. SumFunctionOnSet(HoursTeamed, S \cup T) = SumFunctionOnSet(HoursTeamed, S) + SumFunctionOnSet(HoursTeamed, T)
  BY <1>2, SumUnion
<1> QED BY <1>1, <1>3, PartTeamed

FocusRows(rows, k) == {t \in rows : Reports!TeamMonth(t) = k}

(* Planned and unplanned work are the hours with a topic type. *)
LEMMA FocusAddsUp ==
  ASSUME EffortInv, NEW rows \in SUBSET TeamedRows,
         \A t \in rows : t.row.topic \in {"feature", "unclassified"} \cup Reports!Improvements
  PROVE  LET focus == Reports!PlannedVsUnplanned(rows)
         IN  Reports!SumFunction([f \in focus |-> f.roadmap + f.improvement])
               = Reports!TeamedHours({t \in rows : t.row.topic # "unclassified"})
<1> DEFINE some == {t \in rows : t.row.topic # "unclassified"}
           K == {Reports!TeamMonth(t) : t \in rows}
           key == [t \in rows |-> Reports!TeamMonth(t)]
           r == [k \in K |-> Reports!FocusOf(k, FocusRows(rows, k))]
           focus == Reports!PlannedVsUnplanned(rows)
           g == [f \in focus |-> f.roadmap + f.improvement]
<1>1. \A k \in K : r[k] = Reports!FocusOf(k, FocusRows(rows, k))
  OBVIOUS
<1>2. focus = RowsFor(r, K)
  <2>1. focus = {Reports!FocusOf(k, FocusRows(rows, k)) : k \in K}
    BY DEF Reports!PlannedVsUnplanned, FocusRows
  <2> HIDE DEF r, K, focus
  <2> QED BY <1>1, <2>1 DEF RowsFor
<1>3. IsFiniteSet(K) /\ \A t \in some : key[t] \in K
  <2>1. K = {key[t] : t \in rows} /\ IsFiniteSet(rows)
    BY PartTeamed
  <2> HIDE DEF K, key
  <2> QED BY <2>1, ValuesFinite
<1>4. \A k, l \in K : r[k] = r[l] => k = l
  <2>1. \A k \in K : k = [team |-> k.team, month |-> k.month]
    BY DEF Reports!TeamMonth
  <2>2. \A k \in K : r[k].team = k.team /\ r[k].month = k.month
    BY DEF Reports!FocusOf
  <2> HIDE DEF K, r
  <2>3. ASSUME NEW k \in K, NEW l \in K, r[k] = r[l] PROVE k = l
    <3>1. k.team = l.team /\ k.month = l.month
      BY <2>2, <2>3
    <3>2. k = [team |-> k.team, month |-> k.month] /\ l = [team |-> l.team, month |-> l.month]
      BY <2>1
    <3> QED BY <3>1, <3>2
  <2> QED BY <2>3
<1>5. DOMAIN g = focus /\ \A f \in focus : g[f] = f.roadmap + f.improvement
  OBVIOUS
<1>6. \A k : Group(some, key, k) = {t \in FocusRows(rows, k) : t.row.topic # "unclassified"}
  BY DEF Group, FocusRows
<1>7. \A k : LET part == FocusRows(rows, k)
                 f == Reports!FocusOf(k, part)
             IN  f.roadmap + f.improvement = Reports!TeamedHours({t \in part : t.row.topic # "unclassified"})
  <2>1. ASSUME NEW k
        PROVE  LET part == FocusRows(rows, k)
                   f == Reports!FocusOf(k, part)
               IN  f.roadmap + f.improvement = Reports!TeamedHours({t \in part : t.row.topic # "unclassified"})
    <3> DEFINE part == FocusRows(rows, k)
               S == {t \in part : t.row.topic = "feature"}
               T == {t \in part : t.row.topic \in Reports!Improvements}
    <3>1. part \subseteq rows
      BY DEF FocusRows
    <3>2. "feature" \notin Reports!Improvements /\ "unclassified" \notin Reports!Improvements
      BY DEF Reports!Improvements
    <3>3. S \cup T = {t \in part : t.row.topic # "unclassified"} /\ S \cap T = {} /\ S \subseteq TeamedRows /\ T \subseteq TeamedRows
      <4> HIDE DEF part
      <4> QED BY <3>1, <3>2
    <3>4. Reports!FocusOf(k, part).roadmap = Reports!TeamedHours(S) /\ Reports!FocusOf(k, part).improvement = Reports!TeamedHours(T)
      BY DEF Reports!FocusOf
    <3>5. Reports!TeamedHours(S \cup T) = Reports!TeamedHours(S) + Reports!TeamedHours(T)
      <4> HIDE DEF S, T
      <4> QED BY <3>3, TeamedParts
    <3> HIDE DEF S, T, part
    <3> QED BY <3>3, <3>4, <3>5 DEF part
  <2> QED BY <2>1
<1>8. some \subseteq TeamedRows
  OBVIOUS
<1> HIDE DEF K, key, r, focus, g, some
<1>9. \A k \in K : g[r[k]] = Reports!TeamedHours(Group(some, key, k))
  <2>1. ASSUME NEW k \in K PROVE g[r[k]] = Reports!TeamedHours(Group(some, key, k))
    <3>1. r[k] \in focus
      BY <1>2 DEF RowsFor
    <3>2. g[r[k]] = r[k].roadmap + r[k].improvement
      BY <1>5, <3>1
    <3> QED BY <1>1, <1>6, <1>7, <3>2
  <2> QED BY <2>1
<1>10. TeamedTabled(r, g, K, some, key)
  BY <1>3, <1>4, <1>9 DEF TeamedTabled
<1>11. SumFunctionOnSet(g, focus) = Reports!TeamedHours(some)
  BY <1>2, <1>8, <1>10, TeamedTable
<1> QED BY <1>5, <1>11, SumOfAll DEF g, focus, some

LEMMA HeatmapsAgree == ASSUME Known, EffortInv, NEW b PROVE Reports!HeatmapAgrees(b)
<1> DEFINE months == Reports!MonthlyPeriodBounds(b)
           rows == Reports!HeatmapRows(months, None)
           teams == Reports!Teams \cup {Unknown}
           no == {t \in rows : t.row.topic = "unclassified"}
           yes == {t \in rows : t.row.topic # "unclassified"}
           focus == Reports!PlannedVsUnplanned(rows)
           cells == Reports!WorkAllocationHeatmap(rows)
<1> HIDE DEF months
<1>1. /\ rows \subseteq TeamedRows
      /\ \A t \in rows : /\ t.team \in teams /\ t.row.role \in Produced
                         /\ t.row.topic \in {"feature", "unclassified"} \cup Reports!Improvements
      /\ \A team \in teams : Reports!HeatmapRows(months, team) = {t \in rows : t.team = team}
  BY HeatmapPages
<1> HIDE DEF rows
<1>2. UNION {Reports!WorkAllocationHeatmap(Reports!HeatmapRows(months, team)) : team \in teams} = cells
  <2>1. UNION {Reports!WorkAllocationHeatmap({t \in rows : t.team = team}) : team \in teams} = cells
    <3> HIDE DEF teams
    <3> QED BY <1>1, HeatmapSplits
  <2>2. {Reports!WorkAllocationHeatmap(Reports!HeatmapRows(months, team)) : team \in teams}
          = {Reports!WorkAllocationHeatmap({t \in rows : t.team = team}) : team \in teams}
    <3> HIDE DEF teams
    <3> QED BY <1>1
  <2> QED BY <2>1, <2>2, Zenon
<1>3. Reports!SumFunction([c \in cells |-> Reports!CellHours(c)]) = Reports!TeamedHours(rows)
  BY <1>1, HeatmapAddsUp
<1>4. Reports!SumFunction([f \in focus |-> f.roadmap + f.improvement]) = Reports!TeamedHours(yes)
  BY <1>1, FocusAddsUp
<1>5. Reports!TeamedHours(rows) = Reports!TeamedHours(no) + Reports!TeamedHours(yes)
  <2>1. rows = no \cup yes /\ no \cap yes = {} /\ no \subseteq TeamedRows /\ yes \subseteq TeamedRows
    BY <1>1
  <2> HIDE DEF no, yes
  <2>2. Reports!TeamedHours(no \cup yes) = Reports!TeamedHours(no) + Reports!TeamedHours(yes)
    BY <2>1, TeamedParts
  <2> QED BY <2>1, <2>2, Zenon
<1>6. Reports!SumFunction([c \in cells |-> Reports!CellHours(c)])
        = Reports!TeamedHours(no) + Reports!SumFunction([f \in focus |-> f.roadmap + f.improvement])
  <2> HIDE DEF no, yes, cells, focus
  <2> QED BY <1>3, <1>4, <1>5, Zenon
<1> QED BY <1>2, <1>6, Zenon DEF Reports!HeatmapAgrees, rows, months

-----------------------------------------------------------------------------
(* The report on interruptions *)

IssueRows(rows, i) == {t \in rows : t.row.issue = i}
TeamedIssues(issues, rows) == {i \in issues : \E t \in rows : t.row.issue = i}
AllInterruptions(issues, rows) == {Reports!Interruption(i, IssueRows(rows, i)) : i \in TeamedIssues(issues, rows)}
InterruptionsTyped(some) == IsFiniteSet(some) /\ \A x \in some : x.roadmap \in Nat /\ x.improvement \in Nat

LEMMA InterruptionHas ==
  ASSUME EffortInv, NEW i, NEW rows \in SUBSET TeamedRows
  PROVE  LET x == Reports!Interruption(i, rows)
         IN  /\ x.issue = i /\ x.roadmap \in Nat /\ x.improvement \in Nat
             /\ x.roadmap + x.improvement = Reports!TeamedHours(rows)
<1> DEFINE S == {t \in rows : t.row.topic = "feature"}
           T == {t \in rows : t.row.topic # "feature"}
           x == Reports!Interruption(i, rows)
<1>1. x.issue = i /\ x.roadmap = Reports!TeamedHours(S) /\ x.improvement = Reports!TeamedHours(T)
  BY DEF Reports!Interruption
<1>2. S \cup T = rows /\ S \cap T = {} /\ S \subseteq TeamedRows /\ T \subseteq TeamedRows
  OBVIOUS
<1> HIDE DEF S, T, x
<1>3. Reports!TeamedHours(S \cup T) = Reports!TeamedHours(S) + Reports!TeamedHours(T)
  BY <1>2, TeamedParts
<1>4. Reports!TeamedHours(rows) = Reports!TeamedHours(S) + Reports!TeamedHours(T)
  BY <1>2, <1>3, Zenon
<1> QED BY <1>1, <1>2, <1>4, PartTeamed DEF x

(* Every hour of an issue is in its one interruption. *)
LEMMA IssuesAddUp ==
  ASSUME EffortInv, NEW rows \in SUBSET TeamedRows, NEW issues, IsFiniteSet(issues)
  PROVE  LET all == AllInterruptions(issues, rows)
         IN  /\ InterruptionsTyped(all)
             /\ \A f : (\A x \in all : f[x] = x.roadmap + x.improvement) =>
                  SumFunctionOnSet(f, all) = Reports!TeamedHours({t \in rows : t.row.issue \in issues})
<1> DEFINE K == TeamedIssues(issues, rows)
           all == AllInterruptions(issues, rows)
           some == {t \in rows : t.row.issue \in issues}
           key == [t \in some |-> t.row.issue]
           r == [i \in K |-> Reports!Interruption(i, IssueRows(rows, i))]
<1>1. all = RowsFor(r, K)
  <2>1. \A i \in K : r[i] = Reports!Interruption(i, IssueRows(rows, i))
    OBVIOUS
  <2> HIDE DEF r, K
  <2> QED BY <2>1 DEF RowsFor, AllInterruptions, K
<1>2. \A i \in K : /\ r[i].issue = i /\ r[i].roadmap \in Nat /\ r[i].improvement \in Nat
                   /\ r[i].roadmap + r[i].improvement = Reports!TeamedHours(IssueRows(rows, i))
  <2>1. ASSUME NEW i \in K
        PROVE  /\ r[i].issue = i /\ r[i].roadmap \in Nat /\ r[i].improvement \in Nat
               /\ r[i].roadmap + r[i].improvement = Reports!TeamedHours(IssueRows(rows, i))
    <3>1. IssueRows(rows, i) \subseteq TeamedRows
      BY DEF IssueRows
    <3>2. r[i] = Reports!Interruption(i, IssueRows(rows, i))
      OBVIOUS
    <3> HIDE DEF r, K
    <3> QED BY <3>1, <3>2, InterruptionHas
  <2> QED BY <2>1
<1>3. IsFiniteSet(K) /\ \A t \in some : key[t] \in K
  <2>1. K \subseteq issues /\ \A t \in some : t.row.issue \in K
    BY DEF TeamedIssues
  <2> QED BY <2>1, FS_Subset
<1>4. \A i \in K : Group(some, key, i) = IssueRows(rows, i)
  <2>1. K \subseteq issues
    BY DEF TeamedIssues
  <2> HIDE DEF K
  <2> QED BY <2>1 DEF Group, IssueRows
<1>5. some \subseteq TeamedRows
  OBVIOUS
<1> HIDE DEF K, all, some, key, r
<1>6. InterruptionsTyped(all)
  <2>1. IsFiniteSet(all)
    BY <1>1, <1>3, ValuesFinite DEF RowsFor
  <2> QED BY <1>1, <1>2, <2>1 DEF InterruptionsTyped, RowsFor
<1>7. ASSUME NEW f, \A x \in all : f[x] = x.roadmap + x.improvement
      PROVE  SumFunctionOnSet(f, all) = Reports!TeamedHours(some)
  <2>1. \A i \in K : f[r[i]] = Reports!TeamedHours(Group(some, key, i))
    BY <1>1, <1>2, <1>4, <1>7 DEF RowsFor
  <2>2. TeamedTabled(r, f, K, some, key)
    BY <1>2, <1>3, <2>1 DEF TeamedTabled
  <2> QED BY <1>1, <1>5, <2>2, TeamedTable
<1> QED BY <1>6, <1>7 DEF all, some

(* The rows of the table have the roadmap hours of the issues and the improvement of those that interrupted. *)
Listed(x) == x.roadmap > 0 \/ Reports!IsInterrupted(x) \/ (x.improvement > 0 /\ x.confidence = "weak")
TeamAndMonth(x) == [team |-> x.team, month |-> x.month]
IssuesFor(issues, k) == {x \in issues : x.team = k.team /\ x.month = k.month}

LEMMA InterruptionRowHas ==
  ASSUME NEW k, NEW some, InterruptionsTyped(some), NEW w,
         \A x \in some : w[x] = x.roadmap + (IF Reports!IsInterrupted(x) THEN x.improvement ELSE 0)
  PROVE  LET r == Reports!InterruptionRow(k, some)
         IN  r.team = k.team /\ r.month = k.month /\ r.roadmap + r.interrupting = SumFunctionOnSet(w, some)
<1> DEFINE r == Reports!InterruptionRow(k, some)
           those == {x \in some : Reports!IsInterrupted(x)}
           f == [x \in some |-> x.roadmap]
           g == [x \in those |-> x.improvement]
           h == [x \in some |-> IF Reports!IsInterrupted(x) THEN x.improvement ELSE 0]
<1>1. r.team = k.team /\ r.month = k.month /\ r.roadmap = Reports!SumFunction(f) /\ r.interrupting = Reports!SumFunction(g)
  BY DEF Reports!InterruptionRow
<1>2. DOMAIN f = some /\ DOMAIN g = those /\ those \subseteq some /\ IsFiniteSet(some) /\ IsFiniteSet(those)
  BY FS_Subset DEF InterruptionsTyped
<1>3. /\ Summable(f, some) /\ Summable(h, some) /\ (\A x \in some : w[x] = f[x] + h[x])
      /\ (\A x \in some \ those : h[x] = 0) /\ \A x \in those : g[x] = h[x]
  BY DEF InterruptionsTyped, Summable
<1> HIDE DEF r, f, g, h, those
<1>4. SumFunctionOnSet(g, those) = SumFunctionOnSet(h, those) /\ SumFunctionOnSet(h, those) = SumFunctionOnSet(h, some)
  BY <1>2, <1>3, SumSame, SumRest
<1>5. SumFunctionOnSet(w, some) = SumFunctionOnSet(f, some) + SumFunctionOnSet(h, some)
  BY <1>3, SumPlus
<1> QED BY <1>1, <1>2, <1>4, <1>5, SumOfAll DEF r

LEMMA InterruptionTable ==
  ASSUME NEW issues, InterruptionsTyped(issues), NEW w,
         \A x \in issues : w[x] = x.roadmap + (IF Reports!IsInterrupted(x) THEN x.improvement ELSE 0)
  PROVE  LET page == Reports!RealInterruptionRatio(issues)
         IN  Reports!SumFunction([r \in page |-> r.roadmap + r.interrupting]) = SumFunctionOnSet(w, issues)
<1> DEFINE listed == {x \in issues : Listed(x)}
           K == {TeamAndMonth(x) : x \in listed}
           some == {x \in issues : TeamAndMonth(x) \in K}
           key == [x \in some |-> TeamAndMonth(x)]
           r == [k \in K |-> Reports!InterruptionRow(k, IssuesFor(issues, k))]
           page == Reports!RealInterruptionRatio(issues)
           g == [x \in page |-> x.roadmap + x.interrupting]
<1>1. page = RowsFor(r, K)
  <2>1. page = {Reports!InterruptionRow(k, IssuesFor(issues, k)) : k \in K}
    <3>1. K = {[team |-> x.team, month |-> x.month]
                 : x \in {x \in issues : x.roadmap > 0 \/ Reports!IsInterrupted(x) \/ (x.improvement > 0 /\ x.confidence = "weak")}}
      BY DEF TeamAndMonth, Listed
    <3> HIDE DEF K
    <3> QED BY <3>1 DEF Reports!RealInterruptionRatio, IssuesFor
  <2>2. \A k \in K : r[k] = Reports!InterruptionRow(k, IssuesFor(issues, k))
    OBVIOUS
  <2> HIDE DEF page, K, r
  <2> QED BY <2>1, <2>2 DEF RowsFor
<1>2. \A x \in issues : w[x] \in Nat /\ (~ Listed(x) => w[x] = 0)
  BY DEF InterruptionsTyped, Listed
<1>3. IsFiniteSet(issues) /\ IsFiniteSet(some) /\ some \subseteq issues
  BY FS_Subset DEF InterruptionsTyped
<1>4. IsFiniteSet(K)
  <2> DEFINE c == [x \in listed |-> TeamAndMonth(x)]
  <2>1. IsFiniteSet(listed) /\ K = {c[x] : x \in listed}
    BY <1>3, FS_Subset
  <2> HIDE DEF c, K, listed
  <2> QED BY <2>1, ValuesFinite
<1>5. \A x \in issues \ some : w[x] = 0
  BY <1>2
<1>6. (\A x \in some : key[x] \in K) /\ DOMAIN g = page /\ \A x \in page : g[x] = x.roadmap + x.interrupting
  OBVIOUS
<1>7. \A k \in K : Group(some, key, k) = IssuesFor(issues, k) /\ k = [team |-> k.team, month |-> k.month]
  <2>1. \A k \in K : k = [team |-> k.team, month |-> k.month]
    BY DEF TeamAndMonth
  <2>2. \A x \in issues, k \in K : TeamAndMonth(x) = k <=> x.team = k.team /\ x.month = k.month
    <3>1. ASSUME NEW x \in issues, NEW k \in K PROVE TeamAndMonth(x) = k <=> x.team = k.team /\ x.month = k.month
      <4>1. TeamAndMonth(x) = [team |-> x.team, month |-> x.month] /\ k = [team |-> k.team, month |-> k.month]
        BY <2>1 DEF TeamAndMonth
      <4> HIDE DEF K
      <4> QED BY <4>1
    <3> QED BY <3>1
  <2> HIDE DEF K
  <2>3. \A k \in K : Group(some, key, k) = {x \in issues : TeamAndMonth(x) = k}
    BY DEF Group
  <2> QED BY <2>1, <2>2, <2>3 DEF IssuesFor
<1>8. \A k \in K : r[k].team = k.team /\ r[k].month = k.month /\ r[k].roadmap + r[k].interrupting = SumFunctionOnSet(w, IssuesFor(issues, k))
  <2>1. ASSUME NEW k \in K
        PROVE  LET x == Reports!InterruptionRow(k, IssuesFor(issues, k))
               IN  x.team = k.team /\ x.month = k.month /\ x.roadmap + x.interrupting = SumFunctionOnSet(w, IssuesFor(issues, k))
    <3>1. IssuesFor(issues, k) \subseteq issues
      BY DEF IssuesFor
    <3>2. InterruptionsTyped(IssuesFor(issues, k))
      BY <1>3, <3>1, FS_Subset DEF InterruptionsTyped
    <3>3. \A x \in IssuesFor(issues, k) : w[x] = x.roadmap + (IF Reports!IsInterrupted(x) THEN x.improvement ELSE 0)
      BY <3>1
    <3> QED BY <3>2, <3>3, InterruptionRowHas
  <2> QED BY <2>1
<1> HIDE DEF K, some, key, r, page, g, listed
<1>9. \A k, l \in K : r[k] = r[l] => k = l
  <2>1. ASSUME NEW k \in K, NEW l \in K, r[k] = r[l] PROVE k = l
    <3>1. k.team = l.team /\ k.month = l.month
      BY <1>8, <2>1
    <3>2. k = [team |-> k.team, month |-> k.month] /\ l = [team |-> l.team, month |-> l.month]
      BY <1>7
    <3> QED BY <3>1, <3>2
  <2> QED BY <2>1
<1>10. \A k \in K : g[r[k]] = SumFunctionOnSet(w, Group(some, key, k))
  BY <1>1, <1>6, <1>7, <1>8 DEF RowsFor
<1>11. Summable(w, issues) /\ Summable(w, some)
  BY <1>2, <1>3 DEF Summable
<1>12. Tabulates(r, K, g, w, some, key)
  BY <1>4, <1>6, <1>9, <1>10, <1>11 DEF Tabulates
<1>13. SumFunctionOnSet(g, page) = SumFunctionOnSet(w, some)
  BY <1>1, <1>12, SumTable
<1>14. SumFunctionOnSet(w, some) = SumFunctionOnSet(w, issues)
  BY <1>3, <1>5, <1>11, SumRest
<1> QED BY <1>6, <1>13, <1>14, SumOfAll DEF g, page

LEMMA InterruptionsAddUp == ASSUME Known, EffortInv, NEW b PROVE Reports!InterruptionsAgree(b)
<1> DEFINE rows == {t \in Reports!HeatmapRows(Reports!MonthlyPeriodBounds(b), None) : t.row.topic \in Reports!Improvements \cup {"feature"}}
           started == Reports!StartedIssues(b)
           all == AllInterruptions(started, rows)
           issues == Reports!InterruptionIssues(started, rows)
           page == Reports!RealInterruptionRatio(issues)
           count == Reports!SumFunction([r \in page |-> r.roadmap + r.interrupting])
           w == [x \in issues |-> x.roadmap + (IF Reports!IsInterrupted(x) THEN x.improvement ELSE 0)]
           rest == [x \in issues |-> IF Reports!IsInterrupted(x) THEN 0 ELSE x.improvement]
           f == [x \in all |-> x.roadmap + x.improvement]
           sum == [x \in issues |-> x.roadmap + x.improvement]
<1>1. rows \subseteq TeamedRows
  BY HeatmapPages
<1>2. IsFiniteSet(started)
  <2>1. started \subseteq DOMAIN Issue
    BY DEF Reports!StartedIssues
  <2> QED BY <2>1, FS_Subset DEF Known, ReportsKnown
<1>3. issues \subseteq all
  <2> HIDE DEF started, rows
  <2> QED BY DEF Reports!InterruptionIssues, AllInterruptions, TeamedIssues, IssueRows
<1>4. /\ \A x \in issues : w[x] = x.roadmap + (IF Reports!IsInterrupted(x) THEN x.improvement ELSE 0)
      /\ \A x \in issues : rest[x] = IF Reports!IsInterrupted(x) THEN 0 ELSE x.improvement
      /\ \A x \in issues : sum[x] = x.roadmap + x.improvement
      /\ \A x \in all : f[x] = x.roadmap + x.improvement
      /\ DOMAIN rest = issues /\ DOMAIN sum = issues
  OBVIOUS
<1> HIDE DEF rows, started, all, issues, w, rest, f, sum
<1>5. InterruptionsTyped(all) /\ SumFunctionOnSet(f, all) = Reports!TeamedHours({t \in rows : t.row.issue \in started})
  BY <1>1, <1>2, <1>4, IssuesAddUp DEF all
<1>6. InterruptionsTyped(issues) /\ \A x \in all : f[x] \in Nat
  BY <1>3, <1>4, <1>5, FS_Subset DEF InterruptionsTyped
<1>7. count = SumFunctionOnSet(w, issues)
  BY <1>4, <1>6, InterruptionTable
<1>8. /\ IsFiniteSet(issues)
      /\ \A x \in issues : w[x] \in Nat /\ rest[x] \in Nat /\ sum[x] = w[x] + rest[x] /\ sum[x] = f[x] /\ sum[x] \in Nat
  BY <1>3, <1>4, <1>6 DEF InterruptionsTyped
<1>9. SumFunctionOnSet(sum, issues) = SumFunctionOnSet(w, issues) + SumFunctionOnSet(rest, issues)
  <2>1. Summable(w, issues) /\ Summable(rest, issues)
    BY <1>8 DEF Summable
  <2> QED BY <1>8, <2>1, SumPlus
<1>10. /\ SumFunctionOnSet(w, issues) \in Nat /\ SumFunctionOnSet(rest, issues) \in Nat
       /\ SumFunctionOnSet(sum, issues) = SumFunctionOnSet(f, issues)
       /\ SumFunctionOnSet(f, issues) \in Nat /\ SumFunctionOnSet(f, issues) =< SumFunctionOnSet(f, all)
  <2>1. IsFiniteSet(all)
    BY <1>5 DEF InterruptionsTyped
  <2>2. SumFunctionOnSet(sum, issues) = SumFunctionOnSet(f, issues)
    BY <1>8, SumSame
  <2>3. SumFunctionOnSet(f, issues) \in Nat /\ SumFunctionOnSet(f, issues) =< SumFunctionOnSet(f, all)
    BY <1>3, <1>6, <2>1, SumPart
  <2> QED BY <1>8, <2>2, <2>3, SumNatural
<1>11. SumFunctionOnSet(f, all) \in Nat
  <2>1. IsFiniteSet(all)
    BY <1>5 DEF InterruptionsTyped
  <2> QED BY <1>6, <2>1, SumNatural
<1>12. Reports!SumFunction(rest) = SumFunctionOnSet(rest, issues) /\ Reports!SumFunction(sum) = SumFunctionOnSet(sum, issues)
  BY <1>4, SumOfAll
<1> HIDE DEF count
<1>13. count <= Reports!TeamedHours({t \in rows : t.row.issue \in started})
  BY <1>5, <1>7, <1>9, <1>10, <1>11
<1>14. count + Reports!SumFunction(rest) = Reports!SumFunction(sum)
  BY <1>7, <1>9, <1>12
<1> QED BY <1>13, <1>14, Zenon DEF Reports!InterruptionsAgree, count, rest, sum, issues, started, rows

-----------------------------------------------------------------------------
(* The capacity forecast and the availability *)

LEMMA AvailableSummed ==
  ASSUME NEW cells, IsFiniteSet(cells), NEW f, \A c \in cells : f[c] = c.available
  PROVE  Reports!Available(cells) = SumFunctionOnSet(f, cells)
<1> DEFINE g == [c \in cells |-> c.available]
<1>1. Reports!Available(cells) = SumFunctionOnSet(g, DOMAIN g)
  BY SumOfAll DEF Reports!Available
<1>2. DOMAIN g = cells /\ \A c \in cells : g[c] = f[c]
  OBVIOUS
<1> HIDE DEF g
<1>3. SumFunctionOnSet(g, cells) = SumFunctionOnSet(f, cells)
  BY <1>2, SumSame
<1> QED BY <1>1, <1>2, <1>3

LEMMA PlannedKnown ==
  ASSUME Known, InputsTyped, NEW p \in Persons, NEW m \in Months
  PROVE  Reports!PlannedHours(p, m) \in Nat /\ (clocked[p][m] = None => Reports!PlannedHours(p, m) = 0)
<1>1. clocked[p][m] \in Clocks \cup {None}
  BY DEF InputsTyped
<1> QED BY <1>1 DEF Reports!PlannedHours, Known, ClocksKnown

AvailabilityCell(p, m) ==
  [team |-> Reports!TeamOf(p, m), month |-> m, person |-> p,
   available |-> Reports!PlannedHours(p, m), logged |-> Reports!Seconds(Reports!Logged(p, m))]
CellsKnown(cells, months) ==
    /\ IsFiniteSet(cells)
    /\ \A c \in cells : /\ c.person \in Persons /\ c.month \in months /\ Reports!Seen(c.person, c.month)
                        /\ c = AvailabilityCell(c.person, c.month) /\ c.available \in Nat /\ c.logged \in Nat
    /\ \A p \in Persons, m \in months : Reports!Seen(p, m) => AvailabilityCell(p, m) \in cells

LEMMA AvailabilityKnown ==
  ASSUME Known, EffortInv, NEW months \in SUBSET Months
  PROVE  CellsKnown(Reports!AvailabilityCells(months, None), months)
<1> DEFINE pairs == {k \in Persons \X months : Reports!Seen(k[1], k[2])}
           f == [k \in pairs |-> AvailabilityCell(k[1], k[2])]
           cells == Reports!AvailabilityCells(months, None)
<1>1. cells = {AvailabilityCell(k[1], k[2]) : k \in pairs}
  BY DEF Reports!AvailabilityCells, AvailabilityCell
<1>2. IsFiniteSet(pairs)
  <2>1. IsFiniteSet(Persons) /\ IsFiniteSet(months)
    BY MonthsAssumption, FS_Subset DEF Known, WorkKnown
  <2>2. IsFiniteSet(Persons \X months)
    BY <2>1, FS_Product
  <2> QED BY <2>2, FS_Subset
<1>3. cells = {f[k] : k \in pairs}
  <2>1. \A k \in pairs : f[k] = AvailabilityCell(k[1], k[2])
    OBVIOUS
  <2> HIDE DEF f, pairs, cells
  <2> QED BY <1>1, <2>1
<1>4. IsFiniteSet(cells)
  <2> HIDE DEF f, pairs, cells
  <2> QED BY <1>2, <1>3, ValuesFinite
<1>5. ASSUME NEW p \in Persons, NEW m \in months
      PROVE  LET c == AvailabilityCell(p, m)
             IN  c.person = p /\ c.month = m /\ c.available \in Nat /\ c.logged \in Nat
  <2>1. Reports!PlannedHours(p, m) \in Nat
    BY PlannedKnown DEF EffortInv
  <2>2. Reports!Seconds(Reports!Logged(p, m)) \in Nat
    <3>1. Reports!Logged(p, m) \subseteq topics
      BY DEF Reports!Logged
    <3> QED BY <3>1, PartSeconds
  <2> QED BY <2>1, <2>2 DEF AvailabilityCell
<1>6. \A k \in pairs : k[1] \in Persons /\ k[2] \in months /\ Reports!Seen(k[1], k[2])
  OBVIOUS
<1>7. \A p \in Persons, m \in months : Reports!Seen(p, m) => <<p, m>> \in pairs
  OBVIOUS
<1> HIDE DEF pairs, cells
<1>8. \A c \in cells : /\ c.person \in Persons /\ c.month \in months /\ Reports!Seen(c.person, c.month)
                       /\ c = AvailabilityCell(c.person, c.month) /\ c.available \in Nat /\ c.logged \in Nat
  <2>1. ASSUME NEW k \in pairs
        PROVE  LET c == AvailabilityCell(k[1], k[2])
               IN  /\ c.person \in Persons /\ c.month \in months /\ Reports!Seen(c.person, c.month)
                   /\ c = AvailabilityCell(c.person, c.month) /\ c.available \in Nat /\ c.logged \in Nat
    BY <1>5, <1>6
  <2> QED BY <1>1, <2>1
<1>9. \A p \in Persons, m \in months : Reports!Seen(p, m) => AvailabilityCell(p, m) \in cells
  <2>1. ASSUME NEW p \in Persons, NEW m \in months, Reports!Seen(p, m) PROVE AvailabilityCell(p, m) \in cells
    <3>1. PICK k \in pairs : k = <<p, m>>
      BY <1>7, <2>1
    <3>2. AvailabilityCell(k[1], k[2]) \in cells /\ k[1] = p /\ k[2] = m
      BY <1>1, <3>1
    <3> QED BY <3>2
  <2> QED BY <2>1
<1> QED BY <1>4, <1>8, <1>9 DEF CellsKnown, cells

(* Teams without availability are left out, and what is logged there is reported apart. *)
LEMMA AvailabilityLeftOut ==
  ASSUME NEW cells, NEW months, CellsKnown(cells, months)
  PROVE  /\ Reports!Available(Reports!AvailabilityVsBooked(cells)) = Reports!Available(cells)
         /\ \A c \in cells \ Reports!AvailabilityVsBooked(cells) : c \in Reports!MissingHrworksPeople(cells) \/ c.logged = 0
<1> DEFINE some == Reports!AvailabilityVsBooked(cells)
           f == [c \in cells |-> c.available]
<1>1. some = {c \in cells : \E d \in cells : d.team = c.team /\ d.available > 0}
  BY DEF Reports!AvailabilityVsBooked
<1>2. \A c \in cells : f[c] = c.available /\ f[c] \in Nat /\ c.logged \in Nat
  BY DEF CellsKnown
<1> HIDE DEF some, f
<1>3. some \subseteq cells /\ IsFiniteSet(some) /\ IsFiniteSet(cells) /\ \A c \in cells \ some : f[c] = 0
  BY <1>1, <1>2, FS_Subset DEF CellsKnown
<1>4. SumFunctionOnSet(f, some) = SumFunctionOnSet(f, cells)
  <2>1. Summable(f, cells)
    BY <1>2, <1>3 DEF Summable
  <2> QED BY <1>3, <2>1, SumRest
<1>5. Reports!Available(some) = SumFunctionOnSet(f, some) /\ Reports!Available(cells) = SumFunctionOnSet(f, cells)
  BY <1>2, <1>3, AvailableSummed
<1>6. \A c \in cells \ some : c \in Reports!MissingHrworksPeople(cells) \/ c.logged = 0
  BY <1>2, <1>3 DEF Reports!MissingHrworksPeople
<1> QED BY <1>4, <1>5, <1>6 DEF some

CapacityKeys(months) == {k \in Persons \X months : clocked[k[1]][k[2]] # None}

HoursKnown(hours, months) ==
    /\ IsFiniteSet(hours)
    /\ \A c \in hours : /\ c.person \in Persons /\ c.month \in months /\ clocked[c.person][c.month] # None
                        /\ Reports!Producer(c.person, c.month) /\ c.team \in CapacityTeams
                        /\ c = Reports!Capacity(c.person, c.month) /\ c.hours \in Nat
    /\ \A p \in Persons, m \in months :
         clocked[p][m] # None /\ Reports!Producer(p, m) /\ Reports!TeamOf(p, m) \in CapacityTeams => Reports!Capacity(p, m) \in hours

LEMMA CapacityKnown ==
  ASSUME Known, InputsTyped, NEW months \in SUBSET Months
  PROVE  HoursKnown(Reports!CapacityHours(months, CapacityTeams), months)
<1> DEFINE pairs == CapacityKeys(months)
           f == [k \in pairs |-> Reports!Capacity(k[1], k[2])]
           all == {Reports!Capacity(k[1], k[2]) : k \in pairs}
           hours == Reports!CapacityHours(months, CapacityTeams)
<1>1. hours = {c \in all : c.role \in Produced /\ c.team \in CapacityTeams}
  BY DEF Reports!CapacityHours, CapacityKeys
<1>2. IsFiniteSet(pairs)
  <2>1. IsFiniteSet(Persons) /\ IsFiniteSet(months)
    BY MonthsAssumption, FS_Subset DEF Known, WorkKnown
  <2>2. IsFiniteSet(Persons \X months)
    BY <2>1, FS_Product
  <2> QED BY <2>2, FS_Subset DEF CapacityKeys
<1>3. all = {f[k] : k \in pairs}
  <2>1. \A k \in pairs : f[k] = Reports!Capacity(k[1], k[2])
    OBVIOUS
  <2> HIDE DEF f, pairs
  <2> QED BY <2>1
<1>4. \A k \in pairs : k[1] \in Persons /\ k[2] \in months /\ clocked[k[1]][k[2]] # None
  BY DEF CapacityKeys
<1>5. \A p \in Persons, m \in months : clocked[p][m] # None => <<p, m>> \in pairs
  BY DEF CapacityKeys
<1>6. ASSUME NEW p \in Persons, NEW m \in months
      PROVE  LET c == Reports!Capacity(p, m)
             IN  /\ c.person = p /\ c.month = m /\ c.hours \in Nat /\ c.team = Reports!TeamOf(p, m)
                 /\ c.role \in Produced <=> Reports!Producer(p, m)
  <2>1. Reports!PlannedHours(p, m) \in Nat
    BY PlannedKnown
  <2> QED BY <2>1 DEF Reports!Capacity, Reports!Producer
<1> HIDE DEF pairs, f, hours
<1>7. IsFiniteSet(hours)
  <2>1. IsFiniteSet(all)
    <3> HIDE DEF all
    <3> QED BY <1>2, <1>3, ValuesFinite
  <2> HIDE DEF all
  <2> QED BY <1>1, <2>1, FS_Subset
<1>8. \A c \in hours : /\ c.person \in Persons /\ c.month \in months /\ clocked[c.person][c.month] # None
                       /\ Reports!Producer(c.person, c.month) /\ c.team \in CapacityTeams
                       /\ c = Reports!Capacity(c.person, c.month) /\ c.hours \in Nat
  <2>1. ASSUME NEW k \in pairs, Reports!Capacity(k[1], k[2]) \in hours
        PROVE  LET c == Reports!Capacity(k[1], k[2])
               IN  /\ c.person \in Persons /\ c.month \in months /\ clocked[c.person][c.month] # None
                   /\ Reports!Producer(c.person, c.month) /\ c.team \in CapacityTeams
                   /\ c = Reports!Capacity(c.person, c.month) /\ c.hours \in Nat
    <3>1. Reports!Capacity(k[1], k[2]).role \in Produced /\ Reports!Capacity(k[1], k[2]).team \in CapacityTeams
      BY <1>1, <2>1
    <3> QED BY <1>4, <1>6, <3>1
  <2> QED BY <1>1, <2>1
<1>9. \A p \in Persons, m \in months :
        clocked[p][m] # None /\ Reports!Producer(p, m) /\ Reports!TeamOf(p, m) \in CapacityTeams => Reports!Capacity(p, m) \in hours
  <2>1. ASSUME NEW p \in Persons, NEW m \in months, clocked[p][m] # None PROVE Reports!Capacity(p, m) \in all
    <3>1. PICK k \in pairs : k = <<p, m>>
      BY <1>5, <2>1
    <3>2. Reports!Capacity(k[1], k[2]) \in all /\ k[1] = p /\ k[2] = m
      BY <3>1
    <3> HIDE DEF all
    <3> QED BY <3>2
  <2> HIDE DEF all
  <2> QED BY <1>1, <1>6, <2>1
<1> QED BY <1>7, <1>8, <1>9 DEF HoursKnown, hours

(* For a team and month the forecast and the availability add the planned hours of the same persons. *)
LEMMA SameCapacity ==
  ASSUME Known, EffortInv, NEW months \in SUBSET Months, NEW m \in months, NEW team \in CapacityTeams,
         NEW hours, HoursKnown(hours, months), NEW cells, CellsKnown(cells, months)
  PROVE  Reports!Hours({c \in hours : c.team = team /\ c.month = m})
           = Reports!Available({c \in cells : c.team = team /\ c.month = m})
<1> DEFINE v == [p \in Persons |-> Reports!PlannedHours(p, m)]
           some == {p \in Persons : clocked[p][m] # None /\ Reports!Producer(p, m) /\ Reports!TeamOf(p, m) = team}
           more == {p \in Persons : Reports!Seen(p, m) /\ Reports!TeamOf(p, m) = team}
           S == {c \in hours : c.team = team /\ c.month = m}
           T == {c \in cells : c.team = team /\ c.month = m}
           r == [p \in Persons |-> Reports!Capacity(p, m)]
           q == [p \in Persons |-> AvailabilityCell(p, m)]
           f == [c \in S |-> c.hours]
           g == [c \in T |-> c.available]
<1>1. \A p \in Persons : v[p] \in Nat /\ (clocked[p][m] = None => v[p] = 0)
  BY PlannedKnown DEF EffortInv
<1>2. \A p \in Persons : /\ r[p].team = Reports!TeamOf(p, m) /\ r[p].month = m /\ r[p].person = p /\ r[p].hours = v[p]
                         /\ q[p].team = Reports!TeamOf(p, m) /\ q[p].month = m /\ q[p].person = p /\ q[p].available = v[p]
  BY DEF Reports!Capacity, AvailabilityCell
<1>3. some \subseteq more /\ IsFiniteSet(some) /\ IsFiniteSet(more) /\ more \subseteq Persons
  BY FS_Subset DEF Reports!Seen, Known, WorkKnown
<1>4. \A p \in more \ some : v[p] = 0
  BY <1>1 DEF Reports!Seen
<1>5. S = {r[p] : p \in some}
  <2>1. \A p \in Persons : r[p] = Reports!Capacity(p, m)
    OBVIOUS
  <2>2. \A c \in S : c.person \in some /\ c = r[c.person]
    <3>1. \A c \in S : c.month = m /\ c.team = team /\ c \in hours
      OBVIOUS
    <3>2. \A c \in S : /\ c.person \in Persons /\ clocked[c.person][m] # None /\ Reports!Producer(c.person, m)
                       /\ c = Reports!Capacity(c.person, m)
      BY <3>1 DEF HoursKnown
    <3> HIDE DEF S, r
    <3>3. \A c \in S : Reports!TeamOf(c.person, m) = team
      BY <1>2, <2>1, <3>1, <3>2
    <3> QED BY <2>1, <3>2, <3>3
  <2>3. \A p \in some : r[p] \in S
    <3>1. \A p \in some : Reports!Capacity(p, m) \in hours /\ Reports!TeamOf(p, m) = team /\ p \in Persons
      BY DEF HoursKnown
    <3> HIDE DEF r, some
    <3> QED BY <1>2, <2>1, <3>1
  <2> HIDE DEF S, r, some
  <2> QED BY <2>2, <2>3
<1>6. T = {q[p] : p \in more}
  <2>1. \A p \in Persons : q[p] = AvailabilityCell(p, m)
    OBVIOUS
  <2>2. \A c \in T : c.person \in more /\ c = q[c.person]
    <3>1. \A c \in T : c.month = m /\ c.team = team /\ c \in cells
      OBVIOUS
    <3>2. \A c \in T : c.person \in Persons /\ Reports!Seen(c.person, m) /\ c = AvailabilityCell(c.person, m)
      BY <3>1 DEF CellsKnown
    <3> HIDE DEF T, q
    <3>3. \A c \in T : Reports!TeamOf(c.person, m) = team
      BY <1>2, <2>1, <3>1, <3>2
    <3> QED BY <2>1, <3>2, <3>3
  <2>3. \A p \in more : q[p] \in T
    <3>1. \A p \in more : AvailabilityCell(p, m) \in cells /\ Reports!TeamOf(p, m) = team /\ p \in Persons
      BY DEF CellsKnown
    <3> HIDE DEF q, more
    <3> QED BY <1>2, <2>1, <3>1
  <2> HIDE DEF T, q, more
  <2> QED BY <2>2, <2>3
<1>7. (\A c \in S : f[c] = c.hours) /\ \A c \in T : g[c] = c.available
  OBVIOUS
<1> HIDE DEF v, some, more, S, T, r, q, f, g
<1>8. SumFunctionOnSet(f, S) = SumFunctionOnSet(v, some)
  <2>1. (\A p, o \in some : r[p] = r[o] => p = o) /\ \A p \in some : v[p] = f[r[p]] /\ v[p] \in Int
    BY <1>1, <1>2, <1>3, <1>5, <1>7
  <2> QED BY <1>3, <1>5, <2>1, SumImage
<1>9. SumFunctionOnSet(g, T) = SumFunctionOnSet(v, more)
  <2>1. (\A p, o \in more : q[p] = q[o] => p = o) /\ \A p \in more : v[p] = g[q[p]] /\ v[p] \in Int
    BY <1>1, <1>2, <1>3, <1>6, <1>7
  <2> QED BY <1>3, <1>6, <2>1, SumImage
<1>10. SumFunctionOnSet(v, some) = SumFunctionOnSet(v, more)
  <2>1. Summable(v, more)
    BY <1>1, <1>3 DEF Summable
  <2> QED BY <1>3, <1>4, <2>1, SumRest
<1>11. IsFiniteSet(S) /\ IsFiniteSet(T)
  BY <1>3, <1>5, <1>6, ValuesFinite
<1>12. Reports!Hours(S) = SumFunctionOnSet(f, S) /\ Reports!Available(T) = SumFunctionOnSet(g, T)
  BY <1>7, <1>11, HoursSummed, AvailableSummed
<1> QED BY <1>8, <1>9, <1>10, <1>12 DEF S, T

LinesOf(p, months, teams) ==
  {[team |-> Reports!NormalizedTeam(a.team), role |-> a.role, person |-> p]
     : a \in {a \in Reports!AssignmentsOf(p) : /\ a.role \in Produced /\ Reports!NormalizedTeam(a.team) \in teams
                                               /\ Reports!Touches(a, months) /\ \E m \in months : Reports!Valid(a, Reports!LastDayOf(m))}}

LEMMA LinesFinite ==
  ASSUME Known, InputsTyped, NEW months, NEW teams
  PROVE  IsFiniteSet(Reports!AssignedLines(months, teams))
<1> DEFINE s == [p \in Persons |-> LinesOf(p, months, teams)]
           sets == {s[p] : p \in Persons}
<1>1. ASSUME NEW p \in Persons PROVE IsFiniteSet(LinesOf(p, months, teams))
  <2> DEFINE some == {a \in Reports!AssignmentsOf(p) :
                        /\ a.role \in Produced /\ Reports!NormalizedTeam(a.team) \in teams
                        /\ Reports!Touches(a, months) /\ \E m \in months : Reports!Valid(a, Reports!LastDayOf(m))}
             f == [a \in some |-> [team |-> Reports!NormalizedTeam(a.team), role |-> a.role, person |-> p]]
  <2>1. IsFiniteSet(some)
    BY AssignmentsKnown, FS_Subset
  <2>2. LinesOf(p, months, teams) = {[team |-> Reports!NormalizedTeam(a.team), role |-> a.role, person |-> p] : a \in some}
    BY DEF LinesOf
  <2>3. \A a \in some : f[a] = [team |-> Reports!NormalizedTeam(a.team), role |-> a.role, person |-> p]
    OBVIOUS
  <2> HIDE DEF some, f
  <2>4. LinesOf(p, months, teams) = {f[a] : a \in some}
    BY <2>2, <2>3
  <2> QED BY <2>1, <2>4, ValuesFinite
<1>2. \A p \in Persons : s[p] = LinesOf(p, months, teams)
  OBVIOUS
<1>3. Reports!AssignedLines(months, teams) = UNION sets
  <2>1. Reports!AssignedLines(months, teams) = UNION {LinesOf(p, months, teams) : p \in Persons}
    BY DEF Reports!AssignedLines, LinesOf
  <2> HIDE DEF s
  <2>2. sets = {LinesOf(p, months, teams) : p \in Persons}
    BY <1>2
  <2> QED BY <2>1, <2>2
<1> HIDE DEF s
<1>4. IsFiniteSet(sets) /\ \A T \in sets : IsFiniteSet(T)
  BY <1>1, <1>2, ValuesFinite DEF Known, WorkKnown
<1> HIDE DEF sets
<1> QED BY <1>3, <1>4, FS_UNION

PlannedIn(hours) == [c \in hours |-> c.hours]

LEMMA PartCapacity ==
  ASSUME NEW hours, NEW months, HoursKnown(hours, months), NEW some \in SUBSET hours
  PROVE  /\ Summable(PlannedIn(hours), some)
         /\ Reports!Hours(some) = SumFunctionOnSet(PlannedIn(hours), some)
<1>1. IsFiniteSet(some) /\ \A c \in some : PlannedIn(hours)[c] = c.hours /\ c.hours \in Nat
  BY FS_Subset DEF HoursKnown, PlannedIn
<1>2. Reports!Hours(some) = SumFunctionOnSet(PlannedIn(hours), some)
  <2> DEFINE f == PlannedIn(hours)
  <2> HIDE DEF f
  <2>1. \A c \in some : f[c] = c.hours
    BY <1>1 DEF f
  <2>2. Reports!Hours(some) = SumFunctionOnSet(f, some)
    BY <1>1, <2>1, HoursSummed
  <2> QED BY <2>2 DEF f
<1> QED BY <1>1, <1>2 DEF Summable

LEMMA CapacityTabled ==
  ASSUME NEW hours, NEW months, HoursKnown(hours, months), NEW K, IsFiniteSet(K), NEW key, \A c \in hours : key[c] \in K,
         NEW r, \A k, l \in K : r[k] = r[l] => k = l, \A k \in K : r[k].hours = Reports!Hours(Group(hours, key, k))
  PROVE  Reports!SumFunction([l \in RowsFor(r, K) |-> l.hours]) = Reports!Hours(hours)
<1> DEFINE page == RowsFor(r, K)
           g == [l \in page |-> l.hours]
           f == PlannedIn(hours)
<1>1. DOMAIN g = page /\ \A l \in page : g[l] = l.hours
  OBVIOUS
<1>2. \A k \in K : r[k] \in page
  BY DEF RowsFor
<1> HIDE DEF page, g
<1>3. \A k \in K : g[r[k]] = SumFunctionOnSet(f, Group(hours, key, k))
  <2>1. ASSUME NEW k \in K PROVE Reports!Hours(Group(hours, key, k)) = SumFunctionOnSet(f, Group(hours, key, k))
    <3>1. Group(hours, key, k) \subseteq hours
      BY DEF Group
    <3> QED BY <3>1, PartCapacity
  <2> QED BY <1>1, <1>2, <2>1
<1>4. Summable(f, hours) /\ Reports!Hours(hours) = SumFunctionOnSet(f, hours)
  BY PartCapacity
<1> HIDE DEF f
<1>5. Tabulates(r, K, g, f, hours, key)
  BY <1>3, <1>4 DEF Tabulates
<1>6. SumFunctionOnSet(g, page) = SumFunctionOnSet(f, hours)
  BY <1>5, SumTable DEF page
<1> QED BY <1>1, <1>4, <1>6, SumOfAll DEF g, page

LEMMA CapacitiesAddUp ==
  ASSUME Known, EffortInv, NEW months \in SUBSET Months, NEW hours, HoursKnown(hours, months), NEW lines, IsFiniteSet(lines)
  PROVE  /\ Reports!SumFunction([l \in Reports!CapacityTable(hours, lines) |-> l.hours]) = Reports!Hours(hours)
         /\ LET series == Reports!CapacitySeries(hours, months, CapacityTeams)
            IN  Reports!SumFunction([s \in series |-> s.hours]) = Reports!Hours(hours)
<1> DEFINE K == lines \cup {Reports!LineKey(c) : c \in hours}
           key == [c \in hours |-> Reports!LineKey(c)]
           r == [l \in K |-> [line |-> l, hours |-> Reports!Hours(Group(hours, key, l))]]
           J == CapacityTeams \X months
           id == [c \in hours |-> <<c.team, c.month>>]
           q == [k \in J |-> [team |-> k[1], month |-> k[2], hours |-> Reports!Hours(Group(hours, id, k))]]
           page == Reports!CapacityTable(hours, lines)
           series == Reports!CapacitySeries(hours, months, CapacityTeams)
<1>1. page = RowsFor(r, K)
  <2>1. \A l : Group(hours, key, l) = {c \in hours : Reports!LineKey(c) = l}
    BY DEF Group
  <2>2. page = {[line |-> l, hours |-> Reports!Hours(Group(hours, key, l))] : l \in K}
    <3> HIDE DEF key
    <3> QED BY <2>1 DEF Reports!CapacityTable
  <2>3. \A l \in K : r[l] = [line |-> l, hours |-> Reports!Hours(Group(hours, key, l))]
    OBVIOUS
  <2> HIDE DEF page, K, key, r
  <2> QED BY <2>2, <2>3 DEF RowsFor
<1>2. IsFiniteSet(K) /\ \A c \in hours : key[c] \in K
  <2>1. {Reports!LineKey(c) : c \in hours} = {key[c] : c \in hours} /\ IsFiniteSet(hours)
    BY DEF HoursKnown
  <2> DEFINE keys == {Reports!LineKey(c) : c \in hours}
  <2>2. K = lines \cup keys
    OBVIOUS
  <2> HIDE DEF K, key, keys
  <2>3. IsFiniteSet(keys) /\ \A c \in hours : key[c] \in keys
    BY <2>1, ValuesFinite DEF keys
  <2> QED BY <2>2, <2>3, FS_Union
<1>3. (\A k, l \in K : r[k] = r[l] => k = l) /\ \A k \in K : r[k].hours = Reports!Hours(Group(hours, key, k))
  <2>1. \A k \in K : r[k].line = k /\ r[k].hours = Reports!Hours(Group(hours, key, k))
    OBVIOUS
  <2> HIDE DEF K, r, key
  <2> QED BY <2>1
<1>4. series = RowsFor(q, J)
  <2>1. \A k \in J : Group(hours, id, k) = {c \in hours : c.team = k[1] /\ c.month = k[2]}
    BY DEF Group
  <2>2. \A k \in J : q[k] = [team |-> k[1], month |-> k[2], hours |-> Reports!Hours({c \in hours : c.team = k[1] /\ c.month = k[2]})]
    <3> HIDE DEF id, J
    <3> QED BY <2>1
  <2>3. series = {[team |-> k[1], month |-> k[2], hours |-> Reports!Hours({c \in hours : c.team = k[1] /\ c.month = k[2]})] : k \in J}
    BY DEF Reports!CapacitySeries
  <2> HIDE DEF series, q, id, J
  <2> QED BY <2>2, <2>3 DEF RowsFor
<1>5. IsFiniteSet(J) /\ \A c \in hours : id[c] \in J
  <2>1. IsFiniteSet(CapacityTeams) /\ IsFiniteSet(months)
    BY MonthsAssumption, FS_Subset DEF Known, ReportsKnown
  <2>2. \A c \in hours : c.team \in CapacityTeams /\ c.month \in months
    BY DEF HoursKnown
  <2> QED BY <2>1, <2>2, FS_Product
<1>6. (\A k, l \in J : q[k] = q[l] => k = l) /\ \A k \in J : q[k].hours = Reports!Hours(Group(hours, id, k))
  <2>1. \A k \in J : q[k].team = k[1] /\ q[k].month = k[2] /\ k = <<k[1], k[2]>> /\ q[k].hours = Reports!Hours(Group(hours, id, k))
    OBVIOUS
  <2> HIDE DEF J, q, id
  <2>2. ASSUME NEW k \in J, NEW l \in J, q[k] = q[l] PROVE k = l
    <3>1. k[1] = l[1] /\ k[2] = l[2]
      BY <2>1, <2>2
    <3>2. k = <<k[1], k[2]>> /\ l = <<l[1], l[2]>>
      BY <2>1
    <3> QED BY <3>1, <3>2
  <2> QED BY <2>1, <2>2
<1> HIDE DEF K, key, r, J, id, q, page, series
<1>7. Reports!SumFunction([l \in page |-> l.hours]) = Reports!Hours(hours)
  BY <1>1, <1>2, <1>3, CapacityTabled
<1>8. Reports!SumFunction([l \in series |-> l.hours]) = Reports!Hours(hours)
  BY <1>4, <1>5, <1>6, CapacityTabled
<1> QED BY <1>7, <1>8 DEF page, series

LEMMA CapacitiesAgree == ASSUME Known, EffortInv, NEW b PROVE Reports!CapacityAgrees(b)
<1> DEFINE months == Reports!MonthlyPeriodBounds(b)
           hours == Reports!CapacityHours(months, CapacityTeams)
           lines == Reports!AssignedLines(months, CapacityTeams)
           page == Reports!CapacityTable(hours, lines)
           series == Reports!CapacitySeries(hours, months, CapacityTeams)
           cells == Reports!AvailabilityCells(months, None)
<1>1. months \subseteq Months /\ InputsTyped
  BY DEF Reports!MonthlyPeriodBounds, EffortInv
<1> HIDE DEF months
<1>2. HoursKnown(hours, months) /\ CellsKnown(cells, months) /\ IsFiniteSet(lines)
  BY <1>1, CapacityKnown, AvailabilityKnown, LinesFinite
<1> HIDE DEF hours, lines, cells
<1>3. Reports!SumFunction([l \in page |-> l.hours]) = Reports!SumFunction([s \in series |-> s.hours])
  BY <1>1, <1>2, CapacitiesAddUp
<1>4. ASSUME NEW s \in series
      PROVE  s.hours = Reports!Available({c \in cells : c.team = s.team /\ c.month = s.month})
  <2>1. PICK team \in CapacityTeams, m \in months :
          s = [team |-> team, month |-> m, hours |-> Reports!Hours({c \in hours : c.team = team /\ c.month = m})]
    BY <1>4 DEF Reports!CapacitySeries
  <2>2. Reports!Hours({c \in hours : c.team = team /\ c.month = m}) = Reports!Available({c \in cells : c.team = team /\ c.month = m})
    BY <1>1, <1>2, SameCapacity
  <2>3. s.team = team /\ s.month = m /\ s.hours = Reports!Hours({c \in hours : c.team = team /\ c.month = m})
    BY <2>1
  <2> QED BY <2>2, <2>3, Zenon
<1>5. /\ Reports!Available(Reports!AvailabilityVsBooked(cells)) = Reports!Available(cells)
      /\ \A c \in cells \ Reports!AvailabilityVsBooked(cells) : c \in Reports!MissingHrworksPeople(cells) \/ c.logged = 0
  BY <1>2, AvailabilityLeftOut
<1>6. \A s \in series : s.hours = Reports!Available({c \in cells : c.team = s.team /\ c.month = s.month})
  BY <1>4
<1> QED BY <1>3, <1>5, <1>6, Zenon DEF Reports!CapacityAgrees, cells, hours, lines, months

-----------------------------------------------------------------------------
(* The reports of a state tell the same of it, whichever days are asked for. *)
THEOREM ReportsAreOne == ASSUME Known PROVE Reports!Spec => []Reports!ReportsAgree
<1>1. EffortInv => Reports!ReportsAgree
  <2> SUFFICES ASSUME EffortInv PROVE Reports!ReportsAgree
    OBVIOUS
  <2>1. Reports!AssignmentsAgree
    BY AssignmentsMeet DEF EffortInv
  <2>2. ASSUME NEW b \in Reports!Bounds
        PROVE  /\ Reports!HeatmapAgrees(b) /\ Reports!InterruptionsAgree(b) /\ Reports!InvestmentAgrees(b)
               /\ Reports!UnassignedAgrees(b) /\ Reports!CapacityAgrees(b)
               /\ \A team \in {None} \cup Reports!Teams : Reports!FeaturesAgree(b, team)
    BY HeatmapsAgree, InterruptionsAddUp, InvestmentAddsUp, UnassignedAddUp, CapacitiesAgree, FeaturesAddUp
  <2> QED BY <2>1, <2>2 DEF Reports!ReportsAgree
<1> QED BY <1>1, EffortInvariance, PTL
=============================================================================
