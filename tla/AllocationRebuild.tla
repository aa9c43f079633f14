------------------------- MODULE AllocationRebuild -------------------------
(***************************************************************************)
(* rebuild_monthly_allocation (jira_analytics/allocation) and its callers: *)
(* the two "rebuild all months" endpoints, each behind its own lock and    *)
(* status register, the endpoint for one month, and the HRworks and Jira   *)
(* analytics pipelines.                                                    *)
(*                                                                         *)
(* A rebuild is one database transaction at READ COMMITTED.  For each of   *)
(* its months it deletes the rows of two tables, derives topic rows from   *)
(* the worklogs, reads the topic rows it can see, and writes effort rows.  *)
(* The rows that a rebuild derives for a month are taken together.         *)
(***************************************************************************)
EXTENDS Integers, FiniteSets, FiniteSetsExt

CONSTANTS
    Rebuilds,   \* the calls of rebuild_monthly_allocation considered
    Months,     \* the months that have worklogs
    Callers,    \* who may call
    Faults      \* what may go wrong: "crash" and/or "database"

Registers == {"admin", "reports"}

ASSUME RebuildsAssumption == Rebuilds # {}
ASSUME MonthsAssumption == Months \subseteq Nat /\ IsFiniteSet(Months) /\ Months # {}
ASSUME CallersAssumption == Callers \subseteq Registers \cup {"month", "hrworks", "jira"}
ASSUME RebuildFaults == Faults \subseteq {"crash", "database"}

Tables == {"topics", "effort"}

VARIABLES
    job,        \* the transaction of each rebuild
    table,      \* committed rows of a month: <<rebuild that wrote it, rebuild
                \* whose topic row it was computed from>>
    register,   \* _allocation_rebuild_status and _rebuild_status
    met         \* history: the rebuilds that each rebuild overlapped in time

vars == <<job, table, register, met>>

-----------------------------------------------------------------------------

NoRows == [t \in Tables |-> [m \in Months |-> {}]]

NewJob ==
    [at |-> "idle", caller |-> "none", months |-> {}, todo |-> {}, table |-> "topics",
     seen |-> {}, drop |-> NoRows, made |-> NoRows, committed |-> FALSE]

Init ==
    /\ job = [j \in Rebuilds |-> NewJob]
    /\ table = NoRows
    /\ register = [c \in Registers |-> "idle"]
    /\ met = [j \in Rebuilds |-> {}]

InTransaction == {"delete", "wait", "derive", "allocate", "commit"}

Active(j) == job[j].at \in InTransaction

Running(j) == job[j].at \in InTransaction \cup {"report"}

(* Mutant of Month: the months of the HRworks pipeline are not sorted. *)
UnsortedMonth(j) == IF job[j].caller = "hrworks" THEN Max(job[j].todo) ELSE Min(job[j].todo)

(* The months are sorted by every caller that has more than one. *)
Month(j) == Min(job[j].todo)

(* What a SELECT of the transaction returns now: READ COMMITTED. *)
Visible(j, t, m) == (table[t][m] \ job[j].drop[t][m]) \cup job[j].made[t][m]

Put(f, t, m, rows) == [f EXCEPT ![t] = [f[t] EXCEPT ![m] = rows]]

Set(j, changes) == [job EXCEPT ![j] = changes]

-----------------------------------------------------------------------------
(* Callers *)

(* Mutant of MonthsOf: the month after the one asked for is taken. *)
NextMonthsOf(caller) ==
    CASE caller \in {"admin", "reports", "jira"} -> {Months}
      [] caller = "month"                        -> {{m + 1} : m \in Months}
      [] caller = "hrworks"                      -> (SUBSET Months) \ {{}}

MonthsOf(caller) ==
    CASE caller \in {"admin", "reports", "jira"} -> {Months}
      [] caller = "month"                        -> {{m} : m \in Months}
      [] caller = "hrworks"                      -> (SUBSET Months) \ {{}}

Begin(j, caller) ==
    /\ job[j].at = "idle"
    /\ \E months \in MonthsOf(caller) :
          job' = Set(j, [job[j] EXCEPT !.at = "delete", !.caller = caller,
                                       !.months = months, !.todo = months])
    /\ met' = [k \in Rebuilds |->
                  IF k = j THEN {q \in Rebuilds : Active(q)}
                  ELSE IF Active(k) THEN met[k] \cup {j} ELSE met[k]]
    /\ UNCHANGED table

(* Mutant of RequestAll: the register is written but not looked at. *)
RequestAllAnyway(j, caller) ==
    /\ caller \in Callers \cap Registers
    /\ register' = [register EXCEPT ![caller] = "running"]
    /\ Begin(j, caller)

(* The state is tested and set under the lock; the thread starts afterwards and
   waits for nobody. *)
RequestAll(j, caller) ==
    /\ caller \in Callers \cap Registers
    /\ register[caller] # "running"
    /\ register' = [register EXCEPT ![caller] = "running"]
    /\ Begin(j, caller)

(* One month on demand, or the last phase of a pipeline: no guard. *)
RequestSome(j, caller) ==
    /\ caller \in Callers \ Registers
    /\ Begin(j, caller)
    /\ UNCHANGED register

-----------------------------------------------------------------------------
(* The transaction *)

(* A DELETE takes its snapshot of the committed rows when the statement starts. *)
StartDelete(j) ==
    /\ job[j].at = "delete"
    /\ job' = Set(j, [job[j] EXCEPT !.at = "wait", !.seen = table[job[j].table][Month(j)]])
    /\ UNCHANGED <<table, register, met>>

(* The DELETE of j has found rows that k has deleted. *)
WaitsFor(j, k) ==
    /\ j # k /\ job[j].at = "wait"
    /\ job[k].drop[job[j].table][Month(j)] \cap job[j].seen # {}

Unlocked(j) == \A k \in Rebuilds : ~ WaitsFor(j, k)

Dropped(j, rows) == Put(job[j].drop, job[j].table, Month(j), rows)

(* Mutant of EndDelete: the transaction ends after each DELETE. *)
EndDeleteAndCommit(j) ==
    /\ job[j].at = "wait" /\ Unlocked(j)
    /\ table' = [table EXCEPT ![job[j].table][Month(j)] = @ \ job[j].seen]
    /\ job' = Set(j, [job[j] EXCEPT !.at = IF job[j].table = "topics" THEN "delete" ELSE "derive",
                                    !.table = "effort", !.seen = {}])
    /\ UNCHANGED <<register, met>>

(* Mutant of EndDelete: the effort of the month is left in place. *)
EndDeleteTopicsOnly(j) ==
    /\ job[j].at = "wait" /\ Unlocked(j)
    /\ job' = Set(j, [job[j] EXCEPT !.at = "derive", !.table = "effort", !.seen = {},
                                    !.drop = Dropped(j, job[j].seen \cap table[job[j].table][Month(j)])])
    /\ UNCHANGED <<table, register, met>>

(* It waits for transactions that have deleted rows it has seen, then deletes
   those that are left.  Rows committed since its start are not seen. *)
EndDelete(j) ==
    /\ job[j].at = "wait" /\ Unlocked(j)
    /\ job' = Set(j, [job[j] EXCEPT !.at = IF job[j].table = "topics" THEN "delete" ELSE "derive",
                                    !.table = "effort", !.seen = {},
                                    !.drop = Dropped(j, job[j].seen \cap table[job[j].table][Month(j)])])
    /\ UNCHANGED <<table, register, met>>

Made(j, t, rows) == Put(job[j].made, t, Month(j), rows)

(* _refresh_topic_base, flushed before the next statement. *)
Derive(j) ==
    /\ job[j].at = "derive"
    /\ job' = Set(j, [job[j] EXCEPT !.at = "allocate", !.made = Made(j, "topics", {<<j, j>>})])
    /\ UNCHANGED <<table, register, met>>

(* Mutant of Allocate: the topic rows just derived are used, not those selected. *)
AllocateDerived(j) ==
    /\ job[j].at = "allocate"
    /\ LET rest == job[j].todo \ {Month(j)}
       IN  job' = Set(j, [job[j] EXCEPT !.at = IF rest = {} THEN "commit" ELSE "delete",
                                        !.table = "topics", !.todo = rest,
                                        !.made = Made(j, "effort", {<<j, j>>})])
    /\ UNCHANGED <<table, register, met>>

(* _allocate_period selects the topic rows of the month, whoever wrote them. *)
Allocate(j) ==
    /\ job[j].at = "allocate"
    /\ LET rest == job[j].todo \ {Month(j)}
           rows == {<<j, row[2]>> : row \in Visible(j, "topics", Month(j))}
       IN  job' = Set(j, [job[j] EXCEPT !.at = IF rest = {} THEN "commit" ELSE "delete",
                                        !.table = "topics", !.todo = rest,
                                        !.made = Made(j, "effort", rows)])
    /\ UNCHANGED <<table, register, met>>

(* The end of the transaction releases its locks. *)
Ended(j, committed) ==
    Set(j, [job[j] EXCEPT !.at = IF job[j].caller \in Registers THEN "report" ELSE "done",
                          !.table = "topics", !.todo = {}, !.seen = {}, !.drop = NoRows,
                          !.made = NoRows, !.committed = committed])

Commit(j) ==
    /\ job[j].at = "commit"
    /\ table' = [t \in Tables |-> [m \in Months |-> Visible(j, t, m)]]
    /\ job' = Ended(j, TRUE)
    /\ UNCHANGED <<register, met>>

(* Any statement may raise; the session is closed and everything rolled back. *)
Fail(j) ==
    /\ "database" \in Faults
    /\ Active(j)
    /\ job' = Ended(j, FALSE)
    /\ UNCHANGED <<table, register, met>>

(* Mutant of Report: a failure leaves the register as it was. *)
ReportSuccess(j) ==
    /\ job[j].at = "report"
    /\ register' = IF job[j].committed
                     THEN [register EXCEPT ![job[j].caller] = "succeeded"] ELSE register
    /\ job' = Set(j, [job[j] EXCEPT !.at = "done"])
    /\ UNCHANGED <<table, met>>

Report(j) ==
    /\ job[j].at = "report"
    /\ register' = [register EXCEPT ![job[j].caller] =
                       IF job[j].committed THEN "succeeded" ELSE "failed"]
    /\ job' = Set(j, [job[j] EXCEPT !.at = "done"])
    /\ UNCHANGED <<table, met>>

(* The process restarts: open transactions are rolled back, the registers are
   module variables and start anew. *)
Crash ==
    /\ "crash" \in Faults
    /\ \E j \in Rebuilds : Running(j)
    /\ job' = [j \in Rebuilds |-> IF Running(j) THEN [Ended(j, job[j].committed)[j] EXCEPT !.at = "done"]
                                               ELSE job[j]]
    /\ register' = [c \in Registers |-> "idle"]
    /\ UNCHANGED <<table, met>>

-----------------------------------------------------------------------------

Step(j) ==
    \/ StartDelete(j) \/ EndDelete(j) \/ Derive(j) \/ Allocate(j) \/ Commit(j) \/ Report(j)

Next ==
    \/ \E j \in Rebuilds, caller \in Callers : RequestAll(j, caller) \/ RequestSome(j, caller)
    \/ \E j \in Rebuilds : Step(j) \/ Fail(j)
    \/ Crash

Spec == Init /\ [][Next]_vars

-----------------------------------------------------------------------------
(* Properties *)

RowSets == [Tables -> [Months -> SUBSET (Rebuilds \X Rebuilds)]]

Job ==
    [at : InTransaction \cup {"idle", "report", "done"}, caller : Callers \cup {"none"},
     months : SUBSET Months, todo : SUBSET Months, table : Tables,
     seen : SUBSET (Rebuilds \X Rebuilds), drop : RowSets, made : RowSets,
     committed : BOOLEAN]

(* The variables hold what transactions, tables and registers can hold. *)
TypeOK ==
    /\ job \in [Rebuilds -> Job]
    /\ table \in RowSets
    /\ register \in [Registers -> {"idle", "running", "succeeded", "failed"}]
    /\ met \in [Rebuilds -> SUBSET Rebuilds]

(* Hours are counted twice only by rebuilds that overlapped: two sets of rows of one
   month, or an effort row and the topic row it was computed from, are of one rebuild
   or of two that were open at the same time. *)
DuplicatesNeedOverlap ==
    \A t \in Tables, m \in Months : \A x, y \in table[t][m] :
        {x[2], y[1]} \subseteq {x[1]} \cup met[x[1]]

(* Each register is a lock: it says running exactly while one thread works for it. *)
RegisterIsLock ==
    \A c \in Registers :
        /\ register[c] = "running" <=> \E j \in Rebuilds : Running(j) /\ job[j].caller = c
        /\ \A j, k \in Rebuilds : Running(j) /\ Running(k) /\ job[j].caller = c
                                     /\ job[k].caller = c => j = k

(* A report reads a month's effort at any moment: a rebuild never shows it empty. *)
MonthsStay ==
    [][\A t \in Tables, m \in Months : table[t][m] # {} => table'[t][m] # {}]_vars

(* No effort is lost: every topic row in the table has effort rows computed from it. *)
TopicsAreAllocated ==
    \A m \in Months : \A x \in table["topics"][m] : \E y \in table["effort"][m] : y[2] = x[1]

OneCaller == \E c \in Registers : \A j \in Rebuilds : job[j].caller \in {c, "none"}

(* When all rebuilds go through one register, a month is one rebuild's work: its topic
   rows were written once and its effort was computed from exactly these. *)
OneBatch ==
    OneCaller => \A m \in Months : \E j \in Rebuilds :
                    \A t \in Tables : table[t][m] \in {{}, {<<j, j>>}}

(* No set of rebuilds waits in a circle for each other's rows, since all callers take
   the months in one order. *)
NoCircle ==
    \A S \in (SUBSET Rebuilds) \ {{}} : \E j \in S : \A k \in S : ~ WaitsFor(j, k)

=============================================================================
