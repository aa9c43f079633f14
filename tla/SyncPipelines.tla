--------------------------- MODULE SyncPipelines ---------------------------
(* The HRworks and the Jira analytics pipelines (hrworks/sync_pipeline.py,         *)
(* jira_analytics/sync_pipeline.py), their rows in sync_log, the months whose data *)
(* they change and the rebuild of monthly effort that each of them ends with.      *)
(* Their threads run beside each other; a nightly run repairs old rows of all      *)
(* three pipelines.  Every action is one transaction with the memory work before   *)
(* it.                                                                             *)
EXTENDS FiniteSets, Sequences

CONSTANTS HrRuns,    \* runs of run_hrworks_sync
          JiraRuns,  \* runs of run_jira_analytics_sync
          Months     \* months of data

PipelineRuns == HrRuns \cup JiraRuns

VARIABLES row,      \* status of the row of each run in sync_log, "none" before its creation
          old,      \* rows created more than four hours ago
          thread,   \* per run: program counter and locals
          written,  \* per month, the runs whose changes are committed in the warehouse
          included  \* per month, the runs whose changes the monthly effort was computed from

vars == <<row, old, thread, written, included>>

Idle == [at |-> "idle", errors |-> FALSE, processed |-> FALSE, touched |-> {}, read |-> <<>>,
         overlapped |-> FALSE]

Init == /\ row = [r \in PipelineRuns |-> "none"]
        /\ old = {}
        /\ thread = [r \in PipelineRuns |-> Idle]
        /\ written = [m \in Months |-> {}]
        /\ included = [m \in Months |-> {}]

Alive(r) == thread[r].at \notin {"idle", "ended"}

(* A rebuild is open from its first read to its commit. *)
Rebuilding == {r \in PipelineRuns : thread[r].at = "rebuild"}

Goto(r, label) == thread' = [thread EXCEPT ![r].at = label]

-----------------------------------------------------------------------------
CreateLog(r) == /\ thread[r].at = "idle"
                /\ row' = [row EXCEPT ![r] = "running"]
                /\ Goto(r, "load")
                /\ UNCHANGED <<old, written, included>>

(* The scheduler fires a pipeline unless its last scheduled run still works; the   *)
(* admin endpoint starts a thread in any case.  So any run may start at any time;  *)
(* the row is created at once, in a transaction of its own.                        *)
ScheduleJobs == \E r \in PipelineRuns : CreateLog(r)
TriggerHrworks == \E r \in HrRuns : CreateLog(r)
TriggerJira == \E r \in JiraRuns : CreateLog(r)

(* Creation of the row and loading of the configuration precede the try block: an  *)
(* exception in the load ends the thread and leaves the row running.               *)
Load(r) == /\ thread[r].at = "load"
           /\ \E next \in {"ended", "credentials"} : Goto(r, next)
           /\ UNCHANGED <<row, old, written, included>>
LoadHrworks == \E r \in HrRuns : Load(r)
LoadJira == \E r \in JiraRuns : Load(r)

(* Without credentials the try block raises before the first phase.  The phase    *)
(* ingestion is marked running in the row otherwise.                               *)
Credentials(r) == /\ thread[r].at = "credentials"
                  /\ \/ Goto(r, "ingestion")
                     \/ thread' = [thread EXCEPT ![r].at = "finish", ![r].errors = TRUE]
                  /\ UNCHANGED <<row, old, written, included>>
HrworksCredentials == \E r \in HrRuns : Credentials(r)
JiraCredentials == \E r \in JiraRuns : Credentials(r)

(* Mutant of CommitPerson: the touched month is not remembered. *)
CommitPersonOnly(r) == /\ r \in HrRuns
                       /\ thread[r].at = "ingestion"
                       /\ \E m \in Months : written' = [written EXCEPT ![m] = @ \cup {r}]
                       /\ UNCHANGED <<row, old, thread, included>>

(* The HRworks collector commits person after person, with the months it has       *)
(* touched in memory.                                                              *)
CommitPerson(r) == /\ r \in HrRuns
                   /\ thread[r].at = "ingestion"
                   /\ \E m \in Months \ thread[r].touched :
                        /\ written' = [written EXCEPT ![m] = @ \cup {r}]
                        /\ thread' = [thread EXCEPT ![r].touched = @ \cup {m}]
                   /\ UNCHANGED <<row, old, included>>

(* The Jira collector commits all its issues once, at its end. *)
CommitIssues(r) == /\ r \in JiraRuns
                   /\ thread[r].at = "ingestion"
                   /\ \E ms \in SUBSET Months, failed, any \in BOOLEAN :
                        /\ ms # {} => any
                        /\ written' = [m \in Months |->
                                         IF m \in ms THEN written[m] \cup {r} ELSE written[m]]
                        /\ thread' = [thread EXCEPT ![r].at = "workflows",
                                                    ![r].errors = failed,
                                                    ![r].processed = any]
                   /\ UNCHANGED <<row, old, included>>

(* Workflow definitions and feature membership follow whatever the collector       *)
(* reported; an error of the workflows counts like one of the collector.           *)
SyncWorkflows(r) == /\ thread[r].at = "workflows"
                    /\ \E failed, any \in BOOLEAN :
                         thread' = [thread EXCEPT ![r].errors = @ \/ failed, ![r].processed = @ \/ any,
                                                  ![r].at = "membership"]
                    /\ UNCHANGED <<row, old, written, included>>

DeriveMembership(r) == /\ thread[r].at = "membership"
                       /\ \E any \in BOOLEAN :
                            thread' = [thread EXCEPT ![r].processed = @ \/ any,
                                         ![r].at = IF thread[r].errors THEN "finish" ELSE "allocation"]
                       /\ UNCHANGED <<row, old, written, included>>

(* The HRworks collector returns.  Allocation is skipped after an error, and when  *)
(* no month was touched.                                                           *)
Collected(r) == /\ r \in HrRuns
                /\ thread[r].at = "ingestion"
                /\ \E failed, any \in BOOLEAN :
                     /\ thread[r].touched # {} => any
                     /\ thread' = [thread EXCEPT
                                  ![r].errors = failed,
                                  ![r].processed = any,
                                  ![r].at = IF failed \/ thread[r].touched = {}
                                            THEN "finish" ELSE "allocation"]
                /\ UNCHANGED <<row, old, written, included>>

(* Months that the rebuild of a run computes anew: those it touched for HRworks,   *)
(* all for Jira analytics.                                                         *)
Rebuilt(r) == IF r \in HrRuns THEN thread[r].touched ELSE Months

(* rebuild_monthly_allocation reads the warehouse and commits at its end.          *)
ReadData(r) ==
  /\ thread[r].at = "allocation"
  /\ thread' = [q \in PipelineRuns |->
                  CASE q = r -> [thread[r] EXCEPT !.at = "rebuild",
                                                  !.read = written,
                                                  !.overlapped = Rebuilding # {}]
                    [] q \in Rebuilding -> [thread[q] EXCEPT !.overlapped = TRUE]
                    [] OTHER -> thread[q]]
  /\ UNCHANGED <<row, old, written, included>>

AllocateHrworks == \E r \in HrRuns : ReadData(r)
AllocateJira == \E r \in JiraRuns : ReadData(r)

CommitRebuild(r) ==
  /\ thread[r].at = "rebuild"
  /\ included' = [m \in Months |-> IF m \in Rebuilt(r) THEN thread[r].read[m] ELSE included[m]]
  /\ thread' = [thread EXCEPT ![r].at = "finish", ![r].read = <<>>]
  /\ UNCHANGED <<row, old, written>>

(* Any statement of the try block may raise.  The collectors raise on a fault of   *)
(* the database; their counts, and with them what they have committed, are lost.   *)
Raise(r) == /\ thread[r].at \in {"ingestion", "workflows", "membership", "allocation", "rebuild"}
            /\ thread' = [thread EXCEPT ![r].at = "finish", ![r].errors = TRUE, ![r].read = <<>>]
            /\ UNCHANGED <<row, old, written, included>>

RaiseHrworks == \E r \in HrRuns : Raise(r)
RaiseJira == \E r \in JiraRuns : Raise(r)

Verdict(r) == IF ~thread[r].errors THEN "success"
              ELSE IF thread[r].processed THEN "partial_failure" ELSE "failed"

(* The row is overwritten without a look at it.  When this transaction fails        *)
(* nothing catches the exception.                                                  *)
Finish(r) == /\ thread[r].at = "finish"
             /\ row' \in {row, [row EXCEPT ![r] = Verdict(r)]}
             /\ Goto(r, "ended")
             /\ UNCHANGED <<old, written, included>>
FinishHrworks == \E r \in HrRuns : Finish(r)
FinishJira == \E r \in JiraRuns : Finish(r)

(* The process dies with all its threads. *)
Crash == /\ \E r \in PipelineRuns : Alive(r)
         /\ thread' = [r \in PipelineRuns |-> IF Alive(r) THEN [Idle EXCEPT !.at = "ended"] ELSE thread[r]]
         /\ UNCHANGED <<row, old, written, included>>

Age(r) == /\ row[r] # "none"
          /\ r \notin old
          /\ old' = old \cup {r}
          /\ UNCHANGED <<row, thread, written, included>>

(* Mutant of Repair: only rows of the HRworks pipeline are repaired. *)
RepairHrworks == /\ \E r \in old \cap HrRuns : row[r] = "running"
                 /\ row' = [r \in PipelineRuns |->
                             IF r \in old \cap HrRuns /\ row[r] = "running" THEN "crashed" ELSE row[r]]
                 /\ UNCHANGED <<old, thread, written, included>>

(* _resolve_orphaned_sync_logs, at the start of the process and of every nightly   *)
(* run: its first UPDATE asks for no source.                                       *)
Repair == /\ \E r \in old : row[r] = "running"
          /\ row' = [r \in PipelineRuns |-> IF r \in old /\ row[r] = "running" THEN "crashed" ELSE row[r]]
          /\ UNCHANGED <<old, thread, written, included>>

StepHrworks == \/ LoadHrworks \/ HrworksCredentials
               \/ \E r \in HrRuns : CommitPerson(r) \/ Collected(r)
               \/ AllocateHrworks \/ (\E r \in HrRuns : CommitRebuild(r))
               \/ RaiseHrworks \/ FinishHrworks

StepJira == \/ LoadJira \/ JiraCredentials
            \/ \E r \in JiraRuns : CommitIssues(r) \/ SyncWorkflows(r) \/ DeriveMembership(r)
            \/ AllocateJira \/ (\E r \in JiraRuns : CommitRebuild(r))
            \/ RaiseJira \/ FinishJira

Next == \/ ScheduleJobs \/ TriggerHrworks \/ TriggerJira
        \/ StepHrworks \/ StepJira
        \/ \E r \in PipelineRuns : Age(r)
        \/ Crash
        \/ Repair

Spec == Init /\ [][Next]_vars

(* Time passes, and the nightly pipeline is scheduled every day. *)
Fairness == /\ \A r \in PipelineRuns : WF_vars(Age(r))
            /\ WF_vars(Repair)

FairSpec == Spec /\ Fairness
-----------------------------------------------------------------------------
TypeOK == /\ row \in [PipelineRuns -> {"none", "running", "success", "partial_failure", "failed",
                               "crashed"}]
          /\ old \in SUBSET PipelineRuns
          /\ written \in [Months -> SUBSET PipelineRuns]
          /\ included \in [Months -> SUBSET PipelineRuns]
          /\ \A r \in PipelineRuns : /\ thread[r].errors \in BOOLEAN
                             /\ thread[r].processed \in BOOLEAN
                             /\ thread[r].overlapped \in BOOLEAN
                             /\ thread[r].touched \in SUBSET Months

(* A run whose row says success has its changes in the monthly effort, unless      *)
(* another rebuild was open together with its own: neither the months committed    *)
(* one by one, nor errors of single people or issues, nor a repair of the row in   *)
(* between may leave a success whose months still show old effort.                 *)
SuccessIsAllocated ==
  \A r \in PipelineRuns, m \in Months :
    row[r] = "success" /\ r \in written[m] /\ ~thread[r].overlapped => r \in included[m]

(* Although neither pipeline marks its own rows at a start, and a thread may end    *)
(* or die outside the try block, every row that says running gets another status:  *)
(* the nightly repair does not ask whose row it is.                                *)
RowsAreClosed == \A r \in PipelineRuns : row[r] = "running" ~> row[r] # "running"
=============================================================================
