---------------------------- MODULE NightlySync ----------------------------
(***************************************************************************)
(* The nightly DORA pipeline of backend/app/services/sync_pipeline.py and  *)
(* everything that starts, observes or repairs its runs: the scheduler job *)
(* (scheduler.py), the admin trigger (api/admin_config.py), the process    *)
(* start and stop (main.py) and the orphan resolution of sync_log.         *)
(*                                                                         *)
(* A run is one call of run_nightly_sync on a thread of a backend process. *)
(* It owns one row of sync_log, which it updates in many short             *)
(* transactions.  An action below is one such transaction together with    *)
(* the in-memory work that precedes it: between two of them any other      *)
(* thread or process may commit, and the process may die.                  *)
(***************************************************************************)
EXTENDS Naturals, FiniteSets

CONSTANTS
    Runs,           \* the calls of run_nightly_sync considered
    Instances,      \* backend processes that share the database
    SkipReconcile,  \* those started with DORA_SKIP_STARTUP_SYNC_RECONCILE
    ManualTrigger,  \* may an administrator press "sync now"?
    Faults,         \* what may go wrong: "crash" and/or "database"
    TokenChoices,   \* the sets of collectors that may have an API token
    FlakySteps,     \* the derivations that may raise
    OrphanAge,      \* timedelta(hours=4), in clock ticks
    MaxTime         \* bound of the model: the last tick of the clock

ASSUME RunsAssumption     == IsFiniteSet(Runs)
ASSUME InstanceAssumption == Instances # {} /\ SkipReconcile \subseteq Instances
ASSUME ManualAssumption   == ManualTrigger \in BOOLEAN
ASSUME FaultAssumption    == Faults \subseteq {"crash", "database"}
ASSUME ClockAssumption    == OrphanAge \in Nat /\ MaxTime \in Nat

Collectors == {"gitlab", "jira"}

ASSUME TokenAssumption    == TokenChoices \subseteq SUBSET Collectors

(* map_bugs_to_releases, mttr_alpha, hydrate_jira_rfq, lead_post_production,
   in the order in which the pipeline runs them *)
Derivations == 1..4

ASSUME FlakyAssumption    == FlakySteps \subseteq Derivations

PIPELINE_PHASES == {"gitlab", "jira", "derivations", "snapshots", "complete"}

PhaseStatus == {"pending", "running", "success", "failed", "skipped"}

(* A run that has not reached "complete" walks these labels in this order;
   each phase is divided into stages by the commits that it makes. *)
Labels == {"idle", "resolve", "create", "init"} \cup PIPELINE_PHASES
              \cup {"handler", "stopped"}

Stages == {"begin", "work", "report", "notify"}

RowStatus == {"absent", "running", "success", "partial_failure", "failed", "crashed"}

Terminal == {"success", "partial_failure", "failed", "crashed"}

Triggers == {"scheduled", "manual"}

Events == {"none", "SYNC_SUCCESS", "SYNC_PARTIAL_FAILURE", "SYNC_COMPLETE_FAILURE"}

VARIABLES
    clock,      \* datetime.now(timezone.utc)
    instance,   \* life cycle of each backend process
    run,        \* the local state of each call of run_nightly_sync
    log,        \* sync_log, the row of each call
    fresh       \* derivations whose results reflect the collected data

vars == <<clock, instance, run, log, fresh>>

-----------------------------------------------------------------------------

NewRuntime == [p \in PIPELINE_PHASES |-> "pending"]

NewRun ==
    [at |-> "idle", stage |-> "begin",
     host |-> CHOOSE i \in Instances : TRUE, trigger |-> "scheduled",
     tokens |-> {}, ok |-> {}, derivation |-> 1, derivationErrors |-> FALSE,
     phases |-> NewRuntime, published |-> "no", event |-> "none"]

(* 0 is the null of the two timestamps: the clock starts at 1. *)
NoRow ==
    [status |-> "absent", startedAt |-> 0, finishedAt |-> 0, cause |-> "none",
     phases |-> NewRuntime, collectors |-> {}, snapshots |-> FALSE]

Init ==
    /\ clock = 1
    /\ instance = [i \in Instances |-> "down"]
    /\ run = [r \in Runs |-> NewRun]
    /\ log = [r \in Runs |-> NoRow]
    /\ fresh = {}

At(r, label, stage) == run[r].at = label /\ run[r].stage = stage

Live(r) == run[r].at \notin {"idle", "stopped"}

(* The locals of a thread vanish with it; what it published and announced stays. *)
Dead(r, event) ==
    [NewRun EXCEPT !.at = "stopped", !.published = run[r].published, !.event = event]

RowsWith(l, st) == {r \in Runs : l[r].status = st}

-----------------------------------------------------------------------------
(* sync_log repair *)

Crashed(l, rows, at, cause) ==
    [r \in Runs |->
        IF r \in rows
          THEN [l[r] EXCEPT !.status = "crashed", !.finishedAt = at, !.cause = cause]
          ELSE l[r]]

(* Mutant of OrphansResolved: the second UPDATE forgets status = 'running'. *)
OrphansResolvedAnyStatus(newLog) ==
    LET finished == {log[r].finishedAt : r \in {q \in Runs : log[q].status \in Terminal}}
    IN  \/ finished = {} /\ newLog = log
        \/ \E latest \in finished :
              /\ \A t \in finished : t <= latest
              /\ newLog = Crashed(log, {r \in Runs : log[r].status # "absent"
                                            /\ log[r].startedAt < latest}, latest, "superseded")

(* Mutant of OrphansResolved: the second UPDATE compares the wrong way round. *)
OrphansResolvedReversed(newLog) ==
    LET finished == {log[r].finishedAt : r \in {q \in Runs : log[q].status \in Terminal}}
    IN  \/ finished = {} /\ newLog = log
        \/ \E latest \in finished :
              /\ \A t \in finished : t <= latest
              /\ newLog = Crashed(log, {r \in RowsWith(log, "running") :
                                            log[r].startedAt > latest}, latest, "superseded")

(* One transaction: rows running for longer than OrphanAge first, then those
   that started before the latest end of any row that is not running. *)
OrphansResolved(newLog) ==
    LET old      == {r \in RowsWith(log, "running") : log[r].startedAt + OrphanAge < clock}
        aged     == Crashed(log, old, clock, "timeout")
        finished == {aged[r].finishedAt : r \in {q \in Runs : aged[q].status \in Terminal}}
    IN  \/ /\ finished = {}
           /\ newLog = aged
        \/ \E latest \in finished :
              /\ \A t \in finished : t <= latest
              /\ LET stale == {r \in RowsWith(aged, "running") : aged[r].startedAt < latest}
                 IN  newLog = Crashed(aged, stale, latest, "superseded")

-----------------------------------------------------------------------------
(* A backend process *)

(* lifespan: the reconciliation runs before the scheduler and the API. *)
StartProcess(i) ==
    /\ instance[i] = "down"
    /\ instance' = [instance EXCEPT ![i] = "resolving"]
    /\ UNCHANGED <<clock, run, log, fresh>>

(* Mutant of ReconcileOrphans: running rows are never marked at the start. *)
ReconcileOrphansOnly(i) ==
    /\ instance[i] = "resolving"
    /\ OrphansResolved(log')
    /\ instance' = [instance EXCEPT ![i] = "up"]
    /\ UNCHANGED <<clock, run, fresh>>

ReconcileOrphans(i) ==
    /\ instance[i] = "resolving"
    /\ OrphansResolved(log')
    /\ instance' = [instance EXCEPT ![i] = IF i \in SkipReconcile THEN "up" ELSE "marking"]
    /\ UNCHANGED <<clock, run, fresh>>

(* Mutant of MarkInterrupted: the UPDATE forgets status = 'running'. *)
MarkEveryRow(i) ==
    /\ instance[i] = "marking"
    /\ log' = Crashed(log, {r \in Runs : log[r].status # "absent"}, clock, "interrupted")
    /\ instance' = [instance EXCEPT ![i] = "up"]
    /\ UNCHANGED <<clock, run, fresh>>

MarkInterrupted(i) ==
    /\ instance[i] = "marking"
    /\ log' = Crashed(log, RowsWith(log, "running"), clock, "interrupted")
    /\ instance' = [instance EXCEPT ![i] = "up"]
    /\ UNCHANGED <<clock, run, fresh>>

(* The process dies with its scheduler, its worker threads and the daemon
   threads of manual runs; every row stays as it is. *)
StopProcess(i) ==
    /\ "crash" \in Faults
    /\ instance[i] # "down"
    /\ instance' = [instance EXCEPT ![i] = "down"]
    /\ run' = [r \in Runs |-> IF Live(r) /\ run[r].host = i
                                THEN Dead(r, "none")
                                ELSE run[r]]
    /\ UNCHANGED <<clock, log, fresh>>

Tick ==
    /\ clock < MaxTime
    /\ clock' = clock + 1
    /\ UNCHANGED <<instance, run, log, fresh>>

-----------------------------------------------------------------------------
(* A run begins *)

Begin(i, r, trigger) ==
    /\ instance[i] = "up"
    /\ run[r].at = "idle"
    /\ run' = [run EXCEPT ![r] = [@ EXCEPT !.at = "resolve", !.host = i, !.trigger = trigger]]
    /\ UNCHANGED <<clock, instance, log, fresh>>

(* Mutant of FireSchedule: the job is registered without max_instances=1. *)
FireScheduleAnyway(i, r) == Begin(i, r, "scheduled")

(* The job is registered with max_instances=1: the scheduler drops the firing
   while its own previous run is still executing. *)
FireSchedule(i, r) ==
    /\ \A q \in Runs : ~(Live(q) /\ run[q].host = i /\ run[q].trigger = "scheduled")
    /\ Begin(i, r, "scheduled")

(* POST /sync/trigger starts a daemon thread and looks at nothing first. *)
TriggerManually(i, r) ==
    /\ ManualTrigger
    /\ Begin(i, r, "manual")

Go(r, label, stage) == [run EXCEPT ![r] = [@ EXCEPT !.at = label, !.stage = stage]]

(* An exception outside the try block leaves run_nightly_sync at once. *)
Abandon(r) ==
    /\ "database" \in Faults
    /\ run' = [run EXCEPT ![r] = Dead(r, "none")]
    /\ UNCHANGED <<clock, instance, log, fresh>>

ResolveOrphans(r) ==
    /\ At(r, "resolve", "begin")
    /\ \/ /\ OrphansResolved(log')
          /\ run' = Go(r, "create", "begin")
          /\ UNCHANGED <<clock, instance, fresh>>
       \/ Abandon(r)

(* Reads the configuration, then inserts the row. *)
CreateLog(r) ==
    /\ At(r, "create", "begin")
    /\ \/ /\ \E tokens \in TokenChoices :
                run' = [run EXCEPT ![r] = [@ EXCEPT !.at = "init", !.tokens = tokens]]
          /\ log' = [log EXCEPT ![r] = [NoRow EXCEPT !.status = "running", !.startedAt = clock]]
          /\ UNCHANGED <<clock, instance, fresh>>
       \/ Abandon(r)

(* The first details update, still outside the try block: a failure leaves
   a row that nobody is going to finish. *)
InitDetails(r) ==
    /\ At(r, "init", "begin")
    /\ \/ /\ run' = Go(r, "gitlab", "begin")
          /\ UNCHANGED <<clock, instance, log, fresh>>
       \/ Abandon(r)

-----------------------------------------------------------------------------
(* The try block.  A step commits, or raises into the outer handler with    *)
(* the phase transition already made in memory.                             *)

WithPhase(r, phase, status) == [run[r].phases EXCEPT ![phase] = status]

Raise(r, phases) ==
    /\ "database" \in Faults
    /\ run' = [run EXCEPT ![r] =
                  [@ EXCEPT !.at = "handler", !.stage = "begin",
                            !.phases = [phases EXCEPT !["complete"] = "failed"]]]
    /\ UNCHANGED <<clock, instance, log, fresh>>

(* _update_nightly_sync_log_details writes the phases whatever the status. *)
Report(r, phases, label, stage) ==
    \/ /\ run' = [run EXCEPT ![r] =
                     [@ EXCEPT !.at = label, !.stage = stage, !.phases = phases]]
       /\ log' = [log EXCEPT ![r] = [@ EXCEPT !.phases = phases]]
       /\ UNCHANGED <<clock, instance, fresh>>
    \/ Raise(r, phases)

BeginCollector(r, c) ==
    /\ At(r, c, "begin")
    /\ Report(r, WithPhase(r, c, "running"), c, "work")

Succeeded(c, outcome) == IF outcome = "success" THEN {c} ELSE {}

(* The collector commits everything or nothing and its exceptions stay inside
   the inner try.  New data outdates every derivation. *)
Collect(r, c) ==
    /\ At(r, c, "work")
    /\ \E outcome \in IF c \in run[r].tokens THEN {"success", "failed"} ELSE {"skipped"} :
          /\ run' = [run EXCEPT ![r] =
                        [@ EXCEPT !.stage = "report", !.phases = WithPhase(r, c, outcome),
                                  !.ok = run[r].ok \cup Succeeded(c, outcome)]]
          /\ fresh' = IF outcome = "success" THEN {} ELSE fresh
    /\ UNCHANGED <<clock, instance, log>>

ReportCollector(r, c) ==
    /\ At(r, c, "report")
    /\ Report(r, run[r].phases, IF c = "gitlab" THEN "jira" ELSE "derivations", "begin")

BeginDerivations(r) ==
    /\ At(r, "derivations", "begin")
    /\ \/ /\ run[r].ok = Collectors
          /\ Report(r, WithPhase(r, "derivations", "running"), "derivations", "work")
       \/ /\ run[r].ok # Collectors
          /\ Report(r, WithPhase(r, "derivations", "skipped"), "snapshots", "begin")

(* Mutant of Derive: a success forgets the errors of earlier derivations. *)
DeriveForgetful(r) ==
    /\ At(r, "derivations", "work")
    /\ \E succeeds \in IF run[r].derivation \in FlakySteps THEN BOOLEAN ELSE {TRUE} :
          LET d == run[r].derivation
          IN  /\ fresh' = IF succeeds THEN fresh \cup {d} ELSE fresh
              /\ run' = [run EXCEPT ![r] =
                   IF d < 4
                     THEN [@ EXCEPT !.derivation = d + 1, !.derivationErrors = ~succeeds]
                     ELSE [@ EXCEPT !.stage = "report", !.derivationErrors = ~succeeds,
                             !.phases = WithPhase(r, "derivations",
                                           IF succeeds THEN "success" ELSE "failed")]]
    /\ UNCHANGED <<clock, instance, log>>

(* Mutant of Derive: one derivation too many. *)
DeriveOnceMore(r) ==
    /\ At(r, "derivations", "work")
    /\ fresh' = fresh \cup {run[r].derivation}
    /\ run' = [run EXCEPT ![r] =
          IF run[r].derivation <= 4
            THEN [@ EXCEPT !.derivation = @ + 1]
            ELSE [@ EXCEPT !.stage = "report",
                           !.phases = WithPhase(r, "derivations", "success")]]
    /\ UNCHANGED <<clock, instance, log>>

(* Each derivation has a session and an inner try of its own: the next one
   runs even when this one failed. *)
Derive(r) ==
    /\ At(r, "derivations", "work")
    /\ \E succeeds \in IF run[r].derivation \in FlakySteps THEN BOOLEAN ELSE {TRUE} :
          LET d      == run[r].derivation
              errors == run[r].derivationErrors \/ ~succeeds
          IN  /\ fresh' = IF succeeds THEN fresh \cup {d} ELSE fresh
              /\ run' = [run EXCEPT ![r] =
                   IF d < 4
                     THEN [@ EXCEPT !.derivation = d + 1, !.derivationErrors = errors]
                     ELSE [@ EXCEPT !.stage = "report", !.derivationErrors = errors,
                             !.phases = WithPhase(r, "derivations",
                                           IF errors THEN "failed" ELSE "success")]]
    /\ UNCHANGED <<clock, instance, log>>

ReportDerivations(r) ==
    /\ At(r, "derivations", "report")
    /\ Report(r, run[r].phases, "snapshots", "begin")

(* Mutant of BeginSnapshots: published although a derivation failed. *)
BeginSnapshotsUngated(r) ==
    /\ At(r, "snapshots", "begin")
    /\ \/ /\ run[r].ok # {}
          /\ Report(r, WithPhase(r, "snapshots", "running"), "snapshots", "work")
       \/ /\ run[r].ok = {}
          /\ Report(r, WithPhase(r, "snapshots", "skipped"), "complete", "begin")

(* Snapshots are gated: some collector must have succeeded and no derivation
   may have failed. *)
BeginSnapshots(r) ==
    /\ At(r, "snapshots", "begin")
    /\ \/ /\ run[r].ok # {} /\ ~run[r].derivationErrors
          /\ Report(r, WithPhase(r, "snapshots", "running"), "snapshots", "work")
       \/ /\ run[r].ok = {} \/ run[r].derivationErrors
          /\ Report(r, WithPhase(r, "snapshots", "skipped"), "complete", "begin")

(* refresh_snapshots has no inner try: its exception is the pipeline's. *)
RefreshSnapshots(r) ==
    /\ At(r, "snapshots", "work")
    /\ \/ /\ run' = [run EXCEPT ![r] =
                 [@ EXCEPT !.stage = "report", !.phases = WithPhase(r, "snapshots", "success"),
                           !.published = IF fresh = Derivations THEN "complete" ELSE "partial"]]
          /\ UNCHANGED <<clock, instance, log, fresh>>
       \/ Raise(r, run[r].phases)

ReportSnapshots(r) ==
    /\ At(r, "snapshots", "report")
    /\ Report(r, run[r].phases, "complete", "begin")

(* Mutant of Outcome: failed derivations do not count. *)
OutcomeOfCollectors(r) ==
    IF run[r].ok = Collectors THEN "success"
    ELSE IF run[r].ok # {} THEN "partial_failure" ELSE "failed"

Outcome(r) ==
    CASE run[r].ok = Collectors /\ ~run[r].derivationErrors -> "success"
      [] run[r].ok = Collectors /\ run[r].derivationErrors  -> "partial_failure"
      [] run[r].ok # Collectors /\ run[r].ok # {}           -> "partial_failure"
      [] run[r].ok = {}                                     -> "failed"

(* Mutant of Finished: the error text of a repair stays in the row. *)
FinishedKeepingCause(r, status, phases, collectors, snapshots) ==
    [log EXCEPT ![r] = [@ EXCEPT !.status = status, !.finishedAt = clock, !.phases = phases,
                          !.collectors = collectors, !.snapshots = snapshots]]

(* _finish_nightly_sync_log overwrites the row, whatever it holds. *)
Finished(r, status, phases, collectors, snapshots) ==
    [log EXCEPT ![r] = [@ EXCEPT !.status = status, !.finishedAt = clock, !.cause = "none",
                          !.phases = phases, !.collectors = collectors,
                          !.snapshots = snapshots]]

FinishLog(r) ==
    /\ At(r, "complete", "begin")
    /\ LET status == Outcome(r)
           phases == WithPhase(r, "complete", IF status = "failed" THEN "failed" ELSE "success")
       IN  \/ /\ log' = Finished(r, status, phases, run[r].ok, run[r].published # "no")
              /\ run' = [run EXCEPT ![r] = [@ EXCEPT !.stage = "notify", !.phases = phases]]
              /\ UNCHANGED <<clock, instance, fresh>>
           \/ Raise(r, phases)

EventOf(status) ==
    CASE status = "success"         -> "SYNC_SUCCESS"
      [] status = "partial_failure" -> "SYNC_PARTIAL_FAILURE"
      [] status = "failed"          -> "SYNC_COMPLETE_FAILURE"

Stop(r, event) ==
    /\ run' = [run EXCEPT ![r] = Dead(r, event)]
    /\ UNCHANGED <<clock, instance, log, fresh>>

(* send_webhook_notification swallows every error: one attempt is made. *)
Notify(r) ==
    /\ At(r, "complete", "notify")
    /\ Stop(r, EventOf(Outcome(r)))

-----------------------------------------------------------------------------
(* The outer exception handler; an exception inside it ends the thread. *)

HandlerReport(r) ==
    /\ At(r, "handler", "begin")
    /\ \/ /\ log' = [log EXCEPT ![r] = [@ EXCEPT !.phases = run[r].phases]]
          /\ run' = Go(r, "handler", "work")
          /\ UNCHANGED <<clock, instance, fresh>>
       \/ Abandon(r)

(* Both collectors are reported FAILED and no snapshot generated, whatever
   the run had achieved. *)
HandlerFinish(r) ==
    /\ At(r, "handler", "work")
    /\ \/ /\ log' = Finished(r, "failed", run[r].phases, {}, FALSE)
          /\ run' = Go(r, "handler", "notify")
          /\ UNCHANGED <<clock, instance, fresh>>
       \/ Abandon(r)

HandlerNotify(r) ==
    /\ At(r, "handler", "notify")
    /\ Stop(r, "SYNC_COMPLETE_FAILURE")

-----------------------------------------------------------------------------

RunStep(r) ==
    \/ ResolveOrphans(r) \/ CreateLog(r) \/ InitDetails(r)
    \/ \E c \in Collectors : BeginCollector(r, c) \/ Collect(r, c) \/ ReportCollector(r, c)
    \/ BeginDerivations(r) \/ Derive(r) \/ ReportDerivations(r)
    \/ BeginSnapshots(r) \/ RefreshSnapshots(r) \/ ReportSnapshots(r)
    \/ FinishLog(r) \/ Notify(r)
    \/ HandlerReport(r) \/ HandlerFinish(r) \/ HandlerNotify(r)

ProcessStep(i) == StartProcess(i) \/ ReconcileOrphans(i) \/ MarkInterrupted(i)

Next ==
    \/ \E i \in Instances : ProcessStep(i) \/ StopProcess(i)
    \/ \E i \in Instances, r \in Runs : FireSchedule(i, r) \/ TriggerManually(i, r)
    \/ \E r \in Runs : RunStep(r)
    \/ Tick

Spec == Init /\ [][Next]_vars

(* A thread that can take its next step eventually takes it (every external
   call of the collectors has a timeout), and a process that was started goes
   on.  Nothing obliges the clock, a trigger, or a fault to happen. *)
Fairness ==
    /\ \A r \in Runs : WF_vars(RunStep(r))
    /\ \A i \in Instances : WF_vars(ProcessStep(i))

FairSpec == Spec /\ Fairness

-----------------------------------------------------------------------------
(* Properties of every deployment *)

RunState ==
    [at : Labels, stage : Stages, host : Instances, trigger : Triggers,
     tokens : SUBSET Collectors, ok : SUBSET Collectors, derivation : Derivations,
     derivationErrors : BOOLEAN, phases : [PIPELINE_PHASES -> PhaseStatus],
     published : {"no", "partial", "complete"}, event : Events]

Row ==
    [status : RowStatus, startedAt : Nat, finishedAt : Nat,
     cause : {"none", "timeout", "superseded", "interrupted"},
     phases : [PIPELINE_PHASES -> PhaseStatus], collectors : SUBSET Collectors,
     snapshots : BOOLEAN]

(* The variables hold what sync_log, the threads and the processes can hold. *)
TypeOK ==
    /\ clock \in Nat
    /\ instance \in [Instances -> {"down", "resolving", "marking", "up"}]
    /\ run \in [Runs -> RunState]
    /\ log \in [Runs -> Row]
    /\ fresh \in SUBSET Derivations

Settled == {"success", "failed", "skipped"}

Before(p, q) ==
    \/ p = "gitlab" /\ q \in {"jira", "derivations", "snapshots"}
    \/ p = "jira" /\ q \in {"derivations", "snapshots"}
    \/ p = "derivations" /\ q = "snapshots"

(* What an observer of sync_log reads of a run is a prefix of the pipeline: no
   phase has begun in the row while an earlier one is unsettled, even if the run
   died, was declared crashed, or raised between a transition and its commit. *)
RowIsPrefix ==
    \A r \in Runs : \A p, q \in PIPELINE_PHASES :
        Before(p, q) /\ log[r].phases[q] # "pending" => log[r].phases[p] \in Settled

CollectorPhases(r) == {c \in Collectors : log[r].phases[c] = "success"}

(* The status of a row that its own run closed agrees with the phases stored in
   the same row: success needs both collectors, all derivations and snapshots;
   partial_failure is one collector (then derivations were skipped and snapshots
   still published) or failed derivations (then nothing was published); failed
   means no collector worked or the pipeline raised. *)
OutcomeMatchesPhases ==
    \A r \in Runs : LET row == log[r] IN
        /\ row.status = "success" =>
              /\ \A p \in PIPELINE_PHASES : row.phases[p] = "success"
              /\ row.collectors = Collectors /\ row.snapshots
        /\ row.status = "partial_failure" =>
              /\ row.collectors = CollectorPhases(r) /\ row.collectors # {}
              /\ row.phases["derivations"] =
                    IF row.collectors = Collectors THEN "failed" ELSE "skipped"
              /\ row.snapshots <=> row.collectors # Collectors
              /\ row.phases["complete"] = "success"
        /\ row.status = "failed" =>
              /\ row.phases["complete"] = "failed" /\ row.collectors = {}
              /\ ~row.snapshots

(* DEVOPS-514: a run whose derivations failed never replaces the snapshots, and
   the snapshots it did replace are those its row will announce. *)
SnapshotsGated ==
    \A r \in Runs : run[r].published # "no" =>
        /\ ~run[r].derivationErrors
        /\ \E c \in Collectors : log[r].phases[c] = "success"
        /\ log[r].phases["derivations"] \in {"success", "skipped"}

(* The webhook of a run tells what its row says, also after another run or a
   restarted process has repaired sync_log. *)
WebhookMatchesRow ==
    \A r \in Runs : run[r].event # "none" =>
        /\ log[r].status \in {"success", "partial_failure", "failed"}
        /\ run[r].event = EventOf(log[r].status)

(* Of a run, the row tells the phases in their order, and snapshots are published
   only behind the gate of the derivations. *)
PhasesAreSound == RowIsPrefix /\ SnapshotsGated

(* The outcome of a run is the same in the status of its row, in the phases of the
   row and in the webhook. *)
OutcomeIsTold == OutcomeMatchesPhases /\ WebhookMatchesRow

(* A row ends not before it started and not in the future, and only a row that
   ended has an end; a repaired row may borrow the end of another one. *)
RowTimes ==
    \A r \in Runs : LET row == log[r] IN
        /\ row.status \in Terminal => row.startedAt <= row.finishedAt /\ row.finishedAt <= clock
        /\ row.status \in {"absent", "running"} => row.finishedAt = 0
        /\ row.status = "crashed" <=> row.cause # "none"

(* The outcome that a run wrote itself is never rewritten: not by a repair, not by
   the process start, not by its own exception handler. *)
OwnOutcomeIsFinal ==
    [][\A r \in Runs :
          log[r].status \in {"success", "partial_failure", "failed"} => log'[r] = log[r]]_vars

-----------------------------------------------------------------------------
(* Properties of the documented deployment: one backend process and no manual *)
(* trigger while a scheduled run executes.                                     *)

(* max_instances=1 keeps runs apart: what the other properties of this deployment rest on. *)
OneRunAtATime == \A q, r \in Runs : Live(q) /\ Live(r) => q = r

Working == {r \in Runs :
    /\ run[r].at \in {"init", "handler"} \cup PIPELINE_PHASES
    /\ run[r].stage # "notify"}

(* A run that is still at work is never reported as crashed. *)
WorkingMeansRunning == \A r \in Working : log[r].status = "running"

(* A row says success only if the snapshots it announces were computed after all
   four derivations had caught up with the data collected. *)
SuccessPublishesDerived ==
    \A r \in Runs : log[r].status = "success" => run[r].published = "complete"

(* Claims of comments and documents that overlapping runs refute. *)

(* The message of the repair, "a later nightly sync already finished (abandoned
   worker or restart)": a run that is still at work is not marked so. *)
SupersededIsAbandoned == \A r \in Working : log[r].cause # "superseded"

(* "Each phase transitions through pending, running, and a terminal state": a row
   that its run closed has no phase left running. *)
ClosedRowsAreSettled ==
    \A r \in Runs : log[r].status \in {"success", "partial_failure", "failed"} =>
        \A p \in PIPELINE_PHASES : log[r].phases[p] # "running"

-----------------------------------------------------------------------------
(* What sync_log promises, and who keeps the promise *)

Register == INSTANCE SyncRegister WITH
    status  <- [r \in Runs |-> log[r].status],
    working <- Working

(* The rows of the documented deployment behave as the abstract register: opened and
   closed once by their run, declared crashed only when nobody works on them. *)
ImplementsRegister == Register!Spec

-----------------------------------------------------------------------------
(* Liveness *)

(* Every run that starts comes to an end. *)
RunsEnd == \A r \in Runs : run[r].at = "resolve" ~> run[r].at = "stopped"

(* If the processes eventually stay up, no row stays in "running" for ever: its
   run closes it, or the reconciliation at the process start does. *)
RowsResolved ==
    (<>[](\A i \in Instances : instance[i] = "up"))
        => \A r \in Runs : log[r].status = "running" ~> log[r].status # "running"

(* Both: no thread and no row is left behind. *)
RunsResolve == RunsEnd /\ RowsResolved

=============================================================================
