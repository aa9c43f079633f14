------------------------- MODULE NightlySyncProofs -------------------------
(***************************************************************************)
(* Theorems about NightlySync, for any number of runs, of processes and    *)
(* any bound of the clock.                                                 *)
(***************************************************************************)
EXTENDS SyncStatus, NaturalSets

LEMMA NewRunType == NewRun \in RunState
  BY InstanceAssumption DEF NewRun, RunState, Labels, Stages, Triggers, Collectors, Derivations,
     NewRuntime, PhaseStatus, PIPELINE_PHASES, Events

LEMMA DeadType ==
  ASSUME TypeOK, NEW r \in Runs, NEW event \in Events
  PROVE  Dead(r, event) \in RunState
  BY NewRunType DEF TypeOK, Dead, RunState, Labels, Stages

LEMMA CrashedType ==
  ASSUME NEW l \in [Runs -> Row], NEW rows, NEW at \in Nat,
         NEW cause \in {"none", "timeout", "superseded", "interrupted"}
  PROVE  Crashed(l, rows, at, cause) \in [Runs -> Row]
  BY ZenonT(40) DEF Crashed, Row, RowStatus

LEMMA OrphansType ==
  ASSUME TypeOK, OrphansResolved(log')
  PROVE  log' \in [Runs -> Row]
<1> DEFINE old == {r \in RowsWith(log, "running") : log[r].startedAt + OrphanAge < clock}
           aged == Crashed(log, old, clock, "timeout")
<1>1. aged \in [Runs -> Row]
  BY CrashedType DEF TypeOK
<1> HIDE DEF aged
<1>2. CASE log' = aged
  BY <1>1, <1>2
<1>3. CASE \E latest \in {aged[r].finishedAt : r \in {q \in Runs : aged[q].status \in Terminal}} :
              log' = Crashed(aged, {r \in RowsWith(aged, "running") : aged[r].startedAt < latest},
                             latest, "superseded")
  <2>1. PICK latest \in {aged[r].finishedAt : r \in {q \in Runs : aged[q].status \in Terminal}} :
              log' = Crashed(aged, {r \in RowsWith(aged, "running") : aged[r].startedAt < latest},
                             latest, "superseded")
    BY <1>3
  <2>2. latest \in Nat
    BY <1>1 DEF Row
  <2> QED BY <1>1, <2>1, <2>2, CrashedType
<1> QED BY <1>2, <1>3 DEF OrphansResolved, aged

LEMMA NewRuntimeType == NewRuntime \in [PIPELINE_PHASES -> PhaseStatus]
  BY DEF NewRuntime, PhaseStatus

LEMMA GoType ==
  ASSUME TypeOK, NEW r \in Runs, NEW label \in Labels, NEW stage \in Stages
  PROVE  Go(r, label, stage) \in [Runs -> RunState]
  BY ZenonT(40) DEF TypeOK, Go, RunState

LEMMA PhasesUpdateType ==
  ASSUME NEW rec \in RunState, NEW label \in Labels, NEW stage \in Stages,
         NEW phases \in [PIPELINE_PHASES -> PhaseStatus]
  PROVE  [rec EXCEPT !.at = label, !.stage = stage, !.phases = phases] \in RunState
<1> DEFINE Runtimes == [PIPELINE_PHASES -> PhaseStatus]
<1> HIDE DEF Runtimes
<1>1. phases \in Runtimes
  BY DEF Runtimes
<1>2. RunState =
    [at : Labels, stage : Stages, host : Instances, trigger : Triggers,
     tokens : SUBSET Collectors, ok : SUBSET Collectors, derivation : Derivations,
     derivationErrors : BOOLEAN, phases : Runtimes,
     published : {"no", "partial", "complete"}, event : Events]
  BY DEF RunState, Runtimes
<1> QED BY <1>1, <1>2

LEMMA RaiseType ==
  ASSUME TypeOK, NEW r \in Runs, NEW phases \in [PIPELINE_PHASES -> PhaseStatus], Raise(r, phases)
  PROVE  TypeOK'
<1> DEFINE failed == [phases EXCEPT !["complete"] = "failed"]
<1>1. failed \in [PIPELINE_PHASES -> PhaseStatus]
  BY DEF PhaseStatus
<1>2. run[r] \in RunState /\ "handler" \in Labels /\ "begin" \in Stages
  BY DEF TypeOK, Labels, Stages
<1>3. [run[r] EXCEPT !.at = "handler", !.stage = "begin", !.phases = failed] \in RunState
  BY <1>1, <1>2, PhasesUpdateType
<1> QED BY <1>3 DEF TypeOK, Raise

LEMMA ReportType ==
  ASSUME TypeOK, NEW r \in Runs, NEW phases \in [PIPELINE_PHASES -> PhaseStatus],
         NEW label \in Labels, NEW stage \in Stages, Report(r, phases, label, stage)
  PROVE  TypeOK'
<1>1. CASE Raise(r, phases)
  BY <1>1, RaiseType
<1>2. CASE /\ run' = [run EXCEPT ![r] =
                     [@ EXCEPT !.at = label, !.stage = stage, !.phases = phases]]
           /\ log' = [log EXCEPT ![r] = [@ EXCEPT !.phases = phases]]
           /\ UNCHANGED <<clock, instance, fresh>>
  <2>1. run' \in [Runs -> RunState]
    <3>1. [run[r] EXCEPT !.at = label, !.stage = stage, !.phases = phases] \in RunState
      BY PhasesUpdateType DEF TypeOK
    <3> QED BY <1>2, <3>1 DEF TypeOK
  <2>2. log' \in [Runs -> Row]
    BY <1>2, ZenonT(40) DEF TypeOK, Row
  <2> QED BY <1>2, <2>1, <2>2 DEF TypeOK
<1> QED BY <1>1, <1>2 DEF Report

LEMMA WithPhaseType ==
  ASSUME TypeOK, NEW r \in Runs, NEW p \in PIPELINE_PHASES, NEW s \in PhaseStatus
  PROVE  WithPhase(r, p, s) \in [PIPELINE_PHASES -> PhaseStatus]
  BY DEF TypeOK, RunState, WithPhase

LEMMA AbandonType ==
  ASSUME TypeOK, NEW r \in Runs, Abandon(r)
  PROVE  TypeOK'
  BY DeadType DEF TypeOK, Abandon, Events

LEMMA UpdateRun ==
  ASSUME TypeOK, NEW r \in Runs, NEW rec \in RunState, run' = [run EXCEPT ![r] = rec]
  PROVE  run' \in [Runs -> RunState]
  BY DEF TypeOK

-----------------------------------------------------------------------------
(* One lemma per group of actions: a step keeps every variable in its type. *)

LEMMA ProcessType ==
  ASSUME TypeOK, NEW i \in Instances, ProcessStep(i) \/ StopProcess(i)
  PROVE  TypeOK'
<1>1. CASE StartProcess(i)
  BY <1>1 DEF StartProcess, TypeOK
<1>2. CASE ReconcileOrphans(i)
  <2>1. log' \in [Runs -> Row]
    BY <1>2, OrphansType DEF ReconcileOrphans
  <2>2. instance' \in [Instances -> {"down", "resolving", "marking", "up"}]
    BY <1>2 DEF ReconcileOrphans, TypeOK
  <2> QED BY <1>2, <2>1, <2>2 DEF ReconcileOrphans, TypeOK
<1>3. CASE MarkInterrupted(i)
  <2>1. log' \in [Runs -> Row]
    BY <1>3, CrashedType DEF MarkInterrupted, TypeOK
  <2>2. instance' \in [Instances -> {"down", "resolving", "marking", "up"}]
    BY <1>3 DEF MarkInterrupted, TypeOK
  <2> QED BY <1>3, <2>1, <2>2 DEF MarkInterrupted, TypeOK
<1>4. CASE StopProcess(i)
  <2>1. \A r \in Runs : Dead(r, "none") \in RunState
    BY DeadType DEF Events
  <2>2. run' \in [Runs -> RunState]
    BY <1>4, <2>1 DEF StopProcess, TypeOK
  <2> QED BY <1>4, <2>2 DEF StopProcess, TypeOK
<1> QED BY <1>1, <1>2, <1>3, <1>4 DEF ProcessStep

LEMMA BeginType ==
  ASSUME TypeOK, NEW i \in Instances, NEW r \in Runs,
         FireSchedule(i, r) \/ TriggerManually(i, r)
  PROVE  TypeOK'
<1>1. PICK trigger \in Triggers : Begin(i, r, trigger)
  BY DEF FireSchedule, TriggerManually, Triggers
<1>2. [run[r] EXCEPT !.at = "resolve", !.host = i, !.trigger = trigger] \in RunState
  BY ZenonT(40) DEF TypeOK, RunState, Labels
<1>3. run' \in [Runs -> RunState]
  BY <1>1, <1>2, UpdateRun DEF Begin
<1> QED BY <1>1, <1>3 DEF Begin, TypeOK

LEMMA PreludeType ==
  ASSUME TypeOK, NEW r \in Runs, ResolveOrphans(r) \/ CreateLog(r) \/ InitDetails(r)
  PROVE  TypeOK'
<1>1. CASE Abandon(r)
  BY <1>1, AbandonType
<1>2. CASE ResolveOrphans(r) /\ ~Abandon(r)
  <2>1. log' \in [Runs -> Row]
    BY <1>2, OrphansType DEF ResolveOrphans
  <2>2. run' \in [Runs -> RunState]
    BY <1>2, GoType DEF ResolveOrphans, Labels, Stages
  <2> QED BY <1>2, <2>1, <2>2 DEF ResolveOrphans, TypeOK
<1>3. CASE CreateLog(r) /\ ~Abandon(r)
  <2>1. PICK tokens \in TokenChoices :
           run' = [run EXCEPT ![r] = [@ EXCEPT !.at = "init", !.tokens = tokens]]
    BY <1>3 DEF CreateLog
  <2>2. [run[r] EXCEPT !.at = "init", !.tokens = tokens] \in RunState
    <3>1. run[r] \in RunState /\ "init" \in Labels /\ tokens \in SUBSET Collectors
      BY TokenAssumption DEF TypeOK, Labels
    <3> QED BY <3>1 DEF RunState
  <2>3. run' \in [Runs -> RunState]
    BY <2>1, <2>2, UpdateRun
  <2>4. [NoRow EXCEPT !.status = "running", !.startedAt = clock] \in Row
    <3>1. NoRow \in Row
      BY NewRuntimeType DEF NoRow, Row, RowStatus
    <3> QED BY <3>1 DEF Row, RowStatus, TypeOK
  <2>5. log' \in [Runs -> Row]
    BY <1>3, <2>4 DEF CreateLog, TypeOK
  <2> QED BY <1>3, <2>3, <2>5 DEF CreateLog, TypeOK
<1>4. CASE InitDetails(r) /\ ~Abandon(r)
  <2>1. run' \in [Runs -> RunState]
    BY <1>4, GoType DEF InitDetails, Labels, Stages, PIPELINE_PHASES
  <2> QED BY <1>4, <2>1 DEF InitDetails, TypeOK
<1> QED BY <1>1, <1>2, <1>3, <1>4

LEMMA CollectorType ==
  ASSUME TypeOK, NEW r \in Runs, NEW c \in Collectors,
         BeginCollector(r, c) \/ Collect(r, c) \/ ReportCollector(r, c)
  PROVE  TypeOK'
<1>1. c \in PIPELINE_PHASES /\ c \in Labels
  BY DEF Collectors, PIPELINE_PHASES, Labels
<1>2. CASE BeginCollector(r, c)
  <2>1. WithPhase(r, c, "running") \in [PIPELINE_PHASES -> PhaseStatus]
    BY <1>1, WithPhaseType DEF PhaseStatus
  <2> QED BY <1>1, <1>2, <2>1, ReportType DEF BeginCollector, Stages
<1>3. CASE Collect(r, c)
  <2>1. PICK outcome \in {"success", "failed", "skipped"} :
          /\ run' = [run EXCEPT ![r] =
                [@ EXCEPT !.stage = "report", !.phases = WithPhase(r, c, outcome),
                          !.ok = run[r].ok \cup Succeeded(c, outcome)]]
          /\ fresh' = IF outcome = "success" THEN {} ELSE fresh
    BY <1>3 DEF Collect
  <2>2. WithPhase(r, c, outcome) \in [PIPELINE_PHASES -> PhaseStatus]
    BY <1>1, WithPhaseType DEF PhaseStatus
  <2> DEFINE ok == run[r].ok \cup Succeeded(c, outcome)
             mid == [run[r] EXCEPT !.at = run[r].at, !.stage = "report",
                                   !.phases = WithPhase(r, c, outcome)]
  <2>3. ok \in SUBSET Collectors
    BY DEF TypeOK, RunState, Succeeded
  <2>4. run[r] \in RunState /\ run[r].at \in Labels
    BY DEF TypeOK, RunState
  <2>5. mid \in RunState
    BY <2>2, <2>4, PhasesUpdateType DEF Stages
  <2>6. [mid EXCEPT !.ok = ok] \in RunState
    <3> HIDE DEF mid, ok
    <3> QED BY <2>3, <2>5 DEF RunState
  <2>7. [run[r] EXCEPT !.stage = "report", !.phases = WithPhase(r, c, outcome), !.ok = ok]
          = [mid EXCEPT !.ok = ok]
    BY <2>4 DEF RunState
  <2>8. run' \in [Runs -> RunState]
    <3>0. run' = [run EXCEPT ![r] = [run[r] EXCEPT !.stage = "report",
                                        !.phases = WithPhase(r, c, outcome), !.ok = ok]]
      BY <2>1 DEF ok
    <3>1. run' = [run EXCEPT ![r] = [mid EXCEPT !.ok = ok]]
      <4> HIDE DEF mid, ok
      <4> QED BY <3>0, <2>7, Zenon
    <3> HIDE DEF mid, ok
    <3> QED BY <2>6, <3>1, UpdateRun
  <2>9. fresh' \in SUBSET Derivations
    BY <2>1 DEF TypeOK
  <2> QED BY <1>3, <2>8, <2>9 DEF Collect, TypeOK
<1>4. CASE ReportCollector(r, c)
  <2>1. run[r].phases \in [PIPELINE_PHASES -> PhaseStatus]
    BY DEF TypeOK, RunState
  <2>2. PICK label \in Labels : Report(r, run[r].phases, label, "begin")
    BY <1>4 DEF ReportCollector, Labels, PIPELINE_PHASES
  <2> QED BY <2>1, <2>2, ReportType DEF Stages
<1> QED BY <1>2, <1>3, <1>4

LEMMA DeriveType ==
  ASSUME TypeOK, NEW r \in Runs, Derive(r)
  PROVE  TypeOK'
<1> DEFINE d == run[r].derivation
<1>1. PICK succeeds \in BOOLEAN :
        /\ fresh' = IF succeeds THEN fresh \cup {run[r].derivation} ELSE fresh
        /\ run' = [run EXCEPT ![r] =
             IF run[r].derivation < 4
               THEN [run[r] EXCEPT !.derivation = run[r].derivation + 1,
                            !.derivationErrors = run[r].derivationErrors \/ ~succeeds]
               ELSE [run[r] EXCEPT !.stage = "report",
                       !.derivationErrors = run[r].derivationErrors \/ ~succeeds,
                       !.phases = WithPhase(r, "derivations",
                          IF run[r].derivationErrors \/ ~succeeds THEN "failed" ELSE "success")]]
  BY DEF Derive
<1>2. run[r] \in RunState /\ run[r].derivation \in Derivations
  BY DEF TypeOK, RunState
<1>3. fresh' \in SUBSET Derivations
  BY <1>1, <1>2 DEF TypeOK
<1> DEFINE errors == run[r].derivationErrors \/ ~succeeds
           verdict == IF errors THEN "failed" ELSE "success"
<1>4. errors \in BOOLEAN
  OBVIOUS
<1>5. WithPhase(r, "derivations", verdict) \in [PIPELINE_PHASES -> PhaseStatus]
  BY WithPhaseType DEF PIPELINE_PHASES, PhaseStatus
<1>6. CASE run[r].derivation < 4
  <2>1. run[r].derivation + 1 \in Derivations
    BY <1>2, <1>6 DEF Derivations
  <2> HIDE DEF errors
  <2>2. [run[r] EXCEPT !.derivation = run[r].derivation + 1, !.derivationErrors = errors]
           \in RunState
    BY <1>2, <1>4, <2>1 DEF RunState
  <2>3. run' = [run EXCEPT ![r] =
           [run[r] EXCEPT !.derivation = run[r].derivation + 1, !.derivationErrors = errors]]
    BY <1>1, <1>6, Zenon DEF errors
  <2>4. run' \in [Runs -> RunState]
    BY <2>2, <2>3, UpdateRun
  <2> QED BY <1>3, <2>4 DEF Derive, TypeOK
<1>7. CASE ~(run[r].derivation < 4)
  <2> DEFINE mid == [run[r] EXCEPT !.at = run[r].at, !.stage = "report",
                                   !.phases = WithPhase(r, "derivations", verdict)]
  <2>1. mid \in RunState
    BY <1>2, <1>5, PhasesUpdateType DEF RunState, Stages
  <2>2. run' = [run EXCEPT ![r] =
           [run[r] EXCEPT !.stage = "report", !.derivationErrors = errors,
                          !.phases = WithPhase(r, "derivations", verdict)]]
    BY <1>1, <1>7, Zenon
  <2> HIDE DEF errors, verdict
  <2>3. [run[r] EXCEPT !.stage = "report", !.derivationErrors = errors,
                       !.phases = WithPhase(r, "derivations", verdict)]
          = [mid EXCEPT !.derivationErrors = errors]
    BY <1>2 DEF RunState
  <2> HIDE DEF mid
  <2>4. [mid EXCEPT !.derivationErrors = errors] \in RunState
    BY <1>4, <2>1 DEF RunState
  <2>5. run' \in [Runs -> RunState]
    BY <2>2, <2>3, <2>4, UpdateRun
  <2> QED BY <1>3, <2>5 DEF Derive, TypeOK
<1> QED BY <1>6, <1>7

LEMMA ReportingType ==
  ASSUME TypeOK, NEW r \in Runs,
         \/ BeginDerivations(r) \/ ReportDerivations(r)
         \/ BeginSnapshots(r) \/ ReportSnapshots(r)
  PROVE  TypeOK'
<1>1. run[r].phases \in [PIPELINE_PHASES -> PhaseStatus]
  BY DEF TypeOK, RunState
<1>2. \A p \in {"derivations", "snapshots"}, s \in {"running", "skipped"} :
         WithPhase(r, p, s) \in [PIPELINE_PHASES -> PhaseStatus]
  BY WithPhaseType DEF PIPELINE_PHASES, PhaseStatus
<1>3. PICK phases \in [PIPELINE_PHASES -> PhaseStatus],
           label \in {"derivations", "snapshots", "complete"}, stage \in {"begin", "work"} :
             Report(r, phases, label, stage)
  BY <1>1, <1>2
     DEF BeginDerivations, ReportDerivations, BeginSnapshots, ReportSnapshots
<1>4. label \in Labels /\ stage \in Stages
  BY DEF Labels, Stages, PIPELINE_PHASES
<1> QED BY <1>3, <1>4, ReportType

LEMMA RefreshType ==
  ASSUME TypeOK, NEW r \in Runs, RefreshSnapshots(r)
  PROVE  TypeOK'
<1> DEFINE phases == WithPhase(r, "snapshots", "success")
           published == IF fresh = Derivations THEN "complete" ELSE "partial"
           mid == [run[r] EXCEPT !.at = run[r].at, !.stage = "report", !.phases = phases]
<1>1. run[r] \in RunState /\ run[r].phases \in [PIPELINE_PHASES -> PhaseStatus]
  BY DEF TypeOK, RunState
<1>2. CASE Raise(r, run[r].phases)
  BY <1>1, <1>2, RaiseType
<1>3. CASE ~Raise(r, run[r].phases)
  <2>1. phases \in [PIPELINE_PHASES -> PhaseStatus]
    BY WithPhaseType DEF PIPELINE_PHASES, PhaseStatus
  <2>2. mid \in RunState
    BY <1>1, <2>1, PhasesUpdateType DEF RunState, Stages
  <2>3. run' = [run EXCEPT ![r] = [run[r] EXCEPT !.stage = "report", !.phases = phases,
                                                 !.published = published]]
    BY <1>3, Zenon DEF RefreshSnapshots
  <2>4. published \in {"no", "partial", "complete"}
    OBVIOUS
  <2> HIDE DEF phases, published
  <2>5. [run[r] EXCEPT !.stage = "report", !.phases = phases, !.published = published]
          = [mid EXCEPT !.published = published]
    BY <1>1 DEF RunState
  <2> HIDE DEF mid
  <2>6. [mid EXCEPT !.published = published] \in RunState
    BY <2>2, <2>4 DEF RunState
  <2>7. run' \in [Runs -> RunState]
    BY <2>3, <2>5, <2>6, UpdateRun
  <2> QED BY <1>3, <2>7 DEF RefreshSnapshots, TypeOK
<1> QED BY <1>2, <1>3

LEMMA FinishedType ==
  ASSUME TypeOK, NEW r \in Runs, NEW status \in RowStatus,
         NEW phases \in [PIPELINE_PHASES -> PhaseStatus],
         NEW collectors \in SUBSET Collectors, NEW snapshots \in BOOLEAN
  PROVE  Finished(r, status, phases, collectors, snapshots) \in [Runs -> Row]
<1> DEFINE Runtimes == [PIPELINE_PHASES -> PhaseStatus]
<1>1. Row = [status : RowStatus, startedAt : Nat, finishedAt : Nat,
             cause : {"none", "timeout", "superseded", "interrupted"},
             phases : Runtimes, collectors : SUBSET Collectors, snapshots : BOOLEAN]
  BY DEF Row
<1>2. log[r] \in Row /\ clock \in Nat /\ phases \in Runtimes
  BY DEF TypeOK
<1> HIDE DEF Runtimes
<1>3. [log[r] EXCEPT !.status = status, !.finishedAt = clock, !.cause = "none",
                     !.phases = phases, !.collectors = collectors, !.snapshots = snapshots] \in Row
  BY <1>1, <1>2
<1> QED BY <1>3 DEF Finished, TypeOK

LEMMA OutcomeType ==
  ASSUME NEW r \in Runs
  PROVE  Outcome(r) \in {"success", "partial_failure", "failed"}
  BY DEF Outcome

LEMMA FinishLogType ==
  ASSUME TypeOK, NEW r \in Runs, FinishLog(r)
  PROVE  TypeOK'
<1> DEFINE verdict == IF Outcome(r) = "failed" THEN "failed" ELSE "success"
           phases == WithPhase(r, "complete", verdict)
<1>1. phases \in [PIPELINE_PHASES -> PhaseStatus]
  BY WithPhaseType DEF PIPELINE_PHASES, PhaseStatus
<1>2. CASE Raise(r, phases)
  BY <1>1, <1>2, RaiseType
<1>3. CASE ~Raise(r, phases)
  <2>1. /\ log' = Finished(r, Outcome(r), phases, run[r].ok, run[r].published # "no")
        /\ run' = [run EXCEPT ![r] = [run[r] EXCEPT !.stage = "notify", !.phases = phases]]
        /\ UNCHANGED <<clock, instance, fresh>>
    BY <1>3, Zenon DEF FinishLog
  <2> HIDE DEF phases
  <2>2. run[r] \in RunState /\ run[r].ok \in SUBSET Collectors /\ run[r].at \in Labels
    BY DEF TypeOK, RunState
  <2>3. Outcome(r) \in RowStatus
    BY OutcomeType DEF RowStatus
  <2>4. log' \in [Runs -> Row]
    BY <1>1, <2>1, <2>2, <2>3, FinishedType
  <2>5. [run[r] EXCEPT !.at = run[r].at, !.stage = "notify", !.phases = phases] \in RunState
    BY <1>1, <2>2, PhasesUpdateType DEF Stages
  <2>6. [run[r] EXCEPT !.stage = "notify", !.phases = phases]
          = [run[r] EXCEPT !.at = run[r].at, !.stage = "notify", !.phases = phases]
    BY <2>2 DEF RunState
  <2>7. run' \in [Runs -> RunState]
    BY <2>1, <2>5, <2>6, UpdateRun
  <2> QED BY <2>1, <2>4, <2>7 DEF TypeOK
<1> QED BY <1>2, <1>3

LEMMA StopType ==
  ASSUME TypeOK, NEW r \in Runs, NEW event \in Events, Stop(r, event)
  PROVE  TypeOK'
  BY DeadType DEF Stop, TypeOK

LEMMA HandlerType ==
  ASSUME TypeOK, NEW r \in Runs, HandlerReport(r) \/ HandlerFinish(r)
  PROVE  TypeOK'
<1>1. run[r].phases \in [PIPELINE_PHASES -> PhaseStatus]
  BY DEF TypeOK, RunState
<1>2. CASE Abandon(r)
  BY <1>2, AbandonType
<1>3. CASE ~Abandon(r)
  <2>1. PICK stage \in Stages : run' = Go(r, "handler", stage)
    BY <1>3 DEF HandlerReport, HandlerFinish, Stages
  <2>2. run' \in [Runs -> RunState]
    BY <2>1, GoType DEF Labels
  <2>3. CASE HandlerReport(r)
    <3>1. log' = [log EXCEPT ![r] = [log[r] EXCEPT !.phases = run[r].phases]]
      BY <1>3, <2>3 DEF HandlerReport
    <3>2. log' \in [Runs -> Row]
      BY <1>1, <3>1, ZenonT(40) DEF TypeOK, Row
    <3> QED BY <1>3, <2>2, <2>3, <3>2 DEF HandlerReport, TypeOK
  <2>4. CASE HandlerFinish(r)
    <3>1. log' = Finished(r, "failed", run[r].phases, {}, FALSE)
      BY <1>3, <2>4 DEF HandlerFinish
    <3>2. "failed" \in RowStatus /\ {} \in SUBSET Collectors /\ FALSE \in BOOLEAN
      BY DEF RowStatus
    <3>3. log' \in [Runs -> Row]
      BY <1>1, <3>1, <3>2, FinishedType, Zenon
    <3> QED BY <1>3, <2>2, <2>4, <3>3 DEF HandlerFinish, TypeOK
  <2> QED BY <2>3, <2>4
<1> QED BY <1>2, <1>3

LEMMA NotifyType ==
  ASSUME TypeOK, NEW r \in Runs, Notify(r) \/ HandlerNotify(r)
  PROVE  TypeOK'
<1>1. EventOf(Outcome(r)) \in Events
  BY OutcomeType DEF EventOf, Events
<1> QED BY <1>1, StopType DEF Notify, HandlerNotify, Events

LEMMA InitType == Init => TypeOK
<1> SUFFICES ASSUME Init PROVE TypeOK
  OBVIOUS
<1>1. NoRow \in Row
  BY NewRuntimeType DEF NoRow, Row, RowStatus
<1> QED BY <1>1, NewRunType DEF Init, TypeOK

LEMMA NextType == TypeOK /\ [Next]_vars => TypeOK'
<1> SUFFICES ASSUME TypeOK, [Next]_vars PROVE TypeOK'
  OBVIOUS
<1>1. CASE UNCHANGED vars
  BY <1>1 DEF vars, TypeOK
<1>2. CASE Tick
  BY <1>2 DEF Tick, TypeOK
<1>3. CASE \E i \in Instances : ProcessStep(i) \/ StopProcess(i)
  BY <1>3, ProcessType
<1>4. CASE \E i \in Instances, r \in Runs : FireSchedule(i, r) \/ TriggerManually(i, r)
  BY <1>4, BeginType
<1>5. CASE \E r \in Runs : RunStep(r)
  <2>1. PICK r \in Runs : RunStep(r)
    BY <1>5
  <2> QED BY <2>1, PreludeType, CollectorType, DeriveType, ReportingType, RefreshType,
             FinishLogType, HandlerType, NotifyType DEF RunStep
<1> QED BY <1>1, <1>2, <1>3, <1>4, <1>5 DEF Next

(* Type correctness: every variable stays within what the code's tables and
   threads can hold. *)
THEOREM TypeCorrect == Spec => []TypeOK
  BY InitType, NextType, PTL DEF Spec

-----------------------------------------------------------------------------
(* Repairs touch running rows only, and turn them into crashed ones. *)

LEMMA CrashedRows ==
  ASSUME NEW l, NEW rows, NEW at, NEW cause, NEW r \in Runs, l[r] \in Row
  PROVE  /\ r \notin rows => Crashed(l, rows, at, cause)[r] = l[r]
         /\ r \in rows => Crashed(l, rows, at, cause)[r].status = "crashed"
  BY DEF Crashed, Row

LEMMA RepairedRows ==
  ASSUME TypeOK, OrphansResolved(log'), NEW r \in Runs
  PROVE  \/ log'[r] = log[r]
         \/ log[r].status = "running" /\ log'[r].status = "crashed"
<1> DEFINE old == {q \in RowsWith(log, "running") : log[q].startedAt + OrphanAge < clock}
           aged == Crashed(log, old, clock, "timeout")
<1>1. \/ aged[r] = log[r]
      \/ log[r].status = "running" /\ aged[r].status = "crashed"
  <2>1. log[r] \in Row
    BY DEF TypeOK
  <2>2. r \in old => log[r].status = "running"
    BY DEF RowsWith
  <2> HIDE DEF old
  <2> QED BY <2>1, <2>2, CrashedRows
<1>2. aged \in [Runs -> Row]
  BY CrashedType DEF TypeOK
<1> HIDE DEF aged
<1>3. CASE log' = aged
  BY <1>1, <1>3
<1>4. CASE \E latest \in {aged[q].finishedAt : q \in {p \in Runs : aged[p].status \in Terminal}} :
              log' = Crashed(aged, {q \in RowsWith(aged, "running") : aged[q].startedAt < latest},
                             latest, "superseded")
  <2>1. PICK latest : log' = Crashed(aged, {q \in RowsWith(aged, "running") :
                                                aged[q].startedAt < latest}, latest, "superseded")
    BY <1>4
  <2> DEFINE stale == {q \in RowsWith(aged, "running") : aged[q].startedAt < latest}
  <2>2. r \in stale => aged[r].status = "running"
    BY DEF RowsWith
  <2> HIDE DEF stale
  <2>3. \/ log'[r] = aged[r]
        \/ aged[r].status = "running" /\ log'[r].status = "crashed"
    BY <1>2, <2>1, <2>2, CrashedRows DEF stale
  <2> QED BY <1>1, <2>3
<1> QED BY <1>3, <1>4 DEF OrphansResolved, aged

LEMMA MarkedRows ==
  ASSUME TypeOK, NEW i \in Instances, MarkInterrupted(i), NEW r \in Runs
  PROVE  \/ log'[r] = log[r]
         \/ log[r].status = "running" /\ log'[r].status = "crashed"
<1>1. log[r] \in Row
  BY DEF TypeOK
<1>2. r \in RowsWith(log, "running") => log[r].status = "running"
  BY DEF RowsWith
<1> QED BY <1>1, <1>2, CrashedRows DEF MarkInterrupted

-----------------------------------------------------------------------------
(* What a step of a run does to its thread and to sync_log: it opens its row,
   repairs sync_log, closes its row, or keeps the status of every row. *)

AtWork(x) == x.at \in {"init", "handler"} \cup PIPELINE_PHASES /\ x.stage # "notify"

SameThread(r) == run'[r].host = run[r].host /\ run'[r].trigger = run[r].trigger

OthersKept(r) == \A q \in Runs \ {r} : run'[q] = run[q]

RowsOfOthersKept(r) == \A q \in Runs \ {r} : log'[q] = log[q]

RowIs(r, startedAt, finishedAt, cause) ==
    /\ log'[r].startedAt = startedAt /\ log'[r].finishedAt = finishedAt
    /\ log'[r].cause = cause

Repairs(r) ==
    /\ run[r].at = "resolve" /\ run'[r].at = "create" /\ SameThread(r)
    /\ OrphansResolved(log')

Opens(r) ==
    /\ run[r].at = "create" /\ run'[r].at = "init" /\ run'[r].stage = "begin" /\ SameThread(r)
    /\ log'[r].status = "running" /\ RowIs(r, clock, 0, "none") /\ RowsOfOthersKept(r)

Closes(r) ==
    /\ AtWork(run[r]) /\ run'[r].at \in {"complete", "handler"} /\ run'[r].stage = "notify"
    /\ SameThread(r)
    /\ log'[r].status \in {"success", "partial_failure", "failed"}
    /\ RowIs(r, log[r].startedAt, clock, "none") /\ RowsOfOthersKept(r)

Keeps(r) ==
    /\ AtWork(run[r]) /\ AtWork(run'[r]) /\ SameThread(r)
    /\ log'[r].status = log[r].status
    /\ RowIs(r, log[r].startedAt, log[r].finishedAt, log[r].cause) /\ RowsOfOthersKept(r)

(* Without database errors a thread ends only after it has closed its row. *)
Ends(r) ==
    /\ Live(r) /\ run'[r].at = "stopped" /\ run'[r].published = run[r].published
    /\ run[r].stage = "notify" \/ "database" \in Faults
    /\ log' = log

Effect(r) == OthersKept(r) /\ (Repairs(r) \/ Opens(r) \/ Closes(r) \/ Keeps(r) \/ Ends(r))

LEMMA AbandonEffect ==
  ASSUME TypeOK, NEW r \in Runs, Live(r), Abandon(r)
  PROVE  Effect(r)
<1>1. run'[r] = Dead(r, "none") /\ OthersKept(r) /\ log' = log
  BY DEF Abandon, TypeOK, OthersKept
<1>2. Dead(r, "none").at = "stopped" /\ Dead(r, "none").published = run[r].published
  BY DEF Dead, NewRun
<1>3. "database" \in Faults
  BY DEF Abandon
<1> QED BY <1>1, <1>2, <1>3 DEF Effect, Ends

LEMMA RaiseEffect ==
  ASSUME TypeOK, NEW r \in Runs, NEW phases, AtWork(run[r]), Raise(r, phases)
  PROVE  Effect(r)
<1>1. run[r] \in RunState
  BY DEF TypeOK
<1>2. /\ run'[r].at = "handler" /\ run'[r].stage = "begin" /\ SameThread(r)
      /\ OthersKept(r) /\ log' = log
  BY <1>1 DEF Raise, TypeOK, RunState, OthersKept, SameThread
<1> QED BY <1>2 DEF Effect, Keeps, AtWork, RowIs, RowsOfOthersKept

LEMMA ReportEffect ==
  ASSUME TypeOK, NEW r \in Runs, NEW phases, NEW label \in PIPELINE_PHASES,
         NEW stage \in {"begin", "work"}, AtWork(run[r]), Report(r, phases, label, stage)
  PROVE  Effect(r)
<1>1. CASE Raise(r, phases)
  BY <1>1, RaiseEffect
<1>2. CASE ~Raise(r, phases)
  <2>1. /\ run' = [run EXCEPT ![r] = [run[r] EXCEPT !.at = label, !.stage = stage, !.phases = phases]]
        /\ log' = [log EXCEPT ![r] = [log[r] EXCEPT !.phases = phases]]
    BY <1>2 DEF Report
  <2>2. run[r] \in RunState /\ log[r] \in Row
    BY DEF TypeOK
  <2>3. run'[r].at = label /\ run'[r].stage = stage /\ SameThread(r) /\ OthersKept(r)
    BY <2>1, <2>2 DEF TypeOK, RunState, SameThread, OthersKept
  <2>4. /\ log'[r].status = log[r].status /\ RowsOfOthersKept(r)
        /\ RowIs(r, log[r].startedAt, log[r].finishedAt, log[r].cause)
    BY <2>1, <2>2 DEF TypeOK, Row, RowIs, RowsOfOthersKept
  <2> QED BY <2>3, <2>4 DEF Effect, Keeps, AtWork
<1> QED BY <1>1, <1>2

LEMMA ClosesEffect ==
  ASSUME TypeOK, TypeOK', NEW r \in Runs, AtWork(run[r]),
         run'[r].at \in {"complete", "handler"}, run'[r].stage = "notify", SameThread(r),
         OthersKept(r), NEW status \in {"success", "partial_failure", "failed"},
         NEW phases, NEW collectors, NEW snapshots,
         log' = Finished(r, status, phases, collectors, snapshots)
  PROVE  Effect(r)
<1>1. log[r] \in Row
  BY DEF TypeOK
<1>2. /\ log'[r].status = status /\ RowsOfOthersKept(r)
      /\ RowIs(r, log[r].startedAt, clock, "none")
  BY <1>1 DEF Finished, TypeOK, Row, RowIs, RowsOfOthersKept
<1> QED BY <1>2 DEF Effect, Closes

LEMMA PreludeEffect ==
  ASSUME TypeOK, NEW r \in Runs, ResolveOrphans(r) \/ CreateLog(r) \/ InitDetails(r)
  PROVE  Effect(r)
<1>1. run[r] \in RunState /\ log[r] \in Row
  BY DEF TypeOK
<1>2. run[r].at \in {"resolve", "create", "init"}
  BY DEF ResolveOrphans, CreateLog, InitDetails, At
<1>3. CASE Abandon(r)
  BY <1>2, <1>3, AbandonEffect DEF Live
<1>4. CASE ResolveOrphans(r) /\ ~Abandon(r)
  <2>1. run' = Go(r, "create", "begin") /\ OrphansResolved(log') /\ run[r].at = "resolve"
    BY <1>4 DEF ResolveOrphans, At
  <2>2. run'[r].at = "create" /\ SameThread(r) /\ OthersKept(r)
    BY <1>1, <2>1 DEF Go, TypeOK, RunState, SameThread, OthersKept
  <2> QED BY <2>1, <2>2 DEF Effect, Repairs
<1>5. CASE CreateLog(r) /\ ~Abandon(r)
  <2>1. PICK tokens : run' = [run EXCEPT ![r] = [run[r] EXCEPT !.at = "init", !.tokens = tokens]]
    BY <1>5 DEF CreateLog
  <2>2. /\ log' = [log EXCEPT ![r] = [NoRow EXCEPT !.status = "running", !.startedAt = clock]]
        /\ run[r].at = "create" /\ run[r].stage = "begin"
    BY <1>5 DEF CreateLog, At
  <2>3. run'[r].at = "init" /\ run'[r].stage = "begin" /\ SameThread(r) /\ OthersKept(r)
    BY <1>1, <2>1, <2>2 DEF TypeOK, RunState, SameThread, OthersKept
  <2>4. log'[r].status = "running" /\ RowIs(r, clock, 0, "none") /\ RowsOfOthersKept(r)
    BY <2>2 DEF TypeOK, NoRow, RowIs, RowsOfOthersKept
  <2> QED BY <2>2, <2>3, <2>4 DEF Effect, Opens
<1>6. CASE InitDetails(r) /\ ~Abandon(r)
  <2>1. run' = Go(r, "gitlab", "begin") /\ log' = log /\ run[r].at = "init" /\ run[r].stage = "begin"
    BY <1>6 DEF InitDetails, At
  <2>2. run'[r].at = "gitlab" /\ run'[r].stage = "begin" /\ SameThread(r) /\ OthersKept(r)
    BY <1>1, <2>1 DEF Go, TypeOK, RunState, SameThread, OthersKept
  <2> QED BY <2>1, <2>2 DEF Effect, Keeps, AtWork, PIPELINE_PHASES, RowIs, RowsOfOthersKept
<1> QED BY <1>3, <1>4, <1>5, <1>6

(* A step that changes nothing but the thread's own locals, within its stage. *)
LEMMA LocalEffect ==
  ASSUME TypeOK, NEW r \in Runs, AtWork(run[r]), AtWork(run'[r]), SameThread(r),
         OthersKept(r), log' = log
  PROVE  Effect(r)
  BY DEF Effect, Keeps, RowIs, RowsOfOthersKept

LEMMA CollectorEffect ==
  ASSUME TypeOK, NEW r \in Runs, NEW c \in Collectors,
         BeginCollector(r, c) \/ Collect(r, c) \/ ReportCollector(r, c)
  PROVE  Effect(r)
<1>1. run[r] \in RunState
  BY DEF TypeOK
<1>2. AtWork(run[r]) /\ run[r].at = c /\ c \in PIPELINE_PHASES
  BY DEF BeginCollector, Collect, ReportCollector, At, AtWork, Collectors, PIPELINE_PHASES
<1>3. CASE BeginCollector(r, c)
  BY <1>2, <1>3, ReportEffect DEF BeginCollector
<1>4. CASE ReportCollector(r, c)
  BY <1>2, <1>4, ReportEffect DEF ReportCollector, PIPELINE_PHASES
<1>5. CASE Collect(r, c)
  <2>1. PICK outcome :
          run' = [run EXCEPT ![r] =
                [run[r] EXCEPT !.stage = "report", !.phases = WithPhase(r, c, outcome),
                               !.ok = run[r].ok \cup Succeeded(c, outcome)]]
    BY <1>5 DEF Collect
  <2>2. run'[r].at = c /\ run'[r].stage = "report" /\ SameThread(r) /\ OthersKept(r)
    BY <1>1, <1>2, <2>1 DEF TypeOK, RunState, SameThread, OthersKept
  <2>3. log' = log
    BY <1>5 DEF Collect
  <2> QED BY <1>2, <2>2, <2>3, LocalEffect DEF AtWork
<1> QED BY <1>3, <1>4, <1>5

LEMMA DeriveEffect ==
  ASSUME TypeOK, NEW r \in Runs, Derive(r)
  PROVE  Effect(r)
<1>1. run[r] \in RunState /\ run[r].at = "derivations" /\ run[r].stage = "work" /\ log' = log
  BY DEF TypeOK, Derive, At
<1>2. PICK succeeds \in BOOLEAN :
        run' = [run EXCEPT ![r] =
             IF run[r].derivation < 4
               THEN [run[r] EXCEPT !.derivation = run[r].derivation + 1,
                            !.derivationErrors = run[r].derivationErrors \/ ~succeeds]
               ELSE [run[r] EXCEPT !.stage = "report",
                       !.derivationErrors = run[r].derivationErrors \/ ~succeeds,
                       !.phases = WithPhase(r, "derivations",
                          IF run[r].derivationErrors \/ ~succeeds THEN "failed" ELSE "success")]]
  BY DEF Derive
<1>3. /\ run'[r].at = "derivations" /\ run'[r].stage \in {"work", "report"}
      /\ SameThread(r) /\ OthersKept(r)
  BY <1>1, <1>2 DEF TypeOK, RunState, SameThread, OthersKept
<1> QED BY <1>1, <1>3, LocalEffect DEF AtWork, PIPELINE_PHASES

LEMMA ReportingEffect ==
  ASSUME TypeOK, NEW r \in Runs,
         \/ BeginDerivations(r) \/ ReportDerivations(r)
         \/ BeginSnapshots(r) \/ ReportSnapshots(r)
  PROVE  Effect(r)
<1>1. AtWork(run[r])
  BY DEF BeginDerivations, ReportDerivations, BeginSnapshots, ReportSnapshots, At, AtWork,
         PIPELINE_PHASES
<1>2. \/ \E phases : Report(r, phases, "derivations", "work")
      \/ \E phases : Report(r, phases, "snapshots", "begin")
      \/ \E phases : Report(r, phases, "snapshots", "work")
      \/ \E phases : Report(r, phases, "complete", "begin")
  BY Zenon DEF BeginDerivations, ReportDerivations, BeginSnapshots, ReportSnapshots
<1>3. {"derivations", "snapshots", "complete"} \subseteq PIPELINE_PHASES
  BY DEF PIPELINE_PHASES
<1> QED BY <1>1, <1>2, <1>3, ReportEffect

LEMMA RefreshEffect ==
  ASSUME TypeOK, NEW r \in Runs, RefreshSnapshots(r)
  PROVE  Effect(r)
<1>1. run[r] \in RunState /\ run[r].at = "snapshots" /\ run[r].stage = "work"
  BY DEF TypeOK, RefreshSnapshots, At
<1>2. AtWork(run[r])
  BY <1>1 DEF AtWork, PIPELINE_PHASES
<1>3. CASE Raise(r, run[r].phases)
  BY <1>2, <1>3, RaiseEffect
<1>4. CASE ~Raise(r, run[r].phases)
  <2>1. PICK published : run' = [run EXCEPT ![r] = [run[r] EXCEPT
             !.stage = "report", !.phases = WithPhase(r, "snapshots", "success"),
             !.published = published]]
    BY <1>4, Zenon DEF RefreshSnapshots
  <2>2. log' = log
    BY <1>4 DEF RefreshSnapshots
  <2>3. run'[r].at = "snapshots" /\ run'[r].stage = "report" /\ SameThread(r) /\ OthersKept(r)
    BY <1>1, <2>1 DEF TypeOK, RunState, SameThread, OthersKept
  <2> QED BY <1>2, <2>2, <2>3, LocalEffect DEF AtWork, PIPELINE_PHASES
<1> QED BY <1>3, <1>4

LEMMA FinishLogEffect ==
  ASSUME TypeOK, TypeOK', NEW r \in Runs, FinishLog(r)
  PROVE  Effect(r)
<1> DEFINE verdict == IF Outcome(r) = "failed" THEN "failed" ELSE "success"
           phases == WithPhase(r, "complete", verdict)
<1>1. run[r] \in RunState /\ run[r].at = "complete" /\ run[r].stage = "begin"
  BY DEF TypeOK, FinishLog, At
<1>2. AtWork(run[r])
  BY <1>1 DEF AtWork, PIPELINE_PHASES
<1>3. CASE Raise(r, phases)
  BY <1>2, <1>3, RaiseEffect
<1>4. CASE ~Raise(r, phases)
  <2>1. /\ log' = Finished(r, Outcome(r), phases, run[r].ok, run[r].published # "no")
        /\ run' = [run EXCEPT ![r] = [run[r] EXCEPT !.stage = "notify", !.phases = phases]]
    BY <1>4, Zenon DEF FinishLog
  <2> HIDE DEF phases
  <2>2. run'[r].at = "complete" /\ run'[r].stage = "notify" /\ SameThread(r) /\ OthersKept(r)
    BY <1>1, <2>1 DEF TypeOK, RunState, SameThread, OthersKept
  <2> QED BY <1>2, <2>1, <2>2, OutcomeType, ClosesEffect
<1> QED BY <1>3, <1>4

LEMMA HandlerEffect ==
  ASSUME TypeOK, TypeOK', NEW r \in Runs, HandlerReport(r) \/ HandlerFinish(r)
  PROVE  Effect(r)
<1>1. run[r] \in RunState /\ log[r] \in Row /\ run[r].at = "handler" /\ AtWork(run[r])
  BY DEF TypeOK, HandlerReport, HandlerFinish, At, AtWork
<1>2. CASE Abandon(r)
  BY <1>1, <1>2, AbandonEffect DEF Live
<1>3. CASE HandlerReport(r) /\ ~Abandon(r)
  <2>1. /\ log' = [log EXCEPT ![r] = [log[r] EXCEPT !.phases = run[r].phases]]
        /\ run' = Go(r, "handler", "work")
    BY <1>3 DEF HandlerReport
  <2>2. run'[r].at = "handler" /\ run'[r].stage = "work" /\ SameThread(r) /\ OthersKept(r)
    BY <1>1, <2>1 DEF Go, TypeOK, RunState, SameThread, OthersKept
  <2>3. /\ log'[r].status = log[r].status /\ RowsOfOthersKept(r)
        /\ RowIs(r, log[r].startedAt, log[r].finishedAt, log[r].cause)
    BY <1>1, <2>1 DEF TypeOK, Row, RowIs, RowsOfOthersKept
  <2> QED BY <1>1, <2>2, <2>3 DEF Effect, Keeps, AtWork
<1>4. CASE HandlerFinish(r) /\ ~Abandon(r)
  <2>1. /\ log' = Finished(r, "failed", run[r].phases, {}, FALSE)
        /\ run' = Go(r, "handler", "notify")
    BY <1>4 DEF HandlerFinish
  <2>2. run'[r].at = "handler" /\ run'[r].stage = "notify" /\ SameThread(r) /\ OthersKept(r)
    BY <1>1, <2>1 DEF Go, TypeOK, RunState, SameThread, OthersKept
  <2> QED BY <1>1, <2>1, <2>2, ClosesEffect
<1> QED BY <1>2, <1>3, <1>4

LEMMA NotifyEffect ==
  ASSUME TypeOK, NEW r \in Runs, Notify(r) \/ HandlerNotify(r)
  PROVE  Effect(r)
<1>1. PICK event : Stop(r, event)
  BY DEF Notify, HandlerNotify
<1>2. Live(r) /\ run[r].stage = "notify"
  BY DEF Notify, HandlerNotify, At, Live
<1>3. run'[r] = Dead(r, event) /\ OthersKept(r) /\ log' = log
  BY <1>1 DEF Stop, TypeOK, OthersKept
<1>4. Dead(r, event).at = "stopped" /\ Dead(r, event).published = run[r].published
  BY DEF Dead, NewRun
<1> QED BY <1>2, <1>3, <1>4 DEF Effect, Ends

LEMMA RunStepEffect ==
  ASSUME TypeOK, TypeOK', NEW r \in Runs, RunStep(r)
  PROVE  Effect(r)
  BY PreludeEffect, CollectorEffect, DeriveEffect, ReportingEffect, RefreshEffect,
     FinishLogEffect, HandlerEffect, NotifyEffect DEF RunStep

-----------------------------------------------------------------------------
(* What any step does to the threads and to the rows *)

Resolved(r) ==
    \/ log'[r] = log[r]
    \/ log[r].status = "running" /\ log'[r].status = "crashed"

Quiet == run' = run /\ \A r \in Runs : Resolved(r)

Dies(i) ==
    /\ log' = log /\ instance' = [instance EXCEPT ![i] = "down"]
    /\ \A r \in Runs : IF Live(r) /\ run[r].host = i
                         THEN run'[r].at = "stopped" ELSE run'[r] = run[r]

Starts(i, r, trigger) ==
    /\ log' = log /\ instance' = instance /\ instance[i] = "up"
    /\ run[r].at = "idle" /\ run'[r].at = "resolve" /\ run'[r].host = i
    /\ run'[r].trigger = trigger
    /\ OthersKept(r)

LEMMA BeginStarts ==
  ASSUME TypeOK, NEW i \in Instances, NEW r \in Runs, NEW trigger, Begin(i, r, trigger)
  PROVE  Starts(i, r, trigger)
<1>1. run[r] \in RunState
  BY DEF TypeOK
<1>2. run' = [run EXCEPT ![r] = [run[r] EXCEPT !.at = "resolve", !.host = i, !.trigger = trigger]]
  BY DEF Begin
<1>3. run'[r].at = "resolve" /\ run'[r].host = i /\ run'[r].trigger = trigger /\ OthersKept(r)
  BY <1>1, <1>2 DEF TypeOK, RunState, OthersKept
<1> QED BY <1>3 DEF Begin, Starts

LEMMA StopDies ==
  ASSUME TypeOK, NEW i \in Instances, StopProcess(i)
  PROVE  Dies(i)
<1>1. /\ log' = log /\ instance' = [instance EXCEPT ![i] = "down"]
      /\ run' = [r \in Runs |-> IF Live(r) /\ run[r].host = i THEN Dead(r, "none") ELSE run[r]]
  BY DEF StopProcess
<1>2. \A r \in Runs : Dead(r, "none").at = "stopped"
  BY DEF Dead, NewRun
<1> HIDE DEF Dead
<1> QED BY <1>1, <1>2 DEF Dies

LEMMA StepEffect ==
  ASSUME TypeOK, TypeOK', Next
  PROVE  \/ Quiet /\ \E i \in Instances : ProcessStep(i)
         \/ Quiet /\ instance' = instance /\ log' = log
         \/ \E i \in Instances : Dies(i)
         \/ \E i \in Instances, r \in Runs : FireSchedule(i, r) /\ Starts(i, r, "scheduled")
         \/ \E i \in Instances, r \in Runs : ManualTrigger /\ Starts(i, r, "manual")
         \/ \E r \in Runs : RunStep(r) /\ Effect(r)
<1>1. CASE \E i \in Instances : ProcessStep(i)
  <2>1. PICK i \in Instances : ProcessStep(i)
    BY <1>1
  <2>2. run' = run
    BY <2>1 DEF ProcessStep, StartProcess, ReconcileOrphans, MarkInterrupted
  <2>3. \A r \in Runs : Resolved(r)
    BY <2>1, RepairedRows, MarkedRows DEF ProcessStep, StartProcess, ReconcileOrphans, Resolved
  <2> QED BY <2>1, <2>2, <2>3 DEF Quiet
<1>2. CASE \E i \in Instances : StopProcess(i)
  BY <1>2, StopDies
<1>3. CASE \E i \in Instances, r \in Runs : FireSchedule(i, r)
  BY <1>3, BeginStarts DEF FireSchedule
<1>4. CASE \E i \in Instances, r \in Runs : TriggerManually(i, r)
  BY <1>4, BeginStarts DEF TriggerManually
<1>5. CASE \E r \in Runs : RunStep(r)
  BY <1>5, RunStepEffect
<1>6. CASE Tick
  BY <1>6 DEF Tick, Quiet, Resolved
<1> QED BY <1>1, <1>2, <1>3, <1>4, <1>5, <1>6 DEF Next

LEMMA RunStepKeepsInstance ==
  ASSUME NEW r \in Runs, RunStep(r)
  PROVE  instance' = instance /\ clock' = clock
<1>1. CASE ResolveOrphans(r) \/ CreateLog(r) \/ InitDetails(r)
  BY <1>1 DEF ResolveOrphans, CreateLog, InitDetails, Abandon
<1>2. CASE \E c \in Collectors : BeginCollector(r, c) \/ Collect(r, c) \/ ReportCollector(r, c)
  BY <1>2 DEF BeginCollector, Collect, ReportCollector, Report, Raise
<1>3. CASE \/ BeginDerivations(r) \/ Derive(r) \/ ReportDerivations(r)
           \/ BeginSnapshots(r) \/ RefreshSnapshots(r) \/ ReportSnapshots(r)
  BY <1>3 DEF BeginDerivations, Derive, ReportDerivations, BeginSnapshots, RefreshSnapshots,
              ReportSnapshots, Report, Raise
<1>4. CASE FinishLog(r) \/ Notify(r) \/ HandlerReport(r) \/ HandlerFinish(r) \/ HandlerNotify(r)
  BY <1>4 DEF FinishLog, Notify, HandlerReport, HandlerFinish, HandlerNotify, Raise, Stop, Abandon
<1> QED BY <1>1, <1>2, <1>3, <1>4 DEF RunStep

-----------------------------------------------------------------------------
(* The life of a row: absent until its run creates it, open or declared crashed
   for as long as its run works on it. *)

LifeOf(x, status) ==
    /\ x.at \in {"idle", "resolve", "create"} => status = "absent"
    /\ AtWork(x) => status \in {"running", "crashed"}

LifeInv == \A r \in Runs : LifeOf(run[r], log[r].status)

LEMMA InitLife == Init => LifeInv
<1> SUFFICES ASSUME Init, NEW r \in Runs PROVE LifeOf(run[r], log[r].status)
  BY DEF LifeInv
<1>1. run[r].at = "idle" /\ log[r].status = "absent"
  BY DEF Init, NewRun, NoRow
<1> QED BY <1>1 DEF LifeOf, AtWork, PIPELINE_PHASES

LEMMA EffectLife ==
  ASSUME TypeOK, LifeInv, NEW q \in Runs, Effect(q), NEW r \in Runs
  PROVE  /\ LifeOf(run'[r], log'[r].status)
         /\ log[r].status \in {"success", "partial_failure", "failed"} => log'[r] = log[r]
<1>1. LifeOf(run[r], log[r].status)
  BY DEF LifeInv
<1>2. CASE Repairs(q)
  <2>1. Resolved(r)
    BY <1>2, RepairedRows DEF Repairs, Resolved
  <2>2. r # q => run'[r] = run[r]
    BY DEF Effect, OthersKept
  <2> QED BY <1>1, <1>2, <2>1, <2>2 DEF LifeOf, AtWork, PIPELINE_PHASES, Repairs, Resolved
<1>3. CASE r # q /\ ~Repairs(q)
  <2>1. run'[r] = run[r] /\ log'[r] = log[r]
    BY <1>3 DEF Effect, OthersKept, RowsOfOthersKept, Opens, Closes, Keeps, Ends
  <2> QED BY <1>1, <2>1
<1>4. CASE r = q /\ Opens(q)
  BY <1>1, <1>4 DEF LifeOf, Opens, AtWork, PIPELINE_PHASES
<1>5. CASE r = q /\ Closes(q)
  BY <1>1, <1>5 DEF LifeOf, Closes, AtWork, PIPELINE_PHASES
<1>6. CASE r = q /\ Keeps(q)
  BY <1>1, <1>6 DEF LifeOf, Keeps, AtWork, PIPELINE_PHASES
<1>7. CASE r = q /\ Ends(q)
  BY <1>1, <1>7 DEF LifeOf, Ends, Live, AtWork, PIPELINE_PHASES
<1> QED BY <1>2, <1>3, <1>4, <1>5, <1>6, <1>7 DEF Effect

LEMMA NextLife ==
  ASSUME TypeOK, TypeOK', LifeInv, [Next]_vars, NEW r \in Runs
  PROVE  /\ LifeOf(run'[r], log'[r].status)
         /\ log[r].status \in {"success", "partial_failure", "failed"} => log'[r] = log[r]
<1>1. LifeOf(run[r], log[r].status)
  BY DEF LifeInv
<1>2. CASE UNCHANGED vars
  BY <1>1, <1>2 DEF vars
<1>3. CASE Quiet
  <2>1. run'[r] = run[r] /\ Resolved(r)
    BY <1>3 DEF Quiet
  <2> QED BY <1>1, <2>1 DEF LifeOf, Resolved
<1>4. CASE \E i \in Instances : Dies(i)
  <2>1. log'[r] = log[r] /\ (run'[r].at = "stopped" \/ run'[r] = run[r])
    BY <1>4 DEF Dies
  <2> QED BY <1>1, <2>1 DEF LifeOf, AtWork, PIPELINE_PHASES
<1>5. CASE \E i \in Instances, q \in Runs, trigger \in Triggers : Starts(i, q, trigger)
  <2>1. log'[r] = log[r] /\ ((run[r].at = "idle" /\ run'[r].at = "resolve") \/ run'[r] = run[r])
    BY <1>5 DEF Starts, OthersKept
  <2> QED BY <1>1, <2>1 DEF LifeOf, AtWork, PIPELINE_PHASES
<1>6. CASE \E q \in Runs : Effect(q)
  BY <1>6, EffectLife
<1> QED BY <1>2, <1>3, <1>4, <1>5, <1>6, StepEffect DEF Triggers

(* A run's own verdict is final: no later step, of this run, of another run, of a
   repair or of a process start, rewrites a row that its run closed. *)
THEOREM OwnOutcomeFinal == Spec => OwnOutcomeIsFinal
<1>1. TypeOK /\ TypeOK' /\ LifeInv /\ [Next]_vars => LifeInv'
  BY NextLife DEF LifeInv
<1>2. TypeOK /\ TypeOK' /\ LifeInv /\ [Next]_vars =>
        [\A r \in Runs :
          log[r].status \in {"success", "partial_failure", "failed"} => log'[r] = log[r]]_vars
  BY NextLife
<1> QED BY InitLife, TypeCorrect, <1>1, <1>2, PTL DEF Spec, OwnOutcomeIsFinal

-----------------------------------------------------------------------------
(* The documented deployment: one backend process, no manual trigger *)

Serial == ManualTrigger = FALSE /\ \A i, j \in Instances : i = j

(* Why runs exclude each other: a live run is a scheduled run of a process that is
   up, the only one, and that process fires only when it has no live run. *)
SerialInv ==
    /\ OneRunAtATime
    /\ \A r \in Runs : Live(r) => instance[run[r].host] = "up" /\ run[r].trigger = "scheduled"
    /\ \A r \in Runs : AtWork(run[r]) => log[r].status = "running"

LEMMA AtWorkIsWorking ==
  ASSUME NEW r \in Runs
  PROVE  /\ AtWork(run[r]) => Live(r)
         /\ AtWork(run[r]) <=> r \in Working
  BY DEF AtWork, Live, Working, PIPELINE_PHASES

LEMMA AtWorkIsWorkingNext ==
  ASSUME NEW r \in Runs
  PROVE  AtWork(run'[r]) <=> r \in Working'
  BY DEF AtWork, Working, PIPELINE_PHASES

LEMMA InitSerial == Init => SerialInv
<1> SUFFICES ASSUME Init PROVE SerialInv
  OBVIOUS
<1>1. \A r \in Runs : run[r].at = "idle"
  BY DEF Init, NewRun
<1> QED BY <1>1 DEF SerialInv, OneRunAtATime, Live, AtWork, PIPELINE_PHASES

LEMMA ProcessSerial ==
  ASSUME Serial, TypeOK, SerialInv, NEW i \in Instances, ProcessStep(i), Quiet
  PROVE  SerialInv' /\ \A r \in Runs : ~Live(r)
<1>1. instance[i] # "up"
  BY DEF ProcessStep, StartProcess, ReconcileOrphans, MarkInterrupted
<1>2. \A r \in Runs : run[r].host = i
  BY DEF Serial, TypeOK, RunState
<1>3. \A r \in Runs : ~Live(r)
  BY <1>1, <1>2 DEF SerialInv
<1>4. run' = run
  BY DEF Quiet
<1>5. \A r \in Runs : ~Live(r)'
  BY <1>3, <1>4 DEF Live
<1>6. \A r \in Runs : ~AtWork(run'[r])
  BY <1>3, <1>4, AtWorkIsWorking
<1> QED BY <1>3, <1>5, <1>6 DEF SerialInv, OneRunAtATime

LEMMA StopSerial ==
  ASSUME Serial, TypeOK, SerialInv, NEW i \in Instances, Dies(i)
  PROVE  SerialInv'
<1>1. \A r \in Runs : run[r].host = i
  BY DEF Serial, TypeOK, RunState
<1>2. \A r \in Runs : run'[r].at \in {"idle", "stopped"}
  BY <1>1 DEF Dies, Live
<1>3. \A r \in Runs : ~Live(r)' /\ ~AtWork(run'[r])
  BY <1>2 DEF Live, AtWork, PIPELINE_PHASES
<1> QED BY <1>3 DEF SerialInv, OneRunAtATime

LEMMA StartSerial ==
  ASSUME Serial, TypeOK, SerialInv, NEW i \in Instances, NEW r \in Runs,
         FireSchedule(i, r), Starts(i, r, "scheduled")
  PROVE  SerialInv'
<1>1. \A q \in Runs : run[q].host = i
  BY DEF Serial, TypeOK, RunState
<1>2. \A q \in Runs : ~Live(q)
  BY <1>1 DEF FireSchedule, SerialInv
<1>3. \A q \in Runs \ {r} : run'[q] = run[q]
  BY DEF Starts, OthersKept
<1>4. \A q \in Runs \ {r} : ~Live(q)' /\ ~AtWork(run'[q])
  BY <1>2, <1>3, AtWorkIsWorking DEF Live
<1>5. ~AtWork(run'[r]) /\ instance'[run'[r].host] = "up" /\ run'[r].trigger = "scheduled"
  BY DEF Starts, AtWork, PIPELINE_PHASES
<1> QED BY <1>4, <1>5 DEF SerialInv, OneRunAtATime

LEMMA EffectLive ==
  ASSUME NEW r \in Runs, Effect(r)
  PROVE  /\ Live(r)
         /\ Live(r)' => SameThread(r)
  BY DEF Effect, Repairs, Opens, Closes, Keeps, Ends, Live, AtWork, PIPELINE_PHASES

LEMMA RunSerial ==
  ASSUME TypeOK, LifeInv, SerialInv, NEW r \in Runs, Effect(r), Live(r), instance' = instance
  PROVE  SerialInv'
<1>1. \A q \in Runs \ {r} : run'[q] = run[q] /\ ~Live(q)
  BY DEF Effect, OthersKept, SerialInv, OneRunAtATime
<1>2. \A q \in Runs \ {r} : ~Live(q)' /\ ~AtWork(run'[q])
  BY <1>1, AtWorkIsWorking DEF Live
<1>3. Live(r)' => instance'[run'[r].host] = "up" /\ run'[r].trigger = "scheduled"
  BY EffectLive DEF SerialInv, SameThread
<1>4. AtWork(run'[r]) => log'[r].status = "running"
  BY DEF Effect, Repairs, Opens, Closes, Keeps, Ends, AtWork, PIPELINE_PHASES, SerialInv
<1> QED BY <1>2, <1>3, <1>4 DEF SerialInv, OneRunAtATime

LEMMA NextSerial ==
  ASSUME Serial, TypeOK, TypeOK', LifeInv, SerialInv, [Next]_vars
  PROVE  SerialInv'
<1>1. CASE UNCHANGED vars
  BY <1>1 DEF vars, SerialInv, OneRunAtATime, Live, AtWork
<1>2. CASE Next
  <2>1. CASE Quiet /\ \E i \in Instances : ProcessStep(i)
    BY <2>1, ProcessSerial
  <2>2. CASE Quiet /\ instance' = instance /\ log' = log
    BY <2>2 DEF Quiet, SerialInv, OneRunAtATime, Live, AtWork
  <2>3. CASE \E i \in Instances : Dies(i)
    BY <2>3, StopSerial
  <2>4. CASE \E i \in Instances, r \in Runs : FireSchedule(i, r) /\ Starts(i, r, "scheduled")
    BY <2>4, StartSerial
  <2>5. CASE \E i \in Instances, r \in Runs : ManualTrigger /\ Starts(i, r, "manual")
    BY <2>5 DEF Serial
  <2>6. CASE \E r \in Runs : RunStep(r) /\ Effect(r)
    <3>1. PICK r \in Runs : RunStep(r) /\ Effect(r)
      BY <2>6
    <3>2. Live(r)
      BY <3>1, EffectLive
    <3> QED BY <3>1, <3>2, RunStepKeepsInstance, RunSerial
  <2> QED BY <1>2, <2>1, <2>2, <2>3, <2>4, <2>5, <2>6, StepEffect
<1> QED BY <1>1, <1>2

LEMMA SerialInvariant ==
  ASSUME Serial
  PROVE  Spec => [](TypeOK /\ LifeInv /\ SerialInv)
<1>1. TypeOK /\ TypeOK' /\ LifeInv /\ [Next]_vars => LifeInv'
  BY NextLife DEF LifeInv
<1>2. TypeOK /\ TypeOK' /\ LifeInv /\ SerialInv /\ [Next]_vars => SerialInv'
  BY NextSerial
<1> QED BY TypeCorrect, InitLife, InitSerial, <1>1, <1>2, PTL DEF Spec

(* In the documented deployment the scheduler's max_instances=1 is enough to keep
   runs apart, whatever crashes, restarts and database errors occur. *)
THEOREM RunsExclude == ASSUME Serial PROVE Spec => []OneRunAtATime
<1>1. SerialInv => OneRunAtATime
  BY DEF SerialInv
<1> QED BY SerialInvariant, <1>1, PTL

(* There, no repair ever declares a run crashed that is still at work. *)
THEOREM NeverFalselyCrashed == ASSUME Serial PROVE Spec => []WorkingMeansRunning
<1>1. SerialInv => WorkingMeansRunning
  BY AtWorkIsWorking DEF SerialInv, WorkingMeansRunning, Working
<1> QED BY SerialInvariant, <1>1, PTL

-----------------------------------------------------------------------------
(* The rows implement the register *)

StatusOf(l) == [r \in Runs |-> l[r].status]

RegisterStep == Register!Next \/ (StatusOf(log)' = StatusOf(log) /\ Working' = Working)

LEMMA RepairStep ==
  ASSUME Working = {}, Working' = {}, \A r \in Runs : Resolved(r)
  PROVE  RegisterStep
<1> DEFINE orphans == {r \in Runs : log[r].status = "running" /\ log'[r].status = "crashed"}
<1>1. StatusOf(log)' = [r \in Runs |-> IF r \in orphans THEN "crashed" ELSE StatusOf(log)[r]]
  BY DEF StatusOf, Resolved
<1>2. \A r \in orphans : StatusOf(log)[r] = "running" /\ r \notin Working
  BY DEF StatusOf
<1>3. orphans \in SUBSET Runs
  OBVIOUS
<1> HIDE DEF orphans
<1>4. \E rows \in SUBSET Runs :
        /\ \A r \in rows : StatusOf(log)[r] = "running" /\ r \notin Working
        /\ StatusOf(log)' = [r \in Runs |-> IF r \in rows THEN "crashed" ELSE StatusOf(log)[r]]
        /\ Working' = Working
  BY <1>1, <1>2, <1>3
<1>5. \E rows \in SUBSET Runs : Register!Repair(rows)
  BY <1>4 DEF Register!Repair, StatusOf
<1>6. Register!Next
  BY <1>5 DEF Register!Next
<1> QED BY <1>6 DEF RegisterStep

LEMMA DieStep ==
  ASSUME log' = log, Working' \subseteq Working
  PROVE  RegisterStep
<1> DEFINE dead == Working \ Working'
<1>1. Working' = Working \ dead /\ dead \in SUBSET Runs
  BY DEF Working
<1>2. StatusOf(log)' = StatusOf(log)
  BY DEF StatusOf
<1> HIDE DEF dead
<1>3. Register!Die(dead)
  BY <1>1, <1>2 DEF Register!Die, StatusOf
<1> QED BY <1>1, <1>3 DEF Register!Next, RegisterStep

LEMMA OpenStep ==
  ASSUME NEW r \in Runs, LifeInv, OthersKept(r), Opens(r)
  PROVE  RegisterStep
<1>1. Working' = Working \cup {r}
  <2>1. \A q \in Runs \ {r} : run'[q] = run[q]
    BY DEF OthersKept
  <2>2. r \in Working'
    BY AtWorkIsWorkingNext DEF Opens, AtWork
  <2> QED BY <2>1, <2>2 DEF Working
<1>2. StatusOf(log)[r] = "absent"
  BY DEF LifeInv, LifeOf, Opens, StatusOf
<1>3. StatusOf(log)' = [StatusOf(log) EXCEPT ![r] = "running"]
  BY DEF Opens, RowsOfOthersKept, StatusOf
<1>4. Register!Open(r)
  BY <1>1, <1>2, <1>3 DEF Register!Open, StatusOf
<1> QED BY <1>4 DEF Register!Next, RegisterStep

LEMMA CloseStep ==
  ASSUME NEW r \in Runs, OthersKept(r), Closes(r)
  PROVE  RegisterStep
<1>1. Working' = Working \ {r}
  <2>1. \A q \in Runs \ {r} : run'[q] = run[q]
    BY DEF OthersKept
  <2>2. r \notin Working'
    BY DEF Closes, Working
  <2> QED BY <2>1, <2>2 DEF Working
<1>2. r \in Working
  BY AtWorkIsWorking DEF Closes
<1>3. StatusOf(log)' = [StatusOf(log) EXCEPT ![r] = log'[r].status]
  BY DEF Closes, RowsOfOthersKept, StatusOf
<1>4. log'[r].status \in Register!Own
  BY DEF Closes, Register!Own
<1>5. Register!Close(r)
  BY <1>1, <1>2, <1>3, <1>4 DEF Register!Close, StatusOf
<1> QED BY <1>5 DEF Register!Next, RegisterStep

LEMMA KeepStep ==
  ASSUME NEW r \in Runs, OthersKept(r), Keeps(r)
  PROVE  RegisterStep
<1>1. \A q \in Runs \ {r} : run'[q] = run[q]
  BY DEF OthersKept
<1>2. r \in Working /\ r \in Working'
  BY AtWorkIsWorking, AtWorkIsWorkingNext DEF Keeps
<1>3. Working' = Working
  BY <1>1, <1>2 DEF Working
<1>4. StatusOf(log)' = StatusOf(log)
  BY DEF Keeps, RowsOfOthersKept, StatusOf
<1> QED BY <1>3, <1>4 DEF RegisterStep

LEMMA EffectStep ==
  ASSUME TypeOK, LifeInv, SerialInv, NEW r \in Runs, Effect(r)
  PROVE  RegisterStep
<1>1. \A q \in Runs \ {r} : run'[q] = run[q] /\ q \notin Working
  BY EffectLive, AtWorkIsWorking DEF Effect, OthersKept, SerialInv, OneRunAtATime
<1>2. CASE Repairs(r)
  <2>1. r \notin Working /\ r \notin Working'
    BY <1>2 DEF Repairs, Working, PIPELINE_PHASES
  <2>2. Working = {} /\ Working' = {}
    BY <1>1, <2>1 DEF Working
  <2>3. \A q \in Runs : Resolved(q)
    BY <1>2, RepairedRows DEF Repairs, Resolved
  <2> QED BY <2>2, <2>3, RepairStep
<1>3. CASE Opens(r)
  BY <1>3, OpenStep DEF Effect
<1>4. CASE Closes(r)
  BY <1>4, CloseStep DEF Effect
<1>5. CASE Keeps(r)
  BY <1>5, KeepStep DEF Effect
<1>6. CASE Ends(r)
  <2>1. r \notin Working'
    BY <1>6 DEF Ends, Working, PIPELINE_PHASES
  <2>2. Working' \subseteq Working
    BY <1>1, <2>1 DEF Working
  <2> QED BY <1>6, <2>2, DieStep DEF Ends
<1> QED BY <1>2, <1>3, <1>4, <1>5, <1>6 DEF Effect

LEMMA NextStep ==
  ASSUME Serial, TypeOK, TypeOK', LifeInv, SerialInv, [Next]_vars
  PROVE  RegisterStep
<1>1. CASE UNCHANGED vars
  BY <1>1 DEF vars, RegisterStep, StatusOf, Working
<1>2. CASE Quiet /\ \E i \in Instances : ProcessStep(i)
  <2>1. \A r \in Runs : ~Live(r) /\ run'[r] = run[r]
    BY <1>2, ProcessSerial DEF Quiet
  <2>2. Working = {} /\ Working' = {}
    BY <2>1 DEF Working, Live, PIPELINE_PHASES
  <2> QED BY <1>2, <2>2, RepairStep DEF Quiet
<1>3. CASE Quiet /\ instance' = instance /\ log' = log
  BY <1>3 DEF Quiet, RegisterStep, StatusOf, Working
<1>4. CASE \E i \in Instances : Dies(i)
  <2>1. log' = log /\ \A r \in Runs : run'[r] = run[r] \/ run'[r].at = "stopped"
    BY <1>4 DEF Dies
  <2>2. Working' \subseteq Working
    BY <2>1 DEF Working, PIPELINE_PHASES
  <2> QED BY <2>1, <2>2, DieStep
<1>5. CASE \E i \in Instances, r \in Runs, trigger \in Triggers : Starts(i, r, trigger)
  <2>1. PICK r \in Runs : log' = log /\ OthersKept(r) /\ run'[r].at = "resolve"
    BY <1>5 DEF Starts
  <2>2. Working' \subseteq Working
    BY <2>1 DEF Working, PIPELINE_PHASES, OthersKept
  <2> QED BY <2>1, <2>2, DieStep
<1>6. CASE \E r \in Runs : Effect(r)
  BY <1>6, EffectStep
<1> QED BY <1>1, <1>2, <1>3, <1>4, <1>5, <1>6, StepEffect DEF Triggers

(* In the documented deployment sync_log implements the register: each row is
   opened and closed once by its run, and declared crashed only after its run died. *)
THEOREM LogIsRegister == ASSUME Serial PROVE Spec => ImplementsRegister
<1>1. Init => Register!Init
  BY DEF Init, NewRun, NoRow, Register!Init, Working, PIPELINE_PHASES
<1>2. TypeOK /\ TypeOK' /\ LifeInv /\ SerialInv /\ [Next]_vars => [Register!Next]_(Register!vars)
  BY NextStep DEF RegisterStep, StatusOf, Register!vars
<1> QED BY SerialInvariant, <1>1, <1>2, PTL DEF Spec, ImplementsRegister, Register!Spec

-----------------------------------------------------------------------------
(***************************************************************************)
(* What a run tells of itself: the phases in memory and in its row, the    *)
(* outcome it closes the row with, the snapshots it publishes, the webhook *)
(* it sends, the times of the rows and the view of GET /sync/status.       *)
(***************************************************************************)
(* The verdicts that a run itself writes *)
Own == {"success", "partial_failure", "failed"}

(* A run is on the path through the phases until it raises or ends. *)
OnPath(x) == x.at \notin {"handler", "stopped"}

(* No phase has begun while an earlier one is unsettled. *)
Prefix(phases) ==
    \A p, q \in PIPELINE_PHASES :
        Before(p, q) /\ phases[q] # "pending" => phases[p] \in Settled

(* What has to be settled behind a run whose snapshots are published *)
Gate(phases) ==
    /\ \E c \in Collectors : phases[c] = "success"
    /\ phases["derivations"] \in {"success", "skipped"}

(* The program counter knows which phases are settled. *)
HasSettled(x, p) ==
    \/ p = x.at /\ x.stage \in {"report", "notify"}
    \/ Before(p, x.at)
    \/ p # "complete" /\ x.at = "complete"

Publishes(x) == x.ok # {} /\ ~x.derivationErrors

Verdict(x) ==
    IF x.ok # Collectors THEN "skipped"
    ELSE IF x.derivationErrors THEN "failed" ELSE "success"

(* On the path, the phases in memory follow from the program counter, and agree
   with what the run remembers of its collectors, derivations and snapshots. *)
Remembers(x) ==
    /\ \A p \in PIPELINE_PHASES : x.phases[p] \in Settled <=> HasSettled(x, p)
    /\ \A p \in PIPELINE_PHASES : x.phases[p] = "running" <=> x.at = p /\ x.stage = "work"
    /\ \A c \in Collectors : c \in x.ok <=> x.phases[c] = "success"
    /\ x.derivationErrors => x.ok = Collectors /\ x.phases["derivations"] # "pending"
    /\ x.phases["derivations"] = "running" => x.ok = Collectors
    /\ x.phases["derivations"] \in Settled => x.phases["derivations"] = Verdict(x)
    /\ x.phases["snapshots"] = "running" => Publishes(x)
    /\ x.phases["snapshots"] \in Settled =>
          x.phases["snapshots"] = IF Publishes(x) THEN "success" ELSE "skipped"
    /\ x.published # "no" <=> x.phases["snapshots"] = "success"

OutcomeOf(x) ==
    IF x.ok = Collectors /\ ~x.derivationErrors THEN "success"
    ELSE IF x.ok # {} THEN "partial_failure" ELSE "failed"

Thread(x) ==
    /\ Prefix(x.phases)
    /\ OnPath(x) => Remembers(x)
    /\ x.at = "handler" => x.phases["complete"] = "failed"

(* OutcomeMatchesPhases, of one row *)
Matches(row) ==
    /\ row.status = "success" =>
          /\ \A p \in PIPELINE_PHASES : row.phases[p] = "success"
          /\ row.collectors = Collectors /\ row.snapshots
    /\ row.status = "partial_failure" =>
          /\ row.collectors = {c \in Collectors : row.phases[c] = "success"}
          /\ row.collectors # {}
          /\ row.phases["derivations"] =
                IF row.collectors = Collectors THEN "failed" ELSE "skipped"
          /\ row.snapshots <=> row.collectors # Collectors
          /\ row.phases["complete"] = "success"
    /\ row.status = "failed" =>
          /\ row.phases["complete"] = "failed" /\ row.collectors = {}
          /\ ~row.snapshots

(* The row holds what the run remembers wherever a commit divides two phases, and
   the outcome once the run has closed it; what was published stays behind the gate. *)
Agrees(x, row) ==
    /\ OnPath(x) /\ x.stage # "report" => row.phases = x.phases
    /\ x.at = "complete" /\ x.stage = "notify" => row.status = OutcomeOf(x)
    /\ x.at = "handler" /\ x.stage = "notify" => row.status = "failed"
    /\ x.published # "no" =>
          /\ ~x.derivationErrors /\ Gate(row.phases)
          /\ x.at # "stopped" => Gate(x.phases)
    /\ x.event # "none" => row.status \in Own /\ x.event = EventOf(row.status)

Story(x, row) == Thread(x) /\ Prefix(row.phases) /\ Matches(row) /\ Agrees(x, row)

StoryInv == \A r \in Runs : Story(run[r], log[r])

-----------------------------------------------------------------------------
(* Fields of a thread and of a row after a step *)

Remains(r) ==
    /\ run'[r].ok = run[r].ok /\ run'[r].derivationErrors = run[r].derivationErrors
    /\ run'[r].published = run[r].published /\ run'[r].event = run[r].event
    /\ run'[r].derivation = run[r].derivation

Moves(r, label, stage, phases) ==
    /\ run'[r].at = label /\ run'[r].stage = stage /\ run'[r].phases = phases /\ Remains(r)

Reported(r, phases) ==
    /\ log'[r].phases = phases /\ log'[r].status = log[r].status

LEMMA MoveFields ==
  ASSUME TypeOK, NEW r \in Runs, NEW label, NEW stage, NEW phases,
         run' = [run EXCEPT ![r] = [run[r] EXCEPT !.at = label, !.stage = stage, !.phases = phases]]
  PROVE  Moves(r, label, stage, phases)
<1>1. run[r] \in RunState
  BY DEF TypeOK
<1> QED BY <1>1 DEF TypeOK, RunState, Moves, Remains

LEMMA WithPhaseValues ==
  ASSUME TypeOK, NEW r \in Runs, NEW p \in PIPELINE_PHASES, NEW s
  PROVE  /\ WithPhase(r, p, s)[p] = s
         /\ \A q \in PIPELINE_PHASES \ {p} : WithPhase(r, p, s)[q] = run[r].phases[q]
<1>1. run[r].phases \in [PIPELINE_PHASES -> PhaseStatus]
  BY DEF TypeOK, RunState
<1> QED BY <1>1 DEF WithPhase

LEMMA RaiseStory ==
  ASSUME TypeOK, NEW r \in Runs, Story(run[r], log[r]),
         NEW phases \in [PIPELINE_PHASES -> PhaseStatus], Prefix(phases),
         run[r].published # "no" => Gate(phases), Raise(r, phases)
  PROVE  Story(run'[r], log'[r])
<1> DEFINE failed == [phases EXCEPT !["complete"] = "failed"]
<1>1. Moves(r, "handler", "begin", failed)
  BY MoveFields DEF Raise
<1>2. failed["complete"] = "failed" /\ \A q \in PIPELINE_PHASES \ {"complete"} : failed[q] = phases[q]
  BY DEF PIPELINE_PHASES
<1>3. log'[r] = log[r]
  BY DEF Raise
<1> HIDE DEF failed
<1>4. Prefix(failed)
  BY <1>2 DEF Prefix, Before
<1>5. run[r].published # "no" => Gate(failed)
  BY <1>2 DEF Gate, Collectors, PIPELINE_PHASES
<1>6. Thread(run'[r])
  BY <1>1, <1>2, <1>4 DEF Thread, Moves, OnPath
<1>7. Agrees(run'[r], log'[r])
  BY <1>1, <1>3, <1>5 DEF Story, Agrees, Moves, Remains, OnPath
<1> QED BY <1>3, <1>6, <1>7 DEF Story

LEMMA ReportStory ==
  ASSUME NEW r \in Runs, Story(run[r], log[r]), log[r].status \in {"running", "crashed"},
         NEW phases, NEW label \in PIPELINE_PHASES, NEW stage \in {"begin", "work"},
         Prefix(phases), run[r].published # "no" => Gate(phases),
         Moves(r, label, stage, phases), Reported(r, phases), Remembers(run'[r])
  PROVE  Story(run'[r], log'[r])
<1>1. Thread(run'[r])
  BY DEF Thread, Moves, PIPELINE_PHASES
<1>2. Matches(log'[r])
  BY DEF Matches, Reported
<1>3. Agrees(run'[r], log'[r])
  BY DEF Story, Agrees, Moves, Remains, Reported, Own, PIPELINE_PHASES
<1> QED BY <1>1, <1>2, <1>3 DEF Story, Reported

LEMMA NewRuntimePrefix == Prefix(NewRuntime)
  BY DEF Prefix, NewRuntime, Before, PIPELINE_PHASES

LEMMA DeadStory ==
  ASSUME TypeOK, NEW r \in Runs, NEW event, Story(run[r], log[r]),
         run'[r] = Dead(r, event), log'[r] = log[r],
         event # "none" => log[r].status \in Own /\ event = EventOf(log[r].status)
  PROVE  Story(run'[r], log'[r])
<1>1. /\ run'[r].at = "stopped" /\ run'[r].phases = NewRuntime /\ run'[r].event = event
      /\ run'[r].published = run[r].published /\ run'[r].derivationErrors = FALSE
  BY DEF Dead, NewRun
<1>2. Thread(run'[r])
  BY <1>1, NewRuntimePrefix DEF Thread, OnPath
<1>3. Agrees(run'[r], log'[r])
  BY <1>1 DEF Story, Agrees, OnPath
<1> QED BY <1>2, <1>3 DEF Story

LEMMA AbandonStory ==
  ASSUME TypeOK, NEW r \in Runs, Story(run[r], log[r]), Abandon(r)
  PROVE  Story(run'[r], log'[r])
<1>1. run'[r] = Dead(r, "none") /\ log'[r] = log[r]
  BY DEF Abandon, TypeOK
<1> QED BY <1>1, DeadStory

LEMMA PreludeStory ==
  ASSUME TypeOK, LifeInv, NEW r \in Runs, Story(run[r], log[r]),
         ResolveOrphans(r) \/ CreateLog(r) \/ InitDetails(r)
  PROVE  Story(run'[r], log'[r])
<1>1. run[r] \in RunState /\ log[r] \in Row
  BY DEF TypeOK
<1>2. CASE Abandon(r)
  BY <1>2, AbandonStory
<1>3. CASE ResolveOrphans(r) /\ ~Abandon(r)
  <2>1. /\ run' = Go(r, "create", "begin") /\ OrphansResolved(log')
        /\ run[r].at = "resolve" /\ run[r].stage = "begin"
    BY <1>3 DEF ResolveOrphans, At
  <2>2. log[r].status = "absent"
    BY <2>1 DEF LifeInv, LifeOf
  <2>3. log'[r] = log[r]
    BY <2>1, <2>2, RepairedRows
  <2>4. Moves(r, "create", "begin", run[r].phases)
    BY <1>1, <2>1 DEF Go, TypeOK, RunState, Moves, Remains
  <2>5. Remembers(run'[r])
    BY <2>1, <2>4 DEF Moves, Remains, Story, Thread, OnPath, Remembers, HasSettled, Before,
       PIPELINE_PHASES, Publishes, Verdict
  <2>6. Thread(run'[r])
    BY <2>4, <2>5 DEF Moves, Story, Thread
  <2>7. Agrees(run'[r], log'[r])
    BY <2>1, <2>3, <2>4 DEF Moves, Remains, Story, Agrees, OnPath
  <2> QED BY <2>3, <2>6, <2>7 DEF Story
<1>4. CASE CreateLog(r) /\ ~Abandon(r)
  <2>1. PICK tokens : run' = [run EXCEPT ![r] = [run[r] EXCEPT !.at = "init", !.tokens = tokens]]
    BY <1>4 DEF CreateLog
  <2>2. /\ log' = [log EXCEPT ![r] = [NoRow EXCEPT !.status = "running", !.startedAt = clock]]
        /\ run[r].at = "create" /\ run[r].stage = "begin"
    BY <1>4 DEF CreateLog, At
  <2>3. log'[r].phases = NewRuntime /\ log'[r].status = "running"
    BY <2>2 DEF TypeOK, NoRow
  <2>4. Moves(r, "init", "begin", run[r].phases)
    BY <1>1, <2>1, <2>2 DEF TypeOK, RunState, Moves, Remains
  <2>5. Remembers(run'[r])
    BY <2>2, <2>4 DEF Moves, Remains, Story, Thread, OnPath, Remembers, HasSettled, Before,
       PIPELINE_PHASES, Publishes, Verdict
  <2>6. \A p \in PIPELINE_PHASES : run[r].phases[p] = "pending"
    BY <1>1, <2>2 DEF RunState, PhaseStatus, Settled, Story, Thread, OnPath, Remembers,
       HasSettled, Before, PIPELINE_PHASES
  <2>7. run[r].phases = NewRuntime
    BY <1>1, <2>6 DEF RunState, NewRuntime
  <2>8. Thread(run'[r])
    BY <2>4, <2>5 DEF Moves, Story, Thread
  <2>9. run[r].published = "no" /\ run[r].event = "none"
    <3>1. run[r].published = "no"
      BY <2>2, <2>6 DEF Story, Thread, OnPath, Remembers, PIPELINE_PHASES
    <3>2. log[r].status = "absent"
      BY <2>2 DEF LifeInv, LifeOf
    <3> QED BY <3>1, <3>2 DEF Story, Agrees, Own
  <2>10. Agrees(run'[r], log'[r])
    BY <2>3, <2>4, <2>7, <2>9 DEF Moves, Remains, Agrees, OnPath
  <2>11. Matches(log'[r]) /\ Prefix(log'[r].phases)
    BY <2>3, NewRuntimePrefix DEF Matches
  <2> QED BY <2>8, <2>10, <2>11 DEF Story
<1>5. CASE InitDetails(r) /\ ~Abandon(r)
  <2>1. run' = Go(r, "gitlab", "begin") /\ log' = log /\ run[r].at = "init" /\ run[r].stage = "begin"
    BY <1>5 DEF InitDetails, At
  <2>2. Moves(r, "gitlab", "begin", run[r].phases)
    BY <1>1, <2>1 DEF Go, TypeOK, RunState, Moves, Remains
  <2>3. Remembers(run'[r])
    BY <2>1, <2>2 DEF Moves, Remains, Story, Thread, OnPath, Remembers, HasSettled, Before,
       PIPELINE_PHASES, Publishes, Verdict
  <2>4. Thread(run'[r])
    BY <2>2, <2>3 DEF Moves, Story, Thread
  <2>5. Agrees(run'[r], log'[r])
    BY <2>1, <2>2 DEF Moves, Remains, Story, Agrees, OnPath
  <2> QED BY <2>1, <2>4, <2>5 DEF Story
<1> QED BY <1>2, <1>3, <1>4, <1>5

(* Preservation by the reporting steps: the phase a step settles or begins is the
   one its program counter names, and the gates of the code are those of Remembers. *)

LEMMA PhasesOf ==
  ASSUME TypeOK, NEW r \in Runs
  PROVE  /\ run[r] \in RunState /\ log[r] \in Row
         /\ run[r].phases \in [PIPELINE_PHASES -> PhaseStatus]
  BY DEF TypeOK, RunState

LEMMA BusyRow ==
  ASSUME LifeInv, NEW r \in Runs, AtWork(run[r])
  PROVE  log[r].status \in {"running", "crashed"}
  BY DEF LifeInv, LifeOf

LEMMA ReportFields ==
  ASSUME TypeOK, NEW r \in Runs, NEW phases, NEW label, NEW stage,
         Report(r, phases, label, stage), ~Raise(r, phases)
  PROVE  Moves(r, label, stage, phases) /\ Reported(r, phases)
<1>1. /\ run' = [run EXCEPT ![r] = [run[r] EXCEPT !.at = label, !.stage = stage, !.phases = phases]]
      /\ log' = [log EXCEPT ![r] = [log[r] EXCEPT !.phases = phases]]
  BY DEF Report
<1>2. Moves(r, label, stage, phases)
  BY <1>1, MoveFields
<1>3. Reported(r, phases)
  BY <1>1, PhasesOf DEF TypeOK, Row, Reported
<1> QED BY <1>2, <1>3

(* A reporting step keeps the story if what it writes does. *)
LEMMA ReportingStory ==
  ASSUME TypeOK, LifeInv, NEW r \in Runs, Story(run[r], log[r]), AtWork(run[r]),
         NEW phases \in [PIPELINE_PHASES -> PhaseStatus],
         NEW label \in PIPELINE_PHASES, NEW stage \in {"begin", "work"},
         Report(r, phases, label, stage), Prefix(phases),
         run[r].published # "no" => Gate(phases),
         Moves(r, label, stage, phases) => Remembers(run'[r])
  PROVE  Story(run'[r], log'[r])
  BY RaiseStory, ReportStory, ReportFields, BusyRow

LEMMA BeginCollectorStory ==
  ASSUME TypeOK, LifeInv, NEW r \in Runs, NEW c \in Collectors, Story(run[r], log[r]),
         BeginCollector(r, c)
  PROVE  Story(run'[r], log'[r])
<1> DEFINE phases == WithPhase(r, c, "running")
<1>1. run[r].at = c /\ run[r].stage = "begin" /\ AtWork(run[r]) /\ Remembers(run[r])
      /\ c \in PIPELINE_PHASES
  BY DEF BeginCollector, At, AtWork, Collectors, PIPELINE_PHASES, Story, Thread, OnPath
<1>2. /\ phases[c] = "running" /\ phases \in [PIPELINE_PHASES -> PhaseStatus]
      /\ \A q \in PIPELINE_PHASES \ {c} : phases[q] = run[r].phases[q]
  BY <1>1, WithPhaseValues, WithPhaseType DEF PhaseStatus
<1>3. \A p \in PIPELINE_PHASES : run[r].phases[p] \in PhaseStatus
  BY PhasesOf
<1>4. Report(r, phases, c, "work")
  BY DEF BeginCollector
<1> HIDE DEF phases
<1>5. Prefix(phases)
  BY <1>1, <1>2, <1>3 DEF Prefix, Remembers, HasSettled, Before, PIPELINE_PHASES, Collectors,
     Settled, PhaseStatus
<1>6. run[r].published = "no"
  BY <1>1, <1>3 DEF Remembers, HasSettled, Before, PIPELINE_PHASES, Collectors, Settled
<1>7. ASSUME Moves(r, c, "work", phases) PROVE Remembers(run'[r])
  BY <1>1, <1>2, <1>3, <1>6, <1>7 DEF Moves, Remains, Remembers, HasSettled, Before, PIPELINE_PHASES,
     Collectors, Settled, PhaseStatus, Publishes, Verdict
<1> QED BY <1>1, <1>2, <1>4, <1>5, <1>6, <1>7, ReportingStory

LEMMA ReportCollectorStory ==
  ASSUME TypeOK, LifeInv, NEW r \in Runs, NEW c \in Collectors, Story(run[r], log[r]),
         ReportCollector(r, c)
  PROVE  Story(run'[r], log'[r])
<1> DEFINE label == IF c = "gitlab" THEN "jira" ELSE "derivations"
<1>1. run[r].at = c /\ run[r].stage = "report" /\ AtWork(run[r]) /\ Remembers(run[r])
      /\ Prefix(run[r].phases) /\ label \in PIPELINE_PHASES
  BY DEF ReportCollector, At, AtWork, Collectors, PIPELINE_PHASES, Story, Thread, OnPath
<1>2. \A p \in PIPELINE_PHASES : run[r].phases[p] \in PhaseStatus
  BY PhasesOf
<1>3. Report(r, run[r].phases, label, "begin")
  BY DEF ReportCollector
<1>4. run[r].published = "no"
  BY <1>1, <1>2 DEF Remembers, HasSettled, Before, PIPELINE_PHASES, Collectors, Settled
<1>5. ASSUME Moves(r, label, "begin", run[r].phases) PROVE Remembers(run'[r])
  <2>1. run'[r].at = label /\ run'[r].stage = "begin"
    BY <1>5 DEF Moves
  <2>2. \A p \in PIPELINE_PHASES : HasSettled(run'[r], p) <=> HasSettled(run[r], p)
    BY <1>1, <2>1 DEF HasSettled, Before, PIPELINE_PHASES, Collectors
  <2> QED BY <1>1, <1>2, <1>5, <2>1, <2>2 DEF Moves, Remains, Remembers, PIPELINE_PHASES,
     Collectors, PhaseStatus, Publishes, Verdict
<1> HIDE DEF label
<1> QED BY <1>1, <1>3, <1>4, <1>5, PhasesOf, ReportingStory

LEMMA BeginDerivationsStory ==
  ASSUME TypeOK, LifeInv, NEW r \in Runs, Story(run[r], log[r]), BeginDerivations(r)
  PROVE  Story(run'[r], log'[r])
<1>1. /\ run[r].at = "derivations" /\ run[r].stage = "begin" /\ AtWork(run[r])
      /\ Remembers(run[r])
  BY DEF BeginDerivations, At, AtWork, PIPELINE_PHASES, Story, Thread, OnPath
<1>2. \A p \in PIPELINE_PHASES : run[r].phases[p] \in PhaseStatus
  BY PhasesOf
<1>3. PICK s \in {"running", "skipped"}, label \in {"derivations", "snapshots"}, stage \in {"begin", "work"} :
        /\ Report(r, WithPhase(r, "derivations", s), label, stage)
        /\ \/ run[r].ok = Collectors /\ s = "running" /\ label = "derivations" /\ stage = "work"
           \/ run[r].ok # Collectors /\ s = "skipped" /\ label = "snapshots" /\ stage = "begin"
  BY DEF BeginDerivations
<1> DEFINE phases == WithPhase(r, "derivations", s)
<1>4. /\ phases["derivations"] = s /\ phases \in [PIPELINE_PHASES -> PhaseStatus]
      /\ \A q \in PIPELINE_PHASES \ {"derivations"} : phases[q] = run[r].phases[q]
  BY WithPhaseValues, WithPhaseType DEF PhaseStatus, PIPELINE_PHASES
<1> HIDE DEF phases
<1>5. Prefix(phases)
  BY <1>1, <1>2, <1>4 DEF Prefix, Remembers, HasSettled, Before, PIPELINE_PHASES, Settled, PhaseStatus
<1>6. run[r].published = "no"
  BY <1>1, <1>2 DEF Remembers, HasSettled, Before, PIPELINE_PHASES, Settled
<1>7. ASSUME Moves(r, label, stage, phases) PROVE Remembers(run'[r])
  BY <1>1, <1>2, <1>3, <1>4, <1>6, <1>7 DEF Moves, Remains, Remembers, HasSettled, Before,
     PIPELINE_PHASES, Collectors, Settled, PhaseStatus, Publishes, Verdict
<1>8. label \in PIPELINE_PHASES /\ Report(r, phases, label, stage)
  BY <1>3 DEF PIPELINE_PHASES, phases
<1> QED BY <1>1, <1>4, <1>5, <1>6, <1>7, <1>8, ReportingStory

LEMMA ReportDerivationsStory ==
  ASSUME TypeOK, LifeInv, NEW r \in Runs, Story(run[r], log[r]), ReportDerivations(r)
  PROVE  Story(run'[r], log'[r])
<1>1. /\ run[r].at = "derivations" /\ run[r].stage = "report" /\ AtWork(run[r])
      /\ Remembers(run[r]) /\ Prefix(run[r].phases) /\ "snapshots" \in PIPELINE_PHASES
  BY DEF ReportDerivations, At, AtWork, PIPELINE_PHASES, Story, Thread, OnPath
<1>2. \A p \in PIPELINE_PHASES : run[r].phases[p] \in PhaseStatus
  BY PhasesOf
<1>3. Report(r, run[r].phases, "snapshots", "begin")
  BY DEF ReportDerivations
<1>4. run[r].published = "no"
  BY <1>1, <1>2 DEF Remembers, HasSettled, Before, PIPELINE_PHASES, Settled
<1>5. ASSUME Moves(r, "snapshots", "begin", run[r].phases) PROVE Remembers(run'[r])
  BY <1>1, <1>2, <1>5 DEF Moves, Remains, Remembers, HasSettled, Before,
     PIPELINE_PHASES, Collectors, Settled, PhaseStatus, Publishes, Verdict
<1> QED BY <1>1, <1>3, <1>4, <1>5, PhasesOf, ReportingStory

LEMMA BeginSnapshotsStory ==
  ASSUME TypeOK, LifeInv, NEW r \in Runs, Story(run[r], log[r]), BeginSnapshots(r)
  PROVE  Story(run'[r], log'[r])
<1>1. /\ run[r].at = "snapshots" /\ run[r].stage = "begin" /\ AtWork(run[r])
      /\ Remembers(run[r])
  BY DEF BeginSnapshots, At, AtWork, PIPELINE_PHASES, Story, Thread, OnPath
<1>2. \A p \in PIPELINE_PHASES : run[r].phases[p] \in PhaseStatus
  BY PhasesOf
<1>3. PICK s \in {"running", "skipped"}, label \in {"snapshots", "complete"}, stage \in {"begin", "work"} :
        /\ Report(r, WithPhase(r, "snapshots", s), label, stage)
        /\ \/ Publishes(run[r]) /\ s = "running" /\ label = "snapshots" /\ stage = "work"
           \/ ~Publishes(run[r]) /\ s = "skipped" /\ label = "complete" /\ stage = "begin"
  BY DEF BeginSnapshots, Publishes
<1> DEFINE phases == WithPhase(r, "snapshots", s)
<1>4. /\ phases["snapshots"] = s /\ phases \in [PIPELINE_PHASES -> PhaseStatus]
      /\ \A q \in PIPELINE_PHASES \ {"snapshots"} : phases[q] = run[r].phases[q]
  BY WithPhaseValues, WithPhaseType DEF PhaseStatus, PIPELINE_PHASES
<1> HIDE DEF phases
<1>5. Prefix(phases)
  BY <1>1, <1>2, <1>4 DEF Prefix, Remembers, HasSettled, Before, PIPELINE_PHASES, Settled, PhaseStatus
<1>6. run[r].published = "no"
  BY <1>1, <1>2 DEF Remembers, HasSettled, Before, PIPELINE_PHASES, Settled
<1>7. ASSUME Moves(r, label, stage, phases) PROVE Remembers(run'[r])
  BY <1>1, <1>2, <1>3, <1>4, <1>6, <1>7 DEF Moves, Remains, Remembers, HasSettled, Before,
     PIPELINE_PHASES, Collectors, Settled, PhaseStatus, Publishes, Verdict
<1>8. label \in PIPELINE_PHASES /\ Report(r, phases, label, stage)
  BY <1>3 DEF PIPELINE_PHASES, phases
<1> QED BY <1>1, <1>4, <1>5, <1>6, <1>7, <1>8, ReportingStory

LEMMA ReportSnapshotsStory ==
  ASSUME TypeOK, LifeInv, NEW r \in Runs, Story(run[r], log[r]), ReportSnapshots(r)
  PROVE  Story(run'[r], log'[r])
<1>1. /\ run[r].at = "snapshots" /\ run[r].stage = "report" /\ AtWork(run[r])
      /\ Remembers(run[r]) /\ Prefix(run[r].phases) /\ "complete" \in PIPELINE_PHASES
  BY DEF ReportSnapshots, At, AtWork, PIPELINE_PHASES, Story, Thread, OnPath
<1>2. \A p \in PIPELINE_PHASES : run[r].phases[p] \in PhaseStatus
  BY PhasesOf
<1>3. Report(r, run[r].phases, "complete", "begin")
  BY DEF ReportSnapshots
<1>4. run[r].published # "no" => Gate(run[r].phases)
  BY <1>1 DEF Story, Agrees
<1>5. ASSUME Moves(r, "complete", "begin", run[r].phases) PROVE Remembers(run'[r])
  BY <1>1, <1>2, <1>5 DEF Moves, Remains, Remembers, HasSettled, Before,
     PIPELINE_PHASES, Collectors, Settled, PhaseStatus, Publishes, Verdict
<1> QED BY <1>1, <1>3, <1>4, <1>5, PhasesOf, ReportingStory

-----------------------------------------------------------------------------
(* The steps that leave the row alone until the next report *)

(* A local step keeps the story if the thread stays on the path and its claims hold. *)
LEMMA LocalStory ==
  ASSUME NEW r \in Runs, Story(run[r], log[r]), log'[r] = log[r],
         OnPath(run'[r]), run'[r].stage = "report" \/ run'[r].phases = log[r].phases,
         run'[r].stage # "notify", run'[r].event = run[r].event,
         Prefix(run'[r].phases), Remembers(run'[r]),
         run'[r].published # "no" =>
            ~run'[r].derivationErrors /\ Gate(log[r].phases) /\ Gate(run'[r].phases)
  PROVE  Story(run'[r], log'[r])
  BY DEF Story, Agrees, Thread, OnPath

LEMMA CollectStory ==
  ASSUME TypeOK, NEW r \in Runs, NEW c \in Collectors, Story(run[r], log[r]), Collect(r, c)
  PROVE  Story(run'[r], log'[r])
<1>1. /\ run[r].at = c /\ run[r].stage = "work" /\ Remembers(run[r]) /\ c \in PIPELINE_PHASES
      /\ Prefix(run[r].phases)
  BY DEF Collect, At, Collectors, PIPELINE_PHASES, Story, Thread, OnPath
<1>2. \A p \in PIPELINE_PHASES : run[r].phases[p] \in PhaseStatus
  BY PhasesOf
<1>3. PICK outcome \in Settled :
        run' = [run EXCEPT ![r] =
              [run[r] EXCEPT !.stage = "report", !.phases = WithPhase(r, c, outcome),
                             !.ok = run[r].ok \cup Succeeded(c, outcome)]]
  BY DEF Collect, Settled
<1> DEFINE phases == WithPhase(r, c, outcome)
           ok == run[r].ok \cup Succeeded(c, outcome)
<1>4. phases[c] = outcome /\ \A q \in PIPELINE_PHASES \ {c} : phases[q] = run[r].phases[q]
  BY <1>1, WithPhaseValues
<1>5. \A d \in Collectors : d \in ok <=> phases[d] = "success"
  <2>1. c \notin run[r].ok
    BY <1>1 DEF Remembers
  <2>2. \A d \in Collectors \ {c} : phases[d] = run[r].phases[d]
    BY <1>4 DEF Collectors, PIPELINE_PHASES
  <2> HIDE DEF phases
  <2> QED BY <1>1, <1>4, <2>1, <2>2 DEF Remembers, Succeeded
<1>6. /\ run'[r].at = c /\ run'[r].stage = "report" /\ run'[r].phases = phases /\ run'[r].ok = ok
      /\ run'[r].derivationErrors = run[r].derivationErrors
      /\ run'[r].published = run[r].published /\ run'[r].event = run[r].event
  <2> HIDE DEF phases, ok
  <2>1. run' = [run EXCEPT ![r] = [run[r] EXCEPT !.stage = "report", !.phases = phases, !.ok = ok]]
    BY <1>3 DEF phases, ok
  <2> QED BY <1>1, <2>1, PhasesOf DEF TypeOK, RunState
<1> HIDE DEF phases, ok
<1>7. Prefix(phases)
  BY <1>1, <1>2, <1>4 DEF Prefix, Remembers, HasSettled, Before, PIPELINE_PHASES, Settled,
     PhaseStatus, Collectors
<1>8. run[r].published = "no" /\ ~run[r].derivationErrors
  BY <1>1, <1>2 DEF Remembers, HasSettled, Before, PIPELINE_PHASES, Settled, Collectors, PhaseStatus
<1>9. Remembers(run'[r])
  BY <1>1, <1>2, <1>4, <1>5, <1>6, <1>8 DEF Remembers, HasSettled, Before,
     PIPELINE_PHASES, Settled, PhaseStatus, Publishes, Verdict, Collectors
<1>10. log'[r] = log[r] /\ OnPath(run'[r])
  BY <1>6 DEF Collect, OnPath, Collectors
<1> QED BY <1>6, <1>7, <1>8, <1>9, <1>10, LocalStory

LEMMA DeriveStory ==
  ASSUME TypeOK, NEW r \in Runs, Story(run[r], log[r]), Derive(r)
  PROVE  Story(run'[r], log'[r])
<1>1. /\ run[r].at = "derivations" /\ run[r].stage = "work" /\ Remembers(run[r])
      /\ Prefix(run[r].phases) /\ OnPath(run[r])
  BY DEF Derive, At, PIPELINE_PHASES, Story, Thread, OnPath
<1>2. \A p \in PIPELINE_PHASES : run[r].phases[p] \in PhaseStatus
  BY PhasesOf
<1>3. PICK succeeds \in BOOLEAN :
        run' = [run EXCEPT ![r] =
             IF run[r].derivation < 4
               THEN [run[r] EXCEPT !.derivation = run[r].derivation + 1,
                            !.derivationErrors = run[r].derivationErrors \/ ~succeeds]
               ELSE [run[r] EXCEPT !.stage = "report",
                       !.derivationErrors = run[r].derivationErrors \/ ~succeeds,
                       !.phases = WithPhase(r, "derivations",
                          IF run[r].derivationErrors \/ ~succeeds THEN "failed" ELSE "success")]]
  BY DEF Derive
<1> DEFINE errors == run[r].derivationErrors \/ ~succeeds
           verdict == IF errors THEN "failed" ELSE "success"
           phases == WithPhase(r, "derivations", verdict)
<1>4. run[r].published = "no" /\ run[r].ok = Collectors /\ log'[r] = log[r]
  BY <1>1, <1>2 DEF Remembers, HasSettled, Before, PIPELINE_PHASES, Settled, PhaseStatus, Derive
<1>5. run[r].phases["derivations"] = "running" /\ run[r].phases["snapshots"] = "pending"
  BY <1>1, <1>2 DEF Remembers, HasSettled, Before, PIPELINE_PHASES, Settled, PhaseStatus
<1>6. CASE run[r].derivation < 4
  <2> HIDE DEF errors
  <2>1. run' = [run EXCEPT ![r] =
           [run[r] EXCEPT !.derivation = run[r].derivation + 1, !.derivationErrors = errors]]
    BY <1>3, <1>6, Zenon DEF errors
  <2>2. /\ run'[r].at = run[r].at /\ run'[r].stage = run[r].stage /\ run'[r].phases = run[r].phases
        /\ run'[r].ok = run[r].ok /\ run'[r].derivationErrors = errors
        /\ run'[r].published = run[r].published /\ run'[r].event = run[r].event
    BY <2>1, PhasesOf DEF TypeOK, RunState
  <2>3. Remembers(run'[r])
    <3>1. \A p \in PIPELINE_PHASES : HasSettled(run'[r], p) <=> HasSettled(run[r], p)
      BY <2>2 DEF HasSettled
    <3>2. run[r].phases["derivations"] = "running" /\ run[r].phases["snapshots"] = "pending"
      BY <1>5
    <3> QED BY <1>1, <1>4, <2>2, <3>1, <3>2 DEF Remembers, Settled
  <2>4. run'[r].phases = log[r].phases
    BY <1>1, <2>2 DEF Story, Agrees
  <2> QED BY <1>1, <1>4, <2>2, <2>3, <2>4, LocalStory DEF OnPath
<1>7. CASE ~(run[r].derivation < 4)
  <2>1. phases["derivations"] = verdict
        /\ \A q \in PIPELINE_PHASES \ {"derivations"} : phases[q] = run[r].phases[q]
    BY WithPhaseValues DEF PIPELINE_PHASES
  <2>2. run' = [run EXCEPT ![r] =
           [run[r] EXCEPT !.stage = "report", !.derivationErrors = errors, !.phases = phases]]
    BY <1>3, <1>7, Zenon
  <2> HIDE DEF phases
  <2>3. /\ run'[r].at = run[r].at /\ run'[r].stage = "report" /\ run'[r].phases = phases
        /\ run'[r].ok = run[r].ok /\ run'[r].derivationErrors = errors
        /\ run'[r].published = run[r].published /\ run'[r].event = run[r].event
    <3> HIDE DEF errors
    <3> QED BY <2>2, PhasesOf DEF TypeOK, RunState
  <2>4. Prefix(phases)
    BY <1>1, <1>2, <2>1 DEF Prefix, Remembers, HasSettled, Before, PIPELINE_PHASES, Settled, PhaseStatus
  <2>5. Remembers(run'[r])
    <3>1. \A p \in PIPELINE_PHASES :
             HasSettled(run'[r], p) <=> HasSettled(run[r], p) \/ p = "derivations"
      BY <1>1, <2>3 DEF HasSettled
    <3>2. verdict \in Settled /\ verdict # "running"
          /\ verdict = IF run'[r].derivationErrors THEN "failed" ELSE "success"
      BY <2>3 DEF Settled
    <3> HIDE DEF verdict, errors
    <3>3. \A p \in PIPELINE_PHASES : phases[p] \in Settled <=> HasSettled(run'[r], p)
      BY <1>1, <2>1, <3>1, <3>2 DEF Remembers
    <3>4. \A p \in PIPELINE_PHASES : phases[p] # "running"
      BY <1>1, <2>1, <3>2 DEF Remembers
    <3>5. \A c \in Collectors : c \in run[r].ok <=> phases[c] = "success"
      BY <1>1, <2>1 DEF Remembers, Collectors, PIPELINE_PHASES
    <3>6. phases["snapshots"] = "pending" /\ phases["derivations"] = verdict /\ verdict # "pending"
      BY <1>5, <2>1, <3>2 DEF PIPELINE_PHASES, Settled
    <3> QED BY <1>4, <2>3, <3>2, <3>3, <3>4, <3>5, <3>6 DEF Remembers, Verdict, Settled
  <2> QED BY <1>1, <1>4, <2>3, <2>4, <2>5, LocalStory DEF OnPath
<1> QED BY <1>6, <1>7

LEMMA RefreshStory ==
  ASSUME TypeOK, NEW r \in Runs, Story(run[r], log[r]), RefreshSnapshots(r)
  PROVE  Story(run'[r], log'[r])
<1>1. /\ run[r].at = "snapshots" /\ run[r].stage = "work" /\ Remembers(run[r])
      /\ Prefix(run[r].phases) /\ OnPath(run[r])
  BY DEF RefreshSnapshots, At, PIPELINE_PHASES, Story, Thread, OnPath
<1>2. \A p \in PIPELINE_PHASES : run[r].phases[p] \in PhaseStatus
  BY PhasesOf
<1>3. Publishes(run[r]) /\ run[r].published = "no" /\ Gate(run[r].phases)
  <2>1. Publishes(run[r]) /\ run[r].published = "no" /\ run[r].phases["derivations"] = Verdict(run[r])
    BY <1>1, <1>2 DEF Remembers, HasSettled, Before, PIPELINE_PHASES
  <2>2. run[r].ok \subseteq Collectors
    BY PhasesOf DEF RunState
  <2> QED BY <1>1, <2>1, <2>2 DEF Gate, Publishes, Verdict, Remembers
<1>4. CASE Raise(r, run[r].phases)
  BY <1>1, <1>3, <1>4, PhasesOf, RaiseStory
<1>5. CASE ~Raise(r, run[r].phases)
  <2> DEFINE phases == WithPhase(r, "snapshots", "success")
             published == IF fresh = Derivations THEN "complete" ELSE "partial"
  <2>1. run' = [run EXCEPT ![r] = [run[r] EXCEPT !.stage = "report", !.phases = phases,
                                                 !.published = published]]
    BY <1>5, Zenon DEF RefreshSnapshots
  <2>2. log'[r] = log[r] /\ published # "no"
    BY <1>5 DEF RefreshSnapshots
  <2>3. phases["snapshots"] = "success"
        /\ \A q \in PIPELINE_PHASES \ {"snapshots"} : phases[q] = run[r].phases[q]
    BY WithPhaseValues DEF PIPELINE_PHASES
  <2> HIDE DEF phases, published
  <2>4. /\ run'[r].at = run[r].at /\ run'[r].stage = "report" /\ run'[r].phases = phases
        /\ run'[r].ok = run[r].ok /\ run'[r].derivationErrors = run[r].derivationErrors
        /\ run'[r].published = published /\ run'[r].event = run[r].event
    BY <2>1, PhasesOf DEF TypeOK, RunState
  <2>5. Prefix(phases)
    BY <1>1, <1>2, <2>3 DEF Prefix, Remembers, HasSettled, Before, PIPELINE_PHASES, Settled, PhaseStatus
  <2>6. Remembers(run'[r])
    BY <1>1, <1>2, <1>3, <2>2, <2>3, <2>4 DEF Remembers, HasSettled, Before, PIPELINE_PHASES, Settled,
       PhaseStatus, Publishes, Verdict, Collectors
  <2>7. log[r].phases = run[r].phases
    BY <1>1 DEF Story, Agrees
  <2>8. Gate(phases) /\ Gate(log[r].phases) /\ ~run[r].derivationErrors
    BY <1>3, <2>3, <2>7 DEF Gate, Collectors, PIPELINE_PHASES, Publishes
  <2> QED BY <1>1, <2>2, <2>4, <2>5, <2>6, <2>8, LocalStory DEF OnPath
<1> QED BY <1>4, <1>5

-----------------------------------------------------------------------------
(* The run closes its row and announces it. *)

LEMMA OutcomeSame ==
  ASSUME TypeOK, NEW r \in Runs
  PROVE  Outcome(r) = OutcomeOf(run[r])
<1>1. run[r].ok \subseteq Collectors
  BY PhasesOf DEF RunState
<1>2. Collectors # {}
  BY DEF Collectors
<1> QED BY <1>1, <1>2 DEF Outcome, OutcomeOf

LEMMA FinishedFields ==
  ASSUME TypeOK, NEW r \in Runs, NEW status, NEW phases, NEW collectors, NEW snapshots,
         log' = Finished(r, status, phases, collectors, snapshots)
  PROVE  /\ log'[r].status = status /\ log'[r].phases = phases
         /\ log'[r].collectors = collectors /\ log'[r].snapshots = snapshots
         /\ log'[r].startedAt = log[r].startedAt /\ log'[r].finishedAt = clock
         /\ log'[r].cause = "none"
  BY PhasesOf DEF Finished, TypeOK, Row

LEMMA FinishLogStory ==
  ASSUME TypeOK, LifeInv, NEW r \in Runs, Story(run[r], log[r]), FinishLog(r)
  PROVE  Story(run'[r], log'[r])
<1> DEFINE x == run[r]
           verdict == IF OutcomeOf(x) = "failed" THEN "failed" ELSE "success"
           phases == WithPhase(r, "complete", verdict)
<1>1. /\ x.at = "complete" /\ x.stage = "begin" /\ Remembers(x) /\ AtWork(x)
      /\ Prefix(x.phases)
  BY DEF FinishLog, At, PIPELINE_PHASES, Story, Thread, OnPath, AtWork
<1>2. \A p \in PIPELINE_PHASES : x.phases[p] \in PhaseStatus
  BY PhasesOf
<1>3. /\ phases["complete"] = verdict /\ phases \in [PIPELINE_PHASES -> PhaseStatus]
      /\ \A q \in PIPELINE_PHASES \ {"complete"} : phases[q] = x.phases[q]
  BY WithPhaseValues, WithPhaseType DEF PIPELINE_PHASES, PhaseStatus
<1>4. \/ Raise(r, phases)
      \/ /\ log' = Finished(r, OutcomeOf(x), phases, x.ok, x.published # "no")
         /\ run' = [run EXCEPT ![r] = [run[r] EXCEPT !.stage = "notify", !.phases = phases]]
  BY OutcomeSame, Zenon DEF FinishLog
<1>5. /\ x.ok \subseteq Collectors /\ x.phases["derivations"] = Verdict(x)
      /\ x.phases["snapshots"] = IF Publishes(x) THEN "success" ELSE "skipped"
      /\ x.published # "no" <=> Publishes(x)
      /\ x.ok = {c \in Collectors : x.phases[c] = "success"}
  <2>1. x.ok \subseteq Collectors
    BY PhasesOf DEF RunState
  <2>2. x.phases["derivations"] = Verdict(x)
    BY <1>1 DEF Remembers, HasSettled, PIPELINE_PHASES
  <2>3. x.phases["snapshots"] = IF Publishes(x) THEN "success" ELSE "skipped"
    BY <1>1 DEF Remembers, HasSettled, PIPELINE_PHASES
  <2>4. x.published # "no" <=> Publishes(x)
    BY <1>1, <2>3 DEF Remembers
  <2> QED BY <1>1, <2>1, <2>2, <2>3, <2>4 DEF Remembers
<1>6. verdict \in {"failed", "success"} /\ (verdict = "failed" <=> OutcomeOf(x) = "failed")
  OBVIOUS
<1>7. log[r].phases = x.phases /\ (x.published # "no" => Gate(x.phases) /\ ~x.derivationErrors)
  BY <1>1 DEF Story, Agrees, OnPath
<1>8. x.event = "none"
  BY <1>1, BusyRow DEF Story, Agrees, Own
<1> HIDE DEF phases, verdict
<1>9. Prefix(phases)
  BY <1>1, <1>3 DEF Prefix, Before
<1>10. x.published # "no" => Gate(phases)
  BY <1>3, <1>7 DEF Gate, Collectors, PIPELINE_PHASES
<1>11. CASE Raise(r, phases)
  BY <1>3, <1>9, <1>10, <1>11, RaiseStory
<1>12. CASE ~Raise(r, phases)
  <2>1. /\ log'[r].status = OutcomeOf(x) /\ log'[r].phases = phases
        /\ log'[r].collectors = x.ok /\ log'[r].snapshots = (x.published # "no")
    BY <1>4, <1>12, FinishedFields
  <2>2. /\ run'[r].at = "complete" /\ run'[r].stage = "notify" /\ run'[r].phases = phases
        /\ Remains(r)
    <3>1. run' = [run EXCEPT ![r] = [run[r] EXCEPT !.stage = "notify", !.phases = phases]]
      BY <1>4, <1>12
    <3>2. run[r].at = "complete"
      BY <1>1
    <3> HIDE DEF x
    <3> QED BY <3>1, <3>2, PhasesOf DEF TypeOK, RunState, Remains
  <2>3. \A c \in Collectors : phases[c] = x.phases[c]
    BY <1>3 DEF Collectors, PIPELINE_PHASES
  <2>4. \A p \in PIPELINE_PHASES : phases[p] # "running" /\ phases[p] \in Settled
    BY <1>1, <1>2, <1>3, <1>6 DEF Remembers, HasSettled, Settled, PhaseStatus
  <2>5. \A p \in PIPELINE_PHASES : HasSettled(run'[r], p)
    BY <2>2 DEF HasSettled
  <2>6. Remembers(run'[r])
    BY <1>1, <1>3, <1>5, <2>2, <2>3, <2>4, <2>5 DEF Remembers, Remains, Verdict, Publishes,
       PIPELINE_PHASES
  <2>7. Thread(run'[r])
    BY <1>9, <2>2, <2>6 DEF Thread
  <2>8. Matches(log'[r])
    <3>1. ASSUME OutcomeOf(x) = "success" PROVE Matches(log'[r])
      <4>1. x.ok = Collectors /\ ~x.derivationErrors
        BY <3>1 DEF OutcomeOf
      <4>2. \A p \in PIPELINE_PHASES : phases[p] = "success"
        BY <1>3, <1>5, <1>6, <2>3, <3>1, <4>1 DEF PIPELINE_PHASES, Verdict, Publishes, Collectors
      <4>3. x.published # "no"
        BY <1>5, <4>1 DEF Publishes, Collectors
      <4> QED BY <2>1, <3>1, <4>1, <4>2, <4>3 DEF Matches
    <3>2. ASSUME OutcomeOf(x) = "partial_failure" PROVE Matches(log'[r])
      <4>1. x.ok # {} /\ (x.ok # Collectors \/ x.derivationErrors)
        BY <3>2 DEF OutcomeOf
      <4>2. x.derivationErrors => x.ok = Collectors
        BY <1>1 DEF Remembers
      <4>3. x.ok = {c \in Collectors : phases[c] = "success"}
        BY <1>5, <2>3
      <4>4. phases["derivations"] = IF x.ok = Collectors THEN "failed" ELSE "skipped"
        BY <1>3, <1>5, <4>1 DEF Verdict, PIPELINE_PHASES
      <4>5. (x.published # "no") <=> x.ok # Collectors
        BY <1>5, <4>1, <4>2 DEF Publishes
      <4>6. phases["complete"] = "success"
        BY <1>3, <1>6, <3>2
      <4> QED BY <2>1, <3>2, <4>1, <4>3, <4>4, <4>5, <4>6 DEF Matches
    <3>3. ASSUME OutcomeOf(x) = "failed" PROVE Matches(log'[r])
      <4>1. x.ok = {} /\ x.published = "no"
        BY <1>5, <3>3 DEF OutcomeOf, Publishes
      <4> QED BY <1>3, <1>6, <2>1, <3>3, <4>1 DEF Matches
    <3> QED BY <3>1, <3>2, <3>3 DEF OutcomeOf
  <2>9. Agrees(run'[r], log'[r])
    <3>1. OutcomeOf(run'[r]) = OutcomeOf(x)
      BY <2>2 DEF OutcomeOf, Remains
    <3> QED BY <1>7, <1>8, <1>10, <2>1, <2>2, <3>1 DEF Agrees, Remains
  <2> QED BY <1>9, <2>1, <2>7, <2>8, <2>9 DEF Story
<1> QED BY <1>11, <1>12

LEMMA NotifyStory ==
  ASSUME TypeOK, NEW r \in Runs, Story(run[r], log[r]), Notify(r) \/ HandlerNotify(r)
  PROVE  Story(run'[r], log'[r])
<1>1. CASE Notify(r)
  <2>1. run'[r] = Dead(r, EventOf(Outcome(r))) /\ log'[r] = log[r]
        /\ run[r].at = "complete" /\ run[r].stage = "notify"
    BY <1>1 DEF Notify, Stop, TypeOK, At
  <2>2. log[r].status = Outcome(r) /\ Outcome(r) \in Own
    BY <2>1, OutcomeSame, OutcomeType DEF Story, Agrees, Own
  <2> QED BY <2>1, <2>2, DeadStory
<1>2. CASE HandlerNotify(r)
  <2>1. run'[r] = Dead(r, "SYNC_COMPLETE_FAILURE") /\ log'[r] = log[r]
        /\ run[r].at = "handler" /\ run[r].stage = "notify"
    BY <1>2 DEF HandlerNotify, Stop, TypeOK, At
  <2>2. log[r].status = "failed"
    BY <2>1 DEF Story, Agrees
  <2>3. EventOf("failed") = "SYNC_COMPLETE_FAILURE"
    BY DEF EventOf
  <2> QED BY <2>1, <2>2, <2>3, DeadStory DEF Own
<1> QED BY <1>1, <1>2

LEMMA HandlerStory ==
  ASSUME TypeOK, LifeInv, NEW r \in Runs, Story(run[r], log[r]),
         HandlerReport(r) \/ HandlerFinish(r)
  PROVE  Story(run'[r], log'[r])
<1>1. /\ run[r].at = "handler" /\ run[r].stage \in {"begin", "work"} /\ AtWork(run[r])
      /\ Thread(run[r])
  BY DEF HandlerReport, HandlerFinish, At, AtWork, Story
<1>2. log[r].status \in {"running", "crashed"} /\ run[r].event = "none"
  BY <1>1, BusyRow DEF Story, Agrees, Own
<1>3. CASE Abandon(r)
  BY <1>3, AbandonStory
<1>4. CASE HandlerReport(r) /\ ~Abandon(r)
  <2>1. /\ log' = [log EXCEPT ![r] = [log[r] EXCEPT !.phases = run[r].phases]]
        /\ run' = Go(r, "handler", "work")
    BY <1>4 DEF HandlerReport
  <2>2. Moves(r, "handler", "work", run[r].phases)
    BY <2>1, PhasesOf DEF Go, TypeOK, RunState, Moves, Remains
  <2>3. Reported(r, run[r].phases)
    BY <2>1, PhasesOf DEF TypeOK, Row, Reported
  <2>4. Thread(run'[r])
    BY <1>1, <2>2 DEF Thread, Moves, OnPath
  <2>5. Matches(log'[r])
    BY <1>2, <2>3 DEF Matches, Reported
  <2>6. Agrees(run'[r], log'[r])
    BY <1>1, <1>2, <2>2, <2>3 DEF Story, Agrees, Moves, Remains, Reported, OnPath
  <2> QED BY <1>1, <2>3, <2>4, <2>5, <2>6 DEF Story, Thread, Reported
<1>5. CASE HandlerFinish(r) /\ ~Abandon(r)
  <2>1. log' = Finished(r, "failed", run[r].phases, {}, FALSE) /\ run' = Go(r, "handler", "notify")
    BY <1>5 DEF HandlerFinish
  <2>2. Moves(r, "handler", "notify", run[r].phases)
    BY <2>1, PhasesOf DEF Go, TypeOK, RunState, Moves, Remains
  <2>3. /\ log'[r].status = "failed" /\ log'[r].phases = run[r].phases
        /\ log'[r].collectors = {} /\ log'[r].snapshots = FALSE
    BY <2>1, PhasesOf DEF Finished, TypeOK, Row
  <2>4. Thread(run'[r])
    BY <1>1, <2>2 DEF Thread, Moves, OnPath
  <2>5. Matches(log'[r])
    BY <1>1, <2>3 DEF Matches, Thread
  <2>6. Agrees(run'[r], log'[r])
    BY <1>1, <1>2, <2>2, <2>3 DEF Story, Agrees, Moves, Remains, OnPath
  <2> QED BY <1>1, <2>3, <2>4, <2>5, <2>6 DEF Story, Thread
<1> QED BY <1>3, <1>4, <1>5

-----------------------------------------------------------------------------
(* Every step keeps the story of every run. *)

LEMMA RunStepStory ==
  ASSUME TypeOK, LifeInv, NEW r \in Runs, Story(run[r], log[r]), RunStep(r)
  PROVE  Story(run'[r], log'[r])
  BY PreludeStory, BeginCollectorStory, CollectStory, ReportCollectorStory,
     BeginDerivationsStory, DeriveStory, ReportDerivationsStory, BeginSnapshotsStory,
     RefreshStory, ReportSnapshotsStory, FinishLogStory, NotifyStory, HandlerStory DEF RunStep

(* What a repair changes of a row: nothing, or its status, its end and the cause. *)
Repaired(r) ==
    \/ log'[r] = log[r]
    \/ /\ log[r].status = "running" /\ log'[r].status = "crashed"
       /\ log'[r].phases = log[r].phases /\ log'[r].startedAt = log[r].startedAt
       /\ log'[r].cause # "none" /\ log'[r].finishedAt \in Nat
       /\ log[r].startedAt <= log'[r].finishedAt /\ log'[r].finishedAt <= clock

(* A row starts and ends no later than now. *)
TimesInv == RowTimes /\ \A r \in Runs : log[r].startedAt <= clock

LEMMA CrashedFields ==
  ASSUME NEW l, NEW rows, NEW at, NEW cause, NEW r \in rows, r \in Runs, l[r] \in Row
  PROVE  LET row == Crashed(l, rows, at, cause)[r] IN
         /\ row.status = "crashed" /\ row.finishedAt = at /\ row.cause = cause
         /\ row.phases = l[r].phases /\ row.startedAt = l[r].startedAt
  BY DEF Crashed, Row

LEMMA RepairFields ==
  ASSUME TypeOK, TimesInv, OrphansResolved(log'), NEW r \in Runs
  PROVE  Repaired(r)
<1> DEFINE old == {q \in RowsWith(log, "running") : log[q].startedAt + OrphanAge < clock}
           aged == Crashed(log, old, clock, "timeout")
<1>1. \A q \in Runs : /\ log[q] \in Row /\ log[q].startedAt <= clock
                      /\ log[q].startedAt \in Nat /\ clock \in Nat
  BY DEF TypeOK, Row, TimesInv
<1>2. \A q \in Runs : q \in old => log[q].status = "running"
  BY DEF RowsWith
<1>3. aged \in [Runs -> Row]
  BY CrashedType DEF TypeOK
<1> HIDE DEF old
<1>4. \A q \in Runs :
         \/ aged[q] = log[q]
         \/ /\ log[q].status = "running" /\ aged[q].status = "crashed"
            /\ aged[q].phases = log[q].phases /\ aged[q].startedAt = log[q].startedAt
            /\ aged[q].cause # "none" /\ aged[q].finishedAt = clock
  <2> TAKE q \in Runs
  <2>1. CASE q \in old
    BY <1>1, <1>2, <2>1, CrashedFields
  <2>2. CASE q \notin old
    BY <1>1, <2>2, CrashedRows
  <2> QED BY <2>1, <2>2
<1> HIDE DEF aged
<1>5. CASE log' = aged
  BY <1>1, <1>4, <1>5 DEF Repaired
<1>6. CASE \E latest \in {aged[q].finishedAt : q \in {p \in Runs : aged[p].status \in Terminal}} :
              log' = Crashed(aged, {q \in RowsWith(aged, "running") : aged[q].startedAt < latest},
                             latest, "superseded")
  <2>1. PICK p \in Runs : /\ aged[p].status \in Terminal
                          /\ log' = Crashed(aged, {q \in RowsWith(aged, "running") :
                                 aged[q].startedAt < aged[p].finishedAt}, aged[p].finishedAt, "superseded")
    BY <1>6
  <2> DEFINE latest == aged[p].finishedAt
             stale == {q \in RowsWith(aged, "running") : aged[q].startedAt < latest}
  <2>2. latest \in Nat /\ latest <= clock
    <3>1. latest \in Nat
      BY <1>3 DEF Row
    <3>2. aged[p] = log[p] => latest <= clock
      BY <2>1 DEF TimesInv, RowTimes
    <3> QED BY <1>1, <1>4, <3>1, <3>2
  <2>3. r \in stale => aged[r].status = "running" /\ aged[r].startedAt < latest
    BY DEF RowsWith
  <2>4. log' = Crashed(aged, stale, latest, "superseded") /\ aged[r] \in Row
    BY <1>3, <2>1
  <2> HIDE DEF stale, latest
  <2>5. CASE r \in stale
    <3>1. aged[r] = log[r] /\ log[r].startedAt < latest /\ log[r].status = "running"
      BY <1>4, <2>3, <2>5
    <3>2. /\ log'[r].status = "crashed" /\ log'[r].finishedAt = latest
          /\ log'[r].cause = "superseded" /\ log'[r].phases = aged[r].phases
          /\ log'[r].startedAt = aged[r].startedAt
      BY <2>4, <2>5, CrashedFields
    <3> QED BY <1>1, <2>2, <3>1, <3>2 DEF Repaired
  <2>6. CASE r \notin stale
    <3>1. log'[r] = aged[r]
      BY <2>4, <2>6, CrashedRows
    <3> QED BY <1>1, <1>4, <3>1 DEF Repaired
  <2> QED BY <2>5, <2>6
<1> QED BY <1>5, <1>6 DEF OrphansResolved, aged, old

LEMMA MarkFields ==
  ASSUME TypeOK, TimesInv, NEW i \in Instances, MarkInterrupted(i), NEW r \in Runs
  PROVE  Repaired(r)
<1>1. /\ log[r] \in Row /\ log[r].startedAt <= clock
      /\ log[r].startedAt \in Nat /\ clock \in Nat
  BY DEF TypeOK, Row, TimesInv
<1>2. r \in RowsWith(log, "running") => log[r].status = "running"
  BY DEF RowsWith
<1>3. log' = Crashed(log, RowsWith(log, "running"), clock, "interrupted")
  BY DEF MarkInterrupted
<1>4. CASE r \in RowsWith(log, "running")
  BY <1>1, <1>2, <1>3, <1>4, CrashedFields DEF Repaired
<1>5. CASE r \notin RowsWith(log, "running")
  BY <1>1, <1>3, <1>5, CrashedRows DEF Repaired
<1> QED BY <1>4, <1>5

(* RowTimes and the start of one row *)
Timed(row, now) ==
    /\ row.status \in Terminal => row.startedAt <= row.finishedAt /\ row.finishedAt <= now
    /\ row.status \in {"absent", "running"} => row.finishedAt = 0
    /\ row.status = "crashed" <=> row.cause # "none"
    /\ row.startedAt <= now

LEMMA TimedRows == TimesInv <=> \A r \in Runs : Timed(log[r], clock)
  BY DEF TimesInv, RowTimes, Timed

LEMMA TimedRowsNext == TimesInv' <=> \A r \in Runs : Timed(log'[r], clock')
  BY DEF TimesInv, RowTimes, Timed

LEMMA EffectTimes ==
  ASSUME TypeOK, TimesInv, NEW q \in Runs, Effect(q), NEW r \in Runs
  PROVE  Timed(log'[r], clock)
<1>1. Timed(log[r], clock)
  BY TimedRows
<1>2. log[r].startedAt \in Nat /\ log[r].finishedAt \in Nat /\ clock \in Nat
  BY DEF TypeOK, Row
<1>3. CASE Repairs(q)
  <2>1. Repaired(r)
    BY <1>3, RepairFields DEF Repairs
  <2> QED BY <1>1, <1>2, <2>1 DEF Repaired, Timed, Terminal
<1>4. CASE r # q /\ ~Repairs(q)
  <2>1. log'[r] = log[r]
    BY <1>4 DEF Effect, Opens, Closes, Keeps, Ends, RowsOfOthersKept
  <2> QED BY <1>1, <2>1
<1>5. CASE r = q /\ (Opens(q) \/ Closes(q) \/ Keeps(q) \/ Ends(q))
  BY <1>1, <1>2, <1>5 DEF Opens, Closes, Keeps, Ends, RowIs, Timed, Terminal
<1> QED BY <1>3, <1>4, <1>5 DEF Effect

LEMMA ProcessRows ==
  ASSUME TypeOK, TimesInv, NEW i \in Instances, ProcessStep(i), NEW r \in Runs
  PROVE  Repaired(r) /\ run' = run /\ clock' = clock
  BY RepairFields, MarkFields
     DEF ProcessStep, StartProcess, ReconcileOrphans, MarkInterrupted, Repaired

LEMMA InitTimes == Init => TimesInv
<1> SUFFICES ASSUME Init PROVE TimesInv
  OBVIOUS
<1>1. \A r \in Runs : /\ log[r].status = "absent" /\ log[r].cause = "none"
                      /\ log[r].startedAt = 0 /\ log[r].finishedAt = 0
  BY DEF Init, NoRow
<1> QED BY <1>1 DEF TimesInv, RowTimes, Terminal, Init

LEMMA NextTimes ==
  ASSUME TypeOK, TypeOK', TimesInv, [Next]_vars
  PROVE  TimesInv'
<1>1. \A r \in Runs : /\ Timed(log[r], clock) /\ clock \in Nat
                      /\ log[r].startedAt \in Nat /\ log[r].finishedAt \in Nat
  BY TimedRows DEF TypeOK, Row
<1>2. CASE UNCHANGED vars
  BY <1>1, <1>2, TimedRowsNext DEF vars
<1>3. CASE Tick
  BY <1>1, <1>3, TimedRowsNext DEF Tick, Timed
<1>4. CASE \E i \in Instances : ProcessStep(i)
  <2>1. \A r \in Runs : Repaired(r) /\ clock' = clock
    BY <1>4, ProcessRows
  <2> QED BY <1>1, <2>1, TimedRowsNext DEF Repaired, Timed, Terminal
<1>5. CASE \E i \in Instances : StopProcess(i)
  BY <1>1, <1>5, TimedRowsNext DEF StopProcess
<1>6. CASE \E i \in Instances, r \in Runs : FireSchedule(i, r) \/ TriggerManually(i, r)
  BY <1>1, <1>6, TimedRowsNext DEF FireSchedule, TriggerManually, Begin
<1>7. CASE \E r \in Runs : RunStep(r)
  <2>1. PICK q \in Runs : RunStep(q)
    BY <1>7
  <2>2. Effect(q) /\ clock' = clock
    BY <2>1, RunStepEffect, RunStepKeepsInstance
  <2> QED BY <2>2, EffectTimes, TimedRowsNext
<1> QED BY <1>2, <1>3, <1>4, <1>5, <1>6, <1>7 DEF Next

(* A row ends not before it started and not in the future, and only a row that ended
   has an end: also when a repair borrows the end of another row, and whatever
   crashes, restarts and database errors occur. *)
THEOREM RowsTimed == Spec => []RowTimes
<1>1. TypeOK /\ TypeOK' /\ TimesInv /\ [Next]_vars => TimesInv'
  BY NextTimes
<1>2. TimesInv => RowTimes
  BY DEF TimesInv
<1> QED BY InitTimes, TypeCorrect, <1>1, <1>2, PTL DEF Spec

LEMMA RepairedStory ==
  ASSUME NEW r \in Runs, Story(run[r], log[r]), run'[r] = run[r], Repaired(r)
  PROVE  Story(run'[r], log'[r])
<1>1. CASE log'[r] = log[r]
  BY <1>1
<1>2. CASE log'[r] # log[r]
  <2>1. /\ log[r].status = "running" /\ log'[r].status = "crashed"
        /\ log'[r].phases = log[r].phases
    BY <1>2 DEF Repaired
  <2>2. Matches(log'[r])
    BY <2>1 DEF Matches
  <2>3. Agrees(run'[r], log'[r])
    BY <2>1 DEF Story, Agrees, OutcomeOf, Own
  <2> QED BY <2>1, <2>2, <2>3 DEF Story
<1> QED BY <1>1, <1>2

LEMMA InitStory == Init => StoryInv
<1> SUFFICES ASSUME Init, NEW r \in Runs PROVE Story(run[r], log[r])
  BY DEF StoryInv
<1>1. /\ run[r].at = "idle" /\ run[r].stage = "begin" /\ run[r].phases = NewRuntime
      /\ run[r].ok = {} /\ run[r].derivationErrors = FALSE
      /\ run[r].published = "no" /\ run[r].event = "none"
      /\ log[r].status = "absent" /\ log[r].phases = NewRuntime
  BY DEF Init, NewRun, NoRow
<1>2. \A p \in PIPELINE_PHASES : run[r].phases[p] = "pending"
  BY <1>1 DEF NewRuntime
<1>3. Remembers(run[r])
  BY <1>1, <1>2 DEF Remembers, HasSettled, Before, Settled, PIPELINE_PHASES, Collectors
<1>4. Matches(log[r])
  BY <1>1 DEF Matches
<1>5. Agrees(run[r], log[r])
  BY <1>1 DEF Agrees
<1> QED BY <1>1, <1>3, <1>4, <1>5, NewRuntimePrefix DEF Story, Thread

LEMMA NextStory ==
  ASSUME TypeOK, TypeOK', LifeInv, TimesInv, StoryInv, [Next]_vars, NEW r \in Runs
  PROVE  Story(run'[r], log'[r])
<1>1. Story(run[r], log[r])
  BY DEF StoryInv
<1>2. CASE UNCHANGED vars
  BY <1>1, <1>2 DEF vars
<1>3. CASE Tick
  BY <1>1, <1>3 DEF Tick
<1>4. CASE \E i \in Instances : ProcessStep(i)
  BY <1>1, <1>4, ProcessRows, RepairedStory
<1>5. CASE \E i \in Instances : StopProcess(i)
  <2>1. log'[r] = log[r] /\ (run'[r] = Dead(r, "none") \/ run'[r] = run[r])
    BY <1>5 DEF StopProcess
  <2>2. CASE run'[r] = Dead(r, "none")
    BY <1>1, <2>1, <2>2, DeadStory
  <2> QED BY <1>1, <2>1, <2>2
<1>6. CASE \E i \in Instances, q \in Runs : FireSchedule(i, q) \/ TriggerManually(i, q)
  <2>1. PICK i \in Instances, q \in Runs, trigger \in Triggers : Begin(i, q, trigger)
    BY <1>6 DEF FireSchedule, TriggerManually, Triggers
  <2>2. /\ run[q].at = "idle" /\ log' = log
        /\ run' = [run EXCEPT ![q] = [run[q] EXCEPT !.at = "resolve", !.host = i, !.trigger = trigger]]
    BY <2>1 DEF Begin
  <2>3. CASE r # q
    BY <1>1, <2>2, <2>3 DEF TypeOK
  <2>4. CASE r = q
    <3>1. Moves(r, "resolve", run[r].stage, run[r].phases)
      BY <2>2, <2>4, PhasesOf DEF TypeOK, RunState, Moves, Remains
    <3>2. Remembers(run'[r])
      BY <1>1, <2>2, <2>4, <3>1 DEF Moves, Remains, Story, Thread, OnPath, Remembers, HasSettled,
         Before, PIPELINE_PHASES, Publishes, Verdict
    <3>3. Thread(run'[r])
      BY <1>1, <3>1, <3>2 DEF Moves, Story, Thread
    <3>4. Agrees(run'[r], log'[r])
      BY <1>1, <2>2, <2>4, <3>1 DEF Moves, Remains, Story, Agrees, OnPath
    <3> QED BY <1>1, <2>2, <3>3, <3>4 DEF Story
  <2> QED BY <2>3, <2>4
<1>7. CASE \E q \in Runs : RunStep(q)
  <2>1. PICK q \in Runs : RunStep(q)
    BY <1>7
  <2>2. CASE r = q
    BY <1>1, <2>1, <2>2, RunStepStory
  <2>3. CASE r # q
    <3>1. Effect(q)
      BY <2>1, RunStepEffect
    <3>2. run'[r] = run[r]
      BY <2>3, <3>1 DEF Effect, OthersKept
    <3>3. Repaired(r)
      BY <2>3, <3>1, RepairFields DEF Effect, Repairs, Opens, Closes, Keeps, Ends,
         RowsOfOthersKept, Repaired
    <3> QED BY <1>1, <3>2, <3>3, RepairedStory
  <2> QED BY <2>2, <2>3
<1> QED BY <1>2, <1>3, <1>4, <1>5, <1>6, <1>7 DEF Next

LEMMA StoryInvariant == Spec => [](TypeOK /\ LifeInv /\ TimesInv /\ StoryInv)
<1>1. TypeOK /\ TypeOK' /\ LifeInv /\ [Next]_vars => LifeInv'
  BY NextLife DEF LifeInv
<1>2. TypeOK /\ TypeOK' /\ TimesInv /\ [Next]_vars => TimesInv'
  BY NextTimes
<1>3. TypeOK /\ TypeOK' /\ LifeInv /\ TimesInv /\ StoryInv /\ [Next]_vars => StoryInv'
  BY NextStory DEF StoryInv
<1> QED BY TypeCorrect, InitLife, InitTimes, InitStory, <1>1, <1>2, <1>3, PTL DEF Spec

(* An observer of sync_log reads a prefix of the pipeline, and snapshots are published
   only behind the gate of collectors and derivations (DEVOPS-514): whatever other
   runs, repairs, raised steps and killed processes come between the commits. *)
THEOREM PhasesSound == Spec => []PhasesAreSound
<1>1. StoryInv => PhasesAreSound
  BY DEF StoryInv, Story, Agrees, Gate, Prefix, PhasesAreSound, RowIsPrefix, SnapshotsGated
<1> QED BY StoryInvariant, <1>1, PTL

(* The outcome of a run is told alike by the status of its row, by the phases stored
   in the row and by the webhook. *)
THEOREM OutcomeTold == Spec => []OutcomeIsTold
<1>1. StoryInv => OutcomeMatchesPhases
  BY DEF StoryInv, Story, Matches, OutcomeMatchesPhases, CollectorPhases
<1>2. StoryInv => WebhookMatchesRow
  BY DEF StoryInv, Story, Agrees, Own, WebhookMatchesRow
<1> QED BY StoryInvariant, <1>1, <1>2, PTL DEF OutcomeIsTold

-----------------------------------------------------------------------------
(* The documented deployment: success is published from derived data. *)

(* While no other run is alive, the results a run has computed stay fresh: those of
   the derivations behind its loop index, and all four once the phase is settled. *)
Derived(x, results) ==
    OnPath(x) =>
      /\ x.phases["derivations"] = "pending" => x.derivation = 1
      /\ x.ok = Collectors /\ ~x.derivationErrors =>
            IF x.phases["derivations"] \in Settled
              THEN results = Derivations
              ELSE \A d \in Derivations : d < x.derivation => d \in results
      /\ x.ok = Collectors => x.published # "partial"

DerivedInv ==
    \A r \in Runs : /\ Derived(run[r], fresh)
                    /\ log[r].status = "success" => run[r].published = "complete"

LEMMA OffPathDerived ==
  ASSUME NEW r \in Runs, run'[r].at \in {"handler", "stopped"}
  PROVE  Derived(run'[r], fresh')
  BY DEF Derived, OnPath

LEMMA MovesDerived ==
  ASSUME NEW r \in Runs, Derived(run[r], fresh), OnPath(run[r]), NEW label, NEW stage, NEW phases,
         Moves(r, label, stage, phases), fresh' = fresh,
         phases["derivations"] = run[r].phases["derivations"]
  PROVE  Derived(run'[r], fresh')
  BY DEF Derived, Moves, Remains

LEMMA RaiseOffPath ==
  ASSUME TypeOK, NEW r \in Runs, NEW phases, Raise(r, phases)
  PROVE  run'[r].at = "handler"
  BY PhasesOf DEF Raise, TypeOK, RunState

LEMMA ReportDerived ==
  ASSUME TypeOK, NEW r \in Runs, Derived(run[r], fresh), OnPath(run[r]),
         NEW phases, NEW label, NEW stage, Report(r, phases, label, stage),
         phases["derivations"] = run[r].phases["derivations"]
  PROVE  Derived(run'[r], fresh')
<1>1. fresh' = fresh
  BY DEF Report, Raise
<1> QED BY <1>1, RaiseOffPath, OffPathDerived, ReportFields, MovesDerived

LEMMA PreludeDerived ==
  ASSUME TypeOK, NEW r \in Runs, Derived(run[r], fresh),
         ResolveOrphans(r) \/ CreateLog(r) \/ InitDetails(r)
  PROVE  Derived(run'[r], fresh')
<1>1. OnPath(run[r]) /\ fresh' = fresh
  BY DEF ResolveOrphans, CreateLog, InitDetails, Abandon, At, OnPath
<1>2. CASE Abandon(r)
  <2>1. run'[r].at = "stopped"
    BY <1>2 DEF Abandon, TypeOK, Dead, NewRun
  <2> QED BY <2>1, OffPathDerived
<1>3. CASE ~Abandon(r)
  <2>1. \/ run' = Go(r, "create", "begin") \/ run' = Go(r, "gitlab", "begin")
        \/ \E tokens : run' = [run EXCEPT ![r] = [run[r] EXCEPT !.at = "init", !.tokens = tokens]]
    BY <1>3 DEF ResolveOrphans, CreateLog, InitDetails
  <2>2. run'[r].phases = run[r].phases /\ Remains(r)
    <3>1. CASE \E tokens : run' = [run EXCEPT ![r] = [run[r] EXCEPT !.at = "init", !.tokens = tokens]]
      BY <3>1, PhasesOf DEF TypeOK, RunState, Remains
    <3>2. CASE \E label, stage : run' = Go(r, label, stage)
      BY <3>2, PhasesOf DEF Go, TypeOK, RunState, Remains
    <3> QED BY <2>1, <3>1, <3>2
  <2> QED BY <1>1, <2>2 DEF Derived, Remains
<1> QED BY <1>2, <1>3

LEMMA CollectDerived ==
  ASSUME TypeOK, NEW r \in Runs, NEW c \in Collectors, Story(run[r], log[r]),
         Derived(run[r], fresh), Collect(r, c)
  PROVE  Derived(run'[r], fresh')
<1>1. /\ run[r].at = c /\ run[r].stage = "work" /\ Remembers(run[r]) /\ OnPath(run[r])
      /\ c \in PIPELINE_PHASES /\ c # "derivations"
  BY DEF Collect, At, Collectors, PIPELINE_PHASES, Story, Thread, OnPath
<1>2. PICK outcome :
        run' = [run EXCEPT ![r] =
              [run[r] EXCEPT !.stage = "report", !.phases = WithPhase(r, c, outcome),
                             !.ok = run[r].ok \cup Succeeded(c, outcome)]]
  BY DEF Collect
<1> DEFINE phases == WithPhase(r, c, outcome)
           ok == run[r].ok \cup Succeeded(c, outcome)
<1>3. run[r].phases["derivations"] = "pending" /\ run[r].published = "no"
  <2>1. \A p \in PIPELINE_PHASES : run[r].phases[p] \in PhaseStatus
    BY PhasesOf
  <2> QED BY <1>1, <2>1 DEF Remembers, HasSettled, Before, PIPELINE_PHASES, Settled, PhaseStatus, Collectors
<1>4. phases["derivations"] = "pending"
  BY <1>1, <1>3, WithPhaseValues DEF PIPELINE_PHASES
<1>5. run' = [run EXCEPT ![r] = [run[r] EXCEPT !.stage = "report", !.phases = phases, !.ok = ok]]
  BY <1>2
<1> HIDE DEF phases, ok
<1>6. /\ run'[r].phases = phases /\ run'[r].derivation = run[r].derivation
      /\ run'[r].published = run[r].published
  BY <1>5, PhasesOf DEF TypeOK, RunState
<1>7. run[r].derivation = 1
  BY <1>1, <1>3 DEF Derived
<1> QED BY <1>3, <1>4, <1>6, <1>7 DEF Derived, Derivations, Settled

LEMMA DeriveDerived ==
  ASSUME TypeOK, NEW r \in Runs, Story(run[r], log[r]), Derived(run[r], fresh), Derive(r)
  PROVE  Derived(run'[r], fresh')
<1>1. /\ run[r].at = "derivations" /\ run[r].stage = "work" /\ Remembers(run[r]) /\ OnPath(run[r])
  BY DEF Derive, At, PIPELINE_PHASES, Story, Thread, OnPath
<1>2. run[r].phases["derivations"] = "running" /\ run[r].published = "no"
  <2>1. \A p \in PIPELINE_PHASES : run[r].phases[p] \in PhaseStatus
    BY PhasesOf
  <2> QED BY <1>1, <2>1 DEF Remembers, HasSettled, Before, PIPELINE_PHASES, Settled, PhaseStatus
<1>3. PICK succeeds \in BOOLEAN :
        /\ fresh' = IF succeeds THEN fresh \cup {run[r].derivation} ELSE fresh
        /\ run' = [run EXCEPT ![r] =
             IF run[r].derivation < 4
               THEN [run[r] EXCEPT !.derivation = run[r].derivation + 1,
                            !.derivationErrors = run[r].derivationErrors \/ ~succeeds]
               ELSE [run[r] EXCEPT !.stage = "report",
                       !.derivationErrors = run[r].derivationErrors \/ ~succeeds,
                       !.phases = WithPhase(r, "derivations",
                          IF run[r].derivationErrors \/ ~succeeds THEN "failed" ELSE "success")]]
  BY DEF Derive
<1> DEFINE errors == run[r].derivationErrors \/ ~succeeds
           verdict == IF errors THEN "failed" ELSE "success"
           phases == WithPhase(r, "derivations", verdict)
<1>4. ~errors /\ run[r].ok = Collectors =>
         \A d \in Derivations : d <= run[r].derivation => d \in fresh'
  <2> SUFFICES ASSUME ~errors, run[r].ok = Collectors, NEW d \in Derivations, d <= run[r].derivation
               PROVE  d \in fresh'
    OBVIOUS
  <2>1. succeeds /\ ~run[r].derivationErrors
    OBVIOUS
  <2>2. d < run[r].derivation => d \in fresh
    BY <1>1, <1>2, <2>1 DEF Derived, Settled
  <2>3. run[r].derivation \in Nat /\ d \in Nat
    BY PhasesOf DEF RunState, Derivations
  <2> QED BY <1>3, <2>1, <2>2, <2>3
<1>5. run[r].derivation \in Derivations /\ fresh' \subseteq Derivations
  BY <1>3, PhasesOf DEF RunState, TypeOK
<1>6. CASE run[r].derivation < 4
  <2> HIDE DEF errors
  <2>1. run' = [run EXCEPT ![r] =
           [run[r] EXCEPT !.derivation = run[r].derivation + 1, !.derivationErrors = errors]]
    BY <1>3, <1>6, Zenon DEF errors
  <2>2. /\ run'[r].phases = run[r].phases /\ run'[r].ok = run[r].ok
        /\ run'[r].derivation = run[r].derivation + 1 /\ run'[r].derivationErrors = errors
        /\ run'[r].published = run[r].published
    BY <2>1, PhasesOf DEF TypeOK, RunState
  <2>3. \A d \in Derivations : d < run[r].derivation + 1 => d <= run[r].derivation
    BY <1>5 DEF Derivations
  <2> QED BY <1>2, <1>4, <2>2, <2>3 DEF Derived, Settled
<1>7. CASE ~(run[r].derivation < 4)
  <2>1. phases["derivations"] = verdict
    BY WithPhaseValues DEF PIPELINE_PHASES
  <2>2. run' = [run EXCEPT ![r] =
           [run[r] EXCEPT !.stage = "report", !.derivationErrors = errors, !.phases = phases]]
    BY <1>3, <1>7, Zenon
  <2>3. ~errors => phases["derivations"] \in Settled
    BY <2>1 DEF Settled
  <2>4. phases["derivations"] # "pending"
    BY <2>1
  <2> HIDE DEF phases, errors
  <2>5. /\ run'[r].phases = phases /\ run'[r].ok = run[r].ok
        /\ run'[r].derivationErrors = errors /\ run'[r].published = run[r].published
    BY <2>2, PhasesOf DEF TypeOK, RunState
  <2>6. \A d \in Derivations : d <= run[r].derivation
    BY <1>5, <1>7 DEF Derivations
  <2>7. ~errors /\ run[r].ok = Collectors => fresh' = Derivations
    BY <1>4, <1>5, <2>6
  <2> QED BY <1>2, <2>3, <2>4, <2>5, <2>7 DEF Derived
<1> QED BY <1>6, <1>7

LEMMA BeginDerivationsDerived ==
  ASSUME TypeOK, NEW r \in Runs, Story(run[r], log[r]), Derived(run[r], fresh), BeginDerivations(r)
  PROVE  Derived(run'[r], fresh')
<1>1. /\ run[r].at = "derivations" /\ run[r].stage = "begin" /\ Remembers(run[r]) /\ OnPath(run[r])
  BY DEF BeginDerivations, At, Story, Thread, OnPath
<1>2. run[r].phases["derivations"] = "pending" /\ run[r].published = "no"
  <2>1. \A p \in PIPELINE_PHASES : run[r].phases[p] \in PhaseStatus
    BY PhasesOf
  <2> QED BY <1>1, <2>1 DEF Remembers, HasSettled, Before, PIPELINE_PHASES, Settled, PhaseStatus
<1>3. run[r].derivation = 1 /\ fresh' = fresh
  BY <1>1, <1>2 DEF Derived, BeginDerivations, Report, Raise
<1>4. PICK s, label, stage :
        /\ Report(r, WithPhase(r, "derivations", s), label, stage)
        /\ s = "running" \/ (run[r].ok # Collectors /\ s = "skipped")
  BY DEF BeginDerivations
<1> DEFINE phases == WithPhase(r, "derivations", s)
<1>5. phases["derivations"] = s
  BY WithPhaseValues DEF PIPELINE_PHASES
<1>6. CASE Raise(r, phases)
  BY <1>6, RaiseOffPath, OffPathDerived
<1>7. CASE ~Raise(r, phases)
  <2>1. Moves(r, label, stage, phases)
    BY <1>4, <1>7, ReportFields
  <2> HIDE DEF phases
  <2> QED BY <1>2, <1>3, <1>4, <1>5, <2>1 DEF Moves, Remains, Derived, Settled,
       Derivations
<1> QED BY <1>6, <1>7

LEMMA RefreshDerived ==
  ASSUME TypeOK, NEW r \in Runs, Story(run[r], log[r]), Derived(run[r], fresh), RefreshSnapshots(r)
  PROVE  Derived(run'[r], fresh')
<1>1. /\ run[r].at = "snapshots" /\ run[r].stage = "work" /\ Remembers(run[r]) /\ OnPath(run[r])
      /\ fresh' = fresh
  BY DEF RefreshSnapshots, Raise, At, Story, Thread, OnPath
<1>2. CASE Raise(r, run[r].phases)
  BY <1>2, RaiseOffPath, OffPathDerived
<1>3. CASE ~Raise(r, run[r].phases)
  <2> DEFINE phases == WithPhase(r, "snapshots", "success")
             published == IF fresh = Derivations THEN "complete" ELSE "partial"
  <2>1. run' = [run EXCEPT ![r] = [run[r] EXCEPT !.stage = "report", !.phases = phases,
                                                 !.published = published]]
    BY <1>3, Zenon DEF RefreshSnapshots
  <2>2. phases["derivations"] = run[r].phases["derivations"]
    BY WithPhaseValues DEF PIPELINE_PHASES
  <2>3. run[r].phases["derivations"] \in Settled /\ ~run[r].derivationErrors
    BY <1>1 DEF Remembers, HasSettled, Before, PIPELINE_PHASES, Publishes
  <2>4. run[r].ok = Collectors => published # "partial"
    BY <1>1, <2>3 DEF Derived
  <2> HIDE DEF phases, published
  <2>5. /\ run'[r].phases = phases /\ run'[r].ok = run[r].ok
        /\ run'[r].derivation = run[r].derivation
        /\ run'[r].derivationErrors = run[r].derivationErrors /\ run'[r].published = published
    BY <2>1, PhasesOf DEF TypeOK, RunState
  <2> QED BY <1>1, <2>2, <2>4, <2>5 DEF Derived
<1> QED BY <1>2, <1>3

LEMMA RunStepDerived ==
  ASSUME TypeOK, NEW r \in Runs, Story(run[r], log[r]), Derived(run[r], fresh), RunStep(r)
  PROVE  Derived(run'[r], fresh')
<1>1. CASE ResolveOrphans(r) \/ CreateLog(r) \/ InitDetails(r)
  BY <1>1, PreludeDerived
<1>2. CASE \E c \in Collectors : BeginCollector(r, c)
  <2>1. PICK c \in Collectors : BeginCollector(r, c)
    BY <1>2
  <2>2. /\ Report(r, WithPhase(r, c, "running"), c, "work") /\ OnPath(run[r])
        /\ WithPhase(r, c, "running")["derivations"] = run[r].phases["derivations"]
    BY <2>1, WithPhaseValues DEF BeginCollector, At, OnPath, Collectors, PIPELINE_PHASES
  <2> QED BY <2>2, ReportDerived
<1>3. CASE \E c \in Collectors : Collect(r, c)
  BY <1>3, CollectDerived
<1>4. CASE \/ \E c \in Collectors : ReportCollector(r, c)
           \/ ReportDerivations(r) \/ ReportSnapshots(r)
  <2>1. PICK label : Report(r, run[r].phases, label, "begin") /\ OnPath(run[r])
    BY <1>4 DEF ReportCollector, ReportDerivations, ReportSnapshots, At, OnPath, Collectors
  <2> QED BY <2>1, ReportDerived
<1>5. CASE BeginDerivations(r)
  BY <1>5, BeginDerivationsDerived
<1>6. CASE Derive(r)
  BY <1>6, DeriveDerived
<1>7. CASE BeginSnapshots(r)
  <2>1. PICK s, label, stage : Report(r, WithPhase(r, "snapshots", s), label, stage)
    BY <1>7 DEF BeginSnapshots
  <2>2. /\ OnPath(run[r])
        /\ WithPhase(r, "snapshots", s)["derivations"] = run[r].phases["derivations"]
    BY <1>7, WithPhaseValues DEF BeginSnapshots, At, OnPath, PIPELINE_PHASES
  <2> QED BY <2>1, <2>2, ReportDerived
<1>8. CASE RefreshSnapshots(r)
  BY <1>8, RefreshDerived
<1>9. CASE FinishLog(r)
  <2> DEFINE phases == WithPhase(r, "complete", IF Outcome(r) = "failed" THEN "failed" ELSE "success")
  <2>1. \/ Raise(r, phases)
        \/ /\ run' = [run EXCEPT ![r] = [run[r] EXCEPT !.stage = "notify", !.phases = phases]]
           /\ fresh' = fresh
    BY <1>9, Zenon DEF FinishLog
  <2>2. OnPath(run[r]) /\ phases["derivations"] = run[r].phases["derivations"]
    BY <1>9, WithPhaseValues DEF FinishLog, At, OnPath, PIPELINE_PHASES
  <2> HIDE DEF phases
  <2>3. CASE Raise(r, phases)
    BY <2>3, RaiseOffPath, OffPathDerived
  <2>4. CASE ~Raise(r, phases)
    <3>1. run' = [run EXCEPT ![r] = [run[r] EXCEPT !.stage = "notify", !.phases = phases]]
      BY <2>1, <2>4
    <3>2. Moves(r, run[r].at, "notify", phases)
      BY <3>1, PhasesOf DEF TypeOK, RunState, Moves, Remains
    <3> QED BY <2>1, <2>2, <2>4, <3>2, MovesDerived
  <2> QED BY <2>3, <2>4
<1>10. CASE Notify(r) \/ HandlerNotify(r)
  <2>1. PICK event : run'[r] = Dead(r, event)
    BY <1>10 DEF Notify, HandlerNotify, Stop, TypeOK
  <2>2. run'[r].at = "stopped"
    BY <2>1 DEF Dead, NewRun
  <2> QED BY <2>2, OffPathDerived
<1>11. CASE HandlerReport(r) \/ HandlerFinish(r)
  <2>1. CASE Abandon(r)
    <3>1. run'[r].at = "stopped"
      BY <2>1 DEF Abandon, TypeOK, Dead, NewRun
    <3> QED BY <3>1, OffPathDerived
  <2>2. CASE ~Abandon(r)
    <3>1. PICK stage : run' = Go(r, "handler", stage)
      BY <1>11, <2>2 DEF HandlerReport, HandlerFinish
    <3>2. run'[r].at = "handler"
      BY <3>1, PhasesOf DEF Go, TypeOK, RunState
    <3> QED BY <3>2, OffPathDerived
  <2> QED BY <2>1, <2>2
<1> QED BY <1>1, <1>2, <1>3, <1>4, <1>5, <1>6, <1>7, <1>8, <1>9, <1>10, <1>11 DEF RunStep

(* The row of a run says success only when all its derived data were published. *)
Announced(r) == log[r].status = "success" => run[r].published = "complete"

LEMMA RunStepAnnounced ==
  ASSUME TypeOK, TypeOK', LifeInv, NEW r \in Runs, RunStep(r),
         Story(run'[r], log'[r]), Derived(run'[r], fresh'), Announced(r)
  PROVE  Announced(r)'
<1>1. Effect(r)
  BY RunStepEffect
<1>2. CASE Repairs(r)
  <2>1. log[r].status = "absent"
    BY <1>2 DEF Repairs, LifeInv, LifeOf
  <2> QED BY <1>2, <2>1, RepairedRows DEF Repairs, Announced
<1>3. CASE Opens(r)
  BY <1>3 DEF Opens, Announced
<1>4. CASE Closes(r)
  <2>1. SUFFICES ASSUME log'[r].status = "success" PROVE run'[r].published = "complete"
    BY DEF Announced
  <2>2. /\ run'[r].at = "complete" /\ run'[r].stage = "notify"
        /\ OutcomeOf(run'[r]) = "success" /\ Remembers(run'[r])
    BY <1>4, <2>1 DEF Closes, Story, Agrees, Thread, OnPath
  <2>3. run'[r].ok = Collectors /\ ~run'[r].derivationErrors
    BY <2>2 DEF OutcomeOf
  <2>4. run'[r].published # "no"
    BY <2>2, <2>3 DEF Remembers, HasSettled, Publishes, PIPELINE_PHASES, Collectors
  <2>5. run'[r].published # "partial"
    BY <2>2, <2>3 DEF Derived, OnPath
  <2>6. run'[r].published \in {"no", "partial", "complete"}
    BY DEF TypeOK, RunState
  <2> QED BY <2>4, <2>5, <2>6
<1>5. CASE Keeps(r)
  BY <1>5 DEF Keeps, LifeInv, LifeOf, Announced
<1>6. CASE Ends(r)
  BY <1>6 DEF Ends, Announced
<1> QED BY <1>1, <1>2, <1>3, <1>4, <1>5, <1>6 DEF Effect

LEMMA InitDerived == Init => DerivedInv
<1> SUFFICES ASSUME Init, NEW r \in Runs PROVE Derived(run[r], fresh) /\ Announced(r)
  BY DEF DerivedInv, Announced
<1>1. /\ run[r].phases = NewRuntime /\ run[r].ok = {} /\ run[r].derivation = 1
      /\ run[r].published = "no" /\ log[r].status = "absent"
  BY DEF Init, NewRun, NoRow
<1> QED BY <1>1 DEF Derived, Announced, Collectors

(* A thread that is not alive makes no claim about the results. *)
LEMMA RestingDerived ==
  ASSUME TypeOK, NEW r \in Runs, Story(run[r], log[r]), Derived(run[r], fresh), ~Live(r),
         NEW results
  PROVE  Derived(run[r], results)
<1>1. CASE ~OnPath(run[r])
  BY <1>1 DEF Derived
<1>2. CASE OnPath(run[r])
  <2>1. run[r].at = "idle" /\ Remembers(run[r])
    BY <1>2 DEF Live, OnPath, Story, Thread
  <2>2. run[r].ok # Collectors
    BY <2>1 DEF Remembers, HasSettled, Before, PIPELINE_PHASES, Collectors, Settled
  <2> QED BY <2>2 DEF Derived
<1> QED BY <1>1, <1>2

LEMMA NextDerived ==
  ASSUME Serial, TypeOK, TypeOK', LifeInv, TimesInv, SerialInv, StoryInv, DerivedInv, [Next]_vars,
         NEW r \in Runs
  PROVE  Derived(run'[r], fresh') /\ Announced(r)'
<1>1. Derived(run[r], fresh) /\ Announced(r) /\ Story(run[r], log[r])
  BY DEF DerivedInv, Announced, StoryInv
<1>2. CASE UNCHANGED vars
  BY <1>1, <1>2 DEF vars, Announced
<1>3. CASE Tick
  BY <1>1, <1>3 DEF Tick, Announced
<1>4. CASE \E i \in Instances : ProcessStep(i)
  <2>1. Repaired(r) /\ run' = run
    BY <1>4, ProcessRows
  <2>2. fresh' = fresh
    BY <1>4 DEF ProcessStep, StartProcess, ReconcileOrphans, MarkInterrupted
  <2> QED BY <1>1, <2>1, <2>2 DEF Repaired, Announced
<1>5. CASE \E i \in Instances : StopProcess(i)
  <2>1. log'[r] = log[r] /\ (run'[r] = Dead(r, "none") \/ run'[r] = run[r]) /\ fresh' = fresh
    BY <1>5 DEF StopProcess
  <2>2. CASE run'[r] = Dead(r, "none")
    <3>1. run'[r].at = "stopped" /\ run'[r].published = run[r].published
      BY <2>2 DEF Dead, NewRun
    <3> QED BY <1>1, <2>1, <3>1 DEF Derived, OnPath, Announced
  <2> QED BY <1>1, <2>1, <2>2 DEF Announced
<1>6. CASE \E i \in Instances, q \in Runs : FireSchedule(i, q) \/ TriggerManually(i, q)
  <2>1. PICK i \in Instances, q \in Runs, trigger \in Triggers : Begin(i, q, trigger)
    BY <1>6 DEF FireSchedule, TriggerManually, Triggers
  <2>2. /\ run[q].at = "idle" /\ log' = log /\ fresh' = fresh
        /\ run' = [run EXCEPT ![q] = [run[q] EXCEPT !.at = "resolve", !.host = i, !.trigger = trigger]]
    BY <2>1 DEF Begin
  <2>3. CASE r # q
    BY <1>1, <2>2, <2>3 DEF TypeOK, Announced
  <2>4. CASE r = q
    <3>1. run'[r].phases = run[r].phases /\ Remains(r)
      BY <2>2, <2>4, PhasesOf DEF TypeOK, RunState, Remains
    <3>2. OnPath(run[r])
      BY <2>2, <2>4 DEF OnPath
    <3> QED BY <1>1, <2>2, <3>1, <3>2 DEF Derived, Remains, Announced
  <2> QED BY <2>3, <2>4
<1>7. CASE \E q \in Runs : RunStep(q)
  <2>1. PICK q \in Runs : RunStep(q)
    BY <1>7
  <2>2. Effect(q) /\ Story(run'[q], log'[q]) /\ Story(run[q], log[q]) /\ Derived(run[q], fresh)
    BY <2>1, RunStepEffect, RunStepStory DEF StoryInv, DerivedInv
  <2>3. Derived(run'[q], fresh')
    BY <2>1, <2>2, RunStepDerived
  <2>4. CASE r = q
    BY <1>1, <2>1, <2>2, <2>3, <2>4, RunStepAnnounced
  <2>5. CASE r # q
    <3>1. run'[r] = run[r] /\ ~Live(r)
      BY <2>2, <2>5, EffectLive DEF Effect, OthersKept, SerialInv, OneRunAtATime
    <3>2. Derived(run'[r], fresh')
      BY <1>1, <3>1, RestingDerived
    <3>3. Repaired(r)
      BY <2>2, <2>5, RepairFields DEF Effect, Repairs, Opens, Closes, Keeps, Ends,
         RowsOfOthersKept, Repaired
    <3> QED BY <1>1, <3>1, <3>2, <3>3 DEF Repaired, Announced
  <2> QED BY <2>4, <2>5
<1> QED BY <1>2, <1>3, <1>4, <1>5, <1>6, <1>7 DEF Next

(* In the documented deployment a row that says success announces snapshots that were
   computed after all four derivations had caught up with the collected data. *)
THEOREM SuccessIsDerived == ASSUME Serial PROVE Spec => []SuccessPublishesDerived
<1>1. TypeOK /\ TypeOK' /\ LifeInv /\ TimesInv /\ SerialInv /\ StoryInv /\ DerivedInv /\ [Next]_vars
        => DerivedInv'
  BY NextDerived DEF DerivedInv, Announced
<1>2. DerivedInv => SuccessPublishesDerived
  BY DEF DerivedInv, SuccessPublishesDerived
<1> QED BY StoryInvariant, SerialInvariant, InitDerived, <1>1, <1>2, PTL DEF Spec

-----------------------------------------------------------------------------
(* GET /sync/status *)

(* Data freshness never moves back, in every deployment: no step makes a successful
   end forgotten, because no step rewrites the row that holds it. *)
THEOREM FreshnessIsKept == Spec => FreshnessKept
<1>1. ASSUME TypeOK, TypeOK', LifeInv, [Next]_vars
      PROVE  SuccessfulEnds \subseteq SuccessfulEnds'
  <2>1. SUFFICES ASSUME NEW r \in SuccessfulRows
                 PROVE  log[r].finishedAt \in SuccessfulEnds'
    BY DEF SuccessfulEnds
  <2>2. r \in Runs /\ log'[r] = log[r]
    BY <1>1, NextLife DEF SuccessfulRows
  <2>3. r \in SuccessfulRows'
    BY <2>2 DEF SuccessfulRows
  <2> QED BY <2>2, <2>3 DEF SuccessfulEnds
<1>2. TypeOK /\ TypeOK' /\ LifeInv /\ [Next]_vars => LifeInv'
  BY NextLife DEF LifeInv
<1>3. TypeOK /\ TypeOK' /\ LifeInv /\ [Next]_vars => [SuccessfulEnds \subseteq SuccessfulEnds']_vars
  BY <1>1
<1> QED BY InitLife, TypeCorrect, <1>2, <1>3, PTL DEF Spec, FreshnessKept

(* One process that reconciles when it starts, with a database that works; an
   administrator may still start runs by hand, and the process may die at any time. *)
OneHealthyProcess ==
    /\ "database" \notin Faults /\ SkipReconcile = {}
    /\ \A i, j \in Instances : i = j

(* A row left running by a dead thread is seen by no serving process: the process
   that died is not up again before it has marked every running row. *)
PhantomInv ==
    /\ \A r \in Runs : Live(r) => instance[run[r].host] = "up"
    /\ \A r \in Runs : log[r].status = "running" /\ ~AtWork(run[r]) => ~Serving

LEMMA InitPhantom == Init => PhantomInv
<1> SUFFICES ASSUME Init PROVE PhantomInv
  OBVIOUS
<1>1. \A r \in Runs : run[r].at = "idle" /\ log[r].status = "absent"
  BY DEF Init, NewRun, NoRow
<1> QED BY <1>1 DEF PhantomInv, Live

(* A process that is not up yet has no live run. *)
LEMMA ProcessPhantom ==
  ASSUME OneHealthyProcess, TypeOK, PhantomInv, NEW i \in Instances, ProcessStep(i)
  PROVE  PhantomInv'
<1>1. instance[i] # "up" /\ run' = run
  BY DEF ProcessStep, StartProcess, ReconcileOrphans, MarkInterrupted
<1>2. \A r \in Runs : run[r].host = i
  BY DEF OneHealthyProcess, TypeOK, RunState
<1>3. \A r \in Runs : ~Live(r)'
  BY <1>1, <1>2 DEF PhantomInv, Live
<1>4. CASE StartProcess(i) \/ ReconcileOrphans(i)
  <2>1. instance'[i] # "up"
    BY <1>4 DEF StartProcess, ReconcileOrphans, OneHealthyProcess, TypeOK
  <2>2. ~Serving'
    BY <2>1 DEF Serving, OneHealthyProcess
  <2> QED BY <1>3, <2>2 DEF PhantomInv
<1>5. CASE MarkInterrupted(i)
  <2>1. ASSUME NEW r \in Runs PROVE log'[r].status # "running"
    <3>1. log[r] \in Row /\ log' = Crashed(log, RowsWith(log, "running"), clock, "interrupted")
      BY <1>5 DEF MarkInterrupted, TypeOK
    <3>2. r \notin RowsWith(log, "running") => log[r].status # "running"
      BY DEF RowsWith
    <3> QED BY <3>1, <3>2, CrashedRows
  <2> QED BY <1>3, <2>1 DEF PhantomInv
<1> QED BY <1>4, <1>5 DEF ProcessStep

(* The process serves while a run steps: every running row has a thread at work, and
   this step keeps it so. *)
LEMMA RunPhantom ==
  ASSUME OneHealthyProcess, TypeOK, LifeInv, PhantomInv, NEW q \in Runs, Effect(q),
         instance' = instance
  PROVE  PhantomInv'
<1>1. Live(q) /\ run[q].host \in Instances
  BY EffectLive DEF TypeOK, RunState
<1>2. Serving
  BY <1>1 DEF PhantomInv, Serving
<1>3. ASSUME NEW r \in Runs, Live(r)' PROVE instance'[run'[r].host] = "up"
  <2>1. CASE r = q
    BY <1>3, <2>1, EffectLive DEF PhantomInv, SameThread
  <2>2. CASE r # q
    BY <1>3, <2>2 DEF Effect, OthersKept, PhantomInv, Live
  <2> QED BY <2>1, <2>2
<1>4. ASSUME NEW r \in Runs, log'[r].status = "running" PROVE AtWork(run'[r])
  <2>1. log[r].status = "running" => AtWork(run[r])
    BY <1>2 DEF PhantomInv
  <2>2. CASE Repairs(q)
    <3>1. log[r].status = "running"
      BY <1>4, <2>2, RepairedRows DEF Repairs
    <3>2. r # q
      BY <2>2, <3>1 DEF LifeInv, LifeOf, Repairs
    <3> QED BY <2>1, <3>1, <3>2 DEF Effect, OthersKept
  <2>3. CASE r # q /\ ~Repairs(q)
    BY <1>4, <2>1, <2>3 DEF Effect, OthersKept, RowsOfOthersKept, Opens, Closes, Keeps, Ends
  <2>4. CASE r = q /\ Opens(q)
    BY <2>4 DEF Opens, AtWork
  <2>5. CASE r = q /\ (Closes(q) \/ Keeps(q))
    BY <1>4, <2>5 DEF Closes, Keeps
  <2>6. CASE r = q /\ Ends(q)
    BY <1>4, <2>1, <2>6 DEF Ends, OneHealthyProcess, AtWork
  <2> QED BY <2>2, <2>3, <2>4, <2>5, <2>6 DEF Effect
<1> QED BY <1>3, <1>4 DEF PhantomInv

LEMMA NextPhantom ==
  ASSUME OneHealthyProcess, TypeOK, TypeOK', LifeInv, PhantomInv, [Next]_vars
  PROVE  PhantomInv'
<1>1. CASE UNCHANGED vars
  BY <1>1 DEF vars, PhantomInv, Live, Serving
<1>2. CASE Tick
  BY <1>2 DEF Tick, PhantomInv, Live, Serving
<1>3. CASE \E i \in Instances : ProcessStep(i)
  BY <1>3, ProcessPhantom
<1>4. CASE \E i \in Instances : StopProcess(i)
  <2>1. PICK i \in Instances : Dies(i)
    BY <1>4, StopDies
  <2>2. \A r \in Runs : ~Live(r)'
    BY <2>1 DEF Dies, OneHealthyProcess, TypeOK, RunState, Live
  <2>3. ~Serving'
    BY <2>1 DEF Dies, OneHealthyProcess, TypeOK, Serving
  <2> QED BY <2>2, <2>3 DEF PhantomInv
<1>5. CASE \E i \in Instances, q \in Runs : FireSchedule(i, q) \/ TriggerManually(i, q)
  <2>1. PICK i \in Instances, q \in Runs, trigger \in Triggers : Starts(i, q, trigger)
    BY <1>5, BeginStarts DEF FireSchedule, TriggerManually, Triggers
  <2>2. \A r \in Runs : Live(r)' => instance'[run'[r].host] = "up"
    BY <2>1 DEF Starts, OthersKept, PhantomInv, Live
  <2>3. log[q].status = "absent"
    BY <2>1 DEF Starts, LifeInv, LifeOf
  <2>4. \A r \in Runs : log'[r].status = "running" /\ ~AtWork(run'[r]) => ~Serving'
    BY <2>1, <2>3 DEF Starts, OthersKept, PhantomInv, Serving
  <2> QED BY <2>2, <2>4 DEF PhantomInv
<1>6. CASE \E q \in Runs : RunStep(q)
  BY <1>6, RunStepEffect, RunStepKeepsInstance, RunPhantom
<1> QED BY <1>1, <1>2, <1>3, <1>4, <1>5, <1>6 DEF Next

(* The dashboard of a single healthy process shows no phantom run, however often the
   process dies and is restarted and whoever starts the runs. *)
THEOREM NoPhantom == ASSUME OneHealthyProcess PROVE Spec => []NoPhantomRun
<1>1. TypeOK /\ TypeOK' /\ LifeInv /\ [Next]_vars => LifeInv'
  BY NextLife DEF LifeInv
<1>2. TypeOK /\ TypeOK' /\ LifeInv /\ PhantomInv /\ [Next]_vars => PhantomInv'
  BY NextPhantom
<1>3. PhantomInv => NoPhantomRun
  BY AtWorkIsWorking
     DEF PhantomInv, NoPhantomRun, ShownRunning, LatestStarted, RunningRows, RowsWith
<1> QED BY TypeCorrect, InitLife, InitPhantom, <1>1, <1>2, <1>3, PTL DEF Spec


-----------------------------------------------------------------------------
(* The run at work started after everything else happened, and a run that starts after
   a successful one starts after it has ended. *)
NewestInv ==
    /\ \A r \in Runs : AtWork(run[r]) =>
          \A q \in Runs : /\ log[q].startedAt <= log[r].startedAt
                          /\ log[q].finishedAt <= log[r].startedAt
    /\ \A q, r \in Runs : q \in SuccessfulRows /\ log[r].status # "absent" =>
          \/ log[q].finishedAt <= log[r].startedAt
          \/ log[r].startedAt <= log[q].startedAt

LEMMA InitNewest == Init => NewestInv
<1> SUFFICES ASSUME Init PROVE NewestInv
  OBVIOUS
<1>1. \A r \in Runs : run[r].at = "idle" /\ log[r].status = "absent"
  BY DEF Init, NewRun, NoRow
<1> QED BY <1>1 DEF NewestInv, AtWork, SuccessfulRows, PIPELINE_PHASES

(* A repair changes no start and no successful row. *)
LEMMA RepairedNewest ==
  ASSUME NewestInv, \A r \in Runs : Repaired(r), \A r \in Runs : ~AtWork(run'[r])
  PROVE  NewestInv'
<1>1. \A r \in Runs : /\ log'[r].startedAt = log[r].startedAt
                      /\ log'[r].status # "absent" => log[r].status # "absent"
                      /\ log'[r].status \in {"success", "partial_failure"} => log'[r] = log[r]
  BY DEF Repaired
<1> QED BY <1>1 DEF NewestInv, SuccessfulRows

LEMMA PastRows ==
  ASSUME TypeOK, TimesInv, NEW r \in Runs
  PROVE  log[r].startedAt <= clock /\ log[r].finishedAt <= clock
<1>1. log[r].status \in RowStatus /\ clock \in Nat /\ Timed(log[r], clock)
  BY TimedRows DEF TypeOK, Row
<1> QED BY <1>1 DEF Timed, Terminal, RowStatus

LEMMA RunNewest ==
  ASSUME TypeOK, TypeOK', LifeInv, TimesInv, SerialInv, NewestInv, NEW q \in Runs, Effect(q)
  PROVE  NewestInv'
<1>1. \A r \in Runs \ {q} : run'[r] = run[r] /\ ~AtWork(run'[r])
  BY EffectLive, AtWorkIsWorking DEF Effect, OthersKept, SerialInv, OneRunAtATime
<1>2. CASE Repairs(q)
  <2>1. ~AtWork(run'[q])
    BY <1>2 DEF Repairs, AtWork, PIPELINE_PHASES
  <2>2. \A r \in Runs : Repaired(r)
    BY <1>2, RepairFields DEF Repairs
  <2> QED BY <1>1, <2>1, <2>2, RepairedNewest
<1>3. CASE Opens(q)
  <2>1. \A r \in Runs : log[r].startedAt <= clock /\ log[r].finishedAt <= clock
    BY PastRows
  <2>2. /\ log'[q].startedAt = clock /\ log'[q].finishedAt = 0 /\ log'[q].status = "running"
        /\ \A r \in Runs \ {q} : log'[r] = log[r]
    BY <1>3 DEF Opens, RowIs, RowsOfOthersKept
  <2>3. clock \in Nat
    BY DEF TypeOK
  <2>4. \A p, r \in Runs : p \in SuccessfulRows' /\ log'[r].status # "absent" =>
           \/ log'[p].finishedAt <= log'[r].startedAt \/ log'[r].startedAt <= log'[p].startedAt
    BY <2>1, <2>2 DEF NewestInv, SuccessfulRows
  <2>5. \A r \in Runs : log'[r].startedAt <= log'[q].startedAt /\ log'[r].finishedAt <= log'[q].startedAt
    BY <2>1, <2>2, <2>3
  <2> QED BY <1>1, <2>4, <2>5 DEF NewestInv
<1>4. CASE Closes(q)
  <2>1. /\ ~AtWork(run'[q]) /\ log[q].status # "absent" /\ log'[q].startedAt = log[q].startedAt
        /\ \A r \in Runs \ {q} : log'[r] = log[r]
    BY <1>4 DEF Closes, RowIs, RowsOfOthersKept, AtWork, LifeInv, LifeOf
  <2>2. \A r \in Runs : log'[r].startedAt <= log'[q].startedAt
    BY <1>4, <2>1 DEF Closes, NewestInv
  <2>3. ASSUME NEW p \in SuccessfulRows', NEW r \in Runs, log'[r].status # "absent"
        PROVE  \/ log'[p].finishedAt <= log'[r].startedAt \/ log'[r].startedAt <= log'[p].startedAt
    BY <2>1, <2>2, <2>3 DEF NewestInv, SuccessfulRows
  <2>4. SuccessfulRows' \subseteq Runs
    BY DEF SuccessfulRows
  <2> QED BY <1>1, <2>1, <2>3 DEF NewestInv
<1>5. CASE Keeps(q)
  <2>1. \A r \in Runs : /\ log'[r].startedAt = log[r].startedAt /\ log'[r].status = log[r].status
                        /\ log'[r].finishedAt = log[r].finishedAt
    BY <1>5 DEF Keeps, RowIs, RowsOfOthersKept
  <2>2. \A r \in Runs : AtWork(run'[r]) => AtWork(run[r])
    BY <1>1, <1>5 DEF Keeps
  <2> QED BY <2>1, <2>2 DEF NewestInv, SuccessfulRows
<1>6. CASE Ends(q)
  <2>1. ~AtWork(run'[q]) /\ \A r \in Runs : Repaired(r)
    BY <1>6 DEF Ends, AtWork, PIPELINE_PHASES, Repaired
  <2> QED BY <1>1, <2>1, RepairedNewest
<1> QED BY <1>2, <1>3, <1>4, <1>5, <1>6 DEF Effect

LEMMA NextNewest ==
  ASSUME Serial, TypeOK, TypeOK', LifeInv, TimesInv, SerialInv, NewestInv, [Next]_vars
  PROVE  NewestInv'
<1>1. CASE UNCHANGED vars
  BY <1>1 DEF vars, NewestInv, SuccessfulRows
<1>2. CASE Tick
  BY <1>2 DEF Tick, NewestInv, SuccessfulRows
<1>3. CASE \E i \in Instances : ProcessStep(i)
  <2>1. PICK i \in Instances : ProcessStep(i)
    BY <1>3
  <2>2. run' = run /\ \A r \in Runs : Repaired(r)
    BY <2>1, ProcessRows DEF ProcessStep, StartProcess, ReconcileOrphans, MarkInterrupted
  <2>3. \A r \in Runs : Resolved(r)
    BY <2>2 DEF Repaired, Resolved
  <2>4. \A r \in Runs : ~AtWork(run'[r])
    BY <2>1, <2>2, <2>3, ProcessSerial, AtWorkIsWorking DEF Quiet
  <2> QED BY <2>2, <2>4, RepairedNewest
<1>4. CASE \E i \in Instances : StopProcess(i)
  <2>1. PICK i \in Instances : Dies(i)
    BY <1>4, StopDies
  <2>2. \A r \in Runs : ~AtWork(run'[r])
    BY <2>1 DEF Dies, Serial, TypeOK, RunState, Live, AtWork, PIPELINE_PHASES
  <2>3. \A r \in Runs : Repaired(r)
    BY <2>1 DEF Dies, Repaired
  <2> QED BY <2>2, <2>3, RepairedNewest
<1>5. CASE \E i \in Instances, q \in Runs : FireSchedule(i, q) \/ TriggerManually(i, q)
  <2>1. PICK i \in Instances, q \in Runs, trigger \in Triggers : Starts(i, q, trigger)
    BY <1>5, BeginStarts DEF FireSchedule, TriggerManually, Triggers
  <2>2. \A r \in Runs : AtWork(run'[r]) => AtWork(run[r])
    BY <2>1 DEF Starts, OthersKept, AtWork, PIPELINE_PHASES
  <2> QED BY <2>1, <2>2 DEF Starts, NewestInv, SuccessfulRows
<1>6. CASE \E q \in Runs : RunStep(q)
  BY <1>6, RunStepEffect, RunNewest
<1> QED BY <1>1, <1>2, <1>3, <1>4, <1>5, <1>6 DEF Next

(* Of finitely many rows that ended, one ended last. *)
LEMMA LastEnd ==
  ASSUME TypeOK, TimesInv, NEW rows \in SUBSET Runs, rows # {}
  PROVE  \E r \in rows : \A q \in rows : log[q].finishedAt <= log[r].finishedAt
<1> DEFINE ages == {clock - log[r].finishedAt : r \in rows}
<1>1. \A r \in rows : clock \in Nat /\ log[r].finishedAt \in Nat /\ log[r].finishedAt <= clock
  BY PastRows DEF TypeOK, Row
<1>2. ages \in SUBSET Nat /\ ages # {}
  BY <1>1
<1>3. PICK age \in ages : \A y \in ages : age <= y
  <2> HIDE DEF ages
  <2> QED BY <1>2, LeastExists
<1>4. PICK r \in rows : age = clock - log[r].finishedAt
  BY <1>3
<1>5. ASSUME NEW q \in rows PROVE log[q].finishedAt <= log[r].finishedAt
  <2>1. age <= clock - log[q].finishedAt
    BY <1>3
  <2> QED BY <1>1, <1>4, <2>1
<1> QED BY <1>5

LEMMA NewestIsShown ==
  ASSUME TypeOK, TimesInv, SerialInv, NewestInv
  PROVE  StatusIsTrue
<1>1. ASSUME NEW r \in Working PROVE r \in ShownRunning
  <2>1. r \in Runs /\ log[r].status = "running" /\ AtWork(run[r])
    BY AtWorkIsWorking DEF Working, SerialInv
  <2>2. \A q \in Runs : /\ log[q].startedAt <= log[r].startedAt
                        /\ log[q].finishedAt <= log[r].startedAt
    BY <2>1 DEF NewestInv
  <2>3. \A q \in Runs : log[q].finishedAt \in Nat /\ log[q].startedAt \in Nat
    BY DEF TypeOK, Row
  <2>4. ~Outlived(r)
    BY <2>1, <2>2, <2>3 DEF Outlived, TerminalRows
  <2>5. r \in LatestStarted(RunningRows)
    BY <2>1, <2>2 DEF LatestStarted, RunningRows, RowsWith
  <2> QED BY <2>4, <2>5 DEF ShownRunning
<1>2. WorkIsShown
  BY <1>1 DEF WorkIsShown, pipeline_in_progress
<1>3. SuccessIsLatest
  <2> SUFFICES ASSUME last_sync # {}, last_sync \subseteq SuccessfulRows
               PROVE  \E r \in last_sync : \A t \in SuccessfulEnds : t <= log[r].finishedAt
    BY DEF SuccessIsLatest
  <2>1. last_sync \subseteq TerminalRows /\ TerminalRows \subseteq Runs
        /\ SuccessfulRows \subseteq TerminalRows
    BY DEF last_sync, LatestStarted, TerminalRows, SuccessfulRows, Terminal
  <2>2. PICK r \in last_sync : \A q \in last_sync : log[q].finishedAt <= log[r].finishedAt
    BY <2>1, LastEnd
  <2>3. ASSUME NEW q \in SuccessfulRows PROVE log[q].finishedAt <= log[r].finishedAt
    <3>1. /\ log[r].startedAt \in Nat /\ log[r].finishedAt \in Nat
          /\ log[q].startedAt \in Nat /\ log[q].finishedAt \in Nat
      BY <2>1 DEF TypeOK, Row
    <3>2. log[q].startedAt <= log[r].startedAt /\ log[r].startedAt <= log[r].finishedAt
      BY <2>1 DEF last_sync, LatestStarted, TerminalRows, TimesInv, RowTimes
    <3>3. CASE log[q].startedAt = log[r].startedAt
      <4>1. q \in last_sync
        BY <2>1, <3>3 DEF last_sync, LatestStarted
      <4> QED BY <2>2, <4>1
    <3>4. CASE log[q].startedAt # log[r].startedAt
      <4>1. log[r].status # "absent"
        BY <2>1 DEF TerminalRows, Terminal
      <4>2. log[q].finishedAt <= log[r].startedAt \/ log[r].startedAt <= log[q].startedAt
        BY <2>1, <4>1 DEF NewestInv
      <4> QED BY <3>1, <3>2, <3>4, <4>2
    <3> QED BY <3>3, <3>4
  <2> QED BY <2>2, <2>3 DEF SuccessfulEnds
<1> QED BY <1>2, <1>3 DEF StatusIsTrue

(* In the documented deployment GET /sync/status tells the truth: a run at work is
   shown in progress, and when the last sync was successful no later success is hidden. *)
THEOREM StatusTrue == ASSUME Serial PROVE Spec => []StatusIsTrue
<1>1. TypeOK /\ TypeOK' /\ LifeInv /\ TimesInv /\ SerialInv /\ NewestInv /\ [Next]_vars => NewestInv'
  BY NextNewest
<1>2. TypeOK /\ TimesInv /\ SerialInv /\ NewestInv => StatusIsTrue
  BY NewestIsShown
<1> QED BY StoryInvariant, SerialInvariant, InitNewest, <1>1, <1>2, PTL DEF Spec


=============================================================================
