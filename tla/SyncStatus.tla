----------------------------- MODULE SyncStatus -----------------------------
(***************************************************************************)
(* The public view of the nightly runs: build_sync_status_response         *)
(* (services/sync_status_service.py), which GET /sync/status computes from *)
(* sync_log alone.  It cannot see the threads; what it shows is compared   *)
(* here with what they are doing.                                          *)
(***************************************************************************)
EXTENDS NightlySync

(* order_by(started_at.desc()).limit(1): any of the rows that tie *)
LatestStarted(rows) == {r \in rows : \A q \in rows : log[q].startedAt <= log[r].startedAt}

RunningRows  == RowsWith(log, "running")
TerminalRows == {r \in Runs : log[r].status \in Terminal}

(* Mutant of Outlived: <= instead of <. *)
OutlivedOrEqual(r) == \E q \in TerminalRows : log[r].startedAt <= log[q].finishedAt

(* A running row is ignored when any other row ended after it started. *)
Outlived(r) == \E q \in TerminalRows : log[r].startedAt < log[q].finishedAt

ShownRunning == {r \in LatestStarted(RunningRows) : ~Outlived(r)}

pipeline_in_progress == ShownRunning # {}

last_sync == LatestStarted(TerminalRows)

SuccessfulRows == {r \in Runs : log[r].status \in {"success", "partial_failure"}}

(* The set of end times whose maximum is last_successful_sync_at *)
SuccessfulEnds == {log[r].finishedAt : r \in SuccessfulRows}

Serving == \E i \in Instances : instance[i] = "up"

-----------------------------------------------------------------------------

(* The dashboard shows no phantom run: with a database that works, a run shown in
   progress by a serving process is one whose thread still works, however the
   process died and restarted before. *)
NoPhantomRun == Serving => ShownRunning \subseteq Working

(* A run at work is shown in progress from the moment its row exists. *)
WorkIsShown == Serving /\ Working # {} => pipeline_in_progress

(* last_sync and last_successful_sync_at agree: when the sync shown last was
   successful, no successful end is later than its own.  (Runs that start in the
   same tick tie; the newest of them is meant.) *)
SuccessIsLatest ==
    last_sync # {} /\ last_sync \subseteq SuccessfulRows =>
        \E r \in last_sync : \A t \in SuccessfulEnds : t <= log[r].finishedAt

(* The endpoint tells of the work that is done now, and of the work done last. *)
StatusIsTrue == WorkIsShown /\ SuccessIsLatest

(* Data freshness never moves back: the end of a successful run stays known. *)
FreshnessKept == [][SuccessfulEnds \subseteq SuccessfulEnds']_vars

(* "ignores stale running": a running row that the view hides is an abandoned one. *)
HiddenRowsAreStale ==
    \A r \in LatestStarted(RunningRows) : Outlived(r) => r \notin Working

=============================================================================
