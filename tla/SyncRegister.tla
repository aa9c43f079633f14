---------------------------- MODULE SyncRegister ----------------------------
(***************************************************************************)
(* What the nightly rows of sync_log promise to their readers (the status  *)
(* endpoint, the dashboard, the operator): a register of runs.  A row is   *)
(* opened by a run, closed once by that run, and declared crashed only     *)
(* when the run no longer works.                                           *)
(***************************************************************************)
CONSTANT Runs

VARIABLES
    status,   \* what the register says of each run
    working   \* the runs that will still close their row, if they survive

vars == <<status, working>>

Own == {"success", "partial_failure", "failed"}

Init == status = [r \in Runs |-> "absent"] /\ working = {}

Open(r) ==
    /\ status[r] = "absent"
    /\ status' = [status EXCEPT ![r] = "running"]
    /\ working' = working \cup {r}

Close(r) ==
    /\ r \in working
    /\ \E outcome \in Own : status' = [status EXCEPT ![r] = outcome]
    /\ working' = working \ {r}

(* Threads die, alone or with their process; the register does not notice. *)
Die(dead) ==
    /\ working' = working \ dead
    /\ UNCHANGED status

(* Repair touches only open rows that nobody works on. *)
Repair(rows) ==
    /\ \A r \in rows : status[r] = "running" /\ r \notin working
    /\ status' = [r \in Runs |-> IF r \in rows THEN "crashed" ELSE status[r]]
    /\ UNCHANGED working

Next ==
    \/ \E r \in Runs : Open(r) \/ Close(r)
    \/ \E dead \in SUBSET Runs : Die(dead)
    \/ \E rows \in SUBSET Runs : Repair(rows)

Spec == Init /\ [][Next]_vars

=============================================================================
