------------------------- MODULE MCSnapshotRefresh -------------------------
(* Symmetry and a bound for the runs of SnapshotRefresh. *)
EXTENDS SnapshotRefresh, TLC

Symmetry == Permutations(Runs) \cup Permutations(Repositories)

(* On the first day all repositories become known at once; two runs when the day has *)
(* changed, with repositories that become known one by one.                          *)
TwoRunsAcrossDays ==
  IF today = 1 THEN known \in {{}, Repositories}
  ELSE Cardinality({j \in Runs : run[j].at # "idle"}) <= 2
=============================================================================
