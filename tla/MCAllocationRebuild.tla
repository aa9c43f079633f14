------------------------ MODULE MCAllocationRebuild ------------------------
(* Model values and bounds of the runs of AllocationRebuild. *)
EXTENDS AllocationRebuild, TLC

TwoMonths == 1..2

Symmetry == Permutations(Rebuilds)
=============================================================================
