--------------------------- MODULE MCNightlySync ---------------------------
(* Constants of the instances of NightlySync that TLC checks. *)
EXTENDS SyncStatus, TLC

AnyTokens  == {{"jira"}, Collectors}
BothTokens == {Collectors}
NoTokens   == {{}}

Symmetry == Permutations(Runs)

=============================================================================
