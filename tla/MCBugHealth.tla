----------------------------- MODULE MCBugHealth -----------------------------
(* Bugs with labels, for the documented label gate. *)
EXTENDS BugHealth

LabelledBugs == [labels : SUBSET {"test", "other"}, affects : {{}, {1}}, fix : {{}, {2}}, exalate : BOOLEAN,
                 customers : {{}, {"plunet", "acme"}}, parent : {None}, history : {<<>>}, embedded : {None}]
=============================================================================
