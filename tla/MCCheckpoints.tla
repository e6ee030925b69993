--------------------------- MODULE MCCheckpoints ---------------------------
(***************************************************************************)
(* Instances of Checkpoints for TLC: one path that exists and one that     *)
(* does not, a policy that selects both, two Snapper configurations.       *)
(***************************************************************************)
EXTENDS Checkpoints, TLC

MCPaths == {"f", "g"}
MCPolicies == {<<>>, <<"f", "g">>}
MCConfigurations == <<"root", "home">>
MCInitialFs == [x \in MCPaths |-> IF x = "f" THEN "v0" ELSE Absent]

MCSymmetry == Permutations(Procs) \cup Permutations(Checkpoints)
=============================================================================
