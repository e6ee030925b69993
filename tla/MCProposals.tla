---------------------------- MODULE MCProposals ----------------------------
(***************************************************************************)
(* Instances of Proposals for TLC: one directory d with a file f below it, *)
(* and a file g beside it that both action lists write.                    *)
(***************************************************************************)
EXTENDS Proposals, TLC

MCRoot == "root"
MCPaths == {"d", "f", "g"}
MCParentOf == [x \in MCPaths |-> IF x = "f" THEN "d" ELSE "root"]
MCInitialFs == [x \in MCPaths |-> IF x = "g" THEN "v0" ELSE Absent]

MkDir(x) == [type |-> "mkdir", path |-> x, content |-> None, expected |-> None]
Write(x, v, e) == [type |-> "write", path |-> x, content |-> v, expected |-> e]

(* A tree with a file and a replacement, a replacement that breaks the     *)
(* workload, and one that does not, but targets the same file.             *)
Tree  == <<MkDir("d"), Write("f", "v1", None), Write("g", "v1", "v0")>>
Break == <<Write("g", "v2", "v0")>>
Repair == <<Write("g", "v1", "v0")>>
MCDefinitions == {Tree, Break}
MCEditions    == {Tree, Break, Repair}

MCSymmetry == Permutations(Procs) \cup Permutations(Proposals)
=============================================================================
