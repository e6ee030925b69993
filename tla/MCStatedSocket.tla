--------------------------- MODULE MCStatedSocket ---------------------------
(* An instance of StatedSocket for TLC. *)
EXTENDS StatedSocket, TLC

MCSymmetry == Permutations(Daemons)
=============================================================================
