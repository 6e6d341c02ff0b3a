------------------------------ MODULE MCRefIds ------------------------------
(***************************************************************************)
(* RefIds for TLC.  OneHandleKept keeps only the behaviours in which the   *)
(* holder `kept' acquires first and never gives its own id back.           *)
(***************************************************************************)
EXTENDS RefIds, TLC

CONSTANT kept

OneHandleKept == slots = <<>> \/ held[kept].used

Symmetry == Permutations(Holders) \cup Permutations(Objs)
=============================================================================
