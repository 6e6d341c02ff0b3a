----------------------------- MODULE MCHostMaps -----------------------------
(***************************************************************************)
(* HostMaps for TLC.  Callbacks and names are interchangeable.             *)
(***************************************************************************)
EXTENDS HostMaps, TLC

Symmetry == Permutations(Callbacks) \cup Permutations(Names)
=============================================================================
