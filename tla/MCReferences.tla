---------------------------- MODULE MCReferences ----------------------------
(***************************************************************************)
(* References for TLC.  Addresses and handles are interchangeable.         *)
(***************************************************************************)
EXTENDS References, TLC

Symmetry == Permutations(Objs) \cup Permutations(Handles)
=============================================================================
