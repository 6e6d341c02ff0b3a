----------------------------- MODULE MCProgram ------------------------------
(***************************************************************************)
(* Program for TLC.                                                        *)
(***************************************************************************)
EXTENDS Program, TLC

Symmetry == Permutations(Runs)
=============================================================================
