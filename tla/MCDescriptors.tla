--------------------------- MODULE MCDescriptors ----------------------------
(***************************************************************************)
(* Descriptors for TLC.  Two files and one socket per interpreter, so that *)
(* one file more than MaxHandles is asked for; three sockets or four files *)
(* in the life of an interpreter reach the last descriptor.                *)
(***************************************************************************)
EXTENDS Descriptors, TLC

Last == [files |-> 3, sockets |-> 2]
Symmetry == Permutations(Interpreters) \cup Permutations(Files)
=============================================================================
