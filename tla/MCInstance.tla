----------------------------- MODULE MCInstance -----------------------------
(***************************************************************************)
(* Instance for TLC.  Liveness is checked with every caller there is, but  *)
(* only so many others call while the operations do.                       *)
(***************************************************************************)
EXTENDS Instance, TLC

CONSTANT MaxOthers  \* Cancels, Closes and Restores that are called

Symmetry == Permutations(Ops) \cup Permutations(Cancels) \cup Permutations(Restores)

FewOthers == Cardinality({c \in Callers \ Ops : pc[c] # "idle" \/ c \in expired}) <= MaxOthers

BoundedSpec == Init /\ [][Next /\ FewOthers']_vars /\ Fairness
=============================================================================
