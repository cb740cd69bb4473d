--------------------------- MODULE MCSessionLease ---------------------------
(* Model-checking instances of SessionLease.                               *)
EXTENDS SessionLease, TLC

Symmetry == Permutations(Worker)
=============================================================================
