------------------------------ MODULE MCTimer ------------------------------
(* Values for the constants of Timer, and the symmetry of its jobs for the   *)
(* runs without liveness properties.                                         *)
EXTENDS Timer, TLC

CONSTANTS j1, j2

Symmetry == Permutations(Jobs)
=============================================================================
