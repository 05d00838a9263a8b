------------------------------ MODULE MCJobs ------------------------------
(* Finite instances of Jobs for TLC. *)
EXTENDS Jobs, TLC

CONSTANTS p1, p2, p3
Symmetry == Permutations(Pids)
=============================================================================
