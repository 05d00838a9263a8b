---------------------------- MODULE MCEvaluator ----------------------------
(* Finite instances of Evaluator for TLC. *)
EXTENDS Evaluator
=============================================================================
