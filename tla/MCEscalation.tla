---------------------------- MODULE MCEscalation ----------------------------
(* Instance of Escalation for TLC. *)
EXTENDS Escalation, TLC

CONSTANTS e1, e2

EvalSymmetry == Permutations(Evals)
=============================================================================
