----------------------------- MODULE MCExecutor -----------------------------
(***************************************************************************)
(* Instances of Executor for TLC: one tenant, up to three submissions, an  *)
(* approval a1 with two targets and others with one.                       *)
(***************************************************************************)
EXTENDS Executor, TLC

CONSTANTS c1, c2, c3, a1, a2, a3, a4, t1

OneTenant == [a \in Approvals |-> t1]

MCSpend == [a \in Approvals |-> IF a = a1 THEN 91 ELSE 96]   \* "warn", "escalate"
HalfSpend == [a \in Approvals |-> 60]

MCNumTargets == [a \in Approvals |-> IF a = a1 THEN 2 ELSE 1]
OneTarget == [a \in Approvals |-> 1]

\* The calls are interchangeable until they have chosen their approval.
CallSymmetry == Permutations(Calls)
=============================================================================
