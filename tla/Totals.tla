------------------------------- MODULE Totals -------------------------------
(***************************************************************************)
(* The sum of the values of a function over a finite set: what a balance,  *)
(* a total budget or a tenant's spending is stated with.                   *)
(***************************************************************************)
EXTENDS Integers, FiniteSetsExt

Sum(f, S) == MapThenSumSet(LAMBDA x : f[x], S)
=============================================================================
