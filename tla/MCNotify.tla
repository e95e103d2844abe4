------------------------------ MODULE MCNotify ------------------------------
(***************************************************************************)
(* Instances of Notify for TLC.                                            *)
(***************************************************************************)
EXTENDS Notify

CONSTANTS k1, j1, h1

Wallet == <<"wallet_depleted">>
NoRules == <<>>
=============================================================================
