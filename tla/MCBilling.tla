----------------------------- MODULE MCBilling ------------------------------
(***************************************************************************)
(* Instances of Billing for TLC.                                           *)
(***************************************************************************)
EXTENDS Billing

CONSTANTS s1, s2, o1, o2, k1, k2, m1

MCAmount == [o \in Orders |-> IF o = o1 THEN 1 ELSE 2]

Confirm(o, k, n) == [op |-> "confirm", order |-> o, key |-> k, amount |-> n]
Cancel(o) == [op |-> "cancel", order |-> o]
Sync(k) == [op |-> "sync", campaign |-> k]

\* Two orders, the first also with another payment key and with a wrong amount.
MCOps == {Confirm(o1, k1, 1), Confirm(o1, k2, 1), Confirm(o1, k1, 2), Confirm(o2, k1, 2),
          Cancel(o1), Sync(m1)}

OneOrder == {Confirm(o1, k1, 1), Cancel(o1), Sync(m1)}
=============================================================================
