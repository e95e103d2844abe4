----------------------------- MODULE MCRebalance ----------------------------
(***************************************************************************)
(* Instances of Rebalance for TLC.                                         *)
(***************************************************************************)
EXTENDS Rebalance

CONSTANTS r1, r2, d1

Move(from, to, fromBefore, toBefore, amount) ==
  [kind |-> "rebalance", from |-> from, to |-> to, fromAfter |-> fromBefore - amount,
   toAfter |-> toBefore + amount, move |-> amount, up |-> FALSE,
   shownFrom |-> NotShown, shownTo |-> NotShown]

Set(k, after, shown, up) ==
  [kind |-> "single", from |-> k, to |-> k, fromAfter |-> after, toAfter |-> after,
   move |-> 0, up |-> up, shownFrom |-> shown, shownTo |-> NotShown]

MCInitialBudget == [k \in Campaigns |-> 20]

\* Rebalances that cross and that share a campaign, one with shown values, one that
\* fits only after the first, and a single change with a shown value.
MCBodies == {Move(1, 2, 20, 20, 5), Move(2, 1, 20, 20, 5), Move(1, 2, 15, 25, 5),
             [Move(2, 3, 20, 20, 5) EXCEPT !.shownFrom = 20, !.shownTo = 20],
             Set(1, 25, 20, TRUE)}

Rebalances == {Move(1, 2, 20, 20, 5), Move(1, 3, 20, 20, 5)}
OneMove == {Move(1, 2, 20, 20, 5)}
=============================================================================
