------------------------------ MODULE Billing -------------------------------
(***************************************************************************)
(* The credit account of one organisation: BillingService.confirm() and    *)
(* cancel() against Toss Payments, and the settlement of sync_campaign()   *)
(* through record_spend().  There is no lock and no transaction over two   *)
(* calls: every repository call and every Toss call is an await at which   *)
(* another request may run, and at which the process may die.              *)
(*                                                                         *)
(* The ledger is append-only and the balance is the sum of its deltas, so  *)
(* it is kept as the number of CHARGE and REFUND entries of each order and *)
(* the SPEND total of each campaign.                                       *)
(***************************************************************************)
EXTENDS Integers, FiniteSets, Totals

CONSTANTS
  Slots,           \* requests that may be in progress at the same time
  Orders, Amount,  \* [Orders -> Nat \ {0}]
  Keys,            \* payment keys of the Toss widget
  Campaigns,
  Ops,             \* what clients may ask for
  MaxRequests,     \* bound on the requests of a run
  MaxReported,     \* bound on the spend Meta reports for a campaign
  MaxLosses,       \* bound on Toss answers lost after Toss has acted
  MaxCrashes       \* bound on requests that die at an await

NoKey == "no key"
Unpaid == [key |-> NoKey, amount |-> 0]

ConfirmOps == [op : {"confirm"}, order : Orders, key : Keys, amount : Nat \ {0}]
CancelOps == [op : {"cancel"}, order : Orders]
SyncOps == [op : {"sync"}, campaign : Campaigns]

ASSUME BillingAssumption ==
  /\ Amount \in [Orders -> Nat \ {0}]
  /\ NoKey \notin Keys
  /\ Ops \subseteq ConfirmOps \cup CancelOps \cup SyncOps
  /\ {MaxRequests, MaxReported, MaxLosses, MaxCrashes} \subseteq Nat

\* The tables are finite.
ASSUME FinitelyMany == IsFiniteSet(Orders) /\ IsFiniteSet(Campaigns)

VARIABLES
  order,       \* payment_orders: status and payment_key of each order
  charges,     \* CHARGE entries of each order in credit_ledger
  refunds,     \* REFUND entries of each order
  spend,       \* sum of the SPEND entries of each campaign
  paid,        \* what Toss has approved under each order id
  cancelled,   \* orders whose payment Toss has cancelled
  reported,    \* cumulative spend Meta reports for each campaign
  pc,          \* the await each request is suspended at
  op,          \* what each request asks for
  seen,        \* the order as each request has loaded it
  num,         \* the number each request carries from one await to the next
  wire,        \* what Toss did with the request's call
  issued, losses, crashes,
  overlapped   \* have two requests ever been in progress together?

tables == <<order, charges, refunds, spend>>
outside == <<paid, cancelled, reported>>
counters == <<issued, losses, crashes, overlapped>>
vars == <<order, charges, refunds, spend, paid, cancelled, reported,
          pc, op, seen, num, wire, issued, losses, crashes, overlapped>>

Init ==
  /\ order = [o \in Orders |-> [status |-> "absent", key |-> NoKey]]
  /\ charges = [o \in Orders |-> 0]
  /\ refunds = [o \in Orders |-> 0]
  /\ spend = [k \in Campaigns |-> 0]
  /\ paid = [o \in Orders |-> Unpaid]
  /\ cancelled = {}
  /\ reported = [k \in Campaigns |-> 0]
  /\ pc = [r \in Slots |-> "idle"]
  /\ op = [r \in Slots |-> CHOOSE x \in Ops : TRUE]
  /\ seen = [r \in Slots |-> [status |-> "absent", key |-> NoKey]]
  /\ num = [r \in Slots |-> 0]
  /\ wire = [r \in Slots |-> "sent"]
  /\ issued = 0 /\ losses = 0 /\ crashes = 0
  /\ overlapped = FALSE

\* balance(): the sum of the deltas.
Balance ==
  Sum([o \in Orders |-> Amount[o] * (charges[o] - refunds[o])], Orders) - Sum(spend, Campaigns)

-----------------------------------------------------------------------------
(* Requests.                                                               *)

Goto(r, p) == pc' = [pc EXCEPT ![r] = p]

Idle == [status |-> "absent", key |-> NoKey]

\* The request returns or raises; what it carried is gone.
Return(r) ==
  /\ Goto(r, "idle")
  /\ seen' = [seen EXCEPT ![r] = Idle]
  /\ num' = [num EXCEPT ![r] = 0]
  /\ wire' = [wire EXCEPT ![r] = "sent"]

\* create_order()
Create(o) ==
  /\ order[o].status = "absent"
  /\ order' = [order EXCEPT ![o].status = "ready"]
  /\ UNCHANGED <<charges, refunds, spend, outside, pc, op, seen, num, wire, counters>>

Arrive(r, x) ==
  /\ pc[r] = "idle"
  /\ issued < MaxRequests
  /\ Goto(r, IF x.op = "sync" THEN "metrics" ELSE "loading")
  /\ op' = [op EXCEPT ![r] = x]
  /\ issued' = issued + 1
  /\ overlapped' = (overlapped \/ \E s \in Slots : pc[s] # "idle")
  /\ UNCHANGED <<tables, outside, seen, num, wire, losses, crashes>>

-----------------------------------------------------------------------------
(* confirm()                                                               *)

\* Mutant: the amount the client sends is not compared with the order.
AmountTrusted(x, o) == o.status \in {"ready", "failed"}

\* Mutant: only the amount is compared, whatever the order's status.
StatusIgnored(x, o) == o.status # "absent" /\ x.amount = Amount[x.order]

\* An order that is done or canceled is answered without calling Toss; a failed
\* one may be confirmed again.
Confirmable(x, o) == o.status \in {"ready", "failed"} /\ x.amount = Amount[x.order]

LoadToConfirm(r) ==
  LET o == order[op[r].order] IN
  /\ pc[r] = "loading"
  /\ op[r].op = "confirm"
  /\ IF Confirmable(op[r], o)
     THEN /\ Goto(r, "confirming")
          /\ seen' = [seen EXCEPT ![r] = o]
          /\ UNCHANGED <<num, wire>>
     ELSE Return(r)
  /\ UNCHANGED <<tables, outside, op, counters>>

\* Toss approves a payment; an order id is approved once.
TossApproves(r) ==
  LET x == op[r] IN
  /\ pc[r] = "confirming"
  /\ wire[r] = "sent"
  /\ paid[x.order] = Unpaid
  /\ paid' = [paid EXCEPT ![x.order] = [key |-> x.key, amount |-> x.amount]]
  /\ wire' = [wire EXCEPT ![r] = "applied"]
  /\ UNCHANGED <<tables, cancelled, reported, pc, op, seen, num, counters>>

ConfirmSucceeds(r) ==
  /\ pc[r] = "confirming"
  /\ wire[r] = "applied"
  /\ Goto(r, "savingDone")
  /\ UNCHANGED <<tables, outside, op, seen, num, wire, counters>>

\* A refusal, or an answer that is lost although Toss has acted.
LosesAnswer(r) ==
  \/ wire[r] = "sent" /\ UNCHANGED losses
  \/ wire[r] = "applied" /\ losses < MaxLosses /\ losses' = losses + 1

\* PaymentConfirmError: the order will be saved as FAILED.
ConfirmFails(r) ==
  /\ pc[r] = "confirming"
  /\ LosesAnswer(r)
  /\ Goto(r, "savingFailed")
  /\ UNCHANGED <<tables, outside, op, seen, num, wire, issued, crashes, overlapped>>

\* save() merges the whole row as the request has it in hand.
SaveFailed(r) ==
  /\ pc[r] = "savingFailed"
  /\ order' = [order EXCEPT ![op[r].order] = [status |-> "failed", key |-> seen[r].key]]
  /\ Return(r)
  /\ UNCHANGED <<charges, refunds, spend, outside, op, counters>>

SaveDone(r) ==
  /\ pc[r] = "savingDone"
  /\ order' = [order EXCEPT ![op[r].order] = [status |-> "done", key |-> op[r].key]]
  /\ Goto(r, "appendCharge")
  /\ UNCHANGED <<charges, refunds, spend, outside, op, seen, num, wire, counters>>

AppendCharge(r) ==
  /\ pc[r] = "appendCharge"
  /\ charges' = [charges EXCEPT ![op[r].order] = @ + 1]
  /\ Return(r)
  /\ UNCHANGED <<order, refunds, spend, outside, op, counters>>

-----------------------------------------------------------------------------
(* cancel()                                                                *)

LoadToCancel(r) ==
  LET o == order[op[r].order] IN
  /\ pc[r] = "loading"
  /\ op[r].op = "cancel"
  /\ IF o.status = "done" /\ o.key # NoKey
     THEN /\ Goto(r, "checking")
          /\ seen' = [seen EXCEPT ![r] = o]
          /\ UNCHANGED <<num, wire>>
     ELSE Return(r)
  /\ UNCHANGED <<tables, outside, op, counters>>

\* The credits of the order must not have been spent.
CheckBalance(r) ==
  /\ pc[r] = "checking"
  /\ IF Balance < Amount[op[r].order]
     THEN Return(r)
     ELSE Goto(r, "cancelling") /\ UNCHANGED <<seen, num, wire>>
  /\ UNCHANGED <<tables, outside, op, counters>>

\* Toss cancels; the idempotency key makes a second cancel of the order the same.
TossCancels(r) ==
  /\ pc[r] = "cancelling"
  /\ wire[r] = "sent"
  /\ cancelled' = cancelled \cup {op[r].order}
  /\ wire' = [wire EXCEPT ![r] = "applied"]
  /\ UNCHANGED <<tables, paid, reported, pc, op, seen, num, counters>>

CancelSucceeds(r) ==
  /\ pc[r] = "cancelling"
  /\ wire[r] = "applied"
  /\ Goto(r, "savingCanceled")
  /\ UNCHANGED <<tables, outside, op, seen, num, wire, counters>>

\* PaymentCancelError: nothing is written.
CancelFails(r) ==
  /\ pc[r] = "cancelling"
  /\ LosesAnswer(r)
  /\ Return(r)
  /\ UNCHANGED <<tables, outside, op, issued, crashes, overlapped>>

\* Mutant: the order is marked and the refund never booked.
SaveCanceledReturns(r) ==
  /\ pc[r] = "savingCanceled"
  /\ order' = [order EXCEPT ![op[r].order] = [status |-> "canceled", key |-> seen[r].key]]
  /\ Return(r)
  /\ UNCHANGED <<charges, refunds, spend, outside, op, counters>>

SaveCanceled(r) ==
  /\ pc[r] = "savingCanceled"
  /\ order' = [order EXCEPT ![op[r].order] = [status |-> "canceled", key |-> seen[r].key]]
  /\ Goto(r, "appendRefund")
  /\ UNCHANGED <<charges, refunds, spend, outside, op, seen, num, wire, counters>>

AppendRefund(r) ==
  /\ pc[r] = "appendRefund"
  /\ refunds' = [refunds EXCEPT ![op[r].order] = @ + 1]
  /\ Return(r)
  /\ UNCHANGED <<order, charges, spend, outside, op, counters>>

-----------------------------------------------------------------------------
(* sync_campaign() and record_spend()                                      *)

\* The campaign goes on spending at Meta.
MetaSpends(k) ==
  /\ reported[k] < MaxReported
  /\ reported' = [reported EXCEPT ![k] = @ + 1]
  /\ UNCHANGED <<tables, paid, cancelled, pc, op, seen, num, wire, counters>>

ReadMetrics(r) ==
  /\ pc[r] = "metrics"
  /\ num' = [num EXCEPT ![r] = reported[op[r].campaign]]
  /\ Goto(r, "spentFor")
  /\ UNCHANGED <<tables, outside, op, seen, wire, counters>>

\* Mutant: the whole reported spend is charged each time, not the increment.
ChargeCumulative(r) ==
  /\ pc[r] = "spentFor"
  /\ Goto(r, "available")
  /\ UNCHANGED <<tables, outside, op, seen, num, wire, counters>>

\* spent_for(): only the increment is due.
ReadSpent(r) ==
  LET due == num[r] - spend[op[r].campaign] IN
  /\ pc[r] = "spentFor"
  /\ IF due > 0
     THEN /\ Goto(r, "available")
          /\ num' = [num EXCEPT ![r] = due]
          /\ UNCHANGED <<seen, wire>>
     ELSE Return(r)
  /\ UNCHANGED <<tables, outside, op, counters>>

\* The charge is cut to the balance.
ReadAvailable(r) ==
  LET amount == IF num[r] < Balance THEN num[r] ELSE Balance IN
  /\ pc[r] = "available"
  /\ IF amount > 0
     THEN /\ Goto(r, "recording")
          /\ num' = [num EXCEPT ![r] = amount]
          /\ UNCHANGED <<seen, wire>>
     ELSE Return(r)
  /\ UNCHANGED <<tables, outside, op, counters>>

\* record_spend() checks the balance again.
CheckSpend(r) ==
  /\ pc[r] = "recording"
  /\ IF num[r] > Balance
     THEN Return(r)
     ELSE Goto(r, "appendSpend") /\ UNCHANGED <<seen, num, wire>>
  /\ UNCHANGED <<tables, outside, op, counters>>

AppendSpend(r) ==
  /\ pc[r] = "appendSpend"
  /\ spend' = [spend EXCEPT ![op[r].campaign] = @ + num[r]]
  /\ Return(r)
  /\ UNCHANGED <<order, charges, refunds, outside, op, counters>>

-----------------------------------------------------------------------------
\* The request dies at an await: an exception, or the process.
Crash(r) ==
  /\ pc[r] # "idle"
  /\ crashes < MaxCrashes
  /\ crashes' = crashes + 1
  /\ Return(r)
  /\ UNCHANGED <<tables, outside, op, issued, losses, overlapped>>

Continue(r) ==
  \/ LoadToConfirm(r) \/ TossApproves(r) \/ ConfirmSucceeds(r) \/ ConfirmFails(r)
  \/ SaveFailed(r) \/ SaveDone(r) \/ AppendCharge(r)
  \/ LoadToCancel(r) \/ CheckBalance(r) \/ TossCancels(r) \/ CancelSucceeds(r)
  \/ CancelFails(r) \/ SaveCanceled(r) \/ AppendRefund(r)
  \/ ReadMetrics(r) \/ ReadSpent(r) \/ ReadAvailable(r) \/ CheckSpend(r) \/ AppendSpend(r)

Next ==
  \/ \E o \in Orders : Create(o)
  \/ \E r \in Slots : (\E x \in Ops : Arrive(r, x)) \/ Continue(r) \/ Crash(r)
  \/ \E k \in Campaigns : MetaSpends(k)

Spec == Init /\ [][Next]_vars

-----------------------------------------------------------------------------
(* Properties.                                                             *)

\* Every variable keeps its type.
TypeOK ==
  /\ \A o \in Orders :
       /\ order[o].status \in {"absent", "ready", "done", "failed", "canceled"}
       /\ order[o].key \in Keys \cup {NoKey}
       /\ paid[o].key \in Keys \cup {NoKey} /\ paid[o].amount \in Nat
  /\ charges \in [Orders -> Nat] /\ refunds \in [Orders -> Nat]
  /\ spend \in [Campaigns -> Nat] /\ reported \in [Campaigns -> Nat]
  /\ cancelled \subseteq Orders
  /\ op \in [Slots -> Ops]
  /\ num \in [Slots -> Nat]
  /\ wire \in [Slots -> {"sent", "applied"}]
  /\ issued \in 0..MaxRequests /\ losses \in 0..MaxLosses /\ crashes \in 0..MaxCrashes
  /\ overlapped \in BOOLEAN

\* However requests overlap, die or lose answers: an order is charged at most once
\* and for the amount Toss took, and refunded only if Toss gave the money back.
LedgerBackedByToss ==
  \A o \in Orders :
    /\ charges[o] <= 1
    /\ charges[o] = 1 => paid[o].amount = Amount[o]
    /\ refunds[o] > 0 => o \in cancelled

AtRest == \A r \in Slots : pc[r] = "idle"

\* If no request died and no answer was lost, then once all requests have returned
\* - overlapping or not - every payment Toss took is credited, and every payment
\* Toss gave back is debited.
MoneyIsBooked ==
  AtRest /\ crashes = 0 /\ losses = 0 =>
    \A o \in Orders :
      /\ paid[o] # Unpaid => charges[o] = 1
      /\ o \in cancelled => refunds[o] >= 1

\* The balance is never negative.
BalanceNeverNegative == Balance >= 0

RefundedOnce == \A o \in Orders : refunds[o] <= 1
SpendWithinReported == \A k \in Campaigns : spend[k] <= reported[k]

\* A FAILED order has left no trace in the ledger: true as long as requests come one
\* after the other, although they die and lose answers.  And then an order is refunded
\* at most once, although a cancel that died after Toss had cancelled is sent again.
FailedIsUncharged == \A o \in Orders : order[o].status = "failed" => charges[o] = 0
SerialOrders == ~overlapped => FailedIsUncharged /\ RefundedOnce

\* One after the other, requests never make the balance negative, and settlements never
\* charge more than Meta has reported, in total and over any number of syncs.
SerialSpending == ~overlapped => BalanceNeverNegative /\ SpendWithinReported

\* One after the other, requests never bring a canceled order back.
SerialCanceledFinal ==
  [][\A o \in Orders : ~overlapped' /\ order[o].status = "canceled" => order'[o] = order[o]]_vars
=============================================================================
