---------------------------- MODULE BillingProofs ---------------------------
(***************************************************************************)
(* Theorems about Billing, for any number of slots, orders, keys,          *)
(* campaigns, requests, lost answers and requests that die:                *)
(*   - what the ledger says is backed by what Toss did, however requests   *)
(*     overlap;                                                            *)
(*   - if no request dies and no answer is lost, nothing Toss did is       *)
(*     missing from the ledger, however requests overlap;                  *)
(*   - one after the other, requests leave the orders, the balance and the *)
(*     settlements as they should be.                                      *)
(***************************************************************************)
EXTENDS Billing, Sums

Confirming == {"confirming", "savingDone", "savingFailed", "appendCharge"}
Cancelling == {"checking", "cancelling", "savingCanceled", "appendRefund"}
Syncing == {"metrics", "spentFor", "available", "recording", "appendSpend"}
Statuses == {"absent", "ready", "done", "failed", "canceled"}
AnOrder == [status : Statuses, key : Keys \cup {NoKey}]
APayment == [key : Keys \cup {NoKey}, amount : Nat]
Anything == CHOOSE x \in Ops : TRUE

\* The tables that the theorems are about, and what a request asks for where it is.
Shape ==
  /\ order \in [Orders -> AnOrder] /\ paid \in [Orders -> APayment]
  /\ charges \in [Orders -> Nat] /\ refunds \in [Orders -> Nat] /\ cancelled \subseteq Orders
  /\ pc \in [Slots -> {"idle", "loading"} \cup Confirming \cup Cancelling \cup Syncing]
  /\ op \in [Slots -> Ops \cup {Anything}]
  /\ seen \in [Slots -> AnOrder]
  /\ wire \in [Slots -> {"sent", "applied"}]
  /\ overlapped \in BOOLEAN

Places == \A r \in Slots :
  /\ pc[r] = "loading" => op[r] \in ConfirmOps \cup CancelOps
  /\ pc[r] \in Confirming => op[r] \in ConfirmOps /\ op[r].amount = Amount[op[r].order]
  /\ pc[r] \in Cancelling => op[r] \in CancelOps
  /\ wire[r] = "applied" => pc[r] \in (Confirming \cup Cancelling) \ {"checking"}

\* Requests that have the money and have not booked it, and those that gave it back.
Due(r) == \/ pc[r] = "confirming" /\ wire[r] = "applied"
          \/ pc[r] \in {"savingDone", "appendCharge"}
Giving(r) == \/ pc[r] = "cancelling" /\ wire[r] = "applied"
             \/ pc[r] \in {"savingCanceled", "appendRefund"}

Paid(o) == paid[o] # Unpaid /\ paid[o].amount = Amount[o]

Backed ==
  /\ \A r \in Slots : Due(r) => charges[op[r].order] = 0 /\ Paid(op[r].order)
  /\ \A r, s \in Slots : Due(r) /\ Due(s) /\ op[r].order = op[s].order => r = s
  /\ \A o \in Orders : charges[o] <= 1 /\ (charges[o] = 1 => Paid(o))
  /\ \A r \in Slots : Giving(r) => op[r].order \in cancelled
  /\ \A o \in Orders : refunds[o] > 0 => o \in cancelled

\* One request at a time, the status of an order says where its request and its
\* entries of the ledger are.
Alone == \A r, s \in Slots : pc[r] # "idle" /\ pc[s] # "idle" => r = s

Ledger ==
  \A o \in Orders :
    /\ charges[o] > 0 => order[o].status \in {"done", "canceled"}
    /\ refunds[o] <= 1 /\ (refunds[o] > 0 => order[o].status = "canceled")

Open ==
  \A r \in Slots :
    LET o == op[r].order IN
    /\ pc[r] \in {"confirming", "savingFailed", "savingDone"} =>
         order[o].status \in {"ready", "failed"}
    /\ pc[r] = "appendCharge" => order[o].status = "done"
    /\ pc[r] \in {"checking", "cancelling", "savingCanceled"} => order[o].status = "done"
    /\ pc[r] = "appendRefund" => order[o].status = "canceled" /\ refunds[o] = 0

Serial == ~overlapped => Alone /\ Ledger /\ Open

IInv == Shape /\ Places /\ Backed /\ Serial
-----------------------------------------------------------------------------
LEMMA InitIInv == Init => IInv
<1> SUFFICES ASSUME Init PROVE IInv
  OBVIOUS
<1> USE DEF Init
<1>1. Shape
  BY DEF Shape, AnOrder, APayment, Statuses, Unpaid, Anything
<1>2. Places BY DEF Places, Confirming, Cancelling
<1>3. Backed BY DEF Backed, Due, Giving
<1>4. Serial BY DEF Serial, Alone, Ledger, Open
<1> QED BY <1>1, <1>2, <1>3, <1>4 DEF IInv

\* What a request asks for is what the guards say.
LEMMA OpKinds ==
  ASSUME NEW x \in Ops
  PROVE  /\ x.op \in {"confirm", "cancel", "sync"}
         /\ x.op = "confirm" => x \in ConfirmOps
         /\ x.op = "cancel" => x \in CancelOps
         /\ x.op = "sync" => x \in SyncOps
         /\ x \in ConfirmOps => x.op = "confirm" /\ x.order \in Orders /\ x.key \in Keys
                                /\ x.amount \in Nat \ {0}
         /\ x \in CancelOps => x.op = "cancel" /\ x.order \in Orders
BY BillingAssumption DEF BillingAssumption, ConfirmOps, CancelOps, SyncOps

\* The step of one request, by what it does to the request: it goes on to p, and
\* whatever else it does, the steps of the others find it there.
Moves(r, p, w) ==
  /\ pc' = [pc EXCEPT ![r] = p]
  /\ wire' = [wire EXCEPT ![r] = w]
  /\ UNCHANGED <<op, overlapped>>

LEMMA MovesFacts ==
  ASSUME IInv, NEW r \in Slots, NEW p, NEW w, Moves(r, p, w)
  PROVE  /\ pc'[r] = p /\ wire'[r] = w /\ op'[r] = op[r]
         /\ \A s \in Slots : s # r => pc'[s] = pc[s] /\ wire'[s] = wire[s] /\ op'[s] = op[s]
         /\ ~overlapped' => ~overlapped
         /\ ~overlapped /\ Alone /\ pc[r] # "idle" => Alone'
BY DEF IInv, Shape, Moves, Alone

LEMMA Returns ==
  ASSUME IInv, NEW r \in Slots, Return(r), UNCHANGED <<op, overlapped>>
  PROVE  Moves(r, "idle", "sent") /\ seen' \in [Slots -> AnOrder]
BY DEF IInv, Shape, Return, Moves, Goto, AnOrder, Statuses, Idle

LEMMA Goes ==
  ASSUME IInv, NEW r \in Slots, NEW p, Goto(r, p), UNCHANGED <<op, overlapped, wire>>
  PROVE  Moves(r, p, wire[r])
BY DEF IInv, Shape, Moves, Goto

-----------------------------------------------------------------------------
\* A step of a request about an order: it may change the rows of that order only.
NowDue(p, w) == (p = "confirming" /\ w = "applied") \/ p \in {"savingDone", "appendCharge"}
NowGiving(p, w) == (p = "cancelling" /\ w = "applied") \/ p \in {"savingCanceled", "appendRefund"}

\* It changes no other row,
RowsOf(o) ==
  /\ order'[o] \in AnOrder /\ paid'[o] \in APayment /\ charges'[o] \in Nat /\ refunds'[o] \in Nat
  /\ order' = [order EXCEPT ![o] = order'[o]] /\ paid' = [paid EXCEPT ![o] = paid'[o]]
  /\ charges' = [charges EXCEPT ![o] = charges'[o]] /\ refunds' = [refunds EXCEPT ![o] = refunds'[o]]
  /\ cancelled' \subseteq Orders /\ cancelled \subseteq cancelled'
  /\ seen' \in [Slots -> AnOrder]

\* goes where requests of its kind go,
GoesTo(r, p, w) ==
  /\ p \in {"idle"} \cup Confirming \cup Cancelling
  /\ p \in Confirming => op[r] \in ConfirmOps /\ op[r].amount = Amount[op[r].order]
  /\ p \in Cancelling => op[r] \in CancelOps
  /\ w = "applied" => p \in (Confirming \cup Cancelling) \ {"checking"}

\* books what Toss did,
Books(r, p, w, o) ==
  /\ paid'[o] = paid[o] \/ paid[o] = Unpaid
  /\ charges'[o] = charges[o] \/ (charges'[o] = 1 /\ Due(r) /\ ~NowDue(p, w))
  /\ NowDue(p, w) => /\ charges'[o] = charges[o] /\ paid'[o] # Unpaid /\ paid'[o].amount = Amount[o]
                     /\ Due(r) \/ paid[o] = Unpaid
  /\ refunds'[o] = refunds[o] \/ Giving(r)
  /\ NowGiving(p, w) => o \in cancelled'

\* and if it is the only one, leaves a status that says so.
Says(p, o) ==
  /\ charges'[o] > 0 => order'[o].status \in {"done", "canceled"}
  /\ refunds'[o] <= 1 /\ (refunds'[o] > 0 => order'[o].status = "canceled")
  /\ p \in {"confirming", "savingFailed", "savingDone"} => order'[o].status \in {"ready", "failed"}
  /\ p = "appendCharge" => order'[o].status = "done"
  /\ p \in {"checking", "cancelling", "savingCanceled"} => order'[o].status = "done"
  /\ p = "appendRefund" => order'[o].status = "canceled" /\ refunds'[o] = 0

LEMMA OrderStep ==
  ASSUME IInv, NEW r \in Slots, NEW p, NEW w \in {"sent", "applied"}, Moves(r, p, w),
         NEW o \in Orders, o = op[r].order, pc[r] # "idle",
         RowsOf(o), GoesTo(r, p, w), Books(r, p, w, o),
         ~overlapped /\ Ledger /\ Open => Says(p, o)
  PROVE  IInv'
<1>1. /\ pc'[r] = p /\ wire'[r] = w /\ op'[r] = op[r] /\ op' = op
      /\ \A s \in Slots : s # r => pc'[s] = pc[s] /\ wire'[s] = wire[s] /\ op'[s] = op[s]
      /\ ~overlapped' => ~overlapped
      /\ ~overlapped /\ Alone => Alone'
  <2>1. op' = op BY DEF Moves
  <2> QED BY <2>1, MovesFacts
<1>2. /\ \A q \in Orders : q # o => /\ order'[q] = order[q] /\ paid'[q] = paid[q]
                                    /\ charges'[q] = charges[q] /\ refunds'[q] = refunds[q]
      /\ charges[o] \in Nat /\ refunds[o] \in Nat /\ charges'[o] \in Nat /\ refunds'[o] \in Nat
      /\ cancelled \subseteq cancelled'
  BY DEF IInv, Shape, RowsOf
<1>20. /\ paid'[o] = paid[o] \/ paid[o] = Unpaid
       /\ charges'[o] = charges[o] \/ (charges'[o] = 1 /\ Due(r) /\ ~NowDue(p, w))
       /\ NowDue(p, w) => /\ charges'[o] = charges[o] /\ paid'[o] # Unpaid /\ paid'[o].amount = Amount[o]
                          /\ Due(r) \/ paid[o] = Unpaid
       /\ refunds'[o] = refunds[o] \/ Giving(r)
       /\ NowGiving(p, w) => o \in cancelled'
  BY DEF Books
<1>3. Shape' BY DEF IInv, Shape, Moves, RowsOf, GoesTo
<1>4. Places' BY <1>1 DEF IInv, Places, GoesTo
<1>5. \A s \in Slots : s # r => (Due(s)' <=> Due(s)) /\ (Giving(s)' <=> Giving(s))
  BY <1>1 DEF Due, Giving
<1>6. (Due(r)' <=> NowDue(p, w)) /\ (Giving(r)' <=> NowGiving(p, w))
  BY <1>1 DEF Due, Giving, NowDue, NowGiving
<1>7. \A s \in Slots : Due(s) => op[s].order \in Orders /\ charges[op[s].order] = 0 /\ Paid(op[s].order)
  <2> SUFFICES ASSUME NEW s \in Slots, Due(s) PROVE op[s].order \in Orders
    BY DEF IInv, Backed
  <2>1. op[s] \in ConfirmOps BY DEF Due, IInv, Places, Confirming
  <2> QED BY <2>1 DEF ConfirmOps
<1>8. \A q \in Orders : Paid(q) /\ (q = o => paid'[o] = paid[o]) => Paid(q)'
  BY <1>2 DEF Paid
<1>9. paid[o] = Unpaid => charges[o] = 0 /\ \A s \in Slots : Due(s) => op[s].order # o
  <2>1. charges[o] \in Nat /\ charges[o] <= 1 /\ (charges[o] = 1 => Paid(o))
    BY DEF IInv, Shape, Backed
  <2> QED BY <1>7, <2>1 DEF Paid
<1>10. Due(r) => \A s \in Slots : Due(s) /\ op[s].order = o => s = r
  BY DEF IInv, Backed
<1>11. Backed'
  <2>1. (\A s \in Slots : Due(s) => charges[op[s].order] = 0 /\ Paid(op[s].order))'
    <3>1. NowDue(p, w) => charges'[o] = 0 /\ Paid(o)'
      <4> SUFFICES ASSUME NowDue(p, w) PROVE charges'[o] = 0 /\ Paid(o)'
        OBVIOUS
      <4>1. charges[o] = 0 BY <1>7, <1>9, <1>20
      <4> QED BY <1>20, <4>1 DEF Paid
    <3>2. ASSUME NEW s \in Slots, s # r, Due(s), NEW q \in Orders, q = op[s].order
          PROVE  charges'[q] = 0 /\ Paid(q)'
      <4>1. charges[q] = 0 /\ Paid(q) BY <1>7, <3>2
      <4>2. CASE q = o
        <5>1. paid[o] # Unpaid BY <1>9, <3>2, <4>2
        <5>2. ~Due(r) BY <1>10, <3>2, <4>2
        <5> QED BY <1>8, <1>20, <4>1, <4>2, <5>1, <5>2
      <4>3. CASE q # o
        BY <1>2, <1>8, <4>1, <4>3
      <4> QED BY <4>2, <4>3
    <3>3. ASSUME NEW s \in Slots, Due(s)', s # r, NEW q \in Orders, q = op[s].order
          PROVE  (charges[op[s].order] = 0 /\ Paid(op[s].order))'
      BY <1>1, <1>5, <3>2, <3>3 DEF Paid
    <3>4. (Due(r) => charges[op[r].order] = 0 /\ Paid(op[r].order))'
      BY <1>1, <1>6, <3>1 DEF Paid
    <3>5. \A s \in Slots : s # r /\ Due(s)' => op[s].order \in Orders BY <1>5, <1>7
    <3> QED BY <3>3, <3>4, <3>5
  <2>2. \A s, t \in Slots : Due(s)' /\ Due(t)' /\ op'[s].order = op'[t].order => s = t
    <3>1. ASSUME NEW s \in Slots, s # r, Due(s), op[s].order = o PROVE ~NowDue(p, w)
      BY <1>9, <1>10, <1>20, <3>1
    <3>2. \A s, t \in Slots : Due(s) /\ Due(t) /\ op[s].order = op[t].order => s = t
      BY DEF IInv, Backed
    <3> QED BY <1>1, <1>5, <1>6, <3>1, <3>2
  <2>3. \A q \in Orders : charges'[q] <= 1 /\ (charges'[q] = 1 => Paid(q)')
    <3>1. \A q \in Orders : charges[q] <= 1 /\ (charges[q] = 1 => Paid(q)) BY DEF IInv, Backed
    <3>2. charges'[o] <= 1 BY <1>2, <1>20, <3>1
    <3>3. ASSUME charges'[o] = 1 PROVE Paid(o)'
      <4>1. Paid(o) BY <1>7, <1>20, <3>1, <3>3
      <4>2. paid'[o] = paid[o] BY <1>20, <4>1 DEF Paid
      <4> QED BY <1>8, <4>1, <4>2
    <3> QED BY <1>2, <1>8, <3>1, <3>2, <3>3
  <2>4. \A s \in Slots : Giving(s)' => op'[s].order \in cancelled'
    <3>1. \A s \in Slots : Giving(s) => op[s].order \in cancelled BY DEF IInv, Backed
    <3> QED BY <1>1, <1>2, <1>5, <1>6, <1>20, <3>1
  <2>5. \A q \in Orders : refunds'[q] > 0 => q \in cancelled'
    <3>1. \A q \in Orders : refunds[q] > 0 => q \in cancelled' BY <1>2 DEF IInv, Backed
    <3>2. Giving(r) => o \in cancelled' BY <1>2 DEF IInv, Backed
    <3> QED BY <1>2, <1>20, <3>1, <3>2
  <2> QED BY <2>1, <2>2, <2>3, <2>4, <2>5 DEF Backed
<1>12. Serial'
  <2> SUFFICES ASSUME ~overlapped' PROVE Alone' /\ Ledger' /\ Open'
    BY DEF Serial
  <2>1. ~overlapped /\ Alone /\ Ledger /\ Open BY <1>1 DEF IInv, Serial
  <2>2. Alone' BY <1>1, <2>1
  <2>3. Ledger' BY <1>2, <2>1 DEF Ledger, Says
  <2>4. \A s \in Slots : s # r => pc'[s] = "idle" BY <1>1, <2>1 DEF Alone
  <2>5. Open' BY <1>1, <2>1, <2>4 DEF Open, Says
  <2> QED BY <2>2, <2>3, <2>5
<1> QED BY <1>3, <1>4, <1>11, <1>12 DEF IInv

\* A step that changes no table: the request returns, goes on, or was about a campaign.
LEMMA QuietStep ==
  ASSUME IInv, NEW r \in Slots, NEW p, NEW w \in {"sent", "applied"}, Moves(r, p, w), pc[r] # "idle",
         UNCHANGED <<order, paid, charges, refunds, cancelled>>, seen' \in [Slots -> AnOrder],
         p \in {"idle"} \cup Syncing, w = "sent"
  PROVE  IInv'
<1>1. /\ pc'[r] = p /\ wire'[r] = w /\ op'[r] = op[r] /\ op' = op
      /\ \A s \in Slots : s # r => pc'[s] = pc[s] /\ wire'[s] = wire[s] /\ op'[s] = op[s]
      /\ ~overlapped' => ~overlapped
      /\ ~overlapped /\ Alone => Alone'
  <2>1. op' = op BY DEF Moves
  <2> QED BY <2>1, MovesFacts
<1>2. p \notin {"loading"} \cup Confirming \cup Cancelling BY DEF Confirming, Cancelling, Syncing
<1>3. Shape' BY DEF IInv, Shape, Moves
<1>4. Places' BY <1>1, <1>2 DEF IInv, Places
<1>5. ~Due(r)' /\ ~Giving(r)' BY <1>1, <1>2 DEF Due, Giving, Confirming, Cancelling
<1>6. \A s \in Slots : s # r => (Due(s)' <=> Due(s)) /\ (Giving(s)' <=> Giving(s))
  BY <1>1 DEF Due, Giving
<1>7. Backed' BY <1>1, <1>5, <1>6 DEF IInv, Backed, Paid
<1>8. Serial' BY <1>1, <1>2 DEF IInv, Serial, Ledger, Open, Confirming, Cancelling
<1> QED BY <1>3, <1>4, <1>7, <1>8 DEF IInv

\* What is known of a request about an order before its step.
LEMMA Known ==
  ASSUME IInv, NEW r \in Slots, NEW o \in Orders
  PROVE  /\ order[o] \in AnOrder /\ paid[o] \in APayment
         /\ charges[o] \in Nat /\ refunds[o] \in Nat
         /\ order = [order EXCEPT ![o] = order[o]] /\ paid = [paid EXCEPT ![o] = paid[o]]
         /\ charges = [charges EXCEPT ![o] = charges[o]]
         /\ refunds = [refunds EXCEPT ![o] = refunds[o]]
         /\ cancelled \subseteq Orders /\ seen \in [Slots -> AnOrder] /\ seen[r] \in AnOrder
         /\ wire[r] \in {"sent", "applied"}
         /\ charges[o] <= 1 /\ (charges[o] = 1 => Paid(o))
         /\ Amount[o] \in Nat \ {0}
         /\ ~overlapped => Ledger /\ Open
BY BillingAssumption DEF IInv, Shape, Backed, Serial, BillingAssumption

\* Tables that keep their rows, but perhaps one.
LEMMA Rows ==
  ASSUME IInv, NEW o \in Orders
  PROVE  /\ UNCHANGED order => order' = [order EXCEPT ![o] = order'[o]]
         /\ UNCHANGED paid => paid' = [paid EXCEPT ![o] = paid'[o]]
         /\ UNCHANGED charges => charges' = [charges EXCEPT ![o] = charges'[o]]
         /\ UNCHANGED refunds => refunds' = [refunds EXCEPT ![o] = refunds'[o]]
         /\ \A x : order' = [order EXCEPT ![o] = x] => order'[o] = x
         /\ \A x : paid' = [paid EXCEPT ![o] = x] => paid'[o] = x
         /\ \A x : charges' = [charges EXCEPT ![o] = x] => charges'[o] = x
         /\ \A x : refunds' = [refunds EXCEPT ![o] = x] => refunds'[o] = x
BY DEF IInv, Shape

\* A step that changes at most the status of its order.
LEMMA StatusStep ==
  ASSUME IInv, NEW r \in Slots, NEW p, NEW w \in {"sent", "applied"}, Moves(r, p, w),
         NEW o \in Orders, o = op[r].order, pc[r] # "idle",
         NEW x \in AnOrder, order' = [order EXCEPT ![o] = x],
         UNCHANGED <<paid, charges, refunds, cancelled>>, seen' \in [Slots -> AnOrder],
         GoesTo(r, p, w), NowDue(p, w) => Due(r), NowGiving(p, w) => o \in cancelled,
         ~overlapped /\ Ledger /\ Open => Says(p, o)
  PROVE  IInv'
<1>1. RowsOf(o)
  <2>1. order'[o] = x /\ UNCHANGED <<paid, charges, refunds, cancelled>> BY Rows
  <2> QED BY <2>1, Rows, Known DEF RowsOf
<1>2. Due(r) => paid[o] # Unpaid /\ paid[o].amount = Amount[o] BY DEF IInv, Backed, Paid
<1>3. Books(r, p, w, o) BY <1>2 DEF Books
<1> QED BY <1>1, <1>3, OrderStep

\* A request that goes on.
LEMMA GoStep ==
  ASSUME IInv, NEW r \in Slots, NEW p, Goto(r, p), pc[r] # "idle", NEW o \in Orders, o = op[r].order,
         UNCHANGED <<order, paid, charges, refunds, cancelled, op, seen, wire, overlapped>>,
         GoesTo(r, p, wire[r]), NowDue(p, wire[r]) => Due(r), NowGiving(p, wire[r]) => o \in cancelled,
         ~overlapped /\ Ledger /\ Open => Says(p, o)
  PROVE  IInv'
<1>1. Moves(r, p, wire[r]) BY Goes
<1>2. wire[r] \in {"sent", "applied"} BY Known
<1>3. RowsOf(o) BY Known DEF RowsOf
<1>4. Due(r) => paid[o] # Unpaid /\ paid[o].amount = Amount[o] BY DEF IInv, Backed, Paid
<1>5. Books(r, p, wire[r], o) BY <1>4 DEF Books
<1> QED BY <1>1, <1>2, <1>3, <1>5, OrderStep

\* A request that returns.
LEMMA ReturnStep ==
  ASSUME IInv, NEW r \in Slots, Return(r), pc[r] # "idle",
         UNCHANGED <<op, overlapped, order, paid, charges, refunds, cancelled>>
  PROVE  IInv'
BY Returns, QuietStep

-----------------------------------------------------------------------------
(* confirm()                                                               *)

\* What is known of the request.
LEMMA ConfirmOp ==
  ASSUME IInv, NEW r \in Slots, pc[r] \in Confirming
  PROVE  /\ op[r] \in ConfirmOps /\ op[r].order \in Orders /\ op[r].key \in Keys
         /\ op[r].amount \in Nat \ {0} /\ op[r].amount = Amount[op[r].order]
BY DEF IInv, Places, ConfirmOps

LEMMA LoadToConfirmIInv ==
  ASSUME IInv, NEW r \in Slots, LoadToConfirm(r)
  PROVE  IInv'
<1> DEFINE o == op[r].order
<1>1. CASE Confirmable(op[r], order[o])
  <2>1. op[r] \in ConfirmOps /\ o \in Orders /\ op[r].amount = Amount[o]
        /\ order[o].status \in {"ready", "failed"}
    <3>1. op[r] \in ConfirmOps \cup CancelOps /\ op[r].op = "confirm"
      BY DEF LoadToConfirm, IInv, Places
    <3>2. op[r] \in ConfirmOps BY <3>1 DEF CancelOps
    <3> QED BY <1>1, <3>2 DEF Confirmable, ConfirmOps
  <2>2. /\ Goto(r, "confirming") /\ UNCHANGED <<op, overlapped, wire>> /\ pc[r] = "loading"
        /\ UNCHANGED <<order, paid, charges, refunds, cancelled>>
        /\ seen' = [seen EXCEPT ![r] = order[o]]
    BY <1>1 DEF LoadToConfirm, tables, outside, counters
  <2>3. Moves(r, "confirming", wire[r]) BY <2>2, Goes
  <2>4. wire[r] = "sent" BY <2>2 DEF IInv, Shape, Places, Confirming, Cancelling
  <2>5. /\ seen' \in [Slots -> AnOrder] /\ order[o] \in AnOrder
        /\ order' = [order EXCEPT ![o] = order[o]]
    BY <2>1, <2>2, Known
  <2>6. GoesTo(r, "confirming", "sent") BY <2>1 DEF GoesTo, Confirming, Cancelling
  <2>7. ~NowDue("confirming", "sent") /\ ~NowGiving("confirming", "sent") BY DEF NowDue, NowGiving
  <2>8. Ledger => Says("confirming", o)
    <3>1. order'[o] = order[o] /\ charges'[o] = charges[o] /\ refunds'[o] = refunds[o] BY <2>2
    <3> QED BY <2>1, <3>1 DEF Ledger, Says
  <2> QED BY <2>1, <2>2, <2>3, <2>4, <2>5, <2>6, <2>7, <2>8, StatusStep
<1>2. CASE ~Confirmable(op[r], order[o])
  BY <1>2, ReturnStep DEF LoadToConfirm, tables, outside, counters
<1> QED BY <1>1, <1>2

LEMMA TossApprovesIInv ==
  ASSUME IInv, NEW r \in Slots, TossApproves(r)
  PROVE  IInv'
<1> DEFINE o == op[r].order
           y == [key |-> op[r].key, amount |-> op[r].amount]
<1>1. /\ pc[r] = "confirming" /\ paid[o] = Unpaid /\ paid' = [paid EXCEPT ![o] = y]
      /\ wire' = [wire EXCEPT ![r] = "applied"]
      /\ UNCHANGED <<order, charges, refunds, cancelled, pc, op, seen, overlapped>>
  BY DEF TossApproves, tables, counters
<1>2. op[r] \in ConfirmOps /\ o \in Orders /\ op[r].key \in Keys
      /\ op[r].amount \in Nat \ {0} /\ op[r].amount = Amount[o]
  BY <1>1, ConfirmOp DEF Confirming
<1>3. y \in APayment /\ y.amount = Amount[o] /\ y # Unpaid BY <1>2 DEF APayment, Unpaid
<1> HIDE DEF y
<1>4. Moves(r, "confirming", "applied")
  <2>1. pc' = [pc EXCEPT ![r] = "confirming"] BY <1>1 DEF IInv, Shape
  <2> QED BY <1>1, <2>1 DEF Moves
<1>5. /\ order'[o] = order[o] /\ paid'[o] = y /\ charges'[o] = charges[o] /\ refunds'[o] = refunds[o]
      /\ cancelled' = cancelled /\ seen' = seen
  BY <1>1, <1>2, Rows
<1>6. RowsOf(o) BY <1>1, <1>2, <1>3, <1>5, Rows, Known DEF RowsOf
<1>7. GoesTo(r, "confirming", "applied") BY <1>2 DEF GoesTo, Confirming, Cancelling
<1>8. Books(r, "confirming", "applied", o)
  BY <1>1, <1>3, <1>5 DEF Books, NowGiving
<1>9. Ledger /\ Open => Says("confirming", o)
  <2>1. Open => order[o].status \in {"ready", "failed"} BY <1>1 DEF Open
  <2> QED BY <1>2, <1>5, <2>1 DEF Ledger, Says
<1> QED BY <1>1, <1>2, <1>4, <1>6, <1>7, <1>8, <1>9, OrderStep

\* The answer of Toss has come, or has not.
LEMMA ConfirmAnswerIInv ==
  ASSUME IInv, NEW r \in Slots, ConfirmSucceeds(r) \/ ConfirmFails(r)
  PROVE  IInv'
<1> DEFINE o == op[r].order
<1>1. PICK p \in {"savingDone", "savingFailed"} :
        /\ Goto(r, p)
        /\ p = "savingDone" => wire[r] = "applied"
  BY DEF ConfirmSucceeds, ConfirmFails
<1>2. pc[r] = "confirming" /\ UNCHANGED <<order, paid, charges, refunds, cancelled, op, seen, wire, overlapped>>
  BY DEF ConfirmSucceeds, ConfirmFails, tables, outside, counters
<1>3. op[r] \in ConfirmOps /\ o \in Orders /\ op[r].amount = Amount[o]
  BY <1>2, ConfirmOp DEF Confirming
<1>6. GoesTo(r, p, wire[r]) BY <1>3 DEF GoesTo, Confirming, Cancelling
<1>7. (NowDue(p, wire[r]) => Due(r)) /\ ~NowGiving(p, wire[r])
  BY <1>1, <1>2 DEF NowDue, NowGiving, Due
<1>8. Ledger /\ Open => Says(p, o)
  <2>1. Open => order[o].status \in {"ready", "failed"} BY <1>2 DEF Open
  <2>2. order'[o] = order[o] /\ charges'[o] = charges[o] /\ refunds'[o] = refunds[o] BY <1>2
  <2> QED BY <1>3, <2>1, <2>2 DEF Ledger, Says
<1> QED BY <1>1, <1>2, <1>3, <1>6, <1>7, <1>8, GoStep

LEMMA SaveFailedIInv ==
  ASSUME IInv, NEW r \in Slots, SaveFailed(r)
  PROVE  IInv'
<1> DEFINE o == op[r].order
           x == [status |-> "failed", key |-> seen[r].key]
<1>1. /\ pc[r] = "savingFailed" /\ Return(r) /\ order' = [order EXCEPT ![o] = x]
      /\ UNCHANGED <<paid, charges, refunds, cancelled, op, overlapped>>
  BY DEF SaveFailed, outside, counters
<1>2. o \in Orders BY <1>1, ConfirmOp DEF Confirming
<1>3. Moves(r, "idle", "sent") /\ seen' \in [Slots -> AnOrder] BY <1>1, Returns
<1>4. x \in AnOrder /\ x.status = "failed" BY <1>2, Known DEF AnOrder, Statuses
<1> HIDE DEF x
<1>5. GoesTo(r, "idle", "sent") /\ ~NowDue("idle", "sent") /\ ~NowGiving("idle", "sent")
  BY DEF GoesTo, NowDue, NowGiving, Confirming, Cancelling
<1>6. Ledger /\ Open => Says("idle", o)
  <2>1. Open => order[o].status \in {"ready", "failed"} BY <1>1 DEF Open
  <2>2. order'[o] = x /\ charges'[o] = charges[o] /\ refunds'[o] = refunds[o]
        /\ charges[o] \in Nat /\ refunds[o] \in Nat
    BY <1>1, <1>2, Rows, Known
  <2>3. Ledger /\ Open => charges[o] = 0 /\ refunds[o] = 0 BY <1>2, <2>1, <2>2 DEF Ledger
  <2> QED BY <2>2, <2>3 DEF Says
<1> QED BY <1>1, <1>2, <1>3, <1>4, <1>5, <1>6, StatusStep

LEMMA SaveDoneIInv ==
  ASSUME IInv, NEW r \in Slots, SaveDone(r)
  PROVE  IInv'
<1> DEFINE o == op[r].order
           x == [status |-> "done", key |-> op[r].key]
<1>1. /\ pc[r] = "savingDone" /\ Goto(r, "appendCharge") /\ order' = [order EXCEPT ![o] = x]
      /\ UNCHANGED <<paid, charges, refunds, cancelled, op, overlapped, seen, wire>>
  BY DEF SaveDone, outside, counters
<1>2. o \in Orders /\ op[r] \in ConfirmOps /\ op[r].amount = Amount[o] /\ op[r].key \in Keys
  BY <1>1, ConfirmOp DEF Confirming
<1>3. Moves(r, "appendCharge", wire[r]) BY <1>1, Goes
<1>4. x \in AnOrder /\ x.status = "done" BY <1>2 DEF AnOrder, Statuses
<1> HIDE DEF x
<1>5. seen' \in [Slots -> AnOrder] /\ wire[r] \in {"sent", "applied"} BY <1>1, <1>2, Known
<1>6. GoesTo(r, "appendCharge", wire[r]) BY <1>2 DEF GoesTo, Confirming, Cancelling
<1>7. Due(r) /\ ~NowGiving("appendCharge", wire[r]) BY <1>1 DEF Due, NowGiving
<1>8. Ledger /\ Open => Says("appendCharge", o)
  <2>1. Open => order[o].status \in {"ready", "failed"} BY <1>1 DEF Open
  <2>2. order'[o] = x /\ charges'[o] = charges[o] /\ refunds'[o] = refunds[o]
        /\ charges[o] \in Nat /\ refunds[o] \in Nat
    BY <1>1, <1>2, Rows, Known
  <2>3. Ledger /\ Open => refunds[o] = 0 BY <1>2, <2>1, <2>2 DEF Ledger
  <2> QED BY <1>4, <2>2, <2>3 DEF Says
<1> QED BY <1>1, <1>2, <1>3, <1>4, <1>5, <1>6, <1>7, <1>8, StatusStep

LEMMA AppendChargeIInv ==
  ASSUME IInv, NEW r \in Slots, AppendCharge(r)
  PROVE  IInv'
<1> DEFINE o == op[r].order
<1>1. /\ pc[r] = "appendCharge" /\ Return(r) /\ charges' = [charges EXCEPT ![o] = charges[o] + 1]
      /\ UNCHANGED <<order, paid, refunds, cancelled, op, overlapped>>
  BY DEF AppendCharge, outside, counters
<1>2. o \in Orders BY <1>1, ConfirmOp DEF Confirming
<1>3. Moves(r, "idle", "sent") /\ seen' \in [Slots -> AnOrder] BY <1>1, Returns
<1>4. Due(r) BY <1>1 DEF Due
<1>5. /\ order'[o] = order[o] /\ paid'[o] = paid[o] /\ charges'[o] = 1 /\ refunds'[o] = refunds[o]
      /\ cancelled' = cancelled /\ charges' = [charges EXCEPT ![o] = charges'[o]]
  <2>1. charges[o] = 0 BY <1>4 DEF IInv, Backed
  <2>2. charges[o] + 1 = 1 BY <2>1
  <2> QED BY <1>1, <1>2, <2>2, Rows
<1>6. RowsOf(o) BY <1>1, <1>2, <1>3, <1>5, Rows, Known DEF RowsOf
<1>7. GoesTo(r, "idle", "sent") /\ ~NowDue("idle", "sent") /\ ~NowGiving("idle", "sent")
  BY DEF GoesTo, NowDue, NowGiving, Confirming, Cancelling
<1>8. Books(r, "idle", "sent", o) BY <1>4, <1>5, <1>7 DEF Books
<1>9. Ledger /\ Open => Says("idle", o)
  <2>1. Open => order[o].status = "done" BY <1>1 DEF Open
  <2>2. Ledger /\ Open => refunds[o] <= 1 /\ ~(refunds[o] > 0) BY <1>2, <2>1 DEF Ledger
  <2> QED BY <1>5, <2>1, <2>2 DEF Says
<1> QED BY <1>1, <1>2, <1>3, <1>6, <1>7, <1>8, <1>9, OrderStep

-----------------------------------------------------------------------------
(* cancel()                                                                *)

LEMMA CancelOp ==
  ASSUME IInv, NEW r \in Slots, pc[r] \in Cancelling
  PROVE  op[r] \in CancelOps /\ op[r].order \in Orders
BY DEF IInv, Places, CancelOps

LEMMA LoadToCancelIInv ==
  ASSUME IInv, NEW r \in Slots, LoadToCancel(r)
  PROVE  IInv'
<1> DEFINE o == op[r].order
<1>1. CASE order[o].status = "done" /\ order[o].key # NoKey
  <2>1. op[r] \in CancelOps /\ o \in Orders
    <3>1. op[r] \in ConfirmOps \cup CancelOps /\ op[r].op = "cancel"
      BY DEF LoadToCancel, IInv, Places
    <3>2. op[r] \in CancelOps BY <3>1 DEF ConfirmOps
    <3> QED BY <3>2 DEF CancelOps
  <2>2. /\ Goto(r, "checking") /\ UNCHANGED <<op, overlapped, wire>> /\ pc[r] = "loading"
        /\ UNCHANGED <<order, paid, charges, refunds, cancelled>>
        /\ seen' = [seen EXCEPT ![r] = order[o]]
    BY <1>1 DEF LoadToCancel, tables, outside, counters
  <2>3. Moves(r, "checking", wire[r]) BY <2>2, Goes
  <2>4. wire[r] = "sent" BY <2>2 DEF IInv, Shape, Places, Confirming, Cancelling
  <2>5. /\ seen' \in [Slots -> AnOrder] /\ order[o] \in AnOrder
        /\ order' = [order EXCEPT ![o] = order[o]]
    BY <2>1, <2>2, Known
  <2>6. GoesTo(r, "checking", "sent") BY <2>1 DEF GoesTo, Confirming, Cancelling
  <2>7. ~NowDue("checking", "sent") /\ ~NowGiving("checking", "sent") BY DEF NowDue, NowGiving
  <2>8. Ledger => Says("checking", o)
    <3>1. order'[o] = order[o] /\ charges'[o] = charges[o] /\ refunds'[o] = refunds[o] BY <2>2
    <3> QED BY <1>1, <2>1, <3>1 DEF Ledger, Says
  <2> QED BY <2>1, <2>2, <2>3, <2>4, <2>5, <2>6, <2>7, <2>8, StatusStep
<1>2. CASE ~(order[o].status = "done" /\ order[o].key # NoKey)
  BY <1>2, ReturnStep DEF LoadToCancel, tables, outside, counters
<1> QED BY <1>1, <1>2

\* The balance is enough, or the answer of Toss has come.
LEMMA CancelGoesIInv ==
  ASSUME IInv, NEW r \in Slots, CheckBalance(r) \/ CancelSucceeds(r), pc'[r] # "idle"
  PROVE  IInv'
<1> DEFINE o == op[r].order
<1>0. ASSUME Return(r) PROVE FALSE BY <1>0 DEF Return, Goto, IInv, Shape
<1>1. PICK p \in {"cancelling", "savingCanceled"} :
        /\ Goto(r, p) /\ pc[r] \in {"checking", "cancelling"}
        /\ p = "savingCanceled" => pc[r] = "cancelling" /\ wire[r] = "applied"
        /\ p = "cancelling" => pc[r] = "checking"
  BY <1>0 DEF CheckBalance, CancelSucceeds
<1>2. UNCHANGED <<order, paid, charges, refunds, cancelled, op, seen, wire, overlapped>>
  BY <1>0 DEF CheckBalance, CancelSucceeds, tables, outside, counters
<1>3. op[r] \in CancelOps /\ o \in Orders BY <1>1, CancelOp DEF Cancelling
<1>6. GoesTo(r, p, wire[r]) BY <1>3 DEF GoesTo, Confirming, Cancelling
<1>7. (NowGiving(p, wire[r]) => o \in cancelled) /\ ~NowDue(p, wire[r])
  <2>1. wire[r] = "applied" => pc[r] # "checking" BY DEF IInv, Places
  <2>2. Giving(r) => o \in cancelled BY DEF IInv, Backed
  <2>3. NowGiving(p, wire[r]) => Giving(r) BY <1>1, <2>1 DEF NowGiving, Giving
  <2> QED BY <2>2, <2>3 DEF NowDue
<1>8. Ledger /\ Open => Says(p, o)
  <2>1. Open => order[o].status = "done" BY <1>1 DEF Open
  <2>2. order'[o] = order[o] /\ charges'[o] = charges[o] /\ refunds'[o] = refunds[o] BY <1>2
  <2> QED BY <1>3, <2>1, <2>2 DEF Ledger, Says
<1>9. pc[r] # "idle" BY <1>1
<1> QED BY <1>1, <1>2, <1>3, <1>6, <1>7, <1>8, <1>9, GoStep

\* It is not enough, or the answer has not come.
LEMMA CancelReturnsIInv ==
  ASSUME IInv, NEW r \in Slots, CheckBalance(r) \/ CancelFails(r), Return(r)
  PROVE  IInv'
<1>1. pc[r] # "idle" /\ UNCHANGED <<op, overlapped, order, paid, charges, refunds, cancelled>>
  BY DEF CheckBalance, CancelFails, tables, outside, counters
<1> QED BY <1>1, ReturnStep

LEMMA TossCancelsIInv ==
  ASSUME IInv, NEW r \in Slots, TossCancels(r)
  PROVE  IInv'
<1> DEFINE o == op[r].order
<1>1. /\ pc[r] = "cancelling" /\ cancelled' = cancelled \cup {o}
      /\ wire' = [wire EXCEPT ![r] = "applied"]
      /\ UNCHANGED <<order, paid, charges, refunds, pc, op, seen, overlapped>>
  BY DEF TossCancels, tables, counters
<1>2. op[r] \in CancelOps /\ o \in Orders BY <1>1, CancelOp DEF Cancelling
<1>3. Moves(r, "cancelling", "applied")
  <2>1. pc' = [pc EXCEPT ![r] = "cancelling"] BY <1>1 DEF IInv, Shape
  <2> QED BY <1>1, <2>1 DEF Moves
<1>4. order'[o] = order[o] /\ paid'[o] = paid[o] /\ charges'[o] = charges[o] /\ refunds'[o] = refunds[o]
  BY <1>1
<1>5. RowsOf(o) BY <1>1, <1>2, <1>4, Rows, Known DEF RowsOf
<1>6. GoesTo(r, "cancelling", "applied") BY <1>2 DEF GoesTo, Confirming, Cancelling
<1>7. Books(r, "cancelling", "applied", o) BY <1>1, <1>4 DEF Books, NowDue
<1>8. Ledger /\ Open => Says("cancelling", o)
  <2>1. Open => order[o].status = "done" BY <1>1 DEF Open
  <2> QED BY <1>2, <1>4, <2>1 DEF Ledger, Says
<1> QED BY <1>1, <1>2, <1>3, <1>5, <1>6, <1>7, <1>8, OrderStep

LEMMA SaveCanceledIInv ==
  ASSUME IInv, NEW r \in Slots, SaveCanceled(r)
  PROVE  IInv'
<1> DEFINE o == op[r].order
           x == [status |-> "canceled", key |-> seen[r].key]
<1>1. /\ pc[r] = "savingCanceled" /\ Goto(r, "appendRefund") /\ order' = [order EXCEPT ![o] = x]
      /\ UNCHANGED <<paid, charges, refunds, cancelled, op, overlapped, seen, wire>>
  BY DEF SaveCanceled, outside, counters
<1>2. o \in Orders /\ op[r] \in CancelOps BY <1>1, CancelOp DEF Cancelling
<1>3. Moves(r, "appendRefund", wire[r]) BY <1>1, Goes
<1>4. x \in AnOrder /\ x.status = "canceled" BY <1>2, Known DEF AnOrder, Statuses
<1> HIDE DEF x
<1>5. seen' \in [Slots -> AnOrder] /\ wire[r] \in {"sent", "applied"} BY <1>1, <1>2, Known
<1>6. GoesTo(r, "appendRefund", wire[r]) BY <1>2 DEF GoesTo, Confirming, Cancelling
<1>7. o \in cancelled /\ ~NowDue("appendRefund", wire[r])
  <2>1. Giving(r) BY <1>1 DEF Giving
  <2> QED BY <2>1 DEF IInv, Backed, NowDue
<1>8. Ledger /\ Open => Says("appendRefund", o)
  <2>1. Open => order[o].status = "done" BY <1>1 DEF Open
  <2>2. order'[o] = x /\ charges'[o] = charges[o] /\ refunds'[o] = refunds[o]
        /\ charges[o] \in Nat /\ refunds[o] \in Nat
    BY <1>1, <1>2, Rows, Known
  <2>3. Ledger /\ Open => refunds[o] = 0 BY <1>2, <2>1, <2>2 DEF Ledger
  <2> QED BY <1>4, <2>2, <2>3 DEF Says
<1> QED BY <1>1, <1>2, <1>3, <1>4, <1>5, <1>6, <1>7, <1>8, StatusStep

LEMMA AppendRefundIInv ==
  ASSUME IInv, NEW r \in Slots, AppendRefund(r)
  PROVE  IInv'
<1> DEFINE o == op[r].order
<1>1. /\ pc[r] = "appendRefund" /\ Return(r) /\ refunds' = [refunds EXCEPT ![o] = refunds[o] + 1]
      /\ UNCHANGED <<order, paid, charges, cancelled, op, overlapped>>
  BY DEF AppendRefund, outside, counters
<1>2. o \in Orders BY <1>1, CancelOp DEF Cancelling
<1>3. Moves(r, "idle", "sent") /\ seen' \in [Slots -> AnOrder] BY <1>1, Returns
<1>4. Giving(r) BY <1>1 DEF Giving
<1>5. /\ order'[o] = order[o] /\ paid'[o] = paid[o] /\ charges'[o] = charges[o]
      /\ refunds'[o] = refunds[o] + 1 /\ refunds'[o] \in Nat /\ cancelled' = cancelled
      /\ refunds' = [refunds EXCEPT ![o] = refunds'[o]]
  <2>1. refunds[o] + 1 \in Nat BY <1>2, Known
  <2> QED BY <1>1, <1>2, <2>1, Rows
<1>6. RowsOf(o) BY <1>1, <1>2, <1>3, <1>5, Rows, Known DEF RowsOf
<1>7. GoesTo(r, "idle", "sent") /\ ~NowDue("idle", "sent") /\ ~NowGiving("idle", "sent")
  BY DEF GoesTo, NowDue, NowGiving, Confirming, Cancelling
<1>8. Books(r, "idle", "sent", o) BY <1>4, <1>5, <1>7 DEF Books
<1>9. Ledger /\ Open => Says("idle", o)
  <2>1. Open => order[o].status = "canceled" /\ refunds[o] = 0 BY <1>1 DEF Open
  <2>2. Open => refunds'[o] = 1 BY <1>5, <2>1
  <2> QED BY <1>5, <2>1, <2>2 DEF Says
<1> QED BY <1>1, <1>2, <1>3, <1>6, <1>7, <1>8, <1>9, OrderStep

-----------------------------------------------------------------------------
(* The settlement, and everybody else.                                     *)

LEMMA SyncIInv ==
  ASSUME IInv, NEW r \in Slots,
         ReadMetrics(r) \/ ReadSpent(r) \/ ReadAvailable(r) \/ CheckSpend(r) \/ AppendSpend(r)
  PROVE  IInv'
<1>1. /\ pc[r] \in Syncing
      /\ UNCHANGED <<op, overlapped, order, paid, charges, refunds, cancelled>>
  BY DEF ReadMetrics, ReadSpent, ReadAvailable, CheckSpend, AppendSpend, Syncing, tables, outside,
         counters
<1>2. CASE Return(r) BY <1>1, <1>2, ReturnStep DEF Syncing
<1>3. CASE ~Return(r)
  <2>1. PICK p \in Syncing : Goto(r, p) /\ UNCHANGED <<seen, wire>>
    BY <1>3 DEF ReadMetrics, ReadSpent, ReadAvailable, CheckSpend, AppendSpend, Syncing
  <2>2. Moves(r, p, wire[r]) BY <1>1, <2>1, Goes
  <2>3. wire[r] = "sent" BY <1>1 DEF IInv, Shape, Places, Confirming, Cancelling, Syncing
  <2>4. seen' \in [Slots -> AnOrder] BY <2>1 DEF IInv, Shape
  <2>5. pc[r] # "idle" BY <1>1 DEF Syncing
  <2> QED BY <1>1, <2>2, <2>3, <2>4, <2>5, QuietStep
<1> QED BY <1>2, <1>3

LEMMA CreateIInv ==
  ASSUME IInv, NEW o \in Orders, Create(o)
  PROVE  IInv'
<1>1. /\ order[o].status = "absent" /\ order' = [order EXCEPT ![o].status = "ready"]
      /\ UNCHANGED <<paid, charges, refunds, cancelled, pc, op, seen, wire, overlapped>>
  BY DEF Create, outside, counters
<1>2. /\ order' \in [Orders -> AnOrder] /\ order'[o].status = "ready"
      /\ \A q \in Orders : q # o => order'[q] = order[q]
  BY <1>1 DEF IInv, Shape, AnOrder, Statuses
<1>3. Shape' BY <1>1, <1>2 DEF IInv, Shape
<1>4. Places' BY <1>1 DEF IInv, Places
<1>5. Backed' BY <1>1 DEF IInv, Backed, Due, Giving, Paid
<1>6. Serial'
  <2> SUFFICES ASSUME ~overlapped' PROVE Alone' /\ Ledger' /\ Open'
    BY DEF Serial
  <2>1. Alone /\ Ledger /\ Open BY <1>1 DEF IInv, Serial
  <2>2. Alone' BY <1>1, <2>1 DEF Alone
  <2>3. Ledger' BY <1>1, <1>2, <2>1 DEF Ledger
  <2>4. Open'
    <3>1. \A r \in Slots : op[r].order \notin Orders => order'[op[r].order] = order[op[r].order]
      BY <1>1 DEF IInv, Shape
    <3>2. \A r \in Slots : op[r].order # o \/ op[r].order = o OBVIOUS
    <3> QED BY <1>1, <1>2, <2>1, <3>1 DEF Open
  <2> QED BY <2>2, <2>3, <2>4
<1> QED BY <1>3, <1>4, <1>5, <1>6 DEF IInv

LEMMA ArriveIInv ==
  ASSUME IInv, NEW r \in Slots, NEW x \in Ops, Arrive(r, x)
  PROVE  IInv'
<1>1. PICK p \in {"metrics", "loading"} :
        /\ pc[r] = "idle" /\ pc' = [pc EXCEPT ![r] = p] /\ op' = [op EXCEPT ![r] = x]
        /\ p = "loading" => x.op # "sync"
        /\ overlapped' = (overlapped \/ \E s \in Slots : pc[s] # "idle")
        /\ UNCHANGED <<order, paid, charges, refunds, cancelled, seen, wire>>
  BY DEF Arrive, Goto, tables, outside
<1>2. /\ pc'[r] = p /\ op'[r] = x /\ wire' = wire
      /\ \A s \in Slots : s # r => pc'[s] = pc[s] /\ op'[s] = op[s]
  BY <1>1 DEF IInv, Shape
<1>3. p \notin Confirming \cup Cancelling \cup {"idle"} BY DEF Confirming, Cancelling
<1>4. wire[r] = "sent" BY <1>1 DEF IInv, Shape, Places, Confirming, Cancelling
<1>5. Shape' BY <1>1 DEF IInv, Shape, Syncing
<1>6. Places'
  <2>1. p = "loading" => x \in ConfirmOps \cup CancelOps BY <1>1, OpKinds
  <2> QED BY <1>2, <1>3, <1>4, <2>1 DEF IInv, Places
<1>7. /\ ~Due(r)' /\ ~Giving(r)'
      /\ \A s \in Slots : s # r => (Due(s)' <=> Due(s)) /\ (Giving(s)' <=> Giving(s))
  BY <1>2, <1>3 DEF Due, Giving, Confirming, Cancelling
<1>8. Backed' BY <1>1, <1>2, <1>7 DEF IInv, Backed, Paid
<1>9. Serial'
  <2> SUFFICES ASSUME ~overlapped' PROVE Alone' /\ Ledger' /\ Open'
    BY DEF Serial
  <2>1. ~overlapped /\ Ledger /\ \A s \in Slots : pc[s] = "idle" BY <1>1 DEF IInv, Serial
  <2>2. Alone' BY <1>2, <2>1 DEF Alone
  <2>3. Ledger' BY <1>1, <2>1 DEF Ledger
  <2>4. Open' BY <1>2, <1>3, <2>1 DEF Open, Confirming, Cancelling
  <2> QED BY <2>2, <2>3, <2>4
<1> QED BY <1>5, <1>6, <1>8, <1>9 DEF IInv

LEMMA SameIInv ==
  ASSUME IInv, UNCHANGED <<order, paid, charges, refunds, cancelled, pc, op, seen, wire, overlapped>>
  PROVE  IInv'
<1>1. Shape' /\ Places' BY DEF IInv, Shape, Places
<1>2. Backed' BY DEF IInv, Backed, Due, Giving, Paid
<1>3. Serial' BY DEF IInv, Serial, Alone, Ledger, Open
<1> QED BY <1>1, <1>2, <1>3 DEF IInv

LEMMA NextIInv == IInv /\ [Next]_vars => IInv'
<1> SUFFICES ASSUME IInv, [Next]_vars PROVE IInv'
  OBVIOUS
<1>1. ASSUME NEW r \in Slots, Continue(r) PROVE IInv'
  <2>1. CASE CheckBalance(r)
    <3>1. CASE Return(r) BY <2>1, <3>1, CancelReturnsIInv
    <3>2. CASE Goto(r, "cancelling")
      <4>1. pc'[r] # "idle" BY <3>2 DEF Goto, IInv, Shape
      <4> QED BY <2>1, <4>1, CancelGoesIInv
    <3> QED BY <2>1, <3>1, <3>2 DEF CheckBalance
  <2>2. CASE CancelSucceeds(r)
    <3>1. pc'[r] # "idle" BY <2>2 DEF CancelSucceeds, Goto, IInv, Shape
    <3> QED BY <2>2, <3>1, CancelGoesIInv
  <2>3. CASE CancelFails(r) BY <2>3, CancelReturnsIInv DEF CancelFails
  <2> QED BY <1>1, <2>1, <2>2, <2>3, LoadToConfirmIInv, TossApprovesIInv, ConfirmAnswerIInv,
             SaveFailedIInv, SaveDoneIInv, AppendChargeIInv, LoadToCancelIInv, TossCancelsIInv,
             SaveCanceledIInv, AppendRefundIInv, SyncIInv DEF Continue
<1>2. ASSUME NEW r \in Slots, Crash(r) PROVE IInv'
  BY <1>2, ReturnStep DEF Crash, tables, outside
<1>3. ASSUME NEW k \in Campaigns, MetaSpends(k) PROVE IInv'
  BY <1>3, SameIInv DEF MetaSpends, tables, counters
<1>4. CASE UNCHANGED vars BY <1>4, SameIInv DEF vars
<1> QED BY <1>1, <1>2, <1>3, <1>4, CreateIInv, ArriveIInv DEF Next

-----------------------------------------------------------------------------
(* The theorems.                                                           *)

LEMMA IInvHolds == Spec => []IInv
<1>1. Init => IInv BY InitIInv
<1>2. IInv /\ [Next]_vars => IInv' BY NextIInv
<1> QED BY <1>1, <1>2, PTL DEF Spec

\* However requests overlap, lose their answers or die: a charge is backed by a payment
\* of its amount, once, and a refund by a cancellation at Toss.
THEOREM LedgerBacked == Spec => []LedgerBackedByToss
<1>1. IInv => LedgerBackedByToss BY DEF IInv, Backed, Paid, LedgerBackedByToss
<1> QED BY <1>1, IInvHolds, PTL

\* One after the other, requests leave no charge of a failed order and refund an order
\* once, whichever of them died or lost its answer.
THEOREM OrdersInOrder == Spec => []SerialOrders
<1>1. IInv => SerialOrders
  <2> SUFFICES ASSUME IInv, ~overlapped PROVE FailedIsUncharged /\ RefundedOnce
    BY DEF SerialOrders
  <2>1. Ledger BY DEF IInv, Serial
  <2>2. \A o \in Orders : charges[o] \in Nat BY DEF IInv, Shape
  <2> QED BY <2>1, <2>2 DEF Ledger, FailedIsUncharged, RefundedOnce
<1> QED BY <1>1, IInvHolds, PTL

\* What a step may do to an order.
LEMMA OrderChanges ==
  ASSUME IInv, [Next]_vars, ~overlapped', NEW o \in Orders, order'[o] # order[o]
  PROVE  order[o].status # "canceled"
<1>1. order \in [Orders -> AnOrder] /\ (~overlapped => Open) BY DEF IInv, Shape, Serial
<1>2. ASSUME NEW q \in Orders, Create(q) PROVE order[o].status # "canceled"
  BY <1>1, <1>2 DEF Create
<1>4. ASSUME NEW r \in Slots, SaveFailed(r) \/ SaveDone(r) \/ SaveCanceled(r)
      PROVE  order[o].status # "canceled"
  <2>1. PICK x : /\ x \in {[status |-> "failed", key |-> seen[r].key],
                           [status |-> "done", key |-> op[r].key],
                           [status |-> "canceled", key |-> seen[r].key]}
                 /\ order' = [order EXCEPT ![op[r].order] = x]
    BY <1>4 DEF SaveFailed, SaveDone, SaveCanceled
  <2>2. /\ UNCHANGED overlapped
        /\ pc[r] \in {"savingFailed", "savingDone", "savingCanceled"}
    BY <1>4 DEF SaveFailed, SaveDone, SaveCanceled, counters
  <2>3. o = op[r].order BY <1>1, <2>1
  <2>4. Open BY <1>1, <2>2
  <2> QED BY <2>2, <2>3, <2>4 DEF Open
<1>5. ASSUME UNCHANGED order PROVE FALSE BY <1>5
<1>6. ASSUME NEW r \in Slots, Continue(r) PROVE order[o].status # "canceled"
  <2>1. CASE SaveFailed(r) \/ SaveDone(r) \/ SaveCanceled(r) BY <1>4, <2>1
  <2>2. CASE ~(SaveFailed(r) \/ SaveDone(r) \/ SaveCanceled(r))
    <3>1. UNCHANGED order
      BY <1>6, <2>2 DEF Continue, LoadToConfirm, TossApproves, ConfirmSucceeds, ConfirmFails,
         AppendCharge, LoadToCancel, CheckBalance, TossCancels, CancelSucceeds, CancelFails,
         AppendRefund, ReadMetrics, ReadSpent, ReadAvailable, CheckSpend, AppendSpend, tables
    <3> QED BY <1>5, <3>1
  <2> QED BY <2>1, <2>2
<1>7. ASSUME \/ UNCHANGED vars
             \/ \E r \in Slots : Crash(r) \/ \E y \in Ops : Arrive(r, y)
             \/ \E k \in Campaigns : MetaSpends(k)
      PROVE  FALSE
  BY <1>5, <1>7 DEF vars, Crash, Arrive, MetaSpends, tables
<1> QED BY <1>2, <1>6, <1>7 DEF Next

\* One after the other, requests never bring a canceled order back.
THEOREM CanceledStays == Spec => SerialCanceledFinal
<1>1. IInv /\ [Next]_vars
      => [\A o \in Orders : ~overlapped' /\ order[o].status = "canceled" => order'[o] = order[o]]_vars
  BY OrderChanges
<1> QED BY <1>1, IInvHolds, PTL DEF Spec, SerialCanceledFinal
-----------------------------------------------------------------------------
(* MoneyIsBooked: nothing is forgotten.                                    *)

\* While nobody has died and no answer was lost, money that Toss took or gave back is
\* either in the ledger or in the hands of a request that is about to book it.
Sound == crashes = 0 /\ losses = 0

Credited ==
  Sound => \A o \in Orders : paid[o] # Unpaid =>
             charges[o] = 1 \/ \E r \in Slots : Due(r) /\ op[r].order = o

Debited ==
  Sound => \A o \in cancelled :
             refunds[o] >= 1 \/ \E r \in Slots : Giving(r) /\ op[r].order = o

Booked == losses \in Nat /\ crashes \in Nat /\ Credited /\ Debited

\* A step of a request that keeps what it has in hand, or books it.
KeepsCharge(r, p, w, o) ==
  /\ \A q \in Orders : /\ paid'[q] = paid[q] \/ (q = o /\ NowDue(p, w))
                       /\ charges[q] = 1 => charges'[q] = 1
  /\ Due(r) /\ Sound' => NowDue(p, w) \/ charges'[o] = 1

KeepsRefund(r, p, w, o) ==
  /\ \A q \in cancelled' : q \in cancelled \/ (q = o /\ NowGiving(p, w))
  /\ \A q \in Orders : refunds[q] >= 1 => refunds'[q] >= 1
  /\ Giving(r) /\ Sound' => NowGiving(p, w) \/ refunds'[o] >= 1

LEMMA KeptInHand ==
  ASSUME IInv, Booked, NEW r \in Slots, NEW p, NEW w, Moves(r, p, w), NEW o, o = op[r].order,
         losses' \in Nat, crashes' \in Nat, losses <= losses', crashes <= crashes',
         KeepsCharge(r, p, w, o), KeepsRefund(r, p, w, o)
  PROVE  Booked'
<1>1. /\ pc'[r] = p /\ wire'[r] = w /\ op'[r] = op[r]
      /\ \A s \in Slots : s # r => pc'[s] = pc[s] /\ wire'[s] = wire[s] /\ op'[s] = op[s]
  BY MovesFacts
<1>2. Sound' => Sound
  BY DEF Sound, Booked
<1>3. /\ Due(r)' <=> NowDue(p, w)
      /\ Giving(r)' <=> NowGiving(p, w)
      /\ \A s \in Slots : s # r => (Due(s)' <=> Due(s)) /\ (Giving(s)' <=> Giving(s))
  BY <1>1 DEF Due, Giving, NowDue, NowGiving
<1>4. Credited'
  <2> SUFFICES ASSUME Sound', NEW q \in Orders, paid'[q] # Unpaid, charges'[q] # 1
               PROVE  \E s \in Slots : Due(s)' /\ op'[s].order = q
    BY DEF Credited
  <2>1. CASE q = o /\ NowDue(p, w) BY <1>1, <1>3, <2>1
  <2>2. CASE ~(q = o /\ NowDue(p, w))
    <3>1. paid[q] # Unpaid /\ charges[q] # 1 BY <2>2 DEF KeepsCharge
    <3>2. PICK s \in Slots : Due(s) /\ op[s].order = q BY <1>2, <3>1 DEF Booked, Credited
    <3>3. s # r BY <2>2, <3>2 DEF KeepsCharge
    <3> QED BY <1>1, <1>3, <3>2, <3>3
  <2> QED BY <2>1, <2>2
<1>5. Debited'
  <2> SUFFICES ASSUME Sound', NEW q \in cancelled', ~(refunds'[q] >= 1)
               PROVE  \E s \in Slots : Giving(s)' /\ op'[s].order = q
    BY DEF Debited
  <2>1. CASE q = o /\ NowGiving(p, w) BY <1>1, <1>3, <2>1
  <2>2. CASE ~(q = o /\ NowGiving(p, w))
    <3>1. q \in cancelled /\ ~(refunds[q] >= 1) BY <2>2 DEF KeepsRefund, IInv, Shape
    <3>2. PICK s \in Slots : Giving(s) /\ op[s].order = q BY <1>2, <3>1 DEF Booked, Debited
    <3>3. s # r BY <2>2, <3>2 DEF KeepsRefund
    <3> QED BY <1>1, <1>3, <3>2, <3>3
  <2> QED BY <2>1, <2>2
<1> QED BY <1>4, <1>5 DEF Booked

\* A step with nothing in hand, or keeping it, that touches neither the tables nor Toss.
LEMMA NothingBooked ==
  ASSUME IInv, Booked, NEW r \in Slots, NEW p, NEW w, Moves(r, p, w),
         UNCHANGED <<paid, charges, refunds, cancelled, losses, crashes>>,
         Due(r) => NowDue(p, w), Giving(r) => NowGiving(p, w)
  PROVE  Booked'
<1>1. KeepsCharge(r, p, w, op[r].order) /\ KeepsRefund(r, p, w, op[r].order)
  BY DEF KeepsCharge, KeepsRefund
<1>2. losses' \in Nat /\ crashes' \in Nat /\ losses <= losses' /\ crashes <= crashes'
  BY DEF Booked
<1> QED BY <1>1, <1>2, KeptInHand

\* The answer is lost or the request dies: from here on nothing is promised.
LEMMA LossStep ==
  ASSUME Booked, losses' \in Nat, crashes' \in Nat, ~(losses' = 0 /\ crashes' = 0)
  PROVE  Booked'
<1>1. ~Sound' BY DEF Sound
<1> QED BY <1>1 DEF Booked, Credited, Debited

LEMMA ConfirmBooked ==
  ASSUME IInv, Booked, NEW r \in Slots,
         \/ LoadToConfirm(r) \/ TossApproves(r) \/ ConfirmSucceeds(r) \/ ConfirmFails(r)
         \/ SaveFailed(r) \/ SaveDone(r) \/ AppendCharge(r)
  PROVE  Booked'
<1>0. losses \in Nat /\ crashes \in Nat /\ losses <= losses /\ crashes <= crashes
  BY DEF Booked
<1>1. CASE LoadToConfirm(r)
  <2>1. ~Due(r) /\ ~Giving(r) BY <1>1 DEF LoadToConfirm, Due, Giving
  <2>2. UNCHANGED <<op, overlapped, paid, charges, refunds, cancelled, losses, crashes>>
    BY <1>1 DEF LoadToConfirm, tables, outside, counters
  <2>3. CASE Return(r) BY <2>1, <2>2, <2>3, Returns, NothingBooked
  <2>4. CASE ~Return(r)
    <3>1. Goto(r, "confirming") /\ UNCHANGED wire BY <1>1, <2>4 DEF LoadToConfirm
    <3> QED BY <2>1, <2>2, <3>1, Goes, NothingBooked
  <2> QED BY <2>3, <2>4
<1>2. CASE TossApproves(r)
  <2> DEFINE o == op[r].order
  <2>1. /\ pc[r] = "confirming" /\ wire[r] = "sent"
        /\ paid' = [paid EXCEPT ![o] = [key |-> op[r].key, amount |-> op[r].amount]]
        /\ wire' = [wire EXCEPT ![r] = "applied"]
        /\ UNCHANGED <<pc, op, overlapped, charges, refunds, cancelled, losses, crashes>>
    BY <1>2 DEF TossApproves, tables, counters
  <2>2. Moves(r, "confirming", "applied")
    <3>1. pc' = [pc EXCEPT ![r] = "confirming"] BY <2>1 DEF IInv, Shape
    <3> QED BY <2>1, <3>1 DEF Moves
  <2>3. NowDue("confirming", "applied") /\ ~Giving(r) BY <2>1 DEF NowDue, Giving
  <2>4. \A q \in Orders : q # o => paid'[q] = paid[q] BY <2>1 DEF IInv, Shape
  <2>5. KeepsCharge(r, "confirming", "applied", o) BY <2>1, <2>3, <2>4 DEF KeepsCharge
  <2>6. KeepsRefund(r, "confirming", "applied", o) BY <2>1, <2>3 DEF KeepsRefund
  <2> QED BY <1>0, <2>1, <2>2, <2>5, <2>6, KeptInHand
<1>3. CASE ConfirmSucceeds(r)
  <2>1. /\ Goto(r, "savingDone")
        /\ pc[r] = "confirming"
        /\ UNCHANGED <<op, overlapped, wire, paid, charges, refunds, cancelled, losses, crashes>>
    BY <1>3 DEF ConfirmSucceeds, tables, outside, counters
  <2>2. NowDue("savingDone", wire[r]) /\ ~Giving(r) BY <2>1 DEF NowDue, Giving
  <2> QED BY <2>1, <2>2, Goes, NothingBooked
<1>4. CASE ConfirmFails(r)
  <2>1. /\ pc[r] = "confirming" /\ LosesAnswer(r) /\ Goto(r, "savingFailed")
        /\ UNCHANGED <<op, overlapped, wire, paid, charges, refunds, cancelled, crashes>>
    BY <1>4 DEF ConfirmFails, tables, outside
  <2>2. CASE wire[r] = "sent" /\ UNCHANGED losses
    <3>1. ~Due(r) /\ ~Giving(r) BY <2>1, <2>2 DEF Due, Giving
    <3> QED BY <2>1, <2>2, <3>1, Goes, NothingBooked
  <2>3. CASE losses' = losses + 1 BY <1>0, <2>1, <2>3, LossStep
  <2> QED BY <2>1, <2>2, <2>3 DEF LosesAnswer
<1>5. CASE SaveFailed(r)
  <2>1. /\ pc[r] = "savingFailed" /\ Return(r)
        /\ UNCHANGED <<op, overlapped, paid, charges, refunds, cancelled, losses, crashes>>
    BY <1>5 DEF SaveFailed, outside, counters
  <2>2. ~Due(r) /\ ~Giving(r) BY <2>1 DEF Due, Giving
  <2> QED BY <2>1, <2>2, Returns, NothingBooked
<1>6. CASE SaveDone(r)
  <2>1. /\ pc[r] = "savingDone" /\ Goto(r, "appendCharge")
        /\ UNCHANGED <<op, overlapped, wire, paid, charges, refunds, cancelled, losses, crashes>>
    BY <1>6 DEF SaveDone, outside, counters
  <2>2. NowDue("appendCharge", wire[r]) /\ ~Giving(r) BY <2>1 DEF NowDue, Giving
  <2> QED BY <2>1, <2>2, Goes, NothingBooked
<1>7. CASE AppendCharge(r)
  <2> DEFINE o == op[r].order
  <2>1. /\ pc[r] = "appendCharge" /\ Return(r) /\ charges' = [charges EXCEPT ![o] = charges[o] + 1]
        /\ UNCHANGED <<paid, refunds, cancelled, op, overlapped, losses, crashes>>
    BY <1>7 DEF AppendCharge, outside, counters
  <2>2. o \in Orders BY <2>1, ConfirmOp DEF Confirming
  <2>3. Due(r) /\ ~Giving(r) BY <2>1 DEF Due, Giving
  <2>4. charges'[o] = 1 /\ \A q \in Orders : q # o => charges'[q] = charges[q]
    <3>1. charges[o] = 0 BY <2>3 DEF IInv, Backed
    <3> QED BY <2>1, <2>2, <3>1 DEF IInv, Shape
  <2>5. KeepsCharge(r, "idle", "sent", o) BY <2>1, <2>4 DEF KeepsCharge
  <2>6. KeepsRefund(r, "idle", "sent", o) BY <2>1, <2>3 DEF KeepsRefund
  <2>7. Moves(r, "idle", "sent") BY <2>1, Returns
  <2> QED BY <1>0, <2>1, <2>5, <2>6, <2>7, KeptInHand
<1> QED BY <1>1, <1>2, <1>3, <1>4, <1>5, <1>6, <1>7

LEMMA CancelBooked ==
  ASSUME IInv, Booked, NEW r \in Slots,
         \/ LoadToCancel(r) \/ CheckBalance(r) \/ TossCancels(r) \/ CancelSucceeds(r)
         \/ CancelFails(r) \/ SaveCanceled(r) \/ AppendRefund(r)
  PROVE  Booked'
<1>0. losses \in Nat /\ crashes \in Nat /\ losses <= losses /\ crashes <= crashes
  BY DEF Booked
<1>1. CASE LoadToCancel(r) \/ CheckBalance(r)
  <2>1. ~Due(r) /\ ~Giving(r) BY <1>1 DEF LoadToCancel, CheckBalance, Due, Giving
  <2>2. UNCHANGED <<op, overlapped, paid, charges, refunds, cancelled, losses, crashes>>
    BY <1>1 DEF LoadToCancel, CheckBalance, tables, outside, counters
  <2>3. CASE Return(r) BY <2>1, <2>2, <2>3, Returns, NothingBooked
  <2>4. CASE ~Return(r)
    <3>1. PICK p \in {"checking", "cancelling"} : Goto(r, p) /\ UNCHANGED wire
      BY <1>1, <2>4 DEF LoadToCancel, CheckBalance
    <3> QED BY <2>1, <2>2, <3>1, Goes, NothingBooked
  <2> QED BY <2>3, <2>4
<1>2. CASE TossCancels(r)
  <2> DEFINE o == op[r].order
  <2>1. /\ pc[r] = "cancelling" /\ cancelled' = cancelled \cup {o}
        /\ wire' = [wire EXCEPT ![r] = "applied"]
        /\ UNCHANGED <<pc, op, overlapped, paid, charges, refunds, losses, crashes>>
    BY <1>2 DEF TossCancels, tables, counters
  <2>2. Moves(r, "cancelling", "applied")
    <3>1. pc' = [pc EXCEPT ![r] = "cancelling"] BY <2>1 DEF IInv, Shape
    <3> QED BY <2>1, <3>1 DEF Moves
  <2>3. NowGiving("cancelling", "applied") /\ ~Due(r) BY <2>1 DEF NowGiving, Due
  <2>4. KeepsCharge(r, "cancelling", "applied", o) BY <2>1, <2>3 DEF KeepsCharge
  <2>5. KeepsRefund(r, "cancelling", "applied", o) BY <2>1, <2>3 DEF KeepsRefund
  <2> QED BY <1>0, <2>1, <2>2, <2>4, <2>5, KeptInHand
<1>3. CASE CancelSucceeds(r)
  <2>1. /\ Goto(r, "savingCanceled")
        /\ pc[r] = "cancelling"
        /\ UNCHANGED <<op, overlapped, wire, paid, charges, refunds, cancelled, losses, crashes>>
    BY <1>3 DEF CancelSucceeds, tables, outside, counters
  <2>2. NowGiving("savingCanceled", wire[r]) /\ ~Due(r) BY <2>1 DEF NowGiving, Due
  <2> QED BY <2>1, <2>2, Goes, NothingBooked
<1>4. CASE CancelFails(r)
  <2>1. /\ pc[r] = "cancelling" /\ LosesAnswer(r) /\ Return(r)
        /\ UNCHANGED <<op, overlapped, paid, charges, refunds, cancelled, crashes>>
    BY <1>4 DEF CancelFails, tables, outside
  <2>2. CASE wire[r] = "sent" /\ UNCHANGED losses
    <3>1. ~Due(r) /\ ~Giving(r) BY <2>1, <2>2 DEF Due, Giving
    <3> QED BY <2>1, <2>2, <3>1, Returns, NothingBooked
  <2>3. CASE losses' = losses + 1 BY <1>0, <2>1, <2>3, LossStep
  <2> QED BY <2>1, <2>2, <2>3 DEF LosesAnswer
<1>5. CASE SaveCanceled(r)
  <2>1. /\ pc[r] = "savingCanceled" /\ Goto(r, "appendRefund")
        /\ UNCHANGED <<op, overlapped, wire, paid, charges, refunds, cancelled, losses, crashes>>
    BY <1>5 DEF SaveCanceled, outside, counters
  <2>2. NowGiving("appendRefund", wire[r]) /\ ~Due(r) BY <2>1 DEF NowGiving, Due
  <2> QED BY <2>1, <2>2, Goes, NothingBooked
<1>6. CASE AppendRefund(r)
  <2> DEFINE o == op[r].order
  <2>1. /\ pc[r] = "appendRefund" /\ Return(r) /\ refunds' = [refunds EXCEPT ![o] = refunds[o] + 1]
        /\ UNCHANGED <<paid, charges, cancelled, op, overlapped, losses, crashes>>
    BY <1>6 DEF AppendRefund, outside, counters
  <2>2. o \in Orders BY <2>1, CancelOp DEF Cancelling
  <2>3. ~Due(r) BY <2>1 DEF Due
  <2>4. refunds'[o] >= 1 /\ \A q \in Orders : q # o => refunds'[q] = refunds[q]
    BY <2>1, <2>2 DEF IInv, Shape
  <2>5. KeepsCharge(r, "idle", "sent", o) BY <2>1, <2>3 DEF KeepsCharge
  <2>6. KeepsRefund(r, "idle", "sent", o) BY <2>1, <2>4 DEF KeepsRefund
  <2>7. Moves(r, "idle", "sent") BY <2>1, Returns
  <2> QED BY <1>0, <2>1, <2>5, <2>6, <2>7, KeptInHand
<1> QED BY <1>1, <1>2, <1>3, <1>4, <1>5, <1>6

LEMMA SyncBooked ==
  ASSUME IInv, Booked, NEW r \in Slots,
         ReadMetrics(r) \/ ReadSpent(r) \/ ReadAvailable(r) \/ CheckSpend(r) \/ AppendSpend(r)
  PROVE  Booked'
<1>1. /\ pc[r] \in Syncing
      /\ UNCHANGED <<op, overlapped, paid, charges, refunds, cancelled, losses, crashes>>
  BY DEF ReadMetrics, ReadSpent, ReadAvailable, CheckSpend, AppendSpend, Syncing, tables, outside,
         counters
<1>2. ~Due(r) /\ ~Giving(r) BY <1>1 DEF Due, Giving, Syncing
<1>3. CASE Return(r) BY <1>1, <1>2, <1>3, Returns, NothingBooked
<1>4. CASE ~Return(r)
  <2>1. PICK p \in Syncing : Goto(r, p) /\ UNCHANGED wire
    BY <1>4 DEF ReadMetrics, ReadSpent, ReadAvailable, CheckSpend, AppendSpend, Syncing
  <2> QED BY <1>1, <1>2, <2>1, Goes, NothingBooked
<1> QED BY <1>3, <1>4

\* Steps that find every request where it was.
LEMMA OthersBooked ==
  ASSUME IInv, Booked, UNCHANGED <<paid, charges, refunds, cancelled, losses, crashes>>,
         \A s \in Slots : \/ UNCHANGED <<pc[s], wire[s], op[s]>>
                          \/ pc[s] = "idle"
  PROVE  Booked'
<1>1. \A s \in Slots : /\ Due(s) => Due(s)' /\ op'[s] = op[s]
                       /\ Giving(s) => Giving(s)' /\ op'[s] = op[s]
  BY DEF Due, Giving
<1>2. Sound' = Sound BY DEF Sound
<1>3. Credited' BY <1>1, <1>2 DEF Booked, Credited
<1>4. Debited' BY <1>1, <1>2 DEF Booked, Debited
<1> QED BY <1>3, <1>4 DEF Booked

LEMMA NextBooked == IInv /\ Booked /\ [Next]_vars => Booked'
<1> SUFFICES ASSUME IInv, Booked, [Next]_vars PROVE Booked'
  OBVIOUS
<1>1. ASSUME NEW r \in Slots, Continue(r) PROVE Booked'
  BY <1>1, ConfirmBooked, CancelBooked, SyncBooked DEF Continue
<1>2. ASSUME NEW r \in Slots, Crash(r) PROVE Booked'
  <2>1. losses' \in Nat /\ crashes' \in Nat /\ crashes' # 0 BY <1>2 DEF Crash, Booked
  <2> QED BY <2>1, LossStep
<1>3. ASSUME NEW o \in Orders, Create(o) PROVE Booked'
  BY <1>3, OthersBooked DEF Create, outside, counters
<1>4. ASSUME NEW r \in Slots, NEW x \in Ops, Arrive(r, x) PROVE Booked'
  <2>1. \A s \in Slots : s # r => UNCHANGED <<pc[s], wire[s], op[s]>>
    BY <1>4 DEF Arrive, Goto, IInv, Shape
  <2>2. pc[r] = "idle" /\ UNCHANGED <<paid, charges, refunds, cancelled, losses, crashes>>
    BY <1>4 DEF Arrive, tables, outside
  <2> QED BY <2>1, <2>2, OthersBooked
<1>5. ASSUME NEW k \in Campaigns, MetaSpends(k) PROVE Booked'
  BY <1>5, OthersBooked DEF MetaSpends, tables, counters
<1>6. CASE UNCHANGED vars BY <1>6, OthersBooked DEF vars
<1> QED BY <1>1, <1>2, <1>3, <1>4, <1>5, <1>6 DEF Next

\* If no request died and no answer was lost, once all requests have returned every
\* payment Toss took is credited and every payment it gave back is debited.
THEOREM MoneyBooked == Spec => []MoneyIsBooked
<1>1. Init => Booked
  BY DEF Init, Booked, Credited, Debited, Unpaid
<1>2. Booked => MoneyIsBooked
  <2> SUFFICES ASSUME Booked, AtRest, Sound PROVE MoneyIsBooked
    BY DEF MoneyIsBooked, Sound
  <2>1. \A r \in Slots : ~Due(r) /\ ~Giving(r) BY DEF AtRest, Due, Giving
  <2> QED BY <2>1 DEF Booked, Credited, Debited, MoneyIsBooked
<1> QED BY <1>1, <1>2, NextBooked, IInvHolds, PTL DEF Spec
-----------------------------------------------------------------------------
(* SerialSpending: the balance and the settlement, one request at a time.  *)

\* The numbers, and what a request asks for that settles.
Funds ==
  /\ spend \in [Campaigns -> Nat] /\ reported \in [Campaigns -> Nat] /\ num \in [Slots -> Nat]
  /\ \A r \in Slots : pc[r] \in Syncing => op[r] \in SyncOps

\* What a request relies on at the await it is suspended at.
Carries(r) ==
  LET k == op[r].campaign IN
  /\ pc[r] = "spentFor" => num[r] <= reported[k]
  /\ pc[r] \in {"available", "recording", "appendSpend"} => num[r] + spend[k] <= reported[k]
  /\ pc[r] = "appendSpend" => num[r] <= Balance
  /\ pc[r] \in {"cancelling", "savingCanceled", "appendRefund"} => Amount[op[r].order] <= Balance

Solvent == BalanceNeverNegative /\ SpendWithinReported

SolventAlone == ~overlapped => Solvent /\ \A r \in Slots : Carries(r)

Credits(c, d) == [o \in Orders |-> Amount[o] * (c[o] - d[o])]

LEMMA BalanceIs == Balance = Sum(Credits(charges, refunds), Orders) - Sum(spend, Campaigns)
BY DEF Balance, Credits

LEMMA BalanceInt ==
  ASSUME IInv, Funds
  PROVE  Balance \in Int
<1>1. \A o \in Orders : Credits(charges, refunds)[o] \in Int
  <2> SUFFICES ASSUME NEW o \in Orders PROVE Amount[o] * (charges[o] - refunds[o]) \in Int
    BY DEF Credits
  <2>1. Amount[o] \in Int /\ charges[o] \in Int /\ refunds[o] \in Int
    BY BillingAssumption DEF BillingAssumption, IInv, Shape
  <2> QED BY <2>1
<1>2. Sum(Credits(charges, refunds), Orders) \in Int BY <1>1, FinitelyMany, SumInt
<1>3. Sum(spend, Campaigns) \in Int BY FinitelyMany, SumInt DEF Funds
<1> QED BY <1>2, <1>3, BalanceIs

\* The balance follows the ledger: a charge, a refund, a settlement.
LEMMA BalanceMoves ==
  ASSUME IInv, Funds, NEW o \in Orders, NEW n \in Int,
         charges' \in [Orders -> Nat], refunds' \in [Orders -> Nat], UNCHANGED spend,
         charges'[o] - refunds'[o] = charges[o] - refunds[o] + n,
         \A q \in Orders : q # o => charges'[q] = charges[q] /\ refunds'[q] = refunds[q]
  PROVE  Balance' = Balance + Amount[o] * n
<1> DEFINE f == Credits(charges, refunds)
           e == Credits(charges', refunds')
<1>1. \A q \in Orders : /\ Amount[q] \in Int /\ charges[q] \in Int /\ refunds[q] \in Int
                        /\ charges'[q] \in Int /\ refunds'[q] \in Int
  BY BillingAssumption DEF BillingAssumption, IInv, Shape
<1>2. \A q \in Orders : f[q] = Amount[q] * (charges[q] - refunds[q])
  BY DEF Credits
<1>3. \A q \in Orders : e[q] = Amount[q] * (charges'[q] - refunds'[q])
  BY DEF Credits
<1>4. Balance = Sum(f, Orders) - Sum(spend, Campaigns)
  BY BalanceIs
<1>5. Balance' = Sum(e, Orders) - Sum(spend, Campaigns)
  BY DEF Balance, Credits
<1> HIDE DEF f, e
<1>6. \A q \in Orders : f[q] \in Int /\ e[q] \in Int
  BY <1>1, <1>2, <1>3
<1>7. \A q \in Orders : q # o => f[q] = e[q]
  BY <1>2, <1>3
<1>8. e[o] = f[o] + Amount[o] * n
  <2>1. \A a, b \in Int : a * (b + n) = a * b + a * n
    OBVIOUS
  <2>2. charges[o] - refunds[o] \in Int BY <1>1
  <2> QED BY <1>1, <1>2, <1>3, <2>1, <2>2
<1>9. Sum(e, Orders) = Sum(f, Orders) - f[o] + e[o]
  BY <1>6, <1>7, FinitelyMany, SumChange
<1>10. Sum(f, Orders) \in Int /\ Sum(spend, Campaigns) \in Int
  BY <1>6, FinitelyMany, SumInt DEF Funds
<1>11. Amount[o] * n \in Int
  BY <1>1
<1> QED BY <1>4, <1>5, <1>6, <1>8, <1>9, <1>10, <1>11

LEMMA SpendMoves ==
  ASSUME IInv, Funds, NEW k \in Campaigns, NEW n \in Nat, UNCHANGED <<charges, refunds>>,
         spend' = [spend EXCEPT ![k] = spend[k] + n]
  PROVE  Balance' = Balance - n
<1> DEFINE e == spend'
<1>1. /\ \A q \in Campaigns : spend[q] \in Int /\ e[q] \in Int
      /\ e[k] = spend[k] + n
      /\ \A q \in Campaigns : q # k => spend[q] = e[q]
  BY DEF Funds
<1>20. Sum(spend', Campaigns) = Sum(e, Campaigns)
  OBVIOUS
<1> HIDE DEF e
<1>2. Sum(e, Campaigns) = Sum(spend, Campaigns) - spend[k] + e[k]
  BY <1>1, FinitelyMany, SumChange
<1>3. Sum(spend, Campaigns) \in Int
  BY <1>1, FinitelyMany, SumInt
<1> DEFINE c == Sum(Credits(charges, refunds), Orders)
<1>4. Balance = c - Sum(spend, Campaigns)
  BY BalanceIs
<1>5. Balance' = c - Sum(spend', Campaigns)
  BY DEF Balance, Credits
<1>6. c \in Int
  <2>1. Balance \in Int BY BalanceInt
  <2>2. \A o \in Orders : Credits(charges, refunds)[o] \in Int
    <3> SUFFICES ASSUME NEW o \in Orders PROVE Amount[o] * (charges[o] - refunds[o]) \in Int
      BY DEF Credits
    <3>1. Amount[o] \in Int /\ charges[o] \in Int /\ refunds[o] \in Int
      BY BillingAssumption DEF BillingAssumption, IInv, Shape
    <3> QED BY <3>1
  <2> QED BY <2>2, FinitelyMany, SumInt
<1> HIDE DEF c
<1> QED BY <1>1, <1>2, <1>20, <1>3, <1>4, <1>5, <1>6

LEMMA BalanceStays ==
  ASSUME UNCHANGED <<charges, refunds, spend>>
  PROVE  Balance' = Balance
BY DEF Balance

\* A step of the only request in progress need not look at any other.
LEMMA AloneStep ==
  ASSUME IInv, SolventAlone, NEW r \in Slots, pc[r] # "idle", NEW p, NEW w, Moves(r, p, w),
         Solvent /\ Carries(r) /\ ~overlapped => Solvent' /\ Carries(r)'
  PROVE  SolventAlone'
<1> SUFFICES ASSUME ~overlapped' PROVE Solvent' /\ \A s \in Slots : Carries(s)'
  BY DEF SolventAlone
<1>1. /\ \A s \in Slots : s # r => pc'[s] = pc[s]
      /\ ~overlapped
  BY MovesFacts
<1>2. Alone /\ Solvent /\ \A s \in Slots : Carries(s)
  BY <1>1 DEF SolventAlone, IInv, Serial
<1>3. \A s \in Slots : s # r => pc'[s] = "idle"
  BY <1>1, <1>2 DEF Alone
<1>4. \A s \in Slots : s # r => Carries(s)'
  BY <1>3 DEF Carries
<1> QED BY <1>1, <1>2, <1>4

\* A step that leaves the numbers alone, and goes where nothing more is relied on.
LEMMA EasyStep ==
  ASSUME IInv, Funds, SolventAlone, NEW r \in Slots, pc[r] # "idle", NEW p, NEW w, Moves(r, p, w),
         UNCHANGED <<charges, refunds, spend, reported>>,
         \/ p \notin {"spentFor", "available", "recording", "appendSpend",
                      "cancelling", "savingCanceled", "appendRefund"}
         \/ {p, pc[r]} \subseteq {"cancelling", "savingCanceled", "appendRefund"}
  PROVE  SolventAlone'
<1>1. pc'[r] = p /\ op'[r] = op[r]
  BY MovesFacts
<1>2. Balance' = Balance
  BY BalanceStays
<1>3. Solvent => Solvent'
  BY <1>2 DEF Solvent, BalanceNeverNegative, SpendWithinReported
<1>4. Carries(r) => Carries(r)'
  BY <1>1, <1>2 DEF Carries
<1> QED BY <1>3, <1>4, AloneStep

\* confirm(): only the entry of the ledger moves the balance, upwards.
LEMMA ConfirmFunds ==
  ASSUME IInv, Funds, SolventAlone, NEW r \in Slots,
         \/ LoadToConfirm(r) \/ TossApproves(r) \/ ConfirmSucceeds(r) \/ ConfirmFails(r)
         \/ SaveFailed(r) \/ SaveDone(r) \/ AppendCharge(r)
  PROVE  SolventAlone'
<1>1. CASE AppendCharge(r)
  <2> DEFINE o == op[r].order
  <2>1. /\ pc[r] = "appendCharge" /\ Return(r) /\ charges' = [charges EXCEPT ![o] = charges[o] + 1]
        /\ UNCHANGED <<refunds, spend, reported, op, overlapped>>
    BY <1>1 DEF AppendCharge, outside, counters
  <2>2. o \in Orders BY <2>1, ConfirmOp DEF Confirming
  <2>3. Moves(r, "idle", "sent") /\ pc'[r] = "idle" BY <2>1, Returns, MovesFacts
  <2>4. /\ charges' \in [Orders -> Nat] /\ refunds' \in [Orders -> Nat]
        /\ charges'[o] - refunds'[o] = charges[o] - refunds[o] + 1
        /\ \A q \in Orders : q # o => charges'[q] = charges[q] /\ refunds'[q] = refunds[q]
    BY <2>1, <2>2 DEF IInv, Shape
  <2>5. Balance' = Balance + Amount[o] * 1
    BY <2>1, <2>2, <2>4, BalanceMoves
  <2>6. Amount[o] \in Nat /\ Balance \in Int
    BY <2>2, BillingAssumption, BalanceInt DEF BillingAssumption
  <2>7. Solvent => Solvent'
    BY <2>1, <2>5, <2>6 DEF Solvent, BalanceNeverNegative, SpendWithinReported
  <2>8. Carries(r)' BY <2>3 DEF Carries
  <2> QED BY <2>1, <2>3, <2>7, <2>8, AloneStep
<1>2. CASE ~AppendCharge(r)
  <2>1. /\ pc[r] # "idle"
        /\ UNCHANGED <<op, overlapped, charges, refunds, spend, reported>>
    BY <1>2 DEF LoadToConfirm, TossApproves, ConfirmSucceeds, ConfirmFails, SaveFailed, SaveDone,
       tables, outside, counters
  <2>2. CASE Return(r) BY <2>1, <2>2, Returns, EasyStep
  <2>3. CASE TossApproves(r)
    <3>1. Moves(r, "confirming", "applied")
      <4>1. pc' = [pc EXCEPT ![r] = "confirming"] /\ wire' = [wire EXCEPT ![r] = "applied"]
        BY <2>3 DEF TossApproves, IInv, Shape
      <4> QED BY <2>1, <4>1 DEF Moves
    <3> QED BY <2>1, <3>1, EasyStep
  <2>4. CASE ~Return(r) /\ ~TossApproves(r)
    <3>1. PICK p \in {"confirming", "savingDone", "savingFailed", "appendCharge"} :
            Goto(r, p) /\ UNCHANGED wire
      BY <1>2, <2>4 DEF LoadToConfirm, ConfirmSucceeds, ConfirmFails, SaveFailed, SaveDone
    <3> QED BY <2>1, <3>1, Goes, EasyStep
  <2> QED BY <2>2, <2>3, <2>4
<1> QED BY <1>1, <1>2

\* cancel(): the balance that was checked is still there when the refund is written.
LEMMA CancelFunds ==
  ASSUME IInv, Funds, SolventAlone, NEW r \in Slots,
         \/ LoadToCancel(r) \/ CheckBalance(r) \/ TossCancels(r) \/ CancelSucceeds(r)
         \/ CancelFails(r) \/ SaveCanceled(r) \/ AppendRefund(r)
  PROVE  SolventAlone'
<1> DEFINE o == op[r].order
<1>1. CASE AppendRefund(r)
  <2>1. /\ pc[r] = "appendRefund" /\ Return(r) /\ refunds' = [refunds EXCEPT ![o] = refunds[o] + 1]
        /\ UNCHANGED <<charges, spend, reported, op, overlapped>>
    BY <1>1 DEF AppendRefund, outside, counters
  <2>2. o \in Orders BY <2>1, CancelOp DEF Cancelling
  <2>3. Moves(r, "idle", "sent") /\ pc'[r] = "idle" BY <2>1, Returns, MovesFacts
  <2>4. /\ charges' \in [Orders -> Nat] /\ refunds' \in [Orders -> Nat]
        /\ charges'[o] - refunds'[o] = charges[o] - refunds[o] + (-1)
        /\ \A q \in Orders : q # o => charges'[q] = charges[q] /\ refunds'[q] = refunds[q]
    BY <2>1, <2>2 DEF IInv, Shape
  <2>5. Balance' = Balance + Amount[o] * (-1)
    BY <2>1, <2>2, <2>4, BalanceMoves
  <2>6. Amount[o] \in Nat /\ Balance \in Int
    BY <2>2, BillingAssumption, BalanceInt DEF BillingAssumption
  <2>7. Solvent /\ Carries(r) => Solvent'
    BY <2>1, <2>5, <2>6 DEF Solvent, BalanceNeverNegative, SpendWithinReported, Carries
  <2>8. Carries(r)' BY <2>3 DEF Carries
  <2> QED BY <2>1, <2>3, <2>7, <2>8, AloneStep
<1>2. CASE CheckBalance(r) /\ ~Return(r)
  <2>1. /\ pc[r] = "checking" /\ ~(Balance < Amount[o]) /\ Goto(r, "cancelling")
        /\ UNCHANGED <<op, overlapped, wire, charges, refunds, spend, reported>>
    BY <1>2 DEF CheckBalance, tables, outside, counters
  <2>2. o \in Orders BY <2>1, CancelOp DEF Cancelling
  <2>3. Amount[o] \in Nat /\ Balance \in Int
    BY <2>2, BillingAssumption, BalanceInt DEF BillingAssumption
  <2>4. Moves(r, "cancelling", wire[r]) BY <2>1, Goes
  <2>5. pc'[r] = "cancelling" /\ op'[r] = op[r] /\ Balance' = Balance
    BY <2>1, <2>4, MovesFacts, BalanceStays
  <2>6. Carries(r)' BY <2>1, <2>3, <2>5 DEF Carries
  <2>7. Solvent => Solvent'
    BY <2>1, <2>5 DEF Solvent, BalanceNeverNegative, SpendWithinReported
  <2> QED BY <2>1, <2>4, <2>6, <2>7, AloneStep
<1>3. CASE ~AppendRefund(r) /\ ~(CheckBalance(r) /\ ~Return(r))
  <2>1. /\ pc[r] # "idle"
        /\ UNCHANGED <<op, overlapped, charges, refunds, spend, reported>>
    BY <1>3 DEF LoadToCancel, CheckBalance, TossCancels, CancelSucceeds, CancelFails, SaveCanceled,
       tables, outside, counters
  <2>2. CASE Return(r) BY <2>1, <2>2, Returns, EasyStep
  <2>3. CASE TossCancels(r)
    <3>1. Moves(r, "cancelling", "applied") /\ pc[r] = "cancelling"
      <4>1. /\ pc' = [pc EXCEPT ![r] = "cancelling"] /\ wire' = [wire EXCEPT ![r] = "applied"]
            /\ pc[r] = "cancelling"
        BY <2>3 DEF TossCancels, IInv, Shape
      <4> QED BY <2>1, <4>1 DEF Moves
    <3> QED BY <2>1, <3>1, EasyStep
  <2>4. CASE LoadToCancel(r) /\ ~Return(r)
    <3>1. Goto(r, "checking") /\ UNCHANGED wire
      BY <2>4 DEF LoadToCancel
    <3> QED BY <2>1, <3>1, Goes, EasyStep
  <2>5. CASE CancelSucceeds(r)
    <3>1. Goto(r, "savingCanceled") /\ UNCHANGED wire /\ pc[r] = "cancelling"
      BY <2>5 DEF CancelSucceeds
    <3> QED BY <2>1, <3>1, Goes, EasyStep
  <2>6. CASE SaveCanceled(r)
    <3>1. Goto(r, "appendRefund") /\ UNCHANGED wire /\ pc[r] = "savingCanceled"
      BY <2>6 DEF SaveCanceled
    <3> QED BY <2>1, <3>1, Goes, EasyStep
  <2> QED BY <1>3, <2>2, <2>3, <2>4, <2>5, <2>6 DEF CancelFails
<1> QED BY <1>1, <1>2, <1>3

\* sync_campaign(): the increment is due, cut to the balance, and still covered when it
\* is written.
LEMMA SyncFunds ==
  ASSUME IInv, Funds, SolventAlone, NEW r \in Slots,
         ReadMetrics(r) \/ ReadSpent(r) \/ ReadAvailable(r) \/ CheckSpend(r) \/ AppendSpend(r)
  PROVE  SolventAlone' /\ spend' \in [Campaigns -> Nat] /\ num' \in [Slots -> Nat]
<1> DEFINE k == op[r].campaign
<1>1. /\ pc[r] \in Syncing /\ pc[r] # "idle"
      /\ UNCHANGED <<op, overlapped, charges, refunds, reported>>
  BY DEF ReadMetrics, ReadSpent, ReadAvailable, CheckSpend, AppendSpend, Syncing, tables, outside,
         counters
<1>2. k \in Campaigns /\ num[r] \in Nat /\ spend[k] \in Nat /\ reported[k] \in Nat /\ Balance \in Int
  BY <1>1, BalanceInt DEF Funds, SyncOps
<1>3. CASE AppendSpend(r)
  <2>1. /\ pc[r] = "appendSpend" /\ Return(r) /\ num' = [num EXCEPT ![r] = 0]
        /\ spend' = [spend EXCEPT ![k] = spend[k] + num[r]]
    BY <1>3 DEF AppendSpend, Return
  <2>2. spend' \in [Campaigns -> Nat] /\ num' \in [Slots -> Nat]
    BY <1>2, <2>1 DEF Funds
  <2>3. Balance' = Balance - num[r] BY <1>1, <1>2, <2>1, SpendMoves
  <2>4. Moves(r, "idle", "sent") /\ pc'[r] = "idle" BY <1>1, <2>1, Returns, MovesFacts
  <2>5. Carries(r)' BY <2>4 DEF Carries
  <2>6. /\ spend'[k] = spend[k] + num[r]
        /\ \A q \in Campaigns : q # k => spend'[q] = spend[q]
    BY <1>2, <2>1 DEF Funds
  <2>7. Carries(r) => num[r] <= Balance /\ num[r] + spend[k] <= reported[k]
    BY <2>1 DEF Carries
  <2>8. Carries(r) /\ BalanceNeverNegative => BalanceNeverNegative'
    BY <1>2, <2>3, <2>7 DEF BalanceNeverNegative
  <2>9. Carries(r) /\ SpendWithinReported => SpendWithinReported'
    BY <1>1, <1>2, <2>6, <2>7 DEF SpendWithinReported
  <2> QED BY <1>1, <2>2, <2>4, <2>5, <2>8, <2>9, AloneStep DEF Solvent
<1>4. CASE ~AppendSpend(r)
  <2>1. UNCHANGED spend /\ Balance' = Balance
    <3>1. UNCHANGED spend BY <1>4 DEF ReadMetrics, ReadSpent, ReadAvailable, CheckSpend, tables
    <3> QED BY <1>1, <3>1, BalanceStays
  <2>2. spend' \in [Campaigns -> Nat] BY <2>1 DEF Funds
  <2>3. CASE Return(r)
    <3>1. num' \in [Slots -> Nat] BY <2>3 DEF Return, Funds
    <3> QED BY <1>1, <2>1, <2>2, <2>3, <3>1, Returns, EasyStep
  <2>4. CASE ~Return(r)
    <3>1. PICK p \in Syncing, n \in Nat :
            /\ Goto(r, p) /\ UNCHANGED wire /\ num' = [num EXCEPT ![r] = n]
            /\ p = "spentFor" => n <= reported[k]
            /\ p = "available" => pc[r] = "spentFor" /\ n + spend[k] = num[r]
            /\ p = "recording" => pc[r] = "available" /\ n <= num[r]
            /\ p = "appendSpend" => pc[r] = "recording" /\ n = num[r] /\ n <= Balance
            /\ p # "metrics"
      <4>1. CASE ReadMetrics(r)
        <5>1. Goto(r, "spentFor") /\ UNCHANGED wire /\ num' = [num EXCEPT ![r] = reported[k]]
          BY <4>1 DEF ReadMetrics
        <5>2. "spentFor" \in Syncing /\ reported[k] <= reported[k] BY <1>2 DEF Syncing
        <5> QED BY <1>2, <5>1, <5>2
      <4>2. CASE ReadSpent(r)
        <5>1. PICK n : n = num[r] - spend[k] OBVIOUS
        <5>2. Goto(r, "available") /\ UNCHANGED wire /\ num' = [num EXCEPT ![r] = n] /\ n > 0
              /\ pc[r] = "spentFor"
          BY <2>4, <4>2, <5>1 DEF ReadSpent
        <5>3. n \in Nat /\ n + spend[k] = num[r] BY <1>2, <5>1, <5>2
        <5>4. "available" \in Syncing BY DEF Syncing
        <5> QED BY <5>2, <5>3, <5>4
      <4>3. CASE ReadAvailable(r)
        <5>1. PICK n : n = IF num[r] < Balance THEN num[r] ELSE Balance OBVIOUS
        <5>2. Goto(r, "recording") /\ UNCHANGED wire /\ num' = [num EXCEPT ![r] = n] /\ n > 0
              /\ pc[r] = "available"
          BY <2>4, <4>3, <5>1 DEF ReadAvailable
        <5>3. n \in Nat /\ n <= num[r] BY <1>2, <5>1, <5>2
        <5>4. "recording" \in Syncing BY DEF Syncing
        <5> QED BY <5>2, <5>3, <5>4
      <4>4. CASE CheckSpend(r)
        <5>1. /\ Goto(r, "appendSpend") /\ UNCHANGED wire /\ num' = num /\ pc[r] = "recording"
              /\ ~(num[r] > Balance)
          BY <2>4, <4>4 DEF CheckSpend
        <5>2. num' = [num EXCEPT ![r] = num[r]] /\ num[r] <= Balance BY <1>2, <5>1 DEF Funds
        <5>3. "appendSpend" \in Syncing BY DEF Syncing
        <5> QED BY <1>2, <5>1, <5>2, <5>3
      <4> QED BY <1>4, <4>1, <4>2, <4>3, <4>4
    <3>2. num' \in [Slots -> Nat] /\ num'[r] = n BY <3>1 DEF Funds
    <3>3. Moves(r, p, wire[r]) BY <1>1, <3>1, Goes
    <3>4. pc'[r] = p /\ op'[r] = op[r] BY <3>3, MovesFacts
    <3>5. Carries(r) => Carries(r)'
      <4>1. CASE p = "spentFor" BY <1>1, <3>1, <3>2, <3>4, <4>1 DEF Carries
      <4>2. CASE p = "available" BY <1>1, <1>2, <2>1, <3>1, <3>2, <3>4, <4>2 DEF Carries
      <4>3. CASE p = "recording" BY <1>1, <1>2, <2>1, <3>1, <3>2, <3>4, <4>3 DEF Carries
      <4>4. CASE p = "appendSpend" BY <1>1, <1>2, <2>1, <3>1, <3>2, <3>4, <4>4 DEF Carries
      <4> QED BY <3>1, <4>1, <4>2, <4>3, <4>4 DEF Syncing
    <3>6. Solvent => Solvent'
      BY <1>1, <2>1 DEF Solvent, BalanceNeverNegative, SpendWithinReported
    <3> QED BY <1>1, <2>2, <3>2, <3>3, <3>5, <3>6, AloneStep
  <2> QED BY <2>3, <2>4
<1> QED BY <1>3, <1>4

\* A step that finds every request where it was, or takes up an idle one.
LEMMA OthersFunds ==
  ASSUME IInv, Funds, SolventAlone, UNCHANGED <<charges, refunds, spend, num>>,
         reported' \in [Campaigns -> Nat], \A k \in Campaigns : reported[k] <= reported'[k],
         ~overlapped' => ~overlapped,
         \A s \in Slots : \/ UNCHANGED <<pc[s], op[s]>>
                          \/ pc'[s] \in {"loading", "metrics"}
  PROVE  SolventAlone'
<1> SUFFICES ASSUME ~overlapped' PROVE Solvent' /\ \A s \in Slots : Carries(s)'
  BY DEF SolventAlone
<1>1. Solvent /\ \A s \in Slots : Carries(s)
  BY DEF SolventAlone
<1>2. Balance' = Balance
  BY BalanceStays
<1>3. Solvent'
  BY <1>1, <1>2 DEF Solvent, BalanceNeverNegative, SpendWithinReported, Funds
<1>4. ASSUME NEW s \in Slots PROVE Carries(s)'
  <2>1. CASE pc'[s] \in {"loading", "metrics"} BY <2>1 DEF Carries
  <2>2. CASE UNCHANGED <<pc[s], op[s]>>
    <3>1. CASE pc[s] \in Syncing
      <4> DEFINE k == op[s].campaign
      <4>1. k \in Campaigns BY <3>1 DEF Funds, SyncOps
      <4>2. /\ reported[k] \in Nat /\ reported'[k] \in Nat /\ reported[k] <= reported'[k]
            /\ num[s] \in Nat /\ spend[k] \in Nat
        BY <4>1 DEF Funds
      <4>3. Carries(s) BY <1>1
      <4>4. pc'[s] = pc[s] /\ op'[s] = op[s] /\ num'[s] = num[s] BY <2>2
      <4>5. pc[s] = "spentFor" => num[s] <= reported'[k] BY <4>2, <4>3 DEF Carries
      <4>6. pc[s] \in {"available", "recording", "appendSpend"} => num[s] + spend[k] <= reported'[k]
        BY <4>2, <4>3 DEF Carries
      <4>7. pc[s] \notin {"cancelling", "savingCanceled", "appendRefund"} BY <3>1 DEF Syncing
      <4> QED BY <1>2, <4>3, <4>4, <4>5, <4>6, <4>7 DEF Carries
    <3>2. CASE pc[s] \notin Syncing BY <1>1, <1>2, <2>2, <3>2 DEF Carries, Syncing
    <3> QED BY <3>1, <3>2
  <2> QED BY <2>1, <2>2
<1> QED BY <1>3, <1>4

\* The numbers keep their types, and a settlement is asked for as one.
LEMMA FundsStep ==
  ASSUME IInv, Funds, [Next]_vars, SolventAlone
  PROVE  Funds'
<1>1. ASSUME NEW r \in Slots, Continue(r) PROVE Funds'
  <2>1. op' = op /\ reported' \in [Campaigns -> Nat]
    BY <1>1 DEF Continue, LoadToConfirm, TossApproves, ConfirmSucceeds, ConfirmFails, SaveFailed,
       SaveDone, AppendCharge, LoadToCancel, CheckBalance, TossCancels, CancelSucceeds, CancelFails,
       SaveCanceled, AppendRefund, ReadMetrics, ReadSpent, ReadAvailable, CheckSpend, AppendSpend,
       outside, Funds
  <2>2. \A s \in Slots : s # r => pc'[s] = pc[s]
    BY <1>1 DEF Continue, LoadToConfirm, TossApproves, ConfirmSucceeds, ConfirmFails, SaveFailed,
       SaveDone, AppendCharge, LoadToCancel, CheckBalance, TossCancels, CancelSucceeds, CancelFails,
       SaveCanceled, AppendRefund, ReadMetrics, ReadSpent, ReadAvailable, CheckSpend, AppendSpend,
       Goto, Return, IInv, Shape
  <2>3. CASE ReadMetrics(r) \/ ReadSpent(r) \/ ReadAvailable(r) \/ CheckSpend(r) \/ AppendSpend(r)
    <3>1. pc[r] \in Syncing
      BY <2>3 DEF ReadMetrics, ReadSpent, ReadAvailable, CheckSpend, AppendSpend, Syncing
    <3>2. \A s \in Slots : pc'[s] \in Syncing => pc[s] \in Syncing BY <2>2, <3>1
    <3> QED BY <2>1, <2>3, <3>2, SyncFunds DEF Funds
  <2>4. CASE ~(ReadMetrics(r) \/ ReadSpent(r) \/ ReadAvailable(r) \/ CheckSpend(r) \/ AppendSpend(r))
    <3>1. \/ LoadToConfirm(r) \/ TossApproves(r) \/ ConfirmSucceeds(r) \/ ConfirmFails(r)
          \/ SaveFailed(r) \/ SaveDone(r) \/ AppendCharge(r)
          \/ LoadToCancel(r) \/ CheckBalance(r) \/ TossCancels(r) \/ CancelSucceeds(r)
          \/ CancelFails(r) \/ SaveCanceled(r) \/ AppendRefund(r)
      BY <1>1, <2>4 DEF Continue
    <3>2. UNCHANGED spend
      BY <3>1 DEF LoadToConfirm, TossApproves, ConfirmSucceeds, ConfirmFails, SaveFailed, SaveDone,
         AppendCharge, LoadToCancel, CheckBalance, TossCancels, CancelSucceeds, CancelFails,
         SaveCanceled, AppendRefund, tables
    <3>3. num' = num \/ num' = [num EXCEPT ![r] = 0]
      BY <3>1 DEF LoadToConfirm, TossApproves, ConfirmSucceeds, ConfirmFails, SaveFailed, SaveDone,
         AppendCharge, LoadToCancel, CheckBalance, TossCancels, CancelSucceeds, CancelFails,
         SaveCanceled, AppendRefund, Return
    <3>4. pc'[r] \notin Syncing
      BY <3>1 DEF LoadToConfirm, TossApproves, ConfirmSucceeds, ConfirmFails, SaveFailed, SaveDone,
         AppendCharge, LoadToCancel, CheckBalance, TossCancels, CancelSucceeds, CancelFails,
         SaveCanceled, AppendRefund, Return, Goto, IInv, Shape, Syncing
    <3>5. num' \in [Slots -> Nat] BY <3>3 DEF Funds
    <3> QED BY <2>1, <2>2, <3>2, <3>4, <3>5 DEF Funds
  <2> QED BY <2>3, <2>4
<1>2. ASSUME NEW r \in Slots, Crash(r) PROVE Funds'
  <2>1. /\ UNCHANGED <<spend, reported, op>> /\ num' = [num EXCEPT ![r] = 0]
        /\ pc' = [pc EXCEPT ![r] = "idle"]
    BY <1>2 DEF Crash, Return, Goto, tables, outside
  <2>2. num' \in [Slots -> Nat] BY <2>1 DEF Funds
  <2>3. \A s \in Slots : pc'[s] \in Syncing => pc[s] \in Syncing
    BY <2>1 DEF IInv, Shape, Syncing
  <2> QED BY <2>1, <2>2, <2>3 DEF Funds
<1>3. ASSUME NEW o \in Orders, Create(o) PROVE Funds'
  BY <1>3 DEF Create, outside, Funds
<1>4. ASSUME NEW r \in Slots, NEW x \in Ops, Arrive(r, x) PROVE Funds'
  <2>1. /\ UNCHANGED <<spend, reported, num>> /\ op' = [op EXCEPT ![r] = x]
        /\ pc' = [pc EXCEPT ![r] = IF x.op = "sync" THEN "metrics" ELSE "loading"]
    BY <1>4 DEF Arrive, Goto, tables, outside
  <2>2. ASSUME NEW s \in Slots, pc'[s] \in Syncing PROVE op'[s] \in SyncOps
    <3>1. CASE s = r
      <4>1. x.op = "sync" /\ op'[s] = x BY <2>1, <2>2, <3>1 DEF IInv, Shape, Syncing
      <4> QED BY <4>1, OpKinds
    <3>2. CASE s # r BY <2>1, <2>2, <3>2 DEF IInv, Shape, Funds
    <3> QED BY <3>1, <3>2
  <2> QED BY <2>1, <2>2 DEF Funds
<1>5. ASSUME NEW k \in Campaigns, MetaSpends(k) PROVE Funds'
  BY <1>5 DEF MetaSpends, tables, Funds
<1>6. CASE UNCHANGED vars BY <1>6 DEF vars, Funds
<1> QED BY <1>1, <1>2, <1>3, <1>4, <1>5, <1>6 DEF Next

LEMMA SolventStep ==
  ASSUME IInv, Funds, [Next]_vars, SolventAlone
  PROVE  SolventAlone'
<1>1. ASSUME NEW r \in Slots, Continue(r) PROVE SolventAlone'
  BY <1>1, ConfirmFunds, CancelFunds, SyncFunds DEF Continue
<1>2. ASSUME NEW r \in Slots, Crash(r) PROVE SolventAlone'
  <2>1. /\ Return(r) /\ pc[r] # "idle"
        /\ UNCHANGED <<op, overlapped, charges, refunds, spend, reported>>
    BY <1>2 DEF Crash, tables, outside
  <2> QED BY <2>1, Returns, EasyStep
<1>0. reported \in [Campaigns -> Nat] /\ \A k \in Campaigns : reported[k] <= reported[k]
  BY DEF Funds
<1>3. ASSUME NEW o \in Orders, Create(o) PROVE SolventAlone'
  BY <1>0, <1>3, OthersFunds DEF Create, outside, counters
<1>4. ASSUME NEW r \in Slots, NEW x \in Ops, Arrive(r, x) PROVE SolventAlone'
  <2>1. /\ UNCHANGED <<charges, refunds, spend, num, reported>>
        /\ ~overlapped' => ~overlapped
        /\ pc'[r] \in {"loading", "metrics"}
        /\ \A s \in Slots : s # r => UNCHANGED <<pc[s], op[s]>>
    BY <1>4 DEF Arrive, Goto, tables, outside, IInv, Shape
  <2> QED BY <1>0, <2>1, OthersFunds
<1>5. ASSUME NEW k \in Campaigns, MetaSpends(k) PROVE SolventAlone'
  <2>1. /\ UNCHANGED <<charges, refunds, spend, num, pc, op, overlapped>>
        /\ reported' = [reported EXCEPT ![k] = reported[k] + 1]
    BY <1>5 DEF MetaSpends, tables, counters
  <2>2. /\ reported' \in [Campaigns -> Nat]
        /\ \A q \in Campaigns : reported[q] <= reported'[q]
    BY <2>1 DEF Funds
  <2> QED BY <2>1, <2>2, OthersFunds
<1>6. CASE UNCHANGED vars BY <1>0, <1>6, OthersFunds DEF vars
<1> QED BY <1>1, <1>2, <1>3, <1>4, <1>5, <1>6 DEF Next

LEMMA InitFunds ==
  ASSUME Init
  PROVE  Funds /\ SolventAlone
<1>1. Funds BY DEF Init, Funds, Syncing
<1>2. \A r \in Slots : Carries(r) BY DEF Init, Carries
<1>3. Balance = 0
  <2>1. \A o \in Orders : Credits(charges, refunds)[o] = 0
    <3> SUFFICES ASSUME NEW o \in Orders PROVE Amount[o] * (charges[o] - refunds[o]) = 0
      BY DEF Credits
    <3>1. charges[o] - refunds[o] = 0 /\ Amount[o] \in Int
      BY BillingAssumption DEF Init, BillingAssumption
    <3> QED BY <3>1
  <2>2. Sum(Credits(charges, refunds), Orders) = 0 BY <2>1, FinitelyMany, SumZero
  <2>3. \A k \in Campaigns : spend[k] = 0 BY DEF Init
  <2>4. Sum(spend, Campaigns) = 0 BY <2>3, FinitelyMany, SumZero
  <2> QED BY <2>2, <2>4, BalanceIs
<1>4. Solvent BY <1>3 DEF Init, Solvent, BalanceNeverNegative, SpendWithinReported
<1> QED BY <1>1, <1>2, <1>4 DEF SolventAlone

\* One after the other, requests never make the balance negative, and settlements never
\* charge more than Meta has reported.
THEOREM SerialIsSolvent == Spec => []SerialSpending
<1>1. Init => Funds /\ SolventAlone
  BY InitFunds
<1>2. IInv /\ Funds /\ SolventAlone /\ [Next]_vars => Funds' /\ SolventAlone'
  BY FundsStep, SolventStep
<1>3. SolventAlone => SerialSpending
  BY DEF SolventAlone, Solvent, SerialSpending
<1> QED BY <1>1, <1>2, <1>3, IInvHolds, PTL DEF Spec
=============================================================================
