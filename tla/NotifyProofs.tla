---------------------------- MODULE NotifyProofs ----------------------------
(***************************************************************************)
(* Theorems about Notify, for any number of campaigns, scans, rows and     *)
(* failures: one delivery of a finding at a time, and follow-ups only on   *)
(* notifications that were read.                                           *)
(*                                                                         *)
(* The keys a scan has found are a filtered sequence, whose elements are   *)
(* of no concern here: what is said of a scan and of a row is that they    *)
(* have the fields that Notify gives them.                                 *)
(***************************************************************************)
EXTENDS Notify, Sums

IsScan(x) ==
  x = [pc |-> x.pc, unread |-> x.unread, todo |-> x.todo, normals |-> x.normals, id |-> x.id]

IsRow(x) == x = [state |-> x.state, key |-> x.key, read |-> x.read, cooled |-> x.cooled]

\* A scan, and a row, of which one field is replaced.
SetPc(x, v) == [x EXCEPT !.pc = v]
SetUnread(x, v) == [x EXCEPT !.unread = v]
SetTodo(x, v) == [x EXCEPT !.todo = v]
SetNormals(x, v) == [x EXCEPT !.normals = v]
SetId(x, v) == [x EXCEPT !.id = v]
SetState(x, v) == [x EXCEPT !.state = v]
SetKey(x, v) == [x EXCEPT !.key = v]
SetRead(x, v) == [x EXCEPT !.read = v]
SetCooled(x, v) == [x EXCEPT !.cooled = v]

Shape ==
  /\ scan = [s \in Scans |-> scan[s]] /\ \A s \in Scans : IsScan(scan[s])
  /\ row = [n \in Rows |-> row[n]] /\ \A n \in Rows : IsRow(row[n])

\* The notification a delivery is about to follow up, if it has chosen one.
Chosen(x, rows) ==
  /\ x.pc \notin {"consult", "normal", "write"} => x.id = None
  /\ x.id # None =>
       /\ x.id \in Rows
       /\ rows[x.id].state # "absent" /\ rows[x.id].key = Head(x.todo)
       /\ rows[x.id].read /\ rows[x.id].cooled

IInv == Shape /\ OneDelivery /\ \A s \in Scans : Chosen(scan[s], row)

-----------------------------------------------------------------------------
LEMMA InitIInv == Init => IInv
<1> SUFFICES ASSUME Init PROVE IInv
  OBVIOUS
<1>1. Shape
  BY DEF Init, Shape, IsScan, IsRow, NoScan, NoRow
<1>2. \A s \in Scans : scan[s].pc = "idle" /\ scan[s].id = None
  BY DEF Init, NoScan
<1> QED BY <1>1, <1>2 DEF IInv, OneDelivery, Holding, Chosen

\* The least of a set of numbers that is not empty is one of them.
LEMMA MinIsIn ==
  ASSUME NEW S \in SUBSET Nat, S # {}
  PROVE  Min(S) \in S
BY LeastNumber DEF Min

\* A scan that becomes another record is that record, the others stay.
LEMMA Replaced ==
  ASSUME Shape, NEW s \in Scans, NEW new, Becomes(s, new)
  PROVE  /\ scan' = [t \in Scans |-> scan'[t]]
         /\ \A t \in Scans : scan'[t] = IF t = s THEN new ELSE scan[t]
BY DEF Shape, Becomes

\* A record of scans that changes in one field keeps the others.
LEMMA Fields ==
  ASSUME NEW x, IsScan(x), NEW v
  PROVE  /\ IsScan(SetPc(x, v)) /\ SetPc(x, v).pc = v /\ SetPc(x, v).todo = x.todo
         /\ SetPc(x, v).id = x.id
         /\ IsScan(SetUnread(x, v)) /\ SetUnread(x, v).unread = v /\ SetUnread(x, v).pc = x.pc
         /\ SetUnread(x, v).todo = x.todo /\ SetUnread(x, v).id = x.id
         /\ IsScan(SetTodo(x, v)) /\ SetTodo(x, v).todo = v /\ SetTodo(x, v).pc = x.pc
         /\ SetTodo(x, v).id = x.id
         /\ IsScan(SetNormals(x, v)) /\ SetNormals(x, v).normals = v /\ SetNormals(x, v).pc = x.pc
         /\ SetNormals(x, v).todo = x.todo /\ SetNormals(x, v).id = x.id
         /\ IsScan(SetId(x, v)) /\ SetId(x, v).id = v /\ SetId(x, v).pc = x.pc
         /\ SetId(x, v).todo = x.todo
<1>1. /\ SetPc(x, v) = [pc |-> v, unread |-> x.unread, todo |-> x.todo,
          normals |-> x.normals, id |-> x.id]
      /\ SetUnread(x, v) = [pc |-> x.pc, unread |-> v, todo |-> x.todo,
          normals |-> x.normals, id |-> x.id]
      /\ SetTodo(x, v) = [pc |-> x.pc, unread |-> x.unread, todo |-> v,
          normals |-> x.normals, id |-> x.id]
      /\ SetNormals(x, v) = [pc |-> x.pc, unread |-> x.unread, todo |-> x.todo,
          normals |-> v, id |-> x.id]
      /\ SetId(x, v) = [pc |-> x.pc, unread |-> x.unread, todo |-> x.todo,
          normals |-> x.normals, id |-> v]
  BY DEF IsScan, SetPc, SetUnread, SetTodo, SetNormals, SetId
<1> QED BY <1>1 DEF IsScan

\* A step of one scan that leaves alone the notifications others have chosen.
LEMMA ScanStepIInv ==
  ASSUME IInv, NEW s \in Scans, NEW new, Becomes(s, new), IsScan(new),
         new.pc \in Holding =>
           /\ new.todo = scan[s].todo
           /\ scan[s].pc \in Holding \/ ~Locked(Head(scan[s].todo)),
         row' = [n \in Rows |-> row'[n]], \A n \in Rows : IsRow(row'[n]),
         Chosen(new, row'),
         \A t \in Scans : t # s => Chosen(scan[t], row') \/ row' = row
  PROVE  IInv'
<1>r. \A t \in Scans : scan'[t] = IF t = s THEN new ELSE scan[t]
  BY Replaced DEF IInv
<1>1. Shape'
  <2>1. scan' = [t \in Scans |-> scan'[t]]
    BY Replaced DEF IInv
  <2> QED BY <1>r, <2>1 DEF IInv, Shape
<1>2. OneDelivery'
  <2>1. ASSUME NEW t \in Scans, t # s, new.pc \in Holding, scan[t].pc \in Holding
        PROVE  Head(new.todo) # Head(scan[t].todo)
    BY <2>1 DEF IInv, OneDelivery, Locked
  <2> QED BY <1>r, <2>1 DEF IInv, OneDelivery
<1>3. \A t \in Scans : Chosen(scan'[t], row')
  BY <1>r DEF IInv
<1> QED BY <1>1, <1>2, <1>3 DEF IInv

\* Changes of the table after which every chosen notification may still be followed up.
RowsKept ==
  /\ row' = [n \in Rows |-> row'[n]]
  /\ \A n \in Rows :
       /\ IsRow(row'[n])
       /\ row[n].state # "absent" =>
            /\ row'[n].state # "absent" /\ row'[n].key = row[n].key
            /\ row[n].read => row'[n].read
            /\ row[n].cooled => row'[n].cooled

LEMMA SameRows == ASSUME IInv, row' = row PROVE RowsKept
BY DEF IInv, Shape, RowsKept

LEMMA KeptChosen ==
  ASSUME IInv, RowsKept, NEW x, Chosen(x, row)
  PROVE  Chosen(x, row')
BY DEF RowsKept, Chosen

\* A row of which one field changes.
LEMMA RowFields ==
  ASSUME NEW x, IsRow(x), NEW v
  PROVE  /\ IsRow(SetState(x, v)) /\ SetState(x, v).state = v /\ SetState(x, v).key = x.key
         /\ SetState(x, v).read = x.read /\ SetState(x, v).cooled = x.cooled
         /\ IsRow(SetKey(x, v)) /\ SetKey(x, v).key = v /\ SetKey(x, v).state = x.state
         /\ SetKey(x, v).read = x.read /\ SetKey(x, v).cooled = x.cooled
         /\ IsRow(SetRead(x, v)) /\ SetRead(x, v).read = v /\ SetRead(x, v).state = x.state
         /\ SetRead(x, v).key = x.key /\ SetRead(x, v).cooled = x.cooled
         /\ IsRow(SetCooled(x, v)) /\ SetCooled(x, v).cooled = v /\ SetCooled(x, v).state = x.state
         /\ SetCooled(x, v).key = x.key /\ SetCooled(x, v).read = x.read
<1>1. /\ SetState(x, v) = [state |-> v, key |-> x.key, read |-> x.read, cooled |-> x.cooled]
      /\ SetKey(x, v) = [state |-> x.state, key |-> v, read |-> x.read, cooled |-> x.cooled]
      /\ SetRead(x, v) = [state |-> x.state, key |-> x.key, read |-> v, cooled |-> x.cooled]
      /\ SetCooled(x, v) = [state |-> x.state, key |-> x.key, read |-> x.read, cooled |-> v]
  BY DEF IsRow, SetState, SetKey, SetRead, SetCooled
<1> QED BY <1>1 DEF IsRow

\* A scan that is delivering nothing has chosen nothing.
LEMMA RestsIInv ==
  ASSUME IInv, RowsKept, NEW s \in Scans, NEW new, Becomes(s, new), IsScan(new),
         new.pc \notin Holding, new.id = None
  PROVE  IInv'
<1>1. Chosen(new, row')
  BY DEF Chosen
<1>2. \A t \in Scans : Chosen(scan[t], row')
  BY KeptChosen DEF IInv
<1> QED BY <1>1, <1>2, ScanStepIInv DEF RowsKept

\* The scan's record after a finding is dealt with.
LEMMA OnwardIs ==
  ASSUME IInv, NEW s \in Scans, NEW d
  PROVE  IsScan(Onward(s, d)) /\ Onward(s, d).pc \notin Holding /\ Onward(s, d).id = None
<1> DEFINE p == IF d # <<>> THEN "lock" ELSE "reconcile"
           new == SetPc(SetId(SetTodo(scan[s], d), None), p)
<1>1. Onward(s, d) = new
  BY DEF Onward, SetPc, SetId, SetTodo
<1>2. IsScan(scan[s]) /\ p \notin Holding
  BY DEF IInv, Shape, Holding
<1>3. IsScan(new) /\ new.pc = p /\ new.id = None
  <2> HIDE DEF p
  <2> QED BY <1>2, Fields
<1> HIDE DEF new
<1> QED BY <1>1, <1>2, <1>3

LEMMA DeliveredIInv ==
  ASSUME IInv, RowsKept, NEW s \in Scans, NEW d, Becomes(s, Onward(s, d))
  PROVE  IInv'
BY OnwardIs, RestsIInv

\* A delivery that goes on with the same finding.
LEMMA HoldsIInv ==
  ASSUME IInv, row' = row, NEW s \in Scans, NEW p \in Holding, Becomes(s, At(s, p)),
         scan[s].pc \in Holding \/ ~Locked(Head(scan[s].todo)),
         p \in {"consult", "normal", "write"} \/ scan[s].id = None
  PROVE  IInv'
<1>1. IsScan(At(s, p)) /\ At(s, p).pc = p /\ At(s, p).id = scan[s].id
     /\ At(s, p).todo = scan[s].todo
  <2>1. IsScan(scan[s]) /\ At(s, p) = SetPc(scan[s], p)
    BY DEF At, SetPc, IInv, Shape
  <2> QED BY <2>1, Fields
<1>2. Chosen(At(s, p), row')
  BY <1>1 DEF IInv, Chosen
<1> QED BY <1>1, <1>2, ScanStepIInv DEF IInv, Shape

-----------------------------------------------------------------------------
LEMMA ReadIInv ==
  ASSUME IInv, NEW s \in Scans,
         \/ Start(s) \/ ReadAccount(s) \/ ReadAccountFails(s)
         \/ \E c \in Campaigns : ReadCampaign(s, c) \/ ReadFails(s, c)
  PROVE  IInv'
<1>0. row' = row
  BY DEF Start, ReadAccount, ReadAccountFails, ReadCampaign, ReadFails
<1>k. RowsKept
  BY <1>0, SameRows
<1>i. IsScan(scan[s]) /\ (scan[s].pc = "reading" => scan[s].id = None) /\ "reading" \notin Holding
  BY DEF IInv, Shape, Chosen, Holding
<1>1. CASE Start(s)
  <2> DEFINE new == SetUnread(SetPc(NoScan, "reading"), Campaigns)
  <2>1. IsScan(NoScan) /\ NoScan.id = None
    BY DEF NoScan, IsScan
  <2>2. IsScan(new) /\ new.pc \notin Holding /\ new.id = None
    BY <2>1, Fields DEF Holding
  <2>3. Becomes(s, new)
    BY <1>1 DEF Start, SetPc, SetUnread
  <2> HIDE DEF new
  <2> QED BY <1>k, <2>2, <2>3, RestsIInv
<1>2. CASE ReadAccount(s) \/ ReadAccountFails(s)
  <2>1. \E d : Becomes(s, Onward(s, d))
    BY <1>2 DEF ReadAccount, ReadAccountFails
  <2> QED BY <1>k, <2>1, DeliveredIInv
<1>3. ASSUME NEW c \in Campaigns, ReadCampaign(s, c) PROVE IInv'
  <2> DEFINE todo == scan[s].todo \o CampaignFindings(c)
             normals == scan[s].normals \cup ({Silence(c)} \ wrong)
             new == SetNormals(SetTodo(SetUnread(scan[s], scan[s].unread \ {c}), todo), normals)
  <2>1. Becomes(s, new) /\ scan[s].pc = "reading"
    BY <1>3 DEF ReadCampaign, SetUnread, SetTodo, SetNormals
  <2>3. IsScan(new) /\ new.pc \notin Holding /\ new.id = None
    <3> HIDE DEF todo, normals
    <3> QED BY <1>i, <2>1, Fields
  <2> HIDE DEF new
  <2> QED BY <1>k, <2>1, <2>3, RestsIInv
<1>4. ASSUME NEW c \in Campaigns, ReadFails(s, c) PROVE IInv'
  <2> DEFINE new == SetUnread(scan[s], scan[s].unread \ {c})
  <2>1. Becomes(s, new) /\ scan[s].pc = "reading"
    BY <1>4 DEF ReadFails, SetUnread
  <2>3. IsScan(new) /\ new.pc \notin Holding /\ new.id = None
    BY <1>i, <2>1, Fields
  <2> HIDE DEF new
  <2> QED BY <1>k, <2>1, <2>3, RestsIInv
<1> QED BY <1>1, <1>2, <1>3, <1>4

LEMMA DeliveryIInv ==
  ASSUME IInv, NEW s \in Scans,
         Enter(s) \/ AskIgnored(s) \/ ConsultFinds(s) \/ ConsultFails(s)
  PROVE  IInv'
<1> DEFINE k == Head(scan[s].todo)
<1>0. row' = row
  BY DEF Enter, AskIgnored, ConsultFinds, ConsultFails
<1>1. \/ \E d : Becomes(s, Onward(s, d))
      \/ \E p \in Holding : /\ Becomes(s, At(s, p))
                            /\ scan[s].pc \in Holding \/ ~Locked(k)
                           
                            /\ \/ p \in {"consult", "normal", "write"}
                               \/ scan[s].pc \in {"lock", "ignored"}
  BY DEF Enter, AskIgnored, ConsultFinds, ConsultFails, Delivered, Holding
<1>2. scan[s].pc \in {"lock", "ignored"} => scan[s].id = None
  BY DEF IInv, Chosen
<1>3. ASSUME NEW d, Becomes(s, Onward(s, d)) PROVE IInv'
  BY <1>0, <1>3, SameRows, DeliveredIInv
<1> QED BY <1>0, <1>1, <1>2, <1>3, HoldsIInv

\* The look at the open notification: the one it chooses was read and is cooled.
LEMMA AskStateIInv ==
  ASSUME IInv, NEW s \in Scans, AskState(s)
  PROVE  IInv'
<1> DEFINE k == Head(scan[s].todo)
<1>0. row' = row /\ scan[s].pc = "state" /\ Check(k) \in {"consult", "write"}
      /\ scan[s].pc \in Holding /\ {"consult", "write"} \subseteq Holding
  BY DEF AskState, Check, Holding
<1>1. CASE OpenRows(k) = {}
  <2>1. Becomes(s, At(s, Check(k)))
    BY <1>1 DEF AskState
  <2>2. Check(k) \in Holding
    BY <1>0
  <2>3. Check(k) \in {"consult", "normal", "write"}
    BY <1>0
  <2> QED BY <1>0, <2>1, <2>2, <2>3, HoldsIInv
<1>2. ASSUME NEW n \in OpenRows(k), ~(row[n].read /\ row[n].cooled), Becomes(s, Delivered(s))
      PROVE  IInv'
  BY <1>0, <1>2, SameRows, DeliveredIInv DEF Delivered
<1>3. ASSUME NEW n \in OpenRows(k), row[n].read, row[n].cooled,
             Becomes(s, [At(s, Check(k)) EXCEPT !.id = n])
      PROVE  IInv'
  <2> DEFINE new == SetId(At(s, Check(k)), n)
  <2>1. IsScan(At(s, Check(k))) /\ At(s, Check(k)).pc = Check(k)
       /\ At(s, Check(k)).todo = scan[s].todo
    <3>1. IsScan(scan[s]) /\ At(s, Check(k)) = SetPc(scan[s], Check(k))
      BY DEF At, SetPc, IInv, Shape
    <3> QED BY <3>1, Fields
  <2>2. IsScan(new) /\ new.pc = Check(k) /\ new.todo = scan[s].todo /\ new.id = n
    BY <2>1, Fields
  <2>3. Becomes(s, new)
    BY <1>3 DEF SetId
  <2> HIDE DEF new
  <2>4. n \in Rows /\ row[n].state = "open" /\ row[n].key = k
    BY DEF OpenRows
  <2>5. Chosen(new, row')
    BY <1>0, <1>3, <2>2, <2>4 DEF Chosen
  <2> QED BY <1>0, <2>2, <2>3, <2>5, ScanStepIInv DEF IInv, Shape
<1> QED BY <1>1, <1>2, <1>3 DEF AskState

-----------------------------------------------------------------------------
(* Writes to the table.                                                    *)

LEMMA ClosedRows ==
  ASSUME IInv, NEW found, NEW resolution, resolution # "absent",
         row' = [n \in Rows |-> IF n \in found THEN Close(n, resolution) ELSE row[n]]
  PROVE  RowsKept
<1>1. ASSUME NEW n \in Rows
      PROVE  /\ IsRow(row'[n]) /\ row'[n].key = row[n].key /\ row'[n].read = row[n].read
             /\ row'[n].cooled = row[n].cooled
             /\ row'[n].state = row[n].state \/ row'[n].state = resolution
  <2>1. IsRow(row[n]) /\ Close(n, resolution) = SetState(row[n], resolution)
    BY DEF Close, SetState, IInv, Shape
  <2> QED BY <2>1, RowFields
<1>2. row' = [n \in Rows |-> row'[n]]
  OBVIOUS
<1> QED BY <1>1, <1>2 DEF RowsKept

LEMMA ReconcileIInv ==
  ASSUME IInv, NEW s \in Scans, CloseNormal(s) \/ Reconcile(s)
  PROVE  IInv'
<1>1. RowsKept
  BY ClosedRows DEF CloseNormal, Reconcile, AutoResolve
<1>2. \/ Becomes(s, Delivered(s))
      \/ Becomes(s, NoScan)
  BY DEF CloseNormal, Reconcile
<1>3. IsScan(NoScan) /\ NoScan.pc \notin Holding /\ NoScan.id = None
  BY DEF NoScan, IsScan, Holding
<1> QED BY <1>1, <1>2, <1>3, RestsIInv, DeliveredIInv DEF Delivered

LEMMA StoreFailsIInv ==
  ASSUME IInv, NEW s \in Scans, StoreFails(s)
  PROVE  IInv'
<1>1. RowsKept /\ (Becomes(s, Delivered(s)) \/ Becomes(s, NoScan))
  BY SameRows DEF StoreFails
<1>2. IsScan(NoScan) /\ NoScan.pc \notin Holding /\ NoScan.id = None
  BY DEF NoScan, IsScan, Holding
<1> QED BY <1>1, <1>2, RestsIInv, DeliveredIInv DEF Delivered

\* The write: nobody else has chosen the row it takes, since their keys differ, or
\* since the row is not there yet.
LEMMA WriteIInv ==
  ASSUME IInv, NEW s \in Scans, FollowUp(s) \/ Insert(s)
  PROVE  IInv'
<1> DEFINE k == Head(scan[s].todo)
           new == Delivered(s)
<1>i. IsScan(new) /\ new.pc \notin Holding /\ new.id = None
  BY OnwardIs DEF Delivered
<1>b. Becomes(s, new)
  BY DEF FollowUp, Insert
<1>h. Chosen(scan[s], row) /\ scan[s].pc = "write" /\ scan[s].pc \in Holding
  BY DEF FollowUp, Insert, IInv, Holding
<1>c. Chosen(new, row')
  BY <1>i DEF Chosen
\* A row is written that no other delivery has chosen.
<1>w. ASSUME NEW m \in Rows, NEW x, IsRow(x), row' = [row EXCEPT ![m] = x],
             \A t \in Scans : t # s => scan[t].id # m
      PROVE  IInv'
  <2>1. row' = [n \in Rows |-> row'[n]] /\ \A n \in Rows : IsRow(row'[n])
    BY <1>w DEF IInv, Shape
  <2>2. \A n \in Rows : n # m => row'[n] = row[n]
    BY <1>w DEF IInv, Shape
  <2>3. ASSUME NEW t \in Scans, t # s PROVE Chosen(scan[t], row')
    BY <1>w, <2>2, <2>3 DEF IInv, Chosen
  <2> HIDE DEF new
  <2> QED BY <1>i, <1>b, <1>c, <2>1, <2>3, ScanStepIInv
<1>1. CASE FollowUp(s)
  <2> DEFINE n == scan[s].id
             x == SetCooled(SetRead(row[n], FALSE), FALSE)
  <2>1. n \in Rows /\ row[n].key = k
    BY <1>1, <1>h DEF FollowUp, Chosen
  <2>2. row' = [row EXCEPT ![n] = x]
    <3>1. row = [m \in Rows |-> row[m]]
      BY DEF IInv, Shape
    <3> QED BY <1>1, <2>1, <3>1 DEF FollowUp, SetRead, SetCooled
  <2>3. IsRow(x)
    BY <2>1, RowFields DEF IInv, Shape
  <2>4. ASSUME NEW t \in Scans, t # s PROVE scan[t].id # n
    <3> SUFFICES ASSUME scan[t].id = n PROVE FALSE
      OBVIOUS
    <3>1. scan[t].id # None
      BY <1>1 DEF FollowUp
    <3>2. scan[t].pc \in Holding /\ row[n].key = Head(scan[t].todo)
      BY <3>1 DEF IInv, Chosen, Holding
    <3> QED BY <1>h, <2>1, <2>4, <3>2 DEF IInv, OneDelivery
  <2> HIDE DEF x
  <2> QED BY <1>w, <2>1, <2>2, <2>3, <2>4
<1>2. CASE Insert(s)
  <2>1. CASE row' = row
    BY <1>i, <1>b, <2>1, SameRows, RestsIInv
  <2>2. CASE row' # row
    <3> DEFINE m == Min(Unused)
               x == SetKey(SetState(NoRow, "open"), k)
    <3>1. Unused # {} /\ row' = [row EXCEPT ![m] = x]
      <4>1. OpenRows(k) = {}
        BY <1>2, <2>2 DEF Insert
      <4> QED BY <1>2, <4>1 DEF Insert, SetState, SetKey
    <3>2. m \in Unused
      <4>1. Unused \in SUBSET Nat
        BY DEF Unused, Rows
      <4> QED BY <3>1, <4>1, MinIsIn
    <3>4. IsRow(x)
      <4>1. IsRow(NoRow)
        BY DEF NoRow, IsRow
      <4> QED BY <4>1, RowFields
    <3>5. m \in Rows /\ row[m].state = "absent"
      BY <3>2 DEF Unused
    <3>6. \A t \in Scans : scan[t].id # m
      BY <3>5 DEF IInv, Chosen, Rows, None
    <3> HIDE DEF m, x
    <3> QED BY <1>w, <3>1, <3>4, <3>5, <3>6
  <2> QED BY <2>1, <2>2
<1> QED BY <1>1, <1>2

LEMMA ElsewhereIInv ==
  ASSUME IInv, Elsewhere \/ UNCHANGED vars
  PROVE  IInv'
<1>1. scan' = scan
  BY DEF Elsewhere, MarkRead, CooldownEnds, Resolve, ResolveByCampaign, WorldChanges,
     ScanCooldownEnds, vars
<1>2. RowsKept
  <2>1. ASSUME NEW n \in Rows, NEW x, IsRow(x), row' = [row EXCEPT ![n] = x],
               x.state = row[n].state \/ x.state # "absent", x.key = row[n].key,
               row[n].read => x.read, row[n].cooled => x.cooled
        PROVE  RowsKept
    BY <2>1 DEF IInv, Shape, RowsKept
  <2>2. ASSUME NEW n \in Rows, MarkRead(n) PROVE RowsKept
    <3> DEFINE x == SetRead(row[n], TRUE)
    <3>1. row' = [row EXCEPT ![n] = x] /\ IsRow(row[n])
      BY <2>2 DEF SetRead, MarkRead, IInv, Shape
    <3>2. IsRow(x) /\ x.read = TRUE /\ x.key = row[n].key /\ x.cooled = row[n].cooled
         /\ x.state = row[n].state
      <4>1. \A v : IsRow(SetRead(row[n], v)) /\ SetRead(row[n], v).read = v
        BY <3>1, RowFields
      <4>2. \A v : /\ SetRead(row[n], v).key = row[n].key /\ SetRead(row[n], v).state = row[n].state
                   /\ SetRead(row[n], v).cooled = row[n].cooled
        BY <3>1, RowFields
      <4> QED BY <4>1, <4>2
    <3> HIDE DEF x
    <3> QED BY <2>1, <3>1, <3>2
  <2>3. ASSUME NEW n \in Rows, CooldownEnds(n) PROVE RowsKept
    <3> DEFINE x == SetCooled(row[n], TRUE)
    <3>1. row' = [row EXCEPT ![n] = x] /\ IsRow(row[n])
      BY <2>3 DEF SetCooled, CooldownEnds, IInv, Shape
    <3>2. IsRow(x) /\ x.cooled = TRUE /\ x.key = row[n].key /\ x.read = row[n].read
         /\ x.state = row[n].state
      BY <3>1, RowFields
    <3> HIDE DEF x
    <3> QED BY <2>1, <3>1, <3>2
  <2>4. ASSUME NEW n \in Rows, NEW resolution \in {"ignored", "actioned"}, Resolve(n, resolution)
        PROVE  RowsKept
    <3> DEFINE x == SetState(row[n], resolution)
    <3>1. row' = [row EXCEPT ![n] = x] /\ IsRow(row[n])
      BY <2>4 DEF SetState, Resolve, Close, IInv, Shape
    <3>2. IsRow(x) /\ x.state = resolution /\ x.key = row[n].key /\ x.read = row[n].read
         /\ x.cooled = row[n].cooled
      BY <3>1, RowFields
    <3> HIDE DEF x
    <3> QED BY <2>1, <3>1, <3>2, <2>4
  <2>5. ASSUME NEW c \in Campaigns, ResolveByCampaign(c) PROVE RowsKept
    BY <2>5, ClosedRows DEF ResolveByCampaign
  <2>6. CASE row' = row
    BY <2>6, SameRows
  <2> QED BY <2>2, <2>3, <2>4, <2>5, <2>6 DEF Elsewhere, WorldChanges, ScanCooldownEnds, vars
<1>3. \A s \in Scans : Chosen(scan[s], row')
  BY <1>2, KeptChosen DEF IInv
<1> QED BY <1>1, <1>2, <1>3 DEF IInv, Shape, RowsKept, OneDelivery

LEMMA NextIInv == IInv /\ [Next]_vars => IInv'
BY ReadIInv, DeliveryIInv, AskStateIInv, ReconcileIInv, StoreFailsIInv, WriteIInv, ElsewhereIInv
   DEF Next, ScanStep

LEMMA IInvHolds == Spec => []IInv
BY InitIInv, NextIInv, PTL DEF Spec

\* The lock of a dedup key has one holder, and what is delivered under it does not
\* change until it is released.
THEOREM Exclusive == Spec => []OneDelivery
<1>1. IInv => OneDelivery
  BY DEF IInv
<1> QED BY <1>1, IInvHolds, PTL

\* A notification that a delivery has chosen to follow up stays read and cooled until
\* that delivery writes, whatever users and other scans do meanwhile.
THEOREM FollowedWereRead == Spec => []FollowUpsWereRead
<1>1. IInv => FollowUpsWereRead
  BY DEF IInv, Chosen, FollowUpsWereRead
<1> QED BY <1>1, IInvHolds, PTL
=============================================================================
