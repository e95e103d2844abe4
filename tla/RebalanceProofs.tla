-------------------------- MODULE RebalanceProofs ---------------------------
(***************************************************************************)
(* Theorems about Rebalance, for any number of requests, dashboards and    *)
(* campaigns, any bodies and any bounds: variables keep their types, locks *)
(* exclude each other and no requests wait in a circle.  As long as no GET *)
(* is overtaken by a write and no failed reply hides one, what was         *)
(* validated is live when it is written, reports are true, and the total   *)
(* budget is accounted for.                                                *)
(***************************************************************************)
EXTENDS Rebalance, Sums

\* The awaits inside _campaign_budget_guard() once it holds every lock.
Guarded == ReadPCs \cup {"gotFrom", "gotTo", "validate", "approving", "writing",
                         "backoff", "recording"}

Getting(r) == pc[r] \in {"gotFrom", "gotTo"}

\* A GET that was sent has an answer on its way.
Answered == \A r \in Requests : Getting(r) => answer[r] # NoBudgets

\* A guarded request holds the locks of its campaigns.
Guards == \A r \in Requests :
  pc[r] \in Guarded => lock[body[r].from] = r /\ lock[body[r].to] = r

\* A write that was applied and not yet acknowledged: only its campaign may be cached
\* with an old budget.
Midway(r) == pc[r] = "writing" /\ wire[r] = "applied"

CacheIsLive ==
  \A k \in Campaigns :
    \/ cache = NoBudgets
    \/ cache[k] = budget[k]
    \/ \E r \in Requests : Midway(r) /\ Target(r) = k

AnswersAreLive == \A x \in Readers : answer[x] \in {NoBudgets, budget}

\* What a request has read and not yet changed by a write of its own.
BeforeWrite(r) ==
  \/ pc[r] \in {"validate", "approving"}
  \/ pc[r] = "writing" /\ leg[r] = "dec" /\ wire[r] = "sent"
  \/ pc[r] = "backoff" /\ leg[r] = "dec"

Knows(r) ==
  /\ BeforeWrite(r) \/ pc[r] \in {"readTo", "gotTo"} => before[r].from = budget[body[r].from]
  /\ BeforeWrite(r) /\ Rebalancing(r) => before[r].to = budget[body[r].to]

Live == CacheIsLive /\ AnswersAreLive /\ \A r \in Requests : Knows(r)

Orderly == ~LostReplies /\ ~OvertakenReads

-----------------------------------------------------------------------------
(* Types, answers and locks, with whatever replies and reads.              *)

Basis == TypeOK /\ Answered /\ Guards

LEMMA Bodied ==
  ASSUME TypeOK, NEW r \in Requests
  PROVE  /\ body[r].from \in Campaigns /\ body[r].to \in Campaigns
         /\ body[r].kind \in {"single", "rebalance"}
         /\ body[r].fromAfter \in Nat /\ body[r].toAfter \in Nat
         /\ Target(r) \in Campaigns /\ Amount(r) \in Nat
<1>1. body[r] \in Body
  BY RebalanceAssumption DEF TypeOK, RebalanceAssumption
<1>2. before[r].from \in Nat /\ leg[r] \in {"dec", "inc", "comp"}
  BY DEF TypeOK
<1> QED BY <1>1, <1>2 DEF Body, Target, Amount

\* There are campaigns if there are requests, so that a list of budgets is not empty.
LEMMA NotEmpty ==
  ASSUME TypeOK, NEW r \in Requests, NEW b \in [Campaigns -> Nat]
  PROVE  b # NoBudgets
<1>1. PICK k : k \in DOMAIN b
  BY Bodied
<1>2. DOMAIN NoBudgets = {}
  BY DEF NoBudgets
<1> QED BY <1>1, <1>2

LEMMA InitBasis == Init => Basis
<1> SUFFICES ASSUME Init PROVE Basis
  OBVIOUS
<1>1. TypeOK
  <2>1. /\ FreshTries \in [timeouts : 0..MaxTimeoutRetries, rates : 0..MaxRateRetries]
        /\ 0 \in 0..MaxFaults /\ 0 \in 0..MaxRestarts
    BY RebalanceAssumption DEF RebalanceAssumption, FreshTries
  <2>2. InitialBudget \in [Campaigns -> Nat]
    BY RebalanceAssumption DEF RebalanceAssumption
  <2> QED BY <2>1, <2>2 DEF Init, TypeOK
<1> QED BY <1>1 DEF Init, Basis, Answered, Getting, Guards, Guarded, ReadPCs

\* A step of one request that takes no lock of another.
LEMMA BasisStep ==
  ASSUME Basis, NEW r \in Requests, TypeOK', body' = body,
         \A q \in Requests : q # r => pc'[q] = pc[q] /\ answer'[q] = answer[q],
         \A k \in Campaigns : lock[k] \in Requests \ {r} => lock'[k] = lock[k],
         Getting(r)' => answer'[r] # NoBudgets,
         pc'[r] \in Guarded => lock'[body[r].from] = r /\ lock'[body[r].to] = r
  PROVE  Basis'
<1>1. ASSUME NEW q \in Requests, q # r, pc'[q] \in Guarded
      PROVE  lock'[body'[q].from] = q /\ lock'[body'[q].to] = q
  <2>1. lock[body[q].from] = q /\ lock[body[q].to] = q
    BY <1>1 DEF Basis, Guards
  <2>2. body[q].from \in Campaigns /\ body[q].to \in Campaigns
    BY Bodied DEF Basis
  <2> QED BY <1>1, <2>1, <2>2
<1>2. Guards'
  BY <1>1 DEF Guards
<1>3. Answered'
  BY DEF Basis, Answered, Getting
<1> QED BY <1>2, <1>3 DEF Basis

\* The same for a step that leaves the locks alone and does not enter the guard.
LEMMA StayStep ==
  ASSUME Basis, NEW r \in Requests, TypeOK', UNCHANGED <<body, lock>>,
         \A q \in Requests : q # r => pc'[q] = pc[q] /\ answer'[q] = answer[q],
         Getting(r)' => answer'[r] # NoBudgets,
         pc'[r] \in Guarded => pc[r] \in Guarded
  PROVE  Basis'
<1>1. pc'[r] \in Guarded => lock'[body[r].from] = r /\ lock'[body[r].to] = r
  BY DEF Basis, Guards
<1> QED BY <1>1, BasisStep

\* The same for a step that ends a request and gives back its locks.
LEMMA FinishStep ==
  ASSUME Basis, NEW r \in Requests, NEW o \in {"none", "refused", "failed", "success",
         "compensated", "halted", "error"}, Finish(r, o), body' = body,
         \A q \in Requests : q # r => answer'[q] = answer[q],
         TypeOK => TypeOK'
  PROVE  Basis'
<1>1. /\ pc'[r] = "done" /\ \A q \in Requests : q # r => pc'[q] = pc[q]
      /\ \A k \in Campaigns : lock[k] \in Requests \ {r} => lock'[k] = lock[k]
  BY DEF Finish, Goto, Basis, TypeOK
<1>2. "done" \notin Guarded
  BY DEF Guarded, ReadPCs
<1> QED BY <1>1, <1>2, BasisStep DEF Basis, Getting

LEMMA FinishType ==
  ASSUME TypeOK, NEW r \in Requests, NEW o \in {"none", "refused", "failed", "success",
         "compensated", "halted", "error"}, Finish(r, o),
         UNCHANGED <<body, before, budget, looking, restarts>>,
         cache' \in {cache, NoBudgets}, answer' \in [Readers -> [Campaigns -> Nat] \cup {NoBudgets}],
         leg' = leg, wire' = wire, tries' = tries, faults' \in 0..MaxFaults
  PROVE  TypeOK'
BY DEF TypeOK, Finish, Goto

\* A request that only reads, thinks or waits: locks and tables stay as they are.
LEMMA MoveType ==
  ASSUME TypeOK, NEW r \in Requests, NEW p \in Guarded, Goto(r, p),
         UNCHANGED <<budget, lock, body, tries, result, looking, faults, restarts>>,
         cache' \in [Campaigns -> Nat] \cup {NoBudgets},
         before' \in [Requests -> [from : Nat, to : Nat]],
         answer' \in [Readers -> [Campaigns -> Nat] \cup {NoBudgets}],
         leg' = leg, wire' \in [Requests -> {"sent", "applied"}]
  PROVE  TypeOK'
BY DEF TypeOK, Goto, Guarded

LEMMA RecordType ==
  ASSUME TypeOK, NEW r \in Requests, NEW b \in [Campaigns -> Nat], Record(r, b)
  PROVE  before' \in [Requests -> [from : Nat, to : Nat]]
<1>1. b[body[r].from] \in Nat /\ b[body[r].to] \in Nat
  BY Bodied
<1>2. \A n \in Nat : /\ [before[r] EXCEPT !.from = n] \in [from : Nat, to : Nat]
                     /\ [before[r] EXCEPT !.to = n] \in [from : Nat, to : Nat]
  BY DEF TypeOK
<1> QED BY <1>1, <1>2 DEF TypeOK, Record

LEMMA ReadBasis ==
  ASSUME Basis, NEW r \in Requests, ReadCached(r) \/ ReadSent(r) \/ ReadAnswered(r)
  PROVE  Basis'
<1>1. \E p \in Guarded : Goto(r, p) /\ (p \in {"gotFrom", "gotTo"} => ReadSent(r))
  BY DEF ReadCached, ReadSent, ReadAnswered, AfterRead, Guarded, ReadPCs
<1>2. pc[r] \in Guarded /\ UNCHANGED <<budget, lock, body, leg, wire, tries, result, looking,
                                       faults, restarts>>
  BY DEF ReadCached, ReadSent, ReadAnswered, Guarded
<1>3. /\ cache' \in [Campaigns -> Nat] \cup {NoBudgets}
      /\ before' \in [Requests -> [from : Nat, to : Nat]]
      /\ answer' \in [Readers -> [Campaigns -> Nat] \cup {NoBudgets}]
  <2>1. CASE ReadCached(r)
    BY <2>1, RecordType DEF ReadCached, Basis, TypeOK
  <2>2. CASE ReadSent(r)
    BY <2>2 DEF ReadSent, Basis, TypeOK
  <2>3. CASE ReadAnswered(r)
    <3>1. answer[r] \in [Campaigns -> Nat]
      BY <2>3 DEF ReadAnswered, Basis, TypeOK, Answered, Getting, Readers
    <3>2. before' \in [Requests -> [from : Nat, to : Nat]]
      BY <2>3, <3>1, RecordType DEF ReadAnswered, Basis
    <3> QED BY <2>3, <3>1, <3>2 DEF ReadAnswered, Basis, TypeOK
  <2> QED BY <2>1, <2>2, <2>3
<1>4. /\ \A q \in Requests : q # r => pc'[q] = pc[q] /\ answer'[q] = answer[q]
      /\ \E p \in Guarded : pc'[r] = p
  BY <1>1 DEF Goto, Basis, TypeOK, ReadCached, ReadSent, ReadAnswered, Readers
<1>5. ASSUME Getting(r)' PROVE answer'[r] # NoBudgets
  <2>1. ReadSent(r)
    BY <1>1, <1>5 DEF Getting, Goto, Basis, TypeOK
  <2>2. answer'[r] = budget /\ budget \in [Campaigns -> Nat]
    BY <2>1 DEF ReadSent, Basis, TypeOK, Readers
  <2> QED BY <2>2, NotEmpty DEF Basis
<1>6. TypeOK'
  <2>1. wire' \in [Requests -> {"sent", "applied"}]
    BY <1>2 DEF Basis, TypeOK
  <2> QED BY <1>1, <1>2, <1>3, <2>1, MoveType DEF Basis
<1> QED BY <1>2, <1>4, <1>5, <1>6, StayStep

\* The locks are acquired one by one; the last one opens the guard.
LEMMA LockBasis ==
  ASSUME Basis, NEW r \in Requests, Arrive(r) \/ Acquire(r)
  PROVE  Basis'
<1>t. /\ pc \in [Requests -> ReadPCs \cup
             {"idle", "locking", "gotFrom", "gotTo", "validate", "approving",
              "writing", "backoff", "recording", "done", "crashed"}]
      /\ lock \in [Campaigns -> Requests \cup {Nobody}]
  BY DEF Basis, TypeOK
<1>1. CASE Arrive(r)
  <2>1. /\ pc' = [pc EXCEPT ![r] = "locking"]
        /\ UNCHANGED <<budget, cache, lock, body, before, answer, leg, wire, tries,
                       result, looking, faults, restarts>>
    BY <1>1 DEF Arrive, Goto
  <2>2. TypeOK'
    BY <2>1 DEF Basis, TypeOK
  <2> QED BY <2>1, <2>2, <1>t, StayStep DEF Getting, Guarded, ReadPCs
<1>2. CASE Acquire(r)
  <2> DEFINE k == NextLock(r)
  <2>1. /\ \E p \in {"readFrom", "locking"} :
             /\ pc' = [pc EXCEPT ![r] = p]
             /\ p = "readFrom" => Wanted(r) = Locked(r) \cup {k}
        /\ lock[k] = Nobody /\ lock' = [lock EXCEPT ![k] = r]
        /\ UNCHANGED <<budget, cache, body, before, answer, leg, wire, tries,
                       result, looking, faults, restarts>>
    BY <1>2 DEF Acquire, Goto
  <2>2. TypeOK'
    <3>1. PICK p \in {"readFrom", "locking"} : pc' = [pc EXCEPT ![r] = p]
      BY <2>1
    <3>2. /\ pc' \in [Requests -> ReadPCs \cup
               {"idle", "locking", "gotFrom", "gotTo", "validate", "approving",
                "writing", "backoff", "recording", "done", "crashed"}]
          /\ lock' \in [Campaigns -> Requests \cup {Nobody}]
      <4> HIDE DEF k
      <4> QED BY <2>1, <3>1, <1>t DEF ReadPCs
    <3> QED BY <2>1, <3>2 DEF Basis, TypeOK
  <2>3. \A c \in Campaigns : lock[c] \in Requests \ {r} => lock'[c] = lock[c]
    BY <2>1, <1>t, RebalanceAssumption DEF RebalanceAssumption
  <2>4. ASSUME pc'[r] \in Guarded PROVE lock'[body[r].from] = r /\ lock'[body[r].to] = r
    <3>1. Wanted(r) = Locked(r) \cup {k}
      BY <2>1, <2>4, <1>t DEF Guarded, ReadPCs
    <3>2. \A c \in Wanted(r) : c \in Campaigns /\ (c = k \/ lock[c] = r)
      BY <3>1, Bodied DEF Wanted, Locked, Basis
    <3>3. \A c \in Wanted(r) : lock'[c] = r
      BY <3>2, <2>1, <1>t
    <3> QED BY <3>3 DEF Wanted
  <2>5. ~Getting(r)' /\ \A q \in Requests : q # r => pc'[q] = pc[q] /\ answer'[q] = answer[q]
    BY <2>1, <1>t DEF Getting
  <2> QED BY <2>1, <2>2, <2>3, <2>4, <2>5, BasisStep
<1> QED BY <1>1, <1>2

\* A step that ends its request, whatever else it says of the outcome.
LEMMA DoneBasis ==
  ASSUME Basis, NEW r \in Requests, NEW o \in {"none", "refused", "failed", "success",
         "compensated", "halted", "error"}, Finish(r, o),
         UNCHANGED <<body, before, budget, looking, restarts, leg, wire, tries>>,
         cache' \in {cache, NoBudgets}, faults' \in 0..MaxFaults,
         answer' \in {answer, [answer EXCEPT ![r] = NoBudgets]}
  PROVE  Basis'
<1>1. answer' \in [Readers -> [Campaigns -> Nat] \cup {NoBudgets}]
  BY DEF Basis, TypeOK
<1>2. \A q \in Requests : q # r => answer'[q] = answer[q]
  BY DEF Basis, TypeOK, Readers
<1>3. TypeOK'
  BY <1>1, FinishType DEF Basis
<1> QED BY <1>2, <1>3, FinishStep

LEMMA DecideBasis ==
  ASSUME Basis, NEW r \in Requests, Validate(r) \/ Approve(r) \/ RecordOutcome(r) \/ Fault(r)
  PROVE  Basis'
<1>1. \/ \E o \in {"none", "refused", "failed", "success", "compensated", "halted", "error"} :
           Finish(r, o)
      \/ /\ pc[r] \in Guarded /\ \E p \in {"approving", "writing"} : Goto(r, p)
         /\ UNCHANGED <<lock, result, answer, faults>>
  BY DEF Validate, Approve, RecordOutcome, Fault, Basis, TypeOK, Guarded
<1>2. /\ UNCHANGED <<body, before, budget, looking, restarts, leg, wire, tries, cache>>
      /\ faults' \in 0..MaxFaults
      /\ answer' \in {answer, [answer EXCEPT ![r] = NoBudgets]}
  BY RebalanceAssumption DEF Validate, Approve, RecordOutcome, Fault, Basis, TypeOK, RebalanceAssumption
<1>3. ASSUME NEW o \in {"none", "refused", "failed", "success", "compensated", "halted", "error"},
             Finish(r, o)
      PROVE  Basis'
  BY <1>2, <1>3, DoneBasis
<1>4. ASSUME pc[r] \in Guarded, NEW p \in {"approving", "writing"}, Goto(r, p),
             UNCHANGED <<lock, result, answer, faults>>
      PROVE  Basis'
  <2>1. TypeOK'
    <3>1. p \in Guarded
      BY DEF Guarded
    <3> QED BY <1>2, <1>4, <3>1, MoveType DEF Basis, TypeOK
  <2>2. pc'[r] = p /\ \A q \in Requests : q # r => pc'[q] = pc[q]
    BY <1>4 DEF Goto, Basis, TypeOK
  <2> QED BY <1>2, <1>4, <2>1, <2>2, StayStep DEF Getting
<1> QED BY <1>1, <1>3, <1>4

LEMMA StartLegType ==
  ASSUME TypeOK, NEW r \in Requests, NEW next \in {"dec", "inc", "comp"}, StartLeg(r, next)
  PROVE  /\ leg' \in [Requests -> {"dec", "inc", "comp"}]
         /\ wire' \in [Requests -> {"sent", "applied"}]
         /\ tries' \in [Requests -> [timeouts : 0..MaxTimeoutRetries, rates : 0..MaxRateRetries]]
<1>1. FreshTries \in [timeouts : 0..MaxTimeoutRetries, rates : 0..MaxRateRetries]
  BY RebalanceAssumption DEF RebalanceAssumption, FreshTries
<1> QED BY <1>1 DEF StartLeg, TypeOK

\* A write that goes on: its request stays in the guard.
LEMMA WriteOn ==
  ASSUME Basis, NEW r \in Requests, TypeOK', pc[r] \in Guarded, NEW p \in Guarded,
         p \notin {"gotFrom", "gotTo"}, pc' = [pc EXCEPT ![r] = p], UNCHANGED <<body, lock, answer>>
  PROVE  Basis'
<1>1. pc'[r] = p /\ \A q \in Requests : q # r => pc'[q] = pc[q]
  BY DEF Basis, TypeOK
<1> QED BY <1>1, StayStep DEF Getting

LEMMA WriteBasis ==
  ASSUME Basis, NEW r \in Requests,
         \/ PlatformApplies(r) \/ WriteSucceeds(r) \/ BackOff(r)
         \/ \E reply \in Failures : WriteRetries(r, reply) \/ WriteFails(r, reply)
  PROVE  Basis'
<1>t. TypeOK /\ pc[r] \in Guarded /\ {"writing", "backoff", "recording"} \subseteq Guarded
      /\ [pc EXCEPT ![r] = pc[r]] = pc
  BY DEF Basis, TypeOK, PlatformApplies, WriteSucceeds, BackOff, WriteRetries, WriteFails, Guarded
<1>p. \A p \in {"writing", "backoff", "recording"} : Goto(r, p) => pc' = [pc EXCEPT ![r] = p]
  BY DEF Goto
<1>1. CASE PlatformApplies(r)
  <2>1. pc[r] = "writing" /\ UNCHANGED <<pc, lock, body, answer>>
    BY <1>1 DEF PlatformApplies
  <2>2. TypeOK'
    BY <1>1, <1>t, Bodied DEF PlatformApplies, TypeOK
  <2> QED BY <1>t, <2>1, <2>2, WriteOn
<1>2. CASE WriteSucceeds(r)
  <2>0. cache' = NoBudgets /\ pc[r] = "writing" /\ UNCHANGED <<budget, body, before, answer,
                                                               looking, faults, restarts>>
    BY <1>2 DEF WriteSucceeds, CacheCleared
  <2>1. CASE StartLeg(r, "inc") /\ UNCHANGED <<lock, pc, result>>
    <3>1. TypeOK'
      BY <2>0, <2>1, <1>t, StartLegType DEF TypeOK
    <3> QED BY <2>0, <2>1, <3>1, <1>t, WriteOn
  <2>2. CASE Finish(r, "success") /\ UNCHANGED <<leg, wire, tries>>
    BY <2>0, <2>2, DoneBasis DEF Basis, TypeOK
  <2>3. CASE Goto(r, "recording") /\ result' = [result EXCEPT ![r] = "compensated"]
             /\ UNCHANGED <<lock, leg, wire, tries>>
    <3>1. TypeOK'
      BY <2>0, <2>3, <1>t DEF TypeOK, Goto
    <3> QED BY <2>0, <2>3, <3>1, <1>t, <1>p, WriteOn
  <2> QED BY <1>2, <2>1, <2>2, <2>3 DEF WriteSucceeds
<1>3. CASE BackOff(r)
  <2>1. TypeOK'
    BY <1>3, <1>t DEF BackOff, TypeOK, Goto
  <2> QED BY <1>3, <2>1, <1>t, <1>p, WriteOn DEF BackOff
<1>4. ASSUME NEW reply \in Failures, WriteRetries(r, reply) PROVE Basis'
  <2> DEFINE m == IF reply = "timeout" THEN tries[r].timeouts + 1 ELSE tries[r].timeouts
             n == IF reply = "rate_limited" THEN tries[r].rates + 1 ELSE tries[r].rates
  <2>0. /\ tries[r] \in [timeouts : 0..MaxTimeoutRetries, rates : 0..MaxRateRetries]
        /\ tries[r].timeouts \in 0..MaxTimeoutRetries /\ tries[r].rates \in 0..MaxRateRetries
        /\ MaxTimeoutRetries \in Nat /\ MaxRateRetries \in Nat
    BY <1>t, RebalanceAssumption DEF TypeOK, RebalanceAssumption
  <2>1. m \in 0..MaxTimeoutRetries /\ n \in 0..MaxRateRetries
    BY <1>4, <2>0 DEF WriteRetries, Retried
  <2>2. tries' = [tries EXCEPT ![r] = [tries[r] EXCEPT !.timeouts = m, !.rates = n]]
    BY <1>4 DEF WriteRetries
  <2>3. [tries[r] EXCEPT !.timeouts = m, !.rates = n]
          \in [timeouts : 0..MaxTimeoutRetries, rates : 0..MaxRateRetries]
    <3> HIDE DEF m, n
    <3> QED BY <2>0, <2>1
  <2> HIDE DEF m, n
  <2>4. tries' \in [Requests -> [timeouts : 0..MaxTimeoutRetries, rates : 0..MaxRateRetries]]
    BY <2>2, <2>3, <1>t DEF TypeOK
  <2>5. TypeOK'
    BY <1>4, <2>4, <1>t DEF WriteRetries, TypeOK, Goto
  <2> QED BY <1>4, <2>5, <1>t, <1>p, WriteOn DEF WriteRetries
<1>5. ASSUME NEW reply \in Failures, WriteFails(r, reply) PROVE Basis'
  <2>0. pc[r] = "writing" /\ UNCHANGED <<budget, cache, body, before, answer, looking, faults,
                                         restarts>>
    BY <1>5 DEF WriteFails
  <2>1. CASE StartLeg(r, "comp") /\ UNCHANGED <<lock, pc, result>>
    <3>1. TypeOK'
      BY <2>0, <2>1, <1>t, StartLegType DEF TypeOK
    <3> QED BY <2>0, <2>1, <3>1, <1>t, WriteOn
  <2>2. CASE Finish(r, "failed") /\ UNCHANGED <<leg, wire, tries>>
    BY <2>0, <2>2, DoneBasis DEF Basis, TypeOK
  <2>3. CASE Goto(r, "recording") /\ result' = [result EXCEPT ![r] = "halted"]
             /\ UNCHANGED <<lock, leg, wire, tries>>
    <3>1. TypeOK'
      BY <2>0, <2>3, <1>t DEF TypeOK, Goto
    <3> QED BY <2>0, <2>3, <3>1, <1>t, <1>p, WriteOn
  <2> QED BY <1>5, <2>1, <2>2, <2>3 DEF WriteFails
<1> QED BY <1>1, <1>2, <1>3, <1>4, <1>5

\* Dashboards, expiry of the cache, restarts.
LEMMA OutsideBasis ==
  ASSUME Basis, \/ \E d \in Dashboards : Look(d) \/ LookAnswered(d)
                \/ CacheExpires \/ Restart \/ UNCHANGED vars
  PROVE  Basis'
<1>t. TypeOK BY DEF Basis
<1>1. ASSUME NEW d \in Dashboards, Look(d) \/ LookAnswered(d) PROVE Basis'
  <2>1. d \in Readers /\ d \notin Requests
    BY RebalanceAssumption DEF RebalanceAssumption, Readers
  <2>2. \A q \in Requests : answer'[q] = answer[q]
    BY <1>1, <2>1, <1>t DEF Look, LookAnswered, TypeOK, Readers
  <2>3. TypeOK'
    BY <1>1, <2>1, <1>t DEF Look, LookAnswered, TypeOK, request
  <2> QED BY <1>1, <2>2, <2>3 DEF Look, LookAnswered, request, Basis, Answered, Getting, Guards
<1>2. CASE CacheExpires
  BY <1>2, <1>t DEF CacheExpires, request, Basis, TypeOK, Answered, Getting, Guards
<1>3. CASE Restart
  <2>1. TypeOK'
    BY <1>3, <1>t, RebalanceAssumption DEF Restart, TypeOK, RebalanceAssumption
  <2>2. \A q \in Requests : pc'[q] \in {"idle", "done", "crashed"}
    BY <1>3 DEF Restart
  <2> QED BY <2>1, <2>2 DEF Basis, Answered, Getting, Guards, Guarded, ReadPCs
<1>4. CASE UNCHANGED vars
  BY <1>4, <1>t DEF vars, Basis, TypeOK, Answered, Getting, Guards
<1> QED BY <1>1, <1>2, <1>3, <1>4

LEMMA NextBasis == Basis /\ [Next]_vars => Basis'
BY ReadBasis, LockBasis, DecideBasis, WriteBasis, OutsideBasis DEF Next, Continue

\* Every variable keeps its type, whatever replies, readers and mishaps there are.
THEOREM RebalanceType == Spec => []TypeOK
<1>1. Basis => TypeOK
  BY DEF Basis
<1> QED BY <1>1, InitBasis, NextBasis, PTL DEF Spec

-----------------------------------------------------------------------------
(* Nobody waits in a circle, and nobody goes away with a lock.             *)

Waiting(r) == pc[r] = "locking"

\* Of any requests that wait, one waits for a lock that is free or that a request
\* outside of them holds: requests that cross do not wait for each other.
NoCircle ==
  \A W \in SUBSET {r \in Requests : Waiting(r)} :
    W # {} => \E r \in W : lock[NextLock(r)] \notin W

\* A lock that is held belongs to a request that waits for another one or works
\* inside the guard, and is one of those this request asked for.
NoneLeft ==
  \A k \in Campaigns :
    lock[k] # Nobody =>
      /\ lock[k] \in Requests /\ k \in Wanted(lock[k])
      /\ Waiting(lock[k]) \/ pc[lock[k]] \in Guarded

\* A waiting request still lacks a lock, and has only locks of smaller campaigns.
Ascends(r) ==
  Waiting(r) =>
    /\ Wanted(r) \ Locked(r) # {}
    /\ \A h \in Locked(r), w \in Wanted(r) \ Locked(r) : h < w

Ranked == TypeOK /\ NoneLeft /\ \A r \in Requests : Ascends(r)

LEMMA WantedInCampaigns ==
  ASSUME TypeOK, NEW r \in Requests
  PROVE  Wanted(r) \in SUBSET Campaigns /\ Wanted(r) # {} /\ Campaigns \subseteq Nat
BY Bodied, RebalanceAssumption DEF Wanted, Campaigns, RebalanceAssumption

LEMMA LeastWanted ==
  ASSUME TypeOK, NEW r \in Requests, Wanted(r) \ Locked(r) # {}
  PROVE  /\ NextLock(r) \in Wanted(r) \ Locked(r) /\ NextLock(r) \in Campaigns
         /\ \A w \in Wanted(r) \ Locked(r) : NextLock(r) <= w
<1>1. Wanted(r) \ Locked(r) \in SUBSET Nat
  BY WantedInCampaigns
<1>2. PICK m \in Wanted(r) \ Locked(r) : \A y \in Wanted(r) \ Locked(r) : m <= y
  BY <1>1, LeastNumber
<1>3. /\ NextLock(r) \in Wanted(r) \ Locked(r)
      /\ \A w \in Wanted(r) \ Locked(r) : NextLock(r) <= w
  BY <1>2 DEF NextLock, Min
<1> QED BY <1>3, WantedInCampaigns

\* A request that takes the least lock it lacks has locks of smaller campaigns only.
LEMMA AcquireRanked ==
  ASSUME Ranked, NEW r \in Requests, Acquire(r)
  PROVE  NoneLeft' /\ \A q \in Requests : Ascends(q)'
<1> DEFINE k == NextLock(r)
<1>1. /\ pc[r] = "locking" /\ lock[k] = Nobody /\ lock' = [lock EXCEPT ![k] = r]
      /\ body' = body
      /\ pc' = [pc EXCEPT ![r] = IF Wanted(r) = Locked(r) \cup {k} THEN "readFrom" ELSE "locking"]
  BY DEF Acquire, Goto
<1>2. /\ k \in Wanted(r) \ Locked(r) /\ k \in Campaigns
      /\ \A w \in Wanted(r) \ Locked(r) : k <= w
  BY <1>1, LeastWanted DEF Ranked, Ascends, Waiting
<1>3. /\ lock \in [Campaigns -> Requests \cup {Nobody}] /\ Nobody \notin Requests
      /\ \A q \in Requests : pc'[q] = IF q = r
           THEN IF Wanted(r) = Locked(r) \cup {k} THEN "readFrom" ELSE "locking"
           ELSE pc[q]
  BY <1>1, RebalanceAssumption DEF Ranked, TypeOK, RebalanceAssumption
<1> HIDE DEF k
<1>4. /\ \A h \in Campaigns : lock'[h] = IF h = k THEN r ELSE lock[h]
      /\ \A q \in Requests : Wanted(q)' = Wanted(q)
  BY <1>1, <1>2, <1>3 DEF Wanted
<1>5. Locked(r)' = Locked(r) \cup {k} /\ \A q \in Requests : q # r => Locked(q)' = Locked(q)
  BY <1>1, <1>2, <1>3, <1>4 DEF Locked
<1>6. NoneLeft'
  <2> SUFFICES ASSUME NEW h \in Campaigns, lock'[h] # Nobody
               PROVE  /\ lock'[h] \in Requests /\ h \in Wanted(lock[h])'
                      /\ Waiting(lock[h])' \/ pc'[lock'[h]] \in Guarded
    BY DEF NoneLeft
  <2>1. CASE h = k
    BY <2>1, <1>2, <1>3, <1>4 DEF Wanted, Waiting, Guarded, ReadPCs
  <2>2. CASE h # k
    <3>1. /\ lock'[h] = lock[h] /\ lock[h] \in Requests /\ h \in Wanted(lock[h])
          /\ Waiting(lock[h]) \/ pc[lock[h]] \in Guarded
      BY <2>2, <1>4 DEF Ranked, NoneLeft
    <3> QED BY <3>1, <1>1, <1>3 DEF Wanted, Waiting, Guarded, ReadPCs
  <2> QED BY <2>1, <2>2
<1>7. Ascends(r)'
  <2> SUFFICES ASSUME Wanted(r) # Locked(r) \cup {k}
               PROVE  /\ Wanted(r) \ (Locked(r) \cup {k}) # {}
                      /\ \A h \in Locked(r) \cup {k}, w \in Wanted(r) \ (Locked(r) \cup {k}) : h < w
    BY <1>3, <1>4, <1>5 DEF Ascends, Waiting
  <2>1. \A h \in Locked(r), w \in Wanted(r) \ Locked(r) : h < w
    BY <1>1 DEF Ranked, Ascends, Waiting
  <2>2. Locked(r) \cup {k} \subseteq Wanted(r)
    BY <1>2, <1>3 DEF Ranked, NoneLeft, Locked
  <2>3. Wanted(r) \subseteq Nat
    BY WantedInCampaigns DEF Ranked
  <2> QED BY <1>2, <2>1, <2>2, <2>3
<1>8. ASSUME NEW q \in Requests, q # r PROVE Ascends(q)'
  <2>1. Ascends(q) /\ Wanted(q)' = Wanted(q) /\ Locked(q)' = Locked(q) /\ pc'[q] = pc[q]
    BY <1>8, <1>3, <1>4, <1>5 DEF Ranked
  <2> QED BY <2>1 DEF Ascends, Waiting
<1> QED BY <1>6, <1>7, <1>8

\* A request inside the guard goes on, or one without locks begins to wait.
LEMMA KeepsLocks ==
  ASSUME Ranked, NEW r \in Requests, UNCHANGED <<lock, body>>,
         \/ pc[r] \in Guarded /\ \E p \in Guarded : Goto(r, p)
         \/ pc[r] = "idle" /\ Goto(r, "locking")
         \/ UNCHANGED pc
  PROVE  NoneLeft' /\ \A q \in Requests : Ascends(q)'
<1>1. \A q \in Requests : Wanted(q)' = Wanted(q) /\ Locked(q)' = Locked(q)
  BY DEF Wanted, Locked
<1>2. \A q \in Requests : q # r => pc'[q] = pc[q]
  BY DEF Ranked, TypeOK, Goto
<1>3. \/ pc[r] \in Guarded /\ pc'[r] \in Guarded
      \/ pc[r] = "idle" /\ pc'[r] = "locking"
      \/ pc'[r] = pc[r]
  BY DEF Ranked, TypeOK, Goto
<1>4. "locking" \notin Guarded /\ "idle" \notin Guarded
  BY DEF Guarded, ReadPCs
<1>5. NoneLeft'
  <2> SUFFICES ASSUME NEW h \in Campaigns, lock'[h] # Nobody
               PROVE  /\ lock'[h] \in Requests /\ h \in Wanted(lock[h])'
                      /\ Waiting(lock[h])' \/ pc'[lock'[h]] \in Guarded
    BY DEF NoneLeft
  <2>1. /\ lock'[h] = lock[h] /\ lock[h] \in Requests /\ h \in Wanted(lock[h])
        /\ Waiting(lock[h]) \/ pc[lock[h]] \in Guarded
    BY DEF Ranked, NoneLeft
  <2> QED BY <2>1, <1>2, <1>3, <1>4 DEF Wanted, Waiting
<1>6. Ascends(r)'
  <2>1. CASE pc[r] = "idle"
    <3>1. Locked(r) = {}
      BY <2>1, <1>4, RebalanceAssumption
      DEF Ranked, NoneLeft, Locked, Waiting, RebalanceAssumption
    <3>2. Wanted(r) # {}
      BY WantedInCampaigns DEF Ranked
    <3> QED BY <3>1, <3>2, <1>1 DEF Ascends
  <2>2. CASE pc[r] # "idle"
    <3>1. pc'[r] = "locking" => pc[r] = "locking"
      BY <2>2, <1>3, <1>4
    <3>2. Ascends(r) /\ Wanted(r)' = Wanted(r) /\ Locked(r)' = Locked(r)
      BY <1>1 DEF Ranked
    <3> QED BY <3>1, <3>2 DEF Ascends, Waiting
  <2> QED BY <2>1, <2>2
<1>7. ASSUME NEW q \in Requests, q # r PROVE Ascends(q)'
  <2>1. Ascends(q) /\ Wanted(q)' = Wanted(q) /\ Locked(q)' = Locked(q) /\ pc'[q] = pc[q]
    BY <1>7, <1>1, <1>2 DEF Ranked
  <2> QED BY <2>1 DEF Ascends, Waiting
<1> QED BY <1>5, <1>6, <1>7

\* The handler returns or raises: it takes all its locks with it.
LEMMA LeavesLocks ==
  ASSUME Ranked, NEW r \in Requests, UNCHANGED body, Goto(r, "done"),
         lock' = [k \in Campaigns |-> IF lock[k] = r THEN Nobody ELSE lock[k]]
  PROVE  NoneLeft' /\ \A q \in Requests : Ascends(q)'
<1>1. /\ \A q \in Requests : pc'[q] = IF q = r THEN "done" ELSE pc[q]
      /\ \A q \in Requests : Wanted(q)' = Wanted(q)
      /\ \A h \in Campaigns : lock'[h] = IF lock[h] = r THEN Nobody ELSE lock[h]
      /\ Nobody \notin Requests
  BY RebalanceAssumption DEF Ranked, TypeOK, Goto, Wanted, RebalanceAssumption
<1>2. \A q \in Requests : q # r => Locked(q)' = Locked(q)
  BY <1>1 DEF Locked
<1>3. NoneLeft'
  <2> SUFFICES ASSUME NEW h \in Campaigns, lock'[h] # Nobody
               PROVE  /\ lock'[h] \in Requests /\ h \in Wanted(lock[h])'
                      /\ Waiting(lock[h])' \/ pc'[lock'[h]] \in Guarded
    BY DEF NoneLeft
  <2>1. lock'[h] = lock[h] /\ lock[h] # r /\ lock[h] # Nobody
    BY <1>1
  <2>2. /\ lock[h] \in Requests /\ h \in Wanted(lock[h])
        /\ Waiting(lock[h]) \/ pc[lock[h]] \in Guarded
    BY <2>1 DEF Ranked, NoneLeft
  <2> QED BY <2>1, <2>2, <1>1 DEF Wanted, Waiting
<1>4. ASSUME NEW q \in Requests PROVE Ascends(q)'
  <2>1. CASE q = r
    BY <2>1, <1>1 DEF Ascends, Waiting
  <2>2. CASE q # r
    <3>1. Ascends(q) /\ Wanted(q)' = Wanted(q) /\ Locked(q)' = Locked(q) /\ pc'[q] = pc[q]
      BY <2>2, <1>1, <1>2 DEF Ranked
    <3> QED BY <3>1 DEF Ascends, Waiting
  <2> QED BY <2>1, <2>2
<1> QED BY <1>3, <1>4

LEMMA RestartLeavesLocks ==
  ASSUME Restart
  PROVE  NoneLeft' /\ \A q \in Requests : Ascends(q)'
<1>1. \A k \in Campaigns : lock'[k] = Nobody
  BY DEF Restart
<1>2. \A q \in Requests : pc'[q] # "locking"
  BY DEF Restart
<1> QED BY <1>1, <1>2 DEF NoneLeft, Ascends, Waiting

LEMMA NextRanked == Ranked /\ TypeOK' /\ [Next]_vars => Ranked'
<1> SUFFICES ASSUME Ranked, TypeOK', [Next]_vars
             PROVE  NoneLeft' /\ \A q \in Requests : Ascends(q)'
  BY DEF Ranked
<1>1. ASSUME NEW r \in Requests,
             \/ Arrive(r) \/ ReadCached(r) \/ ReadSent(r) \/ ReadAnswered(r)
             \/ PlatformApplies(r) \/ BackOff(r)
             \/ \E reply \in Failures : WriteRetries(r, reply)
      PROVE  NoneLeft' /\ \A q \in Requests : Ascends(q)'
  <2>1. /\ UNCHANGED <<lock, body>>
        /\ \/ pc[r] \in Guarded /\ \E p \in Guarded : Goto(r, p)
           \/ pc[r] = "idle" /\ Goto(r, "locking")
           \/ UNCHANGED pc
    BY <1>1 DEF Arrive, ReadCached, ReadSent, ReadAnswered, AfterRead, PlatformApplies,
         BackOff, WriteRetries, Guarded, ReadPCs
  <2> QED BY <2>1, KeepsLocks
<1>2. ASSUME NEW r \in Requests,
             \/ Validate(r) \/ Approve(r) \/ WriteSucceeds(r) \/ RecordOutcome(r) \/ Fault(r)
             \/ \E reply \in Failures : WriteFails(r, reply)
      PROVE  NoneLeft' /\ \A q \in Requests : Ascends(q)'
  <2>1. /\ UNCHANGED body
        /\ \/ /\ UNCHANGED lock
              /\ \/ pc[r] \in Guarded /\ \E p \in Guarded : Goto(r, p)
                 \/ UNCHANGED pc
           \/ /\ Goto(r, "done")
              /\ lock' = [k \in Campaigns |-> IF lock[k] = r THEN Nobody ELSE lock[k]]
    BY <1>2 DEF Validate, Approve, WriteSucceeds, WriteFails, RecordOutcome, Fault, Finish,
         Guarded, ReadPCs
  <2> QED BY <2>1, KeepsLocks, LeavesLocks
<1>3. ASSUME NEW r \in Requests, Acquire(r)
      PROVE  NoneLeft' /\ \A q \in Requests : Ascends(q)'
  BY <1>3, AcquireRanked
<1>4. CASE \/ \E d \in Dashboards : Look(d) \/ LookAnswered(d)
           \/ CacheExpires \/ UNCHANGED vars
  <2>1. UNCHANGED <<lock, body, pc>>
    BY <1>4 DEF Look, LookAnswered, CacheExpires, request, vars
  <2> QED BY <2>1 DEF Ranked, NoneLeft, Ascends, Waiting, Wanted, Locked
<1>5. CASE Restart
  BY <1>5, RestartLeavesLocks
<1> QED BY <1>1, <1>2, <1>3, <1>4, <1>5 DEF Next, Continue

\* Of requests that wait for one another, the one that wants the greatest campaign waits
\* for none of them: whoever had that lock would want a greater one still.
LEMMA RankedHasNoCircle == Ranked => NoCircle
<1> SUFFICES ASSUME Ranked, NEW W \in SUBSET {r \in Requests : Waiting(r)}, W # {}
             PROVE  \E r \in W : lock[NextLock(r)] \notin W
  BY DEF NoCircle
<1> DEFINE wanted == {NextLock(r) : r \in W}
<1>1. \A r \in W : /\ r \in Requests /\ Wanted(r) \ Locked(r) # {}
                   /\ \A h \in Locked(r), w \in Wanted(r) \ Locked(r) : h < w
  BY DEF Ranked, Ascends
<1>2. \A r \in W : NextLock(r) \in Wanted(r) \ Locked(r) /\ NextLock(r) \in Campaigns
  BY <1>1, LeastWanted DEF Ranked
<1>3. NumCampaigns \in Nat /\ wanted \in SUBSET (0..NumCampaigns) /\ wanted # {}
  BY <1>2, RebalanceAssumption DEF RebalanceAssumption, Campaigns
<1>4. PICK m \in wanted : \A y \in wanted : y <= m
  <2> HIDE DEF wanted
  <2> QED BY <1>3, GreatestNumber
<1>5. PICK r \in W : m = NextLock(r)
  BY <1>4
<1>6. ASSUME lock[m] \in W PROVE FALSE
  <2> DEFINE q == lock[m]
  <2>1. m \in Locked(q)
    BY <1>2, <1>5 DEF Locked
  <2>2. m < NextLock(q)
    BY <1>1, <1>2, <1>6, <2>1
  <2>3. NextLock(q) <= m
    BY <1>4, <1>6
  <2>4. m \in Nat /\ NextLock(q) \in Nat
    BY <1>2, <1>5, <1>6, RebalanceAssumption DEF Campaigns, RebalanceAssumption
  <2> HIDE DEF q
  <2> QED BY <2>2, <2>3, <2>4
<1> QED BY <1>5, <1>6

\* Requests for crossing transfers are never deadlocked, and no request that returned,
\* raised or died keeps a lock: for any number of requests and campaigns, whatever fails.
THEOREM LocksAreOrdered == Spec => [](NoCircle /\ NoneLeft)
<1>1. Init => Ranked
  BY InitBasis DEF Basis, Ranked, Init, NoneLeft, Ascends, Waiting
<1>2. Basis /\ Ranked /\ [Next]_vars => (Basis /\ Ranked)'
  BY NextBasis, NextRanked DEF Basis
<1>3. Ranked => NoCircle /\ NoneLeft
  BY RankedHasNoCircle DEF Ranked
<1> QED BY <1>1, <1>2, <1>3, InitBasis, PTL DEF Spec

-----------------------------------------------------------------------------
(* What was read stays what the platform has.                              *)

IInv == Basis /\ Live

LEMMA InitLive == Init => Live
<1> SUFFICES ASSUME Init PROVE Live
  OBVIOUS
<1>1. CacheIsLive /\ AnswersAreLive
  BY DEF Init, CacheIsLive, AnswersAreLive
<1>2. \A r \in Requests : Knows(r)
  BY DEF Init, Knows, BeforeWrite
<1> QED BY <1>1, <1>2 DEF Live

\* A step that changes no budget: what others know and cache stays true.
LEMMA LiveStep ==
  ASSUME IInv, NEW r \in Requests, UNCHANGED <<budget, body>>,
         \A q \in Requests : q # r => /\ pc'[q] = pc[q] /\ before'[q] = before[q]
                                      /\ leg'[q] = leg[q] /\ wire'[q] = wire[q],
         cache' \in {NoBudgets, budget} \/ (cache' = cache /\ ~Midway(r)),
         \A x \in Readers : answer'[x] \in {NoBudgets, budget, answer[x]},
         Knows(r)'
  PROVE  Live'
<1>1. \A q \in Requests : Knows(q)'
  <2>1. ASSUME NEW q \in Requests, q # r PROVE Knows(q)'
    <3>1. Knows(q)
      BY DEF IInv, Live
    <3> QED BY <2>1, <3>1 DEF Knows, BeforeWrite, Rebalancing
  <2> QED BY <2>1
<1>2. AnswersAreLive'
  BY DEF IInv, Live, AnswersAreLive
<1>3. CacheIsLive'
  <2>1. CASE cache' = NoBudgets \/ cache' = budget
    BY <2>1 DEF CacheIsLive
  <2>2. CASE cache' = cache /\ ~Midway(r)
    <3>1. SUFFICES ASSUME NEW k \in Campaigns, cache # NoBudgets, cache[k] # budget[k]
                   PROVE  \E q \in Requests : Midway(q)' /\ Target(q)' = k
      BY <2>2 DEF CacheIsLive
    <3>2. PICK q \in Requests : Midway(q) /\ Target(q) = k
      BY <3>1 DEF IInv, Live, CacheIsLive
    <3>3. q # r
      BY <2>2, <3>2
    <3> QED BY <3>2, <3>3 DEF Midway, Target
  <2> QED BY <2>1, <2>2
<1> QED BY <1>1, <1>2, <1>3 DEF Live

\* What a guarded request reads is live: only a holder of its locks can be midway.
LEMMA CachedIsLive ==
  ASSUME IInv, NEW r \in Requests, pc[r] \in ReadPCs, cache # NoBudgets
  PROVE  cache[body[r].from] = budget[body[r].from] /\ cache[body[r].to] = budget[body[r].to]
<1>1. lock[body[r].from] = r /\ lock[body[r].to] = r /\ pc[r] # "writing"
  BY DEF IInv, Basis, Guards, Guarded, ReadPCs
<1>2. ASSUME NEW q \in Requests, Midway(q) PROVE lock[Target(q)] = q
  BY <1>2 DEF IInv, Basis, Guards, Guarded, Midway, Target
<1>3. ASSUME NEW q \in Requests, Midway(q)
      PROVE  Target(q) # body[r].from /\ Target(q) # body[r].to
  BY <1>1, <1>2, <1>3 DEF Midway
<1>4. body[r].from \in Campaigns /\ body[r].to \in Campaigns
  BY Bodied DEF IInv, Basis
<1> QED BY <1>3, <1>4 DEF IInv, Live, CacheIsLive

LEMMA ReadLive ==
  ASSUME IInv, NEW r \in Requests, ReadCached(r) \/ ReadSent(r) \/ ReadAnswered(r)
  PROVE  Live'
<1>t. /\ pc \in [Requests -> ReadPCs \cup
             {"idle", "locking", "gotFrom", "gotTo", "validate", "approving",
              "writing", "backoff", "recording", "done", "crashed"}]
      /\ before \in [Requests -> [from : Nat, to : Nat]]
      /\ answer \in [Readers -> [Campaigns -> Nat] \cup {NoBudgets}]
      /\ r \in Readers
  BY DEF IInv, Basis, TypeOK, Readers
<1>k. Knows(r)
  BY DEF IInv, Live
<1>d. body[r].kind \in {"single", "rebalance"}
  BY Bodied DEF IInv, Basis
<1>0. /\ UNCHANGED <<budget, body, leg, wire>> /\ ~Midway(r)
      /\ \A q \in Requests : q # r => pc'[q] = pc[q] /\ before'[q] = before[q]
  BY <1>t DEF ReadCached, ReadSent, ReadAnswered, AfterRead, Record, Goto, Midway, ReadPCs
\* The budget that is recorded, wherever it comes from.
<1>1. ASSUME NEW b, Record(r, b), AfterRead(r), pc[r] \in ReadPCs \cup {"gotFrom", "gotTo"},
             b[body[r].from] = budget[body[r].from] /\ b[body[r].to] = budget[body[r].to]
      PROVE  Knows(r)'
  <2>1. CASE pc[r] \in {"readFrom", "gotFrom"}
    <3>1. /\ before'[r].from = budget[body[r].from]
          /\ pc'[r] \in {"readTo", "validate"}
          /\ Rebalancing(r) => pc'[r] = "readTo"
      BY <1>1, <2>1, <1>t DEF Record, AfterRead, Goto, Rebalancing
    <3> QED BY <3>1, <1>0 DEF Knows, BeforeWrite, Rebalancing
  <2>2. CASE pc[r] \in {"readTo", "gotTo"}
    <3>1. /\ before'[r].from = before[r].from /\ before'[r].to = budget[body[r].to]
          /\ pc'[r] = "validate"
      BY <1>1, <2>2, <1>t DEF Record, AfterRead, Goto
    <3> QED BY <3>1, <1>0, <1>k, <2>2 DEF Knows, BeforeWrite, Rebalancing
  <2> QED BY <1>1, <2>1, <2>2 DEF ReadPCs
<1>2. CASE ReadCached(r)
  <2>1. /\ pc[r] \in ReadPCs /\ cache # NoBudgets /\ Record(r, cache) /\ AfterRead(r)
        /\ UNCHANGED <<cache, answer>>
    BY <1>2 DEF ReadCached
  <2>2. Knows(r)'
    BY <2>1, <1>1, CachedIsLive
  <2> QED BY <1>0, <2>1, <2>2, LiveStep
<1>3. CASE ReadSent(r)
  <2>1. /\ pc[r] \in ReadPCs /\ UNCHANGED <<cache, before>>
        /\ answer' = [answer EXCEPT ![r] = budget]
        /\ pc'[r] = IF pc[r] = "readFrom" THEN "gotFrom" ELSE "gotTo"
    BY <1>3, <1>t DEF ReadSent, Goto
  <2>2. Knows(r)'
    BY <2>1, <1>0, <1>k DEF Knows, BeforeWrite, ReadPCs, Rebalancing
  <2>3. \A x \in Readers : answer'[x] \in {NoBudgets, budget, answer[x]}
    BY <2>1, <1>t
  <2> QED BY <1>0, <2>1, <2>2, <2>3, LiveStep
<1>4. CASE ReadAnswered(r)
  <2>1. answer[r] = budget
    BY <1>4, <1>t DEF ReadAnswered, IInv, Live, AnswersAreLive, Basis, Answered, Getting
  <2>2. /\ Record(r, budget) /\ AfterRead(r) /\ cache' = budget
        /\ answer' = [answer EXCEPT ![r] = NoBudgets] /\ pc[r] \in {"gotFrom", "gotTo"}
    BY <1>4, <2>1 DEF ReadAnswered
  <2>3. Knows(r)'
    BY <2>2, <1>1
  <2>4. \A x \in Readers : answer'[x] \in {NoBudgets, budget, answer[x]}
    BY <2>2, <1>t
  <2> QED BY <1>0, <2>2, <2>3, <2>4, LiveStep
<1> QED BY <1>2, <1>3, <1>4

\* A step after which the request knows nothing that it did not know.
LEMMA KeepsLive ==
  ASSUME IInv, NEW r \in Requests, UNCHANGED <<budget, body, before>>,
         \A q \in Requests : q # r => pc'[q] = pc[q] /\ leg'[q] = leg[q] /\ wire'[q] = wire[q],
         cache' = NoBudgets \/ (cache' = cache /\ ~Midway(r)),
         \A x \in Readers : answer'[x] \in {NoBudgets, answer[x]},
         BeforeWrite(r)' => BeforeWrite(r),
         pc'[r] \notin {"readTo", "gotTo"}
  PROVE  Live'
<1>1. Knows(r)
  BY DEF IInv, Live
<1>2. Knows(r)'
  BY <1>1 DEF Knows, Rebalancing
<1> QED BY <1>2, LiveStep

LEMMA EndsLive ==
  ASSUME IInv, NEW r \in Requests, NEW o, Finish(r, o), UNCHANGED <<budget, body, before, leg, wire>>,
         cache' = NoBudgets \/ (cache' = cache /\ ~Midway(r)),
         \A x \in Readers : answer'[x] \in {NoBudgets, answer[x]}
  PROVE  Live'
<1>1. pc'[r] = "done" /\ \A q \in Requests : q # r => pc'[q] = pc[q]
  BY DEF Finish, Goto, IInv, Basis, TypeOK
<1> QED BY <1>1, KeepsLive DEF BeforeWrite

LEMMA DecideLive ==
  ASSUME IInv, NEW r \in Requests,
         \/ Arrive(r) \/ Acquire(r) \/ Validate(r) \/ Approve(r) \/ RecordOutcome(r) \/ Fault(r)
  PROVE  Live'
<1>t. /\ pc \in [Requests -> ReadPCs \cup
             {"idle", "locking", "gotFrom", "gotTo", "validate", "approving",
              "writing", "backoff", "recording", "done", "crashed"}]
      /\ answer \in [Readers -> [Campaigns -> Nat] \cup {NoBudgets}]
  BY DEF IInv, Basis, TypeOK
<1>1. /\ UNCHANGED <<budget, body, before, cache, leg, wire>> /\ ~Midway(r)
      /\ \A x \in Readers : answer'[x] \in {NoBudgets, answer[x]}
  BY <1>t DEF Arrive, Acquire, Validate, Approve, RecordOutcome, Fault, Midway
<1>2. \/ \E o : Finish(r, o)
      \/ \E p \in {"locking", "readFrom"} : Goto(r, p)
      \/ pc[r] \in {"validate", "approving"} /\ \E p \in {"approving", "writing"} : Goto(r, p)
  BY DEF Arrive, Acquire, Validate, Approve, RecordOutcome, Fault
<1>3. ASSUME NEW p, Goto(r, p), \/ p \in {"locking", "readFrom"}
                                \/ p \in {"approving", "writing"} /\ pc[r] \in {"validate", "approving"}
      PROVE  Live'
  <2>1. pc'[r] = p /\ \A q \in Requests : q # r => pc'[q] = pc[q]
    BY <1>3, <1>t DEF Goto
  <2> QED BY <1>1, <1>3, <2>1, KeepsLive DEF BeforeWrite
<1> QED BY <1>1, <1>2, <1>3, EndsLive

\* The write: its campaign is locked, so nobody else knows its budget, and no GET is
\* on its way.
LEMMA AppliesLive ==
  ASSUME ~OvertakenReads, IInv, NEW r \in Requests, PlatformApplies(r)
  PROVE  Live'
<1> DEFINE k == Target(r)
<1>t. /\ budget \in [Campaigns -> Nat] /\ wire \in [Requests -> {"sent", "applied"}]
      /\ k \in Campaigns /\ lock \in [Campaigns -> Requests \cup {Nobody}]
  BY Bodied DEF IInv, Basis, TypeOK
<1>1. /\ pc[r] = "writing" /\ \A x \in Readers : answer[x] = NoBudgets
      /\ budget' = [budget EXCEPT ![k] = Amount(r)] /\ wire' = [wire EXCEPT ![r] = "applied"]
      /\ UNCHANGED <<cache, lock, pc, body, before, answer, leg>>
  BY DEF PlatformApplies
<1>2. lock[k] = r
  BY <1>1 DEF IInv, Basis, Guards, Guarded, Target
<1>3. \A c \in Campaigns : c # k => budget'[c] = budget[c]
  BY <1>1, <1>t
<1>4. ASSUME NEW q \in Requests PROVE Knows(q)'
  <2>1. CASE q = r
    BY <1>1, <1>t, <2>1 DEF Knows, BeforeWrite
  <2>2. CASE q # r
    <3>1. ASSUME BeforeWrite(q) \/ pc[q] \in {"readTo", "gotTo"}
          PROVE  body[q].from # k /\ body[q].to # k
      <4>1. pc[q] \in Guarded
        BY <3>1 DEF BeforeWrite, Guarded, ReadPCs
      <4>2. lock[body[q].from] = q /\ lock[body[q].to] = q
        BY <4>1 DEF IInv, Basis, Guards
      <4> QED BY <4>2, <1>2, <2>2
    <3>2. body[q].from \in Campaigns /\ body[q].to \in Campaigns
      BY Bodied DEF IInv, Basis
    <3>3. wire'[q] = wire[q] /\ Knows(q)
      BY <1>1, <1>t, <2>2 DEF IInv, Live
    <3> QED BY <1>1, <1>3, <3>1, <3>2, <3>3 DEF Knows, BeforeWrite, Rebalancing
  <2> QED BY <2>1, <2>2
<1>5. CacheIsLive'
  <2>1. Midway(r)' /\ Target(r)' = k
    BY <1>1, <1>t DEF Midway, Target
  <2>2. ASSUME NEW q \in Requests, Midway(q) PROVE Midway(q)' /\ Target(q)' = Target(q)
    BY <1>1, <1>t, <2>2 DEF Midway, Target
  <2>3. ASSUME NEW c \in Campaigns, c # k, cache # NoBudgets, cache[c] # budget'[c]
        PROVE  \E q \in Requests : Midway(q)' /\ Target(q)' = c
    BY <1>3, <2>2, <2>3 DEF IInv, Live, CacheIsLive
  <2> QED BY <1>1, <2>1, <2>3 DEF CacheIsLive
<1>6. AnswersAreLive'
  BY <1>1 DEF AnswersAreLive
<1> QED BY <1>4, <1>5, <1>6 DEF Live

LEMMA WriteLive ==
  ASSUME Orderly, IInv, NEW r \in Requests,
         \/ PlatformApplies(r) \/ WriteSucceeds(r) \/ BackOff(r)
         \/ \E reply \in Failures : WriteRetries(r, reply) \/ WriteFails(r, reply)
  PROVE  Live'
<1>t. /\ pc \in [Requests -> ReadPCs \cup
             {"idle", "locking", "gotFrom", "gotTo", "validate", "approving",
              "writing", "backoff", "recording", "done", "crashed"}]
      /\ wire \in [Requests -> {"sent", "applied"}]
      /\ leg \in [Requests -> {"dec", "inc", "comp"}]
  BY DEF IInv, Basis, TypeOK
<1>1. CASE PlatformApplies(r)
  BY <1>1, AppliesLive DEF Orderly
<1>2. CASE WriteSucceeds(r)
  <2>1. /\ cache' = NoBudgets /\ UNCHANGED <<budget, body, before, answer>>
        /\ pc[r] = "writing" /\ wire[r] = "applied"
        /\ \A q \in Requests : q # r => pc'[q] = pc[q] /\ leg'[q] = leg[q] /\ wire'[q] = wire[q]
    BY <1>2, <1>t DEF WriteSucceeds, CacheCleared, StartLeg, Finish, Goto
  <2>2. pc'[r] \in {"done", "recording"} \/ (pc'[r] = "writing" /\ leg'[r] = "inc")
    BY <1>2, <1>t DEF WriteSucceeds, StartLeg, Finish, Goto
  <2> QED BY <2>1, <2>2, KeepsLive DEF BeforeWrite
<1>3. CASE BackOff(r)
  <2>1. /\ UNCHANGED <<budget, body, before, answer, cache, leg>>
        /\ pc[r] = "backoff" /\ pc'[r] = "writing"
        /\ \A q \in Requests : q # r => pc'[q] = pc[q] /\ wire'[q] = wire[q]
    BY <1>3, <1>t DEF BackOff, Goto
  <2> QED BY <2>1, KeepsLive DEF BeforeWrite, Midway
<1>4. ASSUME NEW reply \in Failures, WriteRetries(r, reply) PROVE Live'
  <2>1. /\ UNCHANGED <<budget, body, before, answer, cache, leg, wire>>
        /\ pc[r] = "writing" /\ wire[r] = "sent" /\ pc'[r] = "backoff"
        /\ \A q \in Requests : q # r => pc'[q] = pc[q]
    BY <1>4, <1>t DEF WriteRetries, ReplyMatchesWire, Goto, Orderly
  <2> QED BY <2>1, KeepsLive DEF BeforeWrite, Midway
<1>5. ASSUME NEW reply \in Failures, WriteFails(r, reply) PROVE Live'
  <2>1. /\ UNCHANGED <<budget, body, before, answer, cache>>
        /\ pc[r] = "writing" /\ wire[r] = "sent"
        /\ \A q \in Requests : q # r => pc'[q] = pc[q] /\ leg'[q] = leg[q] /\ wire'[q] = wire[q]
    BY <1>5, <1>t DEF WriteFails, ReplyMatchesWire, StartLeg, Finish, Goto, Orderly
  <2>2. pc'[r] \in {"done", "recording"} \/ (pc'[r] = "writing" /\ leg'[r] = "comp")
    BY <1>5, <1>t DEF WriteFails, StartLeg, Finish, Goto
  <2> QED BY <2>1, <2>2, KeepsLive DEF BeforeWrite, Midway
<1> QED BY <1>1, <1>2, <1>3, <1>4, <1>5

LEMMA OutsideLive ==
  ASSUME IInv, \/ \E d \in Dashboards : Look(d) \/ LookAnswered(d)
               \/ CacheExpires \/ Restart \/ UNCHANGED vars
  PROVE  Live'
<1>1. CASE Restart
  <2>1. /\ cache' = NoBudgets /\ \A x \in Readers : answer'[x] = NoBudgets
        /\ \A q \in Requests : pc'[q] \in {"idle", "done", "crashed"}
    BY <1>1 DEF Restart
  <2> QED BY <2>1 DEF Live, CacheIsLive, AnswersAreLive, Knows, BeforeWrite
<1>2. CASE ~Restart
  <2>1. /\ UNCHANGED <<budget, body, before, pc, leg, wire>>
        /\ cache' \in {NoBudgets, budget, cache}
        /\ \A x \in Readers : answer'[x] \in {NoBudgets, budget, answer[x]}
    BY <1>2 DEF Look, LookAnswered, CacheExpires, vars, request, IInv, Live, AnswersAreLive,
       Basis, TypeOK, Readers
  <2>2. \A q \in Requests : Knows(q)'
    BY <2>1 DEF IInv, Live, Knows, BeforeWrite, Rebalancing
  <2>3. AnswersAreLive'
    BY <2>1 DEF IInv, Live, AnswersAreLive
  <2>4. CacheIsLive'
    BY <2>1 DEF IInv, Live, CacheIsLive, Midway, Target
  <2> QED BY <2>2, <2>3, <2>4 DEF Live
<1> QED BY <1>1, <1>2

LEMMA NextIInv == Orderly /\ IInv /\ [Next]_vars => IInv'
BY NextBasis, ReadLive, DecideLive, WriteLive, OutsideLive DEF IInv, Next, Continue

\* As long as no GET is overtaken by a write and no failed reply hides one, the budgets
\* a request has validated are those of the platform until its own first write.
THEOREM ValidatedStaysLive == ~LostReplies /\ ~OvertakenReads /\ Spec => []ValidatedIsLive
<1>1. Init => IInv
  BY InitBasis, InitLive DEF IInv
<1>2. IInv => ValidatedIsLive
  BY DEF IInv, Live, Knows, BeforeWrite, ValidatedIsLive, Rebalancing
<1>3. CASE Orderly
  <2>1. IInv /\ [Next]_vars => IInv'
    BY <1>3, NextIInv
  <2> QED BY <1>1, <1>2, <2>1, PTL DEF Spec
<1> QED BY <1>3 DEF Orderly

-----------------------------------------------------------------------------
(* The books: where a request is in its legs, what the campaigns it has    *)
(* locked then have, and what it may report.                               *)

\* The decrease is applied and neither the increase nor the compensation is.
Taken(r) == Rebalancing(r) /\ wire[r] = (IF leg[r] = "dec" THEN "applied" ELSE "sent")

Unwritten == ReadPCs \cup {"idle", "locking", "gotFrom", "gotTo", "validate", "approving"}
Writing == {"writing", "backoff"}

Legs(r) ==
  /\ leg[r] # "dec" => Rebalancing(r)
  /\ pc[r] \in Unwritten => leg[r] = "dec" /\ wire[r] = "sent"
  /\ pc[r] = "backoff" => wire[r] = "sent"
  /\ pc[r] \in Writing \cup {"approving"} => Valid(body[r], before[r])
  /\ pc[r] \in Writing /\ Taken(r) => /\ budget[body[r].from] = body[r].fromAfter
                                     /\ budget[body[r].to] = before[r].to

Told(r) ==
  pc[r] \in {"recording", "done"} /\ result[r] \in {"success", "compensated", "failed"}
    => ~Taken(r)

Books == \A r \in Requests : Legs(r) /\ Told(r)

PCsOf == ReadPCs \cup {"idle", "locking", "gotFrom", "gotTo", "validate", "approving",
                       "writing", "backoff", "recording", "done", "crashed"}

LEMMA Shapes ==
  ASSUME TypeOK
  PROVE  /\ pc \in [Requests -> PCsOf] /\ wire \in [Requests -> {"sent", "applied"}]
         /\ leg \in [Requests -> {"dec", "inc", "comp"}]
         /\ result \in [Requests -> {"none", "refused", "failed", "success", "compensated",
                                     "halted", "error"}]
         /\ budget \in [Campaigns -> Nat]
         /\ before \in [Requests -> [from : Nat, to : Nat]]
BY DEF TypeOK, PCsOf

LEMMA InitBooks == Init => Books
BY DEF Init, Books, Legs, Told, Taken, Unwritten, Writing

\* A step of one request that changes no budget.
LEMMA BooksMove ==
  ASSUME Books, NEW r \in Requests, UNCHANGED <<budget, body>>,
         \A q \in Requests : q # r =>
           UNCHANGED <<pc[q], before[q], leg[q], wire[q], result[q]>>,
         Legs(r)', Told(r)'
  PROVE  Books'
<1>1. ASSUME NEW q \in Requests, q # r PROVE Legs(q)' /\ Told(q)'
  <2>1. Legs(q) /\ Told(q) /\ UNCHANGED <<pc[q], before[q], leg[q], wire[q], result[q]>>
    BY <1>1 DEF Books
  <2> QED BY <2>1 DEF Legs, Told, Taken, Rebalancing
<1> QED BY <1>1 DEF Books

\* Waiting, reading, deciding, and reporting.
LEMMA DecideBooks ==
  ASSUME IInv, Books, NEW r \in Requests,
         \/ Arrive(r) \/ Acquire(r) \/ ReadCached(r) \/ ReadSent(r) \/ ReadAnswered(r)
         \/ Validate(r) \/ Approve(r) \/ RecordOutcome(r) \/ Fault(r)
  PROVE  Books'
<1>t. /\ pc \in [Requests -> PCsOf] /\ wire \in [Requests -> {"sent", "applied"}]
      /\ leg \in [Requests -> {"dec", "inc", "comp"}]
      /\ result \in [Requests -> {"none", "refused", "failed", "success", "compensated",
                                  "halted", "error"}]
      /\ before \in [Requests -> [from : Nat, to : Nat]]
  BY Shapes DEF IInv, Basis
<1>l. Legs(r) /\ Told(r)
  BY DEF Books
<1>1. CASE Arrive(r) \/ Acquire(r) \/ ReadCached(r) \/ ReadSent(r) \/ ReadAnswered(r)
  <2>1. /\ UNCHANGED <<budget, body, leg, wire, result>>
        /\ \A q \in Requests : q # r => UNCHANGED <<pc[q], before[q]>>
        /\ pc[r] \in Unwritten /\ pc'[r] \in Unwritten \ {"approving"}
    BY <1>1, <1>t DEF Arrive, Acquire, ReadCached, ReadSent, ReadAnswered, Record, AfterRead,
       Goto, ReadPCs, Unwritten
  <2>2. Legs(r)' /\ Told(r)'
    BY <2>1, <1>l DEF Legs, Told, Taken, Rebalancing, Unwritten, Writing, ReadPCs
  <2> QED BY <2>1, <2>2, BooksMove
<1>2. CASE Validate(r) \/ Approve(r)
  <2>1. /\ UNCHANGED <<budget, body, before, leg, wire>>
        /\ \A q \in Requests : q # r => UNCHANGED <<pc[q], result[q]>>
        /\ pc[r] \in Unwritten
        /\ \/ pc'[r] \in {"approving", "writing"} /\ Valid(body[r], before[r])
           \/ pc'[r] = "done" /\ result'[r] = "refused"
    BY <1>2, <1>t, <1>l DEF Validate, Approve, Finish, Goto, Unwritten, Legs
  <2>2. leg[r] = "dec" /\ wire[r] = "sent"
    BY <2>1, <1>l DEF Legs
  <2>3. Legs(r)' /\ Told(r)'
    BY <2>1, <2>2 DEF Legs, Told, Taken, Rebalancing, Unwritten, Writing, ReadPCs
  <2> QED BY <2>1, <2>3, BooksMove
<1>3. CASE RecordOutcome(r) \/ Fault(r)
  <2>1. /\ UNCHANGED <<budget, body, before, leg, wire>>
        /\ \A q \in Requests : q # r => UNCHANGED <<pc[q], result[q]>>
        /\ pc'[r] = "done"
        /\ result'[r] = "error" \/ (pc[r] = "recording" /\ result'[r] = result[r])
    BY <1>3, <1>t DEF RecordOutcome, Fault, Finish, Goto
  <2>2. Legs(r)' /\ Told(r)'
    BY <2>1, <1>l DEF Legs, Told, Taken, Rebalancing, Unwritten, Writing, ReadPCs
  <2> QED BY <2>1, <2>2, BooksMove
<1> QED BY <1>1, <1>2, <1>3

\* The answers to a write: they move a request from leg to leg.
LEMMA AnswerBooks ==
  ASSUME ~LostReplies, IInv, Books, NEW r \in Requests,
         \/ WriteSucceeds(r) \/ BackOff(r)
         \/ \E reply \in Failures : WriteRetries(r, reply) \/ WriteFails(r, reply)
  PROVE  Books'
<1>t. /\ pc \in [Requests -> PCsOf] /\ wire \in [Requests -> {"sent", "applied"}]
      /\ leg \in [Requests -> {"dec", "inc", "comp"}]
      /\ result \in [Requests -> {"none", "refused", "failed", "success", "compensated",
                                  "halted", "error"}]
  BY Shapes DEF IInv, Basis
<1>l. Legs(r) /\ Told(r)
  BY DEF Books
<1>k. body[r].kind \in {"single", "rebalance"}
  BY Bodied DEF IInv, Basis
<1>1. CASE WriteSucceeds(r)
  <2>1. /\ UNCHANGED <<budget, body, before>> /\ pc[r] = "writing" /\ wire[r] = "applied"
        /\ \A q \in Requests : q # r => UNCHANGED <<pc[q], leg[q], wire[q], result[q]>>
    BY <1>1, <1>t DEF WriteSucceeds, StartLeg, Finish, Goto
  <2>2. \/ /\ leg[r] = "dec" /\ Rebalancing(r) /\ pc'[r] = "writing"
           /\ leg'[r] = "inc" /\ wire'[r] = "sent"
        \/ /\ leg[r] = "inc" \/ ~Rebalancing(r)
           /\ pc'[r] = "done" /\ UNCHANGED <<leg[r], wire[r]>>
        \/ /\ leg[r] = "comp" /\ pc'[r] = "recording" /\ UNCHANGED <<leg[r], wire[r]>>
    BY <1>1, <1>t DEF WriteSucceeds, StartLeg, Finish, Goto, Rebalancing
  <2>3. Legs(r)' /\ Told(r)'
    BY <2>1, <2>2, <1>l DEF Legs, Told, Taken, Rebalancing, Unwritten, Writing, ReadPCs
  <2> QED BY <2>1, <2>3, BooksMove
<1>2. CASE BackOff(r)
  <2>1. /\ UNCHANGED <<budget, body, before, leg, result>> /\ pc[r] = "backoff"
        /\ pc'[r] = "writing" /\ wire'[r] = "sent"
        /\ \A q \in Requests : q # r => UNCHANGED <<pc[q], wire[q]>>
    BY <1>2, <1>t DEF BackOff, Goto
  <2>2. Legs(r)' /\ Told(r)'
    BY <2>1, <1>l DEF Legs, Told, Taken, Rebalancing, Unwritten, Writing, ReadPCs
  <2> QED BY <2>1, <2>2, BooksMove
<1>3. ASSUME NEW reply \in Failures, WriteRetries(r, reply) PROVE Books'
  <2>1. /\ UNCHANGED <<budget, body, before, leg, wire, result>> /\ pc[r] = "writing"
        /\ pc'[r] = "backoff" /\ wire[r] = "sent"
        /\ \A q \in Requests : q # r => pc'[q] = pc[q]
    BY <1>3, <1>t DEF WriteRetries, ReplyMatchesWire, Goto
  <2>2. Legs(r)' /\ Told(r)'
    BY <2>1, <1>l DEF Legs, Told, Taken, Rebalancing, Unwritten, Writing, ReadPCs
  <2> QED BY <2>1, <2>2, BooksMove
<1>4. ASSUME NEW reply \in Failures, WriteFails(r, reply) PROVE Books'
  <2>1. /\ UNCHANGED <<budget, body, before>> /\ pc[r] = "writing" /\ wire[r] = "sent"
        /\ \A q \in Requests : q # r => UNCHANGED <<pc[q], leg[q], wire[q], result[q]>>
    BY <1>4, <1>t DEF WriteFails, ReplyMatchesWire, StartLeg, Finish, Goto
  <2>2. \/ leg[r] = "dec" /\ pc'[r] = "done" /\ UNCHANGED <<leg[r], wire[r]>>
        \/ /\ leg[r] = "inc" /\ pc'[r] = "writing" /\ leg'[r] = "comp" /\ wire'[r] = "sent"
        \/ /\ leg[r] # "dec" /\ pc'[r] = "recording" /\ result'[r] = "halted"
           /\ UNCHANGED <<leg[r], wire[r]>>
    BY <1>4, <1>t DEF WriteFails, StartLeg, Finish, Goto
  <2>3. Legs(r)' /\ Told(r)'
    BY <2>1, <2>2, <1>l DEF Legs, Told, Taken, Rebalancing, Unwritten, Writing, ReadPCs
  <2> QED BY <2>1, <2>3, BooksMove
<1> QED BY <1>1, <1>2, <1>3, <1>4

\* What the write of a validated leg finds on the platform and leaves there.
LEMMA WriteMoves ==
  ASSUME IInv, Books, NEW r \in Requests, PlatformApplies(r)
  PROVE  /\ budget[Target(r)] \in Nat /\ Amount(r) \in Nat /\ body[r].move \in Nat
         /\ Amount(r) - budget[Target(r)]
              = IF ~Rebalancing(r) THEN body[r].fromAfter - before[r].from
                ELSE IF leg[r] = "dec" THEN 0 - body[r].move ELSE body[r].move
         /\ Rebalancing(r) => body[r].from # body[r].to
         /\ Rebalancing(r) /\ leg[r] = "dec" => budget[body[r].to] = before[r].to
<1>1. pc[r] = "writing" /\ wire[r] = "sent"
  BY DEF PlatformApplies
<1>2. /\ body[r] \in Body /\ before[r] \in [from : Nat, to : Nat]
      /\ leg[r] \in {"dec", "inc", "comp"} /\ budget \in [Campaigns -> Nat]
      /\ Target(r) \in Campaigns /\ Amount(r) \in Nat
  BY Bodied, RebalanceAssumption DEF IInv, Basis, TypeOK, RebalanceAssumption
<1>3. /\ body[r].kind \in {"single", "rebalance"} /\ body[r].move \in Nat
      /\ body[r].fromAfter \in Nat /\ body[r].toAfter \in Nat
      /\ before[r].from \in Nat /\ before[r].to \in Nat
  BY <1>2 DEF Body
<1>4. Legs(r) /\ Valid(body[r], before[r])
  BY <1>1 DEF Books, Legs, Writing
<1>5. leg[r] = "dec" => /\ before[r].from = budget[body[r].from]
                        /\ Rebalancing(r) => before[r].to = budget[body[r].to]
  BY <1>1 DEF IInv, Live, Knows, BeforeWrite
<1>6. Rebalancing(r) => /\ body[r].from # body[r].to
                        /\ before[r].from - body[r].fromAfter = body[r].move
                        /\ body[r].toAfter - before[r].to = body[r].move
  BY <1>4 DEF Valid, Rebalancing, RebalanceValid, MovesExactly
<1>7. ~Rebalancing(r) => leg[r] = "dec"
  BY <1>4 DEF Legs
<1>8. leg[r] # "dec" => /\ budget[body[r].from] = body[r].fromAfter
                        /\ budget[body[r].to] = before[r].to
  BY <1>1, <1>4 DEF Legs, Taken, Writing
<1>9. /\ leg[r] = "dec" => Target(r) = body[r].from /\ Amount(r) = body[r].fromAfter
      /\ leg[r] = "inc" => Target(r) = body[r].to /\ Amount(r) = body[r].toAfter
      /\ leg[r] = "comp" => Target(r) = body[r].from /\ Amount(r) = before[r].from
  BY DEF Target, Amount
<1>10. Amount(r) - budget[Target(r)]
         = IF ~Rebalancing(r) THEN body[r].fromAfter - before[r].from
           ELSE IF leg[r] = "dec" THEN 0 - body[r].move ELSE body[r].move
  <2>1. CASE leg[r] = "dec"
    BY <2>1, <1>3, <1>5, <1>6, <1>9
  <2>2. CASE leg[r] = "inc"
    BY <2>2, <1>3, <1>6, <1>7, <1>8, <1>9
  <2>3. CASE leg[r] = "comp"
    BY <2>3, <1>3, <1>6, <1>7, <1>8, <1>9
  <2> QED BY <2>1, <2>2, <2>3, <1>2
<1> QED BY <1>2, <1>3, <1>5, <1>6, <1>10

LEMMA AppliesBooks ==
  ASSUME IInv, Books, NEW r \in Requests, PlatformApplies(r)
  PROVE  Books'
<1> DEFINE k == Target(r)
<1>t. /\ budget \in [Campaigns -> Nat] /\ wire \in [Requests -> {"sent", "applied"}]
      /\ leg \in [Requests -> {"dec", "inc", "comp"}] /\ k \in Campaigns
      /\ body[r].from \in Campaigns /\ body[r].to \in Campaigns
  BY Bodied, Shapes DEF IInv, Basis
<1>1. /\ pc[r] = "writing" /\ wire[r] = "sent"
      /\ budget' = [budget EXCEPT ![k] = Amount(r)] /\ wire' = [wire EXCEPT ![r] = "applied"]
      /\ UNCHANGED <<pc, body, before, leg, result>>
  BY DEF PlatformApplies
<1>2. lock[k] = r
  BY <1>1 DEF IInv, Basis, Guards, Guarded, Target
<1>3. Legs(r)' /\ Told(r)'
  <2>1. Legs(r) /\ wire'[r] = "applied"
    BY <1>1, <1>t DEF Books
  <2>2. ASSUME Rebalancing(r), leg[r] = "dec"
        PROVE  budget'[body[r].from] = body[r].fromAfter /\ budget'[body[r].to] = before[r].to
    BY <2>2, <1>1, <1>t, WriteMoves DEF Target, Amount
  <2> QED BY <1>1, <2>1, <2>2 DEF Legs, Told, Taken, Rebalancing, Unwritten, Writing, ReadPCs
<1>4. ASSUME NEW q \in Requests, q # r PROVE Legs(q)' /\ Told(q)'
  <2>1. ASSUME pc[q] \in Writing
        PROVE  /\ budget'[body[q].from] = budget[body[q].from]
               /\ budget'[body[q].to] = budget[body[q].to]
    <3>1. lock[body[q].from] = q /\ lock[body[q].to] = q
      BY <2>1 DEF IInv, Basis, Guards, Guarded, Writing
    <3>2. body[q].from \in Campaigns /\ body[q].to \in Campaigns
      BY Bodied DEF IInv, Basis
    <3> QED BY <3>1, <3>2, <1>1, <1>2, <1>4, <1>t
  <2>2. Legs(q) /\ Told(q) /\ wire'[q] = wire[q]
    BY <1>1, <1>4, <1>t DEF Books
  <2> QED BY <1>1, <2>1, <2>2 DEF Legs, Told, Taken, Rebalancing
<1> QED BY <1>3, <1>4 DEF Books

LEMMA OutsideBooks ==
  ASSUME Books, \/ \E d \in Dashboards : Look(d) \/ LookAnswered(d)
                \/ CacheExpires \/ Restart \/ UNCHANGED vars
  PROVE  Books'
<1>1. /\ UNCHANGED <<budget, body, before, leg, wire, result>>
      /\ \A q \in Requests : pc'[q] = pc[q] \/ pc'[q] = "crashed"
  BY DEF Look, LookAnswered, CacheExpires, Restart, vars, request
<1>2. ASSUME NEW q \in Requests PROVE Legs(q)' /\ Told(q)'
  <2>1. Legs(q) /\ Told(q)
    BY DEF Books
  <2> QED BY <1>1, <2>1 DEF Legs, Told, Taken, Rebalancing, Unwritten, Writing, ReadPCs
<1> QED BY <1>2 DEF Books

LEMMA NextBooks == Orderly /\ IInv /\ Books /\ [Next]_vars => Books'
BY DecideBooks, AnswerBooks, AppliesBooks, OutsideBooks DEF Orderly, Next, Continue

\* The report of a rebalance is true: one told as a success has moved everything, one
\* told as failed or compensated withholds nothing.
THEOREM ReportsAreTrue == ~LostReplies /\ ~OvertakenReads /\ Spec => []ReportIsTrue
<1>1. Init => IInv /\ Books
  BY InitBasis, InitLive, InitBooks DEF IInv
<1>2. Books => ReportIsTrue
  BY DEF Books, Told, Taken, ReportIsTrue, Withheld
<1>3. CASE Orderly
  <2>1. IInv /\ Books /\ [Next]_vars => (IInv /\ Books)'
    BY <1>3, NextIInv, NextBooks
  <2> QED BY <1>1, <1>2, <2>1, PTL DEF Spec
<1> QED BY <1>3 DEF Orderly

-----------------------------------------------------------------------------
(* The total budget, to the won.                                           *)

Took == [r \in Requests |-> Withheld(r)]
Gave == [r \in Requests |-> Granted(r)]

LEMMA BothFinite == IsFiniteSet(Campaigns) /\ IsFiniteSet(Requests)
<1>1. NumCampaigns \in Int
  BY RebalanceAssumption DEF RebalanceAssumption
<1>2. IsFiniteSet(1..NumCampaigns)
  BY <1>1, FS_Interval
<1> QED BY <1>2, FinitelyMany DEF Campaigns, FinitelyMany

LEMMA AmountsAreInt ==
  ASSUME TypeOK
  PROVE  \A r \in Requests : Took[r] \in Nat /\ Gave[r] \in Int
<1> SUFFICES ASSUME NEW r \in Requests PROVE Withheld(r) \in Nat /\ Granted(r) \in Int
  BY DEF Took, Gave
<1>1. body[r] \in Body /\ before[r] \in [from : Nat, to : Nat]
  BY RebalanceAssumption DEF TypeOK, RebalanceAssumption
<1>2. body[r].move \in Nat /\ body[r].fromAfter \in Nat /\ before[r].from \in Nat
  BY <1>1 DEF Body
<1> QED BY <1>2 DEF Withheld, Granted

\* Only the platform's writes change what requests have taken or given: an answer moves
\* a request to the next leg with as much withheld as before.
LEMMA AnswersMoveNothing ==
  ASSUME ~LostReplies, IInv, Books, NEW r \in Requests,
         \/ WriteSucceeds(r) \/ BackOff(r)
         \/ \E reply \in Failures : WriteRetries(r, reply) \/ WriteFails(r, reply)
  PROVE  budget' = budget /\ Took' = Took /\ Gave' = Gave
<1>t. /\ pc \in [Requests -> PCsOf] /\ wire \in [Requests -> {"sent", "applied"}]
      /\ leg \in [Requests -> {"dec", "inc", "comp"}]
  BY Shapes DEF IInv, Basis
<1>l. Legs(r)
  BY DEF Books
<1>1. /\ UNCHANGED <<budget, body, before>>
      /\ \A q \in Requests : q # r => UNCHANGED <<leg[q], wire[q]>>
  BY <1>t DEF WriteSucceeds, BackOff, WriteRetries, WriteFails, StartLeg
<1>2. \/ UNCHANGED <<leg[r], wire[r]>>
      \/ /\ leg[r] = "dec" /\ Rebalancing(r) /\ wire[r] = "applied"
         /\ leg'[r] = "inc" /\ wire'[r] = "sent"
      \/ /\ leg[r] = "inc" /\ Rebalancing(r) /\ wire[r] = "sent"
         /\ leg'[r] = "comp" /\ wire'[r] = "sent"
  <2>1. CASE WriteSucceeds(r)
    BY <2>1, <1>t DEF WriteSucceeds, StartLeg, Rebalancing
  <2>2. CASE BackOff(r)
    BY <2>2, <1>l, <1>t DEF BackOff, Legs
  <2>3. ASSUME NEW reply \in Failures, WriteRetries(r, reply) PROVE UNCHANGED <<leg[r], wire[r]>>
    BY <2>3 DEF WriteRetries
  <2>4. ASSUME NEW reply \in Failures, WriteFails(r, reply)
        PROVE  \/ UNCHANGED <<leg[r], wire[r]>>
               \/ /\ leg[r] = "inc" /\ Rebalancing(r) /\ wire[r] = "sent"
                  /\ leg'[r] = "comp" /\ wire'[r] = "sent"
    BY <2>4, <1>l, <1>t DEF WriteFails, ReplyMatchesWire, StartLeg, Legs
  <2> QED BY <2>1, <2>2, <2>3, <2>4
<1>3. ASSUME NEW q \in Requests PROVE Withheld(q)' = Withheld(q) /\ Granted(q)' = Granted(q)
  <2>1. CASE UNCHANGED <<leg[q], wire[q]>>
    BY <2>1, <1>1 DEF Withheld, Granted, Rebalancing
  <2>2. CASE ~UNCHANGED <<leg[q], wire[q]>>
    BY <2>2, <1>1, <1>2 DEF Withheld, Granted, Rebalancing
  <2> QED BY <2>1, <2>2
<1> QED BY <1>1, <1>3 DEF Took, Gave

LEMMA OthersMoveNothing ==
  ASSUME IInv, Books,
         \/ \E r \in Requests :
              \/ Arrive(r) \/ Acquire(r) \/ ReadCached(r) \/ ReadSent(r) \/ ReadAnswered(r)
              \/ Validate(r) \/ Approve(r) \/ RecordOutcome(r) \/ Fault(r)
         \/ \E d \in Dashboards : Look(d) \/ LookAnswered(d)
         \/ CacheExpires \/ Restart \/ UNCHANGED vars
  PROVE  budget' = budget /\ Took' = Took /\ Gave' = Gave
<1>1. UNCHANGED <<budget, body, leg, wire>>
  BY DEF Arrive, Acquire, ReadCached, ReadSent, ReadAnswered, Validate, Approve, RecordOutcome,
     Fault, Look, LookAnswered, CacheExpires, Restart, vars, request
<1>2. ASSUME NEW q \in Requests PROVE wire[q] = "applied" => before'[q] = before[q]
  <2>1. CASE \E r \in Requests : ReadCached(r) \/ ReadAnswered(r)
    <3>1. PICK r \in Requests : ReadCached(r) \/ ReadAnswered(r)
      BY <2>1
    <3>2. before \in [Requests -> [from : Nat, to : Nat]]
      BY Shapes DEF IInv, Basis
    <3>3. wire[r] = "sent" /\ (q # r => before'[q] = before[q])
      BY <3>1, <3>2 DEF ReadCached, ReadAnswered, Record, Books, Legs, Unwritten, ReadPCs
    <3> QED BY <3>3
  <2>2. CASE ~\E r \in Requests : ReadCached(r) \/ ReadAnswered(r)
    BY <2>2 DEF Arrive, Acquire, ReadSent, Validate, Approve, RecordOutcome,
       Fault, Look, LookAnswered, CacheExpires, Restart, vars, request
  <2> QED BY <2>1, <2>2
<1>3. ASSUME NEW q \in Requests PROVE Withheld(q)' = Withheld(q) /\ Granted(q)' = Granted(q)
  BY <1>1, <1>2 DEF Withheld, Granted, Rebalancing
<1> QED BY <1>1, <1>3 DEF Took, Gave

\* A write changes the total by what it takes or gives.
LEMMA WriteAccounted ==
  ASSUME IInv, Books, NEW r \in Requests, PlatformApplies(r), TotalAccounted
  PROVE  TotalAccounted'
<1> DEFINE k == Target(r)
<1>t. /\ budget \in [Campaigns -> Nat] /\ wire \in [Requests -> {"sent", "applied"}]
      /\ k \in Campaigns /\ InitialBudget \in [Campaigns -> Nat]
  BY Bodied, Shapes, RebalanceAssumption DEF IInv, Basis, RebalanceAssumption
<1>f. IsFiniteSet(Campaigns) /\ IsFiniteSet(Requests)
  BY BothFinite
<1>1. /\ wire[r] = "sent" /\ wire'[r] = "applied"
      /\ budget' = [budget EXCEPT ![k] = Amount(r)]
      /\ \A q \in Requests : q # r => wire'[q] = wire[q]
      /\ UNCHANGED <<body, before, leg>>
  BY <1>t DEF PlatformApplies
<1>w. /\ budget[k] \in Nat /\ Amount(r) \in Nat /\ body[r].move \in Nat
      /\ Amount(r) - budget[k]
           = IF ~Rebalancing(r) THEN body[r].fromAfter - before[r].from
             ELSE IF leg[r] = "dec" THEN 0 - body[r].move ELSE body[r].move
  BY WriteMoves
<1>2. ASSUME NEW q \in Requests, q # r
      PROVE  Took'[q] = Took[q] /\ Gave'[q] = Gave[q]
  BY <1>1, <1>2 DEF Took, Gave, Withheld, Granted, Rebalancing
<1>3. /\ Took[r] = IF Rebalancing(r) /\ leg[r] # "dec" THEN body[r].move ELSE 0
      /\ Took'[r] = IF Rebalancing(r) /\ leg[r] = "dec" THEN body[r].move ELSE 0
      /\ Gave[r] = 0
      /\ Gave'[r] = IF Rebalancing(r) THEN 0 ELSE body[r].fromAfter - before[r].from
  BY <1>1 DEF Took, Gave, Withheld, Granted, Rebalancing
<1>4. \A q \in Requests : Took[q] \in Int /\ Gave[q] \in Int
  BY AmountsAreInt DEF IInv, Basis
<1>5. body[r].fromAfter \in Nat /\ before[r].from \in Nat
  BY Bodied DEF IInv, Basis, TypeOK
<1>6. \A q \in Requests : Took'[q] \in Int /\ Gave'[q] \in Int
  BY <1>2, <1>3, <1>4, <1>5, <1>w
<1>7. Sum(budget', Campaigns) = Sum(budget, Campaigns) - budget[k] + Amount(r)
  <2>1. /\ budget'[k] = Amount(r) /\ \A c \in Campaigns : c # k => budget[c] = budget'[c]
        /\ \A c \in Campaigns : budget[c] \in Int /\ budget'[c] \in Int
    BY <1>1, <1>t, <1>w
  <2> QED BY <2>1, <1>f, <1>t, SumChange
<1>8. /\ Sum(Took', Requests) = Sum(Took, Requests) - Took[r] + Took'[r]
      /\ Sum(Gave', Requests) = Sum(Gave, Requests) - Gave[r] + Gave'[r]
  BY <1>2, <1>4, <1>6, <1>f, SumChange
<1>9. /\ Sum(budget, Campaigns) \in Int /\ Sum(InitialBudget, Campaigns) \in Int
      /\ Sum(Took, Requests) \in Int /\ Sum(Gave, Requests) \in Int
  BY <1>4, <1>f, <1>t, SumInt
<1>10. Sum(budget, Campaigns)
         = Sum(InitialBudget, Campaigns) + Sum(Gave, Requests) - Sum(Took, Requests)
  BY DEF TotalAccounted, Total, Took, Gave
<1>11. Sum(budget', Campaigns)
         = Sum(InitialBudget, Campaigns) + Sum(Gave', Requests) - Sum(Took', Requests)
  BY <1>3, <1>5, <1>7, <1>8, <1>9, <1>10, <1>w
<1> QED BY <1>11 DEF TotalAccounted, Total, Took, Gave

LEMMA AccountedStep ==
  ASSUME Orderly, IInv, Books, TotalAccounted, [Next]_vars
  PROVE  TotalAccounted'
<1>1. ASSUME budget' = budget, Took' = Took, Gave' = Gave PROVE TotalAccounted'
  BY <1>1 DEF TotalAccounted, Total, Took, Gave
<1>2. CASE \E r \in Requests : PlatformApplies(r)
  BY <1>2, WriteAccounted
<1>3. CASE ~\E r \in Requests : PlatformApplies(r)
  BY <1>1, <1>3, AnswersMoveNothing, OthersMoveNothing DEF Orderly, Next, Continue
<1> QED BY <1>2, <1>3

LEMMA InitAccounted == Init => TotalAccounted
<1> SUFFICES ASSUME Init PROVE TotalAccounted
  OBVIOUS
<1>f. IsFiniteSet(Campaigns) /\ IsFiniteSet(Requests)
  BY BothFinite
<1>1. \A r \in Requests : Took[r] = 0 /\ Gave[r] = 0
  BY DEF Init, Took, Gave, Withheld, Granted
<1>2. Sum(Took, Requests) = 0 /\ Sum(Gave, Requests) = 0
  BY <1>1, <1>f, SumZero
<1>3. Sum(budget, Campaigns) \in Int /\ budget = InitialBudget
  BY <1>f, SumInt, RebalanceAssumption DEF Init, RebalanceAssumption
<1> QED BY <1>2, <1>3 DEF TotalAccounted, Total, Took, Gave

LEMMA Accounts == Orderly /\ Spec => [](IInv /\ TotalAccounted)
<1>1. Init => IInv /\ Books /\ TotalAccounted
  BY InitBasis, InitLive, InitBooks, InitAccounted DEF IInv
<1>2. CASE Orderly
  <2>1. IInv /\ Books /\ TotalAccounted /\ [Next]_vars => (IInv /\ Books /\ TotalAccounted)'
    BY <1>2, NextIInv, NextBooks, AccountedStep
  <2> QED BY <1>1, <2>1, PTL DEF Spec
<1> QED BY <1>2

\* To the won, for any number of campaigns and concurrent requests: the total budget is
\* the initial one, plus what single changes granted, minus what rebalances withhold.
THEOREM TotalIsAccounted == ~LostReplies /\ ~OvertakenReads /\ Spec => []TotalAccounted
<1>1. IInv /\ TotalAccounted => TotalAccounted
  OBVIOUS
<1> QED BY <1>1, Accounts, PTL DEF Orderly

\* What TotalNeverRises says, on the condition the code relies on: where clients ask
\* for rebalances only, the total never exceeds the initial one, not for a moment.
THEOREM RebalancesNeverRaise ==
  /\ ~LostReplies /\ ~OvertakenReads /\ \A b \in Bodies : b.kind = "rebalance"
  /\ Spec
  => []TotalNeverRises
<1>1. ASSUME IInv, TotalAccounted, \A b \in Bodies : b.kind = "rebalance"
      PROVE  TotalNeverRises
  <2>f. IsFiniteSet(Campaigns) /\ IsFiniteSet(Requests)
    BY BothFinite
  <2> DEFINE zero == [r \in Requests |-> 0]
  <2>1. \A r \in Requests : Gave[r] = 0
    BY <1>1 DEF Gave, Granted, Rebalancing, IInv, Basis, TypeOK
  <2>2. Sum(Gave, Requests) = 0 /\ Sum(zero, Requests) = 0
    BY <2>1, <2>f, SumZero
  <2>3. \A r \in Requests : Took[r] \in Nat
    BY <1>1, AmountsAreInt DEF IInv, Basis
  <2>4. Sum(zero, Requests) <= Sum(Took, Requests) /\ Sum(Took, Requests) \in Int
    BY <2>3, <2>f, SumMonotone, SumInt
  <2>5. Sum(InitialBudget, Campaigns) \in Int
    BY <2>f, SumInt, RebalanceAssumption DEF RebalanceAssumption
  <2>6. Sum(budget, Campaigns)
          = Sum(InitialBudget, Campaigns) + Sum(Gave, Requests) - Sum(Took, Requests)
    BY <1>1 DEF TotalAccounted, Total, Took, Gave
  <2> QED BY <2>2, <2>4, <2>5, <2>6 DEF TotalNeverRises, Total
<1>2. CASE Orderly /\ \A b \in Bodies : b.kind = "rebalance"
  <2>1. IInv /\ TotalAccounted => TotalNeverRises
    BY <1>1, <1>2
  <2>2. Orderly
    BY <1>2
  <2> QED BY <2>1, <2>2, Accounts, PTL
<1> QED BY <1>2 DEF Orderly
=============================================================================
