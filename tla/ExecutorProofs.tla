--------------------------- MODULE ExecutorProofs ---------------------------
(***************************************************************************)
(* Theorems about Executor, for every value of its constants.              *)
(***************************************************************************)
EXTENDS Executor, Sums

-----------------------------------------------------------------------------
(* The steps of a call, by what they can change: its own control state, the *)
(* state of the platform, the shared tables.                               *)

GateStep(c) ==
  \/ Submit(c) \/ CheckLedger(c) \/ CheckVersion(c) \/ Lookup(c)
  \/ RecordReplay(c) \/ EvaluateBudget(c) \/ RecordWarning(c)
  \/ RecordRejection(c) \/ RecordHalt(c) \/ RecordCompleted(c)

PlatformStep(c) ==
  \/ StartCalling(c) \/ PlatformApplies(c) \/ BackOff(c)
  \/ \E reply \in Replies :
       TargetSucceeds(c, reply) \/ TargetRetries(c, reply) \/ TargetFails(c, reply)

SettleStep(c) ==
  Reserve(c) \/ SaveResult(c) \/ CommitBudget(c) \/ Consume(c) \/ Release(c) \/ Fault(c)

OutsideStep ==
  \/ \E a \in Approvals : Issue(a) \/ Expire(a)
  \/ \E t \in Tenants, l \in Limits : SetLimit(t, l)
  \/ Restart

LEMMA NextSteps ==
  Next => OutsideStep \/ \E c \in Calls : GateStep(c) \/ PlatformStep(c) \/ SettleStep(c)
BY Zenon DEF Next, Continue, OutsideStep, GateStep, PlatformStep, SettleStep

-----------------------------------------------------------------------------
(* Type correctness.                                                       *)

LEMMA InitType == Init => TypeOK
BY ExecutorAssumption DEF Init, TypeOK, ExecutorAssumption, PCs, OwnerPCs, RunStatuses,
   Results, Progress, FreshProgress, Targets

\* A rejection leaves the control state of its call well typed.
LEMMA RejectType ==
  ASSUME TypeOK, NEW c \in Calls, NEW r \in Rejections, Reject(c, r)
  PROVE  /\ pc' \in [Calls -> PCs]
         /\ run' \in [Calls -> RunStatuses]
         /\ out' \in [Calls -> Results]
BY DEF TypeOK, Reject, Goto, Advance, PCs, RunStatuses, Results

LEMMA GotoType ==
  ASSUME TypeOK, NEW c \in Calls, NEW p \in PCs, Goto(c, p)
  PROVE  pc' \in [Calls -> PCs]
BY DEF TypeOK, Goto

\* Steps that change nothing but the control state of a call.
LEMMA QuietType ==
  ASSUME TypeOK, UNCHANGED <<shared, req, prog, faults, restarts>>,
         pc' \in [Calls -> PCs], run' \in [Calls -> RunStatuses], out' \in [Calls -> Results]
  PROVE  TypeOK'
BY DEF TypeOK, shared

\* The gates, the replay and the audit appends of execute().
LEMMA GateType ==
  ASSUME TypeOK, NEW c \in Calls, GateStep(c)
  PROVE  TypeOK'
<1> SUFFICES /\ pc' \in [Calls -> PCs]
             /\ run' \in [Calls -> RunStatuses]
             /\ out' \in [Calls -> Results]
  BY QuietType DEF GateStep, Submit, CheckLedger, CheckVersion, Lookup, RecordReplay,
     EvaluateBudget, RecordWarning, RecordRejection, RecordHalt, RecordCompleted
<1>t. /\ run \in [Calls -> RunStatuses] /\ out \in [Calls -> Results]
      /\ row[req[c]] \in {"free", "claimed"} \cup SavedResults
  BY DEF TypeOK
<1>r. \A r \in Rejections : Reject(c, r) =>
        /\ pc' \in [Calls -> PCs]
        /\ run' \in [Calls -> RunStatuses]
        /\ out' \in [Calls -> Results]
  BY RejectType
<1>g. \A p \in PCs : Goto(c, p) => pc' \in [Calls -> PCs]
  BY GotoType
<1>p. /\ {"ledger", "version", "lookup", "replaying", "evaluate", "warn", "reserve",
          "done", "saving"} \subseteq PCs
      /\ "validated" \in RunStatuses
      /\ SavedResults \subseteq Results
      /\ {"invalid", "expired", "unapproved", "stale", "budget_cap"} \subseteq Rejections
  BY DEF PCs, OwnerPCs, RunStatuses, Results, Rejections
<1>1. CASE Submit(c)
  BY <1>1, <1>t, <1>r, <1>g, <1>p DEF Submit
<1>2. CASE CheckLedger(c)
  BY <1>2, <1>t, <1>r, <1>g, <1>p DEF CheckLedger
<1>3. CASE CheckVersion(c)
  BY <1>3, <1>t, <1>r, <1>g, <1>p DEF CheckVersion, Advance
<1>4. CASE Lookup(c)
  BY <1>4, <1>t, <1>g, <1>p DEF Lookup
<1>5. CASE EvaluateBudget(c)
  BY <1>5, <1>t, <1>r, <1>g, <1>p DEF EvaluateBudget
<1>6. CASE RecordReplay(c) \/ RecordWarning(c) \/ RecordRejection(c)
           \/ RecordHalt(c) \/ RecordCompleted(c)
  BY <1>6, <1>t, <1>g, <1>p
     DEF RecordReplay, RecordWarning, RecordRejection, RecordHalt, RecordCompleted
<1> QED BY <1>1, <1>2, <1>3, <1>4, <1>5, <1>6 DEF GateStep

\* The calls to the platform writer.
LEMMA PlatformType ==
  ASSUME TypeOK, NEW c \in Calls, PlatformStep(c)
  PROVE  TypeOK'
<1>t. /\ run \in [Calls -> RunStatuses] /\ out \in [Calls -> Results]
      /\ prog \in [Calls -> Progress] /\ req \in [Calls -> Approvals]
      /\ NumTargets \in [Approvals -> Nat]
  BY ExecutorAssumption DEF TypeOK, ExecutorAssumption
<1>g. \A p \in PCs : Goto(c, p) => pc' \in [Calls -> PCs]
  BY GotoType
<1>p. /\ {"calling", "backoff", "saving", "halting", "releasing"} \subseteq PCs
      /\ {"calling", "pending_review", "succeeded", "failed", "halted"} \subseteq RunStatuses
      /\ {"pending", "success", "partial"} \cup Failures \subseteq Results
  BY DEF PCs, OwnerPCs, RunStatuses, Results, SavedResults, Failures
<1>f. FreshProgress \in Progress
  BY DEF FreshProgress, Progress
<1>u. \A p \in Progress :
        /\ [p EXCEPT !.wire = "sent"] \in Progress
        /\ [p EXCEPT !.wire = "applied"] \in Progress
        /\ \A m, n \in Nat : [p EXCEPT !.timeouts = m, !.rates = n] \in Progress
        /\ \A n \in Nat, b \in BOOLEAN : [p EXCEPT !.executed = n, !.pending = b] \in Progress
  BY DEF Progress
<1>v. \A t \in Nat \ {0}, n \in Nat, b \in BOOLEAN :
        [FreshProgress EXCEPT !.target = t, !.executed = n, !.pending = b] \in Progress
  BY <1>f DEF Progress
<1>1. CASE StartCalling(c)
  <2>1. prog' \in [Calls -> Progress] /\ run' \in [Calls -> RunStatuses]
    BY <1>1, <1>t, <1>p, <1>f DEF StartCalling
  <2> QED BY <1>1, <2>1, <1>g, <1>p DEF StartCalling, TypeOK, shared
<1>2. CASE BackOff(c)
  <2>1. prog' = [prog EXCEPT ![c] = [prog[c] EXCEPT !.wire = "sent"]]
    BY <1>2 DEF BackOff
  <2>2. prog' \in [Calls -> Progress]
    BY <2>1, <1>t, <1>u
  <2> QED BY <1>2, <2>2, <1>g, <1>p DEF BackOff, TypeOK, shared
<1>3. CASE PlatformApplies(c)
  <2> DEFINE a == req[c]
             k == prog[c].target
  <2>1. prog' = [prog EXCEPT ![c] = [prog[c] EXCEPT !.wire = "applied"]]
    BY <1>3 DEF PlatformApplies
  <2>2. prog' \in [Calls -> Progress]
    BY <2>1, <1>t, <1>u
  <2>3. applied' = [applied EXCEPT ![a] = [applied[a] EXCEPT ![k] = AtMostTwo(applied[a][k])]]
    BY <1>3 DEF PlatformApplies
  <2>4. \A b \in Approvals : applied[b] \in [Targets(b) -> 0..2]
    BY DEF TypeOK
  <2>5. \A n \in 0..2 : AtMostTwo(n) \in 0..2
    BY DEF AtMostTwo
  <2>6. [applied[a] EXCEPT ![k] = AtMostTwo(applied[a][k])] \in [Targets(a) -> 0..2]
    BY <1>t, <2>4, <2>5
  <2>7. DOMAIN applied' = Approvals /\ \A b \in Approvals : applied'[b] \in [Targets(b) -> 0..2]
    BY <2>3, <2>4, <2>6, <1>t DEF TypeOK
  <2> QED BY <1>3, <2>2, <2>7 DEF PlatformApplies, TypeOK, Targets
<1>4. ASSUME NEW reply \in Replies, TargetSucceeds(c, reply) PROVE TypeOK'
  <2> DEFINE p == prog[c]
             pend == p.pending \/ reply = "pending"
  <2>1. /\ p \in Progress /\ pend \in BOOLEAN
        /\ p.target + 1 \in Nat \ {0} /\ p.executed + 1 \in Nat
    BY <1>t DEF Progress
  <2>2. CASE p.target < NumTargets[req[c]]
    <3>1. prog' = [prog EXCEPT ![c] = [FreshProgress EXCEPT !.target = p.target + 1,
                                         !.executed = p.executed + 1, !.pending = pend]]
      BY <1>4, <2>2 DEF TargetSucceeds
    <3>2. prog' \in [Calls -> Progress]
      BY <3>1, <2>1, <1>t, <1>v
    <3>3. UNCHANGED <<pc, run, out>>
      BY <1>4, <2>2 DEF TargetSucceeds
    <3> QED BY <1>4, <3>2, <3>3 DEF TargetSucceeds, TypeOK, shared
  <2>3. CASE ~(p.target < NumTargets[req[c]])
    <3>1. prog' = [prog EXCEPT ![c] = [p EXCEPT !.executed = p.executed + 1, !.pending = pend]]
      BY <1>4, <2>3 DEF TargetSucceeds
    <3>2. prog' \in [Calls -> Progress]
      BY <3>1, <2>1, <1>t, <1>u
    <3>3. run' \in [Calls -> RunStatuses] /\ out' \in [Calls -> Results]
      BY <1>4, <2>3, <1>t, <1>p DEF TargetSucceeds, Advance
    <3> QED BY <1>4, <2>3, <3>2, <3>3, <1>g, <1>p DEF TargetSucceeds, TypeOK, shared
  <2> QED BY <2>2, <2>3
<1>5. ASSUME NEW reply \in Replies, TargetRetries(c, reply) PROVE TypeOK'
  <2> DEFINE p == prog[c]
             m == IF reply = "timeout" THEN p.timeouts + 1 ELSE p.timeouts
             n == IF reply = "rate_limited" THEN p.rates + 1 ELSE p.rates
  <2>1. p \in Progress /\ m \in Nat /\ n \in Nat
    BY <1>t DEF Progress
  <2>2. prog' = [prog EXCEPT ![c] = [p EXCEPT !.timeouts = m, !.rates = n]]
    BY <1>5 DEF TargetRetries
  <2>3. prog' \in [Calls -> Progress]
    BY <2>1, <2>2, <1>t, <1>u
  <2> QED BY <1>5, <2>3, <1>g, <1>p DEF TargetRetries, TypeOK, shared
<1>6. ASSUME NEW reply \in Replies, TargetFails(c, reply) PROVE TypeOK'
  <2>1. pc' \in [Calls -> PCs]
    BY <1>6, <1>g, <1>p DEF TargetFails
  <2>2. run' \in [Calls -> RunStatuses] /\ out' \in [Calls -> Results]
    BY <1>6, <1>t, <1>p DEF TargetFails, Advance
  <2> QED BY <1>6, <2>1, <2>2, QuietType DEF TargetFails
<1> QED BY <1>1, <1>2, <1>3, <1>4, <1>5, <1>6 DEF PlatformStep

LEMMA ShareType ==
  ASSUME NEW a \in Approvals, NEW r, NEW n \in Nat
  PROVE  Share(a, r, n) \in Nat
<1>1. Spend[a] \in Nat /\ NumTargets[a] \in Nat /\ NumTargets[a] > 0
  BY ExecutorAssumption DEF ExecutorAssumption
<1>2. Spend[a] * n \in Nat
  BY <1>1
<1>3. \A x \in Nat, y \in Nat : y > 0 => x \div y \in Nat
  OBVIOUS
<1> QED BY <1>1, <1>2, <1>3 DEF Share

\* The settlement of a result; "out" holds a result that may be saved.
LEMMA SettleType ==
  ASSUME TypeOK, NEW c \in Calls, SettleStep(c),
         out[c] \in SavedResults \/ pc[c] # "saving"
  PROVE  TypeOK'
<1>t. /\ run \in [Calls -> RunStatuses] /\ out \in [Calls -> Results]
      /\ prog \in [Calls -> Progress] /\ req \in [Calls -> Approvals]
      /\ row \in [Approvals -> {"free", "claimed"} \cup SavedResults]
  BY DEF TypeOK
<1>g. \A p \in PCs : Goto(c, p) => pc' \in [Calls -> PCs]
  BY GotoType
<1>p. {"reserved", "committing", "consuming", "recording", "crashed"} \subseteq PCs
  BY DEF PCs, OwnerPCs
<1>e. prog[c].executed \in Nat
  BY <1>t DEF Progress
<1>1. CASE Reserve(c)
  <2>1. CASE row[req[c]] = "free"
    BY <1>1, <2>1, <1>t, <1>g, <1>p DEF Reserve, TypeOK
  <2>2. CASE row[req[c]] # "free"
    BY <1>1, <2>2, RejectType DEF Reserve, TypeOK, Rejections
  <2> QED BY <2>1, <2>2
<1>2. CASE SaveResult(c)
  BY <1>2, <1>t, <1>g, <1>p, <1>e DEF SaveResult, TypeOK
<1>3. CASE CommitBudget(c)
  <2>1. TenantOf[req[c]] \in Tenants
    BY <1>t, ExecutorAssumption DEF ExecutorAssumption
  <2>2. Share(req[c], out[c], prog[c].executed) \in Nat
    BY <1>t, <1>e, ShareType
  <2>3. spent' \in [Tenants -> Nat]
    BY <1>3, <2>1, <2>2 DEF CommitBudget, TypeOK
  <2> QED BY <1>3, <2>3, <1>g, <1>p DEF CommitBudget, TypeOK
<1>4. CASE Consume(c)
  BY <1>4, <1>t, <1>g, <1>p DEF Consume, TypeOK
<1>5. CASE Release(c)
  BY <1>5, <1>t, <1>g, <1>p DEF Release, TypeOK
<1>6. CASE Fault(c)
  BY <1>6, <1>g, <1>p DEF Fault, TypeOK, shared
<1> QED BY <1>1, <1>2, <1>3, <1>4, <1>5, <1>6 DEF SettleStep

\* Everything outside execute().
LEMMA OutsideType ==
  ASSUME TypeOK, OutsideStep
  PROVE  TypeOK'
<1>1. CASE \E a \in Approvals : Issue(a) \/ Expire(a)
  BY <1>1 DEF Issue, Expire, TypeOK, callState
<1>2. CASE \E t \in Tenants, l \in Limits : SetLimit(t, l)
  BY <1>2, ExecutorAssumption DEF SetLimit, TypeOK, callState, ExecutorAssumption
<1>3. CASE Restart
  <2>1. "crashed" \in PCs
    BY DEF PCs
  <2> QED BY <1>3, <2>1, ExecutorAssumption DEF Restart, TypeOK, ExecutorAssumption
<1> QED BY <1>1, <1>2, <1>3 DEF OutsideStep

-----------------------------------------------------------------------------
(* Exclusion of the key.                                                   *)

\* A step of one call that leaves the rows alone and does not make its call an
\* owner keeps the exclusion.
LEMMA KeyQuiet ==
  ASSUME TypeOK, KeyExclusion, NEW c \in Calls, NEW p, Goto(c, p), UNCHANGED <<row, req>>,
         p \in OwnerPCs => pc[c] \in OwnerPCs
  PROVE  KeyExclusion'
<1>1. \A d \in Calls, a \in Approvals : Owns(d, a)' => Owns(d, a)
  BY DEF TypeOK, Goto, Owns
<1> QED BY <1>1 DEF KeyExclusion

LEMMA KeyStep ==
  ASSUME TypeOK, KeyExclusion, [Next]_vars
  PROVE  KeyExclusion'
<1>p. OwnerPCs \cap {"rejecting", "ledger", "version", "lookup", "replaying", "evaluate",
        "warn", "reserve", "committing", "consuming", "recording", "done", "crashed"} = {}
  BY DEF OwnerPCs
<1>o. {"reserved", "calling", "backoff", "halting", "saving", "releasing"} = OwnerPCs
  BY DEF OwnerPCs
<1>1. CASE \/ \E a \in Approvals : Issue(a) \/ Expire(a)
           \/ \E t \in Tenants, l \in Limits : SetLimit(t, l)
           \/ UNCHANGED vars
  <2>1. UNCHANGED <<pc, row, req>>
    BY <1>1 DEF Issue, Expire, SetLimit, callState, vars
  <2> QED BY <2>1 DEF KeyExclusion, Owns
<1>2. CASE Restart
  <2>1. \A c \in Calls : pc'[c] \in {"idle", "done", "crashed"}
    BY <1>2 DEF Restart
  <2> QED BY <2>1 DEF KeyExclusion, Owns, OwnerPCs
<1>3. ASSUME NEW c \in Calls, GateStep(c) \/ CommitBudget(c) \/ Consume(c) \/ Fault(c)
      PROVE  KeyExclusion'
  <2>1. UNCHANGED <<row, req>>
    BY <1>3 DEF GateStep, Submit, CheckLedger, CheckVersion, Lookup, RecordReplay, EvaluateBudget,
       RecordWarning, RecordRejection, RecordHalt, CommitBudget, Consume, RecordCompleted,
       Fault, shared
  <2>2. \E p : Goto(c, p) /\ (p \in OwnerPCs => pc[c] \in OwnerPCs)
    BY <1>3, <1>p, <1>o DEF GateStep, Submit, CheckLedger, CheckVersion, Lookup, RecordReplay,
       EvaluateBudget, RecordWarning, RecordRejection, RecordHalt, CommitBudget, Consume,
       RecordCompleted, Fault, Reject
  <2> QED BY <2>1, <2>2, KeyQuiet
<1>4. ASSUME NEW c \in Calls, PlatformStep(c) PROVE KeyExclusion'
  <2>1. UNCHANGED <<row, req>> /\ pc[c] \in OwnerPCs
    BY <1>4, <1>o DEF PlatformStep, StartCalling, PlatformApplies, BackOff, TargetSucceeds, TargetRetries,
       TargetFails, shared
  <2>2. UNCHANGED pc \/ \E p : Goto(c, p)
    BY <1>4 DEF PlatformStep, StartCalling, PlatformApplies, BackOff, TargetSucceeds, TargetRetries,
       TargetFails
  <2>3. CASE UNCHANGED pc
    BY <2>1, <2>3 DEF KeyExclusion, Owns
  <2> QED BY <2>1, <2>2, <2>3, KeyQuiet
<1>5. ASSUME NEW c \in Calls, Reserve(c) PROVE KeyExclusion'
  <2>1. CASE row[req[c]] = "free"
    <3>1. \A d \in Calls : ~Owns(d, req[c])
      BY <2>1 DEF KeyExclusion, TypeOK
    <3>2. /\ row' = [row EXCEPT ![req[c]] = "claimed"]
          /\ pc' = [pc EXCEPT ![c] = "reserved"]
          /\ req' = req
      BY <1>5, <2>1 DEF Reserve, Goto
    <3>3. \A d \in Calls, a \in Approvals :
            Owns(d, a)' => (d = c /\ a = req[c]) \/ (d # c /\ Owns(d, a))
      BY <3>2 DEF TypeOK, Owns
    <3> QED BY <3>1, <3>2, <3>3 DEF KeyExclusion, TypeOK
  <2>2. CASE row[req[c]] # "free"
    <3>1. Goto(c, "rejecting") /\ UNCHANGED <<row, req>>
      BY <1>5, <2>2 DEF Reserve, Reject
    <3> QED BY <3>1, <1>p, KeyQuiet
  <2> QED BY <2>1, <2>2
<1>6. ASSUME NEW c \in Calls, SaveResult(c) \/ Release(c) PROVE KeyExclusion'
  <2>1. Owns(c, req[c]) /\ req[c] \in Approvals
    BY <1>6, <1>o DEF SaveResult, Release, Owns, TypeOK
  <2>2. /\ \A a \in Approvals : a # req[c] => row'[a] = row[a]
        /\ req' = req
        /\ pc'[c] \notin OwnerPCs
        /\ \A d \in Calls : d # c => pc'[d] = pc[d]
    BY <1>6, <1>p DEF SaveResult, Release, Goto, TypeOK
  <2>3. \A d \in Calls, a \in Approvals : Owns(d, a)' => Owns(d, a) /\ d # c
    BY <2>2 DEF Owns
  <2>4. \A d \in Calls, a \in Approvals : a = req[c] => ~Owns(d, a)'
    BY <2>1, <2>3 DEF KeyExclusion
  <2> QED BY <2>2, <2>3, <2>4 DEF KeyExclusion
<1> QED BY <1>1, <1>2, <1>3, <1>4, <1>5, <1>6, NextSteps DEF OutsideStep, SettleStep

\* The results the calls carry: what is about to be saved may be saved, what is
\* rejected or released is no saved result, and what is told is what is stored.
AnswerInv ==
  \A c \in Calls :
    /\ pc[c] \in {"halting", "saving"} => out[c] \in SavedResults
    /\ pc[c] \in {"rejecting", "releasing"} => out[c] \notin SavedResults
    /\ pc[c] \in {"replaying", "committing", "consuming", "recording", "done"}
         /\ out[c] \in SavedResults => row[req[c]] = out[c]

IInv == TypeOK /\ KeyExclusion /\ AnswerInv

LEMMA NextType ==
  ASSUME IInv, [Next]_vars
  PROVE  TypeOK'
<1>s. \A c \in Calls : out[c] \in SavedResults \/ pc[c] # "saving"
  BY DEF IInv, AnswerInv
<1>t. TypeOK
  BY DEF IInv
<1>1. CASE UNCHANGED vars
  BY <1>1, <1>t DEF TypeOK, vars
<1>2. CASE Next
  BY <1>2, <1>s, <1>t, NextSteps, GateType, PlatformType, SettleType, OutsideType
<1> QED BY <1>1, <1>2

\* A step of one call that leaves the rows alone.
LEMMA AnswerQuiet ==
  ASSUME TypeOK, AnswerInv, NEW c \in Calls, UNCHANGED <<row, req>>,
         \A d \in Calls : d # c => pc'[d] = pc[d] /\ out'[d] = out[d],
         pc'[c] \in {"halting", "saving"} => out'[c] \in SavedResults,
         pc'[c] \in {"rejecting", "releasing"} => out'[c] \notin SavedResults,
         pc'[c] \in {"replaying", "committing", "consuming", "recording", "done"}
           /\ out'[c] \in SavedResults => row[req[c]] = out'[c]
  PROVE  AnswerInv'
BY DEF AnswerInv

LEMMA AnswerGate ==
  ASSUME TypeOK, AnswerInv, NEW c \in Calls, GateStep(c)
  PROVE  AnswerInv'
<1>t. pc \in [Calls -> PCs] /\ out \in [Calls -> Results]
  BY DEF TypeOK
<1>1. UNCHANGED <<row, req>> /\ \A d \in Calls : d # c => pc'[d] = pc[d] /\ out'[d] = out[d]
  BY <1>t DEF GateStep, Submit, CheckLedger, CheckVersion, Lookup, RecordReplay,
     EvaluateBudget, RecordWarning, RecordRejection, RecordHalt, RecordCompleted,
     Reject, Goto, shared
<1>2. \A r \in Rejections : Reject(c, r) => pc'[c] = "rejecting" /\ out'[c] \notin SavedResults
  BY <1>t DEF Reject, Goto, Rejections, SavedResults
<1>3. \A p \in PCs : Goto(c, p) => pc'[c] = p
  BY <1>t DEF Goto
<1>4. CASE Submit(c) \/ CheckLedger(c) \/ CheckVersion(c) \/ EvaluateBudget(c)
           \/ RecordWarning(c)
  <2>1. \/ pc'[c] = "rejecting" /\ out'[c] \notin SavedResults
        \/ pc'[c] \in {"ledger", "version", "lookup", "warn", "reserve"}
    BY <1>4, <1>2, <1>3 DEF Submit, CheckLedger, CheckVersion, EvaluateBudget, RecordWarning,
       Rejections, PCs
  <2> QED BY <1>1, <2>1, AnswerQuiet
<1>5. CASE Lookup(c)
  <2>1. \/ pc'[c] = "replaying" /\ out'[c] = row[req[c]]
        \/ pc'[c] = "evaluate"
    BY <1>5, <1>3, <1>t DEF Lookup, PCs
  <2> QED BY <1>1, <2>1, AnswerQuiet
<1>6. CASE RecordReplay(c) \/ RecordRejection(c) \/ RecordHalt(c) \/ RecordCompleted(c)
  <2>1. \/ pc[c] \in {"replaying", "rejecting", "recording"} /\ pc'[c] = "done"
        \/ pc[c] = "halting" /\ pc'[c] = "saving"
    BY <1>6, <1>t DEF RecordReplay, RecordRejection, RecordHalt, RecordCompleted, Goto
  <2>2. out'[c] = out[c]
    BY <1>6 DEF RecordReplay, RecordRejection, RecordHalt, RecordCompleted
  <2> QED BY <1>1, <2>1, <2>2, AnswerQuiet DEF AnswerInv
<1> QED BY <1>4, <1>5, <1>6 DEF GateStep

LEMMA AnswerPlatform ==
  ASSUME TypeOK, AnswerInv, NEW c \in Calls, PlatformStep(c)
  PROVE  AnswerInv'
<1>t. pc \in [Calls -> PCs] /\ out \in [Calls -> Results]
  BY DEF TypeOK
<1>1. UNCHANGED <<row, req>> /\ \A d \in Calls : d # c => pc'[d] = pc[d] /\ out'[d] = out[d]
  BY <1>t DEF PlatformStep, StartCalling, PlatformApplies, BackOff, TargetSucceeds,
     TargetRetries, TargetFails, Goto, shared
<1>2. CASE StartCalling(c) \/ PlatformApplies(c) \/ BackOff(c)
  <2>1. pc'[c] = "calling"
    BY <1>2, <1>t DEF StartCalling, PlatformApplies, BackOff, Goto
  <2> QED BY <1>1, <2>1, AnswerQuiet
<1>3. ASSUME NEW reply \in Replies, TargetSucceeds(c, reply) PROVE AnswerInv'
  <2>1. \/ pc'[c] = "calling"
        \/ pc'[c] = "saving" /\ out'[c] \in {"pending", "success"}
    BY <1>3, <1>t DEF TargetSucceeds, Goto
  <2> QED BY <1>1, <2>1, AnswerQuiet DEF SavedResults
<1>4. ASSUME NEW reply \in Replies, TargetRetries(c, reply) PROVE AnswerInv'
  <2>1. pc'[c] = "backoff"
    BY <1>4, <1>t DEF TargetRetries, Goto
  <2> QED BY <1>1, <2>1, AnswerQuiet
<1>5. ASSUME NEW reply \in Replies, TargetFails(c, reply) PROVE AnswerInv'
  <2>1. \/ pc'[c] \in {"halting", "saving"} /\ out'[c] = "partial"
        \/ pc'[c] = "releasing" /\ out'[c] \in Failures \ {"partial"}
    BY <1>5, <1>t DEF TargetFails, Goto
  <2> QED BY <1>1, <2>1, AnswerQuiet DEF SavedResults, Failures
<1> QED BY <1>2, <1>3, <1>4, <1>5 DEF PlatformStep

LEMMA AnswerSettle ==
  ASSUME TypeOK, KeyExclusion, AnswerInv, NEW c \in Calls, SettleStep(c)
  PROVE  AnswerInv'
<1>t. /\ pc \in [Calls -> PCs] /\ out \in [Calls -> Results] /\ req \in [Calls -> Approvals]
      /\ row \in [Approvals -> {"free", "claimed"} \cup SavedResults]
  BY DEF TypeOK
<1>f. "free" \notin SavedResults /\ "claimed" \notin SavedResults
  BY DEF SavedResults
<1>1. CASE Reserve(c)
  <2>1. CASE row[req[c]] = "free"
    <3>1. /\ row' = [row EXCEPT ![req[c]] = "claimed"] /\ req' = req /\ out' = out
          /\ pc' = [pc EXCEPT ![c] = "reserved"]
      BY <1>1, <2>1 DEF Reserve, Goto
    <3> QED BY <2>1, <3>1, <1>t, <1>f DEF AnswerInv
  <2>2. CASE row[req[c]] # "free"
    <3>1. /\ UNCHANGED <<row, req>> /\ pc'[c] = "rejecting" /\ out'[c] = "in_flight"
          /\ \A d \in Calls : d # c => pc'[d] = pc[d] /\ out'[d] = out[d]
      BY <1>1, <2>2, <1>t DEF Reserve, Reject, Goto
    <3> QED BY <3>1, AnswerQuiet DEF SavedResults
  <2> QED BY <2>1, <2>2
<1>2. CASE SaveResult(c)
  <2>1. row[req[c]] = "claimed" /\ out[c] \in SavedResults
    BY <1>2, <1>t DEF SaveResult, KeyExclusion, Owns, OwnerPCs, AnswerInv
  <2>2. /\ row' = [row EXCEPT ![req[c]] = out[c]] /\ req' = req /\ out' = out
        /\ pc' = [pc EXCEPT ![c] = "committing"]
    BY <1>2, <2>1, <1>t DEF SaveResult, Goto
  <2> QED BY <2>1, <2>2, <1>t, <1>f DEF AnswerInv
<1>3. CASE CommitBudget(c) \/ Consume(c) \/ Fault(c)
  <2>1. /\ UNCHANGED <<row, req, out>>
        /\ \A d \in Calls : d # c => pc'[d] = pc[d]
    BY <1>3, <1>t DEF CommitBudget, Consume, Fault, Goto, shared
  <2>2. \/ pc[c] \in {"committing", "consuming"} /\ pc'[c] \in {"consuming", "recording"}
        \/ pc'[c] = "crashed"
    BY <1>3, <1>t DEF CommitBudget, Consume, Fault, Goto
  <2> QED BY <2>1, <2>2, AnswerQuiet DEF AnswerInv
<1>4. CASE Release(c)
  <2>1. /\ \A a \in Approvals : row[a] \in SavedResults => row'[a] = row[a]
        /\ req' = req /\ out' = out
        /\ pc' = [pc EXCEPT ![c] = "recording"]
    BY <1>4, <1>t, <1>f DEF Release, Goto
  <2>2. pc[c] = "releasing" /\ out[c] \notin SavedResults
    BY <1>4 DEF Release, AnswerInv
  <2> QED BY <2>1, <2>2, <1>t DEF AnswerInv
<1> QED BY <1>1, <1>2, <1>3, <1>4 DEF SettleStep

LEMMA AnswerStep ==
  ASSUME IInv, [Next]_vars
  PROVE  AnswerInv'
<1>1. CASE UNCHANGED vars
  BY <1>1 DEF IInv, AnswerInv, vars
<1>2. CASE OutsideStep
  <2>1. /\ UNCHANGED <<row, req, out>>
        /\ \A c \in Calls : pc'[c] = pc[c] \/ pc'[c] = "crashed"
    BY <1>2 DEF OutsideStep, Issue, Expire, SetLimit, Restart, callState, IInv, TypeOK
  <2> QED BY <2>1 DEF IInv, AnswerInv
<1>3. CASE \E c \in Calls : GateStep(c) \/ PlatformStep(c) \/ SettleStep(c)
  BY <1>3, AnswerGate, AnswerPlatform, AnswerSettle DEF IInv
<1> QED BY <1>1, <1>2, <1>3, NextSteps

-----------------------------------------------------------------------------
(* The theorems.                                                           *)

LEMMA InitInv == Init => IInv
BY InitType DEF Init, IInv, KeyExclusion, AnswerInv, Owns, OwnerPCs

\* The inductive invariant holds in every reachable state.
THEOREM Invariance == Spec => []IInv
<1>1. Init => IInv
  BY InitInv
<1>2. IInv /\ [Next]_vars => IInv'
  BY NextType, KeyStep, AnswerStep DEF IInv
<1> QED BY <1>1, <1>2, PTL DEF Spec

\* Every variable keeps its type.
THEOREM TypeCorrect == Spec => []TypeOK
<1>1. IInv => TypeOK
  BY DEF IInv
<1> QED BY <1>1, Invariance, PTL

\* A reserved idempotency row has one owner, and stays claimed while it has one.
THEOREM KeysExclusive == Spec => []KeyExclusion
<1>1. IInv => KeyExclusion
  BY DEF IInv
<1> QED BY <1>1, Invariance, PTL

\* Every call that reports an execution reports the result its key holds.
THEOREM AnswersStored == Spec => []AnswerIsStored
<1>1. IInv => AnswerIsStored
  BY DEF IInv, AnswerInv, AnswerIsStored
<1> QED BY <1>1, Invariance, PTL

\* A step changes no saved row and writes no target of an approval that has one.
LEMMA SavedStep ==
  ASSUME IInv, [Next]_vars, NEW a \in Approvals, row[a] \in SavedResults
  PROVE  row'[a] = row[a] /\ applied'[a] = applied[a]
<1>t. /\ req \in [Calls -> Approvals] /\ DOMAIN applied = Approvals
      /\ row \in [Approvals -> {"free", "claimed"} \cup SavedResults]
  BY DEF IInv, TypeOK
<1>f. row[a] # "free" /\ row[a] # "claimed"
  BY DEF SavedResults
<1>k. \A c \in Calls : pc[c] \in {"calling", "saving", "releasing"} => req[c] # a
  BY <1>f DEF IInv, KeyExclusion, Owns, OwnerPCs
<1>1. CASE UNCHANGED vars \/ OutsideStep
  BY <1>1 DEF vars, OutsideStep, Issue, Expire, SetLimit, Restart
<1>2. ASSUME NEW c \in Calls, GateStep(c) PROVE UNCHANGED <<row, applied>>
  BY <1>2 DEF GateStep, Submit, CheckLedger, CheckVersion, Lookup, RecordReplay,
     EvaluateBudget, RecordWarning, RecordRejection, RecordHalt, RecordCompleted, shared
<1>3. ASSUME NEW c \in Calls, PlatformStep(c) PROVE row' = row /\ applied'[a] = applied[a]
  <2>1. CASE PlatformApplies(c)
    BY <2>1, <1>k, <1>t DEF PlatformApplies
  <2>2. CASE ~PlatformApplies(c)
    BY <1>3, <2>2 DEF PlatformStep, StartCalling, BackOff, TargetSucceeds, TargetRetries,
       TargetFails, shared
  <2> QED BY <1>3, <2>1, <2>2 DEF PlatformApplies
<1>4. ASSUME NEW c \in Calls, SettleStep(c) PROVE row'[a] = row[a] /\ applied' = applied
  <2>1. CASE Reserve(c)
    BY <2>1, <1>f, <1>t DEF Reserve
  <2>2. CASE SaveResult(c) \/ Release(c)
    BY <2>2, <1>k, <1>t DEF SaveResult, Release
  <2>3. CASE CommitBudget(c) \/ Consume(c) \/ Fault(c)
    BY <2>3 DEF CommitBudget, Consume, Fault, shared
  <2> QED BY <1>4, <2>1, <2>2, <2>3 DEF SettleStep
<1> QED BY <1>1, <1>2, <1>3, <1>4, NextSteps

\* What a key was answered with once is final: no later call, crash or restart
\* changes the saved result or touches the platform under that approval again.
THEOREM SavedFinal == Spec => SavedResultFinal
<1>1. IInv /\ [Next]_vars =>
        [\A a \in Approvals : row[a] \in SavedResults =>
            row'[a] = row[a] /\ applied'[a] = applied[a]]_vars
  BY SavedStep
<1> QED BY <1>1, Invariance, PTL DEF Spec, SavedResultFinal

-----------------------------------------------------------------------------
(* Only approved writes.                                                   *)

\* The awaits between the last gate and the platform.
Vetted == {"lookup", "evaluate", "warn", "reserve", "reserved", "calling", "backoff"}

\* What a call has behind it, by the await it is at: the static checks, the
\* ledger, the state version.  "calling" is where the platform is written.
GatesBehind ==
  \A c \in Calls :
    /\ pc[c] \in {"ledger", "version"} \cup Vetted =>
         req[c] \notin Invalid \cup (Automatic \cap HighTier)
    /\ pc[c] \in {"version"} \cup Vetted => ledger[req[c]] # "none"
    /\ pc[c] \in Vetted => req[c] \notin Stale

\* The ledger forgets no approval it issued.
LEMMA LedgerGrows ==
  ASSUME TypeOK, [Next]_vars, NEW a \in Approvals, ledger[a] # "none"
  PROVE  ledger'[a] # "none"
<1>t. ledger \in [Approvals -> {"none", "issued", "consumed"}]
  BY DEF TypeOK
<1>1. CASE UNCHANGED vars \/ OutsideStep
  BY <1>1, <1>t DEF vars, OutsideStep, Issue, Expire, SetLimit, Restart
<1>2. ASSUME NEW c \in Calls, GateStep(c) PROVE ledger' = ledger
  BY <1>2 DEF GateStep, Submit, CheckLedger, CheckVersion, Lookup, RecordReplay,
     EvaluateBudget, RecordWarning, RecordRejection, RecordHalt, RecordCompleted, shared
<1>3. ASSUME NEW c \in Calls, PlatformStep(c) PROVE ledger' = ledger
  BY <1>3 DEF PlatformStep, StartCalling, PlatformApplies, BackOff, TargetSucceeds,
     TargetRetries, TargetFails, shared
<1>4. ASSUME NEW c \in Calls, SettleStep(c) PROVE ledger'[a] # "none"
  BY <1>4, <1>t DEF SettleStep, Reserve, SaveResult, CommitBudget, Consume, Release, Fault, shared
<1> QED BY <1>1, <1>2, <1>3, <1>4, NextSteps

\* A step of one call takes no other call anywhere, and takes its own call either
\* past the gate it stands at, on along the vetted awaits, or off the path.
LEMMA CallMoves ==
  ASSUME TypeOK, NEW c \in Calls, GateStep(c) \/ PlatformStep(c) \/ SettleStep(c)
  PROVE  /\ req' = req /\ \A d \in Calls : d # c => pc'[d] = pc[d]
         /\ \/ pc'[c] = "ledger" /\ req[c] \notin Invalid \cup (Automatic \cap HighTier)
            \/ pc[c] = "ledger" /\ pc'[c] = "version" /\ ledger[req[c]] # "none"
            \/ pc[c] = "version" /\ pc'[c] = "lookup" /\ req[c] \notin Stale
            \/ pc[c] \in Vetted /\ pc'[c] \in Vetted
            \/ pc'[c] \notin {"ledger", "version"} \cup Vetted
<1>t. pc \in [Calls -> PCs]
  BY DEF TypeOK
<1>1. CASE GateStep(c)
  BY <1>1, <1>t DEF GateStep, Submit, CheckLedger, CheckVersion, Lookup, RecordReplay,
     EvaluateBudget, RecordWarning, RecordRejection, RecordHalt, RecordCompleted,
     Reject, Goto, Vetted
<1>2. CASE PlatformStep(c)
  <2>1. CASE StartCalling(c) \/ PlatformApplies(c) \/ BackOff(c)
    BY <2>1, <1>t DEF StartCalling, PlatformApplies, BackOff, Goto, Vetted
  <2>2. ASSUME NEW reply \in Replies,
               TargetSucceeds(c, reply) \/ TargetRetries(c, reply) \/ TargetFails(c, reply)
        PROVE  /\ req' = req /\ \A d \in Calls : d # c => pc'[d] = pc[d]
               /\ pc[c] = "calling"
               /\ pc'[c] \in {"calling", "backoff", "halting", "saving", "releasing"}
    BY <2>2, <1>t DEF TargetSucceeds, TargetRetries, TargetFails, Goto
  <2> QED BY <1>2, <2>1, <2>2 DEF PlatformStep, Vetted
<1>3. CASE SettleStep(c)
  BY <1>3, <1>t DEF SettleStep, Reserve, SaveResult, CommitBudget, Consume, Release, Fault,
     Reject, Goto, Vetted
<1> QED BY <1>1, <1>2, <1>3

LEMMA GatesStep ==
  ASSUME TypeOK, GatesBehind, [Next]_vars
  PROVE  GatesBehind'
<1>t. req \in [Calls -> Approvals]
  BY DEF TypeOK
<1>l. \A a \in Approvals : ledger[a] # "none" => ledger'[a] # "none"
  BY LedgerGrows
<1>1. CASE UNCHANGED vars \/ OutsideStep
  <2>1. req' = req /\ \A c \in Calls : pc'[c] = pc[c] \/ pc'[c] = "crashed"
    BY <1>1 DEF vars, OutsideStep, Issue, Expire, SetLimit, Restart, callState, TypeOK
  <2> QED BY <2>1, <1>l, <1>t DEF GatesBehind, Vetted
<1>2. ASSUME NEW c \in Calls, GateStep(c) \/ PlatformStep(c) \/ SettleStep(c)
      PROVE  GatesBehind'
  <2>1. ASSUME NEW d \in Calls, d # c
        PROVE  req'[d] = req[d] /\ pc'[d] = pc[d]
    BY <1>2, <2>1, CallMoves
  <2>2. req'[c] = req[c]
    BY <1>2, CallMoves
  <2>3. /\ pc'[c] \in {"ledger", "version"} \cup Vetted =>
             req[c] \notin Invalid \cup (Automatic \cap HighTier)
        /\ pc'[c] \in {"version"} \cup Vetted => ledger[req[c]] # "none"
        /\ pc'[c] \in Vetted => req[c] \notin Stale
    BY <1>2, CallMoves DEF GatesBehind, Vetted
  <2> QED BY <2>1, <2>2, <2>3, <1>l, <1>t DEF GatesBehind
<1> QED BY <1>1, <1>2, NextSteps

\* The platform is written only for the approval of a call at "calling".
LEMMA WriterCalls ==
  ASSUME TypeOK, [Next]_vars, NEW a \in Approvals, Written(a)', ~Written(a)
  PROVE  \E c \in Calls : pc[c] = "calling" /\ req[c] = a
<1>t. req \in [Calls -> Approvals] /\ DOMAIN applied = Approvals
  BY DEF TypeOK
<1>1. applied'[a] # applied[a]
  BY DEF Written, Targets
<1>2. CASE UNCHANGED vars \/ OutsideStep
  BY <1>1, <1>2 DEF vars, OutsideStep, Issue, Expire, SetLimit, Restart
<1>3. ASSUME NEW c \in Calls, GateStep(c) PROVE applied' = applied
  BY <1>3 DEF GateStep, Submit, CheckLedger, CheckVersion, Lookup, RecordReplay,
     EvaluateBudget, RecordWarning, RecordRejection, RecordHalt, RecordCompleted, shared
<1>4. ASSUME NEW c \in Calls, PlatformStep(c) PROVE pc[c] = "calling" /\ req[c] = a
  <2>1. PlatformApplies(c)
    BY <1>1, <1>4 DEF PlatformStep, StartCalling, BackOff, TargetSucceeds, TargetRetries,
       TargetFails, shared
  <2> QED BY <1>1, <2>1, <1>t DEF PlatformApplies
<1>5. ASSUME NEW c \in Calls, SettleStep(c) PROVE applied' = applied
  BY <1>5 DEF SettleStep, Reserve, SaveResult, CommitBudget, Consume, Release, Fault, shared
<1> QED BY <1>1, <1>2, <1>3, <1>4, <1>5, NextSteps

LEMMA ApprovedStep ==
  ASSUME TypeOK, GatesBehind, OnlyApprovedWrites, [Next]_vars
  PROVE  OnlyApprovedWrites'
<1> SUFFICES ASSUME NEW a \in Approvals, Written(a)'
             PROVE  ledger'[a] # "none" /\ a \notin Invalid \cup Stale \cup (Automatic \cap HighTier)
  BY DEF OnlyApprovedWrites
<1>1. CASE Written(a)
  BY <1>1, LedgerGrows DEF OnlyApprovedWrites
<1>2. CASE ~Written(a)
  <2>1. PICK c \in Calls : pc[c] = "calling" /\ req[c] = a
    BY <1>2, WriterCalls
  <2> QED BY <2>1, LedgerGrows DEF GatesBehind, Vetted
<1> QED BY <1>1, <1>2

\* Whatever order calls, retries, restarts, expiries and duplicates come in, the
\* platform is written only for approvals that the server issued and that passed
\* every gate of execute().
THEOREM ApprovedWrites == Spec => []OnlyApprovedWrites
<1>1. Init => GatesBehind /\ OnlyApprovedWrites
  BY DEF Init, GatesBehind, OnlyApprovedWrites, Vetted, Written
<1>2. /\ IInv /\ GatesBehind /\ OnlyApprovedWrites /\ [Next]_vars
      => GatesBehind' /\ OnlyApprovedWrites'
  BY GatesStep, ApprovedStep DEF IInv
<1> QED BY <1>1, <1>2, Invariance, PTL DEF Spec

-----------------------------------------------------------------------------
(* One execution per key, when no failed reply hides a write.              *)

Untouched(a) == \A i \in Targets(a) : applied[a][i] = 0

\* What the platform has applied for the approval of a call, by where the call is:
\* nothing behind the target it is at, and that target if its reply is on the way.
Reach(c) ==
  LET a == req[c]
      p == prog[c] IN
  /\ pc[c] \in {"reserved", "releasing"} => Untouched(a)
  /\ pc[c] = "backoff" => p.wire = "sent"
  /\ pc[c] \in {"calling", "backoff"} =>
       /\ p.target \in Targets(a)
       /\ \A i \in Targets(a) : i > p.target => applied[a][i] = 0
       /\ applied[a][p.target] = IF p.wire = "applied" THEN 1 ELSE 0

\* A free row has no write behind it, which is why the next owner starts afresh.
Once ==
  /\ \A a \in Approvals : row[a] = "free" => Untouched(a)
  /\ \A c \in Calls : Reach(c)
  /\ OneExecutionPerKey

LEMMA InitOnce == Init => Once
BY DEF Init, Once, Reach, Untouched, OneExecutionPerKey, Targets

\* A step of one call that writes nothing and frees no row that was written.
LEMMA OnceQuiet ==
  ASSUME Once, NEW c \in Calls, UNCHANGED <<req, applied>>, Reach(c)',
         \A d \in Calls : d # c => pc'[d] = pc[d] /\ prog'[d] = prog[d],
         \A a \in Approvals : row'[a] = "free" => row[a] = "free" \/ Untouched(a)
  PROVE  Once'
<1>1. \A a : Untouched(a)' = Untouched(a)
  BY DEF Untouched, Targets
<1>2. ASSUME NEW d \in Calls, d # c PROVE Reach(d)'
  <2>1. Reach(d) /\ pc'[d] = pc[d] /\ prog'[d] = prog[d]
    BY <1>2 DEF Once
  <2> QED BY <2>1 DEF Reach, Untouched, Targets
<1>3. OneExecutionPerKey'
  BY DEF Once, OneExecutionPerKey, Targets
<1> QED BY <1>1, <1>2, <1>3 DEF Once

\* Steps away from the platform: a call that goes where Reach says nothing.
LEMMA OnceAway ==
  ASSUME TypeOK, Once, NEW c \in Calls, NEW p \in PCs, Goto(c, p), UNCHANGED <<req, applied, prog>>,
         p \notin {"reserved", "releasing", "backoff", "calling"},
         \A a \in Approvals : row'[a] = "free" => row[a] = "free" \/ Untouched(a)
  PROVE  Once'
<1>1. pc'[c] = p /\ \A d \in Calls : d # c => pc'[d] = pc[d]
  BY DEF TypeOK, Goto
<1>2. Reach(c)'
  BY <1>1 DEF Reach
<1> QED BY <1>1, <1>2, OnceQuiet

LEMMA OnceGate ==
  ASSUME TypeOK, Once, NEW c \in Calls, GateStep(c) \/ CommitBudget(c) \/ Consume(c) \/ Fault(c)
  PROVE  Once'
<1>1. UNCHANGED <<row, req, applied, prog>>
  BY DEF GateStep, Submit, CheckLedger, CheckVersion, Lookup, RecordReplay, EvaluateBudget,
     RecordWarning, RecordRejection, RecordHalt, CommitBudget, Consume, RecordCompleted,
     Fault, shared
<1>2. \E p \in PCs : Goto(c, p) /\ p \notin {"reserved", "releasing", "backoff", "calling"}
  BY DEF GateStep, Submit, CheckLedger, CheckVersion, Lookup, RecordReplay,
     EvaluateBudget, RecordWarning, RecordRejection, RecordHalt, CommitBudget, Consume,
     RecordCompleted, Fault, Reject, PCs, OwnerPCs
<1> QED BY <1>1, <1>2, OnceAway

\* Reservation, result and release: a released row was not written.
LEMMA OnceRows ==
  ASSUME TypeOK, Once, NEW c \in Calls, Reserve(c) \/ SaveResult(c) \/ Release(c)
  PROVE  Once'
<1>t. /\ pc \in [Calls -> PCs] /\ req \in [Calls -> Approvals] /\ out \in [Calls -> Results]
      /\ row \in [Approvals -> {"free", "claimed"} \cup SavedResults]
  BY DEF TypeOK
<1>1. CASE Reserve(c)
  <2>1. CASE row[req[c]] = "free"
    <3>1. /\ row' = [row EXCEPT ![req[c]] = "claimed"] /\ UNCHANGED <<req, prog, applied>>
          /\ pc' = [pc EXCEPT ![c] = "reserved"]
      BY <1>1, <2>1 DEF Reserve, Goto
    <3>2. Untouched(req[c])
      BY <2>1, <1>t DEF Once
    <3>3. Reach(c)'
      BY <3>1, <3>2, <1>t DEF Reach, Untouched, Targets
    <3> QED BY <3>1, <3>3, <1>t, OnceQuiet
  <2>2. CASE row[req[c]] # "free"
    <3>1. Goto(c, "rejecting") /\ UNCHANGED <<row, req, applied, prog>>
      BY <1>1, <2>2 DEF Reserve, Reject
    <3> QED BY <3>1, OnceAway DEF PCs
  <2> QED BY <2>1, <2>2
<1>2. CASE SaveResult(c)
  <2>1. Goto(c, "committing") /\ UNCHANGED <<req, applied, prog>>
    BY <1>2 DEF SaveResult
  <2>2. "free" \notin Results
    BY DEF Results, SavedResults, Failures, Rejections
  <2>3. \A a \in Approvals : row'[a] = "free" => row[a] = "free"
    BY <1>2, <2>2, <1>t DEF SaveResult
  <2> QED BY <2>1, <2>3, OnceAway DEF PCs
<1>3. CASE Release(c)
  <2>1. Goto(c, "recording") /\ UNCHANGED <<req, applied, prog>>
    BY <1>3 DEF Release
  <2>2. Untouched(req[c])
    BY <1>3 DEF Release, Once, Reach
  <2>3. \A a \in Approvals : row'[a] = "free" => row[a] = "free" \/ a = req[c]
    BY <1>3, <1>t DEF Release
  <2> QED BY <2>1, <2>2, <2>3, OnceAway DEF PCs
<1> QED BY <1>1, <1>2, <1>3

\* The write itself: the owner of the key is the only call at its targets.
LEMMA OnceApplies ==
  ASSUME TypeOK, KeyExclusion, Once, NEW c \in Calls, PlatformApplies(c)
  PROVE  Once'
<1> DEFINE a == req[c]
           k == prog[c].target
<1>t. /\ pc \in [Calls -> PCs] /\ req \in [Calls -> Approvals] /\ prog \in [Calls -> Progress]
      /\ DOMAIN applied = Approvals /\ \A b \in Approvals : applied[b] \in [Targets(b) -> 0..2]
  BY DEF TypeOK
<1>1. /\ pc[c] = "calling" /\ prog[c].wire = "sent" /\ UNCHANGED <<row, req, pc>>
      /\ applied' = [applied EXCEPT ![a] = [applied[a] EXCEPT ![k] = AtMostTwo(applied[a][k])]]
      /\ prog' = [prog EXCEPT ![c] = [prog[c] EXCEPT !.wire = "applied"]]
  BY DEF PlatformApplies
<1>2. k \in Targets(a) /\ applied[a][k] = 0 /\ \A i \in Targets(a) : i > k => applied[a][i] = 0
  BY <1>1 DEF Once, Reach
<1>3. \A i \in Targets(a) : applied'[a][i] = IF i = k THEN 1 ELSE applied[a][i]
  <2>1. applied[a] \in [Targets(a) -> 0..2] /\ a \in DOMAIN applied
    BY <1>t
  <2>2. applied'[a] = [applied[a] EXCEPT ![k] = 1]
    BY <1>1, <1>2, <2>1 DEF AtMostTwo
  <2> QED BY <2>1, <2>2
<1>4. \A b \in Approvals : b # a => applied'[b] = applied[b]
  BY <1>1, <1>t
<1>5. prog'[c].target = k /\ prog'[c].wire = "applied"
  BY <1>1, <1>t DEF Progress
<1>6. a \in Approvals /\ Owns(c, a)
  BY <1>1, <1>t DEF Owns, OwnerPCs
<1>r. row[a] = "claimed"
  <2>1. \A b \in Approvals : Owns(c, b) => row[b] = "claimed"
    BY DEF KeyExclusion
  <2> QED BY <2>1, <1>6
<1>7. Reach(c)'
  <2>1. applied'[a][k] = 1 /\ \A i \in Targets(a) : i > k => applied'[a][i] = 0
    <3>1. k \in Nat
      BY <1>2, <1>t DEF Progress
    <3>2. \A i \in Targets(a) : i > k => i # k
      BY <3>1 DEF Targets
    <3> QED BY <1>2, <1>3, <3>2
  <2> QED BY <1>1, <1>2, <1>5, <2>1 DEF Reach, Targets
<1>8. ASSUME NEW d \in Calls, d # c PROVE Reach(d)'
  <2>1. prog'[d] = prog[d] /\ pc'[d] = pc[d] /\ req'[d] = req[d] /\ Reach(d)
    BY <1>1, <1>8, <1>t DEF Once
  <2>2. CASE req[d] = a
    <3>1. ~Owns(d, a)
      BY <1>6, <1>8, <1>t DEF KeyExclusion
    <3> QED BY <2>1, <2>2, <3>1 DEF Reach, Owns, OwnerPCs
  <2>3. CASE req[d] # a
    <3>1. applied'[req[d]] = applied[req[d]]
      BY <1>4, <2>3, <1>t
    <3> QED BY <2>1, <3>1 DEF Reach, Untouched, Targets
  <2> QED BY <2>2, <2>3
<1>9. ASSUME NEW b \in Approvals, row'[b] = "free" PROVE Untouched(b)'
  <2>1. Untouched(b) /\ b # a
    BY <1>1, <1>9, <1>r DEF Once
  <2>2. applied'[b] = applied[b]
    BY <2>1, <1>4
  <2> QED BY <2>1, <2>2 DEF Untouched, Targets
<1>10. OneExecutionPerKey'
  <2>1. ASSUME NEW b \in Approvals, NEW i \in Targets(b) PROVE applied'[b][i] <= 1
    <3>1. applied[b][i] <= 1
      BY DEF Once, OneExecutionPerKey
    <3> QED BY <3>1, <1>3, <1>4
  <2> QED BY <2>1 DEF OneExecutionPerKey, Targets
<1> QED BY <1>7, <1>8, <1>9, <1>10 DEF Once

\* The replies: a retry follows only what was not applied, the next target is new.
LEMMA OnceReplies ==
  ASSUME TypeOK, Once, ~LostReplies, NEW c \in Calls, PlatformStep(c), ~PlatformApplies(c)
  PROVE  Once'
<1> DEFINE a == req[c]
           p == prog[c]
<1>t. /\ pc \in [Calls -> PCs] /\ req \in [Calls -> Approvals] /\ prog \in [Calls -> Progress]
      /\ p.target \in Nat \ {0} /\ NumTargets[a] \in Nat \ {0}
  BY ExecutorAssumption DEF TypeOK, Progress, ExecutorAssumption
<1>1. /\ UNCHANGED <<req, applied, row>>
      /\ \A d \in Calls : d # c => pc'[d] = pc[d] /\ prog'[d] = prog[d]
  BY <1>t DEF PlatformStep, StartCalling, BackOff, TargetSucceeds, TargetRetries, TargetFails,
     Goto, shared
<1>u. Reach(c)' <=>
        /\ pc'[c] \in {"reserved", "releasing"} => Untouched(a)
        /\ pc'[c] = "backoff" => prog'[c].wire = "sent"
        /\ pc'[c] \in {"calling", "backoff"} =>
             /\ prog'[c].target \in Targets(a)
             /\ \A i \in Targets(a) : i > prog'[c].target => applied[a][i] = 0
             /\ applied[a][prog'[c].target] = IF prog'[c].wire = "applied" THEN 1 ELSE 0
  BY <1>1 DEF Reach, Untouched, Targets
<1>c. Reach(c)
  BY DEF Once
<1>2. CASE StartCalling(c)
  <2>1. pc[c] = "reserved" /\ pc'[c] = "calling" /\ prog'[c].target = 1 /\ prog'[c].wire = "sent"
    BY <1>2, <1>t DEF StartCalling, Goto, FreshProgress
  <2>2. Untouched(a) /\ 1 \in Targets(a)
    BY <2>1, <1>c, <1>t DEF Reach, Targets
  <2>3. Reach(c)'
    BY <2>1, <2>2, <1>u DEF Untouched
  <2> QED BY <1>1, <2>3, OnceQuiet
<1>3. CASE BackOff(c)
  <2>1. /\ pc[c] = "backoff" /\ pc'[c] = "calling"
        /\ prog'[c].target = p.target /\ prog'[c].wire = "sent"
    BY <1>3, <1>t DEF BackOff, Goto, Progress
  <2>2. Reach(c)'
    BY <2>1, <1>c, <1>u DEF Reach
  <2> QED BY <1>1, <2>2, OnceQuiet
<1>4. ASSUME NEW reply \in Replies, TargetSucceeds(c, reply) PROVE Once'
  <2>0. pc[c] = "calling"
    BY <1>4 DEF TargetSucceeds
  <2>1. CASE p.target < NumTargets[a]
    <3>1. /\ pc'[c] = "calling"
          /\ prog'[c].target = p.target + 1 /\ prog'[c].wire = "sent"
      <4> DEFINE pend == p.pending \/ reply = "pending"
      <4>1. /\ UNCHANGED pc
            /\ prog' = [prog EXCEPT ![c] = [FreshProgress EXCEPT !.target = p.target + 1,
                                              !.executed = p.executed + 1, !.pending = pend]]
        BY <1>4, <2>1 DEF TargetSucceeds
      <4> HIDE DEF pend
      <4> QED BY <4>1, <2>0, <1>t DEF FreshProgress
    <3>2. p.target + 1 \in Targets(a) /\ p.target + 1 > p.target
      BY <2>1, <1>t DEF Targets
    <3>3. \A i \in Targets(a) : i > p.target + 1 => i > p.target
      BY <1>t DEF Targets
    <3>4. Reach(c)'
      BY <2>0, <3>1, <3>2, <3>3, <1>c, <1>u DEF Reach
    <3> QED BY <1>1, <3>4, OnceQuiet
  <2>2. CASE ~(p.target < NumTargets[a])
    <3>1. pc'[c] = "saving"
      BY <1>4, <2>2, <1>t DEF TargetSucceeds, Goto
    <3> QED BY <1>1, <1>u, <3>1, OnceQuiet
  <2> QED BY <2>1, <2>2
<1>5. ASSUME NEW reply \in Replies, TargetRetries(c, reply) PROVE Once'
  <2>1. pc[c] = "calling" /\ pc'[c] = "backoff" /\ p.wire = "sent"
    BY <1>5, <1>t DEF TargetRetries, Goto, Retried, ReplyMatchesWire
  <2>2. prog'[c].target = p.target /\ prog'[c].wire = p.wire
    BY <1>5, <1>t DEF TargetRetries, Progress
  <2>3. Reach(c)'
    BY <2>1, <2>2, <1>c, <1>u DEF Reach
  <2> QED BY <1>1, <2>3, OnceQuiet
<1>6. ASSUME NEW reply \in Replies, TargetFails(c, reply) PROVE Once'
  <2>1. /\ pc[c] = "calling" /\ pc'[c] \in {"halting", "saving", "releasing"}
        /\ pc'[c] = "releasing" => p.target = 1 /\ p.wire = "sent"
    BY <1>6, <1>t DEF TargetFails, Goto, ReplyMatchesWire, Progress, Failures
  <2>2. ASSUME pc'[c] = "releasing" PROVE Untouched(a)
    <3>1. /\ applied[a][1] = 0
          /\ \A i \in Targets(a) : i > 1 => applied[a][i] = 0
      BY <2>1, <2>2, <1>c DEF Reach
    <3>2. \A i \in Targets(a) : i = 1 \/ i > 1
      BY <1>t DEF Targets
    <3> QED BY <3>1, <3>2 DEF Untouched
  <2>3. Reach(c)'
    BY <2>1, <2>2, <1>u
  <2> QED BY <1>1, <2>3, OnceQuiet
<1> QED BY <1>2, <1>3, <1>4, <1>5, <1>6 DEF PlatformStep

LEMMA OnceStep ==
  ASSUME ~LostReplies, IInv, Once, [Next]_vars
  PROVE  Once'
<1>1. CASE UNCHANGED vars \/ OutsideStep
  <2>1. /\ UNCHANGED <<row, req, applied, prog>>
        /\ \A c \in Calls : pc'[c] = pc[c] \/ pc'[c] \in {"idle", "done", "crashed"}
    BY <1>1 DEF vars, OutsideStep, Issue, Expire, SetLimit, Restart, callState, IInv, TypeOK
  <2> QED BY <2>1 DEF Once, Reach, Untouched, OneExecutionPerKey, Targets
<1>2. ASSUME NEW c \in Calls, GateStep(c) \/ PlatformStep(c) \/ SettleStep(c)
      PROVE  Once'
  BY <1>2, OnceGate, OnceRows, OnceApplies, OnceReplies DEF SettleStep, IInv
<1> QED BY <1>1, <1>2, NextSteps

LEMMA OnceHolds == ~LostReplies /\ Spec => [](IInv /\ Once)
<1>1. Init => IInv /\ Once
  BY InitInv, InitOnce
<1>2. ~LostReplies /\ IInv /\ Once /\ [Next]_vars => (IInv /\ Once)'
  BY NextType, KeyStep, AnswerStep, OnceStep DEF IInv
<1>3. CASE ~LostReplies
  <2>1. IInv /\ Once /\ [Next]_vars => (IInv /\ Once)'
    BY <1>2, <1>3
  <2> QED BY <1>1, <2>1, PTL DEF Spec
<1> QED BY <1>3

\* As long as no failed reply hides a write, no target is written twice under one
\* approval, however calls, retries, releases, faults and restarts follow each other.
THEOREM ExecutedOnce == ~LostReplies /\ Spec => []OneExecutionPerKey
<1>1. IInv /\ Once => OneExecutionPerKey
  BY DEF Once
<1> QED BY <1>1, OnceHolds, PTL

\* A row is freed by the release of its owner only, for which Reach holds.
LEMMA FreedStep ==
  ASSUME IInv, Once, Next, NEW a \in Approvals, row[a] = "claimed", row'[a] = "free"
  PROVE  Untouched(a)
<1>t. /\ req \in [Calls -> Approvals] /\ out \in [Calls -> Results]
      /\ row \in [Approvals -> {"free", "claimed"} \cup SavedResults]
  BY DEF IInv, TypeOK
<1>f. "free" \notin Results
  BY DEF Results, SavedResults, Failures, Rejections
<1>1. CASE OutsideStep
  BY <1>1 DEF OutsideStep, Issue, Expire, SetLimit, Restart
<1>2. ASSUME NEW c \in Calls, GateStep(c) PROVE row' = row
  BY <1>2 DEF GateStep, Submit, CheckLedger, CheckVersion, Lookup, RecordReplay,
     EvaluateBudget, RecordWarning, RecordRejection, RecordHalt, RecordCompleted, shared
<1>3. ASSUME NEW c \in Calls, PlatformStep(c) PROVE row' = row
  BY <1>3 DEF PlatformStep, StartCalling, PlatformApplies, BackOff, TargetSucceeds,
     TargetRetries, TargetFails, shared
<1>4. ASSUME NEW c \in Calls, SettleStep(c) PROVE Untouched(a)
  <2>1. CASE Reserve(c)
    BY <2>1, <1>t DEF Reserve
  <2>2. CASE SaveResult(c)
    BY <2>2, <1>t, <1>f DEF SaveResult
  <2>3. CASE Release(c)
    <3>1. pc[c] = "releasing" /\ req[c] = a
      BY <2>3, <1>t DEF Release
    <3> QED BY <3>1 DEF Once, Reach
  <2>4. CASE CommitBudget(c) \/ Consume(c) \/ Fault(c)
    BY <2>4 DEF CommitBudget, Consume, Fault, shared
  <2> QED BY <1>4, <2>1, <2>2, <2>3, <2>4 DEF SettleStep
<1> QED BY <1>1, <1>2, <1>3, <1>4, NextSteps

\* Under the same condition, a reservation is given back only if nothing was written.
THEOREM FreedUntouched == ~LostReplies /\ Spec => ReleasedUntouched
<1>1. IInv /\ Once /\ [Next]_vars =>
        [\A a \in Approvals : row[a] = "claimed" /\ row'[a] = "free" => ~Written(a)]_vars
  BY FreedStep DEF Untouched, Written
<1> QED BY <1>1, OnceHolds, PTL DEF Spec, ReleasedUntouched

-----------------------------------------------------------------------------
(* The budget charged is the sum of the saved results.                     *)

CallsOf(t) == {c \in Calls : TenantOf[req[c]] = t}
ApprovalsOf(t) == {a \in Approvals : TenantOf[a] = t}
Owed == [c \in Calls |-> Settling(c)]
Earned == [a \in Approvals |-> Settled(a)]

\* What has been charged or is about to be charged is what the results ask for.
Balanced == \A t \in Tenants : spent[t] + Sum(Owed, CallsOf(t)) = Sum(Earned, ApprovalsOf(t))

LEMMA BudgetIsBalanced ==
  BudgetMatchesResults <=> (faults = 0 /\ restarts = 0 => Balanced)
BY DEF BudgetMatchesResults, Balanced, CallsOf, ApprovalsOf, Owed, Earned

LEMMA SharesAreNat ==
  ASSUME TypeOK
  PROVE  (\A c \in Calls : Owed[c] \in Nat) /\ (\A a \in Approvals : Earned[a] \in Nat)
<1>1. \A a \in Approvals, r \in Results, n \in Nat : Share(a, r, n) \in Nat
  BY ShareType
<1>2. ASSUME NEW c \in Calls PROVE Settling(c) \in Nat
  <2>1. req[c] \in Approvals /\ out[c] \in Results /\ prog[c].executed \in Nat
    BY DEF TypeOK, Progress
  <2> QED BY <1>1, <2>1 DEF Settling
<1>3. ASSUME NEW a \in Approvals PROVE Settled(a) \in Nat
  <2>1. saved[a] \in Nat /\ (row[a] \in SavedResults => row[a] \in Results)
    BY DEF TypeOK, Results
  <2> QED BY <1>1, <2>1 DEF Settled
<1> QED BY <1>2, <1>3 DEF Owed, Earned

\* Steps of a call that neither save a result nor charge one.
LEMMA OtherStepsSettleNothing ==
  ASSUME IInv, NEW c \in Calls,
         GateStep(c) \/ PlatformStep(c) \/ Reserve(c) \/ Consume(c) \/ Release(c)
  PROVE  /\ \A d \in Calls : Settling(d)' = Settling(d)
         /\ \A a \in Approvals : Settled(a)' = Settled(a)
         /\ UNCHANGED <<spent, req>>
<1>t. /\ pc \in [Calls -> PCs] /\ prog \in [Calls -> Progress] /\ out \in [Calls -> Results]
      /\ row \in [Approvals -> {"free", "claimed"} \cup SavedResults]
      /\ req \in [Calls -> Approvals]
  BY DEF IInv, TypeOK
<1>f. "free" \notin SavedResults /\ "claimed" \notin SavedResults
  BY DEF SavedResults
<1>1. /\ UNCHANGED <<spent, req, saved>>
      /\ \A d \in Calls : d # c => UNCHANGED <<pc[d], prog[d], out[d]>>
      /\ pc[c] # "committing" /\ pc'[c] # "committing"
      /\ \A a \in Approvals : \/ row'[a] = row[a]
                             \/ {row[a], row'[a]} \cap SavedResults = {}
  <2>1. CASE GateStep(c)
    BY <2>1, <1>t DEF GateStep, Submit, CheckLedger, CheckVersion, Lookup, RecordReplay,
       EvaluateBudget, RecordWarning, RecordRejection, RecordHalt, RecordCompleted,
       Reject, Goto, shared
  <2>2. CASE PlatformStep(c)
    BY <2>2, <1>t DEF PlatformStep, StartCalling, PlatformApplies, BackOff, TargetSucceeds,
       TargetRetries, TargetFails, Goto, shared
  <2>3. CASE Reserve(c)
    BY <2>3, <1>t, <1>f DEF Reserve, Reject, Goto
  <2>4. CASE Consume(c) \/ Release(c)
    BY <2>4, <1>t, <1>f DEF Consume, Release, Goto
  <2> QED BY <2>1, <2>2, <2>3, <2>4
<1>2. \A d \in Calls : Settling(d)' = Settling(d)
  BY <1>1 DEF Settling
<1>3. \A a \in Approvals : Settled(a)' = Settled(a)
  BY <1>1 DEF Settled
<1> QED BY <1>1, <1>2, <1>3

LEMMA OutsideSettlesNothing ==
  ASSUME IInv, OutsideStep, ~Restart
  PROVE  /\ \A d \in Calls : Settling(d)' = Settling(d)
         /\ \A a \in Approvals : Settled(a)' = Settled(a)
         /\ UNCHANGED <<spent, req>>
BY DEF OutsideStep, Issue, Expire, SetLimit, callState, Settling, Settled

\* Saving a result makes its share both earned and owed.
LEMMA SaveBalances ==
  ASSUME IInv, Balanced, NEW c \in Calls, SaveResult(c)
  PROVE  Balanced'
<1> DEFINE a == req[c]
           s == Share(a, out[c], prog[c].executed)
<1>t. /\ pc \in [Calls -> PCs] /\ saved \in [Approvals -> Nat]
      /\ row \in [Approvals -> {"free", "claimed"} \cup SavedResults]
      /\ a \in Approvals /\ spent \in [Tenants -> Nat] /\ TenantOf \in [Approvals -> Tenants]
  BY ExecutorAssumption DEF IInv, TypeOK, ExecutorAssumption
<1>1. row[a] = "claimed" /\ out[c] \in SavedResults /\ "claimed" \notin SavedResults
  BY <1>t DEF SaveResult, IInv, KeyExclusion, Owns, OwnerPCs, AnswerInv, SavedResults
<1>2. /\ row' = [row EXCEPT ![a] = out[c]] /\ saved' = [saved EXCEPT ![a] = prog[c].executed]
      /\ pc' = [pc EXCEPT ![c] = "committing"] /\ pc[c] = "saving"
      /\ UNCHANGED <<req, prog, out, spent>>
  BY <1>1, <1>t DEF SaveResult, Goto
<1>3. /\ Owed[c] = 0 /\ Owed'[c] = s
      /\ \A d \in Calls : d # c => Owed'[d] = Owed[d]
  BY <1>2, <1>t DEF Owed, Settling
<1>4. /\ Earned[a] = 0 /\ Earned'[a] = s
      /\ \A b \in Approvals : b # a => Earned'[b] = Earned[b]
  BY <1>1, <1>2, <1>t DEF Earned, Settled
<1>5. /\ \A d \in Calls : Owed[d] \in Int /\ Owed'[d] \in Int
      /\ \A b \in Approvals : Earned[b] \in Int /\ Earned'[b] \in Int
  <2>1. (\A d \in Calls : Owed[d] \in Nat) /\ (\A b \in Approvals : Earned[b] \in Nat)
    BY SharesAreNat DEF IInv
  <2>2. s \in Nat
    <3>1. prog[c].executed \in Nat
      BY DEF IInv, TypeOK, Progress
    <3> QED BY <3>1, <1>t, ShareType
  <2> HIDE DEF s
  <2> QED BY <2>1, <2>2, <1>3, <1>4
<1> SUFFICES ASSUME NEW t \in Tenants
             PROVE  spent[t] + Sum(Owed', CallsOf(t)) = Sum(Earned', ApprovalsOf(t))
  BY <1>2 DEF Balanced, CallsOf, ApprovalsOf
<1> HIDE DEF s
<1>6. IsFiniteSet(CallsOf(t)) /\ IsFiniteSet(ApprovalsOf(t))
  BY FinitelyMany, FS_Subset DEF FinitelyMany, CallsOf, ApprovalsOf
<1>7. CallsOf(t) \subseteq Calls /\ ApprovalsOf(t) \subseteq Approvals
  BY DEF CallsOf, ApprovalsOf
<1>8. spent[t] + Sum(Owed, CallsOf(t)) = Sum(Earned, ApprovalsOf(t)) /\ spent[t] \in Int
  BY <1>t DEF Balanced
<1>9. Sum(Owed, CallsOf(t)) \in Int /\ Sum(Earned, ApprovalsOf(t)) \in Int
  BY <1>5, <1>6, <1>7, SumInt
<1>10. CASE TenantOf[a] = t
  <2>1. c \in CallsOf(t) /\ a \in ApprovalsOf(t)
    BY <1>10, <1>t DEF CallsOf, ApprovalsOf
  <2>2. Sum(Owed', CallsOf(t)) = Sum(Owed, CallsOf(t)) - Owed[c] + Owed'[c]
    BY <1>3, <1>5, <1>6, <1>7, <2>1, SumChange
  <2>3. Sum(Earned', ApprovalsOf(t)) = Sum(Earned, ApprovalsOf(t)) - Earned[a] + Earned'[a]
    BY <1>4, <1>5, <1>6, <1>7, <2>1, SumChange
  <2> QED BY <1>3, <1>4, <1>5, <1>8, <1>9, <2>2, <2>3
<1>11. CASE TenantOf[a] # t
  <2>1. c \notin CallsOf(t) /\ a \notin ApprovalsOf(t)
    BY <1>11 DEF CallsOf, ApprovalsOf
  <2>2. Sum(Owed', CallsOf(t)) = Sum(Owed, CallsOf(t))
    BY <1>3, <1>6, <1>7, <2>1, SumSame
  <2>3. Sum(Earned', ApprovalsOf(t)) = Sum(Earned, ApprovalsOf(t))
    BY <1>4, <1>6, <1>7, <2>1, SumSame
  <2> QED BY <1>8, <2>2, <2>3
<1> QED BY <1>10, <1>11

\* Committing pays what was owed for the result.
LEMMA CommitBalances ==
  ASSUME IInv, Balanced, NEW c \in Calls, CommitBudget(c)
  PROVE  Balanced'
<1> DEFINE a == req[c]
           s == Share(a, out[c], prog[c].executed)
<1>t. /\ pc \in [Calls -> PCs] /\ a \in Approvals /\ spent \in [Tenants -> Nat]
      /\ TenantOf \in [Approvals -> Tenants]
  BY ExecutorAssumption DEF IInv, TypeOK, ExecutorAssumption
<1>1. /\ UNCHANGED <<req, prog, out, row, saved>> /\ pc[c] = "committing"
      /\ pc'[c] # "committing" /\ \A d \in Calls : d # c => pc'[d] = pc[d]
      /\ spent' = [spent EXCEPT ![TenantOf[a]] = @ + s]
  BY <1>t DEF CommitBudget, Goto
<1>2. Owed[c] = s /\ Owed'[c] = 0 /\ \A d \in Calls : d # c => Owed'[d] = Owed[d]
  BY <1>1 DEF Owed, Settling
<1>3. Earned' = Earned
  BY <1>1 DEF Earned, Settled
<1>4. \A d \in Calls : Owed[d] \in Int /\ Owed'[d] \in Int
  <2>1. \A d \in Calls : Owed[d] \in Nat
    BY SharesAreNat DEF IInv
  <2>2. \A d \in Calls : Owed'[d] = Owed[d] \/ Owed'[d] = 0
    BY <1>2
  <2> QED BY <2>1, <2>2
<1> HIDE DEF s
<1> SUFFICES ASSUME NEW t \in Tenants
             PROVE  spent'[t] + Sum(Owed', CallsOf(t)) = Sum(Earned, ApprovalsOf(t))
  BY <1>1, <1>3 DEF Balanced, CallsOf, ApprovalsOf
<1>6. IsFiniteSet(CallsOf(t)) /\ CallsOf(t) \subseteq Calls
  BY FinitelyMany, FS_Subset DEF FinitelyMany, CallsOf
<1>8. spent[t] + Sum(Owed, CallsOf(t)) = Sum(Earned, ApprovalsOf(t)) /\ spent[t] \in Int
  BY <1>t DEF Balanced
<1>9. Sum(Owed, CallsOf(t)) \in Int
  BY <1>4, <1>6, SumInt
<1>10. CASE TenantOf[a] = t
  <2>1. c \in CallsOf(t)
    BY <1>10 DEF CallsOf
  <2>2. Sum(Owed', CallsOf(t)) = Sum(Owed, CallsOf(t)) - Owed[c] + Owed'[c]
    BY <1>2, <1>4, <1>6, <2>1, SumChange
  <2>3. spent'[t] = spent[t] + s
    BY <1>1, <1>10, <1>t
  <2> QED BY <1>2, <1>4, <1>8, <1>9, <2>2, <2>3
<1>11. CASE TenantOf[a] # t
  <2>1. c \notin CallsOf(t)
    BY <1>11 DEF CallsOf
  <2>2. Sum(Owed', CallsOf(t)) = Sum(Owed, CallsOf(t))
    BY <1>2, <1>6, <2>1, SumSame
  <2>3. spent'[t] = spent[t]
    BY <1>1, <1>11, <1>t
  <2> QED BY <1>8, <2>2, <2>3
<1> QED BY <1>10, <1>11

LEMMA BudgetStep ==
  ASSUME IInv, BudgetMatchesResults, [Next]_vars
  PROVE  BudgetMatchesResults'
<1>b. faults = 0 /\ restarts = 0 => Balanced
  BY BudgetIsBalanced
<1> SUFFICES ASSUME faults' = 0, restarts' = 0 PROVE Balanced'
  BY DEF BudgetMatchesResults, Balanced, CallsOf, ApprovalsOf, Owed, Earned
<1>n. faults \in Nat /\ restarts \in Nat
  BY DEF IInv, TypeOK
<1>s. ASSUME UNCHANGED <<spent, req>>, Balanced,
             \A d \in Calls : Settling(d)' = Settling(d),
             \A a \in Approvals : Settled(a)' = Settled(a)
      PROVE  Balanced'
  <2>1. Owed' = Owed /\ Earned' = Earned
    BY <1>s DEF Owed, Earned
  <2> QED BY <1>s, <2>1 DEF Balanced, CallsOf, ApprovalsOf
<1>1. CASE UNCHANGED vars
  BY <1>1, <1>b, <1>s DEF vars, Settling, Settled
<1>2. CASE OutsideStep
  <2>1. ~Restart
    BY <1>n DEF Restart
  <2>2. UNCHANGED <<faults, restarts>>
    BY <1>2, <2>1 DEF OutsideStep, Issue, Expire, SetLimit, callState
  <2> QED BY <1>2, <2>1, <2>2, <1>b, <1>s, OutsideSettlesNothing
<1>3. ASSUME NEW c \in Calls, GateStep(c) \/ PlatformStep(c) \/ SettleStep(c)
      PROVE  Balanced'
  <2>1. ~Fault(c)
    BY <1>n DEF Fault
  <2>2. UNCHANGED <<faults, restarts>>
    BY <1>3, <2>1 DEF GateStep, Submit, CheckLedger, CheckVersion, Lookup, RecordReplay,
       EvaluateBudget, RecordWarning, RecordRejection, RecordHalt, RecordCompleted,
       PlatformStep, StartCalling, PlatformApplies, BackOff, TargetSucceeds, TargetRetries,
       TargetFails, SettleStep, Reserve, SaveResult, CommitBudget, Consume, Release
  <2>3. CASE SaveResult(c)
    BY <2>2, <2>3, <1>b, SaveBalances
  <2>4. CASE CommitBudget(c)
    BY <2>2, <2>4, <1>b, CommitBalances
  <2>5. CASE ~SaveResult(c) /\ ~CommitBudget(c)
    BY <1>3, <2>1, <2>2, <2>5, <1>b, <1>s, OtherStepsSettleNothing DEF SettleStep
  <2> QED BY <2>3, <2>4, <2>5
<1> QED BY <1>1, <1>2, <1>3, NextSteps

\* While no await raises and the process lives, what a tenant has been charged is the
\* sum of the shares of its saved results, each counted once, for any number of
\* calls, approvals and tenants.
THEOREM BudgetMatches == Spec => []BudgetMatchesResults
<1>1. Init => IInv /\ BudgetMatchesResults
  <2> SUFFICES ASSUME Init PROVE Balanced
    BY InitInv, BudgetIsBalanced
  <2> SUFFICES ASSUME NEW t \in Tenants
               PROVE  spent[t] + Sum(Owed, CallsOf(t)) = Sum(Earned, ApprovalsOf(t))
    BY DEF Balanced
  <2>1. IsFiniteSet(CallsOf(t)) /\ IsFiniteSet(ApprovalsOf(t))
    BY FinitelyMany, FS_Subset DEF FinitelyMany, CallsOf, ApprovalsOf
  <2>2. \A c \in CallsOf(t) : Owed[c] = 0
    BY DEF Init, CallsOf, Owed, Settling
  <2>3. \A a \in ApprovalsOf(t) : Earned[a] = 0
    BY DEF Init, ApprovalsOf, Earned, Settled, SavedResults
  <2>4. Sum(Owed, CallsOf(t)) = 0 /\ Sum(Earned, ApprovalsOf(t)) = 0
    BY <2>1, <2>2, <2>3, SumZero
  <2> QED BY <2>4 DEF Init
<1>2. IInv /\ BudgetMatchesResults /\ [Next]_vars => (IInv /\ BudgetMatchesResults)'
  BY NextType, KeyStep, AnswerStep, BudgetStep DEF IInv
<1> QED BY <1>1, <1>2, PTL DEF Spec
=============================================================================
