------------------------------ MODULE Executor ------------------------------
(***************************************************************************)
(* The single spending path of the management domain: Executor.execute()   *)
(* with its idempotency rows, approval ledger and per-tenant budget        *)
(* authority, as run by several concurrent requests of one asyncio         *)
(* process.  Between two awaits a coroutine runs alone, so one action here *)
(* is what execute() does from one await to the next.                      *)
(*                                                                         *)
(* The idempotency key is a hash of the approval id, the action type and   *)
(* the sorted targets; the proposal is bound to the approval by its hash,  *)
(* so the key is in one-to-one correspondence with the approval and the    *)
(* model indexes the idempotency rows by approval.                         *)
(***************************************************************************)
EXTENDS Integers, FiniteSets, Totals

CONSTANTS
  Calls,              \* invocations of execute(), each used at most once
  Approvals,          \* approval ids a client may submit, forged ones included
  Tenants,
  TenantOf,           \* [Approvals -> Tenants]
  Spend,              \* [Approvals -> Nat], what _effective_spend returns
  NumTargets,         \* [Approvals -> Nat \ {0}], length of target_object_ids
  Automatic,          \* approvals whose approver_id is AUTO_APPROVER
  HighTier,           \* approvals of tier 2 or 3
  Invalid,            \* approvals failing another static check of _validate
  Stale,              \* approvals whose expected_state_version is not current
  DefaultLimit,       \* default_limit_krw of TenantBudgetRegistry
  Limits,             \* limits a user may set for a tenant
  Replies,            \* replies of the platform writer that a run explores
  LostReplies,        \* may a failed reply hide a write that was applied?
  MaxTimeoutRetries,
  MaxRateRetries,
  MaxFaults,          \* bound on awaits that raise
  MaxRestarts         \* bound on process restarts

Successes == {"success", "pending"}
Failures == {"timeout", "rate_limited", "error", "partial"}

ASSUME ExecutorAssumption ==
  /\ TenantOf \in [Approvals -> Tenants]
  /\ Spend \in [Approvals -> Nat]
  /\ NumTargets \in [Approvals -> Nat \ {0}]
  /\ DefaultLimit \in Nat
  /\ Limits \subseteq Nat
  /\ Replies \subseteq Successes \cup Failures
  /\ LostReplies \in BOOLEAN
  /\ MaxTimeoutRetries \in Nat
  /\ MaxRateRetries \in Nat
  /\ MaxFaults \in Nat
  /\ MaxRestarts \in Nat

\* What a tenant has been charged for is a finite sum.
ASSUME FinitelyMany == IsFiniteSet(Calls) /\ IsFiniteSet(Approvals)

VARIABLES
  ledger,    \* approval ledger: "none", "issued" or "consumed"
  expired,   \* approvals whose own TTL, or whose proposal's TTL, has passed
  row,       \* idempotency row: "free", "claimed" or the saved result
  saved,     \* executed targets counted in the snapshots of the saved result
  spent,     \* BudgetAuthority.spent_krw of each tenant, in memory
  limit,     \* BudgetAuthority.limit_krw of each tenant, in memory
  applied,   \* how often the platform applied each target (saturates at two)
  pc,        \* the await each call is suspended at
  req,       \* the approval each call carries
  run,       \* ExecutionRun.status of each call
  prog,      \* progress of each call through its targets
  out,       \* the result each call is about to return
  faults,    \* awaits that raised so far
  restarts   \* process restarts so far

shared == <<ledger, expired, row, saved, spent, limit, applied>>
vars == <<ledger, expired, row, saved, spent, limit, applied,
          pc, req, run, prog, out, faults, restarts>>

Targets(a) == 1..NumTargets[a]

SavedResults == {"success", "pending", "partial"}
Rejections == {"invalid", "expired", "unapproved", "stale", "budget_cap", "in_flight"}
Results == {"none"} \cup SavedResults \cup Failures \cup Rejections

RunStatuses == {"received", "validated", "reserved", "calling",
                "succeeded", "pending_review", "failed", "halted"}

\* Where a call that owns the idempotency row of its approval can be.
OwnerPCs == {"reserved", "calling", "backoff", "halting", "saving", "releasing"}

PCs == OwnerPCs \cup
       {"idle", "ledger", "version", "lookup", "replaying", "evaluate", "warn",
        "reserve", "rejecting", "committing", "consuming", "recording",
        "done", "crashed"}

\* Awaits whose exception leaves execute(); the writer's exceptions and those of
\* consume() are swallowed by the code and are not in this set.
RaisingPCs == PCs \ {"idle", "calling", "consuming", "done", "crashed"}

Progress == [target : Nat \ {0}, timeouts : Nat, rates : Nat,
             executed : Nat, pending : BOOLEAN, wire : {"sent", "applied"}]

FreshProgress == [target |-> 1, timeouts |-> 0, rates |-> 0,
                  executed |-> 0, pending |-> FALSE, wire |-> "sent"]

Init ==
  /\ ledger = [a \in Approvals |-> "none"]
  /\ expired = {}
  /\ row = [a \in Approvals |-> "free"]
  /\ saved = [a \in Approvals |-> 0]
  /\ spent = [t \in Tenants |-> 0]
  /\ limit = [t \in Tenants |-> DefaultLimit]
  /\ applied = [a \in Approvals |-> [i \in Targets(a) |-> 0]]
  /\ pc = [c \in Calls |-> "idle"]
  /\ req \in [Calls -> Approvals]
  /\ run = [c \in Calls |-> "received"]
  /\ prog = [c \in Calls |-> FreshProgress]
  /\ out = [c \in Calls |-> "none"]
  /\ faults = 0
  /\ restarts = 0

-----------------------------------------------------------------------------
(* Everything outside execute(): issuing, expiry and the budget limit.     *)

callState == <<pc, req, run, prog, out, faults, restarts>>

\* issue_approval(): the pre-approval checks, then the ledger row.
Issue(a) ==
  /\ ledger[a] = "none"
  /\ a \notin expired
  /\ ledger' = [ledger EXCEPT ![a] = "issued"]
  /\ UNCHANGED <<expired, row, saved, spent, limit, applied, callState>>

Expire(a) ==
  /\ a \notin expired
  /\ expired' = expired \cup {a}
  /\ UNCHANGED <<ledger, row, saved, spent, limit, applied, callState>>

\* TenantBudgetRegistry.set_limit(): a new limit, the same spent_krw.
SetLimit(t, l) ==
  /\ l # limit[t]
  /\ limit' = [limit EXCEPT ![t] = l]
  /\ UNCHANGED <<ledger, expired, row, saved, spent, applied, callState>>

-----------------------------------------------------------------------------
(* execute(), gates 4) to 6).                                              *)

Goto(c, p) == pc' = [pc EXCEPT ![c] = p]

\* The state machine of ExecutionRun.  advance() raises outside this relation; the
\* step is then disabled here, and CallsEnd would fail.
Allowed == [s \in RunStatuses |->
  CASE s = "received" -> {"validated", "failed"}
    [] s = "validated" -> {"reserved", "failed"}
    [] s = "reserved" -> {"calling", "failed"}
    [] s = "calling" -> {"succeeded", "pending_review", "failed", "halted"}
    [] OTHER -> {}]

Advance(c, s) ==
  /\ s \in Allowed[run[c]]
  /\ run' = [run EXCEPT ![c] = s]

\* _reject(): the run fails at once, the result is returned after the audit append.
Reject(c, reason) ==
  /\ Goto(c, "rejecting")
  /\ Advance(c, "failed")
  /\ out' = [out EXCEPT ![c] = reason]

\* execute() up to its first await: _validate() runs without suspending.
Submit(c) ==
  LET a == req[c] IN
  /\ pc[c] = "idle"
  /\ \/ /\ a \in Invalid \cup (Automatic \cap HighTier)
        /\ Reject(c, "invalid")
     \/ /\ a \in expired
        /\ Reject(c, "expired")
     \/ /\ a \notin Invalid \cup (Automatic \cap HighTier) \cup expired
        /\ Goto(c, "ledger")
        /\ UNCHANGED <<run, out>>
  /\ UNCHANGED <<shared, req, prog, faults, restarts>>

\* Mutant: the ledger is read and its answer ignored.
LedgerIgnored(c) ==
  /\ pc[c] = "ledger"
  /\ Goto(c, "version")
  /\ UNCHANGED <<shared, req, run, prog, out, faults, restarts>>

\* _verify_approval_record(): an approval the server did not issue is refused;
\* a consumed one is not, the idempotency row deals with it.
CheckLedger(c) ==
  /\ pc[c] = "ledger"
  /\ IF ledger[req[c]] = "none"
     THEN Reject(c, "unapproved")
     ELSE Goto(c, "version") /\ UNCHANGED <<run, out>>
  /\ UNCHANGED <<shared, req, prog, faults, restarts>>

CheckVersion(c) ==
  /\ pc[c] = "version"
  /\ IF req[c] \in Stale
     THEN Reject(c, "stale")
     ELSE Goto(c, "lookup") /\ Advance(c, "validated") /\ UNCHANGED out
  /\ UNCHANGED <<shared, req, prog, faults, restarts>>

\* Mutant: no replay, every duplicate goes on to the budget and the reservation.
LookupForgotten(c) ==
  /\ pc[c] = "lookup"
  /\ Goto(c, "evaluate")
  /\ UNCHANGED <<shared, req, run, prog, out, faults, restarts>>

\* get_result(): a saved result is replayed before the budget is looked at.
Lookup(c) ==
  /\ pc[c] = "lookup"
  /\ IF row[req[c]] \in SavedResults
     THEN Goto(c, "replaying") /\ out' = [out EXCEPT ![c] = row[req[c]]]
     ELSE Goto(c, "evaluate") /\ UNCHANGED out
  /\ UNCHANGED <<shared, req, run, prog, faults, restarts>>

RecordReplay(c) ==
  /\ pc[c] = "replaying"
  /\ Goto(c, "done")
  /\ UNCHANGED <<shared, req, run, prog, out, faults, restarts>>

\* BudgetAuthority.evaluate(); its two thresholds in integer arithmetic.
Decision(t, amount) ==
  LET projected == spent[t] + amount IN
  CASE limit[t] <= 0 \/ projected > limit[t] -> "block"
    [] 100 * projected >= 95 * limit[t] -> "escalate"
    [] 100 * projected >= 90 * limit[t] -> "warn"
    [] OTHER -> "allow"

EvaluateBudget(c) ==
  LET a == req[c]
      decision == Decision(TenantOf[a], Spend[a]) IN
  /\ pc[c] = "evaluate"
  /\ IF decision = "block" \/ (decision = "escalate" /\ a \in Automatic)
     THEN Reject(c, "budget_cap")
     ELSE /\ Goto(c, IF decision = "warn" THEN "warn" ELSE "reserve")
          /\ UNCHANGED <<run, out>>
  /\ UNCHANGED <<shared, req, prog, faults, restarts>>

RecordWarning(c) ==
  /\ pc[c] = "warn"
  /\ Goto(c, "reserve")
  /\ UNCHANGED <<shared, req, run, prog, out, faults, restarts>>

\* Mutant: ON CONFLICT DO UPDATE, an upsert that always succeeds.
ReserveUpserts(c) ==
  /\ pc[c] = "reserve"
  /\ row' = [row EXCEPT ![req[c]] = "claimed"]
  /\ Goto(c, "reserved")
  /\ UNCHANGED <<ledger, expired, saved, spent, limit, applied,
                 req, run, prog, out, faults, restarts>>

\* reserve(): INSERT ... ON CONFLICT DO NOTHING.  A row that exists, saved or
\* only claimed, makes this call an in-flight duplicate.
Reserve(c) ==
  LET a == req[c] IN
  /\ pc[c] = "reserve"
  /\ \/ /\ row[a] = "free"
        /\ row' = [row EXCEPT ![a] = "claimed"]
        /\ Goto(c, "reserved")
        /\ UNCHANGED <<run, out>>
     \/ /\ row[a] # "free"
        /\ Reject(c, "in_flight")
        /\ UNCHANGED row
  /\ UNCHANGED <<ledger, expired, saved, spent, limit, applied,
                 req, prog, faults, restarts>>

\* Mutant: a rejected duplicate releases the key that another call has reserved.
RejectionReleases(c) ==
  /\ pc[c] = "rejecting"
  /\ row' = [row EXCEPT ![req[c]] = IF @ = "claimed" THEN "free" ELSE @]
  /\ Goto(c, "done")
  /\ UNCHANGED <<ledger, expired, saved, spent, limit, applied,
                 req, run, prog, out, faults, restarts>>

RecordRejection(c) ==
  /\ pc[c] = "rejecting"
  /\ Goto(c, "done")
  /\ UNCHANGED <<shared, req, run, prog, out, faults, restarts>>

\* The reservation is acknowledged; the first write is sent.  The two advances
\* RESERVED and CALLING happen without an await between them.
StartCalling(c) ==
  /\ pc[c] = "reserved"
  /\ Goto(c, "calling")
  /\ "reserved" \in Allowed[run[c]] /\ "calling" \in Allowed["reserved"]
  /\ run' = [run EXCEPT ![c] = "calling"]
  /\ prog' = [prog EXCEPT ![c] = FreshProgress]
  /\ UNCHANGED <<shared, req, out, faults, restarts>>

-----------------------------------------------------------------------------
(* execute(), step 7): _call_targets() and _call_with_retry().             *)

AtMostTwo(n) == IF n < 2 THEN n + 1 ELSE 2

\* The platform applies the write of the current target (at most once per send).
PlatformApplies(c) ==
  LET a == req[c] IN
  /\ pc[c] = "calling"
  /\ prog[c].wire = "sent"
  /\ applied' = [applied EXCEPT ![a][prog[c].target] = AtMostTwo(@)]
  /\ prog' = [prog EXCEPT ![c].wire = "applied"]
  /\ UNCHANGED <<ledger, expired, row, saved, spent, limit,
                 pc, req, run, out, faults, restarts>>

\* The writer reports that the target's write was accepted.
TargetSucceeds(c, reply) ==
  LET a == req[c]
      p == prog[c]
      pend == p.pending \/ reply = "pending" IN
  /\ pc[c] = "calling"
  /\ reply \in Successes
  /\ p.wire = "applied"
  /\ IF p.target < NumTargets[a]
     THEN /\ prog' = [prog EXCEPT ![c] =
                        [FreshProgress EXCEPT !.target = p.target + 1,
                                              !.executed = p.executed + 1,
                                              !.pending = pend]]
          /\ UNCHANGED <<pc, run, out>>
     ELSE /\ prog' = [prog EXCEPT ![c].executed = p.executed + 1, ![c].pending = pend]
          /\ Goto(c, "saving")
          /\ Advance(c, IF pend THEN "pending_review" ELSE "succeeded")
          /\ out' = [out EXCEPT ![c] = IF pend THEN "pending" ELSE "success"]
  /\ UNCHANGED <<shared, req, faults, restarts>>

Retried(c, reply) ==
  \/ reply = "timeout" /\ prog[c].timeouts < MaxTimeoutRetries
  \/ reply = "rate_limited" /\ prog[c].rates < MaxRateRetries

\* A failed reply: nothing was applied, or the write was applied and the answer
\* lost, or (a "partial" reply of a tree writer) part of it was applied.
ReplyMatchesWire(c, reply) ==
  CASE reply = "partial" -> prog[c].wire = "applied"
    [] reply = "rate_limited" -> prog[c].wire = "sent"
    [] OTHER -> prog[c].wire = "sent" \/ LostReplies

TargetRetries(c, reply) ==
  /\ pc[c] = "calling"
  /\ reply \in Failures
  /\ ReplyMatchesWire(c, reply)
  /\ Retried(c, reply)
  /\ prog' = [prog EXCEPT ![c].timeouts = IF reply = "timeout" THEN @ + 1 ELSE @,
                          ![c].rates = IF reply = "rate_limited" THEN @ + 1 ELSE @]
  /\ Goto(c, "backoff")
  /\ UNCHANGED <<shared, req, run, out, faults, restarts>>

\* Mutant: the attempt counter is initialised inside the loop.
BackOffForgets(c) ==
  /\ pc[c] = "backoff"
  /\ Goto(c, "calling")
  /\ prog' = [prog EXCEPT ![c].wire = "sent", ![c].timeouts = 0]
  /\ UNCHANGED <<shared, req, run, out, faults, restarts>>

\* The retry is recorded, the backoff slept, the write sent again.
BackOff(c) ==
  /\ pc[c] = "backoff"
  /\ Goto(c, "calling")
  /\ prog' = [prog EXCEPT ![c].wire = "sent"]
  /\ UNCHANGED <<shared, req, run, out, faults, restarts>>

\* Mutant: the key is released after any failure of the first target, a partial
\* one of a tree writer included, and nothing is sealed.
PartialReleased(c, reply) ==
  LET first == prog[c].target = 1 IN
  /\ pc[c] = "calling"
  /\ reply \in Failures
  /\ ReplyMatchesWire(c, reply)
  /\ ~Retried(c, reply)
  /\ Advance(c, IF first THEN "failed" ELSE "halted")
  /\ out' = [out EXCEPT ![c] = IF first THEN reply ELSE "partial"]
  /\ Goto(c, IF first THEN "releasing" ELSE "halting")
  /\ UNCHANGED <<shared, req, prog, faults, restarts>>

\* Mutant: the result of a transient failure is saved like any other.
FailureSaved(c, reply) ==
  /\ pc[c] = "calling"
  /\ reply \in Failures
  /\ ReplyMatchesWire(c, reply)
  /\ ~Retried(c, reply)
  /\ Advance(c, "failed")
  /\ out' = [out EXCEPT ![c] = reply]
  /\ Goto(c, "saving")
  /\ UNCHANGED <<shared, req, prog, faults, restarts>>

\* Mutant: a failed call returns without releasing its key.
KeyKept(c, reply) ==
  /\ pc[c] = "calling"
  /\ reply \in Failures
  /\ ReplyMatchesWire(c, reply)
  /\ ~Retried(c, reply)
  /\ Advance(c, "failed")
  /\ out' = [out EXCEPT ![c] = reply]
  /\ Goto(c, "recording")
  /\ UNCHANGED <<shared, req, prog, faults, restarts>>

\* A failure of the first target is a plain failure, of a later one a partial
\* failure; a partial reply of the first target is sealed all the same.
TargetFails(c, reply) ==
  LET first == prog[c].target = 1 IN
  /\ pc[c] = "calling"
  /\ reply \in Failures
  /\ ReplyMatchesWire(c, reply)
  /\ ~Retried(c, reply)
  /\ Advance(c, IF first THEN "failed" ELSE "halted")
  /\ out' = [out EXCEPT ![c] = IF first THEN reply ELSE "partial"]
  /\ Goto(c, CASE ~first -> "halting"
               [] first /\ reply = "partial" -> "saving"
               [] OTHER -> "releasing")
  /\ UNCHANGED <<shared, req, prog, faults, restarts>>

RecordHalt(c) ==
  /\ pc[c] = "halting"
  /\ Goto(c, "saving")
  /\ UNCHANGED <<shared, req, run, prog, out, faults, restarts>>

-----------------------------------------------------------------------------
(* execute(), settlement of the result.                                    *)

SaveResult(c) ==
  LET a == req[c] IN
  /\ pc[c] = "saving"
  /\ row' = [row EXCEPT ![a] = IF @ = "free" THEN @ ELSE out[c]]
  /\ saved' = [saved EXCEPT ![a] = prog[c].executed]
  /\ Goto(c, "committing")
  /\ UNCHANGED <<ledger, expired, spent, limit, applied,
                 req, run, prog, out, faults, restarts>>

\* What the budget authority is charged for a saved result.
Share(a, result, executed) ==
  CASE result \in Successes -> Spend[a]
    [] result = "partial" -> (Spend[a] * executed) \div NumTargets[a]
    [] OTHER -> 0

\* Mutant: a partial failure is charged in full.
CommitInFull(c) ==
  /\ pc[c] = "committing"
  /\ spent' = [spent EXCEPT ![TenantOf[req[c]]] = @ + Spend[req[c]]]
  /\ Goto(c, IF out[c] \in Successes THEN "consuming" ELSE "recording")
  /\ UNCHANGED <<ledger, expired, row, saved, limit, applied,
                 req, run, prog, out, faults, restarts>>

CommitBudget(c) ==
  LET a == req[c]
      share == Share(a, out[c], prog[c].executed) IN
  /\ pc[c] = "committing"
  /\ spent' = [spent EXCEPT ![TenantOf[a]] = @ + share]
  /\ Goto(c, IF out[c] \in Successes THEN "consuming" ELSE "recording")
  /\ UNCHANGED <<ledger, expired, row, saved, limit, applied,
                 req, run, prog, out, faults, restarts>>

\* consume(): an exception is suppressed, the approval then stays "issued".
Consume(c) ==
  /\ pc[c] = "consuming"
  /\ ledger' \in {ledger, [ledger EXCEPT ![req[c]] = "consumed"]}
  /\ Goto(c, "recording")
  /\ UNCHANGED <<expired, row, saved, spent, limit, applied,
                 req, run, prog, out, faults, restarts>>

\* release(): the row is deleted unless it holds a result.
Release(c) ==
  LET a == req[c] IN
  /\ pc[c] = "releasing"
  /\ row' = [row EXCEPT ![a] = IF @ = "claimed" THEN "free" ELSE @]
  /\ Goto(c, "recording")
  /\ UNCHANGED <<ledger, expired, saved, spent, limit, applied,
                 req, run, prog, out, faults, restarts>>

RecordCompleted(c) ==
  /\ pc[c] = "recording"
  /\ Goto(c, "done")
  /\ UNCHANGED <<shared, req, run, prog, out, faults, restarts>>

-----------------------------------------------------------------------------
(* Failures of the process itself.                                         *)

\* An await raises (a database or audit error): execute() ends, nothing is undone.
Fault(c) ==
  /\ faults < MaxFaults
  /\ pc[c] \in RaisingPCs
  /\ Goto(c, "crashed")
  /\ faults' = faults + 1
  /\ UNCHANGED <<shared, req, run, prog, out, restarts>>

\* The process restarts: the calls in progress die, the in-memory budget
\* authority starts again from its default; the tables survive.
Restart ==
  /\ restarts < MaxRestarts
  /\ pc' = [c \in Calls |-> IF pc[c] \in {"idle", "done"} THEN pc[c] ELSE "crashed"]
  /\ spent' = [t \in Tenants |-> 0]
  /\ limit' = [t \in Tenants |-> DefaultLimit]
  /\ restarts' = restarts + 1
  /\ UNCHANGED <<ledger, expired, row, saved, applied, req, run, prog, out, faults>>

-----------------------------------------------------------------------------
\* What a running execute() does next, whatever the platform answers.
Continue(c) ==
  \/ CheckLedger(c) \/ CheckVersion(c) \/ Lookup(c) \/ RecordReplay(c)
  \/ EvaluateBudget(c) \/ RecordWarning(c) \/ Reserve(c) \/ RecordRejection(c)
  \/ StartCalling(c) \/ PlatformApplies(c)
  \/ \E reply \in Replies :
       TargetSucceeds(c, reply) \/ TargetRetries(c, reply) \/ TargetFails(c, reply)
  \/ BackOff(c) \/ RecordHalt(c) \/ SaveResult(c) \/ CommitBudget(c)
  \/ Consume(c) \/ Release(c) \/ RecordCompleted(c)

Next ==
  \/ \E a \in Approvals : Issue(a) \/ Expire(a)
  \/ \E t \in Tenants, l \in Limits : SetLimit(t, l)
  \/ \E c \in Calls : Submit(c) \/ Continue(c) \/ Fault(c)
  \/ Restart

Spec == Init /\ [][Next]_vars

\* The event loop runs every ready coroutine, and each platform call ends, by an
\* answer or by the 30-second timeout of the HTTP client.
FairSpec == Spec /\ \A c \in Calls : WF_vars(Continue(c))

-----------------------------------------------------------------------------
(* Properties.                                                             *)

\* Every variable keeps its type.
TypeOK ==
  /\ ledger \in [Approvals -> {"none", "issued", "consumed"}]
  /\ expired \subseteq Approvals
  /\ row \in [Approvals -> {"free", "claimed"} \cup SavedResults]
  /\ saved \in [Approvals -> Nat]
  /\ spent \in [Tenants -> Nat]
  /\ limit \in [Tenants -> Nat]
  /\ DOMAIN applied = Approvals
  /\ \A a \in Approvals : applied[a] \in [Targets(a) -> 0..2]
  /\ pc \in [Calls -> PCs]
  /\ req \in [Calls -> Approvals]
  /\ run \in [Calls -> RunStatuses]
  /\ prog \in [Calls -> Progress]
  /\ out \in [Calls -> Results]
  /\ faults \in Nat
  /\ restarts \in Nat

Owns(c, a) == pc[c] \in OwnerPCs /\ req[c] = a

\* Between reserve() and save_result()/release() a call has the idempotency row
\* of its key for itself, and the row stays claimed: the guarantee on which every
\* "same key, one execution" argument of execute() rests.
KeyExclusion ==
  \A a \in Approvals :
    /\ (\E c \in Calls : Owns(c, a)) => row[a] = "claimed"
    /\ \A c, d \in Calls : Owns(c, a) /\ Owns(d, a) => c = d

\* A result once saved is what the key means from then on: the row keeps it, and
\* no later call of the same approval reaches the platform, whether the result
\* is a success or a sealed partial failure.
SavedResultFinal ==
  [][\A a \in Approvals : row[a] \in SavedResults =>
       row'[a] = row[a] /\ applied'[a] = applied[a]]_vars

\* Callers that are told of an execution (a success, a pending review, a partial
\* failure) are all told the one result the key holds, executors and duplicates.
AnswerIsStored ==
  \A c \in Calls : pc[c] = "done" /\ out[c] \in SavedResults => row[req[c]] = out[c]

Written(a) == \E i \in Targets(a) : applied[a][i] > 0

\* The platform is never written for an approval the server did not issue, that
\* fails a static check, that is bound to another state version, or that was
\* approved automatically although its tier needs a user.
OnlyApprovedWrites ==
  \A a \in Approvals : Written(a) =>
    /\ ledger[a] # "none"
    /\ a \notin Invalid \cup Stale \cup (Automatic \cap HighTier)

\* Gate 1: one key, one execution - however calls, retries, releases, crashes and
\* restarts follow each other, no target is written twice under one approval.
OneExecutionPerKey ==
  \A a \in Approvals : \A i \in Targets(a) : applied[a][i] <= 1

\* A reservation is given back only after an execution that changed nothing.
ReleasedUntouched ==
  [][\A a \in Approvals : row[a] = "claimed" /\ row'[a] = "free" => ~Written(a)]_vars

\* Gate on spending: the budget charged to a tenant never exceeds its limit.
HardCap == \A t \in Tenants : spent[t] <= limit[t]

Settled(a) == IF row[a] \in SavedResults THEN Share(a, row[a], saved[a]) ELSE 0
Settling(c) == IF pc[c] = "committing" THEN Share(req[c], out[c], prog[c].executed) ELSE 0

\* While no await raises and the process lives, a tenant has been charged for each
\* saved result exactly once, in proportion to the targets executed; a replay,
\* a refusal and a released key charge nothing.
BudgetMatchesResults ==
  faults = 0 /\ restarts = 0 =>
    \A t \in Tenants :
      spent[t] + Sum([c \in Calls |-> Settling(c)], {c \in Calls : TenantOf[req[c]] = t})
        = Sum([a \in Approvals |-> Settled(a)], {a \in Approvals : TenantOf[a] = t})

Ended(c) == pc[c] \in {"done", "crashed"}

\* Every submitted call returns: the retry loops end and no advance() of the run
\* is refused by its state machine.
CallsEnd == \A c \in Calls : pc[c] # "idle" ~> Ended(c)

\* Without a crash no key stays claimed for ever: it gets a result or is given back.
KeysResolve == \A a \in Approvals : row[a] = "claimed" ~> row[a] # "claimed"

\* A duplicate submitted after the result was saved is answered with that result,
\* even if the tenant's budget is used up by now.
DuplicatesReplay ==
  \A c \in Calls :
    [](pc[c] = "idle" /\ row[req[c]] \in SavedResults =>
         [](pc[c] = "done" => out[c] \in {row[req[c]], "expired"}))
=============================================================================
