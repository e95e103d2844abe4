----------------------------- MODULE Rebalance ------------------------------
(***************************************************************************)
(* The two handlers that write daily budgets, budget_commit() and          *)
(* budget_rebalance_commit(), running concurrently in one asyncio process: *)
(* sorted per-campaign locks, validation against the budgets read through  *)
(* the GET cache of the Meta client, the legs of _call_rebalance()         *)
(* (decrease, increase, compensation) with their retries.                  *)
(*                                                                         *)
(* The gates of Executor.execute() are one step here; module Executor has  *)
(* them in detail.  adjust_budget() never answers "pending review".        *)
(***************************************************************************)
EXTENDS Integers, FiniteSets, Totals

CONSTANTS
  Requests,           \* requests, each used at most once
  Dashboards,         \* other readers of the campaign list
  NumCampaigns,       \* campaigns are 1..NumCampaigns, in the order of their ids
  InitialBudget,
  MinBudget, MaxBudget,
  Bodies,             \* the request bodies clients may send
  LostReplies,        \* may a failed reply hide a write that was applied?
  OvertakenReads,     \* may a write be applied while a GET is in flight?
  MaxTimeoutRetries, MaxRateRetries,
  MaxFaults,          \* bound on awaits that raise
  MaxRestarts

Campaigns == 1..NumCampaigns
NotShown == 0         \* a "shown before" the client did not send
NoBudgets == <<>>     \* no entry in the cache, no answer yet
Nobody == "nobody"

Body == [kind : {"single", "rebalance"}, from : Campaigns, to : Campaigns,
         fromAfter : Nat, toAfter : Nat, move : Nat, up : BOOLEAN,
         shownFrom : Nat, shownTo : Nat]

ASSUME RebalanceAssumption ==
  /\ NumCampaigns \in Nat
  /\ InitialBudget \in [Campaigns -> Nat]
  /\ MinBudget \in Nat \ {0} /\ MaxBudget \in Nat
  /\ Bodies \subseteq Body
  /\ \A b \in Bodies : b.kind = "single" => b.from = b.to
  /\ {LostReplies, OvertakenReads} \subseteq BOOLEAN
  /\ {MaxTimeoutRetries, MaxRateRetries, MaxFaults, MaxRestarts} \subseteq Nat
  /\ Nobody \notin Requests
  /\ Requests \cap Dashboards = {}

\* What requests have added or withheld is a finite sum.
ASSUME FinitelyMany == IsFiniteSet(Requests)

VARIABLES
  budget,    \* the daily budgets on the platform
  cache,     \* _GET_CACHE: the campaign list of the last GET
  lock,      \* _CAMPAIGN_BUDGET_LOCKS: who holds each campaign's lock
  pc,        \* the await each request is suspended at
  body,      \* what each request asks for
  before,    \* the current budgets each request has validated against
  answer,    \* the answer of a GET on its way to a request or a dashboard
  leg,       \* "dec", "inc" or "comp": the write a request is at
  wire,      \* what the platform did with that write
  tries,     \* retries of that write after a timeout and after a rate limit
  result,    \* the result of each request
  looking,   \* dashboards with a GET in flight
  faults, restarts

request == <<pc, body, before, leg, wire, tries, result>>
vars == <<budget, cache, lock, pc, body, before, answer, leg, wire, tries,
          result, looking, faults, restarts>>

Readers == Requests \cup Dashboards
FreshTries == [timeouts |-> 0, rates |-> 0]

Init ==
  /\ budget = InitialBudget
  /\ cache = NoBudgets
  /\ lock = [k \in Campaigns |-> Nobody]
  /\ pc = [r \in Requests |-> "idle"]
  /\ body \in [Requests -> Bodies]
  /\ before = [r \in Requests |-> [from |-> 0, to |-> 0]]
  /\ answer = [r \in Readers |-> NoBudgets]
  /\ leg = [r \in Requests |-> "dec"]
  /\ wire = [r \in Requests |-> "sent"]
  /\ tries = [r \in Requests |-> FreshTries]
  /\ result = [r \in Requests |-> "none"]
  /\ looking = {}
  /\ faults = 0
  /\ restarts = 0

-----------------------------------------------------------------------------
(* _campaign_budget_guard(): the locks, in the order of the campaign ids.  *)

Locked(r) == {k \in Campaigns : lock[k] = r}
Wanted(r) == {body[r].from, body[r].to}
Goto(r, p) == pc' = [pc EXCEPT ![r] = p]

\* Mutant: the locks are acquired in the order the request names the campaigns.
NextInRequestOrder(r) ==
  IF body[r].from \notin Locked(r) THEN body[r].from ELSE body[r].to

NextLock(r) == Min(Wanted(r) \ Locked(r))

Arrive(r) ==
  /\ pc[r] = "idle"
  /\ Goto(r, "locking")
  /\ UNCHANGED <<budget, cache, lock, body, before, answer, leg, wire, tries,
                 result, looking, faults, restarts>>

\* Mutant: only the lock of the first campaign is taken.
AcquireFirst(r) ==
  LET k == NextLock(r) IN
  /\ pc[r] = "locking"
  /\ lock[k] = Nobody
  /\ lock' = [lock EXCEPT ![k] = r]
  /\ Goto(r, "readFrom")
  /\ UNCHANGED <<budget, cache, body, before, answer, leg, wire, tries,
                 result, looking, faults, restarts>>

Acquire(r) ==
  LET k == NextLock(r) IN
  /\ pc[r] = "locking"
  /\ lock[k] = Nobody
  /\ lock' = [lock EXCEPT ![k] = r]
  /\ Goto(r, IF Wanted(r) = Locked(r) \cup {k} THEN "readFrom" ELSE "locking")
  /\ UNCHANGED <<budget, cache, body, before, answer, leg, wire, tries,
                 result, looking, faults, restarts>>

\* The handler returns or raises: the "finally" releases what is held.
Finish(r, outcome) ==
  /\ Goto(r, "done")
  /\ result' = [result EXCEPT ![r] = outcome]
  /\ lock' = [k \in Campaigns |-> IF lock[k] = r THEN Nobody ELSE lock[k]]

-----------------------------------------------------------------------------
(* _current_daily_budget(): MetaApiClient.get() with its cache.            *)

ReadPCs == {"readFrom", "readTo"}

Record(r, budgets) ==
  before' = [before EXCEPT ![r] = IF pc[r] \in {"readFrom", "gotFrom"}
                                  THEN [@ EXCEPT !.from = budgets[body[r].from]]
                                  ELSE [@ EXCEPT !.to = budgets[body[r].to]]]

\* A "single" request reads one budget, a "rebalance" both.
AfterRead(r) ==
  Goto(r, IF pc[r] \in {"readFrom", "gotFrom"} /\ body[r].kind = "rebalance"
          THEN "readTo" ELSE "validate")

ReadCached(r) ==
  /\ pc[r] \in ReadPCs
  /\ cache # NoBudgets
  /\ Record(r, cache)
  /\ AfterRead(r)
  /\ UNCHANGED <<budget, cache, lock, body, answer, leg, wire, tries,
                 result, looking, faults, restarts>>

\* A miss: the GET is sent; the platform answers with its budgets at that time.
ReadSent(r) ==
  /\ pc[r] \in ReadPCs
  /\ cache = NoBudgets
  /\ answer' = [answer EXCEPT ![r] = budget]
  /\ Goto(r, IF pc[r] = "readFrom" THEN "gotFrom" ELSE "gotTo")
  /\ UNCHANGED <<budget, cache, lock, body, before, leg, wire, tries,
                 result, looking, faults, restarts>>

\* The answer arrives and is cached.
ReadAnswered(r) ==
  /\ pc[r] \in {"gotFrom", "gotTo"}
  /\ cache' = answer[r]
  /\ answer' = [answer EXCEPT ![r] = NoBudgets]
  /\ Record(r, answer[r])
  /\ AfterRead(r)
  /\ UNCHANGED <<budget, lock, body, leg, wire, tries, result, looking, faults, restarts>>

\* A dashboard reads the same list through the same cache.
Look(d) ==
  /\ d \notin looking
  /\ cache = NoBudgets
  /\ looking' = looking \cup {d}
  /\ answer' = [answer EXCEPT ![d] = budget]
  /\ UNCHANGED <<budget, cache, lock, request, faults, restarts>>

LookAnswered(d) ==
  /\ d \in looking
  /\ cache' = answer[d]
  /\ answer' = [answer EXCEPT ![d] = NoBudgets]
  /\ looking' = looking \ {d}
  /\ UNCHANGED <<budget, lock, request, faults, restarts>>

\* The entry is older than _GET_CACHE_TTL.
CacheExpires ==
  /\ cache # NoBudgets
  /\ cache' = NoBudgets
  /\ UNCHANGED <<budget, lock, request, answer, looking, faults, restarts>>

-----------------------------------------------------------------------------
(* _validate_budget_change(), _validate_rebalance_change(), the proposal,  *)
(* its approval and the gates of execute().                                *)

InRange(n) == MinBudget <= n /\ n <= MaxBudget

NoDrift(shown, current) == shown \in {NotShown, current}

SingleValid(b, current) ==
  /\ current.from > 0
  /\ NoDrift(b.shownFrom, current.from)
  /\ InRange(b.fromAfter)
  /\ b.fromAfter # current.from
  /\ b.up = (b.fromAfter > current.from)

MovesExactly(b, current) ==
  /\ current.from - b.fromAfter = b.move
  /\ b.toAfter - current.to = b.move

RebalanceValid(b, current) ==
  /\ b.from # b.to
  /\ current.from > 0 /\ current.to > 0
  /\ NoDrift(b.shownFrom, current.from) /\ NoDrift(b.shownTo, current.to)
  /\ b.move > 0 /\ MovesExactly(b, current)
  /\ InRange(b.fromAfter) /\ InRange(b.toAfter)

Valid(b, current) ==
  IF b.kind = "single" THEN SingleValid(b, current) ELSE RebalanceValid(b, current)

\* Validation runs without an await after the last read; a refusal is a 409 or 422.
Validate(r) ==
  /\ pc[r] = "validate"
  /\ IF Valid(body[r], before[r])
     THEN Goto(r, "approving") /\ UNCHANGED <<lock, result>>
     ELSE Finish(r, "refused")
  /\ UNCHANGED <<budget, cache, body, before, answer, leg, wire, tries,
                 looking, faults, restarts>>

\* issue_approval() and the gates of execute(), up to the first write.
Approve(r) ==
  /\ pc[r] = "approving"
  /\ \/ Goto(r, "writing") /\ UNCHANGED <<lock, result>>
     \/ Finish(r, "refused")
  /\ UNCHANGED <<budget, cache, body, before, answer, leg, wire, tries,
                 looking, faults, restarts>>

-----------------------------------------------------------------------------
(* _call_rebalance(), and the one write of a "single" request.             *)

Target(r) == IF leg[r] = "inc" THEN body[r].to ELSE body[r].from

Amount(r) == CASE leg[r] = "dec" -> body[r].fromAfter
               [] leg[r] = "inc" -> body[r].toAfter
               [] leg[r] = "comp" -> before[r].from

PlatformApplies(r) ==
  /\ pc[r] = "writing"
  /\ wire[r] = "sent"
  /\ OvertakenReads \/ \A reader \in Readers : answer[reader] = NoBudgets
  /\ budget' = [budget EXCEPT ![Target(r)] = Amount(r)]
  /\ wire' = [wire EXCEPT ![r] = "applied"]
  /\ UNCHANGED <<cache, lock, pc, body, before, answer, leg, tries,
                 result, looking, faults, restarts>>

StartLeg(r, next) ==
  /\ leg' = [leg EXCEPT ![r] = next]
  /\ wire' = [wire EXCEPT ![r] = "sent"]
  /\ tries' = [tries EXCEPT ![r] = FreshTries]

\* Mutant: post() leaves the cache alone.
CacheKept == cache' = cache

\* post() succeeded: the whole cache is dropped.
CacheCleared == cache' = NoBudgets

\* The write is acknowledged.
WriteSucceeds(r) ==
  /\ pc[r] = "writing"
  /\ wire[r] = "applied"
  /\ CacheCleared
  /\ \/ /\ leg[r] = "dec" /\ body[r].kind = "rebalance"
        /\ StartLeg(r, "inc")
        /\ UNCHANGED <<lock, pc, result>>
     \/ /\ leg[r] = "inc" \/ body[r].kind = "single"
        /\ Finish(r, "success")
        /\ UNCHANGED <<leg, wire, tries>>
     \/ /\ leg[r] = "comp"
        /\ Goto(r, "recording")
        /\ result' = [result EXCEPT ![r] = "compensated"]
        /\ UNCHANGED <<lock, leg, wire, tries>>
  /\ UNCHANGED <<budget, body, before, answer, looking, faults, restarts>>

\* Whether a failed reply is possible: a rate limit is answered before the write.
ReplyMatchesWire(r, reply) ==
  wire[r] = "sent" \/ (LostReplies /\ reply # "rate_limited")

Retried(r, reply) ==
  \/ reply = "timeout" /\ tries[r].timeouts < MaxTimeoutRetries
  \/ reply = "rate_limited" /\ tries[r].rates < MaxRateRetries

\* _call_with_retry(): the audit append and the sleep, then the write again.
WriteRetries(r, reply) ==
  /\ pc[r] = "writing"
  /\ ReplyMatchesWire(r, reply)
  /\ Retried(r, reply)
  /\ Goto(r, "backoff")
  /\ tries' = [tries EXCEPT ![r].timeouts = IF reply = "timeout" THEN @ + 1 ELSE @,
                            ![r].rates = IF reply = "rate_limited" THEN @ + 1 ELSE @]
  /\ UNCHANGED <<budget, cache, lock, body, before, answer, leg, wire,
                 result, looking, faults, restarts>>

BackOff(r) ==
  /\ pc[r] = "backoff"
  /\ Goto(r, "writing")
  /\ wire' = [wire EXCEPT ![r] = "sent"]
  /\ UNCHANGED <<budget, cache, lock, body, before, answer, leg, tries,
                 result, looking, faults, restarts>>

\* Mutant: a failed increase is reported without compensating the decrease.
FailsUncompensated(r, reply) ==
  /\ pc[r] = "writing"
  /\ ReplyMatchesWire(r, reply)
  /\ ~Retried(r, reply)
  /\ Finish(r, "failed")
  /\ UNCHANGED <<budget, cache, body, before, answer, leg, wire, tries,
                 looking, faults, restarts>>

\* A failed decrease changed nothing; an increase that failed for certain is
\* compensated; a timed-out increase and a failed compensation halt.
WriteFails(r, reply) ==
  /\ pc[r] = "writing"
  /\ ReplyMatchesWire(r, reply)
  /\ ~Retried(r, reply)
  /\ \/ /\ leg[r] = "dec"
        /\ Finish(r, "failed")
        /\ UNCHANGED <<leg, wire, tries>>
     \/ /\ leg[r] = "inc" /\ reply # "timeout"
        /\ StartLeg(r, "comp")
        /\ UNCHANGED <<lock, pc, result>>
     \/ /\ leg[r] = "comp" \/ (leg[r] = "inc" /\ reply = "timeout")
        /\ Goto(r, "recording")
        /\ result' = [result EXCEPT ![r] = "halted"]
        /\ UNCHANGED <<lock, leg, wire, tries>>
  /\ UNCHANGED <<budget, cache, body, before, answer, looking, faults, restarts>>

RecordOutcome(r) ==
  /\ pc[r] = "recording"
  /\ Finish(r, result[r])
  /\ UNCHANGED <<budget, cache, body, before, answer, leg, wire, tries,
                 looking, faults, restarts>>

-----------------------------------------------------------------------------
\* An await raises inside the guarded block: a failed GET, a failed append.
Fault(r) ==
  /\ faults < MaxFaults
  /\ pc[r] \in {"gotFrom", "gotTo", "approving", "backoff", "recording"}
  /\ Finish(r, "error")
  /\ answer' = [answer EXCEPT ![r] = NoBudgets]
  /\ faults' = faults + 1
  /\ UNCHANGED <<budget, cache, body, before, leg, wire, tries, looking, restarts>>

\* The process restarts: requests, locks and cache are lost.
Restart ==
  /\ restarts < MaxRestarts
  /\ pc' = [r \in Requests |-> IF pc[r] \in {"idle", "done"} THEN pc[r] ELSE "crashed"]
  /\ lock' = [k \in Campaigns |-> Nobody]
  /\ cache' = NoBudgets
  /\ answer' = [r \in Readers |-> NoBudgets]
  /\ looking' = {}
  /\ restarts' = restarts + 1
  /\ UNCHANGED <<budget, body, before, leg, wire, tries, result, faults>>

Failures == {"timeout", "rate_limited", "error"}

Continue(r) ==
  \/ Acquire(r) \/ ReadCached(r) \/ ReadSent(r) \/ ReadAnswered(r)
  \/ Validate(r) \/ Approve(r)
  \/ PlatformApplies(r) \/ WriteSucceeds(r)
  \/ \E reply \in Failures : WriteRetries(r, reply) \/ WriteFails(r, reply)
  \/ BackOff(r) \/ RecordOutcome(r)

Next ==
  \/ \E r \in Requests : Arrive(r) \/ Continue(r) \/ Fault(r)
  \/ \E d \in Dashboards : Look(d) \/ LookAnswered(d)
  \/ CacheExpires
  \/ Restart

Spec == Init /\ [][Next]_vars

\* Every coroutine is scheduled and every platform call ends.  A request waiting
\* for a lock is in the lock's FIFO queue: it gets it if it is free again and again.
FairSpec ==
  /\ Spec
  /\ \A r \in Requests : WF_vars(Continue(r)) /\ SF_vars(Acquire(r))
  /\ \A d \in Dashboards : WF_vars(LookAnswered(d))

-----------------------------------------------------------------------------
(* Properties.                                                             *)

\* Every variable keeps its type.
TypeOK ==
  /\ budget \in [Campaigns -> Nat]
  /\ cache \in [Campaigns -> Nat] \cup {NoBudgets}
  /\ lock \in [Campaigns -> Requests \cup {Nobody}]
  /\ pc \in [Requests -> ReadPCs \cup
             {"idle", "locking", "gotFrom", "gotTo", "validate", "approving",
              "writing", "backoff", "recording", "done", "crashed"}]
  /\ body \in [Requests -> Bodies]
  /\ before \in [Requests -> [from : Nat, to : Nat]]
  /\ answer \in [Readers -> [Campaigns -> Nat] \cup {NoBudgets}]
  /\ leg \in [Requests -> {"dec", "inc", "comp"}]
  /\ wire \in [Requests -> {"sent", "applied"}]
  /\ tries \in [Requests -> [timeouts : 0..MaxTimeoutRetries, rates : 0..MaxRateRetries]]
  /\ result \in [Requests -> {"none", "refused", "failed", "success", "compensated",
                              "halted", "error"}]
  /\ looking \subseteq Dashboards
  /\ faults \in 0..MaxFaults
  /\ restarts \in 0..MaxRestarts

Rebalancing(r) == body[r].kind = "rebalance"

\* What a request has validated is still what the platform has when its first
\* write goes out: no other request has written in between and what was read was
\* not stale.  The amounts it then sets are absolute, so everything rests on this.
ValidatedIsLive ==
  \A r \in Requests :
    pc[r] \in {"approving", "writing"} /\ leg[r] = "dec" /\ wire[r] = "sent" =>
      /\ before[r].from = budget[body[r].from]
      /\ Rebalancing(r) => before[r].to = budget[body[r].to]

\* What a rebalance has taken from one campaign and not (yet) given to another.
Withheld(r) ==
  IF Rebalancing(r) /\ wire[r] = (IF leg[r] = "dec" THEN "applied" ELSE "sent")
  THEN body[r].move ELSE 0

\* What a budget change has added, or removed, by its write.
Granted(r) ==
  IF ~Rebalancing(r) /\ wire[r] = "applied" THEN body[r].fromAfter - before[r].from ELSE 0

Total(budgets) == Sum(budgets, Campaigns)

\* To the won: the total budget is the initial one, plus what single changes
\* granted, minus what rebalances in progress, halted or cut off still withhold.
\* So no rebalance ever raises the total, and one that succeeded, failed or was
\* compensated left it where it was.
TotalAccounted ==
  Total(budget) = Total(InitialBudget) + Sum([r \in Requests |-> Granted(r)], Requests)
                                       - Sum([r \in Requests |-> Withheld(r)], Requests)

\* The report is true: a success moved everything, a compensated or failed
\* rebalance withholds nothing.
ReportIsTrue ==
  \A r \in Requests :
    pc[r] = "done" /\ result[r] \in {"success", "compensated", "failed"} => Withheld(r) = 0

\* Rebalances alone never raise the total budget, not even for a moment.
TotalNeverRises == Total(budget) <= Total(InitialBudget)

\* Requests that cross (x to y and y to x) do not wait on each other for ever, and
\* a request that fails does not keep its locks.
RequestsEnd == \A r \in Requests : pc[r] = "locking" ~> pc[r] \in {"done", "crashed"}
=============================================================================
