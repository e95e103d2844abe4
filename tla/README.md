# A verification development for ClickMe

ClickMe tests advertisements on simulated consumers, generates creatives, and
runs campaigns on Meta for companies that pay with prepaid credits.  The back
end (`src/backend`) is one FastAPI process with one asyncio event loop: between
two `await`s a coroutine runs alone, at every `await` any other request may run,
and the process may die.  There are no locks except one map of per-campaign
locks, and hardly any transaction spans two calls.  What can go wrong is
therefore what happens between awaits, and that is what these modules model:
one action is what a handler does from one await to the next.

The development concentrates on two groups of parts.  The first moves money: the
executor, the only path to the platform's writes; the two handlers that set daily
budgets; the credit account; the ladder that proposes the next action for a
campaign.  The second tells people what happened: scans and notifications, the
consultations they lead to, the bells that show them, and the streams by which
browsers follow a generation or a simulation.

## Inventory

| Part | State it keeps | Operations | Talks to | Hard behaviour |
|---|---|---|---|---|
| Executor (`domain/management/execution`) | idempotency rows, approval ledger (tables); spent and limit per tenant (memory) | `execute`: validate, ledger, version, replay, budget, reserve, write, settle | platform writer, audit log, stores | concurrent duplicates, retries of timed-out writes, partial failures, faults between reservation and result, restarts |
| Approval plane (`approval.py`, `contracts/approval_ledger.py`) | approval ledger | `issue_approval`, `consume` | executor | forged, expired, stale, automatic approvals |
| Budget writes (`api/routers/management.py`) | per-campaign locks, GET cache (memory) | `budget_commit`, `budget_rebalance_commit` | executor, Meta client | validation against cached values, lock order, compensation of a half-done transfer |
| Billing (`domain/billing`) | `payment_orders`, `credit_ledger` | `create_order`, `confirm`, `cancel`, `record_spend`, `sync_campaign` | Toss Payments, Meta reader | check-then-append races, whole-row saves, lost answers, crash between two writes |
| Execution service | proposal status | `handle`, `handle_with_recovery` | executor | last saved status wins |
| Escalation ladder (`escalation.py`) | ladder run per campaign (memory) | `re_evaluate`, `on_executed`, `on_rejected` | detector, agents, audit log | overlapping evaluations, hooks during an await, appends that raise |
| Scan scheduler and notification sink (`scheduler.py`, `remediation/panel_sink.py`) | notification rows, a lock per dedup key, the cooldown of a scan by hand | scan, deliver, follow up, reconcile; read, resolve | Meta reader, store, broker | two scans at once, users acting between a look and a write, skipped findings |
| Consultations (`remediation/consult_service.py`) | the rows' link to a chat session, the cards in it | `consult_notification` | Meta reader, chat store, broker | overlapping clicks, compare-and-set and its undo, which may fail too, restarts between them, deleted sessions |
| Broker, event stream and bell (`remediation/broker.py`, `management.py`, `useNotificationStream.ts`, `NotificationBell.tsx`) | one bounded queue per subscriber, the list a browser shows | publish, subscribe, stream, refetch | every handler that changes a notification | dropped signals, broken streams, restarts |
| Campaign creation / activation / pause | campaign rows, trees of platform objects | tree writers | executor, Meta | partial trees |
| Generation (`domain/generator/service`, `generator/page.tsx`, `GenProgressWidget.tsx`) | row, candidates, task table with events | start, run, stream, clean up; subscribe, fall back, reconnect | graph, S3, tables | status before event, failed writes, clean-up against readers, restarts |
| Simulation and debate (`domain/simulation/service`, `simulation/page.tsx`, `SimFormWidget.tsx`) | run store with events and result (memory) | start, run, status, result, stream; subscribe, retry, check | graph | two viewers with two ways to recover, restarts |
| Agents, pipelines, chat, assistants | caches, histories | language-model calls | all of the above | external answers |
| Accounts, companies, projects, administration | tables | CRUD | - | - |
| Rest of the front end, deployment | - | - | - | - |

What makes each part correct:

* *Executor.*  One key, one execution; only approved actions are written; a
  result, once saved, is final and is what everybody is told; a reservation is
  given back only if nothing was written; the budget charged is the sum of the
  results saved; every call ends and every key is resolved.
* *Budget writes.*  What was validated is what is live when the write goes out;
  a transfer never creates budget, and what it withholds is reported; requests
  that cross do not wait for each other for ever.
* *Billing.*  A charge is backed by a payment and a refund by a cancellation;
  money that moved is booked; the balance is never negative; a failed order has
  no trace in the ledger; a settlement charges what was reported, once.
* *Escalation.*  A campaign has one active ladder; no rung is passed without a
  decision; who answers "pending" waits for a decision about a proposal there is.
* *Notifications.*  One delivery of a finding at a time; a follow-up reaches only
  what was read; silence is reported whatever failed or was closed before, and what
  is normal for good is cleared.
* *Consultations.*  Every change of the list is announced, whichever way a click
  ends; a link is taken away by its owner only, and leads to a session with a card, unless the
  request that made it was cut short.
* *Bells.*  A dropped signal loses nothing: the last change is shown in the end.
* *Generation and simulation.*  A viewer shows a result only when it is there, and a
  failure only when there was one; its progress screen comes to an end.

## Modules

| Module | Models | Extended by |
|---|---|---|
| `Executor` | `executor.py`, `state_machine.py`, `tier.py`, `db_stores.py`, `approval.py` | `MCExecutor`, `ExecutorProofs` |
| `Rebalance` | `budget_commit`, `budget_rebalance_commit`, `_campaign_budget_guard`, `MetaClient.get/post`, `_call_rebalance` | `MCRebalance`, `RebalanceProofs` |
| `Billing` | `billing_service.py`, its repositories, `toss_client.py`, `sync_campaign` | `MCBilling`, `BillingProofs` |
| `Escalation` | `escalation.py` with its in-memory store | `MCEscalation`, `EscalationProofs` |
| `Notify` | `scheduler.py`, `remediation/panel_sink.py`, `advisor.py`, `notification_store.py`, the endpoints of `management.py` that scan, read and close | `MCNotify`, `NotifyProofs` |
| `Consult` | `remediation/consult_service.py`, `chat_sink.py`, `context.py`, the store calls it makes | `MCPanel` (instance), `PanelProofs` |
| `Freshness` | what the bells promise: the abstract specification | |
| `Bells` | `remediation/broker.py`, the event stream in `management.py`, `useNotificationStream.ts`, `NotificationBell.tsx`; implements `Freshness` | `MCPanel`, `PanelProofs` |
| `Generation` | `generator_service.py`, `generator/page.tsx`, `GenProgressWidget.tsx` | `MCStudio`, `StudioProofs` |
| `SimRuns` | `simulation_service.py`, `memory_store.py`, `lib/sse.ts`, `simulation/page.tsx`, `SimFormWidget.tsx` | `MCStudio` (instance), `StudioProofs` |
| `Totals` | `Sum` over a finite set, by which balances and budgets are added up | `Executor`, `Rebalance`, `Billing`, `Sums` |
| `Sums` | no code: lemmas about `Sum` and about sets of numbers | the modules of proofs |

`Consult` and `Bells` meet only in `publish()`, which `Consult` shows to follow every
change and from which `Bells` starts; `Generation` and `SimRuns` share nothing but
the process.  `MCPanel` and `MCStudio` therefore put each pair side by side without
interleaving them: a behaviour is one of the first or one of the second.

### Executor

A *call* is one invocation of `execute()`.  `pc` names the await it is suspended
at; `run` is `ExecutionRun.status`; `out` the result it will return; `prog` its
place in `_call_targets` and `_call_with_retry`.  `row` is the idempotency row of
a key: free, claimed (inserted without a result) or the saved result.  A key is a
hash over approval id, action type and targets, and the ledger binds the approval
to its proposal's hash, so there is one key per approval and rows are indexed by
approvals.

| Code | Action |
|---|---|
| `_validate` (no await) | `Submit` |
| `_verify_approval_record` | `CheckLedger` |
| state version | `CheckVersion` |
| `get_result`, replay | `Lookup`, `RecordReplay` |
| `evaluate` | `EvaluateBudget`, `RecordWarning` |
| `reserve` | `Reserve` |
| `_call_targets`, `_call_with_retry` | `StartCalling`, `PlatformApplies`, `TargetSucceeds`, `TargetRetries`, `BackOff`, `TargetFails`, `RecordHalt` |
| `save_result`, `commit`, `consume`, `release` | `SaveResult`, `CommitBudget`, `Consume`, `Release` |
| audit appends, `_reject` | `RecordRejection`, `RecordCompleted` |
| an await that raises | `Fault` |
| the process restarts | `Restart` |

A write has two steps: the platform applies it (`PlatformApplies`), and the reply
arrives.  With `LostReplies = TRUE` a timeout or an error may follow an applied
write; with FALSE it means that nothing was applied.  A "partial" reply is that of
the tree writers, which touch several objects for one target.  A tier and the
static checks of `_validate` are constant sets of approvals (`Automatic`, `HighTier`,
`Invalid`, `Stale`), because nothing in the process changes them during a call;
expiry does change and is a variable.

### Rebalance

A request arrives, takes the locks of its campaigns in the order of their ids,
reads the budgets through the GET cache, validates, is approved, and writes: one
write for a single change, a decrease and an increase for a transfer, with a
compensation when the increase fails for certain.  A GET has two steps - the
platform answers, the answer arrives and is cached - so that a write may overtake
it.  `Dashboards` are other readers of the same cache key.  The gates of
`execute()` are one step (`Approve`), since `Executor` has them in detail; the
write and retry actions are those of `_call_rebalance`.  `adjust_budget` answers
success or failed only, so the branches for a pending leg have no behaviour.

### Billing

The ledger is append-only and the balance is a sum, so the module keeps the number
of CHARGE and REFUND entries per order and the SPEND total per campaign.
`num` and `seen` are what a request has read and carries over an await, which
is where all the hazards are.  Toss approves an order id once and treats
cancels with the same idempotency key as one (external, from how
`toss_client.py` uses it).

### Escalation

A run is one object that evaluations and hooks change in place.  `known` is the
store's list (a new run is appended by its first save); `eval` is where a request
is in `re_evaluate`: asking the detector, in one of the appends to the audit log,
or in the agent that makes a proposal.  `fate` records, per rung, whether a proposal
was made and what was decided about it, and is read by properties only, as are
`overlapped` and `outOfTurn`.

| Code | Action |
|---|---|
| `re_evaluate` to the detector | `Evaluate` |
| `_open` | `Open` |
| pending, rejected, recovered, still anomalous | `Judge` |
| `_advance`, `_exhaust` | `Climb`, within `Judge`, `Logged`, `NothingToPropose` |
| appends that return or raise | `Logged`, `Ended`, `LogFails` |
| `_propose_current`, the agent's answer | `Proposed`, `NothingToPropose` |
| `on_executed`, `on_rejected` | `Report` |

### Notify

A finding is a dedup key, a campaign with an anomaly or an account rule; `wrong` is
the set of keys a platform read would find.  A scan reads its campaigns in any order,
then delivers one finding after the other under the lock of its key: has it been
ignored, is there an open row, is the campaign still silent, write.  It ends by
closing what its own reads found normal.  Each store call is a session of its own
and an action of its own.

| Code | Action |
|---|---|
| the scheduler's job, `run_scan`, the scan endpoint | `Start`, `ReadCampaign`, `ReadAccount` and the failing reads |
| `deliver` | `Enter`, `AskIgnored`, `AskState`, `ConsultFinds`, `ConsultFails`, `CloseNormal`, `FollowUp`, `Insert`, `StoreFails` |
| `reconcile` | `Reconcile` |
| endpoints | `MarkRead`, `Resolve`, `ResolveByCampaign` |
| time and the world | `CooldownEnds`, `ScanCooldownEnds`, `WorldChanges` |

### Consult

A request loads the row once and decides on what it loaded, while scans, users and
other clicks change the row.  The link's compare-and-set and undo are those of
`claim_consult_session` and `release_consult_session`; `cards` counts the cards
planted per notification and session.  `unannounced` says whether requests of the
living process have changed the list since the last publish; what a publish that
dies with the process means for the bells is `Restart` of `Bells`.

Every step is one awaited call, and any of them may raise.  Only three such failures
are caught: that of the platform, that of an append, and that of the question whether
the context is alive, which is then taken to be.  All others leave the function
through its `finally` (`Raises`), the compensating `release_consult_session` in the
`except` branch included; and the process may die at any point (`Restart`).  Claim,
append and release are three calls, so a request cut short between the claim and the
end of the append or of the release leaves a link to a session without a card.  The
pairs for which this happened are in the history variable `stranded`, and
`LinkedHasCard` says that nothing else does: no failed append, lost race, deleted
session, or failure of any other call or request.  The next click on a stranded
notification plants the card (`AskAlive`, `Reseed`), unless the card of another
notification keeps the context of that session alive: then the user is sent to the
session and does not find his card.

| Code | Action |
|---|---|
| load, `mark_read` | `Click`, `Mark` |
| `session_exists`, `consult_context_alive`, release | `AskExists`, `AskAlive`, `Unlink` |
| `advisor.consult`, closing | `Check`, `Raises`, `CloseNormal` |
| `find_or_create_session`, claim | `Find`, `Create`, `Claim`, `Reread` |
| `append_consult` and its failures | `PlantFirst`, `PlantFails`, `Undo`, `Reseed`, `ReseedFails` |
| calls that raise, the process dies | `Raises`, `Restart` |
| everybody else | `RowChanges`, `CampaignChanges`, `ContextEnds`, `DeleteSession` |

### Bells and Freshness

A list on its way matters only as current or old, so a bell has numbers of queued
signals, events on the wire, requests, current replies and old replies.  A writer
commits (`Commit`) and later publishes (`Publish`); the stream turns signals into
events (`Send`), each event makes the bell fetch (`Receive`), the server reads the
table (`Read`) and the reply is shown (`ShowCurrent`, `ShowOld`).  Streams break and
are opened again by the browser without a fetch (`Disconnect`, `Connect`), fetches
fail (`Lose`), the process restarts (`Restart`).  `missed` holds the bells that a
signal has not reached since they last fetched, because they were not connected,
their stream broke with signals in it, or their fetch failed: for these the code
promises nothing until the next fetch.  `F == INSTANCE Freshness WITH watching <-
Watching` is the refinement, and `KeepsPromise == F!Spec` is checked with its
fairness.

### Generation

`db` is the row, `task` the entry of the task table, which says "completed" or
"failed" before the last event is in its list.  A viewer's stream replays the list
from the first event, ends when the status is final and everything in the list is
sent, and sets the 30 s timer that removes the entry.  The page and the widget differ
in what they do then, and the actions are those of `page.tsx` and
`GenProgressWidget.tsx`.

| Code | Action |
|---|---|
| `start_generation` | `StartGeneration`, `QueueTask`, `Started` |
| `_run_pipeline` | `BeginPipeline`, `MarkRunning`, `RunGraph`, `PersistResults`, `AnnounceCompleted`, `RecordFailure` |
| `stream_events`, `_deferred_cleanup` | `SendEvent`, `EndStream`, `Cleanup` |
| `subscribe`, `onmessage`, `onerror`, reconnect | `Subscribe` within `Started`, `PageAnswered`, `Resubscribe`, ...; `HandleEvent`, `StreamGone` |
| detail and candidate requests | `PageAnswered`, `WidgetAnswered`, `DetailFails` |
| reload, broken stream, restart | `Mount`, `Drop`, `Restart` |

### SimRuns

The same for a simulation, whose run lives in memory only.  Result, status and last
event are set without an await in between (`Complete`).  The two viewers recover in
two ways: a page retries with a backoff that a stable connection resets (`Stable`),
a widget asks for the status (`CheckAnswered`).  After a restart the status is a 404.

| Code | Action |
|---|---|
| `start`, `_run` | `Start`, `Begin`, `Progress`, `Complete`, `Fail` |
| `stream_events` | `SendEvent`, `EndStream` |
| the viewers | `Started`, `Reload`, `HandleEvent`, `StreamGone`, `Reconnect`, `MountAnswered`, `CheckAnswered`, `ResultAnswered`, `RequestFails` |
| broken stream, restart | `Drop`, `Restart` |

## Runs

| Run | Question | Answer |
|---|---|---|
| `executor_safety` | three submissions of one approval, every reply, a fault, a restart: is a key exclusive, final, executed once, released only untouched? | yes, while failed replies hide no write |
| `executor_settlement` | four kinds of approvals, possibly forged: is only what is approved written, and charged exactly? | yes |
| `executor_live` | do calls end, keys resolve, duplicates replay? | yes |
| `executor_cap_race` | is the hard cap kept by concurrent approvals? | no: evaluate and commit are awaits apart |
| `rebalance` | is what was validated live, is the total accounted for, are reports true, do requests end? | yes, while no GET is overtaken and no failed reply hides a write |
| `rebalance_stale_cache` | is what was validated live if a GET may be overtaken? | no: the old answer is cached after the write cleared the cache |
| `billing` | what holds under any overlap, and what holds for requests one after the other? | see below |
| `billing_negative_balance` | is the balance never negative? | no, for overlapping requests |
| `notify` | are deliveries exclusive and decided on what is still so, is silence reported, is what is normal cleared? | yes, whatever fails or is closed |
| `panel` | bells: do queues and fetches keep the promise of `Freshness`? consultations: is every change announced and every link good? | yes, as long as replies keep their order; a link without a card is left only by a request cut short between its claim and its undo |
| `studio` | is what a viewer shows so, and does its progress end? | yes, but for the chat's simulation widget after a restart |
| `escalation` | one ladder, no rung skipped, nobody waiting for nothing? | yes, for evaluations one at a time, hooks in turn and appends that succeed, each where it is needed |

Each violation run checks a sentence of the repository's own comments or
docstrings, quoted in `PROJECT.json` under `findings`.

In `billing`, two properties hold however requests overlap: every charge is
backed by a payment of that amount and every refund by a cancellation
(`LedgerBackedByToss`), and money that moved is booked once everything is at
rest, unless an answer was lost or a request died (`MoneyIsBooked`).  The
others hold only for requests that come one after the other (`overlapped` is a
history variable), and there they hold with crashes and lost answers: that is
the exact extent of what the code promises in its docstrings.

Some definitions state what the code or its documents say and the models refute;
they are kept beside the properties that do hold, without a run of their own:

* `OneExecutionPerKey` of `Executor` with `LostReplies = TRUE`: a write that timed out
  although applied is written again by the retry (`executor.py:614`).
* `TotalNeverRises` of `Rebalance` with `LostReplies = TRUE` and one rate retry: an
  increase that timed out although applied, retried and refused, is compensated.
* `Billing`, for overlapping requests: a failed order may have a charge (the refused
  confirm writes its stale row over DONE), two cancels refund twice, two syncs
  charge an increment twice.
* `IgnoredIsFinal` of `Notify` (`management.py:690`): a user who ignores between
  `has_ignored` and `open_state` gets another notification of the same finding.
* `PlantedOnce` of `Consult`: two clicks on a session whose context has ended plant
  two cards.
* `NothingIsLost` of `Bells` with `Overtaking = TRUE`: an old list that arrives after a
  newer one stays on the screen.
* `WidgetsSettle` of `SimRuns`: after a restart the status is a 404, which the chat's
  widget swallows, and it shows "running" for ever (`SimFormWidget.tsx:203`).
* `OneLadder` without its premise: overlapping evaluations open two ladders for one
  campaign (`escalation.py:78` says one).  `PendingHasProposal` after a lost append: the
  answer is "pending" and there is no proposal (`escalation.py:70`).  `NoRungSkipped`
  with hooks out of turn: a rung nobody decided about counts as executed.
* What `FailureIsFinal` leaves out: a widget shows a failure for a generation that is
  still running if its stream breaks, because it takes "no candidates yet" for
  "failed"; after a restart the row says "running" for ever; and where the row could
  not be written the page reconnects until the clean-up timer ends the loop.

### Bounds

* Executor: three calls of one approval suffice for an owner, a duplicate, and a
  later attempt after a release; two targets for a failure after a success; one
  retry per kind for the counters to matter; `applied` saturates at two, enough to
  see "more than once".  One fault and one restart can hit any await.  Budgets
  are 60, 91 and 96 of 100 so that every decision of `evaluate` occurs, and
  `executor_settlement` may double the limit in between.
* Rebalance: two requests and three campaigns give transfers that cross and that
  share one campaign; the bodies contain a transfer that fits only after the first
  one, one with shown values, and a single change.  Budgets of 20 with a range of
  10..30 let repeated moves run into both ends.  `MaxRateRetries = 0` in
  `rebalance` keeps the instance small: retry and give-up are the same action with
  either counter.
* Billing: four requests in two slots allow confirm, confirm, cancel, cancel, or
  confirm, sync, sync, cancel with overlaps of two; two orders of different amounts
  are needed for a double refund not to be masked by the balance check.
* Escalation: two evaluations are the least that overlap; two rungs have a first and
  a last one, and the climb between them; two ladders are needed for "at most one";
  one lost append can hit any append.
* Notify: one scheduled job and one scan by hand are the pair that meets in the code;
  one campaign, since keys never meet; four rows, so that each of two changes of the
  world and two acts of users can lead to a new one; one failure of a read or of a
  store call.
* Bells: a queue of two is full after two of the three changes; two breaks, one visit
  and one lost fetch can come in any order.  One bell: bells do not interact.
* Consult: two requests at a time and three clicks allow a click that finds what two
  overlapping ones left; three sessions allow deletion and a new start twice; two
  acts of scans and users fall between any two awaits; two failures or restarts are
  what it takes for an append and its undo to fail both, or for a restart after a
  failure.
* Studio: a page and a widget for a generation, and a page and a widget for a
  simulation; one reconnect or retry, so that the last one occurs; one progress event
  (two for a simulation, where it resets the widget's retries); any three mishaps, such
  as a failed write, a drop and a restart.

`CHECK_DEADLOCK FALSE` everywhere: calls are used up, requests are bounded, and the
system then really stops.  `CallSymmetry` is used in safety runs only.

### Fairness

`FairSpec` asks weak fairness of each call's next step: the event loop runs every
ready coroutine, and every platform call ends because the HTTP client has a 30 s
timeout (`client.py:110`).  Nothing is asked of clients, of expiry, faults or
restarts.  In `Rebalance` a waiting request is in the FIFO queue of an
`asyncio.Lock`; the model has no queue, so this is expressed as strong fairness of
`Acquire`: a lock that is free again and again is obtained.  The same holds for
`Enter` of `Notify`; there the scheduler also starts its job again and again (weak
fairness of `Start` for scheduled jobs only, never for scans by hand).

In `Bells` publishing, streams and fetches go on, nothing is asked of connecting,
visits or changes.  In `Generation` and `SimRuns` the pipeline and each viewer's
stream, handlers and answers go on; users, drops, reloads and restarts are free.
`Cleanup` of `Generation` is a timer of 30 s and does not fire while a viewer waits
for an answer or pauses for 1.5 s: these are shorter than the timer.  Between two
requests of a page that reconnects again and again it is enabled again and again,
hence strong fairness.

## Proofs

Every safety property that a passing run checks is proved for every value of the
constants, under the named assumptions of the modules - bounds are numbers, sets that
are summed over (`FinitelyMany`) are finite, there is at least one notification to click on
(`PanelAssumption`) - and the premises that stand in the theorems (`~LostReplies`,
`~OvertakenReads`, `~Overtaking`), under which the passing runs check the same
properties.  `PROJECT.json` lists under `theorems` which theorem states which property.

### Sums

Balances and budgets are sums over finite sets, and `Sum` is a fold that takes elements
in the order `CHOOSE` picks them.  The library's induction theorems take the
statement as an operator, which no installed prover can instantiate; so `Sums` goes by
smallest counterexample (`SmallestSubset`): among the subsets for which a claim fails, one
is smallest, by the well-foundedness of strict inclusion, and the claim holds of all its
parts.  In this way every finite set has a table of partial sums (`TableExists`), a sum does
not depend on the order of its summands (`SumRemove`), it follows a change of one of them
(`SumChange`) and their growth (`SumMonotone`).  `LeastNumber` and `GreatestNumber` are the same
argument for sets of numbers, and what `Min` and `Max` need.

### Executor

`ExecutorProofs` proves for every value of the constants - any number of calls,
approvals, tenants and targets, any bounds, lost replies included - under
`ExecutorAssumption` and, for the sums of `BudgetMatches`, `FinitelyMany`:

* `TypeCorrect`: `Spec => []TypeOK`.
* `Invariance`: `Spec => []IInv`.
* `KeysExclusive`: `Spec => []KeyExclusion`.
* `AnswersStored`: `Spec => []AnswerIsStored`.
* `SavedFinal`: `Spec => SavedResultFinal`.
* `ApprovedWrites`: `Spec => []OnlyApprovedWrites`.
* `ExecutedOnce`: `~LostReplies /\ Spec => []OneExecutionPerKey`.
* `FreedUntouched`: `~LostReplies /\ Spec => ReleasedUntouched`.
* `BudgetMatches`: `Spec => []BudgetMatchesResults`.

`KeyExclusion` alone is not inductive: that a row is "claimed" while a call owns it
says nothing about what the call will save.  `IInv` adds that the result a call
carries is determined by where it is (an owner that is saving carries a result
that may be saved, one that is releasing does not), and that a row with a result
agrees with every call that has been told of an execution.  Then a reservation
succeeds only on a free row, so there is no other owner; only the owner's save or
release changes a claimed row; and a row with a result has no owner, so nothing
writes to the platform for it, which gives `SavedFinal`.  The proof goes by the
groups of steps in `NextSteps`: those that change only a call's control state,
those at the platform, those on the shared tables, and the steps outside calls.

`OnlyApprovedWrites` speaks of the platform and the ledger and needs the way between
them: `GatesBehind` says, for each await, which gates the call standing there has
passed.  It is inductive because the ledger forgets no approval (`LedgerGrows`) and
a call moves only past the gate it stands at, along the awaits behind the last gate,
or off the path (`CallMoves`); and a target that becomes written has a writer at
"calling" (`WriterCalls`), which has every gate behind it.

One execution per key is about retries and later attempts, so exclusion is not
enough.  `Once` adds that a row which is free has nothing applied behind it, and
`Reach` says how far the call that owns a key has come: nothing is applied beyond the
target it stands at, and the write it is about to send, or to send again, has not been
applied.  A retry keeps this because, without lost replies, a failed reply means that
nothing happened; a release keeps it because only a call that has applied nothing gives
its key back.

`BudgetMatchesResults` is its own inductive invariant beside `IInv`: what a tenant has spent,
and what is still owed by calls between saving and committing, is what the saved results
are worth.  Saving adds the same share to what is earned and what is owed, which needs
that the row was claimed and not yet a result (`KeyExclusion`); committing moves it from
owed to spent; no other step changes any of the three.

### Bells

`PanelProofs`, for any number of bells, changes and faults: `BellsType` (`Spec => []TypeOK`),
`NoneLost` (`~Overtaking /\ Spec => []NothingIsLost`) and `Simulation` (`~Overtaking /\ Spec =>
F!Init /\ [][F!Next]_(F!vars)`, the safety half of the refinement).  `NothingIsLost` speaks of
bells that watch, and is not inductive, because a stream that opens later does not
fetch.  `NoneForgotten` says it of every bell: one that missed no signal and shows
an old list has a signal, an event, a fetch or a current reply under way, stream
open or not.  A full queue is not empty, and that is why a dropped signal loses
nothing.  `NoneOvertakes` says that a bell that shows the current list has no old reply on
its way, so that showing one never hides the last change.

### Consultations

`PanelProofs` further proves of `MCSpec`, whose behaviours are those of bells and of `Consult`
(`BothHalves`): `PanelType` (`PanelTypeOK`), `AllAnnounced` (`ChangesAnnounced`), `PlanterLinked`
(`PlanterIsLinked`) and `LinksHaveCards` (`LinkedHasCard`), for any notifications, overlapping
clicks, sessions, acts, failing calls and restarts.  The inductive invariant is `ConsultInv`:

* `Fits` and `Born`: a session that a row or a request names was created, and one that a
  request is about to unlink was deleted.  As deleted sessions do not come back and a
  new one is named by nobody yet, `Unlink` never takes away a link that leads somewhere.
* `HoldsTheLink` and `OneHolder`: from its compare-and-set until its card or its undo a
  request has the link to its session, and shares it with no other request unless the
  session is deleted.  `PlanterIsLinked` alone is not inductive: the undo of one request
  could release the link of another that had claimed the same session.  It cannot,
  because the second claim finds the link taken.
* `Carded`: a link to a session that exists leads to a card, to a request that holds it, or
  is stranded.  A request stops holding a link only by planting, by its undo, or by being
  cut short, and then the link is stranded (`RaisesStep`, `RestartStep`).
* What is unannounced was changed by a request that has not ended.

`PlainStep` covers the steps of a request that touch no session, card or link, those
that raise included, `LinkStep`
those that take or give back a link, `SessionStep` those by which sessions age.

### Escalation

`IInv` has three parts.  `Shape`: types, every request under way has a run, no run is
saved twice.  `Serial`, while evaluations do not overlap: one evaluation is under way
(`Alone`), and any active saved run is the one it works on (`Mine`).  `Told`, while hooks
come in turn: what is known of each rung given where the run and the evaluation
are - the rungs below have a decision, the one reached has what the run's status
says (`Waits`, `Agrees`, `Passes`, `Offers`).  They give `EscalationType`, `AtMostOneLadder`,
`NoneSkipped` and `PendingIsProposed`, for ladders of any length and any number of
evaluations.

### Generation and simulation

`StudioProofs`, of `Generation`: besides the types, `IInv` says how far the row and the table
can be given where the pipeline is (`Early`, `Table`), that the last event of the list and
the status agree (`Log`), that streams have sent a prefix of it (`Streams`), and what a viewer
waiting for an answer has been told (`Waits`).  `Lost` names the outcome a failure screen
may stand for: the generation has failed, or it is over without a result.  It
gives `GenerationType`, `ShownIsStored` (property `DoneIsStored`) and `FailedIsFinal`
(`FailureIsFinal`).

Of `SimRuns`, here the instance `S`: `Course` (status, result and events of the run agree),
`Sent` (streams have sent a prefix, and have sent it all when they end) and `Seen` (viewers
waiting for a result have handled the completed event) give `VerdictIsSent` and
`ShownAsItIs`.

Of `MCStudio`, which puts the two side by side: `StudioType`, `StudioVerdict`, `StudioShows` and
`StudioGeneration` state the properties of the run `studio` under its own specification.
The two jobs have the counter of mishaps and the restart in common, so the invariant of
the one holds while the other has not left its initial state (`StudioInv`).

### Budget writes

`RebalanceProofs`, for any requests, dashboards, campaigns, bodies and retries: `RebalanceType`
(`Spec => []TypeOK`) and, all of them from `~LostReplies /\ ~OvertakenReads /\ Spec`,
`ValidatedStaysLive` (`[]ValidatedIsLive`), `ReportsAreTrue` (`[]ReportIsTrue`), `TotalIsAccounted`
(`[]TotalAccounted`) and, where all bodies are rebalances, `RebalancesNeverRaise`
(`[]TotalNeverRises`).  `Basis` is what holds under every assumption: the types, a GET
that was sent has an answer (`Answered`), and a request inside the guard holds the locks
of its campaigns (`Guards`).  `Live` follows the budgets from the platform to the
request: a cached budget is the live one, except for a campaign whose write has been
applied and not acknowledged (`CacheIsLive`); an answer on its way is the live list
(`AnswersAreLive`); and what a request has read stays so until its own write (`Knows`).
The last step is where the locks are needed: a write that could change what another
request knows is a write to a campaign that request has locked.  The two premises are
the two ways in which the code loses this, and `rebalance_stale_cache` shows one of them.

`LocksAreOrdered` (`Spec => [](NoCircle /\ NoneLeft)`, whatever is lost or overtaken) is why
requests that cross end: of any requests that wait, one waits for a lock that is free
or held outside of them, and nobody who returned, raised or died holds one.  `Ascends`
makes it inductive: a waiting request has only locks of smaller campaigns than those it
lacks, because `_campaign_budget_guard` takes them in the order of their ids; then of
requests in a circle the one that wants the greatest campaign would have to wait for one
that wants a greater one.  That a lock which is free is also obtained is liveness, and
left to `RequestsEnd`.

`Books` adds where a request is in its legs: while its decrease is applied and neither its
increase nor its compensation is, the campaign it took from has the reduced budget and
the other the one it was read with (`Legs`), and a request that may report a success, a
failure or a compensation has nothing taken (`Told`).  With it `TotalAccounted` is inductive:
only the write that the platform applies changes a budget, by exactly what it adds to
or removes from `Withheld` or `Granted` of its request, because what is overwritten is what
was validated; an answer moves a request to its next leg with as much withheld as
before.

### Billing

`BillingProofs`, for any orders, keys, campaigns, slots, requests, lost answers and requests
that die: `LedgerBacked` (`Spec => []LedgerBackedByToss`), `MoneyBooked` (`Spec =>
[]MoneyIsBooked`), `OrdersInOrder` (`Spec => []SerialOrders`), `CanceledStays` (`Spec =>
SerialCanceledFinal`) and `SerialIsSolvent` (`Spec => []SerialSpending`).

`Backed` holds however requests overlap: a request that has Toss's money
and has not booked it (`Due`) is the only one with its order, which is paid its amount and
has no charge yet; one that gives money back (`Giving`) has an order that Toss cancelled.
`Serial` holds for requests one after the other: at most one is under way (`Alone`), and the
status of an order says which entries it can have (`Ledger`) and where its request can be
(`Open`).  `OrderStep` says what a step may do to one order; each action is then a case of it.

`MoneyIsBooked` speaks of the moments at which everything is at rest.  What holds between
them is `Booked`: unless a request died or an answer was lost, money that moved is in the
ledger or in the hands of a request that will book it.  A request lets go of it only by
the append (`KeepsCharge`, `KeepsRefund`); that the append of a charge finds none there is
`Backed`, so a charge is one.

`SerialSpending` needs what a request relies on at its await (`Carries`): before it settles,
what it is about to settle fits what Meta has reported and what the balance has; before
it refunds, the balance covers the refund.  These are the checks of the code a few
awaits earlier, and they survive because no other request is under way; `BalanceMoves` is
how an entry moves the balance, by `SumChange`.

### Notifications

`NotifyProofs`, for any campaigns, scans, rows, users' acts and failures: `Exclusive` (`Spec =>
[]OneDelivery`) and `FollowedWereRead` (`Spec => []FollowUpsWereRead`).  `Chosen` adds to the
second what makes it inductive: the notification that a delivery has chosen exists and
has the key of the delivery.  Users only mark as read, time only cools, closing
changes neither, and the one action that makes a row unread again is the follow-up
itself, whose key is the deliverer's alone: this is where the lock of the key is
needed.  An insertion takes a row that no delivery can have chosen.  The keys found
by a scan are a filtered sequence, an operator with an operator as its argument, and so
the type invariant of `Notify` is not proved; the proof needs only that scans and rows
have their fields (`Shape`).

### Only model-checked

* Liveness: `CallsEnd`, `KeysResolve`, `DuplicatesReplay`, `RequestsEnd`, `SilenceIsReported`,
  `NormalIsCleared`, `ViewersSettle`, `PagesSettle`, and the fair half of `KeepsPromise`.
  They need reasoning about `ENABLED`, which the provers here do not have.
* The type invariant of `Notify`, for the reason above, which no run lists as a property.
* The violations: a counterexample on a small instance needs no proof.

## Limits of the models

* A write that timed out is applied at once or never; one that the platform
  applies after a later retry is not modelled.
* Replies, snapshots, audit payloads, hashes and texts are abstracted to what the
  branches tell apart.  The two audit appends of an in-flight duplicate are one
  step.
* `_effective_spend` is the constant `Spend`, the number of days and the tier table
  are not modelled.
* The mock and dry-run writers, which send nothing, are not distinguished.
* A GET of the campaign list is one request; paging and the ad-set request that
  runs beside it are not.
* One organisation per `Billing`, one ad account per `Rebalance`, one project per
  `Consult`, one campaign per `Escalation`: different ones share no state.
* The in-memory stores of the mock mode are not modelled; the database stores are.
* `Escalation`: the detector and the agents answer anything they may answer; the text
  of proposals and audit entries is not modelled.
* `Notify`: a scan's findings are those of one read per campaign; thresholds and
  windows are not modelled.  A failed commit of the notification store changed
  nothing.
* `Consult`: a call that raises has changed nothing; one that was committed although its
  answer was lost is not modelled (a claim whose answer is lost would leave a link
  without a card, too).
* `Bells`: replies keep their order with `Overtaking = FALSE`.
* `Generation`, `SimRuns`: one job; tables keep jobs apart by id.  The browser's own
  reconnect of an `EventSource` does not matter: both viewers close the stream in
  `onerror`.  The job card of `SimProgress.tsx` is left out.  No page mounts it, and it
  would not settle: it opens `/api/chat/{kind}/{id}/stream` (line 59), which no router
  serves, a browser does not reconnect after the 404, its `onerror` (95) does nothing,
  and it would show "running" for ever.

## Not modelled

Most of the repository's lines are outside the modules, for these reasons:

* *Pipelines, agents and assistants* (`domain/generator/pipeline`, `domain/simulation/tools`,
  `api/assistant`, the chat router, diagnosis and regeneration): prompts, calls of language models,
  image and text processing, statistics and reports.  Their results enter the models as
  arbitrary ones; their own correctness is about data no state machine tells apart.
* *CRUD* (accounts, companies, projects, administration, brand kits, candidates that are
  selected or published): one transaction per request and access checks, which
  interact with nothing modelled.
* *Meta adapters other than budgets*: field mappings of a REST API.
* *Campaign trees*: creation, activation and deletion are calls of one request one
  after the other that stop at the first failure.  The executor's part is there as a
  target that may reply "partial"; which objects are left behind is data of the
  platform.
* *Execution service*: called only by `scripts/management_demo.py`, one proposal at a
  time.
* *The generate-simulate-improve loop*, whose stream is read by scripts, and the
  persistence and reports of simulations.
* *Layout and rendering* of the front end, deployment, schema, settings, tracing.

## Plan

Done: the money path (`Executor`, `Rebalance`, `Billing`), `Escalation`, the notification
panel (`Notify`, `Consult`, `Bells` on `Freshness`), the two streams (`Generation`, `SimRuns`),
and the proofs above.  What would add most next:

1. Proofs of what holds where a property is refuted: by how much concurrent approvals
   can pass the hard cap of `Executor`, by how much overlapping requests can overdraw the
   balance of `Billing`.
2. The campaign tree writers as sequences of writes that stop at the first failure,
   if the code gains a step that resumes or removes what was left behind.
3. The persistence of simulations, if runs are read back after a restart.

## Running

`tlc -config <run>.cfg <module>.tla` for each run of `PROJECT.json`; `tlapm` on
`Sums.tla`, `ExecutorProofs.tla`, `RebalanceProofs.tla`, `BillingProofs.tla`,
`EscalationProofs.tla`, `NotifyProofs.tla`, `PanelProofs.tla` and `StudioProofs.tla`.
