-------------------------------- MODULE Bells -------------------------------
(***************************************************************************)
(* From a change of management_notifications to the bells of the browsers: *)
(* the in-process broker with one bounded queue per subscriber, the event  *)
(* stream that turns queued signals into "changed" events, and the bell    *)
(* that fetches the list again on each event.  A signal that finds its     *)
(* queue full is dropped.                                                  *)
(*                                                                         *)
(* A list on its way to a bell matters only as that of the last change or  *)
(* of an earlier one, so a bell has numbers of current and of old replies. *)
(***************************************************************************)
EXTENDS Integers, FiniteSets

CONSTANTS
  Bells,
  QueueSize,      \* _QUEUE_SIZE
  Overtaking,     \* may a reply overtake an earlier one?
  MaxChanges,     \* bound on changes of the table
  MaxDrops,       \* bound on streams that break, restarts included
  MaxVisits,      \* bound on fetches on a change of route
  MaxLost         \* bound on fetches that fail

ASSUME BellsAssumption ==
  /\ QueueSize \in Nat \ {0}
  /\ Overtaking \in BOOLEAN
  /\ {MaxChanges, MaxDrops, MaxVisits, MaxLost} \subseteq Nat

VARIABLES
  writers,     \* requests between their commit and their publish()
  subscribed,  \* bells with a queue in _subscribers
  queue,       \* signals in the queue of each bell
  wire,        \* "changed" events sent and not yet read
  asked,       \* list requests sent and not yet served
  fresh, old,  \* replies on their way: current ones, and earlier ones
  current,     \* bells that show the list of the last change
  missed,      \* bells that a signal has not reached since they last fetched
  changes, drops, visits, lost

flow == <<queue, wire, asked, fresh, old>>
counters == <<changes, drops, visits, lost>>
vars == <<writers, subscribed, queue, wire, asked, fresh, old, current, missed,
          changes, drops, visits, lost>>

Zero == [b \in Bells |-> 0]

\* Every bell has just been mounted: it fetches and connects at the same time.
Init ==
  /\ writers = 0
  /\ subscribed = {}
  /\ queue = Zero /\ wire = Zero
  /\ asked = [b \in Bells |-> 1]
  /\ fresh = Zero /\ old = Zero
  /\ current = {}
  /\ missed = {}
  /\ changes = 0 /\ drops = 0 /\ visits = 0 /\ lost = 0

\* A request commits a change of the table ...
Commit ==
  /\ changes < MaxChanges
  /\ changes' = changes + 1
  /\ writers' = writers + 1
  /\ old' = [b \in Bells |-> old[b] + fresh[b]]
  /\ fresh' = Zero
  /\ current' = {}
  /\ UNCHANGED <<subscribed, queue, wire, asked, missed, drops, visits, lost>>

\* ... and publishes: a queue that is full drops the signal.
Publish ==
  /\ writers > 0
  /\ writers' = writers - 1
  /\ queue' = [b \in Bells |-> IF b \in subscribed /\ queue[b] < QueueSize
                               THEN queue[b] + 1 ELSE queue[b]]
  /\ missed' = missed \cup (Bells \ subscribed)
  /\ UNCHANGED <<subscribed, wire, asked, fresh, old, current, counters>>

-----------------------------------------------------------------------------
(* The stream of a bell.                                                   *)

Connect(b) ==
  /\ b \notin subscribed
  /\ subscribed' = subscribed \cup {b}
  /\ UNCHANGED <<writers, flow, current, missed, counters>>

\* Mutant: the heartbeat's timeout takes a signal with it.
SendOrBeat(b) ==
  /\ queue[b] > 0
  /\ queue' = [queue EXCEPT ![b] = @ - 1]
  /\ \E sent \in {0, 1} : wire' = [wire EXCEPT ![b] = @ + sent]
  /\ UNCHANGED <<writers, subscribed, asked, fresh, old, current, missed, counters>>

\* gen(): a signal becomes an event.
Send(b) ==
  /\ queue[b] > 0
  /\ queue' = [queue EXCEPT ![b] = @ - 1]
  /\ wire' = [wire EXCEPT ![b] = @ + 1]
  /\ UNCHANGED <<writers, subscribed, asked, fresh, old, current, missed, counters>>

\* Mutant: an event is ignored while a list is on its way.
ReceiveCoalesced(b) ==
  /\ wire[b] > 0
  /\ wire' = [wire EXCEPT ![b] = @ - 1]
  /\ asked' = [asked EXCEPT ![b] = IF fresh[b] + old[b] > 0 THEN @ ELSE @ + 1]
  /\ UNCHANGED <<writers, subscribed, queue, fresh, old, current, missed, counters>>

\* onChange(): each event starts a fetch.
Receive(b) ==
  /\ wire[b] > 0
  /\ wire' = [wire EXCEPT ![b] = @ - 1]
  /\ asked' = [asked EXCEPT ![b] = @ + 1]
  /\ UNCHANGED <<writers, subscribed, queue, fresh, old, current, missed, counters>>

\* Streams break: unsubscribe(), and what was queued or sent is gone.
Break(broken, unheard) ==
  /\ drops < MaxDrops
  /\ drops' = drops + 1
  /\ subscribed' = subscribed \ broken
  /\ missed' = missed \cup unheard \cup {b \in broken : queue[b] + wire[b] > 0}
  /\ queue' = [b \in Bells |-> IF b \in broken THEN 0 ELSE queue[b]]
  /\ wire' = [b \in Bells |-> IF b \in broken THEN 0 ELSE wire[b]]
  /\ UNCHANGED <<asked, fresh, old, current, changes, visits, lost>>

Disconnect(b) == b \in subscribed /\ Break({b}, {}) /\ UNCHANGED writers

-----------------------------------------------------------------------------
(* Fetching the list.                                                      *)

\* A change of route fetches, too.
Visit(b) ==
  /\ visits < MaxVisits
  /\ visits' = visits + 1
  /\ asked' = [asked EXCEPT ![b] = @ + 1]
  /\ UNCHANGED <<writers, subscribed, queue, wire, fresh, old, current, missed, changes,
                 drops, lost>>

\* list_for_org() reads the table.  What happens from here on will be signalled.
Read(b) ==
  /\ asked[b] > 0
  /\ asked' = [asked EXCEPT ![b] = @ - 1]
  /\ fresh' = [fresh EXCEPT ![b] = @ + 1]
  /\ missed' = missed \ (subscribed \cap {b})
  /\ UNCHANGED <<writers, subscribed, queue, wire, old, current, counters>>

ShowCurrent(b) ==
  /\ fresh[b] > 0
  /\ old[b] = 0 \/ Overtaking
  /\ fresh' = [fresh EXCEPT ![b] = @ - 1]
  /\ current' = current \cup {b}
  /\ UNCHANGED <<writers, subscribed, queue, wire, asked, old, missed, counters>>

ShowOld(b) ==
  /\ old[b] > 0
  /\ old' = [old EXCEPT ![b] = @ - 1]
  /\ current' = current \ {b}
  /\ UNCHANGED <<writers, subscribed, queue, wire, asked, fresh, missed, counters>>

\* A fetch fails and is not repeated.
Lose(b) ==
  /\ lost < MaxLost
  /\ lost' = lost + 1
  /\ \/ asked[b] > 0 /\ asked' = [asked EXCEPT ![b] = @ - 1] /\ UNCHANGED <<fresh, old>>
     \/ fresh[b] > 0 /\ fresh' = [fresh EXCEPT ![b] = @ - 1] /\ UNCHANGED <<asked, old>>
     \/ old[b] > 0 /\ old' = [old EXCEPT ![b] = @ - 1] /\ UNCHANGED <<asked, fresh>>
  /\ missed' = missed \cup {b}
  /\ UNCHANGED <<writers, subscribed, queue, wire, current, changes, drops, visits>>

\* The process restarts: no queue and no writer survives.
Restart ==
  /\ Break(subscribed, IF writers > 0 THEN Bells ELSE {})
  /\ writers' = 0

-----------------------------------------------------------------------------
Step(b) == Send(b) \/ Receive(b) \/ Read(b) \/ ShowCurrent(b) \/ ShowOld(b)

Next ==
  \/ Commit \/ Publish \/ Restart
  \/ \E b \in Bells : Step(b) \/ Connect(b) \/ Disconnect(b) \/ Visit(b) \/ Lose(b)

Spec == Init /\ [][Next]_vars

\* The event loop runs every ready coroutine, and every request is answered or fails.
Fairness ==
  /\ WF_vars(Publish)
  /\ \A b \in Bells : /\ WF_vars(Send(b)) /\ WF_vars(Receive(b)) /\ WF_vars(Read(b))
                      /\ WF_vars(ShowCurrent(b) \/ ShowOld(b))

FairSpec == Spec /\ Fairness

-----------------------------------------------------------------------------
(* Properties.                                                             *)

\* Every variable keeps its type.
TypeOK ==
  /\ writers \in Nat
  /\ subscribed \subseteq Bells /\ current \subseteq Bells /\ missed \subseteq Bells
  /\ queue \in [Bells -> 0..QueueSize]
  /\ wire \in [Bells -> Nat] /\ asked \in [Bells -> Nat]
  /\ fresh \in [Bells -> Nat] /\ old \in [Bells -> Nat]
  /\ {changes, drops, visits, lost} \subseteq Nat

Watching == subscribed \ missed

\* broker.py: a dropped signal loses nothing.  A bell that has been reached by every
\* signal since it last fetched, and shows an old list, has a signal, an event, a fetch
\* or a current reply under way.
NothingIsLost ==
  \A b \in Watching \ current :
    \/ writers > 0
    \/ queue[b] > 0 \/ wire[b] > 0 \/ asked[b] > 0 \/ fresh[b] > 0

\* Queues, events and fetches implement the promise.
F == INSTANCE Freshness WITH watching <- Watching

KeepsPromise == F!Spec
=============================================================================
