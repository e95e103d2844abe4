----------------------------- MODULE PanelProofs ----------------------------
(***************************************************************************)
(* Theorems about the two halves of the notification panel.                *)
(*   - Bells: no change is lost, and what the bells show is what Freshness *)
(*     allows, for any number of bells, changes, breaks and failing        *)
(*     fetches, as long as replies keep their order.                       *)
(*   - Consult: every change is announced, and a link of a notification    *)
(*     belongs to the request that is planting and leads to a card, for    *)
(*     any number of notifications, clicks, sessions, acts and failures.   *)
(***************************************************************************)
EXTENDS MCPanel, Sums

-----------------------------------------------------------------------------
(* Type correctness.                                                       *)

LEMMA InitType == Init => TypeOK
BY BellsAssumption DEF Init, TypeOK, Zero, BellsAssumption

\* Changes and publications.
LEMMA ServerType ==
  ASSUME TypeOK, Commit \/ Publish
  PROVE  TypeOK'
<1>1. CASE Commit
  BY <1>1 DEF TypeOK, Commit, Zero
<1>2. CASE Publish
  <2>1. queue' \in [Bells -> 0..QueueSize]
    BY <1>2, BellsAssumption DEF TypeOK, Publish, BellsAssumption
  <2>2. writers' \in Nat /\ missed' \subseteq Bells
    BY <1>2 DEF TypeOK, Publish
  <2> QED BY <1>2, <2>1, <2>2 DEF TypeOK, Publish, counters
<1> QED BY <1>1, <1>2

\* Streams that open or break.
LEMMA StreamType ==
  ASSUME TypeOK, Restart \/ \E b \in Bells : Connect(b) \/ Disconnect(b)
  PROVE  TypeOK'
<1>1. ASSUME NEW b \in Bells, Connect(b) PROVE TypeOK'
  BY <1>1 DEF TypeOK, Connect, flow, counters
<1>2. ASSUME NEW broken \in SUBSET Bells, NEW unheard \in SUBSET Bells, Break(broken, unheard),
             writers' \in Nat
      PROVE  TypeOK'
  <2>1. queue' \in [Bells -> 0..QueueSize] /\ wire' \in [Bells -> Nat]
    BY <1>2, BellsAssumption DEF TypeOK, Break, BellsAssumption
  <2> QED BY <1>2, <2>1 DEF TypeOK, Break
<1>3. ASSUME NEW b \in Bells, Disconnect(b) PROVE TypeOK'
  BY <1>2, <1>3 DEF Disconnect, TypeOK
<1>4. CASE Restart
  BY <1>2, <1>4 DEF Restart, TypeOK
<1> QED BY <1>1, <1>3, <1>4

\* Signals, events, fetches and replies of a bell.
LEMMA StepType ==
  ASSUME TypeOK, NEW b \in Bells, Step(b) \/ Visit(b) \/ Lose(b)
  PROVE  TypeOK'
<1> USE DEF TypeOK
<1>1. CASE Send(b) BY <1>1, BellsAssumption DEF Send, counters, BellsAssumption
<1>2. CASE Receive(b) BY <1>2 DEF Receive, counters
<1>3. CASE Read(b) BY <1>3 DEF Read, counters
<1>4. CASE ShowCurrent(b) BY <1>4 DEF ShowCurrent, counters
<1>5. CASE ShowOld(b) BY <1>5 DEF ShowOld, counters
<1>6. CASE Visit(b) BY <1>6 DEF Visit
<1>7. CASE Lose(b) BY <1>7 DEF Lose
<1> QED BY <1>1, <1>2, <1>3, <1>4, <1>5, <1>6, <1>7 DEF Step

LEMMA NextType == TypeOK /\ [Next]_vars => TypeOK'
<1> SUFFICES ASSUME TypeOK, [Next]_vars PROVE TypeOK'
  OBVIOUS
<1>1. CASE UNCHANGED vars BY <1>1 DEF vars, TypeOK
<1>2. CASE Next BY <1>2, ServerType, StreamType, StepType DEF Next
<1> QED BY <1>1, <1>2

\* The counts of signals, events, fetches and replies are numbers, and no queue is
\* longer than _QUEUE_SIZE.
THEOREM BellsType == Spec => []TypeOK
BY InitType, NextType, PTL DEF Spec

-----------------------------------------------------------------------------
(* A bell that has not missed a signal and shows an old list has something  *)
(* under way, whether its stream is open or not: a stream that opens later  *)
(* does not fetch.  And what is shown as current is not overtaken by an     *)
(* earlier reply.                                                           *)

Underway(b) == writers > 0 \/ queue[b] > 0 \/ wire[b] > 0 \/ asked[b] > 0 \/ fresh[b] > 0

NoneForgotten == \A b \in Bells \ (missed \cup current) : Underway(b)

NoneOvertakes == \A b \in current : old[b] = 0

IInv == TypeOK /\ NoneForgotten /\ NoneOvertakes

LEMMA InitIInv == Init => IInv
BY InitType DEF Init, IInv, NoneForgotten, NoneOvertakes, Underway, Zero

\* A publication reaches every subscriber: a queue too full for the signal has one.
LEMMA PublishForgetsNone == TypeOK /\ NoneForgotten /\ Publish => NoneForgotten'
<1> SUFFICES ASSUME TypeOK, NoneForgotten, Publish, NEW b \in Bells, b \notin missed', b \notin current'
             PROVE  Underway(b)'
  BY DEF NoneForgotten
<1>1. b \in subscribed BY DEF Publish
<1>2. queue'[b] > 0 BY <1>1, BellsAssumption DEF Publish, TypeOK, BellsAssumption
<1> QED BY <1>2 DEF Underway

\* Breaking streams forgets nobody: who had a signal or an event under way has missed it.
LEMMA BreakForgetsNone ==
  ASSUME TypeOK, NoneForgotten, NEW broken \in SUBSET Bells, NEW unheard \in SUBSET Bells,
         Break(broken, unheard), writers' = writers \/ writers = 0 \/ unheard = Bells
  PROVE  NoneForgotten'
<1> SUFFICES ASSUME NEW b \in Bells, b \notin missed', b \notin current'
             PROVE  Underway(b)'
  BY DEF NoneForgotten
<1>1. Underway(b) BY DEF Break, NoneForgotten
<1>2. writers > 0 => writers' > 0 BY DEF Break
<1>3. /\ queue[b] \in Nat /\ wire[b] \in Nat
      /\ b \in broken => queue[b] + wire[b] = 0
  BY BellsAssumption DEF Break, TypeOK, BellsAssumption
<1>4. queue[b] > 0 \/ wire[b] > 0 => b \notin broken BY <1>3
<1> QED BY <1>1, <1>2, <1>4 DEF Break, Underway

\* Signals become events, events fetches, fetches replies.
LEMMA StepForgetsNone ==
  ASSUME IInv, ~Overtaking, NEW b \in Bells, Step(b) \/ Visit(b) \/ Lose(b)
  PROVE  NoneForgotten'
<1> SUFFICES ASSUME NEW a \in Bells, a \notin missed', a \notin current'
             PROVE  Underway(a)'
  BY DEF NoneForgotten
<1> USE DEF IInv, TypeOK, NoneForgotten, Underway
<1>1. CASE Send(b) BY <1>1 DEF Send
<1>2. CASE Receive(b) BY <1>2 DEF Receive
<1>3. CASE Read(b) BY <1>3 DEF Read
<1>4. CASE ShowCurrent(b) BY <1>4 DEF ShowCurrent
<1>5. CASE ShowOld(b) BY <1>5 DEF ShowOld, NoneOvertakes
<1>6. CASE Visit(b) BY <1>6 DEF Visit
<1>7. CASE Lose(b) BY <1>7 DEF Lose
<1> QED BY <1>1, <1>2, <1>3, <1>4, <1>5, <1>6, <1>7 DEF Step

LEMMA NextForgetsNone == ~Overtaking /\ IInv /\ Next => NoneForgotten'
<1> SUFFICES ASSUME ~Overtaking, IInv, Next PROVE NoneForgotten'
  OBVIOUS
<1>1. CASE Commit BY <1>1 DEF Commit, IInv, TypeOK, NoneForgotten, Underway
<1>2. CASE Publish BY <1>2, PublishForgetsNone DEF IInv
<1>3. CASE Restart
  <2>1. subscribed \in SUBSET Bells /\ writers \in Nat BY DEF IInv, TypeOK
  <2>2. (IF writers > 0 THEN Bells ELSE {}) \in SUBSET Bells OBVIOUS
  <2>3. writers = 0 \/ (IF writers > 0 THEN Bells ELSE {}) = Bells BY <2>1
  <2> QED BY <1>3, <2>1, <2>2, <2>3, BreakForgetsNone DEF Restart, IInv
<1>4. ASSUME NEW b \in Bells, Connect(b) PROVE NoneForgotten'
  BY <1>4 DEF Connect, flow, IInv, NoneForgotten, Underway
<1>5. ASSUME NEW b \in Bells, Disconnect(b) PROVE NoneForgotten'
  BY <1>5, BreakForgetsNone DEF Disconnect, IInv
<1>6. ASSUME NEW b \in Bells, Step(b) \/ Visit(b) \/ Lose(b) PROVE NoneForgotten'
  BY <1>6, StepForgetsNone
<1> QED BY <1>1, <1>2, <1>3, <1>4, <1>5, <1>6 DEF Next

LEMMA NextOvertakesNone == ~Overtaking /\ IInv /\ Next => NoneOvertakes'
<1> SUFFICES ASSUME ~Overtaking, IInv, Next, NEW a \in current' PROVE old'[a] = 0
  BY DEF NoneOvertakes
<1> USE DEF IInv, TypeOK, NoneOvertakes
<1>1. CASE Commit BY <1>1 DEF Commit
<1>2. CASE Publish BY <1>2 DEF Publish
<1>3. CASE Restart BY <1>3 DEF Restart, Break
<1>4. ASSUME NEW b \in Bells, Connect(b) \/ Disconnect(b) \/ Visit(b) PROVE old'[a] = 0
  BY <1>4 DEF Connect, Disconnect, Visit, Break, flow
<1>5. ASSUME NEW b \in Bells, Send(b) \/ Receive(b) \/ Read(b) PROVE old'[a] = 0
  BY <1>5 DEF Send, Receive, Read
<1>6. ASSUME NEW b \in Bells, ShowCurrent(b) PROVE old'[a] = 0 BY <1>6 DEF ShowCurrent
<1>7. ASSUME NEW b \in Bells, ShowOld(b) PROVE old'[a] = 0 BY <1>7 DEF ShowOld
<1>8. ASSUME NEW b \in Bells, Lose(b) PROVE old'[a] = 0
  <2>1. CASE old[b] > 0 /\ old' = [old EXCEPT ![b] = @ - 1]
    <3>1. b \notin current BY <2>1
    <3> QED BY <1>8, <2>1, <3>1 DEF Lose
  <2> QED BY <1>8, <2>1 DEF Lose
<1> QED BY <1>1, <1>2, <1>3, <1>4, <1>5, <1>6, <1>7, <1>8 DEF Next, Step

LEMMA NextIInv == ~Overtaking /\ IInv /\ [Next]_vars => IInv'
<1> SUFFICES ASSUME ~Overtaking, IInv, [Next]_vars PROVE IInv'
  OBVIOUS
<1>1. CASE UNCHANGED vars
  BY <1>1 DEF vars, IInv, TypeOK, NoneForgotten, NoneOvertakes, Underway
<1>2. CASE Next
  BY <1>2, NextType, NextForgetsNone, NextOvertakesNone DEF IInv
<1> QED BY <1>1, <1>2

LEMMA Invariance == ~Overtaking /\ Spec => []IInv
<1> SUFFICES ASSUME ~Overtaking PROVE Spec => []IInv
  OBVIOUS
<1> QED BY InitIInv, NextIInv, PTL DEF Spec

\* A signal that finds its queue full is dropped without a loss: whatever breaks,
\* restarts or fails, a bell that no signal has passed by since it last fetched, and
\* that shows an old list, still has a signal, an event, a fetch or a reply under way.
THEOREM NoneLost == ~Overtaking /\ Spec => []NothingIsLost
<1>1. IInv => NothingIsLost
  BY DEF IInv, TypeOK, NoneForgotten, NothingIsLost, Watching, Underway
<1> QED BY <1>1, Invariance, PTL

-----------------------------------------------------------------------------
(* The safety half of the refinement.                                      *)

LEMMA StepSimulates == ~Overtaking /\ IInv /\ Next => [F!Next]_F!vars
<1> SUFFICES ASSUME ~Overtaking, IInv, Next PROVE F!Next \/ UNCHANGED <<current, Watching>>
  BY DEF F!vars
<1>w. Watching' \in SUBSET Bells
  BY NextType DEF IInv, TypeOK, Watching
<1>q. current' = current => F!Next
  BY <1>w DEF F!Next, F!Watch
<1>1. CASE Commit
  BY <1>1 DEF Commit, F!Next, F!Change, Watching
<1>2. ASSUME NEW b \in Bells, ShowCurrent(b) PROVE F!Next
  BY <1>2 DEF ShowCurrent, F!Next, F!Show, Watching
<1>3. ASSUME NEW b \in Bells, ShowOld(b) PROVE current' = current
  <2>1. b \notin current BY <1>3 DEF ShowOld, IInv, NoneOvertakes, TypeOK
  <2> QED BY <1>3, <2>1 DEF ShowOld
<1>4. CASE Publish \/ Restart
  BY <1>4, <1>q DEF Publish, Restart, Break
<1>5. ASSUME NEW b \in Bells, Send(b) \/ Receive(b) \/ Read(b) \/ Connect(b) \/ Disconnect(b)
                              \/ Visit(b) \/ Lose(b)
      PROVE  current' = current
  BY <1>5 DEF Send, Receive, Read, Connect, Disconnect, Break, Visit, Lose
<1> QED BY <1>q, <1>1, <1>2, <1>3, <1>4, <1>5 DEF Next, Step

\* Every step of signals, events and fetches is a step of the promise or a stutter: a
\* bell's list goes out of date only by a change and back only by a list shown.  (That
\* every bell that watches does come back is a run's KeepsPromise.)
THEOREM Simulation == ~Overtaking /\ Spec => F!Init /\ [][F!Next]_F!vars
<1> SUFFICES ASSUME ~Overtaking PROVE Spec => F!Init /\ [][F!Next]_F!vars
  OBVIOUS
<1>1. Init => F!Init
  BY InitType DEF F!Init, TypeOK, Watching
<1>2. IInv /\ [Next]_vars => [F!Next]_F!vars
  <2>1. UNCHANGED vars => UNCHANGED F!vars BY DEF vars, F!vars, Watching
  <2> QED BY <2>1, StepSimulates
<1> QED BY <1>1, <1>2, Invariance, PTL DEF Spec

-----------------------------------------------------------------------------
(* Consult: what holds of a request where it is, and of the rows.          *)

Row == [state : {"open", "closed"}, read : BOOLEAN, session : C!Sessions \cup {C!None}]

Request == [pc : C!PCs, about : Notes, read : BOOLEAN, state : {"open", "closed"},
            session : C!Sessions \cup {C!None}, into : C!Sessions \cup {C!None},
            reseed : BOOLEAN, changed : BOOLEAN]

Tables ==
  /\ note \in [Notes -> Row]
  /\ session \in [C!Sessions -> {"absent", "empty", "alive", "dead", "deleted"}]
  /\ cards \in [Notes -> [C!Sessions -> Nat]]
  /\ stranded \subseteq Notes \X C!Sessions
  /\ request \in [Consults -> Request]
  /\ unannounced \in BOOLEAN

\* A session that is named somewhere has been created ...
Born(s) == s # C!None => session[s] # "absent"

\* ... and one that a request finds gone was deleted: it will never come back.
Fits(x) ==
  /\ x.reseed \/ x.pc \in {"reseed", "claim", "plant", "undo"} => x.into # C!None
  /\ x.pc \in {"exists", "alive", "unlink"} => x.session # C!None
  /\ Born(x.session) /\ Born(x.into)
  /\ x.pc = "unlink" => session[x.session] = "deleted"
  /\ x.pc \in {"idle", "mark"} => ~x.changed

\* Between its compare-and-set and its card a request holds the link.
Holding(x) == x.pc \in {"plant", "undo"}

HoldsTheLink ==
  \A r \in Consults :
    Holding(request[r]) /\ C!Exists(request[r].into) =>
      note[request[r].about].session = request[r].into

OneHolder ==
  \A q, r \in Consults :
    /\ q # r /\ Holding(request[q]) /\ Holding(request[r])
    /\ request[q].about = request[r].about /\ request[q].into = request[r].into
    => ~C!Exists(request[r].into)

\* A link leads to a card, or somebody is about to plant one or to take the link away,
\* or was cut short while he was.
Leads(n, s) ==
  \/ cards[n][s] > 0
  \/ <<n, s>> \in stranded
  \/ \E r \in Consults :
       Holding(request[r]) /\ request[r].about = n /\ request[r].into = s

Carded ==
  \A n \in Notes, s \in C!Sessions : note[n].session = s /\ C!Exists(s) => Leads(n, s)

ConsultInv ==
  /\ Tables
  /\ \A r \in Consults : Fits(request[r])
  /\ \A n \in Notes : Born(note[n].session)
  /\ HoldsTheLink /\ OneHolder /\ Carded
  /\ unannounced => \E r \in Consults : request[r].changed

-----------------------------------------------------------------------------
(* Consult: the steps of a request that leave sessions, cards and links.   *)

LEMMA InitConsult == C!Init => ConsultInv
<1> SUFFICES ASSUME C!Init PROVE ConsultInv
  OBVIOUS
<1>1. C!NoRequest \in Request /\ C!NoRequest.pc = "idle" /\ ~C!NoRequest.reseed
      /\ ~C!NoRequest.changed /\ C!NoRequest.session = C!None /\ C!NoRequest.into = C!None
  BY PanelAssumption DEF C!NoRequest, Request, C!PCs
<1>2. Tables
  BY <1>1 DEF C!Init, Tables, Row
<1>3. \A r \in Consults : request[r] = C!NoRequest
  BY DEF C!Init
<1>4. \A n \in Notes : note[n].session = C!None
  BY DEF C!Init
<1>5. C!None \notin C!Sessions
  BY PanelAssumption DEF C!None, C!Sessions
<1>6. \A r \in Consults : Fits(request[r]) /\ ~Holding(request[r])
  BY <1>1, <1>3 DEF Fits, Holding, Born
<1>7. ~unannounced
  BY DEF C!Init
<1> QED BY <1>2, <1>4, <1>5, <1>6, <1>7
        DEF ConsultInv, Born, HoldsTheLink, OneHolder, Carded

\* One request becomes another record; the others stay.
LEMMA Replaced ==
  ASSUME Tables, NEW r \in Consults, NEW x \in Request, C!Becomes(r, x)
  PROVE  /\ request' \in [Consults -> Request]
         /\ \A q \in Consults : request'[q] = IF q = r THEN x ELSE request[q]
BY DEF Tables, C!Becomes

\* A request that becomes x, where no session, card or link changes: it holds a link
\* only if it did before, a link that it no longer holds is stranded, and what is
\* unannounced has been changed by a request.
Plain(r, x) ==
  /\ x \in Request /\ Fits(x) /\ C!Becomes(r, x)
  /\ note' \in [Notes -> Row] /\ \A n \in Notes : note'[n].session = note[n].session
  /\ UNCHANGED <<session, cards>>
  /\ stranded \subseteq stranded' /\ stranded' \subseteq Notes \X C!Sessions
  /\ Holding(x) =>
       Holding(request[r]) /\ x.about = request[r].about /\ x.into = request[r].into
  /\ Holding(request[r]) =>
       Holding(x) \/ <<request[r].about, request[r].into>> \in stranded'
  /\ unannounced' \in BOOLEAN
  /\ unannounced' => x.changed \/ (unannounced /\ ~request[r].changed)

LEMMA PlainStep ==
  ASSUME ConsultInv, NEW r \in Consults, NEW x, Plain(r, x)
  PROVE  ConsultInv'
<1>1. /\ request' \in [Consults -> Request]
      /\ \A q \in Consults : request'[q] = IF q = r THEN x ELSE request[q]
  BY Replaced DEF ConsultInv, Plain
<1>2. Tables'
  BY <1>1 DEF ConsultInv, Tables, Plain
<1>3. \A q \in Consults : Fits(request[q])'
  BY <1>1 DEF ConsultInv, Plain, Fits, Born
<1>4. \A n \in Notes : Born(note[n].session)'
  BY DEF ConsultInv, Plain, Born
<1>5. \A q \in Consults :
        /\ Holding(request'[q]) =>
             /\ Holding(request[q])
             /\ request'[q].about = request[q].about /\ request'[q].into = request[q].into
        /\ Holding(request[q]) =>
             Holding(request'[q]) \/ <<request[q].about, request[q].into>> \in stranded'
  BY <1>1 DEF Plain
<1>6. \A s : C!Exists(s)' <=> C!Exists(s)
  BY DEF Plain, C!Exists
<1>7. \A q \in Consults : request[q] \in Request /\ request[q].about \in Notes
  BY DEF ConsultInv, Tables, Request
<1>8. HoldsTheLink'
  <2> SUFFICES ASSUME NEW q \in Consults, Holding(request'[q]), C!Exists(request[q].into)'
               PROVE  note'[request'[q].about].session = request'[q].into
    BY DEF HoldsTheLink
  <2>1. /\ Holding(request[q]) /\ request'[q].about = request[q].about
        /\ request'[q].into = request[q].into /\ session' = session
    BY <1>5 DEF Plain
  <2>2. C!Exists(request[q].into)
    BY <2>1 DEF C!Exists
  <2> QED BY <2>1, <2>2, <1>7 DEF ConsultInv, Plain, HoldsTheLink
<1>9. OneHolder'
  BY <1>5, <1>6 DEF ConsultInv, OneHolder
<1>10. Carded'
  <2> SUFFICES ASSUME NEW n \in Notes, NEW s \in C!Sessions, note'[n].session = s,
                      C!Exists(s)'
               PROVE  Leads(n, s)'
    BY DEF Carded
  <2>1. Leads(n, s)
    BY <1>6 DEF ConsultInv, Plain, Carded
  <2> QED BY <2>1, <1>5 DEF Plain, Leads
<1>11. (unannounced => \E q \in Consults : request[q].changed)'
  BY <1>1 DEF ConsultInv, Plain
<1> QED BY <1>2, <1>3, <1>4, <1>8, <1>9, <1>10, <1>11 DEF ConsultInv

\* What a request is, has chosen and may do next.
LEMMA OfRequest ==
  ASSUME ConsultInv, NEW r \in Consults
  PROVE  /\ request[r] \in Request /\ Fits(request[r])
         /\ request[r].about \in Notes /\ note[request[r].about] \in Row
BY DEF ConsultInv, Tables, Request

LEMMA Idle ==
  /\ C!NoRequest \in Request /\ Fits(C!NoRequest) /\ ~Holding(C!NoRequest)
  /\ ~C!NoRequest.changed
BY PanelAssumption DEF C!NoRequest, Request, C!PCs, Fits, Holding, Born

\* An answer takes the request away and announces what it changed.
LEMMA AnswerPlain ==
  ASSUME ConsultInv, NEW r \in Consults, ~Holding(request[r]),
         NEW changed \in BOOLEAN, C!Answer(r, changed), request[r].changed => changed,
         note' \in [Notes -> Row], \A n \in Notes : note'[n].session = note[n].session,
         UNCHANGED <<session, cards, stranded>>
  PROVE  ConsultInv'
<1>1. Plain(r, C!NoRequest)
  BY Idle DEF C!Answer, Plain, ConsultInv, Tables
<1> QED BY <1>1, PlainStep

LEMMA ClickStep ==
  ASSUME ConsultInv, NEW r \in Consults, NEW n \in Notes, C!Click(r, n)
  PROVE  ConsultInv'
<1> DEFINE x == [C!NoRequest EXCEPT !.pc = "mark", !.about = n, !.read = note[n].read,
                                    !.state = note[n].state, !.session = note[n].session]
<1>1. note[n] \in Row /\ Born(note[n].session) /\ Fits(request[r])
  BY DEF ConsultInv, Tables
<1>2. /\ x \in Request /\ x.pc = "mark" /\ ~x.reseed /\ ~x.changed
      /\ x.session = note[n].session /\ x.into = C!None
  BY <1>1, PanelAssumption DEF C!NoRequest, Request, C!PCs, Row
<1>3. C!Becomes(r, x) /\ request[r].pc = "idle" /\ UNCHANGED <<note, session, cards, stranded, unannounced>>
  BY DEF C!Click, C!chat
<1> HIDE DEF x
<1>4. Fits(x)
  BY <1>1, <1>2 DEF Fits, Born
<1>5. Plain(r, x)
  BY <1>1, <1>2, <1>3, <1>4 DEF Plain, Holding, ConsultInv, Tables, Fits
<1> QED BY <1>5, PlainStep

LEMMA MarkStep ==
  ASSUME ConsultInv, NEW r \in Consults, C!Mark(r)
  PROVE  ConsultInv'
<1> DEFINE q == request[r]
           marks == ~q.read /\ ~note[q.about].read
           x == [q EXCEPT !.pc = IF q.session # C!None THEN "exists" ELSE "check",
                          !.changed = marks]
<1>1. /\ q \in Request /\ Fits(q) /\ q.about \in Notes /\ note[q.about] \in Row
      /\ q.pc = "mark" /\ ~q.changed
  BY OfRequest DEF C!Mark, Fits
<1>2. note' \in [Notes -> Row] /\ \A n \in Notes : note'[n].session = note[n].session
  <2>1. note \in [Notes -> Row]
    BY DEF ConsultInv, Tables
  <2>2. note' = [note EXCEPT ![q.about].read = @ \/ marks]
    BY DEF C!Mark
  <2>3. [note[q.about] EXCEPT !.read = @ \/ marks] \in Row
        /\ [note[q.about] EXCEPT !.read = @ \/ marks].session = note[q.about].session
    BY <1>1 DEF Row, Request
  <2> QED BY <1>1, <2>1, <2>2, <2>3
<1>3. UNCHANGED <<session, cards, stranded>>
  BY DEF C!Mark, C!chat
<1>4. CASE q.state # "open"
  <2>1. C!Answer(r, marks)
    BY <1>4 DEF C!Mark
  <2>2. marks \in BOOLEAN
    BY <1>1 DEF Request, Row
  <2> QED BY <1>1, <1>2, <1>3, <2>1, <2>2, AnswerPlain DEF Holding
<1>5. CASE q.state = "open"
  <2>1. C!Becomes(r, x) /\ unannounced' = (unannounced \/ marks)
    BY <1>5 DEF C!Mark
  <2>2. /\ x \in Request /\ x.pc = (IF q.session # C!None THEN "exists" ELSE "check")
        /\ x.changed = marks /\ x.reseed = q.reseed /\ x.session = q.session /\ x.into = q.into
    BY <1>1 DEF Request, Row, C!PCs
  <2>3. /\ marks \in BOOLEAN /\ unannounced \in BOOLEAN
        /\ stranded \subseteq Notes \X C!Sessions
    BY <1>1 DEF Request, Row, ConsultInv, Tables
  <2> HIDE DEF x, q, marks
  <2>4. Fits(x) /\ ~Holding(x)
    BY <1>1, <2>2 DEF Fits, Holding
  <2>5. Plain(r, x)
    BY <1>1, <1>2, <1>3, <2>1, <2>2, <2>3, <2>4 DEF Plain, Holding, q
  <2> QED BY <2>5, PlainStep
<1> QED BY <1>4, <1>5

\* A request goes to its next await.
LEMMA GotoPlain ==
  ASSUME ConsultInv, NEW r \in Consults, NEW place \in C!PCs, C!Goto(r, place),
         Fits([request[r] EXCEPT !.pc = place]),
         Holding(request[r]) <=> place \in {"plant", "undo"},
         UNCHANGED <<note, session, cards, stranded, unannounced>>
  PROVE  ConsultInv'
<1> DEFINE x == [request[r] EXCEPT !.pc = place]
<1>1. /\ x \in Request /\ x.pc = place /\ x.about = request[r].about
      /\ x.into = request[r].into /\ x.changed = request[r].changed
  BY OfRequest DEF Request
<1>2. C!Becomes(r, x) /\ Fits(x)
  BY DEF C!Goto
<1> HIDE DEF x
<1>3. /\ unannounced \in BOOLEAN /\ note \in [Notes -> Row] /\ x.changed \in BOOLEAN
      /\ stranded \subseteq Notes \X C!Sessions
  BY <1>1 DEF ConsultInv, Tables, Request
<1>4. Plain(r, x)
  BY <1>1, <1>2, <1>3 DEF Plain, Holding
<1> QED BY <1>4, PlainStep

\* The fields of a request at another await.
LEMMA OnlyPc ==
  ASSUME ConsultInv, NEW r \in Consults, NEW place
  PROVE  LET x == [request[r] EXCEPT !.pc = place] IN
         /\ x.pc = place /\ x.reseed = request[r].reseed /\ x.session = request[r].session
         /\ x.into = request[r].into /\ x.changed = request[r].changed
BY OfRequest DEF Request

LEMMA AskExistsStep ==
  ASSUME ConsultInv, NEW r \in Consults, C!AskExists(r)
  PROVE  ConsultInv'
<1> DEFINE place == IF C!Exists(request[r].session) THEN "alive" ELSE "unlink"
<1>1. request[r].pc = "exists" /\ C!Goto(r, place) /\ UNCHANGED <<note, session, cards, stranded, unannounced>>
  BY DEF C!AskExists, C!chat
<1>2. Fits(request[r]) /\ request[r].session \in C!Sessions
  BY <1>1, OfRequest DEF Fits, Request
<1>3. ~C!Exists(request[r].session) => session[request[r].session] = "deleted"
  BY <1>1, <1>2 DEF ConsultInv, Tables, Fits, Born, C!Exists
<1>4. Fits([request[r] EXCEPT !.pc = place])
  BY <1>1, <1>2, <1>3, OnlyPc DEF Fits
<1>5. place \in C!PCs /\ ~Holding(request[r]) /\ place \notin {"plant", "undo"}
  BY <1>1 DEF C!PCs, Holding
<1> HIDE DEF place
<1> QED BY <1>1, <1>4, <1>5, GotoPlain

LEMMA AskAliveStep ==
  ASSUME ConsultInv, NEW r \in Consults, C!AskAlive(r)
  PROVE  ConsultInv'
<1> DEFINE s == request[r].session
           x == [request[r] EXCEPT !.pc = "check", !.reseed = TRUE, !.into = s]
<1>1. request[r].pc = "alive" /\ UNCHANGED <<note, session, cards, stranded>>
  BY DEF C!AskAlive, C!chat
<1>2. /\ request[r] \in Request /\ Fits(request[r]) /\ ~Holding(request[r])
      /\ s # C!None /\ s \in C!Sessions
  BY <1>1, OfRequest DEF Fits, Holding, Request
<1>3. /\ note \in [Notes -> Row] /\ unannounced \in BOOLEAN /\ request[r].changed \in BOOLEAN
      /\ stranded \subseteq Notes \X C!Sessions
  BY <1>2 DEF ConsultInv, Tables, Request
<1>4. CASE session[s] = "alive"
  BY <1>1, <1>2, <1>3, <1>4, AnswerPlain DEF C!AskAlive
<1>5. CASE session[s] # "alive"
  <2>1. C!Becomes(r, x) /\ UNCHANGED unannounced
    BY <1>5 DEF C!AskAlive
  <2>2. /\ x \in Request /\ x.pc = "check" /\ x.session = s /\ x.into = s
        /\ x.changed = request[r].changed
    BY <1>2 DEF Request, C!PCs
  <2> HIDE DEF x
  <2>3. Fits(x) /\ ~Holding(x)
    BY <1>2, <2>2 DEF Fits, Holding
  <2>4. Plain(r, x)
    BY <1>1, <1>2, <1>3, <2>1, <2>2, <2>3 DEF Plain
  <2> QED BY <2>4, PlainStep
<1> QED BY <1>4, <1>5

LEMMA CheckStep ==
  ASSUME ConsultInv, NEW r \in Consults, C!Check(r)
  PROVE  ConsultInv'
<1>1. /\ request[r].pc = "check" /\ ~Holding(request[r]) /\ Fits(request[r])
      /\ UNCHANGED <<note, session, cards, stranded, unannounced>>
  BY OfRequest DEF C!Check, C!chat, Holding
<1>2. PICK place \in {"normal", "reseed", "find"} :
        C!Goto(r, place) /\ (place = "reseed" => request[r].reseed)
  BY DEF C!Check
<1>3. Fits([request[r] EXCEPT !.pc = place])
  BY <1>1, <1>2, OnlyPc DEF Fits
<1>4. place \in C!PCs /\ place \notin {"plant", "undo"}
  BY DEF C!PCs
<1> QED BY <1>1, <1>2, <1>3, <1>4, GotoPlain

LEMMA CloseStep ==
  ASSUME ConsultInv, NEW r \in Consults, C!CloseNormal(r)
  PROVE  ConsultInv'
<1> DEFINE n == request[r].about
<1>1. /\ request[r].pc = "normal" /\ ~Holding(request[r]) /\ C!Answer(r, TRUE)
      /\ UNCHANGED <<session, cards, stranded>>
  BY DEF C!CloseNormal, Holding, C!chat
<1>2. note' \in [Notes -> Row] /\ \A m \in Notes : note'[m].session = note[m].session
  <2>1. note' = [note EXCEPT ![n].state = IF @ = "open" THEN "closed" ELSE @]
    BY DEF C!CloseNormal, C!Closing
  <2>2. note \in [Notes -> Row] /\ n \in Notes /\ note[n] \in Row
    BY OfRequest DEF ConsultInv, Tables
  <2> QED BY <2>1, <2>2 DEF Row
<1> QED BY <1>1, <1>2, AnswerPlain

\* Requests that end without having found or changed anything any more.
LEMMA GiveUpStep ==
  ASSUME ConsultInv, NEW r \in Consults, C!ReseedFails(r) \/ C!Reread(r)
  PROVE  ConsultInv'
<1>1. /\ ~Holding(request[r]) /\ C!Answer(r, request[r].changed)
      /\ UNCHANGED <<note, session, cards, stranded>>
  BY DEF C!ReseedFails, C!Reread, Holding, C!chat
<1>2. note \in [Notes -> Row] /\ request[r].changed \in BOOLEAN
  BY OfRequest DEF ConsultInv, Tables, Request
<1> QED BY <1>1, <1>2, AnswerPlain

LEMMA MaxIsIn ==
  ASSUME NEW S \in SUBSET C!Sessions, S # {}
  PROVE  C!Max(S) \in S
<1>1. MaxSessions \in Nat /\ S \in SUBSET (0..MaxSessions)
  BY PanelAssumption DEF C!Sessions
<1>2. PICK m \in S : \A y \in S : m >= y
  BY <1>1, GreatestNumber
<1> QED BY <1>2 DEF C!Max

LEMMA MinIsIn ==
  ASSUME NEW S \in SUBSET C!Sessions, S # {}
  PROVE  C!Min(S) \in S
<1>1. S \in SUBSET Nat
  BY PanelAssumption DEF C!Sessions
<1> QED BY <1>1, LeastNumber DEF C!Min

LEMMA FindStep ==
  ASSUME ConsultInv, NEW r \in Consults, C!Find(r)
  PROVE  ConsultInv'
<1> DEFINE found == {s \in C!Sessions : C!Exists(s)}
           x == [request[r] EXCEPT !.pc = "claim", !.into = C!Max(found)]
<1>1. request[r].pc = "find" /\ UNCHANGED <<note, session, cards, stranded, unannounced>>
  BY DEF C!Find, C!chat
<1>2. request[r] \in Request /\ Fits(request[r]) /\ ~Holding(request[r])
  BY <1>1, OfRequest DEF Holding
<1>3. /\ note \in [Notes -> Row] /\ unannounced \in BOOLEAN
      /\ stranded \subseteq Notes \X C!Sessions
  BY DEF ConsultInv, Tables
<1>4. CASE found # {}
  <2>1. C!Max(found) \in found
    BY <1>4, MaxIsIn
  <2>2. C!Max(found) \in C!Sessions /\ C!Max(found) # C!None /\ Born(C!Max(found))
    BY <2>1, PanelAssumption DEF C!Sessions, C!None, Born, C!Exists
  <2>3. C!Becomes(r, x)
    BY <1>4 DEF C!Find
  <2> HIDE DEF found
  <2>4. /\ x \in Request /\ x.pc = "claim" /\ x.into = C!Max(found)
        /\ x.session = request[r].session /\ x.changed = request[r].changed
    BY <1>2, <2>2 DEF Request, C!PCs
  <2> HIDE DEF x
  <2>5. Fits(x) /\ ~Holding(x)
    BY <1>2, <2>2, <2>4 DEF Fits, Holding
  <2>6. x.changed \in BOOLEAN
    BY <2>4 DEF Request
  <2>7. Plain(r, x)
    BY <1>1, <1>2, <1>3, <2>3, <2>4, <2>5, <2>6 DEF Plain
  <2> QED BY <2>7, PlainStep
<1>5. CASE found = {}
  <2>1. C!Goto(r, "create")
    BY <1>5 DEF C!Find
  <2>2. Fits([request[r] EXCEPT !.pc = "create"])
    BY <1>1, <1>2, OnlyPc DEF Fits
  <2>3. "create" \in C!PCs
    BY DEF C!PCs
  <2> QED BY <1>1, <1>2, <2>1, <2>2, <2>3, GotoPlain
<1> QED BY <1>4, <1>5

LEMMA PlantFailsStep ==
  ASSUME ConsultInv, NEW r \in Consults, C!PlantFails(r)
  PROVE  ConsultInv'
<1>1. /\ request[r].pc = "plant" /\ C!Goto(r, "undo") /\ Fits(request[r])
      /\ UNCHANGED <<note, session, cards, stranded, unannounced>>
  BY OfRequest DEF C!PlantFails, C!chat
<1>2. Fits([request[r] EXCEPT !.pc = "undo"])
  BY <1>1, OnlyPc DEF Fits
<1>3. "undo" \in C!PCs /\ Holding(request[r])
  BY <1>1 DEF C!PCs, Holding
<1> QED BY <1>1, <1>2, <1>3, GotoPlain

-----------------------------------------------------------------------------
(* Consult: requests that are cut short.                                   *)

LEMMA HeldLinks ==
  ASSUME ConsultInv, NEW rs \in SUBSET Consults
  PROVE  /\ C!Held(rs) \subseteq Notes \X C!Sessions
         /\ \A q \in rs : Holding(request[q]) =>
              <<request[q].about, request[q].into>> \in C!Held(rs)
<1>1. ASSUME NEW q \in rs, request[q].pc \in {"plant", "undo"}
      PROVE  request[q].about \in Notes /\ request[q].into \in C!Sessions
  BY <1>1, OfRequest DEF Fits, Request
<1> QED BY <1>1 DEF C!Held, Holding

LEMMA RaisesStep ==
  ASSUME ConsultInv, NEW r \in Consults, C!Raises(r)
  PROVE  ConsultInv'
<1>1. /\ C!Becomes(r, C!NoRequest) /\ unannounced' = (unannounced /\ ~request[r].changed)
      /\ stranded' = stranded \cup C!Held({r}) /\ UNCHANGED <<note, session, cards>>
  BY DEF C!Raises, C!Answer
<1>2. /\ stranded \subseteq Notes \X C!Sessions /\ note \in [Notes -> Row]
      /\ unannounced \in BOOLEAN /\ request[r].changed \in BOOLEAN
  BY OfRequest DEF ConsultInv, Tables, Request
<1>3. Plain(r, C!NoRequest)
  BY <1>1, <1>2, HeldLinks, Idle DEF Plain
<1> QED BY <1>3, PlainStep

\* A restart leaves no request, and strands every link that was held.
LEMMA RestartStep ==
  ASSUME ConsultInv, C!Restart
  PROVE  ConsultInv'
<1>1. /\ request' = [q \in Consults |-> C!NoRequest] /\ unannounced' = FALSE
      /\ stranded' = stranded \cup C!Held(Consults) /\ UNCHANGED <<note, session, cards>>
  BY DEF C!Restart
<1>2. \A q \in Consults : Fits(request[q])' /\ ~Holding(request'[q])
  BY <1>1, Idle DEF Fits, Born, C!NoRequest
<1>3. Tables'
  <2>1. stranded \subseteq Notes \X C!Sessions
    BY DEF ConsultInv, Tables
  <2> QED BY <1>1, <2>1, Idle, HeldLinks DEF ConsultInv, Tables
<1>4. \A n \in Notes : Born(note[n].session)'
  BY <1>1 DEF ConsultInv, Born
<1>5. HoldsTheLink' /\ OneHolder'
  BY <1>2 DEF HoldsTheLink, OneHolder
<1>6. Carded'
  <2> SUFFICES ASSUME NEW n \in Notes, NEW s \in C!Sessions, note'[n].session = s,
                      C!Exists(s)'
               PROVE  Leads(n, s)'
    BY DEF Carded
  <2>1. Leads(n, s)
    BY <1>1 DEF ConsultInv, Carded, C!Exists
  <2> QED BY <2>1, <1>1, HeldLinks DEF Leads
<1> QED BY <1>1, <1>2, <1>3, <1>4, <1>5, <1>6 DEF ConsultInv

-----------------------------------------------------------------------------
(* Consult: links that are taken and given back.                           *)

\* The session of one notification becomes s; nothing else of the rows changes.
LinkBecomes(n, s) ==
  /\ note' \in [Notes -> Row]
  /\ \A m \in Notes : note'[m].session = IF m = n THEN s ELSE note[m].session

LEMMA Released ==
  ASSUME ConsultInv, NEW n \in Notes, NEW s, C!Release(n, s)
  PROVE  LinkBecomes(n, IF note[n].session = s THEN C!None ELSE note[n].session)
<1>1. note \in [Notes -> Row] /\ note[n] \in Row
  BY DEF ConsultInv, Tables
<1>2. note' = [note EXCEPT ![n].session = IF @ = s THEN C!None ELSE @]
  BY DEF C!Release
<1> QED BY <1>1, <1>2 DEF Row, LinkBecomes

\* What is left to show when a link changes.
LEMMA LinkStep ==
  ASSUME ConsultInv, NEW r \in Consults, NEW x \in Request, C!Becomes(r, x), Fits(x),
         NEW n \in Notes, NEW s, LinkBecomes(n, s), Born(s),
         UNCHANGED <<session, cards, stranded>>,
         HoldsTheLink', OneHolder', Carded',
         unannounced' \in BOOLEAN,
         unannounced' => x.changed \/ (unannounced /\ ~request[r].changed)
  PROVE  ConsultInv'
<1>1. /\ request' \in [Consults -> Request]
      /\ \A q \in Consults : request'[q] = IF q = r THEN x ELSE request[q]
  BY Replaced DEF ConsultInv
<1>2. Tables'
  BY <1>1 DEF ConsultInv, Tables, LinkBecomes
<1>3. \A q \in Consults : Fits(request[q])'
  BY <1>1 DEF ConsultInv, Fits, Born
<1>4. \A m \in Notes : Born(note[m].session)'
  BY DEF ConsultInv, LinkBecomes, Born
<1>5. (unannounced => \E q \in Consults : request[q].changed)'
  BY <1>1 DEF ConsultInv
<1> QED BY <1>2, <1>3, <1>4, <1>5 DEF ConsultInv

LEMMA NoneIsNone == C!None \notin C!Sessions
BY PanelAssumption DEF C!None, C!Sessions

\* A link to a deleted session concerns no holder.
LEMMA UnlinkStep ==
  ASSUME ConsultInv, NEW r \in Consults, C!Unlink(r)
  PROVE  ConsultInv'
<1> DEFINE n == request[r].about
           s == request[r].session
           t == IF note[n].session = s THEN C!None ELSE note[n].session
           x == [request[r] EXCEPT !.pc = "check"]
<1>1. /\ request[r].pc = "unlink" /\ C!Release(n, s) /\ C!Becomes(r, x)
      /\ UNCHANGED <<session, cards, stranded, unannounced>>
  BY DEF C!Unlink, C!Goto, C!chat
<1>2. /\ request[r] \in Request /\ Fits(request[r]) /\ n \in Notes
      /\ ~Holding(request[r]) /\ ~C!Exists(s)
  BY <1>1, OfRequest DEF Holding, Fits, C!Exists
<1>3. LinkBecomes(n, t) /\ Born(t)
  <2>1. LinkBecomes(n, t)
    BY <1>1, <1>2, Released
  <2>2. Born(t)
    BY <1>2 DEF ConsultInv, Born
  <2> QED BY <2>1, <2>2
<1>4. x \in Request /\ x.pc = "check" /\ x.changed = request[r].changed
  BY <1>2 DEF Request, C!PCs
<1>5. Fits(x) /\ ~Holding(x)
  BY <1>1, <1>2, <1>4, OnlyPc DEF Fits, Holding
<1> HIDE DEF x
<1>6. \A q \in Consults :
        /\ request'[q] = IF q = r THEN x ELSE request[q]
        /\ Holding(request'[q]) => q # r
        /\ Holding(request[q]) => q # r
  BY <1>1, <1>2, <1>4, <1>5, Replaced DEF ConsultInv
<1>7. \A u : C!Exists(u)' <=> C!Exists(u)
  BY <1>1 DEF C!Exists
<1>8. \A m \in Notes : C!Exists(note[m].session) => note'[m].session = note[m].session
  BY <1>2, <1>3 DEF LinkBecomes
<1>9. \A q \in Consults : request[q].about \in Notes
  BY OfRequest
<1>10. HoldsTheLink'
  BY <1>6, <1>7, <1>8, <1>9 DEF ConsultInv, HoldsTheLink
<1>11. OneHolder'
  BY <1>6, <1>7 DEF ConsultInv, OneHolder
<1>12. Carded'
  <2>1. ASSUME NEW m \in Notes, NEW u \in C!Sessions, note'[m].session = u
        PROVE  note[m].session = u
    BY <2>1, <1>3, NoneIsNone DEF LinkBecomes
  <2>2. \A m \in Notes, u \in C!Sessions : Leads(m, u) => Leads(m, u)'
    BY <1>1, <1>6 DEF Leads
  <2> QED BY <2>1, <2>2, <1>7 DEF ConsultInv, Carded
<1>13. unannounced' \in BOOLEAN /\ x.changed \in BOOLEAN
       /\ (unannounced' => x.changed \/ (unannounced /\ ~request[r].changed))
  BY <1>1, <1>4 DEF ConsultInv, Tables, Request
<1> HIDE DEF n, s, t
<1> QED BY <1>1, <1>2, <1>3, <1>4, <1>5, <1>10, <1>11, <1>12, <1>13, LinkStep

\* The link that is given back is the request's own.
LEMMA UndoStep ==
  ASSUME ConsultInv, NEW r \in Consults, C!Undo(r)
  PROVE  ConsultInv'
<1> DEFINE n == request[r].about
           s == request[r].into
           t == IF note[n].session = s THEN C!None ELSE note[n].session
           x == C!NoRequest
<1>1. /\ request[r].pc = "undo" /\ C!Release(n, s) /\ C!Becomes(r, x)
      /\ unannounced' = (unannounced /\ ~request[r].changed)
      /\ UNCHANGED <<session, cards, stranded>>
  BY DEF C!Undo, C!Answer, C!chat
<1>2. request[r] \in Request /\ n \in Notes /\ Holding(request[r])
  BY <1>1, OfRequest DEF Holding
<1>3. LinkBecomes(n, t) /\ Born(t)
  <2>1. LinkBecomes(n, t)
    BY <1>1, <1>2, Released
  <2>2. Born(t)
    BY <1>2 DEF ConsultInv, Born
  <2> QED BY <2>1, <2>2
<1>4. x \in Request /\ Fits(x) /\ ~Holding(x) /\ ~x.changed
  BY Idle
<1> HIDE DEF x
<1>5. \A q \in Consults :
        /\ request'[q] = IF q = r THEN x ELSE request[q]
        /\ Holding(request'[q]) => q # r
  BY <1>1, <1>4, Replaced DEF ConsultInv
<1>6. \A u : C!Exists(u)' <=> C!Exists(u)
  BY <1>1 DEF C!Exists
<1>7. \A q \in Consults : request[q].about \in Notes
  BY OfRequest
<1>8. HoldsTheLink'
  <2> SUFFICES ASSUME NEW q \in Consults, Holding(request'[q]), C!Exists(request[q].into)'
               PROVE  note'[request'[q].about].session = request'[q].into
    BY DEF HoldsTheLink
  <2>1. /\ q # r /\ request'[q] = request[q] /\ Holding(request[q])
        /\ C!Exists(request[q].into)
    BY <1>1, <1>5 DEF C!Exists
  <2>2. note[request[q].about].session = request[q].into
    BY <2>1 DEF ConsultInv, HoldsTheLink
  <2>3. ~(request[q].about = n /\ request[q].into = s)
    BY <2>1, <1>2 DEF ConsultInv, OneHolder
  <2> QED BY <2>1, <2>2, <2>3, <1>3, <1>7 DEF LinkBecomes
<1>9. OneHolder'
  BY <1>5, <1>6 DEF ConsultInv, OneHolder
<1>10. Carded'
  <2> SUFFICES ASSUME NEW m \in Notes, NEW u \in C!Sessions, note'[m].session = u,
                      C!Exists(u)'
               PROVE  Leads(m, u)'
    BY DEF Carded
  <2>1. note[m].session = u /\ ~(m = n /\ u = s)
    BY <1>3, NoneIsNone DEF LinkBecomes
  <2>2. Leads(m, u)
    BY <2>1, <1>6 DEF ConsultInv, Carded
  <2> QED BY <2>1, <2>2, <1>1, <1>5 DEF Leads
<1>11. unannounced' \in BOOLEAN
  BY <1>1, <1>2 DEF ConsultInv, Tables, Request
<1> HIDE DEF n, s, t
<1> QED BY <1>1, <1>2, <1>3, <1>4, <1>8, <1>9, <1>10, <1>11, LinkStep

\* A link is taken only where there is none, and then nobody else's is alive.
LEMMA ClaimStep ==
  ASSUME ConsultInv, NEW r \in Consults, C!Claim(r)
  PROVE  ConsultInv'
<1> DEFINE n == request[r].about
           s == request[r].into
           x == [request[r] EXCEPT !.pc = "plant"]
<1>1. /\ request[r].pc = "claim" /\ UNCHANGED <<session, cards, stranded, unannounced>>
  BY DEF C!Claim, C!chat
<1>2. /\ request[r] \in Request /\ Fits(request[r]) /\ n \in Notes /\ note[n] \in Row
      /\ ~Holding(request[r]) /\ s # C!None /\ Born(s) /\ s \in C!Sessions
  BY <1>1, OfRequest DEF Holding, Fits, Request
<1>3. CASE note[n].session # C!None
  <2>1. C!Goto(r, "reread") /\ UNCHANGED note
    BY <1>3 DEF C!Claim
  <2>2. Fits([request[r] EXCEPT !.pc = "reread"])
    BY <1>1, <1>2, OnlyPc DEF Fits
  <2>3. "reread" \in C!PCs
    BY DEF C!PCs
  <2> QED BY <1>1, <1>2, <2>1, <2>2, <2>3, GotoPlain
<1>4. CASE note[n].session = C!None
  <2>1. note' = [note EXCEPT ![n].session = s] /\ C!Becomes(r, x)
    BY <1>4 DEF C!Claim, C!Goto
  <2>2. LinkBecomes(n, s)
    <3>1. note \in [Notes -> Row]
      BY DEF ConsultInv, Tables
    <3> QED BY <1>2, <2>1, <3>1 DEF Row, LinkBecomes
  <2>3. /\ x \in Request /\ x.pc = "plant" /\ x.changed = request[r].changed
        /\ x.about = n /\ x.into = s
    BY <1>2 DEF Request, C!PCs
  <2>4. Fits(x) /\ Holding(x)
    BY <1>1, <1>2, <2>3, OnlyPc DEF Fits, Holding
  <2> HIDE DEF x
  <2>5. \A q \in Consults : request'[q] = IF q = r THEN x ELSE request[q]
    BY <2>1, <2>3, Replaced DEF ConsultInv
  <2>6. \A u : C!Exists(u)' <=> C!Exists(u)
    BY <1>1 DEF C!Exists
  <2>7. ASSUME NEW q \in Consults, Holding(request[q]), C!Exists(request[q].into)
        PROVE  request[q].about \in Notes /\ request[q].about # n
    <3>1. request[q].into # C!None /\ request[q].about \in Notes
      BY <2>7, OfRequest DEF Fits, Holding
    <3>2. note[request[q].about].session = request[q].into
      BY <2>7 DEF ConsultInv, HoldsTheLink
    <3> QED BY <3>1, <3>2, <1>4
  <2>8. HoldsTheLink'
    <3> SUFFICES ASSUME NEW q \in Consults, Holding(request'[q]), C!Exists(request[q].into)'
                 PROVE  note'[request'[q].about].session = request'[q].into
      BY DEF HoldsTheLink
    <3>1. CASE q = r
      BY <3>1, <2>2, <2>3, <2>5, <1>2 DEF LinkBecomes
    <3>2. CASE q # r
      <4>1. request'[q] = request[q] /\ C!Exists(request[q].into)
        BY <3>2, <2>5, <1>1 DEF C!Exists
      <4>2. note[request[q].about].session = request[q].into
        BY <4>1 DEF ConsultInv, HoldsTheLink
      <4> QED BY <4>1, <4>2, <2>2, <2>7 DEF LinkBecomes
    <3> QED BY <3>1, <3>2
  <2>9. OneHolder'
    <3> SUFFICES ASSUME NEW p1 \in Consults, NEW p2 \in Consults, p1 # p2,
                        Holding(request'[p1]), Holding(request'[p2]),
                        request'[p1].about = request'[p2].about,
                        request'[p1].into = request'[p2].into,
                        C!Exists(request[p2].into)'
                 PROVE  FALSE
      BY DEF OneHolder
    <3>1. C!Exists(request'[p1].into) /\ C!Exists(request'[p2].into)
      BY <1>1 DEF C!Exists
    <3>2. CASE p1 = r
      BY <3>1, <3>2, <2>3, <2>5, <2>7
    <3>3. CASE p2 = r
      BY <3>1, <3>3, <2>3, <2>5, <2>7
    <3>4. CASE p1 # r /\ p2 # r
      BY <3>1, <3>4, <2>5 DEF ConsultInv, OneHolder
    <3> QED BY <3>2, <3>3, <3>4
  <2>10. Carded'
    <3> SUFFICES ASSUME NEW m \in Notes, NEW u \in C!Sessions, note'[m].session = u,
                        C!Exists(u)'
                 PROVE  Leads(m, u)'
      BY DEF Carded
    <3>1. CASE m = n
      <4>1. u = s
        BY <3>1, <2>2, <1>2 DEF LinkBecomes
      <4> QED BY <4>1, <3>1, <2>3, <2>4, <2>5 DEF Leads
    <3>2. CASE m # n
      <4>1. note[m].session = u
        BY <3>2, <2>2 DEF LinkBecomes
      <4>2. Leads(m, u)
        BY <4>1, <2>6 DEF ConsultInv, Carded
      <4> QED BY <4>2, <1>1, <1>2, <2>5 DEF Leads
    <3> QED BY <3>1, <3>2
  <2>11. unannounced' \in BOOLEAN /\ x.changed \in BOOLEAN
         /\ (unannounced' => x.changed \/ (unannounced /\ ~request[r].changed))
    BY <1>1, <2>3 DEF ConsultInv, Tables, Request
  <2> HIDE DEF n, s
  <2> QED BY <1>1, <1>2, <2>1, <2>2, <2>3, <2>4, <2>8, <2>9, <2>10, <2>11, LinkStep
<1> QED BY <1>3, <1>4

-----------------------------------------------------------------------------
(* Consult: sessions are created, get cards, lose their context, are deleted. *)

SessionStates == {"absent", "empty", "alive", "dead", "deleted"}

\* A session that was created stays created, one that was deleted stays deleted, and
\* only one that nobody names yet begins to exist.
Ages ==
  /\ session' \in [C!Sessions -> SessionStates]
  /\ \A s \in C!Sessions :
       session[s] # "absent" =>
         /\ session'[s] # "absent"
         /\ session[s] = "deleted" => session'[s] = "deleted"

LEMMA Existing ==
  ASSUME Ages, NEW s \in C!Sessions, session[s] # "absent", session[s] \in SessionStates,
         session'[s] \notin {"absent", "deleted"}
  PROVE  C!Exists(s)
BY DEF Ages, C!Exists, SessionStates

\* A request that goes on naming what it named still fits.
LEMMA FitsStill ==
  ASSUME Tables, Ages, NEW r \in Consults, Fits(request[r]), request'[r] = request[r]
  PROVE  Fits(request[r])'
<1>1. /\ request[r].session \in C!Sessions \cup {C!None}
      /\ request[r].into \in C!Sessions \cup {C!None}
  BY DEF Tables, Request
<1>2. request[r].pc = "unlink" => request[r].session \in C!Sessions
  BY <1>1 DEF Fits
<1> QED BY <1>1, <1>2 DEF Fits, Born, Ages

\* Where sessions age and rows stay: a request that stops holding a link has left a
\* card behind it.
LEMMA SessionStep ==
  ASSUME ConsultInv, Ages, UNCHANGED note,
         cards' \in [Notes -> [C!Sessions -> Nat]],
         \A n \in Notes, s \in C!Sessions : cards[n][s] > 0 => cards'[n][s] > 0,
         UNCHANGED stranded,
         request' \in [Consults -> Request],
         \A q \in Consults : Fits(request[q])',
         \A q \in Consults : Holding(request'[q]) => request'[q] = request[q],
         \A q \in Consults :
           Holding(request[q]) =>
             \/ request'[q] = request[q]
             \/ cards'[request[q].about][request[q].into] > 0,
         unannounced' \in BOOLEAN,
         (unannounced => \E q \in Consults : request[q].changed)'
  PROVE  ConsultInv'
<1>1. Tables'
  BY DEF ConsultInv, Tables, Ages, SessionStates
<1>2. \A n \in Notes : Born(note[n].session)'
  BY DEF ConsultInv, Tables, Row, Born, Ages
<1>3. ASSUME NEW s \in C!Sessions, Born(s), C!Exists(s)' PROVE C!Exists(s)
  BY <1>3, NoneIsNone, Existing DEF ConsultInv, Tables, Born, C!Exists, SessionStates
<1>4. ASSUME NEW q \in Consults, Holding(request'[q]), C!Exists(request[q].into)'
      PROVE  Holding(request[q]) /\ request'[q] = request[q] /\ C!Exists(request[q].into)
  <2>1. Holding(request[q]) /\ request'[q] = request[q]
    BY <1>4
  <2>2. request[q].into \in C!Sessions /\ Born(request[q].into)
    BY <2>1, OfRequest DEF Fits, Holding, Request
  <2>3. session'[request[q].into] \notin {"absent", "deleted"}
    BY <1>4, <2>1 DEF C!Exists
  <2> QED BY <2>1, <2>2, <2>3, NoneIsNone, Existing DEF ConsultInv, Tables, Born, SessionStates
<1>5. HoldsTheLink'
  BY <1>4 DEF ConsultInv, HoldsTheLink
<1>6. OneHolder'
  <2> SUFFICES ASSUME NEW p1 \in Consults, NEW p2 \in Consults, p1 # p2,
                      Holding(request'[p1]), Holding(request'[p2]),
                      request'[p1].about = request'[p2].about,
                      request'[p1].into = request'[p2].into,
                      C!Exists(request[p2].into)'
               PROVE  FALSE
    BY DEF OneHolder
  <2> QED BY <1>4 DEF ConsultInv, OneHolder
<1>7. Carded'
  <2> SUFFICES ASSUME NEW m \in Notes, NEW u \in C!Sessions, note'[m].session = u,
                      C!Exists(u)'
               PROVE  Leads(m, u)'
    BY DEF Carded
  <2>1. note[m].session = u /\ C!Exists(u)
    BY <1>3 DEF ConsultInv
  <2>2. Leads(m, u)
    BY <2>1 DEF ConsultInv, Carded
  <2> QED BY <2>2 DEF Leads
<1> QED BY <1>1, <1>2, <1>5, <1>6, <1>7 DEF ConsultInv

LEMMA CreateStep ==
  ASSUME ConsultInv, NEW r \in Consults, C!Create(r)
  PROVE  ConsultInv'
<1> DEFINE absent == {t \in C!Sessions : session[t] = "absent"}
           s == C!Min(absent)
           x == [request[r] EXCEPT !.pc = "claim", !.into = s]
<1>1. /\ request[r].pc = "create" /\ absent # {} /\ C!Becomes(r, x)
      /\ session' = [session EXCEPT ![s] = "empty"] /\ UNCHANGED <<note, cards, stranded, unannounced>>
  BY DEF C!Create
<1>2. s \in absent
  BY <1>1, MinIsIn
<1>3. request[r] \in Request /\ Fits(request[r]) /\ session \in [C!Sessions -> SessionStates]
  BY OfRequest DEF ConsultInv, Tables, SessionStates
<1>4. s \in C!Sessions /\ s # C!None /\ session[s] = "absent"
  BY <1>2, NoneIsNone
<1> HIDE DEF s
<1>5. /\ x \in Request /\ x.pc = "claim" /\ x.into = s /\ x.session = request[r].session
      /\ x.changed = request[r].changed
  BY <1>3, <1>4 DEF Request, C!PCs
<1>6. x.session \in C!Sessions \cup {C!None}
  BY <1>5 DEF Request
<1> HIDE DEF x
<1>7. /\ request' \in [Consults -> Request]
      /\ \A q \in Consults : request'[q] = IF q = r THEN x ELSE request[q]
  BY <1>1, <1>5, Replaced DEF ConsultInv
<1>8. Ages
  BY <1>1, <1>3, <1>4 DEF Ages, SessionStates
<1>9. Fits(request[r])'
  <2>1. session'[s] = "empty"
    BY <1>1, <1>3, <1>4
  <2>2. x.session # C!None => session'[x.session] # "absent"
    BY <1>3, <1>5, <1>6, <1>8 DEF Fits, Born, Ages
  <2> QED BY <1>4, <1>5, <1>7, <2>1, <2>2 DEF Fits, Born
<1>10. \A q \in Consults : Fits(request[q])'
  BY <1>7, <1>8, <1>9, FitsStill DEF ConsultInv
<1>11. \A q \in Consults : /\ Holding(request'[q]) => request'[q] = request[q]
                           /\ Holding(request[q]) => request'[q] = request[q]
  BY <1>1, <1>5, <1>7 DEF Holding
<1>12. (unannounced => \E q \in Consults : request[q].changed)'
  BY <1>1, <1>5, <1>7 DEF ConsultInv
<1>13. /\ cards' \in [Notes -> [C!Sessions -> Nat]] /\ unannounced' \in BOOLEAN
       /\ UNCHANGED <<note, cards, stranded>>
  BY <1>1 DEF ConsultInv, Tables
<1> QED BY <1>7, <1>8, <1>10, <1>11, <1>12, <1>13, SessionStep

\* A card is planted, and the request has done its work.
LEMMA PlantStep ==
  ASSUME ConsultInv, NEW r \in Consults, C!Reseed(r) \/ C!PlantFirst(r)
  PROVE  ConsultInv'
<1> DEFINE n == request[r].about
           s == request[r].into
           x == C!NoRequest
<1>1. /\ request[r].pc \in {"reseed", "plant"} /\ C!Exists(s) /\ C!Becomes(r, x)
      /\ unannounced' = (unannounced /\ ~TRUE) /\ UNCHANGED <<note, stranded>>
      /\ session' = [session EXCEPT ![s] = "alive"]
      /\ cards' = [cards EXCEPT ![n][s] = @ + 1]
  BY DEF C!Reseed, C!PlantFirst, C!Plant, C!Answer
<1>2. /\ n \in Notes /\ s \in C!Sessions /\ session \in [C!Sessions -> SessionStates]
      /\ cards \in [Notes -> [C!Sessions -> Nat]]
  <2>1. s \in C!Sessions \cup {C!None} /\ n \in Notes
    BY OfRequest DEF Request
  <2>2. s # C!None
    BY <1>1, OfRequest DEF Fits
  <2> QED BY <2>1, <2>2 DEF ConsultInv, Tables, SessionStates
<1>3. x \in Request /\ ~Holding(x) /\ ~x.changed
  BY Idle
<1>4. /\ request' \in [Consults -> Request]
      /\ \A q \in Consults : request'[q] = IF q = r THEN x ELSE request[q]
  BY <1>1, <1>3, Replaced DEF ConsultInv
<1>5. Ages
  BY <1>1, <1>2 DEF Ages, SessionStates, C!Exists
<1>6. Fits(request[r])'
  BY <1>4 DEF Fits, Born, C!NoRequest
<1>7. \A q \in Consults : Fits(request[q])'
  BY <1>4, <1>5, <1>6, FitsStill DEF ConsultInv
<1> HIDE DEF x
<1>8. /\ cards' \in [Notes -> [C!Sessions -> Nat]]
      /\ \A m \in Notes, u \in C!Sessions : cards[m][u] > 0 => cards'[m][u] > 0
      /\ cards'[n][s] > 0
  BY <1>1, <1>2
<1>9. \A q \in Consults :
        /\ Holding(request'[q]) => request'[q] = request[q]
        /\ Holding(request[q]) =>
             \/ request'[q] = request[q]
             \/ cards'[request[q].about][request[q].into] > 0
  BY <1>3, <1>4, <1>8
<1>10. unannounced' = FALSE
  BY <1>1
<1> QED BY <1>1, <1>4, <1>5, <1>7, <1>8, <1>9, <1>10, SessionStep

\* What happens to sessions meanwhile.
LEMMA SessionEnds ==
  ASSUME ConsultInv, NEW s \in C!Sessions, C!ContextEnds(s) \/ C!DeleteSession(s)
  PROVE  ConsultInv'
<1>1. /\ UNCHANGED <<note, cards, stranded, request, unannounced>> /\ session[s] # "absent"
      /\ session[s] # "deleted"
      /\ \E v \in {"dead", "deleted"} : session' = [session EXCEPT ![s] = v]
  BY DEF C!ContextEnds, C!DeleteSession, C!Exists
<1>2. Tables /\ session \in [C!Sessions -> SessionStates]
  BY DEF ConsultInv, Tables, SessionStates
<1>3. Ages
  BY <1>1, <1>2 DEF Ages, SessionStates
<1>4. \A q \in Consults : request'[q] = request[q]
  BY <1>1
<1>5. \A q \in Consults : Fits(request[q])'
  BY <1>2, <1>3, <1>4, FitsStill DEF ConsultInv
<1>6. (unannounced => \E q \in Consults : request[q].changed)'
  BY <1>1 DEF ConsultInv
<1>7. /\ request' \in [Consults -> Request] /\ cards' \in [Notes -> [C!Sessions -> Nat]]
      /\ unannounced' \in BOOLEAN /\ UNCHANGED <<note, cards, stranded>>
  BY <1>1, <1>2 DEF Tables
<1> QED BY <1>3, <1>4, <1>5, <1>6, <1>7, SessionStep

\* What scans and users do to the rows leaves the links alone and is announced.
LEMMA RowsStep ==
  ASSUME ConsultInv, NEW n \in Notes, C!RowChanges(n)
  PROVE  ConsultInv'
<1>1. UNCHANGED <<session, cards, stranded, request>> /\ unannounced' = FALSE
  BY DEF C!RowChanges, C!chat
<1>2. note' \in [Notes -> Row] /\ \A m \in Notes : note'[m].session = note[m].session
  <2>1. note \in [Notes -> Row] /\ note[n] \in Row
    BY DEF ConsultInv, Tables
  <2>2. \/ \E b \in BOOLEAN : note' = [note EXCEPT ![n].read = b]
        \/ note' = [note EXCEPT ![n].state = "closed"]
    BY DEF C!RowChanges
  <2> QED BY <2>1, <2>2 DEF Row
<1>3. Tables'
  BY <1>1, <1>2 DEF ConsultInv, Tables
<1>4. \A q \in Consults : Fits(request[q])'
  BY <1>1 DEF ConsultInv, Fits, Born
<1>5. \A m \in Notes : Born(note[m].session)'
  BY <1>1, <1>2 DEF ConsultInv, Born
<1>6. HoldsTheLink' /\ OneHolder'
  <2>1. \A q \in Consults : request[q].about \in Notes
    BY OfRequest
  <2> QED BY <1>1, <1>2, <2>1 DEF ConsultInv, HoldsTheLink, OneHolder, C!Exists
<1>7. Carded'
  BY <1>1, <1>2 DEF ConsultInv, Carded, Leads, C!Exists
<1> QED BY <1>1, <1>3, <1>4, <1>5, <1>6, <1>7 DEF ConsultInv

LEMMA StillConsult ==
  ASSUME ConsultInv, UNCHANGED <<note, session, cards, stranded, request, unannounced>>
  PROVE  ConsultInv'
<1>1. HoldsTheLink' /\ OneHolder' /\ Carded'
  BY DEF ConsultInv, HoldsTheLink, OneHolder, Carded, Leads, C!Exists
<1>2. Tables' /\ (\A q \in Consults : Fits(request[q])') /\ \A m \in Notes : Born(note[m].session)'
  BY DEF ConsultInv, Tables, Fits, Born
<1> QED BY <1>1, <1>2 DEF ConsultInv

LEMMA NextConsult == ConsultInv /\ [C!Next]_(C!vars) => ConsultInv'
<1> SUFFICES ASSUME ConsultInv, [C!Next]_(C!vars) PROVE ConsultInv'
  OBVIOUS
<1>1. ASSUME NEW r \in Consults, C!RequestStep(r) PROVE ConsultInv'
  BY <1>1, MarkStep, AskExistsStep, AskAliveStep, UnlinkStep, CheckStep, CloseStep,
     GiveUpStep, FindStep, CreateStep, ClaimStep, PlantStep, PlantFailsStep, UndoStep,
     RaisesStep
  DEF C!RequestStep
<1>2. ASSUME NEW r \in Consults, NEW n \in Notes, C!Click(r, n) PROVE ConsultInv'
  BY <1>2, ClickStep
<1>3. ASSUME NEW n \in Notes, C!RowChanges(n) \/ C!CampaignChanges(n) PROVE ConsultInv'
  BY <1>3, RowsStep, StillConsult DEF C!CampaignChanges, C!chat
<1>4. ASSUME NEW s \in C!Sessions, C!ContextEnds(s) \/ C!DeleteSession(s) PROVE ConsultInv'
  BY <1>4, SessionEnds
<1>5. CASE UNCHANGED C!vars
  BY <1>5, StillConsult DEF C!vars
<1> QED BY <1>1, <1>2, <1>3, <1>4, <1>5, RestartStep DEF C!Next

\* The bounds are numbers and only counted up to; silence is about notifications.
Tallies == silent \subseteq Notes /\ {clicks, acts, failures} \subseteq Nat

LEMMA NextTallies == Tallies /\ [C!Next]_(C!vars) => Tallies'
<1> SUFFICES ASSUME Tallies, [C!Next]_(C!vars) PROVE Tallies'
  OBVIOUS
<1>1. ASSUME NEW r \in Consults, C!RequestStep(r)
      PROVE  UNCHANGED <<silent, clicks, acts>> /\ failures' \in {failures, failures + 1}
  BY <1>1 DEF C!RequestStep, C!Mark, C!AskExists, C!AskAlive, C!Unlink, C!Check,
       C!CloseNormal, C!Reseed, C!ReseedFails, C!Find, C!Create, C!Claim, C!PlantFirst,
       C!PlantFails, C!Undo, C!Reread, C!Raises, C!Fails
<1>2. ASSUME NEW r \in Consults, NEW n \in Notes, C!Click(r, n)
      PROVE  UNCHANGED <<silent, failures, acts>> /\ clicks' = clicks + 1
  BY <1>2 DEF C!Click
<1>3. ASSUME NEW n \in Notes, C!RowChanges(n) \/ C!CampaignChanges(n)
      PROVE  silent' \subseteq Notes /\ acts' = acts + 1 /\ UNCHANGED <<clicks, failures>>
  BY <1>3 DEF C!RowChanges, C!CampaignChanges, C!Act, C!SymDiff, Tallies
<1>4. ASSUME NEW s \in C!Sessions, C!ContextEnds(s) \/ C!DeleteSession(s)
      PROVE  UNCHANGED <<silent, clicks, failures>> /\ acts' = acts + 1
  BY <1>4 DEF C!ContextEnds, C!DeleteSession, C!Act
<1>5. CASE UNCHANGED C!vars
  BY <1>5 DEF C!vars, Tallies
<1>6. CASE C!Restart
  BY <1>6 DEF C!Restart, C!Fails, Tallies
<1> QED BY <1>1, <1>2, <1>3, <1>4, <1>5, <1>6 DEF C!Next, Tallies

LEMMA ConsultHolds == C!Spec => [](ConsultInv /\ Tallies)
<1>1. C!Init => Tallies
  BY DEF C!Init, Tallies
<1> QED BY <1>1, InitConsult, NextConsult, NextTallies, PTL DEF C!Spec

-----------------------------------------------------------------------------
(* The panel: a behaviour of it is one of the bells and one of Consult.    *)

LEMMA BothHalves == MCSpec => Spec /\ C!Spec
<1>1. MCInit => Init /\ C!Init
  BY DEF MCInit
<1>2. [MCNext]_<<panel, vars, cvars>> => [Next]_vars /\ [C!Next]_(C!vars)
  BY DEF MCNext, cvars, vars, C!vars
<1> QED BY <1>1, <1>2, PTL DEF MCSpec, Spec, C!Spec

\* The variables of both halves keep their types; a request about to write to a session
\* has one, whichever notification, session and row it found on its way.
THEOREM PanelType == MCSpec => []PanelTypeOK
<1>1. ConsultInv /\ Tallies => C!TypeOK
  BY DEF ConsultInv, Tallies, Tables, Request, Row, Fits, C!TypeOK
<1> QED BY <1>1, BothHalves, BellsType, ConsultHolds, PTL DEF PanelTypeOK

\* consult_notification() announces what it changed, whichever way it ends and whatever
\* others announced meanwhile.
THEOREM AllAnnounced == MCSpec => []ChangesAnnounced
<1>1. ConsultInv => ChangesAnnounced
  BY DEF ConsultInv, Fits, ChangesAnnounced, C!ChangesAnnounced, C!AllIdle
<1> QED BY <1>1, BothHalves, ConsultHolds, PTL

\* While a request plants, the link is its own, unless the session was deleted: the
\* compare-and-set has one winner, and a release takes nobody else's link away.
THEOREM PlanterLinked == MCSpec => []PlanterIsLinked
<1>1. ConsultInv => PlanterIsLinked
  BY DEF ConsultInv, HoldsTheLink, Holding, PlanterIsLinked, C!PlanterIsLinked
<1> QED BY <1>1, BothHalves, ConsultHolds, PTL

\* Once no request is under way, a link to a session that is there leads to a card,
\* unless the request that made the link raised while it undid it or died with it:
\* however many calls of however many requests fail, no other link is without a card.
THEOREM LinksHaveCards == MCSpec => []LinkedHasCard
<1>1. ConsultInv => LinkedHasCard
  <2> SUFFICES ASSUME ConsultInv, C!AllIdle, NEW n \in Notes, NEW s \in C!Sessions,
                      note[n].session = s, C!Exists(s)
               PROVE  cards[n][s] > 0 \/ <<n, s>> \in stranded
    BY DEF LinkedHasCard, C!LinkedHasCard
  <2> QED BY DEF ConsultInv, Carded, Leads, Holding, C!AllIdle
<1> QED BY <1>1, BothHalves, ConsultHolds, PTL
=============================================================================
