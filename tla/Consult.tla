------------------------------- MODULE Consult ------------------------------
(***************************************************************************)
(* [상담하기]: consult_notification() opens a consultation about a         *)
(* notification.  It marks the notification as read, checks the campaign   *)
(* once more, and either closes the notification or plants a card in the   *)
(* consultation session of the project, to which it links the              *)
(* notification by a compare-and-set, undone if planting fails.  Several   *)
(* requests run at once, and meanwhile scans and users change the same     *)
(* rows (Notify) and users use up and delete the sessions.  Each step is   *)
(* one call that is awaited: it may raise, the compensation included, and  *)
(* the process may die between any two of them.  A call that raises has    *)
(* changed nothing.                                                        *)
(***************************************************************************)
EXTENDS Integers, FiniteSets, FiniteSetsExt

CONSTANTS
  Notes,         \* notifications of the campaigns of one project
  Consults,      \* requests that may be in progress at the same time
  MaxSessions,
  MaxClicks,     \* bound on consultations
  MaxActs,       \* bound on what scans and users do elsewhere
  MaxFailures    \* bound on calls that fail and on restarts

Sessions == 1..MaxSessions
None == 0

VARIABLES
  silent,       \* notifications whose campaign has no impressions right now
  note,         \* the rows: state, read_at, consult_session_id
  session,      \* the project's consultation sessions and their context
  cards,        \* cards of each notification in each session
  stranded,     \* <<notification, session>>: links whose request was cut short before
                \* it had planted the card or undone the link
  request,      \* control state of each request
  unannounced,  \* has this process changed a list since it last published?
  clicks, acts, failures

chat == <<session, cards, stranded>>
vars == <<silent, note, session, cards, stranded, request, unannounced, clicks, acts, failures>>

NoRequest == [pc |-> "idle", about |-> CHOOSE n \in Notes : TRUE, read |-> FALSE, state |-> "open",
              session |-> None, into |-> None, reseed |-> FALSE, changed |-> FALSE]

Init ==
  /\ silent = Notes
  /\ note = [n \in Notes |-> [state |-> "open", read |-> FALSE, session |-> None]]
  /\ session = [s \in Sessions |-> "absent"]
  /\ cards = [n \in Notes |-> [s \in Sessions |-> 0]]
  /\ stranded = {}
  /\ request = [r \in Consults |-> NoRequest]
  /\ unannounced = FALSE
  /\ clicks = 0 /\ acts = 0 /\ failures = 0

Exists(s) == session[s] \in {"empty", "alive", "dead"}

Becomes(r, new) == request' = [request EXCEPT ![r] = new]
Goto(r, pc) == Becomes(r, [request[r] EXCEPT !.pc = pc])

\* The finally clause: one publish if the request has changed the list.
Answer(r, changed) ==
  /\ Becomes(r, NoRequest)
  /\ unannounced' = (unannounced /\ ~changed)

Fails == failures < MaxFailures /\ failures' = failures + 1

-----------------------------------------------------------------------------
(* Reading the notification.                                               *)

\* The request loads the row.
Click(r, n) ==
  /\ request[r].pc = "idle"
  /\ clicks < MaxClicks
  /\ clicks' = clicks + 1
  /\ Becomes(r, [NoRequest EXCEPT !.pc = "mark", !.about = n, !.read = note[n].read,
                                  !.state = note[n].state, !.session = note[n].session])
  /\ UNCHANGED <<silent, note, chat, unannounced, acts, failures>>

\* mark_read(), if the row was loaded unread; then the row as it was loaded decides.
Mark(r) ==
  LET q == request[r]
      marks == ~q.read /\ ~note[q.about].read
  IN
  /\ q.pc = "mark"
  /\ note' = [note EXCEPT ![q.about].read = @ \/ marks]
  /\ IF q.state # "open"
     THEN Answer(r, marks)
     ELSE /\ Becomes(r, [q EXCEPT !.pc = IF q.session # None THEN "exists" ELSE "check",
                                  !.changed = marks])
          /\ unannounced' = (unannounced \/ marks)
  /\ UNCHANGED <<silent, chat, clicks, acts, failures>>

\* session_exists()
AskExists(r) ==
  /\ request[r].pc = "exists"
  /\ Goto(r, IF Exists(request[r].session) THEN "alive" ELSE "unlink")
  /\ UNCHANGED <<silent, note, chat, unannounced, clicks, acts, failures>>

\* Mutant: the session to seed again is not remembered.
AskAliveForgets(r) ==
  /\ request[r].pc = "alive"
  /\ IF session[request[r].session] = "alive"
     THEN Answer(r, request[r].changed)
     ELSE /\ Becomes(r, [request[r] EXCEPT !.pc = "check", !.reseed = TRUE])
          /\ UNCHANGED unannounced
  /\ UNCHANGED <<silent, note, chat, clicks, acts, failures>>

\* consult_context_alive(): a session whose context has ended is seeded again.
AskAlive(r) ==
  LET s == request[r].session IN
  /\ request[r].pc = "alive"
  /\ IF session[s] = "alive"
     THEN Answer(r, request[r].changed)
     ELSE /\ Becomes(r, [request[r] EXCEPT !.pc = "check", !.reseed = TRUE, !.into = s])
          /\ UNCHANGED unannounced
  /\ UNCHANGED <<silent, note, chat, clicks, acts, failures>>

\* Mutant: the link goes whatever it has become.
ReleaseAny(n, s) == note' = [note EXCEPT ![n].session = None]

\* release_consult_session(): the link goes only if it is still to this session.
Release(n, s) == note' = [note EXCEPT ![n].session = IF @ = s THEN None ELSE @]

\* The session was deleted: the link is released and everything starts afresh.
Unlink(r) ==
  /\ request[r].pc = "unlink"
  /\ Release(request[r].about, request[r].session)
  /\ Goto(r, "check")
  /\ UNCHANGED <<silent, chat, unannounced, clicks, acts, failures>>

-----------------------------------------------------------------------------
(* Checking the campaign again.                                            *)

\* advisor.consult()
Check(r) ==
  LET q == request[r] IN
  /\ q.pc = "check"
  /\ Goto(r, IF q.about \notin silent THEN "normal" ELSE IF q.reseed THEN "reseed" ELSE "find")
  /\ UNCHANGED <<silent, note, chat, unannounced, clicks, acts, failures>>

Closing(n) == [note EXCEPT ![n].state = IF @ = "open" THEN "closed" ELSE @]

\* Mutant: only a request that marked the notification as read publishes.
CloseQuietly(r) ==
  LET n == request[r].about IN
  /\ request[r].pc = "normal"
  /\ note' = Closing(n)
  /\ Becomes(r, NoRequest)
  /\ unannounced' = (~request[r].changed /\ (unannounced \/ note[n].state = "open"))
  /\ UNCHANGED <<silent, chat, clicks, acts, failures>>

CloseNormal(r) ==
  /\ request[r].pc = "normal"
  /\ note' = Closing(request[r].about)
  /\ Answer(r, TRUE)
  /\ UNCHANGED <<silent, chat, clicks, acts, failures>>

-----------------------------------------------------------------------------
(* Planting the card.                                                      *)

\* append_consult()
Plant(n, s) ==
  /\ session' = [session EXCEPT ![s] = "alive"]
  /\ cards' = [cards EXCEPT ![n][s] = @ + 1]
  /\ UNCHANGED stranded

\* Into the session the notification is linked to.
Reseed(r) ==
  LET q == request[r] IN
  /\ q.pc = "reseed"
  /\ Exists(q.into)
  /\ Plant(q.about, q.into)
  /\ Answer(r, TRUE)
  /\ UNCHANGED <<silent, note, clicks, acts, failures>>

\* The session is gone, or the append fails: the link stays for the next click.
ReseedFails(r) ==
  /\ request[r].pc = "reseed"
  /\ IF Exists(request[r].into) THEN Fails ELSE UNCHANGED failures
  /\ Answer(r, request[r].changed)
  /\ UNCHANGED <<silent, note, chat, clicks, acts>>

\* find_or_create_session(): the newest session of the project ...
Find(r) ==
  LET found == {s \in Sessions : Exists(s)} IN
  /\ request[r].pc = "find"
  /\ IF found # {}
     THEN Becomes(r, [request[r] EXCEPT !.pc = "claim", !.into = Max(found)])
     ELSE Goto(r, "create")
  /\ UNCHANGED <<silent, note, chat, unannounced, clicks, acts, failures>>

\* ... or a new one.
Create(r) ==
  LET s == Min({t \in Sessions : session[t] = "absent"}) IN
  /\ request[r].pc = "create"
  /\ \E t \in Sessions : session[t] = "absent"
  /\ session' = [session EXCEPT ![s] = "empty"]
  /\ Becomes(r, [request[r] EXCEPT !.pc = "claim", !.into = s])
  /\ UNCHANGED <<silent, note, cards, stranded, unannounced, clicks, acts, failures>>

\* claim_consult_session(), a compare-and-set.
Claim(r) ==
  LET q == request[r] IN
  /\ q.pc = "claim"
  /\ IF note[q.about].session = None
     THEN note' = [note EXCEPT ![q.about].session = q.into] /\ Goto(r, "plant")
     ELSE UNCHANGED note /\ Goto(r, "reread")
  /\ UNCHANGED <<silent, chat, unannounced, clicks, acts, failures>>

PlantFirst(r) ==
  LET q == request[r] IN
  /\ q.pc = "plant"
  /\ Exists(q.into)
  /\ Plant(q.about, q.into)
  /\ Answer(r, TRUE)
  /\ UNCHANGED <<silent, note, clicks, acts, failures>>

\* Mutant: the link to a session without a card stays.
PlantFailsLinked(r) ==
  /\ request[r].pc = "plant"
  /\ Fails
  /\ Answer(r, request[r].changed)
  /\ UNCHANGED <<silent, note, chat, clicks, acts>>

\* The session is gone, or the append fails: the link is undone.
PlantFails(r) ==
  /\ request[r].pc = "plant"
  /\ IF Exists(request[r].into) THEN Fails ELSE UNCHANGED failures
  /\ Goto(r, "undo")
  /\ UNCHANGED <<silent, note, chat, unannounced, clicks, acts>>

Undo(r) ==
  /\ request[r].pc = "undo"
  /\ Release(request[r].about, request[r].into)
  /\ Answer(r, request[r].changed)
  /\ UNCHANGED <<silent, chat, clicks, acts, failures>>

\* The loser is sent to the session that the row names now.
Reread(r) ==
  /\ request[r].pc = "reread"
  /\ Answer(r, request[r].changed)
  /\ UNCHANGED <<silent, note, chat, clicks, acts, failures>>

-----------------------------------------------------------------------------
(* Calls that raise, and restarts.                                         *)

\* The links that requests hold between the compare-and-set and the card.
Held(rs) ==
  {<<request[r].about, request[r].into>> : r \in {q \in rs : request[q].pc \in {"plant", "undo"}}}

\* A call raises and the request ends through its finally clause.  That of the platform
\* is answered "unavailable", and where it is unknown whether the context is alive it is
\* taken to be; nothing else is caught, not even what raises while the link is undone.
Raises(r) ==
  LET q == request[r] IN
  /\ q.pc \in {"mark", "exists", "alive", "unlink", "check", "normal", "find", "create",
              "claim", "undo", "reread"}
  /\ q.pc = "mark" => ~q.read
  /\ Fails
  /\ stranded' = stranded \cup Held({r})
  /\ Answer(r, q.changed)
  /\ UNCHANGED <<silent, note, session, cards, clicks, acts>>

\* The process dies with its requests and with what they had to publish (Bells tells
\* what this means for the bells).
Restart ==
  /\ Fails
  /\ stranded' = stranded \cup Held(Consults)
  /\ request' = [r \in Consults |-> NoRequest]
  /\ unannounced' = FALSE
  /\ UNCHANGED <<silent, note, session, cards, clicks, acts>>

-----------------------------------------------------------------------------
(* Scans, users and campaigns meanwhile.  Their changes are announced by   *)
(* themselves; a publish announces every change before it.                 *)

Act == acts < MaxActs /\ acts' = acts + 1

\* MarkRead, Resolve, ResolveByCampaign, AutoResolve and FollowUp of Notify
RowChanges(n) ==
  /\ Act
  /\ \/ ~note[n].read /\ note' = [note EXCEPT ![n].read = TRUE]
     \/ note[n].read /\ note' = [note EXCEPT ![n].read = FALSE]
     \/ note[n].state = "open" /\ note' = [note EXCEPT ![n].state = "closed"]
  /\ unannounced' = FALSE
  /\ UNCHANGED <<silent, chat, request, clicks, failures>>

CampaignChanges(n) ==
  /\ Act
  /\ silent' = SymDiff(silent, {n})
  /\ UNCHANGED <<note, chat, request, unannounced, clicks, failures>>

\* The context of a session ends: an option was taken, or its TTL passed.
ContextEnds(s) ==
  /\ Act
  /\ session[s] = "alive"
  /\ session' = [session EXCEPT ![s] = "dead"]
  /\ UNCHANGED <<silent, note, cards, stranded, request, unannounced, clicks, failures>>

DeleteSession(s) ==
  /\ Act
  /\ Exists(s)
  /\ session' = [session EXCEPT ![s] = "deleted"]
  /\ UNCHANGED <<silent, note, cards, stranded, request, unannounced, clicks, failures>>

-----------------------------------------------------------------------------
RequestStep(r) ==
  \/ Mark(r) \/ AskExists(r) \/ AskAlive(r) \/ Unlink(r) \/ Check(r)
  \/ CloseNormal(r) \/ Reseed(r) \/ ReseedFails(r) \/ Find(r) \/ Create(r) \/ Claim(r)
  \/ PlantFirst(r) \/ PlantFails(r) \/ Undo(r) \/ Reread(r) \/ Raises(r)

Next ==
  \/ \E r \in Consults : RequestStep(r) \/ \E n \in Notes : Click(r, n)
  \/ \E n \in Notes : RowChanges(n) \/ CampaignChanges(n)
  \/ \E s \in Sessions : ContextEnds(s) \/ DeleteSession(s)
  \/ Restart

Spec == Init /\ [][Next]_vars

-----------------------------------------------------------------------------
(* Properties.                                                             *)

PCs == {"idle", "mark", "exists", "alive", "unlink", "check", "normal", "reseed", "find",
        "create", "claim", "plant", "undo", "reread"}

\* Every variable keeps its type; a request about to write to a session has one.
TypeOK ==
  /\ silent \subseteq Notes
  /\ note \in [Notes -> [state : {"open", "closed"}, read : BOOLEAN,
                         session : Sessions \cup {None}]]
  /\ session \in [Sessions -> {"absent", "empty", "alive", "dead", "deleted"}]
  /\ cards \in [Notes -> [Sessions -> Nat]]
  /\ stranded \subseteq Notes \X Sessions
  /\ request \in [Consults -> [pc : PCs, about : Notes, read : BOOLEAN,
                               state : {"open", "closed"}, session : Sessions \cup {None},
                               into : Sessions \cup {None}, reseed : BOOLEAN,
                               changed : BOOLEAN]]
  /\ \A r \in Consults :
       request[r].reseed \/ request[r].pc \in {"claim", "plant", "undo"}
         => request[r].into # None
  /\ unannounced \in BOOLEAN
  /\ {clicks, acts, failures} \subseteq Nat

AllIdle == \A r \in Consults : request[r].pc = "idle"

\* Once no request is under way, every change that requests of the living process made
\* to the list has been announced: consult_notification() publishes whichever way it
\* ends, a call that raises included.
ChangesAnnounced == AllIdle => ~unannounced

\* The request that is planting is the one the notification is linked to, unless its
\* session was deleted: the compare-and-set has one winner at a time, and a release
\* takes away nobody else's link.
PlanterIsLinked ==
  \A r \in Consults :
    request[r].pc = "plant" /\ Exists(request[r].into) =>
      note[request[r].about].session = request[r].into

\* Once no request is under way, a notification that is linked to a session has a card
\* in it, unless the very request that made this link was cut short before it could
\* plant or undo: a failed append, a deleted session, a lost race or the failure of any
\* other call or request leaves no link without a card.
LinkedHasCard ==
  AllIdle =>
    \A n \in Notes, s \in Sessions :
      note[n].session = s /\ Exists(s) => cards[n][s] > 0 \/ <<n, s>> \in stranded

\* consult_service.py: the compare-and-set prevents planting twice.
PlantedOnce == \A n \in Notes, s \in Sessions : cards[n][s] <= 1
=============================================================================
