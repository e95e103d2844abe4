------------------------------- MODULE Notify -------------------------------
(***************************************************************************)
(* The notifications of one organisation.  Scans (the scheduler's job and  *)
(* the button "scan now") read the campaigns, deliver one notification per *)
(* finding through PanelNotificationSink and close what is normal again,   *)
(* while users read and close notifications.                               *)
(*                                                                         *)
(* Every store call is a database session of its own.  One action is what  *)
(* a coroutine does from one await to the next, the store call it resumes  *)
(* from included.  The publish that follows each change of the list is     *)
(* the subject of Bells.                                                   *)
(*                                                                         *)
(* A dedup key is <<campaign, anomaly>> or <<"account", rule>>.            *)
(***************************************************************************)
EXTENDS Integers, FiniteSets, FiniteSetsExt, Sequences

CONSTANTS
  Campaigns,       \* active campaigns that belong to a project
  Anomalies,       \* anomalies a scan looks for; "no_delivery" is one of them
  AccountRules,    \* account rules a scan looks at, in the order of its findings
  Scheduled,       \* jobs of the scheduler
  Manual,          \* requests for a scan by hand
  MaxRows,
  MaxChanges,      \* bound on the changes of what is really wrong
  MaxActs,         \* bound on what users do to notifications
  MaxFailures      \* bound on platform reads and store calls that fail

Account == "account"
Keys == (Campaigns \X Anomalies) \cup {<<Account, AccountRules[i]>> : i \in DOMAIN AccountRules}
Silence(c) == <<c, "no_delivery">>

ASSUME NotifyAssumption ==
  /\ "no_delivery" \in Anomalies
  /\ Account \notin Campaigns
  /\ AccountRules \in Seq(STRING)
  /\ Scheduled \cap Manual = {}
  /\ {MaxRows, MaxChanges, MaxActs, MaxFailures} \subseteq Nat

Scans == Scheduled \cup Manual
Rows == 1..MaxRows
None == 0

VARIABLES
  wrong,        \* the keys that are really anomalous, as a read would find
  row,          \* management_notifications
  scan,         \* control state of each scan
  cooling,      \* _notify_scan_last: is a scan by hand still refused?
  changes, acts, failures

counters == <<changes, acts, failures>>
vars == <<wrong, row, scan, cooling, changes, acts, failures>>

Closed == {"ignored", "actioned", "auto_normal"}

NoRow == [state |-> "absent", key |-> <<Account, "">>, read |-> FALSE, cooled |-> FALSE]
NoScan == [pc |-> "idle", unread |-> {}, todo |-> <<>>, normals |-> {}, id |-> None]

Init ==
  /\ wrong = {}
  /\ row = [n \in Rows |-> NoRow]
  /\ scan = [s \in Scans |-> NoScan]
  /\ cooling = FALSE
  /\ changes = 0 /\ acts = 0 /\ failures = 0

OpenRows(k) == {n \in Rows : row[n].state = "open" /\ row[n].key = k}
Ignored(k) == \E n \in Rows : row[n].state = "ignored" /\ row[n].key = k

Close(n, resolution) == [row[n] EXCEPT !.state = resolution]

-----------------------------------------------------------------------------
(* A scan: _agent_scanner(), then run_scan().                              *)

\* The findings among these keys, in this order.
Found(keys) == SelectSeq(keys, LAMBDA k : k \in wrong)

CampaignFindings(c) ==
  Found(<<Silence(c), <<c, "performance_anomaly">>, <<c, "audience_fatigue">>>>)

\* The scheduler's job scans for no organisation in particular: its account findings
\* are not delivered.
AccountFindings(s) ==
  IF s \in Manual THEN Found([i \in DOMAIN AccountRules |-> <<Account, AccountRules[i]>>])
  ELSE <<>>

Becomes(s, new) == scan' = [scan EXCEPT ![s] = new]
At(s, pc) == [scan[s] EXCEPT !.pc = pc]

\* The next finding of the scan, or its end.
Onward(s, todo) ==
  [scan[s] EXCEPT !.todo = todo, !.id = None,
                  !.pc = IF todo # <<>> THEN "lock" ELSE "reconcile"]

\* deliver() returns.
Delivered(s) == Onward(s, Tail(scan[s].todo))

Start(s) ==
  /\ scan[s].pc = "idle"
  /\ s \in Manual => ~cooling /\ \A t \in Manual : scan[t].pc = "idle"
  /\ Becomes(s, [NoScan EXCEPT !.pc = "reading", !.unread = Campaigns])
  /\ UNCHANGED <<wrong, row, cooling, counters>>

\* A campaign whose metrics are read gives findings, and is normal if it delivers.
ReadCampaign(s, c) ==
  /\ scan[s].pc = "reading"
  /\ c \in scan[s].unread
  /\ Becomes(s, [scan[s] EXCEPT !.unread = @ \ {c},
                                !.todo = @ \o CampaignFindings(c),
                                !.normals = @ \cup ({Silence(c)} \ wrong)])
  /\ UNCHANGED <<wrong, row, cooling, counters>>

\* A campaign that cannot be read is neither a finding nor normal.
ReadFails(s, c) ==
  /\ scan[s].pc = "reading"
  /\ c \in scan[s].unread
  /\ failures < MaxFailures
  /\ failures' = failures + 1
  /\ Becomes(s, [scan[s] EXCEPT !.unread = @ \ {c}])
  /\ UNCHANGED <<wrong, row, cooling, changes, acts>>

ReadAccount(s) ==
  /\ scan[s].pc = "reading"
  /\ scan[s].unread = {}
  /\ Becomes(s, Onward(s, scan[s].todo \o AccountFindings(s)))
  /\ UNCHANGED <<wrong, row, cooling, counters>>

\* The account cannot be read: no finding.
ReadAccountFails(s) ==
  /\ scan[s].pc = "reading"
  /\ scan[s].unread = {}
  /\ failures < MaxFailures
  /\ failures' = failures + 1
  /\ Becomes(s, Onward(s, scan[s].todo))
  /\ UNCHANGED <<wrong, row, cooling, changes, acts>>

-----------------------------------------------------------------------------
(* PanelNotificationSink: one finding, under the lock of its dedup key.    *)

Holding == {"ignored", "state", "consult", "normal", "write"}
Locked(k) == \E s \in Scans : scan[s].pc \in Holding /\ Head(scan[s].todo) = k

\* Mutant: a lock per sink instead of one for the process.
EnterUnlocked(s) ==
  /\ scan[s].pc = "lock"
  /\ Becomes(s, At(s, "ignored"))
  /\ UNCHANGED <<wrong, row, cooling, counters>>

Enter(s) ==
  /\ scan[s].pc = "lock"
  /\ ~Locked(Head(scan[s].todo))
  /\ Becomes(s, At(s, "ignored"))
  /\ UNCHANGED <<wrong, row, cooling, counters>>

\* Mutant: any closed notification of the key suppresses it.
AskClosed(s) ==
  LET k == Head(scan[s].todo) IN
  /\ scan[s].pc = "ignored"
  /\ Becomes(s, IF \E n \in Rows : row[n].state \in Closed /\ row[n].key = k
                THEN Delivered(s) ELSE At(s, "state"))
  /\ UNCHANGED <<wrong, row, cooling, counters>>

\* has_ignored()
AskIgnored(s) ==
  /\ scan[s].pc = "ignored"
  /\ Becomes(s, IF Ignored(Head(scan[s].todo)) THEN Delivered(s) ELSE At(s, "state"))
  /\ UNCHANGED <<wrong, row, cooling, counters>>

\* A finding about a campaign is checked once more, one about the account is not.
Check(k) == IF k[1] = Account THEN "write" ELSE "consult"

\* open_state(): an open notification that is unread, or not yet old enough, stays
\* as it is.
AskState(s) ==
  LET k == Head(scan[s].todo) IN
  /\ scan[s].pc = "state"
  /\ IF OpenRows(k) = {}
     THEN Becomes(s, At(s, Check(k)))
     ELSE \E n \in OpenRows(k) :
            Becomes(s, IF row[n].read /\ row[n].cooled
                       THEN [At(s, Check(k)) EXCEPT !.id = n]
                       ELSE Delivered(s))
  /\ UNCHANGED <<wrong, row, cooling, counters>>

\* advisor.consult() looks at impressions only, whatever the anomaly was.
ConsultFinds(s) ==
  LET k == Head(scan[s].todo) IN
  /\ scan[s].pc = "consult"
  /\ Becomes(s, CASE Silence(k[1]) \in wrong -> At(s, "write")
                  [] Silence(k[1]) \notin wrong /\ scan[s].id # None -> At(s, "normal")
                  [] OTHER -> Delivered(s))
  /\ UNCHANGED <<wrong, row, cooling, counters>>

ConsultFails(s) ==
  /\ scan[s].pc = "consult"
  /\ failures < MaxFailures
  /\ failures' = failures + 1
  /\ Becomes(s, Delivered(s))
  /\ UNCHANGED <<wrong, row, cooling, changes, acts>>

\* auto_resolve(): every open notification under these keys.
AutoResolve(keys) ==
  LET found == UNION {OpenRows(k) : k \in keys} IN
  row' = [n \in Rows |-> IF n \in found THEN Close(n, "auto_normal") ELSE row[n]]

CloseNormal(s) ==
  /\ scan[s].pc = "normal"
  /\ AutoResolve({Head(scan[s].todo)})
  /\ Becomes(s, Delivered(s))
  /\ UNCHANGED <<wrong, cooling, counters>>

\* followup(): the row is unread again, even if it has been closed meanwhile.
FollowUp(s) ==
  LET n == scan[s].id IN
  /\ scan[s].pc = "write"
  /\ n # None
  /\ row' = [row EXCEPT ![n].read = FALSE, ![n].cooled = FALSE]
  /\ Becomes(s, Delivered(s))
  /\ UNCHANGED <<wrong, cooling, counters>>

Unused == {n \in Rows : row[n].state = "absent"}

\* insert(): the partial unique index refuses a second open row (DedupRaceError).
Insert(s) ==
  LET k == Head(scan[s].todo) IN
  /\ scan[s].pc = "write"
  /\ scan[s].id = None
  /\ IF OpenRows(k) # {}
     THEN UNCHANGED row
     ELSE /\ Unused # {}
          /\ row' = [row EXCEPT ![Min(Unused)] = [NoRow EXCEPT !.state = "open", !.key = k]]
  /\ Becomes(s, Delivered(s))
  /\ UNCHANGED <<wrong, cooling, counters>>

\* Mutant: the normals of the scan are dropped.
ReconcileForgotten(s) ==
  /\ scan[s].pc = "reconcile"
  /\ Becomes(s, NoScan)
  /\ cooling' = (cooling \/ s \in Manual)
  /\ UNCHANGED <<wrong, row, counters>>

\* reconcile() with the normals of the scan's own reads, and the end of the scan.
Reconcile(s) ==
  /\ scan[s].pc = "reconcile"
  /\ AutoResolve(scan[s].normals)
  /\ Becomes(s, NoScan)
  /\ cooling' = (cooling \/ s \in Manual)
  /\ UNCHANGED <<wrong, counters>>

\* A store call of a delivery fails: deliver() reports it and the scan goes on; a
\* failing reconcile() ends the scan, and a scan by hand may be repeated at once.
StoreFails(s) ==
  /\ scan[s].pc \in Holding \cup {"reconcile"}
  /\ failures < MaxFailures
  /\ failures' = failures + 1
  /\ IF scan[s].pc = "reconcile"
     THEN Becomes(s, NoScan)
     ELSE Becomes(s, Delivered(s))
  /\ UNCHANGED <<wrong, row, cooling, changes, acts>>

-----------------------------------------------------------------------------
(* Users and the world.                                                    *)

Acts == acts < MaxActs /\ acts' = acts + 1

\* POST /notifications/read
MarkRead(n) ==
  /\ Acts
  /\ row[n].state # "absent" /\ ~row[n].read
  /\ row' = [row EXCEPT ![n].read = TRUE]
  /\ UNCHANGED <<wrong, scan, cooling, changes, failures>>

\* POST /notifications/{id}/resolve
Resolve(n, resolution) ==
  /\ Acts
  /\ row[n].state = "open"
  /\ row' = [row EXCEPT ![n] = Close(n, resolution)]
  /\ UNCHANGED <<wrong, scan, cooling, changes, failures>>

\* _resolve_campaign_notifications(), after an action on the campaign succeeded
ResolveByCampaign(c) ==
  LET found == UNION {OpenRows(<<c, x>>) : x \in Anomalies} IN
  /\ Acts
  /\ found # {}
  /\ row' = [n \in Rows |-> IF n \in found THEN Close(n, "actioned") ELSE row[n]]
  /\ UNCHANGED <<wrong, scan, cooling, changes, failures>>

WorldChanges(k) ==
  /\ changes < MaxChanges
  /\ changes' = changes + 1
  /\ wrong' = SymDiff(wrong, {k})
  /\ UNCHANGED <<row, scan, cooling, acts, failures>>

\* management_consult_cooldown_hours of a notification
CooldownEnds(n) ==
  /\ row[n].state = "open" /\ ~row[n].cooled
  /\ row' = [row EXCEPT ![n].cooled = TRUE]
  /\ UNCHANGED <<wrong, scan, cooling, counters>>

\* management_scan_manual_cooldown_seconds
ScanCooldownEnds ==
  /\ cooling
  /\ cooling' = FALSE
  /\ UNCHANGED <<wrong, row, scan, counters>>

-----------------------------------------------------------------------------
ScanStep(s) ==
  \/ \E c \in Campaigns : ReadCampaign(s, c) \/ ReadFails(s, c)
  \/ ReadAccount(s) \/ ReadAccountFails(s) \/ Enter(s) \/ AskIgnored(s) \/ AskState(s)
  \/ ConsultFinds(s) \/ ConsultFails(s) \/ CloseNormal(s) \/ FollowUp(s) \/ Insert(s)
  \/ Reconcile(s) \/ StoreFails(s)

Elsewhere ==
  \/ \E n \in Rows : MarkRead(n) \/ CooldownEnds(n)
  \/ \E n \in Rows, resolution \in {"ignored", "actioned"} : Resolve(n, resolution)
  \/ \E c \in Campaigns : ResolveByCampaign(c)
  \/ \E k \in Keys : WorldChanges(k)
  \/ ScanCooldownEnds

Next ==
  \/ \E s \in Scans : Start(s) \/ ScanStep(s)
  \/ Elsewhere

Spec == Init /\ [][Next]_vars

\* The scheduler starts its job again and again, the event loop runs every ready
\* coroutine, and every delivery releases the lock of its key.
Fairness ==
  /\ \A s \in Scheduled : WF_vars(Start(s))
  /\ \A s \in Scans : WF_vars(ScanStep(s)) /\ SF_vars(Enter(s))

FairSpec == Spec /\ Fairness

-----------------------------------------------------------------------------
(* Properties.                                                             *)

RowType ==
  [state : {"absent", "open"} \cup Closed, key : Keys \cup {NoRow.key},
   read : BOOLEAN, cooled : BOOLEAN]

ScanType ==
  [pc : Holding \cup {"idle", "reading", "lock", "reconcile"}, unread : SUBSET Campaigns,
   todo : Seq(Keys), normals : SUBSET Keys, id : Rows \cup {None}]

\* Every variable keeps its type; a scan that is delivering has a finding in hand.
TypeOK ==
  /\ wrong \subseteq Keys
  /\ row \in [Rows -> RowType]
  /\ scan \in [Scans -> ScanType]
  /\ \A s \in Scans : scan[s].pc \in Holding \cup {"lock"} => scan[s].todo # <<>>
  /\ cooling \in BOOLEAN
  /\ {changes, acts, failures} \subseteq Nat

\* The lock of a dedup key has one holder: what a delivery decided on has_ignored()
\* and open_state() is not overtaken by another delivery of the key before it writes.
OneDelivery ==
  \A s, t \in Scans :
    s # t /\ scan[s].pc \in Holding /\ scan[t].pc \in Holding
      => Head(scan[s].todo) # Head(scan[t].todo)

\* A follow-up lands on a notification that the user has read and whose cooldown has
\* passed, never on one that is still unread (panel_sink.py leaves an unread row
\* alone), although seconds of platform reads lie between looking and writing.
FollowUpsWereRead ==
  \A s \in Scans :
    scan[s].pc \in Holding /\ scan[s].id # None =>
      row[scan[s].id].read /\ row[scan[s].id].cooled

\* A campaign without impressions is brought to the user's attention by the scans,
\* unless the user has ignored it, whatever was closed or failed before.
SilenceIsReported ==
  \A c \in Campaigns :
    Silence(c) \in wrong ~>
      OpenRows(Silence(c)) # {} \/ Ignored(Silence(c)) \/ Silence(c) \notin wrong

\* A campaign that delivers again and goes on delivering keeps no open notification.
NormalIsCleared ==
  \A c \in Campaigns :
    <>[](Silence(c) \notin wrong) => <>[](OpenRows(Silence(c)) = {})

\* resolve_notification(): "ignored" suppresses every later notification of the key.
IgnoredIsFinal ==
  [][\A k \in Keys : Ignored(k) => OpenRows(k)' \subseteq OpenRows(k)]_vars
=============================================================================
