------------------------------- MODULE MCPanel ------------------------------
(***************************************************************************)
(* Instances for TLC of the two halves of the notification panel that meet *)
(* only in publish(): consultations (Consult), which change rows and       *)
(* publish, and the bells (Bells), which learn of it.  They share no       *)
(* state, so a behaviour is one of the first or one of the second.         *)
(***************************************************************************)
EXTENDS Bells

CONSTANTS Notes, Consults, MaxSessions, MaxClicks, MaxActs, MaxFailures,
          b1, b2, n1, n2, r1, r2

ASSUME PanelAssumption ==
  /\ Notes # {}
  /\ {MaxSessions, MaxClicks, MaxActs, MaxFailures} \subseteq Nat

VARIABLES panel, silent, note, session, cards, stranded, request, unannounced, clicks, acts,
          failures

C == INSTANCE Consult

cvars == <<silent, note, session, cards, stranded, request, unannounced, clicks, acts, failures>>

MCInit == panel \in {"bells", "consult"} /\ Init /\ C!Init

MCNext ==
  \/ panel = "bells" /\ Next /\ UNCHANGED <<panel, cvars>>
  \/ panel = "consult" /\ C!Next /\ UNCHANGED <<panel, vars>>

MCSpec == MCInit /\ [][MCNext]_<<panel, vars, cvars>> /\ (panel = "bells" => Fairness)

\* Every variable of Bells and of Consult keeps its type.
PanelTypeOK == TypeOK /\ C!TypeOK

\* consult_notification() announces what it changed, whichever way it ends.
ChangesAnnounced == C!ChangesAnnounced

\* release_consult_session() takes away nobody else's link.
PlanterIsLinked == C!PlanterIsLinked

\* No notification stays linked to a session without a card, unless the request that
\* linked it was cut short.
LinkedHasCard == C!LinkedHasCard
=============================================================================
