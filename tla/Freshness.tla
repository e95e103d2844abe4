------------------------------ MODULE Freshness -----------------------------
(***************************************************************************)
(* What the notification bells promise, whatever carries the signals: a    *)
(* list that is shown is out of date from a change on until a newer one is *)
(* shown, and a bell that is watching does not stay out of date.           *)
(***************************************************************************)
CONSTANT Bells

VARIABLES
  current,   \* bells whose list is that of the last change
  watching   \* bells to which the promise is made

vars == <<current, watching>>

Init == current \subseteq Bells /\ watching \subseteq Bells

Change == current' = {} /\ UNCHANGED watching

Show(b) == current' = current \cup {b} /\ UNCHANGED watching

Watch(W) == watching' = W /\ UNCHANGED current

Next ==
  \/ Change
  \/ \E b \in Bells : Show(b)
  \/ \E W \in SUBSET Bells : Watch(W)

Spec ==
  /\ Init /\ [][Next]_vars
  /\ \A b \in Bells : WF_vars(b \in watching /\ Show(b))
=============================================================================
