----------------------------- MODULE Escalation -----------------------------
(***************************************************************************)
(* The escalation ladder of one campaign (escalation.py): evaluations that *)
(* open a ladder, wait for a decision, climb to the next rung, or find the *)
(* campaign recovered or the ladder at its end; and the two hooks by which *)
(* a client reports that the action of a rung was executed or rejected.    *)
(*                                                                         *)
(* An evaluation suspends in the detector (a port, external), in every     *)
(* append to the audit log, which may raise, and in the agent that makes a *)
(* proposal, which never raises and may come back with nothing.  A run is  *)
(* one object that evaluations and hooks change in place; "save" matters   *)
(* only for a new one, which nobody finds before it is saved.              *)
(***************************************************************************)
EXTENDS Integers, Sequences

CONSTANTS
    Evals,      \* requests that may be in re_evaluate at a time
    Rungs,      \* length of the ladder (2 or 3 in ACTIVE_LADDERS)
    MaxRuns,    \* bound: ladders opened
    MaxLost     \* bound: appends to the audit log that raise

ASSUME EscalationAssumption ==
    /\ Rungs \in Nat \ {0}
    /\ MaxRuns \in Nat /\ MaxLost \in Nat

VARIABLES
    ladder,     \* the runs in the order they were opened
    known,      \* the store: indices of saved runs, in the order of their first save
    eval,       \* per request: where it is, its run, what it detected, the rung it asks for
    world,      \* the anomaly the campaign has: of the ladder, another one, or none
    fate,       \* per run and rung: what became of it
    lost,       \* appends that raised
    overlapped, \* two evaluations were under way at the same time
    outOfTurn   \* a hook came during an evaluation, or for a rung without an open proposal

vars == <<ladder, known, eval, world, fate, lost, overlapped, outOfTurn>>

Resting == [pc |-> "idle", run |-> 0, saw |-> "none", rung |-> 0]

Run == [status : {"active", "recovered", "exhausted"}, rung : 1..Rungs,
        decision : {"proposed", "executed", "rejected"}]

TypeOK ==
    /\ ladder \in Seq(Run)
    /\ Len(ladder) <= MaxRuns
    /\ known \in Seq(1..Len(ladder))
    /\ eval \in [Evals -> [pc : {"idle", "detect", "opening", "rank", "logging", "ending"},
                           run : 0..MaxRuns, saw : {"ladder", "other", "none"}, rung : 0..Rungs]]
    /\ world \in {"ladder", "other", "none"}
    /\ fate \in [1..MaxRuns -> [1..Rungs -> {"none", "empty", "open", "executed", "rejected"}]]
    /\ lost \in 0..MaxLost
    /\ overlapped \in BOOLEAN /\ outOfTurn \in BOOLEAN

Init ==
    /\ ladder = <<>> /\ known = <<>>
    /\ eval = [c \in Evals |-> Resting]
    /\ world \in {"ladder", "other", "none"}
    /\ fate = [i \in 1..MaxRuns |-> [k \in 1..Rungs |-> "none"]]
    /\ lost = 0 /\ overlapped = FALSE /\ outOfTurn = FALSE
-----------------------------------------------------------------------------
Active == {n \in 1..Len(known) : ladder[known[n]].status = "active"}

\* Mutant: only a run whose rung is undecided counts.
GetPending(i) ==
    LET pending == {n \in Active : ladder[known[n]].decision = "proposed"} IN
    \/ pending = {} /\ i = 0
    \/ \E n \in pending : i = known[n] /\ \A m \in pending : n <= m

\* get_active() answers i: the first active run that was saved, or none.
GetActive(i) ==
    \/ Active = {} /\ i = 0
    \/ \E n \in Active : i = known[n] /\ \A m \in Active : n <= m

Saved(i) == IF \E n \in 1..Len(known) : known[n] = i THEN known ELSE Append(known, i)

Become(c, e) == eval' = [eval EXCEPT ![c] = e]
Return(c) == Become(c, Resting)
Underway(c) == eval[c].pc # "idle"

\* Mutant: a rung the agent has nothing for ends the ladder.
EmptyEnds(i, empty) == empty \/ ladder[i].rung = Rungs
AtTheEnd(i, empty) == ladder[i].rung = Rungs

\* _advance() up to its next await: one rung up, or the end of the ladder.
Climb(c, i, saw, empty) ==
    IF AtTheEnd(i, empty)
    THEN /\ ladder' = [ladder EXCEPT ![i].status = "exhausted"]
         /\ known' = Saved(i)
         /\ Become(c, [pc |-> "ending", run |-> i, saw |-> saw, rung |-> 0])
    ELSE /\ ladder' = [ladder EXCEPT ![i].rung = @ + 1, ![i].decision = "proposed"]
         /\ Become(c, [pc |-> "logging", run |-> i, saw |-> saw, rung |-> 0])
         /\ UNCHANGED known

Empty(i, k) == fate' = [fate EXCEPT ![i][k] = "empty"]
-----------------------------------------------------------------------------
\* re_evaluate(): the run is looked up, then the detector is asked.
Evaluate(c) ==
    /\ ~Underway(c)
    /\ \E i \in 0..Len(ladder) :
           GetActive(i) /\ Become(c, [pc |-> "detect", run |-> i, saw |-> "none", rung |-> 0])
    /\ overlapped' = (overlapped \/ \E d \in Evals : Underway(d))
    /\ UNCHANGED <<ladder, known, world, fate, lost, outOfTurn>>

\* No run and an anomaly that has a ladder: a new run, logged before it is saved.
Open(c) ==
    /\ eval[c].pc = "detect" /\ eval[c].run = 0
    /\ IF world = "ladder"
       THEN /\ Len(ladder) < MaxRuns
            /\ ladder' = Append(ladder, [status |-> "active", rung |-> 1, decision |-> "proposed"])
            /\ Become(c, [pc |-> "opening", run |-> Len(ladder) + 1, saw |-> world, rung |-> 0])
       ELSE UNCHANGED ladder /\ Return(c)
    /\ UNCHANGED <<known, world, fate, lost, overlapped, outOfTurn>>

\* Mutant: a rung nobody has decided about is judged like one that was executed.
PendingIsExecuted(i) == ladder[i].decision \in {"proposed", "executed"}
IsExecuted(i) == ladder[i].decision = "executed"

\* A run: what was decided about its rung is read now, after the detector.
Judge(c) ==
    LET i == eval[c].run IN
    /\ eval[c].pc = "detect" /\ i # 0
    /\ \/ /\ ladder[i].decision = "proposed"
          /\ Return(c) /\ UNCHANGED <<ladder, known>>
       \/ ladder[i].decision = "rejected" /\ Climb(c, i, world, FALSE)
       \/ /\ IsExecuted(i) /\ world # "ladder"
          /\ ladder' = [ladder EXCEPT ![i].status = "recovered"]
          /\ Become(c, [pc |-> "ending", run |-> i, saw |-> world, rung |-> 0])
          /\ UNCHANGED known
       \/ IsExecuted(i) /\ world = "ladder" /\ Climb(c, i, world, FALSE)
    /\ UNCHANGED <<world, fate, lost, overlapped, outOfTurn>>

\* The append before a proposal is done.  Without a diagnosis there is nothing to
\* propose, for this rung or the next.
Logged(c) ==
    LET i == eval[c].run IN
    /\ eval[c].pc \in {"opening", "logging"}
    /\ IF eval[c].saw # "none"
       THEN /\ Become(c, [eval[c] EXCEPT !.pc = "rank", !.rung = ladder[i].rung])
            /\ UNCHANGED <<ladder, known, fate>>
       ELSE Empty(i, ladder[i].rung) /\ Climb(c, i, "none", TRUE)
    /\ UNCHANGED <<world, lost, overlapped, outOfTurn>>

\* The agent has a proposal: the run is saved.  _propose_current() sets the decision
\* back to "proposed" once more; after _advance() it stays what it is by now.
Proposed(c) ==
    LET i == eval[c].run IN
    /\ eval[c].pc = "rank"
    /\ ladder' = [ladder EXCEPT ![i].decision = IF eval[c].rung = 1 THEN "proposed" ELSE @]
    /\ known' = Saved(i)
    /\ fate' = [fate EXCEPT ![i][eval[c].rung] = "open"]
    /\ Return(c)
    /\ UNCHANGED <<world, lost, overlapped, outOfTurn>>

\* Mutant: a rung without a proposal waits like one that has one.
NothingToProposeWaits(c) ==
    /\ eval[c].pc = "rank"
    /\ Empty(eval[c].run, eval[c].rung)
    /\ known' = Saved(eval[c].run)
    /\ Return(c)
    /\ UNCHANGED <<ladder, world, lost, overlapped, outOfTurn>>

\* The agent has none.
NothingToPropose(c) ==
    /\ eval[c].pc = "rank"
    /\ Empty(eval[c].run, eval[c].rung)
    /\ Climb(c, eval[c].run, eval[c].saw, TRUE)
    /\ UNCHANGED <<world, lost, overlapped, outOfTurn>>

\* The last append of a ladder that ended.
Ended(c) ==
    /\ eval[c].pc = "ending"
    /\ Return(c)
    /\ UNCHANGED <<ladder, known, world, fate, lost, overlapped, outOfTurn>>

\* An append raises: the request ends where it is.
LogFails(c) ==
    /\ eval[c].pc \in {"opening", "logging", "ending"}
    /\ lost < MaxLost /\ lost' = lost + 1
    /\ Return(c)
    /\ UNCHANGED <<ladder, known, world, fate, overlapped, outOfTurn>>
-----------------------------------------------------------------------------
\* on_executed(), on_rejected(): whatever rung the run has reached by now.
Report(i, decision) ==
    LET k == ladder[i].rung IN
    /\ \E n \in 1..Len(known) : known[n] = i
    /\ ladder[i].status = "active"
    /\ ladder' = [ladder EXCEPT ![i].decision = decision]
    /\ fate' = [fate EXCEPT ![i][k] = IF @ = "open" THEN decision ELSE @]
    /\ outOfTurn' = (outOfTurn \/ fate[i][k] # "open" \/ \E c \in Evals : Underway(c))
    /\ UNCHANGED <<known, eval, world, lost, overlapped>>

\* The campaign gets better or worse.
WorldChanges ==
    /\ world' \in {"ladder", "other", "none"} \ {world}
    /\ UNCHANGED <<ladder, known, eval, fate, lost, overlapped, outOfTurn>>

Continue(c) ==
    Open(c) \/ Judge(c) \/ Logged(c) \/ Proposed(c) \/ NothingToPropose(c) \/ Ended(c)

Next ==
    \/ \E c \in Evals : Evaluate(c) \/ Continue(c) \/ LogFails(c)
    \/ \E i \in 1..Len(ladder), d \in {"executed", "rejected"} : Report(i, d)
    \/ WorldChanges

Spec == Init /\ [][Next]_vars
-----------------------------------------------------------------------------
AtRest == \A c \in Evals : ~Underway(c)
Decided == {"empty", "executed", "rejected"}

\* One evaluation at a time, however hooks come and appends fail, leaves a campaign
\* at most one active ladder ("캠페인당 active 1건", escalation.py:78).  Overlapping
\* evaluations open two.
OneLadder == ~overlapped => \A n, m \in Active : n = m

\* With hooks in turn and appends that succeed, an evaluation that answers PENDING
\* waits for somebody: there is a proposal for the rung the run has reached
\* ("승인/거절 대기", escalation.py:70).  After a lost append there is none.
PendingHasProposal ==
    ~overlapped /\ ~outOfTurn /\ lost = 0 /\ AtRest =>
        \A n \in Active : LET i == known[n] IN
            ladder[i].decision = "proposed" => fate[i][ladder[i].rung] = "open"

\* With hooks in turn, no rung is left undecided: a ladder passes a rung that was
\* executed, rejected or had no proposal, ends when all did, and is recovered on a
\* rung that was executed.
NoRungSkipped ==
    ~overlapped /\ ~outOfTurn =>
        \A i \in 1..Len(ladder) :
            /\ \A k \in 1..(ladder[i].rung - 1) : fate[i][k] \in Decided
            /\ ladder[i].status = "exhausted" => fate[i][Rungs] \in Decided
            /\ ladder[i].status = "recovered" => fate[i][ladder[i].rung] = "executed"
=============================================================================
