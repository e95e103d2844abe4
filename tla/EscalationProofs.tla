-------------------------- MODULE EscalationProofs --------------------------
(***************************************************************************)
(* Theorems about Escalation: one active ladder, a proposal behind every   *)
(* pending rung, and no rung skipped, for any number of requests, rungs,   *)
(* ladders and lost appends.                                               *)
(*                                                                         *)
(* What an evaluation found when it looked the run up stays true until it  *)
(* returns, because only evaluations open, climb or end a ladder (Mine);   *)
(* and what a rung's decision says agrees with what became of the rung     *)
(* (Told), because a hook in turn answers an open proposal.                *)
(***************************************************************************)
EXTENDS Escalation, TLAPS

\* An evaluation past the detector has a run.
HasRun == \A c \in Evals :
    /\ eval[c].run \in 0..Len(ladder)
    /\ eval[c].pc \notin {"idle", "detect"} => eval[c].run # 0

SavedOnce == \A n, m \in 1..Len(known) : known[n] = known[m] => n = m

Alone == \A c, d \in Evals : Underway(c) /\ Underway(d) => c = d

\* While an evaluation is under way, no ladder but its own is active.
Mine == \A c \in Evals : Underway(c) => \A n \in Active : known[n] = eval[c].run

Serial == ~overlapped => Alone /\ Mine

Shape == TypeOK /\ HasRun /\ SavedOnce
-----------------------------------------------------------------------------
(* Types and shapes.                                                       *)

LEMMA InitShape == Init => Shape /\ Serial /\ OneLadder
<1> SUFFICES ASSUME Init PROVE Shape /\ Serial /\ OneLadder
  OBVIOUS
<1> USE DEF Init
<1>1. Len(known) = 0 /\ Len(ladder) = 0 /\ Active = {}
  BY DEF Active
<1>2. TypeOK
  <2>1. ladder \in Seq(Run) /\ known \in Seq(1..Len(ladder)) /\ Len(ladder) <= MaxRuns
    BY <1>1, EscalationAssumption DEF EscalationAssumption
  <2>2. /\ 0 \in 0..MaxRuns /\ 0 \in 0..Rungs /\ 0 \in 0..MaxLost
    BY EscalationAssumption DEF EscalationAssumption
  <2> QED BY <2>1, <2>2 DEF TypeOK, Resting
<1>3. HasRun /\ SavedOnce
  BY <1>1 DEF HasRun, SavedOnce, Resting
<1>4. Serial /\ OneLadder
  BY <1>1 DEF Serial, Alone, Mine, OneLadder, Underway, Resting
<1> QED BY <1>2, <1>3, <1>4 DEF Shape

\* Saving a run keeps the store a list of runs without repetitions.
LEMMA SavedShape ==
  ASSUME Shape, NEW i \in 1..Len(ladder)
  PROVE  /\ Saved(i) \in Seq(1..Len(ladder))
         /\ \A n, m \in 1..Len(Saved(i)) : Saved(i)[n] = Saved(i)[m] => n = m
         /\ \A n \in 1..Len(Saved(i)) : Saved(i)[n] = i \/ (n \in 1..Len(known) /\ Saved(i)[n] = known[n])
<1>0. known \in Seq(1..Len(ladder)) BY DEF Shape, TypeOK
<1>1. CASE \E n \in 1..Len(known) : known[n] = i
  <2>1. Saved(i) = known BY <1>1 DEF Saved
  <2> QED BY <1>0, <2>1 DEF Shape, SavedOnce
<1>2. CASE ~\E n \in 1..Len(known) : known[n] = i
  <2>1. Saved(i) = Append(known, i) BY <1>2 DEF Saved
  <2>2. /\ Saved(i) \in Seq(1..Len(ladder)) /\ Len(Saved(i)) = Len(known) + 1
        /\ \A n \in 1..Len(known) : Saved(i)[n] = known[n]
        /\ Saved(i)[Len(known) + 1] = i
    BY <1>0, <2>1
  <2>3. \A n \in 1..Len(Saved(i)) : n \in 1..Len(known) \/ n = Len(known) + 1
    BY <1>0, <2>2
  <2> QED BY <1>2, <2>2, <2>3 DEF Shape, SavedOnce
<1> QED BY <1>1, <1>2

\* What a step leaves of the shape: the list of ladders and the store.
Shaped ==
    /\ ladder' \in Seq(Run)
    /\ Len(ladder') \in Len(ladder)..MaxRuns
    /\ known' \in Seq(1..Len(ladder')) /\ SavedOnce'

\* A request that goes on, or returns, with its own run.
Turns(c) == \E e \in [pc : {"idle", "detect", "opening", "rank", "logging", "ending"},
                      run : 0..Len(ladder'), saw : {"ladder", "other", "none"}, rung : 0..Rungs] :
    /\ eval' = [eval EXCEPT ![c] = e]
    /\ e.pc \notin {"idle", "detect"} => e.run # 0

\* A request that goes on.
LEMMA BecomeTurns ==
  ASSUME Shape, NEW c \in Evals, NEW i \in 1..Len(ladder), NEW saw \in {"ladder", "other", "none"},
         NEW pc \in {"opening", "logging", "ending"}, NEW k \in 0..Rungs,
         Become(c, [pc |-> pc, run |-> i, saw |-> saw, rung |-> k]), Len(ladder') = Len(ladder)
  PROVE  Turns(c)
<1> DEFINE e == [pc |-> pc, run |-> i, saw |-> saw, rung |-> k]
<1>1. e \in [pc : {"idle", "detect", "opening", "rank", "logging", "ending"},
             run : 0..Len(ladder'), saw : {"ladder", "other", "none"}, rung : 0..Rungs]
  OBVIOUS
<1>2. e.pc \notin {"idle", "detect"} => e.run # 0
  BY DEF Shape, TypeOK
<1> QED BY <1>1, <1>2 DEF Turns, Become

\* A ladder that is replaced by another.
LEMMA ReplaceRun ==
  ASSUME Shape, NEW i \in 1..Len(ladder), NEW r \in Run
  PROVE  [ladder EXCEPT ![i] = r] \in Seq(Run) /\ Len([ladder EXCEPT ![i] = r]) = Len(ladder)
<1>1. ladder \in Seq(Run) BY DEF Shape, TypeOK
<1> QED BY <1>1

LEMMA Lists ==
  ASSUME Shape
  PROVE  /\ ladder \in Seq(Run) /\ known \in Seq(1..Len(ladder)) /\ SavedOnce
         /\ Len(ladder) \in Nat /\ Len(ladder) <= MaxRuns
         /\ \A i \in 1..Len(ladder) : ladder[i] \in Run
         /\ \A i \in 1..Len(ladder) :
               ladder[i].status \in {"active", "recovered", "exhausted"} /\ ladder[i].rung \in 1..Rungs
<1>1. ladder \in Seq(Run) /\ known \in Seq(1..Len(ladder)) /\ SavedOnce /\ Len(ladder) <= MaxRuns
  BY DEF Shape, TypeOK
<1>2. Len(ladder) \in Nat /\ \A i \in 1..Len(ladder) : ladder[i] \in Run
  BY <1>1
<1> QED BY <1>1, <1>2 DEF Run

LEMMA ClimbShape ==
  ASSUME Shape, NEW c \in Evals, NEW i \in 1..Len(ladder), NEW saw \in {"ladder", "other", "none"},
         NEW empty, Climb(c, i, saw, empty)
  PROVE  Shaped /\ Len(ladder') = Len(ladder) /\ Turns(c)
<1>0. 0 \in 0..Rungs
  BY EscalationAssumption DEF EscalationAssumption
<1>1. CASE AtTheEnd(i, empty)
  <2>1. known' = Saved(i) /\ ladder' = [ladder EXCEPT ![i].status = "exhausted"]
    BY <1>1 DEF Climb
  <2>2. [ladder[i] EXCEPT !.status = "exhausted"] \in Run
    BY Lists DEF Run
  <2>3. ladder' \in Seq(Run) /\ Len(ladder') = Len(ladder)
    BY <2>1, <2>2, ReplaceRun, Lists
  <2>4. SavedOnce' BY <2>1, SavedShape DEF SavedOnce
  <2>5. Shaped BY <2>1, <2>3, <2>4, SavedShape, Lists, EscalationAssumption DEF Shaped, EscalationAssumption
  <2>6. Turns(c)
    BY <1>1, <1>0, <2>3, BecomeTurns DEF Climb
  <2> QED BY <2>3, <2>5, <2>6
<1>2. CASE ~AtTheEnd(i, empty)
  <2>1. /\ ladder' = [ladder EXCEPT ![i] = [ladder[i] EXCEPT !.rung = @ + 1, !.decision = "proposed"]]
        /\ UNCHANGED known
    BY <1>2 DEF Climb
  <2>2. ladder[i].rung \in 1..Rungs /\ ladder[i].rung # Rungs
    BY <1>2, Lists DEF AtTheEnd
  <2>3. ladder[i].rung + 1 \in 1..Rungs
    BY <2>2, EscalationAssumption DEF EscalationAssumption
  <2>4. [ladder[i] EXCEPT !.rung = @ + 1, !.decision = "proposed"] \in Run
    BY <2>3, Lists DEF Run
  <2>5. ladder' \in Seq(Run) /\ Len(ladder') = Len(ladder)
    BY <2>1, <2>4, ReplaceRun
  <2>6. Shaped BY <2>1, <2>5, Lists, EscalationAssumption DEF Shaped, SavedOnce, EscalationAssumption
  <2>7. Turns(c)
    BY <1>0, <1>2, <2>5, BecomeTurns DEF Climb
  <2> QED BY <2>5, <2>6, <2>7
<1> QED BY <1>1, <1>2

\* A step that leaves the list and the store in shape and moves one request.
LEMMA TurnShape ==
  ASSUME Shape, Shaped, NEW c \in Evals, Turns(c),
         world' \in {"ladder", "other", "none"}, lost' \in 0..MaxLost,
         overlapped' \in BOOLEAN, outOfTurn' \in BOOLEAN,
         fate' \in [1..MaxRuns -> [1..Rungs -> {"none", "empty", "open", "executed", "rejected"}]]
  PROVE  Shape'
<1> PICK e \in [pc : {"idle", "detect", "opening", "rank", "logging", "ending"},
                run : 0..Len(ladder'), saw : {"ladder", "other", "none"}, rung : 0..Rungs] :
        eval' = [eval EXCEPT ![c] = e] /\ (e.pc \notin {"idle", "detect"} => e.run # 0)
  BY DEF Turns
<1>1. Len(ladder') \in Nat /\ Len(ladder') <= MaxRuns /\ Len(ladder) <= Len(ladder')
  BY EscalationAssumption DEF Shaped, EscalationAssumption, Shape, TypeOK
<1>2. e.run \in 0..MaxRuns
  BY <1>1, EscalationAssumption DEF EscalationAssumption
<1>3. TypeOK'
  BY <1>1, <1>2 DEF Shape, Shaped, TypeOK
<1>4. HasRun'
  BY <1>1 DEF Shape, TypeOK, HasRun
<1> QED BY <1>3, <1>4 DEF Shape, Shaped

\* A request is looked up.
LEMMA EvaluateShape ==
  ASSUME Shape, NEW c \in Evals, Evaluate(c)
  PROVE  Shape'
<1>1. PICK i \in 0..Len(ladder) : Become(c, [pc |-> "detect", run |-> i, saw |-> "none", rung |-> 0])
  BY DEF Evaluate
<1>2. 0 \in 0..Rungs
  BY EscalationAssumption DEF EscalationAssumption
<1>3. Shaped BY Lists, EscalationAssumption DEF Evaluate, Shaped, SavedOnce, EscalationAssumption
<1>4. Turns(c)
  <2> DEFINE e == [pc |-> "detect", run |-> i, saw |-> "none", rung |-> 0]
  <2>1. e \in [pc : {"idle", "detect", "opening", "rank", "logging", "ending"},
               run : 0..Len(ladder'), saw : {"ladder", "other", "none"}, rung : 0..Rungs]
    BY <1>2 DEF Evaluate
  <2> QED BY <1>1, <2>1 DEF Turns, Become
<1> QED BY <1>3, <1>4, TurnShape DEF Evaluate, Shape, TypeOK

\* A request that returns.
LEMMA ReturnTurns ==
  ASSUME NEW c \in Evals, Return(c), Len(ladder') \in Nat
  PROVE  Turns(c)
<1>1. Resting \in [pc : {"idle", "detect", "opening", "rank", "logging", "ending"},
                   run : 0..Len(ladder'), saw : {"ladder", "other", "none"}, rung : 0..Rungs]
  BY EscalationAssumption DEF Resting, EscalationAssumption
<1> QED BY <1>1 DEF Turns, Return, Become, Resting

LEMMA OpenShape ==
  ASSUME Shape, NEW c \in Evals, Open(c)
  PROVE  Shape'
<1>1. CASE world = "ladder"
  <2> DEFINE r == [status |-> "active", rung |-> 1, decision |-> "proposed"]
             e == [pc |-> "opening", run |-> Len(ladder) + 1, saw |-> world, rung |-> 0]
  <2>1. ladder' = Append(ladder, r) /\ eval' = [eval EXCEPT ![c] = e] /\ Len(ladder) < MaxRuns
    BY <1>1 DEF Open, Become
  <2>2. r \in Run
    BY EscalationAssumption DEF Run, EscalationAssumption
  <2>3. ladder' \in Seq(Run) /\ Len(ladder') = Len(ladder) + 1
    BY <2>1, <2>2, Lists
  <2>4. known' \in Seq(1..Len(ladder'))
    BY <2>3, Lists DEF Open
  <2>5. Shaped BY <2>1, <2>3, <2>4, Lists, EscalationAssumption DEF Open, Shaped, SavedOnce, EscalationAssumption
  <2>6. e \in [pc : {"idle", "detect", "opening", "rank", "logging", "ending"},
               run : 0..Len(ladder'), saw : {"ladder", "other", "none"}, rung : 0..Rungs]
    BY <1>1, <2>3, Lists, EscalationAssumption DEF EscalationAssumption
  <2>7. e.run # 0 BY Lists
  <2>8. Turns(c) BY <2>1, <2>6, <2>7 DEF Turns
  <2> QED BY <2>5, <2>8, TurnShape DEF Open, Shape, TypeOK
<1>2. CASE world # "ladder"
  <2>1. UNCHANGED <<ladder, known>> /\ Return(c) BY <1>2 DEF Open
  <2>2. Shaped BY <2>1, Lists, EscalationAssumption DEF Shaped, SavedOnce, EscalationAssumption
  <2>3. Turns(c) BY <2>1, Lists, ReturnTurns
  <2> QED BY <2>2, <2>3, TurnShape DEF Open, Shape, TypeOK
<1> QED BY <1>1, <1>2

\* Past the detector, and in it once a run was found.
LEMMA OwnRun ==
  ASSUME Shape, NEW c \in Evals, eval[c].pc \notin {"idle", "detect"} \/ eval[c].run # 0
  PROVE  eval[c].run \in 1..Len(ladder)
BY Lists DEF Shape, HasRun

LEMMA JudgeShape ==
  ASSUME Shape, NEW c \in Evals, Judge(c)
  PROVE  Shape'
<1> DEFINE i == eval[c].run
<1>1. i \in 1..Len(ladder) BY OwnRun DEF Judge
<1>2. world \in {"ladder", "other", "none"} /\ 0 \in 0..Rungs
  BY EscalationAssumption DEF Shape, TypeOK, EscalationAssumption
<1>3. CASE Return(c) /\ UNCHANGED <<ladder, known>>
  <2>1. Shaped BY <1>3, Lists, EscalationAssumption DEF Shaped, SavedOnce, EscalationAssumption
  <2>2. Turns(c) BY <1>3, Lists, ReturnTurns
  <2> QED BY <2>1, <2>2, TurnShape DEF Judge, Shape, TypeOK
<1>4. CASE Climb(c, i, world, FALSE)
  BY <1>1, <1>2, <1>4, ClimbShape, TurnShape DEF Judge, Shape, TypeOK
<1>5. CASE /\ ladder' = [ladder EXCEPT ![i].status = "recovered"]
           /\ Become(c, [pc |-> "ending", run |-> i, saw |-> world, rung |-> 0])
           /\ UNCHANGED known
  <2>1. [ladder[i] EXCEPT !.status = "recovered"] \in Run
    BY <1>1, Lists DEF Run
  <2>2. ladder' \in Seq(Run) /\ Len(ladder') = Len(ladder)
    BY <1>1, <1>5, <2>1, ReplaceRun, Lists
  <2>3. Shaped BY <1>5, <2>2, Lists, EscalationAssumption DEF Shaped, SavedOnce, EscalationAssumption
  <2>4. Turns(c) BY <1>1, <1>2, <1>5, <2>2, BecomeTurns
  <2> QED BY <2>3, <2>4, TurnShape DEF Judge, Shape, TypeOK
<1> QED BY <1>3, <1>4, <1>5 DEF Judge

\* What became of a rung of a run.
LEMMA FateShape ==
  ASSUME Shape, NEW i \in 1..Len(ladder), NEW k, NEW f \in {"none", "empty", "open", "executed", "rejected"},
         fate' = [fate EXCEPT ![i][k] = f]
  PROVE  fate' \in [1..MaxRuns -> [1..Rungs -> {"none", "empty", "open", "executed", "rejected"}]]
<1>1. i \in 1..MaxRuns BY Lists, EscalationAssumption DEF EscalationAssumption
<1> QED BY <1>1 DEF Shape, TypeOK

LEMMA LoggedShape ==
  ASSUME Shape, NEW c \in Evals, Logged(c)
  PROVE  Shape'
<1> DEFINE i == eval[c].run
<1>1. i \in 1..Len(ladder) BY OwnRun DEF Logged
<1>2. eval[c].saw \in {"ladder", "other", "none"} BY DEF Shape, TypeOK
<1>3. CASE eval[c].saw # "none"
  <2> DEFINE e == [eval[c] EXCEPT !.pc = "rank", !.rung = ladder[i].rung]
  <2>1. eval' = [eval EXCEPT ![c] = e] /\ UNCHANGED <<ladder, known, fate>>
    BY <1>3 DEF Logged, Become
  <2>2. ladder[i].rung \in 0..Rungs
    BY <1>1, Lists, EscalationAssumption DEF EscalationAssumption
  <2>3. e \in [pc : {"idle", "detect", "opening", "rank", "logging", "ending"},
               run : 0..Len(ladder'), saw : {"ladder", "other", "none"}, rung : 0..Rungs]
    <3>1. eval[c].run \in 0..Len(ladder') BY <1>1, <2>1, Lists
    <3>2. eval[c] \in [pc : {"idle", "detect", "opening", "rank", "logging", "ending"},
                       run : 0..MaxRuns, saw : {"ladder", "other", "none"}, rung : 0..Rungs]
      BY DEF Shape, TypeOK
    <3> QED BY <2>2, <3>1, <3>2
  <2>4. e.run # 0 BY <1>1 DEF Shape, TypeOK
  <2>5. Turns(c) BY <2>1, <2>3, <2>4 DEF Turns
  <2>6. Shaped BY <2>1, Lists, EscalationAssumption DEF Shaped, SavedOnce, EscalationAssumption
  <2> QED BY <2>1, <2>5, <2>6, TurnShape DEF Logged, Shape, TypeOK
<1>4. CASE Empty(i, ladder[i].rung) /\ Climb(c, i, "none", TRUE)
  <2>1. fate' \in [1..MaxRuns -> [1..Rungs -> {"none", "empty", "open", "executed", "rejected"}]]
    BY <1>1, <1>4, FateShape DEF Empty
  <2> QED BY <1>1, <1>4, <2>1, ClimbShape, TurnShape DEF Logged, Shape, TypeOK
<1> QED BY <1>3, <1>4 DEF Logged

LEMMA ProposedShape ==
  ASSUME Shape, NEW c \in Evals, Proposed(c)
  PROVE  Shape'
<1> DEFINE i == eval[c].run
           d == IF eval[c].rung = 1 THEN "proposed" ELSE ladder[i].decision
<1>1. i \in 1..Len(ladder) BY OwnRun DEF Proposed
<1>2. [ladder[i] EXCEPT !.decision = d] \in Run
  BY <1>1, Lists DEF Run
<1>3. ladder' = [ladder EXCEPT ![i] = [ladder[i] EXCEPT !.decision = d]]
  BY DEF Proposed
<1>4. ladder' \in Seq(Run) /\ Len(ladder') = Len(ladder)
  BY <1>1, <1>2, <1>3, ReplaceRun
<1>5. SavedOnce' BY <1>1, SavedShape DEF Proposed, SavedOnce
<1>6. known' \in Seq(1..Len(ladder'))
  BY <1>1, <1>4, SavedShape DEF Proposed
<1>7. Shaped BY <1>4, <1>5, <1>6, Lists, EscalationAssumption DEF Shaped, EscalationAssumption
<1>8. Turns(c) BY <1>4, Lists, ReturnTurns DEF Proposed
<1>9. fate' \in [1..MaxRuns -> [1..Rungs -> {"none", "empty", "open", "executed", "rejected"}]]
  BY <1>1, FateShape DEF Proposed
<1> QED BY <1>7, <1>8, <1>9, TurnShape DEF Proposed, Shape, TypeOK

LEMMA NothingShape ==
  ASSUME Shape, NEW c \in Evals, NothingToPropose(c)
  PROVE  Shape'
<1>1. eval[c].run \in 1..Len(ladder) BY OwnRun DEF NothingToPropose
<1>2. eval[c].saw \in {"ladder", "other", "none"} BY DEF Shape, TypeOK
<1>3. fate' \in [1..MaxRuns -> [1..Rungs -> {"none", "empty", "open", "executed", "rejected"}]]
  BY <1>1, FateShape DEF NothingToPropose, Empty
<1> QED BY <1>1, <1>2, <1>3, ClimbShape, TurnShape DEF NothingToPropose, Shape, TypeOK

\* A request that ends, or whose append raises.
LEMMA EndShape ==
  ASSUME Shape, NEW c \in Evals, Ended(c) \/ LogFails(c)
  PROVE  Shape'
<1>1. Shaped BY Lists, EscalationAssumption DEF Ended, LogFails, Shaped, SavedOnce, EscalationAssumption
<1>2. Turns(c) BY Lists, ReturnTurns DEF Ended, LogFails
<1>3. lost' \in 0..MaxLost
  BY EscalationAssumption DEF Ended, LogFails, Shape, TypeOK, EscalationAssumption
<1> QED BY <1>1, <1>2, <1>3, TurnShape DEF Ended, LogFails, Shape, TypeOK

\* A hook, or a campaign that gets better or worse.
LEMMA ReportShape ==
  ASSUME Shape, NEW i \in 1..Len(ladder), NEW d \in {"executed", "rejected"}, Report(i, d)
  PROVE  Shape'
<1>1. [ladder[i] EXCEPT !.decision = d] \in Run
  BY Lists DEF Run
<1>2. ladder' \in Seq(Run) /\ Len(ladder') = Len(ladder)
  BY <1>1, ReplaceRun, Lists DEF Report
<1>3. i \in 1..MaxRuns BY Lists, EscalationAssumption DEF EscalationAssumption
<1>4. ladder[i].rung \in 1..Rungs BY Lists
<1>5. fate[i][ladder[i].rung] \in {"none", "empty", "open", "executed", "rejected"}
  BY <1>3, <1>4 DEF Shape, TypeOK
<1>6. fate' \in [1..MaxRuns -> [1..Rungs -> {"none", "empty", "open", "executed", "rejected"}]]
  BY <1>3, <1>4, <1>5 DEF Report, Shape, TypeOK
<1>7. outOfTurn' \in BOOLEAN
  BY DEF Report, Shape, TypeOK
<1> QED BY <1>2, <1>6, <1>7 DEF Report, Shape, TypeOK, HasRun, SavedOnce

LEMMA NextShape == Shape /\ [Next]_vars => Shape'
<1> SUFFICES ASSUME Shape, [Next]_vars PROVE Shape'
  OBVIOUS
<1>1. CASE UNCHANGED vars
  BY <1>1 DEF vars, Shape, TypeOK, HasRun, SavedOnce
<1>2. CASE WorldChanges
  BY <1>2 DEF WorldChanges, Shape, TypeOK, HasRun, SavedOnce
<1> QED
  BY <1>1, <1>2, EvaluateShape, OpenShape, JudgeShape, LoggedShape, ProposedShape, NothingShape,
     EndShape, ReportShape DEF Next, Continue

\* The variables keep their types, and no ladder is saved twice.
THEOREM EscalationType == Spec => []TypeOK
<1>1. Shape => TypeOK BY DEF Shape
<1> QED BY <1>1, InitShape, NextShape, PTL DEF Spec

-----------------------------------------------------------------------------
(* One active ladder.                                                      *)

\* An evaluation past its look-up changes nothing but its own run.
Own(c) ==
    LET i == eval[c].run IN
    /\ i \in 1..Len(ladder) /\ Underway(c) /\ UNCHANGED overlapped
    /\ known' \in {known, Saved(i)} /\ Len(ladder') = Len(ladder)
    /\ \A j \in 1..Len(ladder) : j # i => ladder'[j] = ladder[j]
    /\ \A d \in Evals : d # c => eval'[d] = eval[d]
    /\ eval'[c].pc # "idle" => eval'[c].run = i

LEMMA ClimbOwn ==
  ASSUME Shape, NEW c \in Evals, NEW saw, NEW empty, Underway(c), UNCHANGED overlapped,
         eval[c].run \in 1..Len(ladder), Climb(c, eval[c].run, saw, empty)
  PROVE  Own(c)
BY Lists DEF Climb, Become, Own, Shape, TypeOK

LEMMA StepOwn ==
  ASSUME Shape, NEW c \in Evals,
         Judge(c) \/ Logged(c) \/ Proposed(c) \/ NothingToPropose(c) \/ Ended(c) \/ LogFails(c)
  PROVE  Own(c)
<1> DEFINE i == eval[c].run
<1>1. i \in 1..Len(ladder)
  BY OwnRun DEF Judge, Logged, Proposed, NothingToPropose, Ended, LogFails
<1>2. Underway(c) /\ UNCHANGED overlapped
  BY DEF Judge, Logged, Proposed, NothingToPropose, Ended, LogFails, Underway
<1>3. ASSUME NEW saw, NEW empty, Climb(c, i, saw, empty) PROVE Own(c)
  BY <1>1, <1>2, <1>3, ClimbOwn
<1>4. ASSUME Return(c), UNCHANGED <<ladder, known>> PROVE Own(c)
  BY <1>1, <1>2, <1>4 DEF Own, Return, Become, Resting, Shape, TypeOK
<1>5. CASE Judge(c)
  <2>1. CASE /\ ladder' = [ladder EXCEPT ![i].status = "recovered"]
             /\ Become(c, [pc |-> "ending", run |-> i, saw |-> world, rung |-> 0])
             /\ UNCHANGED known
    BY <1>1, <1>2, <2>1, Lists DEF Own, Become, Shape, TypeOK
  <2> QED BY <1>3, <1>4, <1>5, <2>1 DEF Judge
<1>6. CASE Logged(c)
  BY <1>1, <1>2, <1>3, <1>6 DEF Logged, Own, Become, Shape, TypeOK
<1>7. CASE Proposed(c)
  BY <1>1, <1>2, <1>7, Lists DEF Proposed, Own, Return, Become, Resting, Shape, TypeOK
<1>8. CASE NothingToPropose(c) BY <1>3, <1>8 DEF NothingToPropose
<1>9. CASE Ended(c) \/ LogFails(c) BY <1>4, <1>9 DEF Ended, LogFails
<1> QED BY <1>5, <1>6, <1>7, <1>8, <1>9

\* What it saved, ended or climbed was its own.
LEMMA OwnActive ==
  ASSUME Shape, NEW c \in Evals, Own(c), \A n \in Active : known[n] = eval[c].run
  PROVE  \A n \in Active' : known'[n] = eval[c].run
<1> DEFINE i == eval[c].run
<1> SUFFICES ASSUME NEW n \in Active', known'[n] # i PROVE FALSE
  OBVIOUS
<1>1. i \in 1..Len(ladder) BY DEF Own
<1>2. n \in 1..Len(known) /\ known'[n] = known[n]
  BY <1>1, SavedShape DEF Own, Active
<1>3. ladder'[known[n]] = ladder[known[n]]
  BY <1>2, Lists DEF Own
<1>4. n \in Active BY <1>2, <1>3 DEF Active
<1> QED BY <1>2, <1>4

LEMMA OwnSerial ==
  ASSUME Shape, Shape', Serial, NEW c \in Evals, Own(c)
  PROVE  Serial' /\ OneLadder'
<1> SUFFICES ASSUME ~overlapped' PROVE Alone' /\ Mine' /\ \A n, m \in Active' : n = m
  BY DEF Serial, OneLadder
<1>1. Alone /\ Mine BY DEF Own, Serial
<1>2. \A n \in Active' : known'[n] = eval[c].run
  BY <1>1, OwnActive DEF Mine, Own
<1>3. \A d \in Evals : Underway(d)' => d = c /\ eval'[d].run = eval[c].run
  BY <1>1 DEF Own, Alone, Underway
<1>4. \A n, m \in Active' : n = m
  BY <1>2 DEF Shape, SavedOnce, Active
<1> QED BY <1>2, <1>3, <1>4 DEF Alone, Mine

LEMMA EvaluateSerial ==
  ASSUME Shape, Serial, OneLadder, NEW c \in Evals, Evaluate(c)
  PROVE  Serial' /\ OneLadder'
<1>1. Active' = Active /\ UNCHANGED <<ladder, known>>
  BY DEF Evaluate, Active
<1> SUFFICES ASSUME ~overlapped' PROVE Alone' /\ Mine' /\ OneLadder'
  BY <1>1 DEF Serial, OneLadder, Evaluate
<1>2. ~overlapped /\ \A d \in Evals : ~Underway(d)
  BY DEF Evaluate, Shape, TypeOK
<1>3. PICK i \in 0..Len(ladder) :
        GetActive(i) /\ Become(c, [pc |-> "detect", run |-> i, saw |-> "none", rung |-> 0])
  BY DEF Evaluate
<1>4. \A n \in Active : known[n] = i
  BY <1>2, <1>3 DEF GetActive, OneLadder
<1>5. \A d \in Evals : Underway(d)' => d = c
  BY <1>2, <1>3 DEF Underway, Become, Shape, TypeOK
<1>6. eval'[c].run = i BY <1>3 DEF Become, Shape, TypeOK
<1> QED BY <1>1, <1>2, <1>4, <1>5, <1>6 DEF Alone, Mine, OneLadder

\* A ladder is opened by an evaluation that found none.
LEMMA OpenSerial ==
  ASSUME Shape, Serial, OneLadder, NEW c \in Evals, Open(c)
  PROVE  Serial' /\ OneLadder'
<1>1. \A n \in 1..Len(known) : known[n] \in 1..Len(ladder) /\ ladder'[known[n]] = ladder[known[n]]
  BY Lists DEF Open
<1>2. Active' = Active /\ UNCHANGED <<known, overlapped>>
  BY <1>1 DEF Open, Active
<1> SUFFICES ASSUME ~overlapped PROVE Alone' /\ Mine'
  BY <1>2 DEF Serial, OneLadder
<1>3. Alone /\ Mine /\ Underway(c) BY DEF Serial, Open, Underway
<1>4. Active = {}
  <2>1. eval[c].run = 0 BY DEF Open
  <2>2. \A n \in Active : n \in 1..Len(known) /\ known[n] = 0 BY <1>3, <2>1 DEF Mine, Active
  <2>3. \A n \in 1..Len(known) : known[n] # 0 BY <1>1, Lists
  <2> QED BY <2>2, <2>3
<1>5. \A d \in Evals : d # c => eval'[d] = eval[d]
  BY DEF Open, Return, Become, Shape, TypeOK
<1>6. \A d \in Evals : Underway(d)' => d = c
  BY <1>3, <1>5 DEF Alone, Underway
<1> QED BY <1>2, <1>4, <1>6 DEF Alone, Mine

LEMMA ReportSerial ==
  ASSUME Shape, Serial, OneLadder, NEW i \in 1..Len(ladder), NEW d, Report(i, d)
  PROVE  Serial' /\ OneLadder'
<1>0. ladder' = [ladder EXCEPT ![i] = [ladder[i] EXCEPT !.decision = d]]
  BY DEF Report
<1>1. \A j \in 1..Len(ladder) : ladder'[j].status = ladder[j].status
  BY <1>0, Lists DEF Run
<1>2. Active' = Active /\ UNCHANGED <<known, eval, overlapped>>
  BY <1>1, Lists DEF Report, Active
<1> QED BY <1>2 DEF Serial, Alone, Mine, OneLadder, Underway

LEMMA QuietSerial ==
  ASSUME Serial, OneLadder, UNCHANGED <<ladder, known, eval, overlapped>>
  PROVE  Serial' /\ OneLadder'
BY DEF Serial, Alone, Mine, OneLadder, Underway, Active

LEMMA NextSerial ==
  ASSUME Shape, Serial, OneLadder, [Next]_vars
  PROVE  Serial' /\ OneLadder'
<1>1. Shape' BY NextShape
<1>2. CASE UNCHANGED vars BY <1>2, QuietSerial DEF vars
<1>3. CASE WorldChanges BY <1>3, QuietSerial DEF WorldChanges
<1>4. ASSUME NEW c \in Evals, Continue(c) \/ LogFails(c) PROVE Serial' /\ OneLadder'
  BY <1>1, <1>4, OpenSerial, StepOwn, OwnSerial DEF Continue
<1> QED BY <1>2, <1>3, <1>4, EvaluateSerial, ReportSerial DEF Next

\* One evaluation at a time leaves a campaign at most one active ladder, whatever the
\* hooks report and whichever appends raise.
THEOREM AtMostOneLadder == Spec => []OneLadder
<1> DEFINE IInv == Shape /\ Serial /\ OneLadder
<1>1. Init => IInv BY InitShape
<1>2. IInv /\ [Next]_vars => IInv' BY NextShape, NextSerial
<1>3. IInv => OneLadder OBVIOUS
<1> QED BY <1>1, <1>2, <1>3, PTL DEF Spec
-----------------------------------------------------------------------------
(* What is said of a rung, and what became of it.                          *)

InTurn == ~overlapped /\ ~outOfTurn

Climbing(c) == eval[c].pc \in {"opening", "logging", "rank"}

\* The run an evaluation looked up is active; the rung it asks for is undecided.
Waits(c) ==
    LET i == eval[c].run IN
    /\ eval[c].pc = "detect" /\ i # 0 => ladder[i].status = "active"
    /\ Climbing(c) => ladder[i].status = "active" /\ ladder[i].decision = "proposed"
    /\ eval[c].pc = "rank" => eval[c].rung = ladder[i].rung

\* A decision is what became of the rung.
Agrees(i) == ladder[i].status = "active" /\ ladder[i].decision # "proposed"
             => fate[i][ladder[i].rung] = ladder[i].decision

Passes(i) ==
    /\ \A k \in 1..(ladder[i].rung - 1) : fate[i][k] \in Decided
    /\ ladder[i].status = "exhausted" => fate[i][Rungs] \in Decided
    /\ ladder[i].status = "recovered" => fate[i][ladder[i].rung] = "executed"

\* An undecided rung nobody is asking the agent about was proposed.
Offers(i) == lost = 0 /\ ladder[i].status = "active" /\ ladder[i].decision = "proposed"
                 /\ ~(\E c \in Evals : Climbing(c) /\ eval[c].run = i)
             => fate[i][ladder[i].rung] = "open"

Told == InTurn => /\ \A c \in Evals : Waits(c)
                  /\ \A i \in 1..Len(ladder) : Agrees(i) /\ Passes(i) /\ Offers(i)

\* A step of an evaluation leaves what is said of other runs as it was.
LEMMA OwnTold ==
  ASSUME Shape, Shape', Serial, Told, NEW c \in Evals, Own(c), UNCHANGED outOfTurn,
         NEW i \in 1..Len(ladder), i = eval[c].run,
         lost' = lost \/ lost' # 0,
         \A j \in 1..Len(ladder) : j # i => fate'[j] = fate[j],
         InTurn => /\ Waits(c)' /\ eval'[c].pc # "detect"
                   /\ Agrees(i)' /\ Passes(i)' /\ Offers(i)'
  PROVE  Told'
<1> SUFFICES ASSUME InTurn
             PROVE  /\ \A d \in Evals : Waits(d)'
                    /\ \A j \in 1..Len(ladder) : Agrees(j)' /\ Passes(j)' /\ Offers(j)'
  <2>1. InTurn' => InTurn BY DEF InTurn, Own
  <2>2. Len(ladder') = Len(ladder) BY DEF Own
  <2> QED BY <2>1, <2>2 DEF Told
<1>1. Alone /\ \A d \in Evals : d # c => eval'[d] = eval[d] /\ ~Underway(d)
  BY DEF Serial, InTurn, Own, Alone
<1>2. \A d \in Evals : d # c => Waits(d)'
  BY <1>1 DEF Waits, Climbing, Underway
<1>3. ASSUME NEW j \in 1..Len(ladder), j # i PROVE Agrees(j)' /\ Passes(j)' /\ Offers(j)'
  <2>1. ladder'[j] = ladder[j] /\ fate'[j] = fate[j] BY <1>3 DEF Own
  <2>2. Agrees(j) /\ Passes(j) /\ Offers(j) BY DEF Told
  <2>3. lost' = 0 => lost = 0 OBVIOUS
  <2>4. ~(\E d \in Evals : Climbing(d) /\ eval[d].run = j)
    BY <1>1, <1>3 DEF Climbing, Underway
  <2> QED BY <2>1, <2>2, <2>3, <2>4 DEF Agrees, Passes, Offers
<1>4. Waits(c)' /\ Agrees(i)' /\ Passes(i)' /\ Offers(i)' OBVIOUS
<1> QED BY <1>2, <1>3, <1>4

\* A run that climbs leaves a rung that is decided.
LEMMA ClimbTold ==
  ASSUME Shape, Shape', Serial, Told, NEW c \in Evals, Own(c), UNCHANGED <<outOfTurn, lost>>,
         NEW i \in 1..Len(ladder), i = eval[c].run,
         NEW saw, NEW empty, Climb(c, i, saw, empty),
         \A j \in 1..Len(ladder), k \in 1..Rungs :
             j # i \/ k # ladder[j].rung => fate'[j][k] = fate[j][k],
         \A j \in 1..Len(ladder) : j # i => fate'[j] = fate[j],
         InTurn => /\ fate'[i][ladder[i].rung] \in Decided
                   /\ ladder[i].status = "active"
  PROVE  Told'
<1> PICK k \in 1..Rungs : k = ladder[i].rung
  BY Lists
<1>0. i \in 1..Len(ladder) /\ k \in 1..Rungs /\ ladder[i] \in Run /\ k \in Nat
  BY Lists DEF Own
<1> SUFFICES ASSUME InTurn
             PROVE  /\ Waits(c)' /\ eval'[c].pc # "detect" /\ Agrees(i)' /\ Passes(i)' /\ Offers(i)'
  <2>1. lost' = lost OBVIOUS
  <2> QED BY <2>1, OwnTold
<1>1. \A m \in 1..k : fate'[i][m] \in Decided
  <2> SUFFICES ASSUME NEW m \in 1..k PROVE fate'[i][m] \in Decided
    OBVIOUS
  <2>1. CASE m = k BY <2>1
  <2>2. CASE m # k
    <3>1. m \in 1..(k - 1) /\ m \in 1..Rungs
      BY <1>0, <2>2, EscalationAssumption DEF EscalationAssumption
    <3>2. fate[i][m] \in Decided BY <1>0, <3>1 DEF Told, Passes
    <3>3. fate'[i][m] = fate[i][m] BY <1>0, <2>2, <3>1
    <3> QED BY <3>2, <3>3
  <2> QED BY <2>1, <2>2
<1>2. CASE AtTheEnd(i, empty)
  <2>1. ladder' = [ladder EXCEPT ![i] = [ladder[i] EXCEPT !.status = "exhausted"]]
    BY <1>2 DEF Climb
  <2>2. k = Rungs /\ ladder'[i].status = "exhausted" /\ ladder'[i].rung = k
    BY <1>0, <1>2, <2>1, Lists DEF AtTheEnd, Run
  <2>3. eval'[c].pc = "ending"
    BY <1>2 DEF Climb, Become, Shape, TypeOK
  <2>4. Passes(i)' 
    <3>1. \A m \in 1..(k - 1) : m \in 1..k BY <1>0
    <3>2. k \in 1..k BY <1>0
    <3> QED BY <1>1, <2>2, <3>1, <3>2 DEF Passes, Decided
  <2> QED BY <2>2, <2>3, <2>4 DEF Waits, Climbing, Agrees, Offers
<1>3. CASE ~AtTheEnd(i, empty)
  <2>1. ladder' = [ladder EXCEPT ![i] = [ladder[i] EXCEPT !.rung = @ + 1, !.decision = "proposed"]]
    BY <1>3 DEF Climb
  <2>2. /\ ladder'[i].status = "active" /\ ladder'[i].rung = k + 1
        /\ ladder'[i].decision = "proposed"
    BY <1>0, <2>1, Lists DEF Run
  <2>3. eval'[c].pc = "logging" /\ eval'[c].run = i
    BY <1>3 DEF Climb, Become, Shape, TypeOK
  <2>4. Passes(i)' 
    <3>1. (k + 1) - 1 = k BY <1>0
    <3> QED BY <1>1, <2>2, <3>1 DEF Passes, Decided
  <2> QED BY <2>2, <2>3, <2>4 DEF Waits, Climbing, Agrees, Offers
<1> QED BY <1>2, <1>3

LEMMA JudgeTold ==
  ASSUME Shape, Shape', Serial, Told, NEW c \in Evals, Judge(c)
  PROVE  Told'
<1>1. PICK i \in 1..Len(ladder) : i = eval[c].run
  BY OwnRun DEF Judge
<1>2. Own(c) /\ UNCHANGED <<outOfTurn, lost, fate>> BY StepOwn DEF Judge
<1>3. InTurn => ladder[i].status = "active" /\ Waits(c) /\ Agrees(i) /\ Passes(i) /\ Offers(i)
  BY <1>1 DEF Told, Waits, Judge
<1>4. ladder[i].rung \in 1..Rungs BY Lists
<1>5. CASE Return(c) /\ UNCHANGED <<ladder, known>>
  <2>1. eval'[c].pc = "idle" BY <1>5 DEF Return, Become, Resting, Shape, TypeOK
  <2>2. InTurn => Waits(c)' /\ Agrees(i)' /\ Passes(i)'
    BY <1>2, <1>3, <1>5, <2>1 DEF Waits, Climbing, Agrees, Passes
  <2>3. InTurn => Offers(i)'
    <3>1. InTurn => \A d \in Evals : Climbing(d) /\ eval[d].run = i => FALSE
      BY <1>1, <1>2 DEF Serial, InTurn, Alone, Climbing, Underway, Judge, Own
    <3> QED BY <1>2, <1>3, <1>5, <3>1 DEF Offers
  <2> QED BY <1>1, <1>2, <2>1, <2>2, <2>3, OwnTold
<1>6. ASSUME ladder[i].decision # "proposed", Climb(c, i, world, FALSE) PROVE Told'
  <2>1. ladder[i].decision \in {"executed", "rejected"}
    BY <1>6, Lists DEF Run
  <2>2. InTurn => fate'[i][ladder[i].rung] \in Decided
    BY <1>2, <1>3, <1>6, <2>1 DEF Agrees, Decided
  <2> QED BY <1>1, <1>2, <1>3, <1>6, <2>2, ClimbTold
<1>7. CASE /\ IsExecuted(i) /\ UNCHANGED known
           /\ ladder' = [ladder EXCEPT ![i].status = "recovered"]
           /\ Become(c, [pc |-> "ending", run |-> i, saw |-> world, rung |-> 0])
  <2>1. ladder' = [ladder EXCEPT ![i] = [ladder[i] EXCEPT !.status = "recovered"]]
    BY <1>7
  <2>2. /\ ladder'[i].status = "recovered" /\ ladder'[i].rung = ladder[i].rung
        /\ ladder'[i].decision = ladder[i].decision
    BY <2>1, Lists DEF Run
  <2>3. eval'[c].pc = "ending" BY <1>7 DEF Become, Shape, TypeOK
  <2>4. InTurn => fate'[i][ladder[i].rung] = "executed"
    BY <1>2, <1>3, <1>7 DEF Agrees, IsExecuted
  <2>5. InTurn => Waits(c)' /\ Agrees(i)' /\ Passes(i)' /\ Offers(i)'
    BY <1>2, <1>3, <2>2, <2>3, <2>4 DEF Waits, Climbing, Agrees, Passes, Offers
  <2> QED BY <1>1, <1>2, <2>3, <2>5, OwnTold
<1> QED BY <1>1, <1>5, <1>6, <1>7 DEF Judge, IsExecuted

\* The rung the agent has nothing for.
LEMMA EmptyFate ==
  ASSUME Shape, NEW i \in 1..Len(ladder), NEW k \in 1..Rungs, NEW f, fate' = [fate EXCEPT ![i][k] = f]
  PROVE  /\ fate'[i][k] = f
         /\ \A j \in 1..Len(ladder), m \in 1..Rungs : j # i \/ m # k => fate'[j][m] = fate[j][m]
         /\ \A j \in 1..Len(ladder) : j # i => fate'[j] = fate[j]
<1>1. \A j \in 1..Len(ladder) : j \in 1..MaxRuns
  BY Lists, EscalationAssumption DEF EscalationAssumption
<1>2. fate \in [1..MaxRuns -> [1..Rungs -> {"none", "empty", "open", "executed", "rejected"}]]
  BY DEF Shape, TypeOK
<1> QED BY <1>1, <1>2

LEMMA EmptyTold ==
  ASSUME Shape, Shape', Serial, Told, NEW c \in Evals, Own(c), UNCHANGED <<outOfTurn, lost>>,
         NEW i \in 1..Len(ladder), i = eval[c].run, Climbing(c),
         NEW saw, Empty(i, ladder[i].rung), Climb(c, i, saw, TRUE)
  PROVE  Told'
<1>1. PICK k \in 1..Rungs : k = ladder[i].rung
  BY Lists
<1>2. /\ fate'[i][k] = "empty"
      /\ \A j \in 1..Len(ladder), m \in 1..Rungs : j # i \/ m # k => fate'[j][m] = fate[j][m]
      /\ \A j \in 1..Len(ladder) : j # i => fate'[j] = fate[j]
  <2>1. fate' = [fate EXCEPT ![i][k] = "empty"] BY <1>1 DEF Empty
  <2> QED BY <2>1, EmptyFate
<1>3. InTurn => ladder[i].status = "active" BY DEF Told, Waits
<1>4. \A j \in 1..Len(ladder), m \in 1..Rungs : j # i \/ m # ladder[j].rung => fate'[j][m] = fate[j][m]
  BY <1>1, <1>2
<1>5. fate'[i][ladder[i].rung] \in Decided BY <1>1, <1>2 DEF Decided
<1> QED BY <1>2, <1>3, <1>4, <1>5, ClimbTold

LEMMA LoggedTold ==
  ASSUME Shape, Shape', Serial, Told, NEW c \in Evals, Logged(c)
  PROVE  Told'
<1>1. PICK i \in 1..Len(ladder) : i = eval[c].run
  BY OwnRun DEF Logged
<1>2. Own(c) /\ UNCHANGED <<outOfTurn, lost>> /\ Climbing(c) BY StepOwn DEF Logged, Climbing
<1>3. CASE eval[c].saw # "none"
  <2>1. /\ eval' = [eval EXCEPT ![c] = [eval[c] EXCEPT !.pc = "rank", !.rung = ladder[i].rung]]
        /\ UNCHANGED <<ladder, known, fate>>
    BY <1>1, <1>3 DEF Logged, Become
  <2>2. eval'[c].pc = "rank" /\ eval'[c].run = i /\ eval'[c].rung = ladder[i].rung
    BY <1>1, <2>1 DEF Shape, TypeOK
  <2>3. InTurn => Waits(c) /\ Agrees(i) /\ Passes(i) BY DEF Told
  <2>4. InTurn => Waits(c)' /\ Agrees(i)' /\ Passes(i)'
    BY <1>1, <1>2, <2>1, <2>2, <2>3 DEF Waits, Climbing, Agrees, Passes
  <2>5. Offers(i)' BY <2>2 DEF Offers, Climbing
  <2> QED BY <1>1, <1>2, <2>1, <2>2, <2>4, <2>5, OwnTold
<1>4. CASE Empty(i, ladder[i].rung) /\ Climb(c, i, "none", TRUE)
  BY <1>1, <1>2, <1>4, EmptyTold
<1> QED BY <1>1, <1>3, <1>4 DEF Logged

LEMMA ProposedTold ==
  ASSUME Shape, Shape', Serial, Told, NEW c \in Evals, Proposed(c)
  PROVE  Told'
<1>1. PICK i \in 1..Len(ladder) : i = eval[c].run
  BY OwnRun DEF Proposed
<1>2. PICK k \in 1..Rungs : k = ladder[i].rung
  BY Lists
<1>3. Own(c) /\ UNCHANGED <<outOfTurn, lost>> /\ Climbing(c) BY StepOwn DEF Proposed, Climbing
<1>4. eval'[c].pc = "idle" BY DEF Proposed, Return, Become, Resting, Shape, TypeOK
<1>5. ladder' = [ladder EXCEPT ![i] = [ladder[i] EXCEPT
          !.decision = IF eval[c].rung = 1 THEN "proposed" ELSE ladder[i].decision]]
  BY <1>1 DEF Proposed
<1>6. /\ ladder'[i].status = ladder[i].status /\ ladder'[i].rung = k
      /\ ladder[i].decision = "proposed" => ladder'[i].decision = "proposed"
  BY <1>2, <1>5, Lists DEF Run
<1>7. /\ InTurn => eval[c].rung = k /\ ladder[i].status = "active" /\ ladder[i].decision = "proposed"
      /\ InTurn => Passes(i)
  BY <1>1, <1>2 DEF Told, Waits, Climbing, Proposed
<1>8. InTurn => fate' = [fate EXCEPT ![i][k] = "open"]
  BY <1>1, <1>7 DEF Proposed
<1>9. InTurn => /\ fate'[i][k] = "open"
                /\ \A j \in 1..Len(ladder), m \in 1..Rungs : j # i \/ m # k => fate'[j][m] = fate[j][m]
                /\ \A j \in 1..Len(ladder) : j # i => fate'[j] = fate[j]
  <2> SUFFICES ASSUME InTurn
               PROVE  /\ fate'[i][k] = "open"
                      /\ \A j \in 1..Len(ladder), m \in 1..Rungs :
                            j # i \/ m # k => fate'[j][m] = fate[j][m]
                      /\ \A j \in 1..Len(ladder) : j # i => fate'[j] = fate[j]
    OBVIOUS
  <2>1. fate' = [fate EXCEPT ![i][k] = "open"] BY <1>8
  <2> QED BY <2>1, EmptyFate
<1>10. InTurn => Passes(i)'
  <2>1. \A m \in 1..(k - 1) : m \in 1..Rungs /\ m # k
    BY EscalationAssumption DEF EscalationAssumption
  <2> QED BY <1>2, <1>6, <1>7, <1>9, <2>1 DEF Passes, Decided
<1>11. InTurn => Waits(c)' /\ Agrees(i)' /\ Offers(i)'
  BY <1>4, <1>6, <1>7, <1>9 DEF Waits, Climbing, Agrees, Offers
<1>12. \A j \in 1..Len(ladder) : j # i => fate'[j] = fate[j]
  BY <1>1 DEF Proposed, Shape, TypeOK
<1> QED BY <1>1, <1>3, <1>4, <1>10, <1>11, <1>12, OwnTold

LEMMA NothingTold ==
  ASSUME Shape, Shape', Serial, Told, NEW c \in Evals, NothingToPropose(c)
  PROVE  Told'
<1>1. PICK i \in 1..Len(ladder) : i = eval[c].run
  BY OwnRun DEF NothingToPropose
<1>2. Own(c) /\ UNCHANGED <<outOfTurn, lost>> /\ Climbing(c)
  BY StepOwn DEF NothingToPropose, Climbing
<1>3. CASE InTurn
  <2>1. eval[c].rung = ladder[i].rung BY <1>1, <1>3 DEF Told, Waits, NothingToPropose
  <2> QED BY <1>1, <1>2, <2>1, EmptyTold DEF NothingToPropose
<1>4. CASE ~InTurn
  BY <1>2, <1>4 DEF Told, InTurn, Own
<1> QED BY <1>3, <1>4

LEMMA EndTold ==
  ASSUME Shape, Shape', Serial, Told, NEW c \in Evals, Ended(c) \/ LogFails(c)
  PROVE  Told'
<1>1. PICK i \in 1..Len(ladder) : i = eval[c].run
  BY OwnRun DEF Ended, LogFails
<1>2. Own(c) /\ UNCHANGED <<outOfTurn, fate, ladder>> BY StepOwn DEF Ended, LogFails
<1>3. eval'[c].pc = "idle"
  BY DEF Ended, LogFails, Return, Become, Resting, Shape, TypeOK
<1>4. lost \in Nat BY EscalationAssumption DEF Shape, TypeOK, EscalationAssumption
<1>5. (lost' = lost /\ eval[c].pc = "ending") \/ lost' # 0
  BY <1>4 DEF Ended, LogFails
<1>6. InTurn => Agrees(i) /\ Passes(i) /\ Offers(i) BY DEF Told
<1>7. InTurn => Waits(c)' /\ Agrees(i)' /\ Passes(i)'
  BY <1>2, <1>3, <1>6 DEF Waits, Climbing, Agrees, Passes
<1>8. InTurn => Offers(i)'
  <2>1. CASE lost' # 0 BY <2>1 DEF Offers
  <2>2. CASE lost' = lost /\ eval[c].pc = "ending"
    <3>1. InTurn => \A d \in Evals : ~(Climbing(d) /\ eval[d].run = i)
      BY <2>2 DEF Serial, InTurn, Alone, Climbing, Underway
    <3> QED BY <1>2, <1>6, <2>2, <3>1 DEF Offers
  <2> QED BY <1>5, <2>1, <2>2
<1> QED BY <1>1, <1>2, <1>3, <1>5, <1>7, <1>8, OwnTold

\* A new ladder is being opened for its first rung.
LEMMA OpenTold ==
  ASSUME Shape, Shape', Serial, Told, NEW c \in Evals, Open(c)
  PROVE  Told'
<1> SUFFICES ASSUME InTurn
             PROVE  /\ \A d \in Evals : Waits(d)'
                    /\ \A i \in 1..Len(ladder') : Agrees(i)' /\ Passes(i)' /\ Offers(i)'
  BY DEF Told, InTurn, Open
<1>1. UNCHANGED <<fate, lost>> BY DEF Open
<1>2. \A d \in Evals : d # c => eval'[d] = eval[d] /\ ~Underway(d)
  <2>1. \A d \in Evals : d # c => eval'[d] = eval[d]
    BY DEF Open, Return, Become, Shape, TypeOK
  <2>2. Underway(c) BY DEF Open, Underway
  <2>3. Alone BY DEF Serial, InTurn
  <2> QED BY <2>1, <2>2, <2>3 DEF Alone
<1>3. \A i \in 1..Len(ladder) : ladder'[i] = ladder[i]
  <2>1. ladder' = ladder \/ \E r : ladder' = Append(ladder, r) BY DEF Open
  <2>2. ladder \in Seq(Run) BY Lists
  <2> QED BY <2>1, <2>2
<1>4. \A d \in Evals : d # c => Waits(d)'
  BY <1>2 DEF Waits, Climbing, Underway
<1>5. \A d \in Evals : ~Climbing(d)
  BY <1>2 DEF Open, Climbing, Underway
<1>6. \A i \in 1..Len(ladder) : Agrees(i)' /\ Passes(i)' /\ Offers(i)'
  <2> TAKE i \in 1..Len(ladder)
  <2>1. Agrees(i) /\ Passes(i) /\ Offers(i) BY DEF Told
  <2> QED BY <1>1, <1>3, <1>5, <2>1 DEF Agrees, Passes, Offers
<1>7. CASE world = "ladder"
  <2> PICK n \in Nat : n = Len(ladder) + 1 BY Lists
  <2>1. /\ ladder' = Append(ladder, [status |-> "active", rung |-> 1, decision |-> "proposed"])
        /\ eval' = [eval EXCEPT ![c] = [pc |-> "opening", run |-> n, saw |-> world, rung |-> 0]]
    BY <1>7 DEF Open, Become
  <2>2. eval'[c].pc = "opening" /\ eval'[c].run = n BY <2>1 DEF Shape, TypeOK
  <2>3. Len(ladder') = n /\ ladder'[n] = [status |-> "active", rung |-> 1, decision |-> "proposed"]
    BY <2>1, Lists
  <2>4. Waits(c)' BY <2>2, <2>3 DEF Waits
  <2>5. Agrees(n)' /\ Offers(n)' BY <2>2, <2>3 DEF Agrees, Offers, Climbing
  <2>6. Passes(n)' BY <2>3 DEF Passes
  <2>7. \A i \in 1..Len(ladder') : i = n \/ i \in 1..Len(ladder) BY <2>3, Lists
  <2> QED BY <1>4, <1>6, <2>4, <2>5, <2>6, <2>7
<1>8. CASE world # "ladder"
  <2>1. UNCHANGED ladder /\ eval'[c].pc = "idle"
    BY <1>8 DEF Open, Return, Become, Resting, Shape, TypeOK
  <2>2. Waits(c)' BY <2>1 DEF Waits, Climbing
  <2> QED BY <1>4, <1>6, <2>1, <2>2
<1> QED BY <1>7, <1>8

LEMMA EvaluateTold ==
  ASSUME Shape, Shape', Serial, Told, NEW c \in Evals, Evaluate(c)
  PROVE  Told'
<1>0. UNCHANGED <<fate, lost, ladder, known, outOfTurn>> BY DEF Evaluate
<1> SUFFICES ASSUME ~overlapped', ~outOfTurn
             PROVE  /\ \A d \in Evals : Waits(d)'
                    /\ \A i \in 1..Len(ladder) : Agrees(i)' /\ Passes(i)' /\ Offers(i)'
  BY <1>0 DEF Told, InTurn
<1>1. InTurn /\ \A d \in Evals : ~Underway(d)
  BY DEF Evaluate, Shape, TypeOK, InTurn
<1>2. PICK i \in 0..Len(ladder) :
        GetActive(i) /\ Become(c, [pc |-> "detect", run |-> i, saw |-> "none", rung |-> 0])
  BY DEF Evaluate
<1>3. \A d \in Evals : d # c => eval'[d] = eval[d]
  BY <1>2 DEF Become, Shape, TypeOK
<1>4. eval'[c].pc = "detect" /\ eval'[c].run = i BY <1>2 DEF Become, Shape, TypeOK
<1>5. i # 0 => ladder[i].status = "active" BY <1>2 DEF GetActive, Active
<1>6. \A d \in Evals : Waits(d)'
  BY <1>0, <1>1, <1>3, <1>4, <1>5 DEF Waits, Climbing, Underway
<1>7. \A j \in 1..Len(ladder) : Agrees(j)' /\ Passes(j)' /\ Offers(j)'
  <2> TAKE j \in 1..Len(ladder)
  <2>1. Agrees(j) /\ Passes(j) /\ Offers(j) BY <1>1 DEF Told
  <2>2. \A d \in Evals : ~Climbing(d) BY <1>1 DEF Climbing, Underway
  <2> QED BY <1>0, <2>1, <2>2 DEF Agrees, Passes, Offers
<1> QED BY <1>6, <1>7

\* A hook in turn answers an open proposal between evaluations.
LEMMA ReportTold ==
  ASSUME Shape, Shape', Told, NEW i \in 1..Len(ladder), NEW d \in {"executed", "rejected"}, Report(i, d)
  PROVE  Told'
<1>0. UNCHANGED <<eval, known, lost, overlapped>> /\ Len(ladder') = Len(ladder)
  BY Lists DEF Report
<1>1. PICK k \in 1..Rungs : k = ladder[i].rung
  BY Lists
<1> SUFFICES ASSUME ~overlapped, ~outOfTurn'
             PROVE  /\ \A c \in Evals : Waits(c)'
                    /\ \A j \in 1..Len(ladder) : Agrees(j)' /\ Passes(j)' /\ Offers(j)'
  BY <1>0 DEF Told, InTurn
<1>2. InTurn /\ fate[i][k] = "open" /\ \A c \in Evals : ~Underway(c)
  BY <1>1 DEF Report, InTurn, Shape, TypeOK
<1>3. ladder' = [ladder EXCEPT ![i] = [ladder[i] EXCEPT !.decision = d]]
  BY DEF Report
<1>4. fate' = [fate EXCEPT ![i][k] = d]
  <2>1. i \in 1..MaxRuns BY Lists, EscalationAssumption DEF EscalationAssumption
  <2> QED BY <1>1, <1>2, <2>1 DEF Report, Shape, TypeOK
<1>5. /\ fate'[i][k] = d
      /\ \A j \in 1..Len(ladder), m \in 1..Rungs : j # i \/ m # k => fate'[j][m] = fate[j][m]
      /\ \A j \in 1..Len(ladder) : j # i => fate'[j] = fate[j]
  BY <1>4, EmptyFate
<1>6. /\ ladder'[i].status = "active" /\ ladder'[i].rung = k /\ ladder'[i].decision = d
      /\ \A j \in 1..Len(ladder) : j # i => ladder'[j] = ladder[j]
  BY <1>1, <1>3, Lists DEF Run, Report
<1>7. \A c \in Evals : Waits(c)'
  BY <1>0, <1>2 DEF Waits, Climbing, Underway
<1>8. ASSUME NEW j \in 1..Len(ladder), j # i PROVE Agrees(j)' /\ Passes(j)' /\ Offers(j)'
  <2>1. Agrees(j) /\ Passes(j) /\ Offers(j) BY <1>2 DEF Told
  <2>2. ladder'[j] = ladder[j] /\ fate'[j] = fate[j] BY <1>5, <1>6, <1>8
  <2> QED BY <1>0, <2>1, <2>2 DEF Agrees, Passes, Offers, Climbing
<1>9. Passes(i)'
  <2>1. Passes(i) BY <1>2 DEF Told
  <2>2. \A m \in 1..(k - 1) : m \in 1..Rungs /\ m # k
    BY EscalationAssumption DEF EscalationAssumption
  <2> QED BY <1>1, <1>5, <1>6, <2>1, <2>2 DEF Passes, Decided
<1>10. Agrees(i)' /\ Offers(i)' BY <1>5, <1>6 DEF Agrees, Offers
<1> QED BY <1>7, <1>8, <1>9, <1>10

LEMMA QuietTold ==
  ASSUME Told, UNCHANGED <<ladder, eval, fate, lost, overlapped, outOfTurn>>
  PROVE  Told'
BY DEF Told, InTurn, Waits, Climbing, Agrees, Passes, Offers, Decided

IInv == Shape /\ Serial /\ OneLadder /\ Told

LEMMA InitTold == Init => Told
<1> SUFFICES ASSUME Init PROVE Told
  OBVIOUS
<1>1. Len(ladder) = 0 BY DEF Init
<1>2. \A c \in Evals : Waits(c) BY DEF Init, Resting, Waits, Climbing
<1> QED BY <1>1, <1>2 DEF Told

LEMMA NextIInv == IInv /\ [Next]_vars => IInv'
<1> SUFFICES ASSUME IInv, [Next]_vars PROVE IInv'
  OBVIOUS
<1> USE DEF IInv
<1>1. Shape' /\ Serial' /\ OneLadder' BY NextShape, NextSerial
<1>2. CASE UNCHANGED vars BY <1>1, <1>2, QuietTold DEF vars
<1>3. CASE WorldChanges BY <1>1, <1>3, QuietTold DEF WorldChanges
<1>4. ASSUME NEW c \in Evals, Evaluate(c) \/ Continue(c) \/ LogFails(c) PROVE Told'
  BY <1>1, <1>4, EvaluateTold, OpenTold, JudgeTold, LoggedTold, ProposedTold, NothingTold, EndTold
     DEF Continue
<1>5. ASSUME NEW i \in 1..Len(ladder), NEW d \in {"executed", "rejected"}, Report(i, d) PROVE Told'
  BY <1>1, <1>5, ReportTold
<1> QED BY <1>1, <1>2, <1>3, <1>4, <1>5 DEF Next

LEMMA IInvHolds == Spec => []IInv
<1>1. Init => IInv BY InitShape, InitTold DEF IInv
<1> QED BY <1>1, NextIInv, PTL DEF Spec

\* With hooks in turn, a ladder passes only rungs that were executed, rejected or had
\* no proposal, and recovers on a rung that was executed.
THEOREM NoneSkipped == Spec => []NoRungSkipped
<1>1. IInv => NoRungSkipped BY DEF IInv, Told, InTurn, Passes, NoRungSkipped
<1> QED BY <1>1, IInvHolds, PTL

\* With hooks in turn and no lost append, PENDING means that there is a proposal to
\* decide about.
THEOREM PendingIsProposed == Spec => []PendingHasProposal
<1>1. IInv => PendingHasProposal
  <2> SUFFICES ASSUME IInv, ~overlapped, ~outOfTurn, lost = 0, AtRest, NEW n \in Active,
                      ladder[known[n]].decision = "proposed"
               PROVE  fate[known[n]][ladder[known[n]].rung] = "open"
    BY DEF PendingHasProposal
  <2>1. known[n] \in 1..Len(ladder) /\ ladder[known[n]].status = "active"
    BY Lists DEF IInv, Active
  <2>2. Offers(known[n]) BY <2>1 DEF IInv, Told, InTurn
  <2> QED BY <2>1, <2>2 DEF Offers, AtRest, Underway, Climbing
<1> QED BY <1>1, IInvHolds, PTL
=============================================================================
