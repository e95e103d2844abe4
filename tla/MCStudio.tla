------------------------------ MODULE MCStudio ------------------------------
(***************************************************************************)
(* Instances for TLC of the two long jobs a browser follows through an     *)
(* event stream: a generation (Generation) and a simulation (SimRuns).     *)
(* They have a process and a kind of fault in common and no other state,   *)
(* so a behaviour is one of the first or one of the second.                *)
(***************************************************************************)
EXTENDS Generation

CONSTANTS SimPages, Widgets, MaxRetries, SimProgress, p, w

ASSUME StudioAssumption == MaxRetries \in Nat

VARIABLES job, run, step, stream, shown, key

S == INSTANCE SimRuns WITH Pages <- SimPages, MaxProgress <- SimProgress

gvars == <<db, stored, task, pipe, timer, conn, view, saved>>
svars == <<run, step, stream, shown, key>>

MCInit == job \in {"generation", "simulation"} /\ Init /\ S!Init

MCNext ==
    \/ job = "generation" /\ Next /\ UNCHANGED <<job, svars>>
    \/ job = "simulation" /\ S!Next /\ UNCHANGED <<job, gvars>>

MCSpec ==
    /\ MCInit /\ [][MCNext]_<<job, vars, svars>>
    /\ job = "generation" => Fairness
    /\ job = "simulation" => S!Fairness

\* Every variable of Generation and of SimRuns keeps its type.
StudioTypeOK == TypeOK /\ S!TypeOK

\* stream_events() of a simulation ends after the verdict and with its result in the store.
StreamEndsWithVerdict == S!StreamEndsWithVerdict

\* A result is shown because there is one, a failure because the run failed.
ShownIsTrue == S!ShownIsTrue

\* The progress of a simulation that a page shows comes to an end.
PagesSettle == S!PagesSettle
=============================================================================
