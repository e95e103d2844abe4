---------------------------- MODULE StudioProofs ----------------------------
(***************************************************************************)
(* Theorems about the two long jobs a browser follows through an event     *)
(* stream, for any number of viewers, progress events, retries and         *)
(* mishaps.  A generation (Generation): what a viewer shows as done is     *)
(* stored, and a failure a page shows is final.  A simulation (SimRuns,    *)
(* here S): a stream the server ends has sent the verdict, and what a      *)
(* viewer shows is what happened.                                          *)
(***************************************************************************)
EXTENDS MCStudio, TLAPS

-----------------------------------------------------------------------------
(* Generation.                                                             *)

Conns == [state : {"none", "reading", "ended", "broken"}, missing : BOOLEAN, sent : Nat, got : Nat]
Views == [phase : {"idle", "generating", "done", "failed", "lost"},
          at : {"rest", "posting", "mount", "fallback", "result", "pause"},
          attempts : 0..MaxReconnect]
Tasks == [here : BOOLEAN, status : {"pending", "running"} \cup Terminal,
          events : Seq({"progress", "completed", "error"})]
-----------------------------------------------------------------------------
(* Type correctness.                                                       *)

LEMMA EmitType ==
  ASSUME TypeOK, NEW e \in {"progress", "completed", "error"}
  PROVE  Emit(e) \in Tasks
<1>1. task \in Tasks BY DEF TypeOK, Tasks
<1>2. task.events \in Seq({"progress", "completed", "error"}) BY <1>1 DEF Tasks
<1>3. Append(task.events, e) \in Seq({"progress", "completed", "error"}) BY <1>2
<1> QED BY <1>1, <1>3 DEF Emit, Tasks

Phases == {"idle", "generating", "done", "failed", "lost"}
Places == {"rest", "posting", "mount", "fallback", "result", "pause"}

\* What a step may make of a viewer's stream ...
LEMMA ConnParts ==
  ASSUME TypeOK, NEW v \in Viewers
  PROVE  /\ conn \in [Viewers -> Conns]
         /\ [conn EXCEPT ![v] = NoConn] \in [Viewers -> Conns]
         /\ [conn EXCEPT ![v].sent = @ + 1] \in [Viewers -> Conns]
         /\ [conn EXCEPT ![v].got = @ + 1] \in [Viewers -> Conns]
         /\ \A x \in {"none", "reading", "ended", "broken"} :
               [conn EXCEPT ![v].state = x] \in [Viewers -> Conns]
<1>1. conn \in [Viewers -> Conns] BY DEF TypeOK, Conns
<1>2. NoConn \in Conns BY DEF NoConn, Conns
<1>3. conn[v] \in Conns BY <1>1
<1>4. [conn[v] EXCEPT !.sent = @ + 1] \in Conns /\ [conn[v] EXCEPT !.got = @ + 1] \in Conns
  BY <1>3 DEF Conns
<1>5. \A x \in {"none", "reading", "ended", "broken"} : [conn[v] EXCEPT !.state = x] \in Conns
  BY <1>3 DEF Conns
<1> QED BY <1>1, <1>2, <1>4, <1>5

\* ... and of what the viewer shows.
LEMMA ViewParts ==
  ASSUME TypeOK, NEW v \in Viewers
  PROVE  /\ view \in [Viewers -> Views] /\ view[v].phase \in Phases
         /\ \A phase \in Phases, at \in Places : Show(v, phase, at) \in [Viewers -> Views]
         /\ \A x \in Views : [view EXCEPT ![v] = x] \in [Viewers -> Views]
         /\ [view EXCEPT ![v].attempts = 0] \in [Viewers -> Views]
         /\ [view EXCEPT ![v].at = "result", ![v].attempts = 0] \in [Viewers -> Views]
         /\ [view EXCEPT ![v].phase = "failed", ![v].attempts = 0] \in [Viewers -> Views]
         /\ \A at \in Places : [view EXCEPT ![v].at = at] \in [Viewers -> Views]
<1>1. view \in [Viewers -> Views] BY DEF TypeOK, Views
<1>2. 0 \in 0..MaxReconnect BY GenerationAssumption DEF GenerationAssumption
<1>3. view[v] \in Views BY <1>1
<1>4. \A phase \in Phases, at \in Places : [view[v] EXCEPT !.phase = phase, !.at = at] \in Views
  BY <1>3 DEF Views, Phases, Places
<1>5. /\ [view[v] EXCEPT !.attempts = 0] \in Views
      /\ [view[v] EXCEPT !.at = "result", !.attempts = 0] \in Views
      /\ [view[v] EXCEPT !.phase = "failed", !.attempts = 0] \in Views
  BY <1>2, <1>3 DEF Views
<1>6. \A at \in Places : [view[v] EXCEPT !.at = at] \in Views
  BY <1>3 DEF Views, Places
<1>7. view[v].phase \in Phases BY <1>3 DEF Views, Phases
<1>8. \A phase \in Phases, at \in Places : Show(v, phase, at) \in [Viewers -> Views]
  BY <1>1, <1>4 DEF Show
<1> QED BY <1>1, <1>5, <1>6, <1>7, <1>8

LEMMA InitType == Init => TypeOK
<1> SUFFICES ASSUME Init PROVE TypeOK
  OBVIOUS
<1>1. 0 \in 0..MaxReconnect /\ 0 \in 0..MaxMishaps
  BY GenerationAssumption DEF GenerationAssumption
<1>2. conn \in [Viewers -> Conns] BY DEF Init, NoConn, Conns
<1>3. view \in [Viewers -> Views] BY <1>1 DEF Init, NoView, Views
<1>4. task \in Tasks BY DEF Init, Tasks, Terminal
<1> QED BY <1>1, <1>2, <1>3, <1>4 DEF Init, TypeOK, Conns, Views, Tasks

LEMMA MishapType == ASSUME TypeOK, Mishap PROVE mishaps' \in 0..MaxMishaps
BY GenerationAssumption DEF TypeOK, Mishap, GenerationAssumption

LEMMA PipelineType == ASSUME TypeOK, Pipeline PROVE TypeOK'
<1> USE DEF TypeOK, Terminal
<1>1. CASE QueueTask BY <1>1 DEF QueueTask
<1>2. CASE BeginPipeline BY <1>2 DEF BeginPipeline
<1>3. CASE MarkRunning BY <1>3, MishapType DEF MarkRunning, Fails
<1>4. CASE RunGraph
  <2>1. task' \in Tasks BY <1>4, EmitType DEF RunGraph, Fails, Tasks
  <2> QED BY <1>4, <2>1 DEF RunGraph, Fails, Tasks
<1>5. CASE PersistResults BY <1>5, MishapType DEF PersistResults, Fails
<1>6. CASE AnnounceCompleted
  <2>1. task' \in Tasks BY <1>6, EmitType DEF AnnounceCompleted
  <2> QED BY <1>6, <2>1 DEF AnnounceCompleted, Tasks
<1>7. CASE RecordFailure
  <2>1. task' \in Tasks BY <1>7, EmitType DEF RecordFailure, Tasks
  <2> QED BY <1>7, <2>1, MishapType DEF RecordFailure, Tasks
<1> QED BY <1>1, <1>2, <1>3, <1>4, <1>5, <1>6, <1>7 DEF Pipeline

\* What a step of the viewers and of their streams leaves.
LEMMA ViewerType ==
  ASSUME TypeOK, UNCHANGED <<db, stored, pipe, restarted>>, task' = task \/ task' = [task EXCEPT !.here = FALSE],
         timer' \in BOOLEAN, saved' \in BOOLEAN,
         conn' \in [Viewers -> Conns], view' \in [Viewers -> Views], mishaps' \in 0..MaxMishaps
  PROVE  TypeOK'
<1>1. task' \in Tasks
  <2>1. task \in Tasks BY DEF TypeOK, Tasks
  <2> QED BY <2>1 DEF Tasks
<1> QED BY <1>1 DEF TypeOK, Conns, Views, Tasks

LEMMA SubscribeType ==
  ASSUME TypeOK, NEW v \in Viewers, Subscribe(v)
  PROVE  conn' \in [Viewers -> Conns] /\ view' \in [Viewers -> Views]
<1>1. conn' = [conn EXCEPT ![v] = Opened] /\ view' = Show(v, "generating", "rest")
  BY DEF Subscribe
<1>2. Opened \in Conns BY DEF Opened, NoConn, Conns
<1> QED BY <1>1, <1>2, ConnParts, ViewParts DEF Phases, Places

LEMMA StreamType ==
  ASSUME TypeOK, NEW v \in Viewers, Stream(v) \/ Cleanup \/ Drop(v)
  PROVE  TypeOK'
<1>1. CASE SendEvent(v)
  <2>1. conn' \in [Viewers -> Conns] BY <1>1, ConnParts DEF SendEvent
  <2>2. UNCHANGED <<db, stored, task, pipe, timer, view, saved, mishaps, restarted>>
    BY <1>1 DEF SendEvent, server
  <2> QED BY <2>1, <2>2 DEF TypeOK, Conns
<1>2. CASE EndStream(v)
  <2>1. conn' \in [Viewers -> Conns] BY <1>2, ConnParts DEF EndStream
  <2>2. UNCHANGED <<db, stored, task, pipe, view, saved, mishaps, restarted>> /\ timer' = TRUE
    BY <1>2 DEF EndStream
  <2> QED BY <2>1, <2>2 DEF TypeOK, Conns
<1>3. CASE Cleanup BY <1>3 DEF Cleanup, TypeOK, Terminal
<1>4. CASE Drop(v)
  <2>1. conn' \in [Viewers -> Conns] BY <1>4, ConnParts DEF Drop
  <2>2. UNCHANGED <<db, stored, task, pipe, timer, view, saved, restarted>> BY <1>4 DEF Drop, server
  <2>3. mishaps' \in 0..MaxMishaps BY <1>4, MishapType DEF Drop
  <2> QED BY <2>1, <2>2, <2>3 DEF TypeOK, Conns
<1> QED BY <1>1, <1>2, <1>3, <1>4 DEF Stream

LEMMA BrowserType ==
  ASSUME TypeOK, NEW v \in Viewers, Browser(v) \/ Mount(v) \/ StartGeneration(v)
  PROVE  TypeOK'
<1>1. CASE HandleEvent(v)
  <2>1. \/ conn' = [conn EXCEPT ![v].got = @ + 1]
        \/ conn' = [conn EXCEPT ![v] = NoConn]
    BY <1>1 DEF HandleEvent, Close
  <2>2. \/ view' = [view EXCEPT ![v].attempts = 0]
        \/ view' = [view EXCEPT ![v].at = "result", ![v].attempts = 0]
        \/ view' = [view EXCEPT ![v].phase = "failed", ![v].attempts = 0]
    BY <1>1 DEF HandleEvent
  <2>3. conn' \in [Viewers -> Conns] /\ view' \in [Viewers -> Views]
    <3>1. conn' \in [Viewers -> Conns] BY <2>1, ConnParts
    <3>2. view' \in [Viewers -> Views]
      <4>1. /\ [view EXCEPT ![v].attempts = 0] \in [Viewers -> Views]
            /\ [view EXCEPT ![v].at = "result", ![v].attempts = 0] \in [Viewers -> Views]
            /\ [view EXCEPT ![v].phase = "failed", ![v].attempts = 0] \in [Viewers -> Views]
        BY ViewParts
      <4> QED BY <2>2, <4>1
    <3> QED BY <3>1, <3>2
  <2>4. saved' \in BOOLEAN BY <1>1 DEF HandleEvent, TypeOK
  <2> QED BY <1>1, <2>3, <2>4, ViewerType DEF HandleEvent, server, TypeOK
<1>2. CASE StreamGone(v)
  <2>1. conn' \in [Viewers -> Conns] BY <1>2, ConnParts DEF StreamGone, Close
  <2>2. view' \in [Viewers -> Views]
    <3>1. \E at \in Places : view' = [view EXCEPT ![v].at = at]
      BY <1>2 DEF StreamGone, Places
    <3>2. PICK at \in Places : view' = [view EXCEPT ![v].at = at] BY <3>1
    <3>3. [view EXCEPT ![v].at = at] \in [Viewers -> Views] BY ViewParts
    <3> QED BY <3>2, <3>3
  <2> QED BY <1>2, <2>1, <2>2, ViewerType DEF StreamGone, server, TypeOK
<1>3. CASE Mount(v)
  <2>1. conn' \in [Viewers -> Conns] BY <1>3, ConnParts DEF Mount, Close
  <2>2. [phase |-> IF v \in Pages THEN "idle" ELSE "generating", at |-> "mount", attempts |-> 0] \in Views
    BY GenerationAssumption DEF GenerationAssumption, Views
  <2>3. view' \in [Viewers -> Views] BY <1>3, <2>2, ViewParts DEF Mount
  <2>4. mishaps' \in 0..MaxMishaps BY <1>3, MishapType DEF Mount, TypeOK
  <2> QED BY <1>3, <2>1, <2>3, <2>4, ViewerType DEF Mount, server, TypeOK
<1>4. CASE StartGeneration(v)
  <2>1. view' \in [Viewers -> Views] BY <1>4, ViewParts DEF StartGeneration, Phases, Places
  <2> QED BY <1>4, <2>1 DEF StartGeneration, TypeOK, Views
<1> QED BY <1>1, <1>2, <1>3, <1>4 DEF Browser

LEMMA AnsweredType ==
  ASSUME TypeOK, NEW v \in Viewers, Answered(v) \/ DetailFails(v)
  PROVE  TypeOK'
<1>1. UNCHANGED server /\ UNCHANGED restarted
  BY DEF Answered, Started, PageAnswered, WidgetAnswered, Resubscribe, DetailFails
<1>2. saved' \in BOOLEAN
  BY DEF Answered, Started, PageAnswered, WidgetAnswered, Resubscribe, DetailFails, TypeOK
<1>3. mishaps' \in 0..MaxMishaps
  BY MishapType DEF Answered, Started, PageAnswered, WidgetAnswered, Resubscribe, DetailFails, TypeOK
<1>4. \A phase \in Phases, at \in Places : Show(v, phase, at) \in [Viewers -> Views]
  BY ViewParts
<1>5. conn \in [Viewers -> Conns] /\ view \in [Viewers -> Views] BY ConnParts, ViewParts
<1>6. CASE Started(v)
  <2>1. conn' \in [Viewers -> Conns] /\ view' \in [Viewers -> Views]
    BY <1>4, <1>5, <1>6, SubscribeType DEF Started, Phases, Places
  <2> QED BY <1>1, <1>2, <1>3, <2>1, ViewerType DEF server, TypeOK
<1>7. CASE PageAnswered(v)
  <2>1. ASSUME view' = [view EXCEPT ![v].at = "pause", ![v].attempts = @ + 1], MayReconnect(v)
        PROVE  view' \in [Viewers -> Views]
    BY <2>1, <1>5, GenerationAssumption DEF Views, MayReconnect, GenerationAssumption
  <2>2. conn' \in [Viewers -> Conns] /\ view' \in [Viewers -> Views]
    BY <1>4, <1>5, <1>7, <2>1, SubscribeType DEF PageAnswered, Phases, Places
  <2> QED BY <1>1, <1>2, <1>3, <2>2, ViewerType DEF server, TypeOK
<1>8. CASE WidgetAnswered(v)
  <2>1. view[v].phase \in Phases BY ViewParts
  <2>2. conn' \in [Viewers -> Conns] /\ view' \in [Viewers -> Views]
    BY <1>4, <1>5, <1>8, <2>1, SubscribeType DEF WidgetAnswered, Phases, Places
  <2> QED BY <1>1, <1>2, <1>3, <2>2, ViewerType DEF server, TypeOK
<1>9. CASE Resubscribe(v)
  BY <1>1, <1>2, <1>3, <1>9, SubscribeType, ViewerType DEF Resubscribe, server, TypeOK
<1>10. CASE DetailFails(v)
  <2>1. conn' \in [Viewers -> Conns] /\ view' \in [Viewers -> Views]
    BY <1>4, <1>5, <1>10, SubscribeType DEF DetailFails, Phases, Places
  <2> QED BY <1>1, <1>2, <1>3, <2>1, ViewerType DEF server, TypeOK
<1> QED BY <1>6, <1>7, <1>8, <1>9, <1>10 DEF Answered

LEMMA RestartType == ASSUME TypeOK, Restart PROVE TypeOK'
<1>0. conn \in [Viewers -> Conns] /\ view \in [Viewers -> Views] BY DEF TypeOK, Conns, Views
<1>1. conn' \in [Viewers -> Conns] /\ view' \in [Viewers -> Views]
  <2>1. \A u \in Viewers : [conn[u] EXCEPT !.state = "broken"] \in Conns BY <1>0 DEF Conns
  <2>2. \A u \in Viewers : [view[u] EXCEPT !.phase = "lost", !.at = "rest"] \in Views BY <1>0 DEF Views
  <2> QED BY <1>0, <2>1, <2>2 DEF Restart
<1>2. mishaps' \in 0..MaxMishaps BY MishapType DEF Restart
<1> QED BY <1>1, <1>2 DEF Restart, TypeOK, Conns, Views, Terminal

LEMMA NextType == TypeOK /\ [Next]_vars => TypeOK'
<1> SUFFICES ASSUME TypeOK, [Next]_vars PROVE TypeOK'
  OBVIOUS
<1>1. CASE UNCHANGED vars BY <1>1 DEF vars, TypeOK
<1>2. CASE Cleanup BY <1>2 DEF Cleanup, TypeOK, Terminal
<1> QED BY <1>1, <1>2, PipelineType, StreamType, BrowserType, AnsweredType, RestartType DEF Next

\* The row, the entry, the streams and the viewers keep their types; a page never
\* exceeds MAX_RECONNECT_ATTEMPTS.
THEOREM GenerationType == Spec => []TypeOK
BY InitType, NextType, PTL DEF Spec
-----------------------------------------------------------------------------
(* Where the row, the entry and the pipeline agree, and what a viewer may  *)
(* conclude from each of them.                                             *)

\* The pipeline failed, or ended without a result.
Lost == pipe \in {"failing", "over"} /\ db # "completed"

\* Nobody follows a generation that is not in the table yet.
Early == pipe \in {"none", "row"} =>
    /\ ~timer /\ task.events = <<>> /\ task.status = "pending"
    /\ \A v \in Viewers : conn[v] = NoConn /\ view[v].at \in {"rest", "posting"}

\* The row and the entry.
Table ==
    /\ db = "completed" => stored /\ pipe \in {"recording", "failing", "over"}
    /\ db = "failed" => pipe = "over"
    /\ pipe = "recording" => stored
    /\ timer => task.status \in Terminal
    /\ restarted => pipe = "over"
    /\ ~restarted =>
         /\ task.status = "completed" => db = "completed" /\ pipe \in {"recording", "over"}
         /\ task.status = "failed" => pipe \in {"failing", "over"}
         /\ ~task.here /\ pipe \notin {"none", "row"} => task.status \in Terminal

\* What an event says.
Log == \A k \in 1..Len(task.events) :
    /\ task.events[k] = "completed" => stored
    /\ task.events[k] = "error" => db = "failed"

\* A stream sends what there is; a page finds no entry only when there is no result.
Streams == \A v \in Viewers :
    /\ ~conn[v].missing => conn[v].sent <= Len(task.events)
    /\ conn[v].missing /\ v \in Pages /\ ~restarted => Lost

\* What a viewer waits for and shows.
Waits == \A v \in Viewers :
    /\ v \in Pages /\ view[v].at = "result" => stored
    /\ view[v].at = "pause" /\ ~task.here /\ ~restarted => Lost
    /\ view[v].phase = "done" => stored
    /\ v \in Pages /\ view[v].phase = "failed" /\ ~restarted => Lost

Facts == Early /\ Table /\ Log /\ Streams /\ Waits
IInv == TypeOK /\ Facts

LEMMA InitFacts == Init => Facts
<1> SUFFICES ASSUME Init PROVE Facts
  OBVIOUS
<1>1. Len(task.events) = 0 BY DEF Init
<1>2. Early /\ Table BY DEF Init, Early, Table, NoConn, NoView, Terminal
<1>3. Log BY <1>1 DEF Log
<1>4. Streams /\ Waits BY <1>1 DEF Init, Streams, Waits, NoConn, NoView
<1> QED BY <1>2, <1>3, <1>4 DEF Facts

\* An unlisted generation that is not said to be over has failed.
LEMMA Unlisted ==
  ASSUME IInv, ~task.here, ~restarted, db \notin Terminal, pipe \notin {"none", "row"}
  PROVE  Lost
BY DEF IInv, Facts, Table, Lost, Terminal

\* The streams and the viewers stay right while the pipeline goes on.
LEMMA Followers ==
  ASSUME IInv, UNCHANGED <<conn, view, restarted>>, stored => stored', Lost => Lost',
         Len(task.events) <= Len(task'.events) \/ pipe \in {"none", "row"},
         ~task'.here => ~task.here, Len(task'.events) \in Nat
  PROVE  Streams' /\ Waits'
<1>1. CASE pipe \in {"none", "row"}
  BY <1>1 DEF IInv, Facts, Early, Streams, Waits, NoConn
<1>2. CASE Len(task.events) <= Len(task'.events)
  <2>1. \A v \in Viewers : conn[v].sent \in Nat BY DEF IInv, TypeOK
  <2>2. Len(task.events) \in Nat BY DEF IInv, TypeOK
  <2> QED BY <1>2, <2>1, <2>2 DEF IInv, Facts, Streams, Waits
<1> QED BY <1>1, <1>2

\* An event is added to the list.
LEMMA EmitLog ==
  ASSUME IInv, NEW e, task' = Emit(e), stored => stored', db = "failed" => db' = "failed",
         e = "completed" => stored', e = "error" => db' = "failed"
  PROVE  /\ Log' /\ task'.here = task.here /\ task'.status = task.status
         /\ Len(task'.events) \in Nat /\ Len(task.events) <= Len(task'.events)
<1>1. task \in Tasks /\ task.events \in Seq({"progress", "completed", "error"})
  BY DEF IInv, TypeOK, Tasks
<1>2. /\ task'.events = Append(task.events, e)
      /\ task'.here = task.here /\ task'.status = task.status
  BY <1>1 DEF Emit, Tasks
<1>3. /\ Len(task'.events) = Len(task.events) + 1 /\ Len(task.events) \in Nat
      /\ \A k \in 1..Len(task'.events) :
            \/ k \in 1..Len(task.events) /\ task'.events[k] = task.events[k]
            \/ task'.events[k] = e
  BY <1>1, <1>2
<1> QED BY <1>2, <1>3 DEF IInv, Facts, Log

\* The status of the entry changes, not the list.
LEMMA StatusLog ==
  ASSUME IInv, NEW x, task' = task \/ task' = [task EXCEPT !.status = x],
         stored => stored', db = "failed" => db' = "failed"
  PROVE  /\ Log' /\ task'.here = task.here /\ task'.events = task.events
         /\ Len(task'.events) \in Nat /\ Len(task.events) <= Len(task'.events)
         /\ task' # task => task'.status = x
<1>1. task \in Tasks /\ Len(task.events) \in Nat
  BY DEF IInv, TypeOK, Tasks
<1>2. task'.here = task.here /\ task'.events = task.events /\ (task' # task => task'.status = x)
  BY <1>1 DEF Tasks
<1> QED BY <1>1, <1>2 DEF IInv, Facts, Log

LEMMA PipelineFacts == ASSUME IInv, Pipeline PROVE Facts'
<1> USE DEF Table, Lost, Terminal
<1>0. Early /\ Table /\ task \in Tasks BY DEF IInv, Facts, TypeOK, Tasks
<1>1. CASE QueueTask
  <2>1. task' = [here |-> TRUE, status |-> "pending", events |-> <<>>] /\ Len(task'.events) = 0
    BY <1>1 DEF QueueTask
  <2>2. Early' /\ Table' BY <1>0, <1>1, <2>1 DEF QueueTask, Early
  <2>3. Log' BY <2>1 DEF Log
  <2>4. Streams' /\ Waits' BY <1>1, <2>1, Followers DEF QueueTask
  <2> QED BY <2>2, <2>3, <2>4 DEF Facts
<1>2. CASE BeginPipeline
  <2>1. /\ Log' /\ task'.here = task.here /\ task'.status = "running"
        /\ Len(task'.events) \in Nat /\ Len(task.events) <= Len(task'.events)
    BY <1>0, <1>2, StatusLog DEF BeginPipeline, Tasks
  <2>2. Early' /\ Table' BY <1>0, <1>2, <2>1 DEF BeginPipeline, Early, Tasks
  <2>3. Streams' /\ Waits' BY <1>2, <2>1, Followers DEF BeginPipeline
  <2> QED BY <2>1, <2>2, <2>3 DEF Facts
<1>3. CASE MarkRunning
  <2>1. /\ Log' /\ task'.here = task.here /\ task'.status \in {task.status, "failed"}
        /\ Len(task'.events) \in Nat /\ Len(task.events) <= Len(task'.events)
    BY <1>0, <1>3, StatusLog DEF MarkRunning, Fails
  <2>2. Early' /\ Table' BY <1>0, <1>3, <2>1 DEF MarkRunning, Fails, Early, Tasks
  <2>3. Streams' /\ Waits' BY <1>3, <2>1, Followers DEF MarkRunning, Fails
  <2> QED BY <2>1, <2>2, <2>3 DEF Facts
<1>4. CASE RunGraph
  <2>1. /\ Log' /\ task'.here = task.here /\ task'.status \in {task.status, "failed"}
        /\ Len(task'.events) \in Nat /\ Len(task.events) <= Len(task'.events)
        /\ task'.status = "failed" => task.status = "failed" \/ pipe' = "failing"
    BY <1>4, StatusLog, EmitLog DEF RunGraph, Fails
  <2>2. Early' /\ Table' BY <1>0, <1>4, <2>1 DEF RunGraph, Fails, Early
  <2>3. Streams' /\ Waits' BY <1>4, <2>1, Followers DEF RunGraph, Fails
  <2> QED BY <2>1, <2>2, <2>3 DEF Facts
<1>5. CASE PersistResults
  <2>1. stored => stored' BY <1>5 DEF PersistResults
  <2>2. /\ Log' /\ task'.here = task.here
        /\ Len(task'.events) \in Nat /\ Len(task.events) <= Len(task'.events)
        /\ \/ task'.status = "completed" /\ pipe' = "recording" /\ db' = "completed" /\ stored'
           \/ task'.status = "failed" /\ pipe' = "failing"
    BY <1>0, <1>5, <2>1, StatusLog DEF PersistResults, Fails, Tasks
  <2>3. Early' /\ Table' BY <1>0, <1>5, <2>2 DEF PersistResults, Fails, Early
  <2>4. Streams' /\ Waits' BY <1>5, <2>1, <2>2, Followers DEF PersistResults, Fails
  <2> QED BY <2>2, <2>3, <2>4 DEF Facts
<1>6. CASE AnnounceCompleted
  <2>1. /\ Log' /\ task'.here = task.here /\ task'.status = task.status
        /\ Len(task'.events) \in Nat /\ Len(task.events) <= Len(task'.events)
    BY <1>0, <1>6, EmitLog DEF AnnounceCompleted
  <2>2. Early' /\ Table' BY <1>0, <1>6, <2>1 DEF AnnounceCompleted, Early
  <2>3. Streams' /\ Waits' BY <1>6, <2>1, Followers DEF AnnounceCompleted
  <2> QED BY <2>1, <2>2, <2>3 DEF Facts
<1>7. CASE RecordFailure
  <2>1. /\ Log' /\ task'.here = task.here /\ task'.status = task.status
        /\ Len(task'.events) \in Nat /\ Len(task.events) <= Len(task'.events)
    BY <1>0, <1>7, EmitLog, StatusLog DEF RecordFailure
  <2>2. Early' /\ Table' BY <1>0, <1>7, <2>1 DEF RecordFailure, Early
  <2>3. Streams' /\ Waits' BY <1>7, <2>1, Followers DEF RecordFailure
  <2> QED BY <2>1, <2>2, <2>3 DEF Facts
<1> QED BY <1>1, <1>2, <1>3, <1>4, <1>5, <1>6, <1>7 DEF Pipeline

\* The server's side of the streams, and the network.
LEMMA StreamFacts ==
  ASSUME IInv, NEW v \in Viewers, Stream(v) \/ Drop(v)
  PROVE  Facts'
<1>0. /\ UNCHANGED <<db, stored, task, pipe, view, restarted>>
      /\ timer' = timer \/ (timer' = TRUE /\ task.status \in Terminal)
      /\ conn[v].state # "none"
  <2>1. CASE SendEvent(v) BY <2>1 DEF SendEvent, server
  <2>2. CASE EndStream(v) BY <2>2 DEF EndStream
  <2>3. CASE Drop(v) BY <2>3 DEF Drop, server
  <2> QED BY <2>1, <2>2, <2>3 DEF Stream
<1>1. pipe \notin {"none", "row"} BY <1>0 DEF IInv, Facts, Early, NoConn
<1>2. Early' /\ Table' /\ Log' /\ Waits'
  BY <1>0, <1>1 DEF IInv, Facts, Early, Table, Log, Waits, Lost
<1>3. conn \in [Viewers -> Conns] /\ Len(task.events) \in Nat BY DEF IInv, TypeOK, Conns
<1>4. /\ \A u \in Viewers : u # v => conn'[u] = conn[u]
      /\ conn'[v].missing = conn[v].missing
      /\ \/ conn'[v].sent = conn[v].sent
         \/ conn'[v].sent = conn[v].sent + 1 /\ conn[v].sent < Len(task.events)
  <2>1. CASE SendEvent(v)
    <3>1. conn' = [conn EXCEPT ![v] = [conn[v] EXCEPT !.sent = @ + 1]] /\ conn[v].sent < Len(task.events)
      BY <2>1 DEF SendEvent
    <3> QED BY <1>3, <3>1 DEF Conns
  <2>2. CASE EndStream(v)
    <3>1. conn' = [conn EXCEPT ![v] = [conn[v] EXCEPT !.state = "ended"]] BY <2>2 DEF EndStream
    <3> QED BY <1>3, <3>1 DEF Conns
  <2>3. CASE Drop(v)
    <3>1. conn' = [conn EXCEPT ![v] = [conn[v] EXCEPT !.state = "broken"]] BY <2>3 DEF Drop
    <3> QED BY <1>3, <3>1 DEF Conns
  <2> QED BY <2>1, <2>2, <2>3 DEF Stream
<1>5. conn[v].sent \in Nat BY <1>3 DEF Conns
<1>6. Streams' BY <1>0, <1>3, <1>4, <1>5 DEF IInv, Facts, Streams, Lost
<1> QED BY <1>2, <1>6 DEF Facts

LEMMA CleanupFacts == ASSUME IInv, Cleanup PROVE Facts'
<1>1. task' = [task EXCEPT !.here = FALSE] /\ UNCHANGED <<db, stored, pipe, conn, view, restarted>>
  BY DEF Cleanup
<1>2. task'.events = task.events /\ task'.status = task.status
  BY <1>1 DEF IInv, TypeOK
<1>3. timer /\ ~timer' /\ \A v \in Viewers : view[v].at = "rest"
  BY DEF Cleanup
<1>4. Early' /\ Table' BY <1>1, <1>2, <1>3 DEF IInv, Facts, Early, Table
<1>5. Log' /\ Streams' /\ Waits'
  BY <1>1, <1>2, <1>3 DEF IInv, Facts, Log, Streams, Waits, Lost
<1> QED BY <1>4, <1>5 DEF Facts

LEMMA RestartFacts == ASSUME IInv, Restart PROVE Facts'
<1>1. /\ task' = [task EXCEPT !.here = FALSE] /\ UNCHANGED <<db, stored>>
      /\ pipe' = "over" /\ ~timer' /\ restarted'
  BY DEF Restart
<1>2. task'.events = task.events
  BY <1>1 DEF IInv, TypeOK
<1>3. Early' /\ Table' /\ Log' BY <1>1, <1>2 DEF IInv, Facts, Early, Table, Log
<1>4. \A v \in Viewers : conn'[v].sent = conn[v].sent /\ conn'[v].missing = conn[v].missing
  <2> TAKE v \in Viewers
  <2>1. conn[v] \in Conns BY DEF IInv, TypeOK, Conns
  <2>2. conn'[v] \in {conn[v], [conn[v] EXCEPT !.state = "broken"]} BY DEF Restart
  <2> QED BY <2>1, <2>2 DEF Conns
<1>5. \A v \in Viewers : view'[v] = view[v] \/ (view'[v].at = "rest" /\ view'[v].phase = "lost")
  <2> TAKE v \in Viewers
  <2>1. view[v] \in Views BY DEF IInv, TypeOK, Views
  <2>2. view'[v] \in {view[v], [view[v] EXCEPT !.phase = "lost", !.at = "rest"]} BY DEF Restart
  <2> QED BY <2>1, <2>2 DEF Views
<1>6. Streams' BY <1>1, <1>2, <1>4 DEF IInv, Facts, Streams
<1>7. Waits' BY <1>1, <1>5 DEF IInv, Facts, Waits
<1> QED BY <1>3, <1>6, <1>7 DEF Facts

\* A step of one viewer, seen from what it leaves to it.
LEMMA ViewerFacts ==
  ASSUME IInv, NEW v \in Viewers, UNCHANGED <<server, restarted>>, pipe \notin {"none", "row"},
         \A u \in Viewers : u # v => conn'[u] = conn[u] /\ view'[u] = view[u],
         ~conn'[v].missing => conn'[v].sent <= Len(task.events),
         conn'[v].missing /\ v \in Pages /\ ~restarted => Lost,
         v \in Pages /\ view'[v].at = "result" => stored,
         view'[v].at = "pause" /\ ~task.here /\ ~restarted => Lost,
         view'[v].phase = "done" => stored,
         v \in Pages /\ view'[v].phase = "failed" /\ ~restarted => Lost
  PROVE  Facts'
<1>1. Early' /\ Table' /\ Log' BY DEF server, IInv, Facts, Early, Table, Log
<1>2. Streams' BY DEF server, IInv, Facts, Streams, Lost
<1>3. Waits' BY DEF server, IInv, Facts, Waits, Lost
<1> QED BY <1>1, <1>2, <1>3 DEF Facts

\* What a viewer that is not at rest, or has a stream, may count on.
LEMMA Listed ==
  ASSUME IInv, NEW v \in Viewers,
         view[v].at \notin {"rest", "posting"} \/ conn[v].state # "none" \/ conn[v].got # conn[v].sent
  PROVE  pipe \notin {"none", "row"}
BY DEF IInv, Facts, Early, NoConn

\* A viewer that subscribes: without an entry there is no result.
LEMMA SubscribeFacts ==
  ASSUME IInv, NEW v \in Viewers, Subscribe(v), UNCHANGED <<server, restarted>>,
         pipe \notin {"none", "row"}, v \in Pages /\ ~task.here /\ ~restarted => Lost
  PROVE  Facts'
<1>1. /\ conn' = [conn EXCEPT ![v] = Opened]
      /\ view' = [view EXCEPT ![v].phase = "generating", ![v].at = "rest"]
  BY DEF Subscribe, Show
<1>2. conn \in [Viewers -> Conns] /\ view \in [Viewers -> Views] /\ Len(task.events) \in Nat
  BY DEF IInv, TypeOK, Conns, Views
<1>3. conn'[v] = Opened /\ view'[v].phase = "generating" /\ view'[v].at = "rest"
  BY <1>1, <1>2 DEF Views
<1>4. \A u \in Viewers : u # v => conn'[u] = conn[u] /\ view'[u] = view[u]
  BY <1>1, <1>2
<1>5. /\ ~Opened.missing => Opened.sent <= Len(task.events)
      /\ Opened.missing => ~task.here
  BY <1>2 DEF Opened, NoConn
<1> QED BY <1>3, <1>4, <1>5, ViewerFacts

\* A viewer that shows something, with its stream as it was or closed.
LEMMA ShowFacts ==
  ASSUME IInv, NEW v \in Viewers, NEW phase \in Phases, NEW at \in Places,
         UNCHANGED <<server, restarted>>, pipe \notin {"none", "row"},
         conn' = conn \/ conn' = [conn EXCEPT ![v] = NoConn],
         view'[v].phase = phase, view'[v].at = at,
         \A u \in Viewers : u # v => view'[u] = view[u],
         v \in Pages /\ at = "result" => stored,
         at = "pause" /\ ~task.here /\ ~restarted => Lost,
         phase = "done" => stored,
         v \in Pages /\ phase = "failed" /\ ~restarted => Lost
  PROVE  Facts'
<1>1. conn \in [Viewers -> Conns] /\ Len(task.events) \in Nat
  BY DEF IInv, TypeOK, Conns
<1>2. conn'[v] = conn[v] \/ conn'[v] = NoConn BY <1>1
<1>3. \A u \in Viewers : u # v => conn'[u] = conn[u] BY <1>1
<1>4. /\ ~conn'[v].missing => conn'[v].sent <= Len(task.events)
      /\ conn'[v].missing /\ v \in Pages /\ ~restarted => Lost
  BY <1>1, <1>2 DEF IInv, Facts, Streams, NoConn
<1> QED BY <1>3, <1>4, ViewerFacts

LEMMA BrowserFacts == ASSUME IInv, NEW v \in Viewers, Browser(v) PROVE Facts'
<1>1. conn \in [Viewers -> Conns] /\ view \in [Viewers -> Views] /\ conn[v] \in Conns /\ view[v] \in Views
  BY DEF IInv, TypeOK, Conns, Views
<1>2. view[v].phase \in Phases /\ conn[v].got \in Nat /\ conn[v].sent \in Nat
  BY <1>1 DEF Conns, Views, Phases
<1>3. UNCHANGED <<server, restarted>> BY DEF Browser, HandleEvent, StreamGone
<1>4. pipe \notin {"none", "row"}
  BY <1>2, Listed DEF Browser, HandleEvent, StreamGone
<1>5. /\ v \in Pages /\ view[v].at = "result" => stored
      /\ view[v].phase = "done" => stored
      /\ v \in Pages /\ view[v].phase = "failed" /\ ~restarted => Lost
  BY DEF IInv, Facts, Waits
<1>6. CASE HandleEvent(v)
  <2> DEFINE e == IF conn[v].missing THEN "error" ELSE task.events[conn[v].got + 1]
  <2>1. view[v].at = "rest" /\ conn[v].got < conn[v].sent BY <1>6 DEF HandleEvent
  <2>2. ~conn[v].missing => conn[v].got + 1 \in 1..Len(task.events)
    BY <1>2, <2>1 DEF IInv, Facts, Streams, TypeOK
  <2>3. /\ e = "completed" => stored
        /\ e = "error" /\ v \in Pages /\ ~restarted => Lost
    BY <2>2 DEF IInv, Facts, Log, Streams, Table, Lost
  <2>4. CASE /\ conn' = [conn EXCEPT ![v].got = @ + 1]
             /\ view' = [view EXCEPT ![v].attempts = 0]
    <3>1. /\ conn' = [conn EXCEPT ![v] = [conn[v] EXCEPT !.got = @ + 1]]
          /\ view' = [view EXCEPT ![v] = [view[v] EXCEPT !.attempts = 0]]
      BY <2>4
    <3>2. /\ conn'[v].missing = conn[v].missing /\ conn'[v].sent = conn[v].sent
          /\ view'[v].at = "rest" /\ view'[v].phase = view[v].phase
      BY <1>1, <2>1, <3>1 DEF Conns, Views
    <3>3. \A u \in Viewers : u # v => conn'[u] = conn[u] /\ view'[u] = view[u]
      BY <1>1, <3>1
    <3>4. /\ ~conn[v].missing => conn[v].sent <= Len(task.events)
          /\ conn[v].missing /\ v \in Pages /\ ~restarted => Lost
      BY DEF IInv, Facts, Streams
    <3> QED BY <1>3, <1>4, <1>5, <3>2, <3>3, <3>4, ViewerFacts
  <2>5. CASE /\ e = "completed" /\ conn' = Close(v)
             /\ view' = [view EXCEPT ![v].at = "result", ![v].attempts = 0]
    <3>1. view' = [view EXCEPT ![v] = [view[v] EXCEPT !.at = "result", !.attempts = 0]] BY <2>5
    <3>2. view'[v].phase = view[v].phase /\ view'[v].at = "result" BY <1>1, <3>1 DEF Views
    <3>3. \A u \in Viewers : u # v => view'[u] = view[u] BY <1>1, <3>1
    <3>4. conn' = [conn EXCEPT ![v] = NoConn] BY <2>5 DEF Close
    <3> QED BY <1>2, <1>3, <1>4, <1>5, <2>3, <2>5, <3>2, <3>3, <3>4, ShowFacts DEF Places
  <2>6. CASE /\ e = "error" /\ conn' = Close(v)
             /\ view' = [view EXCEPT ![v].phase = "failed", ![v].attempts = 0]
    <3>1. view' = [view EXCEPT ![v] = [view[v] EXCEPT !.phase = "failed", !.attempts = 0]] BY <2>6
    <3>2. view'[v].phase = "failed" /\ view'[v].at = "rest" BY <1>1, <2>1, <3>1 DEF Views
    <3>3. \A u \in Viewers : u # v => view'[u] = view[u] BY <1>1, <3>1
    <3>4. conn' = [conn EXCEPT ![v] = NoConn] BY <2>6 DEF Close
    <3> QED BY <1>3, <1>4, <2>3, <2>6, <3>2, <3>3, <3>4, ShowFacts DEF Places, Phases
  <2> QED BY <1>6, <2>4, <2>5, <2>6 DEF HandleEvent
<1>7. CASE StreamGone(v)
  <2> DEFINE at == IF v \in Pages THEN "fallback" ELSE "result"
  <2>1. conn' = [conn EXCEPT ![v] = NoConn] /\ view' = [view EXCEPT ![v] = [view[v] EXCEPT !.at = at]]
    BY <1>7 DEF StreamGone, Close
  <2>2. view'[v].phase = view[v].phase /\ view'[v].at = at BY <1>1, <2>1 DEF Views
  <2>3. \A u \in Viewers : u # v => view'[u] = view[u] BY <1>1, <2>1
  <2>4. at \in Places BY DEF Places
  <2> QED BY <1>2, <1>3, <1>4, <1>5, <2>1, <2>2, <2>3, <2>4, ShowFacts
<1> QED BY <1>6, <1>7 DEF Browser

\* Show() keeps what it does not set.
LEMMA Showing ==
  ASSUME IInv, NEW v \in Viewers, NEW phase, NEW at, view' = Show(v, phase, at)
  PROVE  /\ view'[v].phase = phase /\ view'[v].at = at
         /\ \A u \in Viewers : u # v => view'[u] = view[u]
<1>1. view \in [Viewers -> Views] /\ view[v] \in Views BY DEF IInv, TypeOK, Views
<1>2. view' = [view EXCEPT ![v] = [view[v] EXCEPT !.phase = phase, !.at = at]] BY DEF Show
<1> QED BY <1>1, <1>2 DEF Views

LEMMA AnsweredFacts ==
  ASSUME IInv, NEW v \in Viewers, Answered(v) \/ DetailFails(v)
  PROVE  Facts'
<1>1. UNCHANGED <<server, restarted>>
  BY DEF Answered, Started, PageAnswered, WidgetAnswered, Resubscribe, DetailFails, server
<1>2. pipe \notin {"none", "row"} \/ Started(v)
  BY Listed DEF Answered, PageAnswered, WidgetAnswered, Resubscribe, DetailFails
<1>3. view[v].phase \in Phases /\ (db = "completed" => stored)
  BY DEF IInv, TypeOK, Phases, Facts, Table
<1>4. /\ v \in Pages /\ view[v].at = "result" => stored
      /\ view[v].at = "pause" /\ ~task.here /\ ~restarted => Lost
      /\ v \in Pages /\ db = "failed" => Lost
      /\ view[v].phase = "done" => stored
      /\ v \in Pages /\ view[v].phase = "failed" /\ ~restarted => Lost
  BY DEF IInv, Facts, Waits, Table, Lost
<1>5. CASE Started(v)
  <2>1. CASE Subscribe(v) /\ pipe \notin {"none", "row"} /\ task.here
    BY <1>1, <2>1, SubscribeFacts
  <2>2. CASE view' = Show(v, "lost", "rest") /\ UNCHANGED conn
    <3>1. /\ view'[v].phase = "lost" /\ view'[v].at = "rest"
          /\ \A u \in Viewers : u # v => view'[u] = view[u]
      BY <2>2, Showing
    <3>2. Early' /\ Table' /\ Log' /\ Streams'
      BY <1>1, <2>2, <3>1 DEF server, IInv, Facts, Early, Table, Log, Streams, Lost
    <3>3. Waits' BY <1>1, <3>1 DEF server, IInv, Facts, Waits, Lost
    <3> QED BY <3>2, <3>3 DEF Facts
  <2> QED BY <1>5, <2>1, <2>2 DEF Started
<1>6. CASE PageAnswered(v)
  <2>0. pipe \notin {"none", "row"} BY <1>6, Listed DEF PageAnswered
  <2>1. CASE (db = "completed" \/ view[v].at = "result") /\ view' = Show(v, "done", "rest") /\ UNCHANGED conn
    BY <1>1, <1>3, <1>4, <1>6, <2>0, <2>1, Showing, ShowFacts DEF PageAnswered, Phases, Places
  <2>2. CASE IsFailed(v) /\ view' = Show(v, "failed", "rest") /\ UNCHANGED conn
    BY <1>1, <1>4, <1>6, <2>0, <2>2, Showing, ShowFacts DEF PageAnswered, IsFailed, Phases, Places
  <2>3. CASE db \notin Terminal /\ Subscribe(v)
    BY <1>1, <2>0, <2>3, Unlisted, SubscribeFacts
  <2>4. CASE /\ db \notin Terminal /\ UNCHANGED conn
             /\ view' = [view EXCEPT ![v].at = "pause", ![v].attempts = @ + 1]
    <3>1. view \in [Viewers -> Views] /\ view[v] \in Views BY DEF IInv, TypeOK, Views
    <3>2. view' = [view EXCEPT ![v] = [view[v] EXCEPT !.at = "pause", !.attempts = @ + 1]] BY <2>4
    <3>3. view'[v].phase = view[v].phase /\ view'[v].at = "pause" BY <3>1, <3>2 DEF Views
    <3>4. \A u \in Viewers : u # v => view'[u] = view[u] BY <3>1, <3>2
    <3>5. ~task.here /\ ~restarted => Lost BY <2>0, <2>4, Unlisted
    <3> QED BY <1>1, <1>3, <1>4, <2>0, <2>4, <3>3, <3>4, <3>5, ShowFacts DEF Places
  <2>5. CASE view' = Show(v, "lost", "rest") /\ UNCHANGED conn
    BY <1>1, <2>0, <2>5, Showing, ShowFacts DEF Phases, Places
  <2> QED BY <1>6, <2>1, <2>2, <2>3, <2>4, <2>5 DEF PageAnswered
<1>7. CASE WidgetAnswered(v)
  <2>0. pipe \notin {"none", "row"} /\ v \notin Pages BY <1>7, Listed DEF WidgetAnswered
  <2>1. CASE view' = Show(v, view[v].phase, "result") /\ UNCHANGED conn
    BY <1>1, <1>3, <1>4, <2>0, <2>1, Showing, ShowFacts DEF Places
  <2>2. CASE Subscribe(v) BY <1>1, <2>0, <2>2, SubscribeFacts
  <2>3. CASE HasCandidates /\ view' = Show(v, "done", "rest") /\ UNCHANGED conn
    BY <1>1, <2>0, <2>3, Showing, ShowFacts DEF HasCandidates, Phases, Places
  <2>4. CASE view' = Show(v, "failed", "rest") /\ UNCHANGED conn
    BY <1>1, <2>0, <2>4, Showing, ShowFacts DEF Phases, Places
  <2> QED BY <1>7, <2>1, <2>2, <2>3, <2>4 DEF WidgetAnswered
<1>8. CASE Resubscribe(v)
  <2>1. pipe \notin {"none", "row"} BY <1>8, Listed DEF Resubscribe
  <2> QED BY <1>1, <1>4, <1>8, <2>1, SubscribeFacts DEF Resubscribe
<1>9. CASE DetailFails(v)
  <2>0. pipe \notin {"none", "row"} BY <1>9, Listed DEF DetailFails
  <2>1. CASE v \notin Pages /\ Subscribe(v) BY <1>1, <2>0, <2>1, SubscribeFacts
  <2>2. ASSUME NEW phase \in {"idle", "lost"}, view' = Show(v, phase, "rest"), UNCHANGED conn
        PROVE  Facts'
    BY <1>1, <2>0, <2>2, Showing, ShowFacts DEF Phases, Places
  <2> QED BY <1>9, <2>1, <2>2 DEF DetailFails
<1> QED BY <1>5, <1>6, <1>7, <1>8, <1>9 DEF Answered

LEMMA MountFacts ==
  ASSUME IInv, NEW v \in Viewers, StartGeneration(v) \/ Mount(v)
  PROVE  Facts'
<1>1. conn \in [Viewers -> Conns] /\ view \in [Viewers -> Views] BY DEF IInv, TypeOK, Conns, Views
<1>2. CASE Mount(v)
  <2> DEFINE phase == IF v \in Pages THEN "idle" ELSE "generating"
  <2>1. /\ conn' = [conn EXCEPT ![v] = NoConn] /\ pipe \notin {"none", "row"}
        /\ view' = [view EXCEPT ![v] = [phase |-> phase, at |-> "mount", attempts |-> 0]]
        /\ UNCHANGED <<server, restarted>>
    BY <1>2 DEF Mount, Close
  <2>2. view'[v].phase = phase /\ view'[v].at = "mount" BY <1>1, <2>1
  <2>3. \A u \in Viewers : u # v => view'[u] = view[u] BY <1>1, <2>1
  <2> QED BY <2>1, <2>2, <2>3, ShowFacts DEF Phases, Places
<1>3. CASE StartGeneration(v)
  <2>1. /\ db' = "pending" /\ pipe = "none" /\ pipe' = "row"
        /\ UNCHANGED <<stored, task, timer, conn, restarted>>
        /\ view' = Show(v, "generating", "posting")
    BY <1>3 DEF StartGeneration
  <2>2. /\ view'[v].phase = "generating" /\ view'[v].at = "posting"
        /\ \A u \in Viewers : u # v => view'[u] = view[u]
    BY <2>1, Showing
  <2>3. Early' /\ Table' BY <2>1, <2>2 DEF IInv, Facts, Early, Table, Terminal
  <2>4. task.events = <<>> /\ \A u \in Viewers : conn[u] = NoConn BY <2>1 DEF IInv, Facts, Early
  <2>5. Log' BY <2>1, <2>4 DEF Log
  <2>6. Streams' BY <2>1, <2>4 DEF Streams, NoConn
  <2>7. Waits'
    BY <2>1, <2>2 DEF IInv, Facts, Waits, Lost
  <2> QED BY <2>3, <2>5, <2>6, <2>7 DEF Facts
<1> QED BY <1>2, <1>3

LEMMA NextIInv == IInv /\ [Next]_vars => IInv'
<1> SUFFICES ASSUME IInv, [Next]_vars PROVE IInv'
  OBVIOUS
<1>1. TypeOK' BY NextType DEF IInv
<1>2. CASE UNCHANGED vars
  BY <1>1, <1>2 DEF vars, IInv, Facts, Early, Table, Log, Streams, Waits, Lost
<1> QED
  BY <1>1, <1>2, PipelineFacts, CleanupFacts, RestartFacts, StreamFacts, BrowserFacts, AnsweredFacts,
     MountFacts DEF Next, IInv

LEMMA IInvHolds == Spec => []IInv
<1>1. Init => IInv BY InitType, InitFacts DEF IInv
<1> QED BY <1>1, NextIInv, PTL DEF Spec

\* Whatever streams, reloads, failing requests and restarts a viewer went through, it
\* shows a result only when the candidates are in the database.
THEOREM ShownIsStored == Spec => []DoneIsStored
<1>1. IInv => DoneIsStored BY DEF IInv, Facts, Waits, DoneIsStored
<1> QED BY <1>1, IInvHolds, PTL

\* Unless the process restarts, a page that shows a failure will not be contradicted
\* by a result.
THEOREM FailedIsFinal == Spec => []FailureIsFinal
<1>1. IInv => FailureIsFinal
  BY GenerationAssumption DEF IInv, Facts, Waits, Lost, FailureIsFinal, GenerationAssumption
<1> QED BY <1>1, IInvHolds, PTL

-----------------------------------------------------------------------------
(* SimRuns.                                                                *)

SimStreams == [state : {"none", "reading", "ended", "broken"}, missing : BOOLEAN, sent : Nat, got : Nat]
SimPhases == {"form", "running", "done", "error"}
SimPlaces == {"rest", "posting", "mount", "check", "result", "pause"}
SimViews == [phase : SimPhases, at : SimPlaces, retries : Int]
SimRun == [status : {"none", "QUEUED", "RUNNING", "COMPLETED", "FAILED"},
         events : Seq({"progress", "completed", "error"}), result : BOOLEAN]

SimShape ==
    /\ run \in SimRun /\ step \in {"none", "queued", "graph", "over"}
    /\ stream \in [S!Watchers -> SimStreams] /\ shown \in [S!Watchers -> SimViews]
    /\ mishaps \in Nat /\ restarted \in BOOLEAN

\* Where the run is, and what its status and its events say of it.
Course ==
    /\ step = "none" => run.status = "none" /\ ~restarted
    /\ step = "queued" => run.status = "QUEUED"
    /\ step = "graph" => run.status = "RUNNING"
    /\ step = "over" => run.status \in S!Ended \/ restarted
    /\ restarted => run.status = "none" /\ step = "over" /\ mishaps # 0
    /\ run.status \in {"none", "QUEUED"} => run.events = <<>>
    /\ run.status = "COMPLETED" <=> run.result
    /\ run.status \in S!Ended => Len(run.events) > 0 /\ run.events[Len(run.events)] # "progress"
    /\ \A k \in 1..Len(run.events) :
         /\ run.events[k] = "completed" => run.status = "COMPLETED"
         /\ run.events[k] = "error" => run.status = "FAILED"

\* A stream sends what there is, and ends when all was sent; only progress is
\* handled without closing it.
Sent == \A v \in S!Watchers :
    /\ ~stream[v].missing =>
         /\ stream[v].sent <= Len(run.events)
         /\ stream[v].state = "ended" => run.status \in S!Ended /\ stream[v].sent = Len(run.events)
         /\ \A k \in 1..stream[v].got : k \in 1..Len(run.events) /\ run.events[k] = "progress"
    /\ stream[v].missing \/ stream[v].state = "broken" => mishaps # 0
    /\ stream[v].state = "none" => stream[v] = S!Closed

\* What a viewer waits for and shows.
Seen == \A v \in S!Watchers :
    /\ shown[v].at \in {"mount", "check", "pause"} => mishaps # 0
    /\ shown[v].at = "posting" => step # "none"
    /\ shown[v].at = "result" => run.result \/ mishaps # 0
    /\ shown[v].phase = "done" => run.result \/ restarted
    /\ shown[v].phase = "error" /\ mishaps = 0 => run.status = "FAILED"

SimInv == SimShape /\ Course /\ Sent /\ Seen
-----------------------------------------------------------------------------
LEMMA InitSimInv == S!Init => SimInv
<1> SUFFICES ASSUME S!Init PROVE SimInv
  OBVIOUS
<1>1. run \in SimRun /\ Len(run.events) = 0 /\ run.events = <<>> /\ run.status = "none"
      /\ ~run.result
  BY DEF S!Init, S!Unknown, SimRun
<1>2. stream \in [S!Watchers -> SimStreams] /\ shown \in [S!Watchers -> SimViews]
  BY DEF S!Init, S!Closed, S!Idle, SimStreams, SimViews, SimPhases, SimPlaces
<1>3. SimShape BY <1>1, <1>2 DEF S!Init, SimShape
<1>4. Course BY <1>1 DEF S!Init, Course, S!Ended
<1>5. Sent BY <1>1 DEF S!Init, Sent, S!Closed
<1>6. Seen BY DEF S!Init, Seen, S!Idle
<1> QED BY <1>3, <1>4, <1>5, <1>6 DEF SimInv

LEMMA SimMishaps == ASSUME SimInv, S!Mishap PROVE mishaps' \in Nat /\ mishaps' # 0
BY DEF SimInv, SimShape, S!Mishap

\* An event is added to those of a run that is not over.
LEMMA EmitCourse ==
  ASSUME SimInv, NEW e \in {"progress", "completed", "error"},
         NEW status \in {"RUNNING", "COMPLETED", "FAILED"}, NEW result \in BOOLEAN,
         S!Emit(e, status, result), run.status \in {"QUEUED", "RUNNING"},
         e = "progress" <=> status = "RUNNING", e = "completed" <=> status = "COMPLETED",
         status = "COMPLETED" <=> result
  PROVE  /\ run' \in SimRun /\ run'.status = status /\ run'.result = result
         /\ Len(run'.events) = Len(run.events) + 1 /\ Len(run.events) \in Nat
         /\ run'.events[Len(run'.events)] = e
         /\ \A k \in 1..Len(run.events) : run.events[k] = "progress" /\ run'.events[k] = "progress"
         /\ \A k \in 1..Len(run'.events) : k \in 1..Len(run.events) \/ k = Len(run'.events)
<1>1. run \in SimRun /\ run.events \in Seq({"progress", "completed", "error"}) /\ Course
  BY DEF SimInv, SimShape, SimRun
<1>2. run' = [status |-> status, events |-> Append(run.events, e), result |-> result]
  BY DEF S!Emit
<1>3. /\ Append(run.events, e) \in Seq({"progress", "completed", "error"})
      /\ Len(Append(run.events, e)) = Len(run.events) + 1 /\ Len(run.events) \in Nat
      /\ \A k \in 1..Len(run.events) : /\ Append(run.events, e)[k] = run.events[k]
                                       /\ run.events[k] \in {"progress", "completed", "error"}
      /\ Append(run.events, e)[Len(run.events) + 1] = e
  BY <1>1
<1>4. \A k \in 1..Len(run.events) : run.events[k] = "progress"
  BY <1>1, <1>3 DEF Course
<1> QED BY <1>2, <1>3, <1>4 DEF SimRun

\* The run goes on or ends: no stream had ended, so none is behind.
LEMMA RunSimInv == ASSUME SimInv, S!Run PROVE SimInv'
<1>1. PICK e \in {"progress", "completed", "error"}, status \in {"RUNNING", "COMPLETED", "FAILED"},
           result \in BOOLEAN :
        /\ S!Emit(e, status, result) /\ (e = "progress" <=> status = "RUNNING")
        /\ (e = "completed" <=> status = "COMPLETED") /\ (status = "COMPLETED" <=> result)
        /\ step' = IF status = "RUNNING" THEN "graph" ELSE "over"
  BY DEF S!Run, S!Begin, S!Progress, S!Complete, S!Fail
<1>2. run.status \in {"QUEUED", "RUNNING"} /\ step # "none" /\ ~restarted
  BY DEF S!Run, S!Begin, S!Progress, S!Complete, S!Fail, SimInv, Course
<1>3. UNCHANGED <<stream, shown, key, mishaps, restarted>>
  BY DEF S!Run, S!Begin, S!Progress, S!Complete, S!Fail
<1>4. /\ run' \in SimRun /\ run'.status = status /\ run'.result = result
      /\ Len(run'.events) = Len(run.events) + 1 /\ Len(run.events) \in Nat
      /\ run'.events[Len(run'.events)] = e
      /\ \A k \in 1..Len(run.events) : run.events[k] = "progress" /\ run'.events[k] = "progress"
      /\ \A k \in 1..Len(run'.events) : k \in 1..Len(run.events) \/ k = Len(run'.events)
  BY <1>1, <1>2, EmitCourse
<1>5. SimShape' BY <1>1, <1>3, <1>4 DEF SimInv, SimShape
<1>6. Course' BY <1>1, <1>2, <1>3, <1>4 DEF Course, S!Ended
<1>7. Sent'
  <2> SUFFICES ASSUME NEW v \in S!Watchers
               PROVE  /\ ~stream[v].missing =>
                           /\ stream[v].sent <= Len(run'.events)
                           /\ stream[v].state # "ended"
                           /\ \A k \in 1..stream[v].got : k \in 1..Len(run'.events) /\ run'.events[k] = "progress"
                      /\ stream[v].missing \/ stream[v].state = "broken" => mishaps # 0
                      /\ stream[v].state = "none" => stream[v] = S!Closed
    BY <1>3 DEF Sent
  <2>1. stream[v].sent \in Nat BY DEF SimInv, SimShape, SimStreams
  <2>2. run.status \notin S!Ended BY <1>2 DEF S!Ended
  <2> QED BY <1>4, <2>1, <2>2 DEF SimInv, Sent
<1>8. Seen'
  <2>1. run.status # "FAILED" /\ ~run.result /\ ~restarted BY <1>2 DEF SimInv, Course
  <2> QED BY <1>1, <1>2, <1>3, <1>4, <2>1 DEF SimInv, Seen
<1> QED BY <1>5, <1>6, <1>7, <1>8 DEF SimInv
-----------------------------------------------------------------------------
\* A step of one viewer, seen from what it leaves to it.
LEMMA ViewerSimInv ==
  ASSUME SimInv, NEW v \in S!Watchers, NEW s \in SimStreams, NEW x \in SimViews,
         UNCHANGED <<run, step, restarted>>,
         mishaps' = mishaps \/ (mishaps' \in Nat /\ mishaps' # 0),
         stream' = [stream EXCEPT ![v] = s], shown' = [shown EXCEPT ![v] = x],
         ~s.missing =>
           /\ s.sent <= Len(run.events)
           /\ s.state = "ended" => run.status \in S!Ended /\ s.sent = Len(run.events)
           /\ \A k \in 1..s.got : k \in 1..Len(run.events) /\ run.events[k] = "progress",
         s.missing \/ s.state = "broken" => mishaps' # 0,
         s.state = "none" => s = S!Closed,
         x.at \in {"mount", "check", "pause"} => mishaps' # 0,
         x.at = "posting" => step # "none",
         x.at = "result" => run.result \/ mishaps' # 0,
         x.phase = "done" => run.result \/ restarted,
         x.phase = "error" /\ mishaps' = 0 => run.status = "FAILED"
  PROVE  SimInv'
<1>1. stream \in [S!Watchers -> SimStreams] /\ shown \in [S!Watchers -> SimViews]
  BY DEF SimInv, SimShape
<1>2. /\ stream'[v] = s /\ shown'[v] = x
      /\ \A u \in S!Watchers : u # v => stream'[u] = stream[u] /\ shown'[u] = shown[u]
  BY <1>1
<1>3. SimShape' BY <1>1 DEF SimInv, SimShape
<1>4. Course' BY DEF SimInv, Course
<1>5. Sent' BY <1>2 DEF SimInv, Sent
<1>6. Seen' BY <1>2 DEF SimInv, Seen
<1> QED BY <1>3, <1>4, <1>5, <1>6 DEF SimInv

\* What is known of a viewer before its step.
LEMMA SimKnown ==
  ASSUME SimInv, NEW v \in S!Watchers
  PROVE  /\ stream[v] \in SimStreams /\ shown[v] \in SimViews /\ Len(run.events) \in Nat
         /\ stream = [stream EXCEPT ![v] = stream[v]] /\ shown = [shown EXCEPT ![v] = shown[v]]
         /\ ~stream[v].missing =>
              /\ stream[v].sent <= Len(run.events)
              /\ stream[v].state = "ended" => run.status \in S!Ended /\ stream[v].sent = Len(run.events)
              /\ \A k \in 1..stream[v].got : k \in 1..Len(run.events) /\ run.events[k] = "progress"
         /\ stream[v].missing \/ stream[v].state = "broken" => mishaps # 0
         /\ stream[v].state = "none" => stream[v] = S!Closed
         /\ shown[v].at \in {"mount", "check", "pause"} => mishaps # 0
         /\ shown[v].at = "posting" => step # "none"
         /\ shown[v].at = "result" => run.result \/ mishaps # 0
         /\ shown[v].phase = "done" => run.result \/ restarted
         /\ shown[v].phase = "error" /\ mishaps = 0 => run.status = "FAILED"
<1>1. /\ stream \in [S!Watchers -> SimStreams] /\ shown \in [S!Watchers -> SimViews]
      /\ run.events \in Seq({"progress", "completed", "error"})
  BY DEF SimInv, SimShape, SimRun
<1>2. Len(run.events) \in Nat BY <1>1
<1>3. stream[v] \in SimStreams /\ shown[v] \in SimViews BY <1>1
<1>4. stream = [stream EXCEPT ![v] = stream[v]] /\ shown = [shown EXCEPT ![v] = shown[v]]
  BY <1>1
<1> QED BY <1>2, <1>3, <1>4 DEF SimInv, Sent, Seen

\* A stream that is closed or opened.
LEMMA SimFresh ==
  ASSUME SimInv
  PROVE  /\ S!Closed \in SimStreams /\ ~S!Closed.missing /\ S!Closed.sent = 0 /\ S!Closed.got = 0
         /\ S!Closed.state = "none"
         /\ S!Opened \in SimStreams /\ S!Opened.got = 0 /\ S!Opened.state # "none" /\ S!Opened.state # "broken"
         /\ ~S!Opened.missing => S!Opened.sent = 0 /\ S!Opened.state = "reading"
         /\ S!Opened.missing => run.status = "none"
         /\ Len(run.events) \in Nat
<1>1. Len(run.events) \in Nat BY DEF SimInv, SimShape, SimRun
<1> QED BY <1>1 DEF S!Closed, S!Opened, SimStreams

\* A viewer that closes its stream, or subscribes.
LEMMA CloseSimInv ==
  ASSUME SimInv, NEW v \in S!Watchers, NEW x \in SimViews,
         UNCHANGED <<run, step, restarted>>,
         mishaps' = mishaps \/ (mishaps' \in Nat /\ mishaps' # 0),
         \/ S!Close(v)
         \/ S!Subscribe(v) /\ (run.status = "none" => mishaps' # 0)
         \/ UNCHANGED stream,
         shown' = [shown EXCEPT ![v] = x],
         x.at \in {"mount", "check", "pause"} => mishaps' # 0,
         x.at = "posting" => step # "none",
         x.at = "result" => run.result \/ mishaps' # 0,
         x.phase = "done" => run.result \/ restarted,
         x.phase = "error" /\ mishaps' = 0 => run.status = "FAILED"
  PROVE  SimInv'
<1>1. CASE S!Close(v)
  <2>1. stream' = [stream EXCEPT ![v] = S!Closed] BY <1>1 DEF S!Close
  <2>2. \A k \in 1..S!Closed.got : FALSE BY SimFresh
  <2>3. S!Closed \in SimStreams /\ ~S!Closed.missing /\ S!Closed.sent <= Len(run.events)
        /\ S!Closed.state # "ended" /\ S!Closed.state # "broken"
    BY SimFresh
  <2> QED BY <2>1, <2>2, <2>3, ViewerSimInv
<1>2. CASE S!Subscribe(v) /\ (run.status = "none" => mishaps' # 0)
  <2>1. stream' = [stream EXCEPT ![v] = S!Opened] BY <1>2 DEF S!Subscribe
  <2>2. \A k \in 1..S!Opened.got : FALSE BY SimFresh
  <2>3. ~S!Opened.missing => S!Opened.sent <= Len(run.events) /\ S!Opened.state # "ended" BY SimFresh
  <2>4. S!Opened.missing \/ S!Opened.state = "broken" => mishaps' # 0 BY <1>2, SimFresh
  <2>5. S!Opened \in SimStreams /\ S!Opened.state # "none" BY SimFresh
  <2> QED BY <2>1, <2>2, <2>3, <2>4, <2>5, ViewerSimInv
<1>3. CASE UNCHANGED stream
  <2>1. stream' = [stream EXCEPT ![v] = stream[v]] BY <1>3, SimKnown
  <2>2. mishaps # 0 => mishaps' # 0 OBVIOUS
  <2> QED BY <2>1, <2>2, SimKnown, ViewerSimInv
<1> QED BY <1>1, <1>2, <1>3

\* Show() as a new record of the viewer.
LEMMA SimShowing ==
  ASSUME SimInv, NEW v \in S!Watchers, NEW phase \in SimPhases, NEW at \in SimPlaces
  PROVE  \E x \in SimViews : x.phase = phase /\ x.at = at /\ S!Show(v, phase, at) = [shown EXCEPT ![v] = x]
<1> DEFINE x == [shown[v] EXCEPT !.phase = phase, !.at = at]
<1>1. shown[v] \in SimViews BY SimKnown
<1>2. x \in SimViews /\ x.phase = phase /\ x.at = at BY <1>1 DEF SimViews
<1>3. S!Show(v, phase, at) = [shown EXCEPT ![v] = x] BY DEF S!Show
<1> QED BY <1>2, <1>3

\* The server's side of a stream, and the network.
LEMMA StreamSimInv == ASSUME SimInv, NEW v \in S!Watchers, S!Stream(v) \/ S!Drop(v) PROVE SimInv'
<1>1. shown' = [shown EXCEPT ![v] = shown[v]] /\ UNCHANGED <<run, step, restarted>>
  BY SimKnown DEF S!Stream, S!SendEvent, S!EndStream, S!Drop
<1>2. stream[v] \in SimStreams /\ stream[v].sent \in Nat /\ Len(run.events) \in Nat
  BY SimKnown DEF SimStreams
<1>3. CASE S!SendEvent(v)
  <2> DEFINE s == [stream[v] EXCEPT !.sent = @ + 1]
  <2>1. /\ stream' = [stream EXCEPT ![v] = s] /\ stream[v].sent < Len(run.events)
        /\ stream[v].state = "reading" /\ UNCHANGED mishaps
    BY <1>3 DEF S!SendEvent
  <2>2. s \in SimStreams /\ s.sent = stream[v].sent + 1 /\ s.state = "reading"
        /\ s.missing = stream[v].missing /\ s.got = stream[v].got
    BY <1>2, <2>1 DEF SimStreams
  <2> HIDE DEF s
  <2>3. ~s.missing => /\ s.sent <= Len(run.events)
                      /\ \A k \in 1..s.got : k \in 1..Len(run.events) /\ run.events[k] = "progress"
    BY <1>2, <2>1, <2>2, SimKnown
  <2>4. s.state # "none" /\ s.state # "ended" /\ s.state # "broken" BY <2>2
  <2>5. s.missing => mishaps' # 0 BY <2>1, <2>2, SimKnown
  <2>6. UNCHANGED <<run, step, restarted, mishaps>> BY <1>1, <2>1
  <2> QED BY <1>1, <1>2, <2>1, <2>2, <2>3, <2>4, <2>5, <2>6, SimKnown, ViewerSimInv
<1>4. CASE S!EndStream(v)
  <2> DEFINE s == [stream[v] EXCEPT !.state = "ended"]
  <2>1. /\ stream' = [stream EXCEPT ![v] = s] /\ stream[v].sent = Len(run.events)
        /\ run.status \in S!Ended /\ UNCHANGED mishaps
    BY <1>4 DEF S!EndStream
  <2>2. s \in SimStreams /\ s.sent = stream[v].sent /\ s.state = "ended"
        /\ s.missing = stream[v].missing /\ s.got = stream[v].got
    BY <1>2 DEF SimStreams
  <2> HIDE DEF s
  <2> QED BY <1>1, <1>2, <2>1, <2>2, SimKnown, ViewerSimInv
<1>5. CASE S!Drop(v)
  <2> DEFINE s == [stream[v] EXCEPT !.state = "broken"]
  <2>1. stream' = [stream EXCEPT ![v] = s] /\ mishaps' \in Nat /\ mishaps' # 0
    BY <1>5, SimMishaps DEF S!Drop
  <2>2. s \in SimStreams /\ s.sent = stream[v].sent /\ s.state = "broken"
        /\ s.missing = stream[v].missing /\ s.got = stream[v].got
    BY <1>2 DEF SimStreams
  <2> HIDE DEF s
  <2>3. ~s.missing => /\ s.sent <= Len(run.events)
                      /\ \A k \in 1..s.got : k \in 1..Len(run.events) /\ run.events[k] = "progress"
    BY <2>2, SimKnown
  <2>4. s.state # "none" /\ s.state # "ended" BY <2>2
  <2>5. UNCHANGED <<run, step, restarted>> BY <1>1
  <2> QED BY <1>1, <2>1, <2>2, <2>3, <2>4, <2>5, SimKnown, ViewerSimInv
<1> QED BY <1>3, <1>4, <1>5 DEF S!Stream

LEMMA RestartSimInv == ASSUME SimInv, S!Restart PROVE SimInv'
<1>1. /\ run' = S!Unknown /\ step' = "over" /\ restarted' = TRUE /\ UNCHANGED shown
      /\ mishaps' \in Nat /\ mishaps' # 0
  BY SimMishaps DEF S!Restart
<1>2. run' \in SimRun /\ Len(run'.events) = 0 /\ run'.events = <<>> /\ run'.status = "none" /\ ~run'.result
  BY <1>1 DEF S!Unknown, SimRun
<1>3. \A v \in S!Watchers : stream'[v] \in {S!Closed, [S!Closed EXCEPT !.state = "broken"]}
  BY DEF S!Restart
<1>4. \A v \in S!Watchers : /\ stream'[v] \in SimStreams /\ ~stream'[v].missing
                            /\ stream'[v].sent = 0 /\ stream'[v].got = 0
                            /\ stream'[v].state # "ended"
                            /\ stream'[v].state = "none" => stream'[v] = S!Closed
  <2> DEFINE b == [S!Closed EXCEPT !.state = "broken"]
  <2>1. b \in SimStreams /\ ~b.missing /\ b.sent = 0 /\ b.got = 0 /\ b.state = "broken"
    BY DEF S!Closed, SimStreams
  <2>2. S!Closed \in SimStreams /\ ~S!Closed.missing /\ S!Closed.sent = 0 /\ S!Closed.got = 0
        /\ S!Closed.state = "none"
    BY DEF S!Closed, SimStreams
  <2> HIDE DEF b
  <2> QED BY <1>3, <2>1, <2>2 DEF b
<1>5. stream' \in [S!Watchers -> SimStreams] BY <1>4 DEF S!Restart
<1>6. SimShape' BY <1>1, <1>2, <1>5 DEF SimInv, SimShape
<1>7. Course' BY <1>1, <1>2 DEF Course, S!Ended
<1>8. Sent'
  <2>1. \A v \in S!Watchers : \A k \in 1..stream'[v].got : FALSE BY <1>4
  <2> QED BY <1>1, <1>2, <1>4, <2>1 DEF Sent
<1>9. Seen' BY <1>1 DEF SimInv, Seen
<1> QED BY <1>6, <1>7, <1>8, <1>9 DEF SimInv

\* What a viewer makes of an event it was sent.
LEMMA HandleSimInv == ASSUME SimInv, NEW v \in S!Watchers, S!HandleEvent(v) PROVE SimInv'
<1> DEFINE e == IF stream[v].missing THEN "error" ELSE run.events[stream[v].got + 1]
           fresh == [shown EXCEPT ![v].retries = IF v \in Widgets THEN 0 ELSE @]
           x == [shown[v] EXCEPT !.retries = IF v \in Widgets THEN 0 ELSE @]
<1>1. /\ shown[v].at = "rest" /\ stream[v].got < stream[v].sent
      /\ UNCHANGED <<run, step, mishaps, restarted>>
  BY DEF S!HandleEvent, S!Rest
<1>2. stream[v] \in SimStreams /\ shown[v] \in SimViews /\ shown \in [S!Watchers -> SimViews]
      /\ stream[v].sent \in Nat /\ stream[v].got \in Nat
  BY SimKnown DEF SimStreams, SimInv, SimShape
<1>3. fresh = [shown EXCEPT ![v] = x] BY <1>2
<1>4. x \in SimViews /\ x.phase = shown[v].phase /\ x.at = "rest"
  BY <1>1, <1>2 DEF SimViews
<1>5. ~stream[v].missing => stream[v].got + 1 \in 1..Len(run.events)
  BY <1>1, <1>2, SimKnown
<1>6. /\ e = "completed" => run.result
      /\ e = "error" => run.status = "FAILED" \/ mishaps # 0
  BY <1>5, SimKnown DEF SimInv, Course
<1> HIDE DEF x
<1>7. CASE /\ e = "progress" /\ stream' = [stream EXCEPT ![v].got = @ + 1] /\ shown' = fresh
  <2> DEFINE s == [stream[v] EXCEPT !.got = @ + 1]
  <2>1. stream' = [stream EXCEPT ![v] = s] /\ shown' = [shown EXCEPT ![v] = x] BY <1>3, <1>7
  <2>2. s \in SimStreams /\ s.sent = stream[v].sent /\ s.state = stream[v].state
        /\ s.missing = stream[v].missing /\ s.got = stream[v].got + 1
    BY <1>2 DEF SimStreams
  <2>3. s.state # "none" BY <1>1, <2>2, SimKnown, SimFresh
  <2>4. ~s.missing => \A k \in 1..s.got : k \in 1..Len(run.events) /\ run.events[k] = "progress"
    <3> SUFFICES ASSUME ~s.missing, NEW k \in 1..s.got
                 PROVE  k \in 1..Len(run.events) /\ run.events[k] = "progress"
      OBVIOUS
    <3>1. CASE k = stream[v].got + 1 BY <1>5, <1>7, <2>2, <3>1
    <3>2. CASE k # stream[v].got + 1
      <4>1. k \in 1..stream[v].got BY <1>2, <2>2, <3>2
      <4> QED BY <2>2, <4>1, SimKnown
    <3> QED BY <3>1, <3>2
  <2> HIDE DEF s
  <2> QED BY <1>1, <1>4, <2>1, <2>2, <2>3, <2>4, SimKnown, ViewerSimInv
<1>8. CASE e = "completed" /\ S!Close(v) /\ shown' = [fresh EXCEPT ![v].at = "result"]
  <2> DEFINE y == [x EXCEPT !.at = "result"]
  <2>1. shown' = [shown EXCEPT ![v] = y] BY <1>2, <1>3, <1>4, <1>8
  <2>2. y \in SimViews /\ y.at = "result" /\ y.phase = shown[v].phase BY <1>4 DEF SimViews, SimPlaces
  <2> HIDE DEF y
  <2>3. mishaps' = mishaps /\ UNCHANGED <<run, step, restarted>> /\ S!Close(v) BY <1>1, <1>8
  <2>4. run.result BY <1>6, <1>8
  <2>5. y.phase = "error" /\ mishaps' = 0 => run.status = "FAILED" BY <2>2, <2>3, SimKnown
  <2> QED BY <2>1, <2>2, <2>3, <2>4, <2>5, CloseSimInv
<1>9. CASE e = "error" /\ S!Close(v) /\ shown' = [fresh EXCEPT ![v].phase = "error"]
  <2> DEFINE y == [x EXCEPT !.phase = "error"]
  <2>1. shown' = [shown EXCEPT ![v] = y] BY <1>2, <1>3, <1>4, <1>9
  <2>2. y \in SimViews /\ y.at = "rest" /\ y.phase = "error" BY <1>4 DEF SimViews, SimPhases
  <2> HIDE DEF y
  <2>3. mishaps' = mishaps /\ UNCHANGED <<run, step, restarted>> /\ S!Close(v) BY <1>1, <1>9
  <2>4. y.phase = "error" /\ mishaps' = 0 => run.status = "FAILED" BY <1>6, <1>9, <2>3
  <2> QED BY <2>1, <2>2, <2>3, <2>4, CloseSimInv
<1> QED BY <1>7, <1>8, <1>9 DEF S!HandleEvent

LEMMA GoneSimInv == ASSUME SimInv, NEW v \in S!Watchers, S!StreamGone(v) PROVE SimInv'
<1>1. UNCHANGED <<run, step, mishaps, restarted>> BY DEF S!StreamGone
<1>2. shown[v] \in SimViews /\ shown \in [S!Watchers -> SimViews] BY SimKnown DEF SimInv, SimShape

\* The stream ended before its verdict was handled, or something broke.
<1>3. stream[v].missing \/ stream[v].state = "broken"
  <2> SUFFICES ASSUME ~stream[v].missing, stream[v].state # "broken" PROVE FALSE
    OBVIOUS
  <2>1. stream[v].state = "ended" /\ stream[v].got = stream[v].sent BY DEF S!StreamGone
  <2>2. run.status \in S!Ended /\ stream[v].got = Len(run.events) /\ Len(run.events) \in Nat
    BY <2>1, SimKnown
  <2>3. Len(run.events) > 0 /\ run.events[Len(run.events)] # "progress"
    BY <2>2 DEF SimInv, Course
  <2>4. Len(run.events) \in 1..stream[v].got BY <2>2, <2>3
  <2> QED BY <2>3, <2>4, SimKnown
<1>4. mishaps # 0 BY <1>3, SimKnown
<1>5. ASSUME NEW phase \in {"running", "error"}, NEW at \in {"rest", "check"},
             S!Close(v) \/ S!Subscribe(v), shown' = S!Show(v, phase, at)
      PROVE  SimInv'
  <2>1. phase \in SimPhases /\ at \in SimPlaces BY DEF SimPhases, SimPlaces
  <2>2. \E x \in SimViews : x.phase = phase /\ x.at = at /\ shown' = [shown EXCEPT ![v] = x]
    BY <1>5, <2>1, SimShowing
  <2> QED BY <1>1, <1>4, <1>5, <2>2, CloseSimInv
<1>6. CASE S!Close(v) /\ shown' = [shown EXCEPT ![v].at = "pause", ![v].retries = @ + 1]
  <2> DEFINE x == [shown[v] EXCEPT !.at = "pause", !.retries = @ + 1]
  <2>1. shown' = [shown EXCEPT ![v] = x] BY <1>6
  <2>2. x \in SimViews /\ x.at = "pause" /\ x.phase = shown[v].phase
    <3>1. shown[v].retries + 1 \in Int BY <1>2 DEF SimViews
    <3>2. "pause" \in SimPlaces BY DEF SimPlaces
    <3> QED BY <1>2, <3>1, <3>2 DEF SimViews
  <2> HIDE DEF x
  <2> QED BY <1>1, <1>4, <1>6, <2>1, <2>2, SimKnown, CloseSimInv
<1> QED BY <1>5, <1>6 DEF S!StreamGone, S!GivenUp

\* Answers, failing requests, and viewers that are mounted.
LEMMA AnsweredSimInv ==
  ASSUME SimInv, NEW v \in S!Watchers,
         S!Answered(v) \/ S!RequestFails(v) \/ S!Reload(v) \/ S!Stable(v)
  PROVE  SimInv'
<1>1. UNCHANGED <<run, step, restarted>>
  BY DEF S!Answered, S!Started, S!MountAnswered, S!CheckAnswered, S!ResultAnswered, S!Reconnect, S!RequestFails,
         S!Reload, S!Stable
<1>2. shown[v] \in SimViews /\ shown \in [S!Watchers -> SimViews] BY SimKnown DEF SimInv, SimShape
<1>3. ASSUME NEW phase \in SimPhases, NEW at \in {"rest", "result"}, shown' = S!Show(v, phase, at),
             \/ S!Close(v)
             \/ S!Subscribe(v) /\ (run.status = "none" => mishaps' # 0)
             \/ UNCHANGED stream,
             mishaps' = mishaps \/ (mishaps' \in Nat /\ mishaps' # 0),
             at = "result" => run.result \/ mishaps' # 0,
             phase = "done" => run.result \/ restarted,
             phase = "error" /\ mishaps' = 0 => run.status = "FAILED"
      PROVE  SimInv'
  <2>1. \E x \in SimViews : x.phase = phase /\ x.at = at /\ shown' = [shown EXCEPT ![v] = x]
    BY <1>3, SimShowing DEF SimPlaces
  <2> QED BY <1>1, <1>3, <2>1, CloseSimInv
<1>4. /\ restarted => mishaps # 0
      /\ run.status = "none" => step = "none" \/ restarted
      /\ run.status = "COMPLETED" => run.result
  BY DEF SimInv, Course, S!Ended, SimShape
<1>5. CASE S!Started(v)
  <2>1. CASE ~restarted /\ S!Subscribe(v) /\ shown' = S!Show(v, "running", "rest") /\ UNCHANGED mishaps
    BY <1>3, <1>4, <1>5, <2>1, SimKnown DEF S!Started, SimPhases
  <2>2. CASE S!Mishap /\ shown' = S!Show(v, "error", "rest") /\ UNCHANGED stream
    BY <1>3, <2>2, SimMishaps DEF SimPhases
  <2>3. CASE restarted /\ shown' = S!Show(v, "error", "rest") /\ UNCHANGED <<stream, mishaps>>
    BY <1>3, <1>4, <2>3 DEF SimPhases
  <2> QED BY <1>5, <2>1, <2>2, <2>3 DEF S!Started
<1>6. CASE S!MountAnswered(v)
  <2>1. mishaps' = mishaps /\ mishaps # 0 BY <1>6, SimKnown DEF S!MountAnswered
  <2> QED BY <1>3, <1>6, <2>1 DEF S!MountAnswered, SimPhases
<1>7. CASE S!CheckAnswered(v)
  <2>1. mishaps' = mishaps /\ mishaps # 0 BY <1>7, SimKnown DEF S!CheckAnswered
  <2>2. CASE S!Subscribe(v) /\ shown' = [shown EXCEPT ![v].at = "rest", ![v].retries = @ + 1]
    <3> DEFINE x == [shown[v] EXCEPT !.at = "rest", !.retries = @ + 1]
    <3>1. shown' = [shown EXCEPT ![v] = x] BY <2>2
    <3>2. x \in SimViews /\ x.at = "rest" /\ x.phase = shown[v].phase
      <4>1. shown[v].retries + 1 \in Int BY <1>2 DEF SimViews
      <4>2. "rest" \in SimPlaces BY DEF SimPlaces
      <4> QED BY <1>2, <4>1, <4>2 DEF SimViews
    <3> HIDE DEF x
    <3> QED BY <1>1, <2>1, <2>2, <3>1, <3>2, SimKnown, CloseSimInv
  <2> QED BY <1>3, <1>7, <2>1, <2>2 DEF S!CheckAnswered, SimPhases
<1>8. CASE S!ResultAnswered(v)
  <2> DEFINE phase == IF run.result THEN "done" ELSE "error"
  <2>1. shown' = S!Show(v, phase, "rest") /\ UNCHANGED <<stream, mishaps>> /\ phase \in SimPhases
    BY <1>8 DEF S!ResultAnswered, SimPhases
  <2>2. run.result \/ mishaps # 0 BY <1>8, SimKnown DEF S!ResultAnswered
  <2>3. phase = "done" => run.result OBVIOUS
  <2>4. phase = "error" => mishaps # 0 BY <2>2
  <2> HIDE DEF phase
  <2> QED BY <1>3, <2>1, <2>3, <2>4
<1>9. CASE S!Reconnect(v)
  <2> DEFINE x == [shown[v] EXCEPT !.at = "rest"]
  <2>1. shown' = [shown EXCEPT ![v] = x] /\ S!Subscribe(v) /\ UNCHANGED mishaps BY <1>9 DEF S!Reconnect
  <2>2. x \in SimViews /\ x.at = "rest" /\ x.phase = shown[v].phase BY <1>2 DEF SimViews, SimPlaces
  <2>3. mishaps # 0 BY <1>9, SimKnown DEF S!Reconnect
  <2> HIDE DEF x
  <2> QED BY <1>1, <2>1, <2>2, <2>3, SimKnown, CloseSimInv
<1>10. CASE S!RequestFails(v)
  <2>1. \E phase \in {"form", "running", "error"} : shown' = S!Show(v, phase, "rest")
    BY <1>10 DEF S!RequestFails
  <2>2. UNCHANGED stream /\ mishaps' \in Nat /\ mishaps' # 0 BY <1>10, SimMishaps DEF S!RequestFails
  <2> QED BY <1>3, <2>1, <2>2 DEF SimPhases
<1>11. CASE S!Reload(v)
  <2> DEFINE x == [phase |-> IF v \in SimPages THEN "running" ELSE "form", at |-> "mount", retries |-> 0]
  <2>1. shown' = [shown EXCEPT ![v] = x] /\ S!Close(v) /\ mishaps' \in Nat /\ mishaps' # 0
    BY <1>11, SimMishaps DEF S!Reload
  <2>2. x \in SimViews /\ x.at = "mount" /\ x.phase \in {"running", "form"} BY DEF SimViews, SimPhases, SimPlaces
  <2> HIDE DEF x
  <2> QED BY <1>1, <2>1, <2>2, CloseSimInv
<1>12. CASE S!Stable(v)
  <2> DEFINE x == [shown[v] EXCEPT !.retries = 0]
  <2>1. shown' = [shown EXCEPT ![v] = x] /\ UNCHANGED <<stream, mishaps>> BY <1>12 DEF S!Stable
  <2>2. x \in SimViews /\ x.at = shown[v].at /\ x.phase = shown[v].phase BY <1>2 DEF SimViews
  <2> HIDE DEF x
  <2> QED BY <1>1, <2>1, <2>2, SimKnown, CloseSimInv
<1> QED BY <1>5, <1>6, <1>7, <1>8, <1>9, <1>10, <1>11, <1>12 DEF S!Answered

\* A run that is started: there are no streams with events yet.
LEMMA StartSimInv == ASSUME SimInv, NEW v \in S!Watchers, S!Start(v) PROVE SimInv'
<1>1. /\ run' = [S!Unknown EXCEPT !.status = "QUEUED"] /\ step' = "queued" /\ step = "none"
      /\ shown' = S!Show(v, "running", "posting") /\ UNCHANGED <<stream, mishaps, restarted>>
  BY DEF S!Start
<1>2. run' \in SimRun /\ run'.status = "QUEUED" /\ run'.events = <<>> /\ ~run'.result /\ Len(run'.events) = 0
  <2>1. run' = [status |-> "QUEUED", events |-> <<>>, result |-> FALSE] BY <1>1 DEF S!Unknown
  <2>2. <<>> \in Seq({"progress", "completed", "error"}) OBVIOUS
  <2>3. run' \in SimRun BY <2>1, <2>2 DEF SimRun
  <2> QED BY <2>1, <2>3
<1>3. /\ run.status = "none" /\ run.events = <<>> /\ Len(run.events) = 0 /\ ~run.result
      /\ ~restarted
  BY <1>1 DEF SimInv, Course
<1>4. PICK x \in SimViews : x.phase = "running" /\ x.at = "posting" /\ shown' = [shown EXCEPT ![v] = x]
  BY <1>1, SimShowing DEF SimPhases, SimPlaces
<1>5. shown \in [S!Watchers -> SimViews] BY DEF SimInv, SimShape
<1>6. shown' \in [S!Watchers -> SimViews] /\ shown'[v] = x
      /\ \A u \in S!Watchers : u # v => shown'[u] = shown[u]
  BY <1>4, <1>5
<1>7. SimShape' BY <1>1, <1>2, <1>6 DEF SimInv, SimShape
<1>8. Course' BY <1>1, <1>2, <1>3 DEF Course, S!Ended
<1>9. Sent' BY <1>1, <1>2, <1>3 DEF SimInv, Sent, S!Ended
<1>10. Seen' BY <1>1, <1>2, <1>3, <1>4, <1>6 DEF SimInv, Seen
<1> QED BY <1>7, <1>8, <1>9, <1>10 DEF SimInv

LEMMA NextSimInv == SimInv /\ [S!Next]_(S!vars) => SimInv'
<1> SUFFICES ASSUME SimInv, [S!Next]_(S!vars) PROVE SimInv'
  OBVIOUS
<1>1. CASE UNCHANGED S!vars
  BY <1>1 DEF S!vars, SimInv, SimShape, Course, Sent, Seen
<1> QED
  BY <1>1, RunSimInv, RestartSimInv, StartSimInv, StreamSimInv, HandleSimInv, GoneSimInv, AnsweredSimInv
     DEF S!Next, S!Browser

LEMMA SimInvHolds == S!Spec => []SimInv
BY InitSimInv, NextSimInv, PTL DEF S!Spec

LEMMA InvVerdict == SimInv => S!StreamEndsWithVerdict
<1> SUFFICES ASSUME SimInv, NEW v \in S!Watchers, stream[v].state = "ended", ~stream[v].missing
             PROVE  /\ stream[v].sent > 0
                    /\ \/ run.events[stream[v].sent] = "completed" /\ run.result
                       \/ run.events[stream[v].sent] = "error" /\ run.status = "FAILED"
  BY DEF S!StreamEndsWithVerdict
<1>1. run.status \in S!Ended /\ stream[v].sent = Len(run.events) BY SimKnown
<1>2. Len(run.events) > 0 /\ run.events[Len(run.events)] # "progress" BY <1>1 DEF SimInv, Course
<1>3. Len(run.events) \in 1..Len(run.events) /\ run.events[Len(run.events)] \in {"progress", "completed", "error"}
  BY <1>2 DEF SimInv, SimShape, SimRun
<1> QED BY <1>1, <1>2, <1>3 DEF SimInv, Course

\* A stream that the server ends has sent the last event of the run, and the result is
\* in the store when that event says so.
THEOREM VerdictIsSent == S!Spec => []S!StreamEndsWithVerdict
BY InvVerdict, SimInvHolds, PTL

\* A viewer shows a result there is, and without a mishap a failure that happened.
THEOREM ShownAsItIs == S!Spec => []S!ShownIsTrue
<1>1. SimInv => S!ShownIsTrue BY DEF SimInv, Seen, S!ShownIsTrue
<1> QED BY <1>1, SimInvHolds, PTL

-----------------------------------------------------------------------------
(* Type correctness of SimRuns: what SimInv leaves open.                   *)

SimTypes ==
    /\ key \subseteq S!Watchers /\ mishaps \in 0..MaxMishaps
    /\ \A v \in S!Watchers : shown[v].retries \in 0..MaxRetries

LEMMA SimMishapType == ASSUME SimTypes, S!Mishap PROVE mishaps' \in 0..MaxMishaps
BY GenerationAssumption DEF SimTypes, S!Mishap, GenerationAssumption

\* A step of one viewer, seen from the record it leaves.
LEMMA ViewerTypes ==
  ASSUME SimShape, SimTypes, NEW v \in S!Watchers, NEW x, shown' = [shown EXCEPT ![v] = x],
         x.retries \in 0..MaxRetries,
         key' \subseteq key \cup {v},
         mishaps' = mishaps \/ S!Mishap
  PROVE  SimTypes'
<1>1. \A u \in S!Watchers : shown'[u] = IF u = v THEN x ELSE shown[u]
  BY DEF SimShape
<1>2. mishaps' \in 0..MaxMishaps BY SimMishapType DEF SimTypes
<1> QED BY <1>1, <1>2 DEF SimTypes

LEMMA ShowTypes ==
  ASSUME SimShape, SimTypes, NEW v \in S!Watchers, NEW phase, NEW at, shown' = S!Show(v, phase, at),
         key' \subseteq key \cup {v},
         mishaps' = mishaps \/ S!Mishap
  PROVE  SimTypes'
<1> DEFINE x == [shown[v] EXCEPT !.phase = phase, !.at = at]
<1>1. shown[v] \in SimViews BY DEF SimShape
<1>2. x.retries = shown[v].retries /\ x.at = at BY <1>1 DEF SimViews
<1>3. shown' = [shown EXCEPT ![v] = x] BY DEF S!Show
<1> HIDE DEF x
<1> QED BY <1>2, <1>3, ViewerTypes DEF SimTypes

LEMMA SameTypes ==
  ASSUME SimTypes, UNCHANGED <<shown, key>>, mishaps' = mishaps \/ S!Mishap
  PROVE  SimTypes'
<1>1. mishaps' \in 0..MaxMishaps BY SimMishapType DEF SimTypes
<1> QED BY <1>1 DEF SimTypes

LEMMA BrowserTypes ==
  ASSUME SimShape, SimTypes, NEW v \in S!Watchers, S!Browser(v)
  PROVE  SimTypes'
<1>1. /\ shown[v] \in SimViews /\ shown[v].retries \in 0..MaxRetries
      /\ 0 \in 0..MaxRetries
  BY StudioAssumption DEF SimShape, SimTypes, StudioAssumption
<1>2. CASE S!HandleEvent(v)
  <2> DEFINE fresh == [shown EXCEPT ![v].retries = IF v \in Widgets THEN 0 ELSE @]
             x == [shown[v] EXCEPT !.retries = IF v \in Widgets THEN 0 ELSE @]
  <2>1. x \in SimViews /\ x.retries \in 0..MaxRetries /\ x.at = "rest"
    BY <1>1, <1>2 DEF SimViews, S!HandleEvent, S!Rest
  <2>2. fresh = [shown EXCEPT ![v] = x] /\ shown \in [S!Watchers -> SimViews] BY DEF SimShape
  <2>3. key' \subseteq key /\ UNCHANGED mishaps BY <1>2 DEF S!HandleEvent
  <2>4. \/ shown' = fresh
        \/ shown' = S!Show(v, "done", "rest")
        \/ shown' = [fresh EXCEPT ![v].at = "result"]
        \/ shown' = [fresh EXCEPT ![v].phase = "error"]
    BY <1>2 DEF S!HandleEvent
  <2> HIDE DEF x
  <2>5. CASE shown' = fresh BY <2>1, <2>2, <2>3, <2>5, ViewerTypes
  <2>6. CASE shown' = S!Show(v, "done", "rest") BY <2>3, <2>6, ShowTypes
  <2>7. CASE shown' = [fresh EXCEPT ![v].at = "result"]
    <3> DEFINE y == [x EXCEPT !.at = "result"]
    <3>1. shown' = [shown EXCEPT ![v] = y] BY <2>2, <2>7
    <3>2. y.retries = x.retries /\ y.at = "result" BY <2>1 DEF SimViews
    <3> HIDE DEF y
    <3> QED BY <2>1, <2>3, <3>1, <3>2, ViewerTypes
  <2>8. CASE shown' = [fresh EXCEPT ![v].phase = "error"]
    <3> DEFINE y == [x EXCEPT !.phase = "error"]
    <3>1. shown' = [shown EXCEPT ![v] = y] BY <2>2, <2>8
    <3>2. y.retries = x.retries /\ y.at = x.at BY <2>1 DEF SimViews
    <3> HIDE DEF y
    <3> QED BY <2>1, <2>3, <3>1, <3>2, ViewerTypes
  <2> QED BY <2>4, <2>5, <2>6, <2>7, <2>8
<1>3. CASE S!StreamGone(v)
  <2>1. key' \subseteq key /\ UNCHANGED mishaps BY <1>3 DEF S!StreamGone
  <2>2. CASE shown' = [shown EXCEPT ![v].at = "pause", ![v].retries = @ + 1] /\ S!MayRetry(v)
    <3> DEFINE y == [shown[v] EXCEPT !.at = "pause", !.retries = @ + 1]
    <3>1. shown' = [shown EXCEPT ![v] = y] BY <2>2
    <3>2. shown[v].retries + 1 \in 0..MaxRetries
      BY <1>1, <2>2, StudioAssumption DEF S!MayRetry, StudioAssumption
    <3>3. y.retries = shown[v].retries + 1 /\ y.at = "pause" BY <1>1 DEF SimViews
    <3> HIDE DEF y
    <3> QED BY <2>1, <3>1, <3>2, <3>3, ViewerTypes
  <2>3. CASE shown' = S!Show(v, "error", "rest") \/ shown' = S!Show(v, "running", "check")
    BY <2>1, <2>3, ShowTypes
  <2>4. CASE UNCHANGED shown
    <3>1. shown' = [shown EXCEPT ![v] = shown[v]] BY <2>4 DEF SimShape
    <3> QED BY <1>1, <2>1, <3>1, ViewerTypes
  <2> QED BY <1>3, <2>2, <2>3, <2>4 DEF S!StreamGone, S!GivenUp
<1> QED BY <1>2, <1>3 DEF S!Browser

LEMMA AnsweredTypes ==
  ASSUME SimShape, SimTypes, NEW v \in S!Watchers,
         S!Answered(v) \/ S!RequestFails(v) \/ S!Reload(v) \/ S!Stable(v)
         \/ S!Start(v)
  PROVE  SimTypes'
<1>1. /\ shown[v] \in SimViews /\ shown[v].retries \in 0..MaxRetries
      /\ 0 \in 0..MaxRetries
  BY StudioAssumption DEF SimShape, SimTypes, StudioAssumption
<1>2. key' \subseteq key \cup {v}
  BY <1>1 DEF S!Answered, S!Started, S!MountAnswered, S!CheckAnswered, S!ResultAnswered,
     S!Reconnect, S!RequestFails, S!Reload, S!Stable, S!Start
<1>3. mishaps' = mishaps \/ S!Mishap
  BY DEF S!Answered, S!Started, S!MountAnswered, S!CheckAnswered, S!ResultAnswered,
     S!Reconnect, S!RequestFails, S!Reload, S!Stable, S!Start
<1>4. ASSUME NEW phase, NEW at, shown' = S!Show(v, phase, at) PROVE SimTypes'
  BY <1>2, <1>3, <1>4, ShowTypes
<1>5. CASE S!Started(v) BY <1>4, <1>5 DEF S!Started
<1>6. CASE S!MountAnswered(v) BY <1>4, <1>6 DEF S!MountAnswered
<1>7. CASE S!CheckAnswered(v)
  <2>1. CASE shown' = [shown EXCEPT ![v].at = "rest", ![v].retries = @ + 1] /\ S!MayRetry(v)
    <3> DEFINE y == [shown[v] EXCEPT !.at = "rest", !.retries = @ + 1]
    <3>1. shown' = [shown EXCEPT ![v] = y] BY <2>1
    <3>2. shown[v].retries + 1 \in 0..MaxRetries
      BY <1>1, <2>1, StudioAssumption DEF S!MayRetry, StudioAssumption
    <3>3. y.retries = shown[v].retries + 1 /\ y.at = "rest" BY <1>1 DEF SimViews
    <3> HIDE DEF y
    <3> QED BY <1>2, <1>3, <3>1, <3>2, <3>3, ViewerTypes
  <2> QED BY <1>4, <1>7, <2>1 DEF S!CheckAnswered
<1>8. CASE S!ResultAnswered(v) BY <1>4, <1>8 DEF S!ResultAnswered
<1>9. CASE S!Reconnect(v)
  <2> DEFINE y == [shown[v] EXCEPT !.at = "rest"]
  <2>1. shown' = [shown EXCEPT ![v] = y] BY <1>9 DEF S!Reconnect
  <2>2. y.retries = shown[v].retries /\ y.at = "rest" BY <1>1 DEF SimViews
  <2> HIDE DEF y
  <2> QED BY <1>1, <1>2, <1>3, <2>1, <2>2, ViewerTypes
<1>10. CASE S!RequestFails(v) BY <1>4, <1>10 DEF S!RequestFails
<1>11. CASE S!Reload(v)
  <2> DEFINE y == [phase |-> IF v \in SimPages THEN "running" ELSE "form", at |-> "mount",
                   retries |-> 0]
  <2>1. shown' = [shown EXCEPT ![v] = y] BY <1>11 DEF S!Reload
  <2>2. y.retries = 0 /\ y.at = "mount" OBVIOUS
  <2> HIDE DEF y
  <2> QED BY <1>1, <1>2, <1>3, <2>1, <2>2, ViewerTypes
<1>12. CASE S!Stable(v)
  <2> DEFINE y == [shown[v] EXCEPT !.retries = 0]
  <2>1. shown' = [shown EXCEPT ![v] = y] BY <1>12 DEF S!Stable
  <2>2. y.retries = 0 /\ y.at = shown[v].at BY <1>1 DEF SimViews
  <2> HIDE DEF y
  <2> QED BY <1>1, <1>2, <1>3, <2>1, <2>2, ViewerTypes
<1>13. CASE S!Start(v) BY <1>4, <1>13 DEF S!Start
<1> QED BY <1>5, <1>6, <1>7, <1>8, <1>9, <1>10, <1>11, <1>12, <1>13 DEF S!Answered

LEMMA NextSimTypes ==
  ASSUME SimShape, SimTypes, S!Next
  PROVE  SimTypes'
<1>1. CASE S!Run \/ S!Restart
  BY <1>1, SameTypes DEF S!Run, S!Begin, S!Progress, S!Complete, S!Fail, S!Restart
<1>2. ASSUME NEW v \in S!Watchers, S!Stream(v) \/ S!Drop(v) PROVE SimTypes'
  BY <1>2, SameTypes DEF S!Stream, S!SendEvent, S!EndStream, S!Drop
<1> QED BY <1>1, <1>2, BrowserTypes, AnsweredTypes DEF S!Next

-----------------------------------------------------------------------------
(* The two together: a behaviour is about one of them, and the variables   *)
(* of the other stay as they were.                                         *)

GenIdle ==
    /\ db = "none" /\ stored = FALSE /\ pipe = "none" /\ timer = FALSE
    /\ task = [here |-> FALSE, status |-> "pending", events |-> <<>>]
    /\ conn = [v \in Viewers |-> NoConn] /\ view = [v \in Viewers |-> NoView] /\ saved = FALSE

SimIdle ==
    /\ run = S!Unknown /\ step = "none"
    /\ stream = [v \in S!Watchers |-> S!Closed] /\ shown = [v \in S!Watchers |-> S!Idle]
    /\ key = {}

StudioInv ==
    \/ job = "generation" /\ IInv /\ SimIdle
    \/ job = "simulation" /\ SimInv /\ SimTypes /\ GenIdle

LEMMA InitStudio ==
  ASSUME MCInit
  PROVE  StudioInv
<1>1. Init /\ S!Init /\ job \in {"generation", "simulation"} BY DEF MCInit
<1>2. IInv BY <1>1, InitType, InitFacts DEF IInv
<1>3. SimInv BY <1>1, InitSimInv
<1>4. SimTypes
  <2>1. 0 \in 0..MaxRetries /\ 0 \in 0..MaxMishaps
    BY StudioAssumption, GenerationAssumption DEF StudioAssumption, GenerationAssumption
  <2> QED BY <1>1, <2>1 DEF S!Init, S!Idle, SimTypes
<1>5. GenIdle BY <1>1 DEF Init, GenIdle
<1>6. SimIdle BY <1>1 DEF S!Init, SimIdle
<1> QED BY <1>1, <1>2, <1>3, <1>4, <1>5, <1>6 DEF StudioInv

LEMMA StudioStep ==
  ASSUME StudioInv, [MCNext]_<<job, vars, svars>>
  PROVE  StudioInv'
<1>1. CASE job = "generation" /\ Next /\ UNCHANGED <<job, svars>>
  <2>1. IInv /\ SimIdle BY <1>1 DEF StudioInv
  <2>2. IInv' BY <1>1, <2>1, NextIInv
  <2>3. SimIdle' BY <1>1, <2>1 DEF SimIdle, svars
  <2> QED BY <1>1, <2>2, <2>3 DEF StudioInv
<1>2. CASE job = "simulation" /\ S!Next /\ UNCHANGED <<job, gvars>>
  <2>1. SimInv /\ SimTypes /\ GenIdle BY <1>2 DEF StudioInv
  <2>2. SimInv' BY <1>2, <2>1, NextSimInv
  <2>3. SimTypes' BY <1>2, <2>1, NextSimTypes DEF SimInv
  <2>4. GenIdle' BY <1>2, <2>1 DEF GenIdle, gvars
  <2> QED BY <1>2, <2>2, <2>3, <2>4 DEF StudioInv
<1>3. CASE UNCHANGED <<job, vars, svars>>
  <2>1. UNCHANGED vars /\ UNCHANGED S!vars /\ UNCHANGED job BY <1>3 DEF vars, svars, S!vars
  <2>2. IInv => IInv' BY <2>1, NextIInv
  <2>3. SimInv => SimInv' BY <2>1, NextSimInv
  <2>4. SimTypes => SimTypes' BY <2>1 DEF S!vars, SimTypes
  <2>5. (GenIdle => GenIdle') /\ (SimIdle => SimIdle')
    BY <2>1 DEF vars, S!vars, GenIdle, SimIdle
  <2> QED BY <2>1, <2>2, <2>3, <2>4, <2>5 DEF StudioInv
<1> QED BY <1>1, <1>2, <1>3 DEF MCNext

LEMMA StudioHolds == MCSpec => []StudioInv
BY InitStudio, StudioStep, PTL DEF MCSpec

\* Every variable of the two jobs keeps its type: a page or a widget never retries more
\* often than it may, and nobody but those that started a run keeps its id.
THEOREM StudioType == MCSpec => []StudioTypeOK
<1>1. ASSUME StudioInv PROVE TypeOK
  <2>1. CASE IInv BY <2>1 DEF IInv
  <2>2. CASE SimInv /\ SimTypes /\ GenIdle
    <3>1. 0 \in 0..MaxReconnect BY GenerationAssumption DEF GenerationAssumption
    <3>2. conn \in [Viewers -> Conns] BY <2>2 DEF GenIdle, NoConn, Conns
    <3>3. view \in [Viewers -> Views] BY <2>2, <3>1 DEF GenIdle, NoView, Views
    <3>4. task \in Tasks BY <2>2 DEF GenIdle, Tasks, Terminal
    <3>5. mishaps \in 0..MaxMishaps /\ restarted \in BOOLEAN
      BY <2>2 DEF SimInv, SimShape, SimTypes
    <3> QED BY <2>2, <3>2, <3>3, <3>4, <3>5 DEF GenIdle, TypeOK, Conns, Views, Tasks
  <2> QED BY <1>1, <2>1, <2>2 DEF StudioInv
<1>2. ASSUME StudioInv PROVE S!TypeOK
  <2>1. CASE IInv /\ SimIdle
    <3>1. 0 \in 0..MaxRetries BY StudioAssumption DEF StudioAssumption
    <3>2. mishaps \in 0..MaxMishaps /\ restarted \in BOOLEAN BY <2>1 DEF IInv, TypeOK
    <3>3. stream \in [S!Watchers -> SimStreams] BY <2>1 DEF SimIdle, S!Closed, SimStreams
    <3>4. shown \in [S!Watchers -> [phase : SimPhases, at : SimPlaces, retries : 0..MaxRetries]]
      BY <2>1, <3>1 DEF SimIdle, S!Idle, SimPhases, SimPlaces
    <3>5. run \in SimRun BY <2>1 DEF SimIdle, S!Unknown, SimRun
    <3> QED BY <2>1, <3>2, <3>3, <3>4, <3>5
            DEF SimIdle, S!TypeOK, SimStreams, SimPhases, SimPlaces, SimRun, S!Ended
  <2>2. CASE SimInv /\ SimTypes
    <3>1. shown \in [S!Watchers -> [phase : SimPhases, at : SimPlaces, retries : 0..MaxRetries]]
      BY <2>2 DEF SimInv, SimShape, SimTypes, SimViews
    <3> QED BY <2>2, <3>1
            DEF SimInv, SimShape, SimTypes, S!TypeOK, SimStreams, SimPhases, SimPlaces, SimRun, S!Ended
  <2> QED BY <1>2, <2>1, <2>2 DEF StudioInv
<1> QED BY <1>1, <1>2, StudioHolds, PTL DEF StudioTypeOK

\* Of the two jobs: a stream the server ends has sent the verdict of the simulation, and
\* the result is in the store when it says so.
THEOREM StudioVerdict == MCSpec => []StreamEndsWithVerdict
<1>1. StudioInv => StreamEndsWithVerdict
  <2>1. SimIdle => S!StreamEndsWithVerdict
    BY DEF SimIdle, S!Closed, S!StreamEndsWithVerdict
  <2> QED BY <2>1, InvVerdict DEF StudioInv, StreamEndsWithVerdict
<1> QED BY <1>1, StudioHolds, PTL

\* What a viewer of the simulation shows is what happened.
THEOREM StudioShows == MCSpec => []ShownIsTrue
<1>1. StudioInv => ShownIsTrue
  <2>1. SimIdle => S!ShownIsTrue
    BY DEF SimIdle, S!Idle, S!ShownIsTrue
  <2> QED BY <2>1 DEF StudioInv, SimInv, Seen, S!ShownIsTrue, ShownIsTrue
<1> QED BY <1>1, StudioHolds, PTL

\* What the viewers of the generation show, of the two jobs.
THEOREM StudioGeneration == MCSpec => [](DoneIsStored /\ FailureIsFinal)
<1>1. StudioInv => DoneIsStored /\ FailureIsFinal
  <2>1. GenIdle => DoneIsStored /\ FailureIsFinal
    BY GenerationAssumption DEF GenIdle, NoView, DoneIsStored, FailureIsFinal, GenerationAssumption
  <2>2. IInv => DoneIsStored /\ FailureIsFinal
    BY GenerationAssumption DEF IInv, Facts, Waits, Lost, DoneIsStored, FailureIsFinal,
       GenerationAssumption
  <2> QED BY <2>1, <2>2 DEF StudioInv
<1> QED BY <1>1, StudioHolds, PTL
=============================================================================
