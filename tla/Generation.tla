----------------------------- MODULE Generation -----------------------------
(***************************************************************************)
(* One ad generation from the click to the result on the screen: the       *)
(* background pipeline of generator_service.py with its row in the         *)
(* database and its entry in the task table, the event streams that poll   *)
(* that entry, and the viewers that follow a stream: generator/page.tsx    *)
(* (a page) and GenProgressWidget.tsx (a widget of the chat).              *)
(*                                                                         *)
(* The table and the streams live in the process and are gone after a      *)
(* restart, the row stays.  A stream ends as soon as the table says        *)
(* "completed" or "failed", which is before the last event is in the list. *)
(* It then sets a timer of 30 s that removes the entry.  A viewer whose    *)
(* stream ends or breaks asks the database what became of the generation.  *)
(***************************************************************************)
EXTENDS Integers, Sequences, FiniteSets

CONSTANTS
    Viewers,        \* the pages and widgets that may follow the generation
    Pages,          \* those of them that are generator pages
    MaxReconnect,   \* MAX_RECONNECT_ATTEMPTS of the page (5 in the code)
    MaxProgress,    \* bound: progress events the graph emits
    MaxMishaps      \* bound: failed writes and requests, drops, reloads and restarts

ASSUME GenerationAssumption ==
    /\ Pages \subseteq Viewers
    /\ MaxReconnect \in Nat /\ MaxProgress \in Nat /\ MaxMishaps \in Nat

VARIABLES
    db,         \* AdGeneration.status
    stored,     \* the candidates' rows exist
    task,       \* the entry of _tasks: in the table or not, status, events
    pipe,       \* where start_generation and _run_pipeline are
    timer,      \* a stream ended and its _deferred_cleanup is still asleep
    conn,       \* per viewer: its current stream, events sent to it and handled by it
    view,       \* per viewer: what it shows, what it waits for, its reconnects
    saved,      \* localStorage has the id under ACTIVE_GEN_KEY
    mishaps,    \* mishaps so far
    restarted   \* the process restarted

vars == <<db, stored, task, pipe, timer, conn, view, saved, mishaps, restarted>>
server == <<db, stored, task, pipe, timer>>

Terminal == {"completed", "failed"}
NoConn == [state |-> "none", missing |-> FALSE, sent |-> 0, got |-> 0]
NoView == [phase |-> "idle", at |-> "rest", attempts |-> 0]

TypeOK ==
    /\ db \in {"none", "pending", "running", "completed", "failed"}
    /\ stored \in BOOLEAN /\ timer \in BOOLEAN /\ saved \in BOOLEAN /\ restarted \in BOOLEAN
    /\ task \in [here : BOOLEAN, status : {"pending", "running"} \cup Terminal,
                 events : Seq({"progress", "completed", "error"})]
    /\ pipe \in {"none", "row", "queued", "marking", "graph", "persisting",
                 "recording", "failing", "over"}
    /\ conn \in [Viewers -> [state : {"none", "reading", "ended", "broken"},
                             missing : BOOLEAN, sent : Nat, got : Nat]]
    /\ view \in [Viewers -> [phase : {"idle", "generating", "done", "failed", "lost"},
                             at : {"rest", "posting", "mount", "fallback", "result", "pause"},
                             attempts : 0..MaxReconnect]]
    /\ mishaps \in 0..MaxMishaps

Init ==
    /\ db = "none" /\ stored = FALSE /\ pipe = "none" /\ timer = FALSE
    /\ task = [here |-> FALSE, status |-> "pending", events |-> <<>>]
    /\ conn = [v \in Viewers |-> NoConn]
    /\ view = [v \in Viewers |-> NoView]
    /\ saved = FALSE /\ mishaps = 0 /\ restarted = FALSE

Mishap == mishaps < MaxMishaps /\ mishaps' = mishaps + 1
-----------------------------------------------------------------------------
\* The pipeline.

Emit(e) == [task EXCEPT !.events = Append(@, e)]

\* start_generation, second half: the image is fetched (or not, which is only
\* logged), the entry is made and the pipeline is scheduled.
QueueTask ==
    /\ pipe = "row"
    /\ task' = [here |-> TRUE, status |-> "pending", events |-> <<>>]
    /\ pipe' = "queued"
    /\ UNCHANGED <<db, stored, timer, conn, view, saved, mishaps, restarted>>

\* An exception anywhere in the try block: the entry says "failed" before
\* the row does and before the error event is there.
Fails == task' = [task EXCEPT !.status = "failed"] /\ pipe' = "failing"

BeginPipeline ==
    /\ pipe = "queued"
    /\ task' = [task EXCEPT !.status = "running"]
    /\ pipe' = "marking"
    /\ UNCHANGED <<db, stored, timer, conn, view, saved, mishaps, restarted>>

MarkRunning ==
    /\ pipe = "marking"
    /\ \/ db' = "running" /\ pipe' = "graph" /\ UNCHANGED <<task, mishaps>>
       \/ Mishap /\ Fails /\ UNCHANGED db
    /\ UNCHANGED <<stored, timer, conn, view, saved, restarted>>

\* A node of generation_graph reports progress, the graph ends, or it raises.
RunGraph ==
    /\ pipe = "graph"
    /\ \/ /\ Len(task.events) < MaxProgress
          /\ task' = Emit("progress") /\ UNCHANGED pipe
       \/ pipe' = "persisting" /\ UNCHANGED task
       \/ Fails
    /\ UNCHANGED <<db, stored, timer, conn, view, saved, mishaps, restarted>>

\* _persist_results commits the row and the candidates together; a failed
\* commit may have been applied all the same.
PersistResults ==
    /\ pipe = "persisting"
    /\ \/ /\ db' = "completed" /\ stored' = TRUE
          /\ task' = [task EXCEPT !.status = "completed"]
          /\ pipe' = "recording" /\ UNCHANGED mishaps
       \/ /\ Mishap /\ Fails
          /\ \/ db' = "completed" /\ stored' = TRUE
             \/ UNCHANGED <<db, stored>>
    /\ UNCHANGED <<timer, conn, view, saved, restarted>>

\* The suggestion and the history are recorded (what they raise they swallow),
\* then the completed event is emitted.
AnnounceCompleted ==
    /\ pipe = "recording"
    /\ task' = Emit("completed")
    /\ pipe' = "over"
    /\ UNCHANGED <<db, stored, timer, conn, view, saved, mishaps, restarted>>

\* The except block: a failing write leaves the stream without an error event.
RecordFailure ==
    /\ pipe = "failing"
    /\ \/ db' = "failed" /\ task' = Emit("error") /\ UNCHANGED mishaps
       \/ Mishap /\ UNCHANGED <<db, task>>
    /\ pipe' = "over"
    /\ UNCHANGED <<stored, timer, conn, view, saved, restarted>>
-----------------------------------------------------------------------------
\* The event stream of a viewer, on the server.

\* A new stream: an unknown id gets one error event and the end.
Opened == IF task.here THEN [NoConn EXCEPT !.state = "reading"]
          ELSE [state |-> "ended", missing |-> TRUE, sent |-> 1, got |-> 0]

SendEvent(v) ==
    /\ conn[v].state = "reading" /\ conn[v].sent < Len(task.events)
    /\ conn' = [conn EXCEPT ![v].sent = @ + 1]
    /\ UNCHANGED <<server, view, saved, mishaps, restarted>>

\* Mutant: the entry is never cleaned up.
EndStreamKeeping(v) ==
    /\ conn[v].state = "reading" /\ conn[v].sent = Len(task.events)
    /\ task.status \in Terminal
    /\ conn' = [conn EXCEPT ![v].state = "ended"]
    /\ UNCHANGED <<server, view, saved, mishaps, restarted>>

\* Every event sent and the status terminal: the stream ends and its clean-up
\* is scheduled.
EndStream(v) ==
    /\ conn[v].state = "reading" /\ conn[v].sent = Len(task.events)
    /\ task.status \in Terminal
    /\ conn' = [conn EXCEPT ![v].state = "ended"]
    /\ timer' = TRUE
    /\ UNCHANGED <<db, stored, task, pipe, view, saved, mishaps, restarted>>

\* A request or a pause of a viewer is shorter than the 30 s of the timer.
Cleanup ==
    /\ timer
    /\ \A v \in Viewers : view[v].at = "rest"
    /\ task' = [task EXCEPT !.here = FALSE]
    /\ timer' = FALSE
    /\ UNCHANGED <<db, stored, pipe, conn, view, saved, mishaps, restarted>>
-----------------------------------------------------------------------------
\* The viewers.

Show(v, phase, at) == [view EXCEPT ![v].phase = phase, ![v].at = at]
Close(v) == [conn EXCEPT ![v] = NoConn]

\* subscribe(): closes the previous stream and opens one that replays
\* the events from the first on.
Subscribe(v) ==
    /\ conn' = [conn EXCEPT ![v] = Opened]
    /\ view' = Show(v, "generating", "rest")

\* startGeneration() of a page: the POST is under way, the row is committed.
StartGeneration(v) ==
    /\ v \in Pages /\ pipe = "none" /\ view[v] = NoView
    /\ db' = "pending" /\ pipe' = "row"
    /\ view' = Show(v, "generating", "posting")
    /\ UNCHANGED <<stored, task, timer, conn, saved, mishaps, restarted>>

\* The POST answers with the id, or fails for the page though not for the server.
Started(v) ==
    /\ view[v].at = "posting"
    /\ \/ /\ pipe \notin {"row", "none"} /\ task.here
          /\ saved' = TRUE /\ Subscribe(v) /\ UNCHANGED mishaps
       \/ Mishap /\ view' = Show(v, "lost", "rest") /\ UNCHANGED <<conn, saved>>
    /\ UNCHANGED <<server, restarted>>

\* A viewer is mounted, or the browser reloads it: a page looks for the saved
\* id, a widget knows its generation.
Mount(v) ==
    /\ pipe \notin {"none", "row"}
    /\ \/ view[v] = NoView /\ UNCHANGED mishaps
       \/ view[v] # NoView /\ Mishap
    /\ v \in Pages => saved
    /\ conn' = Close(v)
    /\ view' = [view EXCEPT ![v] =
                  [phase |-> IF v \in Pages THEN "idle" ELSE "generating",
                   at |-> "mount", attempts |-> 0]]
    /\ UNCHANGED <<server, saved, restarted>>

\* es.onmessage
HandleEvent(v) ==
    LET e == IF conn[v].missing THEN "error" ELSE task.events[conn[v].got + 1] IN
    /\ view[v].at = "rest" /\ conn[v].state # "none" /\ conn[v].got < conn[v].sent
    /\ \/ /\ e = "progress"
          /\ conn' = [conn EXCEPT ![v].got = @ + 1]
          /\ view' = [view EXCEPT ![v].attempts = 0]
          /\ UNCHANGED saved
       \/ /\ e = "completed"
          /\ conn' = Close(v)
          /\ view' = [view EXCEPT ![v].at = "result", ![v].attempts = 0]
          /\ saved' = (saved /\ v \notin Pages)
       \/ /\ e = "error"
          /\ conn' = Close(v)
          /\ view' = [view EXCEPT ![v].phase = "failed", ![v].attempts = 0]
          /\ saved' = (saved /\ v \notin Pages)
    /\ UNCHANGED <<server, mishaps, restarted>>

\* es.onerror: the server closed the stream, or it broke and what was not
\* handled yet is lost.
StreamGone(v) ==
    /\ view[v].at = "rest"
    /\ \/ conn[v].state = "ended" /\ conn[v].got = conn[v].sent
       \/ conn[v].state = "broken"
    /\ conn' = Close(v)
    /\ view' = [view EXCEPT ![v].at = IF v \in Pages THEN "fallback" ELSE "result"]
    /\ UNCHANGED <<server, saved, mishaps, restarted>>

\* Mutant: one reconnect more.
MayReconnectAgain(v) == view[v].attempts <= MaxReconnect
MayReconnect(v) == view[v].attempts < MaxReconnect

\* Mutant: a page whose stream ended takes what is not completed for failed.
IsFailedHastily(v) == db # "completed"
IsFailed(v) == db = "failed"

\* A page has the answer of its detail request.
PageAnswered(v) ==
    /\ v \in Pages /\ view[v].at \in {"mount", "fallback", "result"}
    /\ \/ /\ db = "completed" \/ view[v].at = "result"
          /\ view' = Show(v, "done", "rest") /\ saved' = FALSE /\ UNCHANGED conn
       \/ /\ IsFailed(v) /\ view[v].at # "result"
          /\ view' = Show(v, "failed", "rest") /\ saved' = FALSE /\ UNCHANGED conn
       \/ /\ db \notin Terminal /\ view[v].at = "mount"
          /\ Subscribe(v) /\ UNCHANGED saved
       \/ /\ db \notin Terminal /\ view[v].at = "fallback"
          /\ IF MayReconnect(v)
             THEN /\ view' = [view EXCEPT ![v].at = "pause", ![v].attempts = @ + 1]
                  /\ UNCHANGED saved
             ELSE view' = Show(v, "lost", "rest") /\ saved' = FALSE
          /\ UNCHANGED conn
    /\ UNCHANGED <<server, mishaps, restarted>>

\* The 1.5 s before the page subscribes again are over.
Resubscribe(v) ==
    /\ view[v].at = "pause"
    /\ Subscribe(v)
    /\ UNCHANGED <<server, saved, mishaps, restarted>>

\* Mutant: a widget takes a generation that did not fail for done.
NotFailed == db # "failed"
HasCandidates == stored /\ db # "failed"

\* A widget has the answer: finish() takes a generation without candidates
\* for a failed one, also when it is still running.
WidgetAnswered(v) ==
    /\ v \notin Pages
    /\ \/ /\ view[v].at = "mount" /\ db \in Terminal
          /\ view' = Show(v, view[v].phase, "result") /\ UNCHANGED conn
       \/ view[v].at = "mount" /\ db \notin Terminal /\ Subscribe(v)
       \/ /\ view[v].at = "result"
          /\ view' = Show(v, IF HasCandidates THEN "done" ELSE "failed", "rest")
          /\ UNCHANGED conn
    /\ UNCHANGED <<server, saved, mishaps, restarted>>

\* The detail request fails.
DetailFails(v) ==
    /\ view[v].at \in {"mount", "fallback", "result"} /\ Mishap
    /\ IF v \notin Pages /\ view[v].at = "mount"
       THEN Subscribe(v) /\ UNCHANGED saved
       ELSE /\ view' = Show(v, IF v \in Pages /\ view[v].at = "mount" THEN "idle" ELSE "lost",
                            "rest")
            /\ saved' = (saved /\ v \notin Pages) /\ UNCHANGED conn
    /\ UNCHANGED <<server, restarted>>
-----------------------------------------------------------------------------
\* The network breaks a stream.
Drop(v) ==
    /\ conn[v].state \in {"reading", "ended"} /\ Mishap
    /\ conn' = [conn EXCEPT ![v].state = "broken"]
    /\ UNCHANGED <<server, view, saved, restarted>>

\* The process restarts: the table, the pipeline and the timer are gone, the
\* row keeps the status it had.
Restart ==
    /\ pipe # "none" /\ Mishap
    /\ task' = [task EXCEPT !.here = FALSE]
    /\ pipe' = "over" /\ timer' = FALSE /\ restarted' = TRUE
    /\ conn' = [v \in Viewers |-> IF conn[v].state \in {"none", "ended"} THEN conn[v]
                                  ELSE [conn[v] EXCEPT !.state = "broken"]]
    /\ view' = [v \in Viewers |-> IF view[v].at = "posting"
                                  THEN [view[v] EXCEPT !.phase = "lost", !.at = "rest"]
                                  ELSE view[v]]
    /\ UNCHANGED <<db, stored, saved>>

Pipeline == QueueTask \/ BeginPipeline \/ MarkRunning \/ RunGraph \/ PersistResults
            \/ AnnounceCompleted \/ RecordFailure
Stream(v) == SendEvent(v) \/ EndStream(v)
Answered(v) == PageAnswered(v) \/ WidgetAnswered(v) \/ Started(v) \/ Resubscribe(v)
Browser(v) == HandleEvent(v) \/ StreamGone(v)

Next ==
    \/ Pipeline \/ Cleanup \/ Restart
    \/ \E v \in Viewers : \/ StartGeneration(v) \/ Mount(v) \/ Stream(v) \/ Answered(v)
                          \/ Browser(v) \/ DetailFails(v) \/ Drop(v)

\* asyncio runs what is ready, requests and timer of the browser end.  The
\* timer of the clean-up fires too, only never within a viewer's request.
Fairness ==
    /\ WF_vars(Pipeline) /\ SF_vars(Cleanup)
    /\ \A v \in Viewers : WF_vars(Stream(v)) /\ WF_vars(Answered(v)) /\ WF_vars(Browser(v))

Spec == Init /\ [][Next]_vars /\ Fairness
-----------------------------------------------------------------------------
\* A viewer shows a result only when the candidates are in the database,
\* whatever stream, reload or request told it so (page.tsx:1026, :1046,
\* GenProgressWidget.tsx:40).
DoneIsStored == \A v \in Viewers : view[v].phase = "done" => stored

\* Unless the process restarts, a page that shows a failure shows one: it does
\* not give up a generation that still runs or that has its result because a
\* stream ended without the last event ("네트워크 끊김·완료 오인 모두 방지",
\* page.tsx:1043).
FailureIsFinal ==
    \A v \in Pages : view[v].phase = "failed" /\ ~restarted
                        => pipe \in {"failing", "over"} /\ db # "completed"

\* Every viewer that shows "generating" comes to an end, even when the row and
\* the entry say different things for ever: then the page reconnects, its counter
\* is reset by the replayed events, and only the clean-up of the entry stops it.
ViewersSettle ==
    \A v \in Viewers : view[v].phase = "generating" ~> view[v].phase # "generating"
=============================================================================
