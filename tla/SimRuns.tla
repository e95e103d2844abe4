------------------------------- MODULE SimRuns ------------------------------
(***************************************************************************)
(* One simulation from its start to the viewers that follow it: the run in *)
(* the in-memory store of simulation_service.py, the event streams that    *)
(* poll the store, and two kinds of viewers, which treat the end of a      *)
(* stream differently: the simulation page, which reconnects through       *)
(* lib/sse.ts, and the form widget of the chat, which asks for the status. *)
(*                                                                         *)
(* Comparisons (_run_comparison) and debates (debate_service.py) use the   *)
(* same store, set the result, the status and the last event in the same   *)
(* way, and stream alike.  What a run saves in the database is not read by *)
(* any of this.                                                            *)
(***************************************************************************)
EXTENDS Integers, Sequences

CONSTANTS
    Pages, Widgets,         \* the viewers, by kind
    MaxRetries,             \* maxRetries of lib/sse.ts, and the 5 of the widget
    MaxProgress,            \* bound: progress events of the graph
    MaxMishaps              \* bound: failed requests, drops, reloads and restarts

Watchers == Pages \cup Widgets

VARIABLES
    run,        \* the run in the store: status, events, result
    step,       \* where _run is
    stream,     \* per viewer: its stream, events sent and handled
    shown,      \* per viewer: what it shows, what it waits for, its retries
    key,        \* viewers whose ACTIVE_SIM_KEY is in localStorage
    mishaps,
    restarted   \* the process restarted

vars == <<run, step, stream, shown, key, mishaps, restarted>>

Closed == [state |-> "none", missing |-> FALSE, sent |-> 0, got |-> 0]
Idle == [phase |-> "form", at |-> "rest", retries |-> 0]
Unknown == [status |-> "none", events |-> <<>>, result |-> FALSE]
Ended == {"COMPLETED", "FAILED"}

TypeOK ==
    /\ run \in [status : {"none", "QUEUED", "RUNNING"} \cup Ended,
                events : Seq({"progress", "completed", "error"}), result : BOOLEAN]
    /\ step \in {"none", "queued", "graph", "over"}
    /\ stream \in [Watchers -> [state : {"none", "reading", "ended", "broken"},
                               missing : BOOLEAN, sent : Nat, got : Nat]]
    /\ shown \in [Watchers -> [phase : {"form", "running", "done", "error"},
                              at : {"rest", "posting", "mount", "check", "result", "pause"},
                              retries : 0..MaxRetries]]
    /\ key \subseteq Watchers
    /\ mishaps \in 0..MaxMishaps /\ restarted \in BOOLEAN

Init ==
    /\ run = Unknown /\ step = "none"
    /\ stream = [v \in Watchers |-> Closed]
    /\ shown = [v \in Watchers |-> Idle]
    /\ key = {} /\ mishaps = 0 /\ restarted = FALSE

Mishap == mishaps < MaxMishaps /\ mishaps' = mishaps + 1
-----------------------------------------------------------------------------
\* The run.

Emit(e, status, result) ==
    run' = [status |-> status, events |-> Append(run.events, e), result |-> result]

\* The scheduled _run starts.
Begin ==
    /\ step = "queued"
    /\ Emit("progress", "RUNNING", FALSE) /\ step' = "graph"
    /\ UNCHANGED <<stream, shown, key, mishaps, restarted>>

\* A node of the graph reports progress, ...
Progress ==
    /\ step = "graph" /\ Len(run.events) < MaxProgress
    /\ Emit("progress", "RUNNING", FALSE)
    /\ UNCHANGED <<step, stream, shown, key, mishaps, restarted>>

\* Mutant: the last event and the status come before the result.
CompleteEarly ==
    /\ step = "graph"
    /\ Emit("completed", "COMPLETED", FALSE) /\ step' = "over"
    /\ UNCHANGED <<stream, shown, key, mishaps, restarted>>

\* ... the graph ends: result, status and last event are set without an await
\* in between, and what is recorded after that raises nothing ...
Complete ==
    /\ step = "graph"
    /\ Emit("completed", "COMPLETED", TRUE) /\ step' = "over"
    /\ UNCHANGED <<stream, shown, key, mishaps, restarted>>

\* ... or it raises.
Fail ==
    /\ step = "graph"
    /\ Emit("error", "FAILED", FALSE) /\ step' = "over"
    /\ UNCHANGED <<stream, shown, key, mishaps, restarted>>
-----------------------------------------------------------------------------
\* stream_events for one viewer.

Opened == IF run.status = "none"
          THEN [state |-> "ended", missing |-> TRUE, sent |-> 1, got |-> 0]
          ELSE [Closed EXCEPT !.state = "reading"]

SendEvent(v) ==
    /\ stream[v].state = "reading" /\ stream[v].sent < Len(run.events)
    /\ stream' = [stream EXCEPT ![v].sent = @ + 1]
    /\ UNCHANGED <<run, step, shown, key, mishaps, restarted>>

\* Mutant: the stream ends without looking for events it has not sent.
EndStreamEarly(v) ==
    /\ stream[v].state = "reading" /\ run.status \in Ended
    /\ stream' = [stream EXCEPT ![v].state = "ended"]
    /\ UNCHANGED <<run, step, shown, key, mishaps, restarted>>

EndStream(v) ==
    /\ stream[v].state = "reading" /\ stream[v].sent = Len(run.events)
    /\ run.status \in Ended
    /\ stream' = [stream EXCEPT ![v].state = "ended"]
    /\ UNCHANGED <<run, step, shown, key, mishaps, restarted>>
-----------------------------------------------------------------------------
\* The viewers.

Show(v, phase, at) == [shown EXCEPT ![v].phase = phase, ![v].at = at]
Close(v) == stream' = [stream EXCEPT ![v] = Closed]
Subscribe(v) == stream' = [stream EXCEPT ![v] = Opened]
Rest(v) == shown[v].at = "rest"

\* start(): the run is created; the POST answers with its id or is lost.
Start(v) ==
    /\ step = "none"
    /\ run' = [Unknown EXCEPT !.status = "QUEUED"] /\ step' = "queued"
    /\ shown' = Show(v, "running", "posting")
    /\ UNCHANGED <<stream, key, mishaps, restarted>>

Started(v) ==
    /\ shown[v].at = "posting"
    /\ \/ /\ ~restarted
          /\ key' = key \cup {v} /\ Subscribe(v)
          /\ shown' = Show(v, "running", "rest") /\ UNCHANGED mishaps
       \/ Mishap /\ shown' = Show(v, "error", "rest") /\ UNCHANGED <<key, stream>>
       \/ restarted /\ shown' = Show(v, "error", "rest") /\ UNCHANGED <<key, stream, mishaps>>
    /\ UNCHANGED <<run, step, restarted>>

\* A page or a widget is mounted again and finds the id it saved: it asks for
\* the status, the page behind a progress screen.
Reload(v) ==
    /\ v \in key /\ Mishap
    /\ Close(v)
    /\ shown' = [shown EXCEPT ![v] = [phase |-> IF v \in Pages THEN "running" ELSE "form",
                                      at |-> "mount", retries |-> 0]]
    /\ UNCHANGED <<run, step, key, restarted>>

\* es.onmessage: a widget gets its retries back with every event.
HandleEvent(v) ==
    LET e == IF stream[v].missing THEN "error" ELSE run.events[stream[v].got + 1]
        fresh == [shown EXCEPT ![v].retries = IF v \in Widgets THEN 0 ELSE @]
    IN
    /\ Rest(v) /\ stream[v].got < stream[v].sent
    /\ \/ /\ e = "progress"
          /\ stream' = [stream EXCEPT ![v].got = @ + 1]
          /\ shown' = fresh /\ UNCHANGED key
       \/ /\ e = "completed"
          /\ Close(v) /\ key' = key \ {v}
          /\ shown' = [fresh EXCEPT ![v].at = "result"]
       \/ /\ e = "error"
          /\ Close(v) /\ key' = key \ {v}
          /\ shown' = [fresh EXCEPT ![v].phase = "error"]
    /\ UNCHANGED <<run, step, mishaps, restarted>>

\* lib/sse.ts: a connection that lasts for stabilityMs gives the retries back.
Stable(v) ==
    /\ v \in Pages /\ Rest(v) /\ stream[v].state = "reading" /\ shown[v].retries > 0
    /\ shown' = [shown EXCEPT ![v].retries = 0]
    /\ UNCHANGED <<run, step, stream, key, mishaps, restarted>>

MayRetry(v) == shown[v].retries < MaxRetries

\* Mutant: a page gives up without a word, as a widget does after a 404.
GivenUpQuietly(v) == Show(v, "running", "rest")
GivenUp(v) == Show(v, "error", "rest")

\* es.onerror
StreamGone(v) ==
    /\ Rest(v)
    /\ \/ stream[v].state = "ended" /\ stream[v].got = stream[v].sent
       \/ stream[v].state = "broken"
    /\ \/ /\ v \in Pages
          /\ Close(v)
          /\ IF MayRetry(v)
             THEN /\ shown' = [shown EXCEPT ![v].at = "pause", ![v].retries = @ + 1]
                  /\ UNCHANGED key
             ELSE shown' = GivenUp(v) /\ key' = key \ {v}
       \/ v \in Widgets /\ Close(v) /\ shown' = Show(v, "running", "check") /\ UNCHANGED key
    /\ UNCHANGED <<run, step, mishaps, restarted>>

\* The backoff of a page is over.
Reconnect(v) ==
    /\ shown[v].at = "pause"
    /\ Subscribe(v) /\ shown' = [shown EXCEPT ![v].at = "rest"]
    /\ UNCHANGED <<run, step, key, mishaps, restarted>>

\* The status a page or a widget asked for on mounting; an unknown run is a
\* 404 and ends in the catch branch, which keeps the id.
MountAnswered(v) ==
    /\ shown[v].at = "mount"
    /\ \/ /\ run.status = "RUNNING"
          /\ Subscribe(v) /\ shown' = Show(v, "running", "rest") /\ UNCHANGED key
       \/ /\ run.status = "COMPLETED" /\ v \in Widgets
          /\ key' = key \ {v} /\ shown' = Show(v, "running", "result") /\ UNCHANGED stream
       \/ /\ \/ run.status \in {"QUEUED", "FAILED"}
             \/ run.status = "COMPLETED" /\ v \in Pages
          /\ key' = key \ {v} /\ shown' = Show(v, "form", "rest") /\ UNCHANGED stream
       \/ run.status = "none" /\ shown' = Show(v, "form", "rest") /\ UNCHANGED <<key, stream>>
    /\ UNCHANGED <<run, step, mishaps, restarted>>

\* The status a widget asked for when its stream was gone; after a 404, as
\* after its last retry, it stays as it is.
CheckAnswered(v) ==
    /\ shown[v].at = "check"
    /\ \/ /\ run.status = "RUNNING"
          /\ IF MayRetry(v)
             THEN /\ Subscribe(v)
                  /\ shown' = [shown EXCEPT ![v].at = "rest", ![v].retries = @ + 1]
             ELSE shown' = Show(v, "running", "rest") /\ UNCHANGED stream
          /\ UNCHANGED key
       \/ /\ run.status = "COMPLETED"
          /\ key' = key \ {v} /\ shown' = Show(v, "running", "result") /\ UNCHANGED stream
       \/ /\ run.status \in {"QUEUED", "FAILED"}
          /\ key' = key \ {v} /\ shown' = Show(v, "error", "rest") /\ UNCHANGED stream
       \/ run.status = "none" /\ shown' = Show(v, "running", "rest") /\ UNCHANGED <<key, stream>>
    /\ UNCHANGED <<run, step, mishaps, restarted>>

\* The result a page or a widget asked for after the completed event.
ResultAnswered(v) ==
    /\ shown[v].at = "result"
    /\ shown' = Show(v, IF run.result THEN "done" ELSE "error", "rest")
    /\ UNCHANGED <<run, step, stream, key, mishaps, restarted>>

\* A request of a viewer fails.
RequestFails(v) ==
    /\ shown[v].at \in {"mount", "check", "result"} /\ Mishap
    /\ shown' = Show(v, CASE shown[v].at = "mount" -> "form"
                          [] shown[v].at = "check" -> "running"
                          [] shown[v].at = "result" -> "error", "rest")
    /\ UNCHANGED <<run, step, stream, key, restarted>>
-----------------------------------------------------------------------------
\* The network breaks a stream.
Drop(v) ==
    /\ stream[v].state \in {"reading", "ended"} /\ Mishap
    /\ stream' = [stream EXCEPT ![v].state = "broken"]
    /\ UNCHANGED <<run, step, shown, key, restarted>>

\* The process restarts and knows no run any more; events under way are lost
\* with their streams.
Restart ==
    /\ run.status # "none" /\ Mishap
    /\ run' = Unknown /\ step' = "over" /\ restarted' = TRUE
    /\ stream' = [v \in Watchers |->
                    IF stream[v].state = "none" THEN Closed
                    ELSE [Closed EXCEPT !.state = "broken"]]
    /\ UNCHANGED <<shown, key>>

Run == Begin \/ Progress \/ Complete \/ Fail
Stream(v) == SendEvent(v) \/ EndStream(v)
Browser(v) == HandleEvent(v) \/ StreamGone(v)
Answered(v) == Started(v) \/ MountAnswered(v) \/ CheckAnswered(v) \/ ResultAnswered(v)
               \/ Reconnect(v)

Next ==
    \/ Run \/ Restart
    \/ \E v \in Watchers : \/ Start(v) \/ Reload(v) \/ Stream(v) \/ Browser(v)
                          \/ Stable(v) \/ Answered(v) \/ RequestFails(v) \/ Drop(v)

\* asyncio runs what is ready, and requests and timers of a browser end.
Fairness ==
    /\ WF_vars(Run)
    /\ \A v \in Watchers : WF_vars(Stream(v)) /\ WF_vars(Browser(v)) /\ WF_vars(Answered(v))

Spec == Init /\ [][Next]_vars /\ Fairness
-----------------------------------------------------------------------------
\* A stream that the server ends has sent the last event of the run, and a run
\* that says COMPLETED has its result: a page never asks for the status when a
\* stream ends, and knows of the verdict only by this event.
StreamEndsWithVerdict ==
    \A v \in Watchers :
        stream[v].state = "ended" /\ ~stream[v].missing
            => /\ stream[v].sent > 0
               /\ LET last == run.events[stream[v].sent] IN
                  \/ last = "completed" /\ run.result
                  \/ last = "error" /\ run.status = "FAILED"

\* What a viewer shows is what happened, unless the process restarted or a
\* request failed: a result there is, a failure the run's own.
ShownIsTrue ==
    \A v \in Watchers :
        /\ shown[v].phase = "done" => run.result \/ restarted
        /\ shown[v].phase = "error" /\ mishaps = 0 => run.status = "FAILED"

\* A page that shows progress comes to an end, through breaks of the network,
\* reloads and restarts.
PagesSettle ==
    \A v \in Pages : shown[v].phase = "running" ~> shown[v].phase # "running"

\* The same for a widget of the chat.
WidgetsSettle ==
    \A v \in Widgets : shown[v].phase = "running" ~> shown[v].phase # "running"
=============================================================================
