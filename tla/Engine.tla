-------------------------------- MODULE Engine --------------------------------
(***************************************************************************)
(* One execution of the execution engine: the spawned task that runs       *)
(* run_driver, the protocol driver it calls (in the same task), the        *)
(* "forward" task that tees the driver's events, the cancellation token    *)
(* and the entry of the execution in the registry `active`.                *)
(*                                                                         *)
(* Executions share nothing but the registry, which is keyed by their id,  *)
(* so one execution stands for all of them.                                *)
(*                                                                         *)
(* Every `emit(..).await` is a point where the task can block on a full    *)
(* channel: the events that the task must still emit before it goes on are *)
(* kept in `todo`, and Emit hands them over one at a time.                 *)
(***************************************************************************)
EXTENDS Naturals, Sequences

CONSTANTS
    Cap,         \* capacity of an event channel (256 in the code)
    Drivers,     \* the protocol drivers in use
    MaxRetries,  \* bound on the retries (HTTP) or reconnects a request asks for
    MaxChunks    \* bound on the chunks or frames the peer sends

ASSUME CapAssumption == Cap \in Nat \ {0}
ASSUME DriversAssumption == Drivers \subseteq {"http", "sse", "websocket"}
ASSUME BoundsAssumption == MaxRetries \in Nat /\ MaxChunks \in Nat

VARIABLES
    req,      \* what the request asks for
    pc,       \* control point of the engine's task
    todo,     \* events to emit before the task takes its next step
    tee,      \* channel driver -> forward task
    rx,       \* channel engine -> consumer
    fwd,      \* the forward task
    fheld,    \* the event the forward task has received and not yet sent
    seen,     \* what the forward task has captured of the response
    sink,     \* who owns the sending half of rx
    attempt,  \* retries or reconnects made
    chunks,   \* chunks or frames received from the peer
    token,    \* the cancellation token is cancelled
    active,   \* the execution is in the registry
    outcome,  \* what run_driver returns
    emitted   \* history: the events emitted, in program order

engineVars == <<req, pc, todo, tee, rx, fwd, fheld, seen, sink, attempt,
                chunks, token, active, outcome, emitted>>

(***************************************************************************)
(* Events.  "running" is StateChanged(Running, any phase), "stateFailed"   *)
(* and "stateCompleted" the other two StateChanged; "chunk" is a           *)
(* ResponseChunk with data, "last" the final one (done = true).            *)
(***************************************************************************)
Event == {"running", "stateFailed", "stateCompleted", "log", "warning",
          "meta", "chunk", "last", "vars", "assertion",
          "completed", "failed", "cancelled"}

(* Points of the task that run inside driver.execute: its events go to the *)
(* tee, and the tee is closed when the task leaves them.                   *)
DriverPcs == {"enter", "connect", "backoff", "transfer",
              "driverOk", "driverErr", "driverCancelled"}

TaskPcs == {"before", "pre", "resolve", "auth", "validate",
            "joinOk", "joinErr", "joinCancelled", "post", "assert",
            "finish", "cleanup", "done", "panicked"}

Outcomes == {"none", "ok", "script", "resolve", "auth", "validation",
             "driver", "cancelled"}

Requests == [driver : Drivers, pre : BOOLEAN, post : BOOLEAN,
             asserts : BOOLEAN, retries : 0 .. MaxRetries]

Finished == pc \in {"done", "panicked"}
RxClosed == sink = "dropped"

TeeClosedAtEnd == Finished     \* mutant: a clone of the tee's sender is kept
TeeClosed == pc \notin DriverPcs

(* A bounded channel has room for an event.                                *)
HasRoom(channel) == Len(channel) < Cap

EngineInit ==
    /\ req \in Requests
    /\ pc = "before"
    /\ todo = <<>> /\ tee = <<>> /\ rx = <<>>
    /\ fwd = "off" /\ fheld = <<>> /\ seen = {}
    /\ sink = "task"
    /\ attempt = 0 /\ chunks = 0
    /\ token = FALSE
    /\ active = TRUE
    /\ outcome = "none"
    /\ emitted = <<>>

-------------------------------------------------------------------------------
(* The task is at point p and has nothing left to emit.                    *)
At(p) == pc = p /\ todo = <<>>

(* The task goes to point p once it has emitted events.                    *)
Goto(p, events) == pc' = p /\ todo' = events

(* run_driver decides to return r, after emitting events.                  *)
Return(r, events) == Goto("finish", events) /\ outcome' = r

taskOnly == <<req, tee, rx, fwd, fheld, seen, attempt, chunks, token, active,
              emitted>>

(* EventSink::emit: wait for room, then send.                              *)
Emit ==
    /\ todo # <<>>
    /\ IF pc \in DriverPcs
       THEN /\ HasRoom(tee)
            /\ tee' = Append(tee, Head(todo))
            /\ UNCHANGED rx
       ELSE /\ HasRoom(rx)
            /\ rx' = Append(rx, Head(todo))
            /\ UNCHANGED tee
    /\ emitted' = Append(emitted, Head(todo))
    /\ todo' = Tail(todo)
    /\ UNCHANGED <<req, pc, fwd, fheld, seen, sink, attempt, chunks, token,
                   active, outcome>>

Begin ==
    /\ At("before")
    /\ Goto(IF req.pre THEN "pre" ELSE "resolve", <<"running">>)
    /\ UNCHANGED <<sink, outcome, taskOnly>>

(* The scripts print any number of messages; one stands for all.           *)
RunPreScripts ==
    /\ At("pre")
    /\ \/ \E logs \in {<<>>, <<"log">>} :
             Goto("resolve", logs \o <<"running">>) /\ UNCHANGED outcome
       \/ Return("script", <<"failed">>)
    /\ UNCHANGED <<sink, taskOnly>>

ResolveRequest ==
    /\ At("resolve")
    /\ \/ Goto("auth", <<>>) /\ UNCHANGED outcome
       \/ Return("resolve", <<"failed", "stateFailed">>)
    /\ UNCHANGED <<sink, taskOnly>>

ApplyAuth ==
    /\ At("auth")
    /\ \/ Goto("validate", <<"running">>) /\ UNCHANGED outcome
       \/ Return("auth", <<"failed", "stateFailed">>)
    /\ UNCHANGED <<sink, taskOnly>>

ValidateFails ==
    /\ At("validate")
    /\ Return("validation", <<"failed", "stateFailed">>)
    /\ UNCHANGED <<sink, taskOnly>>

(* The forward task is spawned, it takes the sink over; the driver starts. *)
SpawnForward ==
    /\ At("validate")
    /\ Goto("enter", <<>>)
    /\ fwd' = "recv"
    /\ sink' = "forward"
    /\ UNCHANGED <<req, tee, rx, fheld, seen, attempt, chunks, token, active,
                   outcome, emitted>>

-------------------------------------------------------------------------------
(***************************************************************************)
(* The drivers.  HTTP retries failed sends and 5xx answers, SSE and        *)
(* WebSocket reconnect when the stream ends; every wait is a select with   *)
(* the cancellation token.                                                 *)
(***************************************************************************)
driverOnly == <<req, tee, rx, fwd, fheld, seen, sink, token, active, outcome,
                emitted>>

(* Only the HTTP and SSE drivers emit an event when they are cancelled.    *)
CancelEvents(d) == IF d \in {"http", "sse"} THEN <<"cancelled">> ELSE <<>>

(* HTTP alone follows Completed with StateChanged(Completed).              *)
CompletionEvents(d) ==
    <<"last", "completed">> \o (IF d = "http" THEN <<"stateCompleted">> ELSE <<>>)

(* Only HTTP puts a preview in the final chunk.                            *)
FinalPreview(d) == d = "http"

(* HTTP checks the method, the URL and the client after the first event.   *)
DriverEnter ==
    /\ At("enter")
    /\ \/ Goto("connect", <<"running">>)
       \/ Goto("driverErr", <<>>)
       \/ req.driver = "http" /\ Goto("driverErr", <<"running">>)
    /\ UNCHANGED <<attempt, chunks, driverOnly>>

DriverCancel ==
    /\ token
    /\ At("connect") \/ At("backoff") \/ At("transfer")
    /\ Goto("driverCancelled", CancelEvents(req.driver))
    /\ UNCHANGED <<attempt, chunks, driverOnly>>

(* A response; SSE then rejects a bad status or warns about the content    *)
(* type, WebSocket may fail to send.                                       *)
DriverConnect ==
    /\ At("connect")
    /\ \/ Goto("transfer", <<"meta", "running">>)
       \/ req.driver = "sse" /\ Goto("transfer", <<"meta", "warning", "running">>)
       \/ req.driver \in {"sse", "websocket"} /\ Goto("driverErr", <<"meta">>)
    /\ UNCHANGED <<attempt, chunks, driverOnly>>

Retry ==
    /\ attempt < req.retries
    /\ attempt' = attempt + 1
    /\ Goto("backoff", <<"warning">>)

(* SSE never retries a connection, HTTP not a body that it cannot build.   *)
DriverConnectFails ==
    /\ At("connect")
    /\ \/ req.driver \in {"http", "websocket"} /\ Retry
       \/ /\ req.driver \in {"http", "sse"} \/ attempt >= req.retries
          /\ Goto("driverErr", <<>>) /\ UNCHANGED attempt
    /\ UNCHANGED <<chunks, driverOnly>>

DriverBackoff ==
    /\ At("backoff")
    /\ Goto("connect", <<>>)
    /\ UNCHANGED <<attempt, chunks, driverOnly>>

(* A piece of the body, or a WebSocket ping, which is only logged.         *)
DriverChunk ==
    /\ At("transfer")
    /\ chunks < MaxChunks
    /\ chunks' = chunks + 1
    /\ \/ Goto("transfer", <<"chunk">>)
       \/ req.driver = "websocket" /\ Goto("transfer", <<"log">>)
    /\ UNCHANGED <<attempt, driverOnly>>

(* A broken stream is an error; for WebSocket it is the end, and the error *)
(* is a pong that cannot be sent.                                          *)
DriverStreamError ==
    /\ At("transfer")
    /\ Goto("driverErr", <<>>)
    /\ UNCHANGED <<attempt, chunks, driverOnly>>

(* WebSocket may stop early, at its receive limit.                         *)
DriverStreamEnd ==
    /\ At("transfer")
    /\ \/ req.driver \in {"sse", "websocket"} /\ Retry
       \/ /\ req.driver \in {"http", "websocket"} \/ attempt >= req.retries
          /\ Goto("driverOk", CompletionEvents(req.driver))
          /\ UNCHANGED attempt
    /\ UNCHANGED <<chunks, driverOnly>>

(* driver.execute returns and drops the sending half of the tee.           *)
DriverReturn ==
    /\ \/ At("driverOk") /\ Goto("joinOk", <<>>)
       \/ At("driverErr") /\ Goto("joinErr", <<>>)
       \/ At("driverCancelled") /\ Goto("joinCancelled", <<>>)
    /\ UNCHANGED <<attempt, chunks, driverOnly>>

-------------------------------------------------------------------------------
(***************************************************************************)
(* The forward task copies the tee to the consumer's channel and keeps the *)
(* response's head and final preview for scripts and assertions.           *)
(***************************************************************************)
CapturedAnyChunk(e) ==         \* mutant: the preview of the wrong chunk
    IF e = "meta" THEN {"meta"} ELSE IF e = "chunk" THEN {"body"} ELSE {}

Captured(e) ==
    (IF e = "meta" THEN {"meta"} ELSE {})
    \union (IF e = "last" /\ FinalPreview(req.driver) THEN {"body"} ELSE {})

ForwardRecv ==
    /\ fwd = "recv" /\ fheld = <<>> /\ tee # <<>>
    /\ fheld' = <<Head(tee)>>
    /\ tee' = Tail(tee)
    /\ seen' = seen \union Captured(Head(tee))
    /\ UNCHANGED <<req, pc, todo, rx, fwd, sink, attempt, chunks, token,
                   active, outcome, emitted>>

ForwardSend ==
    /\ fheld # <<>>
    /\ HasRoom(rx)
    /\ rx' = Append(rx, Head(fheld))
    /\ fheld' = <<>>
    /\ UNCHANGED <<req, pc, todo, tee, fwd, seen, sink, attempt, chunks,
                   token, active, outcome, emitted>>

(* The tee is closed and empty: the task ends, and the sink goes back to   *)
(* the engine's task through the join handle.                              *)
ForwardEnd ==
    /\ fwd = "recv" /\ fheld = <<>> /\ tee = <<>> /\ TeeClosed
    /\ fwd' = "done"
    /\ UNCHANGED <<req, pc, todo, tee, rx, fheld, seen, sink, attempt, chunks,
                   token, active, outcome, emitted>>

-------------------------------------------------------------------------------
(* After the driver: join the forward task, then scripts and assertions.   *)

(* The point reached when the post scripts are over.                       *)
ToAssertions(events) ==
    IF req.asserts
    THEN Goto("assert", events \o <<"running">>) /\ UNCHANGED outcome
    ELSE Return("ok", events)

(* The forward task's join handle is ready.                                *)
NotAwaited == TRUE             \* mutant: the forward task is not joined
Forwarded == fwd = "done"

JoinOk ==
    /\ At("joinOk") /\ Forwarded
    /\ sink' = "task"
    /\ IF req.post
       THEN Goto("post", <<"running">>) /\ UNCHANGED outcome
       ELSE ToAssertions(<<>>)
    /\ UNCHANGED taskOnly

RunPostScripts ==
    /\ At("post")
    /\ \/ \E logs \in {<<>>, <<"log">>} : ToAssertions(logs \o <<"vars">>)
       \/ Return("script", <<"failed">>)
    /\ UNCHANGED <<sink, taskOnly>>

(* One event per enabled assertion; one stands for all.                    *)
RunAssertions ==
    /\ At("assert")
    /\ Return("ok", <<"assertion">>)
    /\ UNCHANGED <<sink, taskOnly>>

(* assertions.rs cuts a long body at byte 200: inside a multi-byte         *)
(* character the slice panics, and the task with it.                       *)
AssertionPanics ==
    /\ At("assert") /\ "body" \in seen
    /\ Goto("panicked", <<>>)
    /\ sink' = "dropped"
    /\ UNCHANGED <<outcome, taskOnly>>

JoinErr ==
    /\ At("joinErr") /\ Forwarded
    /\ sink' = "task"
    /\ Return("driver", <<"failed", "stateFailed">>)
    /\ UNCHANGED taskOnly

(* The joined sink is dropped at once: no event of the engine's own.       *)
JoinCancelled ==
    /\ At("joinCancelled") /\ Forwarded
    /\ sink' = "dropped"
    /\ Return("cancelled", <<>>)
    /\ UNCHANGED taskOnly

Finish ==
    /\ At("finish")
    /\ sink' = "dropped"
    /\ Goto("cleanup", <<>>)
    /\ UNCHANGED <<outcome, taskOnly>>

(* The spawned task removes the execution from the registry and ends.      *)

Cleanup ==
    /\ At("cleanup")
    /\ active' = FALSE
    /\ Goto("done", <<>>)
    /\ UNCHANGED <<req, tee, rx, fwd, fheld, seen, sink, attempt, chunks,
                   token, outcome, emitted>>

(* ExecutionEngine::cancel: cancels the token the registry holds for the   *)
(* execution and says whether there was one.                               *)
Cancel ==
    /\ token' = (token \/ active)
    /\ UNCHANGED <<req, pc, todo, tee, rx, fwd, fheld, seen, sink, attempt,
                   chunks, active, outcome, emitted>>

DriverStep ==
    \/ DriverEnter \/ DriverCancel \/ DriverConnect \/ DriverConnectFails
    \/ DriverBackoff \/ DriverChunk \/ DriverStreamError \/ DriverStreamEnd
    \/ DriverReturn

TaskStep ==
    \/ Emit \/ Begin \/ RunPreScripts \/ ResolveRequest \/ ApplyAuth
    \/ ValidateFails \/ SpawnForward \/ DriverStep \/ JoinOk \/ RunPostScripts
    \/ RunAssertions \/ AssertionPanics \/ JoinErr \/ JoinCancelled
    \/ Finish \/ Cleanup

ForwardStep == ForwardRecv \/ ForwardSend \/ ForwardEnd

EngineNext == TaskStep \/ ForwardStep \/ Cancel

(* Waits on the peer that no timeout ends: an SSE connection or stream and *)
(* a WebSocket handshake.  Only a cancellation is sure to end them.        *)
WaitsOnPeer ==
    /\ \/ req.driver = "sse" /\ (At("connect") \/ At("transfer"))
       \/ req.driver = "websocket" /\ At("connect")
    /\ pc' # "driverCancelled"

(* Steps of the task that the runtime is sure to take.                     *)
SureTaskStep == TaskStep /\ ~WaitsOnPeer

-------------------------------------------------------------------------------
EngineTypeOK ==
    /\ req \in Requests
    /\ pc \in DriverPcs \union TaskPcs
    /\ todo \in Seq(Event) /\ tee \in Seq(Event) /\ rx \in Seq(Event)
    /\ Len(tee) <= Cap /\ Len(rx) <= Cap
    /\ fwd \in {"off", "recv", "done"}
    /\ fheld \in Seq(Event) /\ Len(fheld) <= 1
    /\ seen \subseteq {"meta", "body"}
    /\ sink \in {"task", "forward", "dropped"}
    /\ attempt \in 0 .. MaxRetries /\ chunks \in 0 .. MaxChunks
    /\ token \in BOOLEAN /\ active \in BOOLEAN
    /\ outcome \in Outcomes
    /\ emitted \in Seq(Event)

(* What an execution still owes its consumer, oldest first.                *)
InFlight == rx \o fheld \o tee
===============================================================================
