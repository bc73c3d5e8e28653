---------------------------- MODULE AgentExecution ----------------------------
(***************************************************************************)
(* An execution started through the local agent (POST /v1/executions): the *)
(* engine's tasks, the agent's pump task that copies the events to the SSE *)
(* channel, keeps what it will store and writes the history, the slot from *)
(* which one client takes the events, and the web client that folds them   *)
(* into the result it shows.                                               *)
(***************************************************************************)
EXTENDS Engine

CONSTANTS
    SseCap,         \* capacity of the SSE channel (256 in the code)
    MaxPersisted,   \* MAX_PERSISTED_RESPONSE_BYTES, in chunks
    StoreMayFail,   \* put_blob and record_execution may fail
    ClientMayLeave  \* the client may go away or never ask for the events

ASSUME AgentAssumption ==
    /\ SseCap \in Nat \ {0} /\ MaxPersisted \in Nat
    /\ StoreMayFail \in BOOLEAN /\ ClientMayLeave \in BOOLEAN

VARIABLES
    pump,       \* control point of the pump task
    pheld,      \* events the pump must still send to the SSE channel
    connected,  \* the pump's client_connected
    stored,     \* chunks kept for the response blob
    truncated,  \* chunks were cut
    gotVars,    \* variables extracted by the post scripts
    sse,        \* the SSE channel
    sseTx,      \* its sending half is alive
    slot,       \* the execution's entry in `executions`
    history,    \* the execution's row in the history: its state, "lost" if refused, or "none"
    blob,       \* the row has a response blob
    envSaved,   \* the extracted variables were saved to the environment
    cpc,        \* control point of the web client
    delivered,  \* the events the client has read
    shown       \* the body the client shows

pumpVars == <<pump, pheld, connected, stored, truncated, gotVars, sseTx>>
storeVars == <<history, blob, envSaved>>
clientVars == <<cpc, delivered, shown>>
agentVars == <<pump, pheld, connected, stored, truncated, gotVars, sse, sseTx,
               slot, history, blob, envSaved, cpc, delivered, shown>>
vars == <<req, pc, todo, tee, rx, fwd, fheld, seen, sink, attempt, chunks,
          token, active, outcome, emitted, pump, pheld, connected, stored,
          truncated, gotVars, sse, sseTx, slot, history, blob, envSaved, cpc,
          delivered, shown>>

Init ==
    /\ EngineInit
    /\ pump = "recv" /\ pheld = <<>> /\ connected = TRUE
    /\ stored = 0 /\ truncated = FALSE /\ gotVars = FALSE
    /\ sse = <<>> /\ sseTx = TRUE
    /\ slot = "pending"
    /\ history = "none" /\ blob = FALSE /\ envSaved = FALSE
    /\ cpc = "accepted" /\ delivered = <<>> /\ shown = "none"

Has(e, s) == \E i \in DOMAIN s : s[i] = e

-------------------------------------------------------------------------------
(***************************************************************************)
(* The pump.  Every send waits for room; it fails when the receiver is     *)
(* gone, that is when the client that took it has gone.  While the slot    *)
(* still holds the receiver the send does not fail.                        *)
(***************************************************************************)
NeverGone == TRUE              \* mutant: a departed client keeps the channel open
ReceiverAlive == slot # "taken" \/ cpc = "reading"

PumpRecv ==
    /\ pump = "recv" /\ pheld = <<>> /\ rx # <<>>
    /\ rx' = Tail(rx)
    /\ stored' = IF Head(rx) = "chunk" /\ stored < MaxPersisted
                 THEN stored + 1 ELSE stored
    /\ truncated' = (truncated \/ (Head(rx) = "chunk" /\ stored = MaxPersisted))
    /\ gotVars' = (gotVars \/ Head(rx) = "vars")
    /\ pheld' = IF connected THEN <<Head(rx)>> ELSE <<>>
    /\ UNCHANGED <<req, pc, todo, tee, fwd, fheld, seen, sink, attempt, chunks,
                   token, active, outcome, emitted, pump, connected, sse,
                   sseTx, slot, storeVars, clientVars>>

SseRoom == Len(sse) < SseCap

PumpTrySend ==                 \* mutant: try_send drops events when the client is slow
    /\ pheld # <<>>
    /\ pheld' = Tail(pheld)
    /\ sse' = IF SseRoom THEN Append(sse, Head(pheld)) ELSE sse
    /\ UNCHANGED <<engineVars, pump, connected, stored, truncated, gotVars,
                   sseTx, slot, storeVars, clientVars>>

PumpSend ==
    /\ pheld # <<>>
    /\ pheld' = Tail(pheld)
    /\ IF ReceiverAlive
       THEN /\ SseRoom
            /\ sse' = Append(sse, Head(pheld))
            /\ UNCHANGED connected
       ELSE /\ connected' = (connected /\ pump # "recv")
            /\ UNCHANGED sse
    /\ UNCHANGED <<engineVars, pump, stored, truncated, gotVars, sseTx, slot,
                   storeVars, clientVars>>

(* The engine's channel is closed: warn about a cut body, then join.       *)
PumpDrained ==
    /\ pump = "recv" /\ pheld = <<>> /\ rx = <<>> /\ RxClosed
    /\ pump' = "join"
    /\ pheld' = IF truncated /\ connected THEN <<"warning">> ELSE <<>>
    /\ UNCHANGED <<engineVars, connected, stored, truncated, gotVars, sse,
                   sseTx, slot, storeVars, clientVars>>

(* A JoinError is translated into the events of a failure.                 *)
PanicEventsNone == <<>>        \* mutant: a JoinError is only logged
PanicEvents == <<"failed", "stateFailed">>

PumpJoin ==
    /\ pump = "join" /\ pheld = <<>> /\ Finished
    /\ pump' = "close"
    /\ pheld' = IF pc = "panicked" THEN PanicEvents ELSE <<>>
    /\ UNCHANGED <<engineVars, connected, stored, truncated, gotVars, sse,
                   sseTx, slot, storeVars, clientVars>>

(* The SSE stream is closed before anything is stored.                     *)

PumpClose ==
    /\ pump = "close" /\ pheld = <<>>
    /\ pump' = "persist"
    /\ sseTx' = FALSE
    /\ UNCHANGED <<engineVars, pheld, connected, stored, truncated, gotVars,
                   sse, slot, storeVars, clientVars>>

MayFail == IF StoreMayFail THEN BOOLEAN ELSE {FALSE}

(* Under one lock of the store: blob, history row, extracted variables.    *)
(* Every error is logged and the next step is tried; the environment may   *)
(* have been deleted meanwhile.                                            *)
PersistOk ==
    \E blobFails, rowFails \in MayFail, envMissing \in BOOLEAN :
        /\ history' = IF rowFails THEN "lost" ELSE "completed"
        /\ blob' = (stored > 0 /\ ~blobFails /\ ~rowFails)
        /\ envSaved' = (gotVars /\ ~envMissing)

(* A cancelled execution too is recorded as failed.                        *)
PersistErrAsResult ==          \* mutant: the error arm stores the result's state
    history' = "completed" /\ UNCHANGED <<blob, envSaved>>

PersistErr ==
    \E rowFails \in MayFail :
        /\ history' = IF rowFails THEN "lost" ELSE "failed"
        /\ UNCHANGED <<blob, envSaved>>

PumpPersist ==
    /\ pump = "persist"
    /\ pump' = "done"
    /\ \/ pc = "done" /\ outcome = "ok" /\ PersistOk
       \/ pc = "done" /\ outcome # "ok" /\ PersistErr
       \/ pc = "panicked" /\ UNCHANGED storeVars
    /\ UNCHANGED <<engineVars, pheld, connected, stored, truncated, gotVars,
                   sse, sseTx, slot, clientVars>>

PumpStep ==
    PumpRecv \/ PumpSend \/ PumpDrained \/ PumpJoin \/ PumpClose \/ PumpPersist

(* The handler registers the slot after it has spawned the pump, then      *)
(* answers with the execution's id.                                        *)
RegisterSlot ==
    /\ slot = "pending"
    /\ slot' = "waiting"
    /\ UNCHANGED <<engineVars, pumpVars, sse, storeVars, clientVars>>

-------------------------------------------------------------------------------
(***************************************************************************)
(* The web client, executeEnvelopeViaAgent.                                *)
(***************************************************************************)
(* GET events removes the slot: only one client ever gets the receiver.    *)
ClientSubscribe ==
    /\ cpc = "accepted" /\ slot = "waiting"
    /\ slot' = "taken"
    /\ cpc' = "reading"
    /\ UNCHANGED <<engineVars, pumpVars, sse, storeVars, delivered, shown>>

ClientRead ==
    /\ cpc = "reading" /\ sse # <<>>
    /\ delivered' = Append(delivered, Head(sse))
    /\ sse' = Tail(sse)
    /\ UNCHANGED <<engineVars, pumpVars, slot, storeVars, cpc, shown>>

(* The stream has ended; a response that may be text is fetched in full.   *)
ClientEnd ==
    /\ cpc = "reading" /\ sse = <<>> /\ ~sseTx
    /\ \/ Has("meta", delivered) /\ cpc' = "fetch"
       \/ cpc' = "done"
    /\ shown' = IF Has("last", delivered) /\ FinalPreview(req.driver)
                THEN "preview" ELSE "none"
    /\ UNCHANGED <<engineVars, pumpVars, sse, slot, storeVars, delivered>>

(* GET history/{id}/body; on 404 the preview stays.                        *)
ClientFetchBody ==
    /\ cpc = "fetch"
    /\ cpc' = "done"
    /\ shown' = IF history # "none" /\ blob THEN "body" ELSE shown
    /\ UNCHANGED <<engineVars, pumpVars, sse, slot, storeVars, delivered>>

(* The page is closed, before or after it has asked for the events.        *)
ClientLeave ==
    /\ ClientMayLeave
    /\ cpc \in {"accepted", "reading"} /\ slot # "pending"
    /\ cpc' = "gone"
    /\ UNCHANGED <<engineVars, pumpVars, sse, slot, storeVars, delivered, shown>>

ClientStep == ClientSubscribe \/ ClientRead \/ ClientEnd \/ ClientFetchBody

(* The client knows the id, hence can cancel, once the handler answered.   *)
AgentCancel == slot # "pending" /\ Cancel /\ UNCHANGED agentVars

Next ==
    \/ (TaskStep \/ ForwardStep) /\ UNCHANGED agentVars
    \/ AgentCancel
    \/ PumpStep \/ RegisterSlot
    \/ ClientStep \/ ClientLeave

(* The state and message the client shows: error is set by Failed and      *)
(* Cancelled, the summary by Completed; without summary nor error the      *)
(* client reports "completed".                                             *)
ClientError == Has("failed", delivered) \/ Has("cancelled", delivered)
ClientState ==
    IF Has("completed", delivered) \/ ~ClientError THEN "completed" ELSE "failed"

(* The agent's own tasks are polled as long as they can run; the client is *)
(* fair until it leaves.                                                   *)
Fairness ==
    /\ WF_vars(SureTaskStep /\ UNCHANGED agentVars)
    /\ WF_vars(ForwardStep /\ UNCHANGED agentVars)
    /\ WF_vars(PumpStep) /\ WF_vars(RegisterSlot)
    /\ WF_vars(ClientStep)

Spec == Init /\ [][Next]_vars /\ Fairness

-------------------------------------------------------------------------------
(* Types of the engine's, the agent's and the client's state.              *)
TypeOK ==
    /\ EngineTypeOK
    /\ pump \in {"recv", "join", "close", "persist", "done"}
    /\ pheld \in Seq(Event) /\ Len(pheld) <= 2
    /\ connected \in BOOLEAN /\ truncated \in BOOLEAN /\ gotVars \in BOOLEAN
    /\ stored \in 0 .. MaxPersisted
    /\ sse \in Seq(Event) /\ Len(sse) <= SseCap
    /\ sseTx \in BOOLEAN
    /\ slot \in {"pending", "waiting", "taken"}
    /\ history \in {"none", "lost", "completed", "failed"}
    /\ blob \in BOOLEAN /\ envSaved \in BOOLEAN
    /\ cpc \in {"accepted", "reading", "fetch", "done", "gone"}
    /\ delivered \in Seq(Event)
    /\ shown \in {"none", "preview", "body"}

(* Three channels and two copying tasks deliver the events exactly once    *)
(* and in order: until the engine's channel is drained, what was emitted   *)
(* is what the client read followed by what is under way.                  *)
StreamIsFaithful ==
    pump = "recv" /\ connected =>
        emitted = delivered \o sse \o pheld \o InFlight

(* A client that has read the stream to its end shows the verdict that the *)
(* history will hold: completed if the execution is recorded as completed, *)
(* an error if the task failed, panicked or was cancelled (WebSocket       *)
(* excepted, whose driver is silent when cancelled).                       *)
ClientToldVerdict ==
    cpc \in {"fetch", "done"} =>
        /\ history = "completed" => ClientState = "completed"
        /\ outcome \notin {"ok", "cancelled"} => ClientError
        /\ outcome = "cancelled" /\ req.driver # "websocket" =>
              ClientState = "failed"

(* What is stored agrees with how the task ended: completed only for a     *)
(* result, a blob only when the body has chunks, variables only if the     *)
(* post scripts ran to the end; and every ended execution is recorded, or  *)
(* the store refused its row, unless the task panicked.                    *)
HistoryMatchesOutcome ==
    /\ history = "completed" => outcome = "ok"
    /\ blob => history = "completed" /\ chunks > 0
    /\ envSaved => req.post /\ outcome = "ok"
    /\ pump = "done" /\ pc = "done" => history # "none"

(* The pump ends every execution it was given, whatever the client does    *)
(* after it has taken the stream: a client that leaves unblocks the pump,  *)
(* and cancelling ends an SSE or WebSocket execution whose peer never does *)
(* (a client that never takes the stream can block both for good).         *)
Settles == (slot = "taken" /\ (req.driver = "http" \/ token)) ~> (pump = "done")
===============================================================================
