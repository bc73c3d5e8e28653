-------------------------------- MODULE Collect --------------------------------
(***************************************************************************)
(* An execution of the engine consumed by execute_collect_with_scope, the  *)
(* way the CLI, the protocol gateway and the agent's debug endpoint run a  *)
(* request: drain the event channel until it closes, then join the task.   *)
(***************************************************************************)
EXTENDS Engine

VARIABLES
    collector, \* control point of the collector
    collected  \* the events it has received

collectorVars == <<collector, collected>>
collectVars == <<req, pc, todo, tee, rx, fwd, fheld, seen, sink, attempt, chunks,
                token, active, outcome, emitted, collector, collected>>

CollectInit ==
    /\ EngineInit
    /\ collector = "drain"
    /\ collected = <<>>

Recv ==
    /\ collector = "drain" /\ rx # <<>>
    /\ collected' = Append(collected, Head(rx))
    /\ rx' = Tail(rx)
    /\ UNCHANGED <<req, pc, todo, tee, fwd, fheld, seen, sink, attempt,
                   chunks, token, active, outcome, emitted, collector>>

(* recv returns None once the channel is empty and every sender is gone.   *)
RecvNoneEarly ==               \* mutant: an empty channel taken for a closed one
    /\ collector = "drain" /\ rx = <<>>
    /\ collector' = "join"
    /\ UNCHANGED <<engineVars, collected>>

RecvNone ==
    /\ collector = "drain" /\ rx = <<>> /\ RxClosed
    /\ collector' = "join"
    /\ UNCHANGED <<engineVars, collected>>

(* A panicked task gives a JoinError, which becomes an internal error.     *)
Join ==
    /\ collector = "join" /\ Finished
    /\ collector' = "returned"
    /\ UNCHANGED <<engineVars, collected>>

CollectStep == Recv \/ RecvNone \/ Join

CollectNext ==
    \/ EngineNext /\ UNCHANGED collectorVars
    \/ CollectStep

(* The runtime keeps polling every task that can make progress.  Nothing   *)
(* obliges anyone to cancel, nor an SSE or WebSocket peer to answer.       *)
CollectFairness ==
    /\ WF_collectVars(SureTaskStep /\ UNCHANGED collectorVars)
    /\ WF_collectVars(ForwardStep /\ UNCHANGED collectorVars)
    /\ WF_collectVars(CollectStep)

CollectSpec == CollectInit /\ [][CollectNext]_collectVars /\ CollectFairness

-------------------------------------------------------------------------------
(* Types of the engine's state and of the collector's.                     *)
CollectTypeOK ==
    /\ EngineTypeOK
    /\ collector \in {"drain", "join", "returned"}
    /\ collected \in Seq(Event)

(* The two channels and the task between them lose, duplicate and reorder  *)
(* nothing, although the driver and the engine's task write to different   *)
(* ends of the pipeline: what was emitted is what was received followed by *)
(* what is on its way, in order.                                           *)
NoEventLost == emitted = collected \o InFlight

(* When execute_collect has drained the channel nothing more can come: the *)
(* list it returns is everything the execution ever emitted.               *)
CollectedAll == collector # "drain" => collected = emitted /\ todo = <<>>

(* Post scripts and assertions judge the whole response: the forward task  *)
(* has captured the head, and the final preview if the driver sends one,   *)
(* although it is another task that captures them.                         *)
WholeResponseJudged ==
    pc \in {"post", "assert"} =>
        "meta" \in seen /\ (FinalPreview(req.driver) => "body" \in seen)

(* An HTTP execution always returns to its caller, any other one once it   *)
(* is cancelled: no cycle of full channels keeps the task, the forward     *)
(* task and the collector waiting for each other.                          *)
Returns == (req.driver = "http" \/ token) ~> (collector = "returned")
===============================================================================
