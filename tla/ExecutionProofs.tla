---------------------------- MODULE ExecutionProofs ----------------------------
(***************************************************************************)
(* Proofs about an execution and its two consumers: for every channel      *)
(* capacity, every set of drivers and every number of chunks and retries,  *)
(* execute_collect_with_scope returns the events that the engine and the   *)
(* driver emitted, and the agent's pump, its history and its web client    *)
(* agree with them.                                                        *)
(*                                                                         *)
(* The engine's invariants come first, over the engine's variables alone;  *)
(* they hold whoever consumes the events.                                  *)
(***************************************************************************)
EXTENDS Collect, AgentExecution, SequenceTheorems, TLAPS

-------------------------------------------------------------------------------
(* A nonempty sequence is its head followed by its tail.                   *)
LEMMA HeadThenTail ==
    ASSUME NEW S, NEW s \in Seq(S), s # <<>>
    PROVE  /\ s = <<Head(s)>> \o Tail(s)
           /\ Head(s) \in S
           /\ Tail(s) \in Seq(S)
           /\ Len(Tail(s)) = Len(s) - 1
           /\ Len(s) \in Nat \ {0}
<1>1. Head(s) \in S /\ Tail(s) \in Seq(S) /\ Len(Tail(s)) = Len(s) - 1
      /\ \A i \in 1 .. Len(Tail(s)) : Tail(s)[i] = s[i + 1]
  BY HeadTailProperties
<1>2. Len(s) \in Nat \ {0}
  BY EmptySeq
<1>3. <<Head(s)>> \in Seq(S) /\ Len(<<Head(s)>>) = 1 /\ <<Head(s)>>[1] = s[1]
  BY <1>1, <1>2
<1> DEFINE t == <<Head(s)>> \o Tail(s)
<1>4. t \in Seq(S) /\ Len(t) = 1 + Len(Tail(s))
      /\ \A i \in 1 .. 1 + Len(Tail(s)) :
            t[i] = IF i <= 1 THEN <<Head(s)>>[i] ELSE Tail(s)[i - 1]
  BY <1>1, <1>3, ConcatProperties
<1>5. Len(s) = Len(t)
  BY <1>1, <1>2, <1>4
<1>6. \A i \in 1 .. Len(s) : s[i] = t[i]
  <2> SUFFICES ASSUME NEW i \in 1 .. Len(s) PROVE s[i] = t[i]
    OBVIOUS
  <2>1. CASE i = 1
    BY <2>1, <1>1, <1>2, <1>3, <1>4
  <2>2. CASE i # 1
    <3>1. i - 1 \in 1 .. Len(Tail(s)) /\ i \in 1 .. 1 + Len(Tail(s)) /\ ~(i <= 1)
      BY <2>2, <1>1, <1>2
    <3>2. t[i] = Tail(s)[i - 1]
      BY <3>1, <1>4
    <3>3. Tail(s)[i - 1] = s[(i - 1) + 1]
      BY <3>1, <1>1
    <3> QED BY <3>2, <3>3, <1>2
  <2> QED BY <2>1, <2>2
<1>7. s = t
  <2> HIDE DEF t
  <2> QED BY <1>4, <1>5, <1>6, SeqEqual
<1> QED BY <1>1, <1>2, <1>7

(* The concatenation of two event sequences is an event sequence.          *)
LEMMA Closed ==
    ASSUME NEW u \in Seq(Event), NEW v \in Seq(Event)
    PROVE  u \o v \in Seq(Event)
BY ConcatProperties

(* Concatenation of event sequences is associative.                        *)
LEMMA Assoc ==
    ASSUME NEW u \in Seq(Event), NEW v \in Seq(Event), NEW w \in Seq(Event)
    PROVE  (u \o v) \o w = u \o (v \o w)
BY ConcatAssociative

(* One event makes an event sequence.                                      *)
LEMMA Singleton ==
    ASSUME NEW e \in Event
    PROVE  <<e>> \in Seq(Event)
OBVIOUS

(* Emitting to the tee adds at the far end of the pipeline.                *)
LEMMA EmitToTee ==
    ASSUME NEW c \in Seq(Event), NEW q \in Seq(Event), NEW t \in Seq(Event),
           NEW e \in Event
    PROVE  Append(c \o (q \o t), e) = c \o (q \o Append(t, e))
<1>1. <<e>> \in Seq(Event)
  BY Singleton
<1>2. q \o t \in Seq(Event)
  BY Closed
<1>3. c \o (q \o t) \in Seq(Event)
  BY <1>2, Closed, Zenon
<1>4. Append(c \o (q \o t), e) = (c \o (q \o t)) \o <<e>>
  BY <1>3, AppendIsConcat
<1>5. (c \o (q \o t)) \o <<e>> = c \o ((q \o t) \o <<e>>)
  BY <1>1, <1>2, Assoc, ZenonT(60)
<1>6. (q \o t) \o <<e>> = q \o (t \o <<e>>)
  BY <1>1, Assoc, ZenonT(60)
<1>7. t \o <<e>> = Append(t, e)
  BY AppendIsConcat
<1> QED BY <1>4, <1>5, <1>6, <1>7, Zenon

(* Emitting to the consumer's channel does too, if there is nothing in     *)
(* front of it.                                                            *)
LEMMA EmitToRx ==
    ASSUME NEW c \in Seq(Event), NEW r \in Seq(Event), NEW e \in Event
    PROVE  Append(c \o (r \o <<>> \o <<>>), e) = c \o (Append(r, e) \o <<>> \o <<>>)
<1>1. r \o <<>> \o <<>> = r /\ Append(r, e) \in Seq(Event)
      /\ Append(r, e) \o <<>> \o <<>> = Append(r, e)
  BY ConcatEmptySeq, AppendProperties
<1>2. <<e>> \in Seq(Event) /\ c \o r \in Seq(Event)
  BY ConcatProperties
<1>3. Append(c \o r, e) = (c \o r) \o <<e>> /\ Append(r, e) = r \o <<e>>
  BY <1>2, AppendIsConcat
<1>4. (c \o r) \o <<e>> = c \o (r \o <<e>>)
  BY <1>2, Assoc
<1> QED BY <1>1, <1>3, <1>4

(* The forward task's receive moves an event within the pipeline.          *)
LEMMA TakeFromTee ==
    ASSUME NEW r \in Seq(Event), NEW t \in Seq(Event), t # <<>>
    PROVE  r \o <<>> \o t = r \o <<Head(t)>> \o Tail(t)
<1>1. t = <<Head(t)>> \o Tail(t) /\ <<Head(t)>> \in Seq(Event) /\ Tail(t) \in Seq(Event)
  BY HeadThenTail
<1>2. r \o <<>> = r
  BY ConcatEmptySeq
<1>3. (r \o <<Head(t)>>) \o Tail(t) = r \o (<<Head(t)>> \o Tail(t))
  BY <1>1, Assoc
<1> QED BY <1>1, <1>2, <1>3

(* So does its send.                                                       *)
LEMMA HandToRx ==
    ASSUME NEW r \in Seq(Event), NEW f \in Seq(Event), NEW t \in Seq(Event),
           f # <<>>, Len(f) <= 1
    PROVE  r \o f \o t = Append(r, Head(f)) \o <<>> \o t
<1>1. f = <<Head(f)>> \o Tail(f) /\ Tail(f) \in Seq(Event) /\ Len(Tail(f)) = 0
      /\ Head(f) \in Event
  BY HeadThenTail
<1>2. Tail(f) = <<>>
  BY <1>1, EmptySeq
<1>3. f = <<Head(f)>>
  BY <1>1, <1>2, ConcatEmptySeq
<1>4. Append(r, Head(f)) = r \o <<Head(f)>> /\ Append(r, Head(f)) \in Seq(Event)
  BY <1>1, AppendIsConcat, AppendProperties
<1>5. Append(r, Head(f)) \o <<>> = Append(r, Head(f))
  BY <1>4, ConcatEmptySeq
<1> QED BY <1>3, <1>4, <1>5

(* The events received and on their way, as one sequence.                  *)
Pipe(c, r, f, t) == c \o (r \o f \o t)

(* The first event of the consumer's channel goes to what was received.    *)
LEMMA HeadOfRx ==
    ASSUME NEW c \in Seq(Event), NEW e \in Event, NEW x \in Seq(Event),
           NEW f \in Seq(Event), NEW t \in Seq(Event)
    PROVE  Pipe(c, <<e>> \o x, f, t) = Pipe(Append(c, e), x, f, t)
<1>1. <<e>> \in Seq(Event)
  BY Singleton
<1>2. Append(c, e) = c \o <<e>>
  BY AppendIsConcat
<1>3. x \o f \in Seq(Event)
  BY Closed, Zenon
<1>4. x \o f \o t \in Seq(Event)
  BY <1>3, Closed, Zenon
<1>5. (<<e>> \o x) \o f = <<e>> \o (x \o f)
  BY <1>1, Assoc, Zenon
<1>6. (<<e>> \o (x \o f)) \o t = <<e>> \o (x \o f \o t)
  BY <1>1, <1>3, Assoc, ZenonT(60)
<1>7. (c \o <<e>>) \o (x \o f \o t) = c \o (<<e>> \o (x \o f \o t))
  <2>1. \A q \in Seq(Event) : (c \o <<e>>) \o q = c \o (<<e>> \o q)
    BY <1>1, Assoc, Zenon
  <2> QED BY <1>4, <2>1, Zenon
<1> QED BY <1>2, <1>5, <1>6, <1>7, Zenon DEF Pipe

(* The consumer's receive moves an event out of the pipeline.              *)
LEMMA TakeFromRx ==
    ASSUME NEW c \in Seq(Event), NEW r \in Seq(Event), NEW f \in Seq(Event),
           NEW t \in Seq(Event), r # <<>>
    PROVE  Pipe(c, r, f, t) = Pipe(Append(c, Head(r)), Tail(r), f, t)
<1> DEFINE x == Tail(r)
           e == Head(r)
<1>1. e \in Event
  BY HeadThenTail
<1>2. x \in Seq(Event)
  BY HeadThenTail
<1>3. r = <<e>> \o x
  BY HeadThenTail
<1> HIDE DEF x, e
<1>4. Pipe(c, <<e>> \o x, f, t) = Pipe(Append(c, e), x, f, t)
  BY <1>1, <1>2, HeadOfRx
<1> QED BY <1>3, <1>4 DEF x, e

-------------------------------------------------------------------------------
(* The events that the task queues are events.                             *)
LEMMA Queued ==
    /\ <<>> \in Seq(Event)
    /\ \A e \in Event : <<e>> \in Seq(Event)
    /\ \A e, f \in Event : <<e, f>> \in Seq(Event)
    /\ \A e, f, g \in Event : <<e, f, g>> \in Seq(Event)
    /\ \A e \in Event, s \in Seq(Event) : s \o <<e>> \in Seq(Event)
    /\ \A d : CancelEvents(d) \in Seq(Event) /\ CompletionEvents(d) \in Seq(Event)
<1>1. <<>> \in Seq(Event)
  OBVIOUS
<1>2. \A e \in Event : <<e>> \in Seq(Event)
  OBVIOUS
<1>3. \A e, f \in Event : <<e, f>> \in Seq(Event)
  OBVIOUS
<1>8. \A e, f, g \in Event : <<e, f, g>> \in Seq(Event)
  OBVIOUS
<1>4. \A e \in Event, s \in Seq(Event) : s \o <<e>> \in Seq(Event)
  BY <1>2, Closed, Zenon
<1>5. "cancelled" \in Event /\ "last" \in Event /\ "completed" \in Event
      /\ "stateCompleted" \in Event
  BY DEF Event
<1>6. ASSUME NEW d PROVE CancelEvents(d) \in Seq(Event)
  BY <1>1, <1>2, <1>5 DEF CancelEvents
<1>7. ASSUME NEW d PROVE CompletionEvents(d) \in Seq(Event)
  <2>1. <<"last", "completed">> \in Seq(Event) /\ <<"stateCompleted">> \in Seq(Event)
    BY <1>2, <1>3, <1>5
  <2> QED BY <2>1, <1>1, Closed DEF CompletionEvents
<1> QED BY <1>1, <1>2, <1>3, <1>4, <1>6, <1>7, <1>8

(* The engine starts with its types.                                       *)
LEMMA EngineTypeInit == EngineInit => EngineTypeOK
<1> SUFFICES ASSUME EngineInit PROVE EngineTypeOK
  OBVIOUS
<1>1. <<>> \in Seq(Event) /\ Len(<<>>) = 0
  BY EmptySeq
<1>2. 0 \in 0 .. MaxRetries /\ 0 \in 0 .. MaxChunks /\ 0 <= Cap
  BY CapAssumption, BoundsAssumption
<1>3. /\ todo \in Seq(Event) /\ tee \in Seq(Event) /\ rx \in Seq(Event)
      /\ Len(tee) <= Cap /\ Len(rx) <= Cap
      /\ fheld \in Seq(Event) /\ Len(fheld) <= 1
      /\ emitted \in Seq(Event)
  BY <1>1, <1>2 DEF EngineInit
<1>4. /\ req \in Requests /\ pc \in DriverPcs \union TaskPcs
      /\ fwd \in {"off", "recv", "done"} /\ seen \subseteq {"meta", "body"}
      /\ sink \in {"task", "forward", "dropped"}
      /\ outcome \in Outcomes
  BY DEF EngineInit, TaskPcs, Outcomes
<1>5. token \in BOOLEAN /\ active \in BOOLEAN
  BY DEF EngineInit
<1>6. attempt \in 0 .. MaxRetries /\ chunks \in 0 .. MaxChunks
  BY <1>2 DEF EngineInit
<1> QED BY <1>3, <1>4, <1>5, <1>6 DEF EngineTypeOK

(* Every step of the engine keeps the types of its state.                  *)
LEMMA TypeEngine ==
    ASSUME EngineTypeOK, EngineNext
    PROVE  EngineTypeOK'
<1> USE CapAssumption, BoundsAssumption
<1>e. /\ "running" \in Event /\ "failed" \in Event /\ "stateFailed" \in Event
      /\ "log" \in Event /\ "warning" \in Event /\ "meta" \in Event
      /\ "chunk" \in Event /\ "vars" \in Event /\ "assertion" \in Event
  BY DEF Event
<1>q. /\ <<>> \in Seq(Event) /\ <<"running">> \in Seq(Event)
      /\ <<"failed">> \in Seq(Event) /\ <<"failed", "stateFailed">> \in Seq(Event)
      /\ <<"log">> \in Seq(Event) /\ <<"warning">> \in Seq(Event)
      /\ <<"meta">> \in Seq(Event) /\ <<"meta", "running">> \in Seq(Event)
      /\ <<"chunk">> \in Seq(Event) /\ <<"assertion">> \in Seq(Event)
  BY <1>e, Queued
<1>w. <<"meta", "warning", "running">> \in Seq(Event)
  BY <1>e, Queued
<1>l. ASSUME NEW logs \in {<<>>, <<"log">>}
      PROVE  /\ logs \o <<"running">> \in Seq(Event)
             /\ logs \o <<"vars">> \in Seq(Event)
             /\ logs \o <<"vars">> \o <<"running">> \in Seq(Event)
  <2>1. logs \in Seq(Event)
    BY <1>q
  <2>2. logs \o <<"vars">> \in Seq(Event)
    BY <2>1, <1>e, Queued
  <2> QED BY <2>1, <2>2, <1>e, Queued
<1>r. ASSUME EngineTypeOK PROVE req.retries \in 0 .. MaxRetries
  BY <1>r DEF EngineTypeOK, Requests
<1>1. CASE Emit
  <2>1. Head(todo) \in Event /\ Tail(todo) \in Seq(Event)
    BY <1>1, HeadThenTail DEF Emit, EngineTypeOK
  <2>2. Append(emitted, Head(todo)) \in Seq(Event)
    BY <2>1, AppendProperties DEF EngineTypeOK
  <2>3. ASSUME NEW ch \in Seq(Event), HasRoom(ch)
        PROVE  /\ Append(ch, Head(todo)) \in Seq(Event)
               /\ Len(Append(ch, Head(todo))) <= Cap
    BY <2>1, <2>3, AppendProperties, LenProperties DEF HasRoom
  <2>4. CASE pc \in DriverPcs
    BY <1>1, <2>1, <2>2, <2>3, <2>4 DEF Emit, EngineTypeOK
  <2>5. CASE pc \notin DriverPcs
    BY <1>1, <2>1, <2>2, <2>3, <2>5 DEF Emit, EngineTypeOK
  <2> QED BY <2>4, <2>5
<1>2. CASE Begin
  BY <1>2, <1>q DEF Begin, EngineTypeOK, At, Goto, taskOnly, TaskPcs
<1>3. CASE RunPreScripts
  BY ZenonT(60), <1>3, <1>q, <1>l DEF RunPreScripts, EngineTypeOK, At, Goto, Return, taskOnly, TaskPcs, Outcomes
<1>4. CASE ResolveRequest
  BY <1>4, <1>q DEF ResolveRequest, EngineTypeOK, At, Goto, Return, taskOnly, TaskPcs, Outcomes
<1>5. CASE ApplyAuth
  BY <1>5, <1>q DEF ApplyAuth, EngineTypeOK, At, Goto, Return, taskOnly, TaskPcs, Outcomes
<1>6. CASE ValidateFails
  BY <1>6, <1>q DEF ValidateFails, EngineTypeOK, At, Goto, Return, taskOnly, TaskPcs, Outcomes
<1>7. CASE SpawnForward
  BY <1>7, <1>q DEF SpawnForward, EngineTypeOK, At, Goto, TaskPcs, DriverPcs
<1>8. CASE DriverEnter
  BY <1>8, <1>q DEF DriverEnter, EngineTypeOK, At, Goto, driverOnly, DriverPcs
<1>9. CASE DriverCancel
  BY <1>9, <1>q, Queued DEF DriverCancel, EngineTypeOK, At, Goto, driverOnly, DriverPcs
<1>10. CASE DriverConnect
  BY <1>10, <1>q, <1>w DEF DriverConnect, EngineTypeOK, At, Goto, driverOnly, DriverPcs
<1>11. CASE DriverConnectFails
  <2>1. attempt' \in 0 .. MaxRetries
    BY <1>11, <1>r DEF DriverConnectFails, Retry, EngineTypeOK
  <2> QED BY <1>11, <1>q, <2>1
          DEF DriverConnectFails, EngineTypeOK, At, Goto, driverOnly, DriverPcs, Retry
<1>12. CASE DriverBackoff
  BY <1>12, <1>q DEF DriverBackoff, EngineTypeOK, At, Goto, driverOnly, DriverPcs
<1>13. CASE DriverChunk
  <2>1. todo' \in Seq(Event) /\ pc' = "transfer"
    BY <1>13, <1>q DEF DriverChunk, Goto
  <2>2. chunks' \in 0 .. MaxChunks
    BY <1>13 DEF DriverChunk, EngineTypeOK
  <2> QED BY <1>13, <2>1, <2>2 DEF DriverChunk, EngineTypeOK, driverOnly, DriverPcs
<1>14. CASE DriverStreamError
  BY <1>14, <1>q DEF DriverStreamError, EngineTypeOK, At, Goto, driverOnly, DriverPcs
<1>15. CASE DriverStreamEnd
  <2>1. attempt' \in 0 .. MaxRetries
    BY <1>15, <1>r DEF DriverStreamEnd, Retry, EngineTypeOK
  <2> QED BY <1>15, <1>q, Queued, <2>1
          DEF DriverStreamEnd, EngineTypeOK, At, Goto, driverOnly, DriverPcs, Retry
<1>16. CASE DriverReturn
  BY <1>16, <1>q DEF DriverReturn, EngineTypeOK, At, Goto, driverOnly, DriverPcs, TaskPcs
<1>17. CASE JoinOk
  BY <1>17, <1>q, <1>l, ConcatEmptySeq DEF JoinOk, EngineTypeOK, At, Goto, ToAssertions, Return, taskOnly, TaskPcs, Outcomes
<1>18. CASE RunPostScripts
  BY ZenonT(60), <1>18, <1>q, <1>l, ConcatEmptySeq DEF RunPostScripts, EngineTypeOK, At, Goto, ToAssertions, Return,
     taskOnly, TaskPcs, Outcomes
<1>19. CASE RunAssertions
  BY <1>19, <1>q DEF RunAssertions, EngineTypeOK, At, Goto, Return, taskOnly, TaskPcs, Outcomes
<1>20. CASE AssertionPanics
  BY <1>20, <1>q DEF AssertionPanics, EngineTypeOK, At, Goto, Return, taskOnly, TaskPcs, Outcomes
<1>21. CASE JoinErr
  BY <1>21, <1>q DEF JoinErr, EngineTypeOK, At, Goto, Return, taskOnly, TaskPcs, Outcomes
<1>22. CASE JoinCancelled
  BY <1>22, <1>q DEF JoinCancelled, EngineTypeOK, At, Goto, Return, taskOnly, TaskPcs, Outcomes
<1>23. CASE Finish
  BY <1>23, <1>q DEF Finish, EngineTypeOK, At, Goto, Return, taskOnly, TaskPcs, Outcomes
<1>24. CASE Cleanup
  BY <1>24, <1>q DEF Cleanup, EngineTypeOK, At, Goto, TaskPcs
<1>25. CASE ForwardRecv
  <2>1. Captured(Head(tee)) \subseteq {"meta", "body"}
    BY DEF Captured
  <2>2. /\ Head(tee) \in Event /\ Tail(tee) \in Seq(Event)
        /\ Len(Tail(tee)) <= Cap
    BY <1>25, HeadThenTail DEF ForwardRecv, EngineTypeOK
  <2>3. <<Head(tee)>> \in Seq(Event) /\ Len(<<Head(tee)>>) <= 1
    BY <2>2, Singleton
  <2> QED BY <1>25, <2>1, <2>2, <2>3 DEF ForwardRecv, EngineTypeOK
<1>26. CASE ForwardSend
  BY <1>26, <1>q, HeadTailProperties, AppendProperties
     DEF ForwardSend, EngineTypeOK, HasRoom
<1>27. CASE ForwardEnd
  BY <1>27 DEF ForwardEnd, EngineTypeOK
<1>28. CASE Cancel
  BY <1>28 DEF Cancel, EngineTypeOK
<1> QED
  BY <1>1, <1>2, <1>3, <1>4, <1>5, <1>6, <1>7, <1>8, <1>9, <1>10, <1>11, <1>12, <1>13, <1>14, <1>15, <1>16, <1>17,
     <1>18, <1>19, <1>20, <1>21, <1>22, <1>23, <1>24, <1>25, <1>26, <1>27, <1>28
     DEF EngineNext, TaskStep, DriverStep, ForwardStep

-------------------------------------------------------------------------------
(* The invariants of the engine.                                           *)

(* The events of a sequence.                                               *)
EventsOf(s) == {s[i] : i \in DOMAIN s}
Sent == EventsOf(todo) \union EventsOf(emitted)

(* The forward task lives from the call of the driver to the join, and the *)
(* tee holds events only while it lives.                                   *)
ForwardOwnsTee ==
    /\ pc \in {"before", "pre", "resolve", "auth", "validate"} => fwd = "off"
    /\ pc \in DriverPcs => fwd = "recv"
    /\ pc \in {"joinOk", "joinErr", "joinCancelled"} =>
          fwd \in {"recv", "done"} /\ todo = <<>>
    /\ pc \in {"post", "assert", "finish", "cleanup", "done", "panicked"} =>
          fwd # "recv"
    /\ fwd # "recv" => tee = <<>> /\ fheld = <<>>

(* The engine's channel is closed when, and only when, nothing is left to  *)
(* send on it.                                                             *)
SinkOwned ==
    /\ RxClosed => todo = <<>> /\ pc \in {"finish", "cleanup", "done", "panicked"}
    /\ pc \in {"cleanup", "done", "panicked"} => RxClosed

(* From the response on its head, and from the driver's end on its final   *)
(* preview, are on their way to the forward task or captured.              *)
HeadUnderWay ==
    pc \in {"transfer", "driverOk", "joinOk"} => "meta" \in EventsOf(todo) \union EventsOf(tee) \union seen
PreviewUnderWay ==
    pc \in {"driverOk", "joinOk"} /\ FinalPreview(req.driver) =>
        "last" \in EventsOf(todo) \union EventsOf(tee) \/ "body" \in seen

(* What an execution says of its end agrees with how it ends.              *)
Failures == {"script", "resolve", "auth", "validation", "driver"}
Cancelling == pc \in {"driverCancelled", "joinCancelled"} \/ outcome = "cancelled"
Ends == {"finish", "cleanup", "done"}
Verdict ==
    /\ outcome # "none" <=> pc \in Ends
    /\ "failed" \in Sent <=> outcome \in Failures
    /\ "cancelled" \in Sent => Cancelling
    /\ Cancelling /\ req.driver # "websocket" => "cancelled" \in Sent
    /\ "completed" \in Sent =>
          /\ pc \in {"driverOk", "joinOk", "post", "assert", "panicked"} \union Ends
          /\ outcome # "cancelled"

(* Chunks and variables are sent only if there are any.                    *)
Content ==
    /\ pc = "post" \/ "vars" \in Sent => req.post
    /\ "chunk" \in Sent => chunks > 0

(* What is in the channels was emitted.                                    *)
Carried == EventsOf(rx) \union EventsOf(fheld) \union EventsOf(tee) \subseteq EventsOf(emitted)

EngineInv ==
    /\ EngineTypeOK /\ ForwardOwnsTee /\ SinkOwned /\ HeadUnderWay /\ PreviewUnderWay
    /\ WholeResponseJudged /\ Verdict /\ Content /\ Carried

-------------------------------------------------------------------------------
(* The engine's steps preserve the order of the events, whatever sequence  *)
(* c has left the pipeline.                                                *)
LEMMA EngineOrder ==
    ASSUME EngineTypeOK, ForwardOwnsTee, EngineNext, NEW c \in Seq(Event), emitted = c \o InFlight
    PROVE  emitted' = c \o InFlight'
<1>t. /\ rx \in Seq(Event) /\ fheld \in Seq(Event) /\ tee \in Seq(Event)
      /\ todo \in Seq(Event) /\ Len(fheld) <= 1 /\ pc \in DriverPcs \union TaskPcs
  BY DEF EngineTypeOK
<1>1. CASE Emit
  <2>1. Head(todo) \in Event
    BY <1>1, <1>t, HeadThenTail DEF Emit
  <2>2. CASE pc \in DriverPcs
    <3>1. tee' = Append(tee, Head(todo)) /\ UNCHANGED <<rx, fheld>>
          /\ emitted' = Append(emitted, Head(todo))
      BY <1>1, <2>2 DEF Emit
    <3>2. rx \o fheld \in Seq(Event)
      BY <1>t, Closed
    <3>3. \A q \in Seq(Event) : Append(c \o (q \o tee), Head(todo)) = c \o (q \o Append(tee, Head(todo)))
      <4>1. tee \in Seq(Event)
        BY <1>t
      <4> QED BY <2>1, <4>1, EmitToTee, ZenonT(60)
    <3>4. Append(c \o (rx \o fheld \o tee), Head(todo)) = c \o (rx \o fheld \o Append(tee, Head(todo)))
      BY <3>2, <3>3, Zenon
    <3> QED BY <3>1, <3>4, Zenon DEF InFlight
  <2>3. CASE pc \notin DriverPcs
    <3>1. rx' = Append(rx, Head(todo)) /\ UNCHANGED <<tee, fheld>>
          /\ emitted' = Append(emitted, Head(todo))
      BY <1>1, <2>3 DEF Emit
    <3>2. fwd # "recv"
      BY <1>1, <1>t, <2>3 DEF Emit, ForwardOwnsTee, TaskPcs
    <3>3. tee = <<>> /\ fheld = <<>>
      BY <3>2 DEF ForwardOwnsTee
    <3>4. Append(c \o (rx \o <<>> \o <<>>), Head(todo)) = c \o (Append(rx, Head(todo)) \o <<>> \o <<>>)
      BY <2>1, <1>t, EmitToRx
    <3> QED BY <3>1, <3>3, <3>4, Zenon DEF InFlight
  <2> QED BY <2>2, <2>3
<1>2. CASE ForwardRecv
  <2>1. tee # <<>> /\ fheld = <<>> /\ fheld' = <<Head(tee)>> /\ tee' = Tail(tee)
        /\ UNCHANGED <<rx, emitted>>
    BY <1>2 DEF ForwardRecv
  <2> QED BY <2>1, <1>t, TakeFromTee DEF InFlight
<1>3. CASE ForwardSend
  <2>1. fheld # <<>> /\ fheld' = <<>> /\ rx' = Append(rx, Head(fheld)) /\ UNCHANGED <<tee, emitted>>
    BY <1>3 DEF ForwardSend
  <2> QED BY <2>1, <1>t, HandToRx DEF InFlight
<1>4. CASE UNCHANGED <<emitted, rx, fheld, tee>>
  BY <1>4 DEF InFlight
<1>5. EngineNext => Emit \/ ForwardRecv \/ ForwardSend \/ UNCHANGED <<emitted, rx, fheld, tee>>
  BY DEF EngineNext, TaskStep, DriverStep, ForwardStep, Begin, RunPreScripts, ResolveRequest, ApplyAuth,
     ValidateFails, SpawnForward, DriverEnter, DriverCancel, DriverConnect, DriverConnectFails,
     DriverBackoff, DriverChunk, DriverStreamError, DriverStreamEnd, DriverReturn, JoinOk,
     RunPostScripts, RunAssertions, AssertionPanics, JoinErr, JoinCancelled, Finish, Cleanup,
     ForwardEnd, Cancel, taskOnly, driverOnly
<1> QED BY <1>1, <1>2, <1>3, <1>4, <1>5

(* The engine's steps keep the ownership of its two channels.              *)
LEMMA EngineOwns ==
    ASSUME EngineTypeOK, ForwardOwnsTee, SinkOwned, EngineNext
    PROVE  ForwardOwnsTee' /\ SinkOwned'
<1> USE DEF ForwardOwnsTee, SinkOwned, RxClosed, DriverPcs
<1>t. pc \in DriverPcs \union TaskPcs /\ todo \in Seq(Event)
  BY DEF EngineTypeOK
<1>1. CASE Emit
  <2>1. todo # <<>> /\ ~RxClosed /\ UNCHANGED <<pc, fwd, fheld, sink>>
    BY <1>1 DEF Emit
  <2>2. CASE pc \in DriverPcs
    BY <2>1, <2>2
  <2>3. CASE pc \notin DriverPcs
    <3>1. tee' = tee /\ pc \notin {"joinOk", "joinErr", "joinCancelled"}
      BY <1>1, <2>1, <2>3 DEF Emit
    <3> QED BY <2>1, <3>1
  <2> QED BY <2>2, <2>3
<1>2. CASE Begin \/ RunPreScripts \/ ResolveRequest \/ ApplyAuth \/ ValidateFails
  BY <1>2 DEF Begin, RunPreScripts, ResolveRequest, ApplyAuth, ValidateFails, taskOnly, At, Goto, Return
<1>3. CASE SpawnForward
  BY <1>3 DEF SpawnForward, At, Goto
<1>4. CASE DriverStep
  <2>1. UNCHANGED <<tee, fheld, fwd, sink>> /\ pc \in DriverPcs
        /\ (pc' \in DriverPcs \/ (pc' \in {"joinOk", "joinErr", "joinCancelled"} /\ todo' = <<>>))
    BY <1>4 DEF DriverStep, DriverEnter, DriverCancel, DriverConnect, DriverConnectFails, DriverBackoff, DriverChunk,
       DriverStreamError, DriverStreamEnd, DriverReturn, Retry, driverOnly, At, Goto
  <2> QED BY <2>1
<1>5. CASE JoinOk \/ JoinErr \/ JoinCancelled
  BY <1>5 DEF JoinOk, JoinErr, JoinCancelled, Forwarded, ToAssertions, taskOnly, At, Goto, Return
<1>6. CASE RunPostScripts \/ RunAssertions \/ AssertionPanics
  BY <1>6 DEF RunPostScripts, RunAssertions, AssertionPanics, ToAssertions, taskOnly, At, Goto, Return
<1>7. CASE Finish \/ Cleanup
  BY <1>7 DEF Finish, Cleanup, taskOnly, At, Goto
<1>8. CASE ForwardStep
  BY <1>8 DEF ForwardStep, ForwardRecv, ForwardSend, ForwardEnd, TeeClosed
<1>9. CASE Cancel
  BY <1>9 DEF Cancel
<1> QED
  BY <1>1, <1>2, <1>3, <1>4, <1>5, <1>6, <1>7, <1>8, <1>9 DEF EngineNext, TaskStep

(* What EventsOf makes of the operations on sequences.                     *)
LEMMA EventsMove ==
    /\ EventsOf(<<>>) = {}
    /\ \A e : EventsOf(<<e>>) = {e}
    /\ \A s \in Seq(Event), e \in Event : EventsOf(Append(s, e)) = EventsOf(s) \union {e}
    /\ \A s \in Seq(Event) : s # <<>> => EventsOf(s) = {Head(s)} \union EventsOf(Tail(s)) /\ Head(s) \in Event
    /\ \A s, t \in Seq(Event) : EventsOf(s \o t) = EventsOf(s) \union EventsOf(t)
<1>1. EventsOf(<<>>) = {} /\ \A e : EventsOf(<<e>>) = {e}
  BY DEF EventsOf
<1>2. ASSUME NEW s \in Seq(Event), NEW e \in Event PROVE EventsOf(Append(s, e)) = EventsOf(s) \union {e}
  <2>1. /\ DOMAIN Append(s, e) = 1 .. Len(s) + 1 /\ Append(s, e)[Len(s) + 1] = e
        /\ \A i \in 1 .. Len(s) : Append(s, e)[i] = s[i]
        /\ DOMAIN s = 1 .. Len(s) /\ Len(s) \in Nat
    OBVIOUS
  <2> QED BY <2>1 DEF EventsOf
<1>3. ASSUME NEW s \in Seq(Event), s # <<>>
      PROVE  EventsOf(s) = {Head(s)} \union EventsOf(Tail(s)) /\ Head(s) \in Event
  <2>1. /\ DOMAIN s = 1 .. Len(s) /\ Len(s) \in Nat \ {0} /\ Head(s) = s[1] /\ Head(s) \in Event
        /\ DOMAIN Tail(s) = 1 .. Len(s) - 1
        /\ \A i \in 1 .. Len(s) - 1 : Tail(s)[i] = s[i + 1]
    BY <1>3, HeadTailProperties, EmptySeq
  <2>2. \A i \in 2 .. Len(s) : s[i] \in EventsOf(Tail(s))
    <3> SUFFICES ASSUME NEW i \in 2 .. Len(s) PROVE s[i] \in EventsOf(Tail(s))
      OBVIOUS
    <3>1. i - 1 \in DOMAIN Tail(s) /\ Tail(s)[i - 1] = s[i]
      BY <2>1
    <3> QED BY <3>1 DEF EventsOf
  <2>3. \A e \in EventsOf(s) : e = Head(s) \/ e \in EventsOf(Tail(s))
    BY <2>1, <2>2 DEF EventsOf
  <2>4. \A e \in EventsOf(Tail(s)) : e \in EventsOf(s)
    BY <2>1 DEF EventsOf
  <2>5. Head(s) \in EventsOf(s)
    BY <2>1 DEF EventsOf
  <2> QED BY <2>1, <2>3, <2>4, <2>5
<1>4. ASSUME NEW s \in Seq(Event), NEW t \in Seq(Event) PROVE EventsOf(s \o t) = EventsOf(s) \union EventsOf(t)
  <2> DEFINE st == s \o t
  <2>1. /\ DOMAIN s = 1 .. Len(s) /\ DOMAIN t = 1 .. Len(t) /\ Len(s) \in Nat /\ Len(t) \in Nat
        /\ DOMAIN st = 1 .. Len(s) + Len(t)
        /\ \A i \in 1 .. Len(s) + Len(t) : st[i] = IF i <= Len(s) THEN s[i] ELSE t[i - Len(s)]
    BY ConcatProperties, LenProperties
  <2> HIDE DEF st
  <2>2. ASSUME NEW i \in DOMAIN st PROVE st[i] \in EventsOf(s) \union EventsOf(t)
    <3>1. CASE i <= Len(s)
      BY <2>1, <3>1 DEF EventsOf
    <3>2. CASE ~(i <= Len(s))
      <4>1. i - Len(s) \in DOMAIN t /\ st[i] = t[i - Len(s)]
        BY <2>1, <3>2
      <4> QED BY <4>1 DEF EventsOf
    <3> QED BY <3>1, <3>2
  <2>3. ASSUME NEW i \in DOMAIN s PROVE s[i] \in EventsOf(st)
    BY <2>1 DEF EventsOf
  <2>4. ASSUME NEW i \in DOMAIN t PROVE t[i] \in EventsOf(st)
    <3>1. i + Len(s) \in DOMAIN st /\ st[i + Len(s)] = t[i]
      BY <2>1
    <3> QED BY <3>1 DEF EventsOf
  <2>5. EventsOf(st) \subseteq EventsOf(s) \union EventsOf(t)
    BY <2>2 DEF EventsOf
  <2>6. EventsOf(s) \subseteq EventsOf(st) /\ EventsOf(t) \subseteq EventsOf(st)
    BY <2>3, <2>4 DEF EventsOf
  <2> QED BY <2>5, <2>6 DEF st
<1> QED BY <1>1, <1>2, <1>3, <1>4

(* The events the task queues.                                             *)
LEMMA EventsQueued ==
    /\ EventsOf(<<>>) = {} /\ EventsOf(<<"running">>) = {"running"} /\ EventsOf(<<"failed">>) = {"failed"}
    /\ EventsOf(<<"failed", "stateFailed">>) = {"failed", "stateFailed"}
    /\ EventsOf(<<"meta">>) = {"meta"} /\ EventsOf(<<"meta", "running">>) = {"meta", "running"}
    /\ EventsOf(<<"meta", "warning", "running">>) = {"meta", "warning", "running"}
    /\ EventsOf(<<"warning">>) = {"warning"} /\ EventsOf(<<"chunk">>) = {"chunk"} /\ EventsOf(<<"log">>) = {"log"}
    /\ EventsOf(<<"assertion">>) = {"assertion"}
    /\ EventsOf(<<>> \o <<"running">>) = {"running"}
    /\ \A d : EventsOf(CancelEvents(d)) = IF d \in {"http", "sse"} THEN {"cancelled"} ELSE {}
    /\ \A d : /\ {"last", "completed"} \subseteq EventsOf(CompletionEvents(d))
              /\ EventsOf(CompletionEvents(d)) \subseteq {"last", "completed", "stateCompleted"}
    /\ \A logs \in {<<>>, <<"log">>} :
          /\ EventsOf(logs \o <<"running">>) \subseteq {"log", "running"}
          /\ EventsOf(logs \o <<"vars">>) \subseteq {"log", "vars"}
          /\ EventsOf(logs \o <<"vars">> \o <<"running">>) \subseteq {"log", "vars", "running"}
<1> USE DEF EventsOf
<1>1. /\ EventsOf(<<>>) = {} /\ EventsOf(<<"running">>) = {"running"} /\ EventsOf(<<"failed">>) = {"failed"}
      /\ EventsOf(<<"meta">>) = {"meta"} /\ EventsOf(<<"warning">>) = {"warning"} /\ EventsOf(<<"chunk">>) = {"chunk"}
      /\ EventsOf(<<"log">>) = {"log"} /\ EventsOf(<<"assertion">>) = {"assertion"}
  OBVIOUS
<1>2. /\ EventsOf(<<"failed", "stateFailed">>) = {"failed", "stateFailed"}
      /\ EventsOf(<<"meta", "running">>) = {"meta", "running"}
  OBVIOUS
<1>3. EventsOf(<<"meta", "warning", "running">>) = {"meta", "warning", "running"}
  OBVIOUS
<1>4. /\ EventsOf(<<"vars">>) = {"vars"} /\ EventsOf(<<"stateCompleted">>) = {"stateCompleted"}
      /\ EventsOf(<<"last", "completed">>) = {"last", "completed"}
  OBVIOUS
<1>5. ASSUME NEW d PROVE EventsOf(CancelEvents(d)) = IF d \in {"http", "sse"} THEN {"cancelled"} ELSE {}
  BY DEF CancelEvents
<1> HIDE DEF EventsOf
<1>s. /\ <<>> \in Seq(Event) /\ <<"log">> \in Seq(Event) /\ <<"running">> \in Seq(Event)
      /\ <<"vars">> \in Seq(Event) /\ <<"stateCompleted">> \in Seq(Event) /\ <<"last", "completed">> \in Seq(Event)
  BY DEF Event
<1>c. \A s, t \in Seq(Event) : EventsOf(s \o t) = EventsOf(s) \union EventsOf(t) /\ s \o t \in Seq(Event)
  BY EventsMove, Closed
<1>6. ASSUME NEW d
      PROVE  /\ {"last", "completed"} \subseteq EventsOf(CompletionEvents(d))
             /\ EventsOf(CompletionEvents(d)) \subseteq {"last", "completed", "stateCompleted"}
  <2>1. /\ EventsOf(<<"last", "completed">> \o <<"stateCompleted">>) = {"last", "completed", "stateCompleted"}
        /\ EventsOf(<<"last", "completed">> \o <<>>) = {"last", "completed"}
    <3>1. /\ EventsOf(<<"last", "completed">> \o <<"stateCompleted">>)
                = EventsOf(<<"last", "completed">>) \union EventsOf(<<"stateCompleted">>)
          /\ EventsOf(<<"last", "completed">> \o <<>>) = EventsOf(<<"last", "completed">>) \union EventsOf(<<>>)
      BY <1>s, <1>c, Zenon
    <3> QED BY <1>1, <1>4, <3>1
  <2> QED BY <2>1 DEF CompletionEvents
<1>7. EventsOf(<<>> \o <<"running">>) = {"running"}
  BY <1>1, <1>s, <1>c
<1>9. ASSUME NEW logs \in {<<>>, <<"log">>}
      PROVE  /\ EventsOf(logs \o <<"running">>) \subseteq {"log", "running"}
             /\ EventsOf(logs \o <<"vars">>) \subseteq {"log", "vars"}
             /\ EventsOf(logs \o <<"vars">> \o <<"running">>) \subseteq {"log", "vars", "running"}
  <2>1. logs \in Seq(Event) /\ EventsOf(logs) \subseteq {"log"}
    BY <1>1, <1>s
  <2>2. /\ EventsOf(logs \o <<"running">>) = EventsOf(logs) \union EventsOf(<<"running">>)
        /\ EventsOf(logs \o <<"vars">>) = EventsOf(logs) \union EventsOf(<<"vars">>)
        /\ logs \o <<"vars">> \in Seq(Event)
    BY <1>s, <1>c, <2>1, Zenon
  <2>3. EventsOf(logs \o <<"vars">> \o <<"running">>) = EventsOf(logs \o <<"vars">>) \union EventsOf(<<"running">>)
    BY <1>s, <1>c, <2>2, Zenon
  <2> QED BY <1>1, <1>4, <2>1, <2>2, <2>3
<1> QED BY <1>1, <1>2, <1>3, <1>5, <1>6, <1>7, <1>9

(* What the engine says of its response and of its end stays true.         *)
Saying == HeadUnderWay /\ PreviewUnderWay /\ WholeResponseJudged /\ Verdict /\ Content /\ Carried

LEMMA EmitSays == ASSUME EngineInv, Emit PROVE Saying'
<1> DEFINE e == Head(todo)
<1>1. /\ todo \in Seq(Event) /\ tee \in Seq(Event) /\ rx \in Seq(Event) /\ emitted \in Seq(Event)
      /\ todo # <<>>
  BY DEF EngineInv, EngineTypeOK, Emit
<1>2. /\ UNCHANGED <<req, pc, fheld, seen, chunks, outcome>>
      /\ emitted' = Append(emitted, e) /\ todo' = Tail(todo)
      /\ \/ pc \in DriverPcs /\ tee' = Append(tee, e) /\ rx' = rx
         \/ pc \notin DriverPcs /\ rx' = Append(rx, e) /\ tee' = tee
  BY DEF Emit
<1>3. EventsOf(todo) = {e} \union EventsOf(todo') /\ e \in Event
  BY <1>1, <1>2, EventsMove
<1>4. EventsOf(emitted') = EventsOf(emitted) \union {e}
  BY <1>1, <1>2, <1>3, EventsMove
<1>5. /\ pc \in DriverPcs => EventsOf(tee') = EventsOf(tee) \union {e} /\ rx' = rx
      /\ pc \notin DriverPcs => EventsOf(rx') = EventsOf(rx) \union {e} /\ tee' = tee
  <2>1. EventsOf(Append(tee, e)) = EventsOf(tee) \union {e} /\ EventsOf(Append(rx, e)) = EventsOf(rx) \union {e}
    BY <1>1, <1>3, EventsMove
  <2> QED BY <1>2, <2>1
<1> HIDE DEF e
<1>6. Sent' = Sent
  BY <1>3, <1>4 DEF Sent
<1>7. HeadUnderWay' /\ PreviewUnderWay'
  <2>1. pc # "joinOk"
    BY <1>1 DEF EngineInv, ForwardOwnsTee
  <2> QED BY <1>2, <1>3, <1>5, <2>1 DEF EngineInv, HeadUnderWay, PreviewUnderWay, DriverPcs
<1>8. WholeResponseJudged' /\ Verdict' /\ Content'
  BY <1>2, <1>6 DEF EngineInv, WholeResponseJudged, Verdict, Content, Cancelling
<1>9. Carried'
  BY <1>2, <1>4, <1>5 DEF EngineInv, Carried
<1> QED BY <1>7, <1>8, <1>9 DEF Saying

LEMMA ForwardSays == ASSUME EngineInv, ForwardStep \/ Cancel PROVE Saying'
<1>1. /\ tee \in Seq(Event) /\ rx \in Seq(Event) /\ fheld \in Seq(Event) /\ Len(fheld) <= 1
  BY DEF EngineInv, EngineTypeOK
<1>2. CASE ForwardRecv
  <2>1. /\ UNCHANGED <<req, pc, todo, rx, chunks, outcome, emitted>> /\ tee # <<>>
        /\ fheld' = <<Head(tee)>> /\ tee' = Tail(tee) /\ seen' = seen \union Captured(Head(tee))
    BY <1>2 DEF ForwardRecv
  <2>2. EventsOf(tee) = {Head(tee)} \union EventsOf(tee') /\ EventsOf(fheld') = {Head(tee)}
    BY <1>1, <2>1, EventsMove
  <2>3. HeadUnderWay' /\ PreviewUnderWay'
    BY <2>1, <2>2 DEF EngineInv, HeadUnderWay, PreviewUnderWay, Captured
  <2>4. WholeResponseJudged' /\ Verdict' /\ Content' /\ Carried'
    BY <2>1, <2>2 DEF EngineInv, WholeResponseJudged, Verdict, Content, Cancelling, Sent, Carried
  <2> QED BY <2>3, <2>4 DEF Saying
<1>3. CASE ForwardSend
  <2>1. /\ UNCHANGED <<req, pc, todo, tee, seen, chunks, outcome, emitted>> /\ fheld # <<>>
        /\ fheld' = <<>> /\ rx' = Append(rx, Head(fheld))
    BY <1>3 DEF ForwardSend
  <2>2. /\ Head(fheld) \in EventsOf(fheld) /\ EventsOf(fheld') = {}
        /\ EventsOf(rx') = EventsOf(rx) \union {Head(fheld)}
    BY <1>1, <2>1, EventsMove
  <2> QED BY <2>1, <2>2 DEF EngineInv, Saying, HeadUnderWay, PreviewUnderWay, WholeResponseJudged, Verdict, Content,
             Cancelling, Sent, Carried
<1>4. CASE ForwardEnd \/ Cancel
  BY <1>4 DEF ForwardEnd, Cancel, EngineInv, Saying, HeadUnderWay, PreviewUnderWay, WholeResponseJudged, Verdict,
     Content, Cancelling, Sent, Carried
<1> QED BY <1>2, <1>3, <1>4 DEF ForwardStep

(* The other steps of the task: nothing moves in the channels.             *)
LEMMA TaskSays == ASSUME EngineInv, TaskStep, ~Emit PROVE Saying'
<1>1. /\ todo = <<>> /\ UNCHANGED <<req, tee, rx, fheld, seen, emitted>>
  BY DEF TaskStep, DriverStep, Begin, RunPreScripts, ResolveRequest, ApplyAuth,
     ValidateFails, SpawnForward, DriverEnter, DriverCancel, DriverConnect, DriverConnectFails,
     DriverBackoff, DriverChunk, DriverStreamError, DriverStreamEnd, DriverReturn, JoinOk,
     RunPostScripts, RunAssertions, AssertionPanics, JoinErr, JoinCancelled, Finish, Cleanup,
     taskOnly, driverOnly, At
<1>2. /\ EventsOf(todo) = {} /\ Sent = EventsOf(emitted) /\ Sent' = EventsOf(todo') \union EventsOf(emitted)
  BY <1>1, EventsMove DEF Sent
<1>3. Carried'
  BY <1>1 DEF EngineInv, Carried
<1>4. req.driver \in {"http", "sse", "websocket"} /\ chunks \in Nat /\ outcome \in Outcomes
  <2>1. req \in Requests /\ chunks \in 0 .. MaxChunks /\ outcome \in Outcomes
    BY DEF EngineInv, EngineTypeOK
  <2>2. req.driver \in Drivers
    BY <2>1 DEF Requests
  <2>3. req.driver \in {"http", "sse", "websocket"}
    BY <2>2, DriversAssumption, Zenon
  <2>4. chunks \in Nat
    BY <2>1, BoundsAssumption
  <2> QED BY <2>1, <2>3, <2>4
<1>5. HeadUnderWay /\ PreviewUnderWay /\ WholeResponseJudged /\ Verdict /\ Content
  BY DEF EngineInv
<1> USE DEF HeadUnderWay, PreviewUnderWay, WholeResponseJudged, Verdict, Content, Cancelling, Failures, Ends,
            At, Goto, Return, taskOnly, driverOnly
<1>6. CASE Begin \/ RunPreScripts
  <2>1. /\ pc \in {"before", "pre"} /\ UNCHANGED chunks
        /\ \/ pc' \in {"pre", "resolve"} /\ EventsOf(todo') \subseteq {"log", "running"} /\ UNCHANGED outcome
           \/ pc' = "finish" /\ outcome' = "script" /\ EventsOf(todo') = {"failed"}
    BY <1>6, EventsQueued DEF Begin, RunPreScripts
  <2> QED BY <1>1, <1>2, <1>3, <1>5, <2>1 DEF Saying
<1>7. CASE ResolveRequest \/ ApplyAuth \/ ValidateFails
  BY <1>1, <1>2, <1>3, <1>4, <1>5, <1>7, EventsQueued DEF Saying, ResolveRequest, ApplyAuth, ValidateFails
<1>8. CASE SpawnForward \/ DriverEnter
  BY <1>1, <1>2, <1>3, <1>4, <1>5, <1>8, EventsQueued DEF Saying, SpawnForward, DriverEnter
<1>9. CASE DriverCancel
  BY <1>1, <1>2, <1>3, <1>4, <1>5, <1>9, EventsQueued DEF Saying, DriverCancel
<1>10. CASE DriverConnect \/ DriverConnectFails \/ DriverBackoff
  BY <1>1, <1>2, <1>3, <1>4, <1>5, <1>10, EventsQueued DEF Saying, DriverConnect, DriverConnectFails, DriverBackoff, Retry
<1>11. CASE DriverChunk \/ DriverStreamError
  BY <1>1, <1>2, <1>3, <1>4, <1>5, <1>11, EventsQueued DEF Saying, DriverChunk, DriverStreamError
<1>12. CASE DriverStreamEnd
  BY <1>1, <1>2, <1>3, <1>4, <1>5, <1>12, EventsQueued DEF Saying, DriverStreamEnd, Retry, FinalPreview
<1>13. CASE DriverReturn
  BY <1>1, <1>2, <1>3, <1>4, <1>5, <1>13, EventsQueued DEF Saying, DriverReturn
<1>14. CASE JoinOk
  <2>1. tee = <<>> /\ EventsOf(tee) = {}
    BY <1>14, EventsMove DEF JoinOk, Forwarded, EngineInv, ForwardOwnsTee
  <2> QED BY <1>1, <1>2, <1>3, <1>4, <1>5, <1>14, <2>1, EventsQueued DEF Saying, JoinOk, ToAssertions
<1>15. CASE RunPostScripts
  <2>1. /\ pc = "post" /\ UNCHANGED chunks
        /\ \/ /\ EventsOf(todo') \subseteq {"log", "vars", "running"}
              /\ \/ pc' = "assert" /\ UNCHANGED outcome
                 \/ pc' = "finish" /\ outcome' = "ok"
           \/ pc' = "finish" /\ outcome' = "script" /\ EventsOf(todo') = {"failed"}
    <3>1. CASE pc' = "finish" /\ outcome' = "script" /\ todo' = <<"failed">>
      BY <1>15, <3>1, EventsQueued DEF RunPostScripts
    <3>2. CASE \E logs \in {<<>>, <<"log">>} : ToAssertions(logs \o <<"vars">>)
      <4>1. PICK logs \in {<<>>, <<"log">>} : ToAssertions(logs \o <<"vars">>)
        BY <3>2
      <4>2. /\ EventsOf(logs \o <<"vars">>) \subseteq {"log", "vars", "running"}
            /\ EventsOf(logs \o <<"vars">> \o <<"running">>) \subseteq {"log", "vars", "running"}
        BY EventsQueued
      <4> QED BY <1>15, <4>1, <4>2 DEF RunPostScripts, ToAssertions
    <3> QED BY <1>15, <3>1, <3>2 DEF RunPostScripts
  <2> QED BY <1>1, <1>2, <1>3, <1>5, <2>1 DEF Saying
<1>16. CASE RunAssertions \/ AssertionPanics
  BY <1>1, <1>2, <1>3, <1>4, <1>5, <1>16, EventsQueued DEF Saying, RunAssertions, AssertionPanics
<1>17. CASE JoinErr \/ JoinCancelled
  BY <1>1, <1>2, <1>3, <1>4, <1>5, <1>17, EventsQueued DEF Saying, JoinErr, JoinCancelled
<1>18. CASE Finish \/ Cleanup
  BY <1>1, <1>2, <1>3, <1>4, <1>5, <1>18, EventsQueued DEF Saying, Finish, Cleanup
<1> QED
  BY <1>6, <1>7, <1>8, <1>9, <1>10, <1>11, <1>12, <1>13, <1>14, <1>15, <1>16, <1>17, <1>18 DEF TaskStep, DriverStep

LEMMA EngineStarts == EngineInit => EngineInv /\ emitted = <<>> /\ InFlight = <<>>
<1> SUFFICES ASSUME EngineInit PROVE EngineInv /\ emitted = <<>> /\ InFlight = <<>>
  OBVIOUS
<1>1. EngineTypeOK
  BY EngineTypeInit
<1>2. ForwardOwnsTee /\ SinkOwned /\ HeadUnderWay /\ PreviewUnderWay /\ WholeResponseJudged
  BY DEF EngineInit, ForwardOwnsTee, SinkOwned, RxClosed, HeadUnderWay, PreviewUnderWay, WholeResponseJudged, DriverPcs
<1>3. Sent = {} /\ Carried
  BY EventsMove DEF EngineInit, Sent, Carried
<1>4. Verdict /\ Content
  BY <1>3 DEF EngineInit, Verdict, Content, Cancelling, Failures, Ends
<1>5. InFlight = <<>>
  BY ConcatEmptySeq, EmptySeq DEF EngineInit, InFlight
<1> QED BY <1>1, <1>2, <1>3, <1>4, <1>5 DEF EngineInv, EngineInit

LEMMA EngineStep == ASSUME EngineInv, EngineNext PROVE EngineInv'
<1>1. EngineTypeOK'
  BY TypeEngine DEF EngineInv
<1>2. ForwardOwnsTee' /\ SinkOwned'
  BY EngineOwns DEF EngineInv
<1>3. Saying'
  BY EmitSays, ForwardSays, TaskSays DEF EngineNext
<1> QED BY <1>1, <1>2, <1>3 DEF EngineInv, Saying

(* A step of a consumer: it takes an event from the channel or leaves the  *)
(* engine alone.                                                           *)
LEMMA EngineStays ==
    ASSUME EngineInv,
           UNCHANGED <<req, pc, todo, tee, fwd, fheld, seen, sink, attempt, chunks, token, active, outcome, emitted>>,
           rx' = rx \/ (rx # <<>> /\ rx' = Tail(rx))
    PROVE  EngineInv' /\ EventsOf(rx') \subseteq EventsOf(rx)
<1>1. rx \in Seq(Event) /\ Len(rx) <= Cap
  BY DEF EngineInv, EngineTypeOK
<1>2. rx' \in Seq(Event) /\ Len(rx') <= Cap
  <2>1. rx # <<>> => Tail(rx) \in Seq(Event) /\ Len(Tail(rx)) = Len(rx) - 1 /\ Len(rx) \in Nat
    BY <1>1, HeadThenTail
  <2> QED BY <1>1, <2>1, CapAssumption
<1>3. EventsOf(rx') \subseteq EventsOf(rx)
  BY <1>1, EventsMove
<1>4. EngineTypeOK'
  BY <1>2 DEF EngineInv, EngineTypeOK
<1>5. ForwardOwnsTee' /\ SinkOwned'
  BY DEF EngineInv, ForwardOwnsTee, SinkOwned, RxClosed
<1>6. HeadUnderWay' /\ PreviewUnderWay' /\ WholeResponseJudged' /\ Verdict' /\ Content'
  BY DEF EngineInv, HeadUnderWay, PreviewUnderWay, WholeResponseJudged, Verdict, Content, Cancelling, Sent
<1>7. Carried'
  BY <1>3 DEF EngineInv, Carried
<1> QED BY <1>3, <1>4, <1>5, <1>6, <1>7 DEF EngineInv

-------------------------------------------------------------------------------
(* The collector.                                                          *)

(* NoEventLost and CollectedAll need the engine's invariants: the forward  *)
(* task is the only one to write to the channel while it lives, and the    *)
(* channel is closed only when nothing is left to send.                    *)
CollectInv ==
    /\ EngineInv /\ CollectTypeOK /\ NoEventLost
    /\ collector # "drain" => RxClosed /\ rx = <<>>

LEMMA CollectStart == CollectInit => CollectInv
<1> SUFFICES ASSUME CollectInit PROVE CollectInv
  OBVIOUS
<1>1. <<>> \o <<>> = <<>> /\ <<>> \in Seq(Event)
  BY ConcatEmptySeq, EmptySeq
<1> QED BY <1>1, EngineStarts DEF CollectInit, CollectInv, CollectTypeOK, NoEventLost, EngineInv

LEMMA CollectKeeps == CollectInv /\ [CollectNext]_collectVars => CollectInv'
<1> SUFFICES ASSUME CollectInv, [CollectNext]_collectVars PROVE CollectInv'
  OBVIOUS
<1>t. /\ rx \in Seq(Event) /\ fheld \in Seq(Event) /\ tee \in Seq(Event) /\ collected \in Seq(Event)
      /\ collector \in {"drain", "join", "returned"}
  BY DEF CollectInv, CollectTypeOK, EngineTypeOK
<1>1. CASE EngineNext /\ UNCHANGED collectorVars
  <2>1. EngineInv'
    BY <1>1, EngineStep DEF CollectInv
  <2>2. NoEventLost'
    <3>1. emitted' = collected \o InFlight'
      BY <1>1, <1>t, EngineOrder DEF CollectInv, EngineInv, NoEventLost
    <3> QED BY <1>1, <3>1 DEF NoEventLost, collectorVars
  <2>3. CollectTypeOK'
    BY <1>1, <2>1 DEF CollectInv, CollectTypeOK, EngineInv, collectorVars
  <2>4. (collector # "drain" => RxClosed /\ rx = <<>>)'
    <3> SUFFICES ASSUME collector # "drain" PROVE (RxClosed /\ rx = <<>>)'
      BY <1>1 DEF collectorVars
    <3>1. RxClosed /\ todo = <<>> /\ rx = <<>> /\ fwd # "recv" /\ fheld = <<>>
          /\ pc \in {"finish", "cleanup", "done", "panicked"}
      BY DEF CollectInv, EngineInv, SinkOwned, ForwardOwnsTee
    <3>2. ~Emit /\ ~ForwardSend /\ ~SpawnForward
      BY <3>1 DEF Emit, ForwardSend, SpawnForward, At
    <3> QED
      BY <1>1, <3>1, <3>2 DEF EngineNext, TaskStep, DriverStep, ForwardStep, Begin, RunPreScripts, ResolveRequest, ApplyAuth,
         ValidateFails, DriverEnter, DriverCancel, DriverConnect, DriverConnectFails,
         DriverBackoff, DriverChunk, DriverStreamError, DriverStreamEnd, DriverReturn, JoinOk,
         RunPostScripts, RunAssertions, AssertionPanics, JoinErr, JoinCancelled, Finish, Cleanup,
         ForwardRecv, ForwardEnd, Cancel, taskOnly, driverOnly, At, RxClosed
  <2> QED BY <2>1, <2>2, <2>3, <2>4 DEF CollectInv
<1>2. CASE Recv
  <2>1. /\ rx # <<>> /\ rx' = Tail(rx) /\ collected' = Append(collected, Head(rx)) /\ collector = "drain"
        /\ UNCHANGED <<req, pc, todo, tee, fwd, fheld, seen, sink, attempt, chunks, token, active, outcome, emitted, collector>>
    BY <1>2 DEF Recv
  <2>2. EngineInv'
    BY <2>1, EngineStays DEF CollectInv
  <2>3. NoEventLost'
    <3>1. emitted = Pipe(collected, rx, fheld, tee)
      BY Zenon DEF CollectInv, NoEventLost, InFlight, Pipe
    <3>2. Pipe(collected, rx, fheld, tee) = Pipe(Append(collected, Head(rx)), Tail(rx), fheld, tee)
      BY <2>1, <1>t, TakeFromRx
    <3>3. emitted' = Pipe(collected', rx', fheld', tee')
      BY <2>1, <3>1, <3>2
    <3> QED BY <3>3, Zenon DEF NoEventLost, InFlight, Pipe
  <2>4. CollectTypeOK'
    BY <1>t, <2>1, <2>2, HeadThenTail, AppendProperties DEF CollectTypeOK, EngineInv
  <2> QED BY <2>1, <2>2, <2>3, <2>4 DEF CollectInv
<1>3. CASE RecvNone \/ Join \/ UNCHANGED collectVars
  <2>1. /\ UNCHANGED <<req, pc, todo, tee, rx, fwd, fheld, seen, sink, attempt, chunks, token, active, outcome, emitted,
                       collected>>
        /\ collector' \in {"drain", "join", "returned"}
        /\ collector' # "drain" => RxClosed /\ rx = <<>>
    BY <1>3, <1>t DEF RecvNone, Join, engineVars, collectVars, CollectInv
  <2>2. EngineInv'
    BY <2>1, EngineStays DEF CollectInv
  <2> QED BY <2>1, <2>2 DEF CollectInv, NoEventLost, InFlight, CollectTypeOK, EngineInv, RxClosed
<1> QED BY <1>1, <1>2, <1>3 DEF CollectNext, CollectStep

LEMMA CollectInvariant == CollectSpec => []CollectInv
  BY CollectStart, CollectKeeps, PTL DEF CollectSpec

(* The engine's and the collector's state keep their types: in particular  *)
(* neither channel ever holds more than Cap events.                        *)
THEOREM TypeCorrect == CollectSpec => []CollectTypeOK
<1>1. CollectInv => CollectTypeOK
  BY DEF CollectInv
<1> QED BY <1>1, CollectInvariant, PTL

(* The tee, the forward task and the consumer's channel lose, duplicate    *)
(* and reorder no event.                                                   *)
THEOREM EventsInOrder == CollectSpec => []NoEventLost
<1>1. CollectInv => NoEventLost
  BY DEF CollectInv
<1> QED BY <1>1, CollectInvariant, PTL

(* execute_collect_with_scope returns every event of the execution.        *)
THEOREM CollectsEverything == CollectSpec => []CollectedAll
<1>1. CollectInv => CollectedAll
  <2> SUFFICES ASSUME CollectInv, collector # "drain"
               PROVE  collected = emitted /\ todo = <<>>
    BY DEF CollectedAll
  <2>1. RxClosed /\ rx = <<>> /\ todo = <<>>
        /\ pc \in {"finish", "cleanup", "done", "panicked"}
    BY DEF CollectInv, EngineInv, SinkOwned
  <2>2. tee = <<>> /\ fheld = <<>>
    BY <2>1 DEF CollectInv, EngineInv, ForwardOwnsTee
  <2>3. collected \in Seq(Event)
    BY DEF CollectInv, CollectTypeOK
  <2>4. collected \o (<<>> \o <<>> \o <<>>) = collected
    BY <2>3, ConcatEmptySeq, EmptySeq
  <2> QED BY <2>1, <2>2, <2>4 DEF CollectInv, NoEventLost, InFlight
<1> QED BY <1>1, CollectInvariant, PTL

(* Post scripts and assertions run on the whole response: its head and its *)
(* final preview have passed the forward task before they start (run_driver *)
(* of the engine, which joins that task first).                            *)
THEOREM ScriptsSeeResponse == CollectSpec => []WholeResponseJudged
<1>1. CollectInv => WholeResponseJudged
  BY DEF CollectInv, EngineInv
<1> QED BY <1>1, CollectInvariant, PTL

-------------------------------------------------------------------------------
(* The agent: its pump, its history and its web client.                    *)

(* The pump leaves its loop when the engine's channel is closed and empty, *)
(* and goes on when the task has ended and the client was sent all.        *)
PumpPlace ==
    /\ pump = "recv" => Len(pheld) <= 1
    /\ pump # "recv" => RxClosed /\ rx = <<>>
    /\ pump \in {"close", "persist", "done"} => Finished
    /\ pump \in {"persist", "done"} => pheld = <<>>
    /\ sseTx <=> pump \in {"recv", "join", "close"}

(* The client that took the slot reads to the end or goes; as long as it   *)
(* has not gone, no send fails.                                            *)
ClientPlace ==
    /\ slot = "taken" => cpc # "accepted"
    /\ cpc \in {"reading", "fetch", "done"} => slot = "taken"
    /\ cpc \in {"fetch", "done"} => ~sseTx /\ sse = <<>>
    /\ cpc # "gone" => connected

(* What the client was sent, or is about to be.                            *)
Told == EventsOf(delivered) \union EventsOf(sse) \union EventsOf(pheld)
Panicking == pc = "panicked" /\ pump \in {"close", "persist", "done"}

(* The client is told what was emitted and the end of a panicked task, and *)
(* nothing else but that the body was cut.                                 *)
AllTold ==
    cpc # "gone" =>
        /\ EventsOf(emitted) \subseteq Told \union EventsOf(rx) \union EventsOf(fheld) \union EventsOf(tee)
        /\ Panicking => "failed" \in Told
ToldIsEmitted ==
    \A e \in Told : e \in EventsOf(emitted) \union {"warning"} \/ (Panicking /\ e \in {"failed", "stateFailed"})

Kept == (stored > 0 => chunks > 0) /\ (gotVars => req.post)

(* The history is written at the very end.                                 *)
Recorded ==
    /\ history # "none" => pump = "done" /\ pc = "done"
    /\ pump # "done" => ~blob /\ ~envSaved

PumpInv ==
    /\ EngineInv /\ TypeOK /\ StreamIsFaithful /\ PumpPlace /\ ClientPlace
    /\ AllTold /\ ToldIsEmitted /\ Kept /\ Recorded /\ HistoryMatchesOutcome

(* Once the task has ended, and once the channel is closed and empty,      *)
(* nothing more happens to them.                                           *)
LEMMA EndIsEnd ==
    ASSUME EngineInv, EngineNext
    PROVE  /\ RxClosed /\ rx = <<>> => (RxClosed /\ rx = <<>>)'
           /\ Finished => UNCHANGED <<pc, outcome>>
<1>1. ASSUME RxClosed, rx = <<>> PROVE (RxClosed /\ rx = <<>>)'
  <2>1. todo = <<>> /\ fwd # "recv" /\ fheld = <<>> /\ pc \in {"finish", "cleanup", "done", "panicked"}
    BY <1>1 DEF EngineInv, SinkOwned, ForwardOwnsTee
  <2>2. ~Emit /\ ~ForwardSend /\ ~SpawnForward
    BY <2>1 DEF Emit, ForwardSend, SpawnForward, At
  <2> QED
    BY <1>1, <2>1, <2>2 DEF EngineNext, TaskStep, DriverStep, ForwardStep, Begin, RunPreScripts, ResolveRequest, ApplyAuth,
       ValidateFails, DriverEnter, DriverCancel, DriverConnect, DriverConnectFails,
       DriverBackoff, DriverChunk, DriverStreamError, DriverStreamEnd, DriverReturn, JoinOk,
       RunPostScripts, RunAssertions, AssertionPanics, JoinErr, JoinCancelled, Finish, Cleanup,
       ForwardRecv, ForwardEnd, Cancel, taskOnly, driverOnly, At, RxClosed
<1>2. ASSUME Finished PROVE UNCHANGED <<pc, outcome>>
  BY <1>2 DEF Finished, EngineNext, TaskStep, DriverStep, ForwardStep, Emit, Begin, RunPreScripts, ResolveRequest, ApplyAuth,
     ValidateFails, SpawnForward, DriverEnter, DriverCancel, DriverConnect, DriverConnectFails,
     DriverBackoff, DriverChunk, DriverStreamError, DriverStreamEnd, DriverReturn, JoinOk,
     RunPostScripts, RunAssertions, AssertionPanics, JoinErr, JoinCancelled, Finish, Cleanup,
     ForwardRecv, ForwardSend, ForwardEnd, Cancel, At
<1> QED BY <1>1, <1>2

(* The engine only adds: to what was emitted, to the chunks, and to what   *)
(* is on its way what it emits.                                            *)
LEMMA EngineGrows ==
    ASSUME EngineInv, EngineNext, NEW X,
           EventsOf(emitted) \subseteq X \union EventsOf(rx) \union EventsOf(fheld) \union EventsOf(tee)
    PROVE  EventsOf(emitted') \subseteq X \union EventsOf(rx') \union EventsOf(fheld') \union EventsOf(tee')
<1>t. /\ rx \in Seq(Event) /\ fheld \in Seq(Event) /\ tee \in Seq(Event) /\ todo \in Seq(Event)
      /\ emitted \in Seq(Event) /\ Len(fheld) <= 1
  BY DEF EngineInv, EngineTypeOK
<1>1. CASE Emit
  <2> DEFINE e == Head(todo)
  <2>1. e \in Event
    BY <1>1, <1>t, HeadThenTail DEF Emit
  <2>2. /\ EventsOf(Append(emitted, e)) = EventsOf(emitted) \union {e}
        /\ EventsOf(Append(tee, e)) = EventsOf(tee) \union {e} /\ EventsOf(Append(rx, e)) = EventsOf(rx) \union {e}
    BY <1>t, <2>1, EventsMove
  <2> QED BY <1>1, <2>2 DEF Emit
<1>2. CASE ForwardRecv
  <2>1. /\ tee # <<>> /\ fheld = <<>> /\ fheld' = <<Head(tee)>> /\ tee' = Tail(tee) /\ UNCHANGED <<rx, emitted>>
    BY <1>2 DEF ForwardRecv
  <2>2. EventsOf(tee) = {Head(tee)} \union EventsOf(tee') /\ EventsOf(fheld') = {Head(tee)} /\ EventsOf(fheld) = {}
    BY <1>t, <2>1, EventsMove
  <2> QED BY <2>1, <2>2
<1>3. CASE ForwardSend
  <2>1. fheld # <<>> /\ fheld' = <<>> /\ rx' = Append(rx, Head(fheld)) /\ UNCHANGED <<tee, emitted>>
    BY <1>3 DEF ForwardSend
  <2>2. Head(fheld) \in Event /\ Tail(fheld) = <<>>
    BY <1>t, <2>1, HeadThenTail, EmptySeq
  <2>3. EventsOf(fheld) = {Head(fheld)} /\ EventsOf(rx') = EventsOf(rx) \union {Head(fheld)}
    BY ZenonT(60), <1>t, <2>1, <2>2, EventsMove
  <2> QED BY <2>1, <2>3
<1>4. EngineNext => Emit \/ ForwardRecv \/ ForwardSend \/ UNCHANGED <<emitted, rx, fheld, tee>>
  BY DEF EngineNext, TaskStep, DriverStep, ForwardStep, Begin, RunPreScripts, ResolveRequest, ApplyAuth,
     ValidateFails, SpawnForward, DriverEnter, DriverCancel, DriverConnect, DriverConnectFails,
     DriverBackoff, DriverChunk, DriverStreamError, DriverStreamEnd, DriverReturn, JoinOk,
     RunPostScripts, RunAssertions, AssertionPanics, JoinErr, JoinCancelled, Finish, Cleanup,
     ForwardEnd, Cancel, taskOnly, driverOnly
<1> QED BY <1>1, <1>2, <1>3, <1>4

LEMMA EngineKeepsOn ==
    ASSUME EngineInv, EngineNext
    PROVE  req' = req /\ (chunks > 0 => chunks' > 0) /\ EventsOf(emitted) \subseteq EventsOf(emitted')
<1>1. req' = req /\ (chunks' = chunks \/ chunks' = chunks + 1)
  BY DEF EngineNext, TaskStep, DriverStep, ForwardStep, Emit, Begin, RunPreScripts, ResolveRequest, ApplyAuth,
     ValidateFails, SpawnForward, DriverEnter, DriverCancel, DriverConnect, DriverConnectFails,
     DriverBackoff, DriverChunk, DriverStreamError, DriverStreamEnd, DriverReturn, JoinOk,
     RunPostScripts, RunAssertions, AssertionPanics, JoinErr, JoinCancelled, Finish, Cleanup,
     ForwardRecv, ForwardSend, ForwardEnd, Cancel, taskOnly, driverOnly
<1>2. chunks > 0 => chunks' > 0
  BY <1>1, BoundsAssumption DEF EngineInv, EngineTypeOK
<1>3. emitted' = emitted \/ (todo # <<>> /\ emitted' = Append(emitted, Head(todo)))
  BY DEF EngineNext, TaskStep, DriverStep, ForwardStep, Emit, Begin, RunPreScripts, ResolveRequest, ApplyAuth,
     ValidateFails, SpawnForward, DriverEnter, DriverCancel, DriverConnect, DriverConnectFails,
     DriverBackoff, DriverChunk, DriverStreamError, DriverStreamEnd, DriverReturn, JoinOk,
     RunPostScripts, RunAssertions, AssertionPanics, JoinErr, JoinCancelled, Finish, Cleanup,
     ForwardRecv, ForwardSend, ForwardEnd, Cancel, taskOnly, driverOnly
<1>4. EventsOf(emitted) \subseteq EventsOf(emitted')
  <2>1. emitted \in Seq(Event) /\ todo \in Seq(Event)
    BY DEF EngineInv, EngineTypeOK
  <2>2. CASE emitted' = emitted
    BY <2>2
  <2>3. CASE todo # <<>> /\ emitted' = Append(emitted, Head(todo))
    <3>1. Head(todo) \in Event
      BY <2>1, <2>3, HeadThenTail
    <3>2. EventsOf(Append(emitted, Head(todo))) = EventsOf(emitted) \union {Head(todo)}
      BY <2>1, <3>1, EventsMove
    <3> QED BY <2>3, <3>2
  <2> QED BY <1>3, <2>2, <2>3
<1> QED BY <1>1, <1>2, <1>4

LEMMA PumpStarts == Init => PumpInv
<1> SUFFICES ASSUME Init PROVE PumpInv
  OBVIOUS
<1>1. EngineInv /\ emitted = <<>> /\ InFlight = <<>>
  BY EngineStarts DEF Init
<1>2. <<>> \o <<>> = <<>> /\ <<>> \in Seq(Event) /\ Len(<<>>) = 0
  BY ConcatEmptySeq, EmptySeq
<1>3. TypeOK
  <2>1. /\ pump \in {"recv", "join", "close", "persist", "done"} /\ slot \in {"pending", "waiting", "taken"}
        /\ history \in {"none", "lost", "completed", "failed"}
        /\ cpc \in {"accepted", "reading", "fetch", "done", "gone"} /\ shown \in {"none", "preview", "body"}
    BY DEF Init
  <2>2. /\ connected \in BOOLEAN /\ truncated \in BOOLEAN /\ gotVars \in BOOLEAN /\ sseTx \in BOOLEAN
        /\ blob \in BOOLEAN /\ envSaved \in BOOLEAN
    BY DEF Init
  <2>3. /\ pheld \in Seq(Event) /\ Len(pheld) <= 2 /\ sse \in Seq(Event) /\ delivered \in Seq(Event)
        /\ Len(sse) <= SseCap /\ stored \in 0 .. MaxPersisted
    BY <1>2, AgentAssumption DEF Init
  <2> QED BY <1>1, <2>1, <2>2, <2>3 DEF TypeOK, EngineInv
<1>4. StreamIsFaithful
  BY <1>1, <1>2 DEF Init, StreamIsFaithful
<1>5. Told = {} /\ EventsOf(emitted) = {}
  BY <1>1, EventsMove DEF Init, Told
<1> QED
  BY <1>1, <1>2, <1>3, <1>4, <1>5 DEF Init, PumpInv, PumpPlace, ClientPlace, AllTold, ToldIsEmitted, Panicking, Kept, Recorded,
     HistoryMatchesOutcome

LEMMA EngineKeepsPump == ASSUME PumpInv, EngineNext, UNCHANGED agentVars PROVE PumpInv'
<1> USE DEF agentVars
<1>1. EngineInv'
  BY EngineStep DEF PumpInv
<1>2. TypeOK'
  BY <1>1 DEF PumpInv, TypeOK, EngineInv
<1>3. StreamIsFaithful'
  <2> SUFFICES ASSUME pump = "recv" /\ connected PROVE emitted' = delivered \o sse \o pheld \o InFlight'
    BY DEF StreamIsFaithful
  <2> DEFINE c == delivered \o sse \o pheld
  <2>1. delivered \in Seq(Event) /\ sse \in Seq(Event) /\ pheld \in Seq(Event)
    BY DEF PumpInv, TypeOK
  <2>2. delivered \o sse \in Seq(Event)
    BY <2>1, Closed
  <2>3. c \in Seq(Event)
    BY <2>1, <2>2, Closed, Zenon
  <2>4. emitted = c \o InFlight
    BY DEF PumpInv, StreamIsFaithful
  <2> HIDE DEF c
  <2>5. emitted' = c \o InFlight'
    BY <2>3, <2>4, EngineOrder DEF PumpInv, EngineInv
  <2> QED BY <2>5 DEF c
<1>4. Finished => UNCHANGED <<pc, outcome>>
  BY EndIsEnd DEF PumpInv
<1>5. PumpPlace' /\ ClientPlace'
  BY <1>4, EndIsEnd DEF PumpInv, PumpPlace, ClientPlace, Finished
<1>6. Told' = Told /\ Panicking' = Panicking
  <2>1. Told' = Told
    BY DEF Told
  <2>2. pump \in {"close", "persist", "done"} => pc' = pc
    BY <1>4 DEF PumpInv, PumpPlace
  <2> QED BY <2>1, <2>2 DEF Panicking
<1>7. AllTold'
  BY <1>6, EngineGrows DEF PumpInv, AllTold
<1>8. ToldIsEmitted'
  BY <1>6, EngineKeepsOn DEF PumpInv, ToldIsEmitted
<1>9. Kept'
  BY EngineKeepsOn DEF PumpInv, Kept
<1>10. pump = "done" => UNCHANGED <<pc, outcome>>
  BY <1>4 DEF PumpInv, PumpPlace
<1>11. Recorded' /\ HistoryMatchesOutcome'
  BY <1>10, EngineKeepsOn DEF PumpInv, Recorded, HistoryMatchesOutcome
<1> QED BY <1>1, <1>2, <1>3, <1>5, <1>7, <1>8, <1>9, <1>11 DEF PumpInv

(* The events left of the pipeline, one sequence less to take apart.       *)
LEMMA Front ==
    ASSUME NEW d \in Seq(Event), NEW s \in Seq(Event), NEW p \in Seq(Event)
    PROVE  d \o s \in Seq(Event) /\ d \o s \o p \in Seq(Event)
<1>1. d \o s \in Seq(Event)
  BY Closed
<1>2. (d \o s) \o p \in Seq(Event)
  BY <1>1, Closed, Zenon
<1> QED BY <1>1, <1>2

(* Sending the event that the pump holds, or reading one, moves it within  *)
(* what left the pipeline.                                                 *)
LEMMA SendMoves ==
    ASSUME NEW d \in Seq(Event), NEW s \in Seq(Event), NEW p \in Seq(Event), p # <<>>
    PROVE  d \o Append(s, Head(p)) \o Tail(p) = d \o s \o p
<1> DEFINE h == Head(p)
           t == Tail(p)
<1>1. h \in Event /\ t \in Seq(Event) /\ p = <<h>> \o t
  BY HeadThenTail
<1> HIDE DEF h, t
<1>2. <<h>> \in Seq(Event) /\ Append(s, h) = s \o <<h>> /\ d \o s \in Seq(Event)
  BY <1>1, Singleton, AppendIsConcat, Closed
<1>3. d \o (s \o <<h>>) = (d \o s) \o <<h>>
  BY <1>2, Assoc, ZenonT(60)
<1>4. ((d \o s) \o <<h>>) \o t = (d \o s) \o (<<h>> \o t)
  BY <1>1, <1>2, Assoc, ZenonT(60)
<1>5. d \o Append(s, h) \o t = d \o s \o p
  BY <1>1, <1>2, <1>3, <1>4, Zenon
<1> QED BY <1>5 DEF h, t

LEMMA ReadMoves ==
    ASSUME NEW d \in Seq(Event), NEW s \in Seq(Event), s # <<>>
    PROVE  Append(d, Head(s)) \o Tail(s) = d \o s
<1> DEFINE h == Head(s)
           t == Tail(s)
<1>1. h \in Event /\ t \in Seq(Event) /\ s = <<h>> \o t
  BY HeadThenTail
<1> HIDE DEF h, t
<1>2. <<h>> \in Seq(Event) /\ Append(d, h) = d \o <<h>>
  BY <1>1, Singleton, AppendIsConcat
<1>3. (d \o <<h>>) \o t = d \o (<<h>> \o t)
  BY <1>1, <1>2, Assoc, ZenonT(60)
<1>4. Append(d, h) \o t = d \o s
  BY <1>1, <1>2, <1>3, Zenon
<1> QED BY <1>4 DEF h, t

(* The pump receives: from the channel to its hand, or away if the client  *)
(* has gone.                                                               *)
LEMMA ReceiveKeepsPump == ASSUME PumpInv, PumpRecv PROVE PumpInv'
<1>t. /\ rx \in Seq(Event) /\ fheld \in Seq(Event) /\ tee \in Seq(Event) /\ rx # <<>>
      /\ delivered \in Seq(Event) /\ sse \in Seq(Event) /\ pheld = <<>> /\ pump = "recv"
      /\ stored \in 0 .. MaxPersisted /\ MaxPersisted \in Nat
      /\ truncated \in BOOLEAN /\ gotVars \in BOOLEAN /\ connected \in BOOLEAN
  BY AgentAssumption DEF PumpInv, TypeOK, EngineTypeOK, PumpRecv
<1> DEFINE h == Head(rx)
<1>h. h \in Event
  BY <1>t, HeadThenTail
<1>v. UNCHANGED <<req, pc, todo, tee, fwd, fheld, seen, sink, attempt, chunks, token, active, outcome, emitted, pump,
                  connected, sse, sseTx, slot, history, blob, envSaved, cpc, delivered, shown>>
  BY DEF PumpRecv, storeVars, clientVars
<1>u. rx' = Tail(rx) /\ pheld' = IF connected THEN <<h>> ELSE <<>>
  BY DEF PumpRecv
<1>s. /\ stored' = IF h = "chunk" /\ stored < MaxPersisted THEN stored + 1 ELSE stored
      /\ truncated' = (truncated \/ (h = "chunk" /\ stored = MaxPersisted))
      /\ gotVars' = (gotVars \/ h = "vars")
  BY DEF PumpRecv
<1>m. EventsOf(rx) = {h} \union EventsOf(rx')
  BY <1>t, <1>u, EventsMove
<1> HIDE DEF h
<1>e. h \in EventsOf(emitted)
  BY <1>m DEF PumpInv, EngineInv, Carried
<1>1. EngineInv'
  BY <1>t, <1>u, <1>v, EngineStays DEF PumpInv
<1>2. TypeOK'
  <2>1. stored' \in 0 .. MaxPersisted
    BY <1>t, <1>s
  <2>2. truncated' \in BOOLEAN /\ gotVars' \in BOOLEAN
    BY <1>s
  <2>3. pheld' \in Seq(Event) /\ Len(pheld') <= 2
    BY <1>h, <1>u
  <2> QED BY <1>1, <1>v, <2>1, <2>2, <2>3 DEF PumpInv, TypeOK, EngineInv
<1>3. StreamIsFaithful'
  <2> SUFFICES ASSUME connected PROVE emitted = delivered \o sse \o <<h>> \o (Tail(rx) \o fheld \o tee)
    BY <1>v, <1>u DEF StreamIsFaithful, InFlight
  <2> DEFINE c == delivered \o sse
  <2>1. c \in Seq(Event)
    BY <1>t, Closed
  <2>2. c \o <<>> = c
    BY <2>1, ConcatEmptySeq
  <2>3. emitted = Pipe(c, rx, fheld, tee)
    BY <1>t, <2>2, Zenon DEF PumpInv, StreamIsFaithful, InFlight, Pipe
  <2> HIDE DEF c
  <2>4. emitted = Pipe(Append(c, h), Tail(rx), fheld, tee)
    BY <1>t, <2>1, <2>3, TakeFromRx DEF h
  <2>5. Append(c, h) = c \o <<h>>
    BY <1>h, <2>1, AppendIsConcat
  <2> QED BY <2>4, <2>5, Zenon DEF Pipe, c
<1>4. Panicking' = Panicking
  BY <1>v DEF Panicking
<1>5. Told' = Told \union (IF connected THEN {h} ELSE {})
  <2>1. EventsOf(pheld) = {} /\ EventsOf(pheld') = IF connected THEN {h} ELSE {}
    BY <1>t, <1>u, EventsMove
  <2> QED BY <1>v, <2>1 DEF Told
<1>6. PumpPlace' /\ ClientPlace'
  BY <1>v, <1>u, <1>t DEF PumpInv, PumpPlace, ClientPlace
<1>7. AllTold'
  BY <1>v, <1>m, <1>4, <1>5 DEF PumpInv, AllTold, ClientPlace
<1>8. ToldIsEmitted'
  BY <1>v, <1>4, <1>5, <1>e DEF PumpInv, ToldIsEmitted
<1>9. Kept'
  <2>1. h = "chunk" => chunks > 0
    BY <1>e DEF PumpInv, EngineInv, Content, Sent
  <2>2. h = "vars" => req.post
    BY <1>e DEF PumpInv, EngineInv, Content, Sent
  <2>3. stored' > 0 => chunks' > 0
    BY <1>t, <1>s, <1>v, <2>1 DEF PumpInv, Kept
  <2>4. gotVars' => req'.post
    BY <1>s, <1>v, <2>2 DEF PumpInv, Kept
  <2> QED BY <2>3, <2>4 DEF Kept
<1>10. Recorded' /\ HistoryMatchesOutcome'
  BY <1>v DEF PumpInv, Recorded, HistoryMatchesOutcome
<1> QED BY <1>1, <1>2, <1>3, <1>6, <1>7, <1>8, <1>9, <1>10 DEF PumpInv

(* The pump sends what it holds.  A client that has read to the end has    *)
(* seen the channel closed, when the pump held nothing: only one that has  *)
(* gone makes a send fail.                                                 *)
LEMMA SendKeepsPump == ASSUME PumpInv, PumpSend PROVE PumpInv'
<1>t. /\ delivered \in Seq(Event) /\ sse \in Seq(Event) /\ pheld \in Seq(Event) /\ pheld # <<>>
      /\ Len(sse) <= SseCap /\ Len(pheld) <= 2 /\ SseCap \in Nat /\ connected \in BOOLEAN
  BY AgentAssumption DEF PumpInv, TypeOK, PumpSend
<1>v. /\ UNCHANGED <<req, pc, todo, tee, rx, fwd, fheld, seen, sink, attempt, chunks, token, active, outcome, emitted>>
      /\ UNCHANGED <<pump, stored, truncated, gotVars, sseTx, slot, history, blob, envSaved, cpc, delivered, shown>>
  BY DEF PumpSend, engineVars, storeVars, clientVars
<1>u. pheld' = Tail(pheld)
  BY DEF PumpSend
<1>h. /\ Head(pheld) \in Event /\ Tail(pheld) \in Seq(Event)
      /\ Len(Tail(pheld)) = Len(pheld) - 1 /\ Len(pheld) \in Nat \ {0}
      /\ EventsOf(pheld) = {Head(pheld)} \union EventsOf(Tail(pheld))
  BY <1>t, HeadThenTail, EventsMove
<1>1. EngineInv'
  BY <1>v, EngineStays DEF PumpInv
<1>2. CASE ReceiverAlive
  <2>1. sse' = Append(sse, Head(pheld)) /\ connected' = connected /\ Len(sse) < SseCap
    BY <1>2 DEF PumpSend, SseRoom
  <2>2. sse' \in Seq(Event) /\ Len(sse') <= SseCap /\ EventsOf(sse') = EventsOf(sse) \union {Head(pheld)}
    BY <1>t, <1>h, <2>1, EventsMove, AppendProperties, LenProperties
  <2>3. TypeOK'
    BY <1>1, <1>v, <1>u, <1>h, <1>t, <2>1, <2>2 DEF PumpInv, TypeOK, EngineInv
  <2>4. StreamIsFaithful'
    <3>1. delivered \o sse' \o pheld' = delivered \o sse \o pheld
      BY <1>t, <1>u, <2>1, SendMoves
    <3>2. InFlight' = InFlight
      BY <1>v DEF InFlight
    <3> QED BY <1>v, <2>1, <3>1, <3>2 DEF PumpInv, StreamIsFaithful
  <2>5. Told' = Told
    BY <1>h, <1>v, <1>u, <2>2 DEF Told
  <2>6. PumpPlace'
    BY <1>v, <1>u, <1>h, <1>t DEF PumpInv, PumpPlace, RxClosed, Finished
  <2>7. ClientPlace'
    <3>1. cpc \notin {"fetch", "done"}
      BY <1>t DEF PumpInv, ClientPlace, PumpPlace, TypeOK
    <3> QED BY <1>v, <2>1, <3>1 DEF PumpInv, ClientPlace
  <2>8. AllTold' /\ ToldIsEmitted' /\ Kept' /\ Recorded' /\ HistoryMatchesOutcome'
    BY <1>v, <2>5 DEF PumpInv, AllTold, ToldIsEmitted, Kept, Recorded, HistoryMatchesOutcome, Panicking
  <2> QED BY <1>1, <2>3, <2>4, <2>6, <2>7, <2>8 DEF PumpInv
<1>3. CASE ~ReceiverAlive
  <2>1. sse' = sse /\ connected' = (connected /\ pump # "recv")
    BY <1>3 DEF PumpSend
  <2>2. slot = "taken" /\ cpc # "reading"
    BY <1>3 DEF ReceiverAlive
  <2>3. cpc = "gone"
    BY <2>2, <1>t DEF PumpInv, ClientPlace, PumpPlace, TypeOK
  <2>4. connected' \in BOOLEAN
    BY <2>1
  <2>5. TypeOK'
    BY <1>1, <1>v, <1>u, <1>h, <1>t, <2>1, <2>4 DEF PumpInv, TypeOK, EngineInv
  <2>6. StreamIsFaithful'
    BY <1>v, <2>1 DEF StreamIsFaithful
  <2>7. Told' \subseteq Told
    BY <1>h, <1>v, <1>u, <2>1 DEF Told
  <2>8. PumpPlace'
    BY <1>v, <1>u, <1>h, <1>t DEF PumpInv, PumpPlace, RxClosed, Finished
  <2>9. ClientPlace' /\ AllTold' /\ ToldIsEmitted'
    BY <1>v, <2>3, <2>7 DEF PumpInv, ClientPlace, AllTold, ToldIsEmitted, Panicking
  <2>10. Kept' /\ Recorded' /\ HistoryMatchesOutcome'
    BY <1>v DEF PumpInv, Kept, Recorded, HistoryMatchesOutcome
  <2> QED BY <1>1, <2>5, <2>6, <2>8, <2>9, <2>10 DEF PumpInv
<1> QED BY <1>2, <1>3

(* The pump leaves its loop, joins the task and closes the stream.         *)
LEMMA DrainKeepsPump == ASSUME PumpInv, PumpDrained \/ PumpJoin PROVE PumpInv'
<1>v. /\ UNCHANGED <<req, pc, todo, tee, rx, fwd, fheld, seen, sink, attempt, chunks, token, active, outcome, emitted>>
      /\ UNCHANGED <<connected, stored, truncated, gotVars, sse, sseTx, slot, history, blob, envSaved, cpc, delivered, shown>>
  BY DEF PumpDrained, PumpJoin, engineVars, storeVars, clientVars
<1>t. pheld = <<>> /\ EventsOf(<<>>) = {}
  BY EventsMove DEF PumpDrained, PumpJoin
<1>1. EngineInv'
  BY <1>v, EngineStays DEF PumpInv
<1>p. <<"warning">> \in Seq(Event) /\ Len(<<"warning">>) <= 2 /\ <<>> \in Seq(Event) /\ Len(<<>>) <= 2
      /\ PanicEvents \in Seq(Event) /\ Len(PanicEvents) <= 2 /\ EventsOf(<<"warning">>) = {"warning"}
  BY EventsMove DEF Event, PanicEvents
<1>q. EventsOf(PanicEvents) = {"failed", "stateFailed"}
  BY DEF EventsOf, PanicEvents
<1>2. /\ pheld' \in Seq(Event) /\ Len(pheld') <= 2
      /\ pump' \in {"join", "close"}
  BY <1>p DEF PumpDrained, PumpJoin
<1>3. TypeOK'
  BY <1>1, <1>v, <1>2 DEF PumpInv, TypeOK, EngineInv
<1>4. StreamIsFaithful'
  BY <1>2 DEF StreamIsFaithful
<1>5. PumpPlace' /\ ClientPlace'
  BY <1>v DEF PumpInv, PumpPlace, ClientPlace, RxClosed, Finished, PumpDrained, PumpJoin
<1>6. ASSUME PumpDrained PROVE AllTold' /\ ToldIsEmitted'
  <2>1. Told' = Told \union EventsOf(pheld') /\ EventsOf(pheld') \subseteq {"warning"}
    BY <1>6, <1>v, <1>t, <1>p DEF Told, PumpDrained
  <2>2. ~Panicking /\ ~Panicking'
    BY <1>6 DEF PumpDrained, Panicking
  <2> QED BY <1>v, <2>1, <2>2 DEF PumpInv, AllTold, ToldIsEmitted
<1>7. ASSUME PumpJoin PROVE AllTold' /\ ToldIsEmitted'
  <2>1. Told' = Told \union EventsOf(pheld')
    BY <1>v, <1>t DEF Told
  <2>2. Panicking' = (pc = "panicked") /\ ~Panicking
    BY <1>7, <1>v DEF PumpJoin, Panicking
  <2>3. EventsOf(pheld') = IF pc = "panicked" THEN {"failed", "stateFailed"} ELSE {}
    BY <1>7, <1>q, <1>t DEF PumpJoin
  <2> QED BY <1>v, <2>1, <2>2, <2>3 DEF PumpInv, AllTold, ToldIsEmitted
<1>8. Kept' /\ Recorded' /\ HistoryMatchesOutcome'
  BY <1>v, <1>2 DEF PumpInv, Kept, Recorded, HistoryMatchesOutcome, PumpDrained, PumpJoin
<1>9. AllTold' /\ ToldIsEmitted'
  BY <1>6, <1>7
<1> QED BY <1>1, <1>3, <1>4, <1>5, <1>8, <1>9 DEF PumpInv

(* The stream closes when all of it was sent.                              *)
LEMMA CloseKeepsPump == ASSUME PumpInv, PumpClose PROVE PumpInv'
<1>v. /\ UNCHANGED <<req, pc, todo, tee, rx, fwd, fheld, seen, sink, attempt, chunks, token, active, outcome, emitted>>
      /\ UNCHANGED <<pheld, connected, stored, truncated, gotVars, sse, slot, history, blob, envSaved, cpc, delivered, shown>>
      /\ pump = "close" /\ pheld = <<>> /\ pump' = "persist" /\ sseTx' = FALSE
  BY DEF PumpClose, engineVars, storeVars, clientVars
<1>1. EngineInv'
  BY <1>v, EngineStays DEF PumpInv
<1>2. TypeOK'
  <2>1. sseTx' \in BOOLEAN /\ pump' \in {"recv", "join", "close", "persist", "done"}
    BY <1>v
  <2> QED BY <2>1, <1>1, <1>v DEF PumpInv, TypeOK, EngineInv
<1>3. Told' = Told /\ Panicking' = Panicking
  BY <1>v DEF Told, Panicking
<1>4. StreamIsFaithful' /\ PumpPlace' /\ ClientPlace'
  BY <1>v DEF PumpInv, StreamIsFaithful, PumpPlace, ClientPlace, RxClosed, Finished
<1>5. AllTold' /\ ToldIsEmitted'
  BY <1>v, <1>3 DEF PumpInv, AllTold, ToldIsEmitted
<1>6. Kept' /\ Recorded' /\ HistoryMatchesOutcome'
  BY <1>v DEF PumpInv, Kept, Recorded, HistoryMatchesOutcome
<1> QED BY <1>1, <1>2, <1>4, <1>5, <1>6 DEF PumpInv

(* The history is written from the result of the task, and a panicked task *)
(* has none.                                                               *)
LEMMA PersistKeepsPump == ASSUME PumpInv, PumpPersist PROVE PumpInv'
<1>v. /\ UNCHANGED <<req, pc, todo, tee, rx, fwd, fheld, seen, sink, attempt, chunks, token, active, outcome, emitted>>
      /\ UNCHANGED <<pheld, connected, stored, truncated, gotVars, sse, sseTx, slot, cpc, delivered, shown>>
      /\ pump = "persist" /\ pump' = "done"
  BY DEF PumpPersist, engineVars, clientVars
<1>1. EngineInv'
  BY <1>v, EngineStays DEF PumpInv
<1>m. \A b \in MayFail : b \in BOOLEAN
  BY DEF MayFail
<1>w. ~blob /\ ~envSaved /\ history = "none" /\ stored \in Nat /\ chunks \in Nat /\ gotVars \in BOOLEAN
      /\ blob \in BOOLEAN /\ envSaved \in BOOLEAN /\ (stored > 0 => chunks > 0) /\ (gotVars => req.post)
  BY <1>v, AgentAssumption, BoundsAssumption DEF PumpInv, Recorded, TypeOK, EngineTypeOK, Kept
<1>2. /\ history' \in {"none", "lost", "completed", "failed"} /\ blob' \in BOOLEAN /\ envSaved' \in BOOLEAN
      /\ history' # "none" => pc = "done"
      /\ history' = "completed" => outcome = "ok"
      /\ blob' => history' = "completed" /\ chunks > 0
      /\ envSaved' => req.post /\ outcome = "ok"
      /\ pc = "done" => history' # "none"
  <2>1. CASE pc = "done" /\ outcome = "ok" /\ PersistOk
    <3>1. PICK bf \in MayFail, rf \in MayFail, em \in BOOLEAN :
             /\ history' = IF rf THEN "lost" ELSE "completed"
             /\ blob' = (stored > 0 /\ ~bf /\ ~rf)
             /\ envSaved' = (gotVars /\ ~em)
      BY <2>1 DEF PersistOk
    <3>2. rf \in BOOLEAN /\ bf \in BOOLEAN
      BY <1>m
    <3>3. blob' \in BOOLEAN /\ envSaved' \in BOOLEAN
      BY <3>1
    <3>4. envSaved' => gotVars
      BY <3>1
    <3>5. blob' => stored > 0 /\ ~rf
      BY <3>1
    <3> QED BY <2>1, <3>1, <3>2, <3>3, <3>4, <3>5, <1>w
  <2>2. CASE pc = "done" /\ outcome # "ok" /\ PersistErr
    BY <2>2, <1>w, <1>m DEF PersistErr
  <2>3. CASE pc = "panicked" /\ UNCHANGED storeVars
    BY <2>3, <1>w DEF storeVars
  <2> QED BY <2>1, <2>2, <2>3 DEF PumpPersist
<1>3. TypeOK'
  BY <1>1, <1>2, <1>v DEF PumpInv, TypeOK, EngineInv
<1>4. Told' = Told /\ Panicking' = Panicking
  BY <1>v DEF Told, Panicking
<1>5. StreamIsFaithful' /\ PumpPlace' /\ ClientPlace'
  BY <1>v DEF PumpInv, StreamIsFaithful, PumpPlace, ClientPlace, RxClosed, Finished
<1>6. AllTold' /\ ToldIsEmitted'
  BY <1>v, <1>4 DEF PumpInv, AllTold, ToldIsEmitted
<1>7. Kept' /\ Recorded' /\ HistoryMatchesOutcome'
  BY <1>v, <1>w, <1>2 DEF Kept, Recorded, HistoryMatchesOutcome
<1> QED BY <1>1, <1>3, <1>5, <1>6, <1>7 DEF PumpInv

(* Registering, subscribing, the end of the stream, fetching the body and  *)
(* leaving move no event.                                                  *)
LEMMA ClientKeepsPump ==
    ASSUME PumpInv, RegisterSlot \/ ClientSubscribe \/ ClientEnd \/ ClientFetchBody \/ ClientLeave
    PROVE  PumpInv'
<1>v. /\ UNCHANGED <<req, pc, todo, tee, rx, fwd, fheld, seen, sink, attempt, chunks, token, active, outcome, emitted>>
      /\ UNCHANGED <<pump, pheld, connected, stored, truncated, gotVars, sse, sseTx, history, blob, envSaved, delivered>>
  BY DEF RegisterSlot, ClientSubscribe, ClientEnd, ClientFetchBody, ClientLeave, engineVars, pumpVars, storeVars, clientVars
<1>1. EngineInv'
  BY <1>v, EngineStays DEF PumpInv
<1>2. /\ slot' \in {"pending", "waiting", "taken"} /\ cpc' \in {"accepted", "reading", "fetch", "done", "gone"}
      /\ shown' \in {"none", "preview", "body"}
  BY DEF RegisterSlot, ClientSubscribe, ClientEnd, ClientFetchBody, ClientLeave, clientVars, PumpInv, TypeOK
<1>3. TypeOK'
  BY <1>1, <1>2, <1>v DEF PumpInv, TypeOK, EngineInv
<1>4. Told' = Told /\ Panicking' = Panicking /\ InFlight' = InFlight
  BY <1>v DEF Told, Panicking, InFlight
<1>5. StreamIsFaithful' /\ PumpPlace'
  BY <1>v, <1>4 DEF PumpInv, StreamIsFaithful, PumpPlace, RxClosed, Finished
<1>6. ClientPlace' /\ (cpc' # "gone" => cpc # "gone")
  BY <1>v DEF PumpInv, TypeOK, ClientPlace, RegisterSlot, ClientSubscribe, ClientEnd, ClientFetchBody, ClientLeave, clientVars
<1>7. AllTold' /\ ToldIsEmitted'
  BY <1>v, <1>4, <1>6 DEF PumpInv, AllTold, ToldIsEmitted
<1>8. Kept' /\ Recorded' /\ HistoryMatchesOutcome'
  BY <1>v DEF PumpInv, Kept, Recorded, HistoryMatchesOutcome
<1> QED BY <1>1, <1>3, <1>5, <1>6, <1>7, <1>8 DEF PumpInv

(* The client reads the next event.                                        *)
LEMMA ReadKeepsPump == ASSUME PumpInv, ClientRead PROVE PumpInv'
<1>v. /\ UNCHANGED <<req, pc, todo, tee, rx, fwd, fheld, seen, sink, attempt, chunks, token, active, outcome, emitted>>
      /\ UNCHANGED <<pump, pheld, connected, stored, truncated, gotVars, sseTx, slot, history, blob, envSaved, cpc, shown>>
      /\ delivered' = Append(delivered, Head(sse)) /\ sse' = Tail(sse) /\ sse # <<>> /\ cpc = "reading"
  BY DEF ClientRead, engineVars, pumpVars, storeVars
<1>t. sse \in Seq(Event) /\ delivered \in Seq(Event) /\ Len(sse) <= SseCap /\ SseCap \in Nat
  BY AgentAssumption DEF PumpInv, TypeOK
<1>h. /\ Head(sse) \in Event /\ Tail(sse) \in Seq(Event) /\ Len(Tail(sse)) = Len(sse) - 1 /\ Len(sse) \in Nat
      /\ Append(delivered, Head(sse)) \in Seq(Event)
  BY <1>v, <1>t, HeadThenTail, AppendProperties
<1>1. EngineInv'
  BY <1>v, EngineStays DEF PumpInv
<1>2. TypeOK'
  <2>1. sse' \in Seq(Event) /\ delivered' \in Seq(Event) /\ Len(sse') <= SseCap
    BY <1>v, <1>t, <1>h
  <2> QED BY <2>1, <1>1, <1>v DEF PumpInv, TypeOK, EngineInv
<1>3. Told' = Told
  <2>1. EventsOf(sse) = {Head(sse)} \union EventsOf(sse')
    BY <1>v, <1>t, EventsMove
  <2>2. EventsOf(delivered') = EventsOf(delivered) \union {Head(sse)}
    BY <1>v, <1>t, <1>h, EventsMove
  <2> QED BY <1>v, <2>1, <2>2 DEF Told
<1>4. StreamIsFaithful'
  <2>1. delivered' \o sse' = delivered \o sse
    BY <1>v, <1>t, ReadMoves
  <2> QED BY <1>v, <2>1 DEF PumpInv, StreamIsFaithful, InFlight
<1>5. PumpPlace' /\ ClientPlace'
  BY <1>v DEF PumpInv, PumpPlace, ClientPlace, RxClosed, Finished
<1>6. AllTold' /\ ToldIsEmitted'
  BY <1>v, <1>3 DEF PumpInv, AllTold, ToldIsEmitted, Panicking
<1>7. Kept' /\ Recorded' /\ HistoryMatchesOutcome'
  BY <1>v DEF PumpInv, Kept, Recorded, HistoryMatchesOutcome
<1> QED BY <1>1, <1>2, <1>4, <1>5, <1>6, <1>7 DEF PumpInv

LEMMA PumpKeeps == PumpInv /\ [Next]_vars => PumpInv'
<1> SUFFICES ASSUME PumpInv, [Next]_vars PROVE PumpInv'
  OBVIOUS
<1>1. CASE (TaskStep \/ ForwardStep \/ Cancel) /\ UNCHANGED agentVars
  BY <1>1, EngineKeepsPump DEF EngineNext
<1>2. CASE PumpStep
  BY <1>2, ReceiveKeepsPump, SendKeepsPump, DrainKeepsPump, CloseKeepsPump, PersistKeepsPump DEF PumpStep
<1>3. CASE RegisterSlot \/ ClientStep \/ ClientLeave
  BY <1>3, ClientKeepsPump, ReadKeepsPump DEF ClientStep
<1>4. CASE UNCHANGED vars
  <2>v. /\ UNCHANGED <<req, pc, todo, tee, rx, fwd, fheld, seen, sink, attempt, chunks, token, active, outcome, emitted>>
        /\ UNCHANGED <<pump, pheld, connected, stored, truncated, gotVars, sse, sseTx, slot, history, blob, envSaved, cpc,
                       delivered, shown>>
    BY <1>4 DEF vars
  <2>1. EngineInv'
    BY <2>v, EngineStays DEF PumpInv
  <2>2. TypeOK' /\ StreamIsFaithful' /\ PumpPlace' /\ ClientPlace'
    BY <2>v, <2>1 DEF PumpInv, TypeOK, StreamIsFaithful, InFlight, PumpPlace, ClientPlace, RxClosed, Finished, EngineInv
  <2>3. AllTold' /\ ToldIsEmitted' /\ Kept' /\ Recorded' /\ HistoryMatchesOutcome'
    BY <2>v DEF PumpInv, AllTold, ToldIsEmitted, Told, Panicking, Kept, Recorded, HistoryMatchesOutcome
  <2> QED BY <2>1, <2>2, <2>3 DEF PumpInv
<1> QED BY <1>1, <1>2, <1>3, <1>4 DEF Next, AgentCancel

LEMMA PumpInvariant == Spec => []PumpInv
  BY PumpStarts, PumpKeeps, PTL DEF Spec

(* The agent's and the client's state keep their types: the pump holds at  *)
(* most two events, the SSE channel SseCap and the blob MaxPersisted       *)
(* chunks.                                                                 *)
THEOREM AgentTypes == Spec => []TypeOK
<1>1. PumpInv => TypeOK
  BY DEF PumpInv
<1> QED BY <1>1, PumpInvariant, PTL

(* Through three channels and two copying tasks the events reach the web   *)
(* client exactly once and in order (start_execution's pump).              *)
THEOREM StreamReachesClient == Spec => []StreamIsFaithful
<1>1. PumpInv => StreamIsFaithful
  BY DEF PumpInv
<1> QED BY <1>1, PumpInvariant, PTL

(* What the pump stores agrees with how the task ended, although it stores *)
(* it after the stream was closed and the task joined.                     *)
THEOREM HistoryIsTrue == Spec => []HistoryMatchesOutcome
<1>1. PumpInv => HistoryMatchesOutcome
  BY DEF PumpInv
<1> QED BY <1>1, PumpInvariant, PTL

(* A client that has read the stream to its end shows the verdict of the   *)
(* engine and of the history, which may not be written yet.                *)
THEOREM ClientHearsVerdict == Spec => []ClientToldVerdict
<1>1. PumpInv => ClientToldVerdict
  <2> SUFFICES ASSUME PumpInv, cpc \in {"fetch", "done"}
               PROVE  /\ history = "completed" => ClientState = "completed"
                      /\ outcome \notin {"ok", "cancelled"} => ClientError
                      /\ outcome = "cancelled" /\ req.driver # "websocket" => ClientState = "failed"
    BY DEF ClientToldVerdict
  <2> DEFINE D == EventsOf(delivered)
  <2>1. sse = <<>> /\ pheld = <<>> /\ rx = <<>> /\ RxClosed /\ Finished /\ pump \in {"persist", "done"}
    BY DEF PumpInv, ClientPlace, PumpPlace, TypeOK
  <2>2. todo = <<>> /\ tee = <<>> /\ fheld = <<>>
    BY <2>1 DEF PumpInv, EngineInv, SinkOwned, ForwardOwnsTee, Finished
  <2>3. Told = D /\ Sent = EventsOf(emitted)
    BY <2>1, <2>2, EventsMove DEF Told, Sent
  <2>4. /\ EventsOf(emitted) \subseteq D
        /\ pc = "panicked" => "failed" \in D
    BY <2>1, <2>2, <2>3, EventsMove DEF PumpInv, AllTold, Panicking
  <2>5. \A e \in D : e \in Sent \union {"warning"} \/ (pc = "panicked" /\ e \in {"failed", "stateFailed"})
    BY <2>3 DEF PumpInv, ToldIsEmitted, Panicking
  <2>6. \A e : Has(e, delivered) <=> e \in D
    BY DEF Has, EventsOf
  <2> HIDE DEF D
  <2>7. ClientError <=> "failed" \in D \/ "cancelled" \in D
    BY <2>6 DEF ClientError
  <2>8. ClientState = IF "completed" \in D \/ ~ClientError THEN "completed" ELSE "failed"
    BY <2>6 DEF ClientState
  <2>9. pc \in {"done", "panicked"} /\ Verdict /\ outcome \in Outcomes
    BY <2>1 DEF Finished, PumpInv, EngineInv, EngineTypeOK
  <2>10. ASSUME history = "completed" PROVE ClientState = "completed"
    <3>1. pc = "done" /\ outcome = "ok"
      BY <2>10 DEF PumpInv, Recorded, HistoryMatchesOutcome
    <3>2. "failed" \notin D /\ "cancelled" \notin D
      BY <2>5, <2>9, <3>1 DEF Verdict, Failures, Cancelling
    <3> QED BY <2>7, <2>8, <3>2
  <2>11. ASSUME outcome \notin {"ok", "cancelled"} PROVE ClientError
    <3>1. CASE outcome = "none"
      BY <3>1, <2>4, <2>7, <2>9 DEF Verdict, Ends
    <3>2. CASE outcome \in Failures
      BY <3>2, <2>3, <2>4, <2>7, <2>9 DEF Verdict
    <3> QED BY <2>9, <2>11, <3>1, <3>2 DEF Outcomes, Failures
  <2>12. ASSUME outcome = "cancelled", req.driver # "websocket" PROVE ClientState = "failed"
    <3>1. "cancelled" \in D
      BY <2>3, <2>4, <2>9, <2>12 DEF Verdict, Cancelling
    <3>2. "completed" \notin D
      BY <2>5, <2>9, <2>12 DEF Verdict
    <3> QED BY <2>7, <2>8, <3>1, <3>2
  <2> QED BY <2>10, <2>11, <2>12
<1> QED BY <1>1, PumpInvariant, PTL
================================================================================
