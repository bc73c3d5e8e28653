------------------------------- MODULE Dispatch -------------------------------
(***************************************************************************)
(* How the desktop's workbenches follow their executions.  The backend     *)
(* announces an execution with the event "execution-started" and streams   *)
(* it with "execution-event", both to the whole window: every send under   *)
(* way listens to all of them.  A send takes the execution announced last  *)
(* for its own, and drops the events of any other.                         *)
(***************************************************************************)
EXTENDS Naturals, Sequences

CONSTANTS
    Senders,     \* sends under way at the same time
    Streaming,   \* those of HTTP, SSE and WebSocket workbenches, which show events
    NoExecution

ASSUME DispatchAssumption == Streaming \subseteq Senders /\ NoExecution \notin Nat

VARIABLES
    sends,       \* each sender: its listeners, and what they told the workbench
    executions,  \* the executions of the backend: the sender each one is of, and its progress
    cancelled    \* history: who cancelled which execution

dispatchVars == <<sends, executions, cancelled>>

(* activeExecutionId decides which events are shown, cancelId which        *)
(* execution the cancel button names.  crossed is history: another         *)
(* execution was announced during this send.                               *)
Silent == [listening |-> FALSE, activeExecutionId |-> NoExecution, cancelId |-> NoExecution,
           shown |-> {}, crossed |-> FALSE]

DispatchInit == sends = [s \in Senders |-> Silent] /\ executions = <<>> /\ cancelled = {}

(* onSend: both listeners are installed, then the command is invoked.      *)
SendStarts ==
    \E s \in Senders :
        /\ ~sends[s].listening
        /\ sends' = [sends EXCEPT ![s] = [Silent EXCEPT !.listening = TRUE]]
        /\ executions' = Append(executions, [of |-> s, state |-> "invoked"])
        /\ UNCHANGED cancelled

(* The listener of "execution-started", in every send under way.           *)
Heard(s, e) ==
    IF ~sends[s].listening THEN sends[s]
    ELSE [sends[s] EXCEPT !.activeExecutionId = e, !.cancelId = e,
                          !.crossed = @ \/ executions[e].of # s]

ExecutionStarted ==
    \E e \in DOMAIN executions :
        /\ executions[e].state = "invoked"
        /\ executions' = [executions EXCEPT ![e].state = "started"]
        /\ sends' = [s \in Senders |-> Heard(s, e)]
        /\ UNCHANGED cancelled

ShowsAny(s, e) == TRUE                    \* mutant: events are not filtered by execution
Shows(s, e) == sends[s].activeExecutionId = e

(* The listener of "execution-event".                                      *)
ExecutionEvent ==
    \E e \in DOMAIN executions :
        /\ executions[e].state = "started"
        /\ sends' = [s \in Senders |-> IF s \in Streaming /\ sends[s].listening /\ Shows(s, e)
                                       THEN [sends[s] EXCEPT !.shown = @ \union {e}] ELSE sends[s]]
        /\ UNCHANGED <<executions, cancelled>>

(* The command returns, or fails before or after it was announced: the     *)
(* listeners are removed.                                                  *)
CommandReturned ==
    \E e \in DOMAIN executions :
        /\ executions[e].state # "done"
        /\ executions' = [executions EXCEPT ![e].state = "done"]
        /\ sends' = [sends EXCEPT ![executions[e].of] = Silent]
        /\ UNCHANGED cancelled

(* onCancel, with the id the workbench was told last.                      *)
Cancel ==
    \E s \in Senders :
        /\ sends[s].listening /\ sends[s].cancelId # NoExecution
        /\ cancelled' = cancelled \union {[by |-> s, execution |-> sends[s].cancelId,
                                           crossed |-> sends[s].crossed]}
        /\ UNCHANGED <<sends, executions>>

DispatchUser == SendStarts \/ Cancel
DispatchAsync == ExecutionStarted \/ ExecutionEvent \/ CommandReturned

(* A workbench shows and cancels only its own execution, also with others  *)
(* running, unless another execution was announced during its send: then   *)
(* it follows, and its cancel button ends, that one.                       *)
OwnEventsOnly ==
    /\ \A s \in Senders : ~sends[s].crossed =>
          \A e \in sends[s].shown : executions[e].of = s
    /\ \A c \in cancelled : ~c.crossed => executions[c.execution].of = c.by
===============================================================================
