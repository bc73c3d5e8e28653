----------------------------- MODULE LiveSession -----------------------------
(***************************************************************************)
(* The interactive sessions of WebSocketWorkbench and, through the local   *)
(* agent, of SocketWorkbench (TCP): one socket per mounted workbench, held *)
(* in a ref that its callbacks, the close button and the unmount effect    *)
(* share.                                                                  *)
(*                                                                         *)
(* The WebSocket workbench sets the ref when its socket opens; the TCP one *)
(* first awaits a ticket of the agent and sets it when it makes the        *)
(* socket.                                                                 *)
(***************************************************************************)
EXTENDS Naturals

Workbenches == {"websocket", "tcp"}

VARIABLE session

(* socket is what the workbench's socket does; `lost` is history: the      *)
(* workbench went while it was connecting.                                 *)
NoSession == [mounted |-> TRUE, connecting |-> FALSE, interactive |-> FALSE, held |-> FALSE,
              socket |-> "none", lost |-> FALSE]

SessionInit == session = [w \in Workbenches |-> NoSession]

SessionBecomes(w, next) == session' = [session EXCEPT ![w] = next]

(* connectInteractive; openSession up to its await.                        *)
Connect ==
    \E w \in Workbenches :
        LET s == session[w] IN
        /\ s.mounted /\ ~s.held /\ ~s.connecting /\ ~s.interactive
        /\ SessionBecomes(w, [s EXCEPT !.connecting = TRUE,
                                !.socket = IF w = "tcp" THEN "ticket" ELSE "opening"])

(* The ticket came: openSession goes on, also after an unmount.            *)
TicketReceived ==
    LET s == session["tcp"] IN
    /\ s.socket = "ticket"
    /\ SessionBecomes("tcp", [s EXCEPT !.socket = "opening", !.held = TRUE])

TicketRefused ==
    LET s == session["tcp"] IN
    /\ s.socket = "ticket"
    /\ SessionBecomes("tcp", [s EXCEPT !.socket = "none", !.connecting = FALSE, !.interactive = FALSE])

(* onopen                                                                  *)
SocketOpens ==
    \E w \in Workbenches :
        LET s == session[w] IN
        /\ s.socket = "opening"
        /\ SessionBecomes(w, [s EXCEPT !.socket = "open", !.held = TRUE, !.connecting = FALSE,
                                !.interactive = TRUE])

(* A "closed" or "error" message of the agent: the target is gone, the     *)
(* socket to the agent not yet.                                            *)
TargetGone ==
    LET s == session["tcp"] IN
    /\ s.socket = "open" /\ s.interactive
    /\ SessionBecomes("tcp", [s EXCEPT !.interactive = FALSE, !.connecting = FALSE])

(* onclose, with onerror before it or not: the peer closed, the connection *)
(* failed, or a close() is done.                                           *)
SocketCloses ==
    \E w \in Workbenches :
        LET s == session[w] IN
        /\ s.socket \in {"opening", "open", "closing"}
        /\ SessionBecomes(w, [s EXCEPT !.socket = "none", !.held = FALSE, !.connecting = FALSE,
                                !.interactive = FALSE])

(* closeInteractive, closeSession                                          *)
Disconnect ==
    \E w \in Workbenches :
        LET s == session[w] IN
        /\ s.mounted /\ s.interactive /\ s.held /\ s.socket = "open"
        /\ SessionBecomes(w, [s EXCEPT !.socket = "closing"])

ClosedNever(s) == s                \* mutant: the unmount effect leaves the socket alone
ClosedAtUnmount(s) ==
    IF s.held /\ s.socket \in {"opening", "open"} THEN [s EXCEPT !.socket = "closing"] ELSE s

(* The tab is closed, or another page is opened in place of the deck.      *)
Gone(s) ==
    IF ~s.mounted THEN s
    ELSE [ClosedAtUnmount(s) EXCEPT !.mounted = FALSE,
                                    !.lost = ~s.held /\ s.socket \in {"ticket", "opening"}]

Unmount == \E w \in Workbenches : session[w].mounted /\ SessionBecomes(w, Gone(session[w]))
DeckUnmounted == session' = [w \in Workbenches |-> Gone(session[w])]

SessionUser == Connect \/ Disconnect \/ Unmount
SessionAsync == TicketReceived \/ TicketRefused \/ SocketOpens \/ TargetGone \/ SocketCloses

(* A workbench that is gone leaves no connection behind, and a connection  *)
(* that is open can be closed: the ref holds it.  The exception: the       *)
(* workbench went while it was still connecting, before the ref was set.   *)
NoOrphanSocket ==
    \A w \in Workbenches :
        LET s == session[w] IN
        /\ s.mounted /\ s.socket = "open" => s.held
        /\ ~s.mounted /\ ~s.lost => s.socket \notin {"ticket", "opening", "open"}
===============================================================================
