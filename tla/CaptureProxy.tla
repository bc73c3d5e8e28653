---------------------------- MODULE CaptureProxy ----------------------------
(***************************************************************************)
(* The capture proxy: start and stop calls that overlap, the accept loop   *)
(* each start spawns, the connection tasks each accept spawns, and the     *)
(* ring of captured exchanges.                                             *)
(*                                                                         *)
(* The state is behind one mutex, which is never held across an await: a   *)
(* step of the model is one critical section or one await's end.           *)
(***************************************************************************)
EXTENDS Naturals, Sequences, FiniteSets, SequencesExt

CONSTANTS
    Starts, Stops,   \* calls of start and of stop
    Addresses,       \* addresses that a start can ask for
    Conns,           \* connections that clients open
    MaxExchanges,    \* capacity of the ring (500 in the code)
    MaxRequests,     \* bound on the requests the clients send
    Absent

ASSUME CaptureAssumption ==
    /\ Absent \notin Starts \union Addresses
    /\ MaxExchanges \in Nat \ {0} /\ MaxRequests \in Nat

VARIABLES
    running, bind, shutdown, generation,  \* fields of State
    exchanges,   \* the ring: the numbers of the requests captured
    start,       \* control point of each start call
    addr,        \* the address its listener is bound to
    gen,         \* the generation its accept loop remembers
    listener,    \* its accept loop: "none", "open", "ending" or "closed"
    token,       \* its cancellation token is cancelled
    stop,        \* control point of each stop call
    victim,      \* the start whose token that call took
    conn,        \* the task of each connection
    requests     \* history: requests received so far

stateVars == <<running, bind, shutdown, generation>>
listenerVars == <<addr, gen, listener, token>>
trafficVars == <<exchanges, conn, requests>>
captureVars ==
    <<running, bind, shutdown, generation, exchanges, start, addr, gen,
      listener, token, stop, victim, conn, requests>>

Idle == [pc |-> "idle", request |-> 0]

CaptureInit ==
    /\ running = FALSE /\ bind = Absent /\ shutdown = Absent /\ generation = 0
    /\ start = [s \in Starts |-> "idle"]
    /\ addr = [s \in Starts |-> Absent]
    /\ gen = [s \in Starts |-> 0]
    /\ listener = [s \in Starts |-> "none"]
    /\ token = [s \in Starts |-> FALSE]
    /\ stop = [k \in Stops |-> "idle"]
    /\ victim = [k \in Stops |-> Absent]
    /\ conn = [c \in Conns |-> Idle]
    /\ exchanges = <<>> /\ requests = 0

(* A socket is bound until its accept loop drops it.                       *)
InUse(a) == \E s \in Starts : addr[s] = a /\ listener[s] \in {"open", "ending"}

-------------------------------------------------------------------------------
(* start: an address that is not allowed is refused, and a call that finds *)
(* the proxy running returns its status.                                   *)
StartCheck(s) ==
    /\ start[s] = "idle"
    /\ \/ start' = [start EXCEPT ![s] = "done"]
       \/ ~running /\ start' = [start EXCEPT ![s] = "checked"]
    /\ UNCHANGED <<stateVars, listenerVars, stop, victim, trafficVars>>

(* The socket is bound without the lock, if the address is free.           *)
StartBind(s, a) ==
    /\ start[s] = "checked" /\ ~InUse(a)
    /\ start' = [start EXCEPT ![s] = "bound"]
    /\ addr' = [addr EXCEPT ![s] = a]
    /\ listener' = [listener EXCEPT ![s] = "open"]
    /\ UNCHANGED <<stateVars, gen, token, stop, victim, trafficVars>>

(* The second critical section installs the listener, then the accept loop *)
(* is spawned.                                                             *)
StartInstall(s) ==
    /\ start[s] = "bound"
    /\ generation' = generation + 1
    /\ running' = TRUE /\ bind' = addr[s] /\ shutdown' = s
    /\ gen' = [gen EXCEPT ![s] = generation + 1]
    /\ start' = [start EXCEPT ![s] = "done"]
    /\ UNCHANGED <<addr, listener, token, stop, victim, trafficVars>>

(* The socket cannot be bound, or the caller hangs up while start waits:   *)
(* the future is dropped then, and the socket with it.                     *)
StartDropped(s) ==
    /\ start[s] \in {"checked", "bound"}
    /\ start' = [start EXCEPT ![s] = "done"]
    /\ listener' = [listener EXCEPT ![s] = IF start[s] = "bound" THEN "closed" ELSE @]
    /\ UNCHANGED <<stateVars, addr, gen, token, stop, victim, trafficVars>>

(* The accept loop leaves on its token or on a failed accept ...           *)
Launched(s) == start[s] = "done" /\ gen[s] # 0

AcceptStops(s) ==
    /\ Launched(s) /\ listener[s] = "open" /\ token[s]
    /\ listener' = [listener EXCEPT ![s] = "ending"]
    /\ UNCHANGED <<stateVars, start, addr, gen, token, stop, victim, trafficVars>>

AcceptFails(s) ==
    /\ Launched(s) /\ listener[s] = "open"
    /\ listener' = [listener EXCEPT ![s] = "ending"]
    /\ UNCHANGED <<stateVars, start, addr, gen, token, stop, victim, trafficVars>>

(* ... and clears the state if no start or stop came after its own start.  *)
NeverSuperseded(s) == FALSE    \* mutant: the generation is not compared
Superseded(s) == generation # gen[s]

AcceptEnds(s) ==
    /\ listener[s] = "ending"
    /\ listener' = [listener EXCEPT ![s] = "closed"]
    /\ IF Superseded(s) THEN UNCHANGED stateVars
       ELSE running' = FALSE /\ bind' = Absent /\ shutdown' = Absent /\ UNCHANGED generation
    /\ UNCHANGED <<start, addr, gen, token, stop, victim, trafficVars>>

(* stop takes the token under the lock and cancels it after.               *)
StopTake(k) ==
    /\ stop[k] = "idle"
    /\ generation' = generation + 1
    /\ running' = FALSE /\ bind' = Absent /\ shutdown' = Absent
    /\ victim' = [victim EXCEPT ![k] = shutdown]
    /\ stop' = [stop EXCEPT ![k] = IF shutdown = Absent THEN "done" ELSE "taken"]
    /\ UNCHANGED <<start, listenerVars, trafficVars>>

StopCancelNothing(k) ==        \* mutant: the token is dropped, not cancelled
    /\ stop[k] = "taken"
    /\ stop' = [stop EXCEPT ![k] = "done"]
    /\ UNCHANGED <<stateVars, start, listenerVars, victim, trafficVars>>

StopCancel(k) ==
    /\ stop[k] = "taken"
    /\ token' = [token EXCEPT ![victim[k]] = TRUE]
    /\ stop' = [stop EXCEPT ![k] = "done"]
    /\ UNCHANGED <<stateVars, start, addr, gen, listener, victim, trafficVars>>

-------------------------------------------------------------------------------
Accept(c) ==
    /\ conn[c].pc = "idle"
    /\ \E s \in Starts : Launched(s) /\ listener[s] = "open"
    /\ conn' = [conn EXCEPT ![c].pc = "open"]
    /\ UNCHANGED <<stateVars, start, listenerVars, stop, victim, exchanges,
                   requests>>

(* handle: the request is read, and sent on.                               *)
Handle(c) ==
    /\ conn[c].pc = "open" /\ requests < MaxRequests
    /\ requests' = requests + 1
    /\ conn' = [conn EXCEPT ![c] = [pc |-> "busy", request |-> requests + 1]]
    /\ UNCHANGED <<stateVars, start, listenerVars, stop, victim, exchanges>>

(* record: a full ring loses its oldest exchange.                          *)

Pushed(ring, x) == Append(IF Len(ring) >= MaxExchanges THEN Tail(ring) ELSE ring, x)

(* forward keeps the connection, connect gives it to the tunnel.           *)
RecordExchange(c) ==
    /\ conn[c].pc = "busy"
    /\ exchanges' = Pushed(exchanges, conn[c].request)
    /\ \E pc \in {"open", "closed"} : conn' = [conn EXCEPT ![c] = [Idle EXCEPT !.pc = pc]]
    /\ UNCHANGED <<stateVars, start, listenerVars, stop, victim, requests>>

(* A body that cannot be read, or is too large, is refused and not         *)
(* captured; a client may leave.                                           *)
Refuse(c) ==
    /\ conn[c].pc = "busy"
    /\ conn' = [conn EXCEPT ![c] = [Idle EXCEPT !.pc = "open"]]
    /\ UNCHANGED <<stateVars, start, listenerVars, stop, victim, exchanges,
                   requests>>

Disconnect(c) ==
    /\ conn[c].pc \in {"open", "busy"}
    /\ conn' = [conn EXCEPT ![c] = [Idle EXCEPT !.pc = "closed"]]
    /\ UNCHANGED <<stateVars, start, listenerVars, stop, victim, exchanges,
                   requests>>

Clear ==
    /\ exchanges # <<>>
    /\ exchanges' = <<>>
    /\ UNCHANGED <<stateVars, start, listenerVars, stop, victim, conn, requests>>

ControlStep ==
    \/ \E s \in Starts :
          \/ StartCheck(s) \/ StartInstall(s) \/ StartDropped(s)
          \/ AcceptStops(s) \/ AcceptFails(s) \/ AcceptEnds(s)
    \/ \E s \in Starts, a \in Addresses : StartBind(s, a)
    \/ \E k \in Stops : StopTake(k) \/ StopCancel(k)

TrafficStep ==
    \/ \E c \in Conns : Accept(c) \/ Handle(c) \/ RecordExchange(c) \/ Refuse(c) \/ Disconnect(c)
    \/ Clear

CaptureNext == ControlStep \/ TrafficStep

(* The runtime polls every ready task: a call under way goes on, an accept *)
(* loop whose token is cancelled leaves.  Clients need do nothing.         *)
CaptureFairness ==
    /\ \A s \in Starts : WF_captureVars(StartInstall(s)) /\ WF_captureVars(AcceptStops(s))
                         /\ WF_captureVars(AcceptEnds(s))
    /\ \A k \in Stops : WF_captureVars(StopCancel(k))

CaptureSpec == CaptureInit /\ [][CaptureNext]_captureVars /\ CaptureFairness

-------------------------------------------------------------------------------
(* Types; the ring never exceeds its capacity.                             *)
CaptureTypeOK ==
    /\ running \in BOOLEAN /\ bind \in Addresses \union {Absent}
    /\ shutdown \in Starts \union {Absent} /\ generation \in Nat
    /\ start \in [Starts -> {"idle", "checked", "bound", "done"}]
    /\ addr \in [Starts -> Addresses \union {Absent}]
    /\ gen \in [Starts -> Nat]
    /\ listener \in [Starts -> {"none", "open", "ending", "closed"}]
    /\ token \in [Starts -> BOOLEAN]
    /\ stop \in [Stops -> {"idle", "taken", "done"}]
    /\ victim \in [Stops -> Starts \union {Absent}]
    /\ conn \in [Conns -> [pc : {"idle", "open", "busy", "closed"}, request : 0 .. MaxRequests]]
    /\ exchanges \in Seq(1 .. MaxRequests) /\ Len(exchanges) <= MaxExchanges
    /\ requests \in 0 .. MaxRequests

(* The status tells the truth about the newest start: while it says        *)
(* running, the address it shows is that of a listener that has not been   *)
(* told to end and whose token the next stop will take; and while nothing  *)
(* was started or stopped after it, the newest start's listener is what it *)
(* shows.  The accept loop of an earlier start, ending late, must not      *)
(* disturb it.                                                             *)
StatusHonest ==
    /\ running <=> shutdown # Absent
    /\ running =>
          /\ bind = addr[shutdown] /\ gen[shutdown] = generation
          /\ listener[shutdown] \in {"open", "ending"} /\ ~token[shutdown]
    /\ \A s \in Starts : Launched(s) /\ gen[s] = generation =>
          listener[s] = "closed" \/ (running /\ shutdown = s)

(* A stop ends the listener whose token it took, and an accept loop that   *)
(* ends by itself is no longer reported as running.                        *)
StopEnds ==
    /\ \A k \in Stops, s \in Starts : victim[k] = s ~> listener[s] = "closed"
    /\ \A s \in Starts : listener[s] = "ending" ~> ~(running /\ shutdown = s)
===============================================================================
