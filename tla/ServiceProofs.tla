---------------------------- MODULE ServiceProofs ----------------------------
(***************************************************************************)
(* Proofs about three parts that share no state.  The capture proxy: its   *)
(* types, and that its status tells the truth however starts, stops and    *)
(* ending accept loops overlap, for any number of calls, addresses and     *)
(* connections.  The protocol gateway: its types, that an acknowledged job *)
(* survives every crash, and that a job runs once per interval, for any    *)
(* number of jobs, runs, permits, restarts and failed writes.  The tables  *)
(* of the local store: for any number of projects, modules and collections *)
(* the collections stay a forest, a subtree stays together in one project  *)
(* and one module, and no row outlives its owner.                          *)
(***************************************************************************)
EXTENDS CaptureProxy, Gateway, WorkspaceTree, SequenceTheorems, TLAPS

-------------------------------------------------------------------------------
(***************************************************************************)
(* The capture proxy.                                                      *)
(***************************************************************************)

(* What each control point of a start says about its listener.             *)
StartPoints ==
    \A s \in Starts :
        /\ start[s] \in {"idle", "checked"} => listener[s] = "none"
        /\ start[s] = "bound" => listener[s] = "open"
        /\ start[s] # "done" => gen[s] = 0
        /\ listener[s] = "ending" \/ (running /\ shutdown = s) => gen[s] # 0

(* The numbers of the installed listeners are different and not above the  *)
(* counter.                                                                *)
Generations ==
    /\ \A s \in Starts : gen[s] <= generation
    /\ \A s, t \in Starts : gen[s] = gen[t] /\ gen[s] # 0 => s = t

(* A token that was taken, and so one that is cancelled, is that of a      *)
(* listener before the last start or stop.                                 *)
TokensAreOld ==
    /\ \A s \in Starts : token[s] => gen[s] # 0 /\ gen[s] < generation
    /\ \A k \in Stops :
          /\ stop[k] = "taken" => victim[k] \in Starts
          /\ victim[k] \in Starts => gen[victim[k]] # 0 /\ gen[victim[k]] < generation

(* The types of the state behind the mutex and of the calls.               *)
ControlTypes ==
    /\ running \in BOOLEAN /\ bind \in Addresses \union {Absent}
    /\ shutdown \in Starts \union {Absent} /\ generation \in Nat
    /\ start \in [Starts -> {"idle", "checked", "bound", "done"}]
    /\ addr \in [Starts -> Addresses \union {Absent}]
    /\ gen \in [Starts -> Nat]
    /\ listener \in [Starts -> {"none", "open", "ending", "closed"}]
    /\ token \in [Starts -> BOOLEAN]
    /\ stop \in [Stops -> {"idle", "taken", "done"}]
    /\ victim \in [Stops -> Starts \union {Absent}]

(* StatusHonest is not inductive: that an ending accept loop finds its own *)
(* number in the counter only if the status is about it takes the numbers  *)
(* to be different, and that a stop never cancels the listener shown takes *)
(* its token to be an older one.                                           *)
StatusInv == ControlTypes /\ StartPoints /\ Generations /\ TokensAreOld /\ StatusHonest

(* The types of the connections and of the ring.                           *)
Task == [pc : {"idle", "open", "busy", "closed"}, request : 0 .. MaxRequests]

TrafficTypes ==
    /\ conn \in [Conns -> Task]
    /\ \A c \in Conns : conn[c].pc = "busy" => conn[c].request # 0
    /\ exchanges \in Seq(1 .. MaxRequests) /\ Len(exchanges) <= MaxExchanges
    /\ requests \in 0 .. MaxRequests

controlVars == <<stateVars, start, listenerVars, stop, victim>>

-------------------------------------------------------------------------------
LEMMA StatusStart == CaptureInit => StatusInv
<1> SUFFICES ASSUME CaptureInit PROVE StatusInv
  OBVIOUS
<1>1. ControlTypes
  BY DEF CaptureInit, ControlTypes
<1>2. StartPoints /\ Generations
  BY DEF CaptureInit, StartPoints, Generations
<1>3. TokensAreOld
  BY CaptureAssumption DEF CaptureInit, TokensAreOld
<1>4. StatusHonest
  BY DEF CaptureInit, StatusHonest, Launched
<1> QED
  BY <1>1, <1>2, <1>3, <1>4 DEF StatusInv

LEMMA StartCheckKeeps == ASSUME StatusInv, NEW s \in Starts, StartCheck(s) PROVE StatusInv'
  BY DEF StatusInv, StartCheck, ControlTypes, StartPoints, Generations, TokensAreOld, StatusHonest,
         Launched, stateVars, listenerVars

LEMMA StartBindKeeps ==
  ASSUME StatusInv, NEW s \in Starts, NEW a \in Addresses, StartBind(s, a) PROVE StatusInv'
  BY CaptureAssumption
  DEF StatusInv, StartBind, ControlTypes, StartPoints, Generations, TokensAreOld, StatusHonest,
      Launched, stateVars, listenerVars

LEMMA StartInstallKeeps == ASSUME StatusInv, NEW s \in Starts, StartInstall(s) PROVE StatusInv'
<1> USE CaptureAssumption DEF StartInstall, stateVars, listenerVars
<1>1. ControlTypes'
  BY DEF StatusInv, ControlTypes
<1>2. StartPoints'
  BY DEF StatusInv, ControlTypes, StartPoints
<1>3. Generations'
  BY DEF StatusInv, ControlTypes, StartPoints, Generations
<1>4. TokensAreOld'
  BY DEF StatusInv, ControlTypes, StartPoints, Generations, TokensAreOld, StatusHonest
<1>5. StatusHonest'
  BY DEF StatusInv, ControlTypes, StartPoints, Generations, TokensAreOld, StatusHonest, Launched
<1> QED
  BY <1>1, <1>2, <1>3, <1>4, <1>5 DEF StatusInv

LEMMA StartDroppedKeeps == ASSUME StatusInv, NEW s \in Starts, StartDropped(s) PROVE StatusInv'
<1> USE CaptureAssumption DEF StartDropped, stateVars, listenerVars
<1>1. ControlTypes'
  BY DEF StatusInv, ControlTypes
<1>2. StartPoints'
  BY DEF StatusInv, ControlTypes, StartPoints
<1>3. Generations'
  BY DEF StatusInv, ControlTypes, StartPoints, Generations
<1>4. TokensAreOld'
  BY DEF StatusInv, ControlTypes, StartPoints, Generations, TokensAreOld, StatusHonest
<1>5. StatusHonest'
  BY DEF StatusInv, ControlTypes, StartPoints, Generations, TokensAreOld, StatusHonest, Launched
<1> QED
  BY <1>1, <1>2, <1>3, <1>4, <1>5 DEF StatusInv

LEMMA AcceptLeavesKeeps ==
  ASSUME StatusInv, NEW s \in Starts, AcceptStops(s) \/ AcceptFails(s) PROVE StatusInv'
  BY CaptureAssumption
  DEF StatusInv, AcceptStops, AcceptFails, ControlTypes, StartPoints, Generations, TokensAreOld,
      StatusHonest, Launched, stateVars, listenerVars

LEMMA AcceptEndsKeeps == ASSUME StatusInv, NEW s \in Starts, AcceptEnds(s) PROVE StatusInv'
<1> USE CaptureAssumption DEF AcceptEnds, Superseded, stateVars, listenerVars
<1>1. ControlTypes'
  BY DEF StatusInv, ControlTypes
<1>2. StartPoints'
  BY DEF StatusInv, ControlTypes, StartPoints
<1>3. Generations' /\ TokensAreOld'
  BY DEF StatusInv, ControlTypes, Generations, TokensAreOld
<1>4. StatusHonest'
  BY DEF StatusInv, ControlTypes, StartPoints, Generations, StatusHonest, Launched
<1> QED
  BY <1>1, <1>2, <1>3, <1>4 DEF StatusInv

LEMMA StopTakeKeeps == ASSUME StatusInv, NEW k \in Stops, StopTake(k) PROVE StatusInv'
<1> USE CaptureAssumption DEF StopTake, stateVars, listenerVars
<1>1. ControlTypes'
  <2>1. stop' \in [Stops -> {"idle", "taken", "done"}] /\ victim' \in [Stops -> Starts \union {Absent}]
    BY DEF StatusInv, ControlTypes
  <2>2. running' \in BOOLEAN /\ shutdown' \in Starts \union {Absent}
    OBVIOUS
  <2>3. bind' \in Addresses \union {Absent} /\ generation' \in Nat
    BY DEF StatusInv, ControlTypes
  <2>4. UNCHANGED <<start, addr, gen, listener, token>>
    OBVIOUS
  <2> QED
    BY <2>1, <2>2, <2>3, <2>4 DEF StatusInv, ControlTypes
<1>2. StartPoints'
  BY DEF StatusInv, ControlTypes, StartPoints
<1>3. Generations'
  BY DEF StatusInv, ControlTypes, StartPoints, Generations
<1>4. TokensAreOld'
  BY DEF StatusInv, ControlTypes, StartPoints, Generations, TokensAreOld, StatusHonest
<1>5. StatusHonest'
  BY DEF StatusInv, ControlTypes, StartPoints, Generations, TokensAreOld, StatusHonest, Launched
<1> QED
  BY <1>1, <1>2, <1>3, <1>4, <1>5 DEF StatusInv

LEMMA StopCancelKeeps == ASSUME StatusInv, NEW k \in Stops, StopCancel(k) PROVE StatusInv'
  BY CaptureAssumption
  DEF StatusInv, StopCancel, ControlTypes, StartPoints, Generations, TokensAreOld, StatusHonest,
      Launched, stateVars, listenerVars
-------------------------------------------------------------------------------
LEMMA StatusStep == StatusInv /\ [CaptureNext]_captureVars => StatusInv'
<1> SUFFICES ASSUME StatusInv, [CaptureNext]_captureVars PROVE StatusInv'
  OBVIOUS
<1>1. CASE UNCHANGED controlVars
  BY <1>1 DEF controlVars, stateVars, listenerVars, StatusInv, ControlTypes, StartPoints,
              Generations, TokensAreOld, StatusHonest, Launched
<1>2. CASE ControlStep
  BY <1>2, StartCheckKeeps, StartBindKeeps, StartInstallKeeps, StartDroppedKeeps,
     AcceptLeavesKeeps, AcceptEndsKeeps, StopTakeKeeps, StopCancelKeeps DEF ControlStep
<1>3. TrafficStep \/ UNCHANGED captureVars => UNCHANGED controlVars
  BY DEF TrafficStep, Accept, Handle, RecordExchange, Refuse, Disconnect, Clear, captureVars, controlVars,
         stateVars, listenerVars
<1> QED
  BY <1>1, <1>2, <1>3 DEF CaptureNext

(* record: the ring holds requests that were received, at most its         *)
(* capacity of them.                                                       *)
LEMMA PushedKeeps ==
  ASSUME NEW ring \in Seq(1 .. MaxRequests), Len(ring) <= MaxExchanges, NEW x \in 1 .. MaxRequests
  PROVE  Pushed(ring, x) \in Seq(1 .. MaxRequests) /\ Len(Pushed(ring, x)) <= MaxExchanges
<1>1. CASE Len(ring) >= MaxExchanges
  <2>1. ring # <<>>
    BY <1>1, CaptureAssumption
  <2>2. Tail(ring) \in Seq(1 .. MaxRequests) /\ Len(Tail(ring)) = Len(ring) - 1
    BY <2>1
  <2> QED
    BY <1>1, <2>2, CaptureAssumption DEF Pushed
<1>2. CASE ~(Len(ring) >= MaxExchanges)
  BY <1>2, CaptureAssumption DEF Pushed
<1> QED
  BY <1>1, <1>2

LEMMA TrafficStart == CaptureInit => TrafficTypes
  BY CaptureAssumption DEF CaptureInit, TrafficTypes, Task, Idle

LEMMA TrafficKeeps == TrafficTypes /\ [CaptureNext]_captureVars => TrafficTypes'
<1> SUFFICES ASSUME TrafficTypes, [CaptureNext]_captureVars PROVE TrafficTypes'
  OBVIOUS
<1> USE CaptureAssumption
<1>1. CASE UNCHANGED trafficVars
  BY <1>1 DEF trafficVars, TrafficTypes
<1>2. ASSUME NEW c \in Conns, Accept(c) PROVE TrafficTypes'
  BY <1>2 DEF Accept, TrafficTypes, Task
<1>3. ASSUME NEW c \in Conns, Disconnect(c) \/ Refuse(c) PROVE TrafficTypes'
  <2>1. PICK at \in {"open", "closed"} : conn' = [conn EXCEPT ![c] = [Idle EXCEPT !.pc = at]]
    BY <1>3 DEF Disconnect, Refuse
  <2>2. conn' \in [Conns -> Task] /\ \A d \in Conns : conn'[d].pc = "busy" => conn'[d].request # 0
    BY <2>1 DEF TrafficTypes, Task, Idle
  <2> QED
    BY <1>3, <2>2 DEF Disconnect, Refuse, TrafficTypes
<1>4. ASSUME NEW c \in Conns, Handle(c) PROVE TrafficTypes'
  BY <1>4 DEF Handle, TrafficTypes, Task
<1>5. ASSUME NEW c \in Conns, RecordExchange(c) PROVE TrafficTypes'
  <2>1. conn[c].request \in 1 .. MaxRequests
    BY <1>5 DEF RecordExchange, TrafficTypes, Task
  <2>2. exchanges' \in Seq(1 .. MaxRequests) /\ Len(exchanges') <= MaxExchanges
    BY <1>5, <2>1, PushedKeeps DEF RecordExchange, TrafficTypes
  <2>3. conn' \in [Conns -> Task] /\ \A d \in Conns : conn'[d].pc = "busy" => conn'[d].request # 0
    BY <1>5 DEF RecordExchange, TrafficTypes, Task, Idle
  <2> QED
    BY <1>5, <2>2, <2>3 DEF RecordExchange, TrafficTypes
<1>6. CASE Clear
  BY <1>6 DEF Clear, TrafficTypes
<1>7. ControlStep \/ UNCHANGED captureVars => UNCHANGED trafficVars
  BY DEF ControlStep, StartCheck, StartBind, StartInstall, StartDropped, AcceptStops, AcceptFails,
         AcceptEnds, StopTake, StopCancel, captureVars, trafficVars
<1> QED
  BY <1>1, <1>2, <1>3, <1>4, <1>5, <1>6, <1>7 DEF CaptureNext, TrafficStep

(* While the proxy's status says running, it names the address of a        *)
(* listener nobody has told to end and whose token the next stop takes,    *)
(* and the newest start's listener is the one it names; an accept loop of  *)
(* an earlier start that ends late never clears the status of a later one  *)
(* (start, stop and the end of the accept loop in capture-proxy).          *)
THEOREM StatusIsHonest == CaptureSpec => []StatusHonest
<1>1. StatusInv => StatusHonest
  BY DEF StatusInv
<1> QED
  BY <1>1, StatusStart, StatusStep, PTL DEF CaptureSpec

(* The proxy's state keeps its types, and the ring of captured exchanges   *)
(* never exceeds its capacity, whatever clients and callers do.            *)
THEOREM CaptureTypes == CaptureSpec => []CaptureTypeOK
<1>1. StatusInv /\ TrafficTypes => CaptureTypeOK
  BY DEF StatusInv, ControlTypes, TrafficTypes, Task, CaptureTypeOK
<1> QED
  BY <1>1, StatusStart, StatusStep, TrafficStart, TrafficKeeps, PTL DEF CaptureSpec

-------------------------------------------------------------------------------
(***************************************************************************)
(* The protocol gateway.                                                   *)
(***************************************************************************)

(* Who can hold the mutex with a write to do.                              *)
Writes ==
    {NoWrite} \union [kind : {"create", "delete"}, job : Jobs]
              \union [kind : {"tick"}, due : SUBSET Jobs, at : 0 .. MaxTime]
              \union [kind : {"last"}, run : Runs]

Types == TypeOK /\ writing \in Writes

(* What the holder of the mutex is about to write and to answer.           *)
WriteSound ==
    /\ ~up => writing = NoWrite
    /\ writing.kind = "create" => told[writing.job] = "asked" /\ Exists(jobs, writing.job)
    /\ writing.kind = "tick" => \A j \in writing.due : told[j] # "nothing"

(* An id that was never asked for is not used anywhere.                    *)
Fresh ==
    \A j \in Jobs : told[j] = "nothing" =>
        /\ jobs[j] = NoJob /\ disk[j] = NoJob
        /\ \A r \in Runs : run[r].job # j

(* The next time of a job, in the map and in the file, is after all of its *)
(* runs; a tick that is still being written is after them too, and before  *)
(* the next time it has set.                                               *)
NextIsLater ==
    errors = 0 => \A j \in Jobs :
        /\ \A r \in Runs : run[r].job = j =>
              /\ Exists(jobs, j) => run[r].at < jobs[j].next
              /\ Exists(disk, j) => run[r].at < disk[j].next
              /\ writing.kind = "tick" /\ j \in writing.due => run[r].at < writing.at
        /\ writing.kind = "tick" /\ j \in writing.due => writing.at < jobs[j].next

(* OncePerInterval is not inductive: a restart takes the next times from   *)
(* the file, so those must be after the runs as well.                      *)
Safe == WriteSound /\ Fresh /\ NextIsLater /\ CreatedJobsPersist /\ OncePerInterval
GatewayInv == Types /\ Safe

RunRow ==
    [pc : {"unused", "acquire", "execute", "record", "update", "writing", "done", "gone", "lost"},
     job : Jobs \union {None}, at : 0 .. MaxTime]
-------------------------------------------------------------------------------
LEMMA RowFacts ==
  /\ NoJob \in Row /\ NoJobs \in [Jobs -> Row]
  /\ \A row \in Row : row.enabled \/ row.next # 0 \/ row.last # None => row # NoJob
  BY GatewayAssumption DEF Row, NoJob, NoJobs

LEMMA KindFacts ==
  ASSUME writing \in Writes
  PROVE  /\ writing.kind \in {"create", "delete"} => writing.job \in Jobs
         /\ writing.kind = "tick" => writing.due \in SUBSET Jobs /\ writing.at \in 0 .. MaxTime
         /\ writing.kind = "last" => writing.run \in Runs
         /\ writing.kind \in {"none", "create", "delete", "tick", "last"}
         /\ Locked <=> writing.kind # "none"
  BY DEF Writes, NoWrite, Locked

LEMMA GatewayStart == Init => GatewayInv
<1> SUFFICES ASSUME Init PROVE GatewayInv
  OBVIOUS
<1> USE GatewayAssumption
<1>1. Types
  BY RowFacts DEF Init, Types, TypeOK, Writes, NoWrite, Unused, Row
<1>2. WriteSound /\ Fresh
  BY DEF Init, WriteSound, Fresh, NoWrite, NoJobs, Unused
<1>3. NextIsLater
  BY DEF Init, NextIsLater, NoWrite, Unused
<1>4. CreatedJobsPersist /\ OncePerInterval
  BY DEF Init, CreatedJobsPersist, OncePerInterval, Unused
<1> QED
  BY <1>1, <1>2, <1>3, <1>4 DEF GatewayInv, Safe

(* A step that changes neither the jobs nor who writes them, and of a run  *)
(* of a job only its control point.                                        *)
LEMMA RunMoves ==
  ASSUME GatewayInv, UNCHANGED <<up, jobs, disk, writing, told, forgotten, errors>>,
         run' \in [Runs -> RunRow],
         \A r \in Runs : run'[r].job = run[r].job /\ (run[r].job # None => run'[r].at = run[r].at)
  PROVE  Safe'
<1> USE GatewayAssumption
<1>1. WriteSound'
  BY DEF GatewayInv, Safe, WriteSound, Exists
<1>2. Fresh'
  BY DEF GatewayInv, Safe, Fresh
<1>3. NextIsLater'
  BY DEF GatewayInv, Safe, NextIsLater, Exists
<1>4. CreatedJobsPersist'
  BY DEF GatewayInv, Safe, CreatedJobsPersist, Exists
<1>5. OncePerInterval'
  BY DEF GatewayInv, Safe, OncePerInterval
<1> QED
  BY <1>1, <1>2, <1>3, <1>4, <1>5 DEF Safe

(* The result in front, and the oldest one dropped if there is no room.    *)
LEMMA RetainedKeeps ==
  ASSUME results \in Seq(Runs), Len(results) <= MaxResults, NEW r \in Runs
  PROVE  Retained(r) \in Seq(Runs) /\ Len(Retained(r)) <= MaxResults
<1> DEFINE all == <<r>> \o results
<1> DEFINE n == IF Len(results) < MaxResults THEN Len(results) + 1 ELSE MaxResults
<1>1. all \in Seq(Runs) /\ Len(all) = Len(results) + 1
  OBVIOUS
<1>2. n \in 1 .. Len(all) /\ n <= MaxResults
  BY <1>1, GatewayAssumption
<1>3. SubSeq(all, 1, n) \in Seq(Runs) /\ Len(SubSeq(all, 1, n)) = n
  BY <1>1, <1>2
<1> QED
  BY <1>2, <1>3 DEF Retained

LEMMA TimeKeeps == ASSUME GatewayInv, TimePasses PROVE GatewayInv'
<1>1. Types'
  BY GatewayAssumption DEF GatewayInv, Types, TypeOK, TimePasses, Writes, runVars, history, Row
<1>2. Safe'
  BY RunMoves DEF GatewayInv, Types, TypeOK, RunRow, TimePasses, runVars, history
<1> QED
  BY <1>1, <1>2 DEF GatewayInv

LEMMA RemoteKeeps == ASSUME GatewayInv, NEW r \in Runs, RemoteExecute(r) PROVE GatewayInv'
<1>1. run' \in [Runs -> RunRow]
  BY ZenonT(60) DEF GatewayInv, Types, TypeOK, RunRow, RemoteExecute
<1>2. Types'
  BY <1>1 DEF GatewayInv, Types, TypeOK, RunRow, RemoteExecute, history
<1>3. \A q \in Runs : run'[q].job = run[q].job /\ (run[q].job # None => run'[q].at = run[q].at)
  BY DEF GatewayInv, Types, TypeOK, RunRow, RemoteExecute, Unused
<1>4. Safe'
  BY <1>1, <1>3, RunMoves DEF RemoteExecute, history
<1> QED
  BY <1>2, <1>4 DEF GatewayInv

LEMMA TaskKeeps ==
  ASSUME GatewayInv, NEW r \in Runs, Acquire(r) \/ TaskEnds(r) \/ Collected(r) \/ ClientLeaves(r)
  PROVE  GatewayInv'
<1>1. run' = run \/ \E at \in {"execute", "record", "gone"} : run' = [run EXCEPT ![r].pc = at]
  BY DEF Acquire, TaskEnds, Collected, ClientLeaves
<1>2. task' \in [Runs -> {"none", "ends", "waits"}]
  BY DEF GatewayInv, Types, TypeOK, Acquire, TaskEnds, Collected, ClientLeaves
<1>3. UNCHANGED <<up, now, jobs, disk, writing, results, told, forgotten, crashes, errors>>
  BY DEF Acquire, TaskEnds, Collected, ClientLeaves, history
<1>4. run \in [Runs -> RunRow]
  BY DEF GatewayInv, Types, TypeOK, RunRow
<1>5. run' \in [Runs -> RunRow]
  BY <1>1, <1>4 DEF RunRow
<1>6. Types'
  BY <1>2, <1>3, <1>5 DEF GatewayInv, Types, TypeOK, RunRow
<1>7. \A q \in Runs : run'[q].job = run[q].job /\ run'[q].at = run[q].at
  BY <1>1, <1>4 DEF RunRow
<1>8. Safe'
  BY <1>3, <1>5, <1>7, RunMoves
<1> QED
  BY <1>6, <1>8 DEF GatewayInv

LEMMA RecordKeeps == ASSUME GatewayInv, NEW r \in Runs, Record(r) PROVE GatewayInv'
<1>1. run' \in [Runs -> RunRow]
  BY ZenonT(60) DEF GatewayInv, Types, TypeOK, RunRow, Record
<1>2. results' \in Seq(Runs) /\ Len(results') <= MaxResults
  BY RetainedKeeps DEF GatewayInv, Types, TypeOK, Record
<1>3. Types'
  BY <1>1, <1>2 DEF GatewayInv, Types, TypeOK, RunRow, Record, history
<1>4. \A q \in Runs : run'[q].job = run[q].job /\ run'[q].at = run[q].at
  BY DEF GatewayInv, Types, TypeOK, RunRow, Record
<1>5. Safe'
  BY <1>1, <1>4, RunMoves DEF Record, history
<1> QED
  BY <1>3, <1>5 DEF GatewayInv

-------------------------------------------------------------------------------
LEMMA CreateKeeps ==
  ASSUME GatewayInv, NEW j \in Jobs, NEW enabled \in BOOLEAN, CreateJob(j, enabled) PROVE GatewayInv'
<1> DEFINE row == [enabled |-> enabled, next |-> now + 1, last |-> None]
<1> USE GatewayAssumption
<1>1. row \in Row /\ row # NoJob
  BY RowFacts DEF GatewayInv, Types, TypeOK, CreateJob, Row
<1>2. jobs' = [jobs EXCEPT ![j] = row] /\ writing' = [kind |-> "create", job |-> j]
  BY DEF CreateJob
<1>3. told' = [told EXCEPT ![j] = "asked"] /\ told[j] = "nothing" /\ up
  BY DEF CreateJob
<1>4. UNCHANGED <<up, now, disk, run, task, results, forgotten, crashes, errors>>
  BY DEF CreateJob, runVars
<1> HIDE DEF row
<1>5. Types'
  BY <1>1, <1>2, <1>3, <1>4 DEF GatewayInv, Types, TypeOK, Writes
<1>6. jobs'[j] = row /\ \A k \in Jobs \ {j} : jobs'[k] = jobs[k] /\ told'[k] = told[k]
  BY <1>2, <1>3 DEF GatewayInv, Types, TypeOK
<1>7. WriteSound' /\ told'[j] = "asked"
  BY <1>1, <1>2, <1>3, <1>4, <1>6 DEF GatewayInv, Types, TypeOK, WriteSound, Exists
<1>8. Fresh'
  BY <1>4, <1>6, <1>7 DEF GatewayInv, Safe, Fresh
<1>9. NextIsLater'
  BY <1>2, <1>3, <1>4, <1>6 DEF GatewayInv, Safe, NextIsLater, Fresh, Exists
<1>10. CreatedJobsPersist'
  BY <1>4, <1>6, <1>7 DEF GatewayInv, Safe, CreatedJobsPersist, Exists
<1>11. OncePerInterval'
  BY <1>4 DEF GatewayInv, Safe, OncePerInterval
<1> QED
  BY <1>5, <1>7, <1>8, <1>9, <1>10, <1>11 DEF GatewayInv, Safe

LEMMA DeleteKeeps == ASSUME GatewayInv, NEW j \in Jobs, DeleteJob(j) PROVE GatewayInv'
<1> USE GatewayAssumption
<1>1. jobs' = [jobs EXCEPT ![j] = NoJob] /\ writing' = [kind |-> "delete", job |-> j]
  BY DEF DeleteJob
<1>2. told' = [told EXCEPT ![j] = "asked"] /\ up
  BY DEF DeleteJob
<1>3. UNCHANGED <<up, now, disk, run, task, results, forgotten, crashes, errors>>
  BY DEF DeleteJob, runVars
<1>4. Types'
  BY <1>1, <1>2, <1>3, RowFacts DEF GatewayInv, Types, TypeOK, Writes
<1>5. jobs'[j] = NoJob /\ told'[j] = "asked" /\ \A k \in Jobs \ {j} : jobs'[k] = jobs[k] /\ told'[k] = told[k]
  BY <1>1, <1>2 DEF GatewayInv, Types, TypeOK
<1>6. WriteSound'
  BY <1>1, <1>2, <1>3 DEF WriteSound
<1>7. Fresh'
  BY <1>3, <1>5 DEF GatewayInv, Safe, Fresh
<1>8. NextIsLater'
  BY <1>1, <1>3, <1>5 DEF GatewayInv, Safe, NextIsLater, Exists
<1>9. CreatedJobsPersist'
  BY <1>3, <1>5 DEF GatewayInv, Safe, CreatedJobsPersist, Exists
<1>10. OncePerInterval'
  BY <1>3 DEF GatewayInv, Safe, OncePerInterval
<1> QED
  BY <1>4, <1>6, <1>7, <1>8, <1>9, <1>10 DEF GatewayInv, Safe

LEMMA TickKeeps == ASSUME GatewayInv, Tick PROVE GatewayInv'
<1> USE GatewayAssumption
<1>1. writing' = [kind |-> "tick", due |-> Due, at |-> now] /\ up
  BY DEF Tick
<1>2. UNCHANGED <<up, now, disk, run, task, results, told, forgotten, crashes, errors>>
  BY DEF Tick, runVars, history
<1>3. Due \in SUBSET Jobs /\ now \in 0 .. MaxTime
  BY DEF Due, GatewayInv, Types, TypeOK
<1>4. \A j \in Jobs : jobs[j] \in Row
  BY DEF GatewayInv, Types, TypeOK
<1>5. \A j \in Due : /\ jobs'[j] = [jobs[j] EXCEPT !.next = now + 1] /\ jobs[j].enabled /\ jobs[j].next <= now
                     /\ jobs'[j] \in Row /\ jobs'[j].next = now + 1 /\ jobs'[j].enabled
  BY <1>3, <1>4 DEF Tick, Due, Row
<1>6. \A j \in Jobs \ Due : jobs'[j] = jobs[j]
  BY DEF Tick
<1>7. jobs' \in [Jobs -> Row]
  <2>1. \A j \in Jobs : jobs'[j] \in Row
    BY <1>4, <1>5, <1>6
  <2> QED
    BY <2>1 DEF Tick
<1>8. \A j \in Due : Exists(jobs, j) /\ Exists(jobs', j)
  BY <1>3, <1>4, <1>5, RowFacts DEF Exists
<1>9. Types'
  BY <1>1, <1>2, <1>3, <1>7 DEF GatewayInv, Types, TypeOK, Writes
<1>10. WriteSound'
  BY <1>1, <1>2, <1>3, <1>8 DEF GatewayInv, Safe, Fresh, Exists, WriteSound
<1>11. Fresh'
  BY <1>2, <1>3, <1>6, <1>8 DEF GatewayInv, Safe, Fresh, Exists
<1>12. NextIsLater'
  <2> SUFFICES ASSUME errors' = 0, NEW j \in Jobs
               PROVE  /\ \A r \in Runs : run'[r].job = j =>
                            /\ Exists(jobs', j) => run'[r].at < jobs'[j].next
                            /\ Exists(disk', j) => run'[r].at < disk'[j].next
                            /\ j \in Due => run'[r].at < now
                      /\ j \in Due => now < jobs'[j].next
    BY <1>1 DEF NextIsLater, Exists
  <2>1. \A r \in Runs : run[r].at \in Nat
    BY DEF GatewayInv, Types, TypeOK
  <2>2. jobs[j].next \in Nat /\ jobs'[j].next \in Nat
    BY <1>4, <1>7 DEF Row
  <2>3. \A r \in Runs : run[r].job = j =>
            (Exists(jobs, j) => run[r].at < jobs[j].next) /\ (Exists(disk, j) => run[r].at < disk[j].next)
    BY <1>2 DEF GatewayInv, Safe, NextIsLater
  <2>4. CASE j \in Due
    <3> HIDE DEF Due, Exists
    <3>0. j \in Due /\ now \in Nat
      BY <1>3, <2>4
    <3>1. Exists(jobs, j) /\ jobs[j].next <= now /\ jobs'[j].next = now + 1 /\ now \in Nat
      BY <1>5, <1>8, <3>0
    <3>2. \A r \in Runs : run[r].job = j => run[r].at < now
      BY <2>1, <2>2, <2>3, <3>1
    <3>3. \A r \in Runs : run[r].job = j => run[r].at < now + 1
      BY <2>1, <3>1, <3>2
    <3> QED
      BY <1>2, <2>3, <3>1, <3>2, <3>3 DEF Exists
  <2>5. CASE j \notin Due
    BY <1>2, <1>6, <2>3, <2>5 DEF Exists
  <2> QED
    BY <2>4, <2>5
<1>13. CreatedJobsPersist'
  BY <1>2, <1>6, <1>8 DEF GatewayInv, Safe, CreatedJobsPersist, Exists
<1>14. OncePerInterval'
  BY <1>2 DEF GatewayInv, Safe, OncePerInterval
<1> QED
  BY <1>9, <1>10, <1>11, <1>12, <1>13, <1>14 DEF GatewayInv, Safe

(* A write that is done or has failed lets its holder go on: a tick spawns *)
(* one run per due job, at the tick's time; nothing else gives a run a job.*)
LEMMA ProceedRuns ==
  ASSUME GatewayInv, Locked, Proceed
  PROVE  /\ run' \in [Runs -> RunRow]
         /\ \A r \in Runs :
               \/ run'[r].job = run[r].job /\ run'[r].at = run[r].at
               \/ /\ writing.kind = "tick" /\ run'[r].job \in writing.due
                  /\ run'[r].at = writing.at
         /\ \A r, s \in Runs : r # s /\ run'[r].job = run'[s].job /\ run'[r].job # None
                => \/ run'[r].job = run[r].job /\ run'[r].at = run[r].at
                   \/ run'[s].job = run[s].job /\ run'[s].at = run[s].at
<1>1. run \in [Runs -> RunRow] /\ writing \in Writes
  BY DEF GatewayInv, Types, TypeOK, RunRow
<1>2. CASE writing.kind = "tick"
  <2>1. PICK chosen \in [writing.due -> {r \in Runs : run[r] = Unused}] :
          /\ \A i, j \in writing.due : i # j => chosen[i] # chosen[j]
          /\ run' = Spawned(chosen, writing.at)
    BY <1>2 DEF Proceed
  <2>2. writing.due \in SUBSET Jobs /\ writing.at \in 0 .. MaxTime
    BY <1>1, <1>2, KindFacts
  <2>3. ASSUME NEW r \in Runs, ~ \E j \in writing.due : chosen[j] = r
        PROVE  run'[r] = run[r]
    BY <2>1, <2>3 DEF Spawned
  <2>4. ASSUME NEW j \in writing.due
        PROVE  /\ chosen[j] \in Runs
               /\ run'[chosen[j]] \in RunRow
               /\ run'[chosen[j]].job = j /\ run'[chosen[j]].at = writing.at
    <3>1. chosen[j] \in Runs
      BY <2>1, <2>4
    <3>2. (CHOOSE i \in writing.due : chosen[i] = chosen[j]) = j
      BY <2>1, <2>4
    <3>3. run'[chosen[j]] = [pc |-> "acquire", at |-> writing.at, job |-> j]
      BY <2>1, <2>4, <3>1, <3>2 DEF Spawned
    <3> QED
      BY <2>2, <2>4, <3>1, <3>3 DEF RunRow
  <2>6. \A r \in Runs :
          \/ run'[r] = run[r]
          \/ \E j \in writing.due :
                /\ chosen[j] = r /\ run'[r] \in RunRow
                /\ run'[r].job = j /\ run'[r].at = writing.at
    BY <2>3, <2>4
  <2>7. run' \in [Runs -> RunRow]
    <3>1. \A r \in Runs : run'[r] \in RunRow
      BY <1>1, <2>6
    <3> QED
      BY <2>1, <3>1 DEF Spawned
  <2> QED
    BY <1>2, <2>6, <2>7
<1>3. CASE writing.kind = "last"
  <2>1. writing.run \in Runs /\ run' = [run EXCEPT ![writing.run].pc = "done"]
    BY <1>1, <1>3, KindFacts DEF Proceed
  <2>2. run' \in [Runs -> RunRow]
    BY <1>1, <2>1 DEF RunRow
  <2>3. \A r \in Runs : run'[r].job = run[r].job /\ run'[r].at = run[r].at
    BY <1>1, <2>1 DEF RunRow
  <2> QED
    BY <2>2, <2>3
<1>4. CASE writing.kind \in {"create", "delete"}
  BY <1>1, <1>4 DEF Proceed
<1> QED
  BY <1>1, <1>2, <1>3, <1>4, KindFacts

(* ... and no two runs of a job get the same time, if no write failed.     *)
LEMMA ProceedOnce ==
  ASSUME GatewayInv, Locked, Proceed, errors = 0
  PROVE  \A r, s \in Runs : run'[r].job # None /\ run'[r].job = run'[s].job /\ r # s
                               => run'[r].at # run'[s].at
<1> SUFFICES ASSUME NEW r \in Runs, NEW s \in Runs, r # s,
                    run'[r].job # None, run'[r].job = run'[s].job
             PROVE  run'[r].at # run'[s].at
  OBVIOUS
<1> DEFINE Kept(q) == run'[q].job = run[q].job /\ run'[q].at = run[q].at
<1> DEFINE New(q) == /\ writing.kind = "tick" /\ run'[q].job \in writing.due
                     /\ run'[q].at = writing.at
<1>1. (Kept(r) \/ Kept(s)) /\ (Kept(r) \/ New(r)) /\ (Kept(s) \/ New(s))
  BY ProceedRuns
<1>2. \A q \in Runs : run[q].at \in Nat /\ run[q].job \in Jobs \union {None}
  BY DEF GatewayInv, Types, TypeOK
<1>3. writing.kind = "tick" => writing.at \in Nat /\ writing.due \in SUBSET Jobs
  BY KindFacts DEF GatewayInv, Types
<1>4. \A q \in Runs : writing.kind = "tick" /\ run[q].job \in writing.due => run[q].at < writing.at
  BY <1>3 DEF GatewayInv, Safe, NextIsLater
<1>5. CASE Kept(r) /\ Kept(s)
  BY <1>5 DEF GatewayInv, Safe, OncePerInterval
<1>6. CASE Kept(r) /\ New(s)
  BY <1>2, <1>3, <1>4, <1>6
<1>7. CASE Kept(s) /\ New(r)
  BY <1>2, <1>3, <1>4, <1>7
<1> QED
  BY <1>1, <1>5, <1>6, <1>7

(* What a client was told after a write that succeeded.                    *)
LEMMA AnsweredFacts ==
  ASSUME Types, Locked
  PROVE  /\ Answered \in [Jobs -> {"nothing", "asked", "created", "deleted"}]
         /\ \A j \in Jobs :
               /\ Answered[j] = "nothing" => told[j] = "nothing"
               /\ Answered[j] = "created" =>
                     told[j] = "created" \/ (writing.kind = "create" /\ j = writing.job)
<1>1. told \in [Jobs -> {"nothing", "asked", "created", "deleted"}] /\ writing \in Writes
  BY DEF Types, TypeOK
<1>2. CASE writing.kind = "create"
  <2>1. Answered = [told EXCEPT ![writing.job] = "created"]
    BY <1>2 DEF Answered
  <2> QED
    BY <1>1, <1>2, <2>1
<1>3. CASE writing.kind = "delete"
  <2>1. Answered = [told EXCEPT ![writing.job] = "deleted"]
    BY <1>3 DEF Answered
  <2> QED
    BY <1>1, <1>3, <2>1
<1>4. CASE writing.kind \notin {"create", "delete"}
  <2>1. Answered = told
    BY <1>4 DEF Answered
  <2> QED
    BY <1>1, <2>1
<1> QED
  BY <1>2, <1>3, <1>4

LEMMA PersistKeeps == ASSUME GatewayInv, Persist PROVE GatewayInv'
<1> USE GatewayAssumption
<1>1. /\ up /\ Locked /\ Proceed /\ disk' = jobs /\ told' = Answered /\ writing' = NoWrite
      /\ UNCHANGED <<up, now, jobs, task, results, forgotten, crashes, errors>>
  BY DEF Persist
<1>2. /\ run' \in [Runs -> RunRow]
      /\ \A r \in Runs :
            \/ run'[r].job = run[r].job /\ run'[r].at = run[r].at
            \/ writing.kind = "tick" /\ run'[r].job \in writing.due /\ run'[r].at = writing.at
  BY <1>1, ProceedRuns
<1>3. /\ told' \in [Jobs -> {"nothing", "asked", "created", "deleted"}]
      /\ \A j \in Jobs :
            /\ told'[j] = "nothing" => told[j] = "nothing"
            /\ told'[j] = "created" =>
                  told[j] = "created" \/ (writing.kind = "create" /\ j = writing.job)
  BY <1>1, AnsweredFacts DEF GatewayInv
<1>4. Types'
  BY <1>1, <1>2, <1>3 DEF GatewayInv, Types, TypeOK, RunRow, Writes, NoWrite
<1>5. WriteSound'
  BY <1>1 DEF WriteSound, NoWrite
<1>6. writing.kind = "tick" => writing.due \in SUBSET Jobs /\ writing.at \in Nat
  BY KindFacts DEF GatewayInv, Types
<1>7. Fresh'
  <2> SUFFICES ASSUME NEW j \in Jobs, told'[j] = "nothing"
               PROVE  jobs'[j] = NoJob /\ disk'[j] = NoJob /\ \A r \in Runs : run'[r].job # j
    BY DEF Fresh
  <2>1. told[j] = "nothing" /\ jobs[j] = NoJob /\ \A r \in Runs : run[r].job # j
    BY <1>3 DEF GatewayInv, Safe, Fresh
  <2>2. writing.kind = "tick" => j \notin writing.due
    BY <2>1 DEF GatewayInv, Safe, WriteSound
  <2> QED
    BY <1>1, <1>2, <2>1, <2>2
<1>8. NextIsLater'
  <2> SUFFICES ASSUME errors = 0, NEW j \in Jobs, NEW r \in Runs, run'[r].job = j, Exists(jobs, j)
               PROVE  run'[r].at < jobs[j].next
    BY <1>1 DEF NextIsLater, Exists, NoWrite
  <2>1. run[r].at \in Nat /\ jobs[j].next \in Nat
    BY DEF GatewayInv, Types, TypeOK, Row
  <2>2. CASE run[r].job = j /\ run'[r].at = run[r].at
    BY <2>2 DEF GatewayInv, Safe, NextIsLater
  <2>3. CASE writing.kind = "tick" /\ j \in writing.due /\ run'[r].at = writing.at
    BY <2>3 DEF GatewayInv, Safe, NextIsLater
  <2> QED
    BY <1>2, <2>2, <2>3
<1>9. CreatedJobsPersist'
  BY <1>1, <1>3 DEF GatewayInv, Safe, CreatedJobsPersist, WriteSound, Exists
<1>10. OncePerInterval'
  BY <1>1, ProceedOnce DEF OncePerInterval
<1> QED
  BY <1>4, <1>5, <1>7, <1>8, <1>9, <1>10 DEF GatewayInv, Safe

(* A failed write leaves the file as it was; what depends on no failure is *)
(* no longer claimed.                                                      *)
LEMMA PersistFailsKeeps == ASSUME GatewayInv, PersistFails PROVE GatewayInv'
<1> USE GatewayAssumption
<1>1. /\ up /\ Locked /\ Proceed /\ writing' = NoWrite /\ errors < MaxErrors /\ errors' = errors + 1
      /\ UNCHANGED <<up, now, jobs, disk, task, results, told, forgotten, crashes>>
  BY DEF PersistFails
<1>2. /\ run' \in [Runs -> RunRow]
      /\ \A r \in Runs :
            \/ run'[r].job = run[r].job /\ run'[r].at = run[r].at
            \/ writing.kind = "tick" /\ run'[r].job \in writing.due /\ run'[r].at = writing.at
  BY <1>1, ProceedRuns
<1>3. errors' \in 0 .. MaxErrors /\ errors' # 0
  BY <1>1 DEF GatewayInv, Types, TypeOK
<1>4. Types'
  BY <1>1, <1>2, <1>3 DEF GatewayInv, Types, TypeOK, RunRow, Writes, NoWrite
<1>5. WriteSound'
  BY <1>1 DEF WriteSound, NoWrite
<1>6. Fresh'
  BY <1>1, <1>2 DEF GatewayInv, Safe, Fresh, WriteSound
<1>7. NextIsLater' /\ OncePerInterval'
  BY <1>3 DEF NextIsLater, OncePerInterval
<1>8. CreatedJobsPersist'
  BY <1>1 DEF GatewayInv, Safe, CreatedJobsPersist, Exists
<1> QED
  BY <1>4, <1>5, <1>6, <1>7, <1>8 DEF GatewayInv, Safe

LEMMA UpdateLastKeeps == ASSUME GatewayInv, NEW r \in Runs, UpdateLast(r) PROVE GatewayInv'
<1> USE GatewayAssumption
<1>1. /\ up /\ writing = NoWrite /\ jobs' = WithLast(run[r].job, r)
      /\ UNCHANGED <<up, now, disk, task, results, told, forgotten, crashes, errors>>
  BY DEF UpdateLast, Locked, history
<1>2. \E at \in {"writing", "done"} : run' = [run EXCEPT ![r].pc = at]
  BY DEF UpdateLast
<1>3. writing' = NoWrite \/ writing' = [kind |-> "last", run |-> r]
  BY <1>1 DEF UpdateLast
<1>4. run \in [Runs -> RunRow] /\ jobs \in [Jobs -> Row]
  BY DEF GatewayInv, Types, TypeOK, RunRow
<1>5. run' \in [Runs -> RunRow]
  BY <1>2, <1>4 DEF RunRow
<1>6. \A q \in Runs : run'[q].job = run[q].job /\ run'[q].at = run[q].at
  BY <1>2, <1>4 DEF RunRow
<1>7. /\ jobs' \in [Jobs -> Row]
      /\ \A j \in Jobs : (Exists(jobs', j) <=> Exists(jobs, j)) /\ jobs'[j].next = jobs[j].next
  <2>1. CASE jobs' = jobs
    BY <1>4, <2>1
  <2>2. CASE jobs' # jobs
    <3> DEFINE j == run[r].job
    <3>1. Exists(jobs, j) /\ jobs' = [jobs EXCEPT ![j].last = r]
      BY <1>1, <2>2 DEF WithLast
    <3>2. CASE j \in Jobs
      <4>1. jobs'[j] = [jobs[j] EXCEPT !.last = r] /\ \A k \in Jobs \ {j} : jobs'[k] = jobs[k]
        BY <1>4, <3>1, <3>2
      <4>2. jobs'[j] \in Row /\ jobs'[j].last = r /\ jobs'[j].next = jobs[j].next
        BY <1>4, <3>2, <4>1 DEF Row
      <4>3. jobs'[j] # NoJob
        BY <4>2 DEF NoJob
      <4>4. jobs' \in [Jobs -> Row]
        BY <1>4, <3>1, <3>2, <4>1, <4>2
      <4> QED
        BY <3>1, <4>1, <4>2, <4>3, <4>4 DEF Exists
    <3>3. CASE j \notin Jobs
      BY <1>4, <2>2, <3>1, <3>3
    <3> QED
      BY <3>2, <3>3
  <2> QED
    BY <2>1, <2>2
<1>8. Types'
  BY <1>1, <1>3, <1>5, <1>7 DEF GatewayInv, Types, TypeOK, RunRow, Writes, NoWrite
<1>9. writing.kind = "none" /\ writing'.kind \in {"none", "last"}
  BY <1>1, <1>3 DEF NoWrite
<1>10. WriteSound'
  BY <1>1, <1>9 DEF WriteSound
<1>11. Fresh'
  BY <1>1, <1>6, <1>7 DEF GatewayInv, Safe, Fresh, Exists
<1>12. NextIsLater'
  BY <1>1, <1>6, <1>7, <1>9 DEF GatewayInv, Safe, NextIsLater, Exists
<1>13. CreatedJobsPersist'
  BY <1>1, <1>7 DEF GatewayInv, Safe, CreatedJobsPersist, Exists
<1>14. OncePerInterval'
  BY <1>1, <1>6 DEF GatewayInv, Safe, OncePerInterval
<1> QED
  BY <1>8, <1>10, <1>11, <1>12, <1>13, <1>14 DEF GatewayInv, Safe
-------------------------------------------------------------------------------
(* A crash forgets all but the file, which is the old one or the new one:  *)
(* the map a write was about to save holds every acknowledged job too.     *)
LEMMA CrashKeeps == ASSUME GatewayInv, Crash PROVE GatewayInv'
<1> USE GatewayAssumption
<1>1. /\ up /\ ~up' /\ up' \in BOOLEAN /\ jobs' = NoJobs /\ writing' = NoWrite /\ results' = <<>>
      /\ crashes < MaxCrashes /\ crashes' = crashes + 1
      /\ task' = [r \in Runs |-> "none"] /\ UNCHANGED <<now, told, forgotten, errors>>
  BY DEF Crash
<1>2. disk' = disk \/ disk' = jobs
  BY DEF Crash, AfterCrash
<1>3. run \in [Runs -> RunRow]
  BY DEF GatewayInv, Types, TypeOK, RunRow
<1>4. \A r \in Runs : run'[r] \in RunRow /\ run'[r].job = run[r].job /\ run'[r].at = run[r].at
  BY <1>3 DEF Crash, RunRow
<1>5. run' \in [Runs -> RunRow]
  BY <1>4 DEF Crash
<1>6. \A j \in Jobs : jobs'[j] = NoJob
  BY <1>1 DEF NoJobs
<1>7. Types'
  BY <1>1, <1>2, <1>5, RowFacts DEF GatewayInv, Types, TypeOK, RunRow, Writes, NoWrite
<1>8. WriteSound'
  BY <1>1 DEF WriteSound, NoWrite
<1>9. Fresh'
  BY <1>1, <1>2, <1>4, <1>6 DEF GatewayInv, Safe, Fresh
<1>10. NextIsLater'
  BY <1>1, <1>2, <1>4, <1>6 DEF GatewayInv, Safe, NextIsLater, Exists, NoWrite
<1>11. CreatedJobsPersist'
  BY <1>1, <1>2 DEF GatewayInv, Safe, CreatedJobsPersist, Exists
<1>12. OncePerInterval'
  BY <1>1, <1>4 DEF GatewayInv, Safe, OncePerInterval
<1> QED
  BY <1>7, <1>8, <1>9, <1>10, <1>11, <1>12 DEF GatewayInv, Safe

(* A start takes the jobs from the file or, when it cannot read it, none:  *)
(* the jobs it does not know are forgotten, until a start reads them.      *)
LEMMA RestartKeeps == ASSUME GatewayInv, Restart PROVE GatewayInv'
<1>1. /\ ~up /\ up' = TRUE
      /\ UNCHANGED <<now, disk, writing, run, task, results, told, crashes, errors>>
  BY DEF Restart, runVars
<1>2. writing = NoWrite
  BY <1>1 DEF GatewayInv, Safe, WriteSound
<1>3. \/ jobs' = disk /\ forgotten' = {j \in forgotten : ~Exists(disk, j)}
      \/ jobs' = NoJobs /\ forgotten' = forgotten \union {j \in Jobs : Exists(disk, j)}
  BY DEF Restart
<1>4. \A j \in Jobs : jobs'[j] = disk[j] \/ jobs'[j] = NoJob
  BY <1>3 DEF NoJobs
<1>5. Types'
  BY <1>1, <1>3, RowFacts DEF GatewayInv, Types, TypeOK
<1>6. WriteSound'
  BY <1>1, <1>2 DEF WriteSound, NoWrite
<1>7. Fresh'
  BY <1>1, <1>4 DEF GatewayInv, Safe, Fresh
<1>8. NextIsLater'
  BY <1>1, <1>2, <1>4 DEF GatewayInv, Safe, NextIsLater, Exists, NoWrite
<1>9. CreatedJobsPersist'
  <2> SUFFICES ASSUME NEW j \in Jobs, j \notin forgotten', told[j] = "created"
               PROVE  Exists(disk, j) /\ Exists(jobs', j)
    BY <1>1 DEF CreatedJobsPersist, Exists
  <2>1. j \notin forgotten => Exists(disk, j)
    BY DEF GatewayInv, Safe, CreatedJobsPersist
  <2> QED
    BY <1>3, <2>1 DEF Exists
<1>10. OncePerInterval'
  BY <1>1 DEF GatewayInv, Safe, OncePerInterval
<1> QED
  BY <1>5, <1>6, <1>7, <1>8, <1>9, <1>10 DEF GatewayInv, Safe

LEMMA GatewayStep == ASSUME GatewayInv, [Next]_vars PROVE GatewayInv'
<1>1. CASE TimePasses
  BY <1>1, TimeKeeps
<1>2. ASSUME NEW j \in Jobs, NEW enabled \in BOOLEAN, CreateJob(j, enabled) PROVE GatewayInv'
  BY <1>2, CreateKeeps
<1>3. ASSUME NEW j \in Jobs, DeleteJob(j) PROVE GatewayInv'
  BY <1>3, DeleteKeeps
<1>4. CASE Tick
  BY <1>4, TickKeeps
<1>5. CASE Persist
  BY <1>5, PersistKeeps
<1>6. CASE PersistFails
  BY <1>6, PersistFailsKeeps
<1>7. ASSUME NEW r \in Runs, RemoteExecute(r) PROVE GatewayInv'
  BY <1>7, RemoteKeeps
<1>8. ASSUME NEW r \in Runs, RunStep(r) \/ ClientLeaves(r) PROVE GatewayInv'
  BY <1>8, TaskKeeps, RecordKeeps, UpdateLastKeeps DEF RunStep
<1>9. CASE Crash
  BY <1>9, CrashKeeps
<1>10. CASE Restart
  BY <1>10, RestartKeeps
<1>11. CASE UNCHANGED vars
  <2>1. Types' /\ \A r \in Runs : run'[r] = run[r]
    BY <1>11 DEF vars, GatewayInv, Types, TypeOK
  <2>2. Safe'
    BY <1>11, <2>1, RunMoves DEF vars, Types, TypeOK, RunRow
  <2> QED
    BY <2>1, <2>2 DEF GatewayInv
<1> QED
  BY <1>1, <1>2, <1>3, <1>4, <1>5, <1>6, <1>7, <1>8, <1>9, <1>10, <1>11 DEF Next
-------------------------------------------------------------------------------
(* A job the client was told is created is in jobs.json, and in the map    *)
(* while the process runs: whatever write fails and whenever the process   *)
(* ends between a change of the map and the write of the file, unless a    *)
(* start could not read the file and none has read the job from it since.  *)
THEOREM AcknowledgedJobsSurvive == Spec => []CreatedJobsPersist
<1>1. GatewayInv => CreatedJobsPersist
  BY DEF GatewayInv, Safe
<1> QED
  BY <1>1, GatewayStart, GatewayStep, PTL DEF Spec

(* As long as no write of jobs.json failed, no two runs of a job are of    *)
(* the same interval, across any number of restarts: the scheduler writes  *)
(* the next times before it spawns the runs.                               *)
THEOREM JobsRunOnce == Spec => []OncePerInterval
<1>1. GatewayInv => OncePerInterval
  BY DEF GatewayInv, Safe
<1> QED
  BY <1>1, GatewayStart, GatewayStep, PTL DEF Spec

(* Every state the gateway reaches is well typed, and the retained results *)
(* never exceed their capacity.                                            *)
THEOREM GatewayTypes == Spec => []TypeOK
<1>1. GatewayInv => TypeOK
  BY DEF GatewayInv, Types
<1> QED
  BY <1>1, GatewayStart, GatewayStep, PTL DEF Spec

-------------------------------------------------------------------------------
(***************************************************************************)
(* The tables of the local store: workspaces, projects, modules,           *)
(* collections and environments.                                           *)
(***************************************************************************)

(* What the proofs need of the types.                                      *)
CollType ==
    coll \in [Collections -> [project : Projects, parent : Collections \union {NoId},
                              module : Module] \union {NoRow}]

TargetType == pc = "createProject" => target \in Projects

TreeInv == CollType /\ modules \subseteq Module /\ Forest /\ Homes

-------------------------------------------------------------------------------
(* The rows of a well typed table.                                         *)
LEMMA Rows ==
    ASSUME CollType
    PROVE  /\ Live \subseteq Collections
           /\ \A c \in Collections : c \notin Live => coll[c] = NoRow
           /\ \A c \in Live : /\ coll[c].project \in Projects
                              /\ coll[c].parent \in Collections \union {NoId}
                              /\ coll[c].module \in Module
                              /\ coll[c] = CollRow(coll[c].project, coll[c].parent, coll[c].module)
BY TreeAssumption DEF CollType, Live, NoRow, CollRow

(* The subtree of c is c and the collections whose parent is in it.        *)
LEMMA SubtreeFacts ==
    ASSUME CollType, Forest, NEW c \in Live
    PROVE  /\ Subtree(c) \subseteq Live
           /\ c \in Subtree(c)
           /\ \A d \in Live : d # c => (d \in Subtree(c) <=> coll[d].parent \in Subtree(c))
<1>1. Subtree(c) \subseteq Live /\ c \in Subtree(c)
  BY DEF Subtree
<1>2. ASSUME NEW d \in Live, d # c, coll[d].parent \in Subtree(c)
      PROVE  d \in Subtree(c)
  <2>1. coll[d].parent # NoId
    BY <1>1, <1>2, Rows, TreeAssumption
  <2>2. ASSUME NEW A \in SUBSET Live, d \in A, ParentClosed(A)
        PROVE  c \in A
    BY <2>1, <2>2, <1>2 DEF Subtree, ParentClosed
  <2> QED BY <2>2 DEF Subtree
<1>3. ASSUME NEW d \in Live, d # c, d \in Subtree(c)
      PROVE  coll[d].parent \in Subtree(c)
  <2>1. coll[d].parent # NoId
    <3> SUFFICES ASSUME coll[d].parent = NoId PROVE FALSE
      OBVIOUS
    <3>1. ParentClosed({d})
      BY DEF ParentClosed
    <3> QED BY <3>1, <1>3 DEF Subtree
  <2>2. coll[d].parent \in Live
    BY <2>1 DEF Forest
  <2>3. ASSUME NEW A \in SUBSET Live, coll[d].parent \in A, ParentClosed(A)
        PROVE  c \in A
    <3>1. A \union {d} \in SUBSET Live /\ d \in A \union {d}
      OBVIOUS
    <3>2. ParentClosed(A \union {d})
      BY <2>3 DEF ParentClosed
    <3>3. c \in A \union {d}
      BY <3>1, <3>2, <1>3 DEF Subtree
    <3> QED BY <3>3, <1>3
  <2> QED BY <2>2, <2>3 DEF Subtree
<1> QED BY <1>1, <1>2, <1>3

(* A subtree lies within the project of its root.                          *)
LEMMA SubtreeProject ==
    ASSUME CollType, Forest, Homes, NEW c \in Live, NEW d \in Subtree(c)
    PROVE  coll[d].project = coll[c].project
<1> DEFINE A == {x \in Live : coll[x].project = coll[d].project}
<1>1. d \in Live
  BY DEF Subtree
<1>2. ParentClosed(A)
  BY DEF ParentClosed, Homes, Forest
<1>3. A \in SUBSET Live /\ d \in A
  BY <1>1
<1>4. c \in A
  BY <1>2, <1>3 DEF Subtree
<1> QED BY <1>4

-------------------------------------------------------------------------------
(* Steps that leave the collections alone and delete no module.            *)
LEMMA SameTree ==
    ASSUME TreeInv, UNCHANGED coll, modules \subseteq modules', modules' \subseteq Module
    PROVE  TreeInv'
BY DEF TreeInv, CollType, Forest, Homes, Live

(* A new collection under a live parent of its project, or a root.         *)
LEMMA Created ==
    ASSUME TreeInv, NEW c \in Collections, c \notin Live, NEW p \in Projects,
           NEW parent \in Collections \union {NoId}, NEW m \in Module,
           parent # NoId => coll[parent].project = p /\ m = coll[parent].module,
           parent = NoId => m \in modules' /\ m[1] = p,
           coll' = [coll EXCEPT ![c] = CollRow(p, parent, m)],
           modules \subseteq modules', modules' \subseteq Module
    PROVE  TreeInv'
<1>1. CollType /\ Forest /\ Homes
  BY DEF TreeInv
<1>2. parent # NoId => parent \in Live
  BY TreeAssumption DEF Live
<1>3. /\ coll'[c].project = p /\ coll'[c].parent = parent /\ coll'[c].module = m
      /\ \A d \in Collections : d # c => coll'[d] = coll[d]
  BY <1>1 DEF CollType, CollRow
<1>4. Live' = Live \union {c}
  BY <1>3, TreeAssumption DEF Live
<1>5. CollType'
  BY <1>1 DEF CollType, CollRow
<1>6. \A d \in Live : coll[d].parent # c /\ coll'[d] = coll[d] /\ d # c
  BY <1>1, <1>3, Rows, TreeAssumption DEF Forest
<1>7. Forest'
  <2>1. \A d \in Live' : coll'[d].parent # NoId => coll'[d].parent \in Live'
    BY <1>1, <1>2, <1>3, <1>4, <1>6 DEF Forest
  <2>2. ASSUME NEW S \in SUBSET Live', S # {}
        PROVE  \E d \in S : coll'[d].parent \notin S
    <3>1. CASE S = {c}
      <4>1. parent # c
        BY <1>2, TreeAssumption
      <4> QED BY <3>1, <4>1, <1>3
    <3>2. CASE S # {c}
      <4>1. S \ {c} \in SUBSET Live /\ S \ {c} # {}
        BY <3>2, <2>2, <1>4
      <4>2. PICK d \in S \ {c} : coll[d].parent \notin S \ {c}
        BY <4>1, <1>1 DEF Forest
      <4> QED BY <4>1, <4>2, <1>6
    <3> QED BY <3>1, <3>2
  <2> QED BY <2>1, <2>2 DEF Forest
<1>8. Homes'
  <2> SUFFICES ASSUME NEW d \in Live'
               PROVE  /\ coll'[d].module \in modules' /\ coll'[d].module[1] = coll'[d].project
                      /\ coll'[d].parent # NoId =>
                           /\ coll'[coll'[d].parent].project = coll'[d].project
                           /\ coll'[coll'[d].parent].module = coll'[d].module
    BY DEF Homes
  <2>1. CASE d = c
    <3>1. CASE parent = NoId
      BY <2>1, <3>1, <1>3
    <3>2. CASE parent # NoId
      BY <2>1, <3>2, <1>1, <1>2, <1>3, <1>6 DEF Homes
    <3> QED BY <3>1, <3>2
  <2>2. CASE d \in Live
    BY <2>2, <1>1, <1>6 DEF Homes, Forest
  <2> QED BY <2>1, <2>2, <1>4
<1> QED BY <1>5, <1>7, <1>8 DEF TreeInv

(* Deleting a set of collections that holds the children of its members.   *)
LEMMA Deleted ==
    ASSUME TreeInv, NEW D \in SUBSET Collections,
           coll' = [d \in Collections |-> IF d \in D THEN NoRow ELSE coll[d]],
           \A d \in Live \ D : coll[d].parent \notin D,
           \A d \in Live \ D : coll[d].module \in modules',
           modules' \subseteq Module
    PROVE  TreeInv'
<1>1. CollType /\ Forest /\ Homes
  BY DEF TreeInv
<1>2. Live' = Live \ D
  BY DEF Live, NoRow
<1>3. \A d \in Live \ D : coll'[d] = coll[d]
  BY <1>1, Rows
<1>4. CollType'
  BY <1>1 DEF CollType
<1>5. Forest'
  <2>1. \A d \in Live' : coll'[d].parent # NoId => coll'[d].parent \in Live'
    BY <1>1, <1>2, <1>3 DEF Forest
  <2>2. ASSUME NEW S \in SUBSET Live', S # {}
        PROVE  \E d \in S : coll'[d].parent \notin S
    BY <2>2, <1>1, <1>2, <1>3 DEF Forest
  <2> QED BY <2>1, <2>2 DEF Forest
<1>6. Homes'
  BY <1>1, <1>2, <1>3 DEF Homes, Forest
<1> QED BY <1>4, <1>5, <1>6 DEF TreeInv

(* update_collection: c, with its subtree, is moved under another parent.  *)
LEMMA MovedKeeps ==
    ASSUME TreeInv, NEW c \in Live, NEW parent \in Collections \union {NoId},
           parent # NoId => ChainFree(parent, c),
           coll' = Moved(c, parent), UNCHANGED modules
    PROVE  TreeInv'
<1>1. CollType /\ Forest /\ Homes /\ modules \subseteq Module
  BY DEF TreeInv
<1>2. /\ Subtree(c) \subseteq Live /\ c \in Subtree(c)
      /\ \A d \in Live : d # c => (d \in Subtree(c) <=> coll[d].parent \in Subtree(c))
  BY <1>1, SubtreeFacts
<1> DEFINE m == coll[parent].module
<1>3. \A d \in Collections :
         /\ coll'[d].project = coll[d].project
         /\ coll'[d].parent = IF d = c THEN parent ELSE coll[d].parent
         /\ coll'[d].module = IF parent # NoId /\ d \in Subtree(c) THEN m
                              ELSE coll[d].module
  BY DEF Moved
<1>4. Live' = Live
  BY <1>3 DEF Live
<1>5. ASSUME parent # NoId
      PROVE  /\ parent \in Live \ Subtree(c)
             /\ coll[parent].project = coll[c].project
             /\ m \in modules /\ m[1] = coll[c].project /\ m \in Module
  <2>1. PICK A \in SUBSET {d \in Live : coll[d].project = coll[c].project} :
           parent \in A /\ c \notin A /\ ParentClosed(A)
    BY <1>5 DEF ChainFree
  <2>2. parent \in Live /\ coll[parent].project = coll[c].project
    BY <2>1
  <2>3. parent \notin Subtree(c)
    BY <2>1 DEF Subtree
  <2> QED BY <2>2, <2>3, <1>1 DEF Homes
<1>6. CollType'
  <2> SUFFICES ASSUME NEW d \in Collections
               PROVE  Moved(c, parent)[d] \in
                        [project : Projects, parent : Collections \union {NoId},
                         module : Module] \union {NoRow}
    BY DEF CollType, Moved
  <2>1. CASE d \in Live
    BY <2>1, <1>1, <1>5, Rows DEF Moved
  <2>2. CASE d \notin Live
    BY <2>2, <1>1, <1>2, Rows DEF Moved, NoRow
  <2> QED BY <2>1, <2>2
<1>7. Forest'
  <2>1. \A d \in Live' : coll'[d].parent # NoId => coll'[d].parent \in Live'
    BY <1>1, <1>3, <1>4, <1>5, Rows DEF Forest
  <2>2. ASSUME NEW S \in SUBSET Live, S # {}
        PROVE  \E d \in S : coll'[d].parent \notin S
    <3>1. CASE c \notin S
      BY <3>1, <2>2, <1>1, <1>3, Rows DEF Forest
    <3>2. CASE c \in S /\ parent \notin S
      BY <3>2, <1>3, <1>1, Rows
    <3>3. CASE c \in S /\ parent \in S
      <4>1. parent # NoId
        BY <3>3, <1>1, Rows, TreeAssumption
      <4>2. PICK A \in SUBSET {d \in Live : coll[d].project = coll[c].project} :
               parent \in A /\ c \notin A /\ ParentClosed(A)
        BY <4>1 DEF ChainFree
      <4>3. S \intersect A \in SUBSET Live /\ S \intersect A # {}
        BY <3>3, <4>2
      <4>4. PICK d \in S \intersect A : coll[d].parent \notin S \intersect A
        BY <4>3, <1>1 DEF Forest
      <4>5. d # c /\ d \in Live /\ d \in Collections
        BY <4>2, <4>3, <4>4, <1>1, Rows
      <4>6. coll[d].parent \notin S
        <5>1. CASE coll[d].parent = NoId
          BY <5>1, <1>1, Rows, TreeAssumption
        <5>2. CASE coll[d].parent # NoId
          BY <5>2, <4>2, <4>4 DEF ParentClosed
        <5> QED BY <5>1, <5>2
      <4> QED BY <4>4, <4>5, <4>6, <1>3
    <3> QED BY <3>1, <3>2, <3>3
  <2> QED BY <2>1, <2>2, <1>4 DEF Forest
<1>8. Homes'
  <2> SUFFICES ASSUME NEW d \in Live
               PROVE  /\ coll'[d].module \in modules /\ coll'[d].module[1] = coll'[d].project
                      /\ coll'[d].parent # NoId =>
                           /\ coll'[coll'[d].parent].project = coll'[d].project
                           /\ coll'[coll'[d].parent].module = coll'[d].module
    BY <1>4 DEF Homes
  <2>1. d \in Collections /\ c \in Collections
    BY <1>1, Rows
  <2>2. coll'[d].module \in modules /\ coll'[d].module[1] = coll'[d].project
    <3>1. CASE parent # NoId /\ d \in Subtree(c)
      BY <3>1, <2>1, <1>1, <1>3, <1>5, SubtreeProject
    <3>2. CASE ~(parent # NoId /\ d \in Subtree(c))
      BY <3>2, <2>1, <1>1, <1>3 DEF Homes
    <3> QED BY <3>1, <3>2
  <2>3. ASSUME coll'[d].parent # NoId
        PROVE  /\ coll'[coll'[d].parent].project = coll'[d].project
               /\ coll'[coll'[d].parent].module = coll'[d].module
    <3>1. CASE d = c
      <4>1. parent # NoId /\ coll'[d].parent = parent
        BY <3>1, <2>1, <2>3, <1>3
      <4> HIDE DEF m
      <4>2. parent \in Collections /\ coll'[parent].module = coll[parent].module
            /\ coll'[parent].project = coll[parent].project
        BY <4>1, <1>1, <1>3, <1>5, Rows
      <4>3. coll'[c].module = coll[parent].module /\ coll'[c].project = coll[c].project
        BY <4>1, <2>1, <1>2, <1>3 DEF m
      <4> QED BY <3>1, <4>1, <4>2, <4>3, <1>5
    <3>2. CASE d # c
      <4>1. coll'[d].parent = coll[d].parent /\ coll[d].parent \in Live
        BY <3>2, <2>1, <2>3, <1>1, <1>3 DEF Forest
      <4>2. /\ coll[coll[d].parent].project = coll[d].project
            /\ coll[coll[d].parent].module = coll[d].module
        BY <4>1, <1>1, Rows, TreeAssumption DEF Homes
      <4>3. d \in Subtree(c) <=> coll[d].parent \in Subtree(c)
        BY <3>2, <1>2
      <4>4. coll[d].parent \in Collections
        BY <4>1, <1>1, Rows
      <4> HIDE DEF m
      <4> QED BY <4>1, <4>2, <4>3, <4>4, <2>1, <1>3
    <3> QED BY <3>1, <3>2
  <2> QED BY <2>2, <2>3
<1> QED BY <1>1, <1>6, <1>7, <1>8 DEF TreeInv

-------------------------------------------------------------------------------
(* The collections stay a forest whose trees each lie in one project and   *)
(* one module: the inductive invariant.                                    *)
LEMMA TreeStep ==
    ASSUME TreeInv, TargetType, TablesNext
    PROVE  TreeInv'
<1>0. CollType /\ Forest /\ Homes /\ modules \subseteq Module
  BY DEF TreeInv
<1>d. \A p \in Projects : DefaultModule(p) \in Module
  BY TreeAssumption DEF DefaultModule, Module
<1>1. CASE Open
  <2>1. modules \subseteq modules' /\ modules' \subseteq Module
        /\ DefaultModule(DefaultProject) \in modules'
    BY <1>0, <1>1, <1>d, TreeAssumption DEF Open, RepairedModules, LiveProjects
  <2>2. CASE coll[DefaultCollection] = NoRow
    <3>1. coll' = [coll EXCEPT ![DefaultCollection] =
                      CollRow(DefaultProject, NoId, DefaultModule(DefaultProject))]
      BY <1>1, <2>2 DEF Open
    <3>2. DefaultCollection \notin Live /\ DefaultCollection \in Collections
      BY <2>2, TreeAssumption DEF Live, NoRow
    <3>3. DefaultModule(DefaultProject) \in Module
          /\ DefaultModule(DefaultProject)[1] = DefaultProject
      BY <1>d, TreeAssumption DEF DefaultModule
    <3> QED BY <2>1, <3>1, <3>2, <3>3, TreeAssumption, Created
  <2>3. CASE coll[DefaultCollection] # NoRow
    <3>1. coll' = coll
      BY <1>0, <1>1, <2>3 DEF Open, CollType
    <3> QED BY <2>1, <3>1, SameTree
  <2> QED BY <2>2, <2>3
<1>2. CASE \E c \in Collections, p \in Projects, parent \in Collections \union {NoId},
            asked \in Module : CreateCollection(c, p, parent, asked)
  <2>1. PICK c \in Collections, p \in Projects, parent \in Collections \union {NoId},
            asked \in Module : CreateCollection(c, p, parent, asked)
    BY <1>2
  <2> DEFINE m == ModuleOfNew(p, parent, asked)
  <2>2. c \notin Live
    BY <2>1 DEF CreateCollection, Live, NoRow
  <2>3. parent # NoId => coll[parent].project = p /\ m = coll[parent].module
    BY <2>1 DEF CreateCollection, ModuleOfNew
  <2>4. parent = NoId => m \in modules /\ m[1] = p
    BY <2>1 DEF CreateCollection, ModuleOfNew
  <2>5. m \in Module
    <3>1. CASE parent = NoId
      BY <3>1, <2>4, <1>0
    <3>2. CASE parent # NoId
      <4>1. parent \in Live
        BY <3>2, <2>3, TreeAssumption DEF Live
      <4> QED BY <4>1, <2>3, <3>2, <1>0, Rows
    <3> QED BY <3>1, <3>2
  <2>6. coll' = [coll EXCEPT ![c] = CollRow(p, parent, m)] /\ modules' = modules
    BY <2>1 DEF CreateCollection
  <2> HIDE DEF m
  <2> QED BY <2>2, <2>3, <2>4, <2>5, <2>6, <1>0, Created
<1>3. CASE \E c \in Collections, parent \in Collections \union {NoId} : UpdateCollection(c, parent)
  BY <1>3, MovedKeeps DEF UpdateCollection
<1>4. CASE \E c \in Collections : DeleteCollection(c)
  <2>1. PICK c \in Collections : DeleteCollection(c)
    BY <1>4
  <2>2. c \in Live /\ modules' = modules
        /\ coll' = [d \in Collections |-> IF d \in Subtree(c) THEN NoRow ELSE coll[d]]
    BY <2>1 DEF DeleteCollection
  <2>3. /\ Subtree(c) \subseteq Live /\ c \in Subtree(c)
        /\ \A d \in Live : d # c => (d \in Subtree(c) <=> coll[d].parent \in Subtree(c))
    BY <2>2, <1>0, SubtreeFacts
  <2>4. Subtree(c) \in SUBSET Collections
    BY <2>3, <1>0, Rows
  <2>5. \A d \in Live \ Subtree(c) : coll[d].parent \notin Subtree(c)
    BY <2>3
  <2>6. \A d \in Live \ Subtree(c) : coll[d].module \in modules'
    BY <2>2, <1>0 DEF Homes
  <2> HIDE DEF Subtree
  <2> QED BY <2>2, <2>4, <2>5, <2>6, <1>0, Deleted
<1>5. ASSUME NEW p \in Projects, DropProject(p)
      PROVE  TreeInv'
  <2> DEFINE D == {c \in Collections : coll[c].project = p}
  <2>1. coll' = [d \in Collections |-> IF d \in D THEN NoRow ELSE coll[d]]
        /\ modules' = {x \in modules : x[1] # p}
    BY <1>5 DEF DropProject
  <2>2. \A d \in Live \ D : coll[d].parent \notin D /\ coll[d].module \in modules'
    BY <2>1, <1>0, Rows, TreeAssumption DEF Homes
  <2> HIDE DEF D
  <2>3. D \in SUBSET Collections
    BY DEF D
  <2> QED BY <2>1, <2>2, <2>3, <1>0, Deleted
<1>6. CASE (\E p \in Projects : DeleteProject(p)) \/ DeleteWorkspaceProject
  BY <1>5, <1>6 DEF DeleteProject, DeleteWorkspaceProject, LiveProjects
<1>7. CASE EnvironmentStep \/ Stop
  <2>1. UNCHANGED <<coll, modules>>
    BY <1>7 DEF EnvironmentStep, Stop, CreateEnvironment, PutEnvironmentRead,
       PutEnvironmentSave, DeleteEnvironment
  <2> QED BY <2>1, <1>0, SameTree
<1>8. CASE \/ \E w \in Workspaces : CreateWorkspace(w)
           \/ \E w \in Workspaces, p \in Projects : CreateProject(w, p)
           \/ \E w \in Workspaces : DeleteWorkspace(w)
           \/ DeleteWorkspaceRow \/ DeleteWorkspaceFails
  <2>1. UNCHANGED <<coll, modules>>
    BY <1>8 DEF CreateWorkspace, CreateProject, DeleteWorkspace, DeleteWorkspaceRow,
       DeleteWorkspaceFails
  <2> QED BY <2>1, <1>0, SameTree
<1>9. CASE CreateProjectModule
  <2>1. UNCHANGED coll /\ modules \subseteq modules'
        /\ modules' \subseteq modules \union {DefaultModule(target)}
    BY <1>9 DEF CreateProjectModule
  <2>2. target \in Projects
    BY <1>9 DEF CreateProjectModule, TargetType
  <2>3. modules' \subseteq Module
    BY <2>1, <2>2, <1>0, <1>d
  <2> QED BY <2>1, <2>3, SameTree
<1>10. CASE \E m \in Module : CreateModule(m)
  <2>1. UNCHANGED coll /\ modules \subseteq modules' /\ modules' \subseteq Module
    BY <1>10, <1>0 DEF CreateModule
  <2> QED BY <2>1, SameTree
<1> QED BY <1>1, <1>2, <1>3, <1>4, <1>6, <1>7, <1>8, <1>9, <1>10
        DEF TablesNext, CollectionStep, ProjectStep

(* While create_project is between its statements, its target is a project.*)
LEMMA TargetStep ==
    ASSUME TargetType, TablesNext
    PROVE  TargetType'
BY DEF TargetType, TablesNext, Open, Stop, CollectionStep, EnvironmentStep, ProjectStep,
   CreateCollection, UpdateCollection, DeleteCollection, CreateEnvironment,
   PutEnvironmentRead, PutEnvironmentSave, DeleteEnvironment, CreateWorkspace,
   CreateProject, CreateProjectModule, CreateModule, DeleteProject, DeleteWorkspace,
   DeleteWorkspaceProject, DeleteWorkspaceRow, DeleteWorkspaceFails

(* An empty store has no collection.                                       *)
LEMMA TreeInit ==
    ASSUME TablesInit
    PROVE  TreeInv /\ TargetType
BY DEF TablesInit, TreeInv, TargetType, CollType, Forest, Homes, Live, NoRow

(* The tree invariant holds in every state of the store, through moves,    *)
(* cascades, failures and restarts.                                        *)
THEOREM TreeInvariant == TablesSpec => [](TreeInv /\ TargetType)
<1>1. TablesInit => TreeInv /\ TargetType
  BY TreeInit
<1>2. TreeInv /\ TargetType /\ [TablesNext]_tablesVars => TreeInv' /\ TargetType'
  <2> SUFFICES ASSUME TreeInv, TargetType, [TablesNext]_tablesVars
               PROVE  TreeInv' /\ TargetType'
    OBVIOUS
  <2>1. CASE TablesNext
    BY <2>1, TreeStep, TargetStep
  <2>2. CASE UNCHANGED tablesVars
    <3>1. UNCHANGED <<coll, modules, pc, target>>
      BY <2>2 DEF tablesVars
    <3>2. TreeInv'
      BY <3>1, SameTree DEF TreeInv
    <3> QED BY <3>1, <3>2 DEF TargetType
  <2> QED BY <2>1, <2>2
<1> QED BY <1>1, <1>2, PTL DEF TablesSpec

(* update_collection's walk up the parents and the cascades never meet a   *)
(* cycle or a parent that is gone.                                         *)
THEOREM CollectionsAreAForest == TablesSpec => []Forest
<1>1. TreeInv => Forest
  BY DEF TreeInv
<1> QED BY <1>1, TreeInvariant, PTL

(* A collection, its parent and so its whole tree share one project and    *)
(* one of that project's modules.                                          *)
THEOREM TreesHaveOneHome == TablesSpec => []Homes
<1>1. TreeInv => Homes
  BY DEF TreeInv
<1> QED BY <1>1, TreeInvariant, PTL

-------------------------------------------------------------------------------
(* While create_project is between its statements, its project exists.     *)
LiveTarget == pc = "createProject" => target \in LiveProjects

StoreInv == TablesTypeOK /\ NoOrphans /\ LiveTarget

(* Dropping a project drops what belongs to it.                            *)
LEMMA DropKeeps ==
    ASSUME StoreInv, NEW p \in Projects, DropProject(p), workspaces' = workspaces,
           NEW c \in Collections
    PROVE  coll'[c].project # NoId => coll'[c] = coll[c] /\ coll[c].project # p /\ coll[c].project # NoId
<1>1. coll' = [d \in Collections |-> IF coll[d].project = p THEN NoRow ELSE coll[d]]
  BY DEF DropProject
<1> QED BY <1>1 DEF NoRow

LEMMA OrphansOfDrop ==
    ASSUME StoreInv, NEW p \in Projects, DropProject(p), workspaces' = workspaces
    PROVE  NoOrphans' /\ projects' \in [Projects -> Workspaces \union {NoId}]
           /\ coll' \in [Collections -> [project : Projects, parent : Collections \union {NoId},
                                         module : Module] \union {NoRow}]
           /\ envs' \in [Environments -> Projects \union {NoId}] /\ modules' \subseteq Module
<1>t. /\ projects \in [Projects -> Workspaces \union {NoId}] /\ envs \in [Environments -> Projects \union {NoId}]
      /\ coll \in [Collections -> [project : Projects, parent : Collections \union {NoId},
                                   module : Module] \union {NoRow}]
      /\ modules \subseteq Module
  BY DEF StoreInv, TablesTypeOK
<1>o. NoOrphans
  BY DEF StoreInv
<1>1. /\ projects' = [projects EXCEPT ![p] = NoId]
      /\ envs' = [e \in Environments |-> IF envs[e] = p THEN NoId ELSE envs[e]]
      /\ coll' = [c \in Collections |-> IF coll[c].project = p THEN NoRow ELSE coll[c]]
      /\ modules' = {m \in modules : m[1] # p}
  BY DEF DropProject
<1>2. LiveProjects' = LiveProjects \ {p}
  BY <1>t, <1>1 DEF LiveProjects
<1>3. \A m \in modules' : m[1] \in LiveProjects'
  BY <1>o, <1>1, <1>2 DEF NoOrphans
<1>4. \A c \in Live' : coll'[c].project \in LiveProjects'
  <2> SUFFICES ASSUME NEW c \in Collections, coll'[c].project # NoId PROVE coll'[c].project \in LiveProjects'
    BY DEF Live
  <2>1. coll'[c] = coll[c] /\ coll[c].project # p /\ coll[c].project # NoId
    BY DropKeeps
  <2>2. coll[c].project \in LiveProjects
    BY <2>1, <1>o DEF NoOrphans, Live
  <2> QED BY <2>1, <2>2, <1>2
<1>5. \A e \in Environments : envs'[e] # NoId => envs'[e] \in LiveProjects'
  BY <1>o, <1>1, <1>2 DEF NoOrphans
<1>6. \A q \in LiveProjects' : projects'[q] \in workspaces'
  BY <1>o, <1>t, <1>1, <1>2 DEF NoOrphans, LiveProjects
<1>7. NoOrphans'
  BY <1>3, <1>4, <1>5, <1>6 DEF NoOrphans
<1>8. projects' \in [Projects -> Workspaces \union {NoId}]
  BY <1>t, <1>1
<1>9. /\ envs' \in [Environments -> Projects \union {NoId}] /\ modules' \subseteq Module
      /\ coll' \in [Collections -> [project : Projects, parent : Collections \union {NoId},
                                    module : Module] \union {NoRow}]
  BY <1>t, <1>1
<1> QED BY <1>7, <1>8, <1>9

(* A fault is counted.                                                     *)
LEMMA FaultCounted == ASSUME StoreInv, Fault PROVE faults' \in 0 .. MaxFaults
  BY TreeAssumption DEF Fault, StoreInv, TablesTypeOK

(* No step leaves an orphan.                                               *)
LEMMA StoreStep == ASSUME StoreInv, TreeInv, TreeInv', TablesNext PROVE StoreInv'
<1>t. /\ workspaces \subseteq Workspaces /\ projects \in [Projects -> Workspaces \union {NoId}]
      /\ modules \subseteq Module /\ envs \in [Environments -> Projects \union {NoId}]
      /\ coll \in [Collections -> [project : Projects, parent : Collections \union {NoId},
                                   module : Module] \union {NoRow}]
      /\ edit \in [env : Environments, project : Projects] \union {NoEdit}
      /\ faults \in 0 .. MaxFaults
  BY DEF StoreInv, TablesTypeOK
<1>o. NoOrphans
  BY DEF StoreInv
<1>c. CollType' /\ modules' \subseteq Module
  BY DEF TreeInv
<1>1. CASE Open
  <2>1. /\ pc' = "idle" /\ UNCHANGED <<target, edit, faults>>
        /\ workspaces' = workspaces \union {DefaultWorkspace}
        /\ projects' = [projects EXCEPT ![DefaultProject] = IF @ = NoId THEN DefaultWorkspace ELSE @]
        /\ modules' = modules \union RepairedModules
        /\ envs' = [envs EXCEPT ![DefaultEnv] = IF @ = NoId THEN DefaultProject ELSE @]
        /\ coll' = [coll EXCEPT ![DefaultCollection] =
                       IF @ = NoRow THEN CollRow(DefaultProject, NoId, DefaultModule(DefaultProject)) ELSE @]
    BY <1>1 DEF Open
  <2>2. LiveProjects' = LiveProjects \union {DefaultProject}
    BY <1>t, <2>1, TreeAssumption DEF LiveProjects
  <2>3. TablesTypeOK'
    BY <1>t, <1>c, <2>1, TreeAssumption DEF TablesTypeOK, CollType
  <2>4. \A m \in modules' : m[1] \in LiveProjects'
    BY <1>o, <2>1, <2>2 DEF NoOrphans, RepairedModules, DefaultModule
  <2>5. \A c \in Live' : coll'[c].project \in LiveProjects'
    <3> SUFFICES ASSUME NEW c \in Collections, coll'[c].project # NoId PROVE coll'[c].project \in LiveProjects'
      BY DEF Live
    <3>1. CASE coll'[c] = coll[c]
      BY <3>1, <1>o, <2>2 DEF NoOrphans, Live
    <3>2. CASE coll'[c] # coll[c]
      <4>1. coll'[c] = CollRow(DefaultProject, NoId, DefaultModule(DefaultProject))
        BY <3>2, <1>t, <2>1
      <4> QED BY <4>1, <2>2 DEF CollRow
    <3> QED BY <3>1, <3>2
  <2>6. \A e \in Environments : envs'[e] # NoId => envs'[e] \in LiveProjects'
    BY <1>o, <1>t, <2>1, <2>2 DEF NoOrphans
  <2>7. \A p \in LiveProjects' : projects'[p] \in workspaces'
    BY <1>o, <1>t, <2>1, <2>2, TreeAssumption DEF NoOrphans, LiveProjects
  <2> QED BY <2>1, <2>3, <2>4, <2>5, <2>6, <2>7 DEF StoreInv, NoOrphans, LiveTarget
<1>2. CASE Stop
  <2>1. pc' = "down" /\ edit' = NoEdit /\ UNCHANGED <<workspaces, projects, modules, coll, envs>> /\ Fault
    BY <1>2 DEF Stop
  <2>2. faults' \in 0 .. MaxFaults
    BY <2>1, FaultCounted
  <2>3. TablesTypeOK'
    BY <1>t, <2>1, <2>2 DEF TablesTypeOK
  <2> QED BY <2>1, <2>3, <1>o DEF StoreInv, NoOrphans, LiveTarget, Live, LiveProjects
<1>3. CASE CollectionStep
  <2>1. pc = "idle" /\ UNCHANGED <<workspaces, projects, modules, envs, pc, target, edit, faults>>
    BY <1>3 DEF CollectionStep, CreateCollection, UpdateCollection, DeleteCollection
  <2>2. TablesTypeOK'
    BY <1>t, <1>c, <2>1 DEF TablesTypeOK, CollType
  <2>3. LiveProjects' = LiveProjects
    BY <2>1 DEF LiveProjects
  <2>4. \A c \in Live' : coll'[c].project \in LiveProjects
    <3> SUFFICES ASSUME NEW c \in Collections, coll'[c].project # NoId PROVE coll'[c].project \in LiveProjects
      BY DEF Live
    <3>1. CASE coll'[c].project = coll[c].project
      BY <3>1, <1>o DEF NoOrphans, Live
    <3>2. ASSUME NEW d \in Collections, NEW p \in Projects, NEW parent \in Collections \union {NoId},
                 NEW asked \in Module, CreateCollection(d, p, parent, asked), coll'[c].project # coll[c].project
          PROVE coll'[c].project \in LiveProjects
      <4>1. coll' = [coll EXCEPT ![d] = CollRow(p, parent, ModuleOfNew(p, parent, asked))] /\ p \in LiveProjects
        BY <3>2 DEF CreateCollection
      <4>2. c = d /\ coll'[c] = CollRow(p, parent, ModuleOfNew(p, parent, asked))
        BY <1>t, <3>2, <4>1
      <4> QED BY <4>1, <4>2 DEF CollRow
    <3>3. ASSUME NEW d \in Collections, NEW parent \in Collections \union {NoId}, UpdateCollection(d, parent)
          PROVE coll'[c].project = coll[c].project
      BY <3>3 DEF UpdateCollection, Moved
    <3>4. ASSUME NEW d \in Collections, DeleteCollection(d)
          PROVE coll'[c].project = coll[c].project
      <4>1. coll'[c] = IF c \in Subtree(d) THEN NoRow ELSE coll[c]
        BY <3>4 DEF DeleteCollection
      <4> QED BY <4>1 DEF NoRow
    <3> QED BY <1>3, <3>1, <3>2, <3>3, <3>4 DEF CollectionStep
  <2> QED BY <1>o, <2>1, <2>2, <2>3, <2>4 DEF StoreInv, NoOrphans, LiveTarget
<1>4. CASE EnvironmentStep
  <2>1. pc = "idle" /\ UNCHANGED <<workspaces, projects, modules, coll, pc, target, faults>>
    BY <1>4 DEF EnvironmentStep, CreateEnvironment, PutEnvironmentRead, PutEnvironmentSave, DeleteEnvironment
  <2>2. LiveProjects' = LiveProjects /\ Live' = Live /\ LiveProjects \subseteq Projects
    BY <2>1 DEF LiveProjects, Live
  <2>3. /\ edit' \in [env : Environments, project : Projects] \union {NoEdit}
        /\ envs' \in [Environments -> Projects \union {NoId}]
        /\ \A e \in Environments : envs'[e] = envs[e] \/ envs'[e] = NoId \/ envs'[e] \in LiveProjects
    <3>1. CASE \E e \in Environments, p \in Projects : CreateEnvironment(e, p) \/ PutEnvironmentRead(e, p)
      BY <3>1, <1>t DEF CreateEnvironment, PutEnvironmentRead
    <3>2. CASE PutEnvironmentSave
      BY <3>2, <1>t, <2>2 DEF PutEnvironmentSave, ProjectStillThere
    <3>3. CASE \E e \in Environments : DeleteEnvironment(e)
      BY <3>3, <1>t DEF DeleteEnvironment
    <3> QED BY <1>4, <3>1, <3>2, <3>3 DEF EnvironmentStep
  <2>4. TablesTypeOK'
    BY <1>t, <2>1, <2>3 DEF TablesTypeOK
  <2> QED BY <1>o, <2>1, <2>2, <2>3, <2>4 DEF StoreInv, NoOrphans, LiveTarget
<1>5. CASE (\E w \in Workspaces : CreateWorkspace(w)) \/ (\E w \in Workspaces : DeleteWorkspace(w))
  <2>1. /\ UNCHANGED <<projects, modules, coll, envs, edit, faults>> /\ workspaces \subseteq workspaces'
        /\ workspaces' \subseteq Workspaces /\ pc' \in {"idle", "deleteWorkspace"}
        /\ pc' = "deleteWorkspace" => target' \in Workspaces
    BY <1>5, <1>t DEF CreateWorkspace, DeleteWorkspace
  <2>2. LiveProjects' = LiveProjects /\ Live' = Live
    BY <2>1 DEF LiveProjects, Live
  <2>3. TablesTypeOK'
    BY <1>t, <2>1 DEF TablesTypeOK
  <2> QED BY <1>o, <2>1, <2>2, <2>3 DEF StoreInv, NoOrphans, LiveTarget
<1>6. CASE \E w \in Workspaces, p \in Projects : CreateProject(w, p)
  <2>1. PICK w \in Workspaces, p \in Projects : CreateProject(w, p)
    BY <1>6
  <2>2. /\ UNCHANGED <<workspaces, modules, coll, envs, edit, faults>> /\ w \in workspaces
        /\ projects' = [projects EXCEPT ![p] = w] /\ pc' = "createProject" /\ target' = p
    BY <2>1 DEF CreateProject
  <2>3. LiveProjects' = LiveProjects \union {p} /\ Live' = Live
    BY <1>t, <2>2, TreeAssumption DEF LiveProjects, Live
  <2>4. TablesTypeOK'
    BY <1>t, <2>2 DEF TablesTypeOK
  <2>5. \A q \in LiveProjects' : projects'[q] \in workspaces'
    BY <1>o, <1>t, <2>2, <2>3 DEF NoOrphans, LiveProjects
  <2> QED BY <1>o, <2>2, <2>3, <2>4, <2>5 DEF StoreInv, NoOrphans, LiveTarget
<1>7. CASE CreateProjectModule \/ (\E m \in Module : CreateModule(m))
  <2>1. /\ UNCHANGED <<workspaces, projects, coll, envs, edit>> /\ pc' = "idle"
        /\ \A m \in modules' : m \in modules \/ m[1] \in LiveProjects
    BY <1>7 DEF CreateProjectModule, CreateModule, DefaultModule, StoreInv, LiveTarget
  <2>2. faults' \in 0 .. MaxFaults
    BY <1>7, <1>t, FaultCounted DEF CreateProjectModule, CreateModule
  <2>3. TablesTypeOK'
    BY <1>t, <1>c, <2>1, <2>2 DEF TablesTypeOK
  <2>4. LiveProjects' = LiveProjects /\ Live' = Live
    BY <2>1 DEF LiveProjects, Live
  <2> QED BY <1>o, <2>1, <2>3, <2>4 DEF StoreInv, NoOrphans, LiveTarget
<1>8. CASE (\E p \in Projects : DeleteProject(p)) \/ DeleteWorkspaceProject
  <2>1. PICK p \in Projects : DropProject(p)
    BY <1>8 DEF DeleteProject, DeleteWorkspaceProject, LiveProjects
  <2>2. UNCHANGED <<workspaces, pc, target, edit, faults>> /\ pc # "createProject"
    BY <1>8 DEF DeleteProject, DeleteWorkspaceProject
  <2>3. /\ NoOrphans' /\ projects' \in [Projects -> Workspaces \union {NoId}]
        /\ envs' \in [Environments -> Projects \union {NoId}]
    BY <2>1, <2>2, OrphansOfDrop
  <2>4. TablesTypeOK'
    BY <1>c, <2>2, <2>3 DEF StoreInv, TablesTypeOK, CollType
  <2> QED BY <2>2, <2>3, <2>4 DEF StoreInv, LiveTarget
<1>9. CASE DeleteWorkspaceRow
  <2>1. /\ UNCHANGED <<projects, modules, coll, envs, edit, faults>> /\ pc' = "idle"
        /\ workspaces' = workspaces \ {target} /\ \A p \in LiveProjects : projects[p] # target
    BY <1>9 DEF DeleteWorkspaceRow
  <2>2. LiveProjects' = LiveProjects /\ Live' = Live
    BY <2>1 DEF LiveProjects, Live
  <2>3. TablesTypeOK'
    BY <1>t, <2>1 DEF TablesTypeOK
  <2> QED BY <1>o, <2>1, <2>2, <2>3 DEF StoreInv, NoOrphans, LiveTarget
<1>10. CASE DeleteWorkspaceFails
  <2>1. UNCHANGED <<workspaces, projects, modules, coll, envs, edit>> /\ pc' = "idle" /\ Fault
    BY <1>10 DEF DeleteWorkspaceFails
  <2>2. faults' \in 0 .. MaxFaults
    BY <2>1, FaultCounted
  <2>3. TablesTypeOK'
    BY <1>t, <2>1, <2>2 DEF TablesTypeOK
  <2> QED BY <2>1, <2>3, <1>o DEF StoreInv, NoOrphans, LiveTarget, Live, LiveProjects
<1> QED BY <1>1, <1>2, <1>3, <1>4, <1>5, <1>6, <1>7, <1>8, <1>9, <1>10 DEF TablesNext, ProjectStep

(* The empty store.                                                        *)
LEMMA StoreInit == ASSUME TablesInit PROVE StoreInv
<1>1. TablesTypeOK
  BY TreeAssumption DEF TablesInit, TablesTypeOK
<1>2. Live = {} /\ LiveProjects = {}
  BY DEF TablesInit, Live, LiveProjects, NoRow
<1>3. NoOrphans /\ LiveTarget
  BY <1>2 DEF TablesInit, NoOrphans, LiveTarget
<1> QED BY <1>1, <1>3 DEF StoreInv

LEMMA StoreInvariant == TablesSpec => []StoreInv
<1>1. TablesInit => StoreInv
  BY StoreInit
<1>2. StoreInv /\ TreeInv /\ TreeInv' /\ [TablesNext]_tablesVars => StoreInv'
  <2> SUFFICES ASSUME StoreInv, TreeInv, TreeInv', [TablesNext]_tablesVars PROVE StoreInv'
    OBVIOUS
  <2>1. CASE UNCHANGED tablesVars
    BY <2>1 DEF tablesVars, StoreInv, TablesTypeOK, NoOrphans, LiveTarget, Live, LiveProjects
  <2> QED BY <2>1, StoreStep
<1> QED BY <1>1, <1>2, TreeInvariant, PTL DEF TablesSpec

(* The tables and the operation under way keep their types.                *)
THEOREM StoreTypes == TablesSpec => []TablesTypeOK
<1>1. StoreInv => TablesTypeOK
  BY DEF StoreInv
<1> QED BY <1>1, StoreInvariant, PTL

(* No row outlives its owner, whatever deletes were cut short by a failure *)
(* or a restart and whatever PUT wrote back what it had read before one.   *)
THEOREM NothingIsOrphaned == TablesSpec => []NoOrphans
<1>1. StoreInv => NoOrphans
  BY DEF StoreInv
<1> QED BY <1>1, StoreInvariant, PTL
===============================================================================
