------------------------------- MODULE Gateway -------------------------------
(***************************************************************************)
(* The protocol gateway: interval jobs kept in a map and in jobs.json, the *)
(* scheduler that spawns a run for every due job, remote runs, the permits *)
(* that limit them, and restarts.                                          *)
(*                                                                         *)
(* The map is behind a mutex that is held while the file is written:       *)
(* `writing` is the holder.  The file is written beside and renamed, so it *)
(* holds the old jobs or the new ones.  A run is the future of             *)
(* run_execution; the engine's task it waits for is a task of its own.     *)
(***************************************************************************)
EXTENDS Naturals, Sequences, FiniteSets

CONSTANTS
    Jobs,         \* ids for jobs
    Runs,         \* ids for runs
    Permits,      \* APIVOY_GATEWAY_MAX_CONCURRENCY
    MaxResults,   \* capacity of the results (500 in the code)
    MaxTime,      \* bound on the intervals that pass
    MaxCrashes,   \* bound on restarts
    MaxErrors,    \* bound on failed writes of jobs.json
    None

ASSUME GatewayAssumption ==
    /\ Permits \in Nat \ {0} /\ MaxResults \in Nat \ {0}
    /\ MaxTime \in Nat /\ MaxCrashes \in Nat /\ MaxErrors \in Nat
    /\ None \notin Jobs \union Runs

VARIABLES
    up,        \* the process runs
    now,       \* intervals that have passed
    jobs,      \* the map: enabled, next_run_at, last_execution_id
    disk,      \* the jobs in jobs.json
    writing,   \* who holds the mutex and is about to write jobs.json
    run,       \* each run: control point, job and time a tick spawned it
    task,      \* the engine's task of each run: none, one that ends by itself,
               \* one that waits for its peer
    results,   \* the retained results, newest first
    told,      \* history: what the client knows of each job
    forgotten, \* history: jobs of a file the last start could not read, and
               \* those that were written over since such a start
    crashes, errors   \* history: restarts and failed writes so far

vars == <<up, now, jobs, disk, writing, run, task, results, told, forgotten, crashes, errors>>

NoJob == [enabled |-> FALSE, next |-> 0, last |-> None]
NoJobs == [j \in Jobs |-> NoJob]
NoWrite == [kind |-> "none"]
Unused == [pc |-> "unused", job |-> None, at |-> 0]

(* next_run_at is at least one interval after the start.                   *)
Exists(map, j) == map[j] # NoJob

Init ==
    /\ up = TRUE /\ now = 0
    /\ jobs = NoJobs /\ disk = NoJobs /\ writing = NoWrite
    /\ run = [r \in Runs |-> Unused]
    /\ task = [r \in Runs |-> "none"]
    /\ results = <<>>
    /\ told = [j \in Jobs |-> "nothing"] /\ forgotten = {}
    /\ crashes = 0 /\ errors = 0

Locked == writing # NoWrite
runVars == <<run, task, results>>
history == <<told, forgotten, crashes, errors>>

TimePasses ==
    /\ now < MaxTime
    /\ now' = now + 1
    /\ UNCHANGED <<up, jobs, disk, writing, runVars, history>>

-------------------------------------------------------------------------------
(* Handlers and the scheduler change the map, then write the file.         *)

(* create_job; the id is fresh.                                            *)
CreateJob(j, enabled) ==
    /\ up /\ ~Locked /\ told[j] = "nothing"
    /\ jobs' = [jobs EXCEPT ![j] = [enabled |-> enabled, next |-> now + 1, last |-> None]]
    /\ writing' = [kind |-> "create", job |-> j]
    /\ told' = [told EXCEPT ![j] = "asked"]
    /\ UNCHANGED <<up, now, disk, runVars, forgotten, crashes, errors>>

DeleteJob(j) ==
    /\ up /\ ~Locked /\ Exists(jobs, j)
    /\ jobs' = [jobs EXCEPT ![j] = NoJob]
    /\ writing' = [kind |-> "delete", job |-> j]
    /\ told' = [told EXCEPT ![j] = "asked"]
    /\ UNCHANGED <<up, now, disk, runVars, forgotten, crashes, errors>>

(* A tick of the scheduler: every due job gets its next time.              *)
Due == {j \in Jobs : jobs[j].enabled /\ jobs[j].next <= now}

Tick ==
    /\ up /\ ~Locked /\ Due # {}
    /\ Cardinality(Due) <= Cardinality({r \in Runs : run[r] = Unused})
    /\ jobs' = [j \in Jobs |-> IF j \in Due THEN [jobs[j] EXCEPT !.next = now + 1] ELSE jobs[j]]
    /\ writing' = [kind |-> "tick", due |-> Due, at |-> now]
    /\ UNCHANGED <<up, now, disk, runVars, history>>

(* After the write a tick spawns a run for every due job.                  *)
Spawned(chosen, at) ==
    [r \in Runs |-> IF \E j \in DOMAIN chosen : chosen[j] = r
                    THEN [pc |-> "acquire", at |-> at,
                          job |-> CHOOSE j \in DOMAIN chosen : chosen[j] = r]
                    ELSE run[r]]

Proceed ==
    \/ /\ writing.kind = "tick"
       /\ \E chosen \in [writing.due -> {r \in Runs : run[r] = Unused}] :
             /\ \A i, j \in writing.due : i # j => chosen[i] # chosen[j]
             /\ run' = Spawned(chosen, writing.at)
    \/ /\ writing.kind = "last"
       /\ run' = [run EXCEPT ![writing.run].pc = "done"]
    \/ writing.kind \in {"create", "delete"} /\ UNCHANGED run

(* The answer to the client, 201 or 204.                                   *)
Answered ==
    CASE writing.kind = "create" -> [told EXCEPT ![writing.job] = "created"]
      [] writing.kind = "delete" -> [told EXCEPT ![writing.job] = "deleted"]
      [] OTHER -> told

(* persist_jobs succeeds ...                                               *)
PersistNoTick ==               \* mutant: a tick does not write the next times
    /\ up /\ Locked
    /\ disk' = IF writing.kind = "tick" THEN disk ELSE jobs
    /\ Proceed
    /\ told' = Answered
    /\ writing' = NoWrite
    /\ UNCHANGED <<up, now, jobs, task, results, forgotten, crashes, errors>>

Persist ==
    /\ up /\ Locked
    /\ disk' = jobs
    /\ Proceed
    /\ told' = Answered
    /\ writing' = NoWrite
    /\ UNCHANGED <<up, now, jobs, task, results, forgotten, crashes, errors>>

(* ... or fails: handlers answer 500, the scheduler goes on.               *)
PersistFails ==
    /\ up /\ Locked
    /\ errors < MaxErrors /\ errors' = errors + 1
    /\ Proceed
    /\ writing' = NoWrite
    /\ UNCHANGED <<up, now, jobs, disk, task, results, told, forgotten, crashes>>

-------------------------------------------------------------------------------
(* run_execution.                                                          *)

(* remote_execute and ci_execute                                           *)
RemoteExecute(r) ==
    /\ up /\ run[r] = Unused
    /\ run' = [run EXCEPT ![r].pc = "acquire"]
    /\ UNCHANGED <<up, now, jobs, disk, writing, task, results, history>>

HeldForever ==                 \* mutant: a client that leaves keeps its permit
    {r \in Runs : run[r].pc \in {"execute", "gone"}}

Held == {r \in Runs : run[r].pc = "execute"}

(* The engine's task is spawned.  A driver with a deadline, and an answer  *)
(* that comes, end it; a stream (SSE, WebSocket, TCP, MQTT) is read for as *)
(* long as its peer keeps it open.                                         *)
Acquire(r) ==
    /\ up /\ run[r].pc = "acquire" /\ Cardinality(Held) < Permits
    /\ run' = [run EXCEPT ![r].pc = "execute"]
    /\ \E how \in {"ends", "waits"} : task' = [task EXCEPT ![r] = how]
    /\ UNCHANGED <<up, now, jobs, disk, writing, results, history>>

(* The engine's task ends, whether or not somebody waits for it.           *)
TaskEnds(r) ==
    /\ up /\ task[r] # "none"
    /\ task' = [task EXCEPT ![r] = "none"]
    /\ UNCHANGED <<up, now, jobs, disk, writing, run, results, history>>

(* execute_collect returns and the permit is given back.                   *)
Collected(r) ==
    /\ up /\ run[r].pc = "execute" /\ task[r] = "none"
    /\ run' = [run EXCEPT ![r].pc = "record"]
    /\ UNCHANGED <<up, now, jobs, disk, writing, task, results, history>>

(* The result is retained, in front, and the oldest one is dropped.        *)
Retained(r) ==
    SubSeq(<<r>> \o results, 1,
           IF Len(results) < MaxResults THEN Len(results) + 1 ELSE MaxResults)

(* A scheduled run goes on to lock the jobs.                               *)
Record(r) ==
    /\ up /\ run[r].pc = "record"
    /\ results' = Retained(r)
    /\ run' = [run EXCEPT ![r].pc = IF run[r].job = None THEN "done" ELSE "update"]
    /\ UNCHANGED <<up, now, jobs, disk, writing, task, history>>

(* last_execution_id is set if the job still exists.                       *)

WithLast(j, r) == IF Exists(jobs, j) THEN [jobs EXCEPT ![j].last = r] ELSE jobs

UpdateLast(r) ==
    /\ up /\ ~Locked /\ run[r].pc = "update"
    /\ jobs' = WithLast(run[r].job, r)
    /\ IF jobs' # jobs
       THEN /\ writing' = [kind |-> "last", run |-> r]
            /\ run' = [run EXCEPT ![r].pc = "writing"]
       ELSE /\ run' = [run EXCEPT ![r].pc = "done"]
            /\ UNCHANGED writing
    /\ UNCHANGED <<up, now, disk, task, results, history>>

(* The client of a remote run leaves: the handler's future is dropped, the *)
(* engine's task goes on.                                                  *)
ClientLeaves(r) ==
    /\ up /\ run[r].job = None /\ run[r].pc \in {"acquire", "execute", "record"}
    /\ run' = [run EXCEPT ![r].pc = "gone"]
    /\ UNCHANGED <<up, now, jobs, disk, writing, task, results, history>>

-------------------------------------------------------------------------------
(* The process ends: all but the file is gone.  A write under way has      *)
(* renamed the file or has not.                                            *)
AfterCrashInPlace == {disk, jobs, NoJobs}  \* mutant: the file is written in place
AfterCrash == {disk, jobs}

Crash ==
    /\ up /\ crashes < MaxCrashes
    /\ up' = FALSE /\ crashes' = crashes + 1
    /\ disk' \in (IF Locked THEN AfterCrash ELSE {disk})
    /\ jobs' = NoJobs /\ writing' = NoWrite /\ results' = <<>>
    /\ run' = [r \in Runs |-> IF run[r].pc \in {"unused", "done", "gone"} THEN run[r]
                             ELSE [run[r] EXCEPT !.pc = "lost"]]
    /\ task' = [r \in Runs |-> "none"]
    /\ UNCHANGED <<now, told, forgotten, errors>>

(* load_jobs: a file that cannot be read, or not parsed, is no jobs at     *)
(* all; the file stays, until the next write puts the map in its place.    *)
Restart ==
    /\ ~up /\ up' = TRUE
    /\ \/ /\ jobs' = disk
          /\ forgotten' = {j \in forgotten : ~Exists(disk, j)}
       \/ /\ jobs' = NoJobs
          /\ forgotten' = forgotten \union {j \in Jobs : Exists(disk, j)}
    /\ UNCHANGED <<now, disk, writing, runVars, told, crashes, errors>>

RunStep(r) ==
    \/ Acquire(r) \/ TaskEnds(r) \/ Collected(r) \/ Record(r) \/ UpdateLast(r)

(* The steps the runtime owes a run; not the end of a task whose peer      *)
(* keeps it waiting.                                                       *)
OwedStep(r) == RunStep(r) /\ ~(task[r] = "waits" /\ task'[r] = "none")

Next ==
    \/ TimePasses
    \/ \E j \in Jobs, enabled \in BOOLEAN : CreateJob(j, enabled)
    \/ \E j \in Jobs : DeleteJob(j)
    \/ Tick \/ Persist \/ PersistFails
    \/ \E r \in Runs : RemoteExecute(r) \/ RunStep(r) \/ ClientLeaves(r)
    \/ Crash \/ Restart

(* Tasks are polled and the mutex and the semaphore are fair.  Nothing is  *)
(* owed for a task that waits for its peer: it may never end.              *)
Fairness ==
    /\ WF_vars(Persist)
    /\ \A r \in Runs : SF_vars(OwedStep(r))

Spec == Init /\ [][Next]_vars /\ Fairness

-------------------------------------------------------------------------------
Row == [enabled : BOOLEAN, next : 0 .. MaxTime + 1, last : Runs \union {None}]

(* Types; the results never exceed their capacity.                         *)
TypeOK ==
    /\ up \in BOOLEAN /\ now \in 0 .. MaxTime
    /\ jobs \in [Jobs -> Row] /\ disk \in [Jobs -> Row]
    /\ writing.kind \in {"none", "create", "delete", "tick", "last"}
    /\ run \in [Runs -> [pc : {"unused", "acquire", "execute", "record", "update",
                               "writing", "done", "gone", "lost"},
                         job : Jobs \union {None}, at : 0 .. MaxTime]]
    /\ task \in [Runs -> {"none", "ends", "waits"}]
    /\ results \in Seq(Runs) /\ Len(results) <= MaxResults
    /\ told \in [Jobs -> {"nothing", "asked", "created", "deleted"}]
    /\ forgotten \subseteq Jobs
    /\ crashes \in 0 .. MaxCrashes /\ errors \in 0 .. MaxErrors

(* "persistent interval schedules": a job whose creation was acknowledged  *)
(* is in the file, so a restart brings it back, and is scheduled, whatever *)
(* other writes failed or were cut short in between.  The exception: a     *)
(* start that cannot read the file knows none of its jobs, and the next    *)
(* write loses them; until then a start that reads it brings them back.    *)
CreatedJobsPersist ==
    \A j \in Jobs \ forgotten : told[j] = "created" =>
        Exists(disk, j) /\ (up => Exists(jobs, j))

(* A job runs at most once per interval, across restarts: its next time is *)
(* in the file before the run is spawned.  Only a failed write can break   *)
(* this.                                                                   *)
OncePerInterval ==
    errors = 0 =>
        \A r, s \in Runs : run[r].job # None /\ run[r].job = run[s].job /\ r # s
                               => run[r].at # run[s].at

(* Every run ends, unless the process does, also when clients leave.  The  *)
(* exception: from some time on it waits for its peer, or for a permit     *)
(* while every permit is held by a run that waits for its peer.            *)
Waiting == {r \in Held : task[r] = "waits"}
Stalled(r) ==
    \/ r \in Waiting
    \/ run[r].pc = "acquire" /\ Cardinality(Waiting) = Permits
RunsEnd ==
    \A r \in Runs : run[r].pc = "acquire" ~>
                        run[r].pc \in {"done", "gone", "lost"} \/ []Stalled(r)
===============================================================================
