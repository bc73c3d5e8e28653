------------------------------ MODULE BlobStore -------------------------------
(***************************************************************************)
(* Large bodies in the local store: content-addressed files, the table     *)
(* blob_index that counts the references to them, and the rows of requests *)
(* and executions that refer to it.                                        *)
(*                                                                         *)
(* The store is behind one mutex, so operations do not interleave; but     *)
(* each SQL statement commits by itself and files are written between      *)
(* statements, so an operation can fail or the process can stop between    *)
(* any two steps.  A step of the model is one statement or file operation. *)
(***************************************************************************)
EXTENDS Naturals, FiniteSets

CONSTANTS
    Requests, Executions,
    Projects, DefaultProject,
    Collections,
    SubtreeOf,    \* the collections at or below a collection
    ProjectOf,    \* the project of a collection
    Contents,     \* bodies above BLOB_THRESHOLD_BYTES
    Blobs,        \* ids for rows of blob_index
    None,
    MaxFaults,    \* bound on failed statements, failed file operations and crashes
    MaxMismatches \* bound on requests saved with a project that is not their collection's

ASSUME BlobStoreAssumption ==
    /\ IsFiniteSet(Requests) /\ IsFiniteSet(Executions)
    /\ DefaultProject \in Projects
    /\ SubtreeOf \in [Collections -> SUBSET Collections]
    /\ ProjectOf \in [Collections -> Projects]
    /\ \A c \in Collections : c \in SubtreeOf[c]
    /\ None \notin Contents \union Blobs \union Projects \union Collections
    /\ MaxFaults \in Nat /\ MaxMismatches \in Nat

VARIABLES
    index,     \* blob_index: the content and ref_count of a blob id
    file,      \* the state of the file of a content
    reqs,      \* requests: project, collection, body_blob_id; body is the content saved
    execs,     \* executions: the blobs of the snapshot and of the response
    projects, collections,  \* the rows that exist
    pc,        \* control point of the operation that holds the mutex
    op,        \* its arguments
    puts,      \* the body it must still store for each slot
    held,      \* blobs it has stored and nobody refers to yet
    releases,  \* blobs it must still release, and what of
    faults,     \* history: failures and crashes so far
    mismatches  \* history: requests saved with a project not their collection's

rowVars == <<reqs, execs, projects, collections>>
localVars == <<pc, op, puts, held, releases>>
counters == <<faults, mismatches>>
vars == <<index, file, reqs, execs, projects, collections, pc, op, puts, held,
          releases, faults, mismatches>>

NoBlob == [content |-> None, refs |-> 0]
NoRequest == [project |-> None, collection |-> None, blob |-> None, body |-> None]
NoExecution == [snap |-> None, resp |-> None]
NoOp == [kind |-> "none"]

(* A blob is stored for a request's body, a snapshot or a response; the    *)
(* preview takes the response's place.                                     *)
Slots == {"body", "snap", "resp"}
PutSlots == Slots \union {"preview"}
NothingHeld == [s \in Slots |-> None]
NoPuts == [s \in PutSlots |-> None]

Exists(b) == index[b].content # None

Init ==
    /\ index = [b \in Blobs |-> NoBlob]
    /\ file = [c \in Contents |-> "none"]
    /\ reqs = [r \in Requests |-> NoRequest]
    /\ execs = [x \in Executions |-> NoExecution]
    /\ projects = Projects
    /\ collections = Collections
    /\ pc = "idle" /\ op = NoOp /\ puts = NoPuts /\ held = NothingHeld
    /\ releases = {}
    /\ faults = 0 /\ mismatches = 0

(* A statement or a file operation fails, or the process stops.            *)
Fault == faults < MaxFaults /\ faults' = faults + 1 /\ UNCHANGED mismatches

(* The operation returns, with or without an error.                        *)
Return ==
    /\ pc' = "idle" /\ op' = NoOp /\ puts' = NoPuts
    /\ held' = NothingHeld /\ releases' = {}

(* It goes on to release the blobs of the members of S that are not NULL,  *)
(* one by one; no property depends on the order.                           *)
Tokens(S, blobs) == {[of |-> x, blob |-> blobs[x]] : x \in {y \in S : blobs[y] # None}}

Release(S, blobs) ==
    IF Tokens(S, blobs) = {} THEN Return
    ELSE /\ pc' = "release" /\ releases' = Tokens(S, blobs)
         /\ held' = NothingHeld /\ op' = NoOp /\ puts' = NoPuts

Start(o, bodies) ==
    /\ pc = "idle"
    /\ op' = o /\ puts' = bodies
    /\ pc' = IF bodies = NoPuts THEN "commit" ELSE "put"
    /\ UNCHANGED <<index, file, rowVars, held, releases>>

-------------------------------------------------------------------------------
(***************************************************************************)
(* Operations.                                                             *)
(***************************************************************************)
(* save_request; a body below the threshold stays in the row (None).       *)
SaveRequest(r, p, c, body) ==
    /\ IF ProjectOf[c] = p THEN UNCHANGED mismatches
       ELSE mismatches < MaxMismatches /\ mismatches' = mismatches + 1
    /\ UNCHANGED faults
    /\ Start([kind |-> "save", key |-> r, project |-> p, collection |-> c,
              body |-> body, prev |-> reqs[r].blob],
             [NoPuts EXCEPT !["body"] = body])

(* The agent's pump: put_blob of the response, then record_execution of    *)
(* the sanitized snapshot and, without a response blob, of the preview.    *)
RecordExecution(x, resp, snap, preview) ==
    /\ Start([kind |-> "record", key |-> x],
             [NoPuts EXCEPT !["resp"] = resp, !["snap"] = snap, !["preview"] = preview])
    /\ UNCHANGED counters

(* delete_request, delete_collection, delete_project: the blob ids are     *)
(* collected, one DELETE removes the rows and cascades, then the blobs are *)
(* released one by one.                                                    *)
DeleteRows(collected, victims, ps, cs) ==
    /\ pc = "idle"
    /\ reqs' = [r \in Requests |-> IF r \in victims THEN NoRequest ELSE reqs[r]]
    /\ projects' = projects \ ps
    /\ collections' = collections \ cs
    /\ Release(collected, [r \in Requests |-> reqs[r].blob])
    /\ UNCHANGED <<index, file, execs, counters>>

Stored == {r \in Requests : reqs[r] # NoRequest}

DeleteRequest(r) == r \in Stored /\ DeleteRows({r}, {r}, {}, {})

(* request_blob_ids_for_collection_subtree                                 *)
InCollection(c) ==             \* mutant: requests of child collections are missed
    {r \in Stored : reqs[r].collection = c}
InSubtree(c) == {r \in Stored : reqs[r].collection \in SubtreeOf[c]}

DeleteCollection(c) ==
    /\ c \in collections
    /\ DeleteRows(InSubtree(c),
                  {r \in Stored : reqs[r].collection \in SubtreeOf[c]},
                  {}, SubtreeOf[c])

(* request_blob_ids_for_project goes by the request's own project, the     *)
(* cascade also follows the project of its collection.                     *)
InProject(p) == {r \in Stored : reqs[r].project = p}

DeleteProject(p) ==
    LET inside == {c \in collections : ProjectOf[c] = p}
    IN /\ p # DefaultProject /\ p \in projects
       /\ DeleteRows(InProject(p),
                     InProject(p) \union {r \in Stored : reqs[r].collection \in inside},
                     {p}, inside)

MoveRequest(r, c) ==
    /\ pc = "idle" /\ r \in Stored /\ c \in collections
    /\ reqs' = [reqs EXCEPT ![r].project = ProjectOf[c], ![r].collection = c]
    /\ UNCHANGED <<index, file, execs, projects, collections, localVars, counters>>

(* create_project and create_collection, with the id of a deleted one.     *)
CreateProject(p) ==
    /\ pc = "idle" /\ p \notin projects
    /\ projects' = projects \union {p}
    /\ UNCHANGED <<index, file, reqs, execs, collections, localVars, counters>>

CreateCollection(c) ==
    /\ pc = "idle" /\ c \notin collections /\ ProjectOf[c] \in projects
    /\ \A a \in Collections \ {c} : c \in SubtreeOf[a] => a \in collections
    /\ collections' = collections \union {c}
    /\ UNCHANGED <<index, file, reqs, execs, projects, localVars, counters>>

-------------------------------------------------------------------------------
(***************************************************************************)
(* put_blob, for the first body of puts: the response, the snapshot and    *)
(* then the preview of an execution.                                       *)
(***************************************************************************)
slot == IF puts["body"] # None THEN "body" ELSE IF puts["resp"] # None THEN "resp"
        ELSE IF puts["snap"] # None THEN "snap" ELSE "preview"
content == puts[slot]
NewContent == \A b \in Blobs : index[b].content # content

(* A preview is stored only if there is no response blob.                  *)
Superfluous == slot = "preview" /\ held["resp"] # None

(* The next body follows or, after the last one, the INSERT.               *)
NextPut ==
    /\ puts' = [puts EXCEPT ![slot] = None]
    /\ pc' = IF puts' = NoPuts THEN "commit" ELSE "put"
    /\ UNCHANGED <<op, releases>>

HeldFor == IF slot = "preview" THEN "resp" ELSE slot
Hold(b) == held' = [held EXCEPT ![HeldFor] = b]

PutSkip ==
    /\ pc = "put" /\ Superfluous
    /\ NextPut
    /\ UNCHANGED <<index, file, rowVars, held, counters>>

(* The content has a row: count one more reference.                        *)

PutExisting ==
    /\ pc = "put" /\ ~Superfluous
    /\ \E b \in Blobs :
          /\ index[b].content = content
          /\ index' = [index EXCEPT ![b].refs = @ + 1]
          /\ Hold(b)
    /\ NextPut
    /\ UNCHANGED <<file, rowVars, counters>>

(* Otherwise the file is written and synced first, then the row inserted.  *)
PutWriteUnsynced ==            \* mutant: the row is inserted before the file is complete
    /\ pc = "put" /\ ~Superfluous /\ NewContent
    /\ file' = [file EXCEPT ![content] = "partial"]
    /\ pc' = "insert"
    /\ UNCHANGED <<index, rowVars, op, puts, held, releases, counters>>

PutWrite ==
    /\ pc = "put" /\ ~Superfluous /\ NewContent
    /\ file' = [file EXCEPT ![content] = "full"]
    /\ pc' = "insert"
    /\ UNCHANGED <<index, rowVars, op, puts, held, releases, counters>>

PutInsert ==
    /\ pc = "insert"
    /\ \E b \in Blobs :
          /\ ~Exists(b)
          /\ index' = [index EXCEPT ![b] = [content |-> content, refs |-> 1]]
          /\ Hold(b)
    /\ NextPut
    /\ UNCHANGED <<file, rowVars, counters>>

(* A failed write or insert removes the file; a failed count leaves it.    *)
(* The caller goes on without a response blob, releases the snapshot's     *)
(* blob or just gives up.                                                  *)
PutFails ==
    /\ Fault
    /\ (pc = "put" /\ ~Superfluous) \/ pc = "insert"
    /\ file' = IF NewContent THEN [file EXCEPT ![content] = "none"] ELSE file
    /\ \/ slot = "resp" /\ NextPut /\ UNCHANGED held
       \/ slot = "preview" /\ Release({"snap"}, held)
       \/ slot \in {"body", "snap"} /\ Return
    /\ UNCHANGED <<index, rowVars>>

-------------------------------------------------------------------------------
(* The INSERT is refused for a project or collection that is gone (foreign *)
(* keys) and for an execution that is already recorded (primary key).      *)
Accepted ==
    IF op.kind = "save" THEN op.project \in projects /\ op.collection \in collections
    ELSE execs[op.key] = NoExecution

Commit ==
    /\ pc = "commit" /\ Accepted
    /\ \/ /\ op.kind = "save"
          /\ reqs' = [reqs EXCEPT ![op.key] =
                [project |-> op.project, collection |-> op.collection,
                 blob |-> held["body"], body |-> op.body]]
          /\ Release({op.key}, [r \in {op.key} |-> op.prev])
          /\ UNCHANGED execs
       \/ /\ op.kind = "record"
          /\ execs' = [execs EXCEPT ![op.key] = [snap |-> held["snap"], resp |-> held["resp"]]]
          /\ Return
          /\ UNCHANGED reqs
    /\ UNCHANGED <<index, file, projects, collections, counters>>

(* A failed INSERT releases what the operation has stored.                 *)
CommitFails ==
    /\ pc = "commit"
    /\ \/ ~Accepted /\ UNCHANGED counters
       \/ Accepted /\ Fault
    /\ Release(Slots, held)
    /\ UNCHANGED <<index, file, rowVars>>

(***************************************************************************)
(* release_blob, for the next blob of releases: count down, or delete the  *)
(* row and then the file.                                                  *)
(***************************************************************************)
NextRelease(rest) ==
    IF rest = {} THEN Return
    ELSE /\ releases' = rest /\ pc' = "release" /\ op' = NoOp
         /\ UNCHANGED <<puts, held>>

Shared(b) == index[b].refs > 1

(* A missing row is no error.                                              *)
CountDown ==
    /\ pc = "release"
    /\ \E t \in releases :
          /\ Exists(t.blob) => Shared(t.blob)
          /\ index' = IF Exists(t.blob) THEN [index EXCEPT ![t.blob].refs = @ - 1] ELSE index
          /\ NextRelease(releases \ {t})
    /\ UNCHANGED <<file, rowVars, counters>>

ReleaseLast ==
    /\ pc = "release"
    /\ \E t \in releases :
          /\ Exists(t.blob) /\ ~Shared(t.blob)
          /\ index' = [index EXCEPT ![t.blob] = NoBlob]
          /\ releases' = releases \ {t}
          /\ op' = [kind |-> "unlink", content |-> index[t.blob].content]
    /\ pc' = "unlink"
    /\ UNCHANGED <<file, rowVars, puts, held, counters>>

Unlink ==
    /\ pc = "unlink"
    /\ file' = [file EXCEPT ![op.content] = "none"]
    /\ NextRelease(releases)
    /\ UNCHANGED <<index, rowVars, counters>>

(* An error ends the operation: the remaining blobs are not released.      *)
ReleaseFails ==
    /\ Fault
    /\ pc \in {"release", "unlink"}
    /\ Return
    /\ UNCHANGED <<index, file, rowVars>>

(* The process stops; what was being written may be cut short.             *)
Crash ==
    /\ Fault
    /\ pc # "idle"
    /\ \/ UNCHANGED file
       \/ /\ pc = "put" /\ ~Superfluous /\ NewContent
          /\ file' = [file EXCEPT ![content] = "partial"]
    /\ Return
    /\ UNCHANGED <<index, rowVars>>

Operation ==
    \/ \E r \in Requests, p \in Projects, c \in Collections, body \in Contents \union {None} :
          SaveRequest(r, p, c, body)
    \/ \E x \in Executions, resp, snap, preview \in Contents \union {None} :
          RecordExecution(x, resp, snap, preview)
    \/ \E r \in Requests : DeleteRequest(r)
    \/ \E c \in Collections : DeleteCollection(c)
    \/ \E p \in Projects : DeleteProject(p)
    \/ \E r \in Requests, c \in Collections : MoveRequest(r, c)
    \/ \E p \in Projects : CreateProject(p)
    \/ \E c \in Collections : CreateCollection(c)

Step ==
    \/ PutSkip \/ PutExisting \/ PutWrite \/ PutInsert \/ PutFails
    \/ Commit \/ CommitFails
    \/ CountDown \/ ReleaseLast \/ Unlink \/ ReleaseFails
    \/ Crash

Next == Operation \/ Step

Spec == Init /\ [][Next]_vars

-------------------------------------------------------------------------------
(* The references to blob b in the database.                               *)
RequestsOf(b) == {r \in Requests : reqs[r].blob = b}
SnapsOf(b) == {x \in Executions : execs[x].snap = b}
RespsOf(b) == {x \in Executions : execs[x].resp = b}
References(b) ==
    Cardinality(RequestsOf(b)) + Cardinality(SnapsOf(b)) + Cardinality(RespsOf(b))

(* Types of the tables, the files and the operation under way.             *)
TypeOK ==
    /\ index \in [Blobs -> [content : Contents \union {None}, refs : Nat]]
    /\ \A b \in Blobs : Exists(b) <=> index[b].refs > 0
    /\ file \in [Contents -> {"none", "partial", "full"}]
    /\ reqs \in [Requests -> [project : Projects \union {None},
                             collection : Collections \union {None},
                             blob : Blobs \union {None},
                             body : Contents \union {None}]]
    /\ execs \in [Executions -> [snap : Blobs \union {None}, resp : Blobs \union {None}]]
    /\ projects \subseteq Projects /\ collections \subseteq Collections
    /\ pc \in {"idle", "put", "insert", "commit", "release", "unlink"}
    /\ held \in [Slots -> Blobs \union {None}]
    /\ puts \in [PutSlots -> Contents \union {None}]
    /\ IsFiniteSet(releases) /\ \A t \in releases : t.blob \in Blobs
    /\ faults \in 0 .. MaxFaults /\ mismatches \in 0 .. MaxMismatches

(* Every stored reference can be read, and reads the body that was saved:  *)
(* its row is in blob_index and its file is complete, at every point of    *)
(* every operation and after every failure and crash.  One that could not  *)
(* be read would fail list_requests and the whole history with it.         *)
ReadsBack ==
    /\ \A r \in Requests : reqs[r].body # None =>
          /\ reqs[r].blob # None /\ index[reqs[r].blob].content = reqs[r].body
          /\ file[reqs[r].body] = "full"
    /\ \A r \in Requests : reqs[r].blob # None => reqs[r].body # None
    /\ \A x \in Executions : \A b \in {execs[x].snap, execs[x].resp} \ {None} :
          Exists(b) /\ file[index[b].content] = "full"

(* When no operation is under way, ref_count is the number of references   *)
(* and only referenced contents have a file.                               *)
Exact ==
    /\ \A b \in Blobs : index[b].refs = References(b)
    /\ \A c \in Contents : file[c] # "none" => \E b \in Blobs : index[b].content = c

(* Without failures nothing leaks, whatever sequence of saves, moves and   *)
(* cascading deletes ran, as long as every request was saved with the      *)
(* project of its collection.                                              *)
NoLeak == pc = "idle" /\ faults = 0 /\ mismatches = 0 => Exact
===============================================================================
