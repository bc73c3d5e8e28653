------------------------------- MODULE Explorer -------------------------------
(***************************************************************************)
(* The resource tree of the application: what App (web and desktop) shows  *)
(* of the store, and the operations WorkspaceExplorer offers on it.        *)
(*                                                                         *)
(* An operation is a handler that awaits one command after the other, with *)
(* the arguments it captured from the tree shown when it started, and then *)
(* refreshTree.  Handlers overlap: nothing is locked.  A handler whose     *)
(* command fails is rejected there, so what it had changed is not shown    *)
(* until some later refresh; batchDelete alone goes on with the next item. *)
(*                                                                         *)
(* refreshTree of the web numbers its reads and drops all but the last;    *)
(* the one of the desktop shows whatever answer comes.                     *)
(***************************************************************************)
EXTENDS ResourceStore

CONSTANTS
    OtherProjects,   \* ids of the projects that can be created
    Names,           \* names of collections
    MaxCalls,        \* bound on handlers under way
    MaxFaults        \* bound on failures and timeouts

VARIABLES
    front,             \* "web" or "desktop"
    store,
    tree,              \* what is shown, NoTree before the first answer
    treeLoading, treeError,
    refreshSequence,
    refreshes,         \* reads of the tree under way: their number and what they read
    calls,             \* handlers under way
    nextId,            \* ids that crypto.randomUUID and the store make
    snapshot,          \* the last exported team snapshot
    finished,          \* history: the handler that ended in the last step, if nothing interfered
    unseen,            \* history: a change of the store that no refresh followed, or was overtaken
    faults

explorerVars == <<front, store, tree, treeLoading, treeError, refreshSequence, refreshes, calls,
                  nextId, snapshot, finished, unseen, faults>>

EmptyTree == [version |-> 0, projects |-> {}, colls |-> <<>>, reqs |-> <<>>]
NoTree == EmptyTree
NoWork == [kind |-> "none"]
Slots == 1 .. MaxCalls
Idle == [parts |-> <<>>, work |-> NoWork, tolerant |-> FALSE, held |-> None, wait |-> 0,
         mixed |-> FALSE, changed |-> FALSE]

(* Two roots, a folder below the first, an interface and its debug case.   *)
InitialStore ==
    [version |-> 1, projects |-> {DefaultProject},
     colls |-> <<Row(DefaultProject, None, 0, "a"), Row(DefaultProject, None, 1, "b"),
                 Row(DefaultProject, 1, 0, "a")>>,
     reqs |-> <<Request(1, None), Request(1, 1)>>]

(* App starts with a read of the tree under way; `loaded` is the state     *)
(* after its answer.                                                       *)
ExplorerInit(frontEnd, loaded) ==
    /\ front = frontEnd /\ store = InitialStore
    /\ tree = (IF loaded THEN InitialStore ELSE NoTree) /\ treeLoading = ~loaded /\ treeError = FALSE
    /\ refreshSequence = 1
    /\ refreshes = (IF loaded THEN {} ELSE {[seq |-> 1, read |-> NoTree]})
    /\ calls = [c \in Slots |-> Idle]
    /\ nextId = 4 /\ snapshot = NoTree /\ finished = NoWork /\ unseen = FALSE /\ faults = 0

-------------------------------------------------------------------------------
(* What the tree shows.                                                    *)

Interfaces(t) == {r \in DOMAIN t.reqs : t.reqs[r].caseOf = None}

(* renderCollection: the interfaces of a collection, each followed by its  *)
(* cases of the same collection.                                           *)
Listed(t, c) ==
    LET here == {r \in Interfaces(t) : t.reqs[r].coll = c} IN
    here \union {k \in DOMAIN t.reqs : t.reqs[k].coll = c /\ t.reqs[k].caseOf \in here}

(* collectionRequestCount                                                  *)
CollectionRequestCount(t, c) ==
    Cardinality({r \in Interfaces(t) : c \in Chain(t, t.reqs[r].coll)})

(* Siblings are sorted by order, then by name.                             *)
Before(t, c, d) ==
    \/ t.colls[c].order < t.colls[d].order
    \/ t.colls[c].order = t.colls[d].order /\ c < d

(* In the web the tree is not rendered while it loads or failed to load.   *)
Shown == tree # NoTree /\ (front = "web" => ~treeLoading /\ ~treeError)

-------------------------------------------------------------------------------
(* refreshTree                                                             *)

(* A started refresh: the web aborts the read before it.                   *)
Refreshing ==
    /\ refreshSequence' = refreshSequence + 1
    /\ refreshes' = refreshes \union {[seq |-> refreshSequence + 1, read |-> NoTree]}
    /\ treeLoading' = TRUE /\ treeError' = FALSE

RefreshRead ==
    \E r \in refreshes :
        /\ r.read = NoTree
        /\ refreshes' = (refreshes \ {r}) \union {[r EXCEPT !.read = store]}
        /\ finished' = NoWork
        /\ UNCHANGED <<front, store, tree, treeLoading, treeError, refreshSequence, calls, nextId,
                       snapshot, unseen, faults>>

AppliesAny(r) == TRUE          \* mutant: the answer of a superseded refresh is shown
AppliesAlone(r) == refreshes = {r}   \* mutant: an answer is dropped while another one is awaited
Applies(r) == front = "desktop" \/ r.seq = refreshSequence

(* A handler that waits for refresh r goes on, or is rejected if ok is     *)
(* FALSE; one with nothing left to do has ended.                           *)
Resumed(call, r, ok) ==
    IF call.wait # r.seq THEN call
    ELSE IF ok \/ call.tolerant
         THEN IF Len(call.parts) = 1 THEN Idle
              ELSE [call EXCEPT !.parts = Tail(@), !.wait = 0]
         ELSE Idle

FinishedBy(r) ==
    LET done == {c \in Slots : /\ calls[c].wait = r.seq /\ Len(calls[c].parts) = 1
                               /\ ~calls[c].mixed /\ ~calls[c].tolerant} IN
    IF done = {} THEN NoWork ELSE calls[CHOOSE c \in done : TRUE].work

RefreshDone ==
    \E r \in refreshes :
        /\ r.read # NoTree
        /\ refreshes' = refreshes \ {r}
        /\ tree' = IF Applies(r) THEN r.read ELSE tree
        /\ treeLoading' = (treeLoading /\ ~Applies(r))
        /\ calls' = [c \in Slots |-> Resumed(calls[c], r, TRUE)]
        /\ finished' = FinishedBy(r)
        /\ unseen' = (tree'.version # store.version /\ (unseen \/ tree'.version < tree.version))
        /\ UNCHANGED <<front, store, treeError, refreshSequence, nextId, snapshot, faults>>

(* A failed read, in the web also one that took 10 s or was aborted.  The  *)
(* web catches it and shows the error of the last one.                     *)
RefreshFails ==
    \E r \in refreshes :
        /\ \/ faults < MaxFaults /\ faults' = faults + 1
           \/ front = "web" /\ r.seq # refreshSequence /\ UNCHANGED faults
        /\ refreshes' = refreshes \ {r}
        /\ treeError' = (treeError \/ r.seq = refreshSequence)
        /\ treeLoading' = (treeLoading /\ r.seq # refreshSequence)
        /\ calls' = [c \in Slots |-> Resumed(calls[c], r, front = "web")]
        /\ finished' = NoWork
        /\ unseen' = (unseen \/ (front = "desktop" /\ tree.version # store.version))
        /\ UNCHANGED <<front, store, tree, refreshSequence, nextId, snapshot>>

Retry ==
    /\ front = "web" /\ treeError
    /\ Refreshing
    /\ finished' = NoWork
    /\ UNCHANGED <<front, store, tree, calls, nextId, snapshot, unseen, faults>>

-------------------------------------------------------------------------------
(* Handlers.                                                               *)

Refresh == [kind |-> "refresh"]

FreeSlot == CHOOSE c \in Slots : calls[c] = Idle

(* A handler starts with its first command sent.  made is how many ids it  *)
(* will use; mixed, that the tree it works from is not the store's.        *)
Start(work, parts, tolerant, made) ==
    /\ \E c \in Slots : calls[c] = Idle
    /\ calls' = [calls EXCEPT ![FreeSlot] =
                    [Idle EXCEPT !.parts = parts, !.work = work, !.tolerant = tolerant,
                                 !.mixed = \/ tree.version # store.version
                                           \/ \E c \in Slots : calls[c] # Idle]]
    /\ nextId' = nextId + made /\ finished' = NoWork
    /\ UNCHANGED <<front, store, tree, treeLoading, treeError, refreshSequence, refreshes, snapshot,
                   unseen, faults>>

Then(cmd) == <<<<cmd, Refresh>>>>
Simple(cmd) == Start([kind |-> cmd.kind], Then(cmd), FALSE, 0)

CreateCommand(id, project, parent, name) ==
    [kind |-> "createCollection", id |-> id, project |-> project, parent |-> parent, name |-> name]
UpdateCommand(id, name, parent, order) ==
    [kind |-> "updateCollection", id |-> id, name |-> name, parent |-> parent, order |-> order]

(* Workspaces, modules, tags and the names of projects: changes that are   *)
(* not told apart here.                                                    *)
UpdateOther == Shown /\ Simple([kind |-> "touch"])

CreateProject ==
    /\ Shown
    /\ \E p \in OtherProjects \ store.projects :
          Start([kind |-> "createProject"], Then([kind |-> "createProject", project |-> p]), FALSE, 0)

DeleteProject ==
    /\ Shown
    /\ \E p \in tree.projects \ {DefaultProject} : Simple([kind |-> "deleteProject", project |-> p])

CreateChild ==
    /\ Shown
    /\ \E c \in DOMAIN tree.colls, name \in Names :
          Start([kind |-> "createCollection"],
                Then(CreateCommand(nextId, tree.colls[c].project, c, name)), FALSE, 1)

(* Renaming writes the parent and the order of the row it was offered for. *)
RenameCollection ==
    /\ Shown
    /\ \E c \in DOMAIN tree.colls, name \in Names :
          LET row == tree.colls[c] IN
          /\ name # row.name
          /\ Start([kind |-> "rename"], Then(UpdateCommand(c, name, row.parent, row.order)), FALSE, 0)

DeleteCollection ==
    /\ Shown
    /\ \E c \in DOMAIN tree.colls \ {DefaultCollection} : Simple([kind |-> "deleteCollection", id |-> c])

Swap(c, d) ==
    LET first == tree.colls[c]
        second == tree.colls[d] IN
    Start([kind |-> "swap", first |-> c, second |-> d, orders |-> <<first.order, second.order>>],
          <<<<UpdateCommand(c, first.name, first.parent, second.order),
              UpdateCommand(d, second.name, second.parent, first.order), Refresh>>>>, FALSE, 0)

(* dropOnCollection: siblings are swapped, as by the menu's up and down;   *)
(* any other collection moves below the target.                            *)
DropCollection ==
    /\ Shown
    /\ \E c \in DOMAIN tree.colls, d \in DOMAIN tree.colls :
          LET row == tree.colls[c] IN
          /\ c # d /\ row.project = tree.colls[d].project
          /\ IF row.parent = tree.colls[d].parent THEN Swap(c, d)
             ELSE Start([kind |-> "move"], Then(UpdateCommand(c, row.name, d, row.order)), FALSE, 0)

MoveCommand(r, c) == [kind |-> "moveRequest", id |-> r, coll |-> c]
DeleteCommand(r) == [kind |-> "deleteRequest", id |-> r]

DropRequest ==
    /\ Shown
    /\ \E r \in DOMAIN tree.reqs, c \in DOMAIN tree.colls : Simple(MoveCommand(r, c))

DeleteRequest == Shown /\ \E r \in DOMAIN tree.reqs : Simple(DeleteCommand(r))

(* batchMove stops at the first failure; batchDelete does not.             *)
BatchMove ==
    /\ Shown
    /\ \E c \in DOMAIN tree.colls :
          LET ids == SetToSeq(DOMAIN tree.reqs) IN
          /\ Len(ids) > 1
          /\ Start([kind |-> "batchMove"], [i \in DOMAIN ids |-> <<MoveCommand(ids[i], c), Refresh>>],
                   FALSE, 0)

BatchDelete ==
    /\ Shown /\ Cardinality(DOMAIN tree.reqs) > 1
    /\ LET ids == SetToSeq(DOMAIN tree.reqs) IN
       Start([kind |-> "batchDelete"], [i \in DOMAIN ids |-> <<DeleteCommand(ids[i]), Refresh>>], TRUE, 0)

(* Renaming and duplicating a request load it and save it in the           *)
(* collection the row was offered in; the desktop offers neither.          *)
LoadCommand(r, must) == [kind |-> "load", id |-> r, must |-> must]
SaveLoaded(r, c) == [kind |-> "saveLoaded", id |-> r, coll |-> c]

RenameRequest ==
    /\ Shown /\ front = "web"
    /\ \E r \in DOMAIN tree.reqs :
          Start([kind |-> "renameRequest"],
                <<<<LoadCommand(r, TRUE), SaveLoaded(r, tree.reqs[r].coll), Refresh>>>>, FALSE, 0)

DuplicateRequest ==
    /\ Shown /\ front = "web"
    /\ \E r \in DOMAIN tree.reqs :
          Start([kind |-> "duplicate"],
                <<<<LoadCommand(r, TRUE), SaveLoaded(nextId, tree.reqs[r].coll), Refresh>>>>, FALSE, 1)

(* The order in which collections are listed.                              *)
Precedes(t, c, d) ==
    \/ t.colls[c].parent = None /\ t.colls[d].parent # None
    \/ (t.colls[c].parent = None) = (t.colls[d].parent = None) /\ Before(t, c, d)

(* cloneProject: the project, its collections parents first, then a copy   *)
(* of each request under a new id.  The copy of a case still names the     *)
(* interface of the source.                                                *)
ParentOfCopy(copies, parent) == IF parent = None THEN None ELSE copies[parent]

(* One round of the loop: the first pending collection with no parent, or  *)
(* one whose parent is copied.                                             *)
InProject(t, project) == {c \in DOMAIN t.colls : t.colls[c].project = project}
Ready(t, source, copies) ==
    {c \in InProject(t, source) \ DOMAIN copies : t.colls[c].parent \in DOMAIN copies \union {None}}

CloneRound(t, source, project, done) ==
    LET ready == Ready(t, source, done.copies)
        c == CHOOSE c \in ready : \A d \in ready \ {c} : Precedes(t, c, d)
    IN  [copies |-> With(done.copies, c, done.next),
         next |-> done.next + 1,
         commands |-> Append(done.commands,
                             CreateCommand(done.next, project,
                                           ParentOfCopy(done.copies, t.colls[c].parent), t.colls[c].name))]

Cloned(t, source, project) ==
    LET rounds == Cardinality(InProject(t, source))
        after[n \in 0 .. rounds] ==
            IF n = 0 THEN [copies |-> <<>>, next |-> nextId, commands |-> <<>>]
            ELSE CloneRound(t, source, project, after[n - 1])
    IN  after[rounds]

(* Each request is loaded and saved in the copy of its collection.         *)
CloneSaves(t, reqs, colls) ==
    [i \in 1 .. 2 * Len(reqs) |->
        LET n == (i + 1) \div 2 IN
        IF i % 2 = 1 THEN LoadCommand(reqs[n], FALSE)
        ELSE SaveLoaded(colls.next + n - 1, colls.copies[t.reqs[reqs[n]].coll])]

CloneProject ==
    /\ Shown
    /\ \E source \in tree.projects, p \in OtherProjects \ store.projects :
          LET colls == Cloned(tree, source, p)
              reqs == SetToSeq({r \in DOMAIN tree.reqs : ProjectOf(tree, r) = source})
          IN  Start([kind |-> "clone", source |-> source, copies |-> colls.copies],
                    <<<<[kind |-> "createProject", project |-> p]>> \o colls.commands
                        \o CloneSaves(tree, reqs, colls) \o <<Refresh>>>>,
                    FALSE, Len(colls.commands) + Len(reqs))

(* onImportRequests: the folders of each request's path are looked up in   *)
(* the tree shown, else among the ones this import has made, else created. *)
FolderIn(t, parent, name) ==
    {c \in DOMAIN t.colls : t.colls[c].parent = parent /\ t.colls[c].name = name}

AlwaysNew(t, done, name) == {}            \* mutant: existing folders are not looked up
Existing(t, done, name) == FolderIn(t, done.parent, name)

Folder(t, project, done, name) ==
    LET key == Append(done.key, name)
        found == {c \in DOMAIN done.paths : done.paths[c] = key} \union Existing(t, done, name)
        id == IF found = {} THEN done.next ELSE Min(found)
    IN  [next |-> IF found = {} THEN done.next + 1 ELSE done.next,
         paths |-> With(done.paths, id, key),
         commands |-> IF found # {} THEN done.commands
                      ELSE Append(done.commands, CreateCommand(id, project, done.parent, name)),
         parent |-> id, key |-> key]

FoldersOf(t, project, target, done, path) ==
    LET at[i \in 0 .. Len(path)] ==
            IF i = 0 THEN [done EXCEPT !.parent = target, !.key = <<>>]
            ELSE Folder(t, project, at[i - 1], path[i])
    IN  at[Len(path)]

ImportOne(t, project, target, done, path) ==
    LET at == FoldersOf(t, project, target, done, path)
    IN  [at EXCEPT !.next = @ + 1,
                   !.commands = Append(@, [kind |-> "saveEnvelope", id |-> at.next,
                                           row |-> Request(at.parent, None)])]

ImportAll(t, project, target, paths) ==
    LET after[i \in 0 .. Len(paths)] ==
            IF i = 0 THEN [next |-> nextId, paths |-> <<>>, commands |-> <<>>, parent |-> target, key |-> <<>>]
            ELSE ImportOne(t, project, target, after[i - 1], paths[i])
    IN  after[Len(paths)]

ImportRequests(paths) ==
    /\ Shown
    /\ \E c \in DOMAIN tree.colls :
          LET all == ImportAll(tree, tree.colls[c].project, c, paths)
          IN  Start([kind |-> "import", target |-> c, paths |-> paths, first |-> nextId],
                    <<Append(all.commands, Refresh)>>, FALSE, all.next - nextId)

(* exportTeamSnapshot: the tree and the envelopes, without their secrets.  *)
ExportSnapshot ==
    /\ store.version # snapshot.version \/ snapshot = NoTree
    /\ snapshot' = [store EXCEPT !.reqs = [r \in DOMAIN @ |-> [@[r] EXCEPT !.redacted = TRUE]]]
    /\ finished' = NoWork
    /\ UNCHANGED <<front, store, tree, treeLoading, treeError, refreshSequence, refreshes, calls,
                   nextId, unseen, faults>>

(* restoreTeamSnapshot: projects and collections are found by name or made *)
(* anew, in passes from the last listed to the first, and every request is *)
(* saved under the id it had.  A project stands for its name.              *)
LastFirst(t) ==
    LET ids == DOMAIN t.colls IN
    [i \in 1 .. Cardinality(ids) |->
        CHOOSE c \in ids : Cardinality({d \in ids : Precedes(t, c, d)}) = i - 1]

RestoreRound(t, done, c) ==
    LET row == snapshot.colls[c]
        parent == ParentOfCopy(done.copies, row.parent)
        found == {d \in FolderIn(t, parent, row.name) : t.colls[d].project = row.project}
        id == IF found = {} THEN done.next ELSE Min(found)
    IN  IF c \in DOMAIN done.copies \/ row.parent \notin DOMAIN done.copies \union {None} THEN done
        ELSE [copies |-> With(done.copies, c, id),
              next |-> IF found = {} THEN done.next + 1 ELSE done.next,
              commands |-> IF found # {} THEN done.commands
                           ELSE Append(done.commands, CreateCommand(id, row.project, parent, row.name))]

RestorePass(t, list, done) ==
    LET after[i \in 0 .. Len(list)] ==
            IF i = 0 THEN done ELSE RestoreRound(t, after[i - 1], list[i])
    IN  after[Len(list)]

Restored(t) ==
    LET list == LastFirst(snapshot)
        after[n \in 0 .. Len(list)] ==
            IF n = 0 THEN [copies |-> <<>>, next |-> nextId, commands |-> <<>>]
            ELSE RestorePass(t, list, after[n - 1])
    IN  after[Len(list)]

RestoreSnapshot ==
    /\ snapshot # NoTree
    /\ LET colls == Restored(store)
           missing == SetToSeq(snapshot.projects \ store.projects)
           reqs == SetToSeq(DOMAIN snapshot.reqs)
           saves == [i \in DOMAIN reqs |->
                        [kind |-> "saveEnvelope", id |-> reqs[i],
                         row |-> [snapshot.reqs[reqs[i]] EXCEPT !.coll = colls.copies[@]]]]
       IN  Start([kind |-> "restore", snapshot |-> snapshot, copies |-> colls.copies],
                 <<[i \in DOMAIN missing |-> [kind |-> "createProject", project |-> missing[i]]]
                     \o colls.commands \o saves \o <<Refresh>>>>,
                 FALSE, Len(colls.commands))

-------------------------------------------------------------------------------
(* A handler's commands, one by one.                                       *)

Command(c) == Head(Head(calls[c].parts))

Onward(parts) == [parts EXCEPT ![1] = Tail(@)]

(* The command was answered: the handler goes on.  A request to be renamed *)
(* or duplicated that is gone ends it.                                     *)
Answered(call, cmd) ==
    LET held == IF cmd.kind = "load" THEN Loaded(store, cmd) ELSE call.held IN
    IF cmd.kind = "load" /\ cmd.must /\ held = None THEN Idle
    ELSE [call EXCEPT !.parts = Onward(@), !.held = held,
                      !.changed = @ \/ After(store, cmd, call.held) # store]

Rejected(call) ==
    IF call.tolerant /\ Len(call.parts) > 1
    THEN [call EXCEPT !.parts = Tail(@), !.changed = FALSE] ELSE Idle

(* Handlers whose work another one's change may have disturbed.            *)
Others(c, changes) ==
    [d \in Slots |-> IF d # c /\ changes /\ calls[d] # Idle
                     THEN [calls[d] EXCEPT !.mixed = TRUE] ELSE calls[d]]

CommandRuns ==
    \E c \in Slots :
        /\ calls[c] # Idle /\ calls[c].wait = 0 /\ Command(c).kind # "refresh"
        /\ LET cmd == Command(c)
               ok == Allowed(store, cmd, calls[c].held)
               next == IF ok THEN After(store, cmd, calls[c].held) ELSE store IN
           /\ store' = next
           /\ calls' = [Others(c, next # store) EXCEPT ![c] =
                           IF ok THEN Answered(@, cmd) ELSE Rejected(@)]
           /\ unseen' = (unseen \/ (calls[c].changed /\ ~calls'[c].changed))
        /\ finished' = NoWork
        /\ UNCHANGED <<front, tree, treeLoading, treeError, refreshSequence, refreshes, nextId,
                       snapshot, faults>>

(* The agent is not reached, or its answer is not.                         *)
CommandFails ==
    /\ faults < MaxFaults /\ faults' = faults + 1
    /\ \E c \in Slots, reached \in BOOLEAN :
        /\ calls[c] # Idle /\ calls[c].wait = 0 /\ Command(c).kind # "refresh"
        /\ LET cmd == Command(c)
               ok == reached /\ Allowed(store, cmd, calls[c].held)
               next == IF ok THEN After(store, cmd, calls[c].held) ELSE store IN
           /\ store' = next
           /\ calls' = [Others(c, next # store) EXCEPT ![c] = Rejected(@)]
           /\ unseen' = (unseen \/ calls[c].changed \/ next # store)
    /\ finished' = NoWork
    /\ UNCHANGED <<front, tree, treeLoading, treeError, refreshSequence, refreshes, nextId, snapshot>>

(* await refreshTree()                                                     *)
RefreshStarts ==
    \E c \in Slots :
        /\ calls[c] # Idle /\ calls[c].wait = 0 /\ Command(c).kind = "refresh"
        /\ Refreshing
        /\ calls' = [calls EXCEPT ![c].wait = refreshSequence + 1, ![c].changed = FALSE]
        /\ finished' = NoWork
        /\ UNCHANGED <<front, store, tree, nextId, snapshot, unseen, faults>>

ExplorerUser ==
    \/ UpdateOther \/ CreateProject \/ DeleteProject \/ CreateChild \/ RenameCollection
    \/ DeleteCollection \/ DropCollection \/ DropRequest \/ DeleteRequest \/ BatchMove \/ BatchDelete
    \/ RenameRequest \/ DuplicateRequest \/ CloneProject
    \/ ExportSnapshot \/ RestoreSnapshot \/ Retry

ExplorerAsync ==
    RefreshRead \/ RefreshDone \/ RefreshFails \/ CommandRuns \/ CommandFails \/ RefreshStarts

-------------------------------------------------------------------------------
Quiet == refreshes = {} /\ \A c \in Slots : calls[c] = Idle

(* Once nothing is under way, the tree on screen is the store's, however   *)
(* handlers and refreshes overlapped.  The exceptions: a handler of        *)
(* several commands failed half way, or only its answer was lost, so no    *)
(* refresh followed; and on the desktop, where refreshTree keeps no        *)
(* sequence number, a refresh failed or an older answer came after a newer *)
(* one.                                                                    *)
TreeIsStored == Quiet /\ ~treeError /\ ~unseen => tree = store

(* The names of the folders from the root down to c.                       *)
Path(t, c) ==
    LET chain == Chain(t, c) IN
    [i \in 1 .. Cardinality(chain) |-> t.colls[CHOOSE d \in chain : Cardinality(Chain(t, d)) = i].name]

(* A project cloned undisturbed mirrors its source: the same folders in    *)
(* the same order, and in each the same number of interfaces.  (Its cases  *)
(* are copied too, but keep naming the interface they were made for: they  *)
(* are listed nowhere in the copy.)                                        *)
Mirrored(work, s) ==
    LET copy == work.copies IN
    /\ \A c \in DOMAIN copy :
          /\ Path(s, copy[c]) = Path(s, c)
          /\ CollectionRequestCount(s, copy[c]) = CollectionRequestCount(s, c)
    /\ \A c, d \in DOMAIN copy :
          s.colls[c].parent = s.colls[d].parent /\ Before(s, c, d) => Before(s, copy[c], copy[d])

(* An import that nothing disturbed puts each request where its path says  *)
(* and never makes a folder next to another one of the same name.          *)
Placed(work, s) ==
    LET made == {c \in DOMAIN s.colls : c >= work.first}
        below(path) == {r \in DOMAIN s.reqs : r >= work.first
                                               /\ Path(s, s.reqs[r].coll) = Path(s, work.target) \o path} IN
    /\ \A i \in DOMAIN work.paths :
          Cardinality(below(work.paths[i])) = Cardinality({j \in DOMAIN work.paths : work.paths[j] = work.paths[i]})
    /\ \A c \in made : FolderIn(s, s.colls[c].parent, s.colls[c].name) = {c}

(* Moving a collection up or down past a sibling exchanges their places,   *)
(* unless their orders are equal: a collection dropped into another one    *)
(* keeps the order it had, and two equal orders are exchanged in vain.     *)
Exchanged(work, s) ==
    work.orders[1] # work.orders[2] =>
        (Before(s, work.first, work.second) <=> work.orders[1] > work.orders[2])

(* A snapshot restored undisturbed brings every request of it back to a    *)
(* folder of the same path, a case listed below its interface if it was,   *)
(* whatever was renamed, moved or deleted in between.  (The restored       *)
(* requests have lost their secrets.)                                      *)
Reproduced(work, s) ==
    \A r \in DOMAIN work.snapshot.reqs :
        LET was == work.snapshot.reqs[r] IN
        /\ r \in DOMAIN s.reqs /\ s.reqs[r].caseOf = was.caseOf
        /\ Path(s, s.reqs[r].coll) = Path(work.snapshot, was.coll)
        /\ r \in Listed(work.snapshot, was.coll) => r \in Listed(s, s.reqs[r].coll)

(* What a handler that has ended undisturbed promises of the store.        *)
CloneMirrors == finished.kind = "clone" => Mirrored(finished, store)
ImportPlaces == finished.kind = "import" => Placed(finished, store)
SwapExchanges == finished.kind = "swap" => Exchanged(finished, store)
RestoreReproduces == finished.kind = "restore" => Reproduced(finished, store)

(* The tree on screen is a view of the store: it never shows a state the   *)
(* store has not been in, and in the web, whose refreshes are numbered,    *)
(* never goes back to an older one.                                        *)
View == INSTANCE TreeView WITH stored <- store.version, shown <- tree.version,
                               ordered <- (front = "web")
TreeIsView == View!Spec
===============================================================================
