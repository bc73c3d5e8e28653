----------------------------- MODULE WorkspaceTree -----------------------------
(***************************************************************************)
(* The tree that the local store keeps: workspaces, their projects, the    *)
(* modules and environments of a project, and its collections, which form  *)
(* a forest and each belong to a module.                                   *)
(*                                                                         *)
(* Operations run under the store's mutex; those of several statements can *)
(* be cut short by a failure or by the end of the process, and opening the *)
(* store repairs what it can.  Ids are UUIDs: creating a row picks an id   *)
(* that no row has.                                                        *)
(***************************************************************************)
EXTENDS Naturals, FiniteSets

CONSTANTS
    Workspaces, Projects, Collections, Environments,
    DefaultWorkspace, DefaultProject, DefaultCollection, DefaultEnv,
    MaxModules,   \* bound on the modules a project has besides the default one
    MaxFaults,    \* bound on failures and restarts
    NoId

ASSUME TreeAssumption ==
    /\ DefaultWorkspace \in Workspaces /\ DefaultProject \in Projects
    /\ DefaultCollection \in Collections /\ DefaultEnv \in Environments
    /\ MaxModules \in Nat /\ MaxFaults \in Nat
    /\ NoId \notin Workspaces \union Projects \union Collections

VARIABLES
    workspaces,  \* the workspaces that exist
    projects,    \* the workspace of each project, NoId if it does not exist
    modules,     \* the modules that exist
    coll,        \* the row of each collection
    envs,        \* the project of each environment, NoId if it does not exist
    pc,          \* "down", "idle", or the operation of several statements under way
    target,      \* the workspace or project that operation works on
    edit,        \* the environment a PUT has read and not yet written back
    faults       \* history: failures and restarts so far

tablesVars == <<workspaces, projects, modules, coll, envs, pc, target, edit,
                faults>>

(* Module 0 of a project is its default module, default-module-{project}.  *)
Module == Projects \X (0 .. MaxModules)
DefaultModule(p) == <<p, 0>>

NoRow == [project |-> NoId, parent |-> NoId, module |-> NoId]
NoEdit == [env |-> NoId, project |-> NoId]

LiveProjects == {p \in Projects : projects[p] # NoId}
Live == {c \in Collections : coll[c].project # NoId}

(* A set of collections that is closed under taking the parent.            *)
ParentClosed(A) == \A a \in A : coll[a].parent # NoId => coll[a].parent \in A

(* c and what is below it: the recursive query `subtree` and what a DELETE *)
(* of c cascades to.                                                       *)
Subtree(c) ==
    {d \in Live : \A A \in SUBSET Live : d \in A /\ ParentClosed(A) => c \in A}

Fault == faults < MaxFaults /\ faults' = faults + 1

CollRow(p, parent, m) == [project |-> p, parent |-> parent, module |-> m]

TablesInit ==
    /\ workspaces = {} /\ modules = {}
    /\ projects = [p \in Projects |-> NoId]
    /\ coll = [c \in Collections |-> NoRow]
    /\ envs = [e \in Environments |-> NoId]
    /\ pc = "down" /\ target = NoId /\ edit = NoEdit
    /\ faults = 0

-------------------------------------------------------------------------------
(* ensure_project_modules                                                  *)
RepairedModules == {DefaultModule(p) : p \in LiveProjects \union {DefaultProject}}

(* LocalStore::open, that is ensure_defaults.                              *)
Open ==
    /\ pc = "down" /\ pc' = "idle"
    /\ workspaces' = workspaces \union {DefaultWorkspace}
    /\ projects' = [projects EXCEPT ![DefaultProject] =
                       IF @ = NoId THEN DefaultWorkspace ELSE @]
    /\ modules' = modules \union RepairedModules
    /\ coll' = [coll EXCEPT ![DefaultCollection] =
                   IF @ = NoRow
                   THEN CollRow(DefaultProject, NoId, DefaultModule(DefaultProject))
                   ELSE @]
    /\ envs' = [envs EXCEPT ![DefaultEnv] = IF @ = NoId THEN DefaultProject ELSE @]
    /\ UNCHANGED <<target, edit, faults>>

(* The process ends, perhaps between two statements.                       *)
Stop ==
    /\ Fault
    /\ pc # "down" /\ pc' = "down"
    /\ target' = NoId /\ edit' = NoEdit
    /\ UNCHANGED <<workspaces, projects, modules, coll, envs>>

CreateWorkspace(w) ==
    /\ pc = "idle" /\ w \notin workspaces
    /\ workspaces' = workspaces \union {w}
    /\ UNCHANGED <<projects, modules, coll, envs, pc, target, edit, faults>>

(* create_project: the project, then its default module.                   *)
CreateProject(w, p) ==
    /\ pc = "idle" /\ w \in workspaces /\ projects[p] = NoId
    /\ projects' = [projects EXCEPT ![p] = w]
    /\ pc' = "createProject" /\ target' = p
    /\ UNCHANGED <<workspaces, modules, coll, envs, edit, faults>>

CreateProjectModule ==
    /\ pc = "createProject" /\ pc' = "idle" /\ target' = NoId
    /\ \/ /\ modules' = modules \union {DefaultModule(target)}
          /\ UNCHANGED faults
       \/ Fault /\ UNCHANGED modules
    /\ UNCHANGED <<workspaces, projects, coll, envs, edit>>

CreateModule(m) ==
    /\ pc = "idle" /\ m[1] \in LiveProjects /\ m[2] # 0 /\ m \notin modules
    /\ modules' = modules \union {m}
    /\ UNCHANGED <<workspaces, projects, coll, envs, pc, target, edit, faults>>

(* create_collection_in_module: a child is put in its parent's module, a   *)
(* root in the module asked for or the default one.                        *)
ModuleOfNew(p, parent, asked) ==
    IF parent # NoId THEN coll[parent].module ELSE asked

CreateCollection(c, p, parent, asked) ==
    /\ pc = "idle" /\ coll[c] = NoRow
    /\ parent # NoId => coll[parent].project = p
    /\ parent = NoId => asked \in modules /\ asked[1] = p
    /\ p \in LiveProjects
    /\ coll' = [coll EXCEPT ![c] = CollRow(p, parent, ModuleOfNew(p, parent, asked))]
    /\ UNCHANGED <<workspaces, projects, modules, envs, pc, target, edit, faults>>

(* update_collection: the new parent's chain of parents must not meet c    *)
(* and stay in c's project; c's subtree follows the parent's module.       *)
ChainFreeParentOnly(parent, c) ==   \* mutant: only the parent itself is looked at
    parent # c /\ coll[parent].project = coll[c].project

ChainFree(parent, c) ==
    \E A \in SUBSET {d \in Live : coll[d].project = coll[c].project} :
        parent \in A /\ c \notin A /\ ParentClosed(A)

MoveOne(c, parent) ==          \* mutant: the children keep their module
    [coll EXCEPT ![c] = CollRow(coll[c].project, parent,
        IF parent = NoId THEN coll[c].module ELSE coll[parent].module)]

Moved(c, parent) ==
    [d \in Collections |->
        [project |-> coll[d].project,
         parent |-> IF d = c THEN parent ELSE coll[d].parent,
         module |-> IF parent # NoId /\ d \in Subtree(c) THEN coll[parent].module
                    ELSE coll[d].module]]

UpdateCollection(c, parent) ==
    /\ pc = "idle" /\ c \in Live
    /\ parent # NoId => ChainFree(parent, c)
    /\ coll' = Moved(c, parent)
    /\ UNCHANGED <<workspaces, projects, modules, envs, pc, target, edit, faults>>

DeleteCollection(c) ==
    /\ pc = "idle" /\ c \in Live /\ c # DefaultCollection
    /\ coll' = [d \in Collections |-> IF d \in Subtree(c) THEN NoRow ELSE coll[d]]
    /\ UNCHANGED <<workspaces, projects, modules, envs, pc, target, edit, faults>>

(* What a DELETE of project p cascades to.                                 *)
DropProject(p) ==
    /\ projects' = [projects EXCEPT ![p] = NoId]
    /\ coll' = [c \in Collections |-> IF coll[c].project = p THEN NoRow ELSE coll[c]]
    /\ envs' = [e \in Environments |-> IF envs[e] = p THEN NoId ELSE envs[e]]
    /\ modules' = {m \in modules : m[1] # p}

DeleteProject(p) ==
    /\ pc = "idle" /\ p \in LiveProjects /\ p # DefaultProject
    /\ DropProject(p)
    /\ UNCHANGED <<workspaces, pc, target, edit, faults>>

(* delete_workspace: its projects one by one, then its own row.            *)
DeleteWorkspace(w) ==
    /\ pc = "idle" /\ w \in workspaces /\ w # DefaultWorkspace
    /\ pc' = "deleteWorkspace" /\ target' = w
    /\ UNCHANGED <<workspaces, projects, modules, coll, envs, edit, faults>>

DeleteWorkspaceProject ==
    /\ pc = "deleteWorkspace"
    /\ \E p \in LiveProjects : projects[p] = target /\ DropProject(p)
    /\ UNCHANGED <<workspaces, pc, target, edit, faults>>

DeleteWorkspaceRow ==
    /\ pc = "deleteWorkspace" /\ \A p \in LiveProjects : projects[p] # target
    /\ workspaces' = workspaces \ {target}
    /\ pc' = "idle" /\ target' = NoId
    /\ UNCHANGED <<projects, modules, coll, envs, edit, faults>>

(* A project cannot be deleted: the ones before it are gone.               *)
DeleteWorkspaceFails ==
    /\ pc = "deleteWorkspace" /\ Fault
    /\ pc' = "idle" /\ target' = NoId
    /\ UNCHANGED <<workspaces, projects, modules, coll, envs, edit>>

-------------------------------------------------------------------------------
(***************************************************************************)
(* Environments.  PUT reads the record and writes it back under a second   *)
(* lock: other operations run in between.                                  *)
(***************************************************************************)
CreateEnvironment(e, p) ==
    /\ pc = "idle" /\ envs[e] = NoId /\ p \in LiveProjects
    /\ envs' = [envs EXCEPT ![e] = p]
    /\ UNCHANGED <<workspaces, projects, modules, coll, pc, target, edit, faults>>

(* The body may name another project.                                      *)
PutEnvironmentRead(e, p) ==
    /\ pc = "idle" /\ edit = NoEdit /\ envs[e] # NoId
    /\ edit' = [env |-> e, project |-> p]
    /\ UNCHANGED <<workspaces, projects, modules, coll, envs, pc, target, faults>>

(* The upsert is refused if the project is gone; a deleted environment     *)
(* comes back.                                                             *)
SavedBlindly == TRUE           \* mutant: no foreign key
ProjectStillThere == edit.project \in LiveProjects

PutEnvironmentSave ==
    /\ pc = "idle" /\ edit # NoEdit
    /\ envs' = IF ProjectStillThere THEN [envs EXCEPT ![edit.env] = edit.project]
               ELSE envs
    /\ edit' = NoEdit
    /\ UNCHANGED <<workspaces, projects, modules, coll, pc, target, faults>>

DeleteEnvironment(e) ==
    /\ pc = "idle" /\ e # DefaultEnv /\ envs[e] # NoId
    /\ envs' = [envs EXCEPT ![e] = NoId]
    /\ UNCHANGED <<workspaces, projects, modules, coll, pc, target, edit, faults>>

CollectionStep ==
    \/ \E c \in Collections, p \in Projects, parent \in Collections \union {NoId},
          asked \in Module : CreateCollection(c, p, parent, asked)
    \/ \E c \in Collections, parent \in Collections \union {NoId} :
          UpdateCollection(c, parent)
    \/ \E c \in Collections : DeleteCollection(c)

EnvironmentStep ==
    \/ \E e \in Environments, p \in Projects : CreateEnvironment(e, p)
    \/ \E e \in Environments, p \in Projects : PutEnvironmentRead(e, p)
    \/ PutEnvironmentSave
    \/ \E e \in Environments : DeleteEnvironment(e)

ProjectStep ==
    \/ \E w \in Workspaces : CreateWorkspace(w)
    \/ \E w \in Workspaces, p \in Projects : CreateProject(w, p)
    \/ CreateProjectModule
    \/ \E m \in Module : CreateModule(m)
    \/ \E p \in Projects : DeleteProject(p)
    \/ \E w \in Workspaces : DeleteWorkspace(w)
    \/ DeleteWorkspaceProject \/ DeleteWorkspaceRow \/ DeleteWorkspaceFails

TablesNext == Open \/ Stop \/ CollectionStep \/ EnvironmentStep \/ ProjectStep

TablesSpec == TablesInit /\ [][TablesNext]_tablesVars

-------------------------------------------------------------------------------
(* Types of the tables and of the operation under way.                     *)
TablesTypeOK ==
    /\ workspaces \subseteq Workspaces
    /\ projects \in [Projects -> Workspaces \union {NoId}]
    /\ modules \subseteq Module
    /\ coll \in [Collections -> [project : Projects, parent : Collections \union {NoId},
                                 module : Module] \union {NoRow}]
    /\ envs \in [Environments -> Projects \union {NoId}]
    /\ pc \in {"down", "idle", "createProject", "deleteWorkspace"}
    /\ pc = "createProject" => target \in Projects
    /\ pc = "deleteWorkspace" => target \in Workspaces
    /\ edit \in [env : Environments, project : Projects] \union {NoEdit}
    /\ faults \in 0 .. MaxFaults

(* The collections are a forest, whatever moves and cascades ran: parents  *)
(* exist and no chain of parents is a cycle.  On a cycle the recursive     *)
(* queries and update_collection's own loop would never end.               *)
Forest ==
    /\ \A c \in Live : coll[c].parent # NoId => coll[c].parent \in Live
    /\ \A S \in SUBSET Live : S # {} => \E c \in S : coll[c].parent \notin S

(* A collection is in its parent's project and module, and its module is   *)
(* one of its project's: moving a subtree takes all of it along.           *)
Homes ==
    \A c \in Live :
        /\ coll[c].module \in modules /\ coll[c].module[1] = coll[c].project
        /\ coll[c].parent # NoId =>
              /\ coll[coll[c].parent].project = coll[c].project
              /\ coll[coll[c].parent].module = coll[c].module

(* Nothing outlives what it belongs to: modules, collections, environments *)
(* are of projects that exist and projects of workspaces that exist, also  *)
(* for a PUT that raced with a delete and when delete_workspace is cut     *)
(* short.                                                                  *)
NoOrphans ==
    /\ \A m \in modules : m[1] \in LiveProjects
    /\ \A c \in Live : coll[c].project \in LiveProjects
    /\ \A e \in Environments : envs[e] # NoId => envs[e] \in LiveProjects
    /\ \A p \in LiveProjects : projects[p] \in workspaces
===============================================================================
