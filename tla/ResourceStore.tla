----------------------------- MODULE ResourceStore -----------------------------
(***************************************************************************)
(* The projects, collections and saved requests of the local store as the  *)
(* user interface sees them, and the commands it sends: each runs under    *)
(* the store's mutex and either changes the store or is refused.           *)
(* WorkspaceTree looks at the same tables from below (modules, faults      *)
(* between two statements); here a collection also has its name and its    *)
(* sort order, which the interface writes.                                 *)
(***************************************************************************)
EXTENDS Naturals, Sequences, FiniteSets, SequencesExt

CONSTANTS DefaultProject, None

(* None is neither an id nor a saved request.                              *)
ASSUME NoneAssumption ==
    /\ None \notin Nat
    /\ None \notin [coll : Nat, caseOf : Nat \union {None}, redacted : BOOLEAN]

DefaultCollection == 1

Row(project, parent, order, name) ==
    [project |-> project, parent |-> parent, order |-> order, name |-> name]

(* caseOf is variables.__apivoyCaseOf; redacted, whether its secrets were  *)
(* replaced by a team snapshot.                                            *)
Request(coll, caseOf) == [coll |-> coll, caseOf |-> caseOf, redacted |-> FALSE]

(* f, with y at x.                                                         *)
With(f, x, y) == [z \in DOMAIN f \union {x} |-> IF z = x THEN y ELSE f[z]]

(* c, its parent, the parent of that, ...                                  *)
Chain(s, c) ==
    LET up[d \in DOMAIN s.colls] ==
            {d} \union (IF s.colls[d].parent = None THEN {} ELSE up[s.colls[d].parent])
    IN  up[c]

Subtree(s, c) == {d \in DOMAIN s.colls : c \in Chain(s, d)}
Children(s, project, parent) ==
    {d \in DOMAIN s.colls : s.colls[d].project = project /\ s.colls[d].parent = parent}
ProjectOf(s, r) == s.colls[s.reqs[r].coll].project

Changed(s, projects, colls, reqs) ==
    [version |-> s.version + 1, projects |-> projects, colls |-> colls, reqs |-> reqs]
Keep(s, projects, colls) ==
    Changed(s, projects, Restrict(s.colls, colls),
            Restrict(s.reqs, {r \in DOMAIN s.reqs : s.reqs[r].coll \in colls}))

-------------------------------------------------------------------------------
(* A command is refused when what it names is not there.                   *)
Allowed(s, cmd, held) ==
    CASE cmd.kind = "createProject" -> TRUE
      [] cmd.kind = "deleteProject" -> cmd.project \in s.projects \ {DefaultProject}
      [] cmd.kind = "createCollection" ->
            /\ cmd.project \in s.projects
            /\ cmd.parent # None => /\ cmd.parent \in DOMAIN s.colls
                                    /\ s.colls[cmd.parent].project = cmd.project
      [] cmd.kind = "updateCollection" ->
            /\ cmd.id \in DOMAIN s.colls
            /\ cmd.parent # None => /\ cmd.parent \in DOMAIN s.colls \ Subtree(s, cmd.id)
                                    /\ s.colls[cmd.parent].project = s.colls[cmd.id].project
      [] cmd.kind = "deleteCollection" -> cmd.id \in DOMAIN s.colls \ {DefaultCollection}
      [] cmd.kind = "moveRequest" -> cmd.id \in DOMAIN s.reqs /\ cmd.coll \in DOMAIN s.colls
      [] cmd.kind = "deleteRequest" -> cmd.id \in DOMAIN s.reqs
      [] cmd.kind = "saveEnvelope" -> cmd.row.coll \in DOMAIN s.colls
      [] cmd.kind = "saveLoaded" -> held = None \/ cmd.coll \in DOMAIN s.colls
      [] OTHER -> TRUE

(* create_collection puts the new one after its siblings.                  *)
CreateCollection(s, cmd) ==
    LET siblings == {s.colls[d].order : d \in Children(s, cmd.project, cmd.parent)}
        order == IF siblings = {} THEN 0 ELSE Max(siblings) + 1
    IN  With(s.colls, cmd.id, Row(cmd.project, cmd.parent, order, cmd.name))

UpdateCollection(s, cmd) ==
    [s.colls EXCEPT ![cmd.id] = Row(@.project, cmd.parent, cmd.order, cmd.name)]

Saved(s, id, row) == Changed(s, s.projects, s.colls, With(s.reqs, id, row))

(* The store after a command it allows.  Loading changes nothing; a copy   *)
(* of a request that could not be loaded is not saved.                     *)
After(s, cmd, held) ==
    CASE cmd.kind = "createProject" -> Changed(s, s.projects \union {cmd.project}, s.colls, s.reqs)
      [] cmd.kind = "deleteProject" ->
            Keep(s, s.projects \ {cmd.project}, {c \in DOMAIN s.colls : s.colls[c].project # cmd.project})
      [] cmd.kind = "createCollection" -> Changed(s, s.projects, CreateCollection(s, cmd), s.reqs)
      [] cmd.kind = "updateCollection" -> Changed(s, s.projects, UpdateCollection(s, cmd), s.reqs)
      [] cmd.kind = "deleteCollection" -> Keep(s, s.projects, DOMAIN s.colls \ Subtree(s, cmd.id))
      [] cmd.kind = "moveRequest" -> Saved(s, cmd.id, [s.reqs[cmd.id] EXCEPT !.coll = cmd.coll])
      [] cmd.kind = "deleteRequest" ->
            Changed(s, s.projects, s.colls, Restrict(s.reqs, DOMAIN s.reqs \ {cmd.id}))
      [] cmd.kind = "saveEnvelope" -> Saved(s, cmd.id, cmd.row)
      [] cmd.kind = "saveLoaded" ->
            IF held = None THEN s ELSE Saved(s, cmd.id, [held EXCEPT !.coll = cmd.coll])
      [] cmd.kind = "touch" -> Changed(s, s.projects, s.colls, s.reqs)
      [] OTHER -> s

Loaded(s, cmd) == IF cmd.id \in DOMAIN s.reqs THEN s.reqs[cmd.id] ELSE None
===============================================================================
