-------------------------------- MODULE TeamSync --------------------------------
(***************************************************************************)
(* The team's workspaces: the sync page of every member (TeamWorkbench)    *)
(* and the collaboration server that keeps one row per workspace.          *)
(*                                                                         *)
(* A page knows the workspace by the revision it pulled or pushed last and *)
(* sends that number with its document.  The server reads the row, refuses *)
(* the push if the number is another one, and writes the row in the same   *)
(* transaction; transactions of two members overlap.  Pulls and pushes of  *)
(* one page overlap too: its buttons are never disabled.  A document is    *)
(* identified by the revision that it became.                              *)
(***************************************************************************)
EXTENDS Naturals

CONSTANTS
    Members, Workspaces,
    SharedWorkspace,     \* the one a page starts with
    Syncs                \* slots for pulls and pushes under way

ASSUME TeamAssumption == SharedWorkspace \in Workspaces

VARIABLES
    revision,    \* of the row of each workspace, 0 if there is none
    accepted,    \* history: the pushes that became a revision
    pages,       \* the sync page of each member
    syncs        \* pulls and pushes under way

teamVars == <<revision, accepted, pages, syncs>>

(* `of` and seen are history: the workspace that the page's revision is    *)
(* one of, and the revisions whose documents the page received.            *)
NewPage == [workspaceId |-> SharedWorkspace, revision |-> 0, of |-> SharedWorkspace, conflict |-> {},
            seen |-> [w \in Workspaces |-> {0}]]
NoSync == [stage |-> "free"]

TeamInit ==
    /\ revision = [w \in Workspaces |-> 0] /\ accepted = {}
    /\ pages = [m \in Members |-> NewPage]
    /\ syncs = [s \in Syncs |-> NoSync]

-------------------------------------------------------------------------------
(* A member.                                                               *)

(* The id is typed over; revision and conflict stay.                       *)
ChooseWorkspace(m) ==
    /\ \E w \in Workspaces \ {pages[m].workspaceId} : pages' = [pages EXCEPT ![m].workspaceId = w]
    /\ UNCHANGED <<revision, accepted, syncs>>

(* push, pull: what the page held at the click.  own is history: the       *)
(* revision is one of this workspace, or none at all.                      *)
SyncStarts(m, kind) ==
    /\ \E s \in Syncs :
          /\ syncs[s] = NoSync
          /\ syncs' = [syncs EXCEPT ![s] =
                [stage |-> "sent", kind |-> kind, by |-> m, workspace |-> pages[m].workspaceId,
                 base |-> pages[m].revision, live |-> TRUE, result |-> 0,
                 own |-> pages[m].revision = 0 \/ pages[m].of = pages[m].workspaceId,
                 seen |-> pages[m].seen[pages[m].workspaceId]]]
    /\ UNCHANGED <<revision, accepted, pages>>

(* Both buttons of a conflict take over its revision.                      *)
ResolveConflict(m) ==
    /\ \E c \in pages[m].conflict :
          pages' = [pages EXCEPT ![m].revision = c.revision, ![m].of = c.of, ![m].conflict = {}]
    /\ UNCHANGED <<revision, accepted, syncs>>

(* The collaboration dialog is closed and opened again.                    *)
ReopenPage(m) ==
    /\ pages' = [pages EXCEPT ![m] = NewPage]
    /\ syncs' = [s \in Syncs |-> IF syncs[s] # NoSync /\ syncs[s].by = m
                                 THEN [syncs[s] EXCEPT !.live = FALSE] ELSE syncs[s]]
    /\ UNCHANGED <<revision, accepted>>

-------------------------------------------------------------------------------
(* The server.                                                             *)

BaseIsCurrent(s) == syncs[s].base = revision[syncs[s].workspace]

(* workspace; push up to its check.                                        *)
SyncRead(s) ==
    LET sync == syncs[s] IN
    /\ sync # NoSync /\ sync.stage = "sent"
    /\ syncs' = [syncs EXCEPT ![s] =
          IF sync.kind = "pull" THEN [sync EXCEPT !.stage = "done", !.result = revision[sync.workspace]]
          ELSE IF BaseIsCurrent(s) THEN [sync EXCEPT !.stage = "checked", !.result = revision[sync.workspace]]
          ELSE [sync EXCEPT !.stage = "refused", !.result = revision[sync.workspace]]]
    /\ UNCHANGED <<revision, accepted, pages>>

(* The row is as it was read: its @Version, or that there is none, with    *)
(* the unique keys of both tables.                                         *)
FlushesBlindly(s) == TRUE        \* mutant: no version and no unique key
Flushes(s) == syncs[s].result = revision[syncs[s].workspace]

(* saveAndFlush and the commit, or concurrentConflict.                     *)
SyncFlushed(s) ==
    LET sync == syncs[s] IN
    /\ sync # NoSync /\ sync.stage = "checked"
    /\ IF Flushes(s)
       THEN /\ revision' = [revision EXCEPT ![sync.workspace] = sync.result + 1]
            /\ accepted' = accepted \union
                  {[workspace |-> sync.workspace, revision |-> sync.result + 1, by |-> sync.by, slot |-> s,
                    own |-> sync.own, seen |-> sync.seen]}
            /\ syncs' = [syncs EXCEPT ![s].stage = "done", ![s].result = sync.result + 1]
       ELSE /\ syncs' = [syncs EXCEPT ![s].stage = "refused", ![s].result = revision[sync.workspace]]
            /\ UNCHANGED <<revision, accepted>>
    /\ UNCHANGED pages

-------------------------------------------------------------------------------
(* The answer, or none: the request or its answer is lost, or refused for  *)
(* another reason; or the page that waited is gone.                        *)

SyncAnswered(s) ==
    LET sync == syncs[s] IN
    /\ sync # NoSync /\ sync.stage \in {"done", "refused"}
    /\ syncs' = [syncs EXCEPT ![s] = NoSync]
    /\ pages' = IF ~sync.live THEN pages
                ELSE IF sync.stage = "done"
                THEN [pages EXCEPT ![sync.by].revision = sync.result, ![sync.by].of = sync.workspace,
                                   ![sync.by].conflict = {},
                                   ![sync.by].seen[sync.workspace] = @ \union {sync.result}]
                ELSE [pages EXCEPT ![sync.by].conflict = {[revision |-> sync.result, of |-> sync.workspace]},
                                   ![sync.by].seen[sync.workspace] = @ \union {sync.result}]
    /\ UNCHANGED <<revision, accepted>>

SyncLost(s) ==
    /\ syncs[s] # NoSync /\ syncs[s].live
    /\ \/ syncs' = [syncs EXCEPT ![s].live = FALSE]
       \/ syncs[s].stage # "checked" /\ syncs' = [syncs EXCEPT ![s] = NoSync]
    /\ UNCHANGED <<revision, accepted, pages>>

TeamUser == \E m \in Members : \/ ChooseWorkspace(m) \/ SyncStarts(m, "pull") \/ SyncStarts(m, "push")
                               \/ ResolveConflict(m) \/ ReopenPage(m)
TeamAsync == \E s \in Syncs : SyncRead(s) \/ SyncFlushed(s) \/ SyncAnswered(s)
TeamFault == \E s \in Syncs : SyncLost(s)

TeamNext == TeamUser \/ TeamAsync \/ TeamFault
TeamSpec == TeamInit /\ [][TeamNext]_teamVars

-------------------------------------------------------------------------------
(* Whatever overlaps and whatever answers are lost, of two pushes from the *)
(* same revision one wins, and a push never replaces a document that its   *)
(* author's page had not received, unless the revision it names is one of  *)
(* another workspace: the id was changed since.                            *)
NoBlindOverwrite ==
    /\ \A c, d \in accepted : c.workspace = d.workspace /\ c.revision = d.revision => c = d
    /\ \A c \in accepted : c.own => c.revision - 1 \in c.seen
===============================================================================
