------------------------------- MODULE AppProofs -------------------------------
(***************************************************************************)
(* Proofs about the application as a whole: what each of its parts         *)
(* promises holds of App, in which the parts take their steps together,    *)
(* for any budgets, any number of records, senders, agents, windows and    *)
(* pages.                                                                  *)
(*                                                                         *)
(* Each part has an inductive invariant over its own variables; a step of  *)
(* App is a step of some parts and leaves the variables of the others      *)
(* alone.                                                                  *)
(***************************************************************************)
EXTENDS App, CopyProofs

-------------------------------------------------------------------------------
(* The team's workspaces: any number of members, workspaces and            *)
(* overlapping pulls and pushes.                                           *)

Conflict == [revision : Nat, of : Workspaces]
Page == [workspaceId : Workspaces, revision : Nat, of : Workspaces, conflict : SUBSET Conflict,
         seen : [Workspaces -> SUBSET Nat]]
Sync == [stage : {"sent", "checked", "done", "refused"}, kind : {"pull", "push"}, by : Members,
         workspace : Workspaces, base : Nat, live : BOOLEAN, result : Nat, own : BOOLEAN,
         seen : SUBSET Nat]
Change == [workspace : Workspaces, revision : Nat, by : Members, slot : Syncs, own : BOOLEAN,
           seen : SUBSET Nat]

TeamTypeOK ==
    /\ revision \in [Workspaces -> Nat]
    /\ accepted \in SUBSET Change
    /\ pages \in [Members -> Page]
    /\ syncs \in [Syncs -> Sync \union {NoSync}]

(* A page has received the document of every revision it names.            *)
Knows(page) ==
    /\ \A w \in Workspaces : 0 \in page.seen[w]
    /\ page.revision = 0 \/ page.revision \in page.seen[page.of]
    /\ \A c \in page.conflict : c.revision \in page.seen[c.of]
PagesKnow == \A m \in Members : Knows(pages[m])

(* A push under way names a revision its page had received, and the server *)
(* goes on with it only from that revision.                                *)
Sound(sync) == (sync.own => sync.base \in sync.seen) /\ (sync.stage = "checked" => sync.result = sync.base)
SyncsSound == \A s \in Syncs : syncs[s] # NoSync => Sound(syncs[s])

(* No change is ahead of its workspace.                                    *)
ChangesBehind == \A c \in accepted : c.revision <= revision[c.workspace]

TeamInv == TeamTypeOK /\ PagesKnow /\ SyncsSound /\ ChangesBehind /\ NoBlindOverwrite

-------------------------------------------------------------------------------
LEMMA NewPageIsPage == NewPage \in Page /\ Knows(NewPage)
  BY TeamAssumption DEF NewPage, Page, Knows, Conflict

LEMMA InitTeam == TeamInit => TeamInv
  BY NewPageIsPage DEF TeamInit, TeamInv, TeamTypeOK, PagesKnow, SyncsSound, ChangesBehind, NoBlindOverwrite

LEMMA ChooseKeeps == TeamInv /\ (\E m \in Members : ChooseWorkspace(m)) => TeamInv'
<1> SUFFICES ASSUME TeamInv, NEW m \in Members, ChooseWorkspace(m) PROVE TeamInv'
  OBVIOUS
<1>1. PICK w \in Workspaces : pages' = [pages EXCEPT ![m].workspaceId = w]
  BY DEF ChooseWorkspace
<1>2. UNCHANGED <<revision, accepted, syncs>>
  BY DEF ChooseWorkspace
<1>3. pages \in [Members -> Page] /\ PagesKnow
  BY DEF TeamInv, TeamTypeOK
<1>4. pages'[m] = [pages[m] EXCEPT !.workspaceId = w] /\ \A n \in Members \ {m} : pages'[n] = pages[n]
  BY <1>1, <1>3
<1>5. pages' \in [Members -> Page]
  BY <1>1, <1>3 DEF Page
<1>6. PagesKnow'
  BY <1>3, <1>4 DEF PagesKnow, Knows, Page
<1> QED
  BY <1>2, <1>5, <1>6 DEF TeamInv, TeamTypeOK, SyncsSound, ChangesBehind, NoBlindOverwrite

LEMMA ResolveKeeps == TeamInv /\ (\E m \in Members : ResolveConflict(m)) => TeamInv'
<1> SUFFICES ASSUME TeamInv, NEW m \in Members, ResolveConflict(m) PROVE TeamInv'
  OBVIOUS
<1>1. PICK c \in pages[m].conflict :
        pages' = [pages EXCEPT ![m].revision = c.revision, ![m].of = c.of, ![m].conflict = {}]
  BY DEF ResolveConflict
<1>2. UNCHANGED <<revision, accepted, syncs>>
  BY DEF ResolveConflict
<1>3. pages \in [Members -> Page] /\ PagesKnow
  BY DEF TeamInv, TeamTypeOK
<1>4. c \in Conflict /\ c.revision \in Nat /\ c.of \in Workspaces /\ c.revision \in pages[m].seen[c.of]
  BY <1>3 DEF Page, Conflict, PagesKnow, Knows
<1>5. /\ pages'[m] = [pages[m] EXCEPT !.revision = c.revision, !.of = c.of, !.conflict = {}]
      /\ \A n \in Members \ {m} : pages'[n] = pages[n]
  BY <1>1, <1>3
<1>6. pages' \in [Members -> Page]
  BY <1>1, <1>3, <1>4 DEF Page
<1>7. Knows(pages'[m])
  <2> DEFINE p == pages'[m]
  <2>1. /\ p.revision = c.revision /\ p.of = c.of /\ p.conflict = {} /\ p.seen = pages[m].seen
        /\ \A w \in Workspaces : 0 \in pages[m].seen[w]
    BY <1>3, <1>5 DEF Page, PagesKnow, Knows
  <2> HIDE DEF p
  <2>2. Knows(p)
    BY <2>1, <1>4 DEF Knows
  <2> QED
    BY <2>2 DEF p
<1>8. PagesKnow'
  BY <1>3, <1>5, <1>7 DEF PagesKnow
<1> QED
  BY <1>2, <1>6, <1>8 DEF TeamInv, TeamTypeOK, SyncsSound, ChangesBehind, NoBlindOverwrite

LEMMA ReopenKeeps == TeamInv /\ (\E m \in Members : ReopenPage(m)) => TeamInv'
<1> SUFFICES ASSUME TeamInv, NEW m \in Members, ReopenPage(m) PROVE TeamInv'
  OBVIOUS
<1>1. UNCHANGED <<revision, accepted>>
  BY DEF ReopenPage
<1>2. pages \in [Members -> Page] /\ PagesKnow /\ syncs \in [Syncs -> Sync \union {NoSync}] /\ SyncsSound
  BY DEF TeamInv, TeamTypeOK
<1>3. pages' \in [Members -> Page] /\ PagesKnow'
  BY <1>2, NewPageIsPage DEF ReopenPage, PagesKnow
<1>4. \A s \in Syncs : \/ syncs'[s] = syncs[s]
                       \/ syncs[s] # NoSync /\ syncs'[s] = [syncs[s] EXCEPT !.live = FALSE]
  BY DEF ReopenPage
<1>5. ASSUME NEW s \in Syncs PROVE syncs'[s] \in Sync \union {NoSync}
  <2>1. CASE syncs'[s] = syncs[s]
    BY <2>1, <1>2
  <2>2. CASE syncs[s] # NoSync /\ syncs'[s] = [syncs[s] EXCEPT !.live = FALSE]
    <3>1. syncs[s] \in Sync
      BY <2>2, <1>2
    <3>2. [syncs[s] EXCEPT !.live = FALSE] \in Sync
      BY <3>1 DEF Sync
    <3> QED
      BY <2>2, <3>2
  <2> QED
    BY <2>1, <2>2, <1>4
<1>6. syncs' \in [Syncs -> Sync \union {NoSync}]
  BY <1>5 DEF ReopenPage
<1>7. SyncsSound'
  <2> SUFFICES ASSUME NEW s \in Syncs, syncs'[s] # NoSync PROVE Sound(syncs'[s])
    BY DEF SyncsSound
  <2>1. CASE syncs'[s] = syncs[s]
    BY <2>1, <1>2 DEF SyncsSound
  <2>2. CASE syncs[s] # NoSync /\ syncs'[s] = [syncs[s] EXCEPT !.live = FALSE]
    BY <2>2, <1>2 DEF SyncsSound, Sound, Sync
  <2> QED
    BY <2>1, <2>2, <1>4
<1> QED
  BY <1>1, <1>3, <1>6, <1>7 DEF TeamInv, TeamTypeOK, ChangesBehind, NoBlindOverwrite

(* One slot becomes a sound record; nothing else changes.                  *)
LEMMA SlotKeeps ==
  ASSUME TeamInv, NEW s \in Syncs, NEW r \in Sync, Sound(r), syncs' = [syncs EXCEPT ![s] = r],
         UNCHANGED <<revision, accepted, pages>>
  PROVE  TeamInv'
<1>1. syncs \in [Syncs -> Sync \union {NoSync}] /\ SyncsSound
  BY DEF TeamInv, TeamTypeOK
<1>2. syncs' \in [Syncs -> Sync \union {NoSync}]
  BY <1>1
<1>3. SyncsSound'
  BY <1>1 DEF SyncsSound
<1> QED
  BY <1>2, <1>3 DEF TeamInv, TeamTypeOK, PagesKnow, ChangesBehind, NoBlindOverwrite

LEMMA FreeKeeps ==
  ASSUME TeamInv, NEW s \in Syncs, syncs' = [syncs EXCEPT ![s] = NoSync],
         UNCHANGED <<revision, accepted, pages>>
  PROVE  TeamInv'
<1>1. syncs \in [Syncs -> Sync \union {NoSync}] /\ SyncsSound
  BY DEF TeamInv, TeamTypeOK
<1>2. syncs' \in [Syncs -> Sync \union {NoSync}]
  BY <1>1
<1>3. SyncsSound'
  BY <1>1 DEF SyncsSound
<1> QED
  BY <1>2, <1>3 DEF TeamInv, TeamTypeOK, PagesKnow, ChangesBehind, NoBlindOverwrite

LEMMA StartKeeps ==
  ASSUME TeamInv, NEW m \in Members, NEW kind \in {"pull", "push"}, SyncStarts(m, kind) PROVE TeamInv'
<1> DEFINE r == [stage |-> "sent", kind |-> kind, by |-> m, workspace |-> pages[m].workspaceId,
                 base |-> pages[m].revision, live |-> TRUE, result |-> 0,
                 own |-> pages[m].revision = 0 \/ pages[m].of = pages[m].workspaceId,
                 seen |-> pages[m].seen[pages[m].workspaceId]]
<1>1. PICK s \in Syncs : syncs' = [syncs EXCEPT ![s] = r]
  BY DEF SyncStarts
<1>2. UNCHANGED <<revision, accepted, pages>>
  BY DEF SyncStarts
<1>3. pages[m] \in Page /\ Knows(pages[m])
  BY DEF TeamInv, TeamTypeOK, PagesKnow
<1>4. r \in Sync
  BY <1>3 DEF Sync, Page
<1>5. Sound(r)
  BY <1>3 DEF Sound, Knows, Page
<1> HIDE DEF r
<1> QED
  BY <1>1, <1>2, <1>4, <1>5, SlotKeeps

-------------------------------------------------------------------------------
LEMMA ReadKeeps == ASSUME TeamInv, NEW s \in Syncs, SyncRead(s) PROVE TeamInv'
<1> DEFINE sync == syncs[s]
<1>1. sync \in Sync /\ Sound(sync) /\ sync.stage = "sent" /\ sync.workspace \in Workspaces
      /\ revision[sync.workspace] \in Nat
  BY DEF SyncRead, TeamInv, TeamTypeOK, SyncsSound, Sync
<1>2. PICK stage \in {"checked", "done", "refused"} :
        /\ syncs' = [syncs EXCEPT ![s] = [sync EXCEPT !.stage = stage, !.result = revision[sync.workspace]]]
        /\ stage = "checked" => BaseIsCurrent(s)
  <2>1. CASE sync.kind = "pull"
    BY <2>1 DEF SyncRead
  <2>2. CASE sync.kind # "pull" /\ BaseIsCurrent(s)
    BY <2>2 DEF SyncRead
  <2>3. CASE sync.kind # "pull" /\ ~BaseIsCurrent(s)
    BY <2>3 DEF SyncRead
  <2> QED
    BY <2>1, <2>2, <2>3
<1> DEFINE r == [sync EXCEPT !.stage = stage, !.result = revision[sync.workspace]]
<1>3. r \in Sync
  BY <1>1 DEF Sync
<1>4. Sound(r)
  BY <1>1, <1>2 DEF Sound, Sync, BaseIsCurrent
<1>5. UNCHANGED <<revision, accepted, pages>>
  BY DEF SyncRead
<1>6. syncs' = [syncs EXCEPT ![s] = r]
  BY <1>2
<1> HIDE DEF r
<1> QED
  BY <1>3, <1>4, <1>5, <1>6, SlotKeeps

(* The heart of the matter: the row has the revision that was read, which  *)
(* is the one the push is based on; all earlier changes are behind the     *)
(* new one.                                                                *)
LEMMA FlushKeeps == ASSUME TeamInv, NEW s \in Syncs, SyncFlushed(s) PROVE TeamInv'
<1> DEFINE sync == syncs[s]
           w == sync.workspace
<1>1. sync \in Sync /\ Sound(sync) /\ sync.stage = "checked" /\ w \in Workspaces /\ revision[w] \in Nat
      /\ sync.result = sync.base /\ sync.result \in Nat
  BY DEF SyncFlushed, TeamInv, TeamTypeOK, SyncsSound, Sync, Sound
<1>2. CASE ~Flushes(s)
  <2> DEFINE r == [sync EXCEPT !.stage = "refused", !.result = revision[w]]
  <2>1. syncs' = [syncs EXCEPT ![s] = r]
    BY <1>2, <1>1 DEF SyncFlushed, TeamInv, TeamTypeOK
  <2>2. UNCHANGED <<revision, accepted, pages>>
    BY <1>2 DEF SyncFlushed
  <2>3. r \in Sync
    BY <1>1 DEF Sync
  <2>4. Sound(r)
    BY <1>1 DEF Sound, Sync
  <2> HIDE DEF r
  <2> QED
    BY <2>1, <2>2, <2>3, <2>4, SlotKeeps
<1>3. CASE Flushes(s)
  <2> DEFINE r == [sync EXCEPT !.stage = "done", !.result = sync.result + 1]
             c == [workspace |-> w, revision |-> sync.result + 1, by |-> sync.by, slot |-> s,
                   own |-> sync.own, seen |-> sync.seen]
  <2>1. sync.result = revision[w]
    BY <1>3 DEF Flushes
  <2>2. /\ revision' = [revision EXCEPT ![w] = sync.result + 1]
        /\ accepted' = accepted \union {c}
        /\ UNCHANGED pages
    BY <1>3 DEF SyncFlushed
  <2>3. syncs' = [syncs EXCEPT ![s] = r]
    BY <1>3, <1>1 DEF SyncFlushed, TeamInv, TeamTypeOK
  <2>4. r \in Sync /\ Sound(r)
    <3>1. r \in Sync
      <4>1. sync.result + 1 \in Nat
        BY <1>1
      <4> DEFINE next == sync.result + 1
      <4>2. r = [sync EXCEPT !.stage = "done", !.result = next]
        OBVIOUS
      <4> HIDE DEF next
      <4>3. next \in Nat
        BY <4>1 DEF next
      <4> QED
        BY <1>1, <4>2, <4>3 DEF Sync
    <3>2. r.stage = "done" /\ r.own = sync.own /\ r.base = sync.base /\ r.seen = sync.seen
      BY <1>1 DEF Sync
    <3> HIDE DEF r
    <3>3. Sound(r)
      BY <1>1, <3>2 DEF Sound
    <3> QED
      BY <3>1, <3>3
  <2>5. c \in Change
    BY <1>1 DEF Sync, Change
  <2>6. c.workspace = w /\ c.revision = revision[w] + 1 /\ (c.own => c.revision - 1 \in c.seen)
    BY <1>1, <2>1 DEF Sync, Sound
  <2> HIDE DEF r, c
  <2>7. TeamTypeOK'
    BY <1>1, <2>2, <2>3, <2>4, <2>5 DEF TeamInv, TeamTypeOK
  <2>8. SyncsSound'
    BY <2>3, <2>4 DEF TeamInv, TeamTypeOK, SyncsSound
  <2>9. \A d \in accepted : d.workspace \in Workspaces /\ d.revision \in Nat /\ d.revision <= revision[d.workspace]
    BY DEF TeamInv, TeamTypeOK, ChangesBehind, Change
  <2>10. revision \in [Workspaces -> Nat]
    BY DEF TeamInv, TeamTypeOK
  <2>11. ChangesBehind'
    BY <1>1, <2>1, <2>2, <2>6, <2>9, <2>10 DEF ChangesBehind
  <2>12. \A d \in accepted : ~(d.workspace = c.workspace /\ d.revision = c.revision)
    BY <1>1, <2>6, <2>9
  <2>13. NoBlindOverwrite'
    BY <2>2, <2>6, <2>12 DEF TeamInv, NoBlindOverwrite
  <2> QED
    BY <2>2, <2>7, <2>8, <2>11, <2>13 DEF TeamInv, PagesKnow
<1> QED
  BY <1>2, <1>3

LEMMA AnswerKeeps == ASSUME TeamInv, NEW s \in Syncs, SyncAnswered(s) PROVE TeamInv'
<1> DEFINE sync == syncs[s]
           w == sync.workspace
           m == sync.by
<1>1. sync \in Sync /\ w \in Workspaces /\ m \in Members /\ sync.result \in Nat
  BY DEF SyncAnswered, TeamInv, TeamTypeOK, Sync
<1>2. UNCHANGED <<revision, accepted>> /\ syncs' = [syncs EXCEPT ![s] = NoSync]
  BY DEF SyncAnswered
<1>3. pages \in [Members -> Page] /\ PagesKnow
  BY DEF TeamInv, TeamTypeOK
<1>4. pages[m] \in Page /\ Knows(pages[m])
  BY <1>1, <1>3 DEF PagesKnow
<1> DEFINE seen1 == [pages[m].seen EXCEPT ![w] = @ \union {sync.result}]
<1>5. seen1 \in [Workspaces -> SUBSET Nat] /\ sync.result \in seen1[w]
      /\ \A v \in Workspaces : pages[m].seen[v] \subseteq seen1[v]
  BY <1>1, <1>4 DEF Page
<1>6. pages' \in [Members -> Page] /\ PagesKnow'
  <2>1. CASE ~sync.live
    BY <2>1, <1>3 DEF SyncAnswered, PagesKnow
  <2>2. CASE sync.live /\ sync.stage = "done"
    <3> DEFINE p == [pages[m] EXCEPT !.revision = sync.result, !.of = w, !.conflict = {}, !.seen = seen1]
    <3>1. pages' = [pages EXCEPT ![m] = p]
      BY <2>2, <1>1, <1>3, <1>4 DEF SyncAnswered, Page
    <3>2. p \in Page
      BY <1>1, <1>4, <1>5 DEF Page
    <3>3. Knows(p)
      BY <1>1, <1>4, <1>5 DEF Knows, Page
    <3> HIDE DEF p
    <3> QED
      BY <3>1, <3>2, <3>3, <1>3 DEF PagesKnow
  <2>3. CASE sync.live /\ sync.stage # "done"
    <3> DEFINE k == [revision |-> sync.result, of |-> w]
               p == [pages[m] EXCEPT !.conflict = {k}, !.seen = seen1]
    <3>1. pages' = [pages EXCEPT ![m] = p]
      BY <2>3, <1>1, <1>3, <1>4 DEF SyncAnswered, Page
    <3>2. k \in Conflict /\ k.revision = sync.result /\ k.of = w
      BY <1>1 DEF Conflict
    <3> HIDE DEF k, seen1
    <3>3. p \in Page
      BY <1>4, <1>5, <3>2 DEF Page
    <3>4. p.revision = pages[m].revision /\ p.of = pages[m].of /\ p.conflict = {k} /\ p.seen = seen1
          /\ p.of \in Workspaces
      BY <1>4 DEF Page
    <3> HIDE DEF p
    <3>5. Knows(p)
      BY <1>1, <1>4, <1>5, <3>2, <3>4 DEF Knows
    <3> QED
      BY <3>1, <3>3, <3>5, <1>3 DEF PagesKnow
  <2> QED
    BY <2>1, <2>2, <2>3
<1>7. syncs' \in [Syncs -> Sync \union {NoSync}] /\ SyncsSound'
  BY <1>2 DEF TeamInv, TeamTypeOK, SyncsSound
<1> QED
  BY <1>2, <1>6, <1>7 DEF TeamInv, TeamTypeOK, ChangesBehind, NoBlindOverwrite

LEMMA LossKeeps == ASSUME TeamInv, NEW s \in Syncs, SyncLost(s) PROVE TeamInv'
<1> DEFINE r == [syncs[s] EXCEPT !.live = FALSE]
<1>1. UNCHANGED <<revision, accepted, pages>>
  BY DEF SyncLost
<1>2. CASE syncs' = [syncs EXCEPT ![s] = NoSync]
  BY <1>1, <1>2, FreeKeeps
<1>3. CASE syncs' = [syncs EXCEPT ![s].live = FALSE]
  <2>1. syncs[s] \in Sync /\ Sound(syncs[s])
    BY DEF SyncLost, TeamInv, TeamTypeOK, SyncsSound
  <2>2. r \in Sync
    BY <2>1 DEF Sync
  <2>3. Sound(r)
    BY <2>1 DEF Sound, Sync
  <2>4. syncs' = [syncs EXCEPT ![s] = r]
    BY <1>3 DEF TeamInv, TeamTypeOK
  <2> HIDE DEF r
  <2> QED
    BY <1>1, <2>2, <2>3, <2>4, SlotKeeps
<1> QED
  BY <1>2, <1>3 DEF SyncLost

-------------------------------------------------------------------------------
LEMMA TeamStep == TeamInv /\ [TeamNext]_teamVars => TeamInv'
<1> SUFFICES ASSUME TeamInv, [TeamNext]_teamVars PROVE TeamInv'
  OBVIOUS
<1>1. CASE UNCHANGED teamVars
  BY <1>1 DEF teamVars, TeamInv, TeamTypeOK, PagesKnow, SyncsSound, ChangesBehind, NoBlindOverwrite
<1>2. CASE TeamUser
  BY <1>2, ChooseKeeps, StartKeeps, ResolveKeeps, ReopenKeeps DEF TeamUser
<1>3. CASE TeamAsync
  BY <1>3, ReadKeeps, FlushKeeps, AnswerKeeps DEF TeamAsync
<1>4. CASE TeamFault
  BY <1>4, LossKeeps DEF TeamFault
<1> QED
  BY <1>1, <1>2, <1>3, <1>4 DEF TeamNext

(* Whatever pulls and pushes of however many members overlap, and whatever *)
(* answers are lost: of two pushes from one revision the server accepts    *)
(* one, and an accepted push replaces only a document its author's page    *)
(* had received (CollaborationService.push, TeamWorkbench), unless the     *)
(* page named a revision of another workspace.                             *)
THEOREM TeamOverwrites == TeamSpec => []NoBlindOverwrite
<1>1. TeamInv => NoBlindOverwrite
  BY DEF TeamInv
<1> QED
  BY <1>1, InitTeam, TeamStep, PTL DEF TeamSpec

-------------------------------------------------------------------------------
(* The sessions of the workbenches.                                        *)

SessionRow ==
    [mounted : BOOLEAN, connecting : BOOLEAN, interactive : BOOLEAN, held : BOOLEAN,
     socket : {"none", "ticket", "opening", "open", "closing"}, lost : BOOLEAN]

(* NoOrphanSocket is not inductive: an unmount closes what the ref holds,  *)
(* so the ref must hold every open socket, mounted or not, and nothing     *)
(* while the ticket is awaited.                                            *)
SessionSound(s) ==
    /\ s \in SessionRow
    /\ s.socket = "open" => s.held
    /\ s.socket = "ticket" => ~s.held
    /\ ~s.mounted /\ ~s.lost => s.socket \notin {"ticket", "opening", "open"}
SessionInv == session \in [Workbenches -> SessionRow] /\ \A w \in Workbenches : SessionSound(session[w])

SessionNext == SessionUser \/ SessionAsync \/ DeckUnmounted

LEMMA SessionStart == SessionInit => SessionInv
  BY DEF SessionInit, SessionInv, SessionSound, SessionRow, NoSession

LEMMA SessionMoves ==
  ASSUME SessionInv, NEW w \in Workbenches, NEW next, SessionBecomes(w, next), SessionSound(next)
  PROVE  SessionInv'
<1>1. session' = [session EXCEPT ![w] = next] /\ next \in SessionRow
  BY DEF SessionBecomes, SessionSound
<1>2. session' \in [Workbenches -> SessionRow]
  BY <1>1 DEF SessionInv
<1>3. \A v \in Workbenches : session'[v] = IF v = w THEN next ELSE session[v]
  BY <1>1 DEF SessionInv
<1> QED
  BY <1>2, <1>3 DEF SessionInv, SessionSound

LEMMA GoneSound == ASSUME NEW s, SessionSound(s) PROVE SessionSound(Gone(s))
<1>1. s \in SessionRow
  BY DEF SessionSound
<1>2. CASE ~s.mounted
  BY <1>2 DEF Gone
<1>3. CASE s.mounted /\ s.held /\ s.socket \in {"opening", "open"}
  <2>1. Gone(s) = [s EXCEPT !.socket = "closing", !.mounted = FALSE, !.lost = FALSE]
    BY <1>1, <1>3 DEF Gone, ClosedAtUnmount, SessionRow
  <2> QED
    BY <1>1, <1>3, <2>1 DEF SessionSound, SessionRow
<1>4. CASE s.mounted /\ ~(s.held /\ s.socket \in {"opening", "open"})
  <2>1. Gone(s) = [s EXCEPT !.mounted = FALSE, !.lost = ~s.held /\ s.socket \in {"ticket", "opening"}]
    BY <1>1, <1>4 DEF Gone, ClosedAtUnmount
  <2> QED
    BY <1>1, <1>4, <2>1 DEF SessionSound, SessionRow
<1> QED
  BY <1>2, <1>3, <1>4

LEMMA SessionStep == ASSUME SessionInv, SessionNext PROVE SessionInv'
<1>w. \A w \in Workbenches : SessionSound(session[w])
  BY DEF SessionInv
<1>1. CASE Connect
  <2>1. PICK w \in Workbenches :
          /\ session[w].mounted /\ ~session[w].held
          /\ SessionBecomes(w, [session[w] EXCEPT !.connecting = TRUE,
                                   !.socket = IF w = "tcp" THEN "ticket" ELSE "opening"])
    BY <1>1 DEF Connect
  <2>2. SessionSound([session[w] EXCEPT !.connecting = TRUE,
                                   !.socket = IF w = "tcp" THEN "ticket" ELSE "opening"])
    BY <1>w, <2>1 DEF SessionSound, SessionRow
  <2> QED
    BY <2>1, <2>2, SessionMoves
<1>2. CASE Disconnect
  <2>1. PICK w \in Workbenches :
          session[w].mounted /\ SessionBecomes(w, [session[w] EXCEPT !.socket = "closing"])
    BY <1>2 DEF Disconnect
  <2>2. SessionSound([session[w] EXCEPT !.socket = "closing"])
    BY <1>w, <2>1 DEF SessionSound, SessionRow
  <2> QED
    BY <2>1, <2>2, SessionMoves
<1>3. CASE Unmount
  <2>1. PICK w \in Workbenches : SessionBecomes(w, Gone(session[w]))
    BY <1>3 DEF Unmount
  <2> QED
    BY <1>w, <2>1, GoneSound, SessionMoves
<1>4. CASE TicketReceived
  <2>1. /\ session["tcp"].socket = "ticket" /\ "tcp" \in Workbenches
        /\ SessionBecomes("tcp", [session["tcp"] EXCEPT !.socket = "opening", !.held = TRUE])
    BY <1>4 DEF TicketReceived, Workbenches
  <2>2. SessionSound([session["tcp"] EXCEPT !.socket = "opening", !.held = TRUE])
    BY <1>w, <2>1 DEF SessionSound, SessionRow
  <2> QED
    BY <2>1, <2>2, SessionMoves
<1>5. CASE TicketRefused
  <2>1. /\ session["tcp"].socket = "ticket" /\ "tcp" \in Workbenches
        /\ SessionBecomes("tcp", [session["tcp"] EXCEPT !.socket = "none", !.connecting = FALSE,
                                                        !.interactive = FALSE])
    BY <1>5 DEF TicketRefused, Workbenches
  <2>2. SessionSound([session["tcp"] EXCEPT !.socket = "none", !.connecting = FALSE, !.interactive = FALSE])
    BY <1>w, <2>1 DEF SessionSound, SessionRow
  <2> QED
    BY <2>1, <2>2, SessionMoves
<1>6. CASE SocketOpens
  <2>1. PICK w \in Workbenches :
          /\ session[w].socket = "opening"
          /\ SessionBecomes(w, [session[w] EXCEPT !.socket = "open", !.held = TRUE, !.connecting = FALSE,
                                   !.interactive = TRUE])
    BY <1>6 DEF SocketOpens
  <2>2. SessionSound([session[w] EXCEPT !.socket = "open", !.held = TRUE, !.connecting = FALSE,
                                   !.interactive = TRUE])
    BY <1>w, <2>1 DEF SessionSound, SessionRow
  <2> QED
    BY <2>1, <2>2, SessionMoves
<1>7. CASE TargetGone
  <2>1. /\ session["tcp"].socket = "open" /\ "tcp" \in Workbenches
        /\ SessionBecomes("tcp", [session["tcp"] EXCEPT !.interactive = FALSE, !.connecting = FALSE])
    BY <1>7 DEF TargetGone, Workbenches
  <2>2. SessionSound([session["tcp"] EXCEPT !.interactive = FALSE, !.connecting = FALSE])
    BY <1>w, <2>1 DEF SessionSound, SessionRow
  <2> QED
    BY <2>1, <2>2, SessionMoves
<1>8. CASE SocketCloses
  <2>1. PICK w \in Workbenches :
          SessionBecomes(w, [session[w] EXCEPT !.socket = "none", !.held = FALSE, !.connecting = FALSE,
                                !.interactive = FALSE])
    BY <1>8 DEF SocketCloses
  <2>2. SessionSound([session[w] EXCEPT !.socket = "none", !.held = FALSE, !.connecting = FALSE,
                                !.interactive = FALSE])
    BY <1>w, <2>1 DEF SessionSound, SessionRow
  <2> QED
    BY <2>1, <2>2, SessionMoves
<1>9. CASE DeckUnmounted
  <2>1. \A w \in Workbenches : session'[w] = Gone(session[w]) /\ SessionSound(session'[w])
    BY <1>9, <1>w, GoneSound DEF DeckUnmounted
  <2>2. session' \in [Workbenches -> SessionRow]
    BY <1>9, <2>1 DEF DeckUnmounted, SessionSound
  <2> QED
    BY <2>1, <2>2 DEF SessionInv, SessionSound
<1> QED
  BY <1>1, <1>2, <1>3, <1>4, <1>5, <1>6, <1>7, <1>8, <1>9 DEF SessionNext, SessionUser, SessionAsync

-------------------------------------------------------------------------------
(* The sends of the desktop's workbenches.                                 *)

Ids == Nat \union {NoExecution}
SendRow == [listening : BOOLEAN, activeExecutionId : Ids, cancelId : Ids, shown : SUBSET Nat,
            crossed : BOOLEAN]
Execution == [of : Senders, state : {"invoked", "started", "done"}]
CancelRow == [by : Senders, execution : Nat, crossed : BOOLEAN]

DispatchTypes ==
    /\ sends \in [Senders -> SendRow] /\ executions \in Seq(Execution)
    /\ cancelled \in SUBSET CancelRow

(* Every id a send was told of is one of an execution ...                  *)
Known(e) == e \in DOMAIN executions
IdsKnown ==
    /\ \A s \in Senders :
          /\ sends[s].activeExecutionId = NoExecution \/ Known(sends[s].activeExecutionId)
          /\ sends[s].cancelId = NoExecution \/ Known(sends[s].cancelId)
          /\ \A e \in sends[s].shown : Known(e)
    /\ \A c \in cancelled : Known(c.execution)

(* ... and, unless another one was announced, of its own.                  *)
IdsOwn ==
    \A s \in Senders : ~sends[s].crossed =>
        /\ sends[s].activeExecutionId # NoExecution => executions[sends[s].activeExecutionId].of = s
        /\ sends[s].cancelId # NoExecution => executions[sends[s].cancelId].of = s

DispatchInv == DispatchTypes /\ IdsKnown /\ IdsOwn /\ OwnEventsOnly

DispatchNext == DispatchUser \/ DispatchAsync

LEMMA SilentFacts ==
  /\ Silent \in SendRow /\ Silent.shown = {} /\ ~Silent.crossed
  /\ Silent.activeExecutionId = NoExecution /\ Silent.cancelId = NoExecution
  BY DEF Silent, SendRow, Ids

LEMMA DispatchStart == DispatchInit => DispatchInv
  BY SilentFacts DEF DispatchInit, DispatchInv, DispatchTypes, IdsKnown, IdsOwn, OwnEventsOnly

(* Executions are never forgotten and keep their sender.                   *)
LEMMA ExecutionsGrow ==
  ASSUME DispatchTypes, executions' \in Seq(Execution),
         \A e \in DOMAIN executions : e \in DOMAIN executions' /\ executions'[e].of = executions[e].of,
         sends' \in [Senders -> SendRow], cancelled' = cancelled, IdsKnown, IdsOwn,
         OwnEventsOnly,
         \A s \in Senders :
            \/ sends'[s] = sends[s]
            \/ /\ sends'[s].shown = {} /\ sends'[s].activeExecutionId = NoExecution
               /\ sends'[s].cancelId = NoExecution
            \/ /\ sends'[s].shown = sends[s].shown /\ (sends[s].crossed => sends'[s].crossed)
               /\ sends'[s].activeExecutionId \in DOMAIN executions'
               /\ sends'[s].cancelId \in DOMAIN executions'
               /\ ~sends'[s].crossed => /\ executions'[sends'[s].activeExecutionId].of = s
                                        /\ executions'[sends'[s].cancelId].of = s
  PROVE  DispatchInv'
<1> USE DispatchAssumption
<1>1. DispatchTypes'
  BY DEF DispatchTypes
<1>2. IdsKnown'
  BY DEF IdsKnown, Known
<1>3. IdsOwn'
  BY DEF IdsOwn, IdsKnown, Known
<1>4. OwnEventsOnly'
  BY DEF OwnEventsOnly, IdsKnown, Known
<1> QED
  BY <1>1, <1>2, <1>3, <1>4 DEF DispatchInv

LEMMA DispatchStep == ASSUME DispatchInv, DispatchNext PROVE DispatchInv'
<1> USE DispatchAssumption
<1>t. DispatchTypes /\ IdsKnown /\ IdsOwn /\ OwnEventsOnly
  BY DEF DispatchInv
<1>1. CASE SendStarts
  <2>1. PICK s \in Senders :
          /\ sends' = [sends EXCEPT ![s] = [Silent EXCEPT !.listening = TRUE]]
          /\ executions' = Append(executions, [of |-> s, state |-> "invoked"])
          /\ UNCHANGED cancelled
    BY <1>1 DEF SendStarts
  <2> DEFINE row == [Silent EXCEPT !.listening = TRUE]
  <2>2. row \in SendRow /\ row.shown = {} /\ row.activeExecutionId = NoExecution /\ row.cancelId = NoExecution
    BY DEF Silent, SendRow, Ids
  <2>3. [of |-> s, state |-> "invoked"] \in Execution
    BY DEF Execution
  <2> HIDE DEF row
  <2>4. /\ executions' \in Seq(Execution)
        /\ \A e \in DOMAIN executions : e \in DOMAIN executions' /\ executions'[e].of = executions[e].of
    BY <1>t, <2>1, <2>3 DEF DispatchTypes
  <2>5. sends' \in [Senders -> SendRow] /\ \A q \in Senders : sends'[q] = IF q = s THEN row ELSE sends[q]
    BY <1>t, <2>1, <2>2 DEF DispatchTypes, row
  <2> QED
    BY <1>t, <2>1, <2>2, <2>4, <2>5, ExecutionsGrow
<1>2. CASE ExecutionStarted
  <2>1. PICK e \in DOMAIN executions :
          /\ executions' = [executions EXCEPT ![e].state = "started"]
          /\ sends' = [s \in Senders |-> Heard(s, e)]
          /\ UNCHANGED cancelled
    BY <1>2 DEF ExecutionStarted
  <2>2. e \in Nat /\ executions[e] \in Execution
    BY <1>t DEF DispatchTypes
  <2>3. /\ executions' \in Seq(Execution) /\ DOMAIN executions' = DOMAIN executions
        /\ \A i \in DOMAIN executions : executions'[i].of = executions[i].of
    BY <1>t, <2>1, <2>2 DEF DispatchTypes, Execution
  <2>4. ASSUME NEW s \in Senders
        PROVE  /\ sends'[s] \in SendRow
               /\ \/ sends'[s] = sends[s]
                  \/ /\ sends'[s].shown = sends[s].shown
                     /\ sends[s].crossed => sends'[s].crossed
                     /\ sends'[s].activeExecutionId = e /\ sends'[s].cancelId = e
                     /\ ~sends'[s].crossed => executions[e].of = s
    <3>1. sends[s] \in SendRow /\ sends'[s] = Heard(s, e)
      BY <1>t, <2>1 DEF DispatchTypes
    <3>2. CASE ~sends[s].listening
      BY <3>1, <3>2 DEF Heard
    <3>3. CASE sends[s].listening
      <4>1. sends'[s] = [sends[s] EXCEPT !.activeExecutionId = e, !.cancelId = e,
                                         !.crossed = sends[s].crossed \/ executions[e].of # s]
        BY <3>1, <3>3 DEF Heard
      <4> QED
        BY <2>2, <3>1, <4>1 DEF SendRow, Ids
    <3> QED
      BY <3>2, <3>3
  <2>5. sends' \in [Senders -> SendRow]
    BY <2>1, <2>4
  <2>6. \A s \in Senders :
           \/ sends'[s] = sends[s]
           \/ /\ sends'[s].shown = sends[s].shown /\ (sends[s].crossed => sends'[s].crossed)
              /\ sends'[s].activeExecutionId \in DOMAIN executions'
              /\ sends'[s].cancelId \in DOMAIN executions'
              /\ ~sends'[s].crossed => /\ executions'[sends'[s].activeExecutionId].of = s
                                       /\ executions'[sends'[s].cancelId].of = s
    BY <2>1, <2>3, <2>4
  <2>7. \A i \in DOMAIN executions : i \in DOMAIN executions' /\ executions'[i].of = executions[i].of
    BY <2>3
  <2>8. executions' \in Seq(Execution) /\ cancelled' = cancelled
    BY <2>1, <2>3
  <2> QED
    BY <1>t, <2>5, <2>6, <2>7, <2>8, ExecutionsGrow
<1>3. CASE ExecutionEvent
  <2>1. PICK e \in DOMAIN executions :
          /\ sends' = [s \in Senders |-> IF s \in Streaming /\ sends[s].listening /\ Shows(s, e)
                                         THEN [sends[s] EXCEPT !.shown = @ \union {e}] ELSE sends[s]]
          /\ UNCHANGED <<executions, cancelled>>
    BY <1>3 DEF ExecutionEvent
  <2>2. e \in Nat
    BY <1>t DEF DispatchTypes
  <2>3. ASSUME NEW s \in Senders
        PROVE  /\ sends'[s] \in SendRow
               /\ \/ sends'[s] = sends[s]
                  \/ /\ sends'[s].shown = sends[s].shown \union {e} /\ sends[s].activeExecutionId = e
                     /\ sends'[s].activeExecutionId = sends[s].activeExecutionId
                     /\ sends'[s].cancelId = sends[s].cancelId /\ sends'[s].crossed = sends[s].crossed
    BY <1>t, <2>1, <2>2 DEF DispatchTypes, SendRow, Shows
  <2>4. DispatchTypes'
    BY <1>t, <2>1, <2>3 DEF DispatchTypes
  <2>5. IdsKnown' /\ IdsOwn'
    BY <1>t, <2>1, <2>3 DEF IdsKnown, IdsOwn, Known
  <2>6. \A s \in Senders : ~sends'[s].crossed => \A i \in sends'[s].shown : executions[i].of = s
    <3> SUFFICES ASSUME NEW s \in Senders, ~sends'[s].crossed, NEW i \in sends'[s].shown
                 PROVE  executions[i].of = s
      OBVIOUS
    <3>1. ~sends[s].crossed /\ (i \in sends[s].shown \/ (i = e /\ sends[s].activeExecutionId = e))
      BY <2>3
    <3>2. i \in sends[s].shown => executions[i].of = s
      BY <1>t, <3>1 DEF OwnEventsOnly
    <3>3. sends[s].activeExecutionId = e => executions[e].of = s
      BY <1>t, <2>2, <3>1 DEF IdsOwn
    <3> QED
      BY <3>1, <3>2, <3>3
  <2>7. OwnEventsOnly'
    BY <1>t, <2>1, <2>6 DEF OwnEventsOnly
  <2> QED
    BY <2>4, <2>5, <2>7 DEF DispatchInv
<1>4. CASE CommandReturned
  <2>1. PICK e \in DOMAIN executions :
          /\ executions' = [executions EXCEPT ![e].state = "done"]
          /\ sends' = [sends EXCEPT ![executions[e].of] = Silent]
          /\ UNCHANGED cancelled
    BY <1>4 DEF CommandReturned
  <2>2. executions[e] \in Execution
    BY <1>t DEF DispatchTypes
  <2>3. /\ executions' \in Seq(Execution) /\ DOMAIN executions' = DOMAIN executions
        /\ \A i \in DOMAIN executions : executions'[i].of = executions[i].of
    BY <1>t, <2>1, <2>2 DEF DispatchTypes, Execution
  <2>4. sends' \in [Senders -> SendRow] /\ \A q \in Senders : sends'[q] = sends[q] \/ sends'[q] = Silent
    BY <1>t, <2>1, SilentFacts DEF DispatchTypes
  <2> QED
    BY <1>t, <2>1, <2>3, <2>4, SilentFacts, ExecutionsGrow
<1>5. CASE Cancel
  <2>1. PICK s \in Senders :
          /\ sends[s].cancelId # NoExecution
          /\ cancelled' = cancelled \union {[by |-> s, execution |-> sends[s].cancelId,
                                             crossed |-> sends[s].crossed]}
          /\ UNCHANGED <<sends, executions>>
    BY <1>5 DEF Cancel
  <2> DEFINE row == [by |-> s, execution |-> sends[s].cancelId, crossed |-> sends[s].crossed]
  <2>2. sends[s] \in SendRow /\ sends[s].cancelId \in Nat
    BY <1>t, <2>1 DEF DispatchTypes, SendRow, Ids
  <2>3. row \in CancelRow /\ row.by = s /\ row.execution = sends[s].cancelId /\ row.crossed = sends[s].crossed
    BY <2>2 DEF CancelRow, SendRow
  <2> HIDE DEF row
  <2>4. DispatchTypes'
    BY <1>t, <2>1, <2>3 DEF DispatchTypes, row
  <2>5. IdsKnown' /\ IdsOwn'
    BY <1>t, <2>1, <2>3 DEF IdsKnown, IdsOwn, Known, row
  <2>6. \A c \in cancelled' : ~c.crossed => executions[c.execution].of = c.by
    BY <1>t, <2>1, <2>3 DEF OwnEventsOnly, IdsOwn, row
  <2>7. OwnEventsOnly'
    BY <1>t, <2>1, <2>6 DEF OwnEventsOnly
  <2> QED
    BY <2>4, <2>5, <2>7 DEF DispatchInv
<1> QED
  BY <1>1, <1>2, <1>3, <1>4, <1>5 DEF DispatchNext, DispatchUser, DispatchAsync

-------------------------------------------------------------------------------
(* The page and the local agents.                                          *)

PairingTokens == {Pairing(a) : a \in Agents}
SessionTokens(a) == {SessionToken(a, n) : n \in Nat}
AnySession == UNION {SessionTokens(a) : a \in Agents}
Tokens == PairingTokens \union AnySession \union {NoToken}
ClientRow == [bootstrap : PairingTokens \union {NoToken}, token : Tokens,
              promise : {"none", "pending", "resolved", "rejected"}, exchanges : Nat]
CallRow ==
    {NoCall} \union [stage : {"health", "begin"}, by : Clients]
             \union [stage : {"exchange"}, by : Clients, agent : Agents, token : PairingTokens]
             \union [stage : {"waiting"}, by : Clients, token : PairingTokens \union {NoToken}]

AgentTypes ==
    /\ settings \in Configurations /\ client \in [Clients -> ClientRow]
    /\ agentCalls \in [AgentCalls -> CallRow]
    /\ agentSide \in [Agents -> [sessions : SUBSET AnySession, opened : Nat]]
    /\ steady \in BOOLEAN

(* One exchange per module of a page: only without a promise is one made.  *)
OneExchange ==
    \A c \in Clients : client[c].exchanges <= 1 /\ (client[c].promise = "none" => client[c].exchanges = 0)

(* The promise of a module is pending while its one exchange is under way. *)
ExchangePending ==
    \A s \in AgentCalls : agentCalls[s].stage = "exchange" =>
        /\ client[agentCalls[s].by].promise = "pending"
        /\ \A q \in AgentCalls :
              agentCalls[q].stage = "exchange" /\ agentCalls[q].by = agentCalls[s].by => q = s

(* agentClient starts with the pairing token and has a session in its      *)
(* place once the promise is resolved; a call of it that has begun without *)
(* a promise has begun without a token.                                    *)
TokenSwapped ==
    /\ IF client["agentClient"].promise = "resolved" THEN client["agentClient"].token \in AnySession
       ELSE client["agentClient"].token = client["agentClient"].bootstrap
    /\ \A s \in AgentCalls :
          agentCalls[s].stage = "waiting" /\ agentCalls[s].by = "agentClient" =>
              client["agentClient"].promise # "none" \/ client["agentClient"].bootstrap = NoToken

(* While the page is steady, it is paired with the agent it talks to: no   *)
(* call has begun without a promise, every exchange carries the agent's    *)
(* pairing token, and a resolved promise has brought a session the agent   *)
(* still knows.                                                            *)
SteadyPage ==
    steady =>
        /\ Paired(settings) /\ client["agentClient"].bootstrap = settings.token
        /\ \A s \in AgentCalls :
              /\ agentCalls[s].stage = "exchange" =>
                    agentCalls[s].agent = settings.agent /\ agentCalls[s].token = settings.token
              /\ agentCalls[s].stage = "waiting" => client[agentCalls[s].by].promise # "none"
        /\ \A c \in Clients : client[c].promise = "resolved" =>
              client[c].token \in agentSide[settings.agent].sessions

AgentInv == AgentTypes /\ OneExchange /\ ExchangePending /\ TokenSwapped /\ SteadyPage /\ SessionUsed

AgentNext == AgentUser \/ AgentAsync \/ AgentFault

LEMMA TokenFacts ==
  /\ \A token \in PairingTokens : token # NoToken /\ token.kind = "pairing"
  /\ \A token \in AnySession : token # NoToken /\ token.kind = "session"
  /\ \A a \in Agents, n \in Nat : SessionToken(a, n) \in AnySession
<1>1. \A a \in Agents : Pairing(a) # NoToken /\ Pairing(a).kind = "pairing"
  BY AgentAssumption DEF Pairing
<1>2. \A a \in Agents, n \in Nat : SessionToken(a, n) # NoToken /\ SessionToken(a, n).kind = "session"
  BY AgentAssumption DEF SessionToken
<1> QED
  BY <1>1, <1>2 DEF PairingTokens, AnySession, SessionTokens

(* The two fields of an agent that opening a session changes.              *)
LEMMA SideFields ==
  ASSUME NEW r, r = [sessions |-> r.sessions, opened |-> r.opened], NEW token
  PROVE  [r EXCEPT !.sessions = @ \union {token}, !.opened = @ + 1]
         = [sessions |-> r.sessions \union {token}, opened |-> r.opened + 1]
<1> DEFINE more == r.sessions \union {token}
           next == r.opened + 1
           mid == [r EXCEPT !.sessions = more]
           last == [mid EXCEPT !.opened = next]
<1>2. [r EXCEPT !.sessions = @ \union {token}, !.opened = @ + 1] = last
  OBVIOUS
<1>3. mid = [r EXCEPT !.sessions = more] /\ last = [mid EXCEPT !.opened = next]
  OBVIOUS
<1> HIDE DEF more, next, mid, last
<1>4. mid = [sessions |-> more, opened |-> r.opened]
  BY <1>3
<1>5. last = [sessions |-> more, opened |-> next]
  BY <1>3, <1>4
<1> QED
  BY <1>2, <1>5 DEF more, next

LEMMA CallFacts ==
  ASSUME AgentTypes, NEW s \in AgentCalls
  PROVE  /\ agentCalls[s] # NoCall => agentCalls[s].by \in Clients
         /\ agentCalls[s].stage = "exchange" =>
               agentCalls[s].agent \in Agents /\ agentCalls[s].token \in PairingTokens
         /\ agentCalls[s].stage = "waiting" => agentCalls[s].token \in PairingTokens \union {NoToken}
         /\ agentCalls[s].stage \in {"health", "begin", "exchange", "waiting"} => agentCalls[s] # NoCall
  BY DEF AgentTypes, CallRow, NoCall

(* A page that was just loaded, whoever it is paired with.                 *)
LEMMA LoadedFacts ==
  ASSUME settings \in Configurations
  PROVE  /\ LoadedPage(settings) \in [Clients -> ClientRow]
         /\ \A c \in Clients : LET row == LoadedPage(settings)[c] IN
               /\ row.exchanges = 0 /\ row.promise = "none" /\ row.bootstrap = settings.token
               /\ c = "agentClient" => row.token = settings.token
         /\ NoCall \in CallRow /\ NoCall.stage = "free"
         /\ Paired(settings) \in BOOLEAN
<1>1. settings.token \in PairingTokens \union {NoToken}
  BY DEF Configurations, PairingTokens
<1>2. \A c \in Clients : LoadedPage(settings)[c] \in ClientRow
  BY <1>1 DEF LoadedPage, ClientRow, Tokens
<1>3. LoadedPage(settings) \in [Clients -> ClientRow]
  BY <1>2 DEF LoadedPage
<1>4. \A c \in Clients : LET row == LoadedPage(settings)[c] IN
         /\ row.exchanges = 0 /\ row.promise = "none" /\ row.bootstrap = settings.token
         /\ c = "agentClient" => row.token = settings.token
  BY DEF LoadedPage
<1>5. NoCall \in CallRow /\ NoCall.stage = "free"
  BY DEF CallRow, NoCall
<1>6. Paired(settings) \in BOOLEAN
  BY DEF Paired
<1> QED
  BY <1>3, <1>4, <1>5, <1>6

LEMMA AgentStart == AgentInit => AgentInv
<1> SUFFICES ASSUME AgentInit PROVE AgentInv
  OBVIOUS
<1> USE LoadedFacts
<1>1. AgentTypes
  BY DEF AgentInit, AgentTypes
<1>2. OneExchange /\ ExchangePending /\ TokenSwapped
  BY DEF AgentInit, OneExchange, ExchangePending, TokenSwapped, Clients
<1>3. SteadyPage
  BY DEF AgentInit, SteadyPage, Clients
<1>4. SessionUsed
  BY DEF AgentInit, SessionUsed
<1> QED
  BY <1>1, <1>2, <1>3, <1>4 DEF AgentInv

(* A call that goes to another stage without an exchange.                  *)
LEMMA CallMoves ==
  ASSUME AgentInv, NEW s \in AgentCalls, NEW call \in CallRow, agentCalls' = [agentCalls EXCEPT ![s] = call],
         call.stage \in {"free", "health", "begin"},
         UNCHANGED <<settings, client, agentSide, received, steady>>
  PROVE  AgentInv'
<1>1. \A q \in AgentCalls : agentCalls'[q] = IF q = s THEN call ELSE agentCalls[q]
  BY DEF AgentInv, AgentTypes
<1>2. AgentTypes'
  BY DEF AgentInv, AgentTypes
<1>3. OneExchange' /\ SessionUsed'
  BY DEF AgentInv, OneExchange, SessionUsed
<1>4. TokenSwapped' /\ ExchangePending'
  BY <1>1 DEF AgentInv, TokenSwapped, ExchangePending
<1>5. SteadyPage'
  BY <1>1 DEF AgentInv, SteadyPage
<1> QED
  BY <1>2, <1>3, <1>4, <1>5 DEF AgentInv

LEMMA CallStartsKeeps == ASSUME AgentInv, CallStarts PROVE AgentInv'
<1>1. PICK s \in AgentCalls, c \in Clients :
        /\ agentCalls' = [agentCalls EXCEPT ![s] =
              [stage |-> IF c = "agentClient" THEN "health" ELSE "begin", by |-> c]]
        /\ UNCHANGED <<settings, client, agentSide, received, steady>>
  BY DEF CallStarts
<1> DEFINE call == [stage |-> IF c = "agentClient" THEN "health" ELSE "begin", by |-> c]
<1>2. call \in CallRow /\ call.stage \in {"free", "health", "begin"}
  BY DEF CallRow
<1> QED
  BY <1>1, <1>2, CallMoves

LEMMA HealthKeeps == ASSUME AgentInv, NEW s \in AgentCalls, HealthAnswered(s) PROVE AgentInv'
<1>1. agentCalls[s] \in [stage : {"health", "begin"}, by : Clients]
  BY DEF HealthAnswered, AgentInv, AgentTypes, CallRow, NoCall
<1> DEFINE call == [agentCalls[s] EXCEPT !.stage = "begin"]
<1>2. call \in CallRow /\ call.stage = "begin"
  BY <1>1 DEF CallRow
<1>3. agentCalls' = [agentCalls EXCEPT ![s] = call]
  BY DEF HealthAnswered, AgentInv, AgentTypes
<1> QED
  BY <1>2, <1>3, CallMoves DEF HealthAnswered

LEMMA CallEndsKeeps ==
  ASSUME AgentInv, NEW s \in AgentCalls, CallRejected(s) \/ HealthFailed(s) PROVE AgentInv'
<1>1. NoCall \in CallRow /\ NoCall.stage = "free"
  BY DEF CallRow, NoCall
<1> QED
  BY <1>1, CallMoves DEF CallRejected, HealthFailed

LEMMA SettingsKeeps == ASSUME AgentInv, SettingsChange PROVE AgentInv'
  BY DEF SettingsChange, AgentInv, AgentTypes, OneExchange, ExchangePending, TokenSwapped, SteadyPage, SessionUsed

LEMMA ReloadKeeps == ASSUME AgentInv, PageReloads PROVE AgentInv'
<1>1. settings \in Configurations
  BY DEF AgentInv, AgentTypes
<1> USE <1>1, LoadedFacts
<1>2. /\ client' = LoadedPage(settings) /\ agentCalls' = [s \in AgentCalls |-> NoCall]
      /\ steady' = Paired(settings) /\ UNCHANGED <<settings, agentSide, received>>
  BY DEF PageReloads
<1>3. AgentTypes'
  BY <1>2 DEF AgentInv, AgentTypes
<1>4. OneExchange' /\ ExchangePending' /\ TokenSwapped'
  BY <1>2 DEF OneExchange, ExchangePending, TokenSwapped, Clients
<1>5. SteadyPage'
  BY <1>2 DEF SteadyPage, Clients, Paired
<1>6. SessionUsed'
  BY <1>2 DEF AgentInv, SessionUsed
<1> QED
  BY <1>3, <1>4, <1>5, <1>6 DEF AgentInv

LEMMA RestartsKeeps == ASSUME AgentInv, AgentRestarts PROVE AgentInv'
<1>1. PICK a \in Agents : agentSide' = [agentSide EXCEPT ![a].sessions = {}]
  BY DEF AgentRestarts
<1>2. agentSide' \in [Agents -> [sessions : SUBSET AnySession, opened : Nat]]
  BY <1>1 DEF AgentInv, AgentTypes
<1>3. steady' = FALSE /\ UNCHANGED <<settings, client, agentCalls, received>>
  BY DEF AgentRestarts
<1> QED
  BY <1>2, <1>3 DEF AgentInv, AgentTypes, OneExchange, ExchangePending, TokenSwapped, SteadyPage, SessionUsed

LEMMA BeginsKeeps == ASSUME AgentInv, NEW s \in AgentCalls, CallBegins(s) PROVE AgentInv'
<1> DEFINE c == agentCalls[s].by
<1> DEFINE token == Bootstrap(c)
<1>1. /\ agentCalls[s].stage = "begin" /\ c \in Clients
      /\ UNCHANGED <<settings, agentSide, received, steady>>
  BY CallFacts DEF CallBegins, AgentInv
<1>2. token \in PairingTokens \union {NoToken}
  BY <1>1 DEF Bootstrap, AgentInv, AgentTypes, Configurations, PairingTokens, ClientRow, Clients
<1>3. steady => token = settings.token /\ token # NoToken
  <2>1. settings.agent \in Agents => Pairing(settings.agent) \in PairingTokens
    BY DEF PairingTokens
  <2> QED
    BY <1>1, <2>1, TokenFacts DEF Bootstrap, AgentInv, AgentTypes, SteadyPage, Paired, Configurations, Clients
<1>c. client[c] \in ClientRow
  BY <1>1 DEF AgentInv, AgentTypes
<1>4. CASE client[c].promise = "none" /\ token # NoToken
  <2> DEFINE call == [stage |-> "exchange", by |-> c, agent |-> settings.agent, token |-> token]
  <2>1. /\ client' = [client EXCEPT ![c].promise = "pending", ![c].exchanges = @ + 1]
        /\ agentCalls' = [agentCalls EXCEPT ![s] = call]
    BY <1>4 DEF CallBegins, MustExchange
  <2>2. /\ call \in CallRow /\ call.stage = "exchange" /\ call.by = c /\ call.agent = settings.agent /\ call.token = token
    BY <1>1, <1>2, <1>4 DEF CallRow, AgentInv, AgentTypes, Configurations
  <2> HIDE DEF call
  <2>3. \A q \in AgentCalls : agentCalls'[q] = IF q = s THEN call ELSE agentCalls[q]
    BY <2>1 DEF AgentInv, AgentTypes
  <2>4. /\ client' \in [Clients -> ClientRow]
        /\ client'[c].promise = "pending" /\ client'[c].exchanges = client[c].exchanges + 1
        /\ client'[c].token = client[c].token /\ client'[c].bootstrap = client[c].bootstrap
        /\ \A d \in Clients \ {c} : client'[d] = client[d]
    BY SMTT(60), <1>1, <1>c, <2>1 DEF AgentInv, AgentTypes, ClientRow
  <2>5. AgentTypes'
    BY <1>1, <2>1, <2>2, <2>4 DEF AgentInv, AgentTypes
  <2>6. OneExchange'
    BY <1>1, <1>4, <2>4 DEF AgentInv, OneExchange
  <2>x. ExchangePending'
    BY <1>1, <1>4, <2>2, <2>3, <2>4, CallFacts DEF AgentInv, ExchangePending
  <2>7. TokenSwapped'
    BY <1>1, <1>4, <2>2, <2>3, <2>4 DEF AgentInv, TokenSwapped, Clients
  <2>8. SteadyPage'
    <3> SUFFICES ASSUME steady PROVE SteadyPage'
      BY <1>1 DEF SteadyPage
    <3>1. \A q \in AgentCalls :
             agentCalls'[q].stage = "waiting" => client'[agentCalls'[q].by].promise # "none"
      BY <2>2, <2>3, <2>4, CallFacts DEF AgentInv, SteadyPage
    <3> QED
      BY ZenonT(60), <1>1, <1>3, <2>2, <2>3, <2>4, <3>1 DEF AgentInv, SteadyPage, Clients
  <2>9. SessionUsed'
    BY <1>1, <2>6 DEF AgentInv, SessionUsed, OneExchange
  <2> QED
    BY <2>5, <2>6, <2>x, <2>7, <2>8, <2>9 DEF AgentInv
<1>5. CASE ~(client[c].promise = "none" /\ token # NoToken)
  <2> DEFINE call == [stage |-> "waiting", by |-> c, token |-> token]
  <2> DEFINE settles == c = "agentResources" /\ client[c].promise = "none"
  <2>1. /\ client' = IF settles THEN [client EXCEPT ![c].promise = "resolved"] ELSE client
        /\ agentCalls' = [agentCalls EXCEPT ![s] = call]
    BY <1>5 DEF CallBegins, MustExchange
  <2>2. call \in CallRow /\ call.stage = "waiting" /\ call.by = c
    BY <1>1, <1>2 DEF CallRow
  <2> HIDE DEF call
  <2>3. \A q \in AgentCalls : agentCalls'[q] = IF q = s THEN call ELSE agentCalls[q]
    BY <2>1 DEF AgentInv, AgentTypes
  <2>4. /\ client' \in [Clients -> ClientRow]
        /\ \A d \in Clients :
              /\ client'[d].exchanges = client[d].exchanges /\ client'[d].token = client[d].token
              /\ client'[d].bootstrap = client[d].bootstrap
              /\ client'[d].promise = IF settles /\ d = c THEN "resolved" ELSE client[d].promise
    BY <1>1, <1>c, <2>1 DEF AgentInv, AgentTypes, ClientRow
  <2>5. steady => client[c].promise # "none"
    BY <1>3, <1>5
  <2>6. AgentTypes'
    BY <1>1, <2>1, <2>2, <2>4 DEF AgentInv, AgentTypes
  <2>7. OneExchange'
    BY <1>1, <2>4 DEF AgentInv, OneExchange
  <2>x. ExchangePending'
    BY <1>1, <2>2, <2>3, <2>4, CallFacts DEF AgentInv, ExchangePending
  <2>8. TokenSwapped'
    BY <1>1, <1>5, <2>2, <2>3, <2>4 DEF AgentInv, TokenSwapped, Clients, Bootstrap
  <2>9. SteadyPage'
    <3> SUFFICES ASSUME steady PROVE SteadyPage'
      BY <1>1 DEF SteadyPage
    <3>1. \A q \in AgentCalls :
             agentCalls'[q].stage = "waiting" => client'[agentCalls'[q].by].promise # "none"
      BY <1>1, <2>2, <2>3, <2>4, <2>5, CallFacts DEF AgentInv, SteadyPage
    <3> QED
      BY <1>1, <2>2, <2>3, <2>4, <2>5, <3>1 DEF AgentInv, SteadyPage, Clients
  <2>10. SessionUsed'
    BY <1>1, <2>7 DEF AgentInv, SessionUsed, OneExchange
  <2> QED
    BY <2>6, <2>7, <2>x, <2>8, <2>9, <2>10 DEF AgentInv
<1> QED
  BY <1>4, <1>5

LEMMA ExchangeKeeps ==
  ASSUME AgentInv, NEW s \in AgentCalls, NEW ok \in BOOLEAN, ExchangeAnswered(s, ok) PROVE AgentInv'
<1> DEFINE call == agentCalls[s]
<1> DEFINE c == call.by
<1> DEFINE opened == SessionToken(call.agent, agentSide[call.agent].opened + 1)
<1> DEFINE granted == ok /\ Authorized(call.agent, call.token)
<1> DEFINE after == [stage |-> "waiting", by |-> c, token |-> call.token]
<1>1. /\ call.stage = "exchange" /\ agentCalls' = [agentCalls EXCEPT ![s] = after]
      /\ UNCHANGED <<settings, received, steady>>
  BY DEF ExchangeAnswered
<1>2. c \in Clients /\ call.agent \in Agents /\ call.token \in PairingTokens
  BY <1>1, CallFacts DEF AgentInv
<1>3. after \in CallRow /\ after.stage = "waiting" /\ after.by = c
  BY <1>2 DEF CallRow
<1>4. opened \in AnySession /\ opened # NoToken
  BY <1>2, TokenFacts DEF AgentInv, AgentTypes
<1>5. client[c] \in ClientRow
  BY <1>2 DEF AgentInv, AgentTypes
<1>6. steady /\ ok => granted
  BY <1>1 DEF AgentInv, SteadyPage, Paired, Authorized
<1>7. /\ agentSide' = IF granted THEN [agentSide EXCEPT ![call.agent].sessions = @ \union {opened},
                                                        ![call.agent].opened = @ + 1]
                      ELSE agentSide
      /\ client' = IF granted THEN [client EXCEPT ![c].promise = "resolved", ![c].token = opened]
                   ELSE IF c = "agentResources" /\ ok THEN [client EXCEPT ![c].promise = "resolved"]
                   ELSE [client EXCEPT ![c].promise = "rejected"]
  BY DEF ExchangeAnswered
<1> HIDE DEF opened, granted, after
<1>8. \A q \in AgentCalls : agentCalls'[q] = IF q = s THEN after ELSE agentCalls[q]
  BY <1>1 DEF AgentInv, AgentTypes
<1>9. /\ agentSide' \in [Agents -> [sessions : SUBSET AnySession, opened : Nat]]
      /\ \A a \in Agents : agentSide[a].sessions \subseteq agentSide'[a].sessions
      /\ granted => opened \in agentSide'[call.agent].sessions
  <2> DEFINE Side == [sessions : SUBSET AnySession, opened : Nat]
             old == agentSide[call.agent]
             new == [sessions |-> old.sessions \union {opened}, opened |-> old.opened + 1]
  <2>1. agentSide \in [Agents -> Side] /\ old \in Side
    BY <1>2 DEF AgentInv, AgentTypes
  <2>2. new \in Side
    BY <1>4, <2>1
  <2>3. agentSide' = IF granted THEN [agentSide EXCEPT ![call.agent] = new] ELSE agentSide
    <3>1. [old EXCEPT !.sessions = @ \union {opened}, !.opened = @ + 1] = new
      <4>1. old = [sessions |-> old.sessions, opened |-> old.opened]
        BY <2>1
      <4> HIDE DEF old
      <4> QED
        BY <4>1, SideFields, Zenon
    <3>2. [agentSide EXCEPT ![call.agent].sessions = @ \union {opened}, ![call.agent].opened = @ + 1]
          = [agentSide EXCEPT ![call.agent] = [old EXCEPT !.sessions = @ \union {opened}, !.opened = @ + 1]]
      BY <1>2, <2>1
    <3> QED
      BY <1>7, <3>1, <3>2, Zenon
  <2>4. old.sessions \subseteq new.sessions /\ opened \in new.sessions
    OBVIOUS
  <2> HIDE DEF Side, new
  <2>5. \A a \in Agents : agentSide'[a] = IF granted /\ a = call.agent THEN new ELSE agentSide[a]
    BY <1>2, <2>1, <2>3
  <2>6. agentSide' \in [Agents -> Side]
    BY <1>2, <2>1, <2>2, <2>3
  <2> QED
    BY <1>2, <2>4, <2>5, <2>6 DEF Side
<1>10. /\ client' \in [Clients -> ClientRow]
       /\ \A d \in Clients \ {c} : client'[d] = client[d]
       /\ client'[c].exchanges = client[c].exchanges /\ client'[c].bootstrap = client[c].bootstrap
       /\ client'[c].promise = IF granted \/ (c = "agentResources" /\ ok) THEN "resolved" ELSE "rejected"
       /\ client'[c].token = IF granted THEN opened ELSE client[c].token
  <2>1. CASE granted
    BY <1>2, <1>4, <1>5, <1>7, <2>1 DEF AgentInv, AgentTypes, ClientRow, Tokens
  <2>2. CASE ~granted
    BY <1>2, <1>5, <1>7, <2>2 DEF AgentInv, AgentTypes, ClientRow
  <2> QED
    BY <2>1, <2>2
<1>11. AgentTypes'
  BY <1>1, <1>3, <1>9, <1>10 DEF AgentInv, AgentTypes
<1>12. OneExchange'
  BY <1>2, <1>10 DEF AgentInv, OneExchange
<1>13. client[c].promise = "pending" /\ ExchangePending'
  <2>1. client[c].promise = "pending"
    BY <1>1 DEF AgentInv, ExchangePending
  <2>2. \A q \in AgentCalls : agentCalls'[q].stage = "exchange" => q # s /\ agentCalls'[q] = agentCalls[q]
    BY <1>3, <1>8
  <2>3. \A q \in AgentCalls : agentCalls'[q].stage = "exchange" => agentCalls[q].by \in Clients \ {c}
    BY <1>1, <2>2, CallFacts DEF AgentInv, ExchangePending
  <2>4. ASSUME NEW q \in AgentCalls, agentCalls'[q].stage = "exchange"
        PROVE  /\ client'[agentCalls'[q].by].promise = "pending"
               /\ \A o \in AgentCalls :
                     agentCalls'[o].stage = "exchange" /\ agentCalls'[o].by = agentCalls'[q].by => o = q
    <3>1. client[agentCalls[q].by].promise = "pending"
      BY <2>2, <2>4 DEF AgentInv, ExchangePending
    <3>2. client'[agentCalls'[q].by] = client[agentCalls[q].by]
      BY <1>10, <2>2, <2>3, <2>4
    <3>3. \A o \in AgentCalls :
             agentCalls'[o].stage = "exchange" /\ agentCalls'[o].by = agentCalls'[q].by => o = q
      BY <2>2, <2>4 DEF AgentInv, ExchangePending
    <3> QED
      BY <3>1, <3>2, <3>3
  <2> QED
    BY <2>1, <2>4 DEF ExchangePending
<1>14. TokenSwapped'
  BY <1>2, <1>3, <1>4, <1>8, <1>10, <1>13 DEF AgentInv, TokenSwapped, Clients
<1>15. SteadyPage'
  <2> SUFFICES ASSUME steady PROVE SteadyPage'
    BY <1>1 DEF SteadyPage
  <2>1. settings' = settings /\ settings.agent \in Agents
    BY <1>1 DEF AgentInv, AgentTypes, Configurations
  <2>2. \A q \in AgentCalls :
          /\ agentCalls'[q].stage = "waiting" => client'[agentCalls'[q].by].promise # "none"
          /\ agentCalls'[q].stage = "exchange" =>
                agentCalls'[q].agent = settings.agent /\ agentCalls'[q].token = settings.token
    BY <1>3, <1>8, <1>10, CallFacts DEF AgentInv, SteadyPage
  <2>3. \A d \in Clients : client'[d].promise = "resolved" =>
           client'[d].token \in agentSide'[settings.agent].sessions
    BY <1>1, <1>2, <1>6, <1>9, <1>10, <2>1 DEF AgentInv, SteadyPage
  <2> QED
    BY <1>1, <1>10, <2>1, <2>2, <2>3 DEF AgentInv, SteadyPage, Clients
<1>16. SessionUsed'
  BY <1>1, <1>12 DEF AgentInv, SessionUsed, OneExchange
<1> QED
  BY <1>11, <1>12, <1>13, <1>14, <1>15, <1>16 DEF AgentInv

LEMMA SentKeeps == ASSUME AgentInv, NEW s \in AgentCalls, CallSent(s) PROVE AgentInv'
<1> DEFINE c == agentCalls[s].by
<1> DEFINE token == IF client[c].token # NoToken THEN client[c].token
                    ELSE IF c = "agentResources" THEN agentCalls[s].token ELSE NoToken
<1> DEFINE row == [by |-> c, token |-> token, steady |-> steady, ok |-> Authorized(settings.agent, token)]
<1>1. /\ agentCalls[s].stage = "waiting" /\ client[c].promise \in {"none", "resolved"}
      /\ agentCalls' = [agentCalls EXCEPT ![s] = NoCall] /\ received' = received \union {row}
      /\ UNCHANGED <<settings, client, agentSide, steady>>
  BY DEF CallSent, Settled
<1>2. c \in Clients
  BY <1>1, CallFacts DEF AgentInv
<1>3. \A q \in AgentCalls : agentCalls'[q] = IF q = s THEN NoCall ELSE agentCalls[q]
  BY <1>1 DEF AgentInv, AgentTypes
<1>4. NoCall \in CallRow /\ NoCall.stage = "free"
  BY DEF CallRow, NoCall
<1>5. AgentTypes'
  BY <1>1, <1>4 DEF AgentInv, AgentTypes
<1>6. OneExchange'
  BY <1>1 DEF AgentInv, OneExchange
<1>7. TokenSwapped' /\ ExchangePending'
  BY <1>1, <1>3, <1>4 DEF AgentInv, TokenSwapped, ExchangePending
<1>8. SteadyPage'
  BY <1>1, <1>3, <1>4 DEF AgentInv, SteadyPage
<1>9. c = "agentClient" /\ token # NoToken => token.kind = "session"
  BY <1>1, TokenFacts DEF AgentInv, TokenSwapped
<1>10. steady => Authorized(settings.agent, token) /\ token.kind = "session"
  <2> SUFFICES ASSUME steady PROVE Authorized(settings.agent, token) /\ token.kind = "session"
    OBVIOUS
  <2>1. client[c].promise = "resolved"
    BY <1>1 DEF AgentInv, SteadyPage
  <2>2. client[c].token \in agentSide[settings.agent].sessions
    BY <1>2, <2>1 DEF AgentInv, SteadyPage
  <2>3. agentSide[settings.agent].sessions \subseteq AnySession
    BY DEF AgentInv, AgentTypes, Configurations
  <2>4. token = client[c].token /\ token.kind = "session"
    BY <2>2, <2>3, TokenFacts
  <2> QED
    BY <2>2, <2>4 DEF Authorized
<1>11. SessionUsed'
  <2>1. /\ row.by = "agentClient" /\ row.token # NoToken => row.token.kind = "session"
        /\ row.steady => row.ok /\ row.token.kind = "session"
    BY <1>9, <1>10
  <2> HIDE DEF row
  <2> QED
    BY <1>1, <1>6, <2>1 DEF AgentInv, SessionUsed, OneExchange
<1> QED
  BY <1>5, <1>6, <1>7, <1>8, <1>11 DEF AgentInv

LEMMA AgentStep == ASSUME AgentInv, AgentNext PROVE AgentInv'
<1>1. CASE AgentUser
  BY <1>1, CallStartsKeeps, SettingsKeeps, ReloadKeeps DEF AgentUser
<1>2. CASE AgentAsync
  BY <1>2, HealthKeeps, BeginsKeeps, ExchangeKeeps, SentKeeps, CallEndsKeeps DEF AgentAsync
<1>3. CASE AgentFault
  BY <1>3, RestartsKeeps, CallEndsKeeps, ExchangeKeeps DEF AgentFault
<1> QED
  BY <1>1, <1>2, <1>3 DEF AgentNext

-------------------------------------------------------------------------------
(* The preferences.                                                        *)

PageRow == [open : BOOLEAN, text : Texts, rendered : Texts, effect : BOOLEAN]
PreferenceTypes ==
    /\ stored \in [Windows -> [Keys -> Texts]] /\ settingsDraft \in [Windows -> [Keys -> Texts]]
    /\ shows \in [PreferencePages -> PageRow] /\ storageEvents \in [Windows -> Nat]

LocalAgrees == \A v, w \in Windows, k \in Local : stored[v][k] = stored[w][k]

(* An open page shows what is stored, or something is still due for it: a  *)
(* storage event, a render, an effect.  A page that writes at once renders *)
(* at once.                                                                *)
PageSound(page, p) ==
    /\ ~WritesBack(p) => page.text = page.rendered /\ ~page.effect
    /\ page.open => \/ page.effect \/ page.text # page.rendered
                    \/ storageEvents[p.window] > 0
                    \/ page.text = stored[p.window][p.key]
PagesSound == \A p \in PreferencePages : PageSound(shows[p], p)

PreferenceInv == PreferenceTypes /\ LocalAgrees /\ PagesSound

PreferenceNext == PreferencesUser \/ PreferencesAsync

LEMMA PreferenceStart == PreferencesInit => PreferenceInv
<1> SUFFICES ASSUME PreferencesInit PROVE PreferenceInv
  OBVIOUS
<1>1. ClosedPage \in PageRow
  BY PreferenceAssumption DEF ClosedPage, PageRow
<1>2. PreferenceTypes
  BY <1>1, PreferenceAssumption DEF PreferencesInit, PreferenceTypes
<1>3. LocalAgrees
  BY DEF PreferencesInit, LocalAgrees, Keys
<1>4. PagesSound
  BY DEF PreferencesInit, PagesSound, PageSound, ClosedPage
<1> QED
  BY <1>2, <1>3, <1>4 DEF PreferenceInv

LEMMA PreferenceGoal == PreferenceInv => PagesAgree
<1> SUFFICES ASSUME PreferenceInv PROVE PagesAgree
  OBVIOUS
<1> DEFINE quiet == /\ \A w \in Windows : storageEvents[w] = 0
                    /\ \A p \in PreferencePages : ~shows[p].effect /\ shows[p].text = shows[p].rendered
<1>1. ASSUME quiet, NEW p \in PreferencePages, shows[p].open
      PROVE  shows[p].text = stored[p.window][p.key]
  <2>1. storageEvents[p.window] = 0 /\ ~shows[p].effect /\ shows[p].text = shows[p].rendered
    BY <1>1, PreferenceAssumption
  <2>2. PageSound(shows[p], p)
    BY DEF PreferenceInv, PagesSound
  <2> QED
    BY <1>1, <2>1, <2>2 DEF PageSound
<1>2. quiet => \A p \in PreferencePages : shows[p].open => shows[p].text = stored[p.window][p.key]
  BY <1>1
<1> QED
  BY <1>2 DEF PreferenceInv, LocalAgrees, PagesAgree

(* What the listeners of a window leave.                                   *)
LEMMA NotifiedPage ==
  ASSUME NEW pages0 \in [PreferencePages -> PageRow], NEW values \in [Windows -> [Keys -> Texts]],
         NEW w \in Windows, NEW keys, NEW p \in PreferencePages
  PROVE  /\ Notified(pages0, values, w, keys)[p] \in PageRow
         /\ ~(p.window = w /\ pages0[p].open /\ Concerns(p, keys)) =>
               Notified(pages0, values, w, keys)[p] = pages0[p]
         /\ p.window = w /\ pages0[p].open /\ Concerns(p, keys) =>
               /\ Notified(pages0, values, w, keys)[p].effect = pages0[p].effect
               /\ Notified(pages0, values, w, keys)[p].text = values[w][p.key]
               /\ ~WritesBack(p) => Notified(pages0, values, w, keys)[p].rendered = values[w][p.key]
<1> DEFINE page == Notified(pages0, values, w, keys)[p]
<1>1. values[w][p.key] \in Texts /\ pages0[p] \in PageRow
  BY PreferenceAssumption
<1>2. CASE ~(p.window = w /\ pages0[p].open /\ Concerns(p, keys))
  <2>1. page = pages0[p]
    BY <1>2 DEF Notified
  <2> QED
    BY <1>1, <1>2, <2>1
<1>3. CASE p.window = w /\ pages0[p].open /\ Concerns(p, keys)
  <2>1. CASE WritesBack(p)
    <3>1. page = [pages0[p] EXCEPT !.text = values[w][p.key], !.rendered = @]
      BY <1>3, <2>1 DEF Notified
    <3>2. page \in PageRow /\ page.effect = pages0[p].effect /\ page.text = values[w][p.key]
      BY <1>1, <3>1 DEF PageRow
    <3> QED
      BY <1>3, <2>1, <3>2
  <2>2. CASE ~WritesBack(p)
    <3>1. page = [pages0[p] EXCEPT !.text = values[w][p.key], !.rendered = values[w][p.key]]
      BY <1>3, <2>2 DEF Notified
    <3>2. /\ page \in PageRow /\ page.effect = pages0[p].effect /\ page.text = values[w][p.key]
          /\ page.rendered = values[w][p.key]
      BY <1>1, <3>1 DEF PageRow
    <3> QED
      BY <1>3, <2>2, <3>2
  <2> QED
    BY <2>1, <2>2
<1> QED
  BY <1>2, <1>3

LEMMA NotifiedType ==
  ASSUME NEW pages0 \in [PreferencePages -> PageRow], NEW values \in [Windows -> [Keys -> Texts]],
         NEW w \in Windows, NEW keys
  PROVE  Notified(pages0, values, w, keys) \in [PreferencePages -> PageRow]
<1>1. \A p \in PreferencePages : Notified(pages0, values, w, keys)[p] \in PageRow
  BY NotifiedPage
<1> QED
  BY <1>1 DEF Notified

(* The setters, called with pages that are sound but for the keys they     *)
(* set, in the window they are called in: such a page shows the value that *)
(* is set, or has a render or an effect due.                               *)
LEMMA SettersKeep ==
  ASSUME PreferenceInv, NEW w \in Windows, NEW pages0 \in [PreferencePages -> PageRow], NEW values,
         DOMAIN values \subseteq Keys, \A k \in DOMAIN values : values[k] \in Texts,
         SetPreferences(pages0, w, values),
         \A p \in PreferencePages :
            \/ pages0[p] = shows[p]
            \/ /\ p.window = w /\ p.key \in DOMAIN values
               /\ ~WritesBack(p) => pages0[p].text = pages0[p].rendered /\ ~pages0[p].effect
               /\ pages0[p].open =>
                     pages0[p].text # pages0[p].rendered \/ pages0[p].text = values[p.key]
  PROVE  PreferenceInv'
<1> DEFINE changed == {k \in DOMAIN values : values[k] # stored[w][k]}
<1> DEFINE Keeps(v) == IF v = w THEN changed ELSE changed \intersect Local
<1>1. /\ stored' = [v \in Windows |-> [k \in Keys |-> IF k \in Keeps(v) THEN values[k] ELSE stored[v][k]]]
      /\ shows' = IF changed = {} THEN pages0 ELSE Notified(pages0, stored', w, changed)
      /\ storageEvents' = [v \in Windows |->
            storageEvents[v] + IF v # w /\ changed \intersect Local # {} THEN 1 ELSE 0]
      /\ UNCHANGED settingsDraft
  BY DEF SetPreferences
<1>2. stored' \in [Windows -> [Keys -> Texts]]
  BY <1>1 DEF PreferenceInv, PreferenceTypes
<1>3. storageEvents' \in [Windows -> Nat]
  BY <1>1 DEF PreferenceInv, PreferenceTypes
<1>4. \A v \in Windows, k \in Keys : stored'[v][k] = IF k \in Keeps(v) THEN values[k] ELSE stored[v][k]
  BY <1>1
<1>5. shows' \in [PreferencePages -> PageRow]
  BY <1>1, <1>2, NotifiedType
<1>6. PreferenceTypes'
  BY <1>1, <1>2, <1>3, <1>5 DEF PreferenceInv, PreferenceTypes
<1>7. LocalAgrees'
  BY <1>4 DEF PreferenceInv, LocalAgrees, Keys
<1>8. ASSUME NEW p \in PreferencePages PROVE PageSound(shows[p], p)'
  <2>1. p.window \in Windows /\ p.key \in Keys
    BY PreferenceAssumption
  <2>2. PageSound(shows[p], p)
    BY DEF PreferenceInv, PagesSound
  <2>3. storageEvents[p.window] \in Nat /\ storageEvents'[p.window] \in Nat
    BY <1>3, <2>1 DEF PreferenceInv, PreferenceTypes
  <2>4. CASE p.window = w /\ pages0[p].open /\ p.key \in changed
    <3>1. changed # {} /\ Concerns(p, changed)
      BY <2>4 DEF Concerns
    <3>2. /\ shows'[p].effect = pages0[p].effect /\ shows'[p].text = stored'[w][p.key]
          /\ ~WritesBack(p) => shows'[p].rendered = stored'[w][p.key]
      <4>1. shows' = Notified(pages0, stored', w, changed)
        BY <1>1, <3>1
      <4> HIDE DEF changed
      <4> QED
        BY <1>2, <2>4, <3>1, <4>1, NotifiedPage
    <3>3. ~WritesBack(p) => ~pages0[p].effect
      BY <2>2 DEF PageSound
    <3> QED
      BY <2>4, <3>2, <3>3 DEF PageSound
  <2>5. CASE ~(p.window = w /\ pages0[p].open /\ p.key \in changed)
    <3>1. shows'[p] = pages0[p]
      <4>1. CASE changed = {}
        BY <1>1, <4>1
      <4>2. CASE changed # {}
        <5>1. ~(p.window = w /\ pages0[p].open /\ Concerns(p, changed))
          BY <2>5, <4>2 DEF Concerns
        <5>2. shows' = Notified(pages0, stored', w, changed)
          BY <1>1, <4>2
        <5> QED
          BY <1>2, <5>1, <5>2, NotifiedPage
      <4> QED
        BY <4>1, <4>2
    <3>2. ~WritesBack(p) => shows'[p].text = shows'[p].rendered /\ ~shows'[p].effect
      BY <2>2, <3>1 DEF PageSound
    <3>3. CASE p.window = w /\ pages0[p].open
      <4>1. p.key \notin changed /\ stored'[w][p.key] = stored[w][p.key] /\ storageEvents'[w] = storageEvents[w]
        BY <1>1, <1>4, <2>1, <2>3, <2>5, <3>3
      <4>2. p.key \in DOMAIN values => values[p.key] = stored[w][p.key]
        BY <4>1
      <4> QED
        BY <2>2, <3>1, <3>2, <3>3, <4>1, <4>2 DEF PageSound
    <3>4. CASE p.window # w
      <4>1. pages0[p] = shows[p]
        BY <3>4
      <4>2. stored'[p.window][p.key] = stored[p.window][p.key] \/ storageEvents'[p.window] > 0
        BY <1>1, <1>4, <2>1, <2>3, <3>4
      <4>3. storageEvents[p.window] > 0 => storageEvents'[p.window] > 0
        BY <1>1, <2>1, <2>3
      <4> QED
        BY <2>2, <3>1, <3>2, <4>1, <4>2, <4>3 DEF PageSound
    <3>5. CASE ~pages0[p].open
      BY <3>1, <3>2, <3>5 DEF PageSound
    <3> QED
      BY <3>3, <3>4, <3>5
  <2> QED
    BY <2>4, <2>5
<1>9. PagesSound'
  BY <1>8 DEF PagesSound, PageSound
<1> QED
  BY <1>6, <1>7, <1>9 DEF PreferenceInv

LEMMA OpenPageKeeps ==
  ASSUME PreferenceInv, NEW p \in PreferencePages, OpenPreferencePage(p) \/ ClosePreferencePage(p)
  PROVE  PreferenceInv'
<1>1. p.window \in Windows /\ p.key \in Keys /\ stored[p.window][p.key] \in Texts
  BY PreferenceAssumption DEF PreferenceInv, PreferenceTypes
<1>2. UNCHANGED <<stored, settingsDraft, storageEvents>>
  BY DEF OpenPreferencePage, ClosePreferencePage
<1>3. PICK page \in PageRow : shows' = [shows EXCEPT ![p] = page] /\ PageSound(page, p)
  <2>1. CASE OpenPreferencePage(p)
    <3> DEFINE text == stored[p.window][p.key]
    <3> DEFINE page == [open |-> TRUE, text |-> text, rendered |-> text, effect |-> WritesBack(p)]
    <3>1. page \in PageRow /\ PageSound(page, p)
      BY <1>1 DEF PageRow, PageSound, WritesBack
    <3>2. shows' = [shows EXCEPT ![p] = page]
      BY <2>1 DEF OpenPreferencePage
    <3> QED
      BY <3>1, <3>2
  <2>2. CASE ClosePreferencePage(p)
    <3>1. ClosedPage \in PageRow /\ PageSound(ClosedPage, p)
      BY PreferenceAssumption DEF PageRow, PageSound, ClosedPage
    <3>2. shows' = [shows EXCEPT ![p] = ClosedPage]
      BY <2>2 DEF ClosePreferencePage
    <3> QED
      BY <3>1, <3>2
  <2> QED
    BY <2>1, <2>2
<1>4. PreferenceTypes' /\ LocalAgrees'
  BY <1>2, <1>3 DEF PreferenceInv, PreferenceTypes, LocalAgrees
<1>5. \A q \in PreferencePages : shows'[q] = IF q = p THEN page ELSE shows[q]
  BY <1>3 DEF PreferenceInv, PreferenceTypes
<1>6. PagesSound'
  BY <1>2, <1>3, <1>5 DEF PreferenceInv, PagesSound, PageSound
<1> QED
  BY <1>4, <1>6 DEF PreferenceInv

(* The state of a page changes and nothing is written yet.                 *)
LEMMA PageChanges ==
  ASSUME PreferenceInv, NEW p \in PreferencePages, NEW page \in PageRow, WritesBack(p),
         page.effect \/ page.text # page.rendered, shows' = [shows EXCEPT ![p] = page],
         UNCHANGED <<stored, settingsDraft, storageEvents>>
  PROVE  PreferenceInv'
<1>1. PreferenceTypes' /\ LocalAgrees'
  BY DEF PreferenceInv, PreferenceTypes, LocalAgrees
<1>2. \A q \in PreferencePages : shows'[q] = IF q = p THEN page ELSE shows[q]
  BY DEF PreferenceInv, PreferenceTypes
<1>3. PagesSound'
  BY <1>2 DEF PreferenceInv, PagesSound, PageSound
<1> QED
  BY <1>1, <1>3 DEF PreferenceInv

LEMMA TypeIntoKeeps ==
  ASSUME PreferenceInv, NEW p \in PreferencePages, NEW text \in Texts, TypeInto(p, text)
  PROVE  PreferenceInv'
<1>1. shows[p] \in PageRow /\ p.window \in Windows /\ p.key \in Keys
  BY PreferenceAssumption DEF PreferenceInv, PreferenceTypes
<1>2. CASE WritesBack(p)
  <2> DEFINE page == [shows[p] EXCEPT !.text = text]
  <2>1. page \in PageRow /\ page.text # page.rendered
    BY <1>1 DEF PageRow, TypeInto
  <2>2. shows' = [shows EXCEPT ![p] = page] /\ UNCHANGED <<stored, settingsDraft, storageEvents>>
    BY <1>2 DEF TypeInto, PreferenceInv, PreferenceTypes
  <2> QED
    BY <1>2, <2>1, <2>2, PageChanges
<1>3. CASE ~WritesBack(p)
  <2> DEFINE page == [shows[p] EXCEPT !.text = text, !.rendered = text]
  <2> DEFINE pages0 == [shows EXCEPT ![p] = page]
  <2> DEFINE values == [k \in {p.key} |-> text]
  <2>1. /\ page \in PageRow /\ page.text = text /\ page.rendered = text
        /\ page.effect = shows[p].effect
    BY <1>1 DEF PageRow
  <2>2. SetPreferences(pages0, p.window, values)
    <3>1. [shows EXCEPT ![p].text = text, ![p].rendered = text] = pages0
      BY <1>1 DEF PreferenceInv, PreferenceTypes, PageRow
    <3> QED
      BY <1>3, <3>1 DEF TypeInto
  <2>3. ~shows[p].effect
    BY <1>3 DEF PreferenceInv, PagesSound, PageSound
  <2> HIDE DEF page
  <2>4. pages0 \in [PreferencePages -> PageRow] /\ \A q \in PreferencePages : pages0[q] = IF q = p THEN page ELSE shows[q]
    BY <2>1 DEF PreferenceInv, PreferenceTypes
  <2>5. DOMAIN values = {p.key} /\ values[p.key] = text
    OBVIOUS
  <2> HIDE DEF pages0, values
  <2> QED
    BY <1>1, <1>3, <2>1, <2>2, <2>3, <2>4, <2>5, SettersKeep
<1> QED
  BY <1>2, <1>3

LEMMA RenderKeeps == ASSUME PreferenceInv, NEW p \in PreferencePages, RenderPage(p) PROVE PreferenceInv'
<1>1. shows[p] \in PageRow /\ WritesBack(p)
  BY DEF PreferenceInv, PreferenceTypes, RenderPage, PagesSound, PageSound
<1> DEFINE page == [shows[p] EXCEPT !.rendered = shows[p].text, !.effect = TRUE]
<1>2. page \in PageRow /\ page.effect
  BY <1>1 DEF PageRow
<1>3. shows' = [shows EXCEPT ![p] = page] /\ UNCHANGED <<stored, settingsDraft, storageEvents>>
  BY <1>1 DEF RenderPage, PreferenceInv, PreferenceTypes, PageRow
<1> QED
  BY <1>1, <1>2, <1>3, PageChanges

LEMMA WriteBackKeeps == ASSUME PreferenceInv, NEW p \in PreferencePages, WriteBack(p) PROVE PreferenceInv'
<1> DEFINE page == [shows[p] EXCEPT !.effect = FALSE]
<1> DEFINE pages0 == [shows EXCEPT ![p] = page]
<1> DEFINE values == [k \in {p.key} |-> shows[p].rendered]
<1>1. shows[p] \in PageRow /\ p.window \in Windows /\ p.key \in Keys /\ shows[p].effect
  BY PreferenceAssumption DEF PreferenceInv, PreferenceTypes, WriteBack
<1>2. WritesBack(p)
  BY <1>1 DEF PreferenceInv, PagesSound, PageSound
<1>3. page \in PageRow /\ page.text = shows[p].text /\ page.rendered = shows[p].rendered
  BY <1>1 DEF PageRow
<1>4. SetPreferences(pages0, p.window, values)
  <2>1. [shows EXCEPT ![p].effect = FALSE] = pages0
    BY <1>1 DEF PreferenceInv, PreferenceTypes, PageRow
  <2> QED
    BY <2>1 DEF WriteBack
<1> HIDE DEF page
<1>5. pages0 \in [PreferencePages -> PageRow] /\ \A q \in PreferencePages : pages0[q] = IF q = p THEN page ELSE shows[q]
  BY <1>3 DEF PreferenceInv, PreferenceTypes
<1>6. DOMAIN values = {p.key} /\ values[p.key] = shows[p].rendered /\ shows[p].rendered \in Texts
  BY <1>1 DEF PageRow
<1> HIDE DEF pages0, values
<1> QED
  BY <1>1, <1>2, <1>3, <1>4, <1>5, <1>6, SettersKeep

LEMMA SettingsDialogKeeps ==
  ASSUME PreferenceInv, NEW w \in Windows,
         OpenSettingsDialog(w) \/ \E k \in Keys, text \in Texts : TypeSetting(w, k, text)
  PROVE  PreferenceInv'
<1>1. settingsDraft' \in [Windows -> [Keys -> Texts]]
  <2>1. stored \in [Windows -> [Keys -> Texts]] /\ settingsDraft \in [Windows -> [Keys -> Texts]]
    BY DEF PreferenceInv, PreferenceTypes
  <2>2. CASE OpenSettingsDialog(w)
    BY <2>1, <2>2 DEF OpenSettingsDialog
  <2>3. ASSUME NEW k \in Keys, NEW text \in Texts, TypeSetting(w, k, text)
        PROVE  settingsDraft' \in [Windows -> [Keys -> Texts]]
    BY <2>1, <2>3 DEF TypeSetting
  <2> QED
    BY <2>2, <2>3
<1>2. UNCHANGED <<stored, shows, storageEvents>>
  BY DEF OpenSettingsDialog, TypeSetting
<1> QED
  BY <1>1, <1>2 DEF PreferenceInv, PreferenceTypes, LocalAgrees, PagesSound, PageSound

LEMMA SaveKeeps == ASSUME PreferenceInv, NEW w \in Windows, SaveSettings(w) PROVE PreferenceInv'
<1>1. DOMAIN settingsDraft[w] = Keys /\ \A k \in Keys : settingsDraft[w][k] \in Texts
  BY DEF PreferenceInv, PreferenceTypes
<1>2. shows \in [PreferencePages -> PageRow] /\ SetPreferences(shows, w, settingsDraft[w])
  BY DEF PreferenceInv, PreferenceTypes, SaveSettings
<1> QED
  BY <1>1, <1>2, SettersKeep

LEMMA EventKeeps == ASSUME PreferenceInv, NEW w \in Windows, StorageEvent(w) PROVE PreferenceInv'
<1>1. /\ storageEvents' = [storageEvents EXCEPT ![w] = @ - 1] /\ storageEvents[w] > 0
      /\ UNCHANGED <<stored, settingsDraft>>
  BY DEF StorageEvent
<1> DEFINE keys == {}
<1>k. shows' = Notified(shows, stored, w, keys) /\ \A p \in PreferencePages : Concerns(p, keys)
  BY DEF StorageEvent, Concerns
<1> HIDE DEF keys
<1>2. /\ stored \in [Windows -> [Keys -> Texts]] /\ shows \in [PreferencePages -> PageRow]
      /\ storageEvents \in [Windows -> Nat]
  BY DEF PreferenceInv, PreferenceTypes
<1>3. storageEvents' \in [Windows -> Nat] /\ \A v \in Windows \ {w} : storageEvents'[v] = storageEvents[v]
  BY <1>1, <1>2
<1>4. PreferenceTypes' /\ LocalAgrees'
  BY <1>1, <1>2, <1>3, <1>k, NotifiedType DEF PreferenceInv, PreferenceTypes, LocalAgrees
<1>5. ASSUME NEW p \in PreferencePages PROVE PageSound(shows[p], p)'
  <2>1. p.window \in Windows /\ PageSound(shows[p], p)
    BY PreferenceAssumption DEF PreferenceInv, PagesSound
  <2>2. CASE p.window = w /\ shows[p].open
    <3>1. /\ shows'[p].effect = shows[p].effect /\ shows'[p].text = stored[w][p.key]
          /\ ~WritesBack(p) => shows'[p].rendered = stored[w][p.key]
      BY <1>2, <1>k, <2>2, NotifiedPage
    <3> QED
      BY <1>1, <2>1, <2>2, <3>1 DEF PageSound
  <2>3. CASE ~(p.window = w /\ shows[p].open)
    <3>1. shows'[p] = shows[p]
      BY <1>2, <1>k, <2>3, NotifiedPage
    <3> QED
      BY <1>1, <1>3, <2>1, <2>3, <3>1 DEF PageSound
  <2> QED
    BY <2>2, <2>3
<1>6. PagesSound'
  BY <1>5 DEF PagesSound, PageSound
<1> QED
  BY <1>4, <1>6 DEF PreferenceInv

LEMMA PreferencesStep == ASSUME PreferenceInv, PreferenceNext PROVE PreferenceInv'
<1>1. CASE PreferencesUser
  BY <1>1, OpenPageKeeps, TypeIntoKeeps, SettingsDialogKeeps, SaveKeeps DEF PreferencesUser
<1>2. CASE PreferencesAsync
  BY <1>2, RenderKeeps, WriteBackKeeps, EventKeeps DEF PreferencesAsync
<1> QED
  BY <1>1, <1>2 DEF PreferenceNext

-------------------------------------------------------------------------------
(* The resource tree.  The versions of the store name its states: what was *)
(* read is what was stored under that version.                             *)

IsCall(x) ==
    /\ x \in [parts : {x.parts}, work : {x.work}, tolerant : {x.tolerant}, held : {x.held},
              wait : {x.wait}, mixed : {x.mixed}, changed : BOOLEAN]
    /\ x.wait # 0 => ~x.changed
CallsTyped == calls = [c \in Slots |-> calls[c]] /\ \A c \in Slots : IsCall(calls[c])

(* A state the store has been in.                                          *)
Past(t) == t.version \in 0 .. store.version /\ (t.version = store.version => t = store)

ReadsTyped ==
    /\ refreshSequence \in Nat \ {0}
    /\ \A r \in refreshes :
          r = [seq |-> r.seq, read |-> r.read] /\ r.seq \in 1 .. refreshSequence /\ Past(r.read)
    /\ \A r, q \in refreshes : r.seq = q.seq => r = q

(* In the web, the read that will be shown is not older than what is.      *)
ReadsInOrder ==
    front = "web" =>
        \A r \in refreshes : r.seq = refreshSequence /\ r.read # NoTree => tree.version <= r.read.version

(* The tree is the store's, or something says that it is not: a handler    *)
(* has changed the store and will refresh, a refresh that will be shown    *)
(* has not read or has read what is stored now, an error is shown, or one  *)
(* of the exceptions has happened.                                         *)
Owed ==
    \/ tree.version = store.version \/ unseen \/ treeError
    \/ \E c \in Slots : calls[c].changed
    \/ \E r \in refreshes : Applies(r) /\ (r.read = NoTree \/ r.read = store)

TreeInv ==
    /\ store.version \in Nat \ {0} /\ Past(tree) /\ unseen \in BOOLEAN /\ treeError \in BOOLEAN
    /\ CallsTyped /\ ReadsTyped /\ ReadsInOrder /\ Owed

(* The variables TreeInv is about.                                         *)
treeState == <<front, store, tree, treeError, refreshSequence, refreshes, calls, unseen>>

LEMMA TreeGoal == TreeInv => TreeIsStored
  BY DEF TreeInv, Owed, TreeIsStored, Quiet, Idle, Past

LEMMA IdleCall == IsCall(Idle) /\ ~Idle.changed /\ Idle.wait = 0
  BY DEF IsCall, Idle

LEMMA TreeStart == ASSUME NEW frontEnd, NEW loaded \in BOOLEAN, ExplorerInit(frontEnd, loaded) PROVE TreeInv
<1>1. store.version = 1 /\ NoTree.version = 0 /\ (tree = store \/ tree = NoTree)
  BY DEF ExplorerInit, InitialStore, NoTree, EmptyTree
<1>2. CallsTyped
  BY IdleCall DEF ExplorerInit, CallsTyped
<1>3. refreshes = (IF loaded THEN {} ELSE {[seq |-> 1, read |-> NoTree]}) /\ refreshSequence = 1
  BY DEF ExplorerInit
<1>4. ReadsTyped /\ ReadsInOrder
  BY <1>1, <1>3 DEF ReadsTyped, ReadsInOrder, Past
<1>5. Owed
  <2>1. CASE loaded
    BY <2>1 DEF Owed, ExplorerInit
  <2>2. CASE ~loaded
    <3> DEFINE r == [seq |-> 1, read |-> NoTree]
    <3>1. r \in refreshes /\ r.read = NoTree /\ r.seq = refreshSequence
      BY <1>3, <2>2
    <3> QED
      BY <3>1 DEF Owed, Applies
  <2> QED
    BY <2>1, <2>2
<1>6. Past(tree)
  BY <1>1 DEF Past
<1>7. unseen \in BOOLEAN /\ treeError \in BOOLEAN
  BY DEF ExplorerInit
<1>8. store.version \in Nat \ {0}
  BY <1>1
<1> QED
  BY <1>2, <1>4, <1>5, <1>6, <1>7, <1>8 DEF TreeInv

LEMMA TreeStays == ASSUME TreeInv, UNCHANGED treeState PROVE TreeInv'
<1>1. CallsTyped' /\ ReadsTyped' /\ ReadsInOrder'
  BY DEF treeState, TreeInv, CallsTyped, ReadsTyped, ReadsInOrder, Past
<1>2. Owed'
  BY DEF treeState, TreeInv, Owed, Applies
<1> QED
  BY <1>1, <1>2 DEF treeState, TreeInv, Past

(* A command leaves the store or makes its next version.                   *)
LEMMA AfterVersion ==
  ASSUME NEW s, NEW cmd, NEW held
  PROVE  /\ After(s, cmd, held) = s \/ After(s, cmd, held).version = s.version + 1
         /\ cmd.kind = "load" => After(s, cmd, held) = s
<1>1. \A projects, colls, reqs : Changed(s, projects, colls, reqs).version = s.version + 1
  BY DEF Changed
<1>2. \A projects, colls : Keep(s, projects, colls).version = s.version + 1
  BY DEF Keep, Changed
<1>3. \A id, row : Saved(s, id, row).version = s.version + 1
  BY <1>1 DEF Saved
<1>4. CASE cmd.kind = "createProject"
  BY <1>1, <1>4 DEF After
<1>5. CASE cmd.kind = "deleteProject"
  BY <1>2, <1>5 DEF After
<1>6. CASE cmd.kind = "createCollection"
  BY <1>1, <1>6 DEF After
<1>7. CASE cmd.kind = "updateCollection"
  BY <1>1, <1>7 DEF After
<1>8. CASE cmd.kind = "deleteCollection"
  BY <1>2, <1>8 DEF After
<1>9. CASE cmd.kind = "moveRequest"
  BY <1>3, <1>9 DEF After
<1>10. CASE cmd.kind = "deleteRequest"
  BY <1>1, <1>10 DEF After
<1>11. CASE cmd.kind = "saveEnvelope"
  BY <1>3, <1>11 DEF After
<1>12. CASE cmd.kind = "saveLoaded"
  BY <1>3, <1>12 DEF After
<1>13. CASE cmd.kind = "touch"
  BY <1>1, <1>13 DEF After
<1>14. CASE cmd.kind \notin {"createProject", "deleteProject", "createCollection", "updateCollection",
                            "deleteCollection", "moveRequest", "deleteRequest", "saveEnvelope",
                            "saveLoaded", "touch"}
  BY <1>14 DEF After
<1> QED
  BY <1>4, <1>5, <1>6, <1>7, <1>8, <1>9, <1>10, <1>11, <1>12, <1>13, <1>14

-------------------------------------------------------------------------------
(* A handler starts: only a free slot changes.                             *)
LEMMA HandlerStarts ==
  ASSUME TreeInv, NEW work, NEW parts, NEW tolerant, NEW made, Start(work, parts, tolerant, made)
  PROVE  TreeInv'
<1> DEFINE call == [Idle EXCEPT !.parts = parts, !.work = work, !.tolerant = tolerant,
                                !.mixed = \/ tree.version # store.version
                                          \/ \E c \in Slots : calls[c] # Idle]
<1>1. /\ calls' = [calls EXCEPT ![FreeSlot] = call] /\ \E c \in Slots : calls[c] = Idle
      /\ UNCHANGED <<front, store, tree, treeError, refreshSequence, refreshes, unseen>>
  BY DEF Start
<1>2. FreeSlot \in Slots /\ calls[FreeSlot] = Idle
  BY <1>1 DEF FreeSlot
<1>3. IsCall(call) /\ ~call.changed
  BY DEF IsCall, Idle
<1> HIDE DEF call
<1>4. CallsTyped' /\ \A c \in Slots : calls'[c] = IF c = FreeSlot THEN call ELSE calls[c]
  BY <1>1, <1>2, <1>3 DEF TreeInv, CallsTyped, IsCall
<1>5. ReadsTyped' /\ ReadsInOrder'
  BY <1>1 DEF TreeInv, ReadsTyped, ReadsInOrder, Past
<1>6. \A c \in Slots : calls[c].changed => calls'[c].changed
  BY <1>2, <1>4, IdleCall
<1>7. Owed'
  BY <1>1, <1>6 DEF TreeInv, Owed, Applies
<1> QED
  BY <1>1, <1>4, <1>5, <1>7 DEF TreeInv, Past

(* A refresh starts, for a handler or because the user asked for it.       *)
LEMMA RefreshingKeeps ==
  ASSUME TreeInv, Refreshing, CallsTyped', UNCHANGED <<front, store, tree, unseen>>
  PROVE  TreeInv'
<1> DEFINE new == [seq |-> refreshSequence + 1, read |-> NoTree]
<1>1. /\ refreshSequence' = refreshSequence + 1 /\ refreshes' = refreshes \union {new}
      /\ treeError' = FALSE
  BY DEF Refreshing
<1>2. new.seq = refreshSequence + 1 /\ new.read = NoTree /\ new = [seq |-> new.seq, read |-> new.read]
  OBVIOUS
<1>3. NoTree.version = 0
  BY DEF NoTree, EmptyTree
<1> HIDE DEF new
<1>4. ReadsTyped'
  BY <1>1, <1>2, <1>3 DEF TreeInv, ReadsTyped, Past
<1>5. ReadsInOrder'
  BY <1>1, <1>2 DEF TreeInv, ReadsTyped, ReadsInOrder
<1>6. Owed'
  BY <1>1, <1>2 DEF Owed, Applies
<1> QED
  BY <1>1, <1>4, <1>5, <1>6 DEF TreeInv, Past

LEMMA RetryKeeps == ASSUME TreeInv, Retry PROVE TreeInv'
<1>1. CallsTyped'
  BY DEF Retry, TreeInv, CallsTyped
<1> QED
  BY <1>1, RefreshingKeeps DEF Retry

LEMMA RefreshStartsKeeps == ASSUME TreeInv, RefreshStarts PROVE TreeInv'
<1>1. PICK c \in Slots :
        /\ Refreshing /\ calls' = [calls EXCEPT ![c].wait = refreshSequence + 1, ![c].changed = FALSE]
        /\ UNCHANGED <<front, store, tree, unseen>>
  BY DEF RefreshStarts
<1> DEFINE call == [calls[c] EXCEPT !.wait = refreshSequence + 1, !.changed = FALSE]
<1>2. IsCall(call)
  BY DEF TreeInv, CallsTyped, IsCall
<1>3. calls' = [calls EXCEPT ![c] = call]
  BY <1>1 DEF TreeInv, CallsTyped
<1> HIDE DEF call
<1>4. CallsTyped'
  BY <1>2, <1>3 DEF TreeInv, CallsTyped, IsCall
<1> QED
  BY <1>1, <1>4, RefreshingKeeps

LEMMA RefreshReadKeeps == ASSUME TreeInv, RefreshRead PROVE TreeInv'
<1>1. PICK r \in refreshes :
        /\ r.read = NoTree /\ refreshes' = (refreshes \ {r}) \union {[r EXCEPT !.read = store]}
        /\ UNCHANGED <<front, store, tree, treeError, refreshSequence, calls, unseen>>
  BY DEF RefreshRead
<1> DEFINE new == [r EXCEPT !.read = store]
<1>2. r = [seq |-> r.seq, read |-> r.read]
  BY DEF TreeInv, ReadsTyped
<1>3. new.seq = r.seq /\ new.read = store /\ new = [seq |-> new.seq, read |-> new.read]
  BY <1>2
<1> HIDE DEF new
<1>4. CallsTyped'
  BY <1>1 DEF TreeInv, CallsTyped
<1>5. ReadsTyped'
  BY <1>1, <1>3 DEF TreeInv, ReadsTyped, Past, new
<1>6. ReadsInOrder'
  BY <1>1, <1>3 DEF TreeInv, ReadsInOrder, Past, new
<1>7. Owed'
  BY <1>1, <1>3 DEF TreeInv, Owed, Applies, new
<1> QED
  BY <1>1, <1>4, <1>5, <1>6, <1>7 DEF TreeInv, Past

(* A handler that goes on after a refresh has nothing to show for.         *)
LEMMA ResumedKeeps ==
  ASSUME NEW call, IsCall(call), NEW r, r.seq # 0, NEW ok
  PROVE  IsCall(Resumed(call, r, ok)) /\ (call.changed => Resumed(call, r, ok).changed)
<1>1. CASE call.wait # r.seq
  BY <1>1 DEF Resumed
<1>2. CASE call.wait = r.seq
  <2>1. ~call.changed
    BY <1>2 DEF IsCall
  <2>2. IsCall([call EXCEPT !.parts = Tail(@), !.wait = 0])
    <3>1. ASSUME NEW parts PROVE IsCall([call EXCEPT !.parts = parts, !.wait = 0])
      BY <2>1 DEF IsCall
    <3> QED
      BY <3>1
  <2> QED
    BY <1>2, <2>1, <2>2, IdleCall DEF Resumed
<1> QED
  BY <1>1, <1>2

LEMMA AllResumed ==
  ASSUME TreeInv, NEW r \in refreshes, NEW ok, calls' = [c \in Slots |-> Resumed(calls[c], r, ok)]
  PROVE  CallsTyped' /\ \A c \in Slots : calls[c].changed => calls'[c].changed
<1>1. r.seq # 0
  BY DEF TreeInv, ReadsTyped
<1>2. \A c \in Slots : calls'[c] = Resumed(calls[c], r, ok) /\ IsCall(calls[c])
  BY DEF TreeInv, CallsTyped
<1>3. \A c \in Slots : IsCall(calls'[c]) /\ (calls[c].changed => calls'[c].changed)
  BY <1>1, <1>2, ResumedKeeps
<1> QED
  BY <1>3 DEF CallsTyped, IsCall

LEMMA RefreshDoneKeeps == ASSUME TreeInv, RefreshDone PROVE TreeInv'
<1>1. PICK r \in refreshes :
        /\ r.read # NoTree /\ refreshes' = refreshes \ {r}
        /\ tree' = IF Applies(r) THEN r.read ELSE tree
        /\ calls' = [c \in Slots |-> Resumed(calls[c], r, TRUE)]
        /\ unseen' = (tree'.version # store.version /\ (unseen \/ tree'.version < tree.version))
        /\ UNCHANGED <<front, store, treeError, refreshSequence>>
  BY DEF RefreshDone
<1>2. CallsTyped' /\ \A c \in Slots : calls[c].changed => calls'[c].changed
  BY <1>1, AllResumed
<1>3. Past(tree)'
  BY <1>1 DEF TreeInv, ReadsTyped, Past
<1>4. ReadsTyped'
  BY <1>1 DEF TreeInv, ReadsTyped, Past
<1>5. ReadsInOrder'
  <2> SUFFICES ASSUME front = "web", NEW q \in refreshes \ {r}, q.seq = refreshSequence, q.read # NoTree
               PROVE  tree'.version <= q.read.version
    BY <1>1 DEF ReadsInOrder
  <2>1. r.seq # refreshSequence
    BY DEF TreeInv, ReadsTyped
  <2>2. tree' = tree
    BY <1>1, <2>1 DEF Applies
  <2> QED
    BY <2>2 DEF TreeInv, ReadsInOrder
<1>6. tree'.version \in Nat /\ tree.version \in Nat /\ store.version \in Nat
  BY <1>1, <1>3 DEF TreeInv, Past
<1>7. unseen' = (tree'.version # store.version /\ (unseen \/ tree'.version < tree.version))
  BY <1>1
<1>8. unseen' \in BOOLEAN
  BY <1>7 DEF TreeInv
<1>9. Owed'
  <2>1. CASE tree'.version = store.version
    BY <1>1, <2>1 DEF Owed
  <2>2. CASE tree'.version # store.version
    <3>1. CASE tree.version = store.version
      <4>1. tree'.version < tree.version
        BY <1>1, <1>3, <1>6, <2>2, <3>1 DEF Past
      <4> QED
        BY <1>7, <2>2, <4>1 DEF Owed
    <3>2. CASE unseen \/ treeError
      BY <1>1, <1>7, <2>2, <3>2 DEF Owed
    <3>3. CASE \E c \in Slots : calls[c].changed
      BY <1>2, <3>3 DEF Owed
    <3>4. ASSUME NEW q \in refreshes, Applies(q), q.read = NoTree \/ q.read = store PROVE Owed'
      <4>1. q # r
        BY <1>1, <2>2, <3>4
      <4> QED
        BY <1>1, <3>4, <4>1 DEF Owed, Applies
    <3> QED
      BY <3>1, <3>2, <3>3, <3>4 DEF TreeInv, Owed
  <2> QED
    BY <2>1, <2>2
<1> QED
  BY <1>1, <1>2, <1>3, <1>4, <1>5, <1>8, <1>9 DEF TreeInv

LEMMA RefreshFailsKeeps == ASSUME TreeInv, RefreshFails PROVE TreeInv'
<1>1. PICK r \in refreshes :
        /\ refreshes' = refreshes \ {r} /\ treeError' = (treeError \/ r.seq = refreshSequence)
        /\ calls' = [c \in Slots |-> Resumed(calls[c], r, front = "web")]
        /\ unseen' = (unseen \/ (front = "desktop" /\ tree.version # store.version))
        /\ UNCHANGED <<front, store, tree, refreshSequence>>
  BY DEF RefreshFails
<1>2. CallsTyped' /\ \A c \in Slots : calls[c].changed => calls'[c].changed
  BY <1>1, AllResumed
<1>3. ReadsTyped' /\ ReadsInOrder'
  BY <1>1 DEF TreeInv, ReadsTyped, ReadsInOrder, Past
<1>4. Owed'
  <2>1. CASE r.seq = refreshSequence \/ front = "desktop"
    BY <1>1, <2>1 DEF Owed
  <2>2. CASE r.seq # refreshSequence /\ front # "desktop"
    BY <1>1, <1>2, <2>2 DEF TreeInv, Owed, Applies
  <2> QED
    BY <2>1, <2>2
<1> QED
  BY <1>1, <1>2, <1>3, <1>4 DEF TreeInv, Past

-------------------------------------------------------------------------------
(* A handler's command.                                                    *)

LEMMA AnsweredCall ==
  ASSUME NEW call, IsCall(call), call.wait = 0, NEW cmd
  PROVE  /\ IsCall(Answered(call, cmd))
         /\ After(store, cmd, call.held) # store => Answered(call, cmd).changed
<1> DEFINE held == IF cmd.kind = "load" THEN Loaded(store, cmd) ELSE call.held
<1> DEFINE differs == After(store, cmd, call.held) # store
<1> DEFINE next == [call EXCEPT !.parts = Onward(@), !.held = held,
                                !.changed = @ \/ differs]
<1>1. CASE cmd.kind = "load" /\ cmd.must /\ held = None
  <2>1. Answered(call, cmd) = Idle
    BY <1>1 DEF Answered
  <2>2. ~differs
    BY <1>1, AfterVersion
  <2> QED
    BY <2>1, <2>2, IdleCall
<1>2. CASE ~(cmd.kind = "load" /\ cmd.must /\ held = None)
  <2>1. Answered(call, cmd) = next
    BY <1>2 DEF Answered
  <2>2. ASSUME NEW parts, NEW h, NEW d \in BOOLEAN
        PROVE  LET x == [call EXCEPT !.parts = parts, !.held = h, !.changed = @ \/ d] IN
               IsCall(x) /\ (d => x.changed)
    BY <2>2 DEF IsCall
  <2>3. differs \in BOOLEAN
    OBVIOUS
  <2>4. IsCall(next) /\ (differs => next.changed)
    <3> HIDE DEF held, differs
    <3> QED
      BY <2>2, <2>3
  <2> QED
    BY <2>1, <2>4
<1> QED
  BY <1>1, <1>2

LEMMA RejectedCall == ASSUME NEW call, IsCall(call) PROVE IsCall(Rejected(call))
<1>1. ASSUME NEW parts PROVE IsCall([call EXCEPT !.parts = parts, !.changed = FALSE])
  BY DEF IsCall
<1> QED
  BY <1>1, IdleCall DEF Rejected

LEMMA OthersCalls ==
  ASSUME TreeInv, NEW c, NEW changes
  PROVE  /\ Others(c, changes) = [d \in Slots |-> Others(c, changes)[d]]
         /\ \A d \in Slots : IsCall(Others(c, changes)[d]) /\ Others(c, changes)[d].changed = calls[d].changed
<1>1. ASSUME NEW call, IsCall(call)
      PROVE  IsCall([call EXCEPT !.mixed = TRUE]) /\ [call EXCEPT !.mixed = TRUE].changed = call.changed
  BY <1>1 DEF IsCall
<1>2. \A d \in Slots : IsCall(calls[d])
  BY DEF TreeInv, CallsTyped
<1>3. ASSUME NEW d \in Slots
      PROVE  IsCall(Others(c, changes)[d]) /\ Others(c, changes)[d].changed = calls[d].changed
  <2>1. CASE d # c /\ changes /\ calls[d] # Idle
    <3>1. Others(c, changes)[d] = [calls[d] EXCEPT !.mixed = TRUE]
      BY <2>1 DEF Others
    <3> QED
      BY <1>1, <1>2, <3>1
  <2>2. CASE ~(d # c /\ changes /\ calls[d] # Idle)
    <3>1. Others(c, changes)[d] = calls[d]
      BY <2>2 DEF Others
    <3> QED
      BY <1>2, <3>1
  <2> QED
    BY <2>1, <2>2
<1> QED
  BY <1>3 DEF Others

(* The store stays or gets its next version; the handler's call becomes    *)
(* `call`.  If the store changed, that is noted in the call or in unseen;  *)
(* so is what the call had changed before.                                 *)
LEMMA CommandKeeps ==
  ASSUME TreeInv, NEW c \in Slots, NEW call, IsCall(call), NEW changes,
         store' = store \/ (store'.version = store.version + 1),
         calls' = [Others(c, changes) EXCEPT ![c] = call],
         UNCHANGED <<front, tree, treeError, refreshSequence, refreshes>>,
         unseen' \in BOOLEAN, unseen => unseen',
         store' # store \/ calls[c].changed => unseen' \/ call.changed
  PROVE  TreeInv'
<1> DEFINE rest == Others(c, changes)
<1>0. /\ rest = [d \in Slots |-> rest[d]]
      /\ \A d \in Slots : IsCall(rest[d]) /\ rest[d].changed = calls[d].changed
  BY OthersCalls
<1> HIDE DEF rest
<1>a. calls' = [d \in Slots |-> IF d = c THEN call ELSE rest[d]]
  BY <1>0 DEF rest
<1>b. calls' = [d \in Slots |-> calls'[d]]
  BY <1>a
<1>c. ASSUME NEW d \in Slots PROVE IsCall(calls'[d])
  BY <1>0, <1>a
<1>d. CallsTyped'
  BY <1>b, <1>c DEF CallsTyped, IsCall
<1>1. CallsTyped' /\ \A d \in Slots : d # c => calls'[d].changed = calls[d].changed
  BY <1>0, <1>a, <1>d
<1>2. calls'[c] = call
  BY <1>a
<1>3. store.version \in Nat \ {0} /\ store'.version \in Nat \ {0} /\ store.version <= store'.version
  BY DEF TreeInv
<1>4. \A t : Past(t) => /\ t.version \in 0 .. store'.version
                        /\ (t.version = store'.version => t = store')
  BY <1>3 DEF Past
<1>5. Past(tree)' /\ ReadsTyped' /\ ReadsInOrder'
  BY <1>4 DEF TreeInv, ReadsTyped, ReadsInOrder, Past
<1>6. Owed'
  <2>1. CASE store' # store \/ calls[c].changed
    BY <1>2, <2>1 DEF Owed
  <2>2. CASE store' = store /\ ~calls[c].changed
    <3>1. \A d \in Slots : calls[d].changed => calls'[d].changed
      BY <1>1, <2>2
    <3> QED
      BY <2>2, <3>1 DEF TreeInv, Owed, Applies
  <2> QED
    BY <2>1, <2>2
<1>7. treeError' \in BOOLEAN
  BY DEF TreeInv
<1> QED
  BY <1>1, <1>3, <1>5, <1>6, <1>7 DEF TreeInv

LEMMA CommandRunsKeeps == ASSUME TreeInv, CommandRuns PROVE TreeInv'
<1>1. PICK c \in Slots :
        /\ calls[c] # Idle /\ calls[c].wait = 0
        /\ LET cmd == Command(c)
               ok == Allowed(store, cmd, calls[c].held)
               next == IF ok THEN After(store, cmd, calls[c].held) ELSE store IN
           /\ store' = next
           /\ calls' = [Others(c, next # store) EXCEPT ![c] = IF ok THEN Answered(@, cmd) ELSE Rejected(@)]
           /\ unseen' = (unseen \/ (calls[c].changed /\ ~calls'[c].changed))
        /\ UNCHANGED <<front, tree, treeError, refreshSequence, refreshes>>
  BY DEF CommandRuns
<1> DEFINE cmd == Command(c)
<1> DEFINE ok == Allowed(store, cmd, calls[c].held)
<1> DEFINE next == IF ok THEN After(store, cmd, calls[c].held) ELSE store
<1> DEFINE call == IF ok THEN Answered(calls[c], cmd) ELSE Rejected(calls[c])
<1>2. IsCall(calls[c])
  BY DEF TreeInv, CallsTyped
<1>3. store' = store \/ store'.version = store.version + 1
  BY <1>1, AfterVersion
<1>4. IsCall(call) /\ (next # store => call.changed)
  BY <1>1, <1>2, AnsweredCall, RejectedCall
<1>5. Others(c, next # store)[c] = calls[c]
  BY DEF Others
<1>6. calls' = [Others(c, next # store) EXCEPT ![c] = call]
  BY <1>1, <1>5
<1>7. calls'[c] = call
  BY <1>6, OthersCalls
<1>8. store' = next /\ unseen' = (unseen \/ (calls[c].changed /\ ~call.changed))
  BY <1>1, <1>7
<1>9. UNCHANGED <<front, tree, treeError, refreshSequence, refreshes>>
  BY <1>1
<1> HIDE DEF cmd, ok, next, call
<1>10. unseen \in BOOLEAN /\ unseen' \in BOOLEAN
  BY <1>8 DEF TreeInv
<1> QED
  BY <1>3, <1>4, <1>6, <1>8, <1>9, <1>10, CommandKeeps

LEMMA CommandFailsKeeps == ASSUME TreeInv, CommandFails PROVE TreeInv'
<1>1. PICK c \in Slots, reached \in BOOLEAN :
        /\ calls[c] # Idle
        /\ LET cmd == Command(c)
               ok == reached /\ Allowed(store, cmd, calls[c].held)
               next == IF ok THEN After(store, cmd, calls[c].held) ELSE store IN
           /\ store' = next
           /\ calls' = [Others(c, next # store) EXCEPT ![c] = Rejected(@)]
           /\ unseen' = (unseen \/ calls[c].changed \/ next # store)
  BY DEF CommandFails
<1> DEFINE cmd == Command(c)
<1> DEFINE ok == reached /\ Allowed(store, cmd, calls[c].held)
<1> DEFINE next == IF ok THEN After(store, cmd, calls[c].held) ELSE store
<1> DEFINE call == Rejected(calls[c])
<1>2. IsCall(call)
  BY RejectedCall DEF TreeInv, CallsTyped
<1>3. store' = store \/ store'.version = store.version + 1
  BY <1>1, AfterVersion
<1>4. Others(c, next # store)[c] = calls[c]
  BY DEF Others
<1>5. calls' = [Others(c, next # store) EXCEPT ![c] = call]
  BY <1>1, <1>4
<1>6. store' = next /\ unseen' = (unseen \/ calls[c].changed \/ next # store)
  BY <1>1
<1>7. UNCHANGED <<front, tree, treeError, refreshSequence, refreshes>>
  BY DEF CommandFails
<1> HIDE DEF cmd, ok, next, call
<1> QED
  BY <1>2, <1>3, <1>5, <1>6, <1>7, CommandKeeps

LEMMA TreeAsyncKeeps == ASSUME TreeInv, ExplorerAsync PROVE TreeInv'
  BY RefreshReadKeeps, RefreshDoneKeeps, RefreshFailsKeeps, CommandRunsKeeps, CommandFailsKeeps,
     RefreshStartsKeeps DEF ExplorerAsync

(* What the user does in the tree starts a handler, exports a snapshot or  *)
(* asks for a refresh.                                                     *)
StartsSome == \E work, parts, tolerant, made : Start(work, parts, tolerant, made)

LEMMA UserStarts == ASSUME ExplorerUser PROVE StartsSome \/ ExportSnapshot \/ Retry
<1>1. CASE UpdateOther \/ CreateProject \/ DeleteProject \/ CreateChild \/ RenameCollection
  BY <1>1, Zenon DEF UpdateOther, CreateProject, DeleteProject, CreateChild, RenameCollection, Simple, StartsSome
<1>2. CASE DeleteCollection \/ DropCollection \/ DropRequest \/ DeleteRequest
  BY <1>2, Zenon DEF DeleteCollection, DropCollection, Swap, DropRequest, DeleteRequest, Simple, StartsSome
<1>3. CASE BatchMove
  BY <1>3, Zenon DEF BatchMove, StartsSome
<1>4. CASE BatchDelete
  BY <1>4, Zenon DEF BatchDelete, StartsSome
<1>5. CASE RenameRequest \/ DuplicateRequest
  BY <1>5, Zenon DEF RenameRequest, DuplicateRequest, StartsSome
<1>6. CASE CloneProject
  BY <1>6, Zenon DEF CloneProject, StartsSome
<1>7. CASE RestoreSnapshot
  BY <1>7, Zenon DEF RestoreSnapshot, StartsSome
<1> QED
  BY <1>1, <1>2, <1>3, <1>4, <1>5, <1>6, <1>7 DEF ExplorerUser

LEMMA TreeUserKeeps == ASSUME TreeInv, ExplorerUser PROVE TreeInv'
<1>1. CASE StartsSome
  BY <1>1, HandlerStarts DEF StartsSome
<1>2. CASE ExportSnapshot
  BY <1>2, TreeStays DEF ExportSnapshot, treeState
<1>3. CASE Retry
  BY <1>3, RetryKeeps
<1> QED
  BY <1>1, <1>2, <1>3, UserStarts

-------------------------------------------------------------------------------
(* The parts together.  A step of App is a step of a part or leaves the    *)
(* part's variables alone.                                                 *)

LEMMA ShellLeaves ==
  ASSUME ShellStep
  PROVE  /\ DeckUnmounted \/ UNCHANGED session
         /\ UNCHANGED <<explorerVars, dispatchVars, misread, dialogs>>
  BY Zenon DEF ShellStep

LEMMA SessionMovesIn == ASSUME [Next]_vars PROVE SessionNext \/ UNCHANGED session
<1>1. CASE ShellStep
  BY <1>1, ShellLeaves DEF SessionNext
<1>2. CASE Next /\ ~ShellStep
  BY <1>2, Zenon DEF Next, TreeUser, TreeAsync, ImportFiles, HistoryUser, HistorySave, HistoryAsync, HistoryFault,
     WorkbenchSends, WorkbenchSessions, Environment, Team, AgentTalk, PreferenceStep, Elsewhere, others, SessionNext
<1>3. CASE UNCHANGED vars
  BY <1>3 DEF vars, others
<1> QED
  BY <1>1, <1>2, <1>3

LEMMA DispatchMovesIn == ASSUME [Next]_vars PROVE DispatchNext \/ UNCHANGED dispatchVars
<1>1. CASE ShellStep
  BY <1>1, ShellLeaves
<1>2. CASE Next /\ ~ShellStep
  BY <1>2 DEF Next, TreeUser, TreeAsync, ImportFiles, HistoryUser, HistorySave, HistoryAsync, HistoryFault,
     WorkbenchSends, WorkbenchSessions, Environment, Team, AgentTalk, PreferenceStep, Elsewhere, others,
     dispatchVars, DispatchNext
<1>3. CASE UNCHANGED vars
  BY <1>3 DEF vars, others, dispatchVars
<1> QED
  BY <1>1, <1>2, <1>3

LEMMA TeamMovesIn == ASSUME [Next]_vars PROVE [TeamNext]_teamVars
<1>1. CASE ShellStep
  BY <1>1, ShellLeaves DEF dialogs
<1>2. CASE Next /\ ~ShellStep
  BY <1>2 DEF Next, TreeUser, TreeAsync, ImportFiles, HistoryUser, HistorySave, HistoryAsync, HistoryFault,
     WorkbenchSends, WorkbenchSessions, Environment, Team, AgentTalk, PreferenceStep, others, dialogs, TeamNext
<1>3. CASE UNCHANGED vars
  BY <1>3 DEF vars, others, dialogs
<1> QED
  BY <1>1, <1>2, <1>3

LEMMA AgentMovesIn == ASSUME [Next]_vars PROVE AgentNext \/ UNCHANGED agentVars
<1>1. CASE ShellStep
  BY <1>1, ShellLeaves DEF dialogs
<1>2. CASE Next /\ ~ShellStep
  BY <1>2 DEF Next, TreeUser, TreeAsync, ImportFiles, HistoryUser, HistorySave, HistoryAsync, HistoryFault,
     WorkbenchSends, WorkbenchSessions, Environment, Team, AgentTalk, PreferenceStep, others, dialogs, AgentNext
<1>3. CASE UNCHANGED vars
  BY <1>3 DEF vars, others, dialogs
<1> QED
  BY <1>1, <1>2, <1>3

LEMMA PreferenceMovesIn == ASSUME [Next]_vars PROVE PreferenceNext \/ UNCHANGED preferenceVars
<1>1. CASE ShellStep
  BY <1>1, ShellLeaves DEF dialogs
<1>2. CASE Next /\ ~ShellStep
  BY <1>2 DEF Next, TreeUser, TreeAsync, ImportFiles, HistoryUser, HistorySave, HistoryAsync, HistoryFault,
     WorkbenchSends, WorkbenchSessions, Environment, Team, AgentTalk, PreferenceStep, others, dialogs,
     PreferenceNext
<1>3. CASE UNCHANGED vars
  BY <1>3 DEF vars, others, dialogs
<1> QED
  BY <1>1, <1>2, <1>3

(* The history and the import start handlers of the tree; nothing else     *)
(* outside of the tree touches it.                                         *)
LEMMA TreeMovesIn ==
  ASSUME [Next]_vars
  PROVE  ExplorerUser \/ ExplorerAsync \/ StartsSome \/ UNCHANGED treeState
<1>1. CASE ShellStep \/ UNCHANGED vars
  BY <1>1, ShellLeaves DEF vars, explorerVars, treeState
<1>2. CASE TreeUser \/ TreeAsync
  BY <1>2 DEF TreeUser, TreeAsync
<1>3. CASE ImportFiles
  <2>1. ASSUME NEW paths, ImportRequests(paths) PROVE StartsSome
    BY <2>1, Zenon DEF ImportRequests, StartsSome
  <2> QED
    BY <1>3, <2>1 DEF ImportFiles, explorerVars, treeState
<1>4. CASE HistorySave
  BY <1>4, Zenon DEF HistorySave, StartsSome
<1>5. CASE HistoryUser \/ HistoryAsync \/ HistoryFault
  BY <1>5 DEF HistoryUser, HistoryAsync, HistoryFault, KeepExplorer, explorerVars, treeState
<1>6. CASE WorkbenchSends \/ WorkbenchSessions \/ Environment
  BY <1>6 DEF WorkbenchSends, WorkbenchSessions, Environment, KeepExplorer, explorerVars, treeState
<1>7. CASE Team \/ AgentTalk \/ PreferenceStep
  BY <1>7 DEF Team, AgentTalk, PreferenceStep, KeepExplorer, explorerVars, treeState
<1> QED
  BY <1>1, <1>2, <1>3, <1>4, <1>5, <1>6, <1>7 DEF Next

-------------------------------------------------------------------------------
(* The history page.                                                       *)

Flags(p) == p.crossed \in BOOLEAN /\ p.failed \in BOOLEAN /\ p.missed \in BOOLEAN /\ p.loading \in BOOLEAN
PanelShape(p) ==
    /\ p = [mounted |-> p.mounted, listed |-> p.listed, loading |-> p.loading, loads |-> p.loads,
            openIds |-> p.openIds, activeId |-> p.activeId, requests |-> p.requests,
            detailLoadingId |-> p.detailLoadingId, fetch |-> p.fetch, tabs |-> p.tabs,
            draft |-> p.draft, saving |-> p.saving, asked |-> p.asked, failed |-> p.failed,
            crossed |-> p.crossed, missed |-> p.missed]
    /\ Flags(p)

(* Unless loads crossed, one is under way at most, the one asked for last, *)
(* and the button shows it.                                                *)
ListSound(p) ==
    /\ p.loads \in [Filters -> Nat]
    /\ ~p.crossed =>
          /\ \A f \in Filters : p.loads[f] <= IF f = p.asked THEN 1 ELSE 0
          /\ Loading(p) => p.loading
          /\ p.mounted /\ ~Loading(p) /\ ~p.failed => p.listed = p.asked

(* An answer that counts is for the active tab, and only a snapshot that   *)
(* has not come is said to be loading.                                     *)
DetailSound(p) ==
    /\ p.fetch # Nobody => p.fetch = p.activeId /\ p.fetch \notin p.requests
    /\ p.detailLoadingId # Nobody => p.detailLoadingId \notin p.requests
    /\ p.activeId # Nobody /\ p.activeId \notin p.requests /\ ~p.missed => p.fetch = p.activeId

(* The form of a tab nobody has touched is the one its run or its result   *)
(* belongs to.                                                             *)
Forms == {"snapshot", "edited"}
TabRow == [form : Forms, result : Forms \union {Nobody}, run : Forms \union {Nobody}, touched : BOOLEAN]
TabSound(tab) ==
    /\ tab \in TabRow
    /\ ~tab.touched => IF tab.run = Nobody THEN tab.result \in {Nobody, tab.form} ELSE tab.run = tab.form
TabsSound(p) ==
    /\ p.tabs = [id \in DOMAIN p.tabs |-> p.tabs[id]]
    /\ \A id \in DOMAIN p.tabs : TabSound(p.tabs[id])

DraftSound(p) ==
    p.draft # Nobody => (p.draft.result # Nobody /\ ~p.draft.touched => p.draft.result = p.draft.request)

PanelSound(p) == PanelShape(p) /\ ListSound(p) /\ DetailSound(p) /\ TabsSound(p) /\ DraftSound(p)
PanelInv == PanelSound(panel)

LEMMA PanelGoal == PanelInv => HistoryFaithful
  BY DEF PanelInv, PanelSound, ListSound, DetailSound, DraftSound, HistoryFaithful, HistoryShown, ListIsAsked,
         DetailShown, CaseIsAnswered

LEMMA UnmountedSound == PanelSound(Unmounted)
<1>1. PanelShape(Unmounted)
  BY DEF PanelShape, Flags, Unmounted
<1>2. ListSound(Unmounted) /\ DetailSound(Unmounted) /\ DraftSound(Unmounted)
  BY DEF ListSound, DetailSound, DraftSound, Unmounted, Loading
<1>3. TabsSound(Unmounted)
  BY DEF TabsSound, Unmounted
<1> QED BY <1>1, <1>2, <1>3 DEF PanelSound

LEMMA RenderSound == ASSUME NEW p, PanelSound(p) PROVE PanelSound(Rendered(p))
<1> DEFINE q == Rendered(p)
           tabs == [id \in Editors(p) |-> IF id \in DOMAIN p.tabs THEN ResetTab(p.tabs[id]) ELSE NewTab]
<1>1. PanelShape(q) /\ q.tabs = tabs /\ q.mounted = p.mounted /\ q.listed = p.listed /\ q.loads = p.loads
      /\ q.loading = p.loading /\ q.activeId = p.activeId /\ q.requests = p.requests
      /\ q.detailLoadingId = p.detailLoadingId /\ q.fetch = p.fetch /\ q.draft = p.draft /\ q.asked = p.asked
      /\ q.failed = p.failed /\ q.crossed = p.crossed /\ q.missed = p.missed
  <2> HIDE DEF tabs
  <2>1. q = [p EXCEPT !.tabs = tabs]
    BY DEF Rendered, tabs
  <2> HIDE DEF q
  <2> QED BY <2>1 DEF PanelSound, PanelShape, Flags
<1> HIDE DEF q
<1>2. ListSound(q) /\ DetailSound(q) /\ DraftSound(q)
  BY <1>1 DEF PanelSound, ListSound, DetailSound, DraftSound, Loading
<1>3. TabSound(NewTab)
  BY HistoryAssumption DEF TabSound, NewTab, TabRow, Forms
<1>4. ASSUME NEW tab, TabSound(tab) PROVE TabSound(ResetTab(tab))
  BY <1>4, HistoryAssumption DEF TabSound, ResetTab, TabRow, Forms
<1>5. TabsSound(q)
  BY <1>1, <1>3, <1>4 DEF TabsSound, PanelSound
<1>6. PanelSound(q)
  BY <1>1, <1>2, <1>5 DEF PanelSound
<1> QED BY <1>6 DEF q

(* A step changes a few fields only.                                       *)
ListPart(p) == <<p.mounted, p.listed, p.loads, p.loading, p.asked, p.failed, p.crossed>>
DetailPart(p) == <<p.activeId, p.requests, p.detailLoadingId, p.fetch, p.missed>>

LEMMA SameListing == ASSUME NEW p, NEW q, ListPart(q) = ListPart(p), ListSound(p) PROVE ListSound(q)
  BY DEF ListPart, ListSound, Loading
LEMMA SameDetail == ASSUME NEW p, NEW q, DetailPart(q) = DetailPart(p), DetailSound(p) PROVE DetailSound(q)
  BY DEF DetailPart, DetailSound
LEMMA SameTabs == ASSUME NEW p, NEW q, q.tabs = p.tabs, TabsSound(p) PROVE TabsSound(q)
  BY DEF TabsSound
LEMMA SameDraft == ASSUME NEW p, NEW q, q.draft = p.draft, DraftSound(p) PROVE DraftSound(q)
  BY DEF DraftSound

(* A load starts when none is under way, or is said to cross one.          *)
LEMMA LoadSound ==
    ASSUME NEW p, PanelShape(p), p.loads \in [Filters -> Nat], DetailSound(p), TabsSound(p), DraftSound(p),
           NEW f \in Filters, Loading(p) => p.crossed
    PROVE  PanelSound(Load(p, f))
<1> DEFINE q == Load(p, f)
           loads == [p.loads EXCEPT ![f] = @ + 1]
<1>1. /\ PanelShape(q) /\ DetailPart(q) = DetailPart(p) /\ q.tabs = p.tabs /\ q.draft = p.draft
      /\ q.loads = loads /\ q.loading = TRUE /\ q.asked = f /\ q.crossed = p.crossed
  <2>1. q = [p EXCEPT !.loading = TRUE, !.loads = loads, !.asked = f, !.failed = FALSE]
    BY DEF Load, PanelShape
  <2> HIDE DEF q, loads
  <2> QED BY <2>1 DEF PanelShape, Flags, DetailPart
<1>2. loads \in [Filters -> Nat] /\ loads[f] = p.loads[f] + 1 /\ \A g \in Filters : g # f => loads[g] = p.loads[g]
  OBVIOUS
<1> HIDE DEF q, loads
<1>3. ListSound(q)
  BY <1>1, <1>2 DEF ListSound, Loading
<1>4. PanelSound(q)
  BY <1>1, <1>3, SameDetail, SameTabs, SameDraft DEF PanelSound
<1> QED BY <1>4 DEF q

(* The effect asks for the snapshot of the active tab.                     *)
LEMMA EffectSound ==
    ASSUME NEW p, PanelShape(p), ListSound(p), TabsSound(p), DraftSound(p),
           p.detailLoadingId # Nobody => p.detailLoadingId \notin p.requests
    PROVE  PanelSound(DetailEffect(p))
<1>1. CASE p.activeId = Nobody \/ p.activeId \in p.requests
  <2> DEFINE q == [p EXCEPT !.fetch = Nobody]
  <2>1. /\ PanelShape(q) /\ ListPart(q) = ListPart(p) /\ q.tabs = p.tabs /\ q.draft = p.draft
        /\ q.fetch = Nobody /\ q.activeId = p.activeId /\ q.requests = p.requests
        /\ q.detailLoadingId = p.detailLoadingId /\ q.missed = p.missed
    BY DEF PanelShape, Flags, ListPart
  <2>2. DetailEffect(p) = q
    BY <1>1 DEF DetailEffect
  <2> HIDE DEF q
  <2>3. DetailSound(q)
    BY <1>1, <2>1 DEF DetailSound
  <2> QED BY <2>1, <2>2, <2>3, SameListing, SameTabs, SameDraft DEF PanelSound
<1>2. CASE ~(p.activeId = Nobody \/ p.activeId \in p.requests)
  <2> DEFINE q == [p EXCEPT !.fetch = p.activeId, !.detailLoadingId = p.activeId, !.missed = FALSE]
  <2>1. /\ PanelShape(q) /\ ListPart(q) = ListPart(p) /\ q.tabs = p.tabs /\ q.draft = p.draft
        /\ q.fetch = p.activeId /\ q.activeId = p.activeId /\ q.requests = p.requests
        /\ q.detailLoadingId = p.activeId /\ q.missed = FALSE
    <3>1. q = [p EXCEPT !.fetch = p.activeId, !.detailLoadingId = p.activeId, !.missed = FALSE]
      OBVIOUS
    <3> HIDE DEF q
    <3>2. PanelShape(q)
      BY <3>1 DEF PanelShape, Flags
    <3> QED BY <3>1, <3>2 DEF PanelShape, ListPart
  <2>2. DetailEffect(p) = q
    BY <1>2 DEF DetailEffect
  <2> HIDE DEF q
  <2>3. DetailSound(q)
    BY <1>2, <2>1 DEF DetailSound
  <2> QED BY <2>1, <2>2, <2>3, SameListing, SameTabs, SameDraft DEF PanelSound
<1> QED BY <1>1, <1>2

LEMMA ActivatedSound == ASSUME NEW p, PanelSound(p), NEW id PROVE PanelSound(Activated(p, id))
<1> DEFINE q == [p EXCEPT !.activeId = id]
<1>1. /\ PanelShape(q) /\ ListPart(q) = ListPart(p) /\ q.tabs = p.tabs /\ q.draft = p.draft
      /\ q.requests = p.requests /\ q.detailLoadingId = p.detailLoadingId
  BY DEF PanelSound, PanelShape, Flags, ListPart
<1>2. Activated(p, id) = p \/ Activated(p, id) = DetailEffect(q)
  BY DEF Activated
<1> HIDE DEF q
<1>3. q.detailLoadingId # Nobody => q.detailLoadingId \notin q.requests
  BY <1>1 DEF PanelSound, DetailSound
<1>4. PanelSound(DetailEffect(q))
  BY <1>1, <1>3, EffectSound, SameListing, SameTabs, SameDraft DEF PanelSound
<1> QED BY <1>2, <1>4

(* Which tabs are open, and which handler saves, matters to no part.       *)
LEMMA OpenSound == ASSUME NEW p, PanelSound(p), NEW ids PROVE PanelSound([p EXCEPT !.openIds = ids])
<1> DEFINE q == [p EXCEPT !.openIds = ids]
<1>1. PanelShape(q) /\ ListPart(q) = ListPart(p) /\ DetailPart(q) = DetailPart(p) /\ q.tabs = p.tabs /\ q.draft = p.draft
  BY DEF PanelSound, PanelShape, Flags, ListPart, DetailPart
<1> HIDE DEF q
<1>2. PanelSound(q)
  BY <1>1, SameListing, SameDetail, SameTabs, SameDraft DEF PanelSound
<1> QED BY <1>2 DEF q

LEMMA DraftsSound ==
    ASSUME NEW p, PanelSound(p), NEW draft, NEW slot,
           draft # Nobody => (draft.result # Nobody /\ ~draft.touched => draft.result = draft.request)
    PROVE  PanelSound([p EXCEPT !.draft = draft, !.saving = slot])
<1> DEFINE q == [p EXCEPT !.draft = draft, !.saving = slot]
<1>1. PanelShape(q) /\ ListPart(q) = ListPart(p) /\ DetailPart(q) = DetailPart(p) /\ q.tabs = p.tabs /\ q.draft = draft
  <2>1. q = [p EXCEPT !.draft = draft, !.saving = slot]
    OBVIOUS
  <2> HIDE DEF q
  <2>2. PanelShape(q)
    BY <2>1 DEF PanelSound, PanelShape, Flags
  <2> QED BY <2>1, <2>2 DEF PanelSound, PanelShape, ListPart, DetailPart
<1> HIDE DEF q
<1>2. DraftSound(q)
  BY <1>1 DEF DraftSound
<1>3. PanelSound(q)
  BY <1>1, <1>2, SameListing, SameDetail, SameTabs DEF PanelSound
<1> QED BY <1>3 DEF q

LEMMA TabSet ==
    ASSUME NEW p, PanelSound(p), NEW id \in DOMAIN p.tabs, NEW tab, TabSound(tab)
    PROVE  PanelSound([p EXCEPT !.tabs[id] = tab])
<1> DEFINE tabs == [p.tabs EXCEPT ![id] = tab]
           q == [p EXCEPT !.tabs = tabs]
<1>1. PanelShape(q) /\ ListPart(q) = ListPart(p) /\ DetailPart(q) = DetailPart(p) /\ q.tabs = tabs /\ q.draft = p.draft
  <2> HIDE DEF tabs
  <2> QED BY DEF PanelSound, PanelShape, Flags, ListPart, DetailPart
<1>2. [p EXCEPT !.tabs[id] = tab] = q
  BY DEF PanelSound, PanelShape
<1> HIDE DEF q
<1>3. TabsSound(q)
  BY <1>1 DEF PanelSound, TabsSound
<1>4. PanelSound(q)
  BY <1>1, <1>3, SameListing, SameDetail, SameDraft DEF PanelSound
<1> QED BY <1>2, <1>4

-------------------------------------------------------------------------------
(* The steps of the page.                                                  *)

LEMMA AppRenderedSound == ASSUME NEW p, PanelSound(p), NEW desktop PROVE PanelSound(AppRendered(p, desktop))
<1> DEFINE q == [p EXCEPT !.crossed = @ \/ Loading(p)]
<1>1. /\ PanelShape(q) /\ DetailPart(q) = DetailPart(p) /\ q.tabs = p.tabs /\ q.draft = p.draft
      /\ q.loads = p.loads /\ q.crossed = (p.crossed \/ Loading(p))
  <2>1. q = [p EXCEPT !.crossed = p.crossed \/ Loading(p)]
    BY DEF PanelSound, PanelShape
  <2>2. (p.crossed \/ Loading(p)) \in BOOLEAN
    OBVIOUS
  <2> HIDE DEF q
  <2> QED BY <2>1, <2>2 DEF PanelSound, PanelShape, Flags, DetailPart
<1>2. AppRendered(p, desktop) \in {p, Rendered(p), Rendered(DetailEffect(Load(q, NoFilter)))}
  BY DEF AppRendered
<1> HIDE DEF q
<1>3. PanelSound(Load(q, NoFilter))
  BY <1>1, LoadSound, SameDetail, SameTabs, SameDraft, HistoryAssumption DEF PanelSound, ListSound, Loading
<1>4. PanelSound(DetailEffect(Load(q, NoFilter)))
  BY <1>3, EffectSound DEF PanelSound, DetailSound
<1> QED BY <1>2, <1>4, RenderSound

LEMMA SaveEndedSound == ASSUME NEW p, PanelSound(p), NEW ok PROVE PanelSound(SaveEnded(p, ok))
<1> DEFINE draft == IF ok THEN Nobody ELSE p.draft
<1>1. SaveEnded(p, ok) = [p EXCEPT !.draft = draft, !.saving = 0]
  BY DEF SaveEnded, PanelSound, PanelShape
<1>2. draft # Nobody => (draft.result # Nobody /\ ~draft.touched => draft.result = draft.request)
  BY DEF PanelSound, DraftSound
<1> HIDE DEF draft
<1>3. \A slot : PanelSound([p EXCEPT !.draft = draft, !.saving = slot])
  BY <1>2, DraftsSound
<1> QED BY <1>1, <1>3

LEMMA SetSound == ASSUME NEW p, PanelSound(p), Set(p) PROVE PanelInv'
  BY RenderSound DEF Set, PanelInv

LEMMA FilterKeeps == ASSUME PanelInv, PressFilter PROVE PanelInv'
<1> DEFINE q == [panel EXCEPT !.crossed = Loading(panel) /\ panel.crossed]
<1>1. PICK f \in Filters : Set(Load(q, f))
  BY DEF PressFilter
<1>2. ~panel.loading
  BY DEF PressFilter, CanPress
<1>3. /\ PanelShape(q) /\ DetailPart(q) = DetailPart(panel) /\ q.tabs = panel.tabs /\ q.draft = panel.draft
      /\ q.loads = panel.loads /\ q.crossed = (Loading(panel) /\ panel.crossed)
  <2>1. (Loading(panel) /\ panel.crossed) \in BOOLEAN
    OBVIOUS
  <2>2. q = [panel EXCEPT !.crossed = Loading(panel) /\ panel.crossed]
    OBVIOUS
  <2> HIDE DEF q
  <2> QED BY <2>1, <2>2 DEF PanelInv, PanelSound, PanelShape, Flags, DetailPart
<1> HIDE DEF q
<1>4. Loading(q) => q.crossed
  BY <1>2, <1>3 DEF PanelInv, PanelSound, ListSound, Loading
<1>5. PanelSound(Load(q, f))
  BY <1>3, <1>4, LoadSound, SameDetail, SameTabs, SameDraft DEF PanelInv, PanelSound, ListSound
<1> QED BY <1>1, <1>5, SetSound

LEMMA LoadKeeps == ASSUME PanelInv, NEW ok \in BOOLEAN, LoadAnswered(ok) PROVE PanelInv'
<1> DEFINE Received(f) == [panel EXCEPT !.loads[f] = @ - 1, !.loading = FALSE,
                                        !.listed = IF ok THEN f ELSE @, !.failed = @ \/ ~ok]
<1>1. PICK f \in Filters : panel.loads[f] > 0 /\ Set(Received(f))
  BY DEF LoadAnswered
<1> DEFINE q == Received(f)
           loads == [panel.loads EXCEPT ![f] = @ - 1]
<1>2. /\ PanelShape(q) /\ DetailPart(q) = DetailPart(panel) /\ q.tabs = panel.tabs /\ q.draft = panel.draft
      /\ q.loads = loads /\ q.loading = FALSE /\ q.listed = (IF ok THEN f ELSE panel.listed)
      /\ q.failed = (panel.failed \/ ~ok) /\ q.mounted = panel.mounted /\ q.asked = panel.asked
      /\ q.crossed = panel.crossed
  <2>1. q = [panel EXCEPT !.loads = loads, !.loading = FALSE, !.listed = IF ok THEN f ELSE panel.listed,
                          !.failed = panel.failed \/ ~ok]
    BY DEF PanelInv, PanelSound, PanelShape
  <2>2. (panel.failed \/ ~ok) \in BOOLEAN
    OBVIOUS
  <2> HIDE DEF q, loads, Received
  <2>3. PanelShape(q)
    BY <2>1, <2>2 DEF PanelInv, PanelSound, PanelShape, Flags
  <2> QED BY <2>1, <2>3 DEF PanelInv, PanelSound, PanelShape, DetailPart
<1>3. /\ panel.loads \in [Filters -> Nat] /\ loads \in [Filters -> Nat]
      /\ loads[f] = panel.loads[f] - 1 /\ \A g \in Filters : g # f => loads[g] = panel.loads[g]
  BY <1>1 DEF PanelInv, PanelSound, ListSound
<1>4. Set(q)
  BY <1>1
<1> HIDE DEF q, loads, Received
<1>5. ListSound(q)
  <2>1. CASE panel.crossed
    BY <1>2, <1>3, <2>1 DEF ListSound
  <2>2. CASE ~panel.crossed
    <3>1. f = panel.asked /\ panel.loads[f] = 1
      BY <1>1, <1>3, <2>2 DEF PanelInv, PanelSound, ListSound
    <3>2. \A g \in Filters : g # f => panel.loads[g] = 0
      BY <1>3, <2>2, <3>1 DEF PanelInv, PanelSound, ListSound
    <3>3. \A g \in Filters : loads[g] = 0
      BY <1>3, <3>1, <3>2
    <3>4. ~Loading(q)
      BY <1>2, <3>3 DEF Loading
    <3>5. ~q.failed => q.listed = q.asked
      BY <1>2, <3>1
    <3> QED BY <1>2, <1>3, <3>3, <3>4, <3>5 DEF ListSound
  <2> QED BY <2>1, <2>2
<1>6. PanelSound(q)
  BY <1>2, <1>5, SameDetail, SameTabs, SameDraft DEF PanelInv, PanelSound
<1> QED BY <1>4, <1>6, SetSound

LEMMA FetchKeeps == ASSUME PanelInv, NEW ok \in BOOLEAN, FetchAnswered(ok) PROVE PanelInv'
<1> DEFINE id == panel.fetch
           done == [panel EXCEPT !.fetch = Nobody, !.missed = ~ok,
                                 !.detailLoadingId = IF @ = id THEN Nobody ELSE @]
           known == [done EXCEPT !.requests = @ \union {id}]
<1>1. id # Nobody /\ id = panel.activeId /\ id \notin panel.requests
  BY DEF FetchAnswered, PanelInv, PanelSound, DetailSound
<1>2. Set(IF ok THEN DetailEffect(known) ELSE done)
  BY DEF FetchAnswered
<1>3. /\ PanelShape(done) /\ ListPart(done) = ListPart(panel) /\ done.tabs = panel.tabs
      /\ done.draft = panel.draft /\ done.fetch = Nobody /\ done.missed = ~ok
      /\ done.detailLoadingId = (IF panel.detailLoadingId = id THEN Nobody ELSE panel.detailLoadingId)
      /\ done.requests = panel.requests /\ done.activeId = panel.activeId
  <2>1. done = [panel EXCEPT !.fetch = Nobody, !.missed = ~ok,
                             !.detailLoadingId = IF panel.detailLoadingId = id THEN Nobody ELSE panel.detailLoadingId]
    BY DEF PanelInv, PanelSound, PanelShape
  <2> HIDE DEF done, id
  <2>2. PanelShape(done)
    BY <2>1 DEF PanelInv, PanelSound, PanelShape, Flags
  <2> QED BY <2>1, <2>2 DEF PanelInv, PanelSound, PanelShape, ListPart
<1>4. /\ PanelShape(known) /\ ListPart(known) = ListPart(done) /\ known.tabs = done.tabs
      /\ known.draft = done.draft /\ known.detailLoadingId = done.detailLoadingId
      /\ known.requests = done.requests \union {id}
  <2> HIDE DEF done, id
  <2>1. known = [done EXCEPT !.requests = done.requests \union {id}]
    BY <1>3 DEF PanelShape
  <2> HIDE DEF known
  <2>2. PanelShape(known)
    BY <1>3, <2>1 DEF PanelShape, Flags
  <2> QED BY <1>3, <2>1, <2>2 DEF PanelShape, ListPart
<1> HIDE DEF done, known, id
<1>5. CASE ok
  <2>1. known.detailLoadingId # Nobody => known.detailLoadingId \notin known.requests
    BY <1>1, <1>3, <1>4 DEF PanelInv, PanelSound, DetailSound
  <2>2. PanelSound(DetailEffect(known))
    BY <1>3, <1>4, <2>1, EffectSound, SameListing, SameTabs, SameDraft DEF PanelInv, PanelSound
  <2> QED BY <1>2, <1>5, <2>2, SetSound
<1>6. CASE ~ok
  <2>1. DetailSound(done)
    BY <1>1, <1>3, <1>6 DEF PanelInv, PanelSound, DetailSound
  <2>2. PanelSound(done)
    BY <1>3, <2>1, SameListing, SameTabs, SameDraft DEF PanelInv, PanelSound
  <2> QED BY <1>2, <1>6, <2>2, SetSound
<1> QED BY <1>5, <1>6

LEMMA TabsKeep ==
    ASSUME PanelInv, Search \/ OpenHistory \/ Activate \/ CloseTab \/ CloseAllTabs \/ CloseOtherTabs
    PROVE  PanelInv'
<1> USE DEF PanelInv
<1>1. CASE Search
  BY <1>1, SetSound DEF Search
<1>2. CASE OpenHistory
  <2> DEFINE NowOpen(id) == IF Contains(panel.openIds, id) THEN panel.openIds ELSE Append(panel.openIds, id)
  <2>1. PICK id \in Records : Set(Activated([panel EXCEPT !.openIds = NowOpen(id)], id))
    <3>1. \A id : [panel EXCEPT !.openIds = IF Contains(@, id) THEN @ ELSE Append(@, id)]
                    = [panel EXCEPT !.openIds = NowOpen(id)]
      BY DEF PanelSound, PanelShape
    <3> HIDE DEF NowOpen
    <3> QED BY <1>2, <3>1 DEF OpenHistory
  <2> HIDE DEF NowOpen
  <2> QED BY <2>1, OpenSound, ActivatedSound, SetSound
<1>3. CASE Activate
  <2>1. PICK id \in ToSet(panel.openIds) \ {panel.activeId} : Set(Activated(panel, id))
    BY <1>3 DEF Activate
  <2> QED BY <2>1, ActivatedSound, SetSound
<1>4. CASE CloseTab
  <2> DEFINE Rest(i) == RemoveAt(panel.openIds, i)
             Following(i) == IF Rest(i) = <<>> THEN Nobody ELSE Rest(i)[IF i <= Len(Rest(i)) THEN i ELSE Len(Rest(i))]
             Without(i) == [panel EXCEPT !.openIds = Rest(i)]
  <2>1. PICK i \in DOMAIN panel.openIds :
          Set(IF panel.activeId = panel.openIds[i] THEN Activated(Without(i), Following(i)) ELSE Without(i))
    BY <1>4 DEF CloseTab
  <2>2. PanelSound(Without(i))
    BY OpenSound
  <2> HIDE DEF Rest, Following, Without
  <2>3. PanelSound(Activated(Without(i), Following(i)))
    BY <2>2, ActivatedSound
  <2> QED BY <2>1, <2>2, <2>3, SetSound
<1>5. CASE CloseAllTabs
  <2>1. Set(Activated([panel EXCEPT !.openIds = <<>>], Nobody))
    BY <1>5 DEF CloseAllTabs
  <2> QED BY <2>1, OpenSound, ActivatedSound, SetSound
<1>6. CASE CloseOtherTabs
  <2>1. Set([panel EXCEPT !.openIds = <<panel.activeId>>])
    BY <1>6 DEF CloseOtherTabs
  <2> QED BY <2>1, OpenSound, SetSound
<1> QED BY <1>1, <1>2, <1>3, <1>4, <1>5, <1>6

(* The form, its run and its result.                                       *)
LEMMA EditKeeps == ASSUME PanelInv, EditTab PROVE PanelInv'
<1> DEFINE row == [panel.tabs[Active] EXCEPT !.form = "edited", !.touched = TRUE]
<1>1. Active \in DOMAIN panel.tabs /\ TabSound(panel.tabs[Active])
  BY DEF EditTab, HasEditor, PanelInv, PanelSound, TabsSound
<1>2. panel' = [panel EXCEPT !.tabs[Active] = row]
  BY <1>1 DEF EditTab, PanelInv, PanelSound, PanelShape, TabsSound
<1>3. TabSound(row)
  BY <1>1 DEF TabSound, TabRow, Forms
<1> HIDE DEF row
<1> QED BY <1>1, <1>2, <1>3, TabSet DEF PanelInv

LEMMA SendKeeps == ASSUME PanelInv, SendTab PROVE PanelInv'
<1> DEFINE tab == panel.tabs[Active]
           row == [tab EXCEPT !.run = tab.form, !.touched = FALSE,
                              !.result = IF Active \in HttpRecords THEN Nobody ELSE @]
<1>1. Active \in DOMAIN panel.tabs /\ TabSound(tab) /\ tab.run = Nobody
  BY DEF SendTab, HasEditor, Running, PanelInv, PanelSound, TabsSound
<1>2. panel' = [panel EXCEPT !.tabs[Active] = row]
  BY <1>1 DEF SendTab, PanelInv, PanelSound, PanelShape, TabsSound
<1>3. TabSound(row)
  BY <1>1, HistoryAssumption DEF TabSound, TabRow, Forms
<1> HIDE DEF row, tab
<1> QED BY <1>1, <1>2, <1>3, TabSet DEF PanelInv

LEMMA ResultKeeps == ASSUME PanelInv, NEW ok \in BOOLEAN, SendAnswered(ok) PROVE PanelInv'
<1> DEFINE Kept(id) == ~ok /\ id \notin HttpRecords
           AfterSend(id) == [panel.tabs[id] EXCEPT !.run = Nobody, !.result = IF Kept(id) THEN @ ELSE panel.tabs[id].run,
                                             !.touched = @ \/ Kept(id)]
<1>1. PICK id \in DOMAIN panel.tabs : panel.tabs[id].run # Nobody /\ panel' = [panel EXCEPT !.tabs[id] = AfterSend(id)]
  BY DEF SendAnswered
<1>2. TabSound(panel.tabs[id])
  BY DEF PanelInv, PanelSound, TabsSound
<1>3. TabSound(AfterSend(id))
  BY <1>1, <1>2, HistoryAssumption DEF TabSound, TabRow, Forms
<1> HIDE DEF AfterSend
<1> QED BY <1>1, <1>3, TabSet DEF PanelInv

(* The dialog takes what a tab holds when none of its sends is under way.  *)
LEMMA DialogKeeps == ASSUME PanelInv, NEW parent, OpenDialog(parent) PROVE PanelInv'
<1> DEFINE tab == panel.tabs[Active]
           draft == [request |-> tab.form, touched |-> tab.touched,
                     result |-> IF parent # Nobody THEN tab.result ELSE Nobody, parent |-> parent]
<1>1. TabSound(tab) /\ tab.run = Nobody
  BY DEF OpenDialog, HasEditor, Running, PanelInv, PanelSound, TabsSound
<1>2. Set([panel EXCEPT !.draft = draft])
  BY DEF OpenDialog
<1>3. draft.result # Nobody /\ ~draft.touched => draft.result = draft.request
  BY <1>1 DEF TabSound
<1>4. [panel EXCEPT !.draft = draft] = [panel EXCEPT !.draft = draft, !.saving = panel.saving]
  <2> HIDE DEF draft
  <2> QED BY DEF PanelInv, PanelSound, PanelShape
<1> HIDE DEF draft, tab
<1> QED BY <1>2, <1>3, <1>4, DraftsSound, SetSound DEF PanelInv

LEMMA DraftKeeps ==
    ASSUME PanelInv, CancelDialog \/ \E slot : SaveStarts(slot)
    PROVE  PanelInv'
<1>1. CASE CancelDialog
  <2>1. [panel EXCEPT !.draft = Nobody] = [panel EXCEPT !.draft = Nobody, !.saving = panel.saving]
    BY DEF PanelInv, PanelSound, PanelShape
  <2> QED BY <1>1, <2>1, DraftsSound, SetSound DEF CancelDialog, PanelInv
<1>2. ASSUME NEW slot, SaveStarts(slot) PROVE PanelInv'
  <2>1. [panel EXCEPT !.saving = slot] = [panel EXCEPT !.draft = panel.draft, !.saving = slot]
    BY DEF PanelInv, PanelSound, PanelShape
  <2>2. PanelSound(panel) /\ DraftSound(panel)
    BY DEF PanelInv, PanelSound
  <2> DEFINE draft == panel.draft
  <2>3. draft # Nobody => (draft.result # Nobody /\ ~draft.touched => draft.result = draft.request)
    BY <2>2 DEF DraftSound
  <2> HIDE DEF draft
  <2>4. PanelSound([panel EXCEPT !.draft = draft, !.saving = slot])
    BY <2>2, <2>3, DraftsSound
  <2>5. PanelSound([panel EXCEPT !.saving = slot])
    BY <2>1, <2>4 DEF draft
  <2> QED BY <1>2, <2>5, SetSound DEF SaveStarts
<1> QED BY <1>1, <1>2

LEMMA PanelUserKeeps == ASSUME PanelInv, PanelUser PROVE PanelInv'
  BY FilterKeeps, TabsKeep, EditKeeps, SendKeeps, DraftKeeps DEF PanelUser

LEMMA HistoryOpens == ASSUME OpenPage PROVE PanelInv'
<1> DEFINE q == [Unmounted EXCEPT !.mounted = TRUE]
<1>1. PanelShape(q) /\ q.loads = [f \in Filters |-> 0] /\ DetailPart(q) = DetailPart(Unmounted)
      /\ q.tabs = Unmounted.tabs /\ q.draft = Unmounted.draft
  <2>1. Unmounted.loads = [f \in Filters |-> 0]
    BY DEF Unmounted
  <2>2. PanelShape(Unmounted)
    BY UnmountedSound DEF PanelSound
  <2>3. ASSUME NEW p, PanelShape(p)
        PROVE  LET m == [p EXCEPT !.mounted = TRUE] IN
               PanelShape(m) /\ m.loads = p.loads /\ DetailPart(m) = DetailPart(p) /\ m.tabs = p.tabs /\ m.draft = p.draft
    <3> DEFINE m == [p EXCEPT !.mounted = TRUE]
    <3>1. m = [p EXCEPT !.mounted = TRUE]
      OBVIOUS
    <3> HIDE DEF m
    <3>2. PanelShape(m)
      BY <2>3, <3>1 DEF PanelShape, Flags
    <3>3. m.loads = p.loads /\ DetailPart(m) = DetailPart(p) /\ m.tabs = p.tabs /\ m.draft = p.draft
      BY <2>3, <3>1 DEF PanelShape, DetailPart
    <3> QED BY <3>2, <3>3 DEF m
  <2> QED BY <2>1, <2>2, <2>3
<1> HIDE DEF q
<1>2. ~Loading(q)
  BY <1>1 DEF Loading
<1>3. PanelSound(Load(q, NoFilter))
  BY <1>1, <1>2, UnmountedSound, LoadSound, SameDetail, SameTabs, SameDraft, HistoryAssumption DEF PanelSound
<1> QED BY <1>3 DEF OpenPage, PanelInv, q

(* In the application, the tree renders the page and ends its saves.       *)
LEMMA AfterTreeKeeps == ASSUME PanelInv, PanelAfterTree PROVE PanelInv'
<1> DEFINE rendered == IF <<tree, treeLoading, treeError>>' # <<tree, treeLoading, treeError>>
                       THEN AppRendered(panel, Desktop) ELSE panel
<1>1. PanelSound(rendered)
  BY AppRenderedSound DEF PanelInv
<1>2. panel' = rendered \/ \E ok : panel' = Rendered(SaveEnded(rendered, ok))
  BY DEF PanelAfterTree
<1> HIDE DEF rendered
<1>3. \A ok : PanelSound(Rendered(SaveEnded(rendered, ok)))
  BY <1>1, SaveEndedSound, RenderSound
<1> QED
  BY <1>1, <1>2, <1>3 DEF PanelInv

LEMMA PanelStep == ASSUME PanelInv, [Next]_vars PROVE PanelInv'
<1>1. CASE TreeUser \/ TreeAsync
  BY <1>1, AfterTreeKeeps DEF TreeUser, TreeAsync
<1>2. CASE HistoryUser
  BY <1>2, PanelUserKeeps, DialogKeeps DEF HistoryUser
<1>3. CASE HistorySave
  BY <1>3, DraftKeeps DEF HistorySave
<1>4. CASE HistoryAsync
  BY <1>4, LoadKeeps, FetchKeeps, ResultKeeps DEF HistoryAsync
<1>5. CASE HistoryFault
  BY <1>5, LoadKeeps, FetchKeeps, ResultKeeps DEF HistoryFault
<1>6. CASE ShellStep
  <2>1. OpenPage \/ LeavePage \/ panel' = Rendered(panel) \/ UNCHANGED panel
    BY <1>6 DEF ShellStep
  <2>2. CASE OpenPage
    BY <2>2, HistoryOpens
  <2>3. CASE LeavePage
    BY <2>3, UnmountedSound DEF LeavePage, PanelInv
  <2>4. CASE panel' = Rendered(panel)
    BY <2>4, RenderSound DEF PanelInv
  <2>5. CASE UNCHANGED panel
    BY <2>5 DEF PanelInv
  <2> QED
    BY <2>1, <2>2, <2>3, <2>4, <2>5
<1>7. CASE UNCHANGED panel
  BY <1>7 DEF PanelInv
<1>8. ImportFiles \/ WorkbenchSends \/ WorkbenchSessions \/ Environment \/ Team \/ AgentTalk \/ PreferenceStep
        \/ UNCHANGED vars => UNCHANGED panel
  BY DEF ImportFiles, WorkbenchSends, WorkbenchSessions, Environment, Team, AgentTalk, PreferenceStep, Elsewhere,
         vars
<1> QED
  BY <1>1, <1>2, <1>3, <1>4, <1>5, <1>6, <1>7, <1>8 DEF Next

-------------------------------------------------------------------------------
(* The dialog of the environments.                                         *)

EnvironmentShape(env) ==
    /\ env = [variables |-> env.variables, refs |-> env.refs, resources |-> env.resources]
    /\ DOMAIN env.resources \subseteq Resources

WriteShape(job) ==
    /\ job = [kind |-> job.kind, of |-> job.of, variables |-> job.variables, refs |-> job.refs,
              stage |-> job.stage, doubt |-> job.doubt, made |-> job.made]
    /\ job.kind \in {"save", "update", "create", "delete"} /\ job.stage \in {"put", "sent", "done"}
    /\ job.doubt \in BOOLEAN

IsWrite(job) == job.kind \notin {"none", "reload"}
EditorShape(e) ==
    /\ e = [open |-> e.open, environments |-> e.environments, defaultVariables |-> e.defaultVariables,
            defaultSecretRefs |-> e.defaultSecretRefs, active |-> e.active, text |-> e.text,
            globalParameters |-> e.globalParameters, secretRefs |-> e.secretRefs, job |-> e.job,
            doubt |-> e.doubt]
    /\ e.open \in BOOLEAN /\ e.doubt \in BOOLEAN
    /\ IsWrite(e.job) => WriteShape(e.job)
    /\ e.job.kind = "none" => e.job = NoJob

(* What the dialog will show once the write that was applied is answered.  *)
Applied(e) == IsWrite(e.job) /\ e.job.stage = "done"
VariablesAfter(e, job) == IF job.kind = "save" /\ job.of # "vault" THEN job.variables ELSE e.defaultVariables
RefsAfter(e, job) == IF job.kind = "save" /\ job.of = "vault" THEN job.refs ELSE e.defaultSecretRefs
ListAfter(e, job) ==
    CASE job.kind = "update" -> [e.environments EXCEPT ![job.of] = job.variables]
      [] job.kind = "create" ->
           Adding(IF job.of = Draft THEN Dropping(e.environments, Draft) ELSE e.environments, job.made, job.variables)
      [] job.kind = "delete" -> Dropping(e.environments, job.of)
      [] OTHER -> e.environments

Matches(env, variables, refs, list) ==
    /\ variables = env.variables /\ refs = env.refs
    /\ \A id \in DOMAIN list \ {Draft} : id \in DOMAIN env.resources /\ list[id] = env.resources[id]

(* A dialog that has no doubt knows what is stored ...                     *)
KnowsStored(e, env) ==
    ~e.doubt =>
        IF Applied(e) THEN Matches(env, VariablesAfter(e, e.job), RefsAfter(e, e.job), ListAfter(e, e.job))
        ELSE Matches(env, e.defaultVariables, e.defaultSecretRefs, e.environments)

(* ... and sends along what it remembers of the section it does not edit.  *)
Remembers(e) ==
    e.job.kind = "save" =>
       IF e.job.of = "vault" THEN e.job.variables = e.defaultVariables ELSE e.job.refs = e.defaultSecretRefs

EnvironmentInv ==
    /\ EnvironmentShape(environment) /\ ~overwritten
    /\ EditorShape(editor) /\ (~editor.open => editor = Closed)
    /\ KnowsStored(editor, environment) /\ Remembers(editor)
    /\ \A job \in left : WriteShape(job) /\ job.stage # "done"
    /\ \A job \in Jobs : job.stage # "done" => Spares(job)

LEMMA EnvironmentGoal == EnvironmentInv => EnvironmentKept
  BY DEF EnvironmentInv, EnvironmentKept, KnowsStored, Applied, IsWrite, Matches, Busy, NoJob

LEMMA EnvironmentStart == EnvironmentInit => EnvironmentInv
<1> SUFFICES ASSUME EnvironmentInit PROVE EnvironmentInv
  OBVIOUS
<1>1. EditorShape(Closed) /\ KnowsStored(Closed, environment) /\ Remembers(Closed) /\ ~IsWrite(Closed.job)
  BY DEF EditorShape, Closed, NoJob, IsWrite, KnowsStored, Remembers
<1>2. EnvironmentShape(environment)
  <2>1. (CHOOSE r \in Resources : TRUE) \in Resources
    BY EnvironmentAssumption
  <2> QED BY <2>1 DEF EnvironmentInit, EnvironmentShape
<1> QED
  BY <1>1, <1>2 DEF EnvironmentInit, EnvironmentInv, Jobs, IsWrite

(* The inputs follow the active section; nothing else does.                *)
Book(e) == <<e.open, e.environments, e.defaultVariables, e.defaultSecretRefs, e.job, e.doubt>>
LEMMA EffectBook == ASSUME NEW e, EditorShape(e) PROVE EditorShape(Effect(e)) /\ Book(Effect(e)) = Book(e)
<1>1. \A text : EditorShape([e EXCEPT !.text = text]) /\ Book([e EXCEPT !.text = text]) = Book(e)
  BY DEF EditorShape, Book
<1>2. \A refs : EditorShape([e EXCEPT !.secretRefs = refs]) /\ Book([e EXCEPT !.secretRefs = refs]) = Book(e)
  BY DEF EditorShape, Book
<1> QED
  BY <1>1, <1>2 DEF Effect

LEMMA JobSet ==
    ASSUME NEW e, EditorShape(e), NEW job, IsWrite(job) => WriteShape(job), job.kind = "none" => job = NoJob
    PROVE  LET d == [e EXCEPT !.job = job] IN
           /\ EditorShape(d) /\ d.open = e.open /\ d.doubt = e.doubt /\ d.job = job
           /\ d.defaultVariables = e.defaultVariables /\ d.defaultSecretRefs = e.defaultSecretRefs
           /\ d.environments = e.environments
<1> DEFINE d == [e EXCEPT !.job = job]
<1>1. d = [e EXCEPT !.job = job]
  OBVIOUS
<1> HIDE DEF d
<1>2. d = [open |-> e.open, environments |-> e.environments, defaultVariables |-> e.defaultVariables,
           defaultSecretRefs |-> e.defaultSecretRefs, active |-> e.active, text |-> e.text,
           globalParameters |-> e.globalParameters, secretRefs |-> e.secretRefs, job |-> job, doubt |-> e.doubt]
  BY <1>1 DEF EditorShape
<1> QED
  BY <1>2 DEF EditorShape, d

LEMMA DoubtSet ==
    ASSUME NEW e, EditorShape(e), NEW doubt \in BOOLEAN
    PROVE  LET d == [e EXCEPT !.doubt = doubt] IN
           /\ EditorShape(d) /\ d.open = e.open /\ d.doubt = doubt /\ d.job = e.job
           /\ d.defaultVariables = e.defaultVariables /\ d.defaultSecretRefs = e.defaultSecretRefs
           /\ d.environments = e.environments
<1> DEFINE d == [e EXCEPT !.doubt = doubt]
<1>1. d = [e EXCEPT !.doubt = doubt]
  OBVIOUS
<1> HIDE DEF d
<1>2. d = [open |-> e.open, environments |-> e.environments, defaultVariables |-> e.defaultVariables,
           defaultSecretRefs |-> e.defaultSecretRefs, active |-> e.active, text |-> e.text,
           globalParameters |-> e.globalParameters, secretRefs |-> e.secretRefs, job |-> e.job, doubt |-> doubt]
  BY <1>1 DEF EditorShape
<1> QED
  BY <1>2 DEF EditorShape, d

WithList(e, list, active, text) == [e EXCEPT !.environments = list, !.active = active, !.text = text]
LEMMA ListSet ==
    ASSUME NEW e, EditorShape(e), NEW list, NEW active, NEW text, NEW d, d = WithList(e, list, active, text)
    PROVE  /\ EditorShape(d) /\ d.open = e.open /\ d.doubt = e.doubt /\ d.job = e.job
           /\ d.defaultVariables = e.defaultVariables /\ d.defaultSecretRefs = e.defaultSecretRefs
           /\ d.environments = list
<1>1. d = [open |-> e.open, environments |-> list, defaultVariables |-> e.defaultVariables,
           defaultSecretRefs |-> e.defaultSecretRefs, active |-> active, text |-> text,
           globalParameters |-> e.globalParameters, secretRefs |-> e.secretRefs, job |-> e.job, doubt |-> e.doubt]
  BY DEF EditorShape, WithList
<1> QED
  BY <1>1 DEF EditorShape

LEMMA SameBook ==
    ASSUME NEW e, NEW d, Book(e) = Book(d), NEW env
    PROVE  /\ KnowsStored(d, env) => KnowsStored(e, env)
           /\ Remembers(d) => Remembers(e)
  BY DEF Book, KnowsStored, Applied, VariablesAfter, RefsAfter, ListAfter, Remembers

(* The dialog and what it left behind change, and the store does not.      *)
LEMMA StoreKept ==
    ASSUME EnvironmentInv, UNCHANGED <<environment, overwritten>>, NEW e, editor' = e, EditorShape(e),
           KnowsStored(e, environment), Remembers(e), ~e.open => e = Closed,
           IsWrite(e.job) /\ e.job.stage # "done" => Spares(e.job),
           \A job \in left' : WriteShape(job) /\ job.stage # "done" /\ Spares(job)
    PROVE  EnvironmentInv'
<1>1. EnvironmentShape(environment)' /\ ~overwritten'
  BY DEF EnvironmentInv
<1>2. EditorShape(editor)' /\ (~editor.open => editor = Closed)' /\ KnowsStored(editor, environment)' /\ Remembers(editor)'
  OBVIOUS
<1>3. (\A job \in left : WriteShape(job) /\ job.stage # "done")'
  OBVIOUS
<1>4. ASSUME NEW job \in Jobs', job.stage # "done" PROVE Spares(job)'
  <2>1. job \in left' \/ (job = e.job /\ IsWrite(job))
    BY DEF Jobs, IsWrite
  <2>2. Spares(job)
    BY <1>4, <2>1
  <2> QED BY <2>2 DEF Spares
<1> QED
  BY <1>1, <1>2, <1>3, <1>4 DEF EnvironmentInv

LEMMA EditingKeeps ==
    ASSUME EnvironmentInv, NEW e, Editing(e), EditorShape(e), KnowsStored(e, environment), Remembers(e),
           ~e.open => e = Closed, IsWrite(e.job) /\ e.job.stage # "done" => Spares(e.job)
    PROVE  EnvironmentInv'
<1>1. editor' = e /\ UNCHANGED <<environment, left, overwritten>>
  BY DEF Editing
<1>2. \A job \in left' : WriteShape(job) /\ job.stage # "done" /\ Spares(job)
  BY <1>1 DEF EnvironmentInv, Jobs
<1> QED
  BY <1>1, <1>2, StoreKept

(* Steps that leave the book alone.                                        *)
LEMMA BookKept ==
    ASSUME EnvironmentInv, NEW e, Editing(e), EditorShape(e), Book(e) = Book(editor), editor.open
    PROVE  EnvironmentInv'
<1>1. KnowsStored(e, environment) /\ Remembers(e) /\ e.open
  BY SameBook DEF EnvironmentInv, Book
<1>2. IsWrite(e.job) /\ e.job.stage # "done" => Spares(e.job)
  BY DEF EnvironmentInv, Book, Jobs, IsWrite
<1> QED
  BY <1>1, <1>2, EditingKeeps

-------------------------------------------------------------------------------
(* What the user does in the dialog.                                       *)

(* A list that changes in the draft only.                                  *)
LEMMA DraftOnly ==
    ASSUME NEW list, NEW content
    PROVE  /\ \A id \in DOMAIN Adding(list, Draft, content) \ {Draft} :
                 id \in DOMAIN list /\ Adding(list, Draft, content)[id] = list[id]
           /\ \A id \in DOMAIN Dropping(list, Draft) \ {Draft} :
                 id \in DOMAIN list /\ Dropping(list, Draft)[id] = list[id]
  BY DEF Adding, Dropping

LEMMA EditKeepsEnvironment ==
    ASSUME EnvironmentInv, Navigate \/ EditSection \/ Reload
    PROVE  EnvironmentInv'
<1>1. EditorShape(editor)
  BY DEF EnvironmentInv
<1>2. CASE Navigate
  <2>1. PICK s : editor.open /\ Editing(Effect([editor EXCEPT !.active = s]))
    BY <1>2 DEF Navigate
  <2> DEFINE e == [editor EXCEPT !.active = s]
  <2>2. EditorShape(e) /\ Book(e) = Book(editor)
    BY <1>1 DEF EditorShape, Book
  <2> HIDE DEF e
  <2>3. EditorShape(Effect(e)) /\ Book(Effect(e)) = Book(editor)
    BY <2>2, EffectBook
  <2> QED BY <2>1, <2>3, BookKept DEF e
<1>3. CASE EditSection
  <2>1. \A c : LET e == [editor EXCEPT !.globalParameters = c] IN EditorShape(e) /\ Book(e) = Book(editor)
    BY <1>1 DEF EditorShape, Book
  <2>2. \A c : LET e == [editor EXCEPT !.text = c] IN EditorShape(e) /\ Book(e) = Book(editor)
    BY <1>1 DEF EditorShape, Book
  <2>3. \A c : LET e == [editor EXCEPT !.secretRefs = c] IN EditorShape(e) /\ Book(e) = Book(editor)
    BY <1>1 DEF EditorShape, Book
  <2>4. \E c : \/ Editing([editor EXCEPT !.globalParameters = c]) \/ Editing([editor EXCEPT !.text = c])
               \/ Editing([editor EXCEPT !.secretRefs = c])
    BY <1>3 DEF EditSection
  <2>5. editor.open
    BY <1>3 DEF EditSection
  <2> QED BY <2>1, <2>2, <2>3, <2>4, <2>5, BookKept
<1>4. CASE Reload
  <2> DEFINE job == [kind |-> "reload", read |-> FALSE]
             e == [editor EXCEPT !.job = job]
  <2>1. editor.open /\ ~Busy /\ Editing(e)
    BY <1>4 DEF Reload, Reloading
  <2>2. /\ EditorShape(e) /\ e.open = editor.open /\ e.doubt = editor.doubt /\ e.job.kind = "reload"
        /\ e.defaultVariables = editor.defaultVariables /\ e.defaultSecretRefs = editor.defaultSecretRefs
        /\ e.environments = editor.environments
    BY <1>1, JobSet DEF IsWrite
  <2> HIDE DEF e
  <2>3. KnowsStored(e, environment) /\ Remembers(e) /\ ~IsWrite(e.job)
    BY <2>1, <2>2 DEF EnvironmentInv, KnowsStored, Applied, IsWrite, Remembers, Busy, NoJob
  <2> QED BY <2>1, <2>2, <2>3, EditingKeeps
<1> QED BY <1>2, <1>3, <1>4

LEMMA DraftKeepsEnvironment ==
    ASSUME EnvironmentInv, AddEnvironment \/ RemoveDraft
    PROVE  EnvironmentInv'
<1>1. EditorShape(editor) /\ editor.open /\ editor.job = NoJob
  BY DEF EnvironmentInv, AddEnvironment, RemoveDraft, Busy
<1>5. EditorShape(editor)
  BY <1>1
<1>2. ASSUME NEW e, Editing(e) \/ Editing(Effect(e)), EditorShape(e),
             e.open = editor.open /\ e.doubt = editor.doubt /\ e.job = editor.job
             /\ e.defaultVariables = editor.defaultVariables /\ e.defaultSecretRefs = editor.defaultSecretRefs,
             \A id \in DOMAIN e.environments \ {Draft} :
                 id \in DOMAIN editor.environments /\ e.environments[id] = editor.environments[id]
      PROVE  EnvironmentInv'
  <2>1. KnowsStored(e, environment) /\ Remembers(e) /\ ~IsWrite(e.job)
    BY <1>1, <1>2 DEF EnvironmentInv, KnowsStored, Applied, IsWrite, Remembers, NoJob, Matches
  <2>2. CASE Editing(e)
    BY <1>1, <1>2, <2>1, <2>2, EditingKeeps
  <2>3. CASE Editing(Effect(e))
    <3>1. EditorShape(Effect(e)) /\ Book(Effect(e)) = Book(e)
      BY <1>2, EffectBook
    <3>2. KnowsStored(Effect(e), environment) /\ Remembers(Effect(e)) /\ Effect(e).open = e.open /\ Effect(e).job = e.job
      BY <2>1, <3>1, SameBook DEF Book
    <3> QED BY <1>1, <1>2, <2>1, <2>3, <3>1, <3>2, EditingKeeps
  <2> QED BY <1>2, <2>2, <2>3
<1>3. CASE AddEnvironment
  <2> DEFINE list == Adding(editor.environments, Draft, NoContent)
             e == [editor EXCEPT !.environments = list, !.active = Draft, !.text = NoContent]
  <2>1. Editing(e)
    BY <1>1, <1>3 DEF AddEnvironment, EditorShape
  <2> HIDE DEF list
  <2>3. e = WithList(editor, list, Draft, NoContent)
    BY DEF WithList
  <2>2. /\ EditorShape(e) /\ e.open = editor.open /\ e.doubt = editor.doubt /\ e.job = editor.job
        /\ e.defaultVariables = editor.defaultVariables /\ e.defaultSecretRefs = editor.defaultSecretRefs
        /\ e.environments = list
    <3> HIDE DEF e
    <3> QED BY <1>5, <2>3, ListSet
  <2> HIDE DEF e
  <2> QED BY <1>2, <2>1, <2>2, DraftOnly DEF list
<1>4. CASE RemoveDraft
  <2> DEFINE list == Dropping(editor.environments, Draft)
             e == [editor EXCEPT !.environments = list, !.active = "global-variables"]
  <2>1. Editing(Effect(e))
    BY <1>1, <1>4 DEF RemoveDraft, EditorShape
  <2> HIDE DEF list
  <2>3. e = WithList(editor, list, "global-variables", editor.text)
    BY <1>1 DEF EditorShape, WithList
  <2>2. /\ EditorShape(e) /\ e.open = editor.open /\ e.doubt = editor.doubt /\ e.job = editor.job
        /\ e.defaultVariables = editor.defaultVariables /\ e.defaultSecretRefs = editor.defaultSecretRefs
        /\ e.environments = list
    <3> HIDE DEF e
    <3> QED BY <1>5, <2>3, ListSet
  <2> HIDE DEF e
  <2> QED BY <1>2, <2>1, <2>2, DraftOnly DEF list
<1> QED BY <1>3, <1>4

(* A write is sent: without doubt, its other half is what is stored.       *)
LEMMA SendsKeeps ==
    ASSUME EnvironmentInv, editor.open, ~Busy, NEW job, Sends(job), WriteShape(job), job.stage # "done",
           job.kind = "save" => IF job.of = "vault" THEN job.variables = editor.defaultVariables
                                ELSE job.refs = editor.defaultSecretRefs
    PROVE  EnvironmentInv'
<1> DEFINE sent == [job EXCEPT !.doubt = editor.doubt]
           e == [editor EXCEPT !.job = sent]
<1>1. EditorShape(editor) /\ editor.job = NoJob /\ Editing(e)
  BY DEF EnvironmentInv, Busy, Sends
<1>2. /\ WriteShape(sent) /\ sent.kind = job.kind /\ sent.of = job.of /\ sent.variables = job.variables
      /\ sent.refs = job.refs /\ sent.stage = job.stage /\ sent.doubt = editor.doubt
  BY <1>1 DEF WriteShape, EditorShape
<1> HIDE DEF sent
<1>3. IsWrite(sent) /\ sent.kind # "none"
  BY <1>2 DEF WriteShape, IsWrite
<1>4. /\ EditorShape(e) /\ e.open = editor.open /\ e.doubt = editor.doubt /\ e.job = sent
      /\ e.defaultVariables = editor.defaultVariables /\ e.defaultSecretRefs = editor.defaultSecretRefs
      /\ e.environments = editor.environments
  BY <1>1, <1>2, <1>3, JobSet
<1> HIDE DEF e
<1>5. KnowsStored(e, environment) /\ Remembers(e)
  BY <1>1, <1>2, <1>4 DEF EnvironmentInv, KnowsStored, Applied, IsWrite, NoJob, Remembers
<1>6. Spares(sent)
  BY <1>1, <1>2 DEF EnvironmentInv, KnowsStored, Applied, IsWrite, NoJob, Matches, Spares
<1> QED BY <1>1, <1>4, <1>5, <1>6, EditingKeeps

LEMMA WriteIs ==
    ASSUME NEW kind \in {"save", "update", "create", "delete"}, NEW of, NEW variables, NEW refs
    PROVE  LET job == Write(kind, of, variables, refs) IN
           /\ WriteShape(job) /\ job.stage = "sent"
           /\ job.kind = kind /\ job.of = of /\ job.variables = variables /\ job.refs = refs
  BY DEF Write, WriteShape

LEMMA SaveKeepsEnvironment ==
    ASSUME EnvironmentInv, SaveCurrent \/ CopyEnvironment \/ RemoveEnvironment \/ PutSecret
    PROVE  EnvironmentInv'
<1>1. editor.open /\ ~Busy
  BY DEF SaveCurrent, CopyEnvironment, RemoveEnvironment, PutSecret
<1>2. CASE UNCHANGED <<environment, editor, left, overwritten>>
  BY <1>2 DEF EnvironmentInv, Jobs, Spares
<1>3. ASSUME NEW kind \in {"update", "create", "delete"}, NEW of, NEW variables,
             Sends(Write(kind, of, variables, {}))
      PROVE  EnvironmentInv'
  <2>1. LET job == Write(kind, of, variables, {}) IN WriteShape(job) /\ job.stage = "sent" /\ job.kind = kind
    BY WriteIs
  <2> QED BY <1>1, <1>3, <2>1, SendsKeeps
<1>4. CASE Sends(SaveVault(editor))
  <2>1. LET job == SaveVault(editor) IN
        WriteShape(job) /\ job.stage = "sent" /\ job.of = "vault" /\ job.variables = editor.defaultVariables
    BY WriteIs DEF SaveVault, WriteDefault
  <2> QED BY <1>1, <1>4, <2>1, SendsKeeps
<1>5. CASE Sends(SaveVariables(editor))
  <2>1. LET job == SaveVariables(editor) IN
        WriteShape(job) /\ job.stage = "sent" /\ job.of # "vault" /\ job.refs = editor.defaultSecretRefs
    BY WriteIs DEF SaveVariables, WriteDefault
  <2> QED BY <1>1, <1>5, <2>1, SendsKeeps
<1>6. CASE PutSecret
  <2> DEFINE refs(name) == editor.defaultSecretRefs \union {name}
             job(name) == WriteDefault("vault", editor.defaultVariables, refs(name))
  <2>1. PICK name \in Secrets : Sends([job(name) EXCEPT !.stage = "put"])
    BY <1>6 DEF PutSecret
  <2>2. /\ WriteShape(job(name)) /\ job(name).kind = "save" /\ job(name).of = "vault"
        /\ job(name).variables = editor.defaultVariables
    BY WriteIs DEF WriteDefault
  <2> HIDE DEF job
  <2>3. LET put == [job(name) EXCEPT !.stage = "put"] IN
        /\ WriteShape(put) /\ put.kind = "save" /\ put.of = "vault" /\ put.stage = "put"
        /\ put.variables = editor.defaultVariables
    BY <2>2 DEF WriteShape
  <2> QED BY <1>1, <2>1, <2>3, SendsKeeps
<1>7. CASE SaveCurrent
  <2>1. \/ UNCHANGED <<environment, editor, left, overwritten>>
        \/ Sends(SaveVault(editor)) \/ Sends(SaveVariables(editor))
        \/ Sends(Write("create", Draft, editor.text, {}))
        \/ Sends(Write("update", editor.active, editor.text, {}))
    BY <1>7 DEF SaveCurrent
  <2> QED BY <2>1, <1>2, <1>3, <1>4, <1>5
<1>8. CASE CopyEnvironment
  BY <1>3, <1>8 DEF CopyEnvironment
<1>9. CASE RemoveEnvironment
  BY <1>3, <1>9 DEF RemoveEnvironment
<1> QED BY <1>6, <1>7, <1>8, <1>9

-------------------------------------------------------------------------------
(* The answers of a reload.                                                *)

(* A dialog that has something under way is open.                          *)
LEMMA BusyIsOpen == EnvironmentInv /\ editor.job.kind # "none" => editor.open
  BY DEF EnvironmentInv, Closed, NoJob

LEMMA ReloadKeepsEnvironment ==
    ASSUME EnvironmentInv, NEW listOk, ReloadRead \/ ReloadAnswered(listOk) \/ ReloadFails
    PROVE  EnvironmentInv'
<1>1. EditorShape(editor)
  BY DEF EnvironmentInv
<1>2. editor.job.kind = "reload"
  BY DEF ReloadRead, ReloadAnswered, ReloadFails
<1>3. editor.open
  BY <1>2, BusyIsOpen
<1>4. ~editor.doubt => Matches(environment, editor.defaultVariables, editor.defaultSecretRefs, editor.environments)
  BY <1>2 DEF EnvironmentInv, KnowsStored, Applied, IsWrite
<1>5. ASSUME NEW job, job.kind \in {"none", "reload"}, job.kind = "none" => job = NoJob,
             Editing([editor EXCEPT !.job = job])
      PROVE  EnvironmentInv'
  <2> DEFINE e == [editor EXCEPT !.job = job]
  <2>1. /\ EditorShape(e) /\ e.open = editor.open /\ e.doubt = editor.doubt /\ e.job = job
        /\ e.defaultVariables = editor.defaultVariables /\ e.defaultSecretRefs = editor.defaultSecretRefs
        /\ e.environments = editor.environments
    BY <1>1, <1>5, JobSet DEF IsWrite
  <2>2. Editing(e)
    BY <1>5
  <2> HIDE DEF e
  <2>3. KnowsStored(e, environment) /\ Remembers(e) /\ ~IsWrite(e.job)
    BY <1>4, <1>5, <2>1 DEF KnowsStored, Applied, IsWrite, Remembers
  <2> QED BY <1>3, <2>1, <2>2, <2>3, EditingKeeps
<1>6. CASE ReloadRead
  BY <1>5, <1>6 DEF ReloadRead
<1>7. CASE ReloadFails
  BY <1>5, <1>7 DEF ReloadFails, NoJob
<1>8. CASE ReloadAnswered(listOk)
  <2> DEFINE got == editor.job.of
             list == IF listOk THEN got.resources ELSE <<>>
             doubt == got # environment
             e == [editor EXCEPT !.environments = list, !.defaultVariables = got.variables,
                                 !.defaultSecretRefs = got.refs, !.doubt = doubt, !.job = NoJob]
  <2>1. Editing(Effect(e))
    BY <1>8 DEF ReloadAnswered
  <2>2. /\ EditorShape(e) /\ e.open = editor.open /\ e.doubt = doubt /\ e.job = NoJob
        /\ e.defaultVariables = got.variables /\ e.defaultSecretRefs = got.refs /\ e.environments = list
    <3>3. doubt \in BOOLEAN
      OBVIOUS
    <3> HIDE DEF list, got, doubt
    <3>4. e = [editor EXCEPT !.environments = list, !.defaultVariables = got.variables,
                             !.defaultSecretRefs = got.refs, !.doubt = doubt, !.job = NoJob]
      OBVIOUS
    <3> HIDE DEF e
    <3>1. e = [open |-> editor.open, environments |-> list, defaultVariables |-> got.variables,
               defaultSecretRefs |-> got.refs, active |-> editor.active, text |-> editor.text,
               globalParameters |-> editor.globalParameters, secretRefs |-> editor.secretRefs, job |-> NoJob,
               doubt |-> doubt]
      BY <1>1, <3>4 DEF EditorShape
    <3>2. editor.open \in BOOLEAN
      BY <1>1 DEF EditorShape
    <3> QED BY <3>1, <3>2, <3>3 DEF EditorShape, IsWrite, NoJob
  <2> HIDE DEF e
  <2>7. ~e.doubt => got = environment
    BY <2>2
  <2>8. DOMAIN <<>> = {}
    OBVIOUS
  <2> HIDE DEF got, doubt
  <2>9. \A id \in DOMAIN list : id \in DOMAIN got.resources /\ list[id] = got.resources[id]
    BY <2>8
  <2>10. ~IsWrite(e.job) /\ Remembers(e)
    BY <2>2 DEF IsWrite, NoJob, Remembers
  <2> HIDE DEF list
  <2>3. KnowsStored(e, environment) /\ Remembers(e) /\ ~IsWrite(e.job)
    BY <2>2, <2>7, <2>9, <2>10 DEF KnowsStored, Applied, Matches
  <2>4. EditorShape(Effect(e)) /\ Book(Effect(e)) = Book(e)
    BY <2>2, EffectBook
  <2>5. KnowsStored(Effect(e), environment) /\ Remembers(Effect(e)) /\ Effect(e).open = e.open /\ Effect(e).job = e.job
    BY <2>3, <2>4, SameBook DEF Book
  <2>6. Effect(e).open
    BY <1>3, <2>2, <2>5
  <2> QED BY <2>1, <2>3, <2>4, <2>5, <2>6, EditingKeeps
<1> QED BY <1>6, <1>7, <1>8

-------------------------------------------------------------------------------
(* The answer of a write: the dialog shows what KnowsStored said it would.       *)
LEMMA AfterAnswerIs ==
    ASSUME NEW e, EditorShape(e), NEW job, WriteShape(job)
    PROVE  /\ EditorShape(AfterAnswer(e, job))
           /\ Book(AfterAnswer(e, job)) =
                <<e.open, ListAfter(e, job), VariablesAfter(e, job), RefsAfter(e, job), e.job, e.doubt>>
<1> DEFINE Into(list, variables, refs, active, secretRefs) ==
             [e EXCEPT !.environments = list, !.defaultVariables = variables, !.defaultSecretRefs = refs,
                       !.active = active, !.secretRefs = secretRefs]
<1>1. ASSUME NEW list, NEW variables, NEW refs, NEW active, NEW secretRefs,
             AfterAnswer(e, job) = Effect(Into(list, variables, refs, active, secretRefs))
      PROVE  /\ EditorShape(AfterAnswer(e, job))
             /\ Book(AfterAnswer(e, job)) = <<e.open, list, variables, refs, e.job, e.doubt>>
  <2> DEFINE d == Into(list, variables, refs, active, secretRefs)
  <2>1. d = [open |-> e.open, environments |-> list, defaultVariables |-> variables,
             defaultSecretRefs |-> refs, active |-> active, text |-> e.text,
             globalParameters |-> e.globalParameters, secretRefs |-> secretRefs, job |-> e.job, doubt |-> e.doubt]
    <3>1. d = [e EXCEPT !.environments = list, !.defaultVariables = variables, !.defaultSecretRefs = refs,
                        !.active = active, !.secretRefs = secretRefs]
      OBVIOUS
    <3> HIDE DEF d
    <3> QED BY <3>1 DEF EditorShape
  <2>2. AfterAnswer(e, job) = Effect(d)
    BY <1>1
  <2> HIDE DEF d
  <2>3. EditorShape(d) /\ Book(d) = <<e.open, list, variables, refs, e.job, e.doubt>>
    BY <2>1 DEF EditorShape, Book
  <2> QED BY <2>2, <2>3, EffectBook
<1>2. CASE job.kind = "save" /\ job.of = "vault"
  <2>1. AfterAnswer(e, job) = Effect(Into(e.environments, e.defaultVariables, job.refs, e.active, job.refs))
    <3>1. [e EXCEPT !.defaultSecretRefs = job.refs, !.secretRefs = job.refs] =
            Into(e.environments, e.defaultVariables, job.refs, e.active, job.refs)
      BY DEF EditorShape
    <3> QED BY <1>2, <3>1 DEF AfterAnswer
  <2> HIDE DEF Into
  <2> QED BY <1>1, <1>2, <2>1 DEF ListAfter, VariablesAfter, RefsAfter
<1>3. CASE job.kind = "save" /\ job.of # "vault"
  <2>1. AfterAnswer(e, job) = Effect(Into(e.environments, job.variables, e.defaultSecretRefs, e.active, e.secretRefs))
    <3>1. [e EXCEPT !.defaultVariables = job.variables] =
            Into(e.environments, job.variables, e.defaultSecretRefs, e.active, e.secretRefs)
      BY DEF EditorShape
    <3> QED BY <1>3, <3>1 DEF AfterAnswer
  <2> HIDE DEF Into
  <2> QED BY <1>1, <1>3, <2>1 DEF ListAfter, VariablesAfter, RefsAfter
<1>4. CASE job.kind = "update"
  <2> DEFINE list == [e.environments EXCEPT ![job.of] = job.variables]
  <2>1. AfterAnswer(e, job) = Effect(Into(list, e.defaultVariables, e.defaultSecretRefs, e.active, e.secretRefs))
    <3>1. [e EXCEPT !.environments[job.of] = job.variables] = [e EXCEPT !.environments = list]
      BY DEF EditorShape
    <3> HIDE DEF list
    <3>2. [e EXCEPT !.environments = list] =
            Into(list, e.defaultVariables, e.defaultSecretRefs, e.active, e.secretRefs)
      BY DEF EditorShape
    <3> QED BY <1>4, <3>1, <3>2 DEF AfterAnswer
  <2> HIDE DEF Into
  <2> QED BY <1>1, <1>4, <2>1 DEF ListAfter, VariablesAfter, RefsAfter
<1>5. CASE job.kind = "create"
  <2> DEFINE list == Adding(IF job.of = Draft THEN Dropping(e.environments, Draft) ELSE e.environments,
                            job.made, job.variables)
  <2>1. AfterAnswer(e, job) = Effect(Into(list, e.defaultVariables, e.defaultSecretRefs, job.made, e.secretRefs))
    <3>1. AfterAnswer(e, job) = Effect([e EXCEPT !.active = job.made, !.environments = list])
      BY <1>5 DEF AfterAnswer, EditorShape
    <3> HIDE DEF list
    <3>2. [e EXCEPT !.active = job.made, !.environments = list] =
            Into(list, e.defaultVariables, e.defaultSecretRefs, job.made, e.secretRefs)
      BY DEF EditorShape
    <3> QED BY <3>1, <3>2
  <2> HIDE DEF Into
  <2> QED BY <1>1, <1>5, <2>1 DEF ListAfter, VariablesAfter, RefsAfter
<1>6. CASE job.kind = "delete"
  <2> DEFINE list == Dropping(e.environments, job.of)
  <2>1. AfterAnswer(e, job) =
          Effect(Into(list, e.defaultVariables, e.defaultSecretRefs, "global-variables", e.secretRefs))
    <3>1. AfterAnswer(e, job) = Effect([e EXCEPT !.environments = list, !.active = "global-variables"])
      BY <1>6 DEF AfterAnswer, EditorShape
    <3> HIDE DEF list
    <3>2. [e EXCEPT !.environments = list, !.active = "global-variables"] =
            Into(list, e.defaultVariables, e.defaultSecretRefs, "global-variables", e.secretRefs)
      BY DEF EditorShape
    <3> QED BY <3>1, <3>2
  <2> HIDE DEF Into
  <2> QED BY <1>1, <1>6, <2>1 DEF ListAfter, VariablesAfter, RefsAfter
<1> QED BY <1>2, <1>3, <1>4, <1>5, <1>6 DEF WriteShape

LEMMA AnswerKeepsEnvironment == ASSUME EnvironmentInv, JobAnswered PROVE EnvironmentInv'
<1> DEFINE job == editor.job
           after == AfterAnswer(editor, job)
           e == [after EXCEPT !.job = NoJob]
<1>1. EditorShape(editor) /\ IsWrite(job) /\ WriteShape(job) /\ Applied(editor) /\ Editing(e)
  BY DEF EnvironmentInv, EditorShape, JobAnswered, IsWrite, Applied
<1>2. editor.open
  BY <1>1, BusyIsOpen DEF IsWrite
<1>3. /\ EditorShape(after)
      /\ Book(after) = <<editor.open, ListAfter(editor, job), VariablesAfter(editor, job), RefsAfter(editor, job),
                         job, editor.doubt>>
  BY <1>1, AfterAnswerIs
<1> HIDE DEF after
<1>4. /\ EditorShape(e) /\ e.open = editor.open /\ e.doubt = editor.doubt /\ e.job = NoJob
      /\ e.defaultVariables = VariablesAfter(editor, job) /\ e.defaultSecretRefs = RefsAfter(editor, job)
      /\ e.environments = ListAfter(editor, job)
  <2>1. /\ EditorShape(e) /\ e.open = after.open /\ e.doubt = after.doubt /\ e.job = NoJob
        /\ e.defaultVariables = after.defaultVariables /\ e.defaultSecretRefs = after.defaultSecretRefs
        /\ e.environments = after.environments
    BY <1>3, JobSet DEF IsWrite, NoJob
  <2> HIDE DEF e
  <2> QED BY <1>3, <2>1 DEF Book
<1> HIDE DEF e
<1>5. KnowsStored(e, environment) /\ Remembers(e) /\ ~IsWrite(e.job)
  BY <1>1, <1>4 DEF EnvironmentInv, KnowsStored, Applied, IsWrite, NoJob, Remembers
<1>6. e.open
  BY <1>2, <1>4
<1> QED BY <1>1, <1>4, <1>5, <1>6, EditingKeeps

-------------------------------------------------------------------------------
(* The writes under way, of the dialog and of those before it.             *)

LEMMA JobIsWrite ==
    ASSUME EnvironmentInv, NEW job \in Jobs
    PROVE  /\ WriteShape(job) /\ IsWrite(job)
           /\ job \notin left => job = editor.job
           /\ job = editor.job => editor.open
  BY BusyIsOpen DEF EnvironmentInv, EditorShape, Jobs, IsWrite, WriteShape

LEMMA StageSet ==
    ASSUME NEW job, WriteShape(job)
    PROVE  LET sent == [job EXCEPT !.stage = "sent"] IN
           /\ WriteShape(sent) /\ sent.kind = job.kind /\ sent.of = job.of /\ sent.variables = job.variables
           /\ sent.refs = job.refs /\ sent.doubt = job.doubt /\ sent.stage = "sent"
  BY DEF WriteShape

LEMMA LeftIsSound ==
    ASSUME EnvironmentInv
    PROVE  \A job \in left : WriteShape(job) /\ job.stage # "done" /\ Spares(job)
  BY DEF EnvironmentInv, Jobs

LEMMA SecretKeeps == ASSUME EnvironmentInv, SecretStored PROVE EnvironmentInv'
<1>1. PICK job \in Jobs :
         /\ job.stage = "put"
         /\ IF job = editor.job THEN /\ editor' = [editor EXCEPT !.job.stage = "sent"] /\ UNCHANGED left
            ELSE /\ left' = (left \ {job}) \union {[job EXCEPT !.stage = "sent"]} /\ UNCHANGED editor
  BY DEF SecretStored
<1>2. UNCHANGED <<environment, overwritten>>
  BY DEF SecretStored
<1> DEFINE sent == [job EXCEPT !.stage = "sent"]
<1>3. /\ WriteShape(sent) /\ sent.kind = job.kind /\ sent.of = job.of /\ sent.variables = job.variables
      /\ sent.refs = job.refs /\ sent.doubt = job.doubt /\ sent.stage = "sent"
  BY JobIsWrite, StageSet
<1>4. WriteShape(job) /\ IsWrite(job) /\ Spares(job)
  BY <1>1, JobIsWrite DEF EnvironmentInv
<1>5. Spares(sent) /\ IsWrite(sent) /\ sent.kind # "none"
  BY <1>3, <1>4 DEF Spares, IsWrite
<1>6. CASE job = editor.job
  <2> DEFINE e == [editor EXCEPT !.job = sent]
  <2>1. editor' = e /\ UNCHANGED left
    BY <1>1, <1>6 DEF EnvironmentInv, EditorShape
  <2>2. editor.open /\ EditorShape(editor)
    BY <1>6, JobIsWrite DEF EnvironmentInv
  <2> HIDE DEF sent
  <2>3. EditorShape(editor)
    BY <2>2
  <2>4. /\ EditorShape(e) /\ e.open = editor.open /\ e.doubt = editor.doubt /\ e.job = sent
        /\ e.defaultVariables = editor.defaultVariables /\ e.defaultSecretRefs = editor.defaultSecretRefs
        /\ e.environments = editor.environments
    BY <1>3, <1>5, <2>3, JobSet
  <2> HIDE DEF e
  <2>5. KnowsStored(e, environment) /\ Remembers(e)
    BY <1>1, <1>3, <1>6, <2>4 DEF EnvironmentInv, KnowsStored, Applied, Remembers
  <2>6. e.open
    BY <2>2, <2>4
  <2> QED BY <1>2, <1>5, <2>1, <2>4, <2>5, <2>6, LeftIsSound, StoreKept
<1>7. CASE job # editor.job
  <2> HIDE DEF sent
  <2>1. left' = (left \ {job}) \union {sent} /\ UNCHANGED editor
    BY <1>1, <1>7 DEF sent
  <2>2. \A other \in left' : WriteShape(other) /\ other.stage # "done" /\ Spares(other)
    BY <1>3, <1>5, <2>1, LeftIsSound
  <2>3. IsWrite(editor.job) /\ editor.job.stage # "done" => Spares(editor.job)
    BY DEF EnvironmentInv, Jobs, IsWrite
  <2> QED BY <1>2, <2>1, <2>2, <2>3, StoreKept DEF EnvironmentInv
<1> QED BY <1>6, <1>7

(* A write ends without having been applied, or without its answer.        *)
LEMMA JobLost ==
    ASSUME EnvironmentInv, NEW job \in Jobs, UNCHANGED <<environment, overwritten>>,
           \/ job = editor.job /\ job.stage # "done" /\ editor' = [editor EXCEPT !.job = NoJob] /\ UNCHANGED left
           \/ job = editor.job /\ UNCHANGED left
              /\ editor' = [editor EXCEPT !.job = NoJob, !.doubt = @ \/ job.stage = "done"]
           \/ left' = left \ {job} /\ UNCHANGED editor
    PROVE  EnvironmentInv'
<1> DEFINE d == [editor EXCEPT !.job = NoJob]
           doubt == editor.doubt \/ job.stage = "done"
           e == [d EXCEPT !.doubt = doubt]
<1>1. EditorShape(editor)
  BY DEF EnvironmentInv
<1>2. /\ EditorShape(d) /\ d.open = editor.open /\ d.doubt = editor.doubt /\ d.job = NoJob
      /\ d.defaultVariables = editor.defaultVariables /\ d.defaultSecretRefs = editor.defaultSecretRefs
      /\ d.environments = editor.environments
  BY <1>1, JobSet DEF IsWrite, NoJob
<1>3. CASE left' = left \ {job} /\ UNCHANGED editor
  <2>1. IsWrite(editor.job) /\ editor.job.stage # "done" => Spares(editor.job)
    BY DEF EnvironmentInv, Jobs, IsWrite
  <2>2. \A other \in left' : WriteShape(other) /\ other.stage # "done" /\ Spares(other)
    BY <1>3, LeftIsSound
  <2> QED BY <1>3, <2>1, <2>2, StoreKept DEF EnvironmentInv
<1>4. CASE job = editor.job /\ job.stage # "done" /\ editor' = d /\ UNCHANGED left
  <2> HIDE DEF d
  <2>1. KnowsStored(d, environment) /\ Remembers(d) /\ ~IsWrite(d.job)
    BY <1>2, <1>4 DEF EnvironmentInv, KnowsStored, Applied, IsWrite, NoJob, Remembers
  <2>2. d.open
    BY <1>2, <1>4, JobIsWrite
  <2> QED BY <1>2, <1>4, <2>1, <2>2, LeftIsSound, StoreKept
<1>5. CASE job = editor.job /\ UNCHANGED left
           /\ editor' = [editor EXCEPT !.job = NoJob, !.doubt = @ \/ job.stage = "done"]
  <2>1. editor' = e
    BY <1>1, <1>5 DEF EditorShape
  <2>2. doubt \in BOOLEAN /\ (~doubt => ~editor.doubt /\ job.stage # "done")
    BY <1>1 DEF EditorShape
  <2> HIDE DEF d, doubt
  <2>3. /\ EditorShape(e) /\ e.open = d.open /\ e.doubt = doubt /\ e.job = d.job
        /\ e.defaultVariables = d.defaultVariables /\ e.defaultSecretRefs = d.defaultSecretRefs
        /\ e.environments = d.environments
    BY <1>2, <2>2, DoubtSet
  <2> HIDE DEF e
  <2>4. KnowsStored(e, environment) /\ Remembers(e) /\ ~IsWrite(e.job)
    BY <1>2, <1>5, <2>2, <2>3 DEF EnvironmentInv, KnowsStored, Applied, IsWrite, NoJob, Remembers
  <2>5. e.open
    BY <1>2, <1>5, <2>3, JobIsWrite
  <2> QED BY <1>5, <2>1, <2>3, <2>4, <2>5, LeftIsSound, StoreKept
<1> QED BY <1>3, <1>4, <1>5

LEMMA RefusedKeeps == ASSUME EnvironmentInv, NEW desktop, JobRefused(desktop) \/ JobFails PROVE EnvironmentInv'
<1>1. UNCHANGED <<environment, overwritten>>
  BY DEF JobRefused, JobFails
<1>2. CASE JobRefused(desktop)
  <2>1. PICK job \in Jobs : job.stage = "sent" /\ Moved(job, NoJob)
    BY <1>2 DEF JobRefused
  <2> QED BY <1>1, <2>1, JobLost DEF Moved
<1>3. CASE JobFails
  <2>1. PICK job \in Jobs :
          IF job = editor.job
          THEN /\ editor' = [editor EXCEPT !.job = NoJob, !.doubt = @ \/ job.stage = "done"]
               /\ UNCHANGED left
          ELSE Moved(job, NoJob)
    BY <1>3 DEF JobFails
  <2> QED BY <1>1, <2>1, JobLost DEF Moved
<1> QED BY <1>2, <1>3

-------------------------------------------------------------------------------
(* The dialog opens without knowing anything, and leaves its write behind. *)
LEMMA OpenSet ==
    ASSUME NEW e, EditorShape(e), NEW open \in BOOLEAN, NEW p
    PROVE  LET d == [e EXCEPT !.open = open, !.globalParameters = p] IN
           EditorShape(d) /\ d.open = open /\ d.doubt = e.doubt /\ d.job = e.job
<1> DEFINE c == [e EXCEPT !.open = open]
           d == [e EXCEPT !.open = open, !.globalParameters = p]
<1>1. c = [e EXCEPT !.open = open] /\ d = [c EXCEPT !.globalParameters = p]
  OBVIOUS
<1> HIDE DEF c, d
<1>2. c = [open |-> open, environments |-> e.environments, defaultVariables |-> e.defaultVariables,
           defaultSecretRefs |-> e.defaultSecretRefs, active |-> e.active, text |-> e.text,
           globalParameters |-> e.globalParameters, secretRefs |-> e.secretRefs, job |-> e.job, doubt |-> e.doubt]
  BY <1>1 DEF EditorShape
<1>3. d = [open |-> open, environments |-> e.environments, defaultVariables |-> e.defaultVariables,
           defaultSecretRefs |-> e.defaultSecretRefs, active |-> e.active, text |-> e.text,
           globalParameters |-> p, secretRefs |-> e.secretRefs, job |-> e.job, doubt |-> e.doubt]
  BY <1>1, <1>2
<1> QED BY <1>3 DEF EditorShape, d

LEMMA OpenKeeps == ASSUME EnvironmentInv, OpenEnvironment PROVE EnvironmentInv'
<1> DEFINE loading == [kind |-> "reload", read |-> FALSE]
           f == [Closed EXCEPT !.open = TRUE, !.globalParameters = parameters]
           e == [f EXCEPT !.job = loading]
<1>1. Editing(e)
  BY DEF OpenEnvironment, Reloading
<1>2. EditorShape(Closed) /\ Closed.doubt = TRUE
  BY DEF EditorShape, Closed, NoJob, IsWrite
<1>3. EditorShape(f) /\ f.open = TRUE /\ f.doubt = Closed.doubt
  BY <1>2, OpenSet
<1>4. loading.kind = "reload"
  OBVIOUS
<1> HIDE DEF f, loading
<1>5. EditorShape(e) /\ e.open = f.open /\ e.doubt = f.doubt /\ e.job = loading
  BY <1>3, <1>4, JobSet DEF IsWrite
<1> HIDE DEF e
<1>6. KnowsStored(e, environment) /\ Remembers(e) /\ ~IsWrite(e.job)
  BY <1>2, <1>3, <1>4, <1>5 DEF KnowsStored, Remembers, IsWrite
<1> QED BY <1>1, <1>3, <1>5, <1>6, EditingKeeps

LEMMA CloseKeeps == ASSUME EnvironmentInv, CloseEnvironment PROVE EnvironmentInv'
<1>1. EditorShape(Closed) /\ KnowsStored(Closed, environment) /\ Remembers(Closed) /\ ~IsWrite(Closed.job)
  BY DEF EditorShape, Closed, NoJob, IsWrite, KnowsStored, Remembers
<1>2. \A job \in Remaining : WriteShape(job) /\ job.stage # "done" /\ Spares(job)
  BY DEF Remaining, EnvironmentInv, EditorShape, IsWrite, Jobs
<1>3. editor' = Closed /\ left' = left \union Remaining /\ UNCHANGED <<environment, overwritten>>
  BY DEF CloseEnvironment
<1> QED BY <1>1, <1>2, <1>3, LeftIsSound, StoreKept

-------------------------------------------------------------------------------
(* A write is applied: it brings the store where the dialog that sent it   *)
(* expects it, and every other one in doubt.                               *)

LEMMA NewIdIsNew ==
    ASSUME EnvironmentInv, DOMAIN environment.resources # Resources
    PROVE  NewId \in Resources /\ NewId \notin DOMAIN environment.resources
<1>1. \E id \in Resources : id \notin DOMAIN environment.resources
  BY DEF EnvironmentInv, EnvironmentShape
<1> QED BY <1>1 DEF NewId

LEMMA WrittenShape ==
    ASSUME EnvironmentInv, NEW job, WriteShape(job), Room(job)
    PROVE  /\ EnvironmentShape(Written(job))
           /\ Written(job).variables = IF job.kind = "save" THEN job.variables ELSE environment.variables
           /\ Written(job).refs = IF job.kind = "save" THEN job.refs ELSE environment.refs
           /\ Written(job).resources =
                CASE job.kind = "update" -> [environment.resources EXCEPT ![job.of] = job.variables]
                  [] job.kind = "create" -> Adding(environment.resources, NewId, job.variables)
                  [] job.kind = "delete" -> Dropping(environment.resources, job.of)
                  [] OTHER -> environment.resources
<1>1. EnvironmentShape(environment)
  BY DEF EnvironmentInv
<1>2. CASE job.kind = "save"
  <2>1. Written(job) = [environment EXCEPT !.variables = job.variables, !.refs = job.refs]
    BY <1>2 DEF Written
  <2> QED BY <1>1, <1>2, <2>1 DEF EnvironmentShape
<1>3. ASSUME NEW resources, Written(job) = [environment EXCEPT !.resources = resources],
             DOMAIN resources \subseteq Resources
      PROVE  /\ EnvironmentShape(Written(job)) /\ Written(job).resources = resources
             /\ Written(job).variables = environment.variables /\ Written(job).refs = environment.refs
  BY <1>1, <1>3 DEF EnvironmentShape
<1>4. CASE job.kind = "update"
  <2> DEFINE resources == [environment.resources EXCEPT ![job.of] = job.variables]
  <2>1. Written(job) = [environment EXCEPT !.resources = resources]
    BY <1>1, <1>4 DEF Written, EnvironmentShape
  <2>2. DOMAIN resources \subseteq Resources
    BY <1>1 DEF EnvironmentShape
  <2> QED BY <1>3, <1>4, <2>1, <2>2
<1>5. CASE job.kind = "create"
  <2> DEFINE resources == Adding(environment.resources, NewId, job.variables)
  <2>1. Written(job) = [environment EXCEPT !.resources = resources]
    BY <1>1, <1>5 DEF Written, EnvironmentShape
  <2>2. DOMAIN resources \subseteq Resources
    BY <1>1, <1>5, NewIdIsNew DEF EnvironmentShape, Adding, Room
  <2> QED BY <1>3, <1>5, <2>1, <2>2
<1>6. CASE job.kind = "delete"
  <2> DEFINE resources == Dropping(environment.resources, job.of)
  <2>1. Written(job) = [environment EXCEPT !.resources = resources]
    BY <1>1, <1>6 DEF Written, EnvironmentShape
  <2>2. DOMAIN resources \subseteq Resources
    BY <1>1 DEF EnvironmentShape, Dropping
  <2> QED BY <1>3, <1>6, <2>1, <2>2
<1> QED BY <1>2, <1>4, <1>5, <1>6, <1>3 DEF WriteShape

LEMMA WrittenIsKnown ==
    ASSUME EnvironmentInv, NEW job, WriteShape(job), Room(job), NEW e,
           Matches(environment, e.defaultVariables, e.defaultSecretRefs, e.environments),
           job.kind = "save" => IF job.of = "vault" THEN job.variables = e.defaultVariables
                                ELSE job.refs = e.defaultSecretRefs,
           NEW done, done.kind = job.kind, done.of = job.of, done.variables = job.variables,
           done.refs = job.refs, done.made = Made(job)
    PROVE  Matches(Written(job), VariablesAfter(e, done), RefsAfter(e, done), ListAfter(e, done))
<1> DEFINE next == Written(job)
<1>1. VariablesAfter(e, done) = next.variables /\ RefsAfter(e, done) = next.refs
  BY WrittenShape DEF VariablesAfter, RefsAfter, Matches
<1>2. ASSUME NEW id \in DOMAIN ListAfter(e, done) \ {Draft}
      PROVE  id \in DOMAIN next.resources /\ ListAfter(e, done)[id] = next.resources[id]
  <2>1. \A i \in DOMAIN e.environments \ {Draft} :
           i \in DOMAIN environment.resources /\ e.environments[i] = environment.resources[i]
    BY DEF Matches
  <2>2. CASE job.kind = "save"
    <3>1. next.resources = environment.resources /\ ListAfter(e, done) = e.environments
      BY <2>2, WrittenShape DEF ListAfter
    <3> QED BY <1>2, <2>1, <3>1
  <2>3. CASE job.kind = "update"
    <3>1. /\ next.resources = [environment.resources EXCEPT ![job.of] = job.variables]
          /\ ListAfter(e, done) = [e.environments EXCEPT ![job.of] = job.variables]
      BY <2>3, WrittenShape DEF ListAfter
    <3> HIDE DEF next
    <3> QED BY <1>2, <2>1, <3>1
  <2>4. CASE job.kind = "create"
    <3>1. /\ next.resources = Adding(environment.resources, NewId, job.variables)
          /\ done.made = NewId
      BY <2>4, WrittenShape DEF Made
    <3>2. ListAfter(e, done) = Adding(IF job.of = Draft THEN Dropping(e.environments, Draft) ELSE e.environments,
                                      NewId, job.variables)
      BY <2>4, <3>1 DEF ListAfter
    <3>3. NewId \notin DOMAIN environment.resources
      BY <2>4, NewIdIsNew DEF Room
    <3> HIDE DEF next
    <3> QED BY <1>2, <2>1, <3>1, <3>2, <3>3 DEF Adding, Dropping
  <2>5. CASE job.kind = "delete"
    <3>1. /\ next.resources = Dropping(environment.resources, job.of)
          /\ ListAfter(e, done) = Dropping(e.environments, job.of)
      BY <2>5, WrittenShape DEF ListAfter
    <3> HIDE DEF next
    <3> QED BY <1>2, <2>1, <3>1 DEF Dropping
  <2> QED BY <2>2, <2>3, <2>4, <2>5 DEF WriteShape
<1> QED BY <1>1, <1>2 DEF Matches

(* The fields that a write changes on its way.                             *)
LEMMA WriteFields ==
    ASSUME NEW job, job = [kind |-> job.kind, of |-> job.of, variables |-> job.variables, refs |-> job.refs,
                           stage |-> job.stage, doubt |-> job.doubt, made |-> job.made],
           NEW doubt, NEW d, d = [job EXCEPT !.doubt = doubt]
    PROVE  d = [kind |-> job.kind, of |-> job.of, variables |-> job.variables, refs |-> job.refs,
                stage |-> job.stage, doubt |-> doubt, made |-> job.made]
  OBVIOUS

LEMMA DoneFields ==
    ASSUME NEW job, job = [kind |-> job.kind, of |-> job.of, variables |-> job.variables, refs |-> job.refs,
                           stage |-> job.stage, doubt |-> job.doubt, made |-> job.made],
           NEW stage, NEW made, NEW d, d = [job EXCEPT !.made = made, !.stage = stage]
    PROVE  d = [kind |-> job.kind, of |-> job.of, variables |-> job.variables, refs |-> job.refs,
                stage |-> stage, doubt |-> job.doubt, made |-> made]
<1> DEFINE c == [job EXCEPT !.made = made]
<1>1. c = [job EXCEPT !.made = made] /\ d = [c EXCEPT !.stage = stage]
  OBVIOUS
<1> HIDE DEF c
<1>2. c = [kind |-> job.kind, of |-> job.of, variables |-> job.variables, refs |-> job.refs,
           stage |-> job.stage, doubt |-> job.doubt, made |-> made]
  BY <1>1
<1> QED BY <1>1, <1>2

LEMMA DoubtedShape ==
    ASSUME NEW job, WriteShape(job)
    PROVE  LET d == [job EXCEPT !.doubt = TRUE] IN
           /\ WriteShape(d) /\ d.kind = job.kind /\ d.of = job.of /\ d.variables = job.variables
           /\ d.refs = job.refs /\ d.stage = job.stage /\ d.doubt
<1> DEFINE d == [job EXCEPT !.doubt = TRUE]
<1>1. d = [kind |-> job.kind, of |-> job.of, variables |-> job.variables, refs |-> job.refs,
           stage |-> job.stage, doubt |-> TRUE, made |-> job.made]
  <2>1. job = [kind |-> job.kind, of |-> job.of, variables |-> job.variables, refs |-> job.refs,
               stage |-> job.stage, doubt |-> job.doubt, made |-> job.made]
    BY DEF WriteShape
  <2> QED BY <2>1, WriteFields, Zenon
<1> HIDE DEF d
<1>2. /\ d.kind = job.kind /\ d.of = job.of /\ d.variables = job.variables /\ d.refs = job.refs
      /\ d.stage = job.stage /\ d.doubt = TRUE /\ d.made = job.made
  BY <1>1
<1>3. WriteShape(d)
  BY <1>1, <1>2 DEF WriteShape
<1> QED BY <1>2, <1>3 DEF d

LEMMA DoneShape ==
    ASSUME NEW job, WriteShape(job), NEW made
    PROVE  LET d == [job EXCEPT !.made = made, !.stage = "done"] IN
           /\ WriteShape(d) /\ d.kind = job.kind /\ d.of = job.of /\ d.variables = job.variables
           /\ d.refs = job.refs /\ d.stage = "done" /\ d.made = made
<1> DEFINE d == [job EXCEPT !.made = made, !.stage = "done"]
<1>1. d = [kind |-> job.kind, of |-> job.of, variables |-> job.variables, refs |-> job.refs,
           stage |-> "done", doubt |-> job.doubt, made |-> made]
  <2>1. job = [kind |-> job.kind, of |-> job.of, variables |-> job.variables, refs |-> job.refs,
               stage |-> job.stage, doubt |-> job.doubt, made |-> job.made]
    BY DEF WriteShape
  <2> QED BY <2>1, DoneFields, Zenon
<1> HIDE DEF d
<1>2. /\ d.kind = job.kind /\ d.of = job.of /\ d.variables = job.variables /\ d.refs = job.refs
      /\ d.stage = "done" /\ d.doubt = job.doubt /\ d.made = made
  BY <1>1
<1>3. WriteShape(d)
  BY <1>1, <1>2 DEF WriteShape
<1> QED BY <1>2, <1>3 DEF d

LEMMA DoubtedIsSound ==
    ASSUME NEW jobs, \A job \in jobs : WriteShape(job) /\ job.stage # "done"
    PROVE  \A job \in Doubted(jobs) : WriteShape(job) /\ job.stage # "done" /\ job.doubt
<1> SUFFICES ASSUME NEW job \in jobs
             PROVE  LET d == [job EXCEPT !.doubt = TRUE] IN WriteShape(d) /\ d.stage # "done" /\ d.doubt
  BY DEF Doubted
<1> QED BY DoubtedShape

LEMMA AppliedKeeps == ASSUME EnvironmentInv, NEW desktop, JobApplied(desktop) PROVE EnvironmentInv'
<1>1. PICK job \in Jobs :
        /\ job.stage = "sent" /\ Room(job)
        /\ environment' = Written(job)
        /\ overwritten' = (overwritten \/ ~Spares(job))
        /\ IF job = editor.job
           THEN /\ editor' = [editor EXCEPT !.job = [job EXCEPT !.made = Made(job), !.stage = "done"]]
                /\ left' = Doubted(left)
           ELSE /\ left' = Doubted(left \ {job})
                /\ editor' = IF ~editor.open THEN editor
                             ELSE IF editor.job.kind \in {"none", "reload"}
                                  THEN [editor EXCEPT !.doubt = TRUE]
                                  ELSE [editor EXCEPT !.doubt = TRUE, !.job.doubt = TRUE]
  BY DEF JobApplied
<1>2. WriteShape(job) /\ IsWrite(job) /\ Spares(job)
  BY <1>1, JobIsWrite DEF EnvironmentInv
<1>3. EnvironmentShape(environment)' /\ ~overwritten'
  BY <1>1, <1>2, WrittenShape DEF EnvironmentInv
<1>4. \A other \in left' : WriteShape(other) /\ other.stage # "done" /\ other.doubt
  BY <1>1, LeftIsSound, DoubtedIsSound
<1>5. EditorShape(editor)
  BY DEF EnvironmentInv
<1>6. ASSUME NEW e, editor' = e, EditorShape(e), KnowsStored(e, environment'), Remembers(e), ~e.open => e = Closed,
             IsWrite(e.job) /\ e.job.stage # "done" => e.job.doubt
      PROVE  EnvironmentInv'
  <2>1. ASSUME NEW other \in Jobs', other.stage # "done" PROVE Spares(other)'
    <3>1. other \in left' \/ (other = e.job /\ IsWrite(other))
      BY <1>6 DEF Jobs, IsWrite
    <3>2. other.doubt
      BY <1>4, <1>6, <2>1, <3>1
    <3> QED BY <3>2 DEF Spares
  <2>2. EditorShape(editor)' /\ (~editor.open => editor = Closed)' /\ KnowsStored(editor, environment)' /\ Remembers(editor)'
    BY <1>6
  <2>3. (\A other \in left : WriteShape(other) /\ other.stage # "done")'
    BY <1>4
  <2> QED BY <1>3, <2>1, <2>2, <2>3 DEF EnvironmentInv
<1>7. CASE job = editor.job
  <2> DEFINE done == [job EXCEPT !.made = Made(job), !.stage = "done"]
             e == [editor EXCEPT !.job = done]
  <2>1. editor' = e
    BY <1>1, <1>7
  <2>2. /\ WriteShape(done) /\ done.kind = job.kind /\ done.of = job.of /\ done.variables = job.variables
        /\ done.refs = job.refs /\ done.stage = "done" /\ done.made = Made(job)
    BY ZenonT(60), <1>2, DoneShape
  <2> HIDE DEF done
  <2>3. IsWrite(done) /\ done.kind # "none"
    BY <2>2, <1>2 DEF IsWrite
  <2>4. /\ EditorShape(e) /\ e.open = editor.open /\ e.doubt = editor.doubt /\ e.job = done
        /\ e.defaultVariables = editor.defaultVariables /\ e.defaultSecretRefs = editor.defaultSecretRefs
        /\ e.environments = editor.environments
    BY <1>5, <2>2, <2>3, JobSet
  <2> HIDE DEF e
  <2>5. e.open
    BY <1>7, <2>4, JobIsWrite
  <2>6. Remembers(e)
    BY <1>7, <2>2, <2>4 DEF EnvironmentInv, Remembers
  <2>7. ASSUME ~editor.doubt
        PROVE  Matches(environment', VariablesAfter(e, done), RefsAfter(e, done), ListAfter(e, done))
    <3>1. Matches(environment, e.defaultVariables, e.defaultSecretRefs, e.environments)
      BY <1>1, <1>7, <2>4, <2>7 DEF EnvironmentInv, KnowsStored, Applied
    <3>2. job.kind = "save" => IF job.of = "vault" THEN job.variables = e.defaultVariables
                               ELSE job.refs = e.defaultSecretRefs
      BY <1>7, <2>4 DEF EnvironmentInv, Remembers
    <3> QED BY <1>1, <1>2, <2>2, <3>1, <3>2, WrittenIsKnown
  <2>8. KnowsStored(e, environment')
    BY <2>2, <2>3, <2>4, <2>7 DEF KnowsStored, Applied
  <2> QED BY <1>6, <2>1, <2>2, <2>4, <2>5, <2>6, <2>8
<1>8. CASE job # editor.job /\ ~editor.open
  <2>1. editor' = editor /\ editor = Closed
    BY <1>1, <1>8 DEF EnvironmentInv
  <2>2. EditorShape(editor) /\ KnowsStored(editor, environment') /\ Remembers(editor) /\ ~IsWrite(editor.job)
    BY <1>5, <2>1 DEF Closed, NoJob, IsWrite, KnowsStored, Remembers
  <2> QED BY <1>6, <2>1, <2>2
<1>9. CASE job # editor.job /\ editor.open /\ ~IsWrite(editor.job)
  <2> DEFINE e == [editor EXCEPT !.doubt = TRUE]
  <2>1. editor' = e
    BY <1>1, <1>9 DEF IsWrite
  <2>2. EditorShape(e) /\ e.open = editor.open /\ e.doubt = TRUE /\ e.job = editor.job
    BY <1>5, DoubtSet
  <2> HIDE DEF e
  <2>3. KnowsStored(e, environment') /\ Remembers(e) /\ ~IsWrite(e.job) /\ e.open
    BY <1>9, <2>2 DEF KnowsStored, Remembers, IsWrite
  <2> QED BY <1>6, <2>1, <2>2, <2>3
<1>10. CASE job # editor.job /\ editor.open /\ IsWrite(editor.job)
  <2> DEFINE own == [editor.job EXCEPT !.doubt = TRUE]
             d == [editor EXCEPT !.doubt = TRUE]
             e == [d EXCEPT !.job = own]
  <2>1. /\ EditorShape(d) /\ d.open = editor.open /\ d.doubt = TRUE /\ d.job = editor.job
        /\ d.defaultVariables = editor.defaultVariables /\ d.defaultSecretRefs = editor.defaultSecretRefs
    BY <1>5, DoubtSet
  <2>2. /\ WriteShape(own) /\ own.kind = editor.job.kind /\ own.of = editor.job.of /\ own.doubt
        /\ own.variables = editor.job.variables /\ own.refs = editor.job.refs
    BY <1>5, <1>10, DoubtedShape DEF EditorShape
  <2>3. editor' = e
    <3>1. editor' = [editor EXCEPT !.doubt = TRUE, !.job.doubt = TRUE]
      BY <1>1, <1>10 DEF IsWrite
    <3>2. [editor EXCEPT !.doubt = TRUE, !.job.doubt = TRUE]
          = [editor EXCEPT !.doubt = TRUE, !.job = own]
      BY <1>5 DEF EditorShape
    <3> HIDE DEF own
    <3>3. [editor EXCEPT !.doubt = TRUE, !.job = own] = e
      BY <1>5 DEF EditorShape
    <3> QED BY <3>1, <3>2, <3>3
  <2> HIDE DEF own, d
  <2>4. IsWrite(own) /\ own.kind # "none"
    BY <1>10, <2>2 DEF IsWrite
  <2>5. /\ EditorShape(e) /\ e.open = d.open /\ e.doubt = d.doubt /\ e.job = own
        /\ e.defaultVariables = d.defaultVariables /\ e.defaultSecretRefs = d.defaultSecretRefs
    BY <2>1, <2>2, <2>4, JobSet
  <2> HIDE DEF e
  <2>6. KnowsStored(e, environment')
    BY <2>1, <2>5 DEF KnowsStored
  <2>7. Remembers(e)
    BY <2>1, <2>2, <2>5 DEF EnvironmentInv, Remembers
  <2>8. e.open
    BY <1>10, <2>1, <2>5
  <2> QED BY <1>6, <2>2, <2>3, <2>5, <2>6, <2>7, <2>8
<1> QED BY <1>7, <1>8, <1>9, <1>10

-------------------------------------------------------------------------------
(* In the application, only the dialog and the shell that opens and closes *)
(* it reach its state.                                                     *)
LEMMA EnvironmentStays ==
    ASSUME EnvironmentInv, UNCHANGED <<environment, editor, left, overwritten>>
    PROVE  EnvironmentInv'
  BY DEF EnvironmentInv, Jobs, Spares

LEMMA DialogStep == ASSUME EnvironmentInv, Environment PROVE EnvironmentInv'
<1>1. CASE EnvironmentUser
  BY <1>1, EditKeepsEnvironment, DraftKeepsEnvironment, SaveKeepsEnvironment DEF EnvironmentUser
<1>2. CASE EnvironmentAsync(Desktop)
  BY <1>2, ReloadKeepsEnvironment, SecretKeeps, AppliedKeeps, AnswerKeepsEnvironment, RefusedKeeps
     DEF EnvironmentAsync
<1>3. CASE EnvironmentFault
  BY <1>3, ReloadKeepsEnvironment, RefusedKeeps DEF EnvironmentFault
<1> QED
  BY <1>1, <1>2, <1>3 DEF Environment

LEMMA EnvironmentStep == ASSUME EnvironmentInv, [Next]_vars PROVE EnvironmentInv'
<1>1. CASE ShellStep
  <2>1. OpenEnvironment \/ CloseEnvironment \/ UNCHANGED environmentVars
    BY <1>1 DEF ShellStep
  <2> QED
    BY <2>1, OpenKeeps, CloseKeeps, EnvironmentStays DEF environmentVars
<1>2. TreeUser \/ TreeAsync \/ ImportFiles \/ HistoryUser \/ HistorySave \/ HistoryAsync \/ HistoryFault
        \/ WorkbenchSends \/ WorkbenchSessions \/ Team \/ AgentTalk \/ PreferenceStep \/ UNCHANGED vars
      => UNCHANGED <<environment, editor, left, overwritten>>
  BY DEF TreeUser, TreeAsync, ImportFiles, HistoryUser, HistorySave, HistoryAsync, HistoryFault, WorkbenchSends,
         WorkbenchSessions, Team, AgentTalk, PreferenceStep, Elsewhere, others, environmentVars, vars
<1> QED
  BY <1>1, <1>2, DialogStep, EnvironmentStays DEF Next

(* The invariants of the parts, together.                                  *)
AppInv == SessionInv /\ DispatchInv /\ TeamInv /\ AgentInv /\ PreferenceInv /\ TreeInv /\ PanelInv
          /\ EnvironmentInv

LEMMA AppStart == AppInit => AppInv
<1> SUFFICES ASSUME AppInit PROVE AppInv
  OBVIOUS
<1>1. PICK scenario \in Scenarios : ExplorerInit(scenario.front, scenario.loaded)
  BY DEF AppInit
<1>2. TreeInv
  BY <1>1, TreeStart, ScenarioAssumption
<1>3. PanelInv
  BY UnmountedSound DEF AppInit, PanelInv
<1> QED
  BY <1>2, <1>3, SessionStart, DispatchStart, InitTeam, AgentStart, PreferenceStart, EnvironmentStart
     DEF AppInit, AppInv

LEMMA AppStep == AppInv /\ [Next]_vars => AppInv'
<1> SUFFICES ASSUME AppInv, [Next]_vars PROVE AppInv'
  OBVIOUS
<1> USE DEF AppInv
<1>1. SessionInv'
  <2>1. CASE SessionNext
    BY <2>1, SessionStep
  <2>2. CASE UNCHANGED session
    BY <2>2 DEF SessionInv
  <2> QED
    BY <2>1, <2>2, SessionMovesIn
<1>2. DispatchInv'
  <2>1. CASE DispatchNext
    BY <2>1, DispatchStep
  <2>2. CASE UNCHANGED dispatchVars
    BY <2>2 DEF dispatchVars, DispatchInv, DispatchTypes, IdsKnown, Known, IdsOwn, OwnEventsOnly
  <2> QED
    BY <2>1, <2>2, DispatchMovesIn
<1>3. TeamInv'
  BY TeamMovesIn, TeamStep
<1>4. AgentInv'
  <2>1. CASE AgentNext
    BY <2>1, AgentStep
  <2>2. CASE UNCHANGED agentVars
    BY <2>2 DEF agentVars, AgentInv, AgentTypes, OneExchange, ExchangePending, TokenSwapped, SteadyPage, SessionUsed
  <2> QED
    BY <2>1, <2>2, AgentMovesIn
<1>5. PreferenceInv'
  <2>1. CASE PreferenceNext
    BY <2>1, PreferencesStep
  <2>2. CASE UNCHANGED preferenceVars
    BY <2>2 DEF preferenceVars, PreferenceInv, PreferenceTypes, LocalAgrees, PagesSound, PageSound
  <2> QED
    BY <2>1, <2>2, PreferenceMovesIn
<1>6. TreeInv'
  <2>1. CASE StartsSome
    BY <2>1, HandlerStarts DEF StartsSome
  <2> QED
    BY <2>1, TreeMovesIn, TreeUserKeeps, TreeAsyncKeeps, TreeStays
<1>7. PanelInv' /\ EnvironmentInv'
  BY PanelStep, EnvironmentStep
<1> QED
  BY <1>1, <1>2, <1>3, <1>4, <1>5, <1>6, <1>7

(* A step of the application changes the store or what is shown of it the  *)
(* way a view may.                                                         *)
LEMMA TreeMovesAsView ==
  ASSUME TreeInv, ExplorerUser \/ ExplorerAsync \/ StartsSome \/ UNCHANGED treeState
  PROVE  [View!Next]_<<store.version, tree.version, front = "web">>
<1>1. CASE UNCHANGED <<front, store, tree>>
  BY <1>1
<1>2. CASE RefreshDone
  <2>1. PICK r \in refreshes : /\ r.read # NoTree /\ tree' = IF Applies(r) THEN r.read ELSE tree
                               /\ UNCHANGED <<front, store>>
    BY <1>2 DEF RefreshDone
  <2>2. CASE Applies(r)
    <3>1. tree'.version \in 0 .. store.version
      BY <2>1, <2>2 DEF TreeInv, ReadsTyped, Past
    <3>2. front = "web" => tree'.version >= tree.version
      <4>1. tree.version \in Nat /\ r.read.version \in Nat
        BY <2>1 DEF TreeInv, ReadsTyped, Past
      <4> QED
        BY <2>1, <2>2, <4>1 DEF TreeInv, ReadsInOrder, Applies
    <3> QED
      BY <2>1, <3>1, <3>2 DEF View!Next, View!Show
  <2>3. CASE ~Applies(r)
    BY <1>1, <2>1, <2>3
  <2> QED
    BY <2>2, <2>3
<1>3. ASSUME UNCHANGED <<front, tree>>, store' = store \/ store'.version = store.version + 1
      PROVE  [View!Next]_<<store.version, tree.version, front = "web">>
  BY <1>3 DEF View!Next, View!Change
<1>4. CASE CommandRuns \/ CommandFails
  <2>1. UNCHANGED <<front, tree>>
    BY <1>4 DEF CommandRuns, CommandFails
  <2>2. \E cmd, held : store' = store \/ store' = After(store, cmd, held)
    BY <1>4 DEF CommandRuns, CommandFails
  <2> QED
    BY <1>3, <2>1, <2>2, AfterVersion
<1>5. CASE RefreshRead \/ RefreshFails \/ RefreshStarts
  BY <1>1, <1>5 DEF RefreshRead, RefreshFails, RefreshStarts
<1>6. CASE StartsSome
  BY <1>1, <1>6 DEF StartsSome, Start
<1>7. CASE ExplorerUser
  BY <1>1, <1>6, <1>7, UserStarts DEF ExportSnapshot, Retry
<1>8. CASE UNCHANGED treeState
  BY <1>1, <1>8 DEF treeState
<1> QED
  BY <1>2, <1>4, <1>5, <1>6, <1>7, <1>8 DEF ExplorerAsync

-------------------------------------------------------------------------------
(* Whatever else happens in the application: once no handler and no        *)
(* refresh is under way, the tree on screen is the store's, but for the    *)
(* lost refreshes the property names (refreshTree of App, the handlers of  *)
(* WorkspaceExplorer).                                                     *)
THEOREM TreeShowsStore == Spec => []TreeIsStored
<1>1. AppInv => TreeIsStored
  BY TreeGoal DEF AppInv
<1> QED
  BY <1>1, AppStart, AppStep, PTL DEF Spec

(* The application implements TreeView: the tree shows only states the     *)
(* store has been in, and with numbered refreshes, those of the web, never *)
(* goes back to an older one (refreshTree, refreshSequence).               *)
THEOREM TreeRefinesView == Spec => TreeIsView
<1>1. AppInv => View!Init
  BY DEF AppInv, TreeInv, Past, View!Init
<1>2. AppInv /\ [Next]_vars => [View!Next]_<<store.version, tree.version, front = "web">>
  BY TreeMovesIn, TreeMovesAsView DEF AppInv
<1> QED
  BY <1>1, <1>2, AppStart, AppStep, PTL DEF Spec, TreeIsView, View!Spec

(* A workbench that is gone leaves no connection behind, in whatever order *)
(* connecting, closing, unmounting and the change of module come, unless   *)
(* it went while it was still connecting (the refs and the unmount effects *)
(* of the socket workbenches).                                             *)
THEOREM NoSocketOrphaned == Spec => []NoOrphanSocket
<1>1. AppInv => NoOrphanSocket
  BY DEF AppInv, SessionInv, SessionSound, SessionRow, NoOrphanSocket
<1> QED
  BY <1>1, AppStart, AppStep, PTL DEF Spec

(* However many sends overlap: a workbench shows and cancels its own       *)
(* execution only, unless another one was announced during its send (the   *)
(* listeners of the desktop's workbenches).                                *)
THEOREM SendsHearTheirOwn == Spec => []OwnEventsOnly
<1>1. AppInv => OwnEventsOnly
  BY DEF AppInv, DispatchInv
<1> QED
  BY <1>1, AppStart, AppStep, PTL DEF Spec

(* TeamOverwrites holds of the whole application.                          *)
THEOREM AppOverwrites == Spec => []NoBlindOverwrite
<1>1. AppInv => NoBlindOverwrite
  BY DEF AppInv, TeamInv
<1> QED
  BY <1>1, AppStart, AppStep, PTL DEF Spec

(* However many calls, changes of settings, reloads and restarts of agents *)
(* overlap: a page opens one session per module, no call but the exchange  *)
(* carries the pairing token, and a steady page's calls carry a session    *)
(* the agent knows (agentClient, agentResources).                          *)
THEOREM SessionsAreUsed == Spec => []SessionUsed
<1>1. AppInv => SessionUsed
  BY DEF AppInv, AgentInv
<1> QED
  BY <1>1, AppStart, AppStep, PTL DEF Spec

(* For any number of windows and pages: once nothing is due every open     *)
(* page shows the preference its window has stored, and the windows agree  *)
(* on the local ones (setPreferences and the pages' effects).              *)
THEOREM PagesShowPreferences == Spec => []PagesAgree
<1>1. AppInv => PagesAgree
  BY PreferenceGoal DEF AppInv
<1> QED
  BY <1>1, AppStart, AppStep, PTL DEF Spec

(* The list of the history page is that of its filter, the active tab has  *)
(* its snapshot or an answer to come, and a case saved from the page holds *)
(* the response to the request it records, but for the exceptions that the *)
(* properties name (RequestHistoryPanel.tsx).                              *)
THEOREM HistoryIsShown == Spec => []HistoryFaithful
<1>1. AppInv => HistoryFaithful
  BY PanelGoal DEF AppInv
<1> QED
  BY <1>1, AppStart, AppStep, PTL DEF Spec

(* Saving one section of the environment leaves the others as stored, and  *)
(* once nothing is under way the dialog shows what is stored, whatever was *)
(* reloaded, saved, refused and closed in between, but for the exceptions  *)
(* the property names (EnvironmentEditor.tsx, agentResources).             *)
THEOREM EnvironmentIsKept == Spec => []EnvironmentKept
<1>1. AppInv => EnvironmentKept
  BY EnvironmentGoal DEF AppInv
<1> QED
  BY <1>1, AppStart, AppStep, PTL DEF Spec

-------------------------------------------------------------------------------
(* Copies and swaps.  A handler that nothing disturbs finds the store as   *)
(* its commands left it, so what its end promises can be told from its     *)
(* start: a run of its commands from the tree shown.  Foretold says that   *)
(* of the commands that are left.                                          *)

(* Commands, with the refresh at the end.                                  *)
IsScript(cmds) ==
    /\ cmds \in Seq({cmds[i] : i \in DOMAIN cmds}) /\ cmds # <<>>
    /\ \A i \in DOMAIN cmds : cmds[i].kind = "refresh" <=> i = Len(cmds)

Foretold(call, s) ==
    call.work.kind \in Copying /\ ~call.mixed =>
        /\ ~call.tolerant
        /\ \E cmds : /\ IsScript(cmds) /\ call.parts = <<cmds>>
                     /\ call.wait # 0 => Len(cmds) = 1
                     /\ Leads(call.work, s, call.held, cmds)

CopyInv == (\A c \in Slots : Foretold(calls[c], store)) /\ Promised(finished, store)

(* An idle handler promises nothing.                                       *)
LEMMA IdleForetold == ASSUME NEW s PROVE Foretold(Idle, s) /\ Promised(NoWork, s)
  BY DEF Foretold, Promised, Idle, NoWork, Copying

(* The first command of a script and what follows it.                      *)
LEMMA ScriptTail ==
  ASSUME NEW cmds, IsScript(cmds)
  PROVE  /\ Head(cmds) = cmds[1] /\ 1 \in DOMAIN cmds /\ Len(cmds) \in Nat \ {0}
         /\ Head(cmds).kind = "refresh" <=> Len(cmds) = 1
         /\ Len(cmds) # 1 => /\ IsScript(Tail(cmds)) /\ Len(Tail(cmds)) = Len(cmds) - 1
                             /\ \A i \in 1 .. Len(cmds) - 1 : Tail(cmds)[i] = cmds[i + 1]
<1> DEFINE S == {cmds[i] : i \in DOMAIN cmds}
<1>1. cmds \in Seq(S) /\ cmds # <<>>
  BY DEF IsScript
<1> HIDE DEF S
<1>2. Len(cmds) \in Nat \ {0} /\ DOMAIN cmds = 1 .. Len(cmds) /\ Head(cmds) = cmds[1]
  BY <1>1
<1>3. 1 \in DOMAIN cmds /\ (Head(cmds).kind = "refresh" <=> Len(cmds) = 1)
  BY <1>2 DEF IsScript
<1>4. ASSUME Len(cmds) # 1
      PROVE  /\ IsScript(Tail(cmds)) /\ Len(Tail(cmds)) = Len(cmds) - 1
             /\ \A i \in 1 .. Len(cmds) - 1 : Tail(cmds)[i] = cmds[i + 1]
  <2> DEFINE rest == Tail(cmds)
  <2>1. /\ Len(rest) = Len(cmds) - 1 /\ DOMAIN rest = 1 .. Len(cmds) - 1
        /\ \A i \in 1 .. Len(cmds) - 1 : rest[i] = cmds[i + 1]
    BY <1>1, <1>2
  <2>a. rest \in Seq(S)
    BY <1>1
  <2> HIDE DEF rest
  <2>2. Len(rest) \in Nat \ {0}
    BY <1>2, <1>4, <2>1
  <2>3. rest \in Seq({rest[i] : i \in DOMAIN rest})
    <3> DEFINE T == {rest[i] : i \in DOMAIN rest}
    <3>0. rest = [i \in 1 .. Len(rest) |-> rest[i]]
      BY <2>a, <2>2
    <3>1. \A i \in 1 .. Len(rest) : rest[i] \in T
      BY <2>1
    <3> HIDE DEF T
    <3>2. rest \in [1 .. Len(rest) -> T]
      BY <2>1, <3>0, <3>1
    <3>3. rest \in Seq(T)
      BY <2>2, <3>2
    <3> QED
      BY <3>3 DEF T
  <2>4. rest # <<>>
    BY <2>1, <2>2
  <2>5. ASSUME NEW i \in DOMAIN rest PROVE rest[i].kind = "refresh" <=> i = Len(rest)
    <3>1. rest[i] = cmds[i + 1] /\ i + 1 \in DOMAIN cmds /\ i \in Nat
      BY <1>2, <2>1
    <3>2. cmds[i + 1].kind = "refresh" <=> i + 1 = Len(cmds)
      BY <3>1 DEF IsScript
    <3> QED
      BY <1>2, <2>1, <3>1, <3>2
  <2> QED
    BY <2>1, <2>3, <2>4, <2>5 DEF rest, IsScript
<1> QED
  BY <1>2, <1>3, <1>4

(* A run goes on from where the first command left the store.              *)
LEMMA LeadsOn ==
  ASSUME NEW work, NEW s, NEW held, NEW cmds, IsScript(cmds), Len(cmds) # 1,
         Leads(work, s, held, cmds), Allowed(s, Head(cmds), held)
  PROVE  LET at == Ran([store |-> s, held |-> held], Head(cmds)) IN
         Leads(work, at.store, at.held, Tail(cmds))
<1> DEFINE at == Ran([store |-> s, held |-> held], Head(cmds))
<1>1. at = [store |-> at.store, held |-> at.held]
  BY DEF Ran
<1>2. /\ Head(cmds) = cmds[1] /\ Len(cmds) \in Nat \ {0} /\ Len(Tail(cmds)) = Len(cmds) - 1
      /\ \A i \in 1 .. Len(cmds) - 1 : Tail(cmds)[i] = cmds[i + 1]
  BY ScriptTail
<1> SUFFICES ASSUME NEW rest, IsRun(rest, at.store, at.held, Tail(cmds))
             PROVE  Promised(work, rest[Len(Tail(cmds))].store)
  BY DEF Leads
<1> DEFINE run == [i \in 0 .. Len(cmds) |-> IF i = 0 THEN [store |-> s, held |-> held] ELSE rest[i - 1]]
<1>3. run[0] = [store |-> s, held |-> held] /\ \A i \in 1 .. Len(cmds) : run[i] = rest[i - 1]
  BY <1>2
<1>4. run[1] = at
  BY <1>1, <1>2, <1>3 DEF IsRun
<1>5. ASSUME NEW i \in 1 .. Len(cmds)
      PROVE  Allowed(run[i - 1].store, cmds[i], run[i - 1].held) /\ run[i] = Ran(run[i - 1], cmds[i])
  <2>1. CASE i = 1
    BY <1>2, <1>3, <1>4, <2>1
  <2>2. CASE i # 1
    <3>1. i - 1 \in 1 .. Len(Tail(cmds)) /\ i - 1 \in 1 .. Len(cmds) /\ i - 1 \in 1 .. Len(cmds) - 1
      BY <1>2, <2>2
    <3>2. run[i] = rest[i - 1] /\ run[i - 1] = rest[i - 1 - 1] /\ Tail(cmds)[i - 1] = cmds[i]
      BY <1>2, <1>3, <3>1
    <3> HIDE DEF run
    <3> QED
      BY <3>1, <3>2 DEF IsRun
  <2> QED
    BY <2>1, <2>2
<1>6. run[Len(cmds)] = rest[Len(Tail(cmds))]
  BY <1>2, <1>3
<1> HIDE DEF run
<1>7. IsRun(run, s, held, cmds)
  BY <1>3, <1>5 DEF IsRun
<1> QED
  BY <1>6, <1>7 DEF Leads

(* When the refresh is all that is left, the promise is kept.              *)
LEMMA LeadsEnd ==
  ASSUME NEW work, NEW s, NEW held, NEW cmds, IsScript(cmds), Len(cmds) = 1, Leads(work, s, held, cmds)
  PROVE  Promised(work, s)
<1> DEFINE run == [i \in 0 .. 1 |-> [store |-> s, held |-> held]]
<1>1. cmds[1].kind = "refresh"
  BY ScriptTail
<1>2. Allowed(s, cmds[1], held) /\ After(s, cmds[1], held) = s
  BY <1>1 DEF Allowed, After
<1>3. IsRun(run, s, held, cmds)
  BY <1>1, <1>2 DEF IsRun, Ran
<1> QED
  BY <1>3 DEF Leads

(* Other handlers promise nothing.                                         *)
LEMMA OtherWork ==
  ASSUME NEW work, work.kind \notin Copying, NEW s
  PROVE  Promised(work, s)
  BY DEF Promised, Copying

(* Nothing is foretold of other handlers, nor of one that was disturbed.   *)
LEMMA OtherCalls ==
  ASSUME NEW call, call.work.kind \notin Copying \/ call.mixed, NEW s
  PROVE  Foretold(call, s)
  BY DEF Foretold

(* A handler starts: what it promises is told from the tree, which is the  *)
(* store if the handler is not mixed from its start.                       *)
LEMMA StartForetold ==
  ASSUME TreeInv, CopyInv, NEW work, NEW parts, NEW tolerant, NEW made, Start(work, parts, tolerant, made),
         work.kind \in Copying /\ tree = store =>
             /\ ~tolerant
             /\ \E cmds : IsScript(cmds) /\ parts = <<cmds>> /\ Leads(work, store, None, cmds)
  PROVE  CopyInv'
<1> DEFINE mixed == \/ tree.version # store.version
                    \/ \E c \in Slots : calls[c] # Idle
           call == [Idle EXCEPT !.parts = parts, !.work = work, !.tolerant = tolerant, !.mixed = mixed]
<1>1. /\ calls' = [calls EXCEPT ![FreeSlot] = call] /\ \E c \in Slots : calls[c] = Idle
      /\ finished' = NoWork /\ store' = store
  BY DEF Start
<1>2. mixed \in BOOLEAN /\ (~mixed => tree = store)
  BY DEF TreeInv, Past
<1> HIDE DEF mixed
<1>3. /\ call.parts = parts /\ call.work = work /\ call.tolerant = tolerant /\ call.mixed = mixed
      /\ call.held = None /\ call.wait = 0
  BY DEF Idle
<1> HIDE DEF call
<1>4. Foretold(call, store)
  BY <1>2, <1>3 DEF Foretold
<1>5. \A c \in Slots : calls'[c] = call \/ calls'[c] = calls[c]
  BY <1>1 DEF TreeInv, CallsTyped
<1>6. \A c \in Slots : Foretold(calls'[c], store)
  BY <1>4, <1>5 DEF CopyInv
<1> QED
  BY <1>1, <1>6, IdleForetold DEF CopyInv

(* Steps of other parts.                                                   *)
LEMMA CopyStays == ASSUME CopyInv, UNCHANGED <<store, calls, finished>> PROVE CopyInv'
  BY DEF CopyInv

(* What the tree shows does not matter to handlers under way.              *)
LEMMA CopyRefresh ==
  ASSUME CopyInv, UNCHANGED <<store, calls>>, finished' = NoWork
  PROVE  CopyInv'
  BY IdleForetold DEF CopyInv

(* The refresh of a handler begins.                                        *)
LEMMA CopyRefreshStarts == ASSUME TreeInv, CopyInv, RefreshStarts PROVE CopyInv'
<1>1. PICK c \in Slots :
        /\ Command(c).kind = "refresh" /\ refreshSequence' = refreshSequence + 1
        /\ calls' = [calls EXCEPT ![c].wait = refreshSequence + 1, ![c].changed = FALSE]
        /\ store' = store /\ finished' = NoWork
  BY DEF RefreshStarts, Refreshing
<1> DEFINE call == [calls[c] EXCEPT !.wait = refreshSequence + 1, !.changed = FALSE]
<1>2. IsCall(calls[c]) /\ Foretold(calls[c], store)
  BY DEF TreeInv, CallsTyped, CopyInv
<1>3. /\ call.parts = calls[c].parts /\ call.work = calls[c].work /\ call.tolerant = calls[c].tolerant
      /\ call.mixed = calls[c].mixed /\ call.held = calls[c].held
  BY <1>2 DEF IsCall
<1>4. \A d \in Slots : calls'[d] = IF d = c THEN call ELSE calls[d]
  BY <1>1 DEF TreeInv, CallsTyped
<1> HIDE DEF call
<1>5. Foretold(call, store)
  <2> SUFFICES ASSUME call.work.kind \in Copying, ~call.mixed
               PROVE  /\ ~call.tolerant
                      /\ \E cmds : /\ IsScript(cmds) /\ call.parts = <<cmds>>
                                   /\ call.wait # 0 => Len(cmds) = 1
                                   /\ Leads(call.work, store, call.held, cmds)
    BY DEF Foretold
  <2>1. PICK cmds : /\ IsScript(cmds) /\ calls[c].parts = <<cmds>> /\ ~calls[c].tolerant
                    /\ Leads(calls[c].work, store, calls[c].held, cmds)
    BY <1>2, <1>3 DEF Foretold
  <2>2. Len(cmds) = 1
    BY <1>1, <2>1, ScriptTail DEF Command
  <2> QED
    BY <1>3, <2>1, <2>2
<1>6. \A d \in Slots : Foretold(calls'[d], store)
  BY <1>4, <1>5 DEF CopyInv
<1> QED
  BY <1>1, <1>6, IdleForetold DEF CopyInv

(* The refresh a handler waited for has ended.                             *)
LEMMA ResumedForetold ==
  ASSUME NEW call, IsCall(call), NEW s, Foretold(call, s), NEW r, NEW ok
  PROVE  Foretold(Resumed(call, r, ok), s)
<1>1. CASE Resumed(call, r, ok) \in {call, Idle}
  BY <1>1, IdleForetold
<1>2. CASE Resumed(call, r, ok) \notin {call, Idle}
  <2>1. Resumed(call, r, ok) = [call EXCEPT !.parts = Tail(@), !.wait = 0] /\ Len(call.parts) # 1
    BY <1>2 DEF Resumed
  <2>2. call.work.kind \notin Copying \/ call.mixed
    BY <2>1 DEF Foretold
  <2>3. Resumed(call, r, ok).work = call.work /\ Resumed(call, r, ok).mixed = call.mixed
    BY <2>1 DEF IsCall
  <2> QED
    BY <2>2, <2>3, OtherCalls
<1> QED
  BY <1>1, <1>2

(* A refresh ends.                                                         *)
LEMMA CopyRefreshEnds ==
  ASSUME TreeInv, CopyInv, RefreshDone \/ RefreshFails
  PROVE  CopyInv'
<1>1. PICK r \in refreshes : \E ok :
        /\ calls' = [c \in Slots |-> Resumed(calls[c], r, ok)] /\ store' = store
        /\ finished' = NoWork \/ finished' = FinishedBy(r)
  BY DEF RefreshDone, RefreshFails
<1>2. \A c \in Slots : Foretold(calls'[c], store)
  BY <1>1, ResumedForetold DEF TreeInv, CallsTyped, CopyInv
<1>3. Promised(FinishedBy(r), store)
  <2> DEFINE done == {c \in Slots : /\ calls[c].wait = r.seq /\ Len(calls[c].parts) = 1
                                   /\ ~calls[c].mixed /\ ~calls[c].tolerant}
  <2>1. CASE done = {}
    BY <2>1, IdleForetold DEF FinishedBy
  <2>2. CASE done # {}
    <3>1. PICK c \in done : FinishedBy(r) = calls[c].work
      BY <2>2, Zenon DEF FinishedBy
    <3>2. CASE calls[c].work.kind \notin Copying
      BY <3>1, <3>2, OtherWork
    <3>3. CASE calls[c].work.kind \in Copying
      <4>1. r.seq # 0
        BY DEF TreeInv, ReadsTyped
      <4>2. Foretold(calls[c], store) /\ ~calls[c].mixed /\ calls[c].wait # 0
        BY <4>1 DEF CopyInv
      <4>3. PICK cmds : /\ IsScript(cmds) /\ Len(cmds) = 1
                        /\ Leads(calls[c].work, store, calls[c].held, cmds)
        BY <3>3, <4>2 DEF Foretold
      <4> QED
        BY <3>1, <4>3, LeadsEnd
    <3> QED
      BY <3>2, <3>3
  <2> QED
    BY <2>1, <2>2
<1> QED
  BY <1>1, <1>2, <1>3, IdleForetold DEF CopyInv

(* A command of another handler leaves the store, or mixes this one.       *)
LEMMA OthersForetold ==
  ASSUME TreeInv, CopyInv, NEW c \in Slots, NEW next, NEW d \in Slots
  PROVE  d # c => Foretold(Others(c, next # store)[d], next)
<1> SUFFICES ASSUME d # c PROVE Foretold(Others(c, next # store)[d], next)
  OBVIOUS
<1>1. IsCall(calls[d]) /\ Foretold(calls[d], store)
  BY DEF TreeInv, CallsTyped, CopyInv
<1>2. CASE next # store /\ calls[d] # Idle
  <2>1. Others(c, next # store)[d] = [calls[d] EXCEPT !.mixed = TRUE]
    BY <1>2 DEF Others
  <2>2. Others(c, next # store)[d].mixed
    BY <1>1, <2>1 DEF IsCall
  <2> QED
    BY <2>2, OtherCalls
<1>3. CASE ~(next # store /\ calls[d] # Idle)
  <2>1. Others(c, next # store)[d] = calls[d]
    BY <1>3 DEF Others
  <2> QED
    BY <1>1, <1>3, <2>1, IdleForetold
<1> QED
  BY <1>2, <1>3

(* A handler whose command failed promises nothing.                        *)
LEMMA RejectedForetold ==
  ASSUME NEW call, IsCall(call), NEW s, Foretold(call, s), NEW t
  PROVE  Foretold(Rejected(call), t)
<1>1. CASE Rejected(call) = Idle
  BY <1>1, IdleForetold
<1>2. CASE Rejected(call) # Idle
  <2>1. Rejected(call) = [call EXCEPT !.parts = Tail(@), !.changed = FALSE] /\ call.tolerant
    BY <1>2 DEF Rejected
  <2>2. call.work.kind \notin Copying \/ call.mixed
    BY <2>1 DEF Foretold
  <2>3. Rejected(call).work = call.work /\ Rejected(call).mixed = call.mixed
    BY <2>1 DEF IsCall
  <2> QED
    BY <2>2, <2>3, OtherCalls
<1> QED
  BY <1>1, <1>2

(* A command was executed for an undisturbed handler.                      *)
LEMMA AnsweredForetold ==
  ASSUME NEW call, IsCall(call), Foretold(call, store), call.wait = 0,
         NEW cmd, cmd = Head(Head(call.parts)), cmd.kind # "refresh", Allowed(store, cmd, call.held)
  PROVE  Foretold(Answered(call, cmd), After(store, cmd, call.held))
<1> DEFINE held == IF cmd.kind = "load" THEN Loaded(store, cmd) ELSE call.held
           next == After(store, cmd, call.held)
           differs == next # store
<1>1. CASE Answered(call, cmd) = Idle
  BY <1>1, IdleForetold
<1>2. CASE Answered(call, cmd) # Idle
  <2> DEFINE after == [call EXCEPT !.parts = Onward(@), !.held = held,
                                   !.changed = @ \/ differs]
  <2>1. Answered(call, cmd) = after
    BY <1>2 DEF Answered
  <2>2. ASSUME NEW p, NEW h, NEW d \in BOOLEAN
        PROVE  LET x == [call EXCEPT !.parts = p, !.held = h, !.changed = @ \/ d] IN
               /\ x.parts = p /\ x.work = call.work /\ x.tolerant = call.tolerant
               /\ x.mixed = call.mixed /\ x.held = h /\ x.wait = call.wait
    BY DEF IsCall
  <2>3. differs \in BOOLEAN
    OBVIOUS
  <2>4. Ran([store |-> store, held |-> call.held], cmd) = [store |-> next, held |-> held]
    BY DEF Ran
  <2> HIDE DEF held, next, differs
  <2>5. /\ after.work = call.work /\ after.tolerant = call.tolerant
        /\ after.mixed = call.mixed /\ after.held = held /\ after.wait = call.wait
    BY <2>2, <2>3
  <2>6. ASSUME NEW cmds, call.parts = <<cmds>> PROVE after.parts = <<Tail(cmds)>>
    <3>1. Onward(call.parts) = <<Tail(cmds)>>
      BY <2>6 DEF Onward
    <3> QED
      BY <2>2, <2>3, <2>6, <3>1
  <2> HIDE DEF after
  <2>7. ASSUME call.work.kind \in Copying, ~call.mixed
        PROVE  /\ ~call.tolerant
               /\ \E cmds : IsScript(cmds) /\ after.parts = <<cmds>> /\ Leads(call.work, next, held, cmds)
    <3>1. PICK cmds : /\ IsScript(cmds) /\ call.parts = <<cmds>> /\ ~call.tolerant
                      /\ Leads(call.work, store, call.held, cmds)
      BY <2>7 DEF Foretold
    <3>2. cmd = Head(cmds)
      BY <3>1
    <3>3. Len(cmds) # 1
      BY <3>1, <3>2, ScriptTail
    <3>4. Leads(call.work, next, held, Tail(cmds))
      BY <2>4, <3>1, <3>2, <3>3, LeadsOn
    <3>5. IsScript(Tail(cmds)) /\ after.parts = <<Tail(cmds)>>
      BY <2>6, <3>1, <3>3, ScriptTail
    <3> QED
      BY <3>1, <3>4, <3>5
  <2>8. Foretold(after, next)
    BY <2>5, <2>7 DEF Foretold
  <2> QED
    BY <2>1, <2>8 DEF next
<1> QED
  BY <1>1, <1>2

(* A step of the store, for handler c.                                     *)
LEMMA CopyCommand ==
  ASSUME TreeInv, CopyInv, NEW c \in Slots, NEW call, Foretold(call, store'),
         calls' = [Others(c, store' # store) EXCEPT ![c] = call], finished' = NoWork
  PROVE  CopyInv'
<1> DEFINE rest == Others(c, store' # store)
<1>1. rest = [d \in Slots |-> rest[d]]
  BY DEF Others
<1>2. \A d \in Slots : d # c => Foretold(rest[d], store')
  BY OthersForetold
<1> HIDE DEF rest
<1>3. \A d \in Slots : calls'[d] = IF d = c THEN call ELSE rest[d]
  BY <1>1 DEF rest
<1>4. \A d \in Slots : Foretold(calls'[d], store')
  BY <1>2, <1>3
<1> QED
  BY <1>4, IdleForetold DEF CopyInv

(* A command is executed.                                                  *)
LEMMA CopyCommandRuns == ASSUME TreeInv, CopyInv, CommandRuns PROVE CopyInv'
<1>1. PICK c \in Slots :
        /\ calls[c] # Idle /\ calls[c].wait = 0 /\ Command(c).kind # "refresh"
        /\ LET cmd == Command(c)
               ok == Allowed(store, cmd, calls[c].held)
               next == IF ok THEN After(store, cmd, calls[c].held) ELSE store IN
           /\ store' = next
           /\ calls' = [Others(c, next # store) EXCEPT ![c] = IF ok THEN Answered(@, cmd) ELSE Rejected(@)]
        /\ finished' = NoWork
  BY DEF CommandRuns
<1> DEFINE cmd == Command(c)
           ok == Allowed(store, cmd, calls[c].held)
           next == IF ok THEN After(store, cmd, calls[c].held) ELSE store
           call == IF ok THEN Answered(calls[c], cmd) ELSE Rejected(calls[c])
<1>2. IsCall(calls[c]) /\ Foretold(calls[c], store)
  BY DEF TreeInv, CallsTyped, CopyInv
<1>3. Others(c, next # store)[c] = calls[c]
  BY DEF Others
<1>4. store' = next /\ calls' = [Others(c, next # store) EXCEPT ![c] = call]
  BY <1>1, <1>3
<1>5. Foretold(call, next)
  BY <1>1, <1>2, AnsweredForetold, RejectedForetold DEF Command
<1> HIDE DEF call, next
<1>6. finished' = NoWork
  BY <1>1
<1> QED
  BY <1>4, <1>5, <1>6, CopyCommand

(* A command fails.                                                        *)
LEMMA CopyCommandFails == ASSUME TreeInv, CopyInv, CommandFails PROVE CopyInv'
<1>1. PICK c \in Slots, reached \in BOOLEAN :
        LET cmd == Command(c)
            ok == reached /\ Allowed(store, cmd, calls[c].held)
            next == IF ok THEN After(store, cmd, calls[c].held) ELSE store IN
        /\ store' = next
        /\ calls' = [Others(c, next # store) EXCEPT ![c] = Rejected(@)]
  BY DEF CommandFails
<1> DEFINE call == Rejected(calls[c])
<1>2. IsCall(calls[c]) /\ Foretold(calls[c], store)
  BY DEF TreeInv, CallsTyped, CopyInv
<1>3. Others(c, store' # store)[c] = calls[c]
  BY DEF Others
<1>4. calls' = [Others(c, store' # store) EXCEPT ![c] = call]
  BY <1>1, <1>3
<1>5. Foretold(call, store')
  BY <1>2, RejectedForetold
<1>6. finished' = NoWork
  BY DEF CommandFails
<1> HIDE DEF call
<1> QED
  BY <1>4, <1>5, <1>6, CopyCommand

-------------------------------------------------------------------------------
(* Swaps.                                                                  *)

(* update_collection sets the order of its row and of no other.            *)
LEMMA Updated ==
  ASSUME NEW s, NEW id, NEW name, NEW parent, NEW order, NEW held,
         Allowed(s, UpdateCommand(id, name, parent, order), held)
  PROVE  LET after == After(s, UpdateCommand(id, name, parent, order), held) IN
         /\ id \in DOMAIN s.colls /\ after.colls[id].order = order
         /\ \A c \in DOMAIN s.colls \ {id} : after.colls[c] = s.colls[c]
         /\ DOMAIN after.colls = DOMAIN s.colls
<1> DEFINE cmd == UpdateCommand(id, name, parent, order)
<1>1. cmd.kind = "updateCollection" /\ cmd.id = id /\ cmd.order = order
  BY DEF UpdateCommand
<1> HIDE DEF cmd
<1>2. id \in DOMAIN s.colls
  BY <1>1 DEF Allowed, cmd
<1>3. After(s, cmd, held).colls = UpdateCollection(s, cmd)
  BY <1>1 DEF After, Changed
<1>4. /\ UpdateCollection(s, cmd)[id].order = order /\ DOMAIN UpdateCollection(s, cmd) = DOMAIN s.colls
      /\ \A c \in DOMAIN s.colls \ {id} : UpdateCollection(s, cmd)[c] = s.colls[c]
  BY <1>1, <1>2 DEF UpdateCollection, Row
<1> QED
  BY <1>2, <1>3, <1>4 DEF cmd

(* Two commands and the refresh.                                           *)
LEMMA ScriptOfThree ==
  ASSUME NEW x, NEW y, x.kind # "refresh", y.kind # "refresh"
  PROVE  LET cmds == <<x, y, Refresh>> IN
         IsScript(cmds) /\ Len(cmds) = 3 /\ cmds[1] = x /\ cmds[2] = y /\ cmds[3] = Refresh
<1> DEFINE cmds == <<x, y, Refresh>>
<1>1. Len(cmds) = 3 /\ DOMAIN cmds = 1 .. 3 /\ cmds[1] = x /\ cmds[2] = y /\ cmds[3] = Refresh
  OBVIOUS
<1>2. Refresh.kind = "refresh"
  BY DEF Refresh
<1> DEFINE S == {cmds[i] : i \in DOMAIN cmds}
<1>3. x \in S /\ y \in S /\ Refresh \in S
  BY <1>1
<1> HIDE DEF S
<1>4. cmds \in Seq(S)
  BY <1>3
<1> HIDE DEF cmds
<1>5. IsScript(cmds)
  <2>1. \A i \in DOMAIN cmds : cmds[i].kind = "refresh" <=> i = Len(cmds)
    BY <1>1, <1>2
  <2>2. cmds # <<>>
    BY <1>1
  <2> QED
    BY <1>4, <2>1, <2>2 DEF IsScript, S
<1> QED
  BY <1>1, <1>5 DEF cmds

(* dropOnCollection: two updates exchange the orders.                      *)
LEMMA SwapForetold ==
  ASSUME TreeInv, CopyInv, NEW c \in DOMAIN tree.colls, NEW d \in DOMAIN tree.colls, c # d, Swap(c, d)
  PROVE  CopyInv'
<1> DEFINE first == tree.colls[c]
           second == tree.colls[d]
           up == UpdateCommand(c, first.name, first.parent, second.order)
           down == UpdateCommand(d, second.name, second.parent, first.order)
           cmds == <<up, down, Refresh>>
           work == [kind |-> "swap", first |-> c, second |-> d, orders |-> <<first.order, second.order>>]
<1>1. Start(work, <<cmds>>, FALSE, 0)
  BY DEF Swap
<1>2. up.kind # "refresh" /\ down.kind # "refresh"
  BY DEF UpdateCommand
<1>3. IsScript(cmds) /\ Len(cmds) = 3 /\ cmds[1] = up /\ cmds[2] = down /\ cmds[3] = Refresh
  BY <1>2, ScriptOfThree
<1>4. ASSUME tree = store PROVE Leads(work, store, None, cmds)
  <2> SUFFICES ASSUME NEW run, IsRun(run, store, None, cmds) PROVE Promised(work, run[3].store)
    BY <1>3 DEF Leads
  <2> DEFINE s0 == run[0].store
             s1 == run[1].store
             s2 == run[2].store
             s3 == run[3].store
  <2> HIDE DEF cmds
  <2>1. /\ run[0].store = store
        /\ Allowed(run[0].store, up, run[0].held) /\ run[1] = Ran(run[0], up)
        /\ Allowed(run[1].store, down, run[1].held) /\ run[2] = Ran(run[1], down)
        /\ run[3] = Ran(run[2], Refresh)
    BY <1>3 DEF IsRun
  <2>2. /\ s1 = After(store, up, run[0].held) /\ s2 = After(s1, down, run[1].held)
        /\ s3 = After(s2, Refresh, run[2].held)
    BY <2>1 DEF Ran
  <2>3. s3 = s2
    BY <2>2 DEF After, Refresh
  <2>4. s1.colls[c].order = second.order /\ c \in DOMAIN s1.colls
    BY <2>1, <2>2, Updated
  <2>5. s2.colls[d].order = first.order /\ s2.colls[c] = s1.colls[c]
    <3>1. Allowed(s1, down, run[1].held) /\ s2 = After(s1, down, run[1].held)
      BY <2>1, <2>2
    <3> HIDE DEF s1, s2, first, second
    <3>2. /\ After(s1, down, run[1].held).colls[d].order = first.order
          /\ \A x \in DOMAIN s1.colls \ {d} : After(s1, down, run[1].held).colls[x] = s1.colls[x]
      BY <3>1, Updated
    <3> QED
      BY <2>4, <3>1, <3>2
  <2>6. s3.colls[c].order = second.order /\ s3.colls[d].order = first.order
    BY <2>3, <2>4, <2>5
  <2> HIDE DEF s3, first, second
  <2>7. Exchanged(work, s3)
    BY <2>6 DEF Exchanged, Before
  <2> QED
    BY <2>7 DEF Promised, s3
<1>5. ~FALSE /\ (tree = store => /\ IsScript(cmds) /\ <<cmds>> = <<cmds>>
                                 /\ Leads(work, store, None, cmds))
  BY <1>3, <1>4
<1> HIDE DEF cmds, work
<1>6. tree = store => \E x : IsScript(x) /\ <<cmds>> = <<x>> /\ Leads(work, store, None, x)
  BY <1>5
<1> QED
  BY <1>1, <1>6, StartForetold

-------------------------------------------------------------------------------
(* What the store is told to do.  The commands of the handlers under way   *)
(* fit the store: the ids they make are new and nobody else's.             *)

(* The ids that commands make, and when commands fit a store in which the  *)
(* ids below bound are given out.                                          *)
MadeBy(parts) ==
    {id \in Nat : \E i \in DOMAIN parts : \E k \in DOMAIN parts[i] :
                      Makes(parts[i], k) /\ parts[i][k].id = id}

IsPart(cmds, s, bound) ==
    /\ IsScript(cmds) /\ \A k \in DOMAIN cmds : Fits(cmds[k], s, bound)
    /\ \A k, l \in DOMAIN cmds : Makes(cmds, k) /\ Makes(cmds, l) /\ cmds[k].id = cmds[l].id => k = l

AreParts(parts, s, bound) ==
    /\ IsSeq(parts) /\ \A i \in DOMAIN parts : IsPart(parts[i], s, bound)
    /\ Len(parts) > 1 => MadeBy(parts) = {}

IsHandler(call, s, bound) ==
    /\ call # Idle => call.parts # <<>>
    /\ AreParts(call.parts, s, bound)
    /\ call.held = None \/ IsReq(call.held)

StoreInv ==
    /\ nextId \in Nat /\ Coherent(store, nextId) /\ Coherent(tree, nextId) /\ Coherent(snapshot, nextId)
    /\ \A r \in refreshes : Coherent(r.read, nextId)
    /\ \A c \in Slots : IsHandler(calls[c], store, nextId)
    /\ \A c, d \in Slots : c # d => MadeBy(calls[c].parts) \cap MadeBy(calls[d].parts) = {}

(* An idle handler makes nothing.                                          *)
LEMMA IdleHandler ==
  ASSUME NEW s, NEW bound
  PROVE  IsHandler(Idle, s, bound) /\ MadeBy(Idle.parts) = {} /\ MadeBy(<<>>) = {}
<1>1. Idle.parts = <<>> /\ Idle.held = None /\ DOMAIN <<>> = {} /\ Len(<<>>) = 0
  BY DEF Idle
<1>2. IsSeq(<<>>)
  BY DEF IsSeq
<1>3. MadeBy(<<>>) = {}
  BY DEF MadeBy
<1> QED
  BY <1>1, <1>2, <1>3 DEF IsHandler, AreParts

(* The parts after the first.                                              *)
LEMMA PartsTail ==
  ASSUME NEW parts, NEW s, NEW bound, AreParts(parts, s, bound), parts # <<>>, Len(parts) # 1
  PROVE  AreParts(Tail(parts), s, bound) /\ Tail(parts) # <<>> /\ MadeBy(Tail(parts)) \subseteq MadeBy(parts)
<1> DEFINE S == {parts[i] : i \in DOMAIN parts}
           rest == Tail(parts)
<1>1. parts \in Seq(S)
  BY DEF AreParts, IsSeq
<1> HIDE DEF S
<1>2. /\ Len(parts) \in Nat \ {0, 1} /\ rest \in Seq(S) /\ DOMAIN parts = 1 .. Len(parts)
      /\ Len(rest) = Len(parts) - 1 /\ DOMAIN rest = 1 .. Len(parts) - 1
      /\ \A i \in 1 .. Len(parts) - 1 : rest[i] = parts[i + 1]
  BY <1>1
<1>3. MadeBy(parts) = {}
  BY <1>2 DEF AreParts
<1> HIDE DEF rest
<1>4. \A i \in DOMAIN rest : i + 1 \in DOMAIN parts /\ rest[i] = parts[i + 1]
  BY <1>2
<1>5. MadeBy(rest) \subseteq MadeBy(parts)
  BY <1>4 DEF MadeBy
<1>6. \A i \in DOMAIN rest : IsPart(rest[i], s, bound)
  BY <1>4 DEF AreParts
<1>7. IsSeq(rest) /\ rest # <<>>
  BY <1>2, SeqOver
<1> QED
  BY <1>3, <1>5, <1>6, <1>7 DEF AreParts, rest

(* The first command of the first part.                                    *)
LEMMA FirstCommand ==
  ASSUME NEW parts, NEW s, NEW bound, AreParts(parts, s, bound), parts # <<>>
  PROVE  LET cmd == Head(Head(parts)) IN
         /\ Head(parts) = parts[1] /\ 1 \in DOMAIN parts /\ Head(parts[1]) = parts[1][1] /\ 1 \in DOMAIN parts[1]
         /\ IsPart(parts[1], s, bound) /\ Fits(cmd, s, bound)
         /\ cmd.kind = "createCollection" => cmd.id \in MadeBy(parts)
<1>1. IsSeq(parts)
  BY DEF AreParts
<1>2. Len(parts) \in Nat \ {0} /\ DOMAIN parts = 1 .. Len(parts) /\ Head(parts) = parts[1]
  BY <1>1 DEF IsSeq
<1>3. IsPart(parts[1], s, bound)
  BY <1>2 DEF AreParts
<1>4. Head(parts[1]) = parts[1][1] /\ 1 \in DOMAIN parts[1]
  BY <1>3, ScriptTail DEF IsPart
<1>5. Fits(parts[1][1], s, bound)
  BY <1>3, <1>4 DEF IsPart
<1>6. parts[1][1].kind = "createCollection" => parts[1][1].id \in MadeBy(parts)
  BY <1>2, <1>4, <1>5 DEF MadeBy, Makes, Fits
<1> QED
  BY <1>2, <1>3, <1>4, <1>5, <1>6

(* What is left of a script after its first command, in a store where the  *)
(* collection it may have made is new.                                     *)
LEMMA PartTail ==
  ASSUME NEW cmds, NEW s, NEW bound, IsPart(cmds, s, bound), Head(cmds).kind # "refresh", NEW next,
         \A c \in DOMAIN next.colls : c \in DOMAIN s.colls \/ (Makes(cmds, 1) /\ c = cmds[1].id)
  PROVE  /\ IsPart(Tail(cmds), next, bound)
         /\ \A k \in DOMAIN Tail(cmds) : k + 1 \in DOMAIN cmds /\ Tail(cmds)[k] = cmds[k + 1]
<1> DEFINE rest == Tail(cmds)
<1>1. /\ Len(cmds) \in Nat \ {0} /\ IsScript(rest) /\ Len(rest) = Len(cmds) - 1 /\ 1 \in DOMAIN cmds
      /\ \A i \in 1 .. Len(cmds) - 1 : rest[i] = cmds[i + 1]
  BY ScriptTail DEF IsPart
<1>2. DOMAIN cmds = 1 .. Len(cmds) /\ DOMAIN rest = 1 .. Len(rest)
  BY <1>1 DEF IsPart, IsScript
<1> HIDE DEF rest
<1>3. \A k \in DOMAIN rest : k \in Nat /\ k + 1 # 1 /\ k + 1 \in DOMAIN cmds /\ rest[k] = cmds[k + 1]
  BY <1>1, <1>2
<1>4. ASSUME NEW k \in DOMAIN rest PROVE Fits(rest[k], next, bound)
  <2>1. Fits(cmds[k + 1], s, bound) /\ rest[k] = cmds[k + 1] /\ k + 1 # 1 /\ k + 1 \in DOMAIN cmds
    BY <1>3 DEF IsPart
  <2>2. cmds[k + 1].kind = "createCollection" => cmds[k + 1].id \notin DOMAIN next.colls
    <3> SUFFICES ASSUME cmds[k + 1].kind = "createCollection", cmds[k + 1].id \in DOMAIN next.colls PROVE FALSE
      OBVIOUS
    <3>1. Makes(cmds, k + 1) /\ cmds[k + 1].id \notin DOMAIN s.colls
      BY <2>1 DEF Makes, Fits
    <3>2. Makes(cmds, 1) /\ cmds[k + 1].id = cmds[1].id
      BY <3>1
    <3> QED
      BY <1>1, <2>1, <3>1, <3>2 DEF IsPart
  <2> QED
    BY <2>1, <2>2 DEF Fits
<1>5. ASSUME NEW k \in DOMAIN rest, NEW l \in DOMAIN rest, Makes(rest, k), Makes(rest, l), rest[k].id = rest[l].id
      PROVE  k = l
  <2>1. Makes(cmds, k + 1) /\ Makes(cmds, l + 1) /\ cmds[k + 1].id = cmds[l + 1].id
    BY <1>3, <1>5 DEF Makes
  <2>2. k + 1 = l + 1
    BY <1>3, <2>1 DEF IsPart
  <2> QED
    BY <1>3, <2>2
<1> QED
  BY <1>1, <1>3, <1>4, <1>5 DEF IsPart, rest

(* What is left of the parts.                                              *)
LEMMA OnwardParts ==
  ASSUME NEW parts, NEW s, NEW bound, AreParts(parts, s, bound), parts # <<>>,
         Head(Head(parts)).kind # "refresh", NEW next,
         \A c \in DOMAIN next.colls :
             c \in DOMAIN s.colls \/ (Head(Head(parts)).kind = "createCollection" /\ c = Head(Head(parts)).id)
  PROVE  /\ AreParts(Onward(parts), next, bound) /\ Onward(parts) # <<>>
         /\ MadeBy(Onward(parts)) \subseteq MadeBy(parts)
<1> DEFINE after == Onward(parts)
           cmds == parts[1]
<1>1. /\ Head(parts) = cmds /\ 1 \in DOMAIN parts /\ Head(cmds) = cmds[1] /\ 1 \in DOMAIN cmds
      /\ IsPart(cmds, s, bound)
  BY FirstCommand
<1>2. IsSeq(parts) /\ Len(parts) \in Nat /\ DOMAIN parts = 1 .. Len(parts) /\ parts = [i \in 1 .. Len(parts) |-> parts[i]]
  <2>1. IsSeq(parts)
    BY DEF AreParts
  <2> QED
    BY <2>1 DEF IsSeq
<1>3. /\ IsPart(Tail(cmds), next, bound)
      /\ \A k \in DOMAIN Tail(cmds) : k + 1 \in DOMAIN cmds /\ Tail(cmds)[k] = cmds[k + 1]
  BY <1>1, PartTail DEF Makes
<1>4. after = [i \in 1 .. Len(parts) |-> IF i = 1 THEN Tail(cmds) ELSE parts[i]]
  BY <1>1, <1>2 DEF Onward
<1>5. after = [i \in 1 .. Len(parts) |-> after[i]] /\ after[1] = Tail(cmds)
      /\ \A i \in 1 .. Len(parts) : i # 1 => after[i] = parts[i]
  BY <1>1, <1>2, <1>4
<1> HIDE DEF after
<1>6. IsSeq(after) /\ Len(after) = Len(parts) /\ DOMAIN after = 1 .. Len(parts)
  BY <1>2, <1>5, SeqOfLength
<1> HIDE DEF cmds
<1>7. MadeBy(after) \subseteq MadeBy(parts)
  <2> SUFFICES ASSUME NEW id \in MadeBy(after) PROVE id \in MadeBy(parts)
    OBVIOUS
  <2>1. PICK i \in DOMAIN after : \E k \in DOMAIN after[i] : Makes(after[i], k) /\ after[i][k].id = id
    BY DEF MadeBy
  <2>2. id \in Nat /\ i \in DOMAIN parts
    BY <1>2, <1>6 DEF MadeBy
  <2>3. CASE i = 1
    <3>1. PICK k \in DOMAIN Tail(cmds) : Makes(Tail(cmds), k) /\ Tail(cmds)[k].id = id
      BY <1>5, <2>1, <2>3
    <3>2. k + 1 \in DOMAIN cmds /\ Makes(cmds, k + 1) /\ cmds[k + 1].id = id
      BY <1>3, <3>1 DEF Makes
    <3>3. \E l \in DOMAIN parts[1] : Makes(parts[1], l) /\ parts[1][l].id = id
      BY <3>2 DEF cmds
    <3> QED
      BY <1>1, <2>2, <3>3 DEF MadeBy
  <2>4. CASE i # 1
    <3>1. after[i] = parts[i]
      BY <1>5, <1>6, <2>4
    <3> QED
      BY <2>1, <2>2, <3>1 DEF MadeBy
  <2> QED
    BY <2>3, <2>4
<1>8. \A i \in DOMAIN parts : i # 1 => Len(parts) > 1
  BY <1>2
<1>9. ASSUME NEW i \in DOMAIN after PROVE IsPart(after[i], next, bound)
  <2>1. CASE i = 1
    BY <1>3, <1>5, <2>1
  <2>2. CASE i # 1
    <3>1. after[i] = parts[i] /\ i \in DOMAIN parts /\ MadeBy(parts) = {}
      BY <1>2, <1>5, <1>6, <1>8, <2>2 DEF AreParts
    <3>2. IsPart(parts[i], s, bound)
      BY <3>1 DEF AreParts
    <3>3. \A k \in DOMAIN parts[i] : ~Makes(parts[i], k)
      BY <3>1, <3>2 DEF MadeBy, IsPart, Fits, Makes
    <3> QED
      BY <3>1, <3>2, <3>3 DEF IsPart, Fits, Makes
  <2> QED
    BY <2>1, <2>2
<1>10. after # <<>>
  BY <1>1, <1>2, <1>6
<1> QED
  BY <1>6, <1>7, <1>9, <1>10 DEF AreParts, after

(* Parts still fit when ids are handed out and others' collections appear. *)
LEMMA PartsKept ==
  ASSUME NEW parts, NEW s, NEW bound \in Nat, AreParts(parts, s, bound), NEW more \in Nat, bound <= more, NEW next,
         \A id \in MadeBy(parts) : id \notin DOMAIN next.colls
  PROVE  AreParts(parts, next, more)
<1>1. ASSUME NEW i \in DOMAIN parts, NEW k \in DOMAIN parts[i] PROVE Fits(parts[i][k], next, more)
  <2>1. Fits(parts[i][k], s, bound)
    BY DEF AreParts, IsPart
  <2>2. parts[i][k].kind = "createCollection" => parts[i][k].id \in MadeBy(parts)
    BY <2>1 DEF Fits, MadeBy, Makes
  <2> QED
    BY <2>1, <2>2 DEF Fits
<1> QED
  BY <1>1 DEF AreParts, IsPart

(* The ids that parts make are not in the store.                           *)
LEMMA PartsAreNew ==
  ASSUME NEW parts, NEW s, NEW bound, AreParts(parts, s, bound), NEW id \in MadeBy(parts)
  PROVE  id \in Nat /\ id < bound /\ id \notin DOMAIN s.colls
<1>1. PICK i \in DOMAIN parts : \E k \in DOMAIN parts[i] : Makes(parts[i], k) /\ parts[i][k].id = id
  BY DEF MadeBy
<1>2. PICK k \in DOMAIN parts[i] : Makes(parts[i], k) /\ parts[i][k].id = id
  BY <1>1
<1>3. Fits(parts[i][k], s, bound)
  BY DEF AreParts, IsPart
<1> QED
  BY <1>2, <1>3 DEF Fits, Makes

(* A handler with such parts.                                              *)
LEMMA HandlerParts ==
  ASSUME NEW call, NEW parts, NEW held, call.parts = parts, call.held = held, NEW s, NEW bound,
         AreParts(parts, s, bound), parts # <<>>, held = None \/ IsReq(held)
  PROVE  IsHandler(call, s, bound)
  BY DEF IsHandler

(* The other handlers fit what a command of c makes of the store.          *)
LEMMA OtherHandler ==
  ASSUME CallsTyped, StoreInv, NEW c \in Slots, NEW d \in Slots, c # d, NEW changes, NEW next,
         \A id \in DOMAIN next.colls : id \in DOMAIN store.colls \/ id \in MadeBy(calls[c].parts)
  PROVE  IsHandler(Others(c, changes)[d], next, nextId) /\ Others(c, changes)[d].parts = calls[d].parts
<1>1. /\ nextId \in Nat /\ IsHandler(calls[d], store, nextId) /\ IsCall(calls[d])
      /\ MadeBy(calls[c].parts) \cap MadeBy(calls[d].parts) = {}
  BY DEF StoreInv, CallsTyped
<1>2. \A id \in MadeBy(calls[d].parts) : id \notin DOMAIN next.colls
  BY <1>1, PartsAreNew DEF IsHandler
<1>3. AreParts(calls[d].parts, next, nextId)
  BY <1>1, <1>2, PartsKept DEF IsHandler
<1>4. IsHandler(calls[d], next, nextId)
  BY <1>1, <1>3 DEF IsHandler
<1>5. CASE calls[d] # Idle /\ changes
  <2>1. Others(c, changes)[d] = [calls[d] EXCEPT !.mixed = TRUE]
    BY <1>5 DEF Others
  <2>2. Others(c, changes)[d].parts = calls[d].parts /\ Others(c, changes)[d].held = calls[d].held
    BY <1>1, <2>1 DEF IsCall
  <2> QED
    BY <1>4, <1>5, <2>2 DEF IsHandler
<1>6. CASE ~(calls[d] # Idle /\ changes)
  <2>1. Others(c, changes)[d] = calls[d]
    BY <1>6 DEF Others
  <2> QED
    BY <1>4, <2>1
<1> QED
  BY <1>5, <1>6

(* A step of the store, for handler c.                                     *)
LEMMA CommandCoherent ==
  ASSUME CallsTyped, StoreInv, NEW c \in Slots, NEW call, NEW changes, Coherent(store', nextId),
         calls' = [Others(c, changes) EXCEPT ![c] = call],
         \A id \in DOMAIN store'.colls : id \in DOMAIN store.colls \/ id \in MadeBy(calls[c].parts),
         IsHandler(call, store', nextId), MadeBy(call.parts) \subseteq MadeBy(calls[c].parts),
         UNCHANGED <<tree, refreshes, nextId, snapshot>>
  PROVE  StoreInv'
<1> DEFINE rest == Others(c, changes)
<1>1. rest = [d \in Slots |-> rest[d]]
  BY DEF Others
<1>2. \A d \in Slots : d # c => IsHandler(rest[d], store', nextId) /\ rest[d].parts = calls[d].parts
  BY OtherHandler
<1> HIDE DEF rest
<1>3. \A d \in Slots : calls'[d] = IF d = c THEN call ELSE rest[d]
  BY <1>1 DEF rest
<1>4. \A d \in Slots : IsHandler(calls'[d], store', nextId) /\ MadeBy(calls'[d].parts) \subseteq MadeBy(calls[d].parts)
  BY <1>2, <1>3
<1>5. \A d, e \in Slots : d # e => MadeBy(calls'[d].parts) \cap MadeBy(calls'[e].parts) = {}
  BY <1>4 DEF StoreInv
<1> QED
  BY <1>4, <1>5 DEF StoreInv

(* What a command of a handler makes of the store.                         *)
LEMMA CommandFits ==
  ASSUME StoreInv, NEW c \in Slots, calls[c] # Idle, NEW cmd, cmd = Command(c), Allowed(store, cmd, calls[c].held)
  PROVE  LET next == After(store, cmd, calls[c].held) IN
         /\ Coherent(next, nextId)
         /\ \A id \in DOMAIN next.colls :
               /\ id \in DOMAIN store.colls \/ (cmd.kind = "createCollection" /\ id = cmd.id)
               /\ id \in DOMAIN store.colls \/ id \in MadeBy(calls[c].parts)
<1>1. /\ IsHandler(calls[c], store, nextId) /\ nextId \in Nat /\ Coherent(store, nextId)
      /\ AreParts(calls[c].parts, store, nextId) /\ calls[c].parts # <<>>
      /\ calls[c].held = None \/ IsReq(calls[c].held)
  BY DEF StoreInv, IsHandler
<1>2. Fits(cmd, store, nextId) /\ (cmd.kind = "createCollection" => cmd.id \in MadeBy(calls[c].parts))
  BY <1>1, FirstCommand DEF Command
<1>3. LET next == After(store, cmd, calls[c].held) IN
         /\ Coherent(next, nextId)
         /\ \A id \in DOMAIN next.colls : id \in DOMAIN store.colls \/ (cmd.kind = "createCollection" /\ id = cmd.id)
  BY <1>1, <1>2, AfterCoherent
<1> QED
  BY <1>2, <1>3

(* A handler whose command failed.                                         *)
LEMMA RejectedHandler ==
  ASSUME StoreInv, CallsTyped, NEW c \in Slots, calls[c] # Idle, NEW next,
         \A id \in DOMAIN next.colls : id \in DOMAIN store.colls \/ id \in MadeBy(calls[c].parts)
  PROVE  IsHandler(Rejected(calls[c]), next, nextId) /\ MadeBy(Rejected(calls[c]).parts) \subseteq MadeBy(calls[c].parts)
<1> DEFINE call == calls[c]
           rest == Tail(call.parts)
<1>1. /\ IsCall(call) /\ AreParts(call.parts, store, nextId) /\ call.parts # <<>> /\ nextId \in Nat
      /\ call.held = None \/ IsReq(call.held)
  BY DEF StoreInv, CallsTyped, IsHandler
<1>2. CASE Rejected(call) = Idle
  BY <1>2, IdleHandler
<1>3. CASE Rejected(call) # Idle
  <2>1. Rejected(call) = [call EXCEPT !.parts = Tail(@), !.changed = FALSE] /\ Len(call.parts) > 1
    BY <1>3 DEF Rejected
  <2>2. Rejected(call).parts = rest /\ Rejected(call).held = call.held
    BY <1>1, <2>1 DEF IsCall
  <2>3. Len(call.parts) # 1 /\ MadeBy(call.parts) = {}
    <3>1. Len(call.parts) > 1
      BY <2>1
    <3>2. Len(call.parts) # 1
      <4>1. Len(call.parts) \in Nat
        BY <1>1 DEF AreParts, IsSeq
      <4>2. \A n \in Nat : n > 1 => n # 1
        BY ONLY TRUE
      <4> QED
        BY <3>1, <4>1, <4>2, Zenon
    <3>3. MadeBy(call.parts) = {}
      BY <1>1, <3>1, Zenon DEF AreParts
    <3> QED
      BY <3>2, <3>3
  <2>4. AreParts(rest, store, nextId) /\ rest # <<>> /\ MadeBy(rest) \subseteq MadeBy(call.parts)
    <3> HIDE DEF call
    <3> QED
      BY <1>1, <2>3, PartsTail
  <2>5. AreParts(rest, next, nextId)
    BY <1>1, <2>3, <2>4, PartsKept
  <2> QED
    BY <1>1, <2>2, <2>4, <2>5, HandlerParts
<1> QED
  BY <1>2, <1>3

(* A handler whose command was executed.                                   *)
LEMMA AnsweredHandler ==
  ASSUME StoreInv, CallsTyped, NEW c \in Slots, calls[c] # Idle, NEW cmd, cmd = Command(c), cmd.kind # "refresh",
         Allowed(store, cmd, calls[c].held)
  PROVE  /\ IsHandler(Answered(calls[c], cmd), After(store, cmd, calls[c].held), nextId)
         /\ MadeBy(Answered(calls[c], cmd).parts) \subseteq MadeBy(calls[c].parts)
<1> DEFINE call == calls[c]
           next == After(store, cmd, call.held)
           differs == next # store
           held == IF cmd.kind = "load" THEN Loaded(store, cmd) ELSE call.held
           rest == Onward(call.parts)
           after == [call EXCEPT !.parts = Onward(@), !.held = held, !.changed = @ \/ differs]
<1>1. /\ IsCall(call) /\ AreParts(call.parts, store, nextId) /\ call.parts # <<>> /\ nextId \in Nat
      /\ call.held = None \/ IsReq(call.held)
  BY DEF StoreInv, CallsTyped, IsHandler
<1>2. CASE Answered(call, cmd) = Idle
  BY <1>2, IdleHandler
<1>3. CASE Answered(call, cmd) # Idle
  <2>1. Answered(call, cmd) = after
    BY <1>3 DEF Answered
  <2>2. ASSUME NEW p, NEW h, NEW d \in BOOLEAN
        PROVE  LET x == [call EXCEPT !.parts = p, !.held = h, !.changed = @ \/ d] IN x.parts = p /\ x.held = h
    BY <1>1 DEF IsCall
  <2>3. differs \in BOOLEAN
    OBVIOUS
  <2>4. held = None \/ IsReq(held)
    BY <1>1 DEF Loaded, StoreInv, Coherent, Sane, Filed
  <2>5. \A id \in DOMAIN next.colls : id \in DOMAIN store.colls \/ (cmd.kind = "createCollection" /\ id = cmd.id)
    BY CommandFits
  <2>6. AreParts(rest, next, nextId) /\ rest # <<>> /\ MadeBy(rest) \subseteq MadeBy(call.parts)
    BY <1>1, <2>5, OnwardParts DEF Command
  <2> HIDE DEF held, differs, next
  <2>7. after.parts = rest /\ after.held = held
    BY <2>2, <2>3
  <2> HIDE DEF after, rest
  <2>8. IsHandler(after, next, nextId)
    BY <2>4, <2>6, <2>7, HandlerParts
  <2> QED
    BY <2>1, <2>6, <2>7, <2>8 DEF next
<1> QED
  BY <1>2, <1>3

(* A command is executed.                                                  *)
LEMMA CommandRunsCoherent == ASSUME CallsTyped, StoreInv, CommandRuns PROVE StoreInv'
<1>1. PICK c \in Slots :
        /\ calls[c] # Idle /\ calls[c].wait = 0 /\ Command(c).kind # "refresh"
        /\ LET cmd == Command(c)
               ok == Allowed(store, cmd, calls[c].held)
               next == IF ok THEN After(store, cmd, calls[c].held) ELSE store IN
           /\ store' = next
           /\ calls' = [Others(c, next # store) EXCEPT ![c] = IF ok THEN Answered(@, cmd) ELSE Rejected(@)]
  BY DEF CommandRuns
<1> DEFINE cmd == Command(c)
           ok == Allowed(store, cmd, calls[c].held)
           next == IF ok THEN After(store, cmd, calls[c].held) ELSE store
           call == IF ok THEN Answered(calls[c], cmd) ELSE Rejected(calls[c])
<1>2. Others(c, next # store)[c] = calls[c]
  BY DEF Others
<1>3. store' = next /\ calls' = [Others(c, next # store) EXCEPT ![c] = call]
  BY <1>1, <1>2
<1>4. /\ Coherent(next, nextId)
      /\ \A id \in DOMAIN next.colls : id \in DOMAIN store.colls \/ id \in MadeBy(calls[c].parts)
  <2>1. CASE ok
    BY <1>1, <2>1, CommandFits
  <2>2. CASE ~ok
    BY <2>2 DEF StoreInv
  <2> QED
    BY <2>1, <2>2
<1>5. IsHandler(call, next, nextId) /\ MadeBy(call.parts) \subseteq MadeBy(calls[c].parts)
  <2>1. CASE ok
    BY <1>1, <2>1, AnsweredHandler
  <2>2. CASE ~ok
    BY <1>1, <1>4, <2>2, RejectedHandler
  <2> QED
    BY <2>1, <2>2
<1>6. UNCHANGED <<tree, refreshes, nextId, snapshot>>
  BY DEF CommandRuns
<1> HIDE DEF call, next
<1> QED
  BY <1>3, <1>4, <1>5, <1>6, CommandCoherent

(* A command fails, before or after the store has executed it.             *)
LEMMA CommandFailsCoherent == ASSUME CallsTyped, StoreInv, CommandFails PROVE StoreInv'
<1>1. PICK c \in Slots, reached \in BOOLEAN :
        /\ calls[c] # Idle
        /\ LET cmd == Command(c)
               ok == reached /\ Allowed(store, cmd, calls[c].held)
               next == IF ok THEN After(store, cmd, calls[c].held) ELSE store IN
           /\ store' = next
           /\ calls' = [Others(c, next # store) EXCEPT ![c] = Rejected(@)]
  BY DEF CommandFails
<1> DEFINE cmd == Command(c)
           ok == reached /\ Allowed(store, cmd, calls[c].held)
           next == IF ok THEN After(store, cmd, calls[c].held) ELSE store
           call == Rejected(calls[c])
<1>2. Others(c, next # store)[c] = calls[c]
  BY DEF Others
<1>3. store' = next /\ calls' = [Others(c, next # store) EXCEPT ![c] = call]
  BY <1>1, <1>2
<1>4. /\ Coherent(next, nextId)
      /\ \A id \in DOMAIN next.colls : id \in DOMAIN store.colls \/ id \in MadeBy(calls[c].parts)
  <2>1. CASE ok
    BY <1>1, <2>1, CommandFits
  <2>2. CASE ~ok
    BY <2>2 DEF StoreInv
  <2> QED
    BY <2>1, <2>2
<1>5. IsHandler(call, next, nextId) /\ MadeBy(call.parts) \subseteq MadeBy(calls[c].parts)
  BY <1>1, <1>4, RejectedHandler
<1>6. UNCHANGED <<tree, refreshes, nextId, snapshot>>
  BY DEF CommandFails
<1> HIDE DEF call, next
<1> QED
  BY <1>3, <1>4, <1>5, <1>6, CommandCoherent

-------------------------------------------------------------------------------
(* Refreshes.                                                              *)

(* A step that leaves the store and the commands to come.                  *)
LEMMA HandlersCoherent ==
  ASSUME StoreInv, UNCHANGED <<store, nextId>>, Coherent(tree', nextId), Coherent(snapshot', nextId),
         \A r \in refreshes' : Coherent(r.read, nextId),
         \A c \in Slots : IsHandler(calls'[c], store, nextId) /\ MadeBy(calls'[c].parts) \subseteq MadeBy(calls[c].parts)
  PROVE  StoreInv'
<1>1. \A c, d \in Slots : c # d => MadeBy(calls'[c].parts) \cap MadeBy(calls'[d].parts) = {}
  BY DEF StoreInv
<1> QED
  BY <1>1 DEF StoreInv

(* Steps of other parts.                                                   *)
LEMMA StoreStays ==
  ASSUME StoreInv, UNCHANGED <<store, tree, snapshot, nextId, refreshes, calls>>
  PROVE  StoreInv'
  BY DEF StoreInv

(* The tree before the first refresh.                                      *)
LEMMA EmptyCoherent == ASSUME NEW bound PROVE Coherent(NoTree, bound)
<1>1. IsForest({}, <<>>)
  <2>1. DOMAIN <<>> = {} /\ IsFiniteSet({}) /\ <<>> = [c \in {} |-> <<>>[c]]
    BY FS_EmptySet
  <2>2. \E depth : Deeper(<<>>, depth)
    BY <2>1 DEF Deeper
  <2> QED
    BY <2>1, <2>2 DEF IsForest
<1>2. Filed(<<>>, <<>>)
  <2>1. DOMAIN <<>> = {} /\ IsFiniteSet({}) /\ <<>> = [c \in {} |-> <<>>[c]]
    BY FS_EmptySet
  <2> QED
    BY <2>1 DEF Filed
<1>3. NoTree.projects = {} /\ NoTree.colls = <<>> /\ NoTree.reqs = <<>>
  BY DEF NoTree, EmptyTree
<1>4. NoTree = [version |-> NoTree.version, projects |-> NoTree.projects, colls |-> NoTree.colls, reqs |-> NoTree.reqs]
  BY DEF NoTree, EmptyTree
<1> QED
  BY <1>1, <1>2, <1>3, <1>4, FS_EmptySet DEF Coherent, Sane

(* The refreshes under way are cancelled or begun.                         *)
LEMMA RefreshingCoherent ==
  ASSUME StoreInv, Refreshing, UNCHANGED <<store, tree, snapshot, nextId>>,
         \A c \in Slots : IsHandler(calls'[c], store, nextId) /\ MadeBy(calls'[c].parts) \subseteq MadeBy(calls[c].parts)
  PROVE  StoreInv'
<1> DEFINE new == [seq |-> refreshSequence + 1, read |-> NoTree]
<1>1. refreshes' = refreshes \union {new} /\ new.read = NoTree
  BY DEF Refreshing
<1> HIDE DEF new
<1>2. \A r \in refreshes' : Coherent(r.read, nextId)
  BY <1>1, EmptyCoherent DEF StoreInv
<1> QED
  BY <1>2, HandlersCoherent DEF StoreInv

(* The user asks for another refresh.                                      *)
LEMMA RetryCoherent == ASSUME StoreInv, Retry PROVE StoreInv'
<1>1. \A c \in Slots : IsHandler(calls'[c], store, nextId) /\ MadeBy(calls'[c].parts) \subseteq MadeBy(calls[c].parts)
  BY DEF StoreInv, Retry
<1> QED
  BY <1>1, RefreshingCoherent DEF Retry

(* The refresh of a handler begins.                                        *)
LEMMA RefreshStartsCoherent == ASSUME CallsTyped, StoreInv, RefreshStarts PROVE StoreInv'
<1>1. PICK c \in Slots :
        /\ Refreshing /\ calls[c] # Idle
        /\ calls' = [calls EXCEPT ![c].wait = refreshSequence + 1, ![c].changed = FALSE]
        /\ UNCHANGED <<store, tree, nextId, snapshot>>
  BY DEF RefreshStarts
<1> DEFINE call == [calls[c] EXCEPT !.wait = refreshSequence + 1, !.changed = FALSE]
<1>2. call.parts = calls[c].parts /\ call.held = calls[c].held
  BY DEF CallsTyped, IsCall
<1>3. \A d \in Slots : calls'[d] = IF d = c THEN call ELSE calls[d]
  BY <1>1 DEF CallsTyped
<1> HIDE DEF call
<1>4. IsHandler(call, store, nextId)
  BY <1>1, <1>2 DEF StoreInv, IsHandler
<1>5. \A d \in Slots : IsHandler(calls'[d], store, nextId) /\ MadeBy(calls'[d].parts) \subseteq MadeBy(calls[d].parts)
  BY <1>2, <1>3, <1>4 DEF StoreInv
<1> QED
  BY <1>1, <1>5, RefreshingCoherent

(* A refresh reads the store.                                              *)
LEMMA RefreshReadCoherent == ASSUME TreeInv, StoreInv, RefreshRead PROVE StoreInv'
<1>1. PICK r \in refreshes :
        /\ refreshes' = (refreshes \ {r}) \union {[r EXCEPT !.read = store]}
        /\ UNCHANGED <<store, tree, calls, nextId, snapshot>>
  BY DEF RefreshRead
<1> DEFINE new == [r EXCEPT !.read = store]
<1>2. new.read = store
  BY DEF TreeInv, ReadsTyped
<1>3. refreshes' = (refreshes \ {r}) \union {new}
  BY <1>1
<1> HIDE DEF new
<1>4. \A q \in refreshes' : Coherent(q.read, nextId)
  BY <1>2, <1>3 DEF StoreInv
<1>5. \A c \in Slots : IsHandler(calls'[c], store, nextId) /\ MadeBy(calls'[c].parts) \subseteq MadeBy(calls[c].parts)
  BY <1>1 DEF StoreInv
<1> QED
  BY <1>1, <1>4, <1>5, HandlersCoherent DEF StoreInv

(* The refresh a handler waited for has ended.                             *)
LEMMA ResumedHandler ==
  ASSUME NEW call, IsCall(call), NEW s, NEW bound, IsHandler(call, s, bound), NEW r, r.seq # 0, NEW ok
  PROVE  /\ IsHandler(Resumed(call, r, ok), s, bound)
         /\ MadeBy(Resumed(call, r, ok).parts) \subseteq MadeBy(call.parts)
<1>1. CASE Resumed(call, r, ok) \in {call, Idle}
  BY <1>1, IdleHandler
<1>2. CASE Resumed(call, r, ok) \notin {call, Idle}
  <2> DEFINE rest == Tail(call.parts)
  <2>1. Resumed(call, r, ok) = [call EXCEPT !.parts = Tail(@), !.wait = 0] /\ Len(call.parts) # 1
    BY <1>2 DEF Resumed
  <2>2. Resumed(call, r, ok).parts = rest /\ Resumed(call, r, ok).held = call.held
    BY <2>1 DEF IsCall
  <2>3. call # Idle
    BY <1>2, IdleCall DEF Resumed
  <2>4. AreParts(call.parts, s, bound) /\ call.parts # <<>> /\ (call.held = None \/ IsReq(call.held))
    BY <2>3 DEF IsHandler
  <2>5. AreParts(rest, s, bound) /\ rest # <<>> /\ MadeBy(rest) \subseteq MadeBy(call.parts)
    BY <2>1, <2>4, PartsTail
  <2> HIDE DEF rest
  <2> QED
    BY <2>2, <2>4, <2>5, HandlerParts
<1> QED
  BY <1>1, <1>2

(* A refresh ends.                                                         *)
LEMMA RefreshEndsCoherent ==
  ASSUME TreeInv, StoreInv, RefreshDone \/ RefreshFails
  PROVE  StoreInv'
<1>1. PICK r \in refreshes : \E ok :
        /\ calls' = [c \in Slots |-> Resumed(calls[c], r, ok)] /\ UNCHANGED <<store, nextId, snapshot>>
        /\ refreshes' = refreshes \ {r} /\ (tree' = tree \/ tree' = r.read)
  BY DEF RefreshDone, RefreshFails
<1>2. \A c \in Slots : IsHandler(calls'[c], store, nextId) /\ MadeBy(calls'[c].parts) \subseteq MadeBy(calls[c].parts)
  <2>1. r.seq # 0
    BY DEF TreeInv, ReadsTyped
  <2> QED
    BY <1>1, <2>1, ResumedHandler DEF TreeInv, CallsTyped, StoreInv
<1>3. \A q \in refreshes' : Coherent(q.read, nextId)
  BY <1>1 DEF StoreInv
<1>4. Coherent(tree', nextId) /\ Coherent(snapshot', nextId)
  BY <1>1 DEF StoreInv
<1> QED
  BY <1>1, <1>2, <1>3, <1>4, HandlersCoherent

-------------------------------------------------------------------------------
(* A handler starts: the ids its commands make are the next ones.          *)

(* What a handler offers the store as it starts: the ids from first on are *)
(* new.                                                                    *)
IsOffered(cmd, first, next) ==
    /\ cmd.kind = "createCollection" => cmd.id \in Nat /\ first <= cmd.id /\ cmd.id < next
    /\ cmd.kind = "updateCollection" => cmd.order \in Nat
    /\ cmd.kind = "saveEnvelope" => cmd.id \in Nat /\ cmd.id < next /\ IsReq(cmd.row)
    /\ cmd.kind = "saveLoaded" => cmd.id \in Nat /\ cmd.id < next

IsOffer(cmds, first, next) ==
    /\ IsScript(cmds) /\ \A k \in DOMAIN cmds : IsOffered(cmds[k], first, next)
    /\ \A k, l \in DOMAIN cmds : Makes(cmds, k) /\ Makes(cmds, l) /\ cmds[k].id = cmds[l].id => k = l

AreOffers(parts, first, next) ==
    /\ IsSeq(parts) /\ parts # <<>> /\ \A i \in DOMAIN parts : IsOffer(parts[i], first, next)
    /\ Len(parts) > 1 => MadeBy(parts) = {}

(* What is offered fits the store.                                         *)
LEMMA OffersFit ==
  ASSUME NEW parts, NEW first \in Nat, NEW next \in Nat, AreOffers(parts, first, next), NEW s, Coherent(s, first)
  PROVE  AreParts(parts, s, next) /\ \A id \in MadeBy(parts) : first <= id
<1>1. \A c \in DOMAIN s.colls : c \in Nat /\ c < first
  BY DEF Coherent, Sane, IsForest
<1>2. ASSUME NEW i \in DOMAIN parts, NEW k \in DOMAIN parts[i]
      PROVE  /\ Fits(parts[i][k], s, next)
             /\ Makes(parts[i], k) => first <= parts[i][k].id
  <2>1. IsOffered(parts[i][k], first, next)
    BY DEF AreOffers, IsOffer
  <2>2. parts[i][k].kind = "createCollection" => parts[i][k].id \notin DOMAIN s.colls
    <3> SUFFICES ASSUME parts[i][k].kind = "createCollection", parts[i][k].id \in DOMAIN s.colls PROVE FALSE
      OBVIOUS
    <3>1. parts[i][k].id \in Nat /\ first <= parts[i][k].id /\ parts[i][k].id < first
      BY <1>1, <2>1 DEF IsOffered
    <3> QED
      BY <3>1
  <2> QED
    BY <2>1, <2>2 DEF IsOffered, Fits, Makes
<1>3. \A i \in DOMAIN parts : IsPart(parts[i], s, next)
  BY <1>2 DEF AreOffers, IsOffer, IsPart
<1>4. \A id \in MadeBy(parts) : first <= id
  BY <1>2 DEF MadeBy
<1> QED
  BY <1>3, <1>4 DEF AreOffers, AreParts

(* A handler starts.                                                       *)
LEMMA StartCoherent ==
  ASSUME TreeInv, StoreInv, NEW work, NEW parts, NEW tolerant, NEW made \in Nat, Start(work, parts, tolerant, made),
         AreOffers(parts, nextId, nextId + made)
  PROVE  StoreInv'
<1> DEFINE mixed == \/ tree.version # store.version
                    \/ \E c \in Slots : calls[c] # Idle
           call == [Idle EXCEPT !.parts = parts, !.work = work, !.tolerant = tolerant, !.mixed = mixed]
           next == nextId + made
<1>1. /\ calls' = [calls EXCEPT ![FreeSlot] = call] /\ \E c \in Slots : calls[c] = Idle
      /\ nextId' = next /\ UNCHANGED <<store, tree, refreshes, snapshot>>
  BY DEF Start
<1>2. call.parts = parts /\ call.held = None
  BY DEF Idle
<1> HIDE DEF call
<1>3. FreeSlot \in Slots
  BY <1>1 DEF FreeSlot
<1>4. \A c \in Slots : calls'[c] = IF c = FreeSlot THEN call ELSE calls[c]
  BY <1>1, <1>3 DEF TreeInv, CallsTyped
<1>5. nextId \in Nat /\ next \in Nat /\ nextId <= next
  BY DEF StoreInv
<1> HIDE DEF next
<1>6. \A s : Coherent(s, nextId) => Coherent(s, next)
  BY <1>5, CoherentMore
<1>7. AreOffers(parts, nextId, next) /\ Coherent(store, nextId)
  BY DEF StoreInv, next
<1>8. AreParts(parts, store, next) /\ \A id \in MadeBy(parts) : nextId <= id
  BY <1>5, <1>7, OffersFit
<1>9. IsHandler(call, store, next)
  BY <1>2, <1>7, <1>8, HandlerParts DEF AreOffers
<1>10. ASSUME NEW c \in Slots
       PROVE  IsHandler(calls[c], store, next) /\ MadeBy(calls[c].parts) \cap MadeBy(parts) = {}
  <2>1. IsHandler(calls[c], store, nextId)
    BY DEF StoreInv
  <2>2. AreParts(calls[c].parts, store, nextId)
    BY <2>1 DEF IsHandler
  <2>3. \A id \in MadeBy(calls[c].parts) : id \in Nat /\ id < nextId /\ id \notin DOMAIN store.colls
    BY <2>2, PartsAreNew
  <2>4. AreParts(calls[c].parts, store, next)
    BY <1>5, <2>2, <2>3, PartsKept
  <2>5. MadeBy(calls[c].parts) \cap MadeBy(parts) = {}
    <3> SUFFICES ASSUME NEW id \in MadeBy(calls[c].parts), id \in MadeBy(parts) PROVE FALSE
      OBVIOUS
    <3>1. id \in Nat /\ id < nextId /\ nextId <= id
      BY <1>8, <2>3
    <3> QED
      BY <1>5, <3>1
  <2> QED
    BY <2>1, <2>4, <2>5 DEF IsHandler
<1>11. \A c \in Slots : IsHandler(calls'[c], store, next)
  BY <1>4, <1>9, <1>10
<1>12. \A c, d \in Slots : c # d => MadeBy(calls'[c].parts) \cap MadeBy(calls'[d].parts) = {}
  BY <1>2, <1>4, <1>10 DEF StoreInv
<1>13. Coherent(store, next) /\ Coherent(tree, next) /\ Coherent(snapshot, next) /\ \A r \in refreshes : Coherent(r.read, next)
  BY <1>6 DEF StoreInv
<1> QED
  BY <1>1, <1>5, <1>11, <1>12, <1>13 DEF StoreInv

(* Short sequences.                                                        *)
LEMMA Tuples ==
  ASSUME NEW x, NEW y, NEW z
  PROVE  /\ IsSeq(<<x>>) /\ IsSeq(<<x, y>>) /\ <<x>> \o <<y>> = <<x, y>> /\ <<x, y>> \o <<z>> = <<x, y, z>>
         /\ DOMAIN <<x>> = {1} /\ DOMAIN <<x, y>> = 1 .. 2
<1>1. <<x>> \in Seq({x, y, z}) /\ <<x, y>> \in Seq({x, y, z}) /\ <<z>> \in Seq({x, y, z})
  OBVIOUS
<1>2. IsSeq(<<x>>) /\ IsSeq(<<y>>) /\ IsSeq(<<z>>) /\ IsSeq(<<x, y>>) /\ IsSeq(<<x, y, z>>)
  <2>1. <<y>> \in Seq({x, y, z}) /\ <<x, y, z>> \in Seq({x, y, z})
    OBVIOUS
  <2> QED
    BY <1>1, <2>1, SeqOver
<1>3. <<x>> \o <<y>> = <<x, y>>
  <2> DEFINE a == <<x>>
             b == <<y>>
             c == <<x, y>>
  <2>1. Len(a) = 1 /\ Len(b) = 1 /\ Len(c) = 2 /\ a[1] = x /\ b[1] = y /\ c[1] = x /\ c[2] = y
    OBVIOUS
  <2> HIDE DEF a, b, c
  <2>2. /\ IsSeq(a \o b) /\ Len(a \o b) = Len(a) + Len(b)
        /\ \A i \in 1 .. Len(a) : (a \o b)[i] = a[i]
        /\ \A i \in 1 .. Len(b) : (a \o b)[Len(a) + i] = b[i]
    <3>1. IsSeq(a) /\ IsSeq(b)
      BY <1>2 DEF a, b
    <3> QED
      BY ONLY <3>1, Joining
  <2> DEFINE joined == a \o b
  <2> HIDE DEF joined
  <2>3. Len(joined) = 2 /\ joined[1] = x /\ joined[2] = y
    BY <2>1, <2>2 DEF joined
  <2>4. Len(joined) = Len(c) /\ \A i \in 1 .. Len(joined) : joined[i] = c[i]
    BY <2>1, <2>3
  <2>5. joined = c
    BY <1>2, <2>2, <2>4, SameSeq DEF joined, c
  <2> QED
    BY <2>5 DEF joined, a, b, c
<1>4. <<x, y>> \o <<z>> = <<x, y, z>>
  <2> DEFINE a == <<x, y>>
             b == <<z>>
             c == <<x, y, z>>
  <2>1. Len(a) = 2 /\ Len(b) = 1 /\ Len(c) = 3 /\ a[1] = x /\ a[2] = y /\ b[1] = z /\ c[1] = x /\ c[2] = y /\ c[3] = z
    OBVIOUS
  <2> HIDE DEF a, b, c
  <2>2. /\ IsSeq(a \o b) /\ Len(a \o b) = Len(a) + Len(b)
        /\ \A i \in 1 .. Len(a) : (a \o b)[i] = a[i]
        /\ \A i \in 1 .. Len(b) : (a \o b)[Len(a) + i] = b[i]
    <3>1. IsSeq(a) /\ IsSeq(b)
      BY <1>2 DEF a, b
    <3> QED
      BY ONLY <3>1, Joining
  <2> DEFINE joined == a \o b
  <2> HIDE DEF joined
  <2>3. Len(joined) = 3 /\ joined[1] = x /\ joined[2] = y /\ joined[3] = z
    BY <2>1, <2>2 DEF joined
  <2>4. Len(joined) = Len(c) /\ \A i \in 1 .. Len(joined) : joined[i] = c[i]
    BY <2>1, <2>3
  <2>5. joined = c
    BY <1>2, <2>2, <2>4, SameSeq DEF joined, c
  <2> QED
    BY <2>5 DEF joined, a, b, c
<1> QED
  BY <1>2, <1>3, <1>4

(* Commands and the refresh after them.                                    *)
LEMMA BodyOffer ==
  ASSUME NEW body, IsSeq(body), NEW first, NEW next,
         \A k \in DOMAIN body : IsOffered(body[k], first, next) /\ body[k].kind # "refresh",
         \A k, l \in DOMAIN body : Makes(body, k) /\ Makes(body, l) /\ body[k].id = body[l].id => k = l
  PROVE  IsOffer(body \o <<Refresh>>, first, next)
<1> DEFINE last == <<Refresh>>
           cmds == body \o last
           n == Len(body)
<1>1. IsSeq(last) /\ Len(last) = 1 /\ last[1] = Refresh
  BY DEF IsSeq
<1>2. Refresh.kind = "refresh" /\ IsOffered(Refresh, first, next)
  BY DEF Refresh, IsOffered
<1> HIDE DEF last
<1>3. /\ IsSeq(cmds) /\ n \in Nat /\ Len(cmds) = n + 1 /\ DOMAIN body = 1 .. n /\ DOMAIN cmds = 1 .. n + 1
      /\ \A i \in 1 .. n : cmds[i] = body[i]
      /\ cmds[n + 1] = Refresh
  <2>1. /\ IsSeq(cmds) /\ n \in Nat /\ Len(cmds) = n + Len(last) /\ DOMAIN body = 1 .. n
        /\ DOMAIN cmds = 1 .. n + Len(last)
        /\ \A i \in 1 .. n : cmds[i] = body[i]
        /\ \A i \in 1 .. Len(last) : cmds[n + i] = last[i]
    <3>1. IsSeq(body) /\ IsSeq(last)
      BY <1>1
    <3> QED
      BY ONLY <3>1, Joining
  <2> HIDE DEF cmds, n
  <2> QED
    BY <1>1, <2>1
<1> HIDE DEF cmds, n
<1>4. \A i \in DOMAIN cmds : (i \in DOMAIN body /\ i # n + 1 /\ cmds[i] = body[i]) \/ (i = n + 1 /\ cmds[i] = Refresh)
  BY <1>3
<1>5. \A k \in DOMAIN cmds : IsOffered(cmds[k], first, next) /\ (cmds[k].kind = "refresh" <=> k = Len(cmds))
  BY <1>2, <1>3, <1>4
<1>6. cmds # <<>>
  BY <1>3
<1>7. \A k \in DOMAIN cmds : Makes(cmds, k) => k \in DOMAIN body /\ Makes(body, k) /\ cmds[k] = body[k]
  BY <1>2, <1>4 DEF Makes
<1>8. \A k, l \in DOMAIN cmds : Makes(cmds, k) /\ Makes(cmds, l) /\ cmds[k].id = cmds[l].id => k = l
  BY <1>7
<1>9. IsScript(cmds)
  BY <1>3, <1>5, <1>6 DEF IsScript, IsSeq
<1> QED
  BY <1>5, <1>8, <1>9 DEF IsOffer, cmds, last

(* One part.                                                               *)
LEMMA OnePart ==
  ASSUME NEW cmds, NEW first, NEW next, IsOffer(cmds, first, next)
  PROVE  AreOffers(<<cmds>>, first, next)
<1> DEFINE parts == <<cmds>>
<1>1. IsSeq(parts) /\ parts # <<>> /\ Len(parts) = 1 /\ DOMAIN parts = {1} /\ parts[1] = cmds
  BY DEF IsSeq
<1> HIDE DEF parts
<1> QED
  BY <1>1 DEF AreOffers, parts

(* Commands that are numbered.                                             *)
LEMMA NumberedOffer ==
  ASSUME NEW body, NEW first, NEW next, Numbered(body, first, next)
  PROVE  LET cmds == body \o <<Refresh>> IN AreOffers(<<cmds>>, first, next) /\ IsScript(cmds)
<1>1. ASSUME NEW k \in DOMAIN body PROVE IsOffered(body[k], first, next) /\ body[k].kind # "refresh"
  BY DEF Numbered, Plain, Makes, IsOffered
<1>2. IsSeq(body) /\ \A k, l \in DOMAIN body : Makes(body, k) /\ Makes(body, l) /\ body[k].id = body[l].id => k = l
  BY DEF Numbered
<1>3. IsOffer(body \o <<Refresh>>, first, next)
  BY <1>1, <1>2, BodyOffer
<1> QED
  BY <1>3, OnePart DEF IsOffer

(* One command.                                                            *)
LEMMA OneOffer ==
  ASSUME NEW cmd, cmd.kind # "refresh", NEW first, NEW next, IsOffered(cmd, first, next)
  PROVE  IsOffer(<<cmd, Refresh>>, first, next) /\ AreOffers(Then(cmd), first, next)
<1> DEFINE body == <<cmd>>
<1>1. IsSeq(body) /\ DOMAIN body = {1} /\ body[1] = cmd /\ body \o <<Refresh>> = <<cmd, Refresh>>
  BY Tuples
<1> HIDE DEF body
<1>2. \A k \in DOMAIN body : IsOffered(body[k], first, next) /\ body[k].kind # "refresh"
  BY <1>1
<1>3. \A k, l \in DOMAIN body : k = l
  BY <1>1
<1>4. IsOffer(body \o <<Refresh>>, first, next)
  BY <1>1, <1>2, <1>3, BodyOffer
<1> QED
  BY <1>1, <1>4, OnePart DEF Then

(* Two commands.                                                           *)
LEMMA TwoOffers ==
  ASSUME NEW a, NEW b, a.kind \notin {"refresh", "createCollection"}, b.kind \notin {"refresh", "createCollection"},
         NEW first, NEW next, IsOffered(a, first, next), IsOffered(b, first, next)
  PROVE  AreOffers(<<<<a, b, Refresh>>>>, first, next)
<1> DEFINE body == <<a, b>>
<1>1. DOMAIN body = 1 .. 2 /\ body[1] = a /\ body[2] = b /\ body \o <<Refresh>> = <<a, b, Refresh>>
  BY Tuples
<1>2. IsSeq(body)
  BY Tuples
<1> HIDE DEF body
<1>3. \A k \in DOMAIN body : body[k] = a \/ body[k] = b
  BY <1>1
<1>4. \A k \in DOMAIN body : IsOffered(body[k], first, next) /\ body[k].kind # "refresh" /\ ~Makes(body, k)
  BY <1>3 DEF Makes
<1>5. IsOffer(body \o <<Refresh>>, first, next)
  BY <1>2, <1>4, BodyOffer
<1> QED
  BY <1>1, <1>5, OnePart

(* A command for each of several requests, side by side.                   *)
LEMMA ManyOffers ==
  ASSUME NEW n \in Nat, n # 0, NEW cmd, \A i \in 1 .. n : cmd[i].kind \in {"moveRequest", "deleteRequest"},
         NEW first, NEW next
  PROVE  AreOffers([i \in 1 .. n |-> <<cmd[i], Refresh>>], first, next)
<1> DEFINE parts == [i \in 1 .. n |-> <<cmd[i], Refresh>>]
<1>1. parts = [i \in 1 .. n |-> parts[i]] /\ \A i \in 1 .. n : parts[i] = <<cmd[i], Refresh>>
  OBVIOUS
<1> HIDE DEF parts
<1>2. IsSeq(parts) /\ Len(parts) = n /\ DOMAIN parts = 1 .. n
  BY <1>1, SeqOfLength
<1>3. parts # <<>>
  BY <1>2
<1>4. ASSUME NEW i \in DOMAIN parts
      PROVE  IsOffer(parts[i], first, next) /\ \A k \in DOMAIN parts[i] : ~Makes(parts[i], k)
  <2>1. IsOffered(cmd[i], first, next) /\ cmd[i].kind # "refresh" /\ cmd[i].kind # "createCollection"
    BY <1>2 DEF IsOffered
  <2>2. parts[i] = <<cmd[i], Refresh>> /\ DOMAIN parts[i] = 1 .. 2
    BY <1>1, <1>2
  <2>3. parts[i][1] = cmd[i] /\ parts[i][2] = Refresh /\ Refresh.kind = "refresh"
    BY <2>2 DEF Refresh
  <2>4. \A k \in DOMAIN parts[i] : ~Makes(parts[i], k)
    BY <2>1, <2>2, <2>3 DEF Makes
  <2> QED
    BY <2>1, <2>2, <2>4, OneOffer
<1>5. MadeBy(parts) = {}
  BY <1>4 DEF MadeBy
<1> QED
  BY <1>2, <1>3, <1>4, <1>5 DEF AreOffers, parts

-------------------------------------------------------------------------------
(* The operations of the tree.                                             *)

HandlersInv == StoreInv /\ CopyInv

(* A handler that copies nothing.                                          *)
LEMMA HandlerBegins ==
  ASSUME TreeInv, HandlersInv, NEW work, work.kind \notin Copying, NEW parts, NEW tolerant, NEW made \in Nat,
         Start(work, parts, tolerant, made), AreOffers(parts, nextId, nextId + made)
  PROVE  HandlersInv'
<1>1. StoreInv'
  BY StartCoherent DEF HandlersInv
<1>2. CopyInv'
  BY StartForetold DEF HandlersInv
<1> QED
  BY <1>1, <1>2 DEF HandlersInv

(* A handler of one command that makes no ids.                             *)
LEMMA SimpleBegins ==
  ASSUME TreeInv, HandlersInv, NEW cmd, Simple(cmd),
         cmd.kind \in {"touch", "deleteProject", "deleteCollection", "moveRequest", "deleteRequest"}
  PROVE  HandlersInv'
<1> DEFINE work == [kind |-> cmd.kind]
<1>1. Start(work, Then(cmd), FALSE, 0)
  BY DEF Simple
<1>2. work.kind \notin Copying /\ cmd.kind # "refresh"
  BY DEF Copying
<1> HIDE DEF work
<1>3. AreOffers(Then(cmd), nextId, nextId + 0)
  BY <1>2, OneOffer DEF IsOffered
<1> QED
  BY <1>1, <1>2, <1>3, HandlerBegins

(* A handler of one command.                                               *)
LEMMA OneBegins ==
  ASSUME TreeInv, HandlersInv, NEW kind, kind \notin Copying, NEW cmd, cmd.kind # "refresh", NEW made \in Nat,
         Start([kind |-> kind], Then(cmd), FALSE, made), IsOffered(cmd, nextId, nextId + made)
  PROVE  HandlersInv'
<1> DEFINE work == [kind |-> kind]
<1>1. work.kind \notin Copying /\ Start(work, Then(cmd), FALSE, made)
  OBVIOUS
<1> HIDE DEF work
<1>2. AreOffers(Then(cmd), nextId, nextId + made)
  BY OneOffer
<1> QED
  BY <1>1, <1>2, HandlerBegins

(* Rows of the tree.                                                       *)
LEMMA ShownRows ==
  ASSUME StoreInv
  PROVE  /\ nextId \in Nat /\ nextId < nextId + 1 /\ nextId + 0 = nextId
         /\ \A c \in DOMAIN tree.colls : tree.colls[c].order \in Nat /\ c \in Nat
         /\ \A r \in DOMAIN tree.reqs : r \in Nat /\ r < nextId
         /\ IsFiniteSet(DOMAIN tree.reqs)
  BY DEF StoreInv, Coherent, Sane, IsForest, IsRow, Filed

(* createProject                                                           *)
LEMMA CreateProjectBegins == ASSUME TreeInv, HandlersInv, CreateProject PROVE HandlersInv'
<1>1. PICK p : Start([kind |-> "createProject"], Then([kind |-> "createProject", project |-> p]), FALSE, 0)
  BY DEF CreateProject
<1> DEFINE cmd == [kind |-> "createProject", project |-> p]
<1>2. IsOffered(cmd, nextId, nextId + 0) /\ cmd.kind # "refresh" /\ "createProject" \notin Copying
  BY DEF IsOffered, Copying
<1> HIDE DEF cmd
<1> QED
  BY <1>1, <1>2, OneBegins DEF cmd

(* createChild                                                             *)
LEMMA CreateChildBegins == ASSUME TreeInv, HandlersInv, CreateChild PROVE HandlersInv'
<1>1. PICK c \in DOMAIN tree.colls, name \in Names :
        Start([kind |-> "createCollection"], Then(CreateCommand(nextId, tree.colls[c].project, c, name)), FALSE, 1)
  BY DEF CreateChild
<1> DEFINE cmd == CreateCommand(nextId, tree.colls[c].project, c, name)
<1>2. cmd.kind = "createCollection" /\ cmd.id = nextId
  BY DEF CreateCommand
<1> HIDE DEF cmd
<1>3. IsOffered(cmd, nextId, nextId + 1) /\ "createCollection" \notin Copying
  BY <1>2, ShownRows DEF IsOffered, Copying, HandlersInv
<1> QED
  BY <1>1, <1>2, <1>3, OneBegins DEF cmd

(* renameCollection                                                        *)
LEMMA RenameCollectionBegins == ASSUME TreeInv, HandlersInv, RenameCollection PROVE HandlersInv'
<1>1. PICK c \in DOMAIN tree.colls, name \in Names :
        Start([kind |-> "rename"], Then(UpdateCommand(c, name, tree.colls[c].parent, tree.colls[c].order)), FALSE, 0)
  BY DEF RenameCollection
<1> DEFINE cmd == UpdateCommand(c, name, tree.colls[c].parent, tree.colls[c].order)
<1>2. cmd.kind = "updateCollection" /\ cmd.order = tree.colls[c].order
  BY DEF UpdateCommand
<1> HIDE DEF cmd
<1>3. IsOffered(cmd, nextId, nextId + 0) /\ "rename" \notin Copying
  BY <1>2, ShownRows DEF IsOffered, Copying, HandlersInv
<1> QED
  BY <1>1, <1>2, <1>3, OneBegins DEF cmd

(* dropOnCollection                                                        *)
LEMMA DropCollectionBegins == ASSUME TreeInv, HandlersInv, DropCollection PROVE HandlersInv'
<1>1. PICK c \in DOMAIN tree.colls, d \in DOMAIN tree.colls :
        /\ c # d
        /\ \/ Swap(c, d)
           \/ Start([kind |-> "move"], Then(UpdateCommand(c, tree.colls[c].name, d, tree.colls[c].order)), FALSE, 0)
  BY DEF DropCollection
<1>2. CASE Swap(c, d)
  <2> DEFINE first == tree.colls[c]
             second == tree.colls[d]
             up == UpdateCommand(c, first.name, first.parent, second.order)
             down == UpdateCommand(d, second.name, second.parent, first.order)
             parts == <<<<up, down, Refresh>>>>
             work == [kind |-> "swap", first |-> c, second |-> d, orders |-> <<first.order, second.order>>]
  <2>1. Start(work, parts, FALSE, 0)
    BY <1>2 DEF Swap
  <2>2. up.kind = "updateCollection" /\ up.order = second.order /\ down.kind = "updateCollection" /\ down.order = first.order
    BY DEF UpdateCommand
  <2>3. first.order \in Nat /\ second.order \in Nat
    BY ShownRows DEF HandlersInv
  <2> HIDE DEF up, down, first, second
  <2>4. IsOffered(up, nextId, nextId + 0) /\ IsOffered(down, nextId, nextId + 0)
    BY <2>2, <2>3 DEF IsOffered
  <2>5. AreOffers(parts, nextId, nextId + 0)
    BY <2>2, <2>4, TwoOffers
  <2> HIDE DEF parts, work
  <2>6. StoreInv'
    BY <2>1, <2>5, StartCoherent DEF HandlersInv
  <2>7. CopyInv'
    BY <1>1, <1>2, SwapForetold DEF HandlersInv
  <2> QED
    BY <2>6, <2>7 DEF HandlersInv
<1>3. CASE Start([kind |-> "move"], Then(UpdateCommand(c, tree.colls[c].name, d, tree.colls[c].order)), FALSE, 0)
  <2> DEFINE cmd == UpdateCommand(c, tree.colls[c].name, d, tree.colls[c].order)
  <2>1. cmd.kind = "updateCollection" /\ cmd.order = tree.colls[c].order
    BY DEF UpdateCommand
  <2> HIDE DEF cmd
  <2>2. IsOffered(cmd, nextId, nextId + 0) /\ "move" \notin Copying
    BY <2>1, ShownRows DEF IsOffered, Copying, HandlersInv
  <2> QED
    BY <1>3, <2>1, <2>2, OneBegins DEF cmd
<1> QED
  BY <1>1, <1>2, <1>3

(* The handlers of one command.                                            *)
LEMMA SimpleOperations ==
  ASSUME TreeInv, HandlersInv,
         UpdateOther \/ DeleteProject \/ DeleteCollection \/ DropRequest \/ DeleteRequest
  PROVE  HandlersInv'
<1>1. \E cmd : Simple(cmd) /\ cmd.kind \in {"touch", "deleteProject", "deleteCollection", "moveRequest", "deleteRequest"}
  <2>1. CASE UpdateOther
    <3>1. [kind |-> "touch"].kind = "touch"
      OBVIOUS
    <3> QED
      BY <2>1, <3>1 DEF UpdateOther
  <2>2. CASE DeleteProject
    <3>1. PICK p : Simple([kind |-> "deleteProject", project |-> p])
      BY <2>2 DEF DeleteProject
    <3>2. [kind |-> "deleteProject", project |-> p].kind = "deleteProject"
      OBVIOUS
    <3> QED
      BY <3>1, <3>2
  <2>3. CASE DeleteCollection
    <3>1. PICK c : Simple([kind |-> "deleteCollection", id |-> c])
      BY <2>3 DEF DeleteCollection
    <3>2. [kind |-> "deleteCollection", id |-> c].kind = "deleteCollection"
      OBVIOUS
    <3> QED
      BY <3>1, <3>2
  <2>4. CASE DropRequest
    <3>1. PICK r, c : Simple(MoveCommand(r, c))
      BY <2>4 DEF DropRequest
    <3>2. MoveCommand(r, c).kind = "moveRequest"
      BY DEF MoveCommand
    <3> QED
      BY <3>1, <3>2
  <2>5. CASE DeleteRequest
    <3>1. PICK r : Simple(DeleteCommand(r))
      BY <2>5 DEF DeleteRequest
    <3>2. DeleteCommand(r).kind = "deleteRequest"
      BY DEF DeleteCommand
    <3> QED
      BY <3>1, <3>2
  <2> QED
    BY <2>1, <2>2, <2>3, <2>4, <2>5
<1> QED
  BY <1>1, SimpleBegins

(* batchMove and batchDelete                                               *)
LEMMA BatchBegins == ASSUME TreeInv, HandlersInv, BatchMove \/ BatchDelete PROVE HandlersInv'
<1> DEFINE ids == SetToSeq(DOMAIN tree.reqs)
           n == Len(ids)
<1>1. IsFiniteSet(DOMAIN tree.reqs)
  BY ShownRows DEF HandlersInv
<1>2. n \in Nat /\ DOMAIN ids = 1 .. n /\ n = Cardinality(DOMAIN tree.reqs)
  BY <1>1, SeqOfSet
<1> HIDE DEF ids
<1>3. "batchMove" \notin Copying /\ "batchDelete" \notin Copying /\ 0 \in Nat
  BY DEF Copying
<1>4. CASE BatchMove
  <2>1. PICK c : /\ n > 1
                 /\ Start([kind |-> "batchMove"], [i \in DOMAIN ids |-> <<MoveCommand(ids[i], c), Refresh>>], FALSE, 0)
    BY <1>4 DEF BatchMove, ids
  <2> DEFINE cmd == [i \in 1 .. n |-> MoveCommand(ids[i], c)]
             parts == [i \in 1 .. n |-> <<cmd[i], Refresh>>]
             work == [kind |-> "batchMove"]
  <2>2. \A i \in 1 .. n : cmd[i] = MoveCommand(ids[i], c) /\ cmd[i].kind = "moveRequest"
    BY DEF MoveCommand
  <2> HIDE DEF cmd
  <2>3. parts = [i \in DOMAIN ids |-> <<MoveCommand(ids[i], c), Refresh>>]
    BY <1>2, <2>2
  <2>4. n # 0
    BY <1>2, <2>1
  <2>5. AreOffers(parts, nextId, nextId + 0)
    BY <1>2, <2>2, <2>4, ManyOffers
  <2>6. work.kind \notin Copying
    BY <1>3
  <2> HIDE DEF parts, work
  <2>7. Start(work, parts, FALSE, 0)
    BY <2>1, <2>3 DEF work
  <2> QED
    BY <1>3, <2>5, <2>6, <2>7, HandlerBegins
<1>5. CASE BatchDelete
  <2>1. /\ n > 1
        /\ Start([kind |-> "batchDelete"], [i \in DOMAIN ids |-> <<DeleteCommand(ids[i]), Refresh>>], TRUE, 0)
    BY <1>2, <1>5 DEF BatchDelete, ids
  <2> DEFINE cmd == [i \in 1 .. n |-> DeleteCommand(ids[i])]
             parts == [i \in 1 .. n |-> <<cmd[i], Refresh>>]
             work == [kind |-> "batchDelete"]
  <2>2. \A i \in 1 .. n : cmd[i] = DeleteCommand(ids[i]) /\ cmd[i].kind = "deleteRequest"
    BY DEF DeleteCommand
  <2> HIDE DEF cmd
  <2>3. parts = [i \in DOMAIN ids |-> <<DeleteCommand(ids[i]), Refresh>>]
    BY <1>2, <2>2
  <2>4. n # 0
    BY <1>2, <2>1
  <2>5. AreOffers(parts, nextId, nextId + 0)
    BY <1>2, <2>2, <2>4, ManyOffers
  <2>6. work.kind \notin Copying
    BY <1>3
  <2> HIDE DEF parts, work
  <2>7. Start(work, parts, TRUE, 0)
    BY <2>1, <2>3 DEF work
  <2> QED
    BY <1>3, <2>5, <2>6, <2>7, HandlerBegins
<1> QED
  BY <1>4, <1>5

(* A handler that loads a request and saves it.                            *)
LEMMA LoadBegins ==
  ASSUME TreeInv, HandlersInv, NEW kind, kind \notin Copying, NEW r, NEW id \in Nat, NEW made \in Nat, id < nextId + made,
         NEW c, Start([kind |-> kind], <<<<LoadCommand(r, TRUE), SaveLoaded(id, c), Refresh>>>>, FALSE, made)
  PROVE  HandlersInv'
<1> DEFINE load == LoadCommand(r, TRUE)
           save == SaveLoaded(id, c)
           work == [kind |-> kind]
           parts == <<<<load, save, Refresh>>>>
<1>2. load.kind = "load" /\ save.kind = "saveLoaded" /\ save.id = id
  BY DEF LoadCommand, SaveLoaded
<1> HIDE DEF load, save
<1>4. IsOffered(load, nextId, nextId + made) /\ IsOffered(save, nextId, nextId + made)
  BY <1>2 DEF IsOffered
<1>5. AreOffers(parts, nextId, nextId + made)
  BY <1>2, <1>4, TwoOffers
<1>6. work.kind \notin Copying
  OBVIOUS
<1> HIDE DEF parts, work
<1>7. Start(work, parts, FALSE, made)
  BY DEF work, parts, load, save
<1> QED
  BY <1>5, <1>6, <1>7, HandlerBegins

(* renameRequest and duplicateRequest                                      *)
LEMMA SaveBegins == ASSUME TreeInv, HandlersInv, RenameRequest \/ DuplicateRequest PROVE HandlersInv'
<1>1. "renameRequest" \notin Copying /\ "duplicate" \notin Copying /\ 0 \in Nat /\ 1 \in Nat
  BY DEF Copying
<1>2. CASE RenameRequest
  <2>1. PICK r \in DOMAIN tree.reqs :
          Start([kind |-> "renameRequest"],
                <<<<LoadCommand(r, TRUE), SaveLoaded(r, tree.reqs[r].coll), Refresh>>>>, FALSE, 0)
    BY <1>2 DEF RenameRequest
  <2>2. r \in Nat /\ r < nextId + 0
    BY ShownRows DEF HandlersInv
  <2> QED
    BY <1>1, <2>1, <2>2, LoadBegins
<1>3. CASE DuplicateRequest
  <2>1. PICK r \in DOMAIN tree.reqs :
          Start([kind |-> "duplicate"],
                <<<<LoadCommand(r, TRUE), SaveLoaded(nextId, tree.reqs[r].coll), Refresh>>>>, FALSE, 1)
    BY <1>3 DEF DuplicateRequest
  <2>2. nextId \in Nat /\ nextId < nextId + 1
    BY ShownRows DEF HandlersInv
  <2> QED
    BY <1>1, <2>1, <2>2, LoadBegins
<1> QED
  BY <1>2, <1>3

(* A handler that copies: what it leads to is told from the store.         *)
LEMMA CopyBegins ==
  ASSUME TreeInv, HandlersInv, NEW work, NEW body, NEW made \in Nat,
         Start(work, <<body \o <<Refresh>>>>, FALSE, made), Numbered(body, nextId, nextId + made),
         tree = store => Leads(work, store, None, body \o <<Refresh>>)
  PROVE  HandlersInv'
<1> DEFINE cmds == body \o <<Refresh>>
           parts == <<cmds>>
<1>1. AreOffers(parts, nextId, nextId + made) /\ IsScript(cmds)
  BY NumberedOffer
<1> HIDE DEF cmds
<1>2. tree = store => ~FALSE /\ \E x : IsScript(x) /\ parts = <<x>> /\ Leads(work, store, None, x)
  BY <1>1 DEF cmds
<1>3. Start(work, parts, FALSE, made)
  BY DEF cmds
<1> HIDE DEF parts
<1>4. StoreInv'
  BY <1>1, <1>3, StartCoherent DEF HandlersInv
<1>5. CopyInv'
  BY <1>2, <1>3, StartForetold DEF HandlersInv
<1> QED
  BY <1>4, <1>5 DEF HandlersInv

(* cloneProject                                                            *)
LEMMA CloneBegins == ASSUME TreeInv, HandlersInv, CloneProject PROVE HandlersInv'
<1>1. PICK source \in tree.projects, p \in OtherProjects \ store.projects :
          LET colls == Cloned(tree, source, p)
              reqs == SetToSeq({r \in DOMAIN tree.reqs : ProjectOf(tree, r) = source})
          IN  Start([kind |-> "clone", source |-> source, copies |-> colls.copies],
                    <<<<[kind |-> "createProject", project |-> p]>> \o colls.commands
                        \o CloneSaves(tree, reqs, colls) \o <<Refresh>>>>,
                    FALSE, Len(colls.commands) + Len(reqs))
  BY DEF CloneProject
<1> DEFINE colls == Cloned(tree, source, p)
           reqs == SetToSeq({r \in DOMAIN tree.reqs : ProjectOf(tree, r) = source})
           body == <<[kind |-> "createProject", project |-> p]>> \o colls.commands \o CloneSaves(tree, reqs, colls)
           work == [kind |-> "clone", source |-> source, copies |-> colls.copies]
           made == Len(colls.commands) + Len(reqs)
<1>2. nextId \in Nat /\ Coherent(tree, nextId)
  BY DEF HandlersInv, StoreInv
<1>3. /\ Len(colls.commands) \in Nat /\ Len(reqs) \in Nat
      /\ Numbered(body, nextId, nextId + (Len(colls.commands) + Len(reqs)))
      /\ p # source => Leads(work, tree, None, body \o <<Refresh>>)
  BY <1>2, CloneForetold
<1>4. tree = store => p # source
  OBVIOUS
<1>5. Start(work, <<body \o <<Refresh>>>>, FALSE, made)
  BY <1>1
<1> HIDE DEF body, work, colls, reqs
<1>6. made \in Nat
  BY <1>3
<1>7. Numbered(body, nextId, nextId + made)
  BY <1>3
<1>8. tree = store => Leads(work, store, None, body \o <<Refresh>>)
  BY <1>3, <1>4
<1> HIDE DEF made
<1> QED
  BY <1>5, <1>6, <1>7, <1>8, CopyBegins

(* restoreTeamSnapshot                                                     *)
LEMMA RestoreBegins == ASSUME TreeInv, HandlersInv, RestoreSnapshot PROVE HandlersInv'
<1> DEFINE colls == Restored(store)
           missing == SetToSeq(snapshot.projects \ store.projects)
           reqs == SetToSeq(DOMAIN snapshot.reqs)
           saves == [i \in DOMAIN reqs |->
                        [kind |-> "saveEnvelope", id |-> reqs[i],
                         row |-> [snapshot.reqs[reqs[i]] EXCEPT !.coll = colls.copies[@]]]]
           body == [i \in DOMAIN missing |-> [kind |-> "createProject", project |-> missing[i]]]
                        \o colls.commands \o saves
           work == [kind |-> "restore", snapshot |-> snapshot, copies |-> colls.copies]
           made == Len(colls.commands)
<1>1. Start(work, <<body \o <<Refresh>>>>, FALSE, made)
  BY DEF RestoreSnapshot
<1>2. nextId \in Nat /\ Coherent(store, nextId) /\ Coherent(snapshot, nextId)
  BY DEF HandlersInv, StoreInv
<1>3. made \in Nat /\ Numbered(body, nextId, nextId + made) /\ Leads(work, store, None, body \o <<Refresh>>)
  BY <1>2, RestoreForetold
<1> HIDE DEF body, work, made
<1> QED
  BY <1>1, <1>3, CopyBegins

(* onImportRequests                                                        *)
LEMMA ImportBegins ==
  ASSUME TreeInv, HandlersInv, NEW paths, paths \in Seq(Seq(STRING)), ImportRequests(paths)
  PROVE  HandlersInv'
<1>1. PICK c \in DOMAIN tree.colls :
          LET all == ImportAll(tree, tree.colls[c].project, c, paths)
          IN  Start([kind |-> "import", target |-> c, paths |-> paths, first |-> nextId],
                    <<Append(all.commands, Refresh)>>, FALSE, all.next - nextId)
  BY DEF ImportRequests
<1> DEFINE all == ImportAll(tree, tree.colls[c].project, c, paths)
           work == [kind |-> "import", target |-> c, paths |-> paths, first |-> nextId]
           body == all.commands
           made == all.next - nextId
<1>2. nextId \in Nat /\ Coherent(tree, nextId)
  BY DEF HandlersInv, StoreInv
<1>3. IsSeq(paths) /\ \A k \in DOMAIN paths : IsSeq(paths[k])
  <2>1. \A k \in DOMAIN paths : paths[k] \in Seq(STRING)
    OBVIOUS
  <2> QED
    BY <2>1, SeqOver
<1>4. /\ Numbered(body, nextId, all.next)
      /\ Append(body, Refresh) = body \o <<Refresh>>
      /\ Leads(work, tree, None, Append(body, Refresh))
  BY <1>2, <1>3, ImportForetold
<1>5. Start(work, <<Append(body, Refresh)>>, FALSE, made)
  BY <1>1
<1> HIDE DEF work, all
<1>6. made \in Nat /\ nextId + made = all.next
  BY <1>4 DEF Numbered
<1> HIDE DEF body, made
<1>7. Numbered(body, nextId, nextId + made)
  BY <1>4, <1>6
<1>8. Start(work, <<body \o <<Refresh>>>>, FALSE, made)
  BY <1>4, <1>5
<1>9. tree = store => Leads(work, store, None, body \o <<Refresh>>)
  BY <1>4
<1> QED
  BY <1>6, <1>7, <1>8, <1>9, CopyBegins

(* The snapshot is taken of the tree.                                      *)
LEMMA ExportKeeps == ASSUME HandlersInv, ExportSnapshot PROVE HandlersInv'
<1> DEFINE reqs == [r \in DOMAIN store.reqs |-> [store.reqs[r] EXCEPT !.redacted = TRUE]]
<1>1. snapshot' = [store EXCEPT !.reqs = reqs] /\ UNCHANGED <<store, tree, refreshes, calls, nextId>> /\ finished' = NoWork
  BY DEF ExportSnapshot
<1>2. Coherent(store, nextId) /\ Sane(store) /\ Filed(store.colls, store.reqs)
  BY DEF HandlersInv, StoreInv, Coherent, Sane
<1>3. /\ snapshot' = [version |-> snapshot'.version, projects |-> snapshot'.projects, colls |-> snapshot'.colls,
                      reqs |-> snapshot'.reqs]
      /\ snapshot'.projects = store.projects /\ snapshot'.colls = store.colls /\ snapshot'.reqs = reqs
  <2> HIDE DEF reqs
  <2> QED
    BY <1>1, <1>2 DEF Sane
<1>4. DOMAIN reqs = DOMAIN store.reqs /\ reqs = [r \in DOMAIN reqs |-> reqs[r]]
  OBVIOUS
<1>5. \A r \in DOMAIN reqs : reqs[r] = [store.reqs[r] EXCEPT !.redacted = TRUE]
  OBVIOUS
<1> HIDE DEF reqs
<1>6. ASSUME NEW r \in DOMAIN reqs PROVE IsReq(reqs[r]) /\ reqs[r].coll \in DOMAIN store.colls
  <2>1. IsReq(store.reqs[r]) /\ store.reqs[r].coll \in DOMAIN store.colls
    BY <1>2, <1>4 DEF Filed
  <2> QED
    BY <1>5, <2>1 DEF IsReq
<1>7. Filed(store.colls, reqs)
  BY <1>2, <1>4, <1>6 DEF Filed
<1>8. Sane(snapshot')
  BY <1>2, <1>3, <1>7 DEF Sane
<1>9. Coherent(snapshot', nextId)
  BY <1>2, <1>3, <1>4, <1>8 DEF Coherent
<1>10. StoreInv'
  BY <1>1, <1>9 DEF HandlersInv, StoreInv
<1>11. CopyInv'
  BY <1>1, CopyRefresh DEF HandlersInv
<1> QED
  BY <1>10, <1>11 DEF HandlersInv

-------------------------------------------------------------------------------
(* All steps.                                                              *)

(* The store as the program is installed.                                  *)
LEMMA InitialCoherent == Coherent(InitialStore, 4)
<1> DEFINE colls == <<Row(DefaultProject, None, 0, "a"), Row(DefaultProject, None, 1, "b"),
                      Row(DefaultProject, 1, 0, "a")>>
           reqs == <<Request(1, None), Request(1, 1)>>
<1>1. /\ InitialStore.version = 1 /\ InitialStore.projects = {DefaultProject}
      /\ InitialStore.colls = colls /\ InitialStore.reqs = reqs
      /\ InitialStore = [version |-> InitialStore.version, projects |-> InitialStore.projects,
                         colls |-> InitialStore.colls, reqs |-> InitialStore.reqs]
  BY DEF InitialStore
<1>2. /\ DOMAIN colls = 1 .. 3 /\ colls = [c \in 1 .. 3 |-> colls[c]]
      /\ colls[1] = Row(DefaultProject, None, 0, "a") /\ colls[2] = Row(DefaultProject, None, 1, "b")
      /\ colls[3] = Row(DefaultProject, 1, 0, "a")
  OBVIOUS
<1>3. /\ DOMAIN reqs = 1 .. 2 /\ reqs = [r \in 1 .. 2 |-> reqs[r]]
      /\ reqs[1] = Request(1, None) /\ reqs[2] = Request(1, 1)
  OBVIOUS
<1> HIDE DEF colls, reqs
<1>4. 1 .. 3 = {1, 2, 3} /\ 1 .. 2 = {1, 2} /\ IsFiniteSet(1 .. 3) /\ IsFiniteSet(1 .. 2)
  <2>1. 3 \in Int /\ 2 \in Int /\ 1 \in Int
    OBVIOUS
  <2>2. IsFiniteSet(1 .. 3) /\ IsFiniteSet(1 .. 2)
    BY <2>1, FS_Interval, Zenon
  <2>3. 1 .. 3 = {1, 2, 3} /\ 1 .. 2 = {1, 2}
    OBVIOUS
  <2> QED
    BY <2>2, <2>3
<1>5. 1 # None
  BY NoneAssumption
<1>6. ASSUME NEW c \in DOMAIN colls
      PROVE  /\ IsRow(colls[c]) /\ colls[c].project = DefaultProject /\ c < 4
             /\ colls[c].parent # None => colls[c].parent = 1 /\ c = 3
  <2>1. c \in {1, 2, 3}
    BY <1>2, <1>4
  <2> QED
    BY <1>2, <2>1 DEF IsRow, Row
<1>7. \E depth : Deeper(colls, depth)
  <2> DEFINE depth == [c \in 1 .. 3 |-> c]
  <2>1. Deeper(colls, depth)
    BY <1>2, <1>6 DEF Deeper
  <2> QED
    BY <2>1
<1>8. IsForest({DefaultProject}, colls)
  <2>1. 1 \in DOMAIN colls /\ DOMAIN colls \subseteq Nat
    BY <1>2
  <2> QED
    BY <1>2, <1>4, <1>6, <1>7, <2>1 DEF IsForest
<1>9. Filed(colls, reqs) /\ \A r \in DOMAIN reqs : r < 4
  <2>1. ASSUME NEW r \in DOMAIN reqs PROVE IsReq(reqs[r]) /\ reqs[r].coll \in DOMAIN colls /\ r < 4
    <3>1. r \in {1, 2}
      BY <1>3, <1>4
    <3>2. ASSUME NEW x \in Nat \union {None} PROVE IsReq(Request(1, x)) /\ Request(1, x).coll = 1
      BY DEF IsReq, Request
    <3>3. IsReq(reqs[r]) /\ reqs[r].coll = 1
      BY <1>3, <3>1, <3>2
    <3> QED
      BY <1>2, <3>1, <3>3
  <2> QED
    BY <1>3, <1>4, <2>1 DEF Filed
<1>10. IsFiniteSet({DefaultProject})
  BY FS_Singleton
<1> QED
  BY <1>1, <1>6, <1>8, <1>9, <1>10 DEF Coherent, Sane

(* The explorer starts.                                                    *)
LEMMA HandlersStart == ASSUME NEW frontEnd, NEW loaded \in BOOLEAN, ExplorerInit(frontEnd, loaded) PROVE HandlersInv
<1>1. /\ store = InitialStore /\ (tree = InitialStore \/ tree = NoTree) /\ snapshot = NoTree /\ nextId = 4
      /\ \A r \in refreshes : r.read = NoTree
      /\ \A c \in Slots : calls[c] = Idle
      /\ finished = NoWork
  BY DEF ExplorerInit
<1>2. Coherent(InitialStore, 4) /\ Coherent(NoTree, 4)
  BY InitialCoherent, EmptyCoherent
<1>3. StoreInv
  BY <1>1, <1>2, IdleHandler DEF StoreInv
<1>4. CopyInv
  BY <1>1, IdleForetold DEF CopyInv
<1> QED
  BY <1>3, <1>4 DEF HandlersInv

(* What the user does in the explorer.                                     *)
LEMMA HandlersUser == ASSUME TreeInv, HandlersInv, ExplorerUser PROVE HandlersInv'
<1>1. CASE Retry
  <2>1. StoreInv'
    BY <1>1, RetryCoherent DEF HandlersInv
  <2>2. CopyInv'
    BY <1>1, CopyRefresh DEF HandlersInv, Retry
  <2> QED
    BY <2>1, <2>2 DEF HandlersInv
<1> QED
  BY <1>1, SimpleOperations, CreateProjectBegins, CreateChildBegins, RenameCollectionBegins, DropCollectionBegins,
     BatchBegins, SaveBegins, CloneBegins, ExportKeeps, RestoreBegins DEF ExplorerUser

(* What the store and the refreshes do.                                    *)
LEMMA HandlersAsync == ASSUME TreeInv, HandlersInv, ExplorerAsync PROVE HandlersInv'
<1>1. CallsTyped /\ StoreInv /\ CopyInv
  BY DEF TreeInv, HandlersInv
<1>2. CASE RefreshRead
  <2>1. CopyInv'
    BY <1>1, <1>2, CopyRefresh DEF RefreshRead
  <2> QED
    BY <1>1, <1>2, <2>1, RefreshReadCoherent DEF HandlersInv
<1>3. CASE RefreshDone \/ RefreshFails
  BY <1>1, <1>3, CopyRefreshEnds, RefreshEndsCoherent DEF HandlersInv
<1>4. CASE CommandRuns
  BY <1>1, <1>4, CopyCommandRuns, CommandRunsCoherent DEF HandlersInv
<1>5. CASE CommandFails
  BY <1>1, <1>5, CopyCommandFails, CommandFailsCoherent DEF HandlersInv
<1>6. CASE RefreshStarts
  BY <1>1, <1>6, CopyRefreshStarts, RefreshStartsCoherent DEF HandlersInv
<1> QED
  BY <1>2, <1>3, <1>4, <1>5, <1>6 DEF ExplorerAsync

(* An execution is saved from the history.                                 *)
LEMMA HistorySaveBegins == ASSUME TreeInv, HandlersInv, HistorySave PROVE HandlersInv'
<1>1. PICK c \in DOMAIN tree.colls, caseOf \in {Origin, None} :
        Start([kind |-> "historySave"],
              Then([kind |-> "saveEnvelope", id |-> nextId, row |-> Request(c, caseOf)]), FALSE, 1)
  <2>1. PICK c \in DOMAIN tree.colls :
          Start([kind |-> "historySave"],
                Then([kind |-> "saveEnvelope", id |-> nextId,
                      row |-> Request(c, IF panel.draft.parent # Nobody THEN Origin ELSE None)]), FALSE, 1)
    BY Zenon DEF HistorySave
  <2> DEFINE caseOf == IF panel.draft.parent # Nobody THEN Origin ELSE None
  <2>2. caseOf \in {Origin, None}
    OBVIOUS
  <2> QED
    BY <2>1, <2>2
<1> DEFINE cmd == [kind |-> "saveEnvelope", id |-> nextId, row |-> Request(c, caseOf)]
<1>2. cmd.kind = "saveEnvelope" /\ cmd.id = nextId /\ cmd.row = Request(c, caseOf)
  OBVIOUS
<1>3. IsReq(Request(c, caseOf))
  BY OriginAssumption DEF IsReq, Request
<1> HIDE DEF cmd
<1>4. IsOffered(cmd, nextId, nextId + 1) /\ "historySave" \notin Copying
  BY <1>2, <1>3, ShownRows DEF IsOffered, Copying, HandlersInv
<1> QED
  BY <1>1, <1>2, <1>4, OneBegins DEF cmd

handlerState == <<store, tree, snapshot, nextId, refreshes, calls, finished>>

(* Which steps of the application can matter to the handlers.              *)
LEMMA HandlersMoveIn ==
  ASSUME [Next]_vars
  PROVE  \/ ExplorerUser \/ ExplorerAsync \/ HistorySave
         \/ \E file \in Imports : file.ok /\ ImportRequests(file.paths)
         \/ UNCHANGED handlerState
<1>1. CASE ShellStep \/ UNCHANGED vars
  BY <1>1, ShellLeaves DEF vars, explorerVars, handlerState
<1>2. CASE TreeUser \/ TreeAsync
  BY <1>2 DEF TreeUser, TreeAsync
<1>3. CASE ImportFiles
  BY <1>3 DEF ImportFiles, explorerVars, handlerState
<1>5. CASE HistoryUser \/ HistoryAsync \/ HistoryFault
  BY <1>5 DEF HistoryUser, HistoryAsync, HistoryFault, KeepExplorer, explorerVars, handlerState
<1>6. CASE WorkbenchSends \/ WorkbenchSessions \/ Environment
  BY <1>6 DEF WorkbenchSends, WorkbenchSessions, Environment, KeepExplorer, explorerVars, handlerState
<1>7. CASE Team \/ AgentTalk \/ PreferenceStep
  BY <1>7 DEF Team, AgentTalk, PreferenceStep, KeepExplorer, explorerVars, handlerState
<1> QED
  BY <1>1, <1>2, <1>3, <1>5, <1>6, <1>7 DEF Next

(* Every step of the application.                                          *)
LEMMA HandlersStep == ASSUME TreeInv, HandlersInv, [Next]_vars PROVE HandlersInv'
<1>1. ASSUME NEW file \in Imports, file.ok, ImportRequests(file.paths) PROVE HandlersInv'
  <2>1. file.paths \in Seq(Seq(STRING))
    BY <1>1, ImportsAssumption
  <2> QED
    BY <1>1, <2>1, ImportBegins
<1>2. CASE UNCHANGED handlerState
  <2>1. StoreInv'
    BY <1>2, StoreStays DEF HandlersInv, handlerState
  <2>2. CopyInv'
    BY <1>2, CopyStays DEF HandlersInv, handlerState
  <2> QED
    BY <2>1, <2>2 DEF HandlersInv
<1> QED
  BY <1>1, <1>2, HandlersMoveIn, HandlersUser, HandlersAsync, HistorySaveBegins

(* The application starts.                                                 *)
LEMMA CopiesStart == AppInit => HandlersInv
<1> SUFFICES ASSUME AppInit PROVE HandlersInv
  OBVIOUS
<1>1. PICK scenario \in Scenarios : ExplorerInit(scenario.front, scenario.loaded)
  BY DEF AppInit
<1> QED
  BY <1>1, HandlersStart, ScenarioAssumption

(* What is foretold of a handler that has ended is what it promises.       *)
LEMMA CopiesGoal == HandlersInv => CopiesFaithful
  BY DEF HandlersInv, CopyInv, Promised, CopiesFaithful, CloneMirrors, ImportPlaces, RestoreReproduces, SwapExchanges

(* Copying a project, importing a file, restoring a snapshot and moving a  *)
(* collection past its sibling make what they promise of the store, for    *)
(* every tree, file and snapshot, if nothing else changed the store while  *)
(* the handler ran (cloneProject, onImportRequests, restoreTeamSnapshot    *)
(* and dropOnCollection).                                                  *)
THEOREM CopiesAreFaithful == Spec => []CopiesFaithful
<1>1. AppInv /\ HandlersInv /\ [Next]_vars => HandlersInv'
  BY HandlersStep DEF AppInv
<1> QED
  BY <1>1, AppStart, AppStep, CopiesStart, CopiesGoal, PTL DEF Spec
===============================================================================
