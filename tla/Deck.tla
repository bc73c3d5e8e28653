-------------------------------- MODULE Deck --------------------------------
(***************************************************************************)
(* The workbench deck: the open tabs (sessions), the pipeline that opens a *)
(* saved request in one of them, drafts, and saves.                        *)
(*                                                                         *)
(* A handler of the deck reads the tabs and the active tab of the render   *)
(* it was created in, its view.  A button's handler is of the last render. *)
(* The window listeners are installed again only when the tabs or the      *)
(* `tabs` property change, so their view keeps an active tab the user may  *)
(* have left; a handler that awaits goes on with the view it started with. *)
(*                                                                         *)
(* A step is a handler with the render it causes: the microtask that sends *)
(* apivoy-hydrate-request runs before the render, so a mounted tab hears   *)
(* it with its old properties, and a tab the render mounts takes the       *)
(* payload from the stash instead.                                         *)
(***************************************************************************)
EXTENDS Naturals, Sequences, FiniteSets

CONSTANTS
    Interface,        \* a saved HTTP interface
    Cases,            \* saved test cases of Interface
    SocketRequests,   \* saved TCP requests
    Slots,            \* opens that may await at the same time
    MaxTabs,          \* bound on open tabs
    MaxIds,           \* bound on the ids crypto.randomUUID makes
    MaxSaves,         \* bound on saves under way at the same time
    MaxSteps,         \* bound on the length of a history
    None

Saved == {Interface} \union Cases \union SocketRequests
Workbenches == {"http", "tcp"}
Homes == {"__new", "__project"}
Ids == 1 .. MaxIds

ASSUME DeckAssumption ==
    /\ MaxTabs \in Nat \ {0} /\ MaxIds \in Nat \ {0} /\ MaxSaves \in Nat
    /\ None \notin Saved \union Ids /\ None \notin Workbenches \union Homes /\ Saved \intersect Ids = {}
    /\ Cases \intersect ({Interface} \union SocketRequests) = {}

VARIABLES
    sessions,          \* the tabs, in order
    activeSessionId,
    listener,          \* the view the window listeners captured
    pending,           \* the stashed hydrate payload
    shown,             \* what the editor of each tab holds: whose content, of which interface
    drafts,            \* the autosaved draft of each workbench
    stored,            \* the saved requests
    opening,           \* opens that await a load or a save, each with its view
    saving,            \* saves under way
    nextId,
    overtaken,         \* history: tabs in which a request was opened while they saved another,
                       \* the requests such tabs have saved to since, and the requests that
                       \* were deleted while a save of them was under way
    steps              \* history: steps so far

vars == <<sessions, activeSessionId, listener, pending, shown, drafts, stored,
          opening, saving, nextId, overtaken, steps>>

Content(id, case) == [of |-> id, case |-> case]
Blank(id) == Content(id, FALSE)
NoDraft == Blank(None)
NoStash == [workbenchId |-> None, sessionId |-> None, envelope |-> NoDraft]
Session(id, workbenchId, requestId) ==
    [id |-> id, workbenchId |-> workbenchId, requestId |-> requestId]
NoSession == Session(None, None, None)

IdsOf(tabs) == {tabs[i].id : i \in DOMAIN tabs}
IndexOf(tabs, id) == CHOOSE i \in DOMAIN tabs : tabs[i].id = id
Get(tabs, id) == tabs[IndexOf(tabs, id)]
Replace(tabs, id, tab) == [i \in DOMAIN tabs |-> IF tabs[i].id = id THEN tab ELSE tabs[i]]
Without(tabs, id) ==
    [i \in 1 .. Len(tabs) - 1 |-> tabs[IF i < IndexOf(tabs, id) THEN i ELSE i + 1]]

(* The saved requests, with one more or another entry.                     *)
Stored(id, entry) == [r \in DOMAIN stored \union {id} |-> IF r = id THEN entry ELSE stored[r]]

(* activeSession falls back to the first tab.                              *)
ActiveSession(tabs, id) ==
    IF id \in IdsOf(tabs) THEN Get(tabs, id) ELSE IF tabs = <<>> THEN NoSession ELSE tabs[1]
View(tabs, id) == [sessions |-> tabs, active |-> ActiveSession(tabs, id)]
Current == View(sessions, activeSessionId)

(* The hash picks the first page: a workbench, the project page or home.   *)
Init ==
    \E first \in Workbenches \union Homes :
        LET tabs == <<Session(1, first, None)>> IN
        /\ sessions = tabs /\ activeSessionId = 1 /\ listener = View(tabs, 1)
        /\ shown = [id \in {1} |-> Blank(1)]
        /\ pending = NoStash /\ drafts = [w \in Workbenches |-> NoDraft]
        /\ stored = [r \in Saved |-> [workbenchId |-> IF r \in SocketRequests THEN "tcp" ELSE "http",
                                      case |-> r \in Cases]]
        /\ opening = [s \in Slots |-> None] /\ saving = {}
        /\ nextId = 2 /\ overtaken = {} /\ steps = 0

-------------------------------------------------------------------------------
(* Hydration and rendering.                                                *)

Matches(payload, tab) ==
    /\ payload.workbenchId = tab.workbenchId
    /\ payload.sessionId \in {None, tab.id}

(* onHydrate: every mounted editor the payload matches applies it.         *)
Deliver(payload, held) ==
    [id \in DOMAIN held |-> IF Matches(payload, Get(sessions, id)) THEN payload.envelope ELSE held[id]]

MountedDraft(tab, stash, drafted) ==           \* mutant: the draft is preferred to the stash
    IF tab.workbenchId \in Workbenches /\ drafted[tab.workbenchId] # NoDraft
    THEN drafted[tab.workbenchId]
    ELSE IF Matches(stash, tab) THEN stash.envelope ELSE Blank(tab.id)

(* A new editor takes the stash, else the draft, else it is empty.         *)
Mounted(tab, stash, drafted) ==
    IF Matches(stash, tab) THEN stash.envelope
    ELSE IF tab.workbenchId \in Workbenches /\ drafted[tab.workbenchId] # NoDraft
         THEN drafted[tab.workbenchId]
         ELSE Blank(tab.id)

(* setSessions: new tabs mount, closed ones are gone, listeners reinstall. *)
Render(tabs, active, held, stash, drafted) ==
    LET new == IdsOf(tabs) \ DOMAIN shown IN
    /\ sessions' = tabs /\ activeSessionId' = active /\ listener' = View(tabs, active)
    /\ shown' = [id \in IdsOf(tabs) |->
                    IF id \in new THEN Mounted(Get(tabs, id), stash, drafted) ELSE held[id]]
    /\ pending' = IF \E id \in new : Matches(stash, Get(tabs, id)) THEN NoStash ELSE stash
    /\ drafts' = drafted

ShowTabs(tabs, active) == Render(tabs, active, shown, pending, drafts)

(* activateSession on a tab that is open, as far as the view knows.        *)
ActivateSession(id) ==
    /\ activeSessionId' = id
    /\ UNCHANGED <<sessions, listener, pending, shown, drafts>>

unopened == <<stored, opening, saving, overtaken>>

(* createWorkbench: a home page turns into the tab, else it is appended.   *)
Placed(view, tab) ==
    IF view.active.workbenchId \in Homes
    THEN Replace(sessions, view.active.id, tab)
    ELSE Append(sessions, tab)

Reset(drafted, workbench) == [drafted EXCEPT ![workbench] = NoDraft]

CreateTab(view, workbench, requestId, held, stash, drafted) ==
    /\ nextId <= MaxIds
    /\ nextId' = nextId + 1
    /\ LET tabs == Placed(view, Session(nextId, workbench, requestId)) IN
       Len(tabs) <= MaxTabs /\ Render(tabs, nextId, held, stash, drafted)

CreateWorkbench(view, workbench) ==
    /\ CreateTab(view, workbench, None, shown, pending, Reset(drafts, workbench))
    /\ UNCHANGED unopened

(* activate: the last tab of the workbench, else a new one.                *)
Activate(view, workbench, drafted) ==
    LET same == {i \in DOMAIN view.sessions : view.sessions[i].workbenchId = workbench} IN
    /\ \/ /\ same # {}
          /\ ActivateSession(view.sessions[CHOOSE i \in same : \A j \in same : j <= i].id)
          /\ UNCHANGED nextId
       \/ same = {} /\ CreateTab(view, workbench, None, shown, pending, drafted)
    /\ UNCHANGED unopened

(* The hash names a workbench: drafts are restored, not cleared.           *)
ApplyHash(workbench) == Activate(Current, workbench, drafts)

OpenPage(view, page) ==
    LET same == {i \in DOMAIN view.sessions : view.sessions[i].workbenchId = page} IN
    /\ \/ /\ same # {} /\ page # "__project"
          /\ ActivateSession(view.sessions[CHOOSE i \in same : \A j \in same : i <= j].id)
          /\ UNCHANGED nextId
       \/ /\ same = {} \/ page = "__project"
          /\ nextId <= MaxIds /\ Len(sessions) < MaxTabs
          /\ nextId' = nextId + 1
          /\ ShowTabs(Append(sessions, Session(nextId, page, None)), nextId)
    /\ UNCHANGED unopened

-------------------------------------------------------------------------------
(* Tabs.                                                                   *)

SwitchTab(id) ==
    /\ id \in IdsOf(sessions) /\ ActivateSession(id)
    /\ UNCHANGED <<unopened, nextId>>

(* The neighbour becomes active when the active tab is closed.             *)
AfterClose(id) ==
    LET rest == Without(sessions, id)
        index == IndexOf(sessions, id)
    IN IF rest = <<>> THEN None
       ELSE IF id # activeSessionId THEN activeSessionId
       ELSE rest[IF index <= Len(rest) THEN index ELSE Len(rest)].id

CloseSession(id) ==
    /\ id \in IdsOf(sessions)
    /\ ShowTabs(Without(sessions, id), AfterClose(id))
    /\ UNCHANGED <<unopened, nextId>>

(* Also entering a project: openProject, and creating one.                 *)
CloseAllSessions ==
    /\ sessions # <<>> /\ ShowTabs(<<>>, None)
    /\ UNCHANGED <<unopened, nextId>>

CloseOtherSessions ==
    /\ Len(sessions) > 1 /\ ShowTabs(<<Current.active>>, activeSessionId)
    /\ UNCHANGED <<unopened, nextId>>

(* The parent renders: `tabs` is a new array, the listeners reinstall.     *)
ParentRender ==
    /\ listener' = Current
    /\ UNCHANGED <<sessions, activeSessionId, pending, shown, drafts, unopened, nextId>>

(* The autosave timer of a mounted editor fires.                           *)
Autosave(id) ==
    LET workbench == Get(sessions, id).workbenchId IN
    /\ id \in IdsOf(sessions) /\ workbench \in Workbenches
    /\ drafts' = [drafts EXCEPT ![workbench] = shown[id]]
    /\ UNCHANGED <<sessions, activeSessionId, listener, pending, shown, unopened, nextId>>

-------------------------------------------------------------------------------
(* Opening a saved request.                                                *)

(* A case that differs from its interface is aligned and saved when its    *)
(* editor applies it.                                                      *)
Aligned(tab, envelope, differs) ==
    IF differs /\ envelope.case /\ tab.workbenchId = "http"
    THEN {[sessionId |-> tab.id, envelope |-> envelope, workbenchId |-> "http",
           requestId |-> IF tab.requestId = None THEN tab.id ELSE tab.requestId]}
    ELSE {}

NoneExisting(view, id) == {}                        \* mutant: an open tab is not looked for
Existing(view, id) ==
    {i \in DOMAIN view.sessions : view.sessions[i].requestId = id \/ view.sessions[i].id = id}

(* openRequest from the point where the envelope is complete.  The socket  *)
(* editors also hear apivoy-open-request itself, so `held` has it already. *)
Open(view, id, workbench, envelope, held, differs) ==
    LET existing == Existing(view, id)
        blank == view.active.workbenchId = workbench /\ view.active.requestId = None
        Payload(tab) == [workbenchId |-> workbench, envelope |-> envelope,
                         sessionId |-> IF workbench = "http" THEN tab ELSE None]
    IN
    \/ /\ existing # {}
       /\ activeSessionId' = view.sessions[CHOOSE i \in existing : \A j \in existing : i <= j].id
       /\ shown' = held
       /\ UNCHANGED <<sessions, listener, pending, drafts, saving, nextId, overtaken>>
    \/ /\ existing = {} /\ blank
       /\ LET restored == [view.active EXCEPT !.requestId = id]
              open == view.active.id \in IdsOf(sessions)
          IN /\ Render(Replace(sessions, restored.id, restored), activeSessionId,
                       Deliver(Payload(restored.id), held), Payload(restored.id), drafts)
             /\ saving' = saving \union
                    (IF open THEN Aligned(Get(sessions, restored.id), envelope, differs) ELSE {})
             /\ overtaken' = overtaken \union
                    {w.sessionId : w \in {w \in saving' : w.sessionId = restored.id /\ w.requestId # id}}
             /\ UNCHANGED nextId
    \/ /\ existing = {} /\ ~blank
       /\ CreateTab(view, workbench, id,
                    Deliver(Payload(nextId), held), Payload(nextId), drafts)
       /\ saving' = saving \union
              (IF nextId \in IdsOf(sessions')
               THEN Aligned(Get(sessions', nextId), envelope, differs) ELSE {})
       /\ UNCHANGED overtaken

(* apivoy-open-request for a request that is no case.                      *)
OpenRequest(id) ==
    /\ id \in DOMAIN stored /\ ~stored[id].case
    /\ LET workbench == stored[id].workbenchId
           heard == [workbenchId |-> workbench, sessionId |-> None, envelope |-> Blank(id)]
       IN Open(listener, id, workbench, Blank(id),
               IF workbench = "tcp" THEN Deliver(heard, shown) ELSE shown, FALSE)
    /\ UNCHANGED <<stored, opening>>

(* For a case the handler awaits the parent interface first ...            *)
OpenCase(slot, id) ==
    /\ opening[slot] = None /\ id \in DOMAIN stored /\ stored[id].case
    /\ opening' = [opening EXCEPT ![slot] =
                      [kind |-> "case", id |-> id, view |-> listener]]
    /\ UNCHANGED <<sessions, activeSessionId, listener, pending, shown, drafts, stored,
                   saving, nextId, overtaken>>

(* ... and goes on with the view it captured.                              *)
CaseLoaded(slot, differs) ==
    /\ opening[slot] # None /\ opening[slot].kind = "case"
    /\ LET o == opening[slot] IN
       Open(o.view, o.id, "http", Content(o.id, TRUE), shown, differs)
    /\ Cardinality(saving') <= MaxSaves
    /\ opening' = [opening EXCEPT ![slot] = None]
    /\ UNCHANGED stored

(* createCurlRequest saves the request, then opens a tab for it.           *)
CurlSaved(slot) ==
    /\ opening[slot] = None /\ nextId <= MaxIds
    /\ nextId' = nextId + 1
    /\ stored' = Stored(nextId, [workbenchId |-> "http", case |-> FALSE])
    /\ opening' = [opening EXCEPT ![slot] =
                      [kind |-> "curl", id |-> nextId, view |-> Current]]
    /\ UNCHANGED <<sessions, activeSessionId, listener, pending, shown, drafts,
                   saving, overtaken>>

CurlOpened(slot) ==
    /\ opening[slot] # None /\ opening[slot].kind = "curl"
    /\ LET o == opening[slot]
           payload == [workbenchId |-> "http", sessionId |-> nextId, envelope |-> Blank(o.id)]
       IN CreateTab(o.view, "http", o.id, shown, payload, Reset(drafts, "http"))
    /\ opening' = [opening EXCEPT ![slot] = None]
    /\ UNCHANGED <<stored, saving, overtaken>>

-------------------------------------------------------------------------------
(* Saving.                                                                 *)

(* A tab without a request saves under its own id.                         *)
Identity(tab) == IF tab.requestId = None THEN tab.id ELSE tab.requestId

Save(id) ==
    /\ id \in IdsOf(sessions) /\ Get(sessions, id).workbenchId \in Workbenches
    /\ Cardinality(saving) < MaxSaves
    /\ saving' = saving \union {[sessionId |-> id, envelope |-> shown[id],
                                 workbenchId |-> Get(sessions, id).workbenchId,
                                 requestId |-> Identity(Get(sessions, id))]}
    /\ UNCHANGED <<sessions, activeSessionId, listener, pending, shown, drafts, stored,
                   opening, nextId, overtaken>>

(* onSave returned: the tab, if it is still open, takes the identity.      *)
Identified(save) ==
    IF save.sessionId \in IdsOf(sessions)
    THEN Replace(sessions, save.sessionId,
                 [Get(sessions, save.sessionId) EXCEPT !.requestId = save.requestId])
    ELSE sessions

SaveDone(save) ==
    /\ saving' = saving \ {save}
    /\ stored' = Stored(save.requestId, [workbenchId |-> save.workbenchId, case |-> save.envelope.case])
    /\ overtaken' = IF save.sessionId \in overtaken THEN overtaken \union {save.requestId} ELSE overtaken
    /\ ShowTabs(Identified(save), activeSessionId)
    /\ UNCHANGED <<opening, nextId>>

SaveFailed(save) ==
    /\ saving' = saving \ {save}
    /\ UNCHANGED <<sessions, activeSessionId, listener, pending, shown, drafts, stored,
                   opening, nextId, overtaken>>

(* apivoy-request-deleted: tabs of the request forget it.                  *)
Forgotten(id) ==
    [i \in DOMAIN sessions |->
        IF sessions[i].requestId = id THEN [sessions[i] EXCEPT !.requestId = None] ELSE sessions[i]]

RequestDeleted(id) ==
    /\ id \in DOMAIN stored
    /\ stored' = [r \in DOMAIN stored \ {id} |-> stored[r]]
    /\ overtaken' = overtaken \union {w.requestId : w \in {w \in saving : w.requestId = id}}
    /\ ShowTabs(Forgotten(id), activeSessionId)
    /\ UNCHANGED <<opening, saving, nextId>>

-------------------------------------------------------------------------------
Step ==
    \/ \E view \in {Current, listener}, w \in Workbenches :
          CreateWorkbench(view, w) \/ Activate(view, w, Reset(drafts, w))
    \/ \E w \in Workbenches : ApplyHash(w)
    \/ OpenPage(Current, "__project") \/ OpenPage(listener, "__scripts") \/ OpenPage(listener, "__new")
    \/ \E id \in Ids : SwitchTab(id) \/ CloseSession(id) \/ Autosave(id) \/ Save(id)
    \/ CloseAllSessions \/ CloseOtherSessions \/ ParentRender
    \/ \E id \in Saved \union Ids : OpenRequest(id) \/ RequestDeleted(id)
    \/ \E slot \in Slots :
          \/ \E id \in Saved \union Ids : OpenCase(slot, id)
          \/ \E differs \in BOOLEAN : CaseLoaded(slot, differs)
          \/ CurlSaved(slot) \/ CurlOpened(slot)
    \/ \E save \in saving : SaveDone(save) \/ SaveFailed(save)

Next == steps < MaxSteps /\ steps' = steps + 1 /\ Step

Spec == Init /\ [][Next]_vars

-------------------------------------------------------------------------------
(* An HTTP tab holds the content of the request it will save to: opening,  *)
(* restoring into a blank tab, drafts, deletion and saves in any order     *)
(* keep the identity in WorkbenchDeck and the content in HttpWorkbench     *)
(* together.  The one way out is a request opened in a tab whose save is    *)
(* under way: when that returns, the tab takes the old identity back.      *)
TabShowsItsRequest ==
    \A i \in DOMAIN sessions :
        LET tab == sessions[i] IN
        tab.workbenchId = "http" /\ tab.requestId \notin {None, tab.id} /\ tab.id \notin overtaken
            => shown[tab.id].of = tab.requestId

(* Two tabs never edit the same interface or socket request: an open       *)
(* request is found again, also after saves, deletions and re-openings.    *)
(* Besides the overtaken tabs there is one more way out: when a request is *)
(* deleted while a tab saves it, that tab takes the identity back although *)
(* the request may have been saved and opened elsewhere meanwhile.         *)
(* (A test case can be opened twice: its handler awaits before it looks.)  *)
OneTabPerRequest ==
    \A i, j \in DOMAIN sessions :
        /\ i # j /\ sessions[i].requestId = sessions[j].requestId
        /\ sessions[i].requestId \in Saved \ Cases
        => {sessions[i].id, sessions[j].id, sessions[i].requestId} \intersect overtaken # {}
===============================================================================
