----------------------------- MODULE HistoryPanel -----------------------------
(***************************************************************************)
(* RequestHistoryPanel: the list of past executions, the tabs opened from  *)
(* it, the request snapshot each tab loads, and the editor in each tab     *)
(* (HttpWorkbench or ProtocolHistoryWorkbench) with its save dialogs.      *)
(*                                                                         *)
(* Two things make the order of events matter.  The desktop hands the      *)
(* panel new onList and onReplay functions at every render of App, which   *)
(* restarts both effects: the list is loaded again, without the filter,    *)
(* and the snapshot of the active tab again.  And in both front ends every *)
(* render of the panel makes a new `initialResult` for every tab, which    *)
(* the editors take for another record: they go back to the snapshot.      *)
(***************************************************************************)
EXTENDS Naturals, Sequences, SequencesExt

CONSTANTS
    Records,        \* ids of executions in the history
    HttpRecords,    \* those of HTTP requests
    Lost,           \* those without a request snapshot
    Origin,         \* the interface the records are executions of
    Filters,        \* what the list can be filtered by
    NoFilter,
    Nobody          \* no record, no list

ASSUME HistoryAssumption ==
    /\ HttpRecords \subseteq Records /\ Lost \subseteq Records
    /\ NoFilter \in Filters /\ Nobody \notin Records \union Filters
    /\ Nobody \notin {"snapshot", "edited"}

VARIABLE panel

(* loads counts the calls of onList under way by their filter; fetch is    *)
(* the call of onReplay whose answer is not ignored.  asked, failed,       *)
(* crossed and missed are history: the filter of the last load, that it    *)
(* failed, that a render of App started one during another, that the       *)
(* snapshot of the active tab could not be loaded.                         *)
Unmounted ==
    [mounted |-> FALSE, listed |-> Nobody, loading |-> FALSE, loads |-> [f \in Filters |-> 0],
     openIds |-> <<>>, activeId |-> Nobody, requests |-> {}, detailLoadingId |-> Nobody,
     fetch |-> Nobody, tabs |-> <<>>, draft |-> Nobody, saving |-> 0,
     asked |-> Nobody, failed |-> FALSE, crossed |-> FALSE, missed |-> FALSE]

(* A tab's form and the form its result answers; run is the form being     *)
(* executed.  touched is history: edited since the last send, sent back to *)
(* the snapshot during a run, or left with the result before a failed one. *)
NewTab == [form |-> "snapshot", result |-> "snapshot", run |-> Nobody, touched |-> FALSE]

-------------------------------------------------------------------------------
(* Rendering and effects.                                                  *)

ResetTab(tab) ==
    [tab EXCEPT !.form = "snapshot", !.result = "snapshot", !.touched = tab.run # Nobody]

(* The editors on screen: of the open tabs whose snapshot is known.        *)
Editors(p) == {id \in ToSet(p.openIds) : id \in p.requests \ Lost}

Rendered(p) ==
    [p EXCEPT !.tabs = [id \in Editors(p) |-> IF id \in DOMAIN p.tabs THEN ResetTab(p.tabs[id])
                                              ELSE NewTab]]

(* load                                                                    *)
Load(p, filter) ==
    [p EXCEPT !.loading = TRUE, !.loads[filter] = @ + 1, !.asked = filter, !.failed = FALSE]
Loading(p) == \E f \in Filters : p.loads[f] > 0

(* The effect on [activeId, onReplay, requests].  Its cleanup makes the    *)
(* answer of the call before it count for nothing.                         *)
DetailEffectWaits(p) ==                \* mutant: a snapshot said to be loading is not asked for again
    IF p.activeId = Nobody \/ p.activeId \in p.requests THEN [p EXCEPT !.fetch = Nobody]
    ELSE IF p.detailLoadingId = p.activeId THEN [p EXCEPT !.fetch = Nobody]
    ELSE [p EXCEPT !.fetch = p.activeId, !.detailLoadingId = p.activeId, !.missed = FALSE]
DetailEffect(p) ==
    IF p.activeId = Nobody \/ p.activeId \in p.requests THEN [p EXCEPT !.fetch = Nobody]
    ELSE [p EXCEPT !.fetch = p.activeId, !.detailLoadingId = p.activeId, !.missed = FALSE]

(* A render of App.                                                        *)
AppRendered(p, desktop) ==
    IF ~p.mounted THEN p
    ELSE IF desktop THEN Rendered(DetailEffect(Load([p EXCEPT !.crossed = @ \/ Loading(p)], NoFilter)))
    ELSE Rendered(p)

Set(p) == panel' = Rendered(p)

OpenPage == panel' = Load([Unmounted EXCEPT !.mounted = TRUE], NoFilter)
LeavePage == panel' = Unmounted

-------------------------------------------------------------------------------
(* The list.                                                               *)

CanPress == ~panel.loading

PressFilter ==
    /\ panel.mounted /\ CanPress
    /\ \E f \in Filters :
          Set(Load([panel EXCEPT !.crossed = Loading(panel) /\ panel.crossed], f))

LoadAnswered(ok) ==
    \E f \in Filters :
        /\ panel.loads[f] > 0
        /\ Set([panel EXCEPT !.loads[f] = @ - 1, !.loading = FALSE,
                             !.listed = IF ok THEN f ELSE @, !.failed = @ \/ ~ok])

(* Typing in the search field or choosing a filter only renders.           *)
Search == panel.mounted /\ panel.tabs # <<>> /\ Set(panel)

-------------------------------------------------------------------------------
(* Tabs.                                                                   *)

Activated(p, id) == IF p.activeId = id THEN p ELSE DetailEffect([p EXCEPT !.activeId = id])

OpenHistory ==
    /\ panel.mounted /\ panel.listed # Nobody /\ panel.draft = Nobody
    /\ \E id \in Records :
          Set(Activated([panel EXCEPT !.openIds = IF Contains(@, id) THEN @ ELSE Append(@, id)], id))

Activate ==
    \E id \in ToSet(panel.openIds) \ {panel.activeId} :
        panel.draft = Nobody /\ Set(Activated(panel, id))

(* closeTab: the neighbour that takes the closed tab's place becomes       *)
(* active.                                                                 *)
CloseTab ==
    /\ panel.draft = Nobody
    /\ \E i \in DOMAIN panel.openIds :
          LET id == panel.openIds[i]
              rest == RemoveAt(panel.openIds, i)
              next == IF rest = <<>> THEN Nobody ELSE rest[IF i <= Len(rest) THEN i ELSE Len(rest)]
              closed == [panel EXCEPT !.openIds = rest]
          IN  Set(IF panel.activeId = id THEN Activated(closed, next) ELSE closed)

CloseAllTabs ==
    /\ panel.openIds # <<>> /\ panel.draft = Nobody
    /\ Set(Activated([panel EXCEPT !.openIds = <<>>], Nobody))

CloseOtherTabs ==
    /\ Len(panel.openIds) > 1 /\ panel.activeId # Nobody /\ panel.draft = Nobody
    /\ Set([panel EXCEPT !.openIds = <<panel.activeId>>])

(* onReplay answered.  A missing snapshot is remembered like any other; a  *)
(* failure is not tried again while the tab stays active.                  *)
FetchAnswered(ok) ==
    /\ panel.fetch # Nobody
    /\ LET id == panel.fetch
           done == [panel EXCEPT !.fetch = Nobody, !.missed = ~ok,
                                 !.detailLoadingId = IF @ = id THEN Nobody ELSE @]
       IN  Set(IF ok THEN DetailEffect([done EXCEPT !.requests = @ \union {id}]) ELSE done)

-------------------------------------------------------------------------------
(* The editor of the active tab.  HttpWorkbench disables its inputs and    *)
(* drops the result while it sends; ProtocolHistoryWorkbench does neither. *)

Active == panel.activeId
HasEditor == Active \in DOMAIN panel.tabs /\ panel.draft = Nobody
Running == panel.tabs[Active].run # Nobody

EditTab ==
    /\ HasEditor /\ (Active \in HttpRecords => ~Running)
    /\ panel' = [panel EXCEPT !.tabs[Active].form = "edited", !.tabs[Active].touched = TRUE]

SendTab ==
    /\ HasEditor /\ ~Running
    /\ LET tab == panel.tabs[Active] IN
       panel' = [panel EXCEPT !.tabs[Active] =
                    [tab EXCEPT !.run = tab.form, !.touched = FALSE,
                                !.result = IF Active \in HttpRecords THEN Nobody ELSE @]]

(* A failure is a result too in HttpWorkbench; in ProtocolHistoryWorkbench *)
(* the one before it stays.                                                *)
SendAnswered(ok) ==
    \E id \in DOMAIN panel.tabs :
        LET tab == panel.tabs[id]
            kept == ~ok /\ id \notin HttpRecords IN
        /\ tab.run # Nobody
        /\ panel' = [panel EXCEPT !.tabs[id] =
                        [tab EXCEPT !.run = Nobody, !.result = IF kept THEN @ ELSE tab.run,
                                    !.touched = @ \/ kept]]

-------------------------------------------------------------------------------
(* Saving: a case of the linked interface, with the result, or a new       *)
(* interface.  The dialog keeps what the editor held when it was opened.   *)

(* parent is the collection of the linked interface, or Nobody.            *)
OpenDialog(parent) ==
    /\ HasEditor /\ ~Running
    /\ Set([panel EXCEPT !.draft =
              [request |-> panel.tabs[Active].form, touched |-> panel.tabs[Active].touched,
               result |-> IF parent # Nobody THEN panel.tabs[Active].result ELSE Nobody,
               parent |-> parent]])

CancelDialog ==
    /\ panel.draft # Nobody /\ panel.saving = 0
    /\ Set([panel EXCEPT !.draft = Nobody])

(* saveInterface and saveDebugCase: the handler in `slot` saves and        *)
(* refreshes the tree; the dialog closes if both succeed.                  *)
SaveStarts(slot) ==
    /\ panel.draft # Nobody /\ panel.saving = 0
    /\ Set([panel EXCEPT !.saving = slot])

SaveEnded(p, ok) == [p EXCEPT !.saving = 0, !.draft = IF ok THEN Nobody ELSE @]

PanelUser ==
    \/ PressFilter \/ Search \/ OpenHistory \/ Activate \/ CloseTab \/ CloseAllTabs \/ CloseOtherTabs
    \/ EditTab \/ SendTab \/ CancelDialog

-------------------------------------------------------------------------------
(* Once no load is under way the list is the one asked for last.  The      *)
(* exceptions: that load failed, or on the desktop a render of App started *)
(* a load during another one, whose answers come in any order.             *)
ListIsAsked ==
    panel.mounted /\ ~Loading(panel) /\ ~panel.failed /\ ~panel.crossed => panel.listed = panel.asked

(* The active tab is loading its snapshot, with an answer to come, or has  *)
(* it and says so, however often the user switched tabs and App rendered;  *)
(* unless the snapshot could not be loaded.                                *)
DetailShown ==
    panel.activeId # Nobody /\ ~panel.missed =>
        IF panel.activeId \in panel.requests THEN panel.detailLoadingId # panel.activeId
        ELSE panel.fetch = panel.activeId

HistoryShown == ListIsAsked /\ DetailShown

(* A case saved from the history holds a response and, as the request that *)
(* was actually sent, the one it answered.  The exceptions: the user       *)
(* edited the form after sending it; the panel was rendered during the     *)
(* run, so that the form went back to the snapshot under it; and a request *)
(* of another protocol than HTTP failed, which leaves the response before  *)
(* it in place.                                                            *)
CaseIsAnswered ==
    panel.draft # Nobody =>
        LET draft == panel.draft IN
        draft.result # Nobody /\ ~draft.touched => draft.result = draft.request

(* The history page shows what it says it shows, and saves what it shows.  *)
HistoryFaithful == HistoryShown /\ CaseIsAnswered
===============================================================================
