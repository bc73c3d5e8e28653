---------------------------------- MODULE App ----------------------------------
(***************************************************************************)
(* The application, of the web and of the desktop: the shell, the resource *)
(* tree, the history page, the environment editor, the file import, and    *)
(* the sends and sessions of the workbenches.                              *)
(*                                                                         *)
(* The parts meet in the shell and in App.  A change of module unmounts    *)
(* the deck or the history page, closing the environment dialog unmounts   *)
(* its editor, and what they had started goes on without them.  A change   *)
(* of the tree renders App, and a change of the shell its children, which  *)
(* the history page notices.  Saving from the history is a handler of the  *)
(* tree.                                                                   *)
(***************************************************************************)
EXTENDS Explorer, HistoryPanel, Dispatch, LiveSession, EnvironmentEditor, Shell, TeamSync, AgentSession,
        Preferences

(* What a behaviour is about: the front end, whether the tree is loaded at *)
(* its start, and how many steps the user takes in each part.              *)
CONSTANTS
    Scenarios,
    Imports      \* what importDocument makes of the files the user can choose (ImportDoc)

ASSUME ScenarioAssumption ==
    \A scenario \in Scenarios : scenario.front \in {"web", "desktop"} /\ scenario.loaded \in BOOLEAN

(* A file that is read holds requests in folders; the records of the       *)
(* history are executions of a saved interface.                            *)
ASSUME ImportsAssumption == \A file \in Imports : file.ok => file.paths \in Seq(Seq(STRING))
ASSUME OriginAssumption == Origin \in Nat

VARIABLES
    misread,        \* history: a file was imported as something else than it says
    budget          \* steps the user may still take

dialogs == <<teamVars, agentVars, preferenceVars>>
others == <<sends, executions, cancelled, session, environment, parameters, editor, left,
            overwritten, shell, misread, dialogs>>
vars == <<explorerVars, panel, others, budget>>

AppInit ==
    /\ \E scenario \in Scenarios :
          ExplorerInit(scenario.front, scenario.loaded) /\ budget = scenario.steps
    /\ panel = Unmounted /\ DispatchInit /\ SessionInit /\ EnvironmentInit /\ ShellInit
    /\ TeamInit /\ AgentInit /\ PreferencesInit /\ misread = FALSE
    /\ budget["agent"] = 0 => settings = CHOOSE conf \in Configurations : TRUE

Spends(part) == budget[part] > 0 /\ budget' = [budget EXCEPT ![part] = @ - 1]
Faulty == faults < MaxFaults /\ faults' = faults + 1
KeepExplorer == UNCHANGED <<front, store, tree, treeLoading, treeError, refreshSequence, refreshes,
                            calls, nextId, snapshot, finished, unseen>>
Desktop == front = "desktop"

-------------------------------------------------------------------------------
(* The tree.  A step of it that App's state shows renders the history; the *)
(* end of the handler that saves from there is the end of the save.        *)

PanelAfterTree ==
    LET rendered == IF <<tree, treeLoading, treeError>>' # <<tree, treeLoading, treeError>>
                    THEN AppRendered(panel, Desktop) ELSE panel
        slot == panel.saving
        ended == slot # 0 /\ calls[slot] # Idle /\ calls'[slot] = Idle
        ok == calls[slot].wait # 0 /\ (Desktop => faults' = faults)
    IN  panel' = IF ended THEN Rendered(SaveEnded(rendered, ok)) ELSE rendered

TreeUser == Spends("tree") /\ DeckMounted(shell) /\ ExplorerUser /\ PanelAfterTree /\ UNCHANGED others
TreeAsync == ExplorerAsync /\ PanelAfterTree /\ UNCHANGED <<others, budget>>

(* importFiles                                                             *)
ImportFiles ==
    /\ Spends("import") /\ DeckMounted(shell) /\ Shown
    /\ \E file \in Imports :
          /\ misread' = (misread \/ ~file.right)
          /\ IF file.ok THEN ImportRequests(file.paths) ELSE UNCHANGED explorerVars
    /\ UNCHANGED <<panel, sends, executions, cancelled, session, environment, parameters, editor, left,
                   overwritten, shell, dialogs>>

-------------------------------------------------------------------------------
(* The history.                                                            *)

(* linkedInterface, linkedEnvelopeInterface: where the interface is that   *)
(* the records are executions of.                                          *)
LinkedIn(t) == IF Origin \in Interfaces(t) THEN t.reqs[Origin].coll ELSE Nobody

HistoryUser ==
    /\ Spends("history")
    /\ PanelUser \/ OpenDialog(LinkedIn(tree))
    /\ UNCHANGED <<explorerVars, others>>

(* onSaveDebugCase, into the collection of the interface; onSaveInterface, *)
(* into a chosen one.                                                      *)
HistorySave ==
    /\ Spends("history")
    /\ \E slot \in Slots, c \in DOMAIN tree.colls :
          /\ calls[slot] = Idle /\ slot = FreeSlot
          /\ SaveStarts(slot)
          /\ panel.draft.parent # Nobody => c = panel.draft.parent
          /\ Start([kind |-> "historySave"],
                   Then([kind |-> "saveEnvelope", id |-> nextId,
                         row |-> Request(c, IF panel.draft.parent # Nobody THEN Origin ELSE None)]), FALSE, 1)
    /\ UNCHANGED others

HistoryAsync ==
    /\ LoadAnswered(TRUE) \/ FetchAnswered(TRUE) \/ SendAnswered(TRUE)
    /\ UNCHANGED <<explorerVars, others, budget>>
HistoryFault ==
    /\ Faulty /\ KeepExplorer
    /\ LoadAnswered(FALSE) \/ FetchAnswered(FALSE) \/ SendAnswered(FALSE)
    /\ UNCHANGED <<others, budget>>

-------------------------------------------------------------------------------
(* Workbenches.                                                            *)

WorkbenchSends ==
    /\ \/ Spends("send") /\ Desktop /\ DispatchUser
       \/ UNCHANGED budget /\ DispatchAsync
    /\ UNCHANGED <<explorerVars, panel, session, environmentVars, shell, misread, dialogs>>

WorkbenchSessions ==
    /\ \/ Spends("session") /\ SessionUser
       \/ UNCHANGED budget /\ SessionAsync
    /\ UNCHANGED <<explorerVars, panel, dispatchVars, environmentVars, shell, misread, dialogs>>

-------------------------------------------------------------------------------
(* The environment editor.                                                 *)

Environment ==
    /\ \/ Spends("environment") /\ shell.open = {"environment"} /\ EnvironmentUser /\ UNCHANGED explorerVars
       \/ UNCHANGED budget /\ EnvironmentAsync(Desktop) /\ UNCHANGED explorerVars
       \/ UNCHANGED budget /\ Faulty /\ KeepExplorer /\ EnvironmentFault
    /\ UNCHANGED <<panel, dispatchVars, session, shell, misread, dialogs>>

-------------------------------------------------------------------------------
(* The shell, and what its changes mount and unmount.                      *)

ShellStep ==
    /\ Spends("shell") /\ ShellUser
    /\ IF DeckMounted(shell) /\ ~DeckMounted(shell') THEN DeckUnmounted ELSE UNCHANGED session
    /\ CASE ~HistoryMounted(shell) /\ HistoryMounted(shell') -> OpenPage
         [] HistoryMounted(shell) /\ ~HistoryMounted(shell') -> LeavePage
         [] HistoryMounted(shell) /\ HistoryMounted(shell') -> panel' = Rendered(panel)
         [] OTHER -> UNCHANGED panel
    /\ CASE "environment" \in shell'.open \ shell.open -> OpenEnvironment
         [] "environment" \in shell.open \ shell'.open -> CloseEnvironment
         [] OTHER -> UNCHANGED environmentVars
    /\ UNCHANGED <<explorerVars, dispatchVars, misread, dialogs>>

-------------------------------------------------------------------------------
(* The team page, the agents and the preferences, which go on in other     *)
(* windows and on other machines whatever this window shows.               *)

Elsewhere == <<panel, sends, executions, cancelled, session, environment, parameters, editor, left,
               overwritten, shell, misread>>

Team ==
    /\ \/ Spends("team") /\ TeamUser /\ UNCHANGED explorerVars
       \/ UNCHANGED budget /\ TeamAsync /\ UNCHANGED explorerVars
       \/ UNCHANGED budget /\ Faulty /\ KeepExplorer /\ TeamFault
    /\ UNCHANGED <<Elsewhere, agentVars, preferenceVars>>

AgentTalk ==
    /\ \/ Spends("agent") /\ AgentUser /\ UNCHANGED explorerVars
       \/ UNCHANGED budget /\ AgentAsync /\ UNCHANGED explorerVars
       \/ UNCHANGED budget /\ Faulty /\ KeepExplorer /\ AgentFault
    /\ UNCHANGED <<Elsewhere, teamVars, preferenceVars>>

PreferenceStep ==
    /\ \/ Spends("preferences") /\ PreferencesUser
       \/ UNCHANGED budget /\ PreferencesAsync
    /\ UNCHANGED <<explorerVars, Elsewhere, teamVars, agentVars>>

Next ==
    \/ TreeUser \/ TreeAsync \/ ImportFiles \/ HistoryUser \/ HistorySave \/ HistoryAsync \/ HistoryFault
    \/ WorkbenchSends \/ WorkbenchSessions \/ Environment \/ ShellStep
    \/ Team \/ AgentTalk \/ PreferenceStep

Spec == AppInit /\ [][Next]_vars

-------------------------------------------------------------------------------
(* Every file the user chooses is read as what it says, or refused for a   *)
(* reason (ReadsRight).                                                    *)
ImportResolves == ~misread

(* What the application makes of a copy of a project, of a file and of a   *)
(* snapshot is the same tree again, and moving up or down exchanges two    *)
(* collections, if nothing else changed the tree meanwhile.                *)
CopiesFaithful == CloneMirrors /\ ImportPlaces /\ RestoreReproduces /\ SwapExchanges
===============================================================================
