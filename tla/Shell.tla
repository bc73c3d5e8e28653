-------------------------------- MODULE Shell --------------------------------
(***************************************************************************)
(* AppShell: which module of the project is shown, which dialogs are open, *)
(* and how wide the explorer is.                                           *)
(*                                                                         *)
(* The history and the settings replace the workbench deck, which is       *)
(* unmounted with everything in it; a dialog is unmounted when it closes.  *)
(* Escape reaches the shell's own handler and the focus trap of every open *)
(* dialog, so it closes them all.  The handlers that open a dialog close   *)
(* the others, except that only openSettingsEvent closes the environment   *)
(* editor.                                                                 *)
(***************************************************************************)
EXTENDS Naturals, FiniteSets

CONSTANTS
    Widths,        \* widths the pointer can drag the explorer to
    MaxWidth,      \* half of the window
    DragStep       \* what an arrow key adds

ASSUME ShellAssumption == Widths \subseteq Nat /\ MaxWidth \in Nat /\ MaxWidth >= 232 /\ DragStep \in Nat

VARIABLE shell

Modules == {"home", "resources", "automation", "history", "settings"}

ShellInit ==
    shell = [module |-> "resources", open |-> {}, collapsed |-> FALSE, width |-> 232, start |-> 232,
             resizing |-> FALSE]

DeckMounted(s) == s.module \notin {"history", "settings"}
HistoryMounted(s) == s.module = "history"
HandleShown(s) == ~s.collapsed /\ s.module = "resources"

ShellBecomes(s) == shell' = s
Free == shell.open = {}            \* a dialog covers the rest of the shell

-------------------------------------------------------------------------------
(* Modules.                                                                *)

OpenProjectModule ==
    /\ Free
    /\ \E view \in Modules \ {shell.module} :
          /\ view # "home" /\ (shell.module = "home" => view \in {"resources", "history"})
          /\ ShellBecomes([shell EXCEPT !.module = view])

ShowHome == Free /\ shell.module # "home" /\ ShellBecomes([shell EXCEPT !.module = "home"])

(* A command of the palette: one that opens a workbench or a module.       *)
RunCommand ==
    /\ "palette" \in shell.open
    /\ \E view \in {"resources", "history"} :
          ShellBecomes([shell EXCEPT !.module = view, !.open = @ \ {"palette"}])

OpenProjectSettings ==
    /\ Free /\ DeckMounted(shell)
    /\ ShellBecomes([shell EXCEPT !.module = "settings",
                             !.open = @ \ {"palette", "settings", "collaboration"}])

-------------------------------------------------------------------------------
(* Dialogs.                                                                *)

(* Ctrl+K; the button in the header.                                       *)
TogglePalette ==
    ShellBecomes([shell EXCEPT !.open = IF "palette" \in @ THEN @ \ {"palette", "settings", "collaboration"}
                                   ELSE (@ \ {"settings", "collaboration"}) \union {"palette"}])

(* Ctrl+,                                                                  *)
ToggleSettings ==
    ShellBecomes([shell EXCEPT !.open = IF "settings" \in @ THEN @ \ {"palette", "settings", "collaboration"}
                                   ELSE (@ \ {"palette", "collaboration"}) \union {"settings"}])

(* openSettings, from the header or the palette.                           *)
OpenSettings ==
    /\ Free \/ "palette" \in shell.open
    /\ ShellBecomes([shell EXCEPT !.open = (@ \ {"palette", "collaboration"}) \union {"settings"}])

(* openSettingsEvent, from the deck, the explorer or the team page.        *)
OpenSettingsEvent ==
    /\ Free \/ "collaboration" \in shell.open
    /\ ShellBecomes([shell EXCEPT !.open = {"settings"}])

OpenCollaboration ==
    /\ Free \/ shell.open \intersect {"palette", "settings"} # {}
    /\ ShellBecomes([shell EXCEPT !.open = (@ \ {"palette", "settings"}) \union {"collaboration"}])

OpenEnvironmentEvent ==
    /\ Free /\ shell.module # "history"
    /\ ShellBecomes([shell EXCEPT !.open = (@ \ {"palette", "settings", "collaboration"}) \union {"environment"}])

(* The close button and the backdrop of the dialog on top.                 *)
CloseDialog ==
    \E d \in shell.open :
        /\ d = "environment" => shell.open = {d}
        /\ ShellBecomes([shell EXCEPT !.open = @ \ {d}])

Escape == shell.open # {} /\ ShellBecomes([shell EXCEPT !.open = {}])

-------------------------------------------------------------------------------
(* The explorer.                                                           *)

Bounded(width) == IF width > MaxWidth THEN MaxWidth ELSE width
AtLeast190(width) == IF width < 190 THEN 190 ELSE width

ToggleExplorer ==
    /\ Free /\ shell.module = "resources" /\ ~shell.resizing
    /\ ShellBecomes([shell EXCEPT !.collapsed = ~@])

DragStarts ==
    /\ Free /\ HandleShown(shell) /\ ~shell.resizing
    /\ ShellBecomes([shell EXCEPT !.start = shell.width, !.resizing = TRUE])

DragMoves ==
    /\ HandleShown(shell) /\ shell.resizing
    /\ \E x \in Widths : x # shell.width /\ ShellBecomes([shell EXCEPT !.width = Bounded(x)])

FinishResize(s) ==
    IF s.width <= 48 THEN [s EXCEPT !.resizing = FALSE, !.width = s.start, !.collapsed = TRUE]
    ELSE [s EXCEPT !.resizing = FALSE]
DragEnds == HandleShown(shell) /\ shell.resizing /\ ShellBecomes(FinishResize(shell))

ResetWidth == Free /\ HandleShown(shell) /\ ~shell.resizing /\ ShellBecomes([shell EXCEPT !.width = 232])

ArrowKey ==
    /\ Free /\ HandleShown(shell) /\ ~shell.resizing
    /\ \E width \in {shell.width + DragStep, shell.width - DragStep} :
          ShellBecomes([shell EXCEPT !.width = Bounded(AtLeast190(width))])

ShellUser ==
    \/ OpenProjectModule \/ ShowHome \/ RunCommand \/ OpenProjectSettings \/ TogglePalette
    \/ ToggleSettings \/ OpenSettings \/ OpenSettingsEvent \/ OpenCollaboration
    \/ OpenEnvironmentEvent \/ CloseDialog \/ Escape \/ ToggleExplorer \/ DragStarts \/ DragMoves
    \/ DragEnds \/ ResetWidth \/ ArrowKey

-------------------------------------------------------------------------------
===============================================================================
