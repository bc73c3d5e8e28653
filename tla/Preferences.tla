------------------------------ MODULE Preferences ------------------------------
(***************************************************************************)
(* The preferences of the application: where they are stored, the settings *)
(* dialog, and the pages that show and write them.                         *)
(*                                                                         *)
(* Three keys stand for the kinds there are.  The collaboration address is *)
(* in the local storage, which all windows share, and the team page writes *)
(* it back in an effect, after its render.  The model of the AI page is in *)
(* the local storage too and is written with every keystroke.  The gateway *)
(* address is in the session storage of the window and is written back in  *)
(* an effect by each gateway tab.  Setting a value notifies the pages of   *)
(* the same window at once; the browser sends the other windows a storage  *)
(* event.                                                                  *)
(***************************************************************************)
EXTENDS Naturals

CONSTANTS
    Windows, Texts,
    DefaultText,         \* what a key that is not stored reads as
    PreferencePages      \* the places for pages: [window, key, number]

Local == {"collaborationUrl", "aiModel"}
Keys == Local \union {"gatewayUrl"}
WritesBack(p) == p.key # "aiModel"

ASSUME PreferenceAssumption ==
    DefaultText \in Texts /\ \A p \in PreferencePages : p.window \in Windows /\ p.key \in Keys

VARIABLES
    stored,          \* the value of each key as each window reads it
    shows,           \* of each page: its state, the state it last rendered, whether effects are due
    settingsDraft,   \* of each window: what its settings dialog holds
    storageEvents    \* of each window: storage events under way to it

preferenceVars == <<stored, shows, settingsDraft, storageEvents>>

ClosedPage == [open |-> FALSE, text |-> DefaultText, rendered |-> DefaultText, effect |-> FALSE]

PreferencesInit ==
    /\ stored = [w \in Windows |-> [k \in Keys |-> DefaultText]]
    /\ shows = [p \in PreferencePages |-> ClosedPage]
    /\ settingsDraft = stored
    /\ storageEvents = [w \in Windows |-> 0]

-------------------------------------------------------------------------------
(* subscribePreferences: a storage event names no key and concerns all.    *)
NamedOnly(p, keys) == p.key \in keys      \* mutant: an event without keys concerns no page
Concerns(p, keys) == keys = {} \/ p.key \in keys

(* The listeners of window w, in pages as they are given.                  *)
Notified(pages0, values, w, keys) ==
    [p \in PreferencePages |->
        IF p.window = w /\ pages0[p].open /\ Concerns(p, keys)
        THEN [pages0[p] EXCEPT !.text = values[w][p.key],
                               !.rendered = IF WritesBack(p) THEN @ ELSE values[w][p.key]]
        ELSE pages0[p]]

(* The setters, in window w: each returns early if nothing changes.        *)
SetPreferences(pages0, w, values) ==
    LET changed == {k \in DOMAIN values : values[k] # stored[w][k]}
        keeps(v) == IF v = w THEN changed ELSE changed \intersect Local IN
    /\ stored' = [v \in Windows |-> [k \in Keys |-> IF k \in keeps(v) THEN values[k] ELSE stored[v][k]]]
    /\ shows' = IF changed = {} THEN pages0 ELSE Notified(pages0, stored', w, changed)
    /\ storageEvents' = [v \in Windows |->
          storageEvents[v] + IF v # w /\ changed \intersect Local # {} THEN 1 ELSE 0]
    /\ UNCHANGED settingsDraft

StorageEvent(w) ==
    /\ storageEvents[w] > 0 /\ storageEvents' = [storageEvents EXCEPT ![w] = @ - 1]
    /\ shows' = Notified(shows, stored, w, {})
    /\ UNCHANGED <<stored, settingsDraft>>

-------------------------------------------------------------------------------
(* The pages.                                                              *)

(* Mounted with what is stored; the effect of the first render writes it.  *)
OpenPreferencePage(p) ==
    /\ ~shows[p].open
    /\ LET text == stored[p.window][p.key] IN
          shows' = [shows EXCEPT ![p] = [open |-> TRUE, text |-> text, rendered |-> text, effect |-> WritesBack(p)]]
    /\ UNCHANGED <<stored, settingsDraft, storageEvents>>

(* Effects that are due run before the page goes.                          *)
ClosePreferencePage(p) ==
    /\ shows[p].open /\ ~shows[p].effect
    /\ shows' = [shows EXCEPT ![p] = ClosedPage]
    /\ UNCHANGED <<stored, settingsDraft, storageEvents>>

(* An input changes from what the page has rendered to something else.     *)
TypeInto(p, text) ==
    /\ shows[p].open /\ text # shows[p].rendered
    /\ IF WritesBack(p)
       THEN /\ shows' = [shows EXCEPT ![p].text = text]
            /\ UNCHANGED <<stored, settingsDraft, storageEvents>>
       ELSE SetPreferences([shows EXCEPT ![p].text = text, ![p].rendered = text], p.window, [k \in {p.key} |-> text])

RenderPage(p) ==
    /\ shows[p].open /\ ~shows[p].effect /\ shows[p].text # shows[p].rendered
    /\ shows' = [shows EXCEPT ![p].rendered = shows[p].text, ![p].effect = TRUE]
    /\ UNCHANGED <<stored, settingsDraft, storageEvents>>

(* The effect writes the value of the render it belongs to.                *)
WriteBack(p) ==
    /\ shows[p].effect
    /\ SetPreferences([shows EXCEPT ![p].effect = FALSE], p.window, [k \in {p.key} |-> shows[p].rendered])

-------------------------------------------------------------------------------
(* SettingsDialog: it takes the values when it is opened, and saves all.   *)

OpenSettingsDialog(w) ==
    /\ settingsDraft' = [settingsDraft EXCEPT ![w] = stored[w]]
    /\ UNCHANGED <<stored, shows, storageEvents>>

TypeSetting(w, k, text) ==
    /\ settingsDraft' = [settingsDraft EXCEPT ![w][k] = text]
    /\ UNCHANGED <<stored, shows, storageEvents>>

SaveSettings(w) == SetPreferences(shows, w, settingsDraft[w])

PreferencesUser ==
    \/ \E p \in PreferencePages :
          OpenPreferencePage(p) \/ ClosePreferencePage(p) \/ \E text \in Texts : TypeInto(p, text)
    \/ \E w \in Windows :
          OpenSettingsDialog(w) \/ SaveSettings(w) \/ \E k \in Keys, text \in Texts : TypeSetting(w, k, text)
PreferencesAsync ==
    (\E p \in PreferencePages : RenderPage(p) \/ WriteBack(p)) \/ \E w \in Windows : StorageEvent(w)

-------------------------------------------------------------------------------
(* However typing, effects, saves and the storage events of two windows    *)
(* overlap, once nothing is due every open page shows the stored value,    *)
(* and the windows agree on the local ones.                                *)
PagesAgree ==
    LET quiet == /\ \A w \in Windows : storageEvents[w] = 0
                 /\ \A p \in PreferencePages : ~shows[p].effect /\ shows[p].text = shows[p].rendered IN
    /\ quiet => \A p \in PreferencePages : shows[p].open => shows[p].text = stored[p.window][p.key]
    /\ \A v, w \in Windows, k \in Local : stored[v][k] = stored[w][k]
===============================================================================
