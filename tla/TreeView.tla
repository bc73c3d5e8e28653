------------------------------- MODULE TreeView -------------------------------
(***************************************************************************)
(* What a view of a store promises.  The store counts its changes; the     *)
(* view shows the store as it was after some of them, never a state the    *)
(* store has not been in, and an ordered view never goes back to an older  *)
(* state.                                                                  *)
(***************************************************************************)
EXTENDS Naturals

VARIABLES
    stored,    \* the changes made to the store so far
    shown,     \* how many of them what is shown reflects
    ordered    \* whether the view may not go back

Init == stored \in Nat /\ shown \in 0 .. stored /\ ordered \in BOOLEAN

Change == stored' = stored + 1 /\ UNCHANGED <<shown, ordered>>

Show ==
    /\ shown' \in 0 .. stored
    /\ ordered => shown' >= shown
    /\ UNCHANGED <<stored, ordered>>

Next == Change \/ Show

Spec == Init /\ [][Next]_<<stored, shown, ordered>>
===============================================================================
