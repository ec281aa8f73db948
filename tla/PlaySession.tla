---------------------------- MODULE PlaySession ----------------------------
(***************************************************************************)
(* What the player promises to everything that watches it (window, menus,  *)
(* inspector, remote): one playback at a time, that is opened on a file,   *)
(* starts playing or paused, is paused and resumed, and is stopped before  *)
(* another is opened.  The states are those of coredef.h.                  *)
(***************************************************************************)
CONSTANTS Media, NoMedia

VARIABLES state, file

Init == state = "stopped" /\ file = NoMedia

Opened(m) == /\ state = "stopped"
             /\ state' = "opened" /\ file' = m

Started == /\ state = "opened"
           /\ state' \in {"playing", "paused"}
           /\ UNCHANGED file

Toggled == /\ state \in {"playing", "paused"}
           /\ state' \in {"playing", "paused"} \ {state}
           /\ UNCHANGED file

Stopped == /\ state # "stopped"
           /\ state' = "stopped" /\ file' = NoMedia

Next == (\E m \in Media : Opened(m)) \/ Started \/ Toggled \/ Stopped

Spec == Init /\ [][Next]_<<state, file>>
=============================================================================
