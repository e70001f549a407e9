--------------------------- MODULE MC_PopupManager ---------------------------
(* The popup manager with one custom OK label, display times 0 (no fade-out) *)
(* and 3 seconds, and four calls: enough for a custom label followed by a   *)
(* default dialog, for two stacked dialogs and an ESC, and for a message    *)
(* that outlives later popups.                                               *)
EXTENDS PopupManager

CONSTANTS l1, null

MCLabels == {l1}
MCTimes == {0, 3}
=============================================================================
