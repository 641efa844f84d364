--------------------------- MODULE MCEditorShell ---------------------------
(***************************************************************************)
(* Instances of EditorShell for TLC.  Each circumstance has behaviours of  *)
(* its own, since they disturb different properties; late events need a    *)
(* log window.  Two editors that overlap are enough to refute OneEditor.   *)
(***************************************************************************)
EXTENDS EditorShell

CONSTANTS e1, e2, e3, l1, l2
MCEditors == {e1, e2, e3}
MCTwo == {e1, e2}
MCLogs == {l1, l2}
MCOneLog == {l1}
MCModes == {{"overlap"}, {"accept"}, {"kill"}, {"logs"}, {"logs", "late"}}
MCOverlap == {{"overlap"}}
=============================================================================
