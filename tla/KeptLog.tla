------------------------------ MODULE KeptLog ------------------------------
(***************************************************************************)
(* What a rotating log promises its reader, whatever files it is kept in:  *)
(* lines are added at the new end, and when lines are given up they are    *)
(* the oldest.  Where writes or renames fail, lines may be missing.        *)
(* RotatingLog implements this module.                                     *)
(***************************************************************************)
EXTENDS Naturals

VARIABLES
  kept,   \* the numbers of the lines that can still be read
  last,   \* the number of the line that was logged last
  lossy   \* may lines be missing?

vars == <<kept, last, lossy>>

Init ==
  /\ kept = {}
  /\ last = 0
  /\ lossy \in BOOLEAN

\* A line is logged.
Add ==
  /\ last' = last + 1
  /\ kept' = kept \cup {last + 1}
  /\ UNCHANGED lossy

\* The oldest lines are given up, never all of them.
Forget ==
  /\ kept' \subseteq kept
  /\ kept' # {}
  /\ \A old \in kept \ kept', new \in kept' : old < new
  /\ UNCHANGED <<last, lossy>>

Lose ==
  /\ lossy
  /\ kept' \subseteq kept
  /\ last' \in {last, last + 1}
  /\ UNCHANGED lossy

Next == Add \/ Forget \/ Lose

Spec == Init /\ [][Next]_vars
=============================================================================
