---------------------------- MODULE MCPacEngine -----------------------------
(***************************************************************************)
(* An instance of PacEngine for TLC: two workers that may die, and more    *)
(* calls than one worker's channel and evaluation hold together.           *)
(***************************************************************************)
EXTENDS PacEngine

CONSTANTS c1, c2, c3

MCCallers == {c1, c2, c3}
MCKind(a, b, c) == [x \in MCCallers |-> CASE x = c1 -> a [] x = c2 -> b [] OTHER -> c]
MCKinds == {MCKind("value", "throw", "loop"), MCKind("value", "value", "loop")}
=============================================================================
