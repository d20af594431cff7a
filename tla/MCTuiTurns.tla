----------------------------- MODULE MCTuiTurns -----------------------------
(* Two turns of the terminal, one of another gateway, a tool that asks and  *)
(* one that does not.                                                       *)
EXTENDS TuiTurns

CONSTANTS remote, edit, read

\* The first turn comes to two items, the others to one.
MCItems == [t \in All |-> IF t = 1 THEN 2 ELSE 1]

=============================================================================
