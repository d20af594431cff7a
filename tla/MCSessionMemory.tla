-------------------------- MODULE MCSessionMemory --------------------------
(* A small instance of SessionMemory: turns of one session, in any order.  *)
EXTENDS SessionMemory, TLC

AnyTurn == Permutations(Turns)

=============================================================================
