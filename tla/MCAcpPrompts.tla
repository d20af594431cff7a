---------------------------- MODULE MCAcpPrompts ----------------------------
(* A small instance of AcpPrompts: two prompts that may overlap in one     *)
(* session, and a session without prompts, whose cancels find no handle.   *)
EXTENDS AcpPrompts

CONSTANTS s1, s2

AllInOne == [p \in Prompts |-> s1]

=============================================================================
