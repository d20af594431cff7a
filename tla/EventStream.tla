----------------------------- MODULE EventStream -----------------------------
(***************************************************************************)
(* What lvz_protocol::Event promises of the stream a provider returns for  *)
(* one model turn (src/crates/lvz-protocol/src/event.rs): a call begins    *)
(* once, its argument fragments follow in order and without repetition,    *)
(* and it ends once; a provider-run tool is announced once, before its     *)
(* result; Done comes once and nothing comes after it.  Where the provider *)
(* has said how its answer ended, every call that was begun has been ended *)
(* by then and Done says the same.                                         *)
(***************************************************************************)
EXTENDS Naturals, Sequences

CONSTANTS
  Calls,     \* ids of tool calls
  Tools,     \* ids of calls of provider-run tools
  Frags      \* the number of fragments a call's arguments are cut in

VARIABLES
  call,      \* per call: "unseen", "streaming" or "ended"
  args,      \* per call: the fragments put together so far
  tool,      \* per provider-run call: "unseen", "announced" or "answered"
  told,      \* how the provider said its answer ended, "none" before it did
  outcome    \* "open", then what Done said; "failed" after an error

vars == <<call, args, tool, told, outcome>>

Whole == [i \in 1 .. Frags |-> i]

Init ==
  /\ call = [c \in Calls |-> "unseen"]
  /\ args = [c \in Calls |-> <<>>]
  /\ tool = [s \in Tools |-> "unseen"]
  /\ told = "none"
  /\ outcome = "open"

Begin(c) ==
  /\ outcome = "open"
  /\ call[c] = "unseen"
  /\ call' = [call EXCEPT ![c] = "streaming"]
  /\ UNCHANGED <<args, tool, told, outcome>>

Extend(c, n) ==
  /\ outcome = "open"
  /\ call[c] = "streaming"
  /\ args' = [args EXCEPT ![c] = @ \o SubSeq(Whole, Len(@) + 1, n)]
  /\ UNCHANGED <<call, tool, told, outcome>>

End(c) ==
  /\ outcome = "open"
  /\ call[c] = "streaming"
  /\ call' = [call EXCEPT ![c] = "ended"]
  /\ UNCHANGED <<args, tool, told, outcome>>

Announce(s) ==
  /\ outcome = "open"
  /\ tool[s] = "unseen"
  /\ tool' = [tool EXCEPT ![s] = "announced"]
  /\ UNCHANGED <<call, args, told, outcome>>

Answer(s) ==
  /\ outcome = "open"
  /\ tool[s] = "announced"
  /\ tool' = [tool EXCEPT ![s] = "answered"]
  /\ UNCHANGED <<call, args, told, outcome>>

\* The provider says how its answer ended; the stream has yet to.
Tell ==
  /\ told = "none"
  /\ told' # "none"
  /\ UNCHANGED <<call, args, tool, outcome>>

Done ==
  /\ outcome = "open"
  /\ outcome' \notin {"open", "failed"}
  /\ told # "none" =>
        /\ outcome' = told
        /\ \A c \in Calls : call[c] # "streaming"
  /\ UNCHANGED <<call, args, tool, told>>

Fail ==
  /\ outcome' = "failed"
  /\ UNCHANGED <<call, args, tool, told>>

Next ==
  \/ \E c \in Calls : Begin(c) \/ End(c) \/ \E n \in 1 .. Frags : Extend(c, n)
  \/ \E s \in Tools : Announce(s) \/ Answer(s)
  \/ Tell \/ Done \/ Fail

Spec == Init /\ [][Next]_vars

=============================================================================
