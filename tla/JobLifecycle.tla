---------------------------- MODULE JobLifecycle ----------------------------
(***************************************************************************)
(* What lvz-schedule promises of one registry of jobs, without timers,     *)
(* queues or handles: a job is idle, being dispatched, waiting for work it *)
(* accepted, being polled for it, or between two attempts of a chain; one  *)
(* call is in flight at a time; accepted work is settled before the job is *)
(* dispatched again; and a chain has at most RetryMax retries.             *)
(***************************************************************************)
EXTENDS Naturals

CONSTANTS Jobs, RetryMax

VARIABLES phase, tries

InFlight == {j \in Jobs : phase[j] \in {"dispatching", "polling"}}

Init ==
  /\ phase = [j \in Jobs |-> "idle"]
  /\ tries = [j \in Jobs |-> 0]

Move(j, from, to) ==
  /\ phase[j] \in from
  /\ phase' = [phase EXCEPT ![j] = to]

Dispatch(j) ==
  /\ InFlight = {}
  /\ Move(j, {"idle", "retrying"}, "dispatching")
  /\ UNCHANGED tries

Accept(j) ==
  /\ Move(j, {"dispatching"}, "waiting")
  /\ UNCHANGED tries

Poll(j) ==
  /\ InFlight = {}
  /\ Move(j, {"waiting"}, "polling")
  /\ UNCHANGED tries

StillRunning(j) ==
  /\ Move(j, {"polling"}, "waiting")
  /\ UNCHANGED tries

\* The chain ends: with a success, or with a failure and no retry left.
Resolve(j) ==
  /\ Move(j, {"dispatching", "polling"}, "idle")
  /\ tries' = [tries EXCEPT ![j] = 0]

\* A failure with retries left: another attempt follows.
Fail(j) ==
  /\ tries[j] < RetryMax[j]
  /\ Move(j, {"dispatching", "polling"}, "retrying")
  /\ tries' = [tries EXCEPT ![j] = @ + 1]

Next ==
  \E j \in Jobs :
    \/ Dispatch(j)
    \/ Accept(j)
    \/ Poll(j)
    \/ StillRunning(j)
    \/ Resolve(j)
    \/ Fail(j)

Spec == Init /\ [][Next]_<<phase, tries>>

=============================================================================
