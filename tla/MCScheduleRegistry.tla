------------------------- MODULE MCScheduleRegistry -------------------------
(* Small instances of ScheduleRegistry.                                    *)
EXTENDS ScheduleRegistry

\* Job 1 is a retried tool job, job 2 a prompt job without retries.
MCRetryMax  == [j \in Jobs |-> IF j = 1 THEN 1 ELSE 0]
MCRetryWait == [j \in Jobs |-> 1]

\* Slots at fixed instants; job 2 runs out of slots.
MCSlots == [j \in Jobs |-> IF j = 1 THEN {1, 3, 20} ELSE {4}]
MCNextAfter ==
  [j \in Jobs |-> [t \in Time |->
    LET later == {s \in MCSlots[j] : s > t}
    IN IF later = {} THEN None
       ELSE CHOOSE s \in later : \A r \in later : s <= r]]

=============================================================================
