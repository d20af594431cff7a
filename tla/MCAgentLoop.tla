---------------------------- MODULE MCAgentLoop ----------------------------
(***************************************************************************)
(* Instances of AgentLoop for TLC.                                         *)
(***************************************************************************)
EXTENDS AgentLoop, TLC

CONSTANTS t1, t2

Base == [live_ops_ask |-> FALSE, plans |-> FALSE, require_edit |-> FALSE,
         verify_and_fix |-> FALSE, in_loop_verify |-> FALSE, budget |-> FALSE,
         no_progress_limit |-> 0]

\* A status question; a task that must edit and be verified; a task with a plan,
\* a budget and a no-progress limit.
MCConfigs ==
    {[Base EXCEPT !.live_ops_ask = TRUE],
     [Base EXCEPT !.require_edit = TRUE, !.verify_and_fix = TRUE, !.in_loop_verify = TRUE],
     [Base EXCEPT !.plans = TRUE, !.budget = TRUE, !.no_progress_limit = 1]}

NudgeConfigs == {[Base EXCEPT !.no_progress_limit = 2]}

ChainConfigs == {[Base EXCEPT !.live_ops_ask = TRUE], Base}

MCSeeds == {<<"user">>, <<"user", "asst", "user">>}
OneSeed == {<<"user">>}

AnyOrder == Permutations(Turns)
=============================================================================
