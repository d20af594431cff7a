-------------------------- MODULE ScheduleRegistry --------------------------
(***************************************************************************)
(* The scheduled-job registry of lvz-schedule (src/lib.rs): per-job timers, *)
(* the wait_due/fire loop that one gateway task drives, and the manual run *)
(* requests that other tasks queue through the schedule_run tool.          *)
(*                                                                         *)
(* A fire is not atomic: the loop takes the job's pending record (or finds *)
(* none), awaits a tool, possibly awaits the summary turn, and only then   *)
(* folds the outcome back in.  Time passes and requests arrive in between. *)
(* The work a tool accepts runs outside the program; a poll only sees      *)
(* whether it has ended, and may answer with a fresh handle for it.  A      *)
(* handle stands here for the pair of a handle and the tool to poll it with.*)
(***************************************************************************)
EXTENDS Integers, Sequences, FiniteSets

CONSTANTS
  NumJobs,          \* jobs are addressed by registration index, 1..NumJobs here
  PromptJobs,       \* the jobs whose Action is a prompt turn: they never accept work
  RetryMax,         \* per job: retries after a failed fire
  RetryWait,        \* per job: seconds between retries
  NextAfter,        \* NextAfter[j][t]: CronSchedule::next_after, the slot after t or None
  Budgets,          \* polling budgets: a tool's estimate, or pending_timeout
  PollInterval,     \* POLL_INTERVAL
  MinPendingBudget, \* MIN_PENDING_BUDGET
  IdleSleep,        \* the sleep when nothing is scheduled (3600 s)
  HistoryCap,       \* HISTORY_CAP
  MaxU64,           \* largest u64
  None,             \* Option::None
  Horizon,          \* bound on the modelled clock
  MaxRequests,      \* bound on the manual requests of one behaviour
  MaxCall           \* bound on the seconds one fire lasts

Jobs == 1..NumJobs
Time == 0..Horizon

\* What is known of a handle: its work runs, was given a fresh handle, ended by
\* itself, or ended after the deadline.
WorkState == {"running", "renewed", "ended", "overran"}

PendingWork == [handle: Nat, poll_at: Nat, deadline: Nat, polls: Nat]

ASSUME NoneAssumption == None \notin Nat /\ None \notin PendingWork
ASSUME JobsAssumption ==
  /\ NumJobs \in Nat
  /\ PromptJobs \subseteq Jobs
  /\ RetryMax \in [Jobs -> Nat]
  /\ RetryWait \in [Jobs -> Nat]
  /\ NextAfter \in [Jobs -> [Time -> Nat \cup {None}]]
ASSUME BoundsAssumption ==
  /\ Budgets \subseteq Nat
  /\ {PollInterval, MinPendingBudget, IdleSleep, HistoryCap, MaxU64} \subseteq Nat
  /\ {Horizon, MaxRequests, MaxCall} \subseteq Nat

VARIABLES
  now,        \* the wall clock, unix seconds
  next_due,   \* per job: JobState.next_due
  retry_at,   \* per job: JobState.retry_at
  pending,    \* per job: JobState.pending
  attempt,    \* per job: JobState.attempt
  last_fired, \* per job: JobState.last_fired
  history,    \* per job: JobState.history, the outcomes kept, newest last
  requested,  \* the queue of manual run requests
  notifying,  \* schedule_run calls between their push and their notify_one
  asked,      \* manual requests made so far (bounded by MaxRequests)
  permit,     \* the Notify's stored wakeup
  pc,         \* where the driving loop is: "drain", "scan", "sleep" or "fire"
  wake_at,    \* when a sleeping wait_due wakes by itself
  batch,      \* indices wait_due returned that are still to be fired
  fire,       \* the fire in flight
  work,       \* per job: the accepted work, one entry per handle
  room        \* per job: the last line its room was sent

timers == <<next_due, retry_at, pending, attempt, last_fired, history>>
queue  == <<requested, notifying, asked>>
loop   == <<permit, pc, wake_at, batch>>
vars   == <<now, timers, queue, loop, fire, work, room>>

NoFire  == [job |-> None, prior |-> None, answer |-> "none", budget |-> 0,
            handle |-> 0, since |-> 0]

SmallerOf(a, b) == IF a < b THEN a ELSE b
LargerOf(a, b)  == IF a < b THEN b ELSE a

Init ==
  /\ now = 0
  /\ next_due = [j \in Jobs |-> NextAfter[j][0]]
  /\ retry_at = [j \in Jobs |-> None]
  /\ pending = [j \in Jobs |-> None]
  /\ attempt = [j \in Jobs |-> 0]
  /\ last_fired = [j \in Jobs |-> None]
  /\ history = [j \in Jobs |-> <<>>]
  /\ requested = <<>>
  /\ notifying = 0
  /\ asked = 0
  /\ permit = FALSE
  /\ pc = "drain"
  /\ wake_at = 0
  /\ batch = <<>>
  /\ fire = NoFire
  /\ work = [j \in Jobs |-> <<>>]
  /\ room = [j \in Jobs |-> "none"]

-----------------------------------------------------------------------------
(* The environment: the clock, and the work tools have accepted.           *)

Tick ==
  /\ now < Horizon
  /\ fire.job # None => now < fire.since + MaxCall
  /\ now' = now + 1
  /\ UNCHANGED <<timers, queue, loop, fire, work, room>>

\* The accepted work of job j the scheduler still owes a verdict for: armed,
\* or taken off the job by the poll in flight.
Tracked(j) == IF fire.job = j /\ fire.prior # None THEN fire.prior ELSE pending[j]

\* Work h of job j ends by itself, before the deadline it was given or not.  The
\* handle a tool gave out last is the one tracked.
WorkEnds(j, h) ==
  /\ work[j][h] = "running"
  /\ LET p == Tracked(j)
         overran == p # None /\ h = Len(work[j]) /\ now >= p.deadline
     IN work' = [work EXCEPT ![j][h] = IF overran THEN "overran" ELSE "ended"]
  /\ UNCHANGED <<now, timers, queue, loop, fire, room>>

-----------------------------------------------------------------------------
(* Manual requests, from any task that holds the shared tool registry.     *)

PushRequest(j) ==
  /\ asked < MaxRequests
  /\ asked' = asked + 1
  /\ requested' = Append(requested, j)
  /\ notifying' = notifying + 1
  /\ UNCHANGED <<now, timers, loop, fire, work, room>>

\* Mutant: a wakeup reaches only a loop that is already parked.
NotifyParkedOnly ==
  /\ notifying > 0
  /\ notifying' = notifying - 1
  /\ permit' = (permit \/ pc = "sleep")
  /\ UNCHANGED <<now, timers, requested, asked, pc, wake_at, batch, fire, work, room>>

\* notify_one stores one permit when no wait_due is parked on it.
NotifyOne ==
  /\ notifying > 0
  /\ notifying' = notifying - 1
  /\ permit' = TRUE
  /\ UNCHANGED <<now, timers, requested, asked, pc, wake_at, batch, fire, work, room>>

-----------------------------------------------------------------------------
(* The wait loop.                                                          *)

\* The precedence of the three timers: a poll, then a retry, then the slot.
DueAt(j) ==
  IF pending[j] # None THEN pending[j].poll_at
  ELSE IF retry_at[j] # None THEN retry_at[j]
  ELSE next_due[j]

Armed == {j \in Jobs : DueAt(j) # None}
Due   == {j \in Armed : DueAt(j) <= now}

\* The indices of Due in registration order.
InOrder(S) ==
  {s \in [1..Cardinality(S) -> S] : \A i, k \in 1..Cardinality(S) : i < k => s[i] < s[k]}

\* max(1, soonest - now) seconds ahead, or the idle sleep.
SleepUntil ==
  IF Armed = {} THEN {now + IdleSleep}
  ELSE {DueAt(j) : j \in {i \in Armed : \A k \in Armed : DueAt(i) <= DueAt(k)}}

\* wait_due looks at the manual requests first and returns only those.
DrainRequests ==
  /\ pc = "drain"
  /\ pc' = IF requested = <<>> THEN "scan" ELSE "fire"
  /\ batch' = requested
  /\ requested' = <<>>
  /\ UNCHANGED <<now, timers, notifying, asked, permit, wake_at, fire, work, room>>

ScanDue ==
  /\ pc = "scan"
  /\ IF Due # {}
     THEN /\ pc' = "fire"
          /\ batch' \in InOrder(Due)
          /\ UNCHANGED wake_at
     ELSE /\ pc' = "sleep"
          /\ wake_at' \in SleepUntil
          /\ UNCHANGED batch
  /\ UNCHANGED <<now, timers, queue, permit, fire, work, room>>

WakeByTimer ==
  /\ pc = "sleep"
  /\ wake_at <= now
  /\ pc' = "drain"
  /\ wake_at' = 0
  /\ UNCHANGED <<now, timers, queue, permit, batch, fire, work, room>>

WakeByNotify ==
  /\ pc = "sleep"
  /\ permit
  /\ permit' = FALSE
  /\ pc' = "drain"
  /\ wake_at' = 0
  /\ UNCHANGED <<now, timers, queue, batch, fire, work, room>>

\* The gateway's select! takes a finished /sync instead and drops the wait;
\* the next iteration calls wait_due afresh.
CancelWait ==
  /\ pc = "sleep"
  /\ pc' = "drain"
  /\ wake_at' = 0
  /\ UNCHANGED <<now, timers, queue, permit, batch, fire, work, room>>

-----------------------------------------------------------------------------
(* One fire: begin, the tool's answer, fold it in.                         *)

\* Mutant: polls ignore the deadline.
NeverOverdue(p) == FALSE

Overdue(p) == p # None /\ now >= p.deadline

\* Mutant: the record in flight is dropped and the action dispatched again.
DispatchRegardless ==
  /\ pc = "fire"
  /\ fire.job = None
  /\ batch # <<>>
  /\ fire' = [job |-> Head(batch), prior |-> None, answer |-> "awaiting",
              budget |-> 0, handle |-> 0, since |-> now]
  /\ pending' = [pending EXCEPT ![Head(batch)] = None]
  /\ batch' = Tail(batch)
  /\ UNCHANGED <<now, next_due, retry_at, attempt, last_fired, history, queue,
                 permit, pc, wake_at, work, room>>

\* take_pending, then either dispatch the action or poll the work in flight.
\* A poll past the deadline is a timeout and calls no tool.
BeginFire ==
  /\ pc = "fire"
  /\ fire.job = None
  /\ batch # <<>>
  /\ LET j == Head(batch)
         p == pending[j]
     IN /\ fire' = [job |-> j,
                    prior |-> p,
                    answer |-> IF Overdue(p) THEN "timeout" ELSE "awaiting",
                    budget |-> 0,
                    handle |-> 0,
                    since |-> now]
        /\ pending' = [pending EXCEPT ![j] = None]
  /\ batch' = Tail(batch)
  /\ UNCHANGED <<now, next_due, retry_at, attempt, last_fired, history, queue,
                 permit, pc, wake_at, work, room>>

\* Every index of the batch was fired: back to waiting.
BatchDone ==
  /\ pc = "fire"
  /\ fire.job = None
  /\ batch = <<>>
  /\ pc' = "drain"
  /\ UNCHANGED <<now, timers, queue, permit, wake_at, batch, fire, work, room>>

\* run_action: a direct tool call or a prompt turn, to its immediate outcome.
ActionAnswers ==
  /\ fire.answer = "awaiting"
  /\ fire.prior = None
  /\ \/ /\ fire' \in {[fire EXCEPT !.answer = a] : a \in {"ok", "err"}}
        /\ UNCHANGED work
     \/ /\ fire.job \notin PromptJobs
        /\ fire' \in {[fire EXCEPT !.answer = "accepted", !.budget = b,
                                   !.handle = Len(work[fire.job]) + 1] : b \in Budgets}
        /\ work' = [work EXCEPT ![fire.job] = Append(@, "running")]
  /\ UNCHANGED <<now, timers, queue, loop, room>>

\* The work of a job after its running handle h was exchanged for a fresh one.
Renewed(s, h) == Append([s EXCEPT ![h] = "renewed"], "running")

\* poll_pending: the poll tool may itself break; otherwise it tells whether
\* the work has ended, and of running work a handle to ask with the next time,
\* the same one or a fresh one.
PollAnswers ==
  /\ fire.answer = "awaiting"
  /\ fire.prior # None
  /\ LET j == fire.job
         h == fire.prior.handle
         running == work[j][h] = "running"
     IN \/ /\ fire' \in {[fire EXCEPT !.answer = a] :
                          a \in {"err"} \cup (IF running THEN {} ELSE {"ok"})}
           /\ UNCHANGED work
        \/ /\ running
           /\ fire' = [fire EXCEPT !.answer = "accepted", !.handle = h]
           /\ UNCHANGED work
        \/ /\ running
           /\ fire' = [fire EXCEPT !.answer = "accepted", !.handle = Len(work[j]) + 1]
           /\ work' = [work EXCEPT ![j] = Renewed(@, h)]
  /\ UNCHANGED <<now, timers, queue, loop, room>>

\* The deadline of work accepted now, in wrapping u64 arithmetic.
DeadlineFor(b) ==
  (now + LargerOf(SmallerOf(2 * b, MaxU64), MinPendingBudget)) % (MaxU64 + 1)

\* Mutant: restore_pending is forgotten, so every poll starts a new deadline.
ArmedAfresh(j, p) ==
  [handle |-> fire.handle, poll_at |-> now + PollInterval,
   deadline |-> DeadlineFor(fire.budget), polls |-> 0]

\* Mutant: a still-running poll is not armed again.
ArmedOnce(j, p) ==
  IF p = None
  THEN [handle |-> fire.handle, poll_at |-> now + PollInterval,
        deadline |-> DeadlineFor(fire.budget), polls |-> 0]
  ELSE None

\* Mutant: the record is put back whole, with the handle it had.
ArmedAsBefore(j, p) ==
  IF p = None
  THEN [handle |-> fire.handle, poll_at |-> now + PollInterval,
        deadline |-> DeadlineFor(fire.budget), polls |-> 0]
  ELSE [p EXCEPT !.poll_at = now + PollInterval, !.polls = @ + 1]

\* The record armed after an acceptance or a still-running poll of job j: the
\* handle is the one just answered, the first deadline is kept
\* (restore_pending), and each poll is counted.
ArmedWork(j, p) ==
  [handle |-> fire.handle,
   poll_at |-> now + PollInterval,
   deadline |-> IF p = None THEN DeadlineFor(fire.budget) ELSE p.deadline,
   polls |-> IF p = None THEN 0 ELSE p.polls + 1]

\* arm_pending: poll later, and suppress the other two timers meanwhile.  Only
\* a first acceptance is announced to the room.
Rearm ==
  /\ fire.answer = "accepted"
  /\ LET j == fire.job
     IN /\ pending' = [pending EXCEPT ![j] = ArmedWork(j, fire.prior)]
        /\ retry_at' = [retry_at EXCEPT ![j] = None]
        /\ next_due' = [next_due EXCEPT ![j] = None]
        /\ room' = [room EXCEPT ![j] = IF fire.prior = None THEN "waiting" ELSE @]
  /\ fire' = NoFire
  /\ UNCHANGED <<now, attempt, last_fired, history, queue, loop, work>>

\* The bounded history after one more outcome.
Remember(h, o) ==
  LET grown == Append(h, o)
  IN IF Len(grown) > HistoryCap THEN Tail(grown) ELSE grown

\* Mutant: one retry too few.
RetriesOneLess(j, n) == fire.answer # "ok" /\ n < RetryMax[j]

\* A failed attempt n of job j is retried while the chain has retries left.
Retries(j, n) == fire.answer # "ok" /\ n <= RetryMax[j]

\* Mutant: giving up leaves the job without a slot.
SlotAfterSuccess(j, n) == IF fire.answer = "ok" THEN NextAfter[j][now] ELSE None

\* The cron slot after an attempt: none during a retry chain, else taken from now.
SlotAfter(j, n) == IF Retries(j, n) THEN None ELSE NextAfter[j][now]

\* record: fold a terminal outcome in and arm the follow-up.
Record ==
  /\ fire.answer \in {"ok", "err", "timeout"}
  /\ LET j == fire.job
         n == attempt[j] + 1
     IN /\ attempt' = [attempt EXCEPT ![j] = IF Retries(j, n) THEN n ELSE 0]
        /\ retry_at' = [retry_at EXCEPT ![j] =
                          IF Retries(j, n) THEN now + RetryWait[j] ELSE None]
        /\ next_due' = [next_due EXCEPT ![j] = SlotAfter(j, n)]
        /\ last_fired' = [last_fired EXCEPT ![j] = now]
        /\ history' = [history EXCEPT ![j] =
                         Remember(@, [attempt |-> n, ok |-> fire.answer = "ok"])]
        /\ room' = [room EXCEPT ![j] = "verdict"]
  /\ fire' = NoFire
  /\ UNCHANGED <<now, pending, queue, loop, work>>

-----------------------------------------------------------------------------
Next ==
  \/ Tick
  \/ \E j \in Jobs : \E h \in DOMAIN work[j] : WorkEnds(j, h)
  \/ \E j \in Jobs : PushRequest(j)
  \/ NotifyOne
  \/ DrainRequests
  \/ ScanDue
  \/ WakeByTimer
  \/ WakeByNotify
  \/ CancelWait
  \/ BeginFire
  \/ BatchDone
  \/ ActionAnswers
  \/ PollAnswers
  \/ Rearm
  \/ Record

Spec == Init /\ [][Next]_vars

(***************************************************************************)
(* Fairness: the clock advances, the executor runs the loop and the        *)
(* requesting tasks, and a tool call eventually returns.  Accepted work is *)
(* not assumed to end, and the wait is never assumed to be cancelled.      *)
(***************************************************************************)
Fairness ==
  /\ WF_vars(Tick)
  /\ WF_vars(NotifyOne)
  /\ WF_vars(DrainRequests)
  /\ WF_vars(ScanDue)
  /\ WF_vars(WakeByTimer \/ WakeByNotify)
  /\ WF_vars(BeginFire \/ BatchDone)
  /\ WF_vars(ActionAnswers \/ PollAnswers)
  /\ WF_vars(Rearm \/ Record)

FairSpec == Spec /\ Fairness

-----------------------------------------------------------------------------
(* Properties.                                                             *)

Outcome == [attempt: Nat, ok: BOOLEAN]
Answers == {"none", "awaiting", "ok", "err", "timeout", "accepted"}

\* Type correctness of the registry, of the loop driving it and of the fire
\* in flight.
TypeOK ==
  /\ now \in Time
  /\ next_due \in [Jobs -> Nat \cup {None}]
  /\ retry_at \in [Jobs -> Nat \cup {None}]
  /\ pending \in [Jobs -> PendingWork \cup {None}]
  /\ attempt \in [Jobs -> Nat]
  /\ last_fired \in [Jobs -> Time \cup {None}]
  /\ history \in [Jobs -> Seq(Outcome)]
  /\ requested \in Seq(Jobs)
  /\ notifying \in Nat
  /\ asked \in Nat
  /\ permit \in BOOLEAN
  /\ pc \in {"drain", "scan", "sleep", "fire"}
  /\ wake_at \in Nat
  /\ batch \in Seq(Jobs)
  /\ fire \in [job: Jobs \cup {None}, prior: PendingWork \cup {None},
               answer: Answers, budget: Nat, handle: Nat, since: Time]
  /\ work \in [Jobs -> Seq(WorkState)]
  /\ room \in [Jobs -> {"none", "waiting", "verdict"}]

\* The slot a chain that last ended (or the registry's start) would re-arm.
SlotsLeft(j) == NextAfter[j][IF last_fired[j] = None THEN 0 ELSE last_fired[j]] # None

\* A job never has two timers: accepted work suppresses the retry and the
\* slot, a retry chain suppresses the slot, so no tick can start a second
\* copy of what is unresolved (due_at, arm_pending, record).
OneTimer ==
  \A j \in Jobs :
    /\ Tracked(j) # None => retry_at[j] = None /\ next_due[j] = None
    /\ retry_at[j] # None => next_due[j] = None
    /\ attempt[j] > 0 => next_due[j] = None

\* A job is never stranded: outside its own fire it has a timer, unless its
\* schedule has no slot left.  take_pending clears the record before an
\* await, so this is what every path out of a fire must restore.
NeverStranded ==
  \A j \in Jobs : fire.job # j /\ SlotsLeft(j) => DueAt(j) # None

\* The room's last line is "started, waiting" exactly while the scheduler
\* still polls that work: no waiting line is left without a poll, and no poll
\* runs for work already reported on (fire, FireReport::waiting).
WaitingLineIsPolled ==
  \A j \in Jobs : room[j] = "waiting" <=> Tracked(j) # None

\* Attempts of a job are recorded in chain order: a failure with retries left
\* is followed by the next attempt, anything else by a first attempt, and the
\* live counter continues the last recorded one; no chain outlives its budget.
ChainsInOrder ==
  \A j \in Jobs :
    LET h == history[j]
        Continues(o) == ~o.ok /\ o.attempt <= RetryMax[j]
    IN /\ \A i \in 1..Len(h) : h[i].attempt <= RetryMax[j] + 1
       /\ \A i \in 1..(Len(h) - 1) :
            h[i + 1].attempt = IF Continues(h[i]) THEN h[i].attempt + 1 ELSE 1
       /\ h # <<>> =>
            LET o == h[Len(h)]
            IN attempt[j] = IF Continues(o) THEN o.attempt ELSE 0

\* A queued manual run is never slept through: while the loop is parked with a
\* request in the queue, a wakeup is stored or about to be (request_run,
\* wait_due's cancel safety).
NoLostWakeup == pc = "sleep" /\ requested # <<>> => permit \/ notifying > 0

\* Polling accepted work never moves its deadline nor forgets its polls, under
\* whatever handle the polls answer, so a run that never completes is bounded
\* by its first acceptance (fire's restore_pending, arm_pending).
DeadlineFixed ==
  [][\A j \in Jobs : Tracked(j) # None /\ Tracked(j)' # None =>
        /\ Tracked(j)'.deadline = Tracked(j).deadline
        /\ Tracked(j)'.polls >= Tracked(j).polls]_vars

\* No poll asks with a handle its tool has exchanged for a fresh one: what a
\* still-running poll answered survives its arming, the wait and the next
\* fire's take_pending, although the record it was put back with has the old
\* handle (poll_pending's "re-arm from the fresh handle the poll returned").
NoStalePoll ==
  fire.answer = "awaiting" /\ fire.prior # None
    => work[fire.job][fire.prior.handle] # "renewed"

\* Accepted work is always settled with a verdict, even if it never ends: the
\* deadline turns the poll after it into a timeout.
VerdictArrives ==
  \A j \in Jobs :
    (Tracked(j) # None /\ Tracked(j).deadline + PollInterval + MaxCall <= Horizon)
      ~> (room[j] = "verdict")

\* A manual request is honoured by a fire of that job.
ManualRunHonoured ==
  \A j \in Jobs : (\E i \in 1..Len(requested) : requested[i] = j) ~> (fire.job = j)

\* Stated by the timeout verdict of poll_pending: the work "did not complete
\* before its deadline".
TimeoutIsTrue ==
  fire.answer = "timeout" => work[fire.job][fire.prior.handle] # "ended"

\* Stated above arm_pending: while work is in flight "the next tick must not
\* dispatch a second copy of it".
NoSecondCopy ==
  fire.job # None /\ fire.prior = None /\ fire.answer = "awaiting"
    => \A h \in DOMAIN work[fire.job] : work[fire.job][h] # "running"

\* The lifecycle phase of job j that the timers and the fire in flight encode.
Phase(j) ==
  IF fire.job = j THEN IF fire.prior = None THEN "dispatching" ELSE "polling"
  ELSE IF pending[j] # None THEN "waiting"
  ELSE IF retry_at[j] # None THEN "retrying"
  ELSE "idle"

Lifecycle == INSTANCE JobLifecycle WITH phase <- [j \in Jobs |-> Phase(j)],
                                        tries <- attempt

\* The registry implements the job lifecycle: dispatch, acceptance, polls,
\* retries and resolution happen only in the order it allows.
ImplementsLifecycle == Lifecycle!Spec

=============================================================================
