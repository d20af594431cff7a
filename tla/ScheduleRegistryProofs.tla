----------------------- MODULE ScheduleRegistryProofs -----------------------
(***************************************************************************)
(* Theorems about ScheduleRegistry for every number of jobs, every retry   *)
(* policy, schedule and tool behaviour.                                    *)
(***************************************************************************)
EXTENDS ScheduleRegistry, TLAPS, FiniteSetTheorems, SequenceTheorems

USE DEF Jobs, Time

\* The batch a scan returns is a sequence of job indices.
LEMMA InOrderType ==
  ASSUME NEW S \in SUBSET Jobs, NEW s \in InOrder(S)
  PROVE  s \in Seq(Jobs)
<1>1. IsFiniteSet(Jobs)
  BY JobsAssumption, FS_Interval
<1>2. Cardinality(S) \in Nat
  BY <1>1, FS_Subset, FS_CardinalityType
<1>3. s \in [1..Cardinality(S) -> S]
  BY DEF InOrder
<1>4. s \in Seq(S)
  BY <1>2, <1>3, IsASeq
<1>. QED
  BY <1>4, SeqMonotonic

\* A deadline computed in u64 arithmetic is a natural number.
LEMMA DeadlineType ==
  ASSUME now \in Time, NEW b \in Nat
  PROVE  DeadlineFor(b) \in Nat
<1>1. LargerOf(SmallerOf(2 * b, MaxU64), MinPendingBudget) \in Nat
  BY BoundsAssumption DEF LargerOf, SmallerOf
<1>2. MaxU64 + 1 \in Nat \ {0}
  BY BoundsAssumption
<1>3. \A x \in Nat, y \in Nat \ {0} : x % y \in Nat
  OBVIOUS
<1>. QED
  BY <1>1, <1>2, <1>3, BoundsAssumption DEF DeadlineFor

\* A timer that is armed is a point in time.
LEMMA DueAtType ==
  ASSUME TypeOK, NEW j \in Jobs
  PROVE  DueAt(j) \in Nat \cup {None}
  BY DEF TypeOK, DueAt, PendingWork

LEMMA NowType ==
  ASSUME TypeOK
  PROVE  now \in Nat
<1>1. now \in Time /\ Horizon \in Nat
  BY BoundsAssumption DEF TypeOK
<1>. QED
  BY <1>1

LEMMA SleepUntilType ==
  ASSUME TypeOK, NEW t \in SleepUntil
  PROVE  t \in Nat
<1>1. CASE Armed = {}
  BY <1>1, BoundsAssumption DEF SleepUntil, TypeOK
<1>2. CASE Armed # {}
  <2>1. PICK j \in Armed : t = DueAt(j)
    BY <1>2 DEF SleepUntil
  <2>2. j \in Jobs /\ DueAt(j) # None
    BY DEF Armed
  <2>. QED
    BY <2>1, <2>2, DueAtType
<1>. QED
  BY <1>1, <1>2

\* The record an acceptance arms is a pending record.
LEMMA ArmedType ==
  ASSUME TypeOK, NEW j
  PROVE  ArmedWork(j, fire.prior) \in PendingWork
<1>1. fire.budget \in Nat /\ fire.handle \in Nat /\ fire.prior \in PendingWork \cup {None}
  BY DEF TypeOK
<1>2. DeadlineFor(fire.budget) \in Nat
  BY <1>1, DeadlineType DEF TypeOK
<1>3. now + PollInterval \in Nat
  BY NowType, BoundsAssumption
<1>4. fire.prior # None => fire.prior.deadline \in Nat /\ fire.prior.polls + 1 \in Nat
  BY <1>1 DEF PendingWork
<1>. QED
  BY <1>1, <1>2, <1>3, <1>4 DEF ArmedWork, PendingWork

\* Exchanging a handle adds a running one and keeps the rest.
LEMMA RenewedLemma ==
  ASSUME NEW s \in Seq(WorkState), NEW h
  PROVE  /\ Renewed(s, h) \in Seq(WorkState)
         /\ Len(Renewed(s, h)) = Len(s) + 1
         /\ Renewed(s, h)[Len(s) + 1] = "running"
<1>. DEFINE old == [s EXCEPT ![h] = "renewed"]
<1>1. s \in [1..Len(s) -> WorkState] /\ Len(s) \in Nat
  BY LenProperties
<1>2. old \in [1..Len(s) -> WorkState]
  BY <1>1 DEF WorkState
<1>3. old \in Seq(WorkState) /\ Len(old) = Len(s)
  BY <1>1, <1>2, IsASeq, LenProperties
<1>. HIDE DEF old
<1>4. Renewed(s, h) = Append(old, "running")
  BY DEF Renewed, old
<1>5. "running" \in WorkState
  BY DEF WorkState
<1>. QED
  BY <1>1, <1>3, <1>4, <1>5, AppendProperties

\* A poll's answer and its handle are all it changes of the fire in flight.
LEMMA PollShape ==
  ASSUME TypeOK, fire.job \in Jobs, PollAnswers
  PROVE  \E a \in {"ok", "err", "accepted"}, h \in Nat :
           fire' = [fire EXCEPT !.answer = a, !.handle = h]
<1>1. fire.prior \in PendingWork /\ fire.handle \in Nat
  BY DEF PollAnswers, TypeOK
<1>2. fire.prior.handle \in Nat
  BY <1>1 DEF PendingWork
<1>3. Len(work[fire.job]) + 1 \in Nat
  BY LenProperties DEF TypeOK
<1>4. CASE fire' \in {[fire EXCEPT !.answer = a] : a \in {"err", "ok"}}
  <2>1. PICK a \in {"err", "ok"} : fire' = [fire EXCEPT !.answer = a]
    BY <1>4
  <2>2. fire' = [fire EXCEPT !.answer = a, !.handle = fire.handle]
    BY <2>1 DEF TypeOK
  <2>. QED
    BY <1>1, <2>2
<1>5. CASE fire' = [fire EXCEPT !.answer = "accepted", !.handle = fire.prior.handle]
  BY <1>2, <1>5
<1>6. CASE fire' = [fire EXCEPT !.answer = "accepted", !.handle = Len(work[fire.job]) + 1]
  BY <1>3, <1>6
<1>. QED
  BY <1>4, <1>5, <1>6 DEF PollAnswers

-----------------------------------------------------------------------------
\* The shape of the fire in flight: an answer exactly when a job is being fired,
\* its record taken off the job meanwhile, and a timeout only of a poll.
FireOK ==
  /\ fire.answer = "none" <=> fire.job = None
  /\ fire.job = None => fire.prior = None
  /\ fire.job # None => pending[fire.job] = None
  /\ fire.answer = "timeout" => fire.prior # None

\* An answer leaves alone which job is fired and the record taken off it.
LEMMA AnswerShape ==
  ASSUME TypeOK, FireOK, ActionAnswers \/ PollAnswers
  PROVE  /\ fire'.job = fire.job /\ fire'.prior = fire.prior
         /\ fire'.answer \in {"ok", "err", "accepted"}
<1>1. fire.job \in Jobs
  BY DEF ActionAnswers, PollAnswers, FireOK, TypeOK
<1>2. CASE PollAnswers
  <2>1. PICK a \in {"ok", "err", "accepted"}, h \in Nat :
          fire' = [fire EXCEPT !.answer = a, !.handle = h]
    BY <1>1, <1>2, PollShape
  <2>. QED
    BY <2>1 DEF TypeOK
<1>3. CASE ActionAnswers
  <2>1. CASE fire' \in {[fire EXCEPT !.answer = a] : a \in {"ok", "err"}}
    BY <2>1 DEF TypeOK
  <2>2. CASE fire' \in {[fire EXCEPT !.answer = "accepted", !.budget = b,
                                    !.handle = Len(work[fire.job]) + 1] : b \in Budgets}
    BY <2>2 DEF TypeOK
  <2>. QED
    BY <1>3, <2>1, <2>2 DEF ActionAnswers
<1>. QED
  BY <1>2, <1>3

LEMMA InitTypeOK == Init => TypeOK
<1>. SUFFICES ASSUME Init PROVE TypeOK
  OBVIOUS
<1>1. 0 \in Time
  BY BoundsAssumption
<1>2. next_due \in [Jobs -> Nat \cup {None}]
  BY <1>1, JobsAssumption DEF Init
<1>3. fire \in [job: Jobs \cup {None}, prior: PendingWork \cup {None},
                answer: Answers, budget: Nat, handle: Nat, since: Time]
  BY <1>1 DEF Init, NoFire, Answers
<1>4. /\ requested \in Seq(Jobs)
      /\ batch \in Seq(Jobs)
      /\ work \in [Jobs -> Seq(WorkState)]
      /\ history \in [Jobs -> Seq(Outcome)]
  BY EmptySeq DEF Init
<1>. QED
  BY <1>1, <1>2, <1>3, <1>4 DEF Init, TypeOK

LEMMA NextTypeOK == TypeOK /\ FireOK /\ [Next]_vars => TypeOK'
<1>. SUFFICES ASSUME TypeOK, FireOK, [Next]_vars PROVE TypeOK'
  OBVIOUS
<1>. USE DEF TypeOK, timers, queue, loop
<1>1. CASE Tick
  <2>1. now' \in Time
    BY <1>1, BoundsAssumption DEF Tick
  <2>. QED
    BY <1>1, <2>1 DEF Tick
<1>2. ASSUME NEW j \in Jobs, NEW h \in DOMAIN work[j], WorkEnds(j, h)
      PROVE TypeOK'
  <2>1. work[j] \in Seq(WorkState)
    OBVIOUS
  <2>2. PICK e \in {"ended", "overran"} : work' = [work EXCEPT ![j][h] = e]
    BY <1>2 DEF WorkEnds
  <2>3. [work[j] EXCEPT ![h] = e] \in Seq(WorkState)
    BY <2>1, ExceptSeq DEF WorkState
  <2>4. work' = [work EXCEPT ![j] = [work[j] EXCEPT ![h] = e]]
    BY <2>2
  <2>. QED
    BY <1>2, <2>3, <2>4 DEF WorkEnds
<1>3. ASSUME NEW j \in Jobs, PushRequest(j) PROVE TypeOK'
  <2>1. requested' \in Seq(Jobs)
    BY <1>3, AppendProperties DEF PushRequest
  <2>. QED
    BY <1>3, <2>1 DEF PushRequest
<1>4. CASE NotifyOne
  BY <1>4 DEF NotifyOne
<1>5. CASE DrainRequests
  BY <1>5, EmptySeq DEF DrainRequests
<1>6. CASE ScanDue
  <2>1. batch' \in Seq(Jobs)
    <3>1. Due \in SUBSET Jobs
      BY DEF Due, Armed
    <3>. QED
      BY <1>6, <3>1, InOrderType DEF ScanDue
  <2>2. wake_at' \in Nat
    BY <1>6, SleepUntilType DEF ScanDue
  <2>. QED
    BY <1>6, <2>1, <2>2 DEF ScanDue
<1>7. CASE WakeByTimer
  BY <1>7 DEF WakeByTimer
<1>8. CASE WakeByNotify
  BY <1>8 DEF WakeByNotify
<1>9. CASE CancelWait
  BY <1>9 DEF CancelWait
<1>10. CASE BeginFire
  <2>1. Head(batch) \in Jobs /\ Tail(batch) \in Seq(Jobs)
    BY <1>10, HeadTailProperties DEF BeginFire
  <2>2. pending[Head(batch)] \in PendingWork \cup {None}
    BY <2>1
  <2>3. fire' \in [job: Jobs \cup {None}, prior: PendingWork \cup {None},
                   answer: Answers, budget: Nat, handle: Nat, since: Time]
    BY <1>10, <2>1, <2>2 DEF BeginFire, Answers
  <2>4. pending' \in [Jobs -> PendingWork \cup {None}]
    BY <1>10, <2>1 DEF BeginFire
  <2>. QED
    BY <1>10, <2>1, <2>3, <2>4 DEF BeginFire
<1>11. CASE BatchDone
  BY <1>11 DEF BatchDone
<1>12. CASE ActionAnswers
  <2>1. CASE fire' \in {[fire EXCEPT !.answer = a] : a \in {"ok", "err"}} /\ UNCHANGED work
    <3>1. PICK a \in {"ok", "err"} : fire' = [fire EXCEPT !.answer = a]
      BY <2>1
    <3>2. fire' \in [job: Jobs \cup {None}, prior: PendingWork \cup {None},
                     answer: Answers, budget: Nat, handle: Nat, since: Time]
      BY <3>1 DEF Answers
    <3>. QED
      BY <1>12, <2>1, <3>2 DEF ActionAnswers
  <2>2. CASE /\ fire' \in {[fire EXCEPT !.answer = "accepted", !.budget = b,
                                        !.handle = Len(work[fire.job]) + 1] : b \in Budgets}
             /\ work' = [work EXCEPT ![fire.job] = Append(@, "running")]
    <3>j. fire.job \in Jobs
      BY <1>12 DEF ActionAnswers, FireOK
    <3>1. Len(work[fire.job]) + 1 \in Nat
      BY <3>j, LenProperties
    <3>2. PICK b \in Budgets : fire' = [fire EXCEPT !.answer = "accepted", !.budget = b,
                                                   !.handle = Len(work[fire.job]) + 1]
      BY <2>2
    <3>3. fire' \in [job: Jobs \cup {None}, prior: PendingWork \cup {None},
                     answer: Answers, budget: Nat, handle: Nat, since: Time]
      BY <3>1, <3>2, BoundsAssumption DEF Answers
    <3>4. \A j \in Jobs : Append(work[j], "running") \in Seq(WorkState)
      BY AppendProperties DEF WorkState
    <3>5. work' \in [Jobs -> Seq(WorkState)]
      BY <2>2, <3>4
    <3>. QED
      BY <1>12, <3>3, <3>5 DEF ActionAnswers
  <2>. QED
    BY <1>12, <2>1, <2>2 DEF ActionAnswers
<1>13. CASE PollAnswers
  <2>j. fire.job \in Jobs
    BY <1>13 DEF PollAnswers, FireOK
  <2>1. PICK a \in {"ok", "err", "accepted"}, h \in Nat :
          fire' = [fire EXCEPT !.answer = a, !.handle = h]
    BY <1>13, <2>j, PollShape
  <2>2. fire' \in [job: Jobs \cup {None}, prior: PendingWork \cup {None},
                   answer: Answers, budget: Nat, handle: Nat, since: Time]
    BY <2>1 DEF Answers
  <2>3. work' \in [Jobs -> Seq(WorkState)]
    <3>1. CASE UNCHANGED work
      BY <3>1
    <3>2. CASE work' = [work EXCEPT ![fire.job] = Renewed(@, fire.prior.handle)]
      BY <2>j, <3>2, RenewedLemma
    <3>. QED
      BY <1>13, <3>1, <3>2 DEF PollAnswers
  <2>. QED
    BY <1>13, <2>2, <2>3 DEF PollAnswers
<1>14. CASE Rearm
  <2>1. fire' \in [job: Jobs \cup {None}, prior: PendingWork \cup {None},
                   answer: Answers, budget: Nat, handle: Nat, since: Time]
    BY <1>14, BoundsAssumption DEF Rearm, NoFire, Answers
  <2>j. fire.job \in Jobs
    BY <1>14 DEF Rearm, FireOK
  <2>2. ArmedWork(fire.job, fire.prior) \in PendingWork
    BY ArmedType
  <2>3. pending' \in [Jobs -> PendingWork \cup {None}]
    BY <1>14, <2>2, <2>j DEF Rearm
  <2>4. /\ retry_at' \in [Jobs -> Nat \cup {None}]
        /\ next_due' \in [Jobs -> Nat \cup {None}]
        /\ room' \in [Jobs -> {"none", "waiting", "verdict"}]
    BY <1>14 DEF Rearm
  <2>. QED
    BY <1>14, <2>1, <2>3, <2>4 DEF Rearm
<1>15. CASE Record
  <2>. DEFINE n == attempt[fire.job] + 1
              o == [attempt |-> n, ok |-> fire.answer = "ok"]
  <2>1. fire' \in [job: Jobs \cup {None}, prior: PendingWork \cup {None},
                   answer: Answers, budget: Nat, handle: Nat, since: Time]
    BY <1>15, BoundsAssumption DEF Record, NoFire, Answers
  <2>j. fire.job \in Jobs
    BY <1>15 DEF Record, FireOK
  <2>2. /\ attempt' \in [Jobs -> Nat]
        /\ last_fired' \in [Jobs -> Time \cup {None}]
        /\ room' \in [Jobs -> {"none", "waiting", "verdict"}]
    BY <1>15, <2>j DEF Record
  <2>3. retry_at' \in [Jobs -> Nat \cup {None}]
    <3>1. now + RetryWait[fire.job] \in Nat
      <4>1. RetryWait \in [Jobs -> Nat]
        BY JobsAssumption
      <4>2. RetryWait[fire.job] \in Nat
        BY <4>1, <2>j
      <4>3. now \in Nat
        BY NowType
      <4>. QED
        BY <4>2, <4>3
    <3>. QED
      BY <1>15, <2>j, <3>1 DEF Record
  <2>4. next_due' \in [Jobs -> Nat \cup {None}]
    <3>1. SlotAfter(fire.job, n) \in Nat \cup {None}
      <4>1. NextAfter[fire.job] \in [Time -> Nat \cup {None}]
        BY <2>j, JobsAssumption
      <4>2. NextAfter[fire.job][now] \in Nat \cup {None}
        BY <4>1
      <4>. QED
        BY <4>2 DEF SlotAfter
    <3>. QED
      BY <1>15, <2>j, <3>1 DEF Record
  <2>5. history' \in [Jobs -> Seq(Outcome)]
    <3>1. Remember(history[fire.job], o) \in Seq(Outcome)
      <4>1. o \in Outcome
        BY <2>j DEF Outcome
      <4>2. Append(history[fire.job], o) \in Seq(Outcome) /\ Append(history[fire.job], o) # <<>>
        BY <2>j, <4>1, AppendProperties
      <4>. QED
        BY <4>2, HeadTailProperties DEF Remember
    <3>. QED
      BY <1>15, <2>j, <3>1 DEF Record
  <2>. QED
    BY <1>15, <2>1, <2>2, <2>3, <2>4, <2>5 DEF Record
<1>16. CASE UNCHANGED vars
  BY <1>16 DEF vars
<1>. QED
  BY <1>1, <1>2, <1>3, <1>4, <1>5, <1>6, <1>7, <1>8, <1>9, <1>10, <1>11, <1>12,
     <1>13, <1>14, <1>15, <1>16 DEF Next

LEMMA NextFireOK == TypeOK /\ FireOK /\ [Next]_vars => FireOK'
<1>. SUFFICES ASSUME TypeOK, FireOK, [Next]_vars PROVE FireOK'
  OBVIOUS
<1>. USE DEF FireOK, timers, queue, loop
<1>1. ASSUME UNCHANGED <<fire, pending>> PROVE FireOK'
  BY <1>1
<1>2. CASE BeginFire
  <2>1. Head(batch) \in Jobs
    BY <1>2, HeadTailProperties DEF BeginFire, TypeOK
  <2>2. /\ fire'.job = Head(batch)
        /\ fire'.prior = pending[Head(batch)]
        /\ fire'.answer = IF Overdue(fire'.prior) THEN "timeout" ELSE "awaiting"
    BY <1>2 DEF BeginFire
  <2>3. pending'[Head(batch)] = None
    BY <1>2, <2>1 DEF BeginFire, TypeOK
  <2>. QED
    BY <2>1, <2>2, <2>3, NoneAssumption DEF Overdue
<1>3. CASE ActionAnswers \/ PollAnswers
  <2>1. fire.job # None /\ pending' = pending /\ (fire'.answer = "timeout" => fire.prior # None)
    BY <1>3, AnswerShape DEF ActionAnswers, PollAnswers
  <2>. QED
    BY <1>3, <2>1, AnswerShape
<1>5. CASE Rearm
  BY <1>5 DEF Rearm, NoFire
<1>6. CASE Record
  BY <1>6 DEF Record, NoFire
<1>. QED
  BY <1>1, <1>2, <1>3, <1>5, <1>6
     DEF Next, vars, Tick, WorkEnds, PushRequest, NotifyOne, DrainRequests, ScanDue,
         WakeByTimer, WakeByNotify, CancelWait, BatchDone

LEMMA InitFireOK == Init => FireOK
  BY DEF Init, FireOK, NoFire

\* Every reachable state of the registry is well typed.
THEOREM TypeCorrect == Spec => []TypeOK
<1>1. TypeOK /\ FireOK /\ [Next]_vars => (TypeOK /\ FireOK)'
  BY NextTypeOK, NextFireOK
<1>. QED
  BY <1>1, InitTypeOK, InitFireOK, PTL DEF Spec

-----------------------------------------------------------------------------
(* What one step does to one job: nothing, or the end of its fire.         *)

Untouched(j) ==
  /\ fire.job = j => fire'.job = j
  /\ Tracked(j)' = Tracked(j)
  /\ retry_at'[j] = retry_at[j] /\ next_due'[j] = next_due[j]
  /\ attempt'[j] = attempt[j] /\ last_fired'[j] = last_fired[j]
  /\ history'[j] = history[j] /\ room'[j] = room[j]

Rearmed(j) ==
  /\ fire.job = j /\ fire' = NoFire
  /\ pending'[j] = ArmedWork(j, fire.prior) /\ pending'[j] \in PendingWork
  /\ Tracked(j)' = pending'[j]
  /\ retry_at'[j] = None /\ next_due'[j] = None
  /\ attempt'[j] = attempt[j] /\ last_fired'[j] = last_fired[j]
  /\ history'[j] = history[j]
  /\ room'[j] = IF fire.prior = None THEN "waiting" ELSE room[j]

Recorded(j) ==
  LET n == attempt[j] + 1
  IN /\ fire.job = j /\ fire' = NoFire
     /\ pending'[j] = None /\ Tracked(j)' = None
     /\ attempt'[j] = IF Retries(j, n) THEN n ELSE 0
     /\ retry_at'[j] = IF Retries(j, n) THEN now + RetryWait[j] ELSE None
     /\ next_due'[j] = SlotAfter(j, n)
     /\ last_fired'[j] = now
     /\ history'[j] = Remember(history[j], [attempt |-> n, ok |-> fire.answer = "ok"])
     /\ room'[j] = "verdict"

LEMMA StepOfJob ==
  ASSUME TypeOK, FireOK, [Next]_vars, TypeOK', NEW j \in Jobs
  PROVE  Untouched(j) \/ Rearmed(j) \/ Recorded(j)
<1>. USE DEF timers, queue, loop
<1>1. ASSUME UNCHANGED <<timers, room>>, fire'.job = fire.job, fire'.prior = fire.prior
      PROVE  Untouched(j)
  BY <1>1 DEF Untouched, Tracked
<1>2. CASE BeginFire
  <2>1. Head(batch) \in Jobs /\ fire.job = None /\ fire.prior = None
    BY <1>2, HeadTailProperties DEF BeginFire, TypeOK, FireOK
  <2>2. fire'.job = Head(batch) /\ fire'.prior = pending[Head(batch)]
    BY <1>2 DEF BeginFire
  <2>3. pending' = [pending EXCEPT ![Head(batch)] = None]
    BY <1>2 DEF BeginFire
  <2>4. Tracked(j)' = Tracked(j)
    <3>1. CASE j = Head(batch)
      BY <3>1, <2>1, <2>2, <2>3, NoneAssumption DEF Tracked, TypeOK
    <3>2. CASE j # Head(batch)
      BY <3>2, <2>1, <2>2, <2>3, NoneAssumption DEF Tracked, TypeOK
    <3>. QED
      BY <3>1, <3>2
  <2>5. UNCHANGED <<retry_at, next_due, attempt, last_fired, history, room>>
    BY <1>2 DEF BeginFire
  <2>. QED
    BY <2>1, <2>4, <2>5, JobsAssumption, NoneAssumption DEF Untouched
<1>3. CASE ActionAnswers \/ PollAnswers
  BY <1>1, <1>3, AnswerShape DEF ActionAnswers, PollAnswers
<1>5. CASE Rearm
  <2>1. fire.job \in Jobs /\ fire.job # None /\ fire' = NoFire
    BY <1>5 DEF Rearm, FireOK, TypeOK
  <2>2. fire'.job = None /\ fire'.prior = None
    BY <2>1 DEF NoFire
  <2>3. CASE j = fire.job
    <3>1. pending'[j] = ArmedWork(j, fire.prior)
      BY <1>5, <2>3 DEF Rearm, TypeOK
    <3>2. pending'[j] \in PendingWork
      BY <3>1, ArmedType
    <3>3. Tracked(j)' = pending'[j]
      BY <2>2 DEF Tracked
    <3>4. /\ retry_at'[j] = None /\ next_due'[j] = None
          /\ attempt'[j] = attempt[j] /\ last_fired'[j] = last_fired[j]
          /\ history'[j] = history[j]
          /\ room'[j] = IF fire.prior = None THEN "waiting" ELSE room[j]
      BY <1>5, <2>3 DEF Rearm, TypeOK
    <3>. QED
      BY <2>1, <2>3, <3>1, <3>2, <3>3, <3>4 DEF Rearmed
  <2>4. CASE j # fire.job
    <3>1. /\ pending'[j] = pending[j]
          /\ retry_at'[j] = retry_at[j] /\ next_due'[j] = next_due[j]
          /\ attempt'[j] = attempt[j] /\ last_fired'[j] = last_fired[j]
          /\ history'[j] = history[j] /\ room'[j] = room[j]
      BY <1>5, <2>4 DEF Rearm, TypeOK
    <3>. QED
      BY <2>2, <2>4, <3>1 DEF Untouched, Tracked
  <2>. QED
    BY <2>3, <2>4
<1>6. CASE Record
  <2>1. fire.job \in Jobs /\ fire.job # None /\ fire' = NoFire
    BY <1>6 DEF Record, FireOK, TypeOK
  <2>2. fire'.job = None /\ fire'.prior = None
    BY <2>1 DEF NoFire
  <2>3. CASE j = fire.job
    <3>1. pending'[j] = None /\ Tracked(j)' = None
      BY <1>6, <2>1, <2>2, <2>3 DEF Record, FireOK, Tracked
    <3>2. /\ attempt'[j] = IF Retries(j, attempt[j] + 1) THEN attempt[j] + 1 ELSE 0
          /\ retry_at'[j] = IF Retries(j, attempt[j] + 1) THEN now + RetryWait[j] ELSE None
          /\ next_due'[j] = SlotAfter(j, attempt[j] + 1)
      BY <1>6, <2>3 DEF Record, TypeOK
    <3>3. /\ last_fired'[j] = now
          /\ history'[j] = Remember(history[j], [attempt |-> attempt[j] + 1,
                                                 ok |-> fire.answer = "ok"])
          /\ room'[j] = "verdict"
      BY <1>6, <2>3 DEF Record, TypeOK
    <3>. QED
      BY <2>1, <2>3, <3>1, <3>2, <3>3 DEF Recorded
  <2>4. CASE j # fire.job
    <3>1. /\ pending'[j] = pending[j]
          /\ retry_at'[j] = retry_at[j] /\ next_due'[j] = next_due[j]
          /\ attempt'[j] = attempt[j] /\ last_fired'[j] = last_fired[j]
          /\ history'[j] = history[j] /\ room'[j] = room[j]
      BY <1>6, <2>4 DEF Record, TypeOK
    <3>. QED
      BY <2>2, <2>4, <3>1 DEF Untouched, Tracked
  <2>. QED
    BY <2>3, <2>4
<1>7. ASSUME UNCHANGED <<timers, room, fire>> PROVE Untouched(j)
  BY <1>1, <1>7
<1>. QED
  BY <1>2, <1>3, <1>5, <1>6, <1>7
     DEF Next, vars, Tick, WorkEnds, PushRequest, NotifyOne, DrainRequests, ScanDue,
         WakeByTimer, WakeByNotify, CancelWait, BatchDone

-----------------------------------------------------------------------------
(* The safety of the timers and of the wakeup.                             *)

\* While wait_due is between its look at the queue and its sleep, or asleep,
\* a queued request comes with a wakeup.
WakeupOK == pc \in {"scan", "sleep"} /\ requested # <<>> => permit \/ notifying > 0

TimersInv == OneTimer /\ NeverStranded /\ WaitingLineIsPolled

LEMMA InitInv == Init => TimersInv /\ WakeupOK
<1>. SUFFICES ASSUME Init PROVE TimersInv /\ WakeupOK
  OBVIOUS
<1>1. \A j \in Jobs : Tracked(j) = None /\ fire.job = None /\ DueAt(j) = next_due[j]
  BY DEF Init, Tracked, NoFire, DueAt
<1>2. NeverStranded
  BY <1>1 DEF Init, NeverStranded, SlotsLeft
<1>3. OneTimer /\ WaitingLineIsPolled
  BY <1>1 DEF Init, OneTimer, WaitingLineIsPolled
<1>. QED
  BY <1>2, <1>3 DEF Init, TimersInv, WakeupOK

LEMMA NextTimers ==
  ASSUME TypeOK, FireOK, TimersInv, [Next]_vars, TypeOK'
  PROVE  TimersInv'
<1>. USE DEF TimersInv
<1>1. ASSUME NEW j \in Jobs
      PROVE  /\ Tracked(j)' # None => retry_at'[j] = None /\ next_due'[j] = None
             /\ retry_at'[j] # None => next_due'[j] = None
             /\ attempt'[j] > 0 => next_due'[j] = None
             /\ room'[j] = "waiting" <=> Tracked(j)' # None
  <2>1. CASE Untouched(j)
    BY <2>1 DEF Untouched, OneTimer, WaitingLineIsPolled
  <2>2. CASE Rearmed(j)
    <3>1. Tracked(j) = fire.prior
      BY <2>2, NoneAssumption DEF Rearmed, Tracked, FireOK, TypeOK
    <3>2. room'[j] = "waiting"
      BY <2>2, <3>1 DEF Rearmed, WaitingLineIsPolled
    <3>. QED
      BY <2>2, <3>2, NoneAssumption DEF Rearmed
  <2>3. CASE Recorded(j)
    BY <2>3 DEF Recorded, SlotAfter
  <2>. QED
    BY <2>1, <2>2, <2>3, StepOfJob
<1>2. ASSUME NEW j \in Jobs, fire'.job # j, SlotsLeft(j)'
      PROVE  DueAt(j)' # None
  <2>1. CASE Untouched(j)
    <3>1. fire.job # j
      BY <1>2, <2>1 DEF Untouched
    <3>2. pending'[j] = pending[j]
      BY <1>2, <2>1, <3>1 DEF Untouched, Tracked
    <3>3. SlotsLeft(j) /\ DueAt(j)' = DueAt(j)
      BY <1>2, <2>1, <3>2 DEF Untouched, SlotsLeft, DueAt
    <3>. QED
      BY <3>1, <3>3 DEF NeverStranded
  <2>2. CASE Rearmed(j)
    <3>1. pending'[j] # None /\ pending'[j].poll_at \in Nat
      BY <2>2, NoneAssumption DEF Rearmed, PendingWork
    <3>. QED
      BY <3>1, NoneAssumption DEF DueAt
  <2>3. CASE Recorded(j)
    <3>1. now # None
      BY NoneAssumption, NowType
    <3>2. CASE Retries(j, attempt[j] + 1)
      <4>1. retry_at'[j] = now + RetryWait[j] /\ pending'[j] = None
        BY <2>3, <3>2 DEF Recorded
      <4>2. now + RetryWait[j] \in Nat
        <5>1. RetryWait \in [Jobs -> Nat]
          BY JobsAssumption
        <5>. QED
          BY <5>1, NowType
      <4>. QED
        BY <4>1, <4>2, NoneAssumption DEF DueAt
    <3>3. CASE ~Retries(j, attempt[j] + 1)
      <4>1. /\ retry_at'[j] = None /\ pending'[j] = None
            /\ next_due'[j] = NextAfter[j][now] /\ last_fired'[j] = now
        BY <2>3, <3>3 DEF Recorded, SlotAfter
      <4>. QED
        BY <1>2, <3>1, <4>1 DEF DueAt, SlotsLeft
    <3>. QED
      BY <3>2, <3>3
  <2>. QED
    BY <2>1, <2>2, <2>3, StepOfJob
<1>. QED
  BY <1>1, <1>2 DEF OneTimer, NeverStranded, WaitingLineIsPolled

LEMMA NextWakeup ==
  ASSUME TypeOK, WakeupOK, [Next]_vars
  PROVE  WakeupOK'
<1>. USE DEF WakeupOK, timers, queue, loop
<1>1. ASSUME NEW j \in Jobs, PushRequest(j) PROVE WakeupOK'
  BY <1>1 DEF PushRequest, TypeOK
<1>2. CASE DrainRequests
  BY <1>2 DEF DrainRequests
<1>. QED
  BY <1>1, <1>2
     DEF Next, vars, Tick, WorkEnds, NotifyOne, ScanDue, WakeByTimer, WakeByNotify,
         CancelWait, BeginFire, BatchDone, ActionAnswers, PollAnswers, Rearm, Record

RegistryInv == TypeOK /\ FireOK /\ TimersInv /\ WakeupOK

LEMMA RegistryInvariant == Spec => []RegistryInv
<1>1. RegistryInv /\ [Next]_vars => RegistryInv'
  BY NextTypeOK, NextFireOK, NextTimers, NextWakeup DEF RegistryInv
<1>2. Init => RegistryInv
  BY InitTypeOK, InitFireOK, InitInv DEF RegistryInv
<1>. QED
  BY <1>1, <1>2, PTL DEF Spec

\* No job ever has two timers: unresolved work suppresses retry and slot, and
\* a retry chain suppresses the slot, whatever the tools answer.
THEOREM OneTimerAlways == Spec => []OneTimer
  BY RegistryInvariant, PTL DEF RegistryInv, TimersInv

\* No path through a fire leaves a job with slots left and no timer.
THEOREM NeverStrandedAlways == Spec => []NeverStranded
  BY RegistryInvariant, PTL DEF RegistryInv, TimersInv

\* The waiting line stands in a room exactly while its work is polled.
THEOREM WaitingLineAlways == Spec => []WaitingLineIsPolled
  BY RegistryInvariant, PTL DEF RegistryInv, TimersInv

\* A loop parked with a manual request queued has a wakeup coming.
THEOREM WakeupAlways == Spec => []NoLostWakeup
<1>1. WakeupOK => NoLostWakeup
  BY DEF WakeupOK, NoLostWakeup
<1>. QED
  BY <1>1, RegistryInvariant, PTL DEF RegistryInv

-----------------------------------------------------------------------------
LEMMA DeadlineStep ==
  ASSUME TypeOK, FireOK, [Next]_vars, TypeOK', NEW j \in Jobs,
         Tracked(j) # None, Tracked(j)' # None
  PROVE  /\ Tracked(j)'.deadline = Tracked(j).deadline
         /\ Tracked(j)'.polls >= Tracked(j).polls
<1>1. Tracked(j) \in PendingWork
  BY DEF Tracked, TypeOK
<1>2. CASE Untouched(j)
  BY <1>1, <1>2 DEF Untouched, PendingWork
<1>3. CASE Rearmed(j)
  <2>1. Tracked(j) = fire.prior
    BY <1>3, NoneAssumption DEF Rearmed, Tracked, FireOK
  <2>2. /\ Tracked(j)'.deadline = fire.prior.deadline
        /\ Tracked(j)'.polls = fire.prior.polls + 1
    BY <1>3, <2>1 DEF Rearmed, ArmedWork
  <2>. QED
    BY <1>1, <2>1, <2>2 DEF PendingWork
<1>4. CASE Recorded(j)
  BY <1>4 DEF Recorded
<1>. QED
  BY <1>2, <1>3, <1>4, StepOfJob

\* Polling never moves the deadline fixed at the first acceptance.
THEOREM DeadlineIsFixed == Spec => DeadlineFixed
<1>1. RegistryInv /\ RegistryInv' /\ [Next]_vars =>
        [\A j \in Jobs : Tracked(j) # None /\ Tracked(j)' # None =>
            /\ Tracked(j)'.deadline = Tracked(j).deadline
            /\ Tracked(j)'.polls >= Tracked(j).polls]_vars
  BY DeadlineStep DEF RegistryInv
<1>. QED
  BY <1>1, RegistryInvariant, PTL DEF Spec, DeadlineFixed

-----------------------------------------------------------------------------
(* The handle a poll asks with.                                            *)

\* A job's newest handle is the one in use, armed, asked with or just answered,
\* and only an older one was exchanged.
HandleInv ==
  /\ \A j \in Jobs : \A h \in DOMAIN work[j] : work[j][h] = "renewed" => h < Len(work[j])
  /\ \A j \in Jobs : pending[j] # None => pending[j].handle = Len(work[j]) /\ Len(work[j]) > 0
  /\ fire.answer = "awaiting" /\ fire.prior # None =>
       fire.prior.handle = Len(work[fire.job]) /\ Len(work[fire.job]) > 0
  /\ fire.answer = "accepted" =>
       fire.handle = Len(work[fire.job]) /\ Len(work[fire.job]) > 0

LEMMA InitHandles == Init => HandleInv
<1>. SUFFICES ASSUME Init PROVE HandleInv
  OBVIOUS
<1>1. \A j \in Jobs : DOMAIN work[j] = {}
  BY DEF Init
<1>. QED
  BY <1>1 DEF Init, HandleInv, NoFire

\* Adding a running handle at the end, the last one perhaps exchanged for it.
LEMMA FreshHandle ==
  ASSUME NEW s \in Seq(WorkState), NEW r,
         r = Append(s, "running") \/ (Len(s) > 0 /\ r = Renewed(s, Len(s))),
         \A h \in DOMAIN s : s[h] = "renewed" => h < Len(s)
  PROVE  /\ Len(r) = Len(s) + 1 /\ Len(r) > 0
         /\ \A h \in DOMAIN r : r[h] = "renewed" => h < Len(r)
<1>1. Len(s) \in Nat
  BY LenProperties
<1>2. r \in Seq(WorkState) /\ Len(r) = Len(s) + 1 /\ r[Len(s) + 1] = "running"
  BY <1>1, RenewedLemma, AppendProperties DEF WorkState
<1>3. DOMAIN r = 1..(Len(s) + 1)
  BY <1>2, LenProperties
<1>. QED
  BY <1>1, <1>2, <1>3

LEMMA NextHandles ==
  ASSUME TypeOK, FireOK, HandleInv, [Next]_vars
  PROVE  HandleInv'
<1>. USE DEF timers, queue, loop
<1>0. \A j \in Jobs : work[j] \in Seq(WorkState) /\ Len(work[j]) \in Nat
  BY LenProperties DEF TypeOK
<1>1. ASSUME UNCHANGED <<fire, pending, work>> PROVE HandleInv'
  BY <1>1 DEF HandleInv
<1>2. ASSUME NEW j \in Jobs, NEW h \in DOMAIN work[j], WorkEnds(j, h)
      PROVE  HandleInv'
  <2>1. PICK e \in {"ended", "overran"} : work' = [work EXCEPT ![j][h] = e]
    BY <1>2 DEF WorkEnds
  <2>2. \A i \in Jobs : /\ Len(work'[i]) = Len(work[i])
                        /\ DOMAIN work'[i] = DOMAIN work[i]
                        /\ \A k \in DOMAIN work[i] : work'[i][k] = "renewed" => work[i][k] = "renewed"
    <3>. TAKE i \in Jobs
    <3>1. CASE i # j
      BY <2>1, <3>1 DEF TypeOK
    <3>2. CASE i = j
      <4>1. work'[i] = [work[j] EXCEPT ![h] = e]
        BY <2>1, <3>2 DEF TypeOK
      <4>2. work[j] \in [1..Len(work[j]) -> WorkState]
        BY <1>0, LenProperties
      <4>3. work'[i] \in [1..Len(work[j]) -> WorkState]
        BY <4>1, <4>2 DEF WorkState
      <4>4. Len(work'[i]) = Len(work[j])
        BY <1>0, <4>3, IsASeq, LenProperties
      <4>. QED
        BY <3>2, <4>1, <4>2, <4>3, <4>4
    <3>. QED
      BY <3>1, <3>2
  <2>3. UNCHANGED <<fire, pending>>
    BY <1>2 DEF WorkEnds
  <2>. QED
    BY <2>2, <2>3 DEF HandleInv, FireOK, TypeOK
<1>3. CASE BeginFire
  <2>1. Head(batch) \in Jobs
    BY <1>3, HeadTailProperties DEF BeginFire, TypeOK
  <2>2. /\ fire'.job = Head(batch) /\ fire'.prior = pending[Head(batch)]
        /\ fire'.answer # "accepted" /\ work' = work
        /\ \A j \in Jobs : pending'[j] # None => pending'[j] = pending[j]
    BY <1>3, <2>1 DEF BeginFire, TypeOK
  <2>. QED
    BY <2>1, <2>2 DEF HandleInv
<1>4. ASSUME fire.job \in Jobs, fire'.job = fire.job, UNCHANGED pending,
             pending[fire.job] = None, fire'.answer = "accepted",
             fire'.handle = Len(work[fire.job]) + 1,
             \/ work' = [work EXCEPT ![fire.job] = Append(@, "running")]
             \/ /\ Len(work[fire.job]) > 0
                /\ work' = [work EXCEPT ![fire.job] = Renewed(@, Len(work[fire.job]))]
      PROVE  HandleInv'
  <2>1. \A j \in Jobs : j # fire.job => work'[j] = work[j]
    BY <1>4 DEF TypeOK
  <2>2. /\ Len(work'[fire.job]) = Len(work[fire.job]) + 1 /\ Len(work'[fire.job]) > 0
        /\ \A h \in DOMAIN work'[fire.job] :
             work'[fire.job][h] = "renewed" => h < Len(work'[fire.job])
    <3>1. \/ work'[fire.job] = Append(work[fire.job], "running")
          \/ /\ Len(work[fire.job]) > 0
             /\ work'[fire.job] = Renewed(work[fire.job], Len(work[fire.job]))
      BY <1>4 DEF TypeOK
    <3>2. \A h \in DOMAIN work[fire.job] : work[fire.job][h] = "renewed" => h < Len(work[fire.job])
      BY <1>4 DEF HandleInv
    <3>. QED
      BY <1>0, <1>4, <3>1, <3>2, FreshHandle
  <2>. QED
    BY <1>4, <2>1, <2>2 DEF HandleInv
<1>5. CASE ActionAnswers
  <2>1. fire.job \in Jobs /\ UNCHANGED pending /\ pending[fire.job] = None /\ fire.prior = None
    BY <1>5 DEF ActionAnswers, FireOK, TypeOK
  <2>2. CASE fire' \in {[fire EXCEPT !.answer = a] : a \in {"ok", "err"}} /\ UNCHANGED work
    <3>1. fire'.answer \in {"ok", "err"}
      BY <2>2 DEF TypeOK
    <3>. QED
      BY <2>1, <2>2, <3>1 DEF HandleInv
  <2>3. CASE /\ fire' \in {[fire EXCEPT !.answer = "accepted", !.budget = b,
                                        !.handle = Len(work[fire.job]) + 1] : b \in Budgets}
             /\ work' = [work EXCEPT ![fire.job] = Append(@, "running")]
    <3>1. fire'.answer = "accepted" /\ fire'.handle = Len(work[fire.job]) + 1 /\ fire'.job = fire.job
      BY <2>3 DEF TypeOK
    <3>. QED
      BY <1>4, <2>1, <2>3, <3>1
  <2>. QED
    BY <1>5, <2>2, <2>3 DEF ActionAnswers
<1>6. CASE PollAnswers
  <2>1. /\ fire.job \in Jobs /\ UNCHANGED pending /\ pending[fire.job] = None
        /\ fire.prior.handle = Len(work[fire.job]) /\ Len(work[fire.job]) > 0
    BY <1>6 DEF PollAnswers, FireOK, TypeOK, HandleInv
  <2>2. CASE fire' \in {[fire EXCEPT !.answer = a] : a \in {"err", "ok"}} /\ UNCHANGED work
    <3>1. fire'.answer \in {"ok", "err"}
      BY <2>2 DEF TypeOK
    <3>. QED
      BY <2>1, <2>2, <3>1 DEF HandleInv
  <2>3. CASE /\ fire' = [fire EXCEPT !.answer = "accepted", !.handle = fire.prior.handle]
             /\ UNCHANGED work
    <3>1. fire'.answer = "accepted" /\ fire'.handle = fire.prior.handle /\ fire'.job = fire.job
      BY <2>3 DEF TypeOK
    <3>. QED
      BY <2>1, <2>3, <3>1 DEF HandleInv
  <2>4. CASE /\ fire' = [fire EXCEPT !.answer = "accepted", !.handle = Len(work[fire.job]) + 1]
             /\ work' = [work EXCEPT ![fire.job] = Renewed(@, fire.prior.handle)]
    <3>1. /\ fire'.answer = "accepted" /\ fire'.handle = Len(work[fire.job]) + 1
          /\ fire'.job = fire.job
      BY <2>4 DEF TypeOK
    <3>. QED
      BY <1>4, <2>1, <2>4, <3>1
  <2>. QED
    BY <1>6, <2>2, <2>3, <2>4 DEF PollAnswers
<1>7. CASE Rearm
  <2>1. fire.job \in Jobs /\ fire'.answer = "none" /\ work' = work
    BY <1>7 DEF Rearm, FireOK, TypeOK, NoFire
  <2>2. pending'[fire.job].handle = fire.handle
    BY <1>7, <2>1 DEF Rearm, ArmedWork, TypeOK
  <2>3. \A j \in Jobs : j # fire.job => pending'[j] = pending[j]
    BY <1>7 DEF Rearm, TypeOK
  <2>4. fire.handle = Len(work[fire.job]) /\ Len(work[fire.job]) > 0
    BY <1>7 DEF Rearm, HandleInv
  <2>. QED
    BY <2>1, <2>2, <2>3, <2>4 DEF HandleInv
<1>8. CASE Record
  BY <1>8 DEF Record, HandleInv, NoFire
<1>. QED
  BY <1>1, <1>2, <1>3, <1>5, <1>6, <1>7, <1>8
     DEF Next, vars, Tick, PushRequest, NotifyOne, DrainRequests, ScanDue,
         WakeByTimer, WakeByNotify, CancelWait, BatchDone

\* No poll asks with a handle that was exchanged for a fresh one.
THEOREM NoStalePollAlways == Spec => []NoStalePoll
<1>1. RegistryInv /\ HandleInv /\ [Next]_vars => HandleInv'
  BY NextHandles DEF RegistryInv
<1>2. RegistryInv /\ HandleInv => NoStalePoll
  <2>. SUFFICES ASSUME RegistryInv, HandleInv, fire.answer = "awaiting", fire.prior # None
                PROVE  work[fire.job][fire.prior.handle] # "renewed"
    BY DEF NoStalePoll
  <2>1. fire.job \in Jobs
    BY DEF RegistryInv, FireOK, TypeOK
  <2>2. fire.prior.handle = Len(work[fire.job]) /\ Len(work[fire.job]) > 0
    BY DEF HandleInv
  <2>3. DOMAIN work[fire.job] = 1..Len(work[fire.job]) /\ Len(work[fire.job]) \in Nat
    BY <2>1, LenProperties DEF RegistryInv, TypeOK
  <2>. QED
    BY <2>1, <2>2, <2>3 DEF HandleInv
<1>. QED
  BY <1>1, <1>2, InitHandles, RegistryInvariant, PTL DEF Spec

-----------------------------------------------------------------------------
(* The attempts a job's history records.                                   *)

\* The bounded history is the outcomes so far and the new one, without the
\* first of them when they are too many.
LEMMA RememberLemma ==
  ASSUME NEW h \in Seq(Outcome), NEW o \in Outcome
  PROVE  \E k \in {0, 1} :
           /\ Len(Remember(h, o)) = Len(h) + 1 - k
           /\ \A i \in 1..Len(Remember(h, o)) :
                Remember(h, o)[i] = IF i + k = Len(h) + 1 THEN o ELSE h[i + k]
<1>. DEFINE grown == Append(h, o)
<1>1. /\ grown \in Seq(Outcome) /\ grown # <<>>
      /\ Len(grown) = Len(h) + 1 /\ Len(h) \in Nat
      /\ \A i \in 1..Len(grown) : grown[i] = IF i = Len(h) + 1 THEN o ELSE h[i]
  BY AppendProperties, LenProperties
<1>. HIDE DEF grown
<1>2. CASE Len(grown) > HistoryCap
  <2>1. Remember(h, o) = Tail(grown)
    BY <1>2 DEF Remember, grown
  <2>2. /\ Len(Tail(grown)) = Len(h)
        /\ \A i \in 1..Len(h) : Tail(grown)[i] = grown[i + 1]
    BY <1>1, HeadTailProperties
  <2>3. \A i \in 1..Len(h) : Tail(grown)[i] = IF i + 1 = Len(h) + 1 THEN o ELSE h[i + 1]
    BY <1>1, <2>2
  <2>. QED
    BY <1>1, <2>1, <2>2, <2>3
<1>3. CASE ~(Len(grown) > HistoryCap)
  <2>1. Remember(h, o) = grown
    BY <1>3 DEF Remember, grown
  <2>. QED
    BY <1>1, <2>1
<1>. QED
  BY <1>2, <1>3

\* The bounded history is a history.
LEMMA RememberType ==
  ASSUME NEW h \in Seq(Outcome), NEW o \in Outcome
  PROVE  Remember(h, o) \in Seq(Outcome)
<1>1. Append(h, o) \in Seq(Outcome) /\ Append(h, o) # <<>>
  BY AppendProperties
<1>. QED
  BY <1>1, HeadTailProperties DEF Remember

\* ChainsInOrder needs, to be inductive, that a chain has retries left.
RetriesLeft == \A j \in Jobs : attempt[j] <= RetryMax[j]

ChainsInv == ChainsInOrder /\ RetriesLeft

LEMMA RetryMaxType == \A j \in Jobs : RetryMax[j] \in Nat
<1>1. RetryMax \in [Jobs -> Nat]
  BY JobsAssumption
<1>. QED
  BY <1>1

LEMMA InitChains == Init => ChainsInv
<1>. SUFFICES ASSUME Init PROVE ChainsInv
  OBVIOUS
<1>1. \A j \in Jobs : history[j] = <<>> /\ attempt[j] = 0
  BY DEF Init
<1>. QED
  BY <1>1, RetryMaxType DEF ChainsInv, ChainsInOrder, RetriesLeft

LEMMA NextChains ==
  ASSUME TypeOK, FireOK, ChainsInv, [Next]_vars, TypeOK'
  PROVE  ChainsInv'
<1>. DEFINE Continues(j, o) == ~o.ok /\ o.attempt <= RetryMax[j]
            InOrderOf(j, h, a) ==
              /\ a <= RetryMax[j]
              /\ \A i \in 1..Len(h) : h[i].attempt <= RetryMax[j] + 1
              /\ \A i \in 1..(Len(h) - 1) :
                   h[i + 1].attempt = IF Continues(j, h[i]) THEN h[i].attempt + 1 ELSE 1
              /\ h # <<>> =>
                   a = IF Continues(j, h[Len(h)]) THEN h[Len(h)].attempt ELSE 0
<1>1. \A j \in Jobs : InOrderOf(j, history[j], attempt[j])
  BY DEF ChainsInv, ChainsInOrder, RetriesLeft
<1>2. ASSUME NEW j \in Jobs PROVE InOrderOf(j, history'[j], attempt'[j])
  <2>1. CASE Untouched(j) \/ Rearmed(j)
    BY <1>1, <2>1 DEF Untouched, Rearmed
  <2>2. CASE Recorded(j)
    <3>. DEFINE n == attempt[j] + 1
                h == history[j]
                o == [attempt |-> n, ok |-> fire.answer = "ok"]
                r == Remember(h, o)
    <3>1. /\ history'[j] = r
          /\ attempt'[j] = IF Continues(j, o) THEN n ELSE 0
      BY <2>2 DEF Recorded, Retries
    <3>2. /\ attempt[j] \in Nat /\ RetryMax[j] \in Nat
          /\ h \in Seq(Outcome) /\ Len(h) \in Nat
      BY RetryMaxType, LenProperties DEF TypeOK
    <3>3. o \in Outcome /\ o.attempt = n /\ n \in Nat
      BY <3>2 DEF Outcome
    <3>4. /\ attempt[j] <= RetryMax[j]
          /\ \A i \in 1..Len(h) : h[i].attempt <= RetryMax[j] + 1
          /\ \A i \in 1..(Len(h) - 1) :
               h[i + 1].attempt = IF Continues(j, h[i]) THEN h[i].attempt + 1 ELSE 1
          /\ Len(h) # 0 =>
               attempt[j] = IF Continues(j, h[Len(h)]) THEN h[Len(h)].attempt ELSE 0
      BY <1>1, <3>2, EmptySeq
    <3>. HIDE DEF Continues
    <3>5. PICK k \in {0, 1} :
            /\ Len(r) = Len(h) + 1 - k
            /\ \A i \in 1..Len(r) : r[i] = IF i + k = Len(h) + 1 THEN o ELSE h[i + k]
      BY <3>2, <3>3, RememberLemma
    <3>k. k \in Nat /\ k <= 1 /\ Len(r) \in Nat
      BY <3>2, <3>5
    <3>6. r = <<>> \/ (Len(r) \in 1..(Len(h) + 1) /\ r[Len(r)] = o)
      <4>1. r # <<>> => Len(r) # 0
        BY <3>2, <3>3, RememberType, EmptySeq
      <4>. QED
        BY <3>2, <3>5, <4>1
    <3>. HIDE DEF o, r, h
    <3>7. ASSUME NEW i \in 1..Len(r) PROVE r[i].attempt <= RetryMax[j] + 1
      <4>1. i \in Nat /\ i >= 1 /\ i + k <= Len(h) + 1
        BY <3>2, <3>5, <3>k
      <4>2. r[i] = IF i + k = Len(h) + 1 THEN o ELSE h[i + k]
        BY <3>5
      <4>3. CASE i + k = Len(h) + 1
        BY <3>2, <3>3, <3>4, <4>2, <4>3
      <4>4. CASE i + k # Len(h) + 1
        <5>1. i + k \in 1..Len(h)
          BY <3>2, <3>k, <4>1, <4>4
        <5>. QED
          BY <3>4, <4>2, <4>4, <5>1
      <4>. QED
        BY <4>3, <4>4
    <3>8. ASSUME NEW i \in 1..(Len(r) - 1)
          PROVE  r[i + 1].attempt = IF Continues(j, r[i]) THEN r[i].attempt + 1 ELSE 1
      <4>0. /\ i \in 1..Len(r) /\ i + 1 \in 1..Len(r)
            /\ i \in Nat /\ i >= 1 /\ i + k <= Len(h)
        BY <3>2, <3>5, <3>k
      <4>1. i + k \in 1..Len(h) /\ r[i] = h[i + k]
        <5>1. i + k \in 1..Len(h) /\ i + k # Len(h) + 1
          BY <3>2, <3>k, <4>0
        <5>2. r[i] = IF i + k = Len(h) + 1 THEN o ELSE h[i + k]
          BY <3>5, <4>0
        <5>. QED
          BY <5>1, <5>2
      <4>2. r[i + 1] = IF i + k = Len(h) THEN o ELSE h[i + k + 1]
        <5>1. r[i + 1] = IF (i + 1) + k = Len(h) + 1 THEN o ELSE h[(i + 1) + k]
          BY <3>5, <4>0
        <5>2. (i + 1) + k = i + k + 1 /\ (i + k + 1 = Len(h) + 1 <=> i + k = Len(h))
          BY <3>2, <3>k, <4>0
        <5>. QED
          BY <5>1, <5>2
      <4>3. CASE i + k = Len(h)
        <5>1. o.attempt = IF Continues(j, h[Len(h)]) THEN h[Len(h)].attempt + 1 ELSE 1
          BY <3>2, <3>3, <3>4, <4>1, <4>3
        <5>. QED
          BY <4>1, <4>2, <4>3, <5>1
      <4>4. CASE i + k # Len(h)
        <5>1. i + k \in 1..(Len(h) - 1)
          BY <3>2, <4>1, <4>4
        <5>. QED
          BY <3>4, <4>1, <4>2, <4>4, <5>1
      <4>. QED
        BY <4>3, <4>4
    <3>9. attempt'[j] <= RetryMax[j]
      BY <3>1, <3>2, <3>3 DEF Continues
    <3>. QED
      BY <3>1, <3>3, <3>6, <3>7, <3>8, <3>9
  <2>. QED
    BY <2>1, <2>2, StepOfJob
<1>. QED
  BY <1>2 DEF ChainsInv, ChainsInOrder, RetriesLeft

\* Whatever the retry policies and the answers, a job's recorded attempts form
\* chains, each within its budget, of which the live counter is the last.
THEOREM ChainsInOrderAlways == Spec => []ChainsInOrder
<1>1. RegistryInv /\ RegistryInv' /\ ChainsInv /\ [Next]_vars => ChainsInv'
  BY NextChains DEF RegistryInv
<1>. QED
  BY <1>1, InitChains, RegistryInvariant, PTL DEF Spec, ChainsInv

-----------------------------------------------------------------------------
(* The refinement of JobLifecycle.                                         *)

phases == [j \in Jobs |-> Phase(j)]

LEMMA RefineInit == Init => Lifecycle!Init
<1>. SUFFICES ASSUME Init PROVE Lifecycle!Init
  OBVIOUS
<1>1. \A j \in Jobs : Phase(j) = "idle"
  BY NoneAssumption DEF Init, NoFire, Phase
<1>. QED
  BY <1>1 DEF Init, Lifecycle!Init

LEMMA RefineStep ==
  ASSUME RegistryInv, RegistryInv', [Next]_vars
  PROVE  [Lifecycle!Next]_<<phases, attempt>>
<1>. USE DEF timers, queue, loop
<1>t. TypeOK /\ FireOK /\ TypeOK' /\ FireOK'
  BY DEF RegistryInv
<1>n. \A j \in Jobs : j # None
  BY NoneAssumption
<1>1. ASSUME UNCHANGED timers, fire'.job = fire.job, fire'.prior = fire.prior
      PROVE  UNCHANGED <<phases, attempt>>
  BY <1>1 DEF phases, Phase
<1>2. CASE BeginFire
  <2>. PICK j \in Jobs : j = Head(batch)
    BY <1>2, <1>t, HeadTailProperties DEF BeginFire, TypeOK
  <2>1. j \in Jobs /\ fire.job = None
    BY <1>2 DEF BeginFire
  <2>2. /\ fire'.job = j /\ fire'.prior = pending[j]
        /\ pending' = [pending EXCEPT ![j] = None]
        /\ UNCHANGED <<retry_at, attempt>>
    BY <1>2 DEF BeginFire
  <2>3. \A i \in Jobs : i # j => Phase(i)' = Phase(i)
    BY <1>t, <1>n, <2>1, <2>2 DEF Phase, TypeOK
  <2>4. \A i \in Jobs : phases[i] \notin {"dispatching", "polling"}
    BY <1>n, <2>1 DEF phases, Phase
  <2>5. CASE pending[j] = None
    <3>1. Phase(j)' = "dispatching" /\ phases[j] \in {"idle", "retrying"}
      BY <1>n, <2>1, <2>2, <2>5 DEF Phase, phases
    <3>2. phases' = [phases EXCEPT ![j] = "dispatching"]
      BY <2>1, <2>3, <3>1 DEF phases
    <3>. QED
      BY <2>1, <2>2, <2>4, <3>1, <3>2
         DEF Lifecycle!Next, Lifecycle!Dispatch, Lifecycle!Move, Lifecycle!InFlight, phases
  <2>6. CASE pending[j] # None
    <3>1. Phase(j)' = "polling" /\ phases[j] = "waiting"
      BY <1>n, <2>1, <2>2, <2>6 DEF Phase, phases
    <3>2. phases' = [phases EXCEPT ![j] = "polling"]
      BY <2>1, <2>3, <3>1 DEF phases
    <3>. QED
      BY <2>1, <2>2, <2>4, <3>1, <3>2
         DEF Lifecycle!Next, Lifecycle!Poll, Lifecycle!Move, Lifecycle!InFlight, phases
  <2>. QED
    BY <2>5, <2>6
<1>3. CASE ActionAnswers \/ PollAnswers
  BY <1>1, <1>3, <1>t, AnswerShape DEF ActionAnswers, PollAnswers
<1>4. CASE Rearm
  <2>. PICK j \in Jobs : j = fire.job
    BY <1>4, <1>t DEF Rearm, FireOK, TypeOK
  <2>1. fire'.job = None /\ fire.prior \in PendingWork \cup {None}
    BY <1>4, <1>t DEF Rearm, TypeOK, NoFire
  <2>2. pending'[j] # None /\ attempt' = attempt
    <3>1. attempt' = attempt
      BY <1>4 DEF Rearm
    <3>2. ~Untouched(j)
      BY <1>n, <2>1 DEF Untouched
    <3>3. CASE Rearmed(j)
      BY <3>1, <3>3, NoneAssumption DEF Rearmed
    <3>4. CASE Recorded(j)
      <4>1. room'[j] = "verdict" /\ fire.answer = "accepted"
        BY <1>4, <3>4 DEF Recorded, Rearm
      <4>2. room'[j] = IF fire.prior = None THEN "waiting" ELSE room[j]
        BY <1>4, <1>t DEF Rearm, TypeOK
      <4>3. fire.prior # None /\ room[j] = "verdict"
        BY <4>1, <4>2
      <4>4. Tracked(j) # None
        BY <4>3 DEF Tracked
      <4>. QED
        BY <4>3, <4>4 DEF RegistryInv, TimersInv, WaitingLineIsPolled
    <3>. QED
      BY <1>t, <3>1, <3>2, <3>3, <3>4, StepOfJob
  <2>3. \A i \in Jobs : i # j => Phase(i)' = Phase(i)
    BY <1>4, <1>t, <1>n, <2>1 DEF Phase, TypeOK, Rearm
  <2>4. Phase(j)' = "waiting" /\ attempt' = attempt
    BY <1>n, <2>1, <2>2 DEF Phase
  <2>5. phases' = [phases EXCEPT ![j] = "waiting"]
    BY <2>1, <2>3, <2>4 DEF phases
  <2>6. CASE fire.prior = None
    <3>1. phases[j] = "dispatching"
      BY <2>1, <2>6 DEF phases, Phase
    <3>. QED
      BY <2>1, <2>4, <2>5, <3>1 DEF Lifecycle!Next, Lifecycle!Accept, Lifecycle!Move, phases
  <2>7. CASE fire.prior # None
    <3>1. phases[j] = "polling"
      BY <2>1, <2>7 DEF phases, Phase
    <3>. QED
      BY <2>1, <2>4, <2>5, <3>1
         DEF Lifecycle!Next, Lifecycle!StillRunning, Lifecycle!Move, phases
  <2>. QED
    BY <2>6, <2>7
<1>5. CASE Record
  <2>. PICK j \in Jobs : j = fire.job
    BY <1>5, <1>t DEF Record, FireOK, TypeOK
  <2>. DEFINE n == attempt[j] + 1
  <2>1. /\ j \in Jobs /\ fire'.job = None /\ pending[j] = None
        /\ phases[j] \in {"dispatching", "polling"}
    BY <1>5, <1>t DEF Record, FireOK, TypeOK, NoFire, phases, Phase
  <2>2. /\ UNCHANGED pending
        /\ attempt' = [attempt EXCEPT ![j] = IF Retries(j, n) THEN n ELSE 0]
        /\ retry_at' = [retry_at EXCEPT ![j] =
                          IF Retries(j, n) THEN now + RetryWait[j] ELSE None]
    BY <1>5 DEF Record
  <2>3. \A i \in Jobs : i # j => Phase(i)' = Phase(i)
    BY <1>t, <1>n, <2>1, <2>2 DEF Phase, TypeOK
  <2>4. CASE Retries(j, n)
    <3>1. now + RetryWait[j] # None
      <4>1. RetryWait \in [Jobs -> Nat]
        BY JobsAssumption
      <4>. QED
        BY <4>1, <1>t, <2>1, NowType, NoneAssumption
    <3>2. Phase(j)' = "retrying"
      BY <1>t, <1>n, <2>1, <2>2, <2>4, <3>1 DEF Phase, TypeOK
    <3>3. phases' = [phases EXCEPT ![j] = "retrying"]
      BY <2>1, <2>3, <3>2 DEF phases
    <3>4. attempt[j] < RetryMax[j] /\ attempt' = [attempt EXCEPT ![j] = @ + 1]
      <4>1. RetryMax \in [Jobs -> Nat] /\ attempt \in [Jobs -> Nat]
        BY <1>t, JobsAssumption DEF TypeOK
      <4>. QED
        BY <4>1, <2>1, <2>2, <2>4 DEF Retries
    <3>. QED
      BY <2>1, <3>3, <3>4 DEF Lifecycle!Next, Lifecycle!Fail, Lifecycle!Move, phases
  <2>5. CASE ~Retries(j, n)
    <3>1. Phase(j)' = "idle"
      BY <1>t, <1>n, <2>1, <2>2, <2>5 DEF Phase, TypeOK
    <3>2. phases' = [phases EXCEPT ![j] = "idle"]
      BY <2>1, <2>3, <3>1 DEF phases
    <3>. QED
      BY <2>1, <2>2, <2>5, <3>2 DEF Lifecycle!Next, Lifecycle!Resolve, Lifecycle!Move, phases
  <2>. QED
    BY <2>4, <2>5
<1>6. ASSUME UNCHANGED <<timers, fire>> PROVE UNCHANGED <<phases, attempt>>
  BY <1>1, <1>6
<1>. QED
  BY <1>2, <1>3, <1>4, <1>5, <1>6
     DEF Next, vars, Tick, WorkEnds, PushRequest, NotifyOne, DrainRequests, ScanDue,
         WakeByTimer, WakeByNotify, CancelWait, BatchDone

\* The registry implements the abstract job lifecycle, whatever the clock, the
\* tools and the requesters do.
THEOREM Refinement == Spec => ImplementsLifecycle
<1>1. RegistryInv /\ RegistryInv' /\ [Next]_vars => [Lifecycle!Next]_<<phases, attempt>>
  BY RefineStep
<1>. QED
  BY <1>1, RefineInit, RegistryInvariant, PTL
     DEF Spec, ImplementsLifecycle, Lifecycle!Spec, phases

=============================================================================
