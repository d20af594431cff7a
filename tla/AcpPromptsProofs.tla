-------------------------- MODULE AcpPromptsProofs --------------------------
(***************************************************************************)
(* Theorems about AcpPrompts for any prompts, sessions and queue bound.    *)
(***************************************************************************)
EXTENDS AcpPrompts, TLAPS

\* Every step of a task or of the reader, by name; what follows splits on it.
LEMMA Steps ==
  ASSUME [Next]_vars
  PROVE  \/ UNCHANGED vars
         \/ Eof
         \/ \E s \in Sessions : ReadCancel(s)
         \/ \E p \in Prompts : ReadPrompt(p) \/ Task(p) \/ Agent(p)
  BY DEF Next, Reader

\* Dropping the head of a queue leaves a queue, adding an event makes one.
LEMMA QueueType ==
  ASSUME NEW q \in Seq(Events), q # <<>>
  PROVE  Head(q) \in Events /\ Tail(q) \in Seq(Events)
  OBVIOUS

LEMMA AppendType ==
  ASSUME NEW q \in Seq(Events), NEW e \in Events
  PROVE  Append(q, e) \in Seq(Events)
  OBVIOUS

----------------------------------------------------------------------------
\* Type correctness: the reader, the tasks and the agents keep every variable
\* in its type, for any number of prompts and sessions.

LEMMA TypeInit == Init => TypeOK
  BY DEF Init, TypeOK, Phases, Outcomes

\* Every action keeps the types.
LEMMA TypeNext == TypeOK /\ [Next]_vars => TypeOK'
<1>. SUFFICES ASSUME TypeOK, [Next]_vars PROVE TypeOK'
  OBVIOUS
<1>. USE SessionAssumption DEF TypeOK, To, Decides, Phases, Outcomes, history
<1>1. CASE UNCHANGED vars
  BY <1>1 DEF vars
<1>2. CASE Eof
  BY <1>2 DEF Eof
<1>3. ASSUME NEW s \in Sessions, ReadCancel(s) PROVE TypeOK'
  <2>1. Signalled(s) \in SUBSET Prompts
    BY DEF Signalled
  <2>2. Of(s) \in SUBSET Prompts
    BY DEF Of
  <2>. QED
    BY <1>3, <2>1, <2>2 DEF ReadCancel
<1>4. ASSUME NEW p \in Prompts, ReadPrompt(p) \/ Task(p) \/ Agent(p) PROVE TypeOK'
  <2>1. CASE ReadPrompt(p)
    BY <2>1 DEF ReadPrompt
  <2>2. CASE Reject(p)
    BY <2>2 DEF Reject
  <2>3. CASE Arm(p)
    <3>1. (Of(SessionOf[p]) \cap Armed) \ {p} \in SUBSET Prompts
      BY DEF Of
    <3>2. overlapped' \in SUBSET Prompts
      BY <2>3, <3>1 DEF Arm
    <3>. QED
      BY <2>3, <3>2 DEF Arm
  <2>4. CASE Submitted(p)
    BY <2>4 DEF Submitted
  <2>5. CASE SubmitFails(p)
    BY <2>5 DEF SubmitFails, Disarm
  <2>6. CASE Cancelled(p)
    BY <2>6 DEF Cancelled, Leaves
  <2>7. CASE TakeUpdate(p)
    BY <2>7, QueueType DEF TakeUpdate, Takes, Listens
  <2>8. CASE UpdateWritten(p)
    BY <2>8 DEF UpdateWritten
  <2>9. CASE TakeSilent(p)
    BY <2>9, QueueType DEF TakeSilent, Takes, Listens
  <2>10. CASE TakeFailure(p)
    BY <2>10 DEF TakeFailure, Takes, Listens, Leaves
  <2>11. CASE StreamOver(p)
    BY <2>11 DEF StreamOver, Listens, Leaves
  <2>12. CASE Finish(p)
    BY <2>12 DEF Finish, Disarm
  <2>13. CASE Answer(p)
    BY <2>13 DEF Answer
  <2>14. CASE Emit(p)
    BY <2>14, AppendType DEF Emit, Events
  <2>15. CASE AgentEnds(p)
    <3>1. ASSUME NEW e \in {"silent", "failure"}, queue' = [queue EXCEPT ![p] = Append(@, e)]
          PROVE  queue' \in [Prompts -> Seq(Events)]
      <4>1. e \in Events /\ queue[p] \in Seq(Events)
        BY DEF Events
      <4>2. Append(queue[p], e) \in Seq(Events)
        BY <4>1, AppendType
      <4>. QED
        BY <3>1, <4>2
    <3>2. queue' \in [Prompts -> Seq(Events)]
      BY <2>15, <3>1 DEF AgentEnds
    <3>. QED
      BY <2>15, <3>2 DEF AgentEnds
  <2>. QED
    BY <1>4, <2>1, <2>2, <2>3, <2>4, <2>5, <2>6, <2>7, <2>8, <2>9, <2>10, <2>11,
       <2>12, <2>13, <2>14, <2>15 DEF Task, Agent
<1>. QED
  BY <1>1, <1>2, <1>3, <1>4, Steps

\* Every variable keeps its type, whatever the editor and the agent do.
THEOREM TypeCorrect == Spec => []TypeOK
<1>1. Init => TypeOK
  BY TypeInit
<1>2. TypeOK /\ [Next]_vars => TypeOK'
  BY TypeNext
<1>. QED
  BY <1>1, <1>2, PTL DEF Spec

----------------------------------------------------------------------------
\* The inductive invariant: why the properties hold

\* Two armed prompts of one session know of each other.
OverlapSeen ==
  \A p, q \in Armed : p # q /\ SessionOf[p] = SessionOf[q] => p \in overlapped

\* A prompt that never overlapped another still has its session's handle.
AloneKeepsHandle ==
  \A p \in Armed : p \notin overlapped => handles[SessionOf[p]] = p

\* The signal of a cancel is kept until the prompt decides; only armed prompts hear.
SignalKept ==
  \A p \in heard :
    /\ pc[p] \notin {"unread", "spawned"}
    /\ p \in Undecided => p \in permit

SignalsAsked == permit \subseteq asked

Early == {p \in Prompts : pc[p] \in {"unread", "spawned"}} \cup Undecided

\* No answer is decided on before the stream is left.
EarlyHasNone == \A p \in Early : outcome[p] = "none"

IInv == /\ OnlyLiveHandles
        /\ OverlapSeen
        /\ AloneKeepsHandle
        /\ SignalKept
        /\ SignalsAsked
        /\ EarlyHasNone
        /\ CancelHeeded
        /\ CancelledForCause

\* No prompt is armed or signalled at the start.
LEMMA IInvInit == Init => IInv
  BY DEF Init, IInv, OnlyLiveHandles, OverlapSeen, AloneKeepsHandle, SignalKept, SignalsAsked,
         EarlyHasNone, Early, CancelHeeded, CancelledForCause, Armed, Undecided

\* A step that leaves the set of armed prompts and what is said of it alone.
LEMMA HandlesQuiet ==
  ASSUME IInv, Armed' = Armed, UNCHANGED <<handles, overlapped>>
  PROVE  (OnlyLiveHandles /\ OverlapSeen /\ AloneKeepsHandle)'
  BY DEF IInv, OnlyLiveHandles, OverlapSeen, AloneKeepsHandle

\* A prompt that leaves the armed ones takes its session's handle away: whoever
\* was there with it has overlapped.
LEMMA HandlesDisarm ==
  ASSUME TypeOK, IInv, NEW p \in Prompts, p \in Armed,
         handles' = [handles EXCEPT ![SessionOf[p]] = NoPrompt],
         Armed' = Armed \ {p}, UNCHANGED overlapped
  PROVE  (OnlyLiveHandles /\ OverlapSeen /\ AloneKeepsHandle)'
<1>1. OnlyLiveHandles'
  BY SessionAssumption DEF TypeOK, IInv, OnlyLiveHandles
<1>2. OverlapSeen'
  BY DEF IInv, OverlapSeen
<1>3. ASSUME NEW q \in Armed', q \notin overlapped' PROVE handles'[SessionOf[q]] = q
  <2>1. q \in Armed /\ q # p /\ q \in Prompts
    BY <1>3 DEF Armed, Undecided
  <2>2. SessionOf[q] # SessionOf[p]
    BY <1>3, <2>1 DEF IInv, OverlapSeen
  <2>. QED
    BY <1>3, <2>1, <2>2, SessionAssumption DEF TypeOK, IInv, AloneKeepsHandle
<1>. QED
  BY <1>1, <1>2, <1>3 DEF AloneKeepsHandle

\* A prompt that becomes armed takes the handle; the others of its session, and it
\* itself if there are any, have overlapped from then on.
LEMMA HandlesArm ==
  ASSUME TypeOK, IInv, NEW p \in Prompts, Arm(p)
  PROVE  (OnlyLiveHandles /\ OverlapSeen /\ AloneKeepsHandle)'
<1>. DEFINE others == (Of(SessionOf[p]) \cap Armed) \ {p}
<1>1. Armed' = Armed \cup {p}
  BY DEF Arm, To, Armed, Undecided, TypeOK
<1>2. /\ handles' = [handles EXCEPT ![SessionOf[p]] = p]
      /\ overlapped' = overlapped \cup others \cup {q \in {p} : others # {}}
  BY DEF Arm
<1>3. \A q \in Armed : q \in Prompts
  BY DEF Armed, Undecided
<1>4. \A q \in Armed : q # p /\ SessionOf[q] = SessionOf[p] => q \in others
  BY <1>3 DEF Of
<1>. HIDE DEF others
<1>5. OnlyLiveHandles'
  BY <1>1, <1>2, SessionAssumption DEF TypeOK, IInv, OnlyLiveHandles
<1>6. OverlapSeen'
  <2>. SUFFICES ASSUME NEW q \in Armed', NEW r \in Armed', q # r, SessionOf[q] = SessionOf[r]
                PROVE  q \in overlapped'
    BY DEF OverlapSeen
  <2>1. CASE q = p
    <3>1. r \in others
      BY <1>1, <1>4, <2>1
    <3>. QED
      BY <3>1, <2>1, <1>2
  <2>2. CASE r = p
    <3>1. q \in others
      BY <1>1, <1>4, <2>2
    <3>. QED
      BY <3>1, <1>2
  <2>3. CASE q # p /\ r # p
    BY <2>3, <1>1, <1>2 DEF IInv, OverlapSeen
  <2>. QED
    BY <2>1, <2>2, <2>3
<1>7. ASSUME NEW q \in Armed', q \notin overlapped' PROVE handles'[SessionOf[q]] = q
  <2>1. CASE q = p
    BY <2>1, <1>2, SessionAssumption DEF TypeOK
  <2>2. CASE q # p
    <3>1. q \in Armed /\ q \notin overlapped /\ q \notin others
      BY <1>7, <2>2, <1>1, <1>2
    <3>2. SessionOf[q] # SessionOf[p]
      BY <3>1, <2>2, <1>4
    <3>. QED
      BY <3>1, <3>2, <1>2, <1>3, SessionAssumption DEF TypeOK, IInv, AloneKeepsHandle
  <2>. QED
    BY <2>1, <2>2
<1>. QED
  BY <1>5, <1>6, <1>7 DEF AloneKeepsHandle

\* What signals promise is left alone by a step that stores none, hears none and
\* lets no prompt decide.
Signals == SignalKept /\ SignalsAsked /\ EarlyHasNone /\ CancelHeeded /\ CancelledForCause

\* A step of p that changes neither permits nor what was heard, and does not start
\* p, after which p has not decided that its turn ended by itself.
LEMMA SignalsQuiet ==
  ASSUME TypeOK, IInv, NEW p \in Prompts, NEW phase \in Phases, To(p, phase),
         phase \notin {"unread"}, phase = "spawned" => pc[p] = "unread",
         phase = "submitting" => pc[p] = "spawned",
         phase \in {"streaming", "writing"} => p \in Undecided,
         UNCHANGED <<outcome, permit, asked, heard>>
  PROVE  Signals'
<1>1. ASSUME NEW q \in heard
      PROVE  /\ pc'[q] \notin {"unread", "spawned"}
             /\ q \in Undecided' => q \in Undecided
  <2>1. q \in Prompts
    BY DEF TypeOK
  <2>2. CASE q = p
    BY <2>1, <2>2 DEF TypeOK, IInv, SignalKept, To, Undecided
  <2>3. CASE q # p
    BY <2>1, <2>3 DEF TypeOK, IInv, SignalKept, To, Undecided
  <2>. QED
    BY <2>2, <2>3
<1>2. Early' \subseteq Early
  BY DEF TypeOK, Phases, To, Early, Undecided
<1>3. EarlyHasNone'
  BY <1>2 DEF IInv, EarlyHasNone
<1>. QED
  BY <1>1, <1>3 DEF IInv, Signals, SignalKept, SignalsAsked, CancelHeeded, CancelledForCause

\* The decision of p: not "end_turn" if p has heard a cancel, and "cancelled" only
\* if one was asked for.
LEMMA SignalsDecide ==
  ASSUME TypeOK, IInv, NEW p \in Prompts, NEW result \in Outcomes,
         NEW phase \in {"ended", "answering"}, To(p, phase), Decides(p, result),
         permit' = permit \/ permit' = permit \ {p}, UNCHANGED <<asked, heard>>,
         p \in heard => result \in {"cancelled", "error"},
         result = "cancelled" => p \in asked
  PROVE  Signals'
<1>1. ASSUME NEW q \in heard
      PROVE  /\ pc'[q] \notin {"unread", "spawned"}
             /\ q \in Undecided' => q \in Undecided /\ q # p
             /\ outcome'[q] \in {"none", "cancelled", "error"}
  <2>1. q \in Prompts
    BY DEF TypeOK
  <2>2. CASE q = p
    BY <2>1, <2>2 DEF TypeOK, IInv, SignalKept, To, Decides, Undecided
  <2>3. CASE q # p
    BY <2>1, <2>3 DEF TypeOK, IInv, SignalKept, CancelHeeded, To, Decides, Undecided
  <2>. QED
    BY <2>2, <2>3
<1>2. SignalKept'
  BY <1>1 DEF IInv, SignalKept
<1>3. SignalsAsked'
  BY DEF IInv, SignalsAsked
<1>4. CancelHeeded'
  BY <1>1 DEF CancelHeeded
<1>5. CancelledForCause'
  BY DEF TypeOK, IInv, CancelledForCause, Decides
<1>6. Early' \subseteq Early \ {p}
  BY DEF TypeOK, To, Early, Undecided
<1>7. EarlyHasNone'
  BY <1>6 DEF TypeOK, IInv, EarlyHasNone, Decides, Early, Undecided
<1>. QED
  BY <1>2, <1>3, <1>4, <1>5, <1>7 DEF Signals

\* A prompt that removes its handle takes its own signal with it; it has decided.
LEMMA SignalsFinish ==
  ASSUME TypeOK, IInv, NEW p \in Prompts, Finish(p)
  PROVE  Signals'
<1>1. ASSUME NEW q \in heard
      PROVE  /\ pc'[q] \notin {"unread", "spawned"}
             /\ q \in Undecided' => q \in Undecided /\ q # p
  <2>1. q \in Prompts
    BY DEF TypeOK
  <2>. QED
    BY <2>1 DEF TypeOK, IInv, SignalKept, Finish, To, Undecided
<1>2. Early' \subseteq Early
  BY DEF TypeOK, Finish, To, Early, Undecided
<1>3. EarlyHasNone'
  BY <1>2 DEF IInv, EarlyHasNone, Finish
<1>. QED
  BY <1>1, <1>3 DEF IInv, Signals, SignalKept, SignalsAsked, CancelHeeded, CancelledForCause,
              Finish, Disarm, history

\* A cancel signals the handle of its session, which belongs to an armed prompt of
\* the session, and to the only one if there is but one.
LEMMA SignalsCancel ==
  ASSUME TypeOK, IInv, NEW s \in Sessions, ReadCancel(s)
  PROVE  Signals'
<1>1. /\ permit' = permit \cup Signalled(s)
      /\ asked' = asked \cup (Of(s) \cap Armed)
      /\ heard' = heard \cup ((Of(s) \cap Undecided) \ overlapped)
      /\ UNCHANGED <<pc, outcome>>
  BY DEF ReadCancel
<1>2. Undecided' = Undecided
  BY <1>1 DEF Undecided
<1>3. Signalled(s) \subseteq Of(s) \cap Armed
  BY DEF IInv, OnlyLiveHandles, Signalled, Of, Armed, Undecided
<1>4. ASSUME NEW q \in (Of(s) \cap Undecided) \ overlapped
      PROVE  q \in permit' /\ pc[q] \notin {"unread", "spawned"} /\ outcome[q] # "end_turn"
  <2>1. q \in Prompts /\ q \in Armed /\ SessionOf[q] = s
    BY DEF Of, Armed
  <2>2. handles[s] = q
    BY <2>1 DEF IInv, AloneKeepsHandle
  <2>3. q \in permit'
    BY <2>1, <2>2, <1>1, NoPromptAssumption DEF Signalled
  <2>4. pc[q] \notin {"unread", "spawned"}
    BY DEF Undecided
  <2>5. outcome[q] # "end_turn"
    BY DEF IInv, Early, EarlyHasNone
  <2>. QED
    BY <2>3, <2>4, <2>5
<1>5. SignalKept'
  BY <1>1, <1>2, <1>4 DEF IInv, SignalKept
<1>6. SignalsAsked'
  BY <1>1, <1>3 DEF IInv, SignalsAsked
<1>7. CancelHeeded'
  BY <1>1, <1>4 DEF TypeOK, IInv, CancelHeeded, Outcomes, Of
<1>8. CancelledForCause'
  BY <1>1 DEF IInv, CancelledForCause
<1>9. EarlyHasNone'
  BY <1>1 DEF IInv, EarlyHasNone, Early, Undecided
<1>. QED
  BY <1>5, <1>6, <1>7, <1>8, <1>9 DEF Signals

----------------------------------------------------------------------------
\* Every step preserves the invariant.
LEMMA IInvNext == TypeOK /\ IInv /\ [Next]_vars => IInv'
<1>. SUFFICES ASSUME TypeOK, IInv, [Next]_vars
              PROVE  (OnlyLiveHandles /\ OverlapSeen /\ AloneKeepsHandle)' /\ Signals'
  BY DEF IInv, Signals
<1>. DEFINE Handles == OnlyLiveHandles /\ OverlapSeen /\ AloneKeepsHandle
            Kept == UNCHANGED <<pc, outcome, handles, permit, overlapped, asked, heard>>
\* Steps that touch none of it.
<1>1. ASSUME Kept PROVE Handles' /\ Signals'
  BY <1>1 DEF IInv, Signals, OnlyLiveHandles, OverlapSeen, AloneKeepsHandle, SignalKept,
              SignalsAsked, EarlyHasNone, Early, CancelHeeded, CancelledForCause, Armed, Undecided
<1>2. CASE UNCHANGED vars \/ Eof
  <2>1. Kept
    BY <1>2 DEF vars, Eof, history
  <2>. QED
    BY <2>1, <1>1
<1>3. ASSUME NEW s \in Sessions, ReadCancel(s) PROVE Handles' /\ Signals'
  <2>1. Armed' = Armed
    BY <1>3 DEF ReadCancel, Armed, Undecided
  <2>. QED
    BY <1>3, <2>1, HandlesQuiet, SignalsCancel DEF ReadCancel
<1>4. ASSUME NEW p \in Prompts, ReadPrompt(p) \/ Task(p) \/ Agent(p)
      PROVE  Handles' /\ Signals'
  <2>1. CASE ReadPrompt(p)
    <3>1. Armed' = Armed
      BY <2>1 DEF TypeOK, ReadPrompt, To, Armed, Undecided
    <3>2. Handles'
      BY <2>1, <3>1, HandlesQuiet DEF ReadPrompt, history
    <3>3. Signals'
      BY <2>1, SignalsQuiet DEF ReadPrompt, history, Phases
    <3>. QED
      BY <3>2, <3>3
  <2>2. CASE Reject(p)
    <3>1. Armed' = Armed
      BY <2>2 DEF TypeOK, Reject, To, Armed, Undecided
    <3>2. Handles'
      BY <2>2, <3>1, HandlesQuiet DEF Reject, history
    <3>3. Signals'
      BY <2>2, SignalsDecide DEF Reject, history, Outcomes
    <3>. QED
      BY <3>2, <3>3
  <2>3. CASE Arm(p)
    <3>1. Signals'
      BY <2>3, SignalsQuiet DEF Arm, Phases
    <3>. QED
      BY <2>3, <3>1, HandlesArm
  <2>4. CASE Submitted(p)
    <3>1. Armed' = Armed
      BY <2>4 DEF TypeOK, Submitted, To, Armed, Undecided
    <3>2. Handles'
      BY <2>4, <3>1, HandlesQuiet DEF Submitted, history
    <3>3. Signals'
      BY <2>4, SignalsQuiet DEF Submitted, history, Phases, Undecided
    <3>. QED
      BY <3>2, <3>3
  <2>5. CASE SubmitFails(p)
    <3>1. p \in Armed /\ Armed' = Armed \ {p}
      BY <2>5 DEF TypeOK, SubmitFails, To, Armed, Undecided
    <3>2. Handles'
      BY <2>5, <3>1, HandlesDisarm DEF SubmitFails, Disarm, history
    <3>3. Signals'
      BY <2>5, SignalsDecide DEF SubmitFails, Disarm, history, Outcomes
    <3>. QED
      BY <3>2, <3>3
  <2>6. CASE Cancelled(p)
    <3>1. Armed' = Armed
      BY <2>6 DEF TypeOK, Cancelled, Leaves, To, Armed, Undecided
    <3>2. Handles'
      BY <2>6, <3>1, HandlesQuiet DEF Cancelled, history
    <3>3. p \in asked
      BY <2>6 DEF Cancelled, IInv, SignalsAsked
    <3>4. Signals'
      BY <2>6, <3>3, SignalsDecide DEF Cancelled, Leaves, history, Outcomes
    <3>. QED
      BY <3>2, <3>4
  <2>7. CASE TakeUpdate(p)
    <3>1. Armed' = Armed
      BY <2>7 DEF TypeOK, TakeUpdate, Takes, Listens, To, Armed, Undecided
    <3>2. Handles'
      BY <2>7, <3>1, HandlesQuiet DEF TakeUpdate, history
    <3>3. Signals'
      BY <2>7, SignalsQuiet DEF TakeUpdate, Takes, Listens, history, Phases, Undecided
    <3>. QED
      BY <3>2, <3>3
  <2>8. CASE UpdateWritten(p)
    <3>1. Armed' = Armed
      BY <2>8 DEF TypeOK, UpdateWritten, To, Armed, Undecided
    <3>2. Handles'
      BY <2>8, <3>1, HandlesQuiet DEF UpdateWritten, history
    <3>3. Signals'
      BY <2>8, SignalsQuiet DEF UpdateWritten, history, Phases, Undecided
    <3>. QED
      BY <3>2, <3>3
  <2>9. CASE TakeSilent(p) \/ Emit(p) \/ AgentEnds(p)
    <3>1. Kept
      BY <2>9 DEF TakeSilent, Emit, AgentEnds, history
    <3>. QED
      BY <3>1, <1>1
  <2>10. CASE TakeFailure(p)
    <3>1. Armed' = Armed
      BY <2>10 DEF TypeOK, TakeFailure, Takes, Listens, Leaves, To, Armed, Undecided
    <3>2. Handles'
      BY <2>10, <3>1, HandlesQuiet DEF TakeFailure, history
    <3>3. Signals'
      BY <2>10, SignalsDecide DEF TakeFailure, Leaves, history, Outcomes
    <3>. QED
      BY <3>2, <3>3
  <2>11. CASE StreamOver(p)
    <3>1. Armed' = Armed
      BY <2>11 DEF TypeOK, StreamOver, Listens, Leaves, To, Armed, Undecided
    <3>2. Handles'
      BY <2>11, <3>1, HandlesQuiet DEF StreamOver, Listens, history
    \* Nothing was signalled, so nothing was heard.
    <3>3. p \notin heard
      BY <2>11 DEF StreamOver, Listens, IInv, SignalKept, Undecided
    <3>4. Signals'
      BY <2>11, <3>3, SignalsDecide DEF StreamOver, Listens, Leaves, history, Outcomes
    <3>. QED
      BY <3>2, <3>4
  <2>12. CASE Finish(p)
    <3>1. p \in Armed /\ Armed' = Armed \ {p}
      BY <2>12 DEF TypeOK, Finish, To, Armed, Undecided
    <3>2. Handles'
      BY <2>12, <3>1, HandlesDisarm DEF Finish, Disarm, history
    <3>. QED
      BY <3>2, <2>12, SignalsFinish
  <2>13. CASE Answer(p)
    <3>1. Armed' = Armed
      BY <2>13 DEF TypeOK, Answer, To, Armed, Undecided
    <3>2. Handles'
      BY <2>13, <3>1, HandlesQuiet DEF Answer, history
    <3>3. Signals'
      BY <2>13, SignalsQuiet DEF Answer, history, Phases
    <3>. QED
      BY <3>2, <3>3
  <2>. QED
    BY <1>4, <2>1, <2>2, <2>3, <2>4, <2>5, <2>6, <2>7, <2>8, <2>9, <2>10, <2>11,
       <2>12, <2>13 DEF Task, Agent
<1>. QED
  BY <1>2, <1>3, <1>4, Steps

\* The inductive invariant holds in every reachable state.
THEOREM PromptInvariant == Spec => [](TypeOK /\ IInv)
<1>1. Init => TypeOK /\ IInv
  BY TypeInit, IInvInit
<1>2. TypeOK /\ IInv /\ [Next]_vars => TypeOK' /\ IInv'
  BY TypeNext, IInvNext
<1>. QED
  BY <1>1, <1>2, PTL DEF Spec

\* The map of handles holds prompts in flight and no others.
THEOREM OnlyLiveHandlesAlways == Spec => []OnlyLiveHandles
<1>1. TypeOK /\ IInv => OnlyLiveHandles
  BY DEF IInv
<1>. QED
  BY <1>1, PromptInvariant, PTL

\* A cancel read while its session's only prompt is armed stops that prompt.
THEOREM CancelHeededAlways == Spec => []CancelHeeded
<1>1. TypeOK /\ IInv => CancelHeeded
  BY DEF IInv
<1>. QED
  BY <1>1, PromptInvariant, PTL

\* No prompt is cancelled by a cancel that came before it or for another session.
THEOREM CancelledForCauseAlways == Spec => []CancelledForCause
<1>1. TypeOK /\ IInv => CancelledForCause
  BY DEF IInv
<1>. QED
  BY <1>1, PromptInvariant, PTL

=============================================================================
