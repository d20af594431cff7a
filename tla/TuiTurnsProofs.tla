--------------------------- MODULE TuiTurnsProofs ---------------------------
(***************************************************************************)
(* Theorems about TuiTurns for any number of turns, tools and capacities.  *)
(***************************************************************************)
EXTENDS TuiTurns, TLAPS

\* Every step, by the action it is and the turn it is of.
LEMMA Steps ==
  ASSUME [Next]_vars
  PROVE  \/ UNCHANGED vars
         \/ Submit \/ CancelTurn \/ TurnMsg \/ RecvPermit
         \/ \E answer \in {"once", "always", "deny"} : PermitKey(answer)
         \/ \E t \in Turns : Submitted(t) \/ SubmitFails(t) \/ Forward(t) \/ Finished(t)
         \/ \E t \in All : Loop(t)
  BY DEF Next, Keys, Task

----------------------------------------------------------------------------
\* Type correctness

LEMMA HeadTail ==
  ASSUME NEW S, NEW s \in Seq(S), s # <<>>
  PROVE  Head(s) \in S /\ Tail(s) \in Seq(S)
  OBVIOUS

LEMMA AppendIn ==
  ASSUME NEW S, NEW s \in Seq(S), NEW e \in S
  PROVE  Append(s, e) \in Seq(S)
  OBVIOUS

\* A turn that runs has been submitted, and a call under review has a name: what
\* the types of cancelled and always rest on.
RunningIsLatest == running => latest \in Turns
CallNamed == \A t \in All : loop[t] \in {"asking", "waiting", "tool"} => call[t] \in Names

TypeInv == TypeOK /\ RunningIsLatest /\ CallNamed

LEMMA TypeInit == Init => TypeInv
<1>. SUFFICES ASSUME Init PROVE TypeInv
  OBVIOUS
<1>1. turn_rx \in Seq(Turns \X Kinds) /\ permits \in Seq(All)
  BY DEF Init
<1>2. stream \in [Turns -> Seq(Kinds)]
  BY DEF Init
<1>3. left \in [All -> Nat]
  BY TuiAssumption DEF Init
<1>4. loop \in [All -> {"off", "on", "asking", "waiting", "tool", "over"}]
  BY DEF Init
<1>5. RunningIsLatest /\ CallNamed
  BY DEF Init, RunningIsLatest, CallNamed
<1>. QED
  BY <1>1, <1>2, <1>3, <1>4, <1>5 DEF Init, TypeInv, TypeOK

LEMMA EmittedType ==
  ASSUME TypeOK, NEW t \in All, NEW kind \in Kinds, Emitted(t, kind)
  PROVE  stream' \in [Turns -> Seq(Kinds)]
<1>1. CASE Listened(t)
  <2>1. t \in Turns /\ stream[t] \in Seq(Kinds)
    BY <1>1 DEF Listened, TypeOK
  <2>2. Append(stream[t], kind) \in Seq(Kinds)
    BY <2>1, AppendIn
  <2>. QED
    BY <1>1, <2>1, <2>2 DEF Emitted, TypeOK
<1>2. CASE ~Listened(t)
  BY <1>2 DEF Emitted, TypeOK
<1>. QED
  BY <1>1, <1>2

LEMMA SendType ==
  ASSUME TypeOK, NEW t \in Turns, NEW kind \in Kinds, Send(t, kind)
  PROVE  turn_rx' \in Seq(Turns \X Kinds)
  BY AppendIn DEF TypeOK, Send

\* Every action keeps the types.
LEMMA TypeNext == TypeInv /\ [Next]_vars => TypeInv'
<1>. SUFFICES ASSUME TypeInv, [Next]_vars PROVE TypeInv'
  OBVIOUS
<1>. USE TuiAssumption DEF TypeInv, TypeOK, RunningIsLatest, CallNamed, app, tasks, agent, observers
<1>1. CASE UNCHANGED vars
  BY <1>1 DEF vars
<1>2. CASE Submit
  BY <1>2 DEF Submit
<1>3. CASE CancelTurn
  <2>1. reply' \in [All -> {"none", "once", "always", "deny"}]
    BY <1>3 DEF CancelTurn
  <2>2. task' \in [Turns -> {"none", "submitting", "streaming", "ending", "done", "aborted"}]
    BY <1>3 DEF CancelTurn
  <2>3. stream' \in [Turns -> Seq(Kinds)]
    BY <1>3 DEF CancelTurn
  <2>4. pending_permit' \in All \cup {None} /\ turn_gen' \in Nat
    BY <1>3 DEF CancelTurn
  <2>5. cancelled' \subseteq Turns
    BY <1>3 DEF CancelTurn
  <2>. QED
    BY <1>3, <2>1, <2>2, <2>3, <2>4, <2>5 DEF CancelTurn
<1>4. CASE TurnMsg
  BY <1>4, HeadTail DEF TurnMsg
<1>5. CASE RecvPermit
  BY <1>5, HeadTail DEF RecvPermit
<1>6. ASSUME NEW answer \in {"once", "always", "deny"}, PermitKey(answer) PROVE TypeInv'
  BY <1>6 DEF PermitKey
<1>7. ASSUME NEW t \in Turns, Submitted(t) \/ SubmitFails(t) \/ Forward(t) \/ Finished(t)
      PROVE  TypeInv'
  <2>1. CASE Submitted(t)
    BY <1>7, <2>1 DEF Submitted, All
  <2>2. CASE SubmitFails(t)
    BY <1>7, <2>2, SendType DEF SubmitFails, Kinds
  <2>3. CASE Forward(t)
    BY <1>7, <2>3, SendType, HeadTail DEF Forward
  <2>4. CASE Finished(t)
    BY <1>7, <2>4, SendType DEF Finished, Kinds
  <2>. QED
    BY <1>7, <2>1, <2>2, <2>3, <2>4
<1>8. ASSUME NEW t \in All, Loop(t) PROVE TypeInv'
  <2>1. CASE Emit(t)
    BY <1>8, <2>1, EmittedType DEF Emit, Kinds
  <2>2. ASSUME NEW name \in Names, Review(t, name) PROVE TypeInv'
    BY <1>8, <2>2 DEF Review
  <2>3. CASE Ask(t)
    BY <1>8, <2>3, AppendIn DEF Ask
  <2>4. CASE Answered(t)
    BY <1>8, <2>4 DEF Answered
  <2>5. CASE ToolReturns(t)
    BY <1>8, <2>5 DEF ToolReturns
  <2>6. ASSUME NEW failed \in BOOLEAN, LoopEnds(t, failed) PROVE TypeInv'
    BY <1>8, <2>6, EmittedType DEF LoopEnds, Kinds
  <2>. QED
    BY <1>8, <2>1, <2>2, <2>3, <2>4, <2>5, <2>6 DEF Loop
<1>. QED
  BY <1>1, <1>2, <1>3, <1>4, <1>5, <1>6, <1>7, <1>8, Steps

----------------------------------------------------------------------------
\* Why the screen is current: the inductive invariant of the generations

\* No turn is of a generation to come; of this one, only the turn submitted last
\* is, and not once it was cancelled.
GenerationsInOrder ==
  /\ \A t \in Turns : gen[t] <= turn_gen
  /\ \A t \in Turns : task[t] # "none" /\ Drawn(t) => t = latest /\ t \notin cancelled

\* What has not been submitted has no task, has not been cancelled and sends nothing.
NotYet ==
  /\ \A t \in Turns : t > latest => task[t] = "none"
  /\ \A t \in cancelled : t <= latest
  /\ \A i \in DOMAIN turn_rx : task[turn_rx[i][1]] # "none"

ScreenInv == TypeInv /\ GenerationsInOrder /\ NotYet

\* Sending adds a message of a turn that has a task.
LEMMA SentByTask ==
  ASSUME ScreenInv, NEW t \in Turns, NEW kind, Send(t, kind), task[t] # "none",
         task' \in [Turns -> {"none", "submitting", "streaming", "ending", "done", "aborted"}],
         \A u \in Turns : task[u] # "none" => task'[u] # "none"
  PROVE  \A i \in DOMAIN turn_rx' : task'[turn_rx'[i][1]] # "none"
<1>. SUFFICES ASSUME NEW i \in DOMAIN turn_rx' PROVE task'[turn_rx'[i][1]] # "none"
  OBVIOUS
<1>1. turn_rx \in Seq(Turns \X Kinds)
  BY DEF ScreenInv, TypeInv, TypeOK
<1>2. CASE i = Len(turn_rx) + 1
  BY <1>1, <1>2 DEF Send
<1>3. CASE i # Len(turn_rx) + 1
  <2>1. i \in DOMAIN turn_rx /\ turn_rx'[i] = turn_rx[i]
    BY <1>1, <1>3 DEF Send
  <2>2. turn_rx[i][1] \in Turns
    BY <1>1, <2>1
  <2>. QED
    BY <2>1, <2>2 DEF ScreenInv, NotYet
<1>. QED
  BY <1>2, <1>3

LEMMA ScreenInit == Init => ScreenInv
  BY TypeInit DEF Init, ScreenInv, GenerationsInOrder, NotYet, Turns, Drawn

\* What the other steps do with the channel, which is to take from it or leave it.
LEMMA ScreenUntouched ==
  ASSUME ScreenInv, TypeInv', UNCHANGED turn_gen, UNCHANGED latest, UNCHANGED task,
         UNCHANGED gen, UNCHANGED cancelled,
         turn_rx' # turn_rx => turn_rx # <<>> /\ turn_rx' = Tail(turn_rx)
  PROVE  ScreenInv'
<1>. USE DEF ScreenInv
<1>1. GenerationsInOrder'
  BY DEF GenerationsInOrder, Drawn
<1>2. turn_rx \in Seq(Turns \X Kinds)
  BY DEF TypeInv, TypeOK
<1>3. \A i \in DOMAIN turn_rx' : \E k \in DOMAIN turn_rx : turn_rx'[i] = turn_rx[k]
  <2>1. CASE turn_rx' = turn_rx
    BY <2>1
  <2>2. CASE turn_rx # <<>> /\ turn_rx' = Tail(turn_rx)
    BY <1>2, <2>2
  <2>. QED
    BY <2>1, <2>2
<1>4. NotYet'
  BY <1>3 DEF NotYet
<1>. QED
  BY <1>1, <1>4

LEMMA ScreenNext == ScreenInv /\ [Next]_vars => ScreenInv'
<1>. SUFFICES ASSUME ScreenInv, [Next]_vars PROVE ScreenInv'
  OBVIOUS
<1>1. TypeInv /\ TypeInv'
  BY TypeNext DEF ScreenInv
<1>. USE <1>1 DEF ScreenInv, app, tasks, agent, observers
<1>3. CASE UNCHANGED vars
  BY <1>3, ScreenUntouched DEF vars
<1>4. CASE Submit
  <2>. USE <1>4 DEF Submit
  <2>1. \A t \in Turns : gen'[t] <= turn_gen'
    BY DEF GenerationsInOrder, TypeInv, TypeOK
  <2>2. \A t \in Turns : Drawn(t)' => t = latest + 1
    BY DEF GenerationsInOrder, TypeInv, TypeOK, Drawn
  <2>3. latest + 1 \notin cancelled
    BY DEF NotYet, TypeInv, TypeOK, Turns
  <2>4. GenerationsInOrder'
    BY <2>1, <2>2, <2>3 DEF GenerationsInOrder
  <2>5. NotYet'
    BY DEF NotYet, TypeInv, TypeOK, Turns
  <2>. QED
    BY <2>4, <2>5
<1>5. CASE CancelTurn
  <2>. USE <1>5 DEF CancelTurn
  <2>1. GenerationsInOrder'
    BY DEF GenerationsInOrder, TypeInv, TypeOK, Drawn
  <2>2. \A t \in Turns : task'[t] # task[t] => t = latest /\ task'[t] # "none"
    BY DEF TypeInv, TypeOK
  <2>3. NotYet'
    BY <2>2 DEF NotYet, TypeInv, TypeOK, RunningIsLatest, Turns
  <2>. QED
    BY <2>1, <2>3
<1>6. CASE TurnMsg
  BY <1>6, ScreenUntouched DEF TurnMsg
<1>7. CASE RecvPermit
  BY <1>7, ScreenUntouched DEF RecvPermit
<1>8. ASSUME NEW answer \in {"once", "always", "deny"}, PermitKey(answer) PROVE ScreenInv'
  BY <1>8, ScreenUntouched DEF PermitKey
<1>9. ASSUME NEW t \in Turns, Submitted(t) \/ SubmitFails(t) \/ Forward(t) \/ Finished(t)
      PROVE  ScreenInv'
  <2>1. /\ task[t] # "none" /\ \A u \in Turns : task[u] # "none" <=> task'[u] # "none"
        /\ UNCHANGED <<turn_gen, latest, gen, cancelled>>
    BY <1>9 DEF Submitted, SubmitFails, Forward, Finished, TypeInv, TypeOK
  <2>2. GenerationsInOrder'
    BY <2>1 DEF GenerationsInOrder, Drawn
  <2>3. \A i \in DOMAIN turn_rx' : task'[turn_rx'[i][1]] # "none"
    <3>1. CASE turn_rx' = turn_rx
      BY <2>1, <3>1 DEF NotYet, TypeInv, TypeOK
    <3>2. CASE \E kind : Send(t, kind)
      BY <2>1, <3>2, SentByTask DEF TypeInv, TypeOK
    <3>. QED
      BY <1>9, <3>1, <3>2 DEF Submitted, SubmitFails, Forward, Finished
  <2>4. NotYet'
    BY <2>1, <2>3 DEF NotYet
  <2>. QED
    BY <2>2, <2>4
<1>10. ASSUME NEW t \in All, Loop(t) PROVE ScreenInv'
  <2>1. UNCHANGED <<app, tasks, turn_rx, cancelled>>
    BY <1>10 DEF Loop, Emit, Review, Ask, Answered, ToolReturns, LoopEnds
  <2>. QED
    BY <2>1, ScreenUntouched
<1>. QED
  BY <1>3, <1>4, <1>5, <1>6, <1>7, <1>8, <1>9, <1>10, Steps

----------------------------------------------------------------------------
\* A turn's loop is spawned once: until its submit has returned, it is off.

NotSpawned == \A t \in Turns : task[t] \in {"none", "submitting"} => loop[t] = "off"

SpawnInv == ScreenInv /\ NotSpawned

LEMMA SpawnInit == Init => SpawnInv
  BY ScreenInit, TuiAssumption DEF Init, SpawnInv, NotSpawned, All

LEMMA SpawnNext == SpawnInv /\ [Next]_vars => SpawnInv'
<1>. SUFFICES ASSUME SpawnInv, [Next]_vars PROVE SpawnInv'
  OBVIOUS
<1>1. TypeInv /\ ScreenInv /\ ScreenInv'
  BY ScreenNext DEF SpawnInv, ScreenInv
<1>. USE <1>1 DEF SpawnInv, NotSpawned, TypeInv, TypeOK, app, tasks, agent, observers
<1>2. CASE UNCHANGED vars
  BY <1>2 DEF vars
<1>3. CASE Submit
  <2>1. task[latest + 1] = "none"
    BY <1>3 DEF Submit, ScreenInv, NotYet, Turns
  <2>. QED
    BY <1>3, <2>1 DEF Submit
<1>4. CASE CancelTurn
  BY <1>4 DEF CancelTurn
<1>5. CASE TurnMsg
  BY <1>5 DEF TurnMsg
<1>6. CASE RecvPermit
  BY <1>6 DEF RecvPermit
<1>7. ASSUME NEW answer \in {"once", "always", "deny"}, PermitKey(answer) PROVE SpawnInv'
  BY <1>7 DEF PermitKey
<1>8. ASSUME NEW t \in Turns, Submitted(t) \/ SubmitFails(t) \/ Forward(t) \/ Finished(t)
      PROVE  SpawnInv'
  <2>1. CASE Submitted(t)
    BY <2>1 DEF Submitted, All
  <2>2. CASE SubmitFails(t)
    BY <2>2 DEF SubmitFails
  <2>3. CASE Forward(t)
    BY <2>3 DEF Forward
  <2>4. CASE Finished(t)
    BY <2>4 DEF Finished
  <2>. QED
    BY <1>8, <2>1, <2>2, <2>3, <2>4
<1>9. ASSUME NEW t \in All, Loop(t) PROVE SpawnInv'
  <2>1. loop[t] # "off" /\ UNCHANGED task /\ \A u \in All : u # t => loop'[u] = loop[u]
    BY <1>9 DEF Loop, Emit, Review, Ask, Answered, ToolReturns, LoopEnds
  <2>. QED
    BY <2>1 DEF All
<1>. QED
  BY <1>2, <1>3, <1>4, <1>5, <1>6, <1>7, <1>8, <1>9, Steps

----------------------------------------------------------------------------
\* Why consent comes first: the inductive invariant of the requests

Open(t) == pending_permit = t \/ \E i \in DOMAIN permits : permits[i] = t

\* A request is in one place at most, and only while its turn waits for it: in the
\* channel, on the screen, or answered.
OnePlace ==
  /\ \A t \in All : reply[t] # "none" => loop[t] = "waiting"
  /\ \A t \in All : Open(t) => loop[t] = "waiting" /\ reply[t] = "none"
  /\ \A i, k \in DOMAIN permits : permits[i] = permits[k] => i = k
  /\ \A i \in DOMAIN permits : permits[i] # pending_permit

Yes(t) == reply[t] \in {"once", "always"}

\* A yes is one the user gave, and is of the call it was given for: it is forgotten
\* when that call is over.
YesIsMeant ==
  /\ \A t \in All : Yes(t) => t \in consent
  /\ \A t \in consent : loop[t] = "tool" \/ (loop[t] = "waiting" /\ Yes(t))

ConsentInv == SpawnInv /\ OnePlace /\ YesIsMeant /\ ConsentFirst

LEMMA ConsentInit == Init => ConsentInv
<1>. SUFFICES ASSUME Init PROVE ConsentInv
  OBVIOUS
<1>1. OnePlace /\ YesIsMeant
  BY TuiAssumption DEF Init, OnePlace, YesIsMeant, Open, Yes
<1>2. ConsentFirst
  BY DEF Init, ConsentFirst
<1>. QED
  BY <1>1, <1>2, SpawnInit DEF ConsentInv

\* A loop that neither waits for an answer nor runs a tool.
Calm(t) == loop[t] \notin {"waiting", "tool"}

\* Steps that touch no request.
LEMMA ConsentUntouched ==
  ASSUME ConsentInv, SpawnInv', UNCHANGED pending_permit, UNCHANGED permits, UNCHANGED reply,
         UNCHANGED consent, UNCHANGED call, UNCHANGED always,
         \A t \in All : loop'[t] = loop[t] \/ (Calm(t) /\ Calm(t)')
  PROVE  ConsentInv'
<1>. USE DEF ConsentInv, SpawnInv, ScreenInv
<1>1. \A t \in All : (loop'[t] = "waiting" <=> loop[t] = "waiting")
                      /\ (loop'[t] = "tool" <=> loop[t] = "tool")
  BY DEF Calm
<1>2. OnePlace'
  BY <1>1 DEF OnePlace, Open
<1>3. YesIsMeant'
  BY <1>1 DEF YesIsMeant, Yes, TypeInv, TypeOK
<1>4. ConsentFirst'
  BY <1>1 DEF ConsentFirst
<1>. QED
  BY <1>2, <1>3, <1>4

\* A request that is dropped is denied.
LEMMA Dropped ==
  ASSUME ConsentInv, SpawnInv',
         reply' = [t \in All |-> IF t = pending_permit THEN "deny" ELSE reply[t]],
         UNCHANGED loop, UNCHANGED call, UNCHANGED consent, UNCHANGED always, OnePlace'
  PROVE  ConsentInv'
<1>. USE DEF ConsentInv, SpawnInv, ScreenInv
<1>1. \A t \in All : Yes(t)' <=> Yes(t)
  BY DEF OnePlace, Open, Yes
<1>2. YesIsMeant'
  BY <1>1 DEF YesIsMeant, TypeInv, TypeOK
<1>3. ConsentFirst'
  BY DEF ConsentFirst
<1>. QED
  BY <1>2, <1>3

LEMMA ConsentNext == ConsentInv /\ [Next]_vars => ConsentInv'
<1>. SUFFICES ASSUME ConsentInv, [Next]_vars PROVE ConsentInv'
  OBVIOUS
<1>1. SpawnInv /\ SpawnInv' /\ TypeInv
  BY SpawnNext DEF ConsentInv, SpawnInv, ScreenInv
<1>. USE <1>1 DEF app, tasks, agent, observers
<1>2. CASE UNCHANGED vars
  BY <1>2, ConsentUntouched DEF vars
<1>3. CASE Submit
  BY <1>3, ConsentUntouched DEF Submit
<1>4. CASE CancelTurn
  <2>1. OnePlace'
    BY <1>4, TuiAssumption DEF CancelTurn, ConsentInv, OnePlace, Open, TypeInv, TypeOK
  <2>. QED
    BY <1>4, <2>1, Dropped DEF CancelTurn
<1>5. CASE TurnMsg
  BY <1>5, ConsentUntouched DEF TurnMsg
<1>6. CASE RecvPermit
  <2>. USE <1>6 DEF RecvPermit
  <2>1. permits \in Seq(All)
    BY DEF TypeInv, TypeOK
  <2>2. \A i \in DOMAIN permits' : i + 1 \in DOMAIN permits /\ permits'[i] = permits[i + 1]
    BY <2>1
  <2>3. 1 \in DOMAIN permits /\ pending_permit' = permits[1] /\ permits[1] \in All
    BY <2>1
  <2>4. DOMAIN permits \subseteq Nat /\ DOMAIN permits' \subseteq Nat \ {0}
    BY <2>1
  <2>5. \A t \in All : Open(t)' => Open(t) /\ t # pending_permit
    BY <2>2, <2>3 DEF ConsentInv, OnePlace, Open
  <2>6. \A t \in All : reply'[t] # "none" => loop'[t] = "waiting"
    BY DEF ConsentInv, OnePlace, Open
  <2>7. \A t \in All : Open(t)' => loop'[t] = "waiting" /\ reply'[t] = "none"
    BY <2>5 DEF ConsentInv, OnePlace
  <2>8. \A i, k \in DOMAIN permits' : permits'[i] = permits'[k] => i = k
    BY <2>2, <2>4 DEF ConsentInv, OnePlace
  <2>9. \A i \in DOMAIN permits' : permits'[i] # pending_permit'
    BY <2>2, <2>3, <2>4 DEF ConsentInv, OnePlace
  <2>10. OnePlace'
    BY <2>6, <2>7, <2>8, <2>9 DEF OnePlace
  <2>. QED
    BY <2>10, Dropped
<1>7. ASSUME NEW answer \in {"once", "always", "deny"}, PermitKey(answer) PROVE ConsentInv'
  <2>. USE <1>7 DEF PermitKey, ConsentInv
  <2>1. pending_permit \in All
    BY DEF TypeInv, TypeOK
  <2>2. loop[pending_permit] = "waiting" /\ reply[pending_permit] = "none"
    BY <2>1 DEF OnePlace, Open
  <2>3. OnePlace'
    BY <2>1, <2>2, TuiAssumption DEF OnePlace, Open, TypeInv, TypeOK
  <2>4. YesIsMeant'
    BY <2>1, <2>2 DEF YesIsMeant, Yes, TypeInv, TypeOK
  <2>5. ConsentFirst'
    BY <2>1 DEF ConsentFirst
  <2>. QED
    BY <2>3, <2>4, <2>5
<1>8. ASSUME NEW t \in Turns, Submitted(t) \/ SubmitFails(t) \/ Forward(t) \/ Finished(t)
      PROVE  ConsentInv'
  <2>1. CASE Submitted(t)
    <3>1. loop[t] = "off"
      BY <2>1 DEF Submitted, SpawnInv, NotSpawned
    <3>. QED
      BY <2>1, <3>1, ConsentUntouched DEF Submitted, Calm, TypeInv, TypeOK
  <2>2. CASE SubmitFails(t) \/ Forward(t) \/ Finished(t)
    BY <2>2, ConsentUntouched DEF SubmitFails, Forward, Finished
  <2>. QED
    BY <1>8, <2>1, <2>2
<1>9. ASSUME NEW t \in All, Loop(t) PROVE ConsentInv'
  <2>1. CASE Emit(t)
    BY <2>1, ConsentUntouched DEF Emit
  <2>2. ASSUME NEW name \in Names, Review(t, name) PROVE ConsentInv'
    <3>. USE <2>2 DEF Review
    <3>1. ~Open(t) /\ reply[t] = "none"
      BY DEF ConsentInv, OnePlace, TypeInv, TypeOK
    <3>2. OnePlace'
      BY <3>1 DEF ConsentInv, OnePlace, Open, TypeInv, TypeOK
    <3>3. t \notin consent
      BY DEF ConsentInv, YesIsMeant
    <3>4. YesIsMeant'
      BY <3>1, <3>3 DEF ConsentInv, YesIsMeant, Yes, TypeInv, TypeOK
    <3>5. ConsentFirst'
      BY DEF ConsentInv, ConsentFirst, TypeInv, TypeOK
    <3>. QED
      BY <3>2, <3>4, <3>5 DEF ConsentInv
  <2>3. CASE Ask(t)
    <3>. USE <2>3 DEF Ask
    <3>1. ~Open(t) /\ reply[t] = "none" /\ t \notin consent
      BY DEF ConsentInv, OnePlace, YesIsMeant, TypeInv, TypeOK
    <3>2. permits \in Seq(All)
      BY DEF TypeInv, TypeOK
    <3>3. \A i \in DOMAIN permits' : (i \in DOMAIN permits /\ permits'[i] = permits[i])
                                     \/ (i = Len(permits) + 1 /\ permits'[i] = t)
      BY <3>2
    <3>4. \A u \in All : Open(u)' => Open(u) \/ u = t
      BY <3>3 DEF Open
    <3>5. OnePlace'
      <4>1. \A u \in All : reply'[u] # "none" => loop'[u] = "waiting"
        BY DEF ConsentInv, OnePlace, TypeInv, TypeOK
      <4>2. \A u \in All : Open(u)' => loop'[u] = "waiting" /\ reply'[u] = "none"
        BY <3>1, <3>4 DEF ConsentInv, OnePlace, TypeInv, TypeOK
      <4>3. \A i, k \in DOMAIN permits' : permits'[i] = permits'[k] => i = k
        BY <3>1, <3>3 DEF ConsentInv, OnePlace, Open
      <4>4. \A i \in DOMAIN permits' : permits'[i] # pending_permit'
        BY <3>1, <3>3 DEF ConsentInv, OnePlace, Open
      <4>. QED
        BY <4>1, <4>2, <4>3, <4>4 DEF OnePlace
    <3>6. YesIsMeant'
      BY <3>1 DEF ConsentInv, YesIsMeant, Yes, TypeInv, TypeOK
    <3>7. ConsentFirst'
      BY DEF ConsentInv, ConsentFirst, TypeInv, TypeOK
    <3>. QED
      BY <3>5, <3>6, <3>7 DEF ConsentInv
  <2>4. CASE Answered(t)
    <3>. USE <2>4 DEF Answered
    <3>1. ~Open(t)
      BY DEF ConsentInv, OnePlace
    <3>2. OnePlace'
      BY <3>1 DEF ConsentInv, OnePlace, Open, TypeInv, TypeOK
    <3>3. YesIsMeant'
      BY DEF ConsentInv, YesIsMeant, Yes, Allowed, TypeInv, TypeOK
    <3>4. ConsentFirst'
      BY DEF ConsentInv, ConsentFirst, YesIsMeant, Yes, Allowed, TypeInv, TypeOK
    <3>. QED
      BY <3>2, <3>3, <3>4 DEF ConsentInv
  <2>5. CASE ToolReturns(t)
    <3>. USE <2>5 DEF ToolReturns
    <3>1. OnePlace'
      BY DEF ConsentInv, OnePlace, Open, TypeInv, TypeOK
    <3>2. YesIsMeant' /\ ConsentFirst'
      BY DEF ConsentInv, OnePlace, YesIsMeant, Yes, ConsentFirst, TypeInv, TypeOK
    <3>. QED
      BY <3>1, <3>2 DEF ConsentInv
  <2>6. ASSUME NEW failed \in BOOLEAN, LoopEnds(t, failed) PROVE ConsentInv'
    BY <2>6, ConsentUntouched DEF LoopEnds, Calm, TypeInv, TypeOK
  <2>. QED
    BY <1>9, <2>1, <2>2, <2>3, <2>4, <2>5, <2>6 DEF Loop
<1>. QED
  BY <1>2, <1>3, <1>4, <1>5, <1>6, <1>7, <1>8, <1>9, Steps

LEMMA Invariant == Spec => []ConsentInv
<1>1. Init => ConsentInv
  BY ConsentInit
<1>2. ConsentInv /\ [Next]_vars => ConsentInv'
  BY ConsentNext
<1>. QED
  BY <1>1, <1>2, PTL DEF Spec

----------------------------------------------------------------------------
\* No tool that changes anything runs without the user's yes to that call or to its
\* tool for good, for any number of turns and requests, cancelled and replaced ones
\* among them.
THEOREM ConsentFirstAlways == Spec => []ConsentFirst
<1>1. ConsentInv => ConsentFirst
  BY DEF ConsentInv
<1>. QED
  BY <1>1, Invariant, PTL

\* A yes is spent on the call it was given for: outside that call no consent is left
\* that a later one could use.
THEOREM ConsentIsFresh == Spec => []YesIsMeant
<1>1. ConsentInv => YesIsMeant
  BY DEF ConsentInv
<1>. QED
  BY <1>1, Invariant, PTL

\* Whatever the channel still holds of turns that were cancelled or followed by
\* another, none of it is of the generation that is drawn.
THEOREM ScreenIsCurrentAlways == Spec => []ScreenIsCurrent
<1>1. ConsentInv => ScreenIsCurrent
  BY DEF ConsentInv, SpawnInv, ScreenInv, GenerationsInOrder, NotYet, ScreenIsCurrent,
         TypeInv, TypeOK
<1>. QED
  BY <1>1, Invariant, PTL

=============================================================================
