--------------------------- MODULE AgentLoopProofs ---------------------------
(***************************************************************************)
(* Theorems about AgentLoop, for any number of turns that share a breaker, *)
(* any chain of models, any bounds on steps and nudges and any             *)
(* configurations.                                                         *)
(***************************************************************************)
EXTENDS AgentLoop, WellFoundedInduction, TLAPS

Places == {"idle", "step", "summary", "send", "stream", "judge", "converge", "ended"}

\* At these a turn has a step left to take.
Underway == {"summary", "send", "stream"}

TypeInv ==
    /\ TypeOK
    /\ \A t \in Turns : pc[t] \in Underway => round_trips[t] < MaxSteps
    /\ \A t \in Turns : pc[t] = "summary" => Len(history[t]) >= Kept + 3

----------------------------------------------------------------------------
\* The breaker

LEMMA FirstAvailableFacts ==
    ASSUME TypeOK
    PROVE  /\ FirstAvailable \in Chain
           /\ \A i \in Chain : i < FirstAvailable => IsOpen(i)
           /\ IsOpen(FirstAvailable) => \A i \in Chain : IsOpen(i)
<1>. DEFINE healthy == {i \in Chain : ~IsOpen(i)}
            least(i) == i \in healthy /\ \A j \in healthy : i <= j
<1>0. Chain \subseteq Nat /\ 0 \in Chain
  BY AgentAssumption DEF Chain
<1>1. CASE healthy = {}
  <2>1. FirstAvailable = 0
    BY <1>1 DEF FirstAvailable
  <2>2. \A i \in Chain : IsOpen(i)
    BY <1>1
  <2>. QED
    BY <1>0, <2>1, <2>2
<1>2. CASE healthy # {}
  <2>1. healthy \subseteq Nat
    BY <1>0
  <2>. DEFINE below == OpToRel(<, Nat)
  <2>2. IsWellFoundedOn(below, Nat)
    BY NatLessThanWellFounded
  <2>3. \A j, k \in Nat : <<j, k>> \in below <=> j < k
    BY Zenon DEF OpToRel
  <2>. HIDE DEF below
  <2>8. PICK i \in healthy : \A j \in healthy : ~(<<j, i>> \in below)
    BY <1>2, <2>1, <2>2, WFMin
  <2>9. least(i)
    <3>1. SUFFICES ASSUME NEW j \in healthy PROVE i <= j
      OBVIOUS
    <3>2. i \in Nat /\ j \in Nat
      BY <2>1
    <3>3. ~(<<j, i>> \in below)
      BY <2>8, Zenon
    <3>4. ~(j < i)
      BY <2>3, <3>2, <3>3, Zenon
    <3>. QED
      BY <3>2, <3>4
  <2>4. FirstAvailable = CHOOSE k \in healthy : \A j \in healthy : k <= j
    BY <1>2 DEF FirstAvailable
  <2>5. least(FirstAvailable)
    BY <2>9, <2>4
  <2>6. \A k \in Chain : k < FirstAvailable => IsOpen(k)
    BY <1>0, <2>1, <2>5
  <2>7. FirstAvailable \in Chain /\ ~IsOpen(FirstAvailable)
    BY <2>5
  <2>. QED
    BY <2>6, <2>7
<1>. QED
  BY <1>1, <1>2

----------------------------------------------------------------------------
\* The steps, and what every one of them does to the place of its turn

LEMMA Steps ==
    ASSUME [Next]_vars
    PROVE  \/ UNCHANGED vars
           \/ Tick
           \/ \E t \in Turns : TurnStep(t)
  BY DEF Next

LEMMA Leaves ==
    ASSUME TypeInv, NEW t \in Turns, TurnStep(t)
    PROVE  /\ pc[t] # "ended"
           /\ \/ UNCHANGED <<pc, closing>>
              \/ \E place \in Places \ {"idle", "ended"} : Goto(t, place)
              \/ Close(t, Answered)
              \/ Close(t, Errored)
<1>. USE DEF closing, Places
<1>1. CASE StartTurn(t)
  BY <1>1 DEF StartTurn
<1>2. CASE BeginStep(t)
  BY <1>2 DEF BeginStep
<1>3. CASE Summarise(t)
  BY <1>3 DEF Summarise
<1>4. CASE OutOfSteps(t)
  BY <1>4 DEF OutOfSteps
<1>5. CASE Opened(t)
  BY <1>5 DEF Opened
<1>6. CASE OpenFails(t)
  BY <1>6 DEF FailSilently, OpenFails
<1>7. CASE ReadEvent(t)
  BY <1>7 DEF ReadEvent
<1>8. CASE StreamFails(t)
  BY <1>8 DEF FailSilently, StreamFails
<1>9. CASE StreamEnds(t)
  BY <1>9 DEF StreamEnds
<1>10. CASE OverBudget(t)
  BY <1>10 DEF OverBudget
<1>11. CASE PauseContinues(t)
  BY <1>11 DEF PauseContinues
<1>12. CASE LiveOpsNudge(t)
  BY <1>12 DEF NoCalls, Bounce, LiveOpsNudge
<1>13. CASE LiveOpsFallback(t)
  BY <1>13 DEF NoCalls, LiveOpsFallback
<1>14. CASE RefuseTruncated(t)
  BY <1>14 DEF Settled, NoCalls, RefuseTruncated
<1>15. CASE BounceClaim(t)
  BY <1>15 DEF Settled, NoCalls, Bounce, BounceClaim
<1>16. CASE BounceNoEdit(t)
  BY <1>16 DEF Settled, NoCalls, Bounce, BounceNoEdit
<1>17. CASE BounceUnverified(t)
  BY <1>17 DEF Settled, NoCalls, Bounce, BounceUnverified
<1>18. CASE Accept(t)
  BY <1>18 DEF Settled, NoCalls, Accept
<1>19. CASE RunTools(t)
  BY <1>19 DEF RunTools
<1>20. CASE StopVerified(t)
  BY <1>20 DEF StopVerified
<1>21. CASE StopNoProgress(t)
  BY <1>21 DEF StopNoProgress
<1>22. CASE KeepGoing(t)
  BY <1>22 DEF KeepGoing
<1>. QED
  BY <1>1, <1>2, <1>3, <1>4, <1>5, <1>6, <1>7, <1>8, <1>9, <1>10, <1>11, <1>12,
     <1>13, <1>14, <1>15, <1>16, <1>17, <1>18, <1>19, <1>20, <1>21, <1>22 DEF TurnStep

----------------------------------------------------------------------------
\* Type correctness

LEMMA TypeInit == Init => TypeInv
<1>. SUFFICES ASSUME Init PROVE TypeInv
  OBVIOUS
<1>1. 0 \in Chain /\ Cooldown \in Nat
  BY AgentAssumption DEF Chain
<1>2. history \in [Turns -> Seq(Kinds)]
  BY AgentAssumption DEF Init
<1>. QED
  BY <1>1, <1>2, AgentAssumption DEF Init, TypeInv, TypeOK, Underway, Replies, Count

LEMMA NudgesType ==
    ASSUME TypeInv, NEW t \in Turns, NEW guard \in {"live_ops", "claim", "edit", "fix"}
    PROVE  [nudges EXCEPT ![t][guard] = @ + 1] \in [Turns -> Count]
<1>1. nudges[t] \in Count
  BY DEF TypeInv, TypeOK
<1>2. [nudges[t] EXCEPT ![guard] = @ + 1] \in Count
  BY <1>1 DEF Count
<1>. QED
  BY <1>2 DEF TypeInv, TypeOK

LEMMA CompactedType ==
    ASSUME NEW h \in Seq(Kinds), Len(h) >= Kept + 3
    PROVE  Compacted(h) \in Seq(Kinds)
<1>1. Kept \in Nat
  BY AgentAssumption DEF Kept
<1>2. Head(h) \in Kinds
  BY <1>1
<1>3. SubSeq(h, Len(h) - Kept + 1, Len(h)) \in Seq(Kinds)
  BY <1>1
<1>4. <<Head(h), "user">> \in Seq(Kinds)
  BY <1>2 DEF Kinds
<1>. QED
  BY <1>3, <1>4 DEF Compacted

\* The steps by what they do to the chain, to the request and to the levers.
LEMMA ChainMoves ==
    ASSUME NEW t \in Turns, TurnStep(t)
    PROVE  /\ UNCHANGED now
           /\ \/ UNCHANGED <<deadlines, tripped_at, model_cursor, failed>>
              \/ /\ pc[t] = "idle" /\ model_cursor' = [model_cursor EXCEPT ![t] = FirstAvailable]
                 /\ UNCHANGED <<deadlines, tripped_at, failed>>
              \/ pc[t] \in {"send", "stream"} /\ FailSilently(t)
              \/ /\ pc[t] = "stream" /\ Close(t, Errored)
                 /\ failed' = [failed EXCEPT ![t] = @ \union {model_cursor[t]}]
                 /\ UNCHANGED <<deadlines, tripped_at, model_cursor>>
              \/ /\ pc[t] = "stream" /\ Reset(model_cursor[t])
                 /\ UNCHANGED <<tripped_at, model_cursor, failed>>
              \/ /\ pc[t] = "judge" /\ model_cursor[t] < Fallbacks
                 /\ model_cursor' = [model_cursor EXCEPT ![t] = @ + 1]
                 /\ UNCHANGED <<deadlines, tripped_at, failed>>
<1>. USE DEF breaker, sending
<1>1. CASE StartTurn(t)
  BY <1>1 DEF StartTurn, LiveOpsHopDue
<1>2. CASE OpenFails(t) \/ StreamFails(t)
  BY <1>2 DEF FailSilently, OpenFails, StreamFails, LiveOpsHopDue
<1>3. CASE StreamEnds(t)
  BY <1>3 DEF StreamEnds, LiveOpsHopDue
<1>4. CASE LiveOpsFallback(t)
  BY <1>4 DEF NoCalls, LiveOpsFallback, LiveOpsHopDue
<1>5. CASE \/ BeginStep(t) \/ Summarise(t) \/ OutOfSteps(t) \/ Opened(t) \/ ReadEvent(t)
           \/ OverBudget(t) \/ PauseContinues(t) \/ LiveOpsNudge(t)
  BY <1>5 DEF BeginStep, Summarise, OutOfSteps, Opened, ReadEvent, OverBudget,
     PauseContinues, NoCalls, Bounce, LiveOpsNudge, LiveOpsHopDue
<1>6. CASE \/ RefuseTruncated(t) \/ BounceClaim(t) \/ BounceNoEdit(t) \/ BounceUnverified(t) \/ Accept(t)
           \/ RunTools(t) \/ StopVerified(t) \/ StopNoProgress(t) \/ KeepGoing(t)
  BY <1>6 DEF Settled, NoCalls, RefuseTruncated, Bounce, BounceClaim, BounceNoEdit,
     BounceUnverified, Accept, RunTools, StopVerified, StopNoProgress, KeepGoing,
     LiveOpsHopDue
<1>. QED
  BY <1>1, <1>2, <1>3, <1>4, <1>5, <1>6 DEF TurnStep

LEMMA RequestMoves ==
    ASSUME TypeInv, NEW t \in Turns, TurnStep(t)
    PROVE  \/ UNCHANGED <<round_trips, reply, forwarded_any, held, ask, requests, shown, dropped>>
           \/ /\ pc[t] = "send" /\ Send(t) /\ UNCHANGED <<round_trips, reply, shown, dropped>>
              /\ \/ UNCHANGED <<forwarded_any, held>>
                 \/ /\ pc' = [pc EXCEPT ![t] = "stream"] /\ UNCHANGED <<model_cursor, failed>>
                    /\ forwarded_any' = [forwarded_any EXCEPT ![t] = FALSE]
                    /\ held' = [held EXCEPT ![t] = FALSE]
           \/ /\ pc[t] = "stream" /\ UNCHANGED <<pc, model_cursor, failed>>
              /\ UNCHANGED <<round_trips, reply, ask, requests, dropped>>
              /\ forwarded_any' = [forwarded_any EXCEPT ![t] = TRUE]
              /\ \/ held' = [held EXCEPT ![t] = TRUE] /\ UNCHANGED shown
                 \/ shown' = [shown EXCEPT ![t] = Sent(t, "event")] /\ UNCHANGED held
           \/ /\ pc[t] \in {"stream", "judge"} /\ FlushHeld(t) /\ pc'[t] # "stream"
              /\ UNCHANGED <<round_trips, reply, forwarded_any, held, ask, requests, dropped>>
           \/ /\ pc[t] = "judge" /\ dropped' = [dropped EXCEPT ![t] = @ \union {ask[t]}]
              /\ UNCHANGED <<round_trips, reply, forwarded_any, held, ask, requests, shown>>
           \/ /\ pc[t] = "stream" /\ pc' = [pc EXCEPT ![t] = "judge"]
              /\ round_trips' = [round_trips EXCEPT ![t] = @ + 1]
              /\ \E r \in Replies : reply' = [reply EXCEPT ![t] = r]
              /\ UNCHANGED <<model_cursor, failed, forwarded_any, held, ask, requests, shown, dropped>>
<1>. USE DEF sending, Goto, Close
<1>0. pc \in [Turns -> Places]
  BY DEF TypeInv, TypeOK, Places
<1>1. CASE \/ StartTurn(t) \/ BeginStep(t) \/ Summarise(t) \/ OutOfSteps(t) \/ StopVerified(t)
           \/ StopNoProgress(t) \/ KeepGoing(t)
  BY <1>1, <1>0 DEF StartTurn, BeginStep, Summarise, OutOfSteps, StopVerified,
     StopNoProgress, KeepGoing
<1>2. CASE Opened(t)
  BY <1>2, <1>0 DEF Opened
<1>3. CASE OpenFails(t)
  BY <1>3, <1>0 DEF FailSilently, OpenFails
<1>4. CASE ReadEvent(t)
  BY <1>4, <1>0 DEF ReadEvent
<1>5. CASE StreamFails(t)
  BY <1>5, <1>0 DEF FailSilently, StreamFails
<1>6. CASE StreamEnds(t)
  BY <1>6, <1>0 DEF StreamEnds
<1>7. CASE PauseContinues(t) \/ Accept(t) \/ RunTools(t)
  BY <1>7, <1>0 DEF PauseContinues, Settled, NoCalls, Accept, RunTools
<1>8. CASE \/ OverBudget(t) \/ LiveOpsFallback(t) \/ RefuseTruncated(t) \/ LiveOpsNudge(t) \/ BounceClaim(t)
           \/ BounceNoEdit(t) \/ BounceUnverified(t)
  BY <1>8, <1>0 DEF OverBudget, NoCalls, LiveOpsFallback, Settled, RefuseTruncated,
     Bounce, LiveOpsNudge, BounceClaim, BounceNoEdit, BounceUnverified
<1>. QED
  BY <1>1, <1>2, <1>3, <1>4, <1>5, <1>6, <1>7, <1>8 DEF TurnStep

LEMMA LeverMoves ==
    ASSUME NEW t \in Turns, TurnStep(t)
    PROVE  \/ UNCHANGED levers
           \/ /\ \E guard \in {"live_ops", "claim", "edit", "fix"} :
                     nudges' = [nudges EXCEPT ![t][guard] = @ + 1]
              /\ UNCHANGED <<task_edited, edit_free_streak, nudged_at, prompted>>
           \/ /\ \E made_edit \in BOOLEAN :
                    /\ task_edited' = [task_edited EXCEPT ![t] = @ \/ made_edit]
                    /\ edit_free_streak' = [edit_free_streak EXCEPT ![t] = IF made_edit THEN 0 ELSE @ + 1]
                    /\ nudged_at' = [nudged_at EXCEPT ![t] = IF made_edit THEN 0 ELSE @]
                    /\ prompted' = [prompted EXCEPT ![t] = IF made_edit THEN 0 ELSE @]
              /\ UNCHANGED nudges
           \/ /\ nudged_at' = [nudged_at EXCEPT ![t] = edit_free_streak[t]]
              /\ prompted' = [prompted EXCEPT ![t] = @ + 1]
              /\ UNCHANGED <<nudges, task_edited, edit_free_streak>>
<1>. USE DEF levers
<1>1. CASE \/ StartTurn(t) \/ BeginStep(t) \/ Summarise(t) \/ OutOfSteps(t) \/ Opened(t)
           \/ OpenFails(t) \/ ReadEvent(t) \/ StreamFails(t) \/ StreamEnds(t)
  BY <1>1 DEF StartTurn, BeginStep, Summarise, OutOfSteps, Opened, FailSilently,
     OpenFails, ReadEvent, StreamFails, StreamEnds
<1>2. CASE \/ OverBudget(t) \/ PauseContinues(t) \/ LiveOpsFallback(t) \/ RefuseTruncated(t) \/ Accept(t)
           \/ StopVerified(t) \/ StopNoProgress(t)
  BY <1>2 DEF OverBudget, PauseContinues, NoCalls, LiveOpsFallback, Settled,
     RefuseTruncated, Accept, StopVerified, StopNoProgress
<1>3. CASE LiveOpsNudge(t) \/ BounceClaim(t) \/ BounceNoEdit(t) \/ BounceUnverified(t)
  BY <1>3 DEF NoCalls, Bounce, LiveOpsNudge, Settled, BounceClaim, BounceNoEdit,
     BounceUnverified
<1>4. CASE RunTools(t)
  BY <1>4 DEF RunTools
<1>5. CASE KeepGoing(t)
  BY <1>5 DEF KeepGoing
<1>. QED
  BY <1>1, <1>2, <1>3, <1>4, <1>5 DEF TurnStep

LEMMA HistoryMoves ==
    ASSUME TypeInv, NEW t \in Turns, TurnStep(t)
    PROVE  /\ UNCHANGED config
           /\ \/ UNCHANGED <<history, pc>>
              \/ UNCHANGED history /\ pc[t] # "converge" /\ pc'[t] # "converge"
              \/ /\ pc[t] = "summary" /\ pc' = [pc EXCEPT ![t] = "send"]
                 /\ history' = [history EXCEPT ![t] = Compacted(@)]
              \/ /\ pc[t] \in {"idle", "judge"} /\ pc' = [pc EXCEPT ![t] = "step"]
                 /\ history' = [history EXCEPT ![t] = Append(@, "asst")]
              \/ /\ pc[t] = "judge" /\ pc' = [pc EXCEPT ![t] = "step"]
                 /\ \E m \in {<<"user">>, <<"asst", "user">>} :
                       history' = [history EXCEPT ![t] = @ \o m]
              \/ /\ pc[t] = "judge" /\ pc' = [pc EXCEPT ![t] = "converge"]
                 /\ history' = [history EXCEPT ![t] = Append(@, "call")]
              \/ /\ pc[t] = "converge" /\ \E place \in {"step", "ended"} : pc' = [pc EXCEPT ![t] = place]
                 /\ history' = [history EXCEPT ![t] = Append(@, "result")]
<1>. USE DEF Goto, Close
<1>0. pc \in [Turns -> Places]
  BY DEF TypeInv, TypeOK, Places
<1>1. CASE StartTurn(t) \/ PauseContinues(t)
  BY <1>1, <1>0 DEF StartTurn, PauseContinues
<1>2. CASE Summarise(t)
  BY <1>2, <1>0 DEF Summarise
<1>3. CASE BeginStep(t) \/ OutOfSteps(t) \/ Opened(t)
  BY <1>3, <1>0 DEF BeginStep, OutOfSteps, Opened
<1>4. CASE OpenFails(t)
  BY <1>4, <1>0 DEF FailSilently, OpenFails
<1>5. CASE ReadEvent(t)
  BY <1>5, <1>0 DEF ReadEvent
<1>6. CASE StreamFails(t)
  BY <1>6, <1>0 DEF FailSilently, StreamFails
<1>7. CASE StreamEnds(t)
  BY <1>7, <1>0 DEF StreamEnds
<1>8. CASE OverBudget(t) \/ LiveOpsFallback(t) \/ RefuseTruncated(t) \/ Accept(t)
  BY <1>8, <1>0 DEF OverBudget, NoCalls, LiveOpsFallback, Settled, RefuseTruncated, Accept
<1>9. CASE LiveOpsNudge(t) \/ BounceClaim(t) \/ BounceNoEdit(t) \/ BounceUnverified(t)
  BY <1>9, <1>0 DEF NoCalls, Bounce, LiveOpsNudge, Settled, BounceClaim, BounceNoEdit,
     BounceUnverified
<1>10. CASE RunTools(t)
  BY <1>10, <1>0 DEF RunTools
<1>11. CASE StopVerified(t) \/ StopNoProgress(t) \/ KeepGoing(t)
  BY <1>11, <1>0 DEF StopVerified, StopNoProgress, KeepGoing
<1>. QED
  BY <1>1, <1>2, <1>3, <1>4, <1>5, <1>6, <1>7, <1>8, <1>9, <1>10, <1>11 DEF TurnStep

LEMMA UnderwayMoves ==
    ASSUME TypeInv, NEW t \in Turns, TurnStep(t), pc'[t] \in Underway
    PROVE  /\ UNCHANGED round_trips /\ round_trips[t] < MaxSteps
           /\ pc'[t] = "summary" => UNCHANGED history /\ Len(history[t]) >= Kept + 3
<1>. USE DEF Goto, Close, Underway, sending
<1>0. /\ pc \in [Turns -> Places]
      /\ pc[t] \in Underway => round_trips[t] < MaxSteps
      /\ pc[t] = "summary" => Len(history[t]) >= Kept + 3
  BY DEF TypeInv, TypeOK, Places
<1>1. CASE StartTurn(t)
  BY <1>1, <1>0 DEF StartTurn
<1>2. CASE BeginStep(t)
  BY <1>2, <1>0 DEF BeginStep
<1>3. CASE Summarise(t)
  BY <1>3, <1>0 DEF Summarise
<1>4. CASE OutOfSteps(t)
  BY <1>4, <1>0 DEF OutOfSteps
<1>5. CASE Opened(t)
  BY <1>5, <1>0 DEF Opened
<1>6. CASE OpenFails(t)
  BY <1>6, <1>0 DEF FailSilently, OpenFails
<1>7. CASE ReadEvent(t)
  BY <1>7, <1>0 DEF ReadEvent
<1>8. CASE StreamFails(t)
  BY <1>8, <1>0 DEF FailSilently, StreamFails
<1>9. CASE StreamEnds(t)
  BY <1>9, <1>0 DEF StreamEnds
<1>10. CASE OverBudget(t) \/ PauseContinues(t) \/ LiveOpsFallback(t) \/ RefuseTruncated(t) \/ Accept(t)
  BY <1>10, <1>0 DEF OverBudget, PauseContinues, NoCalls, LiveOpsFallback, Settled,
     RefuseTruncated, Accept
<1>11. CASE LiveOpsNudge(t) \/ BounceClaim(t) \/ BounceNoEdit(t) \/ BounceUnverified(t)
  BY <1>11, <1>0 DEF NoCalls, Bounce, LiveOpsNudge, Settled, BounceClaim, BounceNoEdit,
     BounceUnverified
<1>12. CASE RunTools(t)
  BY <1>12, <1>0 DEF RunTools
<1>13. CASE StopVerified(t) \/ StopNoProgress(t) \/ KeepGoing(t)
  BY <1>13, <1>0 DEF StopVerified, StopNoProgress, KeepGoing
<1>. QED
  BY <1>1, <1>2, <1>3, <1>4, <1>5, <1>6, <1>7, <1>8, <1>9, <1>10, <1>11, <1>12, <1>13 DEF TurnStep

LEMMA PlaceType ==
    ASSUME TypeInv, NEW t \in Turns, TurnStep(t)
    PROVE  /\ pc' \in [Turns -> Places]
           /\ ending' \in [Turns -> Seq({"usage", "done", "error"})]
           /\ records' \in [Turns -> Nat]
<1>. DEFINE Items == Seq({"usage", "done", "error"})
<1>0. SUFFICES pc' \in [Turns -> Places] /\ ending' \in [Turns -> Items] /\ records' \in [Turns -> Nat]
  OBVIOUS
<1>1. pc \in [Turns -> Places] /\ ending \in [Turns -> Items] /\ records \in [Turns -> Nat]
  BY DEF TypeInv, TypeOK, Places
<1>2. Answered \in Items /\ Errored \in Items
  BY DEF Answered, Errored
<1>3. ending[t] \in Items /\ \A x \in Items : ending[t] \o x \in Items
  BY <1>1
<1>. HIDE DEF Items
<1>4. CASE UNCHANGED <<pc, closing>>
  BY <1>1, <1>4 DEF closing
<1>5. CASE \E place \in Places \ {"idle", "ended"} : Goto(t, place)
  BY <1>1, <1>5 DEF Goto, closing
<1>6. CASE Close(t, Answered) \/ Close(t, Errored)
  <2>1. PICK items \in {Answered, Errored} : Close(t, items)
    BY <1>6
  <2>2. ending[t] \o items \in Items
    BY <1>2, <1>3
  <2>. QED
    BY <1>1, <2>1, <2>2 DEF Close, Places
<1>. QED
  BY <1>4, <1>5, <1>6, Leaves

LEMMA ChainType ==
    ASSUME TypeInv, NEW t \in Turns, TurnStep(t)
    PROVE  /\ now' \in Nat /\ deadlines' \in [Chain -> Nat] /\ tripped_at' \in [Chain -> Int]
           /\ model_cursor' \in [Turns -> Chain]
           /\ failed' \in [Turns -> SUBSET Chain]
<1>0. Chain = 0 .. Fallbacks /\ Fallbacks \in Nat /\ Cooldown \in Nat
  BY AgentAssumption DEF Chain
<1>1. /\ now \in Nat /\ deadlines \in [Chain -> Nat] /\ tripped_at \in [Chain -> Int]
      /\ model_cursor \in [Turns -> Chain]
      /\ failed \in [Turns -> SUBSET Chain]
  BY DEF TypeInv, TypeOK
<1>2. FirstAvailable \in Chain /\ model_cursor[t] \in Chain
  BY <1>1, FirstAvailableFacts DEF TypeInv
<1>3. CASE FailSilently(t)
  <2>1. now' \in Nat
    BY <1>1, ChainMoves
  <2>2. deadlines' \in [Chain -> Nat] /\ tripped_at' \in [Chain -> Int]
    BY <1>0, <1>1, <1>2, <1>3 DEF FailSilently, Trip
  <2>3. model_cursor' \in [Turns -> Chain]
    <3>1. UNCHANGED model_cursor \/ model_cursor' = [model_cursor EXCEPT ![t] = model_cursor[t] + 1]
      BY <1>3 DEF FailSilently, NextCursor
    <3>2. model_cursor' # model_cursor => model_cursor[t] + 1 \in Chain
      BY <1>0, <1>2, <1>3 DEF FailSilently, MayFallBack
    <3>. QED
      BY <1>1, <3>1, <3>2
  <2>4. failed' \in [Turns -> SUBSET Chain]
    BY <1>1, <1>2, <1>3 DEF FailSilently
  <2>. QED
    BY <2>1, <2>2, <2>3, <2>4
<1>4. CASE ~FailSilently(t)
  <2>1. now' \in Nat /\ tripped_at' \in [Chain -> Int]
    BY <1>1, <1>4, ChainMoves
  <2>2. deadlines' \in [Chain -> Nat]
    <3>1. UNCHANGED deadlines \/ deadlines' = [deadlines EXCEPT ![model_cursor[t]] = 0]
      BY <1>4, ChainMoves DEF Reset
    <3>. QED
      BY <1>1, <3>1
  <2>3. model_cursor' \in [Turns -> Chain]
    <3>1. \/ UNCHANGED model_cursor
          \/ model_cursor' = [model_cursor EXCEPT ![t] = FirstAvailable]
          \/ /\ model_cursor[t] < Fallbacks
             /\ model_cursor' = [model_cursor EXCEPT ![t] = @ + 1]
      BY <1>4, ChainMoves
    <3>2. model_cursor[t] < Fallbacks => model_cursor[t] + 1 \in Chain
      BY <1>0, <1>2
    <3>. QED
      BY <1>1, <1>2, <3>1, <3>2
  <2>4. failed' \in [Turns -> SUBSET Chain]
    BY <1>1, <1>2, <1>4, ChainMoves
  <2>. QED
    BY <2>1, <2>2, <2>3, <2>4
<1>. QED
  BY <1>3, <1>4

LEMMA RequestType ==
    ASSUME TypeInv, NEW t \in Turns, TurnStep(t)
    PROVE  /\ round_trips' \in [Turns -> 0 .. MaxSteps] /\ reply' \in [Turns -> Replies]
           /\ forwarded_any' \in [Turns -> BOOLEAN] /\ held' \in [Turns -> BOOLEAN]
           /\ ask' \in [Turns -> Nat \X Chain] /\ requests' \in [Turns -> Nat]
           /\ shown' \in [Turns -> SUBSET ({"prose", "event"} \X Nat \X Chain)]
           /\ dropped' \in [Turns -> SUBSET (Nat \X Chain)]
<1>0. MaxSteps \in Nat
  BY AgentAssumption
<1>1. /\ round_trips \in [Turns -> 0 .. MaxSteps] /\ reply \in [Turns -> Replies]
      /\ forwarded_any \in [Turns -> BOOLEAN] /\ held \in [Turns -> BOOLEAN]
      /\ ask \in [Turns -> Nat \X Chain] /\ requests \in [Turns -> Nat]
      /\ shown \in [Turns -> SUBSET ({"prose", "event"} \X Nat \X Chain)]
      /\ dropped \in [Turns -> SUBSET (Nat \X Chain)]
      /\ model_cursor \in [Turns -> Chain]
  BY DEF TypeInv, TypeOK
<1>2. pc[t] = "stream" => round_trips[t] < MaxSteps
  BY DEF TypeInv, Underway
<1>3. <<round_trips[t], model_cursor[t]>> \in Nat \X Chain
  BY <1>0, <1>1
<1>4. \A what \in {"prose", "event"} : Sent(t, what) \in SUBSET ({"prose", "event"} \X Nat \X Chain)
  BY <1>1 DEF Sent
<1>5. CASE Send(t) /\ UNCHANGED <<round_trips, reply, shown, dropped>>
  <2>1. ask' \in [Turns -> Nat \X Chain]
    BY <1>1, <1>3, <1>5 DEF Send
  <2>2. requests' \in [Turns -> Nat]
    BY <1>1, <1>5 DEF Send
  <2>3. forwarded_any' \in [Turns -> BOOLEAN] /\ held' \in [Turns -> BOOLEAN]
    BY <1>1, <1>5, RequestMoves
  <2>. QED
    BY <1>1, <1>5, <2>1, <2>2, <2>3
<1>6. CASE pc[t] = "stream" /\ round_trips' = [round_trips EXCEPT ![t] = @ + 1]
           /\ (\E r \in Replies : reply' = [reply EXCEPT ![t] = r])
           /\ UNCHANGED <<forwarded_any, held, ask, requests, shown, dropped>>
  BY <1>0, <1>1, <1>2, <1>6
<1>7. CASE UNCHANGED <<round_trips, reply, ask, requests>>
  <2>1. forwarded_any' \in [Turns -> BOOLEAN]
    BY <1>1, <1>7, RequestMoves
  <2>2. held' \in [Turns -> BOOLEAN]
    BY <1>1, <1>7, RequestMoves
  <2>3. shown' \in [Turns -> SUBSET ({"prose", "event"} \X Nat \X Chain)]
    BY <1>1, <1>4, <1>7, RequestMoves DEF FlushHeld
  <2>4. dropped' \in [Turns -> SUBSET (Nat \X Chain)]
    <3>1. (dropped[t] \union {ask[t]}) \in SUBSET (Nat \X Chain)
      BY <1>1
    <3>2. UNCHANGED dropped \/ dropped' = [dropped EXCEPT ![t] = @ \union {ask[t]}]
      BY RequestMoves
    <3>. QED
      BY <1>1, <3>1, <3>2
  <2>. QED
    BY <1>1, <1>7, <2>1, <2>2, <2>3, <2>4
<1>. QED
  BY <1>5, <1>6, <1>7, RequestMoves

LEMMA LeverType ==
    ASSUME TypeInv, NEW t \in Turns, TurnStep(t)
    PROVE  /\ nudges' \in [Turns -> Count] /\ task_edited' \in [Turns -> BOOLEAN]
           /\ edit_free_streak' \in [Turns -> Nat] /\ nudged_at' \in [Turns -> Nat]
           /\ prompted' \in [Turns -> Nat]
<1>1. /\ nudges \in [Turns -> Count] /\ task_edited \in [Turns -> BOOLEAN]
      /\ edit_free_streak \in [Turns -> Nat] /\ nudged_at \in [Turns -> Nat]
      /\ prompted \in [Turns -> Nat]
  BY DEF TypeInv, TypeOK
<1>2. nudges' \in [Turns -> Count]
  <2>1. CASE UNCHANGED nudges
    BY <1>1, <2>1
  <2>2. CASE \E guard \in {"live_ops", "claim", "edit", "fix"} :
                 nudges' = [nudges EXCEPT ![t][guard] = @ + 1]
    <3>1. PICK guard \in {"live_ops", "claim", "edit", "fix"} :
             nudges' = [nudges EXCEPT ![t][guard] = @ + 1]
      BY <2>2
    <3>2. [nudges EXCEPT ![t][guard] = @ + 1] \in [Turns -> Count]
      BY NudgesType
    <3>. QED
      BY <3>1, <3>2
  <2>. QED
    BY <2>1, <2>2, LeverMoves DEF levers
<1>3. task_edited' \in [Turns -> BOOLEAN]
  BY <1>1, LeverMoves DEF levers
<1>4. edit_free_streak' \in [Turns -> Nat] /\ nudged_at' \in [Turns -> Nat] /\ prompted' \in [Turns -> Nat]
  BY <1>1, LeverMoves DEF levers
<1>. QED
  BY <1>2, <1>3, <1>4

LEMMA HistoryType ==
    ASSUME TypeInv, NEW t \in Turns, TurnStep(t)
    PROVE  config' = config /\ history' \in [Turns -> Seq(Kinds)]
<1>1. history \in [Turns -> Seq(Kinds)]
  BY DEF TypeInv, TypeOK
<1>2. history[t] \in Seq(Kinds)
  BY <1>1
<1>3. pc[t] = "summary" => Compacted(history[t]) \in Seq(Kinds)
  BY <1>2, CompactedType DEF TypeInv
<1>4. \A k \in Kinds : Append(history[t], k) \in Seq(Kinds)
  BY <1>2
<1>5. \A m \in {<<"user">>, <<"asst", "user">>} : history[t] \o m \in Seq(Kinds)
  <2>1. <<"user">> \in Seq(Kinds) /\ <<"asst", "user">> \in Seq(Kinds)
    BY DEF Kinds
  <2>2. \A m \in Seq(Kinds) : history[t] \o m \in Seq(Kinds)
    BY <1>2
  <2>. QED
    BY <2>1, <2>2
<1>6. {"asst", "call", "result"} \subseteq Kinds
  BY DEF Kinds
<1>. HIDE DEF Kinds
<1>7. \/ UNCHANGED history
      \/ \E h \in Seq(Kinds) : history' = [history EXCEPT ![t] = h]
  <2>1. CASE pc[t] = "summary" /\ history' = [history EXCEPT ![t] = Compacted(@)]
    BY <1>1, <1>3, <2>1
  <2>2. CASE \E k \in {"asst", "call", "result"} : history' = [history EXCEPT ![t] = Append(@, k)]
    BY <1>1, <1>4, <1>6, <2>2
  <2>3. CASE \E m \in {<<"user">>, <<"asst", "user">>} : history' = [history EXCEPT ![t] = @ \o m]
    BY <1>1, <1>5, <2>3
  <2>. QED
    BY <2>1, <2>2, <2>3, HistoryMoves
<1>. QED
  BY <1>1, <1>7, HistoryMoves

LEMMA TypeNext == TypeInv /\ [Next]_vars => TypeInv'
<1>. SUFFICES ASSUME TypeInv, [Next]_vars PROVE TypeInv'
  OBVIOUS
<1>1. CASE UNCHANGED vars
  BY <1>1 DEF vars, breaker, sending, levers, closing, TypeInv, TypeOK
<1>2. CASE Tick
  <2>1. TypeOK'
    <3>1. now' \in Nat
      BY <1>2 DEF Tick, TypeInv, TypeOK
    <3>. QED
      BY <1>2, <3>1 DEF Tick, sending, levers, closing, TypeInv, TypeOK
  <2>. QED
    BY <1>2, <2>1 DEF Tick, TypeInv, closing, sending, Kept
<1>3. CASE \E t \in Turns : TurnStep(t)
  <2>1. PICK t \in Turns : TurnStep(t)
    BY <1>3
  <2>2. TypeOK'
    BY <2>1, PlaceType, ChainType, RequestType, LeverType, HistoryType DEF TypeInv, TypeOK, Places
  <2>3. ASSUME NEW u \in Turns, u # t
        PROVE  pc'[u] = pc[u] /\ round_trips'[u] = round_trips[u] /\ history'[u] = history[u]
    <3>1. /\ pc \in [Turns -> Places] /\ round_trips \in [Turns -> 0 .. MaxSteps]
          /\ history \in [Turns -> Seq(Kinds)]
      BY DEF TypeInv, TypeOK, Places
    <3>2. pc'[u] = pc[u]
      BY <2>1, <2>3, <3>1, Leaves DEF Goto, Close
    <3>3. round_trips'[u] = round_trips[u]
      BY <2>1, <2>3, <3>1, RequestMoves
    <3>4. history'[u] = history[u]
      BY <2>1, <2>3, <3>1, HistoryMoves
    <3>. QED
      BY <3>2, <3>3, <3>4
  <2>4. \A u \in Turns : pc'[u] \in Underway => round_trips'[u] < MaxSteps
    BY <2>1, <2>3, UnderwayMoves DEF TypeInv
  <2>5. \A u \in Turns : pc'[u] = "summary" => Len(history'[u]) >= Kept + 3
    BY <2>1, <2>3, UnderwayMoves DEF TypeInv, Underway
  <2>. QED
    BY <2>2, <2>4, <2>5 DEF TypeInv, Kept
<1>. QED
  BY <1>1, <1>2, <1>3, Steps

----------------------------------------------------------------------------
\* One turn's step leaves what is another's alone.

LEMMA Others ==
    ASSUME TypeInv, NEW t \in Turns, TurnStep(t), NEW u \in Turns, u # t
    PROVE  /\ pc'[u] = pc[u] /\ ending'[u] = ending[u] /\ records'[u] = records[u]
           /\ model_cursor'[u] = model_cursor[u] /\ failed'[u] = failed[u]
           /\ round_trips'[u] = round_trips[u] /\ reply'[u] = reply[u]
           /\ forwarded_any'[u] = forwarded_any[u] /\ held'[u] = held[u]
           /\ ask'[u] = ask[u] /\ requests'[u] = requests[u]
           /\ shown'[u] = shown[u] /\ dropped'[u] = dropped[u]
           /\ history'[u] = history[u]
<1>1. /\ pc \in [Turns -> Places]
      /\ ending \in [Turns -> Seq({"usage", "done", "error"})] /\ records \in [Turns -> Nat]
      /\ model_cursor \in [Turns -> Chain] /\ failed \in [Turns -> SUBSET Chain]
      /\ round_trips \in [Turns -> 0 .. MaxSteps] /\ reply \in [Turns -> Replies]
      /\ forwarded_any \in [Turns -> BOOLEAN] /\ held \in [Turns -> BOOLEAN]
      /\ ask \in [Turns -> Nat \X Chain] /\ requests \in [Turns -> Nat]
      /\ shown \in [Turns -> SUBSET ({"prose", "event"} \X Nat \X Chain)]
      /\ dropped \in [Turns -> SUBSET (Nat \X Chain)]
      /\ history \in [Turns -> Seq(Kinds)]
  BY DEF TypeInv, TypeOK, Places
<1>2. pc'[u] = pc[u] /\ ending'[u] = ending[u] /\ records'[u] = records[u]
  <2>1. CASE UNCHANGED <<pc, closing>>
    BY <2>1 DEF closing
  <2>2. CASE \E place \in Places \ {"idle", "ended"} : Goto(t, place)
    BY <1>1, <2>2 DEF Goto, closing
  <2>3. CASE Close(t, Answered) \/ Close(t, Errored)
    BY <1>1, <2>3 DEF Close
  <2>. QED
    BY <2>1, <2>2, <2>3, Leaves
<1>3. model_cursor'[u] = model_cursor[u] /\ failed'[u] = failed[u]
  BY <1>1, ChainMoves DEF FailSilently
<1>4. /\ round_trips'[u] = round_trips[u] /\ reply'[u] = reply[u]
      /\ ask'[u] = ask[u] /\ requests'[u] = requests[u]
  <2>1. CASE Send(t) /\ UNCHANGED <<round_trips, reply>>
    BY <1>1, <2>1 DEF Send
  <2>2. CASE /\ UNCHANGED <<ask, requests>>
             /\ \E r \in Replies : reply' = [reply EXCEPT ![t] = r]
             /\ round_trips' = [round_trips EXCEPT ![t] = @ + 1]
    BY <1>1, <2>2
  <2>3. CASE UNCHANGED <<round_trips, reply, ask, requests>>
    BY <2>3
  <2>. QED
    BY <2>1, <2>2, <2>3, RequestMoves
<1>5. forwarded_any'[u] = forwarded_any[u] /\ held'[u] = held[u]
  BY <1>1, RequestMoves
<1>6. shown'[u] = shown[u] /\ dropped'[u] = dropped[u]
  BY <1>1, RequestMoves DEF FlushHeld
<1>7. history'[u] = history[u]
  <2>1. UNCHANGED history \/ \E h : history' = [history EXCEPT ![t] = h]
    BY HistoryMoves
  <2>. QED
    BY <1>1, <2>1
<1>. QED
  BY <1>2, <1>3, <1>4, <1>5, <1>6, <1>7

----------------------------------------------------------------------------
\* Every way out is accounted for

LEMMA AccountedInit == Init => Accounted
  BY DEF Init, Accounted

LEMMA AccountedNext == TypeInv /\ Accounted /\ [Next]_vars => Accounted'
<1>. SUFFICES ASSUME TypeInv, Accounted, [Next]_vars PROVE Accounted'
  OBVIOUS
<1>1. CASE UNCHANGED vars \/ Tick
  BY <1>1 DEF vars, Tick, closing, Accounted
<1>2. CASE \E t \in Turns : TurnStep(t)
  <2>1. PICK t \in Turns : TurnStep(t)
    BY <1>2
  <2>2. ASSUME NEW u \in Turns, u # t
        PROVE  IF pc'[u] = "ended" THEN records'[u] = 1 /\ ending'[u] \in {Answered, Errored}
               ELSE records'[u] = 0 /\ ending'[u] = <<>>
    BY <2>1, <2>2, Others DEF Accounted
  <2>3. /\ pc \in [Turns -> Places] /\ records \in [Turns -> Nat]
        /\ ending \in [Turns -> Seq({"usage", "done", "error"})]
    BY DEF TypeInv, TypeOK, Places
  <2>4. pc[t] # "ended" /\ records[t] = 0 /\ ending[t] = <<>>
    BY <2>1, Leaves DEF Accounted
  <2>5. \A items \in {Answered, Errored} : <<>> \o items = items
    BY DEF Answered, Errored
  <2>6. IF pc'[t] = "ended" THEN records'[t] = 1 /\ ending'[t] \in {Answered, Errored}
        ELSE records'[t] = 0 /\ ending'[t] = <<>>
    <3>1. CASE \E items \in {Answered, Errored} : Close(t, items)
      BY <2>3, <2>4, <2>5, <3>1 DEF Close
    <3>2. CASE UNCHANGED <<pc, closing>> \/ \E place \in Places \ {"idle", "ended"} : Goto(t, place)
      BY <2>3, <2>4, <3>2 DEF Goto, closing
    <3>. QED
      BY <2>1, <3>1, <3>2, Leaves
  <2>. QED
    BY <2>2, <2>6 DEF Accounted, Answered, Errored
<1>. QED
  BY <1>1, <1>2, Steps

----------------------------------------------------------------------------
\* The breaker and the chain

LEMMA DemotionInit == Init => DemotionEarned
  BY DEF Init, DemotionEarned

LEMMA DemotionNext == TypeInv /\ DemotionEarned /\ [Next]_vars => DemotionEarned'
<1>. SUFFICES ASSUME TypeInv, DemotionEarned, [Next]_vars PROVE DemotionEarned'
  OBVIOUS
<1>1. /\ deadlines \in [Chain -> Nat] /\ tripped_at \in [Chain -> Int]
      /\ model_cursor \in [Turns -> Chain]
  BY DEF TypeInv, TypeOK
<1>2. CASE UNCHANGED <<deadlines, tripped_at>>
  BY <1>2 DEF DemotionEarned
<1>3. ASSUME NEW t \in Turns, FailSilently(t) PROVE DemotionEarned'
  BY <1>1, <1>3 DEF FailSilently, Trip, DemotionEarned
<1>4. ASSUME NEW t \in Turns, Reset(model_cursor[t]), UNCHANGED tripped_at PROVE DemotionEarned'
  BY <1>1, <1>4 DEF Reset, DemotionEarned
<1>5. CASE UNCHANGED vars \/ Tick
  BY <1>2, <1>5 DEF vars, breaker, Tick
<1>6. CASE \E t \in Turns : TurnStep(t)
  BY <1>2, <1>3, <1>4, <1>6, ChainMoves
<1>. QED
  BY <1>5, <1>6, Steps

\* What a turn has seen fail lies behind its cursor.
ChainInv ==
    \A t \in Turns :
        /\ pc[t] = "idle" => failed[t] = {}
        /\ pc[t] # "ended" => \A i \in failed[t] : i < model_cursor[t]

LEMMA ChainInit == Init => ChainInv
  BY DEF Init, ChainInv

LEMMA ChainNext == TypeInv /\ ChainInv /\ [Next]_vars => ChainInv'
<1>. SUFFICES ASSUME TypeInv, ChainInv, [Next]_vars PROVE ChainInv'
  OBVIOUS
<1>1. CASE UNCHANGED vars \/ Tick
  BY <1>1 DEF vars, Tick, closing, sending, ChainInv
<1>2. CASE \E t \in Turns : TurnStep(t)
  <2>1. PICK t \in Turns : TurnStep(t)
    BY <1>2
  <2>2. /\ pc \in [Turns -> Places] /\ model_cursor \in [Turns -> Chain]
        /\ failed \in [Turns -> SUBSET Chain]
    BY DEF TypeInv, TypeOK, Places
  <2>3. Chain \subseteq Nat
    BY AgentAssumption DEF Chain
  <2>4. pc[t] # "ended" /\ (pc'[t] = "idle" => pc[t] = "idle" /\ UNCHANGED pc)
    BY <2>1, <2>2, Leaves DEF Goto, Close, Places
  <2>5. /\ \A i \in failed[t] : i < model_cursor[t]
        /\ pc[t] = "idle" => failed[t] = {}
    BY <2>4 DEF ChainInv
  <2>6. pc[t] = "idle" => UNCHANGED failed
    BY <2>1, ChainMoves
  <2>7. pc'[t] # "ended" => \A i \in failed'[t] : i < model_cursor'[t]
    <3>1. CASE FailSilently(t)
      <4>1. failed'[t] = failed[t] \union {model_cursor[t]}
        BY <2>2, <3>1 DEF FailSilently
      <4>2. CASE pc'[t] # "ended"
        <5>1. model_cursor'[t] = model_cursor[t] + 1 /\ model_cursor[t] \in Nat
          BY <2>2, <2>3, <3>1, <4>2 DEF FailSilently, Close, NextCursor
        <5>2. failed[t] \subseteq Nat
          BY <2>2, <2>3
        <5>. QED
          BY <2>5, <4>1, <5>1, <5>2
      <4>. QED
        BY <4>2
    <3>2. CASE Close(t, Errored)
      BY <2>2, <3>2 DEF Close
    <3>3. CASE UNCHANGED failed /\ (UNCHANGED model_cursor \/ pc[t] = "idle")
      BY <2>5, <3>3
    <3>4. CASE UNCHANGED failed /\ model_cursor' = [model_cursor EXCEPT ![t] = @ + 1]
      <4>1. model_cursor'[t] = model_cursor[t] + 1 /\ model_cursor[t] \in Nat /\ failed[t] \subseteq Nat
        BY <2>2, <2>3, <3>4
      <4>. QED
        BY <2>5, <3>4, <4>1
    <3>. QED
      BY <2>1, <3>1, <3>2, <3>3, <3>4, ChainMoves
  <2>. QED
    BY <2>1, <2>4, <2>5, <2>6, <2>7, Others DEF ChainInv
<1>. QED
  BY <1>1, <1>2, Steps

----------------------------------------------------------------------------
\* What is shown, and what is refused, of every round

Between == {"idle", "step", "summary", "send", "converge"}

\* Within a round the client has heard one model, of it only events while the
\* prose is held, and nothing at all where the next one may still be asked.
Voices(t) ==
    /\ pc[t] \in Between =>
          /\ \A x \in shown[t] : x[2] < round_trips[t]
          /\ \A a \in dropped[t] : a[1] < round_trips[t]
    /\ pc[t] = "stream" =>
          /\ ask[t] = <<round_trips[t], model_cursor[t]>>
          /\ \A x \in shown[t] :
                \/ x[2] < round_trips[t]
                \/ x = <<"event", ask[t][1], ask[t][2]>> /\ forwarded_any[t]
          /\ \A a \in dropped[t] : a[1] < round_trips[t]
    /\ pc[t] = "judge" =>
          /\ ask[t][1] + 1 = round_trips[t]
          /\ \A x \in shown[t] : x[2] < ask[t][1] \/ x = <<"event", ask[t][1], ask[t][2]>>
          /\ \A a \in dropped[t] : a[1] < ask[t][1]
    /\ \A a \in dropped[t] : <<"prose", a[1], a[2]>> \notin shown[t]
    /\ \A x, y \in shown[t] : x[2] = y[2] => x[3] = y[3]

\* Every request so far is a step taken or a position left behind.
Spent(t) ==
    /\ pc[t] = "idle" => requests[t] = 0
    /\ pc[t] \in Between \union {"judge"} => requests[t] <= round_trips[t] + model_cursor[t]
    /\ pc[t] = "stream" => requests[t] <= round_trips[t] + model_cursor[t] + 1
    /\ pc[t] = "ended" => requests[t] <= MaxSteps + Fallbacks

More(t) == IF requests[t] > MaxSteps + Fallbacks THEN requests[t] ELSE requests[t] + 1

SameRound(t) == round_trips'[t] = round_trips[t] /\ dropped'[t] = dropped[t]

NextOrOut(t) ==
    \/ pc'[t] = "send" /\ model_cursor'[t] = model_cursor[t] + 1
    \/ pc'[t] = "ended"

LEMMA RoundMoves ==
    ASSUME TypeInv, NEW t \in Turns, TurnStep(t)
    PROVE  \/ /\ pc[t] \in Between /\ pc'[t] \in Between \union {"ended"}
              /\ SameRound(t) /\ shown'[t] = shown[t] /\ requests'[t] = requests[t]
              /\ pc[t] = "idle" \/ model_cursor'[t] = model_cursor[t]
           \/ /\ pc[t] = "send" /\ pc'[t] = "stream" /\ model_cursor'[t] = model_cursor[t]
              /\ SameRound(t) /\ shown'[t] = shown[t] /\ requests'[t] = More(t)
              /\ ask'[t] = <<round_trips[t], model_cursor[t]>>
           \/ /\ pc[t] = "send" /\ NextOrOut(t)
              /\ SameRound(t) /\ shown'[t] = shown[t] /\ requests'[t] = More(t)
           \/ /\ pc[t] = "stream" /\ pc'[t] = "stream" /\ model_cursor'[t] = model_cursor[t]
              /\ SameRound(t) /\ requests'[t] = requests[t] /\ ask'[t] = ask[t] /\ forwarded_any'[t]
              /\ shown'[t] = shown[t] \/ shown'[t] = Sent(t, "event")
           \/ /\ pc[t] = "stream" /\ ~forwarded_any[t] /\ NextOrOut(t)
              /\ SameRound(t) /\ shown'[t] = shown[t] /\ requests'[t] = requests[t]
           \/ /\ pc[t] = "stream" /\ pc'[t] = "ended"
              /\ SameRound(t) /\ requests'[t] = requests[t]
              /\ shown'[t] = shown[t] \/ shown'[t] = Sent(t, "prose")
           \/ /\ pc[t] = "stream" /\ pc'[t] = "judge" /\ round_trips'[t] = round_trips[t] + 1
              /\ dropped'[t] = dropped[t] /\ shown'[t] = shown[t] /\ requests'[t] = requests[t]
              /\ ask'[t] = ask[t] /\ model_cursor'[t] = model_cursor[t]
           \/ /\ pc[t] = "judge" /\ pc'[t] \in {"step", "converge", "ended"}
              /\ round_trips'[t] = round_trips[t] /\ requests'[t] = requests[t]
              /\ model_cursor'[t] \in {model_cursor[t], model_cursor[t] + 1}
              /\ \/ dropped'[t] = dropped[t] \union {ask[t]} /\ shown'[t] = shown[t]
                 \/ /\ dropped'[t] = dropped[t]
                    /\ shown'[t] = shown[t] \/ shown'[t] = Sent(t, "prose")
<1>. USE DEF sending, Goto, Close, Between, SameRound, NextOrOut, More
<1>0. /\ pc \in [Turns -> Places] /\ model_cursor \in [Turns -> Chain]
      /\ round_trips \in [Turns -> 0 .. MaxSteps]
      /\ forwarded_any \in [Turns -> BOOLEAN]
      /\ ask \in [Turns -> Nat \X Chain] /\ requests \in [Turns -> Nat]
      /\ shown \in [Turns -> SUBSET ({"prose", "event"} \X Nat \X Chain)]
      /\ dropped \in [Turns -> SUBSET (Nat \X Chain)]
  BY DEF TypeInv, TypeOK, Places
<1>1. CASE StartTurn(t)
  BY <1>1, <1>0 DEF StartTurn, Send, FlushHeld, NextCursor, Silent
<1>2. CASE BeginStep(t) \/ Summarise(t)
  BY <1>2, <1>0 DEF BeginStep, Summarise, Send, FlushHeld, NextCursor, Silent
<1>3. CASE OutOfSteps(t)
  BY <1>3, <1>0 DEF OutOfSteps, Send, FlushHeld, NextCursor, Silent
<1>4. CASE Opened(t)
  BY <1>4, <1>0 DEF Opened, Send, FlushHeld, NextCursor, Silent
<1>5. CASE OpenFails(t)
  BY <1>5, <1>0 DEF FailSilently, OpenFails, Send, FlushHeld, NextCursor, Silent
<1>6. CASE ReadEvent(t)
  BY <1>6, <1>0 DEF ReadEvent, Send, FlushHeld, NextCursor, Silent
<1>7. CASE StreamFails(t)
  BY <1>7, <1>0 DEF FailSilently, StreamFails, Send, FlushHeld, NextCursor, Silent
<1>8. CASE StreamEnds(t)
  BY <1>8, <1>0 DEF StreamEnds, Send, FlushHeld, NextCursor, Silent
<1>9. CASE OverBudget(t)
  BY <1>9, <1>0 DEF OverBudget, Send, FlushHeld, NextCursor, Silent
<1>10. CASE PauseContinues(t)
  BY <1>10, <1>0 DEF PauseContinues, Send, FlushHeld, NextCursor, Silent
<1>11. CASE LiveOpsFallback(t)
  BY <1>11, <1>0 DEF NoCalls, LiveOpsFallback, Send, FlushHeld, NextCursor, Silent
<1>12. CASE RefuseTruncated(t)
  BY <1>12, <1>0 DEF Settled, NoCalls, RefuseTruncated, Send, FlushHeld, NextCursor,
     Silent
<1>13. CASE Accept(t)
  BY <1>13, <1>0 DEF Settled, NoCalls, Accept, Send, FlushHeld, NextCursor, Silent
<1>14. CASE LiveOpsNudge(t)
  BY <1>14, <1>0 DEF NoCalls, Bounce, LiveOpsNudge, Send, FlushHeld, NextCursor, Silent
<1>15. CASE BounceClaim(t)
  BY <1>15, <1>0 DEF Settled, NoCalls, Bounce, BounceClaim, Send, FlushHeld, NextCursor,
     Silent
<1>16. CASE BounceNoEdit(t)
  BY <1>16, <1>0 DEF Settled, NoCalls, Bounce, BounceNoEdit, Send, FlushHeld, NextCursor,
     Silent
<1>17. CASE BounceUnverified(t)
  BY <1>17, <1>0 DEF Settled, NoCalls, Bounce, BounceUnverified, Send, FlushHeld,
     NextCursor, Silent
<1>18. CASE RunTools(t)
  BY <1>18, <1>0 DEF RunTools, Send, FlushHeld, NextCursor, Silent
<1>19. CASE StopVerified(t) \/ StopNoProgress(t)
  BY <1>19, <1>0 DEF StopVerified, StopNoProgress, Send, FlushHeld, NextCursor, Silent
<1>20. CASE KeepGoing(t)
  BY <1>20, <1>0 DEF KeepGoing, Send, FlushHeld, NextCursor, Silent
<1>. QED
  BY <1>1, <1>2, <1>3, <1>4, <1>5, <1>6, <1>7, <1>8, <1>9, <1>10, <1>11, <1>12, <1>13, <1>14, <1>15, <1>16, <1>17, <1>18, <1>19, <1>20 DEF TurnStep

LEMMA RoundTypes ==
    ASSUME TypeInv, NEW t \in Turns
    PROVE  /\ pc[t] \in Places /\ round_trips[t] \in Nat /\ round_trips[t] <= MaxSteps
           /\ model_cursor[t] \in Nat /\ model_cursor[t] <= Fallbacks
           /\ requests[t] \in Nat /\ ask[t] \in Nat \X Nat
           /\ \A x \in shown[t] : x \in {"prose", "event"} \X Nat \X Nat
           /\ \A a \in dropped[t] : a \in Nat \X Nat
           /\ MaxSteps \in Nat /\ Fallbacks \in Nat
<1>1. Chain \subseteq Nat /\ \A i \in Chain : i <= Fallbacks
  BY AgentAssumption DEF Chain
<1>2. /\ pc[t] \in Places /\ round_trips[t] \in 0 .. MaxSteps /\ model_cursor[t] \in Chain
      /\ requests[t] \in Nat /\ ask[t] \in Nat \X Chain
      /\ shown[t] \subseteq {"prose", "event"} \X Nat \X Chain
      /\ dropped[t] \subseteq Nat \X Chain
  BY DEF TypeInv, TypeOK, Places
<1>3. \A x \in shown[t] : x \in {"prose", "event"} \X Nat \X Nat
  BY <1>1, <1>2
<1>4. \A a \in dropped[t] : a \in Nat \X Nat
  BY <1>1, <1>2
<1>5. ask[t] \in Nat \X Nat
  BY <1>1, <1>2
<1>6. model_cursor[t] \in Nat /\ model_cursor[t] <= Fallbacks
  BY <1>1, <1>2
<1>. QED
  BY <1>2, <1>3, <1>4, <1>5, <1>6, AgentAssumption

LEMMA SpentStep ==
    ASSUME TypeInv, NEW t \in Turns, TurnStep(t), Spent(t), TypeInv'
    PROVE  Spent(t)'
<1>1. /\ round_trips[t] \in Nat /\ round_trips[t] <= MaxSteps
      /\ model_cursor[t] \in Nat /\ model_cursor[t] <= Fallbacks
      /\ requests[t] \in Nat /\ pc[t] \in Places
      /\ MaxSteps \in Nat /\ Fallbacks \in Nat
  BY RoundTypes
<1>2. model_cursor'[t] \in Nat /\ round_trips'[t] \in Nat
  <2>1. model_cursor'[t] \in Chain /\ round_trips'[t] \in 0 .. MaxSteps
    BY DEF TypeInv, TypeOK
  <2>. QED
    BY <2>1, AgentAssumption DEF Chain
<1>3. pc[t] \in {"send", "stream"} => round_trips[t] < MaxSteps
  BY DEF TypeInv, Underway
<1>4. pc[t] # "idle" => pc'[t] # "idle"
  BY Leaves DEF TypeInv, TypeOK, Goto, Close
<1>. QED
  BY <1>1, <1>2, <1>3, <1>4, RoundMoves DEF Spent, Between, SameRound, NextOrOut, More

LEMMA VoicesStep ==
    ASSUME TypeInv, NEW t \in Turns, TurnStep(t), Voices(t)
    PROVE  Voices(t)'
<1>1. /\ pc[t] \in Places /\ round_trips[t] \in Nat /\ model_cursor[t] \in Nat /\ ask[t] \in Nat \X Nat
      /\ \A x \in shown[t] : x \in {"prose", "event"} \X Nat \X Nat
      /\ \A a \in dropped[t] : a \in Nat \X Nat
  BY RoundTypes
<1>2. \A what : Sent(t, what) = shown[t] \union {<<what, ask[t][1], ask[t][2]>>}
  BY DEF Sent
<1>3. ask[t] = <<ask[t][1], ask[t][2]>> /\ ask[t][1] \in Nat /\ ask[t][2] \in Nat
  BY <1>1
<1>. USE DEF Between, SameRound
<1>4. CASE /\ pc[t] \in Between /\ pc'[t] \in Between \union {"ended"}
           /\ SameRound(t) /\ shown'[t] = shown[t]
  BY <1>4 DEF Voices
<1>5. CASE /\ pc[t] = "send" /\ pc'[t] = "stream" /\ model_cursor'[t] = model_cursor[t]
           /\ SameRound(t) /\ shown'[t] = shown[t]
           /\ ask'[t] = <<round_trips[t], model_cursor[t]>>
  BY <1>5 DEF Voices
<1>6. CASE pc[t] = "send" /\ NextOrOut(t) /\ SameRound(t) /\ shown'[t] = shown[t]
  BY <1>6 DEF Voices, NextOrOut
<1>7. CASE /\ pc[t] = "stream" /\ pc'[t] = "stream" /\ model_cursor'[t] = model_cursor[t]
           /\ SameRound(t) /\ ask'[t] = ask[t] /\ forwarded_any'[t]
           /\ shown'[t] = shown[t] \/ shown'[t] = Sent(t, "event")
  BY <1>1, <1>2, <1>3, <1>7 DEF Voices
<1>8. CASE pc[t] = "stream" /\ ~forwarded_any[t] /\ NextOrOut(t) /\ SameRound(t) /\ shown'[t] = shown[t]
  BY <1>8 DEF Voices, NextOrOut
<1>9. CASE /\ pc[t] = "stream" /\ pc'[t] = "ended" /\ SameRound(t)
           /\ shown'[t] = shown[t] \/ shown'[t] = Sent(t, "prose")
  BY <1>1, <1>2, <1>3, <1>9 DEF Voices
<1>10. CASE /\ pc[t] = "stream" /\ pc'[t] = "judge" /\ round_trips'[t] = round_trips[t] + 1
            /\ dropped'[t] = dropped[t] /\ shown'[t] = shown[t] /\ ask'[t] = ask[t]
  BY <1>1, <1>3, <1>10 DEF Voices
<1>11. CASE /\ pc[t] = "judge" /\ pc'[t] \in {"step", "converge", "ended"}
            /\ round_trips'[t] = round_trips[t]
            /\ \/ dropped'[t] = dropped[t] \union {ask[t]} /\ shown'[t] = shown[t]
               \/ /\ dropped'[t] = dropped[t]
                  /\ shown'[t] = shown[t] \/ shown'[t] = Sent(t, "prose")
  BY <1>1, <1>2, <1>3, <1>11 DEF Voices
<1>. QED
  BY <1>4, <1>5, <1>6, <1>7, <1>8, <1>9, <1>10, <1>11, RoundMoves

RoundInv == \A t \in Turns : Voices(t) /\ Spent(t)

LEMMA RoundInit == Init => RoundInv
  BY AgentAssumption DEF Init, RoundInv, Voices, Spent, Between

LEMMA RoundNext == TypeInv /\ RoundInv /\ [Next]_vars => RoundInv'
<1>. SUFFICES ASSUME TypeInv, RoundInv, [Next]_vars PROVE RoundInv'
  OBVIOUS
<1>1. CASE UNCHANGED vars \/ Tick
  BY <1>1 DEF vars, Tick, closing, sending, RoundInv, Voices, Spent
<1>2. CASE \E t \in Turns : TurnStep(t)
  <2>1. PICK t \in Turns : TurnStep(t)
    BY <1>2
  <2>2. Voices(t)' /\ Spent(t)'
    BY <2>1, VoicesStep, SpentStep, TypeNext DEF RoundInv
  <2>3. ASSUME NEW u \in Turns, u # t PROVE Voices(u)' /\ Spent(u)'
    BY <2>1, <2>3, Others DEF RoundInv, Voices, Spent
  <2>. QED
    BY <2>2, <2>3 DEF RoundInv
<1>. QED
  BY <1>1, <1>2, Steps

----------------------------------------------------------------------------
\* Calls and their results

\* A history that begins with the user, its calls answered except for one at
\* its end that is being run, its results answers except behind a summary.
Whole(h, running) ==
    /\ Len(h) > 0 /\ h[1] = "user"
    /\ \A i \in 2 .. Len(h) : h[i] = "result" => h[i - 1] = "call" \/ (i = 3 /\ h[2] = "user")
    /\ \A i \in 1 .. Len(h) : h[i] = "call" => \/ i < Len(h) /\ h[i + 1] = "result"
                                               \/ i = Len(h) /\ running
    /\ running => h[Len(h)] = "call"

\* What a history of the session's memory and the user's message make.
SeedsWhole == \A h \in Seeds : Whole(h, FALSE)

HistoryInv == \A t \in Turns : Whole(history[t], pc[t] = "converge")

LEMMA Appended ==
    ASSUME NEW h \in Seq(Kinds), NEW k \in Kinds
    PROVE  /\ Append(h, k) \in Seq(Kinds) /\ Len(Append(h, k)) = Len(h) + 1
           /\ \A i \in 1 .. Len(h) : Append(h, k)[i] = h[i]
           /\ Append(h, k)[Len(h) + 1] = k
  OBVIOUS

LEMMA AppendWhole ==
    ASSUME NEW h \in Seq(Kinds), NEW k \in {"asst", "user", "call"}, Whole(h, FALSE)
    PROVE  /\ k = "call" => Whole(Append(h, k), TRUE)
           /\ k # "call" => Whole(Append(h, k), FALSE)
<1>. DEFINE g == Append(h, k)
<1>1. k \in Kinds /\ Len(h) \in Nat
  BY DEF Kinds
<1>2. /\ Len(g) = Len(h) + 1 /\ g[Len(h) + 1] = k
      /\ \A i \in 1 .. Len(h) : g[i] = h[i]
  BY <1>1, Appended
<1>. HIDE DEF g
<1>3. Len(g) > 0 /\ g[1] = "user"
  BY <1>1, <1>2 DEF Whole
<1>4. ASSUME NEW i \in 2 .. Len(g), g[i] = "result"
      PROVE  g[i - 1] = "call" \/ (i = 3 /\ g[2] = "user")
  <2>1. i \in 2 .. Len(h) /\ i - 1 \in 1 .. Len(h) /\ 2 \in 1 .. Len(h)
    BY <1>1, <1>2, <1>4
  <2>. QED
    BY <1>2, <1>4, <2>1 DEF Whole
<1>5. ASSUME NEW i \in 1 .. Len(g), g[i] = "call"
      PROVE  \/ i < Len(g) /\ g[i + 1] = "result"
             \/ i = Len(g) /\ k = "call"
  <2>1. CASE i \in 1 .. Len(h)
    <3>1. i < Len(h) /\ h[i + 1] = "result"
      BY <1>2, <1>5, <2>1 DEF Whole
    <3>2. i + 1 \in 1 .. Len(h)
      BY <1>1, <2>1, <3>1
    <3>. QED
      BY <1>1, <1>2, <3>1, <3>2
  <2>2. CASE i = Len(h) + 1
    BY <1>2, <1>5, <2>2
  <2>. QED
    BY <1>1, <1>2, <2>1, <2>2
<1>. QED
  BY <1>2, <1>3, <1>4, <1>5 DEF Whole, g

LEMMA ResultWhole ==
    ASSUME NEW h \in Seq(Kinds), Whole(h, TRUE)
    PROVE  Whole(Append(h, "result"), FALSE)
<1>. DEFINE g == Append(h, "result")
<1>1. "result" \in Kinds /\ Len(h) \in Nat
  BY DEF Kinds
<1>2. /\ Len(g) = Len(h) + 1 /\ g[Len(h) + 1] = "result"
      /\ \A i \in 1 .. Len(h) : g[i] = h[i]
  BY <1>1, Appended
<1>. HIDE DEF g
<1>3. Len(g) > 0 /\ g[1] = "user"
  BY <1>1, <1>2 DEF Whole
<1>4. ASSUME NEW i \in 2 .. Len(g), g[i] = "result"
      PROVE  g[i - 1] = "call" \/ (i = 3 /\ g[2] = "user")
  <2>1. CASE i \in 2 .. Len(h)
    <3>1. i - 1 \in 1 .. Len(h) /\ 2 \in 1 .. Len(h)
      BY <1>1, <2>1
    <3>. QED
      BY <1>2, <1>4, <2>1, <3>1 DEF Whole
  <2>2. CASE i = Len(h) + 1
    <3>1. i - 1 = Len(h) /\ Len(h) \in 1 .. Len(h)
      BY <1>1, <1>2, <2>2
    <3>. QED
      BY <1>2, <3>1 DEF Whole
  <2>. QED
    BY <1>1, <1>2, <2>1, <2>2
<1>5. ASSUME NEW i \in 1 .. Len(g), g[i] = "call"
      PROVE  i < Len(g) /\ g[i + 1] = "result"
  <2>1. i \in 1 .. Len(h)
    BY <1>1, <1>2, <1>5
  <2>2. (i < Len(h) /\ h[i + 1] = "result") \/ i = Len(h)
    BY <1>2, <1>5, <2>1 DEF Whole
  <2>3. i < Len(h) => i + 1 \in 1 .. Len(h)
    BY <1>1, <2>1
  <2>. QED
    BY <1>1, <1>2, <2>1, <2>2, <2>3
<1>. QED
  BY <1>2, <1>3, <1>4, <1>5 DEF Whole, g

\* Compaction keeps the first message, puts a summary and the latest behind it:
\* only at the third place may a result have lost its call.
LEMMA CompactWhole ==
    ASSUME NEW h \in Seq(Kinds), Len(h) >= Kept + 3, Whole(h, FALSE)
    PROVE  Whole(Compacted(h), FALSE)
<1>. DEFINE g == Compacted(h)
            tail == SubSeq(h, Len(h) - Kept + 1, Len(h))
            from == Len(h) - Kept - 2
<1>1. Kept \in Nat /\ Len(h) \in Nat /\ from \in Nat \ {0}
  BY AgentAssumption DEF Kept
<1>2. tail \in Seq(Kinds) /\ Len(tail) = Kept /\ \A i \in 1 .. Kept : tail[i] = h[(Len(h) - Kept + 1) + (i - 1)]
  BY <1>1
<1>3. /\ Len(g) = Kept + 2 /\ g[1] = "user" /\ g[2] = "user"
      /\ \A i \in 3 .. (Kept + 2) : g[i] = tail[i - 2]
  <2>1. Head(h) = "user"
    BY <1>1 DEF Whole
  <2>2. <<"user", "user">> \in Seq(Kinds)
    BY DEF Kinds
  <2>3. g = <<Head(h), "user">> \o tail
    BY DEF Compacted
  <2>4. g = <<"user", "user">> \o tail
    BY <2>1, <2>3, Zenon
  <2>. HIDE DEF g, tail
  <2>. QED
    BY <1>1, <1>2, <2>2, <2>4
<1>. HIDE DEF g, tail
<1>4. \A i \in 3 .. (Kept + 2) : g[i] = h[from + i] /\ from + i \in 4 .. Len(h)
  <2>. SUFFICES ASSUME NEW i \in 3 .. (Kept + 2) PROVE g[i] = h[from + i] /\ from + i \in 4 .. Len(h)
    OBVIOUS
  <2>1. i - 2 \in 1 .. Kept /\ (Len(h) - Kept + 1) + ((i - 2) - 1) = from + i
    BY <1>1
  <2>2. g[i] = h[from + i]
    BY <1>2, <1>3, <2>1
  <2>. QED
    BY <1>1, <2>2
<1>. HIDE DEF from
<1>5. ASSUME NEW i \in 2 .. Len(g), g[i] = "result"
      PROVE  g[i - 1] = "call" \/ (i = 3 /\ g[2] = "user")
  <2>1. CASE i \in {2, 3}
    BY <1>3, <1>5, <2>1
  <2>2. CASE i \in 4 .. (Kept + 2)
    <3>1. g[i] = h[from + i] /\ from + i \in 2 .. Len(h) /\ from + i # 3
      BY <1>1, <1>4, <2>2
    <3>2. h[(from + i) - 1] = "call"
      BY <1>5, <3>1 DEF Whole
    <3>3. i - 1 \in 3 .. (Kept + 2) /\ from + (i - 1) = (from + i) - 1
      BY <1>1, <2>2
    <3>. QED
      BY <1>4, <3>2, <3>3
  <2>. QED
    BY <1>1, <1>3, <2>1, <2>2
<1>6. ASSUME NEW i \in 1 .. Len(g), g[i] = "call"
      PROVE  i < Len(g) /\ g[i + 1] = "result"
  <2>1. i \in 3 .. (Kept + 2)
    BY <1>1, <1>3, <1>6
  <2>2. g[i] = h[from + i] /\ from + i \in 1 .. Len(h)
    BY <1>1, <1>4, <2>1
  <2>3. from + i < Len(h) /\ h[(from + i) + 1] = "result"
    BY <1>6, <2>2 DEF Whole
  <2>4. i + 1 \in 3 .. (Kept + 2) /\ from + (i + 1) = (from + i) + 1
    BY <1>1, <2>1, <2>3 DEF from
  <2>. QED
    BY <1>1, <1>3, <1>4, <2>1, <2>3, <2>4
<1>. QED
  BY <1>1, <1>3, <1>5, <1>6 DEF Whole, g

LEMMA HistoryInit == SeedsWhole /\ Init => HistoryInv
  BY DEF SeedsWhole, Init, HistoryInv

LEMMA HistoryStep ==
    ASSUME TypeInv, NEW t \in Turns, TurnStep(t), Whole(history[t], pc[t] = "converge")
    PROVE  Whole(history[t], pc[t] = "converge")'
<1>. DEFINE h == history[t]
<1>1. history \in [Turns -> Seq(Kinds)] /\ pc \in [Turns -> Places] /\ h \in Seq(Kinds)
  BY DEF TypeInv, TypeOK, Places
<1>2. CASE UNCHANGED <<history, pc>>
  BY <1>2
<1>3. CASE UNCHANGED history /\ pc[t] # "converge" /\ pc'[t] # "converge"
  BY <1>3 DEF Whole
<1>4. CASE pc[t] = "summary" /\ pc' = [pc EXCEPT ![t] = "send"] /\ history' = [history EXCEPT ![t] = Compacted(@)]
  <2>1. Len(h) >= Kept + 3 /\ Whole(h, FALSE)
    BY <1>4 DEF TypeInv, Whole
  <2>2. Whole(Compacted(h), FALSE)
    BY <1>1, <2>1, CompactWhole
  <2>3. history'[t] = Compacted(h) /\ pc'[t] = "send"
    BY <1>1, <1>4
  <2>. QED
    BY <2>2, <2>3 DEF Whole
<1>5. ASSUME NEW k \in {"asst", "user", "call"}, pc[t] # "converge",
             history'[t] = Append(h, k), pc'[t] = "converge" <=> k = "call"
      PROVE  Whole(history[t], pc[t] = "converge")'
  <2>1. Whole(h, FALSE)
    BY <1>5 DEF Whole
  <2>2. /\ k = "call" => Whole(Append(h, k), TRUE)
        /\ k # "call" => Whole(Append(h, k), FALSE)
    BY <1>1, <2>1, AppendWhole
  <2>. QED
    BY <1>5, <2>2 DEF Whole
<1>6. CASE /\ pc[t] \in {"idle", "judge"} /\ pc' = [pc EXCEPT ![t] = "step"]
           /\ history' = [history EXCEPT ![t] = Append(@, "asst")]
  BY <1>1, <1>5, <1>6
<1>7. CASE /\ pc[t] = "judge" /\ pc' = [pc EXCEPT ![t] = "step"]
           /\ \E m \in {<<"user">>, <<"asst", "user">>} : history' = [history EXCEPT ![t] = @ \o m]
  <2>1. h \o <<"user">> = Append(h, "user")
    BY <1>1
  <2>2. h \o <<"asst", "user">> = Append(Append(h, "asst"), "user")
    BY <1>1 DEF Kinds
  <2>3. Whole(h, FALSE)
    BY <1>7 DEF Whole
  <2>4. Append(h, "asst") \in Seq(Kinds) /\ Whole(Append(h, "asst"), FALSE)
    BY <1>1, <2>3, AppendWhole, Appended DEF Kinds
  <2>5. \A g \in {h, Append(h, "asst")} : Whole(Append(g, "user"), FALSE)
    BY <1>1, <2>3, <2>4, AppendWhole
  <2>6. history'[t] \in {Append(h, "user"), Append(Append(h, "asst"), "user")} /\ pc'[t] = "step"
    BY <1>1, <1>7, <2>1, <2>2
  <2>. QED
    BY <2>5, <2>6 DEF Whole
<1>8. CASE /\ pc[t] = "judge" /\ pc' = [pc EXCEPT ![t] = "converge"]
           /\ history' = [history EXCEPT ![t] = Append(@, "call")]
  BY <1>1, <1>5, <1>8
<1>9. CASE /\ pc[t] = "converge" /\ (\E place \in {"step", "ended"} : pc' = [pc EXCEPT ![t] = place])
           /\ history' = [history EXCEPT ![t] = Append(@, "result")]
  <2>1. Whole(h, TRUE)
    BY <1>9 DEF Whole
  <2>2. history'[t] = Append(h, "result") /\ pc'[t] \in {"step", "ended"}
    BY <1>1, <1>9
  <2>. QED
    BY <1>1, <2>1, <2>2, ResultWhole DEF Whole
<1>. QED
  BY <1>2, <1>3, <1>4, <1>6, <1>7, <1>8, <1>9, HistoryMoves

LEMMA HistoryNext == TypeInv /\ HistoryInv /\ [Next]_vars => HistoryInv'
<1>. SUFFICES ASSUME TypeInv, HistoryInv, [Next]_vars PROVE HistoryInv'
  OBVIOUS
<1>1. CASE UNCHANGED vars \/ Tick
  BY <1>1 DEF vars, Tick, HistoryInv
<1>2. CASE \E t \in Turns : TurnStep(t)
  <2>1. PICK t \in Turns : TurnStep(t)
    BY <1>2
  <2>2. Whole(history[t], pc[t] = "converge")'
    BY <2>1, HistoryStep DEF HistoryInv
  <2>3. ASSUME NEW u \in Turns, u # t PROVE Whole(history[u], pc[u] = "converge")'
    <3>1. history'[u] = history[u] /\ pc'[u] = pc[u]
      BY <2>1, <2>3, Others
    <3>. QED
      BY <3>1 DEF HistoryInv
  <2>. QED
    BY <2>2, <2>3 DEF HistoryInv
<1>. QED
  BY <1>1, <1>2, Steps

LEMMA StartsAtFirst ==
    ASSUME TypeInv, NEW t \in Turns, TurnStep(t), pc[t] = "idle", pc'[t] # "idle"
    PROVE  model_cursor'[t] = FirstAvailable
<1>0. model_cursor \in [Turns -> Chain]
  BY DEF TypeInv, TypeOK
<1>1. StartTurn(t)
  BY DEF TurnStep, BeginStep, Summarise, OutOfSteps, Opened, OpenFails, ReadEvent, StreamFails,
         StreamEnds, OverBudget, PauseContinues, LiveOpsNudge, LiveOpsFallback, RefuseTruncated,
         BounceClaim, BounceNoEdit, BounceUnverified, Accept, RunTools, StopVerified,
         StopNoProgress, KeepGoing, NoCalls, Settled
<1>. QED
  BY <1>0, <1>1 DEF StartTurn

----------------------------------------------------------------------------
\* The theorems

LEMMA TypeAlways == Spec => []TypeInv
<1>. QED
  BY TypeInit, TypeNext, PTL DEF Spec

\* Every reachable state of the turns and of the breaker is well typed.
THEOREM TypeCorrect == Spec => []TypeOK
<1>. QED
  BY TypeAlways, PTL DEF TypeInv

\* No prose of a reply that was bounced, truncated or over its budget reaches the
\* client (run_loop), for any number of turns, models, steps and nudges.
THEOREM NoDiscardedProseAlways == Spec => []NoDiscardedProse
<1>1. RoundInv => NoDiscardedProse
  BY DEF RoundInv, Voices, NoDiscardedProse
<1>. QED
  BY <1>1, RoundInit, RoundNext, TypeAlways, PTL DEF Spec

\* All that the client hears of one round-trip was said by one model: the send
\* loop falls back only while the round is silent.
THEOREM OneVoiceAlways == Spec => []OneVoicePerRound
<1>1. RoundInv => OneVoicePerRound
  BY DEF RoundInv, Voices, OneVoicePerRound
<1>. QED
  BY <1>1, RoundInit, RoundNext, TypeAlways, PTL DEF Spec

\* A turn's requests are bounded by its steps and the length of the chain, however
\* failures, bounces, pauses and live-ops hops fall.
THEOREM RequestsBoundedAlways == Spec => []RequestsBounded
<1>1. TypeInv /\ RoundInv => RequestsBounded
  <2>. SUFFICES ASSUME TypeInv, RoundInv, NEW t \in Turns
                PROVE  requests[t] <= MaxSteps + Fallbacks
    BY DEF RequestsBounded
  <2>1. /\ round_trips[t] \in Nat /\ round_trips[t] <= MaxSteps
        /\ model_cursor[t] \in Nat /\ model_cursor[t] <= Fallbacks
        /\ requests[t] \in Nat /\ pc[t] \in Places
        /\ MaxSteps \in Nat /\ Fallbacks \in Nat
    BY RoundTypes
  <2>2. pc[t] \in Underway => round_trips[t] < MaxSteps
    BY DEF TypeInv
  <2>. QED
    BY <2>1, <2>2 DEF RoundInv, Spent, Between, Places, Underway
<1>. QED
  BY <1>1, RoundInit, RoundNext, TypeAlways, PTL DEF Spec

\* A position that failed in a turn is never asked again in it.
THEOREM FailedStaysSkippedAlways == Spec => []FailedStaysSkipped
<1>1. TypeInv /\ ChainInv => FailedStaysSkipped
  <2>. SUFFICES ASSUME TypeInv, ChainInv, NEW t \in Turns, pc[t] \in {"send", "stream"},
                       model_cursor[t] \in failed[t]
                PROVE  FALSE
    BY DEF FailedStaysSkipped
  <2>1. model_cursor[t] < model_cursor[t] /\ model_cursor[t] \in Nat
    BY RoundTypes DEF ChainInv
  <2>. QED
    BY <2>1
<1>. QED
  BY <1>1, ChainInit, ChainNext, TypeAlways, PTL DEF Spec

\* Every way out of run_loop records one observation and closes the sink once.
THEOREM AccountedAlways == Spec => []Accounted
<1>. QED
  BY AccountedInit, AccountedNext, TypeAlways, PTL DEF Spec

\* The demotions of the shared CircuitBreaker never add up, whatever turns fail
\* together.
THEOREM DemotionEarnedAlways == Spec => []DemotionEarned
<1>. QED
  BY DemotionInit, DemotionNext, TypeAlways, PTL DEF Spec

\* A turn enters the chain behind a model only for a failure of that model less
\* than a cooldown ago (CircuitBreaker::first_available).
THEOREM SkippedForCauseAlways == Spec => SkippedForCause
<1>. DEFINE Caused == \A t \in Turns : pc[t] = "idle" /\ pc'[t] # "idle" =>
                         /\ \A i \in Chain : i < model_cursor'[t] => FailedRecently(i)
                         /\ IsOpen(model_cursor'[t]) => \A i \in Chain : FailedRecently(i)
<1>1. TypeInv /\ DemotionEarned /\ [Next]_vars => [Caused]_vars
  <2>. SUFFICES ASSUME TypeInv, DemotionEarned, [Next]_vars, ~UNCHANGED vars,
                       NEW t \in Turns, pc[t] = "idle", pc'[t] # "idle"
                PROVE  /\ \A i \in Chain : i < model_cursor'[t] => FailedRecently(i)
                       /\ IsOpen(model_cursor'[t]) => \A i \in Chain : FailedRecently(i)
    OBVIOUS
  <2>1. PICK u \in Turns : TurnStep(u)
    BY Steps DEF Tick
  <2>2. u = t
    BY <2>1, Others
  <2>3. model_cursor \in [Turns -> Chain] /\ now \in Nat /\ deadlines \in [Chain -> Nat]
    BY DEF TypeInv, TypeOK
  <2>4. model_cursor'[t] = FirstAvailable
    BY <2>1, <2>2, <2>3, StartsAtFirst
  <2>5. \A i \in Chain : IsOpen(i) => FailedRecently(i)
    BY <2>3 DEF IsOpen, FailedRecently, DemotionEarned
  <2>6. /\ \A i \in Chain : i < FirstAvailable => IsOpen(i)
        /\ IsOpen(FirstAvailable) => \A i \in Chain : IsOpen(i)
    BY FirstAvailableFacts DEF TypeInv
  <2>. QED
    BY <2>4, <2>5, <2>6
<1>. QED
  BY <1>1, TypeAlways, DemotionEarnedAlways, PTL DEF Spec, SkippedForCause

\* When the seeds are whole, every call is answered right behind it, over bounces,
\* pauses and every way out, but for the first message that a compaction keeps.
THEOREM TornOnlyAtTheCutAlways == ASSUME SeedsWhole PROVE Spec => []TornOnlyAtTheCut
<1>1. HistoryInv => TornOnlyAtTheCut
  BY DEF HistoryInv, Whole, TornOnlyAtTheCut
<1>2. Init => HistoryInv
  BY HistoryInit
<1>. QED
  BY <1>1, <1>2, HistoryNext, TypeAlways, PTL DEF Spec

==============================================================================
