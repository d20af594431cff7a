------------------------------ MODULE AgentLoop ------------------------------
(***************************************************************************)
(* The reasoning loop of lvz-agent (src/crates/lvz-agent/src/lib.rs):      *)
(* run_loop, one detached task per turn, with the chain of models it falls *)
(* back along, the guards that bounce a reply, the convergence levers, and *)
(* the circuit breaker that every turn of one agent shares.                *)
(*                                                                         *)
(* A message of the history is only its kind: "user" (prose of the user, a *)
(* nudge or a summary), "asst" (an assistant message without calls),       *)
(* "call" (an assistant message with tool calls) and "result" (the tool    *)
(* results that answer it).  A reply is only what the loop tells apart in  *)
(* it.  Prose, prompts, knobs, costs and tokens are left out: whether the  *)
(* history is over the compaction knob, whether the budget is spent,       *)
(* whether a tool changed a file and whether the verify command passes are *)
(* choices.  So are whether a tool is on the turn's allowlist and whether  *)
(* the gate lets it run: a refused call still gets its error result.  The  *)
(* tool_choice of a request is not kept: the provider may ignore it.       *)
(***************************************************************************)
EXTENDS Integers, Sequences, FiniteSets

CONSTANTS
    Turns,             \* the turns of one agent that may run
    Fallbacks,         \* fallbacks.len(): the chain is 0..Fallbacks
    Cooldown,          \* CircuitBreaker.cooldown_ms
    MaxSteps,          \* AgentConfig.max_steps
    KeepRecent,        \* KEEP_RECENT_TURNS
    Configs,           \* what Init may choose as a turn's configuration
    Seeds,             \* the histories a turn may be seeded with
    MaxLiveOpsNudges, MaxClaimNudges, MaxEditNudges, MaxFixAttempts,
    Horizon            \* bound of the clock

ConfigFields == [live_ops_ask : BOOLEAN, plans : BOOLEAN, require_edit : BOOLEAN,
                 verify_and_fix : BOOLEAN, in_loop_verify : BOOLEAN,
                 budget : BOOLEAN, no_progress_limit : Nat]

Kinds == {"user", "asst", "call", "result"}

ASSUME AgentAssumption ==
    /\ Fallbacks \in Nat
    /\ Cooldown \in Nat \ {0}
    /\ MaxSteps \in Nat
    /\ KeepRecent \in Nat
    /\ Configs \subseteq ConfigFields
    /\ Seeds \subseteq Seq(Kinds)
    /\ MaxLiveOpsNudges \in Nat /\ MaxClaimNudges \in Nat
    /\ MaxEditNudges \in Nat /\ MaxFixAttempts \in Nat
    /\ Horizon \in Nat

Chain == 0 .. Fallbacks

Replies == {"tools", "pause", "truncated", "claim", "prose"}

VARIABLES
    now,          \* CircuitBreaker.now_ms
    deadlines,    \* CircuitBreaker.deadlines, by position of the chain
    config,       \* the configuration and the task of each turn
    pc,           \* the await each turn's task is at
    history,      \* the messages of the turn
    model_cursor, \* the position the turn asks
    round_trips,  \* replies read to their end
    forwarded_any, held,         \* of the stream being read
    reply,        \* what the stream added up to
    nudges,       \* the bounces so far, by guard
    task_edited, edit_free_streak, nudged_at,
    \* What an observer has seen; no guard reads these.
    ask,          \* the request being served: its round and its position
    requests,     \* how many chat requests the turn has sent, up to one too many
    shown,        \* what the client was sent: prose, other events, by request
    dropped,      \* the requests whose reply was refused
    failed,       \* the positions that failed in the turn
    tripped_at,   \* when each position last failed before it spoke
    prompted,     \* no-progress nudges since the last edit
    ending,       \* what closed the sink: Usage, Done or an error
    records       \* Observation::record calls

breaker == <<now, deadlines, tripped_at>>
sending == <<forwarded_any, held, ask, requests, shown, dropped, failed>>
levers == <<nudges, task_edited, edit_free_streak, nudged_at, prompted>>
closing == <<ending, records>>
vars == <<breaker, config, pc, history, model_cursor, round_trips, reply,
          sending, levers, closing>>

Count == [live_ops : Nat, claim : Nat, edit : Nat, fix : Nat]

(***************************************************************************)
(* Type invariant.                                                         *)
(***************************************************************************)
TypeOK ==
    /\ now \in Nat
    /\ deadlines \in [Chain -> Nat]
    /\ tripped_at \in [Chain -> Int]
    /\ config \in [Turns -> Configs]
    /\ pc \in [Turns -> {"idle", "step", "summary", "send", "stream", "judge",
                         "converge", "ended"}]
    /\ history \in [Turns -> Seq(Kinds)]
    /\ model_cursor \in [Turns -> Chain]
    /\ round_trips \in [Turns -> 0 .. MaxSteps]
    /\ forwarded_any \in [Turns -> BOOLEAN]
    /\ held \in [Turns -> BOOLEAN]
    /\ reply \in [Turns -> Replies]
    /\ nudges \in [Turns -> Count]
    /\ task_edited \in [Turns -> BOOLEAN]
    /\ edit_free_streak \in [Turns -> Nat]
    /\ nudged_at \in [Turns -> Nat]
    /\ ask \in [Turns -> Nat \X Chain]
    /\ requests \in [Turns -> Nat]
    /\ shown \in [Turns -> SUBSET ({"prose", "event"} \X Nat \X Chain)]
    /\ dropped \in [Turns -> SUBSET (Nat \X Chain)]
    /\ failed \in [Turns -> SUBSET Chain]
    /\ prompted \in [Turns -> Nat]
    /\ ending \in [Turns -> Seq({"usage", "done", "error"})]
    /\ records \in [Turns -> Nat]

Init ==
    /\ now = 0
    /\ deadlines = [i \in Chain |-> 0]
    /\ tripped_at = [i \in Chain |-> -Cooldown]
    /\ config \in [Turns -> Configs]
    /\ pc = [t \in Turns |-> "idle"]
    /\ history \in [Turns -> Seeds]
    /\ model_cursor = [t \in Turns |-> 0]
    /\ round_trips = [t \in Turns |-> 0]
    /\ forwarded_any = [t \in Turns |-> FALSE]
    /\ held = [t \in Turns |-> FALSE]
    /\ reply = [t \in Turns |-> "prose"]
    /\ nudges = [t \in Turns |-> [live_ops |-> 0, claim |-> 0, edit |-> 0, fix |-> 0]]
    /\ task_edited = [t \in Turns |-> FALSE]
    /\ edit_free_streak = [t \in Turns |-> 0]
    /\ nudged_at = [t \in Turns |-> 0]
    /\ ask = [t \in Turns |-> <<0, 0>>]
    /\ requests = [t \in Turns |-> 0]
    /\ shown = [t \in Turns |-> {}]
    /\ dropped = [t \in Turns |-> {}]
    /\ failed = [t \in Turns |-> {}]
    /\ prompted = [t \in Turns |-> 0]
    /\ ending = [t \in Turns |-> <<>>]
    /\ records = [t \in Turns |-> 0]

(***************************************************************************)
(* The circuit breaker.                                                    *)
(***************************************************************************)
IsOpen(i) == deadlines[i] > now

FirstAvailable ==
    LET healthy == {i \in Chain : ~IsOpen(i)}
    IN  IF healthy = {} THEN 0
        ELSE CHOOSE i \in healthy : \A j \in healthy : i <= j

Trip(i) == deadlines' = [deadlines EXCEPT ![i] = now + Cooldown]

Reset(i) == deadlines' = [deadlines EXCEPT ![i] = 0]

\* Milliseconds pass; no handler runs.
Tick ==
    /\ now < Horizon
    /\ now' = now + 1
    /\ UNCHANGED <<deadlines, tripped_at, config, pc, history, model_cursor, round_trips, reply,
                   sending, levers, closing>>

(***************************************************************************)
(* Leaving the loop: one observation, then the last items of the sink.     *)
(***************************************************************************)
Close(t, items) ==
    /\ pc' = [pc EXCEPT ![t] = "ended"]
    /\ ending' = [ending EXCEPT ![t] = @ \o items]
    /\ records' = [records EXCEPT ![t] = @ + 1]

Answered == <<"usage", "done">>
Errored == <<"error">>

Goto(t, place) ==
    /\ pc' = [pc EXCEPT ![t] = place]
    /\ UNCHANGED closing

(***************************************************************************)
(* The start of a turn: the optional plan of the council or of the advisor *)
(* is pushed as an assistant message, then the breaker says where the      *)
(* chain is entered.                                                       *)
(***************************************************************************)
StartTurn(t) ==
    /\ pc[t] = "idle"
    /\ \/ UNCHANGED history
       \/ /\ config[t].plans
          /\ history' = [history EXCEPT ![t] = Append(@, "asst")]
    /\ model_cursor' = [model_cursor EXCEPT ![t] = FirstAvailable]
    /\ Goto(t, "step")
    /\ UNCHANGED <<breaker, config, round_trips, reply, sending, levers>>

(***************************************************************************)
(* The top of a step.  Marking stale reads, deduplication and eviction     *)
(* rewrite the text of tool results and no message's kind; compaction      *)
(* needs enough messages and awaits the summary model.                     *)
(***************************************************************************)
Kept == 2 * KeepRecent

Compacted(h) == <<Head(h), "user">> \o SubSeq(h, Len(h) - Kept + 1, Len(h))

\* The chain entered afresh at every step, not once a turn.
BeginStepAfresh(t) ==
    /\ pc[t] = "step"
    /\ round_trips[t] < MaxSteps
    /\ Goto(t, "send")
    /\ model_cursor' = [model_cursor EXCEPT ![t] = FirstAvailable]
    /\ UNCHANGED <<breaker, config, history, round_trips, reply, sending, levers>>

BeginStep(t) ==
    /\ pc[t] = "step"
    /\ round_trips[t] < MaxSteps
    /\ \/ Goto(t, "send")
       \/ /\ Len(history[t]) >= Kept + 3
          /\ Goto(t, "summary")
    /\ UNCHANGED <<breaker, config, history, model_cursor, round_trips, reply,
                   sending, levers>>

Summarise(t) ==
    /\ pc[t] = "summary"
    /\ \/ history' = [history EXCEPT ![t] = Compacted(@)]
       \/ UNCHANGED history                  \* an error, or an empty summary
    /\ Goto(t, "send")
    /\ UNCHANGED <<breaker, config, model_cursor, round_trips, reply, sending, levers>>

\* A loop that runs off its end forgets the observation.
OutOfStepsUnrecorded(t) ==
    /\ pc[t] = "step"
    /\ round_trips[t] = MaxSteps
    /\ pc' = [pc EXCEPT ![t] = "ended"]
    /\ ending' = [ending EXCEPT ![t] = @ \o Answered]
    /\ UNCHANGED <<breaker, config, history, model_cursor, round_trips, reply,
                   sending, levers, records>>

OutOfSteps(t) ==
    /\ pc[t] = "step"
    /\ round_trips[t] = MaxSteps
    /\ Close(t, Answered)
    /\ UNCHANGED <<breaker, config, history, model_cursor, round_trips, reply,
                   sending, levers>>

(***************************************************************************)
(* The send: one attempt after another along the chain.  A failure that    *)
(* comes before any output demotes the position for a cooldown and hands   *)
(* the round to the next one.                                              *)
(***************************************************************************)
MayFallBack(t) == model_cursor[t] < Fallbacks

Send(t) ==
    /\ ask' = [ask EXCEPT ![t] = <<round_trips[t], model_cursor[t]>>]
    /\ requests' = [requests EXCEPT ![t] = IF @ > MaxSteps + Fallbacks THEN @ ELSE @ + 1]

\* Output already streamed does not stop the fallback.
AnyFailure(t) == pc[t] = "stream"

Silent(t) == ~forwarded_any[t]

\* A failed position is tried once more.
SameCursor(t) == model_cursor[t]

NextCursor(t) == model_cursor[t] + 1

FailSilently(t) ==
    /\ Trip(model_cursor[t])
    /\ tripped_at' = [tripped_at EXCEPT ![model_cursor[t]] = now]
    /\ failed' = [failed EXCEPT ![t] = @ \union {model_cursor[t]}]
    /\ IF MayFallBack(t)
       THEN /\ model_cursor' = [model_cursor EXCEPT ![t] = NextCursor(t)]
            /\ Goto(t, "send")
       ELSE /\ UNCHANGED model_cursor
            /\ Close(t, Errored)

Opened(t) ==
    /\ pc[t] = "send"
    /\ Send(t)
    /\ forwarded_any' = [forwarded_any EXCEPT ![t] = FALSE]
    /\ held' = [held EXCEPT ![t] = FALSE]
    /\ Goto(t, "stream")
    /\ UNCHANGED <<breaker, config, history, model_cursor, round_trips, reply,
                   shown, dropped, failed, levers>>

\* No answer within STREAM_IDLE_TIMEOUT, or an error instead of a stream.
OpenFails(t) ==
    /\ pc[t] = "send"
    /\ Send(t)
    /\ FailSilently(t)
    /\ UNCHANGED <<now, config, history, round_trips, reply, forwarded_any, held,
                   shown, dropped, levers>>

Sent(t, what) == shown[t] \union {<<what, ask[t][1], ask[t][2]>>}

FlushHeld(t) == shown' = [shown EXCEPT ![t] = IF held[t] THEN Sent(t, "prose") ELSE @]

\* Prose is forwarded as it comes.
ReadEventUnheld(t) ==
    /\ pc[t] = "stream"
    /\ forwarded_any' = [forwarded_any EXCEPT ![t] = TRUE]
    /\ \E what \in {"prose", "event"} : shown' = [shown EXCEPT ![t] = Sent(t, what)]
    /\ UNCHANGED <<breaker, config, pc, history, model_cursor, round_trips, reply, held,
                   ask, requests, dropped, failed, levers, closing>>

\* An event that observe forwards: prose is held, the rest goes out at once.
ReadEvent(t) ==
    /\ pc[t] = "stream"
    /\ forwarded_any' = [forwarded_any EXCEPT ![t] = TRUE]
    /\ \/ held' = [held EXCEPT ![t] = TRUE] /\ UNCHANGED shown
       \/ shown' = [shown EXCEPT ![t] = Sent(t, "event")] /\ UNCHANGED held
    /\ UNCHANGED <<breaker, config, pc, history, model_cursor, round_trips, reply,
                   ask, requests, dropped, failed, levers, closing>>

\* The stream stalls for STREAM_IDLE_TIMEOUT, or errors.
StreamFails(t) ==
    /\ pc[t] = "stream"
    /\ IF Silent(t)
       THEN FailSilently(t) /\ UNCHANGED shown
       ELSE /\ FlushHeld(t)
            /\ failed' = [failed EXCEPT ![t] = @ \union {model_cursor[t]}]
            /\ Close(t, Errored)
            /\ UNCHANGED <<deadlines, tripped_at, model_cursor>>
    /\ UNCHANGED <<now, config, history, round_trips, reply, forwarded_any, held, ask,
                   requests, dropped, levers>>

\* A tool call was streamed as an event, a claim is in the held prose.
StreamEnds(t) ==
    /\ pc[t] = "stream"
    /\ Reset(model_cursor[t])
    /\ round_trips' = [round_trips EXCEPT ![t] = @ + 1]
    /\ \E r \in Replies :
          /\ r = "tools" => Sent(t, "event") = shown[t]
          /\ r = "claim" => held[t]
          /\ reply' = [reply EXCEPT ![t] = r]
    /\ Goto(t, "judge")
    /\ UNCHANGED <<now, tripped_at, config, history, model_cursor, sending, levers>>

(***************************************************************************)
(* Judging a reply that has ended, in the order of the code.  A bounce     *)
(* drops the held prose and pushes the reply and a nudge.                  *)
(***************************************************************************)
OverBudget(t) ==
    /\ pc[t] = "judge"
    /\ config[t].budget
    /\ Close(t, Errored)
    /\ dropped' = [dropped EXCEPT ![t] = @ \union {ask[t]}]
    /\ UNCHANGED <<breaker, config, history, model_cursor, round_trips, reply,
                   forwarded_any, held, ask, requests, shown, failed, levers>>

\* The provider paused its own tool loop; the round counts like any other.
PauseContinues(t) ==
    /\ pc[t] = "judge"
    /\ reply[t] = "pause"
    /\ FlushHeld(t)
    /\ history' = [history EXCEPT ![t] = Append(@, "asst")]
    /\ Goto(t, "step")
    /\ UNCHANGED <<breaker, config, model_cursor, round_trips, reply, forwarded_any,
                   held, ask, requests, dropped, failed, levers>>

NoCalls(t) == pc[t] = "judge" /\ reply[t] \in {"truncated", "claim", "prose"}

LiveOpsDue(t) == config[t].live_ops_ask /\ nudges[t].live_ops < MaxLiveOpsNudges

LiveOpsHopDue(t) == config[t].live_ops_ask /\ model_cursor[t] < Fallbacks

\* Past the live-ops guards.
Settled(t) == NoCalls(t) /\ ~LiveOpsDue(t) /\ ~LiveOpsHopDue(t)

ClaimDue(t) == reply[t] = "claim" /\ nudges[t].claim < MaxClaimNudges

EditDue(t) ==
    config[t].require_edit /\ ~task_edited[t] /\ nudges[t].edit < MaxEditNudges

Bounce(t, guard, messages) ==
    /\ nudges' = [nudges EXCEPT ![t][guard] = @ + 1]
    /\ history' = [history EXCEPT ![t] = @ \o messages]
    /\ dropped' = [dropped EXCEPT ![t] = @ \union {ask[t]}]
    /\ Goto(t, "step")
    /\ UNCHANGED <<breaker, config, model_cursor, round_trips, reply, forwarded_any,
                   held, ask, requests, shown, failed, task_edited,
                   edit_free_streak, nudged_at, prompted>>

LiveOpsNudge(t) ==
    /\ NoCalls(t) /\ LiveOpsDue(t)
    /\ Bounce(t, "live_ops",
              IF reply[t] = "truncated" THEN <<"user">> ELSE <<"asst", "user">>)

\* The position that answered without a call is demoted as if it had failed.
LiveOpsFallbackTrips(t) ==
    /\ NoCalls(t) /\ ~LiveOpsDue(t) /\ LiveOpsHopDue(t)
    /\ Trip(model_cursor[t])
    /\ model_cursor' = [model_cursor EXCEPT ![t] = @ + 1]
    /\ dropped' = [dropped EXCEPT ![t] = @ \union {ask[t]}]
    /\ Goto(t, "step")
    /\ UNCHANGED <<now, tripped_at, config, history, round_trips, reply, forwarded_any,
                   held, ask, requests, shown, failed, levers>>

\* The required retry made no call either: the next model of the chain, unblamed.
LiveOpsFallback(t) ==
    /\ NoCalls(t) /\ ~LiveOpsDue(t) /\ LiveOpsHopDue(t)
    /\ model_cursor' = [model_cursor EXCEPT ![t] = @ + 1]
    /\ dropped' = [dropped EXCEPT ![t] = @ \union {ask[t]}]
    /\ Goto(t, "step")
    /\ UNCHANGED <<breaker, config, history, round_trips, reply, forwarded_any,
                   held, ask, requests, shown, failed, levers>>

RefuseTruncated(t) ==
    /\ Settled(t) /\ reply[t] = "truncated"
    /\ Close(t, Errored)
    /\ dropped' = [dropped EXCEPT ![t] = @ \union {ask[t]}]
    /\ UNCHANGED <<breaker, config, history, model_cursor, round_trips, reply,
                   forwarded_any, held, ask, requests, shown, failed, levers>>

BounceClaim(t) == Settled(t) /\ ClaimDue(t) /\ Bounce(t, "claim", <<"asst", "user">>)

BounceNoEdit(t) ==
    /\ Settled(t) /\ reply[t] # "truncated" /\ ~ClaimDue(t)
    /\ EditDue(t)
    /\ Bounce(t, "edit", <<"asst", "user">>)

\* The verify command fails on a finish.
BounceUnverified(t) ==
    /\ Settled(t) /\ reply[t] # "truncated" /\ ~ClaimDue(t) /\ ~EditDue(t)
    /\ config[t].verify_and_fix /\ nudges[t].fix < MaxFixAttempts
    /\ Bounce(t, "fix", <<"asst", "user">>)

Accept(t) ==
    /\ Settled(t) /\ reply[t] # "truncated" /\ ~ClaimDue(t) /\ ~EditDue(t)
    /\ FlushHeld(t)
    /\ Close(t, Answered)
    /\ UNCHANGED <<breaker, config, history, model_cursor, round_trips, reply,
                   forwarded_any, held, ask, requests, dropped, failed, levers>>

(***************************************************************************)
(* Tool calls: the calls are pushed and run one by one, then the           *)
(* convergence levers decide how the turn goes on.                         *)
(***************************************************************************)
RunTools(t) ==
    /\ pc[t] = "judge" /\ reply[t] = "tools"
    /\ FlushHeld(t)
    /\ history' = [history EXCEPT ![t] = Append(@, "call")]
    /\ \E made_edit \in BOOLEAN :
          /\ task_edited' = [task_edited EXCEPT ![t] = @ \/ made_edit]
          /\ edit_free_streak' = [edit_free_streak EXCEPT ![t] = IF made_edit THEN 0 ELSE @ + 1]
          /\ nudged_at' = [nudged_at EXCEPT ![t] = IF made_edit THEN 0 ELSE @]
          /\ prompted' = [prompted EXCEPT ![t] = IF made_edit THEN 0 ELSE @]
    /\ Goto(t, "converge")
    /\ UNCHANGED <<breaker, config, model_cursor, round_trips, reply, forwarded_any,
                   held, ask, requests, dropped, failed, nudges>>

Progressless(t) ==
    LET limit == config[t].no_progress_limit
    IN  limit > 0 /\ edit_free_streak[t] >= 2 * limit

NudgeDue(t) ==
    LET limit == config[t].no_progress_limit
    IN  limit > 0 /\ edit_free_streak[t] >= limit /\ nudged_at[t] # edit_free_streak[t]

\* The turn edited, and the verify command passes.
StopVerified(t) ==
    /\ pc[t] = "converge"
    /\ config[t].in_loop_verify /\ edit_free_streak[t] = 0
    /\ history' = [history EXCEPT ![t] = Append(@, "result")]
    /\ Close(t, Answered)
    /\ UNCHANGED <<breaker, config, model_cursor, round_trips, reply, sending, levers>>

StopNoProgress(t) ==
    /\ pc[t] = "converge"
    /\ Progressless(t)
    /\ history' = [history EXCEPT ![t] = Append(@, "result")]
    /\ Close(t, Answered)
    /\ UNCHANGED <<breaker, config, model_cursor, round_trips, reply, sending, levers>>

\* A round whose calls edited nothing pushes no results.
KeepGoingSilently(t) ==
    /\ pc[t] = "converge"
    /\ ~Progressless(t)
    /\ history' = [history EXCEPT ![t] = IF edit_free_streak[t] = 0
                                          THEN Append(@, "result") ELSE @]
    /\ Goto(t, "step")
    /\ UNCHANGED <<breaker, config, model_cursor, round_trips, reply, sending, levers>>

KeepGoing(t) ==
    /\ pc[t] = "converge"
    /\ ~Progressless(t)
    /\ history' = [history EXCEPT ![t] = Append(@, "result")]
    /\ IF NudgeDue(t)
       THEN /\ nudged_at' = [nudged_at EXCEPT ![t] = edit_free_streak[t]]
            /\ prompted' = [prompted EXCEPT ![t] = @ + 1]
       ELSE UNCHANGED <<nudged_at, prompted>>
    /\ Goto(t, "step")
    /\ UNCHANGED <<breaker, config, model_cursor, round_trips, reply, sending,
                   nudges, task_edited, edit_free_streak>>

(***************************************************************************)
(* The turns run concurrently, and only the breaker is theirs together.    *)
(***************************************************************************)
TurnStep(t) ==
    \/ StartTurn(t) \/ BeginStep(t) \/ Summarise(t) \/ OutOfSteps(t)
    \/ Opened(t) \/ OpenFails(t) \/ ReadEvent(t) \/ StreamFails(t) \/ StreamEnds(t)
    \/ OverBudget(t) \/ PauseContinues(t) \/ LiveOpsNudge(t) \/ LiveOpsFallback(t)
    \/ RefuseTruncated(t) \/ BounceClaim(t) \/ BounceNoEdit(t) \/ BounceUnverified(t)
    \/ Accept(t) \/ RunTools(t) \/ StopVerified(t) \/ StopNoProgress(t) \/ KeepGoing(t)

Next == Tick \/ \E t \in Turns : TurnStep(t)

Spec == Init /\ [][Next]_vars

(***************************************************************************)
(* The executor runs a turn's task, a silent provider runs into the idle   *)
(* timeout, a stream that keeps talking ends some day, and the tools, the  *)
(* verify command and the summary model answer.  Events that tell nothing  *)
(* new are stuttering steps, so they cannot stand for progress.            *)
(***************************************************************************)
Fairness == \A t \in Turns : WF_vars(TurnStep(t))

FairSpec == Spec /\ Fairness

(***************************************************************************)
(* Properties.                                                             *)
(***************************************************************************)

\* Prose of a reply that was refused (a live-ops or claim bounce, a missing edit,
\* a failed verification, a truncated or an over-budget answer) never reaches the
\* client, although tool calls and citations of the same stream may have.
NoDiscardedProse ==
    \A t \in Turns : \A a \in dropped[t] : <<"prose", a[1], a[2]>> \notin shown[t]

\* What the client hears of one round-trip comes from one model: run_loop goes to
\* the next candidate only while nothing of the round has been forwarded.
OneVoicePerRound ==
    \A t \in Turns : \A x, y \in shown[t] : x[2] = y[2] => x[3] = y[3]

\* A position that failed in a turn is not asked again in that turn, whatever
\* the breaker, the other turns and the clock have done since.
FailedStaysSkipped ==
    \A t \in Turns : pc[t] \in {"send", "stream"} => model_cursor[t] \notin failed[t]

\* A turn sends at most one chat request per step and one more per fallback, with
\* every bounce, pause and live-ops hop counted.
RequestsBounded ==
    \A t \in Turns : requests[t] <= MaxSteps + Fallbacks

\* A demotion is always one cooldown from the last silent failure of its position:
\* turns that fail together do not stack it, and a live-ops hop does not cause it.
DemotionEarned ==
    \A i \in Chain : deadlines[i] # 0 => deadlines[i] = tripped_at[i] + Cooldown

FailedRecently(i) == now < tripped_at[i] + Cooldown

\* A turn enters the chain beyond a position only when that position failed before
\* it spoke less than a cooldown ago, in this turn's time or another's; and it
\* enters at one that did only when all of them did.
SkippedForCause ==
    [][\A t \in Turns : pc[t] = "idle" /\ pc'[t] # "idle" =>
          /\ \A i \in Chain : i < model_cursor'[t] => FailedRecently(i)
          /\ IsOpen(model_cursor'[t]) => \A i \in Chain : FailedRecently(i)]_vars

\* Every way out reports one outcome and closes the sink with the total and Done,
\* or with one error; a running turn has done neither.
Accounted ==
    \A t \in Turns :
        IF pc[t] = "ended" THEN records[t] = 1 /\ ending[t] \in {Answered, Errored}
        ELSE records[t] = 0 /\ ending[t] = <<>>

\* Tool results directly follow the message with their calls, and every message
\* with calls is answered before the next request, on every path: the one place
\* where a result may stand alone is right behind a compaction's summary.
TornOnlyAtTheCut ==
    \A t \in Turns :
        LET h == history[t]
        IN  /\ \A i \in 2 .. Len(h) :
                  h[i] = "result" => h[i - 1] = "call" \/ (i = 3 /\ h[2] = "user")
            /\ \A i \in 1 .. Len(h) :
                  h[i] = "call" => \/ i < Len(h) /\ h[i + 1] = "result"
                                   \/ i = Len(h) /\ pc[t] = "converge"

\* A turn that has started ends.
TurnsEnd == \A t \in Turns : <>(pc[t] = "ended")

(***************************************************************************)
(* What comments of the code say, and the code does not do.                *)
(***************************************************************************)

\* "History is always `[user] then (assistant, user)*`, so this index lands on an
\* assistant message": what compaction keeps never starts with tool results.
CompactionKeepsPairs ==
    \A t \in Turns : \A i \in 2 .. Len(history[t]) :
        history[t][i] = "result" => history[t][i - 1] = "call"

\* "nudge once at n": between two edits the no-progress nudge is given once.
NudgedOnce == \A t \in Turns : prompted[t] <= 1
=============================================================================
