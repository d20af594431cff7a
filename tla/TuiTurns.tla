------------------------------ MODULE TuiTurns ------------------------------
(***************************************************************************)
(* The terminal gateway (lvz-gw-tui/src/lib.rs) and its tool-approval gate *)
(* (gate.rs): one render loop that selects over keys, the messages of the  *)
(* turn's task and the requests for permission; one spawned task per turn, *)
(* which forwards the agent's stream; and the agent's own run_loop, which  *)
(* is detached and reaches the loop only through these two channels.  The  *)
(* gate belongs to the agent, so turns of the other gateways served by the *)
(* same process (Remote) ask the same user.                                *)
(*                                                                         *)
(* An event is any item of the stream that does not end the turn; what it  *)
(* draws is left out, and so are the commands that change the session's    *)
(* name, its model or its counters.  Quitting ends the process.            *)
(***************************************************************************)
EXTENDS Naturals, Sequences, FiniteSets

CONSTANTS
  NumTurns,    \* the turns the user submits, 1 .. NumTurns, in this order
  Remote,      \* turns of other gateways that share the agent
  Names,       \* tools
  ReadOnly,    \* those that is_read_only lets through
  None,
  TurnCap,     \* the capacity of turn_tx (256)
  PermitCap,   \* the capacity of ChannelGate::tx (8)
  Items        \* the events and tool calls each turn may come to

Turns == 1 .. NumTurns
All == Turns \cup Remote

ASSUME TuiAssumption ==
  /\ NumTurns \in Nat
  /\ Turns \cap Remote = {}
  /\ ReadOnly \subseteq Names
  /\ None \notin All \cup Names
  /\ TurnCap \in Nat \ {0} /\ PermitCap \in Nat \ {0} /\ Items \in [All -> Nat]

VARIABLES
  \* App
  running, turn_gen,
  pending_permit,   \* the turn whose request is shown, or None
  latest,           \* the turn submitted last, 0 before the first
  \* the spawned tasks
  task,             \* "none", "submitting", "streaming", "ending", "done", "aborted"
  gen,              \* the generation each tags its messages with
  turn_rx,          \* <<turn, "event" | "error" | "finished">>, tagged with gen[turn]
  \* the agent's run_loops
  loop,             \* "off", "on", "asking", "waiting", "tool", "over"
  call,             \* the tool under review
  left,             \* items the turn may still produce
  stream,           \* its events that the task has not taken
  \* the gate
  permits, reply, always,
  \* observers
  cancelled, consent

app == <<running, turn_gen, pending_permit, latest>>
tasks == <<task, gen>>
agent == <<loop, call, left>>
observers == <<cancelled, consent>>
vars == <<app, tasks, turn_rx, agent, stream, permits, reply, always, observers>>

Kinds == {"event", "error", "finished"}

TypeOK ==
  /\ running \in BOOLEAN
  /\ turn_gen \in Nat
  /\ pending_permit \in All \cup {None}
  /\ latest \in Turns \cup {0}
  /\ task \in [Turns -> {"none", "submitting", "streaming", "ending", "done", "aborted"}]
  /\ gen \in [Turns -> Nat]
  /\ turn_rx \in Seq(Turns \X Kinds)
  /\ loop \in [All -> {"off", "on", "asking", "waiting", "tool", "over"}]
  /\ call \in [All -> Names \cup {None}]
  /\ left \in [All -> Nat]
  /\ stream \in [Turns -> Seq(Kinds)]
  /\ permits \in Seq(All)
  /\ reply \in [All -> {"none", "once", "always", "deny"}]
  /\ always \subseteq Names
  /\ cancelled \subseteq Turns
  /\ consent \subseteq All

Init ==
  /\ running = FALSE
  /\ turn_gen = 0
  /\ pending_permit = None
  /\ latest = 0
  /\ task = [t \in Turns |-> "none"]
  /\ gen = [t \in Turns |-> 0]
  /\ turn_rx = <<>>
  /\ loop = [t \in All |-> IF t \in Remote THEN "on" ELSE "off"]
  /\ call = [t \in All |-> None]
  /\ left = Items
  /\ stream = [t \in Turns |-> <<>>]
  /\ permits = <<>>
  /\ reply = [t \in All |-> "none"]
  /\ always = {}
  /\ cancelled = {}
  /\ consent = {}

----------------------------------------------------------------------------
\* The keys

\* Enter on a prompt, while no turn runs and no request is shown.
Submit ==
  /\ pending_permit = None
  /\ ~running
  /\ latest + 1 \in Turns
  /\ latest' = latest + 1
  /\ turn_gen' = turn_gen + 1
  /\ running' = TRUE
  /\ gen' = [gen EXCEPT ![latest + 1] = turn_gen + 1]
  /\ task' = [task EXCEPT ![latest + 1] = "submitting"]
  /\ UNCHANGED <<pending_permit, turn_rx, agent, stream, permits, reply, always, observers>>

\* Without a new generation, what the cancelled turn has queued is still shown.
CancelTurnKeepsGen ==
  /\ running
  /\ running' = FALSE
  /\ task' = [task EXCEPT ![latest] = IF @ = "done" THEN @ ELSE "aborted"]
  /\ stream' = [stream EXCEPT ![latest] = <<>>]
  /\ pending_permit' = None
  /\ reply' = [t \in All |-> IF t = pending_permit THEN "deny" ELSE reply[t]]
  /\ cancelled' = cancelled \cup {latest}
  /\ UNCHANGED <<turn_gen, latest, gen, turn_rx, agent, permits, always, consent>>

\* Ctrl-C: the task is aborted and with it the stream and the open request are
\* dropped.  The agent's loop is not.
CancelTurn ==
  /\ running
  /\ running' = FALSE
  /\ turn_gen' = turn_gen + 1
  /\ task' = [task EXCEPT ![latest] = IF @ = "done" THEN @ ELSE "aborted"]
  /\ stream' = [stream EXCEPT ![latest] = <<>>]
  /\ pending_permit' = None
  /\ reply' = [t \in All |-> IF t = pending_permit THEN "deny" ELSE reply[t]]
  /\ cancelled' = cancelled \cup {latest}
  /\ UNCHANGED <<latest, gen, turn_rx, agent, permits, always, consent>>

\* y or Enter, a, n or Esc answer the request that is shown.
PermitKey(answer) ==
  /\ pending_permit # None
  /\ reply' = [reply EXCEPT ![pending_permit] = answer]
  /\ consent' = IF answer = "deny" THEN consent ELSE consent \cup {pending_permit}
  /\ pending_permit' = None
  /\ UNCHANGED <<running, turn_gen, latest, tasks, turn_rx, agent, stream, permits, always,
                 cancelled>>

----------------------------------------------------------------------------
\* The other two branches of the select

\* Only messages of the current generation are handled.
Drawn(t) == gen[t] = turn_gen

TurnMsg ==
  /\ turn_rx # <<>>
  /\ turn_rx' = Tail(turn_rx)
  /\ LET t == Head(turn_rx)[1] IN
     running' = (running /\ (Drawn(t) => Head(turn_rx)[2] = "event"))
  /\ UNCHANGED <<turn_gen, pending_permit, latest, tasks, agent, stream, permits, reply,
                 always, observers>>

\* Requests are taken up while a turn of the terminal runs, and wait otherwise.
RecvPermitRunning ==
  /\ permits # <<>> /\ running
  /\ permits' = Tail(permits)
  /\ pending_permit' = Head(permits)
  /\ reply' = [t \in All |-> IF t = pending_permit THEN "deny" ELSE reply[t]]
  /\ UNCHANGED <<running, turn_gen, latest, tasks, turn_rx, agent, stream, always, observers>>

\* The request is shown in the place of one that is: that one's channel is dropped,
\* which its gate reads as a denial.
RecvPermit ==
  /\ permits # <<>>
  /\ permits' = Tail(permits)
  /\ pending_permit' = Head(permits)
  /\ reply' = [t \in All |-> IF t = pending_permit THEN "deny" ELSE reply[t]]
  /\ UNCHANGED <<running, turn_gen, latest, tasks, turn_rx, agent, stream, always, observers>>

----------------------------------------------------------------------------
\* The spawned task of a turn

Send(t, kind) ==
  /\ Len(turn_rx) < TurnCap
  /\ turn_rx' = Append(turn_rx, <<t, kind>>)

\* agent.submit returns: run_loop is spawned.
Submitted(t) ==
  /\ task[t] = "submitting"
  /\ task' = [task EXCEPT ![t] = "streaming"]
  /\ loop' = [loop EXCEPT ![t] = "on"]
  /\ UNCHANGED <<app, gen, turn_rx, call, left, stream, permits, reply, always, observers>>

SubmitFails(t) ==
  /\ task[t] = "submitting"
  /\ Send(t, "error")
  /\ task' = [task EXCEPT ![t] = "ending"]
  /\ UNCHANGED <<app, gen, agent, stream, permits, reply, always, observers>>

Forward(t) ==
  /\ task[t] = "streaming"
  /\ stream[t] # <<>>
  /\ Send(t, Head(stream[t]))
  /\ stream' = [stream EXCEPT ![t] = Tail(@)]
  /\ UNCHANGED <<app, tasks, agent, permits, reply, always, observers>>

\* Finished is only tried, and lost where the channel is full.
FinishedTried(t) ==
  /\ \/ task[t] = "streaming" /\ loop[t] = "over" /\ stream[t] = <<>>
     \/ task[t] = "ending"
  /\ turn_rx' = IF Len(turn_rx) < TurnCap THEN Append(turn_rx, <<t, "finished">>) ELSE turn_rx
  /\ task' = [task EXCEPT ![t] = "done"]
  /\ UNCHANGED <<app, gen, agent, stream, permits, reply, always, observers>>

\* The stream has ended, and Finished is sent.
Finished(t) ==
  /\ \/ task[t] = "streaming" /\ loop[t] = "over" /\ stream[t] = <<>>
     \/ task[t] = "ending"
  /\ Send(t, "finished")
  /\ task' = [task EXCEPT ![t] = "done"]
  /\ UNCHANGED <<app, gen, agent, stream, permits, reply, always, observers>>

----------------------------------------------------------------------------
\* run_loop: an unbounded_send whose failure is ignored, and ToolGate::review

Listened(t) == t \in Turns /\ task[t] = "streaming"

Emitted(t, kind) ==
  stream' = IF Listened(t) THEN [stream EXCEPT ![t] = Append(@, kind)] ELSE stream

Emit(t) ==
  /\ loop[t] = "on" /\ left[t] > 0
  /\ left' = [left EXCEPT ![t] = @ - 1]
  /\ Emitted(t, "event")
  /\ UNCHANGED <<app, tasks, turn_rx, loop, call, permits, reply, always, observers>>

\* review: a read-only tool, or one always allowed, runs; another has to ask.
Review(t, name) ==
  /\ loop[t] = "on" /\ left[t] > 0
  /\ left' = [left EXCEPT ![t] = @ - 1]
  /\ call' = [call EXCEPT ![t] = name]
  /\ loop' = [loop EXCEPT ![t] = IF name \in ReadOnly \cup always THEN "tool" ELSE "asking"]
  /\ UNCHANGED <<app, tasks, turn_rx, stream, permits, reply, always, observers>>

\* The bounded channel of requests takes it.
Ask(t) ==
  /\ loop[t] = "asking"
  /\ Len(permits) < PermitCap
  /\ permits' = Append(permits, t)
  /\ loop' = [loop EXCEPT ![t] = "waiting"]
  /\ UNCHANGED <<app, tasks, turn_rx, call, left, stream, reply, always, observers>>

\* A dropped request is taken for a yes.
AllowedOpen(answer) == answer # "none"

\* A request that is denied or dropped is refused.
Allowed(answer) == answer \in {"once", "always"}

\* The one-shot resolves; a denial is an error result for the model, and the turn
\* goes on.
Answered(t) ==
  /\ loop[t] = "waiting"
  /\ reply[t] # "none"
  /\ reply' = [reply EXCEPT ![t] = "none"]
  /\ loop' = [loop EXCEPT ![t] = IF Allowed(reply[t]) THEN "tool" ELSE "on"]
  /\ always' = IF reply[t] = "always" THEN always \cup {call[t]} ELSE always
  /\ UNCHANGED <<app, tasks, turn_rx, call, left, stream, permits, observers>>

\* The tool returns.
ToolReturns(t) ==
  /\ loop[t] = "tool"
  /\ loop' = [loop EXCEPT ![t] = "on"]
  /\ call' = [call EXCEPT ![t] = None]
  /\ consent' = consent \ {t}
  /\ UNCHANGED <<app, tasks, turn_rx, left, stream, permits, reply, always, cancelled>>

\* The turn ends, or fails after an error it sends.
LoopEnds(t, failed) ==
  /\ loop[t] = "on"
  /\ loop' = [loop EXCEPT ![t] = "over"]
  /\ IF failed THEN Emitted(t, "error") ELSE UNCHANGED stream
  /\ UNCHANGED <<app, tasks, turn_rx, call, left, permits, reply, always, observers>>

----------------------------------------------------------------------------
Keys == Submit \/ CancelTurn \/ \E answer \in {"once", "always", "deny"} : PermitKey(answer)

Task(t) == Submitted(t) \/ SubmitFails(t) \/ Forward(t) \/ Finished(t)

Loop(t) ==
  \/ Emit(t) \/ (\E name \in Names : Review(t, name)) \/ Ask(t) \/ Answered(t)
  \/ ToolReturns(t)
  \/ \E failed \in BOOLEAN : LoopEnds(t, failed)

Next ==
  \/ Keys \/ TurnMsg \/ RecvPermit
  \/ \E t \in Turns : Task(t)
  \/ \E t \in All : Loop(t)

\* The branches of the select are polled in random order, the tasks are scheduled,
\* a turn comes to its end (AgentLoop: TurnsEnd), and the user answers what is asked.
Fairness ==
  /\ WF_vars(TurnMsg)
  /\ WF_vars(RecvPermit)
  /\ \A t \in Turns : WF_vars(Task(t))
  /\ \A t \in All : WF_vars(Loop(t))
  /\ WF_vars(\E answer \in {"once", "always", "deny"} : PermitKey(answer))

Spec == Init /\ [][Next]_vars /\ Fairness

----------------------------------------------------------------------------
\* A tool that changes anything runs only if it was allowed once and for all, or the
\* user has answered yes while that very call was shown (a key answers the request on
\* the screen, whatever its user had in mind), and never because a request was dropped,
\* replaced or cancelled.
ConsentFirst ==
  \A t \in All :
    loop[t] = "tool" => call[t] \in ReadOnly \cup always \/ t \in consent

\* Nothing of a turn is drawn, or ends the running of another, once it was cancelled
\* or another has begun, though its task and the channel may still hold much of it.
ScreenIsCurrent ==
  \A i \in DOMAIN turn_rx :
    LET t == turn_rx[i][1] IN Drawn(t) => t = latest /\ t \notin cancelled

\* The terminal does not stay "running": every way a turn may end, and every order of
\* messages of it and of earlier turns, gives the prompt back.
PromptComesBack == running ~> ~running

\* Every call under review is decided, those of turns the user has cancelled and of
\* other gateways too: no agent hangs on a prompt that nobody can see.
ReviewsAreDecided ==
  \A t \in All : loop[t] \in {"asking", "waiting"} ~> loop[t] \notin {"asking", "waiting"}

\* README: "Ctrl-C cancels a turn"; cancel_turn: "aborting the task drops the agent
\* stream, which cancels the provider request".
CancelStopsTheTurn ==
  [][\A t \in cancelled : loop'[t] = "tool" => loop[t] = "tool"]_vars

=============================================================================
