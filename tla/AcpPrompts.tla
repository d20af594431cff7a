----------------------------- MODULE AcpPrompts -----------------------------
(***************************************************************************)
(* Prompts and cancels of the editor gateway, lvz-gw-acp.                  *)
(*                                                                         *)
(* One reader takes the editor's lines in order.  A prompt becomes a task  *)
(* of its own: it arms a cancel handle for its session, submits the turn   *)
(* and forwards the agent's events until they end, fail, or the handle is  *)
(* signalled, which is looked at first; then it disarms the session and    *)
(* answers.  A cancel is handled by the reader itself, on whatever handle  *)
(* the session has at that moment.                                         *)
(*                                                                         *)
(* A handle is named by the prompt that armed it.  Writes take the shared  *)
(* writer's lock for a whole line, so a line is one step.  The agent's     *)
(* side of a turn runs in a task of its own, which a dropped stream does   *)
(* not stop.  At the end of the editor's pipe the process exits.           *)
(***************************************************************************)
EXTENDS Naturals, Sequences

CONSTANTS
  Prompts,     \* session/prompt requests the editor may send, each once
  Sessions,
  SessionOf,   \* the session a prompt names
  NoPrompt,    \* no handle
  MaxQueued    \* bound on the events the agent is ahead of its reader

ASSUME SessionAssumption == SessionOf \in [Prompts -> Sessions]
ASSUME NoPromptAssumption == NoPrompt \notin Prompts

Phases == {"unread", "spawned", "submitting", "streaming", "writing", "ended",
           "answering", "answered"}

Outcomes == {"none", "end_turn", "cancelled", "error"}

\* Shown to the editor, not shown (usage, argument fragments, Done), or an error.
Events == {"update", "silent", "failure"}

VARIABLES
  open,      \* the editor's pipe
  pc,        \* per prompt: how far its task has come
  outcome,   \* per prompt: the answer it has decided on
  handles,   \* per session: ServerState.prompts
  permit,    \* handles with a stored signal
  agent,     \* per prompt: the agent's task
  queue,     \* per prompt: events on their way from the agent
  \* what the properties remember of the past
  overlapped,  \* prompts that were armed together with another of their session
  asked,       \* prompts that were armed when a cancel of their session was read
  heard        \* those of them that were alone and had not yet decided

history == <<overlapped, asked, heard>>
vars == <<open, pc, outcome, handles, permit, agent, queue, history>>

Of(s) == {p \in Prompts : SessionOf[p] = s}
Undecided == {p \in Prompts : pc[p] \in {"submitting", "streaming", "writing"}}
Armed == Undecided \cup {p \in Prompts : pc[p] = "ended"}

To(p, phase) == pc' = [pc EXCEPT ![p] = phase]
Decides(p, result) == outcome' = [outcome EXCEPT ![p] = result]

Init ==
  /\ open = TRUE
  /\ pc = [p \in Prompts |-> "unread"]
  /\ outcome = [p \in Prompts |-> "none"]
  /\ handles = [s \in Sessions |-> NoPrompt]
  /\ permit = {}
  /\ agent = [p \in Prompts |-> "none"]
  /\ queue = [p \in Prompts |-> <<>>]
  /\ overlapped = {}
  /\ asked = {}
  /\ heard = {}

----------------------------------------------------------------------------
\* The reader

ReadPrompt(p) ==
  /\ pc[p] = "unread"
  /\ To(p, "spawned")
  /\ UNCHANGED <<open, outcome, handles, permit, agent, queue, history>>

\* One signal per session, kept for whichever prompt comes.
SignalledEver(s) == Of(s)

\* The handle notify_one is called on, if there is one.
Signalled(s) == {handles[s]} \ {NoPrompt}

ReadCancel(s) ==
  /\ permit' = permit \cup Signalled(s)
  /\ asked' = asked \cup (Of(s) \cap Armed)
  /\ heard' = heard \cup ((Of(s) \cap Undecided) \ overlapped)
  /\ UNCHANGED <<open, pc, outcome, handles, agent, queue, overlapped>>

\* End of the pipe: serve_over returns, the process exits with all its tasks.
Eof ==
  /\ open' = FALSE
  /\ UNCHANGED <<pc, outcome, handles, permit, agent, queue, history>>

----------------------------------------------------------------------------
\* run_prompt

\* No session id, or no text.
Reject(p) ==
  /\ pc[p] = "spawned"
  /\ To(p, "answering")
  /\ Decides(p, "error")
  /\ UNCHANGED <<open, handles, permit, agent, queue, history>>

\* A new handle, in the place of any the session has.
Arm(p) ==
  LET others == (Of(SessionOf[p]) \cap Armed) \ {p} IN
  /\ pc[p] = "spawned"
  /\ To(p, "submitting")
  /\ handles' = [handles EXCEPT ![SessionOf[p]] = p]
  /\ overlapped' = overlapped \cup others \cup {q \in {p} : others # {}}
  /\ UNCHANGED <<open, outcome, permit, agent, queue, asked, heard>>

\* submit returns the stream; the agent works in a task of its own.
Submitted(p) ==
  /\ pc[p] = "submitting"
  /\ To(p, "streaming")
  /\ agent' = [agent EXCEPT ![p] = "running"]
  /\ UNCHANGED <<open, outcome, handles, permit, queue, history>>

\* disarm: the session's handle goes, whosever it is; the task's own goes with it.
Disarm(p) ==
  /\ handles' = [handles EXCEPT ![SessionOf[p]] = NoPrompt]
  /\ permit' = permit \ {p}

\* An early return that leaves the handle behind.
SubmitFailsArmed(p) ==
  /\ pc[p] = "submitting"
  /\ To(p, "answering")
  /\ Decides(p, "error")
  /\ UNCHANGED <<open, handles, permit, agent, queue, history>>

SubmitFails(p) ==
  /\ pc[p] = "submitting"
  /\ To(p, "answering")
  /\ Decides(p, "error")
  /\ Disarm(p)
  /\ UNCHANGED <<open, agent, queue, history>>

Finish(p) ==
  /\ pc[p] = "ended"
  /\ To(p, "answering")
  /\ Disarm(p)
  /\ UNCHANGED <<open, outcome, agent, queue, history>>

Answer(p) ==
  /\ pc[p] = "answering"
  /\ To(p, "answered")
  /\ UNCHANGED <<open, outcome, handles, permit, agent, queue, history>>

----------------------------------------------------------------------------
\* stream_updates

\* The loop is left and the stream dropped, with whatever it held.
Leaves(p, result) ==
  /\ To(p, "ended")
  /\ Decides(p, result)
  /\ queue' = [queue EXCEPT ![p] = <<>>]

\* The signal is looked at when an event comes, not waited for.
CancelledAtEvent(p) ==
  /\ pc[p] = "streaming"
  /\ p \in permit
  /\ queue[p] # <<>>
  /\ Leaves(p, "cancelled")
  /\ permit' = permit \ {p}
  /\ UNCHANGED <<open, handles, agent, history>>

\* The first branch of the select: a stored signal wins over any event.
Cancelled(p) ==
  /\ pc[p] = "streaming"
  /\ p \in permit
  /\ Leaves(p, "cancelled")
  /\ permit' = permit \ {p}
  /\ UNCHANGED <<open, handles, agent, history>>

\* The select without its bias: an event may win over a stored signal.
Unbiased(p) == pc[p] = "streaming"

\* The second branch is reached only if no signal is stored.
Listens(p) == pc[p] = "streaming" /\ p \notin permit

Takes(p, events) ==
  /\ Listens(p)
  /\ queue[p] # <<>>
  /\ Head(queue[p]) \in events

TakeUpdate(p) ==
  /\ Takes(p, {"update"})
  /\ To(p, "writing")
  /\ queue' = [queue EXCEPT ![p] = Tail(@)]
  /\ UNCHANGED <<open, outcome, handles, permit, agent, history>>

UpdateWritten(p) ==
  /\ pc[p] = "writing"
  /\ To(p, "streaming")
  /\ UNCHANGED <<open, outcome, handles, permit, agent, queue, history>>

TakeSilent(p) ==
  /\ Takes(p, {"silent"})
  /\ queue' = [queue EXCEPT ![p] = Tail(@)]
  /\ UNCHANGED <<open, pc, outcome, handles, permit, agent, history>>

TakeFailure(p) ==
  /\ Takes(p, {"failure"})
  /\ Leaves(p, "error")
  /\ UNCHANGED <<open, handles, permit, agent, history>>

\* The stream is over: whatever its Done said, the turn has ended.
StreamOver(p) ==
  /\ Listens(p)
  /\ queue[p] = <<>>
  /\ agent[p] = "over"
  /\ Leaves(p, "end_turn")
  /\ UNCHANGED <<open, handles, permit, agent, history>>

----------------------------------------------------------------------------
\* The agent: its events go nowhere once the stream has been dropped

Attached(p) == pc[p] \in {"streaming", "writing"}

Emit(p) ==
  /\ agent[p] = "running"
  /\ Attached(p)
  /\ Len(queue[p]) < MaxQueued
  /\ \E e \in {"update", "silent"} : queue' = [queue EXCEPT ![p] = Append(@, e)]
  /\ UNCHANGED <<open, pc, outcome, handles, permit, agent, history>>

\* Done or an error is the last event of every turn.
AgentEnds(p) ==
  /\ agent[p] = "running"
  /\ agent' = [agent EXCEPT ![p] = "over"]
  /\ \/ /\ Attached(p)
        /\ \E e \in {"silent", "failure"} : queue' = [queue EXCEPT ![p] = Append(@, e)]
     \/ /\ ~Attached(p)
        /\ UNCHANGED queue
  /\ UNCHANGED <<open, pc, outcome, handles, permit, history>>

----------------------------------------------------------------------------
Reader == Eof \/ (\E p \in Prompts : ReadPrompt(p)) \/ (\E s \in Sessions : ReadCancel(s))

\* The steps of a prompt's task once it has been spawned.
Task(p) ==
  \/ Reject(p) \/ Arm(p)
  \/ Submitted(p) \/ SubmitFails(p)
  \/ Cancelled(p) \/ TakeUpdate(p) \/ UpdateWritten(p) \/ TakeSilent(p)
  \/ TakeFailure(p) \/ StreamOver(p)
  \/ Finish(p) \/ Answer(p)

Agent(p) == Emit(p) \/ AgentEnds(p)

Next == open /\ (Reader \/ \E p \in Prompts : Task(p) \/ Agent(p))

\* Tasks that can run do run, and the editor reads what is written.  Nothing is
\* assumed of the editor's requests, nor of the agent.
Spec == Init /\ [][Next]_vars /\ \A p \in Prompts : WF_vars(open /\ Task(p))

----------------------------------------------------------------------------
TypeOK ==
  /\ open \in BOOLEAN
  /\ pc \in [Prompts -> Phases]
  /\ outcome \in [Prompts -> Outcomes]
  /\ handles \in [Sessions -> Prompts \cup {NoPrompt}]
  /\ permit \in SUBSET Prompts
  /\ agent \in [Prompts -> {"none", "running", "over"}]
  /\ queue \in [Prompts -> Seq(Events)]
  /\ overlapped \in SUBSET Prompts
  /\ asked \in SUBSET Prompts
  /\ heard \in SUBSET Prompts

\* ServerState.prompts holds handles of prompts in flight and of no others, on
\* every way out of run_prompt and however prompts of one session overlap: no
\* cancel is spent on a prompt that is gone, and the map does not grow.
OnlyLiveHandles ==
  \A s \in Sessions : handles[s] # NoPrompt =>
    /\ handles[s] \in Armed
    /\ SessionOf[handles[s]] = s

\* A cancel read while its session's prompt is armed and alone there, be it still
\* submitting, waiting for an event or writing one, stops that prompt: it is not
\* answered as though its turn had ended by itself.
CancelHeeded ==
  \A p \in heard : outcome[p] \in {"none", "cancelled", "error"}

\* A prompt is cancelled only by a cancel read while it was armed: not by one that
\* was meant for an earlier prompt of the session, nor by one for another session.
CancelledForCause ==
  \A p \in Prompts : outcome[p] = "cancelled" => p \in asked

\* A prompt whose handle was signalled is answered, though the agent may never
\* send another event.
CancelEnds ==
  \A p \in Prompts : (p \in permit) ~> (pc[p] = "answered" \/ ~open)

=============================================================================
