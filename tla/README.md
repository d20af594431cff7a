# A TLA+ development of lavoisier

lavoisier is an agent runtime in Rust: a reasoning loop that asks language
models and runs tools, a scheduler for jobs, a session memory, and gateways
(terminal, editor, Matrix, Slack, HTTP, A2A, cron) that feed turns into it.
This directory models the parts of it whose correctness depends on the order of
things: what overlaps, what fails half-way, what is retried, what must end.

## 1. Inventory

| Component | State it keeps | Operations | What makes it correct | Here |
|---|---|---|---|---|
| **Schedule registry** (`lvz-schedule/src/lib.rs`) | per job: slot, retry, pending work, attempt, history; queue of manual requests; a `Notify` | `request_run`, `wait_due`, `fire` (take pending → act or poll → restore/arm or record) | one timer at a time, none missing; accepted work is polled, never dispatched again, and always settled; a request always wakes the loop | `ScheduleRegistry`, `JobLifecycle` |
| **Agent loop** (`lvz-agent/src/lib.rs`) | per turn: history, cursor into the chain of models, nudge counters, held prose; shared: `CircuitBreaker` | `run_loop`, `trip`/`reset`/`first_available`, `compact_history`, verify, record | bounded requests; one model's voice per round; refused prose never shown, accepted prose always; one record and one ending on every exit | `AgentLoop` |
| **Session memory** (`lvz-memory/src/lib.rs`) | one transcript file per session, `.corrupt` copies, temp files | `submit`: load, run, save at `Done` | no torn file; whole turns only; conversations continue | `SessionMemory` |
| **Provider adapters** (`lvz-anthropic`, `lvz-google`, `lvz-xai`, `lvz-claude-cli`) and the contract of `lvz-protocol/src/event.rs` | a decoder per stream: open calls, what was announced, whether Done was said; the accumulator of the agent | open with retries, decode a frame, end of the connection | the events keep `Event`'s contract; a whole answer arrives whole; a cut is not taken for an end | `ProviderStreams`, `EventStream` |
| **Terminal gateway** (`lvz-gw-tui/src/lib.rs`, `gate.rs`) | turn generation, running flag, pending permission request, two bounded channels | submit, cancel, keys, the messages of a turn's task, `ChannelGate::review` | no event of an abandoned turn is drawn; only consented calls run; each review is decided | `TuiTurns` |
| **ACP gateway** (`lvz-gw-acp/src/lib.rs`) | per session: the cancel handle of its prompt | `arm`, `cancel`, `disarm`, `run_prompt` | a cancel reaches the prompt that runs; one answer per request | `AcpPrompts` |
| **Matrix gateway** (`lvz-gw-matrix/src/lib.rs`) | sync token, `RecentIds`, `dm_cache`, queue of messages in hand; drives the schedule | serve loop: `select!` of shutdown, `wait_due` and sync; trigger filter, turn, reactions, `run_scheduled` | no message lost or answered twice; a reply to the bot addresses it; a turn leaves its mark | `MatrixServe` |
| **MCP client** (`lvz-mcp/src/lib.rs`) | pending requests by id, the writer's lock | handshake, `request`, reader task, time-out | every answer reaches its request; entries do not leak; what is written is over some day | `McpRequests` |
| **File tools** (`lvz-tools/src`, `lvz-context/src/anchor.rs`) | the files | read-apply-write of five tools, `batch_edit` with its job | the edit touches the lines meant; a report says what the file holds | `FileEdits` |
| **Cron engine and gateway, A2A, Slack and HTTP gateways, council, tuners, context engine, command line, build log** | see `PROJECT.json` | | | not, or as a choice of another module |

How they interact: a gateway calls `AgentHandle::submit`. The command line wraps
the agent in `SessionAgent`, so every submit is a load, a detached `run_loop`
task whose events come back over an unbounded channel, and a save. `run_loop`
asks a provider's adapter for a stream and calls tools, among them those of MCP
servers and the file tools, after the gate of the terminal has let them through.
The Matrix serve loop also drives the schedule: `wait_due` is one branch of its
`select!` and is dropped whenever a sync answers first; `fire` is awaited in the
loop, and the `schedule_run` tool, running inside some turn, pushes onto the
registry's queue from another task. All turns of one agent share the circuit
breaker, the gate and the MCP clients.

The hard behaviours: wake-ups racing parks; futures dropped at an `await`;
state taken out before an `await` and put back after; a slot, a retry and a poll
competing for one job; a model failing before or after it spoke; streams cut
between two frames; turns of one session overlapping; a turn that works on after
its gateway has given it up; an answer that comes after its time-out; two edits
of one file; crashes inside a save. `PROJECT.json` lists each with the line where
it bites ("hazards").

## 2. The modules

Each component has a module, an `MC` module with its small instance, and a module
of proofs; the file tools and the MCP client, whose tools stand beside them in the
agent's registry, share one (`ToolsProofs`, which extends both).

### ScheduleRegistry, JobLifecycle, ScheduleRegistryProofs
`ScheduleRegistry` is the registry and the loop that drives it. Variables are
the fields of `JobState` and of the registry; `loop`-side variables say where
`wait_due`/`fire` stand. `request_run` is two actions (push, then `notify_one`)
because another task may run between them. `wait_due` is its drain, its scan and
its park, which ends by the timer, by the stored permit, or by the gateway
dropping the future (`CancelWait`). A fire is `BeginFire` (take the pending
record), the tool's answer, and `Rearm` or `Record`; time passes and requests
arrive between them. Work that a tool accepted is outside the program and ends
when it likes (`WorkEnds`), or never; a poll of running work may answer with a fresh
handle, which the one asked with is then no longer good for (`Renewed`). A handle stands
for the pair of a handle and the tool to poll it with.
`JobLifecycle` is what a user is promised of one job: at most one piece of work
at a time, each ending in one verdict. `ImplementsLifecycle` is the refinement.
Left out: counters of runs and failures and all texts. The text of a report does
not feed back into the registry.

### AgentLoop, AgentLoopProofs
One turn is one `run_loop` task; the actions are the stretches between awaits:
`BeginStep` (with compaction through `Summarise`), `Opened`/`OpenFails`,
`ReadEvent`/`StreamFails`/`StreamEnds`, one action per way a finished reply is
bounced, `RunTools`, `Accept`, and the stops. A message is only its kind, a reply only
what the loop tells apart in it; costs, prompts and knobs are choices. `mark_stale_reads`,
`dedup_tool_results` and `evict_to_fit` change the text of messages, never their
kind or number, so they do not appear. The breaker is a deadline per position and
a clock. The observer variables (`shown`, `dropped`, `failed`, `records`, ...)
are never read by a guard.

### SessionMemory, SessionMemoryProofs
One session over a `FileStore`; sessions have files of their own (hex of the id)
and do not meet. A turn is its load, its run, and the save in its four file
operations: create, write, sync, rename. `Stop` ends a turn anywhere and stands
for a stream error, a dropped stream and a killed process alike, since all three
leave the files as they are. `PowerLoss` also stops every turn and may bring
back an earlier state of the directory, as the code syncs the file and not the
directory. `LoadFails` and `SaveFails` are the failing file operations, which the
code logs and goes on from. `TempName` is the identity because pid and counter
never repeat among writers that are alive together. The bounded in-memory store
is not in this module.

### EventStream, ProviderStreams, ProviderStreamsProofs
`EventStream` is what `lvz_protocol::Event` promises of one model turn: a call
begins once, its fragments follow in order, it ends once; `Done` is last and says
what the provider said. `ProviderStreams` is one request with its bounded retries,
the six decoders (Anthropic, Gemini, the three transports of xAI, `claude -p`) and
the agent's `TurnAccumulator`. A frame is an action that appends what the decoder
makes of it to `pending`; `Deliver` hands one event to the agent. What the
provider does on its side (`srv`) is what the adapters take the wire protocol to
be; the connection may be reset or closed at any point, before an event, between
two, or in the middle of a call. `ImplementsEventStream` is the refinement: the
abstract call, fragments and outcome are those of the accumulator.

### TuiTurns, TuiTurnsProofs
The render loop (`Submit`, `CancelTurn`, `PermitKey`, `TurnMsg`, `RecvPermit`), a
task per turn that forwards the stream (`Submitted`, `Forward`, `Finished`), and
the agent's detached `run_loop` (`Emit`, `Review`, `Ask`, `Answered`, `ToolReturns`,
`LoopEnds`), which reaches the terminal only through the stream and the gate. Both
channels are bounded, so a task may stand before a full one. Turns of other
gateways (`Remote`) share the gate. A cancelled turn's task is gone at once, its
messages already sent stay in the channel with its generation.

### McpRequests, ToolsProofs
The handshake and any number of callers over one server. A request is `Insert`
(id and table entry), `Lock`, `Written` or `WriteFails`, then `Receive`, `Expire`
and `GiveUp` (the time-out and the removal of the entry are two steps, and an
answer may come between them). The reader is `DispatchLine` and, at the end of the
server's output, `Drain`. The server reads, answers, repeats an answer, stops
reading or exits as it likes. It also makes requests of its own (`ServerAsks`), under
numbers of its own choosing: `dispatch_line` looks at the id of a line only, so one with
the number of a pending request settles that request, with `Null`, which is what
`rpc_result` makes of a line without result or error. Over HTTP a request is `Post` and
`Reply`. Answers carry a serial number which the code does not have: it tells whose
answer it is. The specification is `McpSpec`.

### FileEdits, ToolsProofs
`write_file`, `edit_anchored`/`edit_files`, `str_replace` and `batch_edit`, by any
number of turns at once, without locks, as the code has none. A call is its
reads, its computation (`apply_edits` with `Resolve`, `str_replace` with `narrow`,
`Found` and `Replaced`) and its writes, each of which first empties the file
(`Write`) and then fills it (`Fill`), or breaks off with a part of the text in it
(`FillFails`); opening the file may fail too, and leaves it as it was. The observer
`torn` has the files that a write broke off in and none has written whole since.
`batch_edit` reads all files, waits for the
provider's batch (`Poll`, `JobEnds`, `WindowOver`) and applies its replies. The
properties compare with definitions of their own, which have no regard for how the
code does it: `ByHand` edits one line after another, from the last to the first, in
the text as it stands; `ReplacedByHand` reads the region from its first line, and
writes the new text where it finds the old.

### MatrixServe, MatrixServeProofs
The serve loop is one task: `pc` says what it is in the middle of. `Baseline`
takes the first token, `Sync` a response, and then every message of it is
`Skip`ped or `Engage`d, acknowledged (`Ack`), answered (`Notice`, `TurnEnds`) and marked
(`Finish`), before `Done` returns to the select. `Due` takes the loop to a job instead
and drops the sync; `Report` and `Fired` are the job's messages. The homeserver
keeps one timeline; a response may leave out all but the last `Limit` messages of a
room, and may hold an event of a wrong shape, which fails the whole response. Any
request may fail, and one that fails may have been done all the same, when only its
answer was lost: a message is then in the room and its id not known (`Post`), a
reaction there and not to be taken back (`Ack`, `Finish`). `Crash` and `Restart` end a process
and begin the next, which remembers nothing. `RecentIds` is `order`, of `Cap` ids; `kept`
has all that were ever put into it.

### AcpPrompts, AcpPromptsProofs
The editor's gateway. `ReadPrompt`, `ReadCancel` and `Eof` are the reader's loop;
a prompt's task is `Arm` (or `Reject`), `Submitted`/`SubmitFails`, the two branches
of the biased select (`Cancelled`, which comes first, and the `Take` actions), `Finish` with its `disarm`,
and `Answer`. A `Notify` is named by the prompt that made it, and `permit` holds
those with a stored signal. An event is what `event_to_update` makes of it:
shown, not shown, or an error; a stop reason other than cancelled is
`"end_turn"`. `Emit` and `AgentEnds` are the detached `run_loop` of the agent:
when the stream is dropped it goes on, and its events go nowhere. A line is written
under the writer's lock, so a write is one step. `overlapped`, `asked` and
`heard` are observers.

## 3. The runs

| Run | Instance | What it shows |
|---|---|---|
| `schedule` | 2 jobs (a tool job with a retry; a prompt job whose slots run out), 1 manual request, one budget, below the least deadline, clock to 5, calls of up to 2 s, a history of 2 | timers, chains, waiting lines, wake-ups, deadlines and handles are right, the registry implements the lifecycle, verdicts arrive and manual requests fire |
| `agent_turn` | 1 turn, 3 steps, one fallback, one nudge of each kind | every bounce, lever, compaction and exit in combination; termination |
| `agent_chain` | 2 turns, two fallbacks, 1 step, clock to 2 | the chain and the shared breaker |
| `memory_safety` | 4 turns, any overlap, a limit of 3 messages, all faults | no torn file, whole turns, continuity |
| `acp_prompts` | 2 prompts of one session, a second session, 2 events ahead | handles, cancels and answers of the editor's prompts |
| `provider_streams` | six adapters, 2 calls of 2 fragments, a provider-run tool, 2 pieces of text, 6 retries, the idle time-out of 120 s | the contract of the event stream, whole answers, cuts told from ends, retries within the agent's wait |
| `tui_turns` | 2 turns of the terminal and one of another gateway, a tool that asks and one that does not, channels of 1 | consent, the screen, the prompt and the reviews |
| `tui_cancel_claim` | 1 turn and one of another gateway | a cancelled turn's agent goes on (section 6) |
| `mcp_requests` | the handshake with up to 2 pages, 2 callers, 2 calls, 1 answer given twice, 1 request of the server's numbered like a call's, room for one unread request | answers, the table, and the end of what was written |
| `file_edits` | 2 turns, 2 calls of 6 kinds, 2 files with a repeated line or a missing file, 1 write that fails, at its beginning or on the way | lines meant, reports true |
| `file_reply_claim` | one `batch_edit` over 3 files, the first missing | a reply goes to another file (section 6) |
| `matrix_serve` | 2 rooms, ids kept for 1 post, responses of 1 message per room, 2 messages, 2 posts, 1 job, 1 failure with or without effect, 2 processes | messages looked at once, replies address the bot, turns are marked, no response holds the loop up |

Why the bounds are enough. *Schedule:* two jobs are the least in which one fire
delays another; the second differs from the first in every respect the code looks
at. The clock reaches past a slot, a retry, a poll and a deadline in one behaviour,
and one more request adds only a longer queue. *Agent:* three steps let a turn be
bounced, run tools and be compacted; each nudge counter is compared with its limit
independently, so a limit of one reaches both sides of every comparison. Two
turns and three positions are the least in which a turn starts behind a
demotion that another made while a third position is left. *Memory:* four turns of
a session give two overlapping pairs, and every limit on messages is crossed.
*Editor:* two prompts of one session are the least that take each other's handle
away; two queued events let a cancel arrive with events before and behind it.
*Streams:* two calls of two fragments interleave where a wire lets them; the
retries and the time-out are the program's defaults. *Terminal:* two turns are the
least with messages of an abandoned one; a channel of one is full when it holds
anything, and a request that arrives while another is shown needs a second asker.
*MCP:* an answer given twice, one after its time-out, a full pipe, a closed one and a
request of the server's own each meet a request of the other caller; the server's
number is that of the first call behind a handshake of one page, or of the second
page's list. *Files:* two calls race on every pair
of their steps, and each tool meets the file that makes its resolution hard: a
repeated line, or one that differs in its indentation. *Matrix:* with caps of one
the second post pushes out the first and the second message of a room cuts the first
from the response; what they bound is proved for every cap.
`CHECK_DEADLOCK FALSE` is set where turns, prompts or processes end and nothing
starts new ones.

## 4. Fairness

*Schedule.* The clock advances; the loop's task is scheduled; a tool call
returns (the registry awaits it without a time-out, and so the model grants this
to tools explicitly). Nothing is assumed of accepted work, which may never end,
nor of the gateway's syncs, which may interrupt every wait.

*Agent.* Each turn's task is scheduled whenever it can move. A silent model is
ended by `STREAM_IDLE_TIMEOUT`, 120 s, on opening and between events, which the model has as
`OpenFails` and `StreamFails`. Three things are granted that the code does not
bound: a stream that keeps talking ends some day, tools and the verify command
return, and the summary request, which has no time-out, is answered.

*Editor.* Each prompt's task is scheduled whenever it can move, and the editor
reads what is written. Nothing is assumed of the agent: a cancelled prompt is
answered though the agent never speaks again.

*Terminal.* The branches of the render loop's `select!` are polled in random
order, so each is weakly fair by itself; tasks are scheduled; a turn comes to its
end, which is `AgentLoop`'s `TurnsEnd`; and the user answers a question that is
shown. The user need not press any other key.

*MCP.* The client's tasks are scheduled and its timers run. Nothing is assumed
of the server, and so a request that is not yet written has no promise: the
writer waits for a server that does not read its input for as long as that lasts,
and the ceiling of the request covers only the wait for the answer.

*Matrix.* The loop takes steps while it has any. `FailCap`, `PostCap` and `JobCap`
bound what the homeserver and the jobs may do against it, and stand for: requests
work some day, turns and jobs come to an end. The select is biased, so jobs that
are due at every turn of the loop would keep the sync waiting; that is why their
number is bounded.

*Memory, files and streams.* Only safety is claimed.

## 5. What is proved

TLAPS checks these for every value of the constants, from the assumptions named
in the modules. The type invariants are conjuncts of the inductive ones and so hold
of every reachable state; they are not properties of the runs.

*ScheduleRegistryProofs.* The inductive invariant `RegistryInv` is the type
invariant with three parts: `FireOK` (what a fire in progress holds out of the
job), `TimersInv` (exactly which timers a job may have, given the fire) and
`WakeupOK` (a parked loop with a queued request has a permit or a notifier on its
way). `OneTimer` and `NeverStranded` are not inductive alone, since a fire takes
the pending record out of the job while it awaits; `FireOK` says where it went.
`StepOfJob` reduces each action to the one job it touches. From it follow the
safety properties, `DeadlineIsFixed`, and `Refinement`, the step simulation of
`JobLifecycle`. `NoStalePollAlways` needs one more invariant, `HandleInv`: whatever
holds a handle that will be asked with, the record on the job, the one a poll has taken
off it while it awaits, or the answer in hand, holds the one given out last, and only
earlier ones are ever replaced. `ChainsInOrderAlways` adds that a chain has retries left, and one
lemma about data: the bounded history is the old one and the new outcome, perhaps
without its first.

*AgentLoopProofs.* Each action has many effects, and each proof needs few. So
there are effect lemmas, one per part of the state (`Leaves`, `ChainMoves`,
`RequestMoves`, `LeverMoves`, `HistoryMoves`, `RoundMoves`), which say what any step does
to that part, and `Others`: a step of one turn leaves the others' state alone.
On them stand the type invariant and four more: `ChainInv` (what has failed is
behind the cursor), `RoundInv` with `Voices` (whose prose is held or shown in this
round) and `Spent` (requests counted against steps and fallbacks), and `HistoryInv`
(every call is answered right behind it). `TornOnlyAtTheCutAlways` assumes
`SeedsWhole`, that a turn's loaded history pairs its calls, which is what
`SessionMemory` hands it. That the position a turn starts at is the least healthy one
rests on the well-foundedness of the naturals. Two results belong to no run:
`RequestsBoundedAlways`, and `DemotionEarnedAlways`, on which `SkippedForCause` rests.

*SessionMemoryProofs.* `MemoryInv`: a synced temp file holds its turn's
transcript; no directory state that may come back is torn; a turn marked current
has the file's content as its base. The lemma about data is `TrimAppend`:
trimming before an exchange is added loses nothing that trimming afterwards would
keep. From it follow `NeverTornAlways` and `ContinuityAlways`. `WholeInv` says of every
transcript there is, in the file, in a directory that may come back, or loaded by
a turn, that it is paired and of saved turns only; that trimming and appending keep
this are its two lemmas, and `WholeTurnsAlways` follows.

*AcpPromptsProofs.* `IInv`: two armed prompts of a session are both marked
as overlapping; one that is not so marked still has its session's handle; what a
prompt has heard stays stored until it decides; whatever is stored was asked for.
The handle map is only half of the story, because `disarm` removes whatever handle
is there; `OverlapSeen` and `AloneKeepsHandle` say when it is the right one.

*TuiTurnsProofs.* Generations in the channel are in the order of their turns and
none is ahead of its turn's (`ScreenInv`); an agent that runs was spawned (`SpawnInv`); a
request for permission is in one place only: in the channel, on the screen, or
answered (`ConsentInv`). The last gives more than `ConsentFirst`: an answer "yes" found
by a tool was given to that very call (`ConsentIsFresh`).

*ToolsProofs, the MCP client.* Numbers of requests in flight are unique and smaller than the
next, every entry of the table belongs to one of them, and the one-shot of an entry
is empty as long as the entry is there. A `Null` in the pipe or in a one-shot bears a
number of the server's own (`Interlopers`). From these follow `OwnAnswer` and
`NothingLeaks`; `NumbersAreUnique` also bounds the numbers by the requests made.

*ToolsProofs, what an edit makes of a text.* The code applies all edits at one go, from
positions it has looked up before; the properties speak of a hand that changes the
text step by step. `ApplyEditsByHand` shows that the two agree: after each line from the
last on, the text is the lines before it as they were and those behind it as
`apply_edits` makes them (`ByHandLines`), because what is written for a line never moves
the lines before it. `Resolve` means one line or none (`ResolveMeans`): the case with a
landmark rests on the least line behind it. For `str_replace`, `Found` is a recursive
function, and `Through` another one that reads the text in the other manner; that they
come to the same places is shown by induction on the place (`CourseOfValues`, over a set
and not an operator), and that replacing at the places found is what a reader writes,
by `ReplacedIsThrough`, which cuts the text at each place. `StrReplaceFacts` adds the
region. `EditsWhatIsMeant` then needs of the state only that what is put is what the tool
makes of what was got (`Drafted`). `ExactlyOnce` adds that the place is the only one, of a
text without a beginning that is also its end (`Borderless`).

*ToolsProofs, the files.* `ReportsAreTrue` is far from inductive: between a read and a
write nothing but the absence of others keeps a file as it was. The invariant `IInv`
says what each actor keeps in mind, by places (`Keeps`, `KeptPath`, `KeptText`), and that
it is still true: two that keep one file have raced for it (`Single`), and a file kept
once is as it was read, or empty while it is filled (`Fresh`), unless a write broke off in it. `StepSingle` shows that
the observer `raced` misses no overlap: whatever two actors hold at once, at any state,
`Contended` sees. For `batch_edit`, `Numbered` relates a task's `custom_id` to its place among
the tasks and `Answered` says whose reply it will find. They hold where `NoneLeftOut`: an
entry that may be unreadable is followed by none for another file. That is the
condition under which the finding of `file_reply_claim` cannot occur, and is a hypothesis
of `ReportsMatchFiles` and `BatchRepliesStayHome`; within `IInv` it is the premise of just
those parts that need it, so `FilesTypeCorrect` and `EditsWhatIsMeant` hold without it. The
calls of the run `file_edits` satisfy it (TLC evaluates `CallsLeaveNoneOut`) and contain a
batch over a file that is missing. A batch that names one file twice is in none of them
and left to the proofs.

*MatrixServeProofs.* `LookInv` divides the messages: behind the token all are looked
at or excused, ahead of the response none is, and within the response the queue
tells which; `QueueInv` keeps the queue to messages between the two tokens, each
once. `RecentInv` says that `RecentIds` holds the last of the ids the process was told, in
their order, as many as it can: a message sent without its id coming back takes no
place among them. That is what makes `insert`'s eviction by insertion order right. `MarkInv` excepts from `TurnsAreMarked`
only the message in hand.

*ProviderStreamsProofs.* The decoder works on whole frames and the agent takes one
event at a time, so the turn lags behind the decoder, and `AnswerIsExact` says nothing
of the time between. The inductive invariant `StreamsInv` therefore speaks of the turn as
it will be when the pending events have been taken (`CallAfter`, `ToolAfter`, `ArgsAre`,
`TextIs`), relates that to what the provider has sent (`StreamInv`, common to all
adapters, and one conjunct per decoder in `AdapterInv`), and says of the pending
events that the contract lets the turn take them one by one (`Sound`). It has two
kinds of steps. A frame appends: `Leads` is what a sequence of events makes of the turn,
the `Add...` lemmas extend it by one event, and `AddEnds`, `AddAnswers` and `AddCloses`
by as many as a frame brings, by induction over the prefixes of the sequence
(`SetInduction` over the naturals, on a set and not on an operator). `Deliver` takes the
first: `Handed...` show that this changes nothing of what the turn will be, and
that what is left is still `Sound`. After an error or the end of the body
(`Live` is false) the decoder no longer matters and only `StreamInv` is kept.
`Refinement` is then one lemma for a delivered event, by its kind, one for frames,
which leave the turn alone, and one for failures. `CutIsNotAnEnd` rests on the
last conjunct of `StreamInv`: a stream that is over while the provider has told nothing was
drained. `RetriesFitAlways` needs an invariant of its own, the sum of the first
backoffs; its hypotheses are exactly that all of them together are shorter than
`STREAM_IDLE_TIMEOUT`, which holds of the default six retries (94 s of 120) and not of
seven (126 s), a number the environment variables allow.

Every safety property of every passing run is proved. Only model-checked: the
liveness properties (`VerdictArrives`, `ManualRunHonoured`, `TurnsEnd`, `CancelEnds`,
`PromptComesBack`, `ReviewsAreDecided`, `WrittenRequestsEnd`, `MessagesReached`), since fairness
and ENABLED are outside the prover.

## 6. Where the code and its words part

As runs:
- `tui_cancel_claim`: cancelling a turn drops the provider's stream, the doc says,
  which "cancels the provider request"; but `run_loop` is detached and goes on asking
  the model and running tools. The same holds of ACP (`lvz-gw-acp/src/lib.rs:26`).
- `file_reply_claim`: `batch_edit` numbers its tasks by their place in the call and
  looks the replies up by their place among the files that could be read, so with
  a missing file in front each reply is applied to the file after its own.

As definitions that hold no run; each is refuted when it is made the property of its
module's `.cfg`:
- `OldOccursOnce` (`FileEdits`, with the `OverlapStarts` and `OverlapCalls` of
  `MCFileReplies`): `old` must occur exactly once, the doc of `str_replace`
  says (`lvz-tools/src/context.rs:494`), "it never guesses"; the code counts with
  `str::matches`, which skips occurrences that overlap one before, so the lines
  `a a` pass as unique in `a a a` and the first place is edited. `ExactlyOnce` proves
  the doc right of every text that cannot overlap itself.
- `TimeoutIsTrue` (`ScheduleRegistry`): a timeout verdict may be reported for work
  that ended between the last poll and the deadline.
- `NoSecondCopy` (`ScheduleRegistry`): a poll tool that fails once drops the pending
  record, and the retry starts a second copy of work still running.
- `CompactionKeepsPairs` (`AgentLoop`): compaction cuts at a fixed distance and
  separates a call from its result once a round without tools (a pause, a bounce)
  shifts the parity.
- `NudgedOnce` (`AgentLoop`, with `NudgeConfigs`): the no-progress nudge, documented as
  given once, is given again every time the streak of rounds without an edit grows.
- `KeepsEveryTurn` (`SessionMemory`): overlapping turns of a session lose the earlier
  one's exchange.
- `EvidenceKept` (`SessionMemory`): two turns that find one corrupt file can set aside
  a healthy transcript over the evidence.
- `EndedCallsAreWhole` (`ProviderStreams`): when an answer is cut at its token limit, a
  call is ended with the fragments it had.
- `ServerRequestsAreIgnored` (`McpRequests`): the comment above `dispatch_line` says so of
  requests and notifications with "no id we know" (`lvz-mcp/src/lib.rs:420`); one whose id
  is also that of a pending request settles it with `Null`. What happens then depends on
  the request: `initialize` takes it, a list of tools that is null fails the connection,
  a call of a tool fails.
- `EverySendIsKept` (`MatrixServe`): "every message the bot sends is recorded in `sent`",
  the doc says (`lvz-gw-matrix/src/lib.rs:1821`); one that the homeserver took although the
  request was reported as failed is not, and in a group a reply to it is passed over.
- `RoundTripsEnd` (`McpRequests`): the ceiling on a round trip does not cover the wait
  for the writer's lock and the write.

Seen while modelling, and in the conditions of properties:
- *Editor.* The reader spawns a prompt's task and goes on, so a cancel read before
  that task has armed its handle finds none and is dropped, though the comment on
  `cancel` says "the cancel is never lost to a race" (`lvz-gw-acp/src/lib.rs:483`). Of two
  prompts of one session the first loses its handle when the second arms, the
  second when the first ends.
- *Terminal.* A request for permission that is replaced by another is reported to
  the model as "declined by user".
- *MCP.* A request that enters the table after the reader has drained it is
  answered by nobody and waits for its whole time-out.
- *Streams.* Adapters other than that of the Responses transport take a connection
  that is closed cleanly before the provider's last word for an end.
- *Files.* Two edits of one file at a time undo each other (`raced` excepts
  them). A write that fails once the file is open leaves it empty or cut short, and the
  tool reports an error (`torn` excepts it); nothing is written to a copy first. A file that is read while another turn writes it may be found cut short. Of
  two tasks of one batch for the same path the first edit is lost. A batch reply
  cut at its token limit is written as the whole file (`lvz-tools/src/batch.rs:272`).
  `str_replace` counts matches that do not overlap, so an `old` that overlaps itself
  counts as unique; its schema speaks of the first or last `old`, but more than one
  is refused.
- *Matrix.* A restart forgets the ids it has sent and takes the backlog as its
  baseline. Limited timelines and events of a wrong shape lose messages (`excused`).
  A job's report that cannot be sent is gone (`lvz-gw-matrix/src/lib.rs:1615`). A room
  that was a direct chat stays one in `dm_cache` when a third member joins.

## 7. Not modelled, and the plan

Not modelled for good: wire formats of the providers, prompts and texts,
tokenising and parsing, the cryptography of Matrix, floating-point estimates of
the tuners, generated code, configuration parsing, and the tools that only read.
They are the larger part of the source, by lines, and hold no state that the order of
things could spoil.

What is left, in this order:
1. The A2A gateway: the task store of 256 and the states of a streamed task, whose
   last is "completed" whether or not the stream failed.
2. The bounded in-memory store of `lvz-memory` and its eviction by order of use.
3. The cron engine (`next_after` against a reference calendar) and the loop of the
   cron gateway; the registry takes the next slot as a constant function.
4. The counter behind the editor's `session/new`, which starts at 1 in every
   process while the transcripts of a `FileStore` outlive it.
5. Slack's task per event and the limiter and metrics of the HTTP gateway; the
   rounds of the council.
