--------------------------- MODULE ProviderStreams ---------------------------
(***************************************************************************)
(* One model turn read from a provider: the request is opened with bounded *)
(* retries (lvz_protocol::retry), the adapter decodes the provider's wire  *)
(* frames into events, and TurnAccumulator of lvz-agent puts the calls     *)
(* together from them.  Six adapters are modelled: "anthropic", "gemini",  *)
(* "openai" (the xAI chat completions transport), "grpc" (the xAI v6       *)
(* transport), "responses" (the xAI Responses transport), and "claude"     *)
(* (claude -p); which one is in use is chosen once.                        *)
(*                                                                         *)
(* Every adapter hands its decoder's events over one by one and reads on   *)
(* only when it has none left, so a frame is read with nothing pending;    *)
(* how the network groups frames into chunks cannot be seen.  A call's     *)
(* arguments are Frags fragments; a frame carries one of them, or the      *)
(* whole blob.  Thinking, citations and notices, forwarded one for one,    *)
(* and usage are left out.                                                 *)
(*                                                                         *)
(* The provider's side (srv) is what the adapters take the wire protocols  *)
(* to be.  The connection may be reset or closed at any point.             *)
(***************************************************************************)
EXTENDS Naturals, SequencesExt

CONSTANTS
  Calls, Tools, \* ids of client calls and of provider-run calls
  Frags,        \* fragments of a call's arguments
  Texts,        \* pieces of the answer's text
  MaxRetries,   \* {ANTHROPIC,GOOGLE,XAI}_MAX_RETRIES
  IdleTimeout   \* STREAM_IDLE_TIMEOUT, in seconds

ASSUME StreamAssumption ==
  /\ IsFiniteSet(Calls)
  /\ Frags \in Nat \ {0}
  /\ Texts \in Nat
  /\ MaxRetries \in Nat
  /\ IdleTimeout \in Nat

Adapters == {"anthropic", "gemini", "openai", "grpc", "responses", "claude"}

VARIABLES
  adapter,
  place,     \* "opening", "reading", and "left" when the agent is done with it
  attempt,   \* retry_transient's count
  waited,    \* seconds spent in its backoffs
  srv,       \* what the provider has put on the wire
  dec,       \* the decoder
  pending,   \* its sink
  drained,   \* the body has ended
  turn       \* TurnAccumulator, and what the gateway was forwarded

opening == <<adapter, place, attempt, waited>>
vars == <<opening, srv, dec, pending, drained, turn>>

Whole == [i \in 1 .. Frags |-> i]
WholeText == [i \in 1 .. Texts |-> i]

Start(c) == [event |-> "start", id |-> c, data |-> <<>>]
Delta(c, json) == [event |-> "delta", id |-> c, data |-> json]
End(c) == [event |-> "end", id |-> c, data |-> <<>>]
Use(s) == [event |-> "use", id |-> s, data |-> <<>>]
Result(s) == [event |-> "result", id |-> s, data |-> <<>>]
Text(t) == [event |-> "text", id |-> "text", data |-> t]
Done(stop) == [event |-> "done", id |-> stop, data |-> <<>>]
Error == [event |-> "error", id |-> "error", data |-> <<>>]

Ends(cs) == [i \in DOMAIN cs |-> End(cs[i])]

\* The elements of s that are not in S, in their order.
Without(s, S) == FlattenSeq([i \in DOMAIN s |-> IF s[i] \in S THEN <<>> ELSE <<s[i]>>])

Init ==
  /\ adapter \in Adapters
  /\ place = "opening"
  /\ attempt = 0
  /\ waited = 0
  /\ srv = [wire |-> [c \in Calls |-> "unseen"], sent |-> [c \in Calls |-> 0],
            tool |-> [s \in Tools |-> {}], said |-> 0, assembled |-> FALSE,
            told |-> "none", bye |-> FALSE]
  /\ dec = [blocks |-> {}, calls |-> <<>>, sent |-> {}, whole |-> {}, closed |-> {},
            last |-> <<>>, noted |-> <<>>, hinted |-> {}, announced |-> {},
            partial |-> FALSE, stop |-> "none", done |-> FALSE]
  /\ pending = <<>>
  /\ drained = FALSE
  /\ turn = [call |-> [c \in Calls |-> "unseen"], args |-> [c \in Calls |-> <<>>],
             tool |-> [s \in Tools |-> "unseen"], text |-> <<>>, outcome |-> "open"]

----------------------------------------------------------------------------
\* retry_transient: 2 s, 4 s, ... 32 s, for a throttled or overloaded provider.

BackoffUncapped(n) == 2 ^ (n + 1)

Backoff(n) == IF n < 4 THEN 2 ^ (n + 1) ELSE 32

Retry ==
  /\ place = "opening"
  /\ attempt < MaxRetries
  /\ waited' = waited + Backoff(attempt)
  /\ attempt' = attempt + 1
  /\ UNCHANGED <<adapter, place, srv, dec, pending, drained, turn>>

Leave(outcome) ==
  /\ place' = "left"
  /\ turn' = [turn EXCEPT !.outcome = outcome]
  /\ pending' = <<>>

\* Another error, the last attempt's, or the agent's time-out around the open.
OpenFails ==
  /\ place = "opening"
  /\ Leave("failed")
  /\ UNCHANGED <<adapter, attempt, waited, srv, dec, drained>>

\* retry_transient returns the open stream; its locals are gone.
Opens ==
  /\ place = "opening"
  /\ place' = "reading"
  /\ attempt' = 0
  /\ waited' = 0
  /\ UNCHANGED <<adapter, srv, dec, pending, drained, turn>>

----------------------------------------------------------------------------
\* The provider's answer

Reads(a) ==
  /\ adapter = a
  /\ place = "reading"
  /\ pending = <<>>
  /\ ~drained
  /\ UNCHANGED <<opening, drained, turn>>

Emits(events) == pending' = events

Unsaid == srv.told = "none"

Begun == {c \in Calls : srv.wire[c] # "unseen"}
Streaming == {c \in Calls : Unsaid /\ srv.wire[c] = "open"}
Complete(c) == srv.sent[c] = Frags

\* What the provider may say of its answer, which it has finished.
Verdict(r) ==
  /\ Unsaid
  /\ \/ r = "tool_use" /\ Begun # {} /\ \A c \in Begun : Complete(c)
     \/ r = "end_turn" /\ Begun = {}
     \/ r = "max_tokens"

\* Text deltas, forwarded by every adapter as they come.
TextFrame ==
  /\ \E a \in Adapters \ {"claude"} : Reads(a)
  /\ Unsaid
  /\ srv.said < Texts
  /\ srv' = [srv EXCEPT !.said = @ + 1]
  /\ Emits(<<Text(<<srv.said + 1>>)>>)
  /\ UNCHANGED dec

----------------------------------------------------------------------------
\* lvz-anthropic: content blocks, one after the other

AnthropicFinal ==
  IF dec.done THEN <<>>
  ELSE <<Done(IF dec.stop = "none" THEN "end_turn" ELSE dec.stop)>>

BlockStart(c) ==
  /\ Reads("anthropic")
  /\ Unsaid /\ Streaming = {} /\ srv.wire[c] = "unseen"
  /\ srv' = [srv EXCEPT !.wire[c] = "open"]
  /\ dec' = [dec EXCEPT !.blocks = @ \cup {c}]
  /\ Emits(<<Start(c)>>)

InputJsonDelta(c) ==
  /\ Reads("anthropic")
  /\ c \in Streaming /\ ~Complete(c)
  /\ srv' = [srv EXCEPT !.sent[c] = @ + 1]
  /\ Emits(IF c \in dec.blocks THEN <<Delta(c, <<srv.sent[c] + 1>>)>> ELSE <<>>)
  /\ UNCHANGED dec

BlockStop(c) ==
  /\ Reads("anthropic")
  /\ c \in Streaming
  /\ srv' = [srv EXCEPT !.wire[c] = "closed"]
  /\ Emits(IF c \in dec.blocks THEN <<End(c)>> ELSE <<>>)
  /\ dec' = [dec EXCEPT !.blocks = @ \ {c}]

\* A provider-run tool: its use and its result are blocks of their own.
ServerBlock(s) ==
  /\ Reads("anthropic")
  /\ Unsaid /\ Streaming = {}
  /\ \/ /\ srv.tool[s] = {}
        /\ srv' = [srv EXCEPT !.tool[s] = {"used"}]
        /\ Emits(<<Use(s)>>)
     \/ /\ srv.tool[s] = {"used"}
        /\ srv' = [srv EXCEPT !.tool[s] = {"used", "answered"}]
        /\ Emits(<<Result(s)>>)
  /\ UNCHANGED dec

MessageDelta(r) ==
  /\ Reads("anthropic")
  /\ Verdict(r) /\ Streaming = {}
  /\ srv' = [srv EXCEPT !.told = r]
  /\ dec' = [dec EXCEPT !.stop = r]
  /\ Emits(<<>>)

MessageStop ==
  /\ Reads("anthropic")
  /\ ~Unsaid /\ ~srv.bye
  /\ srv' = [srv EXCEPT !.bye = TRUE]
  /\ dec' = [dec EXCEPT !.done = TRUE]
  /\ Emits(AnthropicFinal)

StreamError ==
  /\ Reads("anthropic")
  /\ ~srv.bye
  /\ srv' = [srv EXCEPT !.bye = TRUE]
  /\ dec' = [dec EXCEPT !.done = TRUE]
  /\ Emits(<<Error>> \o AnthropicFinal)

----------------------------------------------------------------------------
\* lvz-google: a call arrives whole; STOP is said of an answer with calls too

GeminiFinal ==
  <<Done(IF dec.calls # <<>> /\ dec.stop \in {"none", "end_turn"} THEN "tool_use"
         ELSE IF dec.stop = "none" THEN "end_turn" ELSE dec.stop)>>

FunctionCall(c) ==
  /\ Reads("gemini")
  /\ Unsaid /\ srv.wire[c] = "unseen"
  /\ srv' = [srv EXCEPT !.wire[c] = "closed", !.sent[c] = Frags]
  /\ dec' = [dec EXCEPT !.calls = Append(@, c)]
  /\ Emits(<<Start(c), Delta(c, Whole), End(c)>>)

FinishReason(r) ==
  /\ Reads("gemini")
  /\ Verdict(r)
  /\ srv' = [srv EXCEPT !.told = r]
  /\ dec' = [dec EXCEPT !.stop = IF r = "tool_use" THEN "end_turn" ELSE r]
  /\ Emits(<<>>)

----------------------------------------------------------------------------
\* lvz-xai/http.rs: chunks of chat completions, calls keyed by index

\* close_tools and the single Done.
OpenaiFinal ==
  IF dec.done THEN <<>>
  ELSE Ends(dec.calls) \o <<Done(IF dec.stop = "none" THEN "end_turn" ELSE dec.stop)>>

ToolCallDelta(c) ==
  /\ Reads("openai")
  /\ Unsaid /\ ~Complete(c)
  /\ srv' = [srv EXCEPT !.wire[c] = "open", !.sent[c] = @ + 1]
  /\ LET delta == <<Delta(c, <<srv.sent[c] + 1>>)>> IN
     IF srv.wire[c] = "unseen"       \* only the first names its id
     THEN Emits(<<Start(c)>> \o delta) /\ dec' = [dec EXCEPT !.calls = Append(@, c)]
     ELSE Emits(delta) /\ UNCHANGED dec

\* The calls are ended, and the map still holds them.
ChoiceFinishKept(r) ==
  /\ Reads("openai")
  /\ Verdict(r)
  /\ srv' = [srv EXCEPT !.told = r]
  /\ dec' = [dec EXCEPT !.stop = r]
  /\ Emits(Ends(dec.calls))

ChoiceFinish(r) ==
  /\ Reads("openai")
  /\ Verdict(r)
  /\ srv' = [srv EXCEPT !.told = r]
  /\ dec' = [dec EXCEPT !.stop = r, !.calls = <<>>]
  /\ Emits(Ends(dec.calls))

DoneMarker ==
  /\ Reads("openai")
  /\ ~Unsaid /\ ~srv.bye
  /\ srv' = [srv EXCEPT !.bye = TRUE]
  /\ dec' = [dec EXCEPT !.done = TRUE, !.calls = <<>>]
  /\ Emits(OpenaiFinal)

----------------------------------------------------------------------------
\* lvz-xai/grpc.rs: a later fragment may leave its call's id out

GrpcFinal ==
  LET tool(s) == (IF s \in dec.announced THEN <<>> ELSE <<Use(s)>>) \o <<Result(s)>> IN
  FlattenSeq([i \in DOMAIN dec.noted |-> tool(dec.noted[i])])
    \o Ends(dec.calls)
    \o <<Done(IF dec.stop = "none" THEN "end_turn" ELSE dec.stop)>>

\* handle_tool_call, for a chunk that names its call or leaves the id out.
ToolCallChunk(c, named) ==
  /\ Reads("grpc")
  /\ Unsaid /\ ~Complete(c)
  /\ named \/ dec.last = <<c>>
  /\ srv' = [srv EXCEPT !.wire[c] = "open", !.sent[c] = @ + 1]
  /\ LET id == IF named THEN c ELSE dec.last[1]
         new == id \notin ToSet(dec.calls)
     IN  /\ dec' = [dec EXCEPT !.calls = IF new THEN Append(@, id) ELSE @,
                               !.last = <<id>>]
         /\ Emits((IF new THEN <<Start(id)>> ELSE <<>>)
                    \o <<Delta(id, <<srv.sent[c] + 1>>)>>)

\* note_server_call: announced once, with its arguments if they come.
ServerCallChunk(s, hint) ==
  LET known == s \in ToSet(dec.noted)
      tells == hint /\ s \notin dec.announced
  IN
  /\ Reads("grpc")
  /\ Unsaid
  /\ srv' = [srv EXCEPT !.tool[s] = @ \cup {IF hint THEN "hinted" ELSE "noted"}]
  /\ srv' # srv
  /\ dec' = [dec EXCEPT !.noted = IF known THEN @ ELSE Append(@, s),
                        !.announced = IF tells THEN @ \cup {s} ELSE @]
  /\ Emits(IF tells THEN <<Use(s)>> ELSE <<>>)

FinishChunk(r) ==
  /\ Reads("grpc")
  /\ Verdict(r)
  /\ srv' = [srv EXCEPT !.told = r]
  /\ dec' = [dec EXCEPT !.stop = r]
  /\ Emits(<<>>)

----------------------------------------------------------------------------
\* lvz-xai/responses_sse.rs: one call may come as deltas, as a blob, twice as
\* both, or only in the terminal frame

\* close_function for a call, with the blob of its arguments or without.
CloseEvents(c, blob) ==
  (IF c \in ToSet(dec.calls) THEN <<>> ELSE <<Start(c)>>)
    \o (IF blob /\ c \notin dec.sent THEN <<Delta(c, Whole)>> ELSE <<>>)
    \o (IF c \in dec.closed THEN <<>> ELSE <<End(c)>>)

CloseAll(cs, blob) == FlattenSeq([i \in DOMAIN cs |-> CloseEvents(cs[i], blob)])

Closed(d, cs, blob) ==
  LET late == {c \in ToSet(cs) : blob /\ c \notin d.sent}
  IN [d EXCEPT !.calls = @ \o Without(cs, ToSet(@)), !.sent = @ \cup late,
               !.whole = @ \cup late, !.closed = @ \cup ToSet(cs)]

\* close_remaining: calls of the stream, or of the harvest, that were not closed.
Remaining(d) == Without(d.calls, d.closed)

ItemAdded(c, blob) ==
  /\ Reads("responses")
  /\ Unsaid /\ srv.wire[c] = "unseen"
  /\ srv' = [srv EXCEPT !.wire[c] = "open"]
  /\ dec' = [dec EXCEPT !.calls = Append(@, c),
                        !.sent = IF blob THEN @ \cup {c} ELSE @,
                        !.whole = IF blob THEN @ \cup {c} ELSE @]
  /\ Emits(<<Start(c)>> \o (IF blob THEN <<Delta(c, Whole)>> ELSE <<>>))

ArgumentsDelta(c) ==
  /\ Reads("responses")
  /\ c \in Streaming /\ ~Complete(c)
  /\ srv' = [srv EXCEPT !.sent[c] = @ + 1]
  /\ IF c \in dec.whole THEN Emits(<<>>) /\ UNCHANGED dec
     ELSE /\ Emits(<<Delta(c, <<srv.sent[c] + 1>>)>>)
          /\ dec' = [dec EXCEPT !.sent = @ \cup {c}]

\* function_call_arguments.done, with the blob; the provider has streamed all
\* of the arguments by then, or none.
ArgumentsDone(c) ==
  /\ Reads("responses")
  /\ c \in Streaming /\ srv.sent[c] \in {0, Frags}
  /\ srv' = [srv EXCEPT !.wire[c] = "done", !.sent[c] = Frags]
  /\ dec' = Closed(dec, <<c>>, TRUE)
  /\ Emits(CloseAll(<<c>>, TRUE))

\* output_item.done, which may be the first frame of a call.
ItemDone(c) ==
  /\ Reads("responses")
  /\ Unsaid
  /\ srv.wire[c] # "closed" /\ srv.sent[c] \in {0, Frags}
  /\ srv' = [srv EXCEPT !.wire[c] = "closed", !.sent[c] = Frags]
  /\ dec' = Closed(dec, <<c>>, TRUE)
  /\ Emits(CloseAll(<<c>>, TRUE))

\* Frames of a provider-run tool: item added, searching, completed, item done.
ServerItem(s, frame, hint) ==
  LET hinted == hint \/ s \in dec.hinted
      force == frame \in {"completed", "done"}
      announces == s \notin dec.announced /\ (force \/ hinted)
  IN
  /\ Reads("responses")
  /\ Unsaid
  /\ frame \notin srv.tool[s]
  /\ frame # "added" => "added" \in srv.tool[s]
  /\ srv' = [srv EXCEPT !.tool[s] = @ \cup {frame}]
  /\ dec' = [dec EXCEPT !.hinted = IF hint THEN @ \cup {s} ELSE @,
                        !.announced = IF announces THEN @ \cup {s} ELSE @]
  /\ Emits((IF announces THEN <<Use(s)>> ELSE <<>>)
             \o (IF frame = "completed" THEN <<Result(s)>> ELSE <<>>))

\* response.completed and response.incomplete, with an output that may hold calls
\* no frame has told of, or nothing.
Terminal(r) ==
  LET whole == {c \in Calls : srv.wire[c] \in {"done", "closed"}}
      stop == IF r = "incomplete" THEN r
              ELSE IF dec'.calls # <<>> THEN "tool_use" ELSE "end_turn"
  IN
  /\ Reads("responses")
  /\ Unsaid
  /\ \E output \in {{}} \cup {whole \cup late : late \in SUBSET (Calls \ Begun)} :
       LET cs == SetToSeq(output)
           harvested == Closed(dec, cs, TRUE)
           rest == Remaining(harvested)
       IN  /\ r = "incomplete" \/ Streaming = {}
           /\ srv' = [srv EXCEPT !.told = IF r = "incomplete" THEN r
                                          ELSE IF Begun \cup output = {} THEN "end_turn"
                                          ELSE "tool_use",
                                 !.bye = TRUE,
                                 !.wire = [c \in Calls |-> IF c \in output THEN "closed"
                                                           ELSE @[c]],
                                 !.sent = [c \in Calls |-> IF c \in output THEN Frags
                                                           ELSE @[c]]]
           /\ dec' = [Closed(harvested, rest, FALSE) EXCEPT !.done = TRUE]
           /\ Emits(CloseAll(cs, TRUE) \o Ends(rest) \o <<Done(stop)>>)

ResponseFailed ==
  /\ Reads("responses")
  /\ ~srv.bye
  /\ srv' = [srv EXCEPT !.bye = TRUE]
  /\ dec' = [dec EXCEPT !.done = TRUE]
  /\ Emits(<<Error, Done("failed")>>)

\* A connection that drops is an ordinary end.
ResponsesFinalDropped ==
  IF dec.done THEN <<>>
  ELSE Ends(Remaining(dec)) \o <<Done(IF dec.calls = <<>> THEN "end_turn" ELSE "tool_use")>>

\* The stream ends without a terminal frame: the answer is not finished.
ResponsesFinal ==
  IF dec.done THEN <<>> ELSE Ends(Remaining(dec)) \o <<Done("incomplete")>>

----------------------------------------------------------------------------
\* lvz-claude-cli: partial deltas if the binary sends them, and the whole message

ClaudeFinal == IF dec.done THEN <<>> ELSE <<Done("end_turn")>>

PartialText ==
  /\ Reads("claude")
  /\ Unsaid
  /\ ~srv.assembled /\ srv.said < Texts
  /\ srv' = [srv EXCEPT !.said = @ + 1]
  /\ dec' = [dec EXCEPT !.partial = TRUE]
  /\ Emits(<<Text(<<srv.said + 1>>)>>)

\* The assembled message is shown, though its parts have been.
AssistantMessageAgain ==
  /\ Reads("claude")
  /\ Unsaid /\ ~srv.assembled /\ srv.said \in {0, Texts}
  /\ srv' = [srv EXCEPT !.said = Texts, !.assembled = TRUE]
  /\ Emits(<<Text(WholeText)>>)
  /\ UNCHANGED dec

\* The message in one piece, after its deltas or instead of them.
AssistantMessage ==
  /\ Reads("claude")
  /\ Unsaid /\ ~srv.assembled /\ srv.said \in {0, Texts}
  /\ srv' = [srv EXCEPT !.said = Texts, !.assembled = TRUE]
  /\ Emits(IF dec.partial THEN <<>> ELSE <<Text(WholeText)>>)
  /\ UNCHANGED dec

ResultLine(failed) ==
  /\ Reads("claude")
  /\ Unsaid
  /\ failed \/ srv.assembled
  /\ srv' = [srv EXCEPT !.told = IF failed THEN "claude_cli_error" ELSE "end_turn"]
  /\ dec' = [dec EXCEPT !.done = TRUE]
  /\ Emits(<<Done(IF failed THEN "claude_cli_error" ELSE "end_turn")>>)

----------------------------------------------------------------------------
\* The end of the body

Final ==
  CASE adapter = "anthropic" -> AnthropicFinal
    [] adapter = "gemini" -> GeminiFinal
    [] adapter = "openai" -> OpenaiFinal
    [] adapter = "grpc" -> GrpcFinal
    [] adapter = "responses" -> ResponsesFinal
    [] adapter = "claude" -> ClaudeFinal

Ending ==
  /\ place = "reading"
  /\ pending = <<>>
  /\ ~drained
  /\ drained' = TRUE
  /\ UNCHANGED <<opening, srv, turn>>

\* The body ends, in the middle of a line or not; claude's lines that do not parse
\* are ignored.
Eof ==
  /\ Ending
  /\ \/ Emits(Final)
     \/ adapter \notin {"grpc", "claude"} /\ Emits(<<Error>> \o Final)
  /\ dec' = [dec EXCEPT !.done = TRUE]

\* The connection is reset: an error, and no Done.
Reset ==
  /\ Ending
  /\ Emits(<<Error>>)
  /\ UNCHANGED dec

----------------------------------------------------------------------------
\* The agent's side: TurnAccumulator::observe, and what ends the reading

\* The next word on a call; a word said twice has no place in the contract.
Goes(now, from, to) == IF now = from THEN to ELSE "repeated"

Observed(t, e) ==
  CASE e.event = "start" -> [t EXCEPT !.call[e.id] = Goes(@, "unseen", "streaming"),
                                      !.args[e.id] = <<>>]
    [] e.event = "delta" -> [t EXCEPT !.args[e.id] = @ \o e.data]
    [] e.event = "end" -> [t EXCEPT !.call[e.id] = Goes(@, "streaming", "ended")]
    [] e.event = "use" -> [t EXCEPT !.tool[e.id] = Goes(@, "unseen", "announced")]
    [] e.event = "result" -> [t EXCEPT !.tool[e.id] = Goes(@, "announced", "answered")]
    [] e.event = "text" -> [t EXCEPT !.text = @ \o e.data]
    [] e.event = "done" -> [t EXCEPT !.outcome = e.id]

Deliver ==
  /\ place = "reading"
  /\ pending # <<>>
  /\ IF Head(pending) = Error
     THEN Leave("failed")
     ELSE /\ turn' = Observed(turn, Head(pending))
          /\ pending' = Tail(pending)
          /\ UNCHANGED place
  /\ UNCHANGED <<adapter, attempt, waited, srv, dec, drained>>

\* The stream is over: what Done said stands.
StreamOver ==
  /\ place = "reading"
  /\ pending = <<>>
  /\ drained
  /\ place' = "left"
  /\ UNCHANGED <<adapter, attempt, waited, srv, dec, pending, drained, turn>>

\* Nothing comes for IdleTimeout.
Stalls ==
  /\ place = "reading"
  /\ pending = <<>>
  /\ ~drained
  /\ Leave("failed")
  /\ UNCHANGED <<adapter, attempt, waited, srv, dec, drained>>

----------------------------------------------------------------------------
Reasons == {"tool_use", "end_turn", "max_tokens"}

Open == Retry \/ OpenFails \/ Opens

Anthropic ==
  \/ \E c \in Calls : BlockStart(c) \/ InputJsonDelta(c) \/ BlockStop(c)
  \/ \E s \in Tools : ServerBlock(s)
  \/ \E r \in Reasons : MessageDelta(r)
  \/ MessageStop \/ StreamError

Gemini == (\E c \in Calls : FunctionCall(c)) \/ (\E r \in Reasons : FinishReason(r))

Openai ==
  \/ \E c \in Calls : ToolCallDelta(c)
  \/ \E r \in Reasons : ChoiceFinish(r)
  \/ DoneMarker

Grpc ==
  \/ \E c \in Calls, named \in BOOLEAN : ToolCallChunk(c, named)
  \/ \E s \in Tools, hint \in BOOLEAN : ServerCallChunk(s, hint)
  \/ \E r \in Reasons : FinishChunk(r)

Responses ==
  \/ \E c \in Calls :
        (\E blob \in BOOLEAN : ItemAdded(c, blob))
          \/ ArgumentsDelta(c) \/ ArgumentsDone(c) \/ ItemDone(c)
  \/ \E s \in Tools, hint \in BOOLEAN,
        frame \in {"added", "searching", "completed", "done"} : ServerItem(s, frame, hint)
  \/ \E r \in {"completed", "incomplete"} : Terminal(r)
  \/ ResponseFailed

Claude == PartialText \/ AssistantMessage \/ \E failed \in BOOLEAN : ResultLine(failed)

Agent == Deliver \/ StreamOver \/ Stalls

Next ==
  \/ Open \/ TextFrame
  \/ Anthropic \/ Gemini \/ Openai \/ Grpc \/ Responses \/ Claude
  \/ Eof \/ Reset \/ Agent

Spec == Init /\ [][Next]_vars

----------------------------------------------------------------------------
\* Whatever the wire format, and wherever the connection ends, the agent is handed
\* a stream that keeps the contract of Event: calls begun once and ended once,
\* fragments in order and never twice, one Done, and nothing after it.
Contract == INSTANCE EventStream WITH
  call <- turn.call, args <- turn.args, tool <- turn.tool, told <- srv.told,
  outcome <- turn.outcome

ImplementsEventStream == Contract!Spec

Finished == turn.outcome \in {"tool_use", "end_turn"} /\ srv.told \in {"tool_use", "end_turn"}

\* Where the provider has finished its answer, the agent has all of it: the text
\* once, exactly the calls the provider made, each with its arguments once.  The
\* three frames in which the Responses transport may repeat a call's arguments, and
\* the two in which claude repeats its text, add nothing.
AnswerIsExact ==
  Finished =>
    /\ \A c \in Calls : IF c \in Begun THEN turn.call[c] = "ended" /\ turn.args[c] = Whole
                        ELSE turn.call[c] = "unseen"
    /\ turn.text = [i \in 1 .. srv.said |-> i]

\* An answer whose provider did not get to the end of it is not taken for a finished
\* one: always on a reset, and on the Responses transport on a mere close as well.
\* (The other adapters read a close as an end: see the README.)
CutIsNotAnEnd ==
  turn.outcome \in {"tool_use", "end_turn"} /\ srv.told \notin {"tool_use", "end_turn"} =>
    adapter # "responses" /\ drained /\ srv.told = "none"

\* The backoffs of a request, all retries taken, end before the agent gives the
\* request up: the last retries are not wasted.
RetriesFitTheWait == waited < IdleTimeout

\* The doc of Event::ToolUseEnd: the call "is complete; its argument JSON is now
\* whole".
EndedCallsAreWhole == \A c \in Calls : turn.call[c] = "ended" => turn.args[c] = Whole

=============================================================================
