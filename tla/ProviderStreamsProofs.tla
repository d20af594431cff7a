------------------------ MODULE ProviderStreamsProofs ------------------------
(***************************************************************************)
(* Theorems about ProviderStreams, for any finite set of calls, any tools, *)
(* any number of fragments and texts: the six adapters implement           *)
(* EventStream, a finished answer is exact, and a cut one is not taken for *)
(* an end.                                                                 *)
(*                                                                         *)
(* A frame's events are handed over one by one, so the agent's turn lags   *)
(* behind the decoder.  The invariant therefore speaks of the turn as it   *)
(* will be when the pending events have been observed (CallAfter,          *)
(* ToolAfter, ArgsAre, TextIs), and says of the pending events themselves  *)
(* that the contract lets the turn observe them in order (Sound).          *)
(***************************************************************************)
EXTENDS ProviderStreams, SequenceTheorems, FiniteSetTheorems, WellFoundedInduction, TLAPS

Upto(n) == [i \in 1 .. n |-> i]

----------------------------------------------------------------------------
\* What pending events p make of a turn t

Says(p, kind, id) == \E i \in DOMAIN p : p[i].event = kind /\ p[i].id = id

SaidBefore(p, i, kind, id) ==
  \E j \in DOMAIN p : j < i /\ p[j].event = kind /\ p[j].id = id

CallAfter(t, p, c) ==
  IF Says(p, "end", c) THEN "ended"
  ELSE IF Says(p, "start", c) THEN "streaming" ELSE t.call[c]

ToolAfter(t, p, s) ==
  IF Says(p, "result", s) THEN "answered"
  ELSE IF Says(p, "use", s) THEN "announced" ELSE t.tool[s]

ArgsAre(t, p, c, n) ==
  \/ ~Says(p, "delta", c) /\ t.args[c] = Upto(n)
  \/ \E i \in DOMAIN p : /\ p[i].event = "delta" /\ p[i].id = c
                         /\ t.args[c] \o p[i].data = Upto(n)

TextIs(t, p, n) ==
  \/ (\A i \in DOMAIN p : p[i].event # "text") /\ t.text = Upto(n)
  \/ \E i \in DOMAIN p : /\ p[i].event = "text" /\ t.text \o p[i].data = Upto(n)
                         /\ \A j \in DOMAIN p : p[j].event = "text" => j = i

Over(t, p) == t.outcome # "open" \/ \E i \in DOMAIN p : p[i].event = "done"

\* Event i is for a call that has been begun by then.
Opened(t, p, i, c) == t.call[c] = "streaming" \/ SaidBefore(p, i, "start", c)

Kinds == {"start", "delta", "end", "use", "result", "text", "done"}

Stops == {"tool_use", "end_turn", "max_tokens", "incomplete", "claude_cli_error"}
Told == Stops \cup {"none"}

SoundCall(t, p, i) ==
  LET c == p[i].id IN
  /\ p[i].event \in {"start", "delta", "end"} => c \in Calls
  /\ p[i].event = "start" => t.call[c] = "unseen" /\ t.args[c] = <<>>
  /\ p[i].event \in {"delta", "end"} => Opened(t, p, i, c)
  /\ p[i].event = "delta" =>
       /\ ~SaidBefore(p, i, "end", c)
       /\ \E n \in 1 .. Frags : t.args[c] \o p[i].data = Upto(n)

SoundTool(t, p, i) ==
  LET s == p[i].id IN
  /\ p[i].event \in {"use", "result"} => s \in Tools
  /\ p[i].event = "use" => t.tool[s] = "unseen"
  /\ p[i].event = "result" => t.tool[s] = "announced" \/ SaidBefore(p, i, "use", s)

SoundDone(t, p, i, told) ==
  p[i].event = "done" =>
    /\ i = Len(p)
    /\ p[i].id \in Stops
    /\ told # "none" =>
         /\ p[i].id = told
         /\ \A c \in Calls : Opened(t, p, i, c) => SaidBefore(p, i, "end", c)

Sound(t, p, told) ==
  /\ p # <<>> => t.outcome = "open"
  /\ \A i, j \in DOMAIN p : p[i].event = p[j].event /\ p[i].id = p[j].id => i = j
  /\ \A i \in DOMAIN p : /\ p[i].event \in Kinds
                         /\ p[i].data \in Seq(Nat)
                         /\ SoundCall(t, p, i)
                         /\ SoundTool(t, p, i)
                         /\ SoundDone(t, p, i, told)

----------------------------------------------------------------------------
\* The invariant

CallStates == {"unseen", "streaming", "ended"}
ToolStates == {"unseen", "announced", "answered"}
Frames == {"used", "answered", "noted", "hinted", "added", "searching", "completed", "done"}

Event == [event : Kinds \cup {"error"},
          id : Calls \cup Tools \cup Stops \cup {"text", "error", "failed"},
          data : Seq(Nat)]

TurnType == [call : [Calls -> CallStates], args : [Calls -> Seq(Nat)],
             tool : [Tools -> ToolStates],
             text : Seq(Nat), outcome : Stops \cup {"open", "failed"}]

SrvType == [wire : [Calls -> {"unseen", "open", "done", "closed"}],
            sent : [Calls -> 0 .. Frags], tool : [Tools -> SUBSET Frames],
            said : 0 .. Texts, assembled : BOOLEAN, told : Told, bye : BOOLEAN]

DecType == [blocks : SUBSET Calls, calls : Seq(Calls), sent : SUBSET Calls,
            whole : SUBSET Calls, closed : SUBSET Calls, last : Seq(Calls),
            noted : Seq(Tools), hinted : SUBSET Tools, announced : SUBSET Tools,
            partial : BOOLEAN, stop : Told, done : BOOLEAN]

TypeInv ==
  /\ adapter \in Adapters
  /\ place \in {"opening", "reading", "left"}
  /\ drained \in BOOLEAN
  /\ srv \in SrvType
  /\ dec \in DecType
  /\ pending \in Seq(Event)
  /\ turn \in TurnType

Failing == pending # <<>> /\ pending[1] = Error

\* The events the turn will observe: none when the first is an error.
Heard == IF Failing THEN <<>> ELSE pending

CallNow(c) == CallAfter(turn, Heard, c)
ToolNow(s) == ToolAfter(turn, Heard, s)
IsOver == Over(turn, Heard)

\* The fragments of c that have been emitted.
Given(c) == IF c \in dec.whole THEN Frags ELSE srv.sent[c]

Finishes == {"tool_use", "end_turn"}

\* What holds of every adapter, to the end of the stream and after it.
StreamInv ==
  /\ Sound(turn, Heard, srv.told)
  /\ \A c \in Calls : srv.wire[c] = "unseen" <=> CallNow(c) = "unseen"
  /\ \A c \in Calls : ArgsAre(turn, Heard, c, Given(c))
  /\ \A c \in Calls : srv.wire[c] = "unseen" => Given(c) = 0
  /\ TextIs(turn, Heard, srv.said)
  /\ adapter # "responses" => dec.whole = {}
  /\ srv.told \in Finishes => \A c \in Begun : Given(c) = Frags
  /\ turn.outcome # "open" /\ srv.told # "none" =>
       turn.outcome = srv.told /\ \A c \in Calls : turn.call[c] # "streaming"
  /\ IsOver /\ srv.told = "none" =>
       /\ drained
       /\ adapter = "responses" =>
            /\ turn.outcome \notin Finishes
            /\ \A i \in DOMAIN Heard : Heard[i].event = "done" =>
                                         Heard[i].id \notin Finishes

Distinct(s) == \A i, j \in DOMAIN s : s[i] = s[j] => i = j

\* A stream that is still read: the decoder knows what the turn will know.
Live == turn.outcome # "failed" /\ ~drained /\ ~Failing

AnthropicInv ==
  /\ \A c \in Calls : /\ srv.wire[c] # "done"
                      /\ srv.wire[c] = "open" <=> CallNow(c) = "streaming"
                      /\ srv.wire[c] = "open" <=> c \in dec.blocks
  /\ \A s \in Tools : \/ srv.tool[s] = {} /\ ToolNow(s) = "unseen"
                      \/ srv.tool[s] = {"used"} /\ ToolNow(s) = "announced"
                      \/ srv.tool[s] = {"used", "answered"}
  /\ dec.stop = srv.told
  /\ ~Unsaid => \A c \in Calls : srv.wire[c] # "open"
  /\ IsOver => dec.done /\ srv.bye

GeminiInv ==
  /\ \A c \in Calls : CallNow(c) # "streaming"
  /\ \A c \in Calls : c \in ToSet(dec.calls) <=> srv.wire[c] # "unseen"
  /\ dec.stop = IF srv.told = "tool_use" THEN "end_turn" ELSE srv.told
  /\ srv.told = "tool_use" => dec.calls # <<>>
  /\ srv.told = "end_turn" => dec.calls = <<>>
  /\ ~IsOver

OpenaiInv ==
  /\ Distinct(dec.calls)
  /\ \A c \in Calls : c \in ToSet(dec.calls) <=> CallNow(c) = "streaming"
  /\ \A c \in Calls : Unsaid => CallNow(c) # "ended"
  /\ ~Unsaid => dec.calls = <<>>
  /\ dec.stop = srv.told
  /\ IsOver => dec.done /\ srv.bye

GrpcInv ==
  /\ Distinct(dec.calls)
  /\ \A c \in Calls : CallNow(c) # "ended"
  /\ \A c \in Calls : c \in ToSet(dec.calls) <=> CallNow(c) # "unseen"
  /\ Distinct(dec.noted)
  /\ dec.announced \subseteq ToSet(dec.noted)
  /\ \A s \in Tools : ToolNow(s) = IF s \in dec.announced THEN "announced" ELSE "unseen"
  /\ dec.stop = srv.told
  /\ ~IsOver

ResponsesInv ==
  /\ Distinct(dec.calls)
  /\ \A c \in Calls : c \in ToSet(dec.calls) <=> CallNow(c) # "unseen"
  /\ \A c \in Calls : c \in dec.closed <=> CallNow(c) = "ended"
  /\ \A c \in Calls : c \in dec.sent <=> Given(c) > 0
  /\ \A c \in Calls : srv.wire[c] \in {"done", "closed"} => Given(c) = Frags
  /\ Unsaid => \A c \in Calls : srv.wire[c] = "open" <=> CallNow(c) = "streaming"
  /\ ~Unsaid => \A c \in Calls : CallNow(c) # "streaming"
  /\ \A s \in Tools : s \in dec.announced <=> ToolNow(s) # "unseen"
  /\ \A s \in Tools : "completed" \in srv.tool[s] <=> ToolNow(s) = "answered"
  /\ ~Unsaid => dec.done /\ srv.bye

ClaudeInv ==
  /\ \A c \in Calls : CallNow(c) = "unseen"
  /\ ~srv.assembled => (dec.partial <=> srv.said > 0)
  /\ ~Unsaid => dec.done

AdapterInv ==
  /\ adapter = "anthropic" => AnthropicInv
  /\ adapter = "gemini" => GeminiInv
  /\ adapter = "openai" => OpenaiInv
  /\ adapter = "grpc" => GrpcInv
  /\ adapter = "responses" => ResponsesInv
  /\ adapter = "claude" => ClaudeInv

PlaceInv ==
  /\ turn.outcome = "failed" => place = "left"
  /\ place = "left" => pending = <<>>
  /\ place = "opening" => pending = <<>>

StreamsInv ==
  /\ TypeInv
  /\ PlaceInv
  /\ turn.outcome # "failed" => StreamInv
  /\ Live => AdapterInv

----------------------------------------------------------------------------
\* Sequences

\* Induction over the naturals, for a set.
LEMMA SetInduction ==
    ASSUME NEW S, 0 \in S, \A n \in Nat : n \in S => n + 1 \in S
    PROVE  Nat \subseteq S
<1>. DEFINE T == {n \in Nat : n \notin S}
            below == OpToRel(<, Nat)
<1>1. SUFFICES ASSUME T # {} PROVE FALSE
  OBVIOUS
<1>2. IsWellFoundedOn(below, Nat)
  BY NatLessThanWellFounded
<1>3. \A j, k \in Nat : <<j, k>> \in below <=> j < k
  BY Zenon DEF OpToRel
<1>. HIDE DEF below
<1>4. PICK n \in T : \A k \in T : ~(<<k, n>> \in below)
  <2>1. T \subseteq Nat
    OBVIOUS
  <2>. HIDE DEF T
  <2>. QED
    BY <1>1, <1>2, <2>1, WFMin
<1>5. n # 0 /\ n - 1 \in Nat
  OBVIOUS
<1>6. n - 1 \in S
  <2>1. SUFFICES ASSUME n - 1 \in T PROVE FALSE
    BY <1>5
  <2>2. ~(n - 1 < n)
    BY <1>3, <1>4, <1>5, <2>1, Zenon
  <2>. QED
    BY <1>5, <2>2
<1>. QED
  BY <1>5, <1>6

LEMMA SaysAppend ==
    ASSUME NEW p \in Seq(Event), NEW e \in Event, NEW kind, NEW id
    PROVE  /\ Says(Append(p, e), kind, id) <=>
                Says(p, kind, id) \/ (e.event = kind /\ e.id = id)
           /\ \A i \in DOMAIN p :
                SaidBefore(Append(p, e), i, kind, id) <=> SaidBefore(p, i, kind, id)
           /\ SaidBefore(Append(p, e), Len(p) + 1, kind, id) <=> Says(p, kind, id)
<1>1. /\ Append(p, e) \in Seq(Event)
      /\ DOMAIN Append(p, e) = 1 .. Len(p) + 1
      /\ DOMAIN p = 1 .. Len(p)
      /\ \A i \in DOMAIN p : Append(p, e)[i] = p[i]
      /\ Append(p, e)[Len(p) + 1] = e
      /\ Len(p) \in Nat
  OBVIOUS
<1>. HIDE DEF Event
<1>2. Says(Append(p, e), kind, id) <=>
        Says(p, kind, id) \/ (e.event = kind /\ e.id = id)
  BY <1>1 DEF Says
<1>3. ASSUME NEW i \in DOMAIN p
      PROVE  SaidBefore(Append(p, e), i, kind, id) <=> SaidBefore(p, i, kind, id)
  BY <1>1 DEF SaidBefore
<1>4. SaidBefore(Append(p, e), Len(p) + 1, kind, id) <=> Says(p, kind, id)
  BY <1>1 DEF SaidBefore, Says
<1>. QED
  BY <1>2, <1>3, <1>4

----------------------------------------------------------------------------
\* One more pending event

\* With p pending, the turn will be as st says: call and tool by state, args by the
\* number of fragments (fed: at most these calls are given more), text by the number of
\* pieces, stop what Done will say, "none" when there is none.
Leads(t, p, told, st) ==
  /\ p \in Seq(Event)
  /\ t.outcome = "open"
  /\ Sound(t, p, told)
  /\ \A c \in Calls : t.call[c] = "unseen" => t.args[c] = <<>>
  /\ \A c \in Calls : /\ CallAfter(t, p, c) = st.call[c]
                      /\ ArgsAre(t, p, c, st.args[c])
                      /\ Says(p, "delta", c) => c \in st.fed
  /\ \A s \in Tools : ToolAfter(t, p, s) = st.tool[s]
  /\ TextIs(t, p, st.text)
  /\ \A i \in DOMAIN p : p[i].event = "done" => st.stop # "none" /\ p[i].id = st.stop
  /\ st.stop # "none" => \E i \in DOMAIN p : p[i].event = "done"

State(call, tool, args, text, fed, stop) ==
  [call |-> call, tool |-> tool, args |-> args, text |-> text, fed |-> fed, stop |-> stop]

LEMMA AppendFacts ==
    ASSUME NEW p \in Seq(Event), NEW e \in Event
    PROVE  /\ Append(p, e) \in Seq(Event)
           /\ Append(p, e) # <<>>
           /\ Len(Append(p, e)) = Len(p) + 1
           /\ DOMAIN Append(p, e) = 1 .. Len(p) + 1
           /\ DOMAIN p = 1 .. Len(p)
           /\ \A i \in DOMAIN p : Append(p, e)[i] = p[i]
           /\ Append(p, e)[Len(p) + 1] = e
           /\ Len(p) \in Nat
  OBVIOUS

LEMMA AppendSound ==
    ASSUME NEW t, NEW told, NEW p \in Seq(Event), NEW e \in Event,
           Sound(t, p, told),
           t.outcome = "open",
           \A i \in DOMAIN p : p[i].event # "done",
           e.event \in Kinds,
           ~Says(p, e.event, e.id),
           SoundCall(t, Append(p, e), Len(p) + 1),
           SoundTool(t, Append(p, e), Len(p) + 1),
           SoundDone(t, Append(p, e), Len(p) + 1, told)
    PROVE  Sound(t, Append(p, e), told)
<1>. DEFINE q == Append(p, e)
            n == Len(p) + 1
<1>1. /\ DOMAIN q = 1 .. n /\ DOMAIN p = 1 .. Len(p) /\ Len(p) \in Nat
      /\ \A i \in DOMAIN p : q[i] = p[i]
      /\ q[n] = e
  BY AppendFacts
<1>2. \A kind, id : \A i \in DOMAIN p : SaidBefore(q, i, kind, id) <=> SaidBefore(p, i, kind, id)
  BY SaysAppend
<1>. HIDE DEF q
<1>3. \A i, j \in DOMAIN q : q[i].event = q[j].event /\ q[i].id = q[j].id => i = j
  <2>1. \A i \in DOMAIN p : ~(p[i].event = e.event /\ p[i].id = e.id)
    BY DEF Says
  <2>2. \A i, j \in DOMAIN p : p[i].event = p[j].event /\ p[i].id = p[j].id => i = j
    BY DEF Sound
  <2>3. \A i \in DOMAIN q : i \in DOMAIN p \/ i = n
    BY <1>1
  <2>. QED
    BY <1>1, <2>1, <2>2, <2>3
<1>4. ASSUME NEW i \in DOMAIN p
      PROVE  /\ q[i].event \in Kinds /\ q[i].data \in Seq(Nat)
             /\ SoundCall(t, q, i) /\ SoundTool(t, q, i) /\ SoundDone(t, q, i, told)
  <2>1. /\ q[i].event \in Kinds /\ q[i].data \in Seq(Nat)
        /\ SoundCall(t, p, i) /\ SoundTool(t, p, i)
    BY <1>1 DEF Sound
  <2>2. SoundCall(t, q, i)
    BY <1>1, <1>2, <2>1 DEF SoundCall, Opened
  <2>3. SoundTool(t, q, i)
    BY <1>1, <1>2, <2>1 DEF SoundTool
  <2>4. SoundDone(t, q, i, told)
    BY <1>1 DEF SoundDone
  <2>. QED
    BY <2>1, <2>2, <2>3, <2>4
<1>5. e.data \in Seq(Nat)
  BY DEF Event
<1>6. \A i \in DOMAIN q : i \in DOMAIN p \/ i = n
  BY <1>1
<1>. QED
  BY <1>1, <1>3, <1>4, <1>5, <1>6 DEF Sound, q

After == [call : [Calls -> CallStates], tool : [Tools -> ToolStates],
          args : [Calls -> Nat], text : Nat, fed : SUBSET Calls, stop : Told]

\* What an event does to the expectations it does not speak of.
LEMMA AppendKeeps ==
    ASSUME NEW t, NEW p \in Seq(Event), NEW e \in Event
    PROVE  /\ \A c : e.event \notin {"start", "end"} \/ e.id # c =>
                CallAfter(t, Append(p, e), c) = CallAfter(t, p, c)
           /\ \A s : e.event \notin {"use", "result"} \/ e.id # s =>
                ToolAfter(t, Append(p, e), s) = ToolAfter(t, p, s)
           /\ \A c, n : (e.event # "delta" \/ e.id # c) /\ ArgsAre(t, p, c, n) =>
                ArgsAre(t, Append(p, e), c, n)
           /\ \A n : e.event # "text" /\ TextIs(t, p, n) => TextIs(t, Append(p, e), n)
           /\ \A c : e.event # "delta" \/ e.id # c =>
                (Says(Append(p, e), "delta", c) <=> Says(p, "delta", c))
<1>. DEFINE q == Append(p, e)
            n == Len(p) + 1
<1>1. /\ DOMAIN q = 1 .. n /\ DOMAIN p = 1 .. Len(p) /\ Len(p) \in Nat
      /\ \A i \in DOMAIN p : q[i] = p[i]
      /\ q[n] = e
  BY AppendFacts
<1>2. \A kind, id : Says(q, kind, id) <=> Says(p, kind, id) \/ (e.event = kind /\ e.id = id)
  BY SaysAppend
<1>3. \A i \in DOMAIN q : i \in DOMAIN p \/ i = n
  BY <1>1
<1>4. \A i \in DOMAIN p : i \in DOMAIN q
  BY <1>1
<1>. HIDE DEF q, n
<1>5. \A c : e.event \notin {"start", "end"} \/ e.id # c =>
        CallAfter(t, q, c) = CallAfter(t, p, c)
  BY <1>2 DEF CallAfter
<1>6. \A s : e.event \notin {"use", "result"} \/ e.id # s =>
        ToolAfter(t, q, s) = ToolAfter(t, p, s)
  BY <1>2 DEF ToolAfter
<1>7. \A c, m : (e.event # "delta" \/ e.id # c) /\ ArgsAre(t, p, c, m) => ArgsAre(t, q, c, m)
  BY <1>1, <1>2, <1>4 DEF ArgsAre
<1>8. ASSUME NEW m, e.event # "text", TextIs(t, p, m)
      PROVE  TextIs(t, q, m)
  <2>1. CASE (\A i \in DOMAIN p : p[i].event # "text") /\ t.text = Upto(m)
    <3>1. \A i \in DOMAIN q : q[i].event # "text"
      BY <1>1, <1>3, <1>8, <2>1
    <3>. QED
      BY <2>1, <3>1 DEF TextIs
  <2>2. ASSUME NEW i \in DOMAIN p, p[i].event = "text", t.text \o p[i].data = Upto(m),
               \A j \in DOMAIN p : p[j].event = "text" => j = i
        PROVE  TextIs(t, q, m)
    <3>1. \A j \in DOMAIN q : q[j].event = "text" => j = i
      BY <1>1, <1>3, <1>8, <2>2
    <3>2. i \in DOMAIN q /\ q[i] = p[i]
      BY <1>1, <1>4
    <3>. QED
      BY <2>2, <3>1, <3>2 DEF TextIs
  <2>. QED
    BY <1>8, <2>1, <2>2 DEF TextIs
<1>9. \A c : e.event # "delta" \/ e.id # c => (Says(q, "delta", c) <=> Says(p, "delta", c))
  BY <1>2
<1>. QED
  BY <1>5, <1>6, <1>7, <1>8, <1>9 DEF q

LEMMA LeadsAppend ==
    ASSUME NEW t, NEW told, NEW p, NEW e \in Event, NEW st \in After, NEW new \in After,
           Leads(t, p, told, st), st.stop = "none",
           e.event \in Kinds,
           ~Says(p, e.event, e.id),
           SoundCall(t, Append(p, e), Len(p) + 1),
           SoundTool(t, Append(p, e), Len(p) + 1),
           SoundDone(t, Append(p, e), Len(p) + 1, told),
           \A c \in Calls : e.event \notin {"start", "end"} \/ e.id # c => new.call[c] = st.call[c],
           \A s \in Tools : e.event \notin {"use", "result"} \/ e.id # s => new.tool[s] = st.tool[s],
           \A c \in Calls : e.event # "delta" \/ e.id # c => new.args[c] = st.args[c],
           e.event # "text" => new.text = st.text,
           st.fed \subseteq new.fed,
           e.event = "delta" => e.id \in new.fed,
           new.stop = IF e.event = "done" THEN e.id ELSE "none",
           e.event = "done" => e.id # "none",
           \A c \in Calls : e.event \in {"start", "end"} /\ e.id = c =>
                              CallAfter(t, Append(p, e), c) = new.call[c],
           \A s \in Tools : e.event \in {"use", "result"} /\ e.id = s =>
                              ToolAfter(t, Append(p, e), s) = new.tool[s],
           \A c \in Calls : e.event = "delta" /\ e.id = c =>
                              ArgsAre(t, Append(p, e), c, new.args[c]),
           e.event = "text" => TextIs(t, Append(p, e), new.text)
    PROVE  Leads(t, Append(p, e), told, new)
<1>. DEFINE q == Append(p, e)
            n == Len(p) + 1
<1>1. p \in Seq(Event) /\ t.outcome = "open" /\ Sound(t, p, told)
  BY DEF Leads
<1>2. \A i \in DOMAIN p : p[i].event # "done"
  BY DEF Leads
<1>3. /\ q \in Seq(Event)
      /\ DOMAIN q = 1 .. n /\ DOMAIN p = 1 .. Len(p) /\ Len(p) \in Nat
      /\ \A i \in DOMAIN p : q[i] = p[i]
      /\ q[n] = e
  BY <1>1, AppendFacts
<1>4. Sound(t, q, told)
  BY <1>1, <1>2, AppendSound
<1>5. \A c \in Calls : CallAfter(t, q, c) = new.call[c]
  <2>1. \A c \in Calls : e.event \notin {"start", "end"} \/ e.id # c =>
          CallAfter(t, q, c) = CallAfter(t, p, c)
    BY <1>1, AppendKeeps
  <2>2. \A c \in Calls : CallAfter(t, p, c) = st.call[c]
    BY DEF Leads
  <2>. HIDE DEF q
  <2>. QED
    BY <2>1, <2>2 DEF q
<1>6. \A s \in Tools : ToolAfter(t, q, s) = new.tool[s]
  <2>1. \A s \in Tools : e.event \notin {"use", "result"} \/ e.id # s =>
          ToolAfter(t, q, s) = ToolAfter(t, p, s)
    BY <1>1, AppendKeeps
  <2>2. \A s \in Tools : ToolAfter(t, p, s) = st.tool[s]
    BY DEF Leads
  <2>. QED
    BY <2>1, <2>2
<1>7. \A c \in Calls : ArgsAre(t, q, c, new.args[c])
  <2>1. \A c \in Calls : (e.event # "delta" \/ e.id # c) /\ ArgsAre(t, p, c, st.args[c]) =>
          ArgsAre(t, q, c, st.args[c])
    BY <1>1, AppendKeeps
  <2>2. \A c \in Calls : ArgsAre(t, p, c, st.args[c])
    BY DEF Leads
  <2>. QED
    BY <2>1, <2>2
<1>8. \A c \in Calls : Says(q, "delta", c) => c \in new.fed
  <2>1. \A c \in Calls : Says(q, "delta", c) =>
          Says(p, "delta", c) \/ (e.event = "delta" /\ e.id = c)
    BY <1>1, SaysAppend
  <2>2. \A c \in Calls : Says(p, "delta", c) => c \in st.fed
    BY DEF Leads
  <2>. QED
    BY <2>1, <2>2
<1>9. TextIs(t, q, new.text)
  <2>1. e.event # "text" /\ TextIs(t, p, st.text) => TextIs(t, q, st.text)
    BY <1>1, AppendKeeps
  <2>. QED
    BY <2>1 DEF Leads
<1>10. \A i \in DOMAIN q : q[i].event = "done" => new.stop # "none" /\ q[i].id = new.stop
  BY <1>2, <1>3
<1>11. new.stop # "none" => \E i \in DOMAIN q : q[i].event = "done"
  BY <1>3
<1>. QED
  BY <1>1, <1>3, <1>4, <1>5, <1>6, <1>7, <1>8, <1>9, <1>10, <1>11 DEF Leads

WithCall(st, c, now) == [st EXCEPT !.call[c] = now]
WithTool(st, s, now) == [st EXCEPT !.tool[s] = now]
WithArgs(st, c, m) == [st EXCEPT !.args[c] = m, !.fed = @ \cup {c}]
WithStop(st, stop) == [st EXCEPT !.stop = stop]

LEMMA AfterCall ==
    ASSUME NEW st \in After, NEW c \in Calls, NEW v \in CallStates
    PROVE  LET new == WithCall(st, c, v) IN
           /\ new \in After
           /\ new.call = [st.call EXCEPT ![c] = v]
           /\ new.tool = st.tool /\ new.args = st.args /\ new.text = st.text
           /\ new.fed = st.fed /\ new.stop = st.stop
  BY DEF After, WithCall

LEMMA AfterTool ==
    ASSUME NEW st \in After, NEW s \in Tools, NEW v \in ToolStates
    PROVE  LET new == WithTool(st, s, v) IN
           /\ new \in After
           /\ new.tool = [st.tool EXCEPT ![s] = v]
           /\ new.call = st.call /\ new.args = st.args /\ new.text = st.text
           /\ new.fed = st.fed /\ new.stop = st.stop
  BY DEF After, WithTool

LEMMA AfterArgs ==
    ASSUME NEW st \in After, NEW c \in Calls, NEW m \in Nat
    PROVE  LET new == WithArgs(st, c, m) IN
           /\ new \in After
           /\ new.args = [st.args EXCEPT ![c] = m]
           /\ new.fed = st.fed \cup {c}
           /\ new.call = st.call /\ new.tool = st.tool /\ new.text = st.text
           /\ new.stop = st.stop
  BY DEF After, WithArgs

LEMMA AfterStop ==
    ASSUME NEW st \in After, NEW stop \in Told
    PROVE  LET new == WithStop(st, stop) IN
           /\ new \in After
           /\ new.stop = stop
           /\ new.call = st.call /\ new.args = st.args /\ new.text = st.text
           /\ new.fed = st.fed /\ new.tool = st.tool
  BY DEF After, WithStop

\* The stream's events, one lemma each: what it takes to add one, and what it leads to.
LEMMA AddStart ==
    ASSUME NEW t, NEW told, NEW p, NEW st \in After, NEW c \in Calls,
           Leads(t, p, told, st), st.stop = "none",
           st.call[c] = "unseen"
    PROVE  /\ WithCall(st, c, "streaming") \in After
           /\ Leads(t, Append(p, Start(c)), told, WithCall(st, c, "streaming"))
<1>. DEFINE e == Start(c)
            q == Append(p, e)
            new == WithCall(st, c, "streaming")
<1>1. e \in Event /\ e.event = "start" /\ e.id = c
  BY DEF Event, Start, Kinds
<1>2. /\ new \in After
      /\ new.call = [st.call EXCEPT ![c] = "streaming"]
      /\ new.tool = st.tool /\ new.args = st.args /\ new.text = st.text
      /\ new.fed = st.fed /\ new.stop = st.stop
  BY AfterCall DEF CallStates
<1>3. p \in Seq(Event) /\ CallAfter(t, p, c) = "unseen"
  BY DEF Leads
<1>4. ~Says(p, "start", c) /\ ~Says(p, "end", c) /\ t.call[c] = "unseen"
  BY <1>3 DEF CallAfter
<1>41. t.args[c] = <<>>
  BY <1>4 DEF Leads
<1>5. q[Len(p) + 1] = e
  BY <1>1, <1>3, AppendFacts
<1>. HIDE DEF e
<1>6. CallAfter(t, q, c) = "streaming"
  <2>1. Says(q, "start", c) /\ ~Says(q, "end", c)
    BY <1>1, <1>3, <1>4, SaysAppend
  <2>. QED
    BY <2>1 DEF CallAfter
<1>. HIDE DEF q, new
<1>7. SoundCall(t, q, Len(p) + 1) /\ SoundTool(t, q, Len(p) + 1) /\ SoundDone(t, q, Len(p) + 1, told)
  BY <1>1, <1>4, <1>41, <1>5 DEF SoundCall, SoundTool, SoundDone
<1>8. st.call \in [Calls -> CallStates]
  BY DEF After
<1>9. Leads(t, Append(p, e), told, new)
  BY <1>1, <1>2, <1>4, <1>6, <1>7, <1>8, LeadsAppend DEF q, Kinds
<1>. QED
  BY <1>2, <1>9 DEF e, new

LEMMA AddDelta ==
    ASSUME NEW t, NEW told, NEW p, NEW st \in After, NEW c \in Calls,
           NEW d \in Seq(Nat), NEW m \in 1 .. Frags,
           Leads(t, p, told, st), st.stop = "none",
           st.call[c] = "streaming", c \notin st.fed,
           Upto(st.args[c]) \o d = Upto(m)
    PROVE  /\ WithArgs(st, c, m) \in After
           /\ Leads(t, Append(p, Delta(c, d)), told, WithArgs(st, c, m))
<1>. DEFINE e == Delta(c, d)
            q == Append(p, e)
            new == WithArgs(st, c, m)
<1>1. e \in Event /\ e.event = "delta" /\ e.id = c /\ e.data = d
  BY DEF Event, Delta, Kinds
<1>2. /\ new \in After
      /\ new.args = [st.args EXCEPT ![c] = m]
      /\ new.fed = st.fed \cup {c}
      /\ new.call = st.call /\ new.tool = st.tool /\ new.text = st.text
      /\ new.stop = st.stop
  BY AfterArgs, StreamAssumption
<1>3. p \in Seq(Event) /\ CallAfter(t, p, c) = "streaming"
  BY DEF Leads
<1>4. ~Says(p, "end", c) /\ (Says(p, "start", c) \/ t.call[c] = "streaming")
  BY <1>3 DEF CallAfter
<1>5. ~Says(p, "delta", c)
  BY DEF Leads
<1>6. t.args[c] = Upto(st.args[c])
  BY <1>5 DEF Leads, ArgsAre, Says
<1>7. q[Len(p) + 1] = e /\ Len(p) + 1 \in DOMAIN q
  BY <1>1, <1>3, AppendFacts
<1>8. /\ SaidBefore(q, Len(p) + 1, "start", c) <=> Says(p, "start", c)
      /\ SaidBefore(q, Len(p) + 1, "end", c) <=> Says(p, "end", c)
  BY <1>1, <1>3, SaysAppend
<1>. HIDE DEF e, q, new
<1>9. SoundCall(t, q, Len(p) + 1) /\ SoundTool(t, q, Len(p) + 1) /\ SoundDone(t, q, Len(p) + 1, told)
  <2>1. t.args[c] \o e.data = Upto(m)
    BY <1>1, <1>6
  <2>. QED
    BY <1>1, <1>4, <1>7, <1>8, <2>1 DEF SoundCall, SoundTool, SoundDone, Opened
<1>10. ArgsAre(t, q, c, new.args[c])
  <2>1. new.args[c] = m
    BY <1>2 DEF After
  <2>2. t.args[c] \o e.data = Upto(m)
    BY <1>1, <1>6
  <2>. QED
    BY <1>1, <1>7, <2>1, <2>2 DEF ArgsAre
<1>11. st.args \in [Calls -> Nat]
  BY DEF After
<1>12. Leads(t, Append(p, e), told, new)
  BY <1>1, <1>2, <1>5, <1>9, <1>10, <1>11, LeadsAppend DEF q, Kinds
<1>. QED
  BY <1>2, <1>12 DEF e, new

LEMMA AddEnd ==
    ASSUME NEW t, NEW told, NEW p, NEW st \in After, NEW c \in Calls,
           Leads(t, p, told, st), st.stop = "none",
           st.call[c] = "streaming"
    PROVE  /\ WithCall(st, c, "ended") \in After
           /\ Leads(t, Append(p, End(c)), told, WithCall(st, c, "ended"))
<1>. DEFINE e == End(c)
            q == Append(p, e)
            new == WithCall(st, c, "ended")
<1>1. e \in Event /\ e.event = "end" /\ e.id = c
  BY DEF Event, End, Kinds
<1>2. /\ new \in After
      /\ new.call = [st.call EXCEPT ![c] = "ended"]
      /\ new.tool = st.tool /\ new.args = st.args /\ new.text = st.text
      /\ new.fed = st.fed /\ new.stop = st.stop
  BY AfterCall DEF CallStates
<1>3. p \in Seq(Event) /\ CallAfter(t, p, c) = "streaming"
  BY DEF Leads
<1>4. ~Says(p, "end", c) /\ (Says(p, "start", c) \/ t.call[c] = "streaming")
  BY <1>3 DEF CallAfter
<1>5. q[Len(p) + 1] = e
  BY <1>1, <1>3, AppendFacts
<1>6. SaidBefore(q, Len(p) + 1, "start", c) <=> Says(p, "start", c)
  BY <1>1, <1>3, SaysAppend
<1>. HIDE DEF e
<1>7. CallAfter(t, q, c) = "ended"
  <2>1. Says(q, "end", c)
    BY <1>1, <1>3, SaysAppend
  <2>. QED
    BY <2>1 DEF CallAfter
<1>. HIDE DEF q, new
<1>8. SoundCall(t, q, Len(p) + 1) /\ SoundTool(t, q, Len(p) + 1) /\ SoundDone(t, q, Len(p) + 1, told)
  BY <1>1, <1>4, <1>5, <1>6 DEF SoundCall, SoundTool, SoundDone, Opened
<1>9. st.call \in [Calls -> CallStates]
  BY DEF After
<1>10. Leads(t, Append(p, e), told, new)
  BY <1>1, <1>2, <1>4, <1>7, <1>8, <1>9, LeadsAppend DEF q, Kinds
<1>. QED
  BY <1>2, <1>10 DEF e, new

LEMMA AddUse ==
    ASSUME NEW t, NEW told, NEW p, NEW st \in After, NEW s \in Tools,
           Leads(t, p, told, st), st.stop = "none",
           st.tool[s] = "unseen"
    PROVE  /\ WithTool(st, s, "announced") \in After
           /\ Leads(t, Append(p, Use(s)), told, WithTool(st, s, "announced"))
<1>. DEFINE e == Use(s)
            q == Append(p, e)
            new == WithTool(st, s, "announced")
<1>1. e \in Event /\ e.event = "use" /\ e.id = s
  BY DEF Event, Use, Kinds
<1>2. /\ new \in After
      /\ new.tool = [st.tool EXCEPT ![s] = "announced"]
      /\ new.call = st.call /\ new.args = st.args /\ new.text = st.text
      /\ new.fed = st.fed /\ new.stop = st.stop
  BY AfterTool DEF ToolStates
<1>3. p \in Seq(Event) /\ ToolAfter(t, p, s) = "unseen"
  BY DEF Leads
<1>4. ~Says(p, "use", s) /\ ~Says(p, "result", s) /\ t.tool[s] = "unseen"
  BY <1>3 DEF ToolAfter
<1>5. q[Len(p) + 1] = e
  BY <1>1, <1>3, AppendFacts
<1>. HIDE DEF e
<1>6. ToolAfter(t, q, s) = "announced"
  <2>1. Says(q, "use", s) /\ ~Says(q, "result", s)
    BY <1>1, <1>3, <1>4, SaysAppend
  <2>. QED
    BY <2>1 DEF ToolAfter
<1>. HIDE DEF q, new
<1>7. SoundCall(t, q, Len(p) + 1) /\ SoundTool(t, q, Len(p) + 1) /\ SoundDone(t, q, Len(p) + 1, told)
  BY <1>1, <1>4, <1>5 DEF SoundCall, SoundTool, SoundDone
<1>8. st.tool \in [Tools -> ToolStates]
  BY DEF After
<1>9. Leads(t, Append(p, e), told, new)
  BY <1>1, <1>2, <1>4, <1>6, <1>7, <1>8, LeadsAppend DEF q, Kinds
<1>. QED
  BY <1>2, <1>9 DEF e, new

LEMMA AddResult ==
    ASSUME NEW t, NEW told, NEW p, NEW st \in After, NEW s \in Tools,
           Leads(t, p, told, st), st.stop = "none",
           st.tool[s] = "announced"
    PROVE  /\ WithTool(st, s, "answered") \in After
           /\ Leads(t, Append(p, Result(s)), told, WithTool(st, s, "answered"))
<1>. DEFINE e == Result(s)
            q == Append(p, e)
            new == WithTool(st, s, "answered")
<1>1. e \in Event /\ e.event = "result" /\ e.id = s
  BY DEF Event, Result, Kinds
<1>2. /\ new \in After
      /\ new.tool = [st.tool EXCEPT ![s] = "answered"]
      /\ new.call = st.call /\ new.args = st.args /\ new.text = st.text
      /\ new.fed = st.fed /\ new.stop = st.stop
  BY AfterTool DEF ToolStates
<1>3. p \in Seq(Event) /\ ToolAfter(t, p, s) = "announced"
  BY DEF Leads
<1>4. ~Says(p, "result", s) /\ (Says(p, "use", s) \/ t.tool[s] = "announced")
  BY <1>3 DEF ToolAfter
<1>5. q[Len(p) + 1] = e
  BY <1>1, <1>3, AppendFacts
<1>6. SaidBefore(q, Len(p) + 1, "use", s) <=> Says(p, "use", s)
  BY <1>1, <1>3, SaysAppend
<1>. HIDE DEF e
<1>7. ToolAfter(t, q, s) = "answered"
  <2>1. Says(q, "result", s)
    BY <1>1, <1>3, SaysAppend
  <2>. QED
    BY <2>1 DEF ToolAfter
<1>. HIDE DEF q, new
<1>8. SoundCall(t, q, Len(p) + 1) /\ SoundTool(t, q, Len(p) + 1) /\ SoundDone(t, q, Len(p) + 1, told)
  BY <1>1, <1>4, <1>5, <1>6 DEF SoundCall, SoundTool, SoundDone
<1>9. st.tool \in [Tools -> ToolStates]
  BY DEF After
<1>10. Leads(t, Append(p, e), told, new)
  BY <1>1, <1>2, <1>4, <1>7, <1>8, <1>9, LeadsAppend DEF q, Kinds
<1>. QED
  BY <1>2, <1>10 DEF e, new

\* Done says what the provider told, if it did, and leaves no call open then.
LEMMA AddDone ==
    ASSUME NEW t, NEW told, NEW p, NEW st \in After, NEW stop \in Stops,
           Leads(t, p, told, st), st.stop = "none",
           told # "none" => stop = told /\ \A c \in Calls : st.call[c] # "streaming"
    PROVE  /\ WithStop(st, stop) \in After
           /\ Leads(t, Append(p, Done(stop)), told, WithStop(st, stop))
<1>. DEFINE e == Done(stop)
            q == Append(p, e)
            new == WithStop(st, stop)
<1>1. e \in Event /\ e.event = "done" /\ e.id = stop
  BY DEF Event, Done, Kinds
<1>2. /\ new \in After
      /\ new.stop = stop
      /\ new.call = st.call /\ new.args = st.args /\ new.text = st.text
      /\ new.fed = st.fed /\ new.tool = st.tool
  BY AfterStop DEF Told
<1>3. p \in Seq(Event) /\ \A i \in DOMAIN p : p[i].event # "done"
  BY DEF Leads
<1>4. ~Says(p, "done", stop)
  BY <1>3 DEF Says
<1>5. q[Len(p) + 1] = e /\ Len(q) = Len(p) + 1
  BY <1>1, <1>3, AppendFacts
<1>6. \A c \in Calls : /\ SaidBefore(q, Len(p) + 1, "start", c) <=> Says(p, "start", c)
                       /\ SaidBefore(q, Len(p) + 1, "end", c) <=> Says(p, "end", c)
  BY <1>1, <1>3, SaysAppend
<1>. HIDE DEF e, q, new
<1>7. SoundDone(t, q, Len(p) + 1, told)
  <2>1. ASSUME told # "none", NEW c \in Calls, Opened(t, q, Len(p) + 1, c)
        PROVE  SaidBefore(q, Len(p) + 1, "end", c)
    <3>1. CallAfter(t, p, c) # "streaming"
      BY <2>1 DEF Leads
    <3>2. t.call[c] = "streaming" \/ Says(p, "start", c)
      BY <1>6, <2>1 DEF Opened
    <3>. QED
      BY <1>6, <3>1, <3>2 DEF CallAfter
  <2>. QED
    BY <1>1, <1>5, <2>1 DEF SoundDone, Stops
<1>8. SoundCall(t, q, Len(p) + 1) /\ SoundTool(t, q, Len(p) + 1)
  BY <1>1, <1>5 DEF SoundCall, SoundTool
<1>9. Leads(t, Append(p, e), told, new)
  BY <1>1, <1>2, <1>4, <1>7, <1>8, LeadsAppend DEF q, Kinds, Stops
<1>. QED
  BY <1>2, <1>9 DEF e, new

----------------------------------------------------------------------------
\* FlattenSeq, Without and SetToSeq

Step(g, ss, k) == IF k = 1 THEN ss[k] ELSE g[k - 1] \o ss[k]

Builds(g, ss, m) == g = [k \in 1 .. m |-> Step(g, ss, k)]

LEMMA StepFacts ==
    ASSUME NEW g, NEW ss
    PROVE  /\ Step(g, ss, 1) = ss[1]
           /\ \A m \in Nat : m # 0 => Step(g, ss, m + 1) = g[m] \o ss[m + 1]
<1>1. Step(g, ss, 1) = ss[1]
  BY DEF Step
<1>2. ASSUME NEW m \in Nat, m # 0 PROVE Step(g, ss, m + 1) = g[m] \o ss[m + 1]
  <2>1. m + 1 # 1 /\ (m + 1) - 1 = m
    BY <1>2
  <2>. QED
    BY <2>1, Zenon DEF Step
<1>. QED
  BY <1>1, <1>2

\* The function FlattenSeq chooses exists, and takes one sequence after the other.
LEMMA BuildsExtends ==
    ASSUME NEW T, NEW ss \in Seq(Seq(T)), NEW m \in Nat, m + 1 <= Len(ss),
           NEW g \in [1 .. m -> Seq(T)], Builds(g, ss, m)
    PROVE  \E h \in [1 .. m + 1 -> Seq(T)] : Builds(h, ss, m + 1)
<1>. DEFINE last == Step(g, ss, m + 1)
            h == [k \in 1 .. m + 1 |-> IF k = m + 1 THEN last ELSE g[k]]
<1>0. \A k \in 1 .. Len(ss) : ss[k] \in Seq(T)
  OBVIOUS
<1>1. last \in Seq(T)
  <2>1. CASE m = 0
    BY <1>0, <2>1 DEF Step
  <2>2. CASE m # 0
    <3>1. g[m] \in Seq(T) /\ ss[m + 1] \in Seq(T)
      BY <1>0, <2>2
    <3>2. last = g[m] \o ss[m + 1]
      BY <2>2, StepFacts
    <3>. HIDE DEF last
    <3>. QED
      BY <3>1, <3>2
  <2>. QED
    BY <2>1, <2>2
<1>2. \A k \in 1 .. m : g[k] = Step(g, ss, k)
  <2>. DEFINE G == [k \in 1 .. m |-> Step(g, ss, k)]
  <2>1. g = G
    BY DEF Builds
  <2>2. \A k \in 1 .. m : G[k] = Step(g, ss, k)
    OBVIOUS
  <2>. HIDE DEF G
  <2>. QED
    BY <2>1, <2>2
<1>. HIDE DEF last
<1>3. h \in [1 .. m + 1 -> Seq(T)]
  BY <1>1
<1>4. \A k \in 1 .. m : h[k] = g[k]
  OBVIOUS
<1>5. h[m + 1] = last
  OBVIOUS
<1>6. \A k \in 1 .. m + 1 : k = m + 1 \/ k \in 1 .. m
  OBVIOUS
<1>. HIDE DEF h
<1>7. \A k \in 1 .. m + 1 : Step(h, ss, k) = Step(g, ss, k)
  <2>1. \A k \in 1 .. m + 1 : k # 1 => k - 1 \in 1 .. m
    OBVIOUS
  <2>. QED
    BY <1>4, <2>1 DEF Step
<1>8. \A k \in 1 .. m + 1 : h[k] = Step(h, ss, k)
  BY <1>2, <1>4, <1>5, <1>6, <1>7 DEF last
<1>9. Builds(h, ss, m + 1)
  <2>1. h = [k \in 1 .. m + 1 |-> h[k]]
    BY <1>3
  <2>2. [k \in 1 .. m + 1 |-> h[k]] = [k \in 1 .. m + 1 |-> Step(h, ss, k)]
    BY <1>8
  <2>. QED
    BY <2>1, <2>2 DEF Builds
<1>. QED
  BY <1>3, <1>9

\* FlattenSeq is built from the left, one sequence after the other.
LEMMA FlattenPrefixes ==
    ASSUME NEW T, NEW ss \in Seq(Seq(T))
    PROVE  \E f : /\ f \in [0 .. Len(ss) -> Seq(T)]
                  /\ f[0] = <<>>
                  /\ \A k \in 1 .. Len(ss) : f[k] = f[k - 1] \o ss[k]
                  /\ f[Len(ss)] = FlattenSeq(ss)
<1>. DEFINE n == Len(ss)
            built(m) == \E g \in [1 .. m -> Seq(T)] : Builds(g, ss, m)
            S == {m \in Nat : m <= n => built(m)}
<1>0. n \in Nat /\ \A k \in 1 .. n : ss[k] \in Seq(T)
  OBVIOUS
<1>1. built(0)
  <2>. DEFINE g == [k \in 1 .. 0 |-> <<>>]
  <2>1. g \in [1 .. 0 -> Seq(T)]
    OBVIOUS
  <2>2. g = [k \in 1 .. 0 |-> Step(g, ss, k)]
    OBVIOUS
  <2>. HIDE DEF g
  <2>. QED
    BY <2>1, <2>2 DEF Builds
<1>2. ASSUME NEW m \in Nat, m + 1 <= n, built(m) PROVE built(m + 1)
  <2>1. PICK g \in [1 .. m -> Seq(T)] : Builds(g, ss, m)
    BY <1>2
  <2>2. \E h \in [1 .. m + 1 -> Seq(T)] : Builds(h, ss, m + 1)
    BY <1>2, <2>1, BuildsExtends
  <2>. QED
    BY <2>2
<1>3. built(n)
  <2>. HIDE DEF built, n
  <2>1. 0 \in S
    BY <1>1
  <2>2. \A m \in Nat : m \in S => m + 1 \in S
    BY <1>0, <1>2
  <2>3. Nat \subseteq S
    <3>. HIDE DEF S
    <3>. QED
      BY <2>1, <2>2, SetInduction
  <2>. QED
    BY <1>0, <2>3
<1>4. PICK g0 \in [1 .. n -> Seq(T)] : Builds(g0, ss, n)
  BY <1>3
<1>. DEFINE flat == CHOOSE g : Builds(g, ss, n)
<1>5. Builds(flat, ss, n)
  BY <1>4
<1>6. FlattenSeq(ss) = IF n = 0 THEN ss ELSE flat[n]
  BY DEF FlattenSeq, Builds, Step
<1>. HIDE DEF flat, n
<1>7. \A k \in 1 .. n : flat[k] = Step(flat, ss, k)
  <2>. DEFINE F == [k \in 1 .. n |-> Step(flat, ss, k)]
  <2>1. flat = F
    BY <1>5 DEF Builds
  <2>2. \A k \in 1 .. n : F[k] = Step(flat, ss, k)
    OBVIOUS
  <2>. HIDE DEF F
  <2>. QED
    BY <2>1, <2>2
<1>8. \A k \in 1 .. n : flat[k] \in Seq(T)
  <2>. DEFINE typed(m) == m \in 1 .. n => flat[m] \in Seq(T)
              U == {m \in Nat : typed(m)}
  <2>1. typed(0)
    BY <1>0
  <2>2. ASSUME NEW m \in Nat, typed(m) PROVE typed(m + 1)
    <3>1. SUFFICES ASSUME m + 1 \in 1 .. n PROVE flat[m + 1] \in Seq(T)
      OBVIOUS
    <3>2. CASE m = 0
      <4>0. 1 \in 1 .. n
        BY <1>0, <3>1, <3>2
      <4>1. flat[1] = Step(flat, ss, 1) /\ ss[1] \in Seq(T)
        BY <1>0, <1>7, <4>0
      <4>2. Step(flat, ss, 1) = ss[1]
        BY StepFacts
      <4>. QED
        BY <3>2, <4>1, <4>2
    <3>3. CASE m # 0
      <4>1. m \in 1 .. n
        BY <1>0, <3>1, <3>3
      <4>2. flat[m] \in Seq(T) /\ ss[m + 1] \in Seq(T)
        BY <1>0, <2>2, <3>1, <4>1
      <4>3. Step(flat, ss, m + 1) = flat[m] \o ss[m + 1]
        BY <3>3, StepFacts
      <4>4. flat[m + 1] = Step(flat, ss, m + 1)
        BY <1>7, <3>1
      <4>5. flat[m] \o ss[m + 1] \in Seq(T)
        BY <4>2
      <4>. QED
        BY <4>3, <4>4, <4>5
    <3>. QED
      BY <3>2, <3>3
  <2>. HIDE DEF typed
  <2>3. Nat \subseteq U
    <3>1. 0 \in U /\ \A m \in Nat : m \in U => m + 1 \in U
      BY <2>1, <2>2
    <3>. HIDE DEF U
    <3>. QED
      BY <3>1, SetInduction
  <2>. QED
    BY <1>0, <2>3 DEF typed
<1>. DEFINE f == [k \in 0 .. n |-> IF k = 0 THEN <<>> ELSE flat[k]]
<1>9. f \in [0 .. n -> Seq(T)] /\ f[0] = <<>>
  BY <1>0, <1>8
<1>10. \A k \in 1 .. n : f[k] = flat[k]
  BY <1>0
<1>. HIDE DEF f
<1>11. ASSUME NEW k \in 1 .. n PROVE f[k] = f[k - 1] \o ss[k]
  <2>1. CASE k = 1
    <3>0. 1 \in 1 .. n /\ Step(flat, ss, 1) = ss[1]
      BY <2>1, StepFacts
    <3>1. f[1] = ss[1] /\ ss[1] \in Seq(T)
      BY <1>0, <1>7, <1>10, <3>0
    <3>2. <<>> \o ss[1] = ss[1]
      BY <3>1, ConcatEmptySeq
    <3>3. f[k - 1] = <<>>
      BY <1>9, <2>1
    <3>4. f[k] = f[1] /\ ss[k] = ss[1]
      BY <2>1
    <3>. QED
      BY <3>1, <3>2, <3>3, <3>4
  <2>2. CASE k # 1
    <3>1. k - 1 \in 1 .. n
      BY <1>0, <2>2
    <3>. QED
      BY <1>7, <1>10, <2>2, <3>1 DEF Step
  <2>. QED
    BY <2>1, <2>2
<1>12. f[n] = FlattenSeq(ss)
  <2>1. CASE n = 0
    <3>1. ss = <<>>
      BY <2>1 DEF n
    <3>. QED
      BY <1>6, <1>9, <2>1, <3>1
  <2>2. CASE n # 0
    BY <1>0, <1>6, <1>10, <2>2
  <2>. QED
    BY <2>1, <2>2
<1>. QED
  BY <1>9, <1>11, <1>12 DEF n

\* Without keeps the others, each as often as it was there.
LEMMA WithoutFacts ==
    ASSUME NEW T, NEW s \in Seq(T), NEW S
    PROVE  /\ Without(s, S) \in Seq(T)
           /\ ToSet(Without(s, S)) = ToSet(s) \ S
           /\ Distinct(s) => Distinct(Without(s, S))
<1>. DEFINE n == Len(s)
            part(i) == IF s[i] \in S THEN <<>> ELSE <<s[i]>>
            parts == [i \in DOMAIN s |-> part(i)]
<1>0. n \in Nat /\ DOMAIN s = 1 .. n /\ \A i \in 1 .. n : s[i] \in T
  OBVIOUS
<1>1. parts \in Seq(Seq(T)) /\ Len(parts) = n
  <2>1. \A i \in 1 .. n : part(i) \in Seq(T)
    BY <1>0
  <2>. HIDE DEF part
  <2>2. parts \in [1 .. n -> Seq(T)]
    BY <1>0, <2>1
  <2>. QED
    BY <1>0, <2>2
<1>2. PICK f : /\ f \in [0 .. n -> Seq(T)]
               /\ f[0] = <<>>
               /\ \A k \in 1 .. n : f[k] = f[k - 1] \o parts[k]
               /\ f[n] = FlattenSeq(parts)
  <2>. HIDE DEF n, parts
  <2>. QED
    BY <1>1, FlattenPrefixes
<1>3. f[n] = Without(s, S)
  BY <1>2 DEF Without
<1>. DEFINE good(k) == /\ ToSet(f[k]) = {s[i] : i \in 1 .. k} \ S
                       /\ Distinct(s) => Distinct(f[k])
            G == {k \in Nat : k <= n => good(k)}
<1>4. \A k \in 1 .. n : f[k] = IF s[k] \in S THEN f[k - 1] ELSE Append(f[k - 1], s[k])
  <2>1. SUFFICES ASSUME NEW k \in 1 .. n
                 PROVE  f[k] = IF s[k] \in S THEN f[k - 1] ELSE Append(f[k - 1], s[k])
    OBVIOUS
  <2>2. f[k] = f[k - 1] \o part(k) /\ f[k - 1] \in Seq(T) /\ s[k] \in T
    <3>. HIDE DEF part
    <3>1. parts[k] = part(k) /\ k - 1 \in 0 .. n
      BY <1>0
    <3>. HIDE DEF parts
    <3>. QED
      BY <1>0, <1>2, <3>1
  <2>3. f[k - 1] \o <<>> = f[k - 1] /\ f[k - 1] \o <<s[k]>> = Append(f[k - 1], s[k])
    BY <2>2, ConcatEmptySeq, AppendIsConcat
  <2>. QED
    BY <2>2, <2>3
<1>. HIDE DEF parts, part, n
<1>5. 0 \in G
  BY <1>2 DEF ToSet, Distinct
<1>6. ASSUME NEW k \in Nat, k \in G PROVE k + 1 \in G
  <2>1. SUFFICES ASSUME k + 1 <= n PROVE good(k + 1)
    OBVIOUS
  <2>2. good(k) /\ k \in 0 .. n /\ k + 1 \in 1 .. n
    BY <1>0, <1>6, <2>1
  <2>3. f[k + 1] = IF s[k + 1] \in S THEN f[k] ELSE Append(f[k], s[k + 1])
    BY <1>4, <2>2
  <2>4. f[k] \in Seq(T)
    BY <1>2, <2>2
  <2>5. {s[i] : i \in 1 .. k + 1} = {s[i] : i \in 1 .. k} \cup {s[k + 1]}
    BY <2>2
  <2>6. CASE s[k + 1] \in S
    BY <2>2, <2>3, <2>5, <2>6
  <2>7. CASE s[k + 1] \notin S
    <3>1. /\ DOMAIN f[k + 1] = 1 .. Len(f[k]) + 1
          /\ \A i \in 1 .. Len(f[k]) : f[k + 1][i] = f[k][i]
          /\ f[k + 1][Len(f[k]) + 1] = s[k + 1]
          /\ DOMAIN f[k] = 1 .. Len(f[k]) /\ Len(f[k]) \in Nat
      BY <2>3, <2>4, <2>7
    <3>. DEFINE m == Len(f[k])
    <3>2. ToSet(f[k + 1]) = ToSet(f[k]) \cup {s[k + 1]}
      <4>. HIDE DEF m
      <4>1. \A i \in 1 .. m + 1 : i \in 1 .. m \/ i = m + 1
        BY <3>1 DEF m
      <4>2. m + 1 \in 1 .. m + 1 /\ \A i \in 1 .. m : i \in 1 .. m + 1
        BY <3>1 DEF m
      <4>. QED
        BY <3>1, <4>1, <4>2 DEF ToSet, m
    <3>3. ASSUME Distinct(s) PROVE Distinct(f[k + 1])
      <4>1. \A i \in 1 .. k : s[i] # s[k + 1]
        BY <1>0, <2>2, <3>3 DEF Distinct
      <4>2. s[k + 1] \notin ToSet(f[k])
        BY <2>2, <4>1
      <4>3. \A i \in DOMAIN f[k] : f[k][i] # s[k + 1]
        BY <4>2 DEF ToSet
      <4>4. Distinct(f[k])
        BY <2>2, <3>3
      <4>5. \A i \in 1 .. m + 1 : i \in 1 .. m \/ i = m + 1
        BY <3>1
      <4>. HIDE DEF m
      <4>. QED
        BY <3>1, <4>3, <4>4, <4>5 DEF Distinct, m
    <3>. QED
      BY <2>2, <2>5, <2>7, <3>2, <3>3
  <2>. QED
    BY <2>6, <2>7
<1>7. good(n)
  <2>. HIDE DEF good
  <2>1. Nat \subseteq G
    <3>. HIDE DEF G
    <3>. QED
      BY <1>5, <1>6, SetInduction
  <2>. QED
    BY <1>0, <2>1
<1>8. {s[i] : i \in 1 .. n} = ToSet(s)
  BY <1>0 DEF ToSet
<1>. QED
  BY <1>0, <1>2, <1>3, <1>7, <1>8

LEMMA SetToSeqFacts ==
    ASSUME NEW T, NEW S \in SUBSET T, IsFiniteSet(S)
    PROVE  /\ SetToSeq(S) \in Seq(T)
           /\ ToSet(SetToSeq(S)) = S
           /\ Distinct(SetToSeq(S))
<1>. DEFINE n == Cardinality(S)
<1>1. n \in Nat /\ ExistsBijection(1 .. n, S)
  BY FS_CardinalityType
<1>2. PICK g \in [1 .. n -> S] : IsInjective(g) /\ \A x \in S : \E i \in 1 .. n : g[i] = x
  BY <1>1 DEF ExistsBijection, Bijection, Injection, Surjection
<1>. DEFINE f == SetToSeq(S)
<1>3. f \in [1 .. n -> S] /\ IsInjective(f)
  BY <1>2 DEF SetToSeq
<1>. HIDE DEF f, n
<1>4. \A x \in S : \E i \in 1 .. n : f[i] = x
  <2>. DEFINE R == {f[i] : i \in 1 .. n}
  <2>1. f \in Bijection(1 .. n, R)
    BY <1>3 DEF Bijection, Injection, Surjection, IsInjective
  <2>2. IsFiniteSet(1 .. n) /\ Cardinality(1 .. n) = n
    BY <1>1, FS_Interval
  <2>3. IsFiniteSet(R) /\ Cardinality(R) = n
    <3>1. ExistsBijection(1 .. n, R)
      BY <2>1 DEF ExistsBijection
    <3>. QED
      BY <2>2, <3>1, FS_Bijection
  <2>4. R \subseteq S
    BY <1>3
  <2>5. R = S
    BY <2>3, <2>4, FS_Subset DEF n
  <2>. QED
    BY <2>5
<1>5. f \in Seq(T)
  BY <1>1, <1>3
<1>. QED
  BY <1>3, <1>4, <1>5 DEF f, ToSet, Distinct, IsInjective

----------------------------------------------------------------------------
\* Several pending events

LEMMA ConcatEvents ==
    ASSUME NEW p \in Seq(Event)
    PROVE  /\ p \o <<>> = p
           /\ <<>> \o p = p
           /\ \A e \in Event : p \o <<e>> = Append(p, e)
           /\ \A q \in Seq(Event) : \A e \in Event : p \o Append(q, e) = Append(p \o q, e)
<1>1. p \o <<>> = p /\ <<>> \o p = p
  BY ConcatEmptySeq
<1>2. \A q \in Seq(Event) : \A e \in Event : Append(q, e) = q \o <<e>>
  BY AppendIsConcat
<1>3. ASSUME NEW q \in Seq(Event), NEW e \in Event
      PROVE  p \o Append(q, e) = Append(p \o q, e)
  <2>1. Append(q, e) = q \o <<e>> /\ <<e>> \in Seq(Event) /\ p \o q \in Seq(Event)
    BY <1>2
  <2>2. Append(p \o q, e) = (p \o q) \o <<e>>
    BY <1>2, <2>1
  <2>3. (p \o q) \o <<e>> = p \o (q \o <<e>>)
    BY <2>1, ConcatAssociative
  <2>. QED
    BY <2>1, <2>2, <2>3
<1>4. \A e \in Event : p \o <<e>> = Append(p, e)
  BY <1>2
<1>. QED
  BY <1>1, <1>3, <1>4

\* Nothing is pending: the turn is what it is.
LEMMA LeadsNothing ==
    ASSUME NEW t \in TurnType, NEW told, NEW n \in [Calls -> Nat], NEW m \in Nat,
           t.outcome = "open",
           \A c \in Calls : t.args[c] = Upto(n[c]),
           \A c \in Calls : t.call[c] = "unseen" => n[c] = 0,
           t.text = Upto(m)
    PROVE  LET st == State(t.call, t.tool, n, m, {}, "none") IN
           st \in After /\ Leads(t, <<>>, told, st)
<1>. DEFINE st == State(t.call, t.tool, n, m, {}, "none")
<1>1. st \in After
  BY DEF State, After, TurnType, Told
<1>2. /\ st.call = t.call /\ st.tool = t.tool /\ st.args = n /\ st.text = m
      /\ st.fed = {} /\ st.stop = "none"
  BY DEF State
<1>. HIDE DEF st
<1>3. Sound(t, <<>>, told)
  BY DEF Sound
<1>4. \A c \in Calls : t.call[c] = "unseen" => t.args[c] = <<>>
  <2>1. Upto(0) = <<>>
    BY DEF Upto
  <2>. QED
    BY <2>1
<1>5. \A c \in Calls : /\ CallAfter(t, <<>>, c) = st.call[c]
                       /\ ArgsAre(t, <<>>, c, st.args[c])
                       /\ Says(<<>>, "delta", c) => c \in st.fed
  BY <1>2 DEF CallAfter, ArgsAre, Says
<1>6. \A s \in Tools : ToolAfter(t, <<>>, s) = st.tool[s]
  BY <1>2 DEF ToolAfter, Says
<1>7. TextIs(t, <<>>, st.text)
  BY <1>2 DEF TextIs
<1>. QED
  BY <1>1, <1>2, <1>3, <1>4, <1>5, <1>6, <1>7 DEF Leads, st

LEMMA AddText ==
    ASSUME NEW t, NEW told, NEW st \in After, NEW d \in Seq(Nat), NEW m \in Nat,
           Leads(t, <<>>, told, st), st.stop = "none",
           t.text \o d = Upto(m)
    PROVE  LET new == [st EXCEPT !.text = m] IN
           new \in After /\ Leads(t, <<Text(d)>>, told, new)
<1>. DEFINE e == Text(d)
            q == Append(<<>>, e)
            new == [st EXCEPT !.text = m]
<1>1. e \in Event /\ e.event = "text" /\ e.data = d
  BY DEF Event, Text, Kinds
<1>2. /\ new \in After
      /\ new.text = m
      /\ new.call = st.call /\ new.tool = st.tool /\ new.args = st.args
      /\ new.fed = st.fed /\ new.stop = st.stop
  BY DEF After
<1>3. q = <<e>> /\ q[1] = e /\ Len(<<>>) + 1 = 1 /\ <<>> \in Seq(Event)
  OBVIOUS
<1>. HIDE DEF e, new
<1>4. SoundCall(t, q, 1) /\ SoundTool(t, q, 1) /\ SoundDone(t, q, 1, told)
  BY <1>1, <1>3 DEF SoundCall, SoundTool, SoundDone
<1>5. TextIs(t, q, new.text)
  <2>1. 1 \in DOMAIN q /\ \A j \in DOMAIN q : j = 1
    BY <1>3
  <2>2. q[1].event = "text" /\ t.text \o q[1].data = Upto(m)
    BY <1>1, <1>3
  <2>. HIDE DEF q
  <2>. QED
    BY <1>2, <2>1, <2>2 DEF TextIs
<1>6. ~Says(<<>>, e.event, e.id)
  BY DEF Says
<1>. HIDE DEF q
<1>7. Leads(t, q, told, new)
  BY <1>1, <1>2, <1>3, <1>4, <1>5, <1>6, LeadsAppend DEF q, Kinds
<1>. QED
  BY <1>2, <1>3, <1>7 DEF e, new

\* The calls of S ended, those of late with their whole arguments.
WithClosed(st, S, late) ==
  [st EXCEPT !.call = [c \in Calls |-> IF c \in S THEN "ended" ELSE st.call[c]],
             !.args = [c \in Calls |-> IF c \in late THEN Frags ELSE st.args[c]],
             !.fed = @ \cup late]

WithAnswered(st, S) ==
  [st EXCEPT !.tool = [s \in Tools |-> IF s \in S THEN "answered" ELSE st.tool[s]]]

Closes(st, S, late, new) ==
  /\ new \in After
  /\ \A c \in Calls : new.call[c] = IF c \in S THEN "ended" ELSE st.call[c]
  /\ \A c \in Calls : new.args[c] = IF c \in late THEN Frags ELSE st.args[c]
  /\ new.fed = st.fed \cup late
  /\ new.tool = st.tool /\ new.text = st.text /\ new.stop = st.stop

LEMMA AfterClosed ==
    ASSUME NEW st \in After, NEW S, NEW late, S \subseteq Calls, late \subseteq Calls
    PROVE  Closes(st, S, late, WithClosed(st, S, late))
  BY StreamAssumption DEF Closes, After, WithClosed, CallStates

Answers(st, S, new) ==
  /\ new \in After
  /\ \A s \in Tools : new.tool[s] = IF s \in S THEN "answered" ELSE st.tool[s]
  /\ new.call = st.call /\ new.args = st.args /\ new.fed = st.fed
  /\ new.text = st.text /\ new.stop = st.stop

LEMMA AfterAnswered ==
    ASSUME NEW st \in After, NEW S, S \subseteq Tools
    PROVE  Answers(st, S, WithAnswered(st, S))
  BY DEF Answers, After, WithAnswered, ToolStates

\* Expectations are equal when they say the same.
LEMMA AfterEqual ==
    ASSUME NEW a \in After, NEW b \in After,
           \A c \in Calls : a.call[c] = b.call[c] /\ a.args[c] = b.args[c],
           \A s \in Tools : a.tool[s] = b.tool[s],
           a.text = b.text, a.fed = b.fed, a.stop = b.stop
    PROVE  a = b
<1>1. a.call = b.call /\ a.args = b.args /\ a.tool = b.tool
  BY DEF After
<1>. QED
  BY <1>1 DEF After

SameCalls(st, new) == new.call = st.call
SameArgs(st, new) == new.args = st.args /\ new.fed = st.fed
SameTools(st, new) == new.tool = st.tool
SameEnd(st, new) == new.text = st.text /\ new.stop = st.stop

CallBecomes(st, c, v, new) ==
  /\ new \in After
  /\ new.call[c] = v
  /\ \A d \in Calls \ {c} : new.call[d] = st.call[d]
  /\ SameArgs(st, new) /\ SameTools(st, new) /\ SameEnd(st, new)

ArgsBecome(st, c, m, new) ==
  /\ new \in After
  /\ new.args[c] = m
  /\ \A d \in Calls \ {c} : new.args[d] = st.args[d]
  /\ new.fed = st.fed \cup {c}
  /\ SameCalls(st, new) /\ SameTools(st, new) /\ SameEnd(st, new)

ToolBecomes(st, s, v, new) ==
  /\ new \in After
  /\ new.tool[s] = v
  /\ \A z \in Tools \ {s} : new.tool[z] = st.tool[z]
  /\ SameCalls(st, new) /\ SameArgs(st, new) /\ SameEnd(st, new)

LEMMA Becoming ==
    ASSUME NEW st \in After
    PROVE  /\ \A c \in Calls, v \in CallStates : CallBecomes(st, c, v, WithCall(st, c, v))
           /\ \A c \in Calls, m \in Nat : ArgsBecome(st, c, m, WithArgs(st, c, m))
           /\ \A s \in Tools, v \in ToolStates : ToolBecomes(st, s, v, WithTool(st, s, v))
<1>0. /\ st.call \in [Calls -> CallStates] /\ st.args \in [Calls -> Nat]
      /\ st.tool \in [Tools -> ToolStates]
  BY DEF After
<1>1. ASSUME NEW c \in Calls, NEW v \in CallStates
      PROVE  CallBecomes(st, c, v, WithCall(st, c, v))
  BY <1>0 DEF CallBecomes, SameArgs, SameTools, SameEnd, WithCall, After
<1>2. ASSUME NEW c \in Calls, NEW m \in Nat
      PROVE  ArgsBecome(st, c, m, WithArgs(st, c, m))
  BY <1>0 DEF ArgsBecome, SameCalls, SameTools, SameEnd, WithArgs, After
<1>3. ASSUME NEW s \in Tools, NEW v \in ToolStates
      PROVE  ToolBecomes(st, s, v, WithTool(st, s, v))
  BY <1>0 DEF ToolBecomes, SameCalls, SameArgs, SameEnd, WithTool, After
<1>. QED
  BY <1>1, <1>2, <1>3

LEMMA ConcatThree ==
    ASSUME NEW a \in Seq(Event), NEW b \in Seq(Event), NEW c \in Seq(Event)
    PROVE  a \o b \in Seq(Event) /\ a \o (b \o c) = (a \o b) \o c
<1>1. a \o b \in Seq(Event)
  OBVIOUS
<1>. QED
  BY <1>1, ConcatAssociative

\* A sequence of emissions, each of which leads one expectation to the next.
LEMMA LeadsFlatten ==
    ASSUME NEW t, NEW told, NEW p \in Seq(Event), NEW ss \in Seq(Seq(Event)), NEW sts,
           Leads(t, p, told, sts[0]),
           \A k \in 1 .. Len(ss) : \A q \in Seq(Event) :
             Leads(t, q, told, sts[k - 1]) => Leads(t, q \o ss[k], told, sts[k])
    PROVE  Leads(t, p \o FlattenSeq(ss), told, sts[Len(ss)])
<1>. DEFINE n == Len(ss)
<1>0. n \in Nat /\ \A k \in 1 .. n : ss[k] \in Seq(Event)
  OBVIOUS
<1>1. PICK f : /\ f \in [0 .. n -> Seq(Event)]
               /\ f[0] = <<>>
               /\ \A k \in 1 .. n : f[k] = f[k - 1] \o ss[k]
               /\ f[n] = FlattenSeq(ss)
  BY FlattenPrefixes
<1>. DEFINE leads(k) == Leads(t, p \o f[k], told, sts[k])
            K == {k \in Nat : k <= n => leads(k)}
<1>. HIDE DEF n
<1>2. leads(0)
  <2>1. p \o <<>> = p
    BY ConcatEmptySeq
  <2>. QED
    BY <1>1, <2>1
<1>3. ASSUME NEW k \in Nat, k \in K PROVE k + 1 \in K
  <2>1. SUFFICES ASSUME k + 1 <= n PROVE leads(k + 1)
    OBVIOUS
  <2>2. leads(k) /\ k \in 0 .. n /\ k + 1 \in 1 .. n /\ (k + 1) - 1 = k
    BY <1>0, <1>3, <2>1
  <2>3. f[k] \in Seq(Event) /\ ss[k + 1] \in Seq(Event)
    BY <1>0, <1>1, <2>2
  <2>4. f[k + 1] = f[k] \o ss[k + 1]
    BY <1>1, <2>2
  <2>5. p \o f[k] \in Seq(Event) /\ p \o (f[k] \o ss[k + 1]) = (p \o f[k]) \o ss[k + 1]
    BY <2>3, ConcatThree
  <2>6. \A q \in Seq(Event) : Leads(t, q, told, sts[k]) =>
                                Leads(t, q \o ss[k + 1], told, sts[k + 1])
    BY <2>2, Zenon DEF n
  <2>. QED
    BY <2>2, <2>4, <2>5, <2>6
<1>4. leads(n)
  <2>. HIDE DEF leads
  <2>1. 0 \in K
    BY <1>2
  <2>2. Nat \subseteq K
    <3>. HIDE DEF K
    <3>. QED
      BY <1>3, <2>1, SetInduction
  <2>. QED
    BY <1>0, <2>2
<1>. QED
  BY <1>1, <1>4 DEF n

\* The first k elements of a sequence without repetitions.
Firsts(s, k) == {s[i] : i \in 1 .. k}

LEMMA FirstsFacts ==
    ASSUME NEW T, NEW s \in Seq(T)
    PROVE  /\ Firsts(s, 0) = {}
           /\ Firsts(s, Len(s)) = ToSet(s)
           /\ \A k \in 1 .. Len(s) : /\ s[k] \in T
                                     /\ Firsts(s, k - 1) \in SUBSET T
                                     /\ Firsts(s, k) = Firsts(s, k - 1) \cup {s[k]}
           /\ Distinct(s) => \A k \in 1 .. Len(s) : s[k] \notin Firsts(s, k - 1)
<1>1. /\ DOMAIN s = 1 .. Len(s) /\ Len(s) \in Nat
      /\ \A i \in 1 .. Len(s) : s[i] \in T
  OBVIOUS
<1>2. Firsts(s, 0) = {} /\ Firsts(s, Len(s)) = ToSet(s)
  BY <1>1 DEF Firsts, ToSet
<1>3. ASSUME NEW k \in 1 .. Len(s)
      PROVE  /\ s[k] \in T
             /\ Firsts(s, k - 1) \in SUBSET T
             /\ Firsts(s, k) = Firsts(s, k - 1) \cup {s[k]}
  <2>1. \A i \in 1 .. k : i = k \/ i \in 1 .. k - 1
    BY <1>1
  <2>2. \A i \in 1 .. k - 1 : i \in 1 .. k /\ i \in 1 .. Len(s)
    BY <1>1
  <2>3. k \in 1 .. k
    BY <1>1
  <2>. QED
    BY <1>1, <2>1, <2>2, <2>3 DEF Firsts
<1>4. ASSUME Distinct(s), NEW k \in 1 .. Len(s) PROVE s[k] \notin Firsts(s, k - 1)
  <2>1. \A i \in 1 .. k - 1 : i \in DOMAIN s /\ i # k /\ k \in DOMAIN s
    BY <1>1
  <2>. QED
    BY <1>4, <2>1 DEF Firsts, Distinct
<1>. QED
  BY <1>2, <1>3, <1>4

\* One call more is closed.
LEMMA ClosedFacts ==
    ASSUME NEW st \in After, NEW S, NEW late, NEW c \in Calls,
           S \subseteq Calls, late \subseteq Calls
    PROVE  WithCall(WithClosed(st, S, late), c, "ended") = WithClosed(st, S \cup {c}, late)
<1>. DEFINE now == WithClosed(st, S, late)
            new == WithCall(now, c, "ended")
            then == WithClosed(st, S \cup {c}, late)
<1>1. Closes(st, S, late, now) /\ Closes(st, S \cup {c}, late, then)
  <2>1. S \cup {c} \subseteq Calls
    OBVIOUS
  <2>. QED
    BY <2>1, AfterClosed, Zenon
<1>. HIDE DEF now, then
<1>2. now \in After /\ then \in After
  BY <1>1 DEF Closes
<1>3. /\ new \in After
      /\ new.call = [now.call EXCEPT ![c] = "ended"]
      /\ new.tool = now.tool /\ new.args = now.args /\ new.text = now.text
      /\ new.fed = now.fed /\ new.stop = now.stop
  BY <1>2, AfterCall DEF CallStates
<1>4. now.call \in [Calls -> CallStates]
  BY <1>2 DEF After
<1>. HIDE DEF new
<1>5. \A d \in Calls : new.call[d] = then.call[d] /\ new.args[d] = then.args[d]
  BY <1>1, <1>3, <1>4 DEF Closes
<1>6. new = then
  <2>1. /\ new.tool = then.tool /\ new.text = then.text /\ new.fed = then.fed
        /\ new.stop = then.stop
    BY <1>1, <1>3 DEF Closes
  <2>. QED
    BY <1>2, <1>3, <1>5, <2>1, AfterEqual
<1>. QED
  BY <1>6 DEF now, new, then

\* None is.
LEMMA NothingClosed ==
    ASSUME NEW st \in After
    PROVE  WithClosed(st, {}, {}) = st
<1>. DEFINE now == WithClosed(st, {}, {})
<1>1. Closes(st, {}, {}, now)
  BY AfterClosed
<1>. HIDE DEF now
<1>2. /\ now \in After
      /\ \A c \in Calls : now.call[c] = st.call[c] /\ now.args[c] = st.args[c]
      /\ now.fed = st.fed
      /\ now.tool = st.tool /\ now.text = st.text /\ now.stop = st.stop
  BY <1>1 DEF Closes
<1>3. now = st
  BY <1>2, AfterEqual
<1>. QED
  BY <1>3 DEF now

\* The ends of calls that are open.
LEMMA AddEnds ==
    ASSUME NEW t, NEW told, NEW p, NEW st \in After, NEW cs \in Seq(Calls),
           Distinct(cs),
           Leads(t, p, told, st), st.stop = "none",
           \A c \in ToSet(cs) : st.call[c] = "streaming"
    PROVE  /\ WithClosed(st, ToSet(cs), {}) \in After
           /\ Ends(cs) \in Seq(Event)
           /\ Leads(t, p \o Ends(cs), told, WithClosed(st, ToSet(cs), {}))
<1>. DEFINE n == Len(cs)
            ended(k) == [i \in 1 .. k |-> End(cs[i])]
            now(k) == WithClosed(st, Firsts(cs, k), {})
            leads(k) == Leads(t, p \o ended(k), told, now(k))
            K == {k \in Nat : k <= n => leads(k)}
<1>0. /\ n \in Nat /\ DOMAIN cs = 1 .. n /\ p \in Seq(Event)
      /\ \A i \in 1 .. n : cs[i] \in Calls
  BY DEF Leads
<1>1. \A c \in Calls : End(c) \in Event
  BY DEF End, Event, Kinds
<1>2. \A k \in 0 .. n : Firsts(cs, k) \subseteq Calls
  BY <1>0 DEF Firsts
<1>3. leads(0)
  <2>1. ended(0) = <<>> /\ p \o <<>> = p
    BY <1>0, ConcatEmptySeq
  <2>2. now(0) = st
    <3>1. Firsts(cs, 0) = {}
      BY FirstsFacts
    <3>. QED
      BY <3>1, NothingClosed
  <2>. QED
    BY <2>1, <2>2
<1>4. ASSUME NEW k \in Nat, k \in K PROVE k + 1 \in K
  <2>1. SUFFICES ASSUME k + 1 <= n PROVE leads(k + 1)
    OBVIOUS
  <2>2. leads(k) /\ k \in 0 .. n /\ k + 1 \in 1 .. n /\ (k + 1) - 1 = k
    BY <1>0, <1>4, <2>1
  <2>. DEFINE c == cs[k + 1]
  <2>3. c \in Calls /\ c \in ToSet(cs)
    BY <1>0, <2>2 DEF ToSet
  <2>4. Firsts(cs, k + 1) = Firsts(cs, k) \cup {c} /\ c \notin Firsts(cs, k)
    <3>1. k + 1 \in 1 .. Len(cs)
      BY <2>2
    <3>2. /\ Firsts(cs, k + 1) = Firsts(cs, (k + 1) - 1) \cup {cs[k + 1]}
          /\ cs[k + 1] \notin Firsts(cs, (k + 1) - 1)
      BY <3>1, FirstsFacts
    <3>. QED
      BY <2>2, <3>2
  <2>5. ended(k) \in Seq(Event) /\ ended(k + 1) = Append(ended(k), End(c))
    <3>1. \A i \in 1 .. k : End(cs[i]) \in Event
      BY <1>0, <1>1, <2>2
    <3>. QED
      BY <3>1
  <2>6. p \o ended(k + 1) = Append(p \o ended(k), End(c))
    BY <1>0, <1>1, <2>3, <2>5, ConcatEvents
  <2>. DEFINE S == Firsts(cs, k)
  <2>7. S \subseteq Calls /\ Closes(st, S, {}, now(k))
    BY <1>2, <2>2, AfterClosed
  <2>. HIDE DEF ended, c, S, now
  <2>8. now(k) \in After /\ now(k).call[c] = "streaming" /\ now(k).stop = "none"
    <3>1. st.call[c] = "streaming"
      BY <2>3
    <3>. QED
      BY <2>3, <2>4, <2>7, <3>1 DEF S, Closes
  <2>9. Leads(t, p \o ended(k + 1), told, WithCall(now(k), c, "ended"))
    BY <2>2, <2>3, <2>6, <2>8, AddEnd
  <2>10. WithCall(now(k), c, "ended") = now(k + 1)
    BY <2>3, <2>4, <2>7, ClosedFacts DEF S, now
  <2>. QED
    BY <2>9, <2>10
<1>5. leads(n)
  <2>. HIDE DEF leads
  <2>1. 0 \in K
    BY <1>3
  <2>2. Nat \subseteq K
    <3>. HIDE DEF K
    <3>. QED
      BY <1>4, <2>1, SetInduction
  <2>. QED
    BY <1>0, <2>2
<1>6. ended(n) = Ends(cs) /\ ended(n) \in Seq(Event)
  BY <1>0, <1>1 DEF Ends
<1>7. Firsts(cs, n) = ToSet(cs)
  BY FirstsFacts
<1>8. WithClosed(st, ToSet(cs), {}) \in After
  <2>1. ToSet(cs) \subseteq Calls
    BY <1>0 DEF ToSet
  <2>2. Closes(st, ToSet(cs), {}, WithClosed(st, ToSet(cs), {}))
    BY <2>1, AfterClosed
  <2>. QED
    BY <2>2 DEF Closes
<1>. QED
  BY <1>5, <1>6, <1>7, <1>8

\* close_function, for a call of which the decoder knows what st says of it.
LEMMA AddClose ==
    ASSUME NEW t, NEW told, NEW p \in Seq(Event), NEW st \in After, NEW c \in Calls,
           NEW blob \in BOOLEAN,
           Leads(t, p, told, st), st.stop = "none",
           c \in ToSet(dec.calls) <=> st.call[c] # "unseen",
           c \in dec.closed <=> st.call[c] = "ended",
           blob /\ c \notin dec.sent => /\ st.args[c] = 0 /\ c \notin st.fed
                                        /\ st.call[c] # "ended"
    PROVE  LET late == IF blob /\ c \notin dec.sent THEN {c} ELSE {} IN
           /\ CloseEvents(c, blob) \in Seq(Event)
           /\ Leads(t, p \o CloseEvents(c, blob), told, WithClosed(st, {c}, late))
<1>. DEFINE fills == blob /\ c \notin dec.sent
            late == IF fills THEN {c} ELSE {}
            begin == IF c \in ToSet(dec.calls) THEN <<>> ELSE <<Start(c)>>
            fill == IF fills THEN <<Delta(c, Whole)>> ELSE <<>>
            end == IF c \in dec.closed THEN <<>> ELSE <<End(c)>>
            st1 == IF c \in ToSet(dec.calls) THEN st ELSE WithCall(st, c, "streaming")
            st2 == IF fills THEN WithArgs(st1, c, Frags) ELSE st1
            st3 == IF c \in dec.closed THEN st2 ELSE WithCall(st2, c, "ended")
<1>0. /\ Start(c) \in Event /\ Delta(c, Whole) \in Event /\ End(c) \in Event
      /\ Whole = Upto(Frags) /\ Whole \in Seq(Nat) /\ Frags \in 1 .. Frags
      /\ Upto(0) \o Whole = Upto(Frags)
  <2>1. Whole = Upto(Frags) /\ Whole \in Seq(Nat) /\ Frags \in 1 .. Frags
    BY StreamAssumption DEF Whole, Upto
  <2>2. Upto(0) = <<>> /\ <<>> \o Whole = Whole
    BY <2>1, ConcatEmptySeq DEF Upto
  <2>. QED
    BY <2>1, <2>2 DEF Start, Delta, End, Event, Kinds
<1>1. begin \in Seq(Event) /\ fill \in Seq(Event) /\ end \in Seq(Event)
  BY <1>0
<1>01. st.call[c] \in CallStates
  BY DEF After
<1>2. /\ st1 \in After /\ SameArgs(st, st1) /\ SameTools(st, st1) /\ SameEnd(st, st1)
      /\ st1.call[c] = IF st.call[c] = "unseen" THEN "streaming" ELSE st.call[c]
      /\ \A d \in Calls \ {c} : st1.call[d] = st.call[d]
      /\ Leads(t, p \o begin, told, st1)
  <2>1. CASE c \in ToSet(dec.calls)
    <3>1. p \o <<>> = p
      BY ConcatEmptySeq
    <3>. QED
      BY <2>1, <3>1 DEF SameArgs, SameTools, SameEnd
  <2>2. CASE c \notin ToSet(dec.calls)
    <3>1. p \o <<Start(c)>> = Append(p, Start(c))
      BY <1>0, ConcatEvents
    <3>2. Leads(t, p \o <<Start(c)>>, told, WithCall(st, c, "streaming"))
      BY <2>2, <3>1, AddStart
    <3>3. CallBecomes(st, c, "streaming", WithCall(st, c, "streaming"))
      BY Becoming DEF CallStates
    <3>4. st1 = WithCall(st, c, "streaming") /\ begin = <<Start(c)>>
      BY <2>2
    <3>. HIDE DEF st1, begin
    <3>. QED
      BY <2>2, <3>2, <3>3, <3>4 DEF CallBecomes
  <2>. QED
    BY <2>1, <2>2
<1>. HIDE DEF begin, fill, end, st1, fills
<1>3. /\ st2 \in After /\ SameCalls(st1, st2) /\ SameTools(st1, st2) /\ SameEnd(st1, st2)
      /\ st2.args[c] = IF fills THEN Frags ELSE st1.args[c]
      /\ st2.fed = IF fills THEN st1.fed \cup {c} ELSE st1.fed
      /\ \A d \in Calls \ {c} : st2.args[d] = st1.args[d]
      /\ Leads(t, (p \o begin) \o fill, told, st2)
  <2>1. p \o begin \in Seq(Event)
    BY <1>1
  <2>2. CASE ~fills
    <3>1. (p \o begin) \o <<>> = p \o begin
      BY <2>1, ConcatEmptySeq
    <3>. QED
      BY <1>2, <2>2, <3>1 DEF fill, SameCalls, SameTools, SameEnd
  <2>3. CASE fills
    <3>1. (p \o begin) \o fill = Append(p \o begin, Delta(c, Whole))
      BY <1>0, <2>1, <2>3, ConcatEvents DEF fill
    <3>2. st.args[c] = 0 /\ c \notin st.fed /\ st.call[c] # "ended"
      BY <2>3 DEF fills
    <3>3. st1.call[c] = "streaming"
      BY <1>01, <1>2, <3>2 DEF CallStates
    <3>4. Upto(st1.args[c]) \o Whole = Upto(Frags) /\ c \notin st1.fed /\ st1.stop = "none"
      BY <1>0, <1>2, <3>2 DEF SameArgs, SameEnd
    <3>5. Leads(t, Append(p \o begin, Delta(c, Whole)), told, WithArgs(st1, c, Frags))
      BY <1>0, <1>2, <3>3, <3>4, AddDelta
    <3>6. ArgsBecome(st1, c, Frags, WithArgs(st1, c, Frags))
      BY <1>2, Becoming, StreamAssumption
    <3>7. st2 = WithArgs(st1, c, Frags)
      BY <2>3
    <3>. HIDE DEF st2
    <3>. QED
      BY <2>3, <3>1, <3>5, <3>6, <3>7 DEF ArgsBecome
  <2>. QED
    BY <2>2, <2>3
<1>. HIDE DEF st2
<1>4. /\ st3 \in After /\ SameArgs(st2, st3) /\ SameTools(st2, st3) /\ SameEnd(st2, st3)
      /\ st3.call[c] = "ended"
      /\ \A d \in Calls \ {c} : st3.call[d] = st2.call[d]
      /\ Leads(t, ((p \o begin) \o fill) \o end, told, st3)
  <2>1. (p \o begin) \o fill \in Seq(Event)
    BY <1>1
  <2>2. CASE c \in dec.closed
    <3>1. ((p \o begin) \o fill) \o <<>> = (p \o begin) \o fill
      BY <2>1, ConcatEmptySeq
    <3>2. st2.call[c] = "ended"
      BY <1>2, <1>3, <2>2 DEF SameCalls
    <3>. QED
      BY <1>3, <2>2, <3>1, <3>2 DEF end, SameArgs, SameTools, SameEnd
  <2>3. CASE c \notin dec.closed
    <3>1. ((p \o begin) \o fill) \o end = Append((p \o begin) \o fill, End(c))
      BY <1>0, <2>1, <2>3, ConcatEvents DEF end
    <3>2. st2.call[c] = "streaming" /\ st2.stop = "none"
      BY <1>01, <1>2, <1>3, <2>3 DEF CallStates, SameCalls, SameEnd
    <3>3. Leads(t, Append((p \o begin) \o fill, End(c)), told, WithCall(st2, c, "ended"))
      BY <1>3, <3>2, AddEnd
    <3>4. CallBecomes(st2, c, "ended", WithCall(st2, c, "ended"))
      BY <1>3, Becoming DEF CallStates
    <3>5. st3 = WithCall(st2, c, "ended")
      BY <2>3
    <3>. HIDE DEF st3
    <3>. QED
      BY <3>1, <3>3, <3>4, <3>5 DEF CallBecomes
  <2>. QED
    BY <2>2, <2>3
<1>. HIDE DEF st3
<1>5. st3 = WithClosed(st, {c}, late)
  <2>. DEFINE then == WithClosed(st, {c}, late)
  <2>1. Closes(st, {c}, late, then)
    BY AfterClosed
  <2>. HIDE DEF then
  <2>2. \A d \in Calls : st3.call[d] = then.call[d]
    BY <1>2, <1>3, <1>4, <2>1 DEF Closes, SameCalls
  <2>3. \A d \in Calls : st3.args[d] = then.args[d]
    BY <1>2, <1>3, <1>4, <2>1 DEF Closes, SameArgs
  <2>4. /\ then \in After /\ then.tool = st3.tool /\ then.text = st3.text
        /\ then.stop = st3.stop /\ then.fed = st3.fed
    BY <1>2, <1>3, <1>4, <2>1 DEF Closes, SameTools, SameEnd, SameArgs
  <2>5. st3 = then
    BY <1>4, <2>2, <2>3, <2>4, AfterEqual
  <2>. QED
    BY <2>5 DEF then
<1>6. CloseEvents(c, blob) = (begin \o fill) \o end
  BY DEF CloseEvents, begin, fill, end, fills
<1>7. /\ CloseEvents(c, blob) \in Seq(Event)
      /\ p \o CloseEvents(c, blob) = ((p \o begin) \o fill) \o end
  <2>1. begin \o fill \in Seq(Event)
    BY <1>1
  <2>2. p \o ((begin \o fill) \o end) = (p \o (begin \o fill)) \o end
    BY <1>1, <2>1, ConcatThree
  <2>3. p \o (begin \o fill) = (p \o begin) \o fill
    BY <1>1, ConcatThree
  <2>4. (begin \o fill) \o end \in Seq(Event)
    BY <1>1, <2>1, ConcatThree
  <2>. QED
    BY <1>6, <2>2, <2>3, <2>4
<1>. QED
  BY <1>4, <1>5, <1>7 DEF fills

\* close_function, call after call.
LEMMA AddCloses ==
    ASSUME NEW t, NEW told, NEW p \in Seq(Event), NEW st \in After, NEW cs \in Seq(Calls),
           NEW blob \in BOOLEAN, NEW late \in SUBSET Calls,
           Distinct(cs),
           late = {c \in ToSet(cs) : blob /\ c \notin dec.sent},
           Leads(t, p, told, st), st.stop = "none",
           \A c \in ToSet(cs) :
             /\ c \in ToSet(dec.calls) <=> st.call[c] # "unseen"
             /\ c \in dec.closed <=> st.call[c] = "ended"
             /\ blob /\ c \notin dec.sent => /\ st.args[c] = 0 /\ c \notin st.fed
                                             /\ st.call[c] # "ended"
    PROVE  Leads(t, p \o CloseAll(cs, blob), told, WithClosed(st, ToSet(cs), late))
<1>. DEFINE n == Len(cs)
            fills(c) == blob /\ c \notin dec.sent
            lates(k) == {c \in Firsts(cs, k) : fills(c)}
            sts == [k \in 0 .. n |-> WithClosed(st, Firsts(cs, k), lates(k))]
            ss == [i \in DOMAIN cs |-> CloseEvents(cs[i], blob)]
<1>0. /\ n \in Nat /\ DOMAIN cs = 1 .. n
      /\ \A i \in 1 .. n : cs[i] \in Calls /\ cs[i] \in ToSet(cs)
      /\ \A k \in 0 .. n : Firsts(cs, k) \subseteq Calls
  BY DEF ToSet, Firsts
<1>1. \A k \in 0 .. n : Closes(st, Firsts(cs, k), lates(k), sts[k])
  <2>1. ASSUME NEW k \in 0 .. n PROVE Closes(st, Firsts(cs, k), lates(k), sts[k])
    <3>1. Firsts(cs, k) \subseteq Calls /\ lates(k) \subseteq Calls
      BY <1>0
    <3>2. sts[k] = WithClosed(st, Firsts(cs, k), lates(k))
      OBVIOUS
    <3>. HIDE DEF sts, lates
    <3>. QED
      BY <3>1, <3>2, AfterClosed
  <2>. QED
    BY <2>1
<1>2. sts[0] = st /\ sts[n] = WithClosed(st, ToSet(cs), late)
  <2>1. Firsts(cs, 0) = {} /\ Firsts(cs, n) = ToSet(cs)
    BY FirstsFacts
  <2>2. lates(0) = {} /\ lates(n) = late
    BY <2>1
  <2>3. /\ sts[0] = WithClosed(st, Firsts(cs, 0), lates(0))
        /\ sts[n] = WithClosed(st, Firsts(cs, n), lates(n))
    BY <1>0
  <2>. HIDE DEF sts, lates, n
  <2>. QED
    BY <2>1, <2>2, <2>3, NothingClosed
<1>. HIDE DEF sts
<1>3. ASSUME NEW k \in 1 .. n
      PROVE  /\ CloseEvents(cs[k], blob) \in Seq(Event)
             /\ \A q \in Seq(Event) : Leads(t, q, told, sts[k - 1]) =>
                  Leads(t, q \o CloseEvents(cs[k], blob), told, sts[k])
  <2>. DEFINE c == cs[k]
              S == Firsts(cs, k - 1)
              before == sts[k - 1]
              then == sts[k]
              one == IF fills(c) THEN {c} ELSE {}
              next == WithClosed(before, {c}, one)
  <2>1. /\ c \in Calls /\ c \in ToSet(cs)
        /\ k - 1 \in 0 .. n /\ k \in 0 .. n
        /\ S \subseteq Calls
        /\ Firsts(cs, k) = S \cup {c} /\ c \notin S
    BY <1>0, FirstsFacts
  <2>2. Closes(st, S, lates(k - 1), before) /\ Closes(st, S \cup {c}, lates(k), then)
    BY <1>1, <2>1
  <2>3. c \notin lates(k - 1) /\ lates(k) = lates(k - 1) \cup one
    BY <2>1
  <2>4. /\ c \in ToSet(dec.calls) <=> st.call[c] # "unseen"
        /\ c \in dec.closed <=> st.call[c] = "ended"
        /\ fills(c) => st.args[c] = 0 /\ c \notin st.fed /\ st.call[c] # "ended"
    BY <2>1
  <2>. HIDE DEF c, S, before, then, lates
  <2>5. /\ before \in After /\ before.stop = "none"
        /\ before.call[c] = st.call[c] /\ before.args[c] = st.args[c]
        /\ c \in before.fed => c \in st.fed
    BY <2>1, <2>2, <2>3 DEF Closes
  <2>6. Closes(before, {c}, one, next)
    BY <2>1, <2>5, AfterClosed
  <2>. HIDE DEF one, next
  <2>7. next = then
    <3>1. before \in After /\ next \in After /\ then \in After
      BY <2>2, <2>6 DEF Closes
    <3>2. \A d \in Calls : next.call[d] = then.call[d]
      BY <2>2, <2>6 DEF Closes
    <3>3. \A d \in Calls : next.args[d] = then.args[d]
      BY <2>2, <2>3, <2>6 DEF Closes
    <3>4. /\ next.fed = then.fed /\ next.tool = then.tool /\ next.text = then.text
          /\ next.stop = then.stop
      BY <2>2, <2>3, <2>6 DEF Closes
    <3>. QED
      BY <3>1, <3>2, <3>3, <3>4, AfterEqual
  <2>8. ASSUME NEW q \in Seq(Event), Leads(t, q, told, before)
        PROVE  Leads(t, q \o CloseEvents(c, blob), told, next)
    BY <2>1, <2>4, <2>5, <2>8, AddClose DEF one, next
  <2>9. CloseEvents(c, blob) \in Seq(Event)
    <3>1. Start(c) \in Event /\ Delta(c, Whole) \in Event /\ End(c) \in Event
      BY <2>1, StreamAssumption DEF Start, Delta, End, Event, Kinds, Whole
    <3>. QED
      BY <3>1 DEF CloseEvents
  <2>. QED
    BY <2>7, <2>8, <2>9 DEF c, before, then
<1>4. ss \in Seq(Seq(Event)) /\ Len(ss) = n /\ \A k \in 1 .. n : ss[k] = CloseEvents(cs[k], blob)
  BY <1>0, <1>3
<1>5. CloseAll(cs, blob) = FlattenSeq(ss)
  BY DEF CloseAll
<1>. HIDE DEF ss, n
<1>6. Leads(t, p \o FlattenSeq(ss), told, sts[Len(ss)])
  <2>1. \A k \in 1 .. Len(ss) : \A q \in Seq(Event) :
          Leads(t, q, told, sts[k - 1]) => Leads(t, q \o ss[k], told, sts[k])
    BY <1>3, <1>4
  <2>. QED
    BY <1>2, <1>4, <2>1, LeadsFlatten
<1>. QED
  BY <1>2, <1>4, <1>5, <1>6

\* A provider-run call that was noted: announced if it has not been, and answered.
Answer(s) == (IF s \in dec.announced THEN <<>> ELSE <<Use(s)>>) \o <<Result(s)>>

LEMMA AddAnswer ==
    ASSUME NEW t, NEW told, NEW p \in Seq(Event), NEW st \in After, NEW s \in Tools,
           Leads(t, p, told, st), st.stop = "none",
           st.tool[s] = IF s \in dec.announced THEN "announced" ELSE "unseen"
    PROVE  /\ Answer(s) \in Seq(Event)
           /\ Leads(t, p \o Answer(s), told, WithAnswered(st, {s}))
<1>. DEFINE use == IF s \in dec.announced THEN <<>> ELSE <<Use(s)>>
            st1 == IF s \in dec.announced THEN st ELSE WithTool(st, s, "announced")
            st2 == WithTool(st1, s, "answered")
            then == WithAnswered(st, {s})
<1>0. Use(s) \in Event /\ Result(s) \in Event
  BY DEF Use, Result, Event, Kinds
<1>1. use \in Seq(Event) /\ <<Result(s)>> \in Seq(Event)
  BY <1>0
<1>2. /\ st1 \in After /\ SameCalls(st, st1) /\ SameArgs(st, st1) /\ SameEnd(st, st1)
      /\ st1.tool[s] = "announced"
      /\ \A z \in Tools \ {s} : st1.tool[z] = st.tool[z]
      /\ Leads(t, p \o use, told, st1)
  <2>1. CASE s \in dec.announced
    <3>1. p \o <<>> = p
      BY ConcatEmptySeq
    <3>. QED
      BY <2>1, <3>1 DEF SameCalls, SameArgs, SameEnd
  <2>2. CASE s \notin dec.announced
    <3>1. p \o <<Use(s)>> = Append(p, Use(s))
      BY <1>0, ConcatEvents
    <3>2. Leads(t, p \o <<Use(s)>>, told, WithTool(st, s, "announced"))
      BY <2>2, <3>1, AddUse
    <3>3. ToolBecomes(st, s, "announced", WithTool(st, s, "announced"))
      BY Becoming DEF ToolStates
    <3>4. st1 = WithTool(st, s, "announced") /\ use = <<Use(s)>>
      BY <2>2
    <3>. HIDE DEF st1, use
    <3>. QED
      BY <3>2, <3>3, <3>4 DEF ToolBecomes
  <2>. QED
    BY <2>1, <2>2
<1>. HIDE DEF use, st1
<1>3. Leads(t, (p \o use) \o <<Result(s)>>, told, st2)
  <2>1. p \o use \in Seq(Event)
    BY <1>1
  <2>2. (p \o use) \o <<Result(s)>> = Append(p \o use, Result(s))
    BY <1>0, <2>1, ConcatEvents
  <2>3. st1.stop = "none"
    BY <1>2 DEF SameEnd
  <2>4. Leads(t, Append(p \o use, Result(s)), told, st2)
    BY <1>2, <2>3, AddResult
  <2>. QED
    BY <2>2, <2>4
<1>4. st2 = then
  <2>1. ToolBecomes(st1, s, "answered", st2)
    BY <1>2, Becoming DEF ToolStates
  <2>2. Answers(st, {s}, then)
    BY AfterAnswered
  <2>. HIDE DEF st2, then
  <2>3. \A z \in Tools : st2.tool[z] = then.tool[z]
    BY <1>2, <2>1, <2>2 DEF ToolBecomes, Answers
  <2>4. /\ st2 \in After /\ then \in After
        /\ st2.call = then.call /\ st2.args = then.args /\ st2.fed = then.fed
        /\ st2.text = then.text /\ st2.stop = then.stop
    BY <1>2, <2>1, <2>2 DEF ToolBecomes, Answers, SameCalls, SameArgs, SameEnd
  <2>. QED
    BY <2>3, <2>4, AfterEqual
<1>5. Answer(s) = use \o <<Result(s)>> /\ Answer(s) \in Seq(Event)
  <2>1. Answer(s) = use \o <<Result(s)>>
    BY DEF Answer, use
  <2>. QED
    BY <1>1, <2>1
<1>6. p \o (use \o <<Result(s)>>) = (p \o use) \o <<Result(s)>>
  BY <1>1, ConcatThree
<1>. QED
  BY <1>3, <1>4, <1>5, <1>6

LEMMA AddAnswers ==
    ASSUME NEW t, NEW told, NEW p \in Seq(Event), NEW st \in After, NEW zs \in Seq(Tools),
           Distinct(zs),
           Leads(t, p, told, st), st.stop = "none",
           \A s \in ToSet(zs) :
             st.tool[s] = IF s \in dec.announced THEN "announced" ELSE "unseen"
    PROVE  LET events == FlattenSeq([i \in DOMAIN zs |-> Answer(zs[i])]) IN
           /\ events \in Seq(Event)
           /\ Leads(t, p \o events, told, WithAnswered(st, ToSet(zs)))
<1>. DEFINE n == Len(zs)
            sts == [k \in 0 .. n |-> WithAnswered(st, Firsts(zs, k))]
            ss == [i \in DOMAIN zs |-> Answer(zs[i])]
<1>0. /\ n \in Nat /\ DOMAIN zs = 1 .. n
      /\ \A i \in 1 .. n : zs[i] \in Tools /\ zs[i] \in ToSet(zs)
      /\ \A k \in 0 .. n : Firsts(zs, k) \subseteq Tools
  BY DEF ToSet, Firsts
<1>1. \A k \in 0 .. n : Answers(st, Firsts(zs, k), sts[k])
  <2>1. ASSUME NEW k \in 0 .. n PROVE Answers(st, Firsts(zs, k), sts[k])
    <3>1. sts[k] = WithAnswered(st, Firsts(zs, k))
      OBVIOUS
    <3>. HIDE DEF sts
    <3>. QED
      BY <1>0, <3>1, AfterAnswered
  <2>. QED
    BY <2>1
<1>2. sts[0] = st /\ sts[n] = WithAnswered(st, ToSet(zs))
  <2>1. Firsts(zs, 0) = {} /\ Firsts(zs, n) = ToSet(zs)
    BY FirstsFacts
  <2>2. sts[n] = WithAnswered(st, Firsts(zs, n))
    BY <1>0
  <2>. HIDE DEF sts
  <2>3. Answers(st, {}, sts[0])
    <3>1. 0 \in 0 .. n
      BY <1>0
    <3>2. Answers(st, Firsts(zs, 0), sts[0])
      BY <1>1, <3>1
    <3>. QED
      BY <2>1, <3>2
  <2>. HIDE DEF n
  <2>4. sts[0] = st
    BY <2>3, AfterEqual DEF Answers
  <2>. QED
    BY <2>1, <2>2, <2>4
<1>. HIDE DEF sts
<1>3. ASSUME NEW k \in 1 .. n
      PROVE  /\ Answer(zs[k]) \in Seq(Event)
             /\ \A q \in Seq(Event) : Leads(t, q, told, sts[k - 1]) =>
                  Leads(t, q \o Answer(zs[k]), told, sts[k])
  <2>. DEFINE s == zs[k]
              S == Firsts(zs, k - 1)
              before == sts[k - 1]
              then == sts[k]
              next == WithAnswered(before, {s})
  <2>1. /\ s \in Tools /\ s \in ToSet(zs)
        /\ k - 1 \in 0 .. n /\ k \in 0 .. n
        /\ Firsts(zs, k) = S \cup {s} /\ s \notin S
    BY <1>0, FirstsFacts
  <2>2. Answers(st, S, before) /\ Answers(st, S \cup {s}, then)
    BY <1>1, <2>1
  <2>3. st.tool[s] = IF s \in dec.announced THEN "announced" ELSE "unseen"
    BY <2>1
  <2>. HIDE DEF s, S, before, then
  <2>4. before \in After /\ before.stop = "none" /\ before.tool[s] = st.tool[s]
    BY <2>1, <2>2 DEF Answers
  <2>5. Answers(before, {s}, next)
    BY <2>1, <2>4, AfterAnswered
  <2>. HIDE DEF next
  <2>6. next = then
    <3>1. \A z \in Tools : next.tool[z] = then.tool[z]
      BY <2>2, <2>5 DEF Answers
    <3>2. /\ next \in After /\ then \in After
          /\ next.call = then.call /\ next.args = then.args /\ next.fed = then.fed
          /\ next.text = then.text /\ next.stop = then.stop
      BY <2>2, <2>5 DEF Answers
    <3>. QED
      BY <3>1, <3>2, AfterEqual
  <2>7. ASSUME NEW q \in Seq(Event), Leads(t, q, told, before)
        PROVE  Leads(t, q \o Answer(s), told, next)
    BY <2>1, <2>3, <2>4, <2>7, AddAnswer DEF next
  <2>8. Answer(s) \in Seq(Event)
    <3>1. Use(s) \in Event /\ Result(s) \in Event
      BY <2>1 DEF Use, Result, Event, Kinds
    <3>. QED
      BY <3>1 DEF Answer
  <2>. QED
    BY <2>6, <2>7, <2>8 DEF s, before, then
<1>4. ss \in Seq(Seq(Event)) /\ Len(ss) = n /\ \A k \in 1 .. n : ss[k] = Answer(zs[k])
  BY <1>0, <1>3
<1>. HIDE DEF ss, n
<1>5. Leads(t, p \o FlattenSeq(ss), told, sts[Len(ss)])
  <2>1. \A k \in 1 .. Len(ss) : \A q \in Seq(Event) :
          Leads(t, q, told, sts[k - 1]) => Leads(t, q \o ss[k], told, sts[k])
    BY <1>3, <1>4
  <2>. QED
    BY <1>2, <1>4, <2>1, LeadsFlatten
<1>6. FlattenSeq(ss) \in Seq(Event)
  <2>1. PICK f : /\ f \in [0 .. Len(ss) -> Seq(Event)]
                 /\ f[Len(ss)] = FlattenSeq(ss)
    BY <1>4, FlattenPrefixes
  <2>2. Len(ss) \in 0 .. Len(ss)
    BY <1>0, <1>4
  <2>. QED
    BY <2>1, <2>2
<1>. QED
  BY <1>2, <1>4, <1>5, <1>6 DEF ss

----------------------------------------------------------------------------
\* Between a frame and the next

\* The turn as it is, with nothing pending.
Now == State(turn.call, turn.tool, [c \in Calls |-> Given(c)], srv.said, {}, "none")

LEMMA GivenType ==
    ASSUME TypeInv
    PROVE  \A c \in Calls : Given(c) \in 0 .. Frags
  BY StreamAssumption DEF TypeInv, SrvType, DecType, Given

\* When a frame is read the turn has caught up with the decoder.
LEMMA Quiet ==
    ASSUME StreamsInv, place = "reading", pending = <<>>, ~drained
    PROVE  /\ TypeInv /\ StreamInv /\ AdapterInv
           /\ turn.outcome # "failed"
           /\ \A c : CallNow(c) = turn.call[c]
           /\ \A s : ToolNow(s) = turn.tool[s]
           /\ IsOver <=> turn.outcome # "open"
           /\ \A c \in Calls : turn.args[c] = Upto(Given(c))
           /\ turn.text = Upto(srv.said)
           /\ Unsaid => turn.outcome = "open"
<1>1. turn.outcome # "failed" /\ TypeInv
  BY DEF StreamsInv, PlaceInv
<1>2. ~Failing /\ Heard = <<>>
  BY DEF Failing, Heard
<1>3. StreamInv /\ AdapterInv
  BY <1>1, <1>2 DEF StreamsInv, Live
<1>4. /\ \A c : CallNow(c) = turn.call[c]
      /\ \A s : ToolNow(s) = turn.tool[s]
      /\ IsOver <=> turn.outcome # "open"
  BY <1>2 DEF CallNow, ToolNow, IsOver, CallAfter, ToolAfter, Over, Says
<1>5. /\ \A c \in Calls : turn.args[c] = Upto(Given(c))
      /\ turn.text = Upto(srv.said)
  BY <1>2, <1>3 DEF StreamInv, ArgsAre, TextIs, Says
<1>6. Unsaid => turn.outcome = "open"
  BY <1>3, <1>4 DEF StreamInv, Unsaid
<1>. QED
  BY <1>1, <1>3, <1>4, <1>5, <1>6

LEMMA QuietLeads ==
    ASSUME StreamsInv, place = "reading", pending = <<>>, ~drained,
           turn.outcome = "open", NEW told
    PROVE  /\ Now \in After
           /\ Leads(turn, <<>>, told, Now)
           /\ Now.call = turn.call /\ Now.tool = turn.tool
           /\ \A c \in Calls : Now.args[c] = Given(c)
           /\ Now.text = srv.said /\ Now.fed = {} /\ Now.stop = "none"
<1>. DEFINE n == [c \in Calls |-> Given(c)]
<1>1. /\ TypeInv /\ StreamInv
      /\ \A c \in Calls : turn.args[c] = Upto(Given(c))
      /\ \A c \in Calls : CallNow(c) = turn.call[c]
      /\ turn.text = Upto(srv.said)
  BY Quiet
<1>2. /\ n \in [Calls -> Nat]
      /\ \A c \in Calls : n[c] = Given(c)
  BY <1>1, GivenType, StreamAssumption
<1>3. Now = State(turn.call, turn.tool, n, srv.said, {}, "none")
  BY DEF Now
<1>. HIDE DEF n
<1>4. turn \in TurnType /\ srv.said \in Nat
  BY <1>1, StreamAssumption DEF TypeInv, SrvType
<1>5. \A c \in Calls : turn.args[c] = Upto(n[c])
  BY <1>1, <1>2
<1>6. \A c \in Calls : turn.call[c] = "unseen" => n[c] = 0
  BY <1>1, <1>2 DEF StreamInv
<1>7. Now \in After /\ Leads(turn, <<>>, told, Now)
  BY <1>1, <1>2, <1>3, <1>4, <1>5, <1>6, LeadsNothing
<1>8. /\ Now.call = turn.call /\ Now.tool = turn.tool /\ Now.args = n
      /\ Now.text = srv.said /\ Now.fed = {} /\ Now.stop = "none"
  BY <1>3 DEF State
<1>. QED
  BY <1>2, <1>7, <1>8

\* A frame's events are as st says: so are the turn's expectations.
LEMMA FrameStream ==
    ASSUME NEW st \in After,
           turn' = turn,
           Leads(turn, pending', srv'.told, st),
           \A c \in Calls : srv'.wire[c] = "unseen" <=> st.call[c] = "unseen",
           \A c \in Calls : Given(c)' = st.args[c],
           \A c \in Calls : srv'.wire[c] = "unseen" => st.args[c] = 0,
           st.text = srv'.said,
           adapter' # "responses" => dec'.whole = {},
           srv'.told \in Finishes =>
             \A c \in Calls : srv'.wire[c] # "unseen" => st.args[c] = Frags,
           st.stop # "none" /\ srv'.told = "none" =>
             drained' /\ (adapter' = "responses" => st.stop \notin Finishes)
    PROVE  /\ StreamInv'
           /\ pending' \in Seq(Event)
           /\ \A c \in Calls : CallNow(c)' = st.call[c]
           /\ \A s \in Tools : ToolNow(s)' = st.tool[s]
           /\ IsOver' <=> st.stop # "none"
<1>1. turn.outcome = "open" /\ pending' \in Seq(Event) /\ Sound(turn, pending', srv'.told)
  BY DEF Leads
<1>2. ~Failing'
  <2>1. SUFFICES ASSUME pending' # <<>>, pending'[1] = Error PROVE FALSE
    BY DEF Failing
  <2>2. 1 \in DOMAIN pending'
    BY <1>1, <2>1
  <2>3. pending'[1].event \in Kinds
    BY <1>1, <2>2 DEF Sound
  <2>. QED
    BY <2>1, <2>3 DEF Error, Kinds
<1>3. Heard' = pending'
  BY <1>2 DEF Heard
<1>4. \A c \in Calls : CallNow(c)' = st.call[c]
  BY <1>3 DEF Leads, CallNow
<1>5. \A s \in Tools : ToolNow(s)' = st.tool[s]
  BY <1>3 DEF Leads, ToolNow
<1>6. IsOver' <=> st.stop # "none"
  BY <1>1, <1>3 DEF Leads, IsOver, Over
<1>7. \A c \in Calls : ArgsAre(turn, pending', c, Given(c)')
  BY DEF Leads
<1>8. TextIs(turn, pending', srv'.said)
  BY DEF Leads
<1>9. \A i \in DOMAIN Heard' : Heard'[i].event = "done" => Heard'[i].id = st.stop
  BY <1>3 DEF Leads
<1>10. Begun' = {c \in Calls : srv'.wire[c] # "unseen"}
  BY DEF Begun
<1>11. StreamInv'
  <2>1. Sound(turn', Heard', srv'.told)
    BY <1>1, <1>3
  <2>2. \A c \in Calls : srv'.wire[c] = "unseen" <=> CallNow(c)' = "unseen"
    BY <1>4
  <2>3. \A c \in Calls : ArgsAre(turn', Heard', c, Given(c)')
    BY <1>3, <1>7
  <2>4. TextIs(turn', Heard', srv'.said)
    BY <1>3, <1>8
  <2>5. srv'.told \in Finishes => \A c \in Begun' : Given(c)' = Frags
    BY <1>10
  <2>6. turn'.outcome = "open"
    BY <1>1
  <2>7. IsOver' /\ srv'.told = "none" =>
          /\ drained'
          /\ adapter' = "responses" =>
               /\ turn'.outcome \notin Finishes
               /\ \A i \in DOMAIN Heard' : Heard'[i].event = "done" =>
                                             Heard'[i].id \notin Finishes
    BY <1>6, <1>9, <2>6 DEF Finishes
  <2>. QED
    BY <2>1, <2>2, <2>3, <2>4, <2>5, <2>6, <2>7 DEF StreamInv
<1>. QED
  BY <1>1, <1>4, <1>5, <1>6, <1>11

\* A frame that hands nothing over, or an error.
LEMMA StillStream ==
    ASSUME StreamsInv, place = "reading", pending = <<>>, ~drained,
           turn' = turn, adapter' = adapter,
           pending' = <<>> \/ pending'[1] = Error,
           srv'.wire = srv.wire, srv'.said = srv.said, srv'.told = srv.told,
           \A c \in Calls : Given(c)' = Given(c),
           dec'.whole = dec.whole
    PROVE  /\ StreamInv'
           /\ \A c : CallNow(c)' = CallNow(c)
           /\ \A s : ToolNow(s)' = ToolNow(s)
           /\ IsOver' <=> IsOver
<1>1. Heard = <<>> /\ Heard' = <<>>
  BY DEF Heard, Failing
<1>2. /\ \A c : CallNow(c)' = CallNow(c)
      /\ \A s : ToolNow(s)' = ToolNow(s)
      /\ IsOver' <=> IsOver
  BY <1>1 DEF CallNow, ToolNow, IsOver
<1>3. StreamInv /\ (IsOver => srv.told # "none")
  BY Quiet DEF StreamInv
<1>4. Begun' = Begun
  BY DEF Begun
<1>5. StreamInv'
  <2>1. Sound(turn', Heard', srv'.told)
    BY <1>1, <1>3 DEF StreamInv
  <2>2. \A c \in Calls : srv'.wire[c] = "unseen" <=> CallNow(c)' = "unseen"
    BY <1>2, <1>3 DEF StreamInv
  <2>3. \A c \in Calls : ArgsAre(turn', Heard', c, Given(c)')
    <3>1. \A c \in Calls : ArgsAre(turn, Heard, c, Given(c))
      BY <1>3 DEF StreamInv
    <3>. QED
      BY <1>1, <3>1
  <2>4. \A c \in Calls : srv'.wire[c] = "unseen" => Given(c)' = 0
    BY <1>3 DEF StreamInv
  <2>5. TextIs(turn', Heard', srv'.said) /\ (adapter' # "responses" => dec'.whole = {})
    BY <1>1, <1>3 DEF StreamInv
  <2>6. srv'.told \in Finishes => \A c \in Begun' : Given(c)' = Frags
    <3>1. srv.told \in Finishes => \A c \in Begun : Given(c) = Frags
      BY <1>3 DEF StreamInv
    <3>. QED
      BY <1>4, <3>1 DEF Begun
  <2>7. turn'.outcome # "open" /\ srv'.told # "none" =>
          turn'.outcome = srv'.told /\ \A c \in Calls : turn'.call[c] # "streaming"
    BY <1>3 DEF StreamInv
  <2>8. ~(IsOver' /\ srv'.told = "none")
    BY <1>2, <1>3
  <2>. QED
    BY <2>1, <2>2, <2>3, <2>4, <2>5, <2>6, <2>7, <2>8 DEF StreamInv
<1>. QED
  BY <1>2, <1>5

\* What the adapters know, when the decoder is unchanged and the turn has moved on
\* in step with what is pending.
LEMMA SameAdapter ==
    ASSUME AdapterInv, adapter' = adapter, dec' = dec,
           srv'.wire = srv.wire, srv'.sent = srv.sent, srv'.tool = srv.tool,
           srv'.told = srv.told, srv'.bye = srv.bye,
           adapter = "claude" => srv' = srv,
           \A c \in Calls : CallNow(c)' = CallNow(c),
           \A s \in Tools : ToolNow(s)' = ToolNow(s),
           IsOver' <=> IsOver
    PROVE  AdapterInv'
<1>0. /\ \A c : Given(c)' = Given(c)
      /\ Unsaid' <=> Unsaid
  BY DEF Given, Unsaid
<1>1. adapter = "anthropic" => AnthropicInv'
  BY <1>0 DEF AdapterInv, AnthropicInv
<1>2. adapter = "gemini" => GeminiInv'
  BY DEF AdapterInv, GeminiInv
<1>3. adapter = "openai" => OpenaiInv'
  BY <1>0 DEF AdapterInv, OpenaiInv
<1>4. adapter = "grpc" => GrpcInv'
  BY <1>0 DEF AdapterInv, GrpcInv
<1>5. adapter = "responses" => ResponsesInv'
  BY <1>0 DEF AdapterInv, ResponsesInv
<1>6. adapter = "claude" => ClaudeInv'
  BY <1>0 DEF AdapterInv, ClaudeInv
<1>. QED
  BY <1>1, <1>2, <1>3, <1>4, <1>5, <1>6 DEF AdapterInv

----------------------------------------------------------------------------
\* The frames, one lemma each

LEMMA AfterFrame ==
    ASSUME StreamsInv, NEW a, Reads(a),
           srv' \in SrvType, dec' \in DecType, pending' \in Seq(Event),
           StreamInv',
           Live' => AdapterInv'
    PROVE  StreamsInv'
<1>1. TypeInv'
  BY DEF StreamsInv, TypeInv, Reads, opening
<1>2. PlaceInv'
  BY Quiet DEF PlaceInv, Reads, opening
<1>. QED
  BY <1>1, <1>2 DEF StreamsInv

LEMMA OneEvent ==
    ASSUME NEW e \in Event
    PROVE  Append(<<>>, e) = <<e>> /\ <<e>> \in Seq(Event)
  OBVIOUS

LEMMA TextStep ==
    ASSUME StreamsInv, TextFrame
    PROVE  StreamsInv'
<1>. DEFINE st == [Now EXCEPT !.text = srv.said + 1]
            d == <<srv.said + 1>>
<1>1. PICK a \in Adapters \ {"claude"} : Reads(a)
  BY DEF TextFrame
<1>2. /\ place = "reading" /\ pending = <<>> /\ ~drained
      /\ adapter = a /\ adapter' = a /\ drained' = drained /\ turn' = turn
  BY <1>1 DEF Reads, opening
<1>3. /\ Unsaid /\ srv.said < Texts /\ dec' = dec
      /\ srv' = [srv EXCEPT !.said = @ + 1]
      /\ pending' = <<Text(d)>>
  BY DEF TextFrame, Emits
<1>4. /\ TypeInv /\ StreamInv /\ AdapterInv
      /\ turn.outcome = "open" /\ turn.text = Upto(srv.said)
      /\ \A c : CallNow(c) = turn.call[c]
      /\ \A s : ToolNow(s) = turn.tool[s]
      /\ IsOver <=> turn.outcome # "open"
  BY <1>2, <1>3, Quiet
<1>5. /\ srv.said \in Nat /\ srv.said + 1 \in Nat /\ d \in Seq(Nat)
      /\ srv' \in SrvType
      /\ srv'.said = srv.said + 1
      /\ srv'.wire = srv.wire /\ srv'.sent = srv.sent /\ srv'.tool = srv.tool
      /\ srv'.told = srv.told /\ srv'.bye = srv.bye
  <2>1. srv \in SrvType /\ srv.said \in 0 .. Texts /\ Texts \in Nat
    BY <1>4, StreamAssumption DEF TypeInv, SrvType
  <2>2. srv.said \in Nat /\ srv.said + 1 \in 0 .. Texts
    BY <1>3, <2>1
  <2>3. d \in Seq(Nat)
    BY <2>2
  <2>. HIDE DEF d
  <2>4. /\ srv' \in SrvType
        /\ srv'.said = srv.said + 1
        /\ srv'.wire = srv.wire /\ srv'.sent = srv.sent /\ srv'.tool = srv.tool
        /\ srv'.told = srv.told /\ srv'.bye = srv.bye
    BY <1>3, <2>1, <2>2 DEF SrvType
  <2>. QED
    BY <2>2, <2>3, <2>4
<1>6. turn.text \o d = Upto(srv.said + 1)
  BY <1>4, <1>5 DEF Upto
<1>7. /\ Now \in After
      /\ Leads(turn, <<>>, srv'.told, Now)
      /\ Now.call = turn.call /\ Now.tool = turn.tool
      /\ \A c \in Calls : Now.args[c] = Given(c)
      /\ Now.fed = {} /\ Now.stop = "none"
  BY <1>2, <1>4, QuietLeads
<1>. HIDE DEF d
<1>8. st \in After /\ Leads(turn, pending', srv'.told, st)
  BY <1>3, <1>5, <1>6, <1>7, AddText
<1>9. /\ st.call = turn.call /\ st.tool = turn.tool /\ st.args = Now.args
      /\ st.text = srv.said + 1 /\ st.stop = "none"
  BY <1>7 DEF After
<1>. HIDE DEF st
<1>10. \A c \in Calls : Given(c)' = Given(c)
  BY <1>3, <1>5 DEF Given
<1>11. /\ StreamInv' /\ pending' \in Seq(Event)
       /\ \A c \in Calls : CallNow(c)' = st.call[c]
       /\ \A s \in Tools : ToolNow(s)' = st.tool[s]
       /\ IsOver' <=> st.stop # "none"
  <2>1. \A c \in Calls : srv'.wire[c] = "unseen" <=> st.call[c] = "unseen"
    BY <1>4, <1>5, <1>9 DEF StreamInv
  <2>2. \A c \in Calls : Given(c)' = st.args[c]
    BY <1>7, <1>9, <1>10
  <2>3. \A c \in Calls : srv'.wire[c] = "unseen" => st.args[c] = 0
    BY <1>4, <1>5, <1>7, <1>9 DEF StreamInv
  <2>4. srv'.told \notin Finishes
    BY <1>3, <1>5 DEF Unsaid, Finishes
  <2>5. adapter' # "responses" => dec'.whole = {}
    BY <1>2, <1>3, <1>4 DEF StreamInv
  <2>. QED
    BY <1>2, <1>5, <1>8, <1>9, <2>1, <2>2, <2>3, <2>4, <2>5, FrameStream
<1>12. AdapterInv'
  <2>1. IsOver' <=> IsOver
    BY <1>4, <1>9, <1>11
  <2>. QED
    BY <1>2, <1>3, <1>4, <1>5, <1>9, <1>11, <2>1, SameAdapter
<1>13. dec' \in DecType
  BY <1>3, <1>4 DEF TypeInv
<1>. QED
  BY <1>1, <1>5, <1>11, <1>12, <1>13, AfterFrame

LEMMA BlockStartStep ==
    ASSUME StreamsInv, NEW c \in Calls, BlockStart(c)
    PROVE  StreamsInv'
<1>. DEFINE st == WithCall(Now, c, "streaming")
<1>1. /\ place = "reading" /\ pending = <<>> /\ ~drained /\ Reads("anthropic")
      /\ adapter = "anthropic" /\ adapter' = "anthropic" /\ drained' = drained /\ turn' = turn
  BY DEF BlockStart, Reads, opening
<1>2. /\ Unsaid /\ srv.wire[c] = "unseen"
      /\ srv' = [srv EXCEPT !.wire[c] = "open"]
      /\ dec' = [dec EXCEPT !.blocks = @ \cup {c}]
      /\ pending' = <<Start(c)>>
  BY DEF BlockStart, Emits
<1>3. /\ TypeInv /\ StreamInv /\ AnthropicInv
      /\ turn.outcome = "open"
      /\ \A d : CallNow(d) = turn.call[d]
      /\ \A s : ToolNow(s) = turn.tool[s]
  BY <1>1, <1>2, Quiet DEF AdapterInv
<1>4. /\ srv' \in SrvType
      /\ srv'.wire[c] = "open" /\ \A d \in Calls \ {c} : srv'.wire[d] = srv.wire[d]
      /\ srv'.said = srv.said /\ srv'.sent = srv.sent /\ srv'.tool = srv.tool
      /\ srv'.told = srv.told /\ srv'.bye = srv.bye
  BY <1>2, <1>3 DEF TypeInv, SrvType
<1>5. /\ dec' \in DecType
      /\ dec'.whole = dec.whole /\ dec'.blocks = dec.blocks \cup {c}
      /\ dec'.stop = dec.stop /\ dec'.done = dec.done
  BY <1>2, <1>3 DEF TypeInv, DecType
<1>6. /\ Now \in After
      /\ Leads(turn, <<>>, srv'.told, Now)
      /\ Now.call = turn.call /\ Now.tool = turn.tool
      /\ \A d \in Calls : Now.args[d] = Given(d)
      /\ Now.text = srv.said /\ Now.fed = {} /\ Now.stop = "none"
  BY <1>1, <1>3, QuietLeads
<1>7. turn.call[c] = "unseen"
  BY <1>2, <1>3 DEF StreamInv
<1>8. Leads(turn, pending', srv'.told, st) /\ CallBecomes(Now, c, "streaming", st)
  <2>1. Leads(turn, Append(<<>>, Start(c)), srv'.told, st)
    BY <1>6, <1>7, AddStart
  <2>2. Append(<<>>, Start(c)) = <<Start(c)>>
    OBVIOUS
  <2>3. CallBecomes(Now, c, "streaming", st)
    BY <1>6, Becoming DEF CallStates
  <2>. QED
    BY <1>2, <2>1, <2>2, <2>3
<1>. HIDE DEF st
<1>9. /\ st \in After
      /\ st.call[c] = "streaming" /\ \A d \in Calls \ {c} : st.call[d] = turn.call[d]
      /\ st.tool = turn.tool /\ \A d \in Calls : st.args[d] = Given(d)
      /\ st.text = srv.said /\ st.stop = "none"
  BY <1>6, <1>8 DEF CallBecomes, SameArgs, SameTools, SameEnd
<1>10. \A d \in Calls : Given(d)' = Given(d)
  BY <1>4, <1>5 DEF Given
<1>11. /\ StreamInv' /\ pending' \in Seq(Event)
       /\ \A d \in Calls : CallNow(d)' = st.call[d]
       /\ \A s \in Tools : ToolNow(s)' = st.tool[s]
       /\ IsOver' <=> st.stop # "none"
  <2>1. \A d \in Calls : srv'.wire[d] = "unseen" <=> st.call[d] = "unseen"
    BY <1>3, <1>4, <1>9 DEF StreamInv
  <2>2. \A d \in Calls : Given(d)' = st.args[d]
    BY <1>9, <1>10
  <2>3. \A d \in Calls : srv'.wire[d] = "unseen" => st.args[d] = 0
    BY <1>3, <1>4, <1>9 DEF StreamInv
  <2>4. srv'.told \notin Finishes
    BY <1>2, <1>4 DEF Unsaid, Finishes
  <2>5. dec'.whole = {}
    BY <1>1, <1>3, <1>5 DEF StreamInv
  <2>. QED
    BY <1>1, <1>4, <1>8, <1>9, <2>1, <2>2, <2>3, <2>4, <2>5, FrameStream
<1>12. AnthropicInv'
  <2>1. \A d \in Calls : /\ srv'.wire[d] # "done"
                         /\ srv'.wire[d] = "open" <=> CallNow(d)' = "streaming"
                         /\ srv'.wire[d] = "open" <=> d \in dec'.blocks
    BY <1>3, <1>4, <1>5, <1>9, <1>11 DEF AnthropicInv
  <2>2. Unsaid'
    BY <1>2, <1>4 DEF Unsaid
  <2>. QED
    BY <1>3, <1>4, <1>5, <1>9, <1>11, <2>1, <2>2 DEF AnthropicInv
<1>. QED
  BY <1>1, <1>4, <1>5, <1>11, <1>12, AfterFrame DEF AdapterInv

\* One fragment more.
LEMMA OneMore ==
    ASSUME NEW m \in Nat
    PROVE  <<m + 1>> \in Seq(Nat) /\ Upto(m) \o <<m + 1>> = Upto(m + 1)
<1>1. <<m + 1>> \in Seq(Nat)
  OBVIOUS
<1>. QED
  BY <1>1 DEF Upto

LEMMA InputJsonDeltaStep ==
    ASSUME StreamsInv, NEW c \in Calls, InputJsonDelta(c)
    PROVE  StreamsInv'
<1>. DEFINE m == srv.sent[c]
            d == <<m + 1>>
            st == WithArgs(Now, c, m + 1)
<1>1. /\ place = "reading" /\ pending = <<>> /\ ~drained /\ Reads("anthropic")
      /\ adapter = "anthropic" /\ adapter' = "anthropic" /\ drained' = drained /\ turn' = turn
  BY DEF InputJsonDelta, Reads, opening
<1>2. /\ Unsaid /\ srv.wire[c] = "open" /\ m # Frags
      /\ srv' = [srv EXCEPT !.sent[c] = @ + 1]
      /\ dec' = dec
      /\ pending' = IF c \in dec.blocks THEN <<Delta(c, d)>> ELSE <<>>
  BY DEF InputJsonDelta, Emits, Streaming, Complete
<1>3. /\ TypeInv /\ StreamInv /\ AnthropicInv
      /\ turn.outcome = "open"
      /\ \A e : CallNow(e) = turn.call[e]
      /\ \A s : ToolNow(s) = turn.tool[s]
  BY <1>1, <1>2, Quiet DEF AdapterInv
<1>4. m \in Nat /\ m + 1 \in 1 .. Frags
  <2>1. m \in 0 .. Frags /\ Frags \in Nat
    BY <1>3, StreamAssumption DEF TypeInv, SrvType
  <2>. QED
    BY <1>2, <2>1
<1>5. d \in Seq(Nat) /\ Upto(m) \o d = Upto(m + 1)
  BY <1>4, OneMore
<1>6. /\ srv' \in SrvType
      /\ srv'.sent[c] = m + 1 /\ \A e \in Calls \ {c} : srv'.sent[e] = srv.sent[e]
      /\ srv'.said = srv.said /\ srv'.wire = srv.wire /\ srv'.tool = srv.tool
      /\ srv'.told = srv.told /\ srv'.bye = srv.bye
  <2>1. srv \in SrvType /\ m + 1 \in 0 .. Frags
    BY <1>3, <1>4 DEF TypeInv
  <2>. HIDE DEF d, st
  <2>. QED
    BY <1>2, <2>1 DEF SrvType
<1>. HIDE DEF d
<1>7. /\ Now \in After
      /\ Leads(turn, <<>>, srv'.told, Now)
      /\ Now.call = turn.call /\ Now.tool = turn.tool
      /\ \A e \in Calls : Now.args[e] = Given(e)
      /\ Now.text = srv.said /\ Now.fed = {} /\ Now.stop = "none"
  BY <1>1, <1>3, QuietLeads
<1>8. turn.call[c] = "streaming" /\ c \in dec.blocks /\ dec.whole = {} /\ Given(c) = m
  BY <1>1, <1>2, <1>3 DEF StreamInv, AnthropicInv, Given
<1>. HIDE DEF m
<1>9. Leads(turn, pending', srv'.told, st) /\ ArgsBecome(Now, c, m + 1, st)
  <2>1. Leads(turn, Append(<<>>, Delta(c, d)), srv'.told, st)
    BY <1>4, <1>5, <1>7, <1>8, AddDelta
  <2>2. Append(<<>>, Delta(c, d)) = <<Delta(c, d)>>
    OBVIOUS
  <2>3. ArgsBecome(Now, c, m + 1, st)
    BY <1>4, <1>7, Becoming
  <2>. QED
    BY <1>2, <1>8, <2>1, <2>2, <2>3
<1>. HIDE DEF st
<1>10. /\ st \in After
       /\ st.args[c] = m + 1 /\ \A e \in Calls \ {c} : st.args[e] = Given(e)
       /\ st.tool = turn.tool /\ st.call = turn.call
       /\ st.text = srv.said /\ st.stop = "none"
  BY <1>7, <1>9 DEF ArgsBecome, SameCalls, SameTools, SameEnd
<1>11. \A e \in Calls : Given(e)' = st.args[e]
  BY <1>2, <1>6, <1>8, <1>10 DEF Given
<1>12. /\ StreamInv' /\ pending' \in Seq(Event)
       /\ \A e \in Calls : CallNow(e)' = st.call[e]
       /\ \A s \in Tools : ToolNow(s)' = st.tool[s]
       /\ IsOver' <=> st.stop # "none"
  <2>1. \A e \in Calls : srv'.wire[e] = "unseen" <=> st.call[e] = "unseen"
    BY <1>3, <1>6, <1>10 DEF StreamInv
  <2>2. \A e \in Calls : srv'.wire[e] = "unseen" => st.args[e] = 0
    BY <1>2, <1>3, <1>6, <1>10 DEF StreamInv
  <2>3. srv'.told \notin Finishes
    BY <1>2, <1>6 DEF Unsaid, Finishes
  <2>4. dec'.whole = {}
    BY <1>2, <1>8
  <2>. QED
    BY <1>1, <1>6, <1>9, <1>10, <1>11, <2>1, <2>2, <2>3, <2>4, FrameStream
<1>13. AnthropicInv'
  <2>1. Unsaid'
    BY <1>2, <1>6 DEF Unsaid
  <2>. QED
    BY <1>2, <1>3, <1>6, <1>10, <1>12, <2>1 DEF AnthropicInv
<1>14. dec' \in DecType
  BY <1>2, <1>3 DEF TypeInv
<1>. QED
  BY <1>1, <1>6, <1>12, <1>13, <1>14, AfterFrame DEF AdapterInv

LEMMA Reading ==
    ASSUME StreamsInv, NEW a, Reads(a)
    PROVE  /\ place = "reading" /\ pending = <<>> /\ ~drained
           /\ adapter = a /\ adapter' = a /\ drained' = drained /\ turn' = turn
           /\ TypeInv /\ StreamInv /\ AdapterInv
           /\ \A c : CallNow(c) = turn.call[c]
           /\ \A s : ToolNow(s) = turn.tool[s]
           /\ IsOver <=> turn.outcome # "open"
           /\ Unsaid => turn.outcome = "open"
  BY Quiet DEF Reads, opening

\* What is known of the expectations a frame starts from.
LEMMA Starting ==
    ASSUME StreamsInv, NEW a, Reads(a), turn.outcome = "open", NEW told
    PROVE  /\ Now \in After
           /\ Leads(turn, <<>>, told, Now)
           /\ Now.call = turn.call /\ Now.tool = turn.tool
           /\ \A c \in Calls : Now.args[c] = Given(c)
           /\ Now.text = srv.said /\ Now.fed = {} /\ Now.stop = "none"
  BY Reading, QuietLeads

LEMMA BlockStopStep ==
    ASSUME StreamsInv, NEW c \in Calls, BlockStop(c)
    PROVE  StreamsInv'
<1>. DEFINE st == WithCall(Now, c, "ended")
<1>1. /\ Reads("anthropic") /\ Unsaid /\ srv.wire[c] = "open"
      /\ srv' = [srv EXCEPT !.wire[c] = "closed"]
      /\ dec' = [dec EXCEPT !.blocks = @ \ {c}]
      /\ pending' = IF c \in dec.blocks THEN <<End(c)>> ELSE <<>>
  BY DEF BlockStop, Emits, Streaming
<1>2. /\ adapter = "anthropic" /\ adapter' = "anthropic" /\ turn' = turn
      /\ TypeInv /\ StreamInv /\ AnthropicInv
      /\ turn.outcome = "open"
      /\ \A d : CallNow(d) = turn.call[d]
      /\ \A s : ToolNow(s) = turn.tool[s]
  BY <1>1, Reading DEF AdapterInv
<1>3. /\ srv' \in SrvType
      /\ srv'.wire[c] = "closed" /\ \A d \in Calls \ {c} : srv'.wire[d] = srv.wire[d]
      /\ srv'.said = srv.said /\ srv'.sent = srv.sent /\ srv'.tool = srv.tool
      /\ srv'.told = srv.told /\ srv'.bye = srv.bye
  BY <1>1, <1>2 DEF TypeInv, SrvType
<1>4. /\ dec' \in DecType
      /\ dec'.whole = dec.whole /\ dec'.blocks = dec.blocks \ {c}
      /\ dec'.stop = dec.stop /\ dec'.done = dec.done
  BY <1>1, <1>2 DEF TypeInv, DecType
<1>5. /\ Now \in After
      /\ Leads(turn, <<>>, srv'.told, Now)
      /\ Now.call = turn.call /\ Now.tool = turn.tool
      /\ \A d \in Calls : Now.args[d] = Given(d)
      /\ Now.text = srv.said /\ Now.fed = {} /\ Now.stop = "none"
  BY <1>1, <1>2, Starting
<1>6. turn.call[c] = "streaming" /\ c \in dec.blocks
  BY <1>1, <1>2 DEF AnthropicInv
<1>7. Leads(turn, pending', srv'.told, st) /\ CallBecomes(Now, c, "ended", st)
  <2>1. Leads(turn, Append(<<>>, End(c)), srv'.told, st)
    BY <1>5, <1>6, AddEnd
  <2>2. Append(<<>>, End(c)) = <<End(c)>>
    OBVIOUS
  <2>3. CallBecomes(Now, c, "ended", st)
    BY <1>5, Becoming DEF CallStates
  <2>. QED
    BY <1>1, <1>6, <2>1, <2>2, <2>3
<1>. HIDE DEF st
<1>8. /\ st \in After
      /\ st.call[c] = "ended" /\ \A d \in Calls \ {c} : st.call[d] = turn.call[d]
      /\ st.tool = turn.tool /\ \A d \in Calls : st.args[d] = Given(d)
      /\ st.text = srv.said /\ st.stop = "none"
  BY <1>5, <1>7 DEF CallBecomes, SameArgs, SameTools, SameEnd
<1>9. \A d \in Calls : Given(d)' = Given(d)
  BY <1>3, <1>4 DEF Given
<1>10. /\ StreamInv' /\ pending' \in Seq(Event)
       /\ \A d \in Calls : CallNow(d)' = st.call[d]
       /\ \A s \in Tools : ToolNow(s)' = st.tool[s]
       /\ IsOver' <=> st.stop # "none"
  <2>1. \A d \in Calls : srv'.wire[d] = "unseen" <=> st.call[d] = "unseen"
    BY <1>2, <1>3, <1>8 DEF StreamInv
  <2>2. \A d \in Calls : Given(d)' = st.args[d]
    BY <1>8, <1>9
  <2>3. \A d \in Calls : srv'.wire[d] = "unseen" => st.args[d] = 0
    BY <1>2, <1>3, <1>8 DEF StreamInv
  <2>4. srv'.told \notin Finishes
    BY <1>1, <1>3 DEF Unsaid, Finishes
  <2>5. dec'.whole = {}
    BY <1>2, <1>4 DEF StreamInv
  <2>. QED
    BY <1>2, <1>3, <1>7, <1>8, <2>1, <2>2, <2>3, <2>4, <2>5, FrameStream
<1>11. AnthropicInv'
  <2>1. \A d \in Calls : /\ srv'.wire[d] # "done"
                         /\ srv'.wire[d] = "open" <=> CallNow(d)' = "streaming"
                         /\ srv'.wire[d] = "open" <=> d \in dec'.blocks
    BY <1>2, <1>3, <1>4, <1>8, <1>10 DEF AnthropicInv
  <2>2. Unsaid'
    BY <1>1, <1>3 DEF Unsaid
  <2>. QED
    BY <1>2, <1>3, <1>4, <1>8, <1>10, <2>1, <2>2 DEF AnthropicInv
<1>. QED
  BY <1>1, <1>2, <1>3, <1>4, <1>10, <1>11, AfterFrame DEF AdapterInv

LEMMA ServerBlockStep ==
    ASSUME StreamsInv, NEW z \in Tools, ServerBlock(z)
    PROVE  StreamsInv'
<1>1. Reads("anthropic") /\ Unsaid /\ dec' = dec
  BY DEF ServerBlock
<1>2. /\ adapter = "anthropic" /\ adapter' = "anthropic" /\ turn' = turn
      /\ TypeInv /\ StreamInv /\ AnthropicInv
      /\ turn.outcome = "open"
      /\ \A d : CallNow(d) = turn.call[d]
      /\ \A s : ToolNow(s) = turn.tool[s]
  BY <1>1, Reading DEF AdapterInv
<1>3. \E v \in {"announced", "answered"} :
        /\ pending' = IF v = "announced" THEN <<Use(z)>> ELSE <<Result(z)>>
        /\ turn.tool[z] = IF v = "announced" THEN "unseen" ELSE "announced"
        /\ srv' = [srv EXCEPT !.tool[z] = IF v = "announced" THEN {"used"}
                                          ELSE {"used", "answered"}]
  BY <1>2 DEF ServerBlock, Emits, AnthropicInv
<1>4. PICK v \in {"announced", "answered"} :
        /\ pending' = IF v = "announced" THEN <<Use(z)>> ELSE <<Result(z)>>
        /\ turn.tool[z] = IF v = "announced" THEN "unseen" ELSE "announced"
        /\ srv' = [srv EXCEPT !.tool[z] = IF v = "announced" THEN {"used"}
                                          ELSE {"used", "answered"}]
  BY <1>3
<1>. DEFINE st == WithTool(Now, z, v)
<1>5. /\ srv' \in SrvType
      /\ srv'.tool[z] = IF v = "announced" THEN {"used"} ELSE {"used", "answered"}
      /\ \A s \in Tools \ {z} : srv'.tool[s] = srv.tool[s]
      /\ srv'.said = srv.said /\ srv'.sent = srv.sent /\ srv'.wire = srv.wire
      /\ srv'.told = srv.told /\ srv'.bye = srv.bye
  BY <1>2, <1>4 DEF TypeInv, SrvType, Frames
<1>6. /\ Now \in After
      /\ Leads(turn, <<>>, srv'.told, Now)
      /\ Now.call = turn.call /\ Now.tool = turn.tool
      /\ \A d \in Calls : Now.args[d] = Given(d)
      /\ Now.text = srv.said /\ Now.fed = {} /\ Now.stop = "none"
  BY <1>1, <1>2, Starting
<1>7. Leads(turn, pending', srv'.told, st) /\ ToolBecomes(Now, z, v, st)
  <2>1. CASE v = "announced"
    <3>1. Leads(turn, Append(<<>>, Use(z)), srv'.told, st)
      BY <1>4, <1>6, <2>1, AddUse
    <3>2. Append(<<>>, Use(z)) = <<Use(z)>>
      OBVIOUS
    <3>. QED
      BY <1>4, <1>6, <2>1, <3>1, <3>2, Becoming DEF ToolStates
  <2>2. CASE v = "answered"
    <3>1. Leads(turn, Append(<<>>, Result(z)), srv'.told, st)
      BY <1>4, <1>6, <2>2, AddResult
    <3>2. Append(<<>>, Result(z)) = <<Result(z)>>
      OBVIOUS
    <3>. QED
      BY <1>4, <1>6, <2>2, <3>1, <3>2, Becoming DEF ToolStates
  <2>. QED
    BY <2>1, <2>2
<1>. HIDE DEF st
<1>8. /\ st \in After
      /\ st.tool[z] = v /\ \A s \in Tools \ {z} : st.tool[s] = turn.tool[s]
      /\ st.call = turn.call /\ \A d \in Calls : st.args[d] = Given(d)
      /\ st.text = srv.said /\ st.stop = "none"
  BY <1>6, <1>7 DEF ToolBecomes, SameArgs, SameCalls, SameEnd
<1>9. \A d \in Calls : Given(d)' = Given(d)
  BY <1>1, <1>5 DEF Given
<1>10. /\ StreamInv' /\ pending' \in Seq(Event)
       /\ \A d \in Calls : CallNow(d)' = st.call[d]
       /\ \A s \in Tools : ToolNow(s)' = st.tool[s]
       /\ IsOver' <=> st.stop # "none"
  <2>1. \A d \in Calls : srv'.wire[d] = "unseen" <=> st.call[d] = "unseen"
    BY <1>2, <1>5, <1>8 DEF StreamInv
  <2>2. \A d \in Calls : Given(d)' = st.args[d]
    BY <1>8, <1>9
  <2>3. \A d \in Calls : srv'.wire[d] = "unseen" => st.args[d] = 0
    BY <1>2, <1>5, <1>8 DEF StreamInv
  <2>4. srv'.told \notin Finishes
    BY <1>1, <1>5 DEF Unsaid, Finishes
  <2>5. dec'.whole = {}
    BY <1>1, <1>2 DEF StreamInv
  <2>. QED
    BY <1>2, <1>5, <1>7, <1>8, <2>1, <2>2, <2>3, <2>4, <2>5, FrameStream
<1>11. AnthropicInv'
  <2>1. \A s \in Tools : \/ srv'.tool[s] = {} /\ ToolNow(s)' = "unseen"
                         \/ srv'.tool[s] = {"used"} /\ ToolNow(s)' = "announced"
                         \/ srv'.tool[s] = {"used", "answered"}
    BY <1>2, <1>5, <1>8, <1>10 DEF AnthropicInv
  <2>2. Unsaid'
    BY <1>1, <1>5 DEF Unsaid
  <2>. QED
    BY <1>1, <1>2, <1>5, <1>8, <1>10, <2>1, <2>2 DEF AnthropicInv
<1>12. dec' \in DecType
  BY <1>1, <1>2 DEF TypeInv
<1>. QED
  BY <1>1, <1>2, <1>5, <1>10, <1>11, <1>12, AfterFrame DEF AdapterInv

\* What the provider says of its answer is true of what it has sent.
LEMMA Verdicts ==
    ASSUME StreamsInv, NEW a, Reads(a), a # "responses", NEW r \in Reasons, Verdict(r)
    PROVE  /\ \A c \in Calls : Given(c) = srv.sent[c]
           /\ r \in Finishes => \A c \in Calls : srv.wire[c] # "unseen" => Given(c) = Frags
           /\ r = "tool_use" => \E c \in Calls : srv.wire[c] # "unseen"
           /\ r = "end_turn" => \A c \in Calls : srv.wire[c] = "unseen"
           /\ turn.outcome = "open" /\ r # "none" /\ r \in Stops
<1>1. StreamInv /\ turn.outcome = "open" /\ dec.whole = {}
  BY Reading DEF StreamInv, Verdict
<1>2. \A c \in Calls : Given(c) = srv.sent[c]
  BY <1>1 DEF Given
<1>3. r \in Finishes => \A c \in Calls : srv.wire[c] # "unseen" => Given(c) = Frags
  BY <1>2 DEF Verdict, Complete, Begun, Finishes
<1>. QED
  BY <1>1, <1>2, <1>3 DEF Verdict, Begun, Reasons, Stops

LEMMA VerdictStream ==
    ASSUME StreamsInv, NEW a, Reads(a), a # "responses", NEW r \in Reasons, Verdict(r),
           srv' = [srv EXCEPT !.told = r],
           dec'.whole = dec.whole,
           pending' = <<>>
    PROVE  /\ srv' \in SrvType /\ StreamInv' /\ pending' \in Seq(Event)
           /\ srv'.told = r
           /\ srv'.wire = srv.wire /\ srv'.tool = srv.tool /\ srv'.bye = srv.bye
           /\ \A c \in Calls : CallNow(c)' = turn.call[c]
           /\ \A s \in Tools : ToolNow(s)' = turn.tool[s]
           /\ ~IsOver'
<1>1. /\ adapter = a /\ adapter' = a /\ turn' = turn
      /\ TypeInv /\ StreamInv
      /\ \A c : CallNow(c) = turn.call[c]
  BY Reading
<1>2. /\ \A c \in Calls : Given(c) = srv.sent[c]
      /\ r \in Finishes => \A c \in Calls : srv.wire[c] # "unseen" => Given(c) = Frags
      /\ turn.outcome = "open" /\ r # "none" /\ r \in Stops
  BY Verdicts
<1>3. /\ srv' \in SrvType
      /\ srv'.told = r
      /\ srv'.wire = srv.wire /\ srv'.tool = srv.tool /\ srv'.bye = srv.bye
      /\ srv'.said = srv.said /\ srv'.sent = srv.sent
  BY <1>1, <1>2 DEF TypeInv, SrvType, Told
<1>4. /\ Now \in After
      /\ Leads(turn, <<>>, srv'.told, Now)
      /\ Now.call = turn.call /\ Now.tool = turn.tool
      /\ \A c \in Calls : Now.args[c] = Given(c)
      /\ Now.text = srv.said /\ Now.fed = {} /\ Now.stop = "none"
  BY <1>2, Starting
<1>5. \A c \in Calls : Given(c)' = Given(c)
  BY <1>3 DEF Given
<1>6. \A c \in Calls : srv'.wire[c] = "unseen" <=> Now.call[c] = "unseen"
  BY <1>1, <1>3, <1>4 DEF StreamInv
<1>7. \A c \in Calls : srv'.wire[c] = "unseen" => Now.args[c] = 0
  BY <1>1, <1>3, <1>4 DEF StreamInv
<1>8. srv'.told \in Finishes =>
        \A c \in Calls : srv'.wire[c] # "unseen" => Now.args[c] = Frags
  BY <1>2, <1>3, <1>4
<1>9. dec'.whole = {}
  BY <1>1 DEF StreamInv
<1>10. /\ StreamInv' /\ pending' \in Seq(Event)
       /\ \A c \in Calls : CallNow(c)' = Now.call[c]
       /\ \A s \in Tools : ToolNow(s)' = Now.tool[s]
       /\ IsOver' <=> Now.stop # "none"
  <2>1. \A c \in Calls : Given(c)' = Now.args[c]
    BY <1>4, <1>5
  <2>. QED
    BY <1>1, <1>3, <1>4, <1>6, <1>7, <1>8, <1>9, <2>1, FrameStream
<1>. QED
  BY <1>3, <1>4, <1>10

LEMMA MessageDeltaStep ==
    ASSUME StreamsInv, NEW r \in Reasons, MessageDelta(r)
    PROVE  StreamsInv'
<1>1. /\ Reads("anthropic") /\ Verdict(r) /\ Streaming = {} /\ Unsaid
      /\ srv' = [srv EXCEPT !.told = r]
      /\ dec' = [dec EXCEPT !.stop = r]
      /\ pending' = <<>>
  BY DEF MessageDelta, Emits, Verdict
<1>2. /\ adapter = "anthropic" /\ adapter' = "anthropic"
      /\ TypeInv /\ AnthropicInv /\ turn.outcome = "open"
      /\ \A c : CallNow(c) = turn.call[c]
      /\ \A s : ToolNow(s) = turn.tool[s]
  BY <1>1, Reading DEF AdapterInv
<1>3. /\ dec' \in DecType
      /\ dec'.whole = dec.whole /\ dec'.blocks = dec.blocks /\ dec'.stop = r
  BY <1>1, <1>2 DEF TypeInv, DecType, Reasons, Told, Stops
<1>4. /\ srv' \in SrvType /\ StreamInv' /\ pending' \in Seq(Event)
      /\ srv'.told = r
      /\ srv'.wire = srv.wire /\ srv'.tool = srv.tool /\ srv'.bye = srv.bye
      /\ \A c \in Calls : CallNow(c)' = turn.call[c]
      /\ \A s \in Tools : ToolNow(s)' = turn.tool[s]
      /\ ~IsOver'
  BY <1>1, <1>3, VerdictStream
<1>5. AnthropicInv'
  <2>1. \A c \in Calls : srv'.wire[c] # "open"
    BY <1>1, <1>4 DEF Streaming
  <2>. QED
    BY <1>2, <1>3, <1>4, <2>1 DEF AnthropicInv
<1>. QED
  BY <1>1, <1>2, <1>3, <1>4, <1>5, AfterFrame DEF AdapterInv

\* Done, and nothing else.
LEMMA DoneStream ==
    ASSUME StreamsInv, place = "reading", pending = <<>>, ~drained,
           turn.outcome = "open", turn' = turn, adapter' = adapter,
           NEW stop \in Stops, pending' = <<Done(stop)>>,
           srv'.wire = srv.wire, srv'.said = srv.said, dec'.whole = dec.whole,
           \A c \in Calls : Given(c)' = Given(c),
           srv'.told # "none" => stop = srv'.told /\ \A c \in Calls : turn.call[c] # "streaming",
           srv'.told \in Finishes => \A c \in Calls : srv.wire[c] # "unseen" => Given(c) = Frags,
           srv'.told = "none" => drained' /\ (adapter = "responses" => stop \notin Finishes)
    PROVE  /\ StreamInv' /\ pending' \in Seq(Event)
           /\ \A c \in Calls : CallNow(c)' = turn.call[c]
           /\ \A s \in Tools : ToolNow(s)' = turn.tool[s]
           /\ IsOver'
<1>. DEFINE st == WithStop(Now, stop)
<1>1. /\ StreamInv /\ \A c : CallNow(c) = turn.call[c]
  BY Quiet
<1>2. /\ Now \in After
      /\ Leads(turn, <<>>, srv'.told, Now)
      /\ Now.call = turn.call /\ Now.tool = turn.tool
      /\ \A c \in Calls : Now.args[c] = Given(c)
      /\ Now.text = srv.said /\ Now.fed = {} /\ Now.stop = "none"
  BY QuietLeads
<1>3. Leads(turn, Append(<<>>, Done(stop)), srv'.told, st)
  BY <1>2, AddDone
<1>4. Append(<<>>, Done(stop)) = pending'
  OBVIOUS
<1>5. /\ st \in After
      /\ st.stop = stop /\ stop # "none"
      /\ st.call = turn.call /\ st.args = Now.args /\ st.text = srv.said
      /\ st.tool = turn.tool
  BY <1>2, AfterStop DEF Told, Stops
<1>. HIDE DEF st
<1>6. \A c \in Calls : srv'.wire[c] = "unseen" <=> st.call[c] = "unseen"
  BY <1>1, <1>5 DEF StreamInv
<1>7. \A c \in Calls : Given(c)' = st.args[c]
  BY <1>2, <1>5
<1>8. \A c \in Calls : srv'.wire[c] = "unseen" => st.args[c] = 0
  BY <1>1, <1>7 DEF StreamInv
<1>9. srv'.told \in Finishes => \A c \in Calls : srv'.wire[c] # "unseen" => st.args[c] = Frags
  BY <1>7
<1>10. adapter' # "responses" => dec'.whole = {}
  BY <1>1 DEF StreamInv
<1>11. /\ StreamInv' /\ pending' \in Seq(Event)
       /\ \A c \in Calls : CallNow(c)' = st.call[c]
       /\ \A s \in Tools : ToolNow(s)' = st.tool[s]
       /\ IsOver' <=> st.stop # "none"
  BY <1>3, <1>4, <1>5, <1>6, <1>7, <1>8, <1>9, <1>10, FrameStream
<1>. QED
  BY <1>5, <1>11

LEMMA MessageStopStep ==
    ASSUME StreamsInv, MessageStop
    PROVE  StreamsInv'
<1>. DEFINE stop == IF dec.stop = "none" THEN "end_turn" ELSE dec.stop
<1>1. /\ Reads("anthropic") /\ srv.told # "none" /\ ~srv.bye
      /\ srv' = [srv EXCEPT !.bye = TRUE]
      /\ dec' = [dec EXCEPT !.done = TRUE]
      /\ pending' = IF dec.done THEN <<>> ELSE <<Done(stop)>>
  BY DEF MessageStop, Emits, AnthropicFinal, Unsaid
<1>2. /\ place = "reading" /\ pending = <<>> /\ ~drained
      /\ adapter = "anthropic" /\ adapter' = "anthropic" /\ turn' = turn
      /\ TypeInv /\ StreamInv /\ AnthropicInv
      /\ IsOver <=> turn.outcome # "open"
      /\ \A c : CallNow(c) = turn.call[c]
      /\ \A s : ToolNow(s) = turn.tool[s]
  BY <1>1, Reading DEF AdapterInv
<1>3. turn.outcome = "open" /\ stop = srv.told /\ stop \in Stops
  BY <1>1, <1>2 DEF AnthropicInv, TypeInv, SrvType, Told
<1>4. /\ srv' \in SrvType
      /\ srv'.told = srv.told /\ srv'.wire = srv.wire /\ srv'.tool = srv.tool /\ srv'.bye
      /\ srv'.said = srv.said /\ srv'.sent = srv.sent
  BY <1>1, <1>2 DEF TypeInv, SrvType
<1>5. /\ dec' \in DecType /\ dec'.done
      /\ dec'.whole = dec.whole /\ dec'.blocks = dec.blocks /\ dec'.stop = dec.stop
  BY <1>1, <1>2 DEF TypeInv, DecType
<1>6. \A c \in Calls : Given(c)' = Given(c)
  BY <1>4, <1>5 DEF Given
<1>. HIDE DEF stop
<1>7. /\ StreamInv' /\ pending' \in Seq(Event)
      /\ \A c \in Calls : CallNow(c)' = CallNow(c)
      /\ \A s \in Tools : ToolNow(s)' = ToolNow(s)
  <2>1. CASE dec.done
    <3>1. pending' = <<>>
      BY <1>1, <2>1
    <3>2. /\ StreamInv'
          /\ \A c : CallNow(c)' = CallNow(c)
          /\ \A s : ToolNow(s)' = ToolNow(s)
      BY <1>2, <1>4, <1>5, <1>6, <3>1, StillStream
    <3>. QED
      BY <3>1, <3>2
  <2>2. CASE ~dec.done
    <3>1. \A c \in Calls : turn.call[c] # "streaming"
      BY <1>1, <1>2 DEF AnthropicInv, Unsaid
    <3>2. srv.told \in Finishes => \A c \in Calls : srv.wire[c] # "unseen" => Given(c) = Frags
      BY <1>2 DEF StreamInv, Begun
    <3>3. pending' = <<Done(stop)>>
      BY <1>1, <2>2
    <3>. QED
      BY <1>1, <1>2, <1>3, <1>4, <1>5, <1>6, <3>1, <3>2, <3>3, DoneStream
  <2>. QED
    BY <2>1, <2>2
<1>8. AnthropicInv'
  BY <1>2, <1>4, <1>5, <1>7 DEF AnthropicInv, Unsaid
<1>. QED
  BY <1>1, <1>2, <1>4, <1>5, <1>7, <1>8, AfterFrame DEF AdapterInv

\* An error, whatever else the frame hands over: the turn is failed when it comes.
LEMMA ErrorFrame ==
    ASSUME StreamsInv, NEW a, Reads(a), NEW rest \in Seq(Event),
           pending' = <<Error>> \o rest,
           srv' \in SrvType, dec' \in DecType,
           srv'.wire = srv.wire, srv'.said = srv.said, srv'.told = srv.told,
           srv'.sent = srv.sent, dec'.whole = dec.whole
    PROVE  StreamsInv'
<1>1. Error \in Event
  BY DEF Error, Event
<1>2. pending' \in Seq(Event) /\ pending' # <<>> /\ pending'[1] = Error
  BY <1>1
<1>3. Failing'
  BY <1>2 DEF Failing
<1>4. \A c \in Calls : Given(c)' = Given(c)
  BY DEF Given
<1>5. StreamInv'
  BY <1>2, <1>4, Reading, StillStream
<1>. QED
  BY <1>2, <1>3, <1>5, AfterFrame DEF Live

LEMMA StreamErrorStep ==
    ASSUME StreamsInv, StreamError
    PROVE  StreamsInv'
<1>1. /\ Reads("anthropic")
      /\ srv' = [srv EXCEPT !.bye = TRUE]
      /\ dec' = [dec EXCEPT !.done = TRUE]
      /\ pending' = <<Error>> \o AnthropicFinal
  BY DEF StreamError, Emits
<1>2. TypeInv
  BY <1>1, Reading
<1>3. /\ srv' \in SrvType
      /\ srv'.told = srv.told /\ srv'.wire = srv.wire
      /\ srv'.said = srv.said /\ srv'.sent = srv.sent
  BY <1>1, <1>2 DEF TypeInv, SrvType
<1>4. dec' \in DecType /\ dec'.whole = dec.whole
  BY <1>1, <1>2 DEF TypeInv, DecType
<1>5. AnthropicFinal \in Seq(Event)
  <2>1. dec.stop \in Told
    BY <1>2 DEF TypeInv, DecType
  <2>2. Done(IF dec.stop = "none" THEN "end_turn" ELSE dec.stop) \in Event
    BY <2>1 DEF Done, Event, Kinds, Told, Stops
  <2>. QED
    BY <2>2 DEF AnthropicFinal
<1>. QED
  BY <1>1, <1>3, <1>4, <1>5, ErrorFrame

LEMMA ToSetAppend ==
    ASSUME NEW T, NEW s \in Seq(T), NEW x \in T
    PROVE  /\ Append(s, x) \in Seq(T)
           /\ ToSet(Append(s, x)) = ToSet(s) \cup {x}
           /\ Append(s, x) # <<>>
           /\ Distinct(s) /\ x \notin ToSet(s) => Distinct(Append(s, x))
<1>. DEFINE q == Append(s, x)
            n == Len(s)
<1>1. /\ q \in Seq(T) /\ q # <<>> /\ n \in Nat
      /\ DOMAIN s = 1 .. n /\ DOMAIN q = 1 .. n + 1
      /\ \A i \in 1 .. n : q[i] = s[i]
      /\ q[n + 1] = x
      /\ \A i \in 1 .. n + 1 : i \in 1 .. n \/ i = n + 1
      /\ n + 1 \in 1 .. n + 1 /\ \A i \in 1 .. n : i \in 1 .. n + 1
  OBVIOUS
<1>. HIDE DEF q, n
<1>2. ToSet(q) = ToSet(s) \cup {x}
  BY <1>1 DEF ToSet
<1>3. ASSUME Distinct(s), x \notin ToSet(s) PROVE Distinct(q)
  <2>1. \A i \in 1 .. n : s[i] # x
    BY <1>1, <1>3 DEF ToSet
  <2>. QED
    BY <1>1, <1>3, <2>1 DEF Distinct
<1>. QED
  BY <1>1, <1>2, <1>3 DEF q

LEMMA NoElements ==
    ASSUME NEW T, NEW s \in Seq(T)
    PROVE  s = <<>> <=> \A x \in T : x \notin ToSet(s)
<1>1. s = <<>> => ToSet(s) = {}
  BY DEF ToSet
<1>2. ASSUME s # <<>> PROVE \E x \in T : x \in ToSet(s)
  <2>1. 1 \in DOMAIN s /\ s[1] \in T
    BY <1>2
  <2>. QED
    BY <2>1 DEF ToSet
<1>. QED
  BY <1>1, <1>2

LEMMA WholeFacts ==
    /\ Whole = Upto(Frags) /\ Whole \in Seq(Nat)
    /\ Frags \in 1 .. Frags /\ Frags \in Nat
    /\ Upto(0) \o Whole = Upto(Frags)
<1>1. Whole = Upto(Frags) /\ Whole \in Seq(Nat) /\ Frags \in 1 .. Frags /\ Frags \in Nat
  BY StreamAssumption DEF Whole, Upto
<1>2. Upto(0) = <<>> /\ <<>> \o Whole = Whole
  BY <1>1, ConcatEmptySeq DEF Upto
<1>. QED
  BY <1>1, <1>2

LEMMA TwoEvents ==
    ASSUME NEW d \in Event, NEW e \in Event
    PROVE  Append(Append(<<>>, d), e) = <<d, e>>
<1>1. Append(<<>>, d) = <<d>>
  OBVIOUS
<1>2. <<d>> \in Seq(Event) /\ <<d, e>> \in Seq(Event) /\ Len(<<d, e>>) = 2
  OBVIOUS
<1>. DEFINE q == Append(<<d>>, e)
<1>3. q \in Seq(Event) /\ Len(q) = 2 /\ q[1] = d /\ q[2] = e
  BY <1>2
<1>. HIDE DEF q
<1>4. \A i \in 1 .. Len(q) : q[i] = <<d, e>>[i]
  BY <1>3
<1>5. q = <<d, e>>
  BY <1>2, <1>3, <1>4, SeqEqual
<1>. QED
  BY <1>1, <1>5 DEF q

LEMMA ThreeEvents ==
    ASSUME NEW d \in Event, NEW e \in Event, NEW f \in Event
    PROVE  Append(Append(Append(<<>>, d), e), f) = <<d, e, f>>
<1>2. <<d, e>> \in Seq(Event) /\ <<d, e, f>> \in Seq(Event) /\ Len(<<d, e, f>>) = 3
  OBVIOUS
<1>. DEFINE q == Append(<<d, e>>, f)
<1>3. q \in Seq(Event) /\ Len(q) = 3 /\ q[1] = d /\ q[2] = e /\ q[3] = f
  BY <1>2
<1>. HIDE DEF q
<1>4. \A i \in 1 .. Len(q) : q[i] = <<d, e, f>>[i]
  BY <1>3
<1>5. q = <<d, e, f>>
  BY <1>2, <1>3, <1>4, SeqEqual
<1>. QED
  BY <1>5, TwoEvents DEF q

LEMMA FunctionCallStep ==
    ASSUME StreamsInv, NEW c \in Calls, FunctionCall(c)
    PROVE  StreamsInv'
<1>. DEFINE st1 == WithCall(Now, c, "streaming")
            st2 == WithArgs(st1, c, Frags)
            st == WithCall(st2, c, "ended")
<1>1. /\ Reads("gemini") /\ Unsaid /\ srv.wire[c] = "unseen"
      /\ srv' = [srv EXCEPT !.wire[c] = "closed", !.sent[c] = Frags]
      /\ dec' = [dec EXCEPT !.calls = Append(@, c)]
      /\ pending' = <<Start(c), Delta(c, Whole), End(c)>>
  BY DEF FunctionCall, Emits
<1>2. /\ adapter = "gemini" /\ adapter' = "gemini" /\ turn' = turn
      /\ TypeInv /\ StreamInv /\ GeminiInv
      /\ turn.outcome = "open"
      /\ \A d : CallNow(d) = turn.call[d]
      /\ \A s : ToolNow(s) = turn.tool[s]
  BY <1>1, Reading DEF AdapterInv
<1>3. /\ srv' \in SrvType
      /\ srv'.wire[c] = "closed" /\ \A d \in Calls \ {c} : srv'.wire[d] = srv.wire[d]
      /\ srv'.sent[c] = Frags /\ \A d \in Calls \ {c} : srv'.sent[d] = srv.sent[d]
      /\ srv'.said = srv.said /\ srv'.tool = srv.tool
      /\ srv'.told = srv.told /\ srv'.bye = srv.bye
  <2>1. srv \in SrvType /\ Frags \in 0 .. Frags
    BY <1>2, StreamAssumption DEF TypeInv
  <2>. QED
    BY <1>1, <2>1 DEF SrvType
<1>4. /\ dec' \in DecType
      /\ dec'.calls = Append(dec.calls, c)
      /\ dec'.whole = dec.whole /\ dec'.stop = dec.stop
  <2>1. dec \in DecType /\ dec.calls \in Seq(Calls)
    BY <1>2 DEF TypeInv, DecType
  <2>2. Append(dec.calls, c) \in Seq(Calls)
    BY <2>1
  <2>. QED
    BY <1>1, <2>1, <2>2 DEF DecType
<1>5. /\ Now \in After
      /\ Leads(turn, <<>>, srv'.told, Now)
      /\ Now.call = turn.call /\ Now.tool = turn.tool
      /\ \A d \in Calls : Now.args[d] = Given(d)
      /\ Now.text = srv.said /\ Now.fed = {} /\ Now.stop = "none"
  BY <1>1, <1>2, Starting
<1>6. turn.call[c] = "unseen" /\ Given(c) = 0 /\ dec.whole = {}
  BY <1>1, <1>2 DEF StreamInv
<1>7. Leads(turn, Append(<<>>, Start(c)), srv'.told, st1) /\ CallBecomes(Now, c, "streaming", st1)
  BY <1>5, <1>6, AddStart, Becoming DEF CallStates
<1>. HIDE DEF st1
<1>8. /\ st1 \in After
      /\ st1.call[c] = "streaming" /\ \A d \in Calls \ {c} : st1.call[d] = turn.call[d]
      /\ st1.tool = turn.tool /\ \A d \in Calls : st1.args[d] = Given(d)
      /\ st1.text = srv.said /\ st1.fed = {} /\ st1.stop = "none"
  BY <1>5, <1>7 DEF CallBecomes, SameArgs, SameTools, SameEnd
<1>9. /\ Leads(turn, Append(Append(<<>>, Start(c)), Delta(c, Whole)), srv'.told, st2)
      /\ ArgsBecome(st1, c, Frags, st2)
  <2>1. Upto(st1.args[c]) \o Whole = Upto(Frags) /\ c \notin st1.fed
    BY <1>6, <1>8, WholeFacts
  <2>. QED
    BY <1>7, <1>8, <2>1, AddDelta, Becoming, WholeFacts
<1>. HIDE DEF st2
<1>10. /\ st2 \in After
       /\ st2.call = st1.call /\ st2.tool = turn.tool
       /\ st2.args[c] = Frags /\ \A d \in Calls \ {c} : st2.args[d] = Given(d)
       /\ st2.text = srv.said /\ st2.stop = "none"
  BY <1>8, <1>9 DEF ArgsBecome, SameCalls, SameTools, SameEnd
<1>11. Leads(turn, pending', srv'.told, st) /\ CallBecomes(st2, c, "ended", st)
  <2>1. Leads(turn, Append(Append(Append(<<>>, Start(c)), Delta(c, Whole)), End(c)), srv'.told, st)
    BY <1>8, <1>9, <1>10, AddEnd
  <2>2. Append(Append(Append(<<>>, Start(c)), Delta(c, Whole)), End(c)) = pending'
    <3>1. Start(c) \in Event /\ Delta(c, Whole) \in Event /\ End(c) \in Event
      BY WholeFacts DEF Start, Delta, End, Event, Kinds
    <3>. QED
      BY <1>1, <3>1, ThreeEvents
  <2>. QED
    BY <1>10, <2>1, <2>2, Becoming DEF CallStates
<1>. HIDE DEF st
<1>12. /\ st \in After
       /\ st.call[c] = "ended" /\ \A d \in Calls \ {c} : st.call[d] = turn.call[d]
       /\ st.tool = turn.tool
       /\ st.args[c] = Frags /\ \A d \in Calls \ {c} : st.args[d] = Given(d)
       /\ st.text = srv.said /\ st.stop = "none"
  BY <1>8, <1>10, <1>11 DEF CallBecomes, SameArgs, SameTools, SameEnd
<1>13. \A d \in Calls : Given(d)' = st.args[d]
  BY <1>3, <1>4, <1>6, <1>12 DEF Given
<1>14. /\ StreamInv' /\ pending' \in Seq(Event)
       /\ \A d \in Calls : CallNow(d)' = st.call[d]
       /\ \A s \in Tools : ToolNow(s)' = st.tool[s]
       /\ IsOver' <=> st.stop # "none"
  <2>1. \A d \in Calls : srv'.wire[d] = "unseen" <=> st.call[d] = "unseen"
    BY <1>2, <1>3, <1>12 DEF StreamInv
  <2>2. \A d \in Calls : srv'.wire[d] = "unseen" => st.args[d] = 0
    BY <1>2, <1>3, <1>12 DEF StreamInv
  <2>3. srv'.told \notin Finishes
    BY <1>1, <1>3 DEF Unsaid, Finishes
  <2>. QED
    BY <1>2, <1>3, <1>4, <1>6, <1>11, <1>12, <1>13, <2>1, <2>2, <2>3, FrameStream
<1>15. GeminiInv'
  <2>1. \A d \in Calls : CallNow(d)' # "streaming"
    BY <1>2, <1>12, <1>14 DEF GeminiInv
  <2>2. \A d \in Calls : d \in ToSet(dec'.calls) <=> srv'.wire[d] # "unseen"
    <3>1. dec.calls \in Seq(Calls)
      BY <1>2 DEF TypeInv, DecType
    <3>2. ToSet(dec'.calls) = ToSet(dec.calls) \cup {c}
      BY <1>4, <3>1, ToSetAppend
    <3>. QED
      BY <1>2, <1>3, <3>2 DEF GeminiInv
  <2>3. srv'.told = "none"
    BY <1>1, <1>3 DEF Unsaid
  <2>4. dec'.stop = "none"
    BY <1>1, <1>2, <1>4 DEF GeminiInv, Unsaid
  <2>. QED
    BY <1>12, <1>14, <2>1, <2>2, <2>3, <2>4 DEF GeminiInv
<1>. QED
  BY <1>1, <1>2, <1>3, <1>4, <1>14, <1>15, AfterFrame DEF AdapterInv

LEMMA FinishReasonStep ==
    ASSUME StreamsInv, NEW r \in Reasons, FinishReason(r)
    PROVE  StreamsInv'
<1>1. /\ Reads("gemini") /\ Verdict(r)
      /\ srv' = [srv EXCEPT !.told = r]
      /\ dec' = [dec EXCEPT !.stop = IF r = "tool_use" THEN "end_turn" ELSE r]
      /\ pending' = <<>>
  BY DEF FinishReason, Emits
<1>2. /\ adapter = "gemini" /\ adapter' = "gemini"
      /\ TypeInv /\ GeminiInv
      /\ \A c : CallNow(c) = turn.call[c]
  BY <1>1, Reading DEF AdapterInv
<1>3. /\ dec' \in DecType
      /\ dec'.whole = dec.whole /\ dec'.calls = dec.calls
      /\ dec'.stop = IF r = "tool_use" THEN "end_turn" ELSE r
  BY <1>1, <1>2 DEF TypeInv, DecType, Reasons, Told, Stops
<1>4. /\ srv' \in SrvType /\ StreamInv' /\ pending' \in Seq(Event)
      /\ srv'.told = r /\ srv'.wire = srv.wire
      /\ \A c \in Calls : CallNow(c)' = turn.call[c]
      /\ ~IsOver'
  BY <1>1, <1>3, VerdictStream
<1>5. dec.calls \in Seq(Calls)
  BY <1>2 DEF TypeInv, DecType
<1>6. r = "tool_use" => dec.calls # <<>>
  BY <1>1, <1>2, <1>5, Verdicts, NoElements DEF GeminiInv
<1>7. r = "end_turn" => dec.calls = <<>>
  BY <1>1, <1>2, <1>5, Verdicts, NoElements DEF GeminiInv
<1>8. GeminiInv'
  BY <1>2, <1>3, <1>4, <1>6, <1>7 DEF GeminiInv
<1>. QED
  BY <1>1, <1>2, <1>3, <1>4, <1>8, AfterFrame DEF AdapterInv

\* A fragment, of a call that begins with it or has begun.
LEMMA FragmentStream ==
    ASSUME StreamsInv, NEW a, Reads(a), a # "responses", NEW c \in Calls,
           Unsaid, srv.sent[c] # Frags,
           srv' = [srv EXCEPT !.wire[c] = "open", !.sent[c] = @ + 1],
           dec'.whole = dec.whole,
           turn.call[c] # "ended",
           pending' = (IF turn.call[c] = "unseen" THEN <<Start(c)>> ELSE <<>>)
                        \o <<Delta(c, <<srv.sent[c] + 1>>)>>
    PROVE  /\ srv' \in SrvType /\ StreamInv' /\ pending' \in Seq(Event)
           /\ srv'.wire[c] = "open" /\ \A d \in Calls \ {c} : srv'.wire[d] = srv.wire[d]
           /\ srv'.told = srv.told /\ srv'.tool = srv.tool /\ srv'.bye = srv.bye
           /\ CallNow(c)' = "streaming"
           /\ \A d \in Calls \ {c} : CallNow(d)' = turn.call[d]
           /\ \A s \in Tools : ToolNow(s)' = turn.tool[s]
           /\ ~IsOver'
<1>. DEFINE m == srv.sent[c]
            x == <<m + 1>>
            begin == IF turn.call[c] = "unseen" THEN <<Start(c)>> ELSE <<>>
            st1 == IF turn.call[c] = "unseen" THEN WithCall(Now, c, "streaming") ELSE Now
            st == WithArgs(st1, c, m + 1)
<1>1. /\ adapter = a /\ adapter' = a /\ turn' = turn
      /\ TypeInv /\ StreamInv
      /\ turn.outcome = "open"
      /\ \A d : CallNow(d) = turn.call[d]
  BY Reading
<1>2. m \in Nat /\ m + 1 \in 1 .. Frags
  <2>1. m \in 0 .. Frags /\ Frags \in Nat
    BY <1>1, StreamAssumption DEF TypeInv, SrvType
  <2>. QED
    BY <2>1
<1>3. x \in Seq(Nat) /\ Upto(m) \o x = Upto(m + 1)
  BY <1>2, OneMore
<1>4. /\ srv' \in SrvType
      /\ srv'.sent[c] = m + 1 /\ \A d \in Calls \ {c} : srv'.sent[d] = srv.sent[d]
      /\ srv'.wire[c] = "open" /\ \A d \in Calls \ {c} : srv'.wire[d] = srv.wire[d]
      /\ srv'.said = srv.said /\ srv'.tool = srv.tool
      /\ srv'.told = srv.told /\ srv'.bye = srv.bye
  <2>1. srv \in SrvType /\ m + 1 \in 0 .. Frags
    BY <1>1, <1>2 DEF TypeInv
  <2>. HIDE DEF x, begin, st1, st
  <2>. QED
    BY <2>1 DEF SrvType
<1>5. pending' = begin \o <<Delta(c, x)>>
  OBVIOUS
<1>. HIDE DEF x
<1>6. /\ Now \in After
      /\ Leads(turn, <<>>, srv'.told, Now)
      /\ Now.call = turn.call /\ Now.tool = turn.tool
      /\ \A d \in Calls : Now.args[d] = Given(d)
      /\ Now.text = srv.said /\ Now.fed = {} /\ Now.stop = "none"
  BY <1>1, Starting
<1>7. dec.whole = {} /\ Given(c) = m /\ turn.call[c] \in CallStates
  BY <1>1 DEF StreamInv, Given, TypeInv, TurnType
<1>. HIDE DEF m
<1>8. Start(c) \in Event /\ Delta(c, x) \in Event
  BY <1>3 DEF Start, Delta, Event, Kinds
<1>9. /\ begin \in Seq(Event) /\ Leads(turn, begin, srv'.told, st1)
      /\ st1 \in After
      /\ st1.call[c] = "streaming" /\ \A d \in Calls \ {c} : st1.call[d] = turn.call[d]
      /\ st1.tool = turn.tool /\ \A d \in Calls : st1.args[d] = Given(d)
      /\ st1.text = srv.said /\ st1.fed = {} /\ st1.stop = "none"
  <2>1. CASE turn.call[c] = "unseen"
    <3>1. Leads(turn, Append(<<>>, Start(c)), srv'.told, WithCall(Now, c, "streaming"))
      BY <1>6, <2>1, AddStart
    <3>2. Append(<<>>, Start(c)) = <<Start(c)>> /\ <<Start(c)>> \in Seq(Event)
      BY <1>8
    <3>3. CallBecomes(Now, c, "streaming", WithCall(Now, c, "streaming"))
      BY <1>6, Becoming DEF CallStates
    <3>4. st1 = WithCall(Now, c, "streaming") /\ begin = <<Start(c)>>
      BY <2>1
    <3>. HIDE DEF st1, begin
    <3>. QED
      BY <1>6, <3>1, <3>2, <3>3, <3>4 DEF CallBecomes, SameArgs, SameTools, SameEnd
  <2>2. CASE turn.call[c] # "unseen"
    <3>1. turn.call[c] = "streaming"
      BY <1>7, <2>2 DEF CallStates
    <3>. QED
      BY <1>6, <2>2, <3>1
  <2>. QED
    BY <2>1, <2>2
<1>. HIDE DEF begin, st1
<1>10. Leads(turn, pending', srv'.told, st) /\ ArgsBecome(st1, c, m + 1, st)
  <2>1. Leads(turn, Append(begin, Delta(c, x)), srv'.told, st)
    BY <1>2, <1>3, <1>7, <1>9, AddDelta
  <2>2. Append(begin, Delta(c, x)) = pending'
    BY <1>5, <1>8, <1>9, ConcatEvents
  <2>. QED
    BY <1>2, <1>9, <2>1, <2>2, Becoming
<1>. HIDE DEF st
<1>11. /\ st \in After
       /\ st.call[c] = "streaming" /\ \A d \in Calls \ {c} : st.call[d] = turn.call[d]
       /\ st.args[c] = m + 1 /\ \A d \in Calls \ {c} : st.args[d] = Given(d)
       /\ st.tool = turn.tool
       /\ st.text = srv.said /\ st.stop = "none"
  BY <1>9, <1>10 DEF ArgsBecome, SameCalls, SameTools, SameEnd
<1>12. \A d \in Calls : Given(d)' = st.args[d]
  BY <1>4, <1>7, <1>11 DEF Given
<1>13. \A d \in Calls : srv'.wire[d] = "unseen" <=> st.call[d] = "unseen"
  BY <1>1, <1>4, <1>11 DEF StreamInv
<1>14. \A d \in Calls : srv'.wire[d] = "unseen" => st.args[d] = 0
  BY <1>1, <1>4, <1>11 DEF StreamInv
<1>15. srv'.told \notin Finishes
  BY <1>4 DEF Unsaid, Finishes
<1>16. /\ StreamInv' /\ pending' \in Seq(Event)
       /\ \A d \in Calls : CallNow(d)' = st.call[d]
       /\ \A s \in Tools : ToolNow(s)' = st.tool[s]
       /\ IsOver' <=> st.stop # "none"
  BY <1>1, <1>4, <1>7, <1>10, <1>11, <1>12, <1>13, <1>14, <1>15, FrameStream
<1>. QED
  BY <1>4, <1>11, <1>16

LEMMA ToolCallDeltaStep ==
    ASSUME StreamsInv, NEW c \in Calls, ToolCallDelta(c)
    PROVE  StreamsInv'
<1>. DEFINE delta == <<Delta(c, <<srv.sent[c] + 1>>)>>
<1>1. /\ Reads("openai") /\ Unsaid /\ srv.sent[c] # Frags
      /\ srv' = [srv EXCEPT !.wire[c] = "open", !.sent[c] = @ + 1]
      /\ IF srv.wire[c] = "unseen"
         THEN pending' = <<Start(c)>> \o delta /\ dec' = [dec EXCEPT !.calls = Append(@, c)]
         ELSE pending' = delta /\ dec' = dec
  BY DEF ToolCallDelta, Emits, Complete
<1>2. /\ adapter = "openai" /\ adapter' = "openai"
      /\ TypeInv /\ StreamInv /\ OpenaiInv
      /\ turn.outcome = "open"
      /\ \A d : CallNow(d) = turn.call[d]
  BY <1>1, Reading DEF AdapterInv
<1>3. /\ srv.wire[c] = "unseen" <=> turn.call[c] = "unseen"
      /\ turn.call[c] # "ended"
      /\ turn.call[c] \in CallStates
  BY <1>1, <1>2 DEF StreamInv, OpenaiInv, TypeInv, TurnType
<1>4. srv.sent[c] \in Nat
  BY <1>2, StreamAssumption DEF TypeInv, SrvType
<1>5. pending' = (IF turn.call[c] = "unseen" THEN <<Start(c)>> ELSE <<>>) \o delta
  <2>1. Delta(c, <<srv.sent[c] + 1>>) \in Event
    <3>1. <<srv.sent[c] + 1>> \in Seq(Nat)
      BY <1>4
    <3>. QED
      BY <3>1 DEF Delta, Event, Kinds
  <2>2. delta \in Seq(Event)
    BY <2>1
  <2>. HIDE DEF delta
  <2>3. <<>> \o delta = delta
    BY <2>2, ConcatEmptySeq
  <2>. QED
    BY <1>1, <1>3, <2>3
<1>. DEFINE new == turn.call[c] = "unseen"
<1>6. /\ dec' \in DecType
      /\ dec'.calls = IF new THEN Append(dec.calls, c) ELSE dec.calls
      /\ dec'.whole = dec.whole /\ dec'.stop = dec.stop /\ dec'.done = dec.done
  <2>1. dec \in DecType /\ dec.calls \in Seq(Calls)
    BY <1>2 DEF TypeInv, DecType
  <2>2. Append(dec.calls, c) \in Seq(Calls)
    BY <2>1
  <2>. QED
    BY <1>1, <1>3, <2>1, <2>2 DEF DecType
<1>7. /\ srv' \in SrvType /\ StreamInv' /\ pending' \in Seq(Event)
      /\ srv'.wire[c] = "open" /\ \A d \in Calls \ {c} : srv'.wire[d] = srv.wire[d]
      /\ srv'.told = srv.told /\ srv'.tool = srv.tool /\ srv'.bye = srv.bye
      /\ CallNow(c)' = "streaming"
      /\ \A d \in Calls \ {c} : CallNow(d)' = turn.call[d]
      /\ ~IsOver'
  BY <1>1, <1>3, <1>5, <1>6, FragmentStream
<1>8. OpenaiInv'
  <2>1. dec.calls \in Seq(Calls) /\ Distinct(dec.calls)
    BY <1>2 DEF TypeInv, DecType, OpenaiInv
  <2>2. new => c \notin ToSet(dec.calls)
    BY <1>2 DEF OpenaiInv
  <2>3. ~new => c \in ToSet(dec.calls)
    BY <1>2, <1>3 DEF OpenaiInv, CallStates
  <2>4. Distinct(dec'.calls) /\ ToSet(dec'.calls) = ToSet(dec.calls) \cup {c}
    BY <1>6, <2>1, <2>2, <2>3, ToSetAppend
  <2>5. \A d \in Calls : d \in ToSet(dec'.calls) <=> CallNow(d)' = "streaming"
    BY <1>2, <1>7, <2>4 DEF OpenaiInv
  <2>6. \A d \in Calls : CallNow(d)' # "ended"
    BY <1>1, <1>2, <1>7 DEF OpenaiInv
  <2>7. Unsaid'
    BY <1>1, <1>7 DEF Unsaid
  <2>. QED
    BY <1>2, <1>6, <1>7, <2>4, <2>5, <2>6, <2>7 DEF OpenaiInv
<1>. QED
  BY <1>1, <1>2, <1>6, <1>7, <1>8, AfterFrame DEF AdapterInv

LEMMA ChoiceFinishStep ==
    ASSUME StreamsInv, NEW r \in Reasons, ChoiceFinish(r)
    PROVE  StreamsInv'
<1>. DEFINE cs == dec.calls
            st == WithClosed(Now, ToSet(cs), {})
<1>1. /\ Reads("openai") /\ Verdict(r)
      /\ srv' = [srv EXCEPT !.told = r]
      /\ dec' = [dec EXCEPT !.stop = r, !.calls = <<>>]
      /\ pending' = Ends(cs)
  BY DEF ChoiceFinish, Emits
<1>2. /\ adapter = "openai" /\ adapter' = "openai" /\ turn' = turn
      /\ TypeInv /\ StreamInv /\ OpenaiInv
      /\ \A d : CallNow(d) = turn.call[d]
  BY <1>1, Reading DEF AdapterInv
<1>3. /\ r \in Finishes => \A c \in Calls : srv.wire[c] # "unseen" => Given(c) = Frags
      /\ turn.outcome = "open" /\ r # "none" /\ r \in Stops
  BY <1>1, Verdicts
<1>4. /\ srv' \in SrvType
      /\ srv'.told = r
      /\ srv'.wire = srv.wire /\ srv'.tool = srv.tool /\ srv'.bye = srv.bye
      /\ srv'.said = srv.said /\ srv'.sent = srv.sent
  BY <1>1, <1>2, <1>3 DEF TypeInv, SrvType, Told
<1>5. /\ dec' \in DecType
      /\ dec'.calls = <<>> /\ dec'.whole = dec.whole /\ dec'.stop = r
  <2>1. dec \in DecType /\ r \in Told
    BY <1>2, <1>3 DEF TypeInv, Told
  <2>2. <<>> \in Seq(Calls)
    OBVIOUS
  <2>. HIDE DEF cs, st
  <2>. QED
    BY <1>1, <2>1, <2>2 DEF DecType
<1>6. /\ Now \in After
      /\ Leads(turn, <<>>, srv'.told, Now)
      /\ Now.call = turn.call /\ Now.tool = turn.tool
      /\ \A d \in Calls : Now.args[d] = Given(d)
      /\ Now.text = srv.said /\ Now.fed = {} /\ Now.stop = "none"
  BY <1>1, <1>3, Starting
<1>7. /\ cs \in Seq(Calls) /\ Distinct(cs)
      /\ \A d \in Calls : d \in ToSet(cs) <=> turn.call[d] = "streaming"
      /\ ToSet(cs) \subseteq Calls
  <2>1. cs \in Seq(Calls) /\ Distinct(cs)
    BY <1>2 DEF TypeInv, DecType, OpenaiInv
  <2>. QED
    BY <1>2, <2>1 DEF OpenaiInv, ToSet
<1>. HIDE DEF cs
<1>8. Leads(turn, pending', srv'.told, st) /\ Closes(Now, ToSet(cs), {}, st)
  <2>1. \A d \in ToSet(cs) : Now.call[d] = "streaming"
    BY <1>6, <1>7
  <2>2. Ends(cs) \in Seq(Event) /\ Leads(turn, <<>> \o Ends(cs), srv'.told, st)
    BY <1>6, <1>7, <2>1, AddEnds
  <2>3. <<>> \o Ends(cs) = Ends(cs)
    BY <2>2, ConcatEmptySeq
  <2>. QED
    BY <1>1, <1>6, <1>7, <2>2, <2>3, AfterClosed
<1>. HIDE DEF st
<1>9. /\ st \in After
      /\ \A d \in Calls : st.call[d] = IF d \in ToSet(cs) THEN "ended" ELSE turn.call[d]
      /\ \A d \in Calls : st.args[d] = Given(d)
      /\ st.text = srv.said /\ st.stop = "none"
  BY <1>6, <1>8 DEF Closes
<1>10. \A d \in Calls : Given(d)' = st.args[d]
  BY <1>4, <1>5, <1>9 DEF Given
<1>11. \A d \in Calls : srv'.wire[d] = "unseen" <=> st.call[d] = "unseen"
  BY <1>2, <1>4, <1>7, <1>9 DEF StreamInv
<1>12. \A d \in Calls : srv'.wire[d] = "unseen" => st.args[d] = 0
  BY <1>2, <1>4, <1>9 DEF StreamInv
<1>13. srv'.told \in Finishes => \A d \in Calls : srv'.wire[d] # "unseen" => st.args[d] = Frags
  BY <1>3, <1>4, <1>9
<1>14. dec'.whole = {}
  BY <1>2, <1>5 DEF StreamInv
<1>15. /\ StreamInv' /\ pending' \in Seq(Event)
       /\ \A d \in Calls : CallNow(d)' = st.call[d]
       /\ IsOver' <=> st.stop # "none"
  BY <1>2, <1>4, <1>8, <1>9, <1>10, <1>11, <1>12, <1>13, <1>14, FrameStream
<1>16. OpenaiInv'
  <2>1. \A d \in Calls : CallNow(d)' # "streaming"
    BY <1>7, <1>9, <1>15
  <2>2. ToSet(dec'.calls) = {} /\ Distinct(dec'.calls)
    BY <1>5 DEF ToSet, Distinct
  <2>3. ~Unsaid' /\ ~IsOver'
    BY <1>3, <1>4, <1>9, <1>15 DEF Unsaid
  <2>. QED
    BY <1>4, <1>5, <2>1, <2>2, <2>3 DEF OpenaiInv
<1>. QED
  BY <1>1, <1>2, <1>4, <1>5, <1>15, <1>16, AfterFrame DEF AdapterInv

LEMMA DoneMarkerStep ==
    ASSUME StreamsInv, DoneMarker
    PROVE  StreamsInv'
<1>. DEFINE stop == IF dec.stop = "none" THEN "end_turn" ELSE dec.stop
<1>1. /\ Reads("openai") /\ srv.told # "none" /\ ~srv.bye
      /\ srv' = [srv EXCEPT !.bye = TRUE]
      /\ dec' = [dec EXCEPT !.done = TRUE, !.calls = <<>>]
      /\ pending' = IF dec.done THEN <<>> ELSE Ends(dec.calls) \o <<Done(stop)>>
  BY DEF DoneMarker, Emits, OpenaiFinal, Unsaid
<1>2. /\ place = "reading" /\ pending = <<>> /\ ~drained
      /\ adapter = "openai" /\ adapter' = "openai" /\ turn' = turn
      /\ TypeInv /\ StreamInv /\ OpenaiInv
      /\ IsOver <=> turn.outcome # "open"
      /\ \A c : CallNow(c) = turn.call[c]
  BY <1>1, Reading DEF AdapterInv
<1>3. /\ turn.outcome = "open" /\ stop = srv.told /\ stop \in Stops
      /\ dec.calls = <<>>
      /\ \A c \in Calls : turn.call[c] # "streaming"
  <2>1. dec.calls = <<>> /\ turn.outcome = "open" /\ dec.stop = srv.told
    BY <1>1, <1>2 DEF OpenaiInv, Unsaid
  <2>2. stop = srv.told /\ stop \in Stops
    BY <1>1, <1>2, <2>1 DEF TypeInv, SrvType, Told
  <2>3. ToSet(dec.calls) = {}
    BY <2>1 DEF ToSet
  <2>. QED
    BY <1>2, <2>1, <2>2, <2>3 DEF OpenaiInv
<1>4. /\ srv' \in SrvType
      /\ srv'.told = srv.told /\ srv'.wire = srv.wire /\ srv'.tool = srv.tool /\ srv'.bye
      /\ srv'.said = srv.said /\ srv'.sent = srv.sent
  BY <1>1, <1>2 DEF TypeInv, SrvType
<1>5. /\ dec' \in DecType /\ dec'.done
      /\ dec'.whole = dec.whole /\ dec'.calls = dec.calls /\ dec'.stop = dec.stop
  BY <1>1, <1>2, <1>3 DEF TypeInv, DecType
<1>6. \A c \in Calls : Given(c)' = Given(c)
  BY <1>4, <1>5 DEF Given
<1>. HIDE DEF stop
<1>7. /\ StreamInv' /\ pending' \in Seq(Event)
      /\ \A c \in Calls : CallNow(c)' = CallNow(c)
  <2>1. CASE dec.done
    <3>1. pending' = <<>>
      BY <1>1, <2>1
    <3>2. StreamInv' /\ \A c : CallNow(c)' = CallNow(c)
      BY <1>2, <1>4, <1>5, <1>6, <3>1, StillStream
    <3>. QED
      BY <3>1, <3>2
  <2>2. CASE ~dec.done
    <3>1. srv.told \in Finishes => \A c \in Calls : srv.wire[c] # "unseen" => Given(c) = Frags
      BY <1>2 DEF StreamInv, Begun
    <3>2. Ends(dec.calls) = <<>>
      BY <1>3 DEF Ends
    <3>3. <<Done(stop)>> \in Seq(Event)
      BY <1>3 DEF Done, Event, Kinds
    <3>4. pending' = <<Done(stop)>>
      BY <1>1, <2>2, <3>2, <3>3, ConcatEmptySeq
    <3>. QED
      BY <1>1, <1>2, <1>3, <1>4, <1>5, <1>6, <3>1, <3>4, DoneStream
  <2>. QED
    BY <2>1, <2>2
<1>8. OpenaiInv'
  BY <1>1, <1>2, <1>4, <1>5, <1>7 DEF OpenaiInv, Unsaid
<1>. QED
  BY <1>1, <1>2, <1>4, <1>5, <1>7, <1>8, AfterFrame DEF AdapterInv

LEMMA ToolCallChunkStep ==
    ASSUME StreamsInv, NEW c \in Calls, NEW named \in BOOLEAN, ToolCallChunk(c, named)
    PROVE  StreamsInv'
<1>. DEFINE delta == <<Delta(c, <<srv.sent[c] + 1>>)>>
            new == c \notin ToSet(dec.calls)
<1>1. /\ Reads("grpc") /\ Unsaid /\ srv.sent[c] # Frags
      /\ srv' = [srv EXCEPT !.wire[c] = "open", !.sent[c] = @ + 1]
      /\ dec' = [dec EXCEPT !.calls = IF new THEN Append(@, c) ELSE @, !.last = <<c>>]
      /\ pending' = (IF new THEN <<Start(c)>> ELSE <<>>) \o delta
  <2>1. named \/ (dec.last = <<c>> /\ dec.last[1] = c)
    BY DEF ToolCallChunk
  <2>. QED
    BY <2>1 DEF ToolCallChunk, Emits, Complete
<1>2. /\ adapter = "grpc" /\ adapter' = "grpc"
      /\ TypeInv /\ StreamInv /\ GrpcInv
      /\ turn.outcome = "open"
      /\ \A d : CallNow(d) = turn.call[d]
      /\ \A s : ToolNow(s) = turn.tool[s]
  BY <1>1, Reading DEF AdapterInv
<1>3. /\ new <=> turn.call[c] = "unseen"
      /\ turn.call[c] # "ended"
  BY <1>2 DEF GrpcInv
<1>4. pending' = (IF turn.call[c] = "unseen" THEN <<Start(c)>> ELSE <<>>) \o delta
  <2>. HIDE DEF delta, new
  <2>. QED
    BY <1>1, <1>3
<1>5. /\ dec' \in DecType
      /\ dec'.calls = IF new THEN Append(dec.calls, c) ELSE dec.calls
      /\ dec'.whole = dec.whole /\ dec'.stop = dec.stop
      /\ dec'.noted = dec.noted /\ dec'.announced = dec.announced
  <2>1. dec \in DecType /\ dec.calls \in Seq(Calls)
    BY <1>2 DEF TypeInv, DecType
  <2>2. Append(dec.calls, c) \in Seq(Calls) /\ <<c>> \in Seq(Calls)
    BY <2>1
  <2>. HIDE DEF delta, new
  <2>. QED
    BY <1>1, <2>1, <2>2 DEF DecType
<1>6. /\ srv' \in SrvType /\ StreamInv' /\ pending' \in Seq(Event)
      /\ srv'.told = srv.told
      /\ CallNow(c)' = "streaming"
      /\ \A d \in Calls \ {c} : CallNow(d)' = turn.call[d]
      /\ \A s \in Tools : ToolNow(s)' = turn.tool[s]
      /\ ~IsOver'
  <2>. HIDE DEF new
  <2>. QED
    BY <1>1, <1>3, <1>4, <1>5, FragmentStream
<1>7. GrpcInv'
  <2>1. dec.calls \in Seq(Calls) /\ Distinct(dec.calls)
    BY <1>2 DEF TypeInv, DecType, GrpcInv
  <2>2. Distinct(dec'.calls) /\ ToSet(dec'.calls) = ToSet(dec.calls) \cup {c}
    BY <1>5, <2>1, ToSetAppend
  <2>3. \A d \in Calls : d \in ToSet(dec'.calls) <=> CallNow(d)' # "unseen"
    BY <1>2, <1>6, <2>2 DEF GrpcInv
  <2>4. \A d \in Calls : CallNow(d)' # "ended"
    BY <1>2, <1>6 DEF GrpcInv
  <2>5. \A s \in Tools : ToolNow(s)' = IF s \in dec'.announced THEN "announced" ELSE "unseen"
    BY <1>2, <1>5, <1>6 DEF GrpcInv
  <2>. QED
    BY <1>2, <1>5, <1>6, <2>2, <2>3, <2>4, <2>5 DEF GrpcInv
<1>. QED
  BY <1>1, <1>2, <1>5, <1>6, <1>7, AfterFrame DEF AdapterInv

LEMMA ServerCallChunkStep ==
    ASSUME StreamsInv, NEW z \in Tools, NEW hint \in BOOLEAN, ServerCallChunk(z, hint)
    PROVE  StreamsInv'
<1>. DEFINE known == z \in ToSet(dec.noted)
            tells == hint /\ z \notin dec.announced
            st == IF tells THEN WithTool(Now, z, "announced") ELSE Now
<1>1. /\ Reads("grpc") /\ Unsaid
      /\ srv' = [srv EXCEPT !.tool[z] = @ \cup {IF hint THEN "hinted" ELSE "noted"}]
      /\ dec' = [dec EXCEPT !.noted = IF known THEN @ ELSE Append(@, z),
                            !.announced = IF tells THEN @ \cup {z} ELSE @]
      /\ pending' = IF tells THEN <<Use(z)>> ELSE <<>>
  BY DEF ServerCallChunk, Emits
<1>2. /\ adapter = "grpc" /\ adapter' = "grpc" /\ turn' = turn
      /\ TypeInv /\ StreamInv /\ GrpcInv
      /\ turn.outcome = "open"
      /\ \A d : CallNow(d) = turn.call[d]
      /\ \A s : ToolNow(s) = turn.tool[s]
  BY <1>1, Reading DEF AdapterInv
<1>3. /\ srv' \in SrvType
      /\ srv'.said = srv.said /\ srv'.sent = srv.sent /\ srv'.wire = srv.wire
      /\ srv'.told = srv.told /\ srv'.bye = srv.bye
  <2>. DEFINE more == srv.tool[z] \cup {IF hint THEN "hinted" ELSE "noted"}
  <2>1. srv \in SrvType /\ more \in SUBSET Frames
    BY <1>2 DEF TypeInv, SrvType, Frames
  <2>2. srv' = [srv EXCEPT !.tool[z] = more]
    BY <1>1
  <2>. HIDE DEF more, known, tells, st
  <2>. QED
    BY <2>1, <2>2 DEF SrvType
<1>4. /\ dec.calls \in Seq(Calls) /\ dec.noted \in Seq(Tools) /\ Distinct(dec.noted)
      /\ dec.announced \subseteq ToSet(dec.noted)
  BY <1>2 DEF TypeInv, DecType, GrpcInv
<1>5. /\ dec' \in DecType
      /\ dec'.calls = dec.calls /\ dec'.whole = dec.whole /\ dec'.stop = dec.stop
      /\ dec'.noted = IF known THEN dec.noted ELSE Append(dec.noted, z)
      /\ dec'.announced = IF tells THEN dec.announced \cup {z} ELSE dec.announced
  <2>1. dec \in DecType /\ Append(dec.noted, z) \in Seq(Tools)
    BY <1>2, <1>4 DEF TypeInv
  <2>. HIDE DEF known, tells, st
  <2>. QED
    BY <1>1, <2>1 DEF DecType
<1>6. /\ Now \in After
      /\ Leads(turn, <<>>, srv'.told, Now)
      /\ Now.call = turn.call /\ Now.tool = turn.tool
      /\ \A d \in Calls : Now.args[d] = Given(d)
      /\ Now.text = srv.said /\ Now.fed = {} /\ Now.stop = "none"
  BY <1>1, <1>2, Starting
<1>7. /\ Leads(turn, pending', srv'.told, st)
      /\ st \in After
      /\ st.tool[z] = IF tells THEN "announced" ELSE turn.tool[z]
      /\ \A s \in Tools \ {z} : st.tool[s] = turn.tool[s]
      /\ st.call = turn.call /\ \A d \in Calls : st.args[d] = Given(d)
      /\ st.text = srv.said /\ st.stop = "none"
  <2>1. CASE tells
    <3>1. turn.tool[z] = "unseen"
      BY <1>2, <2>1 DEF GrpcInv
    <3>2. Leads(turn, Append(<<>>, Use(z)), srv'.told, WithTool(Now, z, "announced"))
      BY <1>6, <3>1, AddUse
    <3>3. Append(<<>>, Use(z)) = <<Use(z)>>
      OBVIOUS
    <3>4. ToolBecomes(Now, z, "announced", WithTool(Now, z, "announced"))
      BY <1>6, Becoming DEF ToolStates
    <3>5. st = WithTool(Now, z, "announced") /\ pending' = <<Use(z)>>
      BY <1>1, <2>1
    <3>. HIDE DEF st, tells, known
    <3>. QED
      BY <1>6, <2>1, <3>2, <3>3, <3>4, <3>5 DEF ToolBecomes, SameArgs, SameCalls, SameEnd
  <2>2. CASE ~tells
    <3>1. st = Now /\ pending' = <<>>
      BY <1>1, <2>2
    <3>. HIDE DEF st, tells, known
    <3>. QED
      BY <1>6, <2>2, <3>1
  <2>. QED
    BY <2>1, <2>2
<1>. HIDE DEF st
<1>8. \A d \in Calls : Given(d)' = st.args[d]
  BY <1>3, <1>5, <1>7 DEF Given
<1>9. \A d \in Calls : srv'.wire[d] = "unseen" <=> st.call[d] = "unseen"
  BY <1>2, <1>3, <1>7 DEF StreamInv
<1>10. \A d \in Calls : srv'.wire[d] = "unseen" => st.args[d] = 0
  BY <1>2, <1>3, <1>7 DEF StreamInv
<1>11. srv'.told \notin Finishes
  BY <1>1, <1>3 DEF Unsaid, Finishes
<1>12. dec'.whole = {}
  BY <1>2, <1>5 DEF StreamInv
<1>13. /\ StreamInv' /\ pending' \in Seq(Event)
       /\ \A d \in Calls : CallNow(d)' = st.call[d]
       /\ \A s \in Tools : ToolNow(s)' = st.tool[s]
       /\ IsOver' <=> st.stop # "none"
  BY <1>2, <1>3, <1>7, <1>8, <1>9, <1>10, <1>11, <1>12, FrameStream
<1>14. GrpcInv'
  <2>1. Distinct(dec'.noted) /\ ToSet(dec'.noted) = ToSet(dec.noted) \cup {z}
    BY <1>4, <1>5, ToSetAppend
  <2>2. dec'.announced \subseteq ToSet(dec'.noted)
    BY <1>4, <1>5, <2>1
  <2>3. \A s \in Tools : ToolNow(s)' = IF s \in dec'.announced THEN "announced" ELSE "unseen"
    BY <1>2, <1>5, <1>7, <1>13 DEF GrpcInv
  <2>. QED
    BY <1>2, <1>3, <1>5, <1>7, <1>13, <2>1, <2>2, <2>3 DEF GrpcInv
<1>. QED
  BY <1>1, <1>2, <1>3, <1>5, <1>13, <1>14, AfterFrame DEF AdapterInv

LEMMA FinishChunkStep ==
    ASSUME StreamsInv, NEW r \in Reasons, FinishChunk(r)
    PROVE  StreamsInv'
<1>1. /\ Reads("grpc") /\ Verdict(r)
      /\ srv' = [srv EXCEPT !.told = r]
      /\ dec' = [dec EXCEPT !.stop = r]
      /\ pending' = <<>>
  BY DEF FinishChunk, Emits
<1>2. /\ adapter = "grpc" /\ adapter' = "grpc"
      /\ TypeInv /\ GrpcInv
      /\ \A c : CallNow(c) = turn.call[c]
      /\ \A s : ToolNow(s) = turn.tool[s]
  BY <1>1, Reading DEF AdapterInv
<1>3. /\ dec' \in DecType
      /\ dec'.whole = dec.whole /\ dec'.calls = dec.calls /\ dec'.stop = r
      /\ dec'.noted = dec.noted /\ dec'.announced = dec.announced
  BY <1>1, <1>2 DEF TypeInv, DecType, Reasons, Told, Stops
<1>4. /\ srv' \in SrvType /\ StreamInv' /\ pending' \in Seq(Event)
      /\ srv'.told = r
      /\ \A c \in Calls : CallNow(c)' = turn.call[c]
      /\ \A s \in Tools : ToolNow(s)' = turn.tool[s]
      /\ ~IsOver'
  BY <1>1, <1>3, VerdictStream
<1>5. GrpcInv'
  BY <1>2, <1>3, <1>4 DEF GrpcInv
<1>. QED
  BY <1>1, <1>2, <1>3, <1>4, <1>5, AfterFrame DEF AdapterInv

\* The first text, or a piece more.
LEMMA TextStream ==
    ASSUME StreamsInv, NEW a, Reads(a), a # "responses", Unsaid,
           NEW d \in Seq(Nat), NEW m \in Nat,
           turn.text \o d = Upto(m),
           pending' = <<Text(d)>>,
           srv'.wire = srv.wire, srv'.sent = srv.sent, srv'.told = srv.told, srv'.said = m,
           dec'.whole = dec.whole
    PROVE  /\ StreamInv' /\ pending' \in Seq(Event)
           /\ \A c \in Calls : CallNow(c)' = turn.call[c]
           /\ \A s \in Tools : ToolNow(s)' = turn.tool[s]
           /\ ~IsOver'
<1>. DEFINE st == [Now EXCEPT !.text = m]
<1>1. /\ adapter = a /\ adapter' = a /\ turn' = turn
      /\ StreamInv /\ turn.outcome = "open"
      /\ \A c : CallNow(c) = turn.call[c]
  BY Reading
<1>2. /\ Now \in After
      /\ Leads(turn, <<>>, srv'.told, Now)
      /\ Now.call = turn.call /\ Now.tool = turn.tool
      /\ \A c \in Calls : Now.args[c] = Given(c)
      /\ Now.fed = {} /\ Now.stop = "none"
  BY <1>1, Starting
<1>3. st \in After /\ Leads(turn, pending', srv'.told, st)
  BY <1>2, AddText
<1>4. /\ st.call = turn.call /\ st.tool = turn.tool /\ st.args = Now.args
      /\ st.text = m /\ st.stop = "none"
  BY <1>2 DEF After
<1>. HIDE DEF st
<1>5. \A c \in Calls : Given(c)' = st.args[c]
  BY <1>2, <1>4 DEF Given
<1>6. \A c \in Calls : srv'.wire[c] = "unseen" <=> st.call[c] = "unseen"
  BY <1>1, <1>4 DEF StreamInv
<1>7. \A c \in Calls : srv'.wire[c] = "unseen" => st.args[c] = 0
  BY <1>1, <1>2, <1>4 DEF StreamInv
<1>8. srv'.told \notin Finishes
  BY DEF Unsaid, Finishes
<1>9. dec'.whole = {}
  BY <1>1 DEF StreamInv
<1>10. /\ StreamInv' /\ pending' \in Seq(Event)
       /\ \A c \in Calls : CallNow(c)' = st.call[c]
       /\ \A s \in Tools : ToolNow(s)' = st.tool[s]
       /\ IsOver' <=> st.stop # "none"
  BY <1>1, <1>3, <1>4, <1>5, <1>6, <1>7, <1>8, <1>9, FrameStream
<1>. QED
  BY <1>4, <1>10

LEMMA PartialTextStep ==
    ASSUME StreamsInv, PartialText
    PROVE  StreamsInv'
<1>. DEFINE m == srv.said
            d == <<m + 1>>
<1>1. /\ Reads("claude") /\ Unsaid /\ ~srv.assembled /\ m < Texts
      /\ srv' = [srv EXCEPT !.said = @ + 1]
      /\ dec' = [dec EXCEPT !.partial = TRUE]
      /\ pending' = <<Text(d)>>
  BY DEF PartialText, Emits
<1>2. /\ place = "reading" /\ pending = <<>> /\ ~drained
      /\ adapter = "claude" /\ adapter' = "claude"
      /\ TypeInv /\ StreamInv /\ ClaudeInv
      /\ \A c : CallNow(c) = turn.call[c]
  BY <1>1, Reading DEF AdapterInv
<1>3. m \in Nat /\ m + 1 \in 0 .. Texts /\ m + 1 \in Nat
  <2>1. m \in 0 .. Texts /\ Texts \in Nat
    BY <1>2, StreamAssumption DEF TypeInv, SrvType
  <2>. QED
    BY <1>1, <2>1
<1>4. d \in Seq(Nat) /\ Upto(m) \o d = Upto(m + 1)
  BY <1>3, OneMore
<1>5. turn.text = Upto(m)
  BY <1>2, Quiet
<1>6. /\ srv' \in SrvType
      /\ srv'.said = m + 1 /\ srv'.assembled = srv.assembled
      /\ srv'.wire = srv.wire /\ srv'.sent = srv.sent /\ srv'.told = srv.told
  <2>1. srv \in SrvType
    BY <1>2 DEF TypeInv
  <2>. HIDE DEF d
  <2>. QED
    BY <1>1, <1>3, <2>1 DEF SrvType
<1>. HIDE DEF d
<1>7. dec' \in DecType /\ dec'.whole = dec.whole /\ dec'.partial
  BY <1>1, <1>2 DEF TypeInv, DecType
<1>8. /\ StreamInv' /\ pending' \in Seq(Event)
      /\ \A c \in Calls : CallNow(c)' = turn.call[c]
  BY <1>1, <1>3, <1>4, <1>5, <1>6, <1>7, TextStream
<1>9. ClaudeInv'
  BY <1>1, <1>2, <1>3, <1>6, <1>7, <1>8 DEF ClaudeInv, Unsaid
<1>. QED
  BY <1>1, <1>2, <1>6, <1>7, <1>8, <1>9, AfterFrame DEF AdapterInv

LEMMA AssistantMessageStep ==
    ASSUME StreamsInv, AssistantMessage
    PROVE  StreamsInv'
<1>1. /\ Reads("claude") /\ Unsaid /\ ~srv.assembled /\ srv.said \in {0, Texts}
      /\ srv' = [srv EXCEPT !.said = Texts, !.assembled = TRUE]
      /\ pending' = IF dec.partial THEN <<>> ELSE <<Text(WholeText)>>
      /\ dec' = dec
  BY DEF AssistantMessage, Emits
<1>2. /\ place = "reading" /\ pending = <<>> /\ ~drained
      /\ adapter = "claude" /\ adapter' = "claude" /\ turn' = turn
      /\ TypeInv /\ StreamInv /\ ClaudeInv
      /\ \A c : CallNow(c) = turn.call[c]
      /\ \A s : ToolNow(s) = turn.tool[s]
  BY <1>1, Reading DEF AdapterInv
<1>3. srv.said \in 0 .. Texts /\ Texts \in Nat /\ turn.text = Upto(srv.said)
  BY <1>2, Quiet, StreamAssumption DEF TypeInv, SrvType
<1>4. /\ srv' \in SrvType
      /\ srv'.said = Texts /\ srv'.assembled
      /\ srv'.wire = srv.wire /\ srv'.sent = srv.sent /\ srv'.told = srv.told
  <2>1. srv \in SrvType /\ Texts \in 0 .. Texts
    BY <1>2, <1>3 DEF TypeInv
  <2>. QED
    BY <1>1, <2>1 DEF SrvType
<1>5. dec' \in DecType
  BY <1>1, <1>2 DEF TypeInv
<1>6. /\ StreamInv' /\ pending' \in Seq(Event)
      /\ \A c \in Calls : CallNow(c)' = turn.call[c]
  <2>1. CASE dec.partial
    <3>1. srv.said = Texts
      BY <1>1, <1>2, <1>3, <2>1 DEF ClaudeInv
    <3>2. \A c \in Calls : Given(c)' = Given(c)
      BY <1>1, <1>4 DEF Given
    <3>3. pending' = <<>>
      BY <1>1, <2>1
    <3>. QED
      BY <1>1, <1>2, <1>4, <3>1, <3>2, <3>3, StillStream
  <2>2. CASE ~dec.partial
    <3>1. srv.said = 0
      BY <1>1, <1>2, <1>3, <2>2 DEF ClaudeInv
    <3>2. WholeText \in Seq(Nat) /\ turn.text \o WholeText = Upto(Texts)
      <4>1. WholeText = Upto(Texts) /\ WholeText \in Seq(Nat)
        BY <1>3 DEF WholeText, Upto
      <4>2. turn.text = <<>>
        BY <1>3, <3>1 DEF Upto
      <4>. QED
        BY <4>1, <4>2, ConcatEmptySeq
    <3>3. pending' = <<Text(WholeText)>>
      BY <1>1, <2>2
    <3>. QED
      BY <1>1, <1>3, <1>4, <3>2, <3>3, TextStream
  <2>. QED
    BY <2>1, <2>2
<1>7. ClaudeInv'
  BY <1>1, <1>2, <1>4, <1>6 DEF ClaudeInv, Unsaid
<1>. QED
  BY <1>1, <1>2, <1>4, <1>5, <1>6, <1>7, AfterFrame DEF AdapterInv

LEMMA ResultLineStep ==
    ASSUME StreamsInv, NEW failed \in BOOLEAN, ResultLine(failed)
    PROVE  StreamsInv'
<1>. DEFINE stop == IF failed THEN "claude_cli_error" ELSE "end_turn"
<1>1. /\ Reads("claude") /\ Unsaid
      /\ srv' = [srv EXCEPT !.told = stop]
      /\ dec' = [dec EXCEPT !.done = TRUE]
      /\ pending' = <<Done(stop)>>
  BY DEF ResultLine, Emits
<1>2. stop \in Stops /\ stop # "none"
  BY DEF Stops
<1>. HIDE DEF stop
<1>3. /\ place = "reading" /\ pending = <<>> /\ ~drained
      /\ adapter = "claude" /\ adapter' = "claude" /\ turn' = turn
      /\ TypeInv /\ StreamInv /\ ClaudeInv
      /\ turn.outcome = "open"
      /\ \A c : CallNow(c) = turn.call[c]
  BY <1>1, Reading DEF AdapterInv
<1>4. /\ srv' \in SrvType
      /\ srv'.told = stop /\ srv'.assembled = srv.assembled
      /\ srv'.wire = srv.wire /\ srv'.sent = srv.sent /\ srv'.said = srv.said
  BY <1>1, <1>2, <1>3 DEF TypeInv, SrvType, Told
<1>5. dec' \in DecType /\ dec'.whole = dec.whole /\ dec'.done /\ dec'.partial = dec.partial
  BY <1>1, <1>3 DEF TypeInv, DecType
<1>6. \A c \in Calls : Given(c)' = Given(c)
  BY <1>4, <1>5 DEF Given
<1>7. \A c \in Calls : srv.wire[c] = "unseen" /\ turn.call[c] = "unseen"
  BY <1>3 DEF ClaudeInv, StreamInv
<1>8. /\ StreamInv' /\ pending' \in Seq(Event)
      /\ \A c \in Calls : CallNow(c)' = turn.call[c]
  BY <1>1, <1>2, <1>3, <1>4, <1>5, <1>6, <1>7, DoneStream
<1>9. ClaudeInv'
  BY <1>3, <1>4, <1>5, <1>8 DEF ClaudeInv
<1>. QED
  BY <1>1, <1>3, <1>4, <1>5, <1>8, <1>9, AfterFrame DEF AdapterInv

LEMMA ToSetConcat ==
    ASSUME NEW T, NEW s \in Seq(T), NEW q \in Seq(T)
    PROVE  /\ s \o q \in Seq(T)
           /\ ToSet(s \o q) = ToSet(s) \cup ToSet(q)
           /\ Distinct(s) /\ Distinct(q) /\ ToSet(s) \cap ToSet(q) = {} => Distinct(s \o q)
<1>. DEFINE h == s \o q
            m == Len(s)
            n == Len(q)
<1>1. /\ h \in Seq(T) /\ m \in Nat /\ n \in Nat
      /\ DOMAIN s = 1 .. m /\ DOMAIN q = 1 .. n /\ DOMAIN h = 1 .. m + n
      /\ \A i \in 1 .. m : h[i] = s[i]
      /\ \A i \in 1 .. n : h[m + i] = q[i]
  OBVIOUS
<1>. HIDE DEF h, m, n
<1>2. \A i \in 1 .. m + n : i \in 1 .. m \/ (i - m \in 1 .. n /\ m + (i - m) = i)
  BY <1>1
<1>3. \A i \in 1 .. n : m + i \in 1 .. m + n
  BY <1>1
<1>4. \A i \in 1 .. m : i \in 1 .. m + n
  BY <1>1
<1>5. \A i \in 1 .. m + n :
        (i \in 1 .. m /\ h[i] = s[i]) \/ (i - m \in 1 .. n /\ h[i] = q[i - m])
  BY <1>1, <1>2
<1>6. ToSet(h) = ToSet(s) \cup ToSet(q)
  <2>1. ToSet(h) \subseteq ToSet(s) \cup ToSet(q)
    BY <1>1, <1>5 DEF ToSet
  <2>2. ToSet(s) \subseteq ToSet(h)
    BY <1>1, <1>4 DEF ToSet
  <2>3. ToSet(q) \subseteq ToSet(h)
    BY <1>1, <1>3 DEF ToSet
  <2>. QED
    BY <2>1, <2>2, <2>3
<1>7. ASSUME Distinct(s), Distinct(q), ToSet(s) \cap ToSet(q) = {} PROVE Distinct(h)
  <2>1. \A i \in 1 .. m, j \in 1 .. n : s[i] # q[j]
    BY <1>1, <1>7 DEF ToSet
  <2>2. ASSUME NEW i \in 1 .. m + n, NEW j \in 1 .. m + n, h[i] = h[j] PROVE i = j
    <3>1. CASE i \in 1 .. m /\ j \in 1 .. m
      BY <1>1, <1>7, <2>2, <3>1 DEF Distinct
    <3>2. CASE i - m \in 1 .. n /\ j - m \in 1 .. n
      <4>1. h[i] = q[i - m] /\ h[j] = q[j - m]
        BY <1>1, <1>2, <3>2
      <4>2. i - m = j - m
        BY <1>1, <1>7, <2>2, <3>2, <4>1 DEF Distinct
      <4>. QED
        BY <1>1, <4>2
    <3>. QED
      BY <1>5, <2>1, <2>2, <3>1, <3>2
  <2>. QED
    BY <1>1, <2>2 DEF Distinct
<1>. QED
  BY <1>1, <1>6, <1>7 DEF h

LEMMA OneElement ==
    ASSUME NEW T, NEW x \in T
    PROVE  <<x>> \in Seq(T) /\ ToSet(<<x>>) = {x} /\ Distinct(<<x>>)
<1>1. <<x>> \in Seq(T) /\ DOMAIN <<x>> = {1} /\ <<x>>[1] = x
  OBVIOUS
<1>. QED
  BY <1>1 DEF ToSet, Distinct

\* The calls whose arguments close_function takes from the blob.
Late(d, cs, blob) == {c \in ToSet(cs) : blob /\ c \notin d.sent}

\* What close_function remembers.
Remembers(d, cs, blob, new) ==
  /\ new \in DecType
  /\ Distinct(new.calls) /\ ToSet(new.calls) = ToSet(d.calls) \cup ToSet(cs)
  /\ new.sent = d.sent \cup Late(d, cs, blob)
  /\ new.whole = d.whole \cup Late(d, cs, blob)
  /\ new.closed = d.closed \cup ToSet(cs)
  /\ new.announced = d.announced

LEMMA ClosedDecoder ==
    ASSUME NEW d \in DecType, NEW cs \in Seq(Calls), NEW blob \in BOOLEAN,
           Distinct(cs), Distinct(d.calls)
    PROVE  Remembers(d, cs, blob, Closed(d, cs, blob))
<1>. DEFINE S == ToSet(d.calls)
            rest == Without(cs, S)
            calls == d.calls \o rest
            late == Late(d, cs, blob)
            new == Closed(d, cs, blob)
<1>1. d.calls \in Seq(Calls) /\ ToSet(cs) \subseteq Calls
  BY DEF DecType, ToSet
<1>2. rest \in Seq(Calls) /\ ToSet(rest) = ToSet(cs) \ S /\ Distinct(rest)
  <2>. HIDE DEF S
  <2>. QED
    BY WithoutFacts
<1>. HIDE DEF rest
<1>3. calls \in Seq(Calls) /\ ToSet(calls) = S \cup ToSet(cs) /\ Distinct(calls)
  <2>1. ToSet(d.calls) \cap ToSet(rest) = {}
    BY <1>2
  <2>. QED
    BY <1>1, <1>2, <2>1, ToSetConcat
<1>4. late \subseteq Calls
  BY <1>1 DEF Late
<1>5. new = [d EXCEPT !.calls = calls, !.sent = @ \cup late, !.whole = @ \cup late,
                      !.closed = @ \cup ToSet(cs)]
  BY DEF Closed, rest, Late
<1>. HIDE DEF calls, late, new
<1>6. /\ new \in DecType
      /\ new.calls = calls /\ new.sent = d.sent \cup late /\ new.whole = d.whole \cup late
      /\ new.closed = d.closed \cup ToSet(cs)
      /\ new.announced = d.announced
  BY <1>1, <1>3, <1>4, <1>5 DEF DecType
<1>. QED
  BY <1>1, <1>3, <1>4, <1>6 DEF new, late, Remembers

LEMMA ItemAddedStep ==
    ASSUME StreamsInv, NEW c \in Calls, NEW blob \in BOOLEAN, ItemAdded(c, blob)
    PROVE  StreamsInv'
<1>. DEFINE st1 == WithCall(Now, c, "streaming")
            st == IF blob THEN WithArgs(st1, c, Frags) ELSE st1
<1>1. /\ Reads("responses") /\ Unsaid /\ srv.wire[c] = "unseen"
      /\ srv' = [srv EXCEPT !.wire[c] = "open"]
      /\ dec' = [dec EXCEPT !.calls = Append(@, c),
                            !.sent = IF blob THEN @ \cup {c} ELSE @,
                            !.whole = IF blob THEN @ \cup {c} ELSE @]
      /\ pending' = <<Start(c)>> \o (IF blob THEN <<Delta(c, Whole)>> ELSE <<>>)
  BY DEF ItemAdded, Emits
<1>2. /\ adapter = "responses" /\ adapter' = "responses" /\ turn' = turn
      /\ TypeInv /\ StreamInv /\ ResponsesInv
      /\ turn.outcome = "open"
      /\ \A d : CallNow(d) = turn.call[d]
      /\ \A s : ToolNow(s) = turn.tool[s]
  BY <1>1, Reading DEF AdapterInv
<1>3. /\ srv' \in SrvType
      /\ srv'.wire[c] = "open" /\ \A d \in Calls \ {c} : srv'.wire[d] = srv.wire[d]
      /\ srv'.said = srv.said /\ srv'.sent = srv.sent /\ srv'.tool = srv.tool
      /\ srv'.told = srv.told /\ srv'.bye = srv.bye
  BY <1>1, <1>2 DEF TypeInv, SrvType
<1>4. dec.calls \in Seq(Calls) /\ Distinct(dec.calls)
  BY <1>2 DEF TypeInv, DecType, ResponsesInv
<1>5. /\ dec' \in DecType
      /\ dec'.calls = Append(dec.calls, c)
      /\ dec'.sent = IF blob THEN dec.sent \cup {c} ELSE dec.sent
      /\ dec'.whole = IF blob THEN dec.whole \cup {c} ELSE dec.whole
      /\ dec'.closed = dec.closed /\ dec'.announced = dec.announced
  <2>1. dec \in DecType /\ Append(dec.calls, c) \in Seq(Calls)
    BY <1>2, <1>4 DEF TypeInv
  <2>. HIDE DEF st1, st
  <2>. QED
    BY <1>1, <2>1 DEF DecType
<1>6. /\ Now \in After
      /\ Leads(turn, <<>>, srv'.told, Now)
      /\ Now.call = turn.call /\ Now.tool = turn.tool
      /\ \A d \in Calls : Now.args[d] = Given(d)
      /\ Now.text = srv.said /\ Now.fed = {} /\ Now.stop = "none"
  BY <1>1, <1>2, Starting
<1>7. /\ turn.call[c] = "unseen" /\ Given(c) = 0 /\ c \notin dec.whole
      /\ srv.sent[c] = 0 /\ Frags > 0
  <2>1. turn.call[c] = "unseen" /\ Given(c) = 0
    BY <1>1, <1>2 DEF StreamInv
  <2>. QED
    BY <2>1, StreamAssumption DEF Given
<1>8. Leads(turn, Append(<<>>, Start(c)), srv'.told, st1) /\ CallBecomes(Now, c, "streaming", st1)
  BY <1>6, <1>7, AddStart, Becoming DEF CallStates
<1>. HIDE DEF st1
<1>9. /\ st1 \in After
      /\ st1.call[c] = "streaming" /\ \A d \in Calls \ {c} : st1.call[d] = turn.call[d]
      /\ st1.tool = turn.tool /\ \A d \in Calls : st1.args[d] = Given(d)
      /\ st1.text = srv.said /\ st1.fed = {} /\ st1.stop = "none"
  BY <1>6, <1>8 DEF CallBecomes, SameArgs, SameTools, SameEnd
<1>10. Start(c) \in Event /\ Delta(c, Whole) \in Event
  BY WholeFacts DEF Start, Delta, Event, Kinds
<1>11. /\ Leads(turn, pending', srv'.told, st)
       /\ st \in After
       /\ st.call = st1.call /\ st.tool = turn.tool
       /\ st.args[c] = IF blob THEN Frags ELSE 0
       /\ \A d \in Calls \ {c} : st.args[d] = Given(d)
       /\ st.text = srv.said /\ st.stop = "none"
  <2>1. CASE blob
    <3>1. Upto(st1.args[c]) \o Whole = Upto(Frags) /\ c \notin st1.fed
      BY <1>7, <1>9, WholeFacts
    <3>2. /\ Leads(turn, Append(Append(<<>>, Start(c)), Delta(c, Whole)), srv'.told,
                   WithArgs(st1, c, Frags))
          /\ ArgsBecome(st1, c, Frags, WithArgs(st1, c, Frags))
      BY <1>8, <1>9, <3>1, AddDelta, Becoming, WholeFacts
    <3>3. Append(Append(<<>>, Start(c)), Delta(c, Whole)) = pending'
      <4>1. Append(<<>>, Start(c)) = <<Start(c)>> /\ <<Start(c)>> \in Seq(Event)
        BY <1>10
      <4>2. pending' = <<Start(c)>> \o <<Delta(c, Whole)>>
        BY <1>1, <2>1
      <4>. QED
        BY <1>10, <4>1, <4>2, ConcatEvents
    <3>4. st = WithArgs(st1, c, Frags)
      BY <2>1
    <3>. HIDE DEF st
    <3>. QED
      BY <1>9, <2>1, <3>2, <3>3, <3>4 DEF ArgsBecome, SameCalls, SameTools, SameEnd
  <2>2. CASE ~blob
    <3>1. pending' = Append(<<>>, Start(c))
      <4>1. Append(<<>>, Start(c)) = <<Start(c)>> /\ <<Start(c)>> \in Seq(Event)
        BY <1>10
      <4>2. pending' = <<Start(c)>> \o <<>>
        BY <1>1, <2>2
      <4>. QED
        BY <4>1, <4>2, ConcatEvents
    <3>2. st = st1
      BY <2>2
    <3>. HIDE DEF st
    <3>. QED
      BY <1>7, <1>8, <1>9, <2>2, <3>1, <3>2
  <2>. QED
    BY <2>1, <2>2
<1>. HIDE DEF st
<1>12. \A d \in Calls : Given(d)' = st.args[d]
  BY <1>3, <1>5, <1>7, <1>11 DEF Given
<1>13. \A d \in Calls : srv'.wire[d] = "unseen" <=> st.call[d] = "unseen"
  BY <1>2, <1>3, <1>9, <1>11 DEF StreamInv
<1>14. \A d \in Calls : srv'.wire[d] = "unseen" => st.args[d] = 0
  BY <1>2, <1>3, <1>11 DEF StreamInv
<1>15. srv'.told \notin Finishes
  BY <1>1, <1>3 DEF Unsaid, Finishes
<1>16. /\ StreamInv' /\ pending' \in Seq(Event)
       /\ \A d \in Calls : CallNow(d)' = st.call[d]
       /\ \A s \in Tools : ToolNow(s)' = st.tool[s]
       /\ IsOver' <=> st.stop # "none"
  BY <1>2, <1>3, <1>11, <1>12, <1>13, <1>14, <1>15, FrameStream
<1>17. ResponsesInv'
  <2>1. c \notin ToSet(dec.calls)
    BY <1>2, <1>7 DEF ResponsesInv
  <2>2. Distinct(dec'.calls) /\ ToSet(dec'.calls) = ToSet(dec.calls) \cup {c}
    BY <1>4, <1>5, <2>1, ToSetAppend
  <2>3. \A d \in Calls : d \in ToSet(dec'.calls) <=> CallNow(d)' # "unseen"
    BY <1>2, <1>9, <1>11, <1>16, <2>2 DEF ResponsesInv
  <2>4. \A d \in Calls : d \in dec'.closed <=> CallNow(d)' = "ended"
    BY <1>2, <1>5, <1>7, <1>9, <1>11, <1>16 DEF ResponsesInv
  <2>5. \A d \in Calls : d \in dec'.sent <=> Given(d)' > 0
    <3>1. c \notin dec.sent
      BY <1>2, <1>7 DEF ResponsesInv
    <3>. QED
      BY <1>2, <1>5, <1>7, <1>11, <1>12, <3>1 DEF ResponsesInv
  <2>6. \A d \in Calls : srv'.wire[d] \in {"done", "closed"} => Given(d)' = Frags
    BY <1>2, <1>3, <1>11, <1>12 DEF ResponsesInv
  <2>7. \A d \in Calls : srv'.wire[d] = "open" <=> CallNow(d)' = "streaming"
    BY <1>1, <1>2, <1>3, <1>9, <1>11, <1>16 DEF ResponsesInv
  <2>8. Unsaid'
    BY <1>1, <1>3 DEF Unsaid
  <2>9. \A s \in Tools : /\ s \in dec'.announced <=> ToolNow(s)' # "unseen"
                         /\ "completed" \in srv'.tool[s] <=> ToolNow(s)' = "answered"
    BY <1>2, <1>3, <1>5, <1>11, <1>16 DEF ResponsesInv
  <2>. QED
    BY <2>2, <2>3, <2>4, <2>5, <2>6, <2>7, <2>8, <2>9 DEF ResponsesInv
<1>. QED
  BY <1>1, <1>2, <1>3, <1>5, <1>16, <1>17, AfterFrame DEF AdapterInv

LEMMA ArgumentsDeltaStep ==
    ASSUME StreamsInv, NEW c \in Calls, ArgumentsDelta(c)
    PROVE  StreamsInv'
<1>. DEFINE m == srv.sent[c]
            x == <<m + 1>>
            st == WithArgs(Now, c, m + 1)
            repeats == c \in dec.whole
<1>1. /\ Reads("responses") /\ Unsaid /\ srv.wire[c] = "open" /\ m # Frags
      /\ srv' = [srv EXCEPT !.sent[c] = @ + 1]
      /\ IF repeats THEN pending' = <<>> /\ dec' = dec
         ELSE pending' = <<Delta(c, x)>> /\ dec' = [dec EXCEPT !.sent = @ \cup {c}]
  BY DEF ArgumentsDelta, Emits, Streaming, Complete
<1>2. /\ place = "reading" /\ pending = <<>> /\ ~drained
      /\ adapter = "responses" /\ adapter' = "responses" /\ turn' = turn
      /\ TypeInv /\ StreamInv /\ ResponsesInv
      /\ turn.outcome = "open"
      /\ \A d : CallNow(d) = turn.call[d]
      /\ \A s : ToolNow(s) = turn.tool[s]
  BY <1>1, Reading DEF AdapterInv
<1>3. m \in Nat /\ m + 1 \in 1 .. Frags
  <2>1. m \in 0 .. Frags /\ Frags \in Nat
    BY <1>2, StreamAssumption DEF TypeInv, SrvType
  <2>. QED
    BY <1>1, <2>1
<1>4. x \in Seq(Nat) /\ Upto(m) \o x = Upto(m + 1)
  BY <1>3, OneMore
<1>5. /\ srv' \in SrvType
      /\ srv'.sent[c] = m + 1 /\ \A d \in Calls \ {c} : srv'.sent[d] = srv.sent[d]
      /\ srv'.said = srv.said /\ srv'.wire = srv.wire /\ srv'.tool = srv.tool
      /\ srv'.told = srv.told /\ srv'.bye = srv.bye
  <2>1. srv \in SrvType /\ m + 1 \in 0 .. Frags
    BY <1>2, <1>3 DEF TypeInv
  <2>. HIDE DEF x, st, repeats
  <2>. QED
    BY <1>1, <2>1 DEF SrvType
<1>. HIDE DEF x
<1>6. /\ dec' \in DecType
      /\ dec'.sent = IF repeats THEN dec.sent ELSE dec.sent \cup {c}
      /\ dec'.calls = dec.calls /\ dec'.whole = dec.whole /\ dec'.closed = dec.closed
      /\ dec'.announced = dec.announced
  <2>1. dec \in DecType
    BY <1>2 DEF TypeInv
  <2>. HIDE DEF m, st
  <2>2. CASE repeats
    BY <1>1, <2>1, <2>2 DEF DecType
  <2>3. CASE ~repeats
    <3>1. dec' = [dec EXCEPT !.sent = @ \cup {c}]
      BY <1>1, <2>3
    <3>. HIDE DEF repeats
    <3>. QED
      BY <2>1, <2>3, <3>1 DEF DecType
  <2>. QED
    BY <2>2, <2>3
<1>7. turn.call[c] = "streaming"
  BY <1>1, <1>2 DEF ResponsesInv
<1>8. CASE repeats
  <2>1. \A d \in Calls : Given(d)' = Given(d)
    BY <1>5, <1>6, <1>8 DEF Given
  <2>2. pending' = <<>>
    BY <1>1, <1>8
  <2>3. /\ StreamInv'
        /\ \A d : CallNow(d)' = CallNow(d)
        /\ \A s : ToolNow(s)' = ToolNow(s)
    BY <1>2, <1>5, <1>6, <2>1, <2>2, StillStream
  <2>4. Unsaid' <=> Unsaid
    BY <1>5 DEF Unsaid
  <2>5. ResponsesInv'
    BY <1>1, <1>2, <1>5, <1>6, <1>8, <2>1, <2>3, <2>4 DEF ResponsesInv
  <2>. QED
    BY <1>1, <1>2, <1>5, <1>6, <2>2, <2>3, <2>5, AfterFrame DEF AdapterInv
<1>9. CASE ~repeats
  <2>1. /\ Now \in After
        /\ Leads(turn, <<>>, srv'.told, Now)
        /\ Now.call = turn.call /\ Now.tool = turn.tool
        /\ \A d \in Calls : Now.args[d] = Given(d)
        /\ Now.text = srv.said /\ Now.fed = {} /\ Now.stop = "none"
    BY <1>1, <1>2, Starting
  <2>2. Given(c) = m /\ c \notin dec.whole
    BY <1>9 DEF Given
  <2>. HIDE DEF m, repeats
  <2>3. Leads(turn, pending', srv'.told, st) /\ ArgsBecome(Now, c, m + 1, st)
    <3>1. Leads(turn, Append(<<>>, Delta(c, x)), srv'.told, st)
      BY <1>3, <1>4, <1>7, <2>1, <2>2, AddDelta
    <3>2. Append(<<>>, Delta(c, x)) = <<Delta(c, x)>>
      OBVIOUS
    <3>. QED
      BY <1>1, <1>3, <1>9, <2>1, <3>1, <3>2, Becoming
  <2>. HIDE DEF st
  <2>4. /\ st \in After
        /\ st.args[c] = m + 1 /\ \A d \in Calls \ {c} : st.args[d] = Given(d)
        /\ st.tool = turn.tool /\ st.call = turn.call
        /\ st.text = srv.said /\ st.stop = "none"
    BY <2>1, <2>3 DEF ArgsBecome, SameCalls, SameTools, SameEnd
  <2>5. \A d \in Calls : Given(d)' = st.args[d]
    BY <1>5, <1>6, <2>2, <2>4 DEF Given
  <2>6. \A d \in Calls : srv'.wire[d] = "unseen" <=> st.call[d] = "unseen"
    BY <1>2, <1>5, <2>4 DEF StreamInv
  <2>7. \A d \in Calls : srv'.wire[d] = "unseen" => st.args[d] = 0
    BY <1>1, <1>2, <1>5, <2>4 DEF StreamInv
  <2>8. srv'.told \notin Finishes
    BY <1>1, <1>5 DEF Unsaid, Finishes
  <2>9. /\ StreamInv' /\ pending' \in Seq(Event)
        /\ \A d \in Calls : CallNow(d)' = st.call[d]
        /\ \A s \in Tools : ToolNow(s)' = st.tool[s]
        /\ IsOver' <=> st.stop # "none"
    BY <1>2, <1>5, <2>3, <2>4, <2>5, <2>6, <2>7, <2>8, FrameStream
  <2>10. ResponsesInv'
    <3>1. Unsaid' <=> Unsaid
      BY <1>5 DEF Unsaid
    <3>2. \A d \in Calls : d \in dec'.sent <=> Given(d)' > 0
      BY <1>2, <1>3, <1>6, <1>9, <2>4, <2>5 DEF ResponsesInv
    <3>3. \A d \in Calls : srv'.wire[d] \in {"done", "closed"} => Given(d)' = Frags
      BY <1>1, <1>2, <1>5, <2>4, <2>5 DEF ResponsesInv
    <3>. QED
      BY <1>1, <1>2, <1>5, <1>6, <2>4, <2>9, <3>1, <3>2, <3>3 DEF ResponsesInv
  <2>. QED
    BY <1>1, <1>2, <1>5, <1>6, <2>9, <2>10, AfterFrame DEF AdapterInv
<1>. QED
  BY <1>8, <1>9

LEMMA FlattenType ==
    ASSUME NEW T, NEW ss \in Seq(Seq(T))
    PROVE  FlattenSeq(ss) \in Seq(T)
<1>1. PICK f : f \in [0 .. Len(ss) -> Seq(T)] /\ f[Len(ss)] = FlattenSeq(ss)
  BY FlattenPrefixes
<1>2. Len(ss) \in 0 .. Len(ss)
  OBVIOUS
<1>. QED
  BY <1>1, <1>2

LEMMA CloseAllType ==
    ASSUME NEW cs \in Seq(Calls), NEW blob \in BOOLEAN
    PROVE  CloseAll(cs, blob) \in Seq(Event)
<1>1. ASSUME NEW c \in Calls PROVE CloseEvents(c, blob) \in Seq(Event)
  <2>1. Start(c) \in Event /\ End(c) \in Event /\ Delta(c, Whole) \in Event
    BY WholeFacts DEF Start, End, Delta, Event, Kinds
  <2>. DEFINE a == IF c \in ToSet(dec.calls) THEN <<>> ELSE <<Start(c)>>
              b == IF blob /\ c \notin dec.sent THEN <<Delta(c, Whole)>> ELSE <<>>
              e == IF c \in dec.closed THEN <<>> ELSE <<End(c)>>
  <2>2. a \in Seq(Event) /\ b \in Seq(Event) /\ e \in Seq(Event)
    BY <2>1
  <2>3. CloseEvents(c, blob) = (a \o b) \o e
    BY DEF CloseEvents
  <2>. HIDE DEF a, b, e
  <2>. QED
    BY <2>2, <2>3, ConcatThree
<1>. DEFINE ss == [i \in DOMAIN cs |-> CloseEvents(cs[i], blob)]
<1>2. ss \in Seq(Seq(Event))
  <2>1. DOMAIN cs = 1 .. Len(cs) /\ Len(cs) \in Nat /\ \A i \in 1 .. Len(cs) : cs[i] \in Calls
    OBVIOUS
  <2>. QED
    BY <1>1, <2>1
<1>3. CloseAll(cs, blob) = FlattenSeq(ss)
  BY DEF CloseAll
<1>. HIDE DEF ss
<1>. QED
  BY <1>2, <1>3, FlattenType

\* What the decoder of the Responses transport knows of a call, when it reads.
LEMMA ResponsesKnows ==
    ASSUME StreamsInv, Reads("responses"), Unsaid, NEW c \in Calls
    PROVE  /\ c \in ToSet(dec.calls) <=> turn.call[c] # "unseen"
           /\ c \in ToSet(dec.calls) <=> srv.wire[c] # "unseen"
           /\ c \in dec.closed <=> turn.call[c] = "ended"
           /\ c \in dec.sent <=> Given(c) # 0
           /\ c \notin dec.sent => Given(c) = 0 /\ turn.call[c] # "ended"
           /\ srv.wire[c] \in {"done", "closed"} => Given(c) = Frags
           /\ Given(c) \in 0 .. Frags /\ Frags # 0
<1>1. /\ TypeInv /\ StreamInv /\ ResponsesInv
      /\ CallNow(c) = turn.call[c]
  BY Reading DEF AdapterInv
<1>2. Given(c) \in 0 .. Frags /\ Frags \in Nat /\ Frags # 0
  BY <1>1, GivenType, StreamAssumption
<1>3. /\ c \in ToSet(dec.calls) <=> turn.call[c] # "unseen"
      /\ c \in dec.closed <=> turn.call[c] = "ended"
      /\ srv.wire[c] \in {"done", "closed"} => Given(c) = Frags
      /\ srv.wire[c] = "open" <=> turn.call[c] = "streaming"
      /\ c \in dec.sent <=> Given(c) > 0
  BY <1>1 DEF ResponsesInv
<1>4. srv.wire[c] = "unseen" <=> turn.call[c] = "unseen"
  BY <1>1 DEF StreamInv
<1>5. c \in dec.sent <=> Given(c) # 0
  BY <1>2, <1>3
<1>6. srv.wire[c] \in {"unseen", "open", "done", "closed"}
  BY <1>1 DEF TypeInv, SrvType
<1>7. c \notin dec.sent => Given(c) = 0 /\ turn.call[c] # "ended"
  BY <1>2, <1>3, <1>4, <1>5, <1>6
<1>. QED
  BY <1>2, <1>3, <1>4, <1>5, <1>7

\* function_call_arguments.done and output_item.done.
Closing(c, w) ==
  /\ Reads("responses") /\ Unsaid /\ srv.sent[c] \in {0, Frags}
  /\ srv' = [srv EXCEPT !.wire[c] = w, !.sent[c] = Frags]
  /\ dec' = Closed(dec, <<c>>, TRUE)
  /\ pending' = CloseAll(<<c>>, TRUE)

LEMMA CloseStep ==
    ASSUME StreamsInv, NEW c \in Calls, NEW w \in {"done", "closed"}, Closing(c, w)
    PROVE  StreamsInv'
<1>. DEFINE late == {d \in {c} : d \notin dec.sent}
            st == WithClosed(Now, {c}, late)
<1>0. /\ Reads("responses") /\ Unsaid /\ srv.sent[c] \in {0, Frags}
      /\ srv' = [srv EXCEPT !.wire[c] = w, !.sent[c] = Frags]
  BY DEF Closing
<1>1. /\ adapter = "responses" /\ adapter' = "responses" /\ turn' = turn
      /\ TypeInv /\ StreamInv /\ ResponsesInv
      /\ turn.outcome = "open"
      /\ \A d : CallNow(d) = turn.call[d]
      /\ \A s : ToolNow(s) = turn.tool[s]
  BY <1>0, Reading DEF AdapterInv
<1>2. /\ srv' \in SrvType
      /\ srv'.wire[c] = w /\ \A d \in Calls \ {c} : srv'.wire[d] = srv.wire[d]
      /\ srv'.sent[c] = Frags /\ \A d \in Calls \ {c} : srv'.sent[d] = srv.sent[d]
      /\ srv'.said = srv.said /\ srv'.tool = srv.tool
      /\ srv'.told = srv.told /\ srv'.bye = srv.bye
  <2>1. srv \in SrvType /\ Frags \in 0 .. Frags
    BY <1>1, StreamAssumption DEF TypeInv
  <2>. QED
    BY <1>0, <2>1 DEF SrvType
<1>3. <<c>> \in Seq(Calls) /\ ToSet(<<c>>) = {c} /\ Distinct(<<c>>)
  BY OneElement
<1>4. late \in SUBSET Calls /\ late = {d \in ToSet(<<c>>) : TRUE /\ d \notin dec.sent}
  BY <1>3
<1>5. c \in late <=> c \notin dec.sent
  OBVIOUS
<1>6. \A d \in late : d = c
  OBVIOUS
<1>. HIDE DEF late
<1>7. /\ dec' \in DecType
      /\ Distinct(dec'.calls) /\ ToSet(dec'.calls) = ToSet(dec.calls) \cup {c}
      /\ dec'.sent = dec.sent \cup late /\ dec'.whole = dec.whole \cup late
      /\ dec'.closed = dec.closed \cup {c} /\ dec'.announced = dec.announced
  <2>1. dec \in DecType /\ Distinct(dec.calls)
    BY <1>1 DEF TypeInv, ResponsesInv
  <2>. QED
    <3>1. Remembers(dec, <<c>>, TRUE, dec')
      BY <1>3, <2>1, ClosedDecoder DEF Closing
    <3>2. Late(dec, <<c>>, TRUE) = late
      BY <1>4 DEF Late
    <3>. QED
      BY <1>3, <3>1, <3>2 DEF Remembers
<1>8. /\ c \in ToSet(dec.calls) <=> turn.call[c] # "unseen"
      /\ c \in dec.closed <=> turn.call[c] = "ended"
      /\ c \in dec.sent <=> Given(c) # 0
      /\ c \notin dec.sent => Given(c) = 0 /\ turn.call[c] # "ended"
      /\ Given(c) \in 0 .. Frags /\ Frags # 0
  BY <1>0, ResponsesKnows
<1>9. c \in dec.sent => Given(c) = Frags
  BY <1>0, <1>8 DEF Given
<1>10. /\ Now \in After
       /\ Leads(turn, <<>>, srv'.told, Now)
       /\ Now.call = turn.call /\ Now.tool = turn.tool
       /\ \A d \in Calls : Now.args[d] = Given(d)
       /\ Now.text = srv.said /\ Now.fed = {} /\ Now.stop = "none"
  BY <1>0, <1>1, Starting
<1>11. Leads(turn, pending', srv'.told, st) /\ Closes(Now, {c}, late, st)
  <2>1. \A d \in ToSet(<<c>>) :
          /\ d \in ToSet(dec.calls) <=> Now.call[d] # "unseen"
          /\ d \in dec.closed <=> Now.call[d] = "ended"
          /\ TRUE /\ d \notin dec.sent => /\ Now.args[d] = 0 /\ d \notin Now.fed
                                          /\ Now.call[d] # "ended"
    BY <1>3, <1>8, <1>10
  <2>2. Leads(turn, <<>> \o CloseAll(<<c>>, TRUE), srv'.told, WithClosed(Now, ToSet(<<c>>), late))
    <3>1. <<>> \in Seq(Event)
      OBVIOUS
    <3>. QED
      BY <1>3, <1>4, <1>10, <2>1, <3>1, AddCloses
  <2>3. CloseAll(<<c>>, TRUE) \in Seq(Event)
    BY <1>3, CloseAllType
  <2>4. <<>> \o CloseAll(<<c>>, TRUE) = pending'
    BY <2>3, ConcatEmptySeq DEF Closing
  <2>. QED
    BY <1>3, <1>4, <1>10, <2>2, <2>4, AfterClosed
<1>. HIDE DEF st
<1>12. /\ st \in After
       /\ st.call[c] = "ended" /\ \A d \in Calls \ {c} : st.call[d] = turn.call[d]
       /\ st.args[c] = Frags /\ \A d \in Calls \ {c} : st.args[d] = Given(d)
       /\ st.tool = turn.tool
       /\ st.text = srv.said /\ st.stop = "none"
  BY <1>5, <1>6, <1>9, <1>10, <1>11 DEF Closes
<1>13. \A d \in Calls : Given(d)' = st.args[d]
  BY <1>2, <1>6, <1>7, <1>12 DEF Given
<1>14. \A d \in Calls : srv'.wire[d] = "unseen" <=> st.call[d] = "unseen"
  BY <1>1, <1>2, <1>12 DEF StreamInv
<1>15. \A d \in Calls : srv'.wire[d] = "unseen" => st.args[d] = 0
  BY <1>1, <1>2, <1>12 DEF StreamInv
<1>16. srv'.told \notin Finishes
  BY <1>0, <1>2 DEF Unsaid, Finishes
<1>17. /\ StreamInv' /\ pending' \in Seq(Event)
       /\ \A d \in Calls : CallNow(d)' = st.call[d]
       /\ \A s \in Tools : ToolNow(s)' = st.tool[s]
       /\ IsOver' <=> st.stop # "none"
  BY <1>1, <1>2, <1>11, <1>12, <1>13, <1>14, <1>15, <1>16, FrameStream
<1>18. ResponsesInv'
  <2>1. \A d \in Calls : d \in ToSet(dec'.calls) <=> CallNow(d)' # "unseen"
    BY <1>1, <1>7, <1>12, <1>17 DEF ResponsesInv
  <2>2. \A d \in Calls : d \in dec'.closed <=> CallNow(d)' = "ended"
    BY <1>1, <1>7, <1>12, <1>17 DEF ResponsesInv
  <2>3. \A d \in Calls : d \in dec'.sent <=> Given(d)' > 0
    <3>1. c \in dec'.sent /\ Given(c)' > 0
      BY <1>5, <1>7, <1>12, <1>13, StreamAssumption
    <3>2. \A d \in Calls \ {c} : d \in dec'.sent <=> Given(d)' > 0
      BY <1>1, <1>6, <1>7, <1>12, <1>13 DEF ResponsesInv
    <3>. QED
      BY <3>1, <3>2
  <2>4. \A d \in Calls : srv'.wire[d] \in {"done", "closed"} => Given(d)' = Frags
    BY <1>1, <1>2, <1>12, <1>13 DEF ResponsesInv
  <2>5. \A d \in Calls : srv'.wire[d] = "open" <=> CallNow(d)' = "streaming"
    BY <1>0, <1>1, <1>2, <1>12, <1>17 DEF ResponsesInv
  <2>6. Unsaid'
    BY <1>0, <1>2 DEF Unsaid
  <2>7. \A s \in Tools : /\ s \in dec'.announced <=> ToolNow(s)' # "unseen"
                         /\ "completed" \in srv'.tool[s] <=> ToolNow(s)' = "answered"
    BY <1>1, <1>2, <1>7, <1>12, <1>17 DEF ResponsesInv
  <2>. QED
    BY <1>7, <2>1, <2>2, <2>3, <2>4, <2>5, <2>6, <2>7 DEF ResponsesInv
<1>. QED
  BY <1>0, <1>1, <1>2, <1>7, <1>17, <1>18, AfterFrame DEF AdapterInv

LEMMA ArgumentsDoneStep ==
    ASSUME StreamsInv, NEW c \in Calls, ArgumentsDone(c)
    PROVE  StreamsInv'
<1>1. /\ Reads("responses") /\ Unsaid /\ srv.sent[c] \in {0, Frags}
      /\ srv' = [srv EXCEPT !.wire[c] = "done", !.sent[c] = Frags]
      /\ dec' = Closed(dec, <<c>>, TRUE)
      /\ pending' = CloseAll(<<c>>, TRUE)
  BY DEF ArgumentsDone, Streaming, Emits
<1>. QED
  BY <1>1, CloseStep DEF Closing

LEMMA ItemDoneStep ==
    ASSUME StreamsInv, NEW c \in Calls, ItemDone(c)
    PROVE  StreamsInv'
<1>1. /\ Reads("responses") /\ Unsaid /\ srv.sent[c] \in {0, Frags}
      /\ srv' = [srv EXCEPT !.wire[c] = "closed", !.sent[c] = Frags]
      /\ dec' = Closed(dec, <<c>>, TRUE)
      /\ pending' = CloseAll(<<c>>, TRUE)
  BY DEF ItemDone, Emits
<1>. QED
  BY <1>1, CloseStep DEF Closing

LEMMA ServerItemStep ==
    ASSUME StreamsInv, NEW z \in Tools, NEW frame \in {"added", "searching", "completed", "done"},
           NEW hint \in BOOLEAN, ServerItem(z, frame, hint)
    PROVE  StreamsInv'
<1>. DEFINE announces == /\ z \notin dec.announced
                         /\ frame \in {"completed", "done"} \/ hint \/ z \in dec.hinted
            completes == frame = "completed"
            said == IF announces THEN <<Use(z)>> ELSE <<>>
            st1 == IF announces THEN WithTool(Now, z, "announced") ELSE Now
            st == IF completes THEN WithTool(st1, z, "answered") ELSE st1
<1>1. /\ Reads("responses") /\ Unsaid /\ frame \notin srv.tool[z]
      /\ srv' = [srv EXCEPT !.tool[z] = @ \cup {frame}]
      /\ dec' = [dec EXCEPT !.hinted = IF hint THEN @ \cup {z} ELSE @,
                            !.announced = IF announces THEN @ \cup {z} ELSE @]
      /\ pending' = said \o (IF completes THEN <<Result(z)>> ELSE <<>>)
  BY DEF ServerItem, Emits
<1>2. /\ adapter = "responses" /\ adapter' = "responses" /\ turn' = turn
      /\ TypeInv /\ StreamInv /\ ResponsesInv
      /\ turn.outcome = "open"
      /\ \A d : CallNow(d) = turn.call[d]
      /\ \A s : ToolNow(s) = turn.tool[s]
  BY <1>1, Reading DEF AdapterInv
<1>3. /\ srv' \in SrvType
      /\ srv'.tool[z] = srv.tool[z] \cup {frame}
      /\ \A s \in Tools \ {z} : srv'.tool[s] = srv.tool[s]
      /\ srv'.said = srv.said /\ srv'.sent = srv.sent /\ srv'.wire = srv.wire
      /\ srv'.told = srv.told /\ srv'.bye = srv.bye
  <2>. DEFINE more == srv.tool[z] \cup {frame}
  <2>1. srv \in SrvType /\ more \in SUBSET Frames
    BY <1>2 DEF TypeInv, SrvType, Frames
  <2>2. srv' = [srv EXCEPT !.tool[z] = more]
    BY <1>1
  <2>. HIDE DEF more, announces, completes, st, st1, said
  <2>3. /\ srv' \in SrvType
        /\ srv'.tool[z] = more /\ \A s \in Tools \ {z} : srv'.tool[s] = srv.tool[s]
        /\ srv'.said = srv.said /\ srv'.sent = srv.sent /\ srv'.wire = srv.wire
        /\ srv'.told = srv.told /\ srv'.bye = srv.bye
    BY <2>1, <2>2 DEF SrvType
  <2>. QED
    BY <2>3 DEF more
<1>4. announces => z \notin dec.announced
  OBVIOUS
<1>5. completes => announces \/ z \in dec.announced
  OBVIOUS
<1>6. completes <=> frame = "completed"
  OBVIOUS
<1>. HIDE DEF announces, completes
<1>7. /\ dec' \in DecType
      /\ dec'.calls = dec.calls /\ dec'.whole = dec.whole /\ dec'.sent = dec.sent
      /\ dec'.closed = dec.closed
      /\ dec'.announced = IF announces THEN dec.announced \cup {z} ELSE dec.announced
  <2>1. dec \in DecType
    BY <1>2 DEF TypeInv
  <2>. HIDE DEF st, st1, said
  <2>. QED
    BY <1>1, <2>1 DEF DecType
<1>8. /\ Now \in After
      /\ Leads(turn, <<>>, srv'.told, Now)
      /\ Now.call = turn.call /\ Now.tool = turn.tool
      /\ \A d \in Calls : Now.args[d] = Given(d)
      /\ Now.text = srv.said /\ Now.fed = {} /\ Now.stop = "none"
  BY <1>1, <1>2, Starting
<1>9. /\ z \in dec.announced <=> turn.tool[z] # "unseen"
      /\ "completed" \in srv.tool[z] <=> turn.tool[z] = "answered"
      /\ turn.tool[z] \in ToolStates
  BY <1>2 DEF ResponsesInv, TypeInv, TurnType
<1>10. /\ said \in Seq(Event) /\ Leads(turn, said, srv'.told, st1)
       /\ st1 \in After
       /\ st1.tool[z] = IF announces THEN "announced" ELSE turn.tool[z]
       /\ \A s \in Tools \ {z} : st1.tool[s] = turn.tool[s]
       /\ st1.call = turn.call /\ \A d \in Calls : st1.args[d] = Given(d)
       /\ st1.text = srv.said /\ st1.stop = "none"
  <2>1. CASE announces
    <3>1. Leads(turn, Append(<<>>, Use(z)), srv'.told, WithTool(Now, z, "announced"))
      BY <1>4, <1>8, <1>9, <2>1, AddUse
    <3>2. Use(z) \in Event
      BY DEF Use, Event, Kinds
    <3>3. Append(<<>>, Use(z)) = <<Use(z)>> /\ <<Use(z)>> \in Seq(Event)
      BY <3>2, OneEvent
    <3>4. ToolBecomes(Now, z, "announced", WithTool(Now, z, "announced"))
      BY <1>8, Becoming DEF ToolStates
    <3>5. st1 = WithTool(Now, z, "announced") /\ said = <<Use(z)>>
      BY <2>1
    <3>. HIDE DEF st1, said
    <3>. QED
      BY <1>8, <2>1, <3>1, <3>3, <3>4, <3>5 DEF ToolBecomes, SameArgs, SameCalls, SameEnd
  <2>2. CASE ~announces
    <3>1. st1 = Now /\ said = <<>> /\ <<>> \in Seq(Event)
      BY <2>2
    <3>. HIDE DEF st1, said
    <3>. QED
      BY <1>8, <2>2, <3>1
  <2>. QED
    BY <2>1, <2>2
<1>. HIDE DEF st1, said
<1>11. /\ Leads(turn, pending', srv'.told, st)
       /\ st \in After
       /\ st.tool[z] = IF completes THEN "answered" ELSE st1.tool[z]
       /\ \A s \in Tools \ {z} : st.tool[s] = turn.tool[s]
       /\ st.call = turn.call /\ \A d \in Calls : st.args[d] = Given(d)
       /\ st.text = srv.said /\ st.stop = "none"
  <2>1. CASE completes
    <3>1. st1.tool[z] = "announced"
      BY <1>1, <1>5, <1>6, <1>9, <1>10, <2>1 DEF ToolStates
    <3>2. Leads(turn, Append(said, Result(z)), srv'.told, WithTool(st1, z, "answered"))
      BY <1>10, <3>1, AddResult
    <3>3. Result(z) \in Event
      BY DEF Result, Event, Kinds
    <3>4. Append(said, Result(z)) = pending'
      <4>1. pending' = said \o <<Result(z)>>
        BY <1>1, <2>1
      <4>. QED
        BY <1>10, <3>3, <4>1, ConcatEvents
    <3>5. ToolBecomes(st1, z, "answered", WithTool(st1, z, "answered"))
      BY <1>10, Becoming DEF ToolStates
    <3>6. st = WithTool(st1, z, "answered")
      BY <2>1
    <3>. HIDE DEF st
    <3>. QED
      BY <1>10, <2>1, <3>2, <3>4, <3>5, <3>6 DEF ToolBecomes, SameArgs, SameCalls, SameEnd
  <2>2. CASE ~completes
    <3>1. st = st1
      BY <2>2
    <3>2. pending' = said
      BY <1>1, <1>10, <2>2, ConcatEmptySeq
    <3>. HIDE DEF st
    <3>. QED
      BY <1>10, <2>2, <3>1, <3>2
  <2>. QED
    BY <2>1, <2>2
<1>. HIDE DEF st
<1>12. \A d \in Calls : Given(d)' = st.args[d]
  BY <1>3, <1>7, <1>11 DEF Given
<1>13. \A d \in Calls : srv'.wire[d] = "unseen" <=> st.call[d] = "unseen"
  BY <1>2, <1>3, <1>11 DEF StreamInv
<1>14. \A d \in Calls : srv'.wire[d] = "unseen" => st.args[d] = 0
  BY <1>2, <1>3, <1>11 DEF StreamInv
<1>15. srv'.told \notin Finishes
  BY <1>1, <1>3 DEF Unsaid, Finishes
<1>16. /\ StreamInv' /\ pending' \in Seq(Event)
       /\ \A d \in Calls : CallNow(d)' = st.call[d]
       /\ \A s \in Tools : ToolNow(s)' = st.tool[s]
       /\ IsOver' <=> st.stop # "none"
  BY <1>2, <1>3, <1>11, <1>12, <1>13, <1>14, <1>15, FrameStream
<1>17. ResponsesInv'
  <2>1. Unsaid' <=> Unsaid
    BY <1>3 DEF Unsaid
  <2>2. z \in dec'.announced <=> ToolNow(z)' # "unseen"
    BY <1>5, <1>7, <1>9, <1>10, <1>11, <1>16
  <2>3. "completed" \in srv'.tool[z] <=> ToolNow(z)' = "answered"
    BY <1>3, <1>4, <1>6, <1>9, <1>10, <1>11, <1>16
  <2>4. \A s \in Tools \ {z} : /\ s \in dec'.announced <=> ToolNow(s)' # "unseen"
                               /\ "completed" \in srv'.tool[s] <=> ToolNow(s)' = "answered"
    BY <1>2, <1>3, <1>7, <1>11, <1>16 DEF ResponsesInv
  <2>5. \A s \in Tools : /\ s \in dec'.announced <=> ToolNow(s)' # "unseen"
                         /\ "completed" \in srv'.tool[s] <=> ToolNow(s)' = "answered"
    BY <2>2, <2>3, <2>4
  <2>6. \A d \in Calls : CallNow(d)' = CallNow(d) /\ Given(d)' = Given(d)
    BY <1>2, <1>11, <1>12, <1>16
  <2>. QED
    BY <1>1, <1>2, <1>3, <1>7, <2>1, <2>5, <2>6 DEF ResponsesInv
<1>. QED
  BY <1>1, <1>2, <1>3, <1>7, <1>16, <1>17, AfterFrame DEF AdapterInv

LEMMA ResponseFailedStep ==
    ASSUME StreamsInv, ResponseFailed
    PROVE  StreamsInv'
<1>1. /\ Reads("responses")
      /\ srv' = [srv EXCEPT !.bye = TRUE]
      /\ dec' = [dec EXCEPT !.done = TRUE]
      /\ pending' = <<Error, Done("failed")>>
  BY DEF ResponseFailed, Emits
<1>2. TypeInv
  BY <1>1, Reading
<1>3. /\ srv' \in SrvType
      /\ srv'.told = srv.told /\ srv'.wire = srv.wire
      /\ srv'.said = srv.said /\ srv'.sent = srv.sent
  BY <1>1, <1>2 DEF TypeInv, SrvType
<1>4. dec' \in DecType /\ dec'.whole = dec.whole
  BY <1>1, <1>2 DEF TypeInv, DecType
<1>5. Error \in Event /\ Done("failed") \in Event
  BY DEF Error, Done, Event, Kinds
<1>6. <<Error>> \in Seq(Event) /\ <<Done("failed")>> \in Seq(Event)
  BY <1>5
<1>7. pending' = <<Error>> \o <<Done("failed")>>
  BY <1>1, <1>5, <1>6, OneEvent, TwoEvents, ConcatEvents
<1>. QED
  BY <1>1, <1>3, <1>4, <1>6, <1>7, ErrorFrame

\* The terminal frame: what it harvests, and the calls that are still open then.
Harvest(output) == Closed(dec, SetToSeq(output), TRUE)
Outstanding(output) == Remaining(Harvest(output))
StopOf(r) == IF r = "incomplete" THEN r ELSE IF dec'.calls # <<>> THEN "tool_use" ELSE "end_turn"

Terminates(r, output) ==
  /\ \A c \in output : srv.wire[c] # "open"
  /\ r = "incomplete" \/ Streaming = {}
  /\ srv' = [srv EXCEPT !.told = IF r = "incomplete" THEN r
                                 ELSE IF Begun \cup output = {} THEN "end_turn"
                                 ELSE "tool_use",
                        !.bye = TRUE,
                        !.wire = [c \in Calls |-> IF c \in output THEN "closed" ELSE @[c]],
                        !.sent = [c \in Calls |-> IF c \in output THEN Frags ELSE @[c]]]
  /\ dec' = [Closed(Harvest(output), Outstanding(output), FALSE) EXCEPT !.done = TRUE]
  /\ pending' = CloseAll(SetToSeq(output), TRUE) \o Ends(Outstanding(output))
                  \o <<Done(StopOf(r))>>

LEMMA TerminalOutput ==
    ASSUME NEW r, Terminal(r)
    PROVE  \E output \in SUBSET Calls : Terminates(r, output)
<1>. DEFINE whole == {c \in Calls : srv.wire[c] \in {"done", "closed"}}
<1>1. \A output \in {{}} \cup {whole \cup late : late \in SUBSET (Calls \ Begun)} :
        output \in SUBSET Calls /\ \A c \in output : srv.wire[c] # "open"
  BY DEF Begun
<1>. QED
  BY <1>1 DEF Terminal, Terminates, Harvest, Outstanding, StopOf, Emits

\* What the decoder remembers of a terminal frame.
LEMMA TerminalDecoder ==
    ASSUME StreamsInv, Reads("responses"), NEW r, NEW output \in SUBSET Calls,
           Terminates(r, output)
    PROVE  LET rest == Outstanding(output)
               late == {c \in output : c \notin dec.sent}
           IN  /\ SetToSeq(output) \in Seq(Calls) /\ Distinct(SetToSeq(output))
               /\ ToSet(SetToSeq(output)) = output
               /\ rest \in Seq(Calls) /\ Distinct(rest)
               /\ ToSet(rest) = ToSet(dec.calls) \ (dec.closed \cup output)
               /\ dec' \in DecType
               /\ Distinct(dec'.calls) /\ ToSet(dec'.calls) = ToSet(dec.calls) \cup output
               /\ dec'.sent = dec.sent \cup late /\ dec'.whole = dec.whole \cup late
               /\ dec'.closed = dec.closed \cup output \cup ToSet(rest)
               /\ dec'.announced = dec.announced /\ dec'.done
<1>. DEFINE cs == SetToSeq(output)
            har == Harvest(output)
            rest == Outstanding(output)
            new == Closed(har, rest, FALSE)
            late == {c \in output : c \notin dec.sent}
<1>1. TypeInv /\ ResponsesInv
  BY Reading DEF AdapterInv
<1>2. cs \in Seq(Calls) /\ Distinct(cs) /\ ToSet(cs) = output
  <2>1. IsFiniteSet(output)
    BY StreamAssumption, FS_Subset
  <2>. QED
    BY <2>1, SetToSeqFacts
<1>3. Remembers(dec, cs, TRUE, har)
  BY <1>1, <1>2, ClosedDecoder DEF TypeInv, ResponsesInv, Harvest
<1>4. Late(dec, cs, TRUE) = late
  BY <1>2 DEF Late
<1>. HIDE DEF cs
<1>5. rest = Without(har.calls, har.closed)
  BY DEF Outstanding, Remaining
<1>. HIDE DEF har, late
<1>6. /\ har \in DecType /\ har.calls \in Seq(Calls) /\ Distinct(har.calls)
      /\ ToSet(har.calls) = ToSet(dec.calls) \cup output
      /\ har.sent = dec.sent \cup late /\ har.whole = dec.whole \cup late
      /\ har.closed = dec.closed \cup output /\ har.announced = dec.announced
  BY <1>2, <1>3, <1>4 DEF Remembers, DecType
<1>7. /\ rest \in Seq(Calls) /\ Distinct(rest)
      /\ ToSet(rest) = ToSet(har.calls) \ har.closed
  BY <1>5, <1>6, WithoutFacts
<1>8. dec' = [new EXCEPT !.done = TRUE]
  BY DEF Terminates, har
<1>. HIDE DEF rest
<1>9. Remembers(har, rest, FALSE, new)
  BY <1>6, <1>7, ClosedDecoder
<1>10. Late(har, rest, FALSE) = {}
  BY DEF Late
<1>. HIDE DEF new
<1>11. /\ new \in DecType
       /\ Distinct(new.calls) /\ ToSet(new.calls) = ToSet(har.calls) \cup ToSet(rest)
       /\ new.sent = har.sent /\ new.whole = har.whole
       /\ new.closed = har.closed \cup ToSet(rest)
       /\ new.announced = har.announced
  BY <1>9, <1>10 DEF Remembers
<1>12. /\ dec' \in DecType
       /\ dec'.calls = new.calls /\ dec'.sent = new.sent /\ dec'.whole = new.whole
       /\ dec'.closed = new.closed /\ dec'.announced = new.announced /\ dec'.done
  BY <1>8, <1>11 DEF DecType
<1>13. ToSet(rest) = ToSet(dec.calls) \ (dec.closed \cup output)
  BY <1>6, <1>7
<1>14. ToSet(dec'.calls) = ToSet(dec.calls) \cup output
  BY <1>6, <1>11, <1>12, <1>13
<1>. QED
  BY <1>2, <1>6, <1>7, <1>11, <1>12, <1>13, <1>14 DEF rest, late, cs

LEMMA TerminalStep ==
    ASSUME StreamsInv, NEW r \in {"completed", "incomplete"}, Terminal(r)
    PROVE  StreamsInv'
<1>0. Reads("responses") /\ Unsaid
  BY DEF Terminal
<1>1. PICK output \in SUBSET Calls : Terminates(r, output)
  BY TerminalOutput
<1>. DEFINE cs == SetToSeq(output)
            rest == Outstanding(output)
            late == {c \in output : c \notin dec.sent}
            stop == StopOf(r)
            st1 == WithClosed(Now, output, late)
            st2 == WithClosed(st1, ToSet(rest), {})
            st == WithStop(st2, stop)
<1>2. /\ adapter = "responses" /\ adapter' = "responses" /\ turn' = turn
      /\ TypeInv /\ StreamInv /\ ResponsesInv
      /\ turn.outcome = "open"
      /\ \A d : CallNow(d) = turn.call[d]
      /\ \A s : ToolNow(s) = turn.tool[s]
  BY <1>0, Reading DEF AdapterInv
<1>3. /\ cs \in Seq(Calls) /\ Distinct(cs) /\ ToSet(cs) = output
      /\ rest \in Seq(Calls) /\ Distinct(rest)
      /\ ToSet(rest) = ToSet(dec.calls) \ (dec.closed \cup output)
      /\ dec' \in DecType
      /\ Distinct(dec'.calls) /\ ToSet(dec'.calls) = ToSet(dec.calls) \cup output
      /\ dec'.sent = dec.sent \cup late /\ dec'.whole = dec.whole \cup late
      /\ dec'.closed = dec.closed \cup output \cup ToSet(rest)
      /\ dec'.announced = dec.announced /\ dec'.done
  BY <1>0, <1>1, TerminalDecoder
<1>4. pending' = (CloseAll(cs, TRUE) \o Ends(rest)) \o <<Done(stop)>>
  BY <1>1 DEF Terminates
<1>5. late \subseteq output /\ late \in SUBSET Calls /\ ToSet(rest) \subseteq Calls
      /\ late = {c \in ToSet(cs) : TRUE /\ c \notin dec.sent}
      /\ (\A c \in output : c \in late <=> c \notin dec.sent)
  BY <1>3 DEF ToSet
<1>. DEFINE told == IF r = "incomplete" THEN r
                    ELSE IF Begun \cup output = {} THEN "end_turn" ELSE "tool_use"
<1>6. /\ srv' \in SrvType
      /\ srv'.told = told /\ srv'.bye
      /\ \A c \in Calls : srv'.wire[c] = IF c \in output THEN "closed" ELSE srv.wire[c]
      /\ \A c \in Calls : srv'.sent[c] = IF c \in output THEN Frags ELSE srv.sent[c]
      /\ srv'.said = srv.said /\ srv'.tool = srv.tool
  <2>. DEFINE wire == [c \in Calls |-> IF c \in output THEN "closed" ELSE srv.wire[c]]
              sent == [c \in Calls |-> IF c \in output THEN Frags ELSE srv.sent[c]]
  <2>1. srv \in SrvType /\ Frags \in 0 .. Frags
    BY <1>2, StreamAssumption DEF TypeInv
  <2>2. /\ wire \in [Calls -> {"unseen", "open", "done", "closed"}]
        /\ \A c \in Calls : wire[c] = IF c \in output THEN "closed" ELSE srv.wire[c]
    BY <2>1 DEF SrvType
  <2>3. /\ sent \in [Calls -> 0 .. Frags]
        /\ \A c \in Calls : sent[c] = IF c \in output THEN Frags ELSE srv.sent[c]
    BY <2>1 DEF SrvType
  <2>4. told \in Told
    BY DEF Told, Stops
  <2>5. srv' = [srv EXCEPT !.told = told, !.bye = TRUE, !.wire = wire, !.sent = sent]
    BY <1>1 DEF Terminates
  <2>. HIDE DEF wire, sent, told, cs, rest, late, stop, st1, st2, st
  <2>6. /\ srv' \in SrvType
        /\ srv'.told = told /\ srv'.bye
        /\ srv'.wire = wire /\ srv'.sent = sent
        /\ srv'.said = srv.said /\ srv'.tool = srv.tool
    BY <2>1, <2>2, <2>3, <2>4, <2>5 DEF SrvType
  <2>. QED
    BY <2>2, <2>3, <2>6
<1>7. \A c \in output : srv.wire[c] # "open"
  BY <1>1 DEF Terminates
<1>8. r = "incomplete" \/ \A c \in Calls : srv.wire[c] # "open"
  BY <1>0, <1>1 DEF Terminates, Streaming
<1>9. stop = told /\ stop \in Stops /\ told # "none"
  <2>1. dec'.calls \in Seq(Calls)
    BY <1>3 DEF DecType
  <2>2. \A c \in Calls : c \in ToSet(dec.calls) <=> c \in Begun
    BY <1>0, ResponsesKnows DEF Begun
  <2>3. dec'.calls = <<>> <=> \A c \in Calls : c \notin ToSet(dec'.calls)
    BY <2>1, NoElements
  <2>4. Begun \subseteq Calls
    BY DEF Begun
  <2>5. dec'.calls = <<>> <=> Begun \cup output = {}
    BY <1>3, <2>2, <2>3, <2>4
  <2>6. stop = told
    BY <2>5 DEF StopOf
  <2>. QED
    BY <2>6 DEF Stops
<1>. HIDE DEF cs, rest, late, stop, told
<1>10. \A c \in Calls :
         /\ c \in ToSet(dec.calls) <=> turn.call[c] # "unseen"
         /\ c \in ToSet(dec.calls) <=> srv.wire[c] # "unseen"
         /\ c \in dec.closed <=> turn.call[c] = "ended"
         /\ c \in dec.sent <=> Given(c) # 0
         /\ c \notin dec.sent => Given(c) = 0 /\ turn.call[c] # "ended"
         /\ srv.wire[c] \in {"done", "closed"} => Given(c) = Frags
         /\ Given(c) \in 0 .. Frags /\ Frags # 0
         /\ turn.call[c] \in CallStates
         /\ srv.wire[c] \in {"unseen", "open", "done", "closed"}
  <2>1. \A c \in Calls : /\ turn.call[c] \in CallStates
                         /\ srv.wire[c] \in {"unseen", "open", "done", "closed"}
    BY <1>2 DEF TypeInv, TurnType, SrvType
  <2>. QED
    BY <1>0, <2>1, ResponsesKnows
<1>11. /\ Now \in After
       /\ Leads(turn, <<>>, srv'.told, Now)
       /\ Now.call = turn.call /\ Now.tool = turn.tool
       /\ \A d \in Calls : Now.args[d] = Given(d)
       /\ Now.text = srv.said /\ Now.fed = {} /\ Now.stop = "none"
  BY <1>0, <1>2, Starting
<1>12. /\ CloseAll(cs, TRUE) \in Seq(Event)
       /\ Leads(turn, CloseAll(cs, TRUE), srv'.told, st1) /\ Closes(Now, output, late, st1)
  <2>1. \A d \in ToSet(cs) :
          /\ d \in ToSet(dec.calls) <=> Now.call[d] # "unseen"
          /\ d \in dec.closed <=> Now.call[d] = "ended"
          /\ TRUE /\ d \notin dec.sent => /\ Now.args[d] = 0 /\ d \notin Now.fed
                                          /\ Now.call[d] # "ended"
    BY <1>3, <1>10, <1>11
  <2>2. Leads(turn, <<>> \o CloseAll(cs, TRUE), srv'.told, WithClosed(Now, ToSet(cs), late))
    <3>1. <<>> \in Seq(Event)
      OBVIOUS
    <3>. QED
      BY <1>3, <1>5, <1>11, <2>1, <3>1, AddCloses
  <2>3. CloseAll(cs, TRUE) \in Seq(Event)
    BY <1>3, CloseAllType
  <2>. QED
    BY <1>3, <1>5, <1>11, <2>2, <2>3, ConcatEmptySeq, AfterClosed
<1>. HIDE DEF st1
<1>13. /\ st1 \in After
       /\ \A d \in Calls : st1.call[d] = IF d \in output THEN "ended" ELSE turn.call[d]
       /\ \A d \in Calls : st1.args[d] = IF d \in late THEN Frags ELSE Given(d)
       /\ st1.tool = turn.tool /\ st1.text = srv.said /\ st1.stop = "none"
  BY <1>11, <1>12 DEF Closes
<1>14. /\ Ends(rest) \in Seq(Event)
       /\ Leads(turn, CloseAll(cs, TRUE) \o Ends(rest), srv'.told, st2)
       /\ Closes(st1, ToSet(rest), {}, st2)
  <2>1. \A d \in ToSet(rest) : st1.call[d] = "streaming"
    BY <1>3, <1>5, <1>10, <1>13 DEF CallStates
  <2>. QED
    BY <1>3, <1>5, <1>12, <1>13, <2>1, AddEnds, AfterClosed
<1>. HIDE DEF st2
<1>15. /\ st2 \in After
       /\ \A d \in Calls : st2.call[d] = IF d \in output \cup ToSet(rest) THEN "ended"
                                         ELSE turn.call[d]
       /\ \A d \in Calls : st2.args[d] = IF d \in late THEN Frags ELSE Given(d)
       /\ st2.tool = turn.tool /\ st2.text = srv.said /\ st2.stop = "none"
  BY <1>13, <1>14 DEF Closes
<1>16. \A d \in Calls : /\ st2.call[d] # "streaming"
                        /\ st2.call[d] = "unseen" <=> turn.call[d] = "unseen" /\ d \notin output
                        /\ st2.call[d] = "ended" <=> d \in dec'.closed
  BY <1>3, <1>10, <1>15 DEF CallStates
<1>17. /\ Leads(turn, pending', srv'.told, st)
       /\ st \in After /\ st.stop = stop
       /\ st.call = st2.call /\ st.args = st2.args /\ st.text = srv.said /\ st.tool = turn.tool
  <2>1. Leads(turn, Append(CloseAll(cs, TRUE) \o Ends(rest), Done(stop)), srv'.told, st)
    BY <1>6, <1>9, <1>14, <1>15, <1>16, AddDone
  <2>2. Append(CloseAll(cs, TRUE) \o Ends(rest), Done(stop)) = pending'
    <3>1. Done(stop) \in Event
      BY <1>9 DEF Done, Event, Kinds
    <3>2. CloseAll(cs, TRUE) \o Ends(rest) \in Seq(Event)
      BY <1>14 DEF Leads
    <3>. QED
      BY <1>4, <3>1, <3>2, ConcatEvents
  <2>3. stop \in Told
    BY <1>9 DEF Told
  <2>. QED
    BY <1>15, <2>1, <2>2, <2>3, AfterStop
<1>. HIDE DEF st
<1>18. \A d \in Calls : st.args[d] = IF d \in output THEN Frags ELSE Given(d)
  <2>1. \A d \in output : d \notin late => Given(d) = Frags
    BY <1>5, <1>7, <1>10, <1>2 DEF StreamInv
  <2>. QED
    BY <1>5, <1>15, <1>17, <2>1
<1>19. \A d \in Calls : Given(d)' = st.args[d]
  <2>1. \A d \in output : Given(d)' = Frags
    BY <1>6 DEF Given
  <2>2. \A d \in Calls \ output : Given(d)' = Given(d)
    BY <1>3, <1>5, <1>6 DEF Given
  <2>. QED
    BY <1>18, <2>1, <2>2
<1>20. \A d \in Calls : srv'.wire[d] = "unseen" <=> st.call[d] = "unseen"
  BY <1>6, <1>10, <1>16, <1>17
<1>21. \A d \in Calls : srv'.wire[d] = "unseen" => st.args[d] = 0
  BY <1>2, <1>6, <1>18 DEF StreamInv
<1>22. srv'.told \in Finishes => \A d \in Calls : srv'.wire[d] # "unseen" => st.args[d] = Frags
  <2>1. srv'.told \in Finishes => r # "incomplete"
    BY <1>6 DEF Finishes, told
  <2>. QED
    BY <1>6, <1>8, <1>10, <1>18, <2>1
<1>23. /\ StreamInv' /\ pending' \in Seq(Event)
       /\ \A d \in Calls : CallNow(d)' = st.call[d]
       /\ \A s \in Tools : ToolNow(s)' = st.tool[s]
       /\ IsOver' <=> st.stop # "none"
  BY <1>2, <1>6, <1>9, <1>17, <1>19, <1>20, <1>21, <1>22, FrameStream
<1>24. ResponsesInv'
  <2>1. \A d \in Calls : d \in ToSet(dec'.calls) <=> CallNow(d)' # "unseen"
    BY <1>3, <1>10, <1>16, <1>17, <1>23
  <2>2. \A d \in Calls : d \in dec'.closed <=> CallNow(d)' = "ended"
    BY <1>16, <1>17, <1>23
  <2>3. \A d \in Calls : d \in dec'.sent <=> Given(d)' > 0
    <3>1. \A d \in Calls : d \in dec'.sent <=> Given(d)' # 0
      BY <1>3, <1>5, <1>10, <1>18, <1>19
    <3>2. \A d \in Calls : Given(d)' \in Nat
      BY <1>10, <1>18, <1>19, StreamAssumption
    <3>. QED
      BY <3>1, <3>2
  <2>4. \A d \in Calls : srv'.wire[d] \in {"done", "closed"} => Given(d)' = Frags
    BY <1>6, <1>10, <1>18, <1>19
  <2>5. ~Unsaid'
    BY <1>6, <1>9 DEF Unsaid
  <2>6. \A d \in Calls : CallNow(d)' # "streaming"
    BY <1>16, <1>17, <1>23
  <2>7. \A s \in Tools : /\ s \in dec'.announced <=> ToolNow(s)' # "unseen"
                         /\ "completed" \in srv'.tool[s] <=> ToolNow(s)' = "answered"
    BY <1>2, <1>3, <1>6, <1>17, <1>23 DEF ResponsesInv
  <2>. QED
    BY <1>3, <1>6, <2>1, <2>2, <2>3, <2>4, <2>5, <2>6, <2>7 DEF ResponsesInv
<1>. QED
  BY <1>0, <1>2, <1>3, <1>6, <1>23, <1>24, AfterFrame DEF AdapterInv

----------------------------------------------------------------------------
\* The end of the body

LEMMA AtTheEnd ==
    ASSUME StreamsInv, Ending
    PROVE  /\ place = "reading" /\ pending = <<>> /\ ~drained /\ drained' = TRUE
           /\ adapter' = adapter /\ srv' = srv /\ turn' = turn /\ place' = place
           /\ TypeInv /\ StreamInv /\ AdapterInv
           /\ turn.outcome # "failed"
           /\ \A c : CallNow(c) = turn.call[c]
           /\ \A s : ToolNow(s) = turn.tool[s]
           /\ IsOver <=> turn.outcome # "open"
           /\ Unsaid => turn.outcome = "open"
  BY Quiet DEF Ending, opening

LEMMA AfterEnd ==
    ASSUME StreamsInv, Ending,
           dec' \in DecType, pending' \in Seq(Event), StreamInv'
    PROVE  StreamsInv'
<1>1. /\ place = "reading" /\ drained' = TRUE
      /\ adapter' = adapter /\ srv' = srv /\ turn' = turn /\ place' = place
      /\ TypeInv /\ turn.outcome # "failed"
  BY AtTheEnd
<1>2. TypeInv'
  BY <1>1 DEF TypeInv
<1>3. PlaceInv'
  BY <1>1 DEF PlaceInv
<1>4. ~Live'
  BY <1>1 DEF Live
<1>. QED
  BY <1>2, <1>3, <1>4 DEF StreamsInv

LEMMA ResetStep ==
    ASSUME StreamsInv, Reset
    PROVE  StreamsInv'
<1>1. Ending /\ pending' = <<Error>> /\ dec' = dec
  BY DEF Reset, Emits
<1>2. /\ place = "reading" /\ pending = <<>> /\ ~drained
      /\ adapter' = adapter /\ srv' = srv /\ turn' = turn /\ TypeInv
  BY <1>1, AtTheEnd
<1>3. Error \in Event
  BY DEF Error, Event
<1>4. pending' \in Seq(Event) /\ pending'[1] = Error
  BY <1>1, <1>3
<1>5. \A c \in Calls : Given(c)' = Given(c)
  BY <1>1, <1>2 DEF Given
<1>6. StreamInv'
  BY <1>1, <1>2, <1>4, <1>5, StillStream
<1>. QED
  BY <1>1, <1>2, <1>4, <1>6, AfterEnd DEF TypeInv

\* What the decoder has kept back is handed over, the calls that are open are ended,
\* and Done is said.
LEMMA LastStream ==
    ASSUME StreamsInv, Ending, turn.outcome = "open",
           dec'.whole = dec.whole,
           NEW p \in Seq(Event), NEW st0 \in After,
           Leads(turn, p, srv.told, st0), st0.stop = "none", SameCalls(Now, st0),
           SameArgs(Now, st0), st0.text = Now.text,
           NEW cs \in Seq(Calls), Distinct(cs),
           \A c \in Calls : c \in ToSet(cs) <=> turn.call[c] = "streaming",
           NEW stop \in Stops,
           srv.told # "none" => stop = srv.told,
           adapter = "responses" => stop \notin Finishes,
           pending' = (p \o Ends(cs)) \o <<Done(stop)>>
    PROVE  StreamInv' /\ pending' \in Seq(Event)
<1>. DEFINE st1 == WithClosed(st0, ToSet(cs), {})
            st == WithStop(st1, stop)
<1>1. /\ place = "reading" /\ pending = <<>> /\ ~drained /\ drained' = TRUE
      /\ adapter' = adapter /\ srv' = srv /\ turn' = turn
      /\ TypeInv /\ StreamInv
      /\ \A c : CallNow(c) = turn.call[c]
  BY AtTheEnd
<1>2. /\ Now.call = turn.call /\ Now.text = srv.said
      /\ \A d \in Calls : Now.args[d] = Given(d)
  BY <1>1, QuietLeads
<1>3. ToSet(cs) \subseteq Calls
  BY DEF ToSet
<1>4. /\ Ends(cs) \in Seq(Event)
      /\ Leads(turn, p \o Ends(cs), srv.told, st1)
      /\ Closes(st0, ToSet(cs), {}, st1)
  <2>1. \A c \in ToSet(cs) : st0.call[c] = "streaming"
    BY <1>2, <1>3 DEF SameCalls
  <2>. QED
    BY <1>3, <2>1, AddEnds, AfterClosed
<1>. HIDE DEF st1
<1>5. /\ st1 \in After
      /\ \A d \in Calls : st1.call[d] = IF d \in ToSet(cs) THEN "ended" ELSE turn.call[d]
      /\ \A d \in Calls : st1.args[d] = Given(d)
      /\ st1.text = srv.said /\ st1.stop = "none"
  BY <1>2, <1>4 DEF Closes, SameCalls, SameArgs
<1>6. \A d \in Calls : /\ st1.call[d] # "streaming"
                       /\ st1.call[d] = "unseen" <=> turn.call[d] = "unseen"
  BY <1>5
<1>7. /\ Leads(turn, pending', srv.told, st)
      /\ st \in After /\ st.stop = stop /\ stop # "none"
      /\ st.call = st1.call /\ st.args = st1.args /\ st.text = srv.said
  <2>1. Leads(turn, Append(p \o Ends(cs), Done(stop)), srv.told, st)
    BY <1>4, <1>5, <1>6, AddDone
  <2>2. Append(p \o Ends(cs), Done(stop)) = pending'
    <3>1. Done(stop) \in Event
      BY DEF Done, Event, Kinds
    <3>2. p \o Ends(cs) \in Seq(Event)
      BY <1>4 DEF Leads
    <3>. QED
      BY <3>1, <3>2, ConcatEvents
  <2>3. stop \in Told /\ stop # "none"
    BY DEF Told, Stops
  <2>. QED
    BY <1>5, <2>1, <2>2, <2>3, AfterStop
<1>. HIDE DEF st
<1>8. \A d \in Calls : Given(d)' = st.args[d]
  BY <1>1, <1>5, <1>7 DEF Given
<1>9. \A d \in Calls : srv'.wire[d] = "unseen" <=> st.call[d] = "unseen"
  BY <1>1, <1>6, <1>7 DEF StreamInv
<1>10. \A d \in Calls : srv'.wire[d] = "unseen" => st.args[d] = 0
  BY <1>1, <1>5, <1>7 DEF StreamInv
<1>11. srv'.told \in Finishes => \A d \in Calls : srv'.wire[d] # "unseen" => st.args[d] = Frags
  BY <1>1, <1>5, <1>7 DEF StreamInv, Begun
<1>12. adapter' # "responses" => dec'.whole = {}
  BY <1>1 DEF StreamInv
<1>. QED
  BY <1>1, <1>7, <1>8, <1>9, <1>10, <1>11, <1>12, FrameStream

\* Done alone.
LEMMA LastDone ==
    ASSUME StreamsInv, Ending, turn.outcome = "open",
           dec'.whole = dec.whole,
           \A c \in Calls : srv.told # "none" => turn.call[c] # "streaming",
           NEW stop \in Stops,
           srv.told # "none" => stop = srv.told,
           adapter # "responses",
           pending' = <<Done(stop)>>
    PROVE  StreamInv' /\ pending' \in Seq(Event)
<1>1. /\ place = "reading" /\ pending = <<>> /\ ~drained /\ drained' = TRUE
      /\ adapter' = adapter /\ srv' = srv /\ turn' = turn
      /\ StreamInv
  BY AtTheEnd
<1>2. \A c \in Calls : Given(c)' = Given(c)
  BY <1>1 DEF Given
<1>3. srv.told \in Finishes => \A c \in Calls : srv.wire[c] # "unseen" => Given(c) = Frags
  BY <1>1 DEF StreamInv, Begun
<1>. QED
  BY <1>1, <1>2, <1>3, DoneStream

LEMMA EndsType ==
    ASSUME NEW cs \in Seq(Calls)
    PROVE  Ends(cs) \in Seq(Event)
<1>1. \A c \in Calls : End(c) \in Event
  BY DEF End, Event, Kinds
<1>2. DOMAIN cs = 1 .. Len(cs) /\ Len(cs) \in Nat /\ \A i \in 1 .. Len(cs) : cs[i] \in Calls
  OBVIOUS
<1>. HIDE DEF Event
<1>. QED
  BY <1>1, <1>2 DEF Ends

LEMMA NotedEvents ==
    ASSUME TypeInv
    PROVE  FlattenSeq([i \in DOMAIN dec.noted |-> Answer(dec.noted[i])]) \in Seq(Event)
<1>1. ASSUME NEW s \in Tools PROVE Answer(s) \in Seq(Event)
  <2>1. Use(s) \in Event /\ Result(s) \in Event
    BY DEF Use, Result, Event, Kinds
  <2>. HIDE DEF Event
  <2>. QED
    BY <2>1 DEF Answer
<1>. DEFINE zs == dec.noted
            ss == [i \in DOMAIN zs |-> Answer(zs[i])]
<1>2. zs \in Seq(Tools)
  BY DEF TypeInv, DecType
<1>. HIDE DEF zs
<1>3. DOMAIN zs = 1 .. Len(zs) /\ Len(zs) \in Nat /\ \A i \in 1 .. Len(zs) : zs[i] \in Tools
  BY <1>2
<1>4. ss \in Seq(Seq(Event))
  BY <1>1, <1>3
<1>5. FlattenSeq(ss) \in Seq(Event)
  <2>. HIDE DEF ss
  <2>. QED
    BY <1>4, FlattenType
<1>. QED
  BY <1>5 DEF zs

Said == IF dec.stop = "none" THEN "end_turn" ELSE dec.stop

LEMMA FinalType ==
    ASSUME TypeInv
    PROVE  Final \in Seq(Event)
<1>1. dec \in DecType /\ dec.calls \in Seq(Calls) /\ dec.stop \in Told
  BY DEF TypeInv, DecType
<1>2. \A stop \in Stops : Done(stop) \in Event
  BY DEF Done, Event, Kinds
<1>3. \A stop \in Stops : <<Done(stop)>> \in Seq(Event)
  BY <1>2
<1>4. Said \in Stops /\ "end_turn" \in Stops /\ "tool_use" \in Stops /\ "incomplete" \in Stops
  BY <1>1 DEF Said, Told, Stops
<1>5. <<>> \in Seq(Event)
  OBVIOUS
<1>6. Ends(dec.calls) \in Seq(Event)
  BY <1>1, EndsType
<1>7. Ends(Remaining(dec)) \in Seq(Event)
  <2>1. Remaining(dec) \in Seq(Calls)
    BY <1>1, WithoutFacts DEF Remaining
  <2>. QED
    BY <2>1, EndsType
<1>8. AnthropicFinal \in Seq(Event)
  BY <1>3, <1>4, <1>5 DEF AnthropicFinal, Said
<1>9. GeminiFinal \in Seq(Event)
  <2>. DEFINE stop == IF dec.calls # <<>> /\ dec.stop \in {"none", "end_turn"} THEN "tool_use"
                      ELSE IF dec.stop = "none" THEN "end_turn" ELSE dec.stop
  <2>1. stop \in Stops
    BY <1>4 DEF Said
  <2>2. GeminiFinal = <<Done(stop)>>
    BY DEF GeminiFinal
  <2>. HIDE DEF stop
  <2>. QED
    BY <1>3, <2>1, <2>2
<1>10. OpenaiFinal \in Seq(Event)
  <2>1. OpenaiFinal = IF dec.done THEN <<>> ELSE Ends(dec.calls) \o <<Done(Said)>>
    BY DEF OpenaiFinal, Said
  <2>. QED
    BY <1>3, <1>4, <1>5, <1>6, <2>1, ConcatThree
<1>11. GrpcFinal \in Seq(Event)
  <2>. DEFINE answers == FlattenSeq([i \in DOMAIN dec.noted |-> Answer(dec.noted[i])])
  <2>1. GrpcFinal = (answers \o Ends(dec.calls)) \o <<Done(Said)>>
    BY DEF GrpcFinal, Said, Answer
  <2>2. answers \in Seq(Event)
    BY NotedEvents
  <2>. HIDE DEF answers
  <2>. QED
    BY <1>3, <1>4, <1>6, <2>1, <2>2, ConcatThree
<1>12. ResponsesFinal \in Seq(Event)
  BY <1>3, <1>4, <1>5, <1>7, ConcatThree DEF ResponsesFinal
<1>13. ClaudeFinal \in Seq(Event)
  BY <1>3, <1>4, <1>5 DEF ClaudeFinal
<1>14. adapter \in Adapters
  BY DEF TypeInv
<1>. QED
  BY <1>8, <1>9, <1>10, <1>11, <1>12, <1>13, <1>14 DEF Final, Adapters

\* Nothing is left to say once the decoder is done, and it is once the turn is over.
LEMMA NothingMore ==
    ASSUME StreamsInv, Ending
    PROVE  /\ adapter \in Adapters
           /\ adapter \notin {"gemini", "grpc"} /\ dec.done => Final = <<>>
           /\ adapter \in {"gemini", "grpc"} \/ ~dec.done => turn.outcome = "open"
           /\ adapter \in {"responses", "claude"} /\ ~dec.done => srv.told = "none"
<1>1. /\ TypeInv /\ AdapterInv
      /\ IsOver <=> turn.outcome # "open"
      /\ Unsaid => turn.outcome = "open"
  BY AtTheEnd
<1>2. adapter \in Adapters
  BY <1>1 DEF TypeInv
<1>3. adapter \notin {"gemini", "grpc"} /\ dec.done => Final = <<>>
  BY <1>2 DEF Final, Adapters, AnthropicFinal, OpenaiFinal, ResponsesFinal, ClaudeFinal
<1>4. adapter \in {"anthropic", "openai"} /\ ~dec.done => turn.outcome = "open"
  BY <1>1 DEF AdapterInv, AnthropicInv, OpenaiInv
<1>5. adapter \in {"gemini", "grpc"} => turn.outcome = "open"
  BY <1>1 DEF AdapterInv, GeminiInv, GrpcInv
<1>6. adapter \in {"responses", "claude"} /\ ~dec.done => srv.told = "none"
  BY <1>1 DEF AdapterInv, ResponsesInv, ClaudeInv, Unsaid
<1>7. adapter \in {"responses", "claude"} /\ ~dec.done => turn.outcome = "open"
  BY <1>1, <1>6 DEF Unsaid
<1>. QED
  BY <1>2, <1>3, <1>4, <1>5, <1>6, <1>7 DEF Adapters

LEMMA LastOfAnthropic ==
    ASSUME StreamsInv, Ending, adapter = "anthropic", ~dec.done,
           dec'.whole = dec.whole, pending' = Final
    PROVE  StreamInv'
<1>1. /\ TypeInv /\ AnthropicInv
      /\ \A c : CallNow(c) = turn.call[c]
  BY AtTheEnd DEF AdapterInv
<1>2. turn.outcome = "open"
  BY NothingMore
<1>3. Said \in Stops /\ (srv.told # "none" => Said = srv.told)
  BY <1>1 DEF TypeInv, DecType, AnthropicInv, Said, Told, Stops
<1>4. pending' = <<Done(Said)>>
  BY DEF Final, AnthropicFinal, Said
<1>5. \A c \in Calls : srv.told # "none" => turn.call[c] # "streaming"
  BY <1>1 DEF AnthropicInv, Unsaid
<1>. QED
  BY <1>2, <1>3, <1>4, <1>5, LastDone

LEMMA LastOfGemini ==
    ASSUME StreamsInv, Ending, adapter = "gemini",
           dec'.whole = dec.whole, pending' = Final
    PROVE  StreamInv'
<1>. DEFINE stop == IF dec.calls # <<>> /\ dec.stop \in {"none", "end_turn"} THEN "tool_use"
                    ELSE IF dec.stop = "none" THEN "end_turn" ELSE dec.stop
<1>1. /\ TypeInv /\ GeminiInv
      /\ \A c : CallNow(c) = turn.call[c]
  BY AtTheEnd DEF AdapterInv
<1>2. turn.outcome = "open"
  BY NothingMore
<1>3. stop \in Stops /\ (srv.told # "none" => stop = srv.told)
  <2>1. dec.stop \in Told /\ srv.told \in Told
    BY <1>1 DEF TypeInv, DecType, SrvType
  <2>. QED
    BY <1>1, <2>1 DEF GeminiInv, Told, Stops
<1>4. pending' = <<Done(stop)>>
  BY DEF Final, GeminiFinal
<1>. HIDE DEF stop
<1>5. \A c \in Calls : srv.told # "none" => turn.call[c] # "streaming"
  BY <1>1 DEF GeminiInv
<1>. QED
  BY <1>2, <1>3, <1>4, <1>5, LastDone

LEMMA LastOfClaude ==
    ASSUME StreamsInv, Ending, adapter = "claude", ~dec.done,
           dec'.whole = dec.whole, pending' = Final
    PROVE  StreamInv'
<1>1. turn.outcome = "open" /\ srv.told = "none"
  BY NothingMore
<1>2. pending' = <<Done("end_turn")>> /\ "end_turn" \in Stops
  BY DEF Final, ClaudeFinal, Stops
<1>. QED
  BY <1>1, <1>2, LastDone

\* The expectations before anything is handed over.
LEMMA LastStart ==
    ASSUME StreamsInv, Ending, turn.outcome = "open"
    PROVE  /\ Now \in After /\ Leads(turn, <<>>, srv.told, Now) /\ Now.stop = "none"
           /\ SameCalls(Now, Now) /\ SameArgs(Now, Now)
           /\ Now.tool = turn.tool /\ Now.call = turn.call
           /\ <<>> \in Seq(Event)
  BY AtTheEnd, QuietLeads DEF SameCalls, SameArgs

LEMMA LastOfOpenai ==
    ASSUME StreamsInv, Ending, adapter = "openai", ~dec.done,
           dec'.whole = dec.whole, pending' = Final
    PROVE  StreamInv'
<1>1. /\ TypeInv /\ OpenaiInv
      /\ \A c : CallNow(c) = turn.call[c]
  BY AtTheEnd DEF AdapterInv
<1>2. turn.outcome = "open"
  BY NothingMore
<1>3. Said \in Stops /\ (srv.told # "none" => Said = srv.told)
  BY <1>1 DEF TypeInv, DecType, OpenaiInv, Said, Told, Stops
<1>. DEFINE cs == dec.calls
<1>4. /\ cs \in Seq(Calls) /\ Distinct(cs)
      /\ \A c \in Calls : c \in ToSet(cs) <=> turn.call[c] = "streaming"
  BY <1>1 DEF TypeInv, DecType, OpenaiInv
<1>5. pending' = Ends(cs) \o <<Done(Said)>>
  BY DEF Final, OpenaiFinal, Said
<1>. HIDE DEF cs
<1>6. pending' = (<<>> \o Ends(cs)) \o <<Done(Said)>>
  BY <1>4, <1>5, EndsType, ConcatEmptySeq
<1>7. /\ Now \in After /\ Leads(turn, <<>>, srv.told, Now) /\ Now.stop = "none"
      /\ SameCalls(Now, Now) /\ SameArgs(Now, Now) /\ <<>> \in Seq(Event)
  BY <1>2, LastStart
<1>. QED
  BY <1>2, <1>3, <1>4, <1>6, <1>7, LastStream

LEMMA LastOfGrpc ==
    ASSUME StreamsInv, Ending, adapter = "grpc",
           dec'.whole = dec.whole, pending' = Final
    PROVE  StreamInv'
<1>1. /\ TypeInv /\ GrpcInv
      /\ \A c : CallNow(c) = turn.call[c]
      /\ \A s : ToolNow(s) = turn.tool[s]
  BY AtTheEnd DEF AdapterInv
<1>2. turn.outcome = "open"
  BY NothingMore
<1>3. Said \in Stops /\ (srv.told # "none" => Said = srv.told)
  BY <1>1 DEF TypeInv, DecType, GrpcInv, Said, Told, Stops
<1>. DEFINE cs == dec.calls
            zs == dec.noted
            answers == FlattenSeq([i \in DOMAIN zs |-> Answer(zs[i])])
            st0 == WithAnswered(Now, ToSet(zs))
<1>4. /\ cs \in Seq(Calls) /\ Distinct(cs)
      /\ \A c \in Calls : c \in ToSet(cs) <=> turn.call[c] = "streaming"
  <2>1. \A c \in Calls : turn.call[c] \in CallStates
    BY <1>1 DEF TypeInv, TurnType
  <2>. QED
    BY <1>1, <2>1 DEF TypeInv, DecType, GrpcInv, CallStates
<1>5. /\ zs \in Seq(Tools) /\ Distinct(zs) /\ ToSet(zs) \subseteq Tools
      /\ \A s \in Tools : turn.tool[s] = IF s \in dec.announced THEN "announced" ELSE "unseen"
  <2>1. zs \in Seq(Tools) /\ Distinct(zs)
    BY <1>1 DEF TypeInv, DecType, GrpcInv
  <2>. QED
    BY <1>1, <2>1 DEF GrpcInv, ToSet
<1>6. pending' = (answers \o Ends(cs)) \o <<Done(Said)>>
  BY DEF Final, GrpcFinal, Said, Answer
<1>7. /\ Now \in After /\ Leads(turn, <<>>, srv.told, Now) /\ Now.stop = "none"
      /\ Now.tool = turn.tool /\ <<>> \in Seq(Event)
  BY <1>2, LastStart
<1>8. answers \in Seq(Event)
  BY <1>1, NotedEvents
<1>. HIDE DEF cs, zs
<1>9. Leads(turn, <<>> \o answers, srv.told, st0)
  <2>1. \A s \in ToSet(zs) : Now.tool[s] = IF s \in dec.announced THEN "announced" ELSE "unseen"
    BY <1>5, <1>7
  <2>. QED
    BY <1>5, <1>7, <2>1, AddAnswers
<1>10. Answers(Now, ToSet(zs), st0)
  BY <1>5, <1>7, AfterAnswered
<1>. HIDE DEF answers, st0
<1>11. Leads(turn, answers, srv.told, st0)
  BY <1>8, <1>9, ConcatEmptySeq
<1>12. /\ st0 \in After /\ st0.stop = "none" /\ st0.text = Now.text
       /\ SameCalls(Now, st0) /\ SameArgs(Now, st0)
  BY <1>7, <1>10 DEF Answers, SameCalls, SameArgs
<1>. QED
  BY <1>2, <1>3, <1>4, <1>6, <1>8, <1>11, <1>12, LastStream

LEMMA LastOfResponses ==
    ASSUME StreamsInv, Ending, adapter = "responses", ~dec.done,
           dec'.whole = dec.whole, pending' = Final
    PROVE  StreamInv'
<1>1. /\ TypeInv /\ ResponsesInv
      /\ \A c : CallNow(c) = turn.call[c]
  BY AtTheEnd DEF AdapterInv
<1>2. turn.outcome = "open" /\ srv.told = "none"
  BY NothingMore
<1>. DEFINE cs == Remaining(dec)
<1>3. /\ cs \in Seq(Calls) /\ Distinct(cs)
      /\ \A c \in Calls : c \in ToSet(cs) <=> turn.call[c] = "streaming"
  <2>1. dec.calls \in Seq(Calls) /\ Distinct(dec.calls)
    BY <1>1 DEF TypeInv, DecType, ResponsesInv
  <2>2. cs \in Seq(Calls) /\ Distinct(cs) /\ ToSet(cs) = ToSet(dec.calls) \ dec.closed
    BY <2>1, WithoutFacts DEF Remaining
  <2>3. \A c \in Calls : turn.call[c] \in CallStates
    BY <1>1 DEF TypeInv, TurnType
  <2>. HIDE DEF cs
  <2>. QED
    BY <1>1, <2>2, <2>3 DEF ResponsesInv, CallStates
<1>4. pending' = Ends(cs) \o <<Done("incomplete")>>
  BY DEF Final, ResponsesFinal
<1>. HIDE DEF cs
<1>5. pending' = (<<>> \o Ends(cs)) \o <<Done("incomplete")>>
  BY <1>3, <1>4, EndsType, ConcatEmptySeq
<1>6. /\ Now \in After /\ Leads(turn, <<>>, srv.told, Now) /\ Now.stop = "none"
      /\ SameCalls(Now, Now) /\ SameArgs(Now, Now) /\ <<>> \in Seq(Event)
  BY <1>2, LastStart
<1>7. "incomplete" \in Stops /\ "incomplete" \notin Finishes
  BY DEF Stops, Finishes
<1>. QED
  BY <1>2, <1>3, <1>5, <1>6, <1>7, LastStream

LEMMA EofStep ==
    ASSUME StreamsInv, Eof
    PROVE  StreamsInv'
<1>1. /\ Ending /\ dec' = [dec EXCEPT !.done = TRUE]
      /\ pending' = Final \/ pending' = <<Error>> \o Final
  BY DEF Eof, Emits
<1>2. /\ place = "reading" /\ pending = <<>> /\ ~drained
      /\ adapter' = adapter /\ srv' = srv /\ turn' = turn /\ TypeInv
  BY <1>1, AtTheEnd
<1>3. dec' \in DecType /\ dec'.whole = dec.whole
  BY <1>1, <1>2 DEF TypeInv, DecType
<1>4. Final \in Seq(Event)
  BY <1>2, FinalType
<1>5. \A c \in Calls : Given(c)' = Given(c)
  BY <1>2, <1>3 DEF Given
<1>6. CASE pending' = <<Error>> \o Final
  <2>1. Error \in Event
    BY DEF Error, Event
  <2>2. pending' \in Seq(Event) /\ pending'[1] = Error
    BY <1>4, <1>6, <2>1
  <2>3. StreamInv'
    BY <1>2, <1>3, <1>5, <2>2, StillStream
  <2>. QED
    BY <1>1, <1>3, <2>2, <2>3, AfterEnd
<1>7. CASE pending' = Final
  <2>1. adapter \in Adapters
    BY <1>2 DEF TypeInv
  <2>2. CASE adapter \notin {"gemini", "grpc"} /\ dec.done
    <3>1. pending' = <<>>
      BY <1>1, <1>7, <2>2, NothingMore
    <3>2. StreamInv'
      BY <1>2, <1>3, <1>5, <3>1, StillStream
    <3>. QED
      BY <1>1, <1>3, <1>4, <1>7, <3>2, AfterEnd
  <2>3. CASE adapter \in {"gemini", "grpc"} \/ ~dec.done
    <3>1. StreamInv'
      BY <1>1, <1>3, <1>7, <2>1, <2>3, LastOfAnthropic, LastOfGemini, LastOfOpenai,
         LastOfGrpc, LastOfResponses, LastOfClaude DEF Adapters
    <3>. QED
      BY <1>1, <1>3, <1>4, <1>7, <3>1, AfterEnd
  <2>. QED
    BY <2>2, <2>3
<1>. QED
  BY <1>1, <1>6, <1>7

----------------------------------------------------------------------------
\* The agent takes the first pending event

Is(e, kind, id) == e.event = kind /\ e.id = id

LEMMA TailFacts ==
    ASSUME NEW p \in Seq(Event), p # <<>>
    PROVE  /\ Tail(p) \in Seq(Event) /\ Head(p) = p[1] /\ p[1] \in Event
           /\ 1 \in DOMAIN p /\ Len(p) \in Nat
           /\ Len(Tail(p)) = Len(p) - 1
           /\ \A i \in DOMAIN Tail(p) : /\ i \in Nat
                                        /\ i + 1 \in DOMAIN p /\ i + 1 # 1
                                        /\ Tail(p)[i] = p[i + 1]
           /\ \A j \in DOMAIN p : j # 1 => /\ j - 1 \in DOMAIN Tail(p)
                                           /\ (j - 1) + 1 = j
                                           /\ Tail(p)[j - 1] = p[j]
           /\ \A j \in DOMAIN p : j \in Nat /\ ~(j < 1)
  OBVIOUS

LEMMA TailSays ==
    ASSUME NEW p \in Seq(Event), p # <<>>
    PROVE  /\ \A kind, id : Says(p, kind, id) <=> Is(p[1], kind, id) \/ Says(Tail(p), kind, id)
           /\ \A i \in DOMAIN Tail(p) : \A kind, id :
                SaidBefore(p, i + 1, kind, id) <=>
                  Is(p[1], kind, id) \/ SaidBefore(Tail(p), i, kind, id)
           /\ \A kind, id : ~SaidBefore(p, 1, kind, id)
<1>. DEFINE q == Tail(p)
<1>1. /\ 1 \in DOMAIN p
      /\ \A i \in DOMAIN q : i \in Nat /\ i + 1 \in DOMAIN p /\ i + 1 # 1 /\ q[i] = p[i + 1]
      /\ \A j \in DOMAIN p : j # 1 => j - 1 \in DOMAIN q /\ (j - 1) + 1 = j /\ q[j - 1] = p[j]
      /\ \A j \in DOMAIN p : j \in Nat /\ ~(j < 1)
  BY TailFacts
<1>. HIDE DEF q
<1>2. ASSUME NEW kind, NEW id
      PROVE  Says(p, kind, id) <=> Is(p[1], kind, id) \/ Says(q, kind, id)
  BY <1>1 DEF Says, Is
<1>3. ASSUME NEW i \in DOMAIN q, NEW kind, NEW id
      PROVE  SaidBefore(p, i + 1, kind, id) <=> Is(p[1], kind, id) \/ SaidBefore(q, i, kind, id)
  <2>1. ASSUME SaidBefore(p, i + 1, kind, id) PROVE Is(p[1], kind, id) \/ SaidBefore(q, i, kind, id)
    <3>1. PICK j \in DOMAIN p : j < i + 1 /\ p[j].event = kind /\ p[j].id = id
      BY <2>1 DEF SaidBefore
    <3>2. CASE j = 1
      BY <3>1, <3>2 DEF Is
    <3>3. CASE j # 1
      <4>1. j - 1 \in DOMAIN q /\ q[j - 1] = p[j] /\ j \in Nat /\ i \in Nat
        BY <1>1, <3>3
      <4>2. j - 1 < i
        BY <3>1, <4>1
      <4>. QED
        BY <3>1, <4>1, <4>2 DEF SaidBefore
    <3>. QED
      BY <3>2, <3>3
  <2>2. ASSUME Is(p[1], kind, id) PROVE SaidBefore(p, i + 1, kind, id)
    <3>1. i \in Nat /\ i + 1 \in DOMAIN p /\ i + 1 # 1 /\ 1 < i + 1
      BY <1>1
    <3>. QED
      BY <1>1, <2>2, <3>1 DEF SaidBefore, Is
  <2>3. ASSUME SaidBefore(q, i, kind, id) PROVE SaidBefore(p, i + 1, kind, id)
    <3>1. PICK j \in DOMAIN q : j < i /\ q[j].event = kind /\ q[j].id = id
      BY <2>3 DEF SaidBefore
    <3>2. j + 1 \in DOMAIN p /\ p[j + 1] = q[j] /\ j + 1 < i + 1
      BY <1>1, <3>1
    <3>. QED
      BY <3>1, <3>2 DEF SaidBefore
  <2>. QED
    BY <2>1, <2>2, <2>3
<1>4. ASSUME NEW kind, NEW id PROVE ~SaidBefore(p, 1, kind, id)
  BY <1>1 DEF SaidBefore
<1>. QED
  BY <1>2, <1>3, <1>4 DEF q

\* What the turn may be told first.
MayTake(t, e, last, told) ==
  /\ e.event \in Kinds /\ e.data \in Seq(Nat)
  /\ e.event \in {"start", "delta", "end"} => e.id \in Calls
  /\ e.event = "start" => t.call[e.id] = "unseen" /\ t.args[e.id] = <<>>
  /\ e.event \in {"delta", "end"} => t.call[e.id] = "streaming"
  /\ e.event = "delta" => \E n \in 1 .. Frags : t.args[e.id] \o e.data = Upto(n)
  /\ e.event \in {"use", "result"} => e.id \in Tools
  /\ e.event = "use" => t.tool[e.id] = "unseen"
  /\ e.event = "result" => t.tool[e.id] = "announced"
  /\ e.event = "done" =>
       /\ last /\ e.id \in Stops
       /\ told # "none" => e.id = told /\ \A c \in Calls : t.call[c] # "streaming"

LEMMA FirstIsSound ==
    ASSUME NEW t, NEW told, NEW p \in Seq(Event), p # <<>>, Sound(t, p, told)
    PROVE  MayTake(t, p[1], Len(p) = 1, told) /\ t.outcome = "open"
<1>1. 1 \in DOMAIN p
  BY TailFacts
<1>2. \A kind, id : ~SaidBefore(p, 1, kind, id)
  BY TailSays
<1>3. /\ p[1].event \in Kinds /\ p[1].data \in Seq(Nat)
      /\ SoundCall(t, p, 1) /\ SoundTool(t, p, 1) /\ SoundDone(t, p, 1, told)
      /\ t.outcome = "open"
  BY <1>1 DEF Sound
<1>4. \A c : Opened(t, p, 1, c) <=> t.call[c] = "streaming"
  BY <1>2 DEF Opened
<1>. QED
  BY <1>2, <1>3, <1>4 DEF MayTake, SoundCall, SoundTool, SoundDone

\* What the turn is then.
Took(t, e, t2) ==
  /\ \A c \in Calls : t2.call[c] = IF Is(e, "start", c) THEN "streaming"
                                   ELSE IF Is(e, "end", c) THEN "ended" ELSE t.call[c]
  /\ \A c \in Calls : t2.args[c] = IF Is(e, "delta", c) THEN t.args[c] \o e.data ELSE t.args[c]
  /\ \A s \in Tools : t2.tool[s] = IF Is(e, "use", s) THEN "announced"
                                   ELSE IF Is(e, "result", s) THEN "answered" ELSE t.tool[s]
  /\ t2.text = IF e.event = "text" THEN t.text \o e.data ELSE t.text
  /\ t2.outcome = IF e.event = "done" THEN e.id ELSE t.outcome

LEMMA ObservedFacts ==
    ASSUME NEW t \in TurnType, NEW told, NEW last, NEW e \in Event, MayTake(t, e, last, told)
    PROVE  Observed(t, e) \in TurnType /\ Took(t, e, Observed(t, e))
<1>. DEFINE t2 == Observed(t, e)
<1>1. /\ t.call \in [Calls -> CallStates] /\ t.args \in [Calls -> Seq(Nat)]
      /\ t.tool \in [Tools -> ToolStates] /\ t.text \in Seq(Nat)
  BY DEF TurnType
<1>2. e.data \in Seq(Nat) /\ \A x \in Seq(Nat) : x \o e.data \in Seq(Nat)
  BY DEF MayTake
<1>3. CASE e.event = "start"
  <2>. DEFINE c == e.id
              call == [t.call EXCEPT ![c] = "streaming"]
              args == [t.args EXCEPT ![c] = <<>>]
  <2>1. c \in Calls /\ t.call[c] = "unseen" /\ t.args[c] = <<>> /\ <<>> \in Seq(Nat)
    BY <1>3 DEF MayTake
  <2>2. t2 = [t EXCEPT !.call = call, !.args = args]
    BY <1>3, <2>1 DEF Observed, Goes
  <2>. HIDE DEF t2
  <2>3. /\ call \in [Calls -> CallStates] /\ call[c] = "streaming"
        /\ \A d \in Calls : d # c => call[d] = t.call[d]
    BY <1>1, <2>1 DEF CallStates
  <2>4. args \in [Calls -> Seq(Nat)] /\ \A d \in Calls : args[d] = t.args[d]
    BY <1>1, <2>1
  <2>. HIDE DEF call, args, c
  <2>5. /\ t2 \in TurnType
        /\ t2.call = call /\ t2.args = args /\ t2.tool = t.tool /\ t2.text = t.text
        /\ t2.outcome = t.outcome
    BY <2>2, <2>3, <2>4 DEF TurnType
  <2>. QED
    BY <1>3, <2>3, <2>4, <2>5 DEF Took, Is, t2, c
<1>4. CASE e.event = "delta"
  <2>. DEFINE c == e.id
              args == [t.args EXCEPT ![c] = t.args[c] \o e.data]
  <2>1. c \in Calls
    BY <1>4 DEF MayTake
  <2>2. t2 = [t EXCEPT !.args = args]
    BY <1>4, <2>1 DEF Observed
  <2>. HIDE DEF t2
  <2>3. /\ args \in [Calls -> Seq(Nat)] /\ args[c] = t.args[c] \o e.data
        /\ \A d \in Calls : d # c => args[d] = t.args[d]
    BY <1>1, <1>2, <2>1
  <2>. HIDE DEF args, c
  <2>4. /\ t2 \in TurnType
        /\ t2.call = t.call /\ t2.args = args /\ t2.tool = t.tool /\ t2.text = t.text
        /\ t2.outcome = t.outcome
    BY <2>2, <2>3 DEF TurnType
  <2>. QED
    BY <1>4, <2>3, <2>4 DEF Took, Is, t2, c
<1>5. CASE e.event = "end"
  <2>. DEFINE c == e.id
              call == [t.call EXCEPT ![c] = "ended"]
  <2>1. c \in Calls /\ t.call[c] = "streaming"
    BY <1>5 DEF MayTake
  <2>2. t2 = [t EXCEPT !.call = call]
    BY <1>5, <2>1 DEF Observed, Goes
  <2>. HIDE DEF t2
  <2>3. /\ call \in [Calls -> CallStates] /\ call[c] = "ended"
        /\ \A d \in Calls : d # c => call[d] = t.call[d]
    BY <1>1, <2>1 DEF CallStates
  <2>. HIDE DEF call, c
  <2>4. /\ t2 \in TurnType
        /\ t2.call = call /\ t2.args = t.args /\ t2.tool = t.tool /\ t2.text = t.text
        /\ t2.outcome = t.outcome
    BY <2>2, <2>3 DEF TurnType
  <2>. QED
    BY <1>5, <2>3, <2>4 DEF Took, Is, t2, c
<1>6. CASE e.event = "use"
  <2>. DEFINE s == e.id
              tool == [t.tool EXCEPT ![s] = "announced"]
  <2>1. s \in Tools /\ t.tool[s] = "unseen"
    BY <1>6 DEF MayTake
  <2>2. t2 = [t EXCEPT !.tool = tool]
    BY <1>6, <2>1 DEF Observed, Goes
  <2>. HIDE DEF t2
  <2>3. /\ tool \in [Tools -> ToolStates] /\ tool[s] = "announced"
        /\ \A z \in Tools : z # s => tool[z] = t.tool[z]
    BY <1>1, <2>1 DEF ToolStates
  <2>. HIDE DEF tool, s
  <2>4. /\ t2 \in TurnType
        /\ t2.call = t.call /\ t2.args = t.args /\ t2.tool = tool /\ t2.text = t.text
        /\ t2.outcome = t.outcome
    BY <2>2, <2>3 DEF TurnType
  <2>. QED
    BY <1>6, <2>3, <2>4 DEF Took, Is, t2, s
<1>7. CASE e.event = "result"
  <2>. DEFINE s == e.id
              tool == [t.tool EXCEPT ![s] = "answered"]
  <2>1. s \in Tools /\ t.tool[s] = "announced"
    BY <1>7 DEF MayTake
  <2>2. t2 = [t EXCEPT !.tool = tool]
    BY <1>7, <2>1 DEF Observed, Goes
  <2>. HIDE DEF t2
  <2>3. /\ tool \in [Tools -> ToolStates] /\ tool[s] = "answered"
        /\ \A z \in Tools : z # s => tool[z] = t.tool[z]
    BY <1>1, <2>1 DEF ToolStates
  <2>. HIDE DEF tool, s
  <2>4. /\ t2 \in TurnType
        /\ t2.call = t.call /\ t2.args = t.args /\ t2.tool = tool /\ t2.text = t.text
        /\ t2.outcome = t.outcome
    BY <2>2, <2>3 DEF TurnType
  <2>. QED
    BY <1>7, <2>3, <2>4 DEF Took, Is, t2, s
<1>8. CASE e.event = "text"
  <2>1. t2 = [t EXCEPT !.text = t.text \o e.data]
    BY <1>8 DEF Observed
  <2>. HIDE DEF t2
  <2>2. t.text \o e.data \in Seq(Nat)
    BY <1>1, <1>2
  <2>3. /\ t2 \in TurnType
        /\ t2.call = t.call /\ t2.args = t.args /\ t2.tool = t.tool
        /\ t2.text = t.text \o e.data /\ t2.outcome = t.outcome
    BY <2>1, <2>2 DEF TurnType
  <2>. QED
    BY <1>8, <2>3 DEF Took, Is, t2
<1>9. CASE e.event = "done"
  <2>1. t2 = [t EXCEPT !.outcome = e.id] /\ e.id \in Stops
    BY <1>9 DEF Observed, MayTake
  <2>. HIDE DEF t2
  <2>2. /\ t2 \in TurnType
        /\ t2.call = t.call /\ t2.args = t.args /\ t2.tool = t.tool
        /\ t2.text = t.text /\ t2.outcome = e.id
    BY <2>1 DEF TurnType
  <2>. QED
    BY <1>9, <2>2 DEF Took, Is, t2
<1>. QED
  BY <1>3, <1>4, <1>5, <1>6, <1>7, <1>8, <1>9 DEF MayTake, Kinds

\* The first of p is taken by a turn t, which t2 is then.
Handed(t, p, told, t2) ==
  /\ p \in Seq(Event) /\ p # <<>>
  /\ Sound(t, p, told)
  /\ MayTake(t, p[1], Len(p) = 1, told)
  /\ Took(t, p[1], t2)

LEMMA HandedFacts ==
    ASSUME NEW t, NEW p, NEW told, NEW t2, Handed(t, p, told, t2)
    PROVE  /\ 1 \in DOMAIN p
           /\ \A kind, id : ~(Is(p[1], kind, id) /\ Says(Tail(p), kind, id))
           /\ \A j \in DOMAIN p : j # 1 => ~Is(p[j], p[1].event, p[1].id)
           /\ \A i \in DOMAIN Tail(p) :
                /\ i + 1 \in DOMAIN p /\ i + 1 # 1 /\ Tail(p)[i] = p[i + 1]
                /\ p[i + 1].event \in Kinds /\ p[i + 1].data \in Seq(Nat)
                /\ SoundCall(t, p, i + 1) /\ SoundTool(t, p, i + 1)
                /\ SoundDone(t, p, i + 1, told)
           /\ t.outcome = "open"
<1>. DEFINE q == Tail(p)
            e == p[1]
<1>1. /\ 1 \in DOMAIN p
      /\ \A i \in DOMAIN q : i + 1 \in DOMAIN p /\ i + 1 # 1 /\ q[i] = p[i + 1]
  BY TailFacts DEF Handed
<1>2. \A i, j \in DOMAIN p : p[i].event = p[j].event /\ p[i].id = p[j].id => i = j
  BY DEF Handed, Sound
<1>3. ASSUME NEW kind, NEW id, Is(e, kind, id), Says(q, kind, id) PROVE FALSE
  <2>1. PICK i \in DOMAIN q : q[i].event = kind /\ q[i].id = id
    BY <1>3 DEF Says
  <2>. HIDE DEF q
  <2>. QED
    BY <1>1, <1>2, <1>3, <2>1 DEF Is
<1>4. \A j \in DOMAIN p : j # 1 => ~Is(p[j], p[1].event, p[1].id)
  BY <1>1, <1>2 DEF Is
<1>. HIDE DEF q
<1>5. \A i \in DOMAIN q :
        /\ p[i + 1].event \in Kinds /\ p[i + 1].data \in Seq(Nat)
        /\ SoundCall(t, p, i + 1) /\ SoundTool(t, p, i + 1)
        /\ SoundDone(t, p, i + 1, told)
  BY <1>1 DEF Handed, Sound
<1>6. t.outcome = "open"
  BY DEF Handed, Sound
<1>. QED
  BY <1>1, <1>3, <1>4, <1>5, <1>6 DEF q

\* The order of the words on a call: its end is not followed by its start, nor is a
\* fragment.
LEMMA HandedOrder ==
    ASSUME NEW t, NEW p, NEW told, NEW t2, Handed(t, p, told, t2)
    PROVE  /\ \A c \in Calls : Says(Tail(p), "start", c) =>
                /\ t.call[c] = "unseen" /\ t.args[c] = <<>>
                /\ ~Is(p[1], "start", c) /\ ~Is(p[1], "end", c) /\ ~Is(p[1], "delta", c)
           /\ \A s \in Tools : Says(Tail(p), "use", s) =>
                /\ t.tool[s] = "unseen"
                /\ ~Is(p[1], "use", s) /\ ~Is(p[1], "result", s)
<1>. DEFINE q == Tail(p)
            e == p[1]
<1>1. /\ \A kind, id : ~(Is(e, kind, id) /\ Says(q, kind, id))
      /\ \A i \in DOMAIN q : q[i] = p[i + 1] /\ SoundCall(t, p, i + 1) /\ SoundTool(t, p, i + 1)
  BY HandedFacts
<1>2. MayTake(t, e, Len(p) = 1, told)
  BY DEF Handed
<1>. HIDE DEF q, e
<1>3. ASSUME NEW c \in Calls, Says(q, "start", c)
      PROVE  /\ t.call[c] = "unseen" /\ t.args[c] = <<>>
             /\ ~Is(e, "start", c) /\ ~Is(e, "end", c) /\ ~Is(e, "delta", c)
  <2>1. PICK i \in DOMAIN q : q[i].event = "start" /\ q[i].id = c
    BY <1>3 DEF Says
  <2>2. t.call[c] = "unseen" /\ t.args[c] = <<>>
    BY <1>1, <2>1 DEF SoundCall
  <2>3. ~Is(e, "start", c)
    BY <1>1, <1>3
  <2>4. ~Is(e, "end", c) /\ ~Is(e, "delta", c)
    BY <1>2, <2>2 DEF MayTake, Is
  <2>. QED
    BY <2>2, <2>3, <2>4
<1>4. ASSUME NEW s \in Tools, Says(q, "use", s)
      PROVE  t.tool[s] = "unseen" /\ ~Is(e, "use", s) /\ ~Is(e, "result", s)
  <2>1. PICK i \in DOMAIN q : q[i].event = "use" /\ q[i].id = s
    BY <1>4 DEF Says
  <2>2. t.tool[s] = "unseen"
    BY <1>1, <2>1 DEF SoundTool
  <2>3. ~Is(e, "use", s)
    BY <1>1, <1>4
  <2>4. ~Is(e, "result", s)
    BY <1>2, <2>2 DEF MayTake, Is
  <2>. QED
    BY <2>2, <2>3, <2>4
<1>. QED
  BY <1>3, <1>4 DEF q, e

\* Handing an event over changes nothing of what the turn will be in the end.
LEMMA HandedSame ==
    ASSUME NEW t, NEW p, NEW told, NEW t2, Handed(t, p, told, t2)
    PROVE  /\ \A c \in Calls : CallAfter(t2, Tail(p), c) = CallAfter(t, p, c)
           /\ \A s \in Tools : ToolAfter(t2, Tail(p), s) = ToolAfter(t, p, s)
<1>. DEFINE q == Tail(p)
            e == p[1]
<1>1. \A kind, id : Says(p, kind, id) <=> Is(e, kind, id) \/ Says(q, kind, id)
  BY TailSays DEF Handed
<1>2. \A kind, id : ~(Is(e, kind, id) /\ Says(q, kind, id))
  BY HandedFacts
<1>3. /\ \A c \in Calls : Says(q, "start", c) => ~Is(e, "start", c) /\ ~Is(e, "end", c)
      /\ \A s \in Tools : Says(q, "use", s) => ~Is(e, "use", s) /\ ~Is(e, "result", s)
  BY HandedOrder
<1>4. \A kind, kind2, id : Is(e, kind, id) /\ Is(e, kind2, id) => kind = kind2
  BY DEF Is
<1>5. Took(t, e, t2)
  BY DEF Handed
<1>. HIDE DEF q, e
<1>6. ASSUME NEW c \in Calls PROVE CallAfter(t2, q, c) = CallAfter(t, p, c)
  <2>1. t2.call[c] = IF Is(e, "start", c) THEN "streaming"
                     ELSE IF Is(e, "end", c) THEN "ended" ELSE t.call[c]
    BY <1>5 DEF Took
  <2>2. ~(Is(e, "start", c) /\ Is(e, "end", c))
    BY <1>4
  <2>. QED
    BY <1>1, <1>2, <1>3, <2>1, <2>2 DEF CallAfter
<1>7. ASSUME NEW s \in Tools PROVE ToolAfter(t2, q, s) = ToolAfter(t, p, s)
  <2>1. t2.tool[s] = IF Is(e, "use", s) THEN "announced"
                     ELSE IF Is(e, "result", s) THEN "answered" ELSE t.tool[s]
    BY <1>5 DEF Took
  <2>2. ~(Is(e, "use", s) /\ Is(e, "result", s))
    BY <1>4
  <2>. QED
    BY <1>1, <1>2, <1>3, <2>1, <2>2 DEF ToolAfter
<1>. QED
  BY <1>6, <1>7 DEF q

LEMMA HandedData ==
    ASSUME NEW t, NEW p, NEW told, NEW t2, Handed(t, p, told, t2)
    PROVE  /\ \A c \in Calls : \A n : ArgsAre(t, p, c, n) => ArgsAre(t2, Tail(p), c, n)
           /\ \A n : TextIs(t, p, n) => TextIs(t2, Tail(p), n)
<1>. DEFINE q == Tail(p)
            e == p[1]
<1>1. \A kind, id : Says(p, kind, id) <=> Is(e, kind, id) \/ Says(q, kind, id)
  BY TailSays DEF Handed
<1>2. /\ 1 \in DOMAIN p
      /\ \A kind, id : ~(Is(e, kind, id) /\ Says(q, kind, id))
      /\ \A i \in DOMAIN q : i + 1 \in DOMAIN p /\ i + 1 # 1 /\ q[i] = p[i + 1]
      /\ \A j \in DOMAIN p : j # 1 => ~Is(p[j], e.event, e.id)
  BY HandedFacts
<1>3. \A j \in DOMAIN p : j # 1 => /\ j - 1 \in DOMAIN q /\ (j - 1) + 1 = j /\ q[j - 1] = p[j]
  BY TailFacts DEF Handed
<1>4. Took(t, e, t2)
  BY DEF Handed
<1>5. \A i \in DOMAIN q : i \in Nat /\ \A k \in Nat : i + 1 = k + 1 => i = k
  BY TailFacts DEF Handed
<1>6. \A j \in DOMAIN p : j \in Nat
  BY TailFacts DEF Handed
<1>. HIDE DEF q
<1>7. ASSUME NEW c \in Calls, NEW n, ArgsAre(t, p, c, n) PROVE ArgsAre(t2, q, c, n)
  <2>0. t2.args[c] = IF Is(e, "delta", c) THEN t.args[c] \o e.data ELSE t.args[c]
    BY <1>4 DEF Took
  <2>1. CASE ~Says(p, "delta", c) /\ t.args[c] = Upto(n)
    BY <1>1, <2>0, <2>1 DEF ArgsAre
  <2>2. ASSUME NEW i \in DOMAIN p, p[i].event = "delta", p[i].id = c,
               t.args[c] \o p[i].data = Upto(n)
        PROVE  ArgsAre(t2, q, c, n)
    <3>1. CASE i = 1
      <4>1. Is(e, "delta", c) /\ ~Says(q, "delta", c)
        BY <1>2, <2>2, <3>1 DEF Is
      <4>2. t2.args[c] = Upto(n)
        BY <2>0, <2>2, <3>1, <4>1
      <4>. QED
        BY <4>1, <4>2 DEF ArgsAre
    <3>2. CASE i # 1
      <4>1. ~Is(e, "delta", c)
        BY <1>2, <2>2, <3>2 DEF Is
      <4>2. i - 1 \in DOMAIN q /\ q[i - 1] = p[i]
        BY <1>3, <3>2
      <4>3. t2.args[c] \o q[i - 1].data = Upto(n)
        BY <2>0, <2>2, <4>1, <4>2
      <4>4. q[i - 1].event = "delta" /\ q[i - 1].id = c
        BY <2>2, <4>2
      <4>. QED
        BY <4>2, <4>3, <4>4 DEF ArgsAre
    <3>. QED
      BY <3>1, <3>2
  <2>. QED
    BY <1>7, <2>1, <2>2 DEF ArgsAre
<1>8. ASSUME NEW n, TextIs(t, p, n) PROVE TextIs(t2, q, n)
  <2>0. t2.text = IF e.event = "text" THEN t.text \o e.data ELSE t.text
    BY <1>4 DEF Took
  <2>1. CASE (\A i \in DOMAIN p : p[i].event # "text") /\ t.text = Upto(n)
    <3>1. e.event # "text" /\ \A i \in DOMAIN q : q[i].event # "text"
      BY <1>2, <2>1
    <3>. QED
      BY <2>0, <2>1, <3>1 DEF TextIs
  <2>2. ASSUME NEW i \in DOMAIN p, p[i].event = "text", t.text \o p[i].data = Upto(n),
               \A j \in DOMAIN p : p[j].event = "text" => j = i
        PROVE  TextIs(t2, q, n)
    <3>1. CASE i = 1
      <4>1. \A j \in DOMAIN q : q[j].event # "text"
        BY <1>2, <2>2, <3>1
      <4>2. t2.text = Upto(n)
        BY <2>0, <2>2, <3>1
      <4>. QED
        BY <4>1, <4>2 DEF TextIs
    <3>2. CASE i # 1
      <4>1. e.event # "text"
        BY <1>2, <2>2, <3>2
      <4>2. i - 1 \in DOMAIN q /\ q[i - 1] = p[i] /\ (i - 1) + 1 = i
        BY <1>3, <3>2
      <4>3. t2.text \o q[i - 1].data = Upto(n)
        BY <2>0, <2>2, <4>1, <4>2
      <4>4. ASSUME NEW j \in DOMAIN q, q[j].event = "text" PROVE j = i - 1
        <5>1. j + 1 = i
          BY <1>2, <2>2, <4>4
        <5>. QED
          BY <1>5, <5>1
      <4>5. q[i - 1].event = "text"
        BY <2>2, <4>2
      <4>. QED
        BY <4>2, <4>3, <4>4, <4>5 DEF TextIs
    <3>. QED
      BY <3>1, <3>2
  <2>. QED
    BY <1>8, <2>1, <2>2 DEF TextIs
<1>. QED
  BY <1>7, <1>8 DEF q

LEMMA HandedOver ==
    ASSUME NEW t, NEW p, NEW told, NEW t2, Handed(t, p, told, t2)
    PROVE  /\ Over(t2, Tail(p)) <=> Over(t, p)
           /\ p[1].event = "done" => Tail(p) = <<>>
           /\ Tail(p) # <<>> => t2.outcome = "open"
<1>. DEFINE q == Tail(p)
            e == p[1]
<1>1. /\ 1 \in DOMAIN p
      /\ \A i \in DOMAIN q : i + 1 \in DOMAIN p /\ i + 1 # 1 /\ q[i] = p[i + 1]
      /\ t.outcome = "open"
  BY HandedFacts
<1>2. \A j \in DOMAIN p : j # 1 => /\ j - 1 \in DOMAIN q /\ q[j - 1] = p[j]
  BY TailFacts DEF Handed
<1>3. MayTake(t, e, Len(p) = 1, told) /\ Took(t, e, t2)
  BY DEF Handed
<1>4. e.event = "done" => q = <<>>
  <2>1. SUFFICES ASSUME Len(p) = 1 PROVE q = <<>>
    BY <1>3 DEF MayTake
  <2>2. q \in Seq(Event) /\ Len(q) = 0
    BY <2>1, TailFacts DEF Handed
  <2>. HIDE DEF q
  <2>. QED
    BY <2>2
<1>5. t2.outcome = IF e.event = "done" THEN e.id ELSE "open"
  BY <1>1, <1>3 DEF Took
<1>6. e.event = "done" => e.id # "open"
  BY <1>3 DEF MayTake, Stops
<1>. HIDE DEF q
<1>7. CASE e.event = "done"
  BY <1>1, <1>4, <1>5, <1>6, <1>7 DEF Over, q
<1>8. CASE e.event # "done"
  BY <1>1, <1>2, <1>5, <1>8 DEF Over, q
<1>. QED
  BY <1>7, <1>8

LEMMA HandedSound ==
    ASSUME NEW t, NEW p, NEW told, NEW t2, Handed(t, p, told, t2)
    PROVE  Sound(t2, Tail(p), told)
<1>. DEFINE q == Tail(p)
            e == p[1]
<1>1. /\ \A kind, id : ~(Is(e, kind, id) /\ Says(q, kind, id))
      /\ \A i \in DOMAIN q :
           /\ i + 1 \in DOMAIN p /\ i + 1 # 1 /\ q[i] = p[i + 1]
           /\ p[i + 1].event \in Kinds /\ p[i + 1].data \in Seq(Nat)
           /\ SoundCall(t, p, i + 1) /\ SoundTool(t, p, i + 1) /\ SoundDone(t, p, i + 1, told)
  BY HandedFacts
<1>2. /\ \A c \in Calls : Says(q, "start", c) => ~Is(e, "start", c) /\ ~Is(e, "end", c)
      /\ \A s \in Tools : Says(q, "use", s) => ~Is(e, "use", s) /\ ~Is(e, "result", s)
      /\ \A c \in Calls : Says(q, "start", c) => ~Is(e, "delta", c)
  BY HandedOrder
<1>3. \A i \in DOMAIN q : \A kind, id :
        SaidBefore(p, i + 1, kind, id) <=> Is(e, kind, id) \/ SaidBefore(q, i, kind, id)
  BY TailSays DEF Handed
<1>4. /\ MayTake(t, e, Len(p) = 1, told) /\ Took(t, e, t2)
      /\ \A i, j \in DOMAIN p : p[i].event = p[j].event /\ p[i].id = p[j].id => i = j
  BY DEF Handed, Sound
<1>5. /\ Len(q) = Len(p) - 1 /\ Len(p) \in Nat
      /\ \A i \in DOMAIN q : i \in Nat
  BY TailFacts DEF Handed
<1>6. \A kind, id : \A i \in DOMAIN q : SaidBefore(q, i, kind, id) => Says(q, kind, id)
  BY DEF SaidBefore, Says
<1>7. \A i \in DOMAIN q : Says(q, q[i].event, q[i].id)
  BY DEF Says
<1>8. q # <<>> => t2.outcome = "open"
  BY HandedOver
<1>. HIDE DEF q, e
<1>9. ASSUME NEW i \in DOMAIN q, NEW j \in DOMAIN q,
             q[i].event = q[j].event, q[i].id = q[j].id
      PROVE  i = j
  <2>1. i + 1 = j + 1
    BY <1>1, <1>4, <1>9
  <2>. QED
    BY <1>5, <2>1
<1>10. ASSUME NEW i \in DOMAIN q PROVE SoundCall(t2, q, i)
  <2>. DEFINE c == q[i].id
              event == q[i].event
  <2>1. SUFFICES ASSUME event \in {"start", "delta", "end"} PROVE SoundCall(t2, q, i)
    BY DEF SoundCall
  <2>2. c = p[i + 1].id /\ event = p[i + 1].event /\ q[i].data = p[i + 1].data
        /\ SoundCall(t, p, i + 1)
    BY <1>1
  <2>3. c \in Calls
    BY <2>1, <2>2 DEF SoundCall
  <2>4. /\ t2.call[c] = IF Is(e, "start", c) THEN "streaming"
                        ELSE IF Is(e, "end", c) THEN "ended" ELSE t.call[c]
        /\ t2.args[c] = IF Is(e, "delta", c) THEN t.args[c] \o e.data ELSE t.args[c]
    BY <1>4, <2>3 DEF Took
  <2>5. ~Is(e, event, c) /\ Says(q, event, c)
    BY <1>1, <1>7
  <2>6. CASE event = "start"
    <3>1. ~Is(e, "start", c) /\ ~Is(e, "end", c) /\ ~Is(e, "delta", c)
      BY <1>2, <2>3, <2>5, <2>6
    <3>2. t.call[c] = "unseen" /\ t.args[c] = <<>>
      BY <2>2, <2>6 DEF SoundCall
    <3>. QED
      BY <2>3, <2>4, <2>6, <3>1, <3>2 DEF SoundCall
  <2>7. ASSUME event \in {"delta", "end"} PROVE Opened(t2, q, i, c)
    <3>1. Opened(t, p, i + 1, c)
      BY <2>2, <2>7 DEF SoundCall
    <3>2. CASE SaidBefore(q, i, "start", c)
      BY <3>2 DEF Opened
    <3>3. CASE Is(e, "start", c)
      BY <2>4, <3>3 DEF Opened
    <3>4. CASE t.call[c] = "streaming"
      <4>1. ~Is(e, "end", c)
        <5>1. event = "delta" => ~SaidBefore(p, i + 1, "end", c)
          BY <2>2 DEF SoundCall
        <5>. QED
          BY <1>3, <2>5, <2>7, <5>1
      <4>. QED
        BY <2>4, <3>4, <4>1 DEF Opened
    <3>. QED
      BY <1>3, <3>1, <3>2, <3>3, <3>4 DEF Opened
  <2>8. CASE event = "delta"
    <3>1. ~SaidBefore(q, i, "end", c)
      BY <1>3, <2>2, <2>8 DEF SoundCall
    <3>2. \E n \in 1 .. Frags : t.args[c] \o q[i].data = Upto(n)
      BY <2>2, <2>8 DEF SoundCall
    <3>3. t2.args[c] = t.args[c]
      BY <2>4, <2>5, <2>8
    <3>. QED
      BY <2>3, <2>7, <2>8, <3>1, <3>2, <3>3 DEF SoundCall
  <2>9. CASE event = "end"
    BY <2>3, <2>7, <2>9 DEF SoundCall
  <2>. QED
    BY <2>1, <2>6, <2>8, <2>9
<1>11. ASSUME NEW i \in DOMAIN q PROVE SoundTool(t2, q, i)
  <2>. DEFINE s == q[i].id
              event == q[i].event
  <2>1. SUFFICES ASSUME event \in {"use", "result"} PROVE SoundTool(t2, q, i)
    BY DEF SoundTool
  <2>2. s = p[i + 1].id /\ event = p[i + 1].event /\ SoundTool(t, p, i + 1)
    BY <1>1
  <2>3. s \in Tools
    BY <2>1, <2>2 DEF SoundTool
  <2>4. t2.tool[s] = IF Is(e, "use", s) THEN "announced"
                     ELSE IF Is(e, "result", s) THEN "answered" ELSE t.tool[s]
    BY <1>4, <2>3 DEF Took
  <2>5. ~Is(e, event, s) /\ Says(q, event, s)
    BY <1>1, <1>7
  <2>6. CASE event = "use"
    <3>1. ~Is(e, "use", s) /\ ~Is(e, "result", s)
      BY <1>2, <2>3, <2>5, <2>6
    <3>2. t.tool[s] = "unseen"
      BY <2>2, <2>6 DEF SoundTool
    <3>. QED
      BY <2>3, <2>4, <2>6, <3>1, <3>2 DEF SoundTool
  <2>7. CASE event = "result"
    <3>1. t.tool[s] = "announced" \/ Is(e, "use", s) \/ SaidBefore(q, i, "use", s)
      BY <1>3, <2>2, <2>7 DEF SoundTool
    <3>. QED
      BY <2>3, <2>4, <2>5, <2>7, <3>1 DEF SoundTool
  <2>. QED
    BY <2>1, <2>6, <2>7
<1>12. ASSUME NEW i \in DOMAIN q, q[i].event = "done" PROVE SoundDone(t2, q, i, told)
  <2>1. p[i + 1].event = "done" /\ p[i + 1].id = q[i].id /\ SoundDone(t, p, i + 1, told)
    BY <1>1, <1>12
  <2>2. i + 1 = Len(p) /\ q[i].id \in Stops
    BY <2>1 DEF SoundDone
  <2>3. i = Len(q)
    BY <1>5, <2>2
  <2>4. ASSUME told # "none" PROVE q[i].id = told
    BY <2>1, <2>4 DEF SoundDone
  <2>5. ASSUME told # "none", NEW c \in Calls, Opened(t2, q, i, c)
        PROVE  SaidBefore(q, i, "end", c)
    <3>1. t2.call[c] = IF Is(e, "start", c) THEN "streaming"
                       ELSE IF Is(e, "end", c) THEN "ended" ELSE t.call[c]
      BY <1>4 DEF Took
    <3>2. ~(Is(e, "start", c) /\ Is(e, "end", c))
      BY DEF Is
    <3>3. Opened(t, p, i + 1, c) /\ ~Is(e, "end", c)
      <4>1. CASE t2.call[c] = "streaming"
        BY <1>3, <3>1, <3>2, <4>1 DEF Opened
      <4>2. CASE SaidBefore(q, i, "start", c)
        BY <1>2, <1>3, <1>6, <4>2 DEF Opened
      <4>. QED
        BY <2>5, <4>1, <4>2 DEF Opened
    <3>4. SaidBefore(p, i + 1, "end", c)
      BY <2>1, <2>5, <3>3 DEF SoundDone
    <3>. QED
      BY <1>3, <3>3, <3>4
  <2>. QED
    BY <2>2, <2>3, <2>4, <2>5 DEF SoundDone
<1>13. \A i \in DOMAIN q : q[i].event \in Kinds /\ q[i].data \in Seq(Nat)
  BY <1>1
<1>14. \A i \in DOMAIN q : SoundDone(t2, q, i, told)
  BY <1>12 DEF SoundDone
<1>15. \A i, j \in DOMAIN q : q[i].event = q[j].event /\ q[i].id = q[j].id => i = j
  BY <1>9
<1>. QED
  BY <1>8, <1>10, <1>11, <1>13, <1>14, <1>15 DEF Sound, q

LEMMA LeavesFailed ==
    ASSUME StreamsInv, Leave("failed"), UNCHANGED <<adapter, srv, dec, drained>>
    PROVE  StreamsInv'
<1>1. /\ place' = "left" /\ pending' = <<>>
      /\ turn' = [turn EXCEPT !.outcome = "failed"]
      /\ TypeInv
  BY DEF Leave, StreamsInv
<1>2. turn' \in TurnType /\ turn'.outcome = "failed"
  BY <1>1 DEF TypeInv, TurnType
<1>3. <<>> \in Seq(Event)
  OBVIOUS
<1>4. TypeInv'
  BY <1>1, <1>2, <1>3 DEF TypeInv
<1>. QED
  BY <1>1, <1>2, <1>4 DEF StreamsInv, PlaceInv, Live

\* What Deliver does with an event that is no error.
Delivering ==
  /\ place = "reading" /\ place' = place
  /\ pending # <<>> /\ ~Failing
  /\ turn' = Observed(turn, pending[1])
  /\ pending' = Tail(pending)
  /\ adapter' = adapter /\ srv' = srv /\ dec' = dec /\ drained' = drained

LEMMA DeliveringFacts ==
    ASSUME StreamsInv, Delivering
    PROVE  /\ StreamInv /\ Heard = pending /\ Heard' = pending'
           /\ turn.outcome = "open"
           /\ pending' \in Seq(Event) /\ turn' \in TurnType
           /\ Handed(turn, pending, srv.told, turn')
           /\ turn'.outcome # "failed"
<1>1. /\ TypeInv /\ StreamInv /\ pending # <<>> /\ ~Failing
  BY DEF StreamsInv, PlaceInv, Delivering
<1>2. Heard = pending /\ pending \in Seq(Event) /\ turn \in TurnType
  BY <1>1 DEF Heard, TypeInv
<1>3. Sound(turn, pending, srv.told)
  BY <1>1, <1>2 DEF StreamInv
<1>4. MayTake(turn, pending[1], Len(pending) = 1, srv.told) /\ turn.outcome = "open"
  BY <1>1, <1>2, <1>3, FirstIsSound
<1>5. pending[1] \in Event /\ pending' \in Seq(Event)
  BY <1>1, <1>2, TailFacts DEF Delivering
<1>6. turn' \in TurnType /\ Took(turn, pending[1], turn')
  BY <1>2, <1>4, <1>5, ObservedFacts DEF Delivering
<1>7. Handed(turn, pending, srv.told, turn')
  BY <1>1, <1>2, <1>3, <1>4, <1>6 DEF Handed
<1>8. Sound(turn', pending', srv.told)
  BY <1>7, HandedSound DEF Delivering
<1>9. ~Failing'
  <2>1. SUFFICES ASSUME pending' # <<>> PROVE pending'[1] # Error
    BY DEF Failing
  <2>2. 1 \in DOMAIN pending'
    BY <1>5, <2>1
  <2>3. pending'[1].event \in Kinds
    BY <1>8, <2>2 DEF Sound
  <2>. QED
    BY <2>3 DEF Kinds, Error
<1>10. Heard' = pending'
  BY <1>9 DEF Heard
<1>11. turn'.outcome # "failed"
  BY <1>4, <1>6 DEF Took, MayTake, Stops
<1>. QED
  BY <1>1, <1>2, <1>4, <1>5, <1>6, <1>7, <1>10, <1>11

LEMMA DeliveringStep ==
    ASSUME StreamsInv, Delivering
    PROVE  StreamsInv'
<1>1. /\ TypeInv /\ StreamInv /\ Heard = pending /\ Heard' = pending'
      /\ turn.outcome = "open" /\ turn'.outcome # "failed"
      /\ pending' \in Seq(Event) /\ turn' \in TurnType
      /\ Handed(turn, pending, srv.told, turn')
      /\ pending' = Tail(pending)
      /\ adapter' = adapter /\ srv' = srv /\ dec' = dec /\ drained' = drained
      /\ place = "reading" /\ place' = place
  BY DeliveringFacts DEF StreamsInv, Delivering
<1>2. \A c \in Calls : CallNow(c)' = CallNow(c)
  BY <1>1, HandedSame DEF CallNow
<1>3. \A s \in Tools : ToolNow(s)' = ToolNow(s)
  BY <1>1, HandedSame DEF ToolNow
<1>4. IsOver' <=> IsOver
  BY <1>1, HandedOver DEF IsOver
<1>5. /\ \A c : Given(c)' = Given(c)
      /\ Begun' = Begun
  BY <1>1 DEF Given, Begun
<1>6. Sound(turn', Heard', srv'.told)
  BY <1>1, HandedSound
<1>7. \A c \in Calls : ArgsAre(turn', Heard', c, Given(c)')
  <2>1. \A c \in Calls : ArgsAre(turn, pending, c, Given(c))
    BY <1>1 DEF StreamInv
  <2>. QED
    BY <1>1, <1>5, <2>1, HandedData
<1>8. TextIs(turn', Heard', srv'.said)
  <2>1. TextIs(turn, pending, srv.said)
    BY <1>1 DEF StreamInv
  <2>. QED
    BY <1>1, <2>1, HandedData
<1>9. /\ MayTake(turn, pending[1], Len(pending) = 1, srv.told)
      /\ Took(turn, pending[1], turn') /\ 1 \in DOMAIN pending
  BY <1>1, HandedFacts DEF Handed
<1>10. ASSUME turn'.outcome # "open", srv.told # "none"
       PROVE  turn'.outcome = srv.told /\ \A c \in Calls : turn'.call[c] # "streaming"
  <2>1. pending[1].event = "done" /\ turn'.outcome = pending[1].id
    BY <1>1, <1>9, <1>10 DEF Took
  <2>2. \A c \in Calls : turn'.call[c] = turn.call[c]
    BY <1>9, <2>1 DEF Took, Is
  <2>. QED
    BY <1>9, <1>10, <2>1, <2>2 DEF MayTake
<1>11. ASSUME IsOver', srv.told = "none"
       PROVE  /\ drained
              /\ adapter = "responses" =>
                   /\ turn'.outcome \notin Finishes
                   /\ \A i \in DOMAIN Heard' : Heard'[i].event = "done" =>
                                                 Heard'[i].id \notin Finishes
  <2>1. /\ drained
        /\ adapter = "responses" =>
             \A i \in DOMAIN pending : pending[i].event = "done" =>
                                         pending[i].id \notin Finishes
    BY <1>1, <1>4, <1>11 DEF StreamInv
  <2>2. turn'.outcome = IF pending[1].event = "done" THEN pending[1].id ELSE "open"
    BY <1>1, <1>9 DEF Took
  <2>3. \A i \in DOMAIN pending' : i + 1 \in DOMAIN pending /\ pending'[i] = pending[i + 1]
    BY <1>1, HandedFacts
  <2>4. "open" \notin Finishes
    BY DEF Finishes
  <2>. QED
    BY <1>1, <1>9, <2>1, <2>2, <2>3, <2>4
<1>12. StreamInv'
  <2>1. /\ \A c \in Calls : srv.wire[c] = "unseen" <=> CallNow(c) = "unseen"
        /\ \A c \in Calls : srv.wire[c] = "unseen" => Given(c) = 0
        /\ adapter # "responses" => dec.whole = {}
        /\ srv.told \in Finishes => \A c \in Begun : Given(c) = Frags
    BY <1>1 DEF StreamInv
  <2>2. /\ \A c \in Calls : srv'.wire[c] = "unseen" <=> CallNow(c)' = "unseen"
        /\ \A c \in Calls : srv'.wire[c] = "unseen" => Given(c)' = 0
        /\ adapter' # "responses" => dec'.whole = {}
        /\ srv'.told \in Finishes => \A c \in Begun' : Given(c)' = Frags
    BY <1>1, <1>2, <1>5, <2>1
  <2>. QED
    BY <1>1, <1>6, <1>7, <1>8, <1>10, <1>11, <2>2 DEF StreamInv
<1>13. ASSUME Live' PROVE AdapterInv'
  <2>1. Live
    BY <1>1, <1>13 DEF Live, Failing, Delivering
  <2>2. AdapterInv
    BY <2>1 DEF StreamsInv
  <2>. QED
    BY <1>1, <1>2, <1>3, <1>4, <2>2, SameAdapter
<1>14. TypeInv' /\ PlaceInv'
  BY <1>1 DEF TypeInv, PlaceInv
<1>. QED
  BY <1>12, <1>13, <1>14 DEF StreamsInv

LEMMA DeliverSplit ==
    ASSUME StreamsInv, Deliver
    PROVE  \/ Leave("failed") /\ UNCHANGED <<adapter, srv, dec, drained>>
           \/ Delivering
<1>1. pending \in Seq(Event) /\ pending # <<>>
  BY DEF StreamsInv, TypeInv, Deliver
<1>2. Head(pending) = pending[1]
  BY <1>1
<1>. QED
  BY <1>1, <1>2 DEF Deliver, Delivering, Failing

\* Nothing the stream is made of changes.
Idle == UNCHANGED <<adapter, srv, dec, pending, drained, turn>>

LEMMA IdleStep ==
    ASSUME StreamsInv, Idle,
           place' \in {"opening", "reading", "left"},
           turn.outcome = "failed" => place' = "left",
           place' \in {"left", "opening"} => pending = <<>>
    PROVE  StreamsInv'
<1>1. /\ adapter' = adapter /\ srv' = srv /\ dec' = dec /\ pending' = pending
      /\ drained' = drained /\ turn' = turn
  BY DEF Idle
<1>2. /\ Heard' = Heard /\ (Failing' <=> Failing)
      /\ Begun' = Begun
  BY <1>1 DEF Heard, Failing, Begun
<1>3. /\ \A c \in Calls : CallNow(c)' = CallNow(c) /\ Given(c)' = Given(c)
      /\ \A s \in Tools : ToolNow(s)' = ToolNow(s)
      /\ IsOver' <=> IsOver
  BY <1>1, <1>2 DEF CallNow, Given, ToolNow, IsOver
<1>4. TypeInv' /\ PlaceInv'
  BY <1>1 DEF StreamsInv, TypeInv, PlaceInv
<1>5. ASSUME turn'.outcome # "failed" PROVE StreamInv'
  <2>1. StreamInv
    BY <1>1, <1>5 DEF StreamsInv
  <2>2. /\ \A c \in Calls : srv'.wire[c] = "unseen" <=> CallNow(c)' = "unseen"
        /\ \A c \in Calls : srv'.wire[c] = "unseen" => Given(c)' = 0
        /\ adapter' # "responses" => dec'.whole = {}
        /\ srv'.told \in Finishes => \A c \in Begun' : Given(c)' = Frags
    <3>1. /\ \A c \in Calls : srv.wire[c] = "unseen" <=> CallNow(c) = "unseen"
          /\ \A c \in Calls : srv.wire[c] = "unseen" => Given(c) = 0
          /\ adapter # "responses" => dec.whole = {}
          /\ srv.told \in Finishes => \A c \in Begun : Given(c) = Frags
      BY <2>1 DEF StreamInv
    <3>2. \A c \in Begun : c \in Calls
      BY DEF Begun
    <3>. QED
      BY <1>1, <1>2, <1>3, <3>1, <3>2
  <2>3. /\ Sound(turn', Heard', srv'.told)
        /\ TextIs(turn', Heard', srv'.said)
        /\ \A c \in Calls : ArgsAre(turn', Heard', c, Given(c)')
    BY <1>1, <1>2, <1>3, <2>1 DEF StreamInv
  <2>4. /\ turn'.outcome # "open" /\ srv'.told # "none" =>
             turn'.outcome = srv'.told /\ \A c \in Calls : turn'.call[c] # "streaming"
        /\ IsOver' /\ srv'.told = "none" =>
             /\ drained'
             /\ adapter' = "responses" =>
                  /\ turn'.outcome \notin Finishes
                  /\ \A i \in DOMAIN Heard' : Heard'[i].event = "done" =>
                                                Heard'[i].id \notin Finishes
    BY <1>1, <1>2, <1>3, <2>1 DEF StreamInv
  <2>. QED
    BY <2>2, <2>3, <2>4 DEF StreamInv
<1>6. ASSUME Live' PROVE AdapterInv'
  <2>1. AdapterInv
    BY <1>1, <1>2, <1>6 DEF StreamsInv, Live
  <2>. QED
    BY <1>1, <1>3, <2>1, SameAdapter
<1>. QED
  BY <1>4, <1>5, <1>6 DEF StreamsInv

LEMMA OpenStep ==
    ASSUME StreamsInv, Open
    PROVE  StreamsInv'
<1>0. TypeInv /\ PlaceInv
  BY DEF StreamsInv
<1>1. CASE Retry
  BY <1>0, <1>1, IdleStep DEF Retry, Idle, PlaceInv
<1>2. CASE OpenFails
  BY <1>2, LeavesFailed DEF OpenFails
<1>3. CASE Opens
  BY <1>0, <1>3, IdleStep DEF Opens, Idle, PlaceInv
<1>. QED
  BY <1>1, <1>2, <1>3 DEF Open

LEMMA AgentStep ==
    ASSUME StreamsInv, Agent
    PROVE  StreamsInv'
<1>1. CASE Deliver
  BY <1>1, DeliverSplit, DeliveringStep, LeavesFailed
<1>2. CASE StreamOver
  BY <1>2, IdleStep DEF StreamOver, Idle
<1>3. CASE Stalls
  BY <1>3, LeavesFailed DEF Stalls
<1>. QED
  BY <1>1, <1>2, <1>3 DEF Agent

LEMMA AnthropicStep ==
    ASSUME StreamsInv, Anthropic
    PROVE  StreamsInv'
BY BlockStartStep, InputJsonDeltaStep, BlockStopStep, ServerBlockStep, MessageDeltaStep,
   MessageStopStep, StreamErrorStep DEF Anthropic

LEMMA GeminiStep ==
    ASSUME StreamsInv, Gemini
    PROVE  StreamsInv'
BY FunctionCallStep, FinishReasonStep DEF Gemini

LEMMA OpenaiStep ==
    ASSUME StreamsInv, Openai
    PROVE  StreamsInv'
BY ToolCallDeltaStep, ChoiceFinishStep, DoneMarkerStep DEF Openai

LEMMA GrpcStep ==
    ASSUME StreamsInv, Grpc
    PROVE  StreamsInv'
BY ToolCallChunkStep, ServerCallChunkStep, FinishChunkStep DEF Grpc

LEMMA ResponsesStep ==
    ASSUME StreamsInv, Responses
    PROVE  StreamsInv'
BY ItemAddedStep, ArgumentsDeltaStep, ArgumentsDoneStep, ItemDoneStep, ServerItemStep,
   TerminalStep, ResponseFailedStep DEF Responses

LEMMA ClaudeStep ==
    ASSUME StreamsInv, Claude
    PROVE  StreamsInv'
BY PartialTextStep, AssistantMessageStep, ResultLineStep DEF Claude

LEMMA StreamsStep ==
    ASSUME StreamsInv, [Next]_vars
    PROVE  StreamsInv'
<1>1. CASE Next
  BY <1>1, OpenStep, TextStep, AnthropicStep, GeminiStep, OpenaiStep, GrpcStep,
     ResponsesStep, ClaudeStep, EofStep, ResetStep, AgentStep DEF Next
<1>2. CASE UNCHANGED vars
  BY <1>2, IdleStep DEF vars, opening, Idle, StreamsInv, TypeInv, PlaceInv
<1>. QED
  BY <1>1, <1>2

LEMMA StreamsInit ==
    ASSUME Init
    PROVE  StreamsInv
<1>1. /\ adapter \in Adapters /\ place = "opening" /\ pending = <<>> /\ drained = FALSE
      /\ srv = [wire |-> [c \in Calls |-> "unseen"], sent |-> [c \in Calls |-> 0],
                tool |-> [s \in Tools |-> {}], said |-> 0, assembled |-> FALSE,
                told |-> "none", bye |-> FALSE]
      /\ dec = [blocks |-> {}, calls |-> <<>>, sent |-> {}, whole |-> {}, closed |-> {},
                last |-> <<>>, noted |-> <<>>, hinted |-> {}, announced |-> {},
                partial |-> FALSE, stop |-> "none", done |-> FALSE]
      /\ turn = [call |-> [c \in Calls |-> "unseen"], args |-> [c \in Calls |-> <<>>],
                 tool |-> [s \in Tools |-> "unseen"], text |-> <<>>, outcome |-> "open"]
  BY DEF Init
<1>2. /\ \A c \in Calls : srv.wire[c] = "unseen" /\ srv.sent[c] = 0
      /\ \A s \in Tools : srv.tool[s] = {}
      /\ srv.said = 0 /\ srv.told = "none" /\ srv.assembled = FALSE
  BY <1>1
<1>3. /\ \A c \in Calls : turn.call[c] = "unseen" /\ turn.args[c] = <<>>
      /\ \A s \in Tools : turn.tool[s] = "unseen"
      /\ turn.text = <<>> /\ turn.outcome = "open"
  BY <1>1
<1>4. /\ dec.blocks = {} /\ dec.calls = <<>> /\ dec.sent = {} /\ dec.whole = {}
      /\ dec.closed = {} /\ dec.noted = <<>> /\ dec.announced = {}
      /\ dec.partial = FALSE /\ dec.stop = "none"
  BY <1>1
<1>5. TypeInv
  <2>1. /\ Texts \in Nat /\ Frags \in Nat
        /\ 0 \in 0 .. Texts /\ 0 \in 0 .. Frags
    BY StreamAssumption
  <2>2. srv \in SrvType
    BY <1>1, <2>1 DEF SrvType, Told
  <2>3. dec \in DecType
    <3>1. <<>> \in Seq(Calls) /\ <<>> \in Seq(Tools)
      OBVIOUS
    <3>2. "none" \in Told
      BY DEF Told
    <3>. QED
      BY <1>1, <3>1, <3>2 DEF DecType
  <2>4. turn \in TurnType
    <3>1. <<>> \in Seq(Nat)
      OBVIOUS
    <3>. QED
      BY <1>1, <3>1 DEF TurnType, CallStates, ToolStates
  <2>5. /\ adapter \in Adapters /\ place \in {"opening", "reading", "left"}
        /\ drained \in BOOLEAN /\ pending \in Seq(Event)
    <3>1. <<>> \in Seq(Event)
      OBVIOUS
    <3>. QED
      BY <1>1, <3>1
  <2>. QED
    BY <2>2, <2>3, <2>4, <2>5 DEF TypeInv
<1>6. ~Failing /\ Heard = <<>>
  BY <1>1 DEF Failing, Heard
<1>7. /\ \A c \in Calls : CallNow(c) = "unseen"
      /\ \A s \in Tools : ToolNow(s) = "unseen"
      /\ ~IsOver
  BY <1>3, <1>6 DEF CallNow, ToolNow, IsOver, CallAfter, ToolAfter, Over, Says
<1>8. /\ \A c \in Calls : Given(c) = 0
      /\ Begun = {}
  BY <1>2, <1>4 DEF Given, Begun
<1>9. Upto(0) = <<>>
  BY DEF Upto
<1>10. StreamInv
  <2>1. Sound(turn, Heard, srv.told)
    BY <1>3, <1>6 DEF Sound
  <2>2. \A c \in Calls : ArgsAre(turn, Heard, c, Given(c))
    BY <1>3, <1>6, <1>8, <1>9 DEF ArgsAre, Says
  <2>3. TextIs(turn, Heard, srv.said)
    BY <1>2, <1>3, <1>6, <1>9 DEF TextIs
  <2>. QED
    BY <1>2, <1>3, <1>4, <1>7, <1>8, <2>1, <2>2, <2>3 DEF StreamInv
<1>11. AdapterInv
  <2>1. Unsaid /\ ToSet(dec.calls) = {} /\ ToSet(dec.noted) = {}
    BY <1>2, <1>4 DEF Unsaid, ToSet
  <2>2. Distinct(dec.calls) /\ Distinct(dec.noted)
    BY <1>4 DEF Distinct
  <2>3. AnthropicInv
    BY <1>2, <1>4, <1>7, <2>1 DEF AnthropicInv
  <2>4. GeminiInv
    BY <1>2, <1>4, <1>7, <2>1 DEF GeminiInv
  <2>5. OpenaiInv
    BY <1>2, <1>4, <1>7, <2>1, <2>2 DEF OpenaiInv
  <2>6. GrpcInv
    BY <1>2, <1>4, <1>7, <2>1, <2>2 DEF GrpcInv
  <2>7. ResponsesInv
    BY <1>2, <1>4, <1>7, <1>8, <2>1, <2>2 DEF ResponsesInv
  <2>8. ClaudeInv
    BY <1>2, <1>4, <1>7, <2>1 DEF ClaudeInv
  <2>. QED
    BY <2>3, <2>4, <2>5, <2>6, <2>7, <2>8 DEF AdapterInv
<1>12. PlaceInv
  BY <1>1, <1>3 DEF PlaceInv
<1>. QED
  BY <1>5, <1>10, <1>11, <1>12 DEF StreamsInv

\* Whatever the adapter, the frames and the place where the connection ends, every
\* decoder and turn that the program reaches satisfies the inductive invariant: it has
\* the type the code gives it, and the events still to be handed over are what is
\* missing between the turn and what the provider has sent.
THEOREM StreamsInvariant == Spec => []StreamsInv
<1>1. Init => StreamsInv
  BY StreamsInit
<1>2. StreamsInv /\ [Next]_vars => StreamsInv'
  BY StreamsStep
<1>. QED
  BY <1>1, <1>2, PTL DEF Spec

\* A stream that is over has nothing left to be handed over.
LEMMA OverIsQuiet ==
    ASSUME StreamsInv, turn.outcome \notin {"open", "failed"}
    PROVE  /\ StreamInv /\ Heard = <<>>
           /\ \A c \in Calls : CallNow(c) = turn.call[c] /\ turn.args[c] = Upto(Given(c))
           /\ turn.text = Upto(srv.said)
           /\ IsOver
<1>1. StreamInv
  BY DEF StreamsInv
<1>2. Heard = <<>>
  BY <1>1 DEF StreamInv, Sound
<1>3. \A c \in Calls : CallNow(c) = turn.call[c]
  BY <1>2 DEF CallNow, CallAfter, Says
<1>4. \A c \in Calls : turn.args[c] = Upto(Given(c))
  BY <1>1, <1>2 DEF StreamInv, ArgsAre, Says
<1>5. turn.text = Upto(srv.said)
  BY <1>1, <1>2 DEF StreamInv, TextIs
<1>6. IsOver
  BY DEF IsOver, Over
<1>. QED
  BY <1>1, <1>2, <1>3, <1>4, <1>5, <1>6

LEMMA ExactNow ==
    ASSUME StreamsInv
    PROVE  AnswerIsExact
<1>1. SUFFICES ASSUME Finished
               PROVE  /\ \A c \in Calls : IF c \in Begun
                                          THEN turn.call[c] = "ended" /\ turn.args[c] = Whole
                                          ELSE turn.call[c] = "unseen"
                      /\ turn.text = [i \in 1 .. srv.said |-> i]
  BY DEF AnswerIsExact
<1>2. turn.outcome \notin {"open", "failed"} /\ srv.told \in Finishes /\ srv.told # "none"
  BY <1>1 DEF Finished, Finishes
<1>3. /\ StreamInv
      /\ \A c \in Calls : CallNow(c) = turn.call[c] /\ turn.args[c] = Upto(Given(c))
      /\ turn.text = Upto(srv.said)
  BY <1>2, OverIsQuiet
<1>4. /\ \A c \in Calls : srv.wire[c] = "unseen" <=> turn.call[c] = "unseen"
      /\ \A c \in Begun : Given(c) = Frags
      /\ \A c \in Calls : turn.call[c] # "streaming"
  BY <1>2, <1>3 DEF StreamInv
<1>5. \A c \in Calls : turn.call[c] \in CallStates
  BY DEF StreamsInv, TypeInv, TurnType
<1>6. ASSUME NEW c \in Calls
      PROVE  IF c \in Begun THEN turn.call[c] = "ended" /\ turn.args[c] = Whole
             ELSE turn.call[c] = "unseen"
  <2>1. c \in Begun <=> srv.wire[c] # "unseen"
    BY DEF Begun
  <2>2. c \in Begun => turn.args[c] = Whole
    BY <1>3, <1>4 DEF Upto, Whole
  <2>. QED
    BY <1>4, <1>5, <2>1, <2>2 DEF CallStates
<1>. QED
  BY <1>3, <1>6 DEF Upto

LEMMA NoEndNow ==
    ASSUME StreamsInv
    PROVE  CutIsNotAnEnd
<1>1. SUFFICES ASSUME turn.outcome \in Finishes, srv.told \notin Finishes
               PROVE  adapter # "responses" /\ drained /\ srv.told = "none"
  BY DEF CutIsNotAnEnd, Finishes
<1>2. StreamInv /\ IsOver /\ turn.outcome # "open"
  BY <1>1, OverIsQuiet DEF Finishes
<1>3. srv.told = "none"
  BY <1>1, <1>2 DEF StreamInv
<1>. QED
  BY <1>1, <1>2, <1>3 DEF StreamInv

\* A finished answer is exact on every adapter: each call the provider made is in the
\* turn, ended, its arguments once and in order, and no other; the text is there once.
\* What the Responses transport repeats (deltas, blob, terminal frame) and what claude
\* repeats (partial lines, assembled message) is for any number of calls and fragments
\* taken once.
THEOREM AnswerIsExactAlways == Spec => []AnswerIsExact
<1>1. StreamsInv => AnswerIsExact
  BY ExactNow
<1>. QED
  BY <1>1, StreamsInvariant, PTL

\* An answer the provider did not finish is taken for a finished one only where the
\* connection was closed, not reset, and never on the Responses transport, whose final
\* flush without a terminal frame says "incomplete".
THEOREM CutIsNotAnEndAlways == Spec => []CutIsNotAnEnd
<1>1. StreamsInv => CutIsNotAnEnd
  BY NoEndNow
<1>. QED
  BY <1>1, StreamsInvariant, PTL

----------------------------------------------------------------------------
\* The refinement of EventStream

\* What the turn and the provider's word are to EventStream.
contract == <<turn.call, turn.args, turn.tool, srv.told, turn.outcome>>

\* The fragments that follow s up to the n-th are those Extend appends.
LEMMA FragmentsFollow ==
    ASSUME NEW s \in Seq(Nat), NEW d \in Seq(Nat), NEW n \in 1 .. Frags, s \o d = Upto(n)
    PROVE  d = SubSeq(Whole, Len(s) + 1, n)
<1>. DEFINE m == Len(s)
            x == SubSeq(Whole, m + 1, n)
<1>1. Frags \in Nat /\ n \in Nat /\ n <= Frags
  BY StreamAssumption
<1>2. Whole \in Seq(Nat) /\ Len(Whole) = Frags /\ \A k \in 1 .. Frags : Whole[k] = k
  BY <1>1 DEF Whole
<1>3. /\ Upto(n) \in Seq(Nat) /\ Len(Upto(n)) = n /\ \A k \in 1 .. n : Upto(n)[k] = k
  BY <1>1 DEF Upto
<1>4. m \in Nat /\ Len(d) \in Nat /\ m + Len(d) = n
  BY <1>3
<1>5. \A k \in 1 .. Len(d) : d[k] = m + k
  <2>1. \A k \in 1 .. Len(d) : (s \o d)[m + k] = d[k]
    BY <1>4
  <2>2. \A k \in 1 .. Len(d) : m + k \in 1 .. n
    BY <1>4
  <2>. QED
    BY <1>3, <2>1, <2>2
<1>6. x \in Seq(Nat) /\ Len(x) = Len(d) /\ \A k \in 1 .. Len(d) : x[k] = m + k
  <2>1. m + 1 \in Nat /\ m + 1 >= 1 /\ n - (m + 1) + 1 = Len(d) /\ m + 1 <= n + 1
    BY <1>4
  <2>2. x = [k \in 1 .. Len(d) |-> Whole[m + k]]
    BY <1>1, <1>2, <1>4, <2>1
  <2>3. \A k \in 1 .. Len(d) : m + k \in 1 .. Frags
    BY <1>1, <1>4
  <2>. HIDE DEF x
  <2>. QED
    BY <1>2, <1>4, <2>2, <2>3
<1>. HIDE DEF x, m
<1>7. d = x
  <2>1. Len(d) = Len(x) /\ \A k \in 1 .. Len(d) : d[k] = x[k]
    BY <1>5, <1>6
  <2>. QED
    BY <1>6, <2>1, SeqEqual
<1>. QED
  BY <1>7 DEF x, m

LEMMA DeliveringContract ==
    ASSUME StreamsInv, Delivering
    PROVE  [Contract!Next]_contract
<1>. DEFINE e == pending[1]
<1>1. /\ MayTake(turn, e, Len(pending) = 1, srv.told) /\ Took(turn, e, turn')
      /\ turn.outcome = "open" /\ srv'.told = srv.told
  BY DeliveringFacts DEF Handed, Delivering
<1>2. /\ turn.call \in [Calls -> CallStates] /\ turn'.call \in [Calls -> CallStates]
      /\ turn.args \in [Calls -> Seq(Nat)] /\ turn'.args \in [Calls -> Seq(Nat)]
      /\ turn.tool \in [Tools -> ToolStates] /\ turn'.tool \in [Tools -> ToolStates]
  BY DeliveringFacts DEF StreamsInv, TypeInv, TurnType
<1>3. turn'.outcome = IF e.event = "done" THEN e.id ELSE "open"
  BY <1>1 DEF Took
<1>4. e.event \notin {"start", "end"} => turn'.call = turn.call
  <2>1. SUFFICES ASSUME e.event \notin {"start", "end"}
                 PROVE  \A c \in Calls : turn'.call[c] = turn.call[c]
    BY <1>2
  <2>. QED
    BY <1>1, <2>1 DEF Took, Is
<1>5. e.event # "delta" => turn'.args = turn.args
  <2>1. SUFFICES ASSUME e.event # "delta"
                 PROVE  \A c \in Calls : turn'.args[c] = turn.args[c]
    BY <1>2
  <2>. QED
    BY <1>1, <2>1 DEF Took, Is
<1>6. e.event \notin {"use", "result"} => turn'.tool = turn.tool
  <2>1. SUFFICES ASSUME e.event \notin {"use", "result"}
                 PROVE  \A s \in Tools : turn'.tool[s] = turn.tool[s]
    BY <1>2
  <2>. QED
    BY <1>1, <2>1 DEF Took, Is
<1>. HIDE DEF e
<1>7. ASSUME e.event = "start" PROVE Contract!Next
  <2>. DEFINE c == e.id
  <2>1. c \in Calls /\ turn.call[c] = "unseen"
    BY <1>1, <1>7 DEF MayTake
  <2>2. \A d \in Calls : turn'.call[d] = IF d = c THEN "streaming" ELSE turn.call[d]
    BY <1>1, <1>7 DEF Took, Is
  <2>. HIDE DEF c
  <2>3. turn'.call = [turn.call EXCEPT ![c] = "streaming"]
    BY <1>2, <2>1, <2>2
  <2>4. Contract!Begin(c)
    BY <1>1, <1>3, <1>5, <1>6, <1>7, <2>1, <2>3 DEF Contract!Begin
  <2>. QED
    BY <2>1, <2>4 DEF Contract!Next
<1>8. ASSUME e.event = "delta" PROVE Contract!Next
  <2>. DEFINE c == e.id
  <2>1. c \in Calls /\ turn.call[c] = "streaming" /\ e.data \in Seq(Nat)
    BY <1>1, <1>8 DEF MayTake
  <2>2. PICK n \in 1 .. Frags : turn.args[c] \o e.data = Upto(n)
    BY <1>1, <1>8 DEF MayTake
  <2>3. e.data = SubSeq(Whole, Len(turn.args[c]) + 1, n)
    <3>1. turn.args[c] \in Seq(Nat)
      BY <1>2, <2>1
    <3>. QED
      BY <2>1, <2>2, <3>1, FragmentsFollow
  <2>4. \A d \in Calls : turn'.args[d] = IF d = c THEN turn.args[d] \o e.data ELSE turn.args[d]
    BY <1>1, <1>8 DEF Took, Is
  <2>. HIDE DEF c
  <2>5. turn'.args = [turn.args EXCEPT ![c] = turn.args[c] \o e.data]
    BY <1>2, <2>1, <2>4
  <2>6. Contract!Whole = Whole
    BY DEF Contract!Whole, Whole
  <2>7. Contract!Extend(c, n)
    BY <1>1, <1>3, <1>4, <1>6, <1>8, <2>1, <2>3, <2>5, <2>6 DEF Contract!Extend
  <2>. QED
    BY <2>1, <2>7 DEF Contract!Next
<1>9. ASSUME e.event = "end" PROVE Contract!Next
  <2>. DEFINE c == e.id
  <2>1. c \in Calls /\ turn.call[c] = "streaming"
    BY <1>1, <1>9 DEF MayTake
  <2>2. \A d \in Calls : turn'.call[d] = IF d = c THEN "ended" ELSE turn.call[d]
    BY <1>1, <1>9 DEF Took, Is
  <2>. HIDE DEF c
  <2>3. turn'.call = [turn.call EXCEPT ![c] = "ended"]
    BY <1>2, <2>1, <2>2
  <2>4. Contract!End(c)
    BY <1>1, <1>3, <1>5, <1>6, <1>9, <2>1, <2>3 DEF Contract!End
  <2>. QED
    BY <2>1, <2>4 DEF Contract!Next
<1>10. ASSUME e.event = "use" PROVE Contract!Next
  <2>. DEFINE s == e.id
  <2>1. s \in Tools /\ turn.tool[s] = "unseen"
    BY <1>1, <1>10 DEF MayTake
  <2>2. \A z \in Tools : turn'.tool[z] = IF z = s THEN "announced" ELSE turn.tool[z]
    BY <1>1, <1>10 DEF Took, Is
  <2>. HIDE DEF s
  <2>3. turn'.tool = [turn.tool EXCEPT ![s] = "announced"]
    BY <1>2, <2>1, <2>2
  <2>4. Contract!Announce(s)
    BY <1>1, <1>3, <1>4, <1>5, <1>10, <2>1, <2>3 DEF Contract!Announce
  <2>. QED
    BY <2>1, <2>4 DEF Contract!Next
<1>11. ASSUME e.event = "result" PROVE Contract!Next
  <2>. DEFINE s == e.id
  <2>1. s \in Tools /\ turn.tool[s] = "announced"
    BY <1>1, <1>11 DEF MayTake
  <2>2. \A z \in Tools : turn'.tool[z] = IF z = s THEN "answered" ELSE turn.tool[z]
    BY <1>1, <1>11 DEF Took, Is
  <2>. HIDE DEF s
  <2>3. turn'.tool = [turn.tool EXCEPT ![s] = "answered"]
    BY <1>2, <2>1, <2>2
  <2>4. Contract!Answer(s)
    BY <1>1, <1>3, <1>4, <1>5, <1>11, <2>1, <2>3 DEF Contract!Answer
  <2>. QED
    BY <2>1, <2>4 DEF Contract!Next
<1>12. ASSUME e.event = "text" PROVE UNCHANGED contract
  BY <1>1, <1>3, <1>4, <1>5, <1>6, <1>12 DEF contract
<1>13. ASSUME e.event = "done" PROVE Contract!Next
  <2>1. /\ e.id \in Stops /\ turn'.outcome = e.id
        /\ srv.told # "none" => e.id = srv.told /\ \A c \in Calls : turn.call[c] # "streaming"
    BY <1>1, <1>3, <1>13 DEF MayTake
  <2>2. e.id \notin {"open", "failed"}
    BY <2>1 DEF Stops
  <2>3. Contract!Done
    BY <1>1, <1>4, <1>5, <1>6, <1>13, <2>1, <2>2 DEF Contract!Done
  <2>. QED
    BY <2>3 DEF Contract!Next
<1>. QED
  BY <1>1, <1>7, <1>8, <1>9, <1>10, <1>11, <1>12, <1>13 DEF MayTake, Kinds

\* A frame leaves the turn alone, and the provider says once how its answer ended.
Tells == turn' = turn /\ (srv'.told = srv.told \/ Unsaid)

LEMMA OthersTell ==
    ASSUME TypeInv, TextFrame \/ Anthropic \/ Gemini \/ Openai
    PROVE  Tells
<1>1. srv \in SrvType
  BY DEF TypeInv
<1>2. TextFrame => Tells
  BY DEF TextFrame, Reads, Tells
<1>3. Anthropic => Tells
  <2>1. \A c \in Calls : BlockStart(c) => Tells
    BY DEF BlockStart, Reads, Tells
  <2>2. \A c \in Calls : InputJsonDelta(c) \/ BlockStop(c) => Tells
    BY DEF InputJsonDelta, BlockStop, Streaming, Reads, Tells
  <2>3. \A s \in Tools : ServerBlock(s) => Tells
    BY DEF ServerBlock, Reads, Tells
  <2>4. \A r \in Reasons : MessageDelta(r) => Tells
    BY DEF MessageDelta, Verdict, Reads, Tells
  <2>5. MessageStop \/ StreamError => Tells
    BY <1>1 DEF MessageStop, StreamError, Reads, Tells, SrvType
  <2>. QED
    BY <2>1, <2>2, <2>3, <2>4, <2>5 DEF Anthropic
<1>4. Gemini => Tells
  BY DEF Gemini, FunctionCall, FinishReason, Verdict, Reads, Tells
<1>5. Openai => Tells
  <2>1. \A c \in Calls : ToolCallDelta(c) => Tells
    BY DEF ToolCallDelta, Reads, Tells
  <2>2. \A r \in Reasons : ChoiceFinish(r) => Tells
    BY DEF ChoiceFinish, Verdict, Reads, Tells
  <2>3. DoneMarker => Tells
    BY <1>1 DEF DoneMarker, Reads, Tells, SrvType
  <2>. QED
    BY <2>1, <2>2, <2>3 DEF Openai
<1>. QED
  BY <1>2, <1>3, <1>4, <1>5

LEMMA FramesTell ==
    ASSUME TypeInv, TextFrame \/ Anthropic \/ Gemini \/ Openai \/ Grpc \/ Responses \/ Claude
                      \/ Eof \/ Reset
    PROVE  Tells
<1>1. srv \in SrvType
  BY DEF TypeInv
<1>2. Grpc => Tells
  <2>1. \A c \in Calls, named \in BOOLEAN : ToolCallChunk(c, named) => Tells
    BY DEF ToolCallChunk, Reads, Tells
  <2>2. \A s \in Tools, hint \in BOOLEAN : ServerCallChunk(s, hint) => Tells
    BY DEF ServerCallChunk, Reads, Tells
  <2>3. \A r \in Reasons : FinishChunk(r) => Tells
    BY DEF FinishChunk, Verdict, Reads, Tells
  <2>. QED
    BY <2>1, <2>2, <2>3 DEF Grpc
<1>3. Responses => Tells
  <2>1. \A c \in Calls, blob \in BOOLEAN : ItemAdded(c, blob) => Tells
    BY DEF ItemAdded, Reads, Tells
  <2>2. \A c \in Calls : ArgumentsDelta(c) \/ ArgumentsDone(c) => Tells
    BY DEF ArgumentsDelta, ArgumentsDone, Streaming, Reads, Tells
  <2>3. \A c \in Calls : ItemDone(c) => Tells
    BY DEF ItemDone, Reads, Tells
  <2>4. \A s \in Tools, hint \in BOOLEAN, frame \in {"added", "searching", "completed", "done"} :
          ServerItem(s, frame, hint) => Tells
    BY DEF ServerItem, Reads, Tells
  <2>5. \A r \in {"completed", "incomplete"} : Terminal(r) => Tells
    BY DEF Terminal, Reads, Tells
  <2>6. ResponseFailed => Tells
    BY <1>1 DEF ResponseFailed, Reads, Tells, SrvType
  <2>. QED
    BY <2>1, <2>2, <2>3, <2>4, <2>5, <2>6 DEF Responses
<1>4. Claude => Tells
  <2>1. PartialText \/ AssistantMessage => Tells
    BY DEF PartialText, AssistantMessage, Reads, Tells
  <2>2. \A failed \in BOOLEAN : ResultLine(failed) => Tells
    BY DEF ResultLine, Reads, Tells
  <2>. QED
    BY <2>1, <2>2 DEF Claude
<1>5. Eof \/ Reset => Tells
  BY DEF Eof, Reset, Ending, Tells
<1>. QED
  BY <1>2, <1>3, <1>4, <1>5, OthersTell

LEMMA TellsContract ==
    ASSUME Tells
    PROVE  [Contract!Next]_contract
<1>1. CASE srv'.told = srv.told
  BY <1>1 DEF Tells, contract
<1>2. CASE srv'.told # srv.told
  <2>1. Contract!Tell
    BY <1>2 DEF Tells, Unsaid, Contract!Tell
  <2>. QED
    BY <2>1 DEF Contract!Next
<1>. QED
  BY <1>1, <1>2

LEMMA FailsContract ==
    ASSUME StreamsInv, Leave("failed"), srv' = srv
    PROVE  [Contract!Next]_contract
<1>1. turn \in TurnType /\ turn' = [turn EXCEPT !.outcome = "failed"]
  BY DEF StreamsInv, TypeInv, Leave
<1>2. /\ turn'.call = turn.call /\ turn'.args = turn.args /\ turn'.tool = turn.tool
      /\ turn'.outcome = "failed"
  BY <1>1 DEF TurnType
<1>3. Contract!Fail
  BY <1>2 DEF Contract!Fail
<1>. QED
  BY <1>3 DEF Contract!Next

LEMMA ContractInit ==
    ASSUME Init
    PROVE  Contract!Init
<1>1. /\ turn = [call |-> [c \in Calls |-> "unseen"], args |-> [c \in Calls |-> <<>>],
                 tool |-> [s \in Tools |-> "unseen"], text |-> <<>>, outcome |-> "open"]
      /\ srv.told = "none"
  BY DEF Init
<1>2. /\ turn.call = [c \in Calls |-> "unseen"] /\ turn.args = [c \in Calls |-> <<>>]
      /\ turn.tool = [s \in Tools |-> "unseen"] /\ turn.outcome = "open"
  BY <1>1
<1>. QED
  BY <1>1, <1>2 DEF Contract!Init

LEMMA ContractStep ==
    ASSUME StreamsInv, [Next]_vars
    PROVE  [Contract!Next]_contract
<1>1. CASE Open
  <2>1. CASE Retry \/ Opens
    BY <2>1 DEF Retry, Opens, contract
  <2>2. CASE OpenFails
    BY <2>2, FailsContract DEF OpenFails
  <2>. QED
    BY <1>1, <2>1, <2>2 DEF Open
<1>2. CASE TextFrame \/ Anthropic \/ Gemini \/ Openai \/ Grpc \/ Responses \/ Claude
             \/ Eof \/ Reset
  <2>1. TypeInv
    BY DEF StreamsInv
  <2>2. Tells
    BY <1>2, <2>1, FramesTell
  <2>. QED
    BY <2>2, TellsContract
<1>3. CASE Agent
  <2>1. CASE Deliver
    <3>1. CASE Delivering
      BY <3>1, DeliveringContract
    <3>2. CASE ~Delivering
      BY <2>1, <3>2, DeliverSplit, FailsContract
    <3>. QED
      BY <3>1, <3>2
  <2>2. CASE StreamOver
    BY <2>2 DEF StreamOver, contract
  <2>3. CASE Stalls
    BY <2>3, FailsContract DEF Stalls
  <2>. QED
    BY <1>3, <2>1, <2>2, <2>3 DEF Agent
<1>4. CASE UNCHANGED vars
  BY <1>4 DEF vars, contract
<1>. QED
  BY <1>1, <1>2, <1>3, <1>4 DEF Next

\* Each adapter, on any order of its frames that the wire protocol allows, cut off
\* anywhere, hands the agent a stream that keeps the contract of Event: a call is begun
\* once and ended once, its fragments come in order and none twice, Done is the last
\* event, and when the provider said how its answer ended, Done says the same and no
\* call is left open.
THEOREM Refinement == Spec => ImplementsEventStream
<1>1. Init => Contract!Init
  BY ContractInit
<1>2. StreamsInv /\ [Next]_vars => [Contract!Next]_contract
  BY ContractStep
<1>. QED
  BY <1>1, <1>2, StreamsInvariant, PTL
     DEF Spec, ImplementsEventStream, Contract!Spec, Contract!vars, contract

----------------------------------------------------------------------------
\* The retries of a request

\* The backoffs of the first n retries together.
Backoffs(n) == IF n < 4 THEN 2 ^ (n + 1) - 2 ELSE 32 * n - 98

WaitInv ==
  /\ attempt \in 0 .. MaxRetries
  /\ waited \in Nat
  /\ waited = Backoffs(attempt)

LEMMA BackoffsFacts ==
    ASSUME NEW n \in Nat
    PROVE  /\ Backoff(n) \in Nat /\ Backoffs(n) \in Nat
           /\ Backoffs(n + 1) = Backoffs(n) + Backoff(n)
           /\ Backoffs(0) = 0
           /\ Backoffs(n) <= 30 \/ Backoffs(n) = 32 * n - 98
<1>1. 2 ^ 1 = 2 /\ 2 ^ 2 = 4 /\ 2 ^ 3 = 8 /\ 2 ^ 4 = 16
  OBVIOUS
<1>2. /\ Backoff(0) = 2 /\ Backoff(1) = 4 /\ Backoff(2) = 8 /\ Backoff(3) = 16
      /\ Backoffs(0) = 0 /\ Backoffs(1) = 2 /\ Backoffs(2) = 6 /\ Backoffs(3) = 14
      /\ Backoffs(4) = 30
  BY <1>1 DEF Backoff, Backoffs
<1>3. CASE n < 4
  <2>1. n \in {0, 1, 2, 3}
    BY <1>3
  <2>. QED
    BY <1>2, <2>1
<1>4. CASE ~(n < 4)
  BY <1>2, <1>4 DEF Backoff, Backoffs
<1>. QED
  BY <1>3, <1>4

LEMMA WaitStep ==
    ASSUME WaitInv, [Next]_vars
    PROVE  WaitInv'
<1>1. CASE Retry
  <2>1. attempt \in Nat /\ attempt + 1 \in 0 .. MaxRetries
    BY <1>1, StreamAssumption DEF WaitInv, Retry
  <2>2. waited' = waited + Backoff(attempt) /\ attempt' = attempt + 1
    BY <1>1 DEF Retry
  <2>. QED
    BY <2>1, <2>2, BackoffsFacts DEF WaitInv
<1>2. CASE Opens
  <2>1. attempt' = 0 /\ waited' = 0 /\ 0 \in 0 .. MaxRetries
    BY <1>2, StreamAssumption DEF Opens
  <2>. QED
    BY <2>1, BackoffsFacts DEF WaitInv
<1>3. CASE UNCHANGED <<attempt, waited>>
  BY <1>3 DEF WaitInv
<1>4. TextFrame => UNCHANGED <<attempt, waited>>
  BY DEF TextFrame, Reads, opening
<1>5. Anthropic \/ Gemini \/ Openai => UNCHANGED <<attempt, waited>>
  BY DEF Anthropic, BlockStart, InputJsonDelta, BlockStop, ServerBlock, MessageDelta,
     MessageStop, StreamError, Gemini, FunctionCall, FinishReason, Openai, ToolCallDelta,
     ChoiceFinish, DoneMarker, Reads, opening
<1>6. Grpc \/ Claude => UNCHANGED <<attempt, waited>>
  BY DEF Grpc, ToolCallChunk, ServerCallChunk, FinishChunk,
     Claude, PartialText, AssistantMessage, ResultLine, Reads, opening
<1>7. Responses => UNCHANGED <<attempt, waited>>
  BY DEF Responses, ItemAdded, ArgumentsDelta, ArgumentsDone, ItemDone, ServerItem,
     Terminal, ResponseFailed, Reads, opening
<1>8. Eof \/ Reset \/ Agent \/ OpenFails => UNCHANGED <<attempt, waited>>
  BY DEF Eof, Reset, Ending, Agent, Deliver, StreamOver, Stalls, OpenFails, opening
<1>9. UNCHANGED vars => UNCHANGED <<attempt, waited>>
  BY DEF vars, opening
<1>. QED
  BY <1>1, <1>2, <1>3, <1>4, <1>5, <1>6, <1>7, <1>8, <1>9 DEF Next, Open

\* The backoffs of retry_transient, all taken, end before the agent gives up the
\* request, for any number of retries whose sum is below STREAM_IDLE_TIMEOUT.  The
\* hypotheses say just that: 2 + 4 + 8 + 16 is 30, and each retry after the fourth adds
\* 32.  The code's defaults, six retries and 120 seconds, satisfy them; seven do not.
THEOREM RetriesFitAlways ==
    ASSUME 30 < IdleTimeout, 32 * MaxRetries - 98 < IdleTimeout
    PROVE  Spec => []RetriesFitTheWait
<1>1. Init => WaitInv
  BY StreamAssumption, BackoffsFacts DEF Init, WaitInv
<1>2. WaitInv /\ [Next]_vars => WaitInv'
  BY WaitStep
<1>3. WaitInv => RetriesFitTheWait
  <2>1. SUFFICES ASSUME WaitInv PROVE waited < IdleTimeout
    BY DEF RetriesFitTheWait
  <2>2. /\ attempt \in Nat /\ attempt <= MaxRetries
        /\ waited \in Nat /\ waited = Backoffs(attempt)
    BY <2>1, StreamAssumption DEF WaitInv
  <2>3. MaxRetries \in Nat /\ IdleTimeout \in Nat
    BY StreamAssumption
  <2>4. waited <= 30 \/ waited = 32 * attempt - 98
    BY <2>2, BackoffsFacts
  <2>5. 32 * attempt <= 32 * MaxRetries
    BY <2>2, <2>3
  <2>. QED
    BY <2>2, <2>3, <2>4, <2>5
<1>. QED
  BY <1>1, <1>2, <1>3, PTL DEF Spec

=============================================================================
