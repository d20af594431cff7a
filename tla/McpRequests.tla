---------------------------- MODULE McpRequests ----------------------------
(***************************************************************************)
(* The client of one MCP server (lvz-mcp/src/lib.rs): the handshake of     *)
(* connect_tools, then tool calls of any number of turns at once, over     *)
(* either transport.  On a pipe (PipeTransport, the stdio transport) a     *)
(* request takes an id, enters the table of pending requests, is written   *)
(* under the writer's lock and waits for the reader task to hand it the    *)
(* line with its id, for REQUEST_TIMEOUT at most.  Over HTTP every request *)
(* is a POST of its own.                                                   *)
(*                                                                         *)
(* The server is not trusted to do anything: it answers in any order,      *)
(* twice, late or never, makes requests of its own, stops reading its      *)
(* input, closes its output or exits.  What a request says and what its    *)
(* answer holds is left out: an answer is the number of the request it     *)
(* answers.  The server's own requests are numbered as it likes, so by a   *)
(* number the client has in use too; they hold no result, and a client     *)
(* that takes one for an answer reads Null.                                *)
(***************************************************************************)
EXTENDS Naturals, Sequences, FiniteSets

CONSTANTS
  Startup,    \* the task that runs connect_tools
  Callers,    \* turns that call the server's tools
  MaxPages,   \* pages of tools/list a server may have
  MaxCalls,   \* tool calls, of all callers
  MaxTwice,   \* answers the server gives twice
  OwnIds,     \* ids the server uses for requests of its own, once each
  PipeCap     \* requests that fit into the server's input unread

Threads == {Startup} \cup Callers

ASSUME McpAssumption ==
  /\ Startup \notin Callers
  /\ MaxPages \in Nat \ {0} /\ MaxCalls \in Nat /\ MaxTwice \in Nat /\ OwnIds \subseteq Nat
  /\ PipeCap \in Nat \ {0}

VARIABLES
  transport,  \* "pipe" or "http"
  step,       \* of the handshake: "initialize", "notify", "list", "ready", "failed"
  pages,      \* pages of tools asked for
  made,       \* calls made
  \* the client
  phase,      \* "idle", "inserted", "writing", "waiting", "expired", "posted"
  id, serial, \* of the request in hand; the serial number is an observer
  next_id,
  pending,    \* ids in the table
  slot,       \* per id: what its one-shot holds
  writer,     \* who holds the writer's lock, or "free"
  reader,     \* the reader task: "reading" or "gone"
  \* the server and the pipes
  stdin,      \* what it has not read
  taken,      \* requests it has read
  stdout,     \* lines the reader has not read
  twice,      \* answers given twice so far
  own,        \* ids it has used for requests of its own
  server      \* "up", "closed" (its output), "exited"

client == <<transport, step, pages, made>>
table == <<next_id, pending, slot>>
requests == <<phase, id, serial, writer>>
pipes == <<stdin, taken, stdout, twice, own, server>>
mcp_vars == <<client, requests, table, reader, pipes>>

Serials == 1 .. (1 + MaxPages + MaxCalls)
Ids == Serials

\* What a request may come to.
Answer(n) == <<"answer", n>>
Error(e) == <<e, 0>>
Empty == <<"none", 0>>
Null == <<"null", 0>>
Errors == {Error(e) : e \in {"io", "closed", "timeout", "rpc"}}
Answers == {Answer(n) : n \in Serials}

McpTypeOK ==
  /\ transport \in {"pipe", "http"}
  /\ step \in {"initialize", "notify", "list", "ready", "failed"}
  /\ pages \in 0 .. MaxPages
  /\ made \in 0 .. MaxCalls
  /\ phase \in [Threads -> {"idle", "inserted", "writing", "waiting", "expired", "posted"}]
  /\ id \in [Threads -> Ids \cup {0}]
  /\ serial \in [Threads -> Serials \cup {0}]
  /\ next_id \in Nat
  /\ pending \subseteq Ids
  /\ slot \in [Ids -> Answers \cup Errors \cup {Null, Empty}]
  /\ writer \in Threads \cup {"free"}
  /\ reader \in {"reading", "gone"}
  /\ stdin \in Seq(Ids \X Serials)
  /\ taken \subseteq Ids \X Serials
  /\ stdout \in Seq(Ids \X (Answers \cup Errors \cup {Null}))
  /\ twice \in 0 .. MaxTwice
  /\ own \subseteq Ids
  /\ server \in {"up", "closed", "exited"}

McpInit ==
  /\ transport \in {"pipe", "http"}
  /\ step = "initialize"
  /\ pages = 0
  /\ made = 0
  /\ phase = [t \in Threads |-> "idle"]
  /\ id = [t \in Threads |-> 0]
  /\ serial = [t \in Threads |-> 0]
  /\ next_id = 1
  /\ pending = {}
  /\ slot = [i \in Ids |-> Empty]
  /\ writer = "free"
  /\ reader = "reading"
  /\ stdin = <<>>
  /\ taken = {}
  /\ stdout = <<>>
  /\ twice = 0
  /\ own = {}
  /\ server = "up"

----------------------------------------------------------------------------
\* Who asks what, and when

\* connect_tools asks for the handshake and for page after page of the tools; the
\* tools it returns are called from then on.
Asks(t) ==
  IF t = Startup
  THEN /\ step \in {"initialize", "list"}
       /\ step = "list" => pages < MaxPages
       /\ pages' = IF step = "list" THEN pages + 1 ELSE pages
       /\ UNCHANGED made
  ELSE /\ step = "ready"
       /\ made < MaxCalls
       /\ made' = made + 1
       /\ UNCHANGED pages

\* An answer to initialize is not looked at; a page of tools that is null is not read.
Ok(res) == res \notin Errors /\ (step = "list" => res # Null)

\* The request is over, its one-shot is gone, and the caller has res.  A page may
\* name a next one; an error ends the handshake and with it the program.
Returns(t, res) ==
  /\ phase' = [phase EXCEPT ![t] = "idle"]
  /\ id' = [id EXCEPT ![t] = 0]
  /\ serial' = [serial EXCEPT ![t] = 0]
  /\ IF t # Startup THEN UNCHANGED step
     ELSE \/ ~Ok(res) /\ step' = "failed"
          \/ Ok(res) /\ step = "initialize" /\ step' = "notify"
          \/ Ok(res) /\ step = "list" /\ step' = "ready"
          \/ Ok(res) /\ step = "list" /\ pages < MaxPages /\ step' = "list"

----------------------------------------------------------------------------
\* PipeTransport::request

\* The next id that is not in use.
ReusedId == CHOOSE i \in Ids : i \notin pending /\ \A j \in Ids \ pending : i <= j

FreshId == next_id

\* fetch_add, and the entry of the one-shot.
Insert(t) ==
  /\ transport = "pipe"
  /\ phase[t] = "idle"
  /\ Asks(t)
  /\ phase' = [phase EXCEPT ![t] = "inserted"]
  /\ id' = [id EXCEPT ![t] = FreshId]
  /\ serial' = [serial EXCEPT ![t] = next_id]
  /\ next_id' = next_id + 1
  /\ pending' = pending \cup {FreshId}
  /\ slot' = [slot EXCEPT ![FreshId] = Empty]
  /\ UNCHANGED <<transport, step, writer, reader, pipes>>

\* write_message waits for the writer's lock.
Lock(t) ==
  /\ phase[t] = "inserted"
  /\ writer = "free"
  /\ writer' = t
  /\ phase' = [phase EXCEPT ![t] = "writing"]
  /\ UNCHANGED <<client, id, serial, table, reader, pipes>>

\* It waits, with the lock held, while the server's input is full.
Written(t) ==
  /\ phase[t] = "writing"
  /\ server # "exited"
  /\ Len(stdin) < PipeCap
  /\ stdin' = Append(stdin, <<id[t], serial[t]>>)
  /\ writer' = "free"
  /\ phase' = [phase EXCEPT ![t] = "waiting"]
  /\ UNCHANGED <<client, id, serial, table, reader, taken, stdout, twice, own, server>>

\* The error is returned at once.
WriteFailsKept(t) ==
  /\ phase[t] = "writing"
  /\ server = "exited"
  /\ writer' = "free"
  /\ Returns(t, Error("io"))
  /\ UNCHANGED <<transport, pages, made, table, reader, pipes>>

\* The server has exited: the entry is taken back.
WriteFails(t) ==
  /\ phase[t] = "writing"
  /\ server = "exited"
  /\ pending' = pending \ {id[t]}
  /\ writer' = "free"
  /\ Returns(t, Error("io"))
  /\ UNCHANGED <<transport, pages, made, next_id, slot, reader, pipes>>

\* timeout(rx): the value comes first.
Receive(t) ==
  /\ phase[t] = "waiting"
  /\ slot[id[t]] # Empty
  /\ Returns(t, slot[id[t]])
  /\ slot' = [slot EXCEPT ![id[t]] = Empty]
  /\ UNCHANGED <<transport, pages, made, writer, next_id, pending, reader, pipes>>

\* The time-out is for a server that is slow; the end of the pipe has its own error.
ExpireWhileReading(t) ==
  /\ phase[t] = "waiting"
  /\ slot[id[t]] = Empty /\ reader = "reading"
  /\ phase' = [phase EXCEPT ![t] = "expired"]
  /\ UNCHANGED <<client, id, serial, writer, table, reader, pipes>>

Expire(t) ==
  /\ phase[t] = "waiting"
  /\ slot[id[t]] = Empty
  /\ phase' = [phase EXCEPT ![t] = "expired"]
  /\ UNCHANGED <<client, id, serial, writer, table, reader, pipes>>

\* The late request's entry goes, if the reader has not just taken it.
GiveUp(t) ==
  /\ phase[t] = "expired"
  /\ pending' = pending \ {id[t]}
  /\ slot' = [slot EXCEPT ![id[t]] = Empty]
  /\ Returns(t, Error("timeout"))
  /\ UNCHANGED <<transport, pages, made, writer, next_id, reader, pipes>>

\* notifications/initialized, written under the lock, with no id and no answer.
Notify ==
  /\ step = "notify"
  /\ writer = "free"
  /\ transport = "pipe" /\ server # "exited" => Len(stdin) < PipeCap
  /\ step' = IF server = "exited" THEN "failed" ELSE "list"
  /\ UNCHANGED <<transport, pages, made, requests, table, reader, pipes>>

----------------------------------------------------------------------------
\* The reader task

\* A line with an id in the table goes to that id's one-shot, an answer or not; any
\* other line is ignored.
DispatchLine ==
  /\ reader = "reading"
  /\ stdout # <<>>
  /\ stdout' = Tail(stdout)
  /\ LET i == Head(stdout)[1] IN
     /\ slot' = IF i \in pending THEN [slot EXCEPT ![i] = Head(stdout)[2]] ELSE slot
     /\ pending' = pending \ {i}
  /\ UNCHANGED <<client, requests, next_id, reader, stdin, taken, twice, own, server>>

\* The pipe has closed: every outstanding request is failed.
Drain ==
  /\ reader = "reading"
  /\ stdout = <<>>
  /\ server # "up"
  /\ reader' = "gone"
  /\ slot' = [i \in Ids |-> IF i \in pending THEN Error("closed") ELSE slot[i]]
  /\ pending' = {}
  /\ UNCHANGED <<client, requests, next_id, pipes>>

----------------------------------------------------------------------------
\* HttpTransport: no table, and no time-out

Post(t) ==
  /\ transport = "http"
  /\ phase[t] = "idle"
  /\ Asks(t)
  /\ phase' = [phase EXCEPT ![t] = "posted"]
  /\ serial' = [serial EXCEPT ![t] = next_id]
  /\ next_id' = next_id + 1
  /\ UNCHANGED <<transport, step, id, writer, pending, slot, reader, pipes>>

\* The first message of the body with the request's id is the answer.
Reply(t) ==
  /\ phase[t] = "posted"
  /\ \E res \in {Answer(serial[t]), Null, Error("rpc"), Error("io")} : Returns(t, res)
  /\ UNCHANGED <<transport, pages, made, writer, table, reader, pipes>>

----------------------------------------------------------------------------
\* The server

ServerReads ==
  /\ server # "exited" /\ stdin # <<>>
  /\ taken' = taken \cup {Head(stdin)}
  /\ stdin' = Tail(stdin)
  /\ UNCHANGED <<client, requests, table, reader, stdout, twice, own, server>>

ServerAnswers(again) ==
  /\ server = "up"
  /\ again => twice < MaxTwice
  /\ twice' = IF again THEN twice + 1 ELSE twice
  /\ \E q \in taken :
       /\ \E answer \in {Answer(q[2]), Error("rpc")} : stdout' = Append(stdout, <<q[1], answer>>)
       /\ taken' = IF again THEN taken ELSE taken \ {q}
  /\ UNCHANGED <<client, requests, table, reader, stdin, own, server>>

\* A request of the server's own (ping, roots/list, sampling), under an id of its own.
ServerAsks(i) ==
  /\ transport = "pipe" /\ server = "up"
  /\ i \notin own
  /\ own' = own \cup {i}
  /\ stdout' = Append(stdout, <<i, Null>>)
  /\ UNCHANGED <<client, requests, table, reader, stdin, taken, twice, server>>

ServerStops ==
  /\ transport = "pipe"
  /\ \/ server = "up" /\ server' = "closed"
     \/ server # "exited" /\ server' = "exited"
  /\ UNCHANGED <<client, requests, table, reader, stdin, taken, stdout, twice, own>>

----------------------------------------------------------------------------
Request(t) ==
  \/ Insert(t) \/ Lock(t) \/ Written(t) \/ WriteFails(t)
  \/ Receive(t) \/ Expire(t) \/ GiveUp(t)
  \/ Post(t) \/ Reply(t)

Reader == DispatchLine \/ Drain

Server ==
  \/ ServerReads
  \/ \E again \in BOOLEAN : ServerAnswers(again)
  \/ \E i \in Ids \cap OwnIds : ServerAsks(i)
  \/ ServerStops

McpNext == (\E t \in Threads : Request(t)) \/ Notify \/ Reader \/ Server

\* The tasks are scheduled and time passes.  Nothing is asked of the server.
Fairness ==
  /\ WF_mcp_vars(Reader)
  /\ \A t \in Threads :
       WF_mcp_vars(Lock(t) \/ Written(t) \/ WriteFails(t) \/ Receive(t) \/ Expire(t) \/ GiveUp(t))

McpSpec == McpInit /\ [][McpNext]_mcp_vars /\ Fairness

----------------------------------------------------------------------------
\* No caller is handed the answer to another request, of another turn or of its own
\* past, whatever the order in which a server answers, and though it answers twice or
\* after the request was given up.  What a caller may be handed besides an error is its
\* own answer, or nothing at all (Null), and that only if the server made a request of
\* its own under the very id: dispatch_line asks no more of a line than its id.
OwnAnswer ==
  \A t \in Threads :
    phase[t] = "waiting" /\ slot[id[t]] \in Answers \cup {Null} =>
      \/ slot[id[t]] = Answer(serial[t])
      \/ slot[id[t]] = Null /\ id[t] \in own

InFlight(t) == phase[t] \in {"inserted", "writing", "waiting", "expired"}

\* The table does not fill with entries nobody waits for: each belongs to a request in
\* flight, on every way a request may end.
NothingLeaks == \A i \in pending : \E t \in Threads : InFlight(t) /\ id[t] = i

\* A request that has been written is over some day, even one that entered the table
\* when the reader had already gone, and whatever the server does.
WrittenRequestsEnd == \A t \in Threads : phase[t] = "waiting" ~> phase[t] = "idle"

\* Stated above dispatch_line: "Server-initiated requests/notifications (no id we know)
\* are ignored".
ServerRequestsAreIgnored == \A i \in Ids : slot[i] # Null

\* REQUEST_TIMEOUT: "Ceiling on any single JSON-RPC round-trip.  A hung server must not
\* wedge the turn forever".
RoundTripsEnd == \A t \in Threads : phase[t] # "idle" ~> phase[t] = "idle"

=============================================================================
