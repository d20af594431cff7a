----------------------------- MODULE MatrixServe -----------------------------
(***************************************************************************)
(* The serve loop of the Matrix gateway (lvz-gw-matrix/src/lib.rs): one    *)
(* task that selects, in this order, between a shutdown signal, scheduled  *)
(* jobs that are due and the next /sync, and that does what it has         *)
(* selected to the end: it decides of every message whether it is          *)
(* addressed, runs a turn for one that is, with a transient reaction and   *)
(* an outcome reaction on it, and remembers the ids of what it has posted, *)
(* the last Cap of them, so that a reply to one addresses it again.        *)
(* Nothing of this is kept when the process ends: the next one takes the   *)
(* homeserver's state as its baseline and answers what comes after.        *)
(*                                                                         *)
(* The homeserver (external) keeps one timeline; a sync gets of each room  *)
(* the last Limit messages since a token.  What messages say, invites,     *)
(* encryption, media and the typing indicator are left out, and so is what *)
(* a job does (ScheduleRegistry): here it posts a report or has none.      *)
(***************************************************************************)
EXTENDS Naturals, Sequences, FiniteSets, SequencesExt

CONSTANTS
  Rooms,
  Direct,    \* rooms with one other member, to begin with
  Cap,       \* of RecentIds
  Limit,     \* of a room's timeline in one sync
  MsgCap,    \* bound: messages
  PostCap,   \* bound: messages of the bot
  JobCap,    \* bound: times that jobs are due
  FailCap,   \* bound: requests that fail
  LifeCap    \* bound: processes, one after another

ASSUME MatrixAssumption ==
  /\ Direct \subseteq Rooms
  /\ Cap \in Nat \ {0} /\ Limit \in Nat \ {0} /\ LifeCap \in Nat \ {0}
  /\ {MsgCap, PostCap, JobCap, FailCap} \subseteq Nat

VARIABLES
  \* the homeserver
  timeline,  \* the messages of others: [room, says, to]
  pairs,     \* rooms with the bot and one other member
  posts,     \* the bot's messages: they are numbered
  eyes,      \* messages with its transient reaction
  marked,    \* messages with its outcome reaction
  \* the process
  pc,        \* "off", "baseline", "select", "read", "ack", "turn", "finish", "fire"
  since,     \* the sync token: messages up to it are done with
  next,      \* of the response in hand
  queue,     \* its messages that are still to be looked at
  order,     \* RecentIds, oldest first
  dm_cache,  \* room -> what is_dm found; a subset of Rooms \X BOOLEAN
  \* bounds
  jobs, fails, life,
  \* observers
  first,     \* first message after the baseline
  kept,      \* the ids that were ever kept, in order
  born,      \* how many of them before the process began
  looked,    \* per message: how often the gateway has looked at it
  turns,     \* per message: how often it has run a turn for it
  skipped,   \* messages without a turn, each with the number of ids kept by then
  excused,   \* messages no response showed, or one it could not read
  unsaid     \* messages for which a reaction failed, or the process died

recent == <<order, kept>>
server == <<timeline, pairs, posts, eyes, marked>>
process == <<pc, since, next, queue, recent, dm_cache>>
observers == <<first, born, looked, turns, skipped, excused, unsaid>>
vars == <<server, process, jobs, fails, life, observers>>

Msgs == 1 .. MsgCap
Says == {"nothing", "mention", "reply", "broken"}

Init ==
  /\ timeline = <<>> /\ pairs = Direct /\ posts = 0 /\ eyes = {} /\ marked = {}
  /\ pc = "baseline" /\ since = 0 /\ next = 0 /\ queue = <<>>
  /\ order = <<>> /\ dm_cache = {}
  /\ jobs = 0 /\ fails = 0 /\ life = 1
  /\ first = 1 /\ kept = <<>> /\ born = 0
  /\ looked = [n \in Msgs |-> 0] /\ turns = [n \in Msgs |-> 0]
  /\ skipped = {} /\ excused = {} /\ unsaid = {}

------------------------------------------------------------------------------
\* [mutant] A full set takes no more.
insertWhileRoom(ids, id) ==
  IF Contains(ids, id) \/ Len(ids) >= Cap THEN ids ELSE Append(ids, id)

\* RecentIds::insert: a bounded queue of distinct ids, the oldest evicted.
insert(ids, id) ==
  IF Contains(ids, id) THEN ids
  ELSE IF Len(ids) + 1 > Cap THEN Tail(Append(ids, id)) ELSE Append(ids, id)

\* A request to the homeserver fails, or it does not.
Fails == fails < FailCap /\ fails' = fails + 1
Works == UNCHANGED fails

\* A message of the bot goes out and its id is kept, or the request fails: the
\* message may be in the room all the same, when the answer to the request is
\* lost or is none, but its id is not known.
Post ==
  \/ /\ posts < PostCap /\ Works
     /\ posts' = posts + 1
     /\ order' = insert(order, posts') /\ kept' = Append(kept, posts')
  \/ /\ Fails
     /\ posts' = posts \/ (posts < PostCap /\ posts' = posts + 1)
     /\ UNCHANGED recent

------------------------------------------------------------------------------
\* Others.

\* A message, perhaps a reply to one of the bot's, or an event of a shape that
\* the typed view of a response does not accept.
Say ==
  /\ Len(timeline) < MsgCap
  /\ \E r \in Rooms, s \in Says, p \in 0 .. posts :
       /\ (s = "reply") = (p > 0)
       /\ timeline' = Append(timeline, [room |-> r, says |-> s, to |-> p])
  /\ UNCHANGED <<pairs, posts, eyes, marked, process, jobs, fails, life, observers>>

\* A third member joins a room.
Joins ==
  /\ \E r \in pairs : pairs' = pairs \ {r}
  /\ UNCHANGED <<timeline, posts, eyes, marked, process, jobs, fails, life, observers>>

------------------------------------------------------------------------------
\* The baseline: what there is already is discarded.
Baseline ==
  /\ pc = "baseline"
  /\ \/ /\ Works
        /\ pc' = "select"
        /\ since' = Len(timeline)
        /\ first' = Len(timeline) + 1
     \/ Fails /\ UNCHANGED <<pc, since, first>>
  /\ UNCHANGED <<server, next, queue, recent, dm_cache, jobs, life,
                 born, looked, turns, skipped, excused, unsaid>>

New == (since + 1) .. Len(timeline)

Room(n) == timeline[n].room

\* What a sync shows: the last Limit messages of each room.
Shown == {n \in New : Cardinality({m \in New : m > n /\ Room(m) = Room(n)}) < Limit}

Unreadable == \E n \in Shown : timeline[n].says = "broken"

\* Room after room, in any order of the rooms, and the messages of each as they came.
Responses ==
  {q \in Bijection(1 .. Cardinality(Shown), Shown) :
     \A i, k \in DOMAIN q : i < k /\ Room(q[i]) = Room(q[k]) =>
        \A j \in i .. (k - 1) : Room(q[j + 1]) = Room(q[i]) /\ q[j] < q[j + 1]}

\* [mutant] An unreadable response is asked for again.
SyncAgain ==
  /\ pc = "select"
  /\ \/ /\ Works /\ New # {} /\ ~Unreadable
        /\ next' = Len(timeline)
        /\ queue' \in Responses
        /\ pc' = "read"
        /\ excused' = excused \cup (New \ Shown)
        /\ UNCHANGED since
     \/ Fails /\ UNCHANGED <<pc, since, next, queue, excused>>
  /\ UNCHANGED <<server, recent, dm_cache, jobs, life, first, born, looked, turns, skipped, unsaid>>

\* The sync returns.  One event of the wrong shape, and none of the messages
\* is read.  When it fails the loop waits and asks again with its token.
Sync ==
  /\ pc = "select"
  /\ \/ /\ Works /\ New # {} /\ ~Unreadable
        /\ next' = Len(timeline)
        /\ queue' \in Responses
        /\ pc' = "read"
        /\ excused' = excused \cup (New \ Shown)
        /\ UNCHANGED since
     \/ /\ Works /\ New # {} /\ Unreadable
        /\ since' = Len(timeline)
        /\ excused' = excused \cup New
        /\ UNCHANGED <<pc, next, queue>>
     \/ Fails /\ UNCHANGED <<pc, since, next, queue, excused>>
  /\ UNCHANGED <<server, recent, dm_cache, jobs, life, first, born, looked, turns, skipped, unsaid>>

Current == Head(queue)
Triggered == timeline[Current].says = "mention" \/ Contains(order, timeline[Current].to)

\* Membership, as is_dm has it: from the cache, or asked for and then cached.
IsDm(dm) ==
  LET room == timeline[Current].room
  IN  \/ <<room, dm>> \in dm_cache /\ Works /\ UNCHANGED dm_cache
      \/ /\ \A b \in BOOLEAN : <<room, b>> \notin dm_cache
         /\ \/ Works /\ dm = (room \in pairs) /\ dm_cache' = dm_cache \cup {<<room, dm>>}
            \/ Fails /\ dm = FALSE /\ UNCHANGED dm_cache

\* The next message is passed over, in a group that it does not address.
Skip ==
  /\ pc = "read" /\ queue # <<>>
  /\ ~Triggered /\ IsDm(FALSE)
  /\ queue' = Tail(queue)
  /\ looked' = [looked EXCEPT ![Current] = @ + 1]
  /\ skipped' = skipped \cup {<<Current, Len(kept)>>}
  /\ UNCHANGED <<server, pc, since, next, recent, jobs, life, first, born, turns, excused, unsaid>>

\* Or it is acknowledged.  Whether that worked is remembered with the turn.
Engage ==
  /\ pc = "read" /\ queue # <<>>
  /\ \/ Triggered /\ Works /\ UNCHANGED dm_cache
     \/ ~Triggered /\ IsDm(TRUE)
  /\ pc' = "ack"
  /\ looked' = [looked EXCEPT ![Current] = @ + 1]
  /\ turns' = [turns EXCEPT ![Current] = @ + 1]
  /\ UNCHANGED <<server, since, next, queue, recent, jobs, life, first, born, skipped, excused, unsaid>>

\* [mutant] A turn the agent refuses is left as it is.
AckAlone ==
  /\ pc = "ack"
  /\ \/ Works /\ eyes' = eyes \cup {Current} /\ UNCHANGED unsaid
     \/ Fails /\ unsaid' = unsaid \cup {Current} /\ eyes' \in {eyes, eyes \cup {Current}}
  /\ \/ pc' = "turn" /\ UNCHANGED queue
     \/ pc' = "read" /\ queue' = Tail(queue)
  /\ UNCHANGED <<timeline, pairs, posts, marked, since, next, recent, dm_cache, jobs, life,
                 first, born, looked, turns, skipped, excused>>

\* The first reaction, which may be there although the request failed; then the
\* agent takes the turn, or refuses it.
Ack ==
  /\ pc = "ack"
  /\ \/ Works /\ eyes' = eyes \cup {Current} /\ UNCHANGED unsaid
     \/ Fails /\ unsaid' = unsaid \cup {Current} /\ eyes' \in {eyes, eyes \cup {Current}}
  /\ pc' \in {"turn", "finish"}
  /\ UNCHANGED <<timeline, pairs, posts, marked, since, next, queue, recent, dm_cache, jobs, life,
                 first, born, looked, turns, skipped, excused>>

\* A notice, of a tool call, of progress or an image: it may fail unnoticed.
Notice ==
  /\ pc = "turn" /\ Post
  /\ UNCHANGED <<timeline, pairs, eyes, marked, pc, since, next, queue, dm_cache, jobs, life, observers>>

\* The stream ends, or breaks off.  Text there is becomes the answer.
TurnEnds ==
  /\ pc = "turn"
  /\ pc' = "finish"
  /\ \/ Post
     \/ Works /\ UNCHANGED <<posts, recent>>
  /\ UNCHANGED <<timeline, pairs, eyes, marked, since, next, queue, dm_cache, jobs, life, observers>>

\* finish_reaction: the first reaction is retracted, if its id is known, and the
\* outcome put in its place.  Each request may fail alone, done or not.
Finish ==
  /\ pc = "finish"
  /\ \E retracted, said \in BOOLEAN :
       LET known == Current \notin unsaid
           failed == (IF known /\ ~retracted THEN 1 ELSE 0) + (IF said THEN 0 ELSE 1)
       IN  /\ retracted => known
           /\ fails + failed <= FailCap /\ fails' = fails + failed
           /\ eyes' = eyes \ {Current} \/ (~retracted /\ eyes' = eyes)
           /\ eyes' # eyes => known
           /\ marked' = marked \cup {Current} \/ (~said /\ marked' = marked)
           /\ unsaid' = IF retracted /\ said THEN unsaid ELSE unsaid \cup {Current}
  /\ queue' = Tail(queue)
  /\ pc' = "read"
  /\ UNCHANGED <<timeline, pairs, posts, since, next, recent, dm_cache, jobs, life,
                 first, born, looked, turns, skipped, excused>>

\* [mutant] The token stays where it was.
DoneKept ==
  /\ pc = "read" /\ queue = <<>>
  /\ pc' = "select"
  /\ UNCHANGED <<server, since, next, queue, recent, dm_cache, jobs, fails, life, observers>>

\* The response is done with.
Done ==
  /\ pc = "read" /\ queue = <<>>
  /\ since' = next
  /\ pc' = "select"
  /\ UNCHANGED <<server, next, queue, recent, dm_cache, jobs, fails, life, observers>>

\* Jobs are due: the sync in flight is dropped.  Their reports go out.
Due ==
  /\ pc = "select" /\ jobs < JobCap
  /\ jobs' = jobs + 1
  /\ pc' = "fire"
  /\ UNCHANGED <<server, since, next, queue, recent, dm_cache, fails, life, observers>>

Report ==
  /\ pc = "fire" /\ Post
  /\ UNCHANGED <<timeline, pairs, eyes, marked, pc, since, next, queue, dm_cache, jobs, life, observers>>

Fired ==
  /\ pc = "fire"
  /\ pc' = "select"
  /\ UNCHANGED <<server, since, next, queue, recent, dm_cache, jobs, fails, life, observers>>

------------------------------------------------------------------------------
\* The process ends, on a signal in the select or killed anywhere.
Off ==
  /\ pc' = "off"
  /\ since' = 0 /\ next' = 0 /\ queue' = <<>> /\ order' = <<>> /\ dm_cache' = {}

Shutdown ==
  /\ pc = "select" /\ Off
  /\ Works \/ Fails
  /\ posts' = posts \/ (posts < PostCap /\ posts' = posts + 1)
  /\ UNCHANGED <<timeline, pairs, eyes, marked, kept, jobs, life, observers>>

Crash ==
  /\ pc # "off" /\ Off
  /\ unsaid' = IF pc \in {"ack", "turn", "finish"} THEN unsaid \cup {Current} ELSE unsaid
  /\ UNCHANGED <<server, kept, jobs, fails, life, first, born, looked, turns, skipped, excused>>

Restart ==
  /\ pc = "off" /\ life < LifeCap
  /\ life' = life + 1
  /\ pc' = "baseline"
  /\ born' = Len(kept)
  /\ UNCHANGED <<server, since, next, queue, recent, dm_cache, jobs, fails,
                 first, looked, turns, skipped, excused, unsaid>>

Step ==
  \/ Baseline \/ Sync \/ Skip \/ Engage \/ Ack \/ Notice \/ TurnEnds \/ Finish \/ Done
  \/ Due \/ Report \/ Fired

Next == Step \/ Say \/ Joins \/ Shutdown \/ Crash \/ Restart

Spec == Init /\ [][Next]_vars

\* The loop's task is scheduled; requests that keep being made work some day,
\* a turn ends (AgentLoop's TurnsEnd) and a job is over (ScheduleRegistry's
\* VerdictArrives): the bounds on failures, posts and jobs stand for that.
FairSpec == Spec /\ WF_vars(Step)

------------------------------------------------------------------------------
TypeOK ==
  /\ Len(timeline) <= MsgCap /\ pairs \subseteq Rooms /\ posts \in 0 .. PostCap
  /\ Range(kept) \subseteq 1 .. posts /\ born \in 0 .. Len(kept)
  /\ eyes \cup marked \cup unsaid \cup excused \subseteq Msgs
  /\ pc \in {"off", "baseline", "select", "read", "ack", "turn", "finish", "fire"}
  /\ since \in 0 .. Len(timeline) /\ next \in 0 .. Len(timeline)
  /\ Range(queue) \subseteq Msgs /\ Len(order) <= Cap
  /\ dm_cache \subseteq Rooms \X BOOLEAN
  /\ jobs \in 0 .. JobCap /\ fails \in 0 .. FailCap /\ life \in 1 .. LifeCap

\* The gateway looks at every message that comes after its baseline once: a
\* sync dropped for a job loses none and repeats none, and no message gets two
\* turns, not even over a restart.  The excused are those the homeserver cut
\* from a response, and those that came in one with an event of a wrong shape.
LookedAtOnce ==
  /\ \A n \in Msgs : looked[n] <= 1 /\ turns[n] <= 1
  /\ pc = "select" => \A n \in first .. since : looked[n] = 1 \/ n \in excused

\* A mention, and a reply to any of the last Cap messages whose ids this process
\* had kept when it looked, is never passed over: the ids of reports, notices and
\* answers are all kept, whatever turn or job posted them.  A message whose sending
\* was reported as failed is not among them, though it may be in the room.
RepliesReengage ==
  \A s \in skipped :
    LET msg == timeline[s[1]]
    IN  /\ msg.says # "mention"
        /\ (msg.says = "reply" /\ s[1] >= first) =>
             \A i \in DOMAIN kept : kept[i] = msg.to => i <= born \/ i + Cap <= s[2]

\* "Every message the bot sends is recorded in `sent` so a later reply to it
\* re-engages the bot": one that went out and was reported as failed is not.
EverySendIsKept == [][pc = "turn" /\ posts' # posts => posts' \in Range(kept')]_vars

\* A message the gateway has run a turn for has its outcome on it and no longer
\* the transient reaction, however the turn ended, unless a request failed or
\* the process died under it.
TurnsAreMarked ==
  pc \in {"select", "off"} =>
    \A n \in Msgs \ unsaid : turns[n] = 1 => n \in marked /\ n \notin eyes

\* Every message is behind the token some day, or the process ends: no response
\* holds the loop up, not even one it cannot read.
MessagesReached ==
  \A n \in Msgs : Len(timeline) >= n ~> (since >= n \/ pc = "off")
=============================================================================
