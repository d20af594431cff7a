------------------------- MODULE MatrixServeProofs -------------------------
(***************************************************************************)
(* Theorems about MatrixServe for any rooms, messages, posts, failures,    *)
(* jobs and processes, any capacity of RecentIds and any sync limit.       *)
(***************************************************************************)
EXTENDS MatrixServe, FiniteSetTheorems, TLAPS

Message == [room : Rooms, says : Says, to : Nat]
Phases == {"off", "baseline", "select", "read", "ack", "turn", "finish", "fire"}
Busy == {"ack", "turn", "finish"}
Reading == Busy \cup {"read"}

----------------------------------------------------------------------------
\* The inductive invariant

\* The messages in hand are those of the response, each once, and they come after
\* the token; the loop is busy with the first of them.
QueueInv ==
  /\ queue \in Seq(Msgs)
  /\ pc \in Busy => queue # <<>>
  /\ pc \in Reading =>
       /\ since <= next
       /\ \A i \in DOMAIN queue : queue[i] \in (since + 1) .. next
       /\ \A i, k \in DOMAIN queue : queue[i] = queue[k] => i = k

TypeInv ==
  /\ timeline \in Seq(Message) /\ Len(timeline) <= MsgCap
  /\ posts \in Nat /\ born \in Nat
  /\ pc \in Phases
  /\ since \in 0 .. Len(timeline) /\ next \in 0 .. Len(timeline)
  /\ first \in 1 .. (Len(timeline) + 1)
  /\ looked \in [Msgs -> Nat] /\ turns \in [Msgs -> Nat]
  /\ order \in Seq(Nat) /\ kept \in Seq(Nat)
  /\ QueueInv

Seen(n) == looked[n] = 1 \/ n \in excused

\* In hand, and not yet looked at.
Ahead(n) == \E i \in DOMAIN queue : queue[i] = n /\ (i # 1 \/ pc = "read")

\* Nothing behind the token is unseen, nothing ahead of it was looked at; within a
\* response, the queue tells the two apart.
LookInv ==
  /\ \A n \in Msgs : turns[n] <= looked[n] /\ looked[n] <= 1
  /\ \A n \in Msgs : n > Len(timeline) => looked[n] = 0
  /\ pc \in {"select", "fire"} => \A n \in Msgs : n > since => looked[n] = 0
  /\ pc \in Reading \cup {"select", "fire"} => \A n \in first .. since : Seen(n)
  /\ pc \in Reading =>
       /\ \A n \in Msgs : n > next => looked[n] = 0
       /\ \A n \in (since + 1) .. next : IF Ahead(n) THEN looked[n] = 0 ELSE Seen(n)

\* RecentIds holds the last ids that the process has kept, as many as it can, in
\* order; none of them is of a message yet to come.
RecentInv ==
  /\ \A i \in 1 .. Len(kept) : kept[i] <= posts
  /\ born <= Len(kept)
  /\ pc = "off" => order = <<>>
  /\ pc # "off" =>
       /\ Len(order) <= Cap /\ Len(order) <= Len(kept) - born
       /\ Len(order) < Cap => Len(order) = Len(kept) - born
       /\ \A i \in 1 .. Len(order) : order[i] = kept[(Len(kept) - Len(order)) + i]

ReplyInv ==
  /\ RecentInv
  /\ \A n \in DOMAIN timeline : timeline[n].to <= posts
  /\ \A s \in skipped : s[1] \in 1 .. Len(timeline) /\ s[2] \in Nat
  /\ RepliesReengage

\* A message that had its turn is marked, unless it is the one in hand.
MarkInv ==
  \A n \in Msgs \ unsaid :
    turns[n] = 1 => (n \in marked /\ n \notin eyes) \/ (pc \in Busy /\ n = Current)

IInv == TypeInv /\ LookInv /\ ReplyInv /\ MarkInv

----------------------------------------------------------------------------
\* Facts about the data

LEMMA HeadTail ==
  ASSUME NEW S, NEW s \in Seq(S), s # <<>>
  PROVE  /\ Head(s) \in S /\ Tail(s) \in Seq(S) /\ 1 \in DOMAIN s /\ Head(s) = s[1]
         /\ \A i \in DOMAIN Tail(s) : i \in Nat \ {0} /\ i + 1 \in DOMAIN s /\ Tail(s)[i] = s[i + 1]
         /\ \A i \in DOMAIN s : i # 1 => i - 1 \in DOMAIN Tail(s)
  OBVIOUS

\* A response holds what is shown of the messages behind the token, each once.
LEMMA ResponseFacts ==
  ASSUME TypeInv, NEW q \in Responses
  PROVE  /\ q \in Seq(Msgs)
         /\ \A i \in DOMAIN q : q[i] \in (since + 1) .. Len(timeline)
         /\ \A i, k \in DOMAIN q : q[i] = q[k] => i = k
         /\ \A n \in New : (\E i \in DOMAIN q : q[i] = n) <=> n \in Shown
<1>1. Len(timeline) \in Nat /\ since \in Nat
  BY DEF TypeInv
<1>2. IsFiniteSet(New)
  BY <1>1, FS_Interval DEF New
<1>3. Shown \subseteq New
  BY DEF Shown
<1>4. Cardinality(Shown) \in Nat
  BY <1>2, <1>3, FS_Subset, FS_CardinalityType
<1>5. /\ q \in [1 .. Cardinality(Shown) -> Shown]
      /\ \A i, k \in 1 .. Cardinality(Shown) : q[i] = q[k] => i = k
      /\ \A n \in Shown : \E i \in 1 .. Cardinality(Shown) : q[i] = n
  BY DEF Responses, Bijection, Injection, Surjection, IsInjective
<1>6. New \subseteq Msgs
  BY <1>1, MatrixAssumption DEF New, Msgs, TypeInv
<1>7. q \in Seq(Msgs)
  BY <1>3, <1>4, <1>5, <1>6
<1>8. \A i \in DOMAIN q : q[i] \in (since + 1) .. Len(timeline)
  BY <1>3, <1>5 DEF New
<1>. QED
  BY <1>3, <1>5, <1>7, <1>8

\* A longer sequence, and the end of it.
LEMMA AppendFacts ==
  ASSUME NEW S, NEW s \in Seq(S), NEW e \in S
  PROVE  /\ Append(s, e) \in Seq(S) /\ Len(Append(s, e)) = Len(s) + 1 /\ Append(s, e)[Len(s) + 1] = e
         /\ \A i \in 1 .. Len(s) : Append(s, e)[i] = s[i]
         /\ Tail(Append(s, e)) \in Seq(S) /\ Len(Tail(Append(s, e))) = Len(s)
<1>1. /\ Append(s, e) \in Seq(S) /\ Len(Append(s, e)) = Len(s) + 1 /\ Append(s, e)[Len(s) + 1] = e
      /\ \A i \in 1 .. Len(s) : Append(s, e)[i] = s[i]
  OBVIOUS
<1>2. Append(s, e) # <<>> /\ Len(s) \in Nat
  OBVIOUS
<1>. DEFINE t == Append(s, e)
<1>. HIDE DEF t
<1>3. t \in Seq(S) /\ t # <<>> /\ Len(t) = Len(s) + 1
  BY <1>1, <1>2 DEF t
<1>4. Tail(t) \in Seq(S) /\ Len(Tail(t)) = Len(s)
  BY <1>2, <1>3
<1>. QED
  BY <1>1, <1>4 DEF t

LEMMA AppendTail ==
  ASSUME NEW s \in Seq(Nat), NEW e \in Nat
  PROVE  \A i \in 1 .. Len(s) : Tail(Append(s, e))[i] = Append(s, e)[i + 1]
<1>1. Append(s, e) \in Seq(Nat) /\ Append(s, e) # <<>> /\ Len(Append(s, e)) = Len(s) + 1 /\ Len(s) \in Nat
  OBVIOUS
<1>. DEFINE t == Append(s, e)
<1>. HIDE DEF t
<1>2. t \in Seq(Nat) /\ t # <<>> /\ Len(t) = Len(s) + 1 /\ Len(s) \in Nat
  BY <1>1 DEF t
<1>3. \A i \in 1 .. Len(s) : Tail(t)[i] = t[i + 1]
  BY <1>2
<1>. QED
  BY <1>3 DEF t

\* What a post does to the ids that are kept.
LEMMA PostType ==
  ASSUME TypeInv, Post
  PROVE  posts' \in Nat /\ posts' >= posts /\ order' \in Seq(Nat) /\ kept' \in Seq(Nat)
<1>0. posts \in Nat /\ order \in Seq(Nat) /\ kept \in Seq(Nat)
  BY DEF TypeInv
<1>1. CASE posts' \in {posts, posts + 1} /\ UNCHANGED recent
  BY <1>0, <1>1 DEF recent
<1>2. CASE posts' = posts + 1 /\ order' = insert(order, posts') /\ kept' = Append(kept, posts')
  <2>. DEFINE p == posts + 1
  <2>1. p \in Nat /\ posts' = p /\ p >= posts
    BY <1>0, <1>2
  <2>2. order' = insert(order, p) /\ kept' = Append(kept, p)
    BY <1>2
  <2>. HIDE DEF p
  <2>3. Append(order, p) \in Seq(Nat) /\ Tail(Append(order, p)) \in Seq(Nat) /\ Append(kept, p) \in Seq(Nat)
    BY <1>0, <2>1, AppendFacts, Zenon
  <2>4. insert(order, p) \in Seq(Nat)
    BY <1>0, <2>3, Zenon DEF insert
  <2>. QED
    BY <2>1, <2>2, <2>3, <2>4
<1>. QED
  BY <1>1, <1>2 DEF Post

----------------------------------------------------------------------------
\* Type correctness

LEMMA TypeInit == Init => TypeInv
<1>. SUFFICES ASSUME Init PROVE TypeInv
  OBVIOUS
<1>1. MsgCap \in Nat
  BY MatrixAssumption
<1>2. timeline \in Seq(Message) /\ Len(timeline) = 0 /\ order \in Seq(Nat) /\ queue \in Seq(Msgs)
  BY DEF Init
<1>. QED
  BY <1>1, <1>2 DEF Init, TypeInv, QueueInv, Phases, Busy, Reading

\* Steps of the loop that leave the messages in hand as they are.
LEMMA TypeOnward ==
  ASSUME TypeInv, UNCHANGED timeline, UNCHANGED <<since, next, queue, first>>,
         posts' \in Nat, born' \in Nat, order' \in Seq(Nat), kept' \in Seq(Nat),
         looked' \in [Msgs -> Nat], turns' \in [Msgs -> Nat], pc' \in Phases,
         pc' \in Reading => pc \in Reading,
         pc' \in Busy => queue # <<>>
  PROVE  TypeInv'
  BY DEF TypeInv, QueueInv

\* Steps after which no messages are in hand.
LEMMA TypeOutside ==
  ASSUME TypeInv, timeline' = timeline, since' \in 0 .. Len(timeline), next' \in 0 .. Len(timeline),
         queue' \in Seq(Msgs), first' \in 1 .. (Len(timeline) + 1),
         posts' \in Nat, born' \in Nat, order' \in Seq(Nat), kept' \in Seq(Nat),
         UNCHANGED looked, UNCHANGED turns, pc' \in Phases \ Reading
  PROVE  TypeInv'
  BY DEF TypeInv, QueueInv, Reading

\* Steps that end with the first message in hand.
LEMMA TypeTail ==
  ASSUME TypeInv, UNCHANGED timeline, UNCHANGED <<since, next, first, posts, born, order, kept>>,
         pc \in Reading, queue # <<>>, queue' = Tail(queue), pc' = "read",
         looked' \in [Msgs -> Nat], turns' \in [Msgs -> Nat]
  PROVE  TypeInv'
<1>1. queue \in Seq(Msgs)
  BY DEF TypeInv, QueueInv
<1>2. /\ queue' \in Seq(Msgs)
      /\ \A i \in DOMAIN queue' : i \in Nat \ {0} /\ i + 1 \in DOMAIN queue /\ queue'[i] = queue[i + 1]
  BY <1>1, HeadTail
<1>3. /\ since <= next
      /\ \A i \in DOMAIN queue : queue[i] \in (since + 1) .. next
      /\ \A i, k \in DOMAIN queue : queue[i] = queue[k] => i = k
  BY DEF TypeInv, QueueInv
<1>4. \A i \in DOMAIN queue' : queue'[i] \in (since + 1) .. next
  BY <1>2, <1>3
<1>5. \A i, k \in DOMAIN queue' : queue'[i] = queue'[k] => i = k
  <2>. SUFFICES ASSUME NEW i \in DOMAIN queue', NEW k \in DOMAIN queue', queue'[i] = queue'[k]
                PROVE  i = k
    OBVIOUS
  <2>1. i + 1 = k + 1
    BY <1>2, <1>3
  <2>. QED
    BY <1>2, <2>1
<1>6. QueueInv'
  BY <1>2, <1>3, <1>4, <1>5 DEF QueueInv, Busy
<1>. QED
  BY <1>6 DEF TypeInv, Phases

LEMMA CountsType ==
  ASSUME TypeInv, NEW n
  PROVE  /\ [looked EXCEPT ![n] = @ + 1] \in [Msgs -> Nat]
         /\ [turns EXCEPT ![n] = @ + 1] \in [Msgs -> Nat]
<1>. looked \in [Msgs -> Nat] /\ turns \in [Msgs -> Nat]
  BY DEF TypeInv
<1>1. CASE n \in Msgs
  BY <1>1
<1>2. CASE n \notin Msgs
  BY <1>2
<1>. QED
  BY <1>1, <1>2

\* The steps of the loop, and of those around it.
LEMMA Steps ==
  ASSUME [Next]_vars
  PROVE  \/ UNCHANGED vars
         \/ Baseline \/ Sync \/ Skip \/ Engage \/ Ack \/ Notice \/ TurnEnds \/ Finish \/ Done
         \/ Due \/ Report \/ Fired
         \/ Say \/ Joins \/ Shutdown \/ Crash \/ Restart
  BY DEF Next, Step

LEMMA TypeNext == TypeInv /\ [Next]_vars => TypeInv'
<1>. SUFFICES ASSUME TypeInv, [Next]_vars PROVE TypeInv'
  OBVIOUS
<1>. USE DEF server, process, recent, observers, Phases, Busy, Reading
<1>1. CASE UNCHANGED vars
  BY <1>1, TypeOnward DEF vars, TypeInv, QueueInv
<1>2. CASE Baseline
  <2>1. /\ UNCHANGED <<timeline, next, queue, posts, born, order, kept, looked, turns>>
        /\ pc' \in {"baseline", "select"}
        /\ since' \in {since, Len(timeline)} /\ first' \in {first, Len(timeline) + 1}
    BY <1>2 DEF Baseline
  <2>2. /\ Len(timeline) \in Nat /\ since \in 0 .. Len(timeline) /\ next \in 0 .. Len(timeline)
        /\ first \in 1 .. (Len(timeline) + 1)
        /\ posts \in Nat /\ born \in Nat /\ order \in Seq(Nat) /\ kept \in Seq(Nat) /\ queue \in Seq(Msgs)
    BY DEF TypeInv, QueueInv
  <2>3. since' \in 0 .. Len(timeline) /\ first' \in 1 .. (Len(timeline) + 1)
    BY <2>1, <2>2
  <2>. QED
    BY <2>1, <2>2, <2>3, TypeOutside
<1>3. CASE Sync
  <2>1. CASE queue' \in Responses /\ next' = Len(timeline) /\ pc' = "read"
             /\ since' = since
    <3>1. QueueInv'
      BY <2>1, ResponseFacts DEF TypeInv, QueueInv
    <3>. QED
      BY <1>3, <2>1, <3>1 DEF Sync, TypeInv
  <2>2. CASE UNCHANGED <<pc, next, queue>> /\ (since' = since \/ since' = Len(timeline))
    BY <1>3, <2>2, TypeOutside DEF Sync, TypeInv, QueueInv
  <2>. QED
    BY <1>3, <2>1, <2>2 DEF Sync
<1>4. CASE Skip
  BY <1>4, TypeTail, CountsType DEF Skip, TypeInv
<1>5. CASE Engage
  BY <1>5, TypeOnward, CountsType DEF Engage, TypeInv
<1>6. CASE Ack
  BY <1>6, TypeOnward DEF Ack, TypeInv, QueueInv
<1>7. CASE Notice
  BY <1>7, TypeOnward, PostType DEF Notice, TypeInv, QueueInv
<1>8. CASE TurnEnds
  <2>1. posts' \in Nat /\ order' \in Seq(Nat) /\ kept' \in Seq(Nat)
    BY <1>8, PostType DEF TurnEnds, TypeInv
  <2>. QED
    BY <1>8, <2>1, TypeOnward DEF TurnEnds, TypeInv, QueueInv
<1>9. CASE Finish
  BY <1>9, TypeTail DEF Finish, TypeInv, QueueInv
<1>10. CASE Done
  BY <1>10, TypeOutside DEF Done, TypeInv, QueueInv
<1>11. CASE Due
  BY <1>11, TypeOutside DEF Due, TypeInv, QueueInv
<1>12. CASE Report
  BY <1>12, TypeOutside, PostType DEF Report, TypeInv, QueueInv
<1>13. CASE Fired
  BY <1>13, TypeOutside DEF Fired, TypeInv, QueueInv
<1>14. CASE Say
  <2>1. PICK r \in Rooms, s \in Says, p \in 0 .. posts :
           timeline' = Append(timeline, [room |-> r, says |-> s, to |-> p])
    BY <1>14 DEF Say
  <2>2. [room |-> r, says |-> s, to |-> p] \in Message
    BY DEF Message, TypeInv
  <2>3. timeline' \in Seq(Message) /\ Len(timeline') = Len(timeline) + 1
    BY <2>1, <2>2 DEF TypeInv
  <2>4. Len(timeline') <= MsgCap
    BY <1>14, <2>3, MatrixAssumption DEF Say, TypeInv
  <2>5. QueueInv'
    BY <1>14 DEF Say, TypeInv, QueueInv
  <2>. QED
    BY <1>14, <2>3, <2>4, <2>5 DEF Say, TypeInv
<1>15. CASE Joins
  BY <1>15, TypeOnward DEF Joins, TypeInv, QueueInv
<1>16. CASE Shutdown
  BY <1>16, TypeOutside DEF Shutdown, Off, TypeInv
<1>17. CASE Crash
  BY <1>17, TypeOutside DEF Crash, Off, TypeInv
<1>18. CASE Restart
  BY <1>18, TypeOutside DEF Restart, TypeInv, QueueInv
<1>. QED
  BY <1>1, <1>2, <1>3, <1>4, <1>5, <1>6, <1>7, <1>8, <1>9, <1>10, <1>11, <1>12, <1>13,
     <1>14, <1>15, <1>16, <1>17, <1>18, Steps

----------------------------------------------------------------------------
\* Every message is looked at once

LEMMA LookInit == Init => LookInv
  BY MatrixAssumption DEF Init, LookInv, Reading, Busy, Seen, Ahead, Msgs

\* Steps that look at nothing and leave the messages in hand as they are.
LEMMA LookUntouched ==
  ASSUME TypeInv, LookInv,
         UNCHANGED <<since, next, queue, first, looked, turns, excused>>,
         Len(timeline') >= Len(timeline), Len(timeline') \in Nat,
         \/ pc' = pc
         \/ pc \in Busy /\ pc' \in Busy
         \/ pc \in {"select", "fire"} /\ pc' \in {"select", "fire"}
  PROVE  LookInv'
<1>1. /\ pc' \in Reading <=> pc \in Reading
      /\ pc' \in {"select", "fire"} <=> pc \in {"select", "fire"}
      /\ pc' = "read" <=> pc = "read"
  BY DEF Reading, Busy
<1>2. \A n : (Seen(n)' <=> Seen(n)) /\ (Ahead(n)' <=> Ahead(n))
  BY <1>1 DEF Seen, Ahead
<1>3. \A n \in Msgs : n > Len(timeline') => looked[n] = 0
  BY DEF LookInv, TypeInv, Msgs
<1>. QED
  BY <1>1, <1>2, <1>3 DEF LookInv

\* Once the process is gone only the counts matter.
LEMMA LookGone ==
  ASSUME LookInv, UNCHANGED <<timeline, looked, turns>>, pc' \in {"off", "baseline"}
  PROVE  LookInv'
  BY DEF LookInv, Reading, Busy

\* The first message in hand is looked at, for the first time, and is no longer ahead.
LEMMA LookCounts ==
  ASSUME TypeInv, LookInv, pc = "read", queue # <<>>, pc' \in Reading,
         UNCHANGED <<timeline, since, next, first, excused>>,
         NEW c, c = Current,
         looked' = [looked EXCEPT ![c] = @ + 1],
         turns' \in {turns, [turns EXCEPT ![c] = @ + 1]},
         \A n : Ahead(n)' <=> Ahead(n) /\ n # c
  PROVE  LookInv'
<1>1. /\ queue \in Seq(Msgs) /\ 1 \in DOMAIN queue /\ c = queue[1]
  BY HeadTail DEF TypeInv, QueueInv, Current
<1>2. c \in Msgs /\ c \in (since + 1) .. next
  BY <1>1 DEF TypeInv, QueueInv, Reading
<1>3. Ahead(c)
  BY <1>1 DEF Ahead
<1>4. looked[c] = 0 /\ turns[c] = 0
  BY <1>2, <1>3 DEF LookInv, Reading, TypeInv
<1>5. /\ looked'[c] = 1 /\ turns'[c] \in {0, 1}
      /\ \A n \in Msgs : n # c => looked'[n] = looked[n] /\ turns'[n] = turns[n]
  BY <1>2, <1>4 DEF TypeInv
<1>6. \A n \in Msgs : turns'[n] <= looked'[n] /\ looked'[n] <= 1
  BY <1>5 DEF LookInv
<1>7. \A n \in Msgs : (n > Len(timeline) => looked'[n] = 0) /\ (n > next => looked'[n] = 0)
  <2>1. c <= next /\ next <= Len(timeline) /\ next \in Nat /\ Len(timeline) \in Nat /\ c \in Nat
    <3>1. Len(timeline) \in Nat /\ next \in 0 .. Len(timeline) /\ since \in 0 .. Len(timeline)
      BY DEF TypeInv
    <3>. QED
      BY <1>2, <3>1
  <2>2. \A n \in Msgs : (n > Len(timeline) => looked[n] = 0) /\ (n > next => looked[n] = 0)
    BY DEF LookInv, Reading
  <2>3. ASSUME NEW n \in Msgs, n > Len(timeline) \/ n > next PROVE looked'[n] = 0
    <3>1. n \in Nat
      BY DEF Msgs
    <3>2. n # c
      BY <2>1, <2>3, <3>1
    <3>3. looked'[n] = looked[n]
      BY <1>5, <3>2
    <3>. QED
      BY <2>2, <2>3, <3>3
  <2>. QED
    BY <2>3
<1>8. (since + 1) .. next \subseteq Msgs /\ first .. since \subseteq Msgs
  <2>1. /\ Len(timeline) \in Nat /\ Len(timeline) <= MsgCap /\ MsgCap \in Nat
        /\ since \in 0 .. Len(timeline) /\ next \in 0 .. Len(timeline)
        /\ first \in 1 .. (Len(timeline) + 1)
    BY MatrixAssumption DEF TypeInv
  <2>. QED
    BY <2>1 DEF Msgs
<1>9. \A n \in Msgs : Seen(n) => looked'[n] = 1 \/ n \in excused
  BY <1>4, <1>5 DEF Seen
<1>11. \A n \in first .. since : looked'[n] = 1 \/ n \in excused
  <2>1. \A n \in first .. since : Seen(n)
    BY DEF LookInv, Reading
  <2>. QED
    BY <2>1, <1>8, <1>9
<1>12. \A n \in (since + 1) .. next :
         IF Ahead(n) /\ n # c THEN looked'[n] = 0 ELSE looked'[n] = 1 \/ n \in excused
  <2>1. \A n \in (since + 1) .. next : IF Ahead(n) THEN looked[n] = 0 ELSE Seen(n)
    BY DEF LookInv, Reading
  <2>. QED
    BY <2>1, <1>5, <1>8, <1>9
<1>13. \A n \in (since + 1) .. next :
         IF Ahead(n)' THEN looked'[n] = 0 ELSE looked'[n] = 1 \/ n \in excused
  BY <1>12
<1>. QED
  BY <1>6, <1>7, <1>11, <1>13 DEF LookInv, Reading, Busy, Seen

\* What is behind the first message in hand.
LEMMA TailAhead ==
  ASSUME TypeInv, queue # <<>>, queue' = Tail(queue), pc' = "read"
  PROVE  \A n : Ahead(n)' <=> \E i \in DOMAIN queue : queue[i] = n /\ i # 1
<1>1. queue \in Seq(Msgs)
  BY DEF TypeInv, QueueInv
<1>2. /\ \A i \in DOMAIN queue' : i \in Nat \ {0} /\ i + 1 \in DOMAIN queue /\ queue'[i] = queue[i + 1]
      /\ \A i \in DOMAIN queue : i # 1 => i - 1 \in DOMAIN queue'
  BY <1>1, HeadTail
<1>3. DOMAIN queue \subseteq Nat \ {0}
  BY <1>1
<1>. SUFFICES ASSUME NEW n PROVE Ahead(n)' <=> \E i \in DOMAIN queue : queue[i] = n /\ i # 1
  OBVIOUS
<1>4. ASSUME NEW i \in DOMAIN queue, queue[i] = n, i # 1 PROVE Ahead(n)'
  <2>1. i - 1 \in DOMAIN queue' /\ queue'[i - 1] = queue[i]
    BY <1>2, <1>3, <1>4
  <2>. QED
    BY <1>4, <2>1 DEF Ahead
<1>5. ASSUME NEW i \in DOMAIN queue', queue'[i] = n
      PROVE  \E k \in DOMAIN queue : queue[k] = n /\ k # 1
  <2>1. i + 1 \in DOMAIN queue /\ queue[i + 1] = n /\ i + 1 # 1
    BY <1>2, <1>5
  <2>. QED
    BY <2>1
<1>. QED
  BY <1>4, <1>5 DEF Ahead

\* Without the first message the queue holds the others, as it holds each once.
LEMMA NotFirst ==
  ASSUME TypeInv, pc \in Reading, queue # <<>>, NEW n
  PROVE  (\E i \in DOMAIN queue : queue[i] = n /\ i # 1)
           <=> (\E i \in DOMAIN queue : queue[i] = n) /\ n # Current
<1>1. 1 \in DOMAIN queue /\ Current = queue[1]
  BY HeadTail DEF TypeInv, QueueInv, Current
<1>. QED
  BY <1>1 DEF TypeInv, QueueInv

LEMMA LookNext == TypeInv /\ LookInv /\ [Next]_vars => LookInv'
<1>. SUFFICES ASSUME TypeInv, LookInv, [Next]_vars PROVE LookInv'
  OBVIOUS
<1>. USE DEF server, process, recent, observers
<1>0. Len(timeline) \in Nat /\ since \in Nat /\ next \in Nat /\ first \in Nat
  BY DEF TypeInv
<1>1. CASE UNCHANGED vars
  BY <1>1, LookUntouched, <1>0 DEF vars
<1>2. CASE Baseline
  <2>1. CASE UNCHANGED <<pc, since, first>>
    BY <1>2, <2>1, <1>0, LookUntouched DEF Baseline
  <2>2. CASE pc' = "select" /\ since' = Len(timeline) /\ first' = Len(timeline) + 1
    BY <1>2, <2>2, <1>0 DEF Baseline, LookInv, Reading, Busy
  <2>. QED
    BY <1>2, <2>1, <2>2 DEF Baseline
<1>3. CASE Sync
  <2>0. \A n \in Msgs : n > since => looked[n] = 0
    BY <1>3 DEF Sync, LookInv
  <2>1. CASE /\ queue' \in Responses /\ next' = Len(timeline) /\ pc' = "read"
             /\ excused' = excused \cup (New \ Shown) /\ since' = since
    <3>1. \A n \in New : (\E i \in DOMAIN queue' : queue'[i] = n) <=> n \in Shown
      BY <2>1, ResponseFacts
    <3>2. \A n \in New : Ahead(n)' <=> n \in Shown
      BY <2>1, <3>1 DEF Ahead
    <3>3. New \subseteq Msgs /\ New = (since' + 1) .. next'
      BY <2>1, <1>0, MatrixAssumption DEF TypeInv, New, Msgs
    <3>4. \A n \in (since' + 1) .. next' : IF Ahead(n)' THEN looked'[n] = 0 ELSE Seen(n)'
      BY <1>3, <2>0, <2>1, <3>2, <3>3, <1>0 DEF Sync, New, Seen
    <3>5. \A n \in first' .. since' : Seen(n)'
      BY <1>3, <2>1 DEF Sync, LookInv, Seen
    <3>. QED
      BY <1>3, <2>1, <3>4, <3>5 DEF Sync, LookInv, Reading, Busy
  <2>2. CASE since' = Len(timeline) /\ excused' = excused \cup New /\ UNCHANGED <<pc, next, queue>>
    <3>1. \A n \in first' .. since' : Seen(n)'
      BY <1>3, <2>2, <1>0 DEF Sync, LookInv, Seen, New
    <3>. QED
      BY <1>3, <2>2, <3>1 DEF Sync, LookInv, Reading, Busy
  <2>3. CASE UNCHANGED <<pc, since, next, queue, excused>>
    BY <1>3, <2>3, <1>0, LookUntouched DEF Sync
  <2>. QED
    BY <1>3, <2>1, <2>2, <2>3 DEF Sync
<1>4. CASE Skip
  <2>1. \A n : Ahead(n)' <=> Ahead(n) /\ n # Current
    BY <1>4, TailAhead, NotFirst DEF Skip, Ahead, Reading
  <2>. DEFINE c == Current
  <2>2. \A n : Ahead(n)' <=> Ahead(n) /\ n # c
    BY <2>1
  <2>3. looked' = [looked EXCEPT ![c] = @ + 1]
    BY <1>4 DEF Skip
  <2>4. c = Current
    OBVIOUS
  <2>. HIDE DEF c
  <2>. QED
    BY <1>4, <2>2, <2>3, <2>4, LookCounts DEF Skip, Reading
<1>5. CASE Engage
  <2>1. \A n : Ahead(n)' <=> Ahead(n) /\ n # Current
    BY <1>5, NotFirst DEF Engage, Ahead, Reading
  <2>. DEFINE c == Current
  <2>2. \A n : Ahead(n)' <=> Ahead(n) /\ n # c
    BY <2>1
  <2>3. looked' = [looked EXCEPT ![c] = @ + 1] /\ turns' = [turns EXCEPT ![c] = @ + 1]
    BY <1>5 DEF Engage
  <2>4. c = Current
    OBVIOUS
  <2>. HIDE DEF c
  <2>. QED
    BY <1>5, <2>2, <2>3, <2>4, LookCounts DEF Engage, Reading, Busy
<1>6. CASE Ack
  BY <1>6, <1>0, LookUntouched DEF Ack, Busy
<1>7. CASE Notice
  BY <1>7, <1>0, LookUntouched DEF Notice
<1>8. CASE TurnEnds
  BY <1>8, <1>0, LookUntouched DEF TurnEnds, Busy
<1>9. CASE Finish
  <2>1. queue # <<>> /\ queue' = Tail(queue) /\ pc' = "read" /\ pc = "finish"
    BY <1>9 DEF Finish, TypeInv, QueueInv, Busy
  <2>2. \A n : Ahead(n)' <=> Ahead(n)
    BY <2>1, TailAhead DEF Ahead
  <2>3. \A n : Seen(n)' <=> Seen(n)
    BY <1>9 DEF Finish, Seen
  <2>. QED
    BY <1>9, <2>1, <2>2, <2>3 DEF Finish, LookInv, Reading, Busy
<1>10. CASE Done
  <2>1. \A n : ~Ahead(n)
    BY <1>10 DEF Done, Ahead
  <2>2. \A n \in first .. next : Seen(n)
    BY <1>10, <2>1, <1>0 DEF Done, LookInv, Reading
  <2>3. \A n \in first' .. since' : Seen(n)'
    BY <1>10, <2>2 DEF Done, Seen
  <2>. QED
    BY <1>10, <2>3 DEF Done, LookInv, Reading, Busy
<1>11. CASE Due
  BY <1>11, <1>0, LookUntouched DEF Due
<1>12. CASE Report
  BY <1>12, <1>0, LookUntouched DEF Report
<1>13. CASE Fired
  BY <1>13, <1>0, LookUntouched DEF Fired
<1>14. CASE Say
  <2>1. Len(timeline') \in Nat /\ Len(timeline') >= Len(timeline)
    <3>1. PICK e : timeline' = Append(timeline, e)
      BY <1>14 DEF Say
    <3>. QED
      BY <3>1, <1>0 DEF TypeInv
  <2>. QED
    BY <1>14, <2>1, LookUntouched DEF Say
<1>15. CASE Joins
  BY <1>15, <1>0, LookUntouched DEF Joins
<1>16. CASE Shutdown
  BY <1>16, LookGone DEF Shutdown, Off
<1>17. CASE Crash
  BY <1>17, LookGone DEF Crash, Off
<1>18. CASE Restart
  BY <1>18, LookGone DEF Restart
<1>. QED
  BY <1>1, <1>2, <1>3, <1>4, <1>5, <1>6, <1>7, <1>8, <1>9, <1>10, <1>11, <1>12, <1>13,
     <1>14, <1>15, <1>16, <1>17, <1>18, Steps

----------------------------------------------------------------------------
\* Replies

LEMMA ReplyInit == Init => ReplyInv
  BY MatrixAssumption DEF Init, ReplyInv, RecentInv, RepliesReengage

\* The sorts of what RecentInv speaks of.
LEMMA RecentTypes ==
  ASSUME TypeInv
  PROVE  /\ Cap \in Nat \ {0} /\ posts \in Nat /\ born \in Nat
         /\ order \in Seq(Nat) /\ Len(order) \in Nat
         /\ kept \in Seq(Nat) /\ Len(kept) \in Nat /\ DOMAIN kept = 1 .. Len(kept)
         /\ \A i \in 1 .. Len(kept) : kept[i] \in Nat
<1>1. posts \in Nat /\ born \in Nat /\ order \in Seq(Nat) /\ kept \in Seq(Nat)
  BY DEF TypeInv
<1>. QED
  BY <1>1, MatrixAssumption

\* A new id at the end of what is kept, and of the last of it.
LEMMA LongerRecent ==
  ASSUME NEW k \in Seq(Nat), NEW o \in Seq(Nat), NEW p \in Nat, Len(o) <= Len(k),
         \A i \in 1 .. Len(o) : o[i] = k[(Len(k) - Len(o)) + i]
  PROVE  \A i \in 1 .. (Len(o) + 1) : Append(o, p)[i] = Append(k, p)[(Len(k) - Len(o)) + i]
<1>. DEFINE n == Len(k)
            m == Len(o)
            kp == Append(k, p)
            op == Append(o, p)
<1>1. n \in Nat /\ m \in Nat /\ m <= n
  OBVIOUS
<1>2. kp[n + 1] = p /\ op[m + 1] = p /\ (\A i \in 1 .. n : kp[i] = k[i]) /\ \A i \in 1 .. m : op[i] = o[i]
  OBVIOUS
<1>3. \A i \in 1 .. m : o[i] = k[(n - m) + i]
  OBVIOUS
<1>. HIDE DEF n, m, kp, op
<1>4. SUFFICES ASSUME NEW i \in 1 .. (m + 1) PROVE op[i] = kp[(n - m) + i]
  BY DEF n, m, kp, op
<1>5. CASE i \in 1 .. m
  <2>1. (n - m) + i \in 1 .. n
    BY <1>1, <1>5
  <2>. QED
    BY <1>2, <1>3, <1>5, <2>1
<1>6. CASE i = m + 1
  <2>1. (n - m) + i = n + 1
    BY <1>1, <1>6
  <2>. QED
    BY <1>2, <1>6, <2>1
<1>. QED
  BY <1>1, <1>4, <1>5, <1>6

\* A larger number at the end of what has a bound.
LEMMA LargerBound ==
  ASSUME NEW k \in Seq(Nat), NEW b \in Nat, NEW p \in Nat, b <= p, \A i \in 1 .. Len(k) : k[i] <= b
  PROVE  \A i \in 1 .. (Len(k) + 1) : Append(k, p)[i] <= p
<1>. DEFINE n == Len(k)
            kp == Append(k, p)
<1>1. n \in Nat /\ kp[n + 1] = p /\ (\A i \in 1 .. n : kp[i] = k[i] /\ k[i] \in Nat)
  OBVIOUS
<1>2. \A i \in 1 .. n : k[i] <= b
  OBVIOUS
<1>. HIDE DEF n, kp
<1>3. SUFFICES ASSUME NEW i \in 1 .. (n + 1) PROVE kp[i] <= p
  BY DEF n, kp
<1>4. i \in 1 .. n \/ i = n + 1
  BY <1>1, <1>3
<1>. QED
  BY <1>1, <1>2, <1>4

\* Whether a post goes out or not, and whether that is known or not, the ids that
\* are kept are the last ones.
LEMMA PostRecent ==
  ASSUME TypeInv, RecentInv, Post, pc # "off", pc' # "off", UNCHANGED born
  PROVE  RecentInv'
<1>. DEFINE n == Len(kept)
            m == Len(order)
<1>1. /\ Cap \in Nat \ {0} /\ posts \in Nat /\ born \in Nat /\ n \in Nat /\ m \in Nat
      /\ order \in Seq(Nat) /\ kept \in Seq(Nat) /\ \A i \in 1 .. n : kept[i] \in Nat
  BY RecentTypes
<1>2. /\ born <= n /\ m <= Cap /\ m <= n - born /\ (m < Cap => m = n - born)
      /\ \A i \in 1 .. m : order[i] = kept[(n - m) + i]
      /\ \A i \in 1 .. n : kept[i] <= posts
  BY DEF RecentInv
<1>3. n = Len(kept) /\ m = Len(order)
  OBVIOUS
<1>. HIDE DEF n, m
<1>4. CASE posts' \in {posts, posts + 1} /\ UNCHANGED recent
  <2>1. \A i \in 1 .. n : kept[i] <= posts'
    BY <1>1, <1>2, <1>4
  <2>2. order' = order /\ kept' = kept
    BY <1>4 DEF recent
  <2>. QED
    BY <1>2, <1>3, <2>1, <2>2 DEF RecentInv
<1>5. CASE posts' = posts + 1 /\ order' = insert(order, posts') /\ kept' = Append(kept, posts')
  <2>. DEFINE p == posts + 1
              longer == Append(order, p)
  <2>1. ASSUME NEW i \in 1 .. m PROVE order[i] # p
    <3>1. (n - m) + i \in 1 .. n
      BY <1>1, <1>2
    <3>2. order[i] <= posts /\ order[i] \in Nat
      BY <1>1, <1>2, <3>1
    <3>. QED
      BY <1>1, <3>2
  <2>2. ~Contains(order, p)
    BY <1>1, <1>3, <2>1 DEF Contains
  <2>3. posts' = p /\ p \in Nat /\ kept' = Append(kept, p) /\ born' = born
    BY <1>1, <1>5
  <2>4. order' = IF m + 1 > Cap THEN Tail(longer) ELSE longer
    BY <1>3, <1>5, <2>2, <2>3 DEF insert
  <2>5. m <= n /\ n - born \in Nat
    BY <1>1, <1>2
  <2>. HIDE DEF p
  <2>6. \A i \in 1 .. (m + 1) : longer[i] = kept'[(n - m) + i]
    BY <1>1, <1>2, <1>3, <2>3, <2>5, LongerRecent DEF n, m
  <2>7. /\ Len(longer) = m + 1 /\ Len(kept') = n + 1
        /\ Len(Tail(longer)) = m /\ \A i \in 1 .. m : Tail(longer)[i] = longer[i + 1]
    <3>1. /\ Len(longer) = m + 1 /\ Len(Tail(longer)) = m
          /\ \A i \in 1 .. m : Tail(longer)[i] = longer[i + 1]
      <4>1. order \in Seq(Nat) /\ p \in Nat
        BY <1>1, <2>3
      <4>2. /\ Len(Append(order, p)) = Len(order) + 1 /\ Len(Tail(Append(order, p))) = Len(order)
            /\ \A i \in 1 .. Len(order) : Tail(Append(order, p))[i] = Append(order, p)[i + 1]
        <5>. HIDE DEF longer
        <5>1. Len(Append(order, p)) = Len(order) + 1 /\ Len(Tail(Append(order, p))) = Len(order)
          BY <4>1, AppendFacts, Zenon
        <5>. QED
          BY <4>1, <5>1, AppendTail, Zenon
      <4>. QED
        BY <1>3, <4>2, Zenon
    <3>2. Len(kept') = n + 1
      <4>1. kept \in Seq(Nat) /\ p \in Nat
        BY <1>1, <2>3
      <4>. QED
        BY <1>3, <2>3, <4>1, AppendFacts, Zenon
    <3>. QED
      BY <3>1, <3>2
  <2>8. \A i \in 1 .. (n + 1) : kept'[i] <= p
    <3>1. posts <= p
      BY <1>1 DEF p
    <3>. QED
      BY <1>1, <1>2, <2>3, <3>1, LargerBound DEF n
  <2>. HIDE DEF longer
  <2>9. CASE m + 1 > Cap
    <3>1. m = Cap /\ order' = Tail(longer)
      BY <1>1, <1>2, <2>4, <2>9
    <3>2. Len(order') = m /\ \A i \in 1 .. m : order'[i] = longer[i + 1]
      BY <2>7, <3>1
    <3>3. \A i \in 1 .. m : order'[i] = kept'[((n + 1) - m) + i]
      <4>1. SUFFICES ASSUME NEW i \in 1 .. m PROVE order'[i] = kept'[((n + 1) - m) + i]
        OBVIOUS
      <4>2. i + 1 \in 1 .. (m + 1) /\ (n - m) + (i + 1) = ((n + 1) - m) + i
        BY <1>1, <4>1
      <4>. QED
        BY <2>6, <3>2, <4>2
    <3>4. born <= n + 1 /\ m <= (n + 1) - born /\ m <= Cap /\ ~(m < Cap)
      BY <1>1, <1>2, <3>1
    <3>. QED
      BY <2>3, <2>7, <2>8, <3>2, <3>3, <3>4 DEF RecentInv
  <2>10. CASE ~(m + 1 > Cap)
    <3>1. order' = longer /\ Len(order') = m + 1
      BY <2>4, <2>7, <2>10
    <3>2. /\ (n + 1) - (m + 1) = n - m /\ born <= n + 1 /\ m + 1 <= Cap
          /\ m + 1 <= (n + 1) - born /\ m + 1 = (n + 1) - born
      BY <1>1, <1>2, <2>10
    <3>3. \A i \in 1 .. (m + 1) : order'[i] = kept'[((n + 1) - (m + 1)) + i]
      BY <2>6, <3>1, <3>2
    <3>. QED
      BY <2>3, <2>7, <2>8, <3>1, <3>2, <3>3 DEF RecentInv
  <2>. QED
    BY <2>9, <2>10
<1>. QED
  BY <1>4, <1>5 DEF Post

LEMMA ToType == TypeInv => \A n \in DOMAIN timeline : timeline[n].to \in Nat
<1>. SUFFICES ASSUME TypeInv, NEW n \in DOMAIN timeline PROVE timeline[n].to \in Nat
  OBVIOUS
<1>1. timeline[n] \in Message
  BY DEF TypeInv
<1>. QED
  BY <1>1 DEF Message

\* The ids are kept or forgotten together with the process.
LEMMA RecentKept ==
  ASSUME RecentInv, UNCHANGED <<posts, order, kept, born>>, pc' # "off" <=> pc # "off"
  PROVE  RecentInv'
  BY DEF RecentInv

\* Nothing is passed over, and what was passed over stays so for the same reasons.
LEMMA ReplyKept ==
  ASSUME TypeInv, ReplyInv, RecentInv', UNCHANGED <<timeline, skipped>>,
         posts' \in Nat, posts' >= posts, born' \in Nat, born' >= born, first' \in Nat, first' >= first,
         kept' = kept \/ kept' = Append(kept, posts + 1)
  PROVE  ReplyInv'
<1>0. /\ \A n \in DOMAIN timeline : timeline[n].to \in Nat /\ timeline[n].to <= posts
      /\ posts \in Nat /\ born \in Nat /\ first \in Nat
      /\ kept \in Seq(Nat) /\ Len(kept) \in Nat /\ DOMAIN kept = 1 .. Len(kept)
  <2>1. first \in Nat /\ \A n \in DOMAIN timeline : timeline[n].to <= posts
    BY DEF ReplyInv, TypeInv
  <2>. QED
    BY <2>1, ToType, RecentTypes
<1>1. \A n \in DOMAIN timeline' : timeline'[n].to <= posts'
  BY <1>0
<1>2. \A i \in DOMAIN kept' : (i \in DOMAIN kept /\ kept'[i] = kept[i]) \/ kept'[i] = posts + 1
  <2>1. CASE kept' = Append(kept, posts + 1)
    <3>1. SUFFICES ASSUME NEW i \in 1 .. (Len(kept) + 1)
                   PROVE  (i \in DOMAIN kept /\ kept'[i] = kept[i]) \/ kept'[i] = posts + 1
      BY <1>0, <2>1
    <3>2. i \in 1 .. Len(kept) \/ i = Len(kept) + 1
      BY <1>0, <3>1
    <3>. QED
      BY <1>0, <2>1, <3>2
  <2>2. CASE kept' = kept
    BY <2>2
  <2>. QED
    BY <2>1, <2>2
<1>3. RepliesReengage'
  <2>1. SUFFICES ASSUME NEW s \in skipped, timeline[s[1]].says = "reply", s[1] >= first',
                        NEW i \in DOMAIN kept', kept'[i] = timeline[s[1]].to
                 PROVE  i <= born' \/ i + Cap <= s[2]
    BY DEF RepliesReengage, ReplyInv
  <2>2. s[1] \in DOMAIN timeline /\ s[1] \in Nat
    BY <2>1 DEF ReplyInv, TypeInv
  <2>3. s[1] >= first /\ kept'[i] <= posts
    BY <1>0, <2>1, <2>2
  <2>4. i \in DOMAIN kept /\ kept[i] = timeline[s[1]].to
    <3>1. kept'[i] # posts + 1
      BY <1>0, <2>1, <2>2, <2>3
    <3>. QED
      BY <1>2, <2>1, <3>1
  <2>5. i <= born \/ i + Cap <= s[2]
    BY <2>1, <2>3, <2>4 DEF ReplyInv, RepliesReengage
  <2>. QED
    BY <1>0, <2>4, <2>5
<1>. QED
  BY <1>1, <1>3 DEF ReplyInv

\* A message that is passed over replies to none of the ids there are.
LEMMA SkipReply ==
  ASSUME TypeInv, ReplyInv, Skip
  PROVE  ReplyInv'
<1>. DEFINE c == Current
            n == Len(kept)
            m == Len(order)
<1>0. /\ Cap \in Nat \ {0} /\ born \in Nat /\ n \in Nat /\ m \in Nat
      /\ order \in Seq(Nat) /\ DOMAIN kept = 1 .. n
  BY RecentTypes
<1>1. c \in 1 .. Len(timeline)
  <2>1. /\ queue \in Seq(Msgs) /\ queue # <<>> /\ Len(timeline) \in Nat /\ since \in Nat /\ next <= Len(timeline)
        /\ next \in Nat /\ \A i \in DOMAIN queue : queue[i] \in (since + 1) .. next
    BY DEF Skip, TypeInv, QueueInv, Reading
  <2>2. c \in (since + 1) .. next
    BY <2>1, HeadTail DEF Current
  <2>. QED
    BY <2>1, <2>2
<1>2. timeline[c].says # "mention" /\ ~Contains(order, timeline[c].to)
  BY DEF Skip, Triggered
<1>3. /\ m <= Cap /\ m <= n - born /\ (m < Cap => m = n - born)
      /\ \A k \in 1 .. m : order[k] = kept[(n - m) + k]
  BY DEF ReplyInv, RecentInv, Skip
<1>4. m = Len(order)
  OBVIOUS
<1>. HIDE DEF n, m
<1>5. ASSUME NEW i \in DOMAIN kept, kept[i] = timeline[c].to, ~(i <= born), ~(i + Cap <= n)
      PROVE  FALSE
  <2>. DEFINE k == i - (n - m)
  <2>1. k \in 1 .. m /\ (n - m) + k = i
    BY <1>0, <1>3, <1>5
  <2>. HIDE DEF k
  <2>2. order[k] = timeline[c].to
    BY <1>3, <1>5, <2>1
  <2>. QED
    BY <1>0, <1>2, <1>4, <2>1, <2>2 DEF Contains
<1>6. skipped' = skipped \cup {<<c, n>>}
  BY DEF Skip, n
<1>7. UNCHANGED <<timeline, first, born, posts, order, kept>> /\ pc # "off" /\ pc' # "off"
  BY DEF Skip, server, recent
<1>8. \A i \in DOMAIN kept : kept[i] = timeline[c].to => i <= born \/ i + Cap <= n
  BY <1>5
<1>. HIDE DEF c
<1>9. RecentInv'
  BY <1>7, RecentKept DEF ReplyInv
<1>10. RepliesReengage'
  BY <1>2, <1>6, <1>7, <1>8 DEF ReplyInv, RepliesReengage
<1>. QED
  BY <1>0, <1>1, <1>6, <1>7, <1>9, <1>10 DEF ReplyInv

LEMMA ReplyNext == TypeInv /\ ReplyInv /\ [Next]_vars => ReplyInv'
<1>. SUFFICES ASSUME TypeInv, ReplyInv, [Next]_vars PROVE ReplyInv'
  OBVIOUS
<1>. USE DEF server, process, recent, observers
<1>0. /\ RecentInv /\ posts \in Nat /\ born \in Nat /\ first \in Nat /\ Len(timeline) \in Nat
      /\ first <= Len(timeline) + 1
  BY DEF TypeInv, ReplyInv
<1>1. ASSUME UNCHANGED <<timeline, skipped, posts, order, kept, born, first>>, pc' # "off" <=> pc # "off"
      PROVE  ReplyInv'
  BY <1>0, <1>1, RecentKept, ReplyKept
<1>2. ASSUME Post, pc # "off", pc' # "off", UNCHANGED <<timeline, skipped, born, first>>
      PROVE  ReplyInv'
  <2>1. kept' = kept \/ kept' = Append(kept, posts + 1)
    BY <1>2 DEF Post
  <2>. QED
    BY <1>0, <1>2, <2>1, PostRecent, PostType, ReplyKept
<1>3. CASE UNCHANGED vars
  BY <1>1, <1>3 DEF vars
<1>4. CASE Baseline
  BY <1>0, <1>4, RecentKept, ReplyKept DEF Baseline
<1>5. CASE Sync
  BY <1>1, <1>5 DEF Sync
<1>6. CASE Skip
  BY <1>6, SkipReply
<1>7. CASE Engage
  BY <1>1, <1>7 DEF Engage
<1>8. CASE Ack
  BY <1>1, <1>8 DEF Ack
<1>9. CASE Notice
  BY <1>2, <1>9 DEF Notice
<1>10. CASE TurnEnds
  <2>1. CASE Post
    BY <1>2, <1>10, <2>1 DEF TurnEnds
  <2>2. CASE UNCHANGED <<posts, order, kept>>
    BY <1>1, <1>10, <2>2 DEF TurnEnds
  <2>. QED
    BY <1>10, <2>1, <2>2 DEF TurnEnds
<1>11. CASE Finish
  BY <1>1, <1>11 DEF Finish
<1>12. CASE Done
  BY <1>1, <1>12 DEF Done
<1>13. CASE Due
  BY <1>1, <1>13 DEF Due
<1>14. CASE Report
  BY <1>2, <1>14 DEF Report
<1>15. CASE Fired
  BY <1>1, <1>15 DEF Fired
<1>16. CASE Say
  <2>1. PICK r \in Rooms, w \in Says, p \in 0 .. posts :
           timeline' = Append(timeline, [room |-> r, says |-> w, to |-> p])
    BY <1>16 DEF Say
  <2>2. /\ Len(timeline') = Len(timeline) + 1
        /\ \A n \in 1 .. Len(timeline) : timeline'[n] = timeline[n]
        /\ timeline'[Len(timeline) + 1].to = p
        /\ DOMAIN timeline' = 1 .. (Len(timeline) + 1)
    BY <2>1 DEF TypeInv
  <2>3. UNCHANGED <<posts, order, kept, born, first, pc, skipped>>
    BY <1>16 DEF Say
  <2>4. RecentInv'
    BY <1>0, <2>3, RecentKept
  <2>5. \A n \in DOMAIN timeline' : timeline'[n].to <= posts
    <3>. SUFFICES ASSUME NEW n \in 1 .. (Len(timeline) + 1) PROVE timeline'[n].to <= posts
      BY <2>2
    <3>1. CASE n = Len(timeline) + 1
      BY <2>1, <2>2, <3>1
    <3>2. CASE n \in 1 .. Len(timeline)
      <4>1. DOMAIN timeline = 1 .. Len(timeline)
        BY DEF TypeInv
      <4>2. timeline[n].to <= posts
        BY <3>2, <4>1 DEF ReplyInv
      <4>. QED
        BY <2>2, <3>2, <4>2
    <3>3. n \in 1 .. Len(timeline) \/ n = Len(timeline) + 1
      <4>1. Len(timeline) \in Nat
        BY DEF TypeInv
      <4>. QED
        BY <4>1
    <3>. QED
      BY <3>1, <3>2, <3>3
  <2>6. \A s \in skipped : s[1] \in 1 .. Len(timeline) /\ s[2] \in Nat
    BY DEF ReplyInv
  <2>7. RepliesReengage'
    BY <2>2, <2>3, <2>6 DEF ReplyInv, RepliesReengage
  <2>. QED
    BY <1>0, <2>2, <2>3, <2>4, <2>5, <2>6, <2>7 DEF ReplyInv
<1>17. CASE Joins
  BY <1>1, <1>17 DEF Joins
<1>18. CASE Shutdown
  <2>1. order' = <<>> /\ pc' = "off" /\ posts' \in {posts, posts + 1} /\ UNCHANGED <<kept, born>>
    BY <1>18 DEF Shutdown, Off
  <2>2. RecentInv'
    <3>1. \A i \in 1 .. Len(kept) : kept[i] <= posts /\ kept[i] \in Nat
      <4>1. \A i \in 1 .. Len(kept) : kept[i] \in Nat
        BY <1>0, RecentTypes, Zenon
      <4>2. \A i \in 1 .. Len(kept) : kept[i] <= posts
        BY <1>0, Zenon DEF RecentInv
      <4>. QED
        BY <4>1, <4>2, Zenon
    <3>2. posts <= posts' /\ posts' \in Nat
      BY <1>0, <2>1
    <3>3. \A i \in 1 .. Len(kept') : kept'[i] <= posts'
      BY <1>0, <2>1, <3>1, <3>2
    <3>4. born' <= Len(kept')
      BY <1>0, <2>1 DEF RecentInv
    <3>5. pc' = "off" /\ order' = <<>>
      BY <2>1
    <3>. QED
      BY <3>3, <3>4, <3>5, Zenon DEF RecentInv
  <2>. QED
    BY <1>0, <1>18, <2>1, <2>2, ReplyKept DEF Shutdown
<1>19. CASE Crash
  <2>1. RecentInv'
    BY <1>0, <1>19 DEF Crash, Off, RecentInv
  <2>. QED
    BY <1>0, <1>19, <2>1, ReplyKept DEF Crash
<1>20. CASE Restart
  <2>1. RecentInv'
    BY <1>0, <1>20, MatrixAssumption DEF Restart, RecentInv
  <2>. QED
    BY <1>0, <1>20, <2>1, ReplyKept DEF Restart, RecentInv
<1>. QED
  BY <1>3, <1>4, <1>5, <1>6, <1>7, <1>8, <1>9, <1>10, <1>11, <1>12, <1>13, <1>14, <1>15,
     <1>16, <1>17, <1>18, <1>19, <1>20, Steps

----------------------------------------------------------------------------
\* Reactions

LEMMA MarkInit == Init => MarkInv
  BY DEF Init, MarkInv

\* Turns and marks stay as they are, and so does the message in hand.
LEMMA MarkKept ==
  ASSUME MarkInv, UNCHANGED <<eyes, marked, turns>>, unsaid \subseteq unsaid',
         pc \in Busy => (pc' \in Busy /\ queue' = queue) \/ Current \in unsaid'
  PROVE  MarkInv'
<1>. SUFFICES ASSUME NEW n \in Msgs \ unsaid', turns[n] = 1
              PROVE  (n \in marked /\ n \notin eyes) \/ (pc' \in Busy /\ n = Head(queue'))
  BY DEF MarkInv, Current
<1>1. (n \in marked /\ n \notin eyes) \/ (pc \in Busy /\ n = Head(queue))
  BY DEF MarkInv, Current
<1>. QED
  BY <1>1 DEF Current

LEMMA MarkNext == TypeInv /\ LookInv /\ MarkInv /\ [Next]_vars => MarkInv'
<1>. SUFFICES ASSUME TypeInv, LookInv, MarkInv, [Next]_vars PROVE MarkInv'
  OBVIOUS
<1>. USE DEF server, process, recent, observers, Busy
<1>1. CASE UNCHANGED vars
  BY <1>1, MarkKept DEF vars
<1>2. CASE Baseline
  BY <1>2, MarkKept DEF Baseline
<1>3. CASE Sync
  BY <1>3, MarkKept DEF Sync
<1>4. CASE Skip
  BY <1>4, MarkKept DEF Skip
<1>5. CASE Engage
  <2>. DEFINE c == Head(queue)
  <2>1. turns' = [turns EXCEPT ![c] = @ + 1] /\ pc' = "ack" /\ queue' = queue /\ pc = "read"
    BY <1>5 DEF Engage, Current
  <2>2. \A n \in Msgs : n # c => turns'[n] = turns[n]
    BY <2>1 DEF TypeInv
  <2>3. UNCHANGED <<eyes, marked, unsaid>>
    BY <1>5 DEF Engage
  <2>. QED
    BY <2>1, <2>2, <2>3 DEF MarkInv, Current
<1>6. CASE Ack
  <2>. DEFINE c == Head(queue)
  <2>1. pc' \in {"turn", "finish"} /\ queue' = queue /\ UNCHANGED <<marked, turns>>
    BY <1>6 DEF Ack
  <2>2. eyes' \subseteq eyes \cup {c} /\ unsaid \subseteq unsaid'
    BY <1>6 DEF Ack, Current
  <2>3. \A n \in Msgs \ unsaid' : turns[n] = 1 => (n \in marked /\ n \notin eyes') \/ n = c
    BY <2>2 DEF MarkInv, Current
  <2>. QED
    BY <2>1, <2>3 DEF MarkInv, Current
<1>7. CASE Notice
  BY <1>7, MarkKept DEF Notice
<1>8. CASE TurnEnds
  BY <1>8, MarkKept DEF TurnEnds
<1>9. CASE Finish
  <2>. DEFINE c == Head(queue)
  <2>1. PICK retracted \in BOOLEAN, said \in BOOLEAN :
           /\ eyes' = eyes \ {c} \/ (~retracted /\ eyes' = eyes)
           /\ marked' = marked \cup {c} \/ (~said /\ marked' = marked)
           /\ unsaid' = IF retracted /\ said THEN unsaid ELSE unsaid \cup {c}
    BY <1>9 DEF Finish, Current
  <2>2. UNCHANGED turns
    BY <1>9 DEF Finish
  <2>3. \A n \in Msgs \ unsaid' : turns[n] = 1 => n \in marked' /\ n \notin eyes'
    <3>. SUFFICES ASSUME NEW n \in Msgs \ unsaid', turns[n] = 1
                  PROVE  n \in marked' /\ n \notin eyes'
      OBVIOUS
    <3>1. CASE n = c
      BY <2>1, <3>1
    <3>2. CASE n # c
      <4>1. n \in marked /\ n \notin eyes
        BY <2>1, <3>2 DEF MarkInv, Current
      <4>. QED
        BY <2>1, <3>2, <4>1
    <3>. QED
      BY <3>1, <3>2
  <2>. QED
    BY <2>2, <2>3 DEF MarkInv
<1>10. CASE Done
  BY <1>10, MarkKept DEF Done
<1>11. CASE Due
  BY <1>11, MarkKept DEF Due
<1>12. CASE Report
  BY <1>12, MarkKept DEF Report
<1>13. CASE Fired
  BY <1>13, MarkKept DEF Fired
<1>14. CASE Say
  BY <1>14, MarkKept DEF Say
<1>15. CASE Joins
  BY <1>15, MarkKept DEF Joins
<1>16. CASE Shutdown
  BY <1>16, MarkKept DEF Shutdown, Off
<1>17. CASE Crash
  BY <1>17, MarkKept DEF Crash, Off
<1>18. CASE Restart
  BY <1>18, MarkKept DEF Restart
<1>. QED
  BY <1>1, <1>2, <1>3, <1>4, <1>5, <1>6, <1>7, <1>8, <1>9, <1>10, <1>11, <1>12, <1>13,
     <1>14, <1>15, <1>16, <1>17, <1>18, Steps

----------------------------------------------------------------------------
\* The theorems

LEMMA Invariant == Spec => []IInv
<1>1. Init => IInv
  BY TypeInit, LookInit, ReplyInit, MarkInit DEF IInv
<1>2. IInv /\ [Next]_vars => IInv'
  BY TypeNext, LookNext, ReplyNext, MarkNext DEF IInv
<1>. QED
  BY <1>1, <1>2, PTL DEF Spec

\* Every message behind the token was looked at exactly once, or the homeserver
\* left it out, or it came with an unreadable one; no message gets two turns,
\* over any number of jobs, failures and restarts (serve_loop, lib.rs:2085).
THEOREM LookedAtOnceAlways == Spec => []LookedAtOnce
<1>1. IInv => LookedAtOnce
  <2>. SUFFICES ASSUME IInv PROVE LookedAtOnce
    OBVIOUS
  <2>1. \A n \in Msgs : looked[n] \in Nat /\ turns[n] \in Nat
    BY DEF IInv, TypeInv
  <2>2. \A n \in Msgs : looked[n] <= 1 /\ turns[n] <= 1
    BY <2>1 DEF IInv, LookInv
  <2>. QED
    BY <2>2 DEF IInv, LookInv, LookedAtOnce, Seen
<1>. QED
  BY <1>1, Invariant, PTL

\* No mention, and no reply to one of the last Cap messages whose ids this process
\* has kept, is passed over, for any capacity of RecentIds (lib.rs:2571).
THEOREM RepliesReengageAlways == Spec => []RepliesReengage
<1>1. IInv => RepliesReengage
  BY DEF IInv, ReplyInv
<1>. QED
  BY <1>1, Invariant, PTL

\* What had its turn carries its outcome and no longer the first reaction, unless
\* a request failed or the process died under it (finish_reaction).
THEOREM TurnsAreMarkedAlways == Spec => []TurnsAreMarked
<1>1. IInv => TurnsAreMarked
  BY DEF IInv, MarkInv, TurnsAreMarked, Busy
<1>. QED
  BY <1>1, Invariant, PTL

=============================================================================
