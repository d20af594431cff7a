------------------------------ MODULE FileEdits ------------------------------
(***************************************************************************)
(* The tools that change files: write_file, edit_anchored and edit_files,  *)
(* str_replace and batch_edit (lvz-tools/src/builtins.rs, context.rs and   *)
(* batch.rs, over lvz-context/src/anchor.rs).  Each reads a file, computes *)
(* the whole new text and writes it back, with awaits in between and no    *)
(* lock: turns that run at the same time (of other gateways, or of a       *)
(* prompt the user has given up on) take part as Actors.  A write empties  *)
(* the file and then fills it from its beginning, through a handle of its  *)
(* own, and may break off on the way.  batch_edit reads all its files,     *)
(* waits for the provider's batch job, and writes the replies over what it *)
(* had read.                                                               *)
(*                                                                         *)
(* A file is a sequence of lines, a line a value; Anchor maps a line to    *)
(* the hash of its trimmed text.  str_replace works on the same sequences, *)
(* a snippet being a sequence of lines.  Newlines at the end of a file,    *)
(* code fences and the wording of reports are left out.                    *)
(***************************************************************************)
EXTENDS Naturals, Sequences, FiniteSets, SequencesExt

CONSTANTS
  Actors,     \* turns that may edit at the same time
  Paths,
  Starts,     \* what the files hold to begin with: functions on Paths
  Calls,      \* the calls the model may make
  Anchor,     \* line -> the hash of its trimmed text
  Absent,     \* of a file that is not there
  Refused,    \* instead of a text: the edit does not apply
  None,       \* no call, no landmark
  Marker,     \* the line that opens a SEARCH/REPLACE block
  Marks,      \* lines that only an edit writes
  MaxPolls,   \* of one batch job
  CallCap,    \* bound: calls, of all actors
  FailCap     \* bound: writes that fail

Texts == Seq(DOMAIN Anchor)

ASSUME EditsAssumption ==
  /\ Marks \cup {Marker} \subseteq DOMAIN Anchor
  /\ None \notin {Anchor[l] : l \in DOMAIN Anchor}
  /\ Absent \notin Texts
  /\ \A s \in Starts : s \in [Paths -> Texts \cup {Absent}]
  /\ MaxPolls \in Nat \ {0} /\ CallCap \in Nat /\ FailCap \in Nat

\* A call names a file, and the text to look for is not empty: without them the
\* tools do nothing.
ASSUME CallsAssumption ==
  /\ None \notin Calls
  /\ \A c \in Calls :
       /\ c.tool \in {"write_file", "edit_files", "str_replace", "batch_edit"}
       /\ c.files \in Seq(Range(c.files)) \ {<<>>}
       /\ c.content \in Texts /\ c.new \in Texts /\ c.after \in Texts /\ c.before \in Texts
       /\ c.old \in Texts /\ (c.tool = "str_replace" => c.old # <<>>)
       /\ \A i \in DOMAIN c.files :
            /\ c.files[i].path \in Paths
            /\ c.files[i].edits \in Seq(Range(c.files[i].edits))
            /\ \A k \in DOMAIN c.files[i].edits : c.files[i].edits[k].text \in Texts

\* A mark is a line by which an edit is known: what a call writes to a file holds
\* no mark but the call's own, and no file holds one to begin with.
ASSUME MarksAssumption ==
  /\ Marker \notin Marks
  /\ \A s \in Starts, p \in Paths : s[p] # Absent => Range(s[p]) \cap Marks = {}
  /\ \A c \in Calls : \A i \in DOMAIN c.files :
       /\ c.files[i].mark \in Marks
       /\ (Range(c.content) \cup Range(c.new)) \cap Marks \subseteq {c.files[i].mark}
       /\ \A k \in DOMAIN c.files[i].edits :
            Range(c.files[i].edits[k].text) \cap Marks \subseteq {c.files[i].mark}

VARIABLES
  disk,     \* what each file holds
  pc,       \* "idle", "read", "write", "fill", "polling", "apply"
  call,     \* the call in hand
  at,       \* which of its files, or of its batch's tasks
  put,      \* the text to write
  got,      \* the text it was computed from
  tasks,    \* of batch_edit: what was read, for the job
  results,  \* of batch_edit: the items of the job, in the provider's order
  polls,
  calls, fails,
  \* observers
  said,     \* per file: the marks that the reports, put together, say are in
  raced,    \* files that two edits had read and not yet written at one time
  torn      \* files that a write broke off in and none has written whole since

job == <<tasks, results, polls>>
vars == <<disk, pc, call, at, put, got, job, calls, fails, said, raced, torn>>

------------------------------------------------------------------------------
\* Edits by anchor (anchor.rs).

Smallest(S) == CHOOSE i \in S : \A j \in S : i <= j

Matches(src, anchor) == {i \in DOMAIN src : Anchor[src[i]] = anchor}

\* The line an edit means, or 0: the only one with its anchor, or else the
\* first one after a landmark that is itself unique.
Resolve(src, e) ==
  LET many == Matches(src, e.anchor)
      landmark == IF e.after = None THEN {} ELSE Matches(src, e.after)
      later == {i \in many : \A j \in landmark : j < i}
  IN  CASE Cardinality(many) = 1 -> Smallest(many)
        [] Cardinality(many) > 1 /\ Cardinality(landmark) = 1 /\ later # {} -> Smallest(later)
        [] OTHER -> 0

apply_edits(src, edits) ==
  LET here(i, k, op) == Resolve(src, edits[k]) = i /\ edits[k].op = op
      texts(i, op) ==
        FlattenSeq([k \in DOMAIN edits |-> IF here(i, k, op) THEN edits[k].text ELSE <<>>])
      taken(i) == \E k \in DOMAIN edits : here(i, k, "replace") \/ here(i, k, "delete")
      line(i) == texts(i, "insert_before")
                 \o (IF taken(i) THEN texts(i, "replace") ELSE <<src[i]>>)
                 \o texts(i, "insert_after")
  IN  IF \E k \in DOMAIN edits : Resolve(src, edits[k]) = 0
        THEN Refused
        ELSE FlattenSeq([i \in DOMAIN src |-> line(i)])

------------------------------------------------------------------------------
\* Edits by exact text (context.rs).

OccursAt(s, t, i) == i + Len(s) <= Len(t) + 1 /\ SubSeq(t, i, i + Len(s) - 1) = s

\* Where str::matches finds s in t: from the left, never overlapping.
Found(s, t) ==
  LET hit[i \in 1 .. Len(t)] ==
        OccursAt(s, t, i) /\ \A j \in 1 .. (i - 1) : hit[j] => j + Len(s) <= i
  IN  {i \in 1 .. Len(t) : hit[i]}

\* t with the text s at each of the places P replaced.
Replaced(P, s, new, t) ==
  FlattenSeq([i \in DOMAIN t |->
    IF i \in P THEN new
    ELSE IF \E p \in P : p < i /\ i < p + Len(s) THEN <<>> ELSE <<t[i]>>])

\* The part of a file between two landmarks, as its first line and the first
\* line after it, or Refused.
narrow(src, after, before) ==
  LET unique(s) == s = <<>> \/ Cardinality(Found(s, src)) = 1
      start == IF after = <<>> THEN 1 ELSE Smallest(Found(after, src)) + Len(after)
      end == IF before = <<>> THEN Len(src) + 1 ELSE Smallest(Found(before, src))
  IN  IF ~unique(after) \/ ~unique(before) THEN Refused
      ELSE IF end < start THEN Refused ELSE <<start, end>>

\* [mutant] Replaces in the file, not in the region.
str_replaceInFile(src, c) ==
  LET region == narrow(src, c.after, c.before)
      inside == SubSeq(src, region[1], region[2] - 1)
      found == Found(c.old, inside)
      places == IF c.replace_all THEN Found(c.old, src) ELSE {Smallest(Found(c.old, src))}
  IN  IF region = Refused THEN Refused
      ELSE IF found = {} \/ (Cardinality(found) > 1 /\ ~c.replace_all) THEN Refused
      ELSE Replaced(places, c.old, c.new, src)

str_replace(src, c) ==
  LET region == narrow(src, c.after, c.before)
      inside == SubSeq(src, region[1], region[2] - 1)
      found == Found(c.old, inside)
      places == IF c.replace_all THEN found ELSE {Smallest(found)}
  IN  IF region = Refused THEN Refused
      ELSE IF found = {} \/ (Cardinality(found) > 1 /\ ~c.replace_all) THEN Refused
      ELSE SubSeq(src, 1, region[1] - 1) \o Replaced(places, c.old, c.new, inside)
           \o SubSeq(src, region[2], Len(src))

------------------------------------------------------------------------------
\* Replies of the batch's editor (batch.rs).

Whole(text) == [kind |-> "whole", text |-> text, blocks |-> <<>>]
Blocks(blocks) == [kind |-> "blocks", text |-> <<>>, blocks |-> blocks]
Failed == [kind |-> "error", text |-> <<>>, blocks |-> <<>>]

\* What the editor may answer for a file it was shown: a block, a block that
\* does not match, the whole file, the file unchanged, nothing, an error, or the
\* beginning of a block that max_tokens has cut: that counts as a whole file.
Replies(src, mark) ==
  {Failed, Whole(<<>>), Whole(src), Whole(Append(src, mark)), Whole(<<Marker, mark>>),
   Blocks(<<[search |-> <<Marker>>, replace |-> <<mark>>]>>)}
  \cup (IF src = <<>> THEN {}
        ELSE {Blocks(<<[search |-> <<src[1]>>, replace |-> <<mark, src[1]>>]>>)})

\* A reply without a complete block counts as the whole file.
apply_response(src, reply) ==
  LET apply(text, b) ==
        IF text = Refused THEN Refused
        ELSE IF Found(b.search, text) = {} THEN Refused
        ELSE Replaced({Smallest(Found(b.search, text))}, b.search, b.replace, text)
      applied[n \in 0 .. Len(reply.blocks)] ==
        IF n = 0 THEN src ELSE apply(applied[n - 1], reply.blocks[n])
  IN  CASE reply.kind = "error" \/ (reply.kind = "whole" /\ reply.text = <<>>) -> Refused
        [] reply.kind = "whole" /\ reply.text # <<>> -> reply.text
        [] OTHER -> applied[Len(reply.blocks)]

\* The item with a custom_id.  Failed when the job has none.
Item(a, n) ==
  LET those == {k \in DOMAIN results[a] : results[a][k].custom_id = n}
  IN  IF those = {} THEN Failed ELSE results[a][Smallest(those)].reply

\* [mutant] Takes the items in the order they come in.
ItemByPlace(a) ==
  IF at[a] > Len(results[a]) THEN Failed ELSE results[a][at[a]].reply

\* The item of the task in hand, by the task's place among those that were
\* read.  The custom_id it was sent with is its place in the call.
ItemOf(a) == Item(a, at[a])

------------------------------------------------------------------------------
Init ==
  /\ disk \in Starts
  /\ pc = [a \in Actors |-> "idle"]
  /\ call = [a \in Actors |-> None]
  /\ at = [a \in Actors |-> 0]
  /\ put = [a \in Actors |-> <<>>]
  /\ got = [a \in Actors |-> <<>>]
  /\ tasks = [a \in Actors |-> <<>>]
  /\ results = [a \in Actors |-> <<>>]
  /\ polls = [a \in Actors |-> 0]
  /\ calls = 0 /\ fails = 0
  /\ said = [p \in Paths |-> {}]
  /\ raced = {} /\ torn = {}

Batch(a) == call[a].tool = "batch_edit"

\* The entry of the call that is being read, or the task that is applied.
Target(a) == IF pc[a] # "read" /\ Batch(a) THEN tasks[a][at[a]] ELSE call[a].files[at[a]]

\* What an actor has read and not yet written or given up.
Holding(a) ==
  IF call[a] = None THEN <<>>
  ELSE IF Batch(a) THEN IF pc[a] = "read" THEN tasks[a] ELSE SubSeq(tasks[a], at[a], Len(tasks[a]))
  ELSE IF pc[a] \in {"write", "fill"} THEN <<Target(a)>> ELSE <<>>

Contended ==
  {p \in Paths : \E a, b \in Actors : \E i \in DOMAIN Holding(a), j \in DOMAIN Holding(b) :
     <<a, i>> # <<b, j>> /\ Holding(a)[i].path = p /\ Holding(b)[j].path = p}

Idle(a) ==
  /\ pc' = [pc EXCEPT ![a] = "idle"]
  /\ call' = [call EXCEPT ![a] = None]
  /\ at' = [at EXCEPT ![a] = 0]
  /\ put' = [put EXCEPT ![a] = <<>>]
  /\ got' = [got EXCEPT ![a] = <<>>]
  /\ tasks' = [tasks EXCEPT ![a] = <<>>]
  /\ results' = [results EXCEPT ![a] = <<>>]
  /\ polls' = [polls EXCEPT ![a] = 0]

\* On to the next file, or the end of the call.
Advance(a) ==
  LET last == IF Batch(a) THEN Len(tasks[a]) ELSE Len(call[a].files)
  IN  \/ at[a] = last /\ Idle(a)
      \/ /\ at[a] < last
         /\ at' = [at EXCEPT ![a] = @ + 1]
         /\ pc' = [pc EXCEPT ![a] = IF Batch(a) THEN "apply" ELSE "read"]
         /\ UNCHANGED <<call, put, got, job>>

Start(a) ==
  /\ pc[a] = "idle" /\ calls < CallCap
  /\ \E c \in Calls : call' = [call EXCEPT ![a] = c]
  /\ calls' = calls + 1
  /\ at' = [at EXCEPT ![a] = 1]
  /\ pc' = [pc EXCEPT ![a] = "read"]
  /\ UNCHANGED <<disk, put, got, job, fails, said, torn>>

\* The text goes to the file, unless the tool sees that nothing changes:
\* str_replace and batch_edit look, edit_anchored and write_file write anyway.
Prepare(a, src, text) ==
  \/ /\ text = Refused \/ (text = src /\ call[a].tool \in {"str_replace", "batch_edit"})
     /\ Advance(a)
  \/ /\ text # Refused /\ (text # src \/ call[a].tool \notin {"str_replace", "batch_edit"})
     /\ put' = [put EXCEPT ![a] = text]
     /\ got' = [got EXCEPT ![a] = src]
     /\ pc' = [pc EXCEPT ![a] = "write"]
     /\ UNCHANGED <<call, at, job>>

Edited(c, file, src) ==
  CASE c.tool = "write_file" -> c.content
    [] c.tool # "write_file" /\ src = Absent -> Refused
    [] c.tool = "edit_files" /\ src # Absent -> apply_edits(src, file.edits)
    [] c.tool = "str_replace" /\ src # Absent -> str_replace(src, c)

Read(a) ==
  /\ pc[a] = "read" /\ ~Batch(a)
  /\ LET src == disk[Target(a).path] IN Prepare(a, src, Edited(call[a], Target(a), src))
  /\ UNCHANGED <<disk, calls, fails, said, torn>>

\* The file is opened and emptied, or cannot be opened.
Write(a) ==
  /\ pc[a] = "write"
  /\ \/ /\ disk' = [disk EXCEPT ![Target(a).path] = <<>>]
        /\ pc' = [pc EXCEPT ![a] = "fill"]
        /\ UNCHANGED <<call, at, put, got, job, fails>>
     \/ /\ fails < FailCap
        /\ fails' = fails + 1
        /\ Advance(a)
        /\ UNCHANGED disk
  /\ UNCHANGED <<calls, said, torn>>

\* A text is written from the file's beginning, over what another writer may
\* have put there since.
Over(text, there) == text \o SubSeq(there, Len(text) + 1, Len(there))

\* All of it is written: write_file leaves the file whole whatever was there.
Fill(a) ==
  LET p == Target(a).path
      whole == call[a].tool = "write_file"
      lost == IF whole THEN Marks ELSE Range(got[a]) \ Range(put[a])
  IN  /\ pc[a] = "fill"
      /\ disk' = [disk EXCEPT ![p] = Over(put[a], @)]
      /\ said' = [said EXCEPT ![p] = (@ \ lost) \cup ({Target(a).mark} \cap Range(put[a]))]
      /\ torn' = IF whole THEN torn \ {p} ELSE torn
      /\ Advance(a)
      /\ UNCHANGED <<calls, fails>>

\* The disk is full, or fails: the tool reports an error and goes on, with a part
\* of the text in the file.  A line that is cut counts as not written.
FillFails(a) ==
  LET p == Target(a).path
  IN  /\ pc[a] = "fill"
      /\ fails < FailCap
      /\ fails' = fails + 1
      /\ \E n \in 0 .. (Len(put[a]) - 1) :
           disk' = [disk EXCEPT ![p] = Over(SubSeq(put[a], 1, n), @)]
      /\ torn' = torn \cup {p}
      /\ Advance(a)
      /\ UNCHANGED <<calls, said>>

\* batch_edit reads every file before the job; those it cannot read are left out.
BatchRead(a) ==
  LET file == Target(a)
      read == disk[file.path]
      more == IF read = Absent THEN tasks[a]
              ELSE Append(tasks[a], [custom_id |-> at[a], path |-> file.path,
                                     mark |-> file.mark, original |-> read])
  IN  /\ pc[a] = "read" /\ Batch(a)
      /\ IF at[a] = Len(call[a].files) /\ more = <<>>
           THEN Idle(a)
           ELSE /\ tasks' = [tasks EXCEPT ![a] = more]
                /\ IF at[a] = Len(call[a].files)
                     THEN /\ at' = [at EXCEPT ![a] = 1]
                          /\ pc' = [pc EXCEPT ![a] = "polling"]
                     ELSE /\ at' = [at EXCEPT ![a] = @ + 1]
                          /\ UNCHANGED pc
                /\ UNCHANGED <<call, put, got, results, polls>>
      /\ UNCHANGED <<disk, calls, fails, said, torn>>

\* A poll of the job finds it running, or fails, and with it the call.
Poll(a) ==
  /\ pc[a] = "polling"
  /\ polls[a] < MaxPolls
  /\ \/ /\ polls' = [polls EXCEPT ![a] = @ + 1]
        /\ UNCHANGED <<pc, call, at, put, got, tasks, results>>
     \/ Idle(a)
  /\ UNCHANGED <<disk, calls, fails, said, torn>>

\* The window is over: the call fails, the job goes on.
WindowOver(a) ==
  /\ pc[a] = "polling"
  /\ polls[a] = MaxPolls
  /\ Idle(a)
  /\ UNCHANGED <<disk, calls, fails, said, torn>>

\* The items of a job: for some of its tasks, in any order.
Items(job_tasks) ==
  LET item(t) == {[custom_id |-> t.custom_id, reply |-> r] : r \in Replies(t.original, t.mark)}
      all == UNION {item(job_tasks[k]) : k \in DOMAIN job_tasks}
      ended(order) == {s \in [DOMAIN order -> all] :
                         \A k \in DOMAIN order : s[k] \in item(job_tasks[order[k]])}
  IN  UNION {ended(order) : order \in SetToAllKPermutations(DOMAIN job_tasks)}

JobEnds(a) ==
  /\ pc[a] = "polling"
  /\ polls[a] < MaxPolls
  /\ \E items \in Items(tasks[a]) : results' = [results EXCEPT ![a] = items]
  /\ pc' = [pc EXCEPT ![a] = "apply"]
  /\ UNCHANGED <<disk, call, at, put, got, tasks, polls, calls, fails, said, torn>>

\* The next reply is applied to what was read before the job.
Apply(a) ==
  /\ pc[a] = "apply"
  /\ LET task == Target(a)
     IN  Prepare(a, task.original, apply_response(task.original, ItemOf(a)))
  /\ UNCHANGED <<disk, calls, fails, said, torn>>

Step(a) ==
  \/ Read(a) \/ Write(a) \/ Fill(a) \/ FillFails(a)
  \/ BatchRead(a) \/ Poll(a) \/ WindowOver(a) \/ Apply(a)

Observe == raced' = raced \cup Contended'

Next == (\E a \in Actors : Start(a) \/ JobEnds(a) \/ Step(a)) /\ Observe

Spec == Init /\ [][Next]_vars

------------------------------------------------------------------------------
TypeOK ==
  /\ disk \in [Paths -> Texts \cup {Absent}]
  /\ pc \in [Actors -> {"idle", "read", "write", "fill", "polling", "apply"}]
  /\ \A a \in Actors : call[a] \in Calls \cup {None} /\ (pc[a] = "idle" <=> call[a] = None)
  /\ put \in [Actors -> Texts]
  /\ polls \in [Actors -> 0 .. MaxPolls]
  /\ calls \in 0 .. CallCap /\ fails \in 0 .. FailCap
  /\ said \in [Paths -> SUBSET Marks] /\ raced \subseteq Paths /\ torn \subseteq Paths

\* The line an edit means, said of the line: it has the anchor, and is alone
\* with it or the next one after the one line that has the landmark's.
Means(src, e, i) ==
  LET has(j, h) == Anchor[src[j]] = h
  IN  /\ has(i, e.anchor)
      /\ \/ \A j \in DOMAIN src \ {i} : ~has(j, e.anchor)
         \/ \E l \in 1 .. (i - 1) :
              /\ has(l, e.after) /\ \A j \in DOMAIN src \ {l} : ~has(j, e.after)
              /\ \A j \in (l + 1) .. (i - 1) : ~has(j, e.anchor)

\* The edits done by hand, one line after another from the last to the first:
\* what goes before a line, what is in its place, and what goes after it.
ByHand(src, edits) ==
  LET asked(i, op) == {k \in DOMAIN edits : edits[k].op = op /\ Means(src, edits[k], i)}
      texts(K) == FlattenSeq([k \in DOMAIN edits |-> IF k \in K THEN edits[k].text ELSE <<>>])
      inPlace(i) == IF asked(i, "replace") \cup asked(i, "delete") = {}
                      THEN <<src[i]>> ELSE texts(asked(i, "replace"))
      done[n \in 0 .. Len(src)] ==
        LET i == Len(src) + 1 - n
            text == done[n - 1]
        IN  IF n = 0 THEN src
            ELSE SubSeq(text, 1, i - 1)
                 \o texts(asked(i, "insert_before")) \o inPlace(i) \o texts(asked(i, "insert_after"))
                 \o SubSeq(text, i + 1, Len(text))
  IN  done[Len(src)]

\* A reader's way through t from its first line: where old is, the reader
\* writes new and goes on behind it, and any other line is copied.
Through(t, old, new) ==
  LET rest[i \in 1 .. (Len(t) + 1)] ==
        IF i = Len(t) + 1 THEN <<>>
        ELSE IF OccursAt(old, t, i) THEN new \o rest[i + Len(old)]
        ELSE <<t[i]>> \o rest[i + 1]
  IN  rest[1]

\* s is in t at the place i, and nowhere beside it.
OnlyAt(s, t, i) ==
  /\ OccursAt(s, t, i)
  /\ \A k \in DOMAIN t : OccursAt(s, t, k) => i <= k /\ k < i + Len(s)

\* The region i .. j-1 lies between the landmarks.
Pinned(src, c, i, j) ==
  /\ IF c.after = <<>> THEN i = 1
     ELSE \E k \in DOMAIN src : OnlyAt(c.after, src, k) /\ i = k + Len(c.after)
  /\ IF c.before = <<>> THEN j = Len(src) + 1
     ELSE j \in DOMAIN src /\ OnlyAt(c.before, src, j)
  /\ i <= j

\* The text that is looked for is replaced between the landmarks and nowhere
\* else: all of it, or the only one there is.
ReplacedByHand(src, c, text) ==
  \E i, j \in 1 .. (Len(src) + 1) :
    LET region == SubSeq(src, i, j - 1) IN
    /\ Pinned(src, c, i, j)
    /\ \E k \in DOMAIN region :
         IF c.replace_all THEN OccursAt(c.old, region, k) ELSE OnlyAt(c.old, region, k)
    /\ text = SubSeq(src, 1, i - 1) \o Through(region, c.old, c.new) \o SubSeq(src, j, Len(src))

\* The tools edit the lines that are meant and no other, and refuse when it is
\* not certain which are: what edit_anchored, edit_files and str_replace are
\* about to write is what a careful hand would have made of the text they read.
OnlyTheLinesMeant ==
  \A a \in Actors : pc[a] = "write" =>
    /\ call[a].tool = "edit_files" =>
         /\ put[a] = ByHand(got[a], Target(a).edits)
         /\ \A k \in DOMAIN Target(a).edits :
              \E i \in DOMAIN got[a] : Means(got[a], Target(a).edits[k], i)
    /\ call[a].tool = "str_replace" => ReplacedByHand(got[a], call[a], put[a])

\* "by default `old` must occur exactly once": one place between the landmarks
\* begins the text that is looked for, and no other.  A second place inside the
\* first (the lines a, a in a, a, a) is not counted.
OldOccursOnce ==
  \A a \in Actors :
    (pc[a] = "write" /\ call[a].tool = "str_replace" /\ ~call[a].replace_all) =>
      \E i, j \in 1 .. (Len(got[a]) + 1) :
        LET region == SubSeq(got[a], i, j - 1) IN
        /\ Pinned(got[a], call[a], i, j)
        /\ \E k \in DOMAIN region : \A m \in DOMAIN region : OccursAt(call[a].old, region, m) <=> m = k

\* What the reports of the calls say, put together, is what the files hold: an
\* edit that is reported is in its own file, one that is refused or cannot open
\* its file has left nothing, of several files each is all edited or untouched,
\* and a reply of a batch job never reaches another file.  Excepted are files that
\* two edits had read at one time, where the later write undoes the earlier one,
\* and files that a write broke off in: the error is reported, of a file that the
\* call has already emptied, until write_file writes it whole.
ReportsAreTrue ==
  \A p \in Paths \ (raced \cup torn) :
    (disk[p] # Absent /\ \A a \in Actors : pc[a] = "fill" => Target(a).path # p) =>
      Range(disk[p]) \cap Marks = said[p]

\* No batch goes on without a file: if one of its files may be missing, the
\* entries after it name the same file.
NoneLeftOut ==
  \A s \in Starts, c \in Calls : c.tool = "batch_edit" =>
    \A i, k \in DOMAIN c.files :
      i < k /\ s[c.files[i].path] = Absent => c.files[k].path = c.files[i].path

\* "Correlate results back to files by the index custom_id": no file is given
\* the edit of another.  An unreadable file earlier in the call shifts the
\* places, and each reply goes to the file after its own.
RepliesStayHome ==
  \A a \in Actors : (pc[a] = "write" /\ Batch(a)) =>
    Range(put[a]) \cap Marks \subseteq Range(got[a]) \cup {Target(a).mark}
=============================================================================
