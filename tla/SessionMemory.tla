--------------------------- MODULE SessionMemory ---------------------------
(***************************************************************************)
(* Session memory, lvz-memory: SessionAgent.submit over a FileStore, for   *)
(* one session (sessions have files of their own and never meet).          *)
(*                                                                         *)
(* A turn loads the transcript, runs the agent on it for as long as that   *)
(* takes, and on the stream's Done writes the whole transcript back, its   *)
(* own two messages added: a sibling temp file is created, written, synced *)
(* and renamed over the session's file.  Nothing orders the turns of one   *)
(* session: any of them may be between any two of these steps.             *)
(*                                                                         *)
(* Stop stands for whatever ends a turn from outside: an error of the      *)
(* stream, a client that drops it, the process killed.  A power loss       *)
(* stops every turn and may undo renames the directory had not committed.  *)
(***************************************************************************)
EXTENDS Naturals, Sequences, FiniteSets

CONSTANTS
  Turns,        \* turns submitted to the session, all at any time
  MaxMessages,  \* FileStore.max_messages
  DiskFaults,   \* whether file operations may fail and the power go
  Found,        \* what the program may find in the file's place when it starts
  Absent,       \* no such file
  Torn          \* a file that is there but does not parse

ASSUME TurnsAssumption == IsFiniteSet(Turns)
ASSUME LimitAssumption == MaxMessages \in Nat /\ DiskFaults \in BOOLEAN

Message == [role: {"user", "assistant"}, turn: Turns]
Transcripts == {h \in Seq(Message) : Len(h) <= MaxMessages}

ASSUME ContentAssumption ==
  /\ Absent # Torn
  /\ Absent \notin Seq(Message)
  /\ Torn \notin Seq(Message)
  /\ Found \subseteq {Absent, Torn}

Phases == {"new", "torn", "running", "done", "created", "written", "synced",
           "answered", "stopped"}

VARIABLES
  dir,       \* the directory: the session's file and what was set aside as .corrupt
  undone,    \* earlier states of dir that a power loss may bring back
  tmp,       \* temp files by name
  pc,        \* per turn: how far submit and its stream have come
  base,      \* per turn: the transcript it loaded
  \* what the properties remember of the past
  damaged,   \* the file was torn before the program started
  completed, \* turns whose stream ended in Done
  current,   \* per turn: its base is still what the file holds
  said,      \* the messages of the turns renamed into place, in that order
  clean      \* no turn replaced a transcript it had not read, nothing was undone

history == <<damaged, completed, current, said, clean>>
vars == <<dir, undone, tmp, pc, base, history>>

\* One temp name for every writer.
SharedName(t) == 0

\* The temp name of a write: the process id and a counter of the process's writes.
TempName(t) == t

TempNames == {TempName(t) : t \in Turns}

\* The most recent MaxMessages messages, as trim_to keeps them.
Trim(h) ==
  IF Len(h) > MaxMessages
  THEN SubSeq(h, Len(h) - MaxMessages + 1, Len(h))
  ELSE h

\* What a turn adds to the conversation: its question and its answer.
Exchange(t) == << [role |-> "user", turn |-> t], [role |-> "assistant", turn |-> t] >>

\* The turn alone, without the conversation it was loaded with.
UpdatedAfresh(t) == Trim(Exchange(t))

Updated(t) == Trim(base[t] \o Exchange(t))

\* What load makes of a file's content.
Readable(c) == IF c \in {Absent, Torn} THEN <<>> ELSE c

Directory(file, aside) == [file |-> file, aside |-> aside]

Init ==
  /\ dir \in {Directory(file, Absent) : file \in Found}
  /\ undone = {}
  /\ tmp = [n \in TempNames |-> Absent]
  /\ pc = [t \in Turns |-> "new"]
  /\ base = [t \in Turns |-> <<>>]
  /\ damaged = (dir.file = Torn)
  /\ completed = {}
  /\ current = [t \in Turns |-> FALSE]
  /\ said = <<>>
  /\ clean = TRUE

To(t, phase) == pc' = [pc EXCEPT ![t] = phase]

----------------------------------------------------------------------------
\* submit: the load

\* The file is missing, or it reads and parses.
Load(t) ==
  /\ pc[t] = "new"
  /\ dir.file # Torn
  /\ To(t, "running")
  /\ base' = [base EXCEPT ![t] = Readable(dir.file)]
  /\ current' = [current EXCEPT ![t] = TRUE]
  /\ UNCHANGED <<dir, undone, tmp, damaged, completed, said, clean>>

\* Any other error of the read: logged, and the turn starts empty.
LoadFails(t) ==
  /\ DiskFaults
  /\ pc[t] = "new"
  /\ dir.file # Absent
  /\ To(t, "running")
  /\ UNCHANGED <<dir, undone, tmp, base, history>>

LoadTorn(t) ==
  /\ pc[t] = "new"
  /\ dir.file = Torn
  /\ To(t, "torn")
  /\ current' = [current EXCEPT ![t] = TRUE]
  /\ UNCHANGED <<dir, undone, tmp, base, damaged, completed, said, clean>>

\* A rename of the session's file: the old directory may still come back.
Replace(new) ==
  /\ dir' = new
  /\ undone' = undone \cup {dir}

\* The rename to .corrupt moves whatever the path names by now, over whatever
\* was set aside before; if there is nothing, or the rename fails, it is logged.
SetAside(t) ==
  /\ pc[t] = "torn"
  /\ To(t, "running")
  /\ \/ /\ dir.file # Absent
        /\ Replace(Directory(Absent, dir.file))
        /\ clean' = (clean /\ Readable(dir.file) = <<>>)
        /\ current' = [u \in Turns |-> current[u] /\ Readable(dir.file) = <<>>]
     \/ /\ DiskFaults \/ dir.file = Absent
        /\ UNCHANGED <<dir, undone, clean, current>>
  /\ UNCHANGED <<tmp, base, damaged, completed, said>>

----------------------------------------------------------------------------
\* The stream: on Done the transcript is saved before the Done is passed on

Completes(t) ==
  /\ pc[t] = "running"
  /\ To(t, "done")
  /\ completed' = completed \cup {t}
  /\ UNCHANGED <<dir, undone, tmp, base, damaged, current, said, clean>>

\* An empty file under the temp name: an older one of that name is truncated.
CreateTemp(t) ==
  /\ pc[t] = "done"
  /\ To(t, "created")
  /\ tmp' = [tmp EXCEPT ![TempName(t)] = Torn]
  /\ UNCHANGED <<dir, undone, base, history>>

WriteTemp(t) ==
  /\ pc[t] = "created"
  /\ To(t, "written")
  /\ tmp' = [tmp EXCEPT ![TempName(t)] = Updated(t)]
  /\ UNCHANGED <<dir, undone, base, history>>

SyncTemp(t) ==
  /\ pc[t] = "written"
  /\ To(t, "synced")
  /\ UNCHANGED <<dir, undone, tmp, base, history>>

Swap(t) ==
  /\ pc[t] = "synced"
  /\ tmp[TempName(t)] # Absent
  /\ To(t, "answered")
  /\ Replace(Directory(tmp[TempName(t)], dir.aside))
  /\ tmp' = [tmp EXCEPT ![TempName(t)] = Absent]
  /\ base' = [base EXCEPT ![t] = <<>>]
  /\ said' = said \o Exchange(t)
  /\ clean' = (clean /\ current[t])
  /\ current' = [u \in Turns |-> FALSE]
  /\ UNCHANGED <<damaged, completed>>

\* Any file operation of the save fails: the temp file is removed, the error is
\* logged and the client gets its Done all the same.
SaveFails(t) ==
  /\ DiskFaults
  /\ pc[t] \in {"done", "created", "written", "synced"}
  /\ To(t, "answered")
  /\ tmp' = [tmp EXCEPT ![TempName(t)] = Absent]
  /\ base' = [base EXCEPT ![t] = <<>>]
  /\ UNCHANGED <<dir, undone, history>>

InFlight == {t \in Turns : pc[t] \notin {"new", "answered", "stopped"}}

\* The end of the stream taken for its Done.
StopSaving(t) ==
  /\ t \in InFlight
  /\ To(t, IF pc[t] = "running" THEN "done" ELSE "stopped")
  /\ UNCHANGED <<dir, undone, tmp, base, history>>

\* Nothing is undone: a temp file already there stays.
Stop(t) ==
  /\ t \in InFlight
  /\ To(t, "stopped")
  /\ base' = [base EXCEPT ![t] = <<>>]
  /\ UNCHANGED <<dir, undone, tmp, history>>

PowerLoss ==
  /\ DiskFaults
  /\ pc' = [t \in Turns |-> IF t \in InFlight THEN "stopped" ELSE pc[t]]
  /\ base' = [t \in Turns |-> <<>>]
  /\ dir' \in {dir} \cup undone
  /\ undone' = {}
  /\ clean' = (clean /\ dir' = dir)
  /\ UNCHANGED <<tmp, damaged, completed, current, said>>

Step(t) ==
  \/ Load(t) \/ LoadFails(t) \/ LoadTorn(t) \/ SetAside(t)
  \/ Completes(t)
  \/ CreateTemp(t) \/ WriteTemp(t) \/ SyncTemp(t) \/ Swap(t) \/ SaveFails(t)
  \/ Stop(t)

Next == PowerLoss \/ \E t \in Turns : Step(t)

Spec == Init /\ [][Next]_vars

----------------------------------------------------------------------------
\* Properties

Contents == Transcripts \cup {Absent, Torn}
Directories == [file: Contents, aside: Contents]

\* Every content is a transcript within the limit, a torn file or no file.
TypeOK ==
  /\ dir \in Directories
  /\ undone \subseteq Directories
  /\ tmp \in [TempNames -> Contents]
  /\ pc \in [Turns -> Phases]
  /\ base \in [Turns -> Transcripts]
  /\ damaged \in BOOLEAN
  /\ completed \subseteq Turns
  /\ current \in [Turns -> BOOLEAN]
  /\ said \in Seq(Message)
  /\ clean \in BOOLEAN

\* atomic_write: however turns, crashes and power losses fall between the steps
\* of a save, the session's file is never torn by the program itself, and no
\* healthy session ever finds its transcript set aside.
NoTornFile == ~damaged => dir.file # Torn /\ dir.aside = Absent

\* SessionAgent: as long as no turn replaced a transcript it had not read (two
\* turns overlapped, a read failed, or a power loss undid a save), the file holds
\* the latest messages of every saved turn, in the order they were saved, whatever
\* failed or was stopped in between.
Continuity == clean => Readable(dir.file) = Trim(said)

\* Tap: a turn that did not end in Done leaves no trace, and no two turns mix
\* their messages: each question is followed by its own answer, each turn is there
\* once; only the oldest question may have been trimmed off.
WholeTurns ==
  LET h == Readable(dir.file)
  IN /\ \A i \in DOMAIN h : h[i].turn \in completed
     /\ \A i \in DOMAIN h : h[i].role = "user" =>
          /\ i + 1 \in DOMAIN h
          /\ h[i + 1] = [role |-> "assistant", turn |-> h[i].turn]
     /\ \A i \in DOMAIN h : h[i].role = "assistant" /\ i > 1 =>
          h[i - 1] = [role |-> "user", turn |-> h[i].turn]
     /\ \A i, k \in DOMAIN h : h[i] = h[k] => i = k

\* The comment in FileStore::load: a corrupt file is not overwritten by the next
\* save, it is set aside as .corrupt so that its loss is visible and recoverable.
EvidenceKept == damaged => Torn \in {dir.file, dir.aside}

\* The crate's doc: conversations continue across turns, so a turn once saved is
\* there for the next one, until newer messages push it out.
KeepsEveryTurn == Readable(dir.file) = Trim(said)

=============================================================================
