------------------------ MODULE SessionMemoryProofs ------------------------
(***************************************************************************)
(* Theorems about SessionMemory for any set of turns and any limit.        *)
(***************************************************************************)
EXTENDS SessionMemory, SequenceTheorems, TLAPS

\* The last MaxMessages messages of a transcript are a transcript.
LEMMA TrimType ==
  ASSUME NEW h \in Seq(Message)
  PROVE  Trim(h) \in Transcripts
<1>. DEFINE m == Len(h) - MaxMessages + 1
<1>1. Len(h) \in Nat /\ MaxMessages \in Nat
  BY LimitAssumption, LenProperties
<1>2. CASE Len(h) > MaxMessages
  <2>1. m \in Int /\ Len(h) \in Int /\ m >= 1
    BY <1>1, <1>2
  <2>2. \A i \in m .. Len(h) : h[i] \in Message
    BY <2>1, <1>1, ElementOfSeq
  <2>3. SubSeq(h, m, Len(h)) \in Seq(Message)
    BY <2>1, <2>2, SubSeqProperties
  <2>4. Len(SubSeq(h, m, Len(h))) <= MaxMessages
    BY <2>1, <2>2, <1>1, SubSeqProperties
  <2>. QED
    BY <2>3, <2>4, <1>2 DEF Trim, Transcripts
<1>3. CASE ~(Len(h) > MaxMessages)
  BY <1>1, <1>3 DEF Trim, Transcripts
<1>. QED
  BY <1>2, <1>3

Kept(h) == IF Len(h) > MaxMessages THEN MaxMessages ELSE Len(h)

\* How long a trimmed transcript is, and what its i-th message is.
LEMMA TrimElements ==
  ASSUME NEW h \in Seq(Message)
  PROVE  /\ Len(Trim(h)) = Kept(h)
         /\ \A i \in 1..Kept(h) : Trim(h)[i] = h[Len(h) - Kept(h) + i]
<1>. DEFINE m == Len(h) - MaxMessages + 1
<1>1. Len(h) \in Nat /\ MaxMessages \in Nat
  BY LimitAssumption, LenProperties
<1>2. CASE Len(h) > MaxMessages
  <2>1. m \in Int /\ Len(h) \in Int /\ m >= 1
    BY <1>1, <1>2
  <2>2. \A i \in m .. Len(h) : h[i] \in Message
    BY <2>1, <1>1, ElementOfSeq
  <2>3. Len(SubSeq(h, m, Len(h))) = MaxMessages
    BY <2>1, <2>2, <1>1, <1>2, SubSeqProperties
  <2>4. \A i \in 1 .. Len(h) - m + 1 : SubSeq(h, m, Len(h))[i] = h[m + i - 1]
    BY <2>1, <2>2, SubSeqProperties
  <2>. QED
    BY <2>3, <2>4, <1>1, <1>2 DEF Trim, Kept
<1>3. CASE ~(Len(h) > MaxMessages)
  BY <1>1, <1>3 DEF Trim, Kept
<1>. QED
  BY <1>2, <1>3

\* Trimming before an exchange is added loses nothing that trimming afterwards keeps.
LEMMA TrimAppend ==
  ASSUME NEW a \in Seq(Message), NEW b \in Seq(Message)
  PROVE  Trim(Trim(a) \o b) = Trim(a \o b)
<1>. DEFINE s == Trim(a) \o b
            r == a \o b
<1>0. MaxMessages \in Nat /\ Len(a) \in Nat /\ Len(b) \in Nat
  BY LimitAssumption, LenProperties
<1>1. Trim(a) \in Seq(Message)
  BY TrimType DEF Transcripts
<1>2. /\ s \in Seq(Message) /\ Len(s) = Len(Trim(a)) + Len(b)
      /\ \A i \in 1 .. Len(Trim(a)) + Len(b) :
           s[i] = IF i <= Len(Trim(a)) THEN Trim(a)[i] ELSE b[i - Len(Trim(a))]
  BY <1>1, ConcatProperties
<1>3. /\ r \in Seq(Message) /\ Len(r) = Len(a) + Len(b)
      /\ \A i \in 1 .. Len(a) + Len(b) : r[i] = IF i <= Len(a) THEN a[i] ELSE b[i - Len(a)]
  BY ConcatProperties
<1>4. Trim(s) \in Seq(Message) /\ Trim(r) \in Seq(Message)
  BY <1>2, <1>3, TrimType DEF Transcripts
<1>. HIDE DEF s, r
<1>5. CASE Len(a) > MaxMessages
  <2>0. Kept(a) = MaxMessages
    BY <1>5 DEF Kept
  <2>1. Len(Trim(a)) = MaxMessages
    BY <2>0, TrimElements
  <2>2. \A i \in 1..MaxMessages : Trim(a)[i] = a[Len(a) - MaxMessages + i]
    BY <2>0, TrimElements
  <2>k. Kept(s) = MaxMessages /\ Kept(r) = MaxMessages
    <3>1. /\ Len(s) \in Nat /\ Len(s) >= MaxMessages
          /\ Len(r) \in Nat /\ Len(r) > MaxMessages
      BY <1>0, <1>2, <1>3, <1>5, <2>1
    <3>2. Len(s) > MaxMessages \/ Len(s) = MaxMessages
      BY <3>1, <1>0
    <3>. QED
      BY <3>1, <3>2 DEF Kept
  <2>3. Len(Trim(s)) = MaxMessages /\ Len(Trim(r)) = MaxMessages
    BY <1>2, <1>3, <2>k, TrimElements
  <2>4. \A i \in 1..MaxMessages : Trim(s)[i] = s[Len(s) - MaxMessages + i]
    BY <1>2, <2>k, TrimElements
  <2>5. \A i \in 1..MaxMessages : Trim(r)[i] = r[Len(r) - MaxMessages + i]
    BY <1>3, <2>k, TrimElements
  <2>6. ASSUME NEW i \in 1..MaxMessages
        PROVE  Trim(s)[i] = Trim(r)[i]
    <3>1. Trim(s)[i] = s[Len(b) + i]
      BY <2>4, <1>2, <2>1, <1>0
    <3>2. Trim(r)[i] = r[Len(a) + Len(b) - MaxMessages + i]
      BY <2>5, <1>3, <1>0
    <3>3. CASE Len(b) + i <= MaxMessages
      <4>1. s[Len(b) + i] = Trim(a)[Len(b) + i]
        BY <3>3, <1>2, <2>1, <1>0
      <4>2. Trim(a)[Len(b) + i] = a[Len(a) - MaxMessages + Len(b) + i]
        BY <2>2, <3>3, <1>0
      <4>3. r[Len(a) + Len(b) - MaxMessages + i] = a[Len(a) + Len(b) - MaxMessages + i]
        <5>1. Len(a) + Len(b) - MaxMessages + i \in 1 .. Len(a)
          BY <3>3, <1>5, <1>0
        <5>. QED
          BY <5>1, <1>3, <1>0
      <4>. QED
        BY <3>1, <3>2, <4>1, <4>2, <4>3, <1>0
    <3>4. CASE ~(Len(b) + i <= MaxMessages)
      <4>1. s[Len(b) + i] = b[Len(b) + i - MaxMessages]
        BY <3>4, <1>2, <2>1, <1>0
      <4>2. r[Len(a) + Len(b) - MaxMessages + i] = b[Len(b) - MaxMessages + i]
        BY <3>4, <1>3, <1>5, <1>0
      <4>. QED
        BY <3>1, <3>2, <4>1, <4>2, <1>0
    <3>. QED
      BY <3>3, <3>4
  <2>. QED
    BY <1>4, <2>3, <2>6, SeqEqual DEF s, r
<1>6. CASE ~(Len(a) > MaxMessages)
  BY <1>6 DEF Trim, s, r
<1>. QED
  BY <1>5, <1>6

----------------------------------------------------------------------------
\* Type correctness

LEMMA ExchangeType ==
  ASSUME NEW t \in Turns
  PROVE  Exchange(t) \in Seq(Message)
  BY DEF Exchange, Message

LEMMA ReadableType ==
  ASSUME NEW c \in Contents
  PROVE  Readable(c) \in Transcripts
<1>1. <<>> \in Transcripts
  BY LimitAssumption DEF Transcripts
<1>. QED
  BY <1>1 DEF Readable, Contents

LEMMA UpdatedType ==
  ASSUME TypeOK, NEW t \in Turns
  PROVE  Updated(t) \in Transcripts
<1>1. base[t] \in Seq(Message)
  BY DEF TypeOK, Transcripts
<1>2. base[t] \o Exchange(t) \in Seq(Message)
  BY <1>1, ExchangeType, ConcatProperties
<1>. QED
  BY <1>2, TrimType DEF Updated

LEMMA ReplaceType ==
  ASSUME TypeOK, NEW new \in Directories, Replace(new)
  PROVE  dir' \in Directories /\ undone' \subseteq Directories
  BY DEF TypeOK, Replace

LEMMA InitType == Init => TypeOK
<1>. SUFFICES ASSUME Init PROVE TypeOK
  OBVIOUS
<1>1. <<>> \in Transcripts /\ <<>> \in Seq(Message)
  BY LimitAssumption DEF Transcripts
<1>2. dir \in Directories
  BY ContentAssumption DEF Init, Directory, Directories, Contents
<1>. QED
  BY <1>1, <1>2 DEF Init, TypeOK, Phases, Contents

LEMMA StepType ==
  ASSUME TypeOK, NEW t \in Turns, Step(t)
  PROVE  TypeOK'
<1>. USE DEF To, history
<1>0. <<>> \in Transcripts
  BY LimitAssumption DEF Transcripts
<1>1. CASE Load(t)
  <2>1. Readable(dir.file) \in Transcripts
    BY ReadableType DEF TypeOK, Directories
  <2>. QED
    BY <1>1, <2>1 DEF Load, TypeOK, Phases
<1>2. CASE LoadFails(t)
  BY <1>2 DEF LoadFails, TypeOK, Phases
<1>3. CASE LoadTorn(t)
  BY <1>3 DEF LoadTorn, TypeOK, Phases
<1>4. CASE SetAside(t)
  <2>1. Directory(Absent, dir.file) \in Directories
    BY DEF TypeOK, Directory, Directories, Contents
  <2>2. dir' \in Directories /\ undone' \subseteq Directories
    BY <1>4, <2>1, ReplaceType DEF SetAside, TypeOK
  <2>3. current' \in [Turns -> BOOLEAN] /\ clean' \in BOOLEAN
    BY <1>4 DEF SetAside, TypeOK
  <2>. QED
    BY <1>4, <2>2, <2>3 DEF SetAside, TypeOK, Phases
<1>5. CASE Completes(t)
  BY <1>5 DEF Completes, TypeOK, Phases
<1>6. CASE CreateTemp(t)
  BY <1>6 DEF CreateTemp, TypeOK, Phases, Contents
<1>7. CASE WriteTemp(t)
  BY <1>7, UpdatedType DEF WriteTemp, TypeOK, Phases, Contents
<1>8. CASE SyncTemp(t)
  BY <1>8 DEF SyncTemp, TypeOK, Phases
<1>9. CASE Swap(t)
  <2>1. Directory(tmp[TempName(t)], dir.aside) \in Directories
    BY DEF TypeOK, Directory, Directories, TempNames
  <2>2. dir' \in Directories /\ undone' \subseteq Directories
    BY <1>9, <2>1, ReplaceType DEF Swap
  <2>3. said' \in Seq(Message)
    BY <1>9, ExchangeType, ConcatProperties DEF Swap, TypeOK
  <2>4. clean' \in BOOLEAN /\ current' \in [Turns -> BOOLEAN]
    BY <1>9 DEF Swap, TypeOK
  <2>. QED
    BY <1>0, <1>9, <2>2, <2>3, <2>4 DEF Swap, TypeOK, Phases, Contents
<1>10. CASE SaveFails(t)
  BY <1>0, <1>10 DEF SaveFails, TypeOK, Phases, Contents
<1>11. CASE Stop(t)
  BY <1>0, <1>11 DEF Stop, TypeOK, Phases
<1>. QED
  BY <1>1, <1>2, <1>3, <1>4, <1>5, <1>6, <1>7, <1>8, <1>9, <1>10, <1>11 DEF Step

LEMMA PowerLossType ==
  ASSUME TypeOK, PowerLoss
  PROVE  TypeOK'
<1>0. <<>> \in Transcripts
  BY LimitAssumption DEF Transcripts
<1>1. dir' \in Directories
  BY DEF PowerLoss, TypeOK
<1>2. clean' \in BOOLEAN
  BY DEF PowerLoss, TypeOK
<1>. QED
  BY <1>0, <1>1, <1>2 DEF PowerLoss, TypeOK, Phases

\* Every content the program reads, keeps or sets aside is a transcript within the
\* limit, a torn file or no file.
THEOREM TypeCorrect == Spec => []TypeOK
<1>1. TypeOK /\ [Next]_vars => TypeOK'
  <2>. SUFFICES ASSUME TypeOK, [Next]_vars PROVE TypeOK'
    OBVIOUS
  <2>1. CASE Next
    BY <2>1, StepType, PowerLossType DEF Next
  <2>2. CASE UNCHANGED vars
    BY <2>2 DEF TypeOK, vars, history
  <2>. QED
    BY <2>1, <2>2
<1>. QED
  BY InitType, <1>1, PTL DEF Spec

----------------------------------------------------------------------------
\* Torn files and continuity

\* A temp file that is whole holds the transcript its turn saves.
TempsWhole ==
  \A t \in Turns : pc[t] \in {"written", "synced"} => tmp[TempName(t)] = Updated(t)

\* Only a session damaged beforehand has torn contents, in any directory that may
\* come back, or a turn that found one.
NeverTorn ==
  ~damaged =>
    /\ \A d \in undone \cup {dir} : d.file # Torn /\ d.aside = Absent
    /\ \A t \in Turns : pc[t] # "torn"

\* A turn marked current has read what the file holds now.
BasesCurrent ==
  /\ \A t \in Turns : pc[t] = "new" => base[t] = <<>> /\ ~current[t]
  /\ \A t \in InFlight : current[t] => base[t] = Readable(dir.file)

MemoryInv == TempsWhole /\ NeverTorn /\ BasesCurrent /\ Continuity

LEMMA ReadTranscript ==
  ASSUME NEW h \in Transcripts
  PROVE  h # Torn /\ h # Absent /\ Readable(h) = h
  BY ContentAssumption DEF Transcripts, Readable

LEMMA InitInv == Init => MemoryInv
<1>. SUFFICES ASSUME Init PROVE MemoryInv
  OBVIOUS
<1>1. dir.file \in {Absent, Torn} /\ dir.aside = Absent
  BY ContentAssumption DEF Init, Directory
<1>2. Trim(<<>>) = <<>>
  BY LimitAssumption DEF Trim
<1>3. TempsWhole /\ BasesCurrent
  BY DEF Init, TempsWhole, BasesCurrent, InFlight
<1>4. NeverTorn
  BY <1>1 DEF Init, NeverTorn
<1>5. Continuity
  BY <1>1, <1>2 DEF Init, Continuity, Readable
<1>. QED
  BY <1>3, <1>4, <1>5 DEF MemoryInv

\* Steps that change no file: only the turn's own phase and its view of the file.
LEMMA LoadInv ==
  ASSUME TypeOK, MemoryInv, NEW t \in Turns,
         Load(t) \/ LoadFails(t) \/ LoadTorn(t)
  PROVE  MemoryInv'
<1>. USE DEF To, history, MemoryInv
<1>1. UNCHANGED <<dir, undone, tmp, damaged, said, clean>>
  BY DEF Load, LoadFails, LoadTorn
<1>2. /\ pc[t] = "new"
      /\ pc' \in {[pc EXCEPT ![t] = "running"], [pc EXCEPT ![t] = "torn"]}
      /\ \A u \in Turns \ {t} : base'[u] = base[u] /\ current'[u] = current[u]
  BY DEF Load, LoadFails, LoadTorn, TypeOK
<1>3. current'[t] => base'[t] = Readable(dir.file)
  <2>1. CASE Load(t)
    BY <2>1 DEF Load, TypeOK
  <2>2. CASE LoadFails(t)
    BY <1>2, <2>2 DEF LoadFails, BasesCurrent
  <2>3. CASE LoadTorn(t)
    BY <1>2, <2>3 DEF LoadTorn, BasesCurrent, Readable
  <2>. QED
    BY <2>1, <2>2, <2>3
<1>4. TempsWhole'
  BY <1>1, <1>2 DEF TempsWhole, TypeOK, Updated
<1>5. NeverTorn'
  <2>1. pc'[t] = "torn" => dir.file = Torn
    BY DEF Load, LoadFails, LoadTorn, TypeOK
  <2>. QED
    BY <1>1, <1>2, <2>1 DEF NeverTorn, TypeOK
<1>6. BasesCurrent'
  BY <1>1, <1>2, <1>3 DEF BasesCurrent, InFlight, TypeOK
<1>7. Continuity'
  BY <1>1 DEF Continuity
<1>. QED
  BY <1>4, <1>5, <1>6, <1>7

LEMMA SetAsideInv ==
  ASSUME TypeOK, MemoryInv, NEW t \in Turns, SetAside(t)
  PROVE  MemoryInv'
<1>. USE DEF To, MemoryInv
<1>1. /\ pc[t] = "torn" /\ pc' = [pc EXCEPT ![t] = "running"]
      /\ UNCHANGED <<tmp, base, damaged, completed, said>>
  BY DEF SetAside
<1>2. damaged
  BY <1>1 DEF NeverTorn
<1>3. TempsWhole'
  BY <1>1 DEF TempsWhole, TypeOK, Updated
<1>4. NeverTorn'
  BY <1>1, <1>2 DEF NeverTorn
<1>5. CASE UNCHANGED <<dir, undone, clean, current>>
  <2>1. BasesCurrent'
    BY <1>1, <1>5 DEF BasesCurrent, InFlight, TypeOK
  <2>2. Continuity'
    BY <1>1, <1>5 DEF Continuity
  <2>. QED
    BY <1>3, <1>4, <2>1, <2>2
<1>6. CASE /\ Replace(Directory(Absent, dir.file))
           /\ clean' = (clean /\ Readable(dir.file) = <<>>)
           /\ current' = [u \in Turns |-> current[u] /\ Readable(dir.file) = <<>>]
  <2>1. Readable(dir'.file) = <<>>
    BY <1>6 DEF Replace, Directory, Readable
  <2>2. BasesCurrent'
    BY <1>1, <1>6, <2>1 DEF BasesCurrent, InFlight, TypeOK
  <2>3. Continuity'
    BY <1>1, <1>6, <2>1 DEF Continuity
  <2>. QED
    BY <1>3, <1>4, <2>2, <2>3
<1>. QED
  BY <1>5, <1>6 DEF SetAside

\* The phases of a save before its rename, and the ends that rename nothing.
LEMMA SaveInv ==
  ASSUME TypeOK, MemoryInv, NEW t \in Turns,
         \/ Completes(t) \/ CreateTemp(t) \/ WriteTemp(t) \/ SyncTemp(t)
         \/ SaveFails(t) \/ Stop(t)
  PROVE  MemoryInv'
<1>. USE DEF To, history, MemoryInv
<1>1. /\ t \in InFlight
      /\ UNCHANGED <<dir, undone, damaged, current, said, clean>>
      /\ \A u \in Turns \ {t} : /\ pc'[u] = pc[u] /\ base'[u] = base[u]
                                /\ tmp'[TempName(u)] = tmp[TempName(u)]
  BY DEF Completes, CreateTemp, WriteTemp, SyncTemp, SaveFails, Stop, InFlight,
         TypeOK, TempName, TempNames
<1>2. /\ pc'[t] \notin {"new", "torn"}
      /\ pc'[t] \notin {"answered", "stopped"} => base'[t] = base[t]
  BY DEF Completes, CreateTemp, WriteTemp, SyncTemp, SaveFails, Stop, TypeOK
<1>3. pc'[t] \in {"written", "synced"} => tmp'[TempName(t)] = Updated(t)'
  BY DEF Completes, CreateTemp, WriteTemp, SyncTemp, SaveFails, Stop, TypeOK,
         TempsWhole, Updated, TempName, TempNames
<1>4. TempsWhole'
  BY <1>1, <1>3 DEF TempsWhole, Updated
<1>5. NeverTorn'
  BY <1>1, <1>2 DEF NeverTorn
<1>6. BasesCurrent'
  BY <1>1, <1>2 DEF BasesCurrent, InFlight
<1>7. Continuity'
  BY <1>1 DEF Continuity
<1>. QED
  BY <1>4, <1>5, <1>6, <1>7

LEMMA SwapInv ==
  ASSUME TypeOK, MemoryInv, NEW t \in Turns, Swap(t)
  PROVE  MemoryInv'
<1>. USE DEF To, MemoryInv
<1>1. /\ pc[t] = "synced" /\ t \in InFlight
      /\ pc' = [pc EXCEPT ![t] = "answered"]
      /\ base' = [base EXCEPT ![t] = <<>>]
      /\ tmp' = [tmp EXCEPT ![TempName(t)] = Absent]
      /\ current' = [u \in Turns |-> FALSE]
      /\ clean' = (clean /\ current[t])
      /\ said' = said \o Exchange(t)
      /\ damaged' = damaged
  BY DEF Swap, InFlight
<1>2. /\ dir' = [file |-> Updated(t), aside |-> dir.aside]
      /\ undone' = undone \cup {dir}
  BY <1>1 DEF Swap, Replace, Directory, TempsWhole
<1>3. Updated(t) # Torn /\ Readable(Updated(t)) = Updated(t)
  BY UpdatedType, ReadTranscript
<1>4. TempsWhole'
  <2>1. \A u \in Turns \ {t} : /\ pc'[u] = pc[u] /\ base'[u] = base[u]
                              /\ tmp'[TempName(u)] = tmp[TempName(u)]
    BY <1>1 DEF TypeOK, TempName, TempNames
  <2>. QED
    BY <1>1, <2>1 DEF TempsWhole, Updated, TypeOK
<1>5. NeverTorn'
  BY <1>1, <1>2, <1>3 DEF NeverTorn, TypeOK
<1>6. BasesCurrent'
  BY <1>1 DEF BasesCurrent, InFlight, TypeOK
<1>7. Continuity'
  <2>1. SUFFICES ASSUME clean, current[t] PROVE Updated(t) = Trim(said \o Exchange(t))
    BY <1>1, <1>2, <1>3 DEF Continuity
  <2>2. base[t] = Trim(said)
    BY <1>1, <2>1 DEF BasesCurrent, Continuity
  <2>3. said \in Seq(Message) /\ Exchange(t) \in Seq(Message)
    BY ExchangeType DEF TypeOK
  <2>. QED
    BY <2>2, <2>3, TrimAppend DEF Updated
<1>. QED
  BY <1>4, <1>5, <1>6, <1>7

LEMMA PowerLossInv ==
  ASSUME TypeOK, MemoryInv, PowerLoss
  PROVE  MemoryInv'
<1>. USE DEF MemoryInv
<1>1. /\ pc' = [t \in Turns |-> IF t \in InFlight THEN "stopped" ELSE pc[t]]
      /\ base' = [t \in Turns |-> <<>>]
      /\ dir' \in {dir} \cup undone /\ undone' = {}
      /\ clean' = (clean /\ dir' = dir)
      /\ UNCHANGED <<tmp, damaged, current, said>>
  BY DEF PowerLoss
<1>2. \A t \in Turns : pc'[t] \in {"new", "answered", "stopped"}
                      /\ (pc'[t] = "new" => pc[t] = "new")
  BY <1>1 DEF InFlight, TypeOK
<1>3. TempsWhole'
  BY <1>2 DEF TempsWhole
<1>4. NeverTorn'
  BY <1>1, <1>2 DEF NeverTorn
<1>5. BasesCurrent'
  BY <1>1, <1>2 DEF BasesCurrent, InFlight
<1>6. Continuity'
  BY <1>1 DEF Continuity
<1>. QED
  BY <1>3, <1>4, <1>5, <1>6

LEMMA InvStep ==
  ASSUME TypeOK, MemoryInv, [Next]_vars
  PROVE  MemoryInv'
<1>1. CASE PowerLoss
  BY <1>1, PowerLossInv
<1>2. ASSUME NEW t \in Turns, Step(t) PROVE MemoryInv'
  BY <1>2, LoadInv, SetAsideInv, SaveInv, SwapInv DEF Step
<1>3. CASE UNCHANGED vars
  BY <1>3 DEF MemoryInv, TempsWhole, NeverTorn, BasesCurrent, Continuity, InFlight,
              Updated, vars, history
<1>. QED
  BY <1>1, <1>2, <1>3 DEF Next

THEOREM MemoryInvariant == Spec => []MemoryInv
<1>1. TypeOK /\ MemoryInv /\ [Next]_vars => MemoryInv'
  BY InvStep
<1>. QED
  BY InitInv, <1>1, TypeCorrect, PTL DEF Spec

\* No save, crash or power loss ever leaves a torn session file.
THEOREM NeverTornAlways == Spec => []NoTornFile
<1>1. MemoryInv => NoTornFile
  BY DEF MemoryInv, NeverTorn, NoTornFile
<1>. QED
  BY <1>1, MemoryInvariant, PTL

\* Turns that never replaced what they had not read leave the whole conversation.
THEOREM ContinuityAlways == Spec => []Continuity
<1>1. MemoryInv => Continuity
  BY DEF MemoryInv
<1>. QED
  BY <1>1, MemoryInvariant, PTL

----------------------------------------------------------------------------
\* Whole turns

\* Questions and answers come in pairs, but for an answer in front, and no turn
\* is there twice.
Paired(h) ==
  /\ \A i \in 1..Len(h) : h[i].role = "user" =>
       /\ i + 1 \in 1..Len(h)
       /\ h[i + 1] = [role |-> "assistant", turn |-> h[i].turn]
  /\ \A i \in 1..Len(h) : h[i].role = "assistant" /\ i > 1 =>
       h[i - 1] = [role |-> "user", turn |-> h[i].turn]
  /\ \A i, k \in 1..Len(h) : h[i] = h[k] => i = k

Of(h, T) == \A i \in 1..Len(h) : h[i].turn \in T

\* The end of a paired transcript is paired.
LEMMA PairedTrim ==
  ASSUME NEW h \in Seq(Message), NEW T, Paired(h), Of(h, T)
  PROVE  Paired(Trim(h)) /\ Of(Trim(h), T)
<1>. DEFINE r == Trim(h)
            d == Len(h) - Kept(h)
<1>1. /\ Len(h) \in Nat /\ d \in Nat /\ Len(r) = Len(h) - d /\ Len(r) \in Nat
      /\ \A i \in 1..Len(r) : r[i] = h[d + i]
  BY LimitAssumption, LenProperties, TrimElements DEF Kept
<1>. HIDE DEF r, d
<1>2. \A i \in 1..Len(r) : d + i \in 1..Len(h)
  BY <1>1
<1>3. ASSUME NEW i \in 1..Len(r), r[i].role = "user"
      PROVE  i + 1 \in 1..Len(r) /\ r[i + 1] = [role |-> "assistant", turn |-> r[i].turn]
  <2>1. /\ d + i + 1 \in 1..Len(h)
        /\ h[d + i + 1] = [role |-> "assistant", turn |-> h[d + i].turn]
    BY <1>1, <1>2, <1>3 DEF Paired
  <2>2. i + 1 \in 1..Len(r) /\ d + (i + 1) = d + i + 1
    BY <1>1, <2>1
  <2>3. r[i + 1] = h[d + (i + 1)] /\ r[i] = h[d + i]
    BY <1>1, <2>2
  <2>. QED
    BY <2>1, <2>2, <2>3
<1>4. ASSUME NEW i \in 1..Len(r), r[i].role = "assistant", i > 1
      PROVE  r[i - 1] = [role |-> "user", turn |-> r[i].turn]
  <2>1. h[d + i - 1] = [role |-> "user", turn |-> h[d + i].turn]
    <3>. PICK x \in 1..Len(h) : x = d + i
      BY <1>2
    <3>1. x > 1 /\ h[x].role = "assistant"
      BY <1>1, <1>4
    <3>2. h[x - 1] = [role |-> "user", turn |-> h[x].turn]
      BY <3>1 DEF Paired
    <3>3. x - 1 = d + i - 1
      BY <1>1
    <3>. QED
      BY <3>2, <3>3
  <2>2. i - 1 \in 1..Len(r) /\ d + (i - 1) = d + i - 1
    BY <1>1, <1>4
  <2>3. r[i - 1] = h[d + (i - 1)] /\ r[i] = h[d + i]
    BY <1>1, <2>2
  <2>. QED
    BY <2>1, <2>2, <2>3
<1>5. ASSUME NEW i \in 1..Len(r), NEW k \in 1..Len(r), r[i] = r[k]
      PROVE  i = k
  <2>1. d + i = d + k
    <3>1. d + i \in 1..Len(h) /\ d + k \in 1..Len(h) /\ h[d + i] = h[d + k]
      BY <1>1, <1>2, <1>5
    <3>. QED
      BY <3>1 DEF Paired
  <2>. QED
    BY <1>1, <2>1
<1>6. Of(r, T)
  BY <1>1, <1>2 DEF Of
<1>. QED
  BY <1>3, <1>4, <1>5, <1>6 DEF Paired, r

\* A paired transcript is paired with a new turn's exchange behind it.
LEMMA PairedAppend ==
  ASSUME NEW h \in Seq(Message), NEW t \in Turns, NEW T, Paired(h), Of(h, T), t \notin T
  PROVE  Paired(h \o Exchange(t)) /\ Of(h \o Exchange(t), T \cup {t})
<1>. DEFINE r == h \o Exchange(t)
            n == Len(h)
            u == [role |-> "user", turn |-> t]
            a == [role |-> "assistant", turn |-> t]
<1>0. n \in Nat
  BY LenProperties
<1>1. /\ Len(r) = n + 2
      /\ \A i \in 1..n : r[i] = h[i]
      /\ r[n + 1] = u /\ r[n + 2] = a
  <2>1. /\ Exchange(t) \in Seq(Message) /\ Len(Exchange(t)) = 2
        /\ Exchange(t)[1] = u /\ Exchange(t)[2] = a
    BY ExchangeType DEF Exchange
  <2>2. /\ Len(r) = n + 2
        /\ \A i \in 1..(n + 2) : r[i] = IF i <= n THEN h[i] ELSE Exchange(t)[i - n]
    <3>1. /\ Len(r) = n + Len(Exchange(t))
          /\ \A i \in 1..(n + Len(Exchange(t))) :
               r[i] = IF i <= n THEN h[i] ELSE Exchange(t)[i - n]
      BY <2>1, ConcatProperties
    <3>. QED
      BY <2>1, <3>1
  <2>. QED
    BY <1>0, <2>1, <2>2
<1>. HIDE DEF r, n
<1>2. \A i \in 1..Len(r) : i \in 1..n \/ i = n + 1 \/ i = n + 2
  BY <1>0, <1>1
<1>3. u.role = "user" /\ a.role = "assistant" /\ u.turn = t /\ a.turn = t /\ u # a
  OBVIOUS
<1>4. \A i \in 1..n : h[i].turn # t /\ h[i] # u /\ h[i] # a
  BY <1>3 DEF Of, n
<1>5. ASSUME NEW i \in 1..Len(r), r[i].role = "user"
      PROVE  i + 1 \in 1..Len(r) /\ r[i + 1] = [role |-> "assistant", turn |-> r[i].turn]
  <2>1. CASE i \in 1..n
    <3>1. i + 1 \in 1..n /\ h[i + 1] = [role |-> "assistant", turn |-> h[i].turn]
      BY <1>1, <1>5, <2>1 DEF Paired, n
    <3>. QED
      BY <1>0, <1>1, <2>1, <3>1
  <2>2. CASE i = n + 1
    <3>1. i + 1 = n + 2
      BY <1>0, <2>2
    <3>. QED
      BY <1>0, <1>1, <1>3, <2>2, <3>1
  <2>3. CASE i = n + 2
    BY <1>1, <1>3, <1>5, <2>3
  <2>. QED
    BY <1>2, <2>1, <2>2, <2>3
<1>6. ASSUME NEW i \in 1..Len(r), r[i].role = "assistant", i > 1
      PROVE  r[i - 1] = [role |-> "user", turn |-> r[i].turn]
  <2>1. CASE i \in 1..n
    <3>1. h[i - 1] = [role |-> "user", turn |-> h[i].turn] /\ i - 1 \in 1..n
      BY <1>0, <1>1, <1>6, <2>1 DEF Paired, n
    <3>. QED
      BY <1>1, <2>1, <3>1
  <2>2. CASE i = n + 1
    BY <1>1, <1>3, <1>6, <2>2
  <2>3. CASE i = n + 2
    <3>1. i - 1 = n + 1
      BY <1>0, <2>3
    <3>. QED
      BY <1>1, <1>3, <2>3, <3>1
  <2>. QED
    BY <1>2, <2>1, <2>2, <2>3
<1>7. ASSUME NEW i \in 1..Len(r), NEW k \in 1..Len(r), r[i] = r[k]
      PROVE  i = k
  <2>1. CASE i \in 1..n /\ k \in 1..n
    BY <1>1, <1>7, <2>1 DEF Paired, n
  <2>2. CASE i \notin 1..n
    BY <1>1, <1>2, <1>3, <1>4, <1>7, <2>2
  <2>3. CASE k \notin 1..n
    BY <1>1, <1>2, <1>3, <1>4, <1>7, <2>3
  <2>. QED
    BY <2>1, <2>2, <2>3
<1>8. ASSUME NEW i \in 1..Len(r) PROVE r[i].turn \in T \cup {t}
  <2>1. CASE i \in 1..n
    BY <1>1, <2>1 DEF Of, n
  <2>. QED
    BY <1>1, <1>2, <1>3, <2>1
<1>. QED
  BY <1>5, <1>6, <1>7, <1>8 DEF Paired, Of, r

LEMMA PairedEmpty == \A T : Paired(<<>>) /\ Of(<<>>, T)
  BY DEF Paired, Of

Saved == {t \in Turns : pc[t] = "answered"}

\* A turn that is to be saved or has been came to its Done.
DoneFirst ==
  \A t \in Turns :
    pc[t] \in {"done", "created", "written", "synced", "answered"} => t \in completed

\* Every transcript that is, may come back or was loaded holds whole turns, all of
\* them through with their save.
TranscriptsWhole ==
  /\ \A d \in undone \cup {dir} : Paired(Readable(d.file)) /\ Of(Readable(d.file), Saved)
  /\ \A t \in Turns : Paired(base[t]) /\ Of(base[t], Saved)

WholeInv == DoneFirst /\ TranscriptsWhole

LEMMA InitWhole == Init => WholeInv
<1>. SUFFICES ASSUME Init PROVE WholeInv
  OBVIOUS
<1>1. undone = {} /\ Readable(dir.file) = <<>> /\ \A t \in Turns : base[t] = <<>>
  BY ContentAssumption DEF Init, Directory, Readable
<1>. QED
  BY <1>1, PairedEmpty DEF Init, WholeInv, DoneFirst, TranscriptsWhole

LEMMA OfMore ==
  ASSUME NEW h, NEW S, NEW T, S \subseteq T, Of(h, S)
  PROVE  Of(h, T)
  BY DEF Of

\* Every step but a rename into place: no transcript is there that was not.
LEMMA QuietStep ==
  ASSUME TypeOK, WholeInv, DoneFirst', Saved \subseteq Saved',
         \A d \in undone' \cup {dir'} : d \in undone \cup {dir} \/ Readable(d.file) = <<>>,
         \A t \in Turns : base'[t] \in {base[t], <<>>, Readable(dir.file)}
  PROVE  WholeInv'
<1>1. ASSUME NEW d \in undone' \cup {dir'}
      PROVE  Paired(Readable(d.file)) /\ Of(Readable(d.file), Saved')
  <2>1. CASE d \in undone \cup {dir}
    BY <2>1, OfMore DEF WholeInv, TranscriptsWhole
  <2>2. CASE Readable(d.file) = <<>>
    BY <2>2, PairedEmpty
  <2>. QED
    BY <1>1, <2>1, <2>2
<1>2. ASSUME NEW t \in Turns
      PROVE  Paired(base'[t]) /\ Of(base'[t], Saved')
  <2>1. CASE base'[t] = <<>>
    BY <2>1, PairedEmpty
  <2>2. CASE base'[t] = base[t]
    BY <2>2, OfMore DEF WholeInv, TranscriptsWhole
  <2>3. CASE base'[t] = Readable(dir.file)
    BY <2>3, OfMore DEF WholeInv, TranscriptsWhole
  <2>. QED
    BY <2>1, <2>2, <2>3
<1>. QED
  BY <1>1, <1>2 DEF WholeInv, TranscriptsWhole, Readable, Paired, Of

LEMMA SwapWhole ==
  ASSUME TypeOK, MemoryInv, WholeInv, NEW t \in Turns, Swap(t)
  PROVE  WholeInv'
<1>. DEFINE file == Updated(t)
<1>1. /\ pc[t] = "synced" /\ pc' = [pc EXCEPT ![t] = "answered"]
      /\ base' = [base EXCEPT ![t] = <<>>]
      /\ dir' = [file |-> file, aside |-> dir.aside]
      /\ undone' = undone \cup {dir} /\ completed' = completed
  BY DEF Swap, To, Replace, Directory, MemoryInv, TempsWhole
<1>2. Saved' = Saved \cup {t} /\ t \notin Saved
  BY <1>1 DEF Saved, TypeOK
<1>3. Paired(file) /\ Of(file, Saved')
  <2>1. base[t] \in Seq(Message) /\ Paired(base[t]) /\ Of(base[t], Saved)
    BY DEF TypeOK, Transcripts, WholeInv, TranscriptsWhole
  <2>2. /\ Paired(base[t] \o Exchange(t))
        /\ Of(base[t] \o Exchange(t), Saved \cup {t})
    BY <1>2, <2>1, PairedAppend
  <2>3. base[t] \o Exchange(t) \in Seq(Message)
    BY <2>1, ExchangeType, ConcatProperties
  <2>. QED
    BY <1>2, <2>2, <2>3, PairedTrim DEF Updated
<1>4. Readable(file) = file
  BY UpdatedType, ReadTranscript
<1>. HIDE DEF file
<1>5. ASSUME NEW d \in undone' \cup {dir'}
      PROVE  Paired(Readable(d.file)) /\ Of(Readable(d.file), Saved')
  <2>1. CASE d = dir'
    BY <1>1, <1>3, <1>4, <2>1
  <2>2. CASE d \in undone \cup {dir}
    BY <1>2, <2>2, OfMore DEF WholeInv, TranscriptsWhole
  <2>. QED
    BY <1>1, <1>5, <2>1, <2>2
<1>6. ASSUME NEW u \in Turns PROVE Paired(base'[u]) /\ Of(base'[u], Saved')
  <2>1. CASE u = t
    BY <1>1, <2>1, PairedEmpty DEF TypeOK
  <2>2. CASE u # t
    BY <1>1, <1>2, <2>2, OfMore DEF WholeInv, TranscriptsWhole, TypeOK
  <2>. QED
    BY <2>1, <2>2
<1>7. DoneFirst'
  BY <1>1 DEF DoneFirst, WholeInv, TypeOK
<1>. QED
  BY <1>5, <1>6, <1>7 DEF WholeInv, TranscriptsWhole, Readable, Paired, Of

LEMMA NextWhole ==
  ASSUME TypeOK, MemoryInv, WholeInv, [Next]_vars
  PROVE  WholeInv'
<1>. USE DEF To, history
<1>1. ASSUME NEW t \in Turns,
             Load(t) \/ LoadFails(t) \/ LoadTorn(t) \/ SetAside(t) \/ Completes(t)
             \/ CreateTemp(t) \/ WriteTemp(t) \/ SyncTemp(t) \/ SaveFails(t) \/ Stop(t)
      PROVE  WholeInv'
  <2>1. Saved \subseteq Saved'
    BY <1>1 DEF Load, LoadFails, LoadTorn, SetAside, Completes, CreateTemp, WriteTemp,
       SyncTemp, SaveFails, Stop, InFlight, Saved, TypeOK
  <2>2. DoneFirst'
    BY <1>1 DEF Load, LoadFails, LoadTorn, SetAside, Completes, CreateTemp, WriteTemp,
       SyncTemp, SaveFails, Stop, InFlight, DoneFirst, WholeInv, TypeOK
  <2>3. \A d \in undone' \cup {dir'} : d \in undone \cup {dir} \/ Readable(d.file) = <<>>
    <3>1. CASE UNCHANGED <<dir, undone>>
      BY <3>1
    <3>2. CASE Replace(Directory(Absent, dir.file))
      BY <3>2 DEF Replace, Directory, Readable
    <3>. QED
      BY <1>1, <3>1, <3>2 DEF Load, LoadFails, LoadTorn, SetAside, Completes,
         CreateTemp, WriteTemp, SyncTemp, SaveFails, Stop
  <2>4. \A u \in Turns : base'[u] \in {base[u], <<>>, Readable(dir.file)}
    BY <1>1 DEF Load, LoadFails, LoadTorn, SetAside, Completes, CreateTemp, WriteTemp,
       SyncTemp, SaveFails, Stop, TypeOK
  <2>. QED
    BY <2>1, <2>2, <2>3, <2>4, QuietStep
<1>2. CASE PowerLoss
  <2>1. /\ Saved \subseteq Saved' /\ DoneFirst'
        /\ \A u \in Turns : base'[u] = <<>>
        /\ undone' \cup {dir'} \subseteq undone \cup {dir}
    BY <1>2 DEF PowerLoss, InFlight, Saved, DoneFirst, WholeInv, TypeOK
  <2>. QED
    BY <2>1, QuietStep
<1>3. CASE UNCHANGED vars
  BY <1>3, QuietStep DEF vars, Saved, DoneFirst, WholeInv
<1>4. ASSUME NEW t \in Turns, Swap(t) PROVE WholeInv'
  BY <1>4, SwapWhole
<1>. QED
  BY <1>1, <1>2, <1>3, <1>4 DEF Next, Step

\* Whatever stops, overlaps or fails, the session's file holds whole turns, each
\* once and each of a stream that came to its Done.
THEOREM WholeTurnsAlways == Spec => []WholeTurns
<1>1. TypeOK /\ MemoryInv /\ WholeInv /\ [Next]_vars => WholeInv'
  BY NextWhole
<1>2. TypeOK /\ WholeInv => WholeTurns
  <2>. SUFFICES ASSUME TypeOK, WholeInv PROVE WholeTurns
    OBVIOUS
  <2>. DEFINE h == Readable(dir.file)
  <2>1. h \in Seq(Message)
    BY ReadableType DEF TypeOK, Directories, Transcripts
  <2>2. DOMAIN h = 1..Len(h)
    BY <2>1, LenProperties
  <2>3. Paired(h) /\ Of(h, Saved)
    BY DEF WholeInv, TranscriptsWhole
  <2>4. Saved \subseteq completed
    BY DEF WholeInv, DoneFirst, Saved
  <2>. HIDE DEF h
  <2>5. \A i \in DOMAIN h : h[i].turn \in completed
    BY <2>2, <2>3, <2>4 DEF Of
  <2>. QED
    BY <2>2, <2>3, <2>5 DEF WholeTurns, Paired, h
<1>. QED
  BY InitWhole, <1>1, <1>2, MemoryInvariant, TypeCorrect, PTL DEF Spec

=============================================================================
