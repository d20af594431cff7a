---------------------------- MODULE ToolsProofs ----------------------------
(***************************************************************************)
(* Theorems about the tools: those that change files (FileEdits), for any  *)
(* actors, files, calls and texts, and those of an MCP server              *)
(* (McpRequests), for any callers, pages, calls and servers.               *)
(*                                                                         *)
(* The first half is about what an edit makes of a text: anchors           *)
(* (apply_edits), exact text (str_replace) and the replies of a batch      *)
(* (apply_response).  The second is about what becomes of the files.       *)
(***************************************************************************)
EXTENDS FileEdits, McpRequests, SequenceTheorems, FiniteSetTheorems, WellFoundedInduction, TLAPS

----------------------------------------------------------------------------
\* Numbers, and functions defined by recursion

\* Every set of naturals has a smallest element.
LEMMA LeastNumber ==
    ASSUME NEW S, S \subseteq Nat, S # {}
    PROVE  Smallest(S) \in S /\ \A j \in S : Smallest(S) <= j
<1>. DEFINE below == OpToRel(<, Nat)
<1>1. IsWellFoundedOn(below, Nat)
  BY NatLessThanWellFounded
<1>2. \A j, k \in Nat : <<j, k>> \in below <=> j < k
  BY Zenon DEF OpToRel
<1>. HIDE DEF below
<1>3. PICK n \in S : \A k \in S : ~(<<k, n>> \in below)
  BY <1>1, WFMin
<1>4. \A k \in S : n <= k
  <2>1. \A k \in S : ~(k < n)
    BY <1>2, <1>3, Zenon
  <2>. QED
    BY <2>1
<1>. QED
  BY <1>3, <1>4 DEF Smallest

\* Induction over the naturals, for a set.
LEMMA SetInduction ==
    ASSUME NEW S, 0 \in S, \A n \in Nat : n \in S => n + 1 \in S
    PROVE  Nat \subseteq S
<1>. DEFINE T == {n \in Nat : n \notin S}
<1>1. SUFFICES ASSUME T # {} PROVE FALSE
  OBVIOUS
<1>2. Smallest(T) \in T /\ \A j \in T : Smallest(T) <= j
  BY <1>1, LeastNumber
<1>3. Smallest(T) - 1 \in Nat /\ Smallest(T) - 1 \notin T
  BY <1>2
<1>. QED
  BY <1>2, <1>3

\* The same up to n.
LEMMA UptoInduction ==
    ASSUME NEW n \in Nat, NEW S, 0 \in S, \A i \in 1 .. n : i - 1 \in S => i \in S
    PROVE  \A i \in 0 .. n : i \in S
<1>. DEFINE T == {m \in Nat : m <= n => m \in S}
<1>1. 0 \in T
  OBVIOUS
<1>2. ASSUME NEW m \in T PROVE m + 1 \in T
  <2>1. SUFFICES ASSUME m + 1 <= n PROVE m + 1 \in S
    OBVIOUS
  <2>2. PICK i \in 1 .. n : i = m + 1
    BY <2>1
  <2>3. i - 1 = m /\ m \in S
    BY <2>1, <2>2
  <2>. QED
    BY <2>2, <2>3
<1>3. Nat \subseteq T
  <2>. HIDE DEF T
  <2>. QED
    BY <1>1, <1>2, SetInduction
<1>. QED
  BY <1>3

\* n values, each what the step makes of those before it.
Makes(rule, T, n, g) ==
  /\ g \in [1 .. n -> T]
  /\ \A i \in 1 .. n : g[i] = rule[SubSeq(g, 1, i - 1)]

\* Whatever the step is, there are such values.
LEMMA CourseOfValues ==
    ASSUME NEW T, NEW rule \in [Seq(T) -> T], NEW n \in Nat
    PROVE  \E g : Makes(rule, T, n, g)
<1>. DEFINE upto(g, m) == g \in [1 .. m -> T] /\ \A i \in 1 .. m : g[i] = rule[SubSeq(g, 1, i - 1)]
            S == {m \in Nat : \E g : upto(g, m)}
<1>1. 0 \in S
  <2>. DEFINE g == [k \in 1 .. 0 |-> CHOOSE x \in T : TRUE]
  <2>1. upto(g, 0)
    OBVIOUS
  <2>. QED
    BY <2>1
<1>2. ASSUME NEW m \in S PROVE m + 1 \in S
  <2>0. m \in Nat
    OBVIOUS
  <2>1. PICK g : upto(g, m)
    OBVIOUS
  <2>2. g \in Seq(T) /\ Len(g) = m
    BY <2>0, <2>1
  <2>. DEFINE h == Append(g, rule[g])
  <2>3. h \in [1 .. m + 1 -> T] /\ h[m + 1] = rule[g] /\ \A i \in 1 .. m : h[i] = g[i]
    <3>1. rule[g] \in T
      BY <2>2
    <3>. HIDE DEF upto
    <3>2. h \in Seq(T) /\ Len(h) = m + 1
      BY <2>2, <3>1, AppendProperties
    <3>3. \A i \in 1 .. m : h[i] = g[i]
      BY <2>0, <2>2, <3>1, AppendProperties
    <3>4. h[m + 1] = rule[g]
      BY <2>0, <2>2, <3>1, AppendProperties
    <3>. HIDE DEF h
    <3>. QED
      BY <2>0, <3>2, <3>3, <3>4
  <2>4. \A i \in 1 .. m + 1 : SubSeq(h, 1, i - 1) = SubSeq(g, 1, i - 1)
    <3>. HIDE DEF h
    <3>1. SUFFICES ASSUME NEW i \in 1 .. m + 1 PROVE SubSeq(h, 1, i - 1) = SubSeq(g, 1, i - 1)
      OBVIOUS
    <3>2. \A k \in 1 .. i - 1 : h[k] = g[k] /\ g[k] \in T
      BY <2>0, <2>1, <2>3
    <3>3. i - 1 \in Nat /\ 1 \in Int
      BY <2>0
    <3>4. /\ SubSeq(h, 1, i - 1) \in Seq(T) /\ Len(SubSeq(h, 1, i - 1)) = i - 1
          /\ \A k \in 1 .. i - 1 : SubSeq(h, 1, i - 1)[k] = h[k]
      BY <3>2, <3>3, SubSeqProperties
    <3>5. /\ SubSeq(g, 1, i - 1) \in Seq(T) /\ Len(SubSeq(g, 1, i - 1)) = i - 1
          /\ \A k \in 1 .. i - 1 : SubSeq(g, 1, i - 1)[k] = g[k]
      BY <3>2, <3>3, SubSeqProperties
    <3>. QED
      BY <3>2, <3>4, <3>5, SeqEqual
  <2>5. SubSeq(g, 1, m) = g
    BY <2>2, SubSeqFull
  <2>. HIDE DEF h
  <2>6. \A i \in 1 .. m + 1 : h[i] = rule[SubSeq(h, 1, i - 1)]
    <3>1. SUFFICES ASSUME NEW i \in 1 .. m + 1 PROVE h[i] = rule[SubSeq(h, 1, i - 1)]
      OBVIOUS
    <3>2. CASE i = m + 1
      <4>1. i - 1 = m
        BY <2>0, <3>2
      <4>. QED
        BY <2>3, <2>4, <2>5, <3>2, <4>1
    <3>3. CASE i # m + 1
      <4>1. i \in 1 .. m
        BY <2>0, <3>3
      <4>. QED
        BY <2>1, <2>3, <2>4, <4>1
    <3>. QED
      BY <3>2, <3>3
  <2>7. upto(h, m + 1)
    BY <2>3, <2>6
  <2>. QED
    <3>. HIDE DEF upto
    <3>. QED
      BY <2>0, <2>7
<1>3. n \in S
  <2>. HIDE DEF S
  <2>1. Nat \subseteq S
    BY <1>1, <1>2, SetInduction
  <2>. QED
    BY <2>1
<1>. QED
  BY <1>3 DEF Makes

----------------------------------------------------------------------------
\* Sequences of sequences

\* The function by which FlattenSeq is defined.
Flattens(g, ss) ==
  g = [i \in 1 .. Len(ss) |-> IF i = 1 THEN ss[i] ELSE g[i - 1] \o ss[i]]

LEMMA FlattenExists ==
    ASSUME NEW T, NEW ss \in Seq(Seq(T))
    PROVE  \E g \in [1 .. Len(ss) -> Seq(T)] : Flattens(g, ss)
<1>. DEFINE n == Len(ss)
            rule == [p \in Seq(Seq(T)) |->
                       IF Len(p) >= n THEN <<>>
                       ELSE IF Len(p) = 0 THEN ss[1] ELSE p[Len(p)] \o ss[Len(p) + 1]]
<1>0. n \in Nat /\ \A k \in 1 .. n : ss[k] \in Seq(T)
  OBVIOUS
<1>1. rule \in [Seq(Seq(T)) -> Seq(T)]
  <2>1. ASSUME NEW p \in Seq(Seq(T)), ~(Len(p) >= n) PROVE ss[Len(p) + 1] \in Seq(T)
    BY <1>0, <2>1
  <2>2. ASSUME NEW p \in Seq(Seq(T)), Len(p) # 0 PROVE p[Len(p)] \in Seq(T)
    BY <2>2
  <2>3. ASSUME NEW p \in Seq(Seq(T)), ~(Len(p) >= n), Len(p) # 0
        PROVE  p[Len(p)] \o ss[Len(p) + 1] \in Seq(T)
    BY <2>1, <2>2, <2>3, ConcatProperties
  <2>4. ASSUME NEW p \in Seq(Seq(T)), ~(Len(p) >= n), Len(p) = 0 PROVE ss[1] \in Seq(T)
    BY <2>1, <2>4
  <2>. QED
    BY <2>3, <2>4
<1>2. PICK g \in [1 .. n -> Seq(T)] : \A i \in 1 .. n : g[i] = rule[SubSeq(g, 1, i - 1)]
  <2>. DEFINE U == Seq(T)
  <2>1. rule \in [Seq(U) -> U]
    BY <1>1
  <2>3. n \in Nat
    BY <1>0
  <2>. HIDE DEF rule, n, U
  <2>2. \E g : Makes(rule, U, n, g)
    BY <2>1, <2>3, CourseOfValues, Zenon
  <2>. QED
    BY <2>2 DEF Makes, U
<1>3. ASSUME NEW i \in 1 .. n PROVE g[i] = IF i = 1 THEN ss[i] ELSE g[i - 1] \o ss[i]
  <2>. DEFINE p == SubSeq(g, 1, i - 1)
  <2>0. i \in Nat /\ i - 1 \in Int /\ 1 \in Int
    BY <1>0
  <2>1. \A k \in 1 .. i - 1 : g[k] \in Seq(T)
    <3>. HIDE DEF rule
    <3>1. \A k \in 1 .. i - 1 : k \in 1 .. n
      BY <1>0
    <3>. QED
      BY <1>2, <3>1
  <2>2. p \in Seq(Seq(T)) /\ Len(p) = i - 1 /\ \A k \in 1 .. i - 1 : p[k] = g[k]
    <3>. DEFINE U == Seq(T)
    <3>. HIDE DEF U
    <3>1. \A k \in 1 .. i - 1 : g[k] \in U
      BY <2>1 DEF U
    <3>2. p \in Seq(U) /\ Len(p) = i - 1 /\ \A k \in 1 .. i - 1 : p[k] = g[k]
      BY <2>0, <3>1, SubSeqProperties
    <3>. QED
      BY <3>2 DEF U
  <2>. HIDE DEF p
  <2>3. rule[p] = IF i = 1 THEN ss[1] ELSE p[i - 1] \o ss[i - 1 + 1]
    BY <1>0, <2>2
  <2>4. g[i] = rule[p]
    BY <1>2 DEF p
  <2>. HIDE DEF rule
  <2>5. CASE i = 1
    BY <2>3, <2>4, <2>5
  <2>6. CASE i # 1
    <3>1. p[i - 1] = g[i - 1] /\ i - 1 + 1 = i
      BY <1>0, <2>2, <2>6
    <3>. QED
      BY <2>3, <2>4, <2>6, <3>1
  <2>. QED
    BY <2>5, <2>6
<1>. HIDE DEF rule
<1>4. g = [i \in 1 .. n |-> IF i = 1 THEN ss[i] ELSE g[i - 1] \o ss[i]]
  BY <1>2, <1>3
<1>. QED
  BY <1>4 DEF Flattens

\* FlattenSeq is built from the left, one sequence after the other.
LEMMA FlattenPrefixes ==
    ASSUME NEW T, NEW ss \in Seq(Seq(T))
    PROVE  \E f : /\ f \in [0 .. Len(ss) -> Seq(T)]
                  /\ f[0] = <<>>
                  /\ \A k \in 1 .. Len(ss) : f[k] = f[k - 1] \o ss[k]
                  /\ f[Len(ss)] = FlattenSeq(ss)
<1>. DEFINE n == Len(ss)
            flat == CHOOSE g : Flattens(g, ss)
<1>0. n \in Nat /\ \A k \in 1 .. n : ss[k] \in Seq(T)
  OBVIOUS
<1>1. PICK g \in [1 .. n -> Seq(T)] : Flattens(g, ss)
  BY FlattenExists
<1>2. Flattens(flat, ss)
  BY <1>1
<1>3. FlattenSeq(ss) = IF n = 0 THEN ss ELSE flat[n]
  BY DEF FlattenSeq, Flattens
<1>. HIDE DEF flat
<1>4. \A k \in 1 .. n : flat[k] = IF k = 1 THEN ss[k] ELSE flat[k - 1] \o ss[k]
  BY <1>2 DEF Flattens
<1>5. \A k \in 1 .. n : g[k] = IF k = 1 THEN ss[k] ELSE g[k - 1] \o ss[k]
  BY <1>1 DEF Flattens
<1>. HIDE DEF n
<1>6. \A k \in 1 .. n : flat[k] = g[k]
  <2>. DEFINE S == {m \in 0 .. n : m = 0 \/ flat[m] = g[m]}
  <2>1. 0 \in S
    BY <1>0
  <2>2. ASSUME NEW i \in 1 .. n, i - 1 \in S PROVE i \in S
    <3>1. /\ flat[i] = IF i = 1 THEN ss[i] ELSE flat[i - 1] \o ss[i]
          /\ g[i] = IF i = 1 THEN ss[i] ELSE g[i - 1] \o ss[i]
      BY <1>4, <1>5, Zenon
    <3>2. i = 1 \/ flat[i - 1] = g[i - 1]
      BY <1>0, <2>2
    <3>3. flat[i] = g[i]
      BY <3>1, <3>2, Zenon
    <3>. QED
      BY <1>0, <3>3
  <2>3. \A m \in 0 .. n : m \in S
    <3>. HIDE DEF S
    <3>. QED
      BY <1>0, <2>1, <2>2, UptoInduction
  <2>. QED
    BY <1>0, <2>3
<1>. DEFINE f == [k \in 0 .. n |-> IF k = 0 THEN <<>> ELSE g[k]]
<1>7. f \in [0 .. n -> Seq(T)]
  BY <1>0, <1>1 DEF n
<1>8. f[0] = <<>> /\ \A k \in 1 .. n : f[k] = g[k]
  BY <1>0
<1>. HIDE DEF f
<1>9. ASSUME NEW k \in 1 .. n PROVE f[k] = f[k - 1] \o ss[k]
  <2>1. CASE k = 1
    <3>1. ss[1] \in Seq(T) /\ <<>> \o ss[1] = ss[1]
      BY <1>0, <2>1, ConcatEmptySeq
    <3>2. k - 1 = 0 /\ ss[k] = ss[1]
      BY <2>1
    <3>3. f[k] = ss[k]
      BY <1>5, <1>8, <2>1, Zenon
    <3>. QED
      BY <1>8, <3>1, <3>2, <3>3, Zenon
  <2>2. CASE k # 1
    <3>1. k - 1 \in 1 .. n
      BY <1>0, <2>2
    <3>. QED
      BY <1>5, <1>8, <2>2, <3>1
  <2>. QED
    BY <2>1, <2>2
<1>10. f[n] = FlattenSeq(ss)
  <2>1. CASE n = 0
    <3>1. ss = <<>>
      BY <2>1 DEF n
    <3>. QED
      BY <1>3, <1>8, <2>1, <3>1
  <2>2. CASE n # 0
    <3>1. n \in 1 .. n
      BY <1>0, <2>2
    <3>. QED
      BY <1>3, <1>6, <1>8, <2>2, <3>1
  <2>. QED
    BY <2>1, <2>2
<1>. QED
  BY <1>7, <1>8, <1>9, <1>10 DEF n

\* Putting sequences together makes a sequence of what they hold.
LEMMA FlattenType ==
    ASSUME NEW T, NEW ss \in Seq(Seq(T))
    PROVE  FlattenSeq(ss) \in Seq(T)
<1>1. PICK f : f \in [0 .. Len(ss) -> Seq(T)] /\ f[Len(ss)] = FlattenSeq(ss)
  BY FlattenPrefixes
<1>2. Len(ss) \in 0 .. Len(ss)
  OBVIOUS
<1>. QED
  BY <1>1, <1>2

----------------------------------------------------------------------------
\* Where a text is found

\* The function by which Found is defined.
Hits(h, s, t) ==
  h = [i \in 1 .. Len(t) |->
         OccursAt(s, t, i) /\ \A j \in 1 .. (i - 1) : h[j] => j + Len(s) <= i]

LEMMA HitsExists ==
    ASSUME NEW T, NEW s \in Seq(T), NEW t \in Seq(T)
    PROVE  \E h : Hits(h, s, t)
<1>. DEFINE n == Len(t)
            free(p, i) == \A j \in 1 .. (i - 1) : p[j] => j + Len(s) <= i
            hit(p, i) == OccursAt(s, t, i) /\ free(p, i)
            rule == [p \in Seq(BOOLEAN) |-> hit(p, Len(p) + 1)]
<1>0. n \in Nat
  OBVIOUS
<1>1. rule \in [Seq(BOOLEAN) -> BOOLEAN]
  BY DEF OccursAt
<1>2. \A p \in Seq(BOOLEAN) : rule[p] = hit(p, Len(p) + 1)
  OBVIOUS
<1>. HIDE DEF rule, n, hit
<1>3. PICK g : Makes(rule, BOOLEAN, n, g)
  BY <1>0, <1>1, CourseOfValues
<1>4. ASSUME NEW i \in 1 .. n PROVE g[i] = hit(g, i)
  <2>. DEFINE p == SubSeq(g, 1, i - 1)
  <2>1. i \in Nat /\ i - 1 \in Int /\ 1 \in Int /\ \A k \in 1 .. i - 1 : k \in 1 .. n
    BY <1>0
  <2>2. \A k \in 1 .. i - 1 : g[k] \in BOOLEAN
    BY <1>3, <2>1 DEF Makes
  <2>3. p \in Seq(BOOLEAN) /\ Len(p) = i - 1 /\ \A k \in 1 .. i - 1 : p[k] = g[k]
    BY <2>1, <2>2, SubSeqProperties
  <2>4. g[i] = rule[p]
    BY <1>3 DEF Makes
  <2>. HIDE DEF p
  <2>5. rule[p] = hit(p, i)
    <3>1. Len(p) + 1 = i
      BY <2>1, <2>3
    <3>. QED
      BY <1>2, <2>3, <3>1
  <2>6. free(p, i) <=> free(g, i)
    BY <2>3, Zenon
  <2>7. hit(p, i) = hit(g, i)
    <3>. HIDE DEF free
    <3>1. (OccursAt(s, t, i) /\ free(p, i)) <=> (OccursAt(s, t, i) /\ free(g, i))
      BY <2>6
    <3>. QED
      BY <3>1 DEF hit
  <2>. QED
    BY <2>4, <2>5, <2>7, Zenon
<1>5. g = [i \in 1 .. n |-> hit(g, i)]
  BY <1>3, <1>4 DEF Makes
<1>. QED
  BY <1>5 DEF Hits, hit, n

\* A place counts where the text occurs and no earlier place overlaps it.
LEMMA FoundFacts ==
    ASSUME NEW T, NEW s \in Seq(T), NEW t \in Seq(T)
    PROVE  /\ Found(s, t) \subseteq 1 .. Len(t)
           /\ \A i \in 1 .. Len(t) :
                i \in Found(s, t) <=> /\ OccursAt(s, t, i)
                                      /\ \A j \in Found(s, t) : j < i => j + Len(s) <= i
<1>. DEFINE n == Len(t)
            h == CHOOSE g : Hits(g, s, t)
<1>0. n \in Nat
  OBVIOUS
<1>1. Hits(h, s, t)
  BY HitsExists
<1>2. Found(s, t) = {i \in 1 .. n : h[i]}
  BY DEF Found, Hits
<1>. HIDE DEF h
<1>3. \A i \in 1 .. n : h[i] = (OccursAt(s, t, i) /\ \A j \in 1 .. (i - 1) : h[j] => j + Len(s) <= i)
  BY <1>1 DEF Hits
<1>4. ASSUME NEW i \in 1 .. n
      PROVE  (\A j \in 1 .. (i - 1) : h[j] => j + Len(s) <= i)
               <=> \A j \in Found(s, t) : j < i => j + Len(s) <= i
  <2>1. \A j : j \in 1 .. (i - 1) <=> j \in 1 .. n /\ j < i
    BY <1>0
  <2>. QED
    BY <1>2, <2>1, Zenon
<1>5. \A i \in 1 .. n : i \in Found(s, t) <=> h[i]
  BY <1>2
<1>6. \A i \in 1 .. n : h[i] <=> (OccursAt(s, t, i) /\ \A j \in 1 .. (i - 1) : h[j] => j + Len(s) <= i)
  BY <1>3
<1>. QED
  BY <1>2, <1>4, <1>5, <1>6, Zenon

\* A text that is found is found at its first occurrence.
LEMMA FirstFound ==
    ASSUME NEW T, NEW s \in Seq(T), NEW t \in Seq(T), Found(s, t) # {}
    PROVE  LET first == Smallest(Found(s, t)) IN
             /\ first \in Found(s, t)
             /\ \A i \in 1 .. Len(t) : OccursAt(s, t, i) => first <= i
<1>. DEFINE first == Smallest(Found(s, t))
            O == {i \in 1 .. Len(t) : OccursAt(s, t, i)}
<1>0. Len(t) \in Nat
  OBVIOUS
<1>1. first \in Found(s, t) /\ \A j \in Found(s, t) : first <= j
  <2>1. Found(s, t) \subseteq Nat
    BY <1>0, FoundFacts
  <2>. QED
    BY <2>1, LeastNumber
<1>2. first \in O
  BY <1>1, FoundFacts
<1>. HIDE DEF first
<1>3. O \subseteq Nat /\ O # {}
  BY <1>0, <1>2
<1>4. Smallest(O) \in O /\ \A j \in O : Smallest(O) <= j
  <2>. HIDE DEF O
  <2>. QED
    BY <1>3, LeastNumber
<1>5. Smallest(O) \in Found(s, t)
  <2>1. \A j \in Found(s, t) : ~(j < Smallest(O))
    <3>1. SUFFICES ASSUME NEW j \in Found(s, t) PROVE ~(j < Smallest(O))
      OBVIOUS
    <3>2. j \in O
      BY FoundFacts
    <3>. HIDE DEF O
    <3>3. j \in Nat /\ Smallest(O) \in Nat /\ Smallest(O) <= j
      BY <1>3, <1>4, <3>2
    <3>. QED
      BY <3>3
  <2>. QED
    BY <1>4, <2>1, FoundFacts
<1>6. first <= Smallest(O)
  BY <1>1, <1>5
<1>7. \A i \in O : first <= i
  <2>. HIDE DEF O
  <2>1. SUFFICES ASSUME NEW i \in O PROVE first <= i
    OBVIOUS
  <2>2. i \in Nat /\ first \in Nat /\ Smallest(O) \in Nat /\ Smallest(O) <= i
    BY <1>2, <1>3, <1>4
  <2>. QED
    BY <1>6, <2>2
<1>. QED
  BY <1>1, <1>7 DEF first

----------------------------------------------------------------------------
\* Edits by exact text

LEMMA ReplacedType ==
    ASSUME NEW T, NEW t \in Seq(T), NEW new \in Seq(T), NEW P, NEW s
    PROVE  Replaced(P, s, new, t) \in Seq(T)
<1>. DEFINE part(i) == IF i \in P THEN new
                       ELSE IF \E p \in P : p < i /\ i < p + Len(s) THEN <<>> ELSE <<t[i]>>
            parts == [i \in DOMAIN t |-> part(i)]
<1>1. \A i \in DOMAIN t : part(i) \in Seq(T)
  OBVIOUS
<1>. HIDE DEF part
<1>2. parts \in Seq(Seq(T))
  <2>1. DOMAIN t = 1 .. Len(t) /\ Len(t) \in Nat
    OBVIOUS
  <2>2. parts \in [1 .. Len(t) -> Seq(T)]
    BY <1>1, <2>1
  <2>. QED
    BY <2>1, <2>2
<1>3. FlattenSeq(parts) \in Seq(T)
  <2>. HIDE DEF parts
  <2>. QED
    BY <1>2, FlattenType
<1>. QED
  BY <1>3 DEF Replaced, part

\* A landmark that is found once is nowhere else in the file.
LEMMA LandmarkFacts ==
    ASSUME NEW T, NEW s \in Seq(T), NEW t \in Seq(T), s # <<>>,
           Cardinality(Found(s, t)) = 1
    PROVE  /\ Smallest(Found(s, t)) \in 1 .. Len(t)
           /\ OnlyAt(s, t, Smallest(Found(s, t)))
           /\ Found(s, t) = {Smallest(Found(s, t))}
<1>. DEFINE k == Smallest(Found(s, t))
<1>0. Len(t) \in Nat /\ Len(s) \in Nat \ {0} /\ DOMAIN t = 1 .. Len(t)
  OBVIOUS
<1>1. Found(s, t) \subseteq 1 .. Len(t)
  BY FoundFacts
<1>2. PICK x : Found(s, t) = {x}
  <2>1. IsFiniteSet(1 .. Len(t))
    BY <1>0, FS_Interval
  <2>2. IsFiniteSet(Found(s, t))
    BY <1>1, <2>1, FS_Subset
  <2>. QED
    BY <2>2, FS_Singleton
<1>3. k \in Found(s, t) /\ \A i \in 1 .. Len(t) : OccursAt(s, t, i) => k <= i
  BY <1>2, FirstFound
<1>4. Found(s, t) = {k}
  BY <1>2, <1>3
<1>5. k \in 1 .. Len(t) /\ OccursAt(s, t, k)
  BY <1>1, <1>3, FoundFacts
<1>. HIDE DEF k
<1>6. ASSUME NEW i \in 1 .. Len(t), OccursAt(s, t, i) PROVE i < k + Len(s)
  <2>1. CASE i = k
    BY <1>0, <1>5, <2>1
  <2>2. CASE i # k
    <3>1. i \notin Found(s, t)
      BY <1>4, <2>2
    <3>2. PICK j \in Found(s, t) : j < i /\ ~(j + Len(s) <= i)
      BY <1>6, <3>1, FoundFacts
    <3>. QED
      BY <1>0, <1>1, <1>4, <3>2
  <2>. QED
    BY <2>1, <2>2
<1>. QED
  BY <1>0, <1>3, <1>4, <1>5, <1>6 DEF OnlyAt, k

\* The region between the landmarks: narrow refuses, or the landmarks pin it.
LEMMA NarrowPins ==
    ASSUME NEW T, NEW src \in Seq(T), NEW c, c.after \in Seq(T), c.before \in Seq(T),
           narrow(src, c.after, c.before) # Refused
    PROVE  \E i, j \in 1 .. (Len(src) + 1) :
             narrow(src, c.after, c.before) = <<i, j>> /\ Pinned(src, c, i, j)
<1>. DEFINE found(s) == Found(s, src)
            i == IF c.after = <<>> THEN 1 ELSE Smallest(found(c.after)) + Len(c.after)
            j == IF c.before = <<>> THEN Len(src) + 1 ELSE Smallest(found(c.before))
<1>0. Len(src) \in Nat /\ DOMAIN src = 1 .. Len(src)
  OBVIOUS
<1>1. /\ c.after = <<>> \/ Cardinality(found(c.after)) = 1
      /\ c.before = <<>> \/ Cardinality(found(c.before)) = 1
      /\ ~(j < i)
      /\ narrow(src, c.after, c.before) = <<i, j>>
  BY Zenon DEF narrow
<1>2. c.after # <<>> => /\ Smallest(found(c.after)) \in 1 .. Len(src)
                        /\ OnlyAt(c.after, src, Smallest(found(c.after)))
  BY <1>1, LandmarkFacts
<1>3. c.before # <<>> => /\ Smallest(found(c.before)) \in 1 .. Len(src)
                         /\ OnlyAt(c.before, src, Smallest(found(c.before)))
  BY <1>1, LandmarkFacts
<1>. HIDE DEF found
<1>4. i \in 1 .. (Len(src) + 1)
  <2>1. CASE c.after = <<>>
    BY <1>0, <2>1
  <2>2. CASE c.after # <<>>
    <3>1. Smallest(found(c.after)) + Len(c.after) <= Len(src) + 1 /\ Len(c.after) \in Nat
      BY <1>2, <2>2 DEF OnlyAt, OccursAt
    <3>. QED
      BY <1>0, <1>2, <2>2, <3>1
  <2>. QED
    BY <2>1, <2>2
<1>5. j \in 1 .. (Len(src) + 1)
  BY <1>0, <1>3
<1>6. Pinned(src, c, i, j)
  <2>1. IF c.after = <<>> THEN i = 1
        ELSE \E k \in DOMAIN src : OnlyAt(c.after, src, k) /\ i = k + Len(c.after)
    BY <1>0, <1>2
  <2>2. IF c.before = <<>> THEN j = Len(src) + 1
        ELSE j \in DOMAIN src /\ OnlyAt(c.before, src, j)
    BY <1>0, <1>3
  <2>3. i <= j
    <3>. HIDE DEF i, j
    <3>. QED
      BY <1>0, <1>1, <1>4, <1>5
  <2>. HIDE DEF i, j
  <2>. QED
    BY <2>1, <2>2, <2>3 DEF Pinned
<1>. QED
  BY <1>1, <1>4, <1>5, <1>6

\* What str_replace makes of a file holds the lines of the file and of the new text.
LEMMA StrReplaceType ==
    ASSUME NEW T, NEW src \in Seq(T), NEW c, c.after \in Seq(T), c.before \in Seq(T),
           str_replace(src, c) # Refused,
           NEW R, src \in Seq(R), c.new \in Seq(R)
    PROVE  str_replace(src, c) \in Seq(R)
<1>1. narrow(src, c.after, c.before) # Refused
  BY Zenon DEF str_replace
<1>2. PICK i, j \in 1 .. (Len(src) + 1) : narrow(src, c.after, c.before) = <<i, j>> /\ i <= j
  BY <1>1, NarrowPins DEF Pinned
<1>. DEFINE inside == SubSeq(src, i, j - 1)
            found == Found(c.old, inside)
            places == IF c.replace_all THEN found ELSE {Smallest(found)}
            text == SubSeq(src, 1, i - 1) \o Replaced(places, c.old, c.new, inside)
                      \o SubSeq(src, j, Len(src))
<1>3. str_replace(src, c) = text
  <2>1. <<i, j>>[1] = i /\ <<i, j>>[2] = j
    OBVIOUS
  <2>. QED
    BY <1>1, <1>2, <2>1, Zenon DEF str_replace
<1>4. /\ SubSeq(src, 1, i - 1) \in Seq(R)
      /\ inside \in Seq(R)
      /\ SubSeq(src, j, Len(src)) \in Seq(R)
  OBVIOUS
<1>. HIDE DEF places, inside
<1>5. Replaced(places, c.old, c.new, inside) \in Seq(R)
  BY <1>4, ReplacedType
<1>6. text \in Seq(R)
  BY <1>4, <1>5, ConcatProperties
<1>. QED
  BY <1>3, <1>6, Zenon

----------------------------------------------------------------------------
\* The reader's way through a text

\* The function by which Through is defined.
Reads(r, t, old, new) ==
  r = [i \in 1 .. (Len(t) + 1) |->
         IF i = Len(t) + 1 THEN <<>>
         ELSE IF OccursAt(old, t, i) THEN new \o r[i + Len(old)]
         ELSE <<t[i]>> \o r[i + 1]]

LEMMA ReadsExists ==
    ASSUME NEW T, NEW t \in Seq(T), NEW old \in Seq(T), NEW new \in Seq(T), old # <<>>
    PROVE  \E r \in [1 .. (Len(t) + 1) -> Seq(T)] : Reads(r, t, old, new)
<1>. DEFINE n == Len(t)
            l == Len(old)
            U == Seq(T)
            \* Of the values so far the last one is that of the next line.
            value(p, i) == IF i \notin 1 .. n THEN <<>>
                           ELSE IF OccursAt(old, t, i) THEN new \o p[n + 2 - (i + l)]
                           ELSE <<t[i]>> \o p[n + 1 - i]
            rule == [p \in Seq(U) |-> value(p, n + 1 - Len(p))]
<1>0. n \in Nat /\ l \in Nat \ {0} /\ new \in U /\ \A i \in 1 .. n : <<t[i]>> \in U
  OBVIOUS
<1>1. \A i : OccursAt(old, t, i) => i + l <= n + 1
  BY DEF OccursAt
<1>2. \A u, v \in U : u \o v \in U
  BY ConcatProperties
<1>3. <<>> \in U
  OBVIOUS
<1>. HIDE DEF n, l, U
<1>4. ASSUME NEW p \in Seq(U) PROVE value(p, n + 1 - Len(p)) \in U
  <2>. DEFINE i == n + 1 - Len(p)
  <2>0. Len(p) \in Nat /\ \A k \in 1 .. Len(p) : p[k] \in U
    OBVIOUS
  <2>1. CASE i \notin 1 .. n
    BY <1>3, <2>1
  <2>2. CASE i \in 1 .. n /\ OccursAt(old, t, i)
    <3>1. n + 2 - (i + l) \in 1 .. Len(p)
      BY <1>0, <1>1, <2>0, <2>2
    <3>2. p[n + 2 - (i + l)] \in U
      BY <2>0, <3>1
    <3>. QED
      BY <1>0, <1>2, <2>2, <3>2
  <2>3. CASE i \in 1 .. n /\ ~OccursAt(old, t, i)
    <3>1. n + 1 - i \in 1 .. Len(p)
      BY <1>0, <2>0, <2>3
    <3>2. p[n + 1 - i] \in U
      BY <2>0, <3>1
    <3>. QED
      BY <1>0, <1>2, <2>3, <3>2
  <2>. QED
    BY <2>1, <2>2, <2>3
<1>5. rule \in [Seq(U) -> U] /\ \A p \in Seq(U) : rule[p] = value(p, n + 1 - Len(p))
  <2>. HIDE DEF value
  <2>. QED
    BY <1>4
<1>. HIDE DEF rule
<1>6. PICK g : Makes(rule, U, n + 1, g)
  <2>. HIDE DEF value
  <2>1. n + 1 \in Nat
    BY <1>0
  <2>. QED
    BY <1>5, <2>1, CourseOfValues, Zenon
<1>7. ASSUME NEW m \in 1 .. n + 1 PROVE g[m] = value(g, n + 2 - m)
  <2>. DEFINE p == SubSeq(g, 1, m - 1)
  <2>1. m \in Nat /\ m - 1 \in Int /\ 1 \in Int /\ \A k \in 1 .. m - 1 : k \in 1 .. n + 1
    BY <1>0
  <2>2. \A k \in 1 .. m - 1 : g[k] \in U
    BY <1>6, <2>1 DEF Makes
  <2>3. p \in Seq(U) /\ Len(p) = m - 1 /\ \A k \in 1 .. m - 1 : p[k] = g[k]
    BY <2>1, <2>2, SubSeqProperties
  <2>4. g[m] = rule[p]
    BY <1>6 DEF Makes
  <2>. HIDE DEF p
  <2>5. PICK i \in Int : i = n + 2 - m /\ i = n + 1 - Len(p)
    BY <1>0, <2>1, <2>3
  <2>6. g[m] = value(p, i)
    BY <1>5, <2>3, <2>4, <2>5
  <2>7. i \in 1 .. n => n + 1 - i \in 1 .. m - 1 /\ (OccursAt(old, t, i) => n + 2 - (i + l) \in 1 .. m - 1)
    BY <1>0, <1>1, <2>1, <2>5
  <2>8. /\ i \in 1 .. n => p[n + 1 - i] = g[n + 1 - i]
        /\ i \in 1 .. n /\ OccursAt(old, t, i) => p[n + 2 - (i + l)] = g[n + 2 - (i + l)]
    BY <2>3, <2>7
  <2>9. value(p, i) = value(g, i)
    BY <2>8, Zenon
  <2>. QED
    BY <2>5, <2>6, <2>9
<1>. DEFINE r == [i \in 1 .. (n + 1) |-> g[n + 2 - i]]
<1>8. r \in [1 .. (n + 1) -> U]
  BY <1>0, <1>6 DEF Makes
<1>9. \A i \in 1 .. (n + 1) : r[i] = g[n + 2 - i]
  OBVIOUS
<1>. HIDE DEF r
<1>10. ASSUME NEW i \in 1 .. (n + 1)
       PROVE  r[i] = IF i = n + 1 THEN <<>>
                     ELSE IF OccursAt(old, t, i) THEN new \o r[i + l] ELSE <<t[i]>> \o r[i + 1]
  <2>1. PICK m \in 1 .. n + 1 : m = n + 2 - i
    BY <1>0
  <2>2. n + 2 - m = i /\ i \in Int
    BY <1>0, <2>1
  <2>3. r[i] = value(g, i)
    BY <1>7, <1>9, <2>1, <2>2
  <2>4. i # n + 1 => i \in 1 .. n /\ r[i + 1] = g[n + 1 - i]
    <3>1. i # n + 1 => i + 1 \in 1 .. n + 1 /\ n + 2 - (i + 1) = n + 1 - i /\ i \in 1 .. n
      BY <1>0, <2>2
    <3>. QED
      BY <1>9, <3>1
  <2>5. i # n + 1 /\ OccursAt(old, t, i) => r[i + l] = g[n + 2 - (i + l)]
    <3>1. OccursAt(old, t, i) => i + l \in 1 .. n + 1
      BY <1>0, <1>1, <2>2
    <3>. QED
      BY <1>9, <3>1
  <2>6. CASE i = n + 1
    <3>1. i \notin 1 .. n
      BY <1>0, <2>6
    <3>. QED
      BY <2>3, <2>6, <3>1
  <2>7. CASE i # n + 1 /\ OccursAt(old, t, i)
    BY <2>3, <2>4, <2>5, <2>7, Zenon
  <2>8. CASE i # n + 1 /\ ~OccursAt(old, t, i)
    BY <2>3, <2>4, <2>8, Zenon
  <2>. QED
    BY <2>6, <2>7, <2>8
<1>11. r = [i \in 1 .. (n + 1) |->
              IF i = n + 1 THEN <<>>
              ELSE IF OccursAt(old, t, i) THEN new \o r[i + l] ELSE <<t[i]>> \o r[i + 1]]
  BY <1>8, <1>10
<1>. QED
  BY <1>8, <1>11 DEF Reads, n, l, U

\* From each line on, what the reader makes of the rest.
Reading(r, T, t, old, new) ==
  /\ r \in [1 .. (Len(t) + 1) -> Seq(T)]
  /\ r[Len(t) + 1] = <<>>
  /\ \A i \in 1 .. Len(t) :
       r[i] = IF OccursAt(old, t, i) THEN new \o r[i + Len(old)] ELSE <<t[i]>> \o r[i + 1]
  /\ r[1] = Through(t, old, new)

LEMMA ThroughFacts ==
    ASSUME NEW T, NEW t \in Seq(T), NEW old \in Seq(T), NEW new \in Seq(T), old # <<>>
    PROVE  \E r : Reading(r, T, t, old, new)
<1>. DEFINE n == Len(t)
            l == Len(old)
            c == CHOOSE r : Reads(r, t, old, new)
            next(r, i) == IF i = n + 1 THEN <<>>
                          ELSE IF OccursAt(old, t, i) THEN new \o r[i + l] ELSE <<t[i]>> \o r[i + 1]
<1>0. n \in Nat /\ l \in Nat \ {0}
  OBVIOUS
<1>1. PICK r \in [1 .. (n + 1) -> Seq(T)] : Reads(r, t, old, new)
  BY ReadsExists
<1>2. Reads(c, t, old, new)
  BY <1>1
<1>3. Through(t, old, new) = c[1]
  BY DEF Through, Reads
<1>. HIDE DEF c
<1>4. \A i \in 1 .. (n + 1) : c[i] = next(c, i) /\ r[i] = next(r, i)
  BY <1>1, <1>2 DEF Reads
<1>5. \A i : OccursAt(old, t, i) => i + l <= n + 1
  BY DEF OccursAt
<1>. HIDE DEF n, l
\* From the last line to the first, the two agree.
<1>6. \A i \in 1 .. (n + 1) : c[i] = r[i]
  <2>. DEFINE S == {m \in 0 .. n : \A i \in 1 .. (n + 1) : n + 1 - m <= i => c[i] = r[i]}
  <2>1. 0 \in S
    <3>1. SUFFICES ASSUME NEW i \in 1 .. (n + 1), n + 1 - 0 <= i PROVE c[i] = r[i]
      BY <1>0
    <3>2. i = n + 1
      BY <1>0, <3>1
    <3>. QED
      BY <1>4, <3>2
  <2>2. ASSUME NEW m \in 1 .. n, m - 1 \in S PROVE m \in S
    <3>1. SUFFICES ASSUME NEW i \in 1 .. (n + 1), n + 1 - m <= i PROVE c[i] = r[i]
      BY <1>0
    <3>2. \A k \in 1 .. (n + 1) : i < k => c[k] = r[k]
      BY <1>0, <2>2, <3>1
    <3>3. i # n + 1 => c[i + 1] = r[i + 1] /\ (OccursAt(old, t, i) => c[i + l] = r[i + l])
      <4>1. i # n + 1 => i + 1 \in 1 .. n + 1 /\ i < i + 1
        BY <1>0
      <4>2. OccursAt(old, t, i) => i + l \in 1 .. n + 1 /\ i < i + l
        BY <1>0, <1>5
      <4>. QED
        BY <3>2, <4>1, <4>2
    <3>4. next(c, i) = next(r, i)
      BY <3>3, Zenon
    <3>. QED
      BY <1>4, <3>4, Zenon
  <2>3. \A m \in 0 .. n : m \in S
    <3>. HIDE DEF S
    <3>. QED
      BY <1>0, <2>1, <2>2, UptoInduction
  <2>4. n \in S
    <3>1. n \in 0 .. n
      BY <1>0
    <3>. QED
      BY <2>3, <3>1, Zenon
  <2>. QED
    BY <1>0, <2>4
<1>7. r[1] = Through(t, old, new)
  BY <1>0, <1>3, <1>6
<1>8. r[n + 1] = <<>>
  <2>1. n + 1 \in 1 .. n + 1
    BY <1>0
  <2>. QED
    BY <1>4, <2>1, Zenon
<1>9. \A i \in 1 .. n : r[i] = IF OccursAt(old, t, i) THEN new \o r[i + l] ELSE <<t[i]>> \o r[i + 1]
  <2>1. \A i \in 1 .. n : i \in 1 .. (n + 1) /\ i # n + 1
    BY <1>0
  <2>. QED
    BY <1>4, <2>1, Zenon
<1>. QED
  BY <1>1, <1>7, <1>8, <1>9 DEF Reading, n, l

\* Three texts put together, grouped in either way.
Grouped(x, y, z, xy, yz) == xy = x \o y /\ yz = y \o z
Same(x, y) == x = y

LEMMA Regroup ==
    ASSUME NEW T, NEW x \in Seq(T), NEW y \in Seq(T), NEW z \in Seq(T),
           NEW xy, NEW yz, Grouped(x, y, z, xy, yz)
    PROVE  Same(xy \o z, x \o yz)
<1>1. (x \o y) \o z = x \o (y \o z)
  BY ConcatAssociative
<1>. QED
  BY <1>1 DEF Grouped, Same

\* Replacing the text at the places where it is found is what the reader does.
LEMMA ReplacedIsThrough ==
    ASSUME NEW T, NEW t \in Seq(T), NEW s \in Seq(T), NEW new \in Seq(T), s # <<>>
    PROVE  Replaced(Found(s, t), s, new, t) = Through(t, s, new)
<1>. DEFINE n == Len(t)
            l == Len(s)
            F == Found(s, t)
            in(p, i) == p < i /\ i < p + l
            part(i) == IF i \in F THEN new ELSE IF \E p \in F : in(p, i) THEN <<>> ELSE <<t[i]>>
            parts == [i \in DOMAIN t |-> part(i)]
<1>0. n \in Nat /\ l \in Nat \ {0} /\ DOMAIN t = 1 .. n
  OBVIOUS
<1>1. parts \in Seq(Seq(T)) /\ Len(parts) = n /\ \A i \in 1 .. n : parts[i] = part(i)
  <2>1. \A i \in DOMAIN t : part(i) \in Seq(T)
    OBVIOUS
  <2>. HIDE DEF part
  <2>2. parts \in [1 .. n -> Seq(T)]
    BY <1>0, <2>1
  <2>3. parts \in Seq(Seq(T)) /\ Len(parts) = n
    BY <1>0, <2>2
  <2>. QED
    BY <1>0, <2>3
<1>2. PICK f : /\ f \in [0 .. n -> Seq(T)]
               /\ f[0] = <<>>
               /\ \A k \in 1 .. n : f[k] = f[k - 1] \o parts[k]
               /\ f[n] = FlattenSeq(parts)
  <2>. HIDE DEF n, parts
  <2>. QED
    BY <1>1, FlattenPrefixes
<1>3. Replaced(F, s, new, t) = FlattenSeq(parts)
  BY DEF Replaced
<1>. HIDE DEF parts
<1>4. PICK r : /\ r \in [1 .. (n + 1) -> Seq(T)]
               /\ r[n + 1] = <<>>
               /\ \A i \in 1 .. n : r[i] = IF OccursAt(s, t, i) THEN new \o r[i + l] ELSE <<t[i]>> \o r[i + 1]
               /\ r[1] = Through(t, s, new)
  <2>1. \E r : Reading(r, T, t, s, new)
    BY ThroughFacts
  <2>. QED
    BY <2>1 DEF Reading
<1>5. /\ F \subseteq 1 .. n
      /\ \A i \in 1 .. n : i \in F <=> OccursAt(s, t, i) /\ \A j \in F : j < i => j + l <= i
  BY FoundFacts
<1>6. \A i : OccursAt(s, t, i) => i + l <= n + 1
  BY DEF OccursAt
<1>. DEFINE w == r[1]
            good(K) == /\ (\A p \in F : ~in(p, K)) => f[K - 1] \o r[K] = w
                       /\ \A p \in F : in(p, K) => f[K - 1] \o r[p + l] = w
            S == {m \in 0 .. n : good(m + 1)}
<1>. HIDE DEF n, l, F
<1>8. 0 \in S
  <2>1. \A p \in F : ~in(p, 1)
    BY <1>0, <1>5
  <2>2. r[1] \in Seq(T)
    BY <1>0, <1>4
  <2>3. f[1 - 1] \o r[1] = w
    <3>1. f[1 - 1] = <<>>
      BY <1>2
    <3>. QED
      BY <2>2, <3>1, ConcatEmptySeq
  <2>4. good(1)
    BY <2>1, <2>3, Zenon
  <2>5. 0 + 1 = 1
    OBVIOUS
  <2>. HIDE DEF good
  <2>. QED
    BY <1>0, <2>4, <2>5
<1>9. ASSUME NEW k \in 1 .. n, k - 1 \in S PROVE k \in S
  <2>1. PICK K \in 1 .. (n + 1) : K = k + 1
    BY <1>0
  <2>2. /\ K - 1 = k /\ k - 1 + 1 = k /\ k \in Nat /\ K \in Nat
        /\ k \in 1 .. (n + 1) /\ k - 1 \in 0 .. n /\ k \in 0 .. n
    BY <1>0, <2>1
  <2>3. good(k)
    BY <1>9, <2>2
  <2>4. f[k] = f[k - 1] \o part(k)
    <3>. HIDE DEF part
    <3>. QED
      BY <1>1, <1>2, Zenon
  <2>5. f[k] \in Seq(T) /\ f[k - 1] \in Seq(T) /\ r[K] \in Seq(T) /\ r[k] \in Seq(T)
    BY <1>2, <1>4, <2>2
  <2>6. /\ OccursAt(s, t, k) => r[k] = new \o r[k + l] /\ r[k + l] \in Seq(T)
        /\ ~OccursAt(s, t, k) => r[k] = <<t[k]>> \o r[K]
    <3>1. OccursAt(s, t, k) => k + l \in 1 .. n + 1
      BY <1>0, <1>6, <2>2
    <3>. QED
      BY <1>4, <2>1, <3>1
  <2>7. <<t[k]>> \in Seq(T)
    BY <1>0
  \* The text is here: it is read in one go.
  <2>8. CASE k \in F
    <3>1. OccursAt(s, t, k) /\ \A j \in F : j < k => j + l <= k
      BY <1>5, <2>8
    <3>2. \A p \in F : ~in(p, k)
      BY <1>0, <1>5, <2>2, <3>1
    <3>3. f[k - 1] \o r[k] = w
      BY <2>3, <3>2, Zenon
    <3>4. part(k) = new
      BY <2>8
    <3>. HIDE DEF part, w
    <3>5. f[k] \o r[k + l] = w
      <4>1. f[k] = f[k - 1] \o new
        BY <2>4, <3>4
      <4>2. r[k] = new \o r[k + l] /\ r[k + l] \in Seq(T)
        BY <2>6, <3>1
      <4>3. PICK x \in Seq(T), z \in Seq(T), xy \in Seq(T), yz \in Seq(T) :
              x = f[k - 1] /\ z = r[k + l] /\ xy = f[k] /\ yz = r[k]
        BY <2>5, <4>2, Zenon
      <4>4. xy \o z = x \o yz
        <5>1. xy = x \o new /\ yz = new \o z
          BY <4>1, <4>2, <4>3, Zenon
        <5>2. Grouped(x, new, z, xy, yz)
          BY <5>1 DEF Grouped
        <5>3. Same(xy \o z, x \o yz)
          BY <4>3, <5>2, Regroup, Zenon
        <5>. QED
          BY <5>3 DEF Same
      <4>5. f[k] \o r[k + l] = f[k - 1] \o r[k]
        BY <4>3, <4>4, Zenon
      <4>. QED
        BY <3>3, <4>5, Zenon
    <3>6. (\A p \in F : ~in(p, K)) => K = k + l
      BY <1>0, <2>1, <2>2, <2>8
    <3>7. \A p \in F : in(p, K) => p = k
      BY <1>0, <1>5, <2>1, <2>2, <3>1
    <3>8. good(K)
      BY <2>2, <3>5, <3>6, <3>7, Zenon
    <3>. HIDE DEF good
    <3>. QED
      BY <2>1, <2>2, <3>8
  \* It began before and goes on.
  <2>9. CASE k \notin F /\ \E p \in F : in(p, k)
    <3>1. part(k) = <<>>
      BY <2>9
    <3>. HIDE DEF part
    <3>2. f[k] = f[k - 1]
      BY <2>4, <2>5, <3>1, ConcatEmptySeq
    <3>3. PICK p \in F : in(p, k)
      BY <2>9
    <3>4. \A q \in F : in(q, k) => f[k - 1] \o r[q + l] = w
      BY <2>3, Zenon
    <3>. HIDE DEF w
    <3>5. (\A q \in F : ~in(q, K)) => K = p + l
      BY <1>0, <1>5, <2>1, <2>2, <3>3
    <3>6. \A q \in F : in(q, K) => in(q, k)
      BY <1>0, <1>5, <2>1, <2>2, <2>9
    <3>7. f[K - 1] = f[k - 1]
      BY <2>2, <3>2
    <3>8. good(K)
      <4>1. f[k - 1] \o r[p + l] = w
        BY <3>3, <3>4
      <4>2. (\A q \in F : ~in(q, K)) => f[K - 1] \o r[K] = w
        BY <3>5, <3>7, <4>1, Zenon
      <4>3. \A q \in F : in(q, K) => f[K - 1] \o r[q + l] = w
        BY <3>4, <3>6, <3>7, Zenon
      <4>. QED
        BY <4>2, <4>3
    <3>. HIDE DEF good
    <3>. QED
      BY <2>1, <2>2, <3>8
  \* It is not here: the line is copied.
  <2>10. CASE k \notin F /\ \A p \in F : ~in(p, k)
    <3>1. part(k) = <<t[k]>>
      BY <2>10, Zenon
    <3>2. f[k - 1] \o r[k] = w
      BY <2>3, <2>10, Zenon
    <3>. HIDE DEF part, w
    <3>3. ~OccursAt(s, t, k)
      <4>1. \A j \in F : j < k => j + l <= k
        BY <1>0, <1>5, <2>2, <2>10
      <4>. QED
        BY <1>5, <2>10, <4>1
    <3>4. f[k] \o r[K] = w
      <4>1. f[k] = f[k - 1] \o <<t[k]>>
        BY <2>4, <3>1
      <4>2. r[k] = <<t[k]>> \o r[K]
        BY <2>6, <3>3
      <4>3. PICK x \in Seq(T), y \in Seq(T), z \in Seq(T), xy \in Seq(T), yz \in Seq(T) :
              x = f[k - 1] /\ y = <<t[k]>> /\ z = r[K] /\ xy = f[k] /\ yz = r[k]
        BY <2>5, <2>7, Zenon
      <4>4. xy \o z = x \o yz
        <5>1. xy = x \o y /\ yz = y \o z
          BY <4>1, <4>2, <4>3, Zenon
        <5>2. Grouped(x, y, z, xy, yz)
          BY <5>1 DEF Grouped
        <5>3. Same(xy \o z, x \o yz)
          BY <4>3, <5>2, Regroup, Zenon
        <5>. QED
          BY <5>3 DEF Same
      <4>5. f[k] \o r[K] = f[k - 1] \o r[k]
        BY <4>3, <4>4, Zenon
      <4>. QED
        BY <3>2, <4>5, Zenon
    <3>5. \A p \in F : ~in(p, K)
      BY <1>0, <1>5, <2>1, <2>2, <2>10
    <3>6. good(K)
      BY <2>2, <3>4, <3>5, Zenon
    <3>. HIDE DEF good
    <3>. QED
      BY <2>1, <2>2, <3>6
  <2>. QED
    BY <2>8, <2>9, <2>10
<1>10. \A m \in 0 .. n : m \in S
  <2>. HIDE DEF S
  <2>. QED
    BY <1>0, <1>8, <1>9, UptoInduction
<1>11. f[n] \o r[n + 1] = w
  <2>1. n \in S
    <3>1. n \in 0 .. n
      BY <1>0
    <3>. QED
      BY <1>10, <3>1, Zenon
  <2>2. PICK K \in Nat : K = n + 1
    BY <1>0
  <2>3. good(K)
    BY <2>1, <2>2
  <2>4. \A p \in F : ~in(p, K)
    BY <1>0, <1>5, <1>6, <2>2
  <2>5. f[K - 1] \o r[K] = w
    BY <2>3, <2>4, Zenon
  <2>. HIDE DEF w
  <2>6. K - 1 = n
    BY <1>0, <2>2
  <2>. QED
    BY <2>2, <2>5, <2>6
<1>12. f[n] \o r[n + 1] = f[n]
  <2>1. f[n] \in Seq(T)
    BY <1>0, <1>2
  <2>. QED
    BY <1>4, <2>1, ConcatEmptySeq
<1>. QED
  BY <1>2, <1>3, <1>4, <1>11, <1>12 DEF F


\* str_replace refuses, or does what a careful hand would have done.
LEMMA StrReplaceFacts ==
    ASSUME NEW T, NEW src \in Seq(T), NEW c, c.after \in Seq(T), c.before \in Seq(T),
           c.old \in Seq(T), c.new \in Seq(T), c.old # <<>>,
           str_replace(src, c) # Refused
    PROVE  ReplacedByHand(src, c, str_replace(src, c))
<1>1. narrow(src, c.after, c.before) # Refused
  BY Zenon DEF str_replace
<1>2. PICK i, j \in 1 .. (Len(src) + 1) :
        narrow(src, c.after, c.before) = <<i, j>> /\ Pinned(src, c, i, j)
  BY <1>1, NarrowPins
<1>. DEFINE inside == SubSeq(src, i, j - 1)
            found == Found(c.old, inside)
            places == IF c.replace_all THEN found ELSE {Smallest(found)}
            text == SubSeq(src, 1, i - 1) \o Replaced(places, c.old, c.new, inside)
                      \o SubSeq(src, j, Len(src))
<1>3. /\ str_replace(src, c) = text
      /\ found # {}
      /\ ~(Cardinality(found) > 1 /\ ~c.replace_all)
  <2>1. <<i, j>>[1] = i /\ <<i, j>>[2] = j
    OBVIOUS
  <2>. QED
    BY <1>1, <1>2, <2>1, Zenon DEF str_replace
<1>4. inside \in Seq(T) /\ Len(inside) \in Nat /\ DOMAIN inside = 1 .. Len(inside)
  <2>1. i \in Int /\ j - 1 \in Int /\ \A k \in i .. j - 1 : src[k] \in T
    OBVIOUS
  <2>2. inside \in Seq(T)
    BY <2>1, SubSeqProperties
  <2>. HIDE DEF inside
  <2>. QED
    BY <2>2
<1>. HIDE DEF inside
<1>5. found \subseteq 1 .. Len(inside) /\ \A k \in found : OccursAt(c.old, inside, k)
  BY <1>4, FoundFacts
<1>6. ~c.replace_all => /\ found = {Smallest(found)}
                        /\ Smallest(found) \in 1 .. Len(inside)
                        /\ OnlyAt(c.old, inside, Smallest(found))
  <2>1. IsFiniteSet(found)
    <3>1. IsFiniteSet(1 .. Len(inside))
      BY <1>4, FS_Interval
    <3>. HIDE DEF found
    <3>. QED
      BY <1>5, <3>1, FS_Subset
  <2>2. Cardinality(found) \in Nat /\ Cardinality(found) # 0
    <3>. HIDE DEF found
    <3>. QED
      BY <1>3, <2>1, FS_CardinalityType, FS_EmptySet
  <2>3. ~c.replace_all => Cardinality(found) = 1
    BY <1>3, <2>2
  <2>. QED
    BY <1>4, <2>3, LandmarkFacts, Zenon
<1>7. places = found
  <2>. HIDE DEF found
  <2>. QED
    BY <1>6
<1>8. Replaced(places, c.old, c.new, inside) = Through(inside, c.old, c.new)
  <2>. HIDE DEF places
  <2>. QED
    BY <1>4, <1>7, ReplacedIsThrough
<1>9. \E k \in DOMAIN inside :
        IF c.replace_all THEN OccursAt(c.old, inside, k) ELSE OnlyAt(c.old, inside, k)
  <2>. HIDE DEF found
  <2>1. CASE c.replace_all
    BY <1>3, <1>4, <1>5, <2>1
  <2>2. CASE ~c.replace_all
    BY <1>4, <1>6, <2>2
  <2>. QED
    BY <2>1, <2>2
<1>10. str_replace(src, c) = SubSeq(src, 1, i - 1) \o Through(inside, c.old, c.new) \o SubSeq(src, j, Len(src))
  BY <1>3, <1>8, Zenon
<1>. QED
  BY <1>2, <1>9, <1>10, Zenon DEF ReplacedByHand, inside

----------------------------------------------------------------------------
\* Edits by anchor

\* n values, each made of the one before it.
Iterates(g, T, first, rule, n) ==
  /\ g \in [0 .. n -> T]
  /\ g[0] = first
  /\ \A k \in 1 .. n : g[k] = rule[<<k, g[k - 1]>>]

LEMMA IteratesExists ==
    ASSUME NEW T, NEW first \in T, NEW n \in Nat, NEW rule \in [(1 .. n) \X T -> T]
    PROVE  \E g : Iterates(g, T, first, rule, n)
<1>. DEFINE value(p, i) == IF i \in 1 .. n THEN rule[<<i, p[i]>>] ELSE first
            all == [p \in Seq(T) |-> value(p, Len(p))]
<1>1. ASSUME NEW p \in Seq(T) PROVE value(p, Len(p)) \in T
  <2>1. Len(p) \in 1 .. n => <<Len(p), p[Len(p)]>> \in (1 .. n) \X T
    OBVIOUS
  <2>. QED
    BY <2>1
<1>2. all \in [Seq(T) -> T] /\ \A p \in Seq(T) : all[p] = value(p, Len(p))
  <2>. HIDE DEF value
  <2>. QED
    BY <1>1
<1>. HIDE DEF all
<1>3. PICK h : Makes(all, T, n + 1, h)
  <2>1. n + 1 \in Nat
    OBVIOUS
  <2>. HIDE DEF value
  <2>. QED
    BY <1>2, <2>1, CourseOfValues, Zenon
<1>4. ASSUME NEW i \in 1 .. n + 1 PROVE h[i] = value(h, i - 1)
  <2>. DEFINE p == SubSeq(h, 1, i - 1)
  <2>1. i - 1 \in Int /\ 1 \in Int /\ i - 1 \in 0 .. n /\ \A k \in 1 .. i - 1 : k \in 1 .. n + 1
    OBVIOUS
  <2>2. \A k \in 1 .. i - 1 : h[k] \in T
    BY <1>3, <2>1 DEF Makes
  <2>3. p \in Seq(T) /\ Len(p) = i - 1 /\ \A k \in 1 .. i - 1 : p[k] = h[k]
    BY <2>1, <2>2, SubSeqProperties
  <2>4. h[i] = all[p]
    BY <1>3 DEF Makes
  <2>. HIDE DEF p
  <2>5. all[p] = value(p, i - 1)
    BY <1>2, <2>3, Zenon
  <2>6. i - 1 \in 1 .. n => p[i - 1] = h[i - 1]
    BY <2>3
  <2>. QED
    BY <2>4, <2>5, <2>6, Zenon
<1>. DEFINE g == [k \in 0 .. n |-> h[k + 1]]
<1>5. g \in [0 .. n -> T] /\ \A k \in 0 .. n : g[k] = h[k + 1]
  BY <1>3 DEF Makes
<1>. HIDE DEF g
<1>6. g[0] = first
  <2>1. PICK i \in 1 .. n + 1 : i = 1
    OBVIOUS
  <2>2. g[0] = h[i] /\ i - 1 \notin 1 .. n
    BY <1>5, <2>1
  <2>3. h[i] = value(h, i - 1)
    BY <1>4
  <2>. QED
    BY <2>2, <2>3, Zenon
<1>7. ASSUME NEW k \in 1 .. n PROVE g[k] = rule[<<k, g[k - 1]>>]
  <2>1. PICK i \in 1 .. n + 1 : i = k + 1
    OBVIOUS
  <2>2. g[k] = h[i] /\ g[k - 1] = h[k] /\ i - 1 = k
    BY <1>5, <2>1
  <2>3. h[i] = value(h, k)
    BY <1>4, <2>2, Zenon
  <2>. QED
    BY <2>2, <2>3, Zenon
<1>. QED
  BY <1>5, <1>6, <1>7, Zenon DEF Iterates

\* FlattenSeq can as well be built from the right.
LEMMA FlattenSuffixes ==
    ASSUME NEW T, NEW ss \in Seq(Seq(T))
    PROVE  \E r : /\ r \in [0 .. Len(ss) -> Seq(T)]
                  /\ r[Len(ss)] = <<>>
                  /\ \A k \in 1 .. Len(ss) : r[k - 1] = ss[k] \o r[k]
                  /\ r[0] = FlattenSeq(ss)
<1>. DEFINE n == Len(ss)
            U == Seq(T)
            rule == [x \in (1 .. n) \X U |-> ss[n + 1 - x[1]] \o x[2]]
<1>0. n \in Nat /\ <<>> \in U /\ \A k \in 1 .. n : ss[k] \in U
  OBVIOUS
<1>1. \A x, y \in U : x \o y \in U
  BY ConcatProperties
<1>2. PICK f : /\ f \in [0 .. n -> U]
               /\ f[0] = <<>>
               /\ \A k \in 1 .. n : f[k] = f[k - 1] \o ss[k]
               /\ f[n] = FlattenSeq(ss)
  BY FlattenPrefixes
<1>3. \A x \in U : <<>> \o x = x /\ x \o <<>> = x
  BY ConcatEmptySeq
<1>. HIDE DEF n, U
<1>4. rule \in [(1 .. n) \X U -> U] /\ \A k \in 1 .. n, x \in U : rule[<<k, x>>] = ss[n + 1 - k] \o x
  <2>1. \A x \in (1 .. n) \X U : ss[n + 1 - x[1]] \in U /\ x[2] \in U
    BY <1>0
  <2>2. rule \in [(1 .. n) \X U -> U]
    BY <1>1, <2>1
  <2>3. \A k \in 1 .. n, x \in U : rule[<<k, x>>] = ss[n + 1 - k] \o x
    BY <1>0
  <2>. QED
    BY <2>2, <2>3
<1>. HIDE DEF rule
<1>5. PICK g : Iterates(g, U, <<>>, rule, n)
  BY <1>0, <1>4, IteratesExists, Zenon
<1>. DEFINE r == [k \in 0 .. n |-> g[n - k]]
<1>6. r \in [0 .. n -> U] /\ \A k \in 0 .. n : r[k] = g[n - k]
  BY <1>0, <1>5 DEF Iterates
<1>. HIDE DEF r
<1>7. r[n] = <<>>
  BY <1>0, <1>5, <1>6 DEF Iterates
<1>8. ASSUME NEW k \in 1 .. n PROVE r[k - 1] = ss[k] \o r[k]
  <2>1. PICK m \in 1 .. n : m = n + 1 - k
    BY <1>0
  <2>2. r[k - 1] = g[m] /\ r[k] = g[m - 1] /\ n + 1 - m = k
    BY <1>0, <1>6, <2>1
  <2>3. g[m] = rule[<<m, g[m - 1]>>]
    BY <1>5 DEF Iterates
  <2>4. g[m - 1] \in U
    BY <1>0, <1>5, <2>1 DEF Iterates
  <2>. QED
    BY <1>4, <2>2, <2>3, <2>4
<1>9. \A k \in 0 .. n : f[k] \o r[k] = r[0]
  <2>. DEFINE S == {k \in 0 .. n : f[k] \o r[k] = r[0]}
  <2>1. 0 \in S
    <3>1. 0 \in 0 .. n
      BY <1>0
    <3>. QED
      BY <1>2, <1>3, <1>6, <3>1
  <2>2. ASSUME NEW k \in 1 .. n, k - 1 \in S PROVE k \in S
    <3>0. k \in 0 .. n /\ k - 1 \in 0 .. n
      BY <1>0
    <3>1. f[k - 1] \o r[k - 1] = r[0] /\ k \in 0 .. n /\ k - 1 \in 0 .. n
      BY <2>2, <3>0, Zenon
    <3>2. f[k] = f[k - 1] \o ss[k] /\ r[k - 1] = ss[k] \o r[k]
      BY <1>2, <1>8, Zenon
    <3>3. Grouped(f[k - 1], ss[k], r[k], f[k], r[k - 1])
      BY <3>2 DEF Grouped
    <3>4. f[k - 1] \in Seq(T) /\ ss[k] \in Seq(T) /\ r[k] \in Seq(T)
      BY <1>0, <1>2, <1>6, <3>1 DEF U
    <3>5. Same(f[k] \o r[k], f[k - 1] \o r[k - 1])
      BY <3>3, <3>4, Regroup, Zenon
    <3>6. f[k] \o r[k] = r[0]
      BY <3>1, <3>5, Zenon DEF Same
    <3>. QED
      BY <3>1, <3>6
  <2>. HIDE DEF S
  <2>3. \A k \in 0 .. n : k \in S
    BY <1>0, <2>1, <2>2, UptoInduction
  <2>. QED
    BY <2>3 DEF S
<1>10. r[0] = FlattenSeq(ss)
  <2>1. n \in 0 .. n
    BY <1>0
  <2>2. f[n] \o r[n] = r[0] /\ f[n] \in U
    BY <1>2, <1>9, <2>1
  <2>. QED
    BY <1>2, <1>3, <1>7, <2>2
<1>. QED
  BY <1>6, <1>7, <1>8, <1>10 DEF n, U

LEMMA SmallestIs ==
    ASSUME NEW S, S \subseteq Nat, NEW x \in S, \A y \in S : x <= y
    PROVE  Smallest(S) = x
<1>1. Smallest(S) \in S /\ \A j \in S : Smallest(S) <= j
  BY LeastNumber
<1>2. Smallest(S) \in Nat /\ x \in Nat /\ Smallest(S) <= x /\ x <= Smallest(S)
  BY <1>1
<1>. QED
  BY <1>2

\* The lines with an anchor, which are finitely many.
LEMMA MatchesFacts ==
    ASSUME NEW src \in Texts, NEW h
    PROVE  /\ Matches(src, h) \subseteq DOMAIN src
           /\ Matches(src, h) \subseteq Nat
           /\ IsFiniteSet(Matches(src, h))
           /\ Cardinality(Matches(src, h)) \in Nat
           /\ \A i \in DOMAIN src : i \in Matches(src, h) <=> Anchor[src[i]] = h
           /\ Matches(src, None) = {}
<1>0. DOMAIN src = 1 .. Len(src) /\ Len(src) \in Nat /\ \A i \in DOMAIN src : src[i] \in DOMAIN Anchor
  BY DEF Texts
<1>1. Matches(src, h) \subseteq DOMAIN src /\ \A i \in DOMAIN src : i \in Matches(src, h) <=> Anchor[src[i]] = h
  BY DEF Matches
<1>2. IsFiniteSet(1 .. Len(src))
  BY <1>0, FS_Interval
<1>3. IsFiniteSet(Matches(src, h))
  BY <1>0, <1>1, <1>2, FS_Subset
<1>4. Matches(src, None) = {}
  BY <1>0, EditsAssumption DEF Matches
<1>. QED
  BY <1>0, <1>1, <1>3, <1>4, FS_CardinalityType

\* The line the code finds is the line that is meant.
LEMMA ResolveMeans ==
    ASSUME NEW src \in Texts, NEW e, NEW i \in DOMAIN src
    PROVE  Resolve(src, e) = i <=> Means(src, e, i)
<1>. DEFINE many == Matches(src, e.anchor)
            landmark == IF e.after = None THEN {} ELSE Matches(src, e.after)
            later == {k \in many : \A j \in landmark : j < k}
            has(j, h) == Anchor[src[j]] = h
<1>0. DOMAIN src = 1 .. Len(src) /\ Len(src) \in Nat /\ i \in Nat /\ i # 0
  BY DEF Texts
<1>1. /\ Cardinality(many) = 1 => Resolve(src, e) = Smallest(many)
      /\ Cardinality(many) > 1 /\ Cardinality(many) # 1 /\ Cardinality(landmark) = 1 /\ later # {}
           => Resolve(src, e) = Smallest(later)
      /\ ~(Cardinality(many) = 1)
           /\ ~(Cardinality(many) > 1 /\ Cardinality(landmark) = 1 /\ later # {}) => Resolve(src, e) = 0
  BY DEF Resolve
<1>2. /\ many \subseteq DOMAIN src /\ many \subseteq Nat /\ IsFiniteSet(many) /\ Cardinality(many) \in Nat
      /\ \A j \in DOMAIN src : j \in many <=> has(j, e.anchor)
  BY MatchesFacts
<1>3. /\ landmark \subseteq DOMAIN src /\ landmark \subseteq Nat /\ IsFiniteSet(landmark)
      /\ \A j \in DOMAIN src : j \in landmark <=> has(j, e.after)
  <2>1. CASE e.after = None
    <3>1. Matches(src, None) = {} /\ \A j \in DOMAIN src : j \in Matches(src, None) <=> has(j, None)
      BY MatchesFacts
    <3>. QED
      BY <2>1, <3>1, FS_EmptySet
  <2>2. CASE e.after # None
    BY <2>2, MatchesFacts
  <2>. QED
    BY <2>1, <2>2
<1>. HIDE DEF many, landmark
<1>4. ASSUME Resolve(src, e) = i PROVE Means(src, e, i)
  <2>1. CASE Cardinality(many) = 1
    <3>1. PICK x : many = {x}
      BY <1>2, <2>1, FS_Singleton
    <3>2. Smallest(many) = x
      BY <1>2, <3>1, LeastNumber
    <3>3. has(i, e.anchor) /\ \A j \in DOMAIN src \ {i} : ~has(j, e.anchor)
      BY <1>1, <1>2, <1>4, <2>1, <3>1, <3>2
    <3>. QED
      BY <3>3 DEF Means
  <2>2. CASE ~(Cardinality(many) = 1)
    <3>1. Cardinality(many) > 1 /\ Cardinality(landmark) = 1 /\ later # {} /\ i = Smallest(later)
      BY <1>0, <1>1, <1>4, <2>2
    <3>2. PICK l : landmark = {l}
      BY <1>3, <3>1, FS_Singleton
    <3>3. later \subseteq Nat
      BY <1>2
    <3>4. i \in later /\ \A k \in later : i <= k
      <4>. HIDE DEF later
      <4>. QED
        BY <3>1, <3>3, LeastNumber
    <3>5. i \in many /\ l < i /\ l \in Nat /\ l \in 1 .. (i - 1)
      BY <1>0, <1>3, <3>2, <3>4
    <3>6. \A j \in (l + 1) .. (i - 1) : ~has(j, e.anchor)
      <4>1. SUFFICES ASSUME NEW j \in (l + 1) .. (i - 1), j \in many PROVE FALSE
        BY <1>0, <1>2, <3>5
      <4>2. j \in later
        BY <3>2, <3>5, <4>1
      <4>3. j \in Nat /\ j < i
        BY <1>0, <3>5
      <4>. QED
        BY <1>0, <3>4, <4>2, <4>3
    <3>7. has(l, e.after) /\ \A j \in DOMAIN src \ {l} : ~has(j, e.after)
      BY <1>3, <3>2
    <3>8. has(i, e.anchor)
      BY <1>2, <3>5
    <3>. QED
      BY <3>5, <3>6, <3>7, <3>8, Zenon DEF Means
  <2>. QED
    BY <2>1, <2>2
<1>5. ASSUME Means(src, e, i) PROVE Resolve(src, e) = i
  <2>1. i \in many
    BY <1>2, <1>5 DEF Means
  <2>2. Cardinality(many) = 1 => Resolve(src, e) = i
    <3>1. SUFFICES ASSUME Cardinality(many) = 1 PROVE Smallest(many) = i
      BY <1>1
    <3>2. PICK x : many = {x}
      BY <1>2, <3>1, FS_Singleton
    <3>. QED
      BY <1>2, <2>1, <3>2, LeastNumber
  <2>3. CASE \A j \in DOMAIN src \ {i} : ~has(j, e.anchor)
    <3>1. many = {i}
      BY <1>2, <2>1, <2>3
    <3>. QED
      BY <2>2, <3>1, FS_Singleton
  <2>4. CASE \E l \in 1 .. (i - 1) :
               /\ has(l, e.after) /\ \A j \in DOMAIN src \ {l} : ~has(j, e.after)
               /\ \A j \in (l + 1) .. (i - 1) : ~has(j, e.anchor)
    <3>1. PICK l \in 1 .. (i - 1) :
               /\ has(l, e.after) /\ \A j \in DOMAIN src \ {l} : ~has(j, e.after)
               /\ \A j \in (l + 1) .. (i - 1) : ~has(j, e.anchor)
      BY <2>4
    <3>2. l \in DOMAIN src /\ l \in Nat /\ l < i
      BY <1>0
    <3>3. landmark = {l}
      BY <1>3, <3>1, <3>2
    <3>4. i \in later
      BY <2>1, <3>2, <3>3
    <3>5. \A k \in later : i <= k
      <4>1. SUFFICES ASSUME NEW k \in later, ~(i <= k) PROVE FALSE
        OBVIOUS
      <4>2. k \in many /\ l < k /\ k \in Nat
        BY <1>2, <3>3
      <4>3. k \in (l + 1) .. (i - 1)
        BY <1>0, <3>2, <4>1, <4>2
      <4>. QED
        BY <1>2, <3>1, <4>2, <4>3
    <3>6. later \subseteq Nat
      BY <1>2
    <3>7. Smallest(later) = i
      <4>. HIDE DEF later
      <4>. QED
        BY <3>4, <3>5, <3>6, SmallestIs
    <3>8. Cardinality(landmark) = 1
      BY <3>3, FS_Singleton
    <3>9. Cardinality(many) = 1 \/ Cardinality(many) > 1
      BY <1>2, <2>1, FS_EmptySet
    <3>. QED
      BY <1>1, <2>2, <3>4, <3>7, <3>8, <3>9
  <2>. QED
    BY <1>5, <2>3, <2>4 DEF Means
<1>. QED
  BY <1>4, <1>5

\* An edit that is not refused means a line of the file.
LEMMA ResolveInFile ==
    ASSUME NEW src \in Texts, NEW e, Resolve(src, e) # 0
    PROVE  Resolve(src, e) \in DOMAIN src
<1>. DEFINE many == Matches(src, e.anchor)
            landmark == IF e.after = None THEN {} ELSE Matches(src, e.after)
            later == {k \in many : \A j \in landmark : j < k}
<1>1. \/ Cardinality(many) = 1 /\ Resolve(src, e) = Smallest(many)
      \/ later # {} /\ Resolve(src, e) = Smallest(later)
  BY DEF Resolve
<1>2. many \subseteq DOMAIN src /\ many \subseteq Nat /\ IsFiniteSet(many)
  BY MatchesFacts
<1>. HIDE DEF many, landmark
<1>3. ASSUME Cardinality(many) = 1 PROVE Smallest(many) \in many
  <2>1. many # {}
    BY <1>3, FS_EmptySet
  <2>. QED
    BY <1>2, <2>1, LeastNumber
<1>4. later # {} => Smallest(later) \in later
  <2>1. later \subseteq Nat
    BY <1>2
  <2>. HIDE DEF later
  <2>. QED
    BY <2>1, LeastNumber
<1>. QED
  BY <1>1, <1>2, <1>3, <1>4

\* Five texts put together, as the reader by hand and as the code group them.
LEMMA RegroupLine ==
    ASSUME NEW T, NEW s \in Seq(T), NEW a \in Seq(T), NEW p \in Seq(T), NEW b \in Seq(T), NEW r \in Seq(T)
    PROVE  Same(s \o a \o p \o b \o r, s \o ((a \o p \o b) \o r))
<1>. DEFINE ap == a \o p
            apb == ap \o b
            sa == s \o a
            sap == sa \o p
            sapb == sap \o b
            apbr == apb \o r
<1>1. ap \in Seq(T) /\ apb \in Seq(T) /\ sa \in Seq(T) /\ sap \in Seq(T) /\ sapb \in Seq(T)
  BY ConcatProperties
<1>2. Same(sap, s \o ap)
  <2>1. Grouped(s, a, p, sa, ap)
    BY DEF Grouped
  <2>. HIDE DEF sa, ap
  <2>. QED
    BY <2>1, Regroup, Zenon
<1>3. Same(sapb, s \o apb)
  <2>1. Grouped(s, ap, b, sap, apb)
    BY <1>2 DEF Grouped, Same
  <2>. HIDE DEF ap, sap, apb
  <2>. QED
    BY <1>1, <2>1, Regroup, Zenon
<1>4. Same(sapb \o r, s \o apbr)
  <2>1. Grouped(s, apb, r, sapb, apbr)
    BY <1>3 DEF Grouped, Same
  <2>. HIDE DEF apb, sapb, apbr
  <2>. QED
    BY <1>1, <2>1, Regroup, Zenon
<1>. QED
  BY <1>4 DEF ap, apb, sa, sap, sapb, apbr

\* What is before the i-th line and behind it.
LEMMA CutOff ==
    ASSUME NEW T, NEW src \in Seq(T), NEW i \in 1 .. Len(src), NEW q \in Seq(T)
    PROVE  LET text == SubSeq(src, 1, i) \o q IN
             /\ SubSeq(text, 1, i - 1) = SubSeq(src, 1, i - 1)
             /\ SubSeq(text, i + 1, Len(text)) = q
<1>. DEFINE p == SubSeq(src, 1, i)
            text == p \o q
<1>0. i \in Int /\ i - 1 \in Int /\ 1 \in Int /\ i + 1 \in Int /\ Len(src) \in Nat /\ Len(q) \in Nat
  OBVIOUS
<1>1. \A k \in 1 .. i : src[k] \in T
  OBVIOUS
<1>2. p \in Seq(T) /\ Len(p) = i /\ \A k \in 1 .. i : p[k] = src[k]
  BY <1>0, <1>1, SubSeqProperties
<1>. HIDE DEF p
<1>3. /\ text \in Seq(T) /\ Len(text) = i + Len(q)
      /\ \A k \in 1 .. Len(p) + Len(q) : text[k] = IF k <= Len(p) THEN p[k] ELSE q[k - Len(p)]
  BY <1>2, ConcatProperties
<1>. HIDE DEF text
<1>4. /\ \A k \in 1 .. i : text[k] = src[k]
      /\ \A k \in 1 .. Len(q) : text[i + k] = q[k]
  BY <1>0, <1>2, <1>3
<1>5. SubSeq(text, 1, i - 1) = SubSeq(src, 1, i - 1)
  <2>1. \A k \in 1 .. i - 1 : text[k] = src[k] /\ src[k] \in T
    BY <1>0, <1>1, <1>4
  <2>2. /\ SubSeq(text, 1, i - 1) \in Seq(T) /\ Len(SubSeq(text, 1, i - 1)) = i - 1
        /\ \A k \in 1 .. i - 1 : SubSeq(text, 1, i - 1)[k] = text[k]
    BY <1>0, <2>1, SubSeqProperties
  <2>3. /\ SubSeq(src, 1, i - 1) \in Seq(T) /\ Len(SubSeq(src, 1, i - 1)) = i - 1
        /\ \A k \in 1 .. i - 1 : SubSeq(src, 1, i - 1)[k] = src[k]
    BY <1>0, <2>1, SubSeqProperties
  <2>. QED
    BY <2>1, <2>2, <2>3, SeqEqual
<1>6. SubSeq(text, i + 1, Len(text)) = q
  <2>. DEFINE rest == SubSeq(text, i + 1, Len(text))
  <2>1. \A k \in (i + 1) .. Len(text) : text[k] \in T
    BY <1>0, <1>3
  <2>2. /\ rest \in Seq(T) /\ Len(rest) = Len(q)
        /\ \A k \in 1 .. Len(q) : rest[k] = text[i + k]
    <3>1. Len(text) \in Int
      BY <1>0, <1>3
    <3>2. /\ rest \in Seq(T)
          /\ Len(rest) = IF i + 1 <= Len(text) THEN Len(text) - (i + 1) + 1 ELSE 0
          /\ \A k \in 1 .. Len(text) - (i + 1) + 1 : rest[k] = text[i + 1 + k - 1]
      BY <1>0, <2>1, <3>1, SubSeqProperties
    <3>. HIDE DEF rest
    <3>. QED
      BY <1>0, <1>3, <3>2
  <2>. HIDE DEF rest
  <2>3. \A k \in 1 .. Len(q) : rest[k] = q[k]
    BY <1>4, <2>2, Zenon
  <2>4. rest = q
    BY <2>2, <2>3, SeqEqual
  <2>. QED
    BY <2>4 DEF rest
<1>. QED
  BY <1>5, <1>6 DEF text, p

\* The texts of the edits K, one after the other.
TextsOf(edits, K) == FlattenSeq([k \in DOMAIN edits |-> IF k \in K THEN edits[k].text ELSE <<>>])

\* The edits of one kind that mean a line.
Asked(src, edits, i, op) == {k \in DOMAIN edits : edits[k].op = op /\ Means(src, edits[k], i)}

\* What takes the place of a line.
InPlace(src, edits, i) ==
  IF Asked(src, edits, i, "replace") \cup Asked(src, edits, i, "delete") = {}
    THEN <<src[i]>> ELSE TextsOf(edits, Asked(src, edits, i, "replace"))

LineByHand(src, edits, i) ==
  TextsOf(edits, Asked(src, edits, i, "insert_before"))
    \o InPlace(src, edits, i)
    \o TextsOf(edits, Asked(src, edits, i, "insert_after"))

LEMMA TextsOfType ==
    ASSUME NEW T, NEW edits, edits \in Seq(Range(edits)), \A k \in DOMAIN edits : edits[k].text \in Seq(T), NEW K
    PROVE  TextsOf(edits, K) \in Seq(T)
<1>. DEFINE part(k) == IF k \in K THEN edits[k].text ELSE <<>>
            parts == [k \in DOMAIN edits |-> part(k)]
<1>1. \A k \in DOMAIN edits : part(k) \in Seq(T)
  OBVIOUS
<1>. HIDE DEF part
<1>2. DOMAIN edits = 1 .. Len(edits) /\ Len(edits) \in Nat
  OBVIOUS
<1>3. parts \in [1 .. Len(edits) -> Seq(T)]
  BY <1>1, <1>2
<1>4. parts \in Seq(Seq(T))
  BY <1>2, <1>3
<1>5. FlattenSeq(parts) \in Seq(T)
  <2>. HIDE DEF parts
  <2>. QED
    BY <1>4, FlattenType
<1>. QED
  BY <1>5 DEF TextsOf, part

LEMMA LineType ==
    ASSUME NEW T, NEW src \in Seq(T), NEW edits, edits \in Seq(Range(edits)),
           \A k \in DOMAIN edits : edits[k].text \in Seq(T), NEW i \in DOMAIN src
    PROVE  /\ \A op : TextsOf(edits, Asked(src, edits, i, op)) \in Seq(T)
           /\ InPlace(src, edits, i) \in Seq(T)
           /\ LineByHand(src, edits, i) \in Seq(T)
<1>1. \A op : TextsOf(edits, Asked(src, edits, i, op)) \in Seq(T)
  BY TextsOfType
<1>2. InPlace(src, edits, i) \in Seq(T)
  <2>1. <<src[i]>> \in Seq(T)
    OBVIOUS
  <2>. QED
    BY <1>1, <2>1 DEF InPlace
<1>. QED
  BY <1>1, <1>2, ConcatProperties DEF LineByHand

\* What the code makes of a file, line by line.
LEMMA ApplyLines ==
    ASSUME NEW src \in Texts, NEW edits, apply_edits(src, edits) # Refused
    PROVE  /\ \A k \in DOMAIN edits : Resolve(src, edits[k]) # 0
           /\ apply_edits(src, edits) = FlattenSeq([i \in DOMAIN src |-> LineByHand(src, edits, i)])
<1>. DEFINE here(i, k, op) == Resolve(src, edits[k]) = i /\ edits[k].op = op
            parts(i, op) == [k \in DOMAIN edits |-> IF here(i, k, op) THEN edits[k].text ELSE <<>>]
            texts(i, op) == FlattenSeq(parts(i, op))
            swaps(i) == \E k \in DOMAIN edits : here(i, k, "replace") \/ here(i, k, "delete")
            line(i) == texts(i, "insert_before")
                       \o (IF swaps(i) THEN texts(i, "replace") ELSE <<src[i]>>)
                       \o texts(i, "insert_after")
<1>1. /\ \A k \in DOMAIN edits : Resolve(src, edits[k]) # 0
      /\ apply_edits(src, edits) = FlattenSeq([i \in DOMAIN src |-> line(i)])
  BY Zenon DEF apply_edits
<1>2. \A i \in DOMAIN src : \A op : \A k \in DOMAIN edits : here(i, k, op) <=> k \in Asked(src, edits, i, op)
  BY ResolveMeans DEF Asked
<1>. HIDE DEF here
<1>3. \A i \in DOMAIN src : \A op : texts(i, op) = TextsOf(edits, Asked(src, edits, i, op))
  <2>1. SUFFICES ASSUME NEW i \in DOMAIN src, NEW op
                 PROVE  texts(i, op) = TextsOf(edits, Asked(src, edits, i, op))
    OBVIOUS
  <2>2. \A k \in DOMAIN edits : here(i, k, op) <=> k \in Asked(src, edits, i, op)
    BY <1>2
  <2>3. parts(i, op) = [k \in DOMAIN edits |-> IF k \in Asked(src, edits, i, op) THEN edits[k].text ELSE <<>>]
    BY <2>2
  <2>. QED
    BY <2>3, Zenon DEF TextsOf
<1>4. \A i \in DOMAIN src : swaps(i) <=> Asked(src, edits, i, "replace") \cup Asked(src, edits, i, "delete") # {}
  <2>1. SUFFICES ASSUME NEW i \in DOMAIN src
                 PROVE  swaps(i) <=> Asked(src, edits, i, "replace") \cup Asked(src, edits, i, "delete") # {}
    OBVIOUS
  <2>2. \A op : Asked(src, edits, i, op) \subseteq DOMAIN edits
    BY DEF Asked
  <2>. QED
    BY <1>2, <2>2
<1>. HIDE DEF texts, swaps
<1>5. ASSUME NEW i \in DOMAIN src PROVE line(i) = LineByHand(src, edits, i)
  <2>1. (IF swaps(i) THEN texts(i, "replace") ELSE <<src[i]>>) = InPlace(src, edits, i)
    BY <1>3, <1>4 DEF InPlace
  <2>2. /\ texts(i, "insert_before") = TextsOf(edits, Asked(src, edits, i, "insert_before"))
        /\ texts(i, "insert_after") = TextsOf(edits, Asked(src, edits, i, "insert_after"))
    BY <1>3, Zenon
  <2>. QED
    BY <2>1, <2>2, Zenon DEF LineByHand
<1>. HIDE DEF line
<1>6. [i \in DOMAIN src |-> line(i)] = [i \in DOMAIN src |-> LineByHand(src, edits, i)]
  BY <1>5
<1>. QED
  BY <1>1, <1>6, Zenon DEF line, texts, swaps, here

\* The function by which ByHand is defined.
Doing(d, src, edits) ==
  d = [n \in 0 .. Len(src) |->
         LET i == Len(src) + 1 - n
             text == d[n - 1]
         IN  IF n = 0 THEN src
             ELSE SubSeq(text, 1, i - 1)
                  \o TextsOf(edits, Asked(src, edits, i, "insert_before")) \o InPlace(src, edits, i)
                  \o TextsOf(edits, Asked(src, edits, i, "insert_after"))
                  \o SubSeq(text, i + 1, Len(text))]

LEMMA ByHandDoing ==
    ASSUME NEW src, NEW edits
    PROVE  ByHand(src, edits) = (CHOOSE d : Doing(d, src, edits))[Len(src)]
BY Zenon DEF ByHand, Doing, TextsOf, Asked, InPlace

\* Done from the last line to the first, or made in one go, the edits are the same.
LEMMA ByHandLines ==
    ASSUME NEW T, NEW src \in Seq(T), NEW edits, edits \in Seq(Range(edits)),
           \A k \in DOMAIN edits : edits[k].text \in Seq(T)
    PROVE  ByHand(src, edits) = FlattenSeq([i \in DOMAIN src |-> LineByHand(src, edits, i)])
<1>. DEFINE L == Len(src)
            lines == [i \in DOMAIN src |-> LineByHand(src, edits, i)]
            A(i) == TextsOf(edits, Asked(src, edits, i, "insert_before"))
            P(i) == InPlace(src, edits, i)
            B(i) == TextsOf(edits, Asked(src, edits, i, "insert_after"))
            next(i, text) == SubSeq(text, 1, i - 1) \o A(i) \o P(i) \o B(i) \o SubSeq(text, i + 1, Len(text))
<1>0. L \in Nat /\ DOMAIN src = 1 .. L
  OBVIOUS
<1>1. \A i \in 1 .. L :
        A(i) \in Seq(T) /\ P(i) \in Seq(T) /\ B(i) \in Seq(T) /\ LineByHand(src, edits, i) \in Seq(T)
  BY <1>0, LineType, Zenon
<1>2. lines \in Seq(Seq(T)) /\ Len(lines) = L /\ \A i \in 1 .. L : lines[i] = A(i) \o P(i) \o B(i)
  <2>1. lines \in [1 .. L -> Seq(T)]
    BY <1>0, <1>1
  <2>2. lines \in Seq(Seq(T)) /\ Len(lines) = L
    <3>. HIDE DEF lines
    <3>. QED
      BY <1>0, <2>1
  <2>3. \A i \in 1 .. L : lines[i] = A(i) \o P(i) \o B(i)
    BY <1>0 DEF LineByHand
  <2>. QED
    BY <2>2, <2>3
<1>3. PICK r : /\ r \in [0 .. L -> Seq(T)]
               /\ r[L] = <<>>
               /\ \A k \in 1 .. L : r[k - 1] = lines[k] \o r[k]
               /\ r[0] = FlattenSeq(lines)
  <2>. HIDE DEF lines, L
  <2>. QED
    BY <1>2, FlattenSuffixes
<1>. DEFINE d == [n \in 0 .. L |-> SubSeq(src, 1, L - n) \o r[L - n]]
<1>4. \A n \in 0 .. L : d[n] = SubSeq(src, 1, L - n) \o r[L - n]
  OBVIOUS
<1>. HIDE DEF lines, A, P, B
\* Above the lines that are done the text is still the file's.
<1>5. d[0] = src
  <2>1. 0 \in 0 .. L /\ L - 0 = L
    BY <1>0
  <2>2. SubSeq(src, 1, L) = src
    BY SubSeqFull
  <2>. HIDE DEF d, L
  <2>3. src \o <<>> = src
    BY ConcatEmptySeq
  <2>. QED
    BY <1>3, <1>4, <2>1, <2>2, <2>3, Zenon
<1>6. ASSUME NEW n \in 1 .. L PROVE d[n] = next(L + 1 - n, d[n - 1])
  <2>. HIDE DEF d
  <2>1. PICK i \in 1 .. L : i = L + 1 - n
    <3>. HIDE DEF L
    <3>. QED
      BY <1>0
  <2>2. n \in 0 .. L /\ n - 1 \in 0 .. L /\ L - n = i - 1 /\ L - (n - 1) = i /\ i \in 0 .. L /\ i - 1 \in 0 .. L
    BY <1>0, <2>1
  <2>3. d[n - 1] = SubSeq(src, 1, i) \o r[i]
    BY <1>4, <2>2
  <2>4. d[n] = SubSeq(src, 1, i - 1) \o r[i - 1]
    BY <1>4, <2>2
  <2>5. r[i] \in Seq(T)
    BY <1>3, <2>2
  <2>6. /\ SubSeq(d[n - 1], 1, i - 1) = SubSeq(src, 1, i - 1)
        /\ SubSeq(d[n - 1], i + 1, Len(d[n - 1])) = r[i]
    <3>1. i \in 1 .. Len(src)
      BY <2>1
    <3>2. LET text == SubSeq(src, 1, i) \o r[i] IN
            /\ SubSeq(text, 1, i - 1) = SubSeq(src, 1, i - 1)
            /\ SubSeq(text, i + 1, Len(text)) = r[i]
      BY <2>5, <3>1, CutOff
    <3>. QED
      BY <2>3, <3>2
  <2>7. SubSeq(src, 1, i - 1) \in Seq(T)
    <3>1. i - 1 \in Int /\ 1 \in Int /\ \A k \in 1 .. i - 1 : src[k] \in T
      BY <1>0
    <3>. QED
      BY <3>1, SubSeqProperties
  <2>8. A(i) \in Seq(T) /\ P(i) \in Seq(T) /\ B(i) \in Seq(T)
    BY <1>1, <2>1
  <2>9. next(i, d[n - 1]) = SubSeq(src, 1, i - 1) \o ((A(i) \o P(i) \o B(i)) \o r[i])
    <3>1. next(i, d[n - 1]) = SubSeq(src, 1, i - 1) \o A(i) \o P(i) \o B(i) \o r[i]
      BY <2>6, Zenon
    <3>. HIDE DEF next
    <3>2. Same(SubSeq(src, 1, i - 1) \o A(i) \o P(i) \o B(i) \o r[i],
               SubSeq(src, 1, i - 1) \o ((A(i) \o P(i) \o B(i)) \o r[i]))
      BY <2>5, <2>7, <2>8, RegroupLine, Zenon
    <3>. QED
      BY <3>1, <3>2, Zenon DEF Same
  <2>10. r[i - 1] = (A(i) \o P(i) \o B(i)) \o r[i]
    BY <1>2, <1>3, <2>1, Zenon
  <2>11. d[n] = next(i, d[n - 1])
    <3>. HIDE DEF next
    <3>. QED
      BY <2>4, <2>9, <2>10, Zenon
  <2>. QED
    BY <2>1, <2>11
<1>7. Doing(d, src, edits)
  <2>. DEFINE e(n) == IF n = 0 THEN src ELSE next(L + 1 - n, d[n - 1])
  <2>1. \A n \in 0 .. L : d[n] = e(n)
    <3>1. SUFFICES ASSUME NEW n \in 0 .. L PROVE d[n] = e(n)
      OBVIOUS
    <3>2. n = 0 \/ n \in 1 .. L
      BY <1>0
    <3>3. n \in 1 .. L => n # 0
      BY <1>0
    <3>. HIDE DEF next, d
    <3>. QED
      BY <1>5, <1>6, <3>2, <3>3, Zenon
  <2>2. d = [n \in 0 .. L |-> e(n)]
    <3>1. d = [n \in 0 .. L |-> d[n]]
      OBVIOUS
    <3>. HIDE DEF d, e
    <3>. QED
      BY <2>1, <3>1
  <2>. HIDE DEF d
  <2>. QED
    BY <2>2 DEF Doing, A, P, B
<1>. DEFINE c == CHOOSE x : Doing(x, src, edits)
<1>8. Doing(c, src, edits)
  <2>. HIDE DEF d
  <2>. QED
    BY <1>7
<1>. HIDE DEF c
<1>9. \A n \in 0 .. L : c[n] = IF n = 0 THEN src ELSE next(L + 1 - n, c[n - 1])
  BY <1>8 DEF Doing, A, P, B
<1>. HIDE DEF d, next
<1>10. \A n \in 0 .. L : c[n] = d[n]
  <2>. DEFINE S == {n \in 0 .. L : c[n] = d[n]}
  <2>1. 0 \in S
    <3>1. 0 \in 0 .. L
      BY <1>0
    <3>. QED
      BY <1>5, <1>9, <3>1
  <2>2. ASSUME NEW n \in 1 .. L, n - 1 \in S PROVE n \in S
    <3>1. c[n - 1] = d[n - 1] /\ n \in 0 .. L /\ n # 0
      BY <1>0, <2>2
    <3>2. c[n] = next(L + 1 - n, c[n - 1])
      BY <1>9, <3>1, Zenon
    <3>3. c[n] = d[n]
      BY <1>6, <3>1, <3>2, Zenon
    <3>. QED
      BY <3>1, <3>3
  <2>. HIDE DEF S
  <2>3. \A n \in 0 .. L : n \in S
    BY <1>0, <2>1, <2>2, UptoInduction
  <2>. QED
    BY <2>3 DEF S
<1>11. d[L] = r[0]
  <2>1. L \in 0 .. L /\ L - L = 0 /\ 0 \in 0 .. L
    BY <1>0
  <2>2. SubSeq(src, 1, 0) = <<>>
    OBVIOUS
  <2>3. r[0] \in Seq(T) /\ <<>> \o r[0] = r[0]
    BY <1>3, <2>1, ConcatEmptySeq
  <2>. QED
    BY <1>4, <2>1, <2>2, <2>3
<1>12. L \in 0 .. L
  BY <1>0
<1>. QED
  BY <1>3, <1>10, <1>11, <1>12, ByHandDoing, Zenon DEF c, lines

\* The edits by anchor are refused, or what a careful hand would have made.
LEMMA ApplyEditsByHand ==
    ASSUME NEW src \in Texts, NEW edits, edits \in Seq(Range(edits)),
           \A k \in DOMAIN edits : edits[k].text \in Texts,
           apply_edits(src, edits) # Refused
    PROVE  /\ apply_edits(src, edits) = ByHand(src, edits)
           /\ \A k \in DOMAIN edits : \E i \in DOMAIN src : Means(src, edits[k], i)
<1>1. /\ \A k \in DOMAIN edits : Resolve(src, edits[k]) # 0
      /\ apply_edits(src, edits) = FlattenSeq([i \in DOMAIN src |-> LineByHand(src, edits, i)])
  BY ApplyLines
<1>2. ByHand(src, edits) = FlattenSeq([i \in DOMAIN src |-> LineByHand(src, edits, i)])
  BY ByHandLines DEF Texts
<1>3. ASSUME NEW k \in DOMAIN edits PROVE \E i \in DOMAIN src : Means(src, edits[k], i)
  <2>1. Resolve(src, edits[k]) \in DOMAIN src
    BY <1>1, ResolveInFile, Zenon
  <2>. QED
    BY <2>1, ResolveMeans, Zenon
<1>. QED
  BY <1>1, <1>2, <1>3, Zenon

\* It holds lines of the file and of the edits.
LEMMA ApplyEditsType ==
    ASSUME NEW src \in Texts, NEW edits, edits \in Seq(Range(edits)),
           apply_edits(src, edits) # Refused,
           NEW R, src \in Seq(R), \A k \in DOMAIN edits : edits[k].text \in Seq(R)
    PROVE  apply_edits(src, edits) \in Seq(R)
<1>. DEFINE lines == [i \in DOMAIN src |-> LineByHand(src, edits, i)]
<1>1. apply_edits(src, edits) = FlattenSeq(lines)
  BY ApplyLines
<1>2. \A i \in DOMAIN src : LineByHand(src, edits, i) \in Seq(R)
  BY LineType
<1>3. DOMAIN src = 1 .. Len(src) /\ Len(src) \in Nat
  BY DEF Texts
<1>4. lines \in [1 .. Len(src) -> Seq(R)]
  BY <1>2, <1>3
<1>. HIDE DEF lines
<1>5. lines \in Seq(Seq(R))
  BY <1>3, <1>4
<1>. QED
  BY <1>1, <1>5, FlattenType

----------------------------------------------------------------------------
\* Replies of the batch's editor

\* The function by which apply_response is defined.
Applied(text, block) ==
  IF text = Refused THEN Refused
  ELSE IF Found(block.search, text) = {} THEN Refused
  ELSE Replaced({Smallest(Found(block.search, text))}, block.search, block.replace, text)

Applies(f, src, blocks) ==
  f = [n \in 0 .. Len(blocks) |-> IF n = 0 THEN src ELSE Applied(f[n - 1], blocks[n])]

\* What is made of a file holds lines of the file and of the reply.
LEMMA ResponseType ==
    ASSUME NEW R, NEW src \in Seq(R), NEW reply,
           apply_response(src, reply) # Refused,
           reply.text \in Seq(R), Len(reply.blocks) \in Nat,
           \A k \in 1 .. Len(reply.blocks) : reply.blocks[k].replace \in Seq(R)
    PROVE  apply_response(src, reply) \in Seq(R)
<1>. DEFINE blocks == reply.blocks
            n == Len(blocks)
            U == Seq(R) \cup {Refused}
            rule == [x \in (1 .. n) \X U |-> Applied(x[2], blocks[x[1]])]
            c == CHOOSE f : Applies(f, src, blocks)
<1>0. n \in Nat /\ src \in U
  OBVIOUS
<1>1. \A k \in 1 .. n, x \in U : Applied(x, blocks[k]) \in U
  <2>1. SUFFICES ASSUME NEW k \in 1 .. n, NEW x \in U, x # Refused, Found(blocks[k].search, x) # {}
                 PROVE  Applied(x, blocks[k]) \in Seq(R)
    BY DEF Applied
  <2>2. Replaced({Smallest(Found(blocks[k].search, x))}, blocks[k].search, blocks[k].replace, x) \in Seq(R)
    BY <2>1, ReplacedType
  <2>. QED
    BY <2>1, <2>2 DEF Applied
<1>2. \/ reply.kind # "error" /\ reply.kind = "whole" /\ apply_response(src, reply) = reply.text
      \/ apply_response(src, reply) = c[n]
  BY DEF apply_response, Applies, Applied
<1>. HIDE DEF c, n, U, blocks
<1>3. rule \in [(1 .. n) \X U -> U] /\ \A k \in 1 .. n, x \in U : rule[<<k, x>>] = Applied(x, blocks[k])
  BY <1>1
<1>. HIDE DEF rule
<1>4. PICK g : Iterates(g, U, src, rule, n)
  BY <1>0, <1>3, IteratesExists, Zenon
<1>5. g \in [0 .. n -> U] /\ g[0] = src /\ \A k \in 1 .. n : g[k] = rule[<<k, g[k - 1]>>]
  BY <1>4 DEF Iterates
<1>6. \A k \in 0 .. n : g[k] = IF k = 0 THEN src ELSE Applied(g[k - 1], blocks[k])
  <2>1. SUFFICES ASSUME NEW k \in 0 .. n, k # 0 PROVE g[k] = Applied(g[k - 1], blocks[k])
    BY <1>5
  <2>2. k \in 1 .. n /\ k - 1 \in 0 .. n
    BY <1>0, <2>1
  <2>3. g[k - 1] \in U
    BY <1>5, <2>2
  <2>. QED
    BY <1>3, <1>5, <2>2, <2>3, Zenon
<1>7. Applies(g, src, blocks)
  BY <1>5, <1>6 DEF Applies, n
<1>8. Applies(c, src, blocks)
  BY <1>7 DEF c
<1>9. \A k \in 0 .. n : c[k] = IF k = 0 THEN src ELSE Applied(c[k - 1], blocks[k])
  BY <1>8 DEF Applies, n
<1>10. \A k \in 0 .. n : c[k] \in U
  <2>. DEFINE S == {k \in 0 .. n : c[k] \in U}
  <2>1. 0 \in S
    BY <1>0, <1>9
  <2>2. ASSUME NEW k \in 1 .. n, k - 1 \in S PROVE k \in S
    <3>1. k \in 0 .. n /\ k # 0
      BY <1>0
    <3>2. c[k - 1] \in U
      BY <2>2
    <3>3. c[k] = Applied(c[k - 1], blocks[k])
      BY <1>9, <3>1, Zenon
    <3>4. c[k] \in U
      BY <1>1, <3>2, <3>3, Zenon
    <3>. QED
      BY <3>1, <3>4
  <2>. HIDE DEF S
  <2>3. \A k \in 0 .. n : k \in S
    BY <1>0, <2>1, <2>2, UptoInduction
  <2>. QED
    BY <2>3 DEF S
<1>11. c[n] \in U
  <2>1. n \in 0 .. n
    BY <1>0
  <2>. QED
    BY <1>10, <2>1
<1>. QED
  BY <1>2, <1>11 DEF U

\* The replies of the editor hold lines of the file, the mark and the marker.
LEMMA ReplyFacts ==
    ASSUME NEW R, NEW src \in Seq(R), NEW mark \in R, Marker \in R, NEW reply \in Replies(src, mark)
    PROVE  /\ reply.text \in Seq(R)
           /\ Len(reply.blocks) \in Nat
           /\ \A k \in 1 .. Len(reply.blocks) : reply.blocks[k].replace \in Seq(R)
<1>. DEFINE fine(r) == /\ r.text \in Seq(R)
                       /\ Len(r.blocks) \in Nat
                       /\ \A k \in 1 .. Len(r.blocks) : r.blocks[k].replace \in Seq(R)
<1>1. ASSUME NEW text \in Seq(R) PROVE fine(Whole(text))
  BY DEF Whole
<1>2. fine(Failed)
  BY DEF Failed
<1>3. ASSUME NEW s, NEW text \in Seq(R) PROVE fine(Blocks(<<[search |-> s, replace |-> text]>>))
  BY DEF Blocks
<1>4. /\ <<>> \in Seq(R) /\ Append(src, mark) \in Seq(R) /\ <<Marker, mark>> \in Seq(R) /\ <<mark>> \in Seq(R)
      /\ src # <<>> => <<mark, src[1]>> \in Seq(R)
  OBVIOUS
<1>5. \/ reply \in {Failed, Whole(<<>>), Whole(src), Whole(Append(src, mark)), Whole(<<Marker, mark>>),
                    Blocks(<<[search |-> <<Marker>>, replace |-> <<mark>>]>>)}
      \/ src # <<>> /\ reply = Blocks(<<[search |-> <<src[1]>>, replace |-> <<mark, src[1]>>]>>)
  BY DEF Replies
<1>6. fine(reply)
  <2>. HIDE DEF fine
  <2>1. CASE reply = Failed
    BY <1>2, <2>1
  <2>2. CASE reply \in {Whole(<<>>), Whole(src), Whole(Append(src, mark)), Whole(<<Marker, mark>>)}
    BY <1>1, <1>4, <2>2
  <2>3. CASE reply = Blocks(<<[search |-> <<Marker>>, replace |-> <<mark>>]>>)
    BY <1>3, <1>4, <2>3, Zenon
  <2>4. CASE src # <<>> /\ reply = Blocks(<<[search |-> <<src[1]>>, replace |-> <<mark, src[1]>>]>>)
    BY <1>3, <1>4, <2>4, Zenon
  <2>. QED
    BY <1>5, <2>1, <2>2, <2>3, <2>4
<1>. QED
  BY <1>6

----------------------------------------------------------------------------
\* What the calls write

\* The lines of a text, a mark, and the lines that are no marks.
LinesWith(src, mark) == Range(src) \cup {l \in DOMAIN Anchor : l \notin Marks \/ l = mark}

LEMMA LinesFacts ==
    ASSUME NEW src \in Texts, NEW mark \in Marks
    PROVE  /\ src \in Seq(LinesWith(src, mark))
           /\ Marker \in LinesWith(src, mark) /\ mark \in LinesWith(src, mark)
           /\ \A s \in Texts : Range(s) \cap Marks \subseteq {mark} => s \in Seq(LinesWith(src, mark))
           /\ \A s \in Seq(LinesWith(src, mark)) :
                s \in Texts /\ Range(s) \cap Marks \subseteq Range(src) \cup {mark}
<1>. DEFINE R == LinesWith(src, mark)
<1>1. Range(src) \subseteq DOMAIN Anchor /\ Range(src) \subseteq R
  BY RangeOfSeq DEF Texts, LinesWith
<1>2. src \in Seq(R)
  <2>1. src \in Seq(Range(src))
    BY SeqOfRange DEF Texts
  <2>. QED
    BY <1>1, <2>1
<1>3. Marker \in R /\ mark \in R
  BY EditsAssumption, MarksAssumption DEF LinesWith
<1>4. ASSUME NEW s \in Texts, Range(s) \cap Marks \subseteq {mark} PROVE s \in Seq(R)
  <2>1. s \in Seq(Range(s)) /\ Range(s) \subseteq DOMAIN Anchor
    BY SeqOfRange, RangeOfSeq DEF Texts
  <2>2. Range(s) \subseteq R
    BY <1>4, <2>1 DEF LinesWith
  <2>. QED
    BY <2>1, <2>2
<1>5. ASSUME NEW s \in Seq(R) PROVE s \in Texts /\ Range(s) \cap Marks \subseteq Range(src) \cup {mark}
  <2>1. Range(s) \subseteq R
    BY RangeOfSeq
  <2>2. R \subseteq DOMAIN Anchor
    BY <1>1 DEF LinesWith
  <2>3. s \in Texts
    <3>. HIDE DEF R
    <3>. QED
      BY <2>2 DEF Texts
  <2>. QED
    BY <2>1, <2>3 DEF LinesWith
<1>. QED
  BY <1>2, <1>3, <1>4, <1>5

LEMMA CallFacts ==
    ASSUME NEW c \in Calls
    PROVE  /\ c.tool \in {"write_file", "edit_files", "str_replace", "batch_edit"}
           /\ Len(c.files) \in Nat \ {0} /\ DOMAIN c.files = 1 .. Len(c.files)
           /\ \A i \in DOMAIN c.files : c.files[i].path \in Paths /\ c.files[i].mark \in Marks
           /\ c # None
  BY CallsAssumption, MarksAssumption

\* What a call that is no batch makes of a file: a text, and of marks it holds
\* the call's own and, but for write_file, those the file held.
LEMMA EditedFacts ==
    ASSUME NEW c \in Calls, c.tool # "batch_edit", NEW i \in DOMAIN c.files,
           NEW src \in Texts \cup {Absent}, Edited(c, c.files[i], src) # Refused
    PROVE  LET text == Edited(c, c.files[i], src)
               mark == c.files[i].mark
           IN  /\ text \in Texts
               /\ c.tool = "write_file" => Range(text) \cap Marks \subseteq {mark}
               /\ c.tool # "write_file" =>
                    src \in Texts /\ Range(text) \cap Marks \subseteq Range(src) \cup {mark}
<1>. DEFINE file == c.files[i]
            mark == file.mark
<1>1. /\ c.content \in Texts /\ c.new \in Texts /\ c.after \in Texts /\ c.before \in Texts
      /\ file.edits \in Seq(Range(file.edits))
      /\ \A k \in DOMAIN file.edits : file.edits[k].text \in Texts
  BY CallsAssumption
<1>2. /\ mark \in Marks
      /\ Range(c.content) \cap Marks \subseteq {mark} /\ Range(c.new) \cap Marks \subseteq {mark}
      /\ \A k \in DOMAIN file.edits : Range(file.edits[k].text) \cap Marks \subseteq {mark}
  BY MarksAssumption
<1>3. c.tool \in {"write_file", "edit_files", "str_replace"}
  BY CallFacts
<1>. HIDE DEF file, mark
<1>4. CASE c.tool = "write_file"
  <2>1. Edited(c, file, src) = c.content
    BY <1>4 DEF Edited
  <2>. QED
    BY <1>1, <1>2, <1>4, <2>1 DEF file, mark
<1>5. CASE c.tool # "write_file"
  <2>1. src # Absent /\ src \in Texts
    BY <1>5 DEF Edited, file
  <2>. DEFINE R == LinesWith(src, mark)
  <2>2. /\ src \in Seq(R) /\ c.new \in Seq(R)
        /\ \A k \in DOMAIN file.edits : file.edits[k].text \in Seq(R)
    BY <1>1, <1>2, <2>1, LinesFacts
  <2>3. Edited(c, file, src) \in Seq(R)
    <3>1. CASE c.tool = "edit_files"
      <4>1. Edited(c, file, src) = apply_edits(src, file.edits)
        BY <2>1, <3>1 DEF Edited
      <4>. HIDE DEF R
      <4>. QED
        BY <1>1, <2>1, <2>2, <4>1, ApplyEditsType DEF file
    <3>2. CASE c.tool = "str_replace"
      <4>1. Edited(c, file, src) = str_replace(src, c)
        BY <2>1, <3>2 DEF Edited
      <4>2. /\ src \in Seq(DOMAIN Anchor) /\ c.after \in Seq(DOMAIN Anchor) /\ c.before \in Seq(DOMAIN Anchor)
            /\ str_replace(src, c) # Refused
        BY <1>1, <2>1, <4>1 DEF Texts, file
      <4>. HIDE DEF R
      <4>3. str_replace(src, c) \in Seq(R)
        BY <2>2, <4>2, StrReplaceType
      <4>. QED
        BY <4>1, <4>3
    <3>. QED
      BY <1>3, <1>5, <3>1, <3>2
  <2>. QED
    BY <1>2, <1>5, <2>1, <2>3, LinesFacts DEF file, mark
<1>. QED
  BY <1>4, <1>5

\* What a batch makes of a file of a reply, be it to another file.
LEMMA ResponseFacts ==
    ASSUME NEW src \in Texts, NEW shown \in Texts, NEW mark \in Marks,
           NEW reply \in Replies(shown, mark), apply_response(src, reply) # Refused
    PROVE  /\ apply_response(src, reply) \in Texts
           /\ src = shown => Range(apply_response(src, reply)) \cap Marks \subseteq Range(src) \cup {mark}
<1>1. apply_response(src, reply) \in Texts
  <2>. DEFINE R == DOMAIN Anchor
  <2>1. src \in Seq(R) /\ shown \in Seq(R) /\ mark \in R /\ Marker \in R
    BY EditsAssumption DEF Texts
  <2>. HIDE DEF R
  <2>2. /\ reply.text \in Seq(R)
        /\ Len(reply.blocks) \in Nat
        /\ \A k \in 1 .. Len(reply.blocks) : reply.blocks[k].replace \in Seq(R)
    BY <2>1, ReplyFacts
  <2>3. apply_response(src, reply) \in Seq(R)
    BY <2>1, <2>2, ResponseType
  <2>. QED
    BY <2>3 DEF R, Texts
<1>2. ASSUME src = shown
      PROVE  Range(apply_response(src, reply)) \cap Marks \subseteq Range(src) \cup {mark}
  <2>. DEFINE R == LinesWith(src, mark)
  <2>1. src \in Seq(R) /\ shown \in Seq(R) /\ mark \in R /\ Marker \in R
    BY <1>2, LinesFacts
  <2>. HIDE DEF R
  <2>2. /\ reply.text \in Seq(R)
        /\ Len(reply.blocks) \in Nat
        /\ \A k \in 1 .. Len(reply.blocks) : reply.blocks[k].replace \in Seq(R)
    BY <2>1, ReplyFacts
  <2>3. apply_response(src, reply) \in Seq(R)
    BY <2>1, <2>2, ResponseType
  <2>. QED
    BY <2>3, LinesFacts DEF R
<1>. QED
  BY <1>1, <1>2

----------------------------------------------------------------------------
\* The invariants

Tasks == [custom_id : Nat, path : Paths, mark : Marks, original : Texts]

\* The variables are functions on the actors and the files.
Parts ==
  /\ pc \in [Actors -> {"idle", "read", "write", "fill", "polling", "apply"}]
  /\ call \in [Actors -> Calls \cup {None}]
  /\ at \in [Actors -> Nat]
  /\ put \in [Actors -> Texts]
  /\ got \in [Actors -> Texts \cup {Absent}]
  /\ tasks \in [Actors -> Seq(Tasks)]
  /\ results = [a \in Actors |-> results[a]]
  /\ polls \in [Actors -> 0 .. MaxPolls]

Shape ==
  /\ disk \in [Paths -> Texts \cup {Absent}]
  /\ Parts
  /\ calls \in 0 .. CallCap /\ fails \in 0 .. FailCap
  /\ said \in [Paths -> SUBSET Marks] /\ raced \subseteq Paths /\ torn \subseteq Paths

\* Where an actor is in its call.
Place(a) ==
  /\ pc[a] = "idle" <=> call[a] = None
  /\ pc[a] = "idle" => tasks[a] = <<>>
  /\ pc[a] # "idle" /\ ~Batch(a) =>
       pc[a] \in {"read", "write", "fill"} /\ at[a] \in DOMAIN call[a].files /\ tasks[a] = <<>>
  /\ pc[a] # "idle" /\ Batch(a) =>
       /\ pc[a] = "read" => at[a] \in DOMAIN call[a].files
       /\ pc[a] # "read" => at[a] \in DOMAIN tasks[a]
       /\ pc[a] = "polling" => at[a] = 1

LastPath(a) == call[a].files[Len(call[a].files)].path

\* A task's custom_id is its place among the tasks, or it is of the call's last
\* file; the tasks are those of entries before the n-th.
Ordered(ts, n, last) ==
  /\ \A k \in DOMAIN ts : /\ k <= ts[k].custom_id /\ ts[k].custom_id < n
                          /\ k < ts[k].custom_id => ts[k].path = last
  /\ \A j, k \in DOMAIN ts : j < k => ts[j].custom_id < ts[k].custom_id
  /\ Len(ts) < n

\* If an entry has been left out, those still to be read are of one file.
Numbered(a) ==
  NoneLeftOut /\ pc[a] # "idle" /\ Batch(a) =>
    /\ Ordered(tasks[a], IF pc[a] = "read" THEN at[a] ELSE Len(call[a].files) + 1, LastPath(a))
    /\ pc[a] = "read" /\ Len(tasks[a]) + 1 < at[a] =>
         \A k \in DOMAIN call[a].files : at[a] <= k => call[a].files[k].path = LastPath(a)

\* Each task gets a reply to itself, or is of a file with several tasks, if none
\* is left out; and a reply to some task always.
Answered(a) ==
  pc[a] \in {"apply", "write", "fill"} /\ Batch(a) =>
    \A k \in DOMAIN tasks[a] : \E j \in DOMAIN tasks[a] :
      /\ Item(a, k) \in Replies(tasks[a][j].original, tasks[a][j].mark)
      /\ NoneLeftOut => tasks[a][k].path \in raced \/ j = k

\* What is put is what the call makes of what was got.
Drafted(a) ==
  pc[a] \in {"write", "fill"} =>
    /\ ~Batch(a) => put[a] # Refused /\ put[a] = Edited(call[a], call[a].files[at[a]], got[a])
    /\ Batch(a) => got[a] = tasks[a][at[a]].original
    /\ NoneLeftOut /\ Batch(a) /\ tasks[a][at[a]].path \notin raced =>
         Range(put[a]) \cap Marks \subseteq Range(got[a]) \cup {tasks[a][at[a]].mark}

\* What Holding says, by places: of a batch the tasks, of other calls the file in hand.
Keeps(a) ==
  IF pc[a] = "idle" THEN {}
  ELSE IF Batch(a) THEN {k \in DOMAIN tasks[a] : pc[a] = "read" \/ at[a] <= k}
  ELSE IF pc[a] \in {"write", "fill"} THEN {at[a]} ELSE {}

KeptPath(a, k) == IF Batch(a) THEN tasks[a][k].path ELSE call[a].files[k].path
KeptText(a, k) == IF Batch(a) THEN tasks[a][k].original ELSE got[a]

\* Two edits that hold one file have made it a raced one.
Single ==
  \A a, b \in Actors : \A j \in Keeps(a), k \in Keeps(b) :
    a # b \/ j # k => KeptPath(a, j) # KeptPath(b, k) \/ KeptPath(a, j) \in raced

\* A file that is held by one edit is as it was read, or empty while it is written:
\* then what was read of it is what the reports said, if no write broke off in it.
Fresh ==
  \A a \in Actors : \A k \in Keeps(a) : LET p == KeptPath(a, k) IN p \notin raced =>
    IF pc[a] = "fill" /\ k = at[a]
      THEN /\ disk[p] = <<>>
           /\ NoneLeftOut /\ p \notin torn /\ call[a].tool # "write_file" =>
                Range(got[a]) \cap Marks = said[p]
      ELSE disk[p] = KeptText(a, k)

\* A file that is written is there.
There == \A a \in Actors : pc[a] = "fill" => disk[Target(a).path] # Absent

\* A file that is not there was not there to begin with.
NeverGone == \A p \in Paths : disk[p] = Absent => \E s \in Starts : s[p] = Absent

Own(a) == Place(a) /\ Numbered(a) /\ Answered(a) /\ Drafted(a)

IInv ==
  /\ Shape
  /\ \A a \in Actors : Own(a)
  /\ Single /\ Fresh /\ There /\ NeverGone
  /\ NoneLeftOut => ReportsAreTrue

----------------------------------------------------------------------------
\* Steps of one actor

\* What an actor's part of the state becomes.
Moves(a, p, c, n, x, y, t, r) ==
  /\ pc' = [pc EXCEPT ![a] = p]
  /\ call' = [call EXCEPT ![a] = c]
  /\ at' = [at EXCEPT ![a] = n]
  /\ put' = [put EXCEPT ![a] = x]
  /\ got' = [got EXCEPT ![a] = y]
  /\ tasks' = [tasks EXCEPT ![a] = t]
  /\ results' = [results EXCEPT ![a] = r]

Is(a, p, c, n, x, y, t, r) ==
  /\ pc'[a] = p /\ call'[a] = c /\ at'[a] = n /\ put'[a] = x /\ got'[a] = y
  /\ tasks'[a] = t /\ results'[a] = r

Stays(b) ==
  /\ pc'[b] = pc[b] /\ call'[b] = call[b] /\ at'[b] = at[b] /\ put'[b] = put[b] /\ got'[b] = got[b]
  /\ tasks'[b] = tasks[b] /\ results'[b] = results[b]

LEMMA MovesFacts ==
    ASSUME Shape, NEW a \in Actors, NEW p, NEW c, NEW n, NEW x, NEW y, NEW t, NEW r,
           Moves(a, p, c, n, x, y, t, r)
    PROVE  Is(a, p, c, n, x, y, t, r) /\ \A b \in Actors \ {a} : Stays(b)
<1>1. /\ DOMAIN pc = Actors /\ DOMAIN call = Actors /\ DOMAIN at = Actors /\ DOMAIN put = Actors
      /\ DOMAIN got = Actors /\ DOMAIN tasks = Actors /\ DOMAIN results = Actors
  BY DEF Shape, Parts
<1>. QED
  BY <1>1 DEF Moves, Is, Stays

LEMMA MovesParts ==
    ASSUME Shape, NEW a \in Actors, NEW p, NEW c, NEW n, NEW x, NEW y, NEW t, NEW r,
           Moves(a, p, c, n, x, y, t, r),
           p \in {"idle", "read", "write", "fill", "polling", "apply"},
           c \in Calls \cup {None}, n \in Nat, x \in Texts, y \in Texts \cup {Absent}, t \in Seq(Tasks),
           polls' \in [Actors -> 0 .. MaxPolls]
    PROVE  Parts'
<1>1. /\ pc' \in [Actors -> {"idle", "read", "write", "fill", "polling", "apply"}]
      /\ call' \in [Actors -> Calls \cup {None}]
      /\ at' \in [Actors -> Nat]
  BY DEF Shape, Parts, Moves
<1>2. put' \in [Actors -> Texts] /\ got' \in [Actors -> Texts \cup {Absent}]
  BY DEF Shape, Parts, Moves
<1>3. tasks' \in [Actors -> Seq(Tasks)]
  BY DEF Shape, Parts, Moves
<1>4. results' = [b \in Actors |-> results'[b]]
  BY DEF Shape, Parts, Moves
<1>. QED
  BY <1>1, <1>2, <1>3, <1>4 DEF Parts

LEMMA StaysItem ==
    ASSUME NEW b, Stays(b), NEW k
    PROVE  Item(b, k)' = Item(b, k)
  BY Zenon DEF Stays, Item

\* An actor that does not move is where it was.
LEMMA StaysOwn ==
    ASSUME NEW b \in Actors, Stays(b), raced \subseteq raced', Own(b)
    PROVE  Own(b)'
<1>1. /\ pc'[b] = pc[b] /\ call'[b] = call[b] /\ at'[b] = at[b] /\ put'[b] = put[b] /\ got'[b] = got[b]
      /\ tasks'[b] = tasks[b]
      /\ (Batch(b))' = Batch(b)
  BY DEF Stays, Batch
<1>2. Place(b)'
  BY <1>1 DEF Own, Place, Batch
<1>3. Numbered(b)'
  BY <1>1, Zenon DEF Own, Numbered, Batch, LastPath
<1>4. Answered(b)'
  <2>1. \A k : Item(b, k)' = Item(b, k)
    BY StaysItem
  <2>2. Answered(b)
    BY DEF Own
  <2>. QED
    BY <1>1, <2>1, <2>2 DEF Answered, Batch
<1>5. Drafted(b)'
  BY <1>1 DEF Own, Drafted, Batch
<1>. QED
  BY <1>2, <1>3, <1>4, <1>5 DEF Own

LEMMA StaysKeeps ==
    ASSUME NEW b, Stays(b)
    PROVE  /\ Keeps(b)' = Keeps(b)
           /\ \A k : KeptPath(b, k)' = KeptPath(b, k) /\ KeptText(b, k)' = KeptText(b, k)
<1>1. /\ pc'[b] = pc[b] /\ call'[b] = call[b] /\ at'[b] = at[b] /\ got'[b] = got[b]
      /\ tasks'[b] = tasks[b]
  BY DEF Stays
<1>2. Keeps(b)' = Keeps(b)
  BY <1>1 DEF Keeps, Batch
<1>3. \A k : KeptPath(b, k)' = KeptPath(b, k)
  BY <1>1 DEF KeptPath, Batch
<1>4. \A k : KeptText(b, k)' = KeptText(b, k)
  BY <1>1 DEF KeptText, Batch
<1>. QED
  BY <1>2, <1>3, <1>4

\* The path of what is kept is a path.
LEMMA KeptFacts ==
    ASSUME Shape, NEW a \in Actors, Place(a), NEW k \in Keeps(a)
    PROVE  KeptPath(a, k) \in Paths /\ k \in Nat /\ (Batch(a) => tasks[a][k] \in Tasks)
<1>1. pc[a] # "idle" /\ call[a] \in Calls
  BY DEF Keeps, Place, Shape, Parts
<1>2. CASE Batch(a)
  <2>1. k \in DOMAIN tasks[a] /\ tasks[a] \in Seq(Tasks)
    BY <1>1, <1>2 DEF Keeps, Shape, Parts
  <2>2. k \in Nat /\ tasks[a][k] \in Tasks
    BY <2>1
  <2>. QED
    BY <1>2, <2>2 DEF KeptPath, Tasks
<1>3. CASE ~Batch(a)
  <2>1. k = at[a] /\ at[a] \in DOMAIN call[a].files /\ at[a] \in Nat
    BY <1>1, <1>3 DEF Keeps, Place, Shape, Parts
  <2>. QED
    BY <1>1, <1>3, <2>1, CallFacts DEF KeptPath
<1>. QED
  BY <1>2, <1>3

\* What is kept is held.
LEMMA KeptIsHeld ==
    ASSUME Shape, NEW a \in Actors, Place(a), NEW k \in Keeps(a)
    PROVE  LET i == IF ~Batch(a) THEN 1 ELSE IF pc[a] = "read" THEN k ELSE k - at[a] + 1 IN
             i \in DOMAIN Holding(a) /\ Holding(a)[i].path = KeptPath(a, k)
<1>1. pc[a] # "idle" /\ call[a] # None
  BY DEF Keeps, Place
<1>2. CASE ~Batch(a)
  <2>1. pc[a] \in {"write", "fill"} /\ k = at[a]
    BY <1>1, <1>2 DEF Keeps
  <2>2. Holding(a) = <<call[a].files[at[a]]>>
    BY <1>1, <1>2, <2>1 DEF Holding, Target
  <2>. QED
    BY <1>2, <2>1, <2>2 DEF KeptPath
<1>3. CASE Batch(a) /\ pc[a] = "read"
  BY <1>1, <1>3 DEF Holding, Keeps, KeptPath
<1>4. CASE Batch(a) /\ pc[a] # "read"
  <2>1. Holding(a) = SubSeq(tasks[a], at[a], Len(tasks[a]))
    BY <1>1, <1>4, Zenon DEF Holding
  <2>2. /\ tasks[a] \in Seq(Tasks) /\ at[a] \in Nat /\ at[a] \in DOMAIN tasks[a]
        /\ k \in DOMAIN tasks[a] /\ at[a] <= k
    BY <1>1, <1>4 DEF Keeps, Place, Shape, Parts
  <2>. DEFINE ts == tasks[a]
              n == at[a]
              rest == SubSeq(ts, n, Len(ts))
  <2>3. ts \in Seq(Tasks) /\ n \in 1 .. Len(ts) /\ k \in n .. Len(ts) /\ Len(ts) \in Nat
    BY <2>2
  <2>. HIDE DEF ts, n
  <2>4. \A i \in n .. Len(ts) : ts[i] \in Tasks
    BY <2>3
  <2>5. /\ rest \in Seq(Tasks) /\ Len(rest) = Len(ts) - n + 1
        /\ \A i \in 1 .. Len(ts) - n + 1 : rest[i] = ts[n + i - 1]
    <3>1. n \in Int /\ Len(ts) \in Int
      BY <2>3
    <3>2. /\ rest \in Seq(Tasks)
          /\ Len(rest) = IF n <= Len(ts) THEN Len(ts) - n + 1 ELSE 0
          /\ \A i \in 1 .. Len(ts) - n + 1 : rest[i] = ts[n + i - 1]
      BY <2>4, <3>1, SubSeqProperties
    <3>. HIDE DEF rest
    <3>. QED
      BY <2>3, <3>2
  <2>. HIDE DEF rest
  <2>6. k - n + 1 \in 1 .. Len(rest) /\ DOMAIN rest = 1 .. Len(rest) /\ n + (k - n + 1) - 1 = k
    BY <2>3, <2>5
  <2>7. rest[k - n + 1] = ts[k]
    BY <2>5, <2>6
  <2>. QED
    BY <1>4, <2>1, <2>6, <2>7 DEF KeptPath, ts, n, rest
<1>. QED
  BY <1>2, <1>3, <1>4

\* Those who hold one file contend for it.
LEMMA KeptContended ==
    ASSUME Shape, NEW a \in Actors, Place(a), NEW b \in Actors, Place(b),
           NEW j \in Keeps(a), NEW k \in Keeps(b), a # b \/ j # k, KeptPath(a, j) = KeptPath(b, k)
    PROVE  KeptPath(a, j) \in Contended
<1>1. PICK i : /\ i \in DOMAIN Holding(a) /\ Holding(a)[i].path = KeptPath(a, j)
               /\ i = IF ~Batch(a) THEN 1 ELSE IF pc[a] = "read" THEN j ELSE j - at[a] + 1
  BY KeptIsHeld
<1>2. PICK l : /\ l \in DOMAIN Holding(b) /\ Holding(b)[l].path = KeptPath(b, k)
               /\ l = IF ~Batch(b) THEN 1 ELSE IF pc[b] = "read" THEN k ELSE k - at[b] + 1
  BY KeptIsHeld
<1>3. <<a, i>> # <<b, l>>
  <2>1. SUFFICES ASSUME a = b, j # k PROVE i # l
    OBVIOUS
  <2>2. j \in Nat /\ k \in Nat /\ at[a] \in Nat
    BY KeptFacts DEF Shape, Parts
  <2>3. ~Batch(a) => j = at[a] /\ k = at[a]
    BY <2>1 DEF Keeps
  <2>. QED
    BY <1>1, <1>2, <2>1, <2>2, <2>3
<1>4. KeptPath(a, j) \in Paths
  BY KeptFacts
<1>. QED
  BY <1>1, <1>2, <1>3, <1>4, Zenon DEF Contended

AllContended ==
  Shape /\ (\A a \in Actors : Place(a)) =>
    \A a, b \in Actors : \A j \in Keeps(a), k \in Keeps(b) :
      (a # b \/ j # k) /\ KeptPath(a, j) = KeptPath(b, k) => KeptPath(a, j) \in Contended

LEMMA KeptAllContended == AllContended
  BY KeptContended, Zenon DEF AllContended

\* Whoever holds a file that another edit holds has raced for it.
LEMMA StepSingle ==
    ASSUME Shape', \A a \in Actors : Place(a)', Observe
    PROVE  Single'
<1>1. AllContended'
  BY KeptAllContended, PTL
<1>2. Contended' \subseteq raced'
  BY DEF Observe
<1>. QED
  BY <1>1, <1>2, Zenon DEF AllContended, Single

----------------------------------------------------------------------------
\* The answers of a job

\* An item answers one of the job's tasks.
LEMMA ItemsFacts ==
    ASSUME NEW ts \in Seq(Tasks), NEW items \in Items(ts)
    PROVE  /\ DOMAIN items \subseteq Nat
           /\ \A i \in DOMAIN items : \E j \in DOMAIN ts :
                /\ items[i].custom_id = ts[j].custom_id
                /\ items[i].reply \in Replies(ts[j].original, ts[j].mark)
<1>. DEFINE item(t) == {[custom_id |-> t.custom_id, reply |-> r] : r \in Replies(t.original, t.mark)}
            all == UNION {item(ts[k]) : k \in DOMAIN ts}
            ended(order) == {s \in [DOMAIN order -> all] : \A k \in DOMAIN order : s[k] \in item(ts[order[k]])}
<1>1. PICK order \in SetToAllKPermutations(DOMAIN ts) : items \in ended(order)
  BY Zenon DEF Items
<1>2. PICK S \in SUBSET DOMAIN ts : order \in SetToSeqs(S)
  BY <1>1, Zenon DEF SetToAllKPermutations
<1>3. order \in [1 .. Cardinality(S) -> S]
  BY <1>2, Zenon DEF SetToSeqs
<1>4. DOMAIN items = 1 .. Cardinality(S) /\ \A i \in DOMAIN items : items[i] \in item(ts[order[i]])
  BY <1>1, <1>3
<1>5. Cardinality(S) \in Nat
  <2>1. DOMAIN ts = 1 .. Len(ts) /\ Len(ts) \in Nat
    OBVIOUS
  <2>2. IsFiniteSet(DOMAIN ts)
    BY <2>1, FS_Interval
  <2>3. IsFiniteSet(S)
    BY <1>2, <2>2, FS_Subset
  <2>. QED
    BY <2>3, FS_CardinalityType
<1>6. ASSUME NEW i \in DOMAIN items
      PROVE  \E j \in DOMAIN ts : /\ items[i].custom_id = ts[j].custom_id
                                  /\ items[i].reply \in Replies(ts[j].original, ts[j].mark)
  <2>1. order[i] \in DOMAIN ts
    BY <1>2, <1>3, <1>4
  <2>2. items[i] \in item(ts[order[i]])
    BY <1>4
  <2>3. PICK r \in Replies(ts[order[i]].original, ts[order[i]].mark) :
          items[i] = [custom_id |-> ts[order[i]].custom_id, reply |-> r]
    BY <2>2
  <2>. QED
    BY <2>1, <2>3
<1>. QED
  BY <1>4, <1>5, <1>6

\* Each task's item answers the task, or the file has several tasks.
LEMMA JobAnswers ==
    ASSUME NEW a \in Actors, Shape, Numbered(a), pc[a] = "polling", Batch(a),
           NEW items \in Items(tasks[a]), results'[a] = items,
           NEW k \in DOMAIN tasks[a]
    PROVE  \E j \in DOMAIN tasks[a] :
             /\ Item(a, k)' \in Replies(tasks[a][j].original, tasks[a][j].mark)
             /\ NoneLeftOut => j = k \/ tasks[a][j].path = tasks[a][k].path
<1>. DEFINE ts == tasks[a]
            those == {i \in DOMAIN items : items[i].custom_id = k}
<1>0. ts \in Seq(Tasks)
  BY DEF Shape, Parts
<1>1. Item(a, k)' = IF those = {} THEN Failed ELSE items[Smallest(those)].reply
  BY Zenon DEF Item
<1>2. /\ DOMAIN items \subseteq Nat
      /\ \A i \in DOMAIN items : \E j \in DOMAIN ts :
           items[i].custom_id = ts[j].custom_id /\ items[i].reply \in Replies(ts[j].original, ts[j].mark)
  BY <1>0, ItemsFacts
<1>3. CASE those = {}
  <2>1. Failed \in Replies(ts[k].original, ts[k].mark)
    BY DEF Replies
  <2>. QED
    BY <1>1, <1>3, <2>1
<1>4. CASE those # {}
  <2>. DEFINE i == Smallest(those)
  <2>1. i \in DOMAIN items /\ items[i].custom_id = k
    <3>1. those \subseteq Nat
      BY <1>2
    <3>2. Smallest(those) \in those
      <4>. HIDE DEF those
      <4>. QED
        BY <1>4, <3>1, LeastNumber
    <3>. QED
      BY <3>2
  <2>. HIDE DEF i
  <2>2. PICK j \in DOMAIN ts : k = ts[j].custom_id /\ items[i].reply \in Replies(ts[j].original, ts[j].mark)
    BY <1>2, <2>1
  <2>3. Item(a, k)' = items[i].reply
    BY <1>1, <1>4 DEF i
  <2>4. ASSUME NoneLeftOut
        PROVE  /\ j <= k
               /\ j < k => ts[j].path = LastPath(a)
               /\ j < k => k < ts[k].custom_id
               /\ k < ts[k].custom_id => ts[k].path = LastPath(a)
    <3>1. /\ \A m \in DOMAIN ts : /\ m <= ts[m].custom_id
                                  /\ m < ts[m].custom_id => ts[m].path = LastPath(a)
          /\ \A m, n \in DOMAIN ts : m < n => ts[m].custom_id < ts[n].custom_id
      BY <2>4 DEF Numbered, Ordered
    <3>. QED
      BY <2>2, <3>1
  <2>5. NoneLeftOut => j = k \/ ts[j].path = ts[k].path
    <3>1. j \in Nat /\ k \in Nat
      BY <1>0
    <3>. QED
      BY <2>4, <3>1
  <2>. QED
    BY <2>2, <2>3, <2>5
<1>. QED
  BY <1>3, <1>4

----------------------------------------------------------------------------
\* The end of a call, and the next file

\* A step leaves the variables what they are, and its actor in its place.
Moved(a) == Parts' /\ Own(a)' /\ \A b \in Actors \ {a} : Stays(b)

\* Of what an actor holds it lets at least what it has in hand go.
LetsGo(a) ==
  /\ pc'[a] \notin {"write", "fill"}
  /\ \A k \in Keeps(a)' : /\ k \in Keeps(a) /\ k # at[a]
                          /\ KeptPath(a, k)' = KeptPath(a, k) /\ KeptText(a, k)' = KeptText(a, k)

LEMMA IdleStep ==
    ASSUME Shape, NEW a \in Actors, Idle(a)
    PROVE  Moved(a) /\ Keeps(a)' = {} /\ LetsGo(a)
<1>1. Moves(a, "idle", None, 0, <<>>, <<>>, <<>>, <<>>)
  BY DEF Idle, Moves
<1>2. Is(a, "idle", None, 0, <<>>, <<>>, <<>>, <<>>) /\ \A b \in Actors \ {a} : Stays(b)
  BY <1>1, MovesFacts
<1>3. polls' \in [Actors -> 0 .. MaxPolls]
  BY EditsAssumption DEF Shape, Parts, Idle
<1>4. Parts'
  <2>1. <<>> \in Texts /\ <<>> \in Seq(Tasks)
    BY DEF Texts
  <2>. QED
    BY <1>1, <1>3, <2>1, MovesParts
<1>5. pc'[a] = "idle" /\ call'[a] = None /\ tasks'[a] = <<>>
  BY <1>2 DEF Is
<1>6. Own(a)'
  BY <1>5 DEF Own, Place, Numbered, Answered, Drafted
<1>7. Keeps(a)' = {}
  BY <1>5 DEF Keeps
<1>. QED
  BY <1>2, <1>4, <1>5, <1>6, <1>7 DEF Moved, LetsGo

LEMMA AdvanceStep ==
    ASSUME Shape, NEW a \in Actors, Own(a), raced \subseteq raced', Advance(a),
           pc[a] \in {"read", "apply", "write", "fill"}, pc[a] = "read" => ~Batch(a)
    PROVE  Moved(a) /\ LetsGo(a)
<1>. DEFINE last == IF Batch(a) THEN Len(tasks[a]) ELSE Len(call[a].files)
            next == IF Batch(a) THEN "apply" ELSE "read"
<1>0. call[a] \in Calls /\ at[a] \in Nat /\ pc[a] # "idle" /\ tasks[a] \in Seq(Tasks)
  BY DEF Own, Place, Shape, Parts
<1>1. CASE Idle(a)
  BY <1>1, IdleStep
<1>2. CASE /\ at[a] < last
           /\ at' = [at EXCEPT ![a] = @ + 1]
           /\ pc' = [pc EXCEPT ![a] = next]
           /\ UNCHANGED <<call, put, got, job>>
  <2>1. Moves(a, next, call[a], at[a] + 1, put[a], got[a], tasks[a], results[a])
    BY <1>2 DEF Moves, job, Shape, Parts
  <2>2. Is(a, next, call[a], at[a] + 1, put[a], got[a], tasks[a], results[a]) /\ \A b \in Actors \ {a} : Stays(b)
    BY <2>1, MovesFacts
  <2>3. Parts'
    <3>1. polls' \in [Actors -> 0 .. MaxPolls]
      BY <1>2 DEF job, Shape, Parts
    <3>2. /\ next \in {"idle", "read", "write", "fill", "polling", "apply"}
          /\ call[a] \in Calls \cup {None} /\ at[a] + 1 \in Nat /\ put[a] \in Texts
          /\ got[a] \in Texts \cup {Absent} /\ tasks[a] \in Seq(Tasks)
      BY <1>0 DEF Shape, Parts
    <3>. QED
      BY <2>1, <3>1, <3>2, MovesParts
  <2>4. /\ pc'[a] = next /\ call'[a] = call[a] /\ at'[a] = at[a] + 1 /\ got'[a] = got[a]
        /\ tasks'[a] = tasks[a] /\ results'[a] = results[a]
        /\ (Batch(a))' = Batch(a)
    BY <2>2 DEF Is, Batch
  <2>5. Place(a)'
    <3>1. at[a] + 1 \in 1 .. last
      BY <1>0, <1>2, CallFacts
    <3>2. Batch(a) => DOMAIN tasks'[a] = 1 .. last
      BY <1>0, <2>4
    <3>3. ~Batch(a) => DOMAIN call'[a].files = 1 .. last /\ tasks'[a] = <<>>
      BY <1>0, <2>4, CallFacts DEF Own, Place
    <3>4. call'[a] # None
      BY <1>0, <2>4, CallFacts
    <3>. QED
      BY <2>4, <3>1, <3>2, <3>3, <3>4 DEF Place
  <2>6. Numbered(a)'
    <3>1. Batch(a) => pc'[a] = "apply"
      BY <2>4
    <3>2. Numbered(a)
      BY DEF Own
    <3>. QED
      BY <1>0, <2>4, <3>1, <3>2, Zenon DEF Numbered, LastPath
  <2>7. Answered(a)'
    <3>1. \A k : Item(a, k)' = Item(a, k)
      BY <2>4, Zenon DEF Item
    <3>2. Answered(a) /\ (Batch(a) => pc[a] \in {"apply", "write", "fill"})
      BY DEF Own
    <3>. QED
      BY <2>4, <3>1, <3>2 DEF Answered
  <2>8. Drafted(a)'
    BY <2>4 DEF Drafted
  <2>9. LetsGo(a)
    <3>1. pc'[a] \notin {"write", "fill"}
      BY <2>4
    <3>2. ASSUME NEW k \in Keeps(a)' PROVE k \in Keeps(a) /\ k # at[a]
      <4>1. Batch(a)
        BY <2>4, <3>1 DEF Keeps
      <4>2. k \in DOMAIN tasks[a] /\ at[a] + 1 <= k
        BY <2>4, <4>1 DEF Keeps
      <4>3. k \in Nat /\ at[a] <= k /\ k # at[a]
        BY <1>0, <4>2
      <4>. QED
        BY <1>0, <4>1, <4>2, <4>3 DEF Keeps
    <3>3. \A k : KeptPath(a, k)' = KeptPath(a, k) /\ KeptText(a, k)' = KeptText(a, k)
      BY <2>4 DEF KeptPath, KeptText
    <3>. QED
      BY <3>1, <3>2, <3>3 DEF LetsGo
  <2>. QED
    BY <2>2, <2>3, <2>5, <2>6, <2>7, <2>8, <2>9 DEF Moved, Own
<1>. QED
  BY <1>1, <1>2 DEF Advance

----------------------------------------------------------------------------
\* Steps that leave the files alone

\* What the actor holds after the step it held before, or has just read.
Quiet(a) ==
  /\ disk' = disk /\ said' = said /\ torn' = torn
  /\ pc[a] # "fill" /\ pc'[a] # "fill"
  /\ \A k \in Keeps(a)' :
       \/ k \in Keeps(a) /\ KeptPath(a, k)' = KeptPath(a, k) /\ KeptText(a, k)' = KeptText(a, k)
       \/ disk[KeptPath(a, k)'] = KeptText(a, k)'

LEMMA StartStep ==
    ASSUME Shape, NEW a \in Actors, Own(a), raced \subseteq raced', Start(a)
    PROVE  Moved(a) /\ Quiet(a)
<1>1. PICK c \in Calls : call' = [call EXCEPT ![a] = c]
  BY DEF Start
<1>2. Moves(a, "read", c, 1, put[a], got[a], tasks[a], results[a])
  BY <1>1 DEF Start, Moves, job, Shape, Parts
<1>3. Is(a, "read", c, 1, put[a], got[a], tasks[a], results[a]) /\ \A b \in Actors \ {a} : Stays(b)
  BY <1>2, MovesFacts
<1>4. tasks[a] = <<>> /\ pc[a] = "idle"
  BY DEF Start, Own, Place
<1>5. pc'[a] = "read" /\ call'[a] = c /\ at'[a] = 1 /\ tasks'[a] = <<>>
  BY <1>3, <1>4 DEF Is
<1>6. Parts'
  <2>1. polls' \in [Actors -> 0 .. MaxPolls]
    BY DEF Start, job, Shape, Parts
  <2>2. put[a] \in Texts /\ got[a] \in Texts \cup {Absent} /\ tasks[a] \in Seq(Tasks)
    BY DEF Shape, Parts
  <2>. QED
    BY <1>2, <2>1, <2>2, MovesParts
<1>7. 1 \in DOMAIN c.files /\ c # None
  BY CallFacts
<1>8. Own(a)'
  <2>1. Place(a)'
    BY <1>5, <1>7 DEF Place, Batch
  <2>2. Numbered(a)'
    BY <1>5 DEF Numbered, Ordered, Batch
  <2>3. Answered(a)' /\ Drafted(a)'
    BY <1>5 DEF Answered, Drafted
  <2>. QED
    BY <2>1, <2>2, <2>3 DEF Own
<1>9. Keeps(a)' = {}
  BY <1>5 DEF Keeps, Batch
<1>. QED
  BY <1>3, <1>4, <1>5, <1>6, <1>8, <1>9 DEF Moved, Quiet, Start

LEMMA LetsGoQuiet ==
    ASSUME NEW a, LetsGo(a), pc[a] # "fill", UNCHANGED <<disk, said, torn>>
    PROVE  Quiet(a)
  BY DEF LetsGo, Quiet

\* A text is computed, and will be written.
LEMMA PutStep ==
    ASSUME Shape, NEW a \in Actors, NEW src \in Texts \cup {Absent}, NEW text \in Texts,
           put' = [put EXCEPT ![a] = text],
           got' = [got EXCEPT ![a] = src],
           pc' = [pc EXCEPT ![a] = "write"],
           UNCHANGED <<call, at, job>>
    PROVE  /\ Is(a, "write", call[a], at[a], text, src, tasks[a], results[a])
           /\ \A b \in Actors \ {a} : Stays(b)
           /\ Parts'
<1>1. Moves(a, "write", call[a], at[a], text, src, tasks[a], results[a])
  BY DEF Moves, job, Shape, Parts
<1>2. /\ polls' \in [Actors -> 0 .. MaxPolls]
      /\ call[a] \in Calls \cup {None} /\ at[a] \in Nat /\ tasks[a] \in Seq(Tasks)
  BY DEF job, Shape, Parts
<1>. QED
  BY <1>1, <1>2, MovesFacts, MovesParts

LEMMA ReadStep ==
    ASSUME Shape, NEW a \in Actors, Own(a), raced \subseteq raced', Read(a)
    PROVE  Moved(a) /\ Quiet(a)
<1>. DEFINE file == call[a].files[at[a]]
            src == disk[file.path]
            text == Edited(call[a], file, src)
<1>1. pc[a] = "read" /\ ~Batch(a) /\ Target(a) = file /\ UNCHANGED <<disk, said, torn>>
  BY DEF Read, Target
<1>2. call[a] \in Calls /\ call[a].tool # "batch_edit" /\ at[a] \in DOMAIN call[a].files
  BY <1>1 DEF Own, Place, Shape, Parts, Batch
<1>3. src \in Texts \cup {Absent}
  BY <1>2, CallFacts DEF Shape
<1>4. CASE Advance(a)
  <2>1. Moved(a) /\ LetsGo(a)
    BY <1>1, <1>4, AdvanceStep
  <2>. QED
    BY <1>1, <2>1, LetsGoQuiet
<1>5. CASE /\ text # Refused
           /\ put' = [put EXCEPT ![a] = text]
           /\ got' = [got EXCEPT ![a] = src]
           /\ pc' = [pc EXCEPT ![a] = "write"]
           /\ UNCHANGED <<call, at, job>>
  <2>1. text \in Texts
    BY <1>2, <1>3, <1>5, EditedFacts
  <2>. HIDE DEF text, src
  <2>2. /\ Is(a, "write", call[a], at[a], text, src, tasks[a], results[a])
        /\ \A b \in Actors \ {a} : Stays(b)
        /\ Parts'
    BY <1>3, <1>5, <2>1, PutStep
  <2>3. /\ pc'[a] = "write" /\ call'[a] = call[a] /\ at'[a] = at[a] /\ put'[a] = text /\ got'[a] = src
        /\ tasks'[a] = tasks[a] /\ ~(Batch(a))' /\ call[a] # None
    BY <1>1, <1>2, <2>2, CallFacts DEF Is, Batch
  <2>4. Place(a)'
    BY <1>1, <1>2, <2>3 DEF Own, Place
  <2>5. Numbered(a)' /\ Answered(a)'
    BY <2>3 DEF Numbered, Answered
  <2>6. Drafted(a)'
    BY <1>5, <2>3 DEF Drafted, text
  <2>7. Keeps(a)' = {at[a]}
    BY <2>3 DEF Keeps
  <2>8. KeptPath(a, at[a])' = file.path /\ KeptText(a, at[a])' = src
    BY <2>3 DEF KeptPath, KeptText
  <2>9. Quiet(a)
    BY <1>1, <2>3, <2>7, <2>8 DEF Quiet, src
  <2>. QED
    BY <2>2, <2>4, <2>5, <2>6, <2>9 DEF Moved, Own
<1>. QED
  BY <1>1, <1>4, <1>5 DEF Read, Prepare

LEMMA ApplyStep ==
    ASSUME Shape, NEW a \in Actors, Own(a), raced \subseteq raced', Apply(a)
    PROVE  Moved(a) /\ Quiet(a)
<1>. DEFINE task == tasks[a][at[a]]
            src == task.original
            text == apply_response(src, Item(a, at[a]))
<1>1. pc[a] = "apply" /\ Batch(a) /\ Target(a) = task /\ UNCHANGED <<disk, said, torn>>
  BY DEF Apply, Target, Own, Place
<1>2. call[a] \in Calls /\ call[a] # None /\ at[a] \in DOMAIN tasks[a] /\ tasks[a] \in Seq(Tasks)
  BY <1>1 DEF Own, Place, Shape, Parts
<1>3. task \in Tasks /\ src \in Texts
  <2>1. task \in Tasks
    BY <1>2
  <2>. QED
    BY <2>1 DEF Tasks
<1>4. CASE Advance(a)
  <2>1. Moved(a) /\ LetsGo(a)
    BY <1>1, <1>4, AdvanceStep
  <2>. QED
    BY <1>1, <2>1, LetsGoQuiet
<1>5. CASE /\ text # Refused
           /\ put' = [put EXCEPT ![a] = text]
           /\ got' = [got EXCEPT ![a] = src]
           /\ pc' = [pc EXCEPT ![a] = "write"]
           /\ UNCHANGED <<call, at, job>>
  <2>1. PICK j \in DOMAIN tasks[a] : /\ Item(a, at[a]) \in Replies(tasks[a][j].original, tasks[a][j].mark)
                                     /\ NoneLeftOut => task.path \in raced \/ j = at[a]
    BY <1>1, <1>2 DEF Own, Answered
  <2>2. tasks[a][j].original \in Texts /\ tasks[a][j].mark \in Marks
    <3>1. tasks[a][j] \in Tasks
      BY <1>2
    <3>. QED
      BY <3>1 DEF Tasks
  <2>3. /\ text \in Texts
        /\ NoneLeftOut /\ task.path \notin raced => Range(text) \cap Marks \subseteq Range(src) \cup {task.mark}
    BY <1>3, <1>5, <2>1, <2>2, ResponseFacts
  <2>. HIDE DEF text, src
  <2>4. /\ Is(a, "write", call[a], at[a], text, src, tasks[a], results[a])
        /\ \A b \in Actors \ {a} : Stays(b)
        /\ Parts'
    BY <1>3, <1>5, <2>3, PutStep
  <2>5. /\ pc'[a] = "write" /\ call'[a] = call[a] /\ at'[a] = at[a] /\ put'[a] = text /\ got'[a] = src
        /\ tasks'[a] = tasks[a] /\ results'[a] = results[a] /\ (Batch(a))'
    BY <1>1, <2>4 DEF Is, Batch
  <2>6. Place(a)'
    BY <1>1, <1>2, <2>5 DEF Place
  <2>7. Numbered(a)'
    <3>1. Numbered(a)
      BY DEF Own
    <3>. QED
      BY <1>1, <2>5, <3>1 DEF Numbered, LastPath
  <2>8. Answered(a)'
    <3>1. \A k : Item(a, k)' = Item(a, k)
      BY <2>5, Zenon DEF Item
    <3>2. Answered(a)
      BY DEF Own
    <3>. QED
      BY <1>1, <2>5, <3>1, <3>2 DEF Answered
  <2>9. Drafted(a)'
    BY <2>3, <2>5 DEF Drafted, src
  <2>10. Quiet(a)
    <3>1. \A k : KeptPath(a, k)' = KeptPath(a, k) /\ KeptText(a, k)' = KeptText(a, k)
      BY <1>1, <2>5 DEF KeptPath, KeptText
    <3>2. Keeps(a)' = Keeps(a)
      BY <1>1, <2>5 DEF Keeps
    <3>. QED
      BY <1>1, <2>5, <3>1, <3>2 DEF Quiet
  <2>. QED
    BY <2>4, <2>6, <2>7, <2>8, <2>9, <2>10 DEF Moved, Own
<1>. QED
  BY <1>1, <1>4, <1>5 DEF Apply, Prepare, ItemOf

\* No batch goes on without a file: after one that is not there all are the same.
LEMMA GapFacts ==
    ASSUME NoneLeftOut, NeverGone, NEW c \in Calls, c.tool = "batch_edit",
           NEW i \in DOMAIN c.files, disk[c.files[i].path] = Absent,
           NEW k \in DOMAIN c.files, i < k
    PROVE  c.files[k].path = c.files[Len(c.files)].path
<1>1. DOMAIN c.files = 1 .. Len(c.files) /\ Len(c.files) \in Nat /\ c.files[i].path \in Paths
  BY CallFacts
<1>2. PICK s \in Starts : s[c.files[i].path] = Absent
  BY <1>1 DEF NeverGone
<1>3. Len(c.files) \in DOMAIN c.files /\ i < Len(c.files)
  BY <1>1
<1>4. \A m \in DOMAIN c.files : i < m => c.files[m].path = c.files[i].path
  BY <1>2, Zenon DEF NoneLeftOut
<1>. QED
  BY <1>3, <1>4

LEMMA OrderedSkip ==
    ASSUME NEW ts \in Seq(Tasks), NEW n \in Nat, NEW last, Ordered(ts, n, last)
    PROVE  Ordered(ts, n + 1, last)
<1>1. \A k \in DOMAIN ts : ts[k] \in Tasks
  OBVIOUS
<1>2. Len(ts) \in Nat /\ \A k \in DOMAIN ts : ts[k].custom_id \in Nat
  BY <1>1 DEF Tasks
<1>. QED
  BY <1>2 DEF Ordered

LEMMA OrderedAppend ==
    ASSUME NEW ts \in Seq(Tasks), NEW n \in Nat, NEW last, Ordered(ts, n, last),
           NEW new \in Tasks, new.custom_id = n, Len(ts) + 1 < n => new.path = last
    PROVE  Ordered(Append(ts, new), n + 1, last)
<1>. DEFINE more == Append(ts, new)
<1>1. /\ more \in Seq(Tasks) /\ Len(more) = Len(ts) + 1 /\ more[Len(ts) + 1] = new
      /\ \A k \in 1 .. Len(ts) : more[k] = ts[k]
  BY AppendProperties
<1>. HIDE DEF more
<1>2. Len(ts) \in Nat /\ DOMAIN ts = 1 .. Len(ts) /\ DOMAIN more = 1 .. Len(ts) + 1
  BY <1>1
<1>3. \A k \in DOMAIN ts : ts[k].custom_id \in Nat
  <2>1. \A k \in DOMAIN ts : ts[k] \in Tasks
    OBVIOUS
  <2>. QED
    BY <2>1 DEF Tasks
<1>4. /\ \A k \in DOMAIN ts : /\ k <= ts[k].custom_id /\ ts[k].custom_id < n
                              /\ k < ts[k].custom_id => ts[k].path = last
      /\ \A j, k \in DOMAIN ts : j < k => ts[j].custom_id < ts[k].custom_id
      /\ Len(ts) < n
  BY DEF Ordered
<1>5. ASSUME NEW k \in DOMAIN more
      PROVE  \/ k = Len(ts) + 1 /\ more[k] = new
             \/ k \in DOMAIN ts /\ k < Len(ts) + 1 /\ more[k] = ts[k]
  BY <1>1, <1>2
<1>6. ASSUME NEW k \in DOMAIN more
      PROVE  /\ k <= more[k].custom_id /\ more[k].custom_id < n + 1
             /\ k < more[k].custom_id => more[k].path = last
  BY <1>2, <1>3, <1>4, <1>5
<1>7. ASSUME NEW j \in DOMAIN more, NEW k \in DOMAIN more, j < k
      PROVE  more[j].custom_id < more[k].custom_id
  <2>1. j \in DOMAIN ts /\ more[j] = ts[j]
    BY <1>2, <1>5, <1>7
  <2>. QED
    BY <1>4, <1>5, <1>7, <2>1
<1>8. Len(more) < n + 1
  <2>1. Len(more) = Len(ts) + 1
    BY <1>1, Zenon
  <2>2. Len(ts) \in Nat
    BY <1>2, Zenon
  <2>3. Len(ts) < n
    BY <1>4, Zenon
  <2>. QED
    BY <2>1, <2>2, <2>3
<1>. QED
  BY <1>6, <1>7, <1>8 DEF Ordered, more

\* The tasks after one more file of the batch is read.
LEMMA MoreTasks ==
    ASSUME Shape, NeverGone, NEW a \in Actors, Own(a), pc[a] = "read", Batch(a)
    PROVE  LET file == call[a].files[at[a]]
               more == IF disk[file.path] = Absent THEN tasks[a]
                       ELSE Append(tasks[a], [custom_id |-> at[a], path |-> file.path,
                                              mark |-> file.mark, original |-> disk[file.path]])
           IN  /\ more \in Seq(Tasks)
               /\ NoneLeftOut =>
                    /\ Ordered(more, at[a] + 1, LastPath(a))
                    /\ Len(more) + 1 < at[a] + 1 =>
                         \A k \in DOMAIN call[a].files : at[a] + 1 <= k => call[a].files[k].path = LastPath(a)
               /\ \A k \in DOMAIN more :
                    \/ k \in DOMAIN tasks[a] /\ more[k] = tasks[a][k]
                    \/ disk[more[k].path] = more[k].original
<1>. DEFINE ts == tasks[a]
            n == at[a]
            files == call[a].files
            file == files[n]
            new == [custom_id |-> n, path |-> file.path, mark |-> file.mark, original |-> disk[file.path]]
            more == IF disk[file.path] = Absent THEN ts ELSE Append(ts, new)
            gap(s, m) == Len(s) + 1 < m => \A k \in DOMAIN files : m <= k => files[k].path = LastPath(a)
<1>1. /\ call[a] \in Calls /\ call[a].tool = "batch_edit" /\ n \in DOMAIN files
      /\ ts \in Seq(Tasks) /\ n \in Nat /\ Len(ts) \in Nat
  BY DEF Own, Place, Shape, Parts, Batch
<1>2. DOMAIN files = 1 .. Len(files) /\ Len(files) \in Nat /\ file.path \in Paths /\ file.mark \in Marks
  BY <1>1, CallFacts
<1>3. NoneLeftOut => Ordered(ts, n, LastPath(a)) /\ gap(ts, n)
  BY Zenon DEF Own, Numbered
<1>4. NoneLeftOut => Len(ts) < n
  BY <1>3 DEF Ordered
<1>5. CASE disk[file.path] = Absent
  <2>1. more = ts
    BY <1>5
  <2>2. NoneLeftOut => Ordered(ts, n + 1, LastPath(a))
    BY <1>1, <1>3, OrderedSkip
  <2>3. NoneLeftOut => gap(ts, n + 1)
    <3>1. NoneLeftOut => \A k \in DOMAIN files : n < k => files[k].path = files[Len(files)].path
      BY <1>1, <1>5, GapFacts
    <3>. QED
      BY <1>1, <1>2, <3>1 DEF LastPath
  <2>. HIDE DEF more
  <2>4. \A k \in DOMAIN more : k \in DOMAIN ts /\ more[k] = ts[k]
    BY <2>1
  <2>. QED
    BY <1>1, <2>1, <2>2, <2>3, <2>4, Zenon DEF more
<1>6. CASE disk[file.path] # Absent
  <2>1. more = Append(ts, new)
    BY <1>6
  <2>2. new \in Tasks
    BY <1>1, <1>2, <1>6 DEF Tasks, Shape
  <2>3. new.custom_id = n /\ new.path = file.path /\ new.original = disk[file.path]
    OBVIOUS
  <2>. HIDE DEF new, more
  <2>4. /\ more \in Seq(Tasks) /\ Len(more) = Len(ts) + 1 /\ more[Len(ts) + 1] = new
        /\ \A k \in 1 .. Len(ts) : more[k] = ts[k]
    BY <1>1, <2>1, <2>2, AppendProperties
  <2>5. NoneLeftOut /\ Len(ts) + 1 < n => new.path = LastPath(a)
    BY <1>1, <1>3, <2>3
  <2>6. NoneLeftOut => Ordered(more, n + 1, LastPath(a))
    BY <1>1, <1>3, <2>1, <2>2, <2>3, <2>5, OrderedAppend
  <2>7. NoneLeftOut => gap(more, n + 1)
    <3>1. SUFFICES ASSUME NoneLeftOut, Len(more) + 1 < n + 1, NEW k \in DOMAIN files, n + 1 <= k
                   PROVE  files[k].path = LastPath(a)
      OBVIOUS
    <3>2. Len(ts) + 1 < n
      BY <1>1, <2>4, <3>1
    <3>3. n <= k
      BY <1>1, <1>2, <3>1
    <3>. QED
      BY <1>3, <3>1, <3>2, <3>3, Zenon
  <2>8. ASSUME NEW k \in DOMAIN more
        PROVE  (k \in DOMAIN ts /\ more[k] = ts[k]) \/ disk[more[k].path] = more[k].original
    <3>1. k \in 1 .. Len(ts) + 1 /\ DOMAIN ts = 1 .. Len(ts)
      BY <1>1, <2>4
    <3>2. CASE k = Len(ts) + 1
      BY <2>3, <2>4, <3>2
    <3>3. CASE k # Len(ts) + 1
      BY <1>1, <2>4, <3>1, <3>3
    <3>. QED
      BY <3>2, <3>3
  <2>. QED
    BY <2>4, <2>6, <2>7, <2>8, Zenon DEF more, new
<1>. QED
  BY <1>5, <1>6, Zenon

LEMMA BatchReadStep ==
    ASSUME Shape, NeverGone, NEW a \in Actors, Own(a), raced \subseteq raced', BatchRead(a)
    PROVE  Moved(a) /\ Quiet(a)
<1>. DEFINE file == call[a].files[at[a]]
            new == [custom_id |-> at[a], path |-> file.path, mark |-> file.mark, original |-> disk[file.path]]
            more == IF disk[file.path] = Absent THEN tasks[a] ELSE Append(tasks[a], new)
            last == at[a] = Len(call[a].files)
            p == IF last THEN "polling" ELSE "read"
            n == IF last THEN 1 ELSE at[a] + 1
<1>1. pc[a] = "read" /\ Batch(a) /\ Target(a) = file /\ UNCHANGED <<disk, said, torn>>
  BY DEF BatchRead, Target
<1>2. /\ call[a] \in Calls /\ at[a] \in DOMAIN call[a].files /\ at[a] \in Nat /\ call[a] # None
      /\ Len(call[a].files) \in Nat /\ DOMAIN call[a].files = 1 .. Len(call[a].files)
  BY <1>1, CallFacts DEF Own, Place, Shape, Parts
<1>3. CASE Idle(a)
  <2>1. Moved(a) /\ LetsGo(a)
    BY <1>3, IdleStep, Zenon
  <2>. QED
    BY <1>1, <2>1, LetsGoQuiet
<1>4. /\ more \in Seq(Tasks)
      /\ NoneLeftOut =>
           /\ Ordered(more, at[a] + 1, LastPath(a))
           /\ Len(more) + 1 < at[a] + 1 =>
                \A k \in DOMAIN call[a].files : at[a] + 1 <= k => call[a].files[k].path = LastPath(a)
      /\ \A k \in DOMAIN more :
           \/ k \in DOMAIN tasks[a] /\ more[k] = tasks[a][k]
           \/ disk[more[k].path] = more[k].original
  BY <1>1, MoreTasks, Zenon
<1>5. CASE /\ ~(last /\ more = <<>>)
           /\ tasks' = [tasks EXCEPT ![a] = more]
           /\ at' = [at EXCEPT ![a] = n]
           /\ pc' = [pc EXCEPT ![a] = p]
           /\ UNCHANGED <<call, put, got, results, polls>>
  <2>. HIDE DEF more
  <2>1. Moves(a, p, call[a], n, put[a], got[a], more, results[a])
    BY <1>5 DEF Moves, Shape, Parts
  <2>2. Is(a, p, call[a], n, put[a], got[a], more, results[a]) /\ \A b \in Actors \ {a} : Stays(b)
    BY <2>1, MovesFacts
  <2>3. Parts'
    <3>1. /\ polls' \in [Actors -> 0 .. MaxPolls]
          /\ p \in {"idle", "read", "write", "fill", "polling", "apply"}
          /\ call[a] \in Calls \cup {None} /\ n \in Nat /\ put[a] \in Texts /\ got[a] \in Texts \cup {Absent}
      BY <1>2, <1>5 DEF Shape, Parts
    <3>. HIDE DEF p, n
    <3>. QED
      BY <1>4, <2>1, <3>1, MovesParts
  <2>4. pc'[a] = p /\ call'[a] = call[a] /\ at'[a] = n /\ tasks'[a] = more /\ (Batch(a))'
    BY <1>1, <2>2 DEF Is, Batch
  <2>5. Place(a)'
    <3>1. last => 1 \in DOMAIN more
      BY <1>4, <1>5
    <3>2. ~last => at[a] + 1 \in DOMAIN call[a].files
      BY <1>2
    <3>. QED
      BY <1>2, <2>4, <3>1, <3>2 DEF Place
  <2>6. Numbered(a)'
    <3>1. LastPath(a)' = LastPath(a)
      BY <2>4 DEF LastPath
    <3>2. CASE last
      <4>1. pc'[a] = "polling" /\ Len(call'[a].files) + 1 = at[a] + 1
        BY <2>4, <3>2
      <4>2. NoneLeftOut => Ordered(tasks'[a], Len(call'[a].files) + 1, LastPath(a)')
        BY <1>4, <2>4, <3>1, <4>1
      <4>. QED
        BY <4>1, <4>2 DEF Numbered
    <3>3. CASE ~last
      <4>1. pc'[a] = "read" /\ at'[a] = at[a] + 1
        BY <2>4, <3>3
      <4>2. NoneLeftOut => Ordered(tasks'[a], at'[a], LastPath(a)')
        BY <1>4, <2>4, <3>1, <4>1
      <4>3. NoneLeftOut /\ Len(tasks'[a]) + 1 < at'[a] =>
              \A k \in DOMAIN call'[a].files : at'[a] <= k => call'[a].files[k].path = LastPath(a)'
        BY <1>4, <2>4, <3>1, <4>1
      <4>. QED
        BY <4>1, <4>2, <4>3 DEF Numbered
    <3>. QED
      BY <3>2, <3>3
  <2>7. Answered(a)' /\ Drafted(a)'
    BY <2>4 DEF Answered, Drafted
  <2>8. Quiet(a)
    <3>1. pc[a] # "fill" /\ pc'[a] # "fill"
      BY <1>1, <2>4
    <3>2. ASSUME NEW k \in Keeps(a)'
          PROVE  \/ k \in Keeps(a) /\ KeptPath(a, k)' = KeptPath(a, k) /\ KeptText(a, k)' = KeptText(a, k)
                 \/ disk[KeptPath(a, k)'] = KeptText(a, k)'
      <4>1. k \in DOMAIN more
        BY <2>4 DEF Keeps
      <4>2. KeptPath(a, k)' = more[k].path /\ KeptText(a, k)' = more[k].original
        BY <2>4 DEF KeptPath, KeptText
      <4>3. CASE k \in DOMAIN tasks[a] /\ more[k] = tasks[a][k]
        <5>1. k \in Keeps(a)
          BY <1>1, <4>3 DEF Keeps
        <5>2. KeptPath(a, k) = tasks[a][k].path /\ KeptText(a, k) = tasks[a][k].original
          BY <1>1 DEF KeptPath, KeptText
        <5>. QED
          BY <4>2, <4>3, <5>1, <5>2
      <4>4. CASE disk[more[k].path] = more[k].original
        BY <4>2, <4>4
      <4>. QED
        BY <1>4, <4>1, <4>3, <4>4
    <3>. QED
      BY <1>1, <3>1, <3>2 DEF Quiet
  <2>. QED
    BY <2>2, <2>3, <2>5, <2>6, <2>7, <2>8 DEF Moved, Own
<1>6. \/ Idle(a)
      \/ /\ ~(last /\ more = <<>>)
         /\ tasks' = [tasks EXCEPT ![a] = more]
         /\ at' = [at EXCEPT ![a] = n]
         /\ pc' = [pc EXCEPT ![a] = p]
         /\ UNCHANGED <<call, put, got, results, polls>>
  <2>. DEFINE goes(m) ==
         /\ tasks' = [tasks EXCEPT ![a] = m]
         /\ IF last
              THEN at' = [at EXCEPT ![a] = 1] /\ pc' = [pc EXCEPT ![a] = "polling"]
              ELSE at' = [at EXCEPT ![a] = @ + 1] /\ UNCHANGED pc
         /\ UNCHANGED <<call, put, got, results, polls>>
  <2>1. IF last /\ more = <<>> THEN Idle(a) ELSE goes(more)
    BY <1>1, Zenon DEF BatchRead
  <2>. HIDE DEF more
  <2>2. ASSUME goes(more)
        PROVE  /\ at' = [at EXCEPT ![a] = n]
               /\ pc' = [pc EXCEPT ![a] = p]
    BY <1>1, <2>2 DEF Shape, Parts
  <2>. QED
    BY <2>1, <2>2
<1>. QED
  BY <1>3, <1>5, <1>6

\* A step that leaves all actors where they are.
LEMMA SameStep ==
    ASSUME Shape, NEW a \in Actors, Own(a), raced \subseteq raced', pc[a] # "fill",
           UNCHANGED <<disk, said, torn, pc, call, at, put, got, tasks, results>>,
           polls' \in [Actors -> 0 .. MaxPolls]
    PROVE  Moved(a) /\ Quiet(a)
<1>1. \A b \in Actors : Stays(b)
  BY DEF Stays
<1>2. Own(a)'
  BY <1>1, StaysOwn
<1>3. Parts'
  BY DEF Shape, Parts
<1>4. Quiet(a)
  <2>1. Keeps(a)' = Keeps(a) /\ \A k : KeptPath(a, k)' = KeptPath(a, k) /\ KeptText(a, k)' = KeptText(a, k)
    BY <1>1, StaysKeeps
  <2>. QED
    BY <2>1 DEF Quiet
<1>. QED
  BY <1>1, <1>2, <1>3, <1>4 DEF Moved

LEMMA PollStep ==
    ASSUME Shape, NEW a \in Actors, Own(a), raced \subseteq raced', Poll(a) \/ WindowOver(a)
    PROVE  Moved(a) /\ Quiet(a)
<1>1. pc[a] = "polling" /\ UNCHANGED <<disk, said, torn>>
  BY DEF Poll, WindowOver
<1>2. CASE Idle(a)
  BY <1>1, <1>2, IdleStep, LetsGoQuiet
<1>3. CASE /\ polls[a] < MaxPolls
           /\ polls' = [polls EXCEPT ![a] = @ + 1]
           /\ UNCHANGED <<pc, call, at, put, got, tasks, results>>
  <2>1. polls' \in [Actors -> 0 .. MaxPolls]
    BY <1>3, EditsAssumption DEF Shape, Parts
  <2>. QED
    BY <1>1, <1>3, <2>1, SameStep
<1>. QED
  BY <1>2, <1>3 DEF Poll, WindowOver

LEMMA JobEndsStep ==
    ASSUME Shape, NEW a \in Actors, Own(a), Single, raced \subseteq raced', JobEnds(a)
    PROVE  Moved(a) /\ Quiet(a)
<1>1. /\ pc[a] = "polling" /\ Batch(a) /\ at[a] = 1 /\ call[a] # None
      /\ UNCHANGED <<disk, said, torn>>
  BY DEF JobEnds, Own, Place
<1>2. PICK items \in Items(tasks[a]) : results' = [results EXCEPT ![a] = items]
  BY DEF JobEnds
<1>3. Moves(a, "apply", call[a], at[a], put[a], got[a], tasks[a], items)
  BY <1>2 DEF JobEnds, Moves, Shape, Parts
<1>4. Is(a, "apply", call[a], at[a], put[a], got[a], tasks[a], items) /\ \A b \in Actors \ {a} : Stays(b)
  BY <1>3, MovesFacts
<1>5. Parts'
  <2>1. /\ polls' \in [Actors -> 0 .. MaxPolls]
        /\ call[a] \in Calls \cup {None} /\ at[a] \in Nat /\ put[a] \in Texts
        /\ got[a] \in Texts \cup {Absent} /\ tasks[a] \in Seq(Tasks)
    BY DEF JobEnds, Shape, Parts
  <2>. QED
    BY <1>3, <2>1, MovesParts
<1>6. /\ pc'[a] = "apply" /\ call'[a] = call[a] /\ at'[a] = at[a] /\ got'[a] = got[a]
      /\ tasks'[a] = tasks[a] /\ results'[a] = items /\ (Batch(a))'
  BY <1>1, <1>4 DEF Is, Batch
<1>7. Place(a)'
  BY <1>1, <1>6 DEF Own, Place
<1>8. Numbered(a)'
  <2>1. Numbered(a)
    BY DEF Own
  <2>. QED
    BY <1>1, <1>6, <2>1, Zenon DEF Numbered, LastPath
<1>9. Answered(a)'
  <2>1. ASSUME NEW k \in DOMAIN tasks[a]
        PROVE  \E j \in DOMAIN tasks[a] :
                 /\ Item(a, k)' \in Replies(tasks[a][j].original, tasks[a][j].mark)
                 /\ NoneLeftOut => tasks[a][k].path \in raced' \/ j = k
    <3>1. PICK j \in DOMAIN tasks[a] :
            /\ Item(a, k)' \in Replies(tasks[a][j].original, tasks[a][j].mark)
            /\ NoneLeftOut => j = k \/ tasks[a][j].path = tasks[a][k].path
      BY <1>1, <1>6, JobAnswers DEF Own
    <3>2. ASSUME NoneLeftOut, j # k PROVE tasks[a][k].path \in raced
      <4>1. j \in Keeps(a) /\ k \in Keeps(a)
        <5>1. j \in Nat /\ k \in Nat /\ 1 <= j /\ 1 <= k
          BY DEF Shape, Parts
        <5>. QED
          BY <1>1, <5>1 DEF Keeps
      <4>2. KeptPath(a, j) = tasks[a][j].path /\ KeptPath(a, k) = tasks[a][k].path
        BY <1>1 DEF KeptPath
      <4>. QED
        BY <3>1, <3>2, <4>1, <4>2 DEF Single
    <3>. QED
      BY <3>1, <3>2
  <2>. QED
    BY <1>6, <2>1 DEF Answered
<1>10. Drafted(a)'
  BY <1>6 DEF Drafted
<1>11. Quiet(a)
  <2>1. \A k : KeptPath(a, k)' = KeptPath(a, k) /\ KeptText(a, k)' = KeptText(a, k)
    BY <1>1, <1>6 DEF KeptPath, KeptText
  <2>2. Keeps(a)' = Keeps(a)
    BY <1>1, <1>6 DEF Keeps
  <2>. QED
    BY <1>1, <1>6, <2>1, <2>2 DEF Quiet
<1>. QED
  BY <1>4, <1>5, <1>7, <1>8, <1>9, <1>10, <1>11 DEF Moved, Own

----------------------------------------------------------------------------
\* The files after a step

\* What an actor that writes has in hand.
LEMMA PutFacts ==
    ASSUME Shape, NEW a \in Actors, Own(a), pc[a] \in {"write", "fill"}
    PROVE  /\ at[a] \in Keeps(a)
           /\ Target(a).path = KeptPath(a, at[a]) /\ Target(a).path \in Paths /\ Target(a).mark \in Marks
           /\ KeptText(a, at[a]) = got[a]
           /\ call[a].tool = "write_file" => Range(put[a]) \cap Marks \subseteq {Target(a).mark}
           /\ call[a].tool # "write_file" =>
                /\ got[a] \in Texts
                /\ NoneLeftOut /\ Target(a).path \notin raced =>
                     Range(put[a]) \cap Marks \subseteq Range(got[a]) \cup {Target(a).mark}
<1>1. call[a] \in Calls /\ pc[a] # "idle" /\ pc[a] # "read" /\ call[a] # None
  BY DEF Own, Place, Shape, Parts
<1>2. CASE Batch(a)
  <2>1. at[a] \in DOMAIN tasks[a] /\ Target(a) = tasks[a][at[a]]
    BY <1>1, <1>2 DEF Own, Place, Target
  <2>2. tasks[a][at[a]] \in Tasks /\ at[a] \in Nat
    BY <2>1 DEF Shape, Parts
  <2>3. tasks[a][at[a]].path \in Paths /\ tasks[a][at[a]].mark \in Marks /\ tasks[a][at[a]].original \in Texts
    BY <2>2 DEF Tasks
  <2>4. at[a] \in Keeps(a) /\ KeptPath(a, at[a]) = Target(a).path /\ KeptText(a, at[a]) = tasks[a][at[a]].original
    BY <1>1, <1>2, <2>1, <2>2 DEF Keeps, KeptPath, KeptText
  <2>5. /\ got[a] = tasks[a][at[a]].original
        /\ NoneLeftOut /\ tasks[a][at[a]].path \notin raced =>
             Range(put[a]) \cap Marks \subseteq Range(got[a]) \cup {tasks[a][at[a]].mark}
    BY <1>2 DEF Own, Drafted
  <2>6. call[a].tool # "write_file"
    BY <1>2 DEF Batch
  <2>. QED
    BY <2>1, <2>3, <2>4, <2>5, <2>6
<1>3. CASE ~Batch(a)
  <2>1. at[a] \in DOMAIN call[a].files /\ Target(a) = call[a].files[at[a]] /\ call[a].tool # "batch_edit"
    BY <1>1, <1>3 DEF Own, Place, Target, Batch
  <2>2. Target(a).path \in Paths /\ Target(a).mark \in Marks
    BY <1>1, <2>1, CallFacts
  <2>3. at[a] \in Keeps(a) /\ KeptPath(a, at[a]) = Target(a).path /\ KeptText(a, at[a]) = got[a]
    BY <1>1, <1>3, <2>1 DEF Keeps, KeptPath, KeptText
  <2>4. put[a] # Refused /\ put[a] = Edited(call[a], call[a].files[at[a]], got[a])
    BY <1>3 DEF Own, Drafted
  <2>5. got[a] \in Texts \cup {Absent}
    BY DEF Shape, Parts
  <2>6. /\ call[a].tool = "write_file" => Range(put[a]) \cap Marks \subseteq {Target(a).mark}
        /\ call[a].tool # "write_file" =>
             got[a] \in Texts /\ Range(put[a]) \cap Marks \subseteq Range(got[a]) \cup {Target(a).mark}
    BY <1>1, <2>1, <2>4, <2>5, EditedFacts
  <2>. QED
    BY <2>2, <2>3, <2>6
<1>. QED
  BY <1>2, <1>3

LEMMA StaysTarget ==
    ASSUME NEW b, Stays(b)
    PROVE  pc'[b] = pc[b] /\ at'[b] = at[b] /\ got'[b] = got[b] /\ call'[b] = call[b] /\ Target(b)' = Target(b)
  BY DEF Stays, Target, Batch

\* Everyone is in place after a step of one actor.
LEMMA MovedOwn ==
    ASSUME IInv, NEW a \in Actors, Moved(a), raced \subseteq raced'
    PROVE  \A b \in Actors : Own(b)'
  BY StaysOwn DEF Moved, IInv

\* What is kept on a file that has not been raced for is kept by one edit.
LEMMA KeptAlone ==
    ASSUME Single, NEW a \in Actors, NEW b \in Actors, NEW j \in Keeps(a), NEW k \in Keeps(b),
           a # b \/ j # k, KeptPath(b, k) \notin raced
    PROVE  KeptPath(b, k) # KeptPath(a, j)
  BY DEF Single

LEMMA QuietGlobal ==
    ASSUME IInv, NEW a \in Actors, Moved(a), Quiet(a), raced \subseteq raced'
    PROVE  Fresh' /\ There' /\ NeverGone' /\ (NoneLeftOut => ReportsAreTrue')
<1>1. UNCHANGED <<disk, said, torn>> /\ pc[a] # "fill" /\ pc'[a] # "fill"
  BY DEF Quiet
<1>2. \A b \in Actors \ {a} : Stays(b)
  BY DEF Moved
<1>3. \A b \in Actors \ {a} :
        /\ pc'[b] = pc[b] /\ at'[b] = at[b] /\ got'[b] = got[b] /\ call'[b] = call[b] /\ Target(b)' = Target(b)
        /\ Keeps(b)' = Keeps(b)
        /\ \A k : KeptPath(b, k)' = KeptPath(b, k) /\ KeptText(b, k)' = KeptText(b, k)
  BY <1>2, StaysTarget, StaysKeeps
<1>4. Fresh /\ There /\ NeverGone /\ (NoneLeftOut => ReportsAreTrue)
  BY DEF IInv
<1>5. ASSUME NEW b \in Actors, NEW k \in Keeps(b)', KeptPath(b, k)' \notin raced'
      PROVE  IF pc'[b] = "fill" /\ k = at'[b]
               THEN /\ disk'[KeptPath(b, k)'] = <<>>
                    /\ NoneLeftOut /\ KeptPath(b, k)' \notin torn' /\ call'[b].tool # "write_file" =>
                         Range(got'[b]) \cap Marks = said'[KeptPath(b, k)']
               ELSE disk'[KeptPath(b, k)'] = KeptText(b, k)'
  <2>1. CASE b = a
    <3>1. CASE disk[KeptPath(a, k)'] = KeptText(a, k)'
      BY <1>1, <2>1, <3>1
    <3>2. CASE k \in Keeps(a) /\ KeptPath(a, k)' = KeptPath(a, k) /\ KeptText(a, k)' = KeptText(a, k)
      <4>1. disk[KeptPath(a, k)] = KeptText(a, k)
        BY <1>1, <1>4, <1>5, <2>1, <3>2 DEF Fresh
      <4>. QED
        BY <1>1, <2>1, <3>2, <4>1
    <3>. QED
      BY <1>5, <2>1, <3>1, <3>2 DEF Quiet
  <2>2. CASE b # a
    <3>1. k \in Keeps(b) /\ KeptPath(b, k) \notin raced
      BY <1>3, <1>5, <2>2
    <3>2. IF pc[b] = "fill" /\ k = at[b]
            THEN /\ disk[KeptPath(b, k)] = <<>>
                 /\ NoneLeftOut /\ KeptPath(b, k) \notin torn /\ call[b].tool # "write_file" =>
                      Range(got[b]) \cap Marks = said[KeptPath(b, k)]
            ELSE disk[KeptPath(b, k)] = KeptText(b, k)
      BY <1>4, <3>1 DEF Fresh
    <3>. QED
      BY <1>1, <1>3, <2>2, <3>2
  <2>. QED
    BY <2>1, <2>2
<1>6. Fresh'
  BY <1>5 DEF Fresh
<1>7. There'
  BY <1>1, <1>3, <1>4 DEF There
<1>8. NeverGone'
  BY <1>1, <1>4 DEF NeverGone
<1>9. NoneLeftOut => ReportsAreTrue'
  <2>1. SUFFICES ASSUME NoneLeftOut, NEW p \in Paths, p \notin raced', p \notin torn', disk'[p] # Absent,
                        \A b \in Actors : pc'[b] = "fill" => Target(b)'.path # p
                 PROVE  Range(disk'[p]) \cap Marks = said'[p]
    BY DEF ReportsAreTrue
  <2>2. \A b \in Actors : pc[b] = "fill" => Target(b).path # p
    BY <1>1, <1>3, <2>1
  <2>. QED
    BY <1>1, <1>4, <2>1, <2>2 DEF ReportsAreTrue
<1>. QED
  BY <1>6, <1>7, <1>8, <1>9

LEMMA EmptyText == <<>> \in Texts /\ <<>> # Absent
<1>1. <<>> \in Texts
  BY DEF Texts
<1>. QED
  BY <1>1, EditsAssumption

\* A file is opened and emptied.
LEMMA EmptyStep ==
    ASSUME IInv, NEW a \in Actors, raced \subseteq raced', pc[a] = "write",
           disk' = [disk EXCEPT ![Target(a).path] = <<>>],
           pc' = [pc EXCEPT ![a] = "fill"],
           UNCHANGED <<call, at, put, got, job, said, torn>>
    PROVE  /\ Moved(a)
           /\ Fresh' /\ There' /\ NeverGone' /\ (NoneLeftOut => ReportsAreTrue')
           /\ disk' \in [Paths -> Texts \cup {Absent}]
<1>. DEFINE p == Target(a).path
<1>0. Shape /\ Own(a) /\ Single /\ Fresh /\ There /\ NeverGone /\ (NoneLeftOut => ReportsAreTrue)
  BY DEF IInv
<1>1. /\ at[a] \in Keeps(a) /\ p = KeptPath(a, at[a]) /\ p \in Paths /\ KeptText(a, at[a]) = got[a]
      /\ call[a].tool # "write_file" => got[a] \in Texts
  BY <1>0, PutFacts
<1>2. Moves(a, "fill", call[a], at[a], put[a], got[a], tasks[a], results[a])
  BY <1>0 DEF Moves, job, Shape, Parts
<1>3. Is(a, "fill", call[a], at[a], put[a], got[a], tasks[a], results[a]) /\ \A b \in Actors \ {a} : Stays(b)
  BY <1>0, <1>2, MovesFacts
<1>4. /\ pc'[a] = "fill" /\ call'[a] = call[a] /\ at'[a] = at[a] /\ put'[a] = put[a] /\ got'[a] = got[a]
      /\ tasks'[a] = tasks[a] /\ results'[a] = results[a] /\ (Batch(a))' = Batch(a)
  BY <1>3 DEF Is, Batch
<1>5. Parts'
  BY <1>0 DEF job, Shape, Parts
<1>6. Own(a)'
  <2>1. Place(a)'
    BY <1>0, <1>4 DEF Own, Place
  <2>2. Numbered(a)'
    BY <1>0, <1>4, Zenon DEF Own, Numbered, LastPath
  <2>3. Answered(a)'
    <3>1. \A k : Item(a, k)' = Item(a, k)
      BY <1>4, Zenon DEF Item
    <3>2. Answered(a)
      BY <1>0 DEF Own
    <3>. QED
      BY <1>4, <3>1, <3>2 DEF Answered
  <2>4. Drafted(a)'
    BY <1>0, <1>4 DEF Own, Drafted
  <2>. QED
    BY <2>1, <2>2, <2>3, <2>4 DEF Own
<1>7. \A b \in Actors :
        /\ at'[b] = at[b] /\ got'[b] = got[b] /\ call'[b] = call[b]
        /\ b # a => pc'[b] = pc[b]
        /\ Target(b)' = Target(b)
        /\ Keeps(b)' = Keeps(b)
        /\ \A k : KeptPath(b, k)' = KeptPath(b, k) /\ KeptText(b, k)' = KeptText(b, k)
  <2>1. Target(a)' = Target(a) /\ Keeps(a)' = Keeps(a)
    BY <1>4 DEF Target, Keeps
  <2>2. \A k : KeptPath(a, k)' = KeptPath(a, k) /\ KeptText(a, k)' = KeptText(a, k)
    BY <1>4 DEF KeptPath, KeptText
  <2>. QED
    BY <1>3, <1>4, <2>1, <2>2, StaysTarget, StaysKeeps
<1>. HIDE DEF p
<1>8. /\ disk' = [disk EXCEPT ![p] = <<>>] /\ said' = said
      /\ disk'[p] = <<>> /\ \A q \in Paths : q # p => disk'[q] = disk[q]
      /\ disk' \in [Paths -> Texts \cup {Absent}]
  <2>1. disk \in [Paths -> Texts \cup {Absent}] /\ <<>> \in Texts
    BY <1>0 DEF Shape, Texts
  <2>. QED
    BY <1>1, <2>1 DEF p
<1>9. \A b \in Actors : \A k \in Keeps(b) : KeptPath(b, k) \in Paths
  BY <1>0, KeptFacts DEF IInv, Own
<1>10. ASSUME NEW b \in Actors, NEW k \in Keeps(b), KeptPath(b, k) \notin raced'
       PROVE  IF pc'[b] = "fill" /\ k = at'[b]
                THEN /\ disk'[KeptPath(b, k)] = <<>>
                     /\ NoneLeftOut /\ KeptPath(b, k) \notin torn' /\ call'[b].tool # "write_file" =>
                          Range(got'[b]) \cap Marks = said'[KeptPath(b, k)]
                ELSE disk'[KeptPath(b, k)] = KeptText(b, k)
  <2>0. KeptPath(b, k) \notin raced
    BY <1>10
  <2>1. IF pc[b] = "fill" /\ k = at[b]
          THEN /\ disk[KeptPath(b, k)] = <<>>
               /\ NoneLeftOut /\ KeptPath(b, k) \notin torn /\ call[b].tool # "write_file" =>
                    Range(got[b]) \cap Marks = said[KeptPath(b, k)]
          ELSE disk[KeptPath(b, k)] = KeptText(b, k)
    BY <1>0, <2>0 DEF Fresh
  <2>2. CASE b = a /\ k = at[a]
    <3>1. disk[p] = got[a]
      BY <1>1, <2>1, <2>2
    <3>2. ASSUME NoneLeftOut, p \notin torn, call[a].tool # "write_file" PROVE Range(got[a]) \cap Marks = said[p]
      <4>1. disk[p] # Absent
        BY <1>1, <3>1, <3>2, EditsAssumption
      <4>2. \A c \in Actors : pc[c] = "fill" => Target(c).path # p
        <5>1. SUFFICES ASSUME NEW c \in Actors, pc[c] = "fill", Target(c).path = p PROVE FALSE
          OBVIOUS
        <5>2. at[c] \in Keeps(c) /\ KeptPath(c, at[c]) = p /\ c # a
          BY <1>0, <5>1, PutFacts DEF IInv
        <5>. QED
          BY <1>0, <1>1, <2>0, <2>2, <5>2, KeptAlone
      <4>. QED
        BY <1>0, <1>1, <2>0, <2>2, <3>1, <3>2, <4>1, <4>2 DEF ReportsAreTrue
    <3>. QED
      BY <1>1, <1>4, <1>8, <2>2, <3>2
  <2>3. CASE b # a \/ k # at[a]
    <3>1. KeptPath(b, k) # p
      BY <1>0, <1>1, <2>0, <2>3, KeptAlone
    <3>2. disk'[KeptPath(b, k)] = disk[KeptPath(b, k)]
      BY <1>8, <1>9, <3>1
    <3>3. b = a => ~(pc'[b] = "fill" /\ k = at'[b]) /\ ~(pc[b] = "fill" /\ k = at[b])
      BY <1>4, <2>3
    <3>. QED
      BY <1>7, <1>8, <2>1, <3>2, <3>3
  <2>. QED
    BY <2>2, <2>3
<1>11. Fresh'
  BY <1>7, <1>10 DEF Fresh
<1>12. There'
  <2>1. SUFFICES ASSUME NEW b \in Actors, pc'[b] = "fill" PROVE disk'[Target(b).path] # Absent
    BY <1>7 DEF There
  <2>2. <<>> # Absent
    BY EmptyText
  <2>3. b # a => Target(b).path \in Paths /\ disk[Target(b).path] # Absent
    BY <1>0, <1>7, <2>1, PutFacts DEF IInv, There
  <2>4. Target(a).path = p
    BY DEF p
  <2>. QED
    BY <1>8, <2>2, <2>3, <2>4
<1>13. NeverGone'
  <2>1. <<>> # Absent
    BY EmptyText
  <2>. QED
    BY <1>0, <1>8, <2>1 DEF NeverGone
<1>14. NoneLeftOut => ReportsAreTrue'
  <2>1. SUFFICES ASSUME NoneLeftOut, NEW q \in Paths, q \notin raced', q \notin torn', disk'[q] # Absent,
                        \A b \in Actors : pc'[b] = "fill" => Target(b)'.path # q
                 PROVE  Range(disk'[q]) \cap Marks = said'[q]
    BY DEF ReportsAreTrue
  <2>2. q # p
    BY <1>4, <1>7, <2>1 DEF p
  <2>3. \A b \in Actors : pc[b] = "fill" => Target(b).path # q
    BY <1>4, <1>7, <2>1
  <2>. QED
    BY <1>0, <1>8, <2>1, <2>2, <2>3 DEF ReportsAreTrue
<1>. QED
  BY <1>3, <1>5, <1>6, <1>8, <1>11, <1>12, <1>13, <1>14 DEF Moved

\* The marks a report names are those the file is left with.
LEMMA ReportFacts ==
    ASSUME NEW P, NEW G, NEW S, NEW m, m \in Marks, S \subseteq Marks,
           NEW over \in BOOLEAN,
           over => P \cap Marks \subseteq {m},
           ~over => S = G \cap Marks /\ P \cap Marks \subseteq G \cup {m}
    PROVE  P \cap Marks = (S \ (IF over THEN Marks ELSE G \ P)) \cup ({m} \cap P)
  OBVIOUS

\* What is written over the beginning of a file.
LEMMA OverFacts ==
    ASSUME NEW text \in Texts, NEW there \in Texts
    PROVE  /\ Over(text, there) \in Texts
           /\ there = <<>> => Over(text, there) = text
<1>1. text \in Seq(DOMAIN Anchor) /\ there \in Seq(DOMAIN Anchor)
  BY DEF Texts
<1>2. Len(text) \in Nat /\ Len(there) \in Nat
  BY <1>1
<1>3. SubSeq(there, Len(text) + 1, Len(there)) \in Seq(DOMAIN Anchor)
  <2>1. \A i \in Len(text) + 1 .. Len(there) : there[i] \in DOMAIN Anchor
    BY <1>1, <1>2
  <2>. QED
    BY <1>2, <2>1, SubSeqProperties
<1>4. ASSUME there = <<>> PROVE SubSeq(there, Len(text) + 1, Len(there)) = <<>>
  <2>1. Len(there) = 0
    BY <1>4
  <2>2. Len(SubSeq(there, Len(text) + 1, Len(there))) = 0
    <3>1. Len(text) + 1 \in Int /\ Len(there) \in Int /\ ~(Len(text) + 1 <= Len(there))
      BY <1>2, <2>1
    <3>2. \A i \in Len(text) + 1 .. Len(there) : there[i] \in DOMAIN Anchor
      BY <1>1, <1>2
    <3>. QED
      BY <3>1, <3>2, SubSeqProperties
  <2>. QED
    BY <1>3, <2>2, EmptySeq
<1>5. text \o <<>> = text
  BY <1>1
<1>. QED
  BY <1>1, <1>3, <1>4, <1>5 DEF Texts, Over

\* A file is written, as far as it goes: with what the reports then say of it, or
\* else it is torn.
LEMMA WrittenStep ==
    ASSUME IInv, NEW a \in Actors, raced \subseteq raced', pc[a] = "fill", Advance(a),
           NEW new \in Texts, disk' = [disk EXCEPT ![Target(a).path] = new],
           NEW now \in SUBSET Marks, said' = [said EXCEPT ![Target(a).path] = now],
           torn' \ {Target(a).path} = torn \ {Target(a).path},
           NoneLeftOut /\ Target(a).path \notin raced \cup torn' => Range(new) \cap Marks = now
    PROVE  /\ Moved(a)
           /\ Fresh' /\ There' /\ NeverGone' /\ (NoneLeftOut => ReportsAreTrue')
           /\ disk' \in [Paths -> Texts \cup {Absent}]
           /\ said' \in [Paths -> SUBSET Marks]
           /\ torn' \subseteq Paths
<1>. DEFINE p == Target(a).path
<1>0. Shape /\ Own(a) /\ Single /\ Fresh /\ There /\ NeverGone /\ (NoneLeftOut => ReportsAreTrue)
  BY DEF IInv
<1>1. at[a] \in Keeps(a) /\ p = KeptPath(a, at[a]) /\ p \in Paths
  BY <1>0, PutFacts
<1>2. Moved(a) /\ LetsGo(a)
  BY <1>0, AdvanceStep
<1>3. NoneLeftOut /\ p \notin raced /\ p \notin torn' => Range(new) \cap Marks = now
  OBVIOUS
<1>. HIDE DEF p
<1>4. /\ disk'[p] = new /\ \A q \in Paths : q # p => disk'[q] = disk[q] /\ said'[q] = said[q]
      /\ said'[p] = now
      /\ disk' \in [Paths -> Texts \cup {Absent}] /\ said' \in [Paths -> SUBSET Marks]
      /\ torn' \subseteq Paths /\ \A q \in Paths : q # p => (q \in torn' <=> q \in torn)
  <2>1. disk \in [Paths -> Texts \cup {Absent}] /\ said \in [Paths -> SUBSET Marks] /\ torn \subseteq Paths
    BY <1>0 DEF Shape
  <2>2. /\ disk' = [disk EXCEPT ![p] = new] /\ said' = [said EXCEPT ![p] = now]
        /\ torn' \ {p} = torn \ {p}
    BY DEF p
  <2>3. torn' \subseteq Paths /\ \A q \in Paths : q # p => (q \in torn' <=> q \in torn)
    BY <1>1, <2>1, <2>2
  <2>4. /\ disk'[p] = new /\ disk' \in [Paths -> Texts \cup {Absent}]
        /\ \A q \in Paths : q # p => disk'[q] = disk[q]
    <3>1. new \in Texts \cup {Absent}
      OBVIOUS
    <3>2. disk' \in [Paths -> Texts \cup {Absent}]
      BY <2>1, <2>2, <3>1, Zenon
    <3>3. disk'[p] = new /\ \A q \in Paths : q # p => disk'[q] = disk[q]
      BY <1>1, <2>1, <2>2, Zenon
    <3>. QED
      BY <3>2, <3>3
  <2>5. /\ said'[p] = now /\ said' \in [Paths -> SUBSET Marks]
        /\ \A q \in Paths : q # p => said'[q] = said[q]
    BY <1>1, <2>1, <2>2
  <2>. QED
    BY <2>3, <2>4, <2>5
<1>5. new # Absent
  BY EditsAssumption
<1>6. pc'[a] # "fill" /\ \A b \in Actors \ {a} : Stays(b)
  BY <1>2 DEF Moved, LetsGo
<1>7. \A b \in Actors \ {a} :
        /\ pc'[b] = pc[b] /\ at'[b] = at[b] /\ got'[b] = got[b] /\ call'[b] = call[b] /\ Target(b)' = Target(b)
        /\ Keeps(b)' = Keeps(b)
        /\ \A k : KeptPath(b, k)' = KeptPath(b, k) /\ KeptText(b, k)' = KeptText(b, k)
  BY <1>6, StaysTarget, StaysKeeps
<1>8. \A b \in Actors : \A k \in Keeps(b) : KeptPath(b, k) \in Paths
  BY <1>0, KeptFacts DEF IInv, Own
<1>9. \A b \in Actors : \A k \in Keeps(b) :
         (a # b \/ k # at[a]) /\ KeptPath(b, k) \notin raced =>
            /\ disk'[KeptPath(b, k)] = disk[KeptPath(b, k)]
            /\ said'[KeptPath(b, k)] = said[KeptPath(b, k)]
            /\ KeptPath(b, k) \in torn' <=> KeptPath(b, k) \in torn
  <2>1. SUFFICES ASSUME NEW b \in Actors, NEW k \in Keeps(b), a # b \/ k # at[a], KeptPath(b, k) \notin raced
                 PROVE  KeptPath(b, k) # p
    BY <1>4, <1>8
  <2>. QED
    BY <1>0, <1>1, <2>1, KeptAlone
<1>10. ASSUME NEW b \in Actors, NEW k \in Keeps(b)', KeptPath(b, k)' \notin raced'
       PROVE  IF pc'[b] = "fill" /\ k = at'[b]
                THEN /\ disk'[KeptPath(b, k)'] = <<>>
                     /\ NoneLeftOut /\ KeptPath(b, k)' \notin torn' /\ call'[b].tool # "write_file" =>
                          Range(got'[b]) \cap Marks = said'[KeptPath(b, k)']
                ELSE disk'[KeptPath(b, k)'] = KeptText(b, k)'
  <2>1. CASE b = a
    <3>1. /\ k \in Keeps(a) /\ k # at[a]
          /\ KeptPath(a, k)' = KeptPath(a, k) /\ KeptText(a, k)' = KeptText(a, k)
      BY <1>2, <1>10, <2>1 DEF LetsGo
    <3>2. KeptPath(a, k) \notin raced
      BY <1>10, <2>1, <3>1
    <3>3. disk[KeptPath(a, k)] = KeptText(a, k)
      BY <1>0, <3>1, <3>2 DEF Fresh
    <3>4. disk'[KeptPath(a, k)] = disk[KeptPath(a, k)]
      BY <1>9, <3>1, <3>2
    <3>. QED
      BY <1>6, <2>1, <3>1, <3>3, <3>4
  <2>2. CASE b # a
    <3>1. k \in Keeps(b) /\ KeptPath(b, k) \notin raced
      BY <1>7, <1>10, <2>2
    <3>2. IF pc[b] = "fill" /\ k = at[b]
            THEN /\ disk[KeptPath(b, k)] = <<>>
                 /\ NoneLeftOut /\ KeptPath(b, k) \notin torn /\ call[b].tool # "write_file" =>
                      Range(got[b]) \cap Marks = said[KeptPath(b, k)]
            ELSE disk[KeptPath(b, k)] = KeptText(b, k)
      BY <1>0, <3>1 DEF Fresh
    <3>3. /\ disk'[KeptPath(b, k)] = disk[KeptPath(b, k)]
          /\ said'[KeptPath(b, k)] = said[KeptPath(b, k)]
          /\ KeptPath(b, k) \in torn' <=> KeptPath(b, k) \in torn
      BY <1>9, <2>2, <3>1
    <3>. QED
      BY <1>7, <2>2, <3>2, <3>3
  <2>. QED
    BY <2>1, <2>2
<1>11. Fresh'
  BY <1>10 DEF Fresh
<1>12. There'
  <2>1. SUFFICES ASSUME NEW b \in Actors, pc'[b] = "fill" PROVE disk'[Target(b)'.path] # Absent
    BY DEF There
  <2>2. b # a
    BY <1>6, <2>1
  <2>3. Target(b)' = Target(b) /\ pc[b] = "fill"
    BY <1>7, <2>1, <2>2
  <2>4. Target(b).path \in Paths /\ disk[Target(b).path] # Absent
    BY <1>0, <2>3, PutFacts DEF IInv, There
  <2>. QED
    BY <1>4, <1>5, <2>3, <2>4
<1>13. NeverGone'
  BY <1>0, <1>4, <1>5 DEF NeverGone
<1>14. NoneLeftOut => ReportsAreTrue'
  <2>1. SUFFICES ASSUME NoneLeftOut, NEW q \in Paths, q \notin raced', q \notin torn', disk'[q] # Absent,
                        \A b \in Actors : pc'[b] = "fill" => Target(b)'.path # q
                 PROVE  Range(disk'[q]) \cap Marks = said'[q]
    BY DEF ReportsAreTrue
  <2>2. CASE q = p
    BY <1>3, <1>4, <2>1, <2>2
  <2>3. CASE q # p
    <3>1. \A b \in Actors : pc[b] = "fill" => Target(b).path # q
      BY <1>7, <2>1, <2>3 DEF p
    <3>. QED
      BY <1>0, <1>4, <2>1, <2>3, <3>1 DEF ReportsAreTrue
  <2>. QED
    BY <2>2, <2>3
<1>. QED
  BY <1>2, <1>4, <1>11, <1>12, <1>13, <1>14

\* A file is filled.
LEMMA FillStep ==
    ASSUME IInv, NEW a \in Actors, raced \subseteq raced', Fill(a)
    PROVE  /\ Moved(a)
           /\ Fresh' /\ There' /\ NeverGone' /\ (NoneLeftOut => ReportsAreTrue')
           /\ disk' \in [Paths -> Texts \cup {Absent}]
           /\ said' \in [Paths -> SUBSET Marks]
           /\ torn' \subseteq Paths
<1>. DEFINE p == Target(a).path
            m == Target(a).mark
            there == disk[p]
            whole == call[a].tool = "write_file"
            lost == IF whole THEN Marks ELSE Range(got[a]) \ Range(put[a])
            now == (said[p] \ lost) \cup ({m} \cap Range(put[a]))
<1>0. Shape /\ Own(a) /\ Fresh /\ There /\ pc[a] = "fill" /\ Advance(a)
  BY DEF IInv, Fill
<1>1. /\ at[a] \in Keeps(a) /\ p = KeptPath(a, at[a]) /\ p \in Paths /\ m \in Marks
      /\ whole => Range(put[a]) \cap Marks \subseteq {m}
      /\ NoneLeftOut /\ ~whole /\ p \notin raced => Range(put[a]) \cap Marks \subseteq Range(got[a]) \cup {m}
  BY <1>0, PutFacts
<1>2. there \in Texts /\ put[a] \in Texts
  BY <1>0, <1>1 DEF There, Shape, Parts
<1>3. Over(put[a], there) \in Texts /\ (there = <<>> => Over(put[a], there) = put[a])
  BY <1>2, OverFacts
<1>4. said[p] \subseteq Marks /\ now \in SUBSET Marks
  BY <1>0, <1>1 DEF Shape
<1>5. /\ disk' = [disk EXCEPT ![p] = Over(put[a], there)] /\ said' = [said EXCEPT ![p] = now]
      /\ torn' = IF whole THEN torn \ {p} ELSE torn
  BY DEF Fill
<1>6. ASSUME NoneLeftOut, p \notin raced \cup torn' PROVE Range(Over(put[a], there)) \cap Marks = now
  <2>1. there = <<>> /\ (~whole => Range(got[a]) \cap Marks = said[p])
    BY <1>0, <1>1, <1>5, <1>6 DEF Fresh
  <2>2. Over(put[a], there) = put[a]
    BY <1>3, <2>1
  <2>3. whole \in BOOLEAN
    OBVIOUS
  <2>4. Range(put[a]) \cap Marks = now
    BY <1>1, <1>4, <1>6, <2>1, <2>3, ReportFacts
  <2>. QED
    BY <2>2, <2>4
<1>7. torn' \ {p} = torn \ {p}
  BY <1>5
<1>. HIDE DEF there, whole, lost, now
<1>. QED
  BY <1>0, <1>3, <1>4, <1>5, <1>6, <1>7, WrittenStep

\* The beginning of a text is a text.
LEMMA CutText ==
    ASSUME NEW text \in Texts, NEW n \in 0 .. (Len(text) - 1)
    PROVE  SubSeq(text, 1, n) \in Texts
<1>1. text \in Seq(DOMAIN Anchor) /\ Len(text) \in Nat /\ n \in Int /\ n <= Len(text)
  BY DEF Texts
<1>2. \A i \in 1 .. n : text[i] \in DOMAIN Anchor
  BY <1>1
<1>3. SubSeq(text, 1, n) \in Seq(DOMAIN Anchor)
  BY <1>1, <1>2, SubSeqProperties
<1>. QED
  BY <1>3 DEF Texts

\* A write breaks off.
LEMMA FillFailsStep ==
    ASSUME IInv, NEW a \in Actors, raced \subseteq raced', FillFails(a)
    PROVE  /\ Moved(a)
           /\ Fresh' /\ There' /\ NeverGone' /\ (NoneLeftOut => ReportsAreTrue')
           /\ disk' \in [Paths -> Texts \cup {Absent}]
           /\ said' \in [Paths -> SUBSET Marks]
           /\ torn' \subseteq Paths
<1>. DEFINE p == Target(a).path
<1>1. Shape /\ Own(a) /\ There /\ pc[a] = "fill" /\ Advance(a) /\ torn' = torn \cup {p} /\ said' = said
  BY DEF IInv, FillFails
<1>2. PICK n \in 0 .. (Len(put[a]) - 1) : disk' = [disk EXCEPT ![p] = Over(SubSeq(put[a], 1, n), @)]
  BY DEF FillFails
<1>3. p \in Paths
  BY <1>1, PutFacts
<1>4. disk[p] \in Texts /\ put[a] \in Texts /\ said \in [Paths -> SUBSET Marks]
  BY <1>1, <1>3 DEF There, Shape, Parts
<1>5. Over(SubSeq(put[a], 1, n), disk[p]) \in Texts
  BY <1>4, CutText, OverFacts
<1>6. said' = [said EXCEPT ![p] = said[p]] /\ said[p] \in SUBSET Marks
  BY <1>1, <1>3, <1>4
<1>7. disk' = [disk EXCEPT ![p] = Over(SubSeq(put[a], 1, n), disk[p])]
  BY <1>2
<1>8. torn' \ {p} = torn \ {p} /\ p \in torn'
  BY <1>1
<1>. QED
  BY <1>1, <1>5, <1>6, <1>7, <1>8, WrittenStep

----------------------------------------------------------------------------
\* The invariant

LEMMA InitIInv == Init => IInv
<1>. SUFFICES ASSUME Init PROVE IInv
  OBVIOUS
<1>1. disk \in [Paths -> Texts \cup {Absent}]
  BY EditsAssumption DEF Init
<1>2. <<>> \in Texts /\ <<>> \in Seq(Tasks)
  BY DEF Texts
<1>3. Parts
  BY <1>2, EditsAssumption DEF Init, Parts
<1>4. Shape
  BY <1>1, <1>3, EditsAssumption DEF Init, Shape
<1>5. \A a \in Actors : pc[a] = "idle" /\ call[a] = None /\ tasks[a] = <<>>
  BY DEF Init
<1>6. \A a \in Actors : Own(a)
  BY <1>5 DEF Own, Place, Numbered, Answered, Drafted
<1>7. \A a \in Actors : Keeps(a) = {}
  BY <1>5 DEF Keeps
<1>8. Single /\ Fresh /\ There
  BY <1>5, <1>7 DEF Single, Fresh, There
<1>9. NeverGone
  BY DEF Init, NeverGone
<1>10. ReportsAreTrue
  BY MarksAssumption DEF Init, ReportsAreTrue
<1>. QED
  BY <1>4, <1>6, <1>8, <1>9, <1>10 DEF IInv

\* The counters, and what has been raced for.
LEMMA CountFacts ==
    ASSUME IInv, NEW a \in Actors, Start(a) \/ JobEnds(a) \/ Step(a), Observe
    PROVE  /\ calls' \in 0 .. CallCap /\ fails' \in 0 .. FailCap
           /\ raced \subseteq raced' /\ raced' \subseteq Paths
<1>1. calls \in 0 .. CallCap /\ fails \in 0 .. FailCap /\ raced \subseteq Paths
  BY DEF IInv, Shape
<1>2. calls' \in 0 .. CallCap
  <2>1. calls' = calls \/ (calls < CallCap /\ calls' = calls + 1)
    BY DEF Start, JobEnds, Step, Read, Write, Fill, FillFails, BatchRead, Poll, WindowOver, Apply
  <2>. QED
    BY <1>1, <2>1, EditsAssumption
<1>3. fails' \in 0 .. FailCap
  <2>1. fails' = fails \/ (fails < FailCap /\ fails' = fails + 1)
    BY DEF Start, JobEnds, Step, Read, Write, Fill, FillFails, BatchRead, Poll, WindowOver, Apply
  <2>. QED
    BY <1>1, <2>1, EditsAssumption
<1>4. Contended' \subseteq Paths
  BY DEF Contended
<1>. QED
  BY <1>1, <1>2, <1>3, <1>4 DEF Observe

LEMMA StepIInv ==
    ASSUME IInv, NEW a \in Actors, Start(a) \/ JobEnds(a) \/ Step(a), Observe
    PROVE  IInv'
<1>0. Shape /\ Own(a) /\ Single /\ NeverGone
  BY DEF IInv
<1>1. /\ calls' \in 0 .. CallCap /\ fails' \in 0 .. FailCap
      /\ raced \subseteq raced' /\ raced' \subseteq Paths
  BY CountFacts
<1>2. ASSUME Moved(a), Quiet(a)
      PROVE  /\ Fresh' /\ There' /\ NeverGone' /\ (NoneLeftOut => ReportsAreTrue')
             /\ disk' \in [Paths -> Texts \cup {Absent}] /\ said' \in [Paths -> SUBSET Marks]
             /\ torn' \subseteq Paths
  <2>1. UNCHANGED <<disk, said, torn>>
    BY <1>2 DEF Quiet
  <2>. QED
    BY <1>0, <1>1, <1>2, <2>1, QuietGlobal DEF Shape
<1>3. /\ Moved(a)
      /\ Fresh' /\ There' /\ NeverGone' /\ (NoneLeftOut => ReportsAreTrue')
      /\ disk' \in [Paths -> Texts \cup {Absent}] /\ said' \in [Paths -> SUBSET Marks]
      /\ torn' \subseteq Paths
  <2>1. CASE Start(a)
    BY <1>0, <1>1, <1>2, <2>1, StartStep
  <2>2. CASE JobEnds(a)
    BY <1>0, <1>1, <1>2, <2>2, JobEndsStep
  <2>3. CASE Read(a)
    BY <1>0, <1>1, <1>2, <2>3, ReadStep
  <2>4. CASE Write(a)
    <3>1. pc[a] = "write" /\ said' = said /\ torn' = torn
      BY <2>4 DEF Write
    <3>2. CASE /\ disk' = [disk EXCEPT ![Target(a).path] = <<>>]
               /\ pc' = [pc EXCEPT ![a] = "fill"]
               /\ UNCHANGED <<call, at, put, got, job, fails>>
      <4>1. said' \in [Paths -> SUBSET Marks] /\ torn' \subseteq Paths
        BY <1>0, <3>1 DEF Shape
      <4>2. UNCHANGED <<call, at, put, got, job, said, torn>>
        BY <3>1, <3>2
      <4>. QED
        BY <1>1, <3>1, <3>2, <4>1, <4>2, EmptyStep
    <3>3. CASE Advance(a) /\ disk' = disk
      <4>1. Moved(a) /\ LetsGo(a)
        BY <1>0, <1>1, <3>1, <3>3, AdvanceStep
      <4>2. Quiet(a)
        BY <3>1, <3>3, <4>1, LetsGoQuiet
      <4>. QED
        BY <1>2, <4>1, <4>2
    <3>. QED
      BY <2>4, <3>2, <3>3 DEF Write
  <2>5. CASE Fill(a)
    BY <1>1, <2>5, FillStep
  <2>6. CASE FillFails(a)
    BY <1>1, <2>6, FillFailsStep
  <2>7. CASE BatchRead(a)
    BY <1>0, <1>1, <1>2, <2>7, BatchReadStep
  <2>8. CASE Poll(a) \/ WindowOver(a)
    BY <1>0, <1>1, <1>2, <2>8, PollStep
  <2>9. CASE Apply(a)
    BY <1>0, <1>1, <1>2, <2>9, ApplyStep
  <2>. QED
    BY <2>1, <2>2, <2>3, <2>4, <2>5, <2>6, <2>7, <2>8, <2>9 DEF Step
<1>4. Shape'
  BY <1>1, <1>3 DEF Moved, Shape
<1>5. \A b \in Actors : Own(b)'
  BY <1>1, <1>3, MovedOwn
<1>6. Single'
  BY <1>4, <1>5, StepSingle DEF Own
<1>. QED
  BY <1>3, <1>4, <1>5, <1>6 DEF IInv

LEMMA StutterIInv ==
    ASSUME IInv, UNCHANGED vars
    PROVE  IInv'
<1>1. /\ disk' = disk /\ pc' = pc /\ call' = call /\ at' = at /\ put' = put /\ got' = got
      /\ tasks' = tasks /\ results' = results /\ polls' = polls
      /\ calls' = calls /\ fails' = fails /\ said' = said /\ raced' = raced /\ torn' = torn
  BY DEF vars, job
<1>2. \A b : Stays(b)
  BY <1>1 DEF Stays
<1>3. Shape'
  BY <1>1 DEF IInv, Shape, Parts
<1>4. \A b \in Actors : Own(b)'
  BY <1>1, <1>2, StaysOwn DEF IInv
<1>5. /\ \A b : Keeps(b)' = Keeps(b) /\ Target(b)' = Target(b)
      /\ \A b, k : KeptPath(b, k)' = KeptPath(b, k) /\ KeptText(b, k)' = KeptText(b, k)
  BY <1>2, StaysKeeps, StaysTarget
<1>6. Single'
  BY <1>1, <1>5 DEF IInv, Single
<1>7. Fresh'
  BY <1>1, <1>5 DEF IInv, Fresh
<1>8. There' /\ NeverGone'
  BY <1>1, <1>5 DEF IInv, There, NeverGone
<1>9. NoneLeftOut => ReportsAreTrue'
  BY <1>1, <1>5 DEF IInv, ReportsAreTrue
<1>. QED
  BY <1>3, <1>4, <1>6, <1>7, <1>8, <1>9 DEF IInv

LEMMA NextIInv == IInv /\ [Next]_vars => IInv'
<1>1. ASSUME IInv, Next PROVE IInv'
  <2>1. PICK a \in Actors : Start(a) \/ JobEnds(a) \/ Step(a)
    BY <1>1 DEF Next
  <2>2. Observe
    BY <1>1 DEF Next
  <2>. QED
    BY <1>1, <2>1, <2>2, StepIInv
<1>. QED
  BY <1>1, StutterIInv

LEMMA Invariance == Spec => []IInv
<1>. QED
  BY InitIInv, NextIInv, PTL DEF Spec

----------------------------------------------------------------------------
\* What holds of the files

\* Whatever the actors do, and in whatever order, the state keeps its types: in
\* particular a file is a text or not there, and what is put in it is a text.
THEOREM FilesTypeCorrect == Spec => []TypeOK
<1>1. IInv => TypeOK
  <2>1. SUFFICES ASSUME IInv PROVE TypeOK
    OBVIOUS
  <2>2. Shape /\ \A a \in Actors : Own(a)
    BY <2>1 DEF IInv
  <2>3. \A a \in Actors : call[a] \in Calls \cup {None} /\ (pc[a] = "idle" <=> call[a] = None)
    BY <2>2 DEF Shape, Parts, Own, Place
  <2>. QED
    BY <2>2, <2>3 DEF Shape, Parts, TypeOK
<1>. QED
  BY <1>1, Invariance, PTL

\* edit_anchored, edit_files and str_replace write what a careful hand would have
\* made of the text they read, for every text, every list of edits and every pair
\* of landmarks: the lines that are meant and no other, every anchor found, all
\* of the text or the only one there is replaced, within the region.
THEOREM EditsWhatIsMeant == Spec => []OnlyTheLinesMeant
<1>1. IInv => OnlyTheLinesMeant
  <2>1. SUFFICES ASSUME IInv, NEW a \in Actors, pc[a] = "write"
                 PROVE  /\ call[a].tool = "edit_files" =>
                             /\ put[a] = ByHand(got[a], Target(a).edits)
                             /\ \A k \in DOMAIN Target(a).edits :
                                  \E i \in DOMAIN got[a] : Means(got[a], Target(a).edits[k], i)
                        /\ call[a].tool = "str_replace" => ReplacedByHand(got[a], call[a], put[a])
    BY DEF OnlyTheLinesMeant
  <2>2. Shape /\ Own(a)
    BY <2>1 DEF IInv
  <2>3. call[a] \in Calls /\ got[a] \in Texts \cup {Absent}
    BY <2>1, <2>2 DEF Shape, Parts, Own, Place
  <2>4. ASSUME ~Batch(a)
        PROVE  /\ at[a] \in DOMAIN call[a].files /\ Target(a) = call[a].files[at[a]]
               /\ put[a] # Refused /\ put[a] = Edited(call[a], Target(a), got[a])
    BY <2>1, <2>2, <2>4 DEF Own, Place, Drafted, Target
  <2>5. CASE call[a].tool = "edit_files"
    <3>. DEFINE edits == Target(a).edits
    <3>1. /\ at[a] \in DOMAIN call[a].files /\ Target(a) = call[a].files[at[a]]
          /\ put[a] # Refused /\ put[a] = Edited(call[a], Target(a), got[a])
      BY <2>4, <2>5 DEF Batch
    <3>2. got[a] # Absent /\ put[a] = apply_edits(got[a], edits)
      BY <2>5, <3>1 DEF Edited
    <3>3. edits \in Seq(Range(edits)) /\ \A k \in DOMAIN edits : edits[k].text \in Texts
      BY <2>3, <3>1, CallsAssumption
    <3>. HIDE DEF edits
    <3>4. /\ apply_edits(got[a], edits) = ByHand(got[a], edits)
          /\ \A k \in DOMAIN edits : \E i \in DOMAIN got[a] : Means(got[a], edits[k], i)
      BY <2>3, <3>1, <3>2, <3>3, ApplyEditsByHand
    <3>. QED
      BY <2>5, <3>2, <3>4 DEF edits
  <2>6. CASE call[a].tool = "str_replace"
    <3>1. put[a] # Refused /\ put[a] = Edited(call[a], Target(a), got[a])
      BY <2>4, <2>6 DEF Batch
    <3>2. got[a] # Absent /\ put[a] = str_replace(got[a], call[a])
      BY <2>6, <3>1 DEF Edited
    <3>3. /\ got[a] \in Texts /\ call[a].after \in Texts /\ call[a].before \in Texts
          /\ call[a].old \in Texts /\ call[a].new \in Texts /\ call[a].old # <<>>
      BY <2>3, <2>6, <3>2, CallsAssumption
    <3>4. ReplacedByHand(got[a], call[a], str_replace(got[a], call[a]))
      BY <3>1, <3>2, <3>3, StrReplaceFacts DEF Texts
    <3>. QED
      BY <2>6, <3>2, <3>4
  <2>. QED
    BY <2>5, <2>6
<1>. QED
  BY <1>1, Invariance, PTL

\* A text none of whose beginnings is its end: it cannot overlap itself.
Borderless(s) ==
  \A n \in 1 .. (Len(s) - 1) : \E x \in 1 .. (Len(s) - n) : s[x] # s[x + n]

\* Where a text occurs, its lines are the lines there.
LEMMA LineOfOccurrence ==
    ASSUME NEW T, NEW s \in Seq(T), NEW t \in Seq(T),
           NEW i \in 1 .. Len(t), NEW y \in 1 .. Len(s), OccursAt(s, t, i)
    PROVE  s[y] = t[i + y - 1]
<1>. DEFINE e == i + Len(s) - 1
<1>1. Len(s) \in Nat /\ Len(t) \in Nat /\ \A z \in 1 .. Len(t) : t[z] \in T
  OBVIOUS
<1>2. i + Len(s) <= Len(t) + 1 /\ SubSeq(t, i, e) = s
  BY DEF OccursAt
<1>3. i \in Int /\ e \in Int /\ y \in 1 .. e - i + 1 /\ e <= Len(t)
  BY <1>1, <1>2
<1>4. \A z \in i .. e : t[z] \in T
  BY <1>1, <1>3
<1>. HIDE DEF e
<1>5. SubSeq(t, i, e)[y] = t[i + y - 1]
  BY <1>3, <1>4, SubSeqProperties
<1>. QED
  BY <1>2, <1>5

\* Where it is only at one place or overlapping that, it is only there.
LEMMA OnlyAtIsOnce ==
    ASSUME NEW T, NEW s \in Seq(T), NEW t \in Seq(T), NEW k \in DOMAIN t,
           Borderless(s), OnlyAt(s, t, k)
    PROVE  \A m \in DOMAIN t : OccursAt(s, t, m) <=> m = k
<1>1. Len(s) \in Nat /\ Len(t) \in Nat /\ DOMAIN t = 1 .. Len(t)
  OBVIOUS
<1>2. OccursAt(s, t, k)
  BY DEF OnlyAt
<1>3. ASSUME NEW m \in DOMAIN t, OccursAt(s, t, m), m # k PROVE FALSE
  <2>. DEFINE n == m - k
  <2>1. n \in 1 .. (Len(s) - 1) /\ m = k + n /\ m \in 1 .. Len(t) /\ k \in 1 .. Len(t)
    BY <1>1, <1>3 DEF OnlyAt
  <2>. HIDE DEF n
  <2>2. PICK x \in 1 .. (Len(s) - n) : s[x] # s[x + n]
    BY <2>1 DEF Borderless
  <2>3. x \in 1 .. Len(s) /\ x + n \in 1 .. Len(s)
    BY <1>1, <2>1
  <2>4. k + (x + n) - 1 = m + x - 1
    BY <1>1, <2>1
  <2>5. s[x] = t[m + x - 1]
    BY <1>3, <2>1, <2>3, LineOfOccurrence
  <2>6. s[x + n] = t[k + (x + n) - 1]
    BY <1>2, <2>1, <2>3, LineOfOccurrence
  <2>. QED
    BY <2>2, <2>4, <2>5, <2>6
<1>. QED
  BY <1>2, <1>3

\* The doc's "exactly once" holds of texts that cannot overlap themselves; of
\* the others it does not (OldOccursOnce is refuted for the lines a, a).
THEOREM ExactlyOnce ==
    ASSUME \A c \in Calls : c.tool = "str_replace" /\ ~c.replace_all => Borderless(c.old)
    PROVE  Spec => []OldOccursOnce
<1>1. IInv /\ OnlyTheLinesMeant => OldOccursOnce
  <2>1. SUFFICES ASSUME IInv, OnlyTheLinesMeant, NEW a \in Actors, pc[a] = "write",
                        call[a].tool = "str_replace", ~call[a].replace_all
                 PROVE  \E i, j \in 1 .. (Len(got[a]) + 1) :
                          LET region == SubSeq(got[a], i, j - 1) IN
                          /\ Pinned(got[a], call[a], i, j)
                          /\ \E k \in DOMAIN region : \A m \in DOMAIN region :
                               OccursAt(call[a].old, region, m) <=> m = k
    BY DEF OldOccursOnce
  <2>2. call[a] \in Calls /\ call[a].old \in Texts /\ Borderless(call[a].old)
    BY <2>1, CallsAssumption DEF IInv, Shape, Parts, Own, Place
  <2>3. got[a] \in Texts
    <3>1. got[a] \in Texts \cup {Absent} /\ Own(a)
      BY <2>1, <2>2 DEF IInv, Shape, Parts, Own, Place
    <3>2. put[a] # Refused /\ put[a] = Edited(call[a], Target(a), got[a])
      BY <2>1, <3>1 DEF Own, Place, Drafted, Target, Batch
    <3>. QED
      BY <2>1, <3>1, <3>2 DEF Edited
  <2>4. PICK i, j \in 1 .. (Len(got[a]) + 1) :
          /\ Pinned(got[a], call[a], i, j)
          /\ \E k \in DOMAIN SubSeq(got[a], i, j - 1) :
               OnlyAt(call[a].old, SubSeq(got[a], i, j - 1), k)
    BY <2>1 DEF OnlyTheLinesMeant, ReplacedByHand
  <2>. DEFINE region == SubSeq(got[a], i, j - 1)
  <2>5. region \in Texts
    BY <2>3, <2>4, SubSeqProperties DEF Texts
  <2>6. PICK k \in DOMAIN region : OnlyAt(call[a].old, region, k)
    BY <2>4
  <2>7. \A m \in DOMAIN region : OccursAt(call[a].old, region, m) <=> m = k
    <3>. HIDE DEF region
    <3>. QED
      BY <2>2, <2>5, <2>6, OnlyAtIsOnce DEF Texts
  <2>. QED
    BY <2>4, <2>7
<1>. QED
  BY <1>1, Invariance, EditsWhatIsMeant, PTL

\* What the reports say, put together, is what the files hold, for any number of
\* actors, calls, files and failures, where no batch goes on without a file; but
\* for the files that ReportsAreTrue excepts, raced for or torn.
THEOREM ReportsMatchFiles ==
    ASSUME NoneLeftOut
    PROVE  Spec => []ReportsAreTrue
<1>1. IInv => ReportsAreTrue
  BY DEF IInv
<1>. QED
  BY <1>1, Invariance, PTL

\* A reply of a batch job brings its edit to no other file, where no batch goes on
\* without a file and the file is not edited twice at one time.
RepliesReachTheirFile ==
  \A a \in Actors : (pc[a] = "write" /\ Batch(a) /\ Target(a).path \notin raced) =>
    Range(put[a]) \cap Marks \subseteq Range(got[a]) \cup {Target(a).mark}

\* The claim that fails of batches with an unreadable file (RepliesStayHome) holds
\* of the others.
THEOREM BatchRepliesStayHome ==
    ASSUME NoneLeftOut
    PROVE  Spec => []RepliesReachTheirFile
<1>1. IInv => RepliesReachTheirFile
  BY DEF IInv, Own, Drafted, Target, RepliesReachTheirFile
<1>. QED
  BY <1>1, Invariance, PTL

----------------------------------------------------------------------------
\* The client of an MCP server

\* A request and the line it is written as carry the same number.
Sent == {q \in Ids \X Serials : q[1] = q[2]}

\* A line holds an error, the answer to the request whose number it bears, or nothing.
Lines == {l \in Ids \X (Answers \cup Errors \cup {Null}) : l[2] \in Answers => l[2] = Answer(l[1])}

\* The inductive invariant

Counters ==
  /\ step \in {"initialize", "notify", "list", "ready", "failed"}
  /\ pages \in 0 .. MaxPages
  /\ made \in 0 .. MaxCalls
  /\ next_id \in Nat \ {0}
  /\ phase \in [Threads -> {"idle", "inserted", "writing", "waiting", "expired", "posted"}]

\* There is a number left for every request that may still be made.
NumbersLast ==
  next_id <= 1 + pages + made
               + (IF step = "initialize" /\ phase[Startup] = "idle" THEN 0 ELSE 1)

Pipes ==
  /\ stdin \in Seq(Sent)
  /\ taken \subseteq Sent
  /\ stdout \in Seq(Lines)

Slots ==
  /\ pending \subseteq Ids
  /\ slot \in [Ids -> Answers \cup Errors \cup {Null, Empty}]
  /\ \A i \in Ids : slot[i] \in Answers => slot[i] = Answer(i)

\* While its id is in the table, the one-shot of a request is empty.
PendingIsOpen == \A i \in pending : slot[i] = Empty

\* A request in flight goes by its own number, which is none of those to come.
NumberedOnce ==
  /\ id \in [Threads -> Ids \cup {0}]
  /\ serial \in [Threads -> Serials \cup {0}]
  /\ \A t \in Threads : InFlight(t) =>
        id[t] \in Ids /\ serial[t] = id[t] /\ id[t] < next_id

OneEach ==
  \A t, u \in Threads : InFlight(t) /\ InFlight(u) /\ id[t] = id[u] => t = u

McpInv ==
  /\ Counters
  /\ NumbersLast
  /\ Pipes
  /\ Slots
  /\ PendingIsOpen
  /\ NumberedOnce
  /\ OneEach
  /\ NothingLeaks

\* Facts about the data

\* An answer is none of the errors, and an empty one-shot holds neither.
LEMMA Outcomes ==
  /\ \A n \in Serials : Answer(n) \in Answers /\ Answer(n) \notin Errors
  /\ Empty \notin Answers /\ Empty \notin Errors
  /\ Null \notin Answers /\ Null \notin Errors /\ Null # Empty
  /\ \A e \in {"io", "closed", "timeout", "rpc"} : Error(e) \in Errors /\ Error(e) \notin Answers
  BY DEF Answer, Answers, Error, Errors, Empty, Null

LEMMA HeadTail ==
  ASSUME NEW S, NEW s \in Seq(S), s # <<>>
  PROVE  Head(s) \in S /\ Tail(s) \in Seq(S)
  OBVIOUS

LEMMA AppendIn ==
  ASSUME NEW S, NEW s \in Seq(S), NEW e \in S
  PROVE  Append(s, e) \in Seq(S)
  OBVIOUS

\* Every step by name, with the thread whose step it is.
LEMMA McpSteps ==
  ASSUME [McpNext]_mcp_vars
  PROVE  \/ UNCHANGED mcp_vars
         \/ \E t \in Threads : Request(t)
         \/ Notify \/ DispatchLine \/ Drain \/ ServerReads \/ ServerStops
         \/ \E again \in BOOLEAN : ServerAnswers(again)
         \/ \E i \in Ids : ServerAsks(i)
  BY DEF McpNext, Reader, Server

LEMMA McpInitInv == McpInit => McpInv
<1>. SUFFICES ASSUME McpInit PROVE McpInv
  OBVIOUS
<1>. USE McpAssumption DEF McpInit
<1>1. Counters /\ NumbersLast
  BY DEF Counters, NumbersLast, Threads
<1>2. Pipes
  BY DEF Pipes
<1>3. Slots /\ PendingIsOpen
  BY Outcomes DEF Slots, PendingIsOpen
<1>4. NumberedOnce /\ OneEach /\ NothingLeaks
  BY DEF NumberedOnce, OneEach, NothingLeaks, InFlight
<1>. QED
  BY <1>1, <1>2, <1>3, <1>4 DEF McpInv

\* What a request that ends leaves to be shown: its thread is idle, the others
\* are where they were, and the handshake has only gone on.
LEMMA Ended ==
  ASSUME McpInv, NEW t \in Threads, NEW res, Returns(t, res), InFlight(t) \/ phase[t] = "posted",
         pages' = pages, made' = made, next_id' = next_id
  PROVE  /\ Counters' /\ NumbersLast' /\ NumberedOnce' /\ OneEach'
         /\ \A u \in Threads : InFlight(u)' <=> InFlight(u) /\ u # t
         /\ \A u \in Threads : u # t => id'[u] = id[u]
<1>. USE DEF McpInv, Returns
<1>1. Counters'
  BY DEF Counters
<1>2. NumbersLast'
  BY McpAssumption DEF Counters, NumbersLast, Threads, InFlight
<1>3. \A u \in Threads : /\ InFlight(u)' <=> InFlight(u) /\ u # t
                         /\ u # t => id'[u] = id[u] /\ serial'[u] = serial[u]
  BY DEF Counters, NumberedOnce, InFlight
<1>4. NumberedOnce'
  BY <1>3 DEF NumberedOnce
<1>5. OneEach'
  BY <1>3 DEF OneEach
<1>. QED
  BY <1>1, <1>2, <1>3, <1>4, <1>5

\* The table after a request has ended: if its own entry is gone, the others are
\* those of the requests still in flight.
LEMMA EndedLeavesNone ==
  ASSUME McpInv, NEW t \in Threads, pending' \subseteq pending, id[t] \notin pending',
         \A u \in Threads : InFlight(u)' <=> InFlight(u) /\ u # t,
         \A u \in Threads : u # t => id'[u] = id[u]
  PROVE  NothingLeaks'
  BY DEF McpInv, NothingLeaks

\* One lemma per action

LEMMA AsksFacts ==
  ASSUME McpInv, NEW t \in Threads, Asks(t), phase[t] = "idle", step' = step,
         phase' \in [Threads -> {"idle", "inserted", "writing", "waiting", "expired", "posted"}],
         phase'[t] # "idle", \A u \in Threads : u # t => phase'[u] = phase[u],
         next_id' = next_id + 1
  PROVE  Counters' /\ NumbersLast' /\ next_id \in Serials
<1>1. Counters'
  BY McpAssumption DEF McpInv, Counters, Asks
<1>2. CASE t = Startup
  <2>1. NumbersLast'
    BY <1>2, McpAssumption DEF McpInv, Counters, NumbersLast, Asks, Threads
  <2>2. next_id \in Serials
    BY <1>2, McpAssumption DEF McpInv, Counters, NumbersLast, Asks, Threads, Serials
  <2>. QED
    BY <1>1, <2>1, <2>2
<1>3. CASE t # Startup
  <2>1. Startup \in Threads
    BY DEF Threads
  <2>2. NumbersLast'
    BY <1>3, <2>1, McpAssumption DEF McpInv, Counters, NumbersLast, Asks
  <2>3. next_id \in Serials
    BY <1>3, McpAssumption DEF McpInv, Counters, NumbersLast, Asks, Serials
  <2>. QED
    BY <1>1, <2>2, <2>3
<1>. QED
  BY <1>2, <1>3

LEMMA InsertInv ==
  ASSUME McpInv, NEW t \in Threads, Insert(t)
  PROVE  McpInv'
<1>. USE DEF Insert, FreshId
<1>1. Counters' /\ NumbersLast' /\ next_id \in Serials
  <2>1. phase' \in [Threads -> {"idle", "inserted", "writing", "waiting", "expired", "posted"}]
    BY DEF McpInv, Counters
  <2>2. phase'[t] # "idle" /\ \A u \in Threads : u # t => phase'[u] = phase[u]
    BY DEF McpInv, Counters
  <2>. QED
    BY <2>1, <2>2, AsksFacts
<1>2. Pipes'
  BY DEF McpInv, Pipes, pipes
<1>3. Slots' /\ PendingIsOpen'
  BY <1>1, Outcomes DEF McpInv, Slots, PendingIsOpen, Ids
<1>4. \A u \in Threads : /\ InFlight(u)' <=> InFlight(u) \/ u = t
                         /\ u # t => id'[u] = id[u] /\ serial'[u] = serial[u]
  BY DEF McpInv, Counters, NumberedOnce, InFlight
<1>5. id'[t] = next_id /\ serial'[t] = next_id
  BY DEF McpInv, NumberedOnce
<1>6. NumberedOnce'
  <2>1. id' \in [Threads -> Ids \cup {0}] /\ serial' \in [Threads -> Serials \cup {0}]
    BY <1>1 DEF McpInv, NumberedOnce, Ids
  <2>2. ASSUME NEW u \in Threads, InFlight(u)'
        PROVE  id'[u] \in Ids /\ serial'[u] = id'[u] /\ id'[u] < next_id'
    <3>1. CASE u = t
      BY <1>1, <1>5, <3>1 DEF McpInv, Counters, Ids
    <3>2. CASE u # t
      BY <1>4, <2>2, <3>2 DEF McpInv, NumberedOnce, Counters, Ids, Serials
    <3>. QED
      BY <3>1, <3>2
  <2>. QED
    BY <2>1, <2>2 DEF NumberedOnce
<1>7. OneEach'
  BY <1>1, <1>4, <1>5 DEF McpInv, NumberedOnce, OneEach, Counters, Ids
<1>8. NothingLeaks'
  <2>. SUFFICES ASSUME NEW i \in pending' PROVE \E u \in Threads : InFlight(u)' /\ id'[u] = i
    BY DEF NothingLeaks
  <2>1. CASE i = next_id
    BY <1>4, <1>5, <2>1
  <2>2. CASE i # next_id
    <3>1. PICK u \in Threads : InFlight(u) /\ id[u] = i
      BY <2>2 DEF McpInv, NothingLeaks
    <3>2. u # t
      BY <3>1 DEF InFlight
    <3>. QED
      BY <1>4, <3>1, <3>2
  <2>. QED
    BY <2>1, <2>2
<1>. QED
  BY <1>1, <1>2, <1>3, <1>6, <1>7, <1>8 DEF McpInv

\* Steps of a request in flight that leave the table alone.
LEMMA OnwardInv ==
  ASSUME McpInv, NEW t \in Threads, InFlight(t), NEW to \in {"writing", "waiting", "expired"},
         phase' = [phase EXCEPT ![t] = to], UNCHANGED <<client, id, serial, table>>, Pipes'
  PROVE  McpInv'
<1>. USE DEF client, table
<1>1. \A u \in Threads : InFlight(u)' <=> InFlight(u)
  BY DEF McpInv, Counters, InFlight
<1>2. Counters' /\ Slots' /\ PendingIsOpen'
  BY DEF McpInv, Counters, Slots, PendingIsOpen
<1>3. NumbersLast'
  BY DEF McpInv, Counters, NumbersLast, InFlight, Threads
<1>4. NumberedOnce' /\ OneEach' /\ NothingLeaks'
  BY <1>1 DEF McpInv, NumberedOnce, OneEach, NothingLeaks
<1>. QED
  BY <1>2, <1>3, <1>4 DEF McpInv

LEMMA RequestInv ==
  ASSUME McpInv, NEW t \in Threads, Request(t)
  PROVE  McpInv'
<1>1. CASE Insert(t)
  BY <1>1, InsertInv
<1>2. CASE Lock(t)
  <2>1. InFlight(t) /\ Pipes'
    BY <1>2 DEF Lock, InFlight, McpInv, Pipes, pipes
  <2>. QED
    BY <1>2, <2>1, OnwardInv DEF Lock
<1>3. CASE Written(t)
  <2>1. InFlight(t)
    BY <1>3 DEF Written, InFlight
  <2>2. <<id[t], serial[t]>> \in Sent
    BY <2>1 DEF McpInv, NumberedOnce, Sent, Ids
  <2>3. Pipes'
    BY <1>3, <2>2, AppendIn DEF Written, McpInv, Pipes
  <2>. QED
    BY <1>3, <2>1, <2>3, OnwardInv DEF Written
<1>4. CASE WriteFails(t)
  <2>. USE DEF WriteFails
  <2>1. InFlight(t) /\ Returns(t, Error("io"))
    BY <1>4 DEF InFlight
  <2>2. /\ Counters' /\ NumbersLast' /\ NumberedOnce' /\ OneEach'
        /\ \A u \in Threads : InFlight(u)' <=> InFlight(u) /\ u # t
        /\ \A u \in Threads : u # t => id'[u] = id[u]
    BY <1>4, <2>1, Ended
  <2>3. NothingLeaks'
    BY <1>4, <2>2, EndedLeavesNone
  <2>4. Pipes' /\ Slots' /\ PendingIsOpen'
    BY <1>4 DEF McpInv, Pipes, pipes, Slots, PendingIsOpen
  <2>. QED
    BY <2>2, <2>3, <2>4 DEF McpInv
<1>5. CASE Receive(t)
  <2>. USE DEF Receive
  <2>1. InFlight(t) /\ Returns(t, slot[id[t]])
    BY <1>5 DEF InFlight
  <2>2. /\ Counters' /\ NumbersLast' /\ NumberedOnce' /\ OneEach'
        /\ \A u \in Threads : InFlight(u)' <=> InFlight(u) /\ u # t
        /\ \A u \in Threads : u # t => id'[u] = id[u]
    BY <1>5, <2>1, Ended
  <2>3. id[t] \notin pending /\ id[t] \in Ids
    BY <1>5, <2>1 DEF McpInv, PendingIsOpen, NumberedOnce
  <2>4. NothingLeaks'
    BY <1>5, <2>2, <2>3, EndedLeavesNone
  <2>5. Pipes'
    BY <1>5 DEF McpInv, Pipes, pipes
  <2>6. Slots' /\ PendingIsOpen'
    BY <1>5, <2>3, Outcomes DEF McpInv, Slots, PendingIsOpen
  <2>. QED
    BY <2>2, <2>4, <2>5, <2>6 DEF McpInv
<1>6. CASE Expire(t)
  <2>1. InFlight(t) /\ Pipes'
    BY <1>6 DEF Expire, InFlight, McpInv, Pipes, pipes
  <2>. QED
    BY <1>6, <2>1, OnwardInv DEF Expire
<1>7. CASE GiveUp(t)
  <2>. USE DEF GiveUp
  <2>1. InFlight(t) /\ Returns(t, Error("timeout"))
    BY <1>7 DEF InFlight
  <2>2. /\ Counters' /\ NumbersLast' /\ NumberedOnce' /\ OneEach'
        /\ \A u \in Threads : InFlight(u)' <=> InFlight(u) /\ u # t
        /\ \A u \in Threads : u # t => id'[u] = id[u]
    BY <1>7, <2>1, Ended
  <2>3. NothingLeaks'
    BY <1>7, <2>2, EndedLeavesNone
  <2>4. Pipes'
    BY <1>7 DEF McpInv, Pipes, pipes
  <2>5. Slots' /\ PendingIsOpen'
    BY <1>7, <2>1, Outcomes DEF McpInv, Slots, PendingIsOpen, NumberedOnce
  <2>. QED
    BY <2>2, <2>3, <2>4, <2>5 DEF McpInv
<1>8. CASE Post(t)
  <2>. USE DEF Post
  <2>1. phase' \in [Threads -> {"idle", "inserted", "writing", "waiting", "expired", "posted"}]
    BY <1>8 DEF McpInv, Counters
  <2>2. phase'[t] # "idle" /\ \A u \in Threads : u # t => phase'[u] = phase[u]
    BY <1>8 DEF McpInv, Counters
  <2>3. Counters' /\ NumbersLast' /\ next_id \in Serials
    BY <1>8, <2>1, <2>2, AsksFacts
  <2>4. \A u \in Threads : InFlight(u)' <=> InFlight(u)
    BY <1>8, <2>2 DEF McpInv, Counters, InFlight
  <2>5. \A u \in Threads : InFlight(u) => u # t /\ serial'[u] = serial[u]
    BY <1>8 DEF McpInv, NumberedOnce, InFlight
  <2>6. NumberedOnce'
    BY <1>8, <2>3, <2>4, <2>5 DEF McpInv, Counters, NumberedOnce, Ids, Serials
  <2>8. OneEach' /\ NothingLeaks'
    BY <1>8, <2>4 DEF McpInv, OneEach, NothingLeaks
  <2>7. Pipes' /\ Slots' /\ PendingIsOpen'
    BY <1>8 DEF McpInv, Pipes, pipes, Slots, PendingIsOpen
  <2>. QED
    BY <2>3, <2>6, <2>7, <2>8 DEF McpInv
<1>9. CASE Reply(t)
  <2>. USE DEF Reply
  <2>1. PICK res : Returns(t, res)
    BY <1>9
  <2>2. /\ Counters' /\ NumbersLast' /\ NumberedOnce' /\ OneEach'
        /\ \A u \in Threads : InFlight(u)' <=> InFlight(u) /\ u # t
        /\ \A u \in Threads : u # t => id'[u] = id[u]
    BY <1>9, <2>1, Ended DEF table
  <2>3. ~InFlight(t)
    BY <1>9 DEF InFlight
  <2>4. NothingLeaks'
    BY <1>9, <2>2, <2>3 DEF McpInv, NothingLeaks, table
  <2>5. Pipes' /\ Slots' /\ PendingIsOpen'
    BY <1>9 DEF McpInv, Pipes, pipes, Slots, PendingIsOpen, table
  <2>. QED
    BY <2>2, <2>4, <2>5 DEF McpInv
<1>. QED
  BY <1>1, <1>2, <1>3, <1>4, <1>5, <1>6, <1>7, <1>8, <1>9 DEF Request

\* The reader takes an entry out of the table with the answer it hands over, so a
\* second line with that number, or a late one, finds nobody.
LEMMA DispatchInv ==
  ASSUME McpInv, DispatchLine
  PROVE  McpInv'
<1>. DEFINE l == Head(stdout)
<1>. USE DEF DispatchLine
<1>1. l \in Lines /\ Tail(stdout) \in Seq(Lines)
  BY HeadTail DEF McpInv, Pipes
<1>2. Counters' /\ NumbersLast' /\ NumberedOnce' /\ OneEach'
  BY DEF McpInv, Counters, NumbersLast, NumberedOnce, OneEach, client, requests, InFlight
<1>3. Pipes'
  BY <1>1 DEF McpInv, Pipes
<1>4. Slots'
  BY <1>1 DEF McpInv, Slots, Lines
<1>5. PendingIsOpen'
  BY <1>1 DEF McpInv, PendingIsOpen, Slots, Lines
<1>6. NothingLeaks'
  BY DEF McpInv, NothingLeaks, requests, InFlight
<1>. QED
  BY <1>2, <1>3, <1>4, <1>5, <1>6 DEF McpInv

LEMMA DrainInv ==
  ASSUME McpInv, Drain
  PROVE  McpInv'
<1>. USE DEF Drain
<1>1. Counters' /\ NumbersLast' /\ NumberedOnce' /\ OneEach' /\ Pipes'
  BY DEF McpInv, Counters, NumbersLast, NumberedOnce, OneEach, Pipes, client, requests, pipes, InFlight
<1>2. Slots' /\ PendingIsOpen' /\ NothingLeaks'
  BY Outcomes DEF McpInv, Slots, PendingIsOpen, NothingLeaks
<1>. QED
  BY <1>1, <1>2 DEF McpInv

LEMMA ServerInv ==
  ASSUME McpInv, UNCHANGED <<client, requests, table, reader>>, Pipes'
  PROVE  McpInv'
  BY DEF McpInv, Counters, NumbersLast, NumberedOnce, OneEach, NothingLeaks, Slots,
         PendingIsOpen, client, requests, table, InFlight

LEMMA NotifyInv ==
  ASSUME McpInv, Notify
  PROVE  McpInv'
<1>1. Counters' /\ NumbersLast'
  BY DEF Notify, McpInv, Counters, NumbersLast, requests, table
<1>2. Pipes' /\ Slots' /\ PendingIsOpen' /\ NumberedOnce' /\ OneEach' /\ NothingLeaks'
  BY DEF Notify, McpInv, Pipes, Slots, PendingIsOpen, NumberedOnce, OneEach, NothingLeaks,
         requests, table, pipes, InFlight
<1>. QED
  BY <1>1, <1>2 DEF McpInv

LEMMA McpNextInv == McpInv /\ [McpNext]_mcp_vars => McpInv'
<1>. SUFFICES ASSUME McpInv, [McpNext]_mcp_vars PROVE McpInv'
  OBVIOUS
<1>1. CASE UNCHANGED mcp_vars
  <2>1. Pipes'
    BY <1>1 DEF McpInv, Pipes, mcp_vars, pipes
  <2>. QED
    BY <1>1, <2>1, ServerInv DEF mcp_vars
<1>2. ASSUME NEW t \in Threads, Request(t) PROVE McpInv'
  BY <1>2, RequestInv
<1>3. CASE Notify
  BY <1>3, NotifyInv
<1>4. CASE DispatchLine
  BY <1>4, DispatchInv
<1>5. CASE Drain
  BY <1>5, DrainInv
<1>6. CASE ServerReads
  <2>1. Head(stdin) \in Sent /\ Tail(stdin) \in Seq(Sent)
    BY <1>6, HeadTail DEF ServerReads, McpInv, Pipes
  <2>2. Pipes'
    BY <1>6, <2>1 DEF ServerReads, McpInv, Pipes
  <2>. QED
    BY <1>6, <2>2, ServerInv DEF ServerReads
<1>7. CASE ServerStops
  <2>1. Pipes'
    BY <1>7 DEF ServerStops, McpInv, Pipes
  <2>. QED
    BY <1>7, <2>1, ServerInv DEF ServerStops
<1>8. ASSUME NEW again \in BOOLEAN, ServerAnswers(again) PROVE McpInv'
  <2>1. PICK q \in taken :
             /\ \E answer \in {Answer(q[2]), Error("rpc")} : stdout' = Append(stdout, <<q[1], answer>>)
             /\ taken' = IF again THEN taken ELSE taken \ {q}
    BY <1>8 DEF ServerAnswers
  <2>5. PICK answer \in {Answer(q[2]), Error("rpc")} : stdout' = Append(stdout, <<q[1], answer>>)
    BY <2>1
  <2>2. q \in Sent
    BY DEF McpInv, Pipes
  <2>3. <<q[1], answer>> \in Lines
    BY <2>2, Outcomes DEF Sent, Lines, Ids
  <2>4. Pipes'
    BY <1>8, <2>1, <2>5, <2>3, AppendIn DEF ServerAnswers, McpInv, Pipes
  <2>. QED
    BY <1>8, <2>4, ServerInv DEF ServerAnswers
<1>9. ASSUME NEW i \in Ids, ServerAsks(i) PROVE McpInv'
  <2>1. <<i, Null>> \in Lines
    BY Outcomes DEF Lines
  <2>2. Pipes'
    BY <1>9, <2>1, AppendIn DEF ServerAsks, McpInv, Pipes
  <2>. QED
    BY <1>9, <2>2, ServerInv DEF ServerAsks
<1>. QED
  BY <1>1, <1>2, <1>3, <1>4, <1>5, <1>6, <1>7, <1>8, <1>9, McpSteps

LEMMA McpInvariant == McpSpec => []McpInv
<1>1. McpInit => McpInv
  BY McpInitInv
<1>2. McpInv /\ [McpNext]_mcp_vars => McpInv'
  BY McpNextInv
<1>. QED
  BY <1>1, <1>2, PTL DEF McpSpec

\* The table of pending requests holds no entry that nobody waits for, for any number
\* of callers and calls, with every way a request may end, and a server that answers
\* late, twice, out of order or never.
THEOREM NothingLeaksAlways == McpSpec => []NothingLeaks
<1>1. McpInv => NothingLeaks
  BY DEF McpInv
<1>. QED
  BY <1>1, McpInvariant, PTL

\* Null is read only where the server made a request of its own under that id.
Interlopers ==
  /\ \A k \in 1 .. Len(stdout) : stdout[k][2] = Null => stdout[k][1] \in own
  /\ \A i \in Ids : slot[i] = Null => i \in own

LEMMA TailEntries ==
  ASSUME NEW S, NEW s \in Seq(S), s # <<>>
  PROVE  /\ Len(Tail(s)) = Len(s) - 1 /\ Len(s) \in Nat \ {0}
         /\ \A k \in 1 .. Len(Tail(s)) : Tail(s)[k] = s[k + 1]
  OBVIOUS

LEMMA AppendEntries ==
  ASSUME NEW S, NEW s \in Seq(S), NEW e
  PROVE  /\ Len(Append(s, e)) = Len(s) + 1 /\ Len(s) \in Nat
         /\ \A k \in 1 .. Len(s) : Append(s, e)[k] = s[k]
         /\ Append(s, e)[Len(s) + 1] = e
  OBVIOUS

\* A line added that is no request of the server's, or one that is counted.
LEMMA LineAdded ==
  ASSUME McpInv, Interlopers, NEW e, stdout' = Append(stdout, e), own \subseteq own',
         e[2] = Null => e[1] \in own', UNCHANGED slot
  PROVE  Interlopers'
<1>1. stdout \in Seq(Lines)
  BY DEF McpInv, Pipes
<1>2. \A k \in 1 .. Len(stdout)' : stdout'[k][2] = Null => stdout'[k][1] \in own'
  BY <1>1, AppendEntries DEF Interlopers
<1>. QED
  BY <1>2 DEF Interlopers

LEMMA InterlopersNext == McpInv /\ Interlopers /\ [McpNext]_mcp_vars => Interlopers'
<1>. SUFFICES ASSUME McpInv, Interlopers, [McpNext]_mcp_vars PROVE Interlopers'
  OBVIOUS
<1>1. ASSUME UNCHANGED <<stdout, own>>,
             \A i \in Ids : slot'[i] = Null => slot[i] = Null
      PROVE  Interlopers'
  BY <1>1 DEF Interlopers
<1>2. CASE UNCHANGED mcp_vars \/ Notify \/ ServerReads \/ ServerStops
  BY <1>1, <1>2 DEF mcp_vars, table, pipes, Notify, ServerReads, ServerStops
<1>3. ASSUME NEW t \in Threads, Request(t) PROVE Interlopers'
  <2>1. UNCHANGED <<stdout, own>>
    BY <1>3 DEF Request, Insert, Lock, Written, WriteFails, Receive, Expire, GiveUp, Post, Reply, pipes
  <2>2. slot \in [Ids -> Answers \cup Errors \cup {Null, Empty}]
    BY DEF McpInv, Slots
  <2>3. slot' = slot \/ \E j : slot' = [slot EXCEPT ![j] = Empty]
    BY <1>3 DEF Request, Insert, Lock, Written, WriteFails, Receive, Expire, GiveUp, Post, Reply, table
  <2>. QED
    BY <1>1, <2>1, <2>2, <2>3, Outcomes
<1>4. CASE DispatchLine
  <2>1. stdout \in Seq(Lines) /\ stdout # <<>> /\ stdout' = Tail(stdout) /\ own' = own
    BY <1>4 DEF DispatchLine, McpInv, Pipes
  <2>2. Head(stdout) = stdout[1]
    BY <2>1
  <2>3. Head(stdout)[2] = Null => Head(stdout)[1] \in own
    BY <2>1, <2>2, TailEntries DEF Interlopers
  <2>4. \A k \in 1 .. Len(stdout)' : stdout'[k][2] = Null => stdout'[k][1] \in own'
    BY <2>1, TailEntries DEF Interlopers
  <2>5. \A i \in Ids : slot'[i] = Null => i \in own
    <3>1. slot \in [Ids -> Answers \cup Errors \cup {Null, Empty}]
      BY DEF McpInv, Slots
    <3>. QED
      BY <1>4, <2>3, <3>1 DEF DispatchLine, Interlopers
  <2>. QED
    BY <2>1, <2>4, <2>5 DEF Interlopers
<1>5. CASE Drain
  BY <1>1, <1>5, Outcomes DEF Drain, pipes
<1>6. ASSUME NEW again \in BOOLEAN, ServerAnswers(again) PROVE Interlopers'
  <2>1. PICK q \in taken : \E answer \in {Answer(q[2]), Error("rpc")} :
                             stdout' = Append(stdout, <<q[1], answer>>)
    BY <1>6 DEF ServerAnswers
  <2>2. PICK answer \in {Answer(q[2]), Error("rpc")} : stdout' = Append(stdout, <<q[1], answer>>)
    BY <2>1
  <2>3. answer # Null
    BY DEF Answer, Error, Null
  <2>4. UNCHANGED <<own, slot>>
    BY <1>6 DEF ServerAnswers, table
  <2>. QED
    BY <2>2, <2>3, <2>4, LineAdded
<1>7. ASSUME NEW i \in Ids, ServerAsks(i) PROVE Interlopers'
  BY <1>7, LineAdded DEF ServerAsks, table
<1>. QED
  BY <1>2, <1>3, <1>4, <1>5, <1>6, <1>7, McpSteps

\* No caller is handed the answer to a request other than its own; what is no answer
\* reaches it only from a request of the server's own that bears its number.
THEOREM OwnAnswerAlways == McpSpec => []OwnAnswer
<1>1. McpInit => Interlopers
  BY Outcomes DEF McpInit, Interlopers
<1>2. McpInv /\ Interlopers => OwnAnswer
  BY DEF McpInv, Interlopers, OwnAnswer, Slots, NumberedOnce, InFlight
<1>. QED
  BY <1>1, <1>2, InterlopersNext, McpInvariant, PTL DEF McpSpec

\* Two requests in flight never share a number, and the numbers last: what the two
\* theorems above rest on.
THEOREM NumbersAreUnique == McpSpec => [](OneEach /\ NumbersLast)
<1>1. McpInv => OneEach /\ NumbersLast
  BY DEF McpInv
<1>. QED
  BY <1>1, McpInvariant, PTL

=============================================================================
