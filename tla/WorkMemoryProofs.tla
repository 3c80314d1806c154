--------------------------- MODULE WorkMemoryProofs ---------------------------
(***************************************************************************)
(* Proofs about WorkMemory, for any files, excerpts and limits.            *)
(***************************************************************************)
EXTENDS WorkMemory, SequenceTheorems, FiniteSetTheorems, WellFoundedInduction, TLAPS

-----------------------------------------------------------------------------
(* The inductive invariant *)

\* An excerpt has a line, and only lines of its own were read.
Excerpts == {g \in [first : Nat, last : Nat, seen : SUBSET Nat] :
                Span(g) # {} /\ g.seen \subseteq Span(g)}
Apart(fragments) ==
    \A i, j \in DOMAIN fragments : Span(fragments[i]) \subseteq Span(fragments[j]) => i = j
SeenIn(fragments) == UNION {fragments[i].seen : i \in DOMAIN fragments}

\* What is kept of the present version of a file was read.
GoodEntry(e) ==
    /\ e \in [version : Nat, item : Items, age : 0..AgeBound, fragments : Seq(Excerpts)]
    /\ Apart(e.fragments) /\ Size(e.fragments) <= ContextLimit
GoodCache(cache, at, read) ==
    /\ DOMAIN cache \subseteq Files /\ Cardinality(DOMAIN cache) <= MaxEvidenceFiles
    /\ \A f \in DOMAIN cache :
          /\ GoodEntry(cache[f]) /\ cache[f].version <= at[f]
          /\ cache[f].version = at[f] => SeenIn(cache[f].fragments) \subseteq read[f]
GoodCoverage(coverage, at, read) ==
    /\ coverage \in [Files -> [version : Nat, lines : SUBSET Nat]]
    /\ \A f \in Files : /\ coverage[f].version <= at[f]
                        /\ coverage[f].version = at[f] => coverage[f].lines \subseteq read[f]

Fields == {"outcome", "planned", "current", "cache", "coverage", "searched", "verdicts", "items",
           "noProgress", "undelivered", "guided"}
GoodMemory(m) ==
    /\ DOMAIN m = Fields
    /\ m.outcome \in {"running", "blocked", "generated"}
    /\ m.current \in Items /\ m.planned \in BOOLEAN /\ m.searched \in BOOLEAN
    /\ m.verdicts \subseteq Checks \X BOOLEAN
    /\ m.noProgress \in 0..MaxDuplicateSteps
Turns == [left : 0..BatchLimit, window : BOOLEAN, inspected : BOOLEAN]
WorldOK ==
    /\ source \in [Files -> 0..VersionBound]
    /\ shown \in [Files -> SUBSET Nat] /\ \A f \in Files : shown[f] \subseteq Lines(f)
    /\ turn \in Turns
MemoryInv ==
    /\ WorldOK /\ GoodMemory(memory)
    /\ GoodCache(memory.cache, source, shown)
    /\ GoodCoverage(memory.coverage, source, shown)

-----------------------------------------------------------------------------
(* Positions *)

\* A set of numbers that is not empty has a least one.
LEMMA LeastNumber ==
    ASSUME NEW S, S \subseteq Nat, S # {}
    PROVE  \E n \in S : \A m \in S : n <= m
<1>1. PICK n \in S : \A m \in S : ~(<<m, n>> \in OpToRel(<, Nat))
  BY NatLessThanWellFounded, WFMin
<1>2. ASSUME NEW m \in S PROVE n <= m
  <2>1. m \in Nat /\ n \in Nat OBVIOUS
  <2>2. ~(m < n) BY <1>1, <2>1 DEF OpToRel
  <2> QED BY <2>1, <2>2
<1> QED BY <1>2

\* One that is bounded has a greatest one.
LEMMA GreatestNumber ==
    ASSUME NEW n \in Nat, NEW S, S \subseteq 1 .. n, S # {}
    PROVE  \E g \in S : \A m \in S : m <= g
<1> DEFINE above == {u \in Nat : \A m \in S : m <= u}
<1>1. above \subseteq Nat /\ n \in above OBVIOUS
<1>2. PICK u \in above : \A v \in above : u <= v BY <1>1, LeastNumber
<1>3. u \in S
  <2> SUFFICES ASSUME u \notin S PROVE FALSE OBVIOUS
  <2>1. PICK m \in S : TRUE OBVIOUS
  <2>2. m \in Nat /\ 1 <= m /\ m <= u /\ u \in Nat BY <1>2
  <2>3. u - 1 \in Nat BY <2>2
  <2>4. ASSUME NEW k \in S PROVE k <= u - 1
    <3>1. k \in Nat /\ k <= u /\ k # u BY <1>2
    <3> QED BY <3>1, <2>2
  <2>5. u - 1 \in above BY <2>3, <2>4
  <2>6. u <= u - 1 BY <1>2, <2>5
  <2> QED BY <2>2, <2>6
<1> QED BY <1>2, <1>3

\* As many positions are counted as there are: each number has its position.
LEMMA EveryRankIsTaken ==
    ASSUME NEW n \in Nat, NEW P \in SUBSET (1 .. n), NEW k \in 1 .. Cardinality(P)
    PROVE  \E i \in P : Cardinality(UpTo(P, i)) = k
<1>1. IsFiniteSet(P)
  <2>1. IsFiniteSet(1 .. n) BY FS_Interval
  <2> QED BY <2>1, FS_Subset
<1>2. ASSUME NEW i PROVE IsFiniteSet(UpTo(P, i)) /\ Cardinality(UpTo(P, i)) \in Nat
  <2>1. UpTo(P, i) \in SUBSET P BY DEF UpTo
  <2> QED BY <1>1, <2>1, FS_Subset, FS_CardinalityType
<1>3. Cardinality(P) \in Nat /\ k \in Nat /\ k >= 1 BY <1>1, FS_CardinalityType
<1> DEFINE enough == {i \in P : Cardinality(UpTo(P, i)) >= k}
<1>4. enough # {}
  <2>1. P # {} BY <1>1, <1>3, FS_EmptySet
  <2>2. PICK g \in P : \A m \in P : m <= g BY <2>1, GreatestNumber
  <2>3. UpTo(P, g) = P BY <2>2 DEF UpTo
  <2> QED BY <2>3, <1>3
<1>5. PICK i \in enough : \A j \in enough : i <= j
  <2>1. enough \subseteq P /\ P \subseteq Nat OBVIOUS
  <2> QED BY <1>4, <2>1, LeastNumber
<1> DEFINE below == UpTo(P, i) \ {i}
<1>6. Cardinality(below) < k
  <2>1. CASE below = {} BY <2>1, <1>3, FS_EmptySet
  <2>2. CASE below # {}
    <3>1. below \subseteq 1 .. n BY DEF UpTo
    <3>2. PICK g \in below : \A m \in below : m <= g BY <2>2, <3>1, GreatestNumber
    <3>3. g \in P /\ g < i BY <3>2 DEF UpTo
    <3>4. below = UpTo(P, g)
      <4>1. i \in Nat /\ g \in Nat BY <3>3
      <4>2. ASSUME NEW j \in P PROVE j \in below <=> j <= g
        <5>1. j \in Nat OBVIOUS
        <5>2. j \in below <=> j <= i /\ j # i BY DEF UpTo
        <5> QED BY <5>1, <5>2, <4>1, <3>2, <3>3
      <4> QED BY <4>2 DEF UpTo
    <3>5. ~(i <= g) BY <3>3
    <3>6. ~(Cardinality(UpTo(P, g)) >= k) BY <1>5, <3>3, <3>5
    <3> QED BY <3>4, <3>6, <1>2, <1>3
  <2> QED BY <2>1, <2>2
<1>7. Cardinality(below) = Cardinality(UpTo(P, i)) - 1
  <2>1. i \in UpTo(P, i) BY DEF UpTo
  <2> QED BY <2>1, <1>2, FS_RemoveElement
<1>8. Cardinality(UpTo(P, i)) >= k /\ i \in P BY <1>5
<1> QED BY <1>2, <1>3, <1>6, <1>7, <1>8

\* The fragments that are kept are at positions of their own.
LEMMA KeptIs ==
    ASSUME NEW E, NEW s \in Seq(E), NEW P \in SUBSET (DOMAIN s)
    PROVE  /\ Kept(s, P) \in Seq(E)
           /\ Cardinality(P) \in Nat /\ DOMAIN Kept(s, P) = 1 .. Cardinality(P)
           /\ \E at \in [1 .. Cardinality(P) -> P] :
                 /\ \A k \in 1 .. Cardinality(P) : Kept(s, P)[k] = s[at[k]]
                 /\ \A k, l \in 1 .. Cardinality(P) : at[k] = at[l] => k = l
<1> DEFINE n == Cardinality(P)
           at == [k \in 1 .. n |-> Nth(P, k)]
<1>1. Len(s) \in Nat /\ DOMAIN s = 1 .. Len(s) /\ P \in SUBSET (1 .. Len(s)) BY LenProperties
<1>2. IsFiniteSet(P) /\ n \in Nat
  <2>1. IsFiniteSet(1 .. Len(s)) BY <1>1, FS_Interval
  <2>2. IsFiniteSet(P) BY <1>1, <2>1, FS_Subset
  <2> QED BY <2>2, FS_CardinalityType
<1>3. ASSUME NEW k \in 1 .. n PROVE Nth(P, k) \in P /\ Cardinality(UpTo(P, Nth(P, k))) = k
  <2>1. \E i \in P : Cardinality(UpTo(P, i)) = k BY <1>1, EveryRankIsTaken
  <2> QED BY <2>1 DEF Nth
<1>4. Kept(s, P) = [k \in 1 .. n |-> s[at[k]]] BY DEF Kept
<1>5. at \in [1 .. n -> P] BY <1>3
<1>11. ASSUME NEW k \in 1 .. n PROVE at[k] \in P /\ Cardinality(UpTo(P, at[k])) = k BY <1>3
<1> HIDE DEF at
<1>6. ASSUME NEW k \in 1 .. n PROVE s[at[k]] \in E
  BY <1>1, <1>11, ElementOfSeq
<1>7. [k \in 1 .. n |-> s[at[k]]] \in Seq(E)
  <2>1. [k \in 1 .. n |-> s[at[k]]] \in [1 .. n -> E] BY <1>6
  <2> QED BY <2>1, <1>2, SeqDef
<1>8. \A k, l \in 1 .. n : at[k] = at[l] => k = l BY <1>11
<1>9. \A k \in 1 .. n : Kept(s, P)[k] = s[at[k]] BY <1>4
<1>10. DOMAIN Kept(s, P) = 1 .. n BY <1>4
<1> QED BY <1>2, <1>4, <1>5, <1>7, <1>8, <1>9, <1>10

-----------------------------------------------------------------------------
(* Excerpts *)

\* An excerpt that absorbs others keeps its lines, and was read where they were.
LEMMA MergedIs ==
    ASSUME NEW g \in Excerpts, NEW absorbed, \A h \in absorbed : h.seen \subseteq Span(g)
    PROVE  /\ MergeProvenance(g, absorbed) \in Excerpts
           /\ Span(MergeProvenance(g, absorbed)) = Span(g)
           /\ MergeProvenance(g, absorbed).seen = g.seen \union UNION {h.seen : h \in absorbed}
<1> DEFINE m == MergeProvenance(g, absorbed)
<1>1. g \in [first : Nat, last : Nat, seen : SUBSET Nat] /\ Span(g) # {} /\ g.seen \subseteq Span(g)
  BY DEF Excerpts
<1>2. m.first = g.first /\ m.last = g.last /\ m.seen = g.seen \union UNION {h.seen : h \in absorbed}
  BY <1>1 DEF MergeProvenance
<1>3. Span(m) = Span(g) BY <1>2 DEF Span
<1>4. m.seen \subseteq Span(g) BY <1>1, <1>2
<1>5. Span(g) \subseteq Nat BY <1>1 DEF Span
<1>6. m \in [first : Nat, last : Nat, seen : SUBSET Nat] BY <1>1, <1>2, <1>4, <1>5 DEF MergeProvenance
<1> QED BY <1>1, <1>2, <1>3, <1>4, <1>6 DEF Excerpts

\* A fragment of a sequence of excerpts is one.
LEMMA FragmentIs ==
    ASSUME NEW s \in Seq(Excerpts), NEW i \in DOMAIN s
    PROVE  s[i] \in Excerpts /\ s[i].seen \subseteq Span(s[i]) /\ Span(s[i]) # {}
<1>1. s[i] \in Excerpts BY LenProperties, ElementOfSeq
<1> QED BY <1>1 DEF Excerpts

\* Nothing counts as read that was not, and no excerpt comes to lie within another.
LEMMA CoalesceIs ==
    ASSUME NEW s \in Seq(Excerpts), Apart(s), NEW f \in Excerpts
    PROVE  /\ Coalesce(s, f) \in Seq(Excerpts) /\ Apart(Coalesce(s, f))
           /\ SeenIn(Coalesce(s, f)) \subseteq SeenIn(s) \union f.seen
<1> DEFINE covering == {i \in DOMAIN s : Span(f) \subseteq Span(s[i])}
           inside == {i \in DOMAIN s : Span(s[i]) \subseteq Span(f)}
           outside == DOMAIN s \ inside
           c == Coalesce(s, f)
<1>1. Len(s) \in Nat /\ DOMAIN s = 1 .. Len(s) BY LenProperties
<1>2. f.seen \subseteq Span(f) BY DEF Excerpts
<1>3. CASE covering # {}
  <2> DEFINE i == CHOOSE i \in covering : \A j \in covering : i <= j
  <2>1. i \in covering
    <3>1. covering \subseteq Nat BY <1>1
    <3>2. \E k \in covering : \A j \in covering : k <= j BY <1>3, <3>1, LeastNumber
    <3> QED BY <3>2
  <2>2. c = [s EXCEPT ![i] = MergeProvenance(@, {f})] BY <1>3 DEF Coalesce
  <2> HIDE DEF i
  <2>3. i \in 1 .. Len(s) /\ s[i] \in Excerpts /\ f.seen \subseteq Span(s[i])
    BY <1>1, <1>2, <2>1, FragmentIs
  <2> DEFINE m == MergeProvenance(s[i], {f})
  <2>4. m \in Excerpts /\ Span(m) = Span(s[i]) /\ m.seen = s[i].seen \union f.seen
    <3>1. UNION {h.seen : h \in {f}} = f.seen OBVIOUS
    <3>2. \A h \in {f} : h.seen \subseteq Span(s[i]) BY <2>3
    <3> QED BY <2>3, <3>1, <3>2, MergedIs
  <2>5. c = [s EXCEPT ![i] = m] BY <2>2, <2>3
  <2> HIDE DEF m
  <2>6. /\ c \in Seq(Excerpts) /\ Len(c) = Len(s) /\ DOMAIN c = DOMAIN s
        /\ \A j \in 1 .. Len(s) : c[j] = IF j = i THEN m ELSE s[j]
    <3> HIDE DEF c
    <3> QED BY <2>3, <2>4, <2>5, <1>1, ExceptSeq, LenProperties
  <2> HIDE DEF c
  <2>7. \A j \in DOMAIN s : Span(c[j]) = Span(s[j]) BY <2>4, <2>6, <1>1
  <2>8. Apart(c) BY <2>6, <2>7 DEF Apart
  <2>9. ASSUME NEW j \in DOMAIN c PROVE c[j].seen \subseteq SeenIn(s) \union f.seen
    <3>1. c[j].seen \subseteq s[j].seen \union f.seen BY <2>4, <2>6, <1>1
    <3> QED BY <3>1, <2>6 DEF SeenIn
  <2>10. SeenIn(c) \subseteq SeenIn(s) \union f.seen BY <2>9 DEF SeenIn
  <2> QED BY <2>6, <2>8, <2>10 DEF c
<1>4. CASE covering = {}
  <2> DEFINE k == Kept(s, outside)
             absorbed == {s[i] : i \in inside}
             m == MergeProvenance(f, absorbed)
  <2>1. c = Append(k, m) BY <1>4 DEF Coalesce
  <2>2. m \in Excerpts /\ Span(m) = Span(f) /\ m.seen = f.seen \union UNION {h.seen : h \in absorbed}
    <3>1. ASSUME NEW i \in inside PROVE s[i].seen \subseteq Span(f)
      <4>1. s[i].seen \subseteq Span(s[i]) BY FragmentIs
      <4> QED BY <4>1
    <3>2. \A h \in absorbed : h.seen \subseteq Span(f) BY <3>1
    <3> QED BY <3>2, MergedIs
  <2>3. \A h \in absorbed : h.seen \subseteq SeenIn(s) BY DEF SeenIn
  <2>4. outside \in SUBSET (DOMAIN s) OBVIOUS
  <2>5. k \in Seq(Excerpts) /\ Cardinality(outside) \in Nat /\ DOMAIN k = 1 .. Cardinality(outside)
    BY <2>4, KeptIs
  <2> HIDE DEF inside, outside
  <2>6. PICK at \in [1 .. Cardinality(outside) -> outside] :
                 /\ \A j \in 1 .. Cardinality(outside) : k[j] = s[at[j]]
                 /\ \A j, l \in 1 .. Cardinality(outside) : at[j] = at[l] => j = l
    <3>1. s \in Seq(Excerpts) OBVIOUS
    <3> QED BY ONLY <2>4, <3>1, KeptIs
  <2>7. Len(k) = Cardinality(outside) BY <2>5, LenProperties
  <2>0. \A i \in outside : /\ i \in DOMAIN s /\ ~(Span(s[i]) \subseteq Span(f))
                            /\ ~(Span(f) \subseteq Span(s[i]))
    BY <1>4 DEF outside, inside
  <2> HIDE DEF k
  <2>8. ASSUME NEW j \in 1 .. Len(k)
        PROVE  /\ at[j] \in DOMAIN s /\ k[j] = s[at[j]]
               /\ ~(Span(k[j]) \subseteq Span(f)) /\ ~(Span(f) \subseteq Span(k[j]))
    <3>1. j \in 1 .. Cardinality(outside) BY <2>7
    <3>2. at[j] \in outside /\ k[j] = s[at[j]] BY ONLY <3>1, <2>6
    <3> QED BY ONLY <3>2, <2>0
  <2> HIDE DEF k, m, c, absorbed
  <2>9. /\ c \in Seq(Excerpts) /\ Len(c) = Len(k) + 1
        /\ \A j \in 1 .. Len(k) : c[j] = k[j]
        /\ c[Len(k) + 1] = m
    BY <2>1, <2>2, <2>5, AppendProperties
  <2>10. DOMAIN c = 1 .. (Len(k) + 1) /\ Len(k) \in Nat BY <2>5, <2>9, LenProperties
  <2>11. ASSUME NEW j \in DOMAIN c
         PROVE  \/ j \in 1 .. Len(k) /\ c[j] = k[j]
                \/ j = Len(k) + 1 /\ c[j] = m
    BY <2>9, <2>10
  <2>12. ASSUME NEW j \in DOMAIN c, NEW l \in DOMAIN c, Span(c[j]) \subseteq Span(c[l]) PROVE j = l
    <3>1. CASE j \in 1 .. Len(k) /\ c[j] = k[j] /\ l \in 1 .. Len(k) /\ c[l] = k[l]
      <4>1. at[j] = at[l] BY <3>1, <2>8, <2>12 DEF Apart
      <4> QED BY <4>1, <3>1, <2>6, <2>7
    <3>2. CASE j \in 1 .. Len(k) /\ c[j] = k[j] /\ c[l] = m BY <3>2, <2>8, <2>2, <2>12
    <3>3. CASE c[j] = m /\ l \in 1 .. Len(k) /\ c[l] = k[l] BY <3>3, <2>8, <2>2, <2>12
    <3> QED BY <3>1, <3>2, <3>3, <2>11
  <2>13. ASSUME NEW j \in DOMAIN c PROVE c[j].seen \subseteq SeenIn(s) \union f.seen
    <3>1. CASE j \in 1 .. Len(k) /\ c[j] = k[j] BY <3>1, <2>8 DEF SeenIn
    <3>2. CASE c[j] = m BY <3>2, <2>2, <2>3
    <3> QED BY <3>1, <3>2, <2>11
  <2>14. SeenIn(c) \subseteq SeenIn(s) \union f.seen BY <2>13 DEF SeenIn
  <2>15. Apart(c) BY <2>12 DEF Apart
  <2> QED BY <2>9, <2>14, <2>15 DEF c
<1> QED BY <1>3, <1>4

\* Dropping the oldest excerpts keeps the others, and brings the file within the limit.
LEMMA BoundedIs ==
    ASSUME NEW s \in Seq(Excerpts), Apart(s)
    PROVE  /\ Bounded(s) \in Seq(Excerpts) /\ Apart(Bounded(s)) /\ Size(Bounded(s)) <= ContextLimit
           /\ SeenIn(Bounded(s)) \subseteq SeenIn(s)
<1> DEFINE n == Len(s)
           fits == {i \in 0..n : Size(SubSeq(s, i + 1, n)) <= ContextLimit}
           i == CHOOSE i \in fits : \A j \in fits : i <= j
           b == SubSeq(s, i + 1, n)
<1>1. n \in Nat /\ DOMAIN s = 1 .. n BY LenProperties
<1>2. n \in fits
  <2>1. SubSeq(s, n + 1, n) = << >> BY <1>1, SubSeqEmpty
  <2>2. Size(<< >>) = Cardinality({}) BY DEF Size
  <2>3. Size(<< >>) <= ContextLimit BY <2>2, FS_EmptySet, MemoryAssumption
  <2>4. Size(SubSeq(s, n + 1, n)) <= ContextLimit BY <2>1, <2>3
  <2>5. n \in 0 .. n BY <1>1
  <2> QED BY <2>4, <2>5
<1>3. i \in fits
  <2>1. fits \subseteq Nat BY <1>1
  <2>2. \E k \in fits : \A j \in fits : k <= j BY <1>2, <2>1, LeastNumber
  <2> QED BY <2>2
<1>4. Bounded(s) = b BY DEF Bounded
<1>5. i \in 0 .. n /\ Size(b) <= ContextLimit BY <1>3
<1> HIDE DEF fits
<1> HIDE DEF i
<1>6. i \in Nat /\ i <= n BY <1>1, <1>5
<1>7. \A j \in i + 1 .. n : s[j] \in Excerpts BY <1>1, <1>6, ElementOfSeq
<1>8. /\ b \in Seq(Excerpts) /\ Len(b) = IF i + 1 <= n THEN n - (i + 1) + 1 ELSE 0
      /\ \A j \in 1 .. n - (i + 1) + 1 : b[j] = s[i + 1 + j - 1]
  BY <1>1, <1>6, <1>7, SubSeqProperties
<1> HIDE DEF b, n
<1>9. DOMAIN b = 1 .. (n - i)
  <2>1. Len(b) = n - i
    <3>1. CASE i + 1 <= n BY <3>1, <1>8, <1>6, <1>1
    <3>2. CASE ~(i + 1 <= n)
      <4>1. n = i /\ n - i = 0 BY <3>2, <1>6, <1>1
      <4> QED BY <4>1, <3>2, <1>8
    <3> QED BY <3>1, <3>2
  <2> QED BY <2>1, <1>8, LenProperties
<1>10. ASSUME NEW j \in DOMAIN b PROVE i + j \in DOMAIN s /\ b[j] = s[i + j]
  <2>1. j \in Nat /\ 1 <= j /\ j <= n - i BY <1>9, <1>6, <1>1
  <2>2. i + 1 + j - 1 = i + j /\ j \in 1 .. n - (i + 1) + 1 BY <2>1, <1>6, <1>1
  <2>3. b[j] = s[i + 1 + j - 1] BY <2>2, <1>8
  <2>4. b[j] = s[i + j] BY <2>2, <2>3
  <2>5. i + j \in 1 .. n BY <2>1, <1>6, <1>1
  <2> QED BY <2>4, <2>5, <1>1
<1>11. Apart(b)
  <2>1. ASSUME NEW j \in DOMAIN b, NEW l \in DOMAIN b, Span(b[j]) \subseteq Span(b[l]) PROVE j = l
    <3>1. i + j = i + l BY <1>10, <2>1 DEF Apart
    <3>2. j \in Nat /\ l \in Nat BY <1>9
    <3> QED BY <3>1, <3>2, <1>6
  <2> QED BY <2>1 DEF Apart
<1>12. SeenIn(b) \subseteq SeenIn(s) BY <1>10 DEF SeenIn
<1> QED BY <1>4, <1>5, <1>8, <1>11, <1>12

-----------------------------------------------------------------------------
(* The cache and the counters *)

LEMMA Limits ==
    /\ Excerpt \in Nat /\ 1 <= Excerpt /\ BatchLimit \in Nat /\ 1 <= BatchLimit
    /\ MaxEvidenceFiles \in Nat /\ 1 <= MaxEvidenceFiles /\ ContextLimit \in Nat
    /\ MaxDuplicateSteps \in Nat /\ VersionBound \in Nat /\ AgeBound \in Nat
<1>1. {Excerpt, BatchLimit, MaxEvidenceFiles, ContextLimit} \subseteq Nat \ {0} BY MemoryAssumption
<1>2. {MaxDuplicateSteps, VersionBound, AgeBound} \subseteq Nat BY MemoryAssumption
<1>3. \A n \in Nat \ {0} : n \in Nat /\ 1 <= n OBVIOUS
<1> QED BY <1>1, <1>2, <1>3

LEMMA LessByOne == \A n, limit \in Nat : n <= limit + 1 => n - 1 <= limit
OBVIOUS

\* What _cache_evidence stores is no more than was read, whichever file it evicts.
LEMMA StoredIs ==
    ASSUME NEW m, NEW at, NEW read, GoodCache(m.cache, at, read), m.current \in Items,
           NEW at2, NEW read2, NEW file \in Files, NEW version \in Nat, version = at2[file],
           NEW f \in Excerpts, f.seen \subseteq read2[file],
           \A g \in Files \ {file} : at2[g] = at[g] /\ read2[g] = read[g],
           file \in DOMAIN m.cache => at2[file] = at[file] /\ read[file] \subseteq read2[file],
           NEW kept \in Stored(m, file, version, f)
    PROVE  GoodCache(kept, at2, read2)
<1> DEFINE old == IF Known(m, file, version) THEN m.cache[file].fragments ELSE <<>>
           entry == [version |-> version, item |-> m.current, age |-> 0,
                     fragments |-> Bounded(Coalesce(old, f))]
           all == Cached(m) \union {file}
           cache == [g \in all |-> IF g = file THEN entry ELSE m.cache[g]]
<1>1. old \in Seq(Excerpts) /\ Apart(old) /\ SeenIn(old) \subseteq read2[file]
  <2>1. CASE Known(m, file, version)
    BY <2>1 DEF Known, Cached, GoodCache, GoodEntry
  <2>2. CASE ~Known(m, file, version)
    <3>1. old = <<>> /\ DOMAIN old = {} BY <2>2
    <3> QED BY <3>1, EmptySeq DEF Apart, SeenIn
  <2> QED BY <2>1, <2>2
<1>2. GoodEntry(entry) /\ SeenIn(entry.fragments) \subseteq read2[file]
  <2> DEFINE c == Coalesce(old, f)
  <2> HIDE DEF old
  <2>1. c \in Seq(Excerpts) /\ Apart(c) /\ SeenIn(c) \subseteq SeenIn(old) \union f.seen
    BY <1>1, CoalesceIs
  <2> HIDE DEF c
  <2>2. /\ Bounded(c) \in Seq(Excerpts) /\ Apart(Bounded(c)) /\ Size(Bounded(c)) <= ContextLimit
        /\ SeenIn(Bounded(c)) \subseteq SeenIn(c)
    BY <2>1, BoundedIs
  <2>3. entry = [version |-> version, item |-> m.current, age |-> 0, fragments |-> Bounded(c)]
    BY DEF c
  <2>4. 0 \in 0 .. AgeBound BY Limits
  <2> QED BY <1>1, <2>1, <2>2, <2>3, <2>4 DEF GoodEntry
<1>3. IsFiniteSet(DOMAIN m.cache) /\ IsFiniteSet(all)
  <2>1. IsFiniteSet(DOMAIN m.cache) BY MemoryAssumption, FS_Subset DEF GoodCache
  <2> QED BY <2>1, FS_AddElement DEF Cached
<1>4. Cardinality(all) <= MaxEvidenceFiles + 1 /\ Cardinality(all) \in Nat
  <2>1. Cardinality(DOMAIN m.cache) \in Nat /\ Cardinality(all) \in Nat /\ MaxEvidenceFiles \in Nat
    BY <1>3, FS_CardinalityType, Limits
  <2>2. Cardinality(all) <= Cardinality(DOMAIN m.cache) + 1 BY <1>3, <2>1, FS_AddElement DEF Cached
  <2> QED BY <2>1, <2>2 DEF GoodCache
<1>5. \/ kept = cache /\ Cardinality(all) <= MaxEvidenceFiles
      \/ \E victim \in all : kept = [g \in all \ {victim} |-> cache[g]]
  <2>1. DOMAIN cache = all OBVIOUS
  <2> QED BY <2>1 DEF Stored
<1> HIDE DEF entry
<1>6. ASSUME NEW g \in all
      PROVE  /\ GoodEntry(cache[g]) /\ cache[g].version <= at2[g]
             /\ cache[g].version = at2[g] => SeenIn(cache[g].fragments) \subseteq read2[g]
  <2>1. CASE g = file
    <3>1. cache[g] = entry /\ entry.version = version BY <2>1 DEF entry
    <3> QED BY <2>1, <3>1, <1>2
  <2>2. CASE g # file
    <3>1. g \in DOMAIN m.cache /\ g \in Files /\ cache[g] = m.cache[g]
      BY <2>2 DEF Cached, GoodCache
    <3> QED BY <2>2, <3>1 DEF GoodCache
  <2> QED BY <2>1, <2>2
<1>7. all \subseteq Files BY DEF Cached, GoodCache
<1>8. DOMAIN cache = all OBVIOUS
<1> HIDE DEF cache, all
<1>9. CASE kept = cache /\ Cardinality(all) <= MaxEvidenceFiles
  BY <1>6, <1>7, <1>8, <1>9 DEF GoodCache
<1>10. ASSUME NEW victim \in all, kept = [g \in all \ {victim} |-> cache[g]]
       PROVE  GoodCache(kept, at2, read2)
  <2>1. DOMAIN kept = all \ {victim} /\ \A g \in all \ {victim} : kept[g] = cache[g] BY <1>10
  <2>2. Cardinality(all \ {victim}) = Cardinality(all) - 1 BY <1>3, FS_RemoveElement
  <2>3. Cardinality(all \ {victim}) <= MaxEvidenceFiles
    <3>1. MaxEvidenceFiles \in Nat BY Limits
    <3> QED BY <2>2, <1>4, <3>1, LessByOne
  <2> QED BY <1>6, <1>7, <2>1, <2>3 DEF GoodCache
<1> QED BY <1>5, <1>9, <1>10

\* A file that leaves the cache leaves the rest as it is.
LEMMA DroppedIs ==
    ASSUME NEW cache, NEW at, NEW read, GoodCache(cache, at, read), NEW file
    PROVE  GoodCache([f \in DOMAIN cache \ {file} |-> cache[f]], at, read)
<1> DEFINE rest == [f \in DOMAIN cache \ {file} |-> cache[f]]
<1>1. DOMAIN rest = DOMAIN cache \ {file} /\ \A f \in DOMAIN rest : rest[f] = cache[f] OBVIOUS
<1>2. IsFiniteSet(DOMAIN cache) BY MemoryAssumption, FS_Subset DEF GoodCache
<1>3. Cardinality(DOMAIN rest) <= Cardinality(DOMAIN cache) BY <1>1, <1>2, FS_Subset
<1>4. /\ Cardinality(DOMAIN rest) \in Nat /\ Cardinality(DOMAIN cache) \in Nat /\ MaxEvidenceFiles \in Nat
  BY <1>1, <1>2, FS_Subset, FS_CardinalityType, Limits
<1>5. Cardinality(DOMAIN rest) <= MaxEvidenceFiles BY <1>3, <1>4 DEF GoodCache
<1> HIDE DEF rest
<1>6. GoodCache(rest, at, read) BY <1>1, <1>5 DEF GoodCache
<1> QED BY <1>6 DEF rest

LEMMA TickIs ==
    ASSUME NEW limit \in Nat, NEW n \in 0 .. limit
    PROVE  Tick(n, limit) \in 0 .. limit /\ 0 \in 0 .. limit
BY DEF Tick

\* record_progress leaves the evidence alone.
LEMMA ProgressIs ==
    ASSUME NEW m, GoodMemory(m), NEW step, step.verdict \subseteq Checks \X BOOLEAN
    PROVE  /\ GoodMemory(Progress(m, step))
           /\ Progress(m, step).outcome = m.outcome /\ Progress(m, step).current = m.current
           /\ Progress(m, step).cache = m.cache /\ Progress(m, step).coverage = m.coverage
<1> DEFINE p == Progress(m, step)
           delivers == step.edits \/ ~(step.verdict \subseteq m.verdicts)
           restarts == step.fresh \/ delivers \/ step.replans
<1>1. DOMAIN p = Fields BY DEF GoodMemory, Progress
<1>2. /\ p.outcome = m.outcome /\ p.current = m.current /\ p.planned = m.planned
      /\ p.cache = m.cache /\ p.coverage = m.coverage /\ p.searched = m.searched
  BY DEF GoodMemory, Progress, Fields
<1>3. p.verdicts = m.verdicts \union step.verdict BY DEF GoodMemory, Progress, Fields
<1>4. p.noProgress = IF restarts THEN 0 ELSE Tick(m.noProgress, MaxDuplicateSteps)
  BY DEF GoodMemory, Progress, Fields
<1>5. p.noProgress \in 0 .. MaxDuplicateSteps BY <1>4, TickIs, Limits DEF GoodMemory
<1> HIDE DEF p
<1>6. GoodMemory(p) BY <1>1, <1>2, <1>3, <1>5 DEF GoodMemory
<1> QED BY <1>2, <1>6 DEF p

-----------------------------------------------------------------------------
(* Steps *)

\* A step that a block may end.
LEMMA FinishIs ==
    ASSUME NEW m, GoodMemory(m), NEW left \in 0 .. BatchLimit, NEW inspects \in BOOLEAN,
           turn \in Turns, Finish(m, left, inspects)
    PROVE  /\ turn' \in Turns /\ GoodMemory(memory')
           /\ memory'.cache = m.cache /\ memory'.coverage = m.coverage
<1>1. PICK end \in {IF Stalled(n) THEN [n EXCEPT !.outcome = "blocked"] ELSE n : n \in {m}} :
            /\ memory' = end
            /\ turn' = [turn EXCEPT !.left = IF end.outcome = "running" THEN left ELSE 0,
                                    !.inspected = inspects]
  BY DEF Finish
<1>2. end = [m EXCEPT !.outcome = "blocked"] \/ end = m BY <1>1
<1>3. GoodMemory(end) /\ end.cache = m.cache /\ end.coverage = m.coverage
  <2>1. CASE end = m BY <2>1
  <2>2. CASE end = [m EXCEPT !.outcome = "blocked"] BY <2>2 DEF GoodMemory, Fields
  <2> QED BY <1>2, <2>1, <2>2
<1>4. 0 \in 0 .. BatchLimit BY Limits
<1>5. turn' \in Turns BY <1>1, <1>4 DEF Turns
<1> QED BY <1>1, <1>3, <1>5

\* A step that reads, writes and stores nothing.
LEMMA QuietKeeps ==
    ASSUME MemoryInv, UNCHANGED <<source, shown>>, turn' \in Turns, GoodMemory(memory'),
           memory'.cache = memory.cache, memory'.coverage = memory.coverage
    PROVE  MemoryInv'
<1>1. WorldOK' BY DEF MemoryInv, WorldOK, Turns
<1>2. GoodMemory(memory)' BY DEF GoodMemory
<1>3. GoodCache(memory.cache, source, shown)' /\ GoodCoverage(memory.coverage, source, shown)'
  BY DEF MemoryInv, GoodCache, GoodCoverage, GoodEntry
<1> QED BY <1>1, <1>2, <1>3 DEF MemoryInv

\* The turn has calls left for a tool.
LEMMA TurnsLeft ==
    ASSUME turn \in Turns
    PROVE  /\ turn.left \in 0 .. BatchLimit /\ 0 \in 0 .. BatchLimit
           /\ turn.left > 0 => turn.left - 1 \in 0 .. BatchLimit
<1>1. BatchLimit \in Nat BY Limits
<1>2. turn.left \in 0 .. BatchLimit BY DEF Turns
<1> QED BY <1>1, <1>2

\* Any tool that gives no evidence, and ends the turn or not.
LEMMA StepKeeps ==
    ASSUME MemoryInv, UNCHANGED <<source, shown>>, NEW step, step.verdict \subseteq Checks \X BOOLEAN,
           NEW m, GoodMemory(m), m.cache = memory.cache, m.coverage = memory.coverage,
           NEW left \in 0 .. BatchLimit, NEW inspects \in BOOLEAN, Finish(m, left, inspects)
    PROVE  MemoryInv'
<1>1. turn \in Turns BY DEF MemoryInv, WorldOK
<1>2. /\ turn' \in Turns /\ GoodMemory(memory')
      /\ memory'.cache = memory.cache /\ memory'.coverage = memory.coverage
  BY <1>1, FinishIs
<1> QED BY <1>2, QuietKeeps

LEMMA InitGood == Init => MemoryInv
<1> SUFFICES ASSUME Init PROVE MemoryInv OBVIOUS
<1>1. 1 \in Items
  <2>1. PICK i \in Items : TRUE BY MemoryAssumption
  <2>2. Cardinality(Items) \in Nat BY MemoryAssumption, FS_CardinalityType
  <2>3. i \in 1 .. Cardinality(Items) BY MemoryAssumption
  <2>4. Items = 1 .. Cardinality(Items) BY MemoryAssumption
  <2> QED BY ONLY <2>2, <2>3, <2>4
<1>2. WorldOK BY Limits DEF Init, WorldOK, Turns
<1>3. GoodMemory(memory)
  <2>1. 0 \in 0 .. MaxDuplicateSteps BY Limits
  <2> QED BY <1>1, <2>1 DEF Init, GoodMemory, Fields
<1>4. GoodCache(memory.cache, source, shown)
  <2>1. memory.cache = <<>> /\ DOMAIN memory.cache = {} BY DEF Init
  <2>2. Cardinality({}) <= MaxEvidenceFiles BY FS_EmptySet, Limits
  <2> QED BY <2>1, <2>2 DEF GoodCache
<1>5. GoodCoverage(memory.coverage, source, shown) BY DEF Init, GoodCoverage
<1> QED BY <1>2, <1>3, <1>4, <1>5 DEF MemoryInv

LEMMA StartTurnKeeps == ASSUME MemoryInv, StartTurn PROVE MemoryInv'
<1>1. GoodMemory(memory) /\ GoodCache(memory.cache, source, shown) /\ turn \in Turns
  BY DEF MemoryInv, WorldOK
<1>2. /\ DOMAIN memory' = Fields
      /\ memory'.cache = [f \in DOMAIN memory.cache |-> Older(memory.cache[f])]
      /\ memory'.coverage = memory.coverage
      /\ \A k \in Fields \ {"cache", "guided"} : memory'[k] = memory[k]
  BY <1>1 DEF StartTurn, GoodMemory, Fields
<1>3. GoodMemory(memory') BY <1>1, <1>2 DEF GoodMemory, Fields
<1>4. GoodCache(memory'.cache, source, shown)
  <2>1. ASSUME NEW f \in DOMAIN memory.cache
        PROVE  /\ GoodEntry(memory'.cache[f]) /\ memory'.cache[f].version = memory.cache[f].version
               /\ memory'.cache[f].fragments = memory.cache[f].fragments
    <3>1. GoodEntry(memory.cache[f]) BY <1>1 DEF GoodCache
    <3>2. memory'.cache[f] = [memory.cache[f] EXCEPT !.age = Tick(@, AgeBound)] BY <1>2 DEF Older
    <3>3. Tick(memory.cache[f].age, AgeBound) \in 0 .. AgeBound
      BY <3>1, TickIs, Limits DEF GoodEntry
    <3> QED BY <3>1, <3>2, <3>3 DEF GoodEntry
  <2>2. DOMAIN memory'.cache = DOMAIN memory.cache BY <1>2
  <2> QED BY <1>1, <2>1, <2>2 DEF GoodCache
<1>5. turn' \in Turns
  <2>1. \E open \in BOOLEAN :
           turn' \in [left : IF open THEN 1..BatchLimit ELSE {1}, window : {open}, inspected : {FALSE}]
    BY DEF StartTurn
  <2>2. 1 \in 1 .. BatchLimit /\ 1 .. BatchLimit \subseteq 0 .. BatchLimit BY Limits
  <2> QED BY <2>1, <2>2 DEF Turns
<1>6. WorldOK' BY <1>5 DEF MemoryInv, WorldOK, StartTurn, Turns
<1>7. source' = source /\ shown' = shown BY DEF StartTurn
<1>8. GoodCoverage(memory'.coverage, source, shown) BY <1>2 DEF MemoryInv
<1> QED BY <1>3, <1>4, <1>6, <1>7, <1>8 DEF MemoryInv

LEMMA SearchKeeps == ASSUME MemoryInv, Search PROVE MemoryInv'
<1> DEFINE step == [Nothing EXCEPT !.reads = TRUE, !.fresh = ~memory.searched]
           p == Progress(memory, step)
           m == [p EXCEPT !.searched = TRUE]
<1>1. step.verdict \subseteq Checks \X BOOLEAN BY DEF Nothing
<1> HIDE DEF step
<1>2. GoodMemory(p) /\ p.cache = memory.cache /\ p.coverage = memory.coverage
  BY <1>1, ProgressIs DEF MemoryInv
<1>3. Finish(m, turn.left - 1, TRUE) /\ UNCHANGED <<source, shown>> /\ turn.left > 0
  BY DEF Search, step
<1> HIDE DEF p
<1>4. GoodMemory(m) /\ m.cache = memory.cache /\ m.coverage = memory.coverage
  BY <1>2 DEF GoodMemory, Fields
<1> HIDE DEF m
<1>5. turn.left - 1 \in 0 .. BatchLimit BY <1>3, TurnsLeft DEF MemoryInv, WorldOK
<1> QED BY <1>1, <1>3, <1>4, <1>5, StepKeeps

LEMMA PlanKeeps == ASSUME MemoryInv, Plan PROVE MemoryInv'
<1> DEFINE step == [Nothing EXCEPT !.replans = TRUE]
           p == Progress(memory, step)
           m == [p EXCEPT !.planned = TRUE]
<1>1. step.verdict \subseteq Checks \X BOOLEAN BY DEF Nothing
<1> HIDE DEF step
<1>2. GoodMemory(p) /\ p.cache = memory.cache /\ p.coverage = memory.coverage
  BY <1>1, ProgressIs DEF MemoryInv
<1>3. Finish(m, 0, FALSE) /\ UNCHANGED <<source, shown>> BY DEF Plan, step
<1> HIDE DEF p
<1>4. GoodMemory(m) /\ m.cache = memory.cache /\ m.coverage = memory.coverage
  BY <1>2 DEF GoodMemory, Fields
<1> HIDE DEF m
<1>5. 0 \in 0 .. BatchLimit BY Limits
<1> QED BY <1>1, <1>3, <1>4, <1>5, StepKeeps

LEMMA FruitlessKeeps == ASSUME MemoryInv, Fruitless PROVE MemoryInv'
<1> DEFINE p == Progress(memory, Nothing)
<1>1. Nothing.verdict \subseteq Checks \X BOOLEAN BY DEF Nothing
<1>2. GoodMemory(p) /\ p.cache = memory.cache /\ p.coverage = memory.coverage
  BY <1>1, ProgressIs DEF MemoryInv
<1>3. Finish(p, 0, FALSE) /\ UNCHANGED <<source, shown>> BY DEF Fruitless
<1> HIDE DEF p
<1>4. 0 \in 0 .. BatchLimit BY Limits
<1> QED BY <1>1, <1>2, <1>3, <1>4, StepKeeps

\* A verdict is about a check.
LEMMA VerdictIs ==
    ASSUME NEW c \in Checks, NEW ok \in BOOLEAN
    PROVE  [Nothing EXCEPT !.verdict = {<<c, ok>>}].verdict \subseteq Checks \X BOOLEAN
BY DEF Nothing

LEMMA RunCheckKeeps ==
    ASSUME MemoryInv, NEW c \in Checks, NEW ok \in BOOLEAN, RunCheck(c, ok)
    PROVE  MemoryInv'
<1> DEFINE step == [Nothing EXCEPT !.verdict = {<<c, ok>>}]
           p == Progress(memory, step)
<1>1. step.verdict \subseteq Checks \X BOOLEAN BY VerdictIs
<1> HIDE DEF step
<1>2. GoodMemory(p) /\ p.cache = memory.cache /\ p.coverage = memory.coverage
  BY <1>1, ProgressIs DEF MemoryInv
<1>3. Finish(p, 0, FALSE) /\ UNCHANGED <<source, shown>> BY DEF RunCheck, step
<1> HIDE DEF p
<1>4. 0 \in 0 .. BatchLimit BY Limits
<1> QED BY <1>1, <1>2, <1>3, <1>4, StepKeeps

LEMMA CompleteItemKeeps ==
    ASSUME MemoryInv, NEW c \in Checks, NEW ok \in BOOLEAN, CompleteItem(c, ok)
    PROVE  MemoryInv'
<1> DEFINE step == [Nothing EXCEPT !.verdict = {<<c, ok>>}]
           p == Progress(memory, step)
           done == [p EXCEPT !.noProgress = 0, !.undelivered = 0, !.guided = {},
                             !.current = IF @ + 1 \in Items THEN @ + 1 ELSE @,
                             !.outcome = IF p.current + 1 \in Items THEN @ ELSE "generated"]
<1>1. step.verdict \subseteq Checks \X BOOLEAN BY VerdictIs
<1> HIDE DEF step
<1>2. GoodMemory(p) /\ p.cache = memory.cache /\ p.coverage = memory.coverage
  BY <1>1, ProgressIs DEF MemoryInv
<1>3. /\ memory' = IF ~ok THEN p ELSE done
      /\ turn' = [turn EXCEPT !.left = 0] /\ UNCHANGED <<source, shown>>
  BY DEF CompleteItem, step
<1> HIDE DEF p
<1>4. 0 \in 0 .. MaxDuplicateSteps BY Limits
<1>5. GoodMemory(done) /\ done.cache = memory.cache /\ done.coverage = memory.coverage
  BY <1>2, <1>4 DEF GoodMemory, Fields
<1> HIDE DEF done
<1>6. turn' \in Turns BY <1>3, TurnsLeft DEF MemoryInv, WorldOK, Turns
<1> QED BY <1>2, <1>3, <1>5, <1>6, QuietKeeps

LEMMA RetryKeeps == ASSUME MemoryInv, Retry PROVE MemoryInv'
<1>1. GoodMemory(memory) BY DEF MemoryInv
<1>2. /\ DOMAIN memory' = Fields /\ memory'.outcome = "running" /\ memory'.noProgress = 0
      /\ memory'.cache = memory.cache /\ memory'.coverage = memory.coverage
      /\ memory'.current = memory.current /\ memory'.planned = memory.planned
      /\ memory'.searched = memory.searched /\ memory'.verdicts = memory.verdicts
  BY <1>1 DEF Retry, GoodMemory, Fields
<1>3. 0 \in 0 .. MaxDuplicateSteps BY Limits
<1>4. GoodMemory(memory') BY <1>1, <1>2, <1>3 DEF GoodMemory
<1>5. UNCHANGED <<source, shown, turn>> /\ turn' \in Turns BY DEF Retry, MemoryInv, WorldOK
<1> QED BY <1>2, <1>4, <1>5, QuietKeeps

LEMMA CoverageIs ==
    ASSUME NEW coverage, NEW at, NEW read, GoodCoverage(coverage, at, read), NEW g \in Files
    PROVE  /\ coverage[g] \in [version : Nat, lines : SUBSET Nat]
           /\ coverage[g].version \in Nat /\ coverage[g].version <= at[g]
           /\ coverage[g].version = at[g] => coverage[g].lines \subseteq read[g]
<1>1. coverage[g] \in [version : Nat, lines : SUBSET Nat] BY DEF GoodCoverage
<1>2. coverage[g].version \in Nat BY <1>1
<1>3. \A f \in Files : coverage[f].version <= at[f] BY DEF GoodCoverage
<1>4. \A f \in Files : coverage[f].version = at[f] => coverage[f].lines \subseteq read[f]
  BY DEF GoodCoverage
<1>5. coverage[g].version <= at[g] BY ONLY <1>3, g \in Files
<1>6. coverage[g].version = at[g] => coverage[g].lines \subseteq read[g] BY ONLY <1>4, g \in Files
<1> QED BY <1>1, <1>2, <1>5, <1>6

LEMMA VersionsAre ==
    ASSUME WorldOK, NEW file \in Files
    PROVE  /\ source[file] \in Nat /\ source[file] <= VersionBound /\ VersionBound \in Nat
           /\ shown[file] \in SUBSET Nat
<1>1. VersionBound \in Nat BY Limits
<1>2. source[file] \in 0 .. VersionBound /\ shown[file] \in SUBSET Nat BY DEF WorldOK
<1> QED BY <1>1, <1>2

\* What a read shows is a range of lines of the file, at least one.
LEMMA VisibleIs ==
    ASSUME NEW file \in Files, NEW a \in Lines(file), NEW b \in Lines(file), a <= b,
           NEW seen, seen = {} \/ seen = a .. VisibleEnd(a, b)
    PROVE  Fragment(a, VisibleEnd(a, b), seen) \in Excerpts /\ a .. VisibleEnd(a, b) \subseteq Lines(file)
<1> DEFINE e == VisibleEnd(a, b)
           g == Fragment(a, e, seen)
<1>1. LineCount[file] \in Nat /\ a \in Nat /\ b \in Nat /\ 1 <= a /\ b <= LineCount[file]
  <2>1. LineCount[file] \in Nat \ {0} BY MemoryAssumption
  <2> QED BY <2>1 DEF Lines
<1>2. e \in Nat /\ a <= e /\ e <= b
  <2>1. Excerpt \in Nat /\ 1 <= Excerpt BY Limits
  <2> QED BY <1>1, <2>1 DEF VisibleEnd
<1> HIDE DEF e
<1>3. a \in a .. e /\ a .. e \subseteq Nat /\ a .. e \subseteq 1 .. LineCount[file] BY <1>1, <1>2
<1>4. seen = {} \/ seen = a .. e BY DEF e
<1>5. g.first = a /\ g.last = e /\ g.seen = seen /\ g = [first |-> a, last |-> e, seen |-> seen]
  BY DEF Fragment
<1>6. Span(g) = a .. e BY <1>5 DEF Span
<1>7. g \in [first : Nat, last : Nat, seen : SUBSET Nat] BY <1>1, <1>2, <1>3, <1>4, <1>5
<1> HIDE DEF g
<1>8. g \in Excerpts BY <1>3, <1>4, <1>5, <1>6, <1>7 DEF Excerpts
<1> QED BY <1>3, <1>8 DEF g, e, Lines

\* A read that shows something: what it shows is cached and counts as read.
LEMMA ShowingKeeps ==
    ASSUME MemoryInv, NEW m, GoodMemory(m), m.cache = memory.cache, m.coverage = memory.coverage,
           NEW file \in Files, NEW visible \in SUBSET Lines(file), NEW f \in Excerpts,
           f.seen = visible, NEW kept \in Stored(m, file, source[file], f),
           NEW n, n = [m EXCEPT !.cache = kept, !.coverage[file] =
                          [version |-> source[file],
                           lines |-> Coverage(memory, file, source[file]) \union visible]],
           turn.left > 0, Finish(n, turn.left - 1, TRUE),
           source' = source, shown' = [shown EXCEPT ![file] = @ \union visible]
    PROVE  MemoryInv'
<1>1. /\ WorldOK /\ GoodCache(memory.cache, source, shown)
      /\ GoodCoverage(memory.coverage, source, shown)
  BY DEF MemoryInv
<1>2. source[file] \in Nat /\ shown[file] \in SUBSET Nat /\ visible \in SUBSET Nat
  <2>1. Lines(file) \subseteq Nat BY DEF Lines
  <2> QED BY <1>1, <2>1, VersionsAre
<1>3. /\ shown'[file] = shown[file] \union visible
      /\ \A g \in Files \ {file} : shown'[g] = shown[g]
      /\ shown' \in [Files -> SUBSET Nat] /\ \A g \in Files : shown'[g] \subseteq Lines(g)
  BY <1>1, <1>2 DEF WorldOK
<1>4. GoodCache(kept, source, shown')
  <2>1. m.current \in Items /\ GoodCache(m.cache, source, shown) BY <1>1 DEF GoodMemory
  <2> DEFINE read2 == shown'
  <2>2. f.seen \subseteq read2[file] /\ shown[file] \subseteq read2[file] BY <1>3
  <2>3. \A g \in Files \ {file} : source[g] = source[g] /\ read2[g] = shown[g] BY <1>3
  <2> HIDE DEF read2
  <2>4. GoodCache(kept, source, read2) BY <1>2, <2>1, <2>2, <2>3, StoredIs
  <2> QED BY <2>4 DEF read2
<1> DEFINE covered == [version |-> source[file],
                       lines |-> Coverage(memory, file, source[file]) \union visible]
<1>5. GoodMemory(n) /\ n.cache = kept /\ n.coverage = [memory.coverage EXCEPT ![file] = covered]
  BY DEF GoodMemory, Fields
<1>6. covered \in [version : Nat, lines : SUBSET Nat] /\ covered.version = source[file]
      /\ covered.lines \subseteq shown'[file]
  <2>1. Coverage(memory, file, source[file]) \subseteq shown[file] BY <1>1 DEF Coverage, GoodCoverage
  <2> QED BY <2>1, <1>2, <1>3
<1> HIDE DEF covered
<1>7. GoodCoverage(n.coverage, source, shown')
  <2> DEFINE c == [memory.coverage EXCEPT ![file] = covered]
  <2>1. c \in [Files -> [version : Nat, lines : SUBSET Nat]] /\ c[file] = covered
        /\ \A g \in Files \ {file} : c[g] = memory.coverage[g]
    BY <1>1, <1>6 DEF GoodCoverage
  <2> HIDE DEF c
  <2>2. ASSUME NEW g \in Files
        PROVE  c[g].version <= source[g] /\ (c[g].version = source[g] => c[g].lines \subseteq shown'[g])
    <3>1. CASE g = file BY <3>1, <2>1, <1>2, <1>6
    <3>2. CASE g # file
      <4>1. c[g] = memory.coverage[g] /\ shown'[g] = shown[g] BY <3>2, <2>1, <1>3
      <4> QED BY <4>1, <1>1, CoverageIs
    <3> QED BY <3>1, <3>2
  <2>3. GoodCoverage(c, source, shown') BY <2>1, <2>2 DEF GoodCoverage
  <2> QED BY <2>3, <1>5 DEF c
<1>8. /\ turn' \in Turns /\ GoodMemory(memory') /\ memory'.cache = kept
      /\ memory'.coverage = n.coverage
  <2>1. turn.left - 1 \in 0 .. BatchLimit /\ turn \in Turns BY <1>1, TurnsLeft DEF WorldOK
  <2> QED BY <2>1, <1>5, FinishIs
<1>9. WorldOK' BY <1>1, <1>3, <1>8 DEF WorldOK, Turns
<1> QED BY <1>4, <1>7, <1>8, <1>9 DEF MemoryInv

LEMMA ReadKeeps ==
    ASSUME MemoryInv, NEW file \in Files, NEW a \in Lines(file), NEW b \in Lines(file),
           Read(file, a, b)
    PROVE  MemoryInv'
<1> DEFINE visible == a .. VisibleEnd(a, b)
           hidden == AlreadyVisible(memory, file, a, b)
           repeated == Repeats(memory, file, visible)
           step == [Nothing EXCEPT !.reads = TRUE, !.fresh = ~hidden /\ ~repeated,
                                   !.again = hidden \/ repeated]
           m == Progress(memory, step)
           f == Fragment(a, VisibleEnd(a, b), visible)
           covered == [version |-> source[file],
                       lines |-> Coverage(memory, file, source[file]) \union visible]
<1>1. /\ turn.left > 0 /\ a <= b /\ source' = source
      /\ IF hidden
         THEN Finish(m, turn.left - 1, TRUE) /\ UNCHANGED shown
         ELSE /\ \E kept \in Stored(m, file, source[file], f) :
                    Finish([m EXCEPT !.cache = kept, !.coverage[file] = covered], turn.left - 1, TRUE)
              /\ shown' = [shown EXCEPT ![file] = @ \union visible]
  BY DEF Read
<1>2. step.verdict \subseteq Checks \X BOOLEAN BY DEF Nothing
<1>3. f \in Excerpts /\ visible \subseteq Lines(file) /\ f.seen = visible
  BY <1>1, VisibleIs DEF Fragment
<1> HIDE DEF hidden, step, visible, f
<1>4. GoodMemory(m) /\ m.cache = memory.cache /\ m.coverage = memory.coverage
  BY <1>2, ProgressIs DEF MemoryInv
<1> HIDE DEF m
<1>5. CASE hidden
  <2>1. Finish(m, turn.left - 1, TRUE) /\ UNCHANGED <<source, shown>> BY <1>1, <1>5
  <2>2. turn.left - 1 \in 0 .. BatchLimit BY <1>1, TurnsLeft DEF MemoryInv, WorldOK
  <2> QED BY <1>2, <1>4, <2>1, <2>2, StepKeeps
<1>6. CASE ~hidden
  <2>1. PICK kept \in Stored(m, file, source[file], f) :
               Finish([m EXCEPT !.cache = kept, !.coverage[file] = covered], turn.left - 1, TRUE)
    BY <1>1, <1>6
  <2>2. shown' = [shown EXCEPT ![file] = @ \union visible] BY <1>1, <1>6
  <2> DEFINE n == [m EXCEPT !.cache = kept, !.coverage[file] = covered]
  <2>3. n = [m EXCEPT !.cache = kept, !.coverage[file] = covered] OBVIOUS
  <2>4. Finish(n, turn.left - 1, TRUE) BY <2>1
  <2> HIDE DEF n
  <2> QED BY <1>1, <1>3, <1>4, <2>2, <2>3, <2>4, ShowingKeeps
<1> QED BY <1>5, <1>6

\* What was kept of an older version of a file is not of the present one.
LEMMA ChangedKeeps ==
    ASSUME MemoryInv, NEW file \in Files, WritesLeft,
           source' = [source EXCEPT ![file] = @ + 1], shown' = [shown EXCEPT ![file] = {}]
    PROVE  /\ source' \in [Files -> 0..VersionBound] /\ source'[file] = source[file] + 1
           /\ shown' \in [Files -> SUBSET Nat] /\ \A f \in Files : shown'[f] \subseteq Lines(f)
           /\ shown'[file] = {}
           /\ \A g \in Files \ {file} : source'[g] = source[g] /\ shown'[g] = shown[g]
           /\ GoodCoverage(memory.coverage, source', shown')
           /\ GoodCache(memory.cache, source', shown')
<1>1. /\ WorldOK /\ source \in [Files -> 0 .. VersionBound] /\ shown \in [Files -> SUBSET Nat]
      /\ \A f \in Files : shown[f] \subseteq Lines(f)
      /\ GoodCache(memory.cache, source, shown) /\ GoodCoverage(memory.coverage, source, shown)
  BY DEF MemoryInv, WorldOK
<1>2. source[file] \in Nat /\ source[file] + 1 \in 0 .. VersionBound
  <2>1. source[file] < VersionBound BY DEF WritesLeft
  <2> QED BY <1>1, <2>1, VersionsAre
<1>3. /\ source'[file] = source[file] + 1 /\ shown'[file] = {}
      /\ \A g \in Files \ {file} : source'[g] = source[g] /\ shown'[g] = shown[g]
  BY <1>1
<1>4. source' \in [Files -> 0 .. VersionBound] /\ shown' \in [Files -> SUBSET Nat]
  BY <1>1, <1>2
<1>5. \A f \in Files : shown'[f] \subseteq Lines(f) BY <1>1, <1>3
<1> DEFINE at == source'
           read == shown'
<1>6. at[file] = source[file] + 1 /\ \A g \in Files \ {file} : at[g] = source[g] /\ read[g] = shown[g]
  BY <1>3
<1> HIDE DEF at, read
<1>7. ASSUME NEW g \in Files, NEW v \in Nat, v <= source[g]
      PROVE  v <= at[g] /\ (v = at[g] => g # file)
  <2>1. CASE g = file BY <2>1, <1>2, <1>6, <1>7
  <2>2. CASE g # file BY <2>2, <1>6, <1>7
  <2> QED BY <2>1, <2>2
<1>8. GoodCoverage(memory.coverage, at, read)
  <2>1. ASSUME NEW g \in Files
        PROVE  /\ memory.coverage[g].version <= at[g]
               /\ memory.coverage[g].version = at[g] => memory.coverage[g].lines \subseteq read[g]
    <3>1. /\ memory.coverage[g].version \in Nat /\ memory.coverage[g].version <= source[g]
          /\ memory.coverage[g].version = source[g] => memory.coverage[g].lines \subseteq shown[g]
      BY <1>1, CoverageIs
    <3> QED BY <3>1, <1>6, <1>7
  <2> QED BY <2>1, <1>1 DEF GoodCoverage
<1>9. GoodCache(memory.cache, at, read)
  <2>1. ASSUME NEW g \in DOMAIN memory.cache
        PROVE  /\ memory.cache[g].version <= at[g]
               /\ memory.cache[g].version = at[g] => SeenIn(memory.cache[g].fragments) \subseteq read[g]
    <3>1. /\ g \in Files /\ memory.cache[g].version \in Nat /\ memory.cache[g].version <= source[g]
          /\ memory.cache[g].version = source[g] => SeenIn(memory.cache[g].fragments) \subseteq shown[g]
      BY <1>1 DEF GoodCache, GoodEntry
    <3> QED BY <3>1, <1>6, <1>7
  <2> QED BY <2>1, <1>1 DEF GoodCache
<1> QED BY <1>3, <1>4, <1>5, <1>8, <1>9 DEF at, read

LEMMA OutsideChangeKeeps ==
    ASSUME MemoryInv, NEW file \in Files, OutsideChange(file)
    PROVE  MemoryInv'
<1>1. /\ memory' = [memory EXCEPT !.searched = FALSE, !.verdicts = {}] /\ turn' = turn /\ WritesLeft
      /\ source' = [source EXCEPT ![file] = @ + 1] /\ shown' = [shown EXCEPT ![file] = {}]
  BY DEF OutsideChange
<1>2. /\ GoodMemory(memory') /\ memory'.cache = memory.cache /\ memory'.coverage = memory.coverage
  BY <1>1 DEF MemoryInv, GoodMemory, Fields
<1>3. WorldOK' BY <1>1, ChangedKeeps DEF MemoryInv, WorldOK
<1>4. GoodCoverage(memory.coverage, source', shown') /\ GoodCache(memory.cache, source', shown')
  BY <1>1, ChangedKeeps
<1> QED BY <1>2, <1>3, <1>4 DEF MemoryInv

LEMMA EditKeeps == ASSUME MemoryInv, NEW file \in Files, Edit(file) PROVE MemoryInv'
<1> DEFINE step == [Nothing EXCEPT !.edits = TRUE]
           p == Progress(memory, step)
           m == [p EXCEPT !.items[memory.current].changed = @ \union {file},
                          !.cache = [f \in DOMAIN @ \ {file} |-> @[f]],
                          !.searched = FALSE, !.verdicts = {}]
           f == Fragment(1, VisibleEnd(1, LineCount[file]), {})
<1>1. /\ \E kept \in Stored(m, file, source[file] + 1, f) : Finish([m EXCEPT !.cache = kept], 0, FALSE)
      /\ source' = [source EXCEPT ![file] = @ + 1] /\ shown' = [shown EXCEPT ![file] = {}] /\ WritesLeft
  BY DEF Edit
<1>2. step.verdict \subseteq Checks \X BOOLEAN BY DEF Nothing
<1> HIDE DEF step
<1>3. GoodMemory(p) /\ p.cache = memory.cache /\ p.coverage = memory.coverage
  BY <1>2, ProgressIs DEF MemoryInv
<1> HIDE DEF p
<1>4. GoodMemory(m) /\ m.coverage = memory.coverage
      /\ m.cache = [g \in DOMAIN memory.cache \ {file} |-> memory.cache[g]]
  BY <1>3 DEF GoodMemory, Fields
<1> HIDE DEF m
<1>5. f \in Excerpts /\ f.seen = {}
  <2>1. 1 \in Lines(file) /\ LineCount[file] \in Lines(file) /\ 1 <= LineCount[file]
    <3>1. LineCount[file] \in Nat \ {0} BY MemoryAssumption
    <3> QED BY ONLY <3>1 DEF Lines
  <2>2. f \in Excerpts BY <2>1, VisibleIs
  <2> QED BY <2>2 DEF Fragment
<1> HIDE DEF f
<1>6. PICK kept \in Stored(m, file, source[file] + 1, f) : Finish([m EXCEPT !.cache = kept], 0, FALSE)
  BY <1>1
<1>7. /\ source' \in [Files -> 0..VersionBound] /\ source'[file] = source[file] + 1
      /\ shown' \in [Files -> SUBSET Nat] /\ \A g \in Files : shown'[g] \subseteq Lines(g)
      /\ shown'[file] = {} /\ \A g \in Files \ {file} : source'[g] = source[g] /\ shown'[g] = shown[g]
      /\ GoodCoverage(memory.coverage, source', shown')
  BY <1>1, ChangedKeeps
<1>8. GoodCache(kept, source', shown')
  <2>1. GoodCache(m.cache, source, shown) /\ file \notin DOMAIN m.cache
    BY <1>4, DroppedIs DEF MemoryInv
  <2>2. m.current \in Items BY <1>4 DEF GoodMemory
  <2>3. source[file] + 1 \in Nat BY DEF MemoryInv, WorldOK
  <2> DEFINE at2 == source'
             read2 == shown'
  <2>4. source[file] + 1 = at2[file] /\ f.seen \subseteq read2[file]
        /\ \A g \in Files \ {file} : at2[g] = source[g] /\ read2[g] = shown[g]
    BY <1>5, <1>7
  <2> HIDE DEF at2, read2
  <2>6. file \in Files /\ kept \in Stored(m, file, source[file] + 1, f) /\ f \in Excerpts
    BY <1>5, <1>6
  <2>5. GoodCache(kept, at2, read2) BY ONLY <2>1, <2>2, <2>3, <2>4, <2>6, StoredIs
  <2> QED BY <2>5 DEF at2, read2
<1> DEFINE n == [m EXCEPT !.cache = kept]
<1>9. GoodMemory(n) /\ n.cache = kept /\ n.coverage = memory.coverage
  BY <1>4 DEF GoodMemory, Fields
<1>10. Finish(n, 0, FALSE) BY <1>6
<1> HIDE DEF n
<1>11. turn \in Turns /\ 0 \in 0 .. BatchLimit BY TurnsLeft DEF MemoryInv, WorldOK
<1>12. /\ turn' \in Turns /\ GoodMemory(memory') /\ memory'.cache = kept
       /\ memory'.coverage = memory.coverage
  BY <1>9, <1>10, <1>11, FinishIs
<1>13. WorldOK' BY <1>7, <1>12 DEF WorldOK, Turns
<1> QED BY <1>7, <1>8, <1>12, <1>13 DEF MemoryInv

-----------------------------------------------------------------------------
(* Theorems *)

LEMMA MemoryStep == MemoryInv /\ [Next]_vars => MemoryInv'
<1> SUFFICES ASSUME MemoryInv, [Next]_vars PROVE MemoryInv' OBVIOUS
<1>1. CASE Act
  BY <1>1, FruitlessKeeps, SearchKeeps, PlanKeeps, ReadKeeps, EditKeeps, RunCheckKeeps,
     CompleteItemKeeps DEF Act
<1>2. CASE UNCHANGED vars
  <2>1. turn' \in Turns /\ GoodMemory(memory') BY <1>2 DEF vars, MemoryInv, WorldOK
  <2> QED BY <1>2, <2>1, QuietKeeps DEF vars
<1> QED BY <1>1, <1>2, StartTurnKeeps, OutsideChangeKeeps, RetryKeeps DEF Next

\* Reads, edits, checks, plans, retries and writes from outside keep the invariant.
THEOREM MemoryInvariant == Spec => []MemoryInv
BY InitGood, MemoryStep, PTL DEF Spec

EntryOK(entry, f) ==
    /\ entry.version \in 0..source[f] /\ entry.item \in Items /\ entry.age \in 0..AgeBound
    /\ Size(entry.fragments) <= ContextLimit
    /\ \A i, j \in DOMAIN entry.fragments :
          /\ Span(entry.fragments[i]) # {}
          /\ entry.fragments[i].seen \subseteq Span(entry.fragments[i])
          /\ Span(entry.fragments[i]) \subseteq Span(entry.fragments[j]) => i = j

\* The cache keeps its bounds, in files and in lines, and no excerpt lies within another.
THEOREM MemoryTyped == Spec => []MemoryTypeOK
<1>1. MemoryInv => MemoryTypeOK
  <2> SUFFICES ASSUME MemoryInv PROVE MemoryTypeOK OBVIOUS
  <2>1. WorldOK /\ GoodMemory(memory) /\ GoodCache(memory.cache, source, shown) BY DEF MemoryInv
  <2>2. ASSUME NEW f \in Cached(memory), NEW entry, entry = memory.cache[f]
        PROVE  EntryOK(entry, f)
    <3>1. GoodEntry(entry) /\ entry.version <= source[f] /\ f \in Files
      BY <2>1, <2>2 DEF Cached, GoodCache
    <3>2. source[f] \in Nat BY <2>1, <3>1 DEF WorldOK
    <3>3. entry.version \in 0 .. source[f] BY <3>1, <3>2 DEF GoodEntry
    <3>4. entry.fragments \in Seq(Excerpts) BY <3>1 DEF GoodEntry
    <3>5. \A i \in DOMAIN entry.fragments : /\ Span(entry.fragments[i]) # {}
                                            /\ entry.fragments[i].seen \subseteq Span(entry.fragments[i])
      BY <3>4, FragmentIs
    <3> QED BY <3>1, <3>3, <3>5 DEF GoodEntry, Apart, EntryOK
  <2>3. Cached(memory) \subseteq Files /\ Cardinality(Cached(memory)) <= MaxEvidenceFiles
    BY <2>1 DEF GoodCache, Cached
  <2>4. \A f \in Cached(memory) : EntryOK(memory.cache[f], f) BY <2>2
  <2>5. /\ source \in [Files -> 0..VersionBound] /\ turn \in Turns
        /\ \A f \in Files : shown[f] \subseteq Lines(f)
    BY <2>1 DEF WorldOK
  <2> QED BY <2>1, <2>3, <2>4, <2>5 DEF MemoryTypeOK, GoodMemory, Turns, EntryOK
<1> QED BY <1>1, MemoryInvariant, PTL

\* Whatever was merged, evicted, cut off, edited or written from outside: the memory never
\* says that the model read a line of the present source which no read has returned.
THEOREM SeenIsShown == Spec => []SeenWasShown
<1>1. MemoryInv => SeenWasShown
  <2> SUFFICES ASSUME MemoryInv, NEW f \in Files
               PROVE  /\ Coverage(memory, f, source[f]) \subseteq shown[f]
                      /\ f \in Current(memory) =>
                            UNION {g.seen : g \in ToSet(memory.cache[f].fragments)} \subseteq shown[f]
    BY DEF SeenWasShown
  <2>1. Coverage(memory, f, source[f]) \subseteq shown[f] BY DEF MemoryInv, GoodCoverage, Coverage
  <2>2. ASSUME f \in Current(memory)
        PROVE  UNION {g.seen : g \in ToSet(memory.cache[f].fragments)} \subseteq shown[f]
    <3>1. SeenIn(memory.cache[f].fragments) \subseteq shown[f]
      BY <2>2 DEF MemoryInv, GoodCache, Current, Cached
    <3>2. UNION {g.seen : g \in ToSet(memory.cache[f].fragments)} = SeenIn(memory.cache[f].fragments)
      BY DEF SeenIn, ToSet
    <3> QED BY <3>1, <3>2
  <2> QED BY <2>1, <2>2
<1> QED BY <1>1, MemoryInvariant, PTL
=============================================================================
