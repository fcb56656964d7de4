------------------------ MODULE EmbeddingCache_proofs ------------------------
(***************************************************************************)
(* The embedding cache for every scene, number of cameras, tubes, frames   *)
(* and cache size: what a call used is still there for the next, and each  *)
(* slot is scored with the embedding of the patch it shows.                *)
(***************************************************************************)
EXTENDS EmbeddingCache, TLAPS, SequenceTheorems, FiniteSetTheorems, WellFoundedInduction

-----------------------------------------------------------------------------
LEMMA LeastNatural ==
  ASSUME NEW T \in SUBSET Nat, T # {}
  PROVE  \E m \in T : \A k \in T : m <= k
<1>1. PICK m \in T : \A k \in T : ~ (<<k, m>> \in OpToRel(<, Nat))
  BY NatLessThanWellFounded, WFMin
<1>2. \A k \in T : ~ (k < m)
  BY <1>1, Zenon DEF OpToRel
<1> QED BY <1>2

\* Induction, for a property given as the set of numbers that have it.
LEMMA Induction ==
  ASSUME NEW T, 0 \in T, \A k \in Nat : k \in T => k + 1 \in T
  PROVE  \A k \in Nat : k \in T
<1> SUFFICES ASSUME {k \in Nat : k \notin T} # {} PROVE FALSE
  OBVIOUS
<1>1. PICK m \in {k \in Nat : k \notin T} : \A k \in {k \in Nat : k \notin T} : m <= k
  BY LeastNatural
<1>2. m - 1 \in Nat /\ m - 1 \in T
  BY <1>1
<1> QED BY <1>1, <1>2

\* A function on the naturals may be defined by recursion.
Computes(f, B, b0, G) ==
  f \in [Nat -> B] /\ f[0] = b0 /\ \A k \in Nat : f[k + 1] = G[k + 1][f[k]]

LEMMA Recursion ==
  ASSUME NEW B, NEW b0 \in B, NEW G \in [Nat -> [B -> B]]
  PROVE  \E f : Computes(f, B, b0, G)
<1> DEFINE Start(k) == {h \in [0..k -> B] : h[0] = b0 /\ \A j \in 0..(k - 1) : h[j + 1] = G[j + 1][h[j]]}
<1>1. \A k \in Nat : k \in {i \in Nat : Start(i) # {}}
  <2>1. 0 \in {i \in Nat : Start(i) # {}}
    <3>1. [j \in 0..0 |-> b0] \in Start(0)
      OBVIOUS
    <3> QED BY <3>1
  <2>2. ASSUME NEW k \in Nat, k \in {i \in Nat : Start(i) # {}} PROVE k + 1 \in {i \in Nat : Start(i) # {}}
    <3>1. PICK h \in Start(k) : TRUE
      BY <2>2
    <3>2. PICK g : g = [j \in 0..(k + 1) |-> IF j <= k THEN h[j] ELSE G[k + 1][h[k]]]
      OBVIOUS
    <3>3. h[k] \in B /\ G[k + 1][h[k]] \in B
      BY <3>1
    <3>4. g \in [0..(k + 1) -> B] /\ g[0] = b0
      BY <3>1, <3>2, <3>3
    <3>5. \A j \in 0..k : g[j + 1] = G[j + 1][g[j]]
      BY <3>1, <3>2
    <3>6. g \in Start(k + 1)
      BY <3>4, <3>5
    <3> QED BY <3>6
  <2> HIDE DEF Start
  <2> QED BY <2>1, <2>2, Induction
<1>2. ASSUME NEW k \in Nat, NEW m \in Nat, k <= m, NEW h \in Start(k), NEW g \in Start(m)
      PROVE  \A j \in 0..k : h[j] = g[j]
  <2>1. 0 \in {j \in Nat : j <= k => h[j] = g[j]}
    BY <1>2
  <2>2. \A j \in Nat : j \in {i \in Nat : i <= k => h[i] = g[i]} => j + 1 \in {i \in Nat : i <= k => h[i] = g[i]}
    BY <1>2
  <2>3. \A j \in Nat : j \in {i \in Nat : i <= k => h[i] = g[i]}
    <3> HIDE DEF Start
    <3> QED BY <2>1, <2>2, Induction
  <2> QED BY <2>3
<1>3. PICK f : f = [k \in Nat |-> (CHOOSE h : h \in Start(k))[k]]
  OBVIOUS
<1>4. \A k \in Nat : \E h \in Start(k) : f[k] = h[k]
  <2> SUFFICES ASSUME NEW k \in Nat PROVE \E h \in Start(k) : f[k] = h[k]
    OBVIOUS
  <2>1. Start(k) # {}
    BY <1>1
  <2> HIDE DEF Start
  <2>2. f[k] = (CHOOSE h : h \in Start(k))[k]
    BY <1>3
  <2>3. (CHOOSE h : h \in Start(k)) \in Start(k)
    BY <2>1
  <2> QED BY <2>2, <2>3
<1>5. ASSUME NEW k \in Nat PROVE f[k] \in B /\ f[k + 1] = G[k + 1][f[k]]
  <2>0. k + 1 \in Nat
    OBVIOUS
  <2>1. PICK h \in Start(k) : f[k] = h[k]
    BY <1>4, Zenon
  <2>2. PICK g \in Start(k + 1) : f[k + 1] = g[k + 1]
    BY <1>4, <2>0, Zenon
  <2>3. h[k] = g[k]
    <3>1. k <= k + 1 /\ k \in 0..k
      OBVIOUS
    <3> HIDE DEF Start
    <3> QED BY <1>2, <2>0, <3>1
  <2>4. h[k] \in B /\ g[k + 1] = G[k + 1][g[k]]
    <3>1. k \in 0..k /\ k \in 0..((k + 1) - 1)
      OBVIOUS
    <3> QED BY <3>1
  <2> QED BY <2>1, <2>2, <2>3, <2>4
<1>7. f[0] = b0
  <2>1. PICK h \in Start(0) : f[0] = h[0]
    BY <1>4
  <2> QED BY <2>1
<1>6. f \in [Nat -> B]
  BY <1>3, <1>5
<1> QED BY <1>5, <1>6, <1>7 DEF Computes

LEMMA MinOf ==
  ASSUME NEW T \in SUBSET Int, NEW b \in Int, T # {}, \A x \in T : x >= b
  PROVE  Min(T) \in T /\ \A x \in T : Min(T) <= x
<1> DEFINE N == {x - b : x \in T}
<1>1. \A x \in T : x \in Int /\ x - b \in Nat /\ x - b \in N
  OBVIOUS
<1>2. N \in SUBSET Nat /\ N # {}
  BY <1>1
<1>3. PICK m \in N : \A k \in N : m <= k
  BY <1>2, LeastNatural
<1>6. PICK y \in T : m = y - b
  OBVIOUS
<1>4. \A x \in T : y <= x
  <2> HIDE DEF N
  <2> QED BY <1>1, <1>3, <1>6
<1>5. \E z \in T : \A x \in T : z <= x
  BY <1>4
<1> HIDE DEF N
<1> QED BY <1>5 DEF Min

LEMMA MaxOf ==
  ASSUME NEW T \in SUBSET Int, NEW b \in Int, T # {}, \A x \in T : x <= b
  PROVE  Max(T) \in T /\ \A x \in T : Max(T) >= x
<1> DEFINE N == {b - x : x \in T}
<1>1. \A x \in T : x \in Int /\ b - x \in Nat /\ b - x \in N
  OBVIOUS
<1>2. N \in SUBSET Nat /\ N # {}
  BY <1>1
<1>3. PICK m \in N : \A k \in N : m <= k
  BY <1>2, LeastNatural
<1>6. PICK y \in T : m = b - y
  OBVIOUS
<1>4. \A x \in T : y >= x
  <2> HIDE DEF N
  <2> QED BY <1>1, <1>3, <1>6
<1>5. \E z \in T : \A x \in T : z >= x
  BY <1>4
<1> HIDE DEF N
<1> QED BY <1>5 DEF Max

LEMMA MinOfTwo ==
  ASSUME NEW x \in Int, NEW y \in Int
  PROVE  Min({x, y}) = IF x <= y THEN x ELSE y
BY DEF Min

LEMMA MaxOfTwo ==
  ASSUME NEW x \in Int, NEW y \in Int
  PROVE  Max({x, y}) = IF x >= y THEN x ELSE y
BY DEF Max
-----------------------------------------------------------------------------
\* The loop of Symmetric shows input frames only.
LEMMA SymmetricShows ==
  ASSUME NEW n \in Nat, NEW min \in Nat
  PROVE  Symmetric(n, min).source \in Seq(0..(n - 1))
<1>1. Unpadded(n).source \in Seq(0..(n - 1))
  BY DEF Unpadded
<1>2. CASE n = 0 \/ n >= min
  BY <1>1, <1>2 DEF Symmetric
<1>3. CASE ~(n = 0 \/ n >= min)
  <2> DEFINE B == [source : Seq(0..(n - 1)), real : SUBSET Int]
             b0 == [source |-> Unpadded(n).source, real |-> 0..(n - 1)]
             turn(k, b) == IF k % 2 = 1
                           THEN [source |-> <<0>> \o b.source, real |-> {p + 1 : p \in b.real}]
                           ELSE [source |-> Append(b.source, n - 1), real |-> b.real]
             G == [k \in Nat |-> [b \in B |-> turn(k, b)]]
  <2>1. b0 \in B
    BY <1>1
  <2>2. G \in [Nat -> [B -> B]]
    <3> SUFFICES ASSUME NEW k \in Nat, NEW b \in B PROVE turn(k, b) \in B
      OBVIOUS
    <3>1. /\ b.source \in Seq(0..(n - 1)) /\ b.real \subseteq Int
          /\ <<0>> \in Seq(0..(n - 1)) /\ n - 1 \in 0..(n - 1)
      BY <1>3
    <3>2. <<0>> \o b.source \in Seq(0..(n - 1)) /\ Append(b.source, n - 1) \in Seq(0..(n - 1))
      BY <3>1, ConcatProperties, AppendProperties
    <3>3. {p + 1 : p \in b.real} \subseteq Int
      BY <3>1
    <3> QED BY <3>1, <3>2, <3>3
  <2>3. PICK f \in [Nat -> B] : f[0] = b0 /\ \A k \in Nat : f[k + 1] = G[k + 1][f[k]]
    <3>1. PICK C, c, H : C = B /\ c = b0 /\ H = G
      OBVIOUS
    <3> HIDE DEF B, b0, G
    <3>2. c \in C /\ H \in [Nat -> [C -> C]]
      BY <2>1, <2>2, <3>1, Zenon
    <3>3. \E f : Computes(f, C, c, H)
      BY <3>2, Recursion
    <3> QED BY <3>1, <3>3, Zenon DEF Computes
  <2> DEFINE loop[k \in Nat] ==
        IF k = 0 THEN [source |-> Unpadded(n).source, real |-> 0..(n - 1)]
        ELSE LET before == loop[k - 1] IN
             IF k % 2 = 1
             THEN [source |-> <<0>> \o before.source, real |-> {p + 1 : p \in before.real}]
             ELSE [source |-> Append(before.source, n - 1), real |-> before.real]
  <2>4. f = [k \in Nat |->
            IF k = 0 THEN [source |-> Unpadded(n).source, real |-> 0..(n - 1)]
            ELSE LET before == f[k - 1] IN
                 IF k % 2 = 1
                 THEN [source |-> <<0>> \o before.source, real |-> {p + 1 : p \in before.real}]
                 ELSE [source |-> Append(before.source, n - 1), real |-> before.real]]
    <3>1. \A k \in Nat : f[k] = IF k = 0 THEN b0 ELSE turn(k, f[k - 1])
      <4> SUFFICES ASSUME NEW k \in Nat, k # 0 PROVE f[k] = turn(k, f[k - 1])
        BY <2>3
      <4>1. k - 1 \in Nat /\ (k - 1) + 1 = k
        OBVIOUS
      <4>2. f[(k - 1) + 1] = G[(k - 1) + 1][f[k - 1]]
        BY <2>3, <4>1
      <4>3. f[k - 1] \in B
        <5> HIDE DEF B
        <5> QED BY <4>1
      <4> QED BY <4>1, <4>2, <4>3
    <3> QED BY <2>3, <3>1
  <2>5. loop = [k \in Nat |->
            IF k = 0 THEN [source |-> Unpadded(n).source, real |-> 0..(n - 1)]
            ELSE LET before == loop[k - 1] IN
                 IF k % 2 = 1
                 THEN [source |-> <<0>> \o before.source, real |-> {p + 1 : p \in before.real}]
                 ELSE [source |-> Append(before.source, n - 1), real |-> before.real]]
    BY <2>4, Zenon
  <2>6. Symmetric(n, min) = [source |-> loop[min - n].source,
                             padded |-> Slots(loop[min - n].source) \ loop[min - n].real]
    BY <1>3, Zenon DEF Symmetric
  <2> HIDE DEF loop
  <2>7. 0 \in {k \in Nat : loop[k].source \in Seq(0..(n - 1))}
    BY <1>1, <2>5
  <2>8. \A k \in Nat : k \in {i \in Nat : loop[i].source \in Seq(0..(n - 1))} =>
                       k + 1 \in {i \in Nat : loop[i].source \in Seq(0..(n - 1))}
    <3> SUFFICES ASSUME NEW k \in Nat, loop[k].source \in Seq(0..(n - 1))
                 PROVE  loop[k + 1].source \in Seq(0..(n - 1))
      OBVIOUS
    <3>1. k + 1 \in Nat /\ k + 1 # 0 /\ (k + 1) - 1 = k
      OBVIOUS
    <3>2. loop[k + 1] = turn(k + 1, loop[k])
      <4> HIDE DEF B, b0, G
      <4> QED BY <2>5, <3>1
    <3>3. <<0>> \in Seq(0..(n - 1)) /\ n - 1 \in 0..(n - 1)
      BY <1>3
    <3>4. /\ <<0>> \o loop[k].source \in Seq(0..(n - 1))
          /\ Append(loop[k].source, n - 1) \in Seq(0..(n - 1))
      BY <3>3, ConcatProperties, AppendProperties
    <3>5. loop[k + 1].source \in {<<0>> \o loop[k].source, Append(loop[k].source, n - 1)}
      BY <3>2
    <3> QED BY <3>4, <3>5
  <2>9. \A k \in Nat : k \in {i \in Nat : loop[i].source \in Seq(0..(n - 1))}
    BY <2>7, <2>8, Induction
  <2>10. min - n \in Nat
    BY <1>3
  <2> HIDE DEF turn, B, b0, G
  <2>11. loop[min - n].source \in Seq(0..(n - 1))
    BY <2>9, <2>10
  <2>12. Symmetric(n, min).source = loop[min - n].source
    BY <2>6
  <2> QED BY <2>11, <2>12
<1> QED BY <1>2, <1>3

\* Sequences of sequences flatten to a sequence.
LEMMA FlattenIsSeq ==
  ASSUME NEW S, NEW ss \in Seq(Seq(S))
  PROVE  FlattenSeq(ss) \in Seq(S)
<1>1. CASE Len(ss) = 0
  BY <1>1 DEF FlattenSeq
<1>2. CASE Len(ss) # 0
  <2> DEFINE B == Seq(S)
             G == [k \in Nat |-> [b \in B |-> IF k \in 1..Len(ss) THEN b \o ss[k] ELSE b]]
  <2>1. <<>> \in B /\ G \in [Nat -> [B -> B]]
    <3>1. <<>> \in B
      OBVIOUS
    <3>2. ASSUME NEW k \in 1..Len(ss), NEW b \in B PROVE b \o ss[k] \in B
      <4>1. ss[k] \in Seq(S)
        OBVIOUS
      <4> QED BY <4>1, ConcatProperties
    <3> QED BY <3>1, <3>2
  <2>2. PICK f \in [Nat -> B] : f[0] = <<>> /\ \A k \in Nat : f[k + 1] = G[k + 1][f[k]]
    <3>1. PICK C, c, H : C = B /\ c = <<>> /\ H = G
      OBVIOUS
    <3> HIDE DEF B, G
    <3>2. c \in C /\ H \in [Nat -> [C -> C]]
      BY <2>1, <3>1, Zenon
    <3>3. \E f : Computes(f, C, c, H)
      BY <3>2, Recursion
    <3> QED BY <3>1, <3>3, Zenon DEF Computes
  <2>3. PICK g : g = [i \in 1..Len(ss) |-> f[i]]
    OBVIOUS
  <2>4. \A i \in 1..Len(ss) : f[i] \in Seq(S)
    OBVIOUS
  <2>5. \A i \in 1..Len(ss) : f[i] = IF i = 1 THEN ss[i] ELSE f[i - 1] \o ss[i]
    <3> SUFFICES ASSUME NEW i \in 1..Len(ss)
                 PROVE  f[i] = IF i = 1 THEN ss[i] ELSE f[i - 1] \o ss[i]
      OBVIOUS
    <3>1. i - 1 \in Nat /\ (i - 1) + 1 = i
      OBVIOUS
    <3>2. f[(i - 1) + 1] = G[(i - 1) + 1][f[i - 1]]
      BY <2>2, <3>1
    <3>3. f[i - 1] \in B
      <4> HIDE DEF B
      <4> QED BY <3>1
    <3>4. f[i] = f[i - 1] \o ss[i]
      <4>1. G[i] = [b \in B |-> b \o ss[i]]
        BY <3>1
      <4> HIDE DEF B, G
      <4> QED BY <3>1, <3>2, <3>3, <4>1
    <3>5. ss[1] \in Seq(S)
      BY <1>2
    <3>6. <<>> \o ss[1] = ss[1]
      BY <3>5, ConcatEmptySeq
    <3>7. CASE i = 1
      <4>1. f[i - 1] = <<>> /\ ss[i] = ss[1]
        BY <2>2, <3>7
      <4>2. f[i] = <<>> \o ss[1]
        BY <3>4, <4>1
      <4> QED BY <3>6, <3>7, <4>2
    <3> QED BY <3>4, <3>7
  <2>6. g = [i \in 1..Len(ss) |-> IF i = 1 THEN ss[i] ELSE g[i - 1] \o ss[i]]
    <3>1. \A i \in 1..Len(ss) : i # 1 => g[i - 1] = f[i - 1]
      BY <2>3
    <3> QED BY <2>3, <2>5, <3>1
  <2> DEFINE flatten[i \in 1..Len(ss)] == IF i = 1 THEN ss[i] ELSE flatten[i - 1] \o ss[i]
  <2>7. flatten = [i \in 1..Len(ss) |-> IF i = 1 THEN ss[i] ELSE flatten[i - 1] \o ss[i]]
    BY <2>6, Zenon
  <2>8. FlattenSeq(ss) = flatten[Len(ss)]
    BY <1>2, Zenon DEF FlattenSeq
  <2> HIDE DEF flatten
  <2>9. ASSUME NEW i \in Nat, i \in {k \in Nat : k \in 1..Len(ss) => flatten[k] \in Seq(S)}
        PROVE  i + 1 \in {k \in Nat : k \in 1..Len(ss) => flatten[k] \in Seq(S)}
    <3> SUFFICES ASSUME i + 1 \in 1..Len(ss) PROVE flatten[i + 1] \in Seq(S)
      OBVIOUS
    <3>1. ss[i + 1] \in Seq(S) /\ (i + 1) - 1 = i
      OBVIOUS
    <3>2. flatten[i + 1] = IF i + 1 = 1 THEN ss[i + 1] ELSE flatten[i] \o ss[i + 1]
      BY <2>7, <3>1
    <3>3. i + 1 # 1 => flatten[i] \in Seq(S)
      BY <2>9
    <3> QED BY <3>1, <3>2, <3>3, ConcatProperties
  <2>12. 0 \in {k \in Nat : k \in 1..Len(ss) => flatten[k] \in Seq(S)}
    OBVIOUS
  <2>10. \A i \in Nat : i \in {k \in Nat : k \in 1..Len(ss) => flatten[k] \in Seq(S)}
    BY <2>9, <2>12, Induction
  <2>11. Len(ss) \in Nat /\ Len(ss) \in 1..Len(ss)
    BY <1>2
  <2> QED BY <2>8, <2>10, <2>11
<1> QED BY <1>1, <1>2
-----------------------------------------------------------------------------
\* The frames of a call are frames of its camera that exist.
LEMMA FramesShape ==
  ASSUME NEW c \in Camera, NEW n \in 1..MaxFrame
  PROVE  \E m \in Nat : Frames(c, n) \in [1..m -> Camera \X (1..MaxFrame)]
<1>1. Window \in Nat /\ PadMin \in Nat /\ MaxFrame \in Nat /\ n \in Nat
  BY CacheAssumption
<1>2. PICK first : first = Max({1, n - Window + 1})
  OBVIOUS
<1>3. first \in 1..(n + 1) /\ n - first + 1 \in Nat
  BY <1>1, <1>2, MaxOfTwo
<1>4. PICK k \in Nat : k = n - first + 1
  BY <1>3
<1>5. PICK source : source = Symmetric(k, PadMin).source
  OBVIOUS
<1>6. source \in Seq(0..(k - 1))
  BY <1>1, <1>5, SymmetricShows
<1>7. Frames(c, n) = [i \in DOMAIN source |-> <<c, first + source[i]>>]
  BY <1>2, <1>4, <1>5 DEF Frames, Pad
<1>8. \A i \in 1..Len(source) : first + source[i] \in 1..MaxFrame
  <2> SUFFICES ASSUME NEW i \in 1..Len(source) PROVE first + source[i] \in 1..MaxFrame
    OBVIOUS
  <2>1. source[i] \in 0..(k - 1)
    BY <1>6
  <2> QED BY <1>1, <1>3, <1>4, <2>1
<1>9. PICK m \in Nat : DOMAIN source = 1..m /\ m = Len(source)
  BY <1>6
<1>10. PICK fr : fr = Frames(c, n)
  OBVIOUS
<1>11. fr = [i \in 1..m |-> <<c, first + source[i]>>]
  BY <1>7, <1>9, <1>10
<1>12. \A i \in 1..m : <<c, first + source[i]>> \in Camera \X (1..MaxFrame)
  BY <1>8, <1>9
<1>13. fr \in [1..m -> Camera \X (1..MaxFrame)]
  BY <1>11, <1>12
<1> QED BY <1>10, <1>13

\* What a tube is: entries, of which those that are no gap are observed.
TubeShape(e) ==
  \E l \in Nat :
    /\ DOMAIN e = 1..l /\ e = [i \in 1..l |-> e[i]]
    /\ \A i \in 1..l : ~e[i].gap => e[i].box \in Box /\ e[i].box # None

LEMMA EntriesShape ==
  ASSUME NEW track \in [1..MaxFrame -> Box], NEW m \in Nat,
         NEW fr \in [1..m -> Camera \X (1..MaxFrame)]
  PROVE  TubeShape(Entries(track, fr))
<1> DEFINE seen == {i \in DOMAIN fr : track[fr[i][2]] # None}
<1>1. CASE seen = {}
  <2>1. Entries(track, fr) = <<>>
    BY <1>1 DEF Entries
  <2>2. PICK e : e = <<>>
    OBVIOUS
  <2>3. PICK l \in Nat : l = 0
    OBVIOUS
  <2>5. DOMAIN e = 1..l /\ e = [i \in 1..l |-> e[i]] /\ \A i \in 1..l : FALSE
    BY <2>2, <2>3
  <2>4. TubeShape(e)
    BY <2>5 DEF TubeShape
  <2> QED BY <2>1, <2>2, <2>4
<1>2. CASE seen # {}
  <2>1. /\ seen \in SUBSET Int
        /\ \A x \in seen : x >= 1
        /\ \A x \in seen : x <= m
    OBVIOUS
  <2>14. PICK T : T = seen
    OBVIOUS
  <2>15. T \in SUBSET Int /\ T # {} /\ (\A x \in T : x >= 1) /\ (\A x \in T : x <= m)
    <3> HIDE DEF seen
    <3> QED BY <1>2, <2>1, <2>14
  <2>2. PICK a, b : a = Min(T) /\ b = Max(T)
    OBVIOUS
  <2>16. 1 \in Int /\ m \in Int
    OBVIOUS
  <2>11. a \in T /\ \A x \in T : a <= x
    <3> HIDE DEF seen
    <3> QED BY <2>15, <2>2, <2>16, MinOf
  <2>12. b \in T
    <3> HIDE DEF seen
    <3> QED BY <2>15, <2>2, <2>16, MaxOf
  <2>13. a \in 1..m /\ b \in 1..m /\ a <= b
    <3> HIDE DEF seen
    <3> QED BY <2>15, <2>11, <2>12
  <2>3. PICK first, l : first = a - 1 /\ l = b - first
    OBVIOUS
  <2>4. first \in Nat /\ l \in Nat /\ \A i \in 1..l : first + i \in 1..m
    BY <2>13, <2>3
  <2>5. PICK raw : raw = [i \in 1..l |-> [frame |-> fr[first + i], box |-> track[fr[first + i][2]],
                                          gap |-> FALSE]]
    OBVIOUS
  <2>6. Entries(track, fr) = Interpolated(raw)
    BY <1>2, <2>2, <2>14, <2>3, <2>5 DEF Entries
  <2>7. PICK e : e = Interpolated(raw)
    OBVIOUS
  <2>8. DOMAIN e = 1..l /\ e = [i \in 1..l |-> e[i]]
    <3>1. DOMAIN raw = 1..l
      BY <2>5
    <3>2. \E h : e = [i \in DOMAIN raw |-> h[i]]
      <4> DEFINE h == [i \in DOMAIN raw |-> Interpolated(raw)[i]]
      <4>1. e = [i \in DOMAIN raw |-> h[i]]
        BY <2>7 DEF Interpolated
      <4> QED BY <4>1
    <3> QED BY <3>1, <3>2
  <2>9. ASSUME NEW i \in 1..l, ~e[i].gap PROVE e[i].box \in Box /\ e[i].box # None
    <3>1. raw[i].box = track[fr[first + i][2]] /\ raw[i].gap = FALSE
          /\ raw[i] = [frame |-> raw[i].frame, box |-> raw[i].box, gap |-> raw[i].gap]
      BY <2>5
    <3>2. raw[i].box # None
      <4> SUFFICES ASSUME raw[i].box = None PROVE FALSE
        OBVIOUS
      <4>1. \E drawn : e[i] = [raw[i] EXCEPT !.box = drawn, !.gap = TRUE]
        BY <2>5, <2>7 DEF Interpolated
      <4>2. e[i].gap = TRUE
        BY <3>1, <4>1
      <4> QED BY <2>9, <4>2
    <3>3. e[i] = raw[i]
      BY <2>5, <2>7, <3>2 DEF Interpolated
    <3>4. fr[first + i] \in Camera \X (1..MaxFrame)
      BY <2>4
    <3>5. raw[i].box \in Box
      BY <3>1, <3>4
    <3> QED BY <3>2, <3>3, <3>5
  <2>10. TubeShape(e)
    BY <2>4, <2>8, <2>9 DEF TubeShape
  <2> QED BY <2>6, <2>7, <2>10
<1> QED BY <1>1, <1>2

LEMMA TubesShape ==
  ASSUME scene \in Scene, NEW c \in Camera, NEW n \in 1..MaxFrame, NEW t \in 1..Tracks
  PROVE  TubeShape(Entries(scene[c][t], Frames(c, n)))
<1>1. scene[c][t] \in [1..MaxFrame -> Box]
  BY CacheAssumption
<1>2. PICK m \in Nat : Frames(c, n) \in [1..m -> Camera \X (1..MaxFrame)]
  BY FramesShape
<1> QED BY <1>1, <1>2, EntriesShape

\* The slots of a tube, and training's patches of it, are the same crops.
Patches(crops) ==
  \E k \in Nat : /\ DOMAIN crops = 1..k /\ crops = [i \in 1..k |-> crops[i]]
                 /\ \A i \in 1..k : Patch(crops[i]) = crops[i]

LEMMA CropsAgree ==
  ASSUME NEW e, TubeShape(e), NEW st \in BOOLEAN
  PROVE  /\ Patches(CropBoxes(e, st, ModelFrames))
         /\ TrainingPatches(e, st, ModelFrames) = CropBoxes(e, st, ModelFrames)
<1>1. PICK l \in Nat : DOMAIN e = 1..l /\ e = [i \in 1..l |-> e[i]]
  BY DEF TubeShape
<1>2. Len(e) = l /\ ModelFrames \in Nat
  BY <1>1, CacheAssumption
<1>3. PICK k \in Nat : k = Min({l, ModelFrames})
  BY <1>2, MinOfTwo
<1>4. k <= l
  BY <1>2, <1>3, MinOfTwo
<1>5. PICK crops : crops = CropBoxes(e, st, ModelFrames)
  OBVIOUS
<1>6. crops = [i \in 1..k |-> [frame |-> e[i].frame,
                               crop |-> PixelSquare(IF st THEN TubeWindow(e) ELSE e[i].box)]]
  BY <1>2, <1>3, <1>5 DEF CropBoxes
<1>7. TrainingPatches(e, st, ModelFrames) = crops
  <2>1. PICK cut : cut = [i \in 1..l |-> [frame |-> e[i].frame,
                                          crop |-> PixelSquare(IF st THEN TubeWindow(e) ELSE e[i].box)]]
    OBVIOUS
  <2>2. Len(cut) = l
    BY <2>1
  <2>3. TrainingPatches(e, st, ModelFrames) = SubSeq(cut, 1, k)
    BY <1>1, <1>3, <2>1, <2>2 DEF TrainingPatches
  <2>4. SubSeq(cut, 1, k) = [i \in 1..k |-> cut[i]]
    BY <1>4, <2>1, <2>2
  <2> QED BY <1>4, <1>6, <2>1, <2>3, <2>4
<1>8. DOMAIN crops = 1..k /\ crops = [i \in 1..k |-> crops[i]]
  BY <1>6
<1>9. \A i \in 1..k : Patch(crops[i]) = crops[i]
  BY <1>6 DEF Patch
<1>10. Patches(crops)
  BY <1>8, <1>9 DEF Patches
<1> QED BY <1>5, <1>7, <1>10

LEMMA SlottedShape ==
  ASSUME scene \in Scene, stabilize \in BOOLEAN, NEW c \in Camera, NEW n \in 1..MaxFrame
  PROVE  Patches(Slotted(c, n)) /\ TrainingSlots(c, n) = Slotted(c, n)
<1>1. Tracks \in Nat
  BY CacheAssumption
<1>2. PICK ss : ss = [t \in 1..Tracks |-> CropBoxes(Entries(scene[c][t], Frames(c, n)), stabilize, ModelFrames)]
  OBVIOUS
<1>3. \A t \in 1..Tracks :
        /\ Patches(ss[t])
        /\ TrainingPatches(Entries(scene[c][t], Frames(c, n)), stabilize, ModelFrames) = ss[t]
  BY <1>2, TubesShape, CropsAgree
<1>4. Slotted(c, n) = FlattenSeq(ss)
  BY <1>2 DEF Slotted, Tubes
<1>5. TrainingSlots(c, n) = FlattenSeq(ss)
  <2>1. [t \in 1..Tracks |-> TrainingPatches(Entries(scene[c][t], Frames(c, n)), stabilize, ModelFrames)] = ss
    BY <1>2, <1>3
  <2> QED BY <2>1 DEF TrainingSlots, Tubes
<1> DEFINE S == UNION {{ss[t][i] : i \in DOMAIN ss[t]} : t \in 1..Tracks}
<1>6. \A x \in S : Patch(x) = x
  <2> SUFFICES ASSUME NEW t \in 1..Tracks, NEW i \in DOMAIN ss[t] PROVE Patch(ss[t][i]) = ss[t][i]
    OBVIOUS
  <2>1. Patches(ss[t])
    BY <1>3
  <2> QED BY <2>1 DEF Patches
<1>7. ss \in Seq(Seq(S))
  <2>1. ASSUME NEW t \in 1..Tracks PROVE ss[t] \in Seq(S)
    <3>1. PICK k \in Nat : DOMAIN ss[t] = 1..k /\ ss[t] = [i \in 1..k |-> ss[t][i]]
      BY <1>3 DEF Patches
    <3>2. \A i \in 1..k : ss[t][i] \in S
      BY <3>1
    <3> HIDE DEF S
    <3> QED BY <3>1, <3>2
  <2> HIDE DEF S
  <2> QED BY <1>1, <1>2, <2>1
<1>8. FlattenSeq(ss) \in Seq(S)
  <2> HIDE DEF S
  <2> QED BY <1>7, FlattenIsSeq
<1>9. PICK s : s = FlattenSeq(ss)
  OBVIOUS
<1>10. Patches(s)
  <2> HIDE DEF S
  <2>1. s \in Seq(S)
    BY <1>8, <1>9
  <2>2. PICK k \in Nat : k = Len(s)
    BY <2>1
  <2>3. DOMAIN s = 1..k /\ s = [i \in 1..k |-> s[i]] /\ \A i \in 1..k : s[i] \in S
    BY <2>1, <2>2
  <2> QED BY <1>6, <2>3 DEF Patches
<1> QED BY <1>4, <1>5, <1>9, <1>10
-----------------------------------------------------------------------------
\* Half of an integer, rounded, is no further than a half from it.
LEMMA RoundHalfNear ==
  ASSUME NEW n \in Int
  PROVE  RoundHalf(n) \in Int /\ 2 * RoundHalf(n) <= n + 1 /\ 2 * RoundHalf(n) >= n - 1
<1>1. PICK q \in Int, r \in Int : q = n \div 2 /\ r = n % 2
  OBVIOUS
<1>2. n = 2 * q + r /\ r \in 0..1
  BY <1>1
<1>3. RoundHalf(n) \in {q, q + 1} /\ (r = 0 => RoundHalf(n) = q)
  BY <1>1 DEF RoundHalf
<1> QED BY <1>2, <1>3

\* The square about a window covers it.
LEMMA SquareCovers ==
  ASSUME NEW w, w.lo \in 0..ImageSize, w.hi \in 0..ImageSize, w.lo <= w.hi
  PROVE  /\ PixelSquare(w).lo <= w.lo /\ w.hi <= PixelSquare(w).hi
         /\ PixelSquare(w).lo \in Int /\ PixelSquare(w).hi \in Int
<1>1. PICK d \in Nat : d = w.hi - w.lo
  BY CropsAssumption
<1>2. PICK side : side = ContextFactor * (w.hi - w.lo)
  OBVIOUS
<1>3. side \in Int /\ side >= d
  <2>1. ContextFactor \in Nat /\ ContextFactor >= 1 /\ side = ContextFactor * d
    BY <1>1, <1>2, CropsAssumption
  <2> QED BY <2>1
<1>4. PICK l, h : l = RoundHalf(w.lo + w.hi - side) /\ h = RoundHalf(w.lo + w.hi + side)
  OBVIOUS
<1>5. w.lo + w.hi - side \in Int /\ w.lo + w.hi + side \in Int
  BY <1>3
<1>10. PICK x, y, p, q \in Int : /\ x = w.lo + w.hi - side /\ y = w.lo + w.hi + side
                                 /\ p = w.lo /\ q = w.hi
  BY <1>5
<1>11. l = RoundHalf(x) /\ h = RoundHalf(y)
  BY <1>4, <1>10
<1>12. x = p + q - side /\ y = p + q + side /\ d = q - p
  BY <1>1, <1>10
<1>6. l \in Int /\ 2 * l <= x + 1 /\ h \in Int /\ 2 * h >= y - 1
  BY <1>11, RoundHalfNear
<1>13. l <= p /\ q <= h
  BY <1>3, <1>6, <1>12
<1>7. l <= w.lo /\ w.hi <= h
  BY <1>10, <1>13
<1>8. PixelSquare(w) = [lo |-> Max({0, l}), hi |-> Min({ImageSize, h})]
  BY <1>2, <1>4 DEF PixelSquare
<1>9. Max({0, l}) = (IF 0 >= l THEN 0 ELSE l) /\ Min({ImageSize, h}) = IF ImageSize <= h THEN ImageSize ELSE h
  BY <1>6, CropsAssumption, MinOfTwo, MaxOfTwo
<1> QED BY <1>6, <1>7, <1>8, <1>9, CropsAssumption

\* The window of a tube covers its observed boxes.
LEMMA WindowCovers ==
  ASSUME NEW e, TubeShape(e), NEW i \in DOMAIN e, ~e[i].gap
  PROVE  LET w == TubeWindow(e) IN
         /\ w.lo \in 0..ImageSize /\ w.hi \in 0..ImageSize /\ w.lo <= w.hi
         /\ w.lo <= e[i].box.lo /\ e[i].box.hi <= w.hi
<1>1. \A j \in DOMAIN e : ~e[j].gap => /\ e[j].box # None
                                       /\ e[j].box.lo \in 0..ImageSize /\ e[j].box.hi \in 0..ImageSize
                                       /\ e[j].box.lo <= e[j].box.hi
  BY DEF TubeShape, Box
<1>2. PICK observed : observed = {j \in DOMAIN e : ~e[j].gap}
  OBVIOUS
<1>3. PICK boxes : boxes = {e[j].box : j \in observed}
  OBVIOUS
<1>4. TubeWindow(e) = UnionWindow(boxes)
  <2>1. {j \in {k \in DOMAIN e : e[k].box # None} : ~e[j].gap} = observed /\ observed # {}
    BY <1>1, <1>2
  <2> QED BY <1>3, <2>1 DEF TubeWindow
<1>5. PICK los, his : los = {b.lo : b \in boxes} /\ his = {b.hi : b \in boxes}
  OBVIOUS
<1>6. \A b \in boxes : b.lo \in 0..ImageSize /\ b.hi \in 0..ImageSize /\ b.lo <= b.hi
  BY <1>1, <1>2, <1>3
<1>7. e[i].box \in boxes
  BY <1>2, <1>3
<1>8. /\ los \in SUBSET Int /\ los # {} /\ \A x \in los : x >= 0 /\ x <= ImageSize
      /\ his \in SUBSET Int /\ his # {} /\ \A x \in his : x <= ImageSize /\ x >= 0
  BY <1>5, <1>6, <1>7
<1>9. ImageSize \in Int /\ 0 \in Int
  BY CropsAssumption
<1>10. PICK a, z : a = Min(los) /\ z = Max(his)
  OBVIOUS
<1>11. a \in los /\ \A x \in los : a <= x
  <2>1. \A x \in los : x >= 0
    BY <1>8
  <2> QED BY <1>8, <1>9, <1>10, <2>1, MinOf
<1>12. z \in his /\ \A x \in his : z >= x
  <2>1. \A x \in his : x <= ImageSize
    BY <1>8
  <2> QED BY <1>8, <1>9, <1>10, <2>1, MaxOf
<1>13. TubeWindow(e).lo = a /\ TubeWindow(e).hi = z
  BY <1>4, <1>5, <1>10 DEF UnionWindow
<1>14. e[i].box.lo \in los /\ e[i].box.hi \in his /\ e[i].box.lo <= e[i].box.hi
  BY <1>5, <1>6, <1>7
<1>15. a \in Int /\ z \in Int /\ a >= 0 /\ a <= ImageSize /\ z >= 0 /\ z <= ImageSize
       /\ e[i].box.lo \in Int /\ e[i].box.hi \in Int
  BY <1>8, <1>11, <1>12, <1>14
<1>16. a <= e[i].box.lo /\ e[i].box.hi <= z
  BY <1>11, <1>12, <1>14
<1> QED BY <1>9, <1>13, <1>14, <1>15, <1>16

\* With stabilised crops no observed box leaves a crop of its tube.
LEMMA SmokeIsInside ==
  ASSUME scene \in Scene, camera \in Camera, newest[camera] \in 1..MaxFrame
  PROVE  SmokeInside
<1> SUFFICES ASSUME stabilize, NEW tube \in Range(Tubes(camera, newest[camera])),
                    NEW c \in Range(CropBoxes(tube, TRUE, ModelFrames)),
                    NEW e \in Range(tube), ~e.gap
             PROVE  c.crop.lo <= e.box.lo /\ e.box.hi <= c.crop.hi
  BY DEF SmokeInside
<1>1. PICK t \in 1..Tracks : tube = Entries(scene[camera][t], Frames(camera, newest[camera]))
  BY DEF Range, Tubes
<1>2. TubeShape(tube)
  BY <1>1, TubesShape
<1>3. PICK i \in DOMAIN tube : e = tube[i]
  BY DEF Range
<1>4. c.crop = PixelSquare(TubeWindow(tube))
  BY DEF Range, CropBoxes
<1>5. PICK w : w = TubeWindow(tube)
  OBVIOUS
<1>6. /\ w.lo \in 0..ImageSize /\ w.hi \in 0..ImageSize /\ w.lo <= w.hi
      /\ w.lo <= e.box.lo /\ e.box.hi <= w.hi
  BY <1>2, <1>3, <1>5, WindowCovers
<1>7. /\ PixelSquare(w).lo <= w.lo /\ w.hi <= PixelSquare(w).hi
      /\ PixelSquare(w).lo \in Int /\ PixelSquare(w).hi \in Int
  BY <1>6, SquareCovers
<1>9. e.box.lo \in Int /\ e.box.hi \in Int
  BY <1>2, <1>3 DEF TubeShape, Box
<1> QED BY <1>4, <1>5, <1>6, <1>7, <1>9, CropsAssumption

-----------------------------------------------------------------------------
\* The cache as a sequence: each key once, each feature that of its key.
KeysOf(c) == {c[i].key : i \in DOMAIN c}
Sound(c) ==
  /\ \A i, j \in DOMAIN c : c[i].key = c[j].key => i = j
  /\ \A i \in DOMAIN c : c[i].feature = [frame |-> c[i].key[1], crop |-> c[i].key[2]]

\* The keys of U are in the cache, younger than all others.
Held(c, U) ==
  /\ U \subseteq KeysOf(c)
  /\ \A i, j \in DOMAIN c : i < j /\ c[i].key \in U => c[j].key \in U

LEMMA RemoveAtProperties ==
  ASSUME NEW S, NEW s \in Seq(S), NEW i \in 1..Len(s)
  PROVE  /\ RemoveAt(s, i) \in Seq(S)
         /\ Len(RemoveAt(s, i)) = Len(s) - 1
         /\ \A k \in 1..(Len(s) - 1) : RemoveAt(s, i)[k] = s[IF k < i THEN k ELSE k + 1]
<1> DEFINE front == SubSeq(s, 1, i - 1)
           back  == SubSeq(s, i + 1, Len(s))
<1>1. Len(s) \in Nat /\ i \in Nat /\ \A k \in 1..Len(s) : s[k] \in S
  OBVIOUS
<1>2. /\ front \in Seq(S) /\ Len(front) = i - 1
      /\ \A k \in 1..(i - 1) : front[k] = s[k]
  <2>1. \A k \in 1..(i - 1) : s[k] \in S
    BY <1>1
  <2> QED BY <1>1, <2>1, SubSeqProperties
<1>3. /\ back \in Seq(S) /\ Len(back) = Len(s) - i
      /\ \A k \in 1..(Len(s) - i) : back[k] = s[k + i]
  <2>1. \A k \in (i + 1)..Len(s) : s[k] \in S
    BY <1>1
  <2>2. /\ back \in Seq(S)
        /\ Len(back) = IF i + 1 <= Len(s) THEN Len(s) - (i + 1) + 1 ELSE 0
        /\ \A k \in 1..(Len(s) - (i + 1) + 1) : back[k] = s[(i + 1) + k - 1]
    BY <1>1, <2>1, SubSeqProperties
  <2>3. \A k \in 1..(Len(s) - i) : k \in 1..(Len(s) - (i + 1) + 1) /\ (i + 1) + k - 1 = k + i
    BY <1>1
  <2>4. (IF i + 1 <= Len(s) THEN Len(s) - (i + 1) + 1 ELSE 0) = Len(s) - i
    BY <1>1
  <2> QED BY <2>2, <2>3, <2>4
<1>4. RemoveAt(s, i) = front \o back
  BY DEF RemoveAt
<1> HIDE DEF front, back
<1>5. /\ front \o back \in Seq(S) /\ Len(front \o back) = Len(s) - 1
      /\ \A k \in 1..(Len(s) - 1) :
           (front \o back)[k] = IF k <= i - 1 THEN front[k] ELSE back[k - (i - 1)]
  <2>1. /\ front \o back \in Seq(S) /\ Len(front \o back) = Len(front) + Len(back)
        /\ \A k \in 1..(Len(front) + Len(back)) :
             (front \o back)[k] = IF k <= Len(front) THEN front[k] ELSE back[k - Len(front)]
    BY <1>2, <1>3, ConcatProperties
  <2>2. Len(front) + Len(back) = Len(s) - 1
    BY <1>1, <1>2, <1>3
  <2> QED BY <1>2, <2>1, <2>2
<1>6. ASSUME NEW k \in 1..(Len(s) - 1)
      PROVE  (front \o back)[k] = s[IF k < i THEN k ELSE k + 1]
  <2>1. CASE k < i
    BY <1>1, <1>2, <1>5, <2>1
  <2>2. CASE ~(k < i)
    <3>1. k - (i - 1) \in 1..(Len(s) - i) /\ (k - (i - 1)) + i = k + 1 /\ ~(k <= i - 1)
      BY <1>1, <2>2
    <3>2. back[k - (i - 1)] = s[k + 1]
      BY <1>3, <3>1
    <3> QED BY <1>5, <2>2, <3>1, <3>2
  <2> QED BY <2>1, <2>2
<1> QED BY <1>4, <1>5, <1>6

\* A hit moves one entry to the end.
Moved(c, d, i) ==
  /\ DOMAIN d = DOMAIN c /\ i \in DOMAIN c
  /\ \A k \in 1..Len(c) : d[k] = c[IF k < i THEN k ELSE IF k < Len(c) THEN k + 1 ELSE i]

LEMMA TouchedMoves ==
  ASSUME NEW S, NEW c \in Seq(S), NEW key, key \in KeysOf(c)
  PROVE  /\ Touched(c, key) \in Seq(S) /\ Len(Touched(c, key)) = Len(c)
         /\ \E i \in 1..Len(c) : c[i].key = key /\ Moved(c, Touched(c, key), i)
<1>1. PICK i : i = CHOOSE k \in Position(c, key) : TRUE
  OBVIOUS
<1>2. i \in 1..Len(c) /\ c[i].key = key /\ Len(c) \in Nat
  BY <1>1 DEF KeysOf, Position
<1>3. PICK r : r = RemoveAt(c, i)
  OBVIOUS
<1>4. /\ r \in Seq(S) /\ Len(r) = Len(c) - 1
      /\ \A k \in 1..(Len(c) - 1) : r[k] = c[IF k < i THEN k ELSE k + 1]
  BY <1>2, <1>3, RemoveAtProperties
<1>5. PICK d : d = Append(r, c[i])
  OBVIOUS
<1>6. /\ d \in Seq(S) /\ Len(d) = Len(c) - 1 + 1 /\ d[Len(c) - 1 + 1] = c[i]
      /\ \A k \in 1..(Len(c) - 1) : d[k] = r[k]
  <2>1. c[i] \in S
    BY <1>2
  <2> QED BY <1>4, <1>5, <2>1, AppendProperties
<1>7. Len(d) = Len(c) /\ d[Len(c)] = c[i]
  BY <1>2, <1>6
<1>8. Touched(c, key) = d
  BY <1>1, <1>3, <1>5 DEF Touched
<1>9. ASSUME NEW k \in 1..Len(c)
      PROVE  d[k] = c[IF k < i THEN k ELSE IF k < Len(c) THEN k + 1 ELSE i]
  <2>1. CASE k = Len(c)
    BY <1>2, <1>7, <2>1
  <2>2. CASE k # Len(c)
    <3>1. k \in 1..(Len(c) - 1) /\ k < Len(c)
      BY <1>2, <2>2
    <3> QED BY <1>4, <1>6, <3>1
  <2> QED BY <2>1, <2>2
<1>10. DOMAIN d = DOMAIN c /\ i \in DOMAIN c
  BY <1>2, <1>6, <1>7
<1>11. Moved(c, d, i)
  BY <1>9, <1>10 DEF Moved
<1> QED BY <1>2, <1>6, <1>7, <1>8, <1>11

LEMMA MovedKeeps ==
  ASSUME NEW S, NEW c \in Seq(S), NEW d \in Seq(S), NEW i \in 1..Len(c), Moved(c, d, i), Sound(c)
  PROVE  /\ Sound(d) /\ KeysOf(d) = KeysOf(c)
         /\ \A U : Held(c, U) => Held(d, U \cup {c[i].key})
<1>1. PICK n \in Nat : n = Len(c)
  OBVIOUS
<1>2. DOMAIN c = 1..n /\ DOMAIN d = 1..n /\ i \in 1..n
  BY <1>1 DEF Moved
<1>3. PICK p : p = [k \in 1..n |-> IF k < i THEN k ELSE IF k < n THEN k + 1 ELSE i]
  OBVIOUS
<1>4. /\ \A k \in 1..n : p[k] \in 1..n
      /\ \A k, m \in 1..n : p[k] = p[m] => k = m
      /\ \A k, m \in 1..n : k < m /\ m < n => p[k] < p[m]
      /\ p[n] = i
  BY <1>2, <1>3
<1>5. \A k \in 1..n : d[k] = c[p[k]]
  BY <1>1, <1>3 DEF Moved
<1>6. Sound(d)
  <2>1. ASSUME NEW k \in 1..n, NEW m \in 1..n, d[k].key = d[m].key PROVE k = m
    <3>1. p[k] \in 1..n /\ p[m] \in 1..n /\ c[p[k]].key = c[p[m]].key
      BY <1>4, <1>5, <2>1
    <3>2. p[k] = p[m]
      BY <1>2, <3>1 DEF Sound
    <3> QED BY <1>4, <3>2
  <2>2. ASSUME NEW k \in 1..n PROVE d[k].feature = [frame |-> d[k].key[1], crop |-> d[k].key[2]]
    <3>1. p[k] \in 1..n /\ d[k] = c[p[k]]
      BY <1>4, <1>5
    <3> QED BY <1>2, <3>1 DEF Sound
  <2> QED BY <1>2, <2>1, <2>2 DEF Sound
<1>7. \A m \in 1..n : \E k \in 1..n : p[k] = m
  <2> SUFFICES ASSUME NEW m \in 1..n PROVE \E k \in 1..n : p[k] = m
    OBVIOUS
  <2>1. CASE m < i
    BY <1>3, <2>1
  <2>2. CASE m = i
    BY <1>2, <1>4, <2>2
  <2>3. CASE m > i
    <3>1. m - 1 \in 1..n /\ ~(m - 1 < i) /\ m - 1 < n /\ (m - 1) + 1 = m
      BY <1>2, <2>3
    <3>2. p[m - 1] = m
      BY <1>3, <3>1
    <3> QED BY <3>1, <3>2
  <2> QED BY <1>2, <2>1, <2>2, <2>3
<1>8. KeysOf(d) = KeysOf(c)
  <2>1. ASSUME NEW k \in 1..n PROVE d[k].key \in KeysOf(c)
    BY <1>2, <1>4, <1>5 DEF KeysOf
  <2>2. ASSUME NEW m \in 1..n PROVE c[m].key \in KeysOf(d)
    <3>1. PICK k \in 1..n : p[k] = m
      BY <1>7
    <3> QED BY <1>2, <1>5, <3>1 DEF KeysOf
  <2> QED BY <1>2, <2>1, <2>2 DEF KeysOf
<1>9. ASSUME NEW U, Held(c, U) PROVE Held(d, U \cup {c[i].key})
  <2>1. U \cup {c[i].key} \subseteq KeysOf(d)
    BY <1>2, <1>8, <1>9 DEF Held, KeysOf
  <2>2. ASSUME NEW k \in 1..n, NEW m \in 1..n, k < m, d[k].key \in U \cup {c[i].key}
        PROVE  d[m].key \in U \cup {c[i].key}
    <3>1. CASE m = n
      BY <1>4, <1>5, <3>1
    <3>2. CASE m # n
      <4>1. m < n /\ p[k] < p[m] /\ p[k] \in 1..n /\ p[m] \in 1..n
        BY <1>4, <2>2, <3>2
      <4>2. p[k] # i
        BY <1>4, <2>2, <4>1
      <4>3. c[p[k]].key \in U
        <5>1. c[p[k]].key # c[i].key
          BY <1>2, <4>1, <4>2 DEF Sound
        <5> QED BY <1>5, <2>2, <5>1
      <4>4. c[p[m]].key \in U
        BY <1>2, <1>9, <4>1, <4>3 DEF Held
      <4> QED BY <1>5, <4>4
    <3> QED BY <3>1, <3>2
  <2> QED BY <1>2, <2>1, <2>2 DEF Held
<1> QED BY <1>6, <1>8, <1>9

\* A sequence of entries with one key each is no longer than a set that has its keys.
LEMMA KeysFit ==
  ASSUME NEW S, NEW c \in Seq(S), Sound(c), NEW K, IsFiniteSet(K), KeysOf(c) \subseteq K
  PROVE  Len(c) <= Cardinality(K)
<1>1. PICK n \in Nat : n = Len(c)
  OBVIOUS
<1>2. DOMAIN c = 1..n
  BY <1>1
<1>3. IsFiniteSet(1..n) /\ Cardinality(1..n) = n
  BY FS_Interval
<1>4. Cardinality(K) \in Nat
  BY FS_CardinalityType
<1>5. SUFFICES ASSUME Cardinality(K) < n PROVE FALSE
  BY <1>1, <1>4
<1>6. PICK f : f = [i \in 1..n |-> c[i].key]
  OBVIOUS
<1>7. f \in [1..n -> K]
  BY <1>2, <1>6 DEF KeysOf
<1>8. PICK x \in 1..n, y \in 1..n : x # y /\ f[x] = f[y]
  BY <1>3, <1>5, <1>7, FS_PigeonHole
<1> QED BY <1>2, <1>6, <1>8 DEF Sound

\* Storing a feature, before the size is looked at.
Grown(c, key, feature) ==
  LET entry == [key |-> key, feature |-> feature]
  IN  IF Position(c, key) # {}
      THEN [i \in DOMAIN c |-> IF c[i].key = key THEN entry ELSE c[i]]
      ELSE Append(c, entry)

\* What is held stays so, together with the key.
Keeps(c, g, key) ==
  \A U : Held(c, U) /\ (key \in KeysOf(c) => key \in U) => Held(g, U \cup {key})

\* The same as long as it all fits.
KeepsFitting(c, g, key) ==
  \A U, K : /\ Held(c, U) /\ (key \in KeysOf(c) => key \in U)
            /\ U \cup {key} \subseteq K /\ IsFiniteSet(K) /\ Cardinality(K) <= CacheSize
            => Held(g, U \cup {key})

\* What storing does: g is c with the key, its entries are in T.
GrowsTo(c, g, key, T) ==
  /\ g \in Seq(T) /\ Sound(g) /\ KeysOf(g) = KeysOf(c) \cup {key}
  /\ Len(g) = IF key \in KeysOf(c) THEN Len(c) ELSE Len(c) + 1
  /\ Keeps(c, g, key)

LEMMA GrownKeeps ==
  ASSUME NEW S, NEW c \in Seq(S), Sound(c), NEW key, NEW feature,
         feature = [frame |-> key[1], crop |-> key[2]]
  PROVE  GrowsTo(c, Grown(c, key, feature), key, S \cup {[key |-> key, feature |-> feature]})
<1>1. PICK n \in Nat : n = Len(c)
  OBVIOUS
<1>2. DOMAIN c = 1..n /\ \A i \in 1..n : c[i] \in S
  BY <1>1
<1>3. PICK entry : entry = [key |-> key, feature |-> feature]
  OBVIOUS
<1>4. entry.key = key /\ entry.feature = feature
  BY <1>3
<1>5. PICK g : g = Grown(c, key, feature)
  OBVIOUS
<1>6. Position(c, key) # {} <=> key \in KeysOf(c)
  BY DEF Position, KeysOf
<1>7. CASE key \in KeysOf(c)
  <2>1. g = [i \in 1..n |-> IF c[i].key = key THEN entry ELSE c[i]]
    BY <1>2, <1>3, <1>5, <1>6, <1>7 DEF Grown
  <2>2. \A i \in 1..n : g[i].key = c[i].key /\ g[i] \in S \cup {entry}
    BY <1>2, <1>4, <2>1
  <2>3. g \in Seq(S \cup {entry}) /\ Len(g) = n /\ DOMAIN g = 1..n
    BY <2>1, <2>2
  <2>4. \A i \in 1..n : g[i].feature = [frame |-> g[i].key[1], crop |-> g[i].key[2]]
    <3> SUFFICES ASSUME NEW i \in 1..n
                 PROVE  g[i].feature = [frame |-> g[i].key[1], crop |-> g[i].key[2]]
      OBVIOUS
    <3>1. CASE c[i].key = key
      BY <1>4, <2>1, <3>1
    <3>2. CASE c[i].key # key
      BY <1>2, <2>1, <3>2 DEF Sound
    <3> QED BY <3>1, <3>2
  <2>5. Sound(g)
    BY <1>2, <2>2, <2>3, <2>4 DEF Sound
  <2>6. KeysOf(g) = KeysOf(c)
    BY <1>2, <2>2, <2>3 DEF KeysOf
  <2>7. ASSUME NEW U, Held(c, U), key \in U PROVE Held(g, U \cup {key})
    <3>1. U \cup {key} = U
      BY <2>7
    <3> QED BY <1>2, <2>2, <2>3, <2>6, <2>7, <3>1 DEF Held
  <2>8. Keeps(c, g, key)
    BY <1>7, <2>7 DEF Keeps
  <2> QED BY <1>1, <1>3, <1>5, <1>7, <2>3, <2>5, <2>6, <2>8 DEF GrowsTo
<1>8. CASE key \notin KeysOf(c)
  <2>1. g = Append(c, entry)
    BY <1>3, <1>5, <1>6, <1>8 DEF Grown
  <2>2. c \in Seq(S \cup {entry}) /\ entry \in S \cup {entry}
    BY <1>1, <1>2
  <2>3. /\ g \in Seq(S \cup {entry}) /\ Len(g) = n + 1 /\ g[n + 1] = entry
        /\ \A i \in 1..n : g[i] = c[i]
    BY <1>1, <2>1, <2>2, AppendProperties
  <2>4. DOMAIN g = 1..(n + 1) /\ \A i \in 1..(n + 1) : i \in 1..n \/ i = n + 1
    BY <2>3
  <2>5. \A i \in 1..n : c[i].key # key
    BY <1>2, <1>8 DEF KeysOf
  <2>6. Sound(g)
    BY <1>2, <1>4, <2>3, <2>4, <2>5 DEF Sound
  <2>7. KeysOf(g) = KeysOf(c) \cup {key}
    BY <1>2, <1>4, <2>3, <2>4 DEF KeysOf
  <2>8. ASSUME NEW U, Held(c, U) PROVE Held(g, U \cup {key})
    <3>1. ASSUME NEW i \in 1..(n + 1), NEW j \in 1..(n + 1), i < j, g[i].key \in U \cup {key}
          PROVE  g[j].key \in U \cup {key}
      <4>1. CASE j = n + 1
        BY <1>4, <2>3, <4>1
      <4>2. CASE j # n + 1
        <5>1. i \in 1..n /\ j \in 1..n
          BY <3>1, <4>2
        <5>2. c[i].key \in U
          BY <2>3, <2>5, <3>1, <5>1
        <5>3. c[j].key \in U
          BY <1>2, <2>8, <3>1, <5>1, <5>2 DEF Held
        <5> QED BY <2>3, <5>1, <5>3
      <4> QED BY <4>1, <4>2
    <3>2. U \cup {key} \subseteq KeysOf(g)
      BY <2>7, <2>8 DEF Held
    <3> QED BY <2>4, <3>1, <3>2 DEF Held
  <2>9. Keeps(c, g, key)
    BY <2>8 DEF Keeps
  <2> QED BY <1>1, <1>3, <1>5, <1>8, <2>3, <2>6, <2>7, <2>9 DEF GrowsTo
<1> QED BY <1>7, <1>8

\* Past the size the oldest entry goes.
LEMMA TailKeeps ==
  ASSUME NEW S, NEW g \in Seq(S), g # <<>>, Sound(g)
  PROVE  /\ Tail(g) \in Seq(S) /\ Len(Tail(g)) = Len(g) - 1 /\ Sound(Tail(g))
         /\ KeysOf(Tail(g)) \subseteq KeysOf(g)
         /\ \A U : Held(g, U) /\ g[1].key \notin U => Held(Tail(g), U)
<1>1. PICK n \in Nat : n = Len(g) - 1
  OBVIOUS
<1>2. PICK t : t = Tail(g)
  OBVIOUS
<1>3. /\ t \in Seq(S) /\ Len(t) = n /\ Len(g) = n + 1 /\ DOMAIN g = 1..(n + 1) /\ DOMAIN t = 1..n
      /\ \A i \in 1..n : t[i] = g[i + 1]
  BY <1>1, <1>2, HeadTailProperties
<1>4. \A i \in 1..n : i + 1 \in 1..(n + 1)
  OBVIOUS
<1>5. Sound(t)
  <2>1. ASSUME NEW i \in 1..n, NEW j \in 1..n, t[i].key = t[j].key PROVE i = j
    <3>1. i + 1 \in DOMAIN g /\ j + 1 \in DOMAIN g /\ g[i + 1].key = g[j + 1].key
      BY <1>3, <1>4, <2>1
    <3>2. i + 1 = j + 1
      BY <3>1 DEF Sound
    <3> QED BY <3>2
  <2>2. ASSUME NEW i \in 1..n PROVE t[i].feature = [frame |-> t[i].key[1], crop |-> t[i].key[2]]
    <3>1. i + 1 \in DOMAIN g /\ t[i] = g[i + 1]
      BY <1>3, <1>4
    <3> QED BY <3>1 DEF Sound
  <2> QED BY <1>3, <2>1, <2>2 DEF Sound
<1>6. KeysOf(t) \subseteq KeysOf(g)
  <2>1. ASSUME NEW i \in 1..n PROVE t[i].key \in KeysOf(g)
    <3>1. i + 1 \in DOMAIN g /\ t[i] = g[i + 1]
      BY <1>3, <1>4
    <3> QED BY <3>1 DEF KeysOf
  <2> QED BY <1>3, <2>1 DEF KeysOf
<1>7. ASSUME NEW U, Held(g, U), g[1].key \notin U PROVE Held(t, U)
  <2>1. ASSUME NEW u \in U PROVE u \in KeysOf(t)
    <3>1. PICK i \in 1..(n + 1) : g[i].key = u
      BY <1>3, <1>7 DEF Held, KeysOf
    <3>2. i - 1 \in 1..n /\ (i - 1) + 1 = i
      BY <1>7, <2>1, <3>1
    <3> QED BY <1>3, <3>1, <3>2 DEF KeysOf
  <2>2. ASSUME NEW i \in 1..n, NEW j \in 1..n, i < j, t[i].key \in U PROVE t[j].key \in U
    <3>1. i + 1 < j + 1
      BY <2>2
    <3> QED BY <1>3, <1>4, <1>7, <2>2, <3>1 DEF Held
  <2> QED BY <1>3, <2>1, <2>2 DEF Held
<1> QED BY <1>1, <1>2, <1>3, <1>5, <1>6, <1>7

\* What _remember does to the cache: nothing that is held is evicted as long as it fits.
LEMMA RememberedKeeps ==
  ASSUME NEW S, NEW c \in Seq(S), Sound(c), Len(c) <= CacheSize, NEW key, NEW feature,
         feature = [frame |-> key[1], crop |-> key[2]]
  PROVE  LET r == Remembered(c, key, feature) IN
         /\ r \in Seq(S \cup {[key |-> key, feature |-> feature]}) /\ Sound(r) /\ Len(r) <= CacheSize
         /\ KeysOf(r) \subseteq KeysOf(c) \cup {key}
         /\ KeepsFitting(c, r, key)
<1>1. PICK T : T = S \cup {[key |-> key, feature |-> feature]}
  OBVIOUS
<1>2. PICK g : g = Grown(c, key, feature)
  OBVIOUS
<1>3. /\ g \in Seq(T) /\ Sound(g) /\ KeysOf(g) = KeysOf(c) \cup {key}
      /\ Len(g) = IF key \in KeysOf(c) THEN Len(c) ELSE Len(c) + 1
      /\ Keeps(c, g, key)
  <2>1. GrowsTo(c, Grown(c, key, feature), key, S \cup {[key |-> key, feature |-> feature]})
    BY GrownKeeps
  <2>2. GrowsTo(c, g, key, T)
    BY <1>1, <1>2, <2>1
  <2> QED BY <2>2 DEF GrowsTo
<1>4. CacheSize \in Nat /\ Len(c) \in Nat /\ Len(g) \in Nat
  BY <1>3, CacheAssumption
<1>5. PICK r : r = Remembered(c, key, feature)
  OBVIOUS
<1>6. r = IF Len(g) > CacheSize THEN Tail(g) ELSE g
  BY <1>2, <1>5 DEF Remembered, Grown
<1>7. CASE Len(g) <= CacheSize
  <2>1. r = g
    BY <1>4, <1>6, <1>7
  <2>2. KeepsFitting(c, r, key)
    BY <1>3, <2>1 DEF Keeps, KeepsFitting
  <2> QED BY <1>1, <1>3, <1>5, <1>7, <2>1, <2>2
<1>8. CASE Len(g) > CacheSize
  <2>1. r = Tail(g) /\ g # <<>> /\ Len(g) = CacheSize + 1
    BY <1>3, <1>4, <1>6, <1>8
  <2>2. /\ r \in Seq(T) /\ Len(r) = CacheSize /\ Sound(r) /\ KeysOf(r) \subseteq KeysOf(g)
        /\ \A U : Held(g, U) /\ g[1].key \notin U => Held(r, U)
    BY <1>3, <1>4, <2>1, TailKeeps
  <2>3. ASSUME NEW U, NEW K, Held(g, U), U \subseteq K, IsFiniteSet(K), Cardinality(K) <= CacheSize
        PROVE  g[1].key \notin U
    <3> SUFFICES ASSUME g[1].key \in U PROVE FALSE
      OBVIOUS
    <3>1. DOMAIN g = 1..(CacheSize + 1) /\ 1 \in DOMAIN g
      BY <1>3, <1>4, <2>1
    <3>2. ASSUME NEW i \in DOMAIN g PROVE g[i].key \in K
      <4>1. i = 1 \/ 1 < i
        BY <3>1
      <4> QED BY <2>3, <3>1, <4>1 DEF Held
    <3>3. KeysOf(g) \subseteq K
      BY <3>2 DEF KeysOf
    <3>4. Len(g) <= Cardinality(K) /\ Cardinality(K) \in Nat
      BY <1>3, <2>3, <3>3, KeysFit, FS_CardinalityType
    <3> QED BY <1>4, <2>1, <2>3, <3>4
  <2>4. ASSUME NEW U, NEW K, Held(c, U), key \in KeysOf(c) => key \in U,
               U \cup {key} \subseteq K, IsFiniteSet(K), Cardinality(K) <= CacheSize
        PROVE  Held(r, U \cup {key})
    <3>1. PICK V : V = U \cup {key}
      OBVIOUS
    <3>2. Held(g, V)
      BY <1>3, <2>4, <3>1 DEF Keeps
    <3>3. g[1].key \notin V
      BY <2>3, <2>4, <3>1, <3>2
    <3> QED BY <2>2, <3>1, <3>2, <3>3
  <2>5. KeepsFitting(c, r, key)
    BY <2>4 DEF KeepsFitting
  <2> QED BY <1>1, <1>3, <1>4, <1>5, <2>2, <2>5
<1> QED BY <1>4, <1>7, <1>8
-----------------------------------------------------------------------------
\* The slots looked up and scored so far: all but those that wait to be embedded.
Scored == {i \in 1..at : \A m \in DOMAIN misses : misses[m] # i}
Used == {Key(slots[i]) : i \in Scored}

Shape ==
  /\ scene \in Scene /\ stabilize \in BOOLEAN /\ camera \in Camera
  /\ newest \in [Camera -> 0..MaxFrame]
  /\ slots = IF newest[camera] = 0 THEN <<>> ELSE Slotted(camera, newest[camera])
  /\ Patches(slots)
  /\ at \in 0..Len(slots)
  /\ misses \in Seq(1..at)
  /\ \A i, j \in DOMAIN misses : misses[i] = misses[j] => i = j
  /\ DOMAIN features = 1..Len(slots) /\ features = [i \in 1..Len(slots) |-> features[i]]
  /\ last \in {<<>>, slots} /\ (last # <<>> => Idle)

CacheShape == (\E S : cache \in Seq(S)) /\ Sound(cache) /\ Len(cache) <= CacheSize

\* A slot that was scored has the embedding of its patch.
Filled == \A i \in Scored : features[i] = Patch(slots[i])

\* While a call goes through the cache, what it used is held; what waits to be embedded
\* is in the cache only if another slot of the call has put it there.
Keys == {Key(slots[i]) : i \in DOMAIN slots}
Kept ==
  (~Idle \/ last # <<>>) /\ Cardinality(Keys) <= CacheSize =>
    /\ Held(cache, Used)
    /\ \A m \in DOMAIN misses : Key(slots[misses[m]]) \in KeysOf(cache) => Key(slots[misses[m]]) \in Used

CallInv == Shape /\ CacheShape /\ Filled /\ Kept

LEMMA SlotsShape ==
  ASSUME Shape
  PROVE  /\ Len(slots) \in Nat /\ DOMAIN slots = 1..Len(slots)
         /\ \A i \in 1..Len(slots) : Patch(slots[i]) = slots[i]
         /\ at \in Nat /\ at <= Len(slots)
         /\ \A m \in DOMAIN misses : misses[m] \in 1..at
         /\ slots # <<>> <=> Len(slots) > 0
         /\ slots = [i \in 1..Len(slots) |-> slots[i]]
         /\ IsFiniteSet(Keys)
<1>1. PICK k \in Nat : /\ DOMAIN slots = 1..k /\ slots = [i \in 1..k |-> slots[i]]
                       /\ \A i \in 1..k : Patch(slots[i]) = slots[i]
  BY DEF Shape, Patches
<1>2. Len(slots) = k
  BY <1>1
<1>3. \A m \in DOMAIN misses : misses[m] \in 1..at
  BY DEF Shape
<1>4. at \in Nat /\ at <= k
  BY <1>2 DEF Shape
<1>5. IsFiniteSet(Keys)
  <2>1. PICK f : f = [i \in 1..k |-> Key(slots[i])]
    OBVIOUS
  <2>2. PICK T : T = Keys
    OBVIOUS
  <2>3. f \in Surjection(1..k, T)
    BY <1>1, <2>1, <2>2 DEF Keys, Surjection
  <2>4. IsFiniteSet(1..k)
    BY FS_Interval
  <2>5. IsFiniteSet(T)
    BY <2>3, <2>4, FS_Surjection
  <2> QED BY <2>2, <2>5
<1>6. slots # <<>> <=> k > 0
  BY <1>1, <1>2
<1> QED BY <1>1, <1>2, <1>3, <1>4, <1>5, <1>6

LEMMA InitCall == Init => CallInv
<1> SUFFICES ASSUME Init PROVE CallInv
  OBVIOUS
<1>1. slots = <<>> /\ misses = <<>> /\ features = <<>> /\ cache = <<>> /\ last = <<>> /\ at = 0
  BY DEF Init
<1>2. Patches(slots)
  <2>1. PICK k \in Nat : k = 0
    OBVIOUS
  <2>2. DOMAIN slots = 1..k /\ slots = [i \in 1..k |-> slots[i]] /\ \A i \in 1..k : FALSE
    BY <1>1, <2>1
  <2> QED BY <2>2 DEF Patches
<1>3. newest \in [Camera -> 0..MaxFrame] /\ newest[camera] = 0
  BY CacheAssumption DEF Init
<1>4. Len(slots) = 0 /\ features = [i \in 1..0 |-> features[i]] /\ DOMAIN features = 1..0
  BY <1>1
<1>5. Shape
  BY <1>1, <1>2, <1>3, <1>4 DEF Init, Shape, Idle
<1>6. CacheShape
  <2>1. cache \in Seq({}) /\ Len(cache) = 0 /\ DOMAIN cache = {}
    BY <1>1
  <2> QED BY <2>1, CacheAssumption DEF CacheShape, Sound
<1>7. Scored = {}
  BY <1>1 DEF Scored
<1> QED BY <1>1, <1>4, <1>5, <1>6, <1>7 DEF CallInv, Filled, Kept, Idle

LEMMA CallKeeps == ASSUME CallInv, NEW c \in Camera, Call(c) PROVE CallInv'
<1>1. PICK n \in 1..MaxFrame :
        /\ newest' = [newest EXCEPT ![c] = n] /\ slots' = Slotted(c, n)
        /\ camera' = c /\ at' = 0 /\ last' = <<>> /\ misses = <<>> /\ misses' = <<>>
        /\ features' = [i \in DOMAIN slots' |-> Zero]
        /\ scene' = scene /\ stabilize' = stabilize /\ cache' = cache
  BY DEF Call, Idle
<1>2. /\ scene \in Scene /\ stabilize \in BOOLEAN /\ newest \in [Camera -> 0..MaxFrame]
      /\ MaxFrame \in Nat
  BY CacheAssumption DEF CallInv, Shape
<1>3. Patches(Slotted(c, n))
  BY <1>2, SlottedShape
<1>4. PICK s : s = Slotted(c, n)
  OBVIOUS
<1>5. slots' = s /\ Patches(s)
  BY <1>1, <1>3, <1>4
<1>6. Slotted(c, n)' = Slotted(c, n)
  BY <1>1 DEF Slotted, Tubes
<1>7. newest' \in [Camera -> 0..MaxFrame] /\ newest'[c] = n /\ n # 0
  BY <1>1, <1>2
<1>8. slots' = IF newest'[camera'] = 0 THEN <<>> ELSE Slotted(camera, newest[camera])'
  BY <1>1, <1>7 DEF Slotted, Tubes
<1>9. PICK k \in Nat : DOMAIN s = 1..k /\ Len(s) = k
  BY <1>5 DEF Patches
<1>10. DOMAIN features' = 1..Len(slots') /\ features' = [i \in 1..Len(slots') |-> features'[i]]
       /\ at' \in 0..Len(slots')
  BY <1>1, <1>5, <1>9
<1>11. Patches(slots)'
  BY <1>5 DEF Patches, Patch
<1>12. misses' \in Seq(1..at') /\ DOMAIN misses' = {}
  BY <1>1
<1>13. Shape'
  BY <1>1, <1>2, <1>7, <1>8, <1>10, <1>11, <1>12 DEF Shape
<1>14. CacheShape'
  BY <1>1 DEF CallInv, CacheShape, Sound
<1>15. Scored' = {} /\ Used' = {}
  BY <1>1 DEF Scored, Used
<1>16. Filled'
  BY <1>15 DEF Filled
<1>17. Kept'
  <2>1. Held(cache, {})'
    BY DEF Held
  <2> QED BY <1>12, <1>15, <2>1 DEF Kept, Held
<1> QED BY <1>13, <1>14, <1>16, <1>17 DEF CallInv

LEMMA GenericKeeps == ASSUME CallInv, Generic PROVE CallInv'
<1>1. /\ at = 0 /\ slots # <<>> /\ misses = <<>> /\ misses' = <<>>
      /\ features' = [i \in DOMAIN slots |-> Patch(slots[i])]
      /\ at' = Len(slots) /\ slots' = slots /\ cache' = cache /\ last' = last
      /\ scene' = scene /\ stabilize' = stabilize /\ camera' = camera /\ newest' = newest
  BY DEF Generic
<1>2. /\ Len(slots) \in Nat /\ DOMAIN slots = 1..Len(slots) /\ Len(slots) > 0
  BY <1>1, SlotsShape DEF CallInv
<1>3. last = <<>>
  BY <1>1, <1>2 DEF CallInv, Shape, Idle
<1>4. DOMAIN features' = 1..Len(slots') /\ features' = [i \in 1..Len(slots') |-> features'[i]]
      /\ at' \in 0..Len(slots') /\ misses' \in Seq(1..at') /\ DOMAIN misses' = {}
  BY <1>1, <1>2
<1>5. Patches(slots)' /\ (IF newest[camera] = 0 THEN <<>> ELSE Slotted(camera, newest[camera]))' = slots'
  BY <1>1 DEF CallInv, Shape, Patches, Patch, Slotted, Tubes
<1>6. Shape'
  BY <1>1, <1>3, <1>4, <1>5 DEF CallInv, Shape
<1>7. CacheShape'
  BY <1>1 DEF CallInv, CacheShape, Sound
<1>8. Filled'
  BY <1>1, <1>2 DEF Filled, Scored, Patch
<1>9. Kept'
  BY <1>1, <1>3 DEF Kept, Idle
<1> QED BY <1>6, <1>7, <1>8, <1>9 DEF CallInv

\* An action that goes on with the call: frame, slots and scene stay.
Steady ==
  /\ slots' = slots /\ scene' = scene /\ stabilize' = stabilize /\ camera' = camera /\ newest' = newest

LEMMA SteadyShape ==
  ASSUME Shape, Steady, at' \in 0..Len(slots), misses' \in Seq(1..at'),
         \A i, j \in DOMAIN misses' : misses'[i] = misses'[j] => i = j,
         DOMAIN features' = DOMAIN features, features' = [i \in DOMAIN features |-> features'[i]],
         last' \in {<<>>, slots}, last' # <<>> => at' = Len(slots) /\ misses' = <<>>
  PROVE  Shape'
<1>1. Patches(slots)' /\ (IF newest[camera] = 0 THEN <<>> ELSE Slotted(camera, newest[camera]))' = slots'
  BY DEF Shape, Steady, Patches, Patch, Slotted, Tubes
<1>2. DOMAIN features = 1..Len(slots)
  BY DEF Shape
<1> QED BY <1>1, <1>2 DEF Shape, Steady, Idle

LEMMA NextSlot ==
  ASSUME NEW n \in Nat, NEW a \in Nat, NEW i, i = a + 1, a < n
  PROVE  /\ i \in 1..n /\ i \in 0..n /\ i \in Nat /\ i # a /\ a # n
         /\ \A j : j \in 1..i <=> j \in 1..a \/ j = i
         /\ \A j \in 1..a : j # i /\ j \in 1..n
OBVIOUS

LEMMA HitKeeps == ASSUME CallInv, Hit PROVE CallInv'
<1>1. PICK i, key : i = at + 1 /\ key = Key(slots[i])
  OBVIOUS
<1>2. /\ at < Len(slots) /\ Cached(key)
      /\ features' = [features EXCEPT ![i] = cache[CHOOSE k \in Position(cache, key) : TRUE].feature]
      /\ cache' = Touched(cache, key)
      /\ at' = i /\ misses' = misses
      /\ last' = IF at' = Len(slots) /\ misses = <<>> THEN slots ELSE last
      /\ Steady
  BY <1>1 DEF Hit, Steady
<1>22. PICK n \in Nat, a \in Nat : n = Len(slots) /\ a = at /\ a < n
  <2>1. Len(slots) \in Nat /\ at \in Nat /\ at < Len(slots)
    BY <1>2, SlotsShape DEF CallInv
  <2> QED BY <2>1
<1>23. /\ i \in 1..n /\ i \in 0..n /\ i \in Nat /\ i # a /\ a # n
       /\ \A j : j \in 1..i <=> j \in 1..a \/ j = i
       /\ \A j \in 1..a : j # i /\ j \in 1..n
  <2>1. i = a + 1
    BY <1>1, <1>22
  <2> QED BY <1>22, <2>1, NextSlot
<1>3. /\ DOMAIN slots = 1..n /\ \A m \in DOMAIN misses : misses[m] \in 1..a
      /\ i \in 1..Len(slots)
  <2>1. DOMAIN slots = 1..Len(slots) /\ \A m \in DOMAIN misses : misses[m] \in 1..at
    BY SlotsShape DEF CallInv
  <2> QED BY <1>22, <1>23, <2>1
<1>20. at' = i /\ misses' = misses /\ at # Len(slots)
  BY <1>2, <1>22, <1>23
<1>21. at' \in 0..Len(slots) /\ \A m \in 1..at : m \in 1..i
  BY <1>20, <1>22, <1>23
<1>4. PICK k : k = CHOOSE m \in Position(cache, key) : TRUE
  OBVIOUS
<1>5. k \in DOMAIN cache /\ cache[k].key = key
  BY <1>2, <1>4 DEF Cached, Position
<1>6. cache[k].feature = Patch(slots[i])
  <2>1. key[1] = slots[i].frame /\ key[2] = slots[i].crop
    BY <1>1 DEF Key
  <2> QED BY <1>5, <2>1 DEF CallInv, CacheShape, Sound, Patch
<1>7. DOMAIN features = 1..Len(slots) /\ features' = [features EXCEPT ![i] = Patch(slots[i])]
  BY <1>2, <1>4, <1>6 DEF CallInv, Shape
<1>8. Shape'
  <2>1. at' \in 0..Len(slots)
    BY <1>21
  <2>2. misses' \in Seq(1..at')
    <3>1. misses \in Seq(1..at)
      BY DEF CallInv, Shape
    <3>2. misses \in Seq(1..i)
      <4>1. PICK I : I = 1..i
        OBVIOUS
      <4>2. PICK J : J = 1..at
        OBVIOUS
      <4>3. J \subseteq I
        BY <1>21, <4>1, <4>2
      <4>4. misses \in Seq(J)
        BY <3>1, <4>2
      <4>5. misses \in Seq(I)
        BY <4>3, <4>4
      <4> QED BY <4>1, <4>5
    <3> QED BY <1>20, <3>2
  <2>3. last' \in {<<>>, slots} /\ (last' # <<>> => at' = Len(slots) /\ misses' = <<>>)
    BY <1>2, <1>20 DEF CallInv, Shape, Idle
  <2>4. DOMAIN features' = DOMAIN features /\ features' = [j \in DOMAIN features |-> features'[j]]
    BY <1>7
  <2>5. \A m, q \in DOMAIN misses' : misses'[m] = misses'[q] => m = q
    BY <1>2 DEF CallInv, Shape
  <2> QED BY <1>2, <2>1, <2>2, <2>3, <2>4, <2>5, SteadyShape DEF CallInv
<1>9. PICK S : cache \in Seq(S)
  BY DEF CallInv, CacheShape
<1>10. PICK c, d : c = cache /\ d = cache'
  OBVIOUS
<1>11. c \in Seq(S) /\ key \in KeysOf(c) /\ d = Touched(c, key) /\ Sound(c) /\ Len(c) <= CacheSize
  BY <1>2, <1>5, <1>9, <1>10 DEF CallInv, CacheShape, KeysOf
<1>12. d \in Seq(S) /\ Len(d) = Len(c) /\ \E p \in 1..Len(c) : c[p].key = key /\ Moved(c, d, p)
  BY <1>11, TouchedMoves
<1>13. PICK p \in 1..Len(c) : c[p].key = key /\ Moved(c, d, p)
  BY <1>12
<1>14. /\ Sound(d) /\ KeysOf(d) = KeysOf(c)
       /\ \A V : Held(c, V) => Held(d, V \cup {key})
  BY <1>11, <1>12, <1>13, MovedKeeps
<1>15. CacheShape'
  <2>1. Sound(cache') /\ Len(cache') <= CacheSize /\ cache' \in Seq(S)
    BY <1>10, <1>11, <1>12, <1>14
  <2> QED BY <2>1 DEF CacheShape, Sound
<1>16. Scored' = Scored \cup {i}
  <2>1. \A j : j \in 1..i <=> j \in 1..at \/ j = i
    BY <1>22, <1>23
  <2>2. \A m \in DOMAIN misses : misses[m] # i
    BY <1>3, <1>23
  <2>3. 1..at' = 1..at \cup {i}
    BY <1>20, <2>1
  <2> QED BY <1>20, <2>2, <2>3 DEF Scored
<1>17. Used' = Used \cup {key}
  BY <1>1, <1>2, <1>16 DEF Used, Key, Steady
<1>18. Filled'
  <2>1. \A j \in Scored : j \in 1..Len(slots) /\ j # i
    <3>1. \A j \in 1..at : j \in 1..Len(slots) /\ j # i
      BY <1>22, <1>23
    <3> QED BY <3>1 DEF Scored
  <2> QED BY <1>2, <1>3, <1>7, <1>16, <2>1 DEF CallInv, Filled, Patch, Steady
<1>19. Kept'
  <2> SUFFICES ASSUME (Cardinality(Keys) <= CacheSize)' PROVE
        /\ Held(cache, Used)'
        /\ \A m \in DOMAIN misses : (Key(slots[misses[m]]) \in KeysOf(cache))' => (Key(slots[misses[m]]) \in Used)'
    BY <1>2 DEF Kept
  <2>1. Cardinality(Keys) <= CacheSize
    BY <1>2 DEF Keys, Key, Steady
  <2>2. ~Idle
    BY <1>20 DEF Idle
  <2>3. Held(cache, Used) /\ \A m \in DOMAIN misses : Key(slots[misses[m]]) \in KeysOf(cache) => Key(slots[misses[m]]) \in Used
    BY <2>1, <2>2 DEF CallInv, Kept
  <2>4. Held(cache', Used \cup {key})
    BY <1>10, <1>14, <2>3
  <2>5. Held(cache, Used)'
    BY <1>17, <2>4 DEF Held
  <2>6. KeysOf(cache)' = KeysOf(cache)
    <3>1. KeysOf(d) = KeysOf(c)
      BY <1>14
    <3>2. KeysOf(cache') = KeysOf(cache)
      BY <1>10, <3>1
    <3> QED BY <3>2 DEF KeysOf
  <2> QED BY <1>2, <1>17, <2>3, <2>5, <2>6 DEF Key, Steady
<1> QED BY <1>8, <1>15, <1>18, <1>19 DEF CallInv

LEMMA MissKeeps == ASSUME CallInv, Miss PROVE CallInv'
<1>1. PICK i, key : i = at + 1 /\ key = Key(slots[i])
  OBVIOUS
<1>2. /\ at < Len(slots) /\ ~Cached(key)
      /\ misses' = Append(misses, i) /\ at' = i
      /\ features' = features /\ cache' = cache /\ last' = last /\ Steady
  BY <1>1 DEF Miss, Steady
<1>22. PICK w \in Nat, a \in Nat : w = Len(slots) /\ a = at /\ a < w
  <2>1. Len(slots) \in Nat /\ at \in Nat /\ at < Len(slots)
    BY <1>2, SlotsShape DEF CallInv
  <2> QED BY <2>1
<1>23. /\ i \in 1..w /\ i \in 0..w /\ i \in Nat /\ i # a /\ a # w
       /\ \A j : j \in 1..i <=> j \in 1..a \/ j = i
       /\ \A j \in 1..a : j # i /\ j \in 1..w
  <2>1. i = a + 1
    BY <1>1, <1>22
  <2> QED BY <1>22, <2>1, NextSlot
<1>3. /\ DOMAIN slots = 1..w /\ \A m \in DOMAIN misses : misses[m] \in 1..a
      /\ misses \in Seq(1..i) /\ DOMAIN misses = 1..Len(misses) /\ Len(misses) \in Nat
  <2>1. misses \in Seq(1..at)
    BY DEF CallInv, Shape
  <2>2. DOMAIN slots = 1..Len(slots) /\ \A m \in DOMAIN misses : misses[m] \in 1..at
    BY SlotsShape DEF CallInv
  <2>3. 1..at \subseteq 1..i
    BY <1>22, <1>23
  <2>4. misses \in Seq(1..i)
    <3>1. PICK I : I = 1..i
      OBVIOUS
    <3>2. PICK J : J = 1..at
      OBVIOUS
    <3>3. J \subseteq I /\ misses \in Seq(J)
      BY <2>1, <2>3, <3>1, <3>2
    <3>4. misses \in Seq(I)
      BY <3>3
    <3> QED BY <3>1, <3>4
  <2> QED BY <1>22, <2>1, <2>2, <2>4
<1>20. at' = i /\ at # Len(slots) /\ ~Idle
  <2>1. at # Len(slots)
    BY <1>22, <1>23
  <2> QED BY <1>2, <2>1 DEF Idle
<1>21. at' \in 0..Len(slots) /\ \A j : j \in 1..i <=> j \in 1..at \/ j = i
  BY <1>20, <1>22, <1>23
<1>4. PICK n \in Nat : n = Len(misses)
  BY <1>3
<1>5. /\ misses' \in Seq(1..i) /\ DOMAIN misses' = 1..(n + 1) /\ misses'[n + 1] = i
      /\ \A m \in 1..n : misses'[m] = misses[m]
  <2>1. i \in 1..i
    BY <1>23
  <2>2. /\ misses' \in Seq(1..i) /\ Len(misses') = n + 1 /\ misses'[n + 1] = i
        /\ \A m \in 1..n : misses'[m] = misses[m]
    BY <1>2, <1>3, <1>4, <2>1, AppendProperties
  <2> QED BY <2>2
<1>6. \A m \in 1..n : misses[m] \in 1..a /\ misses[m] # i
  BY <1>3, <1>4, <1>23
<1>7. \A m \in 1..(n + 1) : m \in 1..n \/ m = n + 1
  OBVIOUS
<1>8. Shape'
  <2>1. at' \in 0..Len(slots) /\ misses' \in Seq(1..at')
    BY <1>5, <1>20, <1>21
  <2>2. \A m, k \in DOMAIN misses' : misses'[m] = misses'[k] => m = k
    <3>1. \A m, k \in 1..n : misses[m] = misses[k] => m = k
      BY <1>3, <1>4 DEF CallInv, Shape
    <3> QED BY <1>5, <1>6, <1>7, <3>1
  <2>3. last = <<>>
    BY <1>20 DEF CallInv, Shape
  <2>4. DOMAIN features' = DOMAIN features /\ features' = [j \in DOMAIN features |-> features'[j]]
    BY <1>2 DEF CallInv, Shape
  <2> QED BY <1>2, <2>1, <2>2, <2>3, <2>4, SteadyShape DEF CallInv
<1>9. CacheShape'
  BY <1>2 DEF CallInv, CacheShape, Sound
<1>10. Scored' = Scored
  <2>1. ASSUME NEW j \in Scored PROVE j \in Scored'
    <3>1. j \in 1..at /\ \A m \in 1..n : misses[m] # j
      BY <1>3, <1>4 DEF Scored
    <3>2. j \in 1..i /\ j # i
      <4>1. \A x \in 1..at : x # i
        BY <1>22, <1>23
      <4> QED BY <1>21, <3>1, <4>1
    <3>3. \A m \in DOMAIN misses' : misses'[m] # j
      BY <1>5, <1>7, <3>1, <3>2
    <3>4. j \in 1..at'
      BY <1>20, <3>2
    <3> QED BY <3>3, <3>4 DEF Scored
  <2>2. ASSUME NEW j \in Scored' PROVE j \in Scored
    <3>1. j \in 1..i /\ \A m \in 1..(n + 1) : misses'[m] # j
      BY <1>2, <1>5 DEF Scored
    <3>2. n + 1 \in 1..(n + 1) /\ \A m \in 1..n : m \in 1..(n + 1)
      BY <1>4
    <3>3. j # i /\ \A m \in 1..n : misses[m] # j
      BY <1>5, <3>1, <3>2
    <3>4. j \in 1..at
      BY <1>21, <3>1, <3>3
    <3> QED BY <1>3, <1>4, <3>3, <3>4 DEF Scored
  <2> QED BY <2>1, <2>2
<1>11. Used' = Used
  BY <1>2, <1>10 DEF Used, Key, Steady
<1>12. Filled'
  BY <1>2, <1>10 DEF CallInv, Filled, Patch, Steady
<1>13. Kept'
  <2> SUFFICES ASSUME (Cardinality(Keys) <= CacheSize)' PROVE
        /\ Held(cache, Used)'
        /\ \A m \in DOMAIN misses' : (Key(slots[misses[m]]) \in KeysOf(cache))' => (Key(slots[misses[m]]) \in Used)'
    BY DEF Kept
  <2>1. Cardinality(Keys) <= CacheSize /\ ~Idle
    BY <1>2, <1>20 DEF Keys, Key, Steady
  <2>2. Held(cache, Used) /\ \A m \in DOMAIN misses : Key(slots[misses[m]]) \in KeysOf(cache) => Key(slots[misses[m]]) \in Used
    BY <2>1 DEF CallInv, Kept
  <2>3. key \notin KeysOf(cache)
    BY <1>2 DEF Cached, Position, KeysOf
  <2>4. Held(cache, Used)' /\ KeysOf(cache)' = KeysOf(cache)
    BY <1>2, <1>11, <2>2 DEF Held, KeysOf
  <2>5. \A j : Key(slots[j])' = Key(slots[j])
    BY <1>2 DEF Key, Steady
  <2>6. ASSUME NEW m \in DOMAIN misses', Key(slots'[misses'[m]]) \in KeysOf(cache)
        PROVE  Key(slots'[misses'[m]]) \in Used
    <3>1. slots' = slots
      BY <1>2 DEF Steady
    <3>2. CASE m = n + 1
      BY <1>1, <1>5, <2>3, <2>6, <3>1, <3>2
    <3>3. CASE m # n + 1
      <4>1. m \in DOMAIN misses /\ misses'[m] = misses[m]
        BY <1>3, <1>4, <1>5, <1>7, <3>3
      <4> QED BY <2>2, <2>6, <3>1, <4>1
    <3> QED BY <3>2, <3>3
  <2> QED BY <1>11, <2>4, <2>6 DEF Key
<1> QED BY <1>8, <1>9, <1>12, <1>13 DEF CallInv

\* The first of the misses is embedded: it is a slot looked up, and no other miss.
LEMMA FirstMiss ==
  ASSUME NEW a \in Nat, NEW s \in Seq(1..a), s # <<>>,
         \A p, q \in DOMAIN s : s[p] = s[q] => p = q
  PROVE  /\ Head(s) = s[1] /\ s[1] \in 1..a /\ 1 \in DOMAIN s
         /\ Tail(s) \in Seq(1..a)
         /\ \A p \in DOMAIN Tail(s) : p + 1 \in DOMAIN s /\ Tail(s)[p] = s[p + 1] /\ s[p + 1] # s[1]
         /\ \A p \in DOMAIN s : p = 1 \/ (p - 1 \in DOMAIN Tail(s) /\ Tail(s)[p - 1] = s[p])
         /\ \A p, q \in DOMAIN Tail(s) : Tail(s)[p] = Tail(s)[q] => p = q
<1>0. PICK n \in Nat : n = Len(s)
  <2>1. Len(s) \in Nat
    OBVIOUS
  <2> QED BY <2>1
<1>1. PICK t : n = Len(s) /\ t = Tail(s)
  BY <1>0
<1>2. /\ DOMAIN s = 1..n /\ n >= 1 /\ Head(s) = s[1] /\ s[1] \in 1..a /\ 1 \in 1..n
      /\ t \in Seq(1..a) /\ Len(t) = n - 1 /\ \A p \in 1..(n - 1) : t[p] = s[p + 1]
  <2>1. n >= 1
    BY <1>1
  <2>2. t \in Seq(1..a) /\ Len(t) = n - 1 /\ \A p \in 1..(n - 1) : t[p] = s[p + 1]
    BY <1>1, HeadTailProperties
  <2> QED BY <1>1, <2>1, <2>2
<1>3. DOMAIN t = 1..(n - 1)
  BY <1>2
<1>4. \A p \in 1..(n - 1) : p + 1 \in 1..n /\ p + 1 # 1
  OBVIOUS
<1>5. \A p \in 1..n : p = 1 \/ (p - 1 \in 1..(n - 1) /\ (p - 1) + 1 = p)
  OBVIOUS
<1>6. \A p \in 1..(n - 1) : s[p + 1] # s[1]
  BY <1>2, <1>4
<1>7. \A p \in 1..n : p = 1 \/ (p - 1 \in 1..(n - 1) /\ t[p - 1] = s[p])
  BY <1>2, <1>5
<1>8. ASSUME NEW p \in 1..(n - 1), NEW q \in 1..(n - 1), t[p] = t[q] PROVE p = q
  <2>1. s[p + 1] = s[q + 1]
    BY <1>2, <1>8
  <2>2. p + 1 = q + 1
    BY <1>2, <1>4, <2>1
  <2> QED BY <2>2
<1>9. \A p \in DOMAIN t : p + 1 \in DOMAIN s /\ t[p] = s[p + 1] /\ s[p + 1] # s[1]
  BY <1>2, <1>3, <1>4, <1>6
<1>10. \A p \in DOMAIN s : p = 1 \/ (p - 1 \in DOMAIN t /\ t[p - 1] = s[p])
  BY <1>2, <1>3, <1>7
<1>11. \A p, q \in DOMAIN t : t[p] = t[q] => p = q
  BY <1>3, <1>8
<1>12. Head(s) = s[1] /\ s[1] \in 1..a /\ 1 \in DOMAIN s /\ t \in Seq(1..a)
  BY <1>2
<1> QED BY <1>1, <1>9, <1>10, <1>11, <1>12, Zenon

LEMMA EmbedKeeps == ASSUME CallInv, Embed PROVE CallInv'
<1>1. PICK i, key, feature : i = Head(misses) /\ key = Key(slots[i]) /\ feature = Patch(slots[i])
  OBVIOUS
<1>2. /\ at = Len(slots) /\ misses # <<>>
      /\ features' = [features EXCEPT ![i] = feature]
      /\ cache' = Remembered(cache, key, feature)
      /\ misses' = Tail(misses) /\ at' = at
      /\ last' = IF misses' = <<>> THEN slots ELSE last
      /\ Steady
  BY <1>1 DEF Embed, Steady
<1>20. PICK a \in Nat : a = at
  BY SlotsShape DEF CallInv
<1>3. PICK s, t : a = at /\ s = misses /\ t = misses'
  BY <1>20
<1>4. /\ s \in Seq(1..a) /\ s # <<>> /\ t = Tail(s) /\ i = Head(s)
      /\ \A p, q \in DOMAIN s : s[p] = s[q] => p = q
  BY <1>1, <1>2, <1>3 DEF CallInv, Shape
<1>5. /\ i = s[1] /\ i \in 1..a /\ 1 \in DOMAIN s
      /\ t \in Seq(1..a)
      /\ \A p \in DOMAIN t : p + 1 \in DOMAIN s /\ t[p] = s[p + 1] /\ t[p] # i
      /\ \A p \in DOMAIN s : p = 1 \/ (p - 1 \in DOMAIN t /\ t[p - 1] = s[p])
      /\ \A p, q \in DOMAIN t : t[p] = t[q] => p = q
  BY <1>4, FirstMiss
<1>6. /\ Len(slots) = a /\ DOMAIN slots = 1..a /\ IsFiniteSet(Keys) /\ key \in Keys /\ ~Idle
  <2>1. Len(slots) = a /\ DOMAIN slots = 1..a /\ IsFiniteSet(Keys)
    BY <1>2, <1>3, SlotsShape DEF CallInv
  <2> QED BY <1>1, <1>2, <1>5, <2>1 DEF Keys, Idle
<1>7. DOMAIN features = 1..a /\ DOMAIN features' = 1..a /\ features'[i] = feature
      /\ \A j \in 1..a : j # i => features'[j] = features[j]
  BY <1>2, <1>5, <1>6 DEF CallInv, Shape
<1>8. Shape'
  <2>1. at' \in 0..Len(slots) /\ misses' \in Seq(1..at')
    BY <1>2, <1>3, <1>5, <1>6
  <2>2. last' \in {<<>>, slots} /\ (last' # <<>> => at' = Len(slots) /\ misses' = <<>>)
    BY <1>2, <1>6 DEF CallInv, Shape
  <2>3. DOMAIN features' = DOMAIN features /\ features' = [j \in DOMAIN features |-> features'[j]]
    BY <1>2, <1>7
  <2>4. \A m, n \in DOMAIN misses' : misses'[m] = misses'[n] => m = n
    BY <1>3, <1>5
  <2> QED BY <1>2, <2>1, <2>2, <2>3, <2>4, SteadyShape DEF CallInv
<1>9. PICK S, c, d : cache \in Seq(S) /\ c = cache /\ d = cache'
  BY DEF CallInv, CacheShape
<1>10. feature = [frame |-> key[1], crop |-> key[2]]
  BY <1>1 DEF Key, Patch
<1>11. PICK T : T = S \cup {[key |-> key, feature |-> feature]}
  OBVIOUS
<1>12. /\ d \in Seq(T) /\ Sound(d) /\ Len(d) <= CacheSize
       /\ KeysOf(d) \subseteq KeysOf(c) \cup {key}
       /\ KeepsFitting(c, d, key)
  <2>1. c \in Seq(S) /\ Sound(c) /\ Len(c) <= CacheSize /\ d = Remembered(c, key, feature)
    BY <1>2, <1>9 DEF CallInv, CacheShape
  <2>2. PICK r : r = Remembered(c, key, feature)
    OBVIOUS
  <2>3. /\ r \in Seq(S \cup {[key |-> key, feature |-> feature]}) /\ Sound(r) /\ Len(r) <= CacheSize
        /\ KeysOf(r) \subseteq KeysOf(c) \cup {key} /\ KeepsFitting(c, r, key)
    BY <1>10, <2>1, <2>2, RememberedKeeps
  <2>4. d = r
    BY <2>1, <2>2
  <2> QED BY <1>11, <2>3, <2>4
<1>13. CacheShape'
  <2>1. Sound(cache') /\ Len(cache') <= CacheSize /\ cache' \in Seq(T)
    BY <1>9, <1>12
  <2> QED BY <2>1 DEF CacheShape, Sound
<1>14. Scored' = Scored \cup {i} /\ i \notin Scored
  <2>1. ASSUME NEW j \in 1..a, \A p \in DOMAIN t : t[p] # j PROVE j = i \/ \A p \in DOMAIN s : s[p] # j
    BY <1>5, <2>1
  <2>2. ASSUME NEW j \in 1..a, \A p \in DOMAIN s : s[p] # j PROVE \A p \in DOMAIN t : t[p] # j
    BY <1>5, <2>2
  <2>3. Scored = {j \in 1..a : \A p \in DOMAIN s : s[p] # j}
    BY <1>3 DEF Scored
  <2>4. Scored' = {j \in 1..a : \A p \in DOMAIN t : t[p] # j}
    BY <1>2, <1>3 DEF Scored
  <2>5. i \notin Scored
    BY <1>5, <2>3
  <2> QED BY <1>5, <2>1, <2>2, <2>3, <2>4, <2>5
<1>15. Used' = Used \cup {key}
  BY <1>1, <1>2, <1>14 DEF Used, Key, Steady
<1>16. Filled'
  <2>1. \A j \in Scored : j \in 1..a /\ j # i /\ features[j] = Patch(slots[j])
    BY <1>3, <1>14 DEF Scored, CallInv, Filled
  <2>2. ASSUME NEW j \in Scored' PROVE features'[j] = Patch(slots[j])
    <3>1. CASE j = i
      BY <1>1, <1>7, <3>1
    <3>2. CASE j # i
      BY <1>7, <1>14, <2>1, <3>2
    <3> QED BY <3>1, <3>2
  <2> QED BY <1>2, <2>2 DEF Filled, Patch, Steady
<1>17. Kept'
  <2> SUFFICES ASSUME (Cardinality(Keys) <= CacheSize)' PROVE
        /\ Held(cache, Used)'
        /\ \A m \in DOMAIN misses' : (Key(slots[misses[m]]) \in KeysOf(cache))' => (Key(slots[misses[m]]) \in Used)'
    BY DEF Kept
  <2>1. Cardinality(Keys) <= CacheSize
    BY <1>2 DEF Keys, Key, Steady
  <2>2. Held(cache, Used) /\ \A m \in DOMAIN misses : Key(slots[misses[m]]) \in KeysOf(cache) => Key(slots[misses[m]]) \in Used
    BY <1>6, <2>1 DEF CallInv, Kept
  <2>3. PICK U, K : U = Used /\ K = Keys
    OBVIOUS
  <2>4. key \in KeysOf(c) => key \in U
    BY <1>1, <1>3, <1>5, <1>9, <2>2, <2>3
  <2>5. U \cup {key} \subseteq K /\ IsFiniteSet(K) /\ Cardinality(K) <= CacheSize
    <3>1. Used \subseteq Keys
      BY <1>3, <1>6 DEF Used, Scored, Keys
    <3> QED BY <1>6, <2>1, <2>3, <3>1
  <2>6. Held(d, U \cup {key})
    BY <1>9, <1>12, <2>2, <2>3, <2>4, <2>5 DEF KeepsFitting
  <2>7. Held(cache, Used)'
    <3>1. Held(cache', Used')
      BY <1>9, <1>15, <2>3, <2>6
    <3> QED BY <3>1 DEF Held
  <2>8. ASSUME NEW m \in DOMAIN t, Key(slots[t[m]]) \in KeysOf(d)
        PROVE  Key(slots[t[m]]) \in Used'
    <3>1. m + 1 \in DOMAIN s /\ t[m] = s[m + 1]
      BY <1>5
    <3>2. Key(slots[t[m]]) \in KeysOf(c) \cup {key}
      BY <1>12, <2>8
    <3> QED BY <1>3, <1>9, <1>15, <2>2, <3>1, <3>2
  <2>9. \A m \in DOMAIN misses' : Key(slots'[misses'[m]]) \in KeysOf(cache') => Key(slots'[misses'[m]]) \in Used'
    BY <1>2, <1>3, <1>9, <2>8 DEF Steady
  <2> QED BY <2>7, <2>9 DEF Key, KeysOf
<1> QED BY <1>8, <1>13, <1>16, <1>17 DEF CallInv

LEMMA NextCall == CallInv /\ [Next]_vars => CallInv'
<1> SUFFICES ASSUME CallInv, [Next]_vars PROVE CallInv'
  OBVIOUS
<1>1. CASE UNCHANGED vars
  <2>1. /\ scene' = scene /\ stabilize' = stabilize /\ camera' = camera /\ newest' = newest
        /\ slots' = slots /\ at' = at /\ features' = features /\ misses' = misses
        /\ cache' = cache /\ last' = last
    BY <1>1 DEF vars
  <2>2. Shape'
    BY <2>1 DEF CallInv, Shape, Patches, Patch, Slotted, Tubes, Idle
  <2>3. CacheShape' /\ Filled'
    BY <2>1 DEF CallInv, CacheShape, Sound, Filled, Scored, Patch
  <2>4. Kept'
    BY <2>1 DEF CallInv, Kept, Idle, Keys, Key, Held, KeysOf, Used, Scored
  <2> QED BY <2>2, <2>3, <2>4 DEF CallInv
<1>2. ASSUME NEW c \in Camera, Call(c) PROVE CallInv'
  BY <1>2, CallKeeps
<1> QED BY <1>1, <1>2, GenericKeeps, HitKeeps, MissKeeps, EmbedKeeps DEF Next

\* The invariant of the calls holds of every behaviour.
THEOREM CallsInvariant == Spec => []CallInv
<1> QED BY InitCall, NextCall, PTL DEF Spec

\* When a call is over every one of its slots was scored.
LEMMA IdleScored ==
  ASSUME CallInv, Idle
  PROVE  Scored = 1..Len(slots) /\ Used = Keys
<1>1. DOMAIN misses = {} /\ at = Len(slots) /\ DOMAIN slots = 1..Len(slots)
  BY SlotsShape DEF Idle, CallInv
<1> QED BY <1>1 DEF Scored, Used, Keys

LEMMA InvRetained == CallInv => Retained
<1> SUFFICES ASSUME CallInv PROVE Retained
  OBVIOUS
<1>1. Len(cache) <= CacheSize /\ \A i, j \in DOMAIN cache : cache[i].key = cache[j].key => i = j
  BY DEF CallInv, CacheShape, Sound
<1>2. ASSUME Idle, Cardinality({Key(s) : s \in Range(last)}) <= CacheSize, NEW s \in Range(last)
      PROVE  Cached(Key(s))
  <2>1. last = slots /\ last # <<>>
    BY DEF Range, CallInv, Shape
  <2>2. {Key(x) : x \in Range(last)} = Keys
    BY <2>1 DEF Range, Keys
  <2>3. Held(cache, Used)
    BY <1>2, <2>1, <2>2 DEF CallInv, Kept
  <2>4. Key(s) \in Keys
    BY <2>1 DEF Keys, Range
  <2>5. Key(s) \in KeysOf(cache)
    BY <1>2, <2>3, <2>4, IdleScored DEF Held
  <2> QED BY <2>5 DEF KeysOf, Cached, Position
<1> QED BY <1>1, <1>2 DEF Retained

LEMMA InvFaithful == CallInv => Faithful
<1> SUFFICES ASSUME CallInv, Idle, newest[camera] > 0
             PROVE  features = TrainingSlots(camera, newest[camera]) /\ SmokeInside
  BY DEF Faithful
<1>1. PICK c \in Camera, n \in 1..MaxFrame : c = camera /\ n = newest[camera]
  <2>1. camera \in Camera /\ newest[camera] \in 0..MaxFrame /\ MaxFrame \in Nat
    BY CacheAssumption DEF CallInv, Shape
  <2>2. newest[camera] \in 1..MaxFrame
    BY <2>1
  <2> QED BY <2>1, <2>2
<1>2. scene \in Scene /\ stabilize \in BOOLEAN
  BY DEF CallInv, Shape
<1>3. slots = Slotted(c, n)
  <2>1. n # 0
    BY CacheAssumption
  <2> QED BY <1>1, <2>1 DEF CallInv, Shape
<1>4. TrainingSlots(c, n) = slots
  BY <1>2, <1>3, SlottedShape
<1>5. PICK k \in Nat : /\ k = Len(slots) /\ slots = [i \in 1..k |-> slots[i]]
                       /\ \A i \in 1..k : Patch(slots[i]) = slots[i]
  BY SlotsShape DEF CallInv
<1>6. features = [i \in 1..k |-> features[i]]
  BY <1>5 DEF CallInv, Shape
<1>7. \A i \in 1..k : features[i] = slots[i]
  BY <1>5, IdleScored DEF CallInv, Filled
<1>8. features = slots
  BY <1>5, <1>6, <1>7
<1>9. SmokeInside
  BY <1>1, <1>2, SmokeIsInside
<1> QED BY <1>1, <1>4, <1>8, <1>9

\* OnnxTemporalModel.predict_proba_tubes: whatever older rounds left in the LRU cache,
\* the cache stays within its size and a call that fits leaves all its slots in it, so
\* that the same window submitted again embeds nothing.
THEOREM CacheRetains == Spec => []Retained
<1> QED BY CallsInvariant, InvRetained, PTL

\* A device that scores through the cache scores every slot with the embedding of its
\* own frame at the crop training would have used, and no smoke leaves its crop.
THEOREM CacheIsFaithful == Spec => []Faithful
<1> QED BY CallsInvariant, InvFaithful, PTL
=============================================================================
