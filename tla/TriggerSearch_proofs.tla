----------------------- MODULE TriggerSearch_proofs -----------------------
(***************************************************************************)
(* The trigger search for every number of tubes and frames, every minimum  *)
(* length and whatever the classifier says of tubes and of prefixes; and   *)
(* the padding, for every length: induction is an instance of well-founded *)
(* minimality, for a property given as a set of numbers.                   *)
(***************************************************************************)
EXTENDS TriggerSearch, TLAPS, SequenceTheorems, FiniteSetTheorems,
        WellFoundedInduction

\* Tubes that survive the filters are numbered 1..n and long enough.
KeptOK ==
  \E n \in Nat :
    /\ kept \in [1..n -> [start : Nat, end : Nat]]
    /\ \A i \in 1..n : Length(kept[i]) >= MinTubeLength

\* Before the search nothing is decided.
Fresh ==
  /\ request \in [frames : Nat, strategy : {"symmetric", "uniform"}, trigger : BOOLEAN]
  /\ pc \in {"pad", "tubes", "score"} =>
       /\ answer = Negative
       /\ at = [tube |-> 1, length |-> MinTubeLength]
  /\ pc \in {"pad", "tubes"} => full = <<>> /\ kept = <<>>

\* A tube the search has left: only a positive one has crossed.
Searched(i) ==
  IF full[i] THEN crossing[i] \in kept[i].start..kept[i].end /\ CrossesAt(i, crossing[i])
  ELSE crossing[i] = Null

\* A tube the search has not left: its first n prefixes were negative.
Pending(i, n) ==
  /\ crossing[i] = Null
  /\ scores[i] \in Seq(BOOLEAN) /\ Len(scores[i]) = n
  /\ \A k \in 1..n : ~scores[i][k]

\* Where the search stands.  The tube being searched still has a prefix to score.
Progress ==
  pc = "search" =>
    /\ request.trigger
    /\ full \in [DOMAIN kept -> BOOLEAN]
    /\ scores \in [DOMAIN kept -> Seq(BOOLEAN)]
    /\ crossing \in [DOMAIN kept -> Int]
    /\ at \in [tube : Nat \ {0}, length : Nat]
    /\ at.length >= MinTubeLength
    /\ \A i \in DOMAIN kept :
         /\ i < at.tube => Searched(i)
         /\ i = at.tube => Pending(i, at.length - MinTubeLength)
         /\ i > at.tube => Pending(i, 0)
    /\ at.tube \in DOMAIN kept /\ full[at.tube] => at.length <= Length(kept[at.tube])

SearchInv == KeptOK /\ Fresh /\ Progress /\ NoAssertionError /\ SameVerdict /\ Earliest
-----------------------------------------------------------------------------
LEMMA LeastNatural ==
  ASSUME NEW T \in SUBSET Nat, T # {}
  PROVE  \E m \in T : \A k \in T : m <= k
<1>1. PICK m \in T : \A k \in T : ~ (<<k, m>> \in OpToRel(<, Nat))
  BY NatLessThanWellFounded, WFMin
<1>2. \A k \in T : ~ (k < m)
  BY <1>1, Zenon DEF OpToRel
<1> QED BY <1>2

LEMMA AppendOne ==
  ASSUME NEW s \in Seq(BOOLEAN), NEW p \in BOOLEAN
  PROVE  /\ Append(s, p) \in Seq(BOOLEAN)
         /\ Len(s) \in Nat
         /\ Len(Append(s, p)) = Len(s) + 1
         /\ Append(s, p)[Len(s) + 1] = p
         /\ \A k \in 1..Len(s) : Append(s, p)[k] = s[k]
         /\ DOMAIN Append(s, p) = 1..(Len(s) + 1)
BY AppendProperties

LEMMA KeptShape ==
  ASSUME KeptOK
  PROVE  /\ DOMAIN kept \subseteq Nat \ {0}
         /\ \A i \in DOMAIN kept :
              /\ kept[i].start \in Nat /\ kept[i].end \in Nat
              /\ Length(kept[i]) = kept[i].end - kept[i].start + 1
              /\ Length(kept[i]) >= MinTubeLength
         /\ \A i \in Nat \ {0} : i \notin DOMAIN kept => \A k \in DOMAIN kept : k < i
<1>1. PICK n \in Nat : /\ kept \in [1..n -> [start : Nat, end : Nat]]
                       /\ \A i \in 1..n : Length(kept[i]) >= MinTubeLength
  BY DEF KeptOK
<1>2. DOMAIN kept = 1..n
  BY <1>1
<1>3. \A i \in 1..n : kept[i] \in [start : Nat, end : Nat]
  BY <1>1
<1> QED BY <1>1, <1>2, <1>3 DEF Length

\* Among the tubes that cross there is a first one: an earliest crossing, and on it
\* the smallest tube.
LEMMA FirstExists ==
  ASSUME KeptOK, crossing \in [DOMAIN kept -> Int], Crossed # {},
         \A i \in Crossed : crossing[i] \in Nat
  PROVE  \E i \in Crossed : First(i)
<1>1. Crossed \subseteq DOMAIN kept /\ DOMAIN kept \subseteq Nat
  BY KeptShape DEF Crossed
<1> DEFINE T == {crossing[i] : i \in Crossed}
<1>2. T \in SUBSET Nat /\ T # {}
  OBVIOUS
<1>3. PICK f \in T : \A g \in T : f <= g
  BY <1>2, LeastNatural
<1> DEFINE U == {i \in Crossed : crossing[i] = f}
<1>4. U \in SUBSET Nat /\ U # {}
  BY <1>1
<1>5. PICK i \in U : \A k \in U : i <= k
  BY <1>4, LeastNatural
<1>6. ASSUME NEW k \in Crossed
      PROVE  crossing[i] < crossing[k] \/ (crossing[i] = crossing[k] /\ i <= k)
  <2>1. f <= crossing[k] /\ crossing[i] = f /\ f \in Nat /\ crossing[k] \in Nat
    BY <1>2, <1>3, <1>5
  <2>2. CASE crossing[k] = f
    BY <1>5, <2>1, <2>2
  <2>3. CASE crossing[k] # f
    BY <2>1, <2>3
  <2> QED BY <2>2, <2>3
<1> QED BY <1>5, <1>6 DEF First
-----------------------------------------------------------------------------
\* Induction, for a property given as the set of numbers that have it.
LEMMA Induction ==
  ASSUME NEW T, 0 \in T, \A k \in Nat : k \in T => k + 1 \in T
  PROVE  \A k \in Nat : k \in T
<1> SUFFICES ASSUME {k \in Nat : k \notin T} # {} PROVE FALSE
  OBVIOUS
<1>1. PICK m \in {k \in Nat : k \notin T} : \A k \in {k \in Nat : k \notin T} : m <= k
  BY LeastNatural
<1>2. m - 1 \in Nat /\ m - 1 \in T
  BY <1>1
<1> QED BY <1>1, <1>2

\* A function on the naturals may be defined by recursion.
Computes(f, B, b0, G) ==
  f \in [Nat -> B] /\ f[0] = b0 /\ \A k \in Nat : f[k + 1] = G[k + 1][f[k]]

LEMMA Recursion ==
  ASSUME NEW B, NEW b0 \in B, NEW G \in [Nat -> [B -> B]]
  PROVE  \E f : Computes(f, B, b0, G)
<1> DEFINE Start(k) == {h \in [0..k -> B] : h[0] = b0 /\ \A j \in 0..(k - 1) : h[j + 1] = G[j + 1][h[j]]}
<1>1. \A k \in Nat : k \in {i \in Nat : Start(i) # {}}
  <2>1. 0 \in {i \in Nat : Start(i) # {}}
    <3>1. [j \in 0..0 |-> b0] \in Start(0)
      OBVIOUS
    <3> QED BY <3>1
  <2>2. ASSUME NEW k \in Nat, k \in {i \in Nat : Start(i) # {}} PROVE k + 1 \in {i \in Nat : Start(i) # {}}
    <3>1. PICK h \in Start(k) : TRUE
      BY <2>2
    <3>2. PICK g : g = [j \in 0..(k + 1) |-> IF j <= k THEN h[j] ELSE G[k + 1][h[k]]]
      OBVIOUS
    <3>3. h[k] \in B /\ G[k + 1][h[k]] \in B
      BY <3>1
    <3>4. g \in [0..(k + 1) -> B] /\ g[0] = b0
      BY <3>1, <3>2, <3>3
    <3>5. \A j \in 0..k : g[j + 1] = G[j + 1][g[j]]
      BY <3>1, <3>2
    <3>6. g \in Start(k + 1)
      BY <3>4, <3>5
    <3> QED BY <3>6
  <2> HIDE DEF Start
  <2> QED BY <2>1, <2>2, Induction
<1>2. ASSUME NEW k \in Nat, NEW m \in Nat, k <= m, NEW h \in Start(k), NEW g \in Start(m)
      PROVE  \A j \in 0..k : h[j] = g[j]
  <2>1. 0 \in {j \in Nat : j <= k => h[j] = g[j]}
    BY <1>2
  <2>2. \A j \in Nat : j \in {i \in Nat : i <= k => h[i] = g[i]} => j + 1 \in {i \in Nat : i <= k => h[i] = g[i]}
    BY <1>2
  <2>3. \A j \in Nat : j \in {i \in Nat : i <= k => h[i] = g[i]}
    <3> HIDE DEF Start
    <3> QED BY <2>1, <2>2, Induction
  <2> QED BY <2>3
<1>3. PICK f : f = [k \in Nat |-> (CHOOSE h : h \in Start(k))[k]]
  OBVIOUS
<1>4. \A k \in Nat : \E h \in Start(k) : f[k] = h[k]
  <2> SUFFICES ASSUME NEW k \in Nat PROVE \E h \in Start(k) : f[k] = h[k]
    OBVIOUS
  <2>1. Start(k) # {}
    BY <1>1
  <2> HIDE DEF Start
  <2>2. f[k] = (CHOOSE h : h \in Start(k))[k]
    BY <1>3
  <2>3. (CHOOSE h : h \in Start(k)) \in Start(k)
    BY <2>1
  <2> QED BY <2>2, <2>3
<1>5. ASSUME NEW k \in Nat PROVE f[k] \in B /\ f[k + 1] = G[k + 1][f[k]]
  <2>0. k + 1 \in Nat
    OBVIOUS
  <2>1. PICK h \in Start(k) : f[k] = h[k]
    BY <1>4, Zenon
  <2>2. PICK g \in Start(k + 1) : f[k + 1] = g[k + 1]
    BY <1>4, <2>0, Zenon
  <2>3. h[k] = g[k]
    <3>1. k <= k + 1 /\ k \in 0..k
      OBVIOUS
    <3> HIDE DEF Start
    <3> QED BY <1>2, <2>0, <3>1
  <2>4. h[k] \in B /\ g[k + 1] = G[k + 1][g[k]]
    <3>1. k \in 0..k /\ k \in 0..((k + 1) - 1)
      OBVIOUS
    <3> QED BY <3>1
  <2> QED BY <2>1, <2>2, <2>3, <2>4
<1>7. f[0] = b0
  <2>1. PICK h \in Start(0) : f[0] = h[0]
    BY <1>4
  <2> QED BY <2>1
<1>6. f \in [Nat -> B]
  BY <1>3, <1>5
<1> QED BY <1>5, <1>6, <1>7 DEF Computes

-----------------------------------------------------------------------------
\* A padded sequence of n real frames reads back.
Readable(s, n) ==
  LET real == Slots(s.source) \ s.padded IN
  /\ \A p \in real : ProcessedToInput(p, s.padded) = s.source[p + 1]
  /\ Cardinality(real) = n
  /\ \A p, q \in real : p < q => s.source[p + 1] < s.source[q + 1]

\* The real frames are one block, from slot a on.
Block(source, real, n, a) ==
  /\ source \in Seq(Int) /\ a + n <= Len(source)
  /\ real = a..(a + n - 1)
  /\ \A p \in real : source[p + 1] = p - a

LEMMA BlockReadable ==
  ASSUME NEW n \in Nat, NEW a \in Nat, NEW s, NEW real, Block(s.source, real, n, a),
         s.padded = Slots(s.source) \ real
  PROVE  Readable(s, n)
<1>1. real \subseteq Slots(s.source) /\ Slots(s.source) = 0..(Len(s.source) - 1) /\ Len(s.source) \in Nat
  BY DEF Block, Slots
<1>2. Slots(s.source) \ s.padded = real
  BY <1>1
<1>3. Cardinality(real) = n
  BY FS_Interval DEF Block
<1>4. ASSUME NEW p \in real PROVE ProcessedToInput(p, s.padded) = s.source[p + 1]
  <2>1. {q \in s.padded : q < p} = 0..(a - 1)
    <3>1. p \in a..(a + n - 1) /\ Len(s.source) \in Nat /\ a + n <= Len(s.source)
      BY <1>1 DEF Block
    <3>2. s.padded = (0..(Len(s.source) - 1)) \ (a..(a + n - 1))
      BY <1>1 DEF Block
    <3>3. ASSUME NEW q \in s.padded, q < p PROVE q \in 0..(a - 1)
      BY <3>1, <3>2, <3>3
    <3>4. ASSUME NEW q \in 0..(a - 1) PROVE q \in s.padded /\ q < p
      BY <3>1, <3>2
    <3> QED BY <3>3, <3>4
  <2>2. Cardinality(0..(a - 1)) = a
    BY FS_Interval
  <2> QED BY <2>1, <2>2 DEF Block, ProcessedToInput
<1>5. ASSUME NEW p \in real, NEW q \in real, p < q PROVE s.source[p + 1] < s.source[q + 1]
  <2>1. s.source[p + 1] = p - a /\ s.source[q + 1] = q - a /\ p \in Int /\ q \in Int
    BY DEF Block
  <2> QED BY <1>5, <2>1
<1> QED BY <1>2, <1>3, <1>4, <1>5 DEF Readable

LEMMA UnpaddedReadable ==
  ASSUME NEW n \in Nat
  PROVE  Readable(Unpadded(n), n)
<1>1. Unpadded(n).source = [i \in 1..n |-> i - 1] /\ Unpadded(n).padded = {}
  BY DEF Unpadded
<1>2. Unpadded(n).source \in Seq(Int) /\ Len(Unpadded(n).source) = n
  BY <1>1
<1>3. Block(Unpadded(n).source, 0..(n - 1), n, 0)
  BY <1>1, <1>2 DEF Block
<1>4. Unpadded(n).padded = Slots(Unpadded(n).source) \ (0..(n - 1))
  BY <1>1, <1>2 DEF Slots
<1> QED BY <1>3, <1>4, BlockReadable

\* One turn of the loop of Symmetric.
Turn(n, k, before) ==
  IF k % 2 = 1
  THEN [source |-> <<0>> \o before.source, real |-> {p + 1 : p \in before.real}]
  ELSE [source |-> Append(before.source, n - 1), real |-> before.real]

\* The loop of Symmetric computes what its turns do.
LEMMA SymmetricLoop ==
  ASSUME NEW n \in Nat, NEW min \in Nat, n # 0, n < min
  PROVE  \E f : /\ f[0] = [source |-> Unpadded(n).source, real |-> 0..(n - 1)]
                /\ \A k \in Nat : f[k + 1] = Turn(n, k + 1, f[k])
                /\ Symmetric(n, min) =
                     [source |-> f[min - n].source,
                      padded |-> Slots(f[min - n].source) \ f[min - n].real]
<1> DEFINE B == [source : Seq(Int), real : SUBSET Int]
           b0 == [source |-> Unpadded(n).source, real |-> 0..(n - 1)]
           G == [k \in Nat |-> [b \in B |-> Turn(n, k, b)]]
<1>1. b0 \in B
  BY DEF Unpadded
<1>2. G \in [Nat -> [B -> B]]
  <2> SUFFICES ASSUME NEW k \in Nat, NEW b \in B PROVE Turn(n, k, b) \in B
    OBVIOUS
  <2>1. b.source \in Seq(Int) /\ b.real \subseteq Int /\ <<0>> \in Seq(Int) /\ n - 1 \in Int
    OBVIOUS
  <2>2. <<0>> \o b.source \in Seq(Int) /\ Append(b.source, n - 1) \in Seq(Int)
    BY <2>1, ConcatProperties, AppendProperties
  <2>3. {p + 1 : p \in b.real} \subseteq Int
    BY <2>1
  <2> QED BY <2>1, <2>2, <2>3 DEF Turn
<1>3. PICK f \in [Nat -> B] : f[0] = b0 /\ \A k \in Nat : f[k + 1] = G[k + 1][f[k]]
  <2> HIDE DEF B, b0, G
  <2>1. \E f : Computes(f, B, b0, G)
    BY <1>1, <1>2, Recursion
  <2> QED BY <2>1, Zenon DEF Computes
<1> DEFINE loop[k \in Nat] ==
        IF k = 0 THEN [source |-> Unpadded(n).source, real |-> 0..(n - 1)]
        ELSE LET before == loop[k - 1] IN
             IF k % 2 = 1
             THEN [source |-> <<0>> \o before.source, real |-> {p + 1 : p \in before.real}]
             ELSE [source |-> Append(before.source, n - 1), real |-> before.real]
<1>4. f = [k \in Nat |->
            IF k = 0 THEN [source |-> Unpadded(n).source, real |-> 0..(n - 1)]
            ELSE LET before == f[k - 1] IN
                 IF k % 2 = 1
                 THEN [source |-> <<0>> \o before.source, real |-> {p + 1 : p \in before.real}]
                 ELSE [source |-> Append(before.source, n - 1), real |-> before.real]]
  <2>1. \A k \in Nat : f[k] = IF k = 0 THEN b0 ELSE Turn(n, k, f[k - 1])
    <3> SUFFICES ASSUME NEW k \in Nat, k # 0 PROVE f[k] = Turn(n, k, f[k - 1])
      BY <1>3
    <3>1. k - 1 \in Nat /\ (k - 1) + 1 = k
      OBVIOUS
    <3>3. f[k - 1] \in B
      <4> HIDE DEF B
      <4> QED BY <3>1
    <3>2. f[(k - 1) + 1] = G[(k - 1) + 1][f[k - 1]]
      BY <1>3, <3>1
    <3> QED BY <3>1, <3>2, <3>3
  <2> QED BY <1>3, <2>1 DEF Turn
<1>5. loop = [k \in Nat |->
            IF k = 0 THEN [source |-> Unpadded(n).source, real |-> 0..(n - 1)]
            ELSE LET before == loop[k - 1] IN
                 IF k % 2 = 1
                 THEN [source |-> <<0>> \o before.source, real |-> {p + 1 : p \in before.real}]
                 ELSE [source |-> Append(before.source, n - 1), real |-> before.real]]
  BY <1>4, Zenon
<1>6. Symmetric(n, min) = [source |-> loop[min - n].source,
                           padded |-> Slots(loop[min - n].source) \ loop[min - n].real]
  <2>1. ~(n = 0 \/ n >= min)
    OBVIOUS
  <2> QED BY <2>1, Zenon DEF Symmetric
<1> HIDE DEF loop
<1>7. loop[0] = b0
  BY <1>5
<1>8. \A k \in Nat : loop[k + 1] = Turn(n, k + 1, loop[k])
  <2> SUFFICES ASSUME NEW k \in Nat PROVE loop[k + 1] = Turn(n, k + 1, loop[k])
    OBVIOUS
  <2>1. k + 1 \in Nat /\ k + 1 # 0 /\ (k + 1) - 1 = k
    OBVIOUS
  <2> QED BY <1>5, <2>1 DEF Turn
<1> QED BY <1>6, <1>7, <1>8, Zenon

\* Where the real frames are after k turns of the loop.
Blocked(n, k, b) == \E a \in Nat : Block(b.source, b.real, n, a) /\ Len(b.source) = n + k

LEMMA TurnBlocked ==
  ASSUME NEW n \in Nat \ {0}, NEW k \in Nat, NEW b, Blocked(n, k, b)
  PROVE  Blocked(n, k + 1, Turn(n, k + 1, b))
<1>1. PICK a \in Nat : Block(b.source, b.real, n, a) /\ Len(b.source) = n + k
  BY DEF Blocked
<1>2. /\ b.source \in Seq(Int) /\ a + n <= n + k /\ b.real = a..(a + n - 1)
      /\ \A p \in b.real : b.source[p + 1] = p - a
  BY <1>1 DEF Block
<1>3. \A p \in a..(a + n - 1) : p \in Nat /\ p + 1 \in 1..Len(b.source) /\ p - a \in Int
  BY <1>1, <1>2
<1>4. CASE (k + 1) % 2 = 1
  <2>1. PICK s : s = <<0>> \o b.source
    OBVIOUS
  <2>2. /\ s \in Seq(Int) /\ Len(s) = 1 + Len(b.source)
        /\ \A i \in 1..Len(b.source) : s[1 + i] = b.source[i]
    <3>1. <<0>> \in Seq(Int) /\ Len(<<0>>) = 1
      OBVIOUS
    <3> QED BY <1>2, <2>1, <3>1, ConcatProperties
  <2>3. {p + 1 : p \in b.real} = (a + 1)..((a + 1) + n - 1)
    <3>1. ASSUME NEW q \in {p + 1 : p \in b.real} PROVE q \in (a + 1)..((a + 1) + n - 1)
      BY <1>2
    <3>2. ASSUME NEW q \in (a + 1)..((a + 1) + n - 1) PROVE q \in {p + 1 : p \in b.real}
      <4>1. q - 1 \in a..(a + n - 1) /\ q = (q - 1) + 1
        OBVIOUS
      <4> QED BY <1>2, <4>1
    <3> QED BY <3>1, <3>2
  <2>4. ASSUME NEW q \in (a + 1)..((a + 1) + n - 1) PROVE s[q + 1] = q - (a + 1)
    <3>1. q - 1 \in a..(a + n - 1) /\ (q - 1) + 1 = q /\ q \in Int
      OBVIOUS
    <3>2. q \in 1..Len(b.source) /\ b.source[q] = (q - 1) - a
      BY <1>2, <1>3, <3>1
    <3>3. s[1 + q] = b.source[q]
      BY <2>2, <3>2
    <3>4. 1 + q = q + 1
      BY <3>1
    <3> QED BY <3>2, <3>3, <3>4
  <2>5. a + 1 \in Nat /\ (a + 1) + n <= Len(s) /\ Len(s) = n + (k + 1)
    BY <1>1, <1>2, <2>2
  <2>6. PICK c \in Nat : c = a + 1
    OBVIOUS
  <2>7. Block(s, c..(c + n - 1), n, c)
    BY <2>2, <2>4, <2>5, <2>6 DEF Block
  <2>8. Turn(n, k + 1, b).source = s /\ Turn(n, k + 1, b).real = c..(c + n - 1)
    BY <1>4, <2>1, <2>3, <2>6 DEF Turn
  <2> QED BY <2>5, <2>7, <2>8 DEF Blocked
<1>5. CASE ~((k + 1) % 2 = 1)
  <2>1. PICK s : s = Append(b.source, n - 1)
    OBVIOUS
  <2>2. /\ s \in Seq(Int) /\ Len(s) = Len(b.source) + 1
        /\ \A i \in 1..Len(b.source) : s[i] = b.source[i]
    <3>1. n - 1 \in Int
      OBVIOUS
    <3> QED BY <1>2, <2>1, <3>1, AppendProperties
  <2>3. \A p \in a..(a + n - 1) : s[p + 1] = p - a
    BY <1>2, <1>3, <2>2
  <2>4. a + n <= Len(s) /\ Len(s) = n + (k + 1)
    BY <1>1, <1>2, <2>2
  <2>5. Block(s, a..(a + n - 1), n, a)
    BY <2>2, <2>3, <2>4 DEF Block
  <2>6. Turn(n, k + 1, b).source = s /\ Turn(n, k + 1, b).real = a..(a + n - 1)
    BY <1>2, <1>5, <2>1 DEF Turn
  <2> QED BY <2>4, <2>5, <2>6 DEF Blocked
<1> QED BY <1>4, <1>5

LEMMA SymmetricReadable ==
  ASSUME NEW n \in Nat, NEW min \in Nat
  PROVE  Readable(Symmetric(n, min), n)
<1>1. CASE n = 0 \/ n >= min
  <2>1. Symmetric(n, min) = Unpadded(n)
    BY <1>1 DEF Symmetric
  <2> QED BY <2>1, UnpaddedReadable
<1>2. CASE ~(n = 0 \/ n >= min)
  <2>1. n # 0 /\ n < min /\ min - n \in Nat
    BY <1>2
  <2>2. PICK f : /\ f[0] = [source |-> Unpadded(n).source, real |-> 0..(n - 1)]
                 /\ \A k \in Nat : f[k + 1] = Turn(n, k + 1, f[k])
                 /\ Symmetric(n, min) =
                      [source |-> f[min - n].source,
                       padded |-> Slots(f[min - n].source) \ f[min - n].real]
    BY <2>1, SymmetricLoop
  <2>3. 0 \in {k \in Nat : Blocked(n, k, f[k])}
    <3>1. f[0].source = [i \in 1..n |-> i - 1] /\ f[0].real = 0..(n - 1)
      BY <2>2 DEF Unpadded
    <3>2. f[0].source \in Seq(Int) /\ Len(f[0].source) = n
      BY <3>1
    <3>3. Block(f[0].source, f[0].real, n, 0)
      BY <3>1, <3>2 DEF Block
    <3> QED BY <3>2, <3>3 DEF Blocked
  <2>4. \A k \in Nat : k \in {i \in Nat : Blocked(n, i, f[i])} => k + 1 \in {i \in Nat : Blocked(n, i, f[i])}
    BY <2>1, <2>2, TurnBlocked
  <2>5. \A k \in Nat : k \in {i \in Nat : Blocked(n, i, f[i])}
    BY <2>3, <2>4, Induction
  <2>6. PICK a \in Nat : Block(f[min - n].source, f[min - n].real, n, a)
    BY <2>1, <2>5 DEF Blocked
  <2>7. PICK s, real : /\ s = Symmetric(n, min) /\ real = f[min - n].real
    OBVIOUS
  <2>8. s.source = f[min - n].source /\ s.padded = Slots(s.source) \ real
    BY <2>2, <2>7
  <2>9. Readable(s, n)
    BY <2>6, <2>7, <2>8, BlockReadable
  <2> QED BY <2>7, <2>9
<1> QED BY <1>1, <1>2

\* The floor mapping goes up by at most one from a slot to the next.
LEMMA FloorStep ==
  ASSUME NEW n \in Nat, NEW min \in Nat, n < min, NEW i \in Nat
  PROVE  /\ (i * n) \div min \in Nat
         /\ ((i + 1) * n) \div min \in {(i * n) \div min, (i * n) \div min + 1}
<1>1. PICK x \in Nat : x = i * n
  OBVIOUS
<1>2. (i + 1) * n = x + n
  BY <1>1
<1>3. PICK q \in Int, r \in Int : q = x \div min /\ r = x % min
  OBVIOUS
<1>4. x = min * q + r /\ r \in 0..(min - 1)
  BY <1>3
<1>5. PICK p \in Int, t \in Int : p = (x + n) \div min /\ t = (x + n) % min
  OBVIOUS
<1>6. x + n = min * p + t /\ t \in 0..(min - 1)
  BY <1>5
<1>7. min * (p - q) = n + r - t
  BY <1>4, <1>6
<1>8. p - q \in Int /\ min * (p - q) < min * 2 /\ min * (p - q) > min * (-1)
  BY <1>4, <1>6, <1>7
<1>9. p - q < 2 /\ p - q > -1
  BY <1>8
<1>10. q >= 0
  BY <1>4
<1> QED BY <1>1, <1>2, <1>3, <1>5, <1>9, <1>10

LEMMA FloorEnds ==
  ASSUME NEW n \in Nat \ {0}, NEW min \in Nat, n < min
  PROVE  (0 * n) \div min = 0 /\ ((min - 1) * n) \div min = n - 1
<1>1. (min - 1) * n = (n - 1) * min + (min - n)
  OBVIOUS
<1>2. PICK x \in Nat : x = (min - 1) * n
  OBVIOUS
<1>3. PICK q \in Int, r \in Int : q = x \div min /\ r = x % min
  OBVIOUS
<1>4. x = min * q + r /\ r \in 0..(min - 1)
  BY <1>3
<1>5. min * (q - (n - 1)) = (min - n) - r
  BY <1>1, <1>2, <1>4
<1>6. q - (n - 1) \in Int /\ min * (q - (n - 1)) < min * 1 /\ min * (q - (n - 1)) > min * (-1)
  BY <1>4, <1>5
<1>7. q - (n - 1) = 0
  BY <1>6
<1>8. 0 * n = 0 /\ 0 \div min = 0
  OBVIOUS
<1> QED BY <1>2, <1>3, <1>7, <1>8

\* A staircase: it starts at 0 and goes up by at most one a step.
Staircase(Q) == Q \in [Nat -> Nat] /\ Q[0] = 0 /\ \A x \in Nat : Q[x + 1] \in {Q[x], Q[x] + 1}
\* The steps at which it goes up, and the others, up to x.
Rises(Q, x) == {p \in 0..x : \A r \in 0..(p - 1) : Q[r] # Q[p]}
Flats(Q, x) == (0..x) \ Rises(Q, x)

LEMMA StaircaseMonotone ==
  ASSUME NEW Q, Staircase(Q)
  PROVE  \A x \in Nat : \A r \in 0..x : Q[r] <= Q[x]
<1> DEFINE T == {x \in Nat : \A r \in 0..x : Q[r] <= Q[x]}
<1>1. 0 \in T
  BY DEF Staircase
<1>2. ASSUME NEW x \in Nat, x \in T PROVE x + 1 \in T
  <2> SUFFICES ASSUME NEW r \in 0..(x + 1) PROVE Q[r] <= Q[x + 1]
    OBVIOUS
  <2>1. x + 1 \in Nat /\ r \in Nat /\ (r = x + 1 \/ r \in 0..x)
    OBVIOUS
  <2>2. Q[x] \in Nat /\ Q[x + 1] \in Nat /\ Q[r] \in Nat /\ Q[x + 1] \in {Q[x], Q[x] + 1}
    BY <2>1 DEF Staircase
  <2>3. CASE r = x + 1
    BY <2>2, <2>3
  <2>4. CASE r \in 0..x
    <3>1. Q[r] <= Q[x]
      BY <1>2, <2>4
    <3> QED BY <2>2, <3>1
  <2> QED BY <2>1, <2>3, <2>4
<1>3. \A x \in Nat : x \in T
  <2> HIDE DEF T
  <2> QED BY <1>1, <1>2, Induction
<1> QED BY <1>3

LEMMA StaircaseCounts ==
  ASSUME NEW Q, Staircase(Q)
  PROVE  \A x \in Nat : /\ IsFiniteSet(Rises(Q, x)) /\ Cardinality(Rises(Q, x)) = Q[x] + 1
                        /\ IsFiniteSet(Flats(Q, x)) /\ Cardinality(Flats(Q, x)) = x - Q[x]
<1> DEFINE T == {x \in Nat : /\ IsFiniteSet(Rises(Q, x)) /\ Cardinality(Rises(Q, x)) = Q[x] + 1
                             /\ IsFiniteSet(Flats(Q, x)) /\ Cardinality(Flats(Q, x)) = x - Q[x]}
<1>1. 0 \in T
  <2>1. Rises(Q, 0) = {0} /\ Flats(Q, 0) = {}
    BY DEF Rises, Flats
  <2>2. Q[0] + 1 = 1 /\ 0 - Q[0] = 0
    BY DEF Staircase
  <2>3. IsFiniteSet(Rises(Q, 0)) /\ Cardinality(Rises(Q, 0)) = 1
    BY <2>1, FS_Singleton
  <2>4. IsFiniteSet(Flats(Q, 0)) /\ Cardinality(Flats(Q, 0)) = 0
    BY <2>1, FS_EmptySet
  <2> QED BY <2>2, <2>3, <2>4
<1>2. ASSUME NEW x \in Nat, x \in T PROVE x + 1 \in T
  <2>1. x + 1 \in Nat /\ x + 1 \notin Rises(Q, x) /\ x + 1 \notin Flats(Q, x)
    BY DEF Rises, Flats
  <2>2. Q[x] \in Nat /\ Q[x + 1] \in Nat /\ (Q[x + 1] = Q[x] \/ Q[x + 1] = Q[x] + 1)
    BY <2>1 DEF Staircase
  <2>3. \A p \in 0..(x + 1) : p = x + 1 \/ p \in 0..x
    OBVIOUS
  <2>4. \A r \in 0..x : Q[r] <= Q[x] /\ Q[r] \in Nat
    BY StaircaseMonotone DEF Staircase
  <2>5. CASE Q[x + 1] = Q[x]
    <3>1. x + 1 \notin Rises(Q, x + 1)
      <4>1. x \in 0..((x + 1) - 1)
        OBVIOUS
      <4> QED BY <2>5, <4>1 DEF Rises
    <3>2. Rises(Q, x + 1) = Rises(Q, x)
      BY <2>3, <3>1 DEF Rises
    <3>3. Flats(Q, x + 1) = Flats(Q, x) \cup {x + 1}
      BY <2>3, <3>1, <3>2 DEF Flats
    <3>4. IsFiniteSet(Flats(Q, x + 1)) /\ Cardinality(Flats(Q, x + 1)) = (x - Q[x]) + 1
      BY <1>2, <2>1, <3>3, FS_AddElement
    <3> QED BY <1>2, <2>1, <2>2, <2>5, <3>2, <3>4
  <2>6. CASE Q[x + 1] = Q[x] + 1
    <3>1. x + 1 \in Rises(Q, x + 1)
      <4>1. \A r \in 0..((x + 1) - 1) : r \in 0..x
        OBVIOUS
      <4>2. \A r \in 0..((x + 1) - 1) : Q[r] # Q[x + 1]
        BY <2>2, <2>4, <2>6, <4>1
      <4> QED BY <4>2 DEF Rises
    <3>2. Rises(Q, x + 1) = Rises(Q, x) \cup {x + 1}
      BY <2>3, <3>1 DEF Rises
    <3>3. Flats(Q, x + 1) = Flats(Q, x)
      BY <2>3, <3>1, <3>2 DEF Flats
    <3>4. IsFiniteSet(Rises(Q, x + 1)) /\ Cardinality(Rises(Q, x + 1)) = (Q[x] + 1) + 1
      BY <1>2, <2>1, <3>2, FS_AddElement
    <3> QED BY <1>2, <2>1, <2>2, <2>6, <3>3, <3>4
  <2> QED BY <2>2, <2>5, <2>6
<1>3. \A x \in Nat : x \in T
  <2> HIDE DEF T
  <2> QED BY <1>1, <1>2, Induction
<1> QED BY <1>3

LEMMA UniformReadable ==
  ASSUME NEW n \in Nat, NEW min \in Nat
  PROVE  Readable(Uniform(n, min), n)
<1>1. CASE n = 0 \/ n >= min
  <2>1. Uniform(n, min) = Unpadded(n)
    BY <1>1 DEF Uniform
  <2> QED BY <2>1, UnpaddedReadable
<1>2. CASE ~(n = 0 \/ n >= min)
  <2>1. n \in Nat \ {0} /\ n < min /\ min - 1 \in Nat
    BY <1>2
  <2>2. PICK Q : Q = [x \in Nat |-> (x * n) \div min]
    OBVIOUS
  <2>3. Staircase(Q) /\ Q[min - 1] = n - 1
    <3>1. \A x \in Nat : Q[x] \in Nat /\ Q[x + 1] \in {Q[x], Q[x] + 1}
      BY <2>1, <2>2, FloorStep
    <3>2. Q[0] = 0 /\ Q[min - 1] = n - 1
      BY <2>1, <2>2, FloorEnds
    <3> QED BY <2>2, <3>1, <3>2 DEF Staircase
  <2>4. PICK s : s = Uniform(n, min)
    OBVIOUS
  <2>5. s.source = [i \in 1..min |-> ((i - 1) * n) \div min]
    BY <1>2, <2>4 DEF Uniform
  <2>6. s.padded = {x \in Slots(s.source) : \E r \in 0..(x - 1) : s.source[r + 1] = s.source[x + 1]}
    BY <1>2, <2>4, <2>5 DEF Uniform
  <2>7. Slots(s.source) = 0..(min - 1)
    BY <2>5 DEF Slots
  <2>8. \A x \in 0..(min - 1) : s.source[x + 1] = Q[x]
    <3> SUFFICES ASSUME NEW x \in 0..(min - 1) PROVE s.source[x + 1] = Q[x]
      OBVIOUS
    <3>1. x + 1 \in 1..min /\ (x + 1) - 1 = x /\ x \in Nat
      OBVIOUS
    <3> QED BY <2>2, <2>5, <3>1
  <2>9. \A x \in 0..(min - 1) : x \in s.padded <=> x \notin Rises(Q, min - 1)
    <3> SUFFICES ASSUME NEW x \in 0..(min - 1)
                 PROVE  x \in s.padded <=> x \notin Rises(Q, min - 1)
      OBVIOUS
    <3>1. \A r \in 0..(x - 1) : r \in 0..(min - 1)
      OBVIOUS
    <3> QED BY <2>6, <2>7, <2>8, <3>1 DEF Rises
  <2>10. Slots(s.source) \ s.padded = Rises(Q, min - 1)
    BY <2>6, <2>7, <2>9 DEF Rises
  <2>11. Cardinality(Rises(Q, min - 1)) = n
    <3>1. Cardinality(Rises(Q, min - 1)) = Q[min - 1] + 1
      BY <2>1, <2>3, StaircaseCounts
    <3> QED BY <2>1, <2>3, <3>1
  <2>12. ASSUME NEW p \in Rises(Q, min - 1) PROVE ProcessedToInput(p, s.padded) = s.source[p + 1]
    <3>1. p \in 0..(min - 1) /\ p \notin s.padded /\ Q[p] \in Nat
      BY <2>3, <2>9 DEF Rises, Staircase
    <3>2. CASE p = 0
      <4>1. {x \in s.padded : x < p} = {}
        BY <2>6, <2>7, <3>2
      <4>2. ProcessedToInput(p, s.padded) = p - 0
        BY <3>1, <4>1, FS_EmptySet DEF ProcessedToInput
      <4>3. Q[p] = 0
        BY <2>3, <3>2 DEF Staircase
      <4> QED BY <2>8, <3>1, <3>2, <4>2, <4>3
    <3>3. CASE p # 0
      <4>1. p - 1 \in Nat /\ (p - 1) + 1 = p /\ p - 1 \in 0..(p - 1)
        BY <3>1, <3>3
      <4>2. Q[p] # Q[p - 1]
        BY <4>1 DEF Rises
      <4>3. Q[p] = Q[p - 1] + 1 /\ Q[p - 1] \in Nat
        <5>1. Q[(p - 1) + 1] \in {Q[p - 1], Q[p - 1] + 1} /\ Q[p - 1] \in Nat
          BY <2>3, <4>1 DEF Staircase
        <5> QED BY <4>1, <4>2, <5>1
      <4>4. {x \in s.padded : x < p} = Flats(Q, p - 1)
        <5>1. ASSUME NEW x \in 0..(p - 1) PROVE x \in s.padded <=> x \notin Rises(Q, p - 1)
          <6>1. x \in 0..(min - 1) /\ x < p
            BY <3>1
          <6> QED BY <2>9, <6>1 DEF Rises
        <5>2. ASSUME NEW x \in s.padded, x < p PROVE x \in 0..(p - 1)
          BY <2>6, <2>7, <3>1, <5>2
        <5>3. \A x \in 0..(p - 1) : x < p
          BY <3>1
        <5> QED BY <5>1, <5>2, <5>3 DEF Flats
      <4>5. Cardinality(Flats(Q, p - 1)) = (p - 1) - Q[p - 1]
        BY <2>3, <4>1, StaircaseCounts
      <4>6. ProcessedToInput(p, s.padded) = p - ((p - 1) - Q[p - 1])
        BY <3>1, <4>4, <4>5 DEF ProcessedToInput
      <4>7. p - ((p - 1) - Q[p - 1]) = Q[p]
        BY <3>1, <4>3
      <4> QED BY <2>8, <3>1, <4>6, <4>7
    <3> QED BY <3>2, <3>3
  <2>13. ASSUME NEW p \in Rises(Q, min - 1), NEW r \in Rises(Q, min - 1), p < r
         PROVE  s.source[p + 1] < s.source[r + 1]
    <3>1. p \in 0..(min - 1) /\ r \in 0..(min - 1) /\ p \in 0..(r - 1) /\ p \in 0..r /\ Q[p] # Q[r]
      BY <2>13 DEF Rises
    <3>2. r \in Nat /\ Q[p] <= Q[r] /\ Q[p] \in Nat /\ Q[r] \in Nat
      BY <2>3, <3>1, StaircaseMonotone DEF Staircase
    <3> QED BY <2>8, <3>1, <3>2
  <2>14. Readable(s, n)
    BY <2>10, <2>11, <2>12, <2>13 DEF Readable
  <2> QED BY <2>4, <2>14
<1> QED BY <1>1, <1>2
LEMMA PadReadable ==
  ASSUME NEW st, NEW n \in Nat, NEW min \in Nat
  PROVE  Readable(Pad(st, n, min), n)
BY SymmetricReadable, UniformReadable DEF Pad
-----------------------------------------------------------------------------
\* What a step knows of the padded sequence.
ReadsInv == ReadsBack /\ request.frames \in Nat /\ (pc = "pad" => sequence = Unpadded(0))

LEMMA InitReads == Init => ReadsInv
<1> SUFFICES ASSUME Init PROVE ReadsInv
  OBVIOUS
<1>1. Readable(sequence, 0)
  BY UnpaddedReadable DEF Init
<1>2. pc = "pad" /\ sequence = Unpadded(0) /\ request.frames \in Nat
  BY SearchAssumption DEF Init
<1> QED BY <1>1, <1>2 DEF ReadsInv, ReadsBack, Readable

LEMMA NextReads == ReadsInv /\ [Next]_vars => ReadsInv'
<1> SUFFICES ASSUME ReadsInv, [Next]_vars PROVE ReadsInv'
  OBVIOUS
<1>1. CASE Truncate
  <2>1. PICK n : n = IF request.frames > MaxFrames THEN MaxFrames ELSE request.frames
    OBVIOUS
  <2>2. n \in Nat
    BY <2>1, SearchAssumption DEF ReadsInv
  <2>3. sequence' = Pad(request.strategy, n, PadMin) /\ pc' # "pad" /\ request' = request
    BY <1>1, <2>1 DEF Truncate
  <2>4. Readable(sequence', n)
    BY <2>2, <2>3, SearchAssumption, PadReadable
  <2> QED BY <2>1, <2>3, <2>4 DEF ReadsInv, ReadsBack, Readable
<1>2. ASSUME UNCHANGED <<request, sequence>>, (pc' = "pad") = (pc = "pad")
      PROVE  ReadsInv'
  BY <1>2 DEF ReadsInv, ReadsBack
<1>3. ASSUME ~Truncate PROVE UNCHANGED <<request, sequence>> /\ (pc' = "pad") = (pc = "pad")
  BY <1>3 DEF Next, vars, BuildTubes, Score, SkipTube, TryPrefix, Decide
<1> QED BY <1>1, <1>2, <1>3
-----------------------------------------------------------------------------
LEMMA InitSearch == Init => SearchInv
<1> SUFFICES ASSUME Init PROVE SearchInv
  OBVIOUS
<1>1. KeptOK
  <2>1. kept \in [1..0 -> [start : Nat, end : Nat]]
    BY DEF Init
  <2> QED BY <2>1 DEF KeptOK
<1>2. Fresh
  BY SearchAssumption DEF Init, Fresh
<1> QED BY <1>1, <1>2 DEF Init, SearchInv, Progress, NoAssertionError, SameVerdict, Earliest

LEMMA TruncateKeeps ==
  ASSUME SearchInv, Truncate
  PROVE  SearchInv'
<1>1. KeptOK'
  BY DEF SearchInv, KeptOK, Truncate, Length
<1>2. Fresh' /\ pc' \in {"done", "tubes"} /\ full' = <<>> /\ answer' = Negative
  BY DEF SearchInv, Fresh, Truncate
<1> QED BY <1>1, <1>2 DEF SearchInv, Progress, NoAssertionError, SameVerdict, Earliest, Negative, Null

LEMMA BuildTubesKeeps ==
  ASSUME SearchInv, BuildTubes
  PROVE  SearchInv'
<1>1. PICK m \in 0..MaxTubes : \E survivors \in [1..m -> {t \in Candidate : Passes(t)}] :
        /\ kept' = [i \in 1..m |-> [start |-> survivors[i].start, end |-> survivors[i].end]]
        /\ pc' = IF m = 0 THEN "done" ELSE "score"
  BY DEF BuildTubes
<1>2. PICK survivors \in [1..m -> {t \in Candidate : Passes(t)}] :
        /\ kept' = [i \in 1..m |-> [start |-> survivors[i].start, end |-> survivors[i].end]]
        /\ pc' = IF m = 0 THEN "done" ELSE "score"
  BY <1>1
<1>3. m \in Nat
  BY SearchAssumption
<1>4. ASSUME NEW i \in 1..m
      PROVE  kept'[i] \in [start : Nat, end : Nat] /\ Length(kept'[i]) >= MinTubeLength
  <2>1. survivors[i] \in Candidate /\ Passes(survivors[i])
    BY <1>2
  <2>2. survivors[i].start \in Nat /\ survivors[i].end \in Nat
    BY <2>1 DEF Candidate, Slots
  <2>3. kept'[i] = [start |-> survivors[i].start, end |-> survivors[i].end]
    BY <1>2
  <2>4. Length(kept'[i]) = Length(survivors[i])
    BY <2>3 DEF Length
  <2> QED BY <2>1, <2>2, <2>3, <2>4 DEF Passes
<1>5. KeptOK'
  <2>1. kept' \in [1..m -> [start : Nat, end : Nat]]
    BY <1>2, <1>4
  <2> QED BY <1>3, <1>4, <2>1 DEF KeptOK
<1>6. Fresh' /\ pc' \in {"done", "score"} /\ full' = <<>> /\ answer' = Negative
  BY <1>2 DEF SearchInv, Fresh, BuildTubes
<1> QED BY <1>5, <1>6 DEF SearchInv, Progress, NoAssertionError, SameVerdict, Earliest, Negative, Null

LEMMA ScoreKeeps ==
  ASSUME SearchInv, Score
  PROVE  SearchInv'
<1>1. KeptOK' /\ KeptOK
  BY DEF SearchInv, KeptOK, Score, Length
<1>2. Fresh' /\ pc' \in {"done", "search"}
  BY DEF SearchInv, Fresh, Score
<1>3. SameVerdict' /\ Earliest'
  BY DEF SearchInv, Fresh, Score, SameVerdict, Earliest, Negative, Null
<1>4. Progress'
  <2> SUFFICES ASSUME pc' = "search" PROVE Progress'
    BY DEF Progress
  <2>1. /\ request.trigger /\ full' \in [DOMAIN kept -> BOOLEAN] /\ kept' = kept
        /\ scores' = [i \in DOMAIN kept |-> <<>>]
        /\ crossing' = [i \in DOMAIN kept |-> Null]
        /\ at' = [tube |-> 1, length |-> MinTubeLength]
        /\ request' = request
    BY DEF Score, SearchInv, Fresh
  <2>2. scores' \in [DOMAIN kept -> Seq(BOOLEAN)] /\ crossing' \in [DOMAIN kept -> Int]
    BY <2>1 DEF Null
  <2>3. at' \in [tube : Nat \ {0}, length : Nat] /\ at'.tube = 1 /\ at'.length = MinTubeLength
        /\ MinTubeLength \in Nat
    BY <2>1, SearchAssumption
  <2>4. \A i \in DOMAIN kept : Pending(i, 0)'
    BY <2>1 DEF Pending
  <2>5. \A i \in DOMAIN kept : i \in Nat \ {0} /\ Length(kept[i]) >= MinTubeLength
    BY <1>1, KeptShape
  <2>6. \A i \in DOMAIN kept' : i >= at'.tube /\ ~ (i < at'.tube)
    BY <2>1, <2>3, <2>5
  <2>7. at'.length - MinTubeLength = 0
    BY <2>3
  <2> QED BY <2>1, <2>2, <2>3, <2>4, <2>5, <2>6, <2>7 DEF Progress
<1> QED BY <1>1, <1>2, <1>3, <1>4 DEF SearchInv, NoAssertionError
LEMMA SkipTubeKeeps ==
  ASSUME SearchInv, SkipTube
  PROVE  SearchInv'
<1>1. KeptOK' /\ Fresh' /\ pc' = "search" /\ pc = "search"
  BY DEF SearchInv, KeptOK, Fresh, SkipTube, Length
<1>2. Progress'
  <2> DEFINE j == at.tube
  <2>1. /\ kept' = kept /\ full' = full /\ scores' = scores /\ crossing' = crossing
        /\ request' = request /\ j \in DOMAIN kept /\ ~full[j]
        /\ at' = [tube |-> j + 1, length |-> MinTubeLength]
    BY DEF SkipTube, NextTube, Qualifies
  <2>2. /\ at \in [tube : Nat \ {0}, length : Nat] /\ MinTubeLength \in Nat
        /\ \A i \in DOMAIN kept : i \in Nat \ {0} /\ Length(kept[i]) >= MinTubeLength
    BY <1>1, SearchAssumption, KeptShape DEF SearchInv, Progress
  <2>3. at'.tube = j + 1 /\ at'.length = MinTubeLength /\ j \in Nat \ {0}
        /\ at' \in [tube : Nat \ {0}, length : Nat]
    BY <2>1, <2>2
  <2>4. \A i \in DOMAIN kept : i < j + 1 => Searched(i)
    BY <1>1, <2>1, <2>2, <2>3 DEF SearchInv, Progress, Pending, Searched
  <2>5. \A i \in DOMAIN kept : i >= j + 1 => Pending(i, 0)
    BY <1>1, <2>2, <2>3 DEF SearchInv, Progress
  <2>6. \A i : Searched(i)' = Searched(i) /\ \A n : Pending(i, n)' = Pending(i, n)
    BY <2>1 DEF Searched, Pending, CrossesAt
  <2> HIDE DEF j
  <2>7. \A i \in DOMAIN kept' : /\ i < at'.tube => Searched(i)'
                                /\ i >= at'.tube => Pending(i, 0)'
    BY <2>1, <2>3, <2>4, <2>5, <2>6
  <2>8. at'.length - MinTubeLength = 0
    BY <2>2, <2>3
  <2>9. \A i \in DOMAIN kept' : /\ i = at'.tube => i >= at'.tube
                                /\ i > at'.tube => i >= at'.tube
    BY <2>1, <2>2, <2>3
  <2>10. /\ request.trigger /\ full \in [DOMAIN kept -> BOOLEAN]
         /\ scores \in [DOMAIN kept -> Seq(BOOLEAN)] /\ crossing \in [DOMAIN kept -> Int]
    BY <1>1 DEF SearchInv, Progress
  <2> QED BY <2>1, <2>2, <2>3, <2>7, <2>8, <2>9, <2>10 DEF Progress, Length
<1> QED BY <1>1, <1>2 DEF SearchInv, NoAssertionError, SameVerdict, Earliest

\* A turn of the loop that scores a prefix of the tube being searched.
LEMMA TryPrefixKeeps ==
  ASSUME SearchInv, TryPrefix
  PROVE  SearchInv'
<1>0. PICK j, n : j = at.tube /\ n = at.length - MinTubeLength
  OBVIOUS
<1>1. /\ pc = "search" /\ j \in DOMAIN kept /\ full[j]
      /\ kept' = kept /\ full' = full /\ request' = request /\ answer' = answer
  BY <1>0 DEF TryPrefix, Qualifies
<1>2. /\ request.trigger /\ full \in [DOMAIN kept -> BOOLEAN]
      /\ scores \in [DOMAIN kept -> Seq(BOOLEAN)] /\ crossing \in [DOMAIN kept -> Int]
      /\ at \in [tube : Nat \ {0}, length : Nat] /\ at.length >= MinTubeLength
      /\ MinTubeLength \in Nat
      /\ at.length <= Length(kept[j])
      /\ Pending(j, n)
      /\ \A i \in DOMAIN kept : (i < j => Searched(i)) /\ (i > j => Pending(i, 0))
  BY <1>0, <1>1, SearchAssumption DEF SearchInv, Progress
<1>3. /\ \A i \in DOMAIN kept : /\ i \in Nat \ {0}
                                /\ kept[i].start \in Nat /\ kept[i].end \in Nat
                                /\ Length(kept[i]) = kept[i].end - kept[i].start + 1
                                /\ Length(kept[i]) >= MinTubeLength
      /\ n \in Nat /\ j \in Nat \ {0} /\ at.length \in Nat
  BY <1>0, <1>2, KeptShape DEF SearchInv
<1>4. /\ kept[j].start \in Nat /\ kept[j].end \in Nat /\ Length(kept[j]) \in Int
      /\ Length(kept[j]) = kept[j].end - kept[j].start + 1
      /\ at.length \in Nat /\ at.length <= Length(kept[j])
      /\ MinTubeLength \in Nat \ {0} /\ at.length >= MinTubeLength
      /\ n \in Nat /\ n = at.length - MinTubeLength
  BY <1>0, <1>1, <1>2, <1>3, SearchAssumption
<1>5. PICK positive \in Verdict :
        /\ scores' = [scores EXCEPT ![j] = Append(@, positive)]
        /\ IF positive
           THEN /\ crossing' = [crossing EXCEPT ![j] = kept[j].start + at.length - 1]
                /\ NextTube
           ELSE /\ at' = [at EXCEPT !.length = @ + 1]
                /\ UNCHANGED crossing
        /\ pc' = pc
  <2>1. ~ (at.length > Length(kept[j]))
    BY <1>4
  <2> QED BY <1>0, <2>1 DEF TryPrefix
<1>6. positive \in BOOLEAN /\ (at.length = Length(kept[j]) => positive)
  BY <1>0, <1>1, <1>2, <1>5 DEF Verdict
<1>7. /\ scores'[j] \in Seq(BOOLEAN) /\ Len(scores'[j]) = n + 1 /\ scores'[j][n + 1] = positive
      /\ \A k \in 1..n : ~scores'[j][k]
      /\ DOMAIN scores'[j] = 1..(n + 1)
  <2>1. scores[j] \in Seq(BOOLEAN) /\ Len(scores[j]) = n /\ \A k \in 1..n : ~scores[j][k]
    BY <1>2 DEF Pending
  <2>2. scores'[j] = Append(scores[j], positive)
    BY <1>1, <1>2, <1>5
  <2>3. \A k \in 1..n : Append(scores[j], positive)[k] = scores[j][k]
    BY <1>6, <2>1, AppendOne
  <2>4. \A k \in 1..n : ~scores'[j][k]
    BY <2>1, <2>2, <2>3
  <2> QED BY <1>6, <2>1, <2>2, <2>4, AppendOne
<1>8. scores' \in [DOMAIN kept -> Seq(BOOLEAN)] /\ \A i \in DOMAIN kept : i # j => scores'[i] = scores[i]
  <2>1. scores' = [scores EXCEPT ![j] = scores'[j]]
    BY <1>1, <1>2, <1>5
  <2> QED BY <1>1, <1>2, <1>7, <2>1
<1>9. KeptOK' /\ Fresh' /\ pc' = "search"
  BY <1>1, <1>5 DEF SearchInv, KeptOK, Fresh, Length
<1>10. Progress'
  <2>1. CASE positive
    <3>1. /\ crossing' = [crossing EXCEPT ![j] = kept[j].start + at.length - 1]
          /\ at' = [tube |-> j + 1, length |-> MinTubeLength]
      BY <1>0, <1>5, <2>1 DEF NextTube
    <3>2. /\ crossing' \in [DOMAIN kept -> Int]
          /\ crossing'[j] = kept[j].start + at.length - 1
          /\ \A i \in DOMAIN kept : i # j => crossing'[i] = crossing[i]
      <4>1. kept[j].start + at.length - 1 \in Int
        BY <1>1, <1>3
      <4> QED BY <1>1, <1>2, <3>1, <4>1
    <3>3. Searched(j)'
      <4>1. crossing'[j] \in kept[j].start..kept[j].end
        BY <1>4, <3>2
      <4>2. crossing'[j] - kept'[j].start - MinTubeLength + 2 = n + 1
        BY <1>1, <1>4, <3>2
      <4>3. CrossesAt(j, crossing[j])'
        <5>1. n + 1 \in DOMAIN scores'[j] /\ scores'[j][n + 1] /\ (n + 1) - 1 = n
          BY <1>7, <1>4, <2>1
        <5> QED BY <1>7, <4>2, <5>1 DEF CrossesAt
      <4> QED BY <1>1, <4>1, <4>3 DEF Searched
    <3>4. \A i \in DOMAIN kept : i # j => /\ Searched(i)' = Searched(i)
                                         /\ \A m : Pending(i, m)' = Pending(i, m)
      BY <1>1, <1>8, <3>2 DEF Searched, Pending, CrossesAt
    <3>5. /\ at' \in [tube : Nat \ {0}, length : Nat]
          /\ at'.tube = j + 1 /\ at'.length = MinTubeLength /\ at'.length - MinTubeLength = 0
      BY <1>2, <1>3, <3>1
    <3>6. \A i \in DOMAIN kept : /\ i < at'.tube => Searched(i)'
                                 /\ i >= at'.tube => Pending(i, 0)'
      <4> SUFFICES ASSUME NEW i \in DOMAIN kept
                   PROVE  (i < j + 1 => Searched(i)') /\ (i >= j + 1 => Pending(i, 0)')
        BY <3>5
      <4>1. CASE i = j
        BY <1>3, <3>3, <4>1
      <4>2. CASE i # j
        BY <1>2, <1>3, <3>4, <4>2
      <4> QED BY <4>1, <4>2
    <3>7. \A i \in DOMAIN kept : (i = at'.tube => i >= at'.tube) /\ (i > at'.tube => i >= at'.tube)
      BY <1>3, <3>5
    <3>8. \A i \in DOMAIN kept : /\ i < at'.tube => Searched(i)'
                                 /\ i = at'.tube => Pending(i, at.length - MinTubeLength)'
                                 /\ i > at'.tube => Pending(i, 0)'
      BY <3>5, <3>6, <3>7
    <3>9. \A i \in DOMAIN kept : at'.length <= Length(kept[i])
      BY <1>3, <3>5
    <3>10. at'.length >= MinTubeLength
      BY <1>4, <3>5
    <3> QED BY <1>1, <1>2, <1>8, <3>2, <3>5, <3>8, <3>9, <3>10 DEF Progress, Length
  <2>2. CASE ~positive
    <3>1. crossing' = crossing /\ at' = [at EXCEPT !.length = @ + 1]
      BY <1>5, <2>2
    <3>2. /\ at' \in [tube : Nat \ {0}, length : Nat]
          /\ at'.tube = j /\ at'.length = at.length + 1 /\ at'.length - MinTubeLength = n + 1
          /\ at'.length >= MinTubeLength
      <4>1. at' = [tube |-> j, length |-> at.length + 1]
        BY <1>0, <1>2, <3>1
      <4>2. at.length + 1 \in Nat /\ (at.length + 1) - MinTubeLength = n + 1
            /\ at.length + 1 >= MinTubeLength
        BY <1>4
      <4>3. j \in Nat \ {0}
        BY <1>3
      <4> QED BY <4>1, <4>2, <4>3
    <3>3. at'.length <= Length(kept[j])
      BY <1>6, <1>4, <2>2, <3>2
    <3>4. Pending(j, n + 1)'
      <4>1. \A k \in 1..(n + 1) : ~scores'[j][k]
        BY <1>3, <1>7, <2>2
      <4>2. crossing'[j] = Null
        BY <1>2, <3>1 DEF Pending
      <4> QED BY <1>7, <4>1, <4>2 DEF Pending
    <3>5. \A i \in DOMAIN kept : i # j => /\ Searched(i)' = Searched(i)
                                         /\ \A m : Pending(i, m)' = Pending(i, m)
      BY <1>1, <1>8, <3>1 DEF Searched, Pending, CrossesAt
    <3>6. \A i \in DOMAIN kept : /\ i < j => Searched(i)'
                                 /\ i > j => Pending(i, 0)'
      BY <1>2, <1>3, <3>5
    <3> QED BY <1>1, <1>2, <1>3, <1>8, <3>1, <3>2, <3>3, <3>4, <3>6 DEF Progress, Length
  <2> QED BY <1>6, <2>1, <2>2
<1> QED BY <1>9, <1>10 DEF SearchInv, NoAssertionError, SameVerdict, Earliest

LEMMA DecideKeeps ==
  ASSUME SearchInv, Decide
  PROVE  SearchInv'
<1>1. KeptOK' /\ Fresh' /\ pc' = "done" /\ KeptOK
  BY DEF SearchInv, KeptOK, Fresh, Decide, Length
<1>2. /\ kept' = kept /\ full' = full /\ scores' = scores /\ crossing' = crossing
      /\ request' = request /\ request.trigger
      /\ full \in [DOMAIN kept -> BOOLEAN] /\ crossing \in [DOMAIN kept -> Int]
  BY DEF SearchInv, Progress, Decide
<1>3. \A i \in DOMAIN kept : Searched(i) /\ kept[i].start \in Nat /\ kept[i].end \in Nat
  <2>1. at.tube \in Nat \ {0} /\ at.tube \notin DOMAIN kept
    BY DEF SearchInv, Progress, Decide
  <2>2. \A i \in DOMAIN kept : i < at.tube
    BY <1>1, <2>1, KeptShape
  <2> QED BY <1>1, <2>2, KeptShape DEF SearchInv, Progress, Decide
<1>4. \A i \in DOMAIN kept : /\ full[i] <=> i \in Crossed
                             /\ full[i] => /\ crossing[i] \in Nat
                                           /\ crossing[i] \in kept[i].start..kept[i].end
                                           /\ CrossesAt(i, crossing[i])
  BY <1>2, <1>3 DEF Searched, Crossed, Null
<1>5. CASE Crossed = {}
  <2>1. answer' = Negative
    BY <1>5 DEF Decide
  <2>2. \A i \in DOMAIN full : ~full[i]
    BY <1>2, <1>4, <1>5
  <2> QED BY <1>1, <1>2, <2>1, <2>2
          DEF SearchInv, Progress, NoAssertionError, SameVerdict, Earliest, Negative, Null
<1>6. CASE Crossed # {}
  <2> DEFINE i == CHOOSE k \in Crossed : First(k)
  <2>1. answer' = [positive |-> TRUE, trigger |-> crossing[i], tube |-> i]
    BY <1>6 DEF Decide
  <2>2. \A k \in Crossed : k \in DOMAIN kept
    BY DEF Crossed
  <2>3. i \in Crossed /\ First(i)
    BY <1>1, <1>2, <1>4, <1>6, <2>2, FirstExists
  <2> HIDE DEF i
  <2>4. /\ answer'.positive = TRUE /\ answer'.trigger = crossing[i] /\ answer'.tube = i
        /\ i \in DOMAIN kept /\ full[i] /\ crossing[i] \in Nat /\ CrossesAt(i, crossing[i])
    BY <1>4, <2>1, <2>2, <2>3
  <2>5. SameVerdict'
    <3>1. \E k \in DOMAIN full' : full'[k]
      BY <1>2, <2>4
    <3>2. answer'.trigger # Null
      BY <2>4 DEF Null
    <3> QED BY <1>2, <2>4, <3>1, <3>2 DEF SameVerdict
  <2>6. \A k \in DOMAIN kept : full[k] =>
          \E f \in kept[k].start..kept[k].end :
            /\ CrossesAt(k, f)
            /\ f > crossing[i] \/ (f = crossing[i] /\ k >= i)
    <3> SUFFICES ASSUME NEW k \in DOMAIN kept, full[k]
                 PROVE  /\ crossing[k] \in kept[k].start..kept[k].end /\ CrossesAt(k, crossing[k])
                        /\ crossing[k] > crossing[i] \/ (crossing[k] = crossing[i] /\ k >= i)
      OBVIOUS
    <3>1. k \in Crossed /\ k \in Nat /\ i \in Nat /\ crossing[k] \in Nat
      BY <1>1, <1>4, <2>4, KeptShape
    <3>2. crossing[i] < crossing[k] \/ (crossing[i] = crossing[k] /\ i <= k)
      BY <2>3, <3>1 DEF First
    <3> QED BY <1>4, <2>4, <3>1, <3>2
  <2>7. Earliest'
    BY <1>2, <2>4, <2>6 DEF Earliest, CrossesAt
  <2> QED BY <1>1, <2>5, <2>7 DEF SearchInv, Progress, NoAssertionError
<1> QED BY <1>5, <1>6

LEMMA NextSearch == SearchInv /\ [Next]_vars => SearchInv'
<1> SUFFICES ASSUME SearchInv, [Next]_vars PROVE SearchInv'
  OBVIOUS
<1>1. ASSUME UNCHANGED vars PROVE SearchInv'
  <2>1. KeptOK' /\ Fresh' /\ NoAssertionError' /\ SameVerdict'
    BY <1>1 DEF vars, SearchInv, KeptOK, Fresh, Length, NoAssertionError, SameVerdict
  <2>2. Progress'
    BY <1>1 DEF vars, SearchInv, Progress, Searched, Pending, CrossesAt, Length
  <2>3. Earliest'
    BY <1>1 DEF vars, SearchInv, Earliest, CrossesAt
  <2> QED BY <2>1, <2>2, <2>3 DEF SearchInv
<1> QED BY <1>1, TruncateKeeps, BuildTubesKeeps, ScoreKeeps, SkipTubeKeeps, TryPrefixKeeps,
           DecideKeeps DEF Next
-----------------------------------------------------------------------------
\* Where the search stands and what its answer means, in every reachable state.
THEOREM SearchInductive == Spec => []SearchInv
BY InitSearch, NextSearch, PTL DEF Spec

\* The two assertions of the search never trip: a tube whose whole is positive has a
\* prefix that is, whatever the classifier says of the shorter ones.
THEOREM AssertionsHold == Spec => []NoAssertionError
<1>1. SearchInv => NoAssertionError
  BY DEF SearchInv
<1> QED BY <1>1, SearchInductive, PTL

\* Asking for the trigger never changes the verdict.
THEOREM VerdictKept == Spec => []SameVerdict
<1>1. SearchInv => SameVerdict
  BY DEF SearchInv
<1> QED BY <1>1, SearchInductive, PTL

\* The trigger is the earliest crossing of any positive tube, ties to the smallest
\* tube_id.
THEOREM TriggerEarliest == Spec => []Earliest
<1>1. SearchInv => Earliest
  BY DEF SearchInv
<1> QED BY <1>1, SearchInductive, PTL

\* A processed index reads back to the input frame its slot shows, and each input
\* frame has one slot that is not padding: for both strategies and every length of
\* the input and of the padding.
THEOREM IndicesReadBack == Spec => []ReadsBack
<1>1. ReadsInv => ReadsBack
  BY DEF ReadsInv
<1> QED BY <1>1, InitReads, NextReads, PTL DEF Spec
=============================================================================
