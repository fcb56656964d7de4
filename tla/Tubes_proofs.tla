---------------------------- MODULE Tubes_proofs ----------------------------
(***************************************************************************)
(* What build_tubes guarantees for every set of boxes, every overlap       *)
(* function, every threshold and every number of tolerated misses, and     *)
(* what it does to the tubes over time; then what merging them guarantees, *)
(* for any number of tubes and frames and whatever boxes count as the same *)
(* plume and as the better one.                                            *)
(***************************************************************************)
EXTENDS TubeBuilder, TubeMerge, TLAPS, SequenceTheorems, FiniteSetTheorems, WellFoundedInduction

-----------------------------------------------------------------------------
\* Data facts: a frame is a sequence of boxes, and what Extended does to a tube.

LEMMA FrameIsSeq ==
  ASSUME NEW d \in Frame
  PROVE  d \in Seq(Box) /\ DOMAIN d = 1..Len(d) /\ Len(d) \in Nat
BY BuilderAssumption DEF Frame

LEMMA GapsShape ==
  ASSUME NEW t \in Tube, WellFormed(t), now \in Nat, t.end < now
  PROVE  /\ Gaps(t) \in Seq(Entry)
         /\ Len(Gaps(t)) = now - t.end - 1
         /\ \A k \in 1..(now - t.end - 1) : Gaps(t)[k] = [frame |-> t.end + k, det |-> Gap]
<1>1. t.entries[Len(t.entries)].frame = t.end
  BY DEF WellFormed, Tube
<1>2. now - t.end - 1 \in Nat /\ t.end \in Nat
  BY DEF Tube
<1>3. Gaps(t) = [k \in 1..(now - t.end - 1) |-> [frame |-> t.end + k, det |-> Gap]]
  BY <1>1 DEF Gaps
<1>4. \A k \in 1..(now - t.end - 1) : [frame |-> t.end + k, det |-> Gap] \in Entry
  BY <1>2 DEF Entry, Gap
<1> QED BY <1>2, <1>3, <1>4

LEMMA ExtendedShape ==
  ASSUME NEW t \in Tube, WellFormed(t), now \in Nat, t.end < now, NEW j \in Nat, j # Gap
  PROVE  LET u == Extended(t, j)
             n == Len(t.entries)
         IN  /\ u \in Tube
             /\ u.start = t.start /\ u.end = now /\ u.misses = 0 /\ u.open = t.open
             /\ n = t.end - t.start + 1
             /\ Len(u.entries) = now - t.start + 1
             /\ \A k \in 1..n : u.entries[k] = t.entries[k]
             /\ \A k \in (n + 1)..(now - t.start) :
                  u.entries[k] = [frame |-> t.start + k - 1, det |-> Gap]
             /\ u.entries[now - t.start + 1] = [frame |-> now, det |-> j]
<1> DEFINE e == [frame |-> now, det |-> j]
           g == Gaps(t)
           u == Extended(t, j)
           n == Len(t.entries)
           m == Len(g)
<1>0. t.entries \in Seq(Entry) /\ g \in Seq(Entry)
  BY GapsShape DEF Tube
<1>1. /\ t.start \in Nat /\ t.end \in Nat
      /\ n = t.end - t.start + 1 /\ n \in Nat /\ t.start <= t.end
  BY DEF Tube, WellFormed
<1>2. m = now - t.end - 1 /\ m \in Nat
  BY GapsShape, <1>1
<1>3. e \in Entry
  BY DEF Entry
<1>4. u.entries = Append(t.entries \o g, e)
  BY DEF Extended, Tube
<1>5. u \in [start : Nat, end : Nat, misses : Nat, open : BOOLEAN, entries : {u.entries}]
      /\ u.start = t.start /\ u.end = now /\ u.misses = 0 /\ u.open = t.open
  BY DEF Extended, Tube
<1> HIDE DEF e, g, m, n, u
<1>6. /\ t.entries \o g \in Seq(Entry) /\ Len(t.entries \o g) = n + m
      /\ \A k \in 1..(n + m) :
           (t.entries \o g)[k] = IF k <= n THEN t.entries[k] ELSE g[k - n]
  BY <1>0, ConcatProperties DEF m, n
<1>7. /\ u.entries \in Seq(Entry) /\ Len(u.entries) = n + m + 1
      /\ \A k \in 1..(n + m) : u.entries[k] = (t.entries \o g)[k]
      /\ u.entries[n + m + 1] = e
  <2> DEFINE s == t.entries \o g
  <2>1. s \in Seq(Entry) /\ Len(s) = n + m
    BY <1>6
  <2>2. u.entries = Append(s, e)
    BY <1>4
  <2> HIDE DEF s
  <2>3. /\ Append(s, e) \in Seq(Entry) /\ Len(Append(s, e)) = Len(s) + 1
        /\ Append(s, e)[Len(s) + 1] = e
        /\ \A k \in 1..Len(s) : Append(s, e)[k] = s[k]
    BY <1>3, <2>1, AppendProperties
  <2> QED BY <2>1, <2>2, <2>3 DEF s
<1>8. n + m = now - t.start
  BY <1>1, <1>2
<1>9. u \in Tube
  BY <1>5, <1>7 DEF Tube
<1>10. \A k \in 1..n : u.entries[k] = t.entries[k]
  <2> TAKE k \in 1..n
  <2>1. k \in 1..(n + m) /\ k <= n
    BY <1>1, <1>2
  <2> QED BY <2>1, <1>6, <1>7
<1>11. ASSUME NEW k \in (n + 1)..(now - t.start)
       PROVE  u.entries[k] = [frame |-> t.start + k - 1, det |-> Gap]
  <2>1. k \in 1..(n + m) /\ ~(k <= n) /\ k - n \in 1..m
    BY <1>1, <1>2, <1>8
  <2>2. u.entries[k] = g[k - n]
    BY <2>1, <1>6, <1>7
  <2>3. g[k - n] = [frame |-> t.end + (k - n), det |-> Gap]
    BY <2>1, <1>2, GapsShape DEF g
  <2>4. t.end + (k - n) = t.start + k - 1
    BY <1>1, <2>1
  <2> QED BY <2>2, <2>3, <2>4
<1>12. u.entries[now - t.start + 1] = [frame |-> now, det |-> j]
  BY <1>7, <1>8 DEF e
<1> QED BY <1>1, <1>5, <1>7, <1>8, <1>9, <1>10, <1>11, <1>12 DEF n, u

\* Extending a tube keeps its shape, and keeps its gaps short when it has not
\* missed more than MaxMisses frames.
LEMMA ExtendedWellFormed ==
  ASSUME NEW t \in Tube, WellFormed(t), now \in Nat, t.end < now, NEW j \in Nat, j # Gap
  PROVE  WellFormed(Extended(t, j))
<1> DEFINE u == Extended(t, j)
           n == Len(t.entries)
<1>1. /\ t.start \in Nat /\ t.end \in Nat /\ t.start <= t.end /\ t.start >= 1
      /\ n = t.end - t.start + 1 /\ n \in Nat
  BY DEF Tube, WellFormed
<1>2. \A k \in 1..n : t.entries[k].frame = t.start + k - 1
  <2>1. t.entries \in Seq(Entry)
    BY DEF Tube
  <2>2. DOMAIN t.entries = 1..n
    BY <2>1
  <2> QED BY <2>2 DEF WellFormed
<1>3. n >= 1 /\ t.entries[1].det # Gap
  BY <1>1 DEF WellFormed
<1>4. u \in Tube /\ u.start = t.start /\ u.end = now
  BY ExtendedShape
<1>5. Len(u.entries) = now - t.start + 1
  BY ExtendedShape
<1>6. \A k \in 1..n : u.entries[k] = t.entries[k]
  BY ExtendedShape
<1>7. \A k \in (n + 1)..(now - t.start) :
        u.entries[k] = [frame |-> t.start + k - 1, det |-> Gap]
  BY ExtendedShape
<1>8. u.entries[now - t.start + 1] = [frame |-> now, det |-> j]
  BY ExtendedShape
<1>9. DOMAIN u.entries = 1..(now - t.start + 1)
  BY <1>4, <1>5 DEF Tube
<1> HIDE DEF u, n
<1>10. ASSUME NEW k \in 1..(now - t.start + 1)
       PROVE  u.entries[k].frame = t.start + k - 1
  <2>1. CASE k \in 1..n
    BY <2>1, <1>2, <1>6
  <2>2. CASE k \in (n + 1)..(now - t.start)
    <3> DEFINE f == t.start + k - 1
    <3>1. u.entries[k] = [frame |-> f, det |-> Gap]
      BY <2>2, <1>7
    <3> HIDE DEF f
    <3>2. u.entries[k].frame = f
      BY <3>1
    <3> QED BY <3>2 DEF f
  <2>3. CASE k = now - t.start + 1
    <3>1. t.start + k - 1 = now
      BY <1>1, <2>3
    <3> QED BY <2>3, <3>1, <1>8
  <2>4. k \in 1..n \/ k \in (n + 1)..(now - t.start) \/ k = now - t.start + 1
    BY <1>1
  <2> QED BY <2>1, <2>2, <2>3, <2>4
<1>11. u.entries[1].det # Gap
  BY <1>1, <1>3, <1>6
<1>12. u.entries[now - t.start + 1].det # Gap
  BY <1>8
<1>13. t.start \in 1..now
  BY <1>1
<1> QED BY <1>4, <1>5, <1>9, <1>10, <1>11, <1>12, <1>13 DEF WellFormed, u

LEMMA ExtendedShortGaps ==
  ASSUME NEW t \in Tube, WellFormed(t), now \in Nat, t.end < now, NEW j \in Nat, j # Gap,
         ShortGaps(t.entries), now - 1 - t.end <= MaxMisses
  PROVE  ShortGaps(Extended(t, j).entries)
<1> DEFINE u == Extended(t, j)
           n == Len(t.entries)
           N == now - t.start + 1
<1>1. /\ t.start \in Nat /\ t.end \in Nat /\ t.start <= t.end
      /\ n = t.end - t.start + 1 /\ n \in Nat /\ N \in Nat /\ n < N
      /\ MaxMisses \in Nat
  <2>1. /\ t.start \in Nat /\ t.end \in Nat /\ t.start <= t.end
        /\ n = t.end - t.start + 1
    BY DEF Tube, WellFormed
  <2> HIDE DEF n
  <2> QED BY <2>1, BuilderAssumption
<1>2. t.entries[n].det # Gap /\ DOMAIN t.entries = 1..n
  <2>1. t.entries \in Seq(Entry)
    BY DEF Tube
  <2> QED BY <2>1 DEF WellFormed
<1>3. DOMAIN u.entries = 1..N
  <2>1. u \in Tube /\ Len(u.entries) = N
    BY ExtendedShape
  <2> HIDE DEF u, N
  <2> QED BY <2>1 DEF Tube
<1>4. \A k \in 1..n : u.entries[k] = t.entries[k]
  BY ExtendedShape
<1>5. u.entries[N].det # Gap
  <2>1. u.entries[N] = [frame |-> now, det |-> j]
    BY ExtendedShape
  <2> QED BY <2>1
<1> HIDE DEF u, n, N
<1> SUFFICES ASSUME NEW k \in 1..N, NEW m \in 1..N, k <= m,
                    \A x \in k..m : u.entries[x].det = Gap
             PROVE  m - k < MaxMisses
  BY <1>3 DEF ShortGaps, u
<1>6. m # N /\ ~(n \in k..m)
  <2>1. m \in k..m
    OBVIOUS
  <2>2. m # N
    BY <2>1, <1>5
  <2>3. ASSUME n \in k..m
        PROVE  FALSE
    <3>1. n \in 1..n
      BY <1>1, <2>3
    <3> QED BY <3>1, <2>3, <1>2, <1>4
  <2> QED BY <2>2, <2>3
<1>7. CASE m < n
  <2>1. k \in 1..n /\ m \in 1..n /\ \A x \in k..m : x \in 1..n
    BY <1>1, <1>7
  <2>2. \A x \in k..m : t.entries[x].det = Gap
    BY <2>1, <1>4
  <2> QED BY <2>1, <2>2, <1>2 DEF ShortGaps
<1>8. CASE n < k
  <2>1. m <= now - t.start /\ k >= t.end - t.start + 2
    BY <1>1, <1>6, <1>8 DEF N
  <2>2. m - k <= now - 1 - t.end - 1
    BY <2>1, <1>1
  <2> QED BY <2>2, <1>1
<1>9. m < n \/ n < k
  BY <1>1, <1>6
<1> QED BY <1>7, <1>8, <1>9

-----------------------------------------------------------------------------
\* The inductive invariant, one lemma per action.

LEMMA MapIsSeq ==
  ASSUME NEW S, NEW T, NEW s \in Seq(S), NEW f, f = [i \in DOMAIN s |-> f[i]],
         \A i \in DOMAIN s : f[i] \in T
  PROVE  f \in Seq(T) /\ Len(f) = Len(s) /\ DOMAIN f = DOMAIN s
<1>1. DOMAIN s = 1..Len(s) /\ Len(s) \in Nat
  OBVIOUS
<1>2. f \in [1..Len(s) -> T]
  BY <1>1
<1> QED BY <1>1, <1>2

LEMMA InitIInv == Init => IInv
<1> SUFFICES ASSUME Init PROVE IInv
  OBVIOUS
<1>1. frames = <<>> /\ tubes = <<>> /\ taker = <<>> /\ pc = "next"
  BY DEF Init
<1>2. DOMAIN tubes = {} /\ now = 0
  BY <1>1 DEF now
<1>3. TypeOK
  BY <1>1, <1>2 DEF TypeOK
<1> QED BY <1>2, <1>3 DEF IInv, Contiguous, GapBound, MissCount

LEMMA ReadIInv == ASSUME IInv, NEW dets \in Frame, Read(dets) PROVE IInv'
<1>1. /\ pc = "next" /\ pc' = "match" /\ tubes' = tubes
      /\ frames' = Append(frames, dets) /\ taker' = [j \in DOMAIN dets |-> 0]
  BY DEF Read
<1>2. /\ frames \in Seq(Frame) /\ tubes \in Seq(Tube)
  BY DEF IInv, TypeOK
<1>3. /\ frames' \in Seq(Frame) /\ now \in Nat /\ now' = now + 1 /\ frames'[now'] = dets
  BY <1>1, <1>2, AppendProperties DEF now
<1>4. TypeOK'
  <2>1. taker' \in Seq(0..Len(tubes)) /\ DOMAIN taker' = DOMAIN dets
    <3>1. DOMAIN dets = 1..Len(dets) /\ Len(dets) \in Nat
      BY FrameIsSeq
    <3>2. 0 \in 0..Len(tubes)
      BY <1>2
    <3> QED BY <3>1, <3>2, <1>1
  <2> QED BY <1>1, <1>2, <1>3, <2>1 DEF TypeOK
<1>5. Contiguous' /\ GapBound'
  BY <1>1 DEF IInv, Contiguous, GapBound, WellFormed, ShortGaps
<1>6. MissCount'
  <2> SUFFICES ASSUME NEW i \in DOMAIN tubes
      PROVE  /\ tubes[i].end <= now'
             /\ tubes[i].open =>
                  /\ ~Taken(i)'
                  /\ tubes[i].end < now' /\ tubes[i].misses = now' - 1 - tubes[i].end
                  /\ tubes[i].misses <= MaxMisses
    BY <1>1 DEF MissCount
  <2>1. i # 0 /\ tubes[i] \in Tube
    BY <1>2
  <2>2. ~Taken(i)'
    BY <1>1, <2>1 DEF Taken
  <2>3. tubes[i].end <= now /\ tubes[i].end \in Nat
    BY <2>1 DEF IInv, MissCount, Tube
  <2>4. tubes[i].open => tubes[i].misses = now - tubes[i].end /\ tubes[i].misses <= MaxMisses
    BY <1>1 DEF IInv, MissCount
  <2> QED BY <1>3, <2>2, <2>3, <2>4
<1> QED BY <1>4, <1>5, <1>6 DEF IInv

LEMMA MatchIInv == ASSUME IInv, Match PROVE IInv'
<1>1. PICK p \in Free :
        /\ tubes' = [tubes EXCEPT ![p[1]] = Extended(tubes[p[1]], p[2])]
        /\ taker' = [taker EXCEPT ![p[2]] = p[1]]
        /\ pc = "match" /\ pc' = "match" /\ frames' = frames
  BY DEF Match
<1> DEFINE i == p[1]
           j == p[2]
           u == Extended(tubes[i], j)
<1>2. /\ i \in DOMAIN tubes /\ j \in DOMAIN taker
      /\ tubes[i].open /\ taker[j] = 0 /\ ~Taken(i)
  BY DEF Free, Pairs
<1>3. /\ frames \in Seq(Frame) /\ tubes \in Seq(Tube) /\ taker \in Seq(0..Len(tubes))
      /\ DOMAIN taker = IF now = 0 THEN {} ELSE DOMAIN frames[now]
  BY DEF IInv, TypeOK
<1>4. now \in Nat /\ now' = now
  BY <1>1, <1>3 DEF now
<1>5. DOMAIN tubes = 1..Len(tubes) /\ DOMAIN taker = 1..Len(taker) /\ Len(tubes) \in Nat
  BY <1>3
<1>6. i \in 1..Len(tubes) /\ j \in Nat /\ j # Gap
  BY <1>2, <1>3, <1>5 DEF Gap
<1>7. tubes[i] \in Tube /\ WellFormed(tubes[i]) /\ ShortGaps(tubes[i].entries)
  BY <1>2, <1>3, <1>5 DEF IInv, Contiguous, GapBound
<1>8. tubes[i].end < now /\ now - 1 - tubes[i].end <= MaxMisses
  BY <1>1, <1>2 DEF IInv, MissCount
<1> HIDE DEF i, j, u
<1>9. u \in Tube /\ u.end = now /\ u.misses = 0 /\ WellFormed(u) /\ ShortGaps(u.entries)
  BY <1>4, <1>6, <1>7, <1>8, ExtendedShape, ExtendedWellFormed, ExtendedShortGaps DEF u
<1>10. /\ tubes' \in Seq(Tube) /\ DOMAIN tubes' = DOMAIN tubes /\ Len(tubes') = Len(tubes)
       /\ tubes'[i] = u
       /\ \A k \in DOMAIN tubes : k # i => tubes'[k] = tubes[k]
  BY <1>1, <1>3, <1>5, <1>6, <1>9, ExceptSeq DEF i, j, u
<1>11. /\ taker' \in Seq(0..Len(tubes)) /\ DOMAIN taker' = DOMAIN taker
       /\ taker'[j] = i
       /\ \A k \in DOMAIN taker : k # j => taker'[k] = taker[k]
  <2>1. i \in 0..Len(tubes)
    BY <1>6
  <2> QED BY <1>1, <1>2, <1>3, <1>5, <2>1, ExceptSeq DEF i, j
<1>12. TypeOK'
  BY <1>1, <1>3, <1>4, <1>10, <1>11 DEF TypeOK
<1>13. Contiguous' /\ GapBound'
  <2> SUFFICES ASSUME NEW k \in DOMAIN tubes
               PROVE  WellFormed(tubes'[k]) /\ ShortGaps(tubes'[k].entries)
    BY <1>10 DEF Contiguous, GapBound, WellFormed, ShortGaps
  <2>1. CASE k = i
    BY <2>1, <1>9, <1>10
  <2>2. CASE k # i
    BY <2>2, <1>10 DEF IInv, Contiguous, GapBound
  <2> QED BY <2>1, <2>2
<1>14. MissCount'
  <2>1. \A k \in DOMAIN tubes : k # i => (Taken(k)' <=> Taken(k))
    BY <1>2, <1>5, <1>11 DEF Taken
  <2>2. Taken(i)'
    BY <1>2, <1>11 DEF Taken
  <2> SUFFICES ASSUME NEW k \in DOMAIN tubes
      PROVE  /\ tubes'[k].end <= now
             /\ tubes'[k].open =>
                  IF Taken(k)'
                  THEN tubes'[k].end = now /\ tubes'[k].misses = 0
                  ELSE /\ tubes'[k].end < now
                       /\ tubes'[k].misses = now - 1 - tubes'[k].end
                       /\ tubes'[k].misses <= MaxMisses
    BY <1>1, <1>4, <1>10 DEF MissCount
  <2>3. CASE k = i
    BY <2>2, <2>3, <1>4, <1>9, <1>10
  <2>4. CASE k # i
    BY <2>1, <2>4, <1>1, <1>10 DEF IInv, MissCount
  <2> QED BY <2>3, <2>4
<1> QED BY <1>12, <1>13, <1>14 DEF IInv

LEMMA MissIInv == ASSUME IInv, Miss PROVE IInv'
<1> DEFINE missed(i) == [tubes[i] EXCEPT !.misses = @ + 1]
<1>1. /\ pc = "match" /\ pc' = "start" /\ frames' = frames /\ taker' = taker
      /\ tubes' = [i \in DOMAIN tubes |->
                     IF tubes[i].open /\ ~Taken(i) THEN missed(i) ELSE tubes[i]]
  BY DEF Miss
<1>2. frames \in Seq(Frame) /\ tubes \in Seq(Tube) /\ taker \in Seq(0..Len(tubes))
  BY DEF IInv, TypeOK
<1>3. now \in Nat /\ now' = now
  BY <1>1, <1>2 DEF now
<1>4. ASSUME NEW i \in DOMAIN tubes
      PROVE  /\ tubes[i] \in Tube
             /\ missed(i) \in Tube /\ missed(i).misses = tubes[i].misses + 1
             /\ missed(i).entries = tubes[i].entries /\ missed(i).open = tubes[i].open
             /\ missed(i).start = tubes[i].start /\ missed(i).end = tubes[i].end
  <2>1. tubes[i] \in Tube
    BY <1>2
  <2> QED BY <2>1 DEF Tube
<1> HIDE DEF missed
<1>5. ASSUME NEW i \in DOMAIN tubes
      PROVE  /\ tubes'[i] \in Tube
             /\ tubes'[i].entries = tubes[i].entries /\ tubes'[i].open = tubes[i].open
             /\ tubes'[i].start = tubes[i].start /\ tubes'[i].end = tubes[i].end
             /\ tubes'[i].misses = IF tubes[i].open /\ ~Taken(i)
                                   THEN tubes[i].misses + 1 ELSE tubes[i].misses
  BY <1>1, <1>4
<1>6. tubes' \in Seq(Tube) /\ Len(tubes') = Len(tubes) /\ DOMAIN tubes' = DOMAIN tubes
  <2>1. tubes' = [i \in DOMAIN tubes |-> tubes'[i]]
    BY <1>1
  <2> QED BY <2>1, <1>2, <1>5, MapIsSeq
<1>7. TypeOK'
  BY <1>1, <1>2, <1>3, <1>6 DEF IInv, TypeOK
<1>8. Contiguous' /\ GapBound'
  <2> SUFFICES ASSUME NEW k \in DOMAIN tubes
               PROVE  WellFormed(tubes'[k]) /\ ShortGaps(tubes'[k].entries)
    BY <1>6 DEF Contiguous, GapBound, WellFormed, ShortGaps
  <2>1. WellFormed(tubes[k]) /\ ShortGaps(tubes[k].entries)
    BY DEF IInv, Contiguous, GapBound
  <2> QED BY <2>1, <1>5 DEF WellFormed
<1>9. MissCount'
  <2> SUFFICES ASSUME NEW i \in DOMAIN tubes
      PROVE  /\ tubes'[i].end <= now
             /\ tubes'[i].open => tubes'[i].misses = now - tubes'[i].end
    BY <1>1, <1>3, <1>6 DEF MissCount
  <2>1. tubes[i].end <= now /\ tubes[i].end \in Nat /\ tubes[i].misses \in Nat
    BY <1>4 DEF IInv, MissCount, Tube
  <2>2. CASE ~tubes[i].open
    BY <2>1, <2>2, <1>5
  <2>3. CASE tubes[i].open /\ Taken(i)
    BY <2>1, <2>3, <1>1, <1>3, <1>5 DEF IInv, MissCount
  <2>4. CASE tubes[i].open /\ ~Taken(i)
    <3>1. tubes[i].misses = now - 1 - tubes[i].end
      BY <2>4, <1>1 DEF IInv, MissCount
    <3>2. tubes'[i].misses = tubes[i].misses + 1 /\ tubes'[i].end = tubes[i].end
      BY <2>4, <1>5
    <3> QED BY <2>1, <3>1, <3>2, <1>3
  <2> QED BY <2>2, <2>3, <2>4
<1> QED BY <1>7, <1>8, <1>9 DEF IInv

LEMMA NewTubeShape ==
  ASSUME NEW j \in Nat, j # Gap, now \in Nat, now > 0
  PROVE  LET t == NewTube(j)
         IN  /\ t \in Tube /\ WellFormed(t) /\ ShortGaps(t.entries)
             /\ t.start = now /\ t.end = now /\ t.misses = 0
<1> DEFINE e == [frame |-> now, det |-> j]
           t == NewTube(j)
<1>1. e \in Entry /\ e.frame = now /\ e.det # Gap
  BY DEF Entry
<1>2. /\ t.entries = <<e>> /\ t.start = now /\ t.end = now /\ t.misses = 0
      /\ t = [start |-> now, end |-> now, misses |-> 0, open |-> TRUE, entries |-> <<e>>]
  BY DEF NewTube
<1> HIDE DEF e, t
<1>3. <<e>> \in Seq(Entry) /\ Len(<<e>>) = 1 /\ <<e>>[1] = e /\ DOMAIN <<e>> = 1..1
  BY <1>1
<1>4. t \in Tube
  BY <1>2, <1>3 DEF Tube
<1>5. WellFormed(t)
  BY <1>1, <1>2, <1>3 DEF WellFormed
<1>6. ShortGaps(t.entries)
  BY <1>1, <1>2, <1>3 DEF ShortGaps
<1> QED BY <1>2, <1>4, <1>5, <1>6 DEF t

LEMMA StartIInv == ASSUME IInv, Start PROVE IInv'
<1>1. PICK j \in DOMAIN taker :
        /\ taker[j] = 0
        /\ tubes' = Append(tubes, NewTube(j))
        /\ taker' = [taker EXCEPT ![j] = Len(tubes) + 1]
        /\ pc = "start" /\ pc' = "start" /\ frames' = frames
  BY DEF Start
<1> DEFINE t == NewTube(j)
           n == Len(tubes)
<1>2. /\ frames \in Seq(Frame) /\ tubes \in Seq(Tube) /\ taker \in Seq(0..n)
      /\ n \in Nat /\ DOMAIN tubes = 1..n /\ DOMAIN taker = 1..Len(taker)
  BY DEF IInv, TypeOK
<1>3. now \in Nat /\ now' = now
  BY <1>1, <1>2 DEF now
<1>4. j \in Nat /\ j # Gap
  BY <1>2 DEF Gap
<1>5. now > 0
  BY <1>3 DEF IInv, TypeOK
<1>6. t \in Tube /\ WellFormed(t) /\ ShortGaps(t.entries) /\ t.end = now /\ t.misses = 0
  BY <1>3, <1>4, <1>5, NewTubeShape
<1> HIDE DEF t, n
<1>7. /\ tubes' \in Seq(Tube) /\ Len(tubes') = n + 1 /\ DOMAIN tubes' = 1..(n + 1)
      /\ tubes'[n + 1] = t
      /\ \A k \in 1..n : tubes'[k] = tubes[k]
  BY <1>1, <1>2, <1>6, AppendProperties DEF n, t
<1>8. /\ taker' \in Seq(0..(n + 1)) /\ DOMAIN taker' = DOMAIN taker
      /\ taker'[j] = n + 1
      /\ \A k \in DOMAIN taker : k # j => taker'[k] = taker[k]
  <2>1. n + 1 \in 0..(n + 1) /\ 0..n \subseteq 0..(n + 1)
    BY <1>2
  <2>2. taker \in Seq(0..(n + 1))
    BY <2>1, <1>2, SeqMonotonic
  <2> QED BY <2>1, <2>2, <1>1, <1>2, ExceptSeq DEF n
<1>9. TypeOK'
  BY <1>1, <1>2, <1>3, <1>7, <1>8 DEF IInv, TypeOK
<1>10. \A k \in 1..(n + 1) : k \in 1..n \/ k = n + 1
  BY <1>2
<1>11. Contiguous' /\ GapBound'
  <2> SUFFICES ASSUME NEW k \in 1..(n + 1)
               PROVE  WellFormed(tubes'[k]) /\ ShortGaps(tubes'[k].entries)
    BY <1>7 DEF Contiguous, GapBound, WellFormed, ShortGaps
  <2>1. CASE k \in 1..n
    BY <2>1, <1>2, <1>7 DEF IInv, Contiguous, GapBound
  <2>2. CASE k = n + 1
    BY <2>2, <1>6, <1>7
  <2> QED BY <2>1, <2>2, <1>10
<1>12. MissCount'
  <2> SUFFICES ASSUME NEW k \in 1..(n + 1)
      PROVE  /\ tubes'[k].end <= now
             /\ tubes'[k].open => tubes'[k].misses = now - tubes'[k].end
    BY <1>1, <1>3, <1>7 DEF MissCount
  <2>1. CASE k \in 1..n
    BY <2>1, <1>1, <1>2, <1>7 DEF IInv, MissCount
  <2>2. CASE k = n + 1
    BY <2>2, <1>3, <1>6, <1>7
  <2> QED BY <2>1, <2>2, <1>10
<1> QED BY <1>9, <1>11, <1>12 DEF IInv

\* Prune and Finish only change open flags; a tube left open has few misses.
Closing(stays) ==
  /\ stays \in [DOMAIN tubes -> BOOLEAN]
  /\ \A i \in DOMAIN tubes : stays[i] => tubes[i].open /\ tubes[i].misses <= MaxMisses
  /\ tubes' = [i \in DOMAIN tubes |-> [tubes[i] EXCEPT !.open = stays[i]]]
  /\ (pc = "start" /\ pc' = "next") \/ (pc = "next" /\ pc' = "done")
  /\ UNCHANGED <<frames, taker>>

LEMMA CloseIInv == ASSUME IInv, NEW stays, Closing(stays) PROVE IInv'
<1> DEFINE closed(i) == [tubes[i] EXCEPT !.open = stays[i]]
<1>1. frames \in Seq(Frame) /\ tubes \in Seq(Tube) /\ taker \in Seq(0..Len(tubes))
  BY DEF IInv, TypeOK
<1>2. now \in Nat /\ now' = now
  BY <1>1 DEF now, Closing
<1>3. ASSUME NEW i \in DOMAIN tubes
      PROVE  /\ closed(i) \in Tube /\ closed(i).misses = tubes[i].misses
             /\ closed(i).entries = tubes[i].entries /\ closed(i).open = stays[i]
             /\ closed(i).start = tubes[i].start /\ closed(i).end = tubes[i].end
  <2>1. tubes[i] \in Tube
    BY <1>1
  <2> QED BY <2>1 DEF Tube, Closing
<1>4. tubes' = [i \in DOMAIN tubes |-> closed(i)]
  BY DEF Closing
<1> HIDE DEF closed
<1>5. ASSUME NEW i \in DOMAIN tubes
      PROVE  /\ tubes'[i] \in Tube /\ tubes'[i].misses = tubes[i].misses
             /\ tubes'[i].entries = tubes[i].entries /\ tubes'[i].open = stays[i]
             /\ tubes'[i].start = tubes[i].start /\ tubes'[i].end = tubes[i].end
  BY <1>3, <1>4
<1>6. tubes' \in Seq(Tube) /\ Len(tubes') = Len(tubes) /\ DOMAIN tubes' = DOMAIN tubes
  <2>1. tubes' = [i \in DOMAIN tubes |-> tubes'[i]]
    BY <1>4
  <2>2. \A i \in DOMAIN tubes : tubes'[i] \in Tube
    BY <1>5
  <2> QED BY <2>1, <2>2, <1>1, MapIsSeq
<1>7. TypeOK'
  BY <1>1, <1>2, <1>6 DEF IInv, TypeOK, Closing
<1>8. Contiguous' /\ GapBound'
  <2> SUFFICES ASSUME NEW k \in DOMAIN tubes
               PROVE  WellFormed(tubes'[k]) /\ ShortGaps(tubes'[k].entries)
    BY <1>6 DEF Contiguous, GapBound, WellFormed, ShortGaps
  <2>1. WellFormed(tubes[k]) /\ ShortGaps(tubes[k].entries)
    BY DEF IInv, Contiguous, GapBound
  <2> QED BY <2>1, <1>5 DEF WellFormed
<1>9. MissCount'
  BY <1>2, <1>5, <1>6 DEF IInv, MissCount, Closing
<1> QED BY <1>7, <1>8, <1>9 DEF IInv

LEMMA PruneIInv == ASSUME IInv, Prune PROVE IInv'
<1> DEFINE stays == [i \in DOMAIN tubes |-> tubes[i].open /\ tubes[i].misses <= MaxMisses]
<1>1. stays \in [DOMAIN tubes -> BOOLEAN]
  OBVIOUS
<1>2. tubes' = [i \in DOMAIN tubes |-> [tubes[i] EXCEPT !.open = stays[i]]]
  BY DEF Prune
<1>3. \A i \in DOMAIN tubes : stays[i] => tubes[i].open /\ tubes[i].misses <= MaxMisses
  OBVIOUS
<1>4. pc = "start" /\ pc' = "next" /\ UNCHANGED <<frames, taker>>
  BY DEF Prune
<1> HIDE DEF stays
<1>5. Closing(stays)
  BY <1>1, <1>2, <1>3, <1>4 DEF Closing
<1> QED BY <1>5, CloseIInv

LEMMA FinishIInv == ASSUME IInv, Finish PROVE IInv'
<1> DEFINE stays == [i \in DOMAIN tubes |-> FALSE]
<1>1. stays \in [DOMAIN tubes -> BOOLEAN]
  OBVIOUS
<1>2. tubes' = [i \in DOMAIN tubes |-> [tubes[i] EXCEPT !.open = stays[i]]]
  BY DEF Finish
<1>3. \A i \in DOMAIN tubes : ~stays[i]
  OBVIOUS
<1>4. pc = "next" /\ pc' = "done" /\ UNCHANGED <<frames, taker>>
  BY DEF Finish
<1> HIDE DEF stays
<1>5. Closing(stays)
  BY <1>1, <1>2, <1>3, <1>4 DEF Closing
<1> QED BY <1>5, CloseIInv

LEMMA NextIInv == IInv /\ [Next]_vars => IInv'
<1> SUFFICES ASSUME IInv, [Next]_vars PROVE IInv'
  OBVIOUS
<1>1. ASSUME NEW dets \in Frame, Read(dets) PROVE IInv'
  BY <1>1, ReadIInv
<1>2. CASE Match
  BY <1>2, MatchIInv
<1>3. CASE Miss
  BY <1>3, MissIInv
<1>4. CASE Start
  BY <1>4, StartIInv
<1>5. CASE Prune
  BY <1>5, PruneIInv
<1>6. CASE Finish
  BY <1>6, FinishIInv
<1>7. CASE UNCHANGED vars
  BY <1>7 DEF vars, IInv, TypeOK, Contiguous, GapBound, MissCount, WellFormed, ShortGaps,
              Taken, now
<1> QED BY <1>1, <1>2, <1>3, <1>4, <1>5, <1>6, <1>7 DEF Next

\* Every state build_tubes reaches satisfies the inductive invariant.
THEOREM Inductive == Spec => []IInv
BY InitIInv, NextIInv, PTL DEF Spec

\* Type correctness, for every set of boxes and every bound.
THEOREM TypeCorrect == Spec => []TypeOK
<1>1. IInv => TypeOK
  BY DEF IInv
<1> QED BY <1>1, Inductive, PTL

\* Whatever it missed and however late its gaps were filled, a tube holds one
\* entry for each frame it spans and is observed at both ends.
THEOREM TubesContiguous == Spec => []Contiguous
<1>1. IInv => Contiguous
  BY DEF IInv
<1> QED BY <1>1, Inductive, PTL

\* No tube carries more than max_misses gaps in a row.
THEOREM GapsBounded == Spec => []GapBound
<1>1. IInv => GapBound
  BY DEF IInv
<1> QED BY <1>1, Inductive, PTL

-----------------------------------------------------------------------------
\* Stability of the greedy matching.  Progress holds all through the loop, because
\* the pair a step takes is ahead of every free pair it makes unavailable.

LEMMA LastOfExtended ==
  ASSUME NEW t \in Tube, WellFormed(t), now \in Nat, t.end < now, NEW j \in Nat, j # Gap
  PROVE  LastDetection(Extended(t, j)) = LastDetection(t)
<1> DEFINE u == Extended(t, j)
           n == Len(t.entries)
           N == now - t.start + 1
           last(S) == CHOOSE m \in S : \A x \in S : x <= m
<1>1. /\ t.start \in Nat /\ t.end \in Nat /\ t.start <= t.end
      /\ n = t.end - t.start + 1
  BY DEF Tube, WellFormed
<1>0. n \in Nat /\ n <= N /\ N = n + (now - t.end) /\ N \in Nat /\ now - t.start = N - 1
      /\ n >= 1
  <2> HIDE DEF n
  <2> QED BY <1>1
<1>2. DOMAIN t.entries = 1..n
  <2>1. t.entries \in Seq(Entry)
    BY DEF Tube
  <2> QED BY <2>1
<1>3. DOMAIN u.entries = 1..N
  <2>1. u \in Tube /\ Len(u.entries) = N
    BY ExtendedShape
  <2> HIDE DEF u, N
  <2> QED BY <2>1 DEF Tube
<1>4. \A k \in 1..n : u.entries[k] = t.entries[k]
  BY ExtendedShape
<1>5. ASSUME NEW k \in (n + 1)..N, u.entries[k].det # Gap
      PROVE  ~(u.entries[k].frame < now)
  <2>1. CASE k = N
    <3>1. u.entries[N] = [frame |-> now, det |-> j]
      BY ExtendedShape
    <3> HIDE DEF u, N
    <3>2. u.entries[N].frame = now
      BY <3>1
    <3> QED BY <2>1, <3>2
  <2>2. CASE k # N
    <3>1. k \in (n + 1)..(now - t.start)
      <4> HIDE DEF n, N
      <4> QED BY <2>2, <1>0
    <3>2. u.entries[k] = [frame |-> t.start + k - 1, det |-> Gap]
      BY <3>1, ExtendedShape
    <3>3. u.entries[k].det = Gap
      BY <3>2
    <3> QED BY <3>3, <1>5
  <2> QED BY <2>1, <2>2
<1>6. n \in 1..n /\ n <= N /\ N \in Nat
  <2> HIDE DEF n, N
  <2> QED BY <1>0
<1>7. t.entries[n].frame < now /\ t.entries[n].det # Gap
  <2>1. t.entries[n].det # Gap /\ t.entries[n].frame = t.start + n - 1
    BY <1>2, <1>6 DEF WellFormed
  <2> HIDE DEF n
  <2> QED BY <2>1, <1>1
<1> HIDE DEF u, n, N
<1>8. Observed(t) = {m \in 1..n : t.entries[m].frame < now /\ t.entries[m].det # Gap}
  BY <1>2 DEF Observed
<1>9. Observed(u) = {m \in 1..N : u.entries[m].frame < now /\ u.entries[m].det # Gap}
  BY <1>3 DEF Observed
<1>10. \A m \in 1..N : m \in 1..n \/ m \in (n + 1)..N
  BY <1>6
<1>11. 1..n \subseteq 1..N
  BY <1>6
<1>12. Observed(u) = Observed(t)
  BY <1>4, <1>5, <1>8, <1>9, <1>10, <1>11
<1>13. n \in Observed(t) /\ \A x \in Observed(t) : x <= n
  BY <1>6, <1>7, <1>8
<1>14. last(Observed(t)) \in Observed(t)
  BY <1>13
<1> DEFINE k == last(Observed(t))
<1>15. LastDetection(t) = frames[t.entries[k].frame][t.entries[k].det]
  BY DEF LastDetection
<1>16. LastDetection(u) = frames[u.entries[k].frame][u.entries[k].det]
  BY <1>12 DEF LastDetection
<1> HIDE DEF last
<1>17. u.entries[k] = t.entries[k]
  BY <1>4, <1>8, <1>14
<1> QED BY <1>15, <1>16, <1>17 DEF u

SInv == IInv /\ Progress /\ StableMatching

\* The pairs and their order do not change while a frame is being matched.
LEMMA SamePairs ==
  ASSUME IInv, frames' = frames, DOMAIN taker' = DOMAIN taker, DOMAIN tubes' = DOMAIN tubes,
         \A i \in DOMAIN tubes :
           /\ tubes'[i].open = tubes[i].open /\ tubes'[i].start = tubes[i].start
           /\ LastDetection(tubes'[i]) = LastDetection(tubes[i])
  PROVE  /\ Pairs' = Pairs
         /\ \A p, q \in Pairs : Ahead(p, q)' <=> Ahead(p, q)
<1>1. now' = now
  BY DEF now
<1>2. \A i \in DOMAIN tubes : LastDetection(tubes[i])' = LastDetection(tubes'[i])
  BY <1>1 DEF LastDetection, Observed
<1>3. \A p \in (DOMAIN tubes) \X (DOMAIN taker) : Overlap(p)' = Overlap(p)
  BY <1>1, <1>2 DEF Overlap
<1>4. Pairs' = Pairs
  BY <1>1, <1>3 DEF Pairs
<1>5. \A p, q \in Pairs : Ahead(p, q)' <=> Ahead(p, q)
  BY <1>3 DEF Ahead, Pairs
<1> QED BY <1>4, <1>5

LEMMA MatchProgress == ASSUME SInv, Match PROVE Progress'
<1>1. PICK m \in Free :
        /\ \A q \in Free : Ahead(m, q)
        /\ tubes' = [tubes EXCEPT ![m[1]] = Extended(tubes[m[1]], m[2])]
        /\ taker' = [taker EXCEPT ![m[2]] = m[1]]
        /\ pc = "match" /\ pc' = "match" /\ frames' = frames
  BY DEF Match
<1> DEFINE i == m[1]
           j == m[2]
<1>2. /\ i \in DOMAIN tubes /\ j \in DOMAIN taker /\ m \in Pairs
      /\ tubes[i].open /\ taker[j] = 0 /\ ~Taken(i)
  BY DEF Free, Pairs
<1>3. /\ frames \in Seq(Frame) /\ tubes \in Seq(Tube) /\ taker \in Seq(0..Len(tubes))
  BY DEF SInv, IInv, TypeOK
<1>4. now \in Nat
  BY <1>3 DEF now
<1>5. DOMAIN tubes = 1..Len(tubes) /\ DOMAIN taker = 1..Len(taker) /\ Len(tubes) \in Nat
  BY <1>3
<1>6. i # 0 /\ j \in Nat /\ j # Gap
  BY <1>2, <1>3, <1>5 DEF Gap
<1>7. tubes[i] \in Tube /\ WellFormed(tubes[i]) /\ tubes[i].end < now
  BY <1>1, <1>2, <1>3, <1>5 DEF SInv, IInv, Contiguous, MissCount
<1> HIDE DEF i, j
<1>8. /\ DOMAIN taker' = DOMAIN taker /\ taker'[j] = i
      /\ \A k \in DOMAIN taker : k # j => taker'[k] = taker[k]
  BY <1>1, <1>2, <1>3 DEF i, j
<1>9. /\ DOMAIN tubes' = DOMAIN tubes /\ tubes'[i] = Extended(tubes[i], j)
      /\ \A k \in DOMAIN tubes : k # i => tubes'[k] = tubes[k]
  BY <1>1, <1>2, <1>3 DEF i, j
<1>10. /\ Extended(tubes[i], j).open = tubes[i].open
       /\ Extended(tubes[i], j).start = tubes[i].start
       /\ LastDetection(Extended(tubes[i], j)) = LastDetection(tubes[i])
  BY <1>4, <1>6, <1>7, ExtendedShape, LastOfExtended
<1>11. \A k \in DOMAIN tubes :
         /\ tubes'[k].open = tubes[k].open /\ tubes'[k].start = tubes[k].start
         /\ LastDetection(tubes'[k]) = LastDetection(tubes[k])
  BY <1>9, <1>10
<1>12. Pairs' = Pairs /\ \A p, q \in Pairs : Ahead(p, q)' <=> Ahead(p, q)
  BY <1>1, <1>8, <1>9, <1>11, SamePairs DEF SInv
<1> SUFFICES ASSUME NEW p \in Pairs PROVE (p \in Free)' \/ Settled(p)'
  BY <1>12 DEF Progress
<1>13. p \in (DOMAIN tubes) \X (DOMAIN taker)
  BY DEF Pairs
<1>14. CASE Settled(p)
  <2>1. PICK q \in Pairs : /\ taker[q[2]] = q[1]
                           /\ q[1] = p[1] \/ q[2] = p[2]
                           /\ Ahead(q, p)
    BY <1>14 DEF Settled
  <2>2. q[1] \in DOMAIN tubes /\ q[2] \in DOMAIN taker
    BY DEF Pairs
  <2>3. q[2] # j
    BY <2>1, <2>2, <1>2, <1>5
  <2>4. taker'[q[2]] = q[1]
    BY <2>1, <2>2, <2>3, <1>8
  <2> QED BY <2>1, <2>4, <1>12 DEF Settled
<1>15. CASE p \in Free /\ (p[1] = i \/ p[2] = j)
  <2>1. Ahead(m, p)
    BY <1>1, <1>15
  <2> QED BY <2>1, <1>2, <1>8, <1>12, <1>15 DEF Settled, i, j
<1>16. CASE p \in Free /\ p[1] # i /\ p[2] # j
  <2>1. taker[p[2]] = 0 /\ ~Taken(p[1])
    BY <1>16 DEF Free
  <2>2. taker'[p[2]] = 0
    BY <2>1, <1>8, <1>13, <1>16
  <2>3. ~Taken(p[1])'
    BY <2>1, <1>8, <1>16 DEF Taken
  <2> QED BY <2>2, <2>3, <1>12 DEF Free
<1>17. p \in Free \/ Settled(p)
  BY <1>1 DEF SInv, Progress
<1> QED BY <1>14, <1>15, <1>16, <1>17

LEMMA ReadProgress == ASSUME SInv, NEW dets \in Frame, Read(dets) PROVE Progress'
<1>1. tubes' = tubes /\ taker' = [j \in DOMAIN dets |-> 0] /\ tubes \in Seq(Tube)
  BY DEF Read, SInv, IInv, TypeOK
<1>2. \A i \in DOMAIN tubes : i # 0
  BY <1>1
<1>3. \A i \in DOMAIN tubes : ~Taken(i)'
  BY <1>1, <1>2 DEF Taken
<1> SUFFICES ASSUME NEW p \in Pairs' PROVE (p \in Free)'
  BY DEF Progress
<1>4. p[1] \in DOMAIN tubes /\ p[2] \in DOMAIN dets
  BY <1>1 DEF Pairs
<1> QED BY <1>1, <1>3, <1>4 DEF Free

LEMMA MissStable == ASSUME SInv, Miss PROVE StableMatching'
<1>1. /\ pc = "match" /\ frames' = frames /\ taker' = taker /\ Free = {}
      /\ DOMAIN tubes' = DOMAIN tubes
  BY DEF Miss
<1>2. ASSUME NEW i \in DOMAIN tubes
      PROVE  /\ tubes'[i].open = tubes[i].open /\ tubes'[i].start = tubes[i].start
             /\ tubes'[i].entries = tubes[i].entries
  <2>1. tubes[i] \in Tube
    BY DEF SInv, IInv, TypeOK
  <2>2. tubes'[i] = tubes[i] \/ tubes'[i] = [tubes[i] EXCEPT !.misses = tubes[i].misses + 1]
    BY DEF Miss
  <2> QED BY <2>1, <2>2 DEF Tube
<1>3. \A i \in DOMAIN tubes : LastDetection(tubes'[i]) = LastDetection(tubes[i])
  BY <1>2 DEF LastDetection, Observed
<1>4. Pairs' = Pairs /\ \A p, q \in Pairs : Ahead(p, q)' <=> Ahead(p, q)
  BY <1>1, <1>2, <1>3, SamePairs DEF SInv
<1>5. \A p \in Pairs : Settled(p)
  BY <1>1 DEF SInv, Progress
<1>6. \A p \in Pairs : Settled(p)'
  BY <1>1, <1>4, <1>5 DEF Settled
<1> QED BY <1>4, <1>6 DEF StableMatching

LEMMA StartStable == ASSUME SInv, Start PROVE StableMatching'
<1>1. PICK j \in DOMAIN taker :
        /\ taker[j] = 0
        /\ tubes' = Append(tubes, NewTube(j))
        /\ taker' = [taker EXCEPT ![j] = Len(tubes) + 1]
        /\ pc = "start" /\ frames' = frames
  BY DEF Start
<1> DEFINE n == Len(tubes)
<1>2. /\ tubes \in Seq(Tube) /\ n \in Nat /\ DOMAIN tubes = 1..n
  BY DEF SInv, IInv, TypeOK
<1>3. IInv' /\ DOMAIN taker' = DOMAIN taker /\ now' = now
  BY <1>1, StartIInv DEF SInv, now
<1>4. tubes' \in Seq(Tube)
  BY <1>3 DEF IInv, TypeOK
<1>5. /\ DOMAIN tubes' = 1..(n + 1) /\ tubes'[n + 1] = NewTube(j)
      /\ \A k \in 1..n : tubes'[k] = tubes[k]
  BY <1>1, <1>2, <1>4
<1> HIDE DEF n
<1>6. \A k \in 1..(n + 1) : k \in 1..n \/ k = n + 1
  BY <1>2
<1>7. 1..n \subseteq 1..(n + 1)
  BY <1>2
<1>8. tubes'[n + 1].start = now
  BY <1>5 DEF NewTube
<1>9. ASSUME NEW i \in 1..n
      PROVE  LastDetection(tubes[i])' = LastDetection(tubes[i])
  <2>1. tubes'[i].entries = tubes[i].entries
    BY <1>5
  <2>2. Observed(tubes[i])' = Observed(tubes[i])
    BY <1>3, <2>1 DEF Observed
  <2>3. frames' = frames
    BY <1>1
  <2> QED BY <2>1, <2>2, <2>3 DEF LastDetection
<1>10. \A p \in (1..n) \X (DOMAIN taker) : Overlap(p)' = Overlap(p)
  BY <1>1, <1>3, <1>9 DEF Overlap
<1>11. Pairs' = Pairs
  <2>1. now \in Nat
    BY DEF SInv, IInv, TypeOK, now
  <2>2. \A p \in Pairs' : p[1] \in 1..n
    <3> TAKE p \in Pairs'
    <3>1. p[1] \in 1..(n + 1) /\ tubes'[p[1]].start < now
      BY <1>3, <1>5 DEF Pairs
    <3> QED BY <2>1, <3>1, <1>6, <1>8
  <2> QED BY <2>2, <1>2, <1>3, <1>5, <1>7, <1>10 DEF Pairs
<1>12. \A p, q \in Pairs : Ahead(p, q)' <=> Ahead(p, q)
  BY <1>2, <1>10 DEF Ahead, Pairs
<1> SUFFICES ASSUME NEW p \in Pairs PROVE Settled(p)'
  BY <1>11 DEF StableMatching
<1>13. PICK q \in Pairs : taker[q[2]] = q[1] /\ (q[1] = p[1] \/ q[2] = p[2]) /\ Ahead(q, p)
  BY <1>1 DEF SInv, StableMatching, Settled
<1>14. q[1] \in 1..n /\ q[2] \in DOMAIN taker /\ q[1] # 0
  BY <1>2 DEF Pairs
<1>15. taker'[q[2]] = q[1]
  BY <1>1, <1>13, <1>14
<1> QED BY <1>11, <1>12, <1>13, <1>15 DEF Settled

LEMMA NextSInv == SInv /\ [Next]_vars => SInv'
<1> SUFFICES ASSUME SInv, [Next]_vars PROVE SInv'
  OBVIOUS
<1>1. IInv'
  BY NextIInv DEF SInv
<1>2. ASSUME NEW dets \in Frame, Read(dets) PROVE Progress' /\ StableMatching'
  BY <1>2, ReadProgress DEF Read, StableMatching
<1>3. ASSUME Match PROVE Progress' /\ StableMatching'
  BY <1>3, MatchProgress DEF Match, StableMatching
<1>4. ASSUME Miss PROVE Progress' /\ StableMatching'
  BY <1>4, MissStable DEF Miss, Progress
<1>5. ASSUME Start PROVE Progress' /\ StableMatching'
  BY <1>5, StartStable DEF Start, Progress
<1>6. ASSUME Prune PROVE Progress' /\ StableMatching'
  BY <1>6 DEF Prune, Progress, StableMatching
<1>7. ASSUME Finish PROVE Progress' /\ StableMatching'
  BY <1>7 DEF Finish, Progress, StableMatching
<1>8. ASSUME UNCHANGED vars PROVE Progress' /\ StableMatching'
  <2>1. /\ pc' = pc /\ frames' = frames /\ tubes' = tubes /\ taker' = taker /\ now' = now
    BY <1>8 DEF vars, now
  <2>2. \A i \in DOMAIN tubes : LastDetection(tubes[i])' = LastDetection(tubes[i])
    BY <2>1 DEF LastDetection, Observed
  <2>3. \A p \in (DOMAIN tubes) \X (DOMAIN taker) : Overlap(p)' = Overlap(p)
    BY <2>1, <2>2 DEF Overlap
  <2>4. Pairs' = Pairs
    BY <2>1, <2>3 DEF Pairs
  <2>5. \A p, q \in Pairs : Ahead(p, q)' <=> Ahead(p, q)
    BY <2>3 DEF Ahead, Pairs
  <2>6. \A p \in Pairs : Settled(p) => Settled(p)'
    BY <2>1, <2>4, <2>5 DEF Settled
  <2>7. Free' = Free
    BY <2>1, <2>4 DEF Free, Taken
  <2> QED BY <2>1, <2>4, <2>6, <2>7 DEF SInv, Progress, StableMatching
<1> QED BY <1>1, <1>2, <1>3, <1>4, <1>5, <1>6, <1>7, <1>8 DEF Next, SInv

\* When the loop over pairs ends no tube and detection would both rather have
\* each other, whatever the overlaps and however they tie.
THEOREM MatchingStable == Spec => []StableMatching
<1>1. Init => SInv
  <2> SUFFICES ASSUME Init PROVE SInv
    OBVIOUS
  <2>1. IInv
    BY InitIInv
  <2> QED BY <2>1 DEF SInv, Init, Progress, StableMatching
<1>2. SInv => StableMatching
  BY DEF SInv
<1> QED BY <1>1, <1>2, NextSInv, PTL DEF Spec
-----------------------------------------------------------------------------
\* What the actions do to the tubes, step by step.

\* An action that changes no tube's entries, and no closed tube at all.
Untouched ==
  /\ DOMAIN tubes' = DOMAIN tubes
  /\ \A i \in DOMAIN tubes :
       /\ tubes'[i].entries = tubes[i].entries
       /\ ~tubes[i].open => tubes'[i] = tubes[i]

\* An action that extends one open tube by detection j of this frame.
Extending(i, j) ==
  /\ i \in DOMAIN tubes /\ tubes[i].open /\ j \in DOMAIN taker
  /\ taker[j] = 0 /\ ~Taken(i)
  /\ Overlap(<<i, j>>) >= IouThreshold
  /\ pc = "match" /\ pc' = "match" /\ frames' = frames
  /\ DOMAIN tubes' = DOMAIN tubes /\ DOMAIN taker' = DOMAIN taker
  /\ tubes'[i] = Extended(tubes[i], j) /\ taker'[j] = i
  /\ \A k \in DOMAIN tubes : k # i => tubes'[k] = tubes[k]
  /\ \A k \in DOMAIN taker : k # j => taker'[k] = taker[k]

\* An action that starts a tube on detection j of this frame.
Starting(j) ==
  /\ j \in DOMAIN taker /\ taker[j] = 0
  /\ pc = "start" /\ pc' = "start" /\ frames' = frames
  /\ DOMAIN tubes = 1..Len(tubes) /\ DOMAIN tubes' = 1..(Len(tubes) + 1)
  /\ DOMAIN taker' = DOMAIN taker
  /\ tubes'[Len(tubes) + 1] = NewTube(j) /\ taker'[j] = Len(tubes) + 1
  /\ \A k \in DOMAIN tubes : tubes'[k] = tubes[k]
  /\ \A k \in DOMAIN taker : k # j => taker'[k] = taker[k]
-----------------------------------------------------------------------------
LEMMA MatchExtends == ASSUME IInv, Match PROVE \E i \in DOMAIN tubes : \E j \in DOMAIN taker : Extending(i, j)
<1>1. PICK p \in Free :
        /\ tubes' = [tubes EXCEPT ![p[1]] = Extended(tubes[p[1]], p[2])]
        /\ taker' = [taker EXCEPT ![p[2]] = p[1]]
        /\ pc = "match" /\ pc' = "match" /\ frames' = frames
  BY DEF Match
<1>2. /\ p[1] \in DOMAIN tubes /\ p[2] \in DOMAIN taker /\ p = <<p[1], p[2]>>
      /\ tubes[p[1]].open /\ taker[p[2]] = 0 /\ ~Taken(p[1])
      /\ Overlap(p) >= IouThreshold
  BY DEF Free, Pairs
<1>3. tubes \in Seq(Tube) /\ taker \in Seq(0..Len(tubes))
  BY DEF IInv, TypeOK
<1>4. Extending(p[1], p[2])
  BY <1>1, <1>2, <1>3 DEF Extending
<1> QED BY <1>2, <1>4

LEMMA StartStarts == ASSUME IInv, Start PROVE \E j \in DOMAIN taker : Starting(j)
<1>1. PICK j \in DOMAIN taker :
        /\ taker[j] = 0
        /\ tubes' = Append(tubes, NewTube(j))
        /\ taker' = [taker EXCEPT ![j] = Len(tubes) + 1]
        /\ pc = "start" /\ pc' = "start" /\ frames' = frames
  BY DEF Start
<1>2. tubes \in Seq(Tube) /\ taker \in Seq(0..Len(tubes)) /\ tubes' \in Seq(Tube)
  BY StartIInv DEF IInv, TypeOK
<1>3. DOMAIN taker' = DOMAIN taker /\ taker'[j] = Len(tubes) + 1
      /\ \A k \in DOMAIN taker : k # j => taker'[k] = taker[k]
  BY <1>1, <1>2
<1> DEFINE n == Len(tubes)
           t == NewTube(j)
<1>4. n \in Nat /\ DOMAIN tubes = 1..n
  BY <1>2
<1>5. tubes' = Append(tubes, t)
  BY <1>1
<1> HIDE DEF t
<1>6. DOMAIN tubes' = 1..(n + 1) /\ tubes'[n + 1] = t
      /\ \A k \in 1..n : tubes'[k] = tubes[k]
  BY <1>2, <1>5
<1> QED BY <1>1, <1>3, <1>4, <1>6 DEF Starting, t

\* Every step that neither extends nor starts a tube.
LEMMA OthersUntouched ==
  ASSUME IInv,
         (\E dets \in Frame : Read(dets)) \/ Miss \/ Prune \/ Finish \/ UNCHANGED vars
  PROVE  Untouched
<1>1. tubes \in Seq(Tube)
  BY DEF IInv, TypeOK
<1>2. \A i \in DOMAIN tubes : tubes[i] \in Tube
  BY <1>1
<1>3. ASSUME NEW t \in Tube, NEW b
      PROVE  LET u == [t EXCEPT !.open = b] IN u.entries = t.entries /\ (b = t.open => u = t)
  BY DEF Tube
<1>4. ASSUME NEW t \in Tube
      PROVE  [t EXCEPT !.misses = @ + 1].entries = t.entries
  BY DEF Tube
<1>5. CASE Miss
  BY <1>2, <1>4, <1>5 DEF Miss, Untouched
<1>6. ASSUME Prune \/ Finish PROVE Untouched
  <2>1. ASSUME NEW i \in DOMAIN tubes
        PROVE  tubes'[i].entries = tubes[i].entries /\ (~tubes[i].open => tubes'[i] = tubes[i])
    <3>1. PICK b \in BOOLEAN : tubes'[i] = [tubes[i] EXCEPT !.open = b] /\ (~tubes[i].open => b = FALSE)
      <4>1. tubes[i].open \in BOOLEAN /\ tubes[i] \in Tube
        BY <1>2 DEF Tube
      <4>2. CASE Prune
        <5>1. tubes'[i] = [tubes[i] EXCEPT !.open = tubes[i].open /\ tubes[i].misses <= MaxMisses]
          BY <4>2 DEF Prune
        <5> QED BY <4>1, <5>1
      <4>3. CASE Finish
        BY <4>3 DEF Finish
      <4> QED BY <1>6, <4>2, <4>3
    <3>2. tubes[i] \in Tube /\ tubes[i].open \in BOOLEAN
      BY <1>2 DEF Tube
    <3> QED BY <1>3, <3>1, <3>2
  <2> QED BY <1>6, <2>1 DEF Prune, Finish, Untouched
<1>7. ASSUME tubes' = tubes PROVE Untouched
  BY <1>7 DEF Untouched
<1> QED BY <1>5, <1>6, <1>7 DEF Read, vars

LEMMA Steps ==
  ASSUME IInv, [Next]_vars
  PROVE  \/ Untouched
         \/ \E i \in DOMAIN tubes : \E j \in DOMAIN taker : Extending(i, j)
         \/ \E j \in DOMAIN taker : Starting(j)
BY MatchExtends, StartStarts, OthersUntouched DEF Next
-----------------------------------------------------------------------------
LEMMA Prefix ==
  ASSUME NEW t \in Tube, NEW u \in Tube, Len(t.entries) <= Len(u.entries),
         \A k \in 1..Len(t.entries) : u.entries[k] = t.entries[k]
  PROVE  SubSeq(u.entries, 1, Len(t.entries)) = t.entries
<1> DEFINE s == t.entries
           r == SubSeq(u.entries, 1, Len(s))
<1>1. s \in Seq(Entry) /\ Len(s) \in Nat /\ \A k \in 1..Len(s) : s[k] \in Entry
  BY DEF Tube
<1>2. \A k \in 1..Len(s) : u.entries[k] \in Entry /\ u.entries[k] = s[k]
  BY <1>1
<1> HIDE DEF s
<1>3. /\ r \in Seq(Entry) /\ Len(r) = IF 1 <= Len(s) THEN Len(s) - 1 + 1 ELSE 0
      /\ \A k \in 1..(Len(s) - 1 + 1) : r[k] = u.entries[1 + k - 1]
  BY <1>1, <1>2, SubSeqProperties
<1> HIDE DEF r
<1>4. Len(r) = Len(s) /\ \A k \in 1..Len(s) : r[k] = s[k]
  BY <1>1, <1>2, <1>3
<1> QED BY <1>1, <1>3, <1>4, SeqEqual DEF r, s

\* What is known of a tube that is extended.
LEMMA Extendable ==
  ASSUME IInv, NEW i \in DOMAIN tubes, NEW j \in DOMAIN taker, Extending(i, j)
  PROVE  /\ tubes[i] \in Tube /\ WellFormed(tubes[i])
         /\ now \in Nat /\ tubes[i].end < now /\ j \in Nat /\ j # Gap
<1>1. tubes \in Seq(Tube) /\ frames \in Seq(Frame) /\ taker \in Seq(0..Len(tubes))
  BY DEF IInv, TypeOK
<1>2. tubes[i] \in Tube /\ WellFormed(tubes[i]) /\ tubes[i].end < now
  BY <1>1 DEF IInv, Contiguous, MissCount, Extending
<1>3. now \in Nat /\ j \in Nat /\ j # Gap
  BY <1>1 DEF now, Gap
<1> QED BY <1>2, <1>3

\* A step adds tubes behind the others and entries behind those a tube has, and does
\* not touch a finished tube, whichever indices the lists of the code have by then.
THEOREM TubesOnlyGrow == Spec => AppendOnly
<1> DEFINE Kept(i) == /\ i \in DOMAIN tubes'
                      /\ ~tubes[i].open => tubes'[i] = tubes[i]
                      /\ SubSeq(tubes'[i].entries, 1, Len(tubes[i].entries)) = tubes[i].entries
<1>1. ASSUME IInv, [Next]_vars PROVE \A i \in DOMAIN tubes : Kept(i)
  <2>1. ASSUME NEW i \in DOMAIN tubes
        PROVE  SubSeq(tubes[i].entries, 1, Len(tubes[i].entries)) = tubes[i].entries
    <3>1. tubes[i] \in Tube
      BY <1>1 DEF IInv, TypeOK
    <3>2. tubes[i].entries \in Seq(Entry)
      BY <3>1 DEF Tube
    <3> QED BY <3>2, SubSeqFull
  <2>2. CASE Untouched
    BY <2>1, <2>2 DEF Untouched
  <2>3. ASSUME NEW i \in DOMAIN tubes, NEW j \in DOMAIN taker, Extending(i, j)
        PROVE  \A k \in DOMAIN tubes : Kept(k)
    <3>1. /\ tubes[i] \in Tube /\ WellFormed(tubes[i])
          /\ now \in Nat /\ tubes[i].end < now /\ j \in Nat /\ j # Gap
      BY <1>1, <2>3, Extendable
    <3> DEFINE u == Extended(tubes[i], j)
    <3>2. /\ u \in Tube
          /\ Len(tubes[i].entries) = tubes[i].end - tubes[i].start + 1
          /\ Len(u.entries) = now - tubes[i].start + 1
          /\ \A k \in 1..Len(tubes[i].entries) : u.entries[k] = tubes[i].entries[k]
      BY <3>1, ExtendedShape
    <3> HIDE DEF u
    <3>3. Len(tubes[i].entries) <= Len(u.entries)
      BY <3>1, <3>2 DEF Tube
    <3>4. SubSeq(u.entries, 1, Len(tubes[i].entries)) = tubes[i].entries
      BY <3>1, <3>2, <3>3, Prefix
    <3>5. tubes[i].open /\ tubes'[i] = u
      BY <2>3 DEF Extending, u
    <3> QED BY <2>1, <2>3, <3>4, <3>5 DEF Extending
  <2>4. ASSUME NEW j \in DOMAIN taker, Starting(j)
        PROVE  \A k \in DOMAIN tubes : Kept(k)
    <3>1. Len(tubes) \in Nat
      BY <1>1 DEF IInv, TypeOK
    <3>2. \A k \in 1..Len(tubes) : k \in 1..(Len(tubes) + 1)
      BY <3>1
    <3> QED BY <2>1, <2>4, <3>2 DEF Starting
  <2> QED BY <1>1, <2>2, <2>3, <2>4, Steps
<1>2. IInv /\ [Next]_vars => [\A i \in DOMAIN tubes : Kept(i)]_vars
  BY <1>1
<1> QED BY <1>2, Inductive, PTL DEF Spec, AppendOnly
-----------------------------------------------------------------------------
\* Detection j of frame f is in a sequence of entries; is in exactly one tube.
Has(es, f, j) == \E k \in DOMAIN es : es[k] = [frame |-> f, det |-> j]
InOne(ts, f, j) ==
  \E i \in DOMAIN ts :
    /\ Has(ts[i].entries, f, j)
    /\ \A m \in DOMAIN ts : Has(ts[m].entries, f, j) => m = i

\* Detections of earlier frames are in one tube each; those of the frame being matched
\* are in the tube that took them, if any, and in no other.
PartInv ==
  /\ \A f \in DOMAIN frames : \A j \in DOMAIN frames[f] :
       f < now \/ pc = "next" => InOne(tubes, f, j)
  /\ pc \in {"match", "start"} =>
       \A j \in DOMAIN taker : \A i \in DOMAIN tubes :
         Has(tubes[i].entries, now, j) <=> taker[j] = i

LEMMA SameHolders ==
  ASSUME Untouched, NEW f, NEW j
  PROVE  /\ InOne(tubes, f, j) => InOne(tubes', f, j)
         /\ \A i \in DOMAIN tubes : Has(tubes'[i].entries, f, j) <=> Has(tubes[i].entries, f, j)
BY DEF Untouched, InOne, Has

\* An entry's place follows from its frame, and no entry is of a later frame.
LEMMA PlaceOfEntry ==
  ASSUME IInv, NEW i \in DOMAIN tubes, NEW k \in DOMAIN tubes[i].entries
  PROVE  /\ k \in Nat /\ tubes[i].start \in Nat /\ tubes[i].start >= 1
         /\ tubes[i].entries[k].frame = tubes[i].start + k - 1
         /\ tubes[i].entries[k].frame \in 1..now
<1>1. tubes[i] \in Tube /\ WellFormed(tubes[i]) /\ tubes[i].end <= now
  BY DEF IInv, TypeOK, Contiguous, MissCount
<1>2. now \in Nat
  BY DEF IInv, TypeOK, now
<1>3. /\ tubes[i].start \in Nat /\ tubes[i].end \in Nat /\ tubes[i].entries \in Seq(Entry)
  BY <1>1 DEF Tube
<1>4. /\ tubes[i].start >= 1 /\ Len(tubes[i].entries) = tubes[i].end - tubes[i].start + 1
      /\ tubes[i].entries[k].frame = tubes[i].start + k - 1
  BY <1>1, <1>3 DEF WellFormed
<1>5. k \in 1..Len(tubes[i].entries)
  BY <1>3
<1>6. PICK a \in Nat, b \in Nat, m \in Nat :
        a = tubes[i].start /\ b = tubes[i].end /\ m = now /\ a >= 1 /\ b <= m
  BY <1>1, <1>2, <1>3, <1>4
<1>7. k \in 1..(b - a + 1)
  BY <1>4, <1>5, <1>6
<1>8. k \in Nat /\ a + k - 1 \in 1..m
  BY <1>6, <1>7
<1> QED BY <1>4, <1>6, <1>8

\* What a tube holds after it was extended.
LEMMA ExtendedHas ==
  ASSUME NEW t \in Tube, WellFormed(t), now \in Nat, t.end < now, NEW j \in Nat, j # Gap,
         NEW f \in Nat, NEW d \in Nat, d # Gap
  PROVE  Has(Extended(t, j).entries, f, d) <=> Has(t.entries, f, d) \/ (f = now /\ d = j)
<1> DEFINE u == Extended(t, j)
           n == Len(t.entries)
           N == now - t.start + 1
<1>1. /\ u \in Tube /\ n = t.end - t.start + 1 /\ Len(u.entries) = N
      /\ \A k \in 1..n : u.entries[k] = t.entries[k]
      /\ \A k \in (n + 1)..(now - t.start) :
           u.entries[k] = [frame |-> t.start + k - 1, det |-> Gap]
      /\ u.entries[N] = [frame |-> now, det |-> j]
  BY ExtendedShape
<1>2. /\ t.start \in Nat /\ t.end \in Nat /\ t.start <= t.end
  BY DEF Tube, WellFormed
<1>3. t.entries \in Seq(Entry) /\ u.entries \in Seq(Entry)
  BY <1>1 DEF Tube
<1>4. DOMAIN t.entries = 1..n /\ DOMAIN u.entries = 1..N
  BY <1>1, <1>3
<1>5. n \in Nat
  BY <1>3
<1> HIDE DEF u, n, N
<1>6. now - t.start + 1 = N
  BY DEF N
<1>7. /\ N \in Nat /\ n < N /\ N \in 1..N
      /\ \A k \in 1..N : k \in 1..n \/ k \in (n + 1)..(now - t.start) \/ k = N
      /\ \A k \in 1..n : k \in 1..N
  <2>1. PICK a \in Nat, b \in Nat, m \in Nat : a = t.start /\ b = t.end /\ m = now /\ b < m /\ a <= b
    BY <1>2
  <2>2. PICK x \in Nat, y \in Int : x = n /\ y = N /\ x = b - a + 1 /\ y = m - a + 1
    <3>1. n = b - a + 1
      BY <1>1, <2>1
    <3>2. N = m - a + 1
      BY <1>6, <2>1
    <3>3. m - a + 1 \in Int
      OBVIOUS
    <3> QED BY <1>5, <3>1, <3>2, <3>3
  <2>3. /\ y \in Nat /\ x < y /\ y \in 1..y
        /\ \A k \in 1..y : k \in 1..x \/ k \in (x + 1)..(m - a) \/ k = y
        /\ \A k \in 1..x : k \in 1..y
    BY <2>1, <2>2
  <2> QED BY <2>1, <2>2, <2>3
<1>8. ASSUME Has(t.entries, f, d) PROVE Has(u.entries, f, d)
  BY <1>1, <1>4, <1>7, <1>8 DEF Has
<1>9. ASSUME f = now, d = j PROVE Has(u.entries, f, d)
  BY <1>1, <1>4, <1>7, <1>9 DEF Has
<1>10. ASSUME Has(u.entries, f, d) PROVE Has(t.entries, f, d) \/ (f = now /\ d = j)
  <2>1. PICK k \in 1..N : u.entries[k] = [frame |-> f, det |-> d]
    BY <1>4, <1>10 DEF Has
  <2>2. CASE k \in 1..n
    BY <1>1, <1>4, <2>1, <2>2 DEF Has
  <2>3. CASE k \in (n + 1)..(now - t.start)
    <3>1. u.entries[k] = [frame |-> t.start + k - 1, det |-> Gap]
      BY <1>1, <2>3
    <3>2. u.entries[k].det = Gap /\ u.entries[k].det = d
      BY <2>1, <3>1
    <3> QED BY <3>2
  <2>4. CASE k = N
    <3>1. u.entries[k].frame = now /\ u.entries[k].det = j
      BY <1>1, <2>4
    <3>2. u.entries[k].frame = f /\ u.entries[k].det = d
      BY <2>1
    <3> QED BY <3>1, <3>2
  <2> QED BY <1>7, <2>2, <2>3, <2>4
<1> QED BY <1>8, <1>9, <1>10 DEF u

LEMMA ExtendPart ==
  ASSUME IInv, PartInv, NEW i \in DOMAIN tubes, NEW j \in DOMAIN taker, Extending(i, j)
  PROVE  PartInv'
<1>1. /\ tubes[i] \in Tube /\ WellFormed(tubes[i])
      /\ now \in Nat /\ tubes[i].end < now /\ j \in Nat /\ j # Gap
  BY Extendable
<1>2. /\ frames' = frames /\ now' = now /\ pc = "match" /\ pc' = "match"
      /\ DOMAIN tubes' = DOMAIN tubes /\ DOMAIN taker' = DOMAIN taker
      /\ tubes'[i] = Extended(tubes[i], j) /\ taker'[j] = i
      /\ \A k \in DOMAIN tubes : k # i => tubes'[k] = tubes[k]
      /\ \A k \in DOMAIN taker : k # j => taker'[k] = taker[k]
      /\ taker[j] = 0 /\ ~Taken(i)
  BY DEF Extending, now
<1>3. frames \in Seq(Frame) /\ taker \in Seq(0..Len(tubes)) /\ tubes \in Seq(Tube)
  BY DEF IInv, TypeOK
<1>4. ASSUME NEW f \in Nat, NEW d \in Nat, d # Gap, NEW k \in DOMAIN tubes
      PROVE  Has(tubes'[k].entries, f, d)
               <=> Has(tubes[k].entries, f, d) \/ (k = i /\ f = now /\ d = j)
  <2>1. CASE k = i
    BY <1>1, <1>2, <1>4, <2>1, ExtendedHas
  <2>2. CASE k # i
    BY <1>2, <2>2
  <2> QED BY <2>1, <2>2
<1>5. ASSUME NEW f \in DOMAIN frames, NEW d \in DOMAIN frames[f], f < now
      PROVE  InOne(tubes', f, d)
  <2>1. frames[f] \in Frame /\ f \in Nat
    BY <1>3
  <2>2. d \in Nat /\ d # Gap
    BY <2>1, FrameIsSeq DEF Gap
  <2>3. InOne(tubes, f, d)
    BY <1>5 DEF PartInv
  <2>4. f # now
    BY <1>1, <1>5, <2>1
  <2>5. \A k \in DOMAIN tubes : Has(tubes'[k].entries, f, d) <=> Has(tubes[k].entries, f, d)
    BY <1>4, <2>1, <2>2, <2>4
  <2> QED BY <1>2, <2>3, <2>5 DEF InOne
<1>6. ASSUME NEW d \in DOMAIN taker, NEW k \in DOMAIN tubes
      PROVE  Has(tubes'[k].entries, now, d) <=> taker'[d] = k
  <2>1. d \in Nat /\ d # Gap
    BY <1>3 DEF Gap
  <2>2. Has(tubes[k].entries, now, d) <=> taker[d] = k
    BY <1>2 DEF PartInv
  <2>3. Has(tubes'[k].entries, now, d) <=> taker[d] = k \/ (k = i /\ d = j)
    BY <1>1, <1>4, <2>1, <2>2
  <2>4. k # 0
    BY <1>3
  <2>5. CASE d = j
    BY <1>2, <2>3, <2>4, <2>5
  <2>6. CASE d # j
    BY <1>2, <2>3, <2>6 DEF Taken
  <2> QED BY <2>5, <2>6
<1> QED BY <1>2, <1>5, <1>6 DEF PartInv

LEMMA StartPart ==
  ASSUME IInv, PartInv, NEW j \in DOMAIN taker, Starting(j)
  PROVE  PartInv'
<1> DEFINE n == Len(tubes)
<1>1. /\ frames \in Seq(Frame) /\ taker \in Seq(0..n) /\ tubes \in Seq(Tube)
      /\ n \in Nat /\ now \in Nat
  BY DEF IInv, TypeOK, now
<1>2. /\ frames' = frames /\ now' = now /\ pc = "start" /\ pc' = "start"
      /\ DOMAIN tubes = 1..n /\ DOMAIN tubes' = 1..(n + 1) /\ DOMAIN taker' = DOMAIN taker
      /\ tubes'[n + 1] = NewTube(j) /\ taker'[j] = n + 1
      /\ \A k \in 1..n : tubes'[k] = tubes[k]
      /\ \A k \in DOMAIN taker : k # j => taker'[k] = taker[k]
      /\ taker[j] = 0
  BY DEF Starting, now
<1> HIDE DEF n
<1>3. /\ \A k \in 1..(n + 1) : k \in 1..n \/ k = n + 1
      /\ \A k \in 1..n : k \in 1..(n + 1) /\ k # n + 1 /\ k # 0
      /\ n + 1 \in 1..(n + 1)
  BY <1>1
<1>4. ASSUME NEW f, NEW d
      PROVE  Has(tubes'[n + 1].entries, f, d) <=> f = now /\ d = j
  <2>1. tubes'[n + 1].entries = <<[frame |-> now, det |-> j]>>
    BY <1>2 DEF NewTube
  <2>2. Has(<<[frame |-> now, det |-> j]>>, f, d)
          <=> [frame |-> now, det |-> j] = [frame |-> f, det |-> d]
    BY DEF Has
  <2>3. ASSUME [frame |-> now, det |-> j] = [frame |-> f, det |-> d] PROVE f = now /\ d = j
    <3>1. [frame |-> now, det |-> j].frame = [frame |-> f, det |-> d].frame
          /\ [frame |-> now, det |-> j].det = [frame |-> f, det |-> d].det
      BY <2>3
    <3> QED BY <3>1
  <2> QED BY <2>1, <2>2, <2>3
<1>5. ASSUME NEW f \in DOMAIN frames, NEW d \in DOMAIN frames[f], f < now
      PROVE  InOne(tubes', f, d)
  <2>1. f # now
    BY <1>1, <1>5
  <2>2. PICK i \in 1..n : /\ Has(tubes[i].entries, f, d)
                          /\ \A m \in 1..n : Has(tubes[m].entries, f, d) => m = i
    BY <1>2, <1>5 DEF PartInv, InOne
  <2>3. i \in 1..(n + 1) /\ Has(tubes'[i].entries, f, d)
    BY <1>2, <1>3, <2>2
  <2>4. ASSUME NEW m \in 1..(n + 1), Has(tubes'[m].entries, f, d) PROVE m = i
    BY <1>2, <1>3, <1>4, <2>1, <2>2, <2>4
  <2> QED BY <1>2, <2>3, <2>4 DEF InOne
<1>6. ASSUME NEW d \in DOMAIN taker, NEW k \in 1..(n + 1)
      PROVE  Has(tubes'[k].entries, now, d) <=> taker'[d] = k
  <2>1. taker[d] \in 0..n
    BY <1>1
  <2>2. taker[d] # n + 1
    BY <1>1, <2>1
  <2>3. CASE k = n + 1
    BY <1>2, <1>4, <2>2, <2>3
  <2>4. CASE k \in 1..n
    <3>1. Has(tubes'[k].entries, now, d) <=> taker[d] = k
      BY <1>2, <2>4 DEF PartInv
    <3> QED BY <1>2, <1>3, <2>4, <3>1
  <2> QED BY <1>3, <2>3, <2>4
<1> QED BY <1>2, <1>5, <1>6 DEF PartInv

LEMMA ReadPart ==
  ASSUME IInv, PartInv, NEW dets \in Frame, Read(dets) PROVE PartInv'
<1>1. /\ frames \in Seq(Frame) /\ tubes \in Seq(Tube) /\ now \in Nat
  BY DEF IInv, TypeOK, now
<1>2. /\ pc = "next" /\ pc' = "match" /\ tubes' = tubes
      /\ frames' = Append(frames, dets) /\ taker' = [j \in DOMAIN dets |-> 0]
  BY DEF Read
<1>3. /\ now' = now + 1 /\ DOMAIN frames = 1..now /\ DOMAIN frames' = 1..(now + 1)
      /\ \A f \in 1..now : frames'[f] = frames[f]
  BY <1>1, <1>2 DEF now
<1>4. ASSUME NEW f \in 1..(now + 1), NEW d \in DOMAIN frames'[f], f < now + 1
      PROVE  InOne(tubes', f, d)
  <2>1. f \in 1..now
    BY <1>1, <1>4
  <2> QED BY <1>2, <1>3, <1>4, <2>1 DEF PartInv
<1>5. ASSUME NEW d \in DOMAIN dets, NEW i \in DOMAIN tubes
      PROVE  ~Has(tubes[i].entries, now + 1, d) /\ taker'[d] # i
  <2>1. \A k \in DOMAIN tubes[i].entries : tubes[i].entries[k].frame \in 1..now
    BY PlaceOfEntry
  <2>2. now + 1 \notin 1..now
    BY <1>1
  <2>3. ASSUME NEW k \in DOMAIN tubes[i].entries,
               tubes[i].entries[k] = [frame |-> now + 1, det |-> d]
        PROVE  FALSE
    <3>1. tubes[i].entries[k].frame = now + 1
      BY <2>3
    <3> QED BY <2>1, <2>2, <3>1
  <2>4. i # 0
    BY <1>1
  <2> QED BY <1>2, <2>3, <2>4 DEF Has
<1> QED BY <1>2, <1>3, <1>4, <1>5 DEF PartInv

LEMMA NextPart == IInv /\ PartInv /\ [Next]_vars => PartInv'
<1> SUFFICES ASSUME IInv, PartInv, [Next]_vars PROVE PartInv'
  OBVIOUS
<1>1. frames \in Seq(Frame) /\ tubes \in Seq(Tube) /\ taker \in Seq(0..Len(tubes)) /\ now \in Nat
      /\ DOMAIN taker = IF now = 0 THEN {} ELSE DOMAIN frames[now]
  BY DEF IInv, TypeOK, now
<1>2. ASSUME NEW dets \in Frame, Read(dets) PROVE PartInv'
  BY <1>2, ReadPart
<1>3. CASE Match
  BY <1>3, MatchExtends, ExtendPart
<1>4. CASE Start
  BY <1>4, StartStarts, StartPart
<1>5. ASSUME Miss PROVE PartInv'
  <2>1. Untouched
    BY <1>5, OthersUntouched
  <2>2. pc = "match" /\ pc' = "start" /\ frames' = frames /\ taker' = taker /\ now' = now
    BY <1>5 DEF Miss, now
  <2> QED BY <2>1, <2>2, SameHolders DEF PartInv, Untouched
<1>6. ASSUME Prune PROVE PartInv'
  <2>1. Untouched
    BY <1>6, OthersUntouched
  <2>2. /\ pc = "start" /\ pc' = "next" /\ frames' = frames /\ now' = now
        /\ \A j \in DOMAIN taker : taker[j] # 0
    BY <1>6 DEF Prune, now
  <2>3. ASSUME NEW f \in DOMAIN frames, NEW d \in DOMAIN frames[f] PROVE InOne(tubes, f, d)
    <3>1. f \in 1..now
      BY <1>1 DEF now
    <3>2. CASE f < now
      BY <3>2 DEF PartInv
    <3>3. CASE f = now
      <4>1. d \in DOMAIN taker
        BY <1>1, <3>1, <3>3
      <4>2. taker[d] \in DOMAIN tubes
        BY <1>1, <2>2, <4>1
      <4>3. \A i \in DOMAIN tubes : Has(tubes[i].entries, f, d) <=> taker[d] = i
        BY <2>2, <3>3, <4>1 DEF PartInv
      <4> QED BY <4>2, <4>3 DEF InOne
    <3> QED BY <1>1, <3>1, <3>2, <3>3
  <2> QED BY <2>1, <2>2, <2>3, SameHolders DEF PartInv
<1>7. ASSUME Finish PROVE PartInv'
  <2>1. Untouched
    BY <1>7, OthersUntouched
  <2>2. pc = "next" /\ pc' = "done" /\ frames' = frames /\ now' = now
    BY <1>7 DEF Finish, now
  <2> QED BY <2>1, <2>2, SameHolders DEF PartInv
<1>8. CASE UNCHANGED vars
  BY <1>8 DEF vars, PartInv, InOne, Has, now
<1> QED BY <1>2, <1>3, <1>4, <1>5, <1>6, <1>7, <1>8 DEF Next

LEMMA PartImplies == IInv /\ PartInv => Partition
<1> SUFFICES ASSUME IInv, PartInv, pc = "next",
                    NEW f \in DOMAIN frames, NEW j \in DOMAIN frames[f]
             PROVE  LET at == {x \in (DOMAIN tubes) \X (1..now) :
                                /\ x[2] \in DOMAIN tubes[x[1]].entries
                                /\ tubes[x[1]].entries[x[2]] = [frame |-> f, det |-> j]}
                    IN  \E x \in at : at = {x}
  BY DEF Partition
<1>1. frames \in Seq(Frame) /\ now \in Nat /\ f \in 1..now
  BY DEF IInv, TypeOK, now
<1>2. PICK i \in DOMAIN tubes : /\ Has(tubes[i].entries, f, j)
                               /\ \A m \in DOMAIN tubes : Has(tubes[m].entries, f, j) => m = i
  BY DEF PartInv, InOne
<1>3. PICK k \in DOMAIN tubes[i].entries : tubes[i].entries[k] = [frame |-> f, det |-> j]
  BY <1>2 DEF Has
<1>4. ASSUME NEW m \in DOMAIN tubes[i].entries, tubes[i].entries[m] = [frame |-> f, det |-> j]
      PROVE  m \in 1..now /\ m = f - tubes[i].start + 1
  <2>1. tubes[i].entries[m].frame = f
    BY <1>4
  <2>2. /\ m \in Nat /\ tubes[i].start \in Nat /\ tubes[i].start >= 1
        /\ tubes[i].entries[m].frame = tubes[i].start + m - 1
    BY PlaceOfEntry
  <2>3. tubes[i] \in Tube
    BY DEF IInv, TypeOK
  <2>4. m >= 1
    BY <2>3 DEF Tube
  <2> QED BY <1>1, <2>1, <2>2, <2>4
<1> DEFINE at == {x \in (DOMAIN tubes) \X (1..now) :
                    /\ x[2] \in DOMAIN tubes[x[1]].entries
                    /\ tubes[x[1]].entries[x[2]] = [frame |-> f, det |-> j]}
<1>5. <<i, k>> \in at
  BY <1>3, <1>4
<1>6. ASSUME NEW x \in at PROVE x = <<i, k>>
  <2>1. x[1] \in DOMAIN tubes /\ x = <<x[1], x[2]>> /\ Has(tubes[x[1]].entries, f, j)
    BY <1>6 DEF Has
  <2>2. x[1] = i
    BY <1>2, <2>1
  <2>3. x[2] = k
    BY <1>3, <1>4, <1>6, <2>2
  <2> QED BY <2>1, <2>2, <2>3
<1>7. at = {<<i, k>>}
  BY <1>5, <1>6
<1> QED BY <1>5, <1>7

\* However it was matched, and whatever tubes were extended, closed or started since,
\* every detection is in one entry of one tube.
THEOREM DetectionsPartitioned == Spec => []Partition
<1>1. Init => PartInv
  BY DEF Init, PartInv
<1> QED BY <1>1, NextPart, PartImplies, Inductive, PTL DEF Spec
-----------------------------------------------------------------------------
\* Linked, of the entries of one tube over the detections read.
Neighbours(es, k, m) ==
  /\ k < m
  /\ es[k].det # Gap /\ es[m].det # Gap
  /\ \A x \in (k + 1)..(m - 1) : es[x].det = Gap
BoxIn(fs, e) == fs[e.frame][e.det]
Near(fs, es) ==
  \A k, m \in DOMAIN es :
    Neighbours(es, k, m) => Iou[<<BoxIn(fs, es[k]), BoxIn(fs, es[m])>>] >= IouThreshold

LEMMA LinkedNear == Linked <=> \A i \in DOMAIN tubes : Near(frames, tubes[i].entries)
BY DEF Linked, Near, Neighbours, BoxIn

\* What the pairs of a frame are compared by is the last entry, which is no gap.
LEMMA LastIsLast ==
  ASSUME NEW t \in Tube, WellFormed(t), now \in Nat, t.end < now
  PROVE  LET n == Len(t.entries) IN
         /\ n \in Nat /\ n >= 1 /\ t.entries[n].det # Gap
         /\ LastDetection(t) = BoxIn(frames, t.entries[n])
<1> DEFINE n == Len(t.entries)
           last(S) == CHOOSE m \in S : \A x \in S : x <= m
<1>1. /\ t.start \in Nat /\ t.end \in Nat /\ t.start <= t.end /\ t.entries \in Seq(Entry)
      /\ n = t.end - t.start + 1
  BY DEF Tube, WellFormed
<1>2. n \in Nat /\ n >= 1 /\ DOMAIN t.entries = 1..n
  BY <1>1
<1>3. n \in 1..n
  BY <1>2
<1>4. t.entries[n].det # Gap /\ t.entries[n].frame = t.start + n - 1
  BY <1>2, <1>3 DEF WellFormed
<1> HIDE DEF n
<1>5. t.entries[n].frame < now
  BY <1>1, <1>2, <1>4
<1>6. n \in Observed(t) /\ Observed(t) \subseteq 1..n
  BY <1>2, <1>3, <1>4, <1>5 DEF Observed
<1>7. last(Observed(t)) = n
  <2>1. \A x \in Observed(t) : x <= n
    BY <1>2, <1>6
  <2>2. last(Observed(t)) \in Observed(t) /\ n <= last(Observed(t))
    BY <1>6, <2>1
  <2> QED BY <1>2, <1>6, <2>1, <2>2
<1>8. LastDetection(t) = BoxIn(frames, t.entries[last(Observed(t))])
  BY DEF LastDetection, BoxIn
<1> QED BY <1>2, <1>4, <1>7, <1>8 DEF n

\* Where an index of a grown list lies: on the old part, in the gap, or at the end.
LEMMA IndexSplit ==
  ASSUME NEW n \in Nat, NEW m \in Nat, n <= m, n >= 1
  PROVE  /\ \A k \in 1..(m + 1) : k \in 1..n \/ k \in (n + 1)..m \/ k = m + 1
         /\ n \in 1..n /\ n < m + 1 /\ m + 1 \in Nat
OBVIOUS

\* The only new neighbours of an extension are its last two observations.
LEMMA ExtendedNear ==
  ASSUME NEW t \in Tube, WellFormed(t), now \in Nat, t.end < now, NEW j \in Nat, j # Gap,
         Near(frames, t.entries),
         Iou[<<LastDetection(t), frames[now][j]>>] >= IouThreshold
  PROVE  Near(frames, Extended(t, j).entries)
<1> DEFINE u == Extended(t, j)
           n == Len(t.entries)
           N == now - t.start + 1
<1>1. /\ u \in Tube /\ n = t.end - t.start + 1 /\ Len(u.entries) = N
      /\ \A k \in 1..n : u.entries[k] = t.entries[k]
      /\ \A k \in (n + 1)..(now - t.start) :
           u.entries[k] = [frame |-> t.start + k - 1, det |-> Gap]
      /\ u.entries[N] = [frame |-> now, det |-> j]
  BY ExtendedShape
<1>2. /\ t.start \in Nat /\ t.end \in Nat /\ t.start <= t.end
  BY DEF Tube, WellFormed
<1>3. t.entries \in Seq(Entry) /\ u.entries \in Seq(Entry)
  BY <1>1 DEF Tube
<1>4. DOMAIN t.entries = 1..n /\ DOMAIN u.entries = 1..N
  BY <1>1, <1>3
<1>5. /\ n \in Nat /\ n >= 1 /\ t.entries[n].det # Gap
      /\ LastDetection(t) = BoxIn(frames, t.entries[n])
  BY LastIsLast
<1> HIDE DEF u, n, N
<1>6. now - t.start + 1 = N
  BY DEF N
<1>7. /\ N \in Nat /\ n < N
      /\ \A k \in 1..N : k \in 1..n \/ k \in (n + 1)..(now - t.start) \/ k = N
      /\ n \in 1..n
  <2>1. PICK m \in Int : m = now - t.start
    BY <1>2
  <2>2. N = m + 1 /\ n <= m /\ m \in Nat
    BY <1>1, <1>2, <1>5, <1>6, <2>1
  <2> QED BY <1>5, <2>1, <2>2, IndexSplit
<1>8. \A k \in (n + 1)..(now - t.start) : u.entries[k].det = Gap
  <2> TAKE k \in (n + 1)..(now - t.start)
  <2>1. u.entries[k] = [frame |-> t.start + k - 1, det |-> Gap]
    BY <1>1
  <2> QED BY <2>1
<1> SUFFICES ASSUME NEW k \in 1..N, NEW m \in 1..N, Neighbours(u.entries, k, m)
             PROVE  Iou[<<BoxIn(frames, u.entries[k]), BoxIn(frames, u.entries[m])>>] >= IouThreshold
  BY <1>4 DEF Near, u
<1>9. /\ k < m /\ u.entries[k].det # Gap /\ u.entries[m].det # Gap
      /\ \A x \in (k + 1)..(m - 1) : u.entries[x].det = Gap
  BY DEF Neighbours
<1>10. k \in 1..n
  BY <1>7, <1>8, <1>9
<1>11. CASE m \in 1..n
  <2>1. \A x \in (k + 1)..(m - 1) : x \in 1..n
    BY <1>10, <1>11, <1>5
  <2>2. Neighbours(t.entries, k, m)
    BY <1>1, <1>9, <1>10, <1>11, <2>1 DEF Neighbours
  <2>3. Iou[<<BoxIn(frames, t.entries[k]), BoxIn(frames, t.entries[m])>>] >= IouThreshold
    BY <1>4, <1>10, <1>11, <2>2 DEF Near
  <2> QED BY <1>1, <1>10, <1>11, <2>3
<1>12. CASE m = N
  <2>1. k = n
    <3>1. k < n => n \in (k + 1)..(m - 1)
      BY <1>5, <1>7, <1>10, <1>12
    <3>2. u.entries[n].det # Gap
      BY <1>1, <1>5, <1>7
    <3>3. ~(k < n)
      BY <1>9, <3>1, <3>2
    <3> QED BY <1>5, <1>10, <3>3
  <2>2. BoxIn(frames, u.entries[k]) = LastDetection(t)
    BY <1>1, <1>5, <1>7, <2>1
  <2>3. BoxIn(frames, u.entries[m]) = frames[now][j]
    <3>1. u.entries[m].frame = now /\ u.entries[m].det = j
      BY <1>1, <1>12
    <3> QED BY <3>1 DEF BoxIn
  <2> QED BY <2>2, <2>3
<1> QED BY <1>7, <1>8, <1>9, <1>11, <1>12

\* New frames do not change what earlier entries point at.
LEMMA ReadLinked ==
  ASSUME IInv, Linked, NEW dets \in Frame, Read(dets) PROVE Linked'
<1>1. /\ frames \in Seq(Frame) /\ now \in Nat
      /\ tubes' = tubes /\ frames' = Append(frames, dets)
  BY DEF Read, IInv, TypeOK, now
<1>2. \A f \in 1..now : frames'[f] = frames[f]
  BY <1>1 DEF now
<1>3. ASSUME NEW i \in DOMAIN tubes PROVE Near(frames', tubes[i].entries)
  <2>1. Near(frames, tubes[i].entries)
    BY LinkedNear
  <2>2. \A k \in DOMAIN tubes[i].entries : tubes[i].entries[k].frame \in 1..now
    BY PlaceOfEntry
  <2>3. \A k \in DOMAIN tubes[i].entries :
          BoxIn(frames', tubes[i].entries[k]) = BoxIn(frames, tubes[i].entries[k])
    BY <1>2, <2>2 DEF BoxIn
  <2> QED BY <2>1, <2>3 DEF Near
<1>4. Linked' <=> \A i \in DOMAIN tubes' : Near(frames', tubes'[i].entries)
  BY DEF Linked, Near, Neighbours, BoxIn
<1> QED BY <1>1, <1>3, <1>4

LEMMA NextLinked == IInv /\ Linked /\ [Next]_vars => Linked'
<1> SUFFICES ASSUME IInv, Linked, [Next]_vars PROVE Linked'
  OBVIOUS
<1>1. \A i \in DOMAIN tubes : Near(frames, tubes[i].entries)
  BY LinkedNear
<1>2. ASSUME frames' = frames, \A i \in DOMAIN tubes' : Near(frames, tubes'[i].entries) PROVE Linked'
  BY <1>2 DEF Linked, Near, Neighbours, BoxIn
<1>3. ASSUME frames' = frames, Untouched PROVE Linked'
  BY <1>1, <1>2, <1>3 DEF Untouched
<1>4. ASSUME NEW dets \in Frame, Read(dets) PROVE Linked'
  BY <1>4, ReadLinked
<1>5. ASSUME Miss \/ Prune \/ Finish \/ UNCHANGED vars PROVE Linked'
  BY <1>3, <1>5, OthersUntouched DEF Miss, Prune, Finish, vars
<1>6. ASSUME NEW i \in DOMAIN tubes, NEW j \in DOMAIN taker, Extending(i, j) PROVE Linked'
  <2>1. /\ tubes[i] \in Tube /\ WellFormed(tubes[i])
        /\ now \in Nat /\ tubes[i].end < now /\ j \in Nat /\ j # Gap
    BY <1>6, Extendable
  <2>2. Iou[<<LastDetection(tubes[i]), frames[now][j]>>] >= IouThreshold
    BY <1>6 DEF Extending, Overlap
  <2>3. Near(frames, Extended(tubes[i], j).entries)
    BY <1>1, <2>1, <2>2, ExtendedNear
  <2>4. \A k \in DOMAIN tubes' : Near(frames, tubes'[k].entries)
    BY <1>1, <1>6, <2>3 DEF Extending
  <2> QED BY <1>2, <1>6, <2>4 DEF Extending
<1>7. ASSUME NEW j \in DOMAIN taker, Starting(j) PROVE Linked'
  <2> DEFINE n == Len(tubes)
  <2>1. n \in Nat
    BY DEF IInv, TypeOK
  <2>2. /\ DOMAIN tubes = 1..n /\ DOMAIN tubes' = 1..(n + 1) /\ frames' = frames
        /\ tubes'[n + 1].entries = <<[frame |-> now, det |-> j]>>
        /\ \A k \in 1..n : tubes'[k] = tubes[k]
    BY <1>7 DEF Starting, NewTube
  <2>3. Near(frames, <<[frame |-> now, det |-> j]>>)
    <3>1. DOMAIN <<[frame |-> now, det |-> j]>> = {1}
      OBVIOUS
    <3>2. \A k, m \in {1} : ~(k < m)
      OBVIOUS
    <3> QED BY <3>1, <3>2 DEF Near, Neighbours
  <2> HIDE DEF n
  <2>4. \A k \in 1..(n + 1) : k \in 1..n \/ k = n + 1
    BY <2>1
  <2>5. \A k \in DOMAIN tubes' : Near(frames, tubes'[k].entries)
    BY <1>1, <2>2, <2>3, <2>4
  <2> QED BY <1>2, <2>2, <2>5
<1> QED BY <1>4, <1>5, <1>6, <1>7, MatchExtends, StartStarts DEF Next

\* Two neighbouring observations of a tube overlap, for every overlap function and
\* threshold and whatever gaps were filled between them.
THEOREM NeighboursOverlap == Spec => []Linked
<1>1. Init => Linked
  BY DEF Init, Linked
<1> QED BY <1>1, NextLinked, Inductive, PTL DEF Spec
-----------------------------------------------------------------------------
\* A set of naturals has a least element.
LEMMA LeastNatural ==
  ASSUME NEW T \in SUBSET Nat, T # {}
  PROVE  \E m \in T : \A k \in T : m <= k
<1>1. PICK m \in T : \A k \in T : ~ (<<k, m>> \in OpToRel(<, Nat))
  BY NatLessThanWellFounded, WFMin
<1>2. \A k \in T : ~ (k < m)
  BY <1>1, Zenon DEF OpToRel
<1> QED BY <1>2

\* Induction, for a property given as the set of numbers that have it.
LEMMA Induction ==
  ASSUME NEW T, 0 \in T, \A k \in Nat : k \in T => k + 1 \in T
  PROVE  \A k \in Nat : k \in T
<1> SUFFICES ASSUME {k \in Nat : k \notin T} # {} PROVE FALSE
  OBVIOUS
<1>1. PICK m \in {k \in Nat : k \notin T} : \A k \in {k \in Nat : k \notin T} : m <= k
  BY LeastNatural
<1>2. m - 1 \in Nat /\ m - 1 \in T
  BY <1>1
<1> QED BY <1>1, <1>2

\* A function on the naturals may be defined by recursion.
Computes(f, B, b0, G) ==
  f \in [Nat -> B] /\ f[0] = b0 /\ \A k \in Nat : f[k + 1] = G[k + 1][f[k]]

LEMMA Recursion ==
  ASSUME NEW B, NEW b0 \in B, NEW G \in [Nat -> [B -> B]]
  PROVE  \E f : Computes(f, B, b0, G)
<1> DEFINE Upto(k) == {h \in [0..k -> B] : h[0] = b0 /\ \A j \in 0..(k - 1) : h[j + 1] = G[j + 1][h[j]]}
<1>1. \A k \in Nat : k \in {i \in Nat : Upto(i) # {}}
  <2>1. 0 \in {i \in Nat : Upto(i) # {}}
    <3>1. [j \in 0..0 |-> b0] \in Upto(0)
      OBVIOUS
    <3> QED BY <3>1
  <2>2. ASSUME NEW k \in Nat, k \in {i \in Nat : Upto(i) # {}} PROVE k + 1 \in {i \in Nat : Upto(i) # {}}
    <3>1. PICK h \in Upto(k) : TRUE
      BY <2>2
    <3>2. PICK g : g = [j \in 0..(k + 1) |-> IF j <= k THEN h[j] ELSE G[k + 1][h[k]]]
      OBVIOUS
    <3>3. h[k] \in B /\ G[k + 1][h[k]] \in B
      BY <3>1
    <3>4. g \in [0..(k + 1) -> B] /\ g[0] = b0
      BY <3>1, <3>2, <3>3
    <3>5. \A j \in 0..k : g[j + 1] = G[j + 1][g[j]]
      BY <3>1, <3>2
    <3>6. g \in Upto(k + 1)
      BY <3>4, <3>5
    <3> QED BY <3>6
  <2> HIDE DEF Upto
  <2> QED BY <2>1, <2>2, Induction
<1>2. ASSUME NEW k \in Nat, NEW m \in Nat, k <= m, NEW h \in Upto(k), NEW g \in Upto(m)
      PROVE  \A j \in 0..k : h[j] = g[j]
  <2>1. 0 \in {j \in Nat : j <= k => h[j] = g[j]}
    BY <1>2
  <2>2. \A j \in Nat : j \in {i \in Nat : i <= k => h[i] = g[i]} => j + 1 \in {i \in Nat : i <= k => h[i] = g[i]}
    BY <1>2
  <2>3. \A j \in Nat : j \in {i \in Nat : i <= k => h[i] = g[i]}
    <3> HIDE DEF Upto
    <3> QED BY <2>1, <2>2, Induction
  <2> QED BY <2>3
<1>3. PICK f : f = [k \in Nat |-> (CHOOSE h : h \in Upto(k))[k]]
  OBVIOUS
<1>4. \A k \in Nat : \E h \in Upto(k) : f[k] = h[k]
  <2> SUFFICES ASSUME NEW k \in Nat PROVE \E h \in Upto(k) : f[k] = h[k]
    OBVIOUS
  <2>1. Upto(k) # {}
    BY <1>1
  <2> HIDE DEF Upto
  <2>2. f[k] = (CHOOSE h : h \in Upto(k))[k]
    BY <1>3
  <2>3. (CHOOSE h : h \in Upto(k)) \in Upto(k)
    BY <2>1
  <2> QED BY <2>2, <2>3
<1>5. ASSUME NEW k \in Nat PROVE f[k] \in B /\ f[k + 1] = G[k + 1][f[k]]
  <2>0. k + 1 \in Nat
    OBVIOUS
  <2>1. PICK h \in Upto(k) : f[k] = h[k]
    BY <1>4, Zenon
  <2>2. PICK g \in Upto(k + 1) : f[k + 1] = g[k + 1]
    BY <1>4, <2>0, Zenon
  <2>3. h[k] = g[k]
    <3>1. k <= k + 1 /\ k \in 0..k
      OBVIOUS
    <3> HIDE DEF Upto
    <3> QED BY <1>2, <2>0, <3>1
  <2>4. h[k] \in B /\ g[k + 1] = G[k + 1][g[k]]
    <3>1. k \in 0..k /\ k \in 0..((k + 1) - 1)
      OBVIOUS
    <3> QED BY <3>1
  <2> QED BY <2>1, <2>2, <2>3, <2>4
<1>7. f[0] = b0
  <2>1. PICK h \in Upto(0) : f[0] = h[0]
    BY <1>4
  <2> QED BY <2>1
<1>6. f \in [Nat -> B]
  BY <1>3, <1>5
<1> QED BY <1>5, <1>6, <1>7 DEF Computes

LEMMA MinOf ==
  ASSUME NEW T \in SUBSET Int, NEW b \in Int, T # {}, \A x \in T : x >= b
  PROVE  Min(T) \in T /\ \A x \in T : Min(T) <= x
<1> DEFINE N == {x - b : x \in T}
<1>1. \A x \in T : x \in Int /\ x - b \in Nat /\ x - b \in N
  OBVIOUS
<1>2. N \in SUBSET Nat /\ N # {}
  BY <1>1
<1>3. PICK m \in N : \A k \in N : m <= k
  BY <1>2, LeastNatural
<1>6. PICK y \in T : m = y - b
  OBVIOUS
<1>4. \A x \in T : y <= x
  <2> HIDE DEF N
  <2> QED BY <1>1, <1>3, <1>6
<1>5. \E z \in T : \A x \in T : z <= x
  BY <1>4
<1> HIDE DEF N
<1> QED BY <1>5 DEF Min

LEMMA MaxOf ==
  ASSUME NEW T \in SUBSET Int, NEW b \in Int, T # {}, \A x \in T : x <= b
  PROVE  Max(T) \in T /\ \A x \in T : Max(T) >= x
<1> DEFINE N == {b - x : x \in T}
<1>1. \A x \in T : x \in Int /\ b - x \in Nat /\ b - x \in N
  OBVIOUS
<1>2. N \in SUBSET Nat /\ N # {}
  BY <1>1
<1>3. PICK m \in N : \A k \in N : m <= k
  BY <1>2, LeastNatural
<1>6. PICK y \in T : m = b - y
  OBVIOUS
<1>4. \A x \in T : y >= x
  <2> HIDE DEF N
  <2> QED BY <1>1, <1>3, <1>6
<1>5. \E z \in T : \A x \in T : z >= x
  BY <1>4
<1> HIDE DEF N
<1> QED BY <1>5 DEF Max

-----------------------------------------------------------------------------
\* What was observed of a plume: boxes on some of the frames.
Track == UNION {[S -> Box] : S \in SUBSET (1..MaxFrame)}

LEMMA TrackShape ==
  ASSUME NEW t \in Track, DOMAIN t # {}
  PROVE  /\ t \in [DOMAIN t -> Box] /\ DOMAIN t \in SUBSET (1..MaxFrame) /\ IsFiniteSet(DOMAIN t)
         /\ FirstFrame(t) \in DOMAIN t /\ LastFrame(t) \in DOMAIN t
         /\ \A f \in DOMAIN t : f \in Nat /\ FirstFrame(t) <= f /\ f <= LastFrame(t)
<1>1. PICK S \in SUBSET (1..MaxFrame) : t \in [S -> Box]
  BY DEF Track
<1>2. DOMAIN t = S
  BY <1>1
<1>3. MaxFrame \in Nat
  BY MergeAssumption
<1>4. IsFiniteSet(S)
  <2>1. IsFiniteSet(1..MaxFrame)
    BY <1>3, FS_Interval
  <2> QED BY <2>1, FS_Subset
<1>5. S \in SUBSET Int /\ (\A x \in S : x >= 1) /\ (\A x \in S : x <= MaxFrame)
  BY <1>3
<1>6. Min(S) \in S /\ \A x \in S : Min(S) <= x
  <2>1. PICK one \in Int : one = 1
    OBVIOUS
  <2>2. S # {} /\ \A x \in S : x >= one
    BY <1>2, <1>5, <2>1
  <2> QED BY <1>5, <2>2, MinOf
<1>7. Max(S) \in S /\ \A x \in S : Max(S) >= x
  BY <1>2, <1>3, <1>5, MaxOf
<1> QED BY <1>1, <1>2, <1>4, <1>5, <1>6, <1>7 DEF FirstFrame, LastFrame

LEMMA FragmentShape ==
  ASSUME NEW t \in Fragment
  PROVE  t \in Track /\ DOMAIN t # {}
<1>1. PICK S \in SUBSET (1..MaxFrame) : Cardinality(S) \in 1..MaxObserved /\ t \in [S -> Box]
  BY DEF Fragment
<1>2. S # {}
  BY <1>1, FS_EmptySet
<1> QED BY <1>1, <1>2 DEF Track

-----------------------------------------------------------------------------
\* r is what the filter keeps of the first n of s.
Keeps(r, s, n) ==
  /\ r \in Seq({s[i] : i \in 1..n}) /\ Len(r) <= n
  /\ \A k \in 1..Len(r) : Passes(r[k])
  /\ \A i \in 1..n : Passes(s[i]) => \E k \in 1..Len(r) : r[k] = s[i]

LEMMA KeepsOne ==
  ASSUME NEW r, NEW s, NEW n \in Nat, Keeps(r, s, n), NEW q,
         q = IF Passes(s[n + 1]) THEN Append(r, s[n + 1]) ELSE r
  PROVE  Keeps(q, s, n + 1)
<1>1. PICK T, U : T = {s[i] : i \in 1..n} /\ U = {s[i] : i \in 1..(n + 1)}
  OBVIOUS
<1>2. T \subseteq U /\ s[n + 1] \in U
  BY <1>1
<1>3. r \in Seq(T) /\ Len(r) <= n /\ Len(r) \in Nat
  BY <1>1 DEF Keeps
<1>4. r \in Seq(U)
  <2>1. \A i \in 1..Len(r) : r[i] \in U
    BY <1>2, <1>3
  <2> QED BY <1>3, <2>1
<1>5. \A i \in 1..(n + 1) : i \in 1..n \/ i = n + 1
  OBVIOUS
<1>6. CASE ~Passes(s[n + 1])
  <2>1. q = r
    BY <1>6
  <2>2. Len(r) <= n + 1
    BY <1>3
  <2> QED BY <1>1, <1>4, <1>5, <1>6, <2>1, <2>2 DEF Keeps
<1>7. CASE Passes(s[n + 1])
  <2>1. /\ q \in Seq(U) /\ Len(q) = Len(r) + 1 /\ q[Len(r) + 1] = s[n + 1]
        /\ \A k \in 1..Len(r) : q[k] = r[k]
    BY <1>2, <1>4, <1>7, AppendProperties
  <2>2. PICK m \in Nat : m = Len(r)
    BY <1>3
  <2>3. \A k \in 1..(m + 1) : k \in 1..m \/ k = m + 1
    BY <2>2
  <2>4. \A k \in 1..Len(q) : Passes(q[k])
    BY <1>7, <2>1, <2>2, <2>3 DEF Keeps
  <2>5. m + 1 \in 1..(m + 1) /\ \A k \in 1..m : k \in 1..(m + 1)
    BY <2>2
  <2>6. \A i \in 1..(n + 1) : Passes(s[i]) => \E k \in 1..Len(q) : q[k] = s[i]
    BY <1>5, <2>1, <2>2, <2>5 DEF Keeps
  <2>7. Len(q) <= n + 1
    BY <1>3, <2>1
  <2> QED BY <1>1, <2>1, <2>4, <2>6, <2>7 DEF Keeps
<1> QED BY <1>6, <1>7

LEMMA SurvivorsKept ==
  ASSUME NEW S, NEW s \in Seq(S)
  PROVE  /\ Survivors(s) \in Seq({s[i] : i \in 1..Len(s)}) /\ Len(Survivors(s)) <= Len(s)
         /\ \A k \in 1..Len(Survivors(s)) : Passes(Survivors(s)[k])
         /\ \A i \in 1..Len(s) : Passes(s[i]) => \E k \in 1..Len(Survivors(s)) : Survivors(s)[k] = s[i]
<1> DEFINE One(n, r) == IF Passes(s[n]) THEN Append(r, s[n]) ELSE r
           B == Seq({s[i] : i \in Nat})
           G == [n \in Nat |-> [r \in B |-> One(n, r)]]
<1>1. <<>> \in B
  OBVIOUS
<1>2. G \in [Nat -> [B -> B]]
  <2> SUFFICES ASSUME NEW n \in Nat, NEW r \in B PROVE One(n, r) \in B
    OBVIOUS
  <2>1. s[n] \in {s[i] : i \in Nat}
    OBVIOUS
  <2> QED BY <2>1, AppendProperties
<1>3. PICK f \in [Nat -> B] : f[0] = <<>> /\ \A n \in Nat : f[n + 1] = G[n + 1][f[n]]
  <2> HIDE DEF B, G
  <2>1. \E f : Computes(f, B, <<>>, G)
    BY <1>1, <1>2, Recursion
  <2> QED BY <2>1, Zenon DEF Computes
<1> DEFINE kept[n \in Nat] ==
        IF n = 0 THEN <<>>
        ELSE IF Passes(s[n]) THEN Append(kept[n - 1], s[n]) ELSE kept[n - 1]
<1>4. f = [n \in Nat |-> IF n = 0 THEN <<>>
                         ELSE IF Passes(s[n]) THEN Append(f[n - 1], s[n]) ELSE f[n - 1]]
  <2>1. \A n \in Nat : f[n] = IF n = 0 THEN <<>> ELSE One(n, f[n - 1])
    <3> SUFFICES ASSUME NEW n \in Nat, n # 0 PROVE f[n] = One(n, f[n - 1])
      BY <1>3
    <3>1. n - 1 \in Nat /\ (n - 1) + 1 = n
      OBVIOUS
    <3>2. f[n - 1] \in B
      <4> HIDE DEF B
      <4> QED BY <1>3, <3>1
    <3>3. f[(n - 1) + 1] = G[(n - 1) + 1][f[n - 1]]
      BY <1>3, <3>1
    <3> QED BY <3>1, <3>2, <3>3
  <2> QED BY <1>3, <2>1
<1>5. kept = [n \in Nat |-> IF n = 0 THEN <<>>
                            ELSE IF Passes(s[n]) THEN Append(kept[n - 1], s[n]) ELSE kept[n - 1]]
  BY <1>4, Zenon
<1>6. Survivors(s) = kept[Len(s)]
  BY Zenon DEF Survivors
<1> HIDE DEF kept
<1>7. \A n \in Nat : n \in {m \in Nat : Keeps(kept[m], s, m)}
  <2>1. kept[0] = <<>>
    BY <1>5
  <2>2. Keeps(kept[0], s, 0)
    BY <2>1 DEF Keeps
  <2>3. ASSUME NEW n \in Nat, Keeps(kept[n], s, n) PROVE Keeps(kept[n + 1], s, n + 1)
    <3>1. n + 1 \in Nat /\ n + 1 # 0 /\ (n + 1) - 1 = n
      OBVIOUS
    <3>2. kept[n + 1] = IF Passes(s[n + 1]) THEN Append(kept[n], s[n + 1]) ELSE kept[n]
      BY <1>5, <3>1
    <3>3. PICK r, q : r = kept[n] /\ q = kept[n + 1]
      OBVIOUS
    <3> QED BY <2>3, <3>2, <3>3, KeepsOne
  <2>4. PICK T : T = {m \in Nat : Keeps(kept[m], s, m)}
    OBVIOUS
  <2>5. 0 \in T /\ \A n \in Nat : n \in T => n + 1 \in T
    BY <2>2, <2>3, <2>4
  <2> QED BY <2>4, <2>5, Induction
<1>8. Keeps(kept[Len(s)], s, Len(s))
  BY <1>7
<1> QED BY <1>6, <1>8 DEF Keeps

-----------------------------------------------------------------------------
\* Walks to a root.  A walk that does not end has a value too: each state of it has the same.
Index   == 1..MaxTubes
Forests == [Index -> Index]
Walks   == Forests \X Index

AtRoot(w) == w[1][w[2]] = w[2]
Halved(w) ==
  LET q == [w[1] EXCEPT ![w[2]] = w[1][w[1][w[2]]]]
  IN  <<q, q[w[2]]>>

LEMMA HalvedShape ==
  ASSUME NEW p \in Forests, NEW x \in Index
  PROVE  /\ <<p, x>> \in Walks /\ (AtRoot(<<p, x>>) <=> p[x] = x)
         /\ Halved(<<p, x>>) = <<[p EXCEPT ![x] = p[p[x]]], p[p[x]]>>
         /\ Halved(<<p, x>>) \in Walks
<1>1. <<p, x>> \in Walks /\ (AtRoot(<<p, x>>) <=> p[x] = x)
  BY DEF Walks, AtRoot
<1>2. p[x] \in Index /\ p[p[x]] \in Index
  BY DEF Forests
<1>3. PICK q : q = [p EXCEPT ![x] = p[p[x]]]
  OBVIOUS
<1>4. q \in Forests /\ q[x] = p[p[x]]
  BY <1>2, <1>3 DEF Forests
<1>5. Halved(<<p, x>>) = <<q, q[x]>>
  BY <1>3 DEF Halved
<1> QED BY <1>1, <1>2, <1>3, <1>4, <1>5 DEF Walks

\* A set of states of walks with all that come after them, and where a walk may end.
Onward(Z) == \A z \in Z : AtRoot(z) \/ Halved(z) \in Z
Ends(w) ==
  {y \in Walks : AtRoot(y) /\ \A Z \in SUBSET Walks : w \in Z /\ Onward(Z) => y \in Z}

LEMMA EndsHere ==
  ASSUME NEW w \in Walks, AtRoot(w)
  PROVE  Ends(w) = {w}
<1>1. {w} \in SUBSET Walks /\ Onward({w})
  BY DEF Onward
<1>2. \A y \in Ends(w) : y = w
  BY <1>1 DEF Ends
<1>3. w \in Ends(w)
  BY DEF Ends
<1> QED BY <1>2, <1>3

LEMMA EndsLater ==
  ASSUME NEW w \in Walks, ~AtRoot(w), NEW v \in Walks, v = Halved(w)
  PROVE  Ends(w) = Ends(v)
<1>1. ASSUME NEW y \in Ends(w) PROVE y \in Ends(v)
  <2>1. y \in Walks /\ AtRoot(y) /\ y # w
    BY DEF Ends
  <2>2. ASSUME NEW Z \in SUBSET Walks, v \in Z, Onward(Z) PROVE y \in Z
    <3>1. Z \cup {w} \in SUBSET Walks /\ w \in Z \cup {w}
      OBVIOUS
    <3>2. Onward(Z \cup {w})
      BY <2>2 DEF Onward
    <3>3. y \in Z \cup {w}
      BY <3>1, <3>2 DEF Ends
    <3> QED BY <2>1, <3>3
  <2> QED BY <2>1, <2>2 DEF Ends
<1>2. ASSUME NEW y \in Ends(v) PROVE y \in Ends(w)
  <2>1. y \in Walks /\ AtRoot(y)
    BY DEF Ends
  <2>2. ASSUME NEW Z \in SUBSET Walks, w \in Z, Onward(Z) PROVE y \in Z
    <3>1. v \in Z
      BY <2>2 DEF Onward
    <3> QED BY <2>2, <3>1 DEF Ends
  <2> QED BY <2>1, <2>2 DEF Ends
<1> QED BY <1>1, <1>2

LEMMA WalkTurns ==
  \E W : /\ \A p \in Forests, x \in Index : Walk(p, x) = W[<<p, x>>]
         /\ \A w \in Walks : W[w] = IF AtRoot(w) THEN w ELSE W[Halved(w)]
<1> DEFINE walk[w \in [1..MaxTubes -> 1..MaxTubes] \X (1..MaxTubes)] ==
        LET q == [w[1] EXCEPT ![w[2]] = w[1][w[1][w[2]]]]
        IN  IF w[1][w[2]] = w[2] THEN w ELSE walk[<<q, q[w[2]]>>]
<1>1. PICK g : g = [w \in Walks |-> CHOOSE y : y \in Ends(w)]
  OBVIOUS
<1>2. ASSUME NEW w \in Walks PROVE g[w] = IF AtRoot(w) THEN w ELSE g[Halved(w)]
  <2>1. CASE AtRoot(w)
    <3>1. Ends(w) = {w}
      BY <2>1, EndsHere
    <3> QED BY <1>1, <2>1, <3>1
  <2>2. CASE ~AtRoot(w)
    <3>1. PICK v : v = Halved(w)
      OBVIOUS
    <3>2. v \in Walks
      <4>1. PICK p \in Forests, x \in Index : w = <<p, x>>
        BY DEF Walks
      <4> QED BY <3>1, <4>1, HalvedShape
    <3>3. Ends(w) = Ends(v)
      BY <2>2, <3>1, <3>2, EndsLater
    <3> QED BY <1>1, <2>2, <3>1, <3>2, <3>3
  <2> QED BY <2>1, <2>2
<1>3. g = [w \in [1..MaxTubes -> 1..MaxTubes] \X (1..MaxTubes) |->
             LET q == [w[1] EXCEPT ![w[2]] = w[1][w[1][w[2]]]]
             IN  IF w[1][w[2]] = w[2] THEN w ELSE g[<<q, q[w[2]]>>]]
  <2>1. g = [w \in Walks |-> IF AtRoot(w) THEN w ELSE g[Halved(w)]]
    BY <1>1, <1>2
  <2> QED BY <2>1, Zenon DEF Walks, Forests, Index, AtRoot, Halved
<1>4. walk = [w \in [1..MaxTubes -> 1..MaxTubes] \X (1..MaxTubes) |->
                LET q == [w[1] EXCEPT ![w[2]] = w[1][w[1][w[2]]]]
                IN  IF w[1][w[2]] = w[2] THEN w ELSE walk[<<q, q[w[2]]>>]]
  BY <1>3, Zenon
<1>5. \A p \in Forests, x \in Index : Walk(p, x) = walk[<<p, x>>]
  BY Zenon DEF Walk
<1> HIDE DEF walk
<1>6. PICK W : W = walk
  OBVIOUS
<1>7. W = [w \in Walks |-> IF AtRoot(w) THEN w ELSE W[Halved(w)]]
  BY <1>4, <1>6, Zenon DEF Walks, Forests, Index, AtRoot, Halved
<1>8. \A w \in Walks : W[w] = IF AtRoot(w) THEN w ELSE W[Halved(w)]
  BY <1>7
<1> QED BY <1>5, <1>6, <1>8, Zenon

-----------------------------------------------------------------------------
\* p is a forest: r gives the root of each index, and h grows towards the roots, up to b.
Forest(p, r, h, b) ==
  /\ p \in Forests /\ r \in Forests /\ h \in [Index -> Nat] /\ b \in Nat
  /\ \A i \in Index :
       /\ h[i] <= b /\ r[p[i]] = r[i] /\ p[r[i]] = r[i]
       /\ p[i] = i => r[i] = i
       /\ p[i] # i => h[i] < h[p[i]]

\* Halving a path leaves the roots and the order towards them.
LEMMA HalvedForest ==
  ASSUME NEW p, NEW r, NEW h, NEW b, Forest(p, r, h, b), NEW x \in Index, p[x] # x
  PROVE  /\ Forest([p EXCEPT ![x] = p[p[x]]], r, h, b)
         /\ p[p[x]] \in Index /\ h[x] < h[p[p[x]]] /\ r[p[p[x]]] = r[x]
<1>1. PICK y \in Index, z \in Index : y = p[x] /\ z = p[y]
  BY DEF Forest, Forests
<1>2. h[x] \in Nat /\ h[y] \in Nat /\ h[z] \in Nat
  BY DEF Forest
<1>3. h[x] < h[y] /\ (z # y => h[y] < h[z])
  BY <1>1 DEF Forest
<1>4. h[x] < h[z]
  BY <1>2, <1>3
<1>5. z # x
  BY <1>2, <1>4
<1>6. r[z] = r[x]
  BY <1>1 DEF Forest
<1>7. PICK q : q = [p EXCEPT ![x] = z]
  OBVIOUS
<1>8. q \in Forests /\ q[x] = z /\ \A i \in Index : i # x => q[i] = p[i]
  BY <1>7 DEF Forest, Forests
<1>9. ASSUME NEW i \in Index
      PROVE  /\ h[i] <= b /\ r[q[i]] = r[i] /\ q[r[i]] = r[i]
             /\ q[i] = i => r[i] = i
             /\ q[i] # i => h[i] < h[q[i]]
  <2>1. r[i] \in Index /\ p[r[i]] = r[i] /\ h[i] <= b
    BY DEF Forest, Forests
  <2>2. q[r[i]] = r[i]
    BY <1>8, <2>1
  <2>3. CASE i = x
    BY <1>4, <1>5, <1>6, <1>8, <2>1, <2>2, <2>3
  <2>4. CASE i # x
    <3>1. q[i] = p[i]
      BY <1>8, <2>4
    <3>2. r[p[i]] = r[i] /\ (p[i] = i => r[i] = i) /\ (p[i] # i => h[i] < h[p[i]])
      BY DEF Forest
    <3> QED BY <2>1, <2>2, <3>1, <3>2
  <2> QED BY <2>3, <2>4
<1>10. Forest(q, r, h, b)
  BY <1>8, <1>9 DEF Forest
<1> QED BY <1>1, <1>4, <1>6, <1>7, <1>10

\* A walk in a forest ends at the root, and rewrites the forest to one with the same roots.
LEMMA WalkToRoot ==
  ASSUME NEW p, NEW r, NEW h, NEW b, Forest(p, r, h, b), NEW x \in Index
  PROVE  \E q : Walk(p, x) = <<q, r[x]>> /\ Forest(q, r, h, b)
<1>1. PICK W : /\ \A u \in Forests, i \in Index : Walk(u, i) = W[<<u, i>>]
               /\ \A w \in Walks : W[w] = IF AtRoot(w) THEN w ELSE W[Halved(w)]
  BY WalkTurns
<1> DEFINE Right(u, i) == \E q : W[<<u, i>>] = <<q, r[i]>> /\ Forest(q, r, h, b)
           T == {n \in Nat : \A u \in Forests, i \in Index :
                               Forest(u, r, h, b) /\ b - h[i] <= n => Right(u, i)}
<1>2. ASSUME NEW n \in Nat, NEW u \in Forests, NEW i \in Index, Forest(u, r, h, b), b - h[i] <= n,
             \A v \in Forests, k \in Index : Forest(v, r, h, b) /\ b - h[k] < n => Right(v, k)
      PROVE  Right(u, i)
  <2>1. <<u, i>> \in Walks /\ (AtRoot(<<u, i>>) <=> u[i] = i)
    BY HalvedShape
  <2>2. CASE u[i] = i
    <3>1. W[<<u, i>>] = <<u, i>>
      BY <1>1, <2>1, <2>2
    <3>2. r[i] = i
      BY <1>2, <2>2 DEF Forest
    <3> QED BY <1>2, <3>1, <3>2
  <2>3. CASE u[i] # i
    <3>1. PICK v, k : v = [u EXCEPT ![i] = u[u[i]]] /\ k = u[u[i]]
      OBVIOUS
    <3>2. Forest(v, r, h, b) /\ k \in Index /\ h[i] < h[k] /\ r[k] = r[i]
      <4>1. Forest(u, r, h, b)
        BY <1>2
      <4>2. /\ Forest([u EXCEPT ![i] = u[u[i]]], r, h, b)
            /\ u[u[i]] \in Index /\ h[i] < h[u[u[i]]] /\ r[u[u[i]]] = r[i]
        BY <2>3, <4>1, HalvedForest
      <4> QED BY <3>1, <4>2
    <3>3. Halved(<<u, i>>) = <<v, k>>
      BY <3>1, HalvedShape
    <3>4. W[<<u, i>>] = W[<<v, k>>]
      BY <1>1, <2>1, <2>3, <3>3
    <3>5. v \in Forests
      BY <3>2 DEF Forest
    <3>6. b - h[k] < n
      <4>1. b \in Nat /\ h[i] \in Nat /\ h[k] \in Nat
        BY <1>2, <3>2 DEF Forest
      <4> QED BY <1>2, <3>2, <4>1
    <3>7. Right(v, k)
      BY <1>2, <3>2, <3>5, <3>6
    <3> QED BY <3>2, <3>4, <3>7
  <2> QED BY <2>2, <2>3
<1>3. 0 \in T
  <2> SUFFICES ASSUME NEW u \in Forests, NEW i \in Index, Forest(u, r, h, b), b - h[i] <= 0
               PROVE  Right(u, i)
    OBVIOUS
  <2>1. ASSUME NEW v \in Forests, NEW k \in Index, Forest(v, r, h, b), b - h[k] < 0 PROVE FALSE
    <3>1. b \in Nat /\ h[k] \in Nat /\ h[k] <= b
      BY <2>1 DEF Forest
    <3> QED BY <2>1, <3>1
  <2> HIDE DEF Right
  <2> QED BY <1>2, <2>1
<1>4. ASSUME NEW n \in Nat, n \in T PROVE n + 1 \in T
  <2> SUFFICES ASSUME NEW u \in Forests, NEW i \in Index, Forest(u, r, h, b), b - h[i] <= n + 1
               PROVE  Right(u, i)
    OBVIOUS
  <2>1. ASSUME NEW v \in Forests, NEW k \in Index, Forest(v, r, h, b), b - h[k] < n + 1
        PROVE  Right(v, k)
    <3>1. b \in Nat /\ h[k] \in Nat
      BY <2>1 DEF Forest
    <3>2. b - h[k] <= n
      BY <2>1, <3>1
    <3> HIDE DEF Right
    <3> QED BY <1>4, <2>1, <3>2
  <2>2. n + 1 \in Nat
    OBVIOUS
  <2> HIDE DEF Right
  <2> QED BY <1>2, <2>1, <2>2
<1>5. b \in T
  <2>1. b \in Nat
    BY DEF Forest
  <2>2. PICK U : U = T
    OBVIOUS
  <2>3. 0 \in U /\ \A n \in Nat : n \in U => n + 1 \in U
    <3> HIDE DEF T
    <3> QED BY <1>3, <1>4, <2>2
  <2>4. b \in U
    BY <2>1, <2>3, Induction
  <2> QED BY <2>2, <2>4
<1>6. p \in Forests /\ b - h[x] <= b
  BY DEF Forest
<1>7. Right(p, x)
  <2> HIDE DEF Right
  <2> QED BY <1>5, <1>6
<1> QED BY <1>1, <1>6, <1>7

\* Linking the roots of i and j joins their trees and leaves the others.
Joined(r, i, j) == [k \in Index |-> IF r[k] = r[i] THEN r[j] ELSE r[k]]

LEMMA LinkedForest ==
  ASSUME NEW p, NEW r, NEW h, NEW b, Forest(p, r, h, b), NEW i \in Index, NEW j \in Index
  PROVE  \E g, c : Forest([p EXCEPT ![r[i]] = r[j]], Joined(r, i, j), g, c)
<1>1. PICK v \in Index, w \in Index : v = r[i] /\ w = r[j]
  BY DEF Forest, Forests
<1>2. p[v] = v /\ p[w] = w /\ r[v] = v /\ r[w] = w
  BY <1>1 DEF Forest
<1>3. PICK s : s = Joined(r, i, j)
  OBVIOUS
<1>4. s \in Forests /\ \A k \in Index : s[k] = IF r[k] = v THEN w ELSE r[k]
  BY <1>1, <1>3 DEF Joined, Forest, Forests
<1>5. PICK q : q = [p EXCEPT ![v] = w]
  OBVIOUS
<1>6. q \in Forests /\ q[v] = w /\ \A k \in Index : k # v => q[k] = p[k]
  BY <1>5 DEF Forest, Forests
<1>7. CASE v = w
  <2>1. q = p
    BY <1>2, <1>5, <1>7 DEF Forest, Forests
  <2>2. s = r
    <3>1. \A k \in Index : s[k] = r[k]
      BY <1>4, <1>7
    <3> QED BY <1>4, <3>1 DEF Forest, Forests
  <2> QED BY <1>1, <1>3, <1>5, <2>1, <2>2
<1>8. CASE v # w
  <2>1. PICK a \in Nat, d \in Nat : a = h[v] /\ d = h[w]
    BY DEF Forest
  <2>2. PICK g : g = [k \in Index |-> IF k = w THEN a + d + 1 ELSE h[k]]
    OBVIOUS
  <2>3. PICK c \in Nat : c = b + b + 1
    BY DEF Forest
  <2>4. g \in [Index -> Nat] /\ g[v] = a /\ g[w] = a + d + 1 /\ \A k \in Index : k # w => g[k] = h[k]
    BY <1>8, <2>1, <2>2 DEF Forest
  <2>5. a <= b /\ d <= b /\ b \in Nat
    BY <2>1 DEF Forest
  <2>6. ASSUME NEW k \in Index
        PROVE  /\ g[k] <= c /\ s[q[k]] = s[k] /\ q[s[k]] = s[k]
               /\ q[k] = k => s[k] = k
               /\ q[k] # k => g[k] < g[q[k]]
    <3>1. /\ h[k] \in Nat /\ h[k] <= b /\ p[k] \in Index /\ r[k] \in Index
          /\ r[p[k]] = r[k] /\ p[r[k]] = r[k]
          /\ p[k] = k => r[k] = k
          /\ p[k] # k => h[k] < h[p[k]]
      BY DEF Forest, Forests
    <3>2. g[k] <= c
      <4>1. CASE k = w
        BY <2>3, <2>4, <2>5, <4>1
      <4>2. CASE k # w
        <5>1. g[k] = h[k]
          BY <2>4, <4>2
        <5> QED BY <2>3, <2>5, <3>1, <5>1
      <4> QED BY <4>1, <4>2
    <3>3. q[s[k]] = s[k]
      <4>1. q[w] = w
        BY <1>2, <1>6, <1>8
      <4> QED BY <1>4, <1>6, <3>1, <4>1
    <3>4. CASE k = v
      <4>1. s[k] = w /\ q[k] = w /\ s[w] = w
        BY <1>2, <1>4, <1>6, <1>8, <3>4
      <4>2. g[k] < g[w]
        BY <2>1, <2>4, <3>4
      <4> QED BY <1>8, <3>2, <3>3, <3>4, <4>1, <4>2
    <3>5. CASE k # v
      <4>1. q[k] = p[k]
        BY <1>6, <3>5
      <4>2. s[q[k]] = s[k]
        BY <1>4, <3>1, <4>1
      <4>3. q[k] = k => s[k] = k
        BY <1>4, <3>1, <3>5, <4>1
      <4>4. ASSUME q[k] # k PROVE g[k] < g[q[k]]
        <5>1. h[k] < h[p[k]] /\ h[p[k]] \in Nat /\ k # w
          BY <1>2, <3>1, <4>1, <4>4 DEF Forest
        <5>2. g[k] = h[k]
          BY <2>4, <5>1
        <5>3. CASE p[k] = w
          BY <2>1, <2>4, <3>1, <4>1, <5>1, <5>2, <5>3
        <5>4. CASE p[k] # w
          BY <2>4, <3>1, <4>1, <5>1, <5>2, <5>4
        <5> QED BY <5>3, <5>4
      <4> QED BY <3>2, <3>3, <4>2, <4>3, <4>4
    <3> QED BY <3>4, <3>5
  <2>7. Forest(q, s, g, c)
    BY <1>4, <1>6, <2>3, <2>4, <2>6 DEF Forest
  <2> QED BY <1>1, <1>3, <1>5, <2>7
<1> QED BY <1>7, <1>8

-----------------------------------------------------------------------------
\* What has been linked while the pairs are looked at: the pairs of fragments behind it are
\* in one tree, and a tree holds nothing that a plume may leave out.
Behind(i, j) == i < pair[1] \/ (i = pair[1] /\ j < pair[2])
Together(i, j) == \A X \in SUBSET DOMAIN fragments : Whole(X) => (i \in X <=> j \in X)
JoinedAsSeen(r) ==
  /\ \A i, j \in DOMAIN fragments : i < j /\ Behind(i, j) /\ Related(i, j) => r[i] = r[j]
  /\ \A i, j \in DOMAIN fragments : r[i] = r[j] => Together(i, j)

Linking ==
  /\ pair \in (Nat \ {0}) \X (Nat \ {0})
  /\ pair[1] < pair[2] /\ (pair[2] <= Len(fragments) \/ pair[2] = pair[1] + 1)
  /\ \E r, h, b : Forest(parent, r, h, b) /\ JoinedAsSeen(r)

\* A whole plume and no more.
Plume(c) ==
  /\ c \in SUBSET DOMAIN fragments /\ c # {} /\ Whole(c)
  /\ \A X \in SUBSET DOMAIN fragments : Whole(X) /\ X \cap c # {} => c \subseteq X

\* What is asked of each merged tube.
Bridged(t) ==
  \A f \in DOMAIN t :
    f = LastFrame(t) \/ \E g \in DOMAIN t : g > f /\ (g - f <= MaxMisses + 1 \/ g - f <= MergeMaxGap)
Covers(t, i) ==
  \A f \in DOMAIN fragments[i] : f \in DOMAIN t /\ Rank[t[f]] >= Rank[fragments[i][f]]
Witnessed(t) ==
  \A f \in DOMAIN t : \E i \in DOMAIN fragments : f \in DOMAIN fragments[i] /\ fragments[i][f] = t[f]

TubesOK ==
  /\ fragments \in Seq(Fragment) /\ Len(fragments) <= MaxTubes
  /\ phase # "build" => \A i \in DOMAIN fragments : Passes(fragments[i])

ResultOK ==
  /\ result \in Seq({t \in Track : DOMAIN t # {}})
  /\ phase \in {"build", "link"} => result = <<>>
  /\ \A k \in DOMAIN result : Bridged(result[k]) /\ Witnessed(result[k])
  /\ phase \in {"merged", "done"} =>
       \A i \in DOMAIN fragments : \E k \in DOMAIN result : Covers(result[k], i) /\ Passes(result[k])

MergeInv ==
  /\ phase \in {"build", "link", "merged", "done"}
  /\ TubesOK /\ ResultOK
  /\ phase = "build" => parent = [i \in 1..MaxTubes |-> i] /\ pair = <<1, 2>>
  /\ phase = "link" => Linking
  /\ Components

LEMMA TubesAreIndexed ==
  ASSUME TubesOK
  PROVE  /\ Len(fragments) \in Nat /\ DOMAIN fragments = 1..Len(fragments) /\ DOMAIN fragments \subseteq Index
         /\ \A i \in DOMAIN fragments : fragments[i] \in Fragment /\ i \in Nat
<1>1. fragments \in Seq(Fragment) /\ Len(fragments) <= MaxTubes /\ MaxTubes \in Nat
  BY MergeAssumption DEF TubesOK
<1>2. Len(fragments) \in Nat /\ DOMAIN fragments = 1..Len(fragments)
  BY <1>1
<1>3. \A i \in DOMAIN fragments : fragments[i] \in Fragment
  BY <1>1, <1>2
<1>4. DOMAIN fragments \subseteq Index
  BY <1>1, <1>2 DEF Index
<1> QED BY <1>2, <1>3, <1>4

\* Fragments of the same plume are together.
LEMMA RelatedTogether ==
  ASSUME NEW i \in DOMAIN fragments, NEW j \in DOMAIN fragments, i \in Nat, j \in Nat, i < j, Related(i, j)
  PROVE  Together(i, j)
<1>1. Related(j, i)
  BY DEF Related
<1> QED BY <1>1 DEF Together, Whole

\* Linking i and j keeps what was linked, and links them.
LEMMA JoinedLinked ==
  ASSUME TubesOK, NEW r, r \in Forests, JoinedAsSeen(r), NEW i \in DOMAIN fragments, NEW j \in DOMAIN fragments,
         i < j, Related(i, j)
  PROVE  LET s == Joined(r, i, j) IN
         /\ \A x, y \in DOMAIN fragments : r[x] = r[y] => s[x] = s[y]
         /\ s[i] = s[j]
         /\ \A x, y \in DOMAIN fragments : s[x] = s[y] => Together(x, y)
<1>1. DOMAIN fragments \subseteq Index /\ i \in Nat /\ j \in Nat
  BY TubesAreIndexed
<1>2. PICK s : s = Joined(r, i, j)
  OBVIOUS
<1>3. \A x \in DOMAIN fragments : s[x] = IF r[x] = r[i] THEN r[j] ELSE r[x]
  BY <1>1, <1>2 DEF Joined
<1>4. Together(i, j)
  BY <1>1, RelatedTogether
<1>5. \A x, y \in DOMAIN fragments : r[x] = r[y] => Together(x, y)
  BY DEF JoinedAsSeen
<1>6. ASSUME NEW x \in DOMAIN fragments, NEW y \in DOMAIN fragments, s[x] = s[y] PROVE Together(x, y)
  <2>1. CASE r[x] = r[y]
    BY <1>5, <2>1
  <2>2. CASE r[x] # r[y] /\ r[x] = r[i]
    <3>1. r[y] = r[j]
      BY <1>3, <1>6, <2>2
    <3>2. Together(x, i) /\ Together(j, y)
      BY <1>5, <2>2, <3>1
    <3> QED BY <1>4, <3>2 DEF Together
  <2>3. CASE r[x] # r[y] /\ r[x] # r[i]
    <3>1. r[y] = r[i] /\ r[x] = r[j]
      BY <1>3, <1>6, <2>3
    <3>2. Together(x, j) /\ Together(i, y)
      BY <1>5, <3>1
    <3> QED BY <1>4, <3>2 DEF Together
  <2> QED BY <2>1, <2>2, <2>3
<1>7. (\A x, y \in DOMAIN fragments : r[x] = r[y] => s[x] = s[y]) /\ s[i] = s[j]
  BY <1>3
<1> QED BY <1>2, <1>6, <1>7

\* What is behind the next pair is what is behind this one, and this one.
LEMMA PairAdvances ==
  ASSUME TubesOK, pair \in (Nat \ {0}) \X (Nat \ {0}), pair[1] < pair[2], pair[2] <= Len(fragments)
  PROVE  /\ NextPair \in (Nat \ {0}) \X (Nat \ {0}) /\ NextPair[1] < NextPair[2]
         /\ NextPair[2] <= Len(fragments) \/ NextPair[2] = NextPair[1] + 1
         /\ \A x, y \in DOMAIN fragments :
              x < y /\ (x < NextPair[1] \/ (x = NextPair[1] /\ y < NextPair[2]))
              => Behind(x, y) \/ (x = pair[1] /\ y = pair[2])
<1>1. PICK a \in Nat \ {0}, c \in Nat \ {0} : pair = <<a, c>>
  OBVIOUS
<1>2. PICK n \in Nat : n = Len(fragments) /\ DOMAIN fragments = 1..n
  BY TubesAreIndexed
<1>3. NextPair = IF c < n THEN <<a, c + 1>> ELSE <<a + 1, a + 2>>
  BY <1>1, <1>2 DEF NextPair
<1>4. a < c /\ c <= n
  BY <1>1, <1>2
<1>5. CASE c < n
  <2>1. NextPair = <<a, c + 1>>
    BY <1>3, <1>5
  <2>2. \A x, y \in 1..n : x < y /\ (x < a \/ (x = a /\ y < c + 1))
                           => (x < a \/ (x = a /\ y < c)) \/ (x = a /\ y = c)
    OBVIOUS
  <2>3. a < c + 1 /\ c + 1 <= n
    BY <1>4, <1>5
  <2> QED BY <1>1, <1>2, <2>1, <2>2, <2>3 DEF Behind
<1>6. CASE ~(c < n)
  <2>1. NextPair = <<a + 1, a + 2>>
    BY <1>3, <1>6
  <2>2. c = n
    BY <1>4, <1>6
  <2>3. \A x, y \in 1..n : x < y /\ (x < a + 1 \/ (x = a + 1 /\ y < a + 2))
                           => (x < a \/ (x = a /\ y < n)) \/ (x = a /\ y = n)
    OBVIOUS
  <2>4. a + 1 < a + 2 /\ a + 2 = (a + 1) + 1
    OBVIOUS
  <2> QED BY <1>1, <1>2, <2>1, <2>2, <2>3, <2>4 DEF Behind
<1> QED BY <1>5, <1>6

\* One union, the two walks included.
LEMMA UnionJoins ==
  ASSUME NEW r, NEW h, NEW b, Forest(parent, r, h, b), NEW i \in Index, NEW j \in Index
  PROVE  \E g, c : Forest(Union(i, j), Joined(r, i, j), g, c)
<1>1. PICK p : Walk(parent, j) = <<p, r[j]>> /\ Forest(p, r, h, b)
  BY WalkToRoot
<1>2. PICK q : Walk(p, i) = <<q, r[i]>> /\ Forest(q, r, h, b)
  BY <1>1, WalkToRoot
<1>3. Union(i, j) = [q EXCEPT ![r[i]] = r[j]]
  BY <1>1, <1>2 DEF Union
<1>4. \E g, c : Forest([q EXCEPT ![r[i]] = r[j]], Joined(r, i, j), g, c)
  BY <1>2, LinkedForest
<1> QED BY <1>3, <1>4

LEMMA LinkKeeps == ASSUME TubesOK, Linking, Link PROVE Linking'
<1>1. PICK r, h, b : Forest(parent, r, h, b) /\ JoinedAsSeen(r)
  BY DEF Linking
<1>2. PICK i, j : i = pair[1] /\ j = pair[2]
  OBVIOUS
<1>3. /\ pair \in (Nat \ {0}) \X (Nat \ {0}) /\ i < j /\ j <= Len(fragments)
      /\ pair' = NextPair /\ fragments' = fragments
      /\ parent' = IF SamePlume(fragments[i], fragments[j]) THEN Union(i, j) ELSE parent
  BY <1>2 DEF Linking, Link
<1>4. i \in DOMAIN fragments /\ j \in DOMAIN fragments /\ i \in Nat /\ j \in Nat /\ DOMAIN fragments \subseteq Index
  <2>1. i \in Nat \ {0} /\ j \in Nat \ {0} /\ Len(fragments) \in Nat /\ DOMAIN fragments = 1..Len(fragments)
    BY <1>2, <1>3, TubesAreIndexed
  <2> QED BY <1>3, <2>1, TubesAreIndexed
<1>5. /\ NextPair \in (Nat \ {0}) \X (Nat \ {0}) /\ NextPair[1] < NextPair[2]
      /\ NextPair[2] <= Len(fragments) \/ NextPair[2] = NextPair[1] + 1
      /\ \A x, y \in DOMAIN fragments :
           x < y /\ (x < NextPair[1] \/ (x = NextPair[1] /\ y < NextPair[2]))
           => Behind(x, y) \/ (x = i /\ y = j)
  BY <1>2, <1>3, PairAdvances
<1>6. \A x, y : Related(x, y)' = Related(x, y)
  BY <1>3 DEF Related
<1>7. \A x, y : Together(x, y)' <=> Together(x, y)
  <2>1. \A X : Whole(X)' <=> Whole(X)
    BY <1>3, <1>6 DEF Whole
  <2> QED BY <1>3, <2>1 DEF Together
<1>8. \A x, y : Behind(x, y)' <=> x < NextPair[1] \/ (x = NextPair[1] /\ y < NextPair[2])
  BY <1>3 DEF Behind
<1>9. \E s, g, c : /\ Forest(parent', s, g, c)
                   /\ \A x, y \in DOMAIN fragments : r[x] = r[y] => s[x] = s[y]
                   /\ Related(i, j) => s[i] = s[j]
                   /\ \A x, y \in DOMAIN fragments : s[x] = s[y] => Together(x, y)
  <2>1. CASE SamePlume(fragments[i], fragments[j])
    <3>1. Related(i, j)
      BY <1>3, <2>1 DEF Related
    <3>2. PICK g, c : Forest(Union(i, j), Joined(r, i, j), g, c)
      BY <1>1, <1>4, UnionJoins
    <3>3. r \in Forests
      BY <1>1 DEF Forest
    <3>4. PICK s : s = Joined(r, i, j)
      OBVIOUS
    <3>5. /\ \A x, y \in DOMAIN fragments : r[x] = r[y] => s[x] = s[y]
          /\ s[i] = s[j]
          /\ \A x, y \in DOMAIN fragments : s[x] = s[y] => Together(x, y)
      BY <1>1, <1>3, <1>4, <3>1, <3>3, <3>4, JoinedLinked
    <3>6. parent' = Union(i, j)
      BY <1>3, <2>1
    <3> QED BY <3>2, <3>4, <3>5, <3>6
  <2>2. CASE ~SamePlume(fragments[i], fragments[j])
    <3>1. ~Related(i, j) /\ parent' = parent
      BY <1>3, <2>2 DEF Related
    <3> QED BY <1>1, <3>1 DEF JoinedAsSeen
  <2> QED BY <2>1, <2>2
<1>10. PICK s, g, c : /\ Forest(parent', s, g, c)
                      /\ \A x, y \in DOMAIN fragments : r[x] = r[y] => s[x] = s[y]
                      /\ Related(i, j) => s[i] = s[j]
                      /\ \A x, y \in DOMAIN fragments : s[x] = s[y] => Together(x, y)
  BY <1>9
<1>11. \A x, y \in DOMAIN fragments : x < y /\ Behind(x, y)' /\ Related(x, y) => s[x] = s[y]
  BY <1>1, <1>5, <1>8, <1>10 DEF JoinedAsSeen
<1>12. JoinedAsSeen(s)'
  BY <1>3, <1>6, <1>7, <1>10, <1>11 DEF JoinedAsSeen
<1>13. Forest(parent, s, g, c)'
  BY <1>10 DEF Forest
<1> QED BY <1>3, <1>5, <1>12, <1>13 DEF Linking

\* Once all pairs are behind, a tree is a plume.
LEMMA TreeIsPlume ==
  ASSUME TubesOK, Linking, pair[2] > Len(fragments)
  PROVE  \A i \in DOMAIN fragments : i \in Component(i) /\ Plume(Component(i))
<1>1. PICK r, h, b : Forest(parent, r, h, b) /\ JoinedAsSeen(r)
  BY DEF Linking
<1>2. PICK n \in Nat : n = Len(fragments) /\ DOMAIN fragments = 1..n /\ DOMAIN fragments \subseteq Index
  BY TubesAreIndexed
<1>3. \A x, y \in DOMAIN fragments : x < y => Behind(x, y)
  <2>1. PICK a \in Nat, c \in Nat : pair = <<a, c>> /\ c > n /\ (c <= n \/ c = a + 1)
    BY <1>2 DEF Linking
  <2>2. \A x, y \in 1..n : x < y => x < a
    BY <2>1
  <2>3. pair[1] = a
    BY <2>1
  <2> QED BY <1>2, <2>2, <2>3 DEF Behind
<1>4. \A x, y \in DOMAIN fragments : Related(x, y) => r[x] = r[y]
  <2> SUFFICES ASSUME NEW x \in DOMAIN fragments, NEW y \in DOMAIN fragments, Related(x, y)
               PROVE  r[x] = r[y]
    OBVIOUS
  <2>1. x < y \/ y < x \/ x = y
    BY <1>2
  <2>2. Related(y, x)
    <3>1. ~(x < y /\ y < x) /\ (~(x < y) /\ ~(y < x) => x = y)
      BY <1>2
    <3> QED BY <3>1 DEF Related
  <2> QED BY <1>1, <1>3, <2>1, <2>2 DEF JoinedAsSeen
<1>5. \A k \in DOMAIN fragments : Root(parent, k) = r[k]
  <2> SUFFICES ASSUME NEW k \in DOMAIN fragments PROVE Root(parent, k) = r[k]
    OBVIOUS
  <2>1. PICK q : Walk(parent, k) = <<q, r[k]>>
    BY <1>1, <1>2, WalkToRoot
  <2> QED BY <2>1 DEF Root
<1> SUFFICES ASSUME NEW i \in DOMAIN fragments PROVE i \in Component(i) /\ Plume(Component(i))
  OBVIOUS
<1>6. PICK c : c = Component(i)
  OBVIOUS
<1>7. c = {k \in DOMAIN fragments : r[k] = r[i]}
  BY <1>5, <1>6 DEF Component
<1>8. c \in SUBSET DOMAIN fragments /\ i \in c
  BY <1>7
<1>9. Whole(c)
  BY <1>4, <1>7 DEF Whole
<1>10. ASSUME NEW X \in SUBSET DOMAIN fragments, Whole(X), NEW x \in X \cap c, NEW y \in c PROVE y \in X
  <2>1. r[x] = r[y] /\ x \in DOMAIN fragments /\ y \in DOMAIN fragments
    BY <1>7
  <2>2. Together(x, y)
    BY <1>1, <2>1 DEF JoinedAsSeen
  <2> QED BY <1>10, <2>2 DEF Together
<1>11. Plume(c)
  BY <1>8, <1>9, <1>10 DEF Plume
<1> QED BY <1>6, <1>8, <1>11

-----------------------------------------------------------------------------
\* A tube that goes on after a frame is observed again soon after it.
LEMMA ObservedSoon ==
  ASSUME NEW t \in Fragment, NEW f \in Nat, FirstFrame(t) <= f, f < LastFrame(t)
  PROVE  \E g \in DOMAIN t : g > f /\ g - f <= MaxMisses + 1
<1>1. /\ DOMAIN t \in SUBSET (1..MaxFrame) /\ FirstFrame(t) \in DOMAIN t /\ LastFrame(t) \in DOMAIN t
      /\ \A x \in DOMAIN t : x \in Nat
  BY FragmentShape, TrackShape
<1>2. PICK before : before = {x \in DOMAIN t : x <= f}
  OBVIOUS
<1>3. before # {} /\ before \in SUBSET Int /\ \A x \in before : x <= f
  BY <1>1, <1>2
<1>4. PICK x : x = Max(before)
  OBVIOUS
<1>5. x \in before /\ \A y \in before : x >= y
  BY <1>3, <1>4, MaxOf
<1>6. x \in DOMAIN t /\ x \in Nat /\ x <= f /\ x # LastFrame(t)
  BY <1>1, <1>2, <1>5
<1>7. PICK g \in (x + 1)..(x + 1 + MaxMisses) : g \in DOMAIN t
  BY <1>6 DEF Fragment
<1>8. MaxMisses \in Nat /\ g \in Nat /\ x < g /\ g <= x + 1 + MaxMisses
  BY <1>6, <1>7, MergeAssumption
<1>9. g > f
  <2> SUFFICES ASSUME g <= f PROVE FALSE
    BY <1>8
  <2>1. g \in before
    BY <1>2, <1>7
  <2> QED BY <1>5, <1>6, <1>8, <2>1
<1>10. g - f <= MaxMisses + 1
  BY <1>6, <1>8
<1> QED BY <1>7, <1>9, <1>10

\* Two fragments of the same plume are not further apart than merging allows.
LEMMA RelatedClose ==
  ASSUME TubesOK, NEW i \in DOMAIN fragments, NEW j \in DOMAIN fragments, Related(i, j)
  PROVE  FirstFrame(fragments[j]) > LastFrame(fragments[i]) => FirstFrame(fragments[j]) - LastFrame(fragments[i]) <= MergeMaxGap
<1>1. PICK s, e, u, w : /\ s = fragments[i] /\ e = fragments[j]
                        /\ u = LastFrame(s) /\ w = FirstFrame(e)
  OBVIOUS
<1>2. PICK p \in Nat, q \in Nat : p = FirstFrame(s) /\ q = LastFrame(e)
  <2>1. fragments[i] \in Fragment /\ fragments[j] \in Fragment
    BY TubesAreIndexed
  <2> QED BY <1>1, <2>1, FragmentShape, TrackShape
<1>3. u \in Nat /\ w \in Nat /\ p <= u /\ w <= q
  <2>1. fragments[i] \in Fragment /\ fragments[j] \in Fragment
    BY TubesAreIndexed
  <2> QED BY <1>1, <1>2, <2>1, FragmentShape, TrackShape
<1>4. SamePlume(s, e) \/ SamePlume(e, s)
  BY <1>1 DEF Related
<1>5. TimeGap(s, e) <= MergeMaxGap \/ TimeGap(e, s) <= MergeMaxGap
  BY <1>4 DEF SamePlume
<1>6. ASSUME w > u PROVE TimeGap(s, e) = w - u /\ TimeGap(e, s) = w - u
  <2>1. TimeGap(s, e) = w - u
    BY <1>1, <1>6 DEF TimeGap
  <2>2. ~(p > q)
    BY <1>2, <1>3, <1>6
  <2>3. TimeGap(e, s) = w - u
    BY <1>1, <1>2, <1>6, <2>2 DEF TimeGap
  <2> QED BY <2>1, <2>3
<1> QED BY <1>1, <1>5, <1>6

\* Among finitely many there is a best one, and of the best the first.
LEMMA BestOf ==
  ASSUME NEW n \in Nat, NEW R \in [1..n -> Nat], NEW S \in SUBSET (1..n), S # {}
  PROVE  \E m \in S : \A k \in S : R[m] > R[k] \/ (R[m] = R[k] /\ m <= k)
<1> DEFINE Best(m, U) == \A k \in U : R[m] > R[k] \/ (R[m] = R[k] /\ m <= k)
           T == {x \in Nat : \A U \in SUBSET (1..n) : U # {} /\ U \subseteq 1..x => \E m \in U : Best(m, U)}
<1>1. 0 \in T
  <2>1. 1..0 = {}
    OBVIOUS
  <2> QED BY <2>1
<1>2. ASSUME NEW x \in Nat, x \in T PROVE x + 1 \in T
  <2> SUFFICES ASSUME NEW U \in SUBSET (1..n), U # {}, U \subseteq 1..(x + 1)
               PROVE  \E m \in U : Best(m, U)
    OBVIOUS
  <2>1. PICK V : V = U \ {x + 1}
    OBVIOUS
  <2>2. V \in SUBSET (1..n) /\ V \subseteq 1..x /\ V \subseteq U
    BY <2>1
  <2>3. \A k \in U : k \in V \/ k = x + 1
    BY <2>1
  <2>4. CASE V = {}
    <3>1. PICK y : y = x + 1
      OBVIOUS
    <3>2. \A k \in U : k = y
      BY <2>3, <2>4, <3>1, Zenon
    <3>3. y \in Nat /\ y \in U
      <4>1. PICK u : u \in U
        BY Zenon
      <4>2. y \in U
        BY <3>2, <4>1, Zenon
      <4>3. y \in Nat
        BY <3>1
      <4> QED BY <4>2, <4>3
    <3>4. Best(y, U)
      <4> SUFFICES ASSUME NEW k \in U PROVE R[y] > R[k] \/ (R[y] = R[k] /\ y <= k)
        OBVIOUS
      <4>1. k = y
        BY <3>2
      <4>2. y <= y
        BY <3>3
      <4> QED BY <4>1, <4>2
    <3> QED BY <3>3, <3>4
  <2>5. CASE V # {} /\ x + 1 \notin U
    <3>1. V = U
      BY <2>1, <2>5
    <3> QED BY <1>2, <2>2, <2>5, <3>1
  <2>6. CASE V # {} /\ x + 1 \in U
    <3>1. PICK m \in V : Best(m, V)
      BY <1>2, <2>2, <2>6
    <3>2. m \in Nat /\ m <= x /\ R[m] \in Nat /\ R[x + 1] \in Nat /\ \A k \in V : R[k] \in Nat
      BY <2>2, <2>6
    <3>3. CASE R[m] >= R[x + 1]
      <4>1. R[m] > R[x + 1] \/ (R[m] = R[x + 1] /\ m <= x + 1)
        BY <3>2, <3>3
      <4>2. \A k \in V : R[m] > R[k] \/ (R[m] = R[k] /\ m <= k)
        BY <3>1
      <4>3. Best(m, U)
        <5> SUFFICES ASSUME NEW k \in U PROVE R[m] > R[k] \/ (R[m] = R[k] /\ m <= k)
          OBVIOUS
        <5>1. CASE k \in V
          BY <4>2, <5>1
        <5>2. CASE k = x + 1
          BY <4>1, <5>2
        <5> QED BY <2>3, <5>1, <5>2
      <4> QED BY <2>2, <4>3
    <3>4. CASE R[m] < R[x + 1]
      <4>1. \A k \in V : R[x + 1] > R[k]
        <5> SUFFICES ASSUME NEW k \in V PROVE R[x + 1] > R[k]
          OBVIOUS
        <5>1. R[m] >= R[k]
          BY <3>1, <3>2
        <5> QED BY <3>2, <3>4, <5>1
      <4>2. Best(x + 1, U)
        BY <2>3, <4>1
      <4> QED BY <2>6, <4>2
    <3> QED BY <3>2, <3>3, <3>4
  <2> QED BY <2>4, <2>5, <2>6
<1>3. n \in T
  <2>1. PICK U : U = T
    OBVIOUS
  <2>2. 0 \in U /\ \A x \in Nat : x \in U => x + 1 \in U
    <3> HIDE DEF T
    <3> QED BY <1>1, <1>2, <2>1
  <2>3. n \in U
    BY <2>2, Induction
  <2> QED BY <2>1, <2>3
<1> QED BY <1>3

\* A merged tube: what its fragments observed, and of each frame the best box.
LEMMA CombinedShape ==
  ASSUME TubesOK, NEW c \in SUBSET DOMAIN fragments, c # {}
  PROVE  LET t == Combined(c) IN
         /\ t \in Track /\ DOMAIN t # {} /\ DOMAIN t = UNION {DOMAIN fragments[m] : m \in c}
         /\ \A f \in DOMAIN t : \E m \in c : f \in DOMAIN fragments[m] /\ t[f] = fragments[m][f]
         /\ \A m \in c : \A f \in DOMAIN fragments[m] : Rank[t[f]] >= Rank[fragments[m][f]]
<1>1. PICK n \in Nat : n = Len(fragments) /\ DOMAIN fragments = 1..n /\ \A i \in 1..n : fragments[i] \in Fragment
  BY TubesAreIndexed
<1>2. PICK F : F = UNION {DOMAIN fragments[m] : m \in c}
  OBVIOUS
<1>3. PICK t : t = Combined(c)
  OBVIOUS
<1>4. t = [f \in F |-> fragments[CHOOSE m \in Observing(c, f) : Wins(c, f, m)][f]]
  BY <1>2, <1>3 DEF Combined
<1>5. \A m \in c : /\ m \in 1..n /\ fragments[m] \in [DOMAIN fragments[m] -> Box]
                   /\ DOMAIN fragments[m] \in SUBSET (1..MaxFrame) /\ DOMAIN fragments[m] # {}
  BY <1>1, FragmentShape, TrackShape
<1>6. F \in SUBSET (1..MaxFrame) /\ F # {}
  BY <1>2, <1>5
<1>7. ASSUME NEW f \in F
      PROVE  \E m \in Observing(c, f) : Wins(c, f, m) /\ t[f] = fragments[m][f]
  <2>1. PICK S : S = Observing(c, f)
    OBVIOUS
  <2>2. S # {} /\ S \in SUBSET (1..n) /\ \A k \in S : f \in DOMAIN fragments[k] /\ fragments[k][f] \in Box
    BY <1>1, <1>2, <1>5, <2>1 DEF Observing
  <2>3. PICK R : R = [k \in 1..n |-> IF f \in DOMAIN fragments[k] /\ fragments[k][f] \in Box THEN Rank[fragments[k][f]] ELSE 0]
    OBVIOUS
  <2>4. R \in [1..n -> Nat] /\ \A k \in S : R[k] = Rank[fragments[k][f]]
    BY <2>2, <2>3, MergeAssumption
  <2>5. PICK m \in S : \A k \in S : R[m] > R[k] \/ (R[m] = R[k] /\ m <= k)
    BY <2>2, <2>4, BestOf
  <2>6. Wins(c, f, m)
    BY <2>1, <2>4, <2>5 DEF Wins
  <2>7. PICK w : w = CHOOSE x \in Observing(c, f) : Wins(c, f, x)
    OBVIOUS
  <2>8. w \in Observing(c, f) /\ Wins(c, f, w)
    BY <2>1, <2>6, <2>7
  <2> QED BY <1>4, <2>7, <2>8
<1>8. ASSUME NEW f \in F PROVE \E m \in c : f \in DOMAIN fragments[m] /\ t[f] = fragments[m][f]
  BY <1>7 DEF Observing
<1>9. ASSUME NEW m \in c, NEW f \in DOMAIN fragments[m] PROVE Rank[t[f]] >= Rank[fragments[m][f]]
  <2>1. f \in F
    BY <1>2
  <2>2. PICK w \in Observing(c, f) : Wins(c, f, w) /\ t[f] = fragments[w][f]
    BY <1>7, <2>1
  <2>3. m \in Observing(c, f)
    BY DEF Observing
  <2>4. Rank[fragments[w][f]] > Rank[fragments[m][f]] \/ Rank[fragments[w][f]] = Rank[fragments[m][f]]
    BY <2>2, <2>3 DEF Wins
  <2>5. fragments[w][f] \in Box /\ fragments[m][f] \in Box
    BY <1>5, <2>2, <2>3 DEF Observing
  <2>6. Rank[fragments[w][f]] \in Nat /\ Rank[fragments[m][f]] \in Nat
    BY <2>5, MergeAssumption
  <2> QED BY <2>2, <2>4, <2>6
<1>10. t \in [F -> Box]
  <2>1. \A f \in F : t[f] \in Box
    BY <1>5, <1>8
  <2> QED BY <1>4, <2>1
<1>11. t \in Track /\ DOMAIN t = F
  BY <1>6, <1>10 DEF Track
<1> QED BY <1>2, <1>3, <1>6, <1>8, <1>9, <1>11

\* A plume that goes on after a frame goes on soon: in a tube that spans the frame, or in
\* one that is related to a tube that has ended.
LEMMA PlumeBridged ==
  ASSUME TubesOK, NEW c, Plume(c)
  PROVE  Bridged(Combined(c))
<1>1. PICK t : t = Combined(c)
  OBVIOUS
<1>2. c \in SUBSET DOMAIN fragments /\ c # {} /\ Whole(c)
  BY DEF Plume
<1>3. /\ t \in Track /\ DOMAIN t # {} /\ DOMAIN t = UNION {DOMAIN fragments[m] : m \in c}
      /\ \A f \in DOMAIN t : \E m \in c : f \in DOMAIN fragments[m]
  BY <1>1, <1>2, CombinedShape
<1>4. LastFrame(t) \in DOMAIN t /\ \A f \in DOMAIN t : f \in Nat /\ f <= LastFrame(t)
  BY <1>3, TrackShape
<1>5. \A m \in c : /\ fragments[m] \in Fragment
                   /\ FirstFrame(fragments[m]) \in DOMAIN fragments[m] /\ LastFrame(fragments[m]) \in DOMAIN fragments[m]
                   /\ \A f \in DOMAIN fragments[m] : f \in Nat /\ FirstFrame(fragments[m]) <= f /\ f <= LastFrame(fragments[m])
  BY <1>2, TubesAreIndexed, FragmentShape, TrackShape
<1>6. \A m \in c : DOMAIN fragments[m] \subseteq DOMAIN t
  BY <1>3
<1> SUFFICES ASSUME NEW f \in DOMAIN t, f # LastFrame(t)
             PROVE  \E g \in DOMAIN t : g > f /\ (g - f <= MaxMisses + 1 \/ g - f <= MergeMaxGap)
  BY <1>1 DEF Bridged
<1>7. f \in Nat /\ LastFrame(t) \in Nat /\ f < LastFrame(t)
  BY <1>4
<1>8. CASE \E l \in c : FirstFrame(fragments[l]) <= f /\ f < LastFrame(fragments[l])
  <2>1. PICK l \in c : FirstFrame(fragments[l]) <= f /\ f < LastFrame(fragments[l])
    BY <1>8
  <2>2. fragments[l] \in Fragment
    BY <1>5
  <2>3. PICK g \in DOMAIN fragments[l] : g > f /\ g - f <= MaxMisses + 1
    BY <1>7, <2>1, <2>2, ObservedSoon
  <2> QED BY <1>6, <2>3
<1>9. CASE \A l \in c : ~(FirstFrame(fragments[l]) <= f /\ f < LastFrame(fragments[l]))
  <2>1. PICK m \in c : f \in DOMAIN fragments[m]
    BY <1>3
  <2>2. PICK e \in c : LastFrame(t) \in DOMAIN fragments[e]
    BY <1>3, <1>4
  <2>3. PICK X : X = {k \in c : LastFrame(fragments[k]) <= f}
    OBVIOUS
  <2>4. m \in X
    <3>1. LastFrame(fragments[m]) \in Nat /\ FirstFrame(fragments[m]) <= f
      BY <1>5, <2>1
    <3>2. LastFrame(fragments[m]) <= f
      BY <1>7, <1>9, <3>1
    <3> QED BY <2>3, <3>2
  <2>5. e \notin X
    <3>1. LastFrame(fragments[e]) \in Nat /\ LastFrame(t) <= LastFrame(fragments[e])
      BY <1>5, <2>2
    <3>2. ~(LastFrame(fragments[e]) <= f)
      BY <1>7, <3>1
    <3> QED BY <2>3, <3>2
  <2>6. X \in SUBSET DOMAIN fragments /\ X \cap c # {} /\ ~(c \subseteq X)
    BY <1>2, <2>3, <2>4, <2>5
  <2>7. ~Whole(X)
    BY <2>6 DEF Plume
  <2>8. PICK k \in X, l \in DOMAIN fragments : Related(k, l) /\ l \notin X
    BY <2>7 DEF Whole
  <2>9. k \in c /\ k \in DOMAIN fragments /\ LastFrame(fragments[k]) <= f
    BY <1>2, <2>3, <2>8
  <2>10. l \in c
    BY <1>2, <2>8, <2>9 DEF Whole
  <2>11. PICK g, u : g = FirstFrame(fragments[l]) /\ u = LastFrame(fragments[k])
    OBVIOUS
  <2>12. g \in Nat /\ u \in Nat /\ LastFrame(fragments[l]) \in Nat /\ g \in DOMAIN t /\ u <= f
    BY <1>5, <1>6, <2>9, <2>10, <2>11
  <2>13. LastFrame(fragments[l]) > f
    BY <1>7, <2>3, <2>8, <2>10, <2>12
  <2>14. g > f
    BY <1>7, <1>9, <2>10, <2>11, <2>12, <2>13
  <2>15. g - u <= MergeMaxGap
    <3>1. g > u
      BY <1>7, <2>12, <2>14
    <3>2. FirstFrame(fragments[l]) > LastFrame(fragments[k]) => FirstFrame(fragments[l]) - LastFrame(fragments[k]) <= MergeMaxGap
      BY <2>8, <2>9, RelatedClose
    <3> QED BY <2>11, <3>1, <3>2
  <2>16. g - f <= MergeMaxGap
    <3>1. MergeMaxGap \in Nat
      BY MergeAssumption
    <3> QED BY <1>7, <2>12, <2>15, <3>1
  <2> QED BY <2>12, <2>14, <2>16
<1> QED BY <1>8, <1>9

\* A merged tube passes the filter that one of its fragments has passed.
LEMMA CombinedPasses ==
  ASSUME TubesOK, NEW c \in SUBSET DOMAIN fragments, NEW m \in c, Passes(fragments[m])
  PROVE  Passes(Combined(c))
<1>1. PICK t, s : t = Combined(c) /\ s = fragments[m]
  OBVIOUS
<1>2. t \in Track /\ DOMAIN t # {} /\ DOMAIN s \subseteq DOMAIN t
  <2>1. c # {}
    OBVIOUS
  <2>2. t \in Track /\ DOMAIN t # {} /\ DOMAIN t = UNION {DOMAIN fragments[k] : k \in c}
    BY <1>1, <2>1, CombinedShape
  <2> QED BY <1>1, <2>2
<1>3. s \in Fragment
  BY <1>1, TubesAreIndexed
<1>4. /\ IsFiniteSet(DOMAIN t)
      /\ FirstFrame(t) \in DOMAIN t /\ LastFrame(t) \in DOMAIN t
      /\ \A f \in DOMAIN t : f \in Nat /\ FirstFrame(t) <= f /\ f <= LastFrame(t)
  BY <1>2, TrackShape
<1>5. FirstFrame(s) \in DOMAIN s /\ LastFrame(s) \in DOMAIN s
  BY <1>3, FragmentShape, TrackShape
<1>6. PICK a \in Nat, b \in Nat, d \in Nat, e \in Nat :
        a = FirstFrame(t) /\ b = LastFrame(t) /\ d = FirstFrame(s) /\ e = LastFrame(s)
  BY <1>2, <1>4, <1>5
<1>7. a <= d /\ e <= b
  BY <1>2, <1>4, <1>5, <1>6
<1>8. /\ Cardinality(DOMAIN s) <= Cardinality(DOMAIN t)
      /\ Cardinality(DOMAIN s) \in Nat /\ Cardinality(DOMAIN t) \in Nat
  BY <1>2, <1>4, FS_Subset, FS_CardinalityType
<1>9. e - d + 1 >= MinTubeLength /\ Cardinality(DOMAIN s) >= MinDetected
  BY <1>1, <1>6 DEF Passes
<1>10. MinTubeLength \in Nat /\ MinDetected \in Nat
  BY MergeAssumption
<1>11. b - a + 1 >= MinTubeLength
  BY <1>7, <1>9, <1>10
<1>12. Cardinality(DOMAIN t) >= MinDetected
  BY <1>8, <1>9, <1>10
<1> QED BY <1>1, <1>6, <1>11, <1>12 DEF Passes

-----------------------------------------------------------------------------
LEMMA InitMerge == MergeInit => MergeInv
<1> SUFFICES ASSUME MergeInit PROVE MergeInv
  OBVIOUS
<1>1. phase = "build" /\ fragments = <<>> /\ result = <<>> /\ pair = <<1, 2>> /\ MaxTubes \in Nat
      /\ parent = [i \in 1..MaxTubes |-> i]
  BY MergeAssumption DEF MergeInit
<1>2. TubesOK /\ ResultOK /\ Components
  BY <1>1 DEF TubesOK, ResultOK, Components
<1> QED BY <1>1, <1>2 DEF MergeInv

\* A fragment is bridged, and covers itself.
LEMMA FragmentFine ==
  ASSUME NEW t \in Fragment
  PROVE  Bridged(t) /\ \A f \in DOMAIN t : Rank[t[f]] >= Rank[t[f]]
<1>2. /\ t \in [DOMAIN t -> Box] /\ FirstFrame(t) \in DOMAIN t /\ LastFrame(t) \in DOMAIN t
      /\ \A f \in DOMAIN t : f \in Nat /\ FirstFrame(t) <= f /\ f <= LastFrame(t)
  BY FragmentShape, TrackShape
<1>3. Bridged(t)
  <2> SUFFICES ASSUME NEW f \in DOMAIN t, f # LastFrame(t)
               PROVE  \E g \in DOMAIN t : g > f /\ (g - f <= MaxMisses + 1 \/ g - f <= MergeMaxGap)
    BY DEF Bridged
  <2>1. f \in Nat /\ LastFrame(t) \in Nat /\ FirstFrame(t) <= f /\ f < LastFrame(t)
    BY <1>2
  <2> QED BY <2>1, ObservedSoon
<1>4. \A f \in DOMAIN t : Rank[t[f]] >= Rank[t[f]]
  <2> SUFFICES ASSUME NEW f \in DOMAIN t PROVE Rank[t[f]] >= Rank[t[f]]
    OBVIOUS
  <2>1. Rank[t[f]] \in Nat
    BY <1>2, MergeAssumption
  <2> QED BY <2>1
<1> QED BY <1>3, <1>4

LEMMA BuildKeeps == ASSUME MergeInv, Build PROVE MergeInv'
<1>1. /\ phase = "build" /\ phase' = "build" /\ parent' = parent /\ pair' = pair /\ result' = result
      /\ Len(fragments) < MaxTubes
  BY DEF Build
<1>2. PICK t \in Fragment : fragments' = Append(fragments, t)
  BY DEF Build
<1>3. TubesOK /\ result = <<>> /\ parent = [i \in 1..MaxTubes |-> i] /\ pair = <<1, 2>>
  BY <1>1 DEF MergeInv, ResultOK
<1>4. fragments \in Seq(Fragment) /\ MaxTubes \in Nat
  BY <1>3, MergeAssumption DEF TubesOK
<1>5. fragments' \in Seq(Fragment) /\ Len(fragments') = Len(fragments) + 1
  BY <1>2, <1>4, AppendProperties
<1>6. Len(fragments) \in Nat /\ Len(fragments') <= MaxTubes
  BY <1>1, <1>4, <1>5
<1>7. TubesOK'
  BY <1>1, <1>5, <1>6 DEF TubesOK
<1>8. ResultOK'
  BY <1>1, <1>3 DEF ResultOK
<1>9. Components'
  BY <1>1 DEF Components
<1> QED BY <1>1, <1>3, <1>7, <1>8, <1>9 DEF MergeInv

\* What the filter keeps are tubes that were there.
LEMMA SurvivorsAre ==
  ASSUME NEW S, NEW s \in Seq(S), NEW r, r = Survivors(s)
  PROVE  /\ r \in Seq(S) /\ Len(r) <= Len(s)
         /\ \A k \in DOMAIN r : Passes(r[k]) /\ \E i \in DOMAIN s : r[k] = s[i]
         /\ \A i \in DOMAIN s : Passes(s[i]) => \E k \in DOMAIN r : r[k] = s[i]
<1>1. PICK T : T = {s[i] : i \in 1..Len(s)}
  OBVIOUS
<1>2. DOMAIN s = 1..Len(s) /\ T \subseteq S
  BY <1>1
<1>3. /\ r \in Seq(T) /\ Len(r) <= Len(s)
      /\ \A k \in 1..Len(r) : Passes(r[k])
      /\ \A i \in 1..Len(s) : Passes(s[i]) => \E k \in 1..Len(r) : r[k] = s[i]
  BY <1>1, SurvivorsKept
<1>4. DOMAIN r = 1..Len(r) /\ \A k \in 1..Len(r) : r[k] \in T
  BY <1>3
<1>5. r \in Seq(S)
  <2>1. \A k \in 1..Len(r) : r[k] \in S
    BY <1>2, <1>4
  <2> QED BY <1>3, <2>1
<1>6. \A k \in DOMAIN r : \E i \in DOMAIN s : r[k] = s[i]
  BY <1>1, <1>2, <1>4
<1> QED BY <1>2, <1>3, <1>4, <1>5, <1>6

LEMMA FilterKeeps == ASSUME MergeInv, Filter PROVE MergeInv'
<1>1. /\ phase = "build" /\ parent' = parent /\ pair' = pair /\ fragments' = Survivors(fragments)
      /\ (phase' = "link" /\ result' = result) \/ (phase' = "done" /\ result' = fragments')
  BY DEF Filter
<1>2. TubesOK /\ ResultOK /\ parent = [i \in 1..MaxTubes |-> i] /\ pair = <<1, 2>>
  BY <1>1 DEF MergeInv
<1>3. fragments \in Seq(Fragment) /\ Len(fragments) <= MaxTubes
  BY <1>2 DEF TubesOK
<1>4. PICK s : s = fragments'
  OBVIOUS
<1>5. s \in Seq(Fragment) /\ Len(s) <= Len(fragments) /\ \A k \in DOMAIN s : Passes(s[k])
  <2>1. s = Survivors(fragments)
    BY <1>1, <1>4
  <2> QED BY <1>3, <2>1, SurvivorsAre
<1>6. TubesOK'
  <2>1. MaxTubes \in Nat /\ Len(s) \in Nat /\ Len(fragments) \in Nat
    BY <1>3, <1>5, MergeAssumption
  <2>2. Len(s) <= MaxTubes
    BY <1>3, <1>5, <2>1
  <2> QED BY <1>4, <1>5, <2>2 DEF TubesOK
<1>7. Components'
  BY <1>1 DEF Components
<1>8. CASE phase' = "link" /\ result' = result
  <2>1. result' = <<>>
    BY <1>1, <1>2, <1>8 DEF ResultOK
  <2>2. ResultOK'
    BY <1>8, <2>1 DEF ResultOK
  <2>3. Linking'
    <3>1. PICK r : r = [i \in Index |-> i]
      OBVIOUS
    <3>2. PICK h : h = [i \in Index |-> 0]
      OBVIOUS
    <3>3. parent' = r
      BY <1>1, <1>2, <3>1 DEF Index
    <3>4. Forest(r, r, h, 0)
      BY <3>1, <3>2 DEF Forest, Forests
    <3>5. DOMAIN s \subseteq Index /\ Index \subseteq Nat
      <4>1. MaxTubes \in Nat /\ Len(s) \in Nat /\ Len(s) <= MaxTubes /\ DOMAIN s = 1..Len(s)
        BY <1>4, <1>5, <1>6, MergeAssumption DEF TubesOK
      <4> QED BY <4>1 DEF Index
    <3>6. \A i, j \in Index : ~ (i < j /\ (i < 1 \/ (i = 1 /\ j < 2)))
      BY MergeAssumption DEF Index
    <3>7. pair' = <<1, 2>>
      BY <1>1, <1>2
    <3>8. \A i, j \in DOMAIN s : ~ (i < j /\ Behind(i, j)')
      BY <3>5, <3>6, <3>7 DEF Behind
    <3>9. \A i, j \in DOMAIN s : r[i] = r[j] => i = j
      BY <3>1, <3>5
    <3>10. JoinedAsSeen(r)'
      BY <1>4, <3>8, <3>9 DEF JoinedAsSeen, Together
    <3>11. Forest(parent, r, h, 0)' /\ JoinedAsSeen(r)'
      BY <3>3, <3>4, <3>10 DEF Forest
    <3> QED BY <3>7, <3>11 DEF Linking
  <2> QED BY <1>1, <1>6, <1>7, <1>8, <2>2, <2>3 DEF MergeInv
<1>9. CASE phase' = "done" /\ result' = fragments'
  <2>1. s \in Seq({t \in Track : DOMAIN t # {}})
    <3>1. \A k \in 1..Len(s) : s[k] \in Fragment
      BY <1>5
    <3>2. \A k \in 1..Len(s) : s[k] \in {t \in Track : DOMAIN t # {}}
      BY <3>1, FragmentShape
    <3> QED BY <1>5, <3>2
  <2>2. ASSUME NEW k \in DOMAIN s PROVE (Bridged(s[k]) /\ Witnessed(s[k]) /\ Covers(s[k], k))'
    <3>1. PICK t \in Fragment : t = s[k]
      BY <1>5
    <3>2. Bridged(t) /\ \A f \in DOMAIN t : Rank[t[f]] >= Rank[t[f]]
      BY FragmentFine
    <3>3. fragments'[k] = t /\ k \in DOMAIN fragments'
      BY <1>4, <3>1
    <3>4. Covers(t, k)'
      BY <3>2, <3>3 DEF Covers
    <3>5. Witnessed(t)'
      BY <3>3 DEF Witnessed
    <3>6. Bridged(t)'
      BY <3>2 DEF Bridged
    <3> QED BY <3>1, <3>4, <3>5, <3>6 DEF Covers, Witnessed, Bridged
  <2>3. ResultOK'
    <3>1. result' = s /\ fragments' = s
      BY <1>4, <1>9
    <3>2. \A k \in DOMAIN result' : (Bridged(result[k]) /\ Witnessed(result[k]))'
      BY <2>2, <3>1 DEF Bridged, Witnessed
    <3>3. \A i \in DOMAIN fragments' : (\E k \in DOMAIN result : Covers(result[k], i) /\ Passes(result[k]))'
      BY <1>5, <2>2, <3>1 DEF Covers
    <3> QED BY <1>9, <2>1, <3>1, <3>2, <3>3 DEF ResultOK
  <2> QED BY <1>1, <1>6, <1>7, <1>9, <2>3 DEF MergeInv
<1> QED BY <1>1, <1>8, <1>9

LEMMA LinkKeepsAll == ASSUME MergeInv, Link PROVE MergeInv'
<1>1. phase = "link" /\ phase' = "link" /\ fragments' = fragments /\ result' = result
  BY DEF Link
<1>2. TubesOK /\ ResultOK /\ Linking
  BY <1>1 DEF MergeInv
<1>3. Linking'
  BY <1>2, LinkKeeps
<1>4. TubesOK' /\ ResultOK' /\ Components'
  <2>1. result = <<>>
    BY <1>1, <1>2 DEF ResultOK
  <2> QED BY <1>1, <1>2, <2>1 DEF TubesOK, ResultOK, Components
<1> QED BY <1>1, <1>3, <1>4 DEF MergeInv

\* The tube made of a plume.
LEMMA CombinedFine ==
  ASSUME TubesOK, phase # "build", NEW c, Plume(c)
  PROVE  /\ Combined(c) \in {t \in Track : DOMAIN t # {}}
         /\ Bridged(Combined(c)) /\ Witnessed(Combined(c)) /\ Passes(Combined(c))
         /\ \A i \in c : Covers(Combined(c), i)
<1>1. c \in SUBSET DOMAIN fragments /\ c # {}
  BY DEF Plume
<1>2. PICK t : t = Combined(c)
  OBVIOUS
<1>3. /\ t \in Track /\ DOMAIN t # {} /\ DOMAIN t = UNION {DOMAIN fragments[m] : m \in c}
      /\ \A f \in DOMAIN t : \E m \in c : f \in DOMAIN fragments[m] /\ t[f] = fragments[m][f]
      /\ \A m \in c : \A f \in DOMAIN fragments[m] : Rank[t[f]] >= Rank[fragments[m][f]]
  BY <1>1, <1>2, CombinedShape
<1>4. Bridged(t)
  BY <1>2, PlumeBridged
<1>5. Witnessed(t)
  BY <1>1, <1>3 DEF Witnessed
<1>6. Passes(t)
  <2>1. PICK m \in c : m \in DOMAIN fragments
    BY <1>1
  <2>2. Passes(fragments[m])
    BY <2>1 DEF TubesOK
  <2> QED BY <1>1, <1>2, <2>2, CombinedPasses
<1>7. ASSUME NEW i \in c PROVE Covers(t, i)
  BY <1>3 DEF Covers
<1> QED BY <1>2, <1>3, <1>4, <1>5, <1>6, <1>7

LEMMA CombineKeeps == ASSUME MergeInv, Combine PROVE MergeInv'
<1>1. /\ phase = "link" /\ pair[2] > Len(fragments) /\ phase' = "merged"
      /\ fragments' = fragments /\ parent' = parent
  BY DEF Combine
<1>2. TubesOK /\ Linking
  BY <1>1 DEF MergeInv
<1>3. \A i \in DOMAIN fragments : i \in Component(i) /\ Plume(Component(i))
  BY <1>1, <1>2, TreeIsPlume
<1>4. PICK all : all = {Component(i) : i \in DOMAIN fragments}
  OBVIOUS
<1>5. \A c \in all : Plume(c)
  BY <1>3, <1>4
<1>6. PICK cs \in [1..Cardinality(all) -> all] :
        /\ {cs[k] : k \in DOMAIN cs} = all
        /\ result' = [k \in DOMAIN cs |-> Combined(cs[k])]
  BY <1>4 DEF Combine
<1>7. PICK n \in Nat : n = Cardinality(all)
  <2>1. IsFiniteSet(DOMAIN fragments)
    <3>1. PICK m \in Nat : DOMAIN fragments = 1..m
      BY <1>2, TubesAreIndexed
    <3> QED BY <3>1, FS_Interval
  <2>2. all \subseteq SUBSET DOMAIN fragments
    BY <1>5 DEF Plume
  <2>3. IsFiniteSet(all)
    BY <2>1, <2>2, FS_SUBSET, FS_Subset
  <2> QED BY <2>3, FS_CardinalityType
<1>8. DOMAIN cs = 1..n /\ \A k \in 1..n : cs[k] \in all /\ Plume(cs[k])
  BY <1>5, <1>6, <1>7
<1>9. PICK r : r = [k \in 1..n |-> Combined(cs[k])]
  OBVIOUS
<1>10. result' = r /\ DOMAIN r = 1..n
  BY <1>6, <1>8, <1>9
<1>11. ASSUME NEW k \in 1..n
       PROVE  /\ r[k] \in {t \in Track : DOMAIN t # {}}
              /\ Bridged(r[k]) /\ Witnessed(r[k]) /\ Passes(r[k])
              /\ \A i \in cs[k] : Covers(r[k], i)
  <2>1. PICK c : c = cs[k] /\ Plume(c)
    BY <1>8
  <2>2. r[k] = Combined(c)
    BY <1>9, <2>1
  <2> QED BY <1>1, <1>2, <2>1, <2>2, CombinedFine
<1>12. ASSUME NEW i \in DOMAIN fragments PROVE \E k \in 1..n : Covers(r[k], i) /\ Passes(r[k])
  <2>1. Component(i) \in all /\ i \in Component(i)
    BY <1>3, <1>4
  <2>2. PICK k \in 1..n : cs[k] = Component(i)
    BY <1>6, <1>8, <2>1
  <2> QED BY <1>11, <2>1, <2>2
<1>13. TubesOK'
  BY <1>1, <1>2 DEF TubesOK
<1>14. ResultOK'
  <2>1. r \in Seq({t \in Track : DOMAIN t # {}})
    BY <1>9, <1>11
  <2>2. \A k \in DOMAIN result' : (Bridged(result[k]) /\ Witnessed(result[k]))'
    BY <1>1, <1>10, <1>11 DEF Bridged, Witnessed
  <2>3. \A i \in DOMAIN fragments' : (\E k \in DOMAIN result : Covers(result[k], i) /\ Passes(result[k]))'
    BY <1>1, <1>10, <1>12 DEF Covers
  <2> QED BY <1>1, <1>10, <2>1, <2>2, <2>3 DEF ResultOK
<1>15. Components'
  <2>1. ASSUME NEW i \in DOMAIN fragments
        PROVE  /\ i \in Component(i) /\ Whole(Component(i))
               /\ \A X \in SUBSET DOMAIN fragments : i \in X /\ Whole(X) => Component(i) \subseteq X
    <3>1. PICK c : c = Component(i)
      OBVIOUS
    <3>2. i \in c /\ Plume(c)
      BY <1>3, <3>1
    <3>3. Whole(c) /\ \A X \in SUBSET DOMAIN fragments : Whole(X) /\ X \cap c # {} => c \subseteq X
      BY <3>2 DEF Plume
    <3> QED BY <3>1, <3>2, <3>3
  <2>2. \A i : Component(i)' = Component(i)
    BY <1>1 DEF Component
  <2>3. \A X : Whole(X)' <=> Whole(X)
    BY <1>1 DEF Whole, Related
  <2>4. ASSUME NEW i \in DOMAIN fragments'
        PROVE  (/\ i \in Component(i) /\ Whole(Component(i))
                /\ \A X \in SUBSET DOMAIN fragments : i \in X /\ Whole(X) => Component(i) \subseteq X)'
    <3>1. PICK c, D : c = Component(i) /\ D = DOMAIN fragments
      OBVIOUS
    <3>2. i \in c /\ Whole(c) /\ \A X \in SUBSET D : i \in X /\ Whole(X) => c \subseteq X
      BY <1>1, <2>1, <3>1
    <3>3. Component(i)' = c /\ D = DOMAIN fragments'
      BY <1>1, <2>2, <3>1
    <3>4. i \in c /\ Whole(c)' /\ \A X \in SUBSET D : i \in X /\ Whole(X)' => c \subseteq X
      BY <2>3, <3>2
    <3>5. Whole(Component(i))'
      BY <1>1, <3>3, <3>4 DEF Whole, Related
    <3> QED BY <3>3, <3>4, <3>5
  <2> QED BY <2>4 DEF Components
<1> QED BY <1>1, <1>13, <1>14, <1>15 DEF MergeInv

LEMMA RefilterKeeps == ASSUME MergeInv, Refilter PROVE MergeInv'
<1>1. phase = "merged" /\ phase' = "done" /\ fragments' = fragments /\ result' = Survivors(result)
  BY DEF Refilter
<1>2. TubesOK /\ ResultOK
  BY DEF MergeInv
<1>3. PICK S : S = {t \in Track : DOMAIN t # {}}
  OBVIOUS
<1>4. PICK s, r : s = result /\ r = Survivors(result)
  OBVIOUS
<1>5. s \in Seq(S)
  BY <1>2, <1>3, <1>4 DEF ResultOK
<1>6. /\ r \in Seq(S)
      /\ \A k \in DOMAIN r : \E i \in DOMAIN s : r[k] = s[i]
      /\ \A i \in DOMAIN s : Passes(s[i]) => \E k \in DOMAIN r : r[k] = s[i]
  <2>1. r = Survivors(s)
    BY <1>4
  <2> QED BY <1>5, <2>1, SurvivorsAre
<1>7. ASSUME NEW k \in DOMAIN r PROVE Bridged(r[k]) /\ Witnessed(r[k])
  <2>1. PICK i \in DOMAIN s : r[k] = s[i]
    BY <1>6
  <2>2. Bridged(s[i]) /\ Witnessed(s[i])
    BY <1>2, <1>4, <2>1 DEF ResultOK
  <2> QED BY <2>1, <2>2
<1>8. ASSUME NEW i \in DOMAIN fragments PROVE \E k \in DOMAIN r : Covers(r[k], i) /\ Passes(r[k])
  <2>1. PICK j \in DOMAIN s : Covers(s[j], i) /\ Passes(s[j])
    BY <1>1, <1>2, <1>4 DEF ResultOK
  <2>2. PICK k \in DOMAIN r : r[k] = s[j]
    BY <1>6, <2>1
  <2> QED BY <2>1, <2>2
<1>9. TubesOK'
  BY <1>1, <1>2 DEF TubesOK
<1>10. ResultOK'
  <2>1. result' = r
    BY <1>1, <1>4
  <2>2. \A k \in DOMAIN result' : (Bridged(result[k]) /\ Witnessed(result[k]))'
    BY <1>1, <1>7, <2>1 DEF Bridged, Witnessed
  <2>3. \A i \in DOMAIN fragments' : (\E k \in DOMAIN result : Covers(result[k], i) /\ Passes(result[k]))'
    BY <1>1, <1>8, <2>1 DEF Covers
  <2> QED BY <1>1, <1>3, <1>6, <2>1, <2>2, <2>3 DEF ResultOK
<1>11. Components'
  BY <1>1 DEF Components
<1> QED BY <1>1, <1>9, <1>10, <1>11 DEF MergeInv

-----------------------------------------------------------------------------
\* The invariant holds of every state, whatever the tubes are.
THEOREM MergeKept == MergeSpec => []MergeInv
<1>1. MergeInit => MergeInv
  BY InitMerge
<1>2. MergeInv /\ [MergeNext]_mergeVars => MergeInv'
  <2> SUFFICES ASSUME MergeInv, [MergeNext]_mergeVars PROVE MergeInv'
    OBVIOUS
  <2>1. CASE MergeNext
    BY <2>1, BuildKeeps, FilterKeeps, LinkKeepsAll, CombineKeeps, RefilterKeeps DEF MergeNext
  <2>2. CASE UNCHANGED mergeVars
    <3>1. phase' = phase /\ fragments' = fragments /\ parent' = parent /\ pair' = pair /\ result' = result
      BY <2>2 DEF mergeVars
    <3>2. TubesOK'
      BY <3>1 DEF MergeInv, TubesOK
    <3>3. ResultOK'
      BY <3>1 DEF MergeInv, ResultOK, Bridged, Witnessed, Covers
    <3>4. Components'
      BY <3>1 DEF MergeInv, Components, Component, Whole, Related
    <3>5. ASSUME phase = "link" PROVE Linking'
      <4>1. PICK r, h, b : Forest(parent, r, h, b) /\ JoinedAsSeen(r)
        BY <3>5 DEF MergeInv, Linking
      <4>2. Forest(parent, r, h, b)'
        BY <3>1, <4>1 DEF Forest
      <4>3. \A X : Whole(X)' <=> Whole(X)
        BY <3>1 DEF Whole, Related
      <4>4. \A i, j : /\ Together(i, j)' <=> Together(i, j)
                      /\ Behind(i, j)' <=> Behind(i, j)
                      /\ Related(i, j)' <=> Related(i, j)
        BY <3>1, <4>3 DEF Together, Behind, Related
      <4>5. JoinedAsSeen(r)'
        <5>1. DOMAIN fragments' = DOMAIN fragments
          BY <3>1
        <5>2. (\A i, j \in DOMAIN fragments : i < j /\ Behind(i, j) /\ Related(i, j) => r[i] = r[j])'
          BY <4>1, <4>4, <5>1 DEF JoinedAsSeen
        <5>3. (\A i, j \in DOMAIN fragments : r[i] = r[j] => Together(i, j))'
          BY <4>1, <4>4, <5>1 DEF JoinedAsSeen
        <5> QED BY <5>2, <5>3 DEF JoinedAsSeen
      <4> QED BY <3>1, <3>5, <4>2, <4>5 DEF MergeInv, Linking
    <3> QED BY <3>1, <3>2, <3>3, <3>4, <3>5 DEF MergeInv
  <2> QED BY <2>1, <2>2
<1> QED BY <1>1, <1>2, PTL DEF MergeSpec

\* The trees of the union-find forest (_connected_components), whose paths are halved while
\* they are walked, are the connected components of the fragments: none is split in two,
\* and none holds a fragment of another plume.
THEOREM TreesArePlumes == MergeSpec => []Components
<1>1. MergeInv => Components
  BY DEF MergeInv
<1> QED BY <1>1, MergeKept, PTL

\* A tube that _combine makes of a chain of fragments of any length never bridges more frames
\* than build_tubes lets a tube miss, or merge_max_gap lets two fragments be apart.
THEOREM MergedTubesBridged == MergeSpec => []GapsBridged
<1>1. MergeInv => GapsBridged
  BY DEF MergeInv, ResultOK, GapsBridged, Bridged
<1> QED BY <1>1, MergeKept, PTL

\* build_tubes_for_inference returns every tube that passed its first filter, alone or in a
\* merged one with boxes that rank as high, and nothing that was not observed.
THEOREM FragmentsSurvive == MergeSpec => []FragmentsKept
<1>1. MergeInv => FragmentsKept
  <2> SUFFICES ASSUME MergeInv, phase = "done" PROVE FragmentsKept
    BY DEF FragmentsKept
  <2>1. ResultOK
    BY DEF MergeInv
  <2>2. \A i \in DOMAIN fragments : \E k \in DOMAIN result : Covers(result[k], i)
    BY <2>1 DEF ResultOK
  <2>3. \A k \in DOMAIN result : Witnessed(result[k])
    BY <2>1 DEF ResultOK
  <2> QED BY <2>2, <2>3 DEF FragmentsKept, Covers, Witnessed
<1> QED BY <1>1, MergeKept, PTL
-----------------------------------------------------------------------------
\* The two halves together: what build_tubes returns is what merging starts from.  A tube of
\* TubeBuilder, gaps and all, is to TubeMerge the boxes it was observed in.
Seen(t) ==
  [f \in {f \in t.start..t.end : t.entries[f - t.start + 1].det # Gap} |->
     BoxIn(frames, t.entries[f - t.start + 1])]

Boxed(fs, es) == \A k \in DOMAIN es : es[k].det # Gap => BoxIn(fs, es[k]) \in Box
Sorted(ts) == \A i, m \in DOMAIN ts : i <= m => ts[i].entries[1].frame <= ts[m].entries[1].frame
BuiltInv ==
  /\ now <= MaxFrames
  /\ \A i \in DOMAIN tubes : Boxed(frames, tubes[i].entries)
  /\ Sorted(tubes)

LEMMA NextBuilt == IInv /\ BuiltInv /\ [Next]_vars => BuiltInv'
<1> SUFFICES ASSUME IInv, BuiltInv, [Next]_vars PROVE BuiltInv'
  OBVIOUS
<1>1. /\ \A i \in DOMAIN tubes : Boxed(frames, tubes[i].entries)
      /\ Sorted(tubes) /\ now <= MaxFrames /\ now \in Nat
      /\ frames \in Seq(Frame) /\ tubes \in Seq(Tube)
  BY DEF BuiltInv, IInv, TypeOK, now
<1>2. ASSUME frames' = frames, \A i \in DOMAIN tubes' : Boxed(frames, tubes'[i].entries), Sorted(tubes')
      PROVE  BuiltInv'
  BY <1>1, <1>2 DEF BuiltInv, now, Boxed, Sorted, BoxIn
<1>3. ASSUME frames' = frames, Untouched PROVE BuiltInv'
  <2>1. Sorted(tubes')
    BY <1>1, <1>3 DEF Untouched, Sorted
  <2> QED BY <1>1, <1>2, <1>3, <2>1 DEF Untouched
<1>4. ASSUME NEW dets \in Frame, Read(dets) PROVE BuiltInv'
  <2>1. now < MaxFrames /\ tubes' = tubes /\ frames' = Append(frames, dets)
    BY <1>4 DEF Read
  <2>2. /\ now' = now + 1 /\ MaxFrames \in Nat
        /\ \A f \in 1..now : frames'[f] = frames[f]
    BY <1>1, <2>1, BuilderAssumption DEF now
  <2>3. ASSUME NEW i \in DOMAIN tubes PROVE Boxed(frames', tubes[i].entries)
    <3>1. Boxed(frames, tubes[i].entries)
      BY <1>1
    <3>2. \A k \in DOMAIN tubes[i].entries : tubes[i].entries[k].frame \in 1..now
      BY PlaceOfEntry
    <3> QED BY <2>2, <3>1, <3>2 DEF Boxed, BoxIn
  <2>4. now' <= MaxFrames
    BY <1>1, <2>1, <2>2
  <2> QED BY <1>1, <2>1, <2>3, <2>4 DEF BuiltInv, Boxed, Sorted, BoxIn
<1>5. ASSUME Miss \/ Prune \/ Finish \/ UNCHANGED vars PROVE BuiltInv'
  BY <1>3, <1>5, OthersUntouched DEF Miss, Prune, Finish, vars
<1>6. ASSUME pc \in {"match", "start"}, NEW j \in DOMAIN taker
      PROVE  now \in 1..now /\ BoxIn(frames, [frame |-> now, det |-> j]) \in Box
  <2>1. DOMAIN taker = IF now = 0 THEN {} ELSE DOMAIN frames[now]
    BY DEF IInv, TypeOK
  <2>2. now # 0 /\ j \in DOMAIN frames[now]
    BY <1>6, <2>1
  <2>3. now \in 1..now /\ now \in DOMAIN frames
    BY <1>1, <2>2 DEF now
  <2>4. frames[now] \in Frame
    BY <1>1, <2>3
  <2>5. PICK d \in Frame : d = frames[now]
    BY <2>4
  <2>6. d \in Seq(Box)
    BY FrameIsSeq
  <2>7. d[j] \in Box
    BY <2>2, <2>5, <2>6
  <2> QED BY <2>3, <2>5, <2>7 DEF BoxIn
<1>7. ASSUME NEW i \in DOMAIN tubes, NEW j \in DOMAIN taker, Extending(i, j) PROVE BuiltInv'
  <2>1. /\ tubes[i] \in Tube /\ WellFormed(tubes[i])
        /\ now \in Nat /\ tubes[i].end < now /\ j \in Nat /\ j # Gap
    BY <1>7, Extendable
  <2>2. PICK t \in Tube : t = tubes[i]
    BY <2>1
  <2>3. PICK u \in Tube, n \in Nat, N \in Nat :
          /\ u = Extended(t, j) /\ n = Len(t.entries) /\ N = Len(u.entries) /\ 1 <= n /\ n < N
          /\ \A k \in 1..n : u.entries[k] = t.entries[k]
          /\ \A k \in (n + 1)..(N - 1) : u.entries[k].det = Gap
          /\ u.entries[N] = [frame |-> now, det |-> j]
    <3>1. WellFormed(t) /\ t.end < now
      BY <2>1, <2>2
    <3>2. /\ Extended(t, j) \in Tube
          /\ Len(t.entries) = t.end - t.start + 1
          /\ Len(Extended(t, j).entries) = now - t.start + 1
          /\ \A k \in 1..Len(t.entries) : Extended(t, j).entries[k] = t.entries[k]
          /\ \A k \in (Len(t.entries) + 1)..(now - t.start) :
               Extended(t, j).entries[k] = [frame |-> t.start + k - 1, det |-> Gap]
          /\ Extended(t, j).entries[now - t.start + 1] = [frame |-> now, det |-> j]
      BY <2>1, <3>1, ExtendedShape
    <3>3. PICK a \in Nat, b \in Nat, m \in Nat : a = t.start /\ b = t.end /\ m = now /\ a <= b /\ b < m
      BY <1>1, <3>1 DEF Tube, WellFormed
    <3>4. b - a + 1 \in Nat /\ m - a + 1 \in Nat /\ 1 <= b - a + 1 /\ b - a + 1 < m - a + 1
          /\ (m - a + 1) - 1 = m - a
      BY <3>3
    <3>5. PICK u : u = Extended(t, j)
      OBVIOUS
    <3>6. PICK n \in Nat, N \in Nat : n = b - a + 1 /\ N = m - a + 1
      BY <3>4
    <3>7. u \in Tube /\ n = Len(t.entries) /\ N = Len(u.entries)
          /\ (\A k \in 1..n : u.entries[k] = t.entries[k])
          /\ (\A k \in (n + 1)..(m - a) : u.entries[k] = [frame |-> a + k - 1, det |-> Gap])
          /\ u.entries[N] = [frame |-> now, det |-> j]
      BY <3>2, <3>3, <3>5, <3>6
    <3>8. \A k \in (n + 1)..(N - 1) : u.entries[k].det = Gap
      <4>1. N - 1 = m - a
        BY <3>6
      <4>2. \A k \in (n + 1)..(N - 1) : u.entries[k] = [frame |-> a + k - 1, det |-> Gap]
        BY <3>7, <4>1
      <4>3. ASSUME NEW k \in (n + 1)..(N - 1) PROVE u.entries[k].det = Gap
        <5>1. u.entries[k] = [frame |-> a + k - 1, det |-> Gap]
          BY <4>2
        <5> QED BY <5>1
      <4> QED BY <4>3
    <3> QED BY <3>4, <3>5, <3>6, <3>7, <3>8
  <2>4. t.entries \in Seq(Entry) /\ u.entries \in Seq(Entry)
    BY DEF Tube
  <2>5. DOMAIN t.entries = 1..n /\ DOMAIN u.entries = 1..N
    BY <2>3, <2>4
  <2>6. Boxed(frames, u.entries)
    <3>1. Boxed(frames, t.entries) /\ BoxIn(frames, [frame |-> now, det |-> j]) \in Box
      BY <1>1, <1>6, <1>7, <2>2 DEF Extending
    <3>2. \A k \in 1..N : k \in 1..n \/ k \in (n + 1)..(N - 1) \/ k = N
      BY <2>3
    <3> QED BY <2>3, <2>5, <3>1, <3>2 DEF Boxed
  <2>7. u.entries[1] = t.entries[1]
    BY <2>3
  <2>8. /\ frames' = frames /\ DOMAIN tubes' = DOMAIN tubes /\ tubes'[i] = u
        /\ \A k \in DOMAIN tubes : k # i => tubes'[k] = tubes[k]
    BY <1>7, <2>2, <2>3 DEF Extending
  <2>9. \A k \in DOMAIN tubes : tubes'[k].entries[1] = tubes[k].entries[1]
    BY <2>2, <2>7, <2>8
  <2>10. Sorted(tubes')
    BY <1>1, <2>8, <2>9 DEF Sorted
  <2>11. \A k \in DOMAIN tubes' : Boxed(frames, tubes'[k].entries)
    BY <1>1, <2>6, <2>8
  <2> QED BY <1>2, <2>8, <2>10, <2>11
<1>8. ASSUME NEW j \in DOMAIN taker, Starting(j) PROVE BuiltInv'
  <2>1. PICK n \in Nat : n = Len(tubes)
    BY <1>1
  <2>2. /\ DOMAIN tubes = 1..n /\ DOMAIN tubes' = 1..(n + 1) /\ frames' = frames
        /\ tubes'[n + 1].entries = <<[frame |-> now, det |-> j]>>
        /\ \A k \in 1..n : tubes'[k] = tubes[k]
    BY <1>8, <2>1 DEF Starting, NewTube
  <2>3. now \in 1..now /\ BoxIn(frames, [frame |-> now, det |-> j]) \in Box
    BY <1>6, <1>8 DEF Starting
  <2>4. \A k \in 1..(n + 1) : k \in 1..n \/ k = n + 1
    OBVIOUS
  <2>5. Boxed(frames, tubes'[n + 1].entries) /\ tubes'[n + 1].entries[1].frame = now
    <3>1. DOMAIN <<[frame |-> now, det |-> j]>> = {1}
      OBVIOUS
    <3> QED BY <2>2, <2>3, <3>1 DEF Boxed
  <2>6. \A k \in 1..n : tubes[k].entries[1].frame \in 1..now
    <3> SUFFICES ASSUME NEW k \in 1..n PROVE tubes[k].entries[1].frame \in 1..now
      OBVIOUS
    <3>1. tubes[k] \in Tube /\ WellFormed(tubes[k])
      BY <1>1, <2>2 DEF IInv, Contiguous
    <3>2. 1 \in DOMAIN tubes[k].entries
      BY <3>1 DEF Tube, WellFormed
    <3> QED BY <2>2, <3>2, PlaceOfEntry
  <2>7. ASSUME NEW i \in 1..(n + 1), NEW m \in 1..(n + 1), i <= m
        PROVE  tubes'[i].entries[1].frame <= tubes'[m].entries[1].frame
    <3>1. CASE i \in 1..n /\ m \in 1..n
      BY <1>1, <2>2, <2>7, <3>1 DEF Sorted
    <3>2. CASE i \in 1..n /\ m = n + 1
      <4>1. tubes'[i].entries[1].frame \in 1..now
        BY <2>2, <2>6, <3>2
      <4> QED BY <1>1, <2>5, <3>2, <4>1
    <3>3. CASE i = n + 1 /\ m = n + 1
      BY <1>1, <2>5, <3>3
    <3>4. ~(i = n + 1 /\ m \in 1..n)
      BY <2>7
    <3> QED BY <2>4, <3>1, <3>2, <3>3, <3>4
  <2>8. Sorted(tubes')
    BY <2>2, <2>7 DEF Sorted
  <2>9. \A k \in DOMAIN tubes' : Boxed(frames, tubes'[k].entries)
    BY <1>1, <2>2, <2>4, <2>5
  <2> QED BY <1>2, <2>2, <2>8, <2>9
<1> QED BY <1>4, <1>5, <1>7, <1>8, MatchExtends, StartStarts DEF Next

\* The tubes build_tubes returns, in the order of their ids, are a list of fragments that
\* TubeMerge merges: fragment by fragment what its Build may add, sorted by their first
\* frames, with no more gaps in a row than a fragment may have.
LEMMA SeenIsFragment ==
  ASSUME NEW t \in Tube, WellFormed(t), ShortGaps(t.entries), Boxed(frames, t.entries),
         t.end <= MaxFrame, MaxFrame <= MaxObserved
  PROVE  Seen(t) \in Fragment /\ FirstFrame(Seen(t)) = t.start
<1>1. PICK a \in Nat, b \in Nat, n \in Nat :
        a = t.start /\ b = t.end /\ n = Len(t.entries) /\ 1 <= a /\ a <= b /\ n = b - a + 1
  BY DEF Tube, WellFormed
<1>2. t.entries \in Seq(Entry) /\ DOMAIN t.entries = 1..n
  <2>1. t.entries \in Seq(Entry)
    BY DEF Tube
  <2>2. DOMAIN t.entries = 1..Len(t.entries)
    BY <2>1
  <2> QED BY <1>1, <2>1, <2>2
<1>3. t.entries[1].det # Gap /\ t.entries[n].det # Gap
  BY <1>1 DEF WellFormed
<1>4. MaxFrame \in Nat /\ MaxObserved \in Nat /\ MaxMisses \in Nat
  BY MergeAssumption
<1>5. PICK S : S = {f \in a..b : t.entries[f - a + 1].det # Gap}
  OBVIOUS
<1>6. PICK s : s = Seen(t)
  OBVIOUS
<1>7. s = [f \in S |-> BoxIn(frames, t.entries[f - a + 1])] /\ DOMAIN s = S
  BY <1>1, <1>5, <1>6 DEF Seen
<1>8. S \subseteq 1..MaxFrame /\ S \subseteq a..b /\ a \in S /\ b \in S
  <2>1. S \subseteq a..b
    BY <1>5
  <2>2. a..b \subseteq 1..MaxFrame
    BY <1>1, <1>4
  <2>3. a \in a..b /\ b \in a..b /\ a - a + 1 = 1 /\ b - a + 1 = n
    BY <1>1
  <2>4. a \in S /\ b \in S
    BY <1>3, <1>5, <2>3
  <2> QED BY <2>1, <2>2, <2>4
<1>9. Cardinality(S) \in 1..MaxObserved
  <2>1. IsFiniteSet(1..MaxFrame) /\ Cardinality(1..MaxFrame) = MaxFrame
    <3>1. IsFiniteSet(1..MaxFrame) /\ Cardinality(1..MaxFrame) = IF 1 > MaxFrame THEN 0 ELSE MaxFrame - 1 + 1
      BY <1>4, FS_Interval
    <3> QED BY <1>4, <3>1
  <2>2. IsFiniteSet(S) /\ Cardinality(S) <= MaxFrame
    BY <1>8, <2>1, FS_Subset
  <2>3. Cardinality(S) \in Nat /\ Cardinality(S) # 0
    BY <1>8, <2>2, FS_CardinalityType, FS_EmptySet
  <2> QED BY <1>4, <2>2, <2>3
<1>10. s \in [S -> Box]
  <2>1. ASSUME NEW f \in S PROVE BoxIn(frames, t.entries[f - a + 1]) \in Box
    <3>1. f \in a..b /\ t.entries[f - a + 1].det # Gap
      BY <1>5
    <3>2. f - a + 1 \in 1..n
      BY <1>1, <3>1
    <3> QED BY <1>2, <3>1, <3>2 DEF Boxed
  <2> QED BY <1>7, <2>1
<1>11. FirstFrame(s) = a /\ LastFrame(s) = b
  <2>1. S \in SUBSET Int /\ S # {} /\ a \in Int /\ b \in Int
        /\ (\A x \in S : x >= a) /\ (\A x \in S : x <= b)
    BY <1>1, <1>8
  <2>2. Min(S) \in S /\ \A x \in S : Min(S) <= x
    BY <2>1, MinOf
  <2>3. Max(S) \in S /\ \A x \in S : Max(S) >= x
    BY <2>1, MaxOf
  <2>4. PICK lo \in Int, hi \in Int : lo = Min(S) /\ hi = Max(S)
    BY <2>1, <2>2, <2>3
  <2>5. lo <= a /\ a <= lo /\ hi >= b /\ hi <= b
    BY <1>8, <2>1, <2>2, <2>3, <2>4
  <2>6. lo = a /\ hi = b
    BY <1>1, <2>4, <2>5
  <2> QED BY <1>7, <2>4, <2>6 DEF FirstFrame, LastFrame
<1>12. ASSUME NEW f \in S, f # b
       PROVE  \E g \in (f + 1)..(f + 1 + MaxMisses) : g \in S
  <2> SUFFICES ASSUME \A g \in (f + 1)..(f + 1 + MaxMisses) : g \notin S PROVE FALSE
    OBVIOUS
  <2>1. PICK x \in Nat : x = f /\ a <= x /\ x < b
    BY <1>1, <1>8, <1>12
  <2>2. PICK mm \in Nat : mm = MaxMisses
    BY <1>4
  <2>3. b > x + 1 + mm
    <3>1. b \notin (x + 1)..(x + 1 + mm)
      BY <1>8, <2>1, <2>2
    <3> QED BY <1>1, <2>1, <3>1
  <2>4. PICK k \in Nat, m \in Nat : k = x - a + 2 /\ m = k + mm
    BY <1>1, <2>1
  <2>5. k \in 1..n /\ m \in 1..n /\ k <= m
    BY <1>1, <2>1, <2>3, <2>4
  <2>6. ASSUME NEW y \in k..m PROVE t.entries[y].det = Gap
    <3>1. PICK g \in Nat : g = y + a - 1
      BY <1>1, <2>4
    <3>2. g \in (x + 1)..(x + 1 + mm) /\ g \in a..b /\ g - a + 1 = y
      BY <1>1, <2>1, <2>3, <2>4, <3>1
    <3>3. g \notin S
      BY <2>1, <2>2, <3>2
    <3> QED BY <1>5, <3>2, <3>3
  <2>7. m - k < mm
    BY <1>2, <2>2, <2>5, <2>6 DEF ShortGaps
  <2> QED BY <2>4, <2>7
<1>13. \A f \in DOMAIN s : f = LastFrame(s) \/ \E g \in (f + 1)..(f + 1 + MaxMisses) : g \in DOMAIN s
  BY <1>7, <1>11, <1>12
<1>14. s \in UNION {[T -> Box] : T \in {T \in SUBSET (1..MaxFrame) : Cardinality(T) \in 1..MaxObserved}}
  BY <1>8, <1>9, <1>10
<1>15. s \in Fragment
  BY <1>13, <1>14 DEF Fragment
<1> QED BY <1>1, <1>6, <1>11, <1>15

\* Building hands over to merging: every list of tubes that build_tubes returns is one that
\* the Build steps of TubeMerge can put together, tube after tube.  What MergedTubesBridged and
\* FragmentsSurvive say of fragments is therefore said of the tubes that are built.
THEOREM BuiltTubesAreFragments ==
  ASSUME MaxFrames <= MaxFrame, MaxFrame <= MaxObserved
  PROVE  Spec => [](\A i \in DOMAIN tubes :
                      /\ Seen(tubes[i]) \in Fragment
                      /\ \A m \in 1..i : FirstFrame(Seen(tubes[m])) <= FirstFrame(Seen(tubes[i])))
<1>1. Init => BuiltInv
  <2> SUFFICES ASSUME Init PROVE BuiltInv
    OBVIOUS
  <2>1. DOMAIN tubes = {} /\ now = 0
    BY DEF Init, now
  <2> QED BY <2>1, BuilderAssumption DEF BuiltInv, Sorted
<1>2. Spec => []BuiltInv
  BY <1>1, NextBuilt, Inductive, PTL DEF Spec
<1>3. IInv /\ BuiltInv => \A i \in DOMAIN tubes :
                            /\ Seen(tubes[i]) \in Fragment
                            /\ \A m \in 1..i : FirstFrame(Seen(tubes[m])) <= FirstFrame(Seen(tubes[i]))
  <2> SUFFICES ASSUME IInv, BuiltInv, NEW i \in DOMAIN tubes
               PROVE  /\ Seen(tubes[i]) \in Fragment
                      /\ \A m \in 1..i : FirstFrame(Seen(tubes[m])) <= FirstFrame(Seen(tubes[i]))
    OBVIOUS
  <2>1. tubes \in Seq(Tube) /\ now \in Nat /\ now <= MaxFrames /\ MaxFrames \in Nat
        /\ MaxFrame \in Nat /\ MaxObserved \in Nat
    BY BuilderAssumption, MergeAssumption DEF IInv, TypeOK, BuiltInv, now
  <2>2. ASSUME NEW k \in DOMAIN tubes
        PROVE  /\ Seen(tubes[k]) \in Fragment /\ FirstFrame(Seen(tubes[k])) = tubes[k].start
               /\ tubes[k].entries[1].frame = tubes[k].start
    <3>1. PICK t \in Tube : t = tubes[k]
      BY <2>1
    <3>2. WellFormed(t) /\ ShortGaps(t.entries) /\ t.end <= now /\ Boxed(frames, t.entries)
      BY <3>1 DEF IInv, Contiguous, GapBound, MissCount, BuiltInv
    <3>3. t.end <= MaxFrame
      BY <2>1, <3>2 DEF Tube
    <3>4. Seen(t) \in Fragment /\ FirstFrame(Seen(t)) = t.start
      BY <3>2, <3>3, SeenIsFragment
    <3>5. t.entries[1].frame = t.start
      <4>1. PICK a \in Nat : a = t.start
        BY DEF Tube
      <4>2. 1 \in DOMAIN t.entries /\ a + 1 - 1 = a
        BY <3>2, <4>1 DEF Tube, WellFormed
      <4> QED BY <3>2, <4>1, <4>2 DEF WellFormed
    <3> QED BY <3>1, <3>4, <3>5
  <2>3. ASSUME NEW m \in 1..i PROVE m \in DOMAIN tubes /\ m <= i
    BY <2>1
  <2>4. \A m \in 1..i : tubes[m].entries[1].frame <= tubes[i].entries[1].frame
    BY <2>3 DEF BuiltInv, Sorted
  <2> QED BY <2>2, <2>3, <2>4
<1> QED BY <1>2, <1>3, Inductive, PTL
=============================================================================
