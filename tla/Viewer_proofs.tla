--------------------------- MODULE Viewer_proofs ---------------------------
(***************************************************************************)
(* What an evaluation writes (Evaluate) and what the page shows of it      *)
(* (Viewer), for any number of sequences, tubes, evaluations and clicks.   *)
(***************************************************************************)
EXTENDS Viewer, TLAPS, FiniteSetTheorems, SequenceTheorems, WellFoundedInduction

\* The indices of a sequence at which it has one of some values.
At(s, T) == {i \in DOMAIN s : s[i] \in T}
IsSeq(s) == s \in Seq(Range(s))

LEMMA SeqShape ==
  ASSUME NEW s, IsSeq(s)
  PROVE  Len(s) \in Nat /\ DOMAIN s = 1..Len(s) /\ IsFiniteSet(DOMAIN s)
<1>1. Len(s) \in Nat /\ DOMAIN s = 1..Len(s)
  BY DEF IsSeq
<1>2. IsFiniteSet(1..Len(s))
  BY <1>1, FS_Interval
<1> QED BY <1>1, <1>2

\* Sets of indices are finite, and counted by a number.
LEMMA Counted ==
  ASSUME NEW s, IsSeq(s), NEW D, D \subseteq DOMAIN s
  PROVE  IsFiniteSet(D) /\ Cardinality(D) \in Nat
<1>1. IsFiniteSet(D)
  BY SeqShape, FS_Subset
<1> QED BY <1>1, FS_CardinalityType

LEMMA CountedWithin ==
  ASSUME NEW s, IsSeq(s), NEW D, D \subseteq DOMAIN s, NEW E, E \subseteq D
  PROVE  Cardinality(E) \in Nat /\ Cardinality(D) \in Nat /\ Cardinality(E) <= Cardinality(D)
<1>1. IsFiniteSet(D) /\ Cardinality(D) \in Nat /\ Cardinality(E) \in Nat
  BY Counted
<1> QED BY <1>1, FS_Subset

LEMMA AppendShape ==
  ASSUME NEW s, IsSeq(s), NEW x
  PROVE  LET t == Append(s, x) IN
           /\ IsSeq(t) /\ Len(t) = Len(s) + 1 /\ t[Len(s) + 1] = x
           /\ \A i \in 1..Len(s) : t[i] = s[i]
           /\ Range(t) = Range(s) \cup {x}
<1>1. PICK t : t = Append(s, x)
  OBVIOUS
<1>2. PICK V : V = Range(s) \cup {x}
  OBVIOUS
<1>3. s \in Seq(V) /\ x \in V
  BY <1>2 DEF IsSeq
<1>4. /\ t \in Seq(V) /\ Len(t) = Len(s) + 1 /\ t[Len(s) + 1] = x
      /\ \A i \in 1..Len(s) : t[i] = s[i]
  BY <1>1, <1>3
<1>5. Len(s) \in Nat /\ DOMAIN s = 1..Len(s) /\ DOMAIN t = 1..(Len(s) + 1)
  BY <1>3, <1>4
<1>6. DOMAIN t = DOMAIN s \cup {Len(s) + 1} /\ Len(s) + 1 \notin DOMAIN s
  BY <1>5
<1>7. \A i \in DOMAIN s : t[i] = s[i]
  BY <1>4, <1>5
<1>8. Range(t) = V
  BY <1>2, <1>4, <1>6, <1>7 DEF Range
<1>9. IsSeq(t)
  BY <1>4, <1>8 DEF IsSeq
<1> QED BY <1>1, <1>2, <1>4, <1>8, <1>9

\* Appending counts one more of a set of values, or none.
LEMMA AppendCounts ==
  ASSUME NEW s, IsSeq(s), NEW x, NEW T
  PROVE  /\ Cardinality(At(s, T)) \in Nat
         /\ x \in T => Cardinality(At(Append(s, x), T)) = Cardinality(At(s, T)) + 1
         /\ x \notin T => Cardinality(At(Append(s, x), T)) = Cardinality(At(s, T))
<1> PICK t : t = Append(s, x)
  OBVIOUS
<1>1. /\ IsSeq(t) /\ Len(t) = Len(s) + 1 /\ t[Len(s) + 1] = x
      /\ \A i \in 1..Len(s) : t[i] = s[i]
  BY AppendShape
<1>2. PICK n : n = Len(s) + 1
  OBVIOUS
<1>3. /\ DOMAIN t = DOMAIN s \cup {n} /\ n \notin DOMAIN s
      /\ t[n] = x /\ \A i \in DOMAIN s : t[i] = s[i]
  <2>1. Len(s) \in Nat /\ DOMAIN s = 1..Len(s) /\ DOMAIN t = 1..(Len(s) + 1)
    BY <1>1, SeqShape
  <2>2. DOMAIN t = DOMAIN s \cup {n} /\ n \notin DOMAIN s
    BY <1>2, <2>1
  <2> QED BY <1>1, <1>2, <2>1, <2>2
<1>4. IsFiniteSet(At(s, T)) /\ Cardinality(At(s, T)) \in Nat /\ n \notin At(s, T)
  BY <1>3, Counted DEF At
<1>5. CASE x \in T
  <2>1. At(t, T) = At(s, T) \cup {n}
    BY <1>3, <1>5 DEF At
  <2>2. Cardinality(At(s, T) \cup {n}) = Cardinality(At(s, T)) + 1
    BY <1>4, FS_AddElement
  <2> QED BY <1>4, <1>5, <2>1, <2>2
<1>6. CASE x \notin T
  <2>1. At(t, T) = At(s, T)
    BY <1>3, <1>6 DEF At
  <2> QED BY <1>4, <1>6, <2>1
<1> QED BY <1>5, <1>6

-----------------------------------------------------------------------------
\* The two accounts that an evaluation keeps: records of the labelled sequences, rows of all.

Labelled == {"smoke", "fp"}
Found(recs, l, p) == {i \in DOMAIN recs : recs[i].label = l /\ recs[i].positive = p}
Told(rws, o) == {i \in DOMAIN rws : rws[i].label \in {"smoke", "fp"} /\ rws[i].outcome = o}

\* As many records of a label and a decision as rows of their outcome.
Tally(recs, rws) ==
  \A l \in Labelled, p \in BOOLEAN :
    Cardinality(Found(recs, l, p)) = Cardinality(Told(rws, ComputeOutcome(Decision(p), l)))

LEMMA OutcomesDiffer ==
  ASSUME NEW l \in Labelled, NEW m \in Labelled, NEW p \in BOOLEAN, NEW q \in BOOLEAN,
         ComputeOutcome(Decision(p), l) = ComputeOutcome(Decision(q), m)
  PROVE  l = m /\ p = q
BY DEF ComputeOutcome, Decision, Labelled

\* What a row more does to the count of an outcome, and a record more to that of a decision.
LEMMA ToldMore ==
  ASSUME NEW s, IsSeq(s), NEW x, NEW o
  PROVE  /\ Cardinality(Told(s, o)) \in Nat
         /\ IF x.label \in {"smoke", "fp"} /\ x.outcome = o
            THEN Cardinality(Told(Append(s, x), o)) = Cardinality(Told(s, o)) + 1
            ELSE Cardinality(Told(Append(s, x), o)) = Cardinality(Told(s, o))
<1> PICK t : t = Append(s, x)
  OBVIOUS
<1>1. PICK V : V = Range(s) \cup {x}
  OBVIOUS
<1>2. PICK T : T = {r \in V : r.label \in {"smoke", "fp"} /\ r.outcome = o}
  OBVIOUS
<1>3. Range(s) \subseteq V /\ Range(t) \subseteq V /\ x \in V
  BY <1>1, AppendShape
<1>4. Told(s, o) = At(s, T) /\ Told(t, o) = At(t, T)
  BY <1>2, <1>3 DEF Told, At, Range
<1>5. x \in T <=> x.label \in {"smoke", "fp"} /\ x.outcome = o
  BY <1>2, <1>3
<1>6. /\ Cardinality(At(s, T)) \in Nat
      /\ x \in T => Cardinality(At(t, T)) = Cardinality(At(s, T)) + 1
      /\ x \notin T => Cardinality(At(t, T)) = Cardinality(At(s, T))
  BY AppendCounts
<1> QED BY <1>4, <1>5, <1>6

LEMMA FoundMore ==
  ASSUME NEW s, IsSeq(s), NEW x, NEW l, NEW p
  PROVE  /\ Cardinality(Found(s, l, p)) \in Nat
         /\ IF x.label = l /\ x.positive = p
            THEN Cardinality(Found(Append(s, x), l, p)) = Cardinality(Found(s, l, p)) + 1
            ELSE Cardinality(Found(Append(s, x), l, p)) = Cardinality(Found(s, l, p))
<1> PICK t : t = Append(s, x)
  OBVIOUS
<1>1. PICK V : V = Range(s) \cup {x}
  OBVIOUS
<1>2. PICK T : T = {r \in V : r.label = l /\ r.positive = p}
  OBVIOUS
<1>3. Range(s) \subseteq V /\ Range(t) \subseteq V /\ x \in V
  BY <1>1, AppendShape
<1>4. Found(s, l, p) = At(s, T) /\ Found(t, l, p) = At(t, T)
  BY <1>2, <1>3 DEF Found, At, Range
<1>5. x \in T <=> x.label = l /\ x.positive = p
  BY <1>2, <1>3
<1>6. /\ Cardinality(At(s, T)) \in Nat
      /\ x \in T => Cardinality(At(t, T)) = Cardinality(At(s, T)) + 1
      /\ x \notin T => Cardinality(At(t, T)) = Cardinality(At(s, T))
  BY AppendCounts
<1> QED BY <1>4, <1>5, <1>6

LEMMA TallyKept ==
  ASSUME NEW recs, NEW rws, IsSeq(recs), IsSeq(rws), Tally(recs, rws),
         NEW y, NEW x, NEW b \in BOOLEAN,
         x.outcome = ComputeOutcome(Decision(b), x.label), y.label = x.label, y.positive = b
  PROVE  Tally(IF x.label \in Labelled THEN Append(recs, y) ELSE recs, Append(rws, x))
<1>1. PICK r, w : r = Append(recs, y) /\ w = Append(rws, x)
  OBVIOUS
<1>2. SUFFICES ASSUME NEW l \in Labelled, NEW p \in BOOLEAN
               PROVE  Cardinality(Found(IF x.label \in Labelled THEN r ELSE recs, l, p))
                        = Cardinality(Told(w, ComputeOutcome(Decision(p), l)))
  BY <1>1 DEF Tally
<1>3. PICK o : o = ComputeOutcome(Decision(p), l)
  OBVIOUS
<1>4. Cardinality(Found(recs, l, p)) = Cardinality(Told(rws, o))
  BY <1>3 DEF Tally
<1>5. /\ Cardinality(Told(rws, o)) \in Nat
      /\ IF x.label \in {"smoke", "fp"} /\ x.outcome = o
         THEN Cardinality(Told(w, o)) = Cardinality(Told(rws, o)) + 1
         ELSE Cardinality(Told(w, o)) = Cardinality(Told(rws, o))
  BY <1>1, ToldMore
<1>6. CASE x.label \in Labelled
  <2>1. IF y.label = l /\ y.positive = p
        THEN Cardinality(Found(r, l, p)) = Cardinality(Found(recs, l, p)) + 1
        ELSE Cardinality(Found(r, l, p)) = Cardinality(Found(recs, l, p))
    BY <1>1, FoundMore
  <2>2. (y.label = l /\ y.positive = p) <=> x.outcome = o
    BY <1>3, <1>6, OutcomesDiffer
  <2>3. x.label \in {"smoke", "fp"}
    BY <1>6 DEF Labelled
  <2> QED BY <1>3, <1>4, <1>5, <1>6, <2>1, <2>2, <2>3
<1>7. CASE x.label \notin Labelled
  <2>1. x.label \notin {"smoke", "fp"}
    BY <1>7 DEF Labelled
  <2> QED BY <1>3, <1>4, <1>5, <1>7, <2>1
<1> QED BY <1>6, <1>7

-----------------------------------------------------------------------------
\* The metrics of records that an evaluation made.

LEMMA LeastNatural ==
  ASSUME NEW T \in SUBSET Nat, T # {}
  PROVE  \E m \in T : \A k \in T : m <= k
<1>1. PICK m \in T : \A k \in T : ~ (<<k, m>> \in OpToRel(<, Nat))
  BY NatLessThanWellFounded, WFMin
<1>2. \A k \in T : ~ (k < m)
  BY <1>1, Zenon DEF OpToRel
<1> QED BY <1>2

LEMMA MinOf ==
  ASSUME NEW T \in SUBSET Nat, T # {}
  PROVE  Min(T) \in T /\ \A x \in T : Min(T) <= x
<1>1. \E m \in T : \A k \in T : m <= k
  BY LeastNatural
<1> QED BY <1>1 DEF Min

Bounded(T) == \E b \in Nat : \A x \in T : x <= b

LEMMA MaxOf ==
  ASSUME NEW T \in SUBSET Nat, T # {}, Bounded(T)
  PROVE  Max(T) \in T /\ \A x \in T : x <= Max(T)
<1>1. PICK b \in Nat : \A x \in T : x <= b
  BY DEF Bounded
<1>2. PICK N : N = {k \in Nat : \E x \in T : k = b - x}
  OBVIOUS
<1>3. \A x \in T : b - x \in N
  BY <1>1, <1>2
<1>4. PICK m \in N : \A k \in N : m <= k
  BY <1>2, <1>3, LeastNatural
<1>5. PICK y \in T : m = b - y
  BY <1>2
<1>6. \A x \in T : x \in Nat /\ y \in Nat /\ b - y <= b - x
  BY <1>3, <1>4, <1>5
<1>7. \A x \in T : y >= x
  BY <1>6
<1> QED BY <1>7 DEF Max

LEMMA Induction ==
  ASSUME NEW T, 0 \in T, \A k \in Nat : k \in T => k + 1 \in T
  PROVE  \A k \in Nat : k \in T
<1> SUFFICES ASSUME {k \in Nat : k \notin T} # {} PROVE FALSE
  OBVIOUS
<1>1. PICK m \in {k \in Nat : k \notin T} : \A k \in {k \in Nat : k \notin T} : m <= k
  BY LeastNatural
<1>2. m - 1 \in Nat /\ m - 1 \in T
  BY <1>1
<1> QED BY <1>1, <1>2

LEMMA ValuesBounded ==
  ASSUME NEW n \in Nat, NEW f \in [1..n -> Nat]
  PROVE  Bounded({f[i] : i \in 1..n})
<1>1. PICK T : T = {m \in Nat : m <= n => \E b \in Nat : \A i \in 1..m : f[i] <= b}
  OBVIOUS
<1>2. 0 \in T
  <2>1. \A i \in 1..0 : f[i] <= 0
    OBVIOUS
  <2> QED BY <1>1, <2>1
<1>3. ASSUME NEW k \in Nat, k \in T PROVE k + 1 \in T
  <2> SUFFICES ASSUME k + 1 <= n PROVE \E b \in Nat : \A i \in 1..(k + 1) : f[i] <= b
    BY <1>1
  <2>1. PICK b \in Nat : \A i \in 1..k : f[i] <= b
    BY <1>1, <1>3
  <2>2. PICK x \in Nat : x = f[k + 1]
    OBVIOUS
  <2>3. PICK c \in Nat : b <= c /\ x <= c
    <3>1. b <= b + x /\ x <= b + x /\ b + x \in Nat
      OBVIOUS
    <3> QED BY <3>1
  <2>4. \A i \in 1..(k + 1) : f[i] <= c
    <3> SUFFICES ASSUME NEW i \in 1..(k + 1) PROVE f[i] <= c
      OBVIOUS
    <3>1. i = k + 1 \/ i \in 1..k
      OBVIOUS
    <3>2. f[i] \in Nat
      OBVIOUS
    <3> QED BY <2>1, <2>2, <2>3, <3>1, <3>2
  <2> QED BY <2>4
<1>4. n \in T
  BY <1>2, <1>3, Induction
<1> QED BY <1>1, <1>4 DEF Bounded

\* A number is reached by one of some numbers exactly if their best reaches it.
LEMMA BestOf ==
  ASSUME NEW T \in SUBSET Nat, Bounded(T), NEW t \in Nat
  PROVE  /\ Best(T) \in Nat \/ (Best(T) = Null /\ T = {})
         /\ (\E x \in T : x >= t) <=> Best(T) >= t
         /\ Best(T) >= t => Best(T) # Null
<1>1. CASE T = {}
  BY <1>1 DEF Best, Null
<1>2. CASE T # {}
  <2>1. PICK m : m = Max(T)
    OBVIOUS
  <2>2. m \in T /\ m \in Nat /\ \A x \in T : x \in Nat /\ x <= m
    BY <1>2, <2>1, MaxOf
  <2>3. Best(T) = m
    BY <1>2, <2>1 DEF Best
  <2>4. (\E x \in T : x >= t) <=> m >= t
    BY <2>2
  <2> QED BY <2>2, <2>3, <2>4 DEF Null
<1> QED BY <1>1, <1>2

LEMMA TubesOf ==
  ASSUME NEW r \in 1..MaxRuns, NEW k \in Range(Sequences)
  PROVE  LET logits == {Tubes[r][k][i].logit : i \in DOMAIN Tubes[r][k]}
             chances == {Tubes[r][k][i].probability : i \in DOMAIN Tubes[r][k]}
         IN  /\ logits \in SUBSET Nat /\ Bounded(logits)
             /\ chances \in SUBSET Nat /\ Bounded(chances)
             /\ Config[r].threshold \in Nat /\ Config[r].aggregation \in {"logistic", "max_logit"}
<1>1. PICK s : s = Tubes[r][k]
  OBVIOUS
<1>2. s \in Seq([logit : Nat, probability : Nat])
  BY <1>1, EvaluateAssumption
<1>3. PICK D : D = DOMAIN s
  OBVIOUS
<1>4. D = 1..Len(s) /\ Len(s) \in Nat
  BY <1>2, <1>3
<1>5. \A i \in D : s[i].logit \in Nat /\ s[i].probability \in Nat
  <2> SUFFICES ASSUME NEW i \in D PROVE s[i].logit \in Nat /\ s[i].probability \in Nat
    OBVIOUS
  <2>1. PICK e : e = s[i]
    OBVIOUS
  <2>2. e \in [logit : Nat, probability : Nat]
    <3>1. PICK S : S = [logit : Nat, probability : Nat]
      OBVIOUS
    <3>2. s \in Seq(S)
      BY <1>2, <3>1
    <3>3. \A j \in 1..Len(s) : s[j] \in S
      BY <3>2
    <3>4. e \in S
      BY <1>4, <2>1, <3>3
    <3> QED BY <3>1, <3>4
  <2> QED BY <2>1, <2>2
<1>6. PICK f : f = [i \in D |-> s[i].logit]
  OBVIOUS
<1>7. PICK g : g = [i \in D |-> s[i].probability]
  OBVIOUS
<1>8. Bounded({f[i] : i \in D}) /\ Bounded({g[i] : i \in D})
  <2>1. f \in [D -> Nat] /\ g \in [D -> Nat]
    BY <1>5, <1>6, <1>7
  <2> QED BY <1>4, <2>1, ValuesBounded
<1>9. {f[i] : i \in D} = {s[i].logit : i \in D} /\ {g[i] : i \in D} = {s[i].probability : i \in D}
  BY <1>6, <1>7
<1>10. {s[i].logit : i \in D} \in SUBSET Nat /\ {s[i].probability : i \in D} \in SUBSET Nat
  BY <1>5
<1>11. Bounded({s[i].logit : i \in D}) /\ Bounded({s[i].probability : i \in D})
  BY <1>8, <1>9
<1>12. Config[r].threshold \in Nat /\ Config[r].aggregation \in {"logistic", "max_logit"}
  BY EvaluateAssumption
<1> QED BY <1>1, <1>3, <1>10, <1>11, <1>12

IsRecord(r, y) ==
  /\ y.positive \in BOOLEAN
  /\ y.ttd # Null => y.label = "smoke" /\ y.positive
  /\ Config[r].aggregation = "max_logit" =>
       /\ y.score \in Nat \cup {Null}
       /\ y.positive <=> y.score >= Config[r].threshold

LEMMA RecordIs ==
  ASSUME NEW r \in 1..MaxRuns, NEW k \in Range(Sequences)
  PROVE  /\ IsRecord(r, Record(r, k)) /\ Positive(r, k) \in BOOLEAN
         /\ Record(r, k).label = Label[k] /\ Record(r, k).positive = Positive(r, k)
<1>1. PICK T : T = {Tubes[r][k][i].logit : i \in DOMAIN Tubes[r][k]}
  OBVIOUS
<1>2. T \in SUBSET Nat /\ Bounded(T) /\ Config[r].threshold \in Nat
  BY <1>1, TubesOf
<1>3. Score(Tubes[r][k]) = Best(T)
  BY <1>1 DEF Score
<1>4. /\ Best(T) \in Nat \cup {Null}
      /\ (\E x \in T : x >= Config[r].threshold) <=> Best(T) >= Config[r].threshold
  BY <1>2, BestOf
<1>5. Config[r].aggregation = "max_logit" =>
        (Positive(r, k) <=> \E x \in T : x >= Config[r].threshold)
  BY <1>1 DEF Positive
<1>6. Positive(r, k) \in BOOLEAN
  BY DEF Positive
<1>7. PICK b, c : b = Positive(r, k) /\ c = Score(Tubes[r][k])
  OBVIOUS
<1>8. Record(r, k) = [label |-> Label[k], positive |-> b, score |-> c,
                      ttd |-> IF Label[k] = "smoke" /\ b THEN Trigger[r][k] ELSE Null]
  BY <1>7 DEF Record
<1> QED BY <1>3, <1>4, <1>5, <1>6, <1>7, <1>8 DEF IsRecord

MetricsHold(r, recs, m) ==
  /\ m.tp = Cardinality(Found(recs, "smoke", TRUE))
  /\ m.fn = Cardinality(Found(recs, "smoke", FALSE))
  /\ m.fp = Cardinality(Found(recs, "fp", TRUE))
  /\ m.tn = Cardinality(Found(recs, "fp", FALSE))
  /\ \A k \in DOMAIN m.within : m.within[k] <= m.tp
  /\ Config[r].aggregation = "max_logit" /\ m.tp > 0 /\ 100 * m.tp >= 95 * (m.tp + m.fn)
       /\ m.fp + m.tn > 0
     => m.fprAtRecall # Null /\ m.fprAtRecall <= m.fp

LEMMA MetricsOf ==
  ASSUME NEW r \in 1..MaxRuns, NEW recs, IsSeq(recs), \A i \in DOMAIN recs : IsRecord(r, recs[i])
  PROVE  MetricsHold(r, recs, Metrics(recs))
<1> PICK m : m = Metrics(recs)
  OBVIOUS
<1>1. PICK tp, fn, fp, tn :
         /\ tp = Cardinality(Found(recs, "smoke", TRUE)) /\ fn = Cardinality(Found(recs, "smoke", FALSE))
         /\ fp = Cardinality(Found(recs, "fp", TRUE)) /\ tn = Cardinality(Found(recs, "fp", FALSE))
  OBVIOUS
<1>2. \A l, p : Found(recs, l, p) \subseteq DOMAIN recs
  BY DEF Found
<1>3. tp \in Nat /\ fn \in Nat /\ fp \in Nat /\ tn \in Nat
  BY <1>1, <1>2, Counted
<1>4. PICK x, w : x = FprAtRecall(recs, 95) /\ w = [k \in {2, 3, 5} |-> DetectedWithin(recs, k)]
  OBVIOUS
<1>5. m = [tp |-> tp, fn |-> fn, fp |-> fp, tn |-> tn, fprAtRecall |-> x, within |-> w]
  BY <1>1, <1>4 DEF Metrics, Found
<1>6. m.tp = tp /\ m.fn = fn /\ m.fp = fp /\ m.tn = tn /\ m.fprAtRecall = x /\ m.within = w
  BY <1>5
<1>7. \A k \in {2, 3, 5} : w[k] <= tp
  <2> SUFFICES ASSUME NEW k \in {2, 3, 5} PROVE DetectedWithin(recs, k) <= tp
    BY <1>4
  <2>1. PICK E : E = {i \in DOMAIN recs : recs[i].label = "smoke" /\ recs[i].ttd # Null /\ recs[i].ttd < k}
    OBVIOUS
  <2>2. DetectedWithin(recs, k) = Cardinality(E)
    BY <2>1 DEF DetectedWithin
  <2>3. E \subseteq Found(recs, "smoke", TRUE)
    BY <2>1 DEF Found, IsRecord
  <2> QED BY <1>1, <1>2, <2>2, <2>3, CountedWithin
<1>8. ASSUME Config[r].aggregation = "max_logit", tp > 0, 100 * tp >= 95 * (tp + fn), fp + tn > 0
      PROVE  x # Null /\ x <= fp
  <2>1. PICK S, F : /\ S = {i \in DOMAIN recs : recs[i].label = "smoke"}
                    /\ F = {i \in DOMAIN recs : recs[i].label = "fp"}
    OBVIOUS
  <2>2. PICK A, B : A = Found(recs, "smoke", TRUE) /\ B = Found(recs, "smoke", FALSE)
    OBVIOUS
  <2>3. A \cup B = S /\ A \cap B = {} /\ IsFiniteSet(A) /\ IsFiniteSet(B)
    <3>1. IsFiniteSet(A) /\ IsFiniteSet(B)
      BY <1>2, <2>2, Counted
    <3> QED BY <2>1, <2>2, <3>1 DEF Found, IsRecord
  <2>4. Cardinality(S) = tp + fn
    <3>1. Cardinality(A \cup B) = Cardinality(A) + Cardinality(B) - Cardinality(A \cap B)
      BY <2>3, FS_Union
    <3>2. Cardinality(A \cap B) = 0
      BY <2>3, FS_EmptySet
    <3>3. Cardinality(A) = tp /\ Cardinality(B) = fn
      BY <1>1, <2>2
    <3> QED BY <1>3, <2>3, <3>1, <3>2, <3>3
  <2>5. A # {}
    <3>1. A = {} => tp = 0
      BY <1>1, <2>2, FS_EmptySet
    <3> QED BY <1>3, <1>8, <3>1
  <2>6. F # {}
    <3>1. F = {} => Found(recs, "fp", TRUE) = {} /\ Found(recs, "fp", FALSE) = {}
      BY <2>1 DEF Found
    <3>2. F = {} => fp = 0 /\ tn = 0
      BY <1>1, <3>1, FS_EmptySet
    <3> QED BY <1>8, <3>2
  <2>7. PICK d : d = Config[r].threshold
    OBVIOUS
  <2>8. d \in Nat
    BY <2>7, EvaluateAssumption
  <2>9. \A i \in DOMAIN recs : /\ recs[i].positive \in BOOLEAN /\ recs[i].score \in Nat \cup {Null}
                               /\ recs[i].positive <=> recs[i].score >= d
    BY <1>8, <2>7 DEF IsRecord
  <2>10. PICK T : T = {recs[i].score : i \in A}
    OBVIOUS
  <2>11. \A i \in A : recs[i].score \in Nat /\ recs[i].score >= d
    <3>1. \A i \in A : i \in DOMAIN recs /\ recs[i].positive = TRUE
      BY <2>2 DEF Found
    <3>2. \A i \in A : recs[i].score >= d /\ recs[i].score \in Nat \cup {Null}
      BY <2>9, <3>1
    <3> QED BY <2>8, <3>2 DEF Null
  <2>12. PICK t \in T : \A k \in T : t <= k
    <3>1. T \in SUBSET Nat /\ T # {}
      BY <2>5, <2>10, <2>11
    <3> QED BY <3>1, LeastNatural
  <2>13. t \in Nat /\ t >= d /\ (\E i \in A : recs[i].score = t) /\ \A i \in A : recs[i].score >= t
    BY <2>10, <2>11, <2>12
  <2>14. PICK above : above = [u \in Nat |-> Cardinality({i \in F : recs[i].score >= u})]
    OBVIOUS
  <2>15. PICK reached : reached = [u \in Nat |-> Cardinality({i \in S : recs[i].score >= u})]
    OBVIOUS
  <2>16. reached[t] \in Nat /\ tp <= reached[t]
    <3>1. PICK G : G = {i \in S : recs[i].score >= t}
      OBVIOUS
    <3>2. A \subseteq G /\ G \subseteq DOMAIN recs
      BY <2>1, <2>3, <2>13, <3>1
    <3>3. Cardinality(A) <= Cardinality(G) /\ Cardinality(G) \in Nat
      BY <3>2, CountedWithin
    <3> QED BY <1>1, <2>2, <2>13, <2>15, <3>1, <3>3
  <2>17. above[t] \in Nat /\ above[t] <= fp
    <3>1. PICK G : G = {i \in F : recs[i].score >= t}
      OBVIOUS
    <3>2. G \subseteq Found(recs, "fp", TRUE)
      <4> SUFFICES ASSUME NEW i \in G PROVE i \in Found(recs, "fp", TRUE)
        OBVIOUS
      <4>1. i \in DOMAIN recs /\ recs[i].label = "fp" /\ recs[i].score >= t
        BY <2>1, <3>1
      <4>2. recs[i].score >= d
        BY <2>8, <2>9, <2>13, <4>1 DEF Null
      <4>3. recs[i].positive = TRUE
        BY <2>9, <4>1, <4>2
      <4> QED BY <4>1, <4>3 DEF Found
    <3>3. Cardinality(G) <= Cardinality(Found(recs, "fp", TRUE)) /\ Cardinality(G) \in Nat
      BY <1>2, <3>2, CountedWithin
    <3> QED BY <1>1, <2>13, <2>14, <3>1, <3>3
  <2>18. PICK R : R = {u \in {recs[i].score : i \in S} \ {Null} : 100 * reached[u] >= 95 * Cardinality(S)}
    OBVIOUS
  <2>19. t \in R
    <3>1. t \in {recs[i].score : i \in S} /\ t # Null
      BY <2>3, <2>13 DEF Null
    <3>2. 100 * reached[t] >= 95 * Cardinality(S)
      BY <1>3, <1>8, <2>4, <2>16
    <3> QED BY <2>18, <3>1, <3>2
  <2>20. \A u \in R : u \in Nat
    BY <2>1, <2>9, <2>18
  <2>21. x = Min({above[u] : u \in R})
    <3>1. \A u \in R : /\ above[u] = Cardinality({i \in F : recs[i].score >= u})
                       /\ reached[u] = Cardinality({i \in S : recs[i].score >= u})
      BY <2>14, <2>15, <2>20
    <3>2. PICK Q : Q = {u \in {recs[i].score : i \in S} \ {Null} :
                          100 * Cardinality({i \in S : recs[i].score >= u}) >= 95 * Cardinality(S)}
      OBVIOUS
    <3>3. \A u \in {recs[i].score : i \in S} \ {Null} :
             u \in Nat /\ reached[u] = Cardinality({i \in S : recs[i].score >= u})
      BY <2>1, <2>9, <2>15
    <3>4. R = Q
      BY <2>18, <3>2, <3>3
    <3>5. {above[u] : u \in R} = {Cardinality({i \in F : recs[i].score >= u}) : u \in Q}
      BY <3>1, <3>4
    <3>6. S # {}
      BY <2>3, <2>5
    <3>7. x = IF S = {} \/ F = {} \/ Q = {} THEN Null
              ELSE Min({Cardinality({i \in F : recs[i].score >= u}) : u \in Q})
      BY <1>4, <2>1, <3>2 DEF FprAtRecall
    <3> QED BY <2>6, <2>19, <3>4, <3>5, <3>6, <3>7
  <2>22. PICK N : N = {above[u] : u \in R}
    OBVIOUS
  <2>23. N \in SUBSET Nat /\ above[t] \in N
    <3>1. \A u \in R : above[u] \in Nat
      <4> SUFFICES ASSUME NEW u \in R PROVE above[u] \in Nat
        OBVIOUS
      <4>1. PICK G : G = {i \in F : recs[i].score >= u}
        OBVIOUS
      <4>2. G \subseteq DOMAIN recs
        BY <2>1, <4>1
      <4>3. Cardinality(G) \in Nat
        BY <4>2, Counted
      <4> QED BY <2>14, <2>20, <4>1, <4>3
    <3> QED BY <2>19, <2>22, <3>1
  <2>24. Min(N) \in N /\ \A k \in N : Min(N) <= k
    BY <2>23, MinOf
  <2>25. PICK q : q = Min(N)
    OBVIOUS
  <2>26. q \in Nat /\ q <= above[t] /\ x = q
    BY <2>21, <2>22, <2>23, <2>24, <2>25
  <2> QED BY <1>3, <2>17, <2>26 DEF Null
<1> QED BY <1>1, <1>4, <1>6, <1>7, <1>8 DEF MetricsHold

-----------------------------------------------------------------------------
\* What a run has written and what it holds.

\* Records and rows of the current run, which agree.
Made ==
  /\ IsSeq(records) /\ IsSeq(rows) /\ Tally(records, rows)
  /\ \A i \in DOMAIN records : IsRecord(run, records[i])

Measured == tree.metrics = [run |-> run, is |-> Metrics(records)]

IsTree ==
  tree = [config |-> tree.config, metrics |-> tree.metrics, results |-> tree.results,
          details |-> tree.details, views |-> tree.views]

\* The results are of an earlier run until the metrics of this one are there.
EvalInv ==
  /\ run \in 0..MaxRuns /\ stage \in {"idle", "sequences", "results"}
  /\ IsTree /\ tree.results.run \in Int
  /\ stage # "idle" => run \in 1..MaxRuns /\ tree.results.run < run /\ Made
  /\ stage = "sequences" => todo \in Seq(Range(Sequences))
  /\ stage = "results" => Measured
  /\ stage = "idle" =>
       /\ tree.results.run <= run
       /\ tree.results.run = run /\ run > 0 => run \in 1..MaxRuns /\ Measured /\ Made /\ tree.results.rows = rows

LEMMA EmptyMade ==
  ASSUME NEW recs, NEW rws, recs = <<>>, rws = <<>>
  PROVE  IsSeq(recs) /\ IsSeq(rws) /\ Tally(recs, rws) /\ DOMAIN recs = {}
<1>1. IsSeq(recs) /\ IsSeq(rws)
  BY DEF IsSeq
<1>2. DOMAIN recs = {} /\ DOMAIN rws = {}
  OBVIOUS
<1>3. \A l, p, o : Found(recs, l, p) = {} /\ Told(rws, o) = {}
  BY <1>2 DEF Found, Told
<1>4. Tally(recs, rws)
  BY <1>3 DEF Tally
<1> QED BY <1>1, <1>2, <1>4

LEMMA StartEval == ASSUME EvalInv, NEW clean \in BOOLEAN, Start(clean) PROVE EvalInv'
<1>1. /\ stage = "idle" /\ run < MaxRuns /\ run' = run + 1 /\ stage' = "sequences"
      /\ todo' = Sequences /\ rows' = <<>> /\ records' = <<>>
  BY DEF Start
<1>2. PICK c : c = [run |-> run', is |-> Config[run']]
  OBVIOUS
<1>3. run \in Nat /\ MaxRuns \in Nat /\ run' \in 1..MaxRuns /\ run' \in Nat
  <2>1. MaxRuns \in Nat
    BY EvaluateAssumption
  <2> QED BY <1>1, <2>1 DEF EvalInv
<1>4. IsTree' /\ (tree'.results = tree.results \/ tree'.results = Missing)
  <2>1. tree' = [(IF clean THEN NoTree ELSE tree) EXCEPT !.config = c]
    BY <1>2 DEF Start
  <2>2. CASE clean
    <3>1. tree' = [config |-> c, metrics |-> NoTree.metrics, results |-> NoTree.results,
                   details |-> NoTree.details, views |-> NoTree.views] /\ NoTree.results = Missing
      BY <2>1, <2>2 DEF NoTree
    <3> QED BY <3>1 DEF IsTree
  <2>3. CASE ~clean
    <3>1. tree' = [config |-> c, metrics |-> tree.metrics, results |-> tree.results,
                   details |-> tree.details, views |-> tree.views]
      BY <2>1, <2>3 DEF EvalInv, IsTree
    <3> QED BY <3>1 DEF IsTree
  <2> QED BY <2>2, <2>3
<1>5. tree'.results.run \in Int /\ tree'.results.run < run'
  <2>1. tree.results.run \in Int /\ tree.results.run <= run
    BY <1>1 DEF EvalInv
  <2> QED BY <1>1, <1>3, <1>4, <2>1 DEF Missing
<1>6. Made'
  BY <1>1, EmptyMade DEF Made
<1>7. todo' \in Seq(Range(Sequences))
  BY <1>1, EvaluateAssumption
<1> QED BY <1>1, <1>3, <1>4, <1>5, <1>6, <1>7 DEF EvalInv

LEMMA SequenceEval == ASSUME EvalInv, EvaluateSequence PROVE EvalInv'
<1>1. PICK k : k = Head(todo)
  OBVIOUS
<1>2. /\ stage = "sequences" /\ stage' = stage /\ run' = run /\ todo # <<>> /\ todo' = Tail(todo)
      /\ records' = IF Label[k] \in {"smoke", "fp"} THEN Append(records, Record(run, k)) ELSE records
      /\ rows' = Append(rows, Row(run, k))
      /\ tree' = [tree EXCEPT !.details[k] = [run |-> run, key |-> k], !.views[k] = [run |-> run, key |-> k]]
  BY <1>1 DEF EvaluateSequence
<1>3. todo \in Seq(Range(Sequences)) /\ run \in 1..MaxRuns /\ Made
  BY <1>2 DEF EvalInv
<1>4. k \in Range(Sequences) /\ todo' \in Seq(Range(Sequences))
  BY <1>1, <1>2, <1>3
<1>5. PICK y, x, b : y = Record(run, k) /\ x = Row(run, k) /\ b = Positive(run, k)
  OBVIOUS
<1>6. IsRecord(run, y) /\ b \in BOOLEAN /\ y.label = Label[k] /\ y.positive = b
  BY <1>3, <1>4, <1>5, RecordIs
<1>7. x.label = Label[k] /\ x.outcome = ComputeOutcome(Decision(b), x.label)
  <2>1. PICK d, o, p : d = Decision(b) /\ o = ComputeOutcome(Decision(b), Label[k])
                       /\ p = MaxProbability(Tubes[run][k])
    OBVIOUS
  <2>2. x = [key |-> k, source |-> Evaluated, run |-> run, mode |-> "eval", label |-> Label[k],
             decision |-> d, outcome |-> o, probability |-> p,
             camera |-> Camera[k], organization |-> "none"]
    BY <1>5, <2>1 DEF Row
  <2>3. x.label = Label[k] /\ x.outcome = o
    BY <2>2
  <2> QED BY <2>1, <2>3
<1>8. PICK recs, rws : recs = records /\ rws = rows
  OBVIOUS
<1>9. IsSeq(recs) /\ IsSeq(rws) /\ Tally(recs, rws) /\ \A i \in DOMAIN recs : IsRecord(run, recs[i])
  BY <1>3, <1>8 DEF Made
<1>10. PICK r, w : r = Append(recs, y) /\ w = Append(rws, x)
  OBVIOUS
<1>11. records' = (IF x.label \in Labelled THEN r ELSE recs) /\ rows' = w
  BY <1>2, <1>5, <1>7, <1>8, <1>10 DEF Labelled
<1>12. Tally(IF x.label \in Labelled THEN r ELSE recs, w)
  BY <1>6, <1>7, <1>9, <1>10, TallyKept
<1>13. IsSeq(r) /\ IsSeq(w) /\ \A i \in DOMAIN r : IsRecord(run, r[i])
  <2>1. /\ IsSeq(r) /\ Len(r) = Len(recs) + 1 /\ r[Len(recs) + 1] = y
        /\ \A i \in 1..Len(recs) : r[i] = recs[i]
    BY <1>9, <1>10, AppendShape
  <2>2. IsSeq(w)
    BY <1>9, <1>10, AppendShape
  <2>3. DOMAIN r = 1..(Len(recs) + 1) /\ DOMAIN recs = 1..Len(recs) /\ Len(recs) \in Nat
    BY <1>9, <2>1, SeqShape
  <2>4. \A i \in DOMAIN r : i = Len(recs) + 1 \/ i \in DOMAIN recs
    BY <2>3
  <2>5. \A i \in DOMAIN r : r[i] = y \/ (i \in DOMAIN recs /\ r[i] = recs[i])
    BY <2>1, <2>3, <2>4
  <2> QED BY <1>6, <1>9, <2>1, <2>2, <2>5
<1>14. Made'
  BY <1>2, <1>9, <1>11, <1>12, <1>13 DEF Made
<1>15. IsTree' /\ tree'.results = tree.results
  <2>1. PICK d, v : tree' = [config |-> tree.config, metrics |-> tree.metrics, results |-> tree.results,
                             details |-> d, views |-> v]
    BY <1>2 DEF EvalInv, IsTree
  <2> QED BY <2>1 DEF IsTree
<1> QED BY <1>2, <1>4, <1>14, <1>15 DEF EvalInv

LEMMA AbortEval == ASSUME EvalInv, Abort PROVE EvalInv'
<1>1. stage # "idle" /\ stage' = "idle" /\ run' = run /\ rows' = rows /\ records' = records /\ todo' = todo
  BY DEF Abort
<1>2. IsTree' /\ (tree'.results = tree.results \/ tree'.results = Cut)
  <2>1. \/ tree' = tree
        \/ \E k, left : tree' = [tree EXCEPT !.details[k] = left]
        \/ tree' = [tree EXCEPT !.results = Cut]
    BY DEF Abort
  <2>2. PICK d, r : /\ tree' = [config |-> tree.config, metrics |-> tree.metrics, results |-> r,
                                details |-> d, views |-> tree.views]
                    /\ r = tree.results \/ r = Cut
    BY <2>1 DEF EvalInv, IsTree
  <2> QED BY <2>2 DEF IsTree
<1>3. tree'.results.run \in Int /\ tree'.results.run < run /\ run \in Nat /\ run \in 1..MaxRuns
  <2>1. tree.results.run \in Int /\ tree.results.run < run /\ run \in 1..MaxRuns /\ run \in 0..MaxRuns
    BY <1>1 DEF EvalInv
  <2> QED BY <1>2, <2>1 DEF Cut
<1> QED BY <1>1, <1>2, <1>3 DEF EvalInv

LEMMA StepEval == ASSUME EvalInv, Evaluation \/ UNCHANGED evaluation PROVE EvalInv'
<1>1. CASE Drop
  <2>1. /\ stage = "sequences" /\ todo # <<>> /\ todo' = Tail(todo)
        /\ UNCHANGED <<run, stage, rows, records, tree>>
    BY <1>1 DEF Drop
  <2>2. todo \in Seq(Range(Sequences))
    BY <2>1 DEF EvalInv
  <2>3. todo' \in Seq(Range(Sequences))
    BY <2>1, <2>2
  <2> QED BY <2>1, <2>3 DEF EvalInv, IsTree, Made, Measured
<1>2. CASE WriteMetrics
  <2>1. PICK m : m = [run |-> run, is |-> Metrics(records)]
    OBVIOUS
  <2>2. /\ stage = "sequences" /\ stage' = "results" /\ UNCHANGED <<run, todo, rows, records>>
        /\ tree' = [tree EXCEPT !.metrics = m]
    BY <1>2, <2>1 DEF WriteMetrics
  <2>3. tree' = [config |-> tree.config, metrics |-> m, results |-> tree.results,
                 details |-> tree.details, views |-> tree.views]
    BY <2>2 DEF EvalInv, IsTree
  <2>4. IsTree' /\ tree'.metrics = m /\ tree'.results = tree.results
    BY <2>3 DEF IsTree
  <2> QED BY <2>1, <2>2, <2>4 DEF EvalInv, Made, Measured
<1>3. CASE WriteResults
  <2>1. PICK r : r = [run |-> run, rows |-> rows]
    OBVIOUS
  <2>2. /\ stage = "results" /\ stage' = "idle" /\ UNCHANGED <<run, todo, rows, records>>
        /\ tree' = [tree EXCEPT !.results = r]
    BY <1>3, <2>1 DEF WriteResults
  <2>3. tree' = [config |-> tree.config, metrics |-> tree.metrics, results |-> r,
                 details |-> tree.details, views |-> tree.views]
    BY <2>2 DEF EvalInv, IsTree
  <2>4. IsTree' /\ tree'.metrics = tree.metrics /\ tree'.results.run = run /\ tree'.results.rows = rows
    BY <2>1, <2>3 DEF IsTree
  <2>5. run \in 1..MaxRuns /\ run \in 0..MaxRuns /\ run <= run /\ run \in Int
    BY <2>2 DEF EvalInv
  <2> QED BY <2>2, <2>4, <2>5 DEF EvalInv, Made, Measured
<1>4. CASE UNCHANGED evaluation
  BY <1>4 DEF evaluation, EvalInv, IsTree, Made, Measured
<1> QED BY <1>1, <1>2, <1>3, <1>4, StartEval, SequenceEval, AbortEval DEF Evaluation

LEMMA InitEval == Init => EvalInv
<1> SUFFICES ASSUME Init PROVE EvalInv
  OBVIOUS
<1>1. run = 0 /\ stage = "idle" /\ tree = NoTree
  BY DEF Init, EvaluateInit
<1>2. IsTree /\ tree.results.run = 0
  BY <1>1 DEF IsTree, NoTree, Missing
<1>3. MaxRuns \in Nat
  BY EvaluateAssumption
<1> QED BY <1>1, <1>2, <1>3 DEF EvalInv

\* The page does not touch the evaluation.
LEMMA EvaluationSteps == [Next]_vars => Evaluation \/ UNCHANGED evaluation
BY DEF Next, vars, evaluation, browser, Click, Filtered, ByOrganization, Answer, Lose,
   ChooseSource, Select, MoveSlider, ResetSlider, Filter, Sort

\* The two accounts of an evaluation agree: the confusion counts of metrics.json are those a
\* reader counts in results.json, an alert within k frames is a detection, and a model that
\* decides by its score is not beaten by its own threshold (protocol_eval.py, outcomes.py).
THEOREM AccountsAgree == Spec => []MetricsAgree
<1>1. EvalInv /\ [Next]_vars => EvalInv'
  BY StepEval, EvaluationSteps
<1>2. EvalInv => MetricsAgree
  <2> SUFFICES ASSUME EvalInv, Finished PROVE MetricsAgree
    BY DEF MetricsAgree
  <2>1. run \in 1..MaxRuns /\ Measured /\ Made /\ tree.results.rows = rows
    BY DEF Finished, EvalInv
  <2>2. PICK m, r : m = Metrics(records) /\ r = run
    OBVIOUS
  <2>3. MetricsHold(r, records, m)
    <3>1. PICK recs : recs = records
      OBVIOUS
    <3>2. IsSeq(recs) /\ r \in 1..MaxRuns /\ \A i \in DOMAIN recs : IsRecord(r, recs[i])
      BY <2>1, <2>2, <3>1 DEF Made
    <3> QED BY <2>2, <3>1, <3>2, MetricsOf
  <2>4. tree.metrics.is = m /\ tree.metrics.run = run
    BY <2>1, <2>2 DEF Measured
  <2>5. PICK a, b, c, d : /\ a = Cardinality(Told(rows, "kept-smoke"))
                          /\ b = Cardinality(Told(rows, "discarded-smoke"))
                          /\ c = Cardinality(Told(rows, "kept-fp"))
                          /\ d = Cardinality(Told(rows, "discarded-fp"))
    OBVIOUS
  <2>6. PerformanceSummary(rows) = [tp |-> a, fn |-> b, fp |-> c, tn |-> d]
    BY <2>5 DEF PerformanceSummary, Told
  <2>7. m.tp = a /\ m.fn = b /\ m.fp = c /\ m.tn = d
    <3>1. /\ ComputeOutcome(Decision(TRUE), "smoke") = "kept-smoke"
          /\ ComputeOutcome(Decision(FALSE), "smoke") = "discarded-smoke"
          /\ ComputeOutcome(Decision(TRUE), "fp") = "kept-fp"
          /\ ComputeOutcome(Decision(FALSE), "fp") = "discarded-fp"
      BY DEF ComputeOutcome, Decision
    <3>2. /\ Cardinality(Found(records, "smoke", TRUE)) = a
          /\ Cardinality(Found(records, "smoke", FALSE)) = b
          /\ Cardinality(Found(records, "fp", TRUE)) = c
          /\ Cardinality(Found(records, "fp", FALSE)) = d
      BY <2>1, <2>5, <3>1 DEF Made, Tally, Labelled
    <3> QED BY <2>3, <3>2 DEF MetricsHold
  <2>8. [x \in {"tp", "fn", "fp", "tn"} |-> m[x]] = PerformanceSummary(rows)
    BY <2>6, <2>7
  <2>9. /\ \A k \in DOMAIN m.within : m.within[k] <= m.tp
        /\ Config[run].aggregation = "max_logit" /\ m.tp > 0 /\ 100 * m.tp >= 95 * (m.tp + m.fn)
             /\ m.fp + m.tn > 0
           => m.fprAtRecall # Null /\ m.fprAtRecall <= m.fp
    BY <2>2, <2>3 DEF MetricsHold
  <2> QED BY <2>1, <2>4, <2>8, <2>9 DEF MetricsAgree
<1> QED BY <1>1, <1>2, InitEval, PTL DEF Spec

-----------------------------------------------------------------------------
\* The fetches on their way: one is removed, others are sent after those that stay.

IsLast(a, i, kind) ==
  /\ i \in DOMAIN a /\ a[i].kind = kind
  /\ \A j \in DOMAIN a : a[j].kind = kind => j <= i

\* b is a without its i-th.
Without(a, i, b) ==
  /\ IsSeq(a) /\ IsSeq(b) /\ i \in DOMAIN a
  /\ \A j \in DOMAIN b : IF j < i THEN j \in DOMAIN a /\ j # i /\ b[j] = a[j]
                         ELSE j + 1 \in DOMAIN a /\ j + 1 # i /\ b[j] = a[j + 1]
  /\ \A m \in DOMAIN a : /\ m < i => m \in DOMAIN b /\ b[m] = a[m]
                         /\ m > i => m - 1 \in DOMAIN b /\ b[m - 1] = a[m]

LEMMA RemoveAtShape ==
  ASSUME NEW s, IsSeq(s), NEW i \in DOMAIN s
  PROVE  Without(s, i, RemoveAt(s, i))
<1>1. PICK S, n : S = Range(s) /\ n = Len(s)
  OBVIOUS
<1>2. s \in Seq(S) /\ n \in Nat /\ DOMAIN s = 1..n /\ i \in 1..n /\ i \in Nat
  <2>1. s \in Seq(S)
    BY <1>1 DEF IsSeq
  <2> QED BY <1>1, <2>1, SeqShape
<1>3. \A k \in 1..n : s[k] \in S
  BY <1>2
<1>4. PICK front, back : front = SubSeq(s, 1, i - 1) /\ back = SubSeq(s, i + 1, n)
  OBVIOUS
<1>5. front \in Seq(S) /\ Len(front) = i - 1 /\ \A k \in 1..(i - 1) : front[k] = s[k]
  <2>1. \A k \in 1..(i - 1) : s[k] \in S
    BY <1>2, <1>3
  <2> QED BY <1>2, <1>4, <2>1, SubSeqProperties
<1>6. back \in Seq(S) /\ Len(back) = n - i /\ \A k \in 1..(n - i) : back[k] = s[k + i]
  <2>1. \A k \in (i + 1)..n : s[k] \in S
    BY <1>2, <1>3
  <2>2. /\ back \in Seq(S)
        /\ Len(back) = IF i + 1 <= n THEN n - (i + 1) + 1 ELSE 0
        /\ \A k \in 1..(n - (i + 1) + 1) : back[k] = s[(i + 1) + k - 1]
    BY <1>2, <1>4, <2>1, SubSeqProperties
  <2>3. \A k \in 1..(n - i) : k \in 1..(n - (i + 1) + 1) /\ (i + 1) + k - 1 = k + i
    BY <1>2
  <2>4. (IF i + 1 <= n THEN n - (i + 1) + 1 ELSE 0) = n - i
    BY <1>2
  <2> QED BY <2>2, <2>3, <2>4
<1>7. PICK b : b = front \o back
  OBVIOUS
<1>8. RemoveAt(s, i) = b
  BY <1>1, <1>4, <1>7 DEF RemoveAt
<1>9. /\ b \in Seq(S) /\ Len(b) = n - 1
      /\ \A k \in 1..(n - 1) : b[k] = IF k <= i - 1 THEN front[k] ELSE back[k - (i - 1)]
  <2>1. /\ b \in Seq(S) /\ Len(b) = Len(front) + Len(back)
        /\ \A k \in 1..(Len(front) + Len(back)) :
             b[k] = IF k <= Len(front) THEN front[k] ELSE back[k - Len(front)]
    BY <1>5, <1>6, <1>7, ConcatProperties
  <2>2. Len(front) + Len(back) = n - 1
    BY <1>2, <1>5, <1>6
  <2> QED BY <1>5, <2>1, <2>2
<1>10. ASSUME NEW k \in 1..(n - 1) PROVE b[k] = s[IF k < i THEN k ELSE k + 1]
  <2>1. CASE k < i
    BY <1>2, <1>5, <1>9, <2>1
  <2>2. CASE ~(k < i)
    <3>1. k - (i - 1) \in 1..(n - i) /\ (k - (i - 1)) + i = k + 1 /\ ~(k <= i - 1)
      BY <1>2, <2>2
    <3> QED BY <1>6, <1>9, <2>2, <3>1
  <2> QED BY <2>1, <2>2
<1>11. DOMAIN b = 1..(n - 1)
  BY <1>9
<1>12. \A j \in DOMAIN b : IF j < i THEN j \in DOMAIN s /\ j # i /\ b[j] = s[j]
                           ELSE j + 1 \in DOMAIN s /\ j + 1 # i /\ b[j] = s[j + 1]
  <2> SUFFICES ASSUME NEW j \in 1..(n - 1)
               PROVE  IF j < i THEN j \in 1..n /\ j # i /\ b[j] = s[j]
                      ELSE j + 1 \in 1..n /\ j + 1 # i /\ b[j] = s[j + 1]
    BY <1>2, <1>11
  <2>1. IF j < i THEN j \in 1..n /\ j # i ELSE j + 1 \in 1..n /\ j + 1 # i
    BY <1>2
  <2> QED BY <1>10, <2>1
<1>13. \A m \in DOMAIN s : /\ m < i => m \in DOMAIN b /\ b[m] = s[m]
                           /\ m > i => m - 1 \in DOMAIN b /\ b[m - 1] = s[m]
  <2> SUFFICES ASSUME NEW m \in 1..n
               PROVE  /\ m < i => m \in 1..(n - 1) /\ b[m] = s[m]
                      /\ m > i => m - 1 \in 1..(n - 1) /\ b[m - 1] = s[m]
    BY <1>2, <1>11
  <2>1. m < i => m \in 1..(n - 1)
    BY <1>2
  <2>2. m > i => m - 1 \in 1..(n - 1) /\ ~(m - 1 < i) /\ (m - 1) + 1 = m
    BY <1>2
  <2> QED BY <1>10, <2>1, <2>2
<1>14. IsSeq(b)
  <2>1. b \in [1..(n - 1) -> Range(b)]
    BY <1>9, <1>11 DEF Range
  <2>2. n - 1 \in Nat
    BY <1>2
  <2> QED BY <2>1, <2>2 DEF IsSeq
<1> QED BY <1>8, <1>12, <1>13, <1>14 DEF Without

\* c is a followed by b.
Joined(a, b, c) ==
  /\ IsSeq(a) /\ IsSeq(b) /\ IsSeq(c)
  /\ \A j \in DOMAIN c : IF j <= Len(a) THEN j \in DOMAIN a /\ c[j] = a[j]
                         ELSE j - Len(a) \in DOMAIN b /\ c[j] = b[j - Len(a)]
  /\ \A m \in DOMAIN a : m \in DOMAIN c /\ c[m] = a[m]
  /\ \A m \in DOMAIN b : Len(a) + m \in DOMAIN c /\ c[Len(a) + m] = b[m] /\ Len(a) + m > Len(a)

LEMMA ConcatShape ==
  ASSUME NEW a, IsSeq(a), NEW b, IsSeq(b)
  PROVE  Joined(a, b, a \o b)
<1>1. PICK S, c, n, k : S = Range(a) \cup Range(b) /\ c = a \o b /\ n = Len(a) /\ k = Len(b)
  OBVIOUS
<1>2. a \in Seq(S) /\ b \in Seq(S)
  BY <1>1 DEF IsSeq
<1>3. /\ n \in Nat /\ k \in Nat /\ DOMAIN a = 1..n /\ DOMAIN b = 1..k
  BY <1>1, SeqShape
<1>4. /\ c \in Seq(S) /\ Len(c) = n + k
      /\ \A j \in 1..(n + k) : c[j] = IF j <= n THEN a[j] ELSE b[j - n]
  BY <1>1, <1>2, ConcatProperties
<1>5. DOMAIN c = 1..(n + k)
  BY <1>4
<1>6. \A j \in 1..(n + k) : IF j <= n THEN j \in 1..n ELSE j - n \in 1..k
  BY <1>3
<1>7. \A m \in 1..n : m \in 1..(n + k) /\ m <= n
  BY <1>3
<1>8. \A m \in 1..k : n + m \in 1..(n + k) /\ ~(n + m <= n) /\ n + m > n /\ (n + m) - n = m
  BY <1>3
<1>9. IsSeq(c)
  <2>1. c \in [1..(n + k) -> Range(c)]
    BY <1>4, <1>5 DEF Range
  <2>2. n + k \in Nat
    BY <1>3
  <2> QED BY <2>1, <2>2 DEF IsSeq
<1>10. \A j \in DOMAIN c : IF j <= n THEN j \in DOMAIN a /\ c[j] = a[j]
                           ELSE j - n \in DOMAIN b /\ c[j] = b[j - n]
  BY <1>3, <1>4, <1>5, <1>6
<1>11. \A m \in DOMAIN a : m \in DOMAIN c /\ c[m] = a[m]
  BY <1>3, <1>4, <1>5, <1>7
<1>12. \A m \in DOMAIN b : n + m \in DOMAIN c /\ c[n + m] = b[m] /\ n + m > n
  <2> SUFFICES ASSUME NEW m \in 1..k PROVE n + m \in DOMAIN c /\ c[n + m] = b[m] /\ n + m > n
    BY <1>3
  <2>1. n + m \in 1..(n + k) /\ ~(n + m <= n) /\ n + m > n /\ (n + m) - n = m
    BY <1>8
  <2>2. c[n + m] = b[(n + m) - n]
    BY <1>4, <2>1
  <2> QED BY <1>5, <2>1, <2>2
<1> QED BY <1>1, <1>9, <1>10, <1>11, <1>12 DEF Joined

\* The last fetch of a kind stays the last when another is removed and none of it is sent.
LEMMA LastWithout ==
  ASSUME NEW a, NEW i, NEW b, Without(a, i, b), NEW kind, ~IsLast(a, i, kind),
         NEW j, IsLast(b, j, kind)
  PROVE  \E m \in DOMAIN a : m # i /\ a[m] = b[j] /\ IsLast(a, m, kind)
<1>1. /\ DOMAIN a = 1..Len(a) /\ Len(a) \in Nat /\ DOMAIN b = 1..Len(b) /\ Len(b) \in Nat
      /\ i \in DOMAIN a /\ j \in DOMAIN b
  BY SeqShape DEF Without, IsLast
<1>2. i \in Nat /\ j \in Nat
  BY <1>1
<1>3. PICK m : m = IF j < i THEN j ELSE j + 1
  OBVIOUS
<1>4. m \in DOMAIN a /\ m # i /\ a[m] = b[j] /\ m \in Nat
  BY <1>1, <1>2, <1>3 DEF Without
<1>5. ASSUME NEW l \in DOMAIN a, a[l].kind = kind, l # i PROVE l <= m
  <2>1. l \in Nat
    BY <1>1
  <2>2. CASE l < i
    <3>1. l \in DOMAIN b /\ b[l].kind = kind
      BY <1>5, <2>2 DEF Without
    <3>2. l <= j
      BY <3>1 DEF IsLast
    <3> QED BY <1>2, <1>3, <2>1, <2>2, <3>2
  <2>3. CASE l > i
    <3>1. l - 1 \in DOMAIN b /\ b[l - 1].kind = kind
      BY <1>5, <2>3 DEF Without
    <3>2. l - 1 <= j
      BY <3>1 DEF IsLast
    <3> QED BY <1>2, <1>3, <2>1, <2>3, <3>2
  <2> QED BY <1>2, <1>5, <2>1, <2>2, <2>3
<1>6. a[i].kind = kind => i <= m
  <2>1. SUFFICES ASSUME a[i].kind = kind, ~(i <= m) PROVE FALSE
    OBVIOUS
  <2>2. \A l \in DOMAIN a : a[l].kind = kind => l <= i
    BY <1>1, <1>2, <1>4, <1>5, <2>1
  <2> QED BY <1>1, <2>1, <2>2 DEF IsLast
<1>7. a[m].kind = kind
  BY <1>4 DEF IsLast
<1> QED BY <1>4, <1>5, <1>6, <1>7 DEF IsLast

LEMMA LastJoined ==
  ASSUME NEW a, NEW b, NEW c, Joined(a, b, c), NEW kind, NEW j, IsLast(c, j, kind)
  PROVE  IF \E m \in DOMAIN b : b[m].kind = kind
         THEN \E m \in DOMAIN b : c[j] = b[m]
         ELSE j \in DOMAIN a /\ c[j] = a[j] /\ IsLast(a, j, kind)
<1>1. /\ DOMAIN a = 1..Len(a) /\ Len(a) \in Nat /\ DOMAIN b = 1..Len(b) /\ Len(b) \in Nat
      /\ DOMAIN c = 1..Len(c) /\ Len(c) \in Nat /\ j \in DOMAIN c
  BY SeqShape DEF Joined, IsLast
<1>2. j \in Nat
  BY <1>1
<1>3. CASE \E m \in DOMAIN b : b[m].kind = kind
  <2>1. PICK m \in DOMAIN b : b[m].kind = kind
    BY <1>3
  <2>2. PICK l : l = Len(a) + m
    OBVIOUS
  <2>3. l \in DOMAIN c /\ c[l] = b[m] /\ l > Len(a)
    BY <2>2 DEF Joined
  <2>4. l <= j /\ l \in Nat
    BY <1>1, <2>1, <2>3 DEF IsLast
  <2>5. ~(j <= Len(a))
    BY <1>1, <1>2, <2>3, <2>4
  <2>6. j - Len(a) \in DOMAIN b /\ c[j] = b[j - Len(a)]
    BY <1>1, <2>5 DEF Joined
  <2> QED BY <1>3, <2>6
<1>4. CASE ~ \E m \in DOMAIN b : b[m].kind = kind
  <2>1. j <= Len(a)
    BY <1>1, <1>4 DEF Joined, IsLast
  <2>2. j \in DOMAIN a /\ c[j] = a[j]
    BY <1>1, <2>1 DEF Joined
  <2>3. \A m \in DOMAIN a : a[m].kind = kind => m <= j
    BY DEF Joined, IsLast
  <2> QED BY <1>4, <2>2, <2>3 DEF IsLast
<1> QED BY <1>3, <1>4

-----------------------------------------------------------------------------
\* The rows that are kept, and the rows of several sources, one after the other.

\* A loop of n turns has an outcome.
Loop(f, n, B, b0, G) ==
  f \in [0..n -> B] /\ f[0] = b0 /\ \A k \in 1..n : f[k] = G[k][f[k - 1]]

LEMMA LoopEnds ==
  ASSUME NEW B, NEW b0 \in B, NEW N \in Nat, NEW G \in [1..N -> [B -> B]]
  PROVE  \E f : Loop(f, N, B, b0, G)
<1> DEFINE T == {n \in Nat : n <= N => \E f : Loop(f, n, B, b0, G)}
<1>1. 0 \in T
  <2>1. PICK f : f = [k \in 0..0 |-> b0]
    OBVIOUS
  <2>2. f \in [0..0 -> B] /\ f[0] = b0 /\ 1..0 = {}
    BY <2>1
  <2>3. Loop(f, 0, B, b0, G)
    BY <2>2 DEF Loop
  <2> QED BY <2>3
<1>2. ASSUME NEW n \in Nat, n \in T, n + 1 <= N PROVE \E f : Loop(f, n + 1, B, b0, G)
  <2>1. PICK f : Loop(f, n, B, b0, G)
    BY <1>2
  <2>2. f \in [0..n -> B] /\ f[0] = b0 /\ \A k \in 1..n : f[k] = G[k][f[k - 1]]
    BY <2>1 DEF Loop
  <2>3. PICK b : b = G[n + 1][f[n]]
    OBVIOUS
  <2>4. b \in B
    <3>1. n \in 0..n /\ n + 1 \in 1..N
      BY <1>2
    <3>2. f[n] \in B /\ G[n + 1] \in [B -> B]
      BY <2>2, <3>1
    <3> QED BY <2>3, <3>2
  <2>5. PICK g : g = [k \in 0..(n + 1) |-> IF k <= n THEN f[k] ELSE b]
    OBVIOUS
  <2>6. g \in [0..(n + 1) -> B] /\ (\A k \in 0..n : g[k] = f[k]) /\ g[n + 1] = b
    BY <2>2, <2>4, <2>5
  <2>7. ASSUME NEW k \in 1..(n + 1) PROVE g[k] = G[k][g[k - 1]]
    <3>1. CASE k = n + 1
      <4>1. k - 1 = n /\ n \in 0..n
        BY <3>1
      <4> QED BY <2>3, <2>6, <3>1, <4>1
    <3>2. CASE k # n + 1
      <4>1. k \in 1..n /\ k \in 0..n /\ k - 1 \in 0..n
        BY <3>2
      <4> QED BY <2>2, <2>6, <4>1
    <3> QED BY <3>1, <3>2
  <2>8. Loop(g, n + 1, B, b0, G)
    <3>1. 0 \in 0..n
      OBVIOUS
    <3> QED BY <2>2, <2>6, <2>7, <3>1 DEF Loop
  <2> QED BY <2>8
<1>3. \A n \in Nat : n \in T => n + 1 \in T
  BY <1>2
<1> HIDE DEF T
<1>4. \A n \in Nat : n \in T
  BY <1>1, <1>3, Induction
<1>5. N \in T
  BY <1>4
<1> QED BY <1>5 DEF T

\* r holds what the first n of s and T have in common.
Keeps(r, s, T, n) == IsSeq(r) /\ Range(r) = {s[i] : i \in 1..n} \cap T
One(r, s, T, n) == IF s[n] \in T THEN Append(r, s[n]) ELSE r

LEMMA KeepsOne ==
  ASSUME NEW r, NEW s, NEW T, NEW n \in Nat, Keeps(r, s, T, n)
  PROVE  Keeps(One(r, s, T, n + 1), s, T, n + 1)
<1>1. PICK V, W, x : V = {s[i] : i \in 1..n} /\ W = {s[i] : i \in 1..(n + 1)} /\ x = s[n + 1]
  OBVIOUS
<1>2. W = V \cup {x}
  <2>1. \A i \in 1..(n + 1) : i \in 1..n \/ i = n + 1
    OBVIOUS
  <2>2. n + 1 \in 1..(n + 1) /\ \A i \in 1..n : i \in 1..(n + 1)
    OBVIOUS
  <2> QED BY <1>1, <2>1, <2>2
<1>3. IsSeq(r) /\ Range(r) = V \cap T
  BY <1>1 DEF Keeps
<1>4. CASE x \notin T
  BY <1>1, <1>2, <1>3, <1>4 DEF Keeps, One
<1>5. CASE x \in T
  <2>1. PICK q : q = Append(r, x)
    OBVIOUS
  <2>2. IsSeq(q) /\ Range(q) = Range(r) \cup {x}
    BY <1>3, <2>1, AppendShape
  <2>3. Range(q) = W \cap T
    BY <1>2, <1>3, <1>5, <2>2
  <2> QED BY <1>1, <1>5, <2>1, <2>2, <2>3 DEF Keeps, One
<1> QED BY <1>4, <1>5

LEMMA NoElements ==
  ASSUME NEW s, s = <<>>
  PROVE  IsSeq(s) /\ Range(s) = {} /\ DOMAIN s = {} /\ Len(s) = 0
<1>1. DOMAIN s = {} /\ Len(s) = 0
  OBVIOUS
<1>2. Range(s) = {}
  BY <1>1 DEF Range
<1>3. IsSeq(s)
  BY DEF IsSeq
<1> QED BY <1>1, <1>2, <1>3

\* Among keeps what is to be kept, and nothing else.
LEMMA AmongOf ==
  ASSUME NEW s, IsSeq(s), NEW T
  PROVE  IsSeq(Among(s, T)) /\ Range(Among(s, T)) = Range(s) \cap T
<1> DEFINE N == Len(s)
           B == Seq(Range(s))
           G == [n \in 1..N |-> [r \in B |-> One(r, s, T, n)]]
<1>1. N \in Nat /\ DOMAIN s = 1..N
  BY SeqShape
<1>2. \A n \in 1..N : s[n] \in Range(s)
  BY <1>1 DEF Range
<1>3. <<>> \in B
  OBVIOUS
<1>4. G \in [1..N -> [B -> B]]
  <2> SUFFICES ASSUME NEW n \in 1..N, NEW r \in B PROVE One(r, s, T, n) \in B
    OBVIOUS
  <2>1. s[n] \in Range(s)
    BY <1>2
  <2> QED BY <2>1, AppendProperties DEF One
<1>5. PICK f : Loop(f, N, B, <<>>, G)
  <2> HIDE DEF N, B, G
  <2> QED BY <1>1, <1>3, <1>4, LoopEnds
<1>6. f \in [0..N -> B] /\ f[0] = <<>> /\ \A n \in 1..N : f[n] = G[n][f[n - 1]]
  BY <1>5 DEF Loop
<1>7. \A n \in 0..N : f[n] = IF n = 0 THEN <<>> ELSE One(f[n - 1], s, T, n)
  <2> SUFFICES ASSUME NEW n \in 1..N PROVE f[n] = One(f[n - 1], s, T, n)
    <3>1. \A n \in 0..N : n = 0 \/ n \in 1..N
      BY <1>1
    <3>2. \A n \in 1..N : n # 0
      OBVIOUS
    <3> QED BY <1>6, <3>1, <3>2
  <2>1. n - 1 \in 0..N
    BY <1>1
  <2>2. f[n - 1] \in B
    <3> HIDE DEF B
    <3> QED BY <1>6, <2>1
  <2> QED BY <1>6, <2>2
<1> DEFINE among[n \in 0..Len(s)] ==
        IF n = 0 THEN <<>>
        ELSE IF s[n] \in T THEN Append(among[n - 1], s[n]) ELSE among[n - 1]
<1>8. f = [n \in 0..Len(s) |-> IF n = 0 THEN <<>>
                               ELSE IF s[n] \in T THEN Append(f[n - 1], s[n]) ELSE f[n - 1]]
  <2>1. f = [n \in 0..N |-> IF n = 0 THEN <<>> ELSE One(f[n - 1], s, T, n)]
    BY <1>6, <1>7
  <2> QED BY <2>1 DEF One
<1>9. among = [n \in 0..Len(s) |-> IF n = 0 THEN <<>>
                                   ELSE IF s[n] \in T THEN Append(among[n - 1], s[n]) ELSE among[n - 1]]
  BY <1>8, Zenon
<1>10. Among(s, T) = among[Len(s)]
  BY Zenon DEF Among
<1> HIDE DEF among
<1>11. \A n \in Nat : n \in {m \in Nat : m <= N => Keeps(among[m], s, T, m)}
  <2>1. Keeps(among[0], s, T, 0)
    <3>1. among[0] = <<>>
      BY <1>1, <1>9
    <3>2. 1..0 = {}
      OBVIOUS
    <3>3. {s[i] : i \in 1..0} \cap T = {}
      BY <3>2
    <3>4. PICK r : r = among[0]
      OBVIOUS
    <3>5. IsSeq(r) /\ Range(r) = {}
      BY <3>1, <3>4, NoElements
    <3> QED BY <3>3, <3>4, <3>5 DEF Keeps
  <2>2. ASSUME NEW n \in Nat, n + 1 <= N, Keeps(among[n], s, T, n) PROVE Keeps(among[n + 1], s, T, n + 1)
    <3>1. n + 1 \in 0..N /\ n + 1 # 0 /\ (n + 1) - 1 = n
      BY <1>1, <2>2
    <3>2. among[n + 1] = One(among[n], s, T, n + 1)
      BY <1>9, <3>1 DEF One
    <3>3. PICK r : r = among[n]
      OBVIOUS
    <3> QED BY <2>2, <3>2, <3>3, KeepsOne
  <2>3. PICK U : U = {m \in Nat : m <= N => Keeps(among[m], s, T, m)}
    OBVIOUS
  <2>4. 0 \in U
    BY <2>1, <2>3
  <2>5. ASSUME NEW n \in Nat, n \in U PROVE n + 1 \in U
    <3> SUFFICES ASSUME n + 1 <= N PROVE Keeps(among[n + 1], s, T, n + 1)
      BY <2>3
    <3>1. n <= N
      BY <1>1
    <3> QED BY <2>2, <2>3, <2>5, <3>1
  <2> QED BY <2>3, <2>4, <2>5, Induction
<1>12. Keeps(among[N], s, T, N)
  BY <1>1, <1>11
<1>13. {s[i] : i \in 1..N} = Range(s)
  BY <1>1 DEF Range
<1> QED BY <1>10, <1>12, <1>13 DEF Keeps

\* Rows one after the other are those rows.
LEMMA FlattenOf ==
  ASSUME NEW V, NEW N \in Nat, NEW s \in [1..N -> Seq(V)]
  PROVE  FlattenSeq(s) \in Seq(V)
<1>1. Len(s) = N
  OBVIOUS
<1>2. CASE N = 0
  <2>1. s = <<>>
    BY <1>1, <1>2
  <2>2. FlattenSeq(s) = s
    BY <1>1, <1>2, Zenon DEF FlattenSeq
  <2>3. <<>> \in Seq(V)
    OBVIOUS
  <2> QED BY <2>1, <2>2, <2>3, Zenon
<1>3. CASE N # 0
  <2> DEFINE B == Seq(V)
             M == N - 1
             G == [n \in 1..M |-> [r \in B |-> r \o s[n + 1]]]
  <2>1. M \in Nat /\ 1 \in 1..N /\ \A n \in 1..M : n + 1 \in 1..N
    BY <1>3
  <2>2. G \in [1..M -> [B -> B]]
    <3> SUFFICES ASSUME NEW n \in 1..M, NEW r \in B PROVE r \o s[n + 1] \in B
      OBVIOUS
    <3>1. s[n + 1] \in B
      BY <2>1
    <3> QED BY <3>1, ConcatProperties
  <2>3. s[1] \in B
    BY <2>1
  <2>4. PICK g : Loop(g, M, B, s[1], G)
    <3> HIDE DEF M, B, G
    <3> QED BY <2>1, <2>2, <2>3, LoopEnds
  <2>5. g \in [0..M -> B] /\ g[0] = s[1] /\ \A n \in 1..M : g[n] = G[n][g[n - 1]]
    BY <2>4 DEF Loop
  <2>6. PICK f : f = [i \in 1..N |-> g[i - 1]]
    OBVIOUS
  <2>7. \A i \in 1..N : f[i] = IF i = 1 THEN s[i] ELSE f[i - 1] \o s[i]
    <3> SUFFICES ASSUME NEW i \in 1..N PROVE f[i] = IF i = 1 THEN s[i] ELSE f[i - 1] \o s[i]
      OBVIOUS
    <3>1. CASE i = 1
      BY <2>5, <2>6, <3>1
    <3>2. CASE i # 1
      <4>1. i - 1 \in 1..M /\ i - 1 \in 1..N /\ (i - 1) + 1 = i /\ (i - 1) - 1 \in 0..M
        BY <3>2
      <4>2. g[(i - 1) - 1] \in B
        <5> HIDE DEF B, M
        <5> QED BY <2>5, <4>1
      <4>3. g[i - 1] = g[(i - 1) - 1] \o s[i]
        BY <2>5, <4>1, <4>2
      <4> QED BY <2>6, <3>2, <4>1, <4>3
    <3> QED BY <3>1, <3>2
  <2> DEFINE flatten[i \in 1..Len(s)] == IF i = 1 THEN s[i] ELSE flatten[i - 1] \o s[i]
  <2>8. f = [i \in 1..Len(s) |-> IF i = 1 THEN s[i] ELSE f[i - 1] \o s[i]]
    BY <1>1, <2>6, <2>7
  <2>9. flatten = [i \in 1..Len(s) |-> IF i = 1 THEN s[i] ELSE flatten[i - 1] \o s[i]]
    BY <2>8, Zenon
  <2>10. FlattenSeq(s) = flatten[Len(s)]
    BY <1>1, <1>3, Zenon DEF FlattenSeq
  <2> HIDE DEF flatten
  <2>11. \A n \in Nat : n \in {m \in Nat : m + 1 <= N => flatten[m + 1] \in Seq(V)}
    <3>1. flatten[1] \in Seq(V)
      BY <1>1, <2>1, <2>3, <2>9
    <3>2. ASSUME NEW n \in Nat, (n + 1) + 1 <= N, flatten[n + 1] \in Seq(V)
          PROVE  flatten[(n + 1) + 1] \in Seq(V)
      <4>1. (n + 1) + 1 \in 1..N /\ (n + 1) + 1 # 1 /\ ((n + 1) + 1) - 1 = n + 1
        BY <3>2
      <4>2. flatten[(n + 1) + 1] = flatten[n + 1] \o s[(n + 1) + 1]
        BY <1>1, <2>9, <4>1
      <4>3. s[(n + 1) + 1] \in Seq(V)
        BY <4>1
      <4> QED BY <3>2, <4>2, <4>3, ConcatProperties
    <3>3. PICK U : U = {m \in Nat : m + 1 <= N => flatten[m + 1] \in Seq(V)}
      OBVIOUS
    <3>4. 0 \in U
      BY <3>1, <3>3
    <3>5. ASSUME NEW n \in Nat, n \in U PROVE n + 1 \in U
      <4> SUFFICES ASSUME (n + 1) + 1 <= N PROVE flatten[(n + 1) + 1] \in Seq(V)
        BY <3>3
      <4>1. n + 1 <= N
        OBVIOUS
      <4> QED BY <3>2, <3>3, <3>5, <4>1
    <3> QED BY <3>3, <3>4, <3>5, Induction
  <2>12. PICK n \in Nat : n + 1 = N
    BY <1>3, <2>1
  <2>13. n + 1 <= N => flatten[n + 1] \in Seq(V)
    BY <2>11
  <2>14. n + 1 <= N
    BY <2>12
  <2> QED BY <1>1, <2>10, <2>12, <2>13, <2>14, Zenon
<1> QED BY <1>2, <1>3

-----------------------------------------------------------------------------
\* The page and what a render makes of it.

Kinds == {"sources", "results", "config", "sequence"}
Fates == {"pending", "applied", "overwritten", "lost"}

IsPage(p) ==
  p = [sources |-> p.sources, source |-> p.source, rows |-> p.rows, cfg |-> p.cfg,
       key |-> p.key, panel |-> p.panel, threshold |-> p.threshold, default |-> p.default,
       filters |-> p.filters, sort |-> p.sort]
IsFilters(f) ==
  f = [outcomes |-> f.outcomes, label |-> f.label, verdict |-> f.verdict,
       camera |-> f.camera, organization |-> f.organization]

\* q is p but for what a render settles.
Settles(p, q) ==
  /\ IsPage(q)
  /\ q.sources = p.sources /\ q.source = p.source /\ q.rows = p.rows /\ q.cfg = p.cfg
  /\ q.key = p.key /\ q.panel = p.panel /\ q.filters = p.filters /\ q.sort = p.sort
  /\ q.default = DefaultThr(p.cfg)
  /\ q.threshold = IF DefaultThr(p.cfg) = p.default THEN p.threshold ELSE DefaultThr(p.cfg)

LEMMA SettledIs == ASSUME NEW p, IsPage(p) PROVE Settles(p, Settled(p))
<1>1. PICK q, d : q = Settled(p) /\ d = DefaultThr(p.cfg)
  OBVIOUS
<1>2. CASE d = p.default
  BY <1>1, <1>2 DEF Settled, Settles
<1>3. CASE d # p.default
  <2>1. q = [p EXCEPT !.default = d, !.threshold = d]
    BY <1>1, <1>3 DEF Settled
  <2>2. q = [sources |-> p.sources, source |-> p.source, rows |-> p.rows, cfg |-> p.cfg,
             key |-> p.key, panel |-> p.panel, threshold |-> d, default |-> d,
             filters |-> p.filters, sort |-> p.sort]
    BY <2>1 DEF IsPage
  <2>3. IsPage(q)
    BY <2>2 DEF IsPage
  <2>4. /\ q.sources = p.sources /\ q.source = p.source /\ q.rows = p.rows /\ q.cfg = p.cfg
        /\ q.key = p.key /\ q.panel = p.panel /\ q.filters = p.filters /\ q.sort = p.sort
        /\ q.default = d /\ q.threshold = d
    BY <2>2
  <2> QED BY <1>1, <1>3, <2>3, <2>4 DEF Settles
<1> QED BY <1>2, <1>3

\* What is sent when p becomes q: the configuration of a source that was chosen, the files of
\* a sequence that was selected.
Reselected(p, q) == Selected(q) # None /\ (q.source # p.source \/ Selected(q) # Selected(p))
Sends(p, q, sent) ==
  /\ IsSeq(sent)
  /\ \A m \in DOMAIN sent :
       \/ sent[m].kind = "config" /\ sent[m].source = q.source /\ q.source # p.source
       \/ sent[m].kind = "sequence" /\ sent[m].source = q.source /\ sent[m].key = Selected(q)
  /\ (\E m \in DOMAIN sent : sent[m].kind = "config") <=> q.source # p.source
  /\ (\E m \in DOMAIN sent : sent[m].kind = "sequence") <=> Reselected(p, q)

LEMMA OneElement ==
  ASSUME NEW x, NEW s, s = <<x>>
  PROVE  IsSeq(s) /\ DOMAIN s = {1} /\ s[1] = x
<1>1. DOMAIN s = {1} /\ s[1] = x /\ Len(s) = 1
  OBVIOUS
<1>2. Range(s) = {x}
  BY <1>1 DEF Range
<1>3. s \in Seq({x})
  OBVIOUS
<1> QED BY <1>1, <1>2, <1>3 DEF IsSeq

LEMMA FetchesSent == ASSUME NEW p, NEW q PROVE Sends(p, q, Fetches(p, q))
<1>1. PICK c, s, sent : c = ConfigFetch(p, q) /\ s = SequenceFetch(p, q) /\ sent = Fetches(p, q)
  OBVIOUS
<1>2. /\ IsSeq(c) /\ DOMAIN c = IF q.source # p.source THEN {1} ELSE {}
      /\ \A m \in DOMAIN c : c[m].kind = "config" /\ c[m].source = q.source
  <2>1. PICK x : x = [kind |-> "config", source |-> q.source, key |-> None]
    OBVIOUS
  <2>2. x.kind = "config" /\ x.source = q.source
    BY <2>1
  <2>3. CASE q.source # p.source
    <3>1. c = <<x>>
      BY <1>1, <2>1, <2>3 DEF ConfigFetch
    <3>2. IsSeq(c) /\ DOMAIN c = {1} /\ c[1] = x
      BY <3>1, OneElement
    <3> QED BY <2>2, <2>3, <3>2
  <2>4. CASE q.source = p.source
    <3>1. c = <<>>
      BY <1>1, <2>4 DEF ConfigFetch
    <3>2. IsSeq(c) /\ DOMAIN c = {}
      BY <3>1, NoElements
    <3> QED BY <2>4, <3>2
  <2> QED BY <2>3, <2>4
<1>3. /\ IsSeq(s) /\ DOMAIN s = IF Reselected(p, q) THEN {1} ELSE {}
      /\ \A m \in DOMAIN s : s[m].kind = "sequence" /\ s[m].source = q.source /\ s[m].key = Selected(q)
  <2>1. PICK b, a : b = Selected(p) /\ a = Selected(q)
    OBVIOUS
  <2>2. PICK x : x = [kind |-> "sequence", source |-> q.source, key |-> a]
    OBVIOUS
  <2>3. x.kind = "sequence" /\ x.source = q.source /\ x.key = a
    BY <2>2
  <2>4. Reselected(p, q) <=> a # None /\ <<q.source, a>> # <<p.source, b>>
    BY <2>1 DEF Reselected
  <2>5. s = IF Reselected(p, q) THEN <<x>> ELSE <<>>
    BY <1>1, <2>1, <2>2, <2>4 DEF SequenceFetch
  <2>6. CASE Reselected(p, q)
    <3>1. IsSeq(s) /\ DOMAIN s = {1} /\ s[1] = x
      BY <2>5, <2>6, OneElement
    <3> QED BY <2>1, <2>3, <2>6, <3>1
  <2>7. CASE ~Reselected(p, q)
    <3>1. IsSeq(s) /\ DOMAIN s = {}
      BY <2>5, <2>7, NoElements
    <3> QED BY <2>7, <3>1
  <2> QED BY <2>6, <2>7
<1>4. Joined(c, s, sent)
  BY <1>1, <1>2, <1>3, ConcatShape DEF Fetches
<1>5. IsSeq(sent)
  BY <1>4 DEF Joined
<1>6. \A m \in DOMAIN sent : \/ \E l \in DOMAIN c : sent[m] = c[l]
                             \/ \E l \in DOMAIN s : sent[m] = s[l]
  BY <1>4 DEF Joined
<1>7. /\ \A l \in DOMAIN c : \E m \in DOMAIN sent : sent[m] = c[l]
      /\ \A l \in DOMAIN s : \E m \in DOMAIN sent : sent[m] = s[l]
  BY <1>4 DEF Joined
<1>8. /\ \A l \in DOMAIN c : q.source # p.source
      /\ q.source # p.source => \E l \in DOMAIN c : TRUE
      /\ \A l \in DOMAIN s : Reselected(p, q)
      /\ Reselected(p, q) => \E l \in DOMAIN s : TRUE
  BY <1>2, <1>3
<1>9. \A m \in DOMAIN sent :
        \/ sent[m].kind = "config" /\ sent[m].source = q.source /\ q.source # p.source
        \/ sent[m].kind = "sequence" /\ sent[m].source = q.source /\ sent[m].key = Selected(q)
  BY <1>2, <1>3, <1>6, <1>8
<1>10. (\E m \in DOMAIN sent : sent[m].kind = "config") <=> q.source # p.source
  BY <1>2, <1>7, <1>8, <1>9
<1>11. (\E m \in DOMAIN sent : sent[m].kind = "sequence") <=> Reselected(p, q)
  <2>1. ASSUME NEW m \in DOMAIN sent, sent[m].kind = "sequence" PROVE Reselected(p, q)
    <3>1. ~ \E l \in DOMAIN c : sent[m] = c[l]
      BY <1>2, <2>1
    <3> QED BY <1>6, <1>8, <3>1
  <2> QED BY <1>3, <1>7, <1>8, <2>1
<1> QED BY <1>1, <1>5, <1>9, <1>10, <1>11 DEF Sends

\* A render: q is shown, sent goes out after what is still on its way.
Rendering(p, q, sent, out, fate) ==
  /\ page' = q /\ Settles(p, q) /\ Sends(page, q, sent) /\ Joined(out, sent, asked')
  /\ newest' = [k \in DOMAIN fate |-> IF \E m \in DOMAIN sent : sent[m].kind = k THEN "pending" ELSE fate[k]]

LEMMA RenderedIs ==
  ASSUME NEW p, IsPage(p), NEW out, IsSeq(out), NEW fate, Rendered(p, out, fate)
  PROVE  \E q, sent : Rendering(p, q, sent, out, fate)
<1>1. PICK q, pg : q = Settled(p) /\ pg = page
  OBVIOUS
<1>2. PICK sent : sent = Fetches(pg, q)
  OBVIOUS
<1>3. Settles(p, q)
  BY <1>1, SettledIs
<1>4. Sends(pg, q, sent)
  BY <1>2, FetchesSent
<1>5. PICK c : c = out \o sent
  OBVIOUS
<1>6. Joined(out, sent, c)
  BY <1>4, <1>5, ConcatShape DEF Sends
<1>7. /\ page' = q /\ asked' = c
      /\ newest' = [k \in DOMAIN fate |-> IF k \in {sent[m].kind : m \in DOMAIN sent} THEN "pending" ELSE fate[k]]
  BY <1>1, <1>2, <1>5 DEF Rendered
<1>8. \A k : k \in {sent[m].kind : m \in DOMAIN sent} <=> \E m \in DOMAIN sent : sent[m].kind = k
  OBVIOUS
<1>9. newest' = [k \in DOMAIN fate |-> IF \E m \in DOMAIN sent : sent[m].kind = k THEN "pending" ELSE fate[k]]
  BY <1>7, <1>8
<1> QED BY <1>1, <1>3, <1>4, <1>6, <1>7, <1>9 DEF Rendering

-----------------------------------------------------------------------------
\* The fetches on their way are of the kinds there are, and the results are asked for once:
\* until they are answered the page has no rows.

IsFetch(x) == x.kind \in Kinds /\ (x.kind = "config" => x.source \in Range(Source))
Once(a) == \A i, j \in DOMAIN a : a[i].kind = "results" /\ a[j].kind = "results" => i = j
Awaited(a) == \E i \in DOMAIN a : a[i].kind = "results"

PageInv ==
  /\ IsPage(page) /\ IsFilters(page.filters)
  /\ Range(page.sources) \subseteq Range(Source) /\ page.source \in Range(Source) \cup {None}
  /\ newest \in [Kinds -> Fates]
  /\ IsSeq(asked) /\ \A i \in DOMAIN asked : IsFetch(asked[i])
  /\ Once(asked)
  /\ Awaited(asked) => page.rows = <<>>

LEMMA FetchesWithout ==
  ASSUME NEW a, NEW i, NEW b, Without(a, i, b), \A j \in DOMAIN a : IsFetch(a[j]), Once(a)
  PROVE  /\ IsSeq(b) /\ (\A j \in DOMAIN b : IsFetch(b[j])) /\ Once(b)
         /\ Awaited(b) => Awaited(a) /\ a[i].kind # "results"
<1>1. /\ DOMAIN a = 1..Len(a) /\ Len(a) \in Nat /\ DOMAIN b = 1..Len(b) /\ Len(b) \in Nat
      /\ i \in DOMAIN a /\ IsSeq(b)
  BY SeqShape DEF Without
<1>2. PICK f : f = [j \in DOMAIN b |-> IF j < i THEN j ELSE j + 1]
  OBVIOUS
<1>3. \A j \in DOMAIN b : f[j] \in DOMAIN a /\ f[j] # i /\ b[j] = a[f[j]]
  BY <1>2 DEF Without
<1>4. ASSUME NEW j \in DOMAIN b, NEW k \in DOMAIN b, f[j] = f[k] PROVE j = k
  <2>1. j \in Nat /\ k \in Nat /\ i \in Nat
    BY <1>1
  <2> QED BY <1>2, <1>4, <2>1
<1>5. Once(b)
  BY <1>3, <1>4 DEF Once
<1>6. Awaited(b) => Awaited(a) /\ a[i].kind # "results"
  BY <1>1, <1>3 DEF Awaited, Once
<1> QED BY <1>1, <1>3, <1>5, <1>6

LEMMA FetchesJoined ==
  ASSUME NEW a, NEW b, NEW c, Joined(a, b, c), \A j \in DOMAIN a : IsFetch(a[j]), Once(a),
         \A j \in DOMAIN b : IsFetch(b[j]) /\ b[j].kind # "results"
  PROVE  /\ IsSeq(c) /\ (\A j \in DOMAIN c : IsFetch(c[j])) /\ Once(c)
         /\ Awaited(c) => Awaited(a)
<1>1. \A j \in DOMAIN c : (j \in DOMAIN a /\ c[j] = a[j]) \/ \E k \in DOMAIN b : c[j] = b[k]
  BY DEF Joined
<1>2. \A j \in DOMAIN c : IsFetch(c[j])
  BY <1>1
<1>3. \A j \in DOMAIN c : c[j].kind = "results" => j \in DOMAIN a /\ c[j] = a[j]
  BY <1>1
<1>4. Once(c) /\ (Awaited(c) => Awaited(a))
  BY <1>3 DEF Once, Awaited
<1> QED BY <1>2, <1>4 DEF Joined

LEMMA SentAreFetches ==
  ASSUME NEW p, NEW q, NEW sent, Sends(p, q, sent), q.source = p.source \/ q.source \in Range(Source)
  PROVE  \A m \in DOMAIN sent : IsFetch(sent[m]) /\ sent[m].kind # "results"
<1> SUFFICES ASSUME NEW m \in DOMAIN sent PROVE IsFetch(sent[m]) /\ sent[m].kind # "results"
  OBVIOUS
<1>1. \/ sent[m].kind = "config" /\ sent[m].source = q.source /\ q.source # p.source
      \/ sent[m].kind = "sequence"
  BY DEF Sends
<1> QED BY <1>1 DEF IsFetch, Kinds

\* What the answer x makes of the page.
Answered(x, p) ==
  /\ IsPage(p) /\ IsFilters(p.filters) /\ Range(p.sources) \subseteq Range(Source)
  /\ p.threshold = page.threshold /\ p.default = page.default
  /\ p.rows = IF x.kind = "results" THEN ResultsRoute ELSE page.rows
  /\ p.cfg = IF x.kind = "config" THEN ConfigRoute(x.source) ELSE page.cfg
  /\ p.panel = IF x.kind = "sequence" THEN SequenceRoute(x.source, x.key) ELSE page.panel
  /\ \/ p.source = page.source /\ p.filters = page.filters
     \/ p.source \in Range(Source) /\ p.filters = DefaultFilters

LEMMA WithSourceIs ==
  ASSUME NEW p, IsPage(p), IsFilters(p.filters), NEW s
  PROVE  LET q == WithSource(p, s) IN
           /\ IsPage(q) /\ IsFilters(q.filters) /\ q.source = s
           /\ q.sources = p.sources /\ q.rows = p.rows /\ q.cfg = p.cfg /\ q.panel = p.panel
           /\ q.threshold = p.threshold /\ q.default = p.default
           /\ q.filters = IF s = p.source THEN p.filters ELSE DefaultFilters
<1>1. PICK q, f : q = WithSource(p, s) /\ f = DefaultFilters
  OBVIOUS
<1>2. CASE s = p.source
  BY <1>1, <1>2 DEF WithSource
<1>3. CASE s # p.source
  <2>1. q = [sources |-> p.sources, source |-> s, rows |-> p.rows, cfg |-> p.cfg,
             key |-> p.key, panel |-> p.panel, threshold |-> p.threshold, default |-> p.default,
             filters |-> f, sort |-> p.sort]
    BY <1>1, <1>3 DEF WithSource, IsPage
  <2>2. IsPage(q) /\ q.filters = f
    BY <2>1 DEF IsPage
  <2>3. IsFilters(f)
    BY <1>1 DEF DefaultFilters, IsFilters
  <2> QED BY <1>1, <1>3, <2>1, <2>2, <2>3
<1> QED BY <1>2, <1>3

LEMMA SourcesListed ==
  /\ IsSeq(SourcesRoute) /\ Range(SourcesRoute) \subseteq Range(Source)
  /\ SourcesRoute # <<>> => SourcesRoute[1] \in Range(Source)
<1>1. PICK found, T : found = SourcesRoute /\ T = {s \in Range(Source) : Files(s).results # Missing}
  OBVIOUS
<1>2. found = Among(Source, T)
  BY <1>1 DEF SourcesRoute
<1>3. IsSeq(Source)
  BY ViewerAssumption DEF IsSeq
<1>4. IsSeq(found) /\ Range(found) \subseteq Range(Source)
  BY <1>2, <1>3, AmongOf
<1>5. found # <<>> => found[1] \in Range(found)
  <2>1. found \in Seq(Range(found))
    BY <1>4 DEF IsSeq
  <2> QED BY <2>1
<1> QED BY <1>1, <1>4, <1>5

LEMMA AppliedIs == ASSUME PageInv, NEW x, IsFetch(x) PROVE Answered(x, Applied(x))
<1>1. PICK pg, p : pg = page /\ p = Applied(x)
  OBVIOUS
<1>2. IsPage(pg) /\ IsFilters(pg.filters) /\ Range(pg.sources) \subseteq Range(Source)
  BY <1>1 DEF PageInv
<1>3. CASE x.kind = "sources"
  <2>1. PICK found, first : /\ found = SourcesRoute
                            /\ first = IF found = <<>> THEN None ELSE found[1]
    OBVIOUS
  <2>2. PICK s : s = IF pg.source = None THEN first ELSE pg.source
    OBVIOUS
  <2>3. PICK g : g = [sources |-> found, source |-> pg.source, rows |-> pg.rows, cfg |-> pg.cfg,
                      key |-> pg.key, panel |-> pg.panel, threshold |-> pg.threshold,
                      default |-> pg.default, filters |-> pg.filters, sort |-> pg.sort]
    OBVIOUS
  <2>4. p = WithSource(g, s)
    <3>1. [pg EXCEPT !.sources = found] = g
      BY <1>2, <2>3 DEF IsPage
    <3> QED BY <1>1, <1>3, <2>1, <2>2, <3>1 DEF Applied
  <2>5. IsPage(g) /\ IsFilters(g.filters)
    BY <1>2, <2>3 DEF IsPage
  <2>6. /\ IsPage(p) /\ IsFilters(p.filters) /\ p.source = s
        /\ p.sources = g.sources /\ p.rows = g.rows /\ p.cfg = g.cfg /\ p.panel = g.panel
        /\ p.threshold = g.threshold /\ p.default = g.default
        /\ p.filters = IF s = g.source THEN g.filters ELSE DefaultFilters
    BY <2>4, <2>5, WithSourceIs
  <2>7. /\ p.sources = found /\ p.rows = pg.rows /\ p.cfg = pg.cfg /\ p.panel = pg.panel
        /\ p.threshold = pg.threshold /\ p.default = pg.default
        /\ p.filters = IF s = pg.source THEN pg.filters ELSE DefaultFilters
    BY <2>3, <2>6
  <2>8. s = pg.source \/ s \in Range(Source)
    BY <2>1, <2>2, SourcesListed
  <2>9. Range(found) \subseteq Range(Source)
    BY <2>1, SourcesListed
  <2> QED BY <1>1, <1>3, <2>6, <2>7, <2>8, <2>9 DEF Answered
<1>4. CASE x.kind = "results"
  <2>1. PICK v : v = ResultsRoute
    OBVIOUS
  <2>2. p = [pg EXCEPT !.rows = v]
    BY <1>1, <1>4, <2>1 DEF Applied
  <2>3. p = [sources |-> pg.sources, source |-> pg.source, rows |-> v, cfg |-> pg.cfg,
             key |-> pg.key, panel |-> pg.panel, threshold |-> pg.threshold,
             default |-> pg.default, filters |-> pg.filters, sort |-> pg.sort]
    BY <1>2, <2>2 DEF IsPage
  <2>4. IsPage(p)
    BY <2>3 DEF IsPage
  <2> QED BY <1>1, <1>2, <1>4, <2>1, <2>3, <2>4 DEF Answered
<1>5. CASE x.kind = "config"
  <2>1. PICK v : v = ConfigRoute(x.source)
    OBVIOUS
  <2>2. p = [pg EXCEPT !.cfg = v]
    BY <1>1, <1>5, <2>1 DEF Applied
  <2>3. p = [sources |-> pg.sources, source |-> pg.source, rows |-> pg.rows, cfg |-> v,
             key |-> pg.key, panel |-> pg.panel, threshold |-> pg.threshold,
             default |-> pg.default, filters |-> pg.filters, sort |-> pg.sort]
    BY <1>2, <2>2 DEF IsPage
  <2>4. IsPage(p)
    BY <2>3 DEF IsPage
  <2> QED BY <1>1, <1>2, <1>5, <2>1, <2>3, <2>4 DEF Answered
<1>6. CASE x.kind = "sequence"
  <2>1. PICK v : v = SequenceRoute(x.source, x.key)
    OBVIOUS
  <2>2. p = [pg EXCEPT !.panel = v]
    BY <1>1, <1>6, <2>1 DEF Applied
  <2>3. p = [sources |-> pg.sources, source |-> pg.source, rows |-> pg.rows, cfg |-> pg.cfg,
             key |-> pg.key, panel |-> v, threshold |-> pg.threshold,
             default |-> pg.default, filters |-> pg.filters, sort |-> pg.sort]
    BY <1>2, <2>2 DEF IsPage
  <2>4. IsPage(p)
    BY <2>3 DEF IsPage
  <2> QED BY <1>1, <1>2, <1>6, <2>1, <2>3, <2>4 DEF Answered
<1> QED BY <1>3, <1>4, <1>5, <1>6 DEF IsFetch, Kinds

-----------------------------------------------------------------------------
\* The steps of the page: an answer or a click and the render that follows, or a fetch lost.

\* What a filter may become.
NarrowsTo(f) ==
  LET old == page.filters IN
  /\ IsFilters(f)
  /\ \/ ~Breakdown(page) /\ f.camera = old.camera /\ f.organization = old.organization
     \/ /\ Breakdown(page) /\ f.outcomes = old.outcomes /\ f.label = old.label /\ f.camera = All
        /\ f.organization \in {All} \cup OrganizationOptions(Range(SourceRows(page)))
     \/ /\ f.outcomes = old.outcomes /\ f.label = old.label /\ f.organization = old.organization
        /\ f.camera = old.camera \/ f.camera \in {All} \cup Cameras(page)

\* What a click makes of the page.
Clicked(p) ==
  /\ IsPage(p) /\ IsFilters(p.filters)
  /\ p.sources = page.sources /\ p.rows = page.rows /\ p.cfg = page.cfg
  /\ p.panel = page.panel /\ p.default = page.default
  /\ \/ p.source = page.source /\ p.filters = page.filters /\ early' = early
     \/ p.source = page.source /\ NarrowsTo(p.filters) /\ early' = (early \/ page.rows = <<>>)
     \/ p.source \in Range(page.sources) /\ p.filters = DefaultFilters /\ early' = early
  /\ \/ p.threshold = page.threshold /\ moved' = moved
     \/ moved' = TRUE
     \/ p.threshold = page.default /\ moved' = FALSE

Clicking(p, out, fate) ==
  Clicked(p) /\ Rendered(p, out, fate) /\ out = asked /\ fate = newest /\ UNCHANGED evaluation

LEMMA Filters ==
  ASSUME PageInv, NEW f, Filtered(f), NarrowsTo(f)
  PROVE  \E p, out, fate : Clicking(p, out, fate)
<1>1. PICK pg : pg = page
  OBVIOUS
<1>2. PICK p : p = [sources |-> pg.sources, source |-> pg.source, rows |-> pg.rows, cfg |-> pg.cfg,
                    key |-> pg.key, panel |-> pg.panel, threshold |-> pg.threshold,
                    default |-> pg.default, filters |-> f, sort |-> pg.sort]
  OBVIOUS
<1>3. p = [page EXCEPT !.filters = f]
  BY <1>1, <1>2 DEF PageInv, IsPage
<1>4. /\ Rendered(p, asked, newest) /\ UNCHANGED evaluation /\ moved' = moved
      /\ early' = (early \/ page.rows = <<>>)
  BY <1>3 DEF Filtered, Click
<1>5. PICK out, fate : out = asked /\ fate = newest
  OBVIOUS
<1>6. Rendered(p, out, fate)
  BY <1>4, <1>5
<1>7. /\ IsPage(p) /\ p.filters = f /\ p.source = page.source /\ p.sources = page.sources
      /\ p.rows = page.rows /\ p.cfg = page.cfg /\ p.panel = page.panel /\ p.default = page.default
      /\ p.threshold = page.threshold
  BY <1>1, <1>2 DEF IsPage
<1>8. IsFilters(p.filters) /\ NarrowsTo(p.filters)
  BY <1>7 DEF NarrowsTo
<1> QED BY <1>4, <1>5, <1>6, <1>7, <1>8 DEF Clicking, Clicked

LEMMA FilterNarrows == ASSUME PageInv, Filter PROVE \E f : Filtered(f) /\ NarrowsTo(f)
<1>1. PICK old : old = page.filters
  OBVIOUS
<1>2. IsFilters(old)
  BY <1>1 DEF PageInv
<1>3. ASSUME NEW x, NEW y, ~Breakdown(page),
             \/ Filtered([page.filters EXCEPT !.outcomes = x])
             \/ Filtered([page.filters EXCEPT !.label = y])
      PROVE  \E f : Filtered(f) /\ NarrowsTo(f)
  <2>1. PICK f : \/ f = [old EXCEPT !.outcomes = x] /\ Filtered(f)
                 \/ f = [old EXCEPT !.label = y] /\ Filtered(f)
    BY <1>1, <1>3
  <2>2. IsFilters(f) /\ f.camera = old.camera /\ f.organization = old.organization
    BY <1>2, <2>1 DEF IsFilters
  <2> QED BY <1>1, <1>3, <2>1, <2>2 DEF NarrowsTo
<1>4. ASSUME Breakdown(page), NEW o \in {All} \cup OrganizationOptions(Range(SourceRows(page))),
             ByOrganization(o)
      PROVE  \E f : Filtered(f) /\ NarrowsTo(f)
  <2>1. PICK f : f = [old EXCEPT !.organization = o, !.camera = All] /\ Filtered(f)
    BY <1>1, <1>4 DEF ByOrganization
  <2>2. /\ IsFilters(f) /\ f.camera = All /\ f.organization = o /\ f.outcomes = old.outcomes
        /\ f.label = old.label
    BY <1>2, <2>1 DEF IsFilters
  <2> QED BY <1>1, <1>4, <2>1, <2>2 DEF NarrowsTo
<1>5. ASSUME NEW v, Filtered([page.filters EXCEPT !.verdict = v])
      PROVE  \E f : Filtered(f) /\ NarrowsTo(f)
  <2>1. PICK f : f = [old EXCEPT !.verdict = v] /\ Filtered(f)
    BY <1>1, <1>5
  <2>2. /\ IsFilters(f) /\ f.camera = old.camera /\ f.organization = old.organization
        /\ f.outcomes = old.outcomes /\ f.label = old.label
    BY <1>2, <2>1 DEF IsFilters
  <2> QED BY <1>1, <2>1, <2>2 DEF NarrowsTo
<1>6. ASSUME NEW c \in {All} \cup Cameras(page), Filtered([page.filters EXCEPT !.camera = c])
      PROVE  \E f : Filtered(f) /\ NarrowsTo(f)
  <2>1. PICK f : f = [old EXCEPT !.camera = c] /\ Filtered(f)
    BY <1>1, <1>6
  <2>2. /\ IsFilters(f) /\ f.camera = c /\ f.organization = old.organization
        /\ f.outcomes = old.outcomes /\ f.label = old.label
    BY <1>2, <2>1 DEF IsFilters
  <2> QED BY <1>1, <1>6, <2>1, <2>2 DEF NarrowsTo
<1>7. CASE ~Breakdown(page) /\ \E o \in Picked \cap Outcome :
             Filtered([page.filters EXCEPT !.outcomes = IF o \in @ THEN @ \ {o} ELSE @ \cup {o}])
  <2>1. PICK x : Filtered([page.filters EXCEPT !.outcomes = x])
    BY <1>7
  <2> QED BY <1>3, <1>7, <2>1
<1>8. CASE ~Breakdown(page) /\ \E l \in {All} \cup (Picked \cap {"smoke", "fp", "unknown"}) :
             Filtered([page.filters EXCEPT !.label = l])
  BY <1>3, <1>8
<1> QED BY <1>4, <1>5, <1>6, <1>7, <1>8 DEF Filter

LEMMA Clicks ==
  ASSUME PageInv, ChooseSource \/ Select \/ MoveSlider \/ ResetSlider \/ Filter \/ Sort
  PROVE  \E p, out, fate : Clicking(p, out, fate)
<1>1. PICK pg, out, fate : pg = page /\ out = asked /\ fate = newest
  OBVIOUS
<1>2. IsPage(pg) /\ IsFilters(pg.filters)
  BY <1>1 DEF PageInv
<1>3. CASE ChooseSource
  <2>1. PICK s \in Range(page.sources) : Click(WithSource(page, s))
    BY <1>3 DEF ChooseSource
  <2>2. PICK p : p = WithSource(pg, s)
    OBVIOUS
  <2>3. /\ IsPage(p) /\ IsFilters(p.filters) /\ p.source = s
        /\ p.sources = pg.sources /\ p.rows = pg.rows /\ p.cfg = pg.cfg /\ p.panel = pg.panel
        /\ p.threshold = pg.threshold /\ p.default = pg.default
        /\ p.filters = IF s = pg.source THEN pg.filters ELSE DefaultFilters
    BY <1>2, <2>2, WithSourceIs
  <2>4. Rendered(p, asked, newest) /\ UNCHANGED evaluation /\ moved' = moved /\ early' = early
    BY <1>1, <1>3, <2>1, <2>2 DEF ChooseSource, Click
  <2>5. Rendered(p, out, fate)
    BY <1>1, <2>4
  <2> QED BY <1>1, <2>1, <2>3, <2>4, <2>5 DEF Clicking, Clicked
<1>4. CASE Select
  <2>1. PICK k : Click([page EXCEPT !.key = k])
    BY <1>4 DEF Select
  <2>2. PICK p : p = [sources |-> pg.sources, source |-> pg.source, rows |-> pg.rows, cfg |-> pg.cfg,
                      key |-> k, panel |-> pg.panel, threshold |-> pg.threshold,
                      default |-> pg.default, filters |-> pg.filters, sort |-> pg.sort]
    OBVIOUS
  <2>3. p = [page EXCEPT !.key = k]
    BY <1>1, <1>2, <2>2 DEF IsPage
  <2>4. Rendered(p, asked, newest) /\ UNCHANGED evaluation /\ moved' = moved /\ early' = early
    BY <1>4, <2>1, <2>3 DEF Select, Click
  <2>5. Rendered(p, out, fate)
    BY <1>1, <2>4
  <2>6. /\ IsPage(p) /\ p.filters = pg.filters /\ p.source = pg.source /\ p.sources = pg.sources
        /\ p.rows = pg.rows /\ p.cfg = pg.cfg /\ p.panel = pg.panel
        /\ p.default = pg.default /\ p.threshold = pg.threshold
    BY <2>2 DEF IsPage
  <2> QED BY <1>1, <1>2, <2>4, <2>5, <2>6 DEF Clicking, Clicked
<1>5. CASE MoveSlider \/ ResetSlider
  <2>1. PICK t : /\ Click([page EXCEPT !.threshold = t]) /\ early' = early
                 /\ moved' = TRUE \/ (t = page.default /\ moved' = FALSE)
    BY <1>5 DEF MoveSlider, ResetSlider
  <2>2. PICK p : p = [sources |-> pg.sources, source |-> pg.source, rows |-> pg.rows, cfg |-> pg.cfg,
                      key |-> pg.key, panel |-> pg.panel, threshold |-> t,
                      default |-> pg.default, filters |-> pg.filters, sort |-> pg.sort]
    OBVIOUS
  <2>3. p = [page EXCEPT !.threshold = t]
    BY <1>1, <1>2, <2>2 DEF IsPage
  <2>4. Rendered(p, asked, newest) /\ UNCHANGED evaluation
    BY <2>1, <2>3 DEF Click
  <2>5. Rendered(p, out, fate)
    BY <1>1, <2>4
  <2>6. /\ IsPage(p) /\ p.filters = pg.filters /\ p.source = pg.source /\ p.sources = pg.sources
        /\ p.rows = pg.rows /\ p.cfg = pg.cfg /\ p.panel = pg.panel
        /\ p.default = pg.default /\ p.threshold = t
    BY <2>2 DEF IsPage
  <2> QED BY <1>1, <1>2, <2>1, <2>4, <2>5, <2>6 DEF Clicking, Clicked
<1>6. CASE Filter
  <2>1. PICK f : Filtered(f) /\ NarrowsTo(f)
    BY <1>6, FilterNarrows
  <2> QED BY <2>1, Filters
<1>7. CASE Sort
  <2>1. PICK x : Click([page EXCEPT !.sort = x])
    BY <1>7 DEF Sort
  <2>2. PICK p : p = [sources |-> pg.sources, source |-> pg.source, rows |-> pg.rows, cfg |-> pg.cfg,
                      key |-> pg.key, panel |-> pg.panel, threshold |-> pg.threshold,
                      default |-> pg.default, filters |-> pg.filters, sort |-> x]
    OBVIOUS
  <2>3. p = [page EXCEPT !.sort = x]
    BY <1>1, <1>2, <2>2 DEF IsPage
  <2>4. Rendered(p, asked, newest) /\ UNCHANGED evaluation /\ moved' = moved /\ early' = early
    BY <1>7, <2>1, <2>3 DEF Sort, Click
  <2>5. Rendered(p, out, fate)
    BY <1>1, <2>4
  <2>6. /\ IsPage(p) /\ p.filters = pg.filters /\ p.source = pg.source /\ p.sources = pg.sources
        /\ p.rows = pg.rows /\ p.cfg = pg.cfg /\ p.panel = pg.panel
        /\ p.default = pg.default /\ p.threshold = pg.threshold
    BY <2>2 DEF IsPage
  <2> QED BY <1>1, <1>2, <2>4, <2>5, <2>6 DEF Clicking, Clicked
<1> QED BY <1>3, <1>4, <1>5, <1>6, <1>7

\* A step of the page, whoever takes it: an evaluation leaves it alone, a fetch is lost, or
\* it becomes p, by an answer or by a click, and q is shown.
Loses(x, i) ==
  /\ Without(asked, i, asked') /\ x = asked[i]
  /\ newest' = [newest EXCEPT ![x.kind] = IF newest[x.kind] = "pending" /\ IsLast(asked, i, x.kind)
                                          THEN "lost" ELSE @]
  /\ UNCHANGED <<evaluation, page, moved, early>>

Answers(x, i, p, out, fate) ==
  /\ Without(asked, i, out) /\ x = asked[i] /\ Answered(x, p)
  /\ fate = [newest EXCEPT ![x.kind] =
               IF newest[x.kind] = "pending" /\ IsLast(asked, i, x.kind) THEN "applied"
               ELSE IF newest[x.kind] = "pending" THEN "pending" ELSE "overwritten"]
  /\ moved' = (moved /\ DefaultThr(p.cfg) = page.default)
  /\ UNCHANGED <<evaluation, early>>

Shows(p, q, sent, out, fate) ==
  /\ Rendering(p, q, sent, out, fate)
  /\ \/ \E x, i : Answers(x, i, p, out, fate)
     \/ Clicked(p) /\ out = asked /\ fate = newest /\ UNCHANGED evaluation

LEMMA Turns ==
  ASSUME PageInv, [Next]_vars
  PROVE  \/ (Evaluation \/ UNCHANGED evaluation) /\ UNCHANGED <<page, asked, newest, moved, early>>
         \/ \E x, i : Loses(x, i)
         \/ \E p, q, sent, out, fate : Shows(p, q, sent, out, fate)
<1>1. PICK a, nw : a = asked /\ nw = newest
  OBVIOUS
<1>2. IsSeq(a) /\ \A i \in DOMAIN a : IsFetch(a[i])
  BY <1>1 DEF PageInv
<1>3. ASSUME NEW i \in DOMAIN asked, Lose(i) PROVE \E x : Loses(x, i)
  <2>1. PICK x, b : x = a[i] /\ b = RemoveAt(a, i)
    OBVIOUS
  <2>2. Without(a, i, b)
    BY <1>1, <1>2, <2>1, RemoveAtShape
  <2>3. IsNewest(i) <=> newest[x.kind] = "pending" /\ IsLast(asked, i, x.kind)
    BY <1>1, <2>1 DEF IsNewest, IsLast
  <2>4. /\ asked' = b /\ UNCHANGED <<evaluation, page, moved, early>>
        /\ newest' = [newest EXCEPT ![x.kind] = IF IsNewest(i) THEN "lost" ELSE @]
    BY <1>1, <1>3, <2>1 DEF Lose
  <2> QED BY <1>1, <2>1, <2>2, <2>3, <2>4 DEF Loses
<1>4. ASSUME NEW i \in DOMAIN asked, Answer(i)
      PROVE  \E p, q, sent, out, fate : Shows(p, q, sent, out, fate)
  <2>1. PICK x, out : x = a[i] /\ out = RemoveAt(a, i)
    OBVIOUS
  <2>2. Without(a, i, out) /\ IsFetch(x)
    BY <1>1, <1>2, <2>1, RemoveAtShape
  <2>3. PICK p : p = Applied(x)
    OBVIOUS
  <2>4. Answered(x, p)
    BY <2>2, <2>3, AppliedIs
  <2>5. IsNewest(i) <=> newest[x.kind] = "pending" /\ IsLast(asked, i, x.kind)
    BY <1>1, <2>1 DEF IsNewest, IsLast
  <2>6. PICK v : v = IF IsNewest(i) THEN "applied"
                     ELSE IF newest[x.kind] = "pending" THEN "pending" ELSE "overwritten"
    OBVIOUS
  <2>7. PICK fate : fate = [nw EXCEPT ![x.kind] = v]
    OBVIOUS
  <2>8. /\ Rendered(p, out, fate) /\ moved' = (moved /\ DefaultThr(p.cfg) = page.default)
        /\ UNCHANGED <<evaluation, early>>
    BY <1>1, <1>4, <2>1, <2>3, <2>6, <2>7 DEF Answer
  <2>9. PICK q, sent : Rendering(p, q, sent, out, fate)
    BY <2>2, <2>4, <2>8, RenderedIs DEF Answered, Without
  <2>10. Answers(x, i, p, out, fate)
    BY <1>1, <2>1, <2>2, <2>4, <2>5, <2>6, <2>7, <2>8 DEF Answers
  <2> QED BY <2>9, <2>10 DEF Shows
<1>5. CASE ChooseSource \/ Select \/ MoveSlider \/ ResetSlider \/ Filter \/ Sort
  <2>1. PICK p, out, fate : Clicking(p, out, fate)
    BY <1>5, Clicks
  <2>2. IsPage(p) /\ IsSeq(out) /\ Rendered(p, out, fate)
    BY <1>1, <1>2, <2>1 DEF Clicking, Clicked
  <2>3. PICK q, sent : Rendering(p, q, sent, out, fate)
    BY <2>2, RenderedIs
  <2> QED BY <2>1, <2>3 DEF Shows, Clicking
<1>6. CASE UNCHANGED vars
  BY <1>6 DEF vars, browser
<1>7. CASE Evaluation /\ UNCHANGED browser
  BY <1>7 DEF browser
<1> QED BY <1>3, <1>4, <1>5, <1>6, <1>7 DEF Next

LEMMA InitPage == Init => PageInv
<1> SUFFICES ASSUME Init PROVE PageInv
  OBVIOUS
<1>1. PICK f, c, l : f = DefaultFilters /\ c = NoConfig /\ l = NoPanel
  OBVIOUS
<1>2. /\ page = [sources |-> <<>>, source |-> None, rows |-> <<>>, cfg |-> c, key |-> None, panel |-> l,
                 threshold |-> DefaultLogisticThreshold, default |-> DefaultLogisticThreshold,
                 filters |-> f, sort |-> None]
      /\ newest = [k \in Kinds |-> "pending"]
  BY <1>1 DEF Init, ViewerInit, Kinds
<1>3. IsPage(page) /\ page.sources = <<>> /\ page.source = None /\ page.rows = <<>> /\ page.filters = f
  BY <1>2 DEF IsPage
<1>4. IsFilters(f)
  BY <1>1 DEF DefaultFilters, IsFilters
<1>5. Range(page.sources) = {}
  BY <1>3 DEF Range
<1>6. PICK x, y, a : /\ x = [kind |-> "sources", source |-> None, key |-> None]
                     /\ y = [kind |-> "results", source |-> None, key |-> None] /\ a = <<x, y>>
  OBVIOUS
<1>7. asked = a
  BY <1>6 DEF Init, ViewerInit
<1>8. DOMAIN a = {1, 2} /\ a[1] = x /\ a[2] = y /\ a \in Seq({x, y})
  BY <1>6
<1>9. IsSeq(a)
  <2>1. Range(a) = {x, y}
    BY <1>8 DEF Range
  <2> QED BY <1>8, <2>1 DEF IsSeq
<1>10. x.kind = "sources" /\ y.kind = "results"
  BY <1>6
<1>11. (\A i \in DOMAIN a : IsFetch(a[i])) /\ Once(a)
  BY <1>8, <1>10 DEF IsFetch, Kinds, Once
<1>12. newest \in [Kinds -> Fates]
  BY <1>2 DEF Fates
<1> QED BY <1>3, <1>4, <1>5, <1>7, <1>9, <1>11, <1>12 DEF PageInv

LEMMA StepPage == ASSUME PageInv, [Next]_vars PROVE PageInv'
<1>1. PICK a, b, pg : a = asked /\ b = asked' /\ pg = page
  OBVIOUS
<1>2. /\ \A j \in DOMAIN a : IsFetch(a[j])
      /\ Once(a) /\ (Awaited(a) => pg.rows = <<>>) /\ newest \in [Kinds -> Fates]
      /\ pg.source \in Range(Source) \cup {None} /\ Range(pg.sources) \subseteq Range(Source)
  BY <1>1 DEF PageInv
<1>3. CASE UNCHANGED <<page, asked, newest, moved, early>>
  BY <1>3 DEF PageInv
<1>4. CASE \E x, i : Loses(x, i)
  <2>1. PICK x, i : Loses(x, i)
    BY <1>4
  <2>2. Without(a, i, b)
    BY <1>1, <2>1 DEF Loses
  <2>3. /\ IsSeq(b) /\ (\A j \in DOMAIN b : IsFetch(b[j])) /\ Once(b)
        /\ Awaited(b) => Awaited(a) /\ a[i].kind # "results"
    BY <1>2, <2>2, FetchesWithout
  <2>4. page' = page /\ newest' \in [Kinds -> Fates]
    BY <1>2, <2>1 DEF Loses, Fates
  <2> QED BY <1>1, <1>2, <2>3, <2>4 DEF PageInv
<1>5. CASE \E p, q, sent, out, fate : Shows(p, q, sent, out, fate)
  <2>1. PICK p, q, sent, out, fate : Shows(p, q, sent, out, fate)
    BY <1>5
  <2>2. page' = q /\ Settles(p, q) /\ Sends(pg, q, sent) /\ Joined(out, sent, b)
    BY <1>1, <2>1 DEF Shows, Rendering
  <2>3. /\ (\A j \in DOMAIN out : IsFetch(out[j])) /\ Once(out) /\ fate \in [Kinds -> Fates]
        /\ Awaited(out) => p.rows = <<>>
        /\ IsFilters(p.filters) /\ Range(p.sources) \subseteq Range(Source)
        /\ p.source = pg.source \/ p.source \in Range(Source)
    <3>1. ASSUME NEW x, NEW i, Answers(x, i, p, out, fate)
          PROVE  /\ (\A j \in DOMAIN out : IsFetch(out[j])) /\ Once(out) /\ fate \in [Kinds -> Fates]
                 /\ Awaited(out) => p.rows = <<>>
                 /\ IsFilters(p.filters) /\ Range(p.sources) \subseteq Range(Source)
                 /\ p.source = pg.source \/ p.source \in Range(Source)
      <4>1. Without(a, i, out) /\ x = a[i] /\ Answered(x, p)
        BY <1>1, <3>1 DEF Answers
      <4>2. /\ (\A j \in DOMAIN out : IsFetch(out[j])) /\ Once(out)
            /\ Awaited(out) => Awaited(a) /\ a[i].kind # "results"
        BY <1>2, <4>1, FetchesWithout
      <4>3. fate \in [Kinds -> Fates]
        BY <1>2, <3>1 DEF Answers, Fates
      <4>4. /\ IsFilters(p.filters) /\ Range(p.sources) \subseteq Range(Source)
            /\ p.source = pg.source \/ p.source \in Range(Source)
            /\ x.kind # "results" => p.rows = pg.rows
        BY <1>1, <4>1 DEF Answered
      <4> QED BY <1>2, <4>1, <4>2, <4>3, <4>4
    <3>2. CASE Clicked(p) /\ out = asked /\ fate = newest
      <4>1. /\ IsFilters(p.filters) /\ p.sources = pg.sources /\ p.rows = pg.rows
            /\ p.source = pg.source \/ p.source \in Range(pg.sources)
        BY <1>1, <3>2 DEF Clicked
      <4> QED BY <1>1, <1>2, <3>2, <4>1
    <3> QED BY <2>1, <3>1, <3>2 DEF Shows
  <2>4. /\ IsPage(q) /\ q.source = p.source /\ q.sources = p.sources /\ q.rows = p.rows
        /\ q.filters = p.filters
    BY <2>2 DEF Settles
  <2>5. q.source = pg.source \/ q.source \in Range(Source)
    BY <2>3, <2>4
  <2>6. \A m \in DOMAIN sent : IsFetch(sent[m]) /\ sent[m].kind # "results"
    BY <2>2, <2>5, SentAreFetches
  <2>7. /\ IsSeq(b) /\ (\A j \in DOMAIN b : IsFetch(b[j])) /\ Once(b)
        /\ Awaited(b) => Awaited(out)
    BY <2>2, <2>3, <2>6, FetchesJoined
  <2>8. newest' \in [Kinds -> Fates]
    <3>1. newest' = [k \in DOMAIN fate |-> IF \E m \in DOMAIN sent : sent[m].kind = k THEN "pending" ELSE fate[k]]
      BY <2>1 DEF Shows, Rendering
    <3>2. PICK n : n = newest'
      OBVIOUS
    <3>3. n \in [Kinds -> Fates]
      BY <2>3, <3>1, <3>2 DEF Fates
    <3> QED BY <3>2, <3>3
  <2> QED BY <1>1, <1>2, <2>2, <2>3, <2>4, <2>5, <2>7, <2>8 DEF PageInv
<1> QED BY <1>3, <1>4, <1>5, Turns

-----------------------------------------------------------------------------
\* The filters: what hides a row is in the bar.

Visible(p) ==
  /\ p.filters.camera \in {All} \cup Cameras(p)
  /\ p.filters.organization \in {All} \cup OrganizationOptions(Range(SourceRows(p)))
  /\ IF Breakdown(p) THEN p.filters.outcomes = Outcome /\ p.filters.label = All
     ELSE p.filters.organization = All

\* Until there are rows nothing is filtered.
FilterInv == ~early => Visible(page) /\ (page.rows = <<>> => page.filters = DefaultFilters)

\* What the bar offers depends on the rows, the source and the organization.
LEMMA SameOffers ==
  ASSUME NEW p, NEW q, q.rows = p.rows, q.source = p.source
  PROVE  /\ SourceRows(q) = SourceRows(p) /\ (Breakdown(q) <=> Breakdown(p))
         /\ q.filters.organization = p.filters.organization => Cameras(q) = Cameras(p)
<1>1. SourceRows(q) = SourceRows(p)
  BY DEF SourceRows
<1>2. Breakdown(q) <=> Breakdown(p)
  BY DEF Breakdown, InMode
<1>3. q.filters.organization = p.filters.organization => Cameras(q) = Cameras(p)
  BY <1>1 DEF Cameras
<1> QED BY <1>1, <1>2, <1>3

LEMMA DefaultVisible == ASSUME NEW p, p.filters = DefaultFilters PROVE Visible(p)
BY DEF Visible, DefaultFilters

LEMMA StepFilter == ASSUME PageInv, FilterInv, [Next]_vars PROVE FilterInv'
<1>1. PICK pg : pg = page
  OBVIOUS
<1>2. CASE UNCHANGED <<page, early>>
  BY <1>2 DEF FilterInv, Visible, Breakdown, InMode, Cameras, SourceRows
<1>3. ASSUME NEW p, NEW q, NEW sent, NEW out, NEW fate, Shows(p, q, sent, out, fate)
      PROVE  FilterInv'
  <2>1. page' = q /\ q.source = p.source /\ q.rows = p.rows /\ q.filters = p.filters
    BY <1>3 DEF Shows, Rendering, Settles
  <2> SUFFICES ASSUME ~early' PROVE Visible(q) /\ (q.rows = <<>> => q.filters = DefaultFilters)
    BY <2>1 DEF FilterInv, Visible, Breakdown, InMode, Cameras, SourceRows
  <2>2. CASE p.filters = DefaultFilters
    BY <2>1, <2>2, DefaultVisible
  <2>3. CASE p.source = pg.source /\ p.rows = pg.rows /\ p.filters = pg.filters /\ early' = early
    <3>1. /\ SourceRows(q) = SourceRows(pg) /\ (Breakdown(q) <=> Breakdown(pg)) /\ Cameras(q) = Cameras(pg)
      BY <2>1, <2>3, SameOffers
    <3>2. Visible(pg) /\ (pg.rows = <<>> => pg.filters = DefaultFilters)
      BY <1>1, <2>3 DEF FilterInv
    <3> QED BY <2>1, <2>3, <3>1, <3>2 DEF Visible
  <2>4. CASE /\ p.source = pg.source /\ p.rows = pg.rows /\ NarrowsTo(p.filters)
             /\ early' = (early \/ page.rows = <<>>)
    <3>1. /\ SourceRows(q) = SourceRows(pg) /\ (Breakdown(q) <=> Breakdown(pg))
          /\ q.filters.organization = pg.filters.organization => Cameras(q) = Cameras(pg)
      BY <2>1, <2>4, SameOffers
    <3>2. Visible(pg) /\ q.rows # <<>>
      BY <1>1, <2>1, <2>4 DEF FilterInv
    <3>3. PICK f, old : f = q.filters /\ old = pg.filters
      OBVIOUS
    <3>4. \/ ~Breakdown(pg) /\ f.camera = old.camera /\ f.organization = old.organization
          \/ /\ Breakdown(pg) /\ f.outcomes = old.outcomes /\ f.label = old.label /\ f.camera = All
             /\ f.organization \in {All} \cup OrganizationOptions(Range(SourceRows(pg)))
          \/ /\ f.outcomes = old.outcomes /\ f.label = old.label /\ f.organization = old.organization
             /\ f.camera = old.camera \/ f.camera \in {All} \cup Cameras(pg)
      BY <1>1, <2>1, <2>4, <3>3 DEF NarrowsTo
    <3> QED BY <3>1, <3>2, <3>3, <3>4 DEF Visible
  <2>5. CASE \E x, i : Answers(x, i, p, out, fate)
    <3>1. PICK x, i : Answers(x, i, p, out, fate)
      BY <2>5
    <3>2. /\ early' = early
          /\ x.kind # "results" => p.rows = pg.rows
          /\ (p.source = pg.source /\ p.filters = pg.filters) \/ p.filters = DefaultFilters
      BY <1>1, <3>1 DEF Answers, Answered
    <3>3. x.kind = "results" => pg.rows = <<>>
      BY <1>1, <3>1 DEF Answers, Without, PageInv, Awaited
    <3>4. x.kind = "results" => p.filters = DefaultFilters
      BY <1>1, <3>2, <3>3 DEF FilterInv
    <3> QED BY <2>2, <2>3, <3>2, <3>4
  <2> QED BY <1>1, <1>3, <2>2, <2>3, <2>4, <2>5 DEF Shows, Clicked
<1>4. CASE \E x, i : Loses(x, i)
  BY <1>2, <1>4 DEF Loses
<1> QED BY <1>2, <1>3, <1>4, Turns

\* No filter hides rows unseen: the camera and the organization that are filtered by are among
\* those offered, and a filter the bar does not show in this mode is off, unless it was set
\* while the page had no rows (page.tsx, the filter reset of every change of source).
THEOREM HiddenByChoice == Spec => []FiltersVisible
<1>1. Init => FilterInv
  <2> SUFFICES ASSUME Init PROVE FilterInv
    OBVIOUS
  <2>1. PICK pg, f : pg = page /\ f = DefaultFilters
    OBVIOUS
  <2>2. pg.filters = f
    <3>1. PICK c, l : c = NoConfig /\ l = NoPanel
      OBVIOUS
    <3>2. page = [sources |-> <<>>, source |-> None, rows |-> <<>>, cfg |-> c, key |-> None, panel |-> l,
                  threshold |-> DefaultLogisticThreshold, default |-> DefaultLogisticThreshold,
                  filters |-> f, sort |-> None]
      BY <2>1, <3>1 DEF Init, ViewerInit
    <3> QED BY <2>1, <3>2
  <2> QED BY <2>1, <2>2, DefaultVisible DEF FilterInv
<1>2. FilterInv => FiltersVisible
  BY DEF FilterInv, Visible, FiltersVisible
<1> QED BY <1>1, <1>2, InitPage, StepPage, StepFilter, PTL DEF Spec

-----------------------------------------------------------------------------
\* The files of the evaluation: each run writes its configuration first and its table last, and
\* until another begins the files of the rows it has written are its own.

LEMMA RowIs ==
  ASSUME NEW r, NEW k, NEW x, x = Row(r, k)
  PROVE  /\ IsRow(x) /\ x.key = k /\ x.source = Evaluated /\ x.run = r /\ x.mode = "eval"
         /\ x.decision = Decision(Positive(r, k)) /\ x.outcome = ComputeOutcome(x.decision, x.label)
         /\ x.probability = MaxProbability(Tubes[r][k])
<1>1. PICK d, o, p, l, c : d = Decision(Positive(r, k)) /\ o = ComputeOutcome(d, Label[k])
                           /\ p = MaxProbability(Tubes[r][k]) /\ l = Label[k] /\ c = Camera[k]
  OBVIOUS
<1>2. x = [key |-> k, source |-> Evaluated, run |-> r, mode |-> "eval", label |-> l,
           decision |-> d, outcome |-> o, probability |-> p, camera |-> c, organization |-> "none"]
  BY <1>1 DEF Row
<1>3. IsRow(x)
  BY <1>2 DEF IsRow
<1>4. /\ x.key = k /\ x.source = Evaluated /\ x.run = r /\ x.mode = "eval" /\ x.label = l
      /\ x.decision = d /\ x.outcome = o /\ x.probability = p
  BY <1>2
<1> QED BY <1>1, <1>3, <1>4

IsWritten(row, r) == r \in 1..MaxRuns /\ \E k \in Range(Sequences) : row = Row(r, k)

IsTable(file) ==
  \/ file = Missing \/ file = Cut
  \/ \E r, w : file = [run |-> r, rows |-> w] /\ IsSeq(w) /\ \A row \in Range(w) : IsWritten(row, r)

\* The files of a sequence are those of run r.
HasFiles(t, r, k) == t.details[k] = [run |-> r, key |-> k] /\ t.views[k] = [run |-> r, key |-> k]

FileInv ==
  /\ tree.config = IF run = 0 THEN Missing ELSE [run |-> run, is |-> Config[run]]
  /\ IsTable(tree.results)
  /\ DOMAIN tree.details = Range(Sequences) /\ DOMAIN tree.views = Range(Sequences)
  /\ stage # "idle" \/ (tree.results.run = run /\ run > 0) =>
       \A row \in Range(rows) : IsWritten(row, run) /\ HasFiles(tree, run, row.key)

LEMMA InitFiles == Init => FileInv
<1> SUFFICES ASSUME Init PROVE FileInv
  OBVIOUS
<1>1. run = 0 /\ stage = "idle" /\ tree = NoTree
  BY DEF Init, EvaluateInit
<1>2. /\ tree.config = Missing /\ tree.results = Missing
      /\ DOMAIN tree.details = Range(Sequences) /\ DOMAIN tree.views = Range(Sequences)
  BY <1>1 DEF NoTree
<1> QED BY <1>1, <1>2 DEF FileInv, IsTable

LEMMA StartFiles == ASSUME EvalInv, FileInv, NEW clean \in BOOLEAN, Start(clean) PROVE FileInv'
<1>1. /\ run < MaxRuns /\ run' = run + 1 /\ stage' = "sequences" /\ rows' = <<>>
  BY DEF Start
<1>2. PICK c : c = [run |-> run', is |-> Config[run']]
  OBVIOUS
<1>3. PICK from : from = IF clean THEN NoTree ELSE tree
  OBVIOUS
<1>4. /\ from = [config |-> from.config, metrics |-> from.metrics, results |-> from.results,
                 details |-> from.details, views |-> from.views]
      /\ IsTable(from.results)
      /\ DOMAIN from.details = Range(Sequences) /\ DOMAIN from.views = Range(Sequences)
  <2>1. CASE clean
    <3>1. from = NoTree
      BY <1>3, <2>1
    <3>2. /\ from.results = Missing
          /\ from = [config |-> from.config, metrics |-> from.metrics, results |-> from.results,
                     details |-> from.details, views |-> from.views]
          /\ DOMAIN from.details = Range(Sequences) /\ DOMAIN from.views = Range(Sequences)
      BY <3>1 DEF NoTree
    <3> QED BY <3>2 DEF IsTable
  <2>2. CASE ~clean
    BY <1>3, <2>2 DEF EvalInv, IsTree, FileInv
  <2> QED BY <2>1, <2>2
<1>5. tree' = [from EXCEPT !.config = c]
  BY <1>2, <1>3 DEF Start
<1>6. tree' = [config |-> c, metrics |-> from.metrics, results |-> from.results,
               details |-> from.details, views |-> from.views]
  BY <1>4, <1>5
<1>7. /\ tree'.config = c /\ tree'.results = from.results
      /\ tree'.details = from.details /\ tree'.views = from.views
  BY <1>6
<1>8. run' # 0
  BY <1>1 DEF EvalInv
<1>9. Range(rows') = {}
  BY <1>1, NoElements
<1> QED BY <1>2, <1>4, <1>7, <1>8, <1>9 DEF FileInv

LEMMA SequenceFiles == ASSUME EvalInv, FileInv, EvaluateSequence PROVE FileInv'
<1>1. PICK k, x, f : k = Head(todo) /\ x = Row(run, k) /\ f = [run |-> run, key |-> k]
  OBVIOUS
<1>2. /\ stage = "sequences" /\ stage' = stage /\ run' = run /\ todo # <<>>
      /\ rows' = Append(rows, x)
      /\ tree' = [tree EXCEPT !.details[k] = f, !.views[k] = f]
  BY <1>1 DEF EvaluateSequence
<1>3. todo \in Seq(Range(Sequences)) /\ run \in 1..MaxRuns /\ Made
  BY <1>2 DEF EvalInv
<1>4. k \in Range(Sequences)
  BY <1>1, <1>2, <1>3
<1>5. PICK d, v : d = tree.details /\ v = tree.views
  OBVIOUS
<1>6. DOMAIN d = Range(Sequences) /\ DOMAIN v = Range(Sequences)
  BY <1>5 DEF FileInv
<1>7. tree' = [config |-> tree.config, metrics |-> tree.metrics, results |-> tree.results,
               details |-> [d EXCEPT ![k] = f], views |-> [v EXCEPT ![k] = f]]
  BY <1>2, <1>5 DEF EvalInv, IsTree
<1>8. PICK e, w : e = [d EXCEPT ![k] = f] /\ w = [v EXCEPT ![k] = f]
  OBVIOUS
<1>9. tree'.config = tree.config /\ tree'.results = tree.results /\ tree'.details = e /\ tree'.views = w
  BY <1>7, <1>8
<1>10. DOMAIN e = Range(Sequences) /\ DOMAIN w = Range(Sequences) /\ e[k] = f /\ w[k] = f
  BY <1>4, <1>6, <1>8
<1>11. ASSUME NEW j \in Range(Sequences), j # k PROVE e[j] = d[j] /\ w[j] = v[j]
  BY <1>6, <1>8, <1>11
<1>12. \A row \in Range(rows) : IsWritten(row, run) /\ HasFiles(tree, run, row.key)
  BY <1>2 DEF FileInv
<1>13. IsWritten(x, run) /\ x.key = k
  BY <1>1, <1>3, <1>4, RowIs DEF IsWritten
<1>14. \A row \in Range(rows') : row = x \/ row \in Range(rows)
  <2>1. PICK s, t : s = rows /\ t = Append(s, x)
    OBVIOUS
  <2>2. IsSeq(s)
    BY <1>3, <2>1 DEF Made
  <2>3. IsSeq(t) /\ Len(t) = Len(s) + 1 /\ t[Len(s) + 1] = x /\ \A i \in 1..Len(s) : t[i] = s[i]
    BY <2>1, <2>2, AppendShape
  <2>4. DOMAIN t = 1..(Len(s) + 1) /\ DOMAIN s = 1..Len(s) /\ Len(s) \in Nat
    BY <2>2, <2>3, SeqShape
  <2>5. \A i \in DOMAIN t : i = Len(s) + 1 \/ i \in DOMAIN s
    BY <2>4
  <2>6. \A i \in DOMAIN t : t[i] = x \/ t[i] \in Range(s)
    BY <2>3, <2>4, <2>5 DEF Range
  <2> QED BY <1>2, <2>1, <2>6 DEF Range
<1>15. ASSUME NEW row \in Range(rows') PROVE IsWritten(row, run) /\ HasFiles(tree', run, row.key)
  <2>1. CASE row = x
    BY <1>1, <1>9, <1>10, <1>13, <2>1 DEF HasFiles
  <2>2. CASE row \in Range(rows)
    <3>1. IsWritten(row, run) /\ d[row.key] = [run |-> run, key |-> row.key]
          /\ v[row.key] = [run |-> run, key |-> row.key]
      BY <1>5, <1>12, <2>2 DEF HasFiles
    <3>2. PICK j : j = row.key
      OBVIOUS
    <3>3. j \in Range(Sequences)
      BY <3>1, <3>2, RowIs DEF IsWritten
    <3>4. e[j] = [run |-> run, key |-> j] /\ w[j] = [run |-> run, key |-> j]
      BY <1>1, <1>10, <1>11, <3>1, <3>2, <3>3
    <3> QED BY <1>9, <3>1, <3>2, <3>4 DEF HasFiles
  <2> QED BY <1>14, <2>1, <2>2
<1> QED BY <1>2, <1>9, <1>10, <1>15 DEF FileInv

LEMMA StepFiles == ASSUME EvalInv, FileInv, Evaluation \/ UNCHANGED evaluation PROVE FileInv'
<1>1. CASE Drop \/ UNCHANGED evaluation
  <2>1. UNCHANGED <<run, stage, rows, tree>>
    BY <1>1 DEF Drop, evaluation
  <2> QED BY <2>1 DEF FileInv
<1>2. CASE WriteMetrics
  <2>1. PICK m : m = [run |-> run, is |-> Metrics(records)]
    OBVIOUS
  <2>2. stage = "sequences" /\ UNCHANGED <<run, rows>> /\ tree' = [tree EXCEPT !.metrics = m]
    BY <1>2, <2>1 DEF WriteMetrics
  <2>3. tree' = [config |-> tree.config, metrics |-> m, results |-> tree.results,
                 details |-> tree.details, views |-> tree.views]
    BY <2>2 DEF EvalInv, IsTree
  <2>4. /\ tree'.config = tree.config /\ tree'.results = tree.results
        /\ tree'.details = tree.details /\ tree'.views = tree.views
    BY <2>3
  <2> QED BY <2>2, <2>4 DEF FileInv, HasFiles
<1>3. CASE WriteResults
  <2>1. PICK r, w : r = [run |-> run, rows |-> w] /\ w = rows
    OBVIOUS
  <2>2. stage = "results" /\ UNCHANGED <<run, rows>> /\ tree' = [tree EXCEPT !.results = r]
    BY <1>3, <2>1 DEF WriteResults
  <2>3. tree' = [config |-> tree.config, metrics |-> tree.metrics, results |-> r,
                 details |-> tree.details, views |-> tree.views]
    BY <2>2 DEF EvalInv, IsTree
  <2>4. /\ tree'.config = tree.config /\ tree'.results = r
        /\ tree'.details = tree.details /\ tree'.views = tree.views
    BY <2>3
  <2>5. \A row \in Range(rows) : IsWritten(row, run) /\ HasFiles(tree, run, row.key)
    BY <2>2 DEF FileInv
  <2>6. IsSeq(rows)
    BY <2>2 DEF EvalInv, Made
  <2>7. IsTable(r)
    BY <2>1, <2>5, <2>6 DEF IsTable
  <2> QED BY <2>2, <2>4, <2>5, <2>7 DEF FileInv, HasFiles
<1>4. CASE Abort
  <2>1. stage # "idle" /\ stage' = "idle" /\ run' = run
    BY <1>4 DEF Abort
  <2>2. \/ tree' = tree
        \/ \E k, left : tree' = [tree EXCEPT !.details[k] = left]
        \/ tree' = [tree EXCEPT !.results = Cut]
    BY <1>4 DEF Abort
  <2>3. PICK d, r : /\ tree' = [config |-> tree.config, metrics |-> tree.metrics, results |-> r,
                                details |-> d, views |-> tree.views]
                    /\ r = tree.results \/ r = Cut
                    /\ DOMAIN d = DOMAIN tree.details
    BY <2>2 DEF EvalInv, IsTree
  <2>4. tree'.config = tree.config /\ tree'.results = r /\ tree'.details = d /\ tree'.views = tree.views
    BY <2>3
  <2>5. tree'.results.run # run
    <3>1. tree.results.run < run /\ tree.results.run \in Int /\ run \in 1..MaxRuns
      BY <2>1 DEF EvalInv
    <3> QED BY <2>3, <2>4, <3>1 DEF Cut
  <2> QED BY <2>1, <2>3, <2>4, <2>5 DEF FileInv, IsTable
<1> QED BY <1>1, <1>2, <1>3, <1>4, StartFiles, SequenceFiles DEF Evaluation

-----------------------------------------------------------------------------
\* The rows of the page: those of a source that stands, and those of an evaluation; while no
\* other begins, the files of the last one's rows are its own.

Stands(row) ==
  /\ row.source \in DOMAIN Standing /\ Parsed(Standing[row.source].results) # Missing
  /\ row \in Range(Standing[row.source].results.rows)

\* A row of run r that is not out of date.
Fresh(row) ==
  \E r \in 1..MaxRuns : /\ r <= run /\ IsWritten(row, r)
                        /\ r = run => stage = "idle" /\ HasFiles(tree, r, row.key)

RowsInv == IsSeq(page.rows) /\ \A row \in Range(page.rows) : Stands(row) \/ Fresh(row)

LEMMA TableIs ==
  ASSUME EvalInv, FileInv, NEW s \in Range(Source), NEW f, f = Parsed(Files(s).results), f # Missing
  PROVE  IsSeq(f.rows) /\ \A row \in Range(f.rows) : Stands(row) \/ Fresh(row)
<1>1. CASE s = Evaluated
  <2>1. f = tree.results /\ f # Cut
    BY <1>1 DEF Files, Parsed
  <2>2. PICK r, w : f = [run |-> r, rows |-> w] /\ IsSeq(w) /\ \A row \in Range(w) : IsWritten(row, r)
    BY <2>1 DEF FileInv, IsTable
  <2>3. f.run = r /\ f.rows = w
    BY <2>2
  <2>4. ASSUME NEW row \in Range(w) PROVE Fresh(row)
    <3>1. r \in 1..MaxRuns /\ IsWritten(row, r)
      BY <2>2 DEF IsWritten
    <3>2. r <= run /\ (r = run => stage = "idle")
      <4>1. stage # "idle" => tree.results.run < run
        BY DEF EvalInv
      <4>2. stage = "idle" => tree.results.run <= run
        BY DEF EvalInv
      <4>3. run \in 0..MaxRuns /\ MaxRuns \in Nat /\ r \in Nat
        BY <3>1, EvaluateAssumption DEF EvalInv
      <4> QED BY <2>1, <2>3, <4>1, <4>2, <4>3
    <3>3. ASSUME r = run PROVE HasFiles(tree, r, row.key)
      <4>1. run > 0
        BY <3>1, <3>3
      <4>2. stage = "idle" /\ tree.results.run = run
        BY <2>1, <2>3, <3>2, <3>3
      <4>3. tree.results.rows = rows
        BY <4>1, <4>2 DEF EvalInv
      <4>4. row \in Range(rows)
        BY <2>1, <2>3, <2>4, <4>3
      <4> QED BY <3>3, <4>1, <4>2, <4>4 DEF FileInv
    <3> QED BY <3>1, <3>2, <3>3 DEF Fresh
  <2> QED BY <2>2, <2>3, <2>4
<1>2. CASE s # Evaluated
  <2>1. s \in DOMAIN Standing
    BY <1>2, ViewerAssumption
  <2>2. f = Standing[s].results /\ Parsed(Standing[s].results) # Missing
    BY <1>2 DEF Files, Parsed
  <2>3. PICK w : w = Standing[s].results.rows
    OBVIOUS
  <2>4. w \in Seq(Range(w)) /\ \A row \in Range(w) : row.source = s
    BY <2>1, <2>2, <2>3, StandingAssumption
  <2> QED BY <2>1, <2>2, <2>3, <2>4 DEF IsSeq, Stands
<1> QED BY <1>1, <1>2

LEMMA ResultsAre ==
  ASSUME EvalInv, FileInv
  PROVE  IsSeq(ResultsRoute) /\ \A row \in Range(ResultsRoute) : Stands(row) \/ Fresh(row)
<1>1. PICK N : N = Len(Source)
  OBVIOUS
<1>2. N \in Nat /\ DOMAIN Source = 1..N
  BY <1>1, ViewerAssumption, SeqShape DEF IsSeq
<1>3. PICK t : t = [i \in DOMAIN Source |->
                      LET results == Parsed(Files(Source[i]).results)
                      IN  IF results = Missing THEN <<>> ELSE results.rows]
  OBVIOUS
<1>4. PICK V : V = UNION {Range(t[i]) : i \in 1..N}
  OBVIOUS
<1>5. ASSUME NEW i \in 1..N
      PROVE  IsSeq(t[i]) /\ \A row \in Range(t[i]) : Stands(row) \/ Fresh(row)
  <2>1. PICK s, f : s = Source[i] /\ f = Parsed(Files(Source[i]).results)
    OBVIOUS
  <2>2. s \in Range(Source)
    BY <1>2, <2>1 DEF Range
  <2>3. t[i] = IF f = Missing THEN <<>> ELSE f.rows
    BY <1>2, <1>3, <2>1
  <2>4. CASE f = Missing
    <3>1. t[i] = <<>>
      BY <2>3, <2>4
    <3> QED BY <3>1, NoElements
  <2>5. CASE f # Missing
    BY <2>1, <2>2, <2>3, <2>5, TableIs
  <2> QED BY <2>4, <2>5
<1>6. ASSUME NEW i \in 1..N PROVE t[i] \in Seq(V)
  <2>1. PICK w : w = t[i]
    OBVIOUS
  <2>2. w \in Seq(Range(w)) /\ Range(w) \subseteq V
    BY <1>4, <1>5, <2>1 DEF IsSeq
  <2> QED BY <2>1, <2>2
<1>7. t \in [1..N -> Seq(V)]
  BY <1>2, <1>3, <1>6
<1>8. PICK all : all = FlattenSeq(t)
  OBVIOUS
<1>9. all \in Seq(V)
  BY <1>2, <1>7, <1>8, FlattenOf
<1>10. ResultsRoute = all
  BY <1>3, <1>8 DEF ResultsRoute
<1>11. Range(all) \subseteq V /\ IsSeq(all)
  BY <1>9 DEF Range, IsSeq
<1> QED BY <1>4, <1>5, <1>10, <1>11

\* An evaluation that goes on, or another one.
LEMMA RunsOn ==
  ASSUME EvalInv, Evaluation \/ UNCHANGED evaluation
  PROVE  \/ UNCHANGED <<run, stage, tree>>
         \/ run' = run /\ stage # "idle"
         \/ run' = run + 1
BY DEF Evaluation, Start, Drop, EvaluateSequence, WriteMetrics, WriteResults, Abort, evaluation

LEMMA StaysFresh ==
  ASSUME EvalInv, Evaluation \/ UNCHANGED evaluation, NEW row, Fresh(row)
  PROVE  Fresh(row)'
<1>1. PICK r \in 1..MaxRuns : /\ r <= run /\ IsWritten(row, r)
                              /\ r = run => stage = "idle" /\ HasFiles(tree, r, row.key)
  BY DEF Fresh
<1>2. run \in Int /\ MaxRuns \in Nat
  BY EvaluateAssumption DEF EvalInv
<1>3. CASE UNCHANGED <<run, stage, tree>>
  BY <1>1, <1>3 DEF Fresh, HasFiles
<1>4. CASE run' = run /\ stage # "idle"
  BY <1>1, <1>4 DEF Fresh
<1>5. CASE run' = run + 1
  <2>1. r <= run' /\ r # run'
    BY <1>1, <1>2, <1>5
  <2> QED BY <1>1, <2>1 DEF Fresh
<1> QED BY <1>3, <1>4, <1>5, RunsOn

\* What a step does to the rows of the page.
LEMMA RowsOn ==
  ASSUME PageInv, NEW p, NEW q, NEW sent, NEW out, NEW fate, Shows(p, q, sent, out, fate)
  PROVE  /\ UNCHANGED evaluation /\ page' = q
         /\ q.rows = page.rows \/ (q.rows = ResultsRoute /\ page.rows = <<>>)
<1>1. page' = q /\ q.rows = p.rows
  BY DEF Shows, Rendering, Settles
<1>2. CASE Clicked(p) /\ UNCHANGED evaluation
  BY <1>1, <1>2 DEF Clicked
<1>3. CASE \E x, i : Answers(x, i, p, out, fate)
  <2>1. PICK x, i : Answers(x, i, p, out, fate)
    BY <1>3
  <2>2. UNCHANGED evaluation /\ p.rows = IF x.kind = "results" THEN ResultsRoute ELSE page.rows
    BY <2>1 DEF Answers, Answered
  <2>3. x.kind = "results" => page.rows = <<>>
    BY <2>1 DEF Answers, Without, PageInv, Awaited
  <2> QED BY <1>1, <2>2, <2>3
<1> QED BY <1>2, <1>3 DEF Shows

LEMMA StepRows == ASSUME EvalInv, FileInv, PageInv, RowsInv, [Next]_vars PROVE RowsInv'
<1>1. CASE (Evaluation \/ UNCHANGED evaluation) /\ page' = page
  <2>1. ASSUME NEW row \in Range(page.rows) PROVE Stands(row) \/ Fresh(row)'
    BY <1>1, <2>1, StaysFresh DEF RowsInv
  <2> QED BY <1>1, <2>1 DEF RowsInv, Stands
<1>2. ASSUME NEW p, NEW q, NEW sent, NEW out, NEW fate, Shows(p, q, sent, out, fate) PROVE RowsInv'
  <2>1. UNCHANGED evaluation /\ page' = q /\ (q.rows = page.rows \/ q.rows = ResultsRoute)
    BY <1>2, RowsOn
  <2>2. IsSeq(q.rows) /\ \A row \in Range(q.rows) : Stands(row) \/ Fresh(row)
    BY <2>1, ResultsAre DEF RowsInv
  <2>3. ASSUME NEW row \in Range(q.rows) PROVE Stands(row) \/ Fresh(row)'
    BY <2>1, <2>2, <2>3, StaysFresh
  <2> QED BY <2>1, <2>2, <2>3 DEF RowsInv, Stands
<1>3. CASE \E x, i : Loses(x, i)
  BY <1>1, <1>3 DEF Loses
<1> QED BY <1>1, <1>2, <1>3, Turns

-----------------------------------------------------------------------------
\* The panel: its newest fetch aims at the selected row of the source shown.

Aims(a, kind, s, k) ==
  \A i : IsLast(a, i, kind) => a[i].source = s /\ (kind = "sequence" => a[i].key = k)

LEMMA AimsWithout ==
  ASSUME NEW a, NEW i, NEW b, Without(a, i, b), NEW kind, ~IsLast(a, i, kind),
         NEW s, NEW k, Aims(a, kind, s, k)
  PROVE  Aims(b, kind, s, k)
<1> SUFFICES ASSUME NEW j, IsLast(b, j, kind)
             PROVE  b[j].source = s /\ (kind = "sequence" => b[j].key = k)
  BY DEF Aims
<1>1. PICK m : m # i /\ a[m] = b[j] /\ IsLast(a, m, kind)
  BY LastWithout
<1> QED BY <1>1 DEF Aims

LEMMA AimsJoined ==
  ASSUME NEW a, NEW b, NEW c, Joined(a, b, c), NEW kind, NEW s, NEW k,
         \A m \in DOMAIN b : b[m].kind = kind => b[m].source = s /\ (kind = "sequence" => b[m].key = k),
         (\E m \in DOMAIN b : b[m].kind = kind) \/ Aims(a, kind, s, k)
  PROVE  Aims(c, kind, s, k)
<1> SUFFICES ASSUME NEW j, IsLast(c, j, kind)
             PROVE  c[j].source = s /\ (kind = "sequence" => c[j].key = k)
  BY DEF Aims
<1>1. c[j].kind = kind
  BY DEF IsLast
<1>2. IF \E m \in DOMAIN b : b[m].kind = kind THEN \E m \in DOMAIN b : c[j] = b[m]
      ELSE c[j] = a[j] /\ IsLast(a, j, kind)
  BY LastJoined
<1>3. CASE \E m \in DOMAIN b : b[m].kind = kind
  <2>1. PICK m \in DOMAIN b : c[j] = b[m]
    BY <1>2, <1>3
  <2> QED BY <1>1, <2>1
<1>4. CASE ~ \E m \in DOMAIN b : b[m].kind = kind
  BY <1>2, <1>4 DEF Aims
<1> QED BY <1>3, <1>4

LEMMA SourceRowsAre ==
  ASSUME NEW p, IsSeq(p.rows)
  PROVE  IsSeq(SourceRows(p)) /\ Range(SourceRows(p)) = {r \in Range(p.rows) : r.source = p.source}
<1>1. PICK w, T : w = p.rows /\ T = {r \in Range(p.rows) : r.source = p.source}
  OBVIOUS
<1>2. IsSeq(Among(w, T)) /\ Range(Among(w, T)) = Range(w) \cap T
  BY <1>1, AmongOf
<1>3. Range(w) \cap T = T
  BY <1>1
<1>4. SourceRows(p) = Among(w, T)
  BY <1>1 DEF SourceRows
<1> QED BY <1>1, <1>2, <1>3, <1>4

LEMMA EmptyAmong == ASSUME NEW s, s = <<>>, NEW T PROVE Among(s, T) = <<>>
<1>1. IsSeq(s) /\ Range(s) = {}
  BY NoElements
<1>2. PICK t : t = Among(s, T)
  OBVIOUS
<1>3. IsSeq(t) /\ Range(t) = {}
  BY <1>1, <1>2, AmongOf
<1>4. t \in Seq({})
  BY <1>3 DEF IsSeq
<1> QED BY <1>2, <1>4

\* Without rows nothing is selected.
LEMMA EmptySelected == ASSUME NEW p, p.rows = <<>> PROVE Selected(p) = None
<1>1. SourceRows(p) = <<>>
  BY EmptyAmong DEF SourceRows
<1>2. PICK w, v, t : w = SourceRows(p) /\ v = Rows(p) /\ t = ApplyFilters(v, p.filters)
  OBVIOUS
<1>3. DOMAIN w = {} /\ w = <<>>
  BY <1>1, <1>2, NoElements
<1>4. v = <<>>
  <2>1. v = IF ShowSlider(p) THEN ApplyThreshold(w, p.threshold) ELSE w
    BY <1>2 DEF Rows
  <2>2. DOMAIN ApplyThreshold(w, p.threshold) = {}
    BY <1>3 DEF ApplyThreshold
  <2> QED BY <1>3, <2>1 DEF ApplyThreshold
<1>5. t = <<>>
  BY <1>2, <1>4, EmptyAmong DEF ApplyFilters
<1>6. SortRows(t, p.sort) = <<>>
  BY <1>5 DEF SortRows
<1>7. TableRows(p) = <<>>
  BY <1>2, <1>6 DEF TableRows
<1> QED BY <1>7 DEF Selected

Matches(panel, s, k) == panel.source = s /\ panel.key = k

PanelInv ==
  Selected(page) # None =>
    /\ newest["sequence"] = "pending" => Aims(asked, "sequence", page.source, Selected(page))
    /\ newest["sequence"] = "applied" => Matches(page.panel, page.source, Selected(page))

\* There are rows of source s whose files are there to be had.
Current(p, s) ==
  \/ s \in DOMAIN Standing
  \/ s = Evaluated /\ \E row \in Range(p.rows) : row.source = Evaluated /\ row.run = run

NoneOf(a, kind) == \A i \in DOMAIN a : a[i].kind # kind

\* No sequence is asked for before there are rows; what the panel was given is to be had still.
ShownInv ==
  /\ page.rows = <<>> => page.panel.source = None /\ NoneOf(asked, "sequence")
  /\ Current(page, page.panel.source) => page.panel = SequenceRoute(page.panel.source, page.panel.key)

LEMMA RouteStays ==
  ASSUME NEW s, NEW k, s \in DOMAIN Standing \/ UNCHANGED tree
  PROVE  SequenceRoute(s, k)' = SequenceRoute(s, k)
<1>1. s \in DOMAIN Standing => s # Evaluated
  BY ViewerAssumption
<1> QED BY <1>1 DEF SequenceRoute, Files

LEMMA RouteMatches == ASSUME NEW s, NEW k, NEW f, f = SequenceRoute(s, k) PROVE Matches(f, s, k)
<1>1. PICK d, v : d = Parsed(Files(s).details[k]) /\ v = Parsed(Files(s).views[k])
  OBVIOUS
<1>2. f = [source |-> s, key |-> k, details |-> d, view |-> v]
  BY <1>1 DEF SequenceRoute
<1> QED BY <1>2 DEF Matches

\* What a file that is to be had was to be had before, and is the same.
LEMMA StaysCurrent ==
  ASSUME EvalInv, RowsInv, Evaluation \/ UNCHANGED evaluation, page' = page,
         NEW s, Current(page, s)'
  PROVE  Current(page, s) /\ (s \in DOMAIN Standing \/ UNCHANGED tree)
<1>1. CASE s \in DOMAIN Standing
  BY <1>1 DEF Current
<1>2. CASE s = Evaluated /\ s \notin DOMAIN Standing
  <2>1. PICK row \in Range(page.rows) : row.source = Evaluated /\ row.run = run'
    BY <1>2 DEF Current
  <2>2. Fresh(row)
    BY <1>2, <2>1 DEF RowsInv, Stands
  <2>3. PICK r \in 1..MaxRuns : /\ r <= run /\ IsWritten(row, r)
                                /\ r = run => stage = "idle" /\ HasFiles(tree, r, row.key)
    BY <2>2 DEF Fresh
  <2>4. row.run = r
    BY <2>3, RowIs DEF IsWritten
  <2>5. run' # run + 1
    <3>1. run \in 0..MaxRuns /\ MaxRuns \in Nat
      BY EvaluateAssumption DEF EvalInv
    <3> QED BY <2>1, <2>3, <2>4, <3>1
  <2>6. UNCHANGED <<run, stage, tree>>
    BY <2>1, <2>3, <2>4, <2>5, RunsOn
  <2> QED BY <1>2, <2>1, <2>6 DEF Current
<1> QED BY <1>1, <1>2 DEF Current

LEMMA StepPanel ==
  ASSUME PageInv, PanelInv, [Next]_vars PROVE PanelInv'
<1>1. PICK pg, s, k, a, b : pg = page /\ s = page.source /\ k = Selected(page) /\ a = asked /\ b = asked'
  OBVIOUS
<1>2. CASE UNCHANGED <<page, asked, newest>>
  <2>1. Selected(page') = Selected(page)
    BY <1>2
  <2> QED BY <1>2, <2>1 DEF PanelInv
<1>3. CASE \E x, i : Loses(x, i)
  <2>1. PICK x, i : Loses(x, i)
    BY <1>3
  <2>2. /\ Without(a, i, b) /\ x = a[i] /\ UNCHANGED <<evaluation, page>>
        /\ newest' = [newest EXCEPT ![x.kind] = IF newest[x.kind] = "pending" /\ IsLast(a, i, x.kind)
                                                THEN "lost" ELSE @]
    BY <1>1, <2>1 DEF Loses
  <2>3. newest \in [Kinds -> Fates] /\ "sequence" \in Kinds
    BY DEF PageInv, Kinds
  <2>4. /\ newest'["sequence"] = "applied" => newest["sequence"] = "applied"
        /\ newest'["sequence"] = "pending" => newest["sequence"] = "pending" /\ ~IsLast(a, i, "sequence")
    <3>1. x.kind # "sequence" => ~IsLast(a, i, "sequence")
      BY <2>2 DEF IsLast
    <3> QED BY <2>2, <2>3, <3>1
  <2>5. Aims(a, "sequence", s, k) /\ ~IsLast(a, i, "sequence") => Aims(b, "sequence", s, k)
    BY <2>2, AimsWithout
  <2> QED BY <1>1, <2>2, <2>4, <2>5 DEF PanelInv
<1>4. ASSUME NEW p, NEW q, NEW sent, NEW out, NEW fate, Shows(p, q, sent, out, fate) PROVE PanelInv'
  <2>1. /\ page' = q /\ q.source = p.source /\ q.panel = p.panel
        /\ Sends(pg, q, sent) /\ Joined(out, sent, b)
        /\ newest' = [m \in DOMAIN fate |-> IF \E n \in DOMAIN sent : sent[n].kind = m THEN "pending" ELSE fate[m]]
    BY <1>1, <1>4 DEF Shows, Rendering, Settles
  <2>2. PICK l : l = Selected(q)
    OBVIOUS
  <2> SUFFICES ASSUME l # None
               PROVE  /\ newest'["sequence"] = "pending" => Aims(b, "sequence", q.source, l)
                      /\ newest'["sequence"] = "applied" => Matches(q.panel, q.source, l)
    BY <1>1, <2>1, <2>2 DEF PanelInv
  <2>3. \A m \in DOMAIN sent : sent[m].kind = "sequence" => sent[m].source = q.source /\ sent[m].key = l
    BY <2>1, <2>2 DEF Sends
  <2>4. newest \in [Kinds -> Fates] /\ "sequence" \in Kinds
    BY DEF PageInv, Kinds
  <2>5. DOMAIN fate = Kinds
    <3>1. (\E x, i : Answers(x, i, p, out, fate)) \/ fate = newest
      BY <1>4 DEF Shows
    <3> QED BY <2>4, <3>1 DEF Answers
  <2>6. CASE \E m \in DOMAIN sent : sent[m].kind = "sequence"
    <3>1. newest'["sequence"] = "pending"
      BY <2>1, <2>4, <2>5, <2>6
    <3>2. Aims(b, "sequence", q.source, l)
      BY <2>1, <2>3, <2>6, AimsJoined
    <3> QED BY <3>1, <3>2
  <2>7. CASE ~ \E m \in DOMAIN sent : sent[m].kind = "sequence"
    <3>1. newest'["sequence"] = fate["sequence"]
      BY <2>1, <2>4, <2>5, <2>7
    <3>2. q.source = s /\ l = k /\ k # None
      BY <1>1, <2>1, <2>2, <2>7 DEF Sends, Reselected
    <3>3. /\ newest["sequence"] = "pending" => Aims(a, "sequence", s, k)
          /\ newest["sequence"] = "applied" => Matches(pg.panel, s, k)
      BY <1>1, <3>2 DEF PanelInv
    <3>4. Aims(out, "sequence", s, k) => Aims(b, "sequence", s, k)
      BY <2>1, <2>3, <3>2, AimsJoined
    <3>5. CASE Clicked(p) /\ out = asked /\ fate = newest
      <4>1. q.panel = pg.panel
        BY <1>1, <2>1, <3>5 DEF Clicked
      <4> QED BY <1>1, <3>1, <3>2, <3>3, <3>4, <3>5, <4>1
    <3>6. CASE \E x, i : Answers(x, i, p, out, fate)
      <4>1. PICK x, i : Answers(x, i, p, out, fate)
        BY <3>6
      <4>2. /\ Without(a, i, out) /\ x = a[i]
            /\ p.panel = IF x.kind = "sequence" THEN SequenceRoute(x.source, x.key) ELSE pg.panel
            /\ fate = [newest EXCEPT ![x.kind] =
                         IF newest[x.kind] = "pending" /\ IsLast(a, i, x.kind) THEN "applied"
                         ELSE IF newest[x.kind] = "pending" THEN "pending" ELSE "overwritten"]
        BY <1>1, <4>1 DEF Answers, Answered
      <4>3. x.kind # "sequence" => ~IsLast(a, i, "sequence") /\ fate["sequence"] = newest["sequence"]
        BY <2>4, <4>2 DEF IsLast
      <4>4. x.kind = "sequence" =>
              /\ fate["sequence"] = "pending" => newest["sequence"] = "pending" /\ ~IsLast(a, i, "sequence")
              /\ fate["sequence"] = "applied" => newest["sequence"] = "pending" /\ IsLast(a, i, "sequence")
        BY <2>4, <4>2
      <4>5. fate["sequence"] = "pending" => Aims(out, "sequence", s, k)
        BY <3>3, <4>2, <4>3, <4>4, AimsWithout
      <4>6. CASE x.kind = "sequence" /\ fate["sequence"] = "applied"
        <5>1. x.source = s /\ x.key = k
          BY <3>3, <4>2, <4>4, <4>6 DEF Aims
        <5>2. q.panel = SequenceRoute(s, k)
          BY <2>1, <4>2, <4>6, <5>1
        <5>3. Matches(q.panel, s, k)
          BY <5>2, RouteMatches
        <5> QED BY <3>1, <3>2, <4>6, <5>3
      <4>7. CASE x.kind # "sequence" /\ fate["sequence"] = "applied"
        <5>1. q.panel = pg.panel
          BY <2>1, <4>2, <4>7
        <5> QED BY <3>1, <3>2, <3>3, <4>3, <4>7, <5>1
      <4> QED BY <3>1, <3>2, <3>4, <4>5, <4>6, <4>7
    <3> QED BY <1>4, <3>5, <3>6 DEF Shows
  <2> QED BY <2>6, <2>7
<1> QED BY <1>2, <1>3, <1>4, Turns

LEMMA StepShown ==
  ASSUME EvalInv, PageInv, RowsInv, ShownInv, [Next]_vars PROVE ShownInv'
<1>1. PICK pg, s, k, a, b : /\ pg = page /\ s = page.panel.source /\ k = page.panel.key
                            /\ a = asked /\ b = asked'
  OBVIOUS
<1>2. /\ pg.rows = <<>> => s = None /\ NoneOf(a, "sequence")
      /\ Current(pg, s) => pg.panel = SequenceRoute(s, k)
  BY <1>1 DEF ShownInv
<1>3. s = None => s \notin DOMAIN Standing /\ s # Evaluated
  BY ViewerAssumption DEF None
<1>4. ASSUME Evaluation \/ UNCHANGED evaluation, page' = page, NoneOf(a, "sequence") => NoneOf(b, "sequence")
      PROVE  ShownInv'
  <2>1. Current(pg, s)' => Current(pg, s) /\ SequenceRoute(s, k)' = SequenceRoute(s, k)
    <3>1. Current(pg, s)' <=> Current(page, s)'
      BY <1>1, <1>4 DEF Current
    <3>2. ASSUME Current(page, s)' PROVE Current(page, s) /\ (s \in DOMAIN Standing \/ UNCHANGED tree)
      BY <1>4, <3>2, StaysCurrent
    <3>3. ASSUME Current(page, s)' PROVE SequenceRoute(s, k)' = SequenceRoute(s, k)
      BY <3>2, <3>3, RouteStays
    <3> QED BY <1>1, <3>1, <3>2, <3>3
  <2>2. SequenceRoute(page.panel.source, page.panel.key)' = SequenceRoute(s, k)'
    BY <1>1, <1>4 DEF SequenceRoute
  <2>3. Current(page, page.panel.source)' <=> Current(pg, s)'
    BY <1>1, <1>4 DEF Current
  <2> QED BY <1>1, <1>2, <1>4, <2>1, <2>2, <2>3 DEF ShownInv
<1>5. CASE (Evaluation \/ UNCHANGED evaluation) /\ UNCHANGED <<page, asked>>
  BY <1>1, <1>4, <1>5
<1>6. CASE \E x, i : Loses(x, i)
  <2>1. PICK x, i : Loses(x, i)
    BY <1>6
  <2>2. Without(a, i, b) /\ UNCHANGED <<evaluation, page>>
    BY <1>1, <2>1 DEF Loses
  <2>3. NoneOf(a, "sequence") => NoneOf(b, "sequence")
    BY <2>2 DEF Without, NoneOf
  <2> QED BY <1>4, <2>2, <2>3
<1>7. ASSUME NEW p, NEW q, NEW sent, NEW out, NEW fate, Shows(p, q, sent, out, fate) PROVE ShownInv'
  <2>1. /\ page' = q /\ q.rows = p.rows /\ q.panel = p.panel
        /\ Sends(pg, q, sent) /\ Joined(out, sent, b)
    BY <1>1, <1>7 DEF Shows, Rendering, Settles
  <2>2. UNCHANGED evaluation /\ (q.rows = pg.rows \/ pg.rows = <<>>)
    BY <1>1, <1>7, RowsOn
  <2>3. SequenceRoute(page.panel.source, page.panel.key)' = SequenceRoute(q.panel.source, q.panel.key)
    BY <2>1, <2>2 DEF SequenceRoute, Files, evaluation
  <2>4. Current(page, page.panel.source)' <=> Current(q, q.panel.source)
    BY <2>1, <2>2 DEF Current, evaluation
  <2>5. \/ q.panel = pg.panel /\ (NoneOf(a, "sequence") => NoneOf(out, "sequence"))
        \/ \E x, i : /\ Without(a, i, out) /\ x = a[i] /\ x.kind = "sequence"
                     /\ q.panel = SequenceRoute(x.source, x.key) /\ q.rows = pg.rows
    <3>1. CASE Clicked(p) /\ out = asked
      BY <1>1, <2>1, <3>1 DEF Clicked
    <3>2. CASE \E x, i : Answers(x, i, p, out, fate)
      <4>1. PICK x, i : Answers(x, i, p, out, fate)
        BY <3>2
      <4>2. /\ Without(a, i, out) /\ x = a[i]
            /\ p.panel = IF x.kind = "sequence" THEN SequenceRoute(x.source, x.key) ELSE pg.panel
            /\ p.rows = IF x.kind = "results" THEN ResultsRoute ELSE pg.rows
        BY <1>1, <4>1 DEF Answers, Answered
      <4>3. NoneOf(a, "sequence") => NoneOf(out, "sequence")
        BY <4>2 DEF Without, NoneOf
      <4>4. CASE x.kind = "sequence"
        BY <2>1, <4>2, <4>4
      <4>5. CASE x.kind # "sequence"
        BY <2>1, <4>2, <4>3, <4>5
      <4> QED BY <4>4, <4>5
    <3> QED BY <1>7, <3>1, <3>2 DEF Shows
  <2>6. CASE q.panel = pg.panel /\ (NoneOf(a, "sequence") => NoneOf(out, "sequence"))
    <3>1. q.panel.source = s /\ q.panel.key = k
      BY <1>1, <2>6
    <3>2. ASSUME q.rows = <<>> PROVE s = None /\ NoneOf(b, "sequence")
      <4>1. pg.rows = <<>>
        BY <2>2, <3>2
      <4>2. NoneOf(sent, "sequence")
        BY <2>1, <3>2, EmptySelected DEF Sends, Reselected, NoneOf
      <4>3. NoneOf(out, "sequence")
        BY <1>2, <2>6, <4>1
      <4>4. NoneOf(b, "sequence")
        BY <2>1, <4>2, <4>3 DEF Joined, NoneOf
      <4> QED BY <1>2, <4>1, <4>4
    <3>3. Current(q, s) => q.panel = SequenceRoute(s, k)
      <4>1. CASE q.rows = pg.rows
        BY <1>2, <2>6, <4>1 DEF Current
      <4>2. CASE pg.rows = <<>>
        BY <1>2, <1>3, <4>2 DEF Current
      <4> QED BY <2>2, <4>1, <4>2
    <3>4. SequenceRoute(page.panel.source, page.panel.key)' = SequenceRoute(s, k)
      BY <2>3, <3>1
    <3>5. Current(page, page.panel.source)' <=> Current(q, s)
      BY <2>4, <3>1
    <3> QED BY <1>1, <2>1, <3>1, <3>2, <3>3, <3>4, <3>5 DEF ShownInv
  <2>7. CASE \E x, i : /\ Without(a, i, out) /\ x = a[i] /\ x.kind = "sequence"
                       /\ q.panel = SequenceRoute(x.source, x.key) /\ q.rows = pg.rows
    <3>1. PICK x, i : /\ Without(a, i, out) /\ x = a[i] /\ x.kind = "sequence"
                      /\ q.panel = SequenceRoute(x.source, x.key) /\ q.rows = pg.rows
      BY <2>7
    <3>2. q.rows # <<>>
      BY <1>2, <3>1 DEF Without, NoneOf
    <3>3. PICK t, l : t = x.source /\ l = x.key
      OBVIOUS
    <3>4. q.panel = SequenceRoute(t, l)
      BY <3>1, <3>3
    <3>5. q.panel.source = t /\ q.panel.key = l
      BY <3>4, RouteMatches DEF Matches
    <3> QED BY <2>1, <2>3, <2>4, <3>2, <3>4, <3>5 DEF ShownInv
  <2> QED BY <2>5, <2>6, <2>7
<1> QED BY <1>5, <1>6, <1>7, Turns

\* What is known of a row of a source nobody rewrites.
StandsAlone(s, row) ==
  LET cfg == ConfigOf(s, Standing[s].config) IN
  /\ IsRow(row) /\ row.source = s
  /\ {Standing[s].results.run, Standing[s].config.run} = {row.run} =>
       /\ Standing[s].details[row.key] = [run |-> row.run, key |-> row.key]
       /\ Standing[s].views[row.key] = [run |-> row.run, key |-> row.key]
  /\ row.run = cfg.run /\ (row.mode = "triage" \/ cfg.aggregation = "logistic") =>
       /\ row.decision = Decision(row.probability # Null /\ row.probability >= DefaultThr(cfg))
       /\ row.outcome = ComputeOutcome(row.decision, row.label)

LEMMA StandingRow ==
  ASSUME NEW s \in DOMAIN Standing, Parsed(Standing[s].results) # Missing,
         NEW row \in Range(Standing[s].results.rows)
  PROVE  StandsAlone(s, row)
<1>1. \A r \in Range(Standing[s].results.rows) : StandsAlone(s, r)
  BY StandingAssumption, Zenon DEF StandsAlone
<1> QED BY <1>1

LEMMA InitRows == Init => RowsInv /\ PanelInv /\ ShownInv
<1> SUFFICES ASSUME Init PROVE RowsInv /\ PanelInv /\ ShownInv
  OBVIOUS
<1>1. PICK f, c, l : f = DefaultFilters /\ c = NoConfig /\ l = NoPanel
  OBVIOUS
<1>2. page = [sources |-> <<>>, source |-> None, rows |-> <<>>, cfg |-> c, key |-> None, panel |-> l,
              threshold |-> DefaultLogisticThreshold, default |-> DefaultLogisticThreshold,
              filters |-> f, sort |-> None]
  BY <1>1 DEF Init, ViewerInit
<1>3. page.rows = <<>>
  BY <1>2
<1>4. IsSeq(page.rows) /\ Range(page.rows) = {}
  BY <1>3, NoElements
<1>5. Selected(page) = None
  BY <1>3, EmptySelected
<1>6. page.panel.source = None
  BY <1>1, <1>2 DEF NoPanel
<1>7. ~Current(page, None)
  BY ViewerAssumption DEF Current, None
<1>8. NoneOf(asked, "sequence")
  BY DEF Init, ViewerInit, NoneOf
<1> QED BY <1>4, <1>5, <1>6, <1>7, <1>8 DEF RowsInv, PanelInv, ShownInv

\* The files of a row whose run is the last to have begun are that run's.
LEMMA FilesOfTheRow ==
  ASSUME FileInv, EvalInv, NEW row, Stands(row) \/ Fresh(row), NEW s, s = row.source,
         {Files(s).results.run, Files(s).config.run} = {row.run}
  PROVE  /\ HasFiles(Files(s), row.run, row.key)
         /\ s \in DOMAIN Standing \/ (s = Evaluated /\ row.run = run)
<1>1. Files(s).config.run = row.run
  OBVIOUS
<1>2. CASE Stands(row)
  <2>1. s \in DOMAIN Standing /\ s # Evaluated
    BY <1>2, ViewerAssumption DEF Stands
  <2>2. Files(s) = Standing[s]
    BY <2>1 DEF Files
  <2>3. /\ Standing[s].details[row.key] = [run |-> row.run, key |-> row.key]
        /\ Standing[s].views[row.key] = [run |-> row.run, key |-> row.key]
    <3>1. {Standing[s].results.run, Standing[s].config.run} = {row.run}
      BY <2>2
    <3>2. StandsAlone(s, row)
      BY <1>2, StandingRow DEF Stands
    <3> QED BY <3>1, <3>2 DEF StandsAlone
  <2> QED BY <2>1, <2>2, <2>3 DEF HasFiles
<1>3. CASE Fresh(row)
  <2>1. PICK r \in 1..MaxRuns : /\ r <= run /\ IsWritten(row, r)
                                /\ r = run => stage = "idle" /\ HasFiles(tree, r, row.key)
    BY <1>3 DEF Fresh
  <2>2. row.run = r /\ row.source = Evaluated
    BY <2>1, RowIs DEF IsWritten
  <2>3. run # 0
    <3>1. run \in 0..MaxRuns /\ MaxRuns \in Nat
      BY EvaluateAssumption DEF EvalInv
    <3> QED BY <2>1, <3>1
  <2>4. PICK c : c = Config[run]
    OBVIOUS
  <2>5. tree.config = [run |-> run, is |-> c]
    BY <2>3, <2>4 DEF FileInv
  <2>6. Files(s) = tree /\ tree.config.run = run
    BY <2>2, <2>5 DEF Files
  <2>7. r = run
    BY <1>1, <2>2, <2>6
  <2> QED BY <2>1, <2>2, <2>6, <2>7
<1> QED BY <1>2, <1>3

\* Nothing cancels a fetch and nothing orders the answers (page.tsx:155).  In any order the
\* panel shows one sequence whole, of the run that wrote its row if no other has begun; that
\* the sequence is the selected one is proved for the time between the newest answer and the
\* next older one, which overwrites it.
THEOREM PanelFollows == Spec => []PanelOfTheRow
<1>1. EvalInv /\ FileInv /\ PageInv /\ RowsInv /\ PanelInv /\ ShownInv /\ [Next]_vars
        => (EvalInv /\ FileInv /\ PageInv /\ RowsInv /\ PanelInv /\ ShownInv)'
  <2> SUFFICES ASSUME EvalInv, FileInv, PageInv, RowsInv, PanelInv, ShownInv, [Next]_vars
               PROVE  (EvalInv /\ FileInv /\ PageInv /\ RowsInv /\ PanelInv /\ ShownInv)'
    OBVIOUS
  <2>1. Evaluation \/ UNCHANGED evaluation
    BY EvaluationSteps
  <2> QED BY <2>1, StepEval, StepFiles, StepPage, StepRows, StepPanel, StepShown
<1>2. EvalInv /\ FileInv /\ RowsInv /\ PanelInv /\ ShownInv => PanelOfTheRow
  <2> SUFFICES ASSUME EvalInv, FileInv, RowsInv, PanelInv, ShownInv PROVE PanelOfTheRow
    OBVIOUS
  <2>1. PICK pg, panel : pg = page /\ panel = page.panel
    OBVIOUS
  <2>2. newest["sequence"] = "applied" /\ Selected(page) # None =>
          panel.source = page.source /\ panel.key = Selected(page)
    BY <2>1 DEF PanelInv, Matches
  <2>3. ASSUME NEW row \in Range(pg.rows), row.source = panel.source, row.key = panel.key,
               {Files(row.source).results.run, Files(row.source).config.run} = {row.run}
        PROVE  panel.details = [run |-> row.run, key |-> row.key] /\ panel.view = [run |-> row.run, key |-> row.key]
    <3>1. Stands(row) \/ Fresh(row)
      BY <2>1 DEF RowsInv
    <3>2. PICK s, k : s = row.source /\ k = row.key
      OBVIOUS
    <3>3. /\ HasFiles(Files(s), row.run, k)
          /\ s \in DOMAIN Standing \/ (s = Evaluated /\ row.run = run)
      BY <2>3, <3>1, <3>2, FilesOfTheRow
    <3>4. Current(pg, s)
      BY <3>2, <3>3 DEF Current
    <3>5. panel = SequenceRoute(s, k)
      BY <2>1, <2>3, <3>2, <3>4 DEF ShownInv
    <3>6. PICK f : f = [run |-> row.run, key |-> k]
      OBVIOUS
    <3>7. f # Cut
      BY <3>6 DEF Cut
    <3>8. Parsed(Files(s).details[k]) = f /\ Parsed(Files(s).views[k]) = f
      BY <3>3, <3>6, <3>7 DEF HasFiles, Parsed
    <3>9. panel.details = f /\ panel.view = f
      BY <3>5, <3>8 DEF SequenceRoute
    <3> QED BY <3>2, <3>6, <3>9
  <2> QED BY <2>1, <2>2, <2>3 DEF PanelOfTheRow
<1> QED BY <1>1, <1>2, InitEval, InitFiles, InitPage, InitRows, PTL DEF Spec

-----------------------------------------------------------------------------
\* The threshold and the configuration: the newest fetch aims at the source shown, and what is
\* shown was the configuration of some source.

LEMMA ConfigIs ==
  ASSUME NEW s, NEW f, NEW c, c = ConfigOf(s, f)
  PROVE  /\ c.source = s
         /\ f = Missing => c.aggregation = None
         /\ f # Missing /\ f # Cut =>
              /\ c.run = f.run /\ c.aggregation = f.is.aggregation /\ c.triage = f.is.triage
              /\ c.aggregation = "logistic" => c.threshold = f.is.threshold
<1>1. CASE f = Missing \/ f = Cut
  <2>1. Parsed(f) = Missing
    BY <1>1 DEF Parsed
  <2>2. c = [NoConfig EXCEPT !.source = s]
    BY <2>1 DEF ConfigOf
  <2>3. c = [source |-> s, run |-> 0, aggregation |-> None, threshold |-> Null, triage |-> Null]
    BY <2>2 DEF NoConfig
  <2>4. c.source = s /\ c.aggregation = None
    BY <2>3
  <2> QED BY <1>1, <2>4
<1>2. CASE f # Missing /\ f # Cut
  <2>1. PICK r, a, l, t : r = f.run /\ a = f.is.aggregation /\ l = f.is.threshold /\ t = f.is.triage
    OBVIOUS
  <2>2. Parsed(f) = f
    BY <1>2 DEF Parsed
  <2>3. PICK v : v = IF a = "logistic" THEN l ELSE Null
    OBVIOUS
  <2>4. c = [source |-> s, run |-> r, aggregation |-> a, threshold |-> v, triage |-> t]
    BY <1>2, <2>1, <2>2, <2>3 DEF ConfigOf
  <2>5. c.source = s /\ c.run = r /\ c.aggregation = a /\ c.threshold = v /\ c.triage = t
    BY <2>4
  <2> QED BY <1>2, <2>1, <2>3, <2>5
<1> QED BY <1>1, <1>2

IsConfig(c) ==
  \/ c = NoConfig
  \/ \E s \in DOMAIN Standing : c = ConfigOf(s, Standing[s].config)
  \/ c = ConfigOf(Evaluated, Missing)
  \/ \E r \in 1..MaxRuns : c = ConfigOf(Evaluated, [run |-> r, is |-> Config[r]])

ConfigInv ==
  /\ page.default = DefaultThr(page.cfg)
  /\ ~moved => page.threshold = page.default
  /\ IsConfig(page.cfg)
  /\ newest["config"] = "pending" => Aims(asked, "config", page.source, None)
  /\ newest["config"] = "applied" => page.cfg.source = page.source

LEMMA InitConfig == Init => ConfigInv
<1> SUFFICES ASSUME Init PROVE ConfigInv
  OBVIOUS
<1>1. PICK f, c, l : f = DefaultFilters /\ c = NoConfig /\ l = NoPanel
  OBVIOUS
<1>2. page = [sources |-> <<>>, source |-> None, rows |-> <<>>, cfg |-> c, key |-> None, panel |-> l,
              threshold |-> DefaultLogisticThreshold, default |-> DefaultLogisticThreshold,
              filters |-> f, sort |-> None]
  BY <1>1 DEF Init, ViewerInit
<1>3. /\ page.cfg = c /\ page.threshold = DefaultLogisticThreshold
      /\ page.default = DefaultLogisticThreshold
  BY <1>2
<1>4. DefaultThr(c) = DefaultLogisticThreshold
  BY <1>1 DEF DefaultThr, NoConfig, Null
<1>5. newest["config"] = "pending"
  BY DEF Init, ViewerInit
<1>6. PICK x, y, a : /\ x = [kind |-> "sources", source |-> None, key |-> None]
                     /\ y = [kind |-> "results", source |-> None, key |-> None] /\ a = <<x, y>>
  OBVIOUS
<1>7. asked = a /\ DOMAIN a = {1, 2} /\ a[1] = x /\ a[2] = y /\ x.kind = "sources" /\ y.kind = "results"
  BY <1>6 DEF Init, ViewerInit
<1>8. \A s, k : Aims(a, "config", s, k)
  BY <1>7 DEF Aims, IsLast
<1> QED BY <1>1, <1>3, <1>4, <1>5, <1>7, <1>8 DEF ConfigInv, IsConfig

LEMMA RouteIsConfig ==
  ASSUME EvalInv, FileInv, NEW s \in Range(Source), NEW c, c = ConfigRoute(s)
  PROVE  IsConfig(c) /\ c.source = s
<1>1. PICK f : f = Files(s).config
  OBVIOUS
<1>2. c = ConfigOf(s, f)
  BY <1>1 DEF ConfigRoute
<1>3. c.source = s
  BY <1>2, ConfigIs
<1>4. CASE s = Evaluated
  <2>1. f = IF run = 0 THEN Missing ELSE [run |-> run, is |-> Config[run]]
    BY <1>1, <1>4 DEF Files, FileInv
  <2>2. run # 0 => run \in 1..MaxRuns
    BY EvaluateAssumption DEF EvalInv
  <2> QED BY <1>2, <1>3, <1>4, <2>1, <2>2 DEF IsConfig
<1>5. CASE s # Evaluated
  <2>1. s \in DOMAIN Standing /\ f = Standing[s].config
    BY <1>1, <1>5, ViewerAssumption DEF Files
  <2> QED BY <1>2, <1>3, <2>1 DEF IsConfig
<1> QED BY <1>4, <1>5

LEMMA StepConfig ==
  ASSUME EvalInv, FileInv, PageInv, ConfigInv, [Next]_vars PROVE ConfigInv'
<1>1. PICK pg, s, a, b : pg = page /\ s = page.source /\ a = asked /\ b = asked'
  OBVIOUS
<1>2. newest \in [Kinds -> Fates] /\ "config" \in Kinds
  BY DEF PageInv, Kinds
<1>3. CASE UNCHANGED <<page, asked, newest, moved>>
  BY <1>3 DEF ConfigInv, IsConfig
<1>4. CASE \E x, i : Loses(x, i)
  <2>1. PICK x, i : Loses(x, i)
    BY <1>4
  <2>2. /\ Without(a, i, b) /\ x = a[i] /\ UNCHANGED <<page, moved>>
        /\ newest' = [newest EXCEPT ![x.kind] = IF newest[x.kind] = "pending" /\ IsLast(a, i, x.kind)
                                                THEN "lost" ELSE @]
    BY <1>1, <2>1 DEF Loses
  <2>3. /\ newest'["config"] = "applied" => newest["config"] = "applied"
        /\ newest'["config"] = "pending" => newest["config"] = "pending" /\ ~IsLast(a, i, "config")
    <3>1. x.kind # "config" => ~IsLast(a, i, "config")
      BY <2>2 DEF IsLast
    <3> QED BY <1>2, <2>2, <3>1
  <2>4. Aims(a, "config", s, None) /\ ~IsLast(a, i, "config") => Aims(b, "config", s, None)
    BY <2>2, AimsWithout
  <2> QED BY <1>1, <2>2, <2>3, <2>4 DEF ConfigInv, IsConfig
<1>5. ASSUME NEW p, NEW q, NEW sent, NEW out, NEW fate, Shows(p, q, sent, out, fate) PROVE ConfigInv'
  <2>1. /\ page' = q /\ q.source = p.source /\ q.cfg = p.cfg
        /\ Sends(pg, q, sent) /\ Joined(out, sent, b)
        /\ q.default = DefaultThr(p.cfg)
        /\ q.threshold = IF DefaultThr(p.cfg) = p.default THEN p.threshold ELSE DefaultThr(p.cfg)
        /\ newest' = [m \in DOMAIN fate |-> IF \E n \in DOMAIN sent : sent[n].kind = m THEN "pending" ELSE fate[m]]
    BY <1>1, <1>5 DEF Shows, Rendering, Settles
  <2>2. DOMAIN fate = Kinds
    <3>1. (\E x, i : Answers(x, i, p, out, fate)) \/ fate = newest
      BY <1>5 DEF Shows
    <3> QED BY <1>2, <3>1 DEF Answers
  <2>3. IsConfig(p.cfg) /\ (~moved' => q.threshold = q.default)
    <3>1. IsConfig(pg.cfg) /\ pg.default = DefaultThr(pg.cfg) /\ (~moved => pg.threshold = pg.default)
      BY <1>1 DEF ConfigInv
    <3>2. CASE Clicked(p)
      <4>1. p.cfg = pg.cfg /\ p.default = pg.default
        BY <1>1, <3>2 DEF Clicked
      <4>2. \/ p.threshold = pg.threshold /\ moved' = moved
            \/ moved' = TRUE
            \/ p.threshold = pg.default /\ moved' = FALSE
        BY <1>1, <3>2 DEF Clicked
      <4> QED BY <2>1, <3>1, <4>1, <4>2
    <3>3. CASE \E x, i : Answers(x, i, p, out, fate)
      <4>1. PICK x, i : Answers(x, i, p, out, fate)
        BY <3>3
      <4>2. /\ x = a[i] /\ i \in DOMAIN a
            /\ p.cfg = IF x.kind = "config" THEN ConfigRoute(x.source) ELSE pg.cfg
            /\ p.threshold = pg.threshold /\ p.default = pg.default
            /\ moved' = (moved /\ DefaultThr(p.cfg) = pg.default)
        BY <1>1, <4>1 DEF Answers, Answered, Without
      <4>3. x.kind = "config" => x.source \in Range(Source)
        BY <1>1, <4>2 DEF PageInv, IsFetch
      <4>4. IsConfig(p.cfg)
        BY <3>1, <4>2, <4>3, RouteIsConfig
      <4> QED BY <2>1, <3>1, <4>2, <4>4
    <3> QED BY <1>5, <3>2, <3>3 DEF Shows
  <2>4. \A m \in DOMAIN sent : sent[m].kind = "config" => sent[m].source = q.source
    BY <2>1 DEF Sends
  <2>5. /\ newest'["config"] = "pending" => Aims(b, "config", q.source, None)
        /\ newest'["config"] = "applied" => q.cfg.source = q.source
    <3>1. CASE \E m \in DOMAIN sent : sent[m].kind = "config"
      <4>1. newest'["config"] = "pending"
        BY <1>2, <2>1, <2>2, <3>1
      <4>2. Aims(b, "config", q.source, None)
        BY <2>1, <2>4, <3>1, AimsJoined
      <4> QED BY <4>1, <4>2
    <3>2. CASE ~ \E m \in DOMAIN sent : sent[m].kind = "config"
      <4>1. newest'["config"] = fate["config"]
        BY <1>2, <2>1, <2>2, <3>2
      <4>2. q.source = s
        BY <1>1, <2>1, <3>2 DEF Sends
      <4>3. /\ newest["config"] = "pending" => Aims(a, "config", s, None)
            /\ newest["config"] = "applied" => pg.cfg.source = s
        BY <1>1 DEF ConfigInv
      <4>4. Aims(out, "config", s, None) => Aims(b, "config", s, None)
        BY <2>1, <2>4, <4>2, AimsJoined
      <4>5. CASE Clicked(p) /\ out = asked /\ fate = newest
        <5>1. q.cfg = pg.cfg
          BY <1>1, <2>1, <4>5 DEF Clicked
        <5> QED BY <1>1, <4>1, <4>2, <4>3, <4>4, <4>5, <5>1
      <4>6. CASE \E x, i : Answers(x, i, p, out, fate)
        <5>1. PICK x, i : Answers(x, i, p, out, fate)
          BY <4>6
        <5>2. /\ Without(a, i, out) /\ x = a[i] /\ i \in DOMAIN a
              /\ p.cfg = IF x.kind = "config" THEN ConfigRoute(x.source) ELSE pg.cfg
              /\ fate = [newest EXCEPT ![x.kind] =
                           IF newest[x.kind] = "pending" /\ IsLast(a, i, x.kind) THEN "applied"
                           ELSE IF newest[x.kind] = "pending" THEN "pending" ELSE "overwritten"]
          BY <1>1, <5>1 DEF Answers, Answered, Without
        <5>3. x.kind # "config" => ~IsLast(a, i, "config") /\ fate["config"] = newest["config"]
          BY <1>2, <5>2 DEF IsLast
        <5>4. x.kind = "config" =>
                /\ fate["config"] = "pending" => newest["config"] = "pending" /\ ~IsLast(a, i, "config")
                /\ fate["config"] = "applied" => newest["config"] = "pending" /\ IsLast(a, i, "config")
          BY <1>2, <5>2
        <5>5. fate["config"] = "pending" => Aims(out, "config", s, None)
          BY <4>3, <5>2, <5>3, <5>4, AimsWithout
        <5>6. CASE x.kind = "config" /\ fate["config"] = "applied"
          <6>1. x.source = s /\ x.source \in Range(Source)
            BY <1>1, <4>3, <5>2, <5>4, <5>6 DEF Aims, PageInv, IsFetch
          <6>2. q.cfg = ConfigRoute(x.source)
            BY <2>1, <5>2, <5>6
          <6>3. q.cfg.source = s
            BY <6>1, <6>2, RouteIsConfig
          <6> QED BY <4>1, <4>2, <5>6, <6>3
        <5>7. CASE x.kind # "config" /\ fate["config"] = "applied"
          BY <2>1, <4>1, <4>2, <4>3, <5>2, <5>3, <5>7
        <5> QED BY <4>1, <4>2, <4>4, <5>5, <5>6, <5>7
      <4> QED BY <1>5, <4>5, <4>6 DEF Shows
    <3> QED BY <3>1, <3>2
  <2> QED BY <1>1, <2>1, <2>3, <2>5 DEF ConfigInv
<1> QED BY <1>3, <1>4, <1>5, Turns

-----------------------------------------------------------------------------
\* A row that was decided at a threshold is not changed by it.

DecidedAt(row, t) ==
  /\ IsRow(row)
  /\ row.decision = Decision(row.probability # Null /\ row.probability >= t)
  /\ row.outcome = ComputeOutcome(row.decision, row.label)

LEMMA ApplyKeeps ==
  ASSUME NEW w, IsSeq(w), NEW t, \A row \in Range(w) : DecidedAt(row, t)
  PROVE  ApplyThreshold(w, t) = w
<1>1. PICK v : v = ApplyThreshold(w, t)
  OBVIOUS
<1>2. DOMAIN v = DOMAIN w /\ \A i \in DOMAIN w :
        v[i] = [w[i] EXCEPT !.decision = Decision(w[i].probability # Null /\ w[i].probability >= t),
                            !.outcome  = ComputeOutcome(Decision(w[i].probability # Null /\ w[i].probability >= t),
                                                        w[i].label)]
  BY <1>1 DEF ApplyThreshold
<1>3. ASSUME NEW i \in DOMAIN w PROVE v[i] = w[i]
  <2>1. PICK r, d, o : /\ r = w[i] /\ d = Decision(r.probability # Null /\ r.probability >= t)
                       /\ o = ComputeOutcome(d, r.label)
    OBVIOUS
  <2>2. DecidedAt(r, t)
    BY <1>3, <2>1 DEF Range
  <2>3. d = r.decision /\ o = r.outcome
    BY <2>1, <2>2 DEF DecidedAt
  <2>4. r = [key |-> r.key, source |-> r.source, run |-> r.run, mode |-> r.mode, label |-> r.label,
             decision |-> r.decision, outcome |-> r.outcome, probability |-> r.probability,
             camera |-> r.camera, organization |-> r.organization]
    BY <2>2 DEF DecidedAt, IsRow
  <2>5. v[i] = [r EXCEPT !.decision = d, !.outcome = o]
    BY <1>2, <1>3, <2>1
  <2>6. [r EXCEPT !.decision = d, !.outcome = o] = r
    BY <2>3, <2>4
  <2> QED BY <2>1, <2>5, <2>6
<1>4. DOMAIN w = 1..Len(w) /\ Len(w) \in Nat
  BY SeqShape
<1>5. w = [i \in 1..Len(w) |-> w[i]] /\ v = [i \in 1..Len(w) |-> v[i]]
  <2>1. w = [i \in 1..Len(w) |-> w[i]]
    BY <1>4 DEF IsSeq
  <2>2. v = [i \in DOMAIN w |-> v[i]]
    BY <1>1, <1>2 DEF ApplyThreshold
  <2> QED BY <1>4, <2>1, <2>2
<1>6. v = w
  BY <1>3, <1>4, <1>5
<1> QED BY <1>1, <1>6

\* A logistic model decides a row by its probability.
LEMMA LogisticDecides ==
  ASSUME NEW r \in 1..MaxRuns, NEW k \in Range(Sequences), Config[r].aggregation = "logistic",
         NEW x, x = Row(r, k)
  PROVE  DecidedAt(x, Config[r].threshold)
<1>1. PICK t, s, T : /\ t = Config[r].threshold /\ s = Tubes[r][k]
                     /\ T = {Tubes[r][k][i].probability : i \in DOMAIN Tubes[r][k]}
  OBVIOUS
<1>2. T \in SUBSET Nat /\ Bounded(T) /\ t \in Nat
  BY <1>1, TubesOf
<1>3. /\ IsRow(x) /\ x.decision = Decision(Positive(r, k)) /\ x.outcome = ComputeOutcome(x.decision, x.label)
      /\ x.probability = MaxProbability(Tubes[r][k])
  BY RowIs
<1>4. x.probability = Best(T)
  BY <1>1, <1>3 DEF MaxProbability
<1>5. Positive(r, k) <=> \E y \in T : y >= t
  BY <1>1 DEF Positive
<1>6. Positive(r, k) <=> x.probability # Null /\ x.probability >= t
  <2>1. ((\E y \in T : y >= t) <=> Best(T) >= t) /\ (Best(T) >= t => Best(T) # Null)
    BY <1>2, BestOf
  <2>2. Best(T) >= t <=> Best(T) # Null /\ Best(T) >= t
    BY <2>1
  <2> QED BY <1>4, <1>5, <2>1, <2>2, Zenon
<1>7. PICK c, d : c = Positive(r, k) /\ d = (x.probability # Null /\ x.probability >= t)
  OBVIOUS
<1>8. Decision(Positive(r, k)) = Decision(x.probability # Null /\ x.probability >= t)
  BY <1>6 DEF Decision
<1> QED BY <1>1, <1>3, <1>8 DEF DecidedAt

\* The rows of a source nobody rewrites are of one kind.
LEMMA OneMode ==
  ASSUME NEW s \in DOMAIN Standing, Parsed(Standing[s].results) # Missing,
         NEW row \in Range(Standing[s].results.rows), NEW other \in Range(Standing[s].results.rows)
  PROVE  row.mode = other.mode
<1>1. \A r, o \in Range(Standing[s].results.rows) : r.mode = o.mode
  BY StandingAssumption, Zenon
<1> QED BY <1>1

\* The rows of a source that the page decides again were decided at the threshold it shows.
LEMMA ShownAsDecided ==
  ASSUME RowsInv, ConfigInv, NEW p, p = page, p.cfg.source = p.source, ShowSlider(p),
         \A row \in Range(SourceRows(p)) : row.run = p.cfg.run,
         NEW row \in Range(SourceRows(p))
  PROVE  DecidedAt(row, DefaultThr(p.cfg))
<1>1. IsSeq(p.rows) /\ IsConfig(p.cfg)
  BY DEF RowsInv, ConfigInv
<1>2. Range(SourceRows(p)) = {r \in Range(p.rows) : r.source = p.source}
  BY <1>1, SourceRowsAre
<1>3. row \in Range(p.rows) /\ row.source = p.source /\ row.run = p.cfg.run
  BY <1>2
<1>4. Stands(row) \/ Fresh(row)
  BY <1>3 DEF RowsInv
<1>5. PICK s, c : s = p.source /\ c = p.cfg
  OBVIOUS
<1>6. "none" \notin Range(Source) /\ Evaluated \in Range(Source)
      /\ DOMAIN Standing = Range(Source) \ {Evaluated}
  BY ViewerAssumption
<1>7. c = NoConfig => c.source = None
  BY DEF NoConfig
<1>8. CASE Stands(row)
  <2>1. s \in DOMAIN Standing /\ s # Evaluated /\ s # None
    BY <1>3, <1>5, <1>6, <1>8 DEF Stands, None
  <2>2. c = ConfigOf(s, Standing[s].config)
    <3>1. ASSUME NEW t \in DOMAIN Standing, c = ConfigOf(t, Standing[t].config)
          PROVE  c = ConfigOf(s, Standing[s].config)
      <4>1. PICK f : f = Standing[t].config
        OBVIOUS
      <4>2. c.source = t
        BY <3>1, <4>1, ConfigIs
      <4>3. t = s
        BY <1>5, <4>2
      <4> QED BY <3>1, <4>3
    <3>2. ASSUME NEW f, c = ConfigOf(Evaluated, f) PROVE FALSE
      <4>1. PICK e : e = Evaluated
        OBVIOUS
      <4>2. c.source = e
        BY <3>2, <4>1, ConfigIs
      <4> QED BY <1>5, <2>1, <4>1, <4>2
    <3> QED BY <1>1, <1>5, <1>7, <2>1, <3>1, <3>2 DEF IsConfig
  <2>3. StandsAlone(s, row)
    BY <1>3, <1>5, <1>8, StandingRow DEF Stands
  <2>4. row.mode = "triage" \/ c.aggregation = "logistic"
    <3>1. CASE InMode(p, "triage")
      <4>1. PICK i \in DOMAIN p.rows : p.rows[i].source = p.source /\ p.rows[i].mode = "triage"
        BY <3>1 DEF InMode
      <4>2. PICK o : o = p.rows[i]
        OBVIOUS
      <4>3. o \in Range(p.rows) /\ o.source = s
        BY <1>5, <4>1, <4>2 DEF Range
      <4>4. Stands(o)
        <5>1. Stands(o) \/ Fresh(o)
          BY <4>3 DEF RowsInv
        <5>2. ASSUME Fresh(o) PROVE FALSE
          <6>1. PICK r \in 1..MaxRuns : IsWritten(o, r)
            BY <5>2 DEF Fresh
          <6>2. o.source = Evaluated
            BY <6>1, RowIs DEF IsWritten
          <6> QED BY <2>1, <4>3, <6>2
        <5> QED BY <5>1, <5>2
      <4>5. /\ Parsed(Standing[s].results) # Missing /\ o \in Range(Standing[s].results.rows)
            /\ row \in Range(Standing[s].results.rows)
        BY <1>3, <1>5, <1>8, <4>3, <4>4 DEF Stands
      <4>6. row.mode = o.mode
        BY <2>1, <4>5, OneMode
      <4> QED BY <4>1, <4>2, <4>6
    <3> QED BY <1>5, <3>1 DEF ShowSlider
  <2>5. row.run = c.run
    BY <1>3, <1>5
  <2>6. /\ IsRow(row)
        /\ row.decision = Decision(row.probability # Null /\ row.probability >= DefaultThr(c))
        /\ row.outcome = ComputeOutcome(row.decision, row.label)
    BY <2>2, <2>3, <2>4, <2>5 DEF StandsAlone
  <2> QED BY <1>5, <2>6 DEF DecidedAt
<1>9. CASE Fresh(row)
  <2>1. PICK r \in 1..MaxRuns : IsWritten(row, r)
    BY <1>9 DEF Fresh
  <2>2. PICK k \in Range(Sequences) : row = Row(r, k)
    BY <2>1 DEF IsWritten
  <2>3. row.source = Evaluated /\ row.run = r
    BY <2>2, RowIs
  <2>4. c.aggregation = "logistic"
    <3>1. ASSUME NEW i \in DOMAIN p.rows, p.rows[i].source = p.source, p.rows[i].mode = "triage" PROVE FALSE
      <4>1. PICK o : o = p.rows[i]
        OBVIOUS
      <4>2. o \in Range(p.rows) /\ o.source = Evaluated /\ o.mode = "triage"
        BY <1>3, <2>3, <3>1, <4>1 DEF Range
      <4>3. Fresh(o)
        <5>1. Stands(o) => o.source \in DOMAIN Standing
          BY DEF Stands
        <5> QED BY <1>6, <4>2, <5>1 DEF RowsInv
      <4>4. PICK m \in 1..MaxRuns : IsWritten(o, m)
        BY <4>3 DEF Fresh
      <4>5. o.mode = "eval"
        BY <4>4, RowIs DEF IsWritten
      <4> QED BY <4>2, <4>5
    <3> QED BY <1>5, <3>1 DEF ShowSlider, InMode
  <2>5. /\ c # ConfigOf(Evaluated, Missing) /\ c # NoConfig
        /\ ~ \E t \in DOMAIN Standing : c = ConfigOf(t, Standing[t].config)
    <3>1. ASSUME NEW e, NEW f, e = Evaluated, f = Missing, c = ConfigOf(e, f) PROVE FALSE
      <4>1. c.aggregation = None
        BY <3>1, ConfigIs
      <4> QED BY <2>4, <4>1 DEF None
    <3>2. ASSUME NEW t \in DOMAIN Standing, NEW f, f = Standing[t].config, c = ConfigOf(t, f) PROVE FALSE
      <4>1. c.source = t
        BY <3>2, ConfigIs
      <4> QED BY <1>3, <1>5, <1>6, <2>3, <4>1
    <3> QED BY <1>3, <1>5, <1>6, <1>7, <2>3, <3>1, <3>2 DEF None
  <2>6. PICK m \in 1..MaxRuns : c = ConfigOf(Evaluated, [run |-> m, is |-> Config[m]])
    BY <1>1, <1>5, <2>5 DEF IsConfig
  <2>7. PICK e, g, f : e = Evaluated /\ g = Config[m] /\ f = [run |-> m, is |-> g]
    OBVIOUS
  <2>8. f.run = m /\ f.is = g /\ f # Missing /\ f # Cut
    BY <2>7 DEF Missing, Cut
  <2>9. c = ConfigOf(e, f)
    BY <2>6, <2>7
  <2>10. c.run = m /\ c.aggregation = g.aggregation /\ c.triage = g.triage /\ c.threshold = g.threshold
    BY <2>4, <2>8, <2>9, ConfigIs
  <2>11. m = r
    BY <1>3, <1>5, <2>3, <2>10
  <2>12. g.threshold \in Nat /\ g.triage = Null
    BY <2>7, EvaluateAssumption
  <2>13. DefaultThr(c) = g.threshold
    BY <2>10, <2>12 DEF DefaultThr, Null
  <2>14. DecidedAt(row, Config[r].threshold)
    BY <2>2, <2>4, <2>7, <2>10, <2>11, LogisticDecides
  <2> QED BY <1>5, <2>7, <2>11, <2>13, <2>14
<1> QED BY <1>4, <1>8, <1>9

\* The configuration is that of the source once its newest fetch is answered, and until the user
\* moves the slider a source beside the configuration of its own run is shown with the verdicts
\* that run recorded, though the page decides every row again (page.tsx, outcomes.ts).
THEOREM VerdictsStand == Spec => []VerdictsOfTheRun
<1>1. EvalInv /\ FileInv /\ PageInv /\ RowsInv /\ ConfigInv /\ [Next]_vars
        => (EvalInv /\ FileInv /\ PageInv /\ RowsInv /\ ConfigInv)'
  <2> SUFFICES ASSUME EvalInv, FileInv, PageInv, RowsInv, ConfigInv, [Next]_vars
               PROVE  (EvalInv /\ FileInv /\ PageInv /\ RowsInv /\ ConfigInv)'
    OBVIOUS
  <2>1. Evaluation \/ UNCHANGED evaluation
    BY EvaluationSteps
  <2> QED BY <2>1, StepEval, StepFiles, StepPage, StepRows, StepConfig
<1>2. RowsInv /\ ConfigInv => VerdictsOfTheRun
  <2> SUFFICES ASSUME RowsInv, ConfigInv PROVE VerdictsOfTheRun
    OBVIOUS
  <2>1. newest["config"] = "applied" => page.cfg.source = page.source
    BY DEF ConfigInv
  <2>2. ASSUME ~moved, page.cfg.source = page.source,
               \A row \in Range(SourceRows(page)) : row.run = page.cfg.run
        PROVE  Rows(page) = SourceRows(page)
    <3>1. PICK pg, w : pg = page /\ w = SourceRows(pg)
      OBVIOUS
    <3>2. IsSeq(w)
      BY <3>1, SourceRowsAre DEF RowsInv
    <3>3. CASE ~ShowSlider(pg)
      BY <3>1, <3>3 DEF Rows
    <3>4. CASE ShowSlider(pg)
      <4>1. pg.threshold = DefaultThr(pg.cfg)
        BY <2>2, <3>1 DEF ConfigInv
      <4>2. \A row \in Range(w) : DecidedAt(row, pg.threshold)
        BY <2>2, <3>1, <3>4, <4>1, ShownAsDecided
      <4>3. ApplyThreshold(w, pg.threshold) = w
        BY <3>2, <4>2, ApplyKeeps
      <4> QED BY <3>1, <3>4, <4>3 DEF Rows
    <3> QED BY <3>3, <3>4
  <2> QED BY <2>1, <2>2 DEF VerdictsOfTheRun
<1> QED BY <1>1, <1>2, InitEval, InitFiles, InitPage, InitRows, InitConfig, PTL DEF Spec
=============================================================================
