----------------------------- MODULE TubeMerge -----------------------------
(***************************************************************************)
(* build_tubes_for_inference (core/inference.py) after build_tubes: filter *)
(* the tubes, merge those that are fragments of the same plume             *)
(* (merge_colocated_tubes, core/tubes.py), filter again.                   *)
(*                                                                         *)
(* A tube is given by its observations, a function from frames to boxes:   *)
(* its entries are the frames from the first to the last of them, and the  *)
(* others are its gaps, which interpolate_gaps fills with boxes that       *)
(* nothing here reads.                                                     *)
(***************************************************************************)
EXTENDS Tubes, Integers, Sequences, FiniteSets, FiniteSetsExt

CONSTANTS
  SameBox,       \* the pairs _same_box accepts
  Rank,          \* _box_rank
  MergeMaxGap,   \* merge_max_gap
  MinTubeLength,
  MinDetected,
  MaxFrame,      \* bound: frames
  MaxObserved,   \* bound: observations of a tube
  MaxTubes       \* bound: tubes

ASSUME MergeAssumption ==
  /\ SameBox \subseteq Box \X Box
  /\ \A a, b \in Box : <<a, b>> \in SameBox => <<b, a>> \in SameBox
  /\ Rank \in [Box -> Nat]
  /\ {MaxMisses, MergeMaxGap, MinTubeLength, MinDetected, MaxFrame, MaxObserved, MaxTubes}
       \subseteq Nat

VARIABLES
  phase,
  merging,    \* all three merge thresholds are configured
  fragments,  \* the tubes of build_tubes, then those that pass the first filter
  parent,     \* the union-find forest over their indices
  pair,       \* the pair of indices to look at
  result      \* the merged tubes in order of their new tube_id, then what is returned

mergeVars == <<phase, merging, fragments, parent, pair, result>>

FirstFrame(t) == Min(DOMAIN t)
LastFrame(t)  == Max(DOMAIN t)

\* What TubeBuilder builds, its GapBound included.
Fragment ==
  {t \in UNION {[S -> Box] : S \in {S \in SUBSET (1..MaxFrame) : Cardinality(S) \in 1..MaxObserved}} :
     \A f \in DOMAIN t : f = LastFrame(t) \/ \E g \in (f + 1)..(f + 1 + MaxMisses) : g \in DOMAIN t}

\* filter_and_interpolate_tubes: the test, and the survivors in the order of the tubes.
Passes(t) == LastFrame(t) - FirstFrame(t) + 1 >= MinTubeLength /\ Cardinality(DOMAIN t) >= MinDetected
Survivors(s) ==
  LET kept[n \in Nat] ==
        IF n = 0 THEN <<>>
        ELSE IF Passes(s[n]) THEN Append(kept[n - 1], s[n]) ELSE kept[n - 1]
  IN  kept[Len(s)]

TimeGap_Missing(a, b) ==  \* variant: the frames missing between the spans
  IF FirstFrame(b) > LastFrame(a) THEN FirstFrame(b) - LastFrame(a) - 1
  ELSE IF FirstFrame(a) > LastFrame(b) THEN FirstFrame(a) - LastFrame(b) - 1 ELSE 0
\* _time_gap
TimeGap(a, b) ==
  IF FirstFrame(b) > LastFrame(a) THEN FirstFrame(b) - LastFrame(a)
  ELSE IF FirstFrame(a) > LastFrame(b) THEN FirstFrame(a) - LastFrame(b) ELSE 0

\* _closest_in_time: the first of the nearest pairs, by the frame of a, then of b.
Distance(p) == IF p[1] < p[2] THEN p[2] - p[1] ELSE p[1] - p[2]
Closest(a, b) ==
  CHOOSE p \in (DOMAIN a) \X (DOMAIN b) :
    \A q \in (DOMAIN a) \X (DOMAIN b) :
      \/ Distance(p) < Distance(q)
      \/ Distance(p) = Distance(q) /\ (p[1] < q[1] \/ (p[1] = q[1] /\ p[2] <= q[2]))

SamePlume(a, b) ==
  /\ TimeGap(a, b) <= MergeMaxGap
  /\ LET p == Closest(a, b) IN <<a[p[1]], b[p[2]]>> \in SameBox

\* root(x): the walk to the root halves the path; the new forest and the root.
Walk(p, x) ==
  LET walk[w \in [1..MaxTubes -> 1..MaxTubes] \X (1..MaxTubes)] ==
        LET q == [w[1] EXCEPT ![w[2]] = w[1][w[1][w[2]]]]
        IN  IF w[1][w[2]] = w[2] THEN w ELSE walk[<<q, q[w[2]]>>]
  IN  walk[<<p, x>>]
Root(p, x) == Walk(p, x)[2]
-----------------------------------------------------------------------------
MergeInit ==
  /\ phase = "build"
  /\ merging \in BOOLEAN
  /\ fragments = <<>> /\ result = <<>>
  /\ parent = [i \in 1..MaxTubes |-> i]
  /\ pair = <<1, 2>>

\* build_tubes has one tube more; tube ids follow the first frames.
Build ==
  /\ phase = "build"
  /\ Len(fragments) < MaxTubes
  /\ \E t \in Fragment :
       /\ \A i \in DOMAIN fragments : FirstFrame(fragments[i]) <= FirstFrame(t)
       /\ fragments' = Append(fragments, t)
  /\ UNCHANGED <<phase, merging, parent, pair, result>>

\* Without a merge the one filter there is gives the answer.
Filter ==
  /\ phase = "build"
  /\ fragments' = Survivors(fragments)
  /\ IF merging
     THEN phase' = "link" /\ UNCHANGED result
     ELSE phase' = "done" /\ result' = fragments'
  /\ UNCHANGED <<merging, parent, pair>>

NextPair == IF pair[2] < Len(fragments) THEN <<pair[1], pair[2] + 1>> ELSE <<pair[1] + 1, pair[1] + 2>>

Union_Leaf(i, j) ==   \* variant: the index is linked, not its root
  [parent EXCEPT ![i] = Root(parent, j)]
\* parent[root(i)] = root(j), the right-hand side first.
Union(i, j) ==
  LET w == Walk(parent, j)
      v == Walk(w[1], i)
  IN  [v[1] EXCEPT ![v[2]] = w[2]]

\* One turn of the double loop of _connected_components.
Link ==
  /\ phase = "link"
  /\ pair[2] <= Len(fragments)
  /\ parent' = IF SamePlume(fragments[pair[1]], fragments[pair[2]])
               THEN Union(pair[1], pair[2]) ELSE parent
  /\ pair' = NextPair
  /\ UNCHANGED <<phase, merging, fragments, result>>

Component(i) == {k \in DOMAIN fragments : Root(parent, k) = Root(parent, i)}
Observing(c, f) == {m \in c : f \in DOMAIN fragments[m]}
Wins_Last(c, f, m) == \A k \in Observing(c, f) : k <= m   \* variant: the last one wins
\* The first of the members with the best box of a frame.
Wins(c, f, m) ==
  \A k \in Observing(c, f) :
    \/ Rank[fragments[m][f]] > Rank[fragments[k][f]]
    \/ Rank[fragments[m][f]] = Rank[fragments[k][f]] /\ m <= k
\* _combine
Combined(c) ==
  [f \in UNION {DOMAIN fragments[m] : m \in c} |->
     fragments[CHOOSE m \in Observing(c, f) : Wins(c, f, m)][f]]

\* merged.sort is stable: components with the same span stay in order of creation.
Before(c, d) ==
  LET key(e) == <<FirstFrame(Combined(e)), LastFrame(Combined(e)), Min(e)>>
      p == key(c)
      q == key(d)
  IN  \/ p[1] < q[1]
      \/ p[1] = q[1] /\ p[2] < q[2]
      \/ p[1] = q[1] /\ p[2] = q[2] /\ p[3] < q[3]

Combine ==
  /\ phase = "link"
  /\ pair[2] > Len(fragments)
  /\ LET components == {Component(i) : i \in DOMAIN fragments} IN
     \E cs \in [1..Cardinality(components) -> components] :
       /\ {cs[k] : k \in DOMAIN cs} = components
       /\ \A k, l \in DOMAIN cs : k < l => Before(cs[k], cs[l])
       /\ result' = [k \in DOMAIN cs |-> Combined(cs[k])]
  /\ phase' = "merged"
  /\ UNCHANGED <<merging, fragments, parent, pair>>

\* The second filter.
Refilter ==
  /\ phase = "merged"
  /\ result' = Survivors(result)
  /\ phase' = "done"
  /\ UNCHANGED <<merging, fragments, parent, pair>>

MergeNext ==
  \/ Build
  \/ Filter
  \/ Link
  \/ Combine
  \/ Refilter

MergeSpec == MergeInit /\ [][MergeNext]_mergeVars
-----------------------------------------------------------------------------
\* A set of tubes that leaves out no fragment of a plume it has a fragment of.
Related(i, j) ==
  SamePlume(fragments[IF i < j THEN i ELSE j], fragments[IF i < j THEN j ELSE i])
Whole(X) == \A i \in X, k \in DOMAIN fragments : Related(i, k) => k \in X

\* The union-find forest, whose paths are rewritten while they are walked, ends up with
\* one tree for each connected component of the fragments.
Components ==
  phase = "merged" => \A i \in DOMAIN fragments :
    /\ i \in Component(i) /\ Whole(Component(i))
    /\ \A X \in SUBSET DOMAIN fragments : i \in X /\ Whole(X) => Component(i) \subseteq X

\* A merged tube never bridges more frames than a tube may miss or fragments may be
\* apart, however many fragments are chained.
GapsBridged ==
  \A k \in DOMAIN result : \A f \in DOMAIN result[k] :
    f = LastFrame(result[k]) \/ \E g \in DOMAIN result[k] :
                            g > f /\ (g - f <= MaxMisses + 1 \/ g - f <= MergeMaxGap)

\* Merging loses no plume: each tube that passed the first filter is covered by one
\* that is returned, with boxes at least as good on each of its frames, so the second
\* filter finds nothing to drop.  What is returned has been observed.
FragmentsKept ==
  phase = "done" =>
    /\ \A i \in DOMAIN fragments : \E k \in DOMAIN result : \A f \in DOMAIN fragments[i] :
         f \in DOMAIN result[k] /\ Rank[result[k][f]] >= Rank[fragments[i][f]]
    /\ \A k \in DOMAIN result : \A f \in DOMAIN result[k] : \E i \in DOMAIN fragments :
         f \in DOMAIN fragments[i] /\ fragments[i][f] = result[k][f]
=============================================================================
