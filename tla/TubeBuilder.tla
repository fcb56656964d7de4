---------------------------- MODULE TubeBuilder ----------------------------
(***************************************************************************)
(* build_tubes (core/tubes.py): detections of successive frames are linked *)
(* into tubes by greedy one-to-one IoU matching.  The matching is modelled *)
(* one accepted pair at a time, so that what the greedy loop guarantees is *)
(* a property of the steps and not of the definition.                      *)
(*                                                                         *)
(* Active and finished tubes are one sequence: a tube's position is its    *)
(* tube_id + 1, because both lists of the code keep creation order.        *)
(* Frame f of the model is frame_idx f - 1; detection j is index j - 1.    *)
(***************************************************************************)
EXTENDS Tubes, Integers, Sequences

CONSTANTS
  Iou,          \* overlap of two boxes, in a unit fine enough to keep the order
  IouThreshold,
  MaxFrames,    \* bound: length of frame_detections
  MaxDets       \* bound: detections in one frame

ASSUME BuilderAssumption ==
  /\ Iou \in [Box \X Box -> Nat]
  /\ IouThreshold \in Nat
  /\ MaxMisses \in Nat
  /\ MaxFrames \in Nat
  /\ MaxDets \in Nat

VARIABLES
  pc,      \* "next" frame, "match" pairs, "start" new tubes, "done"
  frames,  \* the detections read so far: frames[f][j] is a box
  tubes,   \* every tube built so far, in order of tube_id
  taker    \* taker[j]: the tube detection j of the current frame went to, 0 if none

vars == <<pc, frames, tubes, taker>>

Gap   == 0      \* a TubeEntry whose detection is None
Entry == [frame : Nat, det : Nat]
Tube  == [start : Nat, end : Nat, misses : Nat, open : BOOLEAN, entries : Seq(Entry)]
Frame == UNION {[1..n -> Box] : n \in 0..MaxDets}

now == Len(frames)

\* _last_detection at the top of the frame: the box of the tube's latest entry,
\* in a frame before this one, that is not a gap.
Observed(t) == {m \in DOMAIN t.entries : t.entries[m].frame < now /\ t.entries[m].det # Gap}
LastDetection(t) ==
  LET k == CHOOSE m \in Observed(t) : \A n \in Observed(t) : n <= m
  IN  frames[t.entries[k].frame][t.entries[k].det]

\* The pairs match_detections lists: the tubes alive when the frame arrived
\* against the detections of the frame.
Overlap(p) == Iou[<<LastDetection(tubes[p[1]]), frames[now][p[2]]>>]
Pairs_AnyOverlap ==   \* variant: the threshold is not applied
  {p \in (DOMAIN tubes) \X (DOMAIN taker) : tubes[p[1]].open /\ tubes[p[1]].start < now}
Pairs_Finished ==     \* variant: finished tubes stay in the running
  {p \in (DOMAIN tubes) \X (DOMAIN taker) :
     tubes[p[1]].start < now /\ Overlap(p) >= IouThreshold}
Pairs ==
  {p \in (DOMAIN tubes) \X (DOMAIN taker) :
     tubes[p[1]].open /\ tubes[p[1]].start < now /\ Overlap(p) >= IouThreshold}

\* pairs.sort(key=-iou) is stable, so ties keep the order of the two loops.
Ahead(p, q) ==
  \/ Overlap(p) > Overlap(q)
  \/ /\ Overlap(p) = Overlap(q)
     /\ p[1] < q[1] \/ (p[1] = q[1] /\ p[2] <= q[2])

Taken(i) == \E j \in DOMAIN taker : taker[j] = i
Free == {p \in Pairs : taker[p[2]] = 0 /\ ~Taken(p[1])}

Gaps_Short(t) ==      \* variant: the range stops one frame early
  LET last == t.entries[Len(t.entries)].frame
  IN  [k \in 1..(now - last - 2) |-> [frame |-> last + k, det |-> Gap]]
\* _fill_gaps: one gap entry for each frame between the last entry and this one.
Gaps(t) ==
  LET last == t.entries[Len(t.entries)].frame
  IN  [k \in 1..(now - last - 1) |-> [frame |-> last + k, det |-> Gap]]

Extended(t, j) ==
  [t EXCEPT !.entries = Append(@ \o Gaps(t), [frame |-> now, det |-> j]),
            !.end = now,
            !.misses = 0]

NewTube(j) ==
  [start |-> now, end |-> now, misses |-> 0, open |-> TRUE,
   entries |-> <<[frame |-> now, det |-> j]>>]
-----------------------------------------------------------------------------
Init ==
  /\ pc = "next"
  /\ frames = <<>>
  /\ tubes = <<>>
  /\ taker = <<>>

Read(dets) ==
  /\ pc = "next"
  /\ now < MaxFrames
  /\ pc' = "match"
  /\ frames' = Append(frames, dets)
  /\ taker' = [j \in DOMAIN dets |-> 0]
  /\ UNCHANGED tubes

Match_Unsorted ==     \* variant: the pairs are not sorted by overlap
  /\ pc = "match"
  /\ \E p \in Free :
       /\ tubes' = [tubes EXCEPT ![p[1]] = Extended(@, p[2])]
       /\ taker' = [taker EXCEPT ![p[2]] = p[1]]
  /\ UNCHANGED <<pc, frames>>

\* The greedy loop takes the first pair neither side of which is used.
Match ==
  /\ pc = "match"
  /\ \E p \in Free :
       /\ \A q \in Free : Ahead(p, q)
       /\ tubes' = [tubes EXCEPT ![p[1]] = Extended(@, p[2])]
       /\ taker' = [taker EXCEPT ![p[2]] = p[1]]
  /\ UNCHANGED <<pc, frames>>

\* Every active tube the frame did not extend counts a miss.
Miss ==
  /\ pc = "match"
  /\ Free = {}
  /\ pc' = "start"
  /\ tubes' = [i \in DOMAIN tubes |->
                 IF tubes[i].open /\ ~Taken(i)
                 THEN [tubes[i] EXCEPT !.misses = @ + 1]
                 ELSE tubes[i]]
  /\ UNCHANGED <<frames, taker>>

\* The first detection without a tube starts one, with the next tube_id.
Start ==
  /\ pc = "start"
  /\ \E j \in DOMAIN taker :
       /\ taker[j] = 0
       /\ \A k \in DOMAIN taker : taker[k] = 0 => j <= k
       /\ tubes' = Append(tubes, NewTube(j))
       /\ taker' = [taker EXCEPT ![j] = Len(tubes) + 1]
  /\ UNCHANGED <<pc, frames>>

Prune_Late ==         \* variant: one miss too many is tolerated
  /\ pc = "start"
  /\ \A j \in DOMAIN taker : taker[j] # 0
  /\ pc' = "next"
  /\ tubes' = [i \in DOMAIN tubes |->
                 [tubes[i] EXCEPT !.open = @ /\ tubes[i].misses <= MaxMisses + 1]]
  /\ UNCHANGED <<frames, taker>>

Prune_Lossy ==        \* variant: unmatched detections start tubes only when there is none
  /\ pc = "start"
  /\ \A j \in DOMAIN taker : taker[j] # 0 \/ tubes # <<>>
  /\ pc' = "next"
  /\ tubes' = [i \in DOMAIN tubes |->
                 [tubes[i] EXCEPT !.open = @ /\ tubes[i].misses <= MaxMisses]]
  /\ UNCHANGED <<frames, taker>>

\* Active tubes with more than max_misses misses are finished.
Prune ==
  /\ pc = "start"
  /\ \A j \in DOMAIN taker : taker[j] # 0
  /\ pc' = "next"
  /\ tubes' = [i \in DOMAIN tubes |->
                 [tubes[i] EXCEPT !.open = @ /\ tubes[i].misses <= MaxMisses]]
  /\ UNCHANGED <<frames, taker>>

\* After the last frame every remaining tube is finished; the result, sorted by
\* tube_id, is the sequence itself.
Finish ==
  /\ pc = "next"
  /\ pc' = "done"
  /\ tubes' = [i \in DOMAIN tubes |-> [tubes[i] EXCEPT !.open = FALSE]]
  /\ UNCHANGED <<frames, taker>>

Next ==
  \/ \E dets \in Frame : Read(dets)
  \/ Match
  \/ Miss
  \/ Start
  \/ Prune
  \/ Finish

Spec == Init /\ [][Next]_vars
-----------------------------------------------------------------------------
TypeOK ==
  /\ pc \in {"next", "match", "start", "done"}
  /\ frames \in Seq(Frame)
  /\ tubes \in Seq(Tube)
  /\ taker \in Seq(0..Len(tubes))
  /\ DOMAIN taker = IF now = 0 THEN {} ELSE DOMAIN frames[now]

WellFormed(t) ==
  /\ t.start \in 1..t.end
  /\ Len(t.entries) = t.end - t.start + 1
  /\ \A k \in DOMAIN t.entries : t.entries[k].frame = t.start + k - 1
  /\ t.entries[1].det # Gap
  /\ t.entries[Len(t.entries)].det # Gap

\* A tube holds one entry for every frame from its start to its end, in order,
\* and neither its first nor its last entry is a gap: whatever frames it missed,
\* filling the gaps late leaves no hole, no duplicate and no dangling gap.
Contiguous == \A i \in DOMAIN tubes : WellFormed(tubes[i])

ShortGaps(es) ==
  \A k, m \in DOMAIN es :
    k <= m /\ (\A x \in k..m : es[x].det = Gap) => m - k < MaxMisses

\* No tube contains more than max_misses gaps in a row: the miss counter, reset
\* by a match and read only at the pruning, bounds the gaps written afterwards.
GapBound == \A i \in DOMAIN tubes : ShortGaps(tubes[i].entries)

\* How the counter a tube is pruned by follows from the frame it was last seen in;
\* inductive together with the three above.
MissCount ==
  \A i \in DOMAIN tubes :
    LET t == tubes[i] IN
    /\ t.end <= now
    /\ t.open /\ pc = "next" => t.misses = now - t.end /\ t.misses <= MaxMisses
    /\ t.open /\ pc = "match" =>
         IF Taken(i)
         THEN t.end = now /\ t.misses = 0
         ELSE t.end < now /\ t.misses = now - 1 - t.end /\ t.misses <= MaxMisses
    /\ t.open /\ pc = "start" => t.misses = now - t.end

IInv == TypeOK /\ Contiguous /\ GapBound /\ MissCount

\* Between frames, every detection read so far is in exactly one entry of
\* exactly one tube: matching loses and shares none.
Partition ==
  pc = "next" =>
    \A f \in DOMAIN frames : \A j \in DOMAIN frames[f] :
      LET at == {x \in (DOMAIN tubes) \X (1..now) :
                   /\ x[2] \in DOMAIN tubes[x[1]].entries
                   /\ tubes[x[1]].entries[x[2]] = [frame |-> f, det |-> j]}
      IN  \E x \in at : at = {x}

\* Two neighbouring observations of a tube, gaps between them skipped, overlap
\* by at least the threshold.
Linked ==
  \A i \in DOMAIN tubes :
    LET es == tubes[i].entries
        box(e) == frames[e.frame][e.det]
    IN  \A k, m \in DOMAIN es :
          /\ k < m
          /\ es[k].det # Gap /\ es[m].det # Gap
          /\ \A x \in (k + 1)..(m - 1) : es[x].det = Gap
          => Iou[<<box(es[k]), box(es[m])>>] >= IouThreshold

Settled(p) ==
  \E q \in Pairs : /\ taker[q[2]] = q[1]
                   /\ q[1] = p[1] \/ q[2] = p[2]
                   /\ Ahead(q, p)

\* While it runs, each pair is still free or already settled by a better one.
Progress == pc = "match" => \A p \in Pairs : p \in Free \/ Settled(p)

\* When the greedy loop ends no pair blocks: for every pair above the threshold,
\* the tube or the detection was given to a pair at least as good.  So a new tube
\* never starts on a detection that a tube missing this frame could have taken.
StableMatching == pc = "start" => \A p \in Pairs : Settled(p)

\* A finished tube is never extended nor opened again, and a tube only ever
\* grows at its end.
AppendOnly ==
  [][\A i \in DOMAIN tubes :
       /\ i \in DOMAIN tubes'
       /\ ~tubes[i].open => tubes'[i] = tubes[i]
       /\ SubSeq(tubes'[i].entries, 1, Len(tubes[i].entries)) = tubes[i].entries]_vars
=============================================================================
