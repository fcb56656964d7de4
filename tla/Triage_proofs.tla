--------------------------- MODULE Triage_proofs ---------------------------
(***************************************************************************)
(* The manifest of the frames and the shards, and the rows and details of  *)
(* a report, for every number of sequences, runs and kills, all sizes and  *)
(* every target size (TriageReport); and what a pull leaves in the store,  *)
(* for every number of sequences, frames, workers and faults (TriagePull). *)
(***************************************************************************)
EXTENDS TriageReport, TriagePull, TLAPS, WellFoundedInduction, FiniteSetTheorems, SequenceTheorems

\* Only the sequences of the command under way are left to write.
TodoOK ==
  /\ store \subseteq Sequence /\ todo \subseteq Sequence
  /\ details \in [Sequence -> Nat] /\ packed \in [Sequence -> Nat]
  /\ rows \in [Sequence -> Nat] /\ copied \in [Sequence -> Nat] /\ run \in Nat

\* While score writes the details, each row has them or is still to come.
Matching ==
  /\ cmd = "score" => \A s \in Some(rows) : rows[s] = run /\ (s \in todo \/ details[s] = run)
  /\ RowsHaveDetails

\* While tars are written the one that is open, if any, is there.
ShardsOK ==
  /\ \A k \in DOMAIN shards : shards[k] \in [units : SUBSET Sequence, sealed : BOOLEAN]
  /\ cmd = "frames" => used \in Nat /\ (used > 0 => mem.next \in DOMAIN shards)

ScoreInv == TodoOK /\ ShardsOK /\ Matching

Holds(k, s) == k \in DOMAIN shards /\ s \in shards[k].units

\* What a manifest promises, and that the names it gives next are not in use by it.
Closed(m) ==
  \A s \in Some(m.items) :
    /\ Holds(m.items[s], s) /\ shards[m.items[s]].sealed
    /\ m.items[s] \in Nat /\ m.items[s] < m.next

\* The manifest in memory while tars are written: the open tar alone is not sealed.
Open ==
  /\ mem.next \in Nat /\ manifest.next <= mem.next /\ used \in Nat
  /\ \A s \in Some(mem.items) :
       /\ Holds(mem.items[s], s) /\ mem.items[s] \in Nat
       /\ \/ mem.items[s] < mem.next /\ shards[mem.items[s]].sealed
          \/ mem.items[s] = mem.next /\ used > 0

PackInv ==
  /\ manifest.next \in Nat /\ Closed(manifest)
  /\ cmd = "frames" => Open
  /\ cmd = "manifest" => mem.next \in Nat /\ Closed(mem)
-----------------------------------------------------------------------------
LEMMA FirstInTodo ==
  ASSUME todo \subseteq Sequence, todo # {}
  PROVE  First \in todo
<1>1. todo \subseteq Nat
  BY ReportAssumption DEF Sequence
<1>2. PICK m \in todo : \A k \in todo : ~ (<<k, m>> \in OpToRel(<, Nat))
  BY <1>1, NatLessThanWellFounded, WFMin
<1>3. \A k \in todo : ~ (k < m)
  BY <1>1, <1>2, Zenon DEF OpToRel
<1>4. \A k \in todo : m <= k
  BY <1>1, <1>3
<1> QED BY <1>4 DEF First
-----------------------------------------------------------------------------
PutEffect(q, s, k, before) ==
  /\ DOMAIN q = DOMAIN shards \cup {k}
  /\ \A j \in DOMAIN q : q[j] \in [units : SUBSET Sequence, sealed : BOOLEAN]
  /\ s \in q[k].units
  /\ before \subseteq q[k].units
  /\ \A j \in DOMAIN shards : j # k /\ j # mem.next => q[j] = shards[j]
  /\ k # mem.next /\ mem.next \in DOMAIN shards =>
       q[mem.next].sealed /\ q[mem.next].units = shards[mem.next].units

\* Writing a unit to tar k and, when k is new, sealing the tar before it.
LEMMA PutShape ==
  ASSUME ShardsOK, NEW s \in Sequence, NEW k, NEW before \in SUBSET Sequence,
         NEW q, q = Put(s, k, before)
  PROVE  PutEffect(q, s, k, before)
<1> DEFINE tar == before \cup {s}
<1>1. q = [j \in DOMAIN shards \cup {k} |->
            IF j = k THEN [units |-> tar, sealed |-> FALSE]
            ELSE IF j = mem.next THEN [shards[j] EXCEPT !.sealed = TRUE] ELSE shards[j]]
  BY DEF Put
<1>2. q[k] = [units |-> tar, sealed |-> FALSE] /\ DOMAIN q = DOMAIN shards \cup {k}
  BY <1>1
<1>3. tar \in SUBSET Sequence
  OBVIOUS
<1>4. \A j \in DOMAIN shards : j # k =>
        q[j] = IF j = mem.next THEN [shards[j] EXCEPT !.sealed = TRUE] ELSE shards[j]
  BY <1>1
<1>5. \A j \in DOMAIN shards : shards[j] \in [units : SUBSET Sequence, sealed : BOOLEAN]
  BY DEF ShardsOK
<1>6. \A j \in DOMAIN q : q[j] \in [units : SUBSET Sequence, sealed : BOOLEAN]
  <2>1. \A r \in [units : SUBSET Sequence, sealed : BOOLEAN] :
          [r EXCEPT !.sealed = TRUE] \in [units : SUBSET Sequence, sealed : BOOLEAN]
    OBVIOUS
  <2>2. [units |-> tar, sealed |-> FALSE] \in [units : SUBSET Sequence, sealed : BOOLEAN]
    BY <1>3
  <2> HIDE DEF tar
  <2>3. \A j \in DOMAIN shards : j # k => q[j] \in [units : SUBSET Sequence, sealed : BOOLEAN]
    BY <1>4, <1>5, <2>1
  <2> QED BY <1>2, <2>2, <2>3
<1>7. k # mem.next /\ mem.next \in DOMAIN shards =>
        q[mem.next].sealed /\ q[mem.next].units = shards[mem.next].units
  BY <1>4, <1>5
<1> QED BY <1>2, <1>4, <1>6, <1>7 DEF PutEffect

LEMMA InitScore == Init => ScoreInv
BY DEF Init, ScoreInv, ShardsOK, TodoOK, Matching, RowsHaveDetails, Some, None

LEMMA NextScore == ScoreInv /\ [Next]_vars => ScoreInv'
<1> SUFFICES ASSUME ScoreInv, [Next]_vars PROVE ScoreInv'
  OBVIOUS
<1> USE DEF ScoreInv
<1>1. ASSUME report' = report, cmd' # "score" \/ (cmd' = cmd /\ todo' = todo),
             store' \subseteq Sequence, ShardsOK', todo' \subseteq Sequence,
             packed' \in [Sequence -> Nat], copied' \in [Sequence -> Nat]
      PROVE  ScoreInv'
  BY <1>1 DEF TodoOK, Matching, RowsHaveDetails, report, Some
<1>2. ASSUME NEW s \in Sequence, Pull(s) PROVE ScoreInv'
  BY <1>1, <1>2 DEF Pull, TodoOK, ShardsOK, archive, frames, local
<1>3. ASSUME NEW ok \in SUBSET store, Score(ok) PROVE ScoreInv'
  <2>1. /\ run' = run + 1 /\ run \in Nat /\ todo' = ok /\ cmd' = "score" /\ whole' = FALSE
        /\ rows' = [s \in Sequence |-> IF s \in ok THEN run + 1 ELSE 0]
        /\ UNCHANGED <<store, details, packed, copied, shards>>
    BY <1>3 DEF Score, TodoOK, archive, frames
  <2>2. TodoOK' /\ ShardsOK'
    BY <2>1, <1>3 DEF TodoOK, ShardsOK, Score, local
  <2>3. Matching'
    BY <2>1 DEF Matching, RowsHaveDetails, Some
  <2> QED BY <2>2, <2>3
<1>4. ASSUME Details PROVE ScoreInv'
  <2>1. First \in todo /\ First \in Sequence
    BY <1>4, FirstInTodo DEF Details, TodoOK
  <2>2. /\ details' = [details EXCEPT ![First] = run] /\ todo' = todo \ {First}
        /\ cmd = "score" /\ cmd' = cmd /\ UNCHANGED <<store, run, rows, whole, packed, copied, shards>>
    BY <1>4 DEF Details, archive, frames
  <2>3. TodoOK' /\ ShardsOK'
    BY <1>4, <2>1, <2>2 DEF TodoOK, ShardsOK, Details, local
  <2>4. \A s \in Some(rows) : rows[s] = run /\ (s \in todo' \/ details'[s] = run)
    BY <2>1, <2>2 DEF TodoOK, Matching, Some
  <2>5. whole => \A s \in Some(rows) : details[s] = rows[s]
    BY DEF Matching, RowsHaveDetails
  <2>6. RowsHaveDetails'
    BY <2>1, <2>2, <2>4, <2>5 DEF RowsHaveDetails, TodoOK, Some
  <2> QED BY <2>2, <2>3, <2>4, <2>6 DEF Matching, Some
<1>5. ASSUME Scored PROVE ScoreInv'
  BY <1>5 DEF Scored, TodoOK, ShardsOK, frames, local, Matching, RowsHaveDetails, Some, archive
<1>6. ASSUME Pack PROVE ScoreInv'
  BY <1>1, <1>6 DEF Pack, TodoOK, ShardsOK, archive, frames, local
<1>7. ASSUME AddUnit PROVE ScoreInv'
  <2>1. PICK s : s = First
    OBVIOUS
  <2>2. PICK k : k = (IF Full(s) THEN mem.next + 1 ELSE mem.next)
    OBVIOUS
  <2>3. PICK before : before = (IF used = 0 \/ Full(s) THEN {} ELSE shards[k].units)
    OBVIOUS
  <2>4. s \in Sequence
    BY <1>7, <2>1, FirstInTodo DEF AddUnit, TodoOK
  <2>5. used \in Nat /\ (used > 0 => mem.next \in DOMAIN shards) /\ Size[s] \in Nat \ {0}
    BY <1>7, <2>4, ReportAssumption DEF AddUnit, ShardsOK, Sequence
  <2>6. before \in SUBSET Sequence
    <3>1. CASE used = 0 \/ Full(s)
      BY <2>3, <3>1
    <3>2. CASE ~ (used = 0 \/ Full(s))
      BY <2>2, <2>3, <2>5, <3>2 DEF ShardsOK
    <3> QED BY <3>1, <3>2
  <2>7. PICK q : q = Put(s, k, before) /\ shards' = q
    BY <1>7, <2>1, <2>2, <2>3 DEF AddUnit
  <2>8. /\ k \in DOMAIN shards'
        /\ \A j \in DOMAIN shards' : shards'[j] \in [units : SUBSET Sequence, sealed : BOOLEAN]
    <3>1. ShardsOK /\ q = Put(s, k, before)
      BY <2>7
    <3>2. PutEffect(q, s, k, before)
      BY <2>4, <2>6, <3>1, PutShape
    <3>3. /\ DOMAIN q = DOMAIN shards \cup {k}
          /\ \A j \in DOMAIN q : q[j] \in [units : SUBSET Sequence, sealed : BOOLEAN]
      BY <3>2 DEF PutEffect
    <3> QED BY <2>7, <3>3
  <2>9. mem'.next = k /\ used' \in Nat
    BY <1>7, <2>1, <2>2, <2>5 DEF AddUnit
  <2>10. ShardsOK'
    BY <2>8, <2>9 DEF ShardsOK
  <2> QED BY <1>1, <1>7, <2>10 DEF AddUnit, TodoOK
<1>8. ASSUME Seal PROVE ScoreInv'
  <2>1. /\ shards' = [k \in DOMAIN shards |-> [shards[k] EXCEPT !.sealed = @ \/ k = mem.next]]
        /\ cmd' = "manifest" /\ report' = report
        /\ UNCHANGED <<store, packed, copied, todo>>
    BY <1>8 DEF Seal
  <2>2. ASSUME NEW k \in DOMAIN shards
        PROVE  shards'[k] \in [units : SUBSET Sequence, sealed : BOOLEAN]
    <3>1. PICK h \in [units : SUBSET Sequence, sealed : BOOLEAN] : h = shards[k]
      BY DEF ShardsOK
    <3>2. [h EXCEPT !.sealed = @ \/ k = mem.next] \in [units : SUBSET Sequence, sealed : BOOLEAN]
      BY <3>1
    <3> QED BY <2>1, <3>1, <3>2
  <2>3. ShardsOK'
    BY <2>1, <2>2 DEF ShardsOK
  <2>4. /\ store' \subseteq Sequence /\ todo' \subseteq Sequence
        /\ packed' \in [Sequence -> Nat] /\ copied' \in [Sequence -> Nat]
    BY <2>1 DEF TodoOK
  <2> QED BY <1>1, <2>1, <2>3, <2>4
<1>9. ASSUME Rebuild PROVE ScoreInv'
  BY <1>1, <1>9 DEF Rebuild, TodoOK, ShardsOK, None, Some
<1>10. ASSUME AddReport PROVE ScoreInv'
  <2>1. First \in Sequence
    BY <1>10, FirstInTodo DEF AddReport, TodoOK
  <2>2. packed' \in [Sequence -> Nat]
    BY <1>10, <2>1 DEF AddReport, TodoOK
  <2> QED BY <1>1, <1>10, <2>2 DEF AddReport, TodoOK, ShardsOK, frames
<1>11. ASSUME Packed PROVE ScoreInv'
  BY <1>1, <1>11 DEF Packed, TodoOK, ShardsOK, frames
<1>12. ASSUME Unpack PROVE ScoreInv'
  <2>1. /\ details' = [s \in Sequence |-> IF packed[s] # 0 THEN packed[s] ELSE details[s]]
        /\ rows' = copied /\ ~whole' /\ cmd' = "idle"
        /\ store' = store \cup UNION {shards[k].units : k \in DOMAIN shards}
        /\ UNCHANGED <<run, packed, copied, todo, shards>>
    BY <1>12 DEF Unpack, Unpacked, archive, frames
  <2>2. store' \subseteq Sequence
    BY <2>1 DEF TodoOK, ShardsOK
  <2> QED BY <2>1, <2>2 DEF TodoOK, ShardsOK, Matching, RowsHaveDetails
<1>13. ASSUME Kill PROVE ScoreInv'
  BY <1>1, <1>13 DEF Kill, TodoOK, ShardsOK, archive, frames, local
<1>14. ASSUME UNCHANGED vars PROVE ScoreInv'
  BY <1>1, <1>14 DEF vars, TodoOK, ShardsOK, archive, frames, local
<1> QED BY <1>2, <1>3, <1>4, <1>5, <1>6, <1>7, <1>8, <1>9, <1>10, <1>11, <1>12, <1>13, <1>14 DEF Next

\* After a score that was not killed the rows of results.json and the details are of one
\* run, whatever earlier runs, killed or not, and unpacks left behind.
THEOREM RowsMatchDetails == Spec => []RowsHaveDetails
<1>1. ScoreInv => RowsHaveDetails
  BY DEF ScoreInv, Matching
<1> QED BY <1>1, InitScore, NextScore, PTL DEF Spec
-----------------------------------------------------------------------------
LEMMA InitPack == Init => PackInv
BY DEF Init, PackInv, Closed, Some, None

LEMMA AddUnitKeeps ==
  ASSUME ScoreInv, PackInv, AddUnit
  PROVE  PackInv'
<1>1. PICK s : s = First
  OBVIOUS
<1>2. PICK k : k = (IF Full(s) THEN mem.next + 1 ELSE mem.next)
  OBVIOUS
<1>3. PICK before : before = (IF used = 0 \/ Full(s) THEN {} ELSE shards[k].units)
  OBVIOUS
<1>4. /\ cmd = "frames" /\ cmd' = cmd /\ manifest' = manifest
      /\ mem' = [next |-> k, items |-> [mem.items EXCEPT ![s] = k]]
      /\ used' = IF Full(s) THEN Size[s] ELSE used + Size[s]
  BY <1>1, <1>2, <1>3 DEF AddUnit
<1>5. PICK q : q = Put(s, k, before) /\ shards' = q
  BY <1>1, <1>2, <1>3 DEF AddUnit
<1>6. s \in Sequence /\ Size[s] \in Nat \ {0}
  BY <1>1, FirstInTodo, ReportAssumption DEF AddUnit, ScoreInv, TodoOK, Sequence
<1>7. /\ mem.next \in Nat /\ manifest.next \in Nat /\ manifest.next <= mem.next /\ used \in Nat
      /\ (used > 0 => mem.next \in DOMAIN shards)
  BY <1>4 DEF PackInv, Open, ScoreInv, ShardsOK
<1>8. /\ k \in Nat /\ k >= mem.next /\ (k # mem.next => k = mem.next + 1 /\ used > 0)
      /\ used' \in Nat /\ used' > 0
  BY <1>2, <1>4, <1>6, <1>7 DEF Full
<1>9. before \in SUBSET Sequence /\ (k = mem.next /\ used > 0 => before = shards[k].units)
  <2>1. CASE used = 0
    BY <1>3, <2>1
  <2>2. CASE Full(s)
    BY <1>2, <1>3, <1>7, <2>2
  <2>3. CASE used # 0 /\ ~Full(s)
    <3>1. k \in DOMAIN shards /\ before = shards[k].units
      BY <1>2, <1>3, <1>7, <2>3
    <3>2. shards[k] \in [units : SUBSET Sequence, sealed : BOOLEAN]
      BY <3>1 DEF ScoreInv, ShardsOK
    <3> QED BY <3>1, <3>2
  <2> QED BY <2>1, <2>2, <2>3
<1>10. /\ DOMAIN shards' = DOMAIN shards \cup {k}
       /\ s \in shards'[k].units
       /\ k = mem.next /\ used > 0 => shards[k].units \subseteq shards'[k].units
       /\ \A j \in DOMAIN shards : j # k /\ j # mem.next => shards'[j] = shards[j]
       /\ k # mem.next /\ mem.next \in DOMAIN shards =>
            shards'[mem.next].sealed /\ shards'[mem.next].units = shards[mem.next].units
  <2>1. ShardsOK /\ q = Put(s, k, before)
    BY <1>5 DEF ScoreInv
  <2>2. PutEffect(q, s, k, before)
    BY <1>6, <1>9, <2>1, PutShape
  <2> QED BY <1>9, <1>5, <2>2 DEF PutEffect
<1>11. \A j \in DOMAIN shards : j \in Nat /\ j < mem.next => j \in DOMAIN shards' /\ shards'[j] = shards[j]
  BY <1>7, <1>8, <1>10
<1>12. Closed(manifest)'
  <2>1. Closed(manifest)
    BY DEF PackInv
  <2>2. \A t \in Some(manifest.items) :
          /\ Holds(manifest.items[t], t) /\ shards[manifest.items[t]].sealed
          /\ manifest.items[t] \in Nat /\ manifest.items[t] < mem.next
          /\ manifest.items[t] < manifest.next
    BY <1>7, <2>1 DEF Closed
  <2>3. \A t \in Some(manifest.items) : shards'[manifest.items[t]] = shards[manifest.items[t]]
                                        /\ manifest.items[t] \in DOMAIN shards'
    BY <1>11, <2>2 DEF Holds
  <2> QED BY <1>4, <2>2, <2>3 DEF Closed, Holds
<1>13. \A t \in Some(mem'.items) : t \in DOMAIN mem.items /\ mem'.items[t] # 0
                                  /\ mem'.items[t] = IF t = s THEN k ELSE mem.items[t]
  BY <1>4 DEF Some
<1>14. Open'
  <2> SUFFICES ASSUME NEW t \in Some(mem'.items)
               PROVE  /\ mem'.items[t] \in DOMAIN shards' /\ t \in shards'[mem'.items[t]].units
                      /\ mem'.items[t] \in Nat
                      /\ \/ mem'.items[t] < k /\ shards'[mem'.items[t]].sealed
                         \/ mem'.items[t] = k /\ used' > 0
    BY <1>4, <1>7, <1>8 DEF Open, Holds
  <2>1. CASE t = s
    BY <1>8, <1>10, <1>13, <2>1
  <2>2. CASE t # s
    <3>1. PICK i : i = mem.items[t]
      OBVIOUS
    <3>2. t \in Some(mem.items) /\ mem'.items[t] = i
      BY <1>13, <2>2, <3>1 DEF Some
    <3>3. /\ i \in DOMAIN shards /\ t \in shards[i].units /\ i \in Nat
          /\ \/ i < mem.next /\ shards[i].sealed
             \/ i = mem.next /\ used > 0
      BY <1>4, <3>1, <3>2 DEF PackInv, Open, Holds
    <3>4. CASE i < mem.next
      BY <1>7, <1>8, <1>11, <3>2, <3>3, <3>4
    <3>5. CASE i = mem.next /\ k = mem.next
      BY <1>8, <1>10, <3>2, <3>3, <3>5
    <3>6. CASE i = mem.next /\ k # mem.next
      BY <1>7, <1>8, <1>10, <3>2, <3>3, <3>6
    <3> QED BY <3>3, <3>4, <3>5, <3>6
  <2> QED BY <2>1, <2>2
<1> QED BY <1>4, <1>12, <1>14 DEF PackInv

LEMMA NextPack == ScoreInv /\ PackInv /\ [Next]_vars => PackInv'
<1> SUFFICES ASSUME ScoreInv, PackInv, [Next]_vars PROVE PackInv'
  OBVIOUS
\* Steps of the other commands leave the tars and both manifests alone.
<1>1. ASSUME frames' = frames, mem' = mem, used' = used, cmd' = cmd \/ cmd' \notin {"frames", "manifest"}
      PROVE  PackInv'
  BY <1>1 DEF PackInv, Closed, Holds, Open, frames
<1>2. ASSUME NEW s \in Sequence, Pull(s) PROVE PackInv'
  BY <1>1, <1>2 DEF Pull, archive, local
<1>3. ASSUME NEW ok \in SUBSET store, Score(ok) PROVE PackInv'
  BY <1>1, <1>3 DEF Score, archive, local
<1>4. ASSUME Details PROVE PackInv'
  BY <1>1, <1>4 DEF Details, archive, local
<1>5. ASSUME Scored PROVE PackInv'
  BY <1>1, <1>5 DEF Scored, archive, local
<1>6. ASSUME Pack PROVE PackInv'
  BY <1>6 DEF Pack, PackInv, Closed, Holds, Open, archive, frames
<1>7. ASSUME Seal PROVE PackInv'
  <2>1. /\ cmd' = "manifest" /\ manifest' = Cut
        /\ mem' = [mem EXCEPT !.next = IF used > 0 THEN @ + 1 ELSE @]
        /\ shards' = [k \in DOMAIN shards |-> [shards[k] EXCEPT !.sealed = @ \/ k = mem.next]]
    BY <1>7 DEF Seal
  <2>2. Open /\ ShardsOK
    BY <1>7 DEF Seal, PackInv, ScoreInv
  <2>3. mem.next \in Nat /\ used \in Nat /\ mem'.items = mem.items
        /\ mem'.next = IF used > 0 THEN mem.next + 1 ELSE mem.next
    BY <2>1, <2>2 DEF Open
  <2>4. /\ DOMAIN shards' = DOMAIN shards
        /\ \A k \in DOMAIN shards : /\ shards'[k].units = shards[k].units
                                    /\ shards[k].sealed \/ k = mem.next => shards'[k].sealed
    BY <2>1, <2>2 DEF ShardsOK
  <2>5. ASSUME NEW s \in Some(mem.items)
        PROVE  /\ Holds(mem.items[s], s)' /\ shards'[mem.items[s]].sealed
               /\ mem.items[s] \in Nat /\ mem.items[s] < mem'.next
    BY <2>2, <2>3, <2>4 DEF Open, Holds
  <2>6. Closed(mem)' /\ mem'.next \in Nat
    BY <2>3, <2>5 DEF Closed, Holds
  <2>7. Closed(manifest)' /\ manifest'.next \in Nat
    BY <2>1 DEF Closed, Cut, Some
  <2> QED BY <2>1, <2>6, <2>7 DEF PackInv
<1>8. ASSUME Rebuild PROVE PackInv'
  BY <1>8 DEF Rebuild, PackInv, Closed, Holds, local
<1>9. ASSUME AddReport PROVE PackInv'
  BY <1>1, <1>9 DEF AddReport, local
<1>10. ASSUME Packed PROVE PackInv'
  BY <1>1, <1>10 DEF Packed, local
<1>11. ASSUME Unpack PROVE PackInv'
  BY <1>1, <1>11 DEF Unpack, archive, local
<1>12. ASSUME Kill PROVE PackInv'
  BY <1>1, <1>12 DEF Kill, archive, local
<1>13. ASSUME UNCHANGED vars PROVE PackInv'
  BY <1>1, <1>13 DEF vars, archive, local
<1> QED BY <1>2, <1>3, <1>4, <1>5, <1>6, AddUnitKeeps, <1>7, <1>8, <1>9, <1>10, <1>11, <1>12, <1>13
        DEF Next

\* A sequence the saved manifest has is in the shard it names, and no pack, killed
\* wherever it may be, opens that shard again.
THEOREM ManifestHolds == Spec => []InItsShard
<1>1. PackInv => InItsShard
  BY DEF PackInv, Closed, Holds, InItsShard
<1> QED BY <1>1, InitScore, NextScore, InitPack, NextPack, PTL DEF Spec
-----------------------------------------------------------------------------
(***************************************************************************)
(* What a pack that ends leaves.  A tar that a killed pack left open is    *)
(* dangerous: later packs have to write it again, or unpack fails for      *)
(* ever.  They do, because a pack of more sequences fills at least as many *)
(* tars, and each of them at least as far.                                 *)
(***************************************************************************)
Fill == [next : Nat, used : Nat]

\* The open tar and its bytes after one more unit of n bytes.
Advance(t, n) ==
  IF t.used > 0 /\ t.used + n > Target THEN [next |-> t.next + 1, used |-> n]
  ELSE [next |-> t.next, used |-> t.used + n]

\* Not further than.
Behind(t, u) == t.next < u.next \/ (t.next = u.next /\ t.used <= u.used)

\* f[x] is the fill once the units of T below x are written, from tar b on.
Fills(f, T, b) ==
  /\ f \in [Nat -> Fill] /\ f[0] = [next |-> b, used |-> 0]
  /\ \A x \in Nat : f[x + 1] = IF x \in T THEN Advance(f[x], Size[x]) ELSE f[x]

LEMMA AdvanceShape ==
  ASSUME NEW t \in Fill, NEW n \in Nat \ {0}
  PROVE  Advance(t, n) \in Fill /\ Behind(t, Advance(t, n)) /\ Advance(t, n).used > 0
<1>1. PICK a \in Nat, c \in Nat : t = [next |-> a, used |-> c]
  BY DEF Fill
<1>2. CASE c > 0 /\ c + n > Target
  <2>1. Advance(t, n) = [next |-> a + 1, used |-> n]
    BY <1>1, <1>2 DEF Advance
  <2> QED BY <1>1, <2>1 DEF Fill, Behind
<1>3. CASE ~(c > 0 /\ c + n > Target)
  <2>1. Advance(t, n) = [next |-> a, used |-> c + n]
    BY <1>1, <1>3 DEF Advance
  <2> QED BY <1>1, <2>1 DEF Fill, Behind
<1> QED BY <1>2, <1>3

LEMMA AdvanceMonotone ==
  ASSUME NEW t \in Fill, NEW u \in Fill, Behind(t, u), NEW n \in Nat \ {0}
  PROVE  Behind(Advance(t, n), Advance(u, n))
<1>1. PICK a \in Nat, c \in Nat : t = [next |-> a, used |-> c]
  BY DEF Fill
<1>2. PICK b \in Nat, d \in Nat : u = [next |-> b, used |-> d]
  BY DEF Fill
<1>3. a < b \/ (a = b /\ c <= d)
  BY <1>1, <1>2 DEF Behind
<1>4. Target \in Nat
  BY ReportAssumption
<1>5. CASE (c > 0 /\ c + n > Target) /\ (d > 0 /\ d + n > Target)
  <2>1. Advance(t, n) = [next |-> a + 1, used |-> n] /\ Advance(u, n) = [next |-> b + 1, used |-> n]
    BY <1>1, <1>2, <1>5 DEF Advance
  <2> QED BY <1>3, <2>1 DEF Behind
<1>6. CASE (c > 0 /\ c + n > Target) /\ ~(d > 0 /\ d + n > Target)
  <2>1. Advance(t, n) = [next |-> a + 1, used |-> n] /\ Advance(u, n) = [next |-> b, used |-> d + n]
    BY <1>1, <1>2, <1>6 DEF Advance
  <2>2. a + 1 < b \/ (a + 1 = b /\ n <= d + n)
    BY <1>3, <1>4, <1>6
  <2> QED BY <2>1, <2>2 DEF Behind
<1>7. CASE ~(c > 0 /\ c + n > Target) /\ (d > 0 /\ d + n > Target)
  <2>1. Advance(t, n) = [next |-> a, used |-> c + n] /\ Advance(u, n) = [next |-> b + 1, used |-> n]
    BY <1>1, <1>2, <1>7 DEF Advance
  <2>2. a < b + 1
    BY <1>3
  <2> QED BY <2>1, <2>2 DEF Behind
<1>8. CASE ~(c > 0 /\ c + n > Target) /\ ~(d > 0 /\ d + n > Target)
  <2>1. Advance(t, n) = [next |-> a, used |-> c + n] /\ Advance(u, n) = [next |-> b, used |-> d + n]
    BY <1>1, <1>2, <1>8 DEF Advance
  <2>2. a < b \/ (a = b /\ c + n <= d + n)
    BY <1>3
  <2> QED BY <2>1, <2>2 DEF Behind
<1> QED BY <1>5, <1>6, <1>7, <1>8

LEMMA BehindOrder ==
  ASSUME NEW t \in Fill, NEW u \in Fill, NEW v \in Fill
  PROVE  Behind(t, t) /\ (Behind(t, u) /\ Behind(u, v) => Behind(t, v))
BY DEF Fill, Behind

LEMMA LeastNatural ==
  ASSUME NEW T \in SUBSET Nat, T # {}
  PROVE  \E m \in T : \A k \in T : m <= k
<1>1. PICK m \in T : \A k \in T : ~ (<<k, m>> \in OpToRel(<, Nat))
  BY NatLessThanWellFounded, WFMin
<1>2. \A k \in T : ~ (k < m)
  BY <1>1, Zenon DEF OpToRel
<1> QED BY <1>2

\* Induction, for a property given as the set of numbers that have it.
LEMMA Induction ==
  ASSUME NEW T, 0 \in T, \A k \in Nat : k \in T => k + 1 \in T
  PROVE  \A k \in Nat : k \in T
<1> SUFFICES ASSUME {k \in Nat : k \notin T} # {} PROVE FALSE
  OBVIOUS
<1>1. PICK m \in {k \in Nat : k \notin T} : \A k \in {k \in Nat : k \notin T} : m <= k
  BY LeastNatural
<1>2. m - 1 \in Nat /\ m - 1 \in T
  BY <1>1
<1> QED BY <1>1, <1>2

LEMMA FillsGrow ==
  ASSUME NEW f, NEW T \in SUBSET Sequence, NEW b, Fills(f, T, b)
  PROVE  \A x, y \in Nat : x <= y => Behind(f[x], f[y])
<1> SUFFICES ASSUME NEW x \in Nat PROVE \A y \in Nat : x <= y => Behind(f[x], f[y])
  OBVIOUS
<1>1. PICK S : S = {y \in Nat : x <= y => Behind(f[x], f[y])}
  OBVIOUS
<1>2. f \in [Nat -> Fill]
  BY DEF Fills
<1>3. 0 \in S
  BY <1>1, <1>2, BehindOrder
<1>4. ASSUME NEW y \in Nat, y \in S PROVE y + 1 \in S
  <2> SUFFICES ASSUME x <= y + 1 PROVE Behind(f[x], f[y + 1])
    BY <1>1
  <2>1. CASE x = y + 1
    BY <1>2, <2>1, BehindOrder
  <2>2. CASE x <= y
    <3>1. Behind(f[x], f[y]) /\ f[x] \in Fill /\ f[y] \in Fill /\ f[y + 1] \in Fill
      BY <1>1, <1>2, <1>4, <2>2
    <3>2. Behind(f[y], f[y + 1])
      <4>1. CASE y \in T
        <5>1. Size[y] \in Nat \ {0}
          BY <4>1, ReportAssumption DEF Sequence
        <5> QED BY <3>1, <4>1, <5>1, AdvanceShape DEF Fills
      <4>2. CASE y \notin T
        BY <3>1, <4>2, BehindOrder DEF Fills
      <4> QED BY <4>1, <4>2
    <3> QED BY <3>1, <3>2, BehindOrder
  <2> QED BY <2>1, <2>2
<1>5. \A y \in Nat : y \in S
  BY <1>3, <1>4, Induction
<1> QED BY <1>1, <1>5

\* Where no unit is, nothing is written.
LEMMA FillsRest ==
  ASSUME NEW f, NEW T, NEW b, Fills(f, T, b), NEW x \in Nat, NEW y \in Nat, x <= y,
         \A z \in T : ~(x <= z /\ z < y)
  PROVE  f[x] = f[y]
<1>1. PICK S : S = {z \in Nat : x <= z /\ z <= y => f[x] = f[z]}
  OBVIOUS
<1>2. 0 \in S
  BY <1>1
<1>3. ASSUME NEW z \in Nat, z \in S PROVE z + 1 \in S
  <2> SUFFICES ASSUME x <= z + 1, z + 1 <= y PROVE f[x] = f[z + 1]
    BY <1>1
  <2>1. CASE x = z + 1
    BY <2>1
  <2>2. CASE x <= z
    <3>1. z \notin T /\ f[x] = f[z]
      BY <1>1, <1>3, <2>2
    <3> QED BY <3>1 DEF Fills
  <2> QED BY <2>1, <2>2
<1>4. \A z \in Nat : z \in S
  BY <1>2, <1>3, Induction
<1> QED BY <1>1, <1>4

\* More units fill more.
LEMMA FillsMonotone ==
  ASSUME NEW f, NEW g, NEW T, NEW U \in SUBSET Sequence, T \subseteq U, NEW b \in Nat,
         Fills(f, T, b), Fills(g, U, b)
  PROVE  \A x \in Nat : Behind(f[x], g[x])
<1>1. PICK S : S = {x \in Nat : Behind(f[x], g[x])}
  OBVIOUS
<1>2. f \in [Nat -> Fill] /\ g \in [Nat -> Fill]
  BY DEF Fills
<1>3. 0 \in S
  <2>1. f[0] = g[0] /\ f[0] \in Fill
    BY <1>2 DEF Fills
  <2> QED BY <1>1, <2>1, BehindOrder
<1>4. ASSUME NEW x \in Nat, x \in S PROVE x + 1 \in S
  <2>1. Behind(f[x], g[x]) /\ f[x] \in Fill /\ g[x] \in Fill
    BY <1>1, <1>2, <1>4
  <2>2. CASE x \in T
    <3>1. Size[x] \in Nat \ {0} /\ x \in U
      BY <2>2, ReportAssumption DEF Sequence
    <3>2. Behind(Advance(f[x], Size[x]), Advance(g[x], Size[x]))
      BY <2>1, <3>1, AdvanceMonotone
    <3> QED BY <1>1, <2>2, <3>1, <3>2 DEF Fills
  <2>3. CASE x \notin T /\ x \in U
    <3>1. Size[x] \in Nat \ {0}
      BY <2>3, ReportAssumption DEF Sequence
    <3>2. Advance(g[x], Size[x]) \in Fill /\ Behind(g[x], Advance(g[x], Size[x]))
      BY <2>1, <3>1, AdvanceShape
    <3>3. Behind(f[x], Advance(g[x], Size[x]))
      BY <2>1, <3>2, BehindOrder
    <3> QED BY <1>1, <2>3, <3>3 DEF Fills
  <2>4. CASE x \notin U
    BY <1>1, <2>1, <2>4 DEF Fills
  <2> QED BY <2>2, <2>3, <2>4
<1>5. \A x \in Nat : x \in S
  BY <1>3, <1>4, Induction
<1> QED BY <1>1, <1>5

\* A function on the naturals may be defined by recursion.
Computes(f, B, b0, G) ==
  f \in [Nat -> B] /\ f[0] = b0 /\ \A k \in Nat : f[k + 1] = G[k + 1][f[k]]

LEMMA Recursion ==
  ASSUME NEW B, NEW b0 \in B, NEW G \in [Nat -> [B -> B]]
  PROVE  \E f : Computes(f, B, b0, G)
<1> DEFINE Start(k) == {h \in [0..k -> B] : h[0] = b0 /\ \A j \in 0..(k - 1) : h[j + 1] = G[j + 1][h[j]]}
<1>1. \A k \in Nat : k \in {i \in Nat : Start(i) # {}}
  <2>1. 0 \in {i \in Nat : Start(i) # {}}
    <3>1. [j \in 0..0 |-> b0] \in Start(0)
      OBVIOUS
    <3> QED BY <3>1
  <2>2. ASSUME NEW k \in Nat, k \in {i \in Nat : Start(i) # {}} PROVE k + 1 \in {i \in Nat : Start(i) # {}}
    <3>1. PICK h \in Start(k) : TRUE
      BY <2>2
    <3>2. PICK g : g = [j \in 0..(k + 1) |-> IF j <= k THEN h[j] ELSE G[k + 1][h[k]]]
      OBVIOUS
    <3>3. h[k] \in B /\ G[k + 1][h[k]] \in B
      BY <3>1
    <3>4. g \in [0..(k + 1) -> B] /\ g[0] = b0
      BY <3>1, <3>2, <3>3
    <3>5. \A j \in 0..k : g[j + 1] = G[j + 1][g[j]]
      BY <3>1, <3>2
    <3>6. g \in Start(k + 1)
      BY <3>4, <3>5
    <3> QED BY <3>6
  <2> HIDE DEF Start
  <2> QED BY <2>1, <2>2, Induction
<1>2. ASSUME NEW k \in Nat, NEW m \in Nat, k <= m, NEW h \in Start(k), NEW g \in Start(m)
      PROVE  \A j \in 0..k : h[j] = g[j]
  <2>1. 0 \in {j \in Nat : j <= k => h[j] = g[j]}
    BY <1>2
  <2>2. \A j \in Nat : j \in {i \in Nat : i <= k => h[i] = g[i]} => j + 1 \in {i \in Nat : i <= k => h[i] = g[i]}
    BY <1>2
  <2>3. \A j \in Nat : j \in {i \in Nat : i <= k => h[i] = g[i]}
    <3> HIDE DEF Start
    <3> QED BY <2>1, <2>2, Induction
  <2> QED BY <2>3
<1>3. PICK f : f = [k \in Nat |-> (CHOOSE h : h \in Start(k))[k]]
  OBVIOUS
<1>4. \A k \in Nat : \E h \in Start(k) : f[k] = h[k]
  <2> SUFFICES ASSUME NEW k \in Nat PROVE \E h \in Start(k) : f[k] = h[k]
    OBVIOUS
  <2>1. Start(k) # {}
    BY <1>1
  <2> HIDE DEF Start
  <2>2. f[k] = (CHOOSE h : h \in Start(k))[k]
    BY <1>3
  <2>3. (CHOOSE h : h \in Start(k)) \in Start(k)
    BY <2>1
  <2> QED BY <2>2, <2>3
<1>5. ASSUME NEW k \in Nat PROVE f[k] \in B /\ f[k + 1] = G[k + 1][f[k]]
  <2>0. k + 1 \in Nat
    OBVIOUS
  <2>1. PICK h \in Start(k) : f[k] = h[k]
    BY <1>4, Zenon
  <2>2. PICK g \in Start(k + 1) : f[k + 1] = g[k + 1]
    BY <1>4, <2>0, Zenon
  <2>3. h[k] = g[k]
    <3>1. k <= k + 1 /\ k \in 0..k
      OBVIOUS
    <3> HIDE DEF Start
    <3> QED BY <1>2, <2>0, <3>1
  <2>4. h[k] \in B /\ g[k + 1] = G[k + 1][g[k]]
    <3>1. k \in 0..k /\ k \in 0..((k + 1) - 1)
      OBVIOUS
    <3> QED BY <3>1
  <2> QED BY <2>1, <2>2, <2>3, <2>4
<1>7. f[0] = b0
  <2>1. PICK h \in Start(0) : f[0] = h[0]
    BY <1>4
  <2> QED BY <2>1
<1>6. f \in [Nat -> B]
  BY <1>3, <1>5
<1> QED BY <1>5, <1>6, <1>7 DEF Computes

LEMMA FillsExist ==
  ASSUME NEW T \in SUBSET Sequence, NEW b \in Nat
  PROVE  \E f : Fills(f, T, b)
<1>1. PICK G : G = [k \in Nat |-> [t \in Fill |-> IF k - 1 \in T THEN Advance(t, Size[k - 1]) ELSE t]]
  OBVIOUS
<1>2. ASSUME NEW k \in Nat, NEW t \in Fill
      PROVE  (IF k - 1 \in T THEN Advance(t, Size[k - 1]) ELSE t) \in Fill
  <2>1. CASE k - 1 \in T
    <3>1. PICK n : n = Size[k - 1]
      OBVIOUS
    <3>2. n \in Nat \ {0}
      BY <2>1, <3>1, ReportAssumption DEF Sequence
    <3> QED BY <2>1, <3>1, <3>2, AdvanceShape
  <2> QED BY <2>1
<1>3. G \in [Nat -> [Fill -> Fill]]
  BY <1>1, <1>2
<1>4. PICK b0 : b0 = [next |-> b, used |-> 0]
  OBVIOUS
<1>5. b0 \in Fill
  BY <1>4 DEF Fill
<1>6. PICK f : Computes(f, Fill, b0, G)
  BY <1>3, <1>5, Recursion
<1>7. ASSUME NEW x \in Nat PROVE f[x + 1] = IF x \in T THEN Advance(f[x], Size[x]) ELSE f[x]
  <2>1. x + 1 \in Nat /\ (x + 1) - 1 = x /\ f[x] \in Fill /\ f[x + 1] = G[x + 1][f[x]]
    BY <1>6 DEF Computes
  <2>2. G[x + 1] = [t \in Fill |-> IF x \in T THEN Advance(t, Size[x]) ELSE t]
    BY <1>1, <2>1
  <2> QED BY <2>1, <2>2
<1>8. f \in [Nat -> Fill] /\ f[0] = [next |-> b, used |-> 0]
  BY <1>4, <1>6 DEF Computes
<1> QED BY <1>7, <1>8 DEF Fills
-----------------------------------------------------------------------------
Manifests == [next : Nat \ {0}, items : [Sequence -> Nat]]

\* What the next pack has to write, the manifest being what it is.
Unscored == {s \in store : manifest.items[s] = 0}

\* No tar is beyond t, and the tar of t is there only if t has put a unit in it.
Covered(t) == \A k \in DOMAIN shards : k \in Nat /\ (k < t.next \/ (k = t.next /\ t.used > 0))
SealedBelow(n) == \A k \in DOMAIN shards : k < n => shards[k].sealed

\* A pack that is not killed writes all tars that killed ones have left, and the one
\* under way is on its way there.
Progress(f) ==
  /\ Fills(f, Unscored, manifest.next)
  /\ \E x \in Nat : Covered(f[x])
  /\ cmd = "frames" =>
       \E p \in Nat : todo = {s \in Unscored : s >= p} /\ f[p] = [next |-> mem.next, used |-> used]

Contents ==
  /\ \A k \in DOMAIN shards : shards[k].units \subseteq store
  /\ manifest = Cut \/ manifest \in Manifests
  /\ manifest \in Manifests => SealedBelow(manifest.next) /\ \E f : Progress(f)

Writing ==
  cmd = "frames" =>
    /\ manifest \in Manifests /\ mem \in Manifests /\ SealedBelow(mem.next)
    /\ \A s \in store : s \in todo \/ mem.items[s] # 0

Closing ==
  /\ cmd = "manifest" =>
       /\ mem \in Manifests /\ Intact /\ \A k \in DOMAIN shards : k \in Nat /\ k < mem.next
       /\ \A s \in store : mem.items[s] # 0
  /\ cmd = "report" =>
       /\ manifest \in Manifests /\ Intact /\ \A s \in store : manifest.items[s] # 0
       /\ \A s \in Sequence : packed[s] = IF s \in todo THEN 0 ELSE details[s]

Delivered == \A s \in store : \E k \in DOMAIN shards : s \in shards[k].units
Agreeing ==
  /\ cmd # "idle" => ~synced
  /\ synced => Intact /\ Delivered /\ packed = details /\ copied = rows

TarsInv == Contents /\ Writing /\ Closing /\ Agreeing

LEMMA InitTars == Init => TarsInv
<1> SUFFICES ASSUME Init PROVE TarsInv
  OBVIOUS
<1>1. /\ shards = <<>> /\ manifest = [next |-> 1, items |-> None] /\ cmd = "idle" /\ ~synced
      /\ store = {}
  BY DEF Init
<1>2. manifest \in Manifests
  BY <1>1 DEF Manifests, None
<1>3. Unscored = {}
  BY <1>1 DEF Unscored
<1>4. PICK f : Fills(f, {}, 1)
  BY FillsExist
<1>5. Fills(f, Unscored, manifest.next)
  BY <1>1, <1>3, <1>4
<1>6. DOMAIN shards = {}
  BY <1>1
<1>7. Progress(f)
  BY <1>1, <1>5, <1>6 DEF Progress, Covered
<1> QED BY <1>1, <1>2, <1>6, <1>7 DEF TarsInv, Contents, SealedBelow, Writing, Closing, Agreeing

\* Steps outside a pack of the frames leave what waits and what the tars hold alone.
LEMMA QuietContents ==
  ASSUME Contents, frames' = frames, store' = store,
         cmd' = "frames" => cmd = "frames" /\ todo' = todo /\ mem' = mem /\ used' = used
  PROVE  Contents'
<1>1. shards' = shards /\ manifest' = manifest /\ Unscored' = Unscored
  BY DEF frames, Unscored
<1>2. ASSUME NEW f, Progress(f) PROVE Progress(f)'
  <2>1. Fills(f, Unscored, manifest.next)'
    BY <1>1, <1>2 DEF Progress, Fills
  <2>2. (\E x \in Nat : Covered(f[x]))'
    BY <1>1, <1>2 DEF Progress, Covered
  <2>3. (cmd = "frames" =>
       \E p \in Nat : todo = {s \in Unscored : s >= p} /\ f[p] = [next |-> mem.next, used |-> used])'
    BY <1>1, <1>2 DEF Progress
  <2> QED BY <2>1, <2>2, <2>3 DEF Progress
<1>3. manifest \in Manifests => SealedBelow(manifest.next)' /\ \E f : Progress(f)'
  BY <1>1, <1>2 DEF Contents, SealedBelow
<1>4. (\E f : Progress(f)) ' <=> \E f : Progress(f)'
  OBVIOUS
<1> QED BY <1>1, <1>3 DEF Contents, Manifests

LEMMA PullKeeps == ASSUME ScoreInv, TarsInv, NEW s \in Sequence, Pull(s) PROVE TarsInv'
<1>1. /\ cmd = "idle" /\ cmd' = "idle" /\ store' = store \cup {s} /\ ~synced'
      /\ shards' = shards /\ manifest' = manifest
  BY DEF Pull, archive, frames
<1>2. \A k \in DOMAIN shards' : shards'[k].units \subseteq store'
  BY <1>1 DEF TarsInv, Contents
<1>3. ASSUME manifest \in Manifests PROVE \E f : Progress(f)'
  <2>1. PICK f : Progress(f)
    BY <1>3 DEF TarsInv, Contents
  <2>2. PICK T, U, b : T = Unscored /\ U = Unscored' /\ b = manifest.next
    OBVIOUS
  <2>3. T \subseteq U /\ U \in SUBSET Sequence /\ b \in Nat
    BY <1>1, <1>3, <2>2 DEF Unscored, Manifests, ScoreInv, TodoOK
  <2>4. PICK g : Fills(g, U, b)
    BY <2>3, FillsExist
  <2>5. Fills(f, T, b)
    BY <2>1, <2>2 DEF Progress
  <2>6. PICK x \in Nat : Covered(f[x])
    BY <2>1 DEF Progress
  <2>7. Behind(f[x], g[x]) /\ f[x] \in Fill /\ g[x] \in Fill
    <3>1. \A y \in Nat : Behind(f[y], g[y])
      BY <2>3, <2>4, <2>5, FillsMonotone
    <3> QED BY <2>4, <2>5, <3>1 DEF Fills
  <2>8. Covered(g[x])'
    BY <1>1, <2>6, <2>7 DEF Covered, Behind, Fill
  <2>9. Fills(g, Unscored', manifest'.next)
    BY <1>1, <2>2, <2>4
  <2>10. Fills(g, Unscored, manifest.next)'
    BY <2>9 DEF Fills
  <2> QED BY <1>1, <2>8, <2>10 DEF Progress
<1>4. manifest \in Manifests => SealedBelow(manifest.next)'
  BY <1>1 DEF TarsInv, Contents, SealedBelow
<1>5. Contents'
  BY <1>1, <1>2, <1>3, <1>4 DEF TarsInv, Contents, Manifests
<1> QED BY <1>1, <1>5 DEF TarsInv, Writing, Closing, Agreeing

LEMMA PackKeeps == ASSUME ScoreInv, TarsInv, Pack PROVE TarsInv'
<1>1. /\ cmd = "idle" /\ manifest # Cut /\ cmd' = "frames" /\ mem' = manifest /\ used' = 0
      /\ todo' = {s \in store : manifest.items[s] = 0} /\ ~synced'
      /\ store' = store /\ shards' = shards /\ manifest' = manifest
  BY DEF Pack, archive, frames
<1>2. manifest \in Manifests
  BY <1>1 DEF TarsInv, Contents
<1>3. Unscored' = Unscored /\ Unscored \subseteq Nat /\ todo' = Unscored
  BY <1>1, ReportAssumption DEF Unscored, ScoreInv, TodoOK, Sequence
<1>4. PICK f : Progress(f)
  BY <1>2 DEF TarsInv, Contents
<1>5. Fills(f, Unscored, manifest.next)'
  BY <1>1, <1>3, <1>4 DEF Progress, Fills
<1>6. (\E x \in Nat : Covered(f[x]))'
  BY <1>1, <1>4 DEF Progress, Covered
<1>7. (\E p \in Nat : todo = {s \in Unscored : s >= p} /\ f[p] = [next |-> mem.next, used |-> used])'
  <2>1. todo' = {s \in Unscored' : s >= 0}
    <3>1. PICK W : W = Unscored
      OBVIOUS
    <3>2. \A s \in W : s >= 0
      BY <1>3, <3>1
    <3>3. W = {s \in W : s >= 0}
      BY <3>2
    <3> QED BY <1>3, <3>1, <3>3
  <2>2. f[0] = [next |-> mem'.next, used |-> used']
    BY <1>1, <1>4 DEF Progress, Fills
  <2> QED BY <2>1, <2>2
<1>8. Progress(f)'
  BY <1>5, <1>6, <1>7 DEF Progress
<1>9. SealedBelow(manifest.next)' /\ SealedBelow(mem.next)'
  BY <1>1, <1>2 DEF TarsInv, Contents, SealedBelow
<1>10. Contents'
  BY <1>1, <1>2, <1>8, <1>9 DEF TarsInv, Contents, Manifests
<1>11. Writing'
  BY <1>1, <1>2, <1>9 DEF Writing, Manifests
<1> QED BY <1>1, <1>10, <1>11 DEF TarsInv, Closing, Agreeing

LEMMA FirstIsLeast ==
  ASSUME todo \subseteq Sequence, todo # {}
  PROVE  First \in todo /\ First \in Nat /\ \A s \in todo : First <= s
<1>1. PICK T : T = todo
  OBVIOUS
<1>2. T \in SUBSET Nat /\ T # {}
  BY <1>1, ReportAssumption DEF Sequence
<1>3. \E m \in T : \A k \in T : m <= k
  BY <1>2, LeastNatural
<1>4. First = CHOOSE s \in T : \A t \in T : s <= t
  BY <1>1 DEF First
<1> QED BY <1>1, <1>2, <1>3, <1>4

LEMMA AddUnitTars == ASSUME ScoreInv, PackInv, TarsInv, AddUnit PROVE TarsInv'
<1>1. PICK s : s = First
  OBVIOUS
<1>2. PICK k : k = (IF Full(s) THEN mem.next + 1 ELSE mem.next)
  OBVIOUS
<1>3. PICK before : before = (IF used = 0 \/ Full(s) THEN {} ELSE shards[k].units)
  OBVIOUS
<1>4. /\ cmd = "frames" /\ cmd' = "frames" /\ manifest' = manifest /\ store' = store /\ synced' = synced
      /\ mem' = [next |-> k, items |-> [mem.items EXCEPT ![s] = k]]
      /\ used' = IF Full(s) THEN Size[s] ELSE used + Size[s]
      /\ shards' = Put(s, k, before) /\ todo' = todo \ {s} /\ todo # {}
  BY <1>1, <1>2, <1>3 DEF AddUnit
<1>5. /\ s \in todo /\ s \in Nat /\ \A t \in todo : s <= t
      /\ s \in Sequence /\ Size[s] \in Nat \ {0}
  <2>1. todo \subseteq Sequence
    BY DEF ScoreInv, TodoOK
  <2>2. s \in todo /\ s \in Nat /\ \A t \in todo : s <= t
    BY <1>1, <1>4, <2>1, FirstIsLeast
  <2> QED BY <2>1, <2>2, ReportAssumption DEF Sequence
<1>6. /\ mem \in Manifests /\ manifest \in Manifests /\ used \in Nat /\ mem.next \in Nat \ {0}
  BY <1>4 DEF TarsInv, Writing, Manifests, PackInv, Open
<1>7. k \in Nat \ {0} /\ mem' \in Manifests /\ k >= mem.next /\ k <= mem.next + 1
  <2>1. k \in Nat \ {0} /\ k >= mem.next /\ k <= mem.next + 1
    BY <1>2, <1>6
  <2>2. mem.items \in [Sequence -> Nat]
    BY <1>6 DEF Manifests
  <2>3. [mem.items EXCEPT ![s] = k] \in [Sequence -> Nat]
    BY <2>1, <2>2
  <2> QED BY <1>4, <2>1, <2>3 DEF Manifests
<1>8. PICK f : Progress(f)
  BY <1>6 DEF TarsInv, Contents
<1>9. PICK T, b : T = Unscored /\ b = manifest.next
  OBVIOUS
<1>10. Fills(f, T, b) /\ Unscored' = T /\ T \in SUBSET Sequence /\ f \in [Nat -> Fill]
  BY <1>4, <1>8, <1>9 DEF Progress, Unscored, ScoreInv, TodoOK, Fills
<1>11. PICK p \in Nat : todo = {t \in T : t >= p} /\ f[p] = [next |-> mem.next, used |-> used]
  BY <1>4, <1>8, <1>9 DEF Progress
<1>12. s \in T /\ p <= s /\ f[p] = f[s]
  <2>1. s \in T /\ p <= s
    BY <1>5, <1>11
  <2>2. \A z \in T : ~(p <= z /\ z < s)
    <3> SUFFICES ASSUME NEW z \in T, p <= z, z < s PROVE FALSE
      OBVIOUS
    <3>1. z \in Nat
      BY <1>10, ReportAssumption DEF Sequence
    <3>2. z \in todo
      BY <1>11, <3>1
    <3> QED BY <1>5, <3>1, <3>2
  <2>3. Fills(f, T, b) /\ s \in Nat
    BY <1>5, <1>10
  <2>4. f[p] = f[s]
    BY <2>1, <2>2, <2>3, FillsRest
  <2> QED BY <2>1, <2>4
<1>13. f[s + 1] = [next |-> k, used |-> used'] /\ used' \in Nat /\ used' > 0
  <2>1. f[s + 1] = Advance(f[s], Size[s])
    BY <1>5, <1>10, <1>12 DEF Fills
  <2>2. f[s] = [next |-> mem.next, used |-> used]
    BY <1>11, <1>12
  <2>3. Advance(f[s], Size[s]) = [next |-> k, used |-> used']
    BY <1>2, <1>4, <2>2 DEF Advance, Full
  <2> QED BY <1>4, <1>5, <1>6, <2>1, <2>3
<1>14. todo' = {t \in T : t >= s + 1} /\ s + 1 \in Nat
  <2>1. ASSUME NEW t \in T PROVE t \in Nat /\ (t >= p /\ t # s <=> t >= s + 1)
    <3>1. t \in Nat
      BY <1>10, ReportAssumption DEF Sequence
    <3>2. t >= p => t >= s
      BY <1>5, <1>11
    <3> QED BY <1>5, <1>12, <3>1, <3>2
  <2>2. \A t : t \in todo' <=> t \in T /\ t >= p /\ t # s
    BY <1>4, <1>11
  <2>3. \A t : t \in todo' <=> t \in T /\ t >= s + 1
    BY <2>1, <2>2
  <2>4. \A t : t \in todo' <=> t \in {z \in T : z >= s + 1}
    BY <2>3
  <2> QED BY <1>5, <2>4
<1>15. before \in SUBSET Sequence /\ before \subseteq store
  <2>1. CASE used = 0 \/ Full(s)
    BY <1>3, <2>1
  <2>2. CASE ~(used = 0 \/ Full(s))
    <3>1. k \in DOMAIN shards /\ before = shards[k].units
      BY <1>2, <1>3, <1>4, <1>6, <2>2 DEF ScoreInv, ShardsOK
    <3>2. shards[k].units \subseteq store /\ store \subseteq Sequence
      BY <3>1 DEF TarsInv, Contents, ScoreInv, TodoOK
    <3> QED BY <3>1, <3>2
  <2> QED BY <2>1, <2>2
<1>16. shards' = [j \in DOMAIN shards \cup {k} |->
            IF j = k THEN [units |-> before \cup {s}, sealed |-> FALSE]
            ELSE IF j = mem.next THEN [shards[j] EXCEPT !.sealed = TRUE] ELSE shards[j]]
  BY <1>4 DEF Put
<1>17. /\ DOMAIN shards' = DOMAIN shards \cup {k}
       /\ shards'[k] = [units |-> before \cup {s}, sealed |-> FALSE]
       /\ \A j \in DOMAIN shards : j # k =>
            shards'[j] = IF j = mem.next THEN [shards[j] EXCEPT !.sealed = TRUE] ELSE shards[j]
  BY <1>16
<1>18. \A j \in DOMAIN shards : j # k =>
         /\ shards'[j].units = shards[j].units
         /\ shards[j].sealed \/ j = mem.next => shards'[j].sealed
  <2>1. \A r \in [units : SUBSET Sequence, sealed : BOOLEAN] :
          [r EXCEPT !.sealed = TRUE].units = r.units /\ [r EXCEPT !.sealed = TRUE].sealed = TRUE
    OBVIOUS
  <2> QED BY <1>17, <2>1 DEF ScoreInv, ShardsOK
<1>19. \A j \in DOMAIN shards' : shards'[j].units \subseteq store'
  <2>1. s \in store
    BY <1>9, <1>12 DEF Unscored
  <2>2. shards'[k].units \subseteq store
    BY <1>15, <1>17, <2>1
  <2>3. \A j \in DOMAIN shards : shards[j].units \subseteq store
    BY DEF TarsInv, Contents
  <2> QED BY <1>4, <1>17, <1>18, <2>2, <2>3
<1>20. (\E x \in Nat : Covered(f[x]))'
  <2>1. PICK x \in Nat : Covered(f[x])
    BY <1>8 DEF Progress
  <2>2. PICK y \in Nat : x <= y /\ s + 1 <= y
    BY <1>14
  <2>3. /\ Behind(f[x], f[y]) /\ Behind(f[s + 1], f[y])
        /\ f[x] \in Fill /\ f[y] \in Fill /\ f[s + 1] \in Fill
    BY <1>10, <1>14, <2>2, FillsGrow
  <2>4. k \in Nat /\ (k < f[y].next \/ (k = f[y].next /\ f[y].used > 0))
    BY <1>7, <1>13, <2>3 DEF Behind, Fill
  <2>5. \A j \in DOMAIN shards : j \in Nat /\ (j < f[y].next \/ (j = f[y].next /\ f[y].used > 0))
    BY <2>1, <2>3 DEF Covered, Behind, Fill
  <2>6. Covered(f[y])'
    BY <1>17, <2>4, <2>5 DEF Covered
  <2> QED BY <2>6
<1>21. Progress(f)'
  <2>1. Fills(f, Unscored', manifest'.next)
    BY <1>4, <1>9, <1>10
  <2>2. Fills(f, Unscored, manifest.next)'
    BY <2>1 DEF Fills
  <2>3. mem'.next = k
    BY <1>4
  <2>4. (\E q \in Nat : todo = {t \in Unscored : t >= q} /\ f[q] = [next |-> mem.next, used |-> used])'
    BY <1>10, <1>13, <1>14, <2>3
  <2> QED BY <1>20, <2>2, <2>4 DEF Progress
<1>22. SealedBelow(k)'
  <2>1. \A j \in DOMAIN shards : j \in Nat
    BY <1>8 DEF Progress, Covered
  <2>2. \A j \in DOMAIN shards : j < mem.next => shards[j].sealed
    BY <1>4 DEF TarsInv, Writing, SealedBelow
  <2>3. ASSUME NEW j \in DOMAIN shards', j < k PROVE shards'[j].sealed
    <3>1. j \in DOMAIN shards /\ j # k
      BY <1>7, <1>17, <2>3
    <3>2. j < mem.next \/ j = mem.next
      BY <1>6, <1>7, <2>1, <2>3, <3>1
    <3> QED BY <1>18, <2>2, <3>1, <3>2
  <2> QED BY <2>3 DEF SealedBelow
<1>23. SealedBelow(manifest.next)'
  <2>1. \A j \in DOMAIN shards' : j \in Nat
    BY <1>7, <1>8, <1>17 DEF Progress, Covered
  <2>2. manifest.next \in Nat /\ manifest.next <= mem.next
    BY <1>4 DEF PackInv, Open
  <2>3. \A j \in Nat : j < manifest.next => j < k
    BY <1>6, <1>7, <2>2
  <2> QED BY <1>4, <1>22, <2>1, <2>3 DEF SealedBelow
<1>24. Contents'
  BY <1>4, <1>6, <1>19, <1>21, <1>23 DEF Contents, Manifests
<1>25. Writing'
  <2>1. mem'.next = k /\ \A t \in store : t # s => mem'.items[t] = mem.items[t]
    BY <1>4, <1>6 DEF Manifests, ScoreInv, TodoOK
  <2>2. mem'.items[s] = k /\ k # 0
    BY <1>4, <1>5, <1>6, <1>7 DEF Manifests
  <2>3. \A t \in store : t \in todo \/ mem.items[t] # 0
    BY <1>4 DEF TarsInv, Writing
  <2>4. \A t \in store : t \in todo' \/ mem'.items[t] # 0
    BY <1>4, <2>1, <2>2, <2>3
  <2>5. SealedBelow(mem.next)'
    BY <1>22, <2>1 DEF SealedBelow
  <2> QED BY <1>4, <1>6, <1>7, <2>4, <2>5 DEF Writing, Manifests
<1>26. Closing' /\ Agreeing'
  BY <1>4 DEF TarsInv, Closing, Agreeing
<1> QED BY <1>24, <1>25, <1>26 DEF TarsInv

LEMMA SealKeeps == ASSUME ScoreInv, PackInv, TarsInv, Seal PROVE TarsInv'
<1>1. /\ cmd = "frames" /\ cmd' = "manifest" /\ manifest' = Cut /\ store' = store
      /\ mem' = [mem EXCEPT !.next = IF used > 0 THEN @ + 1 ELSE @]
      /\ shards' = [k \in DOMAIN shards |-> [shards[k] EXCEPT !.sealed = @ \/ k = mem.next]]
      /\ synced' = synced /\ todo = {}
  BY DEF Seal
<1>2. /\ mem \in Manifests /\ manifest \in Manifests /\ used \in Nat /\ mem.next \in Nat \ {0}
  BY <1>1 DEF TarsInv, Writing, Manifests, PackInv, Open
<1>3. /\ DOMAIN shards' = DOMAIN shards
      /\ \A k \in DOMAIN shards : /\ shards'[k].units = shards[k].units
                                  /\ shards[k].sealed \/ k = mem.next => shards'[k].sealed
  BY <1>1 DEF ScoreInv, ShardsOK
<1>4. PICK f : Progress(f)
  BY <1>2 DEF TarsInv, Contents
<1>5. PICK T, b : T = Unscored /\ b = manifest.next
  OBVIOUS
<1>6. Fills(f, T, b) /\ T \in SUBSET Sequence /\ f \in [Nat -> Fill]
  BY <1>4, <1>5 DEF Progress, Unscored, ScoreInv, TodoOK, Fills
<1>7. PICK p \in Nat : todo = {t \in T : t >= p} /\ f[p] = [next |-> mem.next, used |-> used]
  BY <1>1, <1>4, <1>5 DEF Progress
<1>8. PICK x \in Nat : Covered(f[x])
  BY <1>4 DEF Progress
<1>9. Behind(f[x], f[p]) /\ f[x] \in Fill /\ f[p] \in Fill
  <2>1. CASE x <= p
    BY <1>6, <2>1, FillsGrow
  <2>2. CASE p <= x
    <3>1. \A z \in T : ~(p <= z /\ z < x)
      <4> SUFFICES ASSUME NEW z \in T, p <= z PROVE FALSE
        OBVIOUS
      <4>1. z \in Nat
        BY <1>6, ReportAssumption DEF Sequence
      <4> QED BY <1>1, <1>7, <4>1
    <3>2. f[p] = f[x]
      BY <1>6, <2>2, <3>1, FillsRest
    <3> QED BY <1>6, <3>2, BehindOrder
  <2> QED BY <2>1, <2>2
<1>10. \A k \in DOMAIN shards : k \in Nat /\ (k < mem.next \/ (k = mem.next /\ used > 0))
  BY <1>2, <1>7, <1>8, <1>9 DEF Covered, Behind, Fill
<1>11. Intact'
  <2>1. \A k \in DOMAIN shards : k < mem.next => shards[k].sealed
    BY <1>1 DEF TarsInv, Writing, SealedBelow
  <2> QED BY <1>3, <1>10, <2>1 DEF Intact
<1>12. mem' \in Manifests /\ mem'.items = mem.items
       /\ mem'.next = IF used > 0 THEN mem.next + 1 ELSE mem.next
  BY <1>1, <1>2 DEF Manifests
<1>13. \A k \in DOMAIN shards' : k \in Nat /\ k < mem'.next
  BY <1>2, <1>3, <1>10, <1>12
<1>14. \A s \in store' : mem'.items[s] # 0
  BY <1>1, <1>12 DEF TarsInv, Writing
<1>15. Closing'
  BY <1>1, <1>11, <1>12, <1>13, <1>14 DEF Closing, Manifests
<1>16. Contents'
  <2>1. manifest' \notin Manifests
    BY <1>1 DEF Cut, Manifests
  <2>2. \A k \in DOMAIN shards' : shards'[k].units \subseteq store'
    BY <1>1, <1>3 DEF TarsInv, Contents
  <2> QED BY <1>1, <2>1, <2>2 DEF Contents, Manifests, Cut
<1> QED BY <1>1, <1>15, <1>16 DEF TarsInv, Writing, Agreeing

LEMMA RebuildKeeps == ASSUME ScoreInv, PackInv, TarsInv, Rebuild PROVE TarsInv'
<1>1. /\ cmd = "manifest" /\ cmd' = "report" /\ manifest' = mem /\ packed' = None
      /\ todo' = Some(details) /\ store' = store /\ details' = details /\ synced' = synced
      /\ shards' = shards
  BY DEF Rebuild, report, local
<1>2. /\ mem \in Manifests /\ Intact /\ \A k \in DOMAIN shards : k \in Nat /\ k < mem.next
      /\ \A s \in store : mem.items[s] # 0
  BY <1>1 DEF TarsInv, Closing
<1>3. Unscored' = {}
  BY <1>1, <1>2 DEF Unscored
<1>4. PICK b \in Nat : b = mem.next
  BY <1>2 DEF Manifests
<1>5. PICK f : Fills(f, {}, b)
  BY FillsExist
<1>6. Fills(f, Unscored', manifest'.next)
  BY <1>1, <1>3, <1>4, <1>5
<1>7. Fills(f, Unscored, manifest.next)'
  BY <1>6 DEF Fills
<1>8. Covered(f[0])'
  <2>1. f[0].next = b
    BY <1>5 DEF Fills
  <2> QED BY <1>1, <1>2, <1>4, <2>1 DEF Covered
<1>9. Progress(f)'
  BY <1>1, <1>7, <1>8 DEF Progress
<1>10. SealedBelow(manifest.next)' /\ Intact'
  BY <1>1, <1>2 DEF SealedBelow, Intact
<1>11. Contents'
  BY <1>1, <1>2, <1>9, <1>10 DEF TarsInv, Contents, Manifests
<1>12. \A s \in Sequence : packed'[s] = IF s \in todo' THEN 0 ELSE details'[s]
  BY <1>1 DEF None, Some, ScoreInv, TodoOK
<1>13. Closing'
  BY <1>1, <1>2, <1>10, <1>12 DEF Closing, Manifests
<1> QED BY <1>1, <1>11, <1>13 DEF TarsInv, Writing, Agreeing

LEMMA AddReportKeeps == ASSUME ScoreInv, TarsInv, AddReport PROVE TarsInv'
<1>1. PICK s : s = First
  OBVIOUS
<1>2. /\ cmd = "report" /\ cmd' = cmd /\ packed' = [packed EXCEPT ![s] = details[s]]
      /\ todo' = todo \ {s} /\ store' = store /\ details' = details /\ synced' = synced
      /\ frames' = frames /\ shards' = shards /\ manifest' = manifest
  BY <1>1 DEF AddReport, report, frames
<1>3. Contents'
  BY <1>2, QuietContents DEF TarsInv
<1>4. \A t \in Sequence : packed'[t] = IF t \in todo' THEN 0 ELSE details'[t]
  <2>1. packed \in [Sequence -> Nat]
    BY DEF ScoreInv, TodoOK
  <2>2. \A t \in Sequence : packed[t] = IF t \in todo THEN 0 ELSE details[t]
    BY <1>2 DEF TarsInv, Closing
  <2> QED BY <1>2, <2>1, <2>2
<1>5. Closing'
  BY <1>2, <1>4 DEF TarsInv, Closing, Intact, Manifests
<1> QED BY <1>2, <1>3, <1>5 DEF TarsInv, Writing, Agreeing

LEMMA PackedKeeps == ASSUME ScoreInv, PackInv, TarsInv, Packed PROVE TarsInv'
<1>1. /\ cmd = "report" /\ todo = {} /\ copied' = rows /\ cmd' = "idle" /\ synced'
      /\ rows' = rows /\ details' = details /\ packed' = packed /\ store' = store
      /\ frames' = frames /\ shards' = shards /\ manifest' = manifest
  BY DEF Packed, report, frames
<1>2. Contents'
  BY <1>1, QuietContents DEF TarsInv
<1>3. packed = details
  <2>1. \A s \in Sequence : packed[s] = details[s]
    BY <1>1 DEF TarsInv, Closing
  <2> QED BY <2>1 DEF ScoreInv, TodoOK
<1>4. Intact' /\ Delivered'
  <2>1. Intact /\ manifest \in Manifests /\ \A s \in store : manifest.items[s] # 0
    BY <1>1 DEF TarsInv, Closing
  <2>2. \A s \in store : s \in Some(manifest.items)
    BY <2>1 DEF Some, Manifests, ScoreInv, TodoOK
  <2>3. Delivered
    BY <2>2 DEF PackInv, Closed, Holds, Delivered
  <2> QED BY <1>1, <2>1, <2>3 DEF Intact, Delivered
<1> QED BY <1>1, <1>2, <1>3, <1>4 DEF TarsInv, Writing, Closing, Agreeing

LEMMA NextTars == ScoreInv /\ PackInv /\ TarsInv /\ [Next]_vars => TarsInv'
<1> SUFFICES ASSUME ScoreInv, PackInv, TarsInv, [Next]_vars PROVE TarsInv'
  OBVIOUS
\* Steps of score, a kill and an unpack change no tar and no manifest.
<1>1. ASSUME frames' = frames, store' = store, cmd' \in {"idle", "score"}, ~synced'
      PROVE  TarsInv'
  <2>1. Contents'
    BY <1>1, QuietContents DEF TarsInv
  <2> QED BY <1>1, <2>1 DEF TarsInv, Writing, Closing, Agreeing
<1>2. ASSUME NEW s \in Sequence, Pull(s) PROVE TarsInv'
  BY <1>2, PullKeeps
<1>3. ASSUME NEW ok \in SUBSET store, Score(ok) PROVE TarsInv'
  BY <1>1, <1>3 DEF Score, archive
<1>4. ASSUME Details \/ Scored PROVE TarsInv'
  <2>1. ~synced /\ cmd = "score"
    BY <1>4 DEF Details, Scored, TarsInv, Agreeing
  <2> QED BY <1>1, <1>4, <2>1 DEF Details, Scored, archive
<1>5. ASSUME Unpack PROVE TarsInv'
  <2>1. store' = store \cup UNION {shards[k].units : k \in DOMAIN shards} /\ cmd' = "idle" /\ ~synced'
        /\ frames' = frames
    BY <1>5 DEF Unpack, Unpacked, archive
  <2>2. UNION {shards[k].units : k \in DOMAIN shards} \subseteq store
    BY DEF TarsInv, Contents
  <2> QED BY <1>1, <2>1, <2>2
<1>6. ASSUME Kill PROVE TarsInv'
  BY <1>1, <1>6 DEF Kill, archive, TarsInv, Agreeing
<1>7. ASSUME UNCHANGED vars PROVE TarsInv'
  <2>1. /\ frames' = frames /\ store' = store /\ cmd' = cmd /\ todo' = todo /\ mem' = mem /\ used' = used
        /\ synced' = synced /\ packed' = packed /\ copied' = copied /\ details' = details /\ rows' = rows
        /\ shards' = shards /\ manifest' = manifest
    BY <1>7 DEF vars, archive, frames, local, report
  <2>2. Contents'
    BY <2>1, QuietContents DEF TarsInv
  <2>3. Writing' /\ Closing' /\ Agreeing'
    BY <2>1 DEF TarsInv, Writing, Closing, Agreeing, SealedBelow, Intact, Delivered, Manifests
  <2> QED BY <2>2, <2>3 DEF TarsInv
<1> QED BY <1>2, <1>3, <1>4, <1>5, <1>6, <1>7, PackKeeps, AddUnitTars, SealKeeps, RebuildKeeps,
           AddReportKeeps, PackedKeeps DEF Next

\* temporal-triage pack, unpack: after a pack that was not killed the archive has no tar
\* left open and unpacks to the store, the results and the details, for all sizes and
\* targets and wherever earlier packs, scores and pulls were killed.
THEOREM PackRoundTrips == Spec => []RoundTrip
<1>1. ScoreInv /\ TarsInv => RoundTrip
  <2> SUFFICES ASSUME ScoreInv, TarsInv, synced
               PROVE  Intact /\ Unpacked = [store |-> store, details |-> details, rows |-> rows]
    BY DEF RoundTrip
  <2>1. Intact /\ Delivered /\ packed = details /\ copied = rows
    BY DEF TarsInv, Agreeing
  <2>2. UNION {shards[k].units : k \in DOMAIN shards} = store
    BY <2>1 DEF TarsInv, Contents, Delivered
  <2> QED BY <2>1, <2>2 DEF Unpacked
<1> QED BY <1>1, InitScore, NextScore, InitPack, NextPack, InitTars, NextTars, PTL DEF Spec
-----------------------------------------------------------------------------
\* The backlog: sequences that have been created, each once.
Distinct(s) == \A i, j \in DOMAIN s : i # j => s[i] # s[j]
BacklogOK ==
  /\ created \in 0..MaxSequence
  /\ queue \in Seq(1..created) /\ Distinct(queue)

\* The files of the store.
FileStates == {"absent", "partial", "ok"}
DiskOK ==
  /\ image \in [Sequences -> [Frame -> FileStates]]
  /\ meta \in [Sequences -> FileStates]
  /\ \A s \in Sequences : Exists(s) => Whole(s)

\* What a listing has found: each once, from the pages that were read.
Listed ==
  /\ page \in Nat \ {0}
  /\ \A i \in DOMAIN new_seqs :
       /\ ~Exists(new_seqs[i])
       /\ \E k \in DOMAIN queue : k <= (page - 1) * PageSize /\ queue[k] = new_seqs[i]

\* How far the pull of a sequence is shows on disk.
Steps == {"waiting", "frames", "failing", "meta", "over"}
Pulled(i) ==
  LET w == work[i]
      s == new_seqs[i]
  IN  /\ w \in [step : Steps, fetch : SUBSET Frame, writing : SUBSET Frame]
      /\ w.step \in {"waiting", "frames", "failing"} => ~Exists(s)
      /\ w.step \in {"waiting", "meta", "over"} => w.writing = {}
      /\ w.step = "frames" => \A f \in Frame : f \in w.fetch \cup w.writing \/ image[s][f] = "ok"
      /\ w.step = "meta" => Whole(s)

PullInv ==
  /\ pc \in {"idle", "list", "pull"}
  /\ ~drift =>
       /\ BacklogOK /\ DiskOK
       /\ new_seqs \in Seq(Sequences) /\ Distinct(new_seqs)
       /\ pc = "list" => Listed
       /\ pc = "pull" => DOMAIN work = DOMAIN new_seqs /\ \A i \in DOMAIN work : Pulled(i)
       /\ pc # "pull" => work = <<>>

LEMMA InitPull == PullInit => PullInv
<1> SUFFICES ASSUME PullInit PROVE PullInv
  OBVIOUS
<1>1. MaxSequence \in Nat
  BY PullAssumption
<1>2. BacklogOK
  BY <1>1 DEF PullInit, BacklogOK, Distinct
<1>3. DiskOK
  BY DEF PullInit, DiskOK, FileStates, Exists
<1> QED BY <1>2, <1>3 DEF PullInit, PullInv, Distinct

\* What is new on a page, more, and from where on the page is.
Paged(base, n, more) ==
  /\ base = (page - 1) * PageSize /\ new_seqs' = new_seqs \o more
  /\ Distinct(more)
  /\ \A k \in 1..n :
       /\ ~Exists(more[k])
       /\ \E p \in DOMAIN queue : base < p /\ p <= base + PageSize /\ queue[p] = more[k]
LEMMA NewOnPage ==
  ASSUME BacklogOK, page \in Nat \ {0}, ListPage
  PROVE  \E base \in Nat, n \in Nat : \E more \in [1..n -> Sequences] : Paged(base, n, more)
<1>1. PICK base \in Nat : base = (page - 1) * PageSize
  BY PullAssumption
<1>2. PICK len \in Nat : len = Len(queue) /\ DOMAIN queue = 1..len
  BY DEF BacklogOK
<1>3. PICK m \in Int : m = IF len - base < PageSize THEN len - base ELSE PageSize
  BY PullAssumption
<1>4. PICK items : items = PageOf(page) /\ items = [i \in 1..m |-> queue[base + i]]
  BY <1>1, <1>2, <1>3 DEF PageOf
<1>5. \A i \in 1..m : /\ base + i \in 1..len /\ base < base + i /\ base + i <= base + PageSize
                      /\ i \in Nat
  BY <1>1, <1>3, PullAssumption
<1>6. PICK fresh : fresh = {i \in 1..m : ~Exists(items[i])}
  OBVIOUS
<1>7. PICK n \in Nat : n = Cardinality(fresh)
  <2>1. IsFiniteSet(1..m)
    BY FS_Interval
  <2>2. fresh \subseteq 1..m
    BY <1>6
  <2> QED BY <2>1, <2>2, FS_Subset, FS_CardinalityType
<1>8. PICK order \in [1..n -> fresh] :
        /\ \A k, l \in 1..n : k < l => order[k] < order[l]
        /\ new_seqs' = new_seqs \o [k \in 1..n |-> items[order[k]]]
  <2>1. DOMAIN items = 1..m /\ fresh = {i \in DOMAIN items : ~Exists(items[i])}
    BY <1>4, <1>6
  <2>2. PICK order \in [1..Cardinality(fresh) -> fresh] :
          /\ \A k, l \in DOMAIN order : k < l => order[k] < order[l]
          /\ new_seqs' = new_seqs \o [k \in DOMAIN order |-> items[order[k]]]
    BY <1>4, <2>1 DEF ListPage
  <2> QED BY <1>7, <2>2
<1>9. PICK more : more = [k \in 1..n |-> items[order[k]]]
  OBVIOUS
<1>10. \A k \in 1..n : /\ order[k] \in 1..m /\ more[k] = queue[base + order[k]]
                       /\ ~Exists(more[k])
  BY <1>4, <1>6, <1>8, <1>9
<1>11. \A k, l \in 1..n : k # l => base + order[k] # base + order[l]
  <2> SUFFICES ASSUME NEW k \in 1..n, NEW l \in 1..n, k # l PROVE base + order[k] # base + order[l]
    OBVIOUS
  <2>1. order[k] \in Nat /\ order[l] \in Nat
    BY <1>5, <1>10
  <2>2. order[k] < order[l] \/ order[l] < order[k]
    BY <1>8
  <2> QED BY <2>1, <2>2
<1>12. Distinct(more)
  <2> SUFFICES ASSUME NEW k \in 1..n, NEW l \in 1..n, k # l PROVE more[k] # more[l]
    BY <1>9 DEF Distinct
  <2>1. PICK p \in DOMAIN queue, q \in DOMAIN queue : p = base + order[k] /\ q = base + order[l]
    BY <1>2, <1>5, <1>10
  <2>2. p # q /\ more[k] = queue[p] /\ more[l] = queue[q]
    BY <1>10, <1>11, <2>1
  <2> QED BY <2>2 DEF BacklogOK, Distinct
<1>13. \A k \in 1..n : \E p \in DOMAIN queue : base < p /\ p <= base + PageSize /\ queue[p] = more[k]
  BY <1>2, <1>5, <1>10
<1>14. more \in [1..n -> Sequences]
  <2>1. \A p \in DOMAIN queue : queue[p] \in 1..created /\ created \in 0..MaxSequence
    BY DEF BacklogOK
  <2>2. 1..created \subseteq Sequences
    BY PullAssumption DEF BacklogOK, Sequences
  <2> QED BY <1>9, <1>13, <2>1, <2>2
<1>15. Paged(base, n, more)
  BY <1>1, <1>8, <1>9, <1>10, <1>12, <1>13 DEF Paged
<1> QED BY <1>14, <1>15

LEMMA ListKeeps == ASSUME PullInv, ListPage PROVE PullInv'
<1>1. pc = "list" /\ UNCHANGED <<drift, created, queue, disk>>
  BY DEF ListPage
<1>2. CASE drift
  BY <1>1, <1>2 DEF PullInv, ListPage
<1>3. CASE ~drift
  <2>1. /\ BacklogOK /\ DiskOK /\ Listed /\ page \in Nat \ {0}
        /\ new_seqs \in Seq(Sequences) /\ Distinct(new_seqs) /\ work = <<>>
    BY <1>1, <1>3 DEF PullInv, Listed
  <2>2. PICK base \in Nat, n \in Nat : \E more \in [1..n -> Sequences] : Paged(base, n, more)
    BY <2>1, NewOnPage
  <2>3. PICK more \in [1..n -> Sequences] : Paged(base, n, more)
    BY <2>2
  <2>4. PICK old, new : old = new_seqs /\ new = new_seqs'
    OBVIOUS
  <2>5. PICK len \in Nat : len = Len(old) /\ old \in Seq(Sequences)
    BY <2>1, <2>4
  <2>6. /\ new \in Seq(Sequences) /\ DOMAIN new = 1..(len + n) /\ Len(new) = len + n
        /\ \A i \in 1..(len + n) : new[i] = IF i <= len THEN old[i] ELSE more[i - len]
    <3>1. more \in Seq(Sequences) /\ Len(more) = n
      BY <2>3
    <3>2. new = old \o more
      BY <2>3, <2>4 DEF Paged
    <3>3. PICK cat : cat = old \o more
      OBVIOUS
    <3>4. cat \in Seq(Sequences) /\ Len(cat) = Len(old) + Len(more)
      BY <2>5, <3>1, <3>3, ConcatProperties
    <3>5. \A i \in 1..(Len(old) + Len(more)) : cat[i] = IF i <= Len(old) THEN old[i] ELSE more[i - Len(old)]
      BY <2>5, <3>1, <3>3, ConcatProperties
    <3> QED BY <2>5, <3>1, <3>2, <3>3, <3>4, <3>5
  <2>7. \A i \in 1..(len + n) :
          /\ ~Exists(new[i])
          /\ i <= len => \E p \in DOMAIN queue : p <= base /\ queue[p] = new[i]
          /\ i > len => \E p \in DOMAIN queue : base < p /\ p <= base + PageSize /\ queue[p] = new[i]
    <3> SUFFICES ASSUME NEW i \in 1..(len + n)
                 PROVE  /\ ~Exists(new[i])
                        /\ i <= len => \E p \in DOMAIN queue : p <= base /\ queue[p] = new[i]
                        /\ i > len => \E p \in DOMAIN queue : base < p /\ p <= base + PageSize /\ queue[p] = new[i]
      OBVIOUS
    <3>1. CASE i <= len
      <4>1. i \in DOMAIN old /\ new[i] = old[i]
        BY <2>5, <2>6, <3>1
      <4> QED BY <2>1, <2>3, <2>4, <3>1, <4>1 DEF Listed, Paged
    <3>2. CASE i > len
      <4>1. i - len \in 1..n /\ new[i] = more[i - len]
        BY <2>6, <3>2
      <4> QED BY <2>3, <3>2, <4>1 DEF Paged
    <3> QED BY <3>1, <3>2
  <2>8. DOMAIN queue \subseteq Nat
    BY <2>1 DEF BacklogOK
  <2>9. Distinct(new)
    <3> SUFFICES ASSUME NEW i \in 1..(len + n), NEW j \in 1..(len + n), i < j PROVE new[i] # new[j]
      BY <2>6 DEF Distinct
    <3>1. CASE j <= len
      <4>1. i \in DOMAIN old /\ j \in DOMAIN old /\ i # j /\ new[i] = old[i] /\ new[j] = old[j]
        BY <2>5, <2>6, <3>1
      <4> QED BY <2>1, <2>4, <4>1 DEF Distinct
    <3>2. CASE i <= len /\ len < j
      <4>1. PICK p \in DOMAIN queue : p <= base /\ queue[p] = new[i]
        BY <2>7, <3>2
      <4>2. PICK q \in DOMAIN queue : base < q /\ queue[q] = new[j]
        BY <2>7, <3>2
      <4>3. p # q
        BY <2>8, <4>1, <4>2
      <4> QED BY <2>1, <4>1, <4>2, <4>3 DEF BacklogOK, Distinct
    <3>3. CASE len < i
      <4>1. i - len \in 1..n /\ j - len \in 1..n /\ i - len # j - len
        BY <3>3
      <4>2. ~ (i <= len) /\ ~ (j <= len)
        BY <3>3
      <4>3. new[i] = more[i - len] /\ new[j] = more[j - len]
        BY <2>6, <4>2, Zenon
      <4> QED BY <2>3, <4>1, <4>3 DEF Paged, Distinct
    <3> QED BY <3>1, <3>2, <3>3
  <2>10. \A s : Exists(s)' <=> Exists(s)
    BY <1>1 DEF Exists, disk
  <2>11. CASE pc' = "pull" /\ work' = [i \in DOMAIN new_seqs' |-> Waiting]
    <3>1. DOMAIN work' = DOMAIN new /\ \A i \in DOMAIN new : work'[i] = Waiting
      BY <2>4, <2>11
    <3>2. ASSUME NEW i \in DOMAIN new PROVE Pulled(i)'
      <4>1. ~Exists(new[i])'
        BY <2>6, <2>7, <2>10
      <4>2. Waiting \in [step : Steps, fetch : SUBSET Frame, writing : SUBSET Frame]
        BY DEF Waiting, Steps
      <4> QED BY <2>4, <3>1, <4>1, <4>2 DEF Pulled, Waiting, Exists
    <3> QED BY <1>1, <2>1, <2>4, <2>6, <2>9, <2>11, <3>1, <3>2
            DEF PullInv, BacklogOK, DiskOK, Distinct, disk, Exists, Whole
  <2>12. CASE pc' = "list" /\ work' = work /\ page' = page + 1
    <3>1. (page + 1 - 1) * PageSize = base + PageSize
      <4>1. PICK k \in Nat : k = page - 1
        BY <2>1
      <4>2. base = k * PageSize /\ page + 1 - 1 = k + 1 /\ PageSize \in Nat
        BY <2>1, <2>3, <4>1, PullAssumption DEF Paged
      <4> QED BY <4>2
    <3>2. \A i \in DOMAIN new : \E p \in DOMAIN queue : p <= base + PageSize /\ queue[p] = new[i]
      <4>1. base + PageSize >= base /\ base + PageSize \in Nat
        BY PullAssumption
      <4> QED BY <2>6, <2>7, <2>8, <4>1
    <3>3. Listed'
      <4>1. page' \in Nat \ {0} /\ (page' - 1) * PageSize = base + PageSize
        BY <2>1, <2>12, <3>1
      <4> QED BY <1>1, <2>4, <2>6, <2>7, <2>10, <3>2, <4>1 DEF Listed, Exists
    <3> QED BY <1>1, <2>1, <2>4, <2>6, <2>9, <2>12, <3>3
            DEF PullInv, BacklogOK, DiskOK, Distinct, disk, Exists, Whole
  <2> QED BY <1>1, <2>11, <2>12 DEF ListPage
<1> QED BY <1>2, <1>3

LEMMA BacklogChanges ==
  ASSUME PullInv, Arrive \/ (\E i \in DOMAIN queue : Annotate(i))
  PROVE  PullInv'
<1>1. UNCHANGED <<drift, pc, page, new_seqs, work, disk>> /\ (drift \/ pc # "list")
  BY DEF Arrive, Annotate
<1>2. CASE drift
  BY <1>1, <1>2 DEF PullInv
<1>3. CASE ~drift
  <2>1. BacklogOK
    BY <1>3 DEF PullInv
  <2>2. PICK c \in Nat, len \in Nat : c = created /\ len = Len(queue) /\ DOMAIN queue = 1..len
    <3>1. PICK c \in Nat : c = created
      BY <2>1, PullAssumption DEF BacklogOK
    <3>2. queue \in Seq(1..c)
      BY <2>1, <3>1 DEF BacklogOK
    <3> QED BY <3>1, <3>2
  <2>3. /\ \A k \in 1..len : queue[k] \in 1..c
        /\ \A k, l \in 1..len : k # l => queue[k] # queue[l]
    BY <2>1, <2>2 DEF BacklogOK, Distinct
  <2>4. CASE Arrive
    <3>1. PICK new : new = <<c + 1>> \o queue
      OBVIOUS
    <3>2. queue' = new /\ created' = c + 1 /\ c + 1 \in 0..MaxSequence
      BY <2>1, <2>2, <2>4, <3>1, PullAssumption DEF Arrive, BacklogOK
    <3>3. PICK one : one = <<c + 1>>
      OBVIOUS
    <3>4. one \in Seq(1..(c + 1)) /\ Len(one) = 1 /\ one[1] = c + 1
      BY <3>3
    <3>5. queue \in Seq(1..(c + 1))
      <4>1. \A k \in 1..len : queue[k] \in 1..(c + 1)
        BY <2>3
      <4>2. queue \in Seq(1..c)
        BY <2>1, <2>2 DEF BacklogOK
      <4> QED BY <2>2, <4>1, <4>2
    <3>6. /\ new \in Seq(1..(c + 1)) /\ Len(new) = Len(one) + Len(queue)
          /\ \A k \in 1..(Len(one) + Len(queue)) :
               new[k] = IF k <= Len(one) THEN one[k] ELSE queue[k - Len(one)]
      BY <3>1, <3>3, <3>4, <3>5, ConcatProperties
    <3>7. DOMAIN new = 1..(1 + len) /\ new[1] = c + 1 /\ \A k \in 2..(1 + len) : new[k] = queue[k - 1]
      BY <2>2, <3>4, <3>6
    <3>8. Distinct(new)
      <4> SUFFICES ASSUME NEW k \in 1..(1 + len), NEW l \in 1..(1 + len), k < l PROVE new[k] # new[l]
        BY <3>7 DEF Distinct
      <4>1. l - 1 \in 1..len /\ new[l] = queue[l - 1]
        BY <3>7
      <4>2. CASE k = 1
        <5>1. queue[l - 1] \in 1..c /\ c + 1 \notin 1..c
          BY <2>3, <4>1
        <5> QED BY <3>7, <4>1, <4>2, <5>1
      <4>3. CASE k # 1
        <5>1. k - 1 \in 1..len /\ k - 1 # l - 1 /\ new[k] = queue[k - 1]
          BY <3>7, <4>3
        <5> QED BY <2>3, <4>1, <5>1
      <4> QED BY <4>2, <4>3
    <3>9. BacklogOK'
      BY <3>2, <3>6, <3>8 DEF BacklogOK, Distinct
    <3> QED BY <1>1, <1>3, <3>9 DEF PullInv, DiskOK, Distinct, disk, Exists, Whole, Pulled
  <2>5. ASSUME NEW i \in DOMAIN queue, Annotate(i) PROVE PullInv'
    <3>1. PICK new : new = [k \in 1..(len - 1) |-> queue[IF k < i THEN k ELSE k + 1]]
      OBVIOUS
    <3>2. queue' = new /\ created' = created
      BY <2>2, <2>5, <3>1 DEF Annotate
    <3>3. i \in 1..len /\ len - 1 \in Nat
      BY <2>2
    <3>4. ASSUME NEW k \in 1..(len - 1) PROVE new[k] \in 1..c
      <4>1. (IF k < i THEN k ELSE k + 1) \in 1..len
        BY <3>3
      <4> QED BY <2>3, <3>1, <4>1
    <3>5. new \in Seq(1..c) /\ DOMAIN new = 1..(len - 1)
      BY <3>1, <3>3, <3>4
    <3>6. Distinct(new)
      <4> SUFFICES ASSUME NEW k \in 1..(len - 1), NEW l \in 1..(len - 1), k # l PROVE new[k] # new[l]
        BY <3>5 DEF Distinct
      <4>1. PICK p \in 1..len : p = IF k < i THEN k ELSE k + 1
        BY <3>3
      <4>2. PICK q \in 1..len : q = IF l < i THEN l ELSE l + 1
        BY <3>3
      <4>3. p # q
        BY <3>3, <4>1, <4>2
      <4>4. new[k] = queue[p] /\ new[l] = queue[q]
        BY <3>1, <4>1, <4>2
      <4> QED BY <2>3, <4>3, <4>4
    <3>7. BacklogOK'
      BY <2>1, <2>2, <3>2, <3>5, <3>6 DEF BacklogOK, Distinct
    <3> QED BY <1>1, <1>3, <3>7 DEF PullInv, DiskOK, Distinct, disk, Exists, Whole, Pulled
  <2> QED BY <2>4, <2>5
<1> QED BY <1>2, <1>3

LEMMA RunKeeps == ASSUME PullInv, Run PROVE PullInv'
<1>1. /\ pc = "idle" /\ pc' = "list" /\ page' = 1 /\ new_seqs' = <<>>
      /\ UNCHANGED <<drift, created, queue, work, disk>>
  BY DEF Run
<1>2. Listed'
  BY <1>1 DEF Listed
<1>3. new_seqs' \in Seq(Sequences) /\ Distinct(new_seqs)'
  BY <1>1 DEF Distinct
<1> QED BY <1>1, <1>2, <1>3 DEF PullInv, BacklogOK, DiskOK, Distinct, disk, Exists, Whole

LEMMA StopKeeps ==
  ASSUME PullInv, Stop, UNCHANGED <<drift, created, queue, disk>>
  PROVE  PullInv'
<1>1. new_seqs' \in Seq(Sequences) /\ Distinct(new_seqs)' /\ pc' = "idle" /\ work' = <<>>
  BY DEF Stop, Distinct
<1> QED BY <1>1 DEF PullInv, BacklogOK, DiskOK, Distinct, disk, Exists, Whole

\* A step of the pull of one sequence leaves those of the others alone.
LEMMA OthersAsBefore ==
  ASSUME PullInv, ~drift, pc = "pull", UNCHANGED <<drift, created, queue, pc, new_seqs>>,
         NEW i \in DOMAIN work, DOMAIN work' = DOMAIN work,
         \A j \in DOMAIN work : j # i => work'[j] = work[j],
         \A s \in Sequences : s # new_seqs[i] => meta'[s] = meta[s] /\ image'[s] = image[s],
         DiskOK', Pulled(i)'
  PROVE  PullInv'
<1>1. /\ BacklogOK /\ new_seqs \in Seq(Sequences) /\ Distinct(new_seqs)
      /\ DOMAIN work = DOMAIN new_seqs /\ \A j \in DOMAIN work : Pulled(j)
  BY DEF PullInv
<1>2. ASSUME NEW j \in DOMAIN work, j # i PROVE Pulled(j)'
  <2>1. new_seqs[j] # new_seqs[i] /\ new_seqs[j] \in Sequences
    BY <1>1, <1>2 DEF Distinct
  <2>2. /\ work'[j] = work[j] /\ new_seqs'[j] = new_seqs[j]
        /\ meta'[new_seqs[j]] = meta[new_seqs[j]] /\ image'[new_seqs[j]] = image[new_seqs[j]]
    BY <1>2, <2>1
  <2>3. Pulled(j)
    BY <1>1
  <2> QED BY <2>2, <2>3 DEF Pulled, Exists, Whole
<1>3. BacklogOK' /\ new_seqs' \in Seq(Sequences) /\ Distinct(new_seqs)'
  BY <1>1 DEF BacklogOK, Distinct
<1>4. DOMAIN work' = DOMAIN new_seqs' /\ \A j \in DOMAIN work' : Pulled(j)'
  BY <1>1, <1>2
<1> QED BY <1>3, <1>4 DEF PullInv

\* What a step of the pull of one sequence may rely on.
LEMMA PullingShape ==
  ASSUME PullInv, ~drift, pc = "pull", NEW i \in DOMAIN work
  PROVE  /\ DiskOK /\ new_seqs[i] \in Sequences /\ Pulled(i)
         /\ work[i] \in [step : Steps, fetch : SUBSET Frame, writing : SUBSET Frame]
BY DEF PullInv, Pulled

\* The steps of the pull of one sequence.
OneStep(i) ==
  \/ Take(i)
  \/ \E f \in Frame : OpenFrame(i, f) \/ WriteFrame(i, f)
  \/ FailFrame(i)
  \/ GiveUp(i)
  \/ OpenMeta(i)
  \/ WriteMeta(i)

LEMMA OneKeeps ==
  ASSUME PullInv, ~drift, NEW i \in DOMAIN work, OneStep(i)
  PROVE  PullInv'
<1>1. /\ pc = "pull" /\ UNCHANGED <<drift, created, queue, pc, new_seqs>>
      /\ DOMAIN work' = DOMAIN work /\ \A j \in DOMAIN work : j # i => work'[j] = work[j]
  BY DEF OneStep, Take, OpenFrame, WriteFrame, FailFrame, GiveUp, OpenMeta, WriteMeta, At, Move
<1>2. PICK s, w : s \in Sequences /\ s = new_seqs[i] /\ w = work[i]
  BY <1>1, PullingShape
<1>3. /\ image \in [Sequences -> [Frame -> FileStates]] /\ meta \in [Sequences -> FileStates]
      /\ \A x \in Sequences : Exists(x) => Whole(x)
  BY <1>1, PullingShape DEF DiskOK
<1>4. /\ w \in [step : Steps, fetch : SUBSET Frame, writing : SUBSET Frame]
      /\ w.step \in {"waiting", "frames", "failing"} => ~Exists(s)
      /\ w.step \in {"waiting", "meta", "over"} => w.writing = {}
      /\ w.step = "frames" => \A f \in Frame : f \in w.fetch \cup w.writing \/ image[s][f] = "ok"
      /\ w.step = "meta" => Whole(s)
  BY <1>1, <1>2, PullingShape DEF Pulled
<1>5. SUFFICES /\ \A x \in Sequences : x # s => meta'[x] = meta[x] /\ image'[x] = image[x]
               /\ DiskOK' /\ Pulled(i)'
  BY <1>1, <1>2, OthersAsBefore
<1>6. new_seqs'[i] = s
  BY <1>1, <1>2
<1>7. CASE Take(i)
  <2>1. w.step = "waiting" /\ work'[i] = [step |-> "frames", fetch |-> Frame, writing |-> {}]
        /\ image' = image /\ meta' = meta
    BY <1>2, <1>7 DEF Take, At, disk
  <2>2. Pulled(i)'
    BY <1>4, <1>6, <2>1 DEF Pulled, Steps, Exists, Whole
  <2> QED BY <1>3, <2>1, <2>2 DEF DiskOK, Exists, Whole
<1>8. ASSUME NEW f \in Frame, OpenFrame(i, f)
      PROVE  /\ \A x \in Sequences : x # s => meta'[x] = meta[x] /\ image'[x] = image[x]
             /\ DiskOK' /\ Pulled(i)'
  <2>1. /\ w.step \in {"frames", "failing"} /\ f \in w.fetch
        /\ work'[i] = [w EXCEPT !.fetch = w.fetch \ {f}, !.writing = w.writing \cup {f}]
        /\ image' = [image EXCEPT ![s][f] = "partial"] /\ meta' = meta
    BY <1>2, <1>8 DEF OpenFrame, At
  <2>2. /\ image' \in [Sequences -> [Frame -> FileStates]]
        /\ \A x \in Sequences : x # s => image'[x] = image[x]
        /\ \A g \in Frame : g # f => image'[s][g] = image[s][g]
    <3>1. PICK r : r = [image[s] EXCEPT ![f] = "partial"]
      OBVIOUS
    <3>2. image' = [image EXCEPT ![s] = r]
      BY <2>1, <3>1
    <3>3. image[s] \in [Frame -> FileStates] /\ "partial" \in FileStates
      BY <1>2, <1>3 DEF FileStates
    <3>4. r \in [Frame -> FileStates] /\ r[f] = "partial" /\ \A g \in Frame : g # f => r[g] = image[s][g]
      BY <3>1, <3>3
    <3>5. image' \in [Sequences -> [Frame -> FileStates]] /\ image'[s] = r
          /\ \A x \in Sequences : x # s => image'[x] = image[x]
      BY <1>2, <1>3, <3>2, <3>4
    <3> QED BY <3>4, <3>5
  <2>3. ~Exists(s)
    BY <1>4, <2>1
  <2>4. DiskOK'
    BY <1>3, <2>1, <2>2, <2>3 DEF DiskOK, Exists, Whole
  <2>5. Pulled(i)'
    <3>1. PICK v : v = work'[i]
      OBVIOUS
    <3>2. /\ v \in [step : Steps, fetch : SUBSET Frame, writing : SUBSET Frame]
          /\ v.step = w.step /\ v.fetch = w.fetch \ {f} /\ v.writing = w.writing \cup {f}
      <4>1. w = [step |-> w.step, fetch |-> w.fetch, writing |-> w.writing]
        BY <1>4
      <4>2. v = [step |-> w.step, fetch |-> w.fetch \ {f}, writing |-> w.writing \cup {f}]
        BY <2>1, <3>1, <4>1
      <4>3. w.step \in Steps /\ w.fetch \ {f} \in SUBSET Frame /\ w.writing \cup {f} \in SUBSET Frame
        BY <1>4
      <4> QED BY <4>2, <4>3
    <3>3. v.step \in {"frames", "failing"} /\ ~Exists(s)'
      BY <2>1, <2>3, <3>2 DEF Exists
    <3>4. v.step = "frames" => \A g \in Frame : g \in v.fetch \cup v.writing \/ image'[s][g] = "ok"
      BY <1>4, <2>2, <3>2
    <3> QED BY <1>6, <3>1, <3>2, <3>3, <3>4 DEF Pulled, Exists
  <2> QED BY <2>1, <2>2, <2>4, <2>5
<1>9. ASSUME NEW f \in Frame, WriteFrame(i, f)
      PROVE  /\ \A x \in Sequences : x # s => meta'[x] = meta[x] /\ image'[x] = image[x]
             /\ DiskOK' /\ Pulled(i)'
  <2>1. /\ f \in w.writing /\ work'[i] = [w EXCEPT !.writing = w.writing \ {f}]
        /\ image' = [image EXCEPT ![s][f] = "ok"] /\ meta' = meta
    BY <1>2, <1>9 DEF WriteFrame
  <2>2. w.step \in {"frames", "failing"}
    BY <1>4, <2>1 DEF Steps
  <2>3. /\ image' \in [Sequences -> [Frame -> FileStates]]
        /\ \A x \in Sequences : x # s => image'[x] = image[x]
        /\ \A g \in Frame : g # f => image'[s][g] = image[s][g]
        /\ image'[s][f] = "ok"
    <3>1. PICK r : r = [image[s] EXCEPT ![f] = "ok"]
      OBVIOUS
    <3>2. image' = [image EXCEPT ![s] = r]
      BY <2>1, <3>1
    <3>3. image[s] \in [Frame -> FileStates] /\ "ok" \in FileStates
      BY <1>2, <1>3 DEF FileStates
    <3>4. r \in [Frame -> FileStates] /\ r[f] = "ok" /\ \A g \in Frame : g # f => r[g] = image[s][g]
      BY <3>1, <3>3
    <3>5. image' \in [Sequences -> [Frame -> FileStates]] /\ image'[s] = r
          /\ \A x \in Sequences : x # s => image'[x] = image[x]
      BY <1>2, <1>3, <3>2, <3>4
    <3> QED BY <3>4, <3>5
  <2>4. ~Exists(s)
    BY <1>4, <2>2
  <2>5. DiskOK'
    BY <1>3, <2>1, <2>3, <2>4 DEF DiskOK, Exists, Whole
  <2>6. Pulled(i)'
    <3>1. PICK v : v = work'[i]
      OBVIOUS
    <3>2. /\ v \in [step : Steps, fetch : SUBSET Frame, writing : SUBSET Frame]
          /\ v.step = w.step /\ v.fetch = w.fetch /\ v.writing = w.writing \ {f}
      BY <1>4, <2>1, <3>1
    <3>3. v.step \in {"frames", "failing"} /\ ~Exists(s)'
      BY <2>1, <2>2, <2>4, <3>2 DEF Exists
    <3>4. v.step = "frames" => \A g \in Frame : g \in v.fetch \cup v.writing \/ image'[s][g] = "ok"
      BY <1>4, <2>3, <3>2
    <3> QED BY <1>6, <3>1, <3>2, <3>3, <3>4 DEF Pulled, Exists
  <2> QED BY <2>1, <2>3, <2>5, <2>6
<1>10. CASE FailFrame(i)
  <2>1. PICK begun \in SUBSET w.fetch : work'[i] = [w EXCEPT !.step = "failing", !.fetch = begun]
    BY <1>2, <1>10 DEF FailFrame
  <2>2. w.step = "frames" /\ image' = image /\ meta' = meta
    BY <1>2, <1>10 DEF FailFrame, At, disk
  <2>3. Pulled(i)'
    BY <1>4, <1>6, <2>1, <2>2 DEF Pulled, Steps, Exists
  <2> QED BY <1>3, <2>2, <2>3 DEF DiskOK, Exists, Whole
<1>11. CASE GiveUp(i)
  <2>1. /\ w.step = "failing" /\ w.writing = {} /\ work'[i] = [w EXCEPT !.step = "over"]
        /\ image' = image /\ meta' = meta
    BY <1>2, <1>11 DEF GiveUp, At, Move, disk
  <2>2. Pulled(i)'
    BY <1>4, <1>6, <2>1 DEF Pulled, Steps, Exists
  <2> QED BY <1>3, <2>1, <2>2 DEF DiskOK, Exists, Whole
<1>12. CASE OpenMeta(i)
  <2>1. /\ w.step = "frames" /\ w.fetch = {} /\ w.writing = {} /\ work'[i] = [w EXCEPT !.step = "meta"]
        /\ meta' = [meta EXCEPT ![s] = "partial"] /\ image' = image
    BY <1>2, <1>12 DEF OpenMeta, At, Move
  <2>2. Whole(s)
    BY <1>4, <2>1 DEF Whole
  <2>3. meta' \in [Sequences -> FileStates] /\ \A x \in Sequences : x # s => meta'[x] = meta[x]
    BY <1>3, <2>1 DEF FileStates
  <2>4. DiskOK'
    BY <1>3, <2>1, <2>2, <2>3 DEF DiskOK, Exists, Whole
  <2>5. Pulled(i)'
    BY <1>4, <1>6, <2>1, <2>2 DEF Pulled, Steps, Whole
  <2> QED BY <2>1, <2>3, <2>4, <2>5
<1>13. CASE WriteMeta(i)
  <2>1. /\ w.step = "meta" /\ work'[i] = [w EXCEPT !.step = "over"]
        /\ meta' = [meta EXCEPT ![s] = "ok"] /\ image' = image
    BY <1>2, <1>13 DEF WriteMeta, At, Move
  <2>2. meta' \in [Sequences -> FileStates] /\ \A x \in Sequences : x # s => meta'[x] = meta[x]
    BY <1>3, <2>1 DEF FileStates
  <2>3. DiskOK'
    BY <1>3, <1>4, <2>1, <2>2 DEF DiskOK, Exists, Whole
  <2>4. Pulled(i)'
    BY <1>4, <1>6, <2>1 DEF Pulled, Steps
  <2> QED BY <2>1, <2>2, <2>3, <2>4
<1> QED BY <1>7, <1>8, <1>9, <1>10, <1>11, <1>12, <1>13 DEF OneStep

LEMMA NextPull == PullInv /\ [PullNext]_pullVars => PullInv'
<1> SUFFICES ASSUME PullInv, [PullNext]_pullVars PROVE PullInv'
  OBVIOUS
<1>1. CASE UNCHANGED pullVars
  BY <1>1 DEF pullVars, disk, PullInv, BacklogOK, DiskOK, Distinct, Exists, Whole, Listed, Pulled
<1>2. CASE ListPage
  BY <1>2, ListKeeps
<1>3. CASE Run
  BY <1>3, RunKeeps
<1>4. CASE Finish \/ KillPull
  BY <1>4, StopKeeps DEF Finish, KillPull
<1>5. CASE Arrive \/ \E i \in DOMAIN queue : Annotate(i)
  BY <1>5, BacklogChanges
<1>6. ASSUME NEW i \in DOMAIN work, OneStep(i) PROVE PullInv'
  <2>1. CASE drift
    <3>1. pc' = pc /\ drift' = drift /\ pc = "pull"
      BY <1>6 DEF OneStep, Take, OpenFrame, WriteFrame, FailFrame, GiveUp, OpenMeta, WriteMeta, At
    <3> QED BY <2>1, <3>1 DEF PullInv
  <2>2. CASE ~drift
    BY <1>6, <2>2, OneKeeps
  <2> QED BY <2>1, <2>2
<1> QED BY <1>1, <1>2, <1>3, <1>4, <1>5, <1>6 DEF PullNext, PullStep, OneStep

\* pull: between two runs a meta.json means that every frame of the sequence is on disk whole,
\* whatever was killed, failed and pulled again, for any number of sequences, frames, workers
\* and pages, as long as the backlog stands still while it is listed.
THEOREM PresenceIsComplete == PullSpec => []PresenceMarksComplete
<1>1. PullInv => PresenceMarksComplete
  BY DEF PullInv, DiskOK, PresenceMarksComplete, Exists
<1> QED BY <1>1, InitPull, NextPull, PTL DEF PullSpec

=============================================================================
