--------------------------- MODULE Monitor_proofs ---------------------------
(***************************************************************************)
(* What the store of the monitor holds, and what a replay reports of it,   *)
(* for any number of sequences, names, versions, events and kills.         *)
(***************************************************************************)
EXTENDS Monitor, TLAPS, Sequences, SequenceTheorems, WellFoundedInduction

RangeOf(s) == {s[k] : k \in DOMAIN s}
IsSeq(s) == s \in Seq(RangeOf(s))

IsDir(d) == d = [meta |-> d.meta, images |-> d.images, torn |-> d.torn]
None == Importer!None
Dirs(s) == {h \in Home : store[s][h].meta # None}

Shaped ==
  /\ store = [s \in Sequence |-> store[s]]
  /\ \A s \in Sequence : store[s] = [h \in Home |-> store[s][h]]
  /\ \A s \in Sequence : \A h \in Home : IsDir(store[s][h])

\* The detections of a sequence that is imported are on disk or still to be fetched.
Busy ==
  /\ job.step \in {"purge", "fetch"}
  /\ job = [step |-> job.step, force |-> job.force, home |-> job.home, listed |-> job.listed,
            todo |-> job.todo, seq |-> job.seq, left |-> job.left, meta |-> job.meta]
  /\ job.home \in Home /\ job.seq \in Sequence
  /\ job.force => forced
  /\ ~job.force => Dirs(job.seq) = {}
  /\ IsSeq(job.left)
  /\ job.step = "purge" => RangeOf(job.meta.dets) \subseteq RangeOf(job.left)
  /\ job.step = "fetch" =>
       /\ Dirs(job.seq) \subseteq {job.home}
       /\ RangeOf(job.meta.dets) \subseteq RangeOf(job.left) \cup store[job.seq][job.home].images

Between == job.step = "next" /\ job.home \in Home /\ (job.force => forced)

Whole(s, h) ==
  store[s][h].meta \notin {None, Importer!Cut} =>
    RangeOf(store[s][h].meta.dets) \subseteq store[s][h].images

StoreInv ==
  /\ kills \in Nat
  /\ home \in Home
  /\ boxes = [s \in Sequence |-> boxes[s]] /\ \A s \in Sequence : IsSeq(boxes[s])
  /\ Shaped
  /\ job.step = "none" \/ Between \/ Busy
  /\ \A s \in Sequence : \A g, h \in Dirs(s) : g = h
  /\ (forced => kills = 0) => \A s \in Sequence, h \in Home : Whole(s, h)
-----------------------------------------------------------------------------
\* Data facts.

LEMMA SeqParts ==
  ASSUME NEW s, IsSeq(s), s # <<>>
  PROVE  /\ IsSeq(Tail(s)) /\ RangeOf(s) = RangeOf(Tail(s)) \cup {Head(s)}
<1> DEFINE S == RangeOf(s)
           n == Len(s)
           t == Tail(s)
<1>1. s \in Seq(S)
  BY DEF IsSeq
<1> HIDE DEF S
<1>2. n \in Nat /\ n > 0 /\ DOMAIN s = 1..n
  BY <1>1
<1>3. t \in Seq(S) /\ Len(t) = n - 1 /\ \A k \in 1..Len(t) : t[k] = s[k + 1]
  BY <1>1, HeadTailProperties
<1>4. DOMAIN t = 1..(n - 1)
  BY <1>2, <1>3
<1>5. Head(s) = s[1]
  BY <1>1, <1>2
<1> HIDE DEF n, t
<1>6. RangeOf(s) = RangeOf(t) \cup {s[1]}
  <2>1. ASSUME NEW k \in 1..n PROVE s[k] \in RangeOf(t) \cup {s[1]}
    <3>1. CASE k # 1
      <4>1. k - 1 \in 1..(n - 1) /\ (k - 1) + 1 = k
        BY <1>2, <3>1
      <4>2. t[k - 1] = s[k]
        BY <1>3, <4>1
      <4> QED BY <1>4, <4>1, <4>2 DEF RangeOf
    <3> QED BY <3>1
  <2>2. ASSUME NEW k \in 1..(n - 1) PROVE t[k] \in RangeOf(s)
    <3>1. k + 1 \in 1..n /\ k \in 1..Len(t)
      BY <1>2, <1>3
    <3>2. t[k] = s[k + 1]
      BY <1>3, <3>1
    <3> QED BY <1>2, <3>1, <3>2 DEF RangeOf
  <2>3. s[1] \in RangeOf(s)
    <3>1. 1 \in DOMAIN s
      BY <1>2
    <3> QED BY <3>1 DEF RangeOf
  <2>4. RangeOf(s) \subseteq RangeOf(t) \cup {s[1]}
    BY <1>2, <2>1 DEF RangeOf
  <2>5. RangeOf(t) \subseteq RangeOf(s)
    BY <1>4, <2>2 DEF RangeOf
  <2> QED BY <2>3, <2>4, <2>5
<1>7. t \in Seq(RangeOf(t))
  BY <1>2, <1>3, <1>4 DEF RangeOf
<1> QED BY <1>5, <1>6, <1>7 DEF IsSeq, t

LEMMA SeqAppend ==
  ASSUME NEW s, IsSeq(s), NEW d
  PROVE  IsSeq(Append(s, d))
<1> DEFINE S == RangeOf(s) \cup {d}
           t == Append(s, d)
           n == Len(s)
<1>1. s \in Seq(RangeOf(s))
  BY DEF IsSeq
<1>2. s \in Seq(S)
  <2>1. RangeOf(s) \subseteq S
    OBVIOUS
  <2> HIDE DEF S
  <2> QED BY <1>1, <2>1, SeqMonotonic
<1>3. d \in S
  OBVIOUS
<1> HIDE DEF S
<1>4. t \in Seq(S) /\ Len(t) = n + 1 /\ n \in Nat
  BY <1>2, <1>3, AppendProperties
<1> HIDE DEF t
<1>5. DOMAIN t = 1..(n + 1) /\ \A k \in 1..(n + 1) : t[k] \in RangeOf(t)
  BY <1>4 DEF RangeOf
<1>6. t = [k \in 1..(n + 1) |-> t[k]]
  BY <1>4, <1>5
<1>7. t \in Seq(RangeOf(t))
  BY <1>4, <1>5, <1>6
<1> QED BY <1>7 DEF IsSeq, t

\* One directory is replaced by another.
LEMMA OneDir ==
  ASSUME Shaped, NEW s \in Sequence, NEW h \in Home, NEW d, IsDir(d),
         store' = [store EXCEPT ![s][h] = d]
  PROVE  /\ Shaped'
         /\ store'[s][h] = d
         /\ \A g \in Home : g # h => store'[s][g] = store[s][g]
         /\ \A t \in Sequence : t # s => store'[t] = store[t]
<1>1. /\ store = [t \in Sequence |-> store[t]] /\ store[s] = [g \in Home |-> store[s][g]]
  BY DEF Shaped
<1>2. /\ store'[s] = [g \in Home |-> IF g = h THEN d ELSE store[s][g]]
      /\ store' = [t \in Sequence |-> store'[t]]
      /\ \A t \in Sequence : t # s => store'[t] = store[t]
  BY <1>1
<1> QED BY <1>2 DEF Shaped, IsDir
-----------------------------------------------------------------------------
LEMMA InitStore == Init => StoreInv
<1> SUFFICES ASSUME Init PROVE StoreInv
  OBVIOUS
<1> USE DEF Init, Importer!Init
<1>1. \A s \in Sequence : \A h \in Home : store[s][h] = Importer!NoDir
  OBVIOUS
<1>2. Shaped
  BY DEF Shaped, IsDir, Importer!NoDir
<1>3. \A s \in Sequence : Dirs(s) = {}
  BY <1>1 DEF Dirs, None, Importer!NoDir
<1>4. \A s \in Sequence, h \in Home : Whole(s, h)
  BY <1>1 DEF Whole, None, Importer!NoDir
<1>5. IsSeq(<<Importer!Detection(1, 1)>>)
  <2> DEFINE d == Importer!Detection(1, 1)
  <2> HIDE DEF d
  <2>1. <<d>> \in Seq({d}) /\ RangeOf(<<d>>) = {d}
    BY DEF RangeOf
  <2> QED BY <2>1 DEF IsSeq, d
<1>6. job.step = "none"
  BY DEF Importer!NoJob
<1> QED BY <1>2, <1>3, <1>4, <1>5, <1>6 DEF StoreInv

\* Production changes what the alert API answers, and nothing of the monitor.
LEMMA ProductionStore == ASSUME StoreInv, Production PROVE StoreInv'
<1>1. kills' = kills /\ store' = store /\ forced' = forced /\ job' = job
  BY DEF Production, Importer!Detect, Importer!Rate, Importer!Rename, Importer!Event
<1>2. home' \in Home
  BY DEF Production, Importer!Detect, Importer!Rate, Importer!Rename, StoreInv
<1>3. boxes' = [s \in Sequence |-> boxes'[s]] /\ \A s \in Sequence : IsSeq(boxes'[s])
  <2>1. ASSUME NEW s, NEW d, boxes' = [boxes EXCEPT ![s] = Append(boxes[s], d)]
        PROVE  boxes' = [t \in Sequence |-> boxes'[t]] /\ \A t \in Sequence : IsSeq(boxes'[t])
    <3>1. \A t \in Sequence : boxes'[t] = IF t = s THEN Append(boxes[s], d) ELSE boxes[t]
      BY <2>1 DEF StoreInv
    <3>2. \A t \in Sequence : IsSeq(boxes'[t])
      BY <3>1, SeqAppend DEF StoreInv
    <3> QED BY <2>1, <3>2 DEF StoreInv
  <2>2. CASE boxes' = boxes
    BY <2>2 DEF StoreInv
  <2> QED BY <2>1, <2>2 DEF Production, Importer!Detect, Importer!Rate, Importer!Rename
<1>4. job'.step = "none" \/ Between' \/ Busy'
  BY <1>1 DEF StoreInv, Between, Busy, Dirs
<1>5. Shaped'
  BY <1>1 DEF StoreInv, Shaped
<1>6. /\ kills' \in Nat
      /\ \A s \in Sequence : \A g, h \in Dirs(s)' : g = h
      /\ (forced' => kills' = 0) => \A s \in Sequence, h \in Home : Whole(s, h)'
  BY <1>1 DEF StoreInv, Whole, Dirs
<1> QED BY <1>2, <1>3, <1>4, <1>5, <1>6 DEF StoreInv

\* A step of the import that leaves the directories alone.
LEMMA JobOnly ==
  ASSUME StoreInv, UNCHANGED <<home, boxes, kills, store, forced>>,
         job'.step = "none" \/ Between' \/ Busy'
  PROVE  StoreInv'
BY DEF StoreInv, Shaped, Whole, Dirs

LEMMA StartStore == ASSUME StoreInv, NEW force \in BOOLEAN, Importer!Start(force) PROVE StoreInv'
<1>1. /\ UNCHANGED <<home, boxes, kills, store>> /\ forced' = (forced \/ force)
      /\ job'.step = "next" /\ job'.home = home /\ job'.force = force
  BY DEF Importer!Start, Importer!alerts
<1>2. Between'
  BY <1>1 DEF Between, StoreInv
<1>3. (forced' => kills' = 0) => (forced => kills = 0)
  BY <1>1
<1> QED BY <1>1, <1>2, <1>3 DEF StoreInv, Shaped, Whole, Dirs

\* The import of a sequence is over, for whatever reason.
LEMMA OverBetween ==
  ASSUME Between \/ Busy, NEW s, Importer!Over(s), forced' = forced
  PROVE  Between'
BY DEF Importer!Over, Between, Busy

LEMMA SkipStore == ASSUME StoreInv, NEW s \in Sequence, Importer!Skip(s) PROVE StoreInv'
<1>1. UNCHANGED <<home, boxes, kills, store, forced>> /\ Importer!Over(s) /\ job.step = "next"
  BY DEF Importer!Skip, Importer!alerts, Importer!IsNext, Importer!Importing
<1>2. Between'
  BY <1>1, OverBetween DEF StoreInv, Busy
<1> QED BY <1>1, <1>2, JobOnly

LEMMA FailsStore == ASSUME StoreInv, NEW s \in Sequence, Importer!Fails(s) PROVE StoreInv'
<1>1. UNCHANGED <<home, boxes, kills, store, forced>> /\ Importer!Over(s)
      /\ job.step \in {"next", "fetch"}
  BY DEF Importer!Fails, Importer!alerts, Importer!IsNext, Importer!Importing
<1>2. Between'
  BY <1>1, OverBetween DEF StoreInv
<1> QED BY <1>1, <1>2, JobOnly

LEMMA DoneStore == ASSUME StoreInv, Importer!Done PROVE StoreInv'
BY JobOnly DEF Importer!Done, Importer!alerts, Importer!NoJob

\* Nothing of the sequence is there yet, or the import is forced.
LEMMA BeginStore == ASSUME StoreInv, NEW s \in Sequence, Importer!Begin(s) PROVE StoreInv'
<1>1. /\ UNCHANGED <<home, boxes, kills, store, forced>> /\ job.step = "next"
      /\ job.force \/ ~Importer!Exists(s)
      /\ job' = [step |-> "purge", force |-> job.force, home |-> job.home, listed |-> job.listed,
                 todo |-> job.todo, seq |-> s, left |-> boxes[s],
                 meta |-> [dets |-> boxes[s], score |-> job.listed[s]]]
  BY DEF Importer!Begin, Importer!alerts, Importer!IsNext, Importer!Importing
<1>2. Between
  BY <1>1 DEF StoreInv, Busy
<1>3. ~job.force => Dirs(s) = {}
  BY <1>1 DEF Importer!Exists, Importer!MetaDirs, Dirs, None
<1>4. Dirs(s)' = Dirs(s)
  BY <1>1 DEF Dirs
<1>5. IsSeq(boxes[s])
  BY DEF StoreInv
<1>6. Busy'
  <2>1. /\ job'.step = "purge" /\ job'.seq = s /\ job'.home = job.home /\ job'.force = job.force
        /\ job'.left = boxes[s] /\ job'.meta.dets = boxes[s]
        /\ job' = [step |-> job'.step, force |-> job'.force, home |-> job'.home,
                   listed |-> job'.listed, todo |-> job'.todo, seq |-> job'.seq,
                   left |-> job'.left, meta |-> job'.meta]
    BY <1>1
  <2> QED BY <2>1, <1>1, <1>2, <1>3, <1>4, <1>5 DEF Busy, Between
<1> QED BY <1>1, <1>6, JobOnly

\* The directories of one sequence are replaced.
LEMMA OneSequence ==
  ASSUME Shaped, NEW s \in Sequence, NEW f, f = [h \in Home |-> f[h]],
         \A h \in Home : IsDir(f[h]), store' = [store EXCEPT ![s] = f]
  PROVE  /\ Shaped'
         /\ store'[s] = f
         /\ \A t \in Sequence : t # s => store'[t] = store[t]
<1>1. store = [t \in Sequence |-> store[t]]
  BY DEF Shaped
<1>2. /\ store'[s] = f
      /\ store' = [t \in Sequence |-> store'[t]]
      /\ \A t \in Sequence : t # s => store'[t] = store[t]
  BY <1>1
<1> QED BY <1>2 DEF Shaped, IsDir

LEMMA RemoveStore == ASSUME StoreInv, Importer!RemoveStale PROVE StoreInv'
<1>1. /\ UNCHANGED <<home, boxes, kills, forced>> /\ job.step = "purge"
      /\ job' = [job EXCEPT !.step = "fetch"] /\ Importer!Purge
  BY DEF Importer!RemoveStale, Importer!alerts, Importer!Importing
<1>2. Busy
  BY <1>1 DEF StoreInv, Between
<1>3. job' = [step |-> "fetch", force |-> job.force, home |-> job.home, listed |-> job.listed,
              todo |-> job.todo, seq |-> job.seq, left |-> job.left, meta |-> job.meta]
  BY <1>1, <1>2 DEF Busy
<1>4. PICK s \in Sequence, k \in Home : s = job.seq /\ k = job.home
  BY <1>2 DEF Busy
<1>5. PICK f : f = [h \in Home |-> IF h \in Importer!Stale THEN Importer!NoDir ELSE store[s][h]]
  OBVIOUS
<1>6. store' = [store EXCEPT ![s] = f]
  <2>1. store[s] = [h \in Home |-> store[s][h]]
    BY DEF StoreInv, Shaped
  <2> QED BY <1>1, <1>4, <1>5, <2>1 DEF Importer!Purge
<1>7. \A h \in Home : h \in Importer!Stale <=> h \in Dirs(s) /\ h # k
  BY <1>4 DEF Importer!Stale, Importer!MetaDirs, Dirs, None
<1>8. IsDir(Importer!NoDir) /\ Importer!NoDir.meta = None
  BY DEF IsDir, Importer!NoDir, None
<1>9. \A h \in Home : IsDir(f[h])
  BY <1>5, <1>8 DEF StoreInv, Shaped
<1>10. f = [h \in Home |-> f[h]]
  BY <1>5
<1>11. /\ Shaped' /\ store'[s] = f
       /\ \A t \in Sequence : t # s => store'[t] = store[t]
  BY <1>6, <1>9, <1>10, OneSequence DEF StoreInv
<1>12. \A h \in Home : f[h] = store[s][h] \/ f[h] = Importer!NoDir
  BY <1>5
<1>13. \A h \in Home : f[h].meta # None => h = k /\ f[h] = store[s][h]
  BY <1>5, <1>7, <1>8 DEF Dirs
<1>14. f[k] = store[s][k]
  BY <1>5, <1>7
<1>15. \A t \in Sequence : \A g, h \in Home :
         store'[t][g].meta # None /\ store'[t][h].meta # None => g = h
  <2>1. \A g, h \in Home : store'[s][g].meta # None /\ store'[s][h].meta # None => g = h
    BY <1>11, <1>13
  <2>2. ASSUME NEW t \in Sequence, t # s, NEW g \in Home, NEW h \in Home,
               store'[t][g].meta # None, store'[t][h].meta # None
        PROVE  g = h
    BY <1>11, <2>2 DEF StoreInv, Dirs
  <2> QED BY <2>1, <2>2
<1>16. \A t \in Sequence : \A g, h \in Dirs(t)' : g = h
  BY <1>15 DEF Dirs, None
<1>17. Busy'
  <2>1. /\ job'.step = "fetch" /\ job'.seq = s /\ job'.home = k /\ job'.force = job.force
        /\ job'.left = job.left /\ job'.meta = job.meta
        /\ job' = [step |-> job'.step, force |-> job'.force, home |-> job'.home,
                   listed |-> job'.listed, todo |-> job'.todo, seq |-> job'.seq,
                   left |-> job'.left, meta |-> job'.meta]
    BY <1>3, <1>4
  <2>2. ~job.force => \A h \in Home : store[s][h].meta = None
    BY <1>2, <1>4 DEF Busy, Dirs
  <2>3. /\ ~job'.force => \A h \in Home : store'[s][h].meta = None
        /\ \A h \in Home : store'[s][h].meta # None => h = k
    BY <2>1, <2>2, <1>8, <1>11, <1>12, <1>13
  <2>4. (~job.force => Dirs(job.seq) = {})' /\ (Dirs(job.seq) \subseteq {job.home})'
    BY <2>1, <2>3 DEF Dirs, None
  <2>5. RangeOf(job.meta.dets) \subseteq RangeOf(job.left) \cup store'[s][k].images
    BY <1>1, <1>2 DEF Busy
  <2>6. (RangeOf(job.meta.dets) \subseteq RangeOf(job.left) \cup store[job.seq][job.home].images)'
    BY <2>1, <2>5
  <2>7. (job.force => forced)' /\ IsSeq(job.left)'
    BY <2>1, <1>1, <1>2 DEF Busy
  <2> QED BY <2>1, <2>4, <2>6, <2>7 DEF Busy
<1>18. \A t \in Sequence, h \in Home : Whole(t, h) => Whole(t, h)'
  <2>1. \A h \in Home : Whole(s, h) => Whole(s, h)'
    BY <1>8, <1>11, <1>12 DEF Whole
  <2>2. \A t \in Sequence : t # s => \A h \in Home : Whole(t, h) => Whole(t, h)'
    BY <1>11 DEF Whole
  <2> QED BY <2>1, <2>2
<1> QED BY <1>1, <1>11, <1>16, <1>17, <1>18 DEF StoreInv

LEMMA FetchStore == ASSUME StoreInv, Importer!Fetch PROVE StoreInv'
<1>1. /\ UNCHANGED <<home, boxes, kills, forced>> /\ job.step = "fetch" /\ job.left # <<>>
      /\ job' = [job EXCEPT !.left = Tail(@)]
      /\ store' = [store EXCEPT ![job.seq][job.home] = Importer!Written(Head(job.left))]
  BY DEF Importer!Fetch, Importer!alerts, Importer!Importing, Importer!WithDir
<1>2. Busy
  BY <1>1 DEF StoreInv, Between
<1>3. job' = [step |-> "fetch", force |-> job.force, home |-> job.home, listed |-> job.listed,
              todo |-> job.todo, seq |-> job.seq, left |-> Tail(job.left), meta |-> job.meta]
  BY <1>1, <1>2 DEF Busy
<1>4. PICK s \in Sequence, k \in Home : s = job.seq /\ k = job.home
  BY <1>2 DEF Busy
<1>5. PICK l : l = job.left
  OBVIOUS
<1>6. PICK o : o = store[s][k]
  OBVIOUS
<1>7. o = [meta |-> o.meta, images |-> o.images, torn |-> o.torn]
  BY <1>6 DEF StoreInv, Shaped, IsDir
<1>8. PICK d : d = [meta |-> o.meta, images |-> o.images \cup {Head(l)}, torn |-> o.torn \ {Head(l)}]
  OBVIOUS
<1>9. d.meta = o.meta /\ d.images = o.images \cup {Head(l)} /\ IsDir(d)
  BY <1>8 DEF IsDir
<1>10. store' = [store EXCEPT ![s][k] = d]
  <2>1. Importer!Dir = o
    BY <1>4, <1>6 DEF Importer!Dir
  <2>2. Importer!Written(Head(job.left)) = d
    BY <2>1, <1>5, <1>8 DEF Importer!Written
  <2> QED BY <1>1, <1>4, <2>2
<1>11. /\ Shaped'
       /\ store'[s][k] = d
       /\ \A g \in Home : g # k => store'[s][g] = store[s][g]
       /\ \A t \in Sequence : t # s => store'[t] = store[t]
  BY <1>9, <1>10, OneDir DEF StoreInv
<1>12. \A t \in Sequence, h \in Home :
         store'[t][h].meta = store[t][h].meta /\ store[t][h].images \subseteq store'[t][h].images
  BY <1>6, <1>9, <1>11
<1>13. \A t \in Sequence : \A g, h \in Dirs(t)' : g = h
  BY <1>12 DEF StoreInv, Dirs
<1>14. \A t \in Sequence, h \in Home : Whole(t, h) => Whole(t, h)'
  BY <1>12 DEF Whole
<1>15. IsSeq(Tail(l)) /\ RangeOf(l) = RangeOf(Tail(l)) \cup {Head(l)}
  BY <1>1, <1>2, <1>5, SeqParts DEF Busy
<1>16. Busy'
  <2>1. /\ job'.step = "fetch" /\ job'.seq = s /\ job'.home = k /\ job'.force = job.force
        /\ job'.left = Tail(l) /\ job'.meta = job.meta
        /\ job' = [step |-> job'.step, force |-> job'.force, home |-> job'.home,
                   listed |-> job'.listed, todo |-> job'.todo, seq |-> job'.seq,
                   left |-> job'.left, meta |-> job'.meta]
    BY <1>3, <1>4, <1>5
  <2>2. Dirs(job.seq)' = Dirs(job.seq)
    BY <2>1, <1>4, <1>12 DEF Dirs
  <2>3. (~job.force => Dirs(job.seq) = {})' /\ (Dirs(job.seq) \subseteq {job.home})'
    BY <2>1, <2>2, <1>1, <1>2, <1>4 DEF Busy
  <2>4. RangeOf(job.meta.dets) \subseteq RangeOf(l) \cup o.images
    BY <1>1, <1>2, <1>4, <1>5, <1>6 DEF Busy
  <2>5. RangeOf(job.meta.dets) \subseteq RangeOf(Tail(l)) \cup d.images
    BY <2>4, <1>9, <1>15
  <2>6. (RangeOf(job.meta.dets) \subseteq RangeOf(job.left) \cup store[job.seq][job.home].images)'
    BY <2>1, <2>5, <1>11
  <2>7. (job.force => forced)' /\ IsSeq(job.left)'
    BY <2>1, <1>1, <1>2, <1>15 DEF Busy
  <2> QED BY <2>1, <2>3, <2>6, <2>7 DEF Busy
<1> QED BY <1>1, <1>11, <1>13, <1>14, <1>16 DEF StoreInv

\* All the detections are on disk when the meta.json that names them is written.
LEMMA WriteMetaStore == ASSUME StoreInv, Importer!WriteMeta PROVE StoreInv'
<1>1. /\ UNCHANGED <<home, boxes, kills, forced>> /\ job.step = "fetch" /\ job.left = <<>>
      /\ Importer!Over(job.seq)
      /\ store' = [store EXCEPT ![job.seq][job.home] = [Importer!Dir EXCEPT !.meta = job.meta]]
  BY DEF Importer!WriteMeta, Importer!alerts, Importer!Importing, Importer!WithDir
<1>2. Busy
  BY <1>1 DEF StoreInv, Between
<1>3. PICK s \in Sequence, k \in Home : s = job.seq /\ k = job.home
  BY <1>2 DEF Busy
<1>4. PICK o : o = store[s][k]
  OBVIOUS
<1>5. o = [meta |-> o.meta, images |-> o.images, torn |-> o.torn]
  BY <1>4 DEF StoreInv, Shaped, IsDir
<1>6. PICK m : m = job.meta
  OBVIOUS
<1>7. PICK d : d = [meta |-> m, images |-> o.images, torn |-> o.torn]
  OBVIOUS
<1>8. d.meta = m /\ d.images = o.images /\ IsDir(d)
  BY <1>7 DEF IsDir
<1>9. store' = [store EXCEPT ![s][k] = d]
  <2>1. [Importer!Dir EXCEPT !.meta = job.meta] = d
    BY <1>3, <1>4, <1>5, <1>6, <1>7 DEF Importer!Dir
  <2> QED BY <1>1, <1>3, <2>1
<1>10. /\ Shaped'
       /\ store'[s][k] = d
       /\ \A g \in Home : g # k => store'[s][g] = store[s][g]
       /\ \A t \in Sequence : t # s => store'[t] = store[t]
  BY <1>8, <1>9, OneDir DEF StoreInv
<1>11. \A g \in Home : store[s][g].meta # None => g = k
  BY <1>1, <1>2, <1>3 DEF Busy, Dirs
<1>12. \A g \in Home : store'[s][g].meta # None => g = k
  BY <1>10, <1>11
<1>13. \A t \in Sequence : \A g, h \in Dirs(t)' : g = h
  <2>1. \A g, h \in Dirs(s)' : g = h
    BY <1>12 DEF Dirs, None
  <2>2. \A t \in Sequence : t # s => \A g, h \in Dirs(t)' : g = h
    BY <1>10 DEF StoreInv, Dirs
  <2> QED BY <2>1, <2>2
<1>14. RangeOf(m.dets) \subseteq d.images
  <2>1. RangeOf(job.left) = {}
    BY <1>1 DEF RangeOf
  <2> QED BY <1>1, <1>2, <1>3, <1>4, <1>6, <1>8, <2>1 DEF Busy
<1>15. \A t \in Sequence, h \in Home : Whole(t, h) => Whole(t, h)'
  <2>1. Whole(s, k)'
    BY <1>8, <1>10, <1>14 DEF Whole
  <2>2. \A h \in Home : h # k => (Whole(s, h) => Whole(s, h)')
    BY <1>10 DEF Whole
  <2>3. \A t \in Sequence : t # s => \A h \in Home : Whole(t, h) => Whole(t, h)'
    BY <1>10 DEF Whole
  <2> QED BY <2>1, <2>2, <2>3
<1>16. Between'
  BY <1>1, <1>2, OverBetween
<1> QED BY <1>1, <1>10, <1>13, <1>15, <1>16 DEF StoreInv

\* A kill while stale directories are removed: they may keep their meta.json.
KilledPurge(s, f) ==
  /\ f = [h \in Home |-> f[h]]
  /\ \A h \in Home : \/ f[h] = store[s][h]
                     \/ f[h] \in Importer!Leftovers(store[s][h])
  /\ store' = [store EXCEPT ![s] = f]
\* A kill while a file is written: an image, or the meta.json.
KilledFetch(s, k) ==
  LET o == store[s][k]
      e == Head(job.left)
  IN  store' = [store EXCEPT ![s][k] =
                  [meta |-> o.meta, images |-> o.images \ {e}, torn |-> o.torn \cup {e}]]
KilledMeta(s, k) ==
  store' = [store EXCEPT ![s][k] = [store[s][k] EXCEPT !.meta = Importer!Cut]]

LEMMA Interrupts ==
  ASSUME StoreInv, store' \in Importer!Interrupted
  PROVE  \/ store' = store
         \/ Busy /\ job.step = "purge" /\ \E f : KilledPurge(job.seq, f)
         \/ Busy /\ job.step = "fetch" /\ KilledFetch(job.seq, job.home)
         \/ Busy /\ job.step = "fetch" /\ KilledMeta(job.seq, job.home)
<1>1. job.step \in {"purge", "fetch"} => Busy
  BY DEF StoreInv, Between
<1>2. CASE job.step = "purge"
  <2>1. PICK f : /\ store' = [store EXCEPT ![job.seq] = f]
                 /\ f \in [Home -> UNION {Importer!Leftovers(store[job.seq][h]) : h \in Home}]
                 /\ \A h \in Home : IF h \in Importer!Stale
                                    THEN f[h] \in Importer!Leftovers(store[job.seq][h])
                                    ELSE f[h] = store[job.seq][h]
    BY <1>2 DEF Importer!Interrupted
  <2>2. f = [h \in Home |-> f[h]]
    BY <2>1
  <2>3. KilledPurge(job.seq, f)
    BY <2>1, <2>2 DEF KilledPurge
  <2> QED BY <1>1, <1>2, <2>3
<1>3. CASE job.step = "fetch" /\ job.left # <<>>
  BY <1>1, <1>3 DEF Importer!Interrupted, Importer!WithDir, Importer!Dir, KilledFetch
<1>4. CASE job.step = "fetch" /\ job.left = <<>>
  BY <1>1, <1>4 DEF Importer!Interrupted, Importer!WithDir, Importer!Dir, KilledMeta
<1>5. CASE job.step \notin {"purge", "fetch"}
  BY <1>5 DEF Importer!Interrupted
<1> QED BY <1>2, <1>3, <1>4, <1>5

\* The directory of a sequence has, after a kill, what it had or less.
Less(d, e) == IsDir(d) /\ d.meta \in {None, e.meta}

LEMMA LeftLess == ASSUME NEW e, NEW d \in Importer!Leftovers(e) PROVE Less(d, e)
<1>1. PICK m \in {None, e.meta}, i \in SUBSET e.images : d = [meta |-> m, images |-> i, torn |-> e.torn]
  BY DEF Importer!Leftovers, None
<1> QED BY <1>1 DEF Less, IsDir

Single   == \A s \in Sequence : \A g, h \in Dirs(s) : g = h
AllWhole == \A s \in Sequence, h \in Home : Whole(s, h)

LEMMA PurgeKilled ==
  ASSUME StoreInv, NEW s \in Sequence, ~forced => Dirs(s) = {}, NEW f, KilledPurge(s, f)
  PROVE  Shaped' /\ Single' /\ (~forced => AllWhole')
<1>1. \A h \in Home : Less(f[h], store[s][h])
  <2> SUFFICES ASSUME NEW h \in Home PROVE Less(f[h], store[s][h])
    OBVIOUS
  <2>1. PICK e : e = store[s][h]
    OBVIOUS
  <2>2. IsDir(e)
    BY <2>1 DEF StoreInv, Shaped
  <2>3. CASE f[h] = e
    BY <2>1, <2>2, <2>3 DEF Less
  <2>4. CASE f[h] \in Importer!Leftovers(e)
    BY <2>1, <2>4, LeftLess
  <2> QED BY <2>1, <2>3, <2>4 DEF KilledPurge
<1>2. /\ Shaped' /\ store'[s] = f
      /\ \A t \in Sequence : t # s => store'[t] = store[t]
  <2>1. Shaped /\ \A h \in Home : IsDir(f[h])
    BY <1>1 DEF StoreInv, Less
  <2> QED BY <2>1, OneSequence DEF KilledPurge
<1>3. \A t \in Sequence : \A h \in Home : store'[t][h].meta # None => store'[t][h].meta = store[t][h].meta
  BY <1>1, <1>2 DEF Less
<1>4. Single'
  BY <1>3 DEF Single, StoreInv, Dirs, None
<1>5. ASSUME ~forced PROVE AllWhole'
  <2>1. \A h \in Home : store[s][h].meta = None
    BY <1>5 DEF Dirs
  <2>2. \A h \in Home : store'[s][h].meta = None
    BY <1>3, <2>1
  <2>3. \A h \in Home : Whole(s, h)'
    BY <2>2 DEF Whole, None
  <2>4. \A t \in Sequence : t # s => \A h \in Home : Whole(t, h) => Whole(t, h)'
    BY <1>2 DEF Whole
  <2> QED BY <1>5, <2>3, <2>4 DEF AllWhole, StoreInv
<1> QED BY <1>2, <1>4, <1>5

\* The directory of the sequence had no meta.json, so that none names the image cut off.
LEMMA FetchKilled ==
  ASSUME StoreInv, NEW s \in Sequence, NEW k \in Home, ~forced => Dirs(s) = {}, KilledFetch(s, k)
  PROVE  Shaped' /\ Single' /\ (~forced => AllWhole')
<1>1. PICK d : d = [meta |-> store[s][k].meta, images |-> store[s][k].images \ {Head(job.left)},
                    torn |-> store[s][k].torn \cup {Head(job.left)}]
  OBVIOUS
<1>2. d.meta = store[s][k].meta /\ IsDir(d)
  BY <1>1 DEF IsDir
<1>3. /\ Shaped' /\ store'[s][k] = d
      /\ \A g \in Home : g # k => store'[s][g] = store[s][g]
      /\ \A t \in Sequence : t # s => store'[t] = store[t]
  <2>1. store' = [store EXCEPT ![s][k] = d]
    BY <1>1 DEF KilledFetch
  <2>2. Shaped /\ IsDir(d)
    BY <1>2 DEF StoreInv
  <2>3. store'[s][k] = d
    BY <2>1, <2>2 DEF Shaped
  <2> QED BY <2>1, <2>2, <2>3, OneDir
<1>4. \A t \in Sequence : \A h \in Home : store'[t][h].meta = store[t][h].meta
  BY <1>2, <1>3
<1>5. Single'
  BY <1>4 DEF Single, StoreInv, Dirs, None
<1>6. ASSUME ~forced PROVE AllWhole'
  <2>1. \A h \in Home : store[s][h].meta = None
    BY <1>6 DEF Dirs
  <2>2. \A h \in Home : Whole(s, h)'
    BY <1>4, <2>1 DEF Whole, None
  <2>3. \A t \in Sequence : t # s => \A h \in Home : Whole(t, h) => Whole(t, h)'
    BY <1>3 DEF Whole
  <2> QED BY <1>6, <2>2, <2>3 DEF AllWhole, StoreInv
<1> QED BY <1>3, <1>5, <1>6

\* No other directory has a meta.json while one is written, and one cut off names nothing.
LEMMA MetaKilled ==
  ASSUME StoreInv, NEW s \in Sequence, NEW k \in Home, Dirs(s) \subseteq {k}, KilledMeta(s, k)
  PROVE  Shaped' /\ Single' /\ (~forced => AllWhole')
<1>1. PICK o : o = store[s][k]
  OBVIOUS
<1>2. o = [meta |-> o.meta, images |-> o.images, torn |-> o.torn]
  BY <1>1 DEF StoreInv, Shaped, IsDir
<1>3. PICK d : d = [meta |-> Importer!Cut, images |-> o.images, torn |-> o.torn]
  OBVIOUS
<1>4. d.meta = Importer!Cut /\ IsDir(d) /\ [o EXCEPT !.meta = Importer!Cut] = d
  BY <1>2, <1>3 DEF IsDir
<1>5. /\ Shaped' /\ store'[s][k] = d
      /\ \A g \in Home : g # k => store'[s][g] = store[s][g]
      /\ \A t \in Sequence : t # s => store'[t] = store[t]
  <2>1. store' = [store EXCEPT ![s][k] = d]
    BY <1>1, <1>4 DEF KilledMeta
  <2>2. Shaped /\ IsDir(d)
    BY <1>4 DEF StoreInv
  <2>3. store'[s][k] = d
    BY <2>1, <2>2 DEF Shaped
  <2> QED BY <2>1, <2>2, <2>3, OneDir
<1>6. \A g \in Home : store'[s][g].meta # None => g = k
  BY <1>5 DEF Dirs
<1>7. Single'
  <2>1. \A g, h \in Dirs(s)' : g = h
    BY <1>6 DEF Dirs, None
  <2>2. \A t \in Sequence : t # s => \A g, h \in Dirs(t)' : g = h
    BY <1>5 DEF StoreInv, Dirs
  <2> QED BY <2>1, <2>2 DEF Single
<1>8. ASSUME ~forced PROVE AllWhole'
  <2>1. Whole(s, k)'
    BY <1>4, <1>5 DEF Whole
  <2>2. \A h \in Home : h # k => (Whole(s, h) => Whole(s, h)')
    BY <1>5 DEF Whole
  <2>3. \A t \in Sequence : t # s => \A h \in Home : Whole(t, h) => Whole(t, h)'
    BY <1>5 DEF Whole
  <2> QED BY <1>8, <2>1, <2>2, <2>3 DEF AllWhole, StoreInv
<1> QED BY <1>5, <1>7, <1>8

\* A kill leaves one directory with less in it, and one that a forced import was
\* writing over may then lack images.
LEMMA KillStore == ASSUME StoreInv, Importer!Kill PROVE StoreInv'
<1>1. /\ UNCHANGED <<home, boxes, forced>> /\ job'.step = "none" /\ kills' = kills + 1
      /\ store' \in Importer!Interrupted
  BY DEF Importer!Kill, Importer!alerts, Importer!NoJob
<1>2. kills' \in Nat /\ kills' # 0
  BY <1>1 DEF StoreInv
<1>3. Shaped' /\ Single' /\ (~forced => AllWhole')
  <2>1. CASE store' = store
    BY <2>1 DEF StoreInv, Shaped, Single, AllWhole, Whole, Dirs
  <2>2. CASE Busy /\ job.step = "purge" /\ \E f : KilledPurge(job.seq, f)
    <3>1. PICK s \in Sequence : s = job.seq
      BY <2>2 DEF Busy
    <3>2. PICK f : KilledPurge(s, f)
      BY <2>2, <3>1
    <3>3. ~forced => Dirs(s) = {}
      BY <2>2, <3>1 DEF Busy
    <3> QED BY <3>2, <3>3, PurgeKilled
  <2>3. CASE Busy /\ job.step = "fetch" /\ (KilledFetch(job.seq, job.home) \/ KilledMeta(job.seq, job.home))
    <3>1. PICK s \in Sequence, k \in Home : s = job.seq /\ k = job.home
      BY <2>3 DEF Busy
    <3>2. (~forced => Dirs(s) = {}) /\ Dirs(s) \subseteq {k}
      BY <2>3, <3>1 DEF Busy
    <3>3. KilledFetch(s, k) \/ KilledMeta(s, k)
      BY <2>3, <3>1
    <3> QED BY <3>2, <3>3, FetchKilled, MetaKilled
  <2> QED BY <1>1, <2>1, <2>2, <2>3, Interrupts
<1>4. (forced' => kills' = 0) => \A s \in Sequence, h \in Home : Whole(s, h)'
  BY <1>1, <1>2, <1>3 DEF AllWhole
<1> QED BY <1>1, <1>2, <1>3, <1>4 DEF StoreInv, Single

\* A replay only reads the store.
LEMMA ReplayReads == ASSUME Replay PROVE store' = store
<1>1. ASSUME NEW i \in Replayer!Items, Replayer!ReplayOne(i) PROVE store' = store
  BY <1>1 DEF Replayer!ReplayOne
<1> QED BY <1>1 DEF Replay, Replayer!Start, Replayer!Up, Replayer!WaitHealthy, Replayer!Down,
  Replayer!Enrich, Replayer!EnrichDown, Replayer!NoEnrichment, Replayer!WriteReport, Replayer!Kill

LEMMA StepStore == ASSUME StoreInv, [Next]_vars PROVE StoreInv'
<1>1. CASE Production
  BY <1>1, ProductionStore
<1>2. CASE Import
  BY <1>2, StartStore, SkipStore, BeginStore, FailsStore, RemoveStore, FetchStore,
     WriteMetaStore, DoneStore, KillStore DEF Import
<1>3. CASE Replay /\ UNCHANGED <<importing, kills>>
  <2>1. UNCHANGED <<home, boxes, kills, store, forced, job>>
    BY <1>3, ReplayReads DEF importing
  <2>2. job'.step = "none" \/ Between' \/ Busy'
    BY <2>1 DEF StoreInv, Between, Busy, Dirs
  <2> QED BY <2>1, <2>2, JobOnly
<1>4. CASE UNCHANGED vars
  <2>1. UNCHANGED <<home, boxes, kills, store, forced, job>>
    BY <1>4 DEF vars, importing
  <2>2. job'.step = "none" \/ Between' \/ Busy'
    BY <2>1 DEF StoreInv, Between, Busy, Dirs
  <2> QED BY <2>1, <2>2, JobOnly
<1> QED BY <1>1, <1>2, <1>3, <1>4 DEF Next

LEMMA StoreInvariant == Spec => []StoreInv
<1> QED BY InitStore, StepStore, PTL DEF Spec

\* A sequence is in the store once, however many imports were forced, killed or failed
\* and however often its camera was renamed.
THEOREM StoredOnce == Spec => []OneHome
<1>1. StoreInv => OneHome
  BY DEF StoreInv, OneHome, Importer!OneHome, Importer!MetaDirs, Dirs, None
<1> QED BY <1>1, StoreInvariant, PTL

\* Unless a forced import, which writes over what is there, may have been killed, what
\* a readable meta.json names is on disk whole.
THEOREM ImagesOnDisk == Spec => []ImagesWhole
<1>1. ASSUME StoreInv PROVE ImagesWhole
  <2>1. ASSUME NEW s \in Sequence, NEW h \in Home, Whole(s, h), Importer!Readable(s, h)
        PROVE  Importer!Range(store[s][h].meta.dets) \subseteq store[s][h].images
    BY <2>1 DEF Whole, Importer!Readable, Importer!Range, RangeOf, None
  <2> QED BY <1>1, <2>1 DEF StoreInv, ImagesWhole, Importer!ImagesWhole
<1> QED BY <1>1, StoreInvariant, PTL
-----------------------------------------------------------------------------
\* What a replay holds: rows that are genuine, and the items of the stack that is up.

IsRun(u) ==
  u = [step |-> u.step, todo |-> u.todo, items |-> u.items, image |-> u.image, model |-> u.model,
       health |-> u.health, rows |-> u.rows, dropped |-> u.dropped]
IsRow(r) ==
  r = [seq |-> r.seq, home |-> r.home, score |-> r.score, replayed |-> r.replayed,
       matches |-> r.matches, window |-> r.window, trigger |-> r.trigger, by |-> r.by,
       probed |-> r.probed]

Faithful(r) ==
  /\ IsRow(r)
  /\ r.by = r.score.api
  /\ r.replayed.model = r.score.model
  /\ r.trigger # None => r.trigger = r.replayed

Tagged(i) == store[i[1]][i[2]].meta.score.api

Active ==
  /\ cmd = "replay"
  /\ IsRun(run)
  /\ \A r \in run.rows : Faithful(r)
  /\ run.step \in {"health", "items"} => \A i \in run.items : Tagged(i) = run.image
  /\ run.step = "items" => run.items = {} \/ run.health = run.model

RunInv == run = Replayer!NoRun \/ Active

\* A step of the replay that leaves its rows alone, and its items or the stack.
LEMMA RowsKept ==
  ASSUME Active, cmd' = cmd, store' = store, IsRun(run'), run'.rows = run.rows,
         run'.step \in {"health", "items"} => \A i \in run'.items : Tagged(i) = run'.image,
         run'.step = "items" => run'.items = {} \/ run'.health = run'.model
  PROVE  Active'
<1>1. \A i : Tagged(i)' = Tagged(i)
  BY DEF Tagged
<1>2. IsRun(run)'
  BY DEF IsRun
<1>3. (\A r \in run.rows : Faithful(r))'
  BY DEF Active, Faithful, IsRow, None
<1> QED BY <1>1, <1>2, <1>3 DEF Active

LEMMA UpRun == ASSUME Active, Replayer!Up PROVE Active'
<1>1. PICK v, g : g = Replayer!Group(v) /\ cmd' = cmd /\ store' = store
        /\ \/ \E m \in Model :
                run' = [run EXCEPT !.step = "health", !.image = v, !.model = m,
                                   !.todo = @ \ g, !.items = g]
           \/ run' = [run EXCEPT !.todo = @ \ g,
                                 !.dropped = @ \cup Replayer!Dropping(g, "image_pull_failed")]
  BY DEF Replayer!Up
<1>2. run.step = "next"
  BY DEF Replayer!Up, Replayer!Replaying
<1>3. run = [step |-> run.step, todo |-> run.todo, items |-> run.items, image |-> run.image,
             model |-> run.model, health |-> run.health, rows |-> run.rows, dropped |-> run.dropped]
  BY DEF Active, IsRun
<1>4. CASE run' = [run EXCEPT !.todo = @ \ g,
                              !.dropped = @ \cup Replayer!Dropping(g, "image_pull_failed")]
  <2>1. run'.step = "next" /\ run'.rows = run.rows /\ IsRun(run')
    BY <1>2, <1>3, <1>4 DEF IsRun
  <2> QED BY <1>1, <2>1, RowsKept
<1>5. ASSUME NEW m, run' = [run EXCEPT !.step = "health", !.image = v, !.model = m,
                                       !.todo = @ \ g, !.items = g]
      PROVE  Active'
  <2>1. run'.step = "health" /\ run'.items = g /\ run'.image = v /\ run'.rows = run.rows /\ IsRun(run')
    BY <1>3, <1>5 DEF IsRun
  <2>2. \A i \in g : Tagged(i) = v
    BY <1>1 DEF Replayer!Group, Replayer!Meta, Tagged
  <2> QED BY <1>1, <2>1, <2>2, RowsKept
<1> QED BY <1>1, <1>4, <1>5

LEMMA HealthRun == ASSUME Active, Replayer!WaitHealthy PROVE Active'
<1>1. /\ cmd' = cmd /\ store' = store /\ run.step = "health"
      /\ \/ run' = [run EXCEPT !.step = "items", !.health = run.model]
         \/ \E d : run' = [run EXCEPT !.step = "items", !.items = {}, !.dropped = @ \cup d]
  BY DEF Replayer!WaitHealthy, Replayer!Replaying
<1>2. run = [step |-> run.step, todo |-> run.todo, items |-> run.items, image |-> run.image,
             model |-> run.model, health |-> run.health, rows |-> run.rows, dropped |-> run.dropped]
  BY DEF Active, IsRun
<1>3. CASE run' = [run EXCEPT !.step = "items", !.health = run.model]
  <2>1. run'.step = "items" /\ run'.items = run.items /\ run'.image = run.image
        /\ run'.model = run.model /\ run'.health = run.model /\ run'.rows = run.rows /\ IsRun(run')
    BY <1>2, <1>3 DEF IsRun
  <2>2. \A i \in run.items : Tagged(i) = run.image
    BY <1>1 DEF Active
  <2> QED BY <1>1, <2>1, <2>2, RowsKept
<1>4. ASSUME NEW d, run' = [run EXCEPT !.step = "items", !.items = {}, !.dropped = @ \cup d]
      PROVE  Active'
  <2>1. run'.step = "items" /\ run'.items = {} /\ run'.rows = run.rows /\ IsRun(run')
    BY <1>2, <1>4 DEF IsRun
  <2> QED BY <1>1, <2>1, RowsKept
<1> QED BY <1>1, <1>3, <1>4

LEMMA DownRun == ASSUME Active, Replayer!Down \/ Replayer!EnrichDown \/ Replayer!NoEnrichment PROVE RunInv'
<1>1. /\ store' = store
      /\ \/ cmd' = cmd /\ run' = [run EXCEPT !.step = "next", !.image = Replayer!Nothing]
         \/ cmd' = cmd /\ run' = [run EXCEPT !.step = "report"]
         \/ run' = Replayer!NoRun
  BY DEF Replayer!Down, Replayer!EnrichDown, Replayer!NoEnrichment, Replayer!Abort
<1>2. run = [step |-> run.step, todo |-> run.todo, items |-> run.items, image |-> run.image,
             model |-> run.model, health |-> run.health, rows |-> run.rows, dropped |-> run.dropped]
  BY DEF Active, IsRun
<1>3. CASE cmd' = cmd /\ run' # Replayer!NoRun
  <2>1. run'.step \in {"next", "report"} /\ run'.rows = run.rows /\ IsRun(run')
    BY <1>1, <1>2, <1>3 DEF IsRun
  <2> QED BY <1>1, <1>3, <2>1, RowsKept DEF RunInv
<1> QED BY <1>1, <1>3 DEF RunInv, Replayer!NoRun

\* A row is made by the stack that is up, whose model was found to be the recorded one.
LEMMA RowFaithful ==
  ASSUME NEW i, Tagged(i) = run.image, run.health = run.model,
         Replayer!Refused(i) = "none", NEW raising
  PROVE  Faithful(Replayer!Row(i, raising))
<1>1. run.health = Replayer!Meta(i).score.model
  BY DEF Replayer!Refused
<1>2. PICK r : r = Replayer!Row(i, raising)
  OBVIOUS
<1>3. PICK p : p = Replayer!Probability(run.model, Replayer!Meta(i).dets, i)
  OBVIOUS
<1>4. p.model = run.model
  BY <1>3 DEF Replayer!Probability
<1>5. PICK w, m, q : r = [seq |-> i[1], home |-> i[2], score |-> Replayer!Meta(i).score, replayed |-> p,
              matches |-> m, window |-> w,
              trigger |-> IF run.image \in WithTrigger THEN p ELSE Replayer!None,
              by |-> run.image, probed |-> q]
  BY <1>2, <1>3 DEF Replayer!Row
<1>6. IsRow(r) /\ r.by = run.image /\ r.score = Replayer!Meta(i).score /\ r.replayed = p
      /\ r.trigger = (IF run.image \in WithTrigger THEN p ELSE Replayer!None)
  BY <1>5 DEF IsRow
<1>7. Replayer!None = None
  BY DEF Replayer!None, None, Importer!None
<1>8. Tagged(i) = Replayer!Meta(i).score.api
  BY DEF Tagged, Replayer!Meta
<1>9. Faithful(r)
  BY <1>1, <1>4, <1>6, <1>7, <1>8 DEF Faithful
<1> QED BY <1>2, <1>9

LEMMA ReplayOneRun ==
  ASSUME Active, NEW i, Replayer!ReplayOne(i) PROVE Active'
<1>1. /\ cmd' = cmd /\ store' = store /\ run.step = "items" /\ i \in run.items
      /\ \/ \E d : run' = [Replayer!Finish(i) EXCEPT !.dropped = @ \cup d]
         \/ /\ Replayer!Refused(i) = "none"
            /\ \E raising : run' = [Replayer!Finish(i) EXCEPT !.rows = @ \cup {Replayer!Row(i, raising)}]
  BY DEF Replayer!ReplayOne, Replayer!Replaying
<1>2. run = [step |-> run.step, todo |-> run.todo, items |-> run.items, image |-> run.image,
             model |-> run.model, health |-> run.health, rows |-> run.rows, dropped |-> run.dropped]
  BY DEF Active, IsRun
<1>3. PICK u : u = Replayer!Finish(i)
  OBVIOUS
<1>4. /\ u = [step |-> u.step, todo |-> u.todo, items |-> u.items, image |-> u.image,
              model |-> u.model, health |-> u.health, rows |-> u.rows, dropped |-> u.dropped]
      /\ u.step = "items" /\ u.items = run.items \ {i} /\ u.image = run.image
      /\ u.model = run.model /\ u.health = run.health /\ u.rows = run.rows
  BY <1>1, <1>2, <1>3 DEF Replayer!Finish
<1>5. run.health = run.model /\ \A j \in run.items : Tagged(j) = run.image
  BY <1>1 DEF Active
<1>6. ASSUME NEW d, run' = [u EXCEPT !.dropped = @ \cup d]
      PROVE  Active'
  <2>1. run'.step = "items" /\ run'.items = run.items \ {i} /\ run'.image = run.image
        /\ run'.model = run.model /\ run'.health = run.health /\ run'.rows = run.rows /\ IsRun(run')
    BY <1>4, <1>6 DEF IsRun
  <2> QED BY <1>1, <1>5, <2>1, RowsKept
<1>7. ASSUME NEW r, Faithful(r), run' = [u EXCEPT !.rows = @ \cup {r}]
      PROVE  Active'
  <2>1. run'.step = "items" /\ run'.items = run.items \ {i} /\ run'.image = run.image
        /\ run'.model = run.model /\ run'.health = run.health /\ run'.rows = run.rows \cup {r}
        /\ IsRun(run')
    BY <1>4, <1>7 DEF IsRun
  <2>2. \A j : Tagged(j)' = Tagged(j)
    BY <1>1 DEF Tagged
  <2>3. \A q \in run'.rows : Faithful(q)
    BY <1>7, <2>1 DEF Active
  <2>4. IsRun(run)' /\ (\A q \in run.rows : Faithful(q))'
    BY <2>1, <2>3 DEF IsRun, Faithful, IsRow, None
  <2> QED BY <1>1, <1>5, <2>1, <2>2, <2>4 DEF Active
<1>8. ASSUME NEW raising, Replayer!Refused(i) = "none" PROVE Faithful(Replayer!Row(i, raising))
  BY <1>1, <1>5, <1>8, RowFaithful
<1>9. CASE \E d : run' = [Replayer!Finish(i) EXCEPT !.dropped = @ \cup d]
  <2>1. PICK d : run' = [u EXCEPT !.dropped = @ \cup d]
    BY <1>3, <1>9
  <2> QED BY <2>1, <1>6
<1>10. CASE /\ Replayer!Refused(i) = "none"
            /\ \E raising : run' = [Replayer!Finish(i) EXCEPT !.rows = @ \cup {Replayer!Row(i, raising)}]
  <2>1. PICK raising : run' = [u EXCEPT !.rows = @ \cup {Replayer!Row(i, raising)}]
    BY <1>3, <1>10
  <2>2. PICK r : r = Replayer!Row(i, raising)
    OBVIOUS
  <2>3. Faithful(r)
    BY <1>8, <1>10, <2>2
  <2>4. run' = [u EXCEPT !.rows = @ \cup {r}]
    BY <2>1, <2>2
  <2> QED BY <1>7, <2>3, <2>4
<1> QED BY <1>1, <1>9, <1>10

LEMMA EnrichedFaithful == ASSUME NEW r, Faithful(r) PROVE Faithful(Replayer!Enriched(r))
<1>1. PICK e, p : e = Replayer!Enriched(r) /\ p = Replayer!Newly(<<r.seq, r.home>>)
  OBVIOUS
<1>2. e = IF p = r.replayed THEN [r EXCEPT !.trigger = p] ELSE r
  BY <1>1 DEF Replayer!Enriched
<1>3. r = [seq |-> r.seq, home |-> r.home, score |-> r.score, replayed |-> r.replayed,
           matches |-> r.matches, window |-> r.window, trigger |-> r.trigger, by |-> r.by,
           probed |-> r.probed]
  BY DEF Faithful, IsRow
<1>4. CASE p = r.replayed /\ e = [r EXCEPT !.trigger = p]
  <2>1. IsRow(e) /\ e.by = r.by /\ e.score = r.score /\ e.replayed = r.replayed /\ e.trigger = p
    BY <1>3, <1>4 DEF IsRow
  <2>2. Faithful(e)
    BY <1>4, <2>1 DEF Faithful
  <2> QED BY <1>1, <2>2
<1> QED BY <1>1, <1>2, <1>4

LEMMA EnrichRun == ASSUME Active, Replayer!Enrich PROVE Active'
<1>1. /\ cmd' = cmd /\ store' = store
      /\ \/ \E failing \in SUBSET run.rows :
              run' = [run EXCEPT !.step = "enriched",
                        !.rows = failing \cup {Replayer!Enriched(r) : r \in run.rows \ failing}]
         \/ run' = [run EXCEPT !.step = "enriched"]
  BY DEF Replayer!Enrich
<1>2. PICK rows : run' = [run EXCEPT !.step = "enriched", !.rows = rows] /\ \A r \in rows : Faithful(r)
  <2>1. ASSUME NEW failing \in SUBSET run.rows, NEW rows,
               rows = failing \cup {Replayer!Enriched(r) : r \in run.rows \ failing}
        PROVE  \A r \in rows : Faithful(r)
    <3>1. \A r \in run.rows : Faithful(r) /\ Faithful(Replayer!Enriched(r))
      BY EnrichedFaithful DEF Active
    <3> QED BY <2>1, <3>1
  <2>2. run = [step |-> run.step, todo |-> run.todo, items |-> run.items, image |-> run.image,
               model |-> run.model, health |-> run.health, rows |-> run.rows, dropped |-> run.dropped]
    BY DEF Active, IsRun
  <2>3. CASE run' = [run EXCEPT !.step = "enriched"]
    <3>1. run' = [run EXCEPT !.step = "enriched", !.rows = run.rows]
      BY <2>2, <2>3
    <3> QED BY <3>1 DEF Active
  <2> QED BY <1>1, <2>1, <2>3
<1>3. run'.step = "enriched" /\ run'.rows = rows /\ IsRun(run')
  <2>1. run = [step |-> run.step, todo |-> run.todo, items |-> run.items, image |-> run.image,
               model |-> run.model, health |-> run.health, rows |-> run.rows, dropped |-> run.dropped]
    BY DEF Active, IsRun
  <2> QED BY <1>2, <2>1 DEF IsRun
<1>4. IsRun(run)' /\ (\A r \in run.rows : Faithful(r))'
  BY <1>2, <1>3 DEF IsRun, Faithful, IsRow, None
<1> QED BY <1>1, <1>3, <1>4 DEF Active

LEMMA StartRun == ASSUME Replayer!Start PROVE Active'
<1>1. /\ cmd' = "replay"
      /\ \E todo, dropped :
           run' = [step |-> "next", todo |-> todo, items |-> {}, image |-> Replayer!Nothing,
                   model |-> Replayer!None, health |-> Replayer!None, rows |-> {}, dropped |-> dropped]
  BY DEF Replayer!Start
<1>2. run'.step = "next" /\ run'.rows = {} /\ IsRun(run')
  BY <1>1 DEF IsRun
<1> QED BY <1>1, <1>2 DEF Active, IsRun

\* While a replay runs nothing else does, so that the store it reads stays as it is.
LEMMA Alone == ASSUME RunInv, Production \/ Import PROVE run = Replayer!NoRun
<1>1. CASE Production
  BY <1>1 DEF Production, Importer!Importing, RunInv, Active
<1>2. CASE Import
  BY <1>2 DEF Import, Importer!Start, Importer!Skip, Importer!Begin, Importer!Fails, Importer!IsNext,
     Importer!RemoveStale, Importer!Fetch, Importer!WriteMeta, Importer!Done, Importer!Kill,
     Importer!Importing, RunInv, Active
<1> QED BY <1>1, <1>2

LEMMA StepRun == ASSUME RunInv, [Next]_vars PROVE RunInv'
<1>1. CASE (Production \/ Import) /\ UNCHANGED run
  BY <1>1, Alone DEF RunInv, Replayer!NoRun
<1>2. CASE Replay /\ run # Replayer!NoRun
  <2>1. Active
    BY <1>2 DEF RunInv
  <2>2. ASSUME NEW i \in Replayer!Items, Replayer!ReplayOne(i) PROVE RunInv'
    BY <2>1, <2>2, ReplayOneRun DEF RunInv
  <2>3. CASE Replayer!WriteReport \/ Replayer!Kill
    BY <2>3 DEF Replayer!WriteReport, Replayer!Kill, Replayer!Abort, RunInv, Replayer!NoRun
  <2> QED BY <1>2, <2>1, <2>2, <2>3, StartRun, UpRun, HealthRun, DownRun, EnrichRun DEF Replay, RunInv
<1>3. CASE Replay /\ run = Replayer!NoRun
  <2>1. run.step = "none"
    BY <1>3 DEF Replayer!NoRun
  <2>2. CASE Replayer!Start
    BY <2>2, StartRun DEF RunInv
  <2>3. CASE Replayer!Kill
    BY <2>3 DEF Replayer!Kill, Replayer!Abort, RunInv, Replayer!NoRun
  <2> QED BY <1>3, <2>1, <2>2, <2>3 DEF Replay, Replayer!Up, Replayer!WaitHealthy, Replayer!ReplayOne,
       Replayer!Down, Replayer!Enrich, Replayer!EnrichDown, Replayer!NoEnrichment,
       Replayer!WriteReport, Replayer!Replaying
<1>4. CASE UNCHANGED vars
  BY <1>4 DEF vars, RunInv, Active, Faithful, IsRow, IsRun, Tagged, None, Replayer!NoRun
<1> QED BY <1>1, <1>2, <1>3, <1>4 DEF Next

\* A row was computed by the image of the version that scored its sequence, holding the
\* model that scored it, and the trigger it reports belongs to the result it reports,
\* even when tags were moved and a second image computed the trigger.
THEOREM RowsGenuine == Spec => []Genuine
<1>1. Init => RunInv
  BY DEF Init, RunInv
<1>2. RunInv => Genuine
  <2>1. None = Replayer!None
    BY DEF None, Importer!None, Replayer!None
  <2> QED BY <2>1 DEF RunInv, Active, Faithful, Genuine, Replayer!Genuine, Replayer!Rows
<1> QED BY <1>1, <1>2, StepRun, PTL DEF Spec
-----------------------------------------------------------------------------
\* The account that a replay keeps: every stored sequence is pending or said, once.

Key(x) == <<x.seq, x.home>>

Accounts(all, pending, said) ==
  /\ pending \subseteq all
  /\ \A x \in said : Key(x) \in all \ pending
  /\ \A x, y \in said : x.seq = y.seq => x = y
  /\ \A i \in all : i \in pending \/ \E x \in said : Key(x) = i

Once(all) == \A i, j \in all : i[1] = j[1] => i = j

\* What is said of some of the pending ones, one thing of each.
Says(some, new) ==
  /\ \A x \in new : Key(x) \in some
  /\ \A x, y \in new : Key(x) = Key(y) => x = y
  /\ \A i \in some : \E x \in new : Key(x) = i

LEMMA SayMore ==
  ASSUME NEW all, NEW pending, NEW said, NEW some, NEW new, Once(all),
         Accounts(all, pending, said), some \subseteq pending, Says(some, new)
  PROVE  Accounts(all, pending \ some, said \cup new)
<1>1. \A x \in said : Key(x) \in all \ (pending \ some)
  BY DEF Accounts
<1>2. \A x \in new : Key(x) \in all /\ Key(x) \in some
  BY DEF Accounts, Says
<1>3. \A x, y \in said \cup new : Key(x) \in all /\ Key(y) \in all
  BY <1>2 DEF Accounts
<1>4. \A x, y \in said \cup new : x.seq = y.seq => Key(x) = Key(y)
  <2> SUFFICES ASSUME NEW x \in said \cup new, NEW y \in said \cup new, x.seq = y.seq
               PROVE  Key(x) = Key(y)
    OBVIOUS
  <2>1. Key(x)[1] = x.seq /\ Key(y)[1] = y.seq
    BY DEF Key
  <2> QED BY <2>1, <1>3 DEF Once
<1>5. \A x \in said, y \in new : Key(x) # Key(y)
  BY <1>2 DEF Accounts
<1>6. \A x, y \in said \cup new : x.seq = y.seq => x = y
  <2> SUFFICES ASSUME NEW x \in said \cup new, NEW y \in said \cup new, x.seq = y.seq
               PROVE  x = y
    OBVIOUS
  <2>1. Key(x) = Key(y)
    BY <1>4
  <2>2. CASE x \in said /\ y \in said
    BY <2>2 DEF Accounts
  <2>3. CASE x \in new /\ y \in new
    BY <2>1, <2>3 DEF Says
  <2> QED BY <2>1, <2>2, <2>3, <1>5
<1>7. \A i \in all : i \in pending \ some \/ \E x \in said \cup new : Key(x) = i
  BY DEF Accounts, Says
<1>8. \A x \in new : Key(x) \in all \ (pending \ some)
  BY <1>2
<1> QED BY <1>1, <1>6, <1>7, <1>8 DEF Accounts

LEMMA DropSays ==
  ASSUME NEW some, NEW reason, \A i \in some : i = <<i[1], i[2]>>
  PROVE  Says(some, Replayer!Dropping(some, reason))
<1>1. PICK new : new = Replayer!Dropping(some, reason)
  OBVIOUS
<1>2. \A x \in new : \E i \in some : x = [seq |-> i[1], home |-> i[2], reason |-> reason]
  BY <1>1 DEF Replayer!Dropping
<1>3. \A i \in some : \E x \in new : x = [seq |-> i[1], home |-> i[2], reason |-> reason]
  BY <1>1 DEF Replayer!Dropping
<1>4. \A x \in new : Key(x) \in some /\ x = [seq |-> Key(x)[1], home |-> Key(x)[2], reason |-> reason]
  BY <1>2 DEF Key
<1>5. \A i \in some : \E x \in new : Key(x) = i
  BY <1>3 DEF Key
<1> QED BY <1>1, <1>4, <1>5 DEF Says

\* What is said of one.
LEMMA OneSays == ASSUME NEW x, NEW i, Key(x) = i PROVE Says({i}, {x})
BY DEF Says

Counted ==
  /\ Accounts(Replayer!Items, run.todo \cup run.items, run.rows \cup run.dropped)
  /\ \A r \in run.rows, d \in run.dropped : Key(r) # Key(d)
  /\ run.todo \cap run.items = {}
  /\ run.step \in {"health", "items"} \/ run.items = {}
  /\ run.step \in {"enriched", "report"} => run.todo = {}

\* A sequence has one directory with a meta.json, so that its items are told apart by it.
LEMMA ItemsOnce ==
  ASSUME StoreInv
  PROVE  Once(Replayer!Items) /\ \A i \in Replayer!Items : i = <<i[1], i[2]>>
<1>1. \A i \in Replayer!Items : /\ i[1] \in Sequence /\ i[2] \in Dirs(i[1])
                                /\ i = <<i[1], i[2]>>
  BY DEF Replayer!Items, Replayer!MetaDirs, Dirs, None, Importer!None, Replayer!None
<1>2. \A i, j \in Replayer!Items : i[1] = j[1] => i = j
  BY <1>1 DEF StoreInv
<1> QED BY <1>1, <1>2 DEF Once

LEMMA SameItems == ASSUME store' = store PROVE Replayer!Items' = Replayer!Items
BY DEF Replayer!Items, Replayer!MetaDirs

LEMMA StartCounted == ASSUME StoreInv, Replayer!Start PROVE Counted'
<1>1. PICK all : all = Replayer!Items
  OBVIOUS
<1>2. PICK unscored, untagged :
        /\ store' = store
        /\ unscored \subseteq all /\ untagged \subseteq all \ unscored
        /\ run' = [step |-> "next", todo |-> all \ (unscored \cup untagged), items |-> {},
                   image |-> Replayer!Nothing, model |-> Replayer!None, health |-> Replayer!None,
                   rows |-> {},
                   dropped |-> Replayer!Dropping(unscored, "no_temporal_version")
                               \cup Replayer!Dropping(untagged, "invalid_api_version")]
  <2> DEFINE U == {i \in all : Replayer!Meta(i).score = Replayer!None}
             T == {i \in all \ U : Replayer!Meta(i).score.api \notin Tag}
  <2>1. /\ store' = store
        /\ run' = [step |-> "next", todo |-> all \ (U \cup T), items |-> {},
                   image |-> Replayer!Nothing, model |-> Replayer!None, health |-> Replayer!None,
                   rows |-> {},
                   dropped |-> Replayer!Dropping(U, "no_temporal_version")
                               \cup Replayer!Dropping(T, "invalid_api_version")]
    BY <1>1 DEF Replayer!Start
  <2>2. U \subseteq all /\ T \subseteq all \ U
    OBVIOUS
  <2> HIDE DEF U, T
  <2> QED BY <2>1, <2>2
<1>3. PICK a, b : /\ a = Replayer!Dropping(unscored, "no_temporal_version")
                  /\ b = Replayer!Dropping(untagged, "invalid_api_version")
  OBVIOUS
<1>4. Once(all) /\ \A i \in all : i = <<i[1], i[2]>>
  BY <1>1, ItemsOnce
<1>5. Accounts(all, all, {})
  BY DEF Accounts
<1>6. Says(unscored, a) /\ Says(untagged, b)
  BY <1>2, <1>3, <1>4, DropSays
<1>7. Accounts(all, all \ unscored, {} \cup a)
  BY <1>2, <1>4, <1>5, <1>6, SayMore
<1>8. Accounts(all, (all \ unscored) \ untagged, ({} \cup a) \cup b)
  BY <1>2, <1>4, <1>6, <1>7, SayMore
<1>9. /\ run'.step = "next" /\ run'.todo = all \ (unscored \cup untagged) /\ run'.items = {}
      /\ run'.rows = {} /\ run'.dropped = a \cup b
  BY <1>2, <1>3
<1>10. /\ run'.todo \cup run'.items = (all \ unscored) \ untagged
       /\ run'.rows \cup run'.dropped = ({} \cup a) \cup b
  BY <1>9
<1> QED BY <1>1, <1>2, <1>8, <1>9, <1>10, SameItems DEF Counted

\* A step that says something more of some of the pending sequences.
LEMMA CountedMore ==
  ASSUME StoreInv, Counted, store' = store, NEW some, NEW rows, NEW drops,
         some \subseteq run.todo \cup run.items, Says(some, rows \cup drops),
         rows = {} \/ drops = {},
         run'.todo \cup run'.items = (run.todo \cup run.items) \ some,
         run'.rows = run.rows \cup rows, run'.dropped = run.dropped \cup drops,
         run'.todo \cap run'.items = {},
         run'.step \in {"health", "items"} \/ run'.items = {},
         run'.step \in {"enriched", "report"} => run'.todo = {}
  PROVE  Counted'
<1>1. PICK all, pending, said : /\ all = Replayer!Items /\ pending = run.todo \cup run.items
                                /\ said = run.rows \cup run.dropped
  OBVIOUS
<1>2. Once(all) /\ Accounts(all, pending, said) /\ some \subseteq pending
  BY <1>1, ItemsOnce DEF Counted
<1>3. Accounts(all, pending \ some, said \cup (rows \cup drops))
  BY <1>2, SayMore
<1>4. run'.rows \cup run'.dropped = said \cup (rows \cup drops)
  BY <1>1
<1>5. (\A r \in run.rows, d \in run.dropped : Key(r) # Key(d))'
  <2>1. \A x \in rows \cup drops : Key(x) \in pending
    BY <1>2 DEF Says
  <2>2. \A x \in run.rows \cup run.dropped : Key(x) \notin pending
    BY <1>1, <1>2 DEF Accounts
  <2>3. \A r \in run.rows \cup rows, d \in run.dropped \cup drops : Key(r) # Key(d)
    BY <2>1, <2>2 DEF Counted
  <2> QED BY <2>3 DEF Key
<1> QED BY <1>1, <1>3, <1>4, <1>5, SameItems DEF Counted

\* A step that says nothing more.
LEMMA CountedSame ==
  ASSUME Counted, store' = store,
         run'.todo \cup run'.items = run.todo \cup run.items,
         run'.rows = run.rows, run'.dropped = run.dropped,
         run'.todo \cap run'.items = {},
         run'.step \in {"health", "items"} \/ run'.items = {},
         run'.step \in {"enriched", "report"} => run'.todo = {}
  PROVE  Counted'
BY SameItems DEF Counted, Key

LEMMA UpCounted == ASSUME StoreInv, Active, Counted, Replayer!Up PROVE Counted'
<1>1. PICK v, g : g = Replayer!Group(v) /\ cmd' = cmd /\ store' = store
        /\ \/ \E m \in Model :
                run' = [run EXCEPT !.step = "health", !.image = v, !.model = m,
                                   !.todo = @ \ g, !.items = g]
           \/ run' = [run EXCEPT !.todo = @ \ g,
                                 !.dropped = @ \cup Replayer!Dropping(g, "image_pull_failed")]
  BY DEF Replayer!Up
<1>2. run.step = "next" /\ run.items = {} /\ g \subseteq run.todo
  BY <1>1 DEF Replayer!Up, Replayer!Replaying, Replayer!Group, Counted
<1>3. run = [step |-> run.step, todo |-> run.todo, items |-> run.items, image |-> run.image,
             model |-> run.model, health |-> run.health, rows |-> run.rows, dropped |-> run.dropped]
  BY DEF Active, IsRun
<1>4. CASE run' = [run EXCEPT !.todo = @ \ g,
                              !.dropped = @ \cup Replayer!Dropping(g, "image_pull_failed")]
  <2>1. PICK new : new = Replayer!Dropping(g, "image_pull_failed")
    OBVIOUS
  <2>2. run'.step = "next" /\ run'.todo = run.todo \ g /\ run'.items = run.items
        /\ run'.rows = run.rows /\ run'.dropped = run.dropped \cup new
    BY <1>2, <1>3, <1>4, <2>1
  <2>3. \A i \in g : i = <<i[1], i[2]>>
    BY <1>2, ItemsOnce DEF Counted, Accounts
  <2>4. Says(g, new)
    BY <2>1, <2>3, DropSays
  <2>5. /\ run'.todo \cup run'.items = (run.todo \cup run.items) \ g
        /\ run'.rows = run.rows \cup {} /\ run'.dropped = run.dropped \cup new
        /\ run'.todo \cap run'.items = {}
    BY <1>2, <2>2
  <2>6. Says(g, {} \cup new)
    BY <2>4 DEF Says
  <2> QED BY <1>1, <1>2, <2>2, <2>5, <2>6, CountedMore
<1>5. ASSUME NEW m, run' = [run EXCEPT !.step = "health", !.image = v, !.model = m,
                                       !.todo = @ \ g, !.items = g]
      PROVE  Counted'
  <2>1. run'.step = "health" /\ run'.items = g /\ run'.todo = run.todo \ g
        /\ run'.rows = run.rows /\ run'.dropped = run.dropped
    BY <1>3, <1>5
  <2>2. run'.todo \cup run'.items = run.todo \cup run.items
    BY <1>2, <2>1
  <2>3. run'.todo \cap run'.items = {}
    BY <2>1
  <2> QED BY <1>1, <2>1, <2>2, <2>3, CountedSame
<1> QED BY <1>1, <1>4, <1>5

LEMMA HealthCounted == ASSUME StoreInv, Active, Counted, Replayer!WaitHealthy PROVE Counted'
<1>1. PICK new :
        /\ new = Replayer!Dropping(run.items, "stack_unhealthy")
        /\ cmd' = cmd /\ store' = store
        /\ \/ run' = [run EXCEPT !.step = "items", !.health = run.model]
           \/ run' = [run EXCEPT !.step = "items", !.items = {}, !.dropped = @ \cup new]
  BY DEF Replayer!WaitHealthy
<1>2. run = [step |-> run.step, todo |-> run.todo, items |-> run.items, image |-> run.image,
             model |-> run.model, health |-> run.health, rows |-> run.rows, dropped |-> run.dropped]
  BY DEF Active, IsRun
<1>3. CASE run' = [run EXCEPT !.step = "items", !.health = run.model]
  <2>1. run'.step = "items" /\ run'.items = run.items /\ run'.todo = run.todo
        /\ run'.rows = run.rows /\ run'.dropped = run.dropped
    BY <1>2, <1>3
  <2>2. run'.todo \cap run'.items = {}
    BY <2>1 DEF Counted
  <2> QED BY <1>1, <2>1, <2>2, CountedSame
<1>4. CASE run' = [run EXCEPT !.step = "items", !.items = {}, !.dropped = @ \cup new]
  <2>1. run'.step = "items" /\ run'.items = {} /\ run'.todo = run.todo
        /\ run'.rows = run.rows /\ run'.dropped = run.dropped \cup new
    BY <1>2, <1>4
  <2>2. PICK g : g = run.items
    OBVIOUS
  <2>3. \A i \in g : i = <<i[1], i[2]>>
    BY <2>2, ItemsOnce DEF Counted, Accounts
  <2>4. Says(g, new)
    BY <1>1, <2>2, <2>3, DropSays
  <2>5. run.todo \cap g = {}
    BY <2>2 DEF Counted
  <2>6. /\ run'.todo \cup run'.items = (run.todo \cup run.items) \ g
        /\ run'.rows = run.rows \cup {} /\ run'.dropped = run.dropped \cup new
        /\ run'.todo \cap run'.items = {}
    BY <2>1, <2>2, <2>5
  <2>7. Says(g, {} \cup new)
    BY <2>4 DEF Says
  <2> QED BY <1>1, <2>1, <2>2, <2>6, <2>7, CountedMore
<1> QED BY <1>1, <1>3, <1>4

\* A sequence leaves the pending ones as a row or as dropped.
LEMMA ReplayOneCounted ==
  ASSUME StoreInv, Active, Counted, NEW i, Replayer!ReplayOne(i) PROVE Counted'
<1>1. /\ cmd' = cmd /\ store' = store /\ run.step = "items" /\ i \in run.items
      /\ \/ \E why : run' = [Replayer!Finish(i) EXCEPT !.dropped = @ \cup Replayer!Dropping({i}, why)]
         \/ \E raising : run' = [Replayer!Finish(i) EXCEPT !.rows = @ \cup {Replayer!Row(i, raising)}]
  BY DEF Replayer!ReplayOne, Replayer!Replaying
<1>2. run = [step |-> run.step, todo |-> run.todo, items |-> run.items, image |-> run.image,
             model |-> run.model, health |-> run.health, rows |-> run.rows, dropped |-> run.dropped]
  BY DEF Active, IsRun
<1>3. PICK u : u = Replayer!Finish(i)
  OBVIOUS
<1>4. /\ u = [step |-> u.step, todo |-> u.todo, items |-> u.items, image |-> u.image,
              model |-> u.model, health |-> u.health, rows |-> u.rows, dropped |-> u.dropped]
      /\ u.step = "items" /\ u.items = run.items \ {i} /\ u.todo = run.todo
      /\ u.rows = run.rows /\ u.dropped = run.dropped
  BY <1>1, <1>2, <1>3 DEF Replayer!Finish
<1>5. /\ i = <<i[1], i[2]>> /\ i \notin run.todo /\ {i} \subseteq run.todo \cup run.items
  BY <1>1, ItemsOnce DEF Counted, Accounts
<1>6. ASSUME NEW rows, NEW drops, Says({i}, rows \cup drops), rows = {} \/ drops = {},
             run'.rows = run.rows \cup rows, run'.dropped = run.dropped \cup drops,
             run'.step = "items", run'.items = run.items \ {i}, run'.todo = run.todo
      PROVE  Counted'
  <2>1. run'.todo \cup run'.items = (run.todo \cup run.items) \ {i}
    BY <1>5, <1>6
  <2>2. run'.todo \cap run'.items = {}
    BY <1>6 DEF Counted
  <2> QED BY <1>1, <1>5, <1>6, <2>1, <2>2, CountedMore
<1>7. CASE \E why : run' = [Replayer!Finish(i) EXCEPT !.dropped = @ \cup Replayer!Dropping({i}, why)]
  <2>1. PICK why : run' = [u EXCEPT !.dropped = @ \cup Replayer!Dropping({i}, why)]
    BY <1>3, <1>7
  <2>2. PICK new : new = Replayer!Dropping({i}, why)
    OBVIOUS
  <2>3. Says({i}, new)
    BY <1>5, <2>2, DropSays
  <2>4. Says({i}, {} \cup new)
    BY <2>3 DEF Says
  <2>5. run'.step = "items" /\ run'.items = run.items \ {i} /\ run'.todo = run.todo
        /\ run'.rows = run.rows \cup {} /\ run'.dropped = run.dropped \cup new
    BY <1>4, <2>1, <2>2
  <2> QED BY <1>6, <2>4, <2>5
<1>8. CASE \E raising : run' = [Replayer!Finish(i) EXCEPT !.rows = @ \cup {Replayer!Row(i, raising)}]
  <2>1. PICK raising : run' = [u EXCEPT !.rows = @ \cup {Replayer!Row(i, raising)}]
    BY <1>3, <1>8
  <2>2. PICK r : r = Replayer!Row(i, raising)
    OBVIOUS
  <2>3. r.seq = i[1] /\ r.home = i[2]
    BY <2>2 DEF Replayer!Row
  <2>4. Says({i}, {r})
    BY <1>5, <2>3, OneSays DEF Key
  <2>5. Says({i}, {r} \cup {})
    BY <2>4 DEF Says
  <2>6. run'.step = "items" /\ run'.items = run.items \ {i} /\ run'.todo = run.todo
        /\ run'.rows = run.rows \cup {r} /\ run'.dropped = run.dropped \cup {}
    BY <1>4, <2>1, <2>2
  <2> QED BY <1>6, <2>5, <2>6
<1> QED BY <1>1, <1>7, <1>8

\* Rows are replaced one by one.
LEMMA Replaced ==
  ASSUME NEW all, NEW pending, NEW rows, NEW dropped, NEW new,
         Accounts(all, pending, rows \cup dropped),
         \A x \in new : \E y \in rows : Key(x) = Key(y),
         \A y \in rows : \E x \in new : Key(x) = Key(y),
         \A x, y \in new : Key(x) = Key(y) => x = y,
         \A r \in rows, d \in dropped : Key(r) # Key(d), Once(all)
  PROVE  Accounts(all, pending, new \cup dropped)
<1>1. \A x \in new \cup dropped : Key(x) \in all \ pending
  BY DEF Accounts
<1>2. \A x, y \in new \cup dropped : x.seq = y.seq => x = y
  <2> SUFFICES ASSUME NEW x \in new \cup dropped, NEW y \in new \cup dropped, x.seq = y.seq
               PROVE  x = y
    OBVIOUS
  <2>1. Key(x) = Key(y)
    <3>1. Key(x)[1] = x.seq /\ Key(y)[1] = y.seq
      BY DEF Key
    <3> QED BY <3>1, <1>1 DEF Once
  <2>2. CASE x \in new /\ y \in new
    BY <2>1, <2>2
  <2>3. CASE x \in dropped /\ y \in dropped
    BY <2>3 DEF Accounts
  <2>4. \A n \in new, d \in dropped : Key(n) # Key(d)
    OBVIOUS
  <2> QED BY <2>1, <2>2, <2>3, <2>4
<1>3. \A i \in all : i \in pending \/ \E x \in new \cup dropped : Key(x) = i
  <2> SUFFICES ASSUME NEW i \in all, i \notin pending PROVE \E x \in new \cup dropped : Key(x) = i
    OBVIOUS
  <2>1. PICK y \in rows \cup dropped : Key(y) = i
    BY DEF Accounts
  <2> QED BY <2>1
<1> QED BY <1>1, <1>2, <1>3 DEF Accounts

LEMMA EnrichedKey == ASSUME NEW r, IsRow(r) PROVE Key(Replayer!Enriched(r)) = Key(r)
<1>1. PICK e, p : e = Replayer!Enriched(r) /\ p = Replayer!Newly(<<r.seq, r.home>>)
  OBVIOUS
<1>2. e = IF p = r.replayed THEN [r EXCEPT !.trigger = p] ELSE r
  BY <1>1 DEF Replayer!Enriched
<1>3. r = [seq |-> r.seq, home |-> r.home, score |-> r.score, replayed |-> r.replayed,
           matches |-> r.matches, window |-> r.window, trigger |-> r.trigger, by |-> r.by,
           probed |-> r.probed]
  BY DEF IsRow
<1>4. e.seq = r.seq /\ e.home = r.home
  BY <1>2, <1>3
<1> QED BY <1>1, <1>4 DEF Key

\* Enrichment changes triggers, and neither which rows there are nor what was dropped.
LEMMA EnrichCounted == ASSUME StoreInv, Active, Counted, Replayer!Enrich PROVE Counted'
<1>1. /\ cmd' = cmd /\ store' = store /\ run.step = "next" /\ run.todo = {} /\ run.items = {}
      /\ \/ \E failing \in SUBSET run.rows :
              run' = [run EXCEPT !.step = "enriched",
                        !.rows = failing \cup {Replayer!Enriched(r) : r \in run.rows \ failing}]
         \/ run' = [run EXCEPT !.step = "enriched"]
  BY DEF Replayer!Enrich, Replayer!Replaying, Counted
<1>2. run = [step |-> run.step, todo |-> run.todo, items |-> run.items, image |-> run.image,
             model |-> run.model, health |-> run.health, rows |-> run.rows, dropped |-> run.dropped]
  BY DEF Active, IsRun
<1>3. CASE run' = [run EXCEPT !.step = "enriched"]
  <2>1. run'.step = "enriched" /\ run'.items = {} /\ run'.todo = {}
        /\ run'.rows = run.rows /\ run'.dropped = run.dropped
    BY <1>1, <1>2, <1>3
  <2>2. run'.todo \cup run'.items = run.todo \cup run.items /\ run'.todo \cap run'.items = {}
    BY <1>1, <2>1
  <2> QED BY <1>1, <2>1, <2>2, CountedSame
<1>4. ASSUME NEW failing \in SUBSET run.rows, NEW new,
             new = failing \cup {Replayer!Enriched(r) : r \in run.rows \ failing},
             run' = [run EXCEPT !.step = "enriched", !.rows = new]
      PROVE  Counted'
  <2>1. run'.step = "enriched" /\ run'.items = {} /\ run'.todo = {}
        /\ run'.rows = new /\ run'.dropped = run.dropped
    BY <1>1, <1>2, <1>4
  <2>2. PICK all, pending, rows, dropped :
          /\ all = Replayer!Items /\ pending = run.todo \cup run.items
          /\ rows = run.rows /\ dropped = run.dropped
    OBVIOUS
  <2>3. Accounts(all, pending, rows \cup dropped) /\ Once(all)
        /\ \A r \in rows, d \in dropped : Key(r) # Key(d)
    BY <2>2, ItemsOnce DEF Counted
  <2>4. \A r \in rows : Key(Replayer!Enriched(r)) = Key(r)
    BY <2>2, EnrichedKey DEF Active, Faithful
  <2>5. \A x, y \in rows : Key(x) = Key(y) => x = y
    <3> SUFFICES ASSUME NEW x \in rows, NEW y \in rows, Key(x) = Key(y) PROVE x = y
      OBVIOUS
    <3>1. x.seq = y.seq
      BY DEF Key
    <3> QED BY <2>3, <3>1 DEF Accounts
  <2>6. \A x \in new : \E y \in rows : Key(x) = Key(y)
    BY <1>4, <2>2, <2>4
  <2>7. \A y \in rows : \E x \in new : Key(x) = Key(y)
    BY <1>4, <2>2, <2>4
  <2>8. \A x, y \in new : Key(x) = Key(y) => x = y
    <3>1. \A x \in new : \E r \in rows :
            /\ Key(x) = Key(r)
            /\ x = IF r \in failing THEN r ELSE Replayer!Enriched(r)
      BY <1>4, <2>2, <2>4
    <3> QED BY <2>5, <3>1
  <2>9. Accounts(all, pending, new \cup dropped)
    BY <2>3, <2>6, <2>7, <2>8, Replaced
  <2>10. (\A r \in run.rows, d \in run.dropped : Key(r) # Key(d))'
    <3>1. \A r \in new, d \in dropped : Key(r) # Key(d)
      BY <2>3, <2>6
    <3> QED BY <2>1, <2>2, <3>1 DEF Key
  <2>11. run'.todo \cup run'.items = pending
    BY <1>1, <2>1, <2>2
  <2> QED BY <1>1, <2>1, <2>2, <2>9, <2>10, <2>11, SameItems DEF Counted
<1> QED BY <1>1, <1>3, <1>4

LEMMA DownCounted ==
  ASSUME StoreInv, Active, Counted, Replayer!Down \/ Replayer!EnrichDown \/ Replayer!NoEnrichment
  PROVE  run' = Replayer!NoRun \/ Counted'
<1>1. /\ store' = store /\ run.items = {}
      /\ \/ run' = [run EXCEPT !.step = "next", !.image = Replayer!Nothing]
         \/ run' = [run EXCEPT !.step = "report"] /\ run.todo = {}
         \/ run' = Replayer!NoRun
  BY DEF Replayer!Down, Replayer!EnrichDown, Replayer!NoEnrichment, Replayer!Abort,
         Replayer!Replaying, Counted
<1>2. run = [step |-> run.step, todo |-> run.todo, items |-> run.items, image |-> run.image,
             model |-> run.model, health |-> run.health, rows |-> run.rows, dropped |-> run.dropped]
  BY DEF Active, IsRun
<1>3. CASE run' # Replayer!NoRun
  <2>1. run'.step \in {"next", "report"} /\ (run'.step = "report" => run.todo = {})
        /\ run'.rows = run.rows /\ run'.dropped = run.dropped
        /\ run'.todo = run.todo /\ run'.items = {}
    BY <1>1, <1>2, <1>3
  <2>2. run'.todo \cup run'.items = run.todo \cup run.items /\ run'.todo \cap run'.items = {}
    BY <1>1, <2>1
  <2> QED BY <1>1, <2>1, <2>2, CountedSame
<1> QED BY <1>3

CountInv == StoreInv /\ RunInv /\ (run = Replayer!NoRun \/ Counted)

LEMMA StepCounted == ASSUME CountInv, [Next]_vars PROVE CountInv'
<1>1. StoreInv' /\ RunInv'
  BY StepStore, StepRun DEF CountInv
<1>2. CASE (Production \/ Import) /\ UNCHANGED run
  BY <1>1, <1>2, Alone DEF CountInv, Replayer!NoRun
<1>3. CASE Replay /\ run # Replayer!NoRun
  <2>1. Active /\ Counted
    BY <1>3 DEF CountInv, RunInv
  <2>2. ASSUME NEW i \in Replayer!Items, Replayer!ReplayOne(i) PROVE Counted'
    BY <2>1, <2>2, ReplayOneCounted DEF CountInv
  <2>3. CASE Replayer!WriteReport \/ Replayer!Kill
    BY <1>1, <2>3 DEF Replayer!WriteReport, Replayer!Kill, Replayer!Abort, CountInv, Replayer!NoRun
  <2>4. CASE Replayer!Down \/ Replayer!EnrichDown \/ Replayer!NoEnrichment
    <3>1. run' = Replayer!NoRun \/ Counted'
      BY <2>1, <2>4, DownCounted DEF CountInv
    <3> QED BY <1>1, <3>1 DEF CountInv, Replayer!NoRun
  <2>5. CASE Replayer!Start \/ Replayer!Up \/ Replayer!WaitHealthy \/ Replayer!Enrich
    BY <1>1, <2>1, <2>5, StartCounted, UpCounted, HealthCounted, EnrichCounted DEF CountInv
  <2> QED BY <1>1, <1>3, <2>2, <2>3, <2>4, <2>5 DEF Replay, CountInv
<1>4. CASE Replay /\ run = Replayer!NoRun
  <2>1. run.step = "none"
    BY <1>4 DEF Replayer!NoRun
  <2>2. CASE Replayer!Start
    BY <1>1, <2>2, StartCounted DEF CountInv
  <2>3. CASE Replayer!Kill
    BY <1>1, <2>3 DEF Replayer!Kill, Replayer!Abort, CountInv, Replayer!NoRun
  <2> QED BY <1>4, <2>1, <2>2, <2>3 DEF Replay, Replayer!Up, Replayer!WaitHealthy, Replayer!ReplayOne,
       Replayer!Down, Replayer!Enrich, Replayer!EnrichDown, Replayer!NoEnrichment,
       Replayer!WriteReport, Replayer!Replaying
<1>5. CASE UNCHANGED vars
  <2>1. store' = store /\ run' = run
    BY <1>5 DEF vars
  <2>2. Counted => Counted'
    BY <2>1, SameItems DEF Counted, Key
  <2> QED BY <1>1, <2>1, <2>2 DEF CountInv, Replayer!NoRun
<1> QED BY <1>2, <1>3, <1>4, <1>5 DEF Next

\* A report accounts for every stored sequence, and for each once, as a row or as
\* dropped, whichever stacks failed at whichever step: because a replay says one thing
\* of each directory, and import keeps one directory of each sequence.
THEOREM EachReportedOnce == Spec => []AccountedOnce
<1>1. Init => CountInv
  BY InitStore DEF CountInv, RunInv, Init
<1>2. ASSUME CountInv PROVE AccountedOnce
  <2> SUFFICES ASSUME Replayer!Replaying("report"), NEW i \in Replayer!Items
               PROVE  \E x \in run.rows \cup run.dropped :
                        {y \in run.rows \cup run.dropped : y.seq = i[1]} = {x}
    BY DEF AccountedOnce, Replayer!AccountedOnce
  <2>1. Counted /\ run.step = "report"
    BY <1>2 DEF CountInv, Replayer!Replaying, Replayer!NoRun
  <2>2. run.todo \cup run.items = {}
    BY <2>1 DEF Counted
  <2>3. PICK x \in run.rows \cup run.dropped : Key(x) = i
    BY <2>1, <2>2 DEF Counted, Accounts
  <2>4. x.seq = i[1]
    BY <2>3 DEF Key
  <2>5. \A y \in run.rows \cup run.dropped : y.seq = i[1] => y = x
    BY <2>1, <2>4 DEF Counted, Accounts
  <2> QED BY <2>4, <2>5
<1> QED BY <1>1, <1>2, StepCounted, PTL DEF Spec

-----------------------------------------------------------------------------
\* The frames of detections, read one detection after the other.

LEMMA LeastNatural ==
  ASSUME NEW T \in SUBSET Nat, T # {}
  PROVE  \E m \in T : \A k \in T : m <= k
<1>1. PICK m \in T : \A k \in T : ~ (<<k, m>> \in OpToRel(<, Nat))
  BY NatLessThanWellFounded, WFMin
<1>2. \A k \in T : ~ (k < m)
  BY <1>1, Zenon DEF OpToRel
<1> QED BY <1>2

\* Induction, for a property given as the set of numbers that have it.
LEMMA Induction ==
  ASSUME NEW T, 0 \in T, \A k \in Nat : k \in T => k + 1 \in T
  PROVE  \A k \in Nat : k \in T
<1> SUFFICES ASSUME {k \in Nat : k \notin T} # {} PROVE FALSE
  OBVIOUS
<1>1. PICK m \in {k \in Nat : k \notin T} : \A k \in {k \in Nat : k \notin T} : m <= k
  BY LeastNatural
<1>2. m - 1 \in Nat /\ m - 1 \in T
  BY <1>1
<1> QED BY <1>1, <1>2

\* A loop of n turns has an outcome.
Loop(f, n, B, b0, G) ==
  f \in [0..n -> B] /\ f[0] = b0 /\ \A k \in 1..n : f[k] = G[k][f[k - 1]]

LEMMA LoopEnds ==
  ASSUME NEW B, NEW b0 \in B, NEW N \in Nat, NEW G \in [1..N -> [B -> B]]
  PROVE  \E f : Loop(f, N, B, b0, G)
<1> DEFINE T == {n \in Nat : n <= N => \E f : Loop(f, n, B, b0, G)}
<1>1. 0 \in T
  <2>1. PICK f : f = [k \in 0..0 |-> b0]
    OBVIOUS
  <2>2. f \in [0..0 -> B] /\ f[0] = b0 /\ 1..0 = {}
    BY <2>1
  <2>3. Loop(f, 0, B, b0, G)
    BY <2>2 DEF Loop
  <2> QED BY <2>3
<1>2. ASSUME NEW n \in Nat, n \in T, n + 1 <= N PROVE \E f : Loop(f, n + 1, B, b0, G)
  <2>1. PICK f : Loop(f, n, B, b0, G)
    BY <1>2
  <2>2. f \in [0..n -> B] /\ f[0] = b0 /\ \A k \in 1..n : f[k] = G[k][f[k - 1]]
    BY <2>1 DEF Loop
  <2>3. PICK b : b = G[n + 1][f[n]]
    OBVIOUS
  <2>4. b \in B
    <3>1. n \in 0..n /\ n + 1 \in 1..N
      BY <1>2
    <3>2. f[n] \in B /\ G[n + 1] \in [B -> B]
      BY <2>2, <3>1
    <3> QED BY <2>3, <3>2
  <2>5. PICK g : g = [k \in 0..(n + 1) |-> IF k <= n THEN f[k] ELSE b]
    OBVIOUS
  <2>6. g \in [0..(n + 1) -> B] /\ (\A k \in 0..n : g[k] = f[k]) /\ g[n + 1] = b
    BY <2>2, <2>4, <2>5
  <2>7. ASSUME NEW k \in 1..(n + 1) PROVE g[k] = G[k][g[k - 1]]
    <3>1. CASE k = n + 1
      <4>1. k - 1 = n /\ n \in 0..n
        BY <3>1
      <4> QED BY <2>3, <2>6, <3>1, <4>1
    <3>2. CASE k # n + 1
      <4>1. k \in 1..n /\ k \in 0..n /\ k - 1 \in 0..n
        BY <3>2
      <4> QED BY <2>2, <2>6, <4>1
    <3> QED BY <3>1, <3>2
  <2>8. Loop(g, n + 1, B, b0, G)
    <3>1. 0 \in 0..n
      OBVIOUS
    <3> QED BY <2>2, <2>6, <2>7, <3>1 DEF Loop
  <2> QED BY <2>8
<1>3. \A n \in Nat : n \in T => n + 1 \in T
  BY <1>2
<1> HIDE DEF T
<1>4. \A n \in Nat : n \in T
  BY <1>1, <1>3, Induction
<1>5. N \in T
  BY <1>4
<1> QED BY <1>5 DEF T

FramesOf(dets) == {dets[k].frame : k \in DOMAIN dets}
Next1(seen, d) == IF d.frame \in RangeOf(seen) THEN seen ELSE Append(seen, d.frame)
Next2(kept, frames, d) == IF d.frame \in frames THEN Append(kept, d) ELSE kept

\* What the loops of Ordered and Subset hold after each detection.
Reads(dets, f) == f[0] = <<>> /\ \A k \in 1..Len(dets) : f[k] = Next1(f[k - 1], dets[k])
Keeps(dets, frames, f) == f[0] = <<>> /\ \A k \in 1..Len(dets) : f[k] = Next2(f[k - 1], frames, dets[k])
Seen(dets, f) == f \in [0..Len(dets) -> Seq(FramesOf(dets))] /\ Reads(dets, f)
Kept(dets, frames, f) == f \in [0..Len(dets) -> Seq(RangeOf(dets))] /\ Keeps(dets, frames, f)

LEMMA SeqShape ==
  ASSUME NEW S, NEW s \in Seq(S)
  PROVE  /\ Len(s) \in Nat /\ DOMAIN s = 1..Len(s) /\ IsSeq(s) /\ RangeOf(s) \subseteq S
<1>1. Len(s) \in Nat /\ DOMAIN s = 1..Len(s) /\ \A k \in 1..Len(s) : s[k] \in S
  OBVIOUS
<1>2. s = [k \in 1..Len(s) |-> s[k]] /\ \A k \in 1..Len(s) : s[k] \in RangeOf(s)
  BY <1>1 DEF RangeOf
<1>3. s \in Seq(RangeOf(s))
  BY <1>1, <1>2
<1> QED BY <1>1, <1>3 DEF IsSeq, RangeOf

LEMMA AppendShape ==
  ASSUME NEW S, NEW s \in Seq(S), NEW e \in S
  PROVE  /\ Append(s, e) \in Seq(S) /\ Len(Append(s, e)) = Len(s) + 1
         /\ \A k \in 1..Len(s) : Append(s, e)[k] = s[k]
         /\ Append(s, e)[Len(s) + 1] = e
         /\ RangeOf(Append(s, e)) = RangeOf(s) \cup {e}
<1>1. PICK t, n : t = Append(s, e) /\ n = Len(s)
  OBVIOUS
<1>2. /\ t \in Seq(S) /\ Len(t) = n + 1 /\ n \in Nat
      /\ \A k \in 1..n : t[k] = s[k]
      /\ t[n + 1] = e
  BY <1>1, AppendProperties
<1>3. DOMAIN t = 1..(n + 1) /\ DOMAIN s = 1..n
  BY <1>1, <1>2
<1>4. RangeOf(t) \subseteq RangeOf(s) \cup {e}
  <2> SUFFICES ASSUME NEW k \in 1..(n + 1) PROVE t[k] \in RangeOf(s) \cup {e}
    BY <1>3 DEF RangeOf
  <2>1. k = n + 1 \/ k \in 1..n
    BY <1>2
  <2> QED BY <1>2, <1>3, <2>1 DEF RangeOf
<1>5. RangeOf(s) \cup {e} \subseteq RangeOf(t)
  <2>1. \A k \in 1..n : s[k] \in RangeOf(t)
    <3> SUFFICES ASSUME NEW k \in 1..n PROVE s[k] \in RangeOf(t)
      OBVIOUS
    <3>1. k \in 1..(n + 1)
      BY <1>2
    <3> QED BY <1>2, <1>3, <3>1 DEF RangeOf
  <2>2. n + 1 \in 1..(n + 1)
    BY <1>2
  <2> QED BY <1>2, <1>3, <2>1, <2>2 DEF RangeOf
<1> QED BY <1>1, <1>2, <1>4, <1>5

LEMMA SeenExists ==
  ASSUME NEW dets, IsSeq(dets)
  PROVE  \E f : Seen(dets, f)
<1> DEFINE N == Len(dets)
           B == Seq(FramesOf(dets))
           G == [k \in 1..N |-> [b \in B |-> Next1(b, dets[k])]]
<1>1. N \in Nat /\ DOMAIN dets = 1..N
  BY DEF IsSeq
<1>2. \A k \in 1..N : dets[k].frame \in FramesOf(dets)
  BY <1>1 DEF FramesOf
<1>3. <<>> \in B
  OBVIOUS
<1>4. G \in [1..N -> [B -> B]]
  <2> SUFFICES ASSUME NEW k \in 1..N, NEW b \in B PROVE Next1(b, dets[k]) \in B
    OBVIOUS
  <2> QED BY <1>2, AppendShape DEF Next1
<1>5. PICK f : Loop(f, N, B, <<>>, G)
  <2> HIDE DEF N, B, G
  <2> QED BY <1>1, <1>3, <1>4, LoopEnds
<1>6. f \in [0..N -> B] /\ f[0] = <<>> /\ \A k \in 1..N : f[k] = G[k][f[k - 1]]
  BY <1>5 DEF Loop
<1>7. ASSUME NEW k \in 1..N PROVE f[k] = Next1(f[k - 1], dets[k])
  <2>1. k - 1 \in 0..N
    BY <1>1
  <2>2. f[k - 1] \in B
    BY <1>6, <2>1
  <2> QED BY <1>6, <2>2
<1> QED BY <1>6, <1>7 DEF Seen, Reads

\* The loops of two sequences agree as long as the sequences do.
Prefix(s, t) == IsSeq(s) /\ IsSeq(t) /\ Len(s) <= Len(t) /\ \A k \in 1..Len(s) : t[k] = s[k]

LEMMA SeenAgree ==
  ASSUME NEW s, NEW t, Prefix(s, t), NEW f, NEW g, Reads(s, f), Reads(t, g)
  PROVE  \A k \in 0..Len(s) : f[k] = g[k]
<1> DEFINE T == {k \in Nat : k <= Len(s) => f[k] = g[k]}
<1>1. Len(s) \in Nat /\ Len(t) \in Nat /\ Len(s) <= Len(t)
  BY DEF Prefix, IsSeq
<1>2. 0 \in T
  BY DEF Reads
<1>3. ASSUME NEW k \in Nat, k \in T PROVE k + 1 \in T
  <2> SUFFICES ASSUME k + 1 <= Len(s) PROVE f[k + 1] = g[k + 1]
    OBVIOUS
  <2>1. k + 1 \in 1..Len(s) /\ k + 1 \in 1..Len(t) /\ (k + 1) - 1 = k /\ f[k] = g[k]
    BY <1>1, <1>3
  <2>2. t[k + 1] = s[k + 1]
    BY <2>1 DEF Prefix
  <2>3. f[k + 1] = Next1(f[k], s[k + 1])
    <3>1. f[k + 1] = Next1(f[(k + 1) - 1], s[k + 1])
      BY <2>1 DEF Reads
    <3> QED BY <2>1, <3>1
  <2>4. g[k + 1] = Next1(g[k], t[k + 1])
    <3>1. g[k + 1] = Next1(g[(k + 1) - 1], t[k + 1])
      BY <2>1 DEF Reads
    <3> QED BY <2>1, <3>1
  <2> QED BY <2>1, <2>2, <2>3, <2>4
<1>4. \A k \in Nat : k \in T
  <2> HIDE DEF T
  <2> QED BY <1>2, <1>3, Induction
<1> QED BY <1>1, <1>4

LEMMA PrefixSelf == ASSUME NEW s, IsSeq(s) PROVE Prefix(s, s) /\ Len(s) \in Nat
BY DEF Prefix, IsSeq

LEMMA OrderedR ==
  ASSUME NEW dets, IsSeq(dets), NEW f, Seen(dets, f)
  PROVE  Replayer!Ordered(dets) = f[Len(dets)]
<1> DEFINE seen[k \in 0..Len(dets)] ==
             IF k = 0 THEN <<>>
             ELSE IF dets[k].frame \in Replayer!Range(seen[k - 1]) THEN seen[k - 1]
             ELSE Append(seen[k - 1], dets[k].frame)
<1>1. Len(dets) \in Nat
  BY DEF IsSeq
<1>2. f = [k \in 0..Len(dets) |->
             IF k = 0 THEN <<>>
             ELSE IF dets[k].frame \in Replayer!Range(f[k - 1]) THEN f[k - 1]
             ELSE Append(f[k - 1], dets[k].frame)]
  <2>1. \A k \in 0..Len(dets) : f[k] = IF k = 0 THEN <<>> ELSE Next1(f[k - 1], dets[k])
    <3>1. \A k \in 0..Len(dets) : k = 0 \/ k \in 1..Len(dets)
      BY <1>1
    <3> QED BY <1>1, <3>1 DEF Seen, Reads
  <2>2. f = [k \in 0..Len(dets) |-> IF k = 0 THEN <<>> ELSE Next1(f[k - 1], dets[k])]
    BY <2>1 DEF Seen
  <2> QED BY <2>2 DEF Next1, RangeOf, Replayer!Range
<1>3. seen = [k \in 0..Len(dets) |->
             IF k = 0 THEN <<>>
             ELSE IF dets[k].frame \in Replayer!Range(seen[k - 1]) THEN seen[k - 1]
             ELSE Append(seen[k - 1], dets[k].frame)]
  BY <1>2, Zenon
<1>4. Replayer!Ordered(dets) = seen[Len(dets)]
  BY Zenon DEF Replayer!Ordered
<1> HIDE DEF seen
<1>5. Reads(dets, seen)
  <2>1. seen[0] = <<>>
    BY <1>1, <1>3
  <2>2. ASSUME NEW k \in 1..Len(dets) PROVE seen[k] = Next1(seen[k - 1], dets[k])
    <3>1. k \in 0..Len(dets) /\ k # 0
      BY <1>1
    <3> QED BY <1>3, <3>1 DEF Next1, RangeOf, Replayer!Range
  <2> QED BY <2>1, <2>2 DEF Reads
<1>6. seen[Len(dets)] = f[Len(dets)]
  <2>1. Prefix(dets, dets) /\ Len(dets) \in 0..Len(dets)
    BY <1>1, PrefixSelf
  <2> QED BY <1>5, <2>1, SeenAgree DEF Seen
<1> QED BY <1>4, <1>6

LEMMA OrderedI ==
  ASSUME NEW dets, IsSeq(dets), NEW f, Seen(dets, f)
  PROVE  Importer!Ordered(dets) = f[Len(dets)]
<1> DEFINE seen[k \in 0..Len(dets)] ==
             IF k = 0 THEN <<>>
             ELSE IF dets[k].frame \in Importer!Range(seen[k - 1]) THEN seen[k - 1]
             ELSE Append(seen[k - 1], dets[k].frame)
<1>1. Len(dets) \in Nat
  BY DEF IsSeq
<1>2. f = [k \in 0..Len(dets) |->
             IF k = 0 THEN <<>>
             ELSE IF dets[k].frame \in Importer!Range(f[k - 1]) THEN f[k - 1]
             ELSE Append(f[k - 1], dets[k].frame)]
  <2>1. \A k \in 0..Len(dets) : f[k] = IF k = 0 THEN <<>> ELSE Next1(f[k - 1], dets[k])
    <3>1. \A k \in 0..Len(dets) : k = 0 \/ k \in 1..Len(dets)
      BY <1>1
    <3> QED BY <1>1, <3>1 DEF Seen, Reads
  <2>2. f = [k \in 0..Len(dets) |-> IF k = 0 THEN <<>> ELSE Next1(f[k - 1], dets[k])]
    BY <2>1 DEF Seen
  <2> QED BY <2>2 DEF Next1, RangeOf, Importer!Range
<1>3. seen = [k \in 0..Len(dets) |->
             IF k = 0 THEN <<>>
             ELSE IF dets[k].frame \in Importer!Range(seen[k - 1]) THEN seen[k - 1]
             ELSE Append(seen[k - 1], dets[k].frame)]
  BY <1>2, Zenon
<1>4. Importer!Ordered(dets) = seen[Len(dets)]
  BY Zenon DEF Importer!Ordered
<1> HIDE DEF seen
<1>5. Reads(dets, seen)
  <2>1. seen[0] = <<>>
    BY <1>1, <1>3
  <2>2. ASSUME NEW k \in 1..Len(dets) PROVE seen[k] = Next1(seen[k - 1], dets[k])
    <3>1. k \in 0..Len(dets) /\ k # 0
      BY <1>1
    <3> QED BY <1>3, <3>1 DEF Next1, RangeOf, Importer!Range
  <2> QED BY <2>1, <2>2 DEF Reads
<1>6. seen[Len(dets)] = f[Len(dets)]
  <2>1. Prefix(dets, dets) /\ Len(dets) \in 0..Len(dets)
    BY <1>1, PrefixSelf
  <2> QED BY <1>5, <2>1, SeenAgree DEF Seen
<1> QED BY <1>4, <1>6

LEMMA KeptExists ==
  ASSUME NEW dets, IsSeq(dets), NEW frames
  PROVE  \E f : Kept(dets, frames, f)
<1> DEFINE N == Len(dets)
           B == Seq(RangeOf(dets))
           G == [k \in 1..N |-> [b \in B |-> Next2(b, frames, dets[k])]]
<1>1. N \in Nat /\ DOMAIN dets = 1..N
  BY DEF IsSeq
<1>2. \A k \in 1..N : dets[k] \in RangeOf(dets)
  BY <1>1 DEF RangeOf
<1>3. <<>> \in B
  OBVIOUS
<1>4. G \in [1..N -> [B -> B]]
  <2> SUFFICES ASSUME NEW k \in 1..N, NEW b \in B PROVE Next2(b, frames, dets[k]) \in B
    OBVIOUS
  <2> QED BY <1>2, AppendShape DEF Next2
<1>5. PICK f : Loop(f, N, B, <<>>, G)
  <2> HIDE DEF N, B, G
  <2> QED BY <1>1, <1>3, <1>4, LoopEnds
<1>6. f \in [0..N -> B] /\ f[0] = <<>> /\ \A k \in 1..N : f[k] = G[k][f[k - 1]]
  BY <1>5 DEF Loop
<1>7. ASSUME NEW k \in 1..N PROVE f[k] = Next2(f[k - 1], frames, dets[k])
  <2>1. k - 1 \in 0..N
    BY <1>1
  <2>2. f[k - 1] \in B
    BY <1>6, <2>1
  <2> QED BY <1>6, <2>2
<1> QED BY <1>6, <1>7 DEF Kept, Keeps

LEMMA SubsetIs ==
  ASSUME NEW dets, IsSeq(dets), NEW frames, NEW f, Kept(dets, frames, f)
  PROVE  Replayer!Subset(dets, frames) = f[Len(dets)]
<1> DEFINE kept[k \in 0..Len(dets)] ==
             IF k = 0 THEN <<>>
             ELSE IF dets[k].frame \in frames THEN Append(kept[k - 1], dets[k]) ELSE kept[k - 1]
<1>1. Len(dets) \in Nat
  BY DEF IsSeq
<1>2. f = [k \in 0..Len(dets) |->
             IF k = 0 THEN <<>>
             ELSE IF dets[k].frame \in frames THEN Append(f[k - 1], dets[k]) ELSE f[k - 1]]
  <2>1. \A k \in 0..Len(dets) : f[k] = IF k = 0 THEN <<>> ELSE Next2(f[k - 1], frames, dets[k])
    <3>1. \A k \in 0..Len(dets) : k = 0 \/ k \in 1..Len(dets)
      BY <1>1
    <3> QED BY <1>1, <3>1 DEF Kept, Keeps
  <2>2. f = [k \in 0..Len(dets) |-> IF k = 0 THEN <<>> ELSE Next2(f[k - 1], frames, dets[k])]
    BY <2>1 DEF Kept
  <2> QED BY <2>2 DEF Next2
<1>3. kept = [k \in 0..Len(dets) |->
             IF k = 0 THEN <<>>
             ELSE IF dets[k].frame \in frames THEN Append(kept[k - 1], dets[k]) ELSE kept[k - 1]]
  BY <1>2, Zenon
<1>4. Replayer!Subset(dets, frames) = kept[Len(dets)]
  BY Zenon DEF Replayer!Subset
<1> HIDE DEF kept
<1>5. Keeps(dets, frames, kept)
  <2>1. kept[0] = <<>>
    BY <1>1, <1>3
  <2>2. ASSUME NEW k \in 1..Len(dets) PROVE kept[k] = Next2(kept[k - 1], frames, dets[k])
    <3>1. k \in 0..Len(dets) /\ k # 0
      BY <1>1
    <3> QED BY <1>3, <3>1 DEF Next2
  <2> QED BY <2>1, <2>2 DEF Keeps
<1>6. \A k \in Nat : k \in {j \in Nat : j <= Len(dets) => kept[j] = f[j]}
  <2>1. 0 \in {j \in Nat : j <= Len(dets) => kept[j] = f[j]}
    BY <1>5 DEF Keeps, Kept
  <2>2. ASSUME NEW k \in Nat, k + 1 <= Len(dets), kept[k] = f[k] PROVE kept[k + 1] = f[k + 1]
    <3>1. k + 1 \in 1..Len(dets) /\ (k + 1) - 1 = k
      BY <1>1, <2>2
    <3>2. kept[k + 1] = Next2(kept[(k + 1) - 1], frames, dets[k + 1])
      BY <1>5, <3>1 DEF Keeps
    <3>3. f[k + 1] = Next2(f[(k + 1) - 1], frames, dets[k + 1])
      BY <3>1 DEF Keeps, Kept
    <3> QED BY <2>2, <3>1, <3>2, <3>3
  <2>3. \A k \in Nat : k \in {j \in Nat : j <= Len(dets) => kept[j] = f[j]}
                       => k + 1 \in {j \in Nat : j <= Len(dets) => kept[j] = f[j]}
    <3> SUFFICES ASSUME NEW k \in Nat, k <= Len(dets) => kept[k] = f[k], k + 1 <= Len(dets)
                 PROVE  kept[k + 1] = f[k + 1]
      OBVIOUS
    <3>1. k <= Len(dets)
      BY <1>1
    <3> QED BY <2>2, <3>1
  <2> QED BY <2>1, <2>3, Induction
<1> QED BY <1>1, <1>4, <1>6

\* Ordered, one detection more.
LEMMA OrderedMore ==
  ASSUME NEW s, IsSeq(s), NEW d
  PROVE  /\ IsSeq(Append(s, d))
         /\ Replayer!Ordered(Append(s, d)) = Next1(Replayer!Ordered(s), d)
<1>1. PICK t, n : t = Append(s, d) /\ n = Len(s)
  OBVIOUS
<1>2. IsSeq(t)
  BY <1>1, SeqAppend
<1>3. n \in Nat /\ Len(t) = n + 1 /\ t[n + 1] = d /\ \A k \in 1..n : t[k] = s[k]
  <2>1. PICK S : S = RangeOf(s) \cup {d}
    OBVIOUS
  <2>2. s \in Seq(RangeOf(s)) /\ RangeOf(s) \subseteq S /\ d \in S
    BY <2>1 DEF IsSeq
  <2>3. s \in Seq(S)
    BY <2>2, SeqMonotonic
  <2> QED BY <1>1, <2>2, <2>3, AppendShape
<1>4. Prefix(s, t)
  BY <1>1, <1>2, <1>3 DEF Prefix
<1>5. PICK f : Seen(s, f)
  BY SeenExists
<1>6. PICK g : Seen(t, g)
  BY <1>2, SeenExists
<1>7. f[n] = g[n]
  <2>1. n \in 0..Len(s)
    BY <1>1, <1>3
  <2> QED BY <1>4, <1>5, <1>6, <2>1, SeenAgree DEF Seen
<1>8. g[n + 1] = Next1(g[n], d)
  <2>1. n + 1 \in 1..Len(t) /\ (n + 1) - 1 = n
    BY <1>3
  <2>2. g[n + 1] = Next1(g[(n + 1) - 1], t[n + 1])
    BY <1>6, <2>1 DEF Seen, Reads
  <2> QED BY <1>3, <2>1, <2>2
<1>9. Replayer!Ordered(t) = g[n + 1] /\ Replayer!Ordered(s) = f[n]
  BY <1>1, <1>2, <1>3, <1>5, <1>6, OrderedR
<1> QED BY <1>1, <1>2, <1>7, <1>8, <1>9

LEMMA OrderedNone == IsSeq(<<>>) /\ Replayer!Ordered(<<>>) = <<>>
<1>1. IsSeq(<<>>) /\ Len(<<>>) = 0
  <2>1. <<>> \in Seq({})
    OBVIOUS
  <2> QED BY <2>1, SeqShape
<1>2. PICK f : Seen(<<>>, f)
  BY <1>1, SeenExists
<1> QED BY <1>1, <1>2, OrderedR DEF Seen, Reads

\* What was seen stays seen, in its place.
LEMMA SeenGrows ==
  ASSUME NEW dets, IsSeq(dets), NEW g, Seen(dets, g), NEW j \in 0..Len(dets), NEW k \in j..Len(dets)
  PROVE  /\ Len(g[j]) \in Nat /\ Len(g[k]) \in Nat /\ Len(g[j]) <= Len(g[k])
         /\ \A x \in 1..Len(g[j]) : g[k][x] = g[j][x]
<1> DEFINE Grown(m) == /\ Len(g[m]) \in Nat /\ Len(g[j]) <= Len(g[m])
                       /\ \A x \in 1..Len(g[j]) : g[m][x] = g[j][x]
           T == {i \in Nat : j + i <= Len(dets) => Grown(j + i)}
<1>1. Len(dets) \in Nat /\ j \in Nat
  BY DEF IsSeq
<1>2. \A m \in 0..Len(dets) : g[m] \in Seq(FramesOf(dets)) /\ Len(g[m]) \in Nat
  BY DEF Seen
<1>3. 0 \in T
  BY <1>1, <1>2
<1>4. ASSUME NEW i \in Nat, j + i + 1 <= Len(dets), Grown(j + i) PROVE Grown(j + i + 1)
  <2>1. PICK m : m = j + i
    OBVIOUS
  <2>2. m \in Nat /\ m + 1 \in 1..Len(dets) /\ m \in 0..Len(dets) /\ m + 1 \in 0..Len(dets) /\ (m + 1) - 1 = m
    BY <1>1, <1>4, <2>1
  <2>3. g[m + 1] = Next1(g[m], dets[m + 1])
    <3>1. g[m + 1] = Next1(g[(m + 1) - 1], dets[m + 1])
      BY <2>2 DEF Seen, Reads
    <3> QED BY <2>2, <3>1
  <2>4. CASE g[m + 1] = g[m]
    BY <1>4, <2>1, <2>4
  <2>5. CASE g[m + 1] = Append(g[m], dets[m + 1].frame)
    <3>1. dets[m + 1].frame \in FramesOf(dets)
      <4>1. m + 1 \in DOMAIN dets
        BY <2>2 DEF IsSeq
      <4> QED BY <4>1 DEF FramesOf
    <3>2. Len(g[m + 1]) = Len(g[m]) + 1 /\ \A x \in 1..Len(g[m]) : g[m + 1][x] = g[m][x]
      BY <1>2, <2>2, <2>5, <3>1, AppendShape
    <3>3. Grown(m)
      BY <1>4, <2>1
    <3>4. Grown(m + 1)
      <4>1. \A x \in 1..Len(g[j]) : x \in 1..Len(g[m])
        BY <1>2, <2>2, <3>3
      <4>2. Len(g[j]) \in Nat
        BY <1>2
      <4> QED BY <3>2, <3>3, <4>1, <4>2
    <3> QED BY <2>1, <3>4
  <2> QED BY <2>3, <2>4, <2>5 DEF Next1
<1>5. \A i \in Nat : i \in T => i + 1 \in T
  <2> SUFFICES ASSUME NEW i \in Nat, j + i <= Len(dets) => Grown(j + i), j + (i + 1) <= Len(dets)
               PROVE  Grown(j + (i + 1))
    OBVIOUS
  <2>1. j + i <= Len(dets) /\ j + i + 1 = j + (i + 1)
    BY <1>1
  <2> HIDE DEF Grown
  <2>2. j + i + 1 <= Len(dets)
    BY <2>1
  <2>3. Grown(j + i + 1)
    BY <1>4, <2>1, <2>2
  <2> QED BY <2>1, <2>3
<1>6. \A i \in Nat : i \in T
  <2> HIDE DEF T
  <2> QED BY <1>3, <1>5, Induction
<1>7. PICK i \in Nat : k = j + i /\ j + i <= Len(dets)
  <2>1. k - j \in Nat /\ k = j + (k - j)
    BY <1>1
  <2> QED BY <1>1, <2>1
<1>8. Grown(k)
  <2> HIDE DEF Grown
  <2>1. i \in T
    BY <1>6
  <2> QED BY <1>7, <2>1
<1> QED BY <1>2, <1>8

Follows(dets, g, p, frames, kept, k) ==
  /\ IsSeq(kept) /\ Replayer!Ordered(kept) = g[IF k <= p THEN k ELSE p]
  /\ RangeOf(kept) = {dets[i] : i \in {i \in 1..k : dets[i].frame \in frames}}

\* The detections on the frames seen by the p-th detection are seen like the first p.
LEMMA KeptSeen ==
  ASSUME NEW dets, IsSeq(dets), NEW g, Seen(dets, g), NEW p \in 0..Len(dets), NEW frames,
         frames = RangeOf(g[p]), NEW f, Kept(dets, frames, f)
  PROVE  \A k \in 0..Len(dets) : Follows(dets, g, p, frames, f[k], k)
<1> DEFINE Now(k) == /\ IsSeq(f[k]) /\ Replayer!Ordered(f[k]) = g[IF k <= p THEN k ELSE p]
                     /\ RangeOf(f[k]) = {dets[i] : i \in {i \in 1..k : dets[i].frame \in frames}}
           T == {k \in Nat : k <= Len(dets) => Now(k)}
<1>1. Len(dets) \in Nat /\ p \in Nat /\ DOMAIN dets = 1..Len(dets)
  BY DEF IsSeq
<1>2. 0 \in T
  <2>1. f[0] = <<>> /\ g[0] = <<>> /\ RangeOf(<<>>) = {} /\ 1..0 = {}
    BY DEF Kept, Keeps, Seen, Reads, RangeOf
  <2> QED BY <1>1, <2>1, OrderedNone
<1>3. ASSUME NEW k \in Nat, k + 1 <= Len(dets), Now(k) PROVE Now(k + 1)
  <2>1. k + 1 \in 1..Len(dets) /\ k \in 0..Len(dets) /\ (k + 1) - 1 = k
    BY <1>1, <1>3
  <2>2. PICK d : d = dets[k + 1]
    OBVIOUS
  <2>3. f[k + 1] = Next2(f[k], frames, d)
    <3>1. f[k + 1] = Next2(f[(k + 1) - 1], frames, dets[k + 1])
      BY <2>1 DEF Kept, Keeps
    <3> QED BY <2>1, <2>2, <3>1
  <2>4. g[k + 1] = Next1(g[k], d)
    <3>1. g[k + 1] = Next1(g[(k + 1) - 1], dets[k + 1])
      BY <2>1 DEF Seen, Reads
    <3> QED BY <2>1, <2>2, <3>1
  <2>5. f[k] \in Seq(RangeOf(dets)) /\ d \in RangeOf(dets)
    BY <1>1, <2>1, <2>2 DEF Kept, RangeOf
  <2>6. CASE d.frame \notin frames
    <3>1. f[k + 1] = f[k]
      BY <2>3, <2>6 DEF Next2
    <3>2. ~(k + 1 <= p)
      <4>1. SUFFICES ASSUME k + 1 <= p PROVE FALSE
        OBVIOUS
      <4>2. d.frame \in RangeOf(g[k + 1])
        <5>1. g[k] \in Seq(FramesOf(dets)) /\ d.frame \in FramesOf(dets)
          BY <1>1, <2>1, <2>2 DEF Seen, FramesOf
        <5>2. RangeOf(Append(g[k], d.frame)) = RangeOf(g[k]) \cup {d.frame}
          BY <5>1, AppendShape
        <5> QED BY <2>4, <5>2 DEF Next1
      <4>3. /\ Len(g[k + 1]) <= Len(g[p]) /\ Len(g[p]) \in Nat /\ Len(g[k + 1]) \in Nat
            /\ \A x \in 1..Len(g[k + 1]) : g[p][x] = g[k + 1][x]
        <5>1. k + 1 \in 0..Len(dets) /\ p \in (k + 1)..Len(dets)
          BY <1>1, <2>1, <4>1
        <5> QED BY <5>1, SeenGrows
      <4>4. DOMAIN g[k + 1] = 1..Len(g[k + 1]) /\ DOMAIN g[p] = 1..Len(g[p])
        <5>1. g[k + 1] \in Seq(FramesOf(dets)) /\ g[p] \in Seq(FramesOf(dets))
          BY <1>1, <2>1 DEF Seen
        <5> QED BY <5>1, SeqShape
      <4>5. RangeOf(g[k + 1]) \subseteq RangeOf(g[p])
        <5>1. \A x \in 1..Len(g[k + 1]) : x \in 1..Len(g[p])
          BY <4>3
        <5> QED BY <4>3, <4>4, <5>1 DEF RangeOf
      <4> QED BY <2>6, <4>2, <4>5
    <3>3. (IF k <= p THEN k ELSE p) = p /\ (IF k + 1 <= p THEN k + 1 ELSE p) = p
      BY <1>1, <3>2
    <3>4. {i \in 1..(k + 1) : dets[i].frame \in frames} = {i \in 1..k : dets[i].frame \in frames}
      <4>1. \A i \in 1..(k + 1) : i \in 1..k \/ i = k + 1
        OBVIOUS
      <4>2. \A i \in 1..k : i \in 1..(k + 1)
        OBVIOUS
      <4> QED BY <2>2, <2>6, <4>1, <4>2
    <3> QED BY <1>3, <3>1, <3>3, <3>4
  <2>7. CASE d.frame \in frames
    <3>1. f[k + 1] = Append(f[k], d)
      BY <2>3, <2>7 DEF Next2
    <3>2. IsSeq(f[k + 1]) /\ Replayer!Ordered(f[k + 1]) = Next1(Replayer!Ordered(f[k]), d)
      <4>1. PICK s : s = f[k]
        OBVIOUS
      <4>2. IsSeq(s)
        BY <1>3, <4>1
      <4>3. IsSeq(Append(s, d)) /\ Replayer!Ordered(Append(s, d)) = Next1(Replayer!Ordered(s), d)
        BY <4>2, OrderedMore
      <4> QED BY <3>1, <4>1, <4>3
    <3>3. RangeOf(f[k + 1]) = RangeOf(f[k]) \cup {d}
      BY <2>5, <3>1, AppendShape
    <3>4. RangeOf(f[k + 1]) = {dets[i] : i \in {i \in 1..(k + 1) : dets[i].frame \in frames}}
      <4>1. \A i \in 1..(k + 1) : i \in 1..k \/ i = k + 1
        OBVIOUS
      <4>2. (\A i \in 1..k : i \in 1..(k + 1)) /\ k + 1 \in 1..(k + 1)
        OBVIOUS
      <4>3. RangeOf(f[k]) = {dets[i] : i \in {i \in 1..k : dets[i].frame \in frames}}
        BY <1>3
      <4>4. {i \in 1..(k + 1) : dets[i].frame \in frames} = {i \in 1..k : dets[i].frame \in frames} \cup {k + 1}
        BY <2>2, <2>7, <4>1, <4>2
      <4> QED BY <2>2, <3>3, <4>3, <4>4
    <3>5. Replayer!Ordered(f[k + 1]) = g[IF k + 1 <= p THEN k + 1 ELSE p]
      <4>1. CASE k + 1 <= p
        <5>1. k <= p
          BY <1>1, <4>1
        <5>2. Replayer!Ordered(f[k]) = g[k]
          BY <1>3, <5>1
        <5> QED BY <2>4, <3>2, <4>1, <5>2
      <4>2. CASE ~(k + 1 <= p)
        <5>1. (IF k <= p THEN k ELSE p) = p
          BY <1>1, <4>2
        <5>2. Replayer!Ordered(f[k]) = g[p]
          BY <1>3, <5>1
        <5>3. Next1(g[p], d) = g[p]
          BY <2>7 DEF Next1
        <5> QED BY <3>2, <4>2, <5>2, <5>3
      <4> QED BY <4>1, <4>2
    <3> QED BY <3>2, <3>4, <3>5
  <2> QED BY <2>6, <2>7
<1> HIDE DEF Now
<1>4. \A k \in Nat : k \in T => k + 1 \in T
  BY <1>1, <1>3
<1>5. \A k \in Nat : k \in T
  <2> HIDE DEF T
  <2> QED BY <1>2, <1>4, Induction
<1>6. \A k \in 0..Len(dets) : Now(k)
  BY <1>1, <1>5
<1> QED BY <1>6, Zenon DEF Now, Follows

\* The window of a prefix of the detections is read like that prefix, although it has
\* what came later on its frames.
LEMMA WindowOfPrefix ==
  ASSUME NEW s, NEW dets, Prefix(s, dets)
  PROVE  \E n, w, o, all :
           /\ n \in Nat /\ o = Replayer!Ordered(s) /\ n = Len(o) /\ IsSeq(o)
           /\ all = Replayer!Ordered(dets) /\ Len(all) \in Nat /\ n <= Len(all)
           /\ n = Len(all) => all = o
           /\ w = Replayer!Window(dets, n) /\ IsSeq(w) /\ Replayer!Ordered(w) = o
           /\ RangeOf(w) = {d \in RangeOf(dets) : d.frame \in RangeOf(o)}
<1>1. IsSeq(s) /\ IsSeq(dets) /\ Len(s) \in Nat /\ Len(dets) \in Nat /\ Len(s) <= Len(dets)
  BY DEF Prefix, IsSeq
<1>2. PICK f : Seen(s, f)
  BY <1>1, SeenExists
<1>3. PICK g : Seen(dets, g)
  BY <1>1, SeenExists
<1>4. PICK p, N, o, all : p = Len(s) /\ N = Len(dets) /\ o = g[p] /\ all = g[N]
  OBVIOUS
<1>5. p \in 0..Len(s) /\ p \in 0..Len(dets) /\ N \in p..Len(dets) /\ N \in 0..Len(dets)
  BY <1>1, <1>4
<1>6. o = Replayer!Ordered(s) /\ all = Replayer!Ordered(dets)
  <2>1. f[p] = g[p]
    BY <1>2, <1>3, <1>5, SeenAgree DEF Seen
  <2> QED BY <1>1, <1>2, <1>3, <1>4, <2>1, OrderedR
<1>7. o \in Seq(FramesOf(dets)) /\ all \in Seq(FramesOf(dets))
  BY <1>3, <1>4, <1>5 DEF Seen
<1>8. /\ Len(o) \in Nat /\ Len(all) \in Nat /\ Len(o) <= Len(all)
      /\ \A x \in 1..Len(o) : all[x] = o[x]
  BY <1>1, <1>3, <1>4, <1>5, SeenGrows
<1>9. PICK n : n = Len(o)
  OBVIOUS
<1>10. IsSeq(o) /\ DOMAIN o = 1..n /\ DOMAIN all = 1..Len(all)
  BY <1>7, <1>9, SeqShape
<1>11. n = Len(all) => all = o
  <2> SUFFICES ASSUME n = Len(all) PROVE all = o
    OBVIOUS
  <2>1. o = [x \in 1..Len(o) |-> o[x]] /\ all = [x \in 1..Len(all) |-> all[x]]
    BY <1>7
  <2>2. \A x \in 1..n : all[x] = o[x]
    BY <1>8, <1>9
  <2> QED BY <1>9, <2>1, <2>2
<1>12. SubSeq(all, 1, n) = o
  <2>1. \A x \in 1..n : all[x] \in FramesOf(dets)
    BY <1>7, <1>8, <1>9
  <2>2. PICK q : q = SubSeq(all, 1, n)
    OBVIOUS
  <2>3. 1 \in Int /\ n \in Int /\ n \in Nat
    BY <1>8, <1>9
  <2>4. /\ q \in Seq(FramesOf(dets)) /\ Len(q) = (IF 1 <= n THEN n - 1 + 1 ELSE 0)
        /\ \A x \in 1..(n - 1 + 1) : q[x] = all[1 + x - 1]
    BY <2>1, <2>2, <2>3, SubSeqProperties
  <2>5. Len(q) = n
    BY <2>3, <2>4
  <2>6. \A x \in 1..n : q[x] = all[x]
    <3> SUFFICES ASSUME NEW x \in 1..n PROVE q[x] = all[x]
      OBVIOUS
    <3>1. x \in 1..(n - 1 + 1) /\ 1 + x - 1 = x
      BY <2>3
    <3> QED BY <2>4, <3>1
  <2>7. q = [x \in 1..n |-> q[x]] /\ o = [x \in 1..n |-> o[x]]
    BY <1>7, <1>9, <2>4, <2>5
  <2>8. \A x \in 1..n : q[x] = o[x]
    BY <1>8, <1>9, <2>6
  <2> QED BY <2>2, <2>7, <2>8
<1>13. PICK frames : frames = RangeOf(o)
  OBVIOUS
<1>14. PICK h : Kept(dets, frames, h)
  BY <1>1, KeptExists
<1>15. PICK w : w = h[N]
  OBVIOUS
<1>16. w = Replayer!Window(dets, n)
  <2>1. Replayer!Range(SubSeq(all, 1, n)) = frames
    BY <1>12, <1>13 DEF Replayer!Range, RangeOf
  <2>2. Replayer!Subset(dets, frames) = w
    BY <1>1, <1>4, <1>14, <1>15, SubsetIs
  <2> QED BY <1>6, <2>1, <2>2 DEF Replayer!Window
<1>17. /\ IsSeq(w) /\ Replayer!Ordered(w) = g[IF N <= p THEN N ELSE p]
       /\ RangeOf(w) = {dets[i] : i \in {i \in 1..N : dets[i].frame \in frames}}
  <2>1. frames = RangeOf(g[p])
    BY <1>4, <1>13
  <2>2. \A k \in 0..Len(dets) : Follows(dets, g, p, frames, h[k], k)
    BY <1>1, <1>3, <1>5, <1>14, <2>1, KeptSeen
  <2>3. N \in 0..Len(dets)
    BY <1>5
  <2>4. Follows(dets, g, p, frames, w, N)
    BY <1>15, <2>2, <2>3
  <2> QED BY <2>4 DEF Follows
<1>18. (IF N <= p THEN N ELSE p) = p
  BY <1>1, <1>4
<1>19. RangeOf(w) = {d \in RangeOf(dets) : d.frame \in RangeOf(o)}
  <2>1. DOMAIN dets = 1..N
    BY <1>1, <1>4 DEF IsSeq
  <2> QED BY <1>13, <1>17, <2>1 DEF RangeOf
<1>20. Replayer!Ordered(w) = o
  BY <1>4, <1>17, <1>18
<1> QED BY <1>6, <1>8, <1>9, <1>10, <1>11, <1>16, <1>17, <1>19, <1>20

-----------------------------------------------------------------------------
\* What was scored is a prefix of what is stored.

Fits(rated, dets) ==
  \/ rated = None
  \/ \E s : /\ Prefix(s, dets) /\ MinFrames <= Len(Replayer!Ordered(s))
            /\ rated.of = Replayer!Request(s)

FitMeta(m) == m \in {None, Importer!Cut} \/ Fits(m.score, m.dets)

ScoreInv ==
  /\ score = [s \in Sequence |-> score[s]]
  /\ \A s \in Sequence : Fits(score[s], boxes[s])
  /\ job.step # "none" => \A s \in Sequence : Fits(job.listed[s], boxes[s])
  /\ job.step \in {"purge", "fetch"} => FitMeta(job.meta)
  /\ \A s \in Sequence, h \in Home : FitMeta(store[s][h].meta)

LEMMA SameRequest ==
  ASSUME NEW s, IsSeq(s)
  PROVE  Importer!Ordered(s) = Replayer!Ordered(s) /\ Importer!Request(s) = Replayer!Request(s)
<1>1. PICK f : Seen(s, f)
  BY SeenExists
<1>2. Importer!Ordered(s) = Replayer!Ordered(s)
  BY <1>1, OrderedR, OrderedI
<1>3. PICK o : o = Importer!Ordered(s)
  OBVIOUS
<1>4. Importer!LastN(o, MaxFrames) = Replayer!LastN(o, MaxFrames)
  BY DEF Importer!LastN, Replayer!LastN
<1>5. Importer!Request(s) = Replayer!Request(s)
  BY <1>2, <1>3, <1>4 DEF Importer!Request, Replayer!Request, Importer!Range, Replayer!Range
<1> QED BY <1>2, <1>5

LEMMA ScoresFit ==
  ASSUME NEW dets, IsSeq(dets), NEW r \in Importer!Scores(dets)
  PROVE  Fits(r, dets)
<1>1. PICK f : Seen(dets, f)
  BY SeenExists
<1>2. Len(Replayer!Ordered(dets)) \in Nat
  <2>1. Len(dets) \in 0..Len(dets)
    BY PrefixSelf
  <2>2. f[Len(dets)] \in Seq(FramesOf(dets))
    BY <1>1, <2>1 DEF Seen
  <2> QED BY <1>1, <2>2, OrderedR
<1>3. CASE r # None
  <2>1. ~(Len(Importer!Ordered(dets)) < MinFrames)
        /\ \E v \in Version : r = Importer!Score(v, Serves[v], dets)
    BY <1>3 DEF Importer!Scores, None
  <2>2. r.of = Importer!Request(dets)
    BY <2>1 DEF Importer!Score
  <2>3. MinFrames <= Len(Replayer!Ordered(dets))
    BY <1>2, <2>1, SameRequest, MonitorAssumption
  <2> QED BY <2>2, <2>3, SameRequest, PrefixSelf DEF Fits
<1> QED BY <1>3 DEF Fits

LEMMA FitsMore ==
  ASSUME NEW rated, NEW dets, IsSeq(dets), Fits(rated, dets), NEW d
  PROVE  Fits(rated, Append(dets, d))
<1>1. PICK t : t = Append(dets, d)
  OBVIOUS
<1>2. Prefix(dets, t)
  <2>1. IsSeq(t)
    BY <1>1, SeqAppend
  <2>2. PICK S : S = RangeOf(dets) \cup {d}
    OBVIOUS
  <2>3. dets \in Seq(RangeOf(dets)) /\ RangeOf(dets) \subseteq S /\ d \in S
    BY <2>2 DEF IsSeq
  <2>4. dets \in Seq(S)
    BY <2>3, SeqMonotonic
  <2>5. Len(t) = Len(dets) + 1 /\ Len(dets) \in Nat /\ \A k \in 1..Len(dets) : t[k] = dets[k]
    BY <1>1, <2>3, <2>4, AppendShape
  <2> QED BY <2>1, <2>5 DEF Prefix
<1>3. ASSUME NEW s, Prefix(s, dets) PROVE Prefix(s, t)
  <2>1. Len(s) \in Nat /\ Len(dets) \in Nat /\ Len(t) \in Nat
    BY <1>2, <1>3 DEF Prefix, IsSeq
  <2>2. Len(s) <= Len(dets) /\ Len(dets) <= Len(t)
    BY <1>2, <1>3 DEF Prefix
  <2>3. \A k \in 1..Len(s) : k \in 1..Len(dets)
    BY <2>1, <2>2
  <2> QED BY <1>2, <1>3, <2>1, <2>2, <2>3 DEF Prefix
<1> QED BY <1>1, <1>3 DEF Fits

LEMMA InitScore == Init => ScoreInv
<1> SUFFICES ASSUME Init PROVE ScoreInv
  OBVIOUS
<1>1. PICK dets : dets = <<Importer!Detection(1, 1)>>
  OBVIOUS
<1>2. /\ boxes = [s \in Sequence |-> dets]
      /\ score \in [Sequence -> Importer!Scores(dets)]
      /\ store = [s \in Sequence |-> [h \in Home |-> Importer!NoDir]]
      /\ job.step = "none"
  BY <1>1 DEF Init, Importer!Init, Importer!NoJob
<1>3. \A s \in Sequence : IsSeq(boxes[s])
  BY InitStore DEF StoreInv
<1>4. \A s \in Sequence : Fits(score[s], boxes[s])
  <2> SUFFICES ASSUME NEW s \in Sequence PROVE Fits(score[s], boxes[s])
    OBVIOUS
  <2>1. PICK r : r = score[s]
    OBVIOUS
  <2>2. r \in Importer!Scores(dets) /\ IsSeq(dets)
    BY <1>2, <1>3, <2>1
  <2> QED BY <1>2, <2>1, <2>2, ScoresFit
<1>5. \A s \in Sequence, h \in Home : FitMeta(store[s][h].meta)
  BY <1>2 DEF FitMeta, Importer!NoDir, None
<1> QED BY <1>2, <1>4, <1>5 DEF ScoreInv

LEMMA ProductionScore == ASSUME StoreInv, ScoreInv, Production PROVE ScoreInv'
<1>1. store' = store /\ job' = job
  BY DEF Production, Importer!Detect, Importer!Rate, Importer!Rename, Importer!Event
<1>2. \A s \in Sequence : IsSeq(boxes[s])
  BY DEF StoreInv
<1>3. ASSUME NEW t, NEW d, boxes' = [boxes EXCEPT ![t] = Append(@, d)], score' = score PROVE ScoreInv'
  <2>1. \A s \in Sequence : boxes'[s] = boxes[s] \/ boxes'[s] = Append(boxes[s], d)
    BY <1>3 DEF StoreInv
  <2>2. ASSUME NEW r, NEW s \in Sequence, Fits(r, boxes[s]) PROVE Fits(r, boxes'[s])
    <3>1. PICK b : b = boxes[s]
      OBVIOUS
    <3>2. Fits(r, Append(b, d))
      BY <1>2, <2>2, <3>1, FitsMore
    <3> QED BY <2>1, <2>2, <3>1, <3>2
  <2>3. \A s \in Sequence : Fits(score'[s], boxes'[s])
    BY <1>3, <2>2 DEF ScoreInv
  <2>4. job'.step # "none" => \A s \in Sequence : Fits(job'.listed[s], boxes'[s])
    BY <1>1, <2>2 DEF ScoreInv
  <2> QED BY <1>1, <1>3, <2>3, <2>4 DEF ScoreInv
<1>4. ASSUME NEW t \in Live, Importer!Rate(t) PROVE ScoreInv'
  <2>1. PICK r \in Importer!Scores(boxes[t]) : score' = [score EXCEPT ![t] = r] /\ boxes' = boxes
    BY <1>4 DEF Importer!Rate
  <2>2. t \in Sequence
    BY MonitorAssumption
  <2>3. Fits(r, boxes[t])
    <3>1. PICK b : b = boxes[t]
      OBVIOUS
    <3>2. IsSeq(b) /\ r \in Importer!Scores(b)
      BY <1>2, <2>1, <2>2, <3>1
    <3> QED BY <3>1, <3>2, ScoresFit
  <2>4. score' = [s \in Sequence |-> score'[s]] /\ \A s \in Sequence : Fits(score'[s], boxes[s])
    BY <2>1, <2>3 DEF ScoreInv
  <2> QED BY <1>1, <2>1, <2>4 DEF ScoreInv
<1>5. CASE Importer!Rename
  BY <1>1, <1>5 DEF Importer!Rename, ScoreInv
<1>6. ASSUME NEW t \in Live, Importer!Detect(t) PROVE ScoreInv'
  <2>1. PICK d : boxes' = [boxes EXCEPT ![t] = Append(@, d)] /\ score' = score
    BY <1>6 DEF Importer!Detect
  <2> QED BY <1>3, <2>1
<1> QED BY <1>4, <1>5, <1>6 DEF Production

\* A step of the import keeps the answers of the alert API and what was listed.
LEMMA ListedKept ==
  ASSUME ScoreInv, score' = score, boxes' = boxes,
         job'.step # "none" => job.step # "none" /\ job'.listed = job.listed,
         job'.step \in {"purge", "fetch"} => FitMeta(job'.meta),
         \A s \in Sequence, h \in Home : FitMeta(store'[s][h].meta)
  PROVE  ScoreInv'
BY DEF ScoreInv

\* What a kill leaves of the files has the same meta.json, none or one cut off.
LEMMA LeftMetas ==
  ASSUME StoreInv, store' \in Importer!Interrupted
  PROVE  \A s \in Sequence, h \in Home :
           store'[s][h].meta \in {store[s][h].meta, None, Importer!Cut}
<1>1. CASE store' = store
  BY <1>1
<1>2. CASE Busy /\ job.step = "purge" /\ \E f : KilledPurge(job.seq, f)
  <2>1. PICK s \in Sequence : s = job.seq
    BY <1>2 DEF Busy
  <2>2. PICK f : KilledPurge(s, f)
    BY <1>2, <2>1
  <2>3. \A h \in Home : IsDir(f[h]) /\ f[h].meta \in {store[s][h].meta, None}
    <3> SUFFICES ASSUME NEW h \in Home PROVE IsDir(f[h]) /\ f[h].meta \in {store[s][h].meta, None}
      OBVIOUS
    <3>1. PICK e : e = store[s][h]
      OBVIOUS
    <3>2. IsDir(e)
      BY <3>1 DEF StoreInv, Shaped
    <3> QED BY <2>2, <3>1, <3>2, LeftLess DEF KilledPurge, Less
  <2>4. store'[s] = f /\ \A t \in Sequence : t # s => store'[t] = store[t]
    BY <2>2, <2>3, OneSequence DEF KilledPurge, StoreInv
  <2> QED BY <2>3, <2>4
<1>3. CASE Busy /\ job.step = "fetch" /\ (KilledFetch(job.seq, job.home) \/ KilledMeta(job.seq, job.home))
  <2>1. PICK s \in Sequence, k \in Home : s = job.seq /\ k = job.home
    BY <1>3 DEF Busy
  <2>2. PICK o : o = store[s][k]
    OBVIOUS
  <2>3. o = [meta |-> o.meta, images |-> o.images, torn |-> o.torn]
    BY <2>2 DEF StoreInv, Shaped, IsDir
  <2>4. PICK d : /\ store' = [store EXCEPT ![s][k] = d]
                 /\ IsDir(d) /\ d.meta \in {o.meta, Importer!Cut}
    <3>1. CASE KilledFetch(s, k)
      <4>1. PICK d : d = [meta |-> o.meta, images |-> o.images \ {Head(job.left)},
                          torn |-> o.torn \cup {Head(job.left)}]
        OBVIOUS
      <4>2. IsDir(d) /\ d.meta = o.meta
        BY <4>1 DEF IsDir
      <4>3. store' = [store EXCEPT ![s][k] = d]
        BY <2>2, <3>1, <4>1 DEF KilledFetch
      <4> QED BY <4>2, <4>3
    <3>2. CASE KilledMeta(s, k)
      <4>1. PICK d : d = [meta |-> Importer!Cut, images |-> o.images, torn |-> o.torn]
        OBVIOUS
      <4>2. IsDir(d) /\ d.meta = Importer!Cut /\ [o EXCEPT !.meta = Importer!Cut] = d
        BY <2>3, <4>1 DEF IsDir
      <4>3. store' = [store EXCEPT ![s][k] = d]
        BY <2>2, <3>2, <4>2 DEF KilledMeta
      <4> QED BY <4>2, <4>3
    <3> QED BY <1>3, <2>1, <3>1, <3>2
  <2>5. /\ Shaped' /\ store'[s][k] = d
        /\ \A g \in Home : g # k => store'[s][g] = store[s][g]
        /\ \A t \in Sequence : t # s => store'[t] = store[t]
    <3>1. Shaped /\ IsDir(d) /\ store' = [store EXCEPT ![s][k] = d]
      BY <2>4 DEF StoreInv
    <3>2. store'[s][k] = d
      BY <3>1 DEF Shaped
    <3> QED BY <3>1, <3>2, OneDir
  <2> QED BY <2>2, <2>4, <2>5
<1> QED BY <1>1, <1>2, <1>3, Interrupts

LEMMA SameMetas ==
  ASSUME ScoreInv,
         \A s \in Sequence, h \in Home :
           store'[s][h].meta \in {store[s][h].meta, None, Importer!Cut}
  PROVE  \A s \in Sequence, h \in Home : FitMeta(store'[s][h].meta)
BY DEF ScoreInv, FitMeta

LEMMA ImportScore == ASSUME StoreInv, ScoreInv, Import PROVE ScoreInv'
<1> USE DEF Importer!alerts
<1>0. \A s \in Sequence, h \in Home : FitMeta(store[s][h].meta)
  BY DEF ScoreInv
<1>1. ASSUME NEW force \in BOOLEAN, Importer!Start(force) PROVE ScoreInv'
  <2>1. score' = score /\ boxes' = boxes /\ store' = store
        /\ job'.step = "next" /\ job'.listed = score
    BY <1>1 DEF Importer!Start
  <2> QED BY <2>1 DEF ScoreInv
<1>2. ASSUME NEW s \in Sequence, Importer!Skip(s) \/ Importer!Fails(s) PROVE ScoreInv'
  <2>1. /\ score' = score /\ boxes' = boxes /\ store' = store /\ Importer!Over(s)
        /\ job.step \in {"next", "fetch"}
    BY <1>2 DEF Importer!Skip, Importer!Fails, Importer!IsNext, Importer!Importing
  <2>2. job'.step = "next" /\ job'.listed = job.listed
    BY <2>1 DEF Importer!Over
  <2> QED BY <1>0, <2>1, <2>2, ListedKept
<1>3. ASSUME NEW s \in Sequence, Importer!Begin(s) PROVE ScoreInv'
  <2>1. /\ score' = score /\ boxes' = boxes /\ store' = store /\ job.step = "next"
        /\ job' = [step |-> "purge", force |-> job.force, home |-> job.home, listed |-> job.listed,
                   todo |-> job.todo, seq |-> s, left |-> boxes[s],
                   meta |-> [dets |-> boxes[s], score |-> job.listed[s]]]
    BY <1>3 DEF Importer!Begin, Importer!IsNext, Importer!Importing
  <2>2. job'.step = "purge" /\ job'.listed = job.listed
        /\ job'.meta.dets = boxes[s] /\ job'.meta.score = job.listed[s]
    BY <2>1
  <2>3. FitMeta(job'.meta)
    BY <2>1, <2>2 DEF ScoreInv, FitMeta
  <2> QED BY <1>0, <2>1, <2>2, <2>3, ListedKept
<1>4. CASE Importer!RemoveStale
  <2>1. score' = score /\ boxes' = boxes /\ job.step = "purge"
        /\ job' = [job EXCEPT !.step = "fetch"] /\ Importer!Purge
    BY <1>4 DEF Importer!RemoveStale, Importer!Importing
  <2>2. Busy
    BY <2>1 DEF StoreInv, Between
  <2>3. job' = [step |-> "fetch", force |-> job.force, home |-> job.home, listed |-> job.listed,
                todo |-> job.todo, seq |-> job.seq, left |-> job.left, meta |-> job.meta]
    BY <2>1, <2>2 DEF Busy
  <2>4. job'.step = "fetch" /\ job'.listed = job.listed /\ job'.meta = job.meta
    BY <2>3
  <2>5. PICK s \in Sequence : s = job.seq
    BY <2>2 DEF Busy
  <2>6. PICK f : f = [h \in Home |-> IF h \in Importer!Stale THEN Importer!NoDir ELSE store[s][h]]
    OBVIOUS
  <2>7. store' = [store EXCEPT ![s] = f]
    <3>1. store[s] = [h \in Home |-> store[s][h]]
      BY DEF StoreInv, Shaped
    <3> QED BY <2>1, <2>5, <2>6, <3>1 DEF Importer!Purge
  <2>8. \A h \in Home : f[h].meta \in {store[s][h].meta, None}
    BY <2>6 DEF Importer!NoDir, None
  <2>9. store'[s] = f /\ \A t \in Sequence : t # s => store'[t] = store[t]
    <3>1. store = [t \in Sequence |-> store[t]]
      BY DEF StoreInv, Shaped
    <3> QED BY <2>7, <3>1
  <2>10. \A t \in Sequence, h \in Home : FitMeta(store'[t][h].meta)
    BY <2>8, <2>9, SameMetas
  <2> QED BY <2>1, <2>4, <2>10, ListedKept DEF ScoreInv
<1>5. CASE Importer!Fetch
  <2>1. /\ score' = score /\ boxes' = boxes /\ job.step = "fetch"
        /\ job' = [job EXCEPT !.left = Tail(@)]
        /\ store' = [store EXCEPT ![job.seq][job.home] = Importer!Written(Head(job.left))]
    BY <1>5 DEF Importer!Fetch, Importer!Importing, Importer!WithDir
  <2>2. Busy
    BY <2>1 DEF StoreInv, Between
  <2>3. job' = [step |-> "fetch", force |-> job.force, home |-> job.home, listed |-> job.listed,
                todo |-> job.todo, seq |-> job.seq, left |-> Tail(job.left), meta |-> job.meta]
    BY <2>1, <2>2 DEF Busy
  <2>4. job'.step = "fetch" /\ job'.listed = job.listed /\ job'.meta = job.meta
    BY <2>3
  <2>5. PICK s \in Sequence, k \in Home : s = job.seq /\ k = job.home
    BY <2>2 DEF Busy
  <2>6. PICK d : d = Importer!Written(Head(job.left))
    OBVIOUS
  <2>7. d.meta = store[s][k].meta /\ IsDir(d)
    BY <2>5, <2>6 DEF Importer!Written, Importer!Dir, IsDir
  <2>8. store' = [store EXCEPT ![s][k] = d]
    BY <2>1, <2>5, <2>6
  <2>9. /\ Shaped' /\ store'[s][k] = d
        /\ \A g \in Home : g # k => store'[s][g] = store[s][g]
        /\ \A t \in Sequence : t # s => store'[t] = store[t]
    <3>1. Shaped /\ IsDir(d) /\ store' = [store EXCEPT ![s][k] = d]
      BY <2>7, <2>8 DEF StoreInv
    <3>2. store'[s][k] = d
      BY <3>1 DEF Shaped
    <3> QED BY <3>1, <3>2, OneDir
  <2>10. \A t \in Sequence, h \in Home : store'[t][h].meta = store[t][h].meta
    BY <2>7, <2>9
  <2> QED BY <1>0, <2>1, <2>4, <2>10, ListedKept DEF ScoreInv
<1>6. CASE Importer!WriteMeta
  <2>1. /\ score' = score /\ boxes' = boxes /\ job.step = "fetch" /\ Importer!Over(job.seq)
        /\ store' = [store EXCEPT ![job.seq][job.home] = [Importer!Dir EXCEPT !.meta = job.meta]]
    BY <1>6 DEF Importer!WriteMeta, Importer!Importing, Importer!WithDir
  <2>2. Busy
    BY <2>1 DEF StoreInv, Between
  <2>3. PICK s \in Sequence, k \in Home : s = job.seq /\ k = job.home
    BY <2>2 DEF Busy
  <2>4. PICK o, m : o = store[s][k] /\ m = job.meta
    OBVIOUS
  <2>5. o = [meta |-> o.meta, images |-> o.images, torn |-> o.torn]
    BY <2>3, <2>4 DEF StoreInv, Shaped, IsDir
  <2>6. PICK d : d = [meta |-> m, images |-> o.images, torn |-> o.torn]
    OBVIOUS
  <2>7. d.meta = m /\ IsDir(d)
    BY <2>6 DEF IsDir
  <2>8. store' = [store EXCEPT ![s][k] = d]
    <3>1. [Importer!Dir EXCEPT !.meta = job.meta] = d
      BY <2>3, <2>4, <2>5, <2>6 DEF Importer!Dir
    <3> QED BY <2>1, <2>3, <3>1
  <2>9. /\ Shaped' /\ store'[s][k] = d
        /\ \A g \in Home : g # k => store'[s][g] = store[s][g]
        /\ \A t \in Sequence : t # s => store'[t] = store[t]
    <3>1. Shaped /\ IsDir(d) /\ store' = [store EXCEPT ![s][k] = d]
      BY <2>7, <2>8 DEF StoreInv
    <3>2. store'[s][k] = d
      BY <3>1 DEF Shaped
    <3> QED BY <3>1, <3>2, OneDir
  <2>10. FitMeta(m)
    BY <2>1, <2>4 DEF ScoreInv
  <2>11. \A t \in Sequence, h \in Home : FitMeta(store'[t][h].meta)
    BY <1>0, <2>7, <2>9, <2>10
  <2>12. job'.step = "next" /\ job'.listed = job.listed
    BY <2>1 DEF Importer!Over
  <2> QED BY <2>1, <2>11, <2>12, ListedKept
<1>7. CASE Importer!Done \/ Importer!Kill
  <2>1. score' = score /\ boxes' = boxes /\ job'.step = "none"
        /\ (store' = store \/ store' \in Importer!Interrupted)
    BY <1>7 DEF Importer!Done, Importer!Kill, Importer!NoJob
  <2>2. \A s \in Sequence, h \in Home : FitMeta(store'[s][h].meta)
    BY <1>0, <2>1, LeftMetas, SameMetas
  <2> QED BY <2>1, <2>2, ListedKept
<1> QED BY <1>1, <1>2, <1>3, <1>4, <1>5, <1>6, <1>7 DEF Import

LEMMA StepScore == ASSUME StoreInv, ScoreInv, [Next]_vars PROVE ScoreInv'
<1>1. CASE Production
  BY <1>1, ProductionScore
<1>2. CASE Import
  BY <1>2, ImportScore
<1>3. CASE Replay /\ UNCHANGED <<importing, kills>>
  BY <1>3, ReplayReads DEF importing, ScoreInv
<1>4. CASE UNCHANGED vars
  BY <1>4 DEF vars, importing, ScoreInv
<1> QED BY <1>1, <1>2, <1>3, <1>4 DEF Next

-----------------------------------------------------------------------------
\* What replay makes of what import stored.

Sound(i) ==
  /\ i \in Sequence \X Home
  /\ Replayer!Meta(i) \notin {None, Importer!Cut} /\ Replayer!Meta(i).score # None

Explained(r) ==
  LET i    == <<r.seq, r.home>>
      dets == Replayer!Range(Replayer!Meta(i).dets)
      late == {d \in dets : d.frame \in Replayer!Range(r.score.of.frames)} # r.score.of.roi
  IN  r.probed /\ ~late /\ dets \subseteq Replayer!Disk(i).images => r.matches \/ r.window > 0

\* The body of a request depends on the frames in their order and the boxes on the last.
LEMMA RequestOf ==
  ASSUME NEW t, NEW o, IsSeq(o), Replayer!Ordered(t) = o
  PROVE  \E kept : /\ kept = Replayer!LastN(o, MaxFrames) /\ RangeOf(kept) \subseteq RangeOf(o)
                   /\ Replayer!Request(t) =
                        [frames |-> kept, roi |-> {d \in RangeOf(t) : d.frame \in RangeOf(kept)}]
<1>1. PICK kept : kept = Replayer!LastN(o, MaxFrames)
  OBVIOUS
<1>2. RangeOf(kept) \subseteq RangeOf(o)
  <2>1. PICK n, a : n = Len(o) /\ a = IF n <= MaxFrames THEN 1 ELSE n - MaxFrames + 1
    OBVIOUS
  <2>2. n \in Nat /\ DOMAIN o = 1..n /\ MaxFrames \in Nat \ {0}
    BY <2>1, MonitorAssumption DEF IsSeq
  <2>3. a \in Int /\ a >= 1
    BY <2>1, <2>2
  <2>4. \A x \in a..n : o[x] \in RangeOf(o)
    BY <2>2, <2>3 DEF RangeOf
  <2>5. kept = SubSeq(o, a, n)
    BY <1>1, <2>1 DEF Replayer!LastN
  <2>6. kept \in Seq(RangeOf(o))
    <3>1. a \in Int /\ n \in Int
      BY <2>2, <2>3
    <3> QED BY <2>4, <2>5, <3>1, SubSeqProperties
  <2> QED BY <2>6, SeqShape
<1>3. Replayer!Request(t) =
        [frames |-> kept, roi |-> {d \in RangeOf(t) : d.frame \in RangeOf(kept)}]
  BY <1>1 DEF Replayer!Request, Replayer!Range, RangeOf
<1> QED BY <1>1, <1>2, <1>3

LEMMA FilesOf == ASSUME NEW t PROVE Replayer!Files(t) \subseteq RangeOf(t)
BY DEF Replayer!Files, RangeOf

\* A window that reproduces the request that was scored is found by a search that no
\* probe ends.
LEMMA RowExplained ==
  ASSUME ScoreInv, NEW i, Sound(i), run.health = run.model, Replayer!Refused(i) = "none",
         NEW raising
  PROVE  Explained(Replayer!Row(i, raising))
<1>1. PICK m, dets, rated : m = Replayer!Meta(i) /\ dets = m.dets /\ rated = m.score
  OBVIOUS
<1>2. PICK images, model : images = Replayer!Disk(i).images /\ model = run.model
  OBVIOUS
<1>3. i = <<i[1], i[2]>> /\ i[1] \in Sequence /\ i[2] \in Home
  BY DEF Sound
<1>4. Fits(rated, dets) /\ rated # None
  <2>1. FitMeta(m) /\ m \notin {None, Importer!Cut} /\ rated # None
    BY <1>1, <1>3 DEF ScoreInv, Sound, Replayer!Meta
  <2> QED BY <1>1, <2>1 DEF FitMeta
<1>5. PICK s : /\ Prefix(s, dets) /\ MinFrames <= Len(Replayer!Ordered(s))
               /\ rated.of = Replayer!Request(s)
  BY <1>4 DEF Fits
<1>6. PICK n, w, o, all :
         /\ n \in Nat /\ o = Replayer!Ordered(s) /\ n = Len(o) /\ IsSeq(o)
         /\ all = Replayer!Ordered(dets) /\ Len(all) \in Nat /\ n <= Len(all)
         /\ n = Len(all) => all = o
         /\ w = Replayer!Window(dets, n) /\ IsSeq(w) /\ Replayer!Ordered(w) = o
         /\ RangeOf(w) = {d \in RangeOf(dets) : d.frame \in RangeOf(o)}
  BY <1>5, WindowOfPrefix
<1>7. PICK kept : /\ kept = Replayer!LastN(o, MaxFrames) /\ RangeOf(kept) \subseteq RangeOf(o)
                  /\ rated.of =
                       [frames |-> kept, roi |-> {d \in RangeOf(s) : d.frame \in RangeOf(kept)}]
  <2>1. IsSeq(o) /\ Replayer!Ordered(s) = o
    BY <1>6
  <2> QED BY <1>5, <2>1, RequestOf
<1>8. rated.of.frames = kept
  BY <1>7
<1>9. rated.of = [frames |-> kept, roi |-> rated.of.roi]
  BY <1>7
<1>10. model = rated.model
  BY <1>1, <1>2 DEF Replayer!Refused
<1>11. PICK p, recorded : p = Replayer!Probability(model, dets, i) /\ recorded = Replayer!Recorded(i)
  OBVIOUS
<1>12. recorded = [model |-> model, of |-> rated.of]
  BY <1>1, <1>10, <1>11 DEF Replayer!Recorded
<1>13. PICK r : r = Replayer!Row(i, raising)
  OBVIOUS
<1>14. /\ <<r.seq, r.home>> = i /\ r.score = rated /\ r.matches = (p = recorded)
       /\ r.window = IF p = recorded THEN 0 ELSE Replayer!Matching(i, raising)
       /\ r.probed = (p = recorded \/ raising = {})
  <2>1. PICK t : t = IF run.image \in WithTrigger THEN p ELSE Replayer!None
    OBVIOUS
  <2>2. PICK x, q : x = (IF p = recorded THEN 0 ELSE Replayer!Matching(i, raising))
                    /\ q = (p = recorded \/ raising = {})
    OBVIOUS
  <2>3. r = [seq |-> i[1], home |-> i[2], score |-> rated, replayed |-> p,
             matches |-> p = recorded, window |-> x, trigger |-> t, by |-> run.image, probed |-> q]
    BY <1>1, <1>2, <1>11, <1>13, <2>1, <2>2 DEF Replayer!Row
  <2>4. r.seq = i[1] /\ r.home = i[2] /\ r.score = rated /\ r.matches = (p = recorded)
        /\ r.window = x /\ r.probed = q
    BY <2>3
  <2> QED BY <1>3, <2>2, <2>4
<1>15. SUFFICES ASSUME RangeOf(dets) \subseteq images, p # recorded, raising = {},
                       {d \in RangeOf(dets) : d.frame \in RangeOf(kept)} = rated.of.roi
                PROVE  Replayer!Matching(i, {}) > 0
  <2>1. Replayer!Range(dets) = RangeOf(dets) /\ Replayer!Range(kept) = RangeOf(kept)
    BY DEF Replayer!Range, RangeOf
  <2>2. Replayer!Range(Replayer!Meta(i).dets) = RangeOf(dets)
    BY <1>1, <2>1
  <2> QED BY <1>2, <1>8, <1>13, <1>14, <2>1, <2>2 DEF Explained
<1>16. ASSUME NEW t, Replayer!Ordered(t) = o, RangeOf(t) \subseteq RangeOf(dets),
              \A d \in RangeOf(dets) : d.frame \in RangeOf(kept) => d \in RangeOf(t)
       PROVE  Replayer!Probability(model, t, i) = recorded
  <2>1. Replayer!Request(t) = [frames |-> kept, roi |-> {d \in RangeOf(t) : d.frame \in RangeOf(kept)}]
    BY <1>6, <1>7, <1>16, RequestOf
  <2>2. {d \in RangeOf(t) : d.frame \in RangeOf(kept)} = rated.of.roi
    BY <1>15, <1>16
  <2>3. Replayer!Request(t) = rated.of
    BY <1>9, <2>1, <2>2
  <2>4. Replayer!Files(t) \subseteq Replayer!Disk(i).images
    BY <1>2, <1>15, <1>16, FilesOf
  <2> QED BY <1>12, <2>3, <2>4 DEF Replayer!Probability
<1>17. n # Len(all)
  <2>1. SUFFICES ASSUME n = Len(all) PROVE FALSE
    OBVIOUS
  <2>2. Replayer!Ordered(dets) = o
    BY <1>6, <2>1
  <2> QED BY <1>11, <1>15, <1>16, <2>2
<1>18. Replayer!Probability(run.model, Replayer!Window(dets, n), i) = recorded
  <2>1. Replayer!Probability(model, w, i) = recorded
    BY <1>6, <1>7, <1>16
  <2> QED BY <1>2, <1>6, <2>1
<1>19. n \in Replayer!Windows(i) /\ Replayer!Windows(i) \subseteq Nat \ {0}
  <2>1. Replayer!Windows(i) = MinFrames..(Len(all) - 1)
    BY <1>1, <1>6 DEF Replayer!Windows
  <2>2. MinFrames <= n /\ n <= Len(all) /\ n # Len(all) /\ n \in Nat /\ Len(all) \in Nat
    BY <1>5, <1>6, <1>17
  <2>3. MinFrames \in Nat \ {0}
    BY MonitorAssumption
  <2> QED BY <2>1, <2>2, <2>3
<1>20. PICK stops : stops = {k \in Replayer!Windows(i) :
            \/ k \in {}
            \/ Replayer!Probability(run.model, Replayer!Window(Replayer!Meta(i).dets, k), i)
                 = Replayer!Recorded(i)}
  OBVIOUS
<1>21. n \in stops /\ stops \in SUBSET Nat /\ \A k \in stops : k \in Nat \ {0}
  BY <1>1, <1>11, <1>18, <1>19, <1>20
<1>22. Replayer!Min(stops) \in stops
  <2>1. PICK k \in stops : \A j \in stops : k <= j
    BY <1>21, LeastNatural
  <2> QED BY <2>1 DEF Replayer!Min
<1>23. Replayer!Matching(i, {}) = Replayer!Min(stops)
  <2>1. stops # {}
    BY <1>21
  <2> QED BY <1>20, <2>1 DEF Replayer!Matching
<1>24. PICK first : first = Replayer!Matching(i, {})
  OBVIOUS
<1>25. first \in Nat \ {0}
  BY <1>21, <1>22, <1>23, <1>24
<1>26. first > 0
  BY <1>25
<1> QED BY <1>24, <1>26

Drift ==
  /\ \A i \in run.todo \cup run.items : Sound(i)
  /\ \A r \in run.rows : Explained(r)

\* The store stands still under a replay, and so does what a row says of it.
LEMMA StandsStill ==
  ASSUME store' = store
  PROVE  (\A i : Sound(i)' <=> Sound(i)) /\ (\A r : Explained(r)' <=> Explained(r))
<1>1. \A i : Replayer!Meta(i)' = Replayer!Meta(i) /\ Replayer!Disk(i)' = Replayer!Disk(i)
  BY DEF Replayer!Meta, Replayer!Disk
<1>2. \A i : Sound(i)' <=> Sound(i)
  BY <1>1 DEF Sound, None, Importer!None, Importer!Cut
<1>3. \A r : Explained(r)' <=> Explained(r)
  BY <1>1 DEF Explained, Replayer!Range
<1> QED BY <1>2, <1>3

LEMMA DriftKept ==
  ASSUME Drift, store' = store, run'.todo \cup run'.items \subseteq run.todo \cup run.items,
         \A r \in run'.rows : r \in run.rows \/ Explained(r)
  PROVE  Drift'
<1>1. \A i \in run'.todo \cup run'.items : Sound(i)'
  BY StandsStill DEF Drift
<1>2. \A r \in run'.rows : Explained(r)'
  BY StandsStill DEF Drift
<1> QED BY <1>1, <1>2 DEF Drift

LEMMA StartDrift == ASSUME Replayer!Start PROVE Drift'
<1>1. /\ store' = store /\ run'.items = {} /\ run'.rows = {}
      /\ \A i \in run'.todo : /\ i \in Replayer!Items
                              /\ Replayer!Meta(i).score # Replayer!None
                              /\ Replayer!Meta(i) # Replayer!Cut
  BY DEF Replayer!Start
<1>2. \A i \in run'.todo : Sound(i)
  BY <1>1 DEF Sound, Replayer!Items, Replayer!MetaDirs, Replayer!Meta, None, Importer!None,
              Replayer!None, Importer!Cut, Replayer!Cut
<1>3. \A i \in run'.todo : Sound(i)'
  BY <1>1, <1>2, StandsStill
<1> QED BY <1>1, <1>3 DEF Drift

\* A step that makes no row, and takes up no item that was not pending.
LEMMA RoutineDrift ==
  ASSUME Active, Drift,
         \/ Replayer!Up \/ Replayer!WaitHealthy \/ Replayer!Down
         \/ Replayer!EnrichDown \/ Replayer!NoEnrichment
  PROVE  run' = Replayer!NoRun \/ Drift'
<1>1. run = [step |-> run.step, todo |-> run.todo, items |-> run.items, image |-> run.image,
             model |-> run.model, health |-> run.health, rows |-> run.rows, dropped |-> run.dropped]
  BY DEF Active, IsRun
<1>2. CASE Replayer!Up
  <2>1. PICK g \in SUBSET run.todo :
          /\ store' = store
          /\ \/ \E v, m : run' = [run EXCEPT !.step = "health", !.image = v, !.model = m,
                                             !.todo = @ \ g, !.items = g]
             \/ \E d : run' = [run EXCEPT !.todo = @ \ g, !.dropped = @ \cup d]
    BY <1>2 DEF Replayer!Up, Replayer!Group
  <2>2. /\ run'.todo \cup run'.items \subseteq run.todo \cup run.items
        /\ run'.rows = run.rows
    BY <1>1, <2>1
  <2> QED BY <2>1, <2>2, DriftKept
<1>3. CASE Replayer!WaitHealthy
  <2>1. /\ store' = store
        /\ \/ run' = [run EXCEPT !.step = "items", !.health = run.model]
           \/ \E d : run' = [run EXCEPT !.step = "items", !.items = {}, !.dropped = @ \cup d]
    BY <1>3 DEF Replayer!WaitHealthy
  <2>2. run'.todo \cup run'.items \subseteq run.todo \cup run.items /\ run'.rows = run.rows
    BY <1>1, <2>1
  <2> QED BY <2>1, <2>2, DriftKept
<1>4. CASE Replayer!Down \/ Replayer!EnrichDown \/ Replayer!NoEnrichment
  <2>1. /\ store' = store
        /\ \/ run' = [run EXCEPT !.step = "next", !.image = Replayer!Nothing]
           \/ run' = [run EXCEPT !.step = "report"]
           \/ run' = Replayer!NoRun
    BY <1>4 DEF Replayer!Down, Replayer!EnrichDown, Replayer!NoEnrichment, Replayer!Abort
  <2>2. CASE run' # Replayer!NoRun
    <3>1. run'.todo = run.todo /\ run'.items = run.items /\ run'.rows = run.rows
      BY <1>1, <2>1, <2>2
    <3> QED BY <2>1, <3>1, DriftKept
  <2> QED BY <2>2
<1> QED BY <1>2, <1>3, <1>4

LEMMA ReplayOneDrift ==
  ASSUME Active, ScoreInv, Drift, NEW i, Replayer!ReplayOne(i) PROVE Drift'
<1>1. /\ store' = store /\ run.step = "items" /\ i \in run.items
      /\ \/ \E d : run' = [Replayer!Finish(i) EXCEPT !.dropped = @ \cup d]
         \/ /\ Replayer!Refused(i) = "none"
            /\ \E raising : run' = [Replayer!Finish(i) EXCEPT !.rows = @ \cup {Replayer!Row(i, raising)}]
  BY DEF Replayer!ReplayOne, Replayer!Replaying
<1>2. run = [step |-> run.step, todo |-> run.todo, items |-> run.items, image |-> run.image,
             model |-> run.model, health |-> run.health, rows |-> run.rows, dropped |-> run.dropped]
  BY DEF Active, IsRun
<1>3. PICK u : u = Replayer!Finish(i)
  OBVIOUS
<1>4. /\ u = [step |-> u.step, todo |-> u.todo, items |-> u.items, image |-> u.image,
              model |-> u.model, health |-> u.health, rows |-> u.rows, dropped |-> u.dropped]
      /\ u.todo = run.todo /\ u.items = run.items \ {i} /\ u.rows = run.rows
  BY <1>1, <1>2, <1>3 DEF Replayer!Finish
<1>5. /\ run'.todo \cup run'.items \subseteq run.todo \cup run.items
      /\ \A r \in run'.rows : r \in run.rows \/ Explained(r)
  <2>1. CASE \E d : run' = [Replayer!Finish(i) EXCEPT !.dropped = @ \cup d]
    <3>1. PICK d : run' = [u EXCEPT !.dropped = @ \cup d]
      BY <1>3, <2>1
    <3>2. run'.todo = run.todo /\ run'.items = run.items \ {i} /\ run'.rows = run.rows
      BY <1>4, <3>1
    <3> QED BY <3>2
  <2>2. CASE /\ Replayer!Refused(i) = "none"
             /\ \E raising : run' = [Replayer!Finish(i) EXCEPT !.rows = @ \cup {Replayer!Row(i, raising)}]
    <3>1. PICK raising : run' = [u EXCEPT !.rows = @ \cup {Replayer!Row(i, raising)}]
      BY <1>3, <2>2
    <3>2. PICK r : r = Replayer!Row(i, raising)
      OBVIOUS
    <3>3. Sound(i) /\ run.health = run.model
      BY <1>1 DEF Active, Drift
    <3>4. Explained(Replayer!Row(i, raising))
      BY <2>2, <3>3, RowExplained
    <3>5. run'.todo = run.todo /\ run'.items = run.items \ {i} /\ run'.rows = run.rows \cup {r}
      BY <1>4, <3>1, <3>2
    <3> QED BY <3>2, <3>4, <3>5
  <2> QED BY <1>1, <2>1, <2>2
<1> QED BY <1>1, <1>5, DriftKept

LEMMA EnrichedExplained ==
  ASSUME NEW r, IsRow(r), Explained(r) PROVE Explained(Replayer!Enriched(r))
<1>1. PICK e, p : e = Replayer!Enriched(r) /\ p = Replayer!Newly(<<r.seq, r.home>>)
  OBVIOUS
<1>2. e = IF p = r.replayed THEN [r EXCEPT !.trigger = p] ELSE r
  BY <1>1 DEF Replayer!Enriched
<1>3. /\ e.seq = r.seq /\ e.home = r.home /\ e.score = r.score /\ e.matches = r.matches
      /\ e.window = r.window /\ e.probed = r.probed
  BY <1>2 DEF IsRow
<1>4. Explained(e)
  BY <1>3 DEF Explained
<1> QED BY <1>1, <1>4

LEMMA EnrichDrift == ASSUME Active, Drift, Replayer!Enrich PROVE Drift'
<1>1. /\ store' = store
      /\ \/ \E failing \in SUBSET run.rows :
              run' = [run EXCEPT !.step = "enriched",
                        !.rows = failing \cup {Replayer!Enriched(r) : r \in run.rows \ failing}]
         \/ run' = [run EXCEPT !.step = "enriched"]
  BY DEF Replayer!Enrich
<1>2. run = [step |-> run.step, todo |-> run.todo, items |-> run.items, image |-> run.image,
             model |-> run.model, health |-> run.health, rows |-> run.rows, dropped |-> run.dropped]
  BY DEF Active, IsRun
<1>3. \A r \in run.rows : Explained(Replayer!Enriched(r))
  BY EnrichedExplained DEF Active, Faithful, Drift
<1>4. PICK rows : /\ run' = [run EXCEPT !.step = "enriched", !.rows = rows]
                  /\ \A r \in rows : r \in run.rows \/ Explained(r)
  <2>1. CASE run' = [run EXCEPT !.step = "enriched"]
    <3>1. run' = [run EXCEPT !.step = "enriched", !.rows = run.rows]
      BY <1>2, <2>1
    <3> QED BY <3>1
  <2>2. ASSUME NEW failing \in SUBSET run.rows, NEW rows,
               rows = failing \cup {Replayer!Enriched(r) : r \in run.rows \ failing}
        PROVE  \A r \in rows : r \in run.rows \/ Explained(r)
    BY <1>3, <2>2
  <2> QED BY <1>1, <2>1, <2>2
<1>5. run'.todo = run.todo /\ run'.items = run.items /\ run'.rows = rows
  BY <1>2, <1>4
<1> QED BY <1>1, <1>4, <1>5, DriftKept

DriftInv == StoreInv /\ ScoreInv /\ RunInv /\ (run = Replayer!NoRun \/ Drift)

LEMMA StepDrift == ASSUME DriftInv, [Next]_vars PROVE DriftInv'
<1>1. StoreInv' /\ ScoreInv' /\ RunInv'
  BY StepStore, StepScore, StepRun DEF DriftInv
<1>2. CASE (Production \/ Import) /\ UNCHANGED run
  BY <1>1, <1>2, Alone DEF DriftInv, Replayer!NoRun
<1>3. CASE Replay /\ run # Replayer!NoRun
  <2>1. Active /\ Drift /\ ScoreInv
    BY <1>3 DEF DriftInv, RunInv
  <2>2. ASSUME NEW i \in Replayer!Items, Replayer!ReplayOne(i) PROVE Drift'
    BY <2>1, <2>2, ReplayOneDrift
  <2>3. CASE Replayer!WriteReport \/ Replayer!Kill
    BY <1>1, <2>3 DEF Replayer!WriteReport, Replayer!Kill, Replayer!Abort, DriftInv, Replayer!NoRun
  <2>4. CASE Replayer!Start
    BY <1>1, <2>4, StartDrift DEF DriftInv
  <2>5. CASE Replayer!Enrich
    BY <1>1, <2>1, <2>5, EnrichDrift DEF DriftInv
  <2>6. CASE \/ Replayer!Up \/ Replayer!WaitHealthy \/ Replayer!Down
             \/ Replayer!EnrichDown \/ Replayer!NoEnrichment
    <3>1. run' = Replayer!NoRun \/ Drift'
      BY <2>1, <2>6, RoutineDrift
    <3> QED BY <1>1, <3>1 DEF DriftInv, Replayer!NoRun
  <2> QED BY <1>1, <1>3, <2>2, <2>3, <2>4, <2>5, <2>6 DEF Replay, DriftInv
<1>4. CASE Replay /\ run = Replayer!NoRun
  <2>1. run.step = "none"
    BY <1>4 DEF Replayer!NoRun
  <2>2. CASE Replayer!Start
    BY <1>1, <2>2, StartDrift DEF DriftInv
  <2>3. CASE Replayer!Kill
    BY <1>1, <2>3 DEF Replayer!Kill, Replayer!Abort, DriftInv, Replayer!NoRun
  <2> QED BY <1>4, <2>1, <2>2, <2>3 DEF Replay, Replayer!Up, Replayer!WaitHealthy, Replayer!ReplayOne,
       Replayer!Down, Replayer!Enrich, Replayer!EnrichDown, Replayer!NoEnrichment,
       Replayer!WriteReport, Replayer!Replaying
<1>5. CASE UNCHANGED vars
  <2>1. store' = store /\ run' = run
    BY <1>5 DEF vars
  <2>2. Drift => Drift'
    BY <2>1, DriftKept
  <2> QED BY <1>1, <2>1, <2>2 DEF DriftInv, Replayer!NoRun
<1> QED BY <1>2, <1>3, <1>4, <1>5 DEF Next, DriftInv

\* A row that neither matches nor names a window means drift of the service: what import
\* stored, whatever was renamed, killed or imported again, has the request that production
\* scored as one of its windows, unless a box came later on a frame that had been scored.
THEOREM DriftIsGenuine == Spec => []DriftExplained
<1>1. Init => DriftInv
  <2>1. Init => RunInv /\ run = Replayer!NoRun
    BY DEF Init, RunInv
  <2> QED BY <2>1, InitStore, InitScore DEF DriftInv
<1>2. DriftInv => DriftExplained
  BY DEF DriftInv, Drift, Explained, DriftExplained, Replayer!DriftExplained, Replayer!Rows
<1> QED BY <1>1, <1>2, StepDrift, PTL DEF Spec
=============================================================================
