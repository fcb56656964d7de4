-------------------------- MODULE ApiServer_proofs --------------------------
(***************************************************************************)
(* What the server guarantees for every number of clients and threads,     *)
(* every cache size and every set of requests: predictions are serialised, *)
(* the cache does not change between a look-up and the read that follows,  *)
(* and the frames of a request are on disk exactly while it needs them.    *)
(***************************************************************************)
EXTENDS ApiServer, TLAPS, SequenceTheorems

Outside == {"idle", "auth", "fetch"}
AtLock  == {"lock"} \cup Inference

\* The queue of the lock, and who holds it: what serialises the predictions.
LockInv ==
  /\ pc \in [Client -> Outside \cup AtLock]
  /\ lockq \in Seq(Client)
  /\ \A i, k \in DOMAIN lockq : lockq[i] = lockq[k] => i = k
  /\ \A i \in DOMAIN lockq : pc[lockq[i]] \in AtLock
  /\ \A c \in Client : pc[c] \in Inference => Holder(c)
-----------------------------------------------------------------------------
\* The four ways a step of a client touches the lock.
Keeps(c)    == lockq' = lockq /\ pc[c] \in Outside /\ \E p \in Outside : Goto(c, p)
Enqueues(c) == lockq' = Append(lockq, c) /\ pc[c] \in Outside /\ Goto(c, "lock")
Advances(c) == lockq' = lockq /\ Holder(c) /\ \E p \in Inference : Goto(c, p)
Leaves(c)   == lockq' = Tail(lockq) /\ pc[c] \in Inference /\ Goto(c, "idle")

LEMMA Footprint ==
  ASSUME LockInv, NEW c \in Client, Handle(c) \/ \E j \in Job : Submit(c, j)
  PROVE  Keeps(c) \/ Enqueues(c) \/ Advances(c) \/ Leaves(c)
<1>1. ASSUME NEW j \in Job, Submit(c, j) PROVE Keeps(c)
  BY <1>1 DEF Submit, Keeps, Outside
<1>2. ASSUME Check(c) PROVE Keeps(c)
  <2>1. lockq' = lockq /\ pc[c] \in Outside
    BY <1>2 DEF Check, OnThread, Outside
  <2>2. Goto(c, "idle") \/ Goto(c, "fetch")
    BY <1>2 DEF Check, Fail, Finish
  <2> QED BY <2>1, <2>2 DEF Keeps, Outside
<1>3. ASSUME Fetched(c) PROVE Enqueues(c)
  BY <1>3 DEF Fetched, Enqueues, OnThread, Outside
<1>4. ASSUME FetchFails(c) PROVE Keeps(c)
  BY <1>4 DEF FetchFails, Fail, Finish, Keeps, OnThread, Outside
<1>5. ASSUME Acquire(c) PROVE Advances(c)
  BY <1>5 DEF Acquire, Enter, Advances, Inference
<1>6. ASSUME NEW p \in Inference, OnThread(c, p), lockq' = lockq,
             UNCHANGED pc \/ \E q \in Inference : Goto(c, q)
      PROVE  Advances(c)
  <2>1. pc[c] = p /\ Holder(c)
    BY <1>6 DEF OnThread, LockInv
  <2>2. UNCHANGED pc => Goto(c, p)
    BY <2>1 DEF Goto, LockInv
  <2> QED BY <1>6, <2>1, <2>2 DEF Advances
<1>7. ASSUME Supplied(c) PROVE Advances(c)
  BY <1>6, <1>7 DEF Supplied, shared, Inference
<1>8. ASSUME Lookup(c) PROVE Advances(c)
  BY <1>6, <1>8 DEF Lookup, shared, Inference
<1>9. ASSUME Get(c) PROVE Advances(c)
  BY <1>6, <1>9 DEF Get, Inference
<1>10. ASSUME Detect(c) PROVE Advances(c)
  BY <1>6, <1>10 DEF Detect, shared, Inference
<1>11. ASSUME Store(c) PROVE Advances(c)
  BY <1>6, <1>11 DEF Store, Inference
<1>12. ASSUME Predict(c) PROVE Leaves(c)
  BY <1>12 DEF Predict, Finish, Release, Leaves, OnThread, Inference
<1>13. ASSUME PredictFails(c) PROVE Leaves(c)
  BY <1>13 DEF PredictFails, Fail, Finish, Release, Leaves, OnThread, Inference
<1> QED BY <1>1, <1>2, <1>3, <1>4, <1>5, <1>7, <1>8, <1>9, <1>10, <1>11, <1>12, <1>13 DEF Handle

LEMMA InitLock == Init => LockInv
BY DEF Init, LockInv, Outside, Inference

LEMMA KeepsLock == ASSUME LockInv, NEW c \in Client, Keeps(c) PROVE LockInv'
<1>1. PICK p \in Outside : pc' = [pc EXCEPT ![c] = p]
  BY DEF Keeps, Goto
<1>2. c \notin {lockq[i] : i \in DOMAIN lockq}
  BY DEF LockInv, Keeps, Outside, AtLock, Inference
<1>3. \A d \in Client : d # c => pc'[d] = pc[d]
  BY <1>1 DEF LockInv
<1>4. pc'[c] = p /\ p \notin Inference
  BY <1>1 DEF LockInv, Outside, Inference
<1>5. \A i \in DOMAIN lockq : lockq[i] \in Client
  BY DEF LockInv
<1>6. pc' \in [Client -> Outside \cup AtLock]
  BY <1>1 DEF LockInv
<1> QED BY <1>2, <1>3, <1>4, <1>5, <1>6 DEF LockInv, Keeps, Holder

LEMMA EnqueuesLock == ASSUME LockInv, NEW c \in Client, Enqueues(c) PROVE LockInv'
<1>1. /\ lockq \in Seq(Client) /\ lockq' = Append(lockq, c)
      /\ pc' = [pc EXCEPT ![c] = "lock"] /\ pc[c] \in Outside
  BY DEF LockInv, Enqueues, Goto
<1>2. /\ lockq' \in Seq(Client) /\ Len(lockq') = Len(lockq) + 1
      /\ \A i \in 1..Len(lockq) : lockq'[i] = lockq[i]
      /\ lockq'[Len(lockq) + 1] = c
  BY <1>1, AppendProperties
<1>3. Len(lockq) \in Nat /\ DOMAIN lockq = 1..Len(lockq) /\ DOMAIN lockq' = 1..(Len(lockq) + 1)
  BY <1>1, <1>2
<1>4. \A i \in DOMAIN lockq : lockq[i] # c /\ lockq[i] \in Client
  BY <1>1 DEF LockInv, Outside, AtLock, Inference
<1>5. \A i, k \in DOMAIN lockq' : lockq'[i] = lockq'[k] => i = k
  BY <1>2, <1>3, <1>4 DEF LockInv
<1>6. pc' \in [Client -> Outside \cup AtLock] /\ pc'[c] = "lock"
      /\ \A d \in Client : d # c => pc'[d] = pc[d]
  BY <1>1 DEF LockInv, AtLock
<1>7. \A i \in DOMAIN lockq' : pc'[lockq'[i]] \in AtLock
  BY <1>2, <1>3, <1>4, <1>6 DEF LockInv, AtLock
<1>8. ASSUME NEW d \in Client, pc'[d] \in Inference PROVE Holder(d)'
  <2>1. d # c /\ Holder(d)
    BY <1>6, <1>8 DEF LockInv, Inference
  <2>2. lockq # <<>> /\ lockq[1] = d
    BY <2>1, <1>1 DEF Holder
  <2>3. lockq' # <<>> /\ lockq'[1] = d
    BY <2>2, <1>1, <1>2, <1>3
  <2> QED BY <2>3, <1>2 DEF Holder
<1> QED BY <1>2, <1>5, <1>6, <1>7, <1>8 DEF LockInv

LEMMA AdvancesLock == ASSUME LockInv, NEW c \in Client, Advances(c) PROVE LockInv'
<1>1. PICK p \in Inference : pc' = [pc EXCEPT ![c] = p]
  BY DEF Advances, Goto
<1>2. pc' \in [Client -> Outside \cup AtLock] /\ pc'[c] \in AtLock
      /\ \A d \in Client : d # c => pc'[d] = pc[d]
  BY <1>1 DEF LockInv, AtLock
<1>3. lockq' = lockq /\ Holder(c) /\ \A i \in DOMAIN lockq : lockq[i] \in Client
  BY DEF Advances, LockInv
<1> QED BY <1>2, <1>3 DEF LockInv, Holder

LEMMA LeavesLock == ASSUME LockInv, NEW c \in Client, Leaves(c) PROVE LockInv'
<1>1. /\ lockq \in Seq(Client) /\ lockq' = Tail(lockq) /\ lockq # <<>> /\ lockq[1] = c
      /\ pc' = [pc EXCEPT ![c] = "idle"]
  BY DEF LockInv, Leaves, Goto, Holder
<1>2. Len(lockq) \in Nat /\ DOMAIN lockq = 1..Len(lockq)
  BY <1>1
<1>3. /\ lockq' \in Seq(Client) /\ Len(lockq') = Len(lockq) - 1
      /\ \A i \in 1..(Len(lockq) - 1) : lockq'[i] = lockq[i + 1]
  BY <1>1, HeadTailProperties
<1>4. DOMAIN lockq' = 1..(Len(lockq) - 1)
  BY <1>2, <1>3
<1>5. \A i \in DOMAIN lockq' : i + 1 \in DOMAIN lockq /\ i + 1 # 1 /\ 1 \in DOMAIN lockq
  BY <1>2, <1>4
<1>6. \A i \in DOMAIN lockq' : lockq'[i] # c /\ lockq'[i] \in Client
  BY <1>1, <1>3, <1>4, <1>5 DEF LockInv
<1>7. \A i, k \in DOMAIN lockq' : lockq'[i] = lockq'[k] => i = k
  <2> SUFFICES ASSUME NEW i \in DOMAIN lockq', NEW k \in DOMAIN lockq', lockq'[i] = lockq'[k]
               PROVE i = k
    OBVIOUS
  <2>1. lockq[i + 1] = lockq[k + 1]
    BY <1>3, <1>4
  <2>2. i + 1 = k + 1
    BY <2>1, <1>5 DEF LockInv
  <2> QED BY <2>2, <1>2, <1>4
<1>8. pc' \in [Client -> Outside \cup AtLock] /\ pc'[c] = "idle"
      /\ \A d \in Client : d # c => pc'[d] = pc[d]
  BY <1>1 DEF LockInv, Outside
<1>9. \A i \in DOMAIN lockq' : pc'[lockq'[i]] \in AtLock
  BY <1>3, <1>4, <1>5, <1>6, <1>8 DEF LockInv
<1>10. \A d \in Client : pc'[d] \notin Inference
  <2> SUFFICES ASSUME NEW d \in Client, pc'[d] \in Inference PROVE FALSE
    OBVIOUS
  <2>1. d # c /\ Holder(d)
    BY <1>8 DEF LockInv, Inference
  <2> QED BY <2>1, <1>1 DEF Holder
<1> QED BY <1>3, <1>7, <1>8, <1>9, <1>10 DEF LockInv

LEMMA NextLock == LockInv /\ [Next]_vars => LockInv'
<1> SUFFICES ASSUME LockInv, [Next]_vars PROVE LockInv'
  OBVIOUS
<1>1. ASSUME NEW c \in Client, Handle(c) \/ \E j \in Job : Submit(c, j) PROVE LockInv'
  BY <1>1, Footprint, KeepsLock, EnqueuesLock, AdvancesLock, LeavesLock
<1>2. ASSUME UNCHANGED vars PROVE LockInv'
  BY <1>2 DEF vars, shared, LockInv, Holder
<1> QED BY <1>1, <1>2 DEF Next
-----------------------------------------------------------------------------
\* Whatever the number of clients and of threads, no two predictions overlap between
\* their first look at the cache and their answer.
THEOREM PredictionsSerialised == Spec => []Serialised
<1>1. LockInv => Serialised
  BY DEF LockInv, Serialised, Holder
<1> QED BY <1>1, InitLock, NextLock, PTL DEF Spec
-----------------------------------------------------------------------------
\* What is known of the rest of the state.
DataInv ==
  /\ DOMAIN job = Client /\ DOMAIN at = Client
  /\ tmp \subseteq Client
KeyInv == LockInv /\ DataInv /\ NoKeyError

LEMMA NextData == ASSUME DataInv, [Next]_vars PROVE DataInv'
<1>1. ASSUME NEW c \in Client, NEW j \in Job, Submit(c, j) PROVE DataInv'
  BY <1>1 DEF Submit, local, DataInv
<1>2. ASSUME NEW c \in Client, NEW r, Finish(c, r), job' = job PROVE DataInv'
  BY <1>2 DEF Finish, DataInv
<1>3. ASSUME NEW c \in Client, Check(c) PROVE DataInv'
  <2>1. job' = job
    BY <1>3 DEF Check
  <2>2. ASSUME UNCHANGED local, tmp' \subseteq tmp \cup {c} PROVE DataInv'
    BY <2>1, <2>2 DEF local, DataInv
  <2> QED BY <1>2, <1>3, <2>1, <2>2 DEF Check, Fail
<1>4. ASSUME NEW c \in Client, FetchFails(c) \/ Predict(c) \/ PredictFails(c) PROVE DataInv'
  BY <1>2, <1>4 DEF FetchFails, Predict, PredictFails, Fail, Release
<1>5. ASSUME NEW c \in Client, Fetched(c) \/ Acquire(c) \/ Supplied(c) \/ Lookup(c) \/ Detect(c)
      PROVE  DataInv'
  BY <1>5 DEF Fetched, Acquire, Enter, Supplied, Lookup, Detect, shared, local, DataInv
<1>6. ASSUME NEW c \in Client, Get(c) PROVE DataInv'
  BY <1>6 DEF Get, DataInv
<1>7. ASSUME NEW c \in Client, Store(c) PROVE DataInv'
  BY <1>7 DEF Store, DataInv
<1>8. ASSUME UNCHANGED vars PROVE DataInv'
  BY <1>8 DEF vars, shared, local, DataInv
<1> QED BY <1>1, <1>3, <1>4, <1>5, <1>6, <1>7, <1>8 DEF Next, Handle

\* A step of one client leaves the request and the position of the others alone, and
\* only a prediction touches the cache.
LEMMA OthersKept ==
  ASSUME LockInv, DataInv, NEW c \in Client, Handle(c) \/ \E j \in Job : Submit(c, j)
  PROVE  /\ \A d \in Client : d # c => job'[d] = job[d] /\ at'[d] = at[d] /\ pc'[d] = pc[d]
         /\ pc[c] \notin Inference => cache' = cache
<1>1. \A d \in Client : d # c => pc'[d] = pc[d]
  BY Footprint DEF LockInv, Keeps, Enqueues, Advances, Leaves, Goto
<1>2. ASSUME NEW j \in Job, Submit(c, j)
      PROVE  job' = [job EXCEPT ![c] = j] /\ at' = at /\ cache' = cache
  BY <1>2 DEF Submit, local
<1>3. ASSUME Handle(c) PROVE job' = job
  BY <1>3 DEF Handle, Check, Fetched, FetchFails, Acquire, Enter, Supplied, Lookup, Get, Detect, Store,
              Predict, PredictFails, Release
<1>4. ASSUME Handle(c) PROVE at' = at \/ \E k : at' = [at EXCEPT ![c] = k]
  BY <1>4 DEF Handle, Check, Fetched, FetchFails, Acquire, Enter, Supplied, Lookup, Get, Detect, Store,
              Predict, PredictFails, Fail, Finish, local
<1>5. ASSUME Handle(c), pc[c] \notin Inference PROVE cache' = cache
  BY <1>5 DEF Handle, Check, Fetched, FetchFails, Acquire, Enter, Supplied, Lookup, Get, Detect, Store,
              Predict, PredictFails, Release, OnThread, Inference, shared
<1> QED BY <1>1, <1>2, <1>3, <1>4, <1>5 DEF DataInv

\* Only the look-up that finds a frame goes on to read it.
LEMMA OnlyHitsRead ==
  ASSUME LockInv, DataInv, NEW c \in Client, Handle(c) \/ \E j \in Job : Submit(c, j),
         pc'[c] = "get"
  PROVE  Cached(Frames(c)[at[c]])'
<1>1. ASSUME NEW p, Goto(c, p) PROVE p = "get"
  BY <1>1 DEF Goto, LockInv
<1>2. Lookup(c)
  BY <1>1 DEF Handle, Submit, Check, Fetched, FetchFails, Acquire, Enter, Supplied, Get, Detect, Store,
              Predict, PredictFails, Fail, Finish, OnThread, LockInv
<1>3. Cached(Frames(c)[at[c]]) /\ UNCHANGED at
  BY <1>2 DEF Lookup, OnThread
<1> QED BY <1>2, <1>3 DEF Lookup, shared, Cached, Places, Frames

LEMMA NextKey == KeyInv /\ [Next]_vars => KeyInv'
<1> SUFFICES ASSUME KeyInv, [Next]_vars PROVE NoKeyError'
  BY NextLock, NextData DEF KeyInv
<1>1. ASSUME NEW c \in Client, Handle(c) \/ \E j \in Job : Submit(c, j) PROVE NoKeyError'
  <2> SUFFICES ASSUME NEW d \in Client, pc'[d] = "get" PROVE Cached(Frames(d)[at[d]])'
    BY DEF NoKeyError
  <2>1. CASE d = c
    BY <1>1, <2>1, OnlyHitsRead DEF KeyInv
  <2>2. CASE d # c
    <3>1. pc[d] = "get" /\ at'[d] = at[d] /\ job'[d] = job[d]
      BY <1>1, <2>2, OthersKept DEF KeyInv
    <3>2. pc[c] \notin Inference
      BY <2>2, <3>1 DEF KeyInv, LockInv, Holder, Inference
    <3>3. cache' = cache
      BY <1>1, <3>2, OthersKept DEF KeyInv
    <3> QED BY <3>1, <3>3 DEF KeyInv, NoKeyError, Cached, Places, Frames
  <2> QED BY <2>1, <2>2
<1>2. ASSUME UNCHANGED vars PROVE NoKeyError'
  BY <1>2 DEF vars, shared, local, KeyInv, NoKeyError, Cached, Places, Frames
<1> QED BY <1>1, <1>2 DEF Next

\* Reading a frame the cache was found to hold never raises a KeyError, whatever the
\* capacity of the cache and whatever other requests are doing.
THEOREM ReadsWhatItFound == Spec => []NoKeyError
<1>1. Init => KeyInv
  BY InitLock DEF Init, KeyInv, DataInv, NoKeyError
<1>2. KeyInv => NoKeyError
  BY DEF KeyInv
<1> QED BY <1>1, <1>2, NextKey, PTL DEF Spec
-----------------------------------------------------------------------------
DiskInv == LockInv /\ DataInv /\ FramesOnDisk

Needs(c) == pc[c] \in {"fetch", "lock"} \cup Inference /\ job[c].source = "s3"

LEMMA NextDisk == DiskInv /\ [Next]_vars => DiskInv'
<1> SUFFICES ASSUME DiskInv, [Next]_vars PROVE FramesOnDisk'
  BY NextLock, NextData DEF DiskInv
<1>1. tmp = {d \in Client : Needs(d)}
  BY DEF DiskInv, FramesOnDisk, Needs
<1>2. SUFFICES tmp' = {d \in Client : Needs(d)'}
  BY DEF FramesOnDisk, Needs
<1>3. ASSUME NEW c \in Client, Handle(c) \/ \E j \in Job : Submit(c, j)
      PROVE  tmp' = {d \in Client : Needs(d)'}
  <2>1. \A d \in Client : d # c => (Needs(d)' <=> Needs(d))
    BY <1>3, OthersKept DEF DiskInv, Needs
  <2>2. SUFFICES tmp' \subseteq Client /\ tmp' \ {c} = tmp \ {c} /\ (c \in tmp' <=> Needs(c)')
    BY <1>1, <2>1
  <2>3. DOMAIN pc = Client /\ tmp \subseteq Client
    BY DEF DiskInv, LockInv, DataInv
  <2>4. ASSUME NEW r, Finish(c, r) PROVE tmp' = tmp \ {c} /\ ~Needs(c)'
    BY <2>3, <2>4 DEF Finish, Goto, Needs, Inference
  <2>5. ASSUME NEW j \in Job, Submit(c, j) PROVE tmp' = tmp /\ ~Needs(c) /\ ~Needs(c)'
    BY <2>3, <2>5 DEF Submit, Goto, Needs, Inference
  <2>6. ASSUME Check(c)
        PROVE  \/ tmp' = tmp \ {c} /\ ~Needs(c)'
               \/ tmp' = tmp \cup {c} /\ Needs(c)'
               \/ tmp' = tmp /\ ~Needs(c) /\ ~Needs(c)'
    <3>1. pc[c] = "auth" /\ job' = job
      BY <2>6 DEF Check, OnThread
    <3>2. \/ \E code : Fail(c, code)
          \/ /\ Goto(c, "fetch")
             /\ tmp' = IF job[c].source = "s3" THEN tmp \cup {c} ELSE tmp
      BY <2>6 DEF Check
    <3> QED BY <2>3, <2>4, <3>1, <3>2 DEF Fail, Goto, Needs, Inference
  <2>7. ASSUME FetchFails(c) \/ Predict(c) \/ PredictFails(c) PROVE tmp' = tmp \ {c} /\ ~Needs(c)'
    BY <2>4, <2>7 DEF FetchFails, Predict, PredictFails, Fail
  <2>8. ASSUME Fetched(c) PROVE tmp' = tmp /\ (Needs(c)' <=> Needs(c))
    BY <2>3, <2>8 DEF Fetched, OnThread, Goto, Needs
  <2>9. ASSUME Acquire(c) PROVE tmp' = tmp /\ (Needs(c)' <=> Needs(c))
    BY <2>3, <2>9 DEF Acquire, Enter, Goto, Needs, Inference
  <2>10. ASSUME Supplied(c) \/ Lookup(c) \/ Detect(c) PROVE tmp' = tmp /\ (Needs(c)' <=> Needs(c))
    BY <2>3, <2>10 DEF Supplied, Lookup, Detect, shared, OnThread, Goto, Needs, Inference
  <2>11. ASSUME Get(c) PROVE tmp' = tmp /\ (Needs(c)' <=> Needs(c))
    BY <2>3, <2>11 DEF Get, OnThread, Goto, Needs, Inference
  <2>12. ASSUME Store(c) PROVE tmp' = tmp /\ (Needs(c)' <=> Needs(c))
    BY <2>3, <2>12 DEF Store, OnThread, Goto, Needs, Inference
  <2> QED BY <1>1, <1>3, <2>3, <2>5, <2>6, <2>7, <2>8, <2>9, <2>10, <2>11, <2>12 DEF Handle
<1>4. ASSUME UNCHANGED vars PROVE tmp' = {d \in Client : Needs(d)'}
  BY <1>1, <1>4 DEF vars, shared, local, Needs
<1> QED BY <1>3, <1>4 DEF Next

\* A request of any kind has its temporary directory from the start of its download to
\* its answer, and leaves none behind.
THEOREM FramesKeptWhileNeeded == Spec => []FramesOnDisk
<1>1. Init => DiskInv
  <2> SUFFICES ASSUME Init PROVE DataInv /\ FramesOnDisk
    BY InitLock DEF DiskInv
  <2> QED BY DEF Init, DataInv, FramesOnDisk, Inference
<1>2. DiskInv => FramesOnDisk
  BY DEF DiskInv
<1> QED BY <1>1, <1>2, NextDisk, PTL DEF Spec
-----------------------------------------------------------------------------
\* What the cache may hold: detections the detector made, of frames of some request.
FrameId  == UNION {Range(j.frames) : j \in Job}
Detected == [idx : Nat, frame : FrameId, by : {0}]

CacheInv ==
  /\ cache \in Seq(Detected)
  /\ Len(cache) <= IF Capacity > 0 THEN Capacity ELSE 0
  /\ \A k, m \in DOMAIN cache : cache[k].frame = cache[m].frame => k = m

TypeOK ==
  /\ job \in [Client -> Job] /\ DOMAIN reply = Client
  /\ at \in [Client -> Nat] /\ misses \in [Client -> Seq(FrameId)] /\ DOMAIN resolved = Client

\* What a request has been asked and let through for.
Asked(c) ==
  /\ reply[c] = Pending <=> pc[c] # "idle"
  /\ pc[c] \notin {"idle", "auth"} => job[c].token /\ job[c].valid /\ loaded

\* Where the detections of a frame of c come from, and what c has of them at any point.
Origin(c, f) == IF job[c].supplied THEN Service!LastOf(Frames(c), f) ELSE 0
Scanning == {"lookup", "get"}

Genuine(c) ==
  /\ \A f \in DOMAIN resolved[c] :
       resolved[c][f] = [idx |-> resolved[c][f].idx, frame |-> f, by |-> Origin(c, f)]
  /\ pc[c] \notin Inference => DOMAIN resolved[c] = {}
  /\ pc[c] = "supplied" => job[c].supplied
  /\ pc[c] \in Scanning \cup {"put"} => ~job[c].supplied /\ at[c] >= 1

\* Every frame has its detections, or is a miss not stored yet, or was not looked up yet.
Missed(c, f) == \E k \in DOMAIN misses[c] : misses[c][k] = f /\ (pc[c] = "put" => at[c] <= k)
Covered(c) ==
  pc[c] \in Scanning \cup {"put", "predict"} =>
    \A i \in DOMAIN Frames(c) :
      \/ Frames(c)[i] \in DOMAIN resolved[c]
      \/ pc[c] # "predict" /\ Missed(c, Frames(c)[i])
      \/ pc[c] \in Scanning /\ at[c] <= i

ClientInv(c) == Asked(c) /\ Genuine(c) /\ Covered(c)
AnswerInv == KeyInv /\ TypeOK /\ CacheInv /\ \A c \in Client : ClientInv(c)
-----------------------------------------------------------------------------
\* Taking an element out of a sequence moves those behind it one place up.
LEMMA RemoveAtProperties ==
  ASSUME NEW S, NEW s \in Seq(S), NEW i \in 1..Len(s)
  PROVE  /\ RemoveAt(s, i) \in Seq(S)
         /\ Len(RemoveAt(s, i)) = Len(s) - 1
         /\ \A k \in 1..(Len(s) - 1) : RemoveAt(s, i)[k] = s[IF k < i THEN k ELSE k + 1]
<1> DEFINE front == SubSeq(s, 1, i - 1)
           back  == SubSeq(s, i + 1, Len(s))
<1>1. Len(s) \in Nat /\ i \in Nat /\ \A k \in 1..Len(s) : s[k] \in S
  OBVIOUS
<1>2. /\ front \in Seq(S) /\ Len(front) = i - 1
      /\ \A k \in 1..(i - 1) : front[k] = s[k]
  <2>1. \A k \in 1..(i - 1) : s[k] \in S
    BY <1>1
  <2> QED BY <1>1, <2>1, SubSeqProperties
<1>3. /\ back \in Seq(S) /\ Len(back) = Len(s) - i
      /\ \A k \in 1..(Len(s) - i) : back[k] = s[k + i]
  <2>1. \A k \in (i + 1)..Len(s) : s[k] \in S
    BY <1>1
  <2>2. /\ back \in Seq(S)
        /\ Len(back) = IF i + 1 <= Len(s) THEN Len(s) - (i + 1) + 1 ELSE 0
        /\ \A k \in 1..(Len(s) - (i + 1) + 1) : back[k] = s[(i + 1) + k - 1]
    BY <1>1, <2>1, SubSeqProperties
  <2>3. \A k \in 1..(Len(s) - i) : k \in 1..(Len(s) - (i + 1) + 1) /\ (i + 1) + k - 1 = k + i
    BY <1>1
  <2>4. (IF i + 1 <= Len(s) THEN Len(s) - (i + 1) + 1 ELSE 0) = Len(s) - i
    BY <1>1
  <2> QED BY <2>2, <2>3, <2>4
<1>4. RemoveAt(s, i) = front \o back
  BY DEF RemoveAt
<1> HIDE DEF front, back
<1>5. /\ front \o back \in Seq(S) /\ Len(front \o back) = Len(s) - 1
      /\ \A k \in 1..(Len(s) - 1) :
           (front \o back)[k] = IF k <= i - 1 THEN front[k] ELSE back[k - (i - 1)]
  <2>1. /\ front \o back \in Seq(S) /\ Len(front \o back) = Len(front) + Len(back)
        /\ \A k \in 1..(Len(front) + Len(back)) :
             (front \o back)[k] = IF k <= Len(front) THEN front[k] ELSE back[k - Len(front)]
    BY <1>2, <1>3, ConcatProperties
  <2>2. Len(front) + Len(back) = Len(s) - 1
    BY <1>1, <1>2, <1>3
  <2> QED BY <1>2, <2>1, <2>2
<1>6. ASSUME NEW k \in 1..(Len(s) - 1)
      PROVE  (front \o back)[k] = s[IF k < i THEN k ELSE k + 1]
  <2>1. CASE k < i
    BY <1>1, <1>2, <1>5, <2>1
  <2>2. CASE ~(k < i)
    <3>1. k - (i - 1) \in 1..(Len(s) - i) /\ (k - (i - 1)) + i = k + 1 /\ ~(k <= i - 1)
      BY <1>1, <2>2
    <3>2. back[k - (i - 1)] = s[k + 1]
      BY <1>3, <3>1
    <3> QED BY <1>5, <2>2, <3>1, <3>2
  <2> QED BY <2>1, <2>2
<1> QED BY <1>4, <1>5, <1>6

OneEach(s) == \A k, m \in DOMAIN s : s[k].frame = s[m].frame => k = m

\* A key of the OrderedDict that is taken out is in it no more, and nothing else is lost.
LEMMA WithoutProperties ==
  ASSUME CacheInv, NEW f
  PROVE  /\ Without(f) \in Seq(Detected) /\ OneEach(Without(f))
         /\ \A k \in DOMAIN Without(f) : Without(f)[k].frame # f
         /\ Len(Without(f)) = IF Cached(f) THEN Len(cache) - 1 ELSE Len(cache)
<1>0. cache \in Seq(Detected) /\ OneEach(cache) /\ Len(cache) \in Nat /\ DOMAIN cache = 1..Len(cache)
  BY DEF CacheInv, OneEach
<1>1. CASE ~Cached(f)
  BY <1>0, <1>1 DEF Without, Cached, Places
<1>2. CASE Cached(f)
  <2>1. PICK i \in Places(f) : i = Place(f)
    BY <1>2 DEF Cached, Place
  <2>2. i \in 1..Len(cache) /\ cache[i].frame = f
    BY <1>0, <2>1 DEF Places
  <2>3. Without(f) = RemoveAt(cache, i)
    BY <1>2, <2>1 DEF Without
  <2>4. /\ Without(f) \in Seq(Detected) /\ Len(Without(f)) = Len(cache) - 1
        /\ \A k \in 1..(Len(cache) - 1) : Without(f)[k] = cache[IF k < i THEN k ELSE k + 1]
    BY <1>0, <2>2, <2>3, RemoveAtProperties
  <2>5. DOMAIN Without(f) = 1..(Len(cache) - 1)
    BY <1>0, <2>4
  <2>6. \A k \in DOMAIN Without(f) :
          /\ (IF k < i THEN k ELSE k + 1) \in DOMAIN cache
          /\ (IF k < i THEN k ELSE k + 1) # i
          /\ Without(f)[k] = cache[IF k < i THEN k ELSE k + 1]
    BY <1>0, <2>2, <2>4, <2>5
  <2>7. \A k \in DOMAIN Without(f) : Without(f)[k].frame # f
    BY <1>0, <2>2, <2>6 DEF OneEach
  <2>8. ASSUME NEW k \in DOMAIN Without(f), NEW m \in DOMAIN Without(f),
               Without(f)[k].frame = Without(f)[m].frame
        PROVE  k = m
    <3>1. (IF k < i THEN k ELSE k + 1) = (IF m < i THEN m ELSE m + 1)
      BY <1>0, <2>6, <2>8 DEF OneEach
    <3> QED BY <3>1, <2>2, <2>5, <1>0
  <2> QED BY <1>2, <2>4, <2>7, <2>8 DEF OneEach
<1> QED BY <1>1, <1>2

LEMMA AppendKeepsKeys ==
  ASSUME NEW s \in Seq(Detected), OneEach(s), NEW d \in Detected,
         \A k \in DOMAIN s : s[k].frame # d.frame
  PROVE  Append(s, d) \in Seq(Detected) /\ OneEach(Append(s, d)) /\ Len(Append(s, d)) = Len(s) + 1
<1>1. /\ Append(s, d) \in Seq(Detected) /\ Len(Append(s, d)) = Len(s) + 1
      /\ \A k \in 1..Len(s) : Append(s, d)[k] = s[k]
      /\ Append(s, d)[Len(s) + 1] = d
  BY AppendProperties
<1>2. Len(s) \in Nat /\ DOMAIN s = 1..Len(s) /\ DOMAIN Append(s, d) = 1..(Len(s) + 1)
  BY <1>1
<1> QED BY <1>1, <1>2 DEF OneEach

LEMMA TailKeepsKeys ==
  ASSUME NEW s \in Seq(Detected), OneEach(s), s # <<>>
  PROVE  Tail(s) \in Seq(Detected) /\ OneEach(Tail(s)) /\ Len(Tail(s)) = Len(s) - 1
<1>1. /\ Tail(s) \in Seq(Detected) /\ Len(Tail(s)) = Len(s) - 1
      /\ \A k \in 1..Len(Tail(s)) : Tail(s)[k] = s[k + 1]
  BY HeadTailProperties
<1>2. Len(s) \in Nat /\ DOMAIN s = 1..Len(s) /\ DOMAIN Tail(s) = 1..(Len(s) - 1)
  BY <1>1
<1>3. \A k \in DOMAIN Tail(s) : k + 1 \in DOMAIN s /\ Tail(s)[k] = s[k + 1]
  BY <1>1, <1>2
<1>4. ASSUME NEW k \in DOMAIN Tail(s), NEW m \in DOMAIN Tail(s), Tail(s)[k].frame = Tail(s)[m].frame
      PROVE  k = m
  <2>1. k + 1 = m + 1
    BY <1>3, <1>4 DEF OneEach
  <2> QED BY <2>1, <1>2
<1> QED BY <1>1, <1>4 DEF OneEach

\* A hit that becomes the newest entry, and a detection that is stored, keep the cache
\* sound whatever its capacity.
LEMMA TouchKeepsCache ==
  ASSUME CacheInv, NEW f, Cached(f), cache' = Touch(f)
  PROVE  CacheInv'
<1>1. PICK i \in Places(f) : i = Place(f)
  BY DEF Cached, Place
<1>2. /\ cache \in Seq(Detected) /\ i \in DOMAIN cache /\ cache[i].frame = f
      /\ Len(cache) \in Nat /\ DOMAIN cache = 1..Len(cache)
  BY <1>1 DEF Places, CacheInv
<1>3. PICK d \in Detected : d = cache[i]
  BY <1>2
<1>4. PICK s \in Seq(Detected) : s = Without(f)
  BY WithoutProperties
<1>5. OneEach(s) /\ Len(s) = Len(cache) - 1 /\ \A k \in DOMAIN s : s[k].frame # d.frame
  BY <1>2, <1>3, <1>4, WithoutProperties
<1>6. cache' = Append(s, d)
  BY <1>1, <1>3, <1>4 DEF Touch, Entry
<1>7. cache' \in Seq(Detected) /\ OneEach(cache') /\ Len(cache') = Len(s) + 1
  BY <1>5, <1>6, AppendKeepsKeys
<1>8. Len(cache') = Len(cache)
  BY <1>2, <1>5, <1>7
<1> QED BY <1>7, <1>8 DEF CacheInv, OneEach

LEMMA PutKeepsCache ==
  ASSUME CacheInv, NEW d \in Detected, cache' = Put(d)
  PROVE  CacheInv'
<1>1. CASE Capacity <= 0
  BY <1>1 DEF Put, CacheInv
<1>2. CASE ~(Capacity <= 0)
  <2>0. /\ cache \in Seq(Detected) /\ Len(cache) \in Nat /\ Len(cache) <= Capacity
        /\ Capacity \in Int /\ Capacity > 0
    BY <1>2, ServerAssumption DEF CacheInv
  <2>1. PICK s \in Seq(Detected) : s = Without(d.frame)
    BY WithoutProperties
  <2>2. /\ OneEach(s) /\ \A k \in DOMAIN s : s[k].frame # d.frame
        /\ Len(s) = Len(cache) \/ Len(s) = Len(cache) - 1
    BY <2>1, WithoutProperties
  <2>3. PICK t : t = Append(s, d)
    OBVIOUS
  <2>4. t \in Seq(Detected) /\ OneEach(t) /\ Len(t) = Len(s) + 1 /\ t # <<>>
    BY <2>2, <2>3, AppendKeepsKeys, AppendProperties
  <2>5. cache' = IF Len(t) > Capacity THEN Tail(t) ELSE t
    BY <1>2, <2>1, <2>3 DEF Put
  <2>6. CASE Len(t) > Capacity
    <3>1. cache' \in Seq(Detected) /\ OneEach(cache') /\ Len(cache') = Len(t) - 1
      BY <2>4, <2>5, <2>6, TailKeepsKeys
    <3>2. Len(cache') <= Capacity
      BY <2>0, <2>2, <2>4, <3>1
    <3> QED BY <2>0, <3>1, <3>2 DEF CacheInv, OneEach
  <2>7. CASE ~(Len(t) > Capacity)
    <3>1. Len(t) \in Nat /\ cache' = t
      BY <2>4, <2>5, <2>7
    <3>2. Len(t) <= Capacity
      BY <2>0, <2>7, <3>1
    <3> QED BY <2>0, <2>4, <3>1, <3>2 DEF CacheInv, OneEach
  <2> QED BY <2>6, <2>7
<1> QED BY <1>1, <1>2
-----------------------------------------------------------------------------
LEMMA FramesOfJob ==
  ASSUME TypeOK, NEW c \in Client
  PROVE  /\ Len(Frames(c)) \in Nat /\ DOMAIN Frames(c) = 1..Len(Frames(c))
         /\ \A i \in DOMAIN Frames(c) : Frames(c)[i] \in FrameId
<1>1. PICK j \in Job : j = job[c]
  BY DEF TypeOK
<1>2. j.frames \in Seq(Range(j.frames))
  BY ServerAssumption
<1>3. Len(j.frames) \in Nat /\ DOMAIN j.frames = 1..Len(j.frames)
  BY <1>2
<1>4. \A i \in DOMAIN j.frames : j.frames[i] \in Range(j.frames)
  BY DEF Range
<1> QED BY <1>1, <1>3, <1>4 DEF Frames, FrameId

\* The rest of what a step of one client leaves alone.
LEMMA OthersUntouched ==
  ASSUME LockInv, DataInv, TypeOK, NEW c \in Client, Handle(c) \/ \E j \in Job : Submit(c, j)
  PROVE  /\ loaded' = loaded
         /\ \A d \in Client : d # c =>
              reply'[d] = reply[d] /\ resolved'[d] = resolved[d] /\ misses'[d] = misses[d]
<1>1. loaded' = loaded
  BY DEF Handle, Submit, Check, Fetched, FetchFails, Acquire, Enter, Supplied, Lookup, Get, Detect,
         Store, Predict, PredictFails, Release
<1>2. reply' = reply \/ \E r : reply' = [reply EXCEPT ![c] = r]
  BY DEF Handle, Submit, Check, Fetched, FetchFails, Acquire, Enter, Supplied, Lookup, Get, Detect,
         Store, Predict, PredictFails, Release, Fail, Finish
<1>3. resolved' = resolved \/ \E r : resolved' = [resolved EXCEPT ![c] = r]
  BY DEF Handle, Submit, Check, Fetched, FetchFails, Acquire, Enter, Supplied, Lookup, Get, Detect,
         Store, Predict, PredictFails, Release, Fail, Finish, local
<1>4. misses' = misses \/ \E m : misses' = [misses EXCEPT ![c] = m]
  BY DEF Handle, Submit, Check, Fetched, FetchFails, Acquire, Enter, Supplied, Lookup, Get, Detect,
         Store, Predict, PredictFails, Release, Fail, Finish, local
<1> QED BY <1>1, <1>2, <1>3, <1>4 DEF TypeOK

LEMMA OthersClient ==
  ASSUME LockInv, DataInv, TypeOK, NEW c \in Client, Handle(c) \/ \E j \in Job : Submit(c, j),
         NEW d \in Client, d # c, ClientInv(d)
  PROVE  ClientInv(d)'
<1>1. /\ loaded' = loaded /\ reply'[d] = reply[d] /\ resolved'[d] = resolved[d]
      /\ misses'[d] = misses[d] /\ job'[d] = job[d] /\ at'[d] = at[d] /\ pc'[d] = pc[d]
  BY OthersUntouched, OthersKept
<1>2. Asked(d)'
  BY <1>1 DEF ClientInv, Asked
<1>3. \A f : Origin(d, f)' = Origin(d, f)
  BY <1>1 DEF Origin, Frames
<1>4. Genuine(d)'
  BY <1>1, <1>3 DEF ClientInv, Genuine
<1>5. \A f : Missed(d, f)' <=> Missed(d, f)
  BY <1>1 DEF Missed
<1>6. Covered(d)'
  BY <1>1, <1>5 DEF ClientInv, Covered, Frames
<1> QED BY <1>2, <1>4, <1>6 DEF ClientInv

\* The answer ends it: nothing is left of what the handler had gathered.
LEMMA FinishClient ==
  ASSUME LockInv, TypeOK, NEW c \in Client, NEW r, r # Pending, Finish(c, r)
  PROVE  ClientInv(c)'
<1>1. reply'[c] = r /\ pc'[c] = "idle" /\ resolved'[c] = <<>>
  BY DEF Finish, Goto, LockInv, TypeOK
<1>2. Asked(c)'
  BY <1>1 DEF Asked, Pending
<1>3. Genuine(c)'
  BY <1>1 DEF Genuine, Inference, Scanning
<1> QED BY <1>1, <1>2, <1>3 DEF ClientInv, Covered, Scanning

LEMMA SubmitClient ==
  ASSUME LockInv, TypeOK, NEW c \in Client, ClientInv(c), NEW j \in Job, Submit(c, j)
  PROVE  ClientInv(c)'
<1>1. pc[c] = "idle" /\ reply'[c] = Pending /\ pc'[c] = "auth" /\ resolved'[c] = resolved[c]
  BY DEF Submit, Goto, LockInv, TypeOK, local
<1>2. DOMAIN resolved'[c] = {}
  BY <1>1 DEF ClientInv, Genuine, Inference
<1> QED BY <1>1, <1>2 DEF ClientInv, Asked, Genuine, Covered, Inference, Scanning, Pending

\* Until the lock is held nothing is gathered; what lets a request through is known.
LEMMA OutsideClient ==
  ASSUME LockInv, TypeOK, NEW c \in Client, ClientInv(c),
         Check(c) \/ Fetched(c) \/ FetchFails(c) \/ Acquire(c)
  PROVE  ClientInv(c)'
<1>1. ASSUME NEW p, Goto(c, p), p \notin Inference, p # "idle",
             pc[c] \notin Inference \cup {"idle"}, UNCHANGED <<loaded, job, reply, resolved>>,
             p = "auth" \/ (job[c].token /\ job[c].valid /\ loaded)
      PROVE  ClientInv(c)'
  <2>1. pc'[c] = p
    BY <1>1 DEF Goto, LockInv
  <2>2. DOMAIN resolved'[c] = {}
    BY <1>1 DEF ClientInv, Genuine
  <2> QED BY <1>1, <2>1, <2>2 DEF ClientInv, Asked, Genuine, Covered, Inference, Scanning
<1>2. ASSUME NEW code, code # 1, Fail(c, code) PROVE ClientInv(c)'
  <2>1. Service!Failed(code) # Pending
    BY <1>2 DEF Service!Failed, Pending, Service!Pending
  <2> QED BY <1>2, <2>1, FinishClient DEF Fail
<1>3. CASE Check(c)
  BY <1>1, <1>2, <1>3 DEF Check, OnThread, Inference, local
<1>4. CASE Fetched(c)
  <2>1. job[c].token /\ job[c].valid /\ loaded
    BY <1>4 DEF Fetched, OnThread, ClientInv, Asked
  <2> QED BY <1>1, <1>4, <2>1 DEF Fetched, OnThread, Inference, local
<1>5. CASE FetchFails(c)
  BY <1>2, <1>5 DEF FetchFails, Service!FetchErrors
<1>6. CASE Acquire(c)
  <2>1. /\ pc[c] = "lock" /\ UNCHANGED <<loaded, job, reply, resolved, misses>> /\ at'[c] = 1
        /\ pc'[c] = IF job[c].supplied THEN "supplied" ELSE "lookup"
    BY <1>6 DEF Acquire, Enter, Goto, LockInv, TypeOK
  <2>2. Asked(c)'
    BY <2>1 DEF ClientInv, Asked
  <2>3. DOMAIN resolved'[c] = {}
    BY <2>1 DEF ClientInv, Genuine, Inference
  <2>4. Genuine(c)'
    BY <2>1, <2>3 DEF Genuine, Inference, Scanning
  <2>5. Covered(c)'
    <3>1. \A i \in DOMAIN Frames(c) : 1 <= i
      BY FramesOfJob
    <3> QED BY <2>1, <3>1 DEF Covered, Scanning, Frames
  <2> QED BY <2>2, <2>4, <2>5 DEF ClientInv
<1> QED BY <1>3, <1>4, <1>5, <1>6

\* What one more detection does to what a client has gathered.
LEMMA WithOne ==
  ASSUME TypeOK, NEW c \in Client, NEW f, NEW d, d = [idx |-> d.idx, frame |-> f, by |-> Origin(c, f)],
         Genuine(c), resolved' = [resolved EXCEPT ![c] = With(@, f, d)], job' = job
  PROVE  /\ DOMAIN resolved'[c] = DOMAIN resolved[c] \cup {f}
         /\ \A g \in DOMAIN resolved'[c] :
              resolved'[c][g] = [idx |-> resolved'[c][g].idx, frame |-> g, by |-> Origin(c, g)']
<1>1. resolved'[c] = [g \in DOMAIN resolved[c] \cup {f} |-> IF g = f THEN d ELSE resolved[c][g]]
  BY DEF TypeOK, With
<1>2. \A g : Origin(c, g)' = Origin(c, g)
  BY DEF Origin, Frames
<1> QED BY <1>1, <1>2 DEF Genuine

LEMMA SuppliedClient ==
  ASSUME LockInv, TypeOK, NEW c \in Client, ClientInv(c), Supplied(c)
  PROVE  ClientInv(c)'
<1>1. /\ pc[c] = "supplied" /\ pc'[c] = "predict" /\ job[c].supplied
      /\ UNCHANGED <<loaded, job, reply>>
  BY DEF Supplied, OnThread, Goto, LockInv, ClientInv, Genuine
<1>2. resolved'[c] =
        [f \in {Frames(c)[i] : i \in DOMAIN Frames(c)} |->
           LET i == Service!LastOf(Frames(c), f) IN Service!Detections(i, f, i)]
  BY DEF Supplied, TypeOK
<1>3. DOMAIN resolved'[c] = {Frames(c)[i] : i \in DOMAIN Frames(c)}
  BY <1>2
<1>4. \A f \in DOMAIN resolved'[c] :
        resolved'[c][f] = [idx |-> Service!LastOf(Frames(c), f), frame |-> f, by |-> Origin(c, f)]
  BY <1>1, <1>2 DEF Service!Detections, Origin
<1>5. \A f : Origin(c, f)' = Origin(c, f)
  BY <1>1 DEF Origin, Frames
<1>6. \A f \in DOMAIN resolved'[c] :
        resolved'[c][f] = [idx |-> resolved'[c][f].idx, frame |-> f, by |-> Origin(c, f)']
  <2>1. ASSUME NEW f \in DOMAIN resolved'[c]
        PROVE  resolved'[c][f] = [idx |-> resolved'[c][f].idx, frame |-> f, by |-> Origin(c, f)]
    <3>1. PICK r : r = resolved'[c][f]
      OBVIOUS
    <3>2. PICK i : i = Service!LastOf(Frames(c), f)
      OBVIOUS
    <3>3. r = [idx |-> i, frame |-> f, by |-> Origin(c, f)]
      BY <1>4, <2>1, <3>1, <3>2
    <3>4. r.idx = i
      BY <3>3
    <3> QED BY <3>1, <3>3, <3>4
  <2> QED BY <2>1, <1>5
<1>7. Genuine(c)'
  BY <1>1, <1>6 DEF Genuine, Inference, Scanning
<1>8. Covered(c)'
  BY <1>1, <1>3 DEF Covered, Scanning, Frames
<1> QED BY <1>1, <1>7, <1>8 DEF ClientInv, Asked

LEMMA LookupClient ==
  ASSUME LockInv, TypeOK, NEW c \in Client, ClientInv(c), Lookup(c)
  PROVE  ClientInv(c)'
<1>1. pc[c] = "lookup" /\ UNCHANGED <<loaded, job, reply, resolved>> /\ at[c] <= Len(Frames(c))
  BY DEF Lookup, OnThread
<1>2. at[c] \in Nat /\ at[c] >= 1 /\ misses[c] \in Seq(FrameId)
  BY <1>1 DEF TypeOK, ClientInv, Genuine, Scanning
<1>3. PICK f \in FrameId : f = Frames(c)[at[c]]
  BY <1>1, <1>2, FramesOfJob
<1>4. \A g : Origin(c, g)' = Origin(c, g)
  BY <1>1 DEF Origin, Frames
<1>5. CASE Cached(f)
  <2>1. pc'[c] = "get" /\ UNCHANGED <<at, misses>>
    BY <1>3, <1>5 DEF Lookup, Goto, LockInv
  <2> QED BY <1>1, <1>4, <2>1 DEF ClientInv, Asked, Genuine, Covered, Missed, Scanning, Inference, Frames
<1>6. CASE ~Cached(f)
  <2>1. /\ pc'[c] = "lookup" /\ at'[c] = at[c] + 1 /\ misses'[c] = Append(misses[c], f)
    BY <1>1, <1>3, <1>6 DEF Lookup, LockInv, TypeOK
  <2>2. Asked(c)' /\ Genuine(c)'
    BY <1>1, <1>2, <1>4, <2>1 DEF ClientInv, Asked, Genuine, Scanning
  <2>3. /\ Len(misses[c]) \in Nat
        /\ DOMAIN misses[c] = 1..Len(misses[c]) /\ DOMAIN misses'[c] = 1..(Len(misses[c]) + 1)
        /\ \A k \in DOMAIN misses[c] : misses'[c][k] = misses[c][k]
        /\ misses'[c][Len(misses[c]) + 1] = f
    BY <1>2, <2>1, AppendProperties
  <2>4. Missed(c, f)' /\ \A g : Missed(c, g) => Missed(c, g)'
    BY <1>1, <2>1, <2>3 DEF Missed
  <2>5. \A i \in DOMAIN Frames(c) : at[c] <= i => at'[c] <= i \/ Frames(c)[i] = f
    BY <1>2, <1>3, <2>1, FramesOfJob
  <2>6. Covered(c)'
    BY <1>1, <2>1, <2>4, <2>5 DEF ClientInv, Covered, Frames, Scanning
  <2> QED BY <2>2, <2>6 DEF ClientInv
<1> QED BY <1>5, <1>6

LEMMA GetClient ==
  ASSUME LockInv, TypeOK, CacheInv, NEW c \in Client, ClientInv(c), Get(c)
  PROVE  ClientInv(c)'
<1>1. pc[c] = "get" /\ UNCHANGED <<loaded, job, reply, misses>>
  BY DEF Get, OnThread
<1>2. at[c] \in Nat /\ at[c] >= 1 /\ ~job[c].supplied
  BY <1>1 DEF TypeOK, ClientInv, Genuine, Scanning
<1>3. PICK f : f = Frames(c)[at[c]]
  OBVIOUS
<1>4. CASE Cached(f)
  <2>1. PICK k \in Places(f) : k = Place(f)
    BY <1>4 DEF Cached, Place
  <2>2. cache[k] \in Detected /\ cache[k].frame = f
    BY <2>1 DEF Places, CacheInv
  <2>3. PICK d : d = cache[k]
    OBVIOUS
  <2>4. d = [idx |-> d.idx, frame |-> f, by |-> 0]
    BY <2>2, <2>3 DEF Detected
  <2>5. d = [idx |-> d.idx, frame |-> f, by |-> Origin(c, f)]
    BY <1>2, <2>4 DEF Origin
  <2>6. /\ resolved' = [resolved EXCEPT ![c] = With(@, f, d)]
        /\ pc'[c] = "lookup" /\ at'[c] = at[c] + 1
    BY <1>3, <1>4, <2>1, <2>3 DEF Get, Entry, Goto, LockInv, TypeOK
  <2>7. /\ DOMAIN resolved'[c] = DOMAIN resolved[c] \cup {f}
        /\ \A g \in DOMAIN resolved'[c] :
             resolved'[c][g] = [idx |-> resolved'[c][g].idx, frame |-> g, by |-> Origin(c, g)']
    BY <1>1, <2>5, <2>6, WithOne DEF ClientInv
  <2>8. Asked(c)' /\ Genuine(c)'
    BY <1>1, <1>2, <2>6, <2>7 DEF ClientInv, Asked, Genuine, Inference, Scanning
  <2>9. \A i \in DOMAIN Frames(c) : at[c] <= i => at'[c] <= i \/ Frames(c)[i] = f
    BY <1>2, <1>3, <2>6, FramesOfJob
  <2>10. \A g : Missed(c, g) => Missed(c, g)'
    BY <1>1, <2>6 DEF Missed
  <2>11. Covered(c)'
    BY <1>1, <2>6, <2>7, <2>9, <2>10 DEF ClientInv, Covered, Frames, Scanning
  <2> QED BY <2>8, <2>11 DEF ClientInv
<1>5. CASE ~Cached(f)
  <2>1. pc'[c] = "failed" /\ UNCHANGED resolved
    BY <1>3, <1>5 DEF Get, Goto, LockInv
  <2>2. \A g : Origin(c, g)' = Origin(c, g)
    BY <1>1 DEF Origin, Frames
  <2> QED BY <1>1, <2>1, <2>2 DEF ClientInv, Asked, Genuine, Covered, Inference, Scanning
<1> QED BY <1>4, <1>5

LEMMA DetectClient ==
  ASSUME LockInv, TypeOK, NEW c \in Client, ClientInv(c), Detect(c)
  PROVE  ClientInv(c)'
<1>1. /\ pc[c] = "lookup" /\ UNCHANGED <<loaded, job, reply, resolved, misses>>
      /\ at[c] > Len(Frames(c)) /\ at'[c] = 1 /\ pc'[c] \in {"put", "failed"}
  BY DEF Detect, OnThread, Goto, LockInv, TypeOK
<1>2. \A g : Origin(c, g)' = Origin(c, g)
  BY <1>1 DEF Origin, Frames
<1>3. Asked(c)' /\ Genuine(c)'
  BY <1>1, <1>2 DEF ClientInv, Asked, Genuine, Inference, Scanning
<1>4. \A i \in DOMAIN Frames(c) : ~(at[c] <= i)
  BY <1>1, FramesOfJob DEF TypeOK
<1>5. DOMAIN misses[c] = 1..Len(misses[c])
  BY DEF TypeOK
<1>6. \A k \in DOMAIN misses[c] : 1 <= k
  BY <1>5
<1>7. \A g : Missed(c, g) => Missed(c, g)'
  BY <1>1, <1>6 DEF Missed
<1>8. Covered(c)'
  BY <1>1, <1>4, <1>7 DEF ClientInv, Covered, Frames, Scanning
<1> QED BY <1>3, <1>8 DEF ClientInv

LEMMA StoreClient ==
  ASSUME LockInv, TypeOK, NEW c \in Client, ClientInv(c), Store(c)
  PROVE  ClientInv(c)'
<1>1. pc[c] = "put" /\ UNCHANGED <<loaded, job, reply, misses>>
  BY DEF Store, OnThread
<1>2. at[c] \in Nat /\ at[c] >= 1 /\ ~job[c].supplied /\ misses[c] \in Seq(FrameId)
  BY <1>1 DEF TypeOK, ClientInv, Genuine, Scanning
<1>3. Len(misses[c]) \in Nat /\ DOMAIN misses[c] = 1..Len(misses[c])
  BY <1>2
<1>4. CASE at[c] <= Len(misses[c])
  <2>1. PICK f : f = misses[c][at[c]]
    OBVIOUS
  <2>2. PICK d : d = [idx |-> at[c], frame |-> f, by |-> 0]
    OBVIOUS
  <2>3. d = [idx |-> d.idx, frame |-> f, by |-> Origin(c, f)] /\ d.frame = f
    BY <1>2, <2>2 DEF Origin
  <2>4. /\ resolved' = [resolved EXCEPT ![c] = With(@, f, d)]
        /\ pc'[c] = "put" /\ at'[c] = at[c] + 1
    BY <1>1, <1>4, <2>1, <2>2, <2>3 DEF Store, Service!Detections, TypeOK
  <2>5. /\ DOMAIN resolved'[c] = DOMAIN resolved[c] \cup {f}
        /\ \A g \in DOMAIN resolved'[c] :
             resolved'[c][g] = [idx |-> resolved'[c][g].idx, frame |-> g, by |-> Origin(c, g)']
    BY <1>1, <2>3, <2>4, WithOne DEF ClientInv
  <2>6. Asked(c)' /\ Genuine(c)'
    BY <1>1, <1>2, <2>4, <2>5 DEF ClientInv, Asked, Genuine, Inference, Scanning
  <2>7. \A g : Missed(c, g) => Missed(c, g)' \/ g = f
    BY <1>1, <1>2, <1>3, <2>1, <2>4 DEF Missed
  <2>8. Covered(c)'
    BY <1>1, <2>4, <2>5, <2>7 DEF ClientInv, Covered, Frames, Scanning
  <2> QED BY <2>6, <2>8 DEF ClientInv
<1>5. CASE ~(at[c] <= Len(misses[c]))
  <2>1. pc'[c] = "predict" /\ UNCHANGED resolved
    BY <1>5 DEF Store, Goto, LockInv
  <2>2. \A g : Origin(c, g)' = Origin(c, g)
    BY <1>1 DEF Origin, Frames
  <2>3. \A g : ~Missed(c, g)
    BY <1>1, <1>2, <1>3, <1>5 DEF Missed
  <2>4. Covered(c)'
    BY <1>1, <2>1, <2>3 DEF ClientInv, Covered, Frames, Scanning
  <2> QED BY <1>1, <2>1, <2>2, <2>4 DEF ClientInv, Asked, Genuine, Inference, Scanning
<1> QED BY <1>4, <1>5

LEMMA StepClient ==
  ASSUME LockInv, TypeOK, CacheInv, NEW c \in Client, ClientInv(c),
         Handle(c) \/ \E j \in Job : Submit(c, j)
  PROVE  ClientInv(c)'
<1>1. ASSUME Predict(c) PROVE ClientInv(c)'
  <2>1. [code |-> 200, body |-> Restamped(c)] # Pending
    BY DEF Pending, Service!Pending
  <2> QED BY <1>1, <2>1, FinishClient DEF Predict
<1>2. ASSUME PredictFails(c) PROVE ClientInv(c)'
  <2>1. Service!Failed(500) # Pending
    BY DEF Pending, Service!Pending, Service!Failed
  <2> QED BY <1>2, <2>1, FinishClient DEF PredictFails, Fail
<1> QED BY <1>1, <1>2, SubmitClient, OutsideClient, SuppliedClient, LookupClient, GetClient, DetectClient,
           StoreClient DEF Handle
-----------------------------------------------------------------------------
LEMMA NextType ==
  ASSUME LockInv, TypeOK, NEW c \in Client, ClientInv(c), Handle(c) \/ \E j \in Job : Submit(c, j)
  PROVE  TypeOK'
<1>1. job' \in [Client -> Job]
  <2>1. ASSUME NEW j \in Job, Submit(c, j) PROVE job' \in [Client -> Job]
    BY <2>1 DEF Submit, TypeOK
  <2>2. ASSUME Handle(c) PROVE job' = job
    BY <2>2 DEF Handle, Check, Fetched, FetchFails, Acquire, Enter, Supplied, Lookup, Get, Detect, Store,
                Predict, PredictFails, Release
  <2> QED BY <2>1, <2>2 DEF TypeOK
<1>2. DOMAIN reply' = Client
  <2>1. reply' = reply \/ \E r : reply' = [reply EXCEPT ![c] = r]
    BY DEF Handle, Submit, Check, Fetched, FetchFails, Acquire, Enter, Supplied, Lookup, Get, Detect,
           Store, Predict, PredictFails, Release, Fail, Finish
  <2> QED BY <2>1 DEF TypeOK
<1>3. DOMAIN resolved' = Client
  <2>1. resolved' = resolved \/ \E r : resolved' = [resolved EXCEPT ![c] = r]
    BY DEF Handle, Submit, Check, Fetched, FetchFails, Acquire, Enter, Supplied, Lookup, Get, Detect,
           Store, Predict, PredictFails, Release, Fail, Finish, local
  <2> QED BY <2>1 DEF TypeOK
<1>4. at' \in [Client -> Nat]
  <2>1. at' = at \/ \E k \in {0, 1, at[c] + 1} : at' = [at EXCEPT ![c] = k]
    BY DEF Handle, Submit, Check, Fetched, FetchFails, Acquire, Enter, Supplied, Lookup, Get, Detect,
           Store, Predict, PredictFails, Release, Fail, Finish, local
  <2>2. {0, 1, at[c] + 1} \subseteq Nat
    BY DEF TypeOK
  <2> QED BY <2>1, <2>2 DEF TypeOK
<1>5. misses' \in [Client -> Seq(FrameId)]
  <2>1. ASSUME Lookup(c) PROVE misses' \in [Client -> Seq(FrameId)]
    <3>1. at[c] \in Nat /\ at[c] >= 1 /\ at[c] <= Len(Frames(c))
      BY <2>1 DEF Lookup, OnThread, TypeOK, ClientInv, Genuine, Scanning
    <3>2. PICK f \in FrameId : f = Frames(c)[at[c]]
      BY <3>1, FramesOfJob
    <3>3. misses' = misses \/ misses' = [misses EXCEPT ![c] = Append(@, f)]
      BY <2>1, <3>2 DEF Lookup
    <3>4. Append(misses[c], f) \in Seq(FrameId)
      BY AppendProperties DEF TypeOK
    <3> QED BY <3>3, <3>4 DEF TypeOK
  <2>2. Lookup(c) \/ misses' = misses \/ misses' = [misses EXCEPT ![c] = <<>>]
    BY DEF Handle, Submit, Check, Fetched, FetchFails, Acquire, Enter, Supplied, Get, Detect,
           Store, Predict, PredictFails, Release, Fail, Finish, local
  <2>3. <<>> \in Seq(FrameId)
    OBVIOUS
  <2> QED BY <2>1, <2>2, <2>3 DEF TypeOK
<1> QED BY <1>1, <1>2, <1>3, <1>4, <1>5 DEF TypeOK

\* Two operations change the cache: a hit is read, a detection is stored.
LEMMA NextCache ==
  ASSUME LockInv, TypeOK, CacheInv, NEW c \in Client, ClientInv(c),
         Handle(c) \/ \E j \in Job : Submit(c, j)
  PROVE  CacheInv'
<1>1. ASSUME cache' = cache PROVE CacheInv'
  BY <1>1 DEF CacheInv
<1>2. ASSUME Get(c) PROVE CacheInv'
  <2>1. PICK f : f = Frames(c)[at[c]]
    OBVIOUS
  <2>2. (Cached(f) /\ cache' = Touch(f)) \/ cache' = cache
    BY <1>2, <2>1 DEF Get
  <2> QED BY <1>1, <2>2, TouchKeepsCache
<1>3. ASSUME Store(c) PROVE CacheInv'
  <2>1. CASE at[c] <= Len(misses[c])
    <3>1. at[c] \in Nat /\ at[c] >= 1 /\ misses[c] \in Seq(FrameId)
      BY <1>3 DEF Store, OnThread, TypeOK, ClientInv, Genuine, Scanning
    <3>2. PICK f \in FrameId : f = misses[c][at[c]]
      BY <2>1, <3>1
    <3>3. PICK i \in Nat : i = at[c]
      BY <3>1
    <3>4. PICK d : d = [idx |-> i, frame |-> f, by |-> 0]
      OBVIOUS
    <3>5. d \in Detected
      BY <3>4 DEF Detected
    <3>6. cache' = Put(d)
      BY <1>3, <2>1, <3>2, <3>3, <3>4 DEF Store, Service!Detections
    <3> QED BY <3>5, <3>6, PutKeepsCache
  <2>2. CASE ~(at[c] <= Len(misses[c]))
    BY <1>1, <1>3, <2>2 DEF Store
  <2> QED BY <2>1, <2>2
<1>4. Get(c) \/ Store(c) \/ cache' = cache
  BY DEF Handle, Submit, Check, Fetched, FetchFails, Acquire, Enter, Supplied, Lookup, Detect,
         Predict, PredictFails, Release, shared
<1> QED BY <1>1, <1>2, <1>3, <1>4

LEMMA InitAnswer == Init => AnswerInv
<1> SUFFICES ASSUME Init PROVE AnswerInv
  OBVIOUS
<1>1. KeyInv
  BY InitLock DEF Init, KeyInv, DataInv, NoKeyError
<1>2. TypeOK
  BY DEF Init, TypeOK
<1>3. CacheInv
  <2>1. cache = <<>> /\ <<>> \in Seq(Detected) /\ Len(<<>>) = 0
    BY DEF Init
  <2> QED BY <2>1, ServerAssumption DEF CacheInv
<1>4. ASSUME NEW c \in Client PROVE ClientInv(c)
  <2>1. reply[c] = Idle /\ pc[c] = "idle" /\ resolved[c] = <<>>
    BY DEF Init
  <2>2. Idle # Pending
    BY DEF Idle, Pending, Service!Idle, Service!Pending
  <2> QED BY <2>1, <2>2 DEF ClientInv, Asked, Genuine, Covered, Inference, Scanning
<1> QED BY <1>1, <1>2, <1>3, <1>4 DEF AnswerInv

LEMMA NextAnswer == AnswerInv /\ [Next]_vars => AnswerInv'
<1> SUFFICES ASSUME AnswerInv, [Next]_vars PROVE AnswerInv'
  OBVIOUS
<1>1. KeyInv'
  BY NextKey DEF AnswerInv
<1>2. ASSUME NEW c \in Client, Handle(c) \/ \E j \in Job : Submit(c, j)
      PROVE  TypeOK' /\ CacheInv' /\ \A d \in Client : ClientInv(d)'
  <2>1. ASSUME NEW d \in Client PROVE ClientInv(d)'
    BY <1>2, StepClient, OthersClient DEF AnswerInv, KeyInv
  <2> QED BY <1>2, <2>1, NextType, NextCache DEF AnswerInv, KeyInv
<1>3. ASSUME UNCHANGED vars PROVE TypeOK' /\ CacheInv' /\ \A d \in Client : ClientInv(d)'
  BY <1>3 DEF vars, shared, local, AnswerInv, TypeOK, CacheInv, ClientInv, Asked, Genuine, Covered, Missed,
              Origin, Frames
<1> QED BY <1>1, <1>2, <1>3 DEF Next, AnswerInv

\* Whatever its capacity and however many requests meet, the cache stays within it, has
\* one entry for a frame, never one made of supplied boxes, and none goes between the
\* look-up that found it and the read.
THEOREM CacheStaysSound == Spec => []CacheSound
<1>1. AnswerInv => CacheSound
  <2> SUFFICES ASSUME AnswerInv PROVE CacheSound
    OBVIOUS
  <2>1. \A k \in DOMAIN cache : cache[k] \in Detected
    BY DEF AnswerInv, CacheInv
  <2>2. \A k \in DOMAIN cache : cache[k].by = 0
    BY <2>1 DEF Detected
  <2> QED BY <2>2 DEF AnswerInv, CacheInv, KeyInv, CacheSound
<1> QED BY <1>1, InitAnswer, NextAnswer, PTL DEF Spec
-----------------------------------------------------------------------------
\* The answer built from the cache, from other requests' detections and from this
\* request's own is the one of a server that has no cache.
LEMMA AnswerIsCacheless ==
  ASSUME TypeOK, NEW c \in Client, ClientInv(c), pc[c] = "predict"
  PROVE  [code |-> 200, body |-> Restamped(c)] = Service!Cacheless(job[c])
<1>1. ASSUME NEW i \in DOMAIN Frames(c)
      PROVE  [resolved[c][Frames(c)[i]] EXCEPT !.idx = i]
               = Service!Detections(i, Frames(c)[i], Origin(c, Frames(c)[i]))
  <2>1. PICK f : f = Frames(c)[i]
    OBVIOUS
  <2>2. PICK r : r = resolved[c][f]
    OBVIOUS
  <2>3. PICK b : b = Origin(c, f)
    OBVIOUS
  <2>4. f \in DOMAIN resolved[c]
    BY <2>1 DEF ClientInv, Covered, Scanning
  <2>5. r = [idx |-> r.idx, frame |-> f, by |-> b]
    BY <2>2, <2>3, <2>4 DEF ClientInv, Genuine
  <2>6. [r EXCEPT !.idx = i] = [idx |-> i, frame |-> f, by |-> b]
    BY <2>5
  <2> QED BY <2>1, <2>2, <2>3, <2>6 DEF Service!Detections
<1>2. Restamped(c) = [i \in DOMAIN Frames(c) |->
                        Service!Detections(i, Frames(c)[i], Origin(c, Frames(c)[i]))]
  BY <1>1 DEF Restamped
<1> QED BY <1>2 DEF Service!Cacheless, Origin, Frames

LEMMA StepImplements ==
  ASSUME AnswerInv, NEW c \in Client, Handle(c) \/ \E j \in Job : Submit(c, j)
  PROVE  [Service!Next]_(Service!vars)
<1>1. TypeOK /\ LockInv /\ ClientInv(c)
  BY DEF AnswerInv, KeyInv
<1>2. ASSUME NEW j \in Job, Submit(c, j) PROVE Service!Next
  <2>1. reply[c] # Service!Pending
    BY <1>1, <1>2 DEF Submit, ClientInv, Asked, Pending
  <2> QED BY <1>2, <2>1 DEF Submit, Service!Submit, Service!Next, Pending
<1>3. ASSUME NEW r, Finish(c, r), UNCHANGED <<loaded, job>>, pc[c] # "idle", r \in Service!Permitted(job[c])
      PROVE  Service!Next
  <2>1. reply[c] = Service!Pending
    BY <1>1, <1>3 DEF ClientInv, Asked, Pending
  <2> QED BY <1>3, <2>1 DEF Finish, Service!Answer, Service!Next
<1>4. ASSUME UNCHANGED <<loaded, job, reply>> PROVE UNCHANGED Service!vars
  BY <1>4 DEF Service!vars
<1>5. ASSUME Check(c) PROVE [Service!Next]_(Service!vars)
  <2>1. pc[c] = "auth" /\ UNCHANGED <<loaded, job>>
    BY <1>5 DEF Check, OnThread
  <2>2. ASSUME NEW code, Fail(c, code), Service!Failed(code) \in Service!Permitted(job[c])
        PROVE  Service!Next
    BY <1>3, <2>1, <2>2 DEF Fail
  <2>3. CASE ~job[c].token
    BY <1>5, <2>2, <2>3 DEF Check, Service!Permitted
  <2>4. CASE job[c].token /\ ~job[c].valid
    BY <1>5, <2>2, <2>4 DEF Check, Service!Permitted
  <2>5. CASE job[c].token /\ job[c].valid /\ ~loaded
    BY <1>5, <2>2, <2>5 DEF Check, Service!Permitted
  <2>6. CASE job[c].token /\ job[c].valid /\ loaded
    <3>1. UNCHANGED reply
      BY <1>5, <2>6 DEF Check
    <3> QED BY <1>4, <2>1, <3>1
  <2> QED BY <2>3, <2>4, <2>5, <2>6
<1>6. ASSUME pc[c] \notin {"idle", "auth"}
      PROVE  Service!Permitted(job[c]) = {Service!Cacheless(job[c])}
               \cup {Service!Failed(code) : code \in Service!FetchErrors(job[c])}
  BY <1>1, <1>6 DEF ClientInv, Asked, Service!Permitted
<1>7. ASSUME FetchFails(c) PROVE Service!Next
  <2>1. pc[c] = "fetch" /\ UNCHANGED <<loaded, job>>
    BY <1>7 DEF FetchFails, OnThread
  <2>2. PICK code \in Service!FetchErrors(job[c]) : Fail(c, code)
    BY <1>7 DEF FetchFails
  <2>3. Service!Failed(code) \in Service!Permitted(job[c])
    BY <1>6, <2>1
  <2> QED BY <1>3, <2>1, <2>2, <2>3 DEF Fail
<1>8. ASSUME Predict(c) PROVE Service!Next
  <2>1. pc[c] = "predict" /\ UNCHANGED <<loaded, job>>
    BY <1>8 DEF Predict, OnThread, Release
  <2>2. [code |-> 200, body |-> Restamped(c)] \in Service!Permitted(job[c])
    BY <1>1, <1>6, <2>1, AnswerIsCacheless
  <2> QED BY <1>3, <1>8, <2>1, <2>2 DEF Predict
<1>9. ASSUME PredictFails(c) PROVE Service!Next
  <2>1. pc[c] \in {"predict", "failed"} /\ UNCHANGED <<loaded, job>>
    BY <1>9 DEF PredictFails, OnThread, Release
  <2>2. Service!Failed(500) \in Service!Permitted(job[c])
    BY <1>6, <2>1 DEF Service!FetchErrors
  <2> QED BY <1>3, <1>9, <2>1, <2>2 DEF PredictFails, Fail
<1>10. ASSUME Fetched(c) \/ Acquire(c) \/ Supplied(c) \/ Lookup(c) \/ Get(c) \/ Detect(c) \/ Store(c)
       PROVE  UNCHANGED <<loaded, job, reply>>
  BY <1>10 DEF Fetched, Acquire, Enter, Supplied, Lookup, Get, Detect, Store
<1> QED BY <1>2, <1>4, <1>5, <1>7, <1>8, <1>9, <1>10 DEF Handle

\* Every answer of the server, with its pool, its lock and a cache that requests share,
\* is one that the service without any of them could give.
THEOREM ServerImplementsService == Spec => Implements
<1>1. Init => Service!Init
  BY DEF Init, Service!Init, Idle
<1>2. AnswerInv /\ [Next]_vars => [Service!Next]_(Service!vars)
  <2> SUFFICES ASSUME AnswerInv, [Next]_vars PROVE [Service!Next]_(Service!vars)
    OBVIOUS
  <2>1. ASSUME UNCHANGED vars PROVE UNCHANGED Service!vars
    BY <2>1 DEF vars, Service!vars
  <2> QED BY <2>1, StepImplements DEF Next
<1> QED BY <1>1, <1>2, InitAnswer, NextAnswer, PTL DEF Spec, Implements, Service!Spec
=============================================================================
