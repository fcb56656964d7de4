----------------------------- MODULE ApiServer -----------------------------
(***************************************************************************)
(* POST /predict (api/app.py) and the ModelRunner behind it.  Handlers run *)
(* on one event loop and hand blocking work to a pool of threads; one      *)
(* asyncio.Lock serialises the model and the per-frame detection cache.    *)
(* A step is what happens between two suspension points of a handler, or,  *)
(* inside the worker thread of a prediction, one operation on the cache or *)
(* the model.                                                              *)
(***************************************************************************)
EXTENDS Integers, Sequences, SequencesExt

CONSTANTS
  Client,
  Job,
  Capacity,   \* detection_cache_size
  Threads     \* tokens of the thread pool's limiter

ASSUME ServerAssumption ==
  /\ Capacity \in Int
  /\ Threads \in Nat \ {0}
  /\ \A j \in Job : j.frames \in Seq(Range(j.frames)) \ {<<>>}

VARIABLES
  loaded,   \* app.state.runner is not None
  job, reply,
  pc,       \* where the handler of each client stands
  pool,     \* clients in the limiter, first come first served
  lockq,    \* clients at ModelRunner._lock; the head holds it
  tmp,      \* clients whose TemporaryDirectory exists
  cache,    \* DetectionCache._data, least recently used first
  at,       \* position in the frames, or in the misses, being handled
  resolved, \* frame_id -> its detections, as collected so far
  misses    \* the frames the cache did not have

shared == <<pool, lockq, tmp, cache>>
local  == <<at, resolved, misses>>
vars   == <<loaded, job, reply, pc, shared, local>>

\* The promise this server is shown to keep, read off its own variables.
Service == INSTANCE PredictService
             WITH Client <- Client, Job <- Job, loaded <- loaded, job <- job, reply <- reply

Frames(c) == job[c].frames
Idle      == Service!Idle
Pending   == Service!Pending

\* The limiter admits its first Threads entries and is a FIFO beyond them.
Admitted(c) == \E i \in DOMAIN pool : pool[i] = c /\ i <= Threads
Leave(q, c) == SelectSeq(q, LAMBDA d : d # c)
\* A handler suspended in a thread at point p that has one to run on.
OnThread(c, p) == pc[c] = p /\ Admitted(c)

Goto(c, p) == pc' = [pc EXCEPT ![c] = p]

\* The handler returns or raises: leaving the ExitStack removes its temp dir.
Finish_KeepsDir(c, r) ==    \* variant: only a success cleans up
  /\ Goto(c, "idle")
  /\ reply' = [reply EXCEPT ![c] = r]
  /\ tmp' = IF r.code = 200 THEN tmp \ {c} ELSE tmp
  /\ at' = [at EXCEPT ![c] = 0]
  /\ resolved' = [resolved EXCEPT ![c] = <<>>]
  /\ misses' = [misses EXCEPT ![c] = <<>>]
Finish(c, r) ==
  /\ Goto(c, "idle")
  /\ reply' = [reply EXCEPT ![c] = r]
  /\ tmp' = tmp \ {c}
  /\ at' = [at EXCEPT ![c] = 0]
  /\ resolved' = [resolved EXCEPT ![c] = <<>>]
  /\ misses' = [misses EXCEPT ![c] = <<>>]
Fail(c, code) == Finish(c, Service!Failed(code))

\* DetectionCache: an OrderedDict whose keys are the frame_ids of its values.
Places(f)  == {k \in DOMAIN cache : cache[k].frame = f}
Cached(f)  == Places(f) # {}
Place(f)   == CHOOSE k \in Places(f) : TRUE
Entry(f)   == cache[Place(f)]
Without(f) == IF Cached(f) THEN RemoveAt(cache, Place(f)) ELSE cache
Touch(f)   == Append(Without(f), Entry(f))
Put(d) ==
  LET s == Append(Without(d.frame), d)
  IN  IF Capacity <= 0 THEN cache
      ELSE IF Len(s) > Capacity THEN Tail(s) ELSE s

With(map, f, d) == [g \in DOMAIN map \cup {f} |-> IF g = f THEN d ELSE map[g]]
-----------------------------------------------------------------------------
Init ==
  /\ loaded \in BOOLEAN
  /\ job \in [Client -> Job]
  /\ reply = [c \in Client |-> Idle]
  /\ pc = [c \in Client |-> "idle"]
  /\ pool = <<>> /\ lockq = <<>> /\ tmp = {} /\ cache = <<>>
  /\ at = [c \in Client |-> 0]
  /\ resolved = [c \in Client |-> <<>>]
  /\ misses = [c \in Client |-> <<>>]

\* The request arrives; require_token is a plain function, so FastAPI runs it in
\* the pool, before it validates the body.
Submit(c, j) ==
  /\ pc[c] = "idle"
  /\ job' = [job EXCEPT ![c] = j]
  /\ reply' = [reply EXCEPT ![c] = Pending]
  /\ Goto(c, "auth")
  /\ pool' = Append(pool, c)
  /\ UNCHANGED <<loaded, lockq, tmp, cache, local>>

\* require_token, then on the event loop the validators and the checks of the
\* route, and the temporary directory when the frames come from S3.
Check(c) ==
  /\ OnThread(c, "auth")
  /\ IF ~job[c].token THEN Fail(c, 401) /\ pool' = Leave(pool, c)
     ELSE IF ~job[c].valid THEN Fail(c, 400) /\ pool' = Leave(pool, c)
     ELSE IF ~loaded THEN Fail(c, 503) /\ pool' = Leave(pool, c)
     ELSE /\ Goto(c, "fetch")
          /\ tmp' = IF job[c].source = "s3" THEN tmp \cup {c} ELSE tmp
          /\ pool' = Append(Leave(pool, c), c)
          /\ UNCHANGED <<reply, local>>
  /\ UNCHANGED <<loaded, job, lockq, cache>>

\* fetch_frames or resolve_frames returned: the handler queues for the lock
\* without holding a thread.
Fetched(c) ==
  /\ OnThread(c, "fetch")
  /\ Goto(c, "lock")
  /\ pool' = Leave(pool, c)
  /\ lockq' = Append(lockq, c)
  /\ UNCHANGED <<loaded, job, reply, tmp, cache, local>>

FetchFails(c) ==
  /\ OnThread(c, "fetch")
  /\ \E code \in Service!FetchErrors(job[c]) : Fail(c, code)
  /\ pool' = Leave(pool, c)
  /\ UNCHANGED <<loaded, job, lockq, cache>>

Holder(c) == lockq # <<>> /\ Head(lockq) = c

\* The lock is ours: _predict_sync goes to the pool.
Enter(c) ==
  /\ Goto(c, IF job[c].supplied THEN "supplied" ELSE "lookup")
  /\ at' = [at EXCEPT ![c] = 1]
  /\ pool' = Append(pool, c)
  /\ UNCHANGED <<loaded, job, reply, lockq, tmp, cache, resolved, misses>>

Acquire_Unlocked(c) == pc[c] = "lock" /\ Enter(c)     \* variant: no `async with`
Acquire(c) == pc[c] = "lock" /\ Holder(c) /\ Enter(c)

\* _supplied_frame_detections: detector and cache are bypassed.
Supplied(c) ==
  /\ OnThread(c, "supplied")
  /\ Goto(c, "predict")
  /\ resolved' = [resolved EXCEPT ![c] =
       [f \in {Frames(c)[i] : i \in DOMAIN Frames(c)} |->
          LET i == Service!LastOf(Frames(c), f) IN Service!Detections(i, f, i)]]
  /\ UNCHANGED <<loaded, job, reply, shared, at, misses>>

\* `if f.frame_id in self._cache`
Lookup(c) ==
  /\ OnThread(c, "lookup")
  /\ at[c] <= Len(Frames(c))
  /\ LET f == Frames(c)[at[c]] IN
     IF Cached(f)
     THEN Goto(c, "get") /\ UNCHANGED <<at, misses>>
     ELSE /\ misses' = [misses EXCEPT ![c] = Append(@, f)]
          /\ at' = [at EXCEPT ![c] = @ + 1]
          /\ UNCHANGED pc
  /\ UNCHANGED <<loaded, job, reply, shared, resolved>>

\* self._cache.get, a KeyError if the frame_id has gone.
Get(c) ==
  /\ OnThread(c, "get")
  /\ LET f == Frames(c)[at[c]] IN
     IF Cached(f)
     THEN /\ cache' = Touch(f)
          /\ resolved' = [resolved EXCEPT ![c] = With(@, f, Entry(f))]
          /\ at' = [at EXCEPT ![c] = @ + 1]
          /\ Goto(c, "lookup")
     ELSE Goto(c, "failed") /\ UNCHANGED <<cache, resolved, at>>
  /\ UNCHANGED <<loaded, job, reply, pool, lockq, tmp, misses>>

\* self._model.detect(misses), in one batch; it may raise.
Detect(c) ==
  /\ OnThread(c, "lookup")
  /\ at[c] > Len(Frames(c))
  /\ at' = [at EXCEPT ![c] = 1]
  /\ \E p \in {"put", "failed"} : Goto(c, p)
  /\ UNCHANGED <<loaded, job, reply, shared, resolved, misses>>

\* One turn of `for fd in detected`, and what follows the loop.
Store(c) ==
  /\ OnThread(c, "put")
  /\ IF at[c] <= Len(misses[c])
     THEN LET d == Service!Detections(at[c], misses[c][at[c]], 0) IN
          /\ cache' = Put(d)
          /\ resolved' = [resolved EXCEPT ![c] = With(@, d.frame, d)]
          /\ at' = [at EXCEPT ![c] = @ + 1]
          /\ UNCHANGED pc
     ELSE Goto(c, "predict") /\ UNCHANGED <<cache, resolved, at>>
  /\ UNCHANGED <<loaded, job, reply, pool, lockq, tmp, misses>>

\* _resolve_frame_detections: the stored frame_idx belongs to another call.
Restamped_Not(c) ==    \* variant: the cached frame_idx is kept
  [i \in DOMAIN Frames(c) |-> resolved[c][Frames(c)[i]]]
Restamped(c) ==
  [i \in DOMAIN Frames(c) |-> [resolved[c][Frames(c)[i]] EXCEPT !.idx = i]]

Release_Leaked(c) ==   \* variant: the lock is kept when the prediction raises
  /\ pool' = Leave(pool, c)
  /\ lockq' = IF pc[c] = "failed" THEN lockq ELSE Tail(lockq)
  /\ UNCHANGED <<loaded, job, cache>>
\* The lock goes to the next in line.
Release(c) ==
  /\ pool' = Leave(pool, c)
  /\ lockq' = Tail(lockq)
  /\ UNCHANGED <<loaded, job, cache>>

\* model.predict returns: lock released, response built, temp dir removed, all
\* before the event loop runs another handler.
Predict(c) ==
  /\ OnThread(c, "predict")
  /\ Finish(c, [code |-> 200, body |-> Restamped(c)])
  /\ Release(c)

\* model.predict, or an earlier step under the lock, raised.
PredictFails(c) ==
  /\ OnThread(c, "predict") \/ OnThread(c, "failed")
  /\ Fail(c, 500)
  /\ Release(c)

Handle(c) ==
  \/ Check(c)
  \/ Fetched(c)
  \/ FetchFails(c)
  \/ Acquire(c)
  \/ Supplied(c)
  \/ Lookup(c)
  \/ Get(c)
  \/ Detect(c)
  \/ Store(c)
  \/ Predict(c)
  \/ PredictFails(c)

Next == \E c \in Client : Handle(c) \/ \E j \in Job : Submit(c, j)

\* The event loop and the threads run: a handler that can go on does.  Downloads
\* and inference end, by their answer or by an exception.
Spec == Init /\ [][Next]_vars /\ \A c \in Client : WF_vars(Handle(c))
-----------------------------------------------------------------------------
Inference == {"supplied", "lookup", "get", "put", "predict", "failed"}

\* The model and the cache are used by one prediction at a time, from its
\* first look at the cache to its answer, although every request has a thread.
Serialised ==
  \A c, d \in Client : pc[c] \in Inference /\ pc[d] \in Inference => c = d

\* A frame_id the cache was found to hold is still there when it is read: nothing
\* evicts between `in` and `get`, whatever the other requests are doing.
NoKeyError == \A c \in Client : pc[c] = "get" => Cached(Frames(c)[at[c]])

\* The cache keeps one entry per frame_id and never more than its capacity, a
\* caller's supplied boxes never end up in it, and what a handler found in it is
\* there until that handler reads it.
CacheSound ==
  /\ Len(cache) <= IF Capacity > 0 THEN Capacity ELSE 0
  /\ \A k, m \in DOMAIN cache : cache[k].frame = cache[m].frame => k = m
  /\ \A k \in DOMAIN cache : cache[k].by = 0
  /\ NoKeyError

\* The frames copied from S3 stay on disk until the model has read them, and no
\* directory outlives its request, whichever way the request ends.
FramesOnDisk ==
  tmp = {c \in Client : /\ pc[c] \in {"fetch", "lock"} \cup Inference
                        /\ job[c].source = "s3"}

\* The answer is the one a server without cache, lock or concurrency would give.
Implements == Service!Spec

\* Every request is answered, however many others wait for a thread or the lock.
Answered == \A c \in Client : reply[c] = Pending ~> reply[c] # Pending
=============================================================================
