--------------------------- MODULE PredictService ---------------------------
(***************************************************************************)
(* What POST /predict promises a caller, without threads, locks, temporary *)
(* files or caches: a request gets one answer, and a successful one is     *)
(* computed from that request's frames alone.                              *)
(***************************************************************************)
EXTENDS Integers, Sequences

CONSTANTS
  Client,
  Job       \* the requests a client may send

VARIABLES
  loaded,   \* the runner was loaded at startup
  job,      \* job[c]: the request of client c
  reply     \* reply[c]: Idle, Pending or the answer

vars == <<loaded, job, reply>>

Idle    == [code |-> 0, body |-> <<>>]
Pending == [code |-> 1, body |-> <<>>]
Failed(code) == [code |-> code, body |-> <<>>]

\* The detections of one frame as the tube builder gets them: its place in the
\* sequence, its frame_id, and the position of the caller's list they come from
\* (0: the bundled detector, whose output is a function of the frame_id).
Detections(idx, frame, by) == [idx |-> idx, frame |-> frame, by |-> by]

\* Supplied lists are keyed by frame_id, so the last list of a frame_id counts.
LastOf(fs, f) == CHOOSE i \in DOMAIN fs : fs[i] = f /\ \A k \in DOMAIN fs : fs[k] = f => k <= i

Cacheless(j) ==
  [code |-> 200,
   body |-> [i \in DOMAIN j.frames |->
               Detections(i, j.frames[i],
                          IF j.supplied THEN LastOf(j.frames, j.frames[i]) ELSE 0)]]

\* Local frames are never a failing upstream: 502 is for S3 alone.
FetchErrors(j) == IF j.source = "s3" THEN {400, 404, 502, 500} ELSE {400, 404, 500}

Permitted(j) ==
  IF ~j.token THEN {Failed(401)}
  ELSE IF ~j.valid THEN {Failed(400)}
  ELSE IF ~loaded THEN {Failed(503)}
  ELSE {Cacheless(j)} \cup {Failed(code) : code \in FetchErrors(j)}

Init ==
  /\ loaded \in BOOLEAN
  /\ job \in [Client -> Job]
  /\ reply = [c \in Client |-> Idle]

Submit(c, j) ==
  /\ reply[c] # Pending
  /\ job' = [job EXCEPT ![c] = j]
  /\ reply' = [reply EXCEPT ![c] = Pending]
  /\ UNCHANGED loaded

Answer(c) ==
  /\ reply[c] = Pending
  /\ \E r \in Permitted(job[c]) : reply' = [reply EXCEPT ![c] = r]
  /\ UNCHANGED <<loaded, job>>

Next == \E c \in Client : Answer(c) \/ \E j \in Job : Submit(c, j)

Spec == Init /\ [][Next]_vars
=============================================================================
