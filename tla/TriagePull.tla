---------------------------- MODULE TriagePull ----------------------------
(***************************************************************************)
(* temporal-triage pull (triage/pull.py): the unannotated backlog of the   *)
(* annotator is listed page by page, then each sequence that is not in the *)
(* local store yet is downloaded, its meta.json last.  The process may be  *)
(* killed at any point and is simply started again.                        *)
(***************************************************************************)
EXTENDS Integers, Sequences, FiniteSets

CONSTANTS
  MaxSequence, \* bound: the sequences of the annotator are 1..MaxSequence
  Frame,       \* the detections of each
  PageSize,
  SeqWorkers,  \* sequences pulled in parallel (seq_workers)
  MaxFaults    \* bound: kills of the process and downloads that fail for good

ASSUME PullAssumption ==
  /\ MaxSequence \in Nat /\ PageSize \in Nat \ {0} /\ SeqWorkers \in Nat \ {0}
  /\ MaxFaults \in Nat

VARIABLES
  drift,    \* the backlog may change while it is being listed
  created,  \* the newest sequence of the annotator
  queue,    \* the backlog as the annotator orders it, newest first
  pc,       \* "idle", "list" or "pull"
  page,     \* the page to ask for
  new_seqs, \* what the listing found missing
  work,     \* work[i]: how far the pull of new_seqs[i] is
  image,    \* image[s][f]: "absent", "partial" (being written, or cut off) or "ok"
  meta,     \* meta[s], likewise
  faults

disk == <<image, meta>>
pullVars == <<drift, created, queue, pc, page, new_seqs, work, disk, faults>>

Sequences == 1..MaxSequence
Queued   == {queue[i] : i \in DOMAIN queue}
PageOf(k) ==
  LET first == (k - 1) * PageSize
      left  == Len(queue) - first
  IN  [i \in 1..(IF left < PageSize THEN left ELSE PageSize) |-> queue[first + i]]

Exists_Dir(s) ==    \* variant: a directory with frames is enough
  \E f \in Frame : image[s][f] # "absent"
\* sequence_exists: whether there is a meta.json, whatever it holds.
Exists(s) == meta[s] # "absent"

\* A pull waits for a worker, fetches frames, some of them being written, then
\* writes the meta.json; it is over when done or given up.
Waiting  == [step |-> "waiting", fetch |-> {}, writing |-> {}]
At(i, p) == pc = "pull" /\ work[i].step = p
Active   == {i \in DOMAIN work : work[i].step \in {"frames", "meta", "failing"}}
Move(i, p) == work' = [work EXCEPT ![i].step = p]
Fault    == faults < MaxFaults /\ faults' = faults + 1

PullInit ==
  /\ drift \in BOOLEAN
  /\ created = 0 /\ queue = <<>>
  /\ pc = "idle" /\ page = 1 /\ new_seqs = <<>> /\ work = <<>>
  /\ image = [s \in Sequences |-> [f \in Frame |-> "absent"]]
  /\ meta = [s \in Sequences |-> "absent"]
  /\ faults = 0

\* A sequence becomes ready to annotate; a human annotates one.
Arrive ==
  /\ drift \/ pc # "list"
  /\ created < MaxSequence
  /\ created' = created + 1
  /\ queue' = <<created + 1>> \o queue
  /\ UNCHANGED <<drift, pc, page, new_seqs, work, disk, faults>>
Annotate(i) ==
  /\ drift \/ pc # "list"
  /\ queue' = [k \in 1..(Len(queue) - 1) |-> queue[IF k < i THEN k ELSE k + 1]]
  /\ UNCHANGED <<drift, created, pc, page, new_seqs, work, disk, faults>>

Run ==
  /\ pc = "idle"
  /\ pc' = "list" /\ page' = 1 /\ new_seqs' = <<>>
  /\ UNCHANGED <<drift, created, queue, work, disk, faults>>

\* One page of iter_unannotated_sequences, a short page being the last; what is in
\* the store is skipped here, in the listing pass, the rest taken in its order.
ListPage ==
  /\ pc = "list"
  /\ LET items == PageOf(page)
         fresh == {i \in DOMAIN items : ~Exists(items[i])} IN
     \E order \in [1..Cardinality(fresh) -> fresh] :
       /\ \A k, l \in DOMAIN order : k < l => order[k] < order[l]
       /\ new_seqs' = new_seqs \o [k \in DOMAIN order |-> items[order[k]]]
  /\ IF Len(PageOf(page)) < PageSize
     THEN pc' = "pull" /\ work' = [i \in DOMAIN new_seqs' |-> Waiting] /\ UNCHANGED page
     ELSE page' = page + 1 /\ UNCHANGED <<pc, work>>
  /\ UNCHANGED <<drift, created, queue, disk, faults>>

Take(i) ==
  /\ At(i, "waiting")
  /\ \A k \in 1..(i - 1) : work[k].step # "waiting"
  /\ Cardinality(Active) < SeqWorkers
  /\ work' = [work EXCEPT ![i] = [step |-> "frames", fetch |-> Frame, writing |-> {}]]
  /\ UNCHANGED <<drift, created, queue, pc, page, new_seqs, disk, faults>>

\* A frame has been downloaded and its file is opened, then written.
OpenFrame(i, f) ==
  /\ At(i, "frames") \/ At(i, "failing")
  /\ f \in work[i].fetch
  /\ work' = [work EXCEPT ![i].fetch = @ \ {f}, ![i].writing = @ \cup {f}]
  /\ image' = [image EXCEPT ![new_seqs[i]][f] = "partial"]
  /\ UNCHANGED <<drift, created, queue, pc, page, new_seqs, meta, faults>>
WriteFrame(i, f) ==
  /\ pc = "pull" /\ f \in work[i].writing
  /\ work' = [work EXCEPT ![i].writing = @ \ {f}]
  /\ image' = [image EXCEPT ![new_seqs[i]][f] = "ok"]
  /\ UNCHANGED <<drift, created, queue, pc, page, new_seqs, meta, faults>>

\* A frame fails all its attempts: the downloads not begun are cancelled, the others
\* are waited for, and _pull_one_safe gives the sequence up.
FailFrame(i) ==
  /\ At(i, "frames")
  /\ Fault
  /\ \E f \in work[i].fetch : \E begun \in SUBSET (work[i].fetch \ {f}) :
       work' = [work EXCEPT ![i].step = "failing", ![i].fetch = begun]
  /\ UNCHANGED <<drift, created, queue, pc, page, new_seqs, disk>>
GiveUp(i) ==
  /\ At(i, "failing") /\ work[i].fetch = {} /\ work[i].writing = {}
  /\ Move(i, "over")
  /\ UNCHANGED <<drift, created, queue, pc, page, new_seqs, disk, faults>>

OpenMeta_Early(i) ==   \* variant: meta.json is written while frames are in flight
  /\ At(i, "frames") /\ work[i].fetch = {}
  /\ Move(i, "meta")
  /\ meta' = [meta EXCEPT ![new_seqs[i]] = "partial"]
  /\ UNCHANGED <<drift, created, queue, pc, page, new_seqs, image, faults>>
\* write_meta, once every frame is on disk.
OpenMeta(i) ==
  /\ At(i, "frames") /\ work[i].fetch = {} /\ work[i].writing = {}
  /\ Move(i, "meta")
  /\ meta' = [meta EXCEPT ![new_seqs[i]] = "partial"]
  /\ UNCHANGED <<drift, created, queue, pc, page, new_seqs, image, faults>>
WriteMeta(i) ==
  /\ At(i, "meta")
  /\ Move(i, "over")
  /\ meta' = [meta EXCEPT ![new_seqs[i]] = "ok"]
  /\ UNCHANGED <<drift, created, queue, pc, page, new_seqs, image, faults>>

Stop == pc' = "idle" /\ page' = 1 /\ new_seqs' = <<>> /\ work' = <<>>

Finish ==
  /\ pc = "pull"
  /\ \A i \in DOMAIN work : work[i].step = "over"
  /\ Stop
  /\ UNCHANGED <<drift, created, queue, disk, faults>>

\* The process dies, or the annotator fails during the listing.
KillPull ==
  /\ pc # "idle"
  /\ Fault
  /\ Stop
  /\ UNCHANGED <<drift, created, queue, disk>>

PullStep ==
  \/ Run
  \/ ListPage
  \/ Finish
  \/ \E i \in DOMAIN work :
       \/ Take(i)
       \/ \E f \in Frame : OpenFrame(i, f) \/ WriteFrame(i, f)
       \/ GiveUp(i)
       \/ OpenMeta(i)
       \/ WriteMeta(i)

PullNext ==
  \/ PullStep
  \/ Arrive
  \/ \E i \in DOMAIN queue : Annotate(i)
  \/ \E i \in DOMAIN work : FailFrame(i)
  \/ KillPull

\* The command is run again and again, and goes on while it runs.
PullSpec == PullInit /\ [][PullNext]_pullVars /\ WF_pullVars(PullStep)
-----------------------------------------------------------------------------
Whole(s) == \A f \in Frame : image[s][f] = "ok"

\* While the backlog is not reordered under the listing, a meta.json between two runs
\* means that every frame of the sequence is on disk whole, whatever was interrupted.
PresenceMarksComplete ==
  pc = "idle" /\ ~drift => \A s \in Sequences : meta[s] # "absent" => Whole(s)

\* Every sequence of the backlog reaches the store, or is annotated first, although
\* what is annotated or added during a listing moves others to a page already read.
BacklogPulled ==
  \A s \in Sequences : s \in Queued ~> meta[s] # "absent" \/ s \notin Queued
=============================================================================
