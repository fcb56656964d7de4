---------------------------- MODULE AlertImport ----------------------------
(***************************************************************************)
(* temporal-monitor import (monitor/import_alert_api.py): sequences that   *)
(* production has scored are copied from the alert API into the store, one *)
(* directory per sequence under its organization and camera, meta.json     *)
(* last.  Meanwhile detections arrive, sequences are scored again and a    *)
(* camera may be renamed; the command may be killed at any point.          *)
(***************************************************************************)
EXTENDS MonitorStore, FiniteSets

CONSTANTS
  Version,   \* the api versions of production, as it records them
  Serves,    \* Serves[v]: the model that version v served there
  Live,      \* bound: the sequences that still change
  MaxBoxes,  \* bound: detections of a sequence
  MaxEvents, \* bound: detections, scores and renames
  MaxKills   \* bound: kills of a command

VARIABLES
  home,      \* what the alert API says of the camera now
  boxes,     \* boxes[s]: the detections of s, oldest first
  score,     \* score[s]: the score it records for s, or None
  events,
  kills,
  cmd,       \* the command that runs: "idle", "import" or "replay"
  store,     \* store[s][h]: a directory, its meta.json and its images
  forced,    \* an import was run with --force
  job        \* the import that runs

alerts == <<home, boxes, score, events>>
vars   == <<alerts, kills, cmd, store, forced, job>>

Scores(dets) ==
  IF Len(Ordered(dets)) < MinFrames THEN {None}
  ELSE {None} \cup {Score(v, Serves[v], dets) : v \in Version}

NoJob == [step |-> "none"]

\* sequence_exists
Exists(s) == MetaDirs(store, s) # {}

Init ==
  /\ home \in Home
  /\ boxes = [s \in Sequence |-> <<Detection(1, 1)>>]
  /\ score \in [Sequence -> Scores(<<Detection(1, 1)>>)]
  /\ events = 0 /\ kills = 0
  /\ cmd = "idle"
  /\ store = [s \in Sequence |-> [h \in Home |-> NoDir]]
  /\ forced = FALSE
  /\ job = NoJob

\* The alert API, as far as the monitor sees it: a detection arrives on a new frame or
\* as another box of an earlier one; a sequence with enough frames is scored, and
\* scored again; the camera is renamed.
Arrivals(dets) ==
  {Detection(Len(Ordered(dets)) + 1, 1)} \cup
  {Detection(f, 1 + Cardinality({d \in Range(dets) : d.frame = f})) : f \in Range(Ordered(dets))}

Event ==
  /\ events < MaxEvents /\ events' = events + 1
  /\ UNCHANGED <<kills, cmd, store, forced, job>>
Detect(s) ==
  /\ Event
  /\ Len(boxes[s]) < MaxBoxes
  /\ \E d \in Arrivals(boxes[s]) : boxes' = [boxes EXCEPT ![s] = Append(@, d)]
  /\ UNCHANGED <<home, score>>
Rate(s) ==
  /\ Event
  /\ \E r \in Scores(boxes[s]) \ {None} : score' = [score EXCEPT ![s] = r]
  /\ UNCHANGED <<home, boxes>>
Rename ==
  /\ Event
  /\ home' \in Home \ {home}
  /\ UNCHANGED <<boxes, score>>

\* The command reads the cameras and lists the sequences with their scores, once.
Start(force) ==
  /\ cmd = "idle" /\ cmd' = "import"
  /\ job' = [step |-> "next", force |-> force, home |-> home, listed |-> score, todo |-> Sequence]
  /\ forced' = (forced \/ force)
  /\ UNCHANGED <<alerts, kills, store>>

Importing(p) == cmd = "import" /\ job.step = p
Over(s) ==
  job' = [step |-> "next", force |-> job.force, home |-> job.home, listed |-> job.listed,
          todo |-> job.todo \ {s}]

\* The next sequence, in the order of the listing.
IsNext(s) == Importing("next") /\ s \in job.todo /\ \A t \in job.todo : s <= t

Skip(s) ==
  /\ IsNext(s)
  /\ ~job.force /\ Exists(s)
  /\ Over(s)
  /\ UNCHANGED <<alerts, kills, cmd, store, forced>>

\* _import_one: the detections are listed now, the rest is what was listed before.
Begin(s) ==
  /\ IsNext(s)
  /\ job.force \/ ~Exists(s)
  /\ job' = [step |-> "purge", force |-> job.force, home |-> job.home, listed |-> job.listed,
             todo |-> job.todo, seq |-> s, left |-> boxes[s],
             meta |-> [dets |-> boxes[s], score |-> job.listed[s]]]
  /\ UNCHANGED <<alerts, kills, cmd, store, forced>>

Dir == store[job.seq][job.home]
WithDir(d) == [store EXCEPT ![job.seq][job.home] = d]

Purge_Not == UNCHANGED store    \* variant: directories under an earlier name stay
\* shutil.rmtree of the directories with a meta.json under another name.
Stale == MetaDirs(store, job.seq) \ {job.home}
Purge == store' = [store EXCEPT ![job.seq] = [h \in Home |-> IF h \in Stale THEN NoDir ELSE @[h]]]

RemoveStale ==
  /\ Importing("purge")
  /\ Purge
  /\ job' = [job EXCEPT !.step = "fetch"]
  /\ UNCHANGED <<alerts, kills, cmd, forced>>

Written_Resumed(d) ==    \* variant: a file that is there is not downloaded again
  IF d \in Dir.torn THEN Dir ELSE [Dir EXCEPT !.images = @ \cup {d}]
Written(d) == [meta |-> Dir.meta, images |-> Dir.images \cup {d}, torn |-> Dir.torn \ {d}]

\* One image is downloaded, then written in place.
Fetch ==
  /\ Importing("fetch") /\ job.left # <<>>
  /\ store' = WithDir(Written(Head(job.left)))
  /\ job' = [job EXCEPT !.left = Tail(@)]
  /\ UNCHANGED <<alerts, kills, cmd, forced>>

\* A RequestException, of the listing of detections or of a download.
Fails(s) ==
  /\ \/ IsNext(s) /\ (job.force \/ ~Exists(s))
     \/ Importing("fetch") /\ s = job.seq /\ job.left # <<>>
  /\ Over(s)
  /\ UNCHANGED <<alerts, kills, cmd, store, forced>>

WriteMeta ==
  /\ Importing("fetch") /\ job.left = <<>>
  /\ store' = WithDir([Dir EXCEPT !.meta = job.meta])
  /\ Over(job.seq)
  /\ UNCHANGED <<alerts, kills, cmd, forced>>

Done ==
  /\ Importing("next") /\ job.todo = {}
  /\ cmd' = "idle" /\ job' = NoJob
  /\ UNCHANGED <<alerts, kills, store, forced>>

\* What the file operation that a kill interrupts may leave: a directory removed in
\* part, a file opened (which empties it) and not written.
Leftovers(d) ==
  {[meta |-> m, images |-> i, torn |-> d.torn] : m \in {None, d.meta}, i \in SUBSET d.images}
Interrupted ==
  CASE job.step = "purge" -> {[store EXCEPT ![job.seq] = f] :
         f \in {g \in [Home -> UNION {Leftovers(store[job.seq][h]) : h \in Home}] :
                  \A h \in Home : IF h \in Stale THEN g[h] \in Leftovers(store[job.seq][h])
                                  ELSE g[h] = store[job.seq][h]}}
    [] job.step = "fetch" /\ job.left # <<>> ->
         LET d == Head(job.left) IN
         {store, WithDir([meta |-> Dir.meta, images |-> Dir.images \ {d},
                          torn |-> Dir.torn \cup {d}])}
    [] job.step = "fetch" /\ job.left = <<>> -> {store, WithDir([Dir EXCEPT !.meta = Cut])}
    [] OTHER -> {store}

Kill ==
  /\ cmd = "import"
  /\ kills < MaxKills /\ kills' = kills + 1
  /\ store' \in Interrupted
  /\ cmd' = "idle" /\ job' = NoJob
  /\ UNCHANGED <<alerts, forced>>

Next ==
  \/ \E s \in Live : Detect(s) \/ Rate(s)
  \/ \E s \in Sequence : Skip(s) \/ Begin(s) \/ Fails(s)
  \/ Rename
  \/ \E force \in BOOLEAN : Start(force)
  \/ RemoveStale \/ Fetch \/ WriteMeta \/ Done \/ Kill
-----------------------------------------------------------------------------
Readable(s, h) == store[s][h].meta \notin {None, Cut}

\* A sequence is in the store once: whatever was renamed, forced, killed or failed, no
\* two directories of it have a meta.json, so that it cannot be reported twice.
OneHome ==
  \A s \in Sequence : \A g, h \in MetaDirs(store, s) : g = h

\* A meta.json that can be read names only images that are on disk whole, unless a
\* forced import, which writes over what is there, may have been killed.
ImagesWhole ==
  (forced => kills = 0) =>
    \A s \in Sequence, h \in Home : Readable(s, h) =>
      Range(store[s][h].meta.dets) \subseteq store[s][h].images
=============================================================================
