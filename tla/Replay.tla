------------------------------ MODULE Replay ------------------------------
(***************************************************************************)
(* temporal-monitor replay (monitor/replay.py, stack.py, report.py): the   *)
(* stored sequences are scored again by the api image of the version that  *)
(* scored them in production, one docker stack after another, and by a     *)
(* newer image for their trigger.  Each step of a stack may fail.          *)
(***************************************************************************)
EXTENDS MonitorStore

CONSTANTS
  Version,      \* numbered as the code sorts them
  Tag,          \* the versions that are valid image tags
  Model,        \* what the image of a version may hold
  WithTrigger,  \* the versions whose api computes the trigger
  TriggerModel  \* the model in the image given by --trigger-image

VARIABLES
  cmd,      \* the command that runs
  store,    \* read only here
  run       \* the replay that runs; run.image answers at API_URL and holds run.model

vars == <<cmd, store, run>>

NoRun == [step |-> "none"]

Nothing == 0     \* no image answers

\* iter_metas: one item per meta.json.
Items   == {i \in Sequence \X Home : i[2] \in MetaDirs(store, i[1])}
Meta(i) == store[i[1]][i[2]].meta
Disk(i) == store[i[1]][i[2]]

\* A probability stands for what it was computed from; images cut off make another.
Probability(model, dets, i) ==
  IF Files(dets) \subseteq Disk(i).images THEN [model |-> model, of |-> Request(dets)]
  ELSE [model |-> model, garbage |-> Request(dets)]
Recorded(i) == [model |-> Meta(i).score.model, of |-> Meta(i).score.of]

Dropping(items, reason) == {[seq |-> i[1], home |-> i[2], reason |-> reason] : i \in items}

\* Sequences without a version, or with one that is no image tag, are dropped first.
Start ==
  /\ cmd = "idle" /\ cmd' = "replay"
  /\ \A i \in Items : Meta(i) # Cut     \* read_meta raises before anything is done
  /\ LET unscored == {i \in Items : Meta(i).score = None}
         untagged == {i \in Items \ unscored : Meta(i).score.api \notin Tag}
     IN  run' = [step |-> "next", todo |-> Items \ (unscored \cup untagged), items |-> {},
                 image |-> Nothing, model |-> None, health |-> None, rows |-> {},
                 dropped |-> Dropping(unscored, "no_temporal_version")
                             \cup Dropping(untagged, "invalid_api_version")]
  /\ UNCHANGED store

Replaying(p) == cmd = "replay" /\ run.step = p

Group(v) == {i \in run.todo : Meta(i).score.api = v}

\* stack.up() for the next version: its image takes over, whatever model it holds.  A
\* group whose stack does not start is dropped, and nothing is torn down.
Up ==
  /\ Replaying("next") /\ run.todo # {}
  /\ LET v == Min({Meta(i).score.api : i \in run.todo}) IN
     \/ \E m \in Model :
          run' = [run EXCEPT !.step = "health", !.image = v, !.model = m,
                             !.todo = @ \ Group(v), !.items = Group(v)]
     \/ run' = [run EXCEPT !.todo = @ \ Group(v),
                           !.dropped = @ \cup Dropping(Group(v), "image_pull_failed")]
  /\ UNCHANGED <<cmd, store>>

WaitHealthy_Silent ==    \* variant: the group of a sick stack is skipped
  /\ Replaying("health")
  /\ run' = [run EXCEPT !.step = "items", !.items = {}]
  /\ UNCHANGED <<cmd, store>>
\* wait_healthy, once per group.
WaitHealthy ==
  /\ Replaying("health")
  /\ \/ run' = [run EXCEPT !.step = "items", !.health = run.model]
     \/ run' = [run EXCEPT !.step = "items", !.items = {},
                           !.dropped = @ \cup Dropping(run.items, "stack_unhealthy")]
  /\ UNCHANGED <<cmd, store>>

\* The files a request on these detections would upload are all there.
Present(dets, i) == Files(dets) \subseteq Disk(i).images \cup Disk(i).torn

\* _find_matching_window: the windows shorter than all frames are tried in order, until
\* one reproduces the recorded score or its probe raises, as it does without a file.
Windows(i) == MinFrames..(Len(Ordered(Meta(i).dets)) - 1)
Raising(i) ==
  {{n \in Windows(i) : ~Present(Window(Meta(i).dets, n), i)} \cup r : r \in SUBSET Windows(i)}
Matching(i, raising) ==
  LET stops == {n \in Windows(i) :
                  \/ n \in raising
                  \/ Probability(run.model, Window(Meta(i).dets, n), i) = Recorded(i)}
  IN  IF stops = {} \/ Min(stops) \in raising THEN 0 ELSE Min(stops)

Refused_AnyModel(i) ==    \* variant: the model version is not compared
  IF Present(Meta(i).dets, i) THEN "none" ELSE "no_images"
\* The reason not to replay a sequence, if there is one.
Refused(i) ==
  CASE run.health # Meta(i).score.model             -> "model_version_mismatch"
    [] Len(Ordered(Meta(i).dets)) < MinFrames       -> "too_few_frames"
    [] ~Present(Meta(i).dets, i)                    -> "no_images"
    [] OTHER                                        -> "none"

\* A row: what it says, and (by, probed) which image and whether all probes answered.
Row(i, raising) ==
  LET p == Probability(run.model, Meta(i).dets, i)
  IN  [seq |-> i[1], home |-> i[2], score |-> Meta(i).score, replayed |-> p,
       matches |-> p = Recorded(i),
       window |-> IF p = Recorded(i) THEN 0 ELSE Matching(i, raising),
       trigger |-> IF run.image \in WithTrigger THEN p ELSE None,
       by |-> run.image, probed |-> p = Recorded(i) \/ raising = {}]

Finish(i) == [run EXCEPT !.items = @ \ {i}]
ReplayOne(i) ==
  /\ Replaying("items") /\ i \in run.items
  /\ \/ /\ Refused(i) # "none"
        /\ run' = [Finish(i) EXCEPT !.dropped = @ \cup Dropping({i}, Refused(i))]
     \/ /\ Refused(i) = "none"
        /\ run' = [Finish(i) EXCEPT !.dropped = @ \cup Dropping({i}, "predict_failed")]
     \/ /\ Refused(i) = "none"
        /\ \E raising \in Raising(i) :
             run' = [Finish(i) EXCEPT !.rows = @ \cup {Row(i, raising)}]
  /\ UNCHANGED <<cmd, store>>

Abort == cmd' = "idle" /\ run' = NoRun

\* stack.down(), in a finally: when it raises there will be no report.
Down ==
  /\ Replaying("items") /\ run.items = {}
  /\ \/ run' = [run EXCEPT !.step = "next", !.image = Nothing] /\ UNCHANGED cmd
     \/ Abort
  /\ UNCHANGED store

Newly(i) == Probability(TriggerModel, Meta(i).dets, i)
\* _enrich_triggers: rows whose probability the newer image reproduces get its trigger.
Enriched(r) ==
  LET p == Newly(<<r.seq, r.home>>) IN IF p = r.replayed THEN [r EXCEPT !.trigger = p] ELSE r
\* The stack may fail to start or to become healthy, and any row to be predicted.
Enrich ==
  /\ Replaying("next") /\ run.todo = {} /\ run.rows # {}
  /\ \/ \E failing \in SUBSET run.rows :
          run' = [run EXCEPT !.step = "enriched",
                             !.rows = failing \cup {Enriched(r) : r \in run.rows \ failing}]
     \/ run' = [run EXCEPT !.step = "enriched"]
  /\ UNCHANGED <<cmd, store>>
EnrichDown ==
  /\ Replaying("enriched")
  /\ \/ run' = [run EXCEPT !.step = "report"] /\ UNCHANGED cmd
     \/ Abort
  /\ UNCHANGED store

\* --trigger-image is optional, and not used without rows.
NoEnrichment ==
  /\ Replaying("next") /\ run.todo = {}
  /\ run' = [run EXCEPT !.step = "report"]
  /\ UNCHANGED <<cmd, store>>

\* write_report: rows and drops are published.
WriteReport ==
  /\ Replaying("report")
  /\ Abort
  /\ UNCHANGED store

\* What had been replayed is lost.
Kill ==
  /\ cmd = "replay"
  /\ Abort
  /\ UNCHANGED store
-----------------------------------------------------------------------------
Rows == IF run = NoRun THEN {} ELSE run.rows

\* The report accounts for every sequence of the store, and for each once: as a row or
\* as dropped, whichever of its stacks failed at whichever step.
AccountedOnce ==
  Replaying("report") => \A i \in Items :
    \E x \in run.rows \cup run.dropped : {y \in run.rows \cup run.dropped : y.seq = i[1]} = {x}

\* A row was computed by the image of the version that scored the sequence, holding
\* the model that scored it, even when tags were moved; and the trigger it reports,
\* which another image may have computed, belongs to the very result it reports.
Genuine ==
  \A r \in Rows :
    /\ r.by = r.score.api
    /\ r.replayed.model = r.score.model
    /\ r.trigger # None => r.trigger = r.replayed

\* A row that neither matches nor names a window means genuine drift: with the right
\* image and model, and every probe answered, some window gives the recorded score,
\* unless a box came later on a frame that had been scored.
DriftExplained ==
  \A r \in Rows :
    LET i     == <<r.seq, r.home>>
        dets  == Range(Meta(i).dets)
        late  == {d \in dets : d.frame \in Range(r.score.of.frames)} # r.score.of.roi
    IN  r.probed /\ ~late /\ dets \subseteq Disk(i).images => r.matches \/ r.window > 0
=============================================================================
