# Verification of temporal-model

TLA+ models of the stateful and the hard-to-test parts of this repository, the
TLC runs that check them on small instances, and proofs, checked by TLAPS, that
some of what the runs show holds for every value of the constants.  Paths below
are relative to `src/`; `core/…`, `api/…` and so on stand for
`core/src/temporal_model/core/…` and the like.

1. [The system](#the-system)
2. [Modules and code](#modules-and-code)
3. [Runs](#runs)
4. [Fairness](#fairness)
5. [Proofs](#proofs)
6. [Where code and documents disagree](#where-code-and-documents-disagree)
7. [What is not modelled](#what-is-not-modelled)
8. [Plan](#plan)

Inside this directory, `tlc -config MCApiServer.cfg MCApiServer` checks a run
and `tlapm ApiServer_proofs.tla` a module of proofs.

## The system

temporal-model decides whether a sequence of camera frames shows a wildfire.
Detections of smoke on single frames are linked into *tubes* (a track of a region
over time), a classifier scores each tube, and the sequence is positive when a
tube is.  Around that core there is an HTTP service, its release process and
several tools that pull sequences, run the model over them and report.

| component | state it keeps | operations | interacts with | what is hard | what makes it correct |
|---|---|---|---|---|---|
| **core: tubes** (`core/tubes.py`) | active and finished tubes, miss counters, indices into both | match a frame, miss, start, prune, fill gaps, merge co-located tubes | called by the pipeline | lists indexed by positions taken before they changed; gaps written frames after they happened; ties | tubes are contiguous, gaps bounded, no detection lost or shared, the matching is stable, tubes only grow |
| **core: pipeline** (`core/pipeline.py`, `core/inference.py`) | one request: frames, padding, kept tubes, prefix scores | truncate, pad, detect, filter, score, search the trigger | detector and classifier; called by the api, eval, triage, benchmark, demo | two paths to one verdict; indices of padded slots against frames; assertions | the verdict does not depend on the path, the trigger is the earliest crossing, indices read back |
| **core: ONNX backend** (`core/onnx_model.py`, `core/stabilize.py`, `core/crop.py`) | LRU cache of embeddings, shared by all cameras of an edge device | look up, embed the misses, remember | same pipeline; training cuts its patches elsewhere | windows that move crops, stores that evict what was just hit, two ways to one crop | each slot gets the embedding of its own crop, cut as in training; what a round used is there in the next |
| **packages** (`train/package.py`, `core/package.py`, `core/export_onnx.py`) | `model.zip`, `model_onnx.zip`, one extraction directory | package, export, publish, fetch, load | training gives the checkpoint; the api, eval and triage load the result | hours between reading a file and copying it; archives rewritten under a reader; a directory every load shares | an archive holds what was fitted together, a process serves one archive whole, a release is a pair |
| **api: prediction service** (`api/app.py`, `api/model_runner.py`, `api/detection_cache.py`, `api/frames.py`, `api/s3.py`) | requests in flight, thread pool, `asyncio.Lock`, temporary directories, LRU detection cache | `POST /predict`, `GET /health` | core, S3, callers | interleaved handlers, threads, eviction between test and read, failures at each suspension | answers are those of a sequential service without cache; every request is answered; directories are removed |
| **api: release** (`api/release.py`, `.github/workflows/push.yml`) | main branch and tags of a HuggingFace repository, images | publish (four calls), fetch, the workflow that runs them | HuggingFace, GitHub Actions | workflows that overlap, fail and are run again | tag, archives and image belong together; images are reproducible |
| **triage: pull** (`triage/pull.py`, `triage/annotator_api.py`, `triage/store.py`) | local store: frames and `meta.json` per sequence | list the backlog, download | the annotator's API; score and pack read the store | parallel downloads, kills, retries, pages that shift | what looks complete is; nothing is missed or pulled twice |
| **triage: score, pack, unpack** (`triage/score.py`, `triage/report.py`, `triage/shards.py`) | report files, tar shards, manifests | score, pack, unpack | core, the store, a data remote | kills between files; incremental shards; files of earlier runs | manifest, shards, report and store agree; unpack inverts pack |
| **monitor: import** (`monitor/import_alert_api.py`, `monitor/store.py`) | store of alert sequences | import a range, force a re-import | the alert API; replay reads the store | kills, failures and renames between imports; gaps in the ids | a sequence is stored once, and whole |
| **monitor: replay** (`monitor/replay.py`, `monitor/stack.py`, `monitor/report.py`) | docker stack, results per api version | start, replay, stop, report | docker, the api | a step of one version failing before the next; detections that arrived after the score | a report accounts for every sequence; a result is of the version it names; what is called drift is drift |
| **eval** (`eval/evaluate.py`, `protocol_eval.py`, `outcomes.py`) | the reporting tree of a source | evaluate: details and view of each sequence, then metrics, then results | core; the viewer reads the tree | a run that is aborted, over the files of another | metrics and results are two accounts of one run that agree |
| **viewer** (`viewer/`) | rows, configuration, selection, threshold, filters, one panel | choose a source, select, move the slider, filter, sort; answers to fetches | reads the reports of eval, triage and monitor | answers in any order or none; filters and thresholds that outlive what they were made for | what is shown belongs to what is selected; no row is hidden by a filter nobody sees |
| **train, benchmark, demo, scripts** | files | sequential scripts | core | numerics | metrics |

The interactions that matter: the api and triage drive the pipeline, which drives
the tube builder; the api's cache feeds the pipeline with detections made for
*other* requests, the edge device's with embeddings made in earlier rounds; triage's
pull, score, pack and unpack meet in the same working tree; packaging, export and
publish meet in two archives, and every process that loads one in a directory; the
release workflow decides which archive the api serves; the viewer reads a tree that an
evaluation may be writing; and the viewer and eval read the trigger index that the
pipeline wrote in padded slots.

The hazards, each with its line in the source and the properties that would
notice it, are listed in `PROJECT.json`.

## Modules and code

Every definition that models code is mapped to its lines in `PROJECT.json`
(`"map"`).  Definitions named `X_Word` are *variants*: the same definition
broken the way a plausible bug would break it.  They are not part of a
specification; substituting one for `X` must make a property fail, which is how
each property is shown to have teeth.

### `Boxes`, `Tubes`, `TubeBuilder`: `core/tubes.py`

`ComputeIou` is `compute_iou` over integer boxes, scaled.  `Tubes` has the two constants
that building and merging share, the boxes and `max_misses`.  `TubeBuilder` is
`build_tubes`, with the detections of each frame chosen freely:

| action | code |
|---|---|
| `Read(dets)` | the top of the frame loop: `taker` says which tube took each detection |
| `Match` | one turn of the greedy loop of `match_detections` that accepts a pair, and what `build_tubes` does with it: fill the gaps, append, reset the counter |
| `Miss` | unmatched active tubes count a miss |
| `Start` | one unmatched detection starts a tube |
| `Prune` | tubes beyond `max_misses` move to the finished list |
| `Finish` | the end: everything active is finished |

The code keeps active and finished tubes in two lists and sorts at the end.
The model keeps one sequence in order of `tube_id` and an `open` flag, since both
lists of the code keep creation order.  Matching is a *step* and not an operator,
so that what the greedy loop achieves (`StableMatching`) is something to check.
Confidence and the geometry of a detection are abstracted to an arbitrary set
of boxes with an arbitrary overlap function: nothing in `build_tubes` reads more.

### `TubeMerge`: `build_tubes_for_inference`

What follows `build_tubes`: `Filter`, the double loop of `_connected_components`
one pair at a time (`Link`, with the union-find forest whose paths are halved while
they are walked), `Combine` (`_combine` for each component, the sort, the new tube
ids) and `Refilter`.  `phase` is how far the function is, `fragments` what it was given.  `merging` is whether all three merge thresholds are configured.
A tube is a function from the frames it was observed in to boxes: the gaps are the
frames between, and nothing here reads what `interpolate_gaps` puts there.
`Fragment` is what `TubeBuilder` can build, its `GapBound` included; that it leaves nothing
out is a theorem about the two specifications (`BuiltTubesAreFragments`).  Geometry is
abstracted to the relation `SameBox` (`_same_box`) and to `Rank` (`_box_rank`).
`Survivors` is the filter; `Combine` takes the components in the one order that the sort
leaves them in.  `Components` compares the forest with the least sets that leave out no
fragment related to one they have, defined without a forest.

### `Padding`, `TriggerSearch`: `core/inference.py`, `core/pipeline.py`

`Padding` has `pad_frames_symmetrically` (with the position list its loop
shifts), `pad_frames_uniform` and the reading back of an index
(`processedToInputIndex` of `viewer/lib/details.ts`; `eval/app.py` does the
same).  `TriggerSearch` is `TubePipelineModel.predict` around the classifier:
`Truncate` and pad, `BuildTubes` and filter, `Score`, and
`find_first_crossing_trigger` turn by turn (`SkipTube`, `TryPrefix`, `Decide`).

A score is reduced to the decision made on it and is *arbitrary*: every kept tube
and every strict prefix may come out either way.  So the results do not depend on
the classifier, on calibration or on the logistic decision being monotone in
anything.  Candidate tubes are any that `TubeBuilder`'s `Contiguous` allows, which
is where that property is used; those that the filters drop leave no trace, so only
the survivors are chosen.

### `PredictService`, `ApiServer`: `api/`

`ApiServer` models `POST /predict` between suspension points.  A handler runs
without interruption on the event loop until it awaits; then others run.

| action | code |
|---|---|
| `Submit` | the request arrives; `require_token` is a plain function and takes a thread |
| `Check` | token, validators, 503 without a model, `TemporaryDirectory` for S3 |
| `Fetched`, `FetchFails` | `fetch_frames` / `resolve_frames` in the pool, with their error codes |
| `Acquire` | `async with self._lock`, then `_predict_sync` is handed to the pool |
| `Supplied` | boxes supplied by the caller: detector and cache are bypassed |
| `Lookup`, `Get` | `frame_id in self._cache`, then `self._cache.get` |
| `Detect` | the detector on the misses, in one batch; it may raise |
| `Store` | `self._cache.put` of one detected frame, with LRU order and eviction |
| `Predict`, `PredictFails` | `model.predict`; then lock, thread and directory are given back |

The thread pool is a FIFO queue whose first `Threads` entries run (AnyIO's
capacity limiter); the lock a FIFO queue whose head holds it (`asyncio.Lock`).
Both are libraries modelled from their use.  A detection is the frame's place in
the request that made it, its `frame_id` and its origin, which is all that can go
wrong with it here.

`PredictService` is the abstract specification: a request gets one answer, and a
successful one is computed from that request's frames alone.  It knows no lock,
cache, thread or file.  `ApiServer` implements it with the identity on `loaded`,
`job` and `reply` (`Implements == Service!Spec`).

### `Release`: `api/release.py`, `.github/workflows/push.yml`

Each pushed git tag runs the workflow: `CheckPublished`, the four calls of
`publish` (`UploadModel`, `UploadOnnx`, `UploadCard`, `CreateTag`, or
`TagRefused` when the tag exists) and `BuildImage` (`fetch`, which asserts the
version in the manifest, and the docker build).  Any step may fail (`Crash`) and
the workflow may be run again.  `overlap` and `onnx_file` are chosen in the initial
state: nothing in the repository keeps workflows apart, and `--onnx-file` is
optional in the program though the workflow always gives it.

### `TriagePull`: `triage/pull.py`, `annotator_api.py`, `store.py`

`Run`, `ListPage` (one page of the backlog, skipping what is in the store), then
workers `Take` sequences, `OpenFrame`/`WriteFrame` in threads, `OpenMeta`/
`WriteMeta` last.  `FailFrame` is a download that has used up its attempts;
downloads that had begun go on, the others are cancelled, and the sequence is
given up (`GiveUp`).  `Kill` ends the process at any point.  Opening and writing
are two steps because `write_bytes` and `write_text` truncate first.  The
annotator is modelled from its use: a queue, newest first, in which sequences
`Arrive` and which `Annotate` shortens.  `drift`, chosen in the initial state,
says whether that may happen *during* a listing.

### `TriageReport`: `triage/score.py`, `report.py`, `shards.py`

`Score`, `Details` (one file at a time), `Scored`; `Pack`, `AddUnit` (one unit
into the open tar, sealing it when the unit does not fit), `Seal`, `Rebuild`
(the manifest is written and the old report shards removed), `AddReport`, `Packed`;
`Unpack`; and `Kill` between any two of them.  The contents of files are
abstracted to the run that wrote them.  Tar files and manifests can be left cut
off; a command that reads a cut manifest or an unsealed tar cannot proceed.

### `Reconstruct`, `MonitorStore`, `AlertImport`, `Replay`, `Monitor`: `monitor/`

`Monitor` composes two commands over one store, which an operator runs one after the
other, and the production system that they look at.

| action | code |
|---|---|
| `Detect`, `Rate`, `Rename` | external: a detection arrives, a sequence is scored, a camera changes its name |
| `AlertImport!Start`, `Skip`, `Begin`, `Fails` | `import_alert_api`: cameras and sequences are listed once, the detections of each when its turn comes; a sequence in the store is skipped unless `--force`; a `RequestException` passes it over |
| `RemoveStale`, `Fetch`, `WriteMeta` | `_import_one`: directories under an earlier name go, images are downloaded, `meta.json` comes last |
| `Replay!Start`, `Up`, `WaitHealthy`, `ReplayOne`, `Down` | `run_replay`: group by version, then one stack after another |
| `Enrich`, `EnrichDown`, `NoEnrichment`, `WriteReport` | `_enrich_triggers`, and the report |
| `Kill` (of either) | the process ends; `Interrupted` is what the file operation under way leaves |

A probability is abstracted to what it was computed from: a model and a request,
that is the last `MaxFrames` frames and the region, which is the envelope of the
detections on them (`Reconstruct!Request`).  Two probabilities agree exactly if those
do; images cut off give a probability that agrees with no recorded one.  A directory
holds whole images, torn images and a `meta.json` that may be missing or cut.  A
killed `rmtree` leaves any part of a directory.  What production does is left until a
command can notice it: between commands, and between two sequences of an import.
Sequences are listed in the order of their ids.  A version and a score are
written by one update in production, so that the guard against one without the other
(`no_recorded_score`) never fires here.  A stack that was not taken down is replaced
by the next `up`, which uses the same compose project.

Two properties have a precondition that names a limit of the code.  `ImagesWhole`
does not hold of a forced import that is killed: it writes over images whose
`meta.json` is already complete.  `DriftExplained` says that a row without a matching
window is genuine drift, if every probe was answered and no box was added *later* to
a frame that production had already scored: replay takes the region over all boxes of
a frame, so that such a score cannot be found again, and is reported as a drift of
the model.  A cut `meta.json` stops every replay before it begins (`Replay!Start`).

### `Packaging`: `train/package.py`, `core/package.py`, `core/export_onnx.py`, `api/release.py`

Commands that read and rewrite the same files, each of which may fail or be killed
between any two steps (`Stop`).

| action | code |
|---|---|
| `Train`, `PlaceDetector` | a checkpoint is saved; the detector the manifest declares is put in place |
| `PackLoad`, `PackFit`, `PackOpen`, `PackClose` | `main` of the package stage: verify the detector, load the checkpoint, fit, and `build_model_package`, which copies checkpoint and detector from disk |
| `ExportLoad`, `ExportRead`, `ExportSource`, `ExportTrace`, `ExportOpen`, `ExportClose` | `build_onnx_package`: load, read the source archive again, trace for minutes, hash the source, write |
| `PublishVerify`, `StageModel`, `StageOnnx` | `publish` up to the uploads: `verify_onnx_source`, and the stamped copies |
| `Fetch` | `fetch` |
| `LoadManifest`, `LoadExtract`, `LoadWeights` | `ModelRunner.load` and `load_model_package`: manifest, archive and extracted files are read in three steps |

Weights are the number of the training run that saved them; a threshold and a
calibrator are the weights they were fitted with; an archive is identified by its
writing, as its hash is (the zip holds time stamps).  An archive that is being written
cannot be read.  `dir` is `.cache/temporal_model_core`, where every load extracts over
what the last one left.  The uploads themselves are `Release`'s subject and one step
here.  Two switches, chosen in the initial state, name the limits of the properties:
`rebuilds` lets the package stage rewrite an archive that another command is reading,
`shares` lets two loads be under way in one directory.  Without the second, loads still
come one after the other in a directory that earlier ones filled.

### `Crops`, `EmbeddingCache`: `core/onnx_model.py`, `stabilize.py`, `crop.py`, `train/crop_patches.py`

`Crops` cuts the crop of every slot of a tube, in pixels and with the rounding of the
code, on one axis: `Interpolated` (`interpolate_gaps`), `TubeWindow`, `PixelSquare`, and
the two ways to a list of crops, `CropBoxes` of inference and `TrainingPatches` of
`crop_patches.py` and `dataset.py`.  `EmbeddingCache` submits the window of a camera
again and again: `Call` builds and pads it (with `Padding`), `Hit` and `Miss` look the
slots up one by one, `Embed` stores the embeddings of one batch in the order of the
misses; `Generic` is the path that takes no embeddings.  An embedding is the patch it
was computed from.  What the cameras see is any of a set of scenes.

### `Outcomes`, `Evaluate`, `Viewer`: `eval/`, `viewer/`

`Outcomes` has what is computed on both sides: outcomes, the confusion counts of
`metrics.json` (from records) and of the metrics panel (from rows), `FprAtRecall`,
filters, sorting and the threshold that decides rows again.  `Among` keeps some of a
sequence of rows in their order; the filters and the routes are built on it.

`Evaluate` writes the reporting tree of one source: `Start` (with or without removing
the old tree: DVC does, a run by hand does not), `Drop`, `EvaluateSequence` (details, then
view), `WriteMetrics`, `WriteResults`, and `Abort` with a file cut off.

`Viewer` is the page over that tree.

| action | code |
|---|---|
| `Answer`, `Lose` | a fetch is answered, in any order, from the files as they are then; or it fails, and nothing is set |
| `ChooseSource`, `Select`, `MoveSlider`, `ResetSlider`, `Filter`, `Sort` | what a user does |
| `Settled`, `Rendered` | the reset of the threshold during a render (`page.tsx:61-65`), and the effects: a configuration is fetched when the source changes, a panel when the source or the selected row does |

What React derives in a render (`Rows`, `TableRows`, `Selected`, `Cameras`, `ShowSlider`)
is an operator on the state of the page.  `newest`, `moved` and `early` are history
variables: they record what the properties except, and no action reads them.

## Runs

| run | distinct states | instance | what it shows |
|---|---|---|---|
| `tubes` | 173 742 | every sequence of 4 frames with up to 2 detections on 3 overlapping boxes, `max_misses = 1` | `Contiguous`, `GapBound`, `Partition`, `Linked`, `StableMatching`, `AppendOnly` |
| `tube_merge` | 161 342 | up to 3 tubes of 1 or 2 observations in 6 frames, 2 boxes that are not one plume, `max_misses = 1`, `merge_max_gap = 2` | components of the relation, no long gap bridged, no plume lost |
| `api_server` | 46 130 | 2 clients, 2 threads, cache of 2, 5 kinds of request over 3 frames | `CacheSound` (with it, that a frame found is still there when it is read), `FramesOnDisk`, refinement of `PredictService`, every request answered |
| `trigger` | 252 944 | requests of 0–6 frames, truncated to 4, padded to 4, both strategies, up to 3 tubes, all verdicts | no assertion trips, `SameVerdict`, `Earliest`, `ReadsBack` |
| `release` | 47 628 | 2 workflows, 2 versions, each run twice, overlapping or not, with or without ONNX | pairs, reproducible images, releases finish |
| `triage_pull` | 77 011 | 2 sequences of 2 frames, pages of 1, 2 workers, 2 faults | presence marks complete, backlog reached |
| `triage_report` | 342 768 | 3 sequences (sizes 1, 1, 3), shards of 2, 2 runs, 2 kills | shards agree with the manifest, unpack inverts pack, rows have details |
| `monitor` | 1 575 119 | 2 sequences of which one changes, 2 homes, 3 recorded versions of which 2 are image tags, 2 models, requests of 2 frames, up to 3 boxes, 2 events, 1 kill | the store holds each sequence once and whole, reports account for each once, a result and its trigger are of the version and the row they name (`Genuine`), drift is genuine |
| `packaging` | 1 345 398 | 2 trainings, 3 archives, one server, one evaluation, two commands at a time, archives rebuilt under a reader or not, loads overlapping or not | `PackageSound`, `ServedWhole`, `PairMatches` |
| `embedding_cache` | 1 041 547 | 2 cameras, up to 2 tracks, windows of 3 of 4 frames, cache of 4 for up to 6 slots, with and without stabilisation, 54 scenes | each slot has the embedding of its own crop, cut as in training (`Faithful`); what a call used is kept (`Retained`) |
| `viewer` | 269 620 | 2 evaluations of 4 sequences by models of both aggregations, a triage source that shares a name, 2 clicks | `MetricsAgree`, `PanelOfTheRow`, `VerdictsOfTheRun`, `FiltersVisible` |
| `release_overlap` | until the violation | 2 workflows that overlap | a [disagreement](#where-code-and-documents-disagree) |

Why these bounds are enough for the interesting cases:

* **tubes.** A tube can be observed, miss one frame, come back with a filled gap
  and be lost again: that takes four frames with `max_misses = 1`.  A second tube
  can finish, and a third start, meanwhile.  Neighbouring boxes overlap by 1/3 and
  the outer ones not at all; the threshold of 1/5 (the default) separates them.
  Two detections and three boxes give competition for a tube, competition for a
  detection, and ties.
* **tube_merge.** With three tubes one can link two that are unrelated, and a second
  link can meet a path that the first one made; spans of six frames can overlap,
  touch, be just near enough and just too far; tubes may hold both boxes, so that
  they are one plume where they are nearest and collide with different boxes
  elsewhere.
* **api_server.** Two clients are enough for every pairwise overlap; a request
  of three distinct frames overflows the cache of two while it is being stored;
  the same frame occurs at different positions of different requests, and twice
  in one; one request supplies its boxes, one has a bad token, one is invalid.
  With as many threads as clients nothing but the lock keeps predictions apart.
* **trigger.** More frames than the classifier takes, fewer than the padding
  minimum, exactly as many, none at all; tubes shorter than, equal to and longer
  than the minimum length; ties of two tubes for the earliest crossing.
* **release.** Two workflows of the same or of different versions, each with one
  failure at any step and one retry.
* **triage_pull.** One sequence per page makes every listing take several requests,
  so that it can be disturbed between any two; two workers with two frames each
  interleave; two faults allow a fault while recovering from one.
* **triage_report.** Two sequences share a shard and the third is larger than a
  shard, so sealing on overflow, sealing at the end and an oversized unit all
  occur; packs are incremental; two kills allow a kill after a recovery.

* **monitor.** With two sequences one version's group can fail while the other's goes
  on, and one sequence be imported while the other is pending.  Two events are a
  rename, or a detection and a score, in either order and at any time; three boxes
  with requests of two frames make a window that is not the whole, and a box that
  comes later on an earlier frame.  The images hold either model, so that a version
  may serve the wrong one.  The homes are symmetric: nothing compares names.
* **packaging.** A second training and a third archive are what it takes for a rebuilt
  `model.zip` to stand beside an export of the old one.  The constraint `TwoAtOnce`
  keeps two commands under way, the loads included, which has every pair of commands
  interleave.  The proofs have neither bound.
* **embedding_cache.** Boxes move, blink and come late, so that the box that holds an
  extremum of a window enters and leaves it while other slots stay; a window is submitted
  again or moved by one; frames repeat as padding; and two tubes need six slots of a
  cache of four, a single tube three.
* **viewer.** Both sources have a sequence `a`, so that a selection survives a change of
  source; the sources differ in aggregation, default threshold, mode and organizations.
  Two clicks with every order of the answers give a panel, a configuration and filters
  of an earlier choice.  `Opened` is a constraint: the page is opened after the first
  evaluation has ended, and the newest fetch of one kind at most is lost, before the first
  click.  The second evaluation may run, stop or be aborted at any time after that.

`RoundTrip` holds for a *constant* target.  That the tars a killed pack left cut off
are all overwritten by the next one, although more sequences may have been pulled in
between, rests on next-fit packing never using fewer shards for more units; a
`--target-bytes` raised after a kill would leave one behind, and `unpack` would stop
at it.

Deadlock is checked wherever the system goes on for ever.  `tubes`,
`tube_merge` and `trigger` model calls that return; in `release` all releases end up built or have
used up their runs; in `viewer` the user leaves and the last evaluation ends.

## Fairness

* `ApiServer`: weak fairness of the handler of each client.  The event loop runs
  handlers that can go on, the threads run, downloads and inference end by an
  answer or an exception (the S3 client has timeouts and its retries are
  bounded).  Nothing is assumed of `Submit`.  That waiting for a thread or for the
  lock ends is *not* assumed; it follows from both being FIFO and from their
  holders being fair.
* `TriagePull`: weak fairness of the command as a whole.  It is scheduled, and goes
  on while it runs; a fault may hit it, but only boundedly many do (`MaxFaults`).
* `Release`: strong fairness of each workflow: one that waits for its turn gets
  it, and one that failed is run again.  The re-run is a person's; `Built` says no
  more than that re-running is enough.
* The other specifications have no fairness and only safety properties.

## Proofs

Assumptions on constants are named in the module that declares them and are
evaluated by TLC in the runs: `BuilderAssumption` (overlap and bounds are natural
numbers), `MergeAssumption` (being one plume is symmetric, ranks and bounds are natural
numbers), `SearchAssumption` (a tube is at least one frame long), `ServerAssumption`
(at least one thread, no empty request), `ReportAssumption` (sizes and bounds),
`PullAssumption` (a page has at least one sequence), `MonitorAssumption` (a request has
at least one frame, `Live` names sequences; only `DriftIsGenuine` uses it), and those of `Crops` and
`EmbeddingCache` (sizes, strides, boxes with their edges in order).  The
proofs about `Packaging` and `Release` need no assumption; theirs
(`PackagingAssumption`, `ReleaseAssumption`) say what the instances are checked for.
`EvaluateAssumption` has the shapes of what the model computes of a sequence and of its
configuration, `ViewerAssumption` that every source but the evaluated one stands, and
`StandingAssumption` what the two writers of a tree that nobody rewrites guarantee of it:
rows of one kind, with their files and their verdicts where the configuration is that of
their own run.  For the source that is rewritten nothing of the kind is assumed; there it
is proved of `Evaluate`.

Three facts that the proofs keep needing are proved where they are used and take sets and
functions for what the library states with operators, which no prover here can
instantiate: `Induction` (a set of numbers with 0 and closed under + 1 has them all, from
`LeastNatural`, the well-foundedness of `<`), `Recursion` (a step function has a
computation), which gives a recursive function of the models its defining equations, and
`LoopEnds`, the same for a loop of as many turns as a sequence has members.

**`Tubes_proofs`, about `TubeBuilder`**: for every set of boxes, *every* overlap function,
threshold, `max_misses`, number of frames and of detections.
`Contiguous` and `GapBound` are not inductive: what bounds the gaps is the miss
counter, which is reset by a match, counted before the frame's new tubes start, and
read only at the pruning, while the gaps themselves are written frames later, at the
next match.  `MissCount` ties the counter to the last observed frame at each point of
the loop, and `IInv == TypeOK /\ Contiguous /\ GapBound /\ MissCount` is inductive
(`Inductive`).  `ExtendedWellFormed` and `ExtendedShortGaps` say what filling and
appending does to one tube.  `MatchingStable` needs one more invariant, of the
greedy loop: while it runs, each pair is still free or *settled* by one at least as
good (`Progress`).  Its difficult step is that matching a tube does not change what
the other pairs are compared by, because a tube's last detection is that of the
frames before this one (`SamePairs`).

A second part is about the history of the tubes.  It first sorts the steps by what they do to
the tubes (`Steps`): leave all entries alone, extend one open tube, or start one.
`TubesOnlyGrow` is the action property `AppendOnly`.  `Partition` says nothing in the
middle of a frame, so `PartInv` adds that while a frame is matched its detections are in
the tubes that took them and in no other; that an extension brings in one detection and
gaps only (`ExtendedHas`), and that no entry is of a later frame (`PlaceOfEntry`), do the
rest.  `NeighboursOverlap` is `Linked`: the only new neighbours an extension makes are its
last two observations (`ExtendedNear`), and what the pairs of a frame were compared by is
the last entry of the tube (`LastIsLast`), which is why the threshold that was tested is
the overlap that results.

**`Tubes_proofs`, about `TubeMerge`**: for any number of tubes, frames and observations, every
symmetric `SameBox`, every `Rank`, gap and threshold.  `Forest` says of the array `parent`
that it is a forest, by a root `r` of each index and a height `h` that grows towards the
roots and is bounded.  A walk to the root halves its path as it goes; it ends
(`WalkToRoot`, by induction on what is left of the bound), finds `r`, and leaves `r` and
`h` fit for the forest it has rewritten (`HalvedForest`), although it is a recursive
function over pairs of a forest and an index that has a value also where it would not end.
`Linking` is the invariant of the double loop: related fragments whose pair lies behind
are in one tree, and what is in one tree no `Whole` set can tell apart (`Linked`).  When
no pair is left each tree is therefore the least whole set around each of its members, a
`Plume` (`TreesArePlumes`).  `MergedTubesBridged` is about a chain of fragments: the
observations of a plume up to a frame, and those after it, cannot be unrelated, so that
either a fragment spans the frame and has its own observation soon after
(`ObservedSoon`), or two related ones are within `merge_max_gap` (`RelatedClose`).
`FragmentsSurvive` needs that a frame observed by several members has a best box
(`BestOf`), and that a combined tube passes the filter that its members passed
(`CombinedPasses`).

The module ends with the two together.  `TubeMerge` chooses its input from `Fragment`,
freely; `BuiltTubesAreFragments` shows that the choice has everything `build_tubes` can
return.  The observations of a built tube, as a function from their frames (`Seen`), have
gaps of at most `max_misses`, begin and end where the tube does (`SeenIsFragment`, from
`Contiguous` and `GapBound`), and the tubes are in the order of their first frames because
they are numbered as they are started (`BuiltInv`).  It holds within the bounds of the
merge model on tubes and frames.

**`TriggerSearch_proofs`**: for every number of tubes and frames, every minimum
length and whatever the classifier says of prefixes.  `Progress` describes the search
in the middle: tubes behind it have crossed exactly if they are positive as a whole
(`Searched`), those ahead are untouched, and the one being searched has only negative
prefixes behind it and at least one ahead (`Pending`), which is why the assertions
never trip.  The reuse of the whole score at full length is what closes that last
case.  That `min` has something to choose (`FirstExists`) needs the least element of
a set of naturals.  `IndicesReadBack` is about both paddings.  The symmetric one is a loop
that shifts the positions of the frames as it prepends: its invariant (`SymmetricReadable`)
is that the window between the first and the last position shows the frames in order and
that what is outside repeats the two ends.  The uniform one is a floor of a ratio, a
staircase that is monotone and takes each value, from whose first slots the map is read
back (`StaircaseCounts`, `UniformReadable`).

**`ApiServer_proofs`**: for every number of clients, threads and jobs and every
capacity.  `Footprint` first classifies each action by its effect on the lock: it
keeps the queue, enqueues, advances the head, or leaves.  `LockInv` says that
whoever is inside the prediction is the head of the queue and that no client
queues twice; `PredictionsSerialised` follows.  `ReadsWhatItFound` (no `KeyError`, a
part of `CacheSound`) adds that only the holder touches the cache (`OthersKept`, `OnlyHitsRead`), and
`FramesKeptWhileNeeded` that a temporary directory exists exactly while a handler
is between creating it and its end.  `CacheStaysSound` is all of `CacheSound`: the LRU
order never holds a frame twice nor more than the capacity, and each entry is a detection
of the frame it is kept under.  `ServerImplementsService` is the refinement: each step of
the server, with its queue, threads, cache and failures, is a step of `PredictService` or
none.  What it needs is that the detections a handler has gathered so far are those of its
own frames, whichever request they were made for (`AnswerInv`).

**`EmbeddingCache_proofs`**: for every set of scenes, any number of cameras and tracks,
every window, batch and cache size.  `CallInv` has four parts: the shapes of what a call
keeps (`Shape`), a cache without double keys and within its size, each entry the embedding
of its key (`CacheShape`), what has been scored so far, slot by slot (`Filled`), and that
the keys a call has used are the most recent of the LRU order (`Kept`).  `CacheRetains`
is the last of them: a round that fits never evicts what it was about to use, whatever
older rounds left.  `CacheIsFaithful` adds what `Crops` computes: a slot's crop in the cache's
key is the one training cuts for that slot, and covers the box.  The windows are minima and
maxima over the boxes of a tube, whose bounds are proved by induction over the slots.

**`Triage_proofs`, about `TriageReport`**: for every number of sequences, runs and kills, all sizes
and every target.  `InItsShard` says nothing of the manifest in memory, so it is not
inductive: `Open` adds that while tars are written all that is new is in tars from
`next_index` on and that only the last of them is not sealed, `Closed` that a manifest
never names a shard at or past its `next_index`; an aborted pack therefore overwrites
only what no manifest knows (`ManifestHolds`).  `Matching` says that while the details
are written each row has its own or is still to come (`RowsMatchDetails`).
`PackRoundTrips` (`RoundTrip`) says that packing what is stored and unpacking it gives back
every sequence whole.  The tars that a killed pack left open are the danger: that the next pack
overwrites all of them, although more sequences may have been pulled since, is that
next-fit packing of more units fills at least as far, proved by following both packings
side by side (`Contents`, `Writing`, `Closing` and `Agreeing` make up `TarsInv`).

**`Triage_proofs`, about `TriagePull`**: for any number of sequences, frames, workers, pages
and faults.  `PullInv` has two halves that need each other.  A sequence that is being
pulled shows on disk how far it is (`Pulled`): until every frame is written it has no
meta.json, and a meta.json on disk goes with whole frames (`DiskOK`).  That this survives
another worker is that no two workers have the same sequence, which is decided by the
listing: the backlog holds each sequence once (`BacklogOK`), and a listing that nothing
disturbs has found only what is on the pages it has read (`Listed`), so that the next page,
disjoint from them, adds no sequence twice (`ListKeeps`).  `PresenceIsComplete` follows;
with `drift` the second half fails, as told below under the disagreements.

**`Packaging_proofs`, about `Release`**: for any number of releases, versions and retries.
`ImageOfTag` (an image holds what its version's tag holds) gives
`ImagesReproducible`, and needs that tags never move, even with overlapping publishes
and re-runs that skip what is published.  `PairsInTurn` is the interesting
one: failed publishes, of this or another version, leave their files on main, and
yet the tag pairs what belongs together, because a workflow that reaches the tag has
overwritten both archives in the same run (`HeadIsMine`) and no other was active
(`Solo`).  The module extends both specifications: what is released is what packaging
made.

**`Packaging_proofs`, about `Packaging`**: for any number of processes, training runs and archives.
`PackInv` ties what a packaging command has in memory to the files on disk it will copy,
from the fit on; that these stand still is dvc running one stage at a time
(`PackagesSound`).  `ServeInv` follows an archive on its way through `released` and
`fetched` into a process (`ProcessesServeWhole`).  Part of it holds however loads overlap:
decision and calibrator are read from the archive while it is open, and every archive that
is extracted bundles the declared detector, so that the directory has it once any load
wrote there (`Extracting`, `Serving`).  The weights come from the directory in a later
step: that they are those of the archive rests on the directory not being shared between
the two steps (`Undisturbed`, assumed by `~shares`), and that the manifest shown is its
own on the archive not being rebuilt (`Shown`, `~rebuilds`).  `PairInv` needs more than the pair: that any ONNX archive on disk
whose source is the current `model.zip` matches it, whoever wrote it and however many
exports were abandoned since (`Paired`), that archives are numbered in the order they are
written (`Counted`), so that a rebuilt `model.zip` cannot be taken for an old source, and
what an export and a publish hold at each step (`Exporting`, `Publishing`).

**`Monitor_proofs`**: for any number of sequences, names, versions, models, events and
kills, in three steps.  `StoreInv` is about import: while a sequence is imported without
`--force` no directory of it has a meta.json, after the purge at most the one that is
being filled has, and what its meta.json will name is on disk or still to be fetched
(`Busy`).  Hence a kill, which may leave a directory half removed, an image cut off or a
meta.json cut off (`PurgeKilled`, `FetchKilled`, `MetaKilled`), neither doubles a sequence
(`StoredOnce`) nor makes a readable meta.json name what is not there (`ImagesOnDisk`).
`Active` is about replay: while it runs nothing else does (`Alone`), and the items of the
stack that is up are those its image is the version of, until the health check has found
their model too (`RowsGenuine`).  `Counted` composes the two: every stored directory is
pending or has had one thing said of it (`Accounts`, `SayMore`), and as a sequence has one
directory, the report says one thing of each sequence (`EachReportedOnce`).

`DriftIsGenuine` follows one score through the whole pipeline.  Its invariant, `ScoreInv`,
is that whatever holds a score beside detections (the database, the listing an import
works from, the meta.json it is about to write, every stored meta.json) holds the score of
a request for a *prefix* of those detections (`Fits`): detections come after the score,
the score is never taken back, and import takes the two in an order that keeps it so
(`StepScore`).  `WindowOfPrefix` is the fact about `Ordered` and `Window` that the search
rests on: the window with as many frames as the prefix has the frames of the prefix in
their order, although it also has what came later on them, and if it is not among the
windows the search tries then the prefix already has every frame.  So an unbroken search
over images that are all there ends without a match only when a later box on a scored frame
changed the region (`RowExplained`), and `Drift` carries this for the pending items and
the rows through every failure of a stack (`StepDrift`).

**`Viewer_proofs`, about `Evaluate`**: for any sequences, tubes, models and number of
evaluations.  `EvalInv` is that the records and the rows of a run, which the code fills
side by side, tally (`Tally`: the same count for each pair of label and verdict, whatever
the unlabelled rows are), and that until the new metrics are written the results in the
tree are those of an earlier run.  `MetricsOf` is the arithmetic of the metrics: alerts
within k frames are a part of the detections, and the lowest score of the smoke that a
model's own threshold finds is among the thresholds over which the best is taken.  `AccountsAgree` follows.

**`Viewer_proofs`, about `Viewer`**: for any sources, rows, configurations and clicks.
`Turns` sorts the steps once for all proofs: an evaluation leaves the page alone, a fetch
is lost, or the page becomes `p`, by an answer (`Answers`) or a click (`Clicked`), and what
is shown is `p` with its threshold settled and the fetches this sets off (`Shows`).
`HiddenByChoice` needs that filters stay the default ones while there are no rows, since
the answer with the rows is what can change the mode under a filter; that it comes once is
`PageInv`.  The other two follow what is on its way.  While the newest fetch of a kind is
pending, the *last* of that kind among those on their way aims at what is selected
(`Aims`): a change of selection sends one behind all others, and removing an older one
changes neither (`AimsWithout`, `AimsJoined`).  Nothing is selected while there are no
rows (`EmptySelected`), so that a panel is always fetched after the rows.  `PanelFollows` has
two halves.  Which sequence the panel shows is `PanelInv`: the selected one once the newest
fetch is answered, until an older answer comes in.  What it shows of that sequence does not
depend on the order of answers (`ShownInv`): a row on the page whose run is the last to have
begun was fetched after that run ended, so that the files of its source stand still
(`Fresh`, `StaysFresh`, `StaysCurrent`), and the panel is what the route gives now as it did
when it was answered, selected or not.  `VerdictsStand` carries the default threshold from the configuration into
the page (`ConfigInv`) and ends in two facts about data: a logistic model's verdict on a
row, one tube over the threshold, is that of the row's maximal probability
(`LogisticDecides`), and deciding a row again at the threshold it was decided at changes
nothing (`ApplyKeeps`).

Checked by TLC only: liveness (`Answered`, `BacklogPulled`, `Built`), which with
`ENABLED` is outside the prover's reach.  Every safety invariant and action property that a
passing run checks is also a theorem.

## Where code and documents disagree

* `release_overlap`, a run that TLC ends with a counterexample: two overlapping workflows
  interleave their uploads on main and a tag then names the `model.zip` of one publish
  and the `model_onnx.zip` of another, although the two are published as a pair.  One
  after the other they are fine (`PairedInTurn`, proved), and `fetch` refuses to
  bake a model of another version, for good, as the tag cannot be moved.

Others were met while modelling and have no run of their own:

* `core/protocol.py:41-49` documents `trigger_frame_index` as a frame of the sequence and
  as the time to detection.  It is a slot of the padded sequence: with symmetric padding a
  sequence of one frame can trigger at slot 1 or later.  The viewer and `eval/app.py`
  convert; `eval/protocol_eval.py` takes it for the delay.
* `meta.json` is written in place (`triage/pull.py:174`), so a pull killed while writing it
  leaves a cut-off file that later pulls take for a complete sequence (`pull.py:173`) and
  at which `score` stops.  `PresenceMarksComplete` is about the frames.
* The report shards are said to be rebuilt from scratch for each run, but pack every
  details file there is (`triage/shards.py:127`), including those of a sequence that the
  last run dropped.
* A package stage that replaces `model.zip` during an export leaves a pair whose recorded
  hash matches and whose weights differ (`core/export_onnx.py:299`; the docstring of
  `verify_onnx_source`, `release.py:89`, takes the hash for a proof of the pair).  Hence
  `~rebuilds` in `PairMatches`.
* Two loads of different archives in one working directory can serve the weights of one
  with the calibrator of the other (`core/package.py:281`).  Hence `~shares` for the
  weights in `ServedWhole`; detector, decision and calibrator agree even then.
* Nothing cancels a fetch of the viewer: an older answer that comes in after the newest
  one replaces the panel for good (`viewer/app/page.tsx:155`).  `PanelOfTheRow` says what is
  left of the panel then: another sequence than the selected one, but whole.  The slider stays where it was when the new source has the same default
  threshold (`page.tsx:58-65`), and a filter set before the rows arrive may be one the bar
  does not show afterwards.
* An evaluation that is aborted leaves its configuration and some of its details beside
  the rows of the run before, and nothing in the files tells.

When a *new* sequence appears during a listing of triage it moves the others down a page
and one can be listed twice, and pulled twice in one run; a kill during the second pull then
leaves a `meta.json` beside a frame cut off.  `PresenceMarksComplete` is therefore stated
for listings that are not disturbed (`~drift`); `BacklogPulled` is checked for both.

## What is not modelled

* Numerics: detector, classifier, calibration, training, augmentation, timing.  Scores
  enter `TriggerSearch` as arbitrary decisions.  Crops are cut on one axis and in whole
  pixels; the code computes in floating point before it rounds.
* Gaps that are not interpolated (`core/inference.py:239-243`): packages are built with
  `interpolate_gaps` on (`train/package.py:72`), and training interpolates always.
* The pipeline's other outputs (scores, details), and in `triage_report` the aggregate
  files beside `results.json`, which are written with it.
* Ties of `_box_rank` (`core/tubes.py:548`): two boxes equal in area, confidence and `cx`
  differ in `cy`, so the claimed total order can leave two of them unordered; `Rank` is
  taken as total in `TubeMerge`.
* The `--limit` of pull, which shortens the listing; parallel runs of triage
  commands in one working tree, for which they are not meant.
* The registry to which the workflow pushes images, and its `:latest`
  (`.github/workflows/push.yml:117`), which the last of two overlapping workflows to
  finish wins.
* Monitor: the scan of sequence ids (`import_all_orgs`), the loop over days and the
  organizations to leave out, and the order in which `write_report` writes its files.
  `monitor/README.md` and the docstring of `_enrich_triggers` say that a row whose
  probability the second pass does not reproduce keeps no trigger; where the pinned
  release computes triggers itself it keeps its own, which is what `Enriched` does.
* Evaluation: sequences of `wildfire/` and `fp/` are taken to have different names, as
  their views and details share a directory; plots and predictions keep no state.  A kill in
  the middle of a configuration, a view or `metrics.json` is not modelled: they are written
  whole or not at all (details and results may be cut).
  `eval/app.py` is a second, read-only viewer, with Streamlit's cache (`app.py:46-84`)
  between it and the files.
* Pull: a write that fails in the middle of a frame without a kill.
* Viewer: the order of the sources within the results, which no property reads; playback, drawing, and the monitor mode in the run (the module has it, no
  instance does); the deferred threshold of the table is taken as caught up.
* `/health`, configuration, the other stages of training, benchmark, demo and scripts: no
  state worth a model.

## Plan

Written so far, in this order: `TubeBuilder` with its proofs (everything rests on
it), `TubeMerge` after it, `ApiServer` over `PredictService` with its proofs (the concurrent
part), `TriggerSearch` over `Padding` with its proofs, `Release` with its proofs,
`TriagePull`, `TriageReport` with its proofs, `Monitor` with its proofs, `Packaging` with its proofs,
`EmbeddingCache` over `Crops`, `Viewer` over `Evaluate`; then the proofs about
`EmbeddingCache` and `TubeMerge`, the refinement of `PredictService`, those about packing,
padding, pulling and the drift that a replay reports, that what is built is what is merged,
and those about evaluation and viewer.  Still to come:

1. `IdScan`: `import_all_orgs`, which finds the newest id by probing upwards and
   walks down past holes and out-of-range days.  Abstract specification: every
   sequence in range is visited.  Bounds: ids up to 8, gaps and stops of 2.
2. The monitor mode of the viewer, over a store that `Replay` reports on.
