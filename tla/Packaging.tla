----------------------------- MODULE Packaging -----------------------------
(***************************************************************************)
(* From a trained checkpoint to the models that are served: the package    *)
(* stage (train/package.py, core/package.py), the ONNX export              *)
(* (core/export_onnx.py), publish and fetch (api/release.py), and the      *)
(* loaders of either archive.  Each is a command of its own that reads and *)
(* rewrites shared files, and may fail or be killed between any two steps. *)
(*                                                                         *)
(* Weights are named by the training run that saved them, a threshold or a *)
(* calibrator by the weights it was fitted with (0: none).  Every zip is   *)
(* written with its own time stamps, so its hash identifies the writing.   *)
(***************************************************************************)
EXTENDS Integers

CONSTANTS
  Api,        \* processes that load the fetched model.zip (ModelRunner.load)
  Local,      \* processes that load the model.zip of the package stage (eval, triage)
  MaxTrains,  \* bound: training runs
  MaxZips     \* bound: archives written

ASSUME PackagingAssumption ==
  /\ Api \cap Local = {}
  /\ MaxTrains \in Nat \ {0} /\ MaxZips \in Nat

VARIABLES
  rebuilds,  \* archives may be rewritten while another command reads them
  shares,    \* two loads may be under way in one directory
  ckpt,      \* best_checkpoint.pt
  yolo,      \* yolo_weights.pt: the detector detector.yaml declares, or another
  zip, onnx, \* model.zip and model_onnx.zip
  zips,      \* archives written so far
  dir,       \* .cache/temporal_model_core, where every load extracts
  pack, exp, pub, load,   \* the commands under way
  released,  \* the archives under the last tag
  fetched    \* the model.zip fetched for the image

settings == <<rebuilds, shares>>
inputs   == <<ckpt, yolo>>
archives == <<zip, onnx, zips>>
hub      == <<released, fetched>>
vars == <<settings, inputs, archives, dir, pack, exp, pub, load, hub>>

None == [build |-> 0]
Cut  == [build |-> -1]   \* truncated, or closed without all its members
Readable(f) == f.build > 0

\* build_config: what the decision depends on.
Config(aggregation, weights) == [aggregation |-> aggregation, weights |-> weights]
Calibrated(calibrator, config) == calibrator # 0 /\ config.aggregation = "logistic"

Loader  == Api \cup Local
File(l) == IF l \in Api THEN fetched ELSE zip
Idle    == [pc |-> "idle"]

\* Commands that must not see model.zip, or model_onnx.zip, change.
Still(commands) == rebuilds \/ \A c \in commands : c = Idle
Alone == shares \/ (exp.pc # "extracted" /\ \A l \in Loader : load[l].pc # "extracted")
-----------------------------------------------------------------------------
Init ==
  /\ rebuilds \in BOOLEAN /\ shares \in BOOLEAN
  /\ ckpt = 1 /\ yolo \in {"declared", "other"}
  /\ zip = None /\ onnx = None /\ zips = 0
  /\ dir = [weights |-> 0, detector |-> "none"]
  /\ pack = Idle /\ exp = Idle /\ pub = Idle
  /\ load = [l \in Loader |-> Idle]
  /\ released = [model |-> None, onnx |-> None] /\ fetched = None

\* dvc runs one stage at a time: the inputs of package stand still while it runs.
Train ==
  /\ pack = Idle /\ ckpt < MaxTrains
  /\ ckpt' = ckpt + 1
  /\ UNCHANGED <<settings, yolo, archives, dir, pack, exp, pub, load, hub>>

\* The wrong weights, when they were, are replaced.
PlaceDetector ==
  /\ pack = Idle
  /\ yolo = "other" /\ yolo' = "declared"
  /\ UNCHANGED <<settings, ckpt, archives, dir, pack, exp, pub, load, hub>>

Verified_Skipped == TRUE   \* variant: the weights are packaged as they are
\* verify_detector_weights: the bundled detector is the one the manifest declares.
Verified == yolo = "declared"

\* main: read params.yaml, verify, load the checkpoint, fit the threshold.
PackLoad(aggregation) ==
  /\ pack = Idle
  /\ Verified
  /\ pack' = [pc |-> "fit", config |-> Config(aggregation, ckpt), calibrator |-> 0]
  /\ UNCHANGED <<settings, inputs, archives, dir, exp, pub, load, hub>>

\* fit, on records of the pipeline run with the classifier in memory.
Fitted(config) == IF config.aggregation = "logistic" THEN config.weights ELSE 0

\* Only a logistic decision needs the calibrator, and its own threshold.
PackFit ==
  /\ pack.pc = "fit"
  /\ pack' = [pack EXCEPT !.pc = "ready", !.calibrator = Fitted(pack.config)]
  /\ UNCHANGED <<settings, inputs, archives, dir, exp, pub, load, hub>>

\* build_model_package opens the archive it replaces.
PackOpen ==
  /\ pack.pc = "ready"
  /\ pack.config.aggregation # "logistic" \/ Calibrated(pack.calibrator, pack.config)
  /\ Still({exp, pub} \cup {load[l] : l \in {m \in Local : load[m].pc # "serving"}})
  /\ zips < MaxZips
  /\ zip' = Cut /\ zips' = zips + 1
  /\ pack' = [pack EXCEPT !.pc = "write"]
  /\ UNCHANGED <<settings, inputs, onnx, dir, exp, pub, load, hub>>

\* It copies the checkpoint and the detector from disk, not from memory.
PackClose ==
  /\ pack.pc = "write"
  /\ zip' = [build |-> zips, weights |-> ckpt, detector |-> yolo, config |-> pack.config,
             calibrator |-> pack.calibrator, version |-> 0]
  /\ pack' = Idle
  /\ UNCHANGED <<settings, inputs, onnx, zips, dir, exp, pub, load, hub>>
-----------------------------------------------------------------------------
Extracted_IfMissing(f, detector) ==   \* variant: what was extracted before is kept
  [weights  |-> IF dir.weights # 0 THEN dir.weights ELSE f.weights,
   detector |-> IF detector /\ dir.detector = "none" THEN f.detector ELSE dir.detector]
\* zf.extract overwrites; without the detector its file stays what it was.
Extracted(f, detector) ==
  [weights  |-> f.weights,
   detector |-> IF detector THEN f.detector ELSE dir.detector]

\* ModelRunner.load reads the manifest for display, from a file opened for that.
LoadManifest(l) ==
  /\ l \in Api /\ load[l] = Idle
  /\ Readable(fetched)
  /\ load' = [load EXCEPT ![l] = [pc |-> "manifest", shown |-> fetched.build]]
  /\ UNCHANGED <<settings, inputs, archives, dir, pack, exp, pub, hub>>

\* load_model_package: config and calibrator are read and the weights extracted, even
\* those of a package that is then refused because it is not calibrated.
LoadExtract(l) ==
  LET f == File(l) IN
  /\ load[l].pc = IF l \in Api THEN "manifest" ELSE "idle"
  /\ Readable(f)
  /\ Alone
  /\ dir' = Extracted(f, TRUE)
  /\ load' = [load EXCEPT ![l] =
       IF ~Calibrated(f.calibrator, f.config) THEN Idle
       ELSE [pc |-> "extracted", build |-> f.build,
             shown |-> IF l \in Api THEN @.shown ELSE f.build,
             config |-> f.config, calibrator |-> f.calibrator]]
  /\ UNCHANGED <<settings, inputs, archives, pack, exp, pub, hub>>

\* load_yolo and _load_classifier read what the directory holds by then.
LoadWeights(l) ==
  /\ load[l].pc = "extracted"
  /\ load' = [load EXCEPT ![l] =
       [pc |-> "serving", shown |-> @.shown, build |-> @.build, config |-> @.config,
        calibrator |-> @.calibrator, weights |-> dir.weights, detector |-> dir.detector]]
  /\ UNCHANGED <<settings, inputs, archives, dir, pack, exp, pub, hub>>
-----------------------------------------------------------------------------
\* allow_uncalibrated, or require_calibrated.
Gate(allowed, f) == allowed \/ Calibrated(f.calibrator, f.config)

\* build_onnx_package: load_model_package without the detector.
ExportLoad(allowed) ==
  /\ exp = Idle
  /\ rebuilds \/ pack.pc # "write"
  /\ Still({pub})
  /\ Readable(zip)
  /\ Alone
  /\ dir' = Extracted(zip, FALSE)
  /\ exp' = IF Gate(allowed, zip) THEN [pc |-> "extracted", allowed |-> allowed] ELSE Idle
  /\ UNCHANGED <<settings, inputs, archives, pack, pub, load, hub>>

\* The weights are read back; then the archive again, for the bytes to copy.
ExportRead ==
  /\ exp.pc = "extracted"
  /\ exp' = [pc |-> "loaded", allowed |-> exp.allowed, weights |-> dir.weights]
  /\ UNCHANGED <<settings, inputs, archives, dir, pack, pub, load, hub>>

ExportSource ==
  /\ exp.pc = "loaded"
  /\ Readable(zip)
  /\ exp' = [pc |-> "source", allowed |-> exp.allowed, weights |-> exp.weights,
             config |-> zip.config, calibrator |-> zip.calibrator]
  /\ UNCHANGED <<settings, inputs, archives, dir, pack, pub, load, hub>>

\* Minutes of tracing both graphs, into temporary files that finally removes, and of
\* comparing their logits with those of the classifier in memory.
ExportTrace ==
  /\ exp.pc = "source"
  /\ exp' = [exp EXCEPT !.pc = "traced"]
  /\ UNCHANGED <<settings, inputs, archives, dir, pack, pub, load, hub>>

\* Only then model.zip is hashed, and the archive opened over the last one.
ExportOpen ==
  /\ exp.pc = "traced"
  /\ zips < MaxZips
  /\ onnx' = Cut /\ zips' = zips + 1
  /\ exp' = [pc |-> "write", allowed |-> exp.allowed, weights |-> exp.weights,
             config |-> exp.config, calibrator |-> exp.calibrator, source |-> zip.build]
  /\ UNCHANGED <<settings, inputs, zip, dir, pack, pub, load, hub>>

ExportClose ==
  /\ exp.pc = "write"
  /\ onnx' = [build |-> zips, weights |-> exp.weights, config |-> exp.config,
              calibrator |-> exp.calibrator, source |-> exp.source,
              allowed |-> exp.allowed, version |-> 0]
  /\ exp' = Idle
  /\ UNCHANGED <<settings, inputs, zip, zips, dir, pack, pub, load, hub>>
-----------------------------------------------------------------------------
SourceMatches_Skipped == TRUE   \* variant: the two files are taken as they are
\* verify_onnx_source: the hash recorded at export is the hash of this model.zip.
SourceMatches == Readable(onnx) /\ onnx.source = zip.build

PublishVerify(with_onnx) ==
  /\ pub = Idle
  /\ rebuilds \/ pack.pc # "write"
  /\ Still({exp})
  /\ with_onnx => SourceMatches
  /\ pub' = [pc |-> "verified", onnx |-> with_onnx]
  /\ UNCHANGED <<settings, inputs, archives, dir, pack, exp, load, hub>>

\* The temporary copies are stamped, the source hash anew, since stamping rewrites
\* the archive it identifies.
StageModel ==
  /\ pub.pc = "verified"
  /\ Readable(zip)
  /\ pub' = [pc |-> "staged", onnx |-> pub.onnx, model |-> [zip EXCEPT !.version = 1]]
  /\ UNCHANGED <<settings, inputs, archives, dir, pack, exp, load, hub>>

\* The uploads and the tag are one step here: Release takes them apart.
StageOnnx ==
  /\ pub.pc = "staged"
  /\ pub.onnx => Readable(onnx)
  /\ released' = [model |-> pub.model,
                  onnx  |-> IF pub.onnx
                            THEN [onnx EXCEPT !.version = 1, !.source = pub.model.build]
                            ELSE None]
  /\ pub' = Idle
  /\ UNCHANGED <<settings, inputs, archives, dir, pack, exp, load, fetched>>

\* fetch asserts the version, then copies over the model the image will hold.
Fetch ==
  /\ Still({load[l] : l \in {m \in Api : load[m].pc # "serving"}})
  /\ Readable(released.model) /\ released.model.version = 1
  /\ fetched' = released.model
  /\ UNCHANGED <<settings, inputs, archives, dir, pack, exp, pub, load, released>>

-----------------------------------------------------------------------------
\* load_onnx_package, in memory: it is refused unless calibrated.
EdgeAccepts(f) == Calibrated(f.calibrator, f.config)

\* A command raises, or is killed; a process that serves is restarted.
Stop ==
  \/ pack # Idle /\ pack' = Idle /\ UNCHANGED <<exp, pub, load>>
  \/ exp # Idle /\ exp' = Idle /\ UNCHANGED <<pack, pub, load>>
  \/ pub # Idle /\ pub' = Idle /\ UNCHANGED <<pack, exp, load>>
  \/ \E l \in Loader :
       load[l] # Idle /\ load' = [load EXCEPT ![l] = Idle] /\ UNCHANGED <<pack, exp, pub>>

StopAny == Stop /\ UNCHANGED <<settings, inputs, archives, dir, hub>>

Package == \E a \in {"logistic", "max_logit"} : PackLoad(a)
Load(l) == LoadManifest(l) \/ LoadExtract(l) \/ LoadWeights(l)

Next ==
  \/ Train \/ PlaceDetector
  \/ Package \/ PackFit \/ PackOpen \/ PackClose
  \/ \E l \in Loader : Load(l)
  \/ \E a \in BOOLEAN : ExportLoad(a)
  \/ ExportRead \/ ExportSource \/ ExportTrace \/ ExportOpen \/ ExportClose
  \/ \E o \in BOOLEAN : PublishVerify(o)
  \/ StageModel \/ StageOnnx
  \/ Fetch
  \/ StopAny

Spec == Init /\ [][Next]_vars
-----------------------------------------------------------------------------
\* A model.zip that can be read bundles the declared detector, and the thresholds and
\* the calibrator in it were fitted with the weights in it, although the weights are
\* copied from disk after hours of fitting with those in memory.
PackageSound ==
  Readable(zip) =>
    /\ zip.detector = "declared"
    /\ zip.config.weights = zip.weights
    /\ zip.config.aggregation = "logistic" => zip.calibrator = zip.weights

\* A process serves the declared detector, with a decision and a calibrator of one archive,
\* whatever other loads extract over its directory meanwhile.  The weights are of that
\* archive too unless another load is under way there, whatever earlier ones left; and it
\* shows the manifest of that archive unless archives are rebuilt during the load.
ServedWhole ==
  \A l \in Loader : load[l].pc = "serving" =>
    /\ load[l].detector = "declared"
    /\ load[l].calibrator = load[l].config.weights
    /\ ~shares => load[l].weights = load[l].config.weights
    /\ ~rebuilds => load[l].shown = load[l].build

\* The ONNX archive of a release has the weights, the decision and the calibrator of
\* the model.zip it is released with, after any failed or abandoned build or export;
\* and, exported without the opt-out, it is not refused at the edge under a tag that
\* can no longer be replaced.
PairMatches ==
  ~rebuilds /\ ~shares /\ Readable(released.onnx) =>
    /\ released.onnx.source = released.model.build
    /\ released.onnx.weights = released.model.weights
    /\ released.onnx.config = released.model.config
    /\ released.onnx.calibrator = released.model.calibrator
    /\ released.onnx.allowed \/ EdgeAccepts(released.onnx)
=============================================================================
