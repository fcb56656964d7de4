-------------------------- MODULE Packaging_proofs --------------------------
(***************************************************************************)
(* What is packaged, served and released together, for any number of       *)
(* processes, training runs and archives (Packaging), of git tags and of   *)
(* model versions (Release).                                               *)
(***************************************************************************)
EXTENDS Packaging, Release, TLAPS

\* The members of a model.zip and of a model_onnx.zip.
IsZip(f) ==
  f = [build |-> f.build, weights |-> f.weights, detector |-> f.detector, config |-> f.config,
       calibrator |-> f.calibrator, version |-> f.version]
IsOnnx(f) ==
  f = [build |-> f.build, weights |-> f.weights, config |-> f.config, calibrator |-> f.calibrator,
       source |-> f.source, allowed |-> f.allowed, version |-> f.version]

\* A readable model.zip bundles the declared detector with what was fitted together.
Sound(f) ==
  Readable(f) =>
    /\ IsZip(f)
    /\ f.detector = "declared"
    /\ f.config.weights = f.weights
    /\ f.config.aggregation = "logistic" => f.calibrator = f.weights

\* From the fit on, what is in memory belongs to the checkpoint and the detector on disk.
Fitting ==
  /\ pack.pc \in {"fit", "ready", "write"}
  /\ pack = [pc |-> pack.pc, config |-> pack.config, calibrator |-> pack.calibrator]
  /\ yolo = "declared"
  /\ pack.config.weights = ckpt
  /\ pack.pc # "fit" /\ pack.config.aggregation = "logistic" => pack.calibrator = ckpt

PackInv == Sound(zip) /\ (pack = Idle \/ Fitting)

\* What a load has of its archive, and of the directory, even if others load beside it.
Extracting(l) ==
  /\ dir.detector = "declared"
  /\ load[l].calibrator = load[l].config.weights
Serving(l) ==
  /\ load[l].detector = "declared"
  /\ load[l].calibrator = load[l].config.weights
\* A load that has extracted has the directory for itself if loads take turns.
Undisturbed(l) ==
  /\ load[l].pc = "extracted" =>
       /\ dir.weights = load[l].config.weights
       /\ exp.pc # "extracted"
       /\ \A m \in Loader : load[m].pc = "extracted" => m = l
  /\ load[l].pc = "serving" => load[l].weights = load[l].config.weights
Shown(l) ==
  /\ load[l].pc = "manifest" => l \in Api /\ load[l].shown = fetched.build
  /\ load[l].pc \in {"extracted", "serving"} => load[l].shown = load[l].build

ServeInv ==
  /\ Sound(fetched) /\ Sound(released.model)
  /\ pub.pc = "staged" => Sound(pub.model)
  /\ load = [l \in Loader |-> load[l]]
  /\ \A l \in Loader :
       /\ load[l].pc = "extracted" => Extracting(l)
       /\ load[l].pc = "serving" => Serving(l)
  /\ ~shares => \A l \in Loader : Undisturbed(l)
  /\ ~rebuilds => \A l \in Loader : Shown(l)

\* An ONNX archive that matches a model.zip.
Same(o, f) == o.weights = f.weights /\ o.config = f.config /\ o.calibrator = f.calibrator
Accepted(o) == o.allowed \/ Calibrated(o.calibrator, o.config)

Late == {"source", "traced", "write"}

\* While an export runs model.zip stands still, and what was read is what it holds.
Exporting ==
  /\ pub = Idle /\ pack.pc # "write" /\ Readable(zip)
  /\ exp.allowed \/ Calibrated(zip.calibrator, zip.config)
  /\ exp.pc \in {"extracted", "loaded"} \cup Late
  /\ exp.pc = "extracted" => dir.weights = zip.weights
  /\ exp.pc # "extracted" => exp.weights = zip.weights
  /\ exp.pc \in Late => exp.config = zip.config /\ exp.calibrator = zip.calibrator
  /\ exp.pc \in {"source", "traced"} =>
       exp = [pc |-> exp.pc, allowed |-> exp.allowed, weights |-> exp.weights,
              config |-> exp.config, calibrator |-> exp.calibrator]
  /\ exp.pc = "write" => exp.source = zip.build

TrueToSource(o, f) == Readable(f) /\ o.source = f.build => Same(o, f)

Publishing ==
  /\ exp = Idle /\ pack.pc # "write"
  /\ pub.pc \in {"verified", "staged"}
  /\ pub.onnx => Readable(onnx) /\ onnx.source = zip.build
  /\ pub.pc = "staged" => Readable(zip) /\ pub.model = [zip EXCEPT !.version = 1]

\* Every archive is older than the one being written.
Counted ==
  /\ zips \in Nat
  /\ Readable(zip) => zip.build \in Nat /\ zip.build <= zips
  /\ Readable(onnx) => onnx.source \in Nat /\ onnx.source <= zips
  /\ pack.pc = "write" => ~Readable(zip) /\ (Readable(onnx) => onnx.source < zips)

PairInv ==
  /\ Counted
  /\ exp = Idle \/ Exporting
  /\ pub = Idle \/ Publishing
  /\ Readable(onnx) => IsOnnx(onnx) /\ Accepted(onnx) /\ TrueToSource(onnx, zip)
  /\ PairMatches
-----------------------------------------------------------------------------
LEMMA InitPack == Init => PackInv
BY DEF Init, PackInv, Sound, Readable, None

\* Only the commands of the package stage touch what PackInv speaks of.
LEMMA NextPack == PackInv /\ [Next]_vars => PackInv'
<1> SUFFICES ASSUME PackInv, [Next]_vars PROVE PackInv'
  OBVIOUS
<1>1. ASSUME UNCHANGED <<inputs, zip, pack>> PROVE PackInv'
  BY <1>1 DEF inputs, PackInv, Sound, Fitting, Readable, IsZip
<1>2. ASSUME Train \/ PlaceDetector PROVE PackInv'
  BY <1>2 DEF Train, PlaceDetector, archives, PackInv, Sound, Readable, IsZip
<1>3. ASSUME NEW a \in {"logistic", "max_logit"}, PackLoad(a) PROVE PackInv'
  BY <1>3 DEF PackLoad, Verified, Config, archives, inputs, PackInv, Sound, Readable, IsZip, Fitting
<1>4. ASSUME PackFit PROVE PackInv'
  <2>1. Fitting /\ pack.pc = "fit"
    BY <1>4 DEF PackFit, PackInv, Idle
  <2>2. /\ pack' = [pc |-> "ready", config |-> pack.config, calibrator |-> Fitted(pack.config)]
        /\ UNCHANGED <<ckpt, yolo, zip>>
    BY <1>4, <2>1 DEF PackFit, Fitting, inputs, archives
  <2>3. Fitting'
    BY <2>1, <2>2 DEF Fitting, Fitted
  <2> QED BY <2>2, <2>3 DEF PackInv, Sound, Readable, IsZip
<1>5. ASSUME PackOpen PROVE PackInv'
  <2>1. Fitting /\ pack.pc = "ready"
    BY <1>5 DEF PackOpen, PackInv, Idle
  <2>2. /\ pack' = [pc |-> "write", config |-> pack.config, calibrator |-> pack.calibrator]
        /\ zip' = Cut /\ UNCHANGED <<ckpt, yolo>>
    BY <1>5, <2>1 DEF PackOpen, Fitting, inputs
  <2>3. Fitting'
    BY <2>1, <2>2 DEF Fitting
  <2> QED BY <2>2, <2>3 DEF PackInv, Sound, Readable, Cut
<1>6. ASSUME PackClose PROVE PackInv'
  <2>1. Fitting /\ pack.pc = "write"
    BY <1>6 DEF PackClose, PackInv, Idle
  <2> QED BY <1>6, <2>1 DEF PackClose, PackInv, Sound, Fitting, IsZip
<1>7. ASSUME NEW l \in Loader, Load(l) PROVE PackInv'
  BY <1>1, <1>7 DEF Load, LoadManifest, LoadExtract, LoadWeights, archives, inputs
<1>8. ASSUME NEW a \in BOOLEAN, ExportLoad(a) PROVE PackInv'
  BY <1>1, <1>8 DEF ExportLoad, archives, inputs
<1>9. ASSUME ExportRead \/ ExportSource \/ ExportTrace \/ ExportOpen \/ ExportClose PROVE PackInv'
  BY <1>1, <1>9 DEF ExportRead, ExportSource, ExportTrace, ExportOpen, ExportClose, archives, inputs
<1>10. ASSUME NEW o \in BOOLEAN, PublishVerify(o) PROVE PackInv'
  BY <1>1, <1>10 DEF PublishVerify, archives, inputs
<1>11. ASSUME StageModel \/ StageOnnx \/ Fetch PROVE PackInv'
  BY <1>1, <1>11 DEF StageModel, StageOnnx, Fetch, archives, inputs
<1>12. ASSUME StopAny PROVE PackInv'
  BY <1>12 DEF StopAny, Stop, archives, inputs, PackInv, Sound, Readable, IsZip, Fitting
<1>13. ASSUME UNCHANGED vars PROVE PackInv'
  BY <1>1, <1>13 DEF vars, archives, inputs
<1> QED
  BY <1>2, <1>3, <1>4, <1>5, <1>6, <1>7, <1>8, <1>9, <1>10, <1>11, <1>12, <1>13 DEF Next, Package

\* A model.zip that can be read bundles what belongs together, for every number of
\* training runs and archives and wherever its building stops.
THEOREM PackagesSound == Spec => []PackageSound
<1>1. PackInv => PackageSound
  BY DEF PackInv, Sound, PackageSound
<1> QED BY <1>1, InitPack, NextPack, PTL DEF Spec
-----------------------------------------------------------------------------
LEMMA InitServe == Init => ServeInv
BY DEF Init, ServeInv, Sound, Readable, None, Idle, Loader, Undisturbed, Shown

\* A stamped copy of a model.zip is as good as the model.zip.
LEMMA StampedSound ==
  ASSUME NEW f, Sound(f), Readable(f)
  PROVE  LET g == [f EXCEPT !.version = 1]
         IN  /\ Sound(g) /\ g.build = f.build /\ g.weights = f.weights
             /\ g.config = f.config /\ g.calibrator = f.calibrator
<1> DEFINE g == [f EXCEPT !.version = 1]
<1>1. g = [build |-> f.build, weights |-> f.weights, detector |-> f.detector,
           config |-> f.config, calibrator |-> f.calibrator, version |-> 1]
  BY DEF Sound, IsZip
<1> HIDE DEF g
<1>2. Sound(g)
  BY <1>1 DEF Sound, IsZip, Readable
<1> QED BY <1>1, <1>2 DEF g

\* What the loads of a step that only stops some of them, or none, keep.
LEMMA FewerLoads ==
  ASSUME ServeInv, UNCHANGED <<settings, dir, hub>>,
         exp'.pc = "extracted" => exp.pc = "extracted",
         pub'.pc = "staged" => pub.pc = "staged" /\ pub' = pub,
         load' = [l \in Loader |-> load'[l]],
         \A l \in Loader : load'[l] = load[l] \/ load'[l] = Idle
  PROVE  ServeInv'
<1>1. \A l \in Loader : load'[l].pc # "idle" => load'[l] = load[l]
  BY DEF Idle
<1>2. /\ Sound(fetched)' /\ Sound(released.model)'
      /\ pub'.pc = "staged" => Sound(pub.model)'
  BY DEF ServeInv, Sound, Readable, IsZip, hub
<1>3. ASSUME NEW l \in Loader
      PROVE  /\ load'[l].pc = "extracted" => Extracting(l)'
             /\ load'[l].pc = "serving" => Serving(l)'
  BY <1>1 DEF ServeInv, Extracting, Serving
<1>4. ASSUME ~shares, NEW l \in Loader PROVE Undisturbed(l)'
  BY <1>1, <1>4 DEF ServeInv, Undisturbed
<1>5. ASSUME ~rebuilds, NEW l \in Loader PROVE Shown(l)'
  BY <1>1, <1>5 DEF ServeInv, Shown, hub
<1> QED BY <1>2, <1>3, <1>4, <1>5 DEF ServeInv, settings

LEMMA LoadSteps ==
  ASSUME PackInv, ServeInv, NEW l \in Loader, Load(l)
  PROVE  ServeInv'
<1> USE DEF ServeInv
<1>1. /\ UNCHANGED <<settings, zip, exp, pub, fetched, released>>
      /\ DOMAIN load = Loader /\ load' = [m \in Loader |-> load'[m]]
      /\ \A m \in Loader : m # l => load'[m] = load[m]
  BY DEF Load, LoadManifest, LoadExtract, LoadWeights, archives, hub
<1>2. /\ Sound(fetched)' /\ Sound(released.model)'
      /\ pub'.pc = "staged" => Sound(pub.model)'
  BY <1>1 DEF Sound, Readable, IsZip
<1>3. CASE LoadManifest(l)
  <2>1. /\ load'[l] = [pc |-> "manifest", shown |-> fetched.build] /\ l \in Api
        /\ UNCHANGED dir
    BY <1>1, <1>3 DEF LoadManifest
  <2> QED BY <1>1, <1>2, <2>1 DEF settings, Extracting, Serving, Undisturbed, Shown
<1>4. CASE LoadExtract(l)
  <2> DEFINE f == File(l)
  <2>1. /\ Readable(f) /\ Alone
        /\ load[l].pc = IF l \in Api THEN "manifest" ELSE "idle"
        /\ dir' = Extracted(f, TRUE)
        /\ load'[l] = IF ~Calibrated(f.calibrator, f.config) THEN Idle
                      ELSE [pc |-> "extracted", build |-> f.build,
                            shown |-> IF l \in Api THEN load[l].shown ELSE f.build,
                            config |-> f.config, calibrator |-> f.calibrator]
    BY <1>1, <1>4 DEF LoadExtract
  <2>2. Sound(f) /\ (l \in Api => f = fetched)
    BY DEF File, PackInv
  <2> HIDE DEF f
  <2>3. \/ load'[l] = Idle
        \/ /\ load'[l].pc = "extracted" /\ load'[l].config = f.config
           /\ load'[l].calibrator = f.weights
    <3>1. CASE Calibrated(f.calibrator, f.config)
      <4>1. f.calibrator = f.weights
        BY <2>1, <2>2, <3>1 DEF Sound, Calibrated
      <4> QED BY <2>1, <3>1, <4>1
    <3> QED BY <2>1, <3>1
  <2>4. dir'.detector = "declared" /\ dir'.weights = f.weights /\ f.config.weights = f.weights
    BY <2>1, <2>2 DEF Extracted, Sound
  <2>5. ASSUME NEW m \in Loader
        PROVE  /\ load'[m].pc = "extracted" => Extracting(m)'
               /\ load'[m].pc = "serving" => Serving(m)'
    <3>1. CASE m # l
      BY <1>1, <2>4, <3>1 DEF Extracting, Serving
    <3>2. CASE m = l
      BY <2>3, <2>4, <3>2 DEF Idle, Extracting
    <3> QED BY <3>1, <3>2
  <2>6. ASSUME ~shares, NEW m \in Loader PROVE Undisturbed(m)'
    <3>1. exp.pc # "extracted" /\ \A k \in Loader : load[k].pc # "extracted"
      BY <2>1, <2>6 DEF Alone
    <3>2. \A k \in Loader : load'[k].pc = "extracted" => k = l
      BY <1>1, <3>1
    <3>3. CASE m # l
      BY <1>1, <2>6, <3>2, <3>3 DEF Undisturbed
    <3>4. CASE m = l
      BY <1>1, <2>3, <2>4, <3>1, <3>2, <3>4 DEF Idle, Undisturbed
    <3> QED BY <3>3, <3>4
  <2>7. ASSUME ~rebuilds, NEW m \in Loader PROVE Shown(m)'
    <3>1. CASE m # l
      BY <1>1, <2>7, <3>1 DEF Shown
    <3>2. CASE m = l
      BY <1>1, <2>1, <2>2, <2>7, <3>2 DEF Shown, Idle
    <3> QED BY <3>1, <3>2
  <2> QED BY <1>1, <1>2, <2>5, <2>6, <2>7 DEF settings
<1>5. CASE LoadWeights(l)
  <2>1. /\ load[l].pc = "extracted" /\ UNCHANGED dir
        /\ load'[l] = [pc |-> "serving", shown |-> load[l].shown, build |-> load[l].build,
                       config |-> load[l].config, calibrator |-> load[l].calibrator,
                       weights |-> dir.weights, detector |-> dir.detector]
    BY <1>1, <1>5 DEF LoadWeights
  <2>2. ASSUME NEW m \in Loader
        PROVE  /\ load'[m].pc = "extracted" => Extracting(m)'
               /\ load'[m].pc = "serving" => Serving(m)'
    BY <1>1, <2>1 DEF Extracting, Serving
  <2>3. ASSUME ~shares, NEW m \in Loader PROVE Undisturbed(m)'
    BY <1>1, <2>1, <2>3 DEF Undisturbed
  <2>4. ASSUME ~rebuilds, NEW m \in Loader PROVE Shown(m)'
    BY <1>1, <2>1, <2>4 DEF Shown
  <2> QED BY <1>1, <1>2, <2>2, <2>3, <2>4 DEF settings
<1> QED BY <1>3, <1>4, <1>5 DEF Load

LEMMA NextServe == PackInv /\ ServeInv /\ [Next]_vars => ServeInv'
<1> SUFFICES ASSUME PackInv, ServeInv, [Next]_vars PROVE ServeInv'
  OBVIOUS
<1>1. ASSUME UNCHANGED <<settings, dir, load, hub>>,
             exp'.pc = "extracted" => exp.pc = "extracted",
             pub'.pc = "staged" => pub.pc = "staged" /\ pub' = pub
      PROVE  ServeInv'
  BY <1>1, FewerLoads DEF ServeInv
<1>2. ASSUME Train \/ PlaceDetector \/ Package \/ PackFit \/ PackOpen \/ PackClose PROVE ServeInv'
  BY <1>1, <1>2 DEF Train, PlaceDetector, Package, PackLoad, PackFit, PackOpen, PackClose
<1>3. ASSUME NEW l \in Loader, Load(l) PROVE ServeInv'
  BY <1>3, LoadSteps
<1>4. ASSUME NEW a \in BOOLEAN, ExportLoad(a) PROVE ServeInv'
  <2>1. UNCHANGED <<settings, load, hub, pub>> /\ Alone /\ dir'.detector = dir.detector
    BY <1>4 DEF ExportLoad, Extracted
  <2>2. ASSUME NEW l \in Loader
        PROVE  /\ load[l].pc = "extracted" => Extracting(l)'
               /\ load[l].pc = "serving" => Serving(l)'
    BY <2>1 DEF ServeInv, Extracting, Serving
  <2>3. ASSUME ~shares, NEW l \in Loader PROVE Undisturbed(l)'
    BY <2>1, <2>3 DEF ServeInv, Alone, Undisturbed
  <2>4. ~rebuilds => \A l \in Loader : Shown(l)'
    BY <2>1 DEF ServeInv, Shown, hub
  <2> QED BY <2>1, <2>2, <2>3, <2>4 DEF ServeInv, settings, hub, Sound, Readable, IsZip
<1>5. ASSUME ExportRead \/ ExportSource \/ ExportOpen \/ ExportClose PROVE ServeInv'
  BY <1>1, <1>5 DEF ExportRead, ExportSource, ExportOpen, ExportClose, Idle
<1>6. ASSUME ExportTrace PROVE ServeInv'
  <2>1. exp'.pc = "extracted" => exp.pc = "extracted"
    BY <1>6 DEF ExportTrace
  <2> QED BY <1>1, <1>6, <2>1 DEF ExportTrace
<1>7. ASSUME NEW o \in BOOLEAN, PublishVerify(o) PROVE ServeInv'
  BY <1>1, <1>7 DEF PublishVerify
<1>8. ASSUME StageModel PROVE ServeInv'
  <2>1. Sound(pub'.model)
    BY <1>8, StampedSound DEF StageModel, PackInv
  <2>2. UNCHANGED <<settings, dir, exp, load, hub>>
    BY <1>8 DEF StageModel
  <2> QED BY <2>1, <2>2 DEF ServeInv, settings, hub, Sound, Readable, IsZip, Shown, Extracting, Serving, Undisturbed
<1>9. ASSUME StageOnnx PROVE ServeInv'
  <2>1. Sound(released'.model) /\ pub' = Idle
    BY <1>9 DEF StageOnnx, ServeInv
  <2>2. UNCHANGED <<settings, dir, exp, load, fetched>>
    BY <1>9 DEF StageOnnx
  <2> QED BY <2>1, <2>2 DEF ServeInv, settings, Sound, Readable, IsZip, Shown, Extracting, Serving, Undisturbed, Idle
<1>10. ASSUME Fetch PROVE ServeInv'
  <2>1. /\ UNCHANGED <<settings, dir, exp, load, pub, released>>
        /\ Sound(fetched')
    BY <1>10 DEF Fetch, ServeInv, Sound, Readable, IsZip
  <2>2. ASSUME ~rebuilds, NEW l \in Loader PROVE Shown(l)'
    <3>1. l \in Api /\ load[l].pc # "serving" => load[l] = Idle
      BY <1>10, <2>2 DEF Fetch, Still
    <3>2. load[l].pc # "manifest"
      BY <2>2, <3>1 DEF ServeInv, Shown, Idle
    <3> QED BY <2>1, <2>2, <3>2 DEF ServeInv, Shown
  <2> QED BY <2>1, <2>2 DEF ServeInv, settings, Sound, Readable, IsZip, Extracting, Serving, Undisturbed
<1>11. ASSUME StopAny PROVE ServeInv'
  <2>1. /\ UNCHANGED <<settings, dir, hub>>
        /\ load' = load \/ \E l \in Loader : load' = [load EXCEPT ![l] = Idle]
        /\ exp' = exp \/ exp' = Idle
        /\ pub' = pub \/ pub' = Idle
    BY <1>11 DEF StopAny, Stop
  <2>2. /\ load' = [l \in Loader |-> load'[l]]
        /\ \A l \in Loader : load'[l] = load[l] \/ load'[l] = Idle
    BY <2>1 DEF ServeInv
  <2> QED BY <2>1, <2>2, FewerLoads DEF Idle
<1>12. ASSUME UNCHANGED vars PROVE ServeInv'
  BY <1>1, <1>12 DEF vars
<1> QED
  BY <1>2, <1>3, <1>4, <1>5, <1>6, <1>7, <1>8, <1>9, <1>10, <1>11, <1>12 DEF Next

\* For every number of processes that extract into one directory: each serves the declared
\* detector with a decision and a calibrator of one archive, though loads and exports overlap.
\* Only if loads take turns (~shares) are the weights proved to be of that archive, whatever
\* was extracted, packaged or fetched before and meanwhile.
THEOREM ProcessesServeWhole == Spec => []ServedWhole
<1>1. ServeInv => ServedWhole
  BY DEF ServeInv, Serving, Undisturbed, Shown, ServedWhole
<1> QED BY <1>1, InitPack, NextPack, InitServe, NextServe, PTL DEF Spec
-----------------------------------------------------------------------------
LEMMA InitPair == Init => PairInv
BY DEF Init, PairInv, Counted, Readable, None, Idle, PairMatches

\* Steps that leave the archives alone and stop commands, if anything.
LEMMA PairKept ==
  ASSUME PairInv, UNCHANGED <<settings, archives, released>>,
         exp' = exp \/ exp' = Idle,
         pub' = pub \/ pub' = Idle,
         pack'.pc = "write" => pack.pc = "write",
         exp.pc = "extracted" => dir' = dir
  PROVE  PairInv'
<1>1. Counted'
  BY DEF PairInv, Counted, archives, Readable
<1>2. exp' = Idle \/ Exporting'
  BY DEF PairInv, Exporting, archives, Readable, Idle
<1>3. pub' = Idle \/ Publishing'
  BY DEF PairInv, Publishing, archives, Readable, Idle
<1>4. PairMatches'
  BY DEF settings, PairInv, PairMatches, archives, Readable, EdgeAccepts, Calibrated
<1>5. Readable(onnx') => IsOnnx(onnx') /\ Accepted(onnx') /\ TrueToSource(onnx', zip')
  BY DEF PairInv, archives, Readable, IsOnnx, Accepted, TrueToSource, Same, Calibrated
<1> QED BY <1>1, <1>2, <1>3, <1>4, <1>5 DEF PairInv

LEMMA PackSteps ==
  ASSUME PackInv, PairInv, ~rebuilds, PackOpen \/ PackClose
  PROVE  PairInv'
<1>1. UNCHANGED <<settings, onnx, dir, exp, pub, released>>
  BY DEF PackOpen, PackClose, hub
<1>2. PairMatches'
  BY <1>1 DEF settings, PairInv, PairMatches, Readable, EdgeAccepts, Calibrated
<1>3. CASE PackOpen
  <2>1. exp = Idle /\ pub = Idle /\ zip' = Cut /\ zips' = zips + 1
    BY <1>3 DEF PackOpen, Still
  <2>2. Counted'
    BY <1>1, <2>1 DEF PairInv, Counted, Readable, Cut
  <2>3. Readable(onnx') => IsOnnx(onnx') /\ Accepted(onnx') /\ TrueToSource(onnx', zip')
    BY <1>1, <2>1 DEF PairInv, Readable, IsOnnx, Accepted, TrueToSource, Calibrated, Cut
  <2> QED BY <1>1, <1>2, <2>1, <2>2, <2>3 DEF PairInv
<1>4. CASE PackClose
  <2>1. /\ pack.pc = "write" /\ pack' = Idle /\ zips' = zips
        /\ zip'.build = zips
    BY <1>4 DEF PackClose
  <2>2. exp = Idle /\ pub = Idle
    BY <2>1 DEF PairInv, Exporting, Publishing
  <2>3. Counted'
    BY <1>1, <2>1 DEF PairInv, Counted, Readable, Idle
  <2>4. Readable(onnx') => IsOnnx(onnx') /\ Accepted(onnx') /\ TrueToSource(onnx', zip')
    BY <1>1, <2>1 DEF PairInv, Counted, Readable, IsOnnx, Accepted, TrueToSource, Calibrated
  <2> QED BY <1>1, <1>2, <2>2, <2>3, <2>4 DEF PairInv
<1> QED BY <1>3, <1>4

LEMMA ExportSteps ==
  ASSUME PairInv, ~rebuilds,
         (\E a \in BOOLEAN : ExportLoad(a)) \/ ExportRead \/ ExportSource \/ ExportTrace
  PROVE  PairInv'
<1>1. /\ UNCHANGED <<settings, zip, onnx, zips, pack, pub, released>>
  BY DEF ExportLoad, ExportRead, ExportSource, ExportTrace, archives, hub
<1>2. Counted' /\ PairMatches'
  BY <1>1 DEF settings, PairInv, Counted, PairMatches, Readable, EdgeAccepts, Calibrated
<1>3. Readable(onnx') => IsOnnx(onnx') /\ Accepted(onnx') /\ TrueToSource(onnx', zip')
  BY <1>1 DEF PairInv, Readable, IsOnnx, Accepted, TrueToSource, Same, Calibrated
<1>4. pub = Idle
  <2>1. ASSUME NEW a \in BOOLEAN, ExportLoad(a) PROVE pub = Idle
    BY <2>1 DEF ExportLoad, Still
  <2> QED BY <2>1 DEF PairInv, Exporting, Idle, ExportRead, ExportSource, ExportTrace
<1>5. ASSUME NEW a \in BOOLEAN, ExportLoad(a) PROVE exp' = Idle \/ Exporting'
  <2>1. /\ pack.pc # "write" /\ Readable(zip) /\ dir' = Extracted(zip, FALSE)
        /\ exp' = IF Gate(a, zip) THEN [pc |-> "extracted", allowed |-> a] ELSE Idle
    BY <1>5 DEF ExportLoad
  <2>2. CASE Gate(a, zip)
    BY <1>1, <1>4, <2>1, <2>2 DEF Exporting, Gate, Calibrated, Readable, Extracted, Late
  <2> QED BY <2>1, <2>2
<1>6. ASSUME ExportRead PROVE Exporting'
  <2>1. Exporting /\ exp.pc = "extracted"
    BY <1>6 DEF ExportRead, PairInv, Idle
  <2>2. exp' = [pc |-> "loaded", allowed |-> exp.allowed, weights |-> dir.weights]
    BY <1>6 DEF ExportRead
  <2> QED BY <1>1, <2>1, <2>2 DEF Exporting, Calibrated, Readable, Late
<1>7. ASSUME ExportSource PROVE Exporting'
  <2>1. Exporting /\ exp.pc = "loaded"
    BY <1>7 DEF ExportSource, PairInv, Idle
  <2>2. exp' = [pc |-> "source", allowed |-> exp.allowed, weights |-> exp.weights,
                config |-> zip.config, calibrator |-> zip.calibrator]
    BY <1>7 DEF ExportSource
  <2> QED BY <1>1, <2>1, <2>2 DEF Exporting, Calibrated, Readable, Late
<1>8. ASSUME ExportTrace PROVE Exporting'
  <2>1. Exporting /\ exp.pc = "source"
    BY <1>8 DEF ExportTrace, PairInv, Idle
  <2>2. exp' = [pc |-> "traced", allowed |-> exp.allowed, weights |-> exp.weights,
                config |-> exp.config, calibrator |-> exp.calibrator]
    BY <1>8, <2>1 DEF ExportTrace, Exporting
  <2> QED BY <1>1, <2>1, <2>2 DEF Exporting, Calibrated, Readable, Late
<1> QED BY <1>1, <1>2, <1>3, <1>4, <1>5, <1>6, <1>7, <1>8 DEF PairInv

LEMMA WriteSteps ==
  ASSUME PairInv, ~rebuilds, ExportOpen \/ ExportClose
  PROVE  PairInv'
<1>1. UNCHANGED <<settings, zip, dir, pack, pub, released>> /\ pub = Idle /\ Exporting
  BY DEF ExportOpen, ExportClose, hub, PairInv, Exporting, Idle
<1>2. PairMatches'
  BY <1>1 DEF settings, PairInv, PairMatches, Readable, EdgeAccepts, Calibrated
<1>3. CASE ExportOpen
  <2>1. /\ exp.pc = "traced" /\ onnx' = Cut /\ zips' = zips + 1
        /\ exp' = [pc |-> "write", allowed |-> exp.allowed, weights |-> exp.weights,
                   config |-> exp.config, calibrator |-> exp.calibrator, source |-> zip.build]
    BY <1>3 DEF ExportOpen
  <2>2. Counted'
    BY <1>1, <2>1 DEF PairInv, Counted, Exporting, Readable, Cut
  <2>3. Exporting'
    BY <1>1, <2>1 DEF Exporting, Calibrated, Readable, Late
  <2>4. ~Readable(onnx')
    BY <2>1 DEF Readable, Cut
  <2> QED BY <1>1, <1>2, <2>2, <2>3, <2>4 DEF PairInv
<1>4. CASE ExportClose
  <2>1. /\ exp.pc = "write" /\ exp' = Idle /\ zips' = zips
        /\ onnx' = [build |-> zips, weights |-> exp.weights, config |-> exp.config,
                    calibrator |-> exp.calibrator, source |-> exp.source,
                    allowed |-> exp.allowed, version |-> 0]
    BY <1>4 DEF ExportClose
  <2>2. /\ exp.source = zip.build /\ exp.weights = zip.weights /\ exp.config = zip.config
        /\ exp.calibrator = zip.calibrator /\ Readable(zip) /\ pack.pc # "write"
        /\ exp.allowed \/ Calibrated(zip.calibrator, zip.config)
    BY <1>1, <2>1 DEF Exporting, Late
  <2>3. Counted'
    BY <1>1, <2>1, <2>2 DEF PairInv, Counted, Readable
  <2>4. IsOnnx(onnx') /\ Accepted(onnx') /\ TrueToSource(onnx', zip')
    BY <1>1, <2>1, <2>2 DEF IsOnnx, Accepted, TrueToSource, Same, Calibrated
  <2> QED BY <1>1, <1>2, <2>1, <2>3, <2>4 DEF PairInv
<1> QED BY <1>3, <1>4

LEMMA PublishSteps ==
  ASSUME PackInv, PairInv, ~rebuilds,
         (\E o \in BOOLEAN : PublishVerify(o)) \/ StageModel \/ StageOnnx
  PROVE  PairInv'
<1>1. UNCHANGED <<settings, zip, onnx, zips, dir, pack, exp>>
  BY DEF PublishVerify, StageModel, StageOnnx, archives
<1>2. Counted'
  BY <1>1 DEF PairInv, Counted, Readable
<1>3. Readable(onnx') => IsOnnx(onnx') /\ Accepted(onnx') /\ TrueToSource(onnx', zip')
  BY <1>1 DEF PairInv, Readable, IsOnnx, Accepted, TrueToSource, Same, Calibrated
<1>4. exp = Idle
  <2>1. ASSUME NEW o \in BOOLEAN, PublishVerify(o) PROVE exp = Idle
    BY <2>1 DEF PublishVerify, Still
  <2> QED BY <2>1 DEF PairInv, Publishing, StageModel, StageOnnx, Idle
<1>5. ASSUME UNCHANGED released PROVE PairMatches'
  BY <1>1, <1>5 DEF settings, PairInv, PairMatches, Readable, EdgeAccepts, Calibrated
<1>6. ASSUME NEW o \in BOOLEAN, PublishVerify(o) PROVE PairInv'
  <2>1. /\ pub' = [pc |-> "verified", onnx |-> o] /\ UNCHANGED released
        /\ pack.pc # "write" /\ (o => Readable(onnx) /\ onnx.source = zip.build)
    BY <1>6 DEF PublishVerify, hub, SourceMatches
  <2>2. Publishing'
    BY <1>1, <1>4, <2>1 DEF Publishing, Readable
  <2> QED BY <1>1, <1>2, <1>3, <1>4, <1>5, <2>1, <2>2 DEF PairInv
<1>7. ASSUME StageModel PROVE PairInv'
  <2>1. Publishing /\ pub.pc = "verified"
    BY <1>7 DEF StageModel, PairInv, Idle
  <2>2. /\ pub' = [pc |-> "staged", onnx |-> pub.onnx, model |-> [zip EXCEPT !.version = 1]]
        /\ Readable(zip) /\ UNCHANGED released
    BY <1>7 DEF StageModel, hub
  <2>3. Publishing'
    BY <1>1, <2>1, <2>2 DEF Publishing, Readable
  <2> QED BY <1>1, <1>2, <1>3, <1>4, <1>5, <2>2, <2>3 DEF PairInv
<1>8. ASSUME StageOnnx PROVE PairInv'
  <2>1. Publishing /\ pub.pc = "staged"
    BY <1>8 DEF StageOnnx, PairInv, Idle
  <2>2. /\ pub' = Idle /\ released'.model = pub.model
        /\ pub.onnx => released'.onnx = [onnx EXCEPT !.version = 1, !.source = pub.model.build]
        /\ ~pub.onnx => ~Readable(released'.onnx)
    BY <1>8 DEF StageOnnx, Readable, None
  <2>3. /\ pub.model.build = zip.build /\ pub.model.weights = zip.weights
        /\ pub.model.config = zip.config /\ pub.model.calibrator = zip.calibrator
    BY <2>1, StampedSound DEF Publishing, PackInv
  <2>4. ASSUME pub.onnx
        PROVE  /\ released'.onnx.source = zip.build /\ released'.onnx.weights = onnx.weights
               /\ released'.onnx.config = onnx.config
               /\ released'.onnx.calibrator = onnx.calibrator
               /\ released'.onnx.allowed = onnx.allowed
    <3>1. IsOnnx(onnx)
      BY <2>1, <2>4 DEF Publishing, PairInv
    <3>2. released'.onnx = [build |-> onnx.build, weights |-> onnx.weights,
            config |-> onnx.config, calibrator |-> onnx.calibrator,
            source |-> zip.build, allowed |-> onnx.allowed, version |-> 1]
      BY <2>2, <2>3, <2>4, <3>1 DEF IsOnnx
    <3> QED BY <3>2
  <2>5. pub.onnx => Accepted(onnx) /\ Same(onnx, zip)
    BY <2>1 DEF Publishing, PairInv, TrueToSource
  <2>6. PairMatches'
    BY <2>2, <2>3, <2>4, <2>5 DEF PairMatches, Same, Accepted, EdgeAccepts, Calibrated
  <2> QED BY <1>1, <1>2, <1>3, <1>4, <2>2, <2>6 DEF PairInv
<1> QED BY <1>6, <1>7, <1>8

LEMMA NextPair ==
  ASSUME PackInv, PairInv, ~rebuilds, ~shares, [Next]_vars
  PROVE  PairInv'
<1>1. ASSUME Train \/ PlaceDetector \/ Package \/ PackFit PROVE PairInv'
  <2>1. UNCHANGED <<settings, archives, released, dir, exp, pub>>
    BY <1>1 DEF Train, PlaceDetector, Package, PackLoad, PackFit, hub
  <2>2. CASE Train \/ PlaceDetector \/ Package
    BY <2>1, <2>2, PairKept DEF Train, PlaceDetector, Package, PackLoad
  <2>3. CASE PackFit
    <3>1. Fitting
      BY <2>3 DEF PackFit, PackInv, Idle
    <3>2. pack' = [pc |-> "ready", config |-> pack.config, calibrator |-> Fitted(pack.config)]
      BY <2>3, <3>1 DEF PackFit, Fitting
    <3> QED BY <2>1, <3>2, PairKept
  <2> QED BY <1>1, <2>2, <2>3
<1>2. ASSUME NEW l \in Loader, Load(l) PROVE PairInv'
  <2>1. /\ UNCHANGED <<settings, archives, released, pack, exp, pub>>
        /\ exp.pc = "extracted" => dir' = dir
    BY <1>2 DEF Load, LoadManifest, LoadExtract, LoadWeights, hub, Alone
  <2> QED BY <2>1, PairKept
<1>3. ASSUME Fetch PROVE PairInv'
  BY <1>3, PairKept DEF Fetch
<1>4. ASSUME StopAny PROVE PairInv'
  <2>1. /\ UNCHANGED <<settings, archives, released, dir>>
        /\ exp' = exp \/ exp' = Idle
        /\ pub' = pub \/ pub' = Idle
        /\ pack' = pack \/ pack' = Idle
    BY <1>4 DEF StopAny, Stop, hub
  <2> QED BY <2>1, PairKept DEF Idle
<1>5. ASSUME UNCHANGED vars PROVE PairInv'
  BY <1>5, PairKept DEF vars, hub
<1> QED
  BY <1>1, <1>2, <1>3, <1>4, <1>5, PackSteps, ExportSteps, WriteSteps, PublishSteps DEF Next

\* While nothing rewrites archives under a command that reads them, the two archives
\* of a release hold the same weights, decision and calibrator, whatever was built,
\* exported or abandoned before, for every number of archives.
THEOREM ReleasesPaired == Spec => []PairMatches
<1> DEFINE Quiet == ~rebuilds /\ ~shares
           QInv  == Quiet => PairInv
<1>1. Init => QInv
  BY InitPair
<1>2. PackInv /\ QInv /\ [Next]_vars => QInv'
  <2>1. [Next]_vars => UNCHANGED settings
    BY DEF Next, vars, Train, PlaceDetector, Package, PackLoad, PackFit, PackOpen, PackClose,
           Load, LoadManifest, LoadExtract, LoadWeights, ExportLoad, ExportRead, ExportSource,
           ExportTrace, ExportOpen, ExportClose, PublishVerify, StageModel, StageOnnx, Fetch,
           StopAny
  <2> QED BY <2>1, NextPair DEF settings
<1>3. QInv => PairMatches
  BY DEF PairInv, PairMatches
<1> HIDE DEF QInv
<1> QED BY <1>1, <1>2, <1>3, InitPack, NextPack, PTL DEF Spec
-----------------------------------------------------------------------------
\* What the release workflow does with the archives once they are staged, however often
\* workflows fail and are run again.
Archive == [version : Version \cup {0}, by : {<<>>} \cup (Release \X Nat)]
Points  == {"pushed", "failed", "built", "check", "model", "onnx", "card", "tag", "docker"}

RepoInv ==
  /\ version \in [Release -> Version]
  /\ overlap \in BOOLEAN
  /\ pc \in [Release -> Points]
  /\ runs \in [Release -> Nat]
  /\ main \in [Files -> Archive]
  /\ tag \in [Version -> [Files -> Archive]]
  /\ image \in [Release -> Archive]

\* An image was fetched from the tag of its version, and the tag has not moved since.
ImageOfTag ==
  \A r \in Release : image[r] # NoArchive => image[r] = tag[version[r]]["model.zip"]

ImageInv == RepoInv /\ ImageOfTag
-----------------------------------------------------------------------------
LEMMA StagedIsArchive ==
  ASSUME RepoInv, NEW r \in Release
  PROVE  Staged(r) \in Archive /\ Staged(r).version = version[r] /\ Staged(r) # NoArchive
<1>1. version[r] \in Version /\ <<r, runs[r]>> \in Release \X Nat /\ <<r, runs[r]>> # <<>>
  BY DEF RepoInv
<1> QED BY <1>1 DEF Staged, Archive, NoArchive

LEMMA UploadType ==
  ASSUME RepoInv, NEW r \in Release, NEW f \in Files, Upload(r, f)
  PROVE  main' \in [Files -> Archive]
BY StagedIsArchive DEF Upload, RepoInv

LEMMA GotoType ==
  ASSUME RepoInv, NEW r \in Release, NEW p \in Points, Goto(r, p)
  PROVE  pc' \in [Release -> Points]
BY DEF Goto, RepoInv

LEMMA InitImage == ReleaseInit => ImageInv
<1> SUFFICES ASSUME ReleaseInit PROVE ImageInv
  OBVIOUS
<1>1. NoArchive \in Archive
  BY DEF NoArchive, Archive
<1>2. Empty \in [Files -> Archive]
  BY <1>1 DEF Empty
<1> QED BY <1>1, <1>2 DEF ReleaseInit, ImageInv, RepoInv, Points, ImageOfTag

LEMMA NextRepo == RepoInv /\ [ReleaseNext]_releaseVars => RepoInv'
<1> SUFFICES ASSUME RepoInv, [ReleaseNext]_releaseVars PROVE RepoInv'
  OBVIOUS
<1> USE DEF RepoInv
<1>1. ASSUME NEW r \in Release, Start(r) PROVE RepoInv'
  <2>1. runs' \in [Release -> Nat]
    BY <1>1 DEF Start
  <2> QED BY <1>1, <2>1, GotoType DEF Start, Points
<1>2. ASSUME NEW r \in Release, CheckPublished(r) \/ TagRefused(r) \/ Crash(r) PROVE RepoInv'
  BY <1>2, GotoType DEF CheckPublished, TagRefused, Crash, Points
<1>3. ASSUME NEW r \in Release, UploadModel(r) \/ UploadOnnx(r) \/ UploadCard(r) PROVE RepoInv'
  BY <1>3, GotoType, UploadType DEF UploadModel, UploadOnnx, UploadCard, Points, Files
<1>4. ASSUME NEW r \in Release, CreateTag(r) PROVE RepoInv'
  <2>1. tag' \in [Version -> [Files -> Archive]]
    BY <1>4 DEF CreateTag
  <2> QED BY <1>4, <2>1, GotoType DEF CreateTag, Points
<1>5. ASSUME NEW r \in Release, BuildImage(r) PROVE RepoInv'
  <2>1. tag[version[r]]["model.zip"] \in Archive
    BY DEF Files
  <2>2. image' \in [Release -> Archive] /\ pc' \in [Release -> Points]
    BY <1>5, <2>1, GotoType DEF BuildImage, Points
  <2> QED BY <1>5, <2>2 DEF BuildImage
<1>6. ASSUME UNCHANGED releaseVars PROVE RepoInv'
  BY <1>6 DEF releaseVars
<1> QED BY <1>1, <1>2, <1>3, <1>4, <1>5, <1>6 DEF ReleaseNext, Step

LEMMA NextImage == ImageInv /\ [ReleaseNext]_releaseVars => ImageInv'
<1> SUFFICES ASSUME ImageInv, [ReleaseNext]_releaseVars PROVE ImageOfTag'
  BY NextRepo DEF ImageInv
<1>1. RepoInv /\ ImageOfTag
  BY DEF ImageInv
<1>2. ASSUME UNCHANGED <<version, tag, image>> PROVE ImageOfTag'
  BY <1>1, <1>2 DEF ImageOfTag
<1>3. ASSUME NEW r \in Release, CreateTag(r) PROVE ImageOfTag'
  <2>1. Empty["model.zip"] = NoArchive
    BY DEF Empty, Files
  <2>2. \A q \in Release : image[q] # NoArchive => Exists(version[q])
    BY <1>1, <2>1 DEF ImageOfTag, Exists
  <2>3. \A v \in Version : Exists(v) => tag'[v] = tag[v]
    BY <1>1, <1>3 DEF CreateTag, RepoInv
  <2>4. UNCHANGED <<version, image>>
    BY <1>3 DEF CreateTag
  <2> QED BY <1>1, <2>2, <2>3, <2>4 DEF ImageOfTag, RepoInv
<1>4. ASSUME NEW r \in Release, BuildImage(r) PROVE ImageOfTag'
  <2>1. UNCHANGED <<version, tag>>
    BY <1>4 DEF BuildImage
  <2>2. \/ image' = image
        \/ image' = [image EXCEPT ![r] = tag[version[r]]["model.zip"]]
    BY <1>4 DEF BuildImage
  <2> QED BY <1>1, <2>1, <2>2 DEF ImageOfTag, RepoInv
<1>5. ASSUME NEW r \in Release, Start(r) \/ CheckPublished(r) \/ TagRefused(r) \/ Crash(r)
      PROVE  UNCHANGED <<version, tag, image>>
  BY <1>5 DEF Start, CheckPublished, TagRefused, Crash
<1>6. ASSUME NEW r \in Release, UploadModel(r) \/ UploadOnnx(r) \/ UploadCard(r)
      PROVE  UNCHANGED <<version, tag, image>>
  BY <1>6 DEF UploadModel, UploadOnnx, UploadCard
<1>7. ASSUME UNCHANGED releaseVars PROVE UNCHANGED <<version, tag, image>>
  BY <1>7 DEF releaseVars
<1> QED BY <1>2, <1>3, <1>4, <1>5, <1>6, <1>7 DEF ReleaseNext, Step

\* However publishes overlap, fail and are retried, the images of one model version
\* hold the same archive.
THEOREM ImagesReproducible == ReleaseSpec => []Reproducible
<1>1. ImageInv => Reproducible
  BY DEF ImageInv, ImageOfTag, Reproducible
<1> QED BY <1>1, InitImage, NextImage, PTL DEF ReleaseSpec
-----------------------------------------------------------------------------
\* Without overlap at most one workflow is on its way, and what it has uploaded is
\* still at the head of main.
Solo == \A r, q \in Release : ~Resting(r) /\ ~Resting(q) => r = q
HeadIsMine ==
  \A r \in Release :
    /\ pc[r] \in {"onnx", "card", "tag"} => main["model.zip"] = Staged(r)
    /\ pc[r] \in {"card", "tag"} => main["model_onnx.zip"] = Staged(r)
InTurn == ~overlap /\ (\A r \in Release : onnx_file[r])
TagInv == RepoInv /\ (InTurn => Solo /\ HeadIsMine /\ Paired)

\* What a step of the only workflow on its way does to the program counters.
LEMMA SoloKept ==
  ASSUME RepoInv, Solo, NEW r \in Release, ~Resting(r) \/ \A q \in Release : Resting(q),
         NEW p \in Points, Goto(r, p)
  PROVE  /\ Solo'
         /\ pc'[r] = p
         /\ \A q \in Release : q # r => pc'[q] = pc[q] /\ Resting(q)
BY DEF RepoInv, Solo, Goto, Resting

LEMMA NextTagged == TagInv /\ [ReleaseNext]_releaseVars => TagInv'
<1> SUFFICES ASSUME TagInv, [ReleaseNext]_releaseVars, InTurn' PROVE Solo' /\ HeadIsMine' /\ Paired'
  BY NextRepo DEF TagInv
<1>1. overlap' = overlap /\ onnx_file' = onnx_file /\ version' = version
  BY DEF ReleaseNext, Step, Start, CheckPublished, UploadModel, UploadOnnx, UploadCard, CreateTag,
         TagRefused, BuildImage, Crash, releaseVars
<1>2. InTurn /\ RepoInv /\ Solo /\ HeadIsMine /\ Paired
  BY <1>1 DEF InTurn, TagInv
<1>3. ASSUME tag' = tag PROVE Paired'
  BY <1>1, <1>2, <1>3 DEF Paired, Exists
<1>4. ASSUME NEW r \in Release, NEW p \in {"check", "docker", "model", "failed", "built"},
             ~Resting(r) \/ \A q \in Release : Resting(q), Goto(r, p)
      PROVE  Solo' /\ HeadIsMine'
  <2>1. Solo' /\ pc'[r] = p /\ \A q \in Release : q # r => pc'[q] = pc[q] /\ Resting(q)
    BY <1>2, <1>4, SoloKept DEF Points
  <2>2. \A q \in Release : pc'[q] \notin {"onnx", "card", "tag"}
    BY <2>1 DEF Resting
  <2> QED BY <2>1, <2>2 DEF HeadIsMine
<1>5. ASSUME NEW r \in Release, NEW p \in {"onnx", "card", "tag"}, ~Resting(r), Goto(r, p),
             runs' = runs, main'["model.zip"] = Staged(r),
             p \in {"card", "tag"} => main'["model_onnx.zip"] = Staged(r)
      PROVE  Solo' /\ HeadIsMine'
  <2>1. Solo' /\ pc'[r] = p /\ \A q \in Release : q # r => pc'[q] = pc[q] /\ Resting(q)
    BY <1>2, <1>5, SoloKept DEF Points
  <2>2. Staged(r)' = Staged(r)
    BY <1>1, <1>5 DEF Staged
  <2>3. \A q \in Release : q # r => pc'[q] \notin {"onnx", "card", "tag"}
    BY <2>1 DEF Resting
  <2> QED BY <1>5, <2>1, <2>2, <2>3 DEF HeadIsMine
<1>6. ASSUME NEW r \in Release, Start(r) PROVE Solo' /\ HeadIsMine' /\ Paired'
  BY <1>2, <1>3, <1>4, <1>6 DEF Start, InTurn
<1>7. ASSUME NEW r \in Release, CheckPublished(r) \/ TagRefused(r) \/ Crash(r) \/ BuildImage(r)
      PROVE  Solo' /\ HeadIsMine' /\ Paired'
  <2>1. ~Resting(r) /\ tag' = tag
    BY <1>7 DEF CheckPublished, TagRefused, Crash, BuildImage, Resting
  <2>2. Goto(r, "docker") \/ Goto(r, "model") \/ Goto(r, "failed") \/ Goto(r, "built")
    BY <1>7 DEF CheckPublished, TagRefused, Crash, BuildImage
  <2> QED BY <2>1, <2>2, <1>3, <1>4
<1>8. ASSUME NEW r \in Release, UploadModel(r) PROVE Solo' /\ HeadIsMine' /\ Paired'
  <2>1. ~Resting(r) /\ runs' = runs /\ Goto(r, "onnx")
    BY <1>2, <1>8 DEF UploadModel, Resting, InTurn
  <2>2. main'["model.zip"] = Staged(r)
    BY <1>2, <1>8 DEF UploadModel, Upload, RepoInv, Files
  <2> QED BY <1>3, <1>5, <1>8, <2>1, <2>2 DEF UploadModel
<1>9. ASSUME NEW r \in Release, UploadOnnx(r) PROVE Solo' /\ HeadIsMine' /\ Paired'
  <2>1. ~Resting(r) /\ runs' = runs /\ Goto(r, "card")
    BY <1>9 DEF UploadOnnx, Resting
  <2>2. main'["model.zip"] = Staged(r) /\ main'["model_onnx.zip"] = Staged(r)
    BY <1>2, <1>9 DEF UploadOnnx, Upload, RepoInv, Files, HeadIsMine
  <2> QED BY <1>3, <1>5, <1>9, <2>1, <2>2 DEF UploadOnnx
<1>10. ASSUME NEW r \in Release, UploadCard(r) PROVE Solo' /\ HeadIsMine' /\ Paired'
  <2>1. ~Resting(r) /\ runs' = runs /\ Goto(r, "tag")
    BY <1>10 DEF UploadCard, Resting
  <2>2. main'["model.zip"] = Staged(r) /\ main'["model_onnx.zip"] = Staged(r)
    BY <1>2, <1>10 DEF UploadCard, Upload, RepoInv, Files, HeadIsMine
  <2> QED BY <1>3, <1>5, <1>10, <2>1, <2>2 DEF UploadCard
<1>11. ASSUME NEW r \in Release, CreateTag(r) PROVE Solo' /\ HeadIsMine' /\ Paired'
  <2>1. ~Resting(r) /\ Goto(r, "docker") /\ pc[r] = "tag" /\ version[r] \in Version
    BY <1>2, <1>11 DEF CreateTag, Resting, RepoInv
  <2>2. main["model.zip"] = Staged(r) /\ main["model_onnx.zip"] = Staged(r)
    BY <1>2, <2>1 DEF HeadIsMine
  <2>3. Staged(r).version = version[r]
    BY <1>2, StagedIsArchive
  <2>4. tag' = [tag EXCEPT ![version[r]] = main]
    BY <1>11 DEF CreateTag
  <2>5. \A v \in Version : tag'[v] = IF v = version[r] THEN main ELSE tag[v]
    BY <1>2, <2>1, <2>4 DEF RepoInv
  <2>6. Paired'
    BY <1>2, <2>2, <2>3, <2>5 DEF Paired, Exists
  <2> QED BY <1>4, <2>1, <2>6
<1>12. ASSUME UNCHANGED releaseVars PROVE Solo' /\ HeadIsMine' /\ Paired'
  BY <1>2, <1>3, <1>12 DEF releaseVars, Solo, HeadIsMine, Resting, Staged
<1> QED BY <1>6, <1>7, <1>8, <1>9, <1>10, <1>11, <1>12 DEF ReleaseNext, Step

\* Workflows that do not overlap pair the two archives under every tag, whatever
\* failed publishes left on main.
THEOREM PairsInTurn == ReleaseSpec => []PairedInTurn
<1>1. ReleaseInit => TagInv
  <2> SUFFICES ASSUME ReleaseInit PROVE RepoInv /\ Solo /\ HeadIsMine /\ Paired
    BY DEF TagInv
  <2>1. RepoInv
    BY InitImage DEF ImageInv
  <2>2. \A r \in Release : pc[r] = "pushed"
    BY DEF ReleaseInit
  <2> QED BY <2>1, <2>2 DEF ReleaseInit, Solo, Resting, HeadIsMine, Paired, Exists
<1>2. TagInv => PairedInTurn
  BY DEF TagInv, InTurn, PairedInTurn
<1> QED BY <1>1, <1>2, NextTagged, PTL DEF ReleaseSpec
=============================================================================
