------------------------------ MODULE Release ------------------------------
(***************************************************************************)
(* Publishing a model and building the image that bakes it: api/release.py *)
(* driven by the release workflow (.github/workflows/push.yml).  Pushing a *)
(* git tag starts a workflow; nothing keeps two from overlapping, any step *)
(* may fail, and a failed workflow may be run again.                       *)
(*                                                                         *)
(* An archive is the version stamped into its manifest and the publish     *)
(* that staged it.  Stamping rewrites the zip, so a hash identifies the    *)
(* publish: an ONNX archive carries the hash of the model.zip it came with.*)
(***************************************************************************)
EXTENDS Integers

CONSTANTS
  Release,    \* git tags pushed
  Version,    \* model versions
  MaxRuns     \* bound: runs of one workflow

ASSUME ReleaseAssumption == MaxRuns \in Nat \ {0}

VARIABLES
  version,    \* version[r]: api/MODEL_VERSION at that commit
  onnx_file,  \* onnx_file[r]: publish is given --onnx-file, as the workflow always does
  overlap,    \* workflows may overlap
  pc,         \* the step each workflow is at
  runs,       \* how often each was started
  main,       \* the files on the main branch of the HF repository
  tag,        \* tag[v]: the snapshot v<version> names
  image       \* image[r]: the model.zip baked into the image of the release

releaseVars == <<version, onnx_file, overlap, pc, runs, main, tag, image>>

NoArchive == [version |-> 0, by |-> <<>>]
Files == {"model.zip", "model_onnx.zip", "README.md"}
Empty == [f \in Files |-> NoArchive]
Staged(r) == [version |-> version[r], by |-> <<r, runs[r]>>]
Exists(v) == tag[v] # Empty
Resting(r) == pc[r] \in {"pushed", "failed", "built"}

Goto(r, p) == pc' = [pc EXCEPT ![r] = p]
Upload(r, f) == main' = [main EXCEPT ![f] = Staged(r)]

ReleaseInit ==
  /\ version \in [Release -> Version]
  /\ onnx_file \in [Release -> BOOLEAN]
  /\ overlap \in BOOLEAN
  /\ pc = [r \in Release |-> "pushed"]
  /\ runs = [r \in Release |-> 0]
  /\ main = Empty
  /\ tag = [v \in Version |-> Empty]
  /\ image = [r \in Release |-> NoArchive]

\* The git tag is pushed, or the failed workflow is run again.
Start(r) ==
  /\ pc[r] \in {"pushed", "failed"}
  /\ runs[r] < MaxRuns
  /\ overlap \/ \A q \in Release : Resting(q)
  /\ runs' = [runs EXCEPT ![r] = @ + 1]
  /\ Goto(r, "check")
  /\ UNCHANGED <<version, onnx_file, overlap, main, tag, image>>

CheckPublished_Skipped(r) ==   \* variant: publishing is always tried
  /\ pc[r] = "check"
  /\ Goto(r, "model")
  /\ UNCHANGED <<version, onnx_file, overlap, runs, main, tag, image>>
\* A version that has its HF tag is not published again.  Otherwise the archives
\* are verified and staged, in a temporary directory, before anything is uploaded.
CheckPublished(r) ==
  /\ pc[r] = "check"
  /\ Goto(r, IF Exists(version[r]) THEN "docker" ELSE "model")
  /\ UNCHANGED <<version, onnx_file, overlap, runs, main, tag, image>>

UploadModel(r) ==
  /\ pc[r] = "model"
  /\ Upload(r, "model.zip")
  /\ Goto(r, IF onnx_file[r] THEN "onnx" ELSE "card")
  /\ UNCHANGED <<version, onnx_file, overlap, runs, tag, image>>

UploadOnnx(r) ==
  /\ pc[r] = "onnx"
  /\ Upload(r, "model_onnx.zip")
  /\ Goto(r, "card")
  /\ UNCHANGED <<version, onnx_file, overlap, runs, tag, image>>

UploadCard(r) ==
  /\ pc[r] = "card"
  /\ Upload(r, "README.md")
  /\ Goto(r, "tag")
  /\ UNCHANGED <<version, onnx_file, overlap, runs, tag, image>>

CreateTag_Early(r) ==       \* variant: the tag is created once the model is there
  /\ pc[r] \in {"onnx", "card", "tag"}
  /\ ~Exists(version[r])
  /\ tag' = [tag EXCEPT ![version[r]] = main]
  /\ Goto(r, IF pc[r] = "tag" THEN "docker" ELSE pc[r])
  /\ UNCHANGED <<version, onnx_file, overlap, runs, main, image>>
CreateTag_Overwrite(r) ==   \* variant: an existing tag is moved
  /\ pc[r] = "tag"
  /\ tag' = [tag EXCEPT ![version[r]] = main]
  /\ Goto(r, "docker")
  /\ UNCHANGED <<version, onnx_file, overlap, runs, main, image>>
\* create_tag, at the head of main; it raises when the tag exists.
CreateTag(r) ==
  /\ pc[r] = "tag"
  /\ ~Exists(version[r])
  /\ tag' = [tag EXCEPT ![version[r]] = main]
  /\ Goto(r, "docker")
  /\ UNCHANGED <<version, onnx_file, overlap, runs, main, image>>

TagRefused(r) ==
  /\ pc[r] = "tag"
  /\ Exists(version[r])
  /\ Goto(r, "failed")
  /\ UNCHANGED <<version, onnx_file, overlap, runs, main, tag, image>>

Matches(r, a) == a.version = version[r]

\* fetch asserts the version of the archive before the image is built from it.
BuildImage(r) ==
  /\ pc[r] = "docker"
  /\ LET a == tag[version[r]]["model.zip"] IN
     IF Matches(r, a)
     THEN image' = [image EXCEPT ![r] = a] /\ Goto(r, "built")
     ELSE Goto(r, "failed") /\ UNCHANGED image
  /\ UNCHANGED <<version, onnx_file, overlap, runs, main, tag>>

\* A request to HuggingFace, or the runner, fails; the last run allowed does not.
Crash(r) ==
  /\ ~Resting(r)
  /\ runs[r] < MaxRuns
  /\ Goto(r, "failed")
  /\ UNCHANGED <<version, onnx_file, overlap, runs, main, tag, image>>

Step(r) ==
  \/ Start(r)
  \/ CheckPublished(r)
  \/ UploadModel(r)
  \/ UploadOnnx(r)
  \/ UploadCard(r)
  \/ CreateTag(r)
  \/ TagRefused(r)
  \/ BuildImage(r)

ReleaseNext == \E r \in Release : Step(r) \/ Crash(r)

\* A workflow goes on, a failed one is run again, one that waits gets its turn.
ReleaseSpec ==
  ReleaseInit /\ [][ReleaseNext]_releaseVars /\ \A r \in Release : SF_releaseVars(Step(r))
-----------------------------------------------------------------------------
\* A tag pairs a model.zip with the ONNX archive exported from it: both carry the
\* version, and the hash recorded in one is the hash of the other.
Paired ==
  \A v \in Version : Exists(v) =>
    /\ tag[v]["model.zip"].version = v
    /\ tag[v]["model_onnx.zip"] = tag[v]["model.zip"]

\* One workflow at a time, the tag is the mark of a complete publish, whatever
\* failed publishes, of this or another version, left on main before it.
PairedInTurn == ~overlap /\ (\A r \in Release : onnx_file[r]) => Paired

\* What the workflow promises of the releases it makes, overlapping or not.
PairedByWorkflow == (\A r \in Release : onnx_file[r]) => Paired

\* Whatever is published later, two images of the same model version hold the
\* same archive, byte for byte.
Reproducible ==
  \A r, q \in Release :
    image[r] # NoArchive /\ image[q] # NoArchive /\ version[r] = version[q] => image[r] = image[q]

\* One workflow at a time, failed publishes are retried cleanly: every release
\* gets its image in the end.
Built == \A r \in Release : ~overlap ~> image[r] # NoArchive
=============================================================================
