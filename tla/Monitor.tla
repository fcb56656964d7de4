------------------------------ MODULE Monitor ------------------------------
(***************************************************************************)
(* The monitor: import fills a store that replay reads.  Both are commands *)
(* of one operator, run one after the other and each of them killed now    *)
(* and then, while production goes on.                                     *)
(***************************************************************************)
EXTENDS Integers

CONSTANTS
  MinFrames, MaxFrames, Sequence, Home, Version, Serves, Tag, Model, WithTrigger,
  TriggerModel, Live, MaxBoxes, MaxEvents, MaxKills

\* Sequences are numbered as they are listed, versions as they are sorted.
ASSUME MonitorAssumption ==
  /\ MinFrames \in Nat \ {0} /\ MaxFrames \in Nat \ {0}
  /\ Sequence \subseteq Nat /\ Live \subseteq Sequence
  /\ Version \subseteq Nat \ {0} /\ WithTrigger \subseteq Tag /\ Tag \subseteq Version
  /\ Serves \in [Version -> Model] /\ TriggerModel \in Model
  /\ MaxBoxes \in Nat /\ MaxEvents \in Nat /\ MaxKills \in Nat

VARIABLES home, boxes, score, events, kills, cmd, store, forced, job, run

Importer == INSTANCE AlertImport
Replayer == INSTANCE Replay

importing == <<home, boxes, score, events, forced, job>>
vars      == <<importing, kills, cmd, store, run>>

Init ==
  /\ Importer!Init
  /\ run = Replayer!NoRun

Import ==
  \/ \E force \in BOOLEAN : Importer!Start(force)
  \/ \E s \in Sequence : Importer!Skip(s) \/ Importer!Begin(s) \/ Importer!Fails(s)
  \/ Importer!RemoveStale
  \/ Importer!Fetch
  \/ Importer!WriteMeta
  \/ Importer!Done
  \/ Importer!Kill

Replay ==
  \/ Replayer!Start
  \/ Replayer!Up
  \/ Replayer!WaitHealthy
  \/ \E i \in Replayer!Items : Replayer!ReplayOne(i)
  \/ Replayer!Down
  \/ Replayer!Enrich
  \/ Replayer!EnrichDown
  \/ Replayer!NoEnrichment
  \/ Replayer!WriteReport
  \/ Replayer!Kill

\* What production does while no command looks at it is left until one does.
Production ==
  /\ cmd = "idle" \/ Importer!Importing("next")
  /\ \/ \E s \in Live : Importer!Detect(s) \/ Importer!Rate(s)
     \/ Importer!Rename

Next ==
  \/ Production /\ UNCHANGED run
  \/ Import /\ UNCHANGED run
  \/ Replay /\ UNCHANGED <<importing, kills>>

Spec == Init /\ [][Next]_vars
-----------------------------------------------------------------------------
\* import_alert_api.py: a sequence is in the store once, under one name.
OneHome == Importer!OneHome

\* import_alert_api.py: a meta.json names images that are on disk whole.
ImagesWhole == Importer!ImagesWhole

\* replay.py: a report accounts for each stored sequence once, as a row or as dropped.
AccountedOnce == Replayer!AccountedOnce

\* replay.py: a row was computed by the version and the model it names, and its trigger
\* belongs to its result.
Genuine == Replayer!Genuine

\* import and replay together: what import stored is enough for replay to find the
\* window that production scored, so that what it cannot reproduce is genuine drift.
DriftExplained == Replayer!DriftExplained
=============================================================================
