---------------------------- MODULE MonitorStore ----------------------------
(***************************************************************************)
(* The store of alert sequences (monitor/store.py), which import fills and *)
(* replay reads: directories <organization>/<camera>/seq_<id>, here        *)
(* store[s][h], each with images and a meta.json.                          *)
(***************************************************************************)
EXTENDS Reconstruct

CONSTANTS
  Sequence,
  Home       \* <organization>/<camera> of the sequences, before and after a rename

\* No meta.json, and one that a kill cut off, which read_meta cannot read.
None == [none |-> TRUE]
Cut  == [cut |-> TRUE]

\* A directory: the images that are whole, those that a kill cut off, and meta.json.
NoDir == [meta |-> None, images |-> {}, torn |-> {}]

\* find_sequence_dirs: the directories of s with a meta.json, whatever it holds.
MetaDirs(store, s) == {h \in Home : store[s][h].meta # None}

\* A score as recorded: the versions that made it and, in place of the probability,
\* the request it was computed from, as another one moves the probability.
Score(api, model, dets) == [api |-> api, model |-> model, of |-> Request(dets)]
=============================================================================
