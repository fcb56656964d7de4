--------------------------- MODULE EmbeddingCache ---------------------------
(***************************************************************************)
(* OnnxTemporalModel (core/onnx_model.py) as an edge device uses it: the   *)
(* last Window frames of a camera are scored again at every round, and the *)
(* embeddings of slots seen before are taken from an LRU cache.  Scoring   *)
(* is single threaded; a call looks all its slots up, embeds the missing   *)
(* ones in one batch and stores them one after the other.                  *)
(*                                                                         *)
(* An embedding is the patch it was computed from, a frame and a crop.     *)
(***************************************************************************)
EXTENDS Crops, Padding, SequencesExt

CONSTANTS
  Camera,     \* cameras, or poses, that share the model
  Tracks,     \* tubes a call may have, at most
  Window,     \* frames the caller submits
  PadMin,     \* pad_to_min_frames
  ModelFrames,\* max_frames of the classifier
  CacheSize,  \* embedding_cache_size
  MaxFrame,   \* bound: frames of a camera
  Scene       \* what may be seen: scene[c][t][f] is a box, or None

Box == {b \in [lo : 0..ImageSize, hi : 0..ImageSize] : b.lo <= b.hi}

ASSUME CacheAssumption ==
  /\ Scene \subseteq [Camera -> [1..Tracks -> [1..MaxFrame -> Box]]]
  /\ {Tracks, Window, PadMin, ModelFrames, MaxFrame} \subseteq Nat /\ CacheSize \in Nat

VARIABLES
  scene,
  stabilize,
  camera,     \* the camera of the call
  newest,     \* newest[c]: the newest frame of a camera so far
  slots,      \* the unmasked slots of the call, tube after tube
  at,         \* slots looked up so far
  features,   \* the features gathered so far, slot by slot
  misses,     \* indices of slots to embed
  cache,      \* keys and features, least recently used first
  last        \* the slots of the call before, once scored through the cache

vars == <<scene, stabilize, camera, newest, slots, at, features, misses, cache, last>>

Zero == [frame |-> <<>>, crop |-> None]
-----------------------------------------------------------------------------
\* The frames of camera c up to its n-th, oldest first, padded as predict pads them.
Frames(c, n) ==
  LET first == Max({1, n - Window + 1})
      pad   == Pad("symmetric", n - first + 1, PadMin)
  IN  [i \in DOMAIN pad.source |-> <<c, first + pad.source[i]>>]

\* The tube of a track: its entries from the first observation to the last.
Entries(track, frames) ==
  LET seen == {i \in DOMAIN frames : track[frames[i][2]] # None}
  IN  IF seen = {} THEN <<>>
      ELSE LET first == Min(seen) - 1
           IN  Interpolated([i \in 1..(Max(seen) - first) |->
                 [frame |-> frames[first + i], box |-> track[frames[first + i][2]], gap |-> FALSE]])

\* A track that is not seen has no tube: its empty one adds no slot.
Tubes(c, n) == [t \in 1..Tracks |-> Entries(scene[c][t], Frames(c, n))]

\* The slots of a call, tube after tube; and the patches training had for those tubes.
Slotted(c, n) ==
  LET tubes == Tubes(c, n)
  IN  FlattenSeq([k \in DOMAIN tubes |-> CropBoxes(tubes[k], stabilize, ModelFrames)])
TrainingSlots(c, n) ==
  LET tubes == Tubes(c, n)
  IN  FlattenSeq([k \in DOMAIN tubes |-> TrainingPatches(tubes[k], stabilize, ModelFrames)])

Key_FrameOnly(slot) == <<slot.frame, None>>   \* variant: cached per frame, whatever the crop
\* CacheKey
Key(slot) == <<slot.frame, slot.crop>>
Patch(slot) == [frame |-> slot.frame, crop |-> slot.crop]

Position(c, key) == {i \in DOMAIN c : c[i].key = key}
Cached(key) == Position(cache, key) # {}

Touched_InPlace(c, key) == c   \* variant: a hit does not renew the entry
\* _cached: move_to_end.
Touched(c, key) ==
  LET i == CHOOSE k \in Position(c, key) : TRUE IN Append(RemoveAt(c, i), c[i])

\* _remember: overwriting keeps the place; past the size the oldest go.
Remembered(c, key, feature) ==
  LET entry == [key |-> key, feature |-> feature]
      grown == IF Position(c, key) # {}
               THEN [i \in DOMAIN c |-> IF c[i].key = key THEN entry ELSE c[i]]
               ELSE Append(c, entry)
  IN  IF Len(grown) > CacheSize THEN Tail(grown) ELSE grown
-----------------------------------------------------------------------------
Init ==
  /\ scene \in Scene
  /\ stabilize \in BOOLEAN
  /\ camera \in Camera
  /\ newest = [c \in Camera |-> 0]
  /\ slots = <<>> /\ at = 0 /\ features = <<>> /\ misses = <<>> /\ cache = <<>> /\ last = <<>>

Idle == at = Len(slots) /\ misses = <<>>

\* The next round of a camera: its window moved by a frame, or is submitted again.
Call(c) ==
  /\ Idle
  /\ \E n \in {newest[c], newest[c] + 1} \cap 1..MaxFrame :
       /\ newest' = [newest EXCEPT ![c] = n]
       /\ slots' = Slotted(c, n)
  /\ camera' = c
  /\ at' = 0
  /\ features' = [i \in DOMAIN slots' |-> Zero]
  /\ last' = <<>>
  /\ UNCHANGED <<scene, stabilize, misses, cache>>

\* With the trigger asked for, or a format 1 package: the generic path, no cache.
Generic ==
  /\ at = 0 /\ slots # <<>> /\ misses = <<>> /\ features[1] = Zero
  /\ features' = [i \in DOMAIN slots |-> Patch(slots[i])]
  /\ at' = Len(slots)
  /\ UNCHANGED <<scene, stabilize, camera, newest, slots, misses, cache, last>>

Hit ==
  /\ at < Len(slots)
  /\ LET key == Key(slots[at + 1]) IN
     /\ Cached(key)
     /\ features' = [features EXCEPT ![at + 1] = cache[CHOOSE i \in Position(cache, key) : TRUE].feature]
     /\ cache' = Touched(cache, key)
  /\ at' = at + 1
  /\ last' = IF at' = Len(slots) /\ misses = <<>> THEN slots ELSE last
  /\ UNCHANGED <<scene, stabilize, camera, newest, slots, misses>>

Miss ==
  /\ at < Len(slots)
  /\ ~Cached(Key(slots[at + 1]))
  /\ misses' = Append(misses, at + 1)
  /\ at' = at + 1
  /\ UNCHANGED <<scene, stabilize, camera, newest, slots, features, cache, last>>

\* The batch is embedded once every slot was looked up.
Embed ==
  /\ at = Len(slots) /\ misses # <<>>
  /\ LET i == Head(misses) IN
     /\ features' = [features EXCEPT ![i] = Patch(slots[i])]
     /\ cache' = Remembered(cache, Key(slots[i]), Patch(slots[i]))
  /\ misses' = Tail(misses)
  /\ last' = IF misses' = <<>> THEN slots ELSE last
  /\ UNCHANGED <<scene, stabilize, camera, newest, slots, at>>

Next == (\E c \in Camera : Call(c)) \/ Generic \/ Hit \/ Miss \/ Embed

Spec == Init /\ [][Next]_vars
-----------------------------------------------------------------------------
SmokeInside ==
  stabilize => \A tube \in Range(Tubes(camera, newest[camera])) :
    \A c \in Range(CropBoxes(tube, TRUE, ModelFrames)) : \A e \in Range(tube) :
      ~e.gap => c.crop.lo <= e.box.lo /\ e.box.hi <= c.crop.hi

\* Every slot is scored with the embedding of its own frame cut where training would
\* have cut it, though windows move, frames repeat as padding and calls repeat frames;
\* and no smoke leaves its crop: a tube's observed boxes are inside all its crops.
Faithful ==
  Idle /\ newest[camera] > 0 =>
    /\ features = TrainingSlots(camera, newest[camera])
    /\ SmokeInside

\* What a call used stays cached, if it fits, until the next: a window submitted again
\* costs no embedding, whatever older rounds left in the cache; and the cache stays
\* within its size, with one entry for each key.
Retained ==
  /\ Len(cache) <= CacheSize
  /\ \A i, j \in DOMAIN cache : cache[i].key = cache[j].key => i = j
  /\ Idle /\ Cardinality({Key(s) : s \in Range(last)}) <= CacheSize
       => \A s \in Range(last) : Cached(Key(s))
=============================================================================
