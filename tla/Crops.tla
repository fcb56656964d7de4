------------------------------- MODULE Crops -------------------------------
(***************************************************************************)
(* The crop of every slot of a tube: gaps filled (core/tubes.py), the      *)
(* window of the tube (core/stabilize.py), its square in pixels            *)
(* (core/crop.py), as inference cuts it (core/inference.py) and as the     *)
(* training patches were cut (train/crop_patches.py, train/dataset.py).    *)
(* One axis stands for both: a box is an interval of pixels.  An entry is  *)
(* the frame it shows, its box, None while it is a gap to fill, and is_gap.*)
(***************************************************************************)
EXTENDS Integers, Sequences, FiniteSetsExt

CONSTANTS
  ImageSize,     \* pixels of an image along the axis
  ContextFactor  \* context_factor

ASSUME CropsAssumption == ImageSize \in Nat \ {0} /\ ContextFactor \in Nat \ {0}

None == [lo |-> 0, hi |-> 0]

\* interpolate_gaps, for entries from the first to the last observation: a gap is
\* between two observed boxes and divides the way from one to the other.
Interpolated(entries) ==
  LET observed == {i \in DOMAIN entries : entries[i].box # None}
      between(i) ==
        LET b == Max({j \in observed : j < i})
            a == Min({j \in observed : j > i})
            at(x, y) == x + ((i - b) * (y - x)) \div (a - b)
        IN  [lo |-> at(entries[b].box.lo, entries[a].box.lo),
             hi |-> at(entries[b].box.hi, entries[a].box.hi)]
  IN  [i \in DOMAIN entries |->
         IF i \in observed THEN entries[i]
         ELSE [entries[i] EXCEPT !.box = between(i), !.gap = TRUE]]

UnionWindow(boxes) == [lo |-> Min({b.lo : b \in boxes}), hi |-> Max({b.hi : b \in boxes})]

\* tube_window: the observed boxes, or all there are when none was observed.
TubeWindow(entries) ==
  LET available == {i \in DOMAIN entries : entries[i].box # None}
      observed  == {i \in available : ~entries[i].gap}
  IN  UnionWindow({entries[i].box : i \in IF observed # {} THEN observed ELSE available})

\* round(n / 2): a half goes to the even neighbour.
RoundHalf(n) ==
  IF n % 2 = 0 THEN n \div 2
  ELSE IF (n \div 2) % 2 = 0 THEN n \div 2 ELSE n \div 2 + 1

\* expand_bbox and norm_bbox_to_pixel_square: centre plus or minus half the side.
PixelSquare(box) ==
  LET side == ContextFactor * (box.hi - box.lo)
      lo   == RoundHalf(box.lo + box.hi - side)
      hi   == RoundHalf(box.lo + box.hi + side)
  IN  [lo |-> Max({0, lo}), hi |-> Min({ImageSize, hi})]

\* tube_crop_boxes: frame and pixel box of the first maxFrames entries.
CropBoxes(entries, stabilize, maxFrames) ==
  [i \in 1..Min({Len(entries), maxFrames}) |->
     [frame |-> entries[i].frame,
      crop  |-> PixelSquare(IF stabilize THEN TubeWindow(entries) ELSE entries[i].box)]]

\* process_tube cuts every entry, TubePatchDataset reads the first maxFrames of them.
TrainingPatches(entries, stabilize, maxFrames) ==
  LET window == TubeWindow(entries)
      patch(e) == [frame |-> e.frame,
                   crop  |-> PixelSquare(IF stabilize THEN window ELSE e.box)]
      cut == [i \in DOMAIN entries |-> patch(entries[i])]
  IN  SubSeq(cut, 1, Min({Len(cut), maxFrames}))
=============================================================================
