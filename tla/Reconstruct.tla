---------------------------- MODULE Reconstruct ----------------------------
(***************************************************************************)
(* The call that production makes to score a sequence, rebuilt from the    *)
(* sequence's detections (monitor/reconstruct.py): the most recent of the  *)
(* distinct frames, and the region that the detections on them span.  The  *)
(* region is abstracted to the detections it is the envelope of.           *)
(***************************************************************************)
EXTENDS Integers, Sequences, SequencesExt

CONSTANTS
  MinFrames, \* MIN_FRAMES
  MaxFrames  \* MAX_FRAMES

\* A detection is one box on one frame (its bucket_key).
Detection(frame, box) == [frame |-> frame, box |-> box]

\* The frames of detections, oldest first, each once.
Ordered(dets) ==
  LET seen[k \in 0..Len(dets)] ==
        IF k = 0 THEN <<>>
        ELSE IF dets[k].frame \in Range(seen[k - 1]) THEN seen[k - 1]
        ELSE Append(seen[k - 1], dets[k].frame)
  IN  seen[Len(dets)]

LastN(s, n) == SubSeq(s, IF Len(s) <= n THEN 1 ELSE Len(s) - n + 1, Len(s))

\* The body of the request: frames_and_roi.
Request(dets) ==
  LET kept == LastN(Ordered(dets), MaxFrames)
  IN  [frames |-> kept, roi |-> {d \in Range(dets) : d.frame \in Range(kept)}]

\* _files_by_key: for each frame of the request, the image of its first detection.
Files(dets) ==
  {dets[k] : k \in {j \in DOMAIN dets : /\ dets[j].frame \in Range(Request(dets).frames)
                                        /\ \A i \in 1..(j - 1) : dets[i].frame # dets[j].frame}}

\* The detections on some of the frames, whenever they came.
Subset(dets, frames) ==
  LET kept[k \in 0..Len(dets)] ==
        IF k = 0 THEN <<>>
        ELSE IF dets[k].frame \in frames THEN Append(kept[k - 1], dets[k]) ELSE kept[k - 1]
  IN  kept[Len(dets)]

Window_Kept(dets, n) ==    \* variant: the first n of the frames of the request
  Subset(dets, Range(SubSeq(Request(dets).frames, 1, n)))
\* The window of the first n frames.
Window(dets, n) == Subset(dets, Range(SubSeq(Ordered(dets), 1, n)))
=============================================================================
