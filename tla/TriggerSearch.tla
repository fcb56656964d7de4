--------------------------- MODULE TriggerSearch ---------------------------
(***************************************************************************)
(* TubePipelineModel.predict (core/pipeline.py) around the classifier: the *)
(* padding, the filter on tubes, the decision and, on request, the search  *)
(* for the frame at which it would have fired (find_first_crossing_trigger *)
(* of core/inference.py).                                                  *)
(*                                                                         *)
(* Candidate tubes are any that TubeBuilder's Contiguous allows.  A score  *)
(* is reduced to the decision made on it, and is arbitrary: nothing ties   *)
(* the verdict on a prefix to the verdict on the tube.  Tube i of the      *)
(* model is the tube with the i-th smallest tube_id; frames count from 0.  *)
(***************************************************************************)
EXTENDS Padding

CONSTANTS
  MaxFrames,      \* model_input: frames the classifier takes (max_frames)
  PadMin,         \* infer.pad_to_min_frames
  MinTubeLength,  \* tubes.infer_min_tube_length
  MinDetected,    \* tubes.min_detected_entries
  MaxInput,       \* bound: frames of a request
  MaxTubes        \* bound: tubes that survive the filters

ASSUME SearchAssumption ==
  /\ MaxFrames \in Nat \ {0} /\ PadMin \in Nat
  /\ MinTubeLength \in Nat \ {0} /\ MinDetected \in Nat
  /\ MaxInput \in Nat /\ MaxTubes \in Nat

VARIABLES
  pc,
  request,   \* frames given, padding strategy, compute_trigger
  sequence,  \* the frames after truncation and padding
  kept,      \* the tubes that survive the filters: their first and last frame
  full,      \* full[i]: the decision on the whole of tube i
  at,        \* the tube being searched and the length of the prefix to score
  scores,    \* scores[i]: the decisions on prefixes of tube i, shortest first
  crossing,  \* crossing[i]: the frame at which tube i first crosses
  answer

vars == <<pc, request, sequence, kept, full, at, scores, crossing, answer>>

Length(t) == t.end - t.start + 1
Negative == [positive |-> FALSE, trigger |-> Null, tube |-> Null]

\* A tube of a single entry has one observation; a longer one has both its ends.
Candidate == {t \in [start : Slots(sequence.source), end : Slots(sequence.source),
                     observed : 1..Len(sequence.source), inRoi : BOOLEAN] :
                /\ t.start <= t.end
                /\ t.observed \in (IF t.start = t.end THEN {1} ELSE 2..Length(t))}

\* filter_and_interpolate_tubes, then the ROI (TRUE when the request has none).
Passes(t) == Length(t) >= MinTubeLength /\ t.observed >= MinDetected /\ t.inRoi

Init ==
  /\ pc = "pad"
  /\ request \in [frames : 0..MaxInput, strategy : {"symmetric", "uniform"}, trigger : BOOLEAN]
  /\ sequence = Unpadded(0)
  /\ kept = <<>> /\ full = <<>> /\ scores = <<>> /\ crossing = <<>>
  /\ at = [tube |-> 1, length |-> MinTubeLength]
  /\ answer = Negative

\* An empty sequence is answered at once; others are truncated, then padded.
Truncate ==
  /\ pc = "pad"
  /\ LET n == IF request.frames > MaxFrames THEN MaxFrames ELSE request.frames IN
     /\ sequence' = Pad(request.strategy, n, PadMin)
     /\ pc' = IF n = 0 THEN "done" ELSE "tubes"
  /\ UNCHANGED <<request, kept, full, at, scores, crossing, answer>>

\* What the filters drop leaves no trace, so only survivors are chosen.
BuildTubes ==
  /\ pc = "tubes"
  /\ \E m \in 0..MaxTubes : \E survivors \in [1..m -> {t \in Candidate : Passes(t)}] :
       /\ kept' = [i \in 1..m |-> [start |-> survivors[i].start, end |-> survivors[i].end]]
       /\ pc' = IF m = 0 THEN "done" ELSE "score"
  /\ UNCHANGED <<request, sequence, full, at, scores, crossing, answer>>

\* Every kept tube is scored whole.  Without compute_trigger that is the answer.
Score ==
  /\ pc = "score"
  /\ full' \in [DOMAIN kept -> BOOLEAN]
  /\ scores' = [i \in DOMAIN kept |-> <<>>]
  /\ crossing' = [i \in DOMAIN kept |-> Null]
  /\ IF request.trigger
     THEN pc' = "search" /\ UNCHANGED answer
     ELSE /\ pc' = "done"
          /\ answer' = [Negative EXCEPT !.positive = \E i \in DOMAIN kept : full'[i]]
  /\ UNCHANGED <<request, sequence, kept, at>>

NextTube == at' = [tube |-> at.tube + 1, length |-> MinTubeLength]

Qualifies_Any(i) == TRUE    \* variant: every tube is searched
\* The full-tube guard: only tubes whose full decision is positive qualify.
Qualifies(i) == full[i]

SkipTube ==
  /\ pc = "search"
  /\ at.tube \in DOMAIN kept
  /\ ~Qualifies(at.tube)
  /\ NextTube
  /\ UNCHANGED <<pc, request, sequence, kept, full, scores, crossing, answer>>

Verdict_Rescored == BOOLEAN    \* variant: the whole tube is scored again
\* The decision on the prefix: at full length the first score is reused.
Verdict == IF at.length = Length(kept[at.tube]) THEN {full[at.tube]} ELSE BOOLEAN

\* One turn of the prefix loop; running out of prefixes, or having none, is an
\* AssertionError.
TryPrefix ==
  /\ pc = "search"
  /\ at.tube \in DOMAIN kept
  /\ Qualifies(at.tube)
  /\ IF at.length > Length(kept[at.tube])
     THEN pc' = "failed" /\ UNCHANGED <<at, scores, crossing>>
     ELSE \E positive \in Verdict :
            /\ scores' = [scores EXCEPT ![at.tube] = Append(@, positive)]
            /\ IF positive
               THEN /\ crossing' = [crossing EXCEPT
                                      ![at.tube] = kept[at.tube].start + at.length - 1]
                    /\ NextTube
               ELSE /\ at' = [at EXCEPT !.length = @ + 1]
                    /\ UNCHANGED crossing
            /\ UNCHANGED pc
  /\ UNCHANGED <<request, sequence, kept, full, answer>>

Crossed == {i \in DOMAIN kept : crossing[i] # Null}
First_ById(i) ==     \* variant: the smallest tube_id, whenever it crosses
  \A k \in Crossed : i <= k
\* min(per_tube, key=(crossing_frame, tube_id))
First(i) ==
  \A k \in Crossed : crossing[i] < crossing[k] \/ (crossing[i] = crossing[k] /\ i <= k)

Decide ==
  /\ pc = "search"
  /\ at.tube \notin DOMAIN kept
  /\ pc' = "done"
  /\ answer' = IF Crossed = {} THEN Negative
               ELSE LET i == CHOOSE k \in Crossed : First(k)
                    IN  [positive |-> TRUE, trigger |-> crossing[i], tube |-> i]
  /\ UNCHANGED <<request, sequence, kept, full, at, scores, crossing>>

Next ==
  \/ Truncate
  \/ BuildTubes
  \/ Score
  \/ SkipTube
  \/ TryPrefix
  \/ Decide

Spec == Init /\ [][Next]_vars
-----------------------------------------------------------------------------
\* The search never trips its own assertions: a tube positive as a whole has a
\* prefix that is, whatever the classifier says of the prefixes, and every kept
\* tube is long enough to have one.
NoAssertionError == pc # "failed"

\* Asking for the trigger does not change the verdict of the sequence, and the
\* trigger is there exactly when it was asked for and the verdict is positive.
SameVerdict ==
  pc = "done" =>
    /\ answer.positive = \E i \in DOMAIN full : full[i]
    /\ (answer.trigger # Null) = (answer.positive /\ request.trigger)

\* Where tube i first crosses, read off the prefixes that were scored.
CrossesAt(i, f) ==
  LET k == f - kept[i].start - MinTubeLength + 2 IN
  /\ k \in DOMAIN scores[i] /\ scores[i][k]
  /\ \A m \in 1..(k - 1) : ~scores[i][m]

\* The trigger is the earliest frame at which any tube with a positive verdict
\* crosses, on the tube with the smallest tube_id among those that cross there,
\* and no shorter prefix of it was positive.
Earliest ==
  pc = "done" /\ answer.trigger # Null =>
    /\ full[answer.tube]
    /\ CrossesAt(answer.tube, answer.trigger)
    /\ \A i \in DOMAIN kept : full[i] =>
         \E f \in kept[i].start..kept[i].end :
           /\ CrossesAt(i, f)
           /\ f > answer.trigger \/ (f = answer.trigger /\ i >= answer.tube)

\* Reading a processed index back gives the input frame the slot shows, and each
\* input frame, truncation aside, has exactly one slot that is not padding.
ReadsBack ==
  LET real == Slots(sequence.source) \ sequence.padded IN
  /\ \A s \in real : ProcessedToInput(s, sequence.padded) = sequence.source[s + 1]
  /\ pc # "pad" => Cardinality(real) = (IF request.frames > MaxFrames THEN MaxFrames
                                        ELSE request.frames)
  /\ \A s, r \in real : s < r => sequence.source[s + 1] < sequence.source[r + 1]
=============================================================================
