------------------------------ MODULE Padding ------------------------------
(***************************************************************************)
(* How a short sequence is padded before inference (core/inference.py) and *)
(* how a padded index is read back (viewer/lib/details.ts, eval/app.py).   *)
(* A padded sequence is given by the input frame each slot shows and the   *)
(* set of slots that are synthesised; frames and slots count from 0, so    *)
(* slot s of the code is source[s + 1].                                    *)
(***************************************************************************)
EXTENDS Integers, Sequences, FiniteSets

Slots(source) == 0..(Len(source) - 1)
Unpadded(n) == [source |-> [i \in 1..n |-> i - 1], padded |-> {}]

\* pad_frames_symmetrically: prepend the first frame, append the last, in turn.
\* The loop carries the positions of the real frames, shifted by each prepend.
Symmetric(n, min) ==
  LET loop[k \in Nat] ==
        IF k = 0 THEN [source |-> Unpadded(n).source, real |-> 0..(n - 1)]
        ELSE LET before == loop[k - 1] IN
             IF k % 2 = 1
             THEN [source |-> <<0>> \o before.source, real |-> {p + 1 : p \in before.real}]
             ELSE [source |-> Append(before.source, n - 1), real |-> before.real]
      last == loop[min - n]
  IN  IF n = 0 \/ n >= min THEN Unpadded(n)
      ELSE [source |-> last.source, padded |-> Slots(last.source) \ last.real]

\* pad_frames_uniform: nearest frame under the floor mapping; the first slot of a
\* frame is real and its repeats are padding.
Uniform(n, min) ==
  LET source == [i \in 1..min |-> ((i - 1) * n) \div min]
  IN  IF n = 0 \/ n >= min THEN Unpadded(n)
      ELSE [source |-> source,
            padded |-> {s \in Slots(source) : \E r \in 0..(s - 1) : source[r + 1] = source[s + 1]}]

Pad(strategy, n, min) == IF strategy = "symmetric" THEN Symmetric(n, min) ELSE Uniform(n, min)

Null == -1

ProcessedToInput_Raw(s, padded) ==    \* variant: the padding before s is not deducted
  IF s \in padded THEN Null ELSE s
\* processedToInputIndex: no input frame for a padded slot.
ProcessedToInput(s, padded) ==
  IF s \in padded THEN Null ELSE s - Cardinality({p \in padded : p < s})
=============================================================================
