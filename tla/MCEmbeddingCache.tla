-------------------------- MODULE MCEmbeddingCache --------------------------
(***************************************************************************)
(* EmbeddingCache on two cameras, windows of three frames padded to three  *)
(* and up to two tubes.  Boxes shift: crops move when the box that holds   *)
(* an extremum enters or leaves the window.  The cache holds four of the   *)
(* up to six slots of a call.                                              *)
(***************************************************************************)
EXTENDS EmbeddingCache

At(x)  == [lo |-> x, hi |-> x + 6]
Never  == [f \in 1..4 |-> None]
Still  == [f \in 1..4 |-> At(0)]
Blink  == [f \in 1..4 |-> IF f = 2 THEN None ELSE At(6 * f)]
Late   == [f \in 1..4 |-> IF f = 1 THEN None ELSE At(0)]

\* Any track on the first camera, beside a second one; one still track on the other.
MCScene ==
  {[c \in {"left", "right"} |-> IF c = "left" THEN <<first, second>> ELSE <<Still, Never>>] :
     first \in {f \in [1..4 -> {None, At(12), At(18)}] : f[4] = At(12)}, second \in {Late, Blink}}
=============================================================================
