--------------------------- MODULE MCTubeBuilder ---------------------------
(***************************************************************************)
(* TubeBuilder on a strip of three boxes: neighbours overlap by 1/3, the   *)
(* outer two not at all, so that the threshold of 1/5 (iou_threshold's     *)
(* default) separates them, a better pair competes with a worse one, the   *)
(* middle box ties between the outer two and a tube can drift off its      *)
(* first box.                                                              *)
(***************************************************************************)
EXTENDS TubeBuilder, Boxes

Strip(x) == [x1 |-> x, y1 |-> 0, x2 |-> x + 4, y2 |-> 1]

\* A common multiple of the areas and unions of these boxes, and of 5.
Scale == 120

MCBox == {Strip(0), Strip(2), Strip(4)}
MCIou == [p \in MCBox \X MCBox |-> ComputeIou(p[1], p[2], Scale)]
MCIouThreshold == Scale \div 5
=============================================================================
