---------------------------- MODULE MCTubeMerge ----------------------------
(***************************************************************************)
(* TubeMerge on up to three tubes of at most two observations in six       *)
(* frames, on two boxes that are not the same plume but may alternate in a *)
(* tube, so that fragments meet in one box and collide in the other.       *)
(***************************************************************************)
EXTENDS TubeMerge

CONSTANTS small, large

MCBox     == {small, large}
MCSameBox == {<<b, b>> : b \in MCBox}
MCRank    == [b \in MCBox |-> IF b = large THEN 2 ELSE 1]
=============================================================================
