------------------------------- MODULE Tubes -------------------------------
(***************************************************************************)
(* What build_tubes (TubeBuilder) and the merging of the tubes it built    *)
(* (TubeMerge) are parameterised by in common.                             *)
(***************************************************************************)
CONSTANTS
  Box,          \* the boxes a detection may have
  MaxMisses     \* gaps a tube survives (max_misses)
=============================================================================
