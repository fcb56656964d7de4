---------------------------- MODULE MCTriagePull ----------------------------
(***************************************************************************)
(* TriagePull with two sequences of two frames, pages of one sequence and  *)
(* one or two workers.                                                     *)
(***************************************************************************)
EXTENDS TriagePull
=============================================================================
