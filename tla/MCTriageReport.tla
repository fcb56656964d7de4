--------------------------- MODULE MCTriageReport ---------------------------
(***************************************************************************)
(* TriageReport with three sequences, of which the first two fit together  *)
(* in a shard and the last is larger than one.                             *)
(***************************************************************************)
EXTENDS TriageReport

MCSize == <<1, 1, 3>>
=============================================================================
