----------------------------- MODULE MCRelease -----------------------------
(***************************************************************************)
(* Release with two pushed tags, of one or two model versions: a code-only *)
(* release, a new model, and the overlap of both.                          *)
(***************************************************************************)
EXTENDS Release
=============================================================================
