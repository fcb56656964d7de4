---------------------------- MODULE MCPackaging ----------------------------
(***************************************************************************)
(* Packaging with two training runs, a server and an evaluation, and       *)
(* enough archives for a rebuilt model.zip beside an export of the old one.*)
(* TwoAtOnce bounds the commands under way, of all kinds, to two.          *)
(***************************************************************************)
EXTENDS Packaging, FiniteSets

TwoAtOnce ==
  Cardinality({c \in {"pack", "exp", "pub"} \cup Loader :
                 CASE c = "pack" -> pack # Idle
                   [] c = "exp"  -> exp # Idle
                   [] c = "pub"  -> pub # Idle
                   [] OTHER      -> load[c] # Idle}) <= 2
=============================================================================
