----------------------------- MODULE MCMonitor -----------------------------
(***************************************************************************)
(* Monitor with two sequences, of which one goes on to change, two api     *)
(* versions whose images hold different models, of which the newer         *)
(* computes triggers, and one version that is no image tag.                *)
(***************************************************************************)
EXTENDS Monitor, TLC

Symmetry == Permutations(Home)

MCServes == [v \in Version |-> IF v = 1 THEN 1 ELSE 2]
=============================================================================
