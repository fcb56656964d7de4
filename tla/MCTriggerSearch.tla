-------------------------- MODULE MCTriggerSearch --------------------------
(***************************************************************************)
(* TriggerSearch on sequences of up to six frames, truncated to four and   *)
(* padded to four, with the packaged minimum tube length of two.           *)
(***************************************************************************)
EXTENDS TriggerSearch
=============================================================================
