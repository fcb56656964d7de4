------------------------------ MODULE MCViewer ------------------------------
(***************************************************************************)
(* Viewer on two sources that share a sequence name: "test", evaluated     *)
(* twice, first by a model that decides by probability, then by one that   *)
(* decides by logit; and a triage of two organizations, whose threshold is *)
(* not its model's.                                                        *)
(***************************************************************************)
EXTENDS Viewer

MCSequences == <<"a", "b", "c", "d">>
MCLabel  == [k \in {"a", "b", "c", "d"} |->
               CASE k = "a" -> "smoke" [] k = "b" -> "fp" [] OTHER -> "unknown"]
MCCamera == [k \in {"a", "b", "c", "d"} |-> IF k = "c" THEN "north" ELSE "none"]

MCSource == <<"test", "triage">>

Tube(l, p) == [logit |-> l, probability |-> p]
MCTubes ==
  <<[k \in {"a", "b", "c", "d"} |->
       CASE k = "a" -> <<Tube(1, 20), Tube(2, 70)>> [] k = "b" -> <<Tube(3, 40)>>
         [] OTHER -> <<>>],
    [k \in {"a", "b", "c", "d"} |->
       CASE k = "a" -> <<Tube(6, 30)>> [] k = "b" -> <<Tube(4, 60)>>
         [] k = "c" -> <<Tube(7, 90)>> [] OTHER -> <<>>]>>
MCTrigger == <<[k \in {"a", "b", "c", "d"} |-> 4], [k \in {"a", "b", "c", "d"} |-> 2]>>
MCConfig ==
  <<[aggregation |-> "logistic", threshold |-> 50, triage |-> Null],
    [aggregation |-> "max_logit", threshold |-> 5, triage |-> Null]>>

TriageRow(k, p, c, o) ==
  [key |-> k, source |-> "triage", run |-> 9, mode |-> "triage", label |-> "unknown",
   decision |-> Decision(p >= 35), outcome |-> "n/a", probability |-> p,
   camera |-> c, organization |-> o]
MCStanding ==
  [s \in {"triage"} |->
     [config |-> [run |-> 9, is |-> [aggregation |-> "logistic", threshold |-> 50, triage |-> 35]],
      metrics |-> Missing,
      results |-> [run |-> 9, rows |-> <<TriageRow("a", 40, "east", "fire"),
                                         TriageRow("e", 10, "west", "park")>>],
      details |-> [k \in {"a", "e"} |-> [run |-> 9, key |-> k]],
      views |-> [k \in {"a", "e"} |-> [run |-> 9, key |-> k]]]]

\* Bounds: the first evaluation ends, and then the page is opened; the newest fetch is lost
\* of one kind at a time, before the user does anything.
Opened ==
  LET lost == Cardinality({k \in DOMAIN newest : newest[k] = "lost"}) IN
  /\ run = 1 /\ stage = "idle" => Finished
  /\ run < 2 /\ ~Finished => Len(asked) = 2
  /\ lost = 0 \/ (lost = 1 /\ clicks = 0)
=============================================================================
