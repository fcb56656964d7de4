------------------------------ MODULE Outcomes ------------------------------
(***************************************************************************)
(* Verdicts, rows and metrics, as the evaluation writes them               *)
(* (eval/outcomes.py, eval/protocol_eval.py) and as both viewers read them *)
(* (eval/app.py, viewer/lib/outcomes.ts, filters.ts, sort.ts).  Thresholds *)
(* and probabilities are integers; Null is a missing one.                  *)
(*                                                                         *)
(***************************************************************************)
EXTENDS Integers, Sequences, FiniteSetsExt, SequencesExt

\* A row of results.json has these fields.
IsRow(r) ==
  r = [key |-> r.key, source |-> r.source, run |-> r.run, mode |-> r.mode, label |-> r.label,
       decision |-> r.decision, outcome |-> r.outcome, probability |-> r.probability,
       camera |-> r.camera, organization |-> r.organization]

Null == -1
Outcome == {"kept-smoke", "discarded-smoke", "kept-fp", "discarded-fp", "n/a"}

Decision(positive) == IF positive THEN "keep" ELSE "discard"

ComputeOutcome(decision, label) ==
  CASE label = "smoke" -> IF decision = "keep" THEN "kept-smoke" ELSE "discarded-smoke"
    [] label = "fp"    -> IF decision = "keep" THEN "kept-fp" ELSE "discarded-fp"
    [] OTHER           -> "n/a"

\* apply_threshold: every row decided again from its probability.
ApplyThreshold(rows, threshold) ==
  LET decision(r) == Decision(r.probability # Null /\ r.probability >= threshold)
  IN  [i \in DOMAIN rows |->
         [rows[i] EXCEPT !.decision = decision(rows[i]),
                         !.outcome  = ComputeOutcome(decision(rows[i]), rows[i].label)]]

\* performance_summary: from the outcomes of the labelled rows.
PerformanceSummary(rows) ==
  LET n(o) == Cardinality({i \in DOMAIN rows : rows[i].label \in {"smoke", "fp"} /\ rows[i].outcome = o})
  IN  [tp |-> n("kept-smoke"), fn |-> n("discarded-smoke"),
       fp |-> n("kept-fp"), tn |-> n("discarded-fp")]
-----------------------------------------------------------------------------
\* A record is built for labelled sequences: label, positive, score, ttd.

\* fpr_at_recall: the fewest false positives over the thresholds, each the score of a
\* smoke sequence, that find the target share of the smoke; Null if there is none.
FprAtRecall_Strict(records, percent) ==   \* variant: a score equal to the threshold is negative
  LET of(label) == {i \in DOMAIN records : records[i].label = label}
      above(label, t) == Cardinality({i \in of(label) : records[i].score > t})
      reaching == {t \in {records[i].score : i \in of("smoke")} \ {Null} :
                     100 * above("smoke", t) >= percent * Cardinality(of("smoke"))}
  IN  IF of("smoke") = {} \/ of("fp") = {} \/ reaching = {} THEN Null
      ELSE Min({above("fp", t) : t \in reaching})
FprAtRecall(records, percent) ==
  LET of(label) == {i \in DOMAIN records : records[i].label = label}
      above(label, t) == Cardinality({i \in of(label) : records[i].score >= t})
      reaching == {t \in {records[i].score : i \in of("smoke")} \ {Null} :
                     100 * above("smoke", t) >= percent * Cardinality(of("smoke"))}
  IN  IF of("smoke") = {} \/ of("fp") = {} \/ reaching = {} THEN Null
      ELSE Min({above("fp", t) : t \in reaching})

\* detected_within_frames, for one k.
DetectedWithin(records, k) ==
  Cardinality({i \in DOMAIN records : LET r == records[i]
                                      IN  r.label = "smoke" /\ r.ttd # Null /\ r.ttd < k})

\* compute_metrics, in counts.
Metrics(records) ==
  LET n(label, positive) == Cardinality({i \in DOMAIN records : /\ records[i].label = label
                                                                /\ records[i].positive = positive})
  IN  [tp |-> n("smoke", TRUE), fn |-> n("smoke", FALSE),
       fp |-> n("fp", TRUE), tn |-> n("fp", FALSE),
       fprAtRecall |-> FprAtRecall(records, 95),
       within |-> [k \in {2, 3, 5} |-> DetectedWithin(records, k)]]
-----------------------------------------------------------------------------
All == "all"
DefaultFilters ==
  [outcomes |-> Outcome, label |-> All, verdict |-> All, camera |-> All, organization |-> All]

\* The rows that are kept, in their order.
Among(rows, kept) ==
  LET among[n \in 0..Len(rows)] ==
        IF n = 0 THEN <<>>
        ELSE IF rows[n] \in kept THEN Append(among[n - 1], rows[n]) ELSE among[n - 1]
  IN  among[Len(rows)]

ApplyFilters(rows, f) ==
  Among(rows, {r \in Range(rows) :
    /\ r.outcome \in f.outcomes
    /\ f.label \in {All, r.label}
    /\ f.verdict \in {All, r.decision}
    /\ f.camera \in {All, r.camera}
    /\ f.organization \in {All, r.organization}})

CameraOptions(rows) == {r.camera : r \in rows} \ {"none"}
OrganizationOptions(rows) == {r.organization : r \in rows} \ {"none"}

\* sortRows by probability: stable, and rows without one come last in both directions.
SortRows(rows, sort) ==
  LET before(a, b) ==
        /\ rows[a].probability # Null
        /\ \/ rows[b].probability = Null
           \/ sort = "asc" /\ rows[a].probability < rows[b].probability
           \/ sort = "desc" /\ rows[a].probability > rows[b].probability
      place == SortSeq([i \in DOMAIN rows |-> i], LAMBDA a, b : before(a, b) \/ (~before(b, a) /\ a < b))
  IN  IF sort = "none" THEN rows ELSE [i \in DOMAIN rows |-> rows[place[i]]]

\* nextSort
NextSort(sort) == IF sort = "desc" THEN "asc" ELSE "desc"
=============================================================================
