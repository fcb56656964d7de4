------------------------------ MODULE Evaluate ------------------------------
(***************************************************************************)
(* evaluate.py over one source: every sequence is scored with the packaged *)
(* model, its details and its view are written at once, and the metrics    *)
(* and the table of results at the end.  Any exception aborts the run, and *)
(* what it wrote stays.  DVC removes the outputs before it runs the stage; *)
(* run by hand, evaluate.py writes over those of the run before.           *)
(*                                                                         *)
(* Each run evaluates a model of its own.  A file holds, beside its        *)
(* content, the run that wrote it.                                         *)
(***************************************************************************)
EXTENDS Outcomes

CONSTANTS
  Evaluated,    \* --source
  Sequences,    \* the sequences of the source, in the order they are listed
  Label,        \* Label[k], of a key: "smoke", "fp" or "unknown" (--store)
  Camera,       \* Camera[k], from meta.json
  NoImages,     \* the sequences without a frame
  Tubes,        \* Tubes[run][k]: logit and probability of each kept tube
  Trigger,      \* Trigger[run][k]: trigger_frame_index when positive
  Config,       \* Config[run]: the aggregation and threshold of the model's package
  MaxRuns       \* bound: evaluations

ASSUME EvaluateAssumption ==
  /\ MaxRuns \in Nat
  /\ Sequences \in Seq(Range(Sequences))
  /\ \A r \in 1..MaxRuns :
       /\ Config[r].aggregation \in {"logistic", "max_logit"}
       /\ Config[r].threshold \in Nat /\ Config[r].triage = Null
       /\ \A k \in Range(Sequences) : Tubes[r][k] \in Seq([logit : Nat, probability : Nat])

VARIABLES
  run,      \* evaluations started
  stage,    \* "idle", or what the run writes next
  todo,     \* the sequences left
  rows,     \* result_rows
  records,
  tree      \* the files: config, details, views, metrics, results

evaluation == <<run, stage, todo, rows, records, tree>>

Missing == [run |-> 0]   \* no such file
Cut     == [run |-> -1]  \* one that does not parse
NoTree ==
  [config |-> Missing, metrics |-> Missing, results |-> Missing,
   details |-> [k \in Range(Sequences) |-> Missing],
   views |-> [k \in Range(Sequences) |-> Missing]]

\* make_decision_fn: one tube over the threshold of the aggregation suffices.
Positive(r, k) ==
  \E i \in DOMAIN Tubes[r][k] :
    IF Config[r].aggregation = "logistic"
    THEN Tubes[r][k][i].probability >= Config[r].threshold
    ELSE Tubes[r][k][i].logit >= Config[r].threshold

Best(values) == IF values = {} THEN Null ELSE Max(values)
\* max_probability
MaxProbability(tubes) == Best({tubes[i].probability : i \in DOMAIN tubes})
Score(tubes) == Best({tubes[i].logit : i \in DOMAIN tubes})

\* A row of results.json.
Row(r, k) ==
  [key |-> k, source |-> Evaluated, run |-> r, mode |-> "eval",
   label |-> Label[k],
   decision |-> Decision(Positive(r, k)),
   outcome |-> ComputeOutcome(Decision(Positive(r, k)), Label[k]),
   probability |-> MaxProbability(Tubes[r][k]),
   camera |-> Camera[k], organization |-> "none"]

\* build_record
Record(r, k) ==
  [label |-> Label[k], positive |-> Positive(r, k), score |-> Score(Tubes[r][k]),
   ttd |-> IF Label[k] = "smoke" /\ Positive(r, k) THEN Trigger[r][k] ELSE Null]
-----------------------------------------------------------------------------
EvaluateInit ==
  /\ run = 0 /\ stage = "idle"
  /\ todo = <<>> /\ rows = <<>> /\ records = <<>>
  /\ tree = NoTree

\* The model is loaded and its configuration written.
Start(clean) ==
  /\ stage = "idle" /\ run < MaxRuns
  /\ run' = run + 1
  /\ stage' = "sequences"
  /\ todo' = Sequences
  /\ rows' = <<>> /\ records' = <<>>
  /\ tree' = [(IF clean THEN NoTree ELSE tree) EXCEPT !.config = [run |-> run', is |-> Config[run']]]

\* Sequences without images are dropped on the way to the next one that has some.
Drop ==
  /\ stage = "sequences" /\ todo # <<>> /\ Head(todo) \in NoImages
  /\ todo' = Tail(todo)
  /\ UNCHANGED <<run, stage, rows, records, tree>>

\* One sequence is predicted and recorded if it is labelled; its details are written, then
\* write_sequence_view its view, and its row is kept.
EvaluateSequence ==
  /\ stage = "sequences" /\ todo # <<>> /\ Head(todo) \notin NoImages
  /\ LET k == Head(todo) IN
     /\ records' = IF Label[k] \in {"smoke", "fp"} THEN Append(records, Record(run, k)) ELSE records
     /\ rows' = Append(rows, Row(run, k))
     /\ tree' = [tree EXCEPT !.details[k] = [run |-> run, key |-> k],
                             !.views[k] = [run |-> run, key |-> k]]
  /\ todo' = Tail(todo)
  /\ UNCHANGED <<run, stage>>

\* metrics.json, before the predictions and the plots.
WriteMetrics ==
  /\ stage = "sequences" /\ todo = <<>>
  /\ tree' = [tree EXCEPT !.metrics = [run |-> run, is |-> Metrics(records)]]
  /\ stage' = "results"
  /\ UNCHANGED <<run, todo, rows, records>>

\* results.json is the last file.
WriteResults ==
  /\ stage = "results"
  /\ tree' = [tree EXCEPT !.results = [run |-> run, rows |-> rows]]
  /\ stage' = "idle"
  /\ UNCHANGED <<run, todo, rows, records>>

\* An exception or a kill: of the two files of a sequence none, the first or the first
\* cut off is left, and the results cut off or as they were.
Abort ==
  /\ stage # "idle"
  /\ stage' = "idle"
  /\ \/ UNCHANGED tree
     \/ /\ stage = "sequences" /\ todo # <<>> /\ Head(todo) \notin NoImages
        /\ \E left \in {[run |-> run, key |-> Head(todo)], Cut} :
             tree' = [tree EXCEPT !.details[Head(todo)] = left]
     \/ stage = "results" /\ tree' = [tree EXCEPT !.results = Cut]
  /\ UNCHANGED <<run, todo, rows, records>>

Evaluation ==
  \/ \E clean \in BOOLEAN : Start(clean)
  \/ Drop
  \/ EvaluateSequence
  \/ WriteMetrics
  \/ WriteResults
  \/ Abort
-----------------------------------------------------------------------------
Finished == stage = "idle" /\ tree.results.run = run /\ run > 0

\* The two accounts of a run agree: the confusion counts of metrics.json, taken from the
\* records, are those a viewer counts in the outcomes of results.json, unlabelled rows or
\* not; an alert within k frames is one of the detections; and when the model decides by
\* its score, the best threshold for 95 % of the smoke is no worse than its own.
MetricsAgree ==
  Finished =>
    LET m == tree.metrics.is IN
    /\ tree.metrics.run = run
    /\ [c \in {"tp", "fn", "fp", "tn"} |-> m[c]] = PerformanceSummary(tree.results.rows)
    /\ \A k \in DOMAIN m.within : m.within[k] <= m.tp
    /\ Config[run].aggregation = "max_logit" /\ m.tp > 0 /\ 100 * m.tp >= 95 * (m.tp + m.fn)
         /\ m.fp + m.tn > 0
       => m.fprAtRecall # Null /\ m.fprAtRecall <= m.fp
=============================================================================
