------------------------------- MODULE Viewer -------------------------------
(***************************************************************************)
(* The page of the viewer (viewer/app/page.tsx) over the reporting tree,   *)
(* while evaluate.py may rewrite the source it evaluates.  The results are *)
(* fetched once, a model configuration for each source chosen, details and *)
(* frames for each sequence selected.  Fetches are not cancelled, and      *)
(* their answers come in any order or not at all.                          *)
(*                                                                         *)
(* What is derived from the state of the page during a render is an        *)
(* operator on it; Rendered is what a change of state sets off.  The       *)
(* deferred threshold of the table is taken as caught up.                  *)
(***************************************************************************)
EXTENDS Evaluate

CONSTANTS
  Source,      \* the sources, in the order the picker lists them
  Standing,    \* Standing[s]: the tree of a source nobody rewrites
  Thresholds,  \* bound: where the slider is moved to
  Picked,      \* bound: the outcomes, labels and verdicts picked in the filter bar
  MaxClicks    \* bound: what the user does

ASSUME ViewerAssumption ==
  /\ Thresholds \subseteq Nat /\ MaxClicks \in Nat
  /\ Source \in Seq(Range(Source)) /\ "none" \notin Range(Source)
  /\ Evaluated \in Range(Source) /\ DOMAIN Standing = Range(Source) \ {Evaluated}

VARIABLES
  page,    \* the state of the page
  asked,   \* fetches on their way, oldest first
  clicks,
  newest,  \* history: what became of the newest fetch of a kind
  moved,   \* history: the slider was moved since the default threshold last changed
  early    \* history: a filter was set before there were rows

browser == <<page, asked, clicks, newest, moved, early>>
vars == <<evaluation, browser>>

None == "none"
NoConfig == [source |-> None, run |-> 0, aggregation |-> None, threshold |-> Null, triage |-> Null]
NoPanel  == [source |-> None, key |-> None, details |-> Missing, view |-> Missing]

\* The routes of viewer/app/api; a file that does not parse is no file.  Only a logistic
\* model has a logistic_threshold.
Files(s) == IF s = Evaluated THEN tree ELSE Standing[s]
Parsed(file) == IF file = Cut THEN Missing ELSE file
SourcesRoute == Among(Source, {s \in Range(Source) : Files(s).results # Missing})
ResultsRoute ==
  FlattenSeq([i \in DOMAIN Source |->
    LET results == Parsed(Files(Source[i]).results)
    IN  IF results = Missing THEN <<>> ELSE results.rows])
ConfigOf(s, file) ==
  LET config == Parsed(file)
  IN  IF config = Missing THEN [NoConfig EXCEPT !.source = s]
      ELSE [source |-> s, run |-> config.run, aggregation |-> config.is.aggregation,
            threshold |-> IF config.is.aggregation = "logistic" THEN config.is.threshold ELSE Null,
            triage |-> config.is.triage]
ConfigRoute(s) == ConfigOf(s, Files(s).config)
SequenceRoute(s, k) ==
  [source |-> s, key |-> k,
   details |-> Parsed(Files(s).details[k]), view |-> Parsed(Files(s).views[k])]
-----------------------------------------------------------------------------
\* defaultThr: the triage threshold, else the model's, else DEFAULT_LOGISTIC_THRESHOLD.
DefaultLogisticThreshold == 50
DefaultThr(cfg) ==
  IF cfg.triage # Null THEN cfg.triage
  ELSE IF cfg.threshold # Null THEN cfg.threshold ELSE DefaultLogisticThreshold

\* What nobody rewrites was left by evaluate.py or by temporal-triage score: the rows are of
\* one kind, and beside the configuration of their own run they have their files, and the
\* verdicts of a triage or of a logistic model are those of its threshold.
ASSUME StandingAssumption ==
  \A s \in DOMAIN Standing : Parsed(Standing[s].results) # Missing =>
    LET wrote == Standing[s].results.rows
        cfg   == ConfigOf(s, Standing[s].config)
    IN  /\ wrote \in Seq(Range(wrote))
        /\ \A row, other \in Range(wrote) : row.mode = other.mode
        /\ \A row \in Range(wrote) :
             /\ IsRow(row) /\ row.source = s
             /\ {Standing[s].results.run, Standing[s].config.run} = {row.run} =>
                  /\ Standing[s].details[row.key] = [run |-> row.run, key |-> row.key]
                  /\ Standing[s].views[row.key] = [run |-> row.run, key |-> row.key]
             /\ row.run = cfg.run /\ (row.mode = "triage" \/ cfg.aggregation = "logistic") =>
                  /\ row.decision = Decision(row.probability # Null /\ row.probability >= DefaultThr(cfg))
                  /\ row.outcome = ComputeOutcome(row.decision, row.label)

SourceRows(p) == Among(p.rows, {r \in Range(p.rows) : r.source = p.source})
InMode(p, mode) == \E i \in DOMAIN p.rows : p.rows[i].source = p.source /\ p.rows[i].mode = mode
Breakdown(p) == InMode(p, "monitor") \/ InMode(p, "triage")
ShowSlider(p) ==
  /\ ~InMode(p, "monitor")
  /\ InMode(p, "triage") \/ p.cfg.aggregation = "logistic"
  /\ \E i \in DOMAIN p.rows : p.rows[i].source = p.source /\ p.rows[i].probability # Null

Rows(p) == IF ShowSlider(p) THEN ApplyThreshold(SourceRows(p), p.threshold) ELSE SourceRows(p)
TableRows(p) == SortRows(ApplyFilters(Rows(p), p.filters), p.sort)
Cameras(p) ==
  CameraOptions({r \in Range(SourceRows(p)) : p.filters.organization \in {All, r.organization}})

\* selected: the user's pick while the table shows it, else the first row.
Selected(p) ==
  LET table == TableRows(p) IN
  IF table = <<>> THEN None
  ELSE IF \E i \in DOMAIN table : table[i].key = p.key THEN p.key ELSE table[1].key

Settled_Kept(p) ==   \* variant: a new default is noted, the threshold stays
  [p EXCEPT !.default = DefaultThr(p.cfg)]
\* During a render: a default that changed resets the threshold.
Settled(p) ==
  IF DefaultThr(p.cfg) = p.default THEN p
  ELSE [p EXCEPT !.default = DefaultThr(p.cfg), !.threshold = DefaultThr(p.cfg)]

ConfigFetch(p, q) ==
  IF q.source # p.source THEN <<[kind |-> "config", source |-> q.source, key |-> None]>> ELSE <<>>
SequenceFetch_KeyOnly(p, q) ==   \* variant: the effect does not depend on the source
  LET before == Selected(p)
      after  == Selected(q)
  IN  IF after \notin {None, before}
      THEN <<[kind |-> "sequence", source |-> q.source, key |-> after]>> ELSE <<>>
SequenceFetch(p, q) ==
  LET before == Selected(p)
      after  == Selected(q)
  IN  IF after # None /\ <<q.source, after>> # <<p.source, before>>
      THEN <<[kind |-> "sequence", source |-> q.source, key |-> after]>> ELSE <<>>
\* The effects on [source] and on [source, selected].
Fetches(p, q) == ConfigFetch(p, q) \o SequenceFetch(p, q)

\* The page becomes p and renders; outstanding are the fetches still on their way and
\* fate what became of the newest ones.
Rendered(p, outstanding, fate) ==
  LET q     == Settled(p)
      sent  == Fetches(page, q)
      kinds == {sent[i].kind : i \in DOMAIN sent}
  IN  /\ page' = q
      /\ asked' = outstanding \o sent
      /\ newest' = [k \in DOMAIN fate |-> IF k \in kinds THEN "pending" ELSE fate[k]]
-----------------------------------------------------------------------------
ViewerInit ==
  /\ page = [sources |-> <<>>, source |-> None, rows |-> <<>>, cfg |-> NoConfig,
             key |-> None, panel |-> NoPanel,
             threshold |-> DefaultLogisticThreshold, default |-> DefaultLogisticThreshold,
             filters |-> DefaultFilters, sort |-> None]
  /\ asked = <<[kind |-> "sources", source |-> None, key |-> None],
               [kind |-> "results", source |-> None, key |-> None]>>
  /\ clicks = 0
  /\ newest = [k \in {"sources", "results", "config", "sequence"} |-> "pending"]
  /\ moved = FALSE /\ early = FALSE

Init == EvaluateInit /\ ViewerInit

\* A filter reset comes with every change of the source.
WithSource(p, s) ==
  IF s = p.source THEN p ELSE [p EXCEPT !.source = s, !.filters = DefaultFilters]

\* What the answer to a fetch sets.
Applied(r) ==
  CASE r.kind = "sources" ->
         LET found == SourcesRoute
             first == IF found = <<>> THEN None ELSE found[1]
         IN  WithSource([page EXCEPT !.sources = found],
                        IF page.source = None THEN first ELSE page.source)
    [] r.kind = "results" -> [page EXCEPT !.rows = ResultsRoute]
    [] r.kind = "config"  -> [page EXCEPT !.cfg = ConfigRoute(r.source)]
    [] OTHER              -> [page EXCEPT !.panel = SequenceRoute(r.source, r.key)]

IsNewest(i) ==
  /\ newest[asked[i].kind] = "pending"
  /\ \A j \in DOMAIN asked : asked[j].kind = asked[i].kind => j <= i

Answer(i) ==
  /\ LET kind == asked[i].kind
         fate == IF IsNewest(i) THEN "applied"
                 ELSE IF newest[kind] = "pending" THEN "pending" ELSE "overwritten"
         p    == Applied(asked[i])
     IN  /\ Rendered(p, RemoveAt(asked, i), [newest EXCEPT ![kind] = fate])
         /\ moved' = (moved /\ DefaultThr(p.cfg) = page.default)
  /\ UNCHANGED <<evaluation, clicks, early>>

\* getJSON throws and nothing is set.
Lose(i) ==
  /\ asked' = RemoveAt(asked, i)
  /\ newest' = [newest EXCEPT ![asked[i].kind] = IF IsNewest(i) THEN "lost" ELSE @]
  /\ UNCHANGED <<evaluation, page, clicks, moved, early>>

Click(p) ==
  /\ clicks < MaxClicks
  /\ clicks' = clicks + 1
  /\ p # page
  /\ Rendered(p, asked, newest)
  /\ UNCHANGED evaluation

ChooseSource ==
  /\ Len(page.sources) > 1
  /\ \E s \in Range(page.sources) : Click(WithSource(page, s))
  /\ UNCHANGED <<moved, early>>

Select ==
  /\ \E row \in Range(TableRows(page)) : Click([page EXCEPT !.key = row.key])
  /\ UNCHANGED <<moved, early>>

MoveSlider ==
  /\ ShowSlider(page)
  /\ \E t \in Thresholds : Click([page EXCEPT !.threshold = t])
  /\ moved' = TRUE
  /\ UNCHANGED early

ResetSlider ==
  /\ ShowSlider(page)
  /\ Click([page EXCEPT !.threshold = page.default])
  /\ moved' = FALSE
  /\ UNCHANGED early

Filtered(f) ==
  /\ Click([page EXCEPT !.filters = f])
  /\ early' = (early \/ page.rows = <<>>)
  /\ UNCHANGED moved

ByOrganization_Camera(o) ==   \* variant: the camera stays
  Filtered([page.filters EXCEPT !.organization = o])
\* From the filter bar, or from a card of the rail.
ByOrganization(o) == Filtered([page.filters EXCEPT !.organization = o, !.camera = All])

\* The filters the bar has in this mode.
Filter ==
  \/ /\ ~Breakdown(page)
     /\ \/ \E o \in Picked \cap Outcome :
             Filtered([page.filters EXCEPT !.outcomes = IF o \in @ THEN @ \ {o} ELSE @ \cup {o}])
        \/ \E l \in {All} \cup (Picked \cap {"smoke", "fp", "unknown"}) : Filtered([page.filters EXCEPT !.label = l])
  \/ Breakdown(page) /\ \E o \in {All} \cup OrganizationOptions(Range(SourceRows(page))) : ByOrganization(o)
  \/ \E v \in {All} \cup (Picked \cap {"keep", "discard"}) : Filtered([page.filters EXCEPT !.verdict = v])
  \/ \E c \in {All} \cup Cameras(page) : Filtered([page.filters EXCEPT !.camera = c])

Sort ==
  /\ Click([page EXCEPT !.sort = NextSort(page.sort)])
  /\ UNCHANGED <<moved, early>>

Next ==
  \/ Evaluation /\ UNCHANGED browser
  \/ \E i \in DOMAIN asked : Answer(i) \/ Lose(i)
  \/ ChooseSource
  \/ Select
  \/ MoveSlider
  \/ ResetSlider
  \/ Filter
  \/ Sort

Spec == Init /\ [][Next]_vars
-----------------------------------------------------------------------------
\* Once the newest fetch of a sequence is answered, and until an older answer comes in, the
\* panel is of the selected row.  An older answer may put another sequence there, but in any
\* order of answers what it shows is one sequence whole: if no evaluation began since its row
\* was written, its details and its frames are those of the run that wrote the row.
PanelOfTheRow ==
  LET panel == page.panel
      k     == Selected(page)
  IN  /\ newest["sequence"] = "applied" /\ k # None => panel.source = page.source /\ panel.key = k
      /\ \A row \in Range(page.rows) :
           LET files == Files(row.source) IN
           row.source = panel.source /\ row.key = panel.key
             /\ {files.results.run, files.config.run} = {row.run}
           => panel.details = [run |-> row.run, key |-> row.key]
              /\ panel.view = [run |-> row.run, key |-> row.key]

\* The configuration is that of the source once its newest fetch is answered.  Until the
\* user moves the slider, a source beside the configuration of its own run is shown with
\* the verdicts the run recorded, though the page decides every row again.
VerdictsOfTheRun ==
  /\ newest["config"] = "applied" => page.cfg.source = page.source
  /\ ~moved /\ page.cfg.source = page.source
       /\ (\A row \in Range(SourceRows(page)) : row.run = page.cfg.run)
     => Rows(page) = SourceRows(page)

\* No filter hides rows unseen: the camera and the organization are among those offered,
\* and a filter the bar does not show in this mode is off, unless it was set while the
\* page had no rows to tell the mode from.
FiltersVisible ==
  ~early =>
    /\ page.filters.camera \in {All} \cup Cameras(page)
    /\ page.filters.organization \in {All} \cup OrganizationOptions(Range(SourceRows(page)))
    /\ IF Breakdown(page)
       THEN page.filters.outcomes = Outcome /\ page.filters.label = All
       ELSE page.filters.organization = All
=============================================================================
