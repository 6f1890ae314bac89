---------------------------- MODULE RunOverview ----------------------------
(***************************************************************************)
(* What eval/mod.rs and eval/store.rs derive from evaluation runs when     *)
(* they are read: a run's summary beside the run before it, the list of    *)
(* runs, and what the samples are made of.  The rows are those that        *)
(* EvalRunner writes.  What may be absent is a set of at most one value.   *)
(***************************************************************************)
EXTENDS Integers, SequencesExt

CONSTANTS Like(_, _),        \* does a text match a search
          Matches(_, _)      \* compare.rs: is an output its reference

(* Rows of the tables; runs are listed with the newest first *)
Run(Ids, Langs) ==
  [id : Ids, started : Nat, language : SUBSET Langs, note : SUBSET Langs,
   status : {"running", "completed", "cancelled", "failed"},
   maxLoaded : Int, floor : Nat, available : Nat]
RunModel(Models) == [model : Models, resident : Nat, failed : BOOLEAN]
Result(Clips, Models, Texts) ==
  [clip : Clips, model : Models, text : Texts, failed : BOOLEAN, ms : Nat]
Sample(Texts, Devices) == [reference : Texts, duration : Nat, device : SUBSET Devices]
Judgement(Clips, Texts) == [clip : Clips, text : Texts, correct : BOOLEAN]

Limited(s, n) == IF n < 0 \/ n > Len(s) THEN s ELSE SubSeq(s, 1, n)
ListRuns(runs, limit) == Limited(runs, limit)
LatestRun(runs) == ListRuns(runs, 1)

(* list_results, by text, device and page; results are kept in its order *)
Select(p, wanted) == \A x \in wanted : p = x
ListResults(results, samples, f) ==
  LET asked(r) ==
        /\ r.clip \in DOMAIN samples
        /\ Select(r.clip, f.clip) /\ Select(r.model, f.model)
        /\ \A d \in f.device : d \in samples[r.clip].device
        /\ \A t \in f.text : Like(t, r.text) \/ Like(t, samples[r.clip].reference)
      all == SelectSeq(results, asked)
  IN Limited(SubSeq(all, f.offset + 1, Len(all)), f.limit)

(* compare::verdict over what both the grid and the summary look up *)
Rulings(j, r) == {k.correct : k \in {i \in j : i.clip = r.clip /\ i.text = r.text}}
MatchesReference(r, samples) ==
  r.clip \in DOMAIN samples /\ Matches(r.text, samples[r.clip].reference)
Correct(r, samples, j) ==
  IF Rulings(j, r) # {} THEN Rulings(j, r) = {TRUE} ELSE MatchesReference(r, samples)
ResultView(r, samples, j) ==
  [result |-> r, matches |-> MatchesReference(r, samples), ruling |-> Rulings(j, r)]

-----------------------------------------------------------------------------
(* The baseline: the newest completed run before this one with the same hint;
   and those that another hint rules out *)
Before(runs, run) ==
  SelectSeq(ListRuns(runs, 50), LAMBDA r : r.id # run.id /\ r.started <= run.started)
Baseline(runs, run) ==
  Limited(SelectSeq(Before(runs, run),
                    LAMBDA r : r.status = "completed" /\ r.language = run.language), 1)
SkippedBaselines(runs, run) ==
  Len(SelectSeq(Before(runs, run),
                LAMBDA r : r.status = "completed" /\ r.language # run.language))

ClipsIn(results) == {results[i].clip : i \in DOMAIN results}
ComparedSamples(results, previous) == ClipsIn(results) \cap ClipsIn(previous)
Changed(mine, previous) ==
  Len(SelectSeq(mine, LAMBDA r : \E i \in DOMAIN previous :
        /\ previous[i].clip = r.clip /\ previous[i].model = r.model
        /\ previous[i].text # r.text))

(* The lower of two middles: one that was measured *)
Median(sorted) == IF sorted = <<>> THEN {} ELSE {sorted[(Len(sorted) - 1) \div 2 + 1]}
Ascending(s) == SortSeq(s, LAMBDA a, b : a < b)

(* Memory: a candidate beside the largest of the others that a setting allows *)
Add(a, b) == a + b
Others(models) ==
  LET loaded == SelectSeq(models, LAMBDA m : ~m.failed)
  IN SortSeq([i \in DOMAIN loaded |-> loaded[i].resident], LAMBDA a, b : a > b)
Share(run) == IF run.maxLoaded > 1 THEN run.maxLoaded - 1 ELSE 0
CoexistBytes(run, models, m) ==
  run.floor + m.resident
    + FoldLeft(Add, 0, Limited(RemoveFirst(Others(models), m.resident), Share(run)))
FitsAlongside(run, models, m) ==
  IF run.available > 0 THEN {CoexistBytes(run, models, m) <= run.available} ELSE {}

(* Real-time factors are compared as ratios, and count failed results too *)
Rtf(mine, samples) ==
  LET timed == SelectSeq(mine, LAMBDA r : r.clip \in DOMAIN samples /\ samples[r.clip].duration > 0)
  IN SortSeq([i \in DOMAIN timed |-> <<timed[i].ms, samples[timed[i].clip].duration>>],
             LAMBDA a, b : a[1] * b[2] < b[1] * a[2])

ModelSummary(run, models, m, results, samples, j, previous) ==
  LET mine   == SelectSeq(results, LAMBDA r : r.model = m.model)
      scored == SelectSeq(mine, LAMBDA r : ~r.failed)
      right  == SelectSeq(scored, LAMBDA r : Correct(r, samples, j))
      infer  == Ascending([i \in DOMAIN scored |-> scored[i].ms])
  IN [model |-> m.model, failed |-> m.failed, resident |-> m.resident,
      coexist |-> CoexistBytes(run, models, m), fits |-> FitsAlongside(run, models, m),
      results |-> Len(mine), scored |-> Len(scored), correct |-> Len(right),
      unchecked |-> Len(SelectSeq(right, LAMBDA r : Rulings(j, r) = {})),
      median |-> Median(infer),
      max |-> IF infer = <<>> THEN {} ELSE {infer[Len(infer)]},
      rtf |-> Median(Rtf(mine, samples)),
      changed |-> {Changed(mine, p) : p \in previous}]

Whole == [clip |-> {}, model |-> {}, text |-> {}, device |-> {}, limit |-> 2000, offset |-> 0]
SummariseRun(run, runs, models, resultsOf, samples, j) ==
  LET results  == ListResults(resultsOf[run.id], samples, Whole)
      base     == Baseline(runs, run)
      previous == {ListResults(resultsOf[base[i].id], samples, Whole) : i \in DOMAIN base}
  IN [run |-> run, previous |-> {base[i].id : i \in DOMAIN base},
      samples |-> Cardinality(ClipsIn(results)),
      compared |-> Cardinality(UNION {ComparedSamples(results, p) : p \in previous}),
      skipped |-> SkippedBaselines(runs, run),
      models |-> [i \in DOMAIN models |->
                    ModelSummary(run, models, models[i], results, samples, j, previous)]]

-----------------------------------------------------------------------------
(* runs_matching_text: across everything a run is made of *)
RunMatches(run, models, covered, results, samples, t) ==
  \/ \E x \in run.note \cup run.language : Like(t, x)
  \/ \E i \in DOMAIN models : Like(t, models[i].model)
  \/ \E c \in covered \cap DOMAIN samples : Like(t, samples[c].reference)
  \/ \E i \in DOMAIN results :
       /\ results[i].clip \in DOMAIN samples
       /\ Like(t, results[i].text) \/ Like(t, samples[results[i].clip].reference)

(* list_run_entries: the newest runs first, the search among them after;
   matching[t] is the runs of which RunMatches holds for t *)
ListRunEntries(runs, limit, text, matching) ==
  SelectSeq(ListRuns(runs, limit), LAMBDA r : \A t \in text : r.id \in matching[t])

(* run_aggregates: what a run covers is what it selected, once it has a result *)
SampleCount(results, covered) ==
  IF results = <<>> THEN 0
  ELSE IF covered # {} THEN Cardinality(covered) ELSE Cardinality(ClipsIn(results))

(* model_history: a model in each of the newest runs that had it *)
ModelHistory(runs, summary, model) ==
  LET had(r) == \E i \in DOMAIN summary[r.id].models : summary[r.id].models[i].model = model
  IN SelectSeq(ListRuns(runs, 50), had)

(* list_sample_entries: what deleting a sample would take along *)
Usage(resultsOf, c) ==
  [runs    |-> Cardinality({r \in DOMAIN resultsOf : c \in ClipsIn(resultsOf[r])}),
   results |-> SumFunction([r \in DOMAIN resultsOf |->
                 Len(SelectSeq(resultsOf[r], LAMBDA x : x.clip = c))])]

(* composition: samples by capture device, the commonest first *)
Composition(samples, j, unknown) ==
  LET device(c) == IF samples[c].device = {} THEN unknown ELSE CHOOSE d \in samples[c].device : TRUE
      count(d)  == Cardinality({c \in DOMAIN samples : device(c) = d})
      counts    == {[device |-> d, count |-> count(d)] : d \in {device(c) : c \in DOMAIN samples}}
  IN [total |-> Cardinality(DOMAIN samples),
      duration |-> SumFunction([c \in DOMAIN samples |-> samples[c].duration]),
      judged |-> Cardinality(j),
      byDevice |-> SetToSortSeq(counts, LAMBDA a, b : a.count > b.count)]

-----------------------------------------------------------------------------
(* mod.rs:72-74 and 676-686: "what it would need with the rest of the
   working set resident": no set of other candidates that fits beside this one
   needs more, and one of them needs as much. *)
CoexistIsWorstCase(run, models) ==
  \A i \in DOMAIN models :
    LET others == {k \in DOMAIN models \ {i} : ~models[k].failed}
        need(S) == SumFunctionOnSet([k \in DOMAIN models |-> models[k].resident], S)
        needs == {run.floor + models[i].resident + need(S) :
                    S \in {T \in SUBSET others : Cardinality(T) <= Share(run)}}
    IN CoexistBytes(run, models, models[i]) = CHOOSE n \in needs : \A k \in needs : k <= n

(* mod.rs:85-88 and 115-118: what changed is counted over the samples both runs
   covered, and a comparison there was not is not a count of zero. *)
ChangesAreCompared(summary) ==
  \A i \in DOMAIN summary.models :
    /\ \A n \in summary.models[i].changed : n <= summary.compared
    /\ (summary.models[i].changed = {}) = (summary.previous = {})
    /\ summary.models[i].unchecked <= summary.models[i].correct
=============================================================================
