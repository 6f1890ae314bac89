---------------------------- MODULE EvalRunner ----------------------------
(***************************************************************************)
(* eval/runner.rs over EvalSamples: evaluation runs.  A run clears the     *)
(* engines, puts every sample through one candidate after the other, and   *)
(* gives the engines back; one run holds the run slot for all that time.   *)
(* Meanwhile samples come and go, voice commands load models of their own, *)
(* and the run is cancelled, deleted or stopped with the add-on.           *)
(***************************************************************************)
EXTENDS EvalSamples, FiniteSetsExt, Sequences

CONSTANTS Runs, Models,
          Plan,        \* the candidates a run asks for, in order
          Output,      \* what a model makes of a clip
          Reference,   \* reference transcripts
          Error,       \* in place of a text where there is none
          Voice,       \* the models that voice commands load
          Limit,       \* how many results a query returns (2000)
          Recent,      \* how many runs a start looks through (50)
          NoRun

ASSUME EvalRunnerAssumption ==
  /\ IsFiniteSet(Models) /\ NoRun \notin Runs /\ Error \notin Texts
  /\ \A r \in Runs : Plan[r] \in Seq(Models) /\ Len(Plan[r]) > 0
  /\ Output \in [Models -> [Clips -> Texts \cup {Error}]]
  /\ Voice \subseteq Models /\ Limit \in Nat
  /\ IsFiniteSet(Runs) /\ Recent \in Nat

VARIABLES
  status,     \* eval_runs: "none" before there is a row, "gone" after
  covered,    \* eval_run_samples
  candidate,  \* eval_run_models
  cell,       \* eval_results
  slot, inFlight, cancelled,   \* the permit, the run that is named, the flags
  phase, local,   \* where start(), then the task of a run stands, and its locals
  displaced,      \* previously_loaded: what a run is to restore
  missing         \* history: models a run unloaded and has not asked for again

rtables == <<status, covered, candidate, cell>>
control == <<slot, inFlight, cancelled>>
task == <<phase, local, displaced, missing>>
rvars == <<rtables, control, task>>
vars == <<svars, rvars>>
others == <<capture, tables, audio, request, beside, stray, torn>>

Fresh == [covers |-> {}, at |-> 1, todo |-> {}, outcome |-> "none"]
Candidate(r) == Plan[r][local[r].at]
Starting == {"held", "inserted"}
Executing == {"between", "measuring"}

Init ==
  /\ SInit
  /\ status = [r \in Runs |-> "none"] /\ covered = [r \in Runs |-> {}]
  /\ candidate = [r \in Runs |-> {}] /\ cell = [r \in Runs |-> {}]
  /\ slot = NoRun /\ inFlight = NoRun /\ cancelled = {}
  /\ phase = [r \in Runs |-> "new"] /\ local = [r \in Runs |-> Fresh]
  /\ displaced = [r \in Runs |-> {}] /\ missing = [r \in Runs |-> {}]

Goes(r, next) == phase' = [phase EXCEPT ![r] = next]
Keep(r, now) == local' = [local EXCEPT ![r] = now]

-----------------------------------------------------------------------------
(* start: the samples there are, or those of them that are wanted, and the run
   slot, or EvalRunInProgress.  Then the decks are cleared of whatever voice
   commands have loaded (EngineManager says what that can be).
   What becomes of the samples between is as if it came after. *)
TakeSlot(r) ==
  /\ phase[r] = "new" /\ slot = NoRun /\ Event
  /\ \E wanted \in SUBSET sample \ {{}} : Keep(r, [Fresh EXCEPT !.covers = wanted])
  /\ slot' = r
  /\ \E loaded \in SUBSET Voice : /\ displaced' = [displaced EXCEPT ![r] = loaded]
                                 /\ missing' = [missing EXCEPT ![r] = loaded]
  /\ Goes(r, "held")
  /\ UNCHANGED <<others, rtables, inFlight, cancelled>>

InsertRun(r) ==
  /\ phase[r] = "held"
  /\ status' = [status EXCEPT ![r] = "running"]
  /\ Goes(r, "inserted")
  /\ UNCHANGED <<svars, covered, candidate, cell, control, local, displaced, missing>>

(* set_run_samples; then the run is named, and its task goes on by itself *)
Spawn(r) ==
  /\ phase[r] = "inserted"
  /\ covered' = [covered EXCEPT ![r] = local[r].covers]
  /\ inFlight' = r
  /\ Goes(r, "between")
  /\ UNCHANGED <<svars, status, candidate, cell, slot, cancelled, local, displaced, missing>>

(* A start that fails, or whose client hangs up, opens the slot and leaves the
   rest as it is: a row that says running, and what it unloaded, unloaded *)
StartCut(r) ==
  /\ phase[r] \in Starting /\ Event
  /\ slot' = NoRun
  /\ \/ UNCHANGED covered
     \/ phase[r] = "inserted" /\ covered' = [covered EXCEPT ![r] = local[r].covers]
  /\ Goes(r, "cut") /\ Keep(r, Fresh)
  /\ displaced' = [displaced EXCEPT ![r] = {}] /\ missing' = [missing EXCEPT ![r] = {}]
  /\ UNCHANGED <<others, status, candidate, cell, inFlight, cancelled>>

-----------------------------------------------------------------------------
Ends(r, how) == Keep(r, [Fresh EXCEPT !.outcome = how]) /\ Goes(r, "closing")
More(r) == local[r].at <= Len(Plan[r])
Upsert(r, failed) ==
  candidate' = [candidate EXCEPT ![r] =
    {k \in @ : k.model # Candidate(r)} \cup {[model |-> Candidate(r), failed |-> failed]}]

(* execute, between candidates: what voice commands have loaded since is unloaded,
   without a note of it; this one is loaded, and all samples are due, or it will
   not load, and that is a result *)
Load(r) ==
  /\ phase[r] = "between" /\ r \notin cancelled /\ More(r)
  /\ \E loaded \in SUBSET Voice : missing' = [missing EXCEPT ![r] = @ \cup loaded]
  /\ \/ /\ Upsert(r, FALSE) /\ Goes(r, "measuring")
        /\ Keep(r, [local[r] EXCEPT !.todo = local[r].covers])
     \/ Upsert(r, TRUE) /\ Keep(r, [local[r] EXCEPT !.at = @ + 1]) /\ UNCHANGED phase
  /\ UNCHANGED <<svars, status, covered, cell, control, displaced>>

(* The last candidate is done, or the flag is seen before the next *)
NoMore(r) ==
  /\ phase[r] = "between" /\ (r \in cancelled \/ ~More(r))
  /\ Ends(r, IF More(r) THEN "cancelled" ELSE "completed")
  /\ UNCHANGED <<svars, rtables, control, displaced, missing>>

(* The next sample; without its file an error is what there is to say.  A cell
   is written once in a run. *)
Due(r) == CHOOSE c \in local[r].todo : TRUE
Measuring(r) == phase[r] = "measuring" /\ local[r].todo # {} /\ r \notin cancelled
Cells(r, c) == {k \in cell[r] : k.model = Candidate(r) /\ k.clip = c}
Measure(r) ==
  /\ Measuring(r) /\ Cells(r, Due(r)) = {}
  /\ cell' = [cell EXCEPT ![r] = @ \cup
       {[model |-> Candidate(r), clip |-> Due(r),
         text |-> IF Due(r) \in audio THEN Output[Candidate(r)][Due(r)] ELSE Error]}]
  /\ Keep(r, [local[r] EXCEPT !.todo = @ \ {Due(r)}])
  /\ UNCHANGED <<svars, status, covered, candidate, control, phase, displaced, missing>>

(* The cell is there (a candidate asked for twice), or the database fails: the
   run fails, with its candidate where it is *)
RunFails(r) ==
  /\ \/ Measuring(r) /\ Cells(r, Due(r)) # {} /\ UNCHANGED events
     \/ Measuring(r) /\ Event
     \/ phase[r] = "between" /\ r \notin cancelled /\ More(r) /\ Event
  /\ Ends(r, "failed")
  /\ \/ UNCHANGED missing
     \/ /\ phase[r] = "between"
        /\ \E loaded \in SUBSET Voice : missing' = [missing EXCEPT ![r] = @ \cup loaded]
  /\ UNCHANGED <<others, rtables, control, displaced>>

(* mutant: a cancelled run stops, and reads as one that went through *)
UnloadQuietly(r) ==
  /\ phase[r] = "measuring" /\ (local[r].todo = {} \/ r \in cancelled)
  /\ IF local[r].todo = {} THEN /\ Keep(r, [local[r] EXCEPT !.at = @ + 1])
                                /\ Goes(r, "between")
     ELSE Ends(r, "completed")
  /\ UNCHANGED <<svars, rtables, control, displaced, missing>>

(* The candidate is unloaded on either path *)
Unload(r) ==
  /\ phase[r] = "measuring" /\ (local[r].todo = {} \/ r \in cancelled)
  /\ IF local[r].todo = {} THEN /\ Keep(r, [local[r] EXCEPT !.at = @ + 1])
                                /\ Goes(r, "between")
     ELSE Ends(r, "cancelled")
  /\ UNCHANGED <<svars, rtables, control, displaced, missing>>

(* finish_run; a failure is a warning, and a row that is gone is not missed *)
FinishRun(r) ==
  /\ phase[r] = "closing"
  /\ \/ /\ status' = [status EXCEPT ![r] = IF @ = "gone" THEN @ ELSE local[r].outcome]
        /\ Keep(r, Fresh) /\ UNCHANGED events
     \/ Event /\ Keep(r, [Fresh EXCEPT !.outcome = "unknown"]) /\ UNCHANGED status
  /\ Goes(r, "closed")
  /\ UNCHANGED <<others, covered, candidate, cell, control, displaced, missing>>

(* Stop naming this run before the slot opens *)
LetGo(r) ==
  /\ phase[r] = "closed"
  /\ inFlight' = NoRun /\ cancelled' = cancelled \ {r}
  /\ Goes(r, "restoring")
  /\ UNCHANGED <<svars, rtables, slot, local, displaced, missing>>

(* mutant: a run that ends badly puts nothing back *)
RestoreIfClosed(r, m) ==
  /\ phase[r] = "restoring" /\ m \in displaced[r] \cap missing[r] /\ status[r] = "completed"
  /\ missing' = [missing EXCEPT ![r] = @ \ {m}]
  /\ UNCHANGED <<svars, rtables, control, phase, local, displaced>>

(* restore_working_set: every model of the list is asked for, whatever comes of it *)
Restore(r, m) ==
  /\ phase[r] = "restoring" /\ m \in displaced[r] \cap missing[r]
  /\ missing' = [missing EXCEPT ![r] = @ \ {m}]
  /\ UNCHANGED <<svars, rtables, control, phase, local, displaced>>

Release(r) ==
  /\ phase[r] = "restoring" /\ displaced[r] \cap missing[r] = {}
  /\ slot' = NoRun
  /\ Goes(r, "over")
  /\ displaced' = [displaced EXCEPT ![r] = {}] /\ missing' = [missing EXCEPT ![r] = {}]
  /\ UNCHANGED <<svars, rtables, inFlight, cancelled, local>>

-----------------------------------------------------------------------------
(* cancel: only the run in flight has a flag *)
Cancel(r) ==
  /\ inFlight = r /\ Event
  /\ cancelled' = cancelled \cup {r}
  /\ UNCHANGED <<others, rtables, slot, inFlight, task>>

(* delete_run, be it running or not *)
DeleteRun(r) ==
  /\ status[r] \notin {"none", "gone"} /\ Event
  /\ status' = [status EXCEPT ![r] = "gone"]
  /\ covered' = [covered EXCEPT ![r] = {}] /\ candidate' = [candidate EXCEPT ![r] = {}]
  /\ cell' = [cell EXCEPT ![r] = {}]
  /\ UNCHANGED <<others, control, task>>

(* delete_sample takes the results and the run's row of the sample along *)
DeleteSample(w) ==
  /\ DeleteRows(w)
  /\ cell' = [r \in Runs |-> {k \in cell[r] : k.clip # request[w].clip}]
  /\ covered' = [r \in Runs |-> covered[r] \ {request[w].clip}]
  /\ UNCHANGED <<status, candidate, control, task>>

(* The add-on stops and starts: Eval::new marks as failed what says running of the
   newest runs, whichever they are.  A delete may have got as far as the results,
   not yet to the sample. *)
RunRows == {r \in Runs : status[r] \notin {"none", "gone"}}
Restart ==
  /\ Event
  /\ CutShort(Open, Requesters)
  /\ \E C \in {{}} \cup {{request[w].clip} : w \in {v \in Requesters : At(v, "delete", "half")}} :
       cell' = [r \in Runs |-> {k \in cell[r] : k.clip \notin C}]
  /\ \E newest \in SUBSET RunRows :
       /\ Cardinality(newest) = Min({Recent, Cardinality(RunRows)})
       /\ status' = [r \in Runs |-> IF r \in newest /\ status[r] = "running" THEN "failed"
                                   ELSE status[r]]
  /\ phase' = [r \in Runs |-> IF phase[r] \in {"new", "over"} THEN phase[r] ELSE "cut"]
  /\ slot' = NoRun /\ inFlight' = NoRun /\ cancelled' = {}
  /\ local' = [r \in Runs |-> IF phase[r] = "over" THEN local[r] ELSE Fresh]
  /\ displaced' = [r \in Runs |-> {}] /\ missing' = [r \in Runs |-> {}]
  /\ UNCHANGED <<covered, candidate>>

-----------------------------------------------------------------------------
StartStep(r) == InsertRun(r) \/ Spawn(r) \/ StartCut(r)
TaskStep(r) ==
  \/ Load(r) \/ NoMore(r) \/ Measure(r) \/ RunFails(r) \/ Unload(r) \/ FinishRun(r) \/ LetGo(r) \/ Release(r)
  \/ \E m \in Models : Restore(r, m)

Next ==
  \/ SStep /\ UNCHANGED rvars
  \/ \E w \in Requesters : DeleteSample(w)
  \/ \E r \in Runs : \/ TakeSlot(r) \/ StartStep(r) \/ TaskStep(r)
                    \/ Cancel(r) \/ DeleteRun(r)
  \/ Restart

Spec == Init /\ [][Next]_vars

(* A start that has the slot is polled on or dropped, and its task runs.
   Nobody need ask for anything. *)
Fairness == \A r \in Runs : WF_vars(StartStep(r) \/ TaskStep(r))
FairSpec == Spec /\ Fairness

-----------------------------------------------------------------------------
(* compare.rs, and what a query joins: results of samples that are there *)
RulingOn(k) == {j.correct : j \in About(k.clip, k.text)}
Verdict(k) == IF RulingOn(k) # {} THEN RulingOn(k) = {TRUE} ELSE k.text = Reference[k.clip]
Joined(r) == {k \in cell[r] : k.clip \in sample}

(* run_aggregates and summarise_run count the same cells, each its own way: the
   one over all results at once, the other by candidate, over what list_results
   returns *)
Count(K) == LET scored == {k \in K : k.text # Error}
                right  == {k \in scored : Verdict(k)}
            IN <<Cardinality(scored), Cardinality(right),
                 Cardinality({k \in right : RulingOn(k) = {}})>>
RunAggregate(r) == Count(Joined(r))
ListResults(r) == IF Cardinality(Joined(r)) <= Limit THEN Joined(r)
                  ELSE CHOOSE K \in SUBSET Joined(r) : Cardinality(K) = Limit
ModelSummary(r, m) == Count({k \in ListResults(r) : k.model = m})
Summarised(r, i) ==
  LET of(k) == ModelSummary(r, k.model)[i] IN MapThenSumSet(of, candidate[r])

-----------------------------------------------------------------------------
(* Every variable keeps its shape. *)
TypeOK ==
  /\ SamplesTypeOK
  /\ status \in [Runs -> {"none", "running", "completed", "cancelled", "failed", "gone"}]
  /\ covered \in [Runs -> SUBSET Clips] 
  /\ candidate \in [Runs -> SUBSET [model : Models, failed : BOOLEAN]]
  /\ cell \in [Runs -> SUBSET [model : Models, clip : Clips, text : Texts \cup {Error}]]
  /\ slot \in Runs \cup {NoRun} /\ inFlight \in Runs \cup {NoRun} /\ cancelled \subseteq Runs
  /\ phase \in [Runs -> {"new", "closing", "closed", "restoring", "over", "cut"}
                         \cup Starting \cup Executing]
  /\ local \in [Runs -> [covers : SUBSET Clips, at : Nat \ {0}, todo : SUBSET Clips,
                         outcome : {"none", "completed", "cancelled", "failed", "unknown"}]]
  /\ displaced \in [Runs -> SUBSET Models] /\ missing \in [Runs -> SUBSET Models]

(* A completed run has, for every candidate, a failed load or a result for
   every sample it covers, whatever was deleted and relabelled meanwhile. *)
CompletedIsWhole ==
  \A r \in Runs : status[r] = "completed" =>
    \A i \in 1 .. Len(Plan[r]) :
      \/ [model |-> Plan[r][i], failed |-> TRUE] \in candidate[r]
      \/ \A c \in covered[r] \ torn : \E k \in cell[r] : k.model = Plan[r][i] /\ k.clip = c

(* The run that is named can be stopped and the one that executes is named; a
   row says running only for a run under way, or one that could not be closed. *)
RunningIsLive ==
  \A r \in Runs :
    /\ phase[r] \in Executing => inFlight = r
    /\ inFlight = r => slot = r
    /\ status[r] = "running" => \/ phase[r] \in Starting \cup Executing \cup {"closing"}
                                \/ phase[r] = "cut" \/ local[r].outcome = "unknown"

(* store.rs: the list of runs agrees with the overview it links to, as long as
   the run has no more results than a query returns. *)
ListAgreesWithOverview ==
  \A r \in Runs : status[r] \notin {"none", "gone"} /\ Cardinality(Joined(r)) <= Limit =>
    \A i \in 1 .. 3 : RunAggregate(r)[i] = Summarised(r, i)

(* runner.rs:83-86, 240-258; store.rs:754-757: what the screens show of a run
   is what became of it. *)
RunsAreWhatTheyShow == TypeOK /\ CompletedIsWhole /\ RunningIsLive /\ ListAgreesWithOverview

(* runner.rs:199-202, 434-443: a run gives the slot up, and not before it has
   asked for every model that was loaded when it began, however often voice
   commands loaded it again meanwhile; unless its start, or the add-on, was
   stopped.  Against 434-435, what they loaded only since, and the run unloaded
   before a candidate (299-302), stays unloaded: those of `missing` that are not
   in `displaced`. *)
RunsGiveBack ==
  /\ \A r \in Runs : slot = r ~> slot # r
  /\ [][\A r \in Runs : slot = r /\ slot' # r =>
          displaced[r] \cap missing[r] = {} \/ phase'[r] = "cut"]_vars
=============================================================================
