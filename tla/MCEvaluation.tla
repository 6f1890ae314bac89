---------------------------- MODULE MCEvaluation ----------------------------
(* One clip is a sample, two can be captured from one record; two runs, of two
   candidates and of one, asked for twice.  What models make of the clips is
   right for the first, wrong for the third, and the second defeats a model. *)
EXTENDS EvalRunner, SequencesExt, TLC

CONSTANTS c1, c2, c3, m1, m2, r1, r2, w1, w2, record, said, other
MCOrigin == [c \in Clips |-> IF c = c1 THEN Upload ELSE record]
MCPlan == [r \in Runs |-> IF r = r1 THEN <<m1, m2>> ELSE <<m1, m1>>]
MCReference == [c \in Clips |-> IF c = c1 THEN said ELSE other]
MCOutput == [m \in Models |-> [c \in Clips |-> IF m = m2 /\ c = c2 THEN Error ELSE said]]

-----------------------------------------------------------------------------
(* The overview over every run of three candidates, some of which did not load *)
Overview == INSTANCE RunOverview WITH Like <- =, Matches <- =
Measured(n) == [1 .. n -> {[model |-> m1, resident |-> 0, failed |-> TRUE]} \cup
                          {[model |-> m1, resident |-> b, failed |-> FALSE] : b \in 0 .. 2}]
ASSUME CoexistIsWorstCase ==
  \A n \in 1 .. 3 : \A models \in Measured(n), max \in 0 .. 3 :
    Overview!CoexistIsWorstCase([floor |-> 1, maxLoaded |-> max], models)

(* The summary of the later of two runs, whatever became of two samples in each *)
RunRow(r, at, hint, how) ==
  [id |-> r, started |-> at, language |-> hint, note |-> {}, status |-> how,
   maxLoaded |-> 2, floor |-> 1, available |-> 2]
Results(f) == SetToSeq({[clip |-> c, model |-> m1, text |-> f[c], failed |-> FALSE, ms |-> 1] :
                          c \in {d \in {c1, c2} : f[d] # Error}})
ASSUME ChangesAreCompared ==
  \A now, then \in [{c1, c2} -> {said, other, Error}], how \in {"completed", "failed"} :
    \A hint \in {{}, {said}}, ruled \in SUBSET {[clip |-> c1, text |-> other, correct |-> TRUE]} :
      LET runs == <<RunRow(r2, 1, {}, "completed"), RunRow(r1, 1, hint, how)>>
          samples == [c \in {c1, c2} |-> [reference |-> said, duration |-> 1, device |-> {}]]
      IN Overview!ChangesAreCompared(
           Overview!SummariseRun(runs[1], runs, <<[model |-> m1, resident |-> 1, failed |-> FALSE]>>,
             [r \in {r1, r2} |-> Results(IF r = r2 THEN now ELSE then)], samples, ruled))
=============================================================================
