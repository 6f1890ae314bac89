----------------------------- MODULE MCJobStore -----------------------------
EXTENDS JobStore, TLC

CONSTANTS j1, j2, j3, j4
MCJobs == {j1, j2, j3, j4}
Symmetry == Permutations(MCJobs)

Errors == INSTANCE AsrError

(* AsrError: what a job, or any request, may end in has a status and says what it is about. *)
ASSUME ErrorsAreAnswered == Errors!EveryKindIsAnswered
=============================================================================
