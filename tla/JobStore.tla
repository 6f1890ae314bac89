------------------------------ MODULE JobStore ------------------------------
(***************************************************************************)
(* job.rs and the asynchronous half of api/transcribe.rs: transcriptions   *)
(* that run in a task of their own while their client polls or cancels,    *)
(* and the store that keeps what became of them for a while.  Every        *)
(* operation of the store runs under its write lock: one action each.      *)
(* What a transcription says is left out.                                  *)
(***************************************************************************)
EXTENDS Integers, FiniteSets

CONSTANTS Jobs,      \* ids
          MaxJobs,   \* `max_jobs`
          Ttl,       \* `completed_ttl`
          MaxClock   \* bound: how far Utc::now() gets

ASSUME JobAssumption ==
  IsFiniteSet(Jobs) /\ MaxJobs \in Nat \ {0} /\ Ttl \in Nat /\ MaxClock \in Nat

VARIABLES
  status,      \* the record in the map, "absent" when there is none
  createdAt, completedAt,
  worker,      \* the submission, then the spawned task
  sweeping,    \* the sweeper has found work and waits for the write lock
  clock,
  cancelled,   \* history: jobs whose client was told they are cancelled
  peak         \* history: the most jobs that were ever Processing at once

stamps == <<createdAt, completedAt>>
vars == <<status, stamps, worker, sweeping, clock, cancelled, peak>>

Terminal == {"Completed", "Failed", "Cancelled"}
Stored == {j \in Jobs : status[j] # "absent"}
Finished == {j \in Jobs : status[j] \in Terminal}
Processing == {j \in Jobs : status[j] = "Processing"}

Init ==
  /\ status = [j \in Jobs |-> "absent"]
  /\ createdAt = [j \in Jobs |-> 0] /\ completedAt = [j \in Jobs |-> 0]
  /\ worker = [j \in Jobs |-> "none"]
  /\ sweeping = FALSE /\ clock = 0 /\ cancelled = {} /\ peak = 0

Expired == {j \in Finished : completedAt[j] <= clock - Ttl}

(* mutant: the capacity pass takes jobs in flight as well *)
SweepsAnything(target, E) ==
  LET kept   == Stored \ Expired
      excess == Cardinality(kept) - target
  IN /\ E \subseteq kept
     /\ \A e \in E, k \in kept \ E : createdAt[e] <= createdAt[k]
     /\ Cardinality(E) = (IF excess > 0 THEN excess ELSE 0)

(* mutant: the youngest go first *)
SweepsYoungest(target, E) ==
  LET young  == Finished \ Expired
      excess == Cardinality(Stored \ Expired) - target
  IN /\ E \subseteq young
     /\ \A e \in E, k \in young \ E : createdAt[e] >= createdAt[k]
     /\ \/ excess <= 0 /\ E = {}
        \/ excess > 0 /\ E = young /\ Cardinality(young) <= excess
        \/ excess > 0 /\ Cardinality(E) = excess

(* sweep_locked, both passes: E is what the capacity pass removes, the oldest
   by created_at of what is finished and young enough to be kept *)
Sweeps(target, E) ==
  LET young  == Finished \ Expired
      excess == Cardinality(Stored \ Expired) - target
  IN /\ E \subseteq young
     /\ \A e \in E, k \in young \ E : createdAt[e] <= createdAt[k]
     /\ \/ excess <= 0 /\ E = {}
        \/ excess > 0 /\ E = young /\ Cardinality(young) <= excess
        \/ excess > 0 /\ Cardinality(E) = excess

-----------------------------------------------------------------------------
(* transcribe_async stamps the job, *)
Submit(j) ==
  /\ worker[j] = "none"
  /\ worker' = [worker EXCEPT ![j] = "submitting"]
  /\ createdAt' = [createdAt EXCEPT ![j] = clock]
  /\ UNCHANGED <<status, completedAt, sweeping, clock, cancelled, peak>>

(* mutant: the sweep leaves no room for the newcomer *)
InsertWithoutRoom(j) ==
  /\ worker[j] = "submitting"
  /\ \E E \in SUBSET Stored :
       LET gone == IF Cardinality(Stored) >= MaxJobs THEN Expired \cup E ELSE {}
       IN /\ IF Cardinality(Stored) >= MaxJobs THEN Sweeps(MaxJobs, E) ELSE E = {}
          /\ status' = [k \in Jobs |-> IF k = j THEN "Processing"
                                       ELSE IF k \in gone THEN "absent" ELSE status[k]]
  /\ peak' = IF Cardinality(Processing') > peak THEN Cardinality(Processing') ELSE peak
  /\ worker' = [worker EXCEPT ![j] = "spawned"]
  /\ UNCHANGED <<stamps, sweeping, clock, cancelled>>

(* stores it, making room first when the store is full, and spawns the task *)
Insert(j) ==
  /\ worker[j] = "submitting"
  /\ \E E \in SUBSET Stored :
       LET gone == IF Cardinality(Stored) >= MaxJobs THEN Expired \cup E ELSE {}
       IN /\ IF Cardinality(Stored) >= MaxJobs THEN Sweeps(MaxJobs - 1, E) ELSE E = {}
          /\ status' = [k \in Jobs |-> IF k = j THEN "Processing"
                                       ELSE IF k \in gone THEN "absent" ELSE status[k]]
  /\ peak' = IF Cardinality(Processing') > peak THEN Cardinality(Processing') ELSE peak
  /\ worker' = [worker EXCEPT ![j] = "spawned"]
  /\ UNCHANGED <<stamps, sweeping, clock, cancelled>>

(* The client hangs up while insert waits for the lock *)
SubmitDropped(j) ==
  /\ worker[j] = "submitting"
  /\ worker' = [worker EXCEPT ![j] = "over"]
  /\ UNCHANGED <<status, stamps, sweeping, clock, cancelled, peak>>

(* The task looks whether it still has to start: a job that is gone does *)
Preflight(j) ==
  /\ worker[j] = "spawned"
  /\ worker' = [worker EXCEPT ![j] = IF status[j] = "Cancelled" THEN "over" ELSE "running"]
  /\ UNCHANGED <<status, stamps, sweeping, clock, cancelled, peak>>

(* mutant: the end of a job is not stamped *)
FinishUnstamped(j, terminal) ==
  /\ worker[j] = "running"
  /\ worker' = [worker EXCEPT ![j] = "over"]
  /\ \/ status[j] = "Processing" /\ status' = [status EXCEPT ![j] = terminal]
     \/ status[j] # "Processing" /\ UNCHANGED status
  /\ UNCHANGED <<stamps, sweeping, clock, cancelled, peak>>

(* mutant: the result is stored whatever became of the job *)
FinishUnguarded(j, terminal) ==
  /\ worker[j] = "running"
  /\ worker' = [worker EXCEPT ![j] = "over"]
  /\ status[j] # "absent"
  /\ status' = [status EXCEPT ![j] = terminal]
  /\ completedAt' = [completedAt EXCEPT ![j] = clock]
  /\ UNCHANGED <<createdAt, sweeping, clock, cancelled, peak>>

(* complete and fail: finish, which only ends a job that is Processing *)
Finish(j, terminal) ==
  /\ worker[j] = "running"
  /\ worker' = [worker EXCEPT ![j] = "over"]
  /\ \/ /\ status[j] = "Processing"
        /\ status' = [status EXCEPT ![j] = terminal]
        /\ completedAt' = [completedAt EXCEPT ![j] = clock]
     \/ status[j] # "Processing" /\ UNCHANGED <<status, completedAt>>
  /\ UNCHANGED <<createdAt, sweeping, clock, cancelled, peak>>

(* DELETE: cancels what is Processing and removes what is finished.  An id that
   is not stored is an error, which changes nothing. *)
Cancel(j) ==
  /\ \/ /\ status[j] = "Processing"
        /\ status' = [status EXCEPT ![j] = "Cancelled"]
        /\ completedAt' = [completedAt EXCEPT ![j] = clock]
        /\ cancelled' = cancelled \cup {j}
     \/ /\ j \in Finished
        /\ status' = [status EXCEPT ![j] = "absent"]
        /\ UNCHANGED <<completedAt, cancelled>>
  /\ UNCHANGED <<createdAt, worker, sweeping, clock, peak>>

-----------------------------------------------------------------------------
(* sweep looks under the read lock whether there is work, *)
SweepLook ==
  /\ ~sweeping
  /\ Cardinality(Stored) > MaxJobs \/ Expired # {}
  /\ sweeping' = TRUE
  /\ UNCHANGED <<status, stamps, worker, clock, cancelled, peak>>

(* and sweeps what there is by the time it has the write lock *)
Sweep ==
  /\ sweeping
  /\ \E E \in SUBSET Stored :
       /\ Sweeps(MaxJobs, E)
       /\ status' = [j \in Jobs |-> IF j \in Expired \cup E THEN "absent" ELSE status[j]]
  /\ sweeping' = FALSE
  /\ UNCHANGED <<stamps, worker, clock, cancelled, peak>>

Tick ==
  /\ clock < MaxClock
  /\ clock' = clock + 1
  /\ UNCHANGED <<status, stamps, worker, sweeping, cancelled, peak>>

Next ==
  \/ \E j \in Jobs :
       \/ Submit(j) \/ Insert(j) \/ SubmitDropped(j) \/ Preflight(j) \/ Cancel(j)
       \/ \E terminal \in {"Completed", "Failed"} : Finish(j, terminal)
  \/ SweepLook \/ Sweep \/ Tick

Spec == Init /\ [][Next]_vars

-----------------------------------------------------------------------------
(* Every variable keeps its shape, and a finished job the order of its stamps. *)
TypeOK ==
  /\ status \in [Jobs -> {"absent", "Processing"} \cup Terminal]
  /\ createdAt \in [Jobs -> Nat] /\ completedAt \in [Jobs -> Nat]
  /\ worker \in [Jobs -> {"none", "submitting", "spawned", "running", "over"}]
  /\ sweeping \in BOOLEAN
  /\ clock \in Nat /\ cancelled \subseteq Jobs /\ peak \in Nat
  /\ \A j \in Finished : createdAt[j] <= completedAt[j] /\ completedAt[j] <= clock

(* job.rs:76-77: a job somebody works on and nobody cancelled is there to take
   the result; a Processing one has somebody who will end it. *)
WorkMeetsJob == \A j \in Jobs :
  status[j] = "Processing" <=> worker[j] \in {"spawned", "running"} /\ j \notin cancelled

(* job.rs:105-112: the store outgrows its cap only as far as jobs have really
   been in flight together. *)
BoundedByLoad ==
  Cardinality(Stored) <= MaxJobs \/ Cardinality(Stored) <= peak

(* job.rs:5-7: once terminal, always terminal, until the record goes. *)
OnceTerminal == [][\A j \in Finished : status'[j] \in {status[j], "absent"}]_vars

(* job.rs:73-77, 192-194: a result that its client did not delete and that is not
   past its time goes only to make room in a full store, and before a younger. *)
ResultsAreKept == [][\A j \in Finished \ Expired :
  status'[j] = "absent" /\ <<worker, sweeping>>' # <<worker, sweeping>> =>
    /\ Cardinality(Stored) >= MaxJobs /\ Cardinality(Stored') >= MaxJobs
    /\ \A k \in Finished' \cap Finished : createdAt[j] <= createdAt[k]]_vars
=============================================================================
