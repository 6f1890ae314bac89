------------------------------- MODULE History -------------------------------
(***************************************************************************)
(* history/mod.rs on history/store.rs: records of transcriptions, each a   *)
(* row in SQLite and perhaps an audio file beside it.  The two cannot      *)
(* change together.  A create writes the file before the row; a delete and *)
(* a drop remove files one by one before they touch the rows; and between  *)
(* any two of these steps other requests and the retention sweep run, a    *)
(* step fails, or the request is dropped (its client hung up, or the       *)
(* add-on stopped: nothing but rows and files outlives that).              *)
(***************************************************************************)
EXTENDS Retention

CONSTANTS Records,         \* ids; a record's audio file is named after it
          Workers,         \* tasks that delete or sweep
          Policies,        \* what record and audio retention may be set to
          MaxParams,       \* how many parameters SQLite takes in a statement
          MaxFaults        \* bound: how many steps fail or are dropped

ASSUME HistoryAssumption ==
  /\ IsFiniteSet(Records) /\ MaxParams \in Nat /\ MaxFaults \in Nat
  /\ \A p \in Policies : p.record.value \in Nat /\ p.audio.value \in Nat

VARIABLES
  row,       \* the table: "none", a "bare" row, or one that names its "audio"
  born,      \* rank of the row's timestamp; 0 before there is one
  inserted,  \* how many rows were ever inserted
  aged,      \* rows up to this rank are older than the policies' days
  file,      \* the audio directory: ids whose file is there
  create,    \* where the one create() of an id stands
  job, todo, safe,  \* a worker: what it does, files to walk, ids it got through
  policies,  \* record_retention and audio_retention
  faults,
  lost,      \* history: files of a create cut short, or half written
  torn,      \* history: rows whose file went before their worker was cut short
  beside     \* history: whose file or row others took since a sweep listed

table == <<row, born, inserted, aged>>
worker == <<job, todo, safe>>
ghosts == <<lost, torn, beside>>
vars == <<table, file, create, worker, policies, faults, ghosts>>

Rows == {r \in Records : row[r] # "none"}
WithAudio == {r \in Records : row[r] = "audio"}

(* A request is "deleting".  A sweep lists and selects "records" and is then
   "sweeping" them; "between" the branches it goes on to list the "audios"
   that it is "dropping" after that. *)
Listed == {"records", "audios"}
Walking == {"deleting", "sweeping", "dropping"}

Init ==
  /\ row = [r \in Records |-> "none"] /\ born = [r \in Records |-> 0]
  /\ inserted = 0 /\ aged = 0 /\ file = {}
  /\ create = [r \in Records |-> "new"]
  /\ job = [w \in Workers |-> "idle"]
  /\ todo = [w \in Workers |-> {}] /\ safe = [w \in Workers |-> {}]
  /\ policies \in Policies
  /\ faults = 0 /\ lost = {} /\ torn = {}
  /\ beside = [w \in Workers |-> {}]

Fault == faults < MaxFaults /\ faults' = faults + 1

-----------------------------------------------------------------------------
(* create: the WAV, if audio is kept.  Where the write fails half way what it
   wrote stays, and the row will not name it. *)
WriteWav(r) ==
  /\ create[r] = "new"
  /\ \/ /\ create' = [create EXCEPT ![r] = "named"]
        /\ file' = file \cup {r}
        /\ UNCHANGED <<faults, lost>>
     \/ /\ create' = [create EXCEPT ![r] = "unnamed"]
        /\ UNCHANGED <<file, faults, lost>>
     \/ /\ Fault
        /\ create' = [create EXCEPT ![r] = "unnamed"]
        /\ file' = file \cup {r} /\ lost' = lost \cup {r}
  /\ UNCHANGED <<table, worker, policies, torn, beside>>

(* mutant: the row names a file whether or not one was written *)
InsertNaming(r) ==
  /\ create[r] \in {"named", "unnamed"}
  /\ row' = [row EXCEPT ![r] = "audio"]
  /\ inserted' = inserted + 1
  /\ born' = [born EXCEPT ![r] = inserted + 1]
  /\ create' = [create EXCEPT ![r] = "over"]
  /\ UNCHANGED <<aged, file, worker, policies, faults, ghosts>>

(* mutant: the stamp is taken before the clock has moved on *)
InsertEarly(r) ==
  /\ create[r] \in {"named", "unnamed"}
  /\ row' = [row EXCEPT ![r] = IF create[r] = "named" THEN "audio" ELSE "bare"]
  /\ born' = [born EXCEPT ![r] = inserted + 1]
  /\ create' = [create EXCEPT ![r] = "over"]
  /\ UNCHANGED <<inserted, aged, file, worker, policies, faults, ghosts>>

(* store::insert; SQLite stamps the row *)
Insert(r) ==
  /\ create[r] \in {"named", "unnamed"}
  /\ row' = [row EXCEPT ![r] = IF create[r] = "named" THEN "audio" ELSE "bare"]
  /\ inserted' = inserted + 1
  /\ born' = [born EXCEPT ![r] = inserted + 1]
  /\ create' = [create EXCEPT ![r] = "over"]
  /\ UNCHANGED <<aged, file, worker, policies, faults, ghosts>>

InsertFails(r) ==
  /\ create[r] \in {"named", "unnamed"} /\ Fault
  /\ create' = [create EXCEPT ![r] = IF @ = "named" THEN "undo" ELSE "over"]
  /\ UNCHANGED <<table, file, worker, policies, ghosts>>

(* the file of a row that could not be inserted; nobody asks whether it went *)
Undo(r) ==
  /\ create[r] = "undo"
  /\ create' = [create EXCEPT ![r] = "over"]
  /\ \/ file' = file \ {r} /\ UNCHANGED <<faults, lost>>
     \/ Fault /\ lost' = lost \cup {r} /\ UNCHANGED file
  /\ UNCHANGED <<table, worker, policies, torn, beside>>

(* The transcription is dropped with its file written and no row to name it;
   an insert that has reached the database happens all the same *)
CreateDropped(r) ==
  /\ create[r] \in {"named", "undo"} /\ Fault
  /\ create' = [create EXCEPT ![r] = "over"]
  /\ lost' = lost \cup {r}
  /\ UNCHANGED <<table, file, worker, policies, torn, beside>>

(* Time passes: the oldest rows that were young are so no longer *)
Age ==
  /\ aged < inserted
  /\ aged' = aged + 1
  /\ UNCHANGED <<row, born, inserted, file, create, worker, policies, faults, ghosts>>

-----------------------------------------------------------------------------
(* The paths are looked up, and then files are walked.  A row without one can
   be deleted at once; a row that went since it was listed is not found. *)
Walk(w, what, ids) ==
  /\ job' = [job EXCEPT ![w] = what]
  /\ todo' = [todo EXCEPT ![w] = ids \cap WithAudio]
  /\ safe' = [safe EXCEPT ![w] = IF what = "dropping" THEN {}
                                 ELSE (ids \cap Rows) \ WithAudio]

(* delete and delete_many name their ids, delete_all does not have to *)
Delete(w) ==
  /\ job[w] = "idle"
  /\ \E ids \in SUBSET Rows \ {{}} :
       /\ Cardinality(ids) <= MaxParams \/ ids = Rows
       /\ Walk(w, "deleting", ids)
  /\ UNCHANGED <<table, file, create, policies, faults, ghosts>>

(* A size is read from the file, 0 when it is gone *)
Sizes == [r \in Records |-> IF r \in file THEN 1 ELSE 0]
Select(policy, candidates) == SelectToDelete(policy, candidates, born, Sizes, aged)

List(w, what, selected) ==
  /\ job' = [job EXCEPT ![w] = what]
  /\ todo' = [todo EXCEPT ![w] = selected]
  /\ safe' = [safe EXCEPT ![w] = {}] /\ beside' = [beside EXCEPT ![w] = {}]
  /\ UNCHANGED <<table, file, create, policies, faults, lost, torn>>

(* run_retention_sweep, hourly or on request: the record branch *)
Sweep(w) == job[w] = "idle" /\ List(w, "records", Select(policies.record, Rows))

(* and, whatever became of that, the audio branch *)
ListAudios(w) ==
  job[w] = "between" /\ List(w, "audios", Select(policies.audio, WithAudio))

(* mutant: a sweep ends with its record branch *)
AfterRecords(w) == "idle"

After(w) == IF job[w] \in {"records", "sweeping"} THEN "between" ELSE "idle"
Done(w, next) ==
  /\ job' = [job EXCEPT ![w] = next]
  /\ todo' = [todo EXCEPT ![w] = {}] /\ safe' = [safe EXCEPT ![w] = {}]

(* mutant: as many of the oldest records as were listed, whichever those are now *)
ApplyOldest(w) ==
  /\ job[w] \in Listed /\ todo[w] # {} /\ Cardinality(todo[w]) <= MaxParams
  /\ LET there == IF job[w] = "records" THEN Rows ELSE WithAudio
     IN Walk(w, IF job[w] = "records" THEN "sweeping" ELSE "dropping",
             {r \in there : Cardinality({q \in there : born[q] < born[r]})
                              < Cardinality(todo[w])})
  /\ UNCHANGED <<table, file, create, policies, faults, ghosts>>

(* delete_many and drop_audios take the ids that were listed *)
Apply(w) ==
  /\ job[w] \in Listed /\ todo[w] # {} /\ Cardinality(todo[w]) <= MaxParams
  /\ Walk(w, IF job[w] = "records" THEN "sweeping" ELSE "dropping", todo[w])
  /\ UNCHANGED <<table, file, create, policies, faults, ghosts>>

(* Nothing is selected, or too much for one statement to look up *)
ApplyNothing(w) ==
  /\ job[w] \in Listed
  /\ todo[w] = {} \/ Cardinality(todo[w]) > MaxParams
  /\ Done(w, After(w))
  /\ UNCHANGED <<table, file, create, policies, faults, ghosts>>

(* What a worker takes is news to every sweep that has listed *)
Takes(w, ids) ==
  beside' = [v \in Workers |->
    IF v = w \/ job[v] \notin Listed \cup {"sweeping", "dropping"} THEN beside[v]
    ELSE beside[v] \cup ids]

(* mutant: a file that could not be removed counts as removed *)
RemoveFileCareless(w, r) ==
  /\ job[w] \in Walking /\ r \in todo[w]
  /\ todo' = [todo EXCEPT ![w] = @ \ {r}]
  /\ safe' = [safe EXCEPT ![w] = @ \cup {r}]
  /\ \/ file' = file \ {r} /\ Takes(w, {r}) /\ UNCHANGED faults
     \/ Fault /\ UNCHANGED <<file, beside>>
  /\ UNCHANGED <<table, create, job, policies, lost, torn>>

(* try_remove_audio for one of them; a file that is not there is removed *)
RemoveFile(w, r) ==
  /\ job[w] \in Walking /\ r \in todo[w]
  /\ todo' = [todo EXCEPT ![w] = @ \ {r}]
  /\ \/ /\ file' = file \ {r} /\ safe' = [safe EXCEPT ![w] = @ \cup {r}]
        /\ Takes(w, {r}) /\ UNCHANGED faults
     \/ Fault /\ UNCHANGED <<file, safe, beside>>
  /\ UNCHANGED <<table, create, job, policies, lost, torn>>

(* delete_rows, null_audio_paths: the rows whose files are gone, in one go *)
UpdateRows(w) ==
  /\ job[w] \in Walking /\ todo[w] = {} /\ Cardinality(safe[w]) <= MaxParams
  /\ LET hit == safe[w] \cap (IF job[w] = "dropping" THEN WithAudio ELSE Rows)
     IN /\ row' = [r \in Records |->
                     IF r \notin hit THEN row[r]
                     ELSE IF job[w] = "dropping" THEN "bare" ELSE "none"]
        /\ Takes(w, hit)
  /\ Done(w, After(w))
  /\ UNCHANGED <<born, inserted, aged, file, create, policies, faults, lost, torn>>

(* What a worker leaves behind that removed files and does not get to the rows *)
Tear(w) == torn' = torn \cup (safe[w] \cap WithAudio)

(* The database fails, or delete_all found more rows than a statement takes *)
UpdateFails(w) ==
  /\ job[w] \in Walking /\ todo[w] = {} /\ safe[w] # {}
  /\ \/ Fault
     \/ Cardinality(safe[w]) > MaxParams /\ UNCHANGED faults
  /\ Tear(w)
  /\ Done(w, After(w))
  /\ UNCHANGED <<table, file, create, policies, lost, beside>>

(* The worker is dropped between two of its steps *)
WorkerDropped(w) ==
  /\ job[w] \in Walking /\ Fault
  /\ Tear(w)
  /\ Done(w, "idle")
  /\ UNCHANGED <<table, file, create, policies, lost, beside>>

-----------------------------------------------------------------------------
CreateStep(r) == WriteWav(r) \/ Insert(r) \/ InsertFails(r) \/ Undo(r)
WorkerStep(w) ==
  \/ ListAudios(w) \/ Apply(w) \/ ApplyNothing(w) \/ UpdateRows(w) \/ UpdateFails(w)
  \/ \E r \in Records : RemoveFile(w, r)

Next ==
  \/ \E r \in Records : CreateStep(r) \/ CreateDropped(r)
  \/ Age
  \/ \E w \in Workers : Delete(w) \/ Sweep(w) \/ WorkerStep(w) \/ WorkerDropped(w)

Spec == Init /\ [][Next]_vars

(* A transcription writes its record once it began to, a worker is polled on,
   and sweeps come again and again (every hour).  Deletes and time need not. *)
Fairness ==
  /\ \A r \in Records : WF_vars(create[r] # "new" /\ CreateStep(r))
  /\ \A w \in Workers : WF_vars(WorkerStep(w))
  /\ SF_vars(\E w \in Workers : Sweep(w))
FairSpec == Spec /\ Fairness

-----------------------------------------------------------------------------
(* Every variable keeps its shape. *)
TypeOK ==
  /\ row \in [Records -> {"none", "bare", "audio"}]
  /\ inserted \in Nat /\ born \in [Records -> 0 .. inserted] /\ aged \in 0 .. inserted
  /\ file \subseteq Records
  /\ create \in [Records -> {"new", "named", "unnamed", "undo", "over"}]
  /\ job \in [Workers -> Walking \cup Listed \cup {"idle", "between"}]
  /\ todo \in [Workers -> SUBSET Records] /\ safe \in [Workers -> SUBSET Records]
  /\ faults \in 0 .. MaxFaults
  /\ lost \subseteq Records /\ torn \subseteq Records
  /\ beside \in [Workers -> SUBSET Records]

(* mod.rs:168-172: no delete, drop or sweep, however they interleave and
   wherever they are cut short, leaves a file that no row names; only a create
   that was cut short, could not undo or wrote half a file does. *)
NoStrayFiles ==
  \A r \in file : \/ row[r] = "audio"
                  \/ create[r] \in {"named", "undo"}
                  \/ r \in lost

(* mod.rs:11-16: a row that names a file which is gone is about to be deleted
   or bared by the worker that removed it, or is what such a worker left. *)
GoneAudioIsAccounted ==
  \A r \in WithAudio : r \notin file =>
    r \in torn \/ \E w \in Workers : job[w] \in Walking /\ r \in safe[w]

(* mod.rs:298-339: a sweep takes only what its policy still drops when it gets
   to the rows, counting what others took since it listed: two sweeps of the
   same rows, or a request beside one, do not make it go on to the next oldest,
   which the policy keeps. *)
Due(w, policy, candidates) ==
  SelectToDelete(policy, candidates \cup beside[w], born,
    [r \in Records |-> IF r \in file \cup beside[w] \cup safe[w] THEN 1 ELSE 0], aged)
SweepsTakeOnlyExcess ==
  [][\A w \in Workers :
       /\ job[w] = "sweeping" /\ job'[w] # "sweeping"
            => Rows \ Rows' \subseteq Due(w, policies.record, Rows)
       /\ job[w] = "dropping" /\ job'[w] # "dropping"
            => WithAudio \ WithAudio' \subseteq Due(w, policies.audio, WithAudio)]_vars

(* mod.rs:279-283: the sweeps catch up with whatever is created.  In the end
   nothing is left that a policy drops, for either policy whatever becomes of
   the other's branch, unless it is more at once than a statement takes. *)
Excess(kind) == IF kind = "record" THEN Select(policies.record, Rows)
                                  ELSE Select(policies.audio, WithAudio)
SweepsCatchUp ==
  \A kind \in {"record", "audio"} :
    \/ <>[](Excess(kind) = {})
    \/ <>[](Cardinality(Excess(kind)) > MaxParams)
=============================================================================
