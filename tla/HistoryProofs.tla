---------------------------- MODULE HistoryProofs ----------------------------
(***************************************************************************)
(* Proofs about History: rows and audio files fit together at every step,  *)
(* for any number of records, workers, faults and policies.                *)
(***************************************************************************)
EXTENDS History, FiniteInduction

(* A record has a row only once its create is over, and workers know of
   records from their rows. *)
WorkersKnowRows ==
  /\ \A r \in Records : row[r] # "none" => create[r] = "over"
  /\ \A w \in Workers : \A r \in todo[w] \cup safe[w] : create[r] = "over"

(* What a create is about to name is there. *)
NamedIsThere == \A r \in Records : create[r] = "named" => r \in file

(* The files of ids that a worker got through are gone, but for those that no
   row ever named. *)
SafeIsGone ==
  \A w \in Workers : job[w] \in Walking => \A r \in safe[w] : r \in file => r \in lost

Inv == /\ TypeOK /\ WorkersKnowRows /\ NamedIsThere /\ SafeIsGone
       /\ NoStrayFiles /\ GoneAudioIsAccounted

(* retention.rs: whatever the policy, only candidates are selected. *)
LEMMA SelectsCandidates ==
  ASSUME NEW policy, NEW C, NEW b, NEW size, NEW a
  PROVE  SelectToDelete(policy, C, b, size, a) \subseteq C
  BY DEF SelectToDelete, SelectOlderThanDays, SelectExcessByCount, SelectExcessBySize

USE DEF TypeOK, table, worker, ghosts, Rows, WithAudio, Walking, Listed, Fault

LEMMA InitInv == Init => Inv
  BY HistoryAssumption
  DEF Init, Inv, WorkersKnowRows, NamedIsThere, SafeIsGone, NoStrayFiles,
      GoneAudioIsAccounted

(* Creates touch no worker, and workers none of the records they make. *)
LEMMA CreateKeepsInv ==
  ASSUME Inv, NEW r \in Records, CreateStep(r) \/ CreateDropped(r)
  PROVE  Inv'
  <1> USE HistoryAssumption
  <1> USE DEF Inv, WorkersKnowRows, NamedIsThere, SafeIsGone, NoStrayFiles, GoneAudioIsAccounted
  <1>1. CASE WriteWav(r) BY <1>1 DEF WriteWav
  <1>2. CASE Insert(r)
    <2>1. TypeOK' BY <1>2 DEF Insert
    <2>2. (WorkersKnowRows /\ NamedIsThere /\ SafeIsGone)' BY <1>2 DEF Insert
    <2>3. NoStrayFiles' BY <1>2 DEF Insert
    <2>4. GoneAudioIsAccounted' BY <1>2 DEF Insert
    <2> QED BY <2>1, <2>2, <2>3, <2>4
  <1>3. CASE InsertFails(r) BY <1>3 DEF InsertFails
  <1>4. CASE Undo(r) BY <1>4 DEF Undo
  <1>5. CASE CreateDropped(r) BY <1>5 DEF CreateDropped
  <1> QED BY <1>1, <1>2, <1>3, <1>4, <1>5 DEF CreateStep

(* Listing touches rows and files not at all. *)
LEMMA ListKeepsInv ==
  ASSUME Inv, NEW w \in Workers, NEW what \in Listed,
         NEW policy, NEW C \in SUBSET Rows, List(w, what, Select(policy, C)),
         job[w] \notin Walking
  PROVE  Inv'
  <1>1. Select(policy, C) \subseteq C BY SelectsCandidates DEF Select
  <1> QED BY <1>1 DEF List, Inv, WorkersKnowRows, NamedIsThere, SafeIsGone,
             NoStrayFiles, GoneAudioIsAccounted

LEMMA WalkKeepsInv ==
  ASSUME Inv, NEW w \in Workers, NEW what \in Walking, NEW ids \in SUBSET Records,
         Walk(w, what, ids), job[w] \notin Walking,
         UNCHANGED <<table, file, create, policies, faults, ghosts>>
  PROVE  Inv'
  BY DEF Walk, Inv, WorkersKnowRows, NamedIsThere, SafeIsGone, NoStrayFiles,
         GoneAudioIsAccounted

LEMMA RemoveKeepsInv ==
  ASSUME Inv, NEW w \in Workers, NEW r \in Records, RemoveFile(w, r)
  PROVE  Inv'
  <1> USE HistoryAssumption
  <1> USE DEF RemoveFile, Inv
  <1>1. TypeOK' BY DEF Takes
  <1>2. WorkersKnowRows' BY DEF WorkersKnowRows
  <1>3. NamedIsThere' BY DEF NamedIsThere, WorkersKnowRows
  <1>4. SafeIsGone' BY DEF SafeIsGone
  <1>5. NoStrayFiles' BY DEF NoStrayFiles
  <1>6. GoneAudioIsAccounted' BY DEF GoneAudioIsAccounted
  <1> QED BY <1>1, <1>2, <1>3, <1>4, <1>5, <1>6

(* A worker that is done hands the rows it got through over to the table or
   to the ghosts of those that were cut short. *)
LEMMA EndKeepsInv ==
  ASSUME Inv, NEW w \in Workers, UpdateRows(w) \/ UpdateFails(w) \/ WorkerDropped(w)
  PROVE  Inv'
  <1> USE HistoryAssumption
  <1> USE DEF Done, After, Tear, Inv
  <1>1. CASE UpdateRows(w)
    <2> USE <1>1 DEF UpdateRows
    <2>1. TypeOK' BY DEF Takes
    <2>2. (WorkersKnowRows /\ NamedIsThere)' BY DEF WorkersKnowRows, NamedIsThere
    <2>3. SafeIsGone' BY DEF SafeIsGone
    <2>4. NoStrayFiles' BY DEF NoStrayFiles, SafeIsGone
    <2>5. GoneAudioIsAccounted' BY DEF GoneAudioIsAccounted
    <2> QED BY <2>1, <2>2, <2>3, <2>4, <2>5
  <1>2. CASE UpdateFails(w) \/ WorkerDropped(w)
    <2> USE <1>2 DEF UpdateFails, WorkerDropped
    <2>1. TypeOK' OBVIOUS
    <2>2. (WorkersKnowRows /\ NamedIsThere /\ SafeIsGone)'
      BY DEF WorkersKnowRows, NamedIsThere, SafeIsGone
    <2>3. NoStrayFiles' BY DEF NoStrayFiles
    <2>4. GoneAudioIsAccounted' BY DEF GoneAudioIsAccounted
    <2> QED BY <2>1, <2>2, <2>3, <2>4
  <1> QED BY <1>1, <1>2

LEMMA NextInv == Inv /\ [Next]_vars => Inv'
  <1> SUFFICES ASSUME Inv, [Next]_vars PROVE Inv'
    OBVIOUS
  <1>1. ASSUME NEW r \in Records, CreateStep(r) \/ CreateDropped(r) PROVE Inv'
    BY <1>1, CreateKeepsInv
  <1>2. CASE Age
    BY <1>2 DEF Age, Inv, WorkersKnowRows, NamedIsThere, SafeIsGone, NoStrayFiles,
                GoneAudioIsAccounted
  <1>3. ASSUME NEW w \in Workers, Delete(w) PROVE Inv'
    <2>1. PICK ids \in SUBSET Rows \ {{}} : Walk(w, "deleting", ids)
      BY <1>3 DEF Delete
    <2>2. ids \in SUBSET Records /\ job[w] \notin Walking
      BY <1>3, <2>1 DEF Delete
    <2> QED BY <1>3, <2>1, <2>2, WalkKeepsInv DEF Delete
  <1>4. ASSUME NEW w \in Workers, Sweep(w) PROVE Inv'
    <2>1. /\ List(w, "records", Select(policies.record, Rows))
          /\ Rows \in SUBSET Rows /\ job[w] \notin Walking /\ "records" \in Listed
      BY <1>4 DEF Sweep
    <2> QED BY <2>1, ListKeepsInv
  <1>5. ASSUME NEW w \in Workers, ListAudios(w) PROVE Inv'
    <2>1. /\ List(w, "audios", Select(policies.audio, WithAudio))
          /\ WithAudio \in SUBSET Rows /\ job[w] \notin Walking /\ "audios" \in Listed
      BY <1>5 DEF ListAudios
    <2> QED BY <2>1, ListKeepsInv
  <1>6. ASSUME NEW w \in Workers, Apply(w) PROVE Inv'
    <2> DEFINE what == IF job[w] = "records" THEN "sweeping" ELSE "dropping"
    <2>1. /\ Walk(w, what, todo[w]) /\ what \in Walking /\ job[w] \notin Walking
          /\ UNCHANGED <<table, file, create, policies, faults, ghosts>>
      BY <1>6 DEF Apply
    <2>2. todo[w] \in SUBSET Records BY DEF Inv
    <2> HIDE DEF what
    <2> QED BY <2>1, <2>2, WalkKeepsInv
  <1>7. ASSUME NEW w \in Workers, ApplyNothing(w) PROVE Inv'
    BY <1>7 DEF ApplyNothing, Done, After, Inv, WorkersKnowRows, NamedIsThere, SafeIsGone,
                NoStrayFiles, GoneAudioIsAccounted
  <1>8. ASSUME NEW w \in Workers, UpdateRows(w) \/ UpdateFails(w) \/ WorkerDropped(w)
        PROVE  Inv'
    BY <1>8, EndKeepsInv
  <1>9. ASSUME NEW w \in Workers, NEW r \in Records, RemoveFile(w, r) PROVE Inv'
    BY <1>9, RemoveKeepsInv
  <1>10. CASE UNCHANGED vars
    BY <1>10 DEF vars, Inv, WorkersKnowRows, NamedIsThere, SafeIsGone, NoStrayFiles,
                 GoneAudioIsAccounted
  <1> QED BY <1>1, <1>2, <1>3, <1>4, <1>5, <1>6, <1>7, <1>8, <1>9, <1>10
          DEF Next, WorkerStep

(* The inductive invariant holds in every reachable state. *)
THEOREM HistoryInvariant == Spec => []Inv
  BY InitInv, NextInv, PTL DEF Spec

(* Every variable keeps its shape, whatever fails or is dropped. *)
THEOREM HistoryTypeCorrect == Spec => []TypeOK
  <1>1. Inv => TypeOK BY DEF Inv
  <1> QED BY <1>1, HistoryInvariant, PTL

(* No delete, drop or sweep leaves a file that no row names (mod.rs:168-172). *)
THEOREM HistoryNoStrayFiles == Spec => []NoStrayFiles
  <1>1. Inv => NoStrayFiles BY DEF Inv
  <1> QED BY <1>1, HistoryInvariant, PTL

(* A row names a missing file only while, or because, a worker that removed it
   has not got to its row. *)
THEOREM HistoryGoneAudioIsAccounted == Spec => []GoneAudioIsAccounted
  <1>1. Inv => GoneAudioIsAccounted BY DEF Inv
  <1> QED BY <1>1, HistoryInvariant, PTL


-----------------------------------------------------------------------------
(* retention.rs: the more there is to choose from, the larger and the older it
   is, the more a policy selects of the same records. *)
LEMMA SelectGrows ==
  ASSUME NEW C, NEW D, C \subseteq D, IsFiniteSet(D),
         NEW b, NEW c, \A q \in C : c[q] = b[q],
         NEW size, NEW wide, \A q \in D : size[q] \in {0, 1} /\ wide[q] \in {0, 1},
         \A q \in C : size[q] = 1 => wide[q] = 1,
         NEW a \in Int, NEW late \in Int, a <= late,
         NEW policy, policy.value \in Nat,
         NEW r \in SelectToDelete(policy, C, b, size, a), b[r] \in Int
  PROVE  r \in SelectToDelete(policy, D, c, wide, late)
  <1>1. r \in C /\ r \in D
    BY SelectsCandidates
  <1> DEFINE K == Newer(r, C, b)
             L == Newer(r, D, c)
             limit == policy.value
  <1>2. K \subseteq L /\ L \subseteq D
    BY <1>1 DEF Newer
  <1>3. IsFiniteSet(L)
    BY <1>2, FS_Subset
  <1>4. IsFiniteSet(K) /\ Cardinality(K) <= Cardinality(L)
    BY <1>2, <1>3, FS_Subset
  <1>5. Cardinality(K) \in Nat /\ Cardinality(L) \in Nat
    BY <1>3, <1>4, FS_CardinalityType
  <1>6. CASE policy.type = "Days"
    <2>1. limit > 0 /\ b[r] <= a
      BY <1>6 DEF SelectToDelete, SelectOlderThanDays
    <2>2. c[r] <= late
      BY <1>1, <2>1
    <2> QED BY <1>1, <1>6, <2>1, <2>2 DEF SelectToDelete, SelectOlderThanDays
  <1>7. CASE policy.type = "Count"
    <2> DEFINE n == Cardinality(K)
               m == Cardinality(L)
    <2>1. n >= limit
      BY <1>7 DEF SelectToDelete, SelectExcessByCount
    <2>2. n \in Nat /\ m \in Nat /\ limit \in Nat /\ n <= m
      BY <1>4, <1>5
    <2>3. m >= limit => r \in SelectToDelete(policy, D, c, wide, late)
      BY <1>1, <1>7 DEF SelectToDelete, SelectExcessByCount
    <2> HIDE DEF n, m, limit
    <2> QED BY <2>1, <2>2, <2>3
  <1>8. CASE policy.type = "DiskLimitMb"
    <2> DEFINE P == K \cup {r}
               Q == L \cup {r}
               small == {q \in P : size[q] = 1}
               large == {q \in Q : wide[q] = 1}
    <2>1. Bytes(P, size) > limit
      BY <1>8 DEF SelectToDelete, SelectExcessBySize
    <2>2. Bytes(Q, wide) > limit => r \in SelectToDelete(policy, D, c, wide, late)
      BY <1>1, <1>8 DEF SelectToDelete, SelectExcessBySize
    <2>3. P \subseteq C /\ Q \subseteq D /\ P \subseteq Q
      BY <1>1, <1>2 DEF Newer
    <2>4. IsFiniteSet(P) /\ IsFiniteSet(Q)
      BY <1>3, <1>4, FS_AddElement
    <2> HIDE DEF P, Q, K, L
    <2>5. Bytes(P, size) = SumOver(size, P) /\ Bytes(Q, wide) = SumOver(wide, Q)
      BY Zenon DEF Bytes, SumOver
    <2>6. \A q \in P : size[q] \in {0, 1}
      BY <2>3
    <2>7. \A q \in Q : wide[q] \in {0, 1}
      BY <2>3
    <2>8. SumOver(size, P) = Cardinality(small)
      BY <2>4, <2>6, SumCountsOnes
    <2>9. SumOver(wide, Q) = Cardinality(large)
      BY <2>4, <2>7, SumCountsOnes
    <2>10. small \subseteq large /\ large \subseteq Q
      BY <2>3
    <2>11. IsFiniteSet(large)
      BY <2>4, <2>10, FS_Subset
    <2>12. IsFiniteSet(small) /\ Cardinality(small) <= Cardinality(large)
      BY <2>10, <2>11, FS_Subset
    <2>13. Cardinality(small) \in Nat /\ Cardinality(large) \in Nat
      BY <2>11, <2>12, FS_CardinalityType
    <2> DEFINE n == Cardinality(small)
               m == Cardinality(large)
    <2>14. n \in Nat /\ m \in Nat /\ limit \in Nat /\ n <= m /\ n > limit
      BY <2>1, <2>5, <2>8, <2>12, <2>13
    <2> HIDE DEF n, m, limit
    <2>15. m > limit
      BY <2>14
    <2> QED BY <2>2, <2>5, <2>9, <2>15 DEF m
  <1>9. CASE policy.type \notin {"Days", "Count", "DiskLimitMb"}
    BY <1>9 DEF SelectToDelete
  <1> QED BY <1>6, <1>7, <1>8, <1>9

(* What the records that a sweep works on are due for, by its branch; `beside`
   holds records that had a row. *)
RecordsDue(w) == Due(w, policies.record, Rows)
AudiosDue(w) == Due(w, policies.audio, WithAudio)
Carries(w) ==
  \A r \in todo[w] \cup safe[w] :
    /\ job[w] \in {"records", "sweeping"} => r \in RecordsDue(w)
    /\ job[w] \in {"audios", "dropping"} => r \in AudiosDue(w)
SweepsCarryDue ==
  /\ policies \in Policies
  /\ \A w \in Workers : \A r \in beside[w] : create[r] = "over"
  /\ \A w \in Workers : job[w] \in Listed => safe[w] = {}
  /\ \A w \in Workers : Carries(w)

SweepInv == Inv /\ SweepsCarryDue

(* Records are stamped once, and what is old stays so. *)
LEMMA StampsStay ==
  ASSUME Inv, [Next]_vars
  PROVE  /\ policies' = policies /\ aged <= aged'
         /\ \A r \in Records : create[r] = "over" => create'[r] = "over" /\ born'[r] = born[r]
  <1>1. CASE \E r \in Records : Insert(r)
    BY <1>1 DEF Insert, Inv
  <1>2. CASE Age
    BY <1>2 DEF Age, Inv
  <1>3. CASE \E r \in Records : WriteWav(r) \/ InsertFails(r) \/ Undo(r) \/ CreateDropped(r)
    BY <1>3 DEF WriteWav, InsertFails, Undo, CreateDropped, Inv
  <1>4. ASSUME NEW w \in Workers, Delete(w) \/ Sweep(w) \/ WorkerStep(w) \/ WorkerDropped(w)
        PROVE  UNCHANGED <<born, aged, create, policies>>
    BY <1>4 DEF Delete, Sweep, WorkerStep, WorkerDropped, ListAudios, Apply, ApplyNothing,
                UpdateRows, UpdateFails, RemoveFile, List
  <1>5. CASE UNCHANGED vars
    BY <1>5 DEF vars, Inv
  <1> QED BY <1>1, <1>2, <1>3, <1>4, <1>5 DEF Next, CreateStep, Inv

(* What is gone from the rows or the files is known to w: it was taken beside
   it, or by itself. *)
Known(w) ==
  /\ Rows \subseteq Rows' \cup beside'[w]
  /\ WithAudio \subseteq WithAudio' \cup beside'[w]
  /\ beside[w] \subseteq beside'[w]
  /\ \A r \in Records : create[r] = "over" =>
       (r \in file \cup beside[w] \cup safe[w] => r \in file' \cup beside'[w] \cup safe'[w])

(* As long as that is so, what is due stays due. *)
LEMMA DueStays ==
  ASSUME Inv, Inv', SweepsCarryDue, [Next]_vars, NEW w \in Workers, Known(w),
         NEW r
  PROVE  /\ r \in RecordsDue(w) => r \in RecordsDue(w)'
         /\ r \in AudiosDue(w) => r \in AudiosDue(w)'
  <1>1. /\ policies' = policies /\ aged <= aged'
        /\ \A q \in Records : create[q] = "over" => born'[q] = born[q]
    BY StampsStay
  <1>2. policies.record.value \in Nat /\ policies.audio.value \in Nat
    BY HistoryAssumption DEF SweepsCarryDue
  <1>3. /\ aged \in Int /\ aged' \in Int /\ \A q \in Records : born[q] \in Int
        /\ beside[w] \subseteq Records /\ beside'[w] \subseteq Records
    BY DEF Inv
  <1> DEFINE size == [q \in Records |-> IF q \in file \cup beside[w] \cup safe[w] THEN 1 ELSE 0]
             wide == [q \in Records |-> IF q \in file' \cup beside'[w] \cup safe'[w] THEN 1 ELSE 0]
  <1>4. \A q \in Records : size[q] \in {0, 1} /\ wide[q] \in {0, 1}
    OBVIOUS
  <1>5. \A q \in Records : create[q] = "over" /\ size[q] = 1 => wide[q] = 1
    BY DEF Known
  <1>6. \A q \in Rows \cup beside[w] : q \in Records /\ create[q] = "over"
    BY <1>3 DEF SweepsCarryDue, Inv, WorkersKnowRows
  <1>7. ASSUME NEW policy, policy.value \in Nat, NEW C, NEW D, C \subseteq Rows \cup beside[w],
               C \subseteq D, D \subseteq Records,
               r \in SelectToDelete(policy, C, born, size, aged)
        PROVE  r \in SelectToDelete(policy, D, born', wide, aged')
    <2> HIDE DEF size, wide
    <2>1. IsFiniteSet(D)
      BY <1>7, HistoryAssumption, FS_Subset
    <2>2. r \in C
      BY <1>7, SelectsCandidates
    <2>3. /\ \A q \in C : born'[q] = born[q]
          /\ \A q \in C : size[q] = 1 => wide[q] = 1
          /\ \A q \in D : size[q] \in {0, 1} /\ wide[q] \in {0, 1}
          /\ born[r] \in Int
      BY <1>1, <1>3, <1>4, <1>5, <1>6, <1>7, <2>2
    <2> QED BY <1>1, <1>3, <1>7, <2>1, <2>3, SelectGrows
  <1>8. r \in RecordsDue(w) => r \in RecordsDue(w)'
    <2>1. /\ Rows \cup beside[w] \subseteq Rows' \cup beside'[w]
          /\ Rows' \cup beside'[w] \subseteq Records
      BY <1>3 DEF Known
    <2>2. PICK p : p = policies.record /\ p = policies'.record /\ p.value \in Nat
      BY <1>1, <1>2
    <2>3. /\ RecordsDue(w) = SelectToDelete(p, Rows \cup beside[w], born, size, aged)
          /\ RecordsDue(w)' = SelectToDelete(p, Rows' \cup beside'[w], born', wide, aged')
      BY <2>2 DEF RecordsDue, Due
    <2> HIDE DEF size, wide
    <2> QED BY <1>7, <2>1, <2>2, <2>3
  <1>9. r \in AudiosDue(w) => r \in AudiosDue(w)'
    <2>1. /\ WithAudio \cup beside[w] \subseteq WithAudio' \cup beside'[w]
          /\ WithAudio \cup beside[w] \subseteq Rows \cup beside[w]
          /\ WithAudio' \cup beside'[w] \subseteq Records
      BY <1>3 DEF Known
    <2>2. PICK p : p = policies.audio /\ p = policies'.audio /\ p.value \in Nat
      BY <1>1, <1>2
    <2>3. /\ AudiosDue(w) = SelectToDelete(p, WithAudio \cup beside[w], born, size, aged)
          /\ AudiosDue(w)' = SelectToDelete(p, WithAudio' \cup beside'[w], born', wide, aged')
      BY <2>2 DEF AudiosDue, Due
    <2> HIDE DEF size, wide
    <2> QED BY <1>7, <2>1, <2>2, <2>3
  <1> QED BY <1>8, <1>9

InSweep == Listed \cup {"sweeping", "dropping"}

(* What others do is known to a sweep, *)
LEMMA OthersAreKnown ==
  ASSUME Inv, NEW w \in Workers, NEW v \in Workers, v # w, job[v] \in InSweep,
         Delete(w) \/ Sweep(w) \/ WorkerStep(w) \/ WorkerDropped(w)
  PROVE  /\ Known(v)
         /\ job'[v] = job[v] /\ todo'[v] = todo[v] /\ safe'[v] = safe[v]
  <1> USE DEF InSweep, Known, Inv
  <1>1. CASE Delete(w)
    BY <1>1 DEF Delete, Walk
  <1>2. CASE Sweep(w) \/ ListAudios(w)
    BY <1>2 DEF Sweep, ListAudios, List
  <1>3. CASE Apply(w)
    BY <1>3 DEF Apply, Walk
  <1>4. CASE ApplyNothing(w)
    BY <1>4 DEF ApplyNothing, Done
  <1>5. CASE UpdateFails(w) \/ WorkerDropped(w)
    BY <1>5 DEF UpdateFails, WorkerDropped, Done
  <1>6. CASE UpdateRows(w)
    BY <1>6 DEF UpdateRows, Done, Takes
  <1>7. ASSUME NEW r \in Records, RemoveFile(w, r)
        PROVE  /\ Known(v)
               /\ job'[v] = job[v] /\ todo'[v] = todo[v] /\ safe'[v] = safe[v]
    BY <1>7 DEF RemoveFile, Takes
  <1> QED BY <1>1, <1>2, <1>3, <1>4, <1>5, <1>6, <1>7 DEF WorkerStep

(* so is what creates and time do, *)
LEMMA CreatesAreKnown ==
  ASSUME Inv, NEW v \in Workers,
         (\E r \in Records : CreateStep(r) \/ CreateDropped(r)) \/ Age \/ UNCHANGED vars
  PROVE  Known(v) /\ UNCHANGED worker /\ UNCHANGED beside
  <1> USE DEF Known, Inv
  <1>1. ASSUME NEW r \in Records, WriteWav(r) PROVE Known(v) /\ UNCHANGED worker /\ UNCHANGED beside
    BY <1>1 DEF WriteWav
  <1>2. ASSUME NEW r \in Records, Insert(r) PROVE Known(v) /\ UNCHANGED worker /\ UNCHANGED beside
    BY <1>2 DEF Insert, WorkersKnowRows
  <1>3. ASSUME NEW r \in Records, InsertFails(r) \/ CreateDropped(r)
        PROVE  Known(v) /\ UNCHANGED worker /\ UNCHANGED beside
    BY <1>3 DEF InsertFails, CreateDropped
  <1>4. ASSUME NEW r \in Records, Undo(r) PROVE Known(v) /\ UNCHANGED worker /\ UNCHANGED beside
    BY <1>4 DEF Undo
  <1>5. CASE Age \/ UNCHANGED vars
    BY <1>5 DEF Age, vars
  <1> QED BY <1>1, <1>2, <1>3, <1>4, <1>5 DEF CreateStep

(* and what it does itself. *)
LEMMA OwnStepsCarry ==
  ASSUME SweepInv, Inv', [Next]_vars, NEW w \in Workers,
         Delete(w) \/ Sweep(w) \/ WorkerStep(w) \/ WorkerDropped(w)
  PROVE  Carries(w)' /\ (job'[w] \in Listed => safe'[w] = {})
  <1> USE DEF SweepInv, Inv, Carries
  <1>1. CASE Delete(w)
    BY <1>1 DEF Delete, Walk
  <1>2. CASE Sweep(w)
    <2>1. /\ job'[w] = "records" /\ todo'[w] = Select(policies.record, Rows) /\ safe'[w] = {}
          /\ beside'[w] = {} /\ UNCHANGED <<row, born, aged, file, policies>>
      BY <1>2 DEF Sweep, List
    <2>2. RecordsDue(w)' = Select(policies.record, Rows)
      BY <2>1 DEF RecordsDue, Due, Select, Sizes
    <2> QED BY <2>1, <2>2
  <1>3. CASE ListAudios(w)
    <2>1. /\ job'[w] = "audios" /\ todo'[w] = Select(policies.audio, WithAudio) /\ safe'[w] = {}
          /\ beside'[w] = {} /\ UNCHANGED <<row, born, aged, file, policies>>
      BY <1>3 DEF ListAudios, List
    <2>2. AudiosDue(w)' = Select(policies.audio, WithAudio)
      BY <2>1 DEF AudiosDue, Due, Select, Sizes
    <2> QED BY <2>1, <2>2
  <1>4. CASE Apply(w)
    <2>1. /\ todo'[w] \cup safe'[w] \subseteq todo[w]
          /\ \/ job[w] = "records" /\ job'[w] = "sweeping"
             \/ job[w] = "audios" /\ job'[w] = "dropping"
      BY <1>4 DEF Apply, Walk
    <2>2. Known(w)
      BY <1>4 DEF Apply, SweepsCarryDue, Known
    <2>3. \A r : /\ r \in RecordsDue(w) => r \in RecordsDue(w)'
                 /\ r \in AudiosDue(w) => r \in AudiosDue(w)'
      BY <2>2, DueStays
    <2>4. Carries(w)
      BY DEF SweepsCarryDue
    <2> QED BY <2>1, <2>3, <2>4
  <1>5. CASE ApplyNothing(w) \/ UpdateFails(w) \/ WorkerDropped(w) \/ UpdateRows(w)
    BY <1>5 DEF ApplyNothing, UpdateFails, WorkerDropped, UpdateRows, Done
  <1>6. ASSUME NEW r \in Records, RemoveFile(w, r)
        PROVE  Carries(w)' /\ (job'[w] \in Listed => safe'[w] = {})
    <2>1. /\ job'[w] = job[w] /\ job[w] \in Walking
          /\ todo'[w] \cup safe'[w] \subseteq todo[w] \cup safe[w]
      BY <1>6 DEF RemoveFile
    <2>2. Known(w)
      BY <1>6 DEF RemoveFile, Takes, Known
    <2>3. \A q : /\ q \in RecordsDue(w) => q \in RecordsDue(w)'
                 /\ q \in AudiosDue(w) => q \in AudiosDue(w)'
      BY <2>2, DueStays
    <2>4. Carries(w)
      BY DEF SweepsCarryDue
    <2> QED BY <2>1, <2>3, <2>4
  <1> QED BY <1>1, <1>2, <1>3, <1>4, <1>5, <1>6 DEF WorkerStep

(* What is taken had a row. *)
LEMMA TakenHadRows ==
  ASSUME SweepInv, [Next]_vars, NEW v \in Workers, NEW r \in beside'[v]
  PROVE  create'[r] = "over"
  <1>1. \A q \in Records : create[q] = "over" => create'[q] = "over"
    BY StampsStay DEF SweepInv
  <1>2. /\ \A q \in Records : row[q] # "none" => create[q] = "over"
        /\ \A w \in Workers : \A q \in todo[w] \cup safe[w] : q \in Records /\ create[q] = "over"
        /\ beside \in [Workers -> SUBSET Records]
        /\ \A q \in beside[v] : q \in Records /\ create[q] = "over"
    BY DEF SweepInv, Inv, WorkersKnowRows, SweepsCarryDue
  <1>3. CASE r \in beside[v]
    BY <1>1, <1>2, <1>3
  <1>4. CASE r \notin beside[v]
    <2>1. \/ \E w \in Workers : UpdateRows(w)
          \/ \E w \in Workers, q \in Records : RemoveFile(w, q)
      BY <1>2, <1>4 DEF Next, CreateStep, WriteWav, Insert, InsertFails, Undo, CreateDropped, Age,
         Delete, Sweep, List, WorkerStep, ListAudios, Apply, ApplyNothing, UpdateFails,
         WorkerDropped, vars
    <2>2. CASE \E w \in Workers : UpdateRows(w)
      BY <1>1, <1>2, <1>4, <2>2 DEF UpdateRows, Takes
    <2>3. CASE \E w \in Workers, q \in Records : RemoveFile(w, q)
      BY <1>1, <1>2, <1>4, <2>3 DEF RemoveFile, Takes
    <2> QED BY <2>1, <2>2, <2>3
  <1> QED BY <1>3, <1>4

LEMMA NextSweepInv == SweepInv /\ [Next]_vars => SweepInv'
  <1> SUFFICES ASSUME SweepInv, [Next]_vars PROVE SweepsCarryDue'
    BY NextInv DEF SweepInv
  <1>1. Inv /\ Inv' /\ SweepsCarryDue
    BY NextInv DEF SweepInv
  <1>2. policies' \in Policies
    BY <1>1, StampsStay DEF SweepsCarryDue
  <1>3. \A v \in Workers : \A r \in beside'[v] : create'[r] = "over"
    BY TakenHadRows
  <1>4. ASSUME NEW v \in Workers
        PROVE  Carries(v)' /\ (job'[v] \in Listed => safe'[v] = {})
    <2>1. Carries(v) /\ (job[v] \in Listed => safe[v] = {})
      BY <1>1 DEF SweepsCarryDue
    <2>2. ASSUME Known(v), job'[v] = job[v], todo'[v] = todo[v], safe'[v] = safe[v]
          PROVE  Carries(v)' /\ (job'[v] \in Listed => safe'[v] = {})
      <3>1. \A r : /\ r \in RecordsDue(v) => r \in RecordsDue(v)'
                   /\ r \in AudiosDue(v) => r \in AudiosDue(v)'
        BY <1>1, <2>2, DueStays
      <3> QED BY <2>1, <2>2, <3>1 DEF Carries
    <2>3. CASE (\E r \in Records : CreateStep(r) \/ CreateDropped(r)) \/ Age \/ UNCHANGED vars
      <3>1. Known(v) /\ UNCHANGED worker
        BY <1>1, <2>3, CreatesAreKnown
      <3> QED BY <2>2, <3>1
    <2>4. ASSUME NEW w \in Workers, Delete(w) \/ Sweep(w) \/ WorkerStep(w) \/ WorkerDropped(w)
          PROVE  Carries(v)' /\ (job'[v] \in Listed => safe'[v] = {})
      <3>1. CASE v = w
        BY <1>1, <2>4, <3>1, OwnStepsCarry
      <3>2. CASE v # w /\ job[v] \in InSweep
        BY <1>1, <2>2, <2>4, <3>2, OthersAreKnown
      <3>3. CASE v # w /\ job[v] \notin InSweep
        <4>1. job'[v] = job[v]
          BY <1>1, <2>4, <3>3 DEF Inv, Delete, Walk, Sweep, List, WorkerStep, ListAudios, Apply,
             ApplyNothing, Done, UpdateRows, UpdateFails, RemoveFile, WorkerDropped
        <4> QED BY <3>3, <4>1 DEF Carries, InSweep
      <3> QED BY <3>1, <3>2, <3>3
    <2> QED BY <2>3, <2>4 DEF Next
  <1> QED BY <1>2, <1>3, <1>4 DEF SweepsCarryDue

(* However stale a sweep's listing, and whatever others took meanwhile, what it
   takes is what its policy drops of the rows there are and were (mod.rs:298-339). *)
THEOREM HistorySweepsTakeOnlyExcess == Spec => SweepsTakeOnlyExcess
  <1> DEFINE Takings ==
        \A w \in Workers :
          /\ job[w] = "sweeping" /\ job'[w] # "sweeping"
               => Rows \ Rows' \subseteq Due(w, policies.record, Rows)
          /\ job[w] = "dropping" /\ job'[w] # "dropping"
               => WithAudio \ WithAudio' \subseteq Due(w, policies.audio, WithAudio)
  <1>1. Init => SweepInv
    BY InitInv DEF SweepInv, SweepsCarryDue, Carries, Init
  <1>2. SweepInv /\ [Next]_vars => [Takings]_vars
    <2> SUFFICES ASSUME SweepInv, Next, NEW w \in Workers, job'[w] # job[w],
                        job[w] \in {"sweeping", "dropping"}
                 PROVE  /\ job[w] = "sweeping" => Rows \ Rows' \subseteq RecordsDue(w)
                        /\ job[w] = "dropping" => WithAudio \ WithAudio' \subseteq AudiosDue(w)
      BY DEF RecordsDue, AudiosDue
    <2>1. Inv /\ Carries(w)
      BY DEF SweepInv, SweepsCarryDue
    <2>2. UpdateRows(w) \/ UpdateFails(w) \/ WorkerDropped(w)
      <3>1. ASSUME NEW v \in Workers, v # w,
                   Delete(v) \/ Sweep(v) \/ WorkerStep(v) \/ WorkerDropped(v)
            PROVE  FALSE
        BY <2>1, <3>1, OthersAreKnown DEF InSweep
      <3>2. ASSUME (\E r \in Records : CreateStep(r) \/ CreateDropped(r)) \/ Age
            PROVE  FALSE
        BY <2>1, <3>2, CreatesAreKnown
      <3>3. \/ Delete(w) \/ Sweep(w) \/ WorkerStep(w) \/ WorkerDropped(w)
        BY <3>1, <3>2 DEF Next
      <3> QED BY <3>3 DEF Delete, Sweep, WorkerStep, ListAudios, Apply, ApplyNothing, RemoveFile
    <2>3. CASE UpdateRows(w)
      <3>1. /\ Rows \ Rows' \subseteq safe[w]
            /\ WithAudio \ WithAudio' \subseteq safe[w]
        BY <2>1, <2>3 DEF UpdateRows, Inv
      <3> QED BY <2>1, <3>1 DEF Carries
    <2>4. CASE UpdateFails(w) \/ WorkerDropped(w)
      BY <2>4 DEF UpdateFails, WorkerDropped
    <2> QED BY <2>2, <2>3, <2>4
  <1> QED BY <1>1, <1>2, NextSweepInv, PTL DEF Spec, SweepsTakeOnlyExcess
=============================================================================
