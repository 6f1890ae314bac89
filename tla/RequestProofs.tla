---------------------------- MODULE RequestProofs ----------------------------
(***************************************************************************)
(* Theorems about requests: what they are read as (byte ranges, audio      *)
(* samples and API keys), for every header, file and table; and the jobs   *)
(* of the asynchronous ones, for every set of jobs, every cap, every time  *)
(* to live and every bound on the clock.                                   *)
(***************************************************************************)
EXTENDS ByteRange, AudioInput, ApiKeys, JobStore, FiniteSetTheorems, TLAPS

-----------------------------------------------------------------------------
(* What a well-formed header asks for, as the offsets it names *)
WellFormed(h) ==
  /\ h.read /\ h.from.kind # "other" /\ h.to.kind # "other"
  /\ h.from.kind = "number" \/ h.to.kind = "number"
Asked(h, total) ==
  {i \in 0 .. total - 1 :
     IF h.from.kind = "absent" THEN i >= total - h.to.n
     ELSE i >= h.from.n /\ (h.to.kind = "number" => i <= h.to.n)}

(* range.rs:29-68: for every header and every length, what parse answers lies
   within the file, so that the slice of audio_response cannot panic. *)
THEOREM SliceIsWithin ==
  ASSUME NEW h \in Header, NEW total \in Nat
  PROVE  LET r == Parse(h, total)
         IN /\ r.kind \in {"whole", "slice", "unsatisfiable"}
            /\ r.kind = "slice" => /\ r.start \in Nat /\ r.end \in Nat
                                   /\ r.start <= r.end /\ r.end < total
  BY DEF Parse, Slice, Whole, Unsatisfiable, Header, Bound, Lesser, Greater

(* range.rs:1-14: a well-formed header is answered by exactly the bytes of the
   file that it names, and refused only when it names none. *)
THEOREM SliceIsWhatWasAsked ==
  ASSUME NEW h \in Header, NEW total \in Nat \ {0}, WellFormed(h)
  PROVE  LET r == Parse(h, total)
         IN IF Asked(h, total) = {} THEN r = Unsatisfiable
            ELSE r.kind = "slice" /\ r.start .. r.end = Asked(h, total)
<1> DEFINE r == Parse(h, total)
<1> USE DEF Header, Bound
<1>1. CASE h.from.kind = "absent"
  <2>1. h.to.kind = "number"
    BY <1>1 DEF WellFormed
  <2>2. CASE h.to.n = 0
    <3>1. Asked(h, total) = {}
      BY <1>1, <2>2 DEF Asked
    <3>2. r = Unsatisfiable
      BY <1>1, <2>1, <2>2 DEF Parse, WellFormed
    <3> QED
      BY <3>1, <3>2
  <2>3. CASE h.to.n > 0
    <3> DEFINE start == Greater(total - h.to.n, 0)
    <3>1. start \in Nat /\ start <= total - 1
      BY <2>3 DEF Greater
    <3>2. r = [kind |-> "slice", start |-> start, end |-> total - 1]
      BY <1>1, <2>1, <2>3, <3>1 DEF Parse, WellFormed, Slice
    <3>3. Asked(h, total) = start .. total - 1
      BY <1>1, <2>3, <3>1 DEF Asked, Greater
    <3>4. start \in Asked(h, total)
      BY <3>1, <3>3
    <3> QED
      BY <3>2, <3>3, <3>4
  <2> QED
    BY <2>2, <2>3
<1>2. CASE h.from.kind = "number"
  <2> DEFINE end == IF h.to.kind = "number" THEN Lesser(h.to.n, total - 1) ELSE total - 1
  <2>1. end \in Nat /\ end <= total - 1
    BY DEF Lesser
  <2>2. r = Slice(h.from.n, end, total)
    BY <1>2 DEF Parse, WellFormed
  <2>3. Asked(h, total) = {i \in 0 .. total - 1 : h.from.n <= i /\ i <= end}
    BY <1>2 DEF Asked, WellFormed, Lesser
  <2>4. Asked(h, total) = h.from.n .. end
    BY <2>1, <2>3
  <2>5. CASE h.from.n > end
    <3>1. Asked(h, total) = {}
      BY <2>1, <2>4, <2>5
    <3>2. r = Unsatisfiable
      BY <2>2, <2>5 DEF Slice
    <3> QED
      BY <3>1, <3>2
  <2>6. CASE h.from.n <= end
    <3>1. h.from.n \in Asked(h, total)
      BY <2>1, <2>4, <2>6
    <3>2. r = [kind |-> "slice", start |-> h.from.n, end |-> end]
      BY <2>1, <2>2, <2>6 DEF Slice
    <3> QED
      BY <2>4, <3>1, <3>2
  <2> QED
    BY <2>1, <2>5, <2>6
<1> QED
  BY <1>1, <1>2 DEF WellFormed

-----------------------------------------------------------------------------
(* resample.rs:199-200: the shift carries the sign: the 24-bit sample is the
   two's complement of its bytes. *)
THEOREM TwentyFourBitsAreSigned ==
  ASSUME NEW b0 \in Byte, NEW b1 \in Byte, NEW b2 \in Byte
  PROVE  /\ Sample24(b0, b1, b2) = b0 + 256 * b1 + 65536 * (IF b2 < 128 THEN b2 ELSE b2 - 256)
         /\ 0 - 8388608 <= Sample24(b0, b1, b2) /\ Sample24(b0, b1, b2) < 8388608
<1>1. PICK hi \in Int : /\ hi = (IF b2 < 128 THEN b2 ELSE b2 - 256)
                         /\ 0 - 128 <= hi /\ hi <= 127
  <2>1. CASE b2 < 128
    BY <2>1 DEF Byte
  <2>2. CASE b2 >= 128
    BY <2>2 DEF Byte
  <2> QED
    BY <2>1, <2>2 DEF Byte
<1>2. AsI32(256 * b0 + 65536 * b1 + 16777216 * b2) = 256 * (b0 + 256 * b1 + 65536 * hi)
  BY <1>1 DEF AsI32, Byte
<1>3. PICK value \in Int : value = b0 + 256 * b1 + 65536 * hi
  BY <1>1 DEF Byte
<1>4. Sample24(b0, b1, b2) = value
  <2>1. (256 * value) \div 256 = value
    OBVIOUS
  <2> QED
    BY <1>2, <1>3, <2>1 DEF Sample24
<1>5. 0 - 8388608 <= value /\ value < 8388608
  BY <1>1, <1>3 DEF Byte
<1> QED
  BY <1>1, <1>3, <1>4, <1>5

(* wav_writer.rs:1-7, 17-19: what a 16-bit sample was decoded to is written back
   as the same 16 bits: the archive is lossless. *)
THEOREM ArchiveIsLossless ==
  ASSUME NEW b0 \in Byte, NEW b1 \in Byte
  PROVE  Write16(Sample16(b0, b1)) = Sample16(b0, b1)
  BY DEF Write16, Sample16, Byte

(* resample.rs:32-110, one turn of the loop: wherever it is, what it has found so
   far lies in the file, so that the slice of the samples cannot panic. *)
Within(s, len) == s.pos \in Nat /\ (s.data # <<>> => s.data[1].offset \in Nat /\ s.data[1].offset <= len)
THEOREM ScanStaysWithin ==
  ASSUME NEW len \in Nat, NEW c \in Chunk, NEW s, Within(s, len),
         s = [pos |-> s.pos, fmt |-> s.fmt, data |-> s.data, state |-> s.state]
  PROVE  Within(ScanChunk(s, c, len), len)
<1>1. Padded(c.size) \in Nat
  BY DEF Padded, Chunk
<1>2. CASE s.state # "scanning" \/ s.pos + 8 > len
  BY <1>2 DEF ScanChunk
<1>3. CASE BadFmt(c, s.pos, len) /\ ~(s.state # "scanning" \/ s.pos + 8 > len)
  BY <1>3 DEF ScanChunk, Within
<1>4. CASE ~BadFmt(c, s.pos, len) /\ ~(s.state # "scanning" \/ s.pos + 8 > len)
  BY <1>1, <1>4 DEF ScanChunk, Within
<1> QED
  BY <1>2, <1>3, <1>4

-----------------------------------------------------------------------------
(* keys.rs:149-156: a key that is configured has its row, under the name and
   the flag it was configured with, and hashes stay unique. *)
THEOREM EnsureClaims ==
  ASSUME NEW keys \in SUBSET Key, Unique(keys),
         NEW id \in Ids, Named(keys, id) = {},
         NEW h \in Hashes, NEW name \in STRING, NEW system \in BOOLEAN
  PROVE  /\ Unique(Ensure(keys, id, h, name, system))
         /\ \E k \in Ensure(keys, id, h, name, system) :
              k.hash = h /\ k.name = name /\ k.system = system
<1> DEFINE new == Ensure(keys, id, h, name, system)
           row == [id |-> id, hash |-> h, name |-> name, system |-> system]
           claimed(k) == IF k.hash = h THEN [k EXCEPT !.name = name, !.system = system] ELSE k
<1>1. CASE Hashed(keys, h) = {}
  <2>1. new = keys \cup {row}
    BY <1>1 DEF Ensure
  <2>2. \A k \in keys : k.id # row.id /\ k.hash # row.hash
    BY <1>1 DEF Hashed, Named
  <2>3. Unique(new)
    BY <2>1, <2>2 DEF Unique
  <2>4. row \in new /\ row.hash = h /\ row.name = name /\ row.system = system
    BY <2>1
  <2> QED
    BY <2>3, <2>4
<1>2. CASE Hashed(keys, h) # {}
  <2>1. new = {claimed(k) : k \in keys}
    BY <1>2 DEF Ensure
  <2>2. \A k \in keys : claimed(k).id = k.id /\ claimed(k).hash = k.hash
    BY DEF Key
  <2>3. \A k \in keys : k.hash = h => claimed(k).name = name /\ claimed(k).system = system
    BY DEF Key
  <2> HIDE DEF claimed
  <2>4. Unique(new)
    <3>1. \A k, l \in keys : claimed(k).id = claimed(l).id \/ claimed(k).hash = claimed(l).hash => k = l
      BY <2>2 DEF Unique
    <3> QED
      BY <2>1, <3>1 DEF Unique
  <2>5. PICK k \in keys : k.hash = h
    BY <1>2 DEF Hashed
  <2> QED
    BY <2>1, <2>2, <2>3, <2>4, <2>5
<1> QED
  BY <1>1, <1>2

(* keys.rs:206-209: whatever is deleted, the system's keys stay and go on
   answering to their hash, and no other key than the one named is lost. *)
THEOREM DeleteSparesSystemKeys ==
  ASSUME NEW keys \in SUBSET Key, Unique(keys), NEW id \in Ids
  PROVE  /\ \A k \in keys \ Delete(keys, id) : k.id = id /\ ~k.system
         /\ \A k \in keys : k.system => Verify(Delete(keys, id), k.hash) = {k.id}
<1>1. \A k \in keys \ Delete(keys, id) : k.id = id /\ ~k.system
  BY DEF Delete, IsSystem, Named
<1>2. ASSUME NEW k \in keys, k.system
      PROVE  Verify(Delete(keys, id), k.hash) = {k.id}
  <2>1. k \in Delete(keys, id) /\ Delete(keys, id) \subseteq keys
    BY <1>1, <1>2 DEF Delete
  <2>2. Hashed(Delete(keys, id), k.hash) = {k}
    BY <2>1 DEF Hashed, Unique
  <2> QED
    BY <2>2 DEF Verify
<1> QED
  BY <1>1, <1>2

-----------------------------------------------------------------------------
(* The jobs of asynchronous requests. *)

(* A job that is not in the store yet has neither a record nor a cancel. *)
Unborn == \A j \in Jobs :
  worker[j] \in {"none", "submitting"} => status[j] = "absent" /\ j \notin cancelled

CreatedInThePast == \A j \in Jobs : createdAt[j] <= clock

PeakCounts == Cardinality(Processing) <= peak

(* The inductive invariant. *)
JobInv ==
  /\ TypeOK
  /\ Unborn
  /\ CreatedInThePast
  /\ PeakCounts
  /\ WorkMeetsJob
  /\ BoundedByLoad

-----------------------------------------------------------------------------
(* Sets of jobs are finite, and larger sets count no less. *)
LEMMA CountJobs ==
  ASSUME NEW S \in SUBSET Jobs
  PROVE  /\ Cardinality(S) \in Nat
         /\ \A T \in SUBSET S : Cardinality(T) <= Cardinality(S)
         /\ \A T \in SUBSET S : Cardinality(S \ T) = Cardinality(S) - Cardinality(T)
         /\ \A j \in Jobs \ S : Cardinality(S \cup {j}) = Cardinality(S) + 1
<1>1. IsFiniteSet(S)
  BY JobAssumption, FS_Subset
<1>2. ASSUME NEW T \in SUBSET S
      PROVE  /\ Cardinality(T) <= Cardinality(S)
             /\ Cardinality(S \ T) = Cardinality(S) - Cardinality(T)
  <2>1. S \cap T = T
    OBVIOUS
  <2>2. Cardinality(T) <= Cardinality(S)
    BY <1>1, FS_Subset, Zenon
  <2>3. Cardinality(S \ T) = Cardinality(S) - Cardinality(S \cap T)
    BY <1>1, FS_Difference, Zenon
  <2> QED
    BY <2>1, <2>2, <2>3, Zenon
<1>3. Cardinality(S) \in Nat
  BY <1>1, FS_CardinalityType
<1>4. \A j \in Jobs \ S : Cardinality(S \cup {j}) = Cardinality(S) + 1
  BY <1>1, FS_AddElement
<1> QED
  BY <1>2, <1>3, <1>4

(* What both passes of a sweep leave: nothing finished when that is more than
   the target, and nothing less than the target if it takes what is not expired. *)
Left(E) == Stored \ (Expired \cup E)

LEMMA SweepLeaves ==
  ASSUME TypeOK, NEW target \in Nat, NEW E \in SUBSET Stored, Sweeps(target, E)
  PROVE  /\ E \subseteq Finished \ Expired
         /\ Cardinality(Left(E)) <= target \/ Left(E) \subseteq Processing
         /\ E # {} => Cardinality(Left(E)) >= target
         /\ E # {} => Cardinality(Stored) > target
         /\ \A e \in E, k \in Left(E) \cap Finished : createdAt[e] <= createdAt[k]
<1> DEFINE kept == Stored \ Expired
           excess == Cardinality(kept) - target
<1>1. Stored \subseteq Jobs /\ Finished \subseteq Stored /\ Expired \subseteq Finished
      /\ kept \subseteq Jobs /\ kept \in SUBSET Stored /\ Stored \ Finished \subseteq Processing
  BY DEF Stored, Finished, Expired, Processing, Terminal, TypeOK
<1>2. E \subseteq Finished \ Expired /\ E \subseteq kept /\ Left(E) = kept \ E
  BY <1>1 DEF Sweeps, Left
<1>3. /\ Cardinality(kept) \in Nat /\ Cardinality(E) \in Nat
      /\ Cardinality(Left(E)) = Cardinality(kept) - Cardinality(E)
      /\ Cardinality(Stored) \in Nat /\ Cardinality(kept) <= Cardinality(Stored)
  BY <1>1, <1>2, CountJobs
<1>4. \A e \in E, k \in Left(E) \cap Finished : createdAt[e] <= createdAt[k]
  BY <1>1, <1>2 DEF Sweeps
<1>5. CASE excess <= 0 /\ E = {}
  BY <1>2, <1>3, <1>4, <1>5
<1>6. CASE excess > 0 /\ E = Finished \ Expired /\ Cardinality(E) <= excess
  <2>1. Left(E) \subseteq Processing
    BY <1>1, <1>2, <1>6
  <2> QED
    BY <1>2, <1>3, <1>4, <1>6, <2>1
<1>7. CASE excess > 0 /\ Cardinality(E) = excess
  BY <1>2, <1>3, <1>4, <1>7
<1> QED
  BY <1>5, <1>6, <1>7 DEF Sweeps

LEMMA InitJobs == Init => JobInv
<1> SUFFICES ASSUME Init PROVE JobInv
  OBVIOUS
<1>1. Finished = {} /\ Processing = {} /\ Stored = {}
  BY DEF Init, Finished, Terminal, Processing, Stored
<1>2. TypeOK
  BY <1>1 DEF Init, TypeOK
<1>3. Unborn /\ CreatedInThePast /\ WorkMeetsJob
  BY DEF Init, Unborn, CreatedInThePast, WorkMeetsJob
<1>4. Cardinality({}) = 0
  BY FS_EmptySet
<1>5. PeakCounts /\ BoundedByLoad
  BY <1>1, <1>4, JobAssumption DEF Init, PeakCounts, BoundedByLoad
<1> QED
  BY <1>2, <1>3, <1>5 DEF JobInv

(* Steps that start no job: what is stored and what runs only shrinks. *)
LEMMA ShrinkingKeepsBounds ==
  ASSUME JobInv, Stored' \subseteq Stored, Processing' \subseteq Processing, peak' = peak
  PROVE  PeakCounts' /\ BoundedByLoad'
<1>1. Stored \in SUBSET Jobs /\ Processing \in SUBSET Jobs
  BY DEF Stored, Processing
<1>2. /\ Cardinality(Stored') <= Cardinality(Stored)
      /\ Cardinality(Processing') <= Cardinality(Processing)
      /\ Cardinality(Stored) \in Nat /\ Cardinality(Processing) \in Nat
      /\ Cardinality(Stored') \in Nat /\ Cardinality(Processing') \in Nat
  BY <1>1, CountJobs
<1> QED
  BY <1>2, JobAssumption DEF JobInv, TypeOK, PeakCounts, BoundedByLoad

(* The record that Insert writes, and the room it made for it. *)
LEMMA InsertPreserves ==
  ASSUME JobInv, NEW j \in Jobs, Insert(j)
  PROVE  JobInv'
<1> USE DEF JobInv
<1>1. PICK E \in SUBSET Stored :
        LET gone == IF Cardinality(Stored) >= MaxJobs THEN Expired \cup E ELSE {}
        IN /\ IF Cardinality(Stored) >= MaxJobs THEN Sweeps(MaxJobs - 1, E) ELSE E = {}
           /\ status' = [k \in Jobs |-> IF k = j THEN "Processing"
                                        ELSE IF k \in gone THEN "absent" ELSE status[k]]
  BY DEF Insert
<1> DEFINE gone == IF Cardinality(Stored) >= MaxJobs THEN Expired \cup E ELSE {}
           rest == Stored \ gone
<1>2. /\ worker[j] = "submitting" /\ worker' = [worker EXCEPT ![j] = "spawned"]
      /\ peak' = IF Cardinality(Processing') > peak THEN Cardinality(Processing') ELSE peak
      /\ UNCHANGED <<createdAt, completedAt, sweeping, clock, cancelled>>
  BY DEF Insert, stamps
<1>3. /\ status' = [k \in Jobs |-> IF k = j THEN "Processing"
                                   ELSE IF k \in gone THEN "absent" ELSE status[k]]
      /\ Cardinality(Stored) >= MaxJobs => Sweeps(MaxJobs - 1, E)
  BY <1>1
<1>4. gone \subseteq Finished
  <2>1. CASE Cardinality(Stored) >= MaxJobs
    BY <1>3, <2>1 DEF Sweeps, Expired
  <2> QED
    BY <2>1
<1> HIDE DEF gone
<1>5. j \notin Stored /\ j \notin cancelled /\ status[j] = "absent"
  BY <1>2 DEF Unborn, Stored
<1>6. Stored' = rest \cup {j} /\ rest \subseteq Jobs /\ j \notin rest
  BY <1>3, <1>5 DEF Stored, TypeOK
<1>7. Processing' = Processing \cup {j} /\ Processing \subseteq Stored
  BY <1>3, <1>4 DEF Processing, Finished, Terminal, Stored, TypeOK
<1>8. Cardinality(Processing') \in Nat
  BY <1>7, CountJobs DEF Processing
<1>9. TypeOK'
  <2>1. \A k \in Finished' : k \in Finished
    BY <1>3 DEF Finished, Terminal, TypeOK
  <2> QED
    BY <1>2, <1>3, <1>8, <2>1 DEF TypeOK, Terminal
<1>10. Unborn' /\ CreatedInThePast'
  BY <1>2, <1>3 DEF Unborn, CreatedInThePast, TypeOK
<1>11. PeakCounts'
  BY <1>2, <1>8 DEF PeakCounts, TypeOK
<1>12. WorkMeetsJob'
  <2>1. ASSUME NEW k \in Jobs, k # j
        PROVE  status'[k] = "Processing" <=> status[k] = "Processing"
    BY <1>3, <1>4, <2>1 DEF Finished, Terminal
  <2> QED
    BY <1>2, <1>3, <1>5, <2>1 DEF WorkMeetsJob, TypeOK
<1>13. BoundedByLoad'
  <2>1. Cardinality(Stored') = Cardinality(rest) + 1 /\ Cardinality(rest) \in Nat
    BY <1>6, CountJobs
  <2>2. CASE Cardinality(Stored) >= MaxJobs
    <3>1. rest = Left(E)
      BY <2>2 DEF gone, Left
    <3>2. Cardinality(rest) <= MaxJobs - 1 \/ rest \subseteq Processing
      <4>1. MaxJobs - 1 \in Nat
        BY JobAssumption
      <4> QED
        BY <1>3, <2>2, <3>1, <4>1, SweepLeaves
    <3>3. CASE Cardinality(rest) <= MaxJobs - 1
      BY <2>1, <3>3, JobAssumption DEF BoundedByLoad
    <3>4. CASE rest \subseteq Processing
      <4>1. Stored' \subseteq Processing'
        BY <1>6, <1>7, <3>4
      <4>2. Cardinality(Stored') <= Cardinality(Processing')
        BY <4>1, <1>7, CountJobs DEF Processing
      <4> QED
        BY <1>2, <1>8, <2>1, <4>2 DEF BoundedByLoad, TypeOK
    <3> QED
      BY <3>2, <3>3, <3>4
  <2>3. CASE ~(Cardinality(Stored) >= MaxJobs)
    <3>1. rest = Stored /\ Cardinality(Stored) \in Nat
      BY <2>3, CountJobs DEF gone, Stored
    <3> QED
      BY <2>1, <2>3, <3>1, JobAssumption DEF BoundedByLoad
  <2> QED
    BY <2>2, <2>3
<1> QED
  BY <1>9, <1>10, <1>11, <1>12, <1>13

LEMMA SweepPreserves ==
  ASSUME JobInv, Sweep
  PROVE  JobInv'
<1> USE DEF JobInv
<1>1. PICK E \in SUBSET Stored :
        /\ Sweeps(MaxJobs, E)
        /\ status' = [j \in Jobs |-> IF j \in Expired \cup E THEN "absent" ELSE status[j]]
  BY DEF Sweep
<1>2. sweeping' = FALSE
      /\ UNCHANGED <<createdAt, completedAt, worker, clock, cancelled, peak>>
  BY DEF Sweep, stamps
<1>3. Expired \cup E \subseteq Finished
  BY <1>1 DEF Sweeps, Expired
<1>4. \A j \in Jobs : status'[j] = "Processing" <=> status[j] = "Processing"
  BY <1>1, <1>3 DEF Finished, Terminal
<1>5. \A j \in Finished' : j \in Finished
  BY <1>1 DEF Finished, Terminal, TypeOK
<1>6. TypeOK'
  BY <1>1, <1>2, <1>5 DEF TypeOK, Terminal
<1>7. Unborn' /\ CreatedInThePast' /\ WorkMeetsJob'
  BY <1>1, <1>2, <1>4 DEF Unborn, CreatedInThePast, WorkMeetsJob
<1>8. Stored' \subseteq Stored /\ Processing' \subseteq Processing
  BY <1>1, <1>4 DEF Stored, Processing
<1> QED
  BY <1>2, <1>6, <1>7, <1>8, ShrinkingKeepsBounds

LEMMA CancelPreserves ==
  ASSUME JobInv, NEW j \in Jobs, Cancel(j)
  PROVE  JobInv'
<1> USE DEF JobInv
<1>1. UNCHANGED <<createdAt, worker, sweeping, clock, peak>>
  BY DEF Cancel
<1>2. CASE /\ status[j] = "Processing"
           /\ status' = [status EXCEPT ![j] = "Cancelled"]
           /\ completedAt' = [completedAt EXCEPT ![j] = clock]
           /\ cancelled' = cancelled \cup {j}
  <2>1. TypeOK'
    BY <1>1, <1>2 DEF TypeOK, Terminal, Finished, CreatedInThePast
  <2>2. Unborn' /\ CreatedInThePast' /\ WorkMeetsJob'
    BY <1>1, <1>2 DEF Unborn, CreatedInThePast, WorkMeetsJob, TypeOK
  <2>3. Stored' \subseteq Stored /\ Processing' \subseteq Processing
    BY <1>2 DEF Stored, Processing, TypeOK
  <2> QED
    BY <1>1, <2>1, <2>2, <2>3, ShrinkingKeepsBounds
<1>3. CASE /\ j \in Finished
           /\ status' = [status EXCEPT ![j] = "absent"]
           /\ UNCHANGED <<completedAt, cancelled>>
  <2>1. TypeOK'
    BY <1>1, <1>3 DEF TypeOK, Terminal, Finished
  <2>2. Unborn' /\ CreatedInThePast' /\ WorkMeetsJob'
    BY <1>1, <1>3 DEF Unborn, CreatedInThePast, WorkMeetsJob, TypeOK, Finished, Terminal
  <2>3. Stored' \subseteq Stored /\ Processing' \subseteq Processing
    BY <1>3 DEF Stored, Processing, TypeOK
  <2> QED
    BY <1>1, <2>1, <2>2, <2>3, ShrinkingKeepsBounds
<1> QED
  BY <1>2, <1>3 DEF Cancel

LEMMA FinishPreserves ==
  ASSUME JobInv, NEW j \in Jobs, NEW terminal \in {"Completed", "Failed"},
         Finish(j, terminal)
  PROVE  JobInv'
<1> USE DEF JobInv
<1>1. worker[j] = "running" /\ worker' = [worker EXCEPT ![j] = "over"]
      /\ UNCHANGED <<createdAt, sweeping, clock, cancelled, peak>>
  BY DEF Finish
<1>2. CASE /\ status[j] = "Processing"
           /\ status' = [status EXCEPT ![j] = terminal]
           /\ completedAt' = [completedAt EXCEPT ![j] = clock]
  <2>1. TypeOK'
    BY <1>1, <1>2 DEF TypeOK, Terminal, Finished, CreatedInThePast
  <2>2. Unborn' /\ CreatedInThePast' /\ WorkMeetsJob'
    BY <1>1, <1>2 DEF Unborn, CreatedInThePast, WorkMeetsJob, TypeOK
  <2>3. Stored' \subseteq Stored /\ Processing' \subseteq Processing
    BY <1>2 DEF Stored, Processing, TypeOK
  <2> QED
    BY <1>1, <2>1, <2>2, <2>3, ShrinkingKeepsBounds
<1>3. CASE status[j] # "Processing" /\ UNCHANGED <<status, completedAt>>
  <2>1. TypeOK' /\ Unborn' /\ CreatedInThePast' /\ WorkMeetsJob'
    BY <1>1, <1>3
    DEF TypeOK, Terminal, Finished, Unborn, CreatedInThePast, WorkMeetsJob
  <2>2. Stored' = Stored /\ Processing' = Processing
    BY <1>3 DEF Stored, Processing
  <2> QED
    BY <1>1, <2>1, <2>2, ShrinkingKeepsBounds
<1> QED
  BY <1>2, <1>3 DEF Finish

LEMMA NextJobs == JobInv /\ [Next]_vars => JobInv'
<1> SUFFICES ASSUME JobInv, [Next]_vars PROVE JobInv'
  OBVIOUS
<1> USE DEF JobInv
<1>0. ASSUME UNCHANGED <<status, peak>>
      PROVE  PeakCounts' /\ BoundedByLoad'
  BY <1>0, ShrinkingKeepsBounds DEF Stored, Processing
<1>1. ASSUME NEW j \in Jobs, Submit(j) PROVE JobInv'
  <2>1. TypeOK' /\ Unborn' /\ CreatedInThePast' /\ WorkMeetsJob'
    BY <1>1 DEF Submit, TypeOK, Terminal, Finished, Unborn, CreatedInThePast, WorkMeetsJob
  <2> QED
    BY <1>0, <1>1, <2>1 DEF Submit
<1>2. ASSUME NEW j \in Jobs, Insert(j) PROVE JobInv'
  BY <1>2, InsertPreserves
<1>3. ASSUME NEW j \in Jobs, SubmitDropped(j) PROVE JobInv'
  <2>1. TypeOK' /\ Unborn' /\ CreatedInThePast' /\ WorkMeetsJob'
    BY <1>3 DEF SubmitDropped, stamps, TypeOK, Terminal, Finished, Unborn,
                CreatedInThePast, WorkMeetsJob
  <2> QED
    BY <1>0, <1>3, <2>1 DEF SubmitDropped
<1>4. ASSUME NEW j \in Jobs, Preflight(j) PROVE JobInv'
  <2>1. TypeOK' /\ Unborn' /\ CreatedInThePast'
    BY <1>4 DEF Preflight, stamps, TypeOK, Terminal, Finished, Unborn, CreatedInThePast
  <2>2. WorkMeetsJob'
    BY <1>4 DEF Preflight, WorkMeetsJob, TypeOK
  <2> QED
    BY <1>0, <1>4, <2>1, <2>2 DEF Preflight
<1>5. ASSUME NEW j \in Jobs, Cancel(j) PROVE JobInv'
  BY <1>5, CancelPreserves
<1>6. ASSUME NEW j \in Jobs, NEW terminal \in {"Completed", "Failed"}, Finish(j, terminal)
      PROVE  JobInv'
  BY <1>6, FinishPreserves
<1>7. CASE SweepLook
  <2>1. TypeOK' /\ Unborn' /\ CreatedInThePast' /\ WorkMeetsJob'
    BY <1>7 DEF SweepLook, stamps, TypeOK, Terminal, Finished, Unborn,
                CreatedInThePast, WorkMeetsJob
  <2> QED
    BY <1>0, <1>7, <2>1 DEF SweepLook
<1>8. CASE Sweep
  BY <1>8, SweepPreserves
<1>9. CASE Tick
  <2>1. TypeOK' /\ Unborn' /\ CreatedInThePast' /\ WorkMeetsJob'
    BY <1>9 DEF Tick, stamps, TypeOK, Terminal, Finished, Unborn,
                CreatedInThePast, WorkMeetsJob
  <2> QED
    BY <1>0, <1>9, <2>1 DEF Tick
<1>10. CASE UNCHANGED vars
  <2>1. TypeOK' /\ Unborn' /\ CreatedInThePast' /\ WorkMeetsJob'
    BY <1>10 DEF vars, stamps, TypeOK, Terminal, Finished, Unborn,
                 CreatedInThePast, WorkMeetsJob
  <2> QED
    BY <1>0, <1>10, <2>1 DEF vars
<1> QED
  BY <1>1, <1>2, <1>3, <1>4, <1>5, <1>6, <1>7, <1>8, <1>9, <1>10 DEF Next

-----------------------------------------------------------------------------
(* The inductive invariant holds in every reachable state of the store. *)
THEOREM JobInvariant == Spec => []JobInv
  BY InitJobs, NextJobs, PTL DEF Spec

(* Every variable keeps its shape, and no job ends before it was created. *)
THEOREM JobTypeCorrect == Spec => []TypeOK
<1>1. JobInv => TypeOK
  BY DEF JobInv
<1> QED
  BY <1>1, JobInvariant, PTL

(* job.rs:76-77: no sweep, cancel or late result parts a running worker from
   its record, and no record waits for a worker that is gone. *)
THEOREM JobWorkMeetsJob == Spec => []WorkMeetsJob
<1>1. JobInv => WorkMeetsJob
  BY DEF JobInv
<1> QED
  BY <1>1, JobInvariant, PTL

(* job.rs:105-112: the store outgrows its cap only as far as jobs have been in
   flight together. *)
THEOREM JobBoundedByLoad == Spec => []BoundedByLoad
<1>1. JobInv => BoundedByLoad
  BY DEF JobInv
<1> QED
  BY <1>1, JobInvariant, PTL

(* job.rs:5-7: a job that ended keeps the way it ended, whatever its worker and
   its client still do, until its record goes. *)
THEOREM JobOnceTerminal == Spec => OnceTerminal
<1>1. ASSUME JobInv, [Next]_vars, NEW j \in Finished
      PROVE  status'[j] \in {status[j], "absent"}
  <2>0. /\ TypeOK /\ Unborn /\ j \in Jobs
        /\ status[j] \in Terminal /\ status[j] # "Processing" /\ status[j] # "absent"
    BY <1>1 DEF JobInv, Finished, Terminal
  <2>1. ASSUME NEW k \in Jobs, Insert(k) PROVE status'[j] \in {status[j], "absent"}
    <3>1. k # j
      BY <2>0, <2>1 DEF Insert, Unborn
    <3> QED
      BY <2>0, <2>1, <3>1 DEF Insert
  <2>2. ASSUME NEW k \in Jobs, Cancel(k) PROVE status'[j] \in {status[j], "absent"}
    BY <2>0, <2>2 DEF Cancel, TypeOK
  <2>3. ASSUME NEW k \in Jobs, NEW terminal \in {"Completed", "Failed"}, Finish(k, terminal)
        PROVE  status'[j] \in {status[j], "absent"}
    BY <2>0, <2>3 DEF Finish, TypeOK
  <2>4. CASE Sweep
    BY <2>0, <2>4 DEF Sweep
  <2>5. CASE UNCHANGED status
    BY <2>5
  <2> QED
    BY <1>1, <2>1, <2>2, <2>3, <2>4, <2>5
    DEF Next, Submit, SubmitDropped, Preflight, SweepLook, Tick, vars
<1>2. JobInv /\ [Next]_vars => [\A j \in Finished : status'[j] \in {status[j], "absent"}]_vars
  BY <1>1
<1> QED
  BY <1>2, JobInvariant, PTL DEF Spec, OnceTerminal

-----------------------------------------------------------------------------
(* What ResultsAreKept says of a step. *)
Kept(j) ==
  status'[j] = "absent" /\ <<worker, sweeping>>' # <<worker, sweeping>> =>
    /\ Cardinality(Stored) >= MaxJobs /\ Cardinality(Stored') >= MaxJobs
    /\ \A k \in Finished' \cap Finished : createdAt[j] <= createdAt[k]

LEMMA InsertKeeps ==
  ASSUME JobInv, NEW n \in Jobs, Insert(n), NEW j \in Finished \ Expired
  PROVE  Kept(j)
<1> USE DEF JobInv
<1>1. SUFFICES ASSUME status'[j] = "absent"
               PROVE  /\ Cardinality(Stored) >= MaxJobs /\ Cardinality(Stored') >= MaxJobs
                      /\ \A k \in Finished' \cap Finished : createdAt[j] <= createdAt[k]
  BY DEF Kept
<1>2. PICK E \in SUBSET Stored :
        LET gone == IF Cardinality(Stored) >= MaxJobs THEN Expired \cup E ELSE {}
        IN /\ IF Cardinality(Stored) >= MaxJobs THEN Sweeps(MaxJobs - 1, E) ELSE E = {}
           /\ status' = [k \in Jobs |-> IF k = n THEN "Processing"
                                        ELSE IF k \in gone THEN "absent" ELSE status[k]]
  BY DEF Insert
<1>3. j \in Jobs /\ status[j] \in Terminal /\ status[j] # "absent" /\ n \notin Stored
  BY DEF Finished, Terminal, Insert, Unborn, Stored
<1>4. Cardinality(Stored) >= MaxJobs /\ j \in E
  BY <1>1, <1>2, <1>3
<1>5. /\ Sweeps(MaxJobs - 1, E) /\ MaxJobs - 1 \in Nat
      /\ status' = [k \in Jobs |-> IF k = n THEN "Processing"
                                   ELSE IF k \in Expired \cup E THEN "absent" ELSE status[k]]
  BY <1>2, <1>4, JobAssumption
<1>6. Stored' = Left(E) \cup {n} /\ Left(E) \subseteq Jobs /\ n \notin Left(E)
  BY <1>3, <1>5 DEF Stored, Left
<1>7. /\ Cardinality(Left(E)) >= MaxJobs - 1
      /\ \A k \in Left(E) \cap Finished : createdAt[j] <= createdAt[k]
  BY <1>4, <1>5, SweepLeaves
<1>8. Cardinality(Left(E)) \in Nat /\ Cardinality(Stored') = Cardinality(Left(E)) + 1
  BY <1>6, CountJobs
<1>9. Finished' \cap Finished \subseteq Left(E) \cap Finished
  BY <1>3, <1>5 DEF Finished, Stored, Left, Terminal
<1> QED
  BY <1>4, <1>7, <1>8, <1>9, JobAssumption

LEMMA SweepKeeps ==
  ASSUME JobInv, Sweep, NEW j \in Finished \ Expired
  PROVE  Kept(j)
<1> USE DEF JobInv
<1>1. SUFFICES ASSUME status'[j] = "absent"
               PROVE  /\ Cardinality(Stored) >= MaxJobs /\ Cardinality(Stored') >= MaxJobs
                      /\ \A k \in Finished' \cap Finished : createdAt[j] <= createdAt[k]
  BY DEF Kept
<1>2. PICK E \in SUBSET Stored :
        /\ Sweeps(MaxJobs, E)
        /\ status' = [k \in Jobs |-> IF k \in Expired \cup E THEN "absent" ELSE status[k]]
  BY DEF Sweep
<1>3. j \in Jobs /\ status[j] \in Terminal /\ status[j] # "absent"
  BY DEF Finished, Terminal
<1>4. j \in E
  BY <1>1, <1>2, <1>3
<1>5. Stored' = Left(E) /\ Left(E) \subseteq Jobs
  BY <1>2 DEF Stored, Left
<1>6. /\ Cardinality(Left(E)) >= MaxJobs /\ Cardinality(Stored) > MaxJobs
      /\ \A k \in Left(E) \cap Finished : createdAt[j] <= createdAt[k]
  BY <1>2, <1>4, SweepLeaves, JobAssumption
<1>7. Cardinality(Stored) \in Nat
  BY CountJobs DEF Stored
<1>8. Finished' \cap Finished \subseteq Left(E) \cap Finished
  BY <1>2 DEF Finished, Stored, Left, Terminal
<1> QED
  BY <1>5, <1>6, <1>7, <1>8, JobAssumption

(* job.rs:73-77, 192-194: a result that its client did not delete and that is
   not past its time goes only from a full store, and before a younger one. *)
THEOREM JobResultsAreKept == Spec => ResultsAreKept
<1>1. ASSUME JobInv, [Next]_vars, NEW j \in Finished \ Expired
      PROVE  Kept(j)
  <2>1. ASSUME NEW k \in Jobs, Insert(k) PROVE Kept(j)
    BY <1>1, <2>1, InsertKeeps
  <2>2. CASE Sweep
    BY <1>1, <2>2, SweepKeeps
  <2>3. ASSUME NEW k \in Jobs, NEW terminal \in {"Completed", "Failed"}, Finish(k, terminal)
        PROVE  Kept(j)
    BY <1>1, <2>3 DEF JobInv, Finish, Kept, TypeOK, Finished, Terminal
  <2>4. CASE UNCHANGED status
    BY <2>4 DEF Kept, Finished, Terminal
  <2>5. CASE UNCHANGED <<worker, sweeping>>
    BY <2>5 DEF Kept
  <2> QED
    BY <1>1, <2>1, <2>2, <2>3, <2>4, <2>5
    DEF Next, Submit, SubmitDropped, Preflight, Cancel, SweepLook, Tick, vars
<1>2. JobInv /\ [Next]_vars => [\A j \in Finished \ Expired : Kept(j)]_vars
  BY <1>1
<1> QED
  BY <1>2, JobInvariant, PTL DEF Spec, ResultsAreKept, Kept
=============================================================================
