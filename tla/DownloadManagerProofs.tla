------------------------ MODULE DownloadManagerProofs ------------------------
(***************************************************************************)
(* Proofs about DownloadManager: what holds of the queue, its slots, the   *)
(* board and the files for any number of Variants, requests, concurrent    *)
(* cancels and restarts, and any limit.                                    *)
(***************************************************************************)
EXTENDS DownloadManager, FunctionTheorems, SequenceTheorems, FiniteInduction

Waiting == {"unused", "queued"}

(* Whoever asked has a Variant, and is not cancelled before it has a slot. *)
RequestsKnown ==
  \A d \in Downloads :
    /\ pc[d] # "unused" => variant[d] \in Variants
    /\ call[d] # "over" => pc[d] # "unused"
    /\ pc[d] \in Waiting => token[d] # "cancelled"

(* A slot is held by a download of its Variant, which has left the queue. *)
SlotsKnown ==
  \A v \in Variants : active[v] # NoDownload =>
    variant[active[v]] = v /\ pc[active[v]] \notin Waiting

(* A cancel knows its Variant, and the download it tears down is signalled. *)
CancelsKnown ==
  \A c \in Cancellers :
    /\ cpc[c] # "idle" => cvariant[c] \in Variants
    /\ cpc[c] \in {"teardown", "release"} => ctarget[c] \in Downloads
    /\ ctarget[c] # NoDownload => token[ctarget[c]] = "cancelled"

(* Each Variant is asked for once, in the queue or in a slot: what a promotion
   takes is a slot nobody has. *)
QueueApart ==
  /\ \A i \in DOMAIN pending : active[variant[pending[i]]] = NoDownload
  /\ \A i, j \in DOMAIN pending : variant[pending[i]] = variant[pending[j]] => i = j

WithinLimit == Cardinality(Occupied) <= MaxActive

(* HeldSlotsAreFreed, with the cancel that frees a slot known to be one of the
   download in it: only then does a cancel that is dropped abandon it. *)
SlotsHaveOwners ==
  \A v \in Occupied :
    \/ Live(active[v])
    \/ pc[active[v]] \in TailPhase
    \/ \E c \in Cancellers : /\ cvariant[c] = v /\ cpc[c] \in {"teardown", "release"}
                             /\ ctarget[c] = active[v]
    \/ active[v] \in abandoned

(* A .part is one Variant's, and whoever writes to it is a task of that one. *)
FilesApart ==
  /\ \A v, w \in Variants : part[v] # NoFile /\ part[v] = part[w] => v = w
  /\ \A d \in Downloads, v \in Variants :
       handle[d] # NoFile /\ handle[d] = part[v] => variant[d] = v
  /\ \A d \in Downloads :
       /\ pc[d] \in {"stream", "publish"} => handle[d] # NoFile
       /\ pc[d] \in Waiting => handle[d] = NoFile

(* A rename is past the point from which no cancel takes effect. *)
RenamesAreCommitted == \A d \in Downloads : pc[d] = "rename" => token[d] = "committed"

(* What a digest was right for stays so until it is renamed. *)
CheckedIsWhole ==
  robbed = {} => \A d \in Downloads :
    pc[d] \in {"commit", "rename"} /\ token[d] # "cancelled" => Whole(variant[d])

(* A late clear takes the entry of no download but one that was first shown
   after the look. *)
ClearsTakeCrossed ==
  \A d, e \in Downloads :
    /\ pc[d] = "clear" /\ variant[d] = variant[e]
    /\ Live(e) /\ pc[e] \in TaskPhase /\ e \notin robbed
    => e \in crossed

(* TypeOK in two parts: the queue, and everything else. *)
Queueing ==
  /\ pending \in Seq(Downloads)
  /\ \A i \in 1 .. Len(pending) : pc[pending[i]] = "queued"
  /\ \A i, j \in 1 .. Len(pending) : pending[i] = pending[j] => i = j

Shape ==
  /\ active \in [Variants -> Downloads \cup {NoDownload}]
  /\ board \in [Variants -> {NoEntry, "Queued", "Downloading", "Verifying",
                             "Completed", "Failed"}]
  /\ variant \in [Downloads -> Variants \cup {NoVariant}]
  /\ token \in [Downloads -> {"running", "cancelled", "committed"}]
  /\ pc \in [Downloads -> Phase]
  /\ call \in [Downloads -> {"starting", "parking", "over"}]
  /\ offset \in [Downloads -> 0 .. Chunks]
  /\ handle \in [Downloads -> Inodes \cup {NoFile}]
  /\ part \in [Variants -> Inodes \cup {NoFile}]
  /\ dest \in [Variants -> (0 .. Chunks) \cup {Garbled, NoFile}]
  /\ content \in [Inodes -> (0 .. Chunks) \cup {Garbled}]
  /\ cpc \in [Cancellers -> {"idle", "erase", "teardown", "release"}]
  /\ ctarget \in [Cancellers -> Downloads \cup {NoDownload}]
  /\ cvariant \in [Cancellers -> Variants \cup {NoVariant}]
  /\ restarts \in 0 .. MaxRestarts
  /\ robbed \subseteq Downloads /\ abandoned \subseteq Downloads
  /\ crossed \subseteq Downloads

QueueInv == /\ Queueing /\ Shape /\ RequestsKnown /\ SlotsKnown /\ CancelsKnown
            /\ QueueApart /\ WithinLimit /\ QueuedOnlyWhenFull
            /\ LiveDownloadsHoldSlots /\ SlotsHaveOwners

FileInv == /\ FilesApart /\ RenamesAreCommitted /\ CheckedIsWhole /\ InstalledIsWhole
           /\ FetchingIsShown /\ ClearsTakeCrossed

DownloadInv == QueueInv /\ FileInv

(* A sequence over a set is one over any set its elements are in. *)
LEMMA ElementsMakeSeq ==
  ASSUME NEW S, NEW T, NEW s \in Seq(S), \A i \in 1 .. Len(s) : s[i] \in T
  PROVE  s \in Seq(T)
  BY SeqDef, LenProperties, Z3

LEMMA TypeOKInParts == TypeOK <=> Queueing /\ Shape
  <1> DEFINE Q == {d \in Downloads : pc[d] = "queued"}
  <1>1. ASSUME pending \in Seq(Q)
        PROVE  /\ pending \in Seq(Downloads)
               /\ \A i \in 1 .. Len(pending) : pc[pending[i]] = "queued"
               /\ DOMAIN pending = 1 .. Len(pending)
    <2>1. \A i \in 1 .. Len(pending) : pending[i] \in Q
      BY <1>1, ElementOfSeq
    <2>2. \A i \in 1 .. Len(pending) : pending[i] \in Downloads
      BY <2>1
    <2> QED BY <1>1, <2>1, <2>2, ElementsMakeSeq, LenProperties
  <1>2. ASSUME Queueing PROVE pending \in Seq(Q) /\ DOMAIN pending = 1 .. Len(pending)
    <2>1. \A i \in 1 .. Len(pending) : pending[i] \in Q
      BY <1>2, ElementOfSeq DEF Queueing
    <2> QED BY <1>2, <2>1, ElementsMakeSeq, LenProperties DEF Queueing
  <1> QED BY <1>1, <1>2 DEF TypeOK, Queueing, Shape

LEMMA OccupiedIsFinite ==
  /\ IsFiniteSet(Occupied)
  /\ Cardinality(Occupied) \in Nat
  BY DownloadAssumption, FS_Subset, FS_CardinalityType DEF Occupied

LEMMA InitDownloads == Init => DownloadInv
  <1> SUFFICES ASSUME Init PROVE DownloadInv
    OBVIOUS
  <1> USE DownloadAssumption
  <1>1. Queueing /\ Shape
    BY DEF Init, Queueing, Shape, Phase, Inodes, Downloads
  <1>2. RequestsKnown /\ SlotsKnown /\ CancelsKnown /\ QueueApart /\ QueuedOnlyWhenFull
    BY DEF Init, RequestsKnown, SlotsKnown, CancelsKnown, QueueApart, QueuedOnlyWhenFull,
           Waiting
  <1>3. Occupied = {} /\ Cardinality(Occupied) = 0
    BY FS_EmptySet DEF Init, Occupied
  <1>4. LiveDownloadsHoldSlots /\ SlotsHaveOwners /\ WithinLimit
    BY <1>3 DEF Init, LiveDownloadsHoldSlots, SlotsHaveOwners, WithinLimit, Live, Claimed,
                TaskPhase, TailPhase
  <1>5. FileInv
    BY DEF Init, FileInv, FilesApart, RenamesAreCommitted, CheckedIsWhole, InstalledIsWhole, FetchingIsShown,
           ClearsTakeCrossed, Live, Claimed, TaskPhase, TailPhase, Waiting
  <1> QED BY <1>1, <1>2, <1>4, <1>5 DEF DownloadInv, QueueInv

-----------------------------------------------------------------------------
(* What a task, and the call that starts it, do with a request that is out of
   the queue, but for giving its slot back. *)
OwnStep(d, p) ==
  /\ pc[d] \notin Waiting /\ p \in Phase \ Waiting
  /\ pc' = [pc EXCEPT ![d] = p]
  /\ UNCHANGED <<queue, variant, cancels>>
  /\ \/ token' = token
     \/ token[d] = "running" /\ token' = [token EXCEPT ![d] = "committed"]
  /\ \A e \in Downloads : call'[e] # "over" => call[e] # "over"
  /\ robbed \subseteq robbed' /\ abandoned \subseteq abandoned'
  /\ p \in Claimed => pc[d] \in Claimed
  /\ pc[d] \in TailPhase => p \in TailPhase
  /\ pc[d] \in Claimed => p \in Claimed \/ token[d] = "cancelled" \/ d \in abandoned'

(* ... keeps the queue, the slots and their owners in order. *)
LEMMA OwnStepKeepsQueue ==
  ASSUME QueueInv, NEW d \in Downloads, NEW p, OwnStep(d, p), Shape'
  PROVE  QueueInv'
  <1> USE DownloadAssumption
  <1> USE DEF OwnStep, QueueInv, queue, cancels
  <1>1. Queueing'
    BY ElementOfSeq DEF Queueing, Shape, Waiting
  <1>2. RequestsKnown'
    BY DEF RequestsKnown, Shape, Waiting
  <1>3. SlotsKnown' /\ CancelsKnown'
    BY DEF SlotsKnown, CancelsKnown, Shape
  <1>4. QueueApart' /\ QueuedOnlyWhenFull' /\ WithinLimit'
    BY DEF QueueApart, QueuedOnlyWhenFull, WithinLimit, Occupied
  <1>5. \A e \in Downloads : Live(e)' => Live(e)
    BY DEF Live, Shape
  <1>6. LiveDownloadsHoldSlots'
    BY <1>5 DEF LiveDownloadsHoldSlots
  <1>7. SlotsHaveOwners'
    BY DEF SlotsHaveOwners, Live, Shape, Occupied, TailPhase, Claimed
  <1> QED BY <1>1, <1>2, <1>3, <1>4, <1>6, <1>7

(* SequencesExt's RemoveAt, element by element. *)
LEMMA RemoveAtProperties ==
  ASSUME NEW S, NEW s \in Seq(S), NEW i \in 1 .. Len(s)
  PROVE  /\ RemoveAt(s, i) \in Seq(S)
         /\ Len(RemoveAt(s, i)) = Len(s) - 1
         /\ \A n \in 1 .. Len(s) - 1 :
              RemoveAt(s, i)[n] = IF n < i THEN s[n] ELSE s[n + 1]
<1> DEFINE a == SubSeq(s, 1, i - 1)
           b == SubSeq(s, i + 1, Len(s))
<1>1. Len(s) \in Nat /\ \A n \in 1 .. Len(s) : s[n] \in S
  BY ElementOfSeq, LenProperties
<1>2. /\ a \in Seq(S) /\ Len(a) = i - 1
      /\ \A n \in 1 .. i - 1 : a[n] = s[n]
  <2>1. \A n \in 1 .. i - 1 : s[n] \in S
    BY <1>1
  <2> QED
    BY <1>1, <2>1, SubSeqProperties, Z3
<1>3. /\ b \in Seq(S) /\ Len(b) = Len(s) - i
      /\ \A n \in 1 .. Len(s) - i : b[n] = s[n + i]
  <2>1. \A n \in i + 1 .. Len(s) : s[n] \in S
    BY <1>1
  <2> QED
    BY <1>1, <2>1, SubSeqProperties, Z3
<1>4. RemoveAt(s, i) = a \o b
  BY DEF RemoveAt
<1> HIDE DEF a, b
<1>5. /\ a \o b \in Seq(S)
      /\ Len(a \o b) = Len(a) + Len(b)
      /\ \A n \in 1 .. Len(a) + Len(b) :
           (a \o b)[n] = IF n <= Len(a) THEN a[n] ELSE b[n - Len(a)]
  BY <1>2, <1>3, ConcatProperties
<1> QED
  BY <1>1, <1>2, <1>3, <1>4, <1>5

(* The queue without its k-th request, be it the first that is promoted or the
   one that is cancelled. *)
Shrinks(k) ==
  /\ k \in 1 .. Len(pending)
  /\ pending' \in Seq(Downloads) /\ Len(pending') = Len(pending) - 1
  /\ \A n \in 1 .. Len(pending) - 1 :
       pending'[n] = IF n < k THEN pending[n] ELSE pending[n + 1]

LEMMA ShrunkQueue ==
  ASSUME Queueing, QueueApart, NEW k, Shrinks(k), variant' = variant
  PROVE  /\ DOMAIN pending = 1 .. Len(pending) /\ DOMAIN pending' = 1 .. Len(pending')
         /\ Len(pending) \in Nat
         /\ \A n \in 1 .. Len(pending') :
              /\ pending'[n] \in Downloads /\ pc[pending'[n]] = "queued"
              /\ pending'[n] # pending[k] /\ variant[pending'[n]] # variant[pending[k]]
              /\ active[variant[pending'[n]]] = NoDownload
         /\ \A m, n \in 1 .. Len(pending') :
              \/ pending'[m] = pending'[n]
              \/ variant[pending'[m]] = variant[pending'[n]]
              => m = n
  <1> DEFINE at(n) == IF n < k THEN n ELSE n + 1
  <1>1. /\ Len(pending) \in Nat /\ DOMAIN pending = 1 .. Len(pending)
        /\ DOMAIN pending' = 1 .. Len(pending')
        /\ \A n \in 1 .. Len(pending') : pending'[n] \in Downloads
    BY ElementOfSeq, LenProperties DEF Queueing, Shrinks
  <1>2. /\ k \in 1 .. Len(pending)
        /\ \A n \in 1 .. Len(pending') :
             at(n) \in 1 .. Len(pending) /\ at(n) # k /\ pending'[n] = pending[at(n)]
        /\ \A m, n \in 1 .. Len(pending') : at(m) = at(n) => m = n
    BY <1>1 DEF Shrinks
  <1> HIDE DEF at
  <1>3. \A n \in 1 .. Len(pending') :
          /\ pc[pending'[n]] = "queued"
          /\ pending'[n] # pending[k] /\ variant[pending'[n]] # variant[pending[k]]
          /\ active[variant[pending'[n]]] = NoDownload
    BY <1>1, <1>2 DEF Queueing, QueueApart
  <1>4. \A m, n \in 1 .. Len(pending') :
          \/ pending'[m] = pending'[n]
          \/ variant[pending'[m]] = variant[pending'[n]]
          => m = n
    BY <1>1, <1>2 DEF Queueing, QueueApart
  <1> QED BY <1>1, <1>3, <1>4

(* A new .part gets an inode that nothing names. *)
LEMMA FreshIsFree ==
  ASSUME Shape, NEW v \in Variants, part[v] = NoFile
  PROVE  FreshInode \in Inodes \ Linked
  <1> DEFINE V == Variants \ {v}
             parts == {part[w] : w \in V}
             handles == {handle[d] : d \in Downloads}
             f == [w \in V |-> part[w]]
             h == [d \in Downloads |-> handle[d]]
             D == Cardinality(Variants)
  <1>1. /\ IsFiniteSet(V) /\ Cardinality(V) = D - 1 /\ D \in Nat
        /\ IsFiniteSet(Downloads) /\ Cardinality(Downloads) = MaxDownloads
        /\ MaxDownloads \in Nat
    <2>1. IsFiniteSet(V) /\ Cardinality(V) = D - 1 /\ D \in Nat
      BY DownloadAssumption, FS_RemoveElement, FS_CardinalityType
    <2>2. MaxDownloads \in Nat
      BY DownloadAssumption
    <2>3. IsFiniteSet(Downloads) /\ Cardinality(Downloads) = MaxDownloads
      BY <2>2, FS_Interval DEF Downloads
    <2> QED BY <2>1, <2>2, <2>3
  <1>2. IsFiniteSet(parts) /\ Cardinality(parts) <= D - 1 /\ Cardinality(parts) \in Nat
    <2>1. f \in Surjection(V, parts)
      BY DEF Surjection
    <2> QED BY <1>1, <2>1, FS_Surjection, FS_CardinalityType
  <1>3. /\ IsFiniteSet(handles) /\ Cardinality(handles) <= MaxDownloads
        /\ Cardinality(handles) \in Nat
    <2>1. h \in Surjection(Downloads, handles)
      BY DEF Surjection
    <2> QED BY <1>1, <2>1, FS_Surjection, FS_CardinalityType
  <1> HIDE DEF parts, handles, D
  <1>4. /\ IsFiniteSet(parts \cup handles)
        /\ Cardinality(parts \cup handles) <= D - 1 + MaxDownloads
        /\ Cardinality(parts \cup handles) \in Nat
    <2>1. /\ IsFiniteSet(parts \cup handles)
          /\ Cardinality(parts \cup handles)
               = Cardinality(parts) + Cardinality(handles) - Cardinality(parts \cap handles)
      BY <1>2, <1>3, FS_Union
    <2>2. Cardinality(parts \cap handles) \in Nat /\ Cardinality(parts \cup handles) \in Nat
      BY <1>2, <2>1, FS_Subset, FS_CardinalityType
    <2> QED BY <1>1, <1>2, <1>3, <2>1, <2>2
  <1>5. ~(Inodes \subseteq parts \cup handles)
    <2>1. Cardinality(Inodes) = MaxDownloads + D
      BY <1>1, FS_Interval DEF Inodes, D
    <2> QED BY <1>1, <1>4, <2>1, FS_Subset
  <1>6. Linked \cap Inodes \subseteq parts \cup handles
    BY DownloadAssumption DEF Linked, parts, handles
  <1>7. \E i \in Inodes : i \notin Linked
    BY <1>5, <1>6
  <1> QED BY <1>7 DEF FreshInode

LEMMA FreeSlotShape ==
  ASSUME Queueing, Shape, NEW v \in Variants, NEW d \in Downloads,
         NEW after \in [Downloads -> Phase], FreeSlot(v, d, after),
         UNCHANGED <<board, variant, token, call, offset, handle, files, restarts, abandoned,
                     crossed>>,
         cpc' \in [Cancellers -> {"idle", "erase", "teardown", "release"}],
         ctarget' \in [Cancellers -> Downloads \cup {NoDownload}],
         cvariant' \in [Cancellers -> Variants \cup {NoVariant}]
  PROVE  Shape'
  <1>1. pending # <<>> => Head(pending) \in Downloads
    BY HeadTailProperties DEF Queueing
  <1>2. active' \in [Variants -> Downloads \cup {NoDownload}]
    BY <1>1 DEF FreeSlot, Shape
  <1>3. pc' \in [Downloads -> Phase]
    BY <1>1 DEF FreeSlot, Phase, Claimed
  <1> QED BY <1>2, <1>3 DEF FreeSlot, Robs, Shape, files

(* finish, and phase 3 of cancel: the slot of v is freed for d, and whoever
   waits longest takes one in its place. *)
LEMMA FreeSlotKeepsQueue ==
  ASSUME QueueInv, Shape', UNCHANGED <<variant, token, call, abandoned>>,
         NEW v \in Variants, NEW d \in Downloads, NEW after \in [Downloads -> Phase],
         FreeSlot(v, d, after),
         active[v] = d => after[d] \notin Claimed \/ token[d] = "cancelled",
         \A e \in Downloads : after[e] # pc[e] =>
           e = d /\ variant[e] = v /\ pc[e] \notin Waiting
                 /\ after[e] \notin Waiting \cup Claimed,
         \A c \in Cancellers :
           \/ cpc'[c] = cpc[c] /\ ctarget'[c] = ctarget[c] /\ cvariant'[c] = cvariant[c]
           \/ cvariant[c] = v /\ cpc'[c] = "idle" /\ ctarget'[c] = NoDownload
  PROVE  QueueInv'
  <1> DEFINE freed == active[v] # NoDownload
             next  == IF freed /\ pending # <<>> THEN Head(pending) ELSE NoDownload
  <1> USE DownloadAssumption
  <1> USE DEF QueueInv
  <1>1. /\ active' = [w \in Variants |->
                       IF next # NoDownload /\ w = variant[next] THEN next
                       ELSE IF w = v THEN NoDownload ELSE active[w]]
        /\ pending' = IF next # NoDownload THEN Tail(pending) ELSE pending
        /\ pc' = IF next # NoDownload THEN [after EXCEPT ![next] = "launch"] ELSE after
        /\ robbed' = robbed \cup ({active[v]} \ {d, NoDownload})
    BY DEF FreeSlot, Robs
  <1>2. /\ Len(pending) \in Nat /\ DOMAIN pending = 1 .. Len(pending)
        /\ \A i \in 1 .. Len(pending) : pending[i] \in Downloads
    BY ElementOfSeq, LenProperties DEF Queueing
  <1>3. ASSUME next # NoDownload
        PROVE  /\ freed /\ next = pending[1] /\ next \in Downloads /\ Shrinks(1)
               /\ pending # <<>>
    <2>1. /\ pending # <<>> /\ freed /\ next = Head(pending) /\ pending' = Tail(pending)
      BY <1>1, <1>3
    <2>2. Len(pending) \in Nat \ {0} /\ Head(pending) = pending[1]
      BY <2>1, EmptySeq DEF Queueing
    <2>3. /\ Tail(pending) \in Seq(Downloads) /\ Len(Tail(pending)) = Len(pending) - 1
          /\ \A i \in 1 .. Len(Tail(pending)) : Tail(pending)[i] = pending[i + 1]
      BY <2>1, HeadTailProperties DEF Queueing
    <2> QED BY <1>2, <2>1, <2>2, <2>3 DEF Shrinks
  <1>4. ASSUME next # NoDownload
        PROVE  /\ pc[next] = "queued" /\ token[next] # "cancelled"
               /\ variant[next] \in Variants /\ active[variant[next]] = NoDownload
               /\ variant[next] # v
    <2>1. next \in Downloads /\ 1 \in DOMAIN pending /\ next = pending[1] /\ freed
      BY <1>2, <1>3, <1>4 DEF Shrinks
    <2> HIDE DEF next
    <2>2. pc[next] = "queued"
      BY <1>2, <2>1 DEF Queueing
    <2>3. token[next] # "cancelled" /\ variant[next] \in Variants
      BY <2>1, <2>2 DEF RequestsKnown, Waiting
    <2>4. active[variant[next]] = NoDownload
      BY <2>1 DEF QueueApart
    <2> QED BY <2>1, <2>2, <2>3, <2>4
  <1>5. next = NoDownload => pending' = pending /\ pc' = after
    BY <1>1
  <1>6. \A e \in Downloads : pc'[e] = IF e = next /\ next # NoDownload THEN "launch" ELSE after[e]
    BY <1>1, <1>3
  <1>7. \A w \in Variants :
          active'[w] = IF next # NoDownload /\ w = variant[next] THEN next
                       ELSE IF w = v THEN NoDownload ELSE active[w]
    BY <1>1
  <1> HIDE DEF freed, next
  <1>8. Queueing' /\ QueueApart'
    <2>1. CASE next = NoDownload
      <3>1. \A i \in 1 .. Len(pending) : pc'[pending[i]] = "queued"
        BY <2>1, <1>2, <1>6 DEF Queueing, Waiting
      <3>2. Queueing'
        BY <2>1, <1>5, <3>1 DEF Queueing
      <3>3. \A i \in 1 .. Len(pending) : active'[variant[pending[i]]] = NoDownload
        BY <2>1, <1>2, <1>7 DEF QueueApart, RequestsKnown, Queueing
      <3> QED BY <2>1, <1>2, <1>5, <3>2, <3>3 DEF QueueApart
    <2>2. CASE next # NoDownload
      <3>1. /\ DOMAIN pending' = 1 .. Len(pending')
            /\ \A n \in 1 .. Len(pending') :
                 /\ pending'[n] \in Downloads /\ pc[pending'[n]] = "queued"
                 /\ pending'[n] # next /\ variant[pending'[n]] # variant[next]
                 /\ active[variant[pending'[n]]] = NoDownload
            /\ \A m, n \in 1 .. Len(pending') :
                 \/ pending'[m] = pending'[n]
                 \/ variant[pending'[m]] = variant[pending'[n]]
                 => m = n
        BY <2>2, <1>3, ShrunkQueue
      <3>2. Queueing'
        BY <2>2, <3>1, <1>3, <1>6 DEF Queueing, Waiting, Shrinks
      <3>3. \A n \in 1 .. Len(pending') : active'[variant[pending'[n]]] = NoDownload
        BY <2>2, <3>1, <1>7 DEF RequestsKnown
      <3> QED BY <3>1, <3>2, <3>3 DEF QueueApart
    <2> QED BY <2>1, <2>2
  <1>9. RequestsKnown'
    BY <1>3, <1>4, <1>6 DEF RequestsKnown, Waiting
  <1>10. SlotsKnown'
    BY <1>3, <1>4, <1>6, <1>7 DEF SlotsKnown, Waiting, Shape
  <1>11. CancelsKnown'
    BY DEF CancelsKnown, Shape
  <1>12. WithinLimit' /\ QueuedOnlyWhenFull'
    <2>1. CASE ~freed
      <3>1. active' = active /\ pending' = pending
        BY <2>1, <1>1, <1>3, <1>5 DEF freed, Shape
      <3> QED BY <3>1 DEF WithinLimit, QueuedOnlyWhenFull, Occupied
    <2>2. CASE freed /\ next = NoDownload
      <3>1. pending = <<>> /\ pending' = <<>>
        BY <2>2, <1>2, <1>5, EmptySeq DEF next, Queueing
      <3>2. Occupied' = Occupied \ {v}
        BY <2>2, <1>7 DEF Occupied
      <3>3. v \in Occupied
        BY <2>2 DEF Occupied, freed
      <3>4. Cardinality(Occupied \ {v}) = Cardinality(Occupied) - 1
        BY <3>3, OccupiedIsFinite, FS_RemoveElement
      <3> QED BY <3>1, <3>2, <3>4, OccupiedIsFinite DEF WithinLimit, QueuedOnlyWhenFull
    <2>3. CASE next # NoDownload
      <3>1. Occupied' = (Occupied \ {v}) \cup {variant[next]}
        BY <2>3, <1>3, <1>4, <1>7 DEF Occupied
      <3>2. v \in Occupied /\ variant[next] \notin Occupied \ {v}
        BY <2>3, <1>3, <1>4 DEF Occupied, freed
      <3>3. /\ IsFiniteSet(Occupied \ {v})
            /\ Cardinality(Occupied \ {v}) = Cardinality(Occupied) - 1
        BY <3>2, OccupiedIsFinite, FS_RemoveElement
      <3>4. Cardinality((Occupied \ {v}) \cup {variant[next]})
              = Cardinality(Occupied \ {v}) + 1
        BY <3>2, <3>3, FS_AddElement
      <3>5. Cardinality(Occupied') = Cardinality(Occupied)
        BY <3>1, <3>3, <3>4, OccupiedIsFinite
      <3> QED BY <2>3, <1>3, <3>5 DEF WithinLimit, QueuedOnlyWhenFull
    <2> QED BY <2>1, <2>2, <2>3
  <1>13. LiveDownloadsHoldSlots'
    <2> SUFFICES ASSUME NEW e \in Downloads, Live(e)', e \notin robbed', e # next
                 PROVE  active'[variant[e]] = e
      BY <1>3, <1>4, <1>7 DEF LiveDownloadsHoldSlots
    <2>1. Live(e) /\ after[e] \in Claimed
      BY <1>6 DEF Live
    <2>2. active[variant[e]] = e /\ variant[e] \in Variants
      BY <2>1, <1>1 DEF LiveDownloadsHoldSlots, RequestsKnown, Live, Claimed, TaskPhase, TailPhase
    <2>3. variant[e] # v
      BY <2>1, <2>2, <1>1 DEF Live
    <2> QED BY <2>2, <2>3, <1>4, <1>7
  <1>14. SlotsHaveOwners'
    <2> SUFFICES ASSUME NEW w \in Variants, active'[w] # NoDownload
                 PROVE  \/ Live(active[w])'
                        \/ pc'[active'[w]] \in TailPhase
                        \/ \E c \in Cancellers :
                             /\ cvariant'[c] = w /\ cpc'[c] \in {"teardown", "release"}
                             /\ ctarget'[c] = active'[w]
                        \/ active'[w] \in abandoned
      BY DEF SlotsHaveOwners, Occupied
    <2>1. CASE next # NoDownload /\ w = variant[next]
      BY <2>1, <1>3, <1>4, <1>6, <1>7 DEF Live, Claimed
    <2>2. CASE ~(next # NoDownload /\ w = variant[next])
      <3>1. w # v /\ active'[w] = active[w] /\ active[w] \in Downloads
        BY <2>2, <1>7 DEF Shape
      <3>2. variant[active[w]] = w /\ active[w] # next
        BY <3>1, <1>4 DEF SlotsKnown, Waiting
      <3>3. pc'[active[w]] = pc[active[w]]
        BY <3>1, <3>2, <1>6
      <3> QED BY <3>1, <3>3 DEF SlotsHaveOwners, Occupied, Live
    <2> QED BY <2>1, <2>2
  <1> QED BY <1>8, <1>9, <1>10, <1>11, <1>12, <1>13, <1>14

(* Nothing of the queue changes with what a call has yet to tell the board. *)
LEMMA OnlyCallsKeepQueue ==
  ASSUME QueueInv, Shape', RequestsKnown',
         UNCHANGED <<queue, variant, token, pc, cancels, history>>
  PROVE  QueueInv'
  BY DEF QueueInv, queue, cancels, history, Queueing, SlotsKnown, CancelsKnown, QueueApart,
         WithinLimit, QueuedOnlyWhenFull, LiveDownloadsHoldSlots, SlotsHaveOwners, Live, Occupied

(* The steps of a task. *)
LEMMA TaskKeepsQueue ==
  ASSUME QueueInv, FilesApart, NEW d \in Downloads, TaskStep(d) \/ StartDropped(d)
  PROVE  QueueInv'
  <1> USE DownloadAssumption
  <1> USE DEF queue, files, cancels, history, Goto, Publish, Waiting, Phase, Claimed,
              TaskPhase, TailPhase
  <1>1. Shape /\ RequestsKnown
    BY DEF QueueInv
  <1>2. ASSUME NEW p, OwnStep(d, p), Shape' PROVE QueueInv'
    BY <1>2, OwnStepKeepsQueue
  <1>3. pc[d] \notin Waiting => variant[d] \in Variants
    BY <1>1 DEF RequestsKnown
  <1>4. CASE Launch(d)
    <2>1. Shape' BY <1>1, <1>4 DEF Launch, Shape
    <2>2. OwnStep(d, "announce") \/ OwnStep(d, "probe")
      BY <1>1, <1>4 DEF Launch, OwnStep, Shape
    <2> QED BY <1>2, <2>1, <2>2
  <1>5. CASE Announce(d)
    <2>1. Shape' BY <1>1, <1>5 DEF Announce, Shape
    <2>2. OwnStep(d, "probe") BY <1>1, <1>5 DEF Announce, OwnStep, Shape
    <2> QED BY <1>2, <2>1, <2>2
  <1>6. CASE Probe(d)
    <2>1. Shape' BY <1>1, <1>3, <1>6 DEF Probe, Shape
    <2>2. OwnStep(d, "request") BY <1>1, <1>6 DEF Probe, OwnStep, Shape
    <2> QED BY <1>2, <2>1, <2>2
  <1>7. CASE Responded(d)
    <2>1. Shape' BY <1>1, <1>3, <1>7, FreshIsFree DEF Responded, Shape
    <2>2. OwnStep(d, "stream") BY <1>1, <1>7 DEF Responded, OwnStep, Shape
    <2> QED BY <1>2, <2>1, <2>2
  <1>8. CASE RangeRefused(d)
    <2>1. Shape' BY <1>1, <1>3, <1>8 DEF RangeRefused, Shape, Robs
    <2>2. OwnStep(d, "probe") BY <1>1, <1>8 DEF RangeRefused, OwnStep, Shape, Robs
    <2> QED BY <1>2, <2>1, <2>2
  <1>9. CASE TransferFails(d)
    <2>1. Shape' BY <1>1, <1>9 DEF TransferFails, Ended, Shape
    <2>2. OwnStep(d, "failed") BY <1>1, <1>9 DEF TransferFails, Ended, OwnStep, Shape
    <2> QED BY <1>2, <2>1, <2>2
  <1>10. CASE StopCancelled(d)
    <2>1. Shape' BY <1>1, <1>10 DEF StopCancelled, Ended, Shape
    <2>2. OwnStep(d, "done") BY <1>1, <1>10 DEF StopCancelled, Ended, OwnStep, Shape
    <2> QED BY <1>2, <2>1, <2>2
  <1>11. CASE WriteChunk(d)
    <2>1. handle[d] \in Inodes BY <1>1, <1>11 DEF WriteChunk, Shape, FilesApart
    <2>2. content' \in [Inodes -> (0 .. Chunks) \cup {Garbled}]
      BY <1>1, <1>11, <2>1 DEF WriteChunk, Shape
    <2>3. Shape' BY <1>1, <1>11, <2>2 DEF WriteChunk, Shape
    <2>4. OwnStep(d, "publish") BY <1>1, <1>11 DEF WriteChunk, OwnStep, Shape
    <2> QED BY <1>2, <2>3, <2>4
  <1>12. CASE PublishChunk(d)
    <2>1. Shape' BY <1>1, <1>12 DEF PublishChunk, Shape
    <2>2. OwnStep(d, "stream") BY <1>1, <1>12 DEF PublishChunk, OwnStep, Shape
    <2> QED BY <1>2, <2>1, <2>2
  <1>13. CASE BodyComplete(d)
    <2>1. Shape' BY <1>1, <1>13 DEF BodyComplete, Ended, Shape
    <2>2. OwnStep(d, "verify") BY <1>1, <1>13 DEF BodyComplete, Ended, OwnStep, Shape
    <2> QED BY <1>2, <2>1, <2>2
  <1>14. CASE PublishVerifying(d)
    <2>1. Shape' BY <1>1, <1>14 DEF PublishVerifying, Shape
    <2>2. OwnStep(d, "hash") BY <1>1, <1>14 DEF PublishVerifying, OwnStep, Shape
    <2> QED BY <1>2, <2>1, <2>2
  <1>15. CASE Verify(d)
    <2>1. Shape' BY <1>1, <1>3, <1>15 DEF Verify, Shape, Robs
    <2>2. OwnStep(d, "commit") \/ OwnStep(d, "failed")
      BY <1>1, <1>15 DEF Verify, OwnStep, Shape, Robs
    <2> QED BY <1>2, <2>1, <2>2
  <1>16. CASE Commit(d)
    <2>1. Shape' BY <1>1, <1>16 DEF Commit, Shape
    <2>2. OwnStep(d, "rename") BY <1>1, <1>16 DEF Commit, OwnStep, Shape
    <2> QED BY <1>2, <2>1, <2>2
  <1>17. CASE Rename(d)
    <2>1. part[variant[d]] \in Inodes BY <1>1, <1>3, <1>17 DEF Rename, Shape
    <2>2. Shape' BY <1>1, <1>17, <2>1 DEF Rename, Shape
    <2>3. OwnStep(d, "tellCompleted") BY <1>1, <1>17 DEF Rename, OwnStep, Shape
    <2> QED BY <1>2, <2>2, <2>3
  <1>18. CASE Conclude(d)
    <2>1. Shape' BY <1>1, <1>18 DEF Conclude, Shape
    <2>2. OwnStep(d, "tellFailed") BY <1>1, <1>18 DEF Conclude, OwnStep, Shape
    <2> QED BY <1>2, <2>1, <2>2
  <1>19. CASE PublishTerminal(d)
    <2>1. Shape' BY <1>1, <1>3, <1>19 DEF PublishTerminal, Shape, Robs
    <2>2. OwnStep(d, "releaseFailed") \/ OwnStep(d, "install")
      BY <1>1, <1>19 DEF PublishTerminal, OwnStep, Shape, Robs
    <2> QED BY <1>2, <2>1, <2>2
  <1>20. CASE Install(d)
    <2>1. Shape' BY <1>1, <1>20 DEF Install, Shape
    <2>2. OwnStep(d, "release") BY <1>1, <1>20 DEF Install, OwnStep, Shape
    <2> QED BY <1>2, <2>1, <2>2
  <1>21. CASE Release(d)
    <2> DEFINE p == IF pc[d] = "release" THEN "linger" ELSE "done"
               after == [pc EXCEPT ![d] = p]
    <2>1. /\ FreeSlot(variant[d], d, after) /\ pc[d] \in {"releaseFailed", "release"}
          /\ UNCHANGED <<variant, token, call, abandoned, cancels, board, offset, handle,
                         files, restarts, crossed>>
      BY <1>21 DEF Release
    <2>2. after \in [Downloads -> Phase] /\ \A e \in Downloads : e # d => after[e] = pc[e]
      BY <1>1 DEF Shape
    <2>3. after[d] = p /\ p \notin Waiting \cup Claimed
      BY <1>1 DEF Shape
    <2>4. variant[d] \in Variants
      BY <1>3, <2>1
    <2> HIDE DEF after, p
    <2>5. Shape'
      <3>1. /\ cpc' \in [Cancellers -> {"idle", "erase", "teardown", "release"}]
            /\ ctarget' \in [Cancellers -> Downloads \cup {NoDownload}]
            /\ cvariant' \in [Cancellers -> Variants \cup {NoVariant}]
        BY <1>1, <2>1 DEF Shape
      <3> QED BY <1>1, <2>1, <2>2, <2>4, <3>1, FreeSlotShape DEF QueueInv
    <2> QED BY <2>1, <2>2, <2>3, <2>4, <2>5, FreeSlotKeepsQueue DEF cancels
  <1>22. CASE EndGrace(d)
    <2>1. Shape' BY <1>1, <1>22 DEF EndGrace, Shape
    <2>2. OwnStep(d, "clear") \/ OwnStep(d, "done")
      BY <1>1, <1>22 DEF EndGrace, OwnStep, Shape
    <2> QED BY <1>2, <2>1, <2>2
  <1>23. CASE ClearCompleted(d)
    <2>1. Shape' BY <1>1, <1>3, <1>23 DEF ClearCompleted, Unboard, Shape, Robs
    <2>2. OwnStep(d, "done") BY <1>1, <1>23 DEF ClearCompleted, OwnStep, Shape, Robs
    <2> QED BY <1>2, <2>1, <2>2
  <1>24. CASE StartDropped(d)
    <2>1. Shape' BY <1>1, <1>24 DEF StartDropped, Shape
    <2>2. CASE call[d] = "parking" /\ UNCHANGED <<pc, abandoned>>
      <3>1. RequestsKnown' BY <1>1, <1>24, <2>2 DEF StartDropped, RequestsKnown, Shape
      <3> QED BY <1>24, <2>1, <2>2, <3>1, OnlyCallsKeepQueue DEF StartDropped
    <2>3. CASE pc[d] = "announce" /\ pc' = [pc EXCEPT ![d] = "stranded"]
               /\ abandoned' = abandoned \cup {d}
      <3>1. OwnStep(d, "stranded") BY <1>1, <1>24, <2>3 DEF StartDropped, OwnStep, Shape
      <3> QED BY <1>2, <2>1, <3>1
    <2> QED BY <1>24, <2>2, <2>3 DEF StartDropped
  <1> QED
    BY <1>4, <1>5, <1>6, <1>7, <1>8, <1>9, <1>10, <1>11, <1>12, <1>13, <1>14, <1>15,
       <1>16, <1>17, <1>18, <1>19, <1>20, <1>21, <1>22, <1>23, <1>24 DEF TaskStep

(* start, and the entry it leaves when all slots are taken. *)
LEMMA StartKeepsQueue ==
  ASSUME QueueInv, NEW v \in Variants, Start(v)
  PROVE  QueueInv'
  <1> USE DownloadAssumption
  <1> USE DEF QueueInv, queue, files, cancels, history, Goto, Waiting
  <1> DEFINE d == CHOOSE d \in Unused : \A e \in Unused : d <= e
  <1>1. d \in Unused
    <2>1. Unused # {} /\ Unused \subseteq Nat
      BY DEF Start, Unused, Downloads
    <2>2. \E n \in Unused : \A m \in Unused : n <= m
      BY <2>1, SmallestNat
    <2> QED BY <2>2
  <1>2. d \in Downloads /\ pc[d] = "unused" /\ call[d] = "over" /\ token[d] # "cancelled"
    BY <1>1 DEF Unused, RequestsKnown, Shape
  <1>3. /\ variant' = [variant EXCEPT ![d] = v]
        /\ \/ /\ Cardinality(Occupied) < MaxActive
              /\ active' = [active EXCEPT ![v] = d]
              /\ pc' = [pc EXCEPT ![d] = "launch"]
              /\ call' = [call EXCEPT ![d] = "starting"]
              /\ UNCHANGED pending
           \/ /\ Cardinality(Occupied) >= MaxActive
              /\ pending' = Append(pending, d)
              /\ pc' = [pc EXCEPT ![d] = "queued"]
              /\ call' = [call EXCEPT ![d] = "parking"]
              /\ UNCHANGED active
    BY DEF Start
  <1>4. /\ active[v] = NoDownload /\ ~Taken(v)
        /\ \A i \in DOMAIN pending : variant[pending[i]] # v
        /\ UNCHANGED <<board, token, offset, handle, part, dest, content, cpc, ctarget,
                       cvariant, restarts, robbed, abandoned, crossed>>
    BY DEF Start, Taken, Occupied
  <1> HIDE DEF d
  <1>5. /\ Len(pending) \in Nat /\ DOMAIN pending = 1 .. Len(pending)
        /\ \A i \in 1 .. Len(pending) : pending[i] \in Downloads /\ pending[i] # d
    BY <1>2, ElementOfSeq, LenProperties DEF Queueing
  <1>6. /\ \A e \in Downloads : variant'[e] = IF e = d THEN v ELSE variant[e]
        /\ \A e \in Downloads : e # d => pc'[e] = pc[e] /\ call'[e] = call[e]
        /\ pc'[d] \in {"launch", "queued"}
    BY <1>2, <1>3 DEF Shape
  <1>7. Shape' /\ RequestsKnown' /\ CancelsKnown'
    <2>1. variant' \in [Downloads -> Variants \cup {NoVariant}]
      BY <1>3 DEF Shape
    <2>2. pc' \in [Downloads -> Phase] /\ call' \in [Downloads -> {"starting", "parking", "over"}]
      <3>1. "launch" \in Phase /\ "queued" \in Phase
        BY DEF Phase, Claimed
      <3>2. /\ pc' = [pc EXCEPT ![d] = "launch"] \/ pc' = [pc EXCEPT ![d] = "queued"]
            /\ call' = [call EXCEPT ![d] = "starting"] \/ call' = [call EXCEPT ![d] = "parking"]
        BY <1>3
      <3>3. pc' \in [Downloads -> Phase]
        BY <3>1, <3>2 DEF Shape
      <3>4. call' \in [Downloads -> {"starting", "parking", "over"}]
        BY <3>2 DEF Shape
      <3> QED BY <3>3, <3>4
    <2>3. active' \in [Variants -> Downloads \cup {NoDownload}]
      <3>1. active \in [Variants -> Downloads \cup {NoDownload}]
        BY DEF Shape
      <3>2. active' = active \/ active' = [active EXCEPT ![v] = d]
        BY <1>3
      <3> QED BY ONLY <1>2, <3>1, <3>2
    <2>4. Shape'
      BY <1>4, <2>1, <2>2, <2>3 DEF Shape
    <2>5. RequestsKnown'
      BY <1>2, <1>4, <1>6 DEF RequestsKnown
    <2>6. CancelsKnown'
      BY <1>4 DEF CancelsKnown
    <2> QED BY <2>4, <2>5, <2>6
  <1>8. SlotsKnown'
    <2>1. \A w \in Variants :
            \/ active'[w] = active[w]
            \/ w = v /\ active'[w] = d /\ pc'[d] = "launch"
      <3>1. \/ active' = active
            \/ active' = [active EXCEPT ![v] = d] /\ pc' = [pc EXCEPT ![d] = "launch"]
        BY <1>3
      <3> QED BY <1>2, <3>1 DEF Shape
    <2>2. \A w \in Variants : active[w] # NoDownload => active[w] \in Downloads /\ active[w] # d
      BY <1>2 DEF SlotsKnown, Shape
    <2> QED BY <1>2, <1>6, <2>1, <2>2 DEF SlotsKnown
  <1>9. LiveDownloadsHoldSlots'
    <2> SUFFICES ASSUME NEW e \in Downloads, Live(e)', e \notin robbed, e # d
                 PROVE  active'[variant'[e]] = e
      BY <1>2, <1>3, <1>4 DEF LiveDownloadsHoldSlots, Live, Claimed, TaskPhase, TailPhase, Shape
    <2>1. Live(e) /\ variant'[e] = variant[e]
      BY <1>2, <1>3, <1>4 DEF Live, Shape
    <2>2. active[variant[e]] = e /\ variant[e] # v /\ variant[e] \in Variants
      BY <1>4, <2>1, DownloadAssumption
      DEF LiveDownloadsHoldSlots, RequestsKnown, Live, Claimed, TaskPhase, TailPhase
    <2>3. \A w \in Variants : w # v => active'[w] = active[w]
      BY <1>3 DEF Shape
    <2> QED BY <2>1, <2>2, <2>3
  <1>10. SlotsHaveOwners'
    <2> SUFFICES ASSUME NEW w \in Variants, active'[w] # NoDownload
                 PROVE  \/ Live(active[w])'
                        \/ pc'[active'[w]] \in TailPhase
                        \/ \E c \in Cancellers :
                             /\ cvariant'[c] = w /\ cpc'[c] \in {"teardown", "release"}
                             /\ ctarget'[c] = active'[w]
                        \/ active'[w] \in abandoned
      BY <1>4 DEF SlotsHaveOwners, Occupied
    <2>1. CASE active'[w] = d
      <3>1. pc'[d] = "launch" \/ active' = active
        BY <1>2, <1>3 DEF Shape
      <3>2. ~ active' = active
        BY <1>2, <1>3, <1>4, <2>1 DEF SlotsKnown
      <3> QED BY <1>2, <1>4, <2>1, <3>1, <3>2 DEF Live, Claimed
    <2>2. CASE active'[w] # d
      <3>1. active'[w] = active[w] /\ active[w] \in Downloads
        BY <1>3, <1>4, <2>2 DEF Shape
      <3>2. pc'[active[w]] = pc[active[w]]
        BY <1>3, <2>2, <3>1 DEF Shape
      <3> QED BY <1>4, <3>1, <3>2 DEF SlotsHaveOwners, Occupied, Live
    <2> QED BY <2>1, <2>2
  <1>11. CASE Cardinality(Occupied) < MaxActive
    <2>1. pending' = pending /\ active' = [active EXCEPT ![v] = d]
          /\ pc' = [pc EXCEPT ![d] = "launch"]
      BY <1>3, <1>11, OccupiedIsFinite
    <2>2. pending = <<>>
      BY <1>11, OccupiedIsFinite DEF QueuedOnlyWhenFull
    <2>3. Len(pending) = 0
      BY <2>2, EmptySeq
    <2>4. Queueing' /\ QueueApart' /\ QueuedOnlyWhenFull'
      BY <1>5, <2>1, <2>2, <2>3 DEF Queueing, QueueApart, QueuedOnlyWhenFull
    <2>5. Occupied' = Occupied \cup {v} /\ v \notin Occupied
      BY <1>2, <1>4, <2>1 DEF Occupied, Shape
    <2>6. Cardinality(Occupied \cup {v}) = Cardinality(Occupied) + 1
      BY <2>5, OccupiedIsFinite, FS_AddElement
    <2>7. WithinLimit'
      BY <1>11, <2>5, <2>6, OccupiedIsFinite DEF WithinLimit
    <2> QED BY <1>7, <1>8, <1>9, <1>10, <2>4, <2>7
  <1>12. CASE Cardinality(Occupied) >= MaxActive
    <2>1. /\ pending' = Append(pending, d) /\ active' = active
          /\ pc' = [pc EXCEPT ![d] = "queued"]
      BY <1>3, <1>12, OccupiedIsFinite
    <2>2. /\ pending' \in Seq(Downloads) /\ Len(pending') = Len(pending) + 1
          /\ \A i \in 1 .. Len(pending) : pending'[i] = pending[i]
          /\ pending'[Len(pending) + 1] = d
      BY <1>2, <2>1, AppendProperties DEF Queueing
    <2>3. DOMAIN pending' = 1 .. Len(pending')
      BY <2>2, LenProperties
    <2>4. Queueing'
      BY <1>2, <1>5, <2>1, <2>2 DEF Queueing, Shape
    <2>5. \A i \in 1 .. Len(pending) : variant'[pending'[i]] = variant[pending[i]]
      BY <1>3, <1>5, <2>2
    <2>6. variant'[d] = v
      BY <1>2, <1>3 DEF Shape
    <2>7. QueueApart'
      BY <1>4, <1>5, <2>1, <2>2, <2>3, <2>5, <2>6 DEF QueueApart
    <2>8. WithinLimit' /\ QueuedOnlyWhenFull'
      BY <1>12, <2>1, OccupiedIsFinite DEF WithinLimit, QueuedOnlyWhenFull, Occupied
    <2> QED BY <1>7, <1>8, <1>9, <1>10, <2>4, <2>7, <2>8
  <1> QED BY <1>11, <1>12, OccupiedIsFinite

LEMMA ParkedToldKeepsQueue ==
  ASSUME QueueInv, NEW d \in Downloads, ParkedTold(d)
  PROVE  QueueInv'
  <1>1. Shape' /\ RequestsKnown'
    BY DEF QueueInv, ParkedTold, Publish, Shape, RequestsKnown, queue, files, cancels, history
  <1> QED BY <1>1, OnlyCallsKeepQueue DEF ParkedTold

(* cancel: a request that waits leaves the queue, one that runs is signalled. *)
LEMMA CancelKeepsQueue ==
  ASSUME QueueInv, NEW c \in Cancellers, NEW v \in Variants, Cancel(c, v)
  PROVE  QueueInv'
  <1> USE DownloadAssumption
  <1> USE DEF QueueInv, Goto
  <1>1. /\ cpc[c] = "idle" /\ cvariant' = [cvariant EXCEPT ![c] = v]
        /\ UNCHANGED <<active, board, variant, call, offset, handle, part, dest, content,
                       restarts, robbed, abandoned, crossed>>
    BY DEF Cancel, files, history
  <1>2. Occupied' = Occupied
    BY <1>1 DEF Occupied
  <1>3. CASE \E i \in DOMAIN pending :
               /\ variant[pending[i]] = v
               /\ pending' = RemoveAt(pending, i)
               /\ pc' = [pc EXCEPT ![pending[i]] = "done"]
               /\ cpc' = [cpc EXCEPT ![c] = "erase"]
               /\ UNCHANGED <<token, ctarget>>
    <2>1. PICK i \in DOMAIN pending :
               /\ variant[pending[i]] = v
               /\ pending' = RemoveAt(pending, i)
               /\ pc' = [pc EXCEPT ![pending[i]] = "done"]
               /\ cpc' = [cpc EXCEPT ![c] = "erase"]
               /\ UNCHANGED <<token, ctarget>>
      BY <1>3
    <2> DEFINE d == pending[i]
    <2>2. /\ Len(pending) \in Nat /\ i \in 1 .. Len(pending)
          /\ d \in Downloads /\ pc[d] = "queued" /\ pending # <<>>
      BY <2>1, ElementOfSeq, LenProperties, EmptySeq DEF Queueing
    <2>3. Shrinks(i)
      <3>1. pending \in Seq(Downloads)
        BY DEF Queueing
      <3>2. /\ RemoveAt(pending, i) \in Seq(Downloads)
            /\ Len(RemoveAt(pending, i)) = Len(pending) - 1
            /\ \A n \in 1 .. Len(pending) - 1 :
                 RemoveAt(pending, i)[n] = IF n < i THEN pending[n] ELSE pending[n + 1]
        BY <2>2, <3>1, RemoveAtProperties
      <3> QED BY <2>1, <2>2, <3>2 DEF Shrinks
    <2>4. /\ DOMAIN pending' = 1 .. Len(pending')
          /\ \A n \in 1 .. Len(pending') :
               /\ pending'[n] \in Downloads /\ pc[pending'[n]] = "queued"
               /\ pending'[n] # d
               /\ active[variant[pending'[n]]] = NoDownload
          /\ \A m, n \in 1 .. Len(pending') :
               \/ pending'[m] = pending'[n]
               \/ variant[pending'[m]] = variant[pending'[n]]
               => m = n
      BY <1>1, <2>3, ShrunkQueue
    <2> HIDE DEF d
    <2>5. pc' = [pc EXCEPT ![d] = "done"]
      BY <2>1 DEF d
    <2>6. Queueing' /\ QueueApart'
      <3>1. \A n \in 1 .. Len(pending') : pc'[pending'[n]] = "queued"
        BY <2>4, <2>5 DEF Shape
      <3>2. Queueing'
        BY <2>3, <2>4, <3>1 DEF Queueing, Shrinks
      <3>3. QueueApart'
        BY <1>1, <2>4 DEF QueueApart
      <3> QED BY <3>2, <3>3
    <2>7. Shape'
      BY <1>1, <2>1, <2>5 DEF Shape, Phase
    <2>8. RequestsKnown' /\ SlotsKnown'
      BY <1>1, <2>1, <2>2, <2>5 DEF RequestsKnown, SlotsKnown, Waiting, Shape
    <2>9. CancelsKnown'
      BY <1>1, <2>1 DEF CancelsKnown, Shape
    <2>10. WithinLimit' /\ QueuedOnlyWhenFull'
      BY <1>2, <2>2 DEF WithinLimit, QueuedOnlyWhenFull
    <2>11. LiveDownloadsHoldSlots'
      BY <1>1, <2>1, <2>2, <2>5 DEF LiveDownloadsHoldSlots, Live, Shape, Claimed, TaskPhase, TailPhase
    <2>12. SlotsHaveOwners'
      <3>1. \A w \in Occupied : active[w] \in Downloads /\ active[w] # d
        BY <2>2 DEF SlotsKnown, Occupied, Waiting, Shape
      <3> QED BY <1>1, <1>2, <2>1, <2>5, <3>1 DEF SlotsHaveOwners, Live, Shape
    <2> QED BY <2>6, <2>7, <2>8, <2>9, <2>10, <2>11, <2>12
  <1>4. CASE /\ active[v] # NoDownload
             /\ token[active[v]] # "committed"
             /\ token' = [token EXCEPT ![active[v]] = "cancelled"]
             /\ ctarget' = [ctarget EXCEPT ![c] = active[v]]
             /\ cpc' = [cpc EXCEPT ![c] = "teardown"]
             /\ UNCHANGED <<pending, pc>>
    <2> DEFINE d == active[v]
    <2>1. d \in Downloads /\ pc[d] \notin Waiting
      BY <1>4 DEF Shape, SlotsKnown
    <2>2. /\ token' = [token EXCEPT ![d] = "cancelled"]
          /\ ctarget' = [ctarget EXCEPT ![c] = d]
          /\ cpc' = [cpc EXCEPT ![c] = "teardown"] /\ pending' = pending /\ pc' = pc
      BY <1>4
    <2>3. Queueing' /\ QueueApart' /\ WithinLimit' /\ QueuedOnlyWhenFull'
      BY <1>1, <1>2, <2>2 DEF Queueing, QueueApart, WithinLimit, QueuedOnlyWhenFull
    <2>4. Shape'
      BY <1>1, <2>1, <2>2 DEF Shape
    <2>5. RequestsKnown' /\ SlotsKnown'
      BY <1>1, <2>1, <2>2 DEF RequestsKnown, SlotsKnown, Shape
    <2>6. CancelsKnown'
      BY <1>1, <2>1, <2>2 DEF CancelsKnown, Shape
    <2>7. LiveDownloadsHoldSlots'
      BY <1>1, <2>1, <2>2 DEF LiveDownloadsHoldSlots, Live, Shape
    <2>8. SlotsHaveOwners'
      <3> SUFFICES ASSUME NEW w \in Occupied
                   PROVE  \/ Live(active[w])'
                          \/ pc[active[w]] \in TailPhase
                          \/ \E b \in Cancellers :
                               /\ cvariant'[b] = w /\ cpc'[b] \in {"teardown", "release"}
                               /\ ctarget'[b] = active[w]
                          \/ active[w] \in abandoned
        BY <1>1, <1>2, <2>2 DEF SlotsHaveOwners
      <3>1. active[w] \in Downloads /\ (w # v => active[w] # d)
        BY <1>4 DEF Occupied, SlotsKnown, Shape
      <3>2. CASE w = v
        BY <1>1, <2>2, <3>2 DEF Shape
      <3>3. CASE w # v
        BY <1>1, <2>2, <3>1, <3>3 DEF SlotsHaveOwners, Live, Shape
      <3> QED BY <3>2, <3>3
    <2> QED BY <2>3, <2>4, <2>5, <2>6, <2>7, <2>8
  <1>5. CASE /\ cpc' = [cpc EXCEPT ![c] = "erase"]
             /\ UNCHANGED <<pending, pc, token, ctarget>>
    <2>1. Shape'
      BY <1>1, <1>5 DEF Shape
    <2>2. CancelsKnown'
      BY <1>1, <1>5 DEF CancelsKnown, Shape
    <2>3. SlotsHaveOwners'
      BY <1>1, <1>2, <1>5 DEF SlotsHaveOwners, Live, Shape
    <2> QED BY <1>1, <1>2, <1>5, <2>1, <2>2, <2>3
            DEF Queueing, RequestsKnown, SlotsKnown, QueueApart, WithinLimit,
                QueuedOnlyWhenFull, LiveDownloadsHoldSlots, Live
  <1> QED BY <1>3, <1>4, <1>5 DEF Cancel

(* The rest of a cancel, and a cancel whose client hangs up. *)
LEMMA CancelStepKeepsQueue ==
  ASSUME QueueInv, NEW c \in Cancellers, CancelStep(c) \/ CancelDropped(c)
  PROVE  QueueInv'
  <1> USE DownloadAssumption
  <1> USE DEF QueueInv, queue, task, files, Unboard, Robs
  <1>1. CASE Erase(c) \/ Teardown(c) \/ CancelDropped(c)
    <2>1. /\ UNCHANGED <<queue, task, restarts, dest, content>>
          /\ robbed \subseteq robbed' /\ abandoned \subseteq abandoned'
      BY <1>1 DEF Erase, Teardown, CancelDropped
    <2>2. Shape'
      <3>1. CASE Erase(c)
        BY <3>1 DEF Erase, CancelOver, Shape, CancelsKnown
      <3>2. CASE Teardown(c)
        BY <3>2 DEF Teardown, Shape, CancelsKnown
      <3>3. CASE CancelDropped(c)
        BY <3>3 DEF CancelDropped, CancelOver, Shape, CancelsKnown
      <3> QED BY <1>1, <3>1, <3>2, <3>3
    <2>3. CancelsKnown'
      BY <1>1, <2>1 DEF Erase, Teardown, CancelDropped, CancelOver, CancelsKnown, Shape
    <2>4. Queueing' /\ RequestsKnown' /\ SlotsKnown' /\ QueueApart' /\ WithinLimit'
          /\ QueuedOnlyWhenFull' /\ LiveDownloadsHoldSlots'
      BY <2>1 DEF Queueing, RequestsKnown, SlotsKnown, QueueApart, WithinLimit,
                  QueuedOnlyWhenFull, LiveDownloadsHoldSlots, Live, Occupied
    <2>5. SlotsHaveOwners'
      <3>1. CASE Erase(c)
        BY <2>1, <3>1 DEF Erase, CancelOver, SlotsHaveOwners, Live, Occupied, Shape
      <3>2. CASE Teardown(c)
        BY <2>1, <3>2 DEF Teardown, SlotsHaveOwners, Live, Occupied, Shape
      <3>3. CASE CancelDropped(c)
        BY <2>1, <3>3 DEF CancelDropped, CancelOver, SlotsHaveOwners, Live, Occupied, Shape
      <3> QED BY <1>1, <3>1, <3>2, <3>3
    <2> QED BY <2>2, <2>3, <2>4, <2>5
  <1>2. CASE CancelRelease(c)
    <2> DEFINE v == cvariant[c]
               d == ctarget[c]
    <2>1. /\ v \in Variants /\ d \in Downloads /\ token[d] = "cancelled"
          /\ FreeSlot(v, d, pc) /\ pc \in [Downloads -> Phase]
      BY <1>2 DEF CancelRelease, CancelsKnown, Shape
    <2>2. /\ cpc' = [cpc EXCEPT ![c] = "idle"]
          /\ ctarget' = [ctarget EXCEPT ![c] = NoDownload]
          /\ cvariant' = [cvariant EXCEPT ![c] = NoVariant]
          /\ UNCHANGED <<board, variant, token, call, offset, handle, files, restarts, abandoned,
                         crossed>>
      BY <1>2 DEF CancelRelease, CancelOver
    <2>3. Shape'
      <3>1. /\ cpc' \in [Cancellers -> {"idle", "erase", "teardown", "release"}]
            /\ ctarget' \in [Cancellers -> Downloads \cup {NoDownload}]
            /\ cvariant' \in [Cancellers -> Variants \cup {NoVariant}]
        BY <2>2 DEF Shape
      <3> HIDE DEF v, d
      <3> QED BY <2>1, <2>2, <3>1, FreeSlotShape
    <2>4. \A b \in Cancellers :
           \/ cpc'[b] = cpc[b] /\ ctarget'[b] = ctarget[b] /\ cvariant'[b] = cvariant[b]
           \/ cvariant[b] = v /\ cpc'[b] = "idle" /\ ctarget'[b] = NoDownload
      BY <2>2 DEF Shape
    <2> HIDE DEF v, d
    <2> QED BY <2>1, <2>2, <2>3, <2>4, FreeSlotKeepsQueue
  <1> QED BY <1>1, <1>2 DEF CancelStep

LEMMA RestartKeepsQueue ==
  ASSUME QueueInv, Restart
  PROVE  QueueInv'
  <1> USE DownloadAssumption
  <1> USE DEF QueueInv, Restart, files
  <1>1. Queueing' /\ QueueApart' /\ QueuedOnlyWhenFull'
    <2>1. pending' = <<>> /\ Len(pending') = 0 /\ pending' \in Seq(Downloads)
      BY EmptySeq
    <2> QED BY <2>1 DEF Queueing, QueueApart, QueuedOnlyWhenFull
  <1>2. Shape'
    BY DEF Shape, Phase
  <1>3. RequestsKnown' /\ SlotsKnown' /\ CancelsKnown'
    BY DEF RequestsKnown, SlotsKnown, CancelsKnown, Waiting, Shape
  <1>4. Occupied' = {} /\ Cardinality(Occupied') = 0
    BY FS_EmptySet DEF Occupied
  <1>5. WithinLimit' /\ LiveDownloadsHoldSlots' /\ SlotsHaveOwners'
    BY <1>4 DEF WithinLimit, LiveDownloadsHoldSlots, SlotsHaveOwners, Live, Claimed,
                TaskPhase, TailPhase
  <1> QED BY <1>1, <1>2, <1>3, <1>5

-----------------------------------------------------------------------------
Shown == {"Queued", "Downloading", "Verifying"}

(* A download goes on being shown if its entry stays, is renewed or is cleared
   late; one that shows itself for the first time knows who is about to. *)
LEMMA ShownIsKept ==
  ASSUME FetchingIsShown, ClearsTakeCrossed, variant' = variant,
         robbed \subseteq robbed', crossed \subseteq crossed',
         \A e \in Downloads :
           /\ pc'[e] = "clear" => pc[e] = "clear" \/ board[variant[e]] = "Completed"
           /\ Live(e)' /\ pc'[e] \in TaskPhase =>
                \/ e \in robbed'
                \/ /\ Live(e) /\ pc[e] \in TaskPhase
                   /\ \/ board'[variant[e]] = board[variant[e]]
                      \/ board'[variant[e]] \in Shown
                      \/ e \in crossed /\ board'[variant[e]] = NoEntry
                \/ /\ board'[variant[e]] \in Shown
                   /\ \A d \in Downloads : pc'[d] = "clear" /\ variant[d] = variant[e]
                                          => e \in crossed'
  PROVE  FetchingIsShown' /\ ClearsTakeCrossed'
  <1>1. FetchingIsShown'
    BY DEF FetchingIsShown, Shown
  <1>2. ClearsTakeCrossed'
    <2> SUFFICES ASSUME NEW d \in Downloads, NEW e \in Downloads, pc'[d] = "clear",
                        variant[d] = variant[e], Live(e)', pc'[e] \in TaskPhase, e \notin robbed'
                 PROVE  e \in crossed'
      BY DEF ClearsTakeCrossed
    <2>1. CASE Live(e) /\ pc[e] \in TaskPhase
      BY <2>1 DEF FetchingIsShown, ClearsTakeCrossed, Shown
    <2> QED BY <2>1
  <1> QED BY <1>1, <1>2

(* Steps that leave the directory alone, open no file and pass no check. *)
LEMMA QuietKeepsFiles ==
  ASSUME QueueInv, FileInv, UNCHANGED <<files, variant>>, robbed \subseteq robbed',
         crossed \subseteq crossed',
         \A e \in Downloads :
           /\ handle'[e] \in {handle[e], NoFile}
           /\ pc'[e] \in {"stream", "publish"} =>
                pc[e] \in {"stream", "publish"} /\ handle'[e] = handle[e]
           /\ pc'[e] \in Waiting => pc[e] \in Waiting
           /\ pc'[e] \in {"commit", "rename"} /\ token'[e] # "cancelled" =>
                pc[e] \in {"commit", "rename"} /\ token[e] # "cancelled"
           /\ pc'[e] = "rename" => token'[e] = "committed"
           /\ pc'[e] = "clear" => pc[e] = "clear" \/ board[variant[e]] = "Completed"
           /\ Live(e)' /\ pc'[e] \in TaskPhase =>
                \/ e \in robbed'
                \/ /\ Live(e) /\ pc[e] \in TaskPhase
                   /\ \/ board'[variant[e]] = board[variant[e]]
                      \/ board'[variant[e]] \in Shown
                      \/ e \in crossed /\ board'[variant[e]] = NoEntry
                \/ /\ board'[variant[e]] \in Shown
                   /\ \A d \in Downloads : pc'[d] = "clear" /\ variant[d] = variant[e]
                                          => e \in crossed'
  PROVE  FileInv'
  <1> USE DEF FileInv, files
  <1>1. FilesApart'
    BY DEF FilesApart
  <1>2. RenamesAreCommitted'
    BY DEF RenamesAreCommitted
  <1>3. CheckedIsWhole'
    BY DEF CheckedIsWhole, Whole
  <1>4. InstalledIsWhole'
    BY DEF InstalledIsWhole
  <1>5. FetchingIsShown' /\ ClearsTakeCrossed'
    BY ShownIsKept
  <1> QED BY <1>1, <1>2, <1>3, <1>4, <1>5

(* The download in the slot of v is the only one that means to go on with v;
   one that is not robbed has its slot. *)
LEMMA OneLivePerVariant ==
  ASSUME QueueInv, NEW d \in Downloads, Live(d), d \notin robbed
  PROVE  active[variant[d]] = d /\ variant[d] \in Variants
  BY DEF QueueInv, LiveDownloadsHoldSlots, RequestsKnown, Live, Claimed, TaskPhase, TailPhase

(* The .part of v goes, be it for a 416, a wrong digest or a cancel: who has
   the slot of v is on the way out itself, or is robbed. *)
LEMMA UnlinkKeepsFiles ==
  ASSUME QueueInv, FileInv, NEW v \in Variants, NEW d \in Downloads,
         part' = [part EXCEPT ![v] = NoFile], Robs(v, d),
         UNCHANGED <<variant, active, token, handle, content, dest, crossed>>,
         Live(d) => pc[d] \notin {"commit", "rename"},
         \A e \in Downloads :
           /\ \/ pc'[e] = pc[e]
              \/ pc'[e] \in {"probe", "failed"} /\ pc[e] \in TaskPhase
           /\ Live(e)' => Live(e),
         \A e \in Downloads : Live(e) /\ e \notin robbed' => board'[variant[e]] = board[variant[e]]
  PROVE  FileInv'
  <1> USE DEF FileInv
  <1>1. robbed' = robbed \cup ({active[v]} \ {d, NoDownload}) /\ robbed \subseteq robbed'
    BY DEF Robs
  <1>2. \A w \in Variants : part'[w] = IF w = v THEN NoFile ELSE part[w]
    BY DEF QueueInv, Shape
  <1>3. FilesApart'
    BY <1>2 DEF FilesApart, Waiting, TaskPhase
  <1>4. RenamesAreCommitted' /\ InstalledIsWhole'
    BY <1>1 DEF RenamesAreCommitted, InstalledIsWhole
  <1>5. CheckedIsWhole'
    <2> SUFFICES ASSUME robbed' = {}, NEW e \in Downloads, pc[e] \in {"commit", "rename"},
                        token[e] # "cancelled"
                 PROVE  Whole(variant[e])'
      BY DEF CheckedIsWhole
    <2>1. Whole(variant[e]) /\ Live(e)
      BY <1>1 DEF CheckedIsWhole, Live, Claimed, TaskPhase
    <2>2. active[variant[e]] = e /\ variant[e] \in Variants
      BY <1>1, <2>1, OneLivePerVariant
    <2>3. variant[e] # v
      BY <1>1, <2>1, <2>2, DownloadAssumption
    <2> QED BY <1>2, <2>1, <2>2, <2>3 DEF Whole
  <1>6. \A e \in Downloads : Live(e)' /\ pc'[e] \in TaskPhase => Live(e) /\ pc[e] \in TaskPhase
    OBVIOUS
  <1>7. FetchingIsShown' /\ ClearsTakeCrossed'
    BY <1>1, <1>6, ShownIsKept
  <1> QED BY <1>3, <1>4, <1>5, <1>7

LEMMA TaskKeepsFiles ==
  ASSUME DownloadInv, NEW d \in Downloads, TaskStep(d) \/ StartDropped(d)
  PROVE  FileInv'
  <1> USE DownloadAssumption
  <1> USE DEF queue, cancels, history, Goto, Publish, Waiting
  <1>1. Shape /\ RequestsKnown /\ QueueInv /\ FileInv
    BY DEF DownloadInv, QueueInv
  <1>2. \A e \in Downloads : pc[e] = "rename" => token[e] = "committed"
    BY <1>1 DEF FileInv, RenamesAreCommitted
  <1>3. pc[d] \notin Waiting => variant[d] \in Variants
    BY <1>1 DEF RequestsKnown
  <1>4. CASE Launch(d)
    BY <1>1, <1>2, <1>4, QuietKeepsFiles DEF Launch, Shape, Live, Claimed, TaskPhase
  <1>5. CASE Announce(d)
    BY <1>1, <1>2, <1>3, <1>5, QuietKeepsFiles DEF Announce, Shape, Shown, Live, Claimed, TaskPhase
  <1>6. CASE Probe(d)
    BY <1>1, <1>2, <1>6, QuietKeepsFiles DEF Probe, Shape, Live, Claimed, TaskPhase
  <1>9. CASE TransferFails(d)
    BY <1>1, <1>2, <1>9, QuietKeepsFiles DEF TransferFails, Ended, Shape, Live, Claimed, TaskPhase
  <1>10. CASE StopCancelled(d)
    BY <1>1, <1>2, <1>10, QuietKeepsFiles DEF StopCancelled, Ended, Shape, Live, Claimed, TaskPhase
  <1>12. CASE PublishChunk(d)
    BY <1>1, <1>2, <1>3, <1>12, QuietKeepsFiles
    DEF PublishChunk, Shape, Shown, Live, Claimed, TaskPhase
  <1>13. CASE BodyComplete(d)
    BY <1>1, <1>2, <1>13, QuietKeepsFiles DEF BodyComplete, Ended, Shape, Live, Claimed, TaskPhase
  <1>14. CASE PublishVerifying(d)
    BY <1>1, <1>2, <1>3, <1>14, QuietKeepsFiles
    DEF PublishVerifying, Shape, Shown, Live, Claimed, TaskPhase
  <1>16. CASE Commit(d)
    BY <1>1, <1>2, <1>16, QuietKeepsFiles DEF Commit, Shape, Live, Claimed, TaskPhase
  <1>18. CASE Conclude(d)
    BY <1>1, <1>2, <1>18, QuietKeepsFiles DEF Conclude, Shape, Live, Claimed, TaskPhase
  <1>20. CASE Install(d)
    BY <1>1, <1>2, <1>20, QuietKeepsFiles DEF Install, Shape, Live, Claimed, TaskPhase
  <1>22. CASE EndGrace(d)
    BY <1>1, <1>2, <1>22, QuietKeepsFiles DEF EndGrace, Shape, Live, Claimed, TaskPhase
  <1>24. CASE StartDropped(d)
    BY <1>1, <1>2, <1>24, QuietKeepsFiles DEF StartDropped, Shape, Live, Claimed, TaskPhase
  <1>19. CASE PublishTerminal(d)
    <2>1. \A e \in Downloads :
            Live(e)' /\ pc'[e] \in TaskPhase =>
              \/ e \in robbed'
              \/ Live(e) /\ pc[e] \in TaskPhase /\ board'[variant[e]] = board[variant[e]]
      <3> SUFFICES ASSUME NEW e \in Downloads, Live(e)', pc'[e] \in TaskPhase, e \notin robbed'
                   PROVE  Live(e) /\ pc[e] \in TaskPhase /\ board'[variant[e]] = board[variant[e]]
        OBVIOUS
      <3>1. e # d
        BY <1>1, <1>19 DEF PublishTerminal, Shape, TaskPhase
      <3>2. Live(e) /\ pc[e] \in TaskPhase /\ e \notin robbed
        BY <1>1, <1>19, <3>1 DEF PublishTerminal, Robs, Shape, Live
      <3>3. active[variant[e]] = e /\ variant[e] \in Variants
        BY <1>1, <3>2, OneLivePerVariant
      <3>4. variant[e] # variant[d]
        <4>1. robbed' = robbed \cup ({active[variant[d]]} \ {d, NoDownload})
          BY <1>19 DEF PublishTerminal, Robs
        <4> QED BY <3>1, <3>3, <4>1
      <3>5. \A w \in Variants : w # variant[d] => board'[w] = board[w]
        BY <1>1, <1>19 DEF PublishTerminal, Shape
      <3> QED BY <3>2, <3>3, <3>4, <3>5
    <2> QED BY <1>1, <1>2, <1>19, <2>1, QuietKeepsFiles
            DEF PublishTerminal, Robs, Shape
  <1>25. CASE ClearCompleted(d)
    <2>1. /\ pc[d] = "clear" /\ pc' = [pc EXCEPT ![d] = "done"]
          /\ board' = [board EXCEPT ![variant[d]] = NoEntry]
          /\ UNCHANGED <<token, variant, handle, files, robbed, crossed>>
      BY <1>25 DEF ClearCompleted, Unboard
    <2>2. \A e \in Downloads : pc'[e] = IF e = d THEN "done" ELSE pc[e]
      BY <1>1, <2>1 DEF Shape
    <2>3. ASSUME NEW e \in Downloads, Live(e)', pc'[e] \in TaskPhase, e \notin robbed'
          PROVE  /\ Live(e) /\ pc[e] \in TaskPhase
                 /\ \/ board'[variant[e]] = board[variant[e]]
                    \/ e \in crossed /\ board'[variant[e]] = NoEntry
      <3>1. Live(e) /\ pc[e] \in TaskPhase /\ variant[e] \in Variants
        BY <1>1, <2>1, <2>2, <2>3 DEF Live, TaskPhase, RequestsKnown
      <3>2. variant[e] = variant[d] => e \in crossed
        BY <1>1, <2>1, <2>3, <3>1 DEF FileInv, ClearsTakeCrossed
      <3> QED BY <1>1, <2>1, <3>1, <3>2 DEF Shape
    <2> QED BY <1>1, <1>2, <2>1, <2>2, <2>3, QuietKeepsFiles
  <1>21. CASE Release(d)
    <2>1. /\ \E p \in {"done", "linger"} : FreeSlot(variant[d], d, [pc EXCEPT ![d] = p])
          /\ pc[d] \notin Waiting
          /\ UNCHANGED <<board, variant, token, handle, files, crossed>>
      BY <1>21 DEF Release
    <2>2. robbed \subseteq robbed'
      BY <2>1 DEF FreeSlot, Robs
    <2>3. \A e \in Downloads : pc'[e] = pc[e] \/ pc'[e] \in {"done", "linger", "launch"}
      BY <1>1, <2>1 DEF FreeSlot, Shape
    <2> QED BY <1>1, <1>2, <2>1, <2>2, <2>3, QuietKeepsFiles DEF Live, Claimed, TaskPhase
  <1>7. CASE Responded(d)
    <2> DEFINE v == variant[d]
               i == IF part[v] # NoFile THEN part[v] ELSE FreshInode
    <2>1. /\ pc[d] = "request" /\ part' = [part EXCEPT ![v] = i]
          /\ content' = IF part[v] = NoFile THEN [content EXCEPT ![i] = 0] ELSE content
          /\ handle' = [handle EXCEPT ![d] = i] /\ pc' = [pc EXCEPT ![d] = "stream"]
          /\ UNCHANGED <<board, variant, token, dest, robbed, active, crossed>>
      BY <1>7 DEF Responded
    <2>2. v \in Variants /\ i \in Inodes
      BY <1>1, <1>3, <2>1, FreshIsFree DEF Shape
    <2>3. part[v] # NoFile => part' = part /\ content' = content /\ i = part[v]
      BY <1>1, <2>1 DEF Shape
    <2>4. part[v] = NoFile =>
            /\ \A w \in Variants : part[w] # i
            /\ \A e \in Downloads : handle[e] # i
      BY <1>1, <2>2, FreshIsFree DEF Linked
    <2>5. /\ \A w \in Variants : part'[w] = IF w = v THEN i ELSE part[w]
          /\ \A e \in Downloads : handle'[e] = IF e = d THEN i ELSE handle[e]
          /\ \A e \in Downloads : pc'[e] = IF e = d THEN "stream" ELSE pc[e]
      BY <1>1, <2>1 DEF Shape
    <2> HIDE DEF i
    <2>6. FilesApart'
      <3>1. \A w \in Variants : w # v => part[w] # i
        BY <1>1, <2>2, <2>3, <2>4 DEF FileInv, FilesApart
      <3>2. \A e \in Downloads, w \in Variants :
              handle[e] # NoFile /\ handle[e] = i => variant[e] = v
        BY <1>1, <2>2, <2>3, <2>4 DEF FileInv, FilesApart
      <3> QED BY <1>1, <2>1, <2>2, <2>5, <3>1, <3>2 DEF FileInv, FilesApart
    <2>7. RenamesAreCommitted'
      BY <1>2, <2>1, <2>5 DEF RenamesAreCommitted
    <2>8. CheckedIsWhole'
      <3> SUFFICES ASSUME robbed = {}, NEW e \in Downloads, pc[e] \in {"commit", "rename"},
                          token[e] # "cancelled"
                   PROVE  Whole(variant[e])'
        BY <2>1, <2>5 DEF CheckedIsWhole
      <3>1. Whole(variant[e]) /\ variant[e] \in Variants
        BY <1>1 DEF FileInv, CheckedIsWhole, RequestsKnown
      <3>2. CASE variant[e] = v
        BY <2>1, <2>3, <3>1, <3>2 DEF Whole
      <3>3. CASE variant[e] # v
        <4>1. part'[variant[e]] = part[variant[e]]
          BY <2>5, <3>1, <3>3
        <4>2. content'[part[variant[e]]] = content[part[variant[e]]]
          BY <1>1, <2>1, <2>3, <2>4, <3>1 DEF Shape, Whole
        <4> QED BY <2>1, <3>1, <4>1, <4>2 DEF Whole
      <3> QED BY <3>2, <3>3
    <2>9. InstalledIsWhole'
      BY <1>1, <2>1 DEF FileInv, InstalledIsWhole
    <2>10. FetchingIsShown' /\ ClearsTakeCrossed'
      BY <1>1, <2>1, <2>5, ShownIsKept DEF FileInv, Live, Claimed, TaskPhase
    <2> QED BY <2>6, <2>7, <2>8, <2>9, <2>10 DEF FileInv
  <1>8. CASE RangeRefused(d)
    <2>1. /\ pc[d] = "request" /\ token' = token
          /\ pc' = [pc EXCEPT ![d] = "probe"]
          /\ UNCHANGED <<variant, active, board, handle, content, dest, crossed>>
      BY <1>8 DEF RangeRefused
    <2>2. \A e \in Downloads :
            /\ pc'[e] = IF e = d THEN "probe" ELSE pc[e]
            /\ Live(e)' => Live(e)
      BY <1>1, <2>1 DEF Shape, Live, Claimed, TaskPhase
    <2> QED BY <1>1, <1>2, <1>3, <1>8, <2>1, <2>2, UnlinkKeepsFiles
            DEF RangeRefused, TaskPhase
  <1>15. CASE Verify(d)
    <2>1. /\ pc[d] = "hash" /\ token' = token
          /\ UNCHANGED <<variant, active, board, handle, content, dest, crossed>>
      BY <1>15 DEF Verify
    <2>2. CASE Whole(variant[d]) /\ pc' = [pc EXCEPT ![d] = "commit"] /\ UNCHANGED <<part, robbed>>
      <3>1. \A e \in Downloads :
            /\ pc'[e] = IF e = d THEN "commit" ELSE pc[e]
            /\ Live(e)' => Live(e)
        BY <1>1, <2>1, <2>2 DEF Shape, Live, Claimed, TaskPhase
      <3>2. FilesApart'
        BY <1>1, <2>1, <2>2, <3>1 DEF FileInv, FilesApart
      <3>3. RenamesAreCommitted' /\ InstalledIsWhole'
        BY <1>1, <1>2, <2>1, <2>2, <3>1 DEF FileInv, RenamesAreCommitted, InstalledIsWhole
      <3>4. CheckedIsWhole'
        BY <1>1, <2>1, <2>2, <3>1 DEF FileInv, CheckedIsWhole, Whole
      <3>5. FetchingIsShown' /\ ClearsTakeCrossed'
        BY <1>1, <2>1, <2>2, <3>1, ShownIsKept DEF FileInv, TaskPhase
      <3> QED BY <3>2, <3>3, <3>4, <3>5 DEF FileInv
    <2>3. CASE /\ pc' = [pc EXCEPT ![d] = "failed"] /\ Robs(variant[d], d)
               /\ part' = [part EXCEPT ![variant[d]] = NoFile]
      <3>1. \A e \in Downloads :
            /\ pc'[e] = IF e = d THEN "failed" ELSE pc[e]
            /\ Live(e)' => Live(e)
        BY <1>1, <2>1, <2>3 DEF Shape, Live, Claimed, TaskPhase
      <3> QED BY <1>1, <1>2, <1>3, <2>1, <2>3, <3>1, UnlinkKeepsFiles DEF TaskPhase
    <2> QED BY <1>15, <2>2, <2>3 DEF Verify
  <1>11. CASE WriteChunk(d)
    <2>1. /\ pc[d] = "stream" /\ token[d] # "cancelled"
          /\ \E n : content' = [content EXCEPT ![handle[d]] = n]
          /\ UNCHANGED <<board, variant, token, handle, active, part, dest, robbed, crossed>>
      BY <1>11 DEF WriteChunk, files
    <2>2. \A e \in Downloads :
            /\ pc'[e] = IF e = d THEN "publish" ELSE pc[e]
            /\ Live(e)' => Live(e)
      BY <1>1, <1>11, <2>1 DEF WriteChunk, Shape, Live, Claimed, TaskPhase
    <2>3. FilesApart'
      BY <1>1, <2>1, <2>2 DEF FileInv, FilesApart
    <2>4. RenamesAreCommitted' /\ InstalledIsWhole'
      BY <1>1, <1>2, <2>1, <2>2 DEF FileInv, RenamesAreCommitted, InstalledIsWhole
    <2>5. CheckedIsWhole'
      <3> SUFFICES ASSUME robbed = {}, NEW e \in Downloads, pc[e] \in {"commit", "rename"},
                          token[e] # "cancelled"
                   PROVE  Whole(variant[e])'
        BY <2>1, <2>2 DEF CheckedIsWhole
      <3>1. Whole(variant[e]) /\ variant[e] \in Variants
        BY <1>1 DEF FileInv, CheckedIsWhole, RequestsKnown
      <3>2. Live(e) /\ Live(d) /\ e # d
        BY <2>1 DEF Live, Claimed, TaskPhase
      <3>3. variant[e] # variant[d]
        BY <1>1, <3>2, OneLivePerVariant
      <3>4. handle[d] # part[variant[e]]
        BY <1>1, <2>1, <3>1, <3>3 DEF FileInv, FilesApart
      <3>5. content'[part[variant[e]]] = content[part[variant[e]]]
        BY <1>1, <2>1, <3>1, <3>4 DEF Shape, Whole
      <3> QED BY <2>1, <3>1, <3>5 DEF Whole
    <2>6. FetchingIsShown' /\ ClearsTakeCrossed'
      BY <1>1, <2>1, <2>2, ShownIsKept DEF FileInv, TaskPhase
    <2> QED BY <2>3, <2>4, <2>5, <2>6 DEF FileInv
  <1>17. CASE Rename(d)
    <2>1. /\ pc[d] = "rename" /\ token[d] = "committed" /\ variant[d] \in Variants
          /\ part[variant[d]] # NoFile
          /\ dest' = [dest EXCEPT ![variant[d]] = content[part[variant[d]]]]
          /\ part' = [part EXCEPT ![variant[d]] = NoFile]
          /\ UNCHANGED <<board, variant, token, handle, active, content, robbed, crossed>>
      BY <1>2, <1>3, <1>17 DEF Rename
    <2>2. \A e \in Downloads :
            /\ pc'[e] = IF e = d THEN "tellCompleted" ELSE pc[e]
            /\ Live(e)' => Live(e)
      BY <1>1, <1>17, <2>1 DEF Rename, Shape, Live, Claimed, TaskPhase, TailPhase
    <2>3. FilesApart'
      BY <1>1, <2>1, <2>2 DEF FileInv, FilesApart, Shape
    <2>4. RenamesAreCommitted'
      BY <1>2, <2>1, <2>2 DEF RenamesAreCommitted
    <2>5. CheckedIsWhole'
      <3> SUFFICES ASSUME robbed = {}, NEW e \in Downloads, e # d, pc[e] \in {"commit", "rename"},
                          token[e] # "cancelled"
                   PROVE  Whole(variant[e])'
        BY <2>1, <2>2 DEF CheckedIsWhole
      <3>1. Whole(variant[e]) /\ variant[e] \in Variants
        BY <1>1 DEF FileInv, CheckedIsWhole, RequestsKnown
      <3>2. Live(e) /\ Live(d)
        BY <2>1 DEF Live, Claimed, TaskPhase
      <3>3. variant[e] # variant[d]
        BY <1>1, <3>2, OneLivePerVariant
      <3> QED BY <1>1, <2>1, <3>1, <3>3 DEF Whole, Shape
    <2>6. InstalledIsWhole'
      <3>1. robbed = {} => content[part[variant[d]]] = Chunks
        BY <1>1, <2>1 DEF FileInv, CheckedIsWhole, Whole
      <3> QED BY <1>1, <2>1, <3>1 DEF FileInv, InstalledIsWhole, Shape
    <2>7. FetchingIsShown' /\ ClearsTakeCrossed'
      BY <1>1, <2>1, <2>2, ShownIsKept DEF FileInv, TaskPhase
    <2> QED BY <2>3, <2>4, <2>5, <2>6, <2>7 DEF FileInv
  <1>23. TaskStep(d) => \/ Launch(d) \/ Announce(d) \/ Probe(d) \/ Responded(d) \/ RangeRefused(d)
                        \/ TransferFails(d) \/ StopCancelled(d) \/ WriteChunk(d) \/ PublishChunk(d)
                        \/ BodyComplete(d) \/ PublishVerifying(d) \/ Verify(d) \/ Commit(d)
                        \/ Rename(d) \/ Conclude(d) \/ PublishTerminal(d) \/ Install(d)
                        \/ Release(d) \/ EndGrace(d) \/ ClearCompleted(d)
    BY DEF TaskStep
  <1> QED
    BY <1>4, <1>5, <1>6, <1>7, <1>8, <1>9, <1>10, <1>11, <1>12, <1>13, <1>14, <1>15,
       <1>16, <1>17, <1>18, <1>19, <1>20, <1>21, <1>22, <1>23, <1>24, <1>25

(* A request that is new opened no file yet. *)
LEMMA StartKeepsFiles ==
  ASSUME DownloadInv, NEW v \in Variants, Start(v)
  PROVE  FileInv'
  <1> USE DownloadAssumption
  <1> DEFINE d == CHOOSE d \in Unused : \A e \in Unused : d <= e
  <1>1. Shape /\ FileInv /\ QueueInv
    BY DEF DownloadInv, QueueInv
  <1>2. d \in Downloads /\ pc[d] = "unused"
    <2>1. Unused # {} /\ Unused \subseteq Nat
      BY DEF Start, Unused, Downloads
    <2>2. \E n \in Unused : \A m \in Unused : n <= m
      BY <2>1, SmallestNat
    <2>3. d \in Unused
      BY <2>2
    <2> QED BY <2>3 DEF Unused
  <1>3. /\ variant' = [variant EXCEPT ![d] = v]
        /\ pc' = [pc EXCEPT ![d] = "launch"] \/ pc' = [pc EXCEPT ![d] = "queued"]
        /\ UNCHANGED <<board, token, handle, part, dest, content, robbed, crossed>>
    BY DEF Start, Goto, files, history
  <1> HIDE DEF d
  <1>4. /\ \A e \in Downloads : variant'[e] = IF e = d THEN v ELSE variant[e]
        /\ \A e \in Downloads : e # d => pc'[e] = pc[e]
        /\ pc'[d] \in {"launch", "queued"}
    BY <1>1, <1>2, <1>3 DEF Shape
  <1>5. FilesApart'
    BY <1>1, <1>2, <1>3, <1>4 DEF FileInv, FilesApart, Waiting
  <1>6. RenamesAreCommitted' /\ InstalledIsWhole'
    BY <1>1, <1>3, <1>4 DEF FileInv, RenamesAreCommitted, InstalledIsWhole
  <1>7. CheckedIsWhole'
    BY <1>1, <1>3, <1>4 DEF FileInv, CheckedIsWhole, Whole
  <1>8. FetchingIsShown' /\ ClearsTakeCrossed'
    BY <1>1, <1>3, <1>4 DEF FileInv, FetchingIsShown, ClearsTakeCrossed, Live, TaskPhase
  <1> QED BY <1>5, <1>6, <1>7, <1>8 DEF FileInv

LEMMA CallsKeepFiles ==
  ASSUME DownloadInv,
         \/ \E d \in Downloads : ParkedTold(d)
         \/ \E c \in Cancellers :
              CancelStep(c) \/ CancelDropped(c) \/ \E v \in Variants : Cancel(c, v)
         \/ Restart
  PROVE  FileInv'
  <1> USE DownloadAssumption
  <1>1. Shape /\ FileInv /\ QueueInv /\ RequestsKnown /\ CancelsKnown /\ Queueing
    BY DEF DownloadInv, QueueInv
  <1>2. \A e \in Downloads : pc[e] = "rename" => token[e] = "committed"
    BY <1>1 DEF FileInv, RenamesAreCommitted
  <1>3. ASSUME NEW d \in Downloads, ParkedTold(d) PROVE FileInv'
    BY <1>1, <1>2, <1>3, QuietKeepsFiles
    DEF ParkedTold, Publish, queue, files, cancels, history, Shape, Shown, Live
  <1>4. ASSUME NEW c \in Cancellers, NEW v \in Variants, Cancel(c, v) PROVE FileInv'
    <2>1. UNCHANGED <<active, board, variant, handle, files, robbed, crossed>>
      BY <1>4 DEF Cancel, history
    <2>2. \A e \in Downloads :
            /\ pc'[e] = pc[e] \/ pc'[e] = "done"
            /\ \/ token'[e] = token[e]
               \/ token'[e] = "cancelled" /\ token[e] # "committed"
      BY <1>1, <1>4 DEF Cancel, Goto, Shape
    <2> QED BY <1>1, <1>2, <2>1, <2>2, QuietKeepsFiles DEF Live, Claimed, TaskPhase, TailPhase, Waiting
  <1>5. ASSUME NEW c \in Cancellers, Erase(c) PROVE FileInv'
    <2>1. \A e \in Downloads : Live(e) /\ e \notin robbed' => variant[e] # cvariant[c]
      <3> SUFFICES ASSUME NEW e \in Downloads, Live(e), e \notin robbed', variant[e] = cvariant[c]
                   PROVE  FALSE
        OBVIOUS
      <3>1. robbed' = robbed \cup ({active[cvariant[c]]} \ {NoDownload, NoDownload})
        BY <1>5 DEF Erase, Robs
      <3> QED BY <1>1, <3>1, OneLivePerVariant
    <2>2. /\ UNCHANGED <<pc, token, variant, handle, files, crossed>> /\ robbed \subseteq robbed'
          /\ board' = [board EXCEPT ![cvariant[c]] = NoEntry]
      BY <1>5 DEF Erase, Robs, Unboard, task
    <2>3. \A e \in Downloads : Live(e) /\ e \notin robbed' => board'[variant[e]] = board[variant[e]]
      BY <1>1, <2>1, <2>2 DEF Shape, RequestsKnown, Live, Claimed, TaskPhase, TailPhase
    <2> QED BY <1>1, <1>2, <2>2, <2>3, QuietKeepsFiles DEF Live
  <1>6. ASSUME NEW c \in Cancellers, Teardown(c) PROVE FileInv'
    <2> DEFINE v == cvariant[c]
               d == ctarget[c]
    <2>1. v \in Variants /\ d \in Downloads /\ token[d] = "cancelled"
      BY <1>1, <1>6 DEF CancelsKnown, Teardown
    <2>2. /\ part' = [part EXCEPT ![v] = NoFile] /\ Robs(v, d)
          /\ UNCHANGED <<pc, token, variant, active, handle, content, dest, crossed>>
          /\ board' = [board EXCEPT ![v] = NoEntry]
      BY <1>6 DEF Teardown, Unboard, task, queue
    <2> HIDE DEF v, d
    <2>3. \A e \in Downloads : Live(e) /\ e \notin robbed' => variant[e] # v
      <3> SUFFICES ASSUME NEW e \in Downloads, Live(e), e \notin robbed', variant[e] = v
                   PROVE  FALSE
        OBVIOUS
      <3>1. robbed' = robbed \cup ({active[v]} \ {d, NoDownload}) /\ e # d
        BY <2>1, <2>2 DEF Robs, Live
      <3> QED BY <1>1, <3>1, OneLivePerVariant
    <2>4. \A e \in Downloads : Live(e) /\ e \notin robbed' => board'[variant[e]] = board[variant[e]]
      BY <1>1, <2>2, <2>3 DEF Shape, RequestsKnown, Live, Claimed, TaskPhase, TailPhase
    <2>5. ~Live(d) /\ \A e \in Downloads : Live(e)' => Live(e)
      BY <2>1, <2>2 DEF Live
    <2> QED BY <1>1, <2>1, <2>2, <2>4, <2>5, UnlinkKeepsFiles
  <1>7. ASSUME NEW c \in Cancellers, CancelRelease(c) PROVE FileInv'
    <2>1. /\ FreeSlot(cvariant[c], ctarget[c], pc)
          /\ UNCHANGED <<board, variant, token, handle, files, crossed>>
      BY <1>7 DEF CancelRelease
    <2>2. robbed \subseteq robbed'
      BY <2>1 DEF FreeSlot, Robs
    <2>3. \A e \in Downloads : pc'[e] = pc[e] \/ pc'[e] = "launch"
      BY <1>1, <2>1 DEF FreeSlot, Shape
    <2> QED BY <1>1, <1>2, <2>1, <2>2, <2>3, QuietKeepsFiles DEF Live, Claimed, TaskPhase, Waiting
  <1>8. ASSUME NEW c \in Cancellers, CancelDropped(c) PROVE FileInv'
    BY <1>1, <1>2, <1>8, QuietKeepsFiles DEF CancelDropped, task, Live
  <1>9. CASE Restart
    BY <1>1, <1>9, QuietKeepsFiles DEF Restart, Live, Claimed, TaskPhase, TailPhase, Waiting
  <1> QED BY <1>3, <1>4, <1>5, <1>6, <1>7, <1>8, <1>9 DEF CancelStep

LEMMA NextDownloads == DownloadInv /\ [Next]_vars => DownloadInv'
  <1> SUFFICES ASSUME DownloadInv, [Next]_vars PROVE DownloadInv'
    OBVIOUS
  <1> USE DEF DownloadInv
  <1>1. ASSUME NEW v \in Variants, Start(v) PROVE DownloadInv'
    BY <1>1, StartKeepsQueue, StartKeepsFiles
  <1>2. ASSUME NEW d \in Downloads, TaskStep(d) \/ StartDropped(d) PROVE DownloadInv'
    BY <1>2, TaskKeepsQueue, TaskKeepsFiles DEF FileInv
  <1>3. ASSUME NEW d \in Downloads, ParkedTold(d) PROVE DownloadInv'
    BY <1>3, ParkedToldKeepsQueue, CallsKeepFiles
  <1>4. ASSUME NEW c \in Cancellers, CancelStep(c) \/ CancelDropped(c) PROVE DownloadInv'
    BY <1>4, CancelStepKeepsQueue, CallsKeepFiles
  <1>5. ASSUME NEW c \in Cancellers, NEW v \in Variants, Cancel(c, v) PROVE DownloadInv'
    BY <1>5, CancelKeepsQueue, CallsKeepFiles
  <1>6. CASE Restart
    BY <1>6, RestartKeepsQueue, CallsKeepFiles
  <1>7. CASE UNCHANGED vars
    <2> USE <1>7 DEF vars, queue, task, files, cancels, history
    <2>1. Queueing' /\ Shape' /\ QueueApart' /\ CancelsKnown'
      BY DEF QueueInv, Queueing, Shape, QueueApart, CancelsKnown
    <2>2. RequestsKnown' /\ SlotsKnown' /\ WithinLimit' /\ QueuedOnlyWhenFull'
      BY DEF QueueInv, RequestsKnown, SlotsKnown, WithinLimit, QueuedOnlyWhenFull, Occupied
    <2>3. LiveDownloadsHoldSlots' /\ SlotsHaveOwners'
      BY DEF QueueInv, LiveDownloadsHoldSlots, SlotsHaveOwners, Live, Occupied
    <2>4. FileInv'
      BY DEF FileInv, FilesApart, RenamesAreCommitted, CheckedIsWhole, InstalledIsWhole,
             FetchingIsShown, ClearsTakeCrossed, Live, Whole
    <2> QED BY <2>1, <2>2, <2>3, <2>4 DEF QueueInv
  <1> QED BY <1>1, <1>2, <1>3, <1>4, <1>5, <1>6, <1>7 DEF Next

-----------------------------------------------------------------------------
(* download_manager.rs, download.rs: what the proofs below rest on holds at
   every step of every request, task and cancel, across restarts. *)
THEOREM DownloadsInvariant == Spec => []DownloadInv
  <1> QED BY InitDownloads, NextDownloads, PTL DEF Spec

(* Every variable keeps its shape, and the queue holds each request once. *)
THEOREM DownloadsTypeCorrect == Spec => []TypeOK
  <1>1. DownloadInv => TypeOK
    BY TypeOKInParts DEF DownloadInv, QueueInv
  <1> QED BY <1>1, DownloadsInvariant, PTL

(* download_manager.rs:56-59: as long as a slot is free nobody waits, and never
   are more slots taken than the limit allows. *)
THEOREM DownloadsQueueOnlyWhenFull == Spec => [](QueuedOnlyWhenFull /\ WithinLimit)
  <1>1. DownloadInv => QueuedOnlyWhenFull /\ WithinLimit
    BY DEF DownloadInv, QueueInv
  <1> QED BY <1>1, DownloadsInvariant, PTL

(* download_manager.rs:9-21: a download that goes on holds the slot of its
   Variant, unless another one's task or cancel took something away from it. *)
THEOREM DownloadsHoldSlots == Spec => []LiveDownloadsHoldSlots
  <1>1. DownloadInv => LiveDownloadsHoldSlots
    BY DEF DownloadInv, QueueInv
  <1> QED BY <1>1, DownloadsInvariant, PTL

(* download_manager.rs:56-59: somebody is still there to free each slot that is
   held, but for a call that was dropped half way. *)
THEOREM DownloadsFreeSlots == Spec => []HeldSlotsAreFreed
  <1>1. DownloadInv => HeldSlotsAreFreed
    BY DEF DownloadInv, QueueInv, SlotsHaveOwners, HeldSlotsAreFreed
  <1> QED BY <1>1, DownloadsInvariant, PTL

(* download.rs: a file is installed whole and in order, whatever was resumed,
   restarted, cancelled or abandoned on the way, as long as no download was
   robbed by a task or a cancel of another one. *)
THEOREM DownloadsInstallWhole == Spec => []InstalledIsWhole
  <1>1. DownloadInv => InstalledIsWhole
    BY DEF DownloadInv, FileInv
  <1> QED BY <1>1, DownloadsInvariant, PTL

(* download.rs:174-177: a download that is being fetched shows on the board: the
   late clear of a Completed entry takes none but one that was first published
   between its look and the removal, download_manager.rs:428-431. *)
THEOREM DownloadsAreShown == Spec => []FetchingIsShown
  <1>1. DownloadInv => FetchingIsShown
    BY DEF DownloadInv, FileInv
  <1> QED BY <1>1, DownloadsInvariant, PTL

=============================================================================
