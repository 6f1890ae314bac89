-------------------------- MODULE TranscriberProofs --------------------------
(***************************************************************************)
(* Proofs about ModelPool and about Transcriber, its user: the pool is     *)
(* sound for every set of tasks and every size; the sessions use it as     *)
(* ModelPool allows and keep their rows, their buffers and their streams,  *)
(* for every set of clients, cap and slicing of the audio.                 *)
(***************************************************************************)
EXTENDS Transcriber, FiniteSetTheorems, SequenceTheorems, TLAPS

(* Exactly the tasks inside with_engine or with an idle guard have an index. *)
HeldMatchesPhase == \A c \in Clients : held[c] \in Slots <=> c \in WithSlot

(* No two guards share an index, the free list repeats none and holds none
   that a guard has. *)
IndicesDistinct ==
  /\ \A c, d \in WithSlot : held[c] = held[d] => c = d
  /\ \A m, n \in 1 .. Len(free) : free[m] = free[n] => m = n
  /\ \A c \in WithSlot, n \in 1 .. Len(free) : held[c] # free[n]

IndicesConserved == Len(free) + Cardinality(WithSlot) = Size

(* The semaphore's queue holds waiting tasks, each once. *)
QueueOK ==
  /\ \A n \in 1 .. Len(waitq) : pc[waitq[n]] = "waiting"
  /\ \A m, n \in 1 .. Len(waitq) : waitq[m] = waitq[n] => m = n

(* The inductive invariant. *)
PoolInv ==
  /\ TypeOK
  /\ HeldMatchesPhase
  /\ IndicesDistinct
  /\ IndicesConserved
  /\ QueueOK
  /\ PermitsConserved
  /\ PanickedIsFenced

-----------------------------------------------------------------------------
(* Counting a set of tasks that one task joins or leaves. *)
LEMMA CountTasks ==
  ASSUME NEW S \in SUBSET Clients, NEW c \in Clients
  PROVE  /\ Cardinality(S) \in Nat
         /\ c \notin S => Cardinality(S \cup {c}) = Cardinality(S) + 1
         /\ c \in S => Cardinality(S \ {c}) = Cardinality(S) - 1
<1>1. IsFiniteSet(S)
  BY PoolAssumption, FS_Subset
<1> QED
  BY <1>1, FS_CardinalityType, FS_AddElement, FS_RemoveElement

(* Removing one place from a sequence of distinct elements. *)
LEMMA RemoveAtProperties ==
  ASSUME NEW S, NEW s \in Seq(S), NEW i \in 1 .. Len(s)
  PROVE  /\ RemoveAt(s, i) \in Seq(S)
         /\ Len(RemoveAt(s, i)) = Len(s) - 1
         /\ \A n \in 1 .. Len(s) - 1 :
              RemoveAt(s, i)[n] = IF n < i THEN s[n] ELSE s[n + 1]
<1> DEFINE a == SubSeq(s, 1, i - 1)
           b == SubSeq(s, i + 1, Len(s))
<1>1. Len(s) \in Nat /\ \A n \in 1 .. Len(s) : s[n] \in S
  BY ElementOfSeq, LenProperties
<1>2. /\ a \in Seq(S) /\ Len(a) = i - 1
      /\ \A n \in 1 .. i - 1 : a[n] = s[n]
  <2>1. \A n \in 1 .. i - 1 : s[n] \in S
    BY <1>1
  <2> QED
    BY <1>1, <2>1, SubSeqProperties, Z3
<1>3. /\ b \in Seq(S) /\ Len(b) = Len(s) - i
      /\ \A n \in 1 .. Len(s) - i : b[n] = s[n + i]
  <2>1. \A n \in i + 1 .. Len(s) : s[n] \in S
    BY <1>1
  <2> QED
    BY <1>1, <2>1, SubSeqProperties, Z3
<1>4. RemoveAt(s, i) = a \o b
  BY DEF RemoveAt
<1> HIDE DEF a, b
<1>5. /\ a \o b \in Seq(S)
      /\ Len(a \o b) = Len(a) + Len(b)
      /\ \A n \in 1 .. Len(a) + Len(b) :
           (a \o b)[n] = IF n <= Len(a) THEN a[n] ELSE b[n - Len(a)]
  BY <1>2, <1>3, ConcatProperties
<1> QED
  BY <1>1, <1>2, <1>3, <1>4, <1>5

LEMMA InitPool == Init => PoolInv
<1> SUFFICES ASSUME Init PROVE PoolInv
  OBVIOUS
<1>1. Size \in Nat /\ Slots = 0 .. Size - 1 /\ NoSlot = -1
  BY PoolAssumption DEF Slots, NoSlot
<1>2. free \in Seq(Slots) /\ Len(free) = Size
  BY <1>1 DEF Init, AllFree
<1>3. TypeOK
  BY <1>1, <1>2 DEF Init, TypeOK, Phase
<1>4. WithSlot = {} /\ WithPermit = {}
  BY DEF Init, WithSlot, WithPermit
<1>5. Cardinality(WithSlot) = 0 /\ Cardinality(WithPermit) = 0
  BY <1>4, FS_EmptySet
<1>6. HeldMatchesPhase /\ IndicesDistinct
  BY <1>1, <1>2, <1>4 DEF Init, AllFree, HeldMatchesPhase, IndicesDistinct
<1>7. IndicesConserved /\ PermitsConserved
  BY <1>1, <1>2, <1>5 DEF Init, IndicesConserved, PermitsConserved
<1>8. QueueOK
  BY DEF Init, QueueOK
<1>9. PanickedIsFenced
  BY DEF Init, PanickedIsFenced
<1> QED
  BY <1>3, <1>6, <1>7, <1>8, <1>9 DEF PoolInv

-----------------------------------------------------------------------------
(* What a task gives up with HandOn: the tasks that hold a permit lose it and
   gain the longest waiter, if there is one. *)
LEMMA HandOnPreserves ==
  ASSUME PoolInv, NEW c \in Clients, HandOn(c),
         pc[c] \in {"granted", "returned"}, UNCHANGED <<engine, free, held>>
  PROVE  PoolInv'
<1> USE DEF PoolInv
<1>1. WithSlot' = WithSlot /\ WithSlot \subseteq Clients /\ WithPermit \subseteq Clients
      /\ c \in WithPermit
  BY DEF HandOn, WithSlot, WithPermit, QueueOK, TypeOK
<1>2. HeldMatchesPhase' /\ IndicesDistinct' /\ IndicesConserved'
  BY <1>1 DEF HeldMatchesPhase, IndicesDistinct, IndicesConserved, Slots
<1>3. PanickedIsFenced'
  BY DEF HandOn, PanickedIsFenced, QueueOK, TypeOK, Slots
<1>4. CASE waitq = <<>>
  <2>1. permits' = permits + 1 /\ pc' = [pc EXCEPT ![c] = "idle"] /\ waitq' = waitq
    BY <1>4 DEF HandOn
  <2>2. TypeOK'
    BY <2>1 DEF TypeOK, Phase, Slots
  <2>3. WithPermit' = WithPermit \ {c}
    BY <2>1 DEF WithPermit, TypeOK
  <2>4. PermitsConserved'
    <3>1. /\ Cardinality(WithPermit) \in Nat
          /\ Cardinality(WithPermit') = Cardinality(WithPermit) - 1
      BY <1>1, <2>3, CountTasks
    <3> QED
      BY <2>1, <3>1 DEF PermitsConserved, TypeOK
  <2>5. QueueOK'
    BY <1>4, <2>1 DEF QueueOK
  <2> QED
    BY <1>2, <1>3, <2>2, <2>4, <2>5
<1>5. CASE waitq # <<>>
  <2> DEFINE h == Head(waitq)
  <2>1. /\ permits' = permits /\ waitq' = Tail(waitq)
        /\ pc' = [pc EXCEPT ![c] = "idle", ![h] = "granted"]
    BY <1>5 DEF HandOn
  <2>2. /\ h \in Clients /\ h = waitq[1] /\ Len(waitq) \in Nat \ {0}
        /\ Tail(waitq) \in Seq(Clients) /\ Len(Tail(waitq)) = Len(waitq) - 1
        /\ \A n \in 1 .. Len(waitq) - 1 : Tail(waitq)[n] = waitq[n + 1]
    BY <1>5, HeadTailProperties, EmptySeq DEF TypeOK
  <2>3. pc[h] = "waiting" /\ h # c
    BY <2>2 DEF QueueOK
  <2> HIDE DEF h
  <2>4. TypeOK'
    BY <2>1, <2>2 DEF TypeOK, Phase, Slots
  <2>5. WithPermit' = (WithPermit \ {c}) \cup {h} /\ h \notin WithPermit
    BY <2>1, <2>2, <2>3 DEF WithPermit, TypeOK
  <2>6. Cardinality(WithPermit \ {c}) = Cardinality(WithPermit) - 1
    BY <1>1, CountTasks
  <2>7. Cardinality(WithPermit') = Cardinality(WithPermit \ {c}) + 1
    BY <1>1, <2>2, <2>5, CountTasks
  <2>8. PermitsConserved'
    BY <1>1, <2>1, <2>6, <2>7, CountTasks DEF PermitsConserved, TypeOK
  <2>9. QueueOK'
    <3>1. \A n \in 1 .. Len(waitq') : waitq'[n] = waitq[n + 1] /\ n + 1 \in 2 .. Len(waitq)
      BY <2>1, <2>2
    <3>2. \A n \in 1 .. Len(waitq') : waitq'[n] # c /\ waitq'[n] # h
      BY <2>2, <3>1 DEF QueueOK
    <3> QED
      BY <2>1, <2>2, <3>1, <3>2 DEF QueueOK, TypeOK
  <2> QED
    BY <1>2, <1>3, <2>4, <2>8, <2>9
<1> QED
  BY <1>4, <1>5

(* The steps of the semaphore's waiters. *)
LEMMA WaiterPreserves ==
  ASSUME PoolInv, NEW c \in Clients,
         TakePermit(c) \/ JoinQueue(c) \/ Wake(c) \/ GiveUpWaiting(c)
  PROVE  PoolInv'
<1> USE DEF PoolInv
<1>1. WithSlot' = WithSlot /\ UNCHANGED <<engine, free, held>>
      /\ WithSlot \subseteq Clients /\ WithPermit \subseteq Clients
  BY DEF TakePermit, JoinQueue, Wake, GiveUpWaiting, WithSlot, WithPermit, TypeOK
<1>2. HeldMatchesPhase' /\ IndicesDistinct' /\ IndicesConserved'
  BY <1>1 DEF HeldMatchesPhase, IndicesDistinct, IndicesConserved, Slots
<1>3. PanickedIsFenced'
  <2>1. \A d \in Clients : pc[d] = "rebuilding" => pc'[d] = "rebuilding"
    BY DEF TakePermit, JoinQueue, Wake, GiveUpWaiting, TypeOK
  <2> QED
    BY <1>1, <2>1 DEF PanickedIsFenced, Slots
<1>4. ASSUME TakePermit(c) PROVE PoolInv'
  <2>1. WithPermit' = WithPermit \cup {c} /\ c \notin WithPermit
    BY <1>4 DEF TakePermit, WithPermit, TypeOK
  <2>2. PermitsConserved'
    BY <1>1, <1>4, <2>1, CountTasks DEF TakePermit, PermitsConserved, TypeOK
  <2>3. TypeOK' /\ QueueOK'
    BY <1>4 DEF TakePermit, TypeOK, Phase, Slots, QueueOK
  <2> QED
    BY <1>2, <1>3, <2>2, <2>3
<1>5. ASSUME JoinQueue(c) PROVE PoolInv'
  <2>1. WithPermit' = WithPermit
    BY <1>5 DEF JoinQueue, WithPermit, TypeOK
  <2>2. PermitsConserved'
    BY <1>5, <2>1 DEF JoinQueue, PermitsConserved
  <2>3. /\ waitq' \in Seq(Clients) /\ Len(waitq') = Len(waitq) + 1 /\ Len(waitq) \in Nat
        /\ \A n \in 1 .. Len(waitq) : waitq'[n] = waitq[n]
        /\ waitq'[Len(waitq) + 1] = c
    BY <1>5, AppendProperties, LenProperties DEF JoinQueue, TypeOK
  <2>4. TypeOK'
    BY <1>5, <2>3 DEF JoinQueue, TypeOK, Phase, Slots
  <2>5. \A n \in 1 .. Len(waitq) : waitq[n] # c /\ waitq[n] \in Clients
    BY <1>5, ElementOfSeq DEF JoinQueue, QueueOK, TypeOK
  <2>6. QueueOK'
    BY <1>5, <2>3, <2>5 DEF JoinQueue, QueueOK, TypeOK
  <2> QED
    BY <1>2, <1>3, <2>2, <2>4, <2>6
<1>6. ASSUME Wake(c) PROVE PoolInv'
  <2>1. WithPermit' = WithPermit
    BY <1>6 DEF Wake, WithPermit, TypeOK
  <2>2. PermitsConserved' /\ TypeOK'
    BY <1>6, <2>1 DEF Wake, PermitsConserved, TypeOK, Phase, Slots
  <2>3. QueueOK'
    BY <1>6 DEF Wake, QueueOK, TypeOK
  <2> QED
    BY <1>2, <1>3, <2>2, <2>3
<1>7. ASSUME GiveUpWaiting(c) PROVE PoolInv'
  <2>1. WithPermit' = WithPermit
    BY <1>7 DEF GiveUpWaiting, WithPermit, TypeOK
  <2>2. PICK i \in 1 .. Len(waitq) : waitq[i] = c /\ waitq' = RemoveAt(waitq, i)
    BY <1>7, LenProperties DEF GiveUpWaiting, TypeOK
  <2>3. /\ waitq' \in Seq(Clients) /\ Len(waitq') = Len(waitq) - 1 /\ Len(waitq) \in Nat
        /\ \A n \in 1 .. Len(waitq') : waitq'[n] = waitq[IF n < i THEN n ELSE n + 1]
    BY <2>2, RemoveAtProperties, LenProperties DEF TypeOK
  <2>4. PermitsConserved' /\ TypeOK'
    BY <1>7, <2>1, <2>3 DEF GiveUpWaiting, PermitsConserved, TypeOK, Phase, Slots
  <2>6. QueueOK'
    <3> DEFINE at(n) == IF n < i THEN n ELSE n + 1
    <3>1. \A n \in 1 .. Len(waitq') : at(n) \in 1 .. Len(waitq) /\ at(n) # i
      BY <2>3
    <3>2. \A m, n \in 1 .. Len(waitq') : at(m) = at(n) => m = n
      BY <2>3
    <3>3. \A n \in 1 .. Len(waitq') : waitq'[n] = waitq[at(n)] /\ waitq[at(n)] # c
      BY <2>2, <2>3, <3>1 DEF QueueOK
    <3>4. \A d \in Clients : d # c => pc'[d] = pc[d]
      BY <1>7 DEF GiveUpWaiting, TypeOK
    <3>5. \A n \in 1 .. Len(waitq') : waitq'[n] \in Clients
      BY <2>3, ElementOfSeq
    <3> HIDE DEF at
    <3>6. \A n \in 1 .. Len(waitq') : pc'[waitq'[n]] = "waiting"
      <4>1. \A n \in 1 .. Len(waitq) : pc[waitq[n]] = "waiting"
        BY DEF QueueOK
      <4> QED
        BY <3>1, <3>3, <3>4, <3>5, <4>1
    <3>7. \A m, n \in 1 .. Len(waitq') : waitq'[m] = waitq'[n] => m = n
      <4>1. \A m, n \in 1 .. Len(waitq) : waitq[m] = waitq[n] => m = n
        BY DEF QueueOK
      <4> QED
        BY <3>1, <3>2, <3>3, <4>1
    <3> QED
      BY <3>6, <3>7 DEF QueueOK
  <2> QED
    BY <1>2, <1>3, <2>4, <2>6
<1> QED
  BY <1>4, <1>5, <1>6, <1>7

(* The steps of a guard, from the pop of its index to the push. *)
LEMMA GuardPreserves ==
  ASSUME PoolInv, NEW c \in Clients,
         PopIndex(c) \/ EnginePanic(c) \/ Rebuild(c) \/ ReturnIndex(c)
  PROVE  PoolInv'
<1> USE DEF PoolInv
<1>1. /\ WithPermit' = WithPermit /\ UNCHANGED <<permits, waitq>>
      /\ WithSlot \subseteq Clients /\ pc[c] # "waiting"
      /\ \A d \in Clients \ {c} : pc'[d] = pc[d] /\ held'[d] = held[d]
  BY DEF PopIndex, EnginePanic, Rebuild, ReturnIndex, WithSlot, WithPermit, TypeOK
<1>2. PermitsConserved'
  BY <1>1 DEF PermitsConserved
<1>3. QueueOK'
  <2>1. \A n \in 1 .. Len(waitq) : waitq[n] \in Clients \ {c}
    BY <1>1, ElementOfSeq DEF QueueOK, TypeOK
  <2> QED
    BY <1>1, <2>1 DEF QueueOK
<1>4. NoSlot \notin Slots
  BY DEF Slots, NoSlot
<1>5. ASSUME PopIndex(c) PROVE PoolInv'
  <2>1. /\ free' = Tail(free) /\ free # <<>> /\ engine' = engine /\ pc[c] = "permitted"
        /\ held' = [held EXCEPT ![c] = Head(free)] /\ pc' = [pc EXCEPT ![c] = "holding"]
    BY <1>5 DEF PopIndex
  <2>2. /\ Head(free) \in Slots /\ Head(free) = free[1] /\ Len(free) \in Nat \ {0}
        /\ free' \in Seq(Slots) /\ Len(free') = Len(free) - 1
        /\ \A n \in 1 .. Len(free') : free'[n] = free[n + 1] /\ n + 1 \in 2 .. Len(free)
    BY <2>1, HeadTailProperties, EmptySeq DEF TypeOK
  <2>3. TypeOK'
    BY <1>1, <2>1, <2>2 DEF TypeOK, Phase, Slots
  <2>4. WithSlot' = WithSlot \cup {c} /\ c \notin WithSlot
    BY <2>1 DEF WithSlot, TypeOK
  <2>5. HeldMatchesPhase'
    BY <2>1, <2>2, <2>4 DEF HeldMatchesPhase, TypeOK
  <2>6. IndicesDistinct'
    <3>1. held'[c] = free[1] /\ \A d \in WithSlot : held'[d] = held[d] /\ held[d] # free[1]
      BY <1>1, <2>1, <2>2, <2>4 DEF IndicesDistinct, TypeOK
    <3>2. \A d, e \in WithSlot' : held'[d] = held'[e] => d = e
      BY <2>4, <3>1 DEF IndicesDistinct
    <3>3. \A m, n \in 1 .. Len(free') : free'[m] = free'[n] => m = n
      BY <2>2 DEF IndicesDistinct
    <3>4. \A d \in WithSlot', n \in 1 .. Len(free') : held'[d] # free'[n]
      BY <2>2, <2>4, <3>1 DEF IndicesDistinct
    <3> QED
      BY <3>2, <3>3, <3>4 DEF IndicesDistinct
  <2>7. IndicesConserved'
    <3>1. Cardinality(WithSlot) \in Nat /\ Cardinality(WithSlot') = Cardinality(WithSlot) + 1
      BY <1>1, <2>4, CountTasks
    <3> QED
      BY <2>2, <3>1 DEF IndicesConserved
  <2>8. PanickedIsFenced'
    BY <1>1, <2>1 DEF PanickedIsFenced, Slots
  <2> QED
    BY <1>2, <1>3, <2>3, <2>5, <2>6, <2>7, <2>8
<1>6. ASSUME EnginePanic(c) \/ Rebuild(c) PROVE PoolInv'
  <2>1. /\ WithSlot' = WithSlot /\ c \in WithSlot
        /\ free' = free /\ held' = held
        /\ \A i \in Slots \ {held[c]} : engine'[i] = engine[i]
    BY <1>6 DEF EnginePanic, Rebuild, WithSlot, TypeOK
  <2>2. TypeOK'
    BY <1>1, <1>6 DEF EnginePanic, Rebuild, TypeOK, Phase, Slots
  <2>3. HeldMatchesPhase' /\ IndicesDistinct' /\ IndicesConserved'
    BY <2>1 DEF HeldMatchesPhase, IndicesDistinct, IndicesConserved
  <2>4. held[c] \in Slots
    BY <2>1 DEF HeldMatchesPhase
  <2>5. PanickedIsFenced'
    <3>1. SUFFICES ASSUME NEW i \in Slots, engine'[i] = "panicked"
                   PROVE  \E d \in Clients : pc'[d] = "rebuilding" /\ held'[d] = i
      BY DEF PanickedIsFenced, Slots
    <3>2. CASE i = held[c]
      <4>1. EnginePanic(c)
        BY <1>6, <2>4, <3>1, <3>2 DEF Rebuild, TypeOK
      <4> QED
        BY <3>2, <4>1 DEF EnginePanic, TypeOK
    <3>3. CASE i # held[c]
      <4>1. PICK d \in Clients : pc[d] = "rebuilding" /\ held[d] = i
        BY <2>1, <3>1, <3>3 DEF PanickedIsFenced
      <4> QED
        BY <1>1, <2>1, <3>3, <4>1
    <3> QED
      BY <3>2, <3>3
  <2> QED
    BY <1>2, <1>3, <2>2, <2>3, <2>5
<1>7. ASSUME ReturnIndex(c) PROVE PoolInv'
  <2>1. /\ free' = Append(free, held[c]) /\ engine' = engine /\ pc[c] = "holding"
        /\ held' = [held EXCEPT ![c] = NoSlot] /\ pc' = [pc EXCEPT ![c] = "returned"]
    BY <1>7 DEF ReturnIndex
  <2>2. c \in WithSlot /\ WithSlot' = WithSlot \ {c}
    BY <2>1 DEF WithSlot, TypeOK
  <2>3. held[c] \in Slots
    BY <2>2 DEF HeldMatchesPhase
  <2>4. /\ Len(free) \in Nat /\ free' \in Seq(Slots) /\ Len(free') = Len(free) + 1
        /\ \A n \in 1 .. Len(free) : free'[n] = free[n]
        /\ free'[Len(free) + 1] = held[c]
    BY <2>1, <2>3, AppendProperties, LenProperties DEF TypeOK
  <2>5. TypeOK'
    BY <1>1, <2>1, <2>4 DEF TypeOK, Phase, Slots
  <2>6. HeldMatchesPhase'
    BY <1>4, <2>1, <2>2 DEF HeldMatchesPhase, TypeOK
  <2>7. IndicesDistinct'
    <3>1. \A d \in WithSlot' : held'[d] = held[d] /\ held[d] # held[c]
      BY <1>1, <2>2 DEF IndicesDistinct
    <3>2. \A d, e \in WithSlot' : held'[d] = held'[e] => d = e
      BY <2>2, <3>1 DEF IndicesDistinct
    <3>3. \A m, n \in 1 .. Len(free') : free'[m] = free'[n] => m = n
      BY <2>2, <2>4 DEF IndicesDistinct
    <3>4. \A d \in WithSlot', n \in 1 .. Len(free') : held'[d] # free'[n]
      BY <2>2, <2>4, <3>1 DEF IndicesDistinct
    <3> QED
      BY <3>2, <3>3, <3>4 DEF IndicesDistinct
  <2>8. IndicesConserved'
    <3>1. Cardinality(WithSlot) \in Nat /\ Cardinality(WithSlot') = Cardinality(WithSlot) - 1
      BY <1>1, <2>2, CountTasks
    <3> QED
      BY <2>4, <3>1 DEF IndicesConserved
  <2>9. PanickedIsFenced'
    BY <1>1, <2>1 DEF PanickedIsFenced, Slots
  <2> QED
    BY <1>2, <1>3, <2>5, <2>6, <2>7, <2>8, <2>9
<1> QED
  BY <1>5, <1>6, <1>7

LEMMA NextPool == PoolInv /\ [Next]_vars => PoolInv'
<1> SUFFICES ASSUME PoolInv, [Next]_vars PROVE PoolInv'
  OBVIOUS
<1>1. ASSUME NEW c \in Clients,
             TakePermit(c) \/ JoinQueue(c) \/ Wake(c) \/ GiveUpWaiting(c)
      PROVE  PoolInv'
  BY <1>1, WaiterPreserves
<1>2. ASSUME NEW c \in Clients, GiveUpGranted(c) \/ DropPermit(c)
      PROVE  PoolInv'
  BY <1>2, HandOnPreserves DEF GiveUpGranted, DropPermit
<1>3. ASSUME NEW c \in Clients,
             PopIndex(c) \/ EnginePanic(c) \/ Rebuild(c) \/ ReturnIndex(c)
      PROVE  PoolInv'
  BY <1>3, GuardPreserves
<1>4. CASE UNCHANGED vars
  BY <1>4 DEF vars, PoolInv, TypeOK, HeldMatchesPhase, IndicesDistinct,
       IndicesConserved, QueueOK, PermitsConserved,
       PanickedIsFenced, WithSlot, WithPermit
<1> QED
  BY <1>1, <1>2, <1>3, <1>4 DEF Next

-----------------------------------------------------------------------------
(* The invariants of every run, for any tasks and any pool size. *)
THEOREM PoolInvariant == Spec => []PoolInv
  BY InitPool, NextPool, PTL DEF Spec

(* Type correctness of engine/pool.rs's state. *)
THEOREM PoolTypeCorrect == Spec => []TypeOK
<1>1. PoolInv => TypeOK
  BY DEF PoolInv
<1> QED
  BY <1>1, PoolInvariant, PTL

(* The expect() after the permit (pool.rs:132) cannot fire: the free list is
   as long as the pool less the guards that have an index, and those are
   fewer than the permits taken when a task has just been permitted. *)
THEOREM PoolPermitFindsIndex == Spec => []PermitFindsIndex
<1>1. PoolInv => PermitFindsIndex
  <2> SUFFICES ASSUME PoolInv, NEW c \in Clients, pc[c] = "permitted", free = <<>>
               PROVE  FALSE
    BY DEF PermitFindsIndex
  <2>1. /\ WithSlot \in SUBSET Clients /\ c \in Clients /\ c \notin WithSlot
        /\ WithSlot \cup {c} \subseteq WithPermit /\ WithPermit \in SUBSET Clients
    BY DEF WithSlot, WithPermit
  <2>2. Cardinality(WithSlot \cup {c}) = Cardinality(WithSlot) + 1
        /\ Cardinality(WithSlot) \in Nat /\ Cardinality(WithPermit) \in Nat
    BY <2>1, CountTasks
  <2>3. Cardinality(WithSlot \cup {c}) <= Cardinality(WithPermit)
    BY <2>1, PoolAssumption, FS_Subset
  <2>4. Cardinality(WithSlot) = Size /\ permits \in Nat
        /\ permits + Cardinality(WithPermit) = Size
    BY <2>2, PoolAssumption DEF PoolInv, IndicesConserved, PermitsConserved, TypeOK
  <2> QED
    BY <2>2, <2>3, <2>4, PoolAssumption
<1> QED
  BY <1>1, PoolInvariant, PTL

(* The permits of the semaphore and of the tasks add up to the pool size. *)
THEOREM PoolPermitsConserved == Spec => []PermitsConserved
<1>1. PoolInv => PermitsConserved
  BY DEF PoolInv
<1> QED
  BY <1>1, PoolInvariant, PTL

(* An engine that panicked is never within another task's reach. *)
THEOREM PoolPanickedIsFenced == Spec => []PanickedIsFenced
<1>1. PoolInv => PanickedIsFenced
  BY DEF PoolInv
<1> QED
  BY <1>1, PoolInvariant, PTL

(* The pool implements the exclusive lease: every step takes one instance for
   one task, gives one back, or leaves the leases alone. *)
THEOREM PoolImplementsLease == Spec => GuardsAreLeases
<1> DEFINE l == [i \in Slots |-> {c \in Clients : held[c] = i}]
<1>1. Init => Lease!LeaseInit
  BY PoolAssumption DEF Init, Lease!LeaseInit, Slots, NoSlot
<1>2. ASSUME PoolInv, Next PROVE Lease!LeaseNext \/ l' = l
  <2>1. PICK c \in Clients :
          \/ TakePermit(c) \/ JoinQueue(c) \/ Wake(c)
          \/ GiveUpWaiting(c) \/ GiveUpGranted(c) \/ PopIndex(c)
          \/ EnginePanic(c) \/ Rebuild(c) \/ ReturnIndex(c) \/ DropPermit(c)
    BY <1>2 DEF Next
  <2>2. CASE PopIndex(c)
    <3>1. PICK i \in Slots : i = Head(free) /\ i = free[1] /\ Len(free) \in Nat \ {0}
      BY <1>2, <2>2, HeadTailProperties, EmptySeq DEF PopIndex, PoolInv, TypeOK
    <3>2. c \notin WithSlot /\ held' = [held EXCEPT ![c] = i]
      BY <2>2, <3>1 DEF PopIndex, WithSlot
    <3>3. \A d \in Clients : held[d] # i
      BY <1>2, <3>1 DEF PoolInv, IndicesDistinct, HeldMatchesPhase
    <3>4. \A j \in Slots : held[c] # j
      BY <1>2, <3>2 DEF PoolInv, HeldMatchesPhase
    <3>5. l[i] = {} /\ \A j \in Slots : c \notin l[j]
      BY <3>1, <3>3, <3>4
    <3>6. l' = [l EXCEPT ![i] = {c}]
      BY <1>2, <3>1, <3>2, <3>3, <3>4 DEF PoolInv, TypeOK, Slots
    <3>7. Lease!Take(c, i)
      BY <3>5, <3>6 DEF Lease!Take
    <3> QED
      BY <3>7 DEF Lease!LeaseNext
  <2>3. CASE ReturnIndex(c)
    <3>1. c \in WithSlot /\ held' = [held EXCEPT ![c] = NoSlot]
      BY <2>3 DEF ReturnIndex, WithSlot
    <3>2. PICK i \in Slots : i = held[c] /\ \A d \in Clients : held[d] = i => d = c
      BY <1>2, <3>1 DEF PoolInv, IndicesDistinct, HeldMatchesPhase
    <3>3. l[i] = {c}
      BY <3>2
    <3>4. l' = [l EXCEPT ![i] = {}]
      <4>1. \A d \in Clients, j \in Slots :
              held'[d] = j <=> held[d] = j /\ d # c
        BY <1>2, <3>1 DEF PoolInv, TypeOK, Slots, NoSlot
      <4>2. Slots' = Slots /\ l' = [j \in Slots |-> {d \in Clients : held'[d] = j}]
        BY DEF Slots
      <4>3. \A j \in Slots : l'[j] = IF j = i THEN {} ELSE l[j]
        BY <3>2, <4>1, <4>2
      <4> QED
        BY <3>2, <4>2, <4>3
    <3>5. Lease!GiveBack(c, i)
      BY <3>3, <3>4 DEF Lease!GiveBack
    <3> QED
      BY <3>5 DEF Lease!LeaseNext
  <2>4. CASE ~PopIndex(c) /\ ~ReturnIndex(c)
    <3>1. held' = held
      BY <2>1, <2>4 DEF TakePermit, JoinQueue, Wake, GiveUpWaiting, GiveUpGranted,
           EnginePanic, Rebuild, DropPermit
    <3> QED
      BY <3>1
  <2> QED
    BY <2>2, <2>3, <2>4
<1>3. UNCHANGED vars => l' = l
  BY DEF vars
<1>4. PoolInv /\ [Next]_vars => [Lease!LeaseNext]_l
  BY <1>2, <1>3
<1> QED
  BY <1>1, <1>4, PoolInvariant, PTL DEF Spec, GuardsAreLeases, Lease!LeaseSpec

-----------------------------------------------------------------------------
(* The sessions *)

(* A row is written once, when the outcome is known, and not before. *)
RowsFollow == \A c \in Clients :
  /\ phase[c] \in {"over", "resetting"} => rows[c] = <<outcome[c]>>
  /\ phase[c] \notin {"over", "resetting"} => rows[c] = <<>>
  /\ phase[c] \in {"failing", "recording"} => outcome[c] # "pending"

(* A session between its begin and its end has the guard, and so has a thread. *)
GuardFits == \A c \in Clients :
  /\ phase[c] \in {"open", "failing"} => pc[c] = "holding" /\ thread[c] = "none"
  /\ phase[c] \in Calling => thread[c] # "none"
  /\ thread[c] # "none" => c \in WithSlot /\ c \in Streamers \cup Batchers
  /\ phase[c] \in {"none", "acquire"} /\ c \in Streamers \cup Batchers => c \notin WithSlot
  /\ pc[c] = "rebuilding" /\ c \in Streamers \cup Batchers => thread[c] = "run"
  /\ c \notin Streamers \cup Batchers => phase[c] = "none"
  /\ live[c] => phase[c] \in {"open", "feed", "finalize"}

SInv ==
  /\ PoolInv /\ SessionShape /\ RowsFollow /\ GuardFits
  /\ BufferBounded /\ StreamIsOwn

ClientStep(c) ==
  \/ Request(c) \/ AcquireFails(c) \/ CallPanics(c) \/ Feed(c) \/ Finalize(c)
  \/ Timeout(c) \/ Abort(c) \/ Disconnect(c) \/ HangUp(c) \/ Work(c)
  \/ OtherMay(c) \/ OtherGivesBack(c)

PoolStep(c) ==
  \/ TakePermit(c) \/ JoinQueue(c) \/ Wake(c)
  \/ GiveUpWaiting(c) \/ GiveUpGranted(c) \/ PopIndex(c)
  \/ EnginePanic(c) \/ Rebuild(c) \/ ReturnIndex(c) \/ DropPermit(c)
  \/ UNCHANGED vars

-----------------------------------------------------------------------------
(* Every step of the transcriber is a step of the pool or leaves it alone. *)
LEMMA StepOfThePool ==
  ASSUME NEW c \in Clients, ClientStep(c)
  PROVE  PoolStep(c)
  BY DEF ClientStep, PoolStep,
     Request, BatchBegins, StreamBegins, Begins, AcquireFails, CallPanics, Feed, Finalize, Timeout, Abort, Disconnect, HangUp,
     OtherMay, OtherGivesBack, Work, Acquire, Acquired, BatchAcquired, StreamAcquired, CallRebuilds, BeginEnds, FeedEnds,
     LastCallEnds, Concludes, Record, ResetEnds, GuardDropped, PermitDropped, OtherGetsOn

LEMMA StepsOfThePool == [TNext]_tvars => [Next]_vars
<1>1. ASSUME NEW c \in Clients, ClientStep(c) PROVE [Next]_vars
  BY <1>1, StepOfThePool DEF PoolStep, Next
<1> QED
  BY <1>1 DEF TNext, ClientStep, tvars

(* The transcriber implements the pool's specification: whatever was proved of
   ModelPool holds under sessions, deadlines, hang-ups and runaway threads. *)
THEOREM TranscriberImplementsPool == TSpec => Spec
<1>1. TInit => Init
  BY DEF TInit
<1> QED
  BY <1>1, StepsOfThePool, PTL DEF TSpec, Spec

(* What a step of one client does to the guard of another: nothing. *)
LEMMA OthersKeepTheirGuard ==
  ASSUME PoolInv, NEW c \in Clients, NEW d \in Clients, c # d, PoolStep(c)
  PROVE  /\ held'[d] = held[d]
         /\ pc'[d] = pc[d] \/ (pc[d] = "waiting" /\ pc'[d] = "granted")
<1> USE DEF PoolStep
<1>1. waitq # <<>> => Head(waitq) \in Clients /\ pc[Head(waitq)] = "waiting"
  BY HeadTailProperties, EmptySeq, LenProperties, ElementOfSeq DEF PoolInv, TypeOK, QueueOK
<1>2. pc \in [Clients -> Phase] /\ held \in [Clients -> Slots \cup {NoSlot}]
  BY DEF PoolInv, TypeOK
<1>3. held'[d] = held[d]
  BY <1>2 DEF TakePermit, JoinQueue, Wake, GiveUpWaiting, GiveUpGranted, PopIndex,
     EnginePanic, Rebuild, ReturnIndex, DropPermit, vars
<1>4. CASE HandOn(c)
  <2>1. CASE waitq = <<>>
    BY <1>2, <1>3, <1>4, <2>1 DEF HandOn
  <2>2. CASE waitq # <<>>
    <3>1. pc' = [pc EXCEPT ![c] = "idle", ![Head(waitq)] = "granted"]
      BY <1>4, <2>2 DEF HandOn
    <3> QED
      BY <1>1, <1>2, <1>3, <2>2, <3>1
  <2> QED
    BY <2>1, <2>2
<1>5. CASE ~HandOn(c)
  BY <1>2, <1>3, <1>5 DEF TakePermit, JoinQueue, Wake, GiveUpWaiting, GiveUpGranted, PopIndex,
     EnginePanic, Rebuild, ReturnIndex, DropPermit, vars
<1> QED
  BY <1>4, <1>5

-----------------------------------------------------------------------------
(* Rounding two chunks down loses less than two milliseconds. *)
LEMMA MsBound ==
  ASSUME NEW a \in Nat, NEW b \in Nat, NEW cap \in Nat, Ms(a) + Ms(b) <= cap
  PROVE  a + b <= SampleMs * cap + 2 * (SampleMs - 1)
<1>1. a <= SampleMs * Ms(a) + SampleMs - 1 /\ b <= SampleMs * Ms(b) + SampleMs - 1
      /\ Ms(a) \in Nat /\ Ms(b) \in Nat
  BY Z3 DEF Ms, SampleMs
<1> QED
  BY <1>1 DEF SampleMs

LEMMA InitS == TInit => SInv
<1>1. TInit => PoolInv
  BY InitPool DEF TInit
<1> QED
  BY <1>1, TranscriberAssumption DEF TInit, Init, SInv, SessionShape, RowsFollow, GuardFits,
     BufferBounded, StreamIsOwn, Phases, Calling, WithSlot, SampleMs

USE DEF To, Ends, ThreadIs, StreamIs, session, ClientStep

LEMMA BufferType ==
  ASSUME SInv, NEW c \in Clients, ClientStep(c)
  PROVE  buffer' \in [Clients -> Nat]
<1>1. buffer \in [Clients -> Nat] /\ ChunkSizes \subseteq Nat
  BY TranscriberAssumption DEF SInv, SessionShape
<1>2. buffer' = buffer \/ buffer' = [buffer EXCEPT ![c] = 0]
      \/ \E n \in ChunkSizes : buffer' = [buffer EXCEPT ![c] = @ + n]
  BY DEF Request, BatchBegins, StreamBegins, Begins, AcquireFails, CallPanics, Feed, Finalize, Timeout, Abort, Disconnect, HangUp,
     OtherMay, OtherGivesBack, Work, Acquire, Acquired, BatchAcquired, StreamAcquired, CallRebuilds, BeginEnds, FeedEnds,
     LastCallEnds, Concludes, Record, ResetEnds, GuardDropped, PermitDropped, OtherGetsOn
<1>3. CASE buffer' = [buffer EXCEPT ![c] = 0]
  BY <1>1, <1>3
<1>4. ASSUME NEW n \in ChunkSizes, buffer' = [buffer EXCEPT ![c] = @ + n]
      PROVE  buffer' \in [Clients -> Nat]
  <2>1. buffer[c] + n \in Nat
    BY <1>1
  <2> QED
    BY <1>1, <1>4, <2>1
<1> QED
  BY <1>1, <1>2, <1>3, <1>4

LEMMA TypeStep ==
  ASSUME SInv, NEW c \in Clients, ClientStep(c)
  PROVE  SessionShape'
<1> USE TranscriberAssumption DEF SInv, SessionShape, Phases, Calling
<1>1. phase' \in [Clients -> Phases]
  BY DEF Request, BatchBegins, StreamBegins, Begins, AcquireFails, CallPanics, Feed, Finalize, Timeout, Abort, Disconnect, HangUp,
     OtherMay, OtherGivesBack, Work, Acquire, Acquired, BatchAcquired, StreamAcquired, CallRebuilds, BeginEnds, FeedEnds,
     LastCallEnds, Concludes, Record, ResetEnds, GuardDropped, PermitDropped, OtherGetsOn
<1>2. thread' \in [Clients -> {"none", "run", "panicked"}]
  BY DEF Request, BatchBegins, StreamBegins, Begins, AcquireFails, CallPanics, Feed, Finalize, Timeout, Abort, Disconnect, HangUp,
     OtherMay, OtherGivesBack, Work, Acquire, Acquired, BatchAcquired, StreamAcquired, CallRebuilds, BeginEnds, FeedEnds,
     LastCallEnds, Concludes, Record, ResetEnds, GuardDropped, PermitDropped, OtherGetsOn, CallEnds
<1>3. live' \in [Clients -> BOOLEAN]
  <2>1. live' = live \/ \E b \in BOOLEAN : live' = [live EXCEPT ![c] = b]
    BY DEF Request, BatchBegins, StreamBegins, Begins, AcquireFails, CallPanics, Feed, Finalize, Timeout, Abort, Disconnect, HangUp,
     OtherMay, OtherGivesBack, Work, Acquire, Acquired, BatchAcquired, StreamAcquired, CallRebuilds, BeginEnds, FeedEnds,
     LastCallEnds, Concludes, Record, ResetEnds, GuardDropped, PermitDropped, OtherGetsOn
  <2> QED
    BY <2>1
<1>4. buffer' \in [Clients -> Nat]
  BY BufferType
<1>5. outcome' \in [Clients -> {"pending", "ok", "error", "disconnected"}]
  BY DEF Request, BatchBegins, StreamBegins, Begins, AcquireFails, CallPanics, Feed, Finalize, Timeout, Abort, Disconnect, HangUp,
     OtherMay, OtherGivesBack, Work, Acquire, Acquired, BatchAcquired, StreamAcquired, CallRebuilds, BeginEnds, FeedEnds,
     LastCallEnds, Concludes, Record, ResetEnds, GuardDropped, PermitDropped, OtherGetsOn
<1>6. rows' \in [Clients -> Seq({"ok", "error", "disconnected"})]
  <2>1. CASE Record(c)
    <3>1. outcome[c] \in {"ok", "error", "disconnected"} /\ rows[c] = <<>>
      BY <2>1 DEF Record, RowsFollow
    <3>2. rows' = [rows EXCEPT ![c] = <<outcome[c]>>]
      BY <2>1, <3>1 DEF Record, Write
    <3> QED
      BY <3>1, <3>2
  <2>2. CASE ~Record(c)
    <3>1. rows' = rows \/ rows' = [rows EXCEPT ![c] = <<>>]
      BY <2>2 DEF Request, BatchBegins, StreamBegins, Begins, AcquireFails, CallPanics, Feed, Finalize, Timeout, Abort, Disconnect, HangUp,
     OtherMay, OtherGivesBack, Work, Acquire, Acquired, BatchAcquired, StreamAcquired, CallRebuilds, BeginEnds, FeedEnds,
     LastCallEnds, Concludes, Record, ResetEnds, GuardDropped, PermitDropped, OtherGetsOn
    <3>2. <<>> \in Seq({"ok", "error", "disconnected"})
      OBVIOUS
    <3> QED
      BY <3>1, <3>2
  <2> QED
    BY <2>1, <2>2
<1>7. stream' \in [Slots -> Clients \cup {Nobody}]
  <2>1. stream' = stream \/ \E s \in Clients \cup {Nobody} : stream' = [stream EXCEPT ![held[c]] = s]
    BY DEF Request, BatchBegins, StreamBegins, Begins, AcquireFails, CallPanics, Feed, Finalize, Timeout, Abort, Disconnect, HangUp,
     OtherMay, OtherGivesBack, Work, Acquire, Acquired, BatchAcquired, StreamAcquired, CallRebuilds, BeginEnds, FeedEnds,
     LastCallEnds, Concludes, Record, ResetEnds, GuardDropped, PermitDropped, OtherGetsOn
  <2> QED
    BY <2>1
<1> QED
  BY <1>1, <1>2, <1>3, <1>4, <1>5, <1>6, <1>7

LEMMA RowsStep ==
  ASSUME SInv, NEW c \in Clients, ClientStep(c)
  PROVE  RowsFollow'
<1> USE DEF SInv, SessionShape, Phases, Calling, RowsFollow
<1>1. CASE Record(c)
  <2>1. rows[c] = <<>>
    BY <1>1 DEF Record
  <2>2. rows' = [rows EXCEPT ![c] = <<outcome[c]>>] /\ outcome' = outcome
    BY <1>1, <2>1 DEF Record, Write
  <2>3. phase' = [phase EXCEPT ![c] = IF phase[c] = "failing" THEN "resetting" ELSE "over"]
    BY <1>1 DEF Record
  <2> QED
    BY <2>2, <2>3
<1>2. CASE Request(c) \/ AcquireFails(c) \/ CallPanics(c) \/ Finalize(c)
  BY <1>2 DEF Request, BatchBegins, StreamBegins, Begins, AcquireFails, CallPanics, Finalize
<1>3. CASE Feed(c)
  BY <1>3 DEF Feed
<1>4. CASE Timeout(c) \/ Abort(c) \/ Disconnect(c) \/ HangUp(c) \/ OtherMay(c) \/ OtherGivesBack(c)
  BY <1>4 DEF Timeout, Abort, Disconnect, HangUp, OtherMay, OtherGivesBack
<1>5. CASE LastCallEnds(c)
  BY <1>5 DEF LastCallEnds, Concludes
<1>6. CASE Work(c) /\ ~Record(c) /\ ~LastCallEnds(c)
  BY <1>6 DEF Work, Acquire, Acquired, BatchAcquired, StreamAcquired, CallRebuilds, BeginEnds, FeedEnds,
              ResetEnds, GuardDropped, PermitDropped, OtherGetsOn
<1> QED
  BY <1>1, <1>2, <1>3, <1>4, <1>5, <1>6

LEMMA BufferStep ==
  ASSUME SInv, NEW c \in Clients, ClientStep(c)
  PROVE  BufferBounded'
<1> USE TranscriberAssumption DEF SInv, SessionShape, BufferBounded
<1>1. CASE Feed(c)
  <2>1. PICK n \in ChunkSizes :
             \/ buffer' = [buffer EXCEPT ![c] = 0]
             \/ Ms(buffer[c]) + Ms(n) <= CapMs /\ buffer' = [buffer EXCEPT ![c] = @ + n]
    <3>1. \A n \in ChunkSizes : Ms(buffer[c]) \in Int /\ Ms(n) \in Int
      BY DEF Ms, SampleMs
    <3> QED
      BY <1>1, <3>1 DEF Feed, OverCap
  <2>2. n \in Nat /\ buffer[c] \in Nat /\ CapMs \in Nat
    OBVIOUS
  <2>3. Ms(buffer[c]) + Ms(n) <= CapMs => buffer[c] + n <= SampleMs * CapMs + 2 * (SampleMs - 1)
    BY <2>2, MsBound
  <2>4. 0 <= SampleMs * CapMs + 2 * (SampleMs - 1)
    BY <2>2 DEF SampleMs
  <2>5. CASE buffer' = [buffer EXCEPT ![c] = 0]
    BY <2>4, <2>5
  <2>6. CASE Ms(buffer[c]) + Ms(n) <= CapMs /\ buffer' = [buffer EXCEPT ![c] = @ + n]
    BY <2>3, <2>6
  <2> QED
    BY <2>1, <2>5, <2>6
<1>2. CASE ~Feed(c)
  <2>1. buffer' = buffer \/ buffer' = [buffer EXCEPT ![c] = 0]
    BY <1>2 DEF Request, BatchBegins, StreamBegins, Begins, AcquireFails, CallPanics, Feed, Finalize, Timeout, Abort, Disconnect, HangUp,
     OtherMay, OtherGivesBack, Work, Acquire, Acquired, BatchAcquired, StreamAcquired, CallRebuilds, BeginEnds, FeedEnds,
     LastCallEnds, Concludes, Record, ResetEnds, GuardDropped, PermitDropped, OtherGetsOn
  <2>2. 0 <= SampleMs * CapMs + 2 * (SampleMs - 1)
    BY DEF SampleMs
  <2> QED
    BY <2>1, <2>2
<1> QED
  BY <1>1, <1>2
(* The instance in the guard is what a thread works on; no other client's is. *)
LEMMA GuardStep ==
  ASSUME SInv, PoolInv', NEW c \in Clients, ClientStep(c)
  PROVE  GuardFits'
<1> USE DEF SInv, SessionShape, GuardFits, Phases, Calling, WithSlot
<1>1. pc \in [Clients -> Phase] /\ PoolStep(c)
  BY StepOfThePool DEF PoolInv, TypeOK
<1>2. ASSUME NEW d \in Clients, d # c
      PROVE  /\ pc'[d] = pc[d] \/ (pc[d] = "waiting" /\ pc'[d] = "granted")
             /\ phase'[d] = phase[d] /\ thread'[d] = thread[d] /\ live'[d] = live[d]
  <2>1. pc'[d] = pc[d] \/ (pc[d] = "waiting" /\ pc'[d] = "granted")
    BY <1>1, <1>2, OthersKeepTheirGuard
  <2>2. phase'[d] = phase[d]
    BY <1>2 DEF Request, BatchBegins, StreamBegins, Begins, AcquireFails, CallPanics, Feed, Finalize, Timeout, Abort, Disconnect, HangUp,
     OtherMay, OtherGivesBack, Work, Acquire, Acquired, BatchAcquired, StreamAcquired, CallRebuilds, BeginEnds, FeedEnds,
     LastCallEnds, Concludes, Record, ResetEnds, GuardDropped, PermitDropped, OtherGetsOn
  <2>3. thread'[d] = thread[d]
    BY <1>2 DEF Request, BatchBegins, StreamBegins, Begins, AcquireFails, CallPanics, Feed, Finalize, Timeout, Abort, Disconnect, HangUp,
     OtherMay, OtherGivesBack, Work, Acquire, Acquired, BatchAcquired, StreamAcquired, CallRebuilds, BeginEnds, FeedEnds,
     LastCallEnds, Concludes, Record, ResetEnds, GuardDropped, PermitDropped, OtherGetsOn, CallEnds
  <2>4. live'[d] = live[d]
    BY <1>2 DEF Request, BatchBegins, StreamBegins, Begins, AcquireFails, CallPanics, Feed, Finalize, Timeout, Abort, Disconnect, HangUp,
     OtherMay, OtherGivesBack, Work, Acquire, Acquired, BatchAcquired, StreamAcquired, CallRebuilds, BeginEnds, FeedEnds,
     LastCallEnds, Concludes, Record, ResetEnds, GuardDropped, PermitDropped, OtherGetsOn
  <2> QED
    BY <2>1, <2>2, <2>3, <2>4
<1> DEFINE Fits(d) ==
  /\ phase[d] \in {"open", "failing"} => pc[d] = "holding" /\ thread[d] = "none"
  /\ phase[d] \in Calling => thread[d] # "none"
  /\ thread[d] # "none" => d \in WithSlot /\ d \in Streamers \cup Batchers
  /\ phase[d] \in {"none", "acquire"} /\ d \in Streamers \cup Batchers => d \notin WithSlot
  /\ pc[d] = "rebuilding" /\ d \in Streamers \cup Batchers => thread[d] = "run"
  /\ d \notin Streamers \cup Batchers => phase[d] = "none"
  /\ live[d] => phase[d] \in {"open", "feed", "finalize"}
<1>3. ASSUME NEW d \in Clients, d # c PROVE Fits(d)'
  BY <1>2, <1>3
<1>4. Fits(c)'
  <2> USE <1>1, TranscriberAssumption
  <2>0. waitq # <<>> => Head(waitq) \in Clients /\ pc[Head(waitq)] = "waiting"
    BY HeadTailProperties, EmptySeq, LenProperties, ElementOfSeq DEF PoolInv, TypeOK, QueueOK
  <2>1. CASE Request(c)
    <3>1. pc[c] = "idle" /\ pc' = pc /\ thread' = thread /\ c \in Streamers \cup Batchers
      BY <2>1 DEF Request, BatchBegins, StreamBegins, Begins, vars
    <3>2. thread[c] = "none"
      BY <3>1
    <3>3. \/ phase' = [phase EXCEPT ![c] = "acquire"]
          \/ phase' = [phase EXCEPT ![c] = "recording"]
      BY <2>1 DEF Request, BatchBegins, StreamBegins, Begins
    <3>4. live' = [live EXCEPT ![c] = FALSE]
      BY <2>1 DEF Request, BatchBegins, StreamBegins, Begins
    <3> QED
      BY <3>1, <3>2, <3>3, <3>4
  <2>2. CASE AcquireFails(c)
    BY <2>0, <2>2 DEF AcquireFails, GiveUpWaiting, GiveUpGranted, HandOn, vars
  <2>3. CASE CallPanics(c)
    BY <2>0, <2>3 DEF CallPanics, EnginePanic
  <2>4. CASE Feed(c)
    BY <2>0, <2>4 DEF Feed, vars
  <2>5. CASE Finalize(c)
    BY <2>0, <2>5 DEF Finalize, vars
  <2>6. CASE Timeout(c)
    BY <2>0, <2>6 DEF Timeout, vars
  <2>7. CASE Abort(c)
    BY <2>0, <2>7 DEF Abort, vars
  <2>8. CASE Disconnect(c)
    BY <2>0, <2>8 DEF Disconnect, vars
  <2>9. CASE HangUp(c)
    BY <2>0, <2>9 DEF HangUp, GiveUpWaiting, GiveUpGranted, HandOn, vars
  <2>10. CASE OtherMay(c)
    BY <2>0, <2>10 DEF OtherMay, TakePermit, JoinQueue, GiveUpWaiting, GiveUpGranted, HandOn, EnginePanic, Other
  <2>11. CASE OtherGivesBack(c)
    BY <2>0, <2>11 DEF OtherGivesBack, ReturnIndex, Other
  <2>12. CASE Acquire(c)
    BY <2>0, <2>12 DEF Acquire, TakePermit, JoinQueue, Wake
  <2>13. CASE Acquired(c)
    BY <2>0, <2>13 DEF Acquired, BatchAcquired, StreamAcquired, PopIndex
  <2>14. CASE CallRebuilds(c)
    BY <2>0, <2>14 DEF CallRebuilds, Rebuild
  <2>15. CASE BeginEnds(c)
    BY <2>0, <2>15 DEF BeginEnds, CallEnds, vars
  <2>16. CASE FeedEnds(c)
    BY <2>0, <2>16 DEF FeedEnds, CallEnds, vars
  <2>17. CASE LastCallEnds(c)
    BY <2>0, <2>17 DEF LastCallEnds, Concludes, ReturnIndex, CallEnds
  <2>18. CASE Record(c)
    BY <2>0, <2>18 DEF Record, vars
  <2>19. CASE ResetEnds(c)
    BY <2>0, <2>19 DEF ResetEnds, ReturnIndex, CallEnds
  <2>20. CASE GuardDropped(c)
    BY <2>0, <2>20 DEF GuardDropped, ReturnIndex
  <2>21. CASE PermitDropped(c)
    BY <2>0, <2>21 DEF PermitDropped, DropPermit, HandOn
  <2>22. CASE OtherGetsOn(c)
    BY <2>0, <2>22 DEF OtherGetsOn, Wake, PopIndex, Rebuild, Other
  <2> QED
    BY <2>1, <2>2, <2>3, <2>4, <2>5, <2>6, <2>7, <2>8, <2>9, <2>10, <2>11, <2>12, <2>13, <2>14, <2>15, <2>16, <2>17, <2>18, <2>19, <2>20, <2>21, <2>22 DEF Work
<1> QED
  BY <1>3, <1>4
(* A call works on the stream of the instance in its guard, and so on nobody
   else's. *)
LEMMA StreamStep ==
  ASSUME SInv, PoolInv', NEW c \in Clients, ClientStep(c)
  PROVE  StreamIsOwn'
<1> USE DEF SInv, SessionShape, GuardFits, Phases, Calling, StreamIsOwn
<1>1. /\ pc \in [Clients -> Phase] /\ PoolStep(c)
      /\ held \in [Clients -> Slots \cup {NoSlot}]
  BY StepOfThePool DEF PoolInv, TypeOK
<1> DEFINE Own(d) ==
  /\ phase[d] \in {"open", "feed", "finalize"} /\ live[d]
  /\ thread[d] # "panicked" /\ pc[d] # "rebuilding"
  => stream[held[d]] = d
<1>2. ASSUME NEW d \in Clients, d # c PROVE Own(d)'
  <2>1. /\ held'[d] = held[d]
        /\ pc'[d] = pc[d] \/ (pc[d] = "waiting" /\ pc'[d] = "granted")
    BY <1>1, <1>2, OthersKeepTheirGuard
  <2>2. phase'[d] = phase[d] /\ live'[d] = live[d]
    BY <1>2 DEF Request, BatchBegins, StreamBegins, Begins, AcquireFails, CallPanics, Feed, Finalize, Timeout, Abort, Disconnect, HangUp,
     OtherMay, OtherGivesBack, Work, Acquire, Acquired, BatchAcquired, StreamAcquired, CallRebuilds, BeginEnds, FeedEnds,
     LastCallEnds, Concludes, Record, ResetEnds, GuardDropped, PermitDropped, OtherGetsOn
  <2>3. thread'[d] = thread[d]
    BY <1>2 DEF Request, BatchBegins, StreamBegins, Begins, AcquireFails, CallPanics, Feed, Finalize, Timeout, Abort, Disconnect, HangUp,
     OtherMay, OtherGivesBack, Work, Acquire, Acquired, BatchAcquired, StreamAcquired, CallRebuilds, BeginEnds, FeedEnds,
     LastCallEnds, Concludes, Record, ResetEnds, GuardDropped, PermitDropped, OtherGetsOn, CallEnds
  <2>4. \/ stream' = stream
        \/ c \in WithSlot /\ \E s : stream' = [stream EXCEPT ![held[c]] = s]
    BY DEF Request, BatchBegins, StreamBegins, Begins, AcquireFails, CallPanics, Feed, Finalize, Timeout, Abort, Disconnect, HangUp,
     OtherMay, OtherGivesBack, Work, Acquire, Acquired, BatchAcquired, StreamAcquired, CallRebuilds, BeginEnds, FeedEnds,
     LastCallEnds, Concludes, Record, ResetEnds, GuardDropped, PermitDropped, OtherGetsOn, CallEnds, Other, ReturnIndex, Rebuild, WithSlot
  <2>5. phase[d] \in {"open", "feed", "finalize"} => d \in WithSlot
    BY DEF WithSlot
  <2>6. d \in WithSlot /\ c \in WithSlot => held[c] # held[d]
    BY <1>2 DEF PoolInv, IndicesDistinct
  <2>7. phase[d] \in {"open", "feed", "finalize"} => stream'[held[d]] = stream[held[d]]
    <3>1. d \in WithSlot => held[d] \in Slots
      BY DEF PoolInv, HeldMatchesPhase
    <3> QED
      BY <2>4, <2>5, <2>6, <3>1
  <2>8. pc[d] = "rebuilding" => pc'[d] = "rebuilding"
    BY <2>1
  <2> QED
    BY <2>1, <2>2, <2>3, <2>7, <2>8
<1>3. Own(c)'
  <2> USE <1>1
  <2>1. CASE Request(c)
    BY <2>1 DEF Request, BatchBegins, StreamBegins, Begins, vars
  <2>2. CASE AcquireFails(c)
    BY <2>2 DEF AcquireFails, vars
  <2>3. CASE CallPanics(c)
    BY <2>3 DEF CallPanics, EnginePanic
  <2>4. CASE Feed(c)
    BY <2>4 DEF Feed, vars
  <2>5. CASE Finalize(c)
    BY <2>5 DEF Finalize, vars
  <2>6. CASE Timeout(c)
    BY <2>6 DEF Timeout, vars
  <2>7. CASE Abort(c)
    BY <2>7 DEF Abort, vars
  <2>8. CASE Disconnect(c)
    BY <2>8 DEF Disconnect, vars
  <2>9. CASE HangUp(c)
    BY <2>9 DEF HangUp, vars
  <2>10. CASE OtherMay(c)
    BY <2>10 DEF OtherMay, Other
  <2>11. CASE OtherGivesBack(c)
    BY <2>11 DEF OtherGivesBack, Other
  <2>12. CASE Acquire(c)
    BY <2>12 DEF Acquire, vars
  <2>13. CASE Acquired(c)
    BY <2>13 DEF Acquired, BatchAcquired, StreamAcquired, PopIndex
  <2>14. CASE CallRebuilds(c)
    BY <2>14 DEF CallRebuilds, Rebuild
  <2>15. CASE BeginEnds(c)
    BY <2>15 DEF BeginEnds, CallEnds, vars, WithSlot, PoolInv, HeldMatchesPhase
  <2>16. CASE FeedEnds(c)
    BY <2>16 DEF FeedEnds, CallEnds, CanSucceed, vars
  <2>17. CASE LastCallEnds(c)
    BY <2>17 DEF LastCallEnds, Concludes, ReturnIndex, CallEnds
  <2>18. CASE Record(c)
    BY <2>18 DEF Record, vars
  <2>19. CASE ResetEnds(c)
    BY <2>19 DEF ResetEnds, ReturnIndex, CallEnds
  <2>20. CASE GuardDropped(c)
    BY <2>20 DEF GuardDropped, vars
  <2>21. CASE PermitDropped(c)
    BY <2>21 DEF PermitDropped, DropPermit
  <2>22. CASE OtherGetsOn(c)
    BY <2>22 DEF OtherGetsOn, Other
  <2> QED
    BY <2>1, <2>2, <2>3, <2>4, <2>5, <2>6, <2>7, <2>8, <2>9, <2>10, <2>11, <2>12, <2>13, <2>14, <2>15, <2>16, <2>17, <2>18, <2>19, <2>20, <2>21, <2>22 DEF Work
<1> QED
  BY <1>2, <1>3

-----------------------------------------------------------------------------
LEMMA NextS == SInv /\ [TNext]_tvars => SInv'
<1>1. ASSUME SInv, NEW c \in Clients, ClientStep(c) PROVE SInv'
  <2>1. [Next]_vars
    BY <1>1, StepOfThePool DEF PoolStep, Next
  <2>2. PoolInv'
    BY <1>1, <2>1, NextPool DEF SInv
  <2> HIDE DEF ClientStep
  <2> QED
    BY <1>1, <2>2, TypeStep, RowsStep, BufferStep, GuardStep, StreamStep DEF SInv
<1>2. SInv /\ UNCHANGED tvars => SInv'
  <2>1. PoolInv /\ UNCHANGED vars => PoolInv'
    BY NextPool
  <2> QED
    BY <2>1 DEF tvars, vars, SInv, SessionShape, RowsFollow, GuardFits, BufferBounded, StreamIsOwn, WithSlot
<1> QED
  BY <1>1, <1>2 DEF TNext

THEOREM SessionInvariant == TSpec => []SInv
  BY InitS, NextS, PTL DEF TSpec

(* Every variable of the sessions keeps its shape. *)
THEOREM SessionTypeCorrect == TSpec => []SessionTypeOK
<1>1. SInv => SessionTypeOK BY DEF SInv, SessionTypeOK, PoolInv
<1> QED BY <1>1, SessionInvariant, PTL

(* However a request ends it leaves exactly one row, of what it came to. *)
THEOREM SessionEveryEndIsRecorded == TSpec => []EveryEndIsRecorded
<1>1. SInv => EveryEndIsRecorded BY DEF SInv, RowsFollow, EveryEndIsRecorded
<1> QED BY <1>1, SessionInvariant, PTL

(* A streaming session meets its own stream in the engine at every call. *)
THEOREM SessionStreamIsOwn == TSpec => []StreamIsOwn
<1>1. SInv => StreamIsOwn BY DEF SInv
<1> QED BY <1>1, SessionInvariant, PTL

(* No slicing of the audio exceeds the cap by two milliseconds. *)
THEOREM SessionBufferBounded == TSpec => []BufferBounded
<1>1. SInv => BufferBounded BY DEF SInv
<1> QED BY <1>1, SessionInvariant, PTL
=============================================================================
