------------------------ MODULE EngineManagerProofs ------------------------
(***************************************************************************)
(* Proofs about EngineManager, for every set of models and callers, every  *)
(* limit on loaded models and every number of updates.                     *)
(***************************************************************************)
EXTENDS EngineManager, FiniteSetTheorems, FunctionTheorems, TLAPS

Fetching == {"reserve", "building"}

(* A running call is about a model. *)
ModelKnown == \A t \in Tasks : pc[t] # "idle" => model[t] \in Models

(* A call in load_model is inside the lock it has a clone of. *)
LocksHeld == \A t \in Tasks :
  /\ pc[t] \in {"locking"} \cup LoadPhase => lock[t] \in LockIds
  /\ pc[t] \in LoadPhase => owner[lock[t]] = t

(* A load never has a factory that is yet to come, nor does an update. *)
LoadsReadPast == \A t \in Tasks :
  pc[t] \in Fetching => ver[t] <= factory[model[t]]

UnloadsReadPast == \A u \in Tasks :
  /\ pc[u] \in UnloadPhase => ver[u] <= factory[model[u]]
  /\ pc[u] = "idle" => ver[u] = 0

(* An update's unload waits for the very lock of a load that it has to wait
   for, if that lock is in the map. *)
UnloadsWait == \A t, u \in Tasks :
  /\ pc[t] \in Fetching /\ lock[t] = lockOf[model[t]]
  /\ pc[u] = "unlocking" /\ model[u] = model[t] /\ ver[u] > ver[t]
  => lock[u] = lock[t]

(* What an unload was about has been registered. *)
SettledIsPast == \A m \in Models : settled[m] <= factory[m]

(* The inductive invariant. *)
ManagerInv ==
  /\ TypeOK
  /\ ModelKnown
  /\ LocksHeld
  /\ NothingLeaks
  /\ LoadsReadPast
  /\ UnloadsReadPast
  /\ UnloadsWait
  /\ SettledIsPast
  /\ OutdatedLoadsAreOrphans

Phases == /\ LoadPhase = {"readfactory", "reserve", "building", "landing"}
          /\ UnloadPhase = {"registered", "unlocking"}
          /\ AcquirePhase = {"getlock", "locking", "regrab", "using", "readfactory",
                             "reserve", "building", "landing"}
          /\ Phase = {"idle", "getlock", "locking", "regrab", "using", "readfactory",
                      "reserve", "building", "landing", "registered", "unlocking"}

LEMMA PhasesListed == Phases
  BY DEF Phases, LoadPhase, UnloadPhase, AcquirePhase, Phase

LEMMA InitManager == Init => ManagerInv
<1> SUFFICES ASSUME Init PROVE ManagerInv
  OBVIOUS
<1>1. TypeOK
  <2>1. 0 \in 0 .. MaxVersion /\ 1 \in 0 .. MaxVersion
    BY ManagerAssumption
  <2>2. factory \in [Models -> 0 .. MaxVersion] /\ weights \in [Models -> 0 .. MaxVersion]
        /\ ver \in [Tasks -> 0 .. MaxVersion] /\ settled \in [Models -> 0 .. MaxVersion]
    BY <2>1 DEF Init
  <2> QED
    BY <2>2 DEF Init, TypeOK, Phase
<1>2. ModelKnown /\ NothingLeaks
  BY DEF Init, ModelKnown, NothingLeaks
<1>3. LocksHeld
  <2>1. \A t \in Tasks : pc[t] = "idle" /\ "idle" \notin {"locking"} \cup LoadPhase
    BY DEF Init, LoadPhase
  <2> QED
    BY <2>1 DEF LocksHeld
<1>4. LoadsReadPast /\ UnloadsReadPast /\ UnloadsWait /\ SettledIsPast /\ OutdatedLoadsAreOrphans
  BY DEF Init, LoadsReadPast, UnloadsReadPast, UnloadsWait, SettledIsPast, OutdatedLoadsAreOrphans,
         Fetching, UnloadPhase
<1> QED
  BY <1>1, <1>2, <1>3, <1>4 DEF ManagerInv

-----------------------------------------------------------------------------
(* A step that changes no factory, in which no load starts and no unload ends,
   and locks only leave the map, keeps what is said of versions. *)
LEMMA VersionsKept ==
  ASSUME TypeOK, ModelKnown, LocksHeld,
         LoadsReadPast, UnloadsReadPast, UnloadsWait, SettledIsPast, OutdatedLoadsAreOrphans,
         factory' = factory, settled' = settled,
         \A t \in Tasks : pc'[t] \in Fetching =>
           pc[t] \in Fetching /\ model'[t] = model[t] /\ lock'[t] = lock[t] /\ ver'[t] = ver[t],
         \A t \in Tasks : pc'[t] \in UnloadPhase =>
           pc'[t] = pc[t] /\ model'[t] = model[t] /\ lock'[t] = lock[t] /\ ver'[t] = ver[t],
         \A t \in Tasks : pc'[t] = "idle" => ver'[t] = 0 \/ (pc[t] = "idle" /\ ver'[t] = ver[t]),
         \A m \in Models, t \in Tasks :
           pc[t] \in Fetching /\ lock[t] = lockOf'[m] => lockOf[m] = lockOf'[m]
  PROVE  LoadsReadPast' /\ UnloadsReadPast' /\ UnloadsWait' /\ SettledIsPast' /\ OutdatedLoadsAreOrphans'
<1>1. LoadsReadPast' /\ UnloadsReadPast' /\ SettledIsPast'
  BY DEF LoadsReadPast, UnloadsReadPast, SettledIsPast
<1>2. \A t \in Tasks : pc'[t] \in Fetching =>
        /\ model[t] \in Models
        /\ lock'[t] = lockOf'[model'[t]] => lock[t] = lockOf[model[t]]
  BY DEF ModelKnown, Fetching
<1>3. UnloadsWait'
  BY <1>2 DEF UnloadsWait, UnloadPhase
<1>4. OutdatedLoadsAreOrphans'
  BY <1>2 DEF OutdatedLoadsAreOrphans, Fetching
<1> QED
  BY <1>1, <1>3, <1>4

(* The same for a step of a call that loads nothing before or after it. *)
LEMMA VersionsKeptByOne ==
  ASSUME TypeOK, ModelKnown, LocksHeld,
         LoadsReadPast, UnloadsReadPast, UnloadsWait, SettledIsPast, OutdatedLoadsAreOrphans,
         factory' = factory, settled' = settled, lockOf' = lockOf, NEW t \in Tasks,
         \A u \in Tasks : u # t =>
           pc'[u] = pc[u] /\ model'[u] = model[u] /\ lock'[u] = lock[u] /\ ver'[u] = ver[u],
         pc'[t] \notin Fetching \cup UnloadPhase, ver'[t] = 0
  PROVE  LoadsReadPast' /\ UnloadsReadPast' /\ UnloadsWait' /\ SettledIsPast' /\ OutdatedLoadsAreOrphans'
<1>1. \A u \in Tasks : pc'[u] \in Fetching =>
        pc[u] \in Fetching /\ model'[u] = model[u] /\ lock'[u] = lock[u] /\ ver'[u] = ver[u]
  OBVIOUS
<1>2. \A u \in Tasks : pc'[u] \in UnloadPhase =>
        pc'[u] = pc[u] /\ model'[u] = model[u] /\ lock'[u] = lock[u] /\ ver'[u] = ver[u]
  OBVIOUS
<1>4. \A u \in Tasks : pc'[u] = "idle" => ver'[u] = 0 \/ (pc[u] = "idle" /\ ver'[u] = ver[u])
  OBVIOUS
<1> QED
  BY <1>1, <1>2, <1>4, VersionsKept

(* Removing models keeps the shape of what it touches. *)
LEMMA RemoveModelsTyped ==
  ASSUME TypeOK, NEW S, RemoveModels(S)
  PROVE  /\ pools' \subseteq Models /\ usedBefore' \subseteq pools' \X pools'
         /\ weights' \in [Models -> 0 .. MaxVersion]
         /\ lockOf' \in [Models -> LockIds \cup {NoLock}]
         /\ \A m \in Models : lockOf'[m] \in {lockOf[m], NoLock}
<1>1. usedBefore' \subseteq pools' \X pools'
  <2> SUFFICES ASSUME NEW p \in usedBefore' PROVE p \in pools' \X pools'
    OBVIOUS
  <2>1. p \in pools \X pools /\ p[1] \notin S /\ p[2] \notin S
    BY DEF RemoveModels, TypeOK
  <2> QED
    BY <2>1 DEF RemoveModels
<1> QED
  BY <1>1, ManagerAssumption DEF RemoveModels, TypeOK

LEMMA TouchedTyped ==
  ASSUME TypeOK, NEW m \in Models, NEW P, pools \subseteq P, m \in P
  PROVE  Touched(m) \subseteq P \X P
<1> SUFFICES ASSUME NEW p \in Touched(m) PROVE p \in P \X P
  OBVIOUS
<1>1. CASE p \in usedBefore
  <2>1. p \in pools \X pools
    BY <1>1 DEF TypeOK
  <2> QED
    BY <2>1
<1>2. CASE p \in (pools \ {m}) \X {m}
  BY <1>2
<1> QED
  BY <1>1, <1>2 DEF Touched

(* The start of a call, up to the wait for its load lock. *)
LEMMA StartPreserves ==
  ASSUME ManagerInv, NEW t \in Tasks,
         (\E m \in Models : Acquire(t, m)) \/ GetLoadLock(t)
  PROVE  ManagerInv'
<1> USE DEF ManagerInv, past
<1>1. ASSUME NEW m \in Models, Acquire(t, m) PROVE ManagerInv'
  <2>1. TypeOK'
    BY <1>1, PhasesListed, TouchedTyped
    DEF Acquire, Touch, Goto, TypeOK, Phases
  <2>2. ModelKnown' /\ LocksHeld'
    BY <1>1, PhasesListed DEF Acquire, Goto, TypeOK, ModelKnown, LocksHeld, Phases
  <2>3. NothingLeaks'
    BY <1>1, PhasesListed DEF Acquire, Goto, TypeOK, NothingLeaks, Reserving, Phases
  <2>4. LoadsReadPast' /\ UnloadsReadPast' /\ UnloadsWait' /\ SettledIsPast' /\ OutdatedLoadsAreOrphans'
    BY <1>1, PhasesListed, VersionsKept DEF Acquire, Goto, TypeOK, Fetching, Phases
  <2> QED
    BY <2>1, <2>2, <2>3, <2>4
<1>2. CASE GetLoadLock(t)
  <2>1. TypeOK'
    BY <1>2, PhasesListed DEF GetLoadLock, Goto, TypeOK, ModelKnown, Phases
  <2>2. lock'[t] \in LockIds /\ pc'[t] = "locking"
    BY <1>2, PhasesListed DEF GetLoadLock, Goto, TypeOK, ModelKnown, Phases
  <2>3. ModelKnown' /\ LocksHeld'
    BY <1>2, <2>2, PhasesListed
    DEF GetLoadLock, Goto, TypeOK, ModelKnown, LocksHeld, Phases
  <2>4. NothingLeaks'
    BY <1>2, PhasesListed DEF GetLoadLock, Goto, TypeOK, NothingLeaks, Reserving, Phases
  <2>5. ASSUME NEW m \in Models, NEW u \in Tasks, lock[u] = lockOf'[m], pc[u] \in Fetching
        PROVE  lockOf[m] = lockOf'[m]
    <3>1. lock[u] \in Referenced
      BY DEF Referenced
    <3> QED
      BY <1>2, <2>5, <3>1 DEF GetLoadLock, TypeOK
  <2>6. LoadsReadPast' /\ UnloadsReadPast' /\ UnloadsWait' /\ SettledIsPast' /\ OutdatedLoadsAreOrphans'
    <3>1. \A u \in Tasks : pc'[u] \in Fetching \/ pc[u] \in UnloadPhase \/ pc'[u] \in UnloadPhase =>
            pc'[u] = pc[u] /\ model'[u] = model[u] /\ lock'[u] = lock[u] /\ ver'[u] = ver[u]
      BY <1>2, PhasesListed DEF GetLoadLock, Goto, TypeOK, Fetching, Phases
    <3>2. factory' = factory /\ settled' = settled
      BY <1>2 DEF GetLoadLock
    <3>3. \A u \in Tasks : pc'[u] = "idle" => pc[u] = "idle" /\ ver'[u] = ver[u]
      BY <1>2, <2>2 DEF GetLoadLock, Goto, TypeOK
    <3> QED
      BY <1>2, <2>2, <2>5, <3>1, <3>2, <3>3, VersionsKept
  <2> QED
    BY <2>1, <2>3, <2>4, <2>6
<1> QED
  BY <1>1, <1>2

-----------------------------------------------------------------------------
(* load_model: the calls inside a load lock, and how they get in and out. *)
LEMMA LockPreserves ==
  ASSUME ManagerInv, NEW t \in Tasks, LockAndRecheck(t)
  PROVE  ManagerInv'
<1> USE DEF ManagerInv, past
<1>1. pc[t] = "locking" /\ lock[t] \in LockIds /\ owner[lock[t]] = Nobody
      /\ UNCHANGED <<pools, usedBefore, weights, lockOf, loading, factory, stale,
                     model, ver, past>>
  BY DEF LockAndRecheck, LocksHeld, manager
<1>2. CASE Unlock(t) /\ Goto(t, "regrab")
  <2>1. TypeOK'
    BY <1>1, <1>2, PhasesListed DEF Unlock, Goto, TypeOK, Phases
  <2>2. owner' = owner
    BY <1>1, <1>2, PhasesListed DEF Unlock, TypeOK, NothingLeaks, Phases
  <2>3. ModelKnown' /\ LocksHeld'
    BY <1>1, <1>2, <2>2, PhasesListed DEF Unlock, Goto, TypeOK, ModelKnown, LocksHeld, Phases
  <2>4. NothingLeaks'
    BY <1>1, <1>2, <2>2, PhasesListed, ManagerAssumption
    DEF Unlock, Goto, TypeOK, NothingLeaks, Reserving, Phases
  <2>5. LoadsReadPast' /\ UnloadsReadPast' /\ UnloadsWait' /\ SettledIsPast' /\ OutdatedLoadsAreOrphans'
    BY <1>1, <1>2, PhasesListed, VersionsKept DEF Unlock, Goto, TypeOK, Fetching, Phases
  <2> QED
    BY <2>1, <2>3, <2>4, <2>5
<1>3. CASE /\ owner' = [owner EXCEPT ![lock[t]] = t]
           /\ Goto(t, "readfactory")
           /\ UNCHANGED lock
  <2>1. TypeOK'
    BY <1>1, <1>3, PhasesListed DEF Goto, TypeOK, Phases
  <2>2. \A u \in Tasks : pc[u] \in LoadPhase => lock[u] # lock[t] /\ u # t
    BY <1>1, PhasesListed, ManagerAssumption DEF LocksHeld, Phases
  <2>3. ModelKnown' /\ LocksHeld'
    BY <1>1, <1>3, <2>2, PhasesListed DEF Goto, TypeOK, ModelKnown, LocksHeld, Phases
  <2>4. NothingLeaks'
    BY <1>1, <1>3, <2>2, PhasesListed DEF Goto, TypeOK, NothingLeaks, Reserving, Phases
  <2>5. LoadsReadPast' /\ UnloadsReadPast' /\ UnloadsWait' /\ SettledIsPast' /\ OutdatedLoadsAreOrphans'
    BY <1>1, <1>3, PhasesListed, VersionsKept DEF Goto, TypeOK, Fetching, Phases
  <2> QED
    BY <2>1, <2>3, <2>4, <2>5
<1> QED
  BY <1>2, <1>3 DEF LockAndRecheck

(* A call that leaves load_model releases what it holds, whatever the reason. *)
LEMMA LeavePreserves ==
  ASSUME ManagerInv, NEW t \in Tasks, NEW next \in {"idle", "regrab"},
         pc[t] # "idle", Unlock(t), pc' = [pc EXCEPT ![t] = next],
         \/ model' = model /\ next = "regrab"
         \/ model' = [model EXCEPT ![t] = NoModel] /\ next = "idle",
         ver' = [ver EXCEPT ![t] = 0],
         \/ loading' = loading /\ t \notin Reserving
         \/ loading' = loading \ {model[t]},
         UNCHANGED <<pools, usedBefore, weights, factory, lockOf, stale, crowded, settled>>,
         adrift' \subseteq Models, overlooked' \subseteq adrift'
  PROVE  ManagerInv'
<1> USE DEF ManagerInv, past
<1>1. TypeOK'
  BY PhasesListed, ManagerAssumption DEF Unlock, TypeOK, Phases
<1>2. ModelKnown' /\ LocksHeld'
  BY PhasesListed DEF Unlock, TypeOK, ModelKnown, LocksHeld, Phases
<1>3. NothingLeaks'
  <2>1. ASSUME NEW m \in loading'
        PROVE  \E u \in Tasks : model'[u] = m /\ u \in Reserving'
    <3>1. PICK u \in Tasks : model[u] = m /\ u \in Reserving
      BY <2>1 DEF NothingLeaks
    <3>2. u # t
      BY <2>1, <3>1
    <3> QED
      BY <3>1, <3>2 DEF Reserving, TypeOK
  <2>2. ASSUME NEW l \in LockIds, owner'[l] # Nobody
        PROVE  lock'[owner'[l]] = l /\ pc'[owner'[l]] \in LoadPhase
    <3>1. owner'[l] = owner[l] /\ owner[l] # t /\ owner[l] \in Tasks
      BY <2>2 DEF Unlock, TypeOK
    <3> QED
      BY <2>2, <3>1 DEF Unlock, TypeOK, NothingLeaks
  <2> QED
    BY <2>1, <2>2 DEF NothingLeaks
<1>4. LoadsReadPast' /\ UnloadsReadPast' /\ UnloadsWait' /\ SettledIsPast' /\ OutdatedLoadsAreOrphans'
  <2>1. \A u \in Tasks : u # t =>
          pc'[u] = pc[u] /\ model'[u] = model[u] /\ lock'[u] = lock[u] /\ ver'[u] = ver[u]
    BY DEF Unlock, TypeOK
  <2>2. pc'[t] \notin Fetching \cup UnloadPhase
    BY PhasesListed DEF TypeOK, Fetching, Phases
  <2>3. ver'[t] = 0
    BY DEF TypeOK
  <2> QED
    BY <2>1, <2>2, <2>3, VersionsKeptByOne
<1> QED
  BY <1>1, <1>2, <1>3, <1>4

(* The steps of load_model between its lock and its end. *)
LEMMA LoadPreserves ==
  ASSUME ManagerInv, NEW t \in Tasks,
         ReadFactory(t) \/ ReserveSlot(t) \/ BuildFails(t) \/ InsertPool(t) \/ Land(t)
  PROVE  ManagerInv'
<1> USE DEF ManagerInv, past
<1>1. CASE ReadFactory(t)
  <2>1. CASE Unlock(t) /\ Return(t)
    <3>1. pc[t] # "idle" /\ t \notin Reserving /\ loading' = loading
          /\ adrift \subseteq Models /\ overlooked \subseteq adrift
      BY <1>1, PhasesListed DEF ReadFactory, manager, Reserving, Phases, TypeOK
    <3> QED
      BY <1>1, <2>1, <3>1, LeavePreserves DEF ReadFactory, Return, Goto, manager
  <2>2. CASE /\ factory[model[t]] # 0
             /\ ver' = [ver EXCEPT ![t] = factory[model[t]]]
             /\ Goto(t, "reserve")
             /\ UNCHANGED <<owner, lock, model>>
    <3>1. model[t] \in Models /\ pc[t] = "readfactory"
      BY <1>1, PhasesListed DEF ReadFactory, ModelKnown
    <3>2. UNCHANGED <<pools, usedBefore, weights, lockOf, loading, factory, stale, past>>
      BY <1>1 DEF ReadFactory, manager
    <3>3. TypeOK'
      BY <2>2, <3>1, <3>2, PhasesListed DEF Goto, TypeOK, Phases
    <3>4. ModelKnown' /\ LocksHeld'
      BY <2>2, <3>1, <3>2, PhasesListed DEF Goto, TypeOK, ModelKnown, LocksHeld, Phases
    <3>5. NothingLeaks'
      BY <2>2, <3>1, <3>2, PhasesListed DEF Goto, TypeOK, NothingLeaks, Reserving, Phases
    <3>6. LoadsReadPast' /\ UnloadsReadPast'
      BY <2>2, <3>1, <3>2, PhasesListed
      DEF Goto, TypeOK, LoadsReadPast, UnloadsReadPast, Fetching, Phases
    <3>7. UnloadsWait'
      <4>1. ASSUME NEW u \in Tasks, NEW w \in Tasks, pc'[u] \in Fetching,
                   lock'[u] = lockOf'[model'[u]], pc'[w] = "unlocking",
                   model'[w] = model'[u], ver'[w] > ver'[u]
            PROVE  lock'[w] = lock'[u]
        <5>1. w # t /\ pc[w] = "unlocking" /\ ver'[w] = ver[w]
          BY <2>2, <4>1 DEF Goto, TypeOK
        <5>2. CASE u = t
          <6>1. ver[w] <= factory[model[w]]
            BY <5>1 DEF UnloadsReadPast, UnloadPhase
          <6> QED
            BY <2>2, <3>1, <4>1, <5>1, <5>2, <6>1 DEF TypeOK
        <5>3. CASE u # t
          BY <2>2, <3>2, <4>1, <5>1, <5>3 DEF Goto, TypeOK, UnloadsWait
        <5> QED
          BY <5>2, <5>3
      <4> QED
        BY <4>1 DEF UnloadsWait
    <3>8. OutdatedLoadsAreOrphans' /\ SettledIsPast'
      <4>1. SettledIsPast'
        BY <3>2 DEF SettledIsPast
      <4>2. ASSUME NEW u \in Tasks, pc'[u] \in Fetching, ver'[u] < settled'[model'[u]]
            PROVE  pc[u] \in Fetching /\ ver[u] < settled[model[u]] /\ u # t
        <5>1. CASE u = t
          <6>1. settled[model[t]] <= factory[model[t]]
            BY <3>1 DEF SettledIsPast
          <6>2. settled[model[t]] \in Nat /\ factory[model[t]] \in Nat
            BY <3>1 DEF TypeOK
          <6> QED
            BY <2>2, <3>2, <4>2, <5>1, <6>1, <6>2 DEF TypeOK
        <5>2. CASE u # t
          BY <2>2, <3>2, <4>2, <5>2 DEF Goto, TypeOK
        <5> QED
          BY <5>1, <5>2
      <4> QED
        BY <2>2, <3>2, <4>1, <4>2 DEF OutdatedLoadsAreOrphans, Fetching
    <3> QED
      BY <3>3, <3>4, <3>5, <3>6, <3>7, <3>8
  <2> QED
    BY <1>1, <2>1, <2>2 DEF ReadFactory
<1>2. CASE ReserveSlot(t)
  <2>1. /\ pc[t] = "reserve" /\ pc' = [pc EXCEPT ![t] = "building"]
        /\ loading' = loading \cup {model[t]} /\ model[t] \in Models
        /\ overlooked' = adrift
        /\ UNCHANGED <<factory, owner, stale, model, lock, ver, adrift, settled>>
    BY <1>2 DEF ReserveSlot, Goto, ModelKnown
  <2>2. TypeOK'
    <3>1. crowded' \in BOOLEAN
      BY <1>2 DEF ReserveSlot, TypeOK
    <3>2. /\ pools' \subseteq Models /\ usedBefore' \subseteq pools' \X pools'
          /\ weights' \in [Models -> 0 .. MaxVersion]
          /\ lockOf' \in [Models -> LockIds \cup {NoLock}]
      BY <1>2, RemoveModelsTyped DEF ReserveSlot
    <3> QED
      BY <2>1, <3>1, <3>2, PhasesListed DEF TypeOK, Phases
  <2>3. ModelKnown' /\ LocksHeld'
    BY <2>1, PhasesListed DEF TypeOK, ModelKnown, LocksHeld, Phases
  <2>4. NothingLeaks'
    BY <2>1, PhasesListed DEF TypeOK, NothingLeaks, Reserving, Phases
  <2>5. \A m \in Models : lockOf'[m] \in {lockOf[m], NoLock}
    BY <1>2, RemoveModelsTyped DEF ReserveSlot
  <2>6. ASSUME NEW m \in Models, NEW u \in Tasks, lock[u] = lockOf'[m], pc[u] \in Fetching
        PROVE  lockOf[m] = lockOf'[m]
    BY <2>5, <2>6, PhasesListed, ManagerAssumption DEF LocksHeld, Fetching, Phases
  <2>7. LoadsReadPast' /\ UnloadsReadPast' /\ UnloadsWait' /\ SettledIsPast' /\ OutdatedLoadsAreOrphans'
    BY <2>1, <2>6, PhasesListed, VersionsKept DEF TypeOK, Fetching, Phases
  <2> QED
    BY <2>2, <2>3, <2>4, <2>7
<1>3. CASE BuildFails(t)
  BY <1>3, PhasesListed, LeavePreserves
  DEF BuildFails, DropReservation, Return, Goto, Phases, TypeOK
<1>4. CASE InsertPool(t)
  <2>1. /\ pc[t] = "building" /\ pc' = [pc EXCEPT ![t] = "landing"]
        /\ pools' = pools \cup {model[t]} /\ usedBefore' = Touched(model[t])
        /\ weights' = [weights EXCEPT ![model[t]] = ver[t]] /\ model[t] \in Models
        /\ UNCHANGED <<factory, lockOf, owner, loading, stale, model, lock, ver, past>>
    BY <1>4 DEF InsertPool, Goto, Touch, ModelKnown
  <2>2. TypeOK'
    <3>1. usedBefore' \subseteq pools' \X pools'
      BY <2>1, TouchedTyped
    <3> QED
      BY <2>1, <3>1, PhasesListed DEF TypeOK, Phases
  <2>3. ModelKnown' /\ LocksHeld'
    BY <2>1, PhasesListed DEF TypeOK, ModelKnown, LocksHeld, Phases
  <2>4. NothingLeaks'
    BY <2>1, PhasesListed DEF TypeOK, NothingLeaks, Reserving, Phases
  <2>5. LoadsReadPast' /\ UnloadsReadPast' /\ UnloadsWait' /\ SettledIsPast' /\ OutdatedLoadsAreOrphans'
    BY <2>1, PhasesListed, VersionsKept DEF TypeOK, Fetching, Phases
  <2> QED
    BY <2>2, <2>3, <2>4, <2>5
<1>5. CASE Land(t)
  BY <1>5, PhasesListed, LeavePreserves DEF Land, DropReservation, Goto, Phases, TypeOK
<1> QED
  BY <1>1, <1>2, <1>3, <1>4, <1>5

(* The end of a call, in order or because its caller dropped it. *)
LEMMA EndPreserves ==
  ASSUME ManagerInv, NEW t \in Tasks, Regrab(t) \/ Done(t) \/ Cancel(t)
  PROVE  ManagerInv'
<1> USE DEF ManagerInv, past
<1>1. CASE Regrab(t) /\ model[t] \in pools
  <2>1. /\ pc[t] = "regrab" /\ pc' = [pc EXCEPT ![t] = "using"]
        /\ usedBefore' = Touched(model[t]) /\ model[t] \in Models
        /\ UNCHANGED <<pools, weights, factory, lockOf, owner, loading, stale,
                       lock, model, ver, past>>
    BY <1>1 DEF Regrab, Goto, Touch, ModelKnown
  <2>2. TypeOK'
    BY <1>1, <2>1, PhasesListed, TouchedTyped DEF TypeOK, Phases
  <2>3. ModelKnown' /\ LocksHeld'
    BY <2>1, PhasesListed DEF TypeOK, ModelKnown, LocksHeld, Phases
  <2>4. NothingLeaks'
    BY <2>1, PhasesListed DEF TypeOK, NothingLeaks, Reserving, Phases
  <2>5. LoadsReadPast' /\ UnloadsReadPast' /\ UnloadsWait' /\ SettledIsPast' /\ OutdatedLoadsAreOrphans'
    BY <2>1, PhasesListed, VersionsKept DEF TypeOK, Fetching, Phases
  <2> QED
    BY <2>2, <2>3, <2>4, <2>5
<1>2. CASE \/ Regrab(t) /\ model[t] \notin pools
           \/ Done(t)
  <2>1. /\ pc[t] \in {"regrab", "using"} /\ pc' = [pc EXCEPT ![t] = "idle"]
        /\ model' = [model EXCEPT ![t] = NoModel] /\ ver' = [ver EXCEPT ![t] = 0]
        /\ UNCHANGED <<pools, usedBefore, weights, factory, lockOf, owner, loading,
                       stale, lock, past>>
    BY <1>2 DEF Regrab, Done, Return, Goto, manager
  <2>2. TypeOK'
    BY <2>1, PhasesListed, ManagerAssumption DEF TypeOK, Phases
  <2>3. ModelKnown' /\ LocksHeld'
    BY <2>1, PhasesListed DEF TypeOK, ModelKnown, LocksHeld, Phases
  <2>4. NothingLeaks'
    BY <2>1, PhasesListed DEF TypeOK, NothingLeaks, Reserving, Phases
  <2>5. LoadsReadPast' /\ UnloadsReadPast' /\ UnloadsWait' /\ SettledIsPast' /\ OutdatedLoadsAreOrphans'
    <3>1. pc'[t] \notin Fetching \cup UnloadPhase /\ pc[t] \notin UnloadPhase /\ ver'[t] = 0
      BY <2>1, PhasesListed DEF TypeOK, Fetching, Phases
    <3>2. \A u \in Tasks : u # t =>
            pc'[u] = pc[u] /\ model'[u] = model[u] /\ lock'[u] = lock[u] /\ ver'[u] = ver[u]
      BY <2>1 DEF TypeOK
    <3> QED
      BY <2>1, <3>1, <3>2, VersionsKeptByOne
  <2> QED
    BY <2>2, <2>3, <2>4, <2>5
<1>3. CASE Cancel(t)
  <2>1. pc[t] # "idle" /\ model[t] \in Models /\ (t \in Builders <=> t \in Reserving)
    BY <1>3, PhasesListed DEF Cancel, Builders, Reserving, Phases, ModelKnown
  <2>2. adrift' \subseteq Models /\ overlooked' \subseteq adrift'
    BY <1>3, <2>1 DEF Cancel, TypeOK
  <2> QED
    BY <1>3, <2>1, <2>2, LeavePreserves DEF Cancel, DropReservation, Return, Goto
<1> QED
  BY <1>1, <1>2, <1>3 DEF Regrab

-----------------------------------------------------------------------------
(* An update registers its factory and is from then on an unload to come. *)
LEMMA UpdatePreserves ==
  ASSUME ManagerInv, NEW t \in Tasks, NEW m \in Models, Update(t, m)
  PROVE  ManagerInv'
<1> USE DEF ManagerInv, past
<1>1. /\ pc[t] = "idle" /\ pc' = [pc EXCEPT ![t] = "registered"]
      /\ factory[m] < MaxVersion /\ factory' = [factory EXCEPT ![m] = factory[m] + 1]
      /\ model' = [model EXCEPT ![t] = m] /\ ver' = [ver EXCEPT ![t] = factory[m] + 1]
      /\ UNCHANGED <<pools, usedBefore, weights, lockOf, loading, owner, stale, lock, past>>
  BY DEF Update, Goto, manager
<1>2. factory[m] \in Nat /\ factory[m] + 1 \in 0 .. MaxVersion
  BY <1>1, ManagerAssumption DEF TypeOK
<1>3. TypeOK'
  BY <1>1, <1>2, PhasesListed DEF TypeOK, Phases
<1>4. ModelKnown' /\ LocksHeld'
  BY <1>1, PhasesListed DEF TypeOK, ModelKnown, LocksHeld, Phases
<1>5. NothingLeaks'
  BY <1>1, PhasesListed DEF TypeOK, NothingLeaks, Reserving, Phases
<1>6. \A u \in Tasks : u # t =>
        pc'[u] = pc[u] /\ model'[u] = model[u] /\ ver'[u] = ver[u]
  BY <1>1 DEF TypeOK
<1>7. \A n \in Models : /\ factory[n] \in Nat /\ factory'[n] \in Nat
                         /\ factory[n] <= factory'[n]
  BY <1>1, <1>2 DEF TypeOK
<1>8. LoadsReadPast' /\ UnloadsReadPast'
  <2>1. ASSUME NEW u \in Tasks, u # t, pc[u] \in Fetching \cup UnloadPhase
        PROVE  ver'[u] <= factory'[model'[u]]
    <3>1. model[u] \in Models /\ ver[u] <= factory[model[u]] /\ ver[u] \in Nat
      BY <2>1 DEF LoadsReadPast, UnloadsReadPast, ModelKnown, Fetching, UnloadPhase, TypeOK
    <3> QED
      BY <1>6, <1>7, <2>1, <3>1 DEF TypeOK
  <2>2. ver'[t] <= factory'[model'[t]]
    BY <1>1, <1>2 DEF TypeOK
  <2> QED
    BY <1>6, <2>1, <2>2, <1>1 DEF LoadsReadPast, UnloadsReadPast, TypeOK
<1>9. UnloadsWait'
  <2>1. pc'[t] \notin Fetching \cup {"unlocking"}
    BY <1>1 DEF TypeOK, Fetching
  <2> QED
    BY <1>1, <1>6, <2>1 DEF UnloadsWait
<1>10. SettledIsPast'
  BY <1>1, <1>7 DEF SettledIsPast, TypeOK
<1>11. OutdatedLoadsAreOrphans'
  <2>1. \A u \in Tasks : pc'[u] \in Fetching => u # t
    BY <1>1 DEF TypeOK, Fetching
  <2> QED
    BY <1>1, <1>6, <2>1 DEF OutdatedLoadsAreOrphans, Fetching
<1> QED
  BY <1>3, <1>4, <1>5, <1>8, <1>9, <1>10, <1>11

(* unload: the two halves of it. *)
LEMMA UnloadPreserves ==
  ASSUME ManagerInv, NEW t \in Tasks,
         (\E m \in Models : UnloadGetLock(t, m)) \/ UnloadRemove(t)
  PROVE  ManagerInv'
<1> USE DEF ManagerInv, past
<1>1. ASSUME NEW m \in Models, UnloadGetLock(t, m) PROVE ManagerInv'
  <2>1. /\ pc' = [pc EXCEPT ![t] = "unlocking"]
        /\ model' = [model EXCEPT ![t] = m] /\ lock' = [lock EXCEPT ![t] = lockOf[m]]
        /\ UNCHANGED <<pools, usedBefore, weights, lockOf, loading, factory, owner,
                       stale, ver, past>>
    BY <1>1 DEF UnloadGetLock, Goto, manager
  <2>2. (pc[t] = "registered" /\ model[t] = m) \/ pc[t] = "idle"
    BY <1>1 DEF UnloadGetLock
  <2>3. TypeOK'
    BY <2>1, PhasesListed DEF TypeOK, Phases
  <2>4. ModelKnown' /\ LocksHeld'
    BY <2>1, <2>2, PhasesListed DEF TypeOK, ModelKnown, LocksHeld, Phases
  <2>5. NothingLeaks'
    BY <2>1, <2>2, PhasesListed DEF TypeOK, NothingLeaks, Reserving, Phases
  <2>6. LoadsReadPast' /\ UnloadsReadPast'
    <3>1. ver[t] <= factory[m]
      BY <2>2, PhasesListed, ManagerAssumption DEF UnloadsReadPast, TypeOK, Phases
    <3> QED
      BY <2>1, <2>2, <3>1, PhasesListed
      DEF LoadsReadPast, UnloadsReadPast, TypeOK, Fetching, Phases
  <2>7. UnloadsWait'
    BY <2>1, <2>2 DEF UnloadsWait, TypeOK, Fetching
  <2>8. OutdatedLoadsAreOrphans' /\ SettledIsPast'
    <3>1. \A u \in Tasks : pc'[u] \in Fetching => u # t
      BY <2>1 DEF TypeOK, Fetching
    <3> QED
      BY <2>1, <3>1 DEF OutdatedLoadsAreOrphans, SettledIsPast, Fetching, TypeOK
  <2> QED
    BY <2>3, <2>4, <2>5, <2>6, <2>7, <2>8
<1>2. CASE UnloadRemove(t)
  <2>1. /\ pc[t] = "unlocking" /\ pc' = [pc EXCEPT ![t] = "idle"]
        /\ lock[t] # NoLock => owner[lock[t]] = Nobody
        /\ model' = [model EXCEPT ![t] = NoModel] /\ ver' = [ver EXCEPT ![t] = 0]
        /\ lock' = [lock EXCEPT ![t] = NoLock]
        /\ settled' = [settled EXCEPT ![model[t]] =
                         IF ver[t] > settled[model[t]] THEN ver[t] ELSE settled[model[t]]]
        /\ model[t] \in Models /\ ver[t] \in Nat /\ ver[t] <= factory[model[t]]
        /\ UNCHANGED <<factory, loading, stale, adrift, overlooked, crowded>>
    BY <1>2, PhasesListed
    DEF UnloadRemove, Removes, Return, Goto, Unlock, ModelKnown, UnloadsReadPast, TypeOK, Phases
  <2>2. owner' = owner
    <3>1. \A l \in LockIds : owner[l] # t
      BY <2>1, PhasesListed, ManagerAssumption DEF NothingLeaks, Phases
    <3> QED
      BY <1>2, <3>1 DEF UnloadRemove, Removes, Unlock, TypeOK
  <2>3. /\ pools' \subseteq Models /\ usedBefore' \subseteq pools' \X pools'
        /\ weights' \in [Models -> 0 .. MaxVersion]
        /\ lockOf' \in [Models -> LockIds \cup {NoLock}]
        /\ \A m \in Models : lockOf'[m] \in {lockOf[m], NoLock}
    BY <1>2, RemoveModelsTyped DEF UnloadRemove, Removes
  <2>4. TypeOK'
    <3>1. settled' \in [Models -> 0 .. MaxVersion]
      BY <2>1 DEF TypeOK
    <3> QED
      BY <2>1, <2>2, <2>3, <3>1, PhasesListed, ManagerAssumption DEF TypeOK, Phases
  <2>5. ModelKnown' /\ LocksHeld'
    BY <2>1, <2>2, PhasesListed DEF TypeOK, ModelKnown, LocksHeld, Phases
  <2>6. NothingLeaks'
    BY <2>1, <2>2, PhasesListed DEF TypeOK, NothingLeaks, Reserving, Phases
  <2>7. ASSUME NEW u \in Tasks, pc'[u] \in Fetching, lock'[u] = lockOf'[model'[u]]
        PROVE  /\ u # t /\ pc[u] \in Fetching
               /\ model'[u] = model[u] /\ lock'[u] = lock[u] /\ ver'[u] = ver[u]
               /\ lock[u] = lockOf[model[u]] /\ lock[u] # NoLock /\ owner[lock[u]] = u
    <3>1. u # t
      BY <2>1, <2>7 DEF TypeOK, Fetching
    <3>2. /\ pc[u] \in Fetching /\ model[u] \in Models
          /\ model'[u] = model[u] /\ lock'[u] = lock[u] /\ ver'[u] = ver[u]
      BY <2>1, <2>7, <3>1 DEF TypeOK, ModelKnown, Fetching
    <3>3. lock[u] \in LockIds /\ owner[lock[u]] = u
      BY <3>2, PhasesListed DEF LocksHeld, Fetching, Phases
    <3> QED
      BY <2>3, <2>7, <3>1, <3>2, <3>3, ManagerAssumption
  <2>8. LoadsReadPast' /\ UnloadsReadPast'
    BY <2>1, PhasesListed DEF LoadsReadPast, UnloadsReadPast, TypeOK, Fetching, Phases
  <2>9. UnloadsWait'
    BY <2>1, <2>7 DEF UnloadsWait, TypeOK
  <2>10. OutdatedLoadsAreOrphans' /\ SettledIsPast'
    <3>1. SettledIsPast'
      BY <2>1 DEF SettledIsPast, TypeOK
    <3>2. ASSUME NEW u \in Tasks, pc'[u] \in Fetching, lock'[u] = lockOf'[model'[u]],
                 ver'[u] < settled'[model'[u]]
          PROVE  FALSE
      <4>1. ~ (ver[u] < settled[model[u]])
        BY <2>7, <3>2 DEF OutdatedLoadsAreOrphans, Fetching
      <4>2. model[u] = model[t] /\ ver[t] > ver[u]
        BY <2>1, <2>7, <3>2, <4>1 DEF TypeOK
      <4>3. lock[t] = lock[u]
        BY <2>1, <2>7, <3>2, <4>2 DEF UnloadsWait
      <4>4. owner[lock[u]] = Nobody
        BY <2>1, <2>7, <3>2, <4>3
      <4> QED
        BY <2>7, <3>2, <4>4, ManagerAssumption
    <3> QED
      BY <3>1, <3>2 DEF OutdatedLoadsAreOrphans, Fetching
  <2> QED
    BY <2>4, <2>5, <2>6, <2>8, <2>9, <2>10
<1> QED
  BY <1>1, <1>2

(* The idle watcher. *)
LEMMA IdlePreserves ==
  ASSUME ManagerInv, IdleSnapshot \/ IdleSweep
  PROVE  ManagerInv'
<1> USE DEF ManagerInv, past
<1>1. UNCHANGED <<pc, model, lock, ver, factory, owner, loading, past>>
  BY DEF IdleSnapshot, IdleSweep, manager, call
<1>2. /\ pools' \subseteq Models /\ usedBefore' \subseteq pools' \X pools'
      /\ weights' \in [Models -> 0 .. MaxVersion]
      /\ lockOf' \in [Models -> LockIds \cup {NoLock}]
      /\ \A m \in Models : lockOf'[m] \in {lockOf[m], NoLock}
  <2>1. CASE IdleSnapshot
    BY <2>1 DEF IdleSnapshot, manager, TypeOK
  <2>2. CASE IdleSweep
    BY <2>2, RemoveModelsTyped DEF IdleSweep
  <2> QED
    BY <2>1, <2>2
<1>3. stale' \subseteq Models
  BY DEF IdleSnapshot, IdleSweep, TypeOK
<1>4. TypeOK'
  BY <1>1, <1>2, <1>3 DEF TypeOK
<1>5. ModelKnown' /\ LocksHeld' /\ NothingLeaks'
  BY <1>1 DEF ModelKnown, LocksHeld, NothingLeaks, Reserving
<1>6. ASSUME NEW m \in Models, NEW u \in Tasks, lock[u] = lockOf'[m], pc[u] \in Fetching
      PROVE  lockOf[m] = lockOf'[m]
  BY <1>2, <1>6, PhasesListed, ManagerAssumption DEF LocksHeld, Fetching, Phases
<1>7. LoadsReadPast' /\ UnloadsReadPast' /\ UnloadsWait' /\ SettledIsPast' /\ OutdatedLoadsAreOrphans'
  BY <1>1, <1>6, VersionsKept
<1> QED
  BY <1>4, <1>5, <1>7

(* The end of a build that nobody waits for. *)
LEMMA RunsOutPreserves ==
  ASSUME ManagerInv, NEW m \in Models, BuildRunsOut(m)
  PROVE  ManagerInv'
<1> USE DEF ManagerInv
<1>1. /\ UNCHANGED <<pools, usedBefore, weights, lockOf, loading, pc, model, lock, ver,
                     factory, owner, stale, crowded, settled>>
      /\ adrift' = adrift \ {m} /\ overlooked' = overlooked \ {m}
  BY DEF BuildRunsOut, manager, call
<1>2. TypeOK'
  BY <1>1 DEF TypeOK
<1>3. ModelKnown' /\ LocksHeld' /\ NothingLeaks'
  BY <1>1 DEF ModelKnown, LocksHeld, NothingLeaks, Reserving
<1>4. LoadsReadPast' /\ UnloadsReadPast' /\ UnloadsWait' /\ SettledIsPast' /\ OutdatedLoadsAreOrphans'
  BY <1>1, VersionsKept
<1> QED
  BY <1>2, <1>3, <1>4

LEMMA NextManager == ManagerInv /\ [Next]_vars => ManagerInv'
<1> SUFFICES ASSUME ManagerInv, [Next]_vars PROVE ManagerInv'
  OBVIOUS
<1>1. ASSUME NEW t \in Tasks, (\E m \in Models : Acquire(t, m)) \/ GetLoadLock(t)
      PROVE  ManagerInv'
  BY <1>1, StartPreserves
<1>2. ASSUME NEW t \in Tasks, LockAndRecheck(t) PROVE ManagerInv'
  BY <1>2, LockPreserves
<1>3. ASSUME NEW t \in Tasks, \/ ReadFactory(t) \/ ReserveSlot(t) \/ BuildFails(t)
                              \/ InsertPool(t) \/ Land(t)
      PROVE  ManagerInv'
  BY <1>3, LoadPreserves
<1>4. ASSUME NEW t \in Tasks, Regrab(t) \/ Done(t) \/ Cancel(t) PROVE ManagerInv'
  BY <1>4, EndPreserves
<1>5. ASSUME NEW t \in Tasks, NEW m \in Models, Update(t, m) PROVE ManagerInv'
  BY <1>5, UpdatePreserves
<1>6. ASSUME NEW t \in Tasks, (\E m \in Models : UnloadGetLock(t, m)) \/ UnloadRemove(t)
      PROVE  ManagerInv'
  BY <1>6, UnloadPreserves
<1>7. CASE IdleSnapshot \/ IdleSweep
  BY <1>7, IdlePreserves
<1>9. ASSUME NEW m \in Models, BuildRunsOut(m) PROVE ManagerInv'
  BY <1>9, RunsOutPreserves
<1>8. CASE UNCHANGED vars
  <2> USE DEF ManagerInv
  <2>1. TypeOK' /\ ModelKnown' /\ LocksHeld' /\ NothingLeaks'
    BY <1>8 DEF vars, TypeOK, ModelKnown, LocksHeld, NothingLeaks, Reserving
  <2>2. LoadsReadPast' /\ UnloadsReadPast' /\ UnloadsWait' /\ SettledIsPast' /\ OutdatedLoadsAreOrphans'
    BY <1>8, VersionsKept DEF vars
  <2> QED
    BY <2>1, <2>2
<1> QED
  BY <1>1, <1>2, <1>3, <1>4, <1>5, <1>6, <1>7, <1>8, <1>9 DEF Next

-----------------------------------------------------------------------------
(* The inductive invariant holds in every reachable state of the manager. *)
THEOREM ManagerInvariant == Spec => []ManagerInv
  BY InitManager, NextManager, PTL DEF Spec

(* Every variable keeps its shape; the order of use is one of loaded models. *)
THEOREM ManagerTypeCorrect == Spec => []TypeOK
<1>1. ManagerInv => TypeOK
  BY DEF ManagerInv
<1> QED
  BY <1>1, ManagerInvariant, PTL

(* A reservation or a load lock that is held belongs to a call that is running
   load_model, however calls fail and wherever their callers drop them. *)
THEOREM ManagerNothingLeaks == Spec => []NothingLeaks
<1>1. ManagerInv => NothingLeaks
  BY DEF ManagerInv
<1> QED
  BY <1>1, ManagerInvariant, PTL

(* manager.rs:350-353: when the unload of an update is over, a load that still has
   an older factory works under a lock that had been taken out of the map,
   wherever calls, updates among them, are dropped. *)
THEOREM ManagerOutdatedLoadsAreOrphans == Spec => []OutdatedLoadsAreOrphans
<1>1. ManagerInv => OutdatedLoadsAreOrphans
  BY DEF ManagerInv
<1> QED
  BY <1>1, ManagerInvariant, PTL

-----------------------------------------------------------------------------
(* The order of use is a strict total one of the pools that are loaded: two of
   them are never equally long ago, and none is left out. *)
UseIsOrdered ==
  /\ \A x, y \in pools : x # y => <<x, y>> \in usedBefore \/ <<y, x>> \in usedBefore
  /\ \A x, y \in pools : <<x, y>> \in usedBefore => <<y, x>> \notin usedBefore
  /\ \A x, y, z \in pools :
       <<x, y>> \in usedBefore /\ <<y, z>> \in usedBefore => <<x, z>> \in usedBefore

(* While builds do not crowd, each has a reservation of its own. *)
ReservationsCount ==
  crowded \/ /\ Cardinality(Builders) <= MaxLoaded
             /\ \A t \in Reserving : model[t] \in loading
             /\ \A t, u \in Reserving : model[t] = model[u] => t = u

CapacityInv == ManagerInv /\ UseIsOrdered /\ ReservationsCount /\ WithinCapacity

(* How a step may change the pools and the order of their use. *)
LEMMA UseChanges ==
  ASSUME ManagerInv, Next
  PROVE  \/ UNCHANGED <<pools, usedBefore>>
         \/ \E m \in Models : usedBefore' = Touched(m) /\ pools' = pools \cup {m}
         \/ \E S : RemoveModels(S)
<1> USE DEF ManagerInv, manager
<1>1. ASSUME NEW t \in Tasks, NEW m \in Models, Acquire(t, m)
      PROVE  \/ UNCHANGED <<pools, usedBefore>>
             \/ usedBefore' = Touched(m) /\ pools' = pools \cup {m}
  BY <1>1 DEF Acquire, Touch
<1>2. ASSUME NEW t \in Tasks, Regrab(t) \/ InsertPool(t)
      PROVE  \/ UNCHANGED <<pools, usedBefore>>
             \/ /\ model[t] \in Models /\ usedBefore' = Touched(model[t])
                /\ pools' = pools \cup {model[t]}
  BY <1>2 DEF Regrab, InsertPool, Touch, ModelKnown
<1>3. ASSUME NEW t \in Tasks, ReserveSlot(t) \/ UnloadRemove(t) PROVE \E S : RemoveModels(S)
  BY <1>3 DEF ReserveSlot, UnloadRemove, Removes
<1>4. ASSUME NEW t \in Tasks,
             \/ GetLoadLock(t) \/ LockAndRecheck(t) \/ ReadFactory(t) \/ BuildFails(t)
             \/ Land(t) \/ Done(t) \/ Cancel(t)
             \/ \E m \in Models : Update(t, m) \/ UnloadGetLock(t, m)
      PROVE  UNCHANGED <<pools, usedBefore>>
  BY <1>4 DEF GetLoadLock, LockAndRecheck, ReadFactory, BuildFails, Land, Done, Cancel,
              Update, UnloadGetLock
<1>5. CASE IdleSnapshot
  BY <1>5 DEF IdleSnapshot
<1>6. CASE IdleSweep
  BY <1>6 DEF IdleSweep
<1>7. ASSUME NEW m \in Models, BuildRunsOut(m) PROVE UNCHANGED <<pools, usedBefore>>
  BY <1>7 DEF BuildRunsOut
<1> QED
  BY <1>1, <1>2, <1>3, <1>4, <1>5, <1>6, <1>7 DEF Next

LEMMA OrderKept ==
  ASSUME ManagerInv, UseIsOrdered, Next
  PROVE  UseIsOrdered'
<1>1. CASE UNCHANGED <<pools, usedBefore>>
  BY <1>1 DEF UseIsOrdered
<1>2. ASSUME NEW m \in Models, usedBefore' = Touched(m), pools' = pools \cup {m}
      PROVE  UseIsOrdered'
  <2>1. \A x, y \in pools' :
          <<x, y>> \in usedBefore' <=>
            \/ x # m /\ y # m /\ <<x, y>> \in usedBefore
            \/ x # m /\ y = m
    <3> SUFFICES ASSUME NEW x \in pools', NEW y \in pools'
                 PROVE  <<x, y>> \in Touched(m) <=>
                          \/ x # m /\ y # m /\ <<x, y>> \in usedBefore
                          \/ x # m /\ y = m
      BY <1>2
    <3>1. <<x, y>> \in (pools \ {m}) \X {m} <=> x # m /\ y = m
      BY <1>2
    <3>2. <<x, y>> \in {p \in usedBefore : m \notin {p[1], p[2]}}
            <=> x # m /\ y # m /\ <<x, y>> \in usedBefore
      OBVIOUS
    <3> QED
      BY <3>1, <3>2 DEF Touched
  <2> QED
    BY <1>2, <2>1 DEF UseIsOrdered
<1>3. ASSUME NEW S, RemoveModels(S) PROVE UseIsOrdered'
  <2>1. pools' = pools \ S
        /\ \A x, y \in pools' : <<x, y>> \in usedBefore' <=> <<x, y>> \in usedBefore
    BY <1>3 DEF RemoveModels
  <2> QED
    BY <2>1 DEF UseIsOrdered
<1> QED
  BY <1>1, <1>2, <1>3, UseChanges

-----------------------------------------------------------------------------
(* Ranks in the order of use tell the pools other than m apart. *)
Rank(m, x) == Cardinality({y \in pools \ {m} : <<y, x>> \in usedBefore})
Surplus == Cardinality(pools) + Cardinality(loading) - MaxLoaded + 1

LEMMA RanksGrow ==
  ASSUME ManagerInv, UseIsOrdered, NEW m \in Models,
         NEW x \in pools \ {m}, NEW y \in pools \ {m}, <<x, y>> \in usedBefore
  PROVE  Rank(m, x) < Rank(m, y)
<1> DEFINE before(z) == {w \in pools \ {m} : <<w, z>> \in usedBefore}
<1>1. IsFiniteSet(before(x)) /\ IsFiniteSet(before(y))
  BY ManagerAssumption, FS_Subset DEF ManagerInv, TypeOK
<1>2. before(x) \subseteq before(y) /\ x \in before(y) /\ x \notin before(x)
  BY DEF UseIsOrdered
<1>3. Cardinality(before(x)) <= Cardinality(before(y))
      /\ Cardinality(before(x)) # Cardinality(before(y))
  BY <1>1, <1>2, FS_Subset
<1>4. Cardinality(before(x)) \in Nat /\ Cardinality(before(y)) \in Nat
  BY <1>1, FS_CardinalityType
<1> QED
  BY <1>3, <1>4 DEF Rank

(* Each rank from 0 on is that of one pool. *)
LEMMA RanksFill ==
  ASSUME ManagerInv, UseIsOrdered, NEW m \in Models
  PROVE  LET others == pools \ {m}
             n      == Cardinality(others)
         IN /\ IsFiniteSet(others) /\ n \in Nat
            /\ [x \in others |-> Rank(m, x)] \in Injection(others, 0 .. n - 1)
            /\ [x \in others |-> Rank(m, x)] \in Surjection(others, 0 .. n - 1)
<1> DEFINE others == pools \ {m}
           n == Cardinality(others)
           rank == [x \in others |-> Rank(m, x)]
<1>1. IsFiniteSet(others) /\ n \in Nat
  BY ManagerAssumption, FS_Subset, FS_CardinalityType DEF ManagerInv, TypeOK
<1>2. ASSUME NEW x \in others PROVE Rank(m, x) \in 0 .. n - 1
  <2> DEFINE before == {y \in others : <<y, x>> \in usedBefore}
  <2>1. before \in SUBSET others /\ before # others
    BY <1>2 DEF UseIsOrdered
  <2>2. IsFiniteSet(before) /\ Cardinality(before) <= n /\ Cardinality(before) # n
    BY <1>1, <2>1, FS_Subset
  <2>3. Cardinality(before) \in Nat
    BY <2>2, FS_CardinalityType
  <2> QED
    BY <1>1, <2>2, <2>3 DEF Rank
<1>3. ASSUME NEW x \in others, NEW y \in others, x # y PROVE Rank(m, x) # Rank(m, y)
  <2>1. Rank(m, x) < Rank(m, y) \/ Rank(m, y) < Rank(m, x)
    BY <1>3, RanksGrow DEF UseIsOrdered
  <2> QED
    BY <1>2, <2>1
<1> HIDE DEF n
<1>4. rank \in Injection(others, 0 .. n - 1)
  BY <1>2, <1>3 DEF Injection, IsInjective
<1>5. IsFiniteSet(0 .. n - 1) /\ Cardinality(0 .. n - 1) = n
  BY <1>1, FS_Interval
<1>6. Cardinality(others) = Cardinality(0 .. n - 1)
  BY <1>5 DEF n
<1>7. rank \in Surjection(others, 0 .. n - 1)
  BY <1>4, <1>5, <1>6, FS_Injection
<1> QED
  BY <1>1, <1>4, <1>7 DEF n

(* reserve_slot removes as many pools as are over the limit, or all others. *)
LEMMA VictimsCount ==
  ASSUME ManagerInv, UseIsOrdered, NEW m \in Models
  PROVE  /\ IsFiniteSet(pools) /\ IsFiniteSet(loading)
         /\ Victims(m) # {} =>
              Cardinality(pools \ Victims(m)) + Cardinality(loading) >= MaxLoaded - 1
         /\ \/ Victims(m) = pools \ {m}
            \/ Cardinality(pools \ Victims(m)) + Cardinality(loading) <= MaxLoaded - 1
<1> DEFINE others == pools \ {m}
           n == Cardinality(others)
           V == Victims(m)
           rank == [x \in others |-> Rank(m, x)]
<1>1. /\ IsFiniteSet(others) /\ n \in Nat
      /\ rank \in Injection(others, 0 .. n - 1) /\ rank \in Surjection(others, 0 .. n - 1)
  BY RanksFill
<1>2. /\ IsFiniteSet(pools) /\ IsFiniteSet(loading) /\ MaxLoaded \in Nat
      /\ Cardinality(pools) \in Nat /\ Cardinality(loading) \in Nat
  BY ManagerAssumption, FS_Subset, FS_CardinalityType DEF ManagerInv, TypeOK
<1>3. V = {x \in others : rank[x] < Surplus} /\ V \subseteq others /\ Surplus \in Int
  BY <1>2 DEF Victims, Rank, Surplus
<1>4. IsFiniteSet(V) /\ Cardinality(V) \in Nat
  BY <1>1, <1>3, FS_Subset, FS_CardinalityType
<1> HIDE DEF V, rank, n
<1>5. Cardinality(pools \ V) = Cardinality(pools) - Cardinality(V)
  <2>1. pools = (pools \ V) \cup V /\ (pools \ V) \cap V = {}
    BY <1>3
  <2>2. IsFiniteSet(pools \ V) /\ Cardinality(pools \ V) \in Nat
    BY <1>2, FS_Subset, FS_CardinalityType
  <2>3. Cardinality((pools \ V) \cup V)
          = Cardinality(pools \ V) + Cardinality(V) - Cardinality((pools \ V) \cap V)
    BY <1>4, <2>2, FS_Union
  <2>4. Cardinality((pools \ V) \cap V) = 0
    BY <2>1, FS_EmptySet
  <2>5. Cardinality(pools)
          = Cardinality(pools \ V) + Cardinality(V) - Cardinality((pools \ V) \cap V)
    BY <2>1, <2>3, Zenon
  <2> QED
    BY <1>2, <1>4, <2>2, <2>4, <2>5
<1>6. ASSUME V # {} PROVE Cardinality(V) <= Surplus
  <2>1. \A x \in V : rank[x] \in 0 .. Surplus - 1
    BY <1>1, <1>3 DEF Injection
  <2>2. Surplus > 0
    BY <1>3, <1>6, <2>1
  <2>3. [x \in V |-> rank[x]] \in Injection(V, 0 .. Surplus - 1)
    <3>1. \A x, y \in V : rank[x] = rank[y] => x = y
      BY <1>1, <1>3 DEF Injection, IsInjective
    <3> QED
      BY <2>1, <3>1 DEF Injection, IsInjective
  <2>4. IsFiniteSet(0 .. Surplus - 1) /\ Cardinality(0 .. Surplus - 1) = Surplus
    BY <1>3, <2>2, FS_Interval
  <2> QED
    BY <2>3, <2>4, FS_Injection
<1>7. ASSUME V # others PROVE Cardinality(V) >= Surplus
  <2>1. PICK z \in others : rank[z] >= Surplus /\ rank[z] \in 0 .. n - 1
    BY <1>1, <1>3, <1>7 DEF Injection
  <2>2. CASE Surplus <= 0
    BY <1>3, <1>4, <2>2
  <2>3. CASE Surplus > 0
    <3>1. \A k \in 0 .. Surplus - 1 : \E x \in V : rank[x] = k
      <4> SUFFICES ASSUME NEW k \in 0 .. Surplus - 1 PROVE \E x \in V : rank[x] = k
        OBVIOUS
      <4>1. k \in 0 .. n - 1
        BY <1>1, <1>3, <2>1, <2>3
      <4>2. PICK x \in others : rank[x] = k
        BY <1>1, <4>1 DEF Surjection
      <4> QED
        BY <1>3, <4>2
    <3>2. [x \in V |-> rank[x]] \in Surjection(V, 0 .. Surplus - 1)
      <4>1. \A x \in V : rank[x] \in 0 .. Surplus - 1
        BY <1>1, <1>3 DEF Injection
      <4> QED
        BY <3>1, <4>1 DEF Surjection
    <3>3. Cardinality(0 .. Surplus - 1) = Surplus
      BY <1>3, <2>3, FS_Interval
    <3> QED
      BY <1>4, <3>2, <3>3, FS_Surjection
  <2> QED
    BY <1>3, <2>2, <2>3
<1>8. V # {} => Cardinality(pools \ V) + Cardinality(loading) >= MaxLoaded - 1
  BY <1>2, <1>3, <1>4, <1>5, <1>6 DEF Surplus
<1>9. V = others \/ Cardinality(pools \ V) + Cardinality(loading) <= MaxLoaded - 1
  BY <1>2, <1>3, <1>4, <1>5, <1>7 DEF Surplus
<1> QED
  BY <1>2, <1>8, <1>9 DEF V

-----------------------------------------------------------------------------
(* The models being built *)
Incoming == {model[t] : t \in Builders}
(* and those still built for nobody, as far as no reservation was made since *)
Lingering == adrift \ overlooked

LEMMA CapacityFinite ==
  ASSUME ManagerInv
  PROVE  /\ IsFiniteSet(Builders) /\ IsFiniteSet(pools) /\ IsFiniteSet(loading)
         /\ IsFiniteSet(Incoming) /\ Incoming \subseteq Models
         /\ IsFiniteSet(pools \cup Incoming \cup Lingering)
<1>1. Incoming \subseteq Models
  BY DEF ManagerInv, ModelKnown, Incoming, Builders
<1>2. Incoming \in SUBSET Models /\ pools \in SUBSET Models /\ loading \in SUBSET Models
      /\ pools \cup Incoming \cup Lingering \in SUBSET Models /\ Builders \in SUBSET Tasks
  BY <1>1 DEF ManagerInv, TypeOK, Builders, Lingering
<1>3. IsFiniteSet(Models) /\ IsFiniteSet(Tasks)
  BY ManagerAssumption
<1> QED
  BY <1>1, <1>2, <1>3, FS_Subset

(* There are no more models being built than builds. *)
LEMMA IncomingCount ==
  ASSUME ManagerInv
  PROVE  Cardinality(Incoming) <= Cardinality(Builders)
<1> DEFINE f == [t \in Builders |-> model[t]]
<1>1. f \in Surjection(Builders, Incoming)
  BY DEF Surjection, Incoming
<1> QED
  BY <1>1, CapacityFinite, FS_Surjection

LEMMA FewerLoaded ==
  ASSUME CapacityInv, UNCHANGED crowded,
         pools' \cup Incoming' \cup Lingering' \subseteq pools \cup Incoming \cup Lingering
  PROVE  WithinCapacity'
<1>1. CASE crowded
  BY <1>1 DEF WithinCapacity
<1>2. CASE ~crowded
  <2> DEFINE now == pools \cup Incoming \cup Lingering
             then == pools' \cup Incoming' \cup Lingering'
  <2>1. IsFiniteSet(now) /\ Cardinality(now) <= MaxLoaded
    BY <1>2, CapacityFinite DEF CapacityInv, WithinCapacity, Incoming, Lingering
  <2>2. then \in SUBSET now
    OBVIOUS
  <2> HIDE DEF now, then
  <2>3. IsFiniteSet(then) /\ Cardinality(then) <= Cardinality(now)
    BY <2>1, <2>2, FS_Subset
  <2>4. Cardinality(then) \in Nat /\ Cardinality(now) \in Nat /\ MaxLoaded \in Nat
    BY <2>1, <2>3, FS_CardinalityType, ManagerAssumption
  <2>5. Cardinality(then) <= MaxLoaded
    BY <2>1, <2>3, <2>4
  <2> QED
    BY <2>5 DEF WithinCapacity, Incoming, Lingering, then
<1> QED
  BY <1>1, <1>2

LEMMA ReservationsKept ==
  ASSUME CapacityInv, UNCHANGED crowded,
         Builders' \subseteq Builders, Reserving' \subseteq Reserving,
         \A t \in Reserving' : model'[t] = model[t]
                               /\ (model[t] \in loading => model'[t] \in loading')
  PROVE  ReservationsCount'
<1>1. CASE crowded
  BY <1>1 DEF ReservationsCount
<1>2. CASE ~crowded
  <2>1. Builders' \in SUBSET Builders /\ IsFiniteSet(Builders)
    BY CapacityFinite DEF CapacityInv
  <2>2. IsFiniteSet(Builders') /\ Cardinality(Builders') <= Cardinality(Builders)
    BY <2>1, FS_Subset
  <2>3. Cardinality(Builders) \in Nat /\ Cardinality(Builders') \in Nat /\ MaxLoaded \in Nat
    BY <2>1, <2>2, FS_CardinalityType, ManagerAssumption
  <2>4. Cardinality(Builders) <= MaxLoaded
    BY <1>2 DEF CapacityInv, ReservationsCount
  <2>5. Cardinality(Builders') <= MaxLoaded
    BY <2>2, <2>3, <2>4
  <2>6. /\ \A t \in Reserving' : model'[t] \in loading'
        /\ \A t, u \in Reserving' : model'[t] = model'[u] => t = u
    BY <1>2 DEF CapacityInv, ReservationsCount
  <2> QED
    BY <2>5, <2>6 DEF ReservationsCount
<1> QED
  BY <1>1, <1>2

(* The steps of calls that build nothing, and of the idle watcher *)
LEMMA QuietCapacity ==
  ASSUME CapacityInv, UNCHANGED <<crowded, loading, adrift, overlooked>>, pools' \subseteq pools,
         NEW t \in Tasks, t \notin Reserving,
         pc'[t] \notin {"building", "landing"},
         \A u \in Tasks \ {t} : pc'[u] = pc[u] /\ model'[u] = model[u]
  PROVE  ReservationsCount' /\ WithinCapacity'
<1>1. Builders' = Builders /\ Reserving' = Reserving
      /\ \A u \in Reserving : u \in Tasks \ {t}
  BY DEF Builders, Reserving
<1>2. Incoming' = Incoming
  BY <1>1 DEF Incoming, Builders, Reserving
<1>3. Lingering' = Lingering
  BY DEF Lingering
<1> QED
  BY <1>1, <1>2, <1>3, ReservationsKept, FewerLoaded

LEMMA LeaveCapacity ==
  ASSUME CapacityInv, NEW t \in Tasks, BuildFails(t) \/ Land(t) \/ Cancel(t)
  PROVE  ReservationsCount' /\ WithinCapacity'
<1> USE DEF CapacityInv, ManagerInv, TypeOK
<1>1. /\ UNCHANGED <<crowded, pools>>
      /\ pc'[t] \notin {"building", "landing"}
      /\ \A u \in Tasks \ {t} : pc'[u] = pc[u] /\ model'[u] = model[u]
      /\ t \notin Reserving => UNCHANGED <<loading, adrift, overlooked>>
      /\ UNCHANGED loading \/ loading' = loading \ {model[t]}
  BY DEF past, BuildFails, Land, Cancel, Goto, Return, DropReservation, Reserving, Builders
<1>2. CASE t \notin Reserving
  BY <1>1, <1>2, QuietCapacity
<1>3. CASE t \in Reserving
  <2>1. Builders' \subseteq Builders /\ Reserving' \subseteq Reserving \ {t}
    BY <1>1 DEF Builders, Reserving
  <2>2. Incoming' \subseteq Incoming
    BY <1>1, <2>1 DEF Incoming, Reserving, Builders
  <2>5. Lingering' \subseteq Lingering \cup Incoming
    BY DEF past, BuildFails, Land, Cancel, Lingering, Incoming
  <2>3. \A u \in Reserving' : model'[u] = model[u]
    BY <1>1, <2>1 DEF Reserving
  <2>4. ReservationsCount'
    <3>1. CASE crowded
      BY <1>1, <3>1 DEF ReservationsCount
    <3>2. CASE ~crowded
      <4>1. \A u \in Reserving' : model[u] # model[t]
        BY <1>3, <2>1, <3>2 DEF ReservationsCount
      <4>2. \A u \in Reserving' : model[u] \in loading => model'[u] \in loading'
        BY <1>1, <2>3, <4>1
      <4> QED
        BY <1>1, <2>1, <2>3, <4>2, ReservationsKept
    <3> QED
      BY <3>1, <3>2
  <2> QED
    BY <1>1, <2>2, <2>4, <2>5, FewerLoaded
<1> QED
  BY <1>2, <1>3

LEMMA InsertCapacity ==
  ASSUME CapacityInv, NEW t \in Tasks, InsertPool(t)
  PROVE  ReservationsCount' /\ WithinCapacity'
<1> USE DEF CapacityInv, ManagerInv, TypeOK
<1>1. /\ UNCHANGED <<crowded, loading, model>> /\ pools' = pools \cup {model[t]}
      /\ pc[t] = "building" /\ pc'[t] = "landing"
      /\ \A u \in Tasks \ {t} : pc'[u] = pc[u]
  BY DEF InsertPool, Goto, past
<1>6. Lingering' = Lingering
  BY DEF InsertPool, past, Lingering
<1>2. Builders' \subseteq Builders /\ Reserving' = Reserving /\ t \in Builders
  BY <1>1 DEF Builders, Reserving
<1>3. Incoming' \subseteq Incoming /\ model[t] \in Incoming
  BY <1>1, <1>2 DEF Incoming
<1>4. pools' \cup Incoming' \cup Lingering' \subseteq pools \cup Incoming \cup Lingering
  BY <1>1, <1>3, <1>6
<1>5. ReservationsCount'
  BY <1>1, <1>2, ReservationsKept
<1> QED
  BY <1>1, <1>4, <1>5, FewerLoaded

(* A reservation either finds room or has taken every pool but its own. *)
LEMMA ReserveCapacity ==
  ASSUME CapacityInv, NEW t \in Tasks, ReserveSlot(t)
  PROVE  ReservationsCount' /\ WithinCapacity'
<1> USE DEF CapacityInv
<1> DEFINE m == model[t]
<1>1. CASE crowded'
  BY <1>1 DEF ReservationsCount, WithinCapacity
<1>2. CASE ~crowded'
  <2>1. /\ ~crowded /\ ~ (Cardinality(Builders') > MaxLoaded)
        /\ \A u \in Reserving : model[u] # m
    BY <1>2 DEF ReserveSlot
  <2>2. m \in Models
    BY DEF ReserveSlot, ManagerInv, ModelKnown
  <2>3. /\ Builders' = Builders \cup {t} /\ Reserving' = Reserving \cup {t}
        /\ model' = model /\ loading' = loading \cup {m}
        /\ pools' = pools \ Victims(m)
    BY DEF ReserveSlot, Goto, Builders, Reserving, RemoveModels, ManagerInv, TypeOK
  <2>4. Incoming' = Incoming \cup {m}
    BY <2>3 DEF Incoming
  <2>5. IsFiniteSet(Builders) /\ IsFiniteSet(pools) /\ IsFiniteSet(loading)
        /\ IsFiniteSet(Incoming)
    BY CapacityFinite
  <2>6. /\ \A u \in Reserving : model[u] \in loading
        /\ \A u, v \in Reserving : model[u] = model[v] => u = v
    BY <2>1 DEF ReservationsCount
  <2>7. Incoming \subseteq loading
    BY <2>6 DEF Incoming, Builders, Reserving
  <2>8. MaxLoaded \in Nat \ {0}
    BY ManagerAssumption
  <2>9. Cardinality(Builders') <= MaxLoaded
    <3>1. IsFiniteSet(Builders \cup {t})
      BY <2>5, FS_AddElement
    <3>2. Cardinality(Builders') \in Nat
      BY <2>3, <3>1, FS_CardinalityType
    <3> QED
      BY <2>1, <2>8, <3>2
  <2>10. ReservationsCount'
    BY <2>1, <2>3, <2>6, <2>9 DEF ReservationsCount
  <2>11. Cardinality(pools' \cup Incoming') <= MaxLoaded
    <3>1. CASE Victims(m) = pools \ {m}
      <4>1. pools' \cup Incoming' = Incoming \cup {m}
        BY <2>3, <2>4, <3>1
      <4>2. Cardinality(Incoming \cup {m}) <= Cardinality(Builders \cup {t})
        <5> DEFINE f == [u \in Builders \cup {t} |-> model[u]]
        <5>1. f \in Surjection(Builders \cup {t}, Incoming \cup {m})
          BY DEF Surjection, Incoming
        <5>2. IsFiniteSet(Builders \cup {t})
          BY <2>5, FS_AddElement
        <5> HIDE DEF f
        <5> QED
          BY <5>1, <5>2, FS_Surjection
      <4>3. IsFiniteSet(Incoming \cup {m}) /\ IsFiniteSet(Builders \cup {t})
        BY <2>5, FS_AddElement
      <4>4. Cardinality(Incoming \cup {m}) \in Nat /\ Cardinality(Builders \cup {t}) \in Nat
        BY <4>3, FS_CardinalityType
      <4> QED
        BY <2>3, <2>8, <2>9, <4>1, <4>2, <4>4
    <3>2. CASE Cardinality(pools \ Victims(m)) + Cardinality(loading) <= MaxLoaded - 1
      <4> DEFINE P == pools \ Victims(m)
                 L == loading \cup {m}
      <4>1. IsFiniteSet(P)
        BY <2>5, FS_Subset
      <4>2. IsFiniteSet(L) /\ Cardinality(L) <= Cardinality(loading) + 1
        <5>1. Cardinality(loading) \in Nat
          BY <2>5, FS_CardinalityType
        <5>2. IsFiniteSet(L) /\ Cardinality(L) =
                IF m \in loading THEN Cardinality(loading) ELSE Cardinality(loading) + 1
          BY <2>5, FS_AddElement
        <5> QED
          BY <5>1, <5>2
      <4>3. pools' \cup Incoming' \in SUBSET (P \cup L)
        BY <2>3, <2>4, <2>7
      <4> HIDE DEF P, L
      <4>4. IsFiniteSet(P \cup L) /\ IsFiniteSet(P \cap L)
            /\ Cardinality(P \cup L)
                 = Cardinality(P) + Cardinality(L) - Cardinality(P \cap L)
        BY <4>1, <4>2, FS_Union, FS_Intersection
      <4>5. IsFiniteSet(pools' \cup Incoming')
            /\ Cardinality(pools' \cup Incoming') <= Cardinality(P \cup L)
        BY <4>3, <4>4, FS_Subset
      <4>6. /\ Cardinality(P) \in Nat /\ Cardinality(L) \in Nat
            /\ Cardinality(P \cap L) \in Nat /\ Cardinality(loading) \in Nat
            /\ Cardinality(P \cup L) \in Nat
            /\ Cardinality(pools' \cup Incoming') \in Nat
        BY <2>5, <4>1, <4>2, <4>4, <4>5, FS_CardinalityType
      <4>7. Cardinality(P) + Cardinality(loading) <= MaxLoaded - 1
        BY <3>2 DEF P
      <4> QED
        BY <2>8, <4>2, <4>4, <4>5, <4>6, <4>7
    <3> QED
      BY <2>2, <3>1, <3>2, VictimsCount
  <2>12. pools' \cup Incoming' \cup Lingering' = pools' \cup Incoming'
    BY DEF ReserveSlot, Lingering
  <2> QED
    BY <2>10, <2>11, <2>12 DEF WithinCapacity, Incoming, Lingering
<1> QED
  BY <1>1, <1>2

LEMMA NextCapacity == CapacityInv /\ [Next]_vars => CapacityInv'
<1> SUFFICES ASSUME CapacityInv, [Next]_vars PROVE CapacityInv'
  OBVIOUS
<1> USE DEF CapacityInv
<1>1. ManagerInv'
  BY NextManager
<1>2. CASE UNCHANGED vars
  <2>1. UseIsOrdered'
    BY <1>2 DEF vars, UseIsOrdered
  <2>2. ReservationsCount' /\ WithinCapacity'
    BY <1>2 DEF vars, ReservationsCount, WithinCapacity, Builders, Reserving
  <2> QED
    BY <1>1, <2>1, <2>2
<1>3. CASE Next
  <2>1. UseIsOrdered'
    BY <1>3, OrderKept
  <2>2. ReservationsCount' /\ WithinCapacity'
    <3>1. ASSUME NEW t \in Tasks, NEW m \in Models,
                 Acquire(t, m) \/ Update(t, m) \/ UnloadGetLock(t, m)
          PROVE  ReservationsCount' /\ WithinCapacity'
      <4>1. /\ UNCHANGED <<crowded, loading, adrift, overlooked, pools>> /\ t \notin Reserving
            /\ pc'[t] \notin {"building", "landing"}
            /\ \A u \in Tasks \ {t} : pc'[u] = pc[u] /\ model'[u] = model[u]
        BY <3>1 DEF Acquire, Update, UnloadGetLock, Goto, Reserving, manager, past,
                    ManagerInv, TypeOK
      <4> QED
        BY <4>1, QuietCapacity
    <3>2. ASSUME NEW t \in Tasks,
                 \/ GetLoadLock(t) \/ LockAndRecheck(t) \/ ReadFactory(t)
                 \/ Regrab(t) \/ Done(t) \/ UnloadRemove(t)
          PROVE  ReservationsCount' /\ WithinCapacity'
      <4>1. /\ UNCHANGED <<crowded, loading, adrift, overlooked>> /\ pools' \subseteq pools
            /\ t \notin Reserving
            /\ pc'[t] \notin {"building", "landing"}
            /\ \A u \in Tasks \ {t} : pc'[u] = pc[u] /\ model'[u] = model[u]
        BY <3>2 DEF GetLoadLock, LockAndRecheck, ReadFactory, Regrab, Done, UnloadRemove,
                    Removes, RemoveModels, Return, Goto, Reserving, manager, past,
                    ManagerInv, TypeOK
      <4> QED
        BY <4>1, QuietCapacity
    <3>3. ASSUME NEW t \in Tasks,
                 \/ BuildFails(t) \/ Land(t) \/ Cancel(t) \/ InsertPool(t) \/ ReserveSlot(t)
          PROVE  ReservationsCount' /\ WithinCapacity'
      BY <3>3, LeaveCapacity, InsertCapacity, ReserveCapacity
    <3>4. ASSUME \/ IdleSnapshot \/ IdleSweep \/ \E m \in Models : BuildRunsOut(m)
          PROVE  ReservationsCount' /\ WithinCapacity'
      <4>1. /\ UNCHANGED <<crowded, loading, pc, model>> /\ pools' \subseteq pools
            /\ Lingering' \subseteq Lingering
        BY <3>4 DEF IdleSnapshot, IdleSweep, BuildRunsOut, RemoveModels, call, manager, past,
                    Lingering
      <4>2. Builders' = Builders /\ Reserving' = Reserving /\ Incoming' = Incoming
        BY <4>1 DEF Builders, Reserving, Incoming
      <4> QED
        BY <4>1, <4>2, ReservationsKept, FewerLoaded
    <3> QED
      BY <1>3, <3>1, <3>2, <3>3, <3>4 DEF Next
  <2> QED
    BY <1>1, <2>1, <2>2
<1> QED
  BY <1>2, <1>3

LEMMA InitCapacity == Init => CapacityInv
<1> SUFFICES ASSUME Init PROVE CapacityInv
  OBVIOUS
<1>1. ManagerInv
  BY InitManager
<1>2. Builders = {} /\ Reserving = {} /\ pools = {} /\ usedBefore = {}
  BY DEF Init, Builders, Reserving
<1>3. UseIsOrdered
  BY <1>2 DEF UseIsOrdered
<1>4. Cardinality({}) = 0 /\ MaxLoaded \in Nat /\ 0 <= MaxLoaded
  BY FS_EmptySet, ManagerAssumption
<1>5. ReservationsCount
  BY <1>2, <1>4 DEF ReservationsCount
<1>6. pools \cup {model[t] : t \in Builders} \cup (adrift \ overlooked) = {}
  BY <1>2 DEF Init
<1>7. WithinCapacity
  BY <1>4, <1>6 DEF WithinCapacity
<1> QED
  BY <1>1, <1>3, <1>5, <1>7 DEF CapacityInv

THEOREM CapacityInvariant == Spec => []CapacityInv
  BY InitCapacity, NextCapacity, PTL DEF Spec

(* manager.rs:221-224: as long as no more than the limit build at once, and no
   model twice, the models that are loaded, being loaded, or still built for a
   dropped call are within it, but for the latter once a reservation was made
   that did not see them. *)
THEOREM ManagerWithinCapacity == Spec => []WithinCapacity
<1>1. CapacityInv => WithinCapacity
  BY DEF CapacityInv
<1> QED
  BY <1>1, CapacityInvariant, PTL

-----------------------------------------------------------------------------
(* What reserve_slot removes, for the call that reserves. *)
LEMMA VictimsAreOldest ==
  ASSUME CapacityInv, NEW m \in Models,
         NEW gone \in Victims(m), NEW kept \in (pools \ Victims(m)) \ {m}
  PROVE  <<gone, kept>> \in usedBefore
<1>1. gone \in pools \ {m} /\ kept \in pools \ {m} /\ gone # kept
  BY DEF Victims
<1>2. Rank(m, gone) < Surplus /\ ~(Rank(m, kept) < Surplus)
  BY <1>1 DEF Victims, Rank, Surplus
<1>3. ASSUME <<kept, gone>> \in usedBefore PROVE FALSE
  <2>1. Rank(m, kept) < Rank(m, gone)
    BY <1>1, <1>3, RanksGrow DEF CapacityInv
  <2>2. Rank(m, kept) \in Nat /\ Rank(m, gone) \in Nat
    <3>1. \A x : IsFiniteSet({y \in pools \ {m} : <<y, x>> \in usedBefore})
      <4>1. IsFiniteSet(pools)
        BY CapacityFinite DEF CapacityInv
      <4> QED
        BY <4>1, FS_Subset
    <3> QED
      BY <3>1, FS_CardinalityType DEF Rank
  <2>3. Surplus \in Int
    <3>1. Cardinality(pools) \in Nat /\ Cardinality(loading) \in Nat /\ MaxLoaded \in Nat
      BY CapacityFinite, FS_CardinalityType, ManagerAssumption DEF CapacityInv
    <3> QED
      BY <3>1 DEF Surplus
  <2> QED
    BY <1>2, <2>1, <2>2, <2>3
<1> QED
  BY <1>1, <1>3 DEF CapacityInv, UseIsOrdered

(* Only reserve_slot takes a call from "reserve" to "building". *)
LEMMA OnlyReserveBuilds ==
  ASSUME ManagerInv, [Next]_vars, NEW t \in Tasks, pc[t] = "reserve", pc'[t] = "building"
  PROVE  ReserveSlot(t)
<1> USE DEF ManagerInv, TypeOK
<1>1. ASSUME NEW u \in Tasks, NEW m \in Models,
             Acquire(u, m) \/ Update(u, m) \/ UnloadGetLock(u, m)
      PROVE  FALSE
  BY <1>1 DEF Acquire, Update, UnloadGetLock, Goto
<1>2. ASSUME NEW u \in Tasks,
             \/ GetLoadLock(u) \/ LockAndRecheck(u) \/ ReadFactory(u) \/ BuildFails(u)
             \/ InsertPool(u) \/ Land(u) \/ Regrab(u) \/ Done(u) \/ Cancel(u)
             \/ UnloadRemove(u)
      PROVE  FALSE
  BY <1>2 DEF GetLoadLock, LockAndRecheck, ReadFactory, BuildFails, InsertPool, Land,
              Regrab, Done, Cancel, UnloadRemove, Removes, Goto, Return
<1>3. ASSUME NEW u \in Tasks, ReserveSlot(u) PROVE ReserveSlot(t)
  BY <1>3 DEF ReserveSlot, Goto
<1>4. CASE UNCHANGED pc
  BY <1>4
<1>5. ASSUME \/ IdleSnapshot \/ IdleSweep \/ UNCHANGED vars
             \/ \E m \in Models : BuildRunsOut(m)
      PROVE  UNCHANGED pc
  BY <1>5 DEF IdleSnapshot, IdleSweep, BuildRunsOut, vars, call
<1> QED
  BY <1>1, <1>2, <1>3, <1>4, <1>5 DEF Next

(* Eviction takes the least recently used pools, as few as make room, and never
   the pool of the model that is coming in. *)
THEOREM ManagerEvictsLeastRecentlyUsed == Spec => EvictsLeastRecentlyUsed
<1> DEFINE Evicts == \A t \in Tasks :
      pc[t] = "reserve" /\ pc'[t] = "building" =>
        /\ \A gone \in pools \ pools', kept \in pools' \ {model[t]} :
             <<gone, kept>> \in usedBefore
        /\ model[t] \in pools => model[t] \in pools'
        /\ pools' # pools => Cardinality(pools') + Cardinality(loading) >= MaxLoaded - 1
<1>1. CapacityInv /\ [Next]_vars => Evicts
  <2> SUFFICES ASSUME CapacityInv, [Next]_vars,
                      NEW t \in Tasks, pc[t] = "reserve", pc'[t] = "building"
               PROVE  /\ \A gone \in pools \ pools', kept \in pools' \ {model[t]} :
                           <<gone, kept>> \in usedBefore
                      /\ model[t] \in pools => model[t] \in pools'
                      /\ pools' # pools =>
                           Cardinality(pools') + Cardinality(loading) >= MaxLoaded - 1
    OBVIOUS
  <2>1. ReserveSlot(t)
    BY OnlyReserveBuilds DEF CapacityInv
  <2>2. model[t] \in Models
    BY DEF CapacityInv, ManagerInv, ModelKnown
  <2>3. pools' = pools \ Victims(model[t]) /\ Victims(model[t]) \subseteq pools \ {model[t]}
    BY <2>1 DEF ReserveSlot, RemoveModels, Victims
  <2>4. \A gone \in pools \ pools', kept \in pools' \ {model[t]} : <<gone, kept>> \in usedBefore
    BY <2>2, <2>3, VictimsAreOldest
  <2>5. pools' # pools => Cardinality(pools') + Cardinality(loading) >= MaxLoaded - 1
    BY <2>2, <2>3, VictimsCount DEF CapacityInv
  <2> QED
    BY <2>3, <2>4, <2>5
<1>2. CapacityInv /\ [Next]_vars => [Evicts]_vars
  BY <1>1
<1> QED
  BY <1>2, CapacityInvariant, PTL DEF Spec, EvictsLeastRecentlyUsed

=============================================================================
