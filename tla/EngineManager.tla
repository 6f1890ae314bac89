---------------------------- MODULE EngineManager ----------------------------
(***************************************************************************)
(* engine/manager.rs: which models are loaded.  Models are loaded on their *)
(* first request under a lock of their own, evicted least recently used    *)
(* first to make room, unloaded on demand (an update of the file, a change *)
(* of backend) and when idle.  One action is the code between two awaits,  *)
(* except that taking the load lock is joined to the step it protects.     *)
(* The RwLocks and the std mutex are held only inside an action, so they   *)
(* do not appear; the per-model load lock is held across several.          *)
(*                                                                         *)
(* A pool is abstracted to the version of the factory that built it; what  *)
(* a task does with the pool it got is module ModelPool.                   *)
(***************************************************************************)
EXTENDS Integers, FiniteSets

CONSTANTS Models,      \* Variant keys
          Registered,  \* those with a factory at first
          Tasks,       \* concurrent callers: requests, updates, unloads
          LockIds,     \* identities of the Arc<Mutex> objects
          NoLock,      \* the map has no lock for a model, a caller has none
          NoModel,     \* the model_id of a task that is in no call
          MaxLoaded,   \* `max_loaded_models`
          MaxVersion,  \* bound: how often factories are replaced
          MaxAdrift    \* bound: of how many models builds run on for dropped calls

Nobody == "nobody"

ASSUME ManagerAssumption ==
  /\ IsFiniteSet(Models) /\ IsFiniteSet(Tasks)
  /\ NoLock \notin LockIds /\ NoModel \notin Models /\ Nobody \notin Tasks
  /\ MaxLoaded \in Nat \ {0} /\ MaxVersion \in Nat \ {0} /\ MaxAdrift \in Nat
  /\ Registered \subseteq Models

VARIABLES
  pools,       \* the models in the pool map
  usedBefore,  \* order of `last_used`: <<a, b>> when a's is the earlier
  weights,     \* weights[m]: the factory version m's pool was built from
  factory,     \* the registered factory's version, 0 when there is none
  lockOf,      \* load_locks: the lock a newcomer finds for a model
  owner,       \* owner[l]: the task inside lock l
  loading,     \* the models with a LoadReservation
  stale,       \* the idle watcher's `to_unload`, {} outside its two steps
  pc, model, lock, ver,  \* a call's position, model_id, Arc clone, factory_ref
  adrift,      \* models of which a build runs on for a call that was dropped
  overlooked,  \* history: those of them that a later reservation did not see
  crowded,     \* history: loads have overlapped beyond what `loading` counts
  settled      \* history: the newest version whose update's unload is over

manager == <<pools, usedBefore, weights, lockOf, loading>>
call == <<pc, model, lock, ver>>
past == <<adrift, overlooked, crowded, settled>>
vars == <<pools, usedBefore, weights, factory, lockOf, owner, loading, stale,
          pc, model, lock, ver, adrift, overlooked, crowded, settled>>

(* load_model, from the load lock to its drop *)
LoadPhase == {"readfactory", "reserve", "building", "landing"}
AcquirePhase == {"getlock", "locking", "regrab", "using"} \cup LoadPhase
UnloadPhase == {"registered", "unlocking"}
Phase == {"idle"} \cup AcquirePhase \cup UnloadPhase

(* The calls that own a pool which is not in the map yet *)
Builders == {t \in Tasks : pc[t] = "building"}
(* and those with a LoadReservation *)
Reserving == {t \in Tasks : pc[t] \in {"building", "landing"}}

Init ==
  /\ pools = {} /\ usedBefore = {}
  /\ weights = [m \in Models |-> 0]
  /\ factory = [m \in Models |-> IF m \in Registered THEN 1 ELSE 0]
  /\ lockOf = [m \in Models |-> NoLock]
  /\ owner = [l \in LockIds |-> Nobody]
  /\ loading = {} /\ stale = {}
  /\ pc = [t \in Tasks |-> "idle"]
  /\ model = [t \in Tasks |-> NoModel]
  /\ lock = [t \in Tasks |-> NoLock]
  /\ ver = [t \in Tasks |-> 0]
  /\ adrift = {} /\ overlooked = {}
  /\ crowded = FALSE
  /\ settled = [m \in Models |-> 0]

Goto(t, phase) == pc' = [pc EXCEPT ![t] = phase]

(* The call returns, with a guard or an error: nothing of it stays *)
Return(t) ==
  /\ Goto(t, "idle")
  /\ model' = [model EXCEPT ![t] = NoModel]
  /\ ver' = [ver EXCEPT ![t] = 0]

(* last_used = Instant::now() *)
Touched(m) == {p \in usedBefore : m \notin {p[1], p[2]}} \cup ((pools \ {m}) \X {m})
Touch(m) == usedBefore' = Touched(m)

(* mutant: the times of use are kept apart from the pools and outlive them *)
RemoveModelsKeepingUse(S) ==
  /\ pools' = pools \ S
  /\ usedBefore' = usedBefore
  /\ weights' = [m \in Models |-> IF m \in S THEN 0 ELSE weights[m]]
  /\ lockOf' = [m \in Models |-> IF m \in S THEN NoLock ELSE lockOf[m]]

(* remove_model for every model of S: pools and load locks alike *)
RemoveModels(S) ==
  /\ pools' = pools \ S
  /\ usedBefore' = {p \in usedBefore : p[1] \notin S /\ p[2] \notin S}
  /\ weights' = [m \in Models |-> IF m \in S THEN 0 ELSE weights[m]]
  /\ lockOf' = [m \in Models |-> IF m \in S THEN NoLock ELSE lockOf[m]]

(* The drop of `_guard` and of the Arc; owner is unchanged without a lock *)
Unlock(t) ==
  /\ owner' = [l \in LockIds |-> IF owner[l] = t THEN Nobody ELSE owner[l]]
  /\ lock' = [lock EXCEPT ![t] = NoLock]

-----------------------------------------------------------------------------
(* acquire_traced, as far as the fast path *)
Acquire(t, m) ==
  /\ pc[t] = "idle"
  /\ model' = [model EXCEPT ![t] = m]
  /\ IF m \in pools
       THEN Touch(m) /\ Goto(t, "using")
       ELSE UNCHANGED usedBefore /\ Goto(t, "getlock")
  /\ UNCHANGED <<pools, weights, factory, lockOf, owner, loading, stale,
                 lock, ver, past>>

(* load_lock_for: get, or insert a new lock.  The bound on lock identities is
   never reached when there are more of them than models and tasks. *)
Referenced == {lockOf[m] : m \in Models} \cup {lock[t] : t \in Tasks}
FreshLock == CHOOSE l \in LockIds : l \notin Referenced

GetLoadLock(t) ==
  /\ pc[t] = "getlock"
  /\ \/ lockOf[model[t]] # NoLock /\ UNCHANGED lockOf
     \/ /\ lockOf[model[t]] = NoLock
        /\ FreshLock \in LockIds \ Referenced
        /\ lockOf' = [lockOf EXCEPT ![model[t]] = FreshLock]
  /\ lock' = [lock EXCEPT ![t] = lockOf'[model[t]]]
  /\ Goto(t, "locking")
  /\ UNCHANGED <<pools, usedBefore, weights, factory, owner, loading, stale,
                 model, ver, past>>

(* load_model takes the lock and looks again: Ok(false) when another load
   landed first, and the lock is dropped at once *)
LockAndRecheck(t) ==
  /\ pc[t] = "locking"
  /\ owner[lock[t]] = Nobody
  /\ IF model[t] \in pools
       THEN Unlock(t) /\ Goto(t, "regrab")
       ELSE /\ owner' = [owner EXCEPT ![lock[t]] = t]
            /\ Goto(t, "readfactory")
            /\ UNCHANGED lock
  /\ UNCHANGED <<manager, factory, stale, model, ver, past>>

(* mutant: ModelNotFound is returned with the load lock still held *)
ReadFactoryKeepingLock(t) ==
  /\ pc[t] = "readfactory"
  /\ \/ /\ factory[model[t]] = 0
        /\ Return(t)
        /\ UNCHANGED <<owner, lock>>
     \/ /\ factory[model[t]] # 0
        /\ ver' = [ver EXCEPT ![t] = factory[model[t]]]
        /\ Goto(t, "reserve")
        /\ UNCHANGED <<owner, lock, model>>
  /\ UNCHANGED <<manager, factory, stale, past>>

(* Err(ModelNotFound) leaves the lock in the map *)
ReadFactory(t) ==
  /\ pc[t] = "readfactory"
  /\ \/ /\ factory[model[t]] = 0
        /\ Unlock(t) /\ Return(t)
     \/ /\ factory[model[t]] # 0
        /\ ver' = [ver EXCEPT ![t] = factory[model[t]]]
        /\ Goto(t, "reserve")
        /\ UNCHANGED <<owner, lock, model>>
  /\ UNCHANGED <<manager, factory, stale, past>>

(* mutant: room is made for what is loaded, not for the newcomer *)
VictimsOneShort(m) ==
  LET others  == pools \ {m}
      surplus == Cardinality(pools) + Cardinality(loading) - MaxLoaded
  IN {x \in others : Cardinality({y \in others : <<y, x>> \in usedBefore}) < surplus}

(* mutant: the most recently used pool goes first *)
VictimsMostRecent(m) ==
  LET others  == pools \ {m}
      surplus == Cardinality(pools) + Cardinality(loading) - MaxLoaded + 1
  IN {x \in others : Cardinality({y \in others : <<x, y>> \in usedBefore}) < surplus}

(* reserve_slot's loop: least recently used first, sparing m, until a slot is
   free for m or no other pool is left. *)
Victims(m) ==
  LET others  == pools \ {m}
      surplus == Cardinality(pools) + Cardinality(loading) - MaxLoaded + 1
  IN {x \in others : Cardinality({y \in others : <<y, x>> \in usedBefore}) < surplus}

ReserveSlot(t) ==
  /\ pc[t] = "reserve"
  /\ RemoveModels(Victims(model[t]))
  /\ loading' = loading \cup {model[t]}
  /\ Goto(t, "building")
  /\ crowded' = \/ crowded
                 \/ Cardinality(Builders') > MaxLoaded
                 \/ \E u \in Reserving : model[u] = model[t]
  /\ overlooked' = adrift
  /\ UNCHANGED <<factory, owner, stale, model, lock, ver, adrift, settled>>

(* Drop for LoadReservation *)
DropReservation(t) == loading' = loading \ {model[t]}

(* mutant: the reservation is released by hand, where a load succeeds *)
BuildFailsKeepingReservation(t) ==
  /\ pc[t] = "building"
  /\ Unlock(t) /\ Return(t)
  /\ UNCHANGED <<pools, usedBefore, weights, factory, lockOf, loading, stale, past>>

BuildFails(t) ==
  /\ pc[t] = "building"
  /\ DropReservation(t) /\ Unlock(t) /\ Return(t)
  /\ UNCHANGED <<pools, usedBefore, weights, factory, lockOf, stale, past>>

(* ModelPool::new and the warmup, awaited, end in the insertion of the pool *)
InsertPool(t) ==
  /\ pc[t] = "building"
  /\ pools' = pools \cup {model[t]}
  /\ Touch(model[t])
  /\ weights' = [weights EXCEPT ![model[t]] = ver[t]]
  /\ Goto(t, "landing")
  /\ UNCHANGED <<factory, lockOf, owner, loading, stale, model, lock, ver, past>>

(* The end of load_model drops the reservation, then the lock *)
Land(t) ==
  /\ pc[t] = "landing"
  /\ DropReservation(t) /\ Unlock(t) /\ Goto(t, "regrab")
  /\ ver' = [ver EXCEPT ![t] = 0]
  /\ UNCHANGED <<pools, usedBefore, weights, factory, lockOf, stale, model, past>>

(* Back in acquire_traced: Err(ModelNotLoaded) when the pool is gone again *)
Regrab(t) ==
  /\ pc[t] = "regrab"
  /\ \/ /\ model[t] \in pools
        /\ Touch(model[t]) /\ Goto(t, "using")
        /\ UNCHANGED <<model, ver>>
     \/ /\ model[t] \notin pools
        /\ Return(t)
        /\ UNCHANGED usedBefore
  /\ UNCHANGED <<pools, weights, factory, lockOf, owner, loading, stale, lock, past>>

(* pool.acquire times out, or the guard is used and dropped *)
Done(t) ==
  /\ pc[t] = "using"
  /\ Return(t)
  /\ UNCHANGED <<manager, factory, owner, stale, lock, past>>

(* The caller drops the future at an await (a client that hangs up on a
   request, on PUT /api/settings or on a DELETE): the guards on the stack are
   dropped with it.  A build or a warm-up on its blocking thread goes on. *)
Cancel(t) ==
  /\ pc[t] \in (AcquirePhase \ {"landing", "using"}) \cup UnloadPhase
  /\ IF t \in Builders
     THEN /\ Cardinality(adrift \cup {model[t]}) <= MaxAdrift
          /\ DropReservation(t)
          /\ adrift' = adrift \cup {model[t]} /\ overlooked' = overlooked \ {model[t]}
     ELSE UNCHANGED <<loading, adrift, overlooked>>
  /\ Unlock(t) /\ Return(t)
  /\ UNCHANGED <<pools, usedBefore, weights, factory, lockOf, stale, crowded, settled>>

(* The last such thread for m returns, and what it built is dropped *)
BuildRunsOut(m) ==
  /\ m \in adrift
  /\ adrift' = adrift \ {m} /\ overlooked' = overlooked \ {m}
  /\ UNCHANGED <<manager, call, factory, owner, stale, crowded, settled>>

-----------------------------------------------------------------------------
(* An update of the model's file or backend: register the new factory, then
   unload (UnloadGetLock). *)
Update(t, m) ==
  /\ pc[t] = "idle"
  /\ factory[m] < MaxVersion
  /\ factory' = [factory EXCEPT ![m] = @ + 1]
  /\ model' = [model EXCEPT ![t] = m]
  /\ ver' = [ver EXCEPT ![t] = factory[m] + 1]
  /\ Goto(t, "registered")
  /\ UNCHANGED <<manager, owner, stale, lock, past>>

(* unload: the lock the map has now, if it has one *)
UnloadGetLock(t, m) ==
  /\ \/ pc[t] = "registered" /\ model[t] = m
     \/ pc[t] = "idle"
  /\ model' = [model EXCEPT ![t] = m]
  /\ lock' = [lock EXCEPT ![t] = lockOf[m]]
  /\ Goto(t, "unlocking")
  /\ UNCHANGED <<manager, factory, owner, stale, ver, past>>

(* The pool goes; without one, the map's lock stays *)
Removes(t) ==
  /\ RemoveModels({model[t]} \cap pools)
  /\ settled' = [settled EXCEPT ![model[t]] = IF ver[t] > @ THEN ver[t] ELSE @]
  /\ Unlock(t) /\ Return(t)
  /\ UNCHANGED <<factory, loading, stale, adrift, overlooked, crowded>>

(* mutant: the pool is removed without waiting for a load in flight *)
UnloadRemoveAtOnce(t) == pc[t] = "unlocking" /\ Removes(t)

(* wait for the load, then remove the pool *)
UnloadRemove(t) ==
  /\ pc[t] = "unlocking"
  /\ lock[t] # NoLock => owner[lock[t]] = Nobody
  /\ Removes(t)

(* The idle watcher lists what was not used for long, under the read lock:
   if a model qualifies, every model used before it does *)
IdleSnapshot ==
  /\ stale = {}
  /\ \E S \in SUBSET pools \ {{}} :
       /\ \A p \in usedBefore : p[2] \in S => p[1] \in S
       /\ stale' = S
  /\ UNCHANGED <<manager, call, factory, owner, past>>

(* and removes it under the write locks, whatever happened in between *)
IdleSweep ==
  /\ stale # {}
  /\ RemoveModels(stale)
  /\ stale' = {}
  /\ UNCHANGED <<loading, call, factory, owner, past>>

-----------------------------------------------------------------------------
Next ==
  \/ \E t \in Tasks :
       \/ \E m \in Models : Acquire(t, m) \/ Update(t, m) \/ UnloadGetLock(t, m)
       \/ GetLoadLock(t) \/ LockAndRecheck(t) \/ ReadFactory(t)
       \/ ReserveSlot(t) \/ BuildFails(t) \/ InsertPool(t) \/ Land(t)
       \/ Regrab(t) \/ Done(t) \/ Cancel(t) \/ UnloadRemove(t)
  \/ \E m \in Models : BuildRunsOut(m)
  \/ IdleSnapshot \/ IdleSweep

Spec == Init /\ [][Next]_vars

(* A running call is polled on, and factories and engine calls return.  A load
   lock is tokio's, which is fair: who waits for it is not overtaken for ever.
   Nobody has to start a call, give up, or let a model go idle. *)
Fairness == \A t \in Tasks :
  /\ WF_vars(\/ GetLoadLock(t) \/ ReadFactory(t) \/ ReserveSlot(t)
             \/ BuildFails(t) \/ InsertPool(t) \/ Land(t) \/ Regrab(t) \/ Done(t)
             \/ pc[t] = "registered" /\ UnloadGetLock(t, model[t]))
  /\ SF_vars(LockAndRecheck(t)) /\ SF_vars(UnloadRemove(t))
FairSpec == Spec /\ Fairness

-----------------------------------------------------------------------------
(* Every variable keeps its shape, and the order of use is one of the pools. *)
TypeOK ==
  /\ pools \subseteq Models /\ loading \subseteq Models /\ stale \subseteq Models
  /\ usedBefore \subseteq pools \X pools
  /\ weights \in [Models -> 0 .. MaxVersion] /\ factory \in [Models -> 0 .. MaxVersion]
  /\ lockOf \in [Models -> LockIds \cup {NoLock}]
  /\ owner \in [LockIds -> Tasks \cup {Nobody}]
  /\ pc \in [Tasks -> Phase]
  /\ model \in [Tasks -> Models \cup {NoModel}]
  /\ lock \in [Tasks -> LockIds \cup {NoLock}]
  /\ ver \in [Tasks -> 0 .. MaxVersion]
  /\ adrift \subseteq Models /\ overlooked \subseteq adrift /\ crowded \in BOOLEAN
  /\ settled \in [Models -> 0 .. MaxVersion]

(* The guards of manager.rs release on every path, error and cancelled ones
   too: a reservation and a held load lock belong to a call that is running. *)
NothingLeaks ==
  /\ \A m \in loading : \E t \in Tasks :
       model[t] = m /\ t \in Reserving
  /\ \A l \in LockIds : owner[l] # Nobody =>
       lock[owner[l]] = l /\ pc[owner[l]] \in LoadPhase

(* manager.rs:221-224: the models loaded, being loaded, or still being built for
   a call that was dropped exceed the limit only after more builds than the
   limit have run at once; or two of one model, for which `loading` has one
   entry that the first of them takes away; or, against that comment, by the
   builds of dropped calls that a later reservation did not see. *)
WithinCapacity ==
  crowded \/ Cardinality(pools \cup {model[t] : t \in Builders} \cup (adrift \ overlooked))
               <= MaxLoaded

(* manager.rs:350-353: once an update's unload is over, a load that is still
   under way with a factory older than that update's works under a lock that
   was taken out of the map: the unload waited for every other. *)
OutdatedLoadsAreOrphans ==
  \A t \in Tasks :
    pc[t] \in {"reserve", "building"} /\ ver[t] < settled[model[t]]
      => lock[t] # lockOf[model[t]]

(* The claim of that comment itself: once an update's unload is over, no pool
   serves the replaced weights. *)
NoReplacedWeightsServe == \A m \in pools : weights[m] >= settled[m]

(* Room is made with the least recently used pools, as few as needed, and
   never with the model that is coming in. *)
EvictsLeastRecentlyUsed == [][\A t \in Tasks :
  pc[t] = "reserve" /\ pc'[t] = "building" =>
    /\ \A gone \in pools \ pools', kept \in pools' \ {model[t]} : <<gone, kept>> \in usedBefore
    /\ model[t] \in pools => model[t] \in pools'
    /\ pools' # pools => Cardinality(pools') + Cardinality(loading) >= MaxLoaded - 1]_vars

(* No load lock is waited for in a circle or left locked: a call that started
   comes to an end, whatever the others do. *)
EveryCallEnds == \A t \in Tasks : pc[t] # "idle" ~> pc[t] = "idle"
=============================================================================
