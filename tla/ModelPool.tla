------------------------------ MODULE ModelPool ------------------------------
(***************************************************************************)
(* engine/pool.rs: the engine instances of one loaded model, handed out to *)
(* tasks by a semaphore (how many) and a free list (which).  The two are   *)
(* separate objects: a task takes a permit, then pops an index under the   *)
(* list's mutex; a dropped guard pushes its index back, then drops its     *)
(* permit.  Any number of other tasks may run in each of these gaps.       *)
(*                                                                         *)
(* The semaphore is tokio's (external): fair, a released permit is         *)
(* assigned to the longest waiter, and a waiter that gives up after it was *)
(* assigned one hands it on.                                               *)
(***************************************************************************)
EXTENDS Integers, Sequences, SequencesExt, FiniteSets

CONSTANTS Clients,  \* tasks that transcribe with this model
          Size      \* `pool_size`, the number of instances

ASSUME PoolAssumption == IsFiniteSet(Clients) /\ Size \in Nat

Slots == 0 .. Size - 1
NoSlot == -1

VARIABLES
  engine,   \* instances[i]: a "sound" engine, one that "panicked", or "none"
  free,     \* free_indices: FIFO of instance indices
  permits,  \* the semaphore's available permits
  waitq,    \* the semaphore's queue of waiting tasks, the longest first
  pc,       \* where each task stands
  held      \* the index in the task's PoolGuard, NoSlot before it has one

vars == <<engine, free, permits, waitq, pc, held>>

(* "waiting" in the semaphore's queue; "granted" a permit was assigned but
   the task has not run since; "permitted" acquire_owned returned; "holding"
   a PoolGuard; "rebuilding" the instance after a panic, inside with_engine;
   "returned" the guard's drop pushed the index, the permit is still held. *)
Phase == {"idle", "waiting", "granted", "permitted", "holding", "rebuilding", "returned"}

WithPermit == {c \in Clients : pc[c] \in {"granted", "permitted", "holding", "rebuilding", "returned"}}
WithSlot   == {c \in Clients : pc[c] \in {"holding", "rebuilding"}}

AllFree == [n \in 1 .. Size |-> n - 1]

Init ==
  /\ engine = [i \in Slots |-> "sound"]
  /\ free = AllFree
  /\ permits = Size
  /\ waitq = <<>>
  /\ pc = [c \in Clients |-> "idle"]
  /\ held = [c \in Clients |-> NoSlot]

-----------------------------------------------------------------------------
(* acquire: the first poll of acquire_owned takes a permit or joins the queue *)
TakePermit(c) ==
  /\ pc[c] = "idle"
  /\ permits > 0
  /\ permits' = permits - 1
  /\ pc' = [pc EXCEPT ![c] = "permitted"]
  /\ UNCHANGED <<engine, free, waitq, held>>

JoinQueue(c) ==
  /\ pc[c] = "idle"
  /\ permits = 0
  /\ waitq' = Append(waitq, c)
  /\ pc' = [pc EXCEPT ![c] = "waiting"]
  /\ UNCHANGED <<engine, free, permits, held>>

Wake(c) ==
  /\ pc[c] = "granted"
  /\ pc' = [pc EXCEPT ![c] = "permitted"]
  /\ UNCHANGED <<engine, free, permits, waitq, held>>

(* c gives its permit up: to the longest waiter, else back to the semaphore *)
HandOn(c) ==
  \/ /\ waitq = <<>>
     /\ permits' = permits + 1
     /\ pc' = [pc EXCEPT ![c] = "idle"]
     /\ UNCHANGED waitq
  \/ /\ waitq # <<>>
     /\ waitq' = Tail(waitq)
     /\ pc' = [pc EXCEPT ![c] = "idle", ![Head(waitq)] = "granted"]
     /\ UNCHANGED permits

(* The timeout elapses, or the caller drops the future: PoolAcquireTimeout *)
GiveUpWaiting(c) ==
  /\ pc[c] = "waiting"
  /\ \E i \in DOMAIN waitq : waitq[i] = c /\ waitq' = RemoveAt(waitq, i)
  /\ pc' = [pc EXCEPT ![c] = "idle"]
  /\ UNCHANGED <<engine, free, permits, held>>

(* mutant: the assigned permit is forgotten *)
GiveUpGrantedLeaking(c) ==
  /\ pc[c] = "granted"
  /\ pc' = [pc EXCEPT ![c] = "idle"]
  /\ UNCHANGED <<engine, free, permits, waitq, held>>

(* The same, racing a permit that was assigned to the waiter meanwhile *)
GiveUpGranted(c) ==
  /\ pc[c] = "granted"
  /\ HandOn(c)
  /\ UNCHANGED <<engine, free, held>>

(* mutant: front() instead of pop_front() *)
PopIndexPeeking(c) ==
  /\ pc[c] = "permitted"
  /\ free # <<>>
  /\ held' = [held EXCEPT ![c] = Head(free)]
  /\ pc' = [pc EXCEPT ![c] = "holding"]
  /\ UNCHANGED <<engine, free, permits, waitq>>

(* pop_front().expect(..): disabled where the code would panic *)
PopIndex(c) ==
  /\ pc[c] = "permitted"
  /\ free # <<>>
  /\ held' = [held EXCEPT ![c] = Head(free)]
  /\ free' = Tail(free)
  /\ pc' = [pc EXCEPT ![c] = "holding"]
  /\ UNCHANGED <<engine, permits, waitq>>

-----------------------------------------------------------------------------
(* with_engine: a call that returns leaves the pool as it is, and so does one
   on an empty instance (ModelNotLoaded); one that panics is caught and the
   instance replaced before the caller gets EnginePanic. *)
(* mutant: EnginePanic is returned without replacing the instance *)
EnginePanicUnrepaired(c) ==
  /\ pc[c] = "holding"
  /\ engine[held[c]] = "sound"
  /\ engine' = [engine EXCEPT ![held[c]] = "panicked"]
  /\ UNCHANGED <<free, permits, waitq, pc, held>>

EnginePanic(c) ==
  /\ pc[c] = "holding"
  /\ engine[held[c]] = "sound"
  /\ engine' = [engine EXCEPT ![held[c]] = "panicked"]
  /\ pc' = [pc EXCEPT ![c] = "rebuilding"]
  /\ UNCHANGED <<free, permits, waitq, held>>

Rebuild(c) ==
  /\ pc[c] = "rebuilding"
  /\ \E result \in {"sound", "none"} : engine' = [engine EXCEPT ![held[c]] = result]
  /\ pc' = [pc EXCEPT ![c] = "holding"]
  /\ UNCHANGED <<free, permits, waitq, held>>

(* mutant: the drop forgets to push the index *)
ReturnIndexForgotten(c) ==
  /\ pc[c] = "holding"
  /\ held' = [held EXCEPT ![c] = NoSlot]
  /\ pc' = [pc EXCEPT ![c] = "returned"]
  /\ UNCHANGED <<engine, free, permits, waitq>>

(* Drop for PoolGuard, then the drop of its fields: the permit goes last *)
ReturnIndex(c) ==
  /\ pc[c] = "holding"
  /\ free' = Append(free, held[c])
  /\ held' = [held EXCEPT ![c] = NoSlot]
  /\ pc' = [pc EXCEPT ![c] = "returned"]
  /\ UNCHANGED <<engine, permits, waitq>>

(* mutant: the permit is forgotten, as OwnedSemaphorePermit::forget does *)
DropPermitForgotten(c) ==
  /\ pc[c] = "returned"
  /\ pc' = [pc EXCEPT ![c] = "idle"]
  /\ UNCHANGED <<engine, free, permits, waitq, held>>

DropPermit(c) ==
  /\ pc[c] = "returned"
  /\ HandOn(c)
  /\ UNCHANGED <<engine, free, held>>

-----------------------------------------------------------------------------
Next == \E c \in Clients :
  \/ TakePermit(c) \/ JoinQueue(c) \/ Wake(c)
  \/ GiveUpWaiting(c) \/ GiveUpGranted(c) \/ PopIndex(c)
  \/ EnginePanic(c) \/ Rebuild(c) \/ ReturnIndex(c) \/ DropPermit(c)

Spec == Init /\ [][Next]_vars

-----------------------------------------------------------------------------
(* Every variable keeps its shape. *)
TypeOK ==
  /\ engine \in [Slots -> {"sound", "panicked", "none"}]
  /\ free \in Seq(Slots)
  /\ permits \in Nat
  /\ waitq \in Seq(Clients)
  /\ pc \in [Clients -> Phase]
  /\ held \in [Clients -> Slots \cup {NoSlot}]

(* pool.rs:125, "Permit acquired -> free_indices is non-empty by invariant":
   the pop after the permit never meets an empty list, whatever other guards
   are half dropped and whatever waiters gave up. *)
PermitFindsIndex == \A c \in Clients : pc[c] = "permitted" => free # <<>>

(* A timeout that races the assignment of a permit, or a guard dropped in
   two steps, never loses or mints a permit: what the semaphore has and what
   tasks hold add up to the pool size. *)
PermitsConserved == permits + Cardinality(WithPermit) = Size

(* An engine that panicked is never on offer: as long as it sits in its slot
   the task that saw the panic is still inside with_engine with that slot. *)
PanickedIsFenced ==
  \A i \in Slots : engine[i] = "panicked" =>
    \E c \in Clients : pc[c] = "rebuilding" /\ held[c] = i

(* A guard is exclusive access to one instance: the pool implements the
   abstract lease, a task's lease being the index in its guard. *)
Lease == INSTANCE ExclusiveLease WITH
           lease <- [i \in Slots |-> {c \in Clients : held[c] = i}]
GuardsAreLeases == Lease!LeaseSpec
=============================================================================
