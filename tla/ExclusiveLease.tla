--------------------------- MODULE ExclusiveLease ---------------------------
(***************************************************************************)
(* What engine/pool.rs promises its callers: a PoolGuard grants            *)
(* exclusive access to one engine instance until it is dropped.  Nothing   *)
(* is said of permits, of the order of the waiters or of free lists.       *)
(***************************************************************************)
CONSTANTS Clients,  \* the tasks that ask for an engine
          Slots     \* the engine instances of one pool

VARIABLE lease      \* lease[i]: the set of clients that may touch instance i

LeaseInit == lease = [i \in Slots |-> {}]

(* A client that has no instance gets one that nobody has. *)
Take(c, i) ==
  /\ lease[i] = {}
  /\ \A j \in Slots : c \notin lease[j]
  /\ lease' = [lease EXCEPT ![i] = {c}]

GiveBack(c, i) ==
  /\ lease[i] = {c}
  /\ lease' = [lease EXCEPT ![i] = {}]

LeaseNext == \E c \in Clients, i \in Slots : Take(c, i) \/ GiveBack(c, i)

LeaseSpec == LeaseInit /\ [][LeaseNext]_lease
=============================================================================
