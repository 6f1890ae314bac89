------------------------------- MODULE ApiKeys -------------------------------
(***************************************************************************)
(* db/keys.rs, api/keys.rs, api/auth.rs, and what main.rs does with the    *)
(* key it is configured with: API keys as a table, one statement or one    *)
(* transaction on the single connection at a time, and how a request finds *)
(* its key.  A key's hash stands for the key.                              *)
(***************************************************************************)
EXTENDS AsrError

CONSTANTS Ids, Hashes

Key == [id : Ids, hash : Hashes, name : STRING, system : BOOLEAN]
Hashed(keys, h) == {k \in keys : k.hash = h}
Named(keys, id) == {k \in keys : k.id = id}

(* Each operation's table, and what it answers *)
Create(keys, id, h, name) ==
  keys \cup {[id |-> id, hash |-> h, name |-> name, system |-> FALSE]}
Verify(keys, h) == {k.id : k \in Hashed(keys, h)}
List(keys) == keys

(* Configured keys: an existing row is taken over *)
Ensure(keys, id, h, name, system) ==
  IF Hashed(keys, h) = {}
  THEN keys \cup {[id |-> id, hash |-> h, name |-> name, system |-> system]}
  ELSE {IF k.hash = h THEN [k EXCEPT !.name = name, !.system = system] ELSE k : k \in keys}

(* The handler answers 200 for a row that is not there *)
IsSystem(keys, id) == \E k \in Named(keys, id) : k.system
Delete(keys, id) == IF IsSystem(keys, id) THEN keys ELSE keys \ Named(keys, id)
DeleteAnswer(keys, id) == IF IsSystem(keys, id) THEN Status("Forbidden", 0) ELSE 200

(* auth_middleware, in its order: the first key is made without one; ingress
   has authenticated already; then the first token in the query, then the
   header's.  A token that is there and fails is final.  A token is a set of at
   most one hash. *)
Token(r) == IF r.query # {} THEN r.query ELSE r.bearer
Authenticate(keys, r) ==
  CASE r.createsKey /\ keys = {} -> {"nobody"}
    [] ~(r.createsKey /\ keys = {}) /\ r.ingress -> {"ha-ingress"}
    [] OTHER -> UNION {Verify(keys, h) : h \in Token(r)}
Refusal(r) == IF Token(r) = {} THEN "AuthRequired" ELSE "InvalidApiKey"

-----------------------------------------------------------------------------
(* database.rs: ids and hashes are unique *)
Unique(keys) ==
  \A k, l \in keys : k.id = l.id \/ k.hash = l.hash => k = l
=============================================================================
