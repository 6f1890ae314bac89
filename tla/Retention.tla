------------------------------ MODULE Retention ------------------------------
(***************************************************************************)
(* retention.rs: which of the candidates a policy drops.  The code sorts   *)
(* the candidates by creation and walks them from the oldest; here a       *)
(* candidate is dropped or not by what is newer than it.  `born` is the    *)
(* order of creation, `size` the bytes of a candidate, `aged` says how     *)
(* much of that order is older than the policy's days.                     *)
(***************************************************************************)
EXTENDS Integers, FiniteSets, FiniteSetsExt

Unlimited == [type |-> "Unlimited", value |-> 0]
Days(n) == [type |-> "Days", value |-> n]
Count(n) == [type |-> "Count", value |-> n]
DiskLimit(n) == [type |-> "DiskLimitMb", value |-> n]

SelectOlderThanDays(C, born, aged) == {c \in C : born[c] <= aged}

Newer(c, C, born) == {d \in C : born[d] > born[c]}
SelectExcessByCount(C, born, max) ==
  {c \in C : Cardinality(Newer(c, C, born)) >= max}

Bytes(C, size) == MapThenSumSet(LAMBDA c : size[c], C)
SelectExcessBySize(C, born, size, limit) ==
  {c \in C : Bytes(Newer(c, C, born) \cup {c}, size) > limit}

(* Unlimited and Days(0) drop nothing *)
SelectToDelete(policy, C, born, size, aged) ==
  CASE policy.type = "Days" /\ policy.value > 0 -> SelectOlderThanDays(C, born, aged)
    [] policy.type = "Count"       -> SelectExcessByCount(C, born, policy.value)
    [] policy.type = "DiskLimitMb" -> SelectExcessBySize(C, born, size, policy.value)
    [] OTHER -> {}
=============================================================================
