-------------------------- MODULE FiniteInduction --------------------------
(***************************************************************************)
(* Induction by the least counterexample, which is how the other proofs    *)
(* count and add up: the library's induction theorems are not for the      *)
(* provers at hand.                                                        *)
(***************************************************************************)
EXTENDS Integers, FiniteSets, FiniteSetsExt, FiniteSetTheorems, NaturalsInduction,
        WellFoundedInduction, TLAPS

(* Numbers have a least among them. *)
LEMMA SmallestNat ==
  ASSUME NEW S, S \subseteq Nat, S # {}
  PROVE  \E n \in S : \A m \in S : n <= m
  <1> DEFINE R == OpToRel(<, Nat)
  <1>1. IsWellFoundedOn(R, Nat)
    BY NatLessThanWellFounded
  <1>2. R = {e \in Nat \X Nat : e[1] < e[2]}
    BY DEF OpToRel
  <1> HIDE DEF R
  <1>3. PICK n \in S : \A m \in S : <<m, n>> \notin R
    BY <1>1, WFMin
  <1>4. \A m \in S : ~ m < n
    BY <1>2, <1>3
  <1> QED BY <1>4

(* Finite sets have one with the fewest elements among them. *)
LEMMA SmallestSet ==
  ASSUME NEW F, F # {}, \A s \in F : IsFiniteSet(s)
  PROVE  \E s \in F : \A t \in F : Cardinality(s) <= Cardinality(t)
  <1> DEFINE sizes == {Cardinality(s) : s \in F}
  <1>1. sizes \subseteq Nat /\ sizes # {}
    BY FS_CardinalityType
  <1>2. PICK n \in sizes : \A m \in sizes : n <= m
    BY <1>1, SmallestNat
  <1> QED BY <1>2

-----------------------------------------------------------------------------
(* How MapThenSumSet takes a set apart *)
Least(s) == CHOOSE x \in s : TRUE
Rest(s) == s \ {Least(s)}
Adds(w, s, f) == IF s = {} THEN 0 ELSE w[Least(s)] + f[Rest(s)]

LEMMA RestIsSmaller ==
  ASSUME NEW s, IsFiniteSet(s), s # {}
  PROVE  /\ Least(s) \in s /\ IsFiniteSet(Rest(s)) /\ Rest(s) \subseteq s
         /\ Cardinality(Rest(s)) = Cardinality(s) - 1
         /\ Cardinality(s) \in Nat /\ Cardinality(Rest(s)) \in Nat
  <1>1. Least(s) \in s BY DEF Least
  <1>2. IsFiniteSet(Rest(s)) /\ Cardinality(Rest(s)) = Cardinality(s) - 1
    BY <1>1, FS_RemoveElement DEF Rest
  <1>3. Cardinality(s) \in Nat /\ Cardinality(Rest(s)) \in Nat
    BY <1>2, FS_CardinalityType
  <1> QED BY <1>1, <1>2, <1>3 DEF Rest

(* There is a function that adds up, whatever it adds. *)
LEMMA SumExists ==
  ASSUME NEW w, NEW S, IsFiniteSet(S)
  PROVE  \E f : f = [s \in SUBSET S |-> Adds(w, s, f)]
  <1> DEFINE AddsTo(n, f) == \A s \in SUBSET S : Cardinality(s) <= n => f[s] = Adds(w, s, f)
             wrong == {n \in Nat : ~ \E f : AddsTo(n, f)}
  <1>1. \A s \in SUBSET S : IsFiniteSet(s) /\ Cardinality(s) \in Nat
    BY FS_Subset, FS_CardinalityType
  <1>2. \A s \in SUBSET S : s # {} => /\ Rest(s) \in SUBSET S
                                      /\ Cardinality(Rest(s)) = Cardinality(s) - 1
    BY <1>1, RestIsSmaller
  <1>3. ASSUME wrong # {} PROVE FALSE
    <2>1. PICK n \in wrong : \A m \in wrong : n <= m
      BY <1>3, SmallestNat
    <2>2. ASSUME n = 0 PROVE FALSE
      <3>1. \A s \in SUBSET S : Cardinality(s) <= 0 => s = {}
        BY <1>1, FS_EmptySet
      <3>2. AddsTo(0, [s \in SUBSET S |-> 0])
        BY <3>1 DEF Adds
      <3> QED BY <2>1, <2>2, <3>2
    <2>3. ASSUME n # 0 PROVE FALSE
      <3>1. n - 1 \in Nat /\ n - 1 \notin wrong /\ n \in Nat
        BY <2>1, <2>3
      <3>2. PICK f : AddsTo(n - 1, f)
        BY <3>1
      <3> DEFINE g == [s \in SUBSET S |-> IF Cardinality(s) <= n - 1 THEN f[s] ELSE Adds(w, s, f)]
      <3>3. ASSUME NEW s \in SUBSET S, Cardinality(s) <= n PROVE g[s] = Adds(w, s, g)
        <4>1. g[s] = Adds(w, s, f)
          BY <3>2
        <4>2. CASE s = {}
          BY <4>1, <4>2 DEF Adds
        <4>3. CASE s # {}
          <5>1. Rest(s) \in SUBSET S /\ Cardinality(Rest(s)) <= n - 1
            BY <1>1, <1>2, <3>1, <3>3, <4>3
          <5>2. g[Rest(s)] = f[Rest(s)]
            BY <5>1
          <5> HIDE DEF g
          <5> QED BY <4>1, <5>2 DEF Adds
        <4> QED BY <4>2, <4>3
      <3>4. AddsTo(n, g)
        BY <3>3
      <3> HIDE DEF g
      <3> QED BY <2>1, <3>4
    <2> QED BY <2>2, <2>3
  <1>4. Cardinality(S) \in Nat /\ Cardinality(S) \notin wrong
    BY <1>1, <1>3
  <1>5. PICK f : AddsTo(Cardinality(S), f)
    BY <1>4
  <1>6. \A s \in SUBSET S : f[s] = Adds(w, s, f)
    <2>1. \A s \in SUBSET S : Cardinality(s) <= Cardinality(S)
      BY FS_Subset
    <2> QED BY <1>5, <2>1
  <1> DEFINE h == [s \in SUBSET S |-> f[s]]
  <1>7. \A s \in SUBSET S : h[s] = Adds(w, s, h)
    <2> SUFFICES ASSUME NEW s \in SUBSET S PROVE h[s] = Adds(w, s, h)
      OBVIOUS
    <2>1. h[s] = f[s] /\ (s # {} => h[Rest(s)] = f[Rest(s)])
      BY <1>2
    <2> HIDE DEF h
    <2> QED BY <1>6, <2>1 DEF Adds
  <1>8. h = [s \in SUBSET S |-> Adds(w, s, h)]
    <2>1. h = [s \in SUBSET S |-> h[s]]
      OBVIOUS
    <2> HIDE DEF h
    <2> QED BY <1>7, <2>1
  <1> QED BY <1>8


SumOver(w, S) == MapThenSumSet(LAMBDA k : w[k], S)

(* A sum over a finite set is what such a function makes of it. *)
LEMMA SumTakenApart ==
  ASSUME NEW w, NEW S, IsFiniteSet(S)
  PROVE  \E sum : /\ \A s \in SUBSET S : sum[s] = Adds(w, s, sum)
                  /\ SumOver(w, S) = sum[S]
  <1> DEFINE sum == CHOOSE f : f = [s \in SUBSET S |-> Adds(w, s, f)]
  <1>1. sum = [s \in SUBSET S |-> Adds(w, s, sum)]
    BY SumExists
  <1>2. SumOver(w, S) = sum[S]
    BY DEF SumOver, MapThenSumSet, MapThenFoldSet, Adds, Rest, Least
  <1>3. \A s \in SUBSET S : sum[s] = Adds(w, s, sum)
    <2> HIDE DEF sum
    <2> QED BY <1>1
  <1> QED BY <1>2, <1>3

(* A sum of ones, and of noughts in places, counts the ones. *)
LEMMA SumCountsOnes ==
  ASSUME NEW S, IsFiniteSet(S), NEW w, \A k \in S : w[k] \in {0, 1}
  PROVE  SumOver(w, S) = Cardinality({k \in S : w[k] = 1})
  <1>1. PICK sum : /\ \A s \in SUBSET S : sum[s] = Adds(w, s, sum)
                   /\ SumOver(w, S) = sum[S]
    BY SumTakenApart
  <1> DEFINE ones(s) == {k \in s : w[k] = 1}
             wrong == {s \in SUBSET S : sum[s] # Cardinality(ones(s))}
  <1>2. ASSUME wrong # {} PROVE FALSE
    <2>1. \A s \in wrong : IsFiniteSet(s)
      BY FS_Subset
    <2>2. PICK s \in wrong : \A t \in wrong : Cardinality(s) <= Cardinality(t)
      BY <1>2, <2>1, SmallestSet
    <2>3. s # {}
      <3>1. Cardinality({}) = 0
        BY FS_EmptySet
      <3>2. s = {} => sum[s] = 0 /\ ones(s) = {}
        BY <1>1 DEF Adds
      <3> QED BY <2>2, <3>1, <3>2
    <2>4. /\ Least(s) \in s /\ Rest(s) \in SUBSET S /\ s \in SUBSET S
          /\ Cardinality(Rest(s)) = Cardinality(s) - 1
          /\ Cardinality(s) \in Nat /\ Cardinality(Rest(s)) \in Nat
      BY <2>1, <2>2, <2>3, RestIsSmaller
    <2>5. sum[Rest(s)] = Cardinality(ones(Rest(s)))
      BY <2>2, <2>4
    <2>6. sum[s] = w[Least(s)] + sum[Rest(s)]
      BY <1>1, <2>2, <2>3 DEF Adds
    <2>7. IsFiniteSet(ones(Rest(s))) /\ Cardinality(ones(Rest(s))) \in Nat
      BY <2>4, FS_Subset, FS_CardinalityType
    <2>8. CASE w[Least(s)] = 1
      <3>1. ones(s) = ones(Rest(s)) \cup {Least(s)} /\ Least(s) \notin ones(Rest(s))
        BY <2>4, <2>8 DEF Rest
      <3>2. Cardinality(ones(s)) = Cardinality(ones(Rest(s))) + 1
        BY <2>7, <3>1, FS_AddElement
      <3> QED BY <2>2, <2>5, <2>6, <2>7, <2>8, <3>2
    <2>9. CASE w[Least(s)] = 0
      <3>1. ones(s) = ones(Rest(s))
        BY <2>4, <2>9 DEF Rest
      <3>2. Cardinality(ones(s)) = Cardinality(ones(Rest(s)))
        BY <3>1
      <3> HIDE DEF ones
      <3> QED BY <2>2, <2>5, <2>6, <2>7, <2>9, <3>2
    <2> QED BY <2>4, <2>8, <2>9
  <1> QED BY <1>1, <1>2

(* What adds up the sizes of sets that have nothing in common counts the
   elements of them all. *)
All(part, S) == UNION {part[k] : k \in S}
AddsSizes(sum, part, S) ==
  \A s \in SUBSET S :
    sum[s] = IF s = {} THEN 0 ELSE Cardinality(part[Least(s)]) + sum[Rest(s)]
LEMMA PartsAddUp ==
  ASSUME NEW S, IsFiniteSet(S), NEW part,
         \A k \in S : IsFiniteSet(part[k]),
         \A k, l \in S : k # l => part[k] \cap part[l] = {},
         NEW sum, AddsSizes(sum, part, S)
  PROVE  sum[S] = Cardinality(All(part, S))
  <1> USE DEF AddsSizes, All
  <1> DEFINE all(s) == All(part, s)
             wrong == {s \in SUBSET S : sum[s] # Cardinality(all(s)) \/ ~IsFiniteSet(all(s))}
  <1>1. ASSUME wrong # {} PROVE FALSE
    <2>1. \A s \in wrong : IsFiniteSet(s)
      BY FS_Subset
    <2>2. PICK s \in wrong : \A t \in wrong : Cardinality(s) <= Cardinality(t)
      BY <1>1, <2>1, SmallestSet
    <2>3. ASSUME s = {} PROVE FALSE
      <3>1. all(s) = {}
        BY <2>3
      <3>2. sum[s] = 0
        BY <2>3
      <3>3. Cardinality(all(s)) = 0 /\ IsFiniteSet(all(s))
        BY <3>1, FS_EmptySet, Zenon
      <3> QED BY <2>2, <3>2, <3>3
    <2>4. /\ Least(s) \in s /\ Rest(s) \in SUBSET S /\ s \in SUBSET S
          /\ Cardinality(Rest(s)) = Cardinality(s) - 1
          /\ Cardinality(s) \in Nat /\ Cardinality(Rest(s)) \in Nat
      BY <2>1, <2>2, <2>3, RestIsSmaller
    <2>5. Rest(s) \notin wrong
      BY <2>2, <2>4
    <2>6. sum[Rest(s)] = Cardinality(all(Rest(s))) /\ IsFiniteSet(all(Rest(s)))
      BY <2>4, <2>5
    <2>7. all(s) = all(Rest(s)) \cup part[Least(s)]
      BY <2>4 DEF Rest
    <2>8. all(Rest(s)) \cap part[Least(s)] = {}
      BY <2>4 DEF Rest
    <2>9. sum[s] = Cardinality(part[Least(s)]) + sum[Rest(s)] /\ IsFiniteSet(part[Least(s)])
      BY <2>3, <2>4
    <2> HIDE DEF all, wrong
    <2>10. /\ IsFiniteSet(all(Rest(s)) \cup part[Least(s)])
           /\ Cardinality(all(Rest(s)) \cup part[Least(s)])
                = Cardinality(all(Rest(s))) + Cardinality(part[Least(s)])
      <3>1. /\ IsFiniteSet(all(Rest(s)) \cup part[Least(s)])
            /\ Cardinality(all(Rest(s)) \cup part[Least(s)])
                 = Cardinality(all(Rest(s))) + Cardinality(part[Least(s)])
                     - Cardinality(all(Rest(s)) \cap part[Least(s)])
        BY <2>6, <2>9, FS_Union
      <3>2. Cardinality(all(Rest(s)) \cap part[Least(s)]) = 0
        BY <2>8, FS_EmptySet, Zenon
      <3>3. Cardinality(all(Rest(s))) \in Nat /\ Cardinality(part[Least(s)]) \in Nat
        BY <2>6, <2>9, FS_CardinalityType
      <3> QED BY <3>1, <3>2, <3>3
    <2>11. Cardinality(all(Rest(s))) \in Nat /\ Cardinality(part[Least(s)]) \in Nat
      BY <2>6, <2>9, FS_CardinalityType
    <2>12. sum[s] = Cardinality(all(s)) /\ IsFiniteSet(all(s))
      BY <2>6, <2>7, <2>9, <2>10, <2>11
    <2> QED BY <2>2, <2>12 DEF wrong
  <1>2. S \notin wrong
    BY <1>1
  <1> QED BY <1>2
=============================================================================
