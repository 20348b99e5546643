-------------------------- MODULE FiniteInduction --------------------------
(***************************************************************************)
(* Induction over natural numbers and over finite sets, stated with sets    *)
(* instead of predicates and derived from the pigeonhole principle: if      *)
(* a set that contains 0 and the successors of its members missed a number, *)
(* the numbers it misses up to that one could be shifted down by one into   *)
(* themselves, although they are finitely many and the last has no place.   *)
(***************************************************************************)
EXTENDS Integers, FiniteSetTheorems, TLAPS

\* A set that has 0 and the successors of its members has every number.
LEMMA Induction ==
  ASSUME NEW S, 0 \in S, \A n \in Nat : n \in S => n + 1 \in S
  PROVE  Nat \subseteq S
<1> SUFFICES ASSUME NEW k \in Nat, k \notin S PROVE FALSE
  OBVIOUS
<1> DEFINE missed == {n \in 0 .. k : n \notin S}
           down == [n \in missed |-> n - 1]
<1>1. IsFiniteSet(missed)
  <2>1. IsFiniteSet(0 .. k)
    BY FS_Interval
  <2>2. missed \in SUBSET (0 .. k)
    OBVIOUS
  <2> QED
    BY <2>1, <2>2, FS_Subset
<1>2. \A n \in missed : n - 1 \in missed
  <2> SUFFICES ASSUME NEW n \in missed PROVE n - 1 \in missed
    OBVIOUS
  <2>1. n \in 0 .. k /\ n # 0
    OBVIOUS
  <2>2. n - 1 \in Nat /\ (n - 1) + 1 = n
    BY <2>1
  <2> QED
    BY <2>1, <2>2
<1>3. down \in Injection(missed, missed)
  BY <1>2 DEF Injection, IsInjective
<1>4. down \in Surjection(missed, missed)
  BY <1>1, <1>3, FS_Injection
<1>5. PICK n \in missed : down[n] = k
  <2>1. k \in missed
    OBVIOUS
  <2> HIDE DEF missed, down
  <2> QED
    BY <1>4, <2>1 DEF Surjection
<1>6. n \in 0 .. k /\ down[n] = n - 1
  OBVIOUS
<1> QED
  BY <1>5, <1>6

\* A family that has the empty set and, with a set, that set with one more member, has
\* every finite set of a finite set's subsets.
LEMMA SetInduction ==
  ASSUME NEW U, IsFiniteSet(U), NEW F, {} \in F,
         \A T \in SUBSET U : \A x \in U \ T : T \in F => T \cup {x} \in F
  PROVE  U \in F
<1> DEFINE S == {n \in Nat : \A T \in SUBSET U : Cardinality(T) = n => T \in F}
<1>1. \A T \in SUBSET U : IsFiniteSet(T) /\ Cardinality(T) \in Nat
  BY FS_Subset, FS_CardinalityType
<1>2. 0 \in S
  BY <1>1, FS_EmptySet
<1>3. ASSUME NEW n \in Nat, n \in S PROVE n + 1 \in S
  <2> SUFFICES ASSUME NEW T \in SUBSET U, Cardinality(T) = n + 1 PROVE T \in F
    OBVIOUS
  <2>1. T # {}
    BY <1>3, FS_EmptySet
  <2>2. PICK x : x \in T
    BY <2>1
  <2>3. T \ {x} \in SUBSET U /\ Cardinality(T \ {x}) = n
    <3>1. IsFiniteSet(T)
      BY <1>1
    <3>2. Cardinality(T \ {x}) = Cardinality(T) - 1
      BY <2>2, <3>1, FS_RemoveElement
    <3> QED
      BY <3>2
  <2>4. T \ {x} \in F
    BY <1>3, <2>3
  <2>5. (T \ {x}) \cup {x} = T /\ x \in U \ (T \ {x})
    BY <2>2
  <2> QED
    BY <2>3, <2>4, <2>5
<1> HIDE DEF S
<1>4. Nat \subseteq S
  BY <1>2, <1>3, Induction
<1> QED
  BY <1>1, <1>4 DEF S

\* Over a finite set that is not empty a function to numbers has a greatest value.
LEMMA GreatestValue ==
  ASSUME NEW S, IsFiniteSet(S), S # {}, NEW f \in [S -> Int]
  PROVE  \E x \in S : \A y \in S : f[y] <= f[x]
<1> DEFINE F == {T \in SUBSET S : T = {} \/ \E x \in T : \A y \in T : f[y] <= f[x]}
<1>1. {} \in F
  OBVIOUS
<1>2. ASSUME NEW T \in SUBSET S, NEW x \in S \ T, T \in F PROVE T \cup {x} \in F
  <2>1. CASE T = {}
    BY <2>1
  <2>2. CASE T # {}
    <3>1. PICK m \in T : \A y \in T : f[y] <= f[m]
      BY <1>2, <2>2
    <3>2. CASE f[x] <= f[m]
      BY <3>1, <3>2
    <3>3. CASE f[m] < f[x]
      <4>1. \A y \in T \cup {x} : f[y] <= f[x]
        BY <3>1, <3>3
      <4> QED
        BY <4>1
    <3> QED
      BY <3>2, <3>3
  <2> QED
    BY <2>1, <2>2
<1> HIDE DEF F
<1>3. S \in F
  BY <1>1, <1>2, SetInduction
<1> QED
  BY <1>3 DEF F
=============================================================================
