----------------------------- MODULE FoldLemmas -----------------------------
(***************************************************************************)
(* Folds of sequences, by induction over the naturals.                     *)
(*                                                                         *)
(* The induction theorems of the library take an operator as a parameter;  *)
(* here the induction is for a set (UpToAll).  FoldLeft chooses a function *)
(* on the sets of places that satisfies an equation: FoldExists says that  *)
(* there is one, UpToNext which places come after 1..n.                    *)
(***************************************************************************)
EXTENDS Integers, FiniteSets, Sequences, SequencesExt, WellFoundedInduction, TLAPS

\* A set that is closed under the successor holds every natural.
LEMMA UpToAll ==
  ASSUME NEW S, 0 \in S, \A n \in Nat : n \in S => n + 1 \in S
  PROVE  Nat \subseteq S
<1> DEFINE T == {n \in Nat : n \notin S}
<1>1. CASE T = {}
  BY <1>1
<1>2. CASE T # {}
  <2>1. PICK x \in T : \A y \in T : ~(<<y, x>> \in OpToRel(<, Nat))
    BY <1>2, NatLessThanWellFounded, WFMin
  <2>2. x - 1 \in T
    OBVIOUS
  <2>3. <<x - 1, x>> \in OpToRel(<, Nat)
    BY <2>2 DEF OpToRel
  <2> QED  BY <2>1, <2>2, <2>3
<1> QED  BY <1>1, <1>2

LEMMA MaxOfUpTo ==
  ASSUME NEW n \in Nat, NEW s \in SUBSET (1..(n + 1)), n + 1 \in s
  PROVE  Max(s) = n + 1
<1>1. /\ n + 1 \in s /\ \A y \in s : n + 1 >= y
      /\ \A x \in s : (\A y \in s : x >= y) => x = n + 1
  OBVIOUS
<1> QED  BY <1>1 DEF Max

\* The places up to the next one.
LEMMA UpToNext ==
  ASSUME NEW k \in Nat, NEW n \in Nat, n + 1 <= k
  PROVE  /\ 1..(n + 1) \in SUBSET (1..k) /\ 1..(n + 1) # {}
         /\ Max(1..(n + 1)) = n + 1 /\ (1..(n + 1)) \ {n + 1} = 1..n
<1>1. n + 1 \in 1..(n + 1) /\ 1..(n + 1) \in SUBSET (1..(n + 1))
  OBVIOUS
<1>2. Max(1..(n + 1)) = n + 1
  BY <1>1, MaxOfUpTo
<1>3. \A i \in Int : (i \in 1..(n + 1) /\ i # n + 1) <=> i \in 1..n
  OBVIOUS
<1>4. \A i \in 1..(n + 1) : i \in 1..k
  OBVIOUS
<1> QED  BY <1>1, <1>2, <1>3, <1>4

\* The equation of a fold whose step is the function F has a solution.
FoldsBy(f, F, base, k) ==
  f = [s \in SUBSET (1..k) |-> IF s = {} THEN base ELSE F[<<f[s \ {Max(s)}], Max(s)>>]]

LEMMA FoldExists ==
  ASSUME NEW V, NEW base \in V, NEW k \in Nat, NEW F \in [V \X (1..k) -> V]
  PROVE  \E f \in [SUBSET (1..k) -> V] : FoldsBy(f, F, base, k)
<1> DEFINE Body(f, s) == IF s = {} THEN base ELSE F[<<f[s \ {Max(s)}], Max(s)>>]
           Has(n) == \E f \in [SUBSET (1..n) -> V] : f = [s \in SUBSET (1..n) |-> Body(f, s)]
           S == {n \in Nat : n <= k => Has(n)}
<1>0. \A n : n \in S <=> n \in Nat /\ (n <= k => Has(n))
  <2> HIDE DEF Has
  <2> QED  OBVIOUS
<1>1. 0 \in S
  <2> DEFINE g == [s \in SUBSET (1..0) |-> base]
  <2>1. g = [s \in SUBSET (1..0) |-> Body(g, s)]
    OBVIOUS
  <2>2. g \in [SUBSET (1..0) -> V]
    OBVIOUS
  <2> QED  BY <2>1, <2>2
<1>2. ASSUME NEW n \in Nat, n \in S
      PROVE  n + 1 \in S
  <2> SUFFICES ASSUME n + 1 <= k
               PROVE  Has(n + 1)
    <3> HIDE DEF Has, S
    <3> QED  BY <1>0
  <2>5. Has(n)
    <3> HIDE DEF Has, S
    <3> QED  BY <1>0, <1>2
  <2>1. PICK f \in [SUBSET (1..n) -> V] : f = [s \in SUBSET (1..n) |-> Body(f, s)]
    BY <2>5
  <2> DEFINE g == [s \in SUBSET (1..(n + 1)) |->
                     IF n + 1 \in s THEN F[<<f[s \ {n + 1}], n + 1>>] ELSE f[s]]
  <2>0. ASSUME NEW s \in SUBSET (1..(n + 1))
        PROVE  /\ s \ {n + 1} \in SUBSET (1..n)
               /\ n + 1 \notin s => s \in SUBSET (1..n) /\ s \ {Max(s)} \in SUBSET (1..n)
    <3>1. \A i \in 1..(n + 1) : i # n + 1 => i \in 1..n
      OBVIOUS
    <3> QED  BY <3>1
  <2>2. ASSUME NEW s \in SUBSET (1..(n + 1))
        PROVE  g[s] = Body(g, s)
    <3>1. CASE n + 1 \in s
      <4>1. Max(s) = n + 1
        BY <3>1, MaxOfUpTo
      <4>2. s \ {n + 1} \in SUBSET (1..(n + 1)) /\ s # {} /\ n + 1 \notin s \ {n + 1}
        BY <3>1
      <4>3. g[s \ {n + 1}] = f[s \ {n + 1}]
        BY <4>2
      <4>4. g[s] = F[<<f[s \ {n + 1}], n + 1>>]
        BY <3>1
      <4> HIDE DEF g
      <4> QED  BY <4>1, <4>2, <4>3, <4>4, Zenon
    <3>2. CASE n + 1 \notin s
      <4>1. s \in SUBSET (1..n) /\ s \ {Max(s)} \in SUBSET (1..n)
        BY <2>0, <3>2
      <4>2. s \ {Max(s)} \in SUBSET (1..(n + 1)) /\ n + 1 \notin s \ {Max(s)}
        BY <3>2
      <4>3. g[s] = f[s] /\ g[s \ {Max(s)}] = f[s \ {Max(s)}]
        BY <3>2, <4>2
      <4>4. f[s] = Body(f, s)
        BY <2>1, <4>1
      <4> HIDE DEF g
      <4> QED  BY <4>3, <4>4, Zenon
    <3> QED  BY <3>1, <3>2
  <2>3. g = [s \in SUBSET (1..(n + 1)) |-> Body(g, s)]
    BY <2>2
  <2>4. g \in [SUBSET (1..(n + 1)) -> V]
    <3>1. n + 1 \in 1..k
      OBVIOUS
    <3>2. ASSUME NEW s \in SUBSET (1..(n + 1)), n + 1 \in s
          PROVE  F[<<f[s \ {n + 1}], n + 1>>] \in V
      BY <2>0, <3>1
    <3>3. ASSUME NEW s \in SUBSET (1..(n + 1)), n + 1 \notin s
          PROVE  f[s] \in V
      BY <2>0, <3>3
    <3> QED  BY <3>2, <3>3
  <2> QED  BY <2>3, <2>4
<1>3. k \in S
  <2> HIDE DEF S
  <2> QED  BY <1>1, <1>2, UpToAll
<1>4. Has(k)
  <2> HIDE DEF Has, S
  <2> QED  BY <1>0, <1>3
<1> QED  BY <1>4 DEF FoldsBy

\* Every set of places has a last one.
LEMMA MaxOfPlaces ==
  ASSUME NEW k \in Nat, NEW s \in SUBSET (1..k), s # {}
  PROVE  Max(s) \in s /\ \A i \in s : i <= Max(s)
<1> DEFINE S == {n \in Nat : \A i \in s : i <= k - n}
<1>1. CASE \A n \in Nat : n \in S => n + 1 \in S
  <2>1. 0 \in S
    OBVIOUS
  <2>2. k \in S
    BY <1>1, <2>1, UpToAll
  <2>3. PICK i : i \in s
    OBVIOUS
  <2> QED  BY <2>2, <2>3
<1>2. ASSUME NEW n \in Nat, n \in S, n + 1 \notin S
      PROVE  \E x \in s : \A i \in s : i <= x
  <2>1. PICK x \in s : ~(x <= k - (n + 1))
    BY <1>2
  <2>2. x = k - n
    BY <1>2, <2>1
  <2> QED  BY <1>2, <2>2
<1>3. \E x \in s : \A i \in s : x >= i
  BY <1>1, <1>2
<1> QED  BY <1>3 DEF Max

=============================================================================
