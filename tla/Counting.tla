------------------------------ MODULE Counting ------------------------------
(***************************************************************************)
(* Facts about numbers and finite sets that the proofs about this program  *)
(* share: induction, products, division into waves of L, and what a sum    *)
(* over a finite set is worth.  The total of a ledger and the prices of    *)
(* the answers of a batch are SumFunction of the community module          *)
(* Functions.                                                              *)
(*                                                                         *)
(* The library's induction theorems take a predicate as a parameter.  Here *)
(* induction is over the set of the numbers that satisfy the predicate,    *)
(* which the well-foundedness of < on Nat justifies.                       *)
(***************************************************************************)
EXTENDS Functions, Integers, FiniteSetTheorems, WellFoundedInduction, TLAPS

(* A set of naturals that contains 0 and the successor of each of its      *)
(* members contains every natural.                                         *)
LEMMA Induction ==
  ASSUME NEW P \in SUBSET Nat, 0 \in P, \A n \in P : n + 1 \in P
  PROVE  P = Nat
<1> SUFFICES ASSUME Nat \ P # {} PROVE FALSE
  OBVIOUS
<1>1. \E m \in Nat \ P : \A n \in Nat \ P : ~(<<n, m>> \in OpToRel(<, Nat))
  BY NatLessThanWellFounded, WFMin
<1>2. PICK m \in Nat \ P : \A n \in Nat \ P : ~(<<n, m>> \in OpToRel(<, Nat))
  BY <1>1
<1>3. m - 1 \in Nat
  OBVIOUS
<1>4. m - 1 \in P
  <2>1. <<m - 1, m>> \in OpToRel(<, Nat)
    BY <1>3 DEF OpToRel
  <2> QED
    BY <1>2, <1>3, <2>1
<1>5. (m - 1) + 1 \in P
  BY <1>4
<1>6. (m - 1) + 1 = m
  OBVIOUS
<1> QED
  BY <1>5, <1>6

-----------------------------------------------------------------------------
(* Products of natural numbers                                             *)
LEMMA Products ==
  ASSUME NEW a \in Nat, NEW b \in Nat, NEW m \in Nat
  PROVE  /\ a * m \in Nat
         /\ (a + 1) * m = a * m + m
         /\ a <= b => a * m <= b * m
<1>1. a * m \in Nat
  OBVIOUS
<1>2. (a + 1) * m = a * m + m
  OBVIOUS
<1>3. ASSUME a <= b PROVE a * m <= b * m
  <2>1. b - a \in Nat /\ (b - a) * m \in Nat
    BY <1>3
  <2>2. (b - a) * m = b * m - a * m
    BY <1>3
  <2> QED
    BY <2>1, <2>2
<1> QED
  BY <1>1, <1>2, <1>3

LEMMA Division ==
  ASSUME NEW a \in Nat, NEW L \in Nat \ {0}
  PROVE  /\ a \div L \in Nat
         /\ (a \div L) * L <= a /\ a < (a \div L) * L + L
  OBVIOUS

(* L places further on is at least one wave further on.                    *)
LEMMA NextWave ==
  ASSUME NEW a \in Nat, NEW b \in Nat, NEW L \in Nat \ {0}, a + L <= b
  PROVE  (a \div L) + 1 <= b \div L
<1> DEFINE p == a \div L
           q == b \div L
<1>1. p \in Nat /\ q \in Nat /\ p * L <= a /\ b < q * L + L
  BY Division
<1> HIDE DEF p, q
<1>2. ASSUME q + 1 <= p + 1 PROVE FALSE
  <2>1. q <= p
    BY <1>1, <1>2
  <2>2. q * L <= p * L /\ q * L \in Nat /\ p * L \in Nat
    BY <1>1, <2>1, Products
  <2> QED
    BY <1>1, <2>2
<1>3. p + 1 <= q
  BY <1>1, <1>2
<1> QED
  BY <1>3 DEF p, q

LEMMA SameWave ==
  ASSUME NEW a \in Nat, NEW b \in Nat, NEW L \in Nat \ {0}, a <= b
  PROVE  a \div L <= b \div L
<1> DEFINE p == a \div L
           q == b \div L
<1>1. p \in Nat /\ q \in Nat /\ p * L <= a /\ b < q * L + L
  BY Division
<1> HIDE DEF p, q
<1>2. ASSUME q + 1 <= p PROVE FALSE
  <2>2. (q + 1) * L <= p * L /\ (q + 1) * L = q * L + L /\ q * L \in Nat /\ p * L \in Nat
    <3>1. q + 1 \in Nat
      BY <1>1
    <3> QED
      BY <1>1, <1>2, <3>1, Products
  <2> QED
    BY <1>1, <2>2
<1>3. p <= q
  BY <1>1, <1>2
<1> QED
  BY <1>3 DEF p, q

(* Of m members of 1 .. b the first is at least m - 1 before the last.     *)
LEMMA Pigeonhole ==
  ASSUME NEW S, NEW b \in Nat, S \subseteq 1 .. b, NEW m \in Nat \ {0}, Cardinality(S) >= m
  PROVE  \E j \in S : j + m <= b + 1
<1> SUFFICES ASSUME \A j \in S : ~(j + m <= b + 1) PROVE FALSE
  OBVIOUS
<1>1. S \subseteq (b + 2 - m) .. b /\ b + 2 - m \in Int
  OBVIOUS
<1>2. /\ IsFiniteSet((b + 2 - m) .. b)
      /\ Cardinality((b + 2 - m) .. b) = IF b + 2 - m > b THEN 0 ELSE b - (b + 2 - m) + 1
  BY <1>1, FS_Interval
<1>3. IsFiniteSet(S) /\ Cardinality(S) <= Cardinality((b + 2 - m) .. b)
  BY <1>1, <1>2, FS_Subset
<1>4. Cardinality(S) \in Nat
  BY <1>3, FS_CardinalityType
<1> QED
  BY <1>2, <1>3, <1>4

-----------------------------------------------------------------------------
(* A finite set without one of its elements has one element less.          *)
LEMMA OneLess ==
  ASSUME NEW S, IsFiniteSet(S), NEW x \in S
  PROVE  /\ IsFiniteSet(S \ {x}) /\ Cardinality(S) \in Nat
         /\ Cardinality(S \ {x}) \in Nat /\ Cardinality(S \ {x}) = Cardinality(S) - 1
  BY FS_RemoveElement, FS_CardinalityType

(* c names an element of every nonempty subset of S.                       *)
Picks(c, S) == \A T \in SUBSET S : T # {} => c[T] \in T

(* it folds G over the subsets of S, taking the element c[T] out of T.     *)
IsFold(it, S, c, base, G) ==
  \A T \in SUBSET S : it[T] = IF T = {} THEN base ELSE G[<<T, it[T \ {c[T]}]>>]

(* A fold over the subsets of a finite set, which takes the element c[T]   *)
(* out of T, has a value for each of them: a function that is right up to  *)
(* subsets of n elements is extended to one right up to n + 1.             *)
LEMMA RecursionExists ==
  ASSUME NEW S, IsFiniteSet(S), NEW c, Picks(c, S),
         NEW V, NEW base \in V, NEW G \in [(SUBSET S) \X V -> V]
  PROVE  \E it \in [SUBSET S -> V] : IsFold(it, S, c, base, G)
<1> DEFINE Body(it, T) == IF T = {} THEN base ELSE G[<<T, it[T \ {c[T]}]>>]
           Right(it, n) ==
             \A T \in SUBSET S : Cardinality(T) <= n => it[T] = Body(it, T)
           P == {n \in Nat : \E it \in [SUBSET S -> V] : Right(it, n)}
<1>1. ASSUME NEW T \in SUBSET S, T # {}
      PROVE  /\ c[T] \in T /\ T \ {c[T]} \in SUBSET S
             /\ IsFiniteSet(T) /\ Cardinality(T) \in Nat
             /\ Cardinality(T \ {c[T]}) \in Nat
             /\ Cardinality(T \ {c[T]}) = Cardinality(T) - 1
  <2>1. c[T] \in T
    BY <1>1 DEF Picks
  <2>2. IsFiniteSet(T)
    BY FS_Subset
  <2> QED
    BY <2>1, <2>2, OneLess
<1>2. ASSUME NEW it \in [SUBSET S -> V], NEW T \in SUBSET S PROVE Body(it, T) \in V
  <2>1. CASE T = {}
    BY <2>1
  <2>2. CASE T # {}
    <3>1. it[T \ {c[T]}] \in V
      OBVIOUS
    <3> QED
      BY <2>2, <3>1
  <2> QED
    BY <2>1, <2>2
<1>3. 0 \in P
  <2> DEFINE g == [T \in SUBSET S |-> base]
  <2>1. ASSUME NEW T \in SUBSET S, Cardinality(T) <= 0 PROVE g[T] = Body(g, T)
    <3>1. CASE T # {}
      <4>1. /\ Cardinality(T) \in Nat /\ Cardinality(T \ {c[T]}) \in Nat
            /\ Cardinality(T \ {c[T]}) = Cardinality(T) - 1
        BY <1>1, <3>1
      <4> QED
        BY <2>1, <4>1
    <3>2. CASE T = {}
      BY <3>2
    <3> QED
      BY <3>1, <3>2
  <2>2. g \in [SUBSET S -> V]
    OBVIOUS
  <2> HIDE DEF g
  <2> QED
    BY <2>1, <2>2
<1>4. ASSUME NEW n \in P PROVE n + 1 \in P
  <2>1. PICK h \in [SUBSET S -> V] : Right(h, n)
    BY <1>4
  <2> HIDE DEF Body
  <2> DEFINE g == [T \in SUBSET S |-> Body(h, T)]
  <2>2. ASSUME NEW T \in SUBSET S, Cardinality(T) <= n PROVE g[T] = h[T]
    BY <2>1, <2>2
  <2>3. ASSUME NEW T \in SUBSET S, Cardinality(T) <= n + 1 PROVE g[T] = Body(g, T)
    <3>1. CASE T = {}
      BY <3>1 DEF Body
    <3>2. CASE T # {}
      <4>0. n \in Nat
        BY <1>4
      <4>1. Cardinality(T \ {c[T]}) <= n
        <5>1. /\ Cardinality(T \ {c[T]}) = Cardinality(T) - 1
              /\ Cardinality(T) \in Nat
          BY <1>1, <3>2
        <5>2. Cardinality(T) <= n + 1
          BY <2>3
        <5> HIDE DEF g, P
        <5> QED
          BY <4>0, <5>1, <5>2
      <4>2. g[T \ {c[T]}] = h[T \ {c[T]}]
        BY <1>1, <2>2, <3>2, <4>1
      <4>3. Body(g, T) = Body(h, T)
        <5> HIDE DEF g
        <5> QED
          BY <3>2, <4>2 DEF Body
      <4> QED
        BY <4>3
    <3> QED
      BY <3>1, <3>2
  <2>4. g \in [SUBSET S -> V]
    BY <1>2
  <2> HIDE DEF g
  <2> QED
    BY <1>4, <2>3, <2>4
<1>5. P = Nat
  <2> HIDE DEF P
  <2>1. P \in SUBSET Nat
    BY DEF P
  <2> QED
    BY <1>3, <1>4, <2>1, Induction
<1>6. PICK h \in [SUBSET S -> V] : Right(h, Cardinality(S))
  BY <1>5, FS_CardinalityType
<1>7. ASSUME NEW T \in SUBSET S PROVE h[T] = Body(h, T)
  BY <1>6, FS_Subset
<1> QED
  BY <1>7 DEF IsFold

(* g and h agree on a set whenever they agree on what c leaves of it.      *)
Agree(g, h, T, c) ==
  /\ g[{}] = h[{}]
  /\ \A U \in SUBSET T : (U # {} /\ g[U \ {c[U]}] = h[U \ {c[U]}]) => g[U] = h[U]

(* Two folds that take the same elements out, and agree on a set whenever  *)
(* they agree on what is left of it, agree.                                *)
LEMMA RecursionUnique ==
  ASSUME NEW T, IsFiniteSet(T), NEW c, Picks(c, T), NEW g, NEW h, Agree(g, h, T, c)
  PROVE  g[T] = h[T]
<1> DEFINE P == {n \in Nat : \A U \in SUBSET T : Cardinality(U) <= n => g[U] = h[U]}
<1>1. ASSUME NEW U \in SUBSET T PROVE IsFiniteSet(U) /\ Cardinality(U) \in Nat
  BY FS_Subset, FS_CardinalityType
<1>2. 0 \in P
  <2>1. ASSUME NEW U \in SUBSET T, Cardinality(U) <= 0 PROVE U = {}
    BY <1>1, <2>1, FS_EmptySet
  <2> QED
    BY <2>1 DEF Agree
<1>3. ASSUME NEW n \in P PROVE n + 1 \in P
  <2>1. ASSUME NEW U \in SUBSET T, Cardinality(U) <= n + 1, U # {} PROVE g[U] = h[U]
    <3>1. c[U] \in U
      BY <2>1 DEF Picks
    <3>2. Cardinality(U \ {c[U]}) <= n
      BY <1>1, <1>3, <2>1, <3>1, OneLess
    <3>3. g[U \ {c[U]}] = h[U \ {c[U]}]
      BY <1>3, <3>2
    <3> QED
      BY <2>1, <3>3 DEF Agree
  <2>2. g[{}] = h[{}]
    BY DEF Agree
  <2>3. \A U \in SUBSET T : Cardinality(U) <= n + 1 => g[U] = h[U]
    BY <2>1, <2>2
  <2> QED
    BY <1>3, <2>3
<1>4. P = Nat
  <2> HIDE DEF P
  <2>1. P \in SUBSET Nat
    BY DEF P
  <2> QED
    BY <1>2, <1>3, <2>1, Induction
<1> QED
  BY <1>1, <1>4

-----------------------------------------------------------------------------
(* The sum of the values of f over a set: the recursion of the community   *)
(* module, with the names of its parts.                                    *)
Some(S) == CHOOSE x \in S : TRUE

Body(f, it, S) == IF S = {} THEN 0 ELSE f[Some(S)] + it[S \ {Some(S)}]

Iterates(f, S, it) == it = [T \in SUBSET S |-> Body(f, it, T)]

Iter(f, S) == CHOOSE it : Iterates(f, S, it)

LEMMA SumIsIter ==
  ASSUME NEW f, NEW S
  PROVE  SumFunctionOnSet(f, S) = Iter(f, S)[S]
  BY DEF SumFunctionOnSet, FoldFunctionOnSet, MapThenFoldSet, Iter, Iterates, Body, Some

LEMMA SomeIsIn ==
  ASSUME NEW S, S # {}
  PROVE  Some(S) \in S
  BY DEF Some

LEMMA IterExists ==
  ASSUME NEW S, IsFiniteSet(S), NEW f, \A x \in S : f[x] \in Nat
  PROVE  Iterates(f, S, Iter(f, S))
<1> DEFINE c == [T \in SUBSET S |-> Some(T)]
           G == [p \in (SUBSET S) \X Int |-> IF p[1] = {} THEN 0 ELSE f[c[p[1]]] + p[2]]
<1>1. ASSUME NEW T \in SUBSET S, T # {} PROVE c[T] = Some(T) /\ c[T] \in T
  BY <1>1, SomeIsIn
<1>2. G \in [(SUBSET S) \X Int -> Int]
  <2>1. ASSUME NEW p \in (SUBSET S) \X Int
        PROVE  (IF p[1] = {} THEN 0 ELSE f[c[p[1]]] + p[2]) \in Int
    <3>1. p[1] \in SUBSET S /\ p[2] \in Int
      OBVIOUS
    <3>2. p[1] # {} => f[c[p[1]]] \in Nat
      BY <1>1, <3>1
    <3> HIDE DEF c
    <3> QED
      BY <3>1, <3>2
  <2> HIDE DEF c
  <2> QED
    BY <2>1
<1>3. \A T \in SUBSET S, v \in Int : T # {} => G[<<T, v>>] = f[c[T]] + v
  OBVIOUS
<1> HIDE DEF c, G
<1>0. Picks(c, S) /\ 0 \in Int
  BY <1>1 DEF Picks
<1>4. PICK it \in [SUBSET S -> Int] : IsFold(it, S, c, 0, G)
  BY <1>0, <1>2, RecursionExists
<1>5. ASSUME NEW T \in SUBSET S PROVE it[T] = Body(f, it, T)
  <2>1. it[T \ {c[T]}] \in Int
    OBVIOUS
  <2> QED
    BY <1>1, <1>3, <1>4, <2>1 DEF Body, IsFold
<1>6. Iterates(f, S, it)
  BY <1>5 DEF Iterates
<1>7. \E g : Iterates(f, S, g)
  BY <1>6
<1> QED
  BY <1>7, Zenon DEF Iter

(* Its values do not depend on the set whose subsets it ranges over.       *)
LEMMA IterUnique ==
  ASSUME NEW S, IsFiniteSet(S), NEW f, \A x \in S : f[x] \in Nat, NEW T \in SUBSET S
  PROVE  Iter(f, S)[T] = Iter(f, T)[T]
<1> DEFINE g == Iter(f, S)
           h == Iter(f, T)
           c == [U \in SUBSET T |-> Some(U)]
<1>1. IsFiniteSet(T) /\ \A x \in T : f[x] \in Nat
  BY FS_Subset
<1>2. Iterates(f, S, g) /\ Iterates(f, T, h)
  BY <1>1, IterExists
<1> HIDE DEF g, h
<1>3. ASSUME NEW U \in SUBSET T PROVE g[U] = Body(f, g, U) /\ h[U] = Body(f, h, U)
  <2>1. U \in SUBSET S
    OBVIOUS
  <2> QED
    BY <1>2, <2>1 DEF Iterates
<1>4. ASSUME NEW U \in SUBSET T, U # {} PROVE c[U] = Some(U) /\ c[U] \in U
  BY <1>4, SomeIsIn
<1> HIDE DEF c
<1>5. g[{}] = h[{}]
  BY <1>3 DEF Body
<1>6. ASSUME NEW U \in SUBSET T, U # {}, g[U \ {c[U]}] = h[U \ {c[U]}] PROVE g[U] = h[U]
  BY <1>3, <1>4, <1>6 DEF Body
<1>7. Picks(c, T) /\ Agree(g, h, T, c)
  BY <1>4, <1>5, <1>6 DEF Picks, Agree
<1>8. g[T] = h[T]
  BY <1>1, <1>7, RecursionUnique
<1> QED
  BY <1>8 DEF g, h

-----------------------------------------------------------------------------
LEMMA SumEmpty ==
  ASSUME NEW f
  PROVE  SumFunctionOnSet(f, {}) = 0
<1>1. Iterates(f, {}, Iter(f, {}))
  BY IterExists, FS_EmptySet
<1>2. Iter(f, {})[{}] = Body(f, Iter(f, {}), {})
  BY <1>1 DEF Iterates
<1> QED
  BY <1>2, SumIsIter DEF Body

(* The sum takes one element out and adds what is left.                    *)
LEMMA SumSome ==
  ASSUME NEW S, IsFiniteSet(S), S # {}, NEW f, \A x \in S : f[x] \in Nat
  PROVE  \E x \in S : SumFunctionOnSet(f, S) = f[x] + SumFunctionOnSet(f, S \ {x})
<1> DEFINE x == Some(S)
<1>1. x \in S
  BY SomeIsIn
<1>2. Iter(f, S)[S] = f[x] + Iter(f, S)[S \ {x}]
  <2>1. Iterates(f, S, Iter(f, S))
    BY IterExists
  <2>2. Iter(f, S)[S] = Body(f, Iter(f, S), S)
    BY <2>1 DEF Iterates
  <2> QED
    BY <2>2 DEF Body
<1>3. Iter(f, S)[S \ {x}] = Iter(f, S \ {x})[S \ {x}]
  BY IterUnique
<1> HIDE DEF x
<1> QED
  BY <1>1, <1>2, <1>3, SumIsIter

LEMMA SumType ==
  ASSUME NEW S, IsFiniteSet(S), NEW f, \A x \in S : f[x] \in Nat
  PROVE  SumFunctionOnSet(f, S) \in Nat
<1> DEFINE P == {n \in Nat : \A T \in SUBSET S :
                    Cardinality(T) = n => SumFunctionOnSet(f, T) \in Nat}
<1>1. ASSUME NEW T \in SUBSET S PROVE IsFiniteSet(T) /\ Cardinality(T) \in Nat
  BY FS_Subset, FS_CardinalityType
<1>2. ASSUME NEW T \in SUBSET S, Cardinality(T) = 0
      PROVE  SumFunctionOnSet(f, T) \in Nat
  BY <1>1, <1>2, FS_EmptySet, SumEmpty
<1>3. ASSUME NEW n \in P PROVE n + 1 \in P
  <2>1. ASSUME NEW T \in SUBSET S, Cardinality(T) = n + 1
        PROVE  SumFunctionOnSet(f, T) \in Nat
    <3>1. T # {}
      BY <1>3, <2>1, FS_EmptySet
    <3>2. PICK x \in T : SumFunctionOnSet(f, T) = f[x] + SumFunctionOnSet(f, T \ {x})
      BY <1>1, <3>1, SumSome
    <3>3. Cardinality(T \ {x}) = n
      BY <1>1, <1>3, <2>1, OneLess
    <3>4. T \ {x} \in SUBSET S /\ f[x] \in Nat
      OBVIOUS
    <3>5. SumFunctionOnSet(f, T \ {x}) \in Nat
      BY <1>3, <3>3, <3>4
    <3> QED
      BY <3>2, <3>4, <3>5
  <2> QED
    BY <1>3, <2>1
<1>4. P = Nat
  <2>1. 0 \in P
    BY <1>2
  <2> HIDE DEF P
  <2>2. P \in SUBSET Nat
    BY DEF P
  <2> QED
    BY <1>3, <2>1, <2>2, Induction
<1>5. Cardinality(S) \in P
  BY <1>1, <1>4
<1> QED
  BY <1>5

(* Whichever element is taken out, the sum is that and what is left.       *)
LEMMA SumRemove ==
  ASSUME NEW S, IsFiniteSet(S), NEW f, \A x \in S : f[x] \in Nat, NEW y \in S
  PROVE  SumFunctionOnSet(f, S) = f[y] + SumFunctionOnSet(f, S \ {y})
<1> DEFINE Sum(T) == SumFunctionOnSet(f, T)
           P == {n \in Nat : \A T \in SUBSET S : Cardinality(T) = n =>
                    \A x \in T : Sum(T) = f[x] + Sum(T \ {x})}
<1>1. ASSUME NEW T \in SUBSET S PROVE IsFiniteSet(T) /\ Cardinality(T) \in Nat
  BY FS_Subset, FS_CardinalityType
<1>2. ASSUME NEW T \in SUBSET S PROVE Sum(T) \in Nat
  BY <1>1, SumType
<1>3. ASSUME NEW T \in SUBSET S, T # {}
      PROVE  \E x \in T : Sum(T) = f[x] + Sum(T \ {x})
  BY <1>1, <1>3, SumSome
<1> HIDE DEF Sum
<1>4. 0 \in P
  BY <1>1, FS_EmptySet
<1>5. ASSUME NEW n \in P PROVE n + 1 \in P
  <2>1. ASSUME NEW T \in SUBSET S, Cardinality(T) = n + 1, NEW x \in T
        PROVE  Sum(T) = f[x] + Sum(T \ {x})
    <3>1. PICK z \in T : Sum(T) = f[z] + Sum(T \ {z})
      BY <1>3
    <3>2. CASE z = x
      BY <3>1, <3>2
    <3>3. CASE z # x
      <4> DEFINE R == (T \ {x}) \ {z}
      <4>1. Cardinality(T \ {x}) = n /\ Cardinality(T \ {z}) = n
        BY <1>1, <1>5, <2>1, OneLess
      <4>2. Sum(T \ {x}) = f[z] + Sum(R)
        <5>1. T \ {x} \in SUBSET S /\ z \in T \ {x}
          BY <3>3
        <5> QED
          BY <1>5, <4>1, <5>1
      <4>3. Sum(T \ {z}) = f[x] + Sum(R)
        <5>1. T \ {z} \in SUBSET S /\ x \in T \ {z} /\ R = (T \ {z}) \ {x}
          BY <3>3
        <5> HIDE DEF R
        <5> QED
          BY <1>5, <4>1, <5>1
      <4>4. R \in SUBSET S
        OBVIOUS
      <4> HIDE DEF R
      <4>5. f[x] \in Nat /\ f[z] \in Nat /\ Sum(R) \in Nat
        BY <1>2, <4>4
      <4> QED
        BY <3>1, <4>2, <4>3, <4>5
    <3> QED
      BY <3>2, <3>3
  <2> QED
    BY <1>5, <2>1
<1>6. P = Nat
  <2> HIDE DEF P
  <2>1. P \in SUBSET Nat
    BY DEF P
  <2> QED
    BY <1>4, <1>5, <2>1, Induction
<1>7. Cardinality(S) \in P
  BY <1>1, <1>6
<1>8. Sum(S) = f[y] + Sum(S \ {y})
  BY <1>7
<1> QED
  BY <1>8 DEF Sum

LEMMA SumAdd ==
  ASSUME NEW S, IsFiniteSet(S), NEW y, y \notin S, NEW f,
         \A x \in S \cup {y} : f[x] \in Nat
  PROVE  SumFunctionOnSet(f, S \cup {y}) = f[y] + SumFunctionOnSet(f, S)
<1>1. IsFiniteSet(S \cup {y}) /\ (S \cup {y}) \ {y} = S
  BY FS_AddElement
<1>2. \A T : IsFiniteSet(T) /\ (\A x \in T : f[x] \in Nat) /\ y \in T =>
         SumFunctionOnSet(f, T) = f[y] + SumFunctionOnSet(f, T \ {y})
  BY SumRemove
<1> QED
  BY <1>1, <1>2

-----------------------------------------------------------------------------
(* A family of subsets of S with {} and, with each T, every T and one more *)
(* element of S, contains S.                                               *)
LEMMA SetInduction ==
  ASSUME NEW S, IsFiniteSet(S), NEW F \in SUBSET SUBSET S, {} \in F,
         \A T \in F : \A x \in S \ T : T \cup {x} \in F
  PROVE  S \in F
<1> DEFINE P == {n \in Nat : \A T \in SUBSET S : Cardinality(T) = n => T \in F}
<1>1. ASSUME NEW T \in SUBSET S PROVE IsFiniteSet(T) /\ Cardinality(T) \in Nat
  BY FS_Subset, FS_CardinalityType
<1>2. 0 \in P
  BY <1>1, FS_EmptySet
<1>3. ASSUME NEW n \in P PROVE n + 1 \in P
  <2>1. ASSUME NEW T \in SUBSET S, Cardinality(T) = n + 1 PROVE T \in F
    <3>1. T # {}
      <4>1. n + 1 # 0 /\ Cardinality({}) = 0
        BY FS_EmptySet
      <4> QED
        BY <2>1, <4>1
    <3>2. PICK x \in T : TRUE
      BY <3>1
    <3>3. Cardinality(T \ {x}) = n
      BY <1>1, <1>3, <2>1, OneLess
    <3>4. T \ {x} \in F
      BY <1>3, <3>3
    <3>5. x \in S \ (T \ {x}) /\ (T \ {x}) \cup {x} = T
      BY <3>2
    <3> QED
      BY <3>4, <3>5
  <2> QED
    BY <1>3, <2>1
<1>4. P = Nat
  <2> HIDE DEF P
  <2>1. P \in SUBSET Nat
    BY DEF P
  <2> QED
    BY <1>2, <1>3, <2>1, Induction
<1>5. Cardinality(S) \in P
  BY <1>1, <1>4
<1> QED
  BY <1>5

LEMMA FiniteMax ==
  ASSUME NEW S \in SUBSET Nat, IsFiniteSet(S), S # {}
  PROVE  \E m \in S : \A n \in S : n <= m
<1> DEFINE F == {T \in SUBSET S : T = {} \/ \E m \in T : \A n \in T : n <= m}
<1>1. {} \in F
  OBVIOUS
<1>2. ASSUME NEW T \in F, NEW x \in S \ T PROVE T \cup {x} \in F
  <2>1. CASE T = {}
    BY <2>1
  <2>2. CASE T # {}
    <3>1. PICK m \in T : \A n \in T : n <= m
      BY <2>2
    <3>2. CASE x <= m
      BY <3>1, <3>2
    <3>3. CASE ~(x <= m)
      BY <3>1, <3>3
    <3> QED
      BY <3>2, <3>3
  <2> QED
    BY <2>1, <2>2
<1> HIDE DEF F
<1>3. F \in SUBSET SUBSET S
  BY DEF F
<1>4. S \in F
  BY <1>1, <1>2, <1>3, SetInduction
<1> QED
  BY <1>4 DEF F

(* Functions that agree on a set have the same sum over it.                *)
LEMMA SumSame ==
  ASSUME NEW S, IsFiniteSet(S), NEW f, NEW g,
         \A x \in S : f[x] \in Nat /\ g[x] = f[x]
  PROVE  SumFunctionOnSet(g, S) = SumFunctionOnSet(f, S)
<1> DEFINE F == {T \in SUBSET S : SumFunctionOnSet(g, T) = SumFunctionOnSet(f, T)}
<1>1. {} \in F
  BY SumEmpty
<1>2. ASSUME NEW T \in F, NEW x \in S \ T PROVE T \cup {x} \in F
  <2>1. IsFiniteSet(T) /\ T \in SUBSET S
    BY FS_Subset
  <2>2. /\ SumFunctionOnSet(f, T \cup {x}) = f[x] + SumFunctionOnSet(f, T)
        /\ SumFunctionOnSet(g, T \cup {x}) = g[x] + SumFunctionOnSet(g, T)
    BY <2>1, SumAdd
  <2> QED
    BY <2>1, <2>2
<1> HIDE DEF F
<1>3. F \in SUBSET SUBSET S
  BY DEF F
<1>4. S \in F
  BY <1>1, <1>2, <1>3, SetInduction
<1> QED
  BY <1>4 DEF F

(* A part of what is summed is at most the whole.                          *)
LEMMA SumPart ==
  ASSUME NEW S, IsFiniteSet(S), NEW f, \A x \in S : f[x] \in Nat, NEW R \in SUBSET S
  PROVE  SumFunctionOnSet(f, R) <= SumFunctionOnSet(f, S)
<1> DEFINE Sum(T) == SumFunctionOnSet(f, T)
           F == {T \in SUBSET (S \ R) : Sum(R) <= Sum(R \cup T)}
<1>1. ASSUME NEW T \in SUBSET S PROVE IsFiniteSet(T) /\ Sum(T) \in Nat
  <2>1. IsFiniteSet(T)
    BY FS_Subset
  <2> QED
    BY <2>1, SumType
<1>2. ASSUME NEW T \in SUBSET S, NEW x \in S \ T PROVE Sum(T \cup {x}) = f[x] + Sum(T)
  BY <1>1, SumAdd
<1> HIDE DEF Sum
<1>3. {} \in F
  <2>1. R \cup {} = R
    OBVIOUS
  <2> QED
    BY <1>1, <2>1
<1>4. ASSUME NEW T \in F, NEW x \in (S \ R) \ T PROVE T \cup {x} \in F
  <2>1. R \cup (T \cup {x}) = (R \cup T) \cup {x} /\ R \cup T \in SUBSET S
    OBVIOUS
  <2>2. Sum((R \cup T) \cup {x}) = f[x] + Sum(R \cup T)
    BY <1>2, <2>1
  <2>3. /\ Sum(R) \in Nat /\ Sum(R \cup T) \in Nat /\ f[x] \in Nat
        /\ Sum(R) <= Sum(R \cup T)
    BY <1>1, <2>1
  <2>4. Sum(R) <= f[x] + Sum(R \cup T)
    BY <2>3
  <2> QED
    BY <2>1, <2>2, <2>4
<1> HIDE DEF F
<1>5. IsFiniteSet(S \ R) /\ F \in SUBSET SUBSET (S \ R)
  BY FS_Subset DEF F
<1>6. S \ R \in F
  BY <1>3, <1>4, <1>5, SetInduction
<1>7. R \cup (S \ R) = S
  OBVIOUS
<1> QED
  BY <1>6, <1>7 DEF F, Sum

(* A sum is at most as many times the largest value as it has values.      *)
LEMMA SumBound ==
  ASSUME NEW S, IsFiniteSet(S), NEW b \in Nat, NEW f,
         \A x \in S : f[x] \in Nat /\ f[x] <= b
  PROVE  SumFunctionOnSet(f, S) <= Cardinality(S) * b
<1> DEFINE F == {T \in SUBSET S : SumFunctionOnSet(f, T) <= Cardinality(T) * b}
<1>1. {} \in F
  BY SumEmpty, FS_EmptySet
<1>2. ASSUME NEW T \in F, NEW x \in S \ T PROVE T \cup {x} \in F
  <2>1. IsFiniteSet(T) /\ Cardinality(T) \in Nat /\ T \in SUBSET S
    BY FS_Subset, FS_CardinalityType
  <2>2. /\ SumFunctionOnSet(f, T \cup {x}) = f[x] + SumFunctionOnSet(f, T)
        /\ SumFunctionOnSet(f, T) \in Nat
    BY <2>1, SumAdd, SumType
  <2>3. Cardinality(T \cup {x}) = Cardinality(T) + 1
    BY <2>1, FS_AddElement
  <2>4. (Cardinality(T) + 1) * b = Cardinality(T) * b + b
    BY <2>1
  <2>5. /\ Cardinality(T) * b \in Nat /\ f[x] \in Nat /\ f[x] <= b
        /\ SumFunctionOnSet(f, T) <= Cardinality(T) * b
    BY <2>1
  <2>6. f[x] + SumFunctionOnSet(f, T) <= Cardinality(T) * b + b
    BY <2>2, <2>5
  <2> QED
    BY <2>2, <2>3, <2>4, <2>6
<1> HIDE DEF F
<1>3. F \in SUBSET SUBSET S
  BY DEF F
<1>4. S \in F
  BY <1>1, <1>2, <1>3, SetInduction
<1> QED
  BY <1>4 DEF F
=============================================================================
