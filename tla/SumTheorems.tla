---------------------------- MODULE SumTheorems ----------------------------
(***************************************************************************)
(* Induction over the natural numbers and what follows from it about sums  *)
(* of functions over finite sets (SumFunctionOnSet of the module Functions).*)
(* Induction is stated with sets and functions in the place of predicates  *)
(* and operators: what holds for every number is a set that is all of Nat. *)
(***************************************************************************)
EXTENDS FiniteSetsExt, FiniteSetTheorems, WellFoundedInduction, TLAPS

(* The recursive function a sum is folded by, on the subsets of S.         *)
Some(S) == CHOOSE x \in S : TRUE
IsFold(fold, f, S) ==
  fold = [T \in SUBSET S |-> IF T = {} THEN 0 ELSE f[Some(T)] + fold[T \ {Some(T)}]]

-----------------------------------------------------------------------------
(* A set of numbers with 0 and the successor of each is all of them.       *)
LEMMA NatInd ==
  ASSUME NEW S \in SUBSET Nat, 0 \in S, \A n \in S : n + 1 \in S
  PROVE  S = Nat
<1> DEFINE T == Nat \ S
<1> SUFFICES ASSUME T # {} PROVE FALSE
  OBVIOUS
<1>1. PICK x \in T : \A y \in T : ~(<<y, x>> \in OpToRel(<, Nat))
  <2>1. T \subseteq Nat /\ T # {}
    OBVIOUS
  <2>2. IsWellFoundedOn(OpToRel(<, Nat), Nat)
    BY NatLessThanWellFounded
  <2> HIDE DEF T
  <2>3. QED
    BY <2>1, <2>2, WFMin
<1>2. x \in Nat /\ x - 1 \in T /\ x - 1 < x
  OBVIOUS
<1>3. <<x - 1, x>> \in OpToRel(<, Nat)
  BY <1>2 DEF OpToRel
<1>4. QED
  BY <1>1, <1>2, <1>3

(* A function defined by recursion exists: r[n + 1] comes from r[n].       *)
IsRecursion(r, V, a, step) ==
  r \in [Nat -> V] /\ r[0] = a /\ \A n \in Nat : r[n + 1] = step[<<r[n], n + 1>>]

(* ... up to m.                                                            *)
Starts(r, m, a, step) ==
  r[0] = a /\ \A n \in 0..(m - 1) : r[n + 1] = step[<<r[n], n + 1>>]

LEMMA StartExists ==
  ASSUME NEW V, NEW a \in V, NEW step \in [V \X Nat -> V]
  PROVE  \A m \in Nat : \E r \in [Nat -> V] : Starts(r, m, a, step)
<1> DEFINE S == {m \in Nat : \E r \in [Nat -> V] : Starts(r, m, a, step)}
<1>1. 0 \in S
  <2>1. Starts([n \in Nat |-> a], 0, a, step)
    BY DEF Starts
  <2>2. QED
    BY <2>1
<1>2. ASSUME NEW m \in S PROVE m + 1 \in S
  <2>1. PICK r \in [Nat -> V] : Starts(r, m, a, step)
    OBVIOUS
  <2> DEFINE q == [r EXCEPT ![m + 1] = step[<<r[m], m + 1>>]]
  <2>2. m \in Nat /\ q \in [Nat -> V] /\ q[m + 1] = step[<<r[m], m + 1>>]
    OBVIOUS
  <2>3. \A n \in Nat : n # m + 1 => q[n] = r[n]
    OBVIOUS
  <2>4. q[0] = a
    BY <2>1, <2>2, <2>3 DEF Starts
  <2>5. ASSUME NEW n \in 0..m PROVE q[n + 1] = step[<<q[n], n + 1>>]
    <3> HIDE DEF q
    <3>1. q[n] = r[n]
      BY <2>2, <2>3
    <3>2. CASE n = m
      BY <2>2, <3>1, <3>2
    <3>3. CASE n # m
      <4>1. n \in 0..(m - 1) /\ n + 1 \in Nat /\ n + 1 # m + 1
        BY <2>2, <3>3
      <4>2. QED
        BY <2>1, <2>3, <3>1, <4>1 DEF Starts
    <3>4. QED
      BY <3>2, <3>3
  <2>6. Starts(q, m + 1, a, step)
    <3> HIDE DEF q
    <3>1. (m + 1) - 1 = m
      BY <2>2
    <3>2. QED
      BY <2>4, <2>5, <3>1 DEF Starts
  <2>7. m + 1 \in Nat /\ \E p \in [Nat -> V] : Starts(p, m + 1, a, step)
    <3> HIDE DEF q
    <3>1. QED
      BY <2>2, <2>6
  <2>8. QED
    BY <2>7
<1>3. S = Nat
  <2> HIDE DEF S
  <2>1. S \in SUBSET Nat
    BY DEF S
  <2>2. QED
    BY <1>1, <1>2, <2>1, NatInd
<1>4. QED
  BY <1>3

LEMMA NatRec ==
  ASSUME NEW V, NEW a \in V, NEW step \in [V \X Nat -> V]
  PROVE  \E r : IsRecursion(r, V, a, step)
<1> DEFINE start == [m \in Nat |-> CHOOSE r \in [Nat -> V] : Starts(r, m, a, step)]
<1> DEFINE r == [n \in Nat |-> start[n][n]]
<1>1. \A m \in Nat : start[m] \in [Nat -> V] /\ Starts(start[m], m, a, step)
  BY StartExists
<1> HIDE DEF start
<1>2. ASSUME NEW m \in Nat PROVE \A n \in 0..m : start[m][n] = start[m + 1][n]
  <2> DEFINE S == {n \in Nat : n <= m => start[m][n] = start[m + 1][n]}
  <2>1. 0 \in S
    BY <1>1 DEF Starts
  <2>2. ASSUME NEW n \in S PROVE n + 1 \in S
    <3>1. SUFFICES ASSUME n + 1 <= m PROVE start[m][n + 1] = start[m + 1][n + 1]
      OBVIOUS
    <3>2. n \in Nat /\ n \in 0..(m - 1) /\ n \in 0..((m + 1) - 1)
      BY <3>1
    <3>3. start[m][n] = start[m + 1][n]
      BY <3>1, <3>2
    <3>4. /\ start[m][n + 1] = step[<<start[m][n], n + 1>>]
          /\ start[m + 1][n + 1] = step[<<start[m + 1][n], n + 1>>]
      BY <1>1, <3>2 DEF Starts
    <3>5. QED
      BY <3>3, <3>4
  <2>3. S = Nat
    <3> HIDE DEF S
    <3>1. S \in SUBSET Nat
      BY DEF S
    <3>2. QED
      BY <2>1, <2>2, <3>1, NatInd
  <2>4. QED
    BY <2>3
<1>3. r \in [Nat -> V]
  BY <1>1
<1>4. r[0] = a
  BY <1>1 DEF Starts
<1>5. ASSUME NEW n \in Nat PROVE r[n + 1] = step[<<r[n], n + 1>>]
  <2>1. n \in 0..((n + 1) - 1) /\ n \in 0..n /\ n + 1 \in Nat
    OBVIOUS
  <2>2. start[n + 1][n + 1] = step[<<start[n + 1][n], n + 1>>]
    BY <1>1, <2>1 DEF Starts
  <2>3. start[n][n] = start[n + 1][n]
    BY <1>2, <2>1
  <2>4. QED
    BY <2>1, <2>2, <2>3
<1>6. IsRecursion(r, V, a, step)
  BY <1>3, <1>4, <1>5 DEF IsRecursion
<1>7. QED
  BY <1>6

-----------------------------------------------------------------------------
(* Finite sets.                                                            *)

LEMMA CardinalityType ==
  ASSUME NEW S, IsFiniteSet(S), NEW T \in SUBSET S
  PROVE  /\ IsFiniteSet(T) /\ Cardinality(T) \in Nat
         /\ Cardinality(T) = 0 <=> T = {}
BY FS_Subset, FS_CardinalityType, FS_EmptySet

LEMMA CardinalityRemove ==
  ASSUME NEW S, IsFiniteSet(S), NEW T \in SUBSET S, NEW x \in T
  PROVE  /\ T \ {x} \in SUBSET S
         /\ Cardinality(T) = Cardinality(T \ {x}) + 1
<1>1. IsFiniteSet(T) /\ Cardinality(T) \in Nat
  BY CardinalityType
<1>2. Cardinality(T \ {x}) = Cardinality(T) - 1
  BY <1>1, FS_RemoveElement
<1>3. QED
  BY <1>1, <1>2

(* What holds of the empty set and of a set with one element more is true  *)
(* of every finite set.                                                    *)
LEMMA SubsetInd ==
  ASSUME NEW S, IsFiniteSet(S), NEW P \in SUBSET (SUBSET S), {} \in P,
         \A T \in P : \A x \in S \ T : T \cup {x} \in P
  PROVE  S \in P
<1> DEFINE N == {n \in Nat : \A T \in SUBSET S : Cardinality(T) = n => T \in P}
<1>1. 0 \in N
  BY CardinalityType
<1>2. ASSUME NEW n \in N PROVE n + 1 \in N
  <2> SUFFICES ASSUME NEW T \in SUBSET S, Cardinality(T) = n + 1 PROVE T \in P
    OBVIOUS
  <2>1. n \in Nat
    OBVIOUS
  <2>2. PICK x \in T : TRUE
    BY <2>1, CardinalityType
  <2>3. T \ {x} \in SUBSET S /\ Cardinality(T) = Cardinality(T \ {x}) + 1
    BY CardinalityRemove
  <2>4. Cardinality(T \ {x}) \in Nat
    BY <2>3, CardinalityType
  <2>5. Cardinality(T \ {x}) = n
    BY <2>1, <2>3, <2>4
  <2>6. T \ {x} \in P
    BY <2>3, <2>5
  <2>7. (T \ {x}) \cup {x} = T /\ x \in S \ (T \ {x})
    BY <2>2
  <2>8. QED
    BY <2>6, <2>7
<1>3. N = Nat
  <2> HIDE DEF N
  <2>1. N \in SUBSET Nat
    BY DEF N
  <2>2. QED
    BY <1>1, <1>2, <2>1, NatInd
<1>4. QED
  BY <1>3, CardinalityType

-----------------------------------------------------------------------------
(* The fold exists: on sets of n elements it is the n-th of a sequence of  *)
(* functions.                                                              *)
LEMMA FoldExists ==
  ASSUME NEW S, IsFiniteSet(S), NEW f, \A x \in S : f[x] \in Int
  PROVE  \E fold \in [SUBSET S -> Int] : IsFold(fold, f, S)
<1> DEFINE V == [SUBSET S -> Int]
<1> DEFINE Step(g) ==
      [T \in SUBSET S |-> IF T = {} THEN 0 ELSE f[Some(T)] + g[T \ {Some(T)}]]
<1> DEFINE step == [p \in V \X Nat |-> Step(p[1])]
<1>1. \A T \in SUBSET S : T # {} => Some(T) \in T /\ f[Some(T)] \in Int
  BY DEF Some
<1> DEFINE zero == [T \in SUBSET S |-> 0]
<1>2. zero \in V
  OBVIOUS
<1>3. \A g \in V : Step(g) \in V
  BY <1>1
<1>4. step \in [V \X Nat -> V]
  <2> HIDE DEF V, Step
  <2>1. QED
    BY <1>3
<1>5. PICK r : IsRecursion(r, V, zero, step)
  <2> HIDE DEF V, zero, step
  <2>1. QED
    BY <1>2, <1>4, NatRec
<1>6. \A n \in Nat : r[n] \in V /\ r[n + 1] = Step(r[n])
  <2> HIDE DEF V, Step
  <2>1. \A n \in Nat : r[n] \in V /\ <<r[n], n + 1>> \in V \X Nat
    BY <1>5 DEF IsRecursion
  <2>2. QED
    BY <1>5, <2>1 DEF IsRecursion
<1> DEFINE fold == [T \in SUBSET S |-> r[Cardinality(T)][T]]
<1>7. fold \in [SUBSET S -> Int]
  BY <1>6, CardinalityType
<1>8. ASSUME NEW T \in SUBSET S
      PROVE  fold[T] = IF T = {} THEN 0 ELSE f[Some(T)] + fold[T \ {Some(T)}]
  <2>1. CASE T = {}
    <3>1. Cardinality(T) = 0
      BY <2>1, CardinalityType
    <3>2. fold[T] = 0
      BY <1>5, <3>1 DEF IsRecursion
    <3>3. QED
      BY <2>1, <3>2
  <2>2. CASE T # {}
    <3> DEFINE x == Some(T)
    <3>1. x \in T
      BY <1>1, <2>2
    <3> HIDE DEF x
    <3>2. T \ {x} \in SUBSET S /\ Cardinality(T) = Cardinality(T \ {x}) + 1
      BY <3>1, CardinalityRemove
    <3>3. Cardinality(T \ {x}) \in Nat
      BY <3>2, CardinalityType
    <3>4. /\ fold[T] = r[Cardinality(T \ {x}) + 1][T]
          /\ fold[T \ {x}] = r[Cardinality(T \ {x})][T \ {x}]
      BY <3>2
    <3>5. r[Cardinality(T \ {x}) + 1] = Step(r[Cardinality(T \ {x})])
      BY <1>6, <3>3
    <3>6. fold[T] = f[x] + fold[T \ {x}]
      BY <2>2, <3>4, <3>5 DEF x
    <3>7. QED
      BY <2>2, <3>6 DEF x
  <2>3. QED
    BY <2>1, <2>2
<1>9. IsFold(fold, f, S)
  <2>1. fold = [T \in SUBSET S |-> fold[T]]
    OBVIOUS
  <2> HIDE DEF fold
  <2>2. QED
    BY <1>8, <2>1 DEF IsFold
<1>10. QED
  BY <1>7, <1>9

(* The fold over a set does not depend on the larger set it is part of.    *)
LEMMA FoldUnique ==
  ASSUME NEW S, IsFiniteSet(S), NEW f, NEW T \in SUBSET S,
         NEW g, IsFold(g, f, S), NEW h, IsFold(h, f, T)
  PROVE  g[T] = h[T]
<1> DEFINE N == {n \in Nat : \A U \in SUBSET T : Cardinality(U) = n => g[U] = h[U]}
<1>1. 0 \in N
  <2> SUFFICES ASSUME NEW U \in SUBSET T, Cardinality(U) = 0 PROVE g[U] = h[U]
    OBVIOUS
  <2>1. U = {} /\ U \in SUBSET S
    BY CardinalityType
  <2>2. QED
    BY <2>1 DEF IsFold
<1>2. ASSUME NEW n \in N PROVE n + 1 \in N
  <2> SUFFICES ASSUME NEW U \in SUBSET T, Cardinality(U) = n + 1 PROVE g[U] = h[U]
    OBVIOUS
  <2> DEFINE x == Some(U)
  <2>1. n \in Nat /\ U \in SUBSET S
    OBVIOUS
  <2>2. U # {}
    BY <2>1, CardinalityType
  <2>3. x \in U
    BY <2>2 DEF Some
  <2> HIDE DEF x
  <2>4. Cardinality(U) = Cardinality(U \ {x}) + 1 /\ Cardinality(U \ {x}) \in Nat
    BY <2>1, <2>3, CardinalityRemove, CardinalityType
  <2>5. Cardinality(U \ {x}) = n
    BY <2>1, <2>4
  <2>6. g[U \ {x}] = h[U \ {x}]
    BY <2>5
  <2>7. /\ g[U] = f[x] + g[U \ {x}]
        /\ h[U] = f[x] + h[U \ {x}]
    BY <2>1, <2>2 DEF IsFold, x
  <2>8. QED
    BY <2>6, <2>7
<1>3. N = Nat
  <2> HIDE DEF N
  <2>1. N \in SUBSET Nat
    BY DEF N
  <2>2. QED
    BY <1>1, <1>2, <2>1, NatInd
<1>4. Cardinality(T) \in Nat
  BY CardinalityType
<1>5. QED
  BY <1>3, <1>4

(* fold gives the sums of f over all subsets of S.                         *)
IsSums(fold, f, S) ==
  /\ fold \in [SUBSET S -> Int] /\ IsFold(fold, f, S)
  /\ \A T \in SUBSET S : SumFunctionOnSet(f, T) = fold[T]

LEMMA SumFold ==
  ASSUME NEW S, IsFiniteSet(S), NEW f, \A x \in S : f[x] \in Int
  PROVE  \E fold : IsSums(fold, f, S)
<1>1. PICK fold \in [SUBSET S -> Int] : IsFold(fold, f, S)
  BY FoldExists
<1>2. ASSUME NEW T \in SUBSET S PROVE SumFunctionOnSet(f, T) = fold[T]
  <2> DEFINE g == CHOOSE g : IsFold(g, f, T)
  <2>1. SumFunctionOnSet(f, T) = g[T]
    BY DEF SumFunctionOnSet, FoldFunctionOnSet, MapThenFoldSet, IsFold, Some
  <2>2. IsFiniteSet(T) /\ \A x \in T : f[x] \in Int
    BY CardinalityType
  <2>3. \E h : IsFold(h, f, T)
    BY <2>2, FoldExists
  <2>4. IsFold(g, f, T)
    BY <2>3
  <2> HIDE DEF g
  <2>5. fold[T] = g[T]
    BY <1>1, <2>4, FoldUnique
  <2>6. QED
    BY <2>1, <2>5
<1>3. QED
  BY <1>1, <1>2 DEF IsSums

-----------------------------------------------------------------------------
(* Sums.                                                                   *)

LEMMA SumEmpty == ASSUME NEW f PROVE SumFunctionOnSet(f, {}) = 0
<1>1. PICK fold : IsSums(fold, f, {})
  BY SumFold, FS_EmptySet
<1>2. QED
  BY <1>1 DEF IsSums, IsFold

LEMMA SumType ==
  ASSUME NEW S, IsFiniteSet(S), NEW f, \A x \in S : f[x] \in Int
  PROVE  SumFunctionOnSet(f, S) \in Int
<1>1. PICK fold : IsSums(fold, f, S)
  BY SumFold
<1>2. QED
  BY <1>1 DEF IsSums

LEMMA SumSome ==
  ASSUME NEW S, IsFiniteSet(S), S # {}, NEW f, \A x \in S : f[x] \in Int
  PROVE  Some(S) \in S /\ SumFunctionOnSet(f, S) = f[Some(S)] + SumFunctionOnSet(f, S \ {Some(S)})
<1>1. PICK fold : IsSums(fold, f, S)
  BY SumFold
<1>2. Some(S) \in S
  BY DEF Some
<1>3. fold[S] = f[Some(S)] + fold[S \ {Some(S)}]
  BY <1>1 DEF IsSums, IsFold
<1>4. SumFunctionOnSet(f, S) = fold[S] /\ SumFunctionOnSet(f, S \ {Some(S)}) = fold[S \ {Some(S)}]
  BY <1>1 DEF IsSums
<1>5. QED
  BY <1>2, <1>3, <1>4

(* Any element may be taken out first.                                     *)
LEMMA SumRemove ==
  ASSUME NEW S, IsFiniteSet(S), NEW f, \A x \in S : f[x] \in Int, NEW z \in S
  PROVE  SumFunctionOnSet(f, S) = f[z] + SumFunctionOnSet(f, S \ {z})
<1> DEFINE N == {n \in Nat : \A T \in SUBSET S : Cardinality(T) = n =>
       \A x \in T : SumFunctionOnSet(f, T) = f[x] + SumFunctionOnSet(f, T \ {x})}
<1>0. \A T \in SUBSET S : /\ IsFiniteSet(T) /\ \A x \in T : f[x] \in Int
                          /\ SumFunctionOnSet(f, T) \in Int
  BY CardinalityType, SumType
<1>1. 0 \in N
  BY CardinalityType
<1>2. ASSUME NEW n \in N PROVE n + 1 \in N
  <2> SUFFICES ASSUME NEW T \in SUBSET S, Cardinality(T) = n + 1, NEW x \in T
               PROVE  SumFunctionOnSet(f, T) = f[x] + SumFunctionOnSet(f, T \ {x})
    OBVIOUS
  <2> DEFINE y == Some(T)
  <2>1. y \in T /\ SumFunctionOnSet(f, T) = f[y] + SumFunctionOnSet(f, T \ {y})
    BY <1>0, SumSome
  <2> HIDE DEF y
  <2>2. CASE x = y
    BY <2>1, <2>2
  <2>3. CASE x # y
    <3>1. /\ T \ {x} \in SUBSET S /\ T \ {y} \in SUBSET S /\ (T \ {y}) \ {x} \in SUBSET S
          /\ x \in T \ {y} /\ y \in T \ {x}
          /\ (T \ {y}) \ {x} = (T \ {x}) \ {y}
      BY <2>1, <2>3
    <3>2. /\ Cardinality(T) = Cardinality(T \ {x}) + 1 /\ Cardinality(T \ {x}) \in Nat
          /\ Cardinality(T) = Cardinality(T \ {y}) + 1 /\ Cardinality(T \ {y}) \in Nat
      BY <2>1, CardinalityRemove, CardinalityType
    <3>3. n \in Nat
      OBVIOUS
    <3>4. Cardinality(T \ {x}) = n /\ Cardinality(T \ {y}) = n
      BY <3>2, <3>3
    <3>5. SumFunctionOnSet(f, T \ {y}) = f[x] + SumFunctionOnSet(f, (T \ {y}) \ {x})
      BY <3>1, <3>4
    <3>6. SumFunctionOnSet(f, T \ {x}) = f[y] + SumFunctionOnSet(f, (T \ {x}) \ {y})
      BY <3>1, <3>4
    <3>7. f[x] \in Int /\ f[y] \in Int /\ SumFunctionOnSet(f, (T \ {y}) \ {x}) \in Int
      BY <1>0, <2>1, <3>1
    <3> DEFINE a == SumFunctionOnSet(f, (T \ {y}) \ {x})
    <3>8. /\ a \in Int
          /\ SumFunctionOnSet(f, T \ {y}) = f[x] + a
          /\ SumFunctionOnSet(f, T \ {x}) = f[y] + a
      BY <3>1, <3>5, <3>6, <3>7
    <3> HIDE DEF a
    <3>9. QED
      BY <2>1, <3>7, <3>8
  <2>4. QED
    BY <2>2, <2>3
<1>3. N = Nat
  <2> HIDE DEF N
  <2>1. N \in SUBSET Nat
    BY DEF N
  <2>2. QED
    BY <1>1, <1>2, <2>1, NatInd
<1>4. Cardinality(S) \in Nat
  BY CardinalityType
<1>5. QED
  BY <1>3, <1>4

LEMMA SumOne == ASSUME NEW f, NEW z, f[z] \in Int PROVE SumFunctionOnSet(f, {z}) = f[z]
<1>1. IsFiniteSet({z}) /\ z \in {z} /\ \A x \in {z} : f[x] \in Int
  BY FS_Singleton
<1>2. SumFunctionOnSet(f, {z}) = f[z] + SumFunctionOnSet(f, {z} \ {z})
  BY <1>1, SumRemove, Zenon
<1>3. {z} \ {z} = {} /\ SumFunctionOnSet(f, {}) = 0
  BY SumEmpty
<1>4. QED
  BY <1>2, <1>3

LEMMA SumAdd ==
  ASSUME NEW S, IsFiniteSet(S), NEW z, z \notin S,
         NEW f, \A x \in S \cup {z} : f[x] \in Int
  PROVE  SumFunctionOnSet(f, S \cup {z}) = SumFunctionOnSet(f, S) + f[z]
<1>1. IsFiniteSet(S \cup {z}) /\ (S \cup {z}) \ {z} = S /\ z \in S \cup {z}
  BY FS_AddElement
<1>2. SumFunctionOnSet(f, S \cup {z}) = f[z] + SumFunctionOnSet(f, (S \cup {z}) \ {z})
  BY <1>1, SumRemove
<1>3. f[z] \in Int /\ SumFunctionOnSet(f, S) \in Int
  BY SumType
<1> DEFINE a == SumFunctionOnSet(f, S)
<1>4. a \in Int /\ SumFunctionOnSet(f, S \cup {z}) = f[z] + a
  BY <1>1, <1>2, <1>3
<1> HIDE DEF a
<1>5. SumFunctionOnSet(f, S \cup {z}) = a + f[z]
  BY <1>3, <1>4
<1>6. QED
  BY <1>5 DEF a

LEMMA SumUnion ==
  ASSUME NEW S, IsFiniteSet(S), NEW T, IsFiniteSet(T), S \cap T = {},
         NEW f, \A x \in S \cup T : f[x] \in Int
  PROVE  SumFunctionOnSet(f, S \cup T) = SumFunctionOnSet(f, S) + SumFunctionOnSet(f, T)
<1> DEFINE P == {U \in SUBSET T :
       SumFunctionOnSet(f, S \cup U) = SumFunctionOnSet(f, S) + SumFunctionOnSet(f, U)}
<1>1. {} \in P
  <2>1. SumFunctionOnSet(f, S) \in Int /\ S \cup {} = S
    BY SumType
  <2>2. SumFunctionOnSet(f, {}) = 0
    BY SumEmpty
  <2>3. QED
    BY <2>1, <2>2
<1>2. ASSUME NEW U \in P, NEW z \in T \ U PROVE U \cup {z} \in P
  <2>1. /\ IsFiniteSet(U) /\ IsFiniteSet(S \cup U) /\ z \notin S \cup U
        /\ S \cup (U \cup {z}) = (S \cup U) \cup {z}
        /\ \A x \in (S \cup U) \cup {z} : f[x] \in Int
    BY CardinalityType, FS_Union
  <2>2. SumFunctionOnSet(f, (S \cup U) \cup {z}) = SumFunctionOnSet(f, S \cup U) + f[z]
    BY <2>1, SumAdd
  <2>3. SumFunctionOnSet(f, U \cup {z}) = SumFunctionOnSet(f, U) + f[z]
    BY <2>1, SumAdd
  <2>4. SumFunctionOnSet(f, S) \in Int /\ SumFunctionOnSet(f, U) \in Int /\ f[z] \in Int
    BY <2>1, SumType
  <2>5. SumFunctionOnSet(f, S \cup U) = SumFunctionOnSet(f, S) + SumFunctionOnSet(f, U)
    OBVIOUS
  <2>6. SumFunctionOnSet(f, S \cup (U \cup {z}))
          = SumFunctionOnSet(f, S) + SumFunctionOnSet(f, U \cup {z})
    <3> DEFINE a == SumFunctionOnSet(f, S)
    <3> DEFINE b == SumFunctionOnSet(f, U)
    <3>1. /\ a \in Int /\ b \in Int /\ f[z] \in Int
          /\ SumFunctionOnSet(f, S \cup (U \cup {z})) = (a + b) + f[z]
          /\ SumFunctionOnSet(f, U \cup {z}) = b + f[z] /\ SumFunctionOnSet(f, S) = a
      BY <2>1, <2>2, <2>3, <2>4, <2>5
    <3> HIDE DEF a, b
    <3>2. QED
      BY <3>1
  <2>7. QED
    BY <2>6
<1>3. T \in P
  <2> HIDE DEF P
  <2>1. P \in SUBSET (SUBSET T)
    BY DEF P
  <2>2. QED
    BY <1>1, <1>2, <2>1, SubsetInd
<1>4. QED
  BY <1>3

LEMMA SumSame ==
  ASSUME NEW S, IsFiniteSet(S), NEW f, NEW g, \A x \in S : f[x] \in Int /\ f[x] = g[x]
  PROVE  SumFunctionOnSet(f, S) = SumFunctionOnSet(g, S)
<1> DEFINE P == {T \in SUBSET S : SumFunctionOnSet(f, T) = SumFunctionOnSet(g, T)}
<1>1. {} \in P
  BY SumEmpty
<1>2. ASSUME NEW T \in P, NEW z \in S \ T PROVE T \cup {z} \in P
  <2>1. IsFiniteSet(T) /\ \A x \in T \cup {z} : f[x] \in Int /\ g[x] \in Int
    BY CardinalityType
  <2>2. /\ SumFunctionOnSet(f, T \cup {z}) = SumFunctionOnSet(f, T) + f[z]
        /\ SumFunctionOnSet(g, T \cup {z}) = SumFunctionOnSet(g, T) + g[z]
    BY <2>1, SumAdd
  <2>3. QED
    BY <2>2
<1>3. S \in P
  <2> HIDE DEF P
  <2>1. P \in SUBSET (SUBSET S)
    BY DEF P
  <2>2. QED
    BY <1>1, <1>2, <2>1, SubsetInd
<1>4. QED
  BY <1>3

LEMMA SumAtMost ==
  ASSUME NEW S, IsFiniteSet(S), NEW m \in Nat, NEW f, \A x \in S : f[x] \in Int /\ f[x] <= m
  PROVE  SumFunctionOnSet(f, S) <= m * Cardinality(S)
<1> DEFINE P == {T \in SUBSET S : SumFunctionOnSet(f, T) <= m * Cardinality(T)}
<1>1. {} \in P
  BY SumEmpty, FS_EmptySet
<1>2. ASSUME NEW T \in P, NEW z \in S \ T PROVE T \cup {z} \in P
  <2>1. /\ IsFiniteSet(T) /\ Cardinality(T) \in Nat /\ \A x \in T \cup {z} : f[x] \in Int
        /\ SumFunctionOnSet(f, T) <= m * Cardinality(T)
    BY CardinalityType
  <2>2. /\ SumFunctionOnSet(f, T \cup {z}) = SumFunctionOnSet(f, T) + f[z]
        /\ SumFunctionOnSet(f, T) \in Int
    BY <2>1, SumAdd, SumType
  <2>3. Cardinality(T \cup {z}) = Cardinality(T) + 1
    BY <2>1, FS_AddElement
  <2>4. f[z] \in Int /\ f[z] <= m
    OBVIOUS
  <2>5. m * (Cardinality(T) + 1) = m * Cardinality(T) + m
    BY <2>1
  <2>6. m * Cardinality(T) \in Int
    BY <2>1
  <2>7. SumFunctionOnSet(f, T) + f[z] <= m * Cardinality(T) + m
    BY <2>1, <2>2, <2>4, <2>6
  <2>8. QED
    BY <2>2, <2>3, <2>5, <2>7
<1>3. S \in P
  <2> HIDE DEF P
  <2>1. P \in SUBSET (SUBSET S)
    BY DEF P
  <2>2. QED
    BY <1>1, <1>2, <2>1, SubsetInd
<1>4. QED
  BY <1>3
=============================================================================
