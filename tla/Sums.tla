-------------------------------- MODULE Sums ---------------------------------
(***************************************************************************)
(* Induction, recursion and sums over finite sets and sequences, for the   *)
(* proofs of the other modules.  MapThenSumSet of the community modules is *)
(* a recursive function that takes the elements of the set in the order of *)
(* CHOOSE; the facts here are the ones that do not depend on that order.   *)
(* Amounts are given as a function from the elements to integers.          *)
(***************************************************************************)
EXTENDS Integers, FiniteSetsExt, FiniteSetTheorems, TLAPS

SumOf(g, S) == MapThenSumSet(LAMBDA x : g[x], S)

First(T) == CHOOSE x \in T : TRUE

(* The equation the recursive function inside MapThenSumSet solves.        *)
IsSumOver(f, g, S) ==
    f = [T \in SUBSET S |->
            IF T = {} THEN 0 ELSE g[First(T)] + f[T \ {First(T)}]]
-----------------------------------------------------------------------------
(* Induction, on sets instead of predicates.                               *)

LEMMA LeastNatural ==
    ASSUME NEW N \in SUBSET Nat, N # {}
    PROVE  \E n \in N : \A m \in N : n <= m
<1> DEFINE R == OpToRel(<, Nat)
<1>1. IsWellFoundedOn(R, Nat)
  BY NatLessThanWellFounded
<1>2. PICK n \in N : \A m \in N : ~(<<m, n>> \in R)
  <2> HIDE DEF R
  <2> QED
    BY <1>1, WFMin
<1>3. \A m \in N : ~(m < n)
  BY <1>2 DEF OpToRel
<1> QED
  BY <1>3

LEMMA NaturalInduction ==
    ASSUME NEW N \in SUBSET Nat, 0 \in N, \A n \in N : n + 1 \in N
    PROVE  N = Nat
<1> SUFFICES ASSUME Nat \ N # {} PROVE FALSE
  OBVIOUS
<1>1. PICK n \in Nat \ N : \A m \in Nat \ N : n <= m
  BY LeastNatural
<1>2. n # 0 /\ n - 1 \in Nat
  OBVIOUS
<1>3. n - 1 \in N
  BY <1>1, <1>2
<1> QED
  BY <1>2, <1>3

LEMMA SubsetInduction ==
    ASSUME NEW S, IsFiniteSet(S), NEW F \in SUBSET SUBSET S,
           \A T \in SUBSET S : (\A U \in SUBSET T : U # T => U \in F) => T \in F
    PROVE  F = SUBSET S
<1> SUFFICES ASSUME (SUBSET S) \ F # {} PROVE FALSE
  OBVIOUS
<1> DEFINE R == StrictSubsetOrdering(S)
           rest == (SUBSET S) \ F
<1>1. IsWellFoundedOn(R, SUBSET S)
  <2>1. IsWellFoundedOn(R, FiniteSubsetsOf(S))
    BY FS_StrictSubsetOrderingWellFounded
  <2> QED
    BY <2>1, FS_FiniteSubsetsOfFinite
<1>2. PICK T \in rest : \A U \in rest : ~(<<U, T>> \in R)
  <2>1. rest \subseteq SUBSET S /\ rest # {}
    OBVIOUS
  <2> HIDE DEF R, rest
  <2> QED
    BY <1>1, <2>1, WFMin
<1>3. ASSUME NEW U \in SUBSET T, U # T PROVE U \in F
  <2>1. <<U, T>> \in R
    BY <1>3 DEF StrictSubsetOrdering
  <2> QED
    BY <1>2, <2>1
<1> QED
  BY <1>3
-----------------------------------------------------------------------------
(* The recursion has a solution, and the value does not depend on it.      *)

LEMMA FirstIn ==
    ASSUME NEW T, T # {}
    PROVE  First(T) \in T
<1>1. \E x \in T : TRUE
  OBVIOUS
<1> QED
  BY <1>1, Zenon DEF First

LEMMA SumExists ==
    ASSUME NEW S, IsFiniteSet(S), NEW g
    PROVE  \E f : IsSumOver(f, g, S)
<1> DEFINE Small(n) == {T \in SUBSET S : Cardinality(T) <= n}
           Solves(f, n) == f = [T \in Small(n) |-> IF T = {} THEN 0 ELSE g[First(T)] + f[T \ {First(T)}]]
           N == {n \in Nat : \E f : Solves(f, n)}
<1>0. \A T \in SUBSET S : IsFiniteSet(T) /\ Cardinality(T) \in Nat
  BY FS_Subset, FS_CardinalityType
<1>r. ASSUME NEW T \in SUBSET S, T # {}
      PROVE  T \ {First(T)} \in SUBSET S /\ Cardinality(T \ {First(T)}) = Cardinality(T) - 1
  <2>1. First(T) \in T
    BY <1>r, FirstIn
  <2> QED
    BY <1>0, <2>1, FS_RemoveElement
<1>1. 0 \in N
  <2> DEFINE f == [T \in Small(0) |-> 0]
  <2>1. \A T \in Small(0) : T = {}
    BY <1>0, FS_EmptySet
  <2>2. Solves(f, 0)
    BY <2>1
  <2> QED
    BY <2>2
<1>2. ASSUME NEW n \in N PROVE n + 1 \in N
  <2>1. PICK f : Solves(f, n)
    OBVIOUS
  <2> DEFINE h == [T \in Small(n + 1) |->
                      IF T \in Small(n) THEN f[T] ELSE g[First(T)] + f[T \ {First(T)}]]
  <2>2. ASSUME NEW T \in Small(n + 1)
        PROVE  h[T] = IF T = {} THEN 0 ELSE g[First(T)] + h[T \ {First(T)}]
    <3>1. CASE T = {}
      <4>1. T \in Small(n)
        BY <1>0, <3>1, FS_EmptySet
      <4> QED
        BY <2>1, <3>1, <4>1
    <3>2. CASE T # {}
      <4>1. T \ {First(T)} \in Small(n) /\ T \ {First(T)} \in Small(n + 1)
        BY <1>0, <1>r, <3>2
      <4>2. h[T \ {First(T)}] = f[T \ {First(T)}]
        BY <4>1
      <4>3. h[T] = g[First(T)] + f[T \ {First(T)}]
        BY <2>1, <3>2
      <4> QED
        BY <3>2, <4>2, <4>3
    <3> QED
      BY <3>1, <3>2
  <2>3. h = [T \in Small(n + 1) |-> IF T = {} THEN 0 ELSE g[First(T)] + h[T \ {First(T)}]]
    <3>1. h = [T \in Small(n + 1) |-> h[T]]
      OBVIOUS
    <3> HIDE DEF Small, h
    <3> QED
      BY <2>2, <3>1
  <2>4. \E q : Solves(q, n + 1)
    <3> HIDE DEF Small, h
    <3> QED
      BY <2>3
  <2> QED
    <3> HIDE DEF Solves
    <3> QED
      BY <2>4
<1>3. N = Nat
  <2> HIDE DEF N
  <2>1. N \in SUBSET Nat
    BY DEF N
  <2> QED
    BY <1>1, <1>2, <2>1, NaturalInduction
<1>4. Small(Cardinality(S)) = SUBSET S
  BY <1>0, FS_Subset
<1>5. PICK f : Solves(f, Cardinality(S))
  BY <1>0, <1>3
<1>6. IsSumOver(f, g, S)
  BY <1>4, <1>5 DEF IsSumOver
<1> QED
  BY <1>6

LEMMA SumUnfold ==
    ASSUME NEW S, NEW f, NEW g, IsSumOver(f, g, S), NEW T \in SUBSET S
    PROVE  /\ T = {} => f[T] = 0
           /\ T # {} => First(T) \in T /\ f[T] = g[First(T)] + f[T \ {First(T)}]
  BY FirstIn DEF IsSumOver

LEMMA SumTyped ==
    ASSUME NEW S, IsFiniteSet(S), NEW f, NEW g, IsSumOver(f, g, S), \A x \in S : g[x] \in Int
    PROVE  \A T \in SUBSET S : f[T] \in Int
<1> DEFINE F == {T \in SUBSET S : f[T] \in Int}
<1>1. ASSUME NEW T \in SUBSET S, \A U \in SUBSET T : U # T => U \in F
      PROVE  T \in F
  <2>0. /\ T = {} => f[T] = 0
        /\ T # {} => First(T) \in T /\ f[T] = g[First(T)] + f[T \ {First(T)}]
    BY SumUnfold
  <2>1. CASE T = {}
    BY <2>0, <2>1
  <2>2. CASE T # {}
    <3>1. PICK x \in T : f[T] = g[x] + f[T \ {x}]
      BY <2>0, <2>2
    <3>2. T \ {x} \in F
      BY <1>1
    <3> QED
      BY <3>1, <3>2
  <2> QED
    BY <2>1, <2>2
<1>2. F = SUBSET S
  <2> HIDE DEF F
  <2>1. F \in SUBSET SUBSET S
    BY DEF F
  <2> QED
    BY <1>1, <2>1, SubsetInduction
<1> QED
  BY <1>2

LEMMA SumAgree ==
    ASSUME NEW S, IsFiniteSet(S), NEW R, NEW f, NEW g, NEW h, NEW k,
           IsSumOver(f, g, S), IsSumOver(h, k, R), S \subseteq R, \A x \in S : g[x] = k[x]
    PROVE  \A T \in SUBSET S : f[T] = h[T]
<1> DEFINE F == {T \in SUBSET S : f[T] = h[T]}
<1>1. ASSUME NEW T \in SUBSET S, \A U \in SUBSET T : U # T => U \in F
      PROVE  T \in F
  <2>1. CASE T = {}
    BY <2>1, SumUnfold
  <2>2. CASE T # {}
    <3> DEFINE x == First(T)
    <3>1. x \in T /\ f[T] = g[x] + f[T \ {x}] /\ h[T] = k[x] + h[T \ {x}]
      BY <2>2, SumUnfold
    <3>2. T \ {x} \in F
      BY <1>1, <3>1
    <3> QED
      BY <3>1, <3>2
  <2> QED
    BY <2>1, <2>2
<1>2. F = SUBSET S
  <2> HIDE DEF F
  <2>1. F \in SUBSET SUBSET S
    BY DEF F
  <2> QED
    BY <1>1, <2>1, SubsetInduction
<1> QED
  BY <1>2

(* Any element may be taken first.                                         *)
LEMMA SumInAnyOrder ==
    ASSUME NEW S, IsFiniteSet(S), NEW f, NEW g, IsSumOver(f, g, S), \A x \in S : g[x] \in Int
    PROVE  \A T \in SUBSET S : \A y \in T : f[T] = g[y] + f[T \ {y}]
<1> DEFINE F == {T \in SUBSET S : \A y \in T : f[T] = g[y] + f[T \ {y}]}
<1>t. \A T \in SUBSET S : f[T] \in Int
  BY SumTyped
<1>1. ASSUME NEW T \in SUBSET S, \A U \in SUBSET T : U # T => U \in F
      PROVE  T \in F
  <2> SUFFICES ASSUME NEW y \in T PROVE f[T] = g[y] + f[T \ {y}]
    OBVIOUS
  <2>0. T # {} => First(T) \in T /\ f[T] = g[First(T)] + f[T \ {First(T)}]
    BY SumUnfold
  <2>1. PICK x \in T : f[T] = g[x] + f[T \ {x}]
    BY <2>0
  <2>2. CASE x = y
    BY <2>1, <2>2
  <2>3. CASE x # y
    <3> DEFINE W == T \ {x, y}
    <3>1. /\ T \ {x} \in F /\ y \in T \ {x} /\ (T \ {x}) \ {y} = W
          /\ T \ {y} \in F /\ x \in T \ {y} /\ (T \ {y}) \ {x} = W
      BY <1>1, <2>3
    <3>2. f[T \ {x}] = g[y] + f[W] /\ f[T \ {y}] = g[x] + f[W]
      BY <3>1
    <3>3. g[x] \in Int /\ g[y] \in Int /\ f[W] \in Int
      BY <1>t
    <3> HIDE DEF W
    <3> QED
      BY <2>1, <3>2, <3>3
  <2> QED
    BY <2>2, <2>3
<1>2. F = SUBSET S
  <2> HIDE DEF F
  <2>1. F \in SUBSET SUBSET S
    BY DEF F
  <2> QED
    BY <1>1, <2>1, SubsetInduction
<1> QED
  BY <1>2
-----------------------------------------------------------------------------
(* The sums of the models.                                                 *)

LEMMA SumOfIsSum ==
    ASSUME NEW S, IsFiniteSet(S), NEW g
    PROVE  \E f : IsSumOver(f, g, S) /\ SumOf(g, S) = f[S]
<1>1. \E f : IsSumOver(f, g, S)
  BY SumExists
<1> QED
  BY <1>1 DEF SumOf, MapThenSumSet, MapThenFoldSet, IsSumOver, First

LEMMA SumEmpty ==
    ASSUME NEW g
    PROVE  SumOf(g, {}) = 0
<1>1. PICK f : IsSumOver(f, g, {}) /\ SumOf(g, {}) = f[{}]
  BY SumOfIsSum, FS_EmptySet
<1> QED
  BY <1>1, SumUnfold

LEMMA SumInt ==
    ASSUME NEW S, IsFiniteSet(S), NEW g, \A x \in S : g[x] \in Int
    PROVE  SumOf(g, S) \in Int
  BY SumOfIsSum, SumTyped

LEMMA SumZero ==
    ASSUME NEW S, IsFiniteSet(S), NEW g, \A x \in S : g[x] = 0
    PROVE  SumOf(g, S) = 0
<1>1. PICK f : IsSumOver(f, g, S) /\ SumOf(g, S) = f[S]
  BY SumOfIsSum
<1> DEFINE F == {T \in SUBSET S : f[T] = 0}
<1>2. ASSUME NEW T \in SUBSET S, \A U \in SUBSET T : U # T => U \in F
      PROVE  T \in F
  <2>1. /\ T = {} => f[T] = 0
        /\ T # {} => First(T) \in T /\ f[T] = g[First(T)] + f[T \ {First(T)}]
    BY <1>1, SumUnfold
  <2>2. CASE T # {}
    <3>1. T \ {First(T)} \in F
      BY <1>2, <2>1, <2>2
    <3> QED
      BY <2>1, <2>2, <3>1
  <2> QED
    BY <2>1, <2>2
<1>3. F = SUBSET S
  <2> HIDE DEF F
  <2>1. F \in SUBSET SUBSET S
    BY DEF F
  <2> QED
    BY <1>2, <2>1, SubsetInduction
<1> QED
  BY <1>1, <1>3

LEMMA SumEqual ==
    ASSUME NEW S, IsFiniteSet(S), NEW g, NEW k, \A x \in S : g[x] = k[x]
    PROVE  SumOf(g, S) = SumOf(k, S)
<1>1. PICK f : IsSumOver(f, g, S) /\ SumOf(g, S) = f[S]
  BY SumOfIsSum
<1>2. PICK h : IsSumOver(h, k, S) /\ SumOf(k, S) = h[S]
  BY SumOfIsSum
<1> QED
  BY <1>1, <1>2, SumAgree

LEMMA SumRemove ==
    ASSUME NEW S, IsFiniteSet(S), NEW g, \A x \in S : g[x] \in Int, NEW y \in S
    PROVE  SumOf(g, S) = g[y] + SumOf(g, S \ {y})
<1>1. PICK f : IsSumOver(f, g, S) /\ SumOf(g, S) = f[S]
  BY SumOfIsSum
<1>2. IsFiniteSet(S \ {y})
  BY FS_RemoveElement
<1>3. PICK h : IsSumOver(h, g, S \ {y}) /\ SumOf(g, S \ {y}) = h[S \ {y}]
  BY <1>2, SumOfIsSum
<1>4. h[S \ {y}] = f[S \ {y}]
  BY <1>1, <1>2, <1>3, SumAgree
<1>5. f[S] = g[y] + f[S \ {y}]
  BY <1>1, SumInAnyOrder
<1> QED
  BY <1>1, <1>3, <1>4, <1>5

LEMMA SumAdd ==
    ASSUME NEW S, IsFiniteSet(S), NEW g, NEW y, y \notin S, \A x \in S \cup {y} : g[x] \in Int
    PROVE  SumOf(g, S \cup {y}) = SumOf(g, S) + g[y]
<1>1. IsFiniteSet(S \cup {y}) /\ (S \cup {y}) \ {y} = S
  BY FS_AddElement
<1>2. SumOf(g, S \cup {y}) = g[y] + SumOf(g, S)
  BY <1>1, SumRemove
<1> QED
  BY <1>2, SumInt

(* One amount changes: so does the sum, by as much.                        *)
LEMMA SumChange ==
    ASSUME NEW S, IsFiniteSet(S), NEW g, NEW k, NEW y \in S,
           \A x \in S : g[x] \in Int /\ k[x] \in Int, \A x \in S \ {y} : g[x] = k[x]
    PROVE  SumOf(k, S) = SumOf(g, S) - g[y] + k[y]
<1>1. IsFiniteSet(S \ {y})
  BY FS_RemoveElement
<1>2. SumOf(g, S \ {y}) = SumOf(k, S \ {y}) /\ SumOf(g, S \ {y}) \in Int
  BY <1>1, SumEqual, SumInt
<1>3. SumOf(g, S) = g[y] + SumOf(g, S \ {y}) /\ SumOf(k, S) = k[y] + SumOf(k, S \ {y})
  BY SumRemove
<1> QED
  BY <1>2, <1>3
-----------------------------------------------------------------------------
(* Induction and recursion along the numbers of a tree's nodes, which grow *)
(* towards the leaves, and along a sequence.                               *)

(* Induction from the greatest element of a finite set of numbers down.    *)
LEMMA DownwardInduction ==
    ASSUME NEW D \in SUBSET Nat, IsFiniteSet(D), NEW F \in SUBSET D,
           \A m \in D : (\A n \in D : n > m => n \in F) => m \in F
    PROVE  F = D
<1> DEFINE Upper(U) == \A m \in U : \A n \in D : n > m => n \in U
           G == {U \in SUBSET D : Upper(U) => U \subseteq F}
<1>1. ASSUME NEW U \in SUBSET D, \A W \in SUBSET U : W # U => W \in G
      PROVE  U \in G
  <2> SUFFICES ASSUME Upper(U), U # {} PROVE U \subseteq F
    OBVIOUS
  <2>1. PICK u \in U : \A m \in U : u <= m
    BY LeastNatural
  <2>2. Upper(U \ {u})
    BY <2>1
  <2>3. U \ {u} \subseteq F
    <3>1. U \ {u} \in G
      <4> HIDE DEF G
      <4>1. U \ {u} \in SUBSET U /\ U \ {u} # U
        OBVIOUS
      <4> QED
        BY <1>1, <4>1
    <3> HIDE DEF Upper
    <3> QED
      BY <2>2, <3>1
  <2>4. \A n \in D : n > u => n \in F
    BY <2>1, <2>3
  <2> QED
    BY <2>3, <2>4
<1>2. G = SUBSET D
  <2> HIDE DEF G
  <2>1. G \in SUBSET SUBSET D
    BY DEF G
  <2> QED
    BY <1>1, <2>1, SubsetInduction
<1>3. D \in G /\ Upper(D)
  BY <1>2
<1> QED
  BY <1>3

(* A value at m is computed from the values at the larger numbers.         *)
LooksAbove(step, D, V) ==
    /\ D \in SUBSET Nat /\ IsFiniteSet(D) /\ V # {}
    /\ step \in [D -> [[D -> V] -> V]]
    /\ \A m \in D : \A f, g \in [D -> V] :
           (\A n \in D : n > m => f[n] = g[n]) => step[m][f] = step[m][g]

(* A recursion whose value at m reads the values at greater numbers only   *)
(* has a solution.                                                         *)
LEMMA DownwardRecursion ==
    ASSUME NEW D, NEW V, NEW step, LooksAbove(step, D, V)
    PROVE  \E f \in [D -> V] : \A m \in D : f[m] = step[m][f]
<1> USE DEF LooksAbove
<1> DEFINE Upper(U) == \A m \in U : \A n \in D : n > m => n \in U
           Solves(f, U) == \A m \in U : f[m] = step[m][f]
           G == {U \in SUBSET D : Upper(U) => \E f \in [D -> V] : Solves(f, U)}
<1>1. ASSUME NEW U \in SUBSET D, \A W \in SUBSET U : W # U => W \in G
      PROVE  U \in G
  <2> SUFFICES ASSUME Upper(U) PROVE \E f \in [D -> V] : Solves(f, U)
    OBVIOUS
  <2>1. CASE U = {}
    <3>1. PICK v \in V : TRUE
      OBVIOUS
    <3> DEFINE f == [m \in D |-> v]
    <3>2. f \in [D -> V] /\ Solves(f, U)
      BY <2>1, <3>1
    <3> QED
      BY <3>2
  <2>2. CASE U # {}
    <3>1. PICK u \in U : \A m \in U : u <= m
      BY <2>2, LeastNatural
    <3>2. Upper(U \ {u})
      BY <3>1
    <3>3. PICK f \in [D -> V] : Solves(f, U \ {u})
      <4>1. U \ {u} \in G
        <5> HIDE DEF G
        <5>1. U \ {u} \in SUBSET U /\ U \ {u} # U
          OBVIOUS
        <5> QED
          BY <1>1, <5>1
      <4> HIDE DEF Upper, Solves
      <4> QED
        BY <3>2, <4>1
    <3> DEFINE g == [f EXCEPT ![u] = step[u][f]]
    <3>4. step[u][f] \in V /\ u \in D
      OBVIOUS
    <3>5. g \in [D -> V] /\ g[u] = step[u][f] /\ \A n \in D : n # u => g[n] = f[n]
      BY <3>4
    <3> HIDE DEF g
    <3>6. ASSUME NEW m \in U PROVE g[m] = step[m][g]
      <4>1. \A n \in D : n > m => g[n] = f[n]
        BY <3>1, <3>5
      <4>2. step[m][g] = step[m][f]
        BY <3>5, <4>1
      <4> QED
        BY <3>3, <3>5, <4>2
    <3> QED
      BY <3>5, <3>6
  <2> QED
    BY <2>1, <2>2
<1>2. G = SUBSET D
  <2> HIDE DEF G
  <2>1. G \in SUBSET SUBSET D
    BY DEF G
  <2> QED
    BY <1>1, <2>1, SubsetInduction
<1>3. D \in G /\ Upper(D)
  BY <1>2
<1> QED
  BY <1>3

(* Induction along a sequence of n elements.                               *)
LEMMA IndexInduction ==
    ASSUME NEW n \in Nat, NEW F \in SUBSET (0 .. n), 0 \in F,
           \A i \in 1 .. n : i - 1 \in F => i \in F
    PROVE  F = 0 .. n
<1> DEFINE N == {k \in Nat : k <= n => k \in F}
<1>1. 0 \in N /\ N \in SUBSET Nat
  OBVIOUS
<1>2. ASSUME NEW k \in N PROVE k + 1 \in N
  <2> SUFFICES ASSUME k + 1 <= n PROVE k + 1 \in F
    OBVIOUS
  <2>1. k \in F /\ k + 1 \in 1 .. n /\ (k + 1) - 1 = k
    OBVIOUS
  <2> QED
    BY <2>1
<1>3. N = Nat
  <2> HIDE DEF N
  <2> QED
    BY <1>1, <1>2, NaturalInduction
<1>4. \A k \in 0 .. n : k \in N /\ k <= n
  <2> HIDE DEF N
  <2> QED
    BY <1>3
<1> QED
  BY <1>4

(* A value at i is computed from the value at i - 1.                       *)
LooksBack(step, n, V, first) == n \in Nat /\ first \in V /\ step \in [1 .. n -> [V -> V]]

(* A recursion along a sequence has a solution.                            *)
LEMMA IndexRecursion ==
    ASSUME NEW n, NEW V, NEW first, NEW step, LooksBack(step, n, V, first)
    PROVE  \E f \in [0 .. n -> V] : f[0] = first /\ \A i \in 1 .. n : f[i] = step[i][f[i - 1]]
<1> USE DEF LooksBack
<1> DEFINE Solves(f, k) == f[0] = first /\ \A i \in 1 .. k : f[i] = step[i][f[i - 1]]
           F == {k \in 0 .. n : \E f \in [0 .. n -> V] : Solves(f, k)}
<1>1. 0 \in F
  <2> DEFINE f == [i \in 0 .. n |-> first]
  <2>1. f \in [0 .. n -> V] /\ Solves(f, 0) /\ 0 \in 0 .. n
    OBVIOUS
  <2> HIDE DEF f, Solves
  <2> QED
    BY <2>1
<1>2. ASSUME NEW k \in 1 .. n, k - 1 \in F PROVE k \in F
  <2>1. PICK f \in [0 .. n -> V] : Solves(f, k - 1)
    BY <1>2
  <2>2. f[k - 1] \in V /\ step[k][f[k - 1]] \in V
    <3>1. k - 1 \in 0 .. n
      OBVIOUS
    <3> QED
      BY <3>1
  <2> DEFINE g == [f EXCEPT ![k] = step[k][f[k - 1]]]
  <2>3. g \in [0 .. n -> V] /\ g[k] = step[k][f[k - 1]] /\ \A i \in 0 .. n : i # k => g[i] = f[i]
    BY <2>2
  <2> HIDE DEF g
  <2>4. g[0] = first
    BY <2>1, <2>3
  <2>5. ASSUME NEW i \in 1 .. k PROVE g[i] = step[i][g[i - 1]]
    <3>1. i - 1 \in 0 .. n /\ i - 1 # k /\ i \in 0 .. n
      OBVIOUS
    <3>2. g[i - 1] = f[i - 1]
      BY <2>3, <3>1
    <3>3. i # k => i \in 1 .. k - 1
      OBVIOUS
    <3> QED
      BY <2>1, <2>3, <3>1, <3>2, <3>3
  <2> QED
    BY <2>3, <2>4, <2>5
<1>3. F = 0 .. n
  <2> HIDE DEF F
  <2>1. F \in SUBSET (0 .. n)
    BY DEF F
  <2> QED
    BY <1>1, <1>2, <2>1, IndexInduction
<1> QED
  <2>1. n \in F
    <3> HIDE DEF F
    <3>1. n \in 0 .. n
      OBVIOUS
    <3> QED
      BY <1>3, <3>1
  <2> QED
    BY <2>1
-----------------------------------------------------------------------------
(* Division.                                                               *)

LEMMA Quotient ==
    ASSUME NEW n \in Nat \ {0}, NEW a \in Nat
    PROVE  /\ a \div n \in Nat /\ a % n \in 0 .. n - 1
           /\ a = (a \div n) * n + (a % n)
<1>1. a \div n \in Nat /\ a % n \in 0 .. n - 1
  OBVIOUS
<1>2. a = n * (a \div n) + (a % n)
  OBVIOUS
<1>3. n * (a \div n) = (a \div n) * n
  BY <1>1
<1> QED
  BY <1>1, <1>2, <1>3

LEMMA QuotientUnique ==
    ASSUME NEW n \in Nat \ {0}, NEW a \in Nat, NEW q \in Int, NEW r \in 0 .. n - 1, a = q * n + r
    PROVE  a \div n = q /\ a % n = r
<1> DEFINE p == a \div n
           s == a % n
<1>1. p \in Nat /\ s \in 0 .. n - 1 /\ a = p * n + s
  BY Quotient
<1> HIDE DEF p, s
<1>2. (p - q) * n = r - s
  BY <1>1
<1>3. ~(p - q >= 1)
  <2> SUFFICES ASSUME p - q >= 1 PROVE FALSE
    OBVIOUS
  <2>1. (p - q) * n >= n
    BY <1>1
  <2> QED
    BY <1>1, <1>2, <2>1
<1>4. ~(p - q <= -1)
  <2> SUFFICES ASSUME q - p >= 1 PROVE FALSE
    BY <1>1
  <2>1. (q - p) * n >= n
    BY <1>1
  <2>2. (q - p) * n = s - r
    BY <1>1
  <2> QED
    BY <1>1, <2>1, <2>2
<1>5. p = q
  BY <1>1, <1>3, <1>4
<1>6. s = r
  BY <1>1, <1>5
<1> QED
  BY <1>5, <1>6 DEF p, s

LEMMA QuotientMonotone ==
    ASSUME NEW n \in Nat \ {0}, NEW a \in Nat, NEW b \in Nat, a <= b
    PROVE  a \div n <= b \div n
<1> DEFINE p == a \div n
           q == b \div n
<1>1. p \in Nat /\ q \in Nat /\ a >= p * n /\ b <= q * n + n - 1
  BY Quotient
<1> HIDE DEF p, q
<1>2. ~(p - q >= 1)
  <2> SUFFICES ASSUME p - q >= 1 PROVE FALSE
    OBVIOUS
  <2>1. (p - q) * n >= n
    BY <1>1
  <2> QED
    BY <1>1, <2>1
<1> QED
  BY <1>1, <1>2 DEF p, q
=============================================================================
