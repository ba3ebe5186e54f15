-------------------------- MODULE AlgorithmsProofs --------------------------
(***************************************************************************)
(* The computations of the service, for inputs of any size.  Sums, least   *)
(* and greatest elements and folds over lists are defined by recursion;    *)
(* what they compute is shown by induction over the set of the numbers up  *)
(* to which the claim holds.                                               *)
(***************************************************************************)
EXTENDS Algorithms, TLAPS, FiniteSetTheorems, FunctionTheorems, WellFoundedInduction

-----------------------------------------------------------------------------
(* Induction and folds *)

\* Induction, of a set of numbers.
LEMMA SetInduction ==
  ASSUME NEW T, 0 \in T, \A i \in Nat : i \in T => i + 1 \in T
  PROVE  Nat \subseteq T
<1>1. SUFFICES ASSUME Nat \ T # {} PROVE FALSE
  OBVIOUS
<1> DEFINE U == Nat \ T
<1>2. \E x \in U : \A y \in U : ~(<<y, x>> \in OpToRel(<, Nat))
  <2> HIDE DEF U
  <2>1. U \subseteq Nat /\ U # {}
    BY <1>1 DEF U
  <2> QED
    BY <2>1, NatLessThanWellFounded, WFMin
<1>3. PICK x \in U : \A y \in U : ~(<<y, x>> \in OpToRel(<, Nat))
  BY <1>2
<1>4. \A y \in U : ~(y < x)
  BY <1>3 DEF OpToRel
<1> QED
  BY <1>4, x - 1 \in Nat \/ x = 0

LEMMA BoundedInduction ==
  ASSUME NEW n \in Nat, NEW T, 0 \in T, \A i \in 0 .. n - 1 : i \in T => i + 1 \in T
  PROVE  0 .. n \subseteq T
<1> DEFINE U == {i \in Nat : i <= n => i \in T}
<1>1. 0 \in U /\ \A i \in Nat : i \in U => i + 1 \in U
  OBVIOUS
<1>2. Nat \subseteq U
  <2> HIDE DEF U
  <2> QED BY <1>1, SetInduction
<1> QED
  BY <1>2

\* A fold exists: where Ch says which element of a set is next.
Foldable(D, V, base, Step, Ch) ==
  /\ IsFiniteSet(D) /\ base \in V /\ Step \in [D \X V -> V]
  /\ \A s \in SUBSET D : s # {} => Ch[s] \in s

FoldOf(f, D, V, base, Step, Ch) ==
  /\ f \in [SUBSET D -> V]
  /\ f[{}] = base
  /\ \A s \in SUBSET D : s # {} => f[s] = Step[<<Ch[s], f[s \ {Ch[s]}]>>]

LEMMA FoldExists ==
  ASSUME NEW D, NEW V, NEW base, NEW Step, NEW Ch, Foldable(D, V, base, Step, Ch)
  PROVE  \E f : FoldOf(f, D, V, base, Step, Ch)
<1> USE DEF Foldable
<1> DEFINE Small(k) == {s \in SUBSET D : Cardinality(s) <= k}
           Fold(f, k) == /\ f \in [Small(k) -> V]
                         /\ \A s \in Small(k) : f[s] = IF s = {} THEN base ELSE Step[<<Ch[s], f[s \ {Ch[s]}]>>]
           T == {k \in Nat : \E f : Fold(f, k)}
<1>0. \A s \in SUBSET D : /\ Cardinality(s) \in Nat /\ (Cardinality(s) = 0 <=> s = {})
                          /\ s # {} => s \ {Ch[s]} \in SUBSET D /\ Cardinality(s \ {Ch[s]}) = Cardinality(s) - 1
  BY FS_Subset, FS_CardinalityType, FS_EmptySet, FS_RemoveElement
<1>1. 0 \in T
  <2> DEFINE f == [s \in {{}} |-> base]
  <2>1. Small(0) = {{}}
    <3>1. {} \in SUBSET D /\ Cardinality({}) = 0
      BY FS_EmptySet
    <3>2. ASSUME NEW s \in SUBSET D, Cardinality(s) <= 0 PROVE s = {}
      <4>1. Cardinality(s) \in Nat /\ (Cardinality(s) = 0 <=> s = {})
        BY <1>0
      <4> QED
        BY <3>2, <4>1
    <3>3. {} \in Small(0)
      BY <3>1
    <3>4. \A s \in Small(0) : s = {}
      BY <3>2
    <3> QED
      BY <3>3, <3>4
  <2>2. Fold(f, 0)
    BY <2>1
  <2> QED
    BY <2>2
<1>2. ASSUME NEW k \in Nat, k \in T PROVE k + 1 \in T
  <2>1. PICK f : Fold(f, k)
    BY <1>2
  <2> DEFINE g == [s \in Small(k + 1) |-> IF s = {} THEN base ELSE Step[<<Ch[s], f[s \ {Ch[s]}]>>]]
  <2>2. \A s \in Small(k + 1) : s # {} => s \ {Ch[s]} \in Small(k) /\ Ch[s] \in D
    BY <1>0
  <2>3. \A s \in Small(k) : s \in Small(k + 1) /\ g[s] = f[s]
    BY <2>1, <1>0
  <2>4. g \in [Small(k + 1) -> V]
    BY <2>1, <2>2
  <2>5. \A s \in Small(k + 1) : g[s] = IF s = {} THEN base ELSE Step[<<Ch[s], g[s \ {Ch[s]}]>>]
    BY <2>2, <2>3
  <2>6. Fold(g, k + 1)
    BY <2>4, <2>5
  <2> HIDE DEF Fold
  <2> QED
    BY <2>6
<1>3. Cardinality(D) \in T
  <2> HIDE DEF T
  <2> QED BY <1>1, <1>2, SetInduction, <1>0
<1>4. Small(Cardinality(D)) = SUBSET D
  BY FS_Subset
<1>5. PICK f : Fold(f, Cardinality(D))
  BY <1>3
<1>6. f \in [SUBSET D -> V] /\ f[{}] = base
  BY <1>4, <1>5
<1>7. \A s \in SUBSET D : s # {} => f[s] = Step[<<Ch[s], f[s \ {Ch[s]}]>>]
  BY <1>4, <1>5
<1> QED
  BY <1>6, <1>7 DEF FoldOf

LEMMA SmallestOf ==
  ASSUME NEW U, U \subseteq Nat, U # {}
  PROVE  \E x \in U : \A y \in U : x <= y
<1>1. \E x \in U : \A y \in U : ~(<<y, x>> \in OpToRel(<, Nat))
  BY NatLessThanWellFounded, WFMin
<1>2. PICK x \in U : \A y \in U : ~(<<y, x>> \in OpToRel(<, Nat))
  BY <1>1
<1>3. \A y \in U : x <= y
  <2> TAKE y \in U
  <2>1. x \in Nat /\ y \in Nat
    OBVIOUS
  <2>2. ~(y < x)
    BY <1>2, <2>1 DEF OpToRel
  <2> QED
    BY <2>1, <2>2
<1> QED
  BY <1>3

\* The largest and the smallest of some of the first n numbers.
LEMMA Extremes ==
  ASSUME NEW n \in Nat, NEW t \in SUBSET (1 .. n), t # {}
  PROVE  /\ Max(t) \in t /\ \A y \in t : y <= Max(t)
         /\ Min(t) \in t /\ \A y \in t : Min(t) <= y
<1>1. \E x \in t : \A y \in t : x <= y
  <2>1. t \subseteq Nat
    OBVIOUS
  <2> QED
    BY <2>1, SmallestOf
<1>2. \E x \in t : \A y \in t : x >= y
  <2> DEFINE U == {k \in 0 .. n : n - k \in t}
  <2>1. U \subseteq Nat /\ U # {}
    <3>1. PICK x \in t : TRUE
      OBVIOUS
    <3>2. x \in 1 .. n /\ n - x \in 0 .. n /\ n - (n - x) = x
      OBVIOUS
    <3>3. n - x \in U
      BY <3>2
    <3>4. U \subseteq Nat
      OBVIOUS
    <3> HIDE DEF U
    <3> QED
      BY <3>3, <3>4
  <2>2. PICK u \in U : \A v \in U : u <= v
    <3> HIDE DEF U
    <3> QED
      BY <2>1, SmallestOf
  <2>3. ASSUME NEW y \in t PROVE n - u >= y
    <3>1. y \in 1 .. n /\ n - y \in 0 .. n /\ n - (n - y) = y
      OBVIOUS
    <3>2. n - y \in U
      BY <3>1
    <3>3. u <= n - y
      BY <3>2, <2>2
    <3>4. u \in Nat
      OBVIOUS
    <3> QED
      BY <3>1, <3>3, <3>4
  <2>4. n - u \in t
    OBVIOUS
  <2> QED
    BY <2>3, <2>4
<1> QED
  BY <1>1, <1>2 DEF Max, Min

LEMMA IntervalMax ==
  ASSUME NEW n \in Nat \ {0}
  PROVE  Max(1 .. n) = n /\ (1 .. n) \ {n} = 1 .. n - 1
<1>1. n \in 1 .. n /\ (1 .. n) # {}
  OBVIOUS
<1>2. Max(1 .. n) \in 1 .. n /\ n <= Max(1 .. n)
  BY <1>1, Extremes
<1> QED
  BY <1>2

\* A fold over a list goes on from the fold over all but its last element.
Stepping(n, V, base, Step) ==
  n \in Nat /\ base \in V /\ Step \in [(1 .. n) \X V -> V]

Steps(g, n, V, base, Step) ==
  /\ g \in [0 .. n -> V]
  /\ g[0] = base
  /\ \A i \in 1 .. n : g[i] = Step[<<i, g[i - 1]>>]

ListFold(f, n, V, base, Step) ==
  /\ f \in [SUBSET (1 .. n) -> V] /\ f[{}] = base
  /\ \A t \in SUBSET (1 .. n) : t # {} =>
        /\ Max(t) \in 1 .. n /\ f[t \ {Max(t)}] \in V
        /\ f[t] = Step[<<Max(t), f[t \ {Max(t)}]>>]

Latest(n) == [t \in SUBSET (1 .. n) |-> Max(t)]

LEMMA ListFoldExists ==
  ASSUME NEW n, NEW V, NEW base, NEW Step, Stepping(n, V, base, Step)
  PROVE  \E f : ListFold(f, n, V, base, Step)
<1>1. \A t \in SUBSET (1 .. n) : t # {} => Latest(n)[t] = Max(t) /\ Max(t) \in t
  BY Extremes DEF Latest, Stepping
<1>2. Foldable(1 .. n, V, base, Step, Latest(n))
  <2>1. IsFiniteSet(1 .. n)
    BY FS_Interval DEF Stepping
  <2> QED
    BY <1>1, <2>1 DEF Foldable, Stepping
<1>3. PICK f : FoldOf(f, 1 .. n, V, base, Step, Latest(n))
  BY <1>2, FoldExists
<1>4. ASSUME NEW t \in SUBSET (1 .. n), t # {}
      PROVE  /\ Max(t) \in 1 .. n /\ f[t \ {Max(t)}] \in V
             /\ f[t] = Step[<<Max(t), f[t \ {Max(t)}]>>]
  BY <1>1, <1>3, <1>4 DEF FoldOf
<1> QED
  BY <1>3, <1>4 DEF FoldOf, ListFold

\* A function of sets of positions that takes the last one first.
Folded(f, n, V, base, Step) ==
  /\ f[{}] = base
  /\ \A t \in SUBSET (1 .. n) : t # {} /\ f[t \ {Max(t)}] \in V => f[t] = Step[<<Max(t), f[t \ {Max(t)}]>>]

LEMMA ListFoldSteps ==
  ASSUME NEW n, NEW V, NEW base, NEW Step, Stepping(n, V, base, Step),
         NEW f, Folded(f, n, V, base, Step)
  PROVE  Steps([i \in 0 .. n |-> f[1 .. i]], n, V, base, Step)
<1> DEFINE g == [i \in 0 .. n |-> f[1 .. i]]
           T == {i \in 0 .. n : f[1 .. i] \in V}
<1>1. n \in Nat /\ base \in V /\ Step \in [(1 .. n) \X V -> V]
  BY DEF Stepping
<1>2. 1 .. 0 = {} /\ 0 \in 0 .. n
  BY <1>1
<1>3. ASSUME NEW i \in 1 .. n, f[1 .. i - 1] \in V
      PROVE  f[1 .. i] = Step[<<i, f[1 .. i - 1]>>] /\ f[1 .. i] \in V
  <2>1. Max(1 .. i) = i /\ (1 .. i) \ {i} = 1 .. i - 1 /\ 1 .. i \in SUBSET (1 .. n) /\ 1 .. i # {}
    BY <1>1, IntervalMax
  <2>2. f[1 .. i] = Step[<<i, f[1 .. i - 1]>>]
    BY <1>3, <2>1 DEF Folded
  <2> QED
    BY <1>1, <1>3, <2>2
<1>4. 0 \in T
  BY <1>1, <1>2 DEF Folded
<1>5. ASSUME NEW i \in 0 .. n - 1, i \in T PROVE i + 1 \in T
  <2>1. i + 1 \in 1 .. n /\ (i + 1) - 1 = i /\ i + 1 \in 0 .. n
    BY <1>1
  <2> QED
    BY <1>3, <1>5, <2>1
<1>6. 0 .. n \subseteq T
  <2> HIDE DEF T
  <2> QED
    BY <1>1, <1>4, <1>5, BoundedInduction
<1>7. g \in [0 .. n -> V] /\ g[0] = base
  BY <1>2, <1>6 DEF Folded
<1>8. ASSUME NEW i \in 1 .. n PROVE g[i] = Step[<<i, g[i - 1]>>]
  <2>1. i \in 0 .. n /\ i - 1 \in 0 .. n
    BY <1>1
  <2>2. f[1 .. i - 1] \in V
    BY <1>6, <2>1
  <2> QED
    BY <1>3, <2>1, <2>2
<1> QED
  BY <1>7, <1>8 DEF Steps

-----------------------------------------------------------------------------
(* Sums *)

\* F is the sum of f over each subset of D.
Sums(F, f, D) ==
  /\ F \in [SUBSET D -> Int] /\ F[{}] = 0
  /\ \A s \in SUBSET D, x \in D : x \in s => F[s] = f[x] + F[s \ {x}]

AnyOf(D) == [s \in SUBSET D |-> CHOOSE x \in s : TRUE]

SumFold(F, f, D) ==
  /\ F \in [SUBSET D -> Int] /\ F[{}] = 0
  /\ \A s \in SUBSET D : s # {} => F[s] = f[CHOOSE x \in s : TRUE] + F[s \ {CHOOSE x \in s : TRUE}]

\* The order in which a sum is taken does not matter.
LEMMA SumInAnyOrder ==
  ASSUME NEW D, IsFiniteSet(D), NEW f \in [D -> Int], NEW F, SumFold(F, f, D)
  PROVE  Sums(F, f, D)
<1> DEFINE T == {n \in Nat : \A s \in SUBSET D, x \in D :
                   Cardinality(s) = n /\ x \in s => F[s] = f[x] + F[s \ {x}]}
<1>0. \A s \in SUBSET D : /\ IsFiniteSet(s) /\ Cardinality(s) \in Nat /\ F[s] \in Int
                          /\ \A x \in s : s \ {x} \in SUBSET D /\ Cardinality(s \ {x}) = Cardinality(s) - 1
  BY FS_Subset, FS_CardinalityType, FS_RemoveElement DEF SumFold
<1>1. 0 \in T
  <2>1. \A s \in SUBSET D : Cardinality(s) = 0 => s = {}
    BY <1>0, FS_EmptySet
  <2> QED
    BY <2>1
<1>2. ASSUME NEW n \in Nat, n \in T PROVE n + 1 \in T
  <2> SUFFICES ASSUME NEW s \in SUBSET D, NEW x \in D, Cardinality(s) = n + 1, x \in s
               PROVE  F[s] = f[x] + F[s \ {x}]
    OBVIOUS
  <2>1. PICK c \in s : c = CHOOSE y \in s : TRUE
    OBVIOUS
  <2>2. F[s] = f[c] + F[s \ {c}]
    BY <2>1 DEF SumFold
  <2>3. CASE x = c
    BY <2>2, <2>3
  <2>4. CASE x # c
    <3> DEFINE u == s \ {c}
               v == s \ {x}
    <3>1. u \in SUBSET D /\ v \in SUBSET D /\ Cardinality(u) = n /\ Cardinality(v) = n /\ x \in u /\ c \in v /\ c \in D
      BY <1>0, <2>4
    <3>2. F[u] = f[x] + F[u \ {x}]
      BY <1>2, <3>1
    <3>3. F[v] = f[c] + F[v \ {c}]
      BY <1>2, <3>1
    <3>4. u \ {x} = v \ {c} /\ u \ {x} \in SUBSET D
      OBVIOUS
    <3>5. f[x] \in Int /\ f[c] \in Int /\ F[u \ {x}] \in Int
      BY <1>0, <3>1, <3>4
    <3> HIDE DEF u, v
    <3>6. F[s] = f[x] + F[v]
      <4>1. F[s] = f[c] + F[u]
        BY <2>2 DEF u
      <4>2. F[v] = f[c] + F[u \ {x}]
        BY <3>3, <3>4
      <4>3. \A a, b, w \in Int : a + (b + w) = b + (a + w)
        OBVIOUS
      <4> QED
        BY <3>2, <3>5, <4>1, <4>2, <4>3
    <3> QED
      BY <3>6 DEF v
  <2> QED
    BY <2>3, <2>4
<1>3. Nat \subseteq T
  <2> HIDE DEF T
  <2> QED
    BY <1>1, <1>2, SetInduction
<1>4. \A s \in SUBSET D, x \in D : x \in s => F[s] = f[x] + F[s \ {x}]
  BY <1>0, <1>3
<1> QED
  BY <1>4 DEF Sums, SumFold

\* SumFunction is that sum.
LEMMA SumFunctionSums ==
  ASSUME NEW D, IsFiniteSet(D), NEW f \in [D -> Int]
  PROVE  \E F : Sums(F, f, D) /\ F[D] = SumFunction(f)
<1> DEFINE Step == [p \in D \X Int |-> f[p[1]] + p[2]]
           Fold(F) == F = [s \in SUBSET D |->
                        IF s = {} THEN 0
                        ELSE LET x == CHOOSE x \in s : TRUE IN f[x] + F[s \ {x}]]
<1>1. Foldable(D, Int, 0, Step, AnyOf(D))
  <2>1. Step \in [D \X Int -> Int]
    OBVIOUS
  <2>2. \A s \in SUBSET D : s # {} => AnyOf(D)[s] \in s
    BY DEF AnyOf
  <2> HIDE DEF Step
  <2> QED
    BY <2>1, <2>2 DEF Foldable
<1>2. \E F : Fold(F)
  <2>1. PICK F : FoldOf(F, D, Int, 0, Step, AnyOf(D))
    <3> HIDE DEF Step
    <3> QED
      BY <1>1, FoldExists
  <2>2. ASSUME NEW s \in SUBSET D, s # {}
        PROVE  F[s] = f[CHOOSE x \in s : TRUE] + F[s \ {CHOOSE x \in s : TRUE}]
    <3>1. PICK x \in s : x = CHOOSE y \in s : TRUE
      BY <2>2
    <3>2. AnyOf(D)[s] = x /\ x \in D /\ s \ {x} \in SUBSET D /\ F[s \ {x}] \in Int
      BY <2>1, <3>1 DEF AnyOf, FoldOf
    <3>3. F[s] = Step[<<x, F[s \ {x}]>>]
      BY <2>1, <2>2, <3>2 DEF FoldOf
    <3>4. F[s] = f[x] + F[s \ {x}]
      BY <3>2, <3>3
    <3> QED
      BY <3>1, <3>4
  <2>3. Fold(F)
    BY <2>1, <2>2 DEF FoldOf
  <2> QED
    BY <2>3
<1>3. DOMAIN f = D
  OBVIOUS
<1>4. PICK F : Fold(F) /\ F[D] = SumFunction(f)
  <2>1. PICK F : F = CHOOSE G : Fold(G)
    OBVIOUS
  <2>2. Fold(F)
    <3> HIDE DEF Fold
    <3> QED
      BY <1>2, <2>1
  <2>3. F[D] = SumFunction(f)
    BY <1>3, <2>1, Zenon DEF SumFunction, SumFunctionOnSet, FoldFunctionOnSet, MapThenFoldSet
  <2> HIDE DEF Fold
  <2> QED
    BY <2>2, <2>3
<1>5. \A s \in SUBSET D : s # {} => F[s] = f[CHOOSE x \in s : TRUE] + F[s \ {CHOOSE x \in s : TRUE}]
  BY <1>4
<1>6. F[{}] = 0 /\ F = [s \in SUBSET D |-> F[s]]
  BY <1>4
<1>7. F \in [SUBSET D -> Int]
  <2> DEFINE T == {n \in Nat : \A s \in SUBSET D : Cardinality(s) = n => F[s] \in Int}
  <2>1. \A s \in SUBSET D : IsFiniteSet(s) /\ Cardinality(s) \in Nat
    BY FS_Subset, FS_CardinalityType
  <2>2. 0 \in T
    <3>1. \A s \in SUBSET D : Cardinality(s) = 0 => s = {}
      BY <2>1, FS_EmptySet
    <3>2. F[{}] \in Int
      BY <1>6
    <3> HIDE DEF Fold
    <3> QED
      BY <3>1, <3>2
  <2>3. ASSUME NEW n \in Nat, n \in T PROVE n + 1 \in T
    <3> SUFFICES ASSUME NEW s \in SUBSET D, Cardinality(s) = n + 1 PROVE F[s] \in Int
      OBVIOUS
    <3>1. s # {}
      BY FS_EmptySet
    <3>2. PICK x \in s : x = CHOOSE y \in s : TRUE
      BY <3>1
    <3>3. s \ {x} \in SUBSET D /\ Cardinality(s \ {x}) = n
      <4>1. IsFiniteSet(s) /\ Cardinality(s \ {x}) = Cardinality(s) - 1
        BY <2>1, FS_RemoveElement
      <4> QED
        BY <2>3, <4>1
    <3>4. F[s] = f[x] + F[s \ {x}]
      BY <1>5, <3>1, <3>2
    <3>5. F[s \ {x}] \in Int /\ f[x] \in Int
      BY <2>3, <3>3
    <3> QED
      BY <3>4, <3>5
  <2>4. Nat \subseteq T
    <3> HIDE DEF T
    <3> QED
      BY <2>2, <2>3, SetInduction
  <2> HIDE DEF Fold
  <2> QED
    BY <1>6, <2>1, <2>4
<1>8. SumFold(F, f, D)
  <2> HIDE DEF Fold
  <2> QED
    BY <1>5, <1>6, <1>7 DEF SumFold
<1> HIDE DEF Fold
<1> QED
  BY <1>4, <1>8, SumInAnyOrder

\* The numbers of the parts add up to that of the whole.
Parts(f, D, I, key) ==
  /\ IsFiniteSet(D) /\ IsFiniteSet(I)
  /\ f = [k \in D |-> Cardinality({i \in I : key[i] = k})]

LEMMA PartsAddUp ==
  ASSUME NEW f, NEW D, NEW I, NEW key, Parts(f, D, I, key)
  PROVE  SumFunction(f) = Cardinality({i \in I : key[i] \in D})
<1>0. IsFiniteSet(D) /\ IsFiniteSet(I)
  BY DEF Parts
<1> DEFINE In(s) == {i \in I : key[i] \in s}
           At(k) == {i \in I : key[i] = k}
<1>1. \A s : IsFiniteSet(In(s)) /\ Cardinality(In(s)) \in Nat
  <2> TAKE s
  <2>1. In(s) \in SUBSET I
    OBVIOUS
  <2> HIDE DEF In
  <2> QED
    BY <1>0, <2>1, FS_Subset, FS_CardinalityType
<1>2. \A k : IsFiniteSet(At(k)) /\ Cardinality(At(k)) \in Nat
  <2> TAKE k
  <2>1. At(k) \in SUBSET I
    OBVIOUS
  <2> HIDE DEF At
  <2> QED
    BY <1>0, <2>1, FS_Subset, FS_CardinalityType
<1>3. f \in [D -> Int] /\ \A k \in D : f[k] = Cardinality(At(k))
  <2>1. f = [k \in D |-> Cardinality(At(k))]
    BY DEF Parts
  <2> HIDE DEF At
  <2> QED
    BY <1>2, <2>1
<1>4. PICK F : Sums(F, f, D) /\ F[D] = SumFunction(f)
  BY <1>0, <1>3, SumFunctionSums
<1> DEFINE T == {n \in Nat : \A s \in SUBSET D : Cardinality(s) = n => F[s] = Cardinality(In(s))}
<1>5. \A s \in SUBSET D : IsFiniteSet(s) /\ Cardinality(s) \in Nat
  BY <1>0, FS_Subset, FS_CardinalityType
<1>6. 0 \in T
  <2>1. \A s \in SUBSET D : Cardinality(s) = 0 => s = {}
    BY <1>5, FS_EmptySet
  <2>2. In({}) = {}
    OBVIOUS
  <2>3. Cardinality(In({})) = 0
    BY <2>2, FS_EmptySet
  <2>4. F[{}] = 0
    BY <1>4 DEF Sums
  <2> HIDE DEF In
  <2> QED
    BY <2>1, <2>3, <2>4
<1>7. ASSUME NEW n \in Nat, n \in T PROVE n + 1 \in T
  <2> SUFFICES ASSUME NEW s \in SUBSET D, Cardinality(s) = n + 1 PROVE F[s] = Cardinality(In(s))
    OBVIOUS
  <2>1. PICK x \in s : TRUE
    BY FS_EmptySet
  <2>2. x \in D /\ s \ {x} \in SUBSET D /\ Cardinality(s \ {x}) = n
    BY <1>5, FS_RemoveElement
  <2>3. F[s] = f[x] + F[s \ {x}]
    BY <1>4, <2>2 DEF Sums
  <2>4. F[s \ {x}] = Cardinality(In(s \ {x}))
    BY <1>7, <2>2
  <2>5. In(s) = In(s \ {x}) \cup At(x) /\ In(s \ {x}) \cap At(x) = {}
    OBVIOUS
  <2>6. Cardinality(In(s)) = Cardinality(In(s \ {x})) + Cardinality(At(x))
    <3> HIDE DEF In, At
    <3>1. Cardinality(In(s)) = Cardinality(In(s \ {x})) + Cardinality(At(x)) - Cardinality(In(s \ {x}) \cap At(x))
      BY <1>1, <1>2, <2>5, FS_Union
    <3>2. Cardinality(In(s \ {x}) \cap At(x)) = 0
      BY <2>5, FS_EmptySet
    <3> QED
      BY <1>1, <1>2, <3>1, <3>2
  <2> HIDE DEF In, At
  <2> QED
    BY <1>1, <1>2, <1>3, <2>2, <2>3, <2>4, <2>6
<1>8. Nat \subseteq T
  <2> HIDE DEF T
  <2> QED
    BY <1>6, <1>7, SetInduction
<1>9. F[D] = Cardinality(In(D))
  BY <1>5, <1>8
<1> QED
  BY <1>4, <1>9

LEMMA Injected ==
  ASSUME NEW S, NEW T, IsFiniteSet(T), NEW f,
         \A x \in S : f[x] \in T,
         \A x, y \in S : f[x] = f[y] => x = y
  PROVE  IsFiniteSet(S) /\ Cardinality(S) <= Cardinality(T)
<1> DEFINE g == [x \in S |-> f[x]]
<1>1. g \in [S -> T] /\ \A x, y \in S : g[x] = g[y] => x = y
  OBVIOUS
<1>2. g \in Injection(S, T)
  <2> HIDE DEF g
  <2> QED
    BY <1>1, Fun_IsInj
<1> HIDE DEF g
<1> QED
  BY <1>2, FS_Injection

-----------------------------------------------------------------------------
(* Lists of candidates *)

Smaller(m, n) == IF m < n THEN m ELSE n

\* LIMIT keeps the order.
LEMMA CutIs ==
  ASSUME NEW V, NEW s \in Seq(V), NEW n \in Nat \ {0}
  PROVE  /\ Cut(s, n) \in Seq(V) /\ Len(Cut(s, n)) = Smaller(Len(s), n)
         /\ DOMAIN Cut(s, n) = 1 .. Smaller(Len(s), n)
         /\ Smaller(Len(s), n) \in 0 .. Len(s) /\ Smaller(Len(s), n) <= n
         /\ \A i \in DOMAIN Cut(s, n) : i \in DOMAIN s /\ Cut(s, n)[i] = s[i]
<1> DEFINE k == Smaller(Len(s), n)
<1>1. k \in 0 .. Len(s) /\ k <= n /\ Len(s) \in Nat
  BY DEF Smaller
<1>2. Cut(s, n) = SubSeq(s, 1, k)
  BY DEF Cut, Smaller
<1> HIDE DEF k
<1>3. SubSeq(s, 1, k) \in Seq(V) /\ Len(SubSeq(s, 1, k)) = k /\ \A i \in 1 .. k : SubSeq(s, 1, k)[i] = s[i]
  BY <1>1
<1>4. DOMAIN SubSeq(s, 1, k) = 1 .. k
  BY <1>1, <1>3
<1>5. \A i \in 1 .. k : i \in DOMAIN s
  BY <1>1
<1> QED
  BY <1>1, <1>2, <1>3, <1>4, <1>5 DEF k

\* Some of S, each once, at most n, and all if there are no more than n.
Listing(q, S, n) ==
  /\ q \in Seq(S)
  /\ \A i, j \in DOMAIN q : q[i] = q[j] => i = j
  /\ Len(q) <= n
  /\ Cardinality(S) <= n => \A x \in S : \E i \in DOMAIN q : q[i] = x
  /\ Cardinality(S) > n => Len(q) = n

\* LIMIT takes a part of a list that holds everything once.
LEMMA CutLists ==
  ASSUME NEW S, IsFiniteSet(S), NEW s \in SetToSeqs(S), NEW n \in Nat \ {0}
  PROVE  Listing(Cut(s, n), S, n)
<1> DEFINE m == Cardinality(S)
<1>1. m \in Nat /\ IsFiniteSet(1 .. m) /\ Cardinality(1 .. m) = m
  BY FS_CardinalityType, FS_Interval
<1>2. s \in [1 .. m -> S] /\ \A i, j \in 1 .. m : i # j => s[i] # s[j]
  BY DEF SetToSeqs
<1>3. \A x \in S : \E i \in 1 .. m : s[i] = x
  <2>1. s \in Injection(1 .. m, S)
    BY <1>2, Fun_IsInj
  <2>2. s \in Surjection(1 .. m, S)
    BY <2>1, <1>1, FS_Injection
  <2> QED
    BY <2>2 DEF Surjection
<1> DEFINE k == IF m < n THEN m ELSE n
<1>4. s \in Seq(S) /\ Len(s) = m /\ k \in 0 .. m /\ k <= n /\ (m <= n => k = m) /\ (m > n => k = n)
  BY <1>1, <1>2
<1>5. Cut(s, n) = SubSeq(s, 1, k)
  BY <1>4 DEF Cut
<1>6. SubSeq(s, 1, k) \in Seq(S) /\ Len(SubSeq(s, 1, k)) = k /\ \A i \in 1 .. k : SubSeq(s, 1, k)[i] = s[i]
  BY <1>4
<1> DEFINE q == SubSeq(s, 1, k)
<1>7. DOMAIN q = 1 .. k
  BY <1>6
<1>8. \A i, j \in 1 .. k : q[i] = q[j] => i = j
  BY <1>2, <1>4, <1>6
<1>9. m <= n => \A x \in S : \E i \in 1 .. k : q[i] = x
  BY <1>3, <1>4, <1>6
<1> HIDE DEF q, k
<1> QED
  BY <1>4, <1>5, <1>6, <1>7, <1>8, <1>9 DEF Listing, q

\* At most n hits of active chunks, each once.
Hits(corpus, hits, n) ==
  /\ hits \in Seq(Range(hits)) /\ Len(hits) <= n
  /\ \A i \in DOMAIN hits : /\ hits[i].chunk \in Active(corpus)
                            /\ hits[i].vscore \in Nat /\ hits[i].vscore <= hits[i].chunk.sim
  /\ \A i, j \in DOMAIN hits : hits[i].chunk = hits[j].chunk => i = j

\* Where the limit cuts nothing off, every active chunk is hit.
Full(corpus, hits) ==
  Cardinality(corpus) <= TopK => \A d \in Active(corpus) : \E i \in DOMAIN hits : hits[i].chunk = d

LEMMA ActiveSmaller ==
  ASSUME NEW corpus, Corpus(corpus)
  PROVE  /\ IsFiniteSet(Active(corpus)) /\ Active(corpus) \subseteq corpus
         /\ Cardinality(Active(corpus)) <= Cardinality(corpus)
         /\ Cardinality(Active(corpus)) \in Nat /\ Cardinality(corpus) \in Nat
<1>1. Active(corpus) \in SUBSET corpus /\ IsFiniteSet(corpus)
  BY DEF Active, Corpus
<1> QED
  BY <1>1, FS_Subset, FS_CardinalityType

\* Chunks with what the search says of each are hits.
LEMMA ListedHits ==
  ASSUME NEW corpus, Corpus(corpus), NEW s, NEW S \in SUBSET Active(corpus), NEW n \in Nat, Listing(s, S, n),
         NEW hits, DOMAIN hits = DOMAIN s,
         \A i \in DOMAIN s : /\ hits[i].chunk = s[i]
                            /\ hits[i].vscore \in {0, s[i].sim},
         hits = [i \in DOMAIN hits |-> hits[i]]
  PROVE  Hits(corpus, hits, n)
<1>1. s \in Seq(S) /\ Len(s) \in Nat /\ DOMAIN s = 1 .. Len(s) /\ Len(s) <= n
  BY DEF Listing
<1>2. hits \in Seq(Range(hits)) /\ Len(hits) = Len(s)
  BY <1>1 DEF Range
<1>3. \A i \in DOMAIN s : s[i] \in Active(corpus) /\ s[i].sim \in Nat
  BY <1>1, ActiveSmaller DEF Corpus
<1>4. \A i, j \in DOMAIN hits : hits[i].chunk = hits[j].chunk => i = j
  BY DEF Listing
<1>5. \A i \in DOMAIN hits : /\ hits[i].chunk \in Active(corpus)
                             /\ hits[i].vscore \in Nat /\ hits[i].vscore <= hits[i].chunk.sim
  BY <1>3
<1> QED
  BY <1>1, <1>2, <1>4, <1>5 DEF Hits

LEMMA VectorHits ==
  ASSUME NEW corpus, Corpus(corpus), NEW hits \in VectorSearch(corpus)
  PROVE  Hits(corpus, hits, TopK) /\ Full(corpus, hits)
<1>1. PICK t \in SetToSeqs(Active(corpus)) : hits = Plain(Cut(t, TopK))
  BY DEF VectorSearch, Ordered
<1>2. PICK s : s = Cut(t, TopK)
  OBVIOUS
<1>3. Listing(s, Active(corpus), TopK)
  BY <1>2, CutLists, ActiveSmaller, RetrievalAssumption
<1>4. hits = [i \in DOMAIN s |-> [chunk |-> s[i], score |-> s[i].sim, vscore |-> s[i].sim]]
  BY <1>1, <1>2 DEF Plain
<1>5. /\ DOMAIN hits = DOMAIN s
      /\ \A i \in DOMAIN s : hits[i].chunk = s[i] /\ hits[i].vscore \in {0, s[i].sim}
  BY <1>4
<1>6. Hits(corpus, hits, TopK)
  <2>1. hits = [i \in DOMAIN hits |-> hits[i]]
    BY <1>4
  <2> QED
    BY <1>3, <1>5, <2>1, ListedHits, RetrievalAssumption
<1>7. Full(corpus, hits)
  BY <1>3, <1>5, ActiveSmaller, RetrievalAssumption DEF Full, Listing
<1> QED
  BY <1>6, <1>7

LEMMA HybridHits ==
  ASSUME NEW corpus, Corpus(corpus), NEW hits \in HybridSearch(corpus)
  PROVE  Hits(corpus, hits, TopK) /\ Full(corpus, hits)
<1> DEFINE Ranked == {c \in corpus : c.rank > 0}
<1>1. PICK v \in ByVector(corpus), b \in ByText(corpus) : hits \in Fuse(v, b)
  BY DEF HybridSearch
<1>2. PICK v0 \in SetToSeqs(corpus) : v = Cut(v0, TopK)
  BY DEF ByVector, Ordered
<1>3. PICK b0 \in SetToSeqs(Ranked) : b = Cut(b0, TopK)
  BY DEF ByText, Ordered
<1> DEFINE found == Range(v) \cup Range(b)
<1>4. PICK s :
        /\ \E s0 \in SetToSeqs(Active(found)) : s = Cut(s0, TopK)
        /\ hits = [i \in DOMAIN s |-> [chunk |-> s[i], score |-> Rrf(v, b, s[i]),
                                       vscore |-> IF s[i] \in Range(v) THEN s[i].sim ELSE 0]]
  BY <1>1 DEF Fuse, Ordered
<1>5. IsFiniteSet(corpus) /\ IsFiniteSet(Ranked) /\ TopK \in Nat \ {0}
  BY FS_Subset, RetrievalAssumption DEF Corpus
<1>6. Listing(v, corpus, TopK) /\ Listing(b, Ranked, TopK)
  BY <1>2, <1>3, <1>5, CutLists
<1>7. found \in SUBSET corpus /\ (Cardinality(corpus) <= TopK => found = corpus)
  BY <1>6 DEF Listing, Range
<1>8. Corpus(found) /\ Active(found) \in SUBSET Active(corpus)
  <2>1. IsFiniteSet(found)
    BY <1>7, <1>5, FS_Subset
  <2> QED
    BY <2>1, <1>7 DEF Corpus, Active
<1>9. Listing(s, Active(found), TopK)
  BY <1>4, <1>5, <1>8, CutLists, ActiveSmaller
<1>11. /\ DOMAIN hits = DOMAIN s
       /\ \A i \in DOMAIN s : hits[i].chunk = s[i] /\ hits[i].vscore \in {0, s[i].sim}
  BY <1>4
<1>12. Hits(corpus, hits, TopK)
  <2>1. hits = [i \in DOMAIN hits |-> hits[i]]
    BY <1>4
  <2> HIDE DEF found
  <2> QED
    BY <1>5, <1>8, <1>9, <1>11, <2>1, ListedHits
<1>13. Full(corpus, hits)
  <2> SUFFICES ASSUME Cardinality(corpus) <= TopK, NEW d \in Active(corpus)
               PROVE  \E i \in DOMAIN hits : hits[i].chunk = d
    BY DEF Full
  <2>1. Active(found) = Active(corpus) /\ Cardinality(Active(corpus)) <= TopK
    <3>1. found = corpus
      BY <1>7
    <3>2. Cardinality(Active(corpus)) <= TopK
      BY <1>5, ActiveSmaller
    <3> HIDE DEF found
    <3> QED
      BY <3>1, <3>2
  <2>2. \E i \in DOMAIN s : s[i] = d
    BY <1>9, <2>1 DEF Listing
  <2> QED
    BY <1>11, <2>2
<1> QED
  BY <1>12, <1>13

\* The ranks share a denominator.
Divided(den, n) == den \in Nat \ {0} /\ \A i \in 1 .. n : \E m \in Nat \ {0} : den = m * (RrfK + i)

LEMMA DividedStep ==
  ASSUME RrfK \in Nat \ {0}, NEW n \in Nat, NEW den, Divided(den, n)
  PROVE  Divided(den * (RrfK + (n + 1)), n + 1)
<1> DEFINE x == RrfK + (n + 1)
<1>1. x \in Nat \ {0} /\ den \in Nat \ {0}
  BY DEF Divided
<1> HIDE DEF x
<1>2. \A a, b \in Nat \ {0} : a * b \in Nat \ {0}
  OBVIOUS
<1>3. den * x \in Nat \ {0}
  BY <1>1, <1>2
<1>4. ASSUME NEW i \in 1 .. n + 1 PROVE \E m \in Nat \ {0} : den * x = m * (RrfK + i)
  <2>1. CASE i = n + 1
    BY <1>1, <2>1 DEF x
  <2>2. CASE i \in 1 .. n
    <3>1. PICK m \in Nat \ {0} : den = m * (RrfK + i)
      BY <2>2 DEF Divided
    <3>2. RrfK + i \in Nat
      BY <2>2
    <3>3. \A y \in Nat : (m * y) * x = (m * x) * y
      BY <1>1
    <3>4. den * x = (m * x) * (RrfK + i)
      BY <3>1, <3>2, <3>3
    <3> QED
      BY <1>1, <1>2, <3>4
  <2> QED
    BY <2>1, <2>2
<1> QED
  BY <1>3, <1>4 DEF Divided, x

LEMMA DenominatorDivided == Divided(Denominator, TopK)
<1> DEFINE n == TopK
           V == Nat \ {0}
           F == [i \in 1 .. TopK |-> RrfK + i]
           Step == [p \in (1 .. n) \X V |-> p[2] * F[p[1]]]
           Fold(f) == f = [t \in SUBSET (1 .. n) |->
                       IF t = {} THEN 1 ELSE LET x == Max(t) IN f[t \ {x}] * F[x]]
<1>0. TopK \in Nat \ {0} /\ RrfK \in Nat \ {0}
  BY RetrievalAssumption
<1>1. n \in Nat /\ DOMAIN F = 1 .. n /\ \A x \in 1 .. n : F[x] = RrfK + x /\ F[x] \in Nat \ {0}
  BY <1>0
<1>2. Stepping(n, V, 1, Step)
  <2> HIDE DEF n, F
  <2>1. \A a, b \in Nat \ {0} : a * b \in Nat \ {0}
    OBVIOUS
  <2>2. Step \in [(1 .. n) \X V -> V]
    BY <1>1, <2>1
  <2> HIDE DEF Step
  <2> QED
    BY <1>1, <2>2 DEF Stepping
<1>3. \A x \in 1 .. n, q \in V : Step[<<x, q>>] = q * F[x]
  OBVIOUS
<1>4. \E f : Fold(f)
  <2>1. PICK f : ListFold(f, n, V, 1, Step)
    <3> HIDE DEF n, Step, F, V
    <3> QED
      BY <1>2, ListFoldExists
  <2>2. \A t \in SUBSET (1 .. n) : t # {} => f[t] = f[t \ {Max(t)}] * F[Max(t)]
    <3> HIDE DEF Step, F, V
    <3> QED
      BY <1>3, <2>1 DEF ListFold
  <2>3. Fold(f)
    <3> HIDE DEF F
    <3> QED
      BY <2>1, <2>2 DEF ListFold
  <2> QED
    BY <2>3
<1>5. PICK f : Fold(f) /\ f[1 .. n] = Denominator
  BY <1>1, <1>4 DEF Denominator, FoldLeft, MapThenFoldSet
<1>6. Folded(f, n, V, 1, Step)
  <2>1. f[{}] = 1
    BY <1>5
  <2>2. ASSUME NEW t \in SUBSET (1 .. n), t # {}, f[t \ {Max(t)}] \in V
        PROVE  f[t] = Step[<<Max(t), f[t \ {Max(t)}]>>]
    <3>1. Max(t) \in 1 .. n
      BY <1>1, <2>2, Extremes
    <3>2. f[t] = f[t \ {Max(t)}] * F[Max(t)]
      <4> HIDE DEF F
      <4> QED
        BY <1>5, <2>2
    <3> HIDE DEF Step, F
    <3> QED
      BY <1>3, <2>2, <3>1, <3>2
  <2> HIDE DEF Step, F
  <2> QED
    BY <2>1, <2>2 DEF Folded
<1> DEFINE g == [i \in 0 .. n |-> f[1 .. i]]
<1>7. Steps(g, n, V, 1, Step)
  <2> HIDE DEF n, Step, V
  <2> QED
    BY <1>2, <1>6, ListFoldSteps
<1>8. g[n] = Denominator
  <2>1. n \in 0 .. n
    BY <1>1
  <2> HIDE DEF n, Fold
  <2> QED
    BY <1>5, <2>1
<1> HIDE DEF g
<1> DEFINE T == {i \in 0 .. n : Divided(g[i], i)}
<1>9. 0 \in T
  BY <1>1, <1>7 DEF Steps, Divided
<1>10. ASSUME NEW i \in 0 .. n - 1, i \in T PROVE i + 1 \in T
  <2>1. i \in Nat /\ i + 1 \in 1 .. n /\ (i + 1) - 1 = i /\ i + 1 \in 0 .. n
    BY <1>1
  <2>2. g[i] \in V /\ g[i + 1] = Step[<<i + 1, g[i]>>]
    <3> HIDE DEF Step, n, V
    <3>1. \A j \in 0 .. n : g[j] \in V
      BY <1>7 DEF Steps
    <3>2. \A j \in 1 .. n : g[j] = Step[<<j, g[j - 1]>>]
      BY <1>7 DEF Steps
    <3>3. i \in 0 .. n
      BY <1>10
    <3>4. g[i + 1] = Step[<<i + 1, g[(i + 1) - 1]>>]
      BY <2>1, <3>2, Zenon
    <3> QED
      BY <2>1, <3>1, <3>3, <3>4, Zenon
  <2>3. g[i + 1] = g[i] * (RrfK + (i + 1))
    <3> HIDE DEF Step, F, V
    <3> QED
      BY <1>1, <1>3, <2>1, <2>2
  <2>4. Divided(g[i] * (RrfK + (i + 1)), i + 1)
    BY <1>0, <1>10, <2>1, DividedStep
  <2> QED
    BY <2>1, <2>3, <2>4
<1>11. 0 .. n \subseteq T
  <2> HIDE DEF T
  <2> QED
    BY <1>1, <1>9, <1>10, BoundedInduction
<1>12. n \in 0 .. n
  BY <1>1
<1> QED
  BY <1>8, <1>11, <1>12

\* The first ranks get the larger shares.
LEMMA ShareFalls ==
  ASSUME NEW i \in 1 .. TopK, NEW j \in 1 .. TopK, i < j
  PROVE  /\ Denominator \div (RrfK + i) \in Nat /\ Denominator \div (RrfK + j) \in Nat
         /\ Denominator \div (RrfK + i) > Denominator \div (RrfK + j)
<1>0. TopK \in Nat \ {0} /\ RrfK \in Nat \ {0}
  BY RetrievalAssumption
<1> DEFINE x == RrfK + i
           y == RrfK + j
<1>1. x \in Nat \ {0} /\ y \in Nat \ {0} /\ x < y
  BY <1>0
<1>2. PICK m \in Nat \ {0} : Denominator = m * x
  BY DenominatorDivided DEF Divided
<1>3. PICK k \in Nat \ {0} : Denominator = k * y
  BY DenominatorDivided DEF Divided
<1> HIDE DEF x, y
<1>4. \A a, b \in Nat \ {0} : (a * b) \div b = a
  OBVIOUS
<1>5. Denominator \div x = m /\ Denominator \div y = k
  BY <1>1, <1>2, <1>3, <1>4
<1>6. m > k
  <2> SUFFICES ASSUME m <= k PROVE FALSE
    OBVIOUS
  <2>1. m * x = k * y
    BY <1>2, <1>3
  <2>2. m * x <= k * x
    BY <1>1
  <2>3. k * x < k * y
    BY <1>1
  <2>4. m * x \in Nat /\ k * x \in Nat /\ k * y \in Nat
    BY <1>1
  <2> QED
    BY <2>1, <2>2, <2>3, <2>4
<1> QED
  BY <1>5, <1>6 DEF x, y

\* A hit is listed before a more similar one only if it is found by its words.
Ranks(hits, text) ==
  \A i, j \in DOMAIN hits : i < j =>
    hits[i].vscore >= hits[j].vscore \/ (text /\ hits[i].chunk.rank > 0)

LEMMA VectorRanks ==
  ASSUME NEW corpus, Corpus(corpus), NEW hits \in VectorSearch(corpus), NEW text
  PROVE  Ranks(hits, text)
<1>1. PICK t \in SetToSeqs(Active(corpus)) :
        /\ \A i, j \in DOMAIN t : i < j => t[i].sim >= t[j].sim
        /\ hits = Plain(Cut(t, TopK))
  BY DEF VectorSearch, Ordered
<1>2. PICK s : s = Cut(t, TopK)
  OBVIOUS
<1>3. t \in Seq(Active(corpus))
  BY ActiveSmaller DEF SetToSeqs
<1>4. DOMAIN s = 1 .. Smaller(Len(t), TopK) /\ \A i \in DOMAIN s : i \in DOMAIN t /\ s[i] = t[i]
  BY <1>2, <1>3, CutIs, RetrievalAssumption
<1>5. DOMAIN hits = DOMAIN s /\ \A i \in DOMAIN s : hits[i].vscore = t[i].sim
  BY <1>1, <1>2, <1>4 DEF Plain
<1> QED
  BY <1>1, <1>4, <1>5 DEF Ranks

\* Where the ranking has a chunk.
LEMMA ShareAt ==
  ASSUME NEW S, NEW ranked \in Seq(S), NEW c
  PROVE  /\ c \notin Range(ranked) => Share(ranked, c) = 0
         /\ c \in Range(ranked) => \E i \in DOMAIN ranked :
              ranked[i] = c /\ Share(ranked, c) = Denominator \div (RrfK + i)
<1>1. ASSUME c \in Range(ranked)
      PROVE  \E i \in DOMAIN ranked : ranked[i] = c /\ Share(ranked, c) = Denominator \div (RrfK + i)
  <2> DEFINE i == CHOOSE k \in DOMAIN ranked : ranked[k] = c
  <2>1. \E k \in DOMAIN ranked : ranked[k] = c
    BY <1>1 DEF Range
  <2>2. i \in DOMAIN ranked /\ ranked[i] = c
    BY <2>1
  <2>3. Share(ranked, c) = Denominator \div (RrfK + i)
    BY <1>1 DEF Share
  <2> HIDE DEF i
  <2> QED
    BY <2>2, <2>3
<1> QED
  BY <1>1 DEF Share

LEMMA ArrangedList ==
  ASSUME NEW S, IsFiniteSet(S), NEW t \in SetToSeqs(S)
  PROVE  t \in Seq(S)
<1>1. Cardinality(S) \in Nat
  BY FS_CardinalityType
<1>2. PICK n \in Nat : n = Cardinality(S)
  BY <1>1
<1>3. t \in [1 .. n -> S]
  BY <1>2 DEF SetToSeqs
<1> QED
  BY <1>3

LEMMA HybridRanks ==
  ASSUME NEW corpus, Corpus(corpus), NEW hits \in HybridSearch(corpus)
  PROVE  Ranks(hits, TRUE)
<1> DEFINE Ranked == {c \in corpus : c.rank > 0}
<1>1. PICK v \in ByVector(corpus), b \in ByText(corpus) : hits \in Fuse(v, b)
  BY DEF HybridSearch
<1>2. PICK v0 \in SetToSeqs(corpus) :
        v = Cut(v0, TopK) /\ \A i, j \in DOMAIN v0 : i < j => v0[i].sim >= v0[j].sim
  BY DEF ByVector, Ordered
<1>3. PICK b0 \in SetToSeqs(Ranked) : b = Cut(b0, TopK)
  BY DEF ByText, Ordered
<1> DEFINE found == Range(v) \cup Range(b)
<1>4. PICK s, s0 :
        /\ s0 \in SetToSeqs(Active(found)) /\ s = Cut(s0, TopK)
        /\ \A i, j \in DOMAIN s0 : i < j => Rrf(v, b, s0[i]) >= Rrf(v, b, s0[j])
        /\ hits = [i \in DOMAIN s |-> [chunk |-> s[i], score |-> Rrf(v, b, s[i]),
                                       vscore |-> IF s[i] \in Range(v) THEN s[i].sim ELSE 0]]
  BY <1>1 DEF Fuse, Ordered
<1>5. TopK \in Nat \ {0} /\ RrfK \in Nat \ {0} /\ IsFiniteSet(corpus)
  BY RetrievalAssumption DEF Corpus
<1>6. v0 \in Seq(corpus) /\ b0 \in Seq(Ranked)
  <2>1. IsFiniteSet(Ranked)
    BY <1>5, FS_Subset
  <2> HIDE DEF Ranked
  <2> QED
    BY <1>2, <1>3, <1>5, <2>1, ArrangedList
<1>7. /\ v \in Seq(corpus) /\ DOMAIN v \subseteq 1 .. TopK
      /\ \A i \in DOMAIN v : i \in DOMAIN v0 /\ v[i] = v0[i]
  <2>1. /\ v \in Seq(corpus) /\ DOMAIN v = 1 .. Smaller(Len(v0), TopK) /\ Smaller(Len(v0), TopK) <= TopK
        /\ Smaller(Len(v0), TopK) \in 0 .. Len(v0)
        /\ \A i \in DOMAIN v : i \in DOMAIN v0 /\ v[i] = v0[i]
    BY <1>2, <1>5, <1>6, CutIs
  <2>2. Len(v0) \in Nat
    BY <1>6
  <2> QED
    BY <1>5, <2>1, <2>2
<1>8. b \in Seq(Ranked) /\ DOMAIN b \subseteq 1 .. TopK
  <2>1. /\ b \in Seq(Ranked) /\ DOMAIN b = 1 .. Smaller(Len(b0), TopK) /\ Smaller(Len(b0), TopK) <= TopK
        /\ Smaller(Len(b0), TopK) \in 0 .. Len(b0)
    BY <1>3, <1>5, <1>6, CutIs
  <2>2. Len(b0) \in Nat
    BY <1>6
  <2> QED
    BY <1>5, <2>1, <2>2
<1>9. Range(v) \subseteq corpus /\ Range(b) \subseteq Ranked
  BY <1>7, <1>8 DEF Range
<1>10. s0 \in Seq(Active(found)) /\ \A i \in DOMAIN s : i \in DOMAIN s0 /\ s[i] = s0[i] /\ s[i] \in found
  <2>1. found \in SUBSET corpus
    BY <1>9
  <2>2. Active(found) \in SUBSET corpus
    BY <2>1 DEF Active
  <2>3. Cardinality(Active(found)) \in Nat
    BY <1>5, <2>2, FS_Subset, FS_CardinalityType
  <2> HIDE DEF found
  <2>4. s0 \in Seq(Active(found))
    BY <1>4, <2>3 DEF SetToSeqs
  <2>5. \A i \in DOMAIN s : i \in DOMAIN s0 /\ s[i] = s0[i]
    BY <1>4, <1>5, <2>4, CutIs
  <2> QED
    BY <2>4, <2>5 DEF Active
<1>11. \A c : Share(v, c) \in Nat /\ Share(b, c) \in Nat
  <2> TAKE c
  <2>1. \A i \in 1 .. TopK : Denominator \div (RrfK + i) \in Nat
    <3> TAKE i \in 1 .. TopK
    <3>1. Denominator \in Nat /\ RrfK + i \in Nat \ {0}
      BY <1>5, DenominatorDivided DEF Divided
    <3> QED
      BY <3>1
  <2> QED
    BY <1>7, <1>8, <2>1, ShareAt
<1> HIDE DEF found
<1>12. SUFFICES ASSUME NEW i \in DOMAIN hits, NEW j \in DOMAIN hits, i < j,
                       hits[i].vscore < hits[j].vscore, ~(hits[i].chunk.rank > 0)
                PROVE  FALSE
  <2>1. DOMAIN hits = DOMAIN s
    BY <1>4
  <2>2. \A k \in DOMAIN hits : hits[k].vscore \in Nat
    BY <1>4, <1>9, <1>10 DEF Corpus, found
  <2> QED
    BY <2>2 DEF Ranks
<1>13. /\ i \in DOMAIN s /\ j \in DOMAIN s /\ s[i] \in found /\ s[j] \in found
       /\ hits[i].chunk = s[i]
       /\ hits[i].vscore = (IF s[i] \in Range(v) THEN s[i].sim ELSE 0)
       /\ hits[j].vscore = (IF s[j] \in Range(v) THEN s[j].sim ELSE 0)
  BY <1>4, <1>10, <1>12
<1>14. s[i] \notin Range(b) /\ s[i] \in Range(v)
  BY <1>9, <1>12, <1>13 DEF found
<1>15. s[j] \in Range(v) /\ s[i].sim < s[j].sim
  <2>1. s[i].sim \in Nat
    BY <1>9, <1>14 DEF Corpus
  <2> QED
    BY <1>12, <1>13, <1>14, <2>1
<1>16. PICK x \in DOMAIN v : v[x] = s[i] /\ Share(v, s[i]) = Denominator \div (RrfK + x)
  BY <1>7, <1>14, ShareAt
<1>17. PICK y \in DOMAIN v : v[y] = s[j] /\ Share(v, s[j]) = Denominator \div (RrfK + y)
  BY <1>7, <1>15, ShareAt
<1>18. x \in 1 .. TopK /\ y \in 1 .. TopK /\ y < x
  <2>1. x \in 1 .. TopK /\ y \in 1 .. TopK
    BY <1>7
  <2>2. s[i].sim \in Nat /\ s[j].sim \in Nat
    BY <1>9, <1>14, <1>15 DEF Corpus
  <2>3. x # y
    BY <1>15, <1>16, <1>17, <2>2
  <2>4. ~(x < y)
    <3> SUFFICES ASSUME x < y PROVE FALSE
      OBVIOUS
    <3>1. v0[x].sim >= v0[y].sim
      BY <1>2, <1>7
    <3> QED
      BY <1>7, <1>15, <1>16, <1>17, <2>2, <3>1
  <2> QED
    BY <1>5, <2>1, <2>3, <2>4
<1>19. Share(v, s[j]) > Share(v, s[i])
  BY <1>16, <1>17, <1>18, ShareFalls
<1>20. Rrf(v, b, s[i]) = Share(v, s[i]) /\ Rrf(v, b, s[j]) = Share(v, s[j]) + Share(b, s[j])
  <2>1. Share(b, s[i]) = 0
    BY <1>8, <1>14, ShareAt
  <2> QED
    BY <1>11, <2>1 DEF Rrf
<1>21. Rrf(v, b, s[i]) >= Rrf(v, b, s[j])
  BY <1>4, <1>10, <1>12, <1>13
<1> QED
  BY <1>11, <1>19, <1>20, <1>21

\* A step of the removal of neighbours.
Neighbour(h) == <<h.chunk.doc, h.chunk.index - 1>>
KeepUnlessNext(kept, h) ==
  IF \E g \in Range(kept) : Key(g) = Neighbour(h) THEN kept ELSE Append(kept, h)

LEMMA DeduplicateSteps ==
  ASSUME NEW R, NEW hits \in Seq(R)
  PROVE  \E g : /\ g \in [0 .. Len(hits) -> Seq(R)]
                /\ g[0] = << >> /\ g[Len(hits)] = Deduplicate(hits)
                /\ \A i \in 1 .. Len(hits) : g[i] = KeepUnlessNext(g[i - 1], hits[i])
<1> DEFINE n == Len(hits)
           Step == [p \in (1 .. n) \X Seq(R) |-> KeepUnlessNext(p[2], hits[p[1]])]
           Fold(f) == f = [t \in SUBSET (1 .. n) |->
                       IF t = {} THEN << >>
                       ELSE LET x == Max(t) IN
                            IF \E g \in Range(f[t \ {x}]) : Key(g) = <<hits[x].chunk.doc, hits[x].chunk.index - 1>>
                            THEN f[t \ {x}] ELSE Append(f[t \ {x}], hits[x])]
<1>1. n \in Nat /\ DOMAIN hits = 1 .. n
  OBVIOUS
<1>2. Stepping(n, Seq(R), << >>, Step)
  BY <1>1 DEF Stepping, KeepUnlessNext
<1>3. \A x \in 1 .. n, q \in Seq(R) : Step[<<x, q>>] = KeepUnlessNext(q, hits[x])
  OBVIOUS
<1>4. \E f : Fold(f)
  <2>1. PICK f : ListFold(f, n, Seq(R), << >>, Step)
    <3> HIDE DEF n, Step
    <3> QED
      BY <1>2, ListFoldExists
  <2>2. \A t \in SUBSET (1 .. n) : t # {} => f[t] = KeepUnlessNext(f[t \ {Max(t)}], hits[Max(t)])
    <3> HIDE DEF Step
    <3> QED
      BY <1>3, <2>1 DEF ListFold
  <2>3. Fold(f)
    BY <2>1, <2>2 DEF KeepUnlessNext, Neighbour, ListFold
  <2> QED
    BY <2>3
<1>5. PICK f : Fold(f) /\ f[1 .. n] = Deduplicate(hits)
  BY <1>1, <1>4 DEF Deduplicate, FoldLeft, MapThenFoldSet
<1>6. f[{}] = << >>
  BY <1>5
<1>7. ASSUME NEW t \in SUBSET (1 .. n), t # {}, f[t \ {Max(t)}] \in Seq(R)
      PROVE  f[t] = Step[<<Max(t), f[t \ {Max(t)}]>>]
  <2>1. Max(t) \in 1 .. n
    BY <1>1, <1>7, Extremes
  <2>2. f[t] = KeepUnlessNext(f[t \ {Max(t)}], hits[Max(t)])
    BY <1>5, <1>7 DEF KeepUnlessNext, Neighbour
  <2> HIDE DEF Step
  <2> QED
    BY <1>3, <1>7, <2>1, <2>2
<1> DEFINE g == [i \in 0 .. n |-> f[1 .. i]]
<1>8. Steps(g, n, Seq(R), << >>, Step)
  <2> HIDE DEF n, Step
  <2>1. Folded(f, n, Seq(R), << >>, Step)
    BY <1>6, <1>7 DEF Folded
  <2> QED
    BY <1>2, <2>1, ListFoldSteps
<1>9. g[n] = Deduplicate(hits)
  <2>1. n \in 0 .. n
    BY <1>1
  <2> HIDE DEF n, Fold
  <2> QED
    BY <1>5, <2>1
<1> HIDE DEF g
<1>10. \A i \in 1 .. n : g[i] = KeepUnlessNext(g[i - 1], hits[i])
  <2> TAKE i \in 1 .. n
  <2>1. i - 1 \in 0 .. n
    BY <1>1
  <2>2. g[i - 1] \in Seq(R) /\ g[i] = Step[<<i, g[i - 1]>>]
    BY <1>8, <2>1 DEF Steps
  <2> QED
    BY <1>3, <2>2
<1> QED
  BY <1>8, <1>9, <1>10 DEF Steps

\* A step of the lexical path.
AddUnlessFound(lexical, all, h) ==
  IF h.chunk \in {lexical[i].chunk : i \in DOMAIN lexical} THEN all ELSE Append(all, h)

Joining(g, lexical, hits) ==
  /\ g[0] = lexical /\ g[Len(hits)] = Join(lexical, hits)
  /\ \A i \in 1 .. Len(hits) : g[i] = AddUnlessFound(lexical, g[i - 1], hits[i])

LEMMA JoinSteps ==
  ASSUME NEW R, NEW hits \in Seq(R), NEW lexical \in Seq(R)
  PROVE  \E g : Joining(g, lexical, hits)
<1> DEFINE n == Len(hits)
           Step == [p \in (1 .. n) \X Seq(R) |-> AddUnlessFound(lexical, p[2], hits[p[1]])]
           Fold(f) == f = [t \in SUBSET (1 .. n) |->
                       IF t = {} THEN lexical
                       ELSE LET x == Max(t) IN
                            IF hits[x].chunk \in {lexical[i].chunk : i \in DOMAIN lexical} THEN f[t \ {x}] ELSE Append(f[t \ {x}], hits[x])]
<1>1. n \in Nat /\ DOMAIN hits = 1 .. n
  OBVIOUS
<1>2. Stepping(n, Seq(R), lexical, Step)
  BY <1>1 DEF Stepping, AddUnlessFound
<1>3. \A x \in 1 .. n, q \in Seq(R) : Step[<<x, q>>] = AddUnlessFound(lexical, q, hits[x])
  OBVIOUS
<1>4. \E f : Fold(f)
  <2>1. PICK f : ListFold(f, n, Seq(R), lexical, Step)
    <3> HIDE DEF n, Step
    <3> QED
      BY <1>2, ListFoldExists
  <2>2. \A t \in SUBSET (1 .. n) : t # {} => f[t] = AddUnlessFound(lexical, f[t \ {Max(t)}], hits[Max(t)])
    <3> HIDE DEF Step
    <3> QED
      BY <1>3, <2>1 DEF ListFold
  <2>3. Fold(f)
    BY <2>1, <2>2 DEF AddUnlessFound, ListFold
  <2> QED
    BY <2>3
<1>5. PICK f : Fold(f) /\ f[1 .. n] = Join(lexical, hits)
  BY <1>1, <1>4 DEF Join, FoldLeft, MapThenFoldSet
<1>6. f[{}] = lexical
  BY <1>5
<1>7. ASSUME NEW t \in SUBSET (1 .. n), t # {}, f[t \ {Max(t)}] \in Seq(R)
      PROVE  f[t] = Step[<<Max(t), f[t \ {Max(t)}]>>]
  <2>1. Max(t) \in 1 .. n
    BY <1>1, <1>7, Extremes
  <2>2. f[t] = AddUnlessFound(lexical, f[t \ {Max(t)}], hits[Max(t)])
    BY <1>5, <1>7 DEF AddUnlessFound
  <2> HIDE DEF Step
  <2> QED
    BY <1>3, <1>7, <2>1, <2>2
<1> DEFINE g == [i \in 0 .. n |-> f[1 .. i]]
<1>8. Steps(g, n, Seq(R), lexical, Step)
  <2> HIDE DEF n, Step
  <2>1. Folded(f, n, Seq(R), lexical, Step)
    BY <1>6, <1>7 DEF Folded
  <2> QED
    BY <1>2, <2>1, ListFoldSteps
<1>9. g[n] = Join(lexical, hits)
  <2>1. n \in 0 .. n
    BY <1>1
  <2> HIDE DEF n, Fold
  <2> QED
    BY <1>5, <2>1
<1> HIDE DEF g
<1>10. \A i \in 1 .. n : g[i] = AddUnlessFound(lexical, g[i - 1], hits[i])
  <2> TAKE i \in 1 .. n
  <2>1. i - 1 \in 0 .. n
    BY <1>1
  <2>2. g[i - 1] \in Seq(R) /\ g[i] = Step[<<i, g[i - 1]>>]
    BY <1>8, <2>1 DEF Steps
  <2> QED
    BY <1>3, <2>2
<1> QED
  BY <1>8, <1>9, <1>10 DEF Steps, Joining

-----------------------------------------------------------------------------
\* What the removal of neighbours has kept of the first i hits.
Kept(q, hits, i) ==
  /\ q \in Seq(Range(hits)) /\ Len(q) <= i
  /\ \A k \in DOMAIN q : \E j \in 1 .. i : q[k] = hits[j]
  /\ \A k, l \in DOMAIN q : q[k].chunk = q[l].chunk => k = l
  /\ \A j \in 1 .. i : \E k \in DOMAIN q : q[k] = hits[j] \/ Key(q[k]) = Neighbour(hits[j])

LEMMA KeptStep ==
  ASSUME NEW corpus, NEW n \in Nat, NEW hits, Hits(corpus, hits, n), NEW i \in 1 .. Len(hits),
         NEW q, Kept(q, hits, i - 1)
  PROVE  Kept(KeepUnlessNext(q, hits[i]), hits, i)
<1> DEFINE p == KeepUnlessNext(q, hits[i])
<1>1. hits \in Seq(Range(hits)) /\ DOMAIN hits = 1 .. Len(hits) /\ Len(hits) \in Nat /\ i \in DOMAIN hits
  BY DEF Hits
<1>2. /\ q \in Seq(Range(hits)) /\ Len(q) \in Nat /\ Len(q) <= i - 1 /\ DOMAIN q = 1 .. Len(q)
      /\ \A k \in DOMAIN q : \E j \in 1 .. i - 1 : q[k] = hits[j]
      /\ \A k, l \in DOMAIN q : q[k].chunk = q[l].chunk => k = l
      /\ \A j \in 1 .. i - 1 : \E k \in DOMAIN q : q[k] = hits[j] \/ Key(q[k]) = Neighbour(hits[j])
  BY DEF Kept
<1>0. /\ i \in Nat /\ i \in 1 .. i /\ \A j \in 1 .. i : j = i \/ j \in 1 .. i - 1
      /\ \A j \in 1 .. i - 1 : j \in 1 .. i /\ j \in DOMAIN hits /\ j # i
  BY <1>1
<1>3. CASE \E g \in Range(q) : Key(g) = Neighbour(hits[i])
  <2>1. p = q
    BY <1>3 DEF KeepUnlessNext
  <2>2. \E k \in DOMAIN q : Key(q[k]) = Neighbour(hits[i])
    BY <1>3 DEF Range
  <2>3. \A j \in 1 .. i : \E k \in DOMAIN q : q[k] = hits[j] \/ Key(q[k]) = Neighbour(hits[j])
    BY <1>0, <1>2, <2>2
  <2>4. \A k \in DOMAIN q : \E j \in 1 .. i : q[k] = hits[j]
    BY <1>2
  <2>5. Kept(q, hits, i)
    BY <1>2, <2>3, <2>4 DEF Kept
  <2> QED
    BY <2>1, <2>5
<1>4. CASE ~ \E g \in Range(q) : Key(g) = Neighbour(hits[i])
  <2>1. p = Append(q, hits[i])
    BY <1>4 DEF KeepUnlessNext
  <2>2. hits[i] \in Range(hits)
    BY <1>1 DEF Range
  <2>3. /\ p \in Seq(Range(hits)) /\ Len(p) = Len(q) + 1 /\ DOMAIN p = 1 .. Len(q) + 1
        /\ \A k \in 1 .. Len(q) : p[k] = q[k]
        /\ p[Len(q) + 1] = hits[i]
    BY <1>2, <2>1, <2>2
  <2> HIDE DEF p
  <2>10. /\ \A k \in DOMAIN p : k = Len(q) + 1 \/ (k \in DOMAIN q /\ p[k] = q[k])
         /\ Len(q) + 1 \in DOMAIN p
    <3>1. \A k \in 1 .. Len(q) + 1 : k = Len(q) + 1 \/ k \in 1 .. Len(q)
      BY <1>2
    <3>2. Len(q) + 1 \in 1 .. Len(q) + 1
      BY <1>2
    <3> QED
      BY <1>2, <2>3, <3>1, <3>2
  <2>4. ASSUME NEW k \in DOMAIN p PROVE \E j \in 1 .. i : p[k] = hits[j]
    <3>1. CASE k = Len(q) + 1
      BY <1>0, <2>3, <3>1
    <3>2. CASE k # Len(q) + 1
      <4>1. k \in DOMAIN q /\ p[k] = q[k]
        BY <2>10, <3>2
      <4>2. PICK j \in 1 .. i - 1 : q[k] = hits[j]
        BY <1>2, <4>1
      <4> QED
        BY <1>0, <4>1, <4>2
    <3> QED
      BY <3>1, <3>2
  <2>5. ASSUME NEW k \in DOMAIN q PROVE q[k].chunk # hits[i].chunk
    <3>1. PICK j \in 1 .. i - 1 : q[k] = hits[j]
      BY <1>2
    <3>2. \A l, m \in DOMAIN hits : hits[l].chunk = hits[m].chunk => l = m
      BY DEF Hits
    <3>3. hits[j].chunk # hits[i].chunk
      BY <1>0, <1>1, <3>2
    <3> QED
      BY <3>1, <3>3
  <2>6. \A k, l \in DOMAIN p : p[k].chunk = p[l].chunk => k = l
    <3>1. \A k, l \in DOMAIN q : p[k].chunk = p[l].chunk => k = l
      BY <1>2, <2>3
    <3>2. \A k \in DOMAIN q : p[k].chunk # p[Len(q) + 1].chunk
      BY <1>2, <2>3, <2>5
    <3> QED
      BY <2>10, <3>1, <3>2
  <2>7. \A j \in 1 .. i : \E k \in DOMAIN p : p[k] = hits[j] \/ Key(p[k]) = Neighbour(hits[j])
    <3> TAKE j \in 1 .. i
    <3>1. CASE j = i
      BY <3>1, <2>3, <2>10
    <3>2. CASE j # i
      <4>1. PICK k \in DOMAIN q : q[k] = hits[j] \/ Key(q[k]) = Neighbour(hits[j])
        BY <3>2, <1>2
      <4>2. k \in DOMAIN p /\ p[k] = q[k]
        BY <1>2, <2>3
      <4> QED
        BY <4>1, <4>2
    <3> QED
      BY <3>1, <3>2
  <2>8. Len(p) <= i
    BY <1>2, <2>3
  <2>9. Kept(p, hits, i)
    BY <2>3, <2>4, <2>6, <2>7, <2>8 DEF Kept
  <2> QED
    BY <2>9 DEF p
<1> QED
  BY <1>3, <1>4

\* What is kept is in the order of the hits.
InTurn(q, hits, i) ==
  \A k, l \in DOMAIN q : k < l => \E x, y \in 1 .. i : x < y /\ q[k] = hits[x] /\ q[l] = hits[y]

LEMMA InTurnStep ==
  ASSUME NEW hits, hits \in Seq(Range(hits)), NEW i \in 1 .. Len(hits),
         NEW q, Kept(q, hits, i - 1), InTurn(q, hits, i - 1)
  PROVE  InTurn(KeepUnlessNext(q, hits[i]), hits, i)
<1> DEFINE p == KeepUnlessNext(q, hits[i])
<1>1. /\ q \in Seq(Range(hits)) /\ Len(q) \in Nat /\ DOMAIN q = 1 .. Len(q) /\ i \in Nat
      /\ \A k \in DOMAIN q : \E j \in 1 .. i - 1 : q[k] = hits[j]
  <2>1. q \in Seq(Range(hits)) /\ \A k \in DOMAIN q : \E j \in 1 .. i - 1 : q[k] = hits[j]
    BY Zenon DEF Kept
  <2>2. PICK V : V = Range(hits)
    OBVIOUS
  <2>3. q \in Seq(V)
    BY <2>1, <2>2
  <2>4. Len(q) \in Nat /\ DOMAIN q = 1 .. Len(q)
    BY <2>3
  <2>5. i \in Nat
    OBVIOUS
  <2> QED
    BY <2>1, <2>4, <2>5, Zenon
<1>2. i \in 1 .. i /\ \A j \in 1 .. i - 1 : j \in 1 .. i /\ j < i
  BY <1>1
<1>3. \A k, l \in DOMAIN q : k < l => \E x, y \in 1 .. i : x < y /\ q[k] = hits[x] /\ q[l] = hits[y]
  BY <1>2 DEF InTurn
<1>4. CASE p = q
  BY <1>3, <1>4 DEF InTurn
<1>5. CASE p = Append(q, hits[i])
  <2>1. hits[i] \in Range(hits)
    BY DEF Range
  <2>2. /\ DOMAIN p = 1 .. Len(q) + 1 /\ p[Len(q) + 1] = hits[i]
        /\ \A k \in 1 .. Len(q) : p[k] = q[k]
    BY <1>1, <1>5, <2>1
  <2> HIDE DEF p
  <2>3. ASSUME NEW k \in DOMAIN p, NEW l \in DOMAIN p, k < l
        PROVE  \E x, y \in 1 .. i : x < y /\ p[k] = hits[x] /\ p[l] = hits[y]
    <3>1. k \in DOMAIN q /\ p[k] = q[k]
      BY <1>1, <2>2, <2>3
    <3>2. CASE l = Len(q) + 1
      <4>1. PICK x \in 1 .. i - 1 : q[k] = hits[x]
        BY <1>1, <3>1
      <4> QED
        BY <1>2, <2>2, <3>1, <3>2, <4>1
    <3>3. CASE l # Len(q) + 1
      <4>1. l \in DOMAIN q /\ p[l] = q[l]
        BY <1>1, <2>2, <3>3
      <4> QED
        BY <1>3, <2>3, <3>1, <4>1
    <3> QED
      BY <3>2, <3>3
  <2> QED
    BY <2>3 DEF InTurn, p
<1> QED
  BY <1>4, <1>5 DEF KeepUnlessNext

LEMMA DeduplicateKeeps ==
  ASSUME NEW corpus, NEW n \in Nat, NEW hits, Hits(corpus, hits, n)
  PROVE  Kept(Deduplicate(hits), hits, Len(hits)) /\ InTurn(Deduplicate(hits), hits, Len(hits))
<1>1. hits \in Seq(Range(hits)) /\ Len(hits) \in Nat
  BY DEF Hits
<1>2. PICK g : /\ g \in [0 .. Len(hits) -> Seq(Range(hits))]
               /\ g[0] = << >> /\ g[Len(hits)] = Deduplicate(hits)
               /\ \A i \in 1 .. Len(hits) : g[i] = KeepUnlessNext(g[i - 1], hits[i])
  BY <1>1, DeduplicateSteps
<1> DEFINE T == {i \in 0 .. Len(hits) : Kept(g[i], hits, i) /\ InTurn(g[i], hits, i)}
<1>3. 0 \in T
  BY <1>1, <1>2 DEF Kept, InTurn
<1>4. ASSUME NEW i \in 0 .. Len(hits) - 1, i \in T PROVE i + 1 \in T
  <2>1. i + 1 \in 1 .. Len(hits) /\ (i + 1) - 1 = i /\ i + 1 \in 0 .. Len(hits)
    BY <1>1
  <2>2. Kept(KeepUnlessNext(g[i], hits[i + 1]), hits, i + 1)
    BY <1>4, <2>1, KeptStep
  <2>3. g[i + 1] = KeepUnlessNext(g[i], hits[i + 1])
    BY <1>2, <2>1
  <2>4. InTurn(KeepUnlessNext(g[i], hits[i + 1]), hits, i + 1)
    BY <1>1, <1>4, <2>1, InTurnStep
  <2> QED
    BY <2>1, <2>2, <2>3, <2>4
<1>5. 0 .. Len(hits) \subseteq T
  <2> HIDE DEF T
  <2> QED
    BY <1>1, <1>3, <1>4, BoundedInduction
<1> QED
  BY <1>1, <1>2, <1>5

\* Where the limit cuts nothing off, an active chunk is hit or the one before it is.
Covered(corpus, hits) ==
  Cardinality(corpus) <= TopK =>
    \A d \in Active(corpus) : \E i \in DOMAIN hits :
      \/ hits[i].chunk = d
      \/ hits[i].chunk.doc = d.doc /\ hits[i].chunk.index + 1 = d.index

LEMMA DeduplicateHits ==
  ASSUME NEW corpus, Corpus(corpus), NEW n \in Nat, NEW hits, Hits(corpus, hits, n), Full(corpus, hits)
  PROVE  Hits(corpus, Deduplicate(hits), n) /\ Covered(corpus, Deduplicate(hits))
<1>1. PICK q : q = Deduplicate(hits)
  OBVIOUS
<1>2. Kept(q, hits, Len(hits))
  BY <1>1, DeduplicateKeeps
<1>3. hits \in Seq(Range(hits)) /\ DOMAIN hits = 1 .. Len(hits) /\ Len(hits) \in Nat /\ Len(hits) <= n
  BY DEF Hits
<1>4. q \in Seq(Range(hits)) /\ Len(q) \in Nat /\ DOMAIN q = 1 .. Len(q) /\ Len(q) <= Len(hits)
  BY <1>2 DEF Kept
<1>5. \A k \in DOMAIN q : \E j \in DOMAIN hits : q[k] = hits[j]
  BY <1>2, <1>3 DEF Kept
<1>6. \A k \in DOMAIN q : /\ q[k].chunk \in Active(corpus)
                          /\ q[k].vscore \in Nat /\ q[k].vscore <= q[k].chunk.sim
  BY <1>5 DEF Hits
<1>7. q \in Seq(Range(q))
  BY <1>4 DEF Range
<1>8. Hits(corpus, q, n)
  <2>1. \A i, j \in DOMAIN q : q[i].chunk = q[j].chunk => i = j
    BY <1>2 DEF Kept
  <2>2. Len(q) <= n
    BY <1>3, <1>4
  <2> QED
    BY <1>6, <1>7, <2>1, <2>2 DEF Hits
<1>9. Covered(corpus, q)
  <2> SUFFICES ASSUME Cardinality(corpus) <= TopK, NEW d \in Active(corpus)
               PROVE  \E i \in DOMAIN q : \/ q[i].chunk = d
                                          \/ q[i].chunk.doc = d.doc /\ q[i].chunk.index + 1 = d.index
    BY DEF Covered
  <2>1. PICK j \in DOMAIN hits : hits[j].chunk = d
    BY DEF Full
  <2>2. PICK k \in DOMAIN q : q[k] = hits[j] \/ Key(q[k]) = Neighbour(hits[j])
    BY <1>2, <1>3 DEF Kept
  <2>3. d.index \in Nat /\ q[k].chunk.index \in Nat
    BY <1>6, ActiveSmaller DEF Corpus
  <2>4. Key(q[k]) = Neighbour(hits[j]) => q[k].chunk.doc = d.doc /\ q[k].chunk.index = d.index - 1
    BY <2>1 DEF Key, Neighbour
  <2> QED
    BY <2>1, <2>2, <2>3, <2>4
<1> QED
  BY <1>1, <1>8, <1>9

LEMMA DeduplicateRanks ==
  ASSUME NEW corpus, NEW n \in Nat, NEW hits, Hits(corpus, hits, n), NEW text, Ranks(hits, text)
  PROVE  Ranks(Deduplicate(hits), text)
<1>1. PICK q : q = Deduplicate(hits)
  OBVIOUS
<1>2. InTurn(q, hits, Len(hits)) /\ DOMAIN hits = 1 .. Len(hits)
  BY <1>1, DeduplicateKeeps DEF Hits
<1>3. Ranks(q, text)
  BY <1>2 DEF InTurn, Ranks
<1> QED
  BY <1>1, <1>3

-----------------------------------------------------------------------------
\* What the lexical path has after the first i hits.
Joined(q, lexical, hits, i) ==
  /\ q \in Seq(Range(lexical) \cup Range(hits)) /\ Len(q) >= Len(lexical)
  /\ \A k \in DOMAIN lexical : q[k] = lexical[k]
  /\ \A k \in DOMAIN q : k > Len(lexical) =>
       /\ \E j \in 1 .. i : q[k] = hits[j]
       /\ \A m \in DOMAIN lexical : q[k].chunk # lexical[m].chunk
  /\ \A k, l \in DOMAIN q : q[k].chunk = q[l].chunk => k = l

LEMMA JoinedStep ==
  ASSUME NEW corpus, NEW n \in Nat, NEW hits, Hits(corpus, hits, n), NEW i \in 1 .. Len(hits),
         NEW lexical, lexical \in Seq(Range(lexical)),
         NEW q, Joined(q, lexical, hits, i - 1)
  PROVE  Joined(AddUnlessFound(lexical, q, hits[i]), lexical, hits, i)
<1> DEFINE p == AddUnlessFound(lexical, q, hits[i])
           V == Range(lexical) \cup Range(hits)
<1>1. hits \in Seq(Range(hits)) /\ DOMAIN hits = 1 .. Len(hits) /\ Len(hits) \in Nat /\ i \in DOMAIN hits
  BY DEF Hits
<1>2. /\ q \in Seq(V) /\ Len(q) \in Nat /\ Len(q) >= Len(lexical) /\ DOMAIN q = 1 .. Len(q)
      /\ \A k \in DOMAIN lexical : q[k] = lexical[k]
      /\ \A k \in DOMAIN q : k > Len(lexical) =>
           /\ \E j \in 1 .. i - 1 : q[k] = hits[j]
           /\ \A m \in DOMAIN lexical : q[k].chunk # lexical[m].chunk
      /\ \A k, l \in DOMAIN q : q[k].chunk = q[l].chunk => k = l
  BY DEF Joined
<1>0. Len(lexical) \in Nat /\ DOMAIN lexical = 1 .. Len(lexical)
  OBVIOUS
<1>3. CASE hits[i].chunk \in {lexical[m].chunk : m \in DOMAIN lexical}
  <2>1. p = q
    BY <1>3 DEF AddUnlessFound
  <2>2. \A k \in DOMAIN q : k > Len(lexical) =>
           /\ \E j \in 1 .. i : q[k] = hits[j]
           /\ \A m \in DOMAIN lexical : q[k].chunk # lexical[m].chunk
    BY <1>2
  <2> QED
    BY <1>2, <2>1, <2>2 DEF Joined
<1>4. CASE hits[i].chunk \notin {lexical[m].chunk : m \in DOMAIN lexical}
  <2>1. p = Append(q, hits[i])
    BY <1>4 DEF AddUnlessFound
  <2>2. hits[i] \in V
    BY <1>1 DEF Range
  <2> HIDE DEF V
  <2>3. /\ p \in Seq(V) /\ Len(p) = Len(q) + 1 /\ DOMAIN p = 1 .. Len(q) + 1
        /\ \A k \in 1 .. Len(q) : p[k] = q[k]
        /\ p[Len(q) + 1] = hits[i]
    BY <1>2, <2>1, <2>2
  <2> HIDE DEF p
  <2>4. \A k \in DOMAIN p : k > Len(lexical) =>
           /\ \E j \in 1 .. i : p[k] = hits[j]
           /\ \A m \in DOMAIN lexical : p[k].chunk # lexical[m].chunk
    <3> TAKE k \in DOMAIN p
    <3>1. CASE k = Len(q) + 1
      BY <3>1, <2>3, <1>4
    <3>2. CASE k # Len(q) + 1
      <4>1. k \in DOMAIN q /\ p[k] = q[k]
        BY <3>2, <1>2, <2>3
      <4> QED
        BY <4>1, <1>2
    <3> QED
      BY <3>1, <3>2
  <2>5. \A k \in DOMAIN q : q[k].chunk # hits[i].chunk
    <3> TAKE k \in DOMAIN q
    <3>1. CASE k > Len(lexical)
      <4>1. PICK j \in 1 .. i - 1 : q[k] = hits[j]
        BY <3>1, <1>2
      <4>2. \A l, m \in DOMAIN hits : hits[l].chunk = hits[m].chunk => l = m
        BY DEF Hits
      <4>3. j \in DOMAIN hits /\ j # i
        BY <1>1
      <4> QED
        BY <1>1, <4>1, <4>2, <4>3
    <3>2. CASE ~(k > Len(lexical))
      <4>1. k \in DOMAIN lexical /\ q[k] = lexical[k]
        BY <3>2, <1>0, <1>2
      <4> QED
        BY <4>1, <1>4
    <3> QED
      BY <3>1, <3>2
  <2>6. \A k, l \in DOMAIN p : p[k].chunk = p[l].chunk => k = l
    BY <1>2, <2>3, <2>5
  <2>7. \A k \in DOMAIN lexical : p[k] = lexical[k]
    BY <1>0, <1>2, <2>3
  <2>8. Len(p) >= Len(lexical)
    BY <1>0, <1>2, <2>3
  <2>9. Joined(p, lexical, hits, i)
    BY <2>3, <2>4, <2>6, <2>7, <2>8 DEF Joined, V
  <2> QED
    BY <2>9 DEF p
<1> QED
  BY <1>3, <1>4

LEMMA JoinJoins ==
  ASSUME NEW corpus, NEW n \in Nat, NEW hits, Hits(corpus, hits, n),
         NEW m \in Nat, NEW lexical, Hits(corpus, lexical, m)
  PROVE  Joined(Join(lexical, hits), lexical, hits, Len(hits))
<1>0. PICK V : V = Range(lexical) \cup Range(hits)
  OBVIOUS
<1>1. hits \in Seq(Range(hits)) /\ Len(hits) \in Nat /\ lexical \in Seq(Range(lexical))
  BY DEF Hits
<1>2. hits \in Seq(V) /\ lexical \in Seq(V)
  BY <1>0, <1>1
<1>3. PICK g : Joining(g, lexical, hits)
  BY <1>2, JoinSteps
<1> DEFINE T == {i \in 0 .. Len(hits) : Joined(g[i], lexical, hits, i)}
<1>4. 0 \in T
  <2>1. \A k, l \in DOMAIN lexical : lexical[k].chunk = lexical[l].chunk => k = l
    BY DEF Hits
  <2>2. Joined(lexical, lexical, hits, 0)
    BY <1>0, <1>1, <1>2, <2>1 DEF Joined
  <2> QED
    BY <1>1, <1>3, <2>2 DEF Joining
<1>5. ASSUME NEW i \in 0 .. Len(hits) - 1, i \in T PROVE i + 1 \in T
  <2>1. i + 1 \in 1 .. Len(hits) /\ (i + 1) - 1 = i /\ i + 1 \in 0 .. Len(hits)
    BY <1>1
  <2>2. Joined(AddUnlessFound(lexical, g[i], hits[i + 1]), lexical, hits, i + 1)
    BY <1>1, <1>5, <2>1, JoinedStep
  <2>3. g[i + 1] = AddUnlessFound(lexical, g[i], hits[i + 1])
    BY <1>3, <2>1 DEF Joining
  <2> QED
    BY <2>1, <2>2, <2>3
<1>6. 0 .. Len(hits) \subseteq T
  <2> HIDE DEF T
  <2> QED
    BY <1>1, <1>4, <1>5, BoundedInduction
<1> QED
  BY <1>1, <1>3, <1>6 DEF Joining

-----------------------------------------------------------------------------
\* What every result has.
LEMMA HeldSound ==
  ASSUME NEW corpus, Corpus(corpus), NEW hits, Hits(corpus, hits, TopK)
  PROVE  /\ Chunks(hits) \subseteq Active(corpus) /\ IsFiniteSet(Chunks(hits))
         /\ Len(hits) <= TopK /\ Cardinality(Chunks(hits)) = Len(hits)
<1>1. /\ Len(hits) \in Nat /\ DOMAIN hits = 1 .. Len(hits) /\ Len(hits) <= TopK
      /\ Chunks(hits) \subseteq Active(corpus)
  BY DEF Hits, Chunks
<1> DEFINE f == [i \in 1 .. Len(hits) |-> hits[i].chunk]
<1>2. f \in Bijection(1 .. Len(hits), Chunks(hits))
  <2>1. /\ f \in [1 .. Len(hits) -> Chunks(hits)]
        /\ \A i, j \in 1 .. Len(hits) : f[i] = f[j] => i = j
        /\ \A d \in Chunks(hits) : \E i \in 1 .. Len(hits) : f[i] = d
    BY <1>1 DEF Hits, Chunks
  <2> HIDE DEF f
  <2> QED
    BY <2>1, Fun_IsBij
<1>3. ExistsBijection(1 .. Len(hits), Chunks(hits))
  BY <1>2 DEF ExistsBijection
<1>4. Cardinality(Chunks(hits)) = Len(hits)
  BY <1>1, <1>3, FS_CountingElements
<1>5. IsFiniteSet(Chunks(hits))
  BY <1>1, FS_Subset, ActiveSmaller
<1> QED
  BY <1>1, <1>4, <1>5

\* Evidence by vectors is that of chunks which are candidates.
LEMMA EvidenceHeld ==
  ASSUME NEW corpus, Corpus(corpus), NEW gate, gate.good \in Nat, gate.chunks \in Nat,
         NEW hits, Hits(corpus, hits, TopK), VectorEvidence(gate, hits)
  PROVE  Cardinality({d \in Chunks(hits) : d.sim >= gate.good}) >= gate.chunks
<1> DEFINE I == {i \in DOMAIN hits : hits[i].vscore >= gate.good}
           D == {d \in Chunks(hits) : d.sim >= gate.good}
           f == [i \in DOMAIN hits |-> hits[i].chunk]
<1>1. IsFiniteSet(D)
  <2>1. D \in SUBSET Chunks(hits)
    OBVIOUS
  <2> QED
    BY <2>1, HeldSound, FS_Subset
<1>2. \A i \in I : f[i] \in D
  <2> TAKE i \in I
  <2>1. /\ hits[i].chunk \in Chunks(hits) /\ hits[i].chunk \in Active(corpus)
        /\ hits[i].vscore \in Nat /\ hits[i].vscore <= hits[i].chunk.sim
        /\ hits[i].vscore >= gate.good
    BY DEF Hits, Chunks
  <2>2. hits[i].chunk.sim \in Nat
    BY <2>1, ActiveSmaller DEF Corpus
  <2> QED
    BY <2>1, <2>2
<1>3. \A i, j \in I : f[i] = f[j] => i = j
  BY DEF Hits
<1>4. IsFiniteSet(I) /\ Cardinality(I) <= Cardinality(D)
  <2> HIDE DEF I, D, f
  <2> QED
    BY <1>1, <1>2, <1>3, Injected
<1>5. Cardinality(I) \in Nat /\ Cardinality(D) \in Nat
  <2> HIDE DEF I, D
  <2> QED
    BY <1>1, <1>4, FS_CardinalityType
<1>6. Cardinality(I) >= gate.chunks
  BY DEF VectorEvidence
<1> HIDE DEF I, D
<1>7. Cardinality(D) >= gate.chunks
  BY <1>4, <1>5, <1>6
<1> QED
  BY <1>7 DEF D

LEMMA SameLength ==
  ASSUME NEW x \in Nat, NEW y \in Nat, 1 .. x = 1 .. y
  PROVE  x = y
<1>1. x <= y \/ y + 1 \in 1 .. x
  OBVIOUS
<1>2. y <= x \/ x + 1 \in 1 .. y
  OBVIOUS
<1> QED
  BY <1>1, <1>2

\* The lexical path: what it found comes first, as far as there is room.
LEMMA LexicalHeld ==
  ASSUME NEW corpus, Corpus(corpus), NEW hits, Hits(corpus, hits, TopK),
         NEW l \in LexicalHits(corpus)
  PROVE  /\ Hits(corpus, WithLexical(l, hits), TopK)
         /\ Matched(corpus, Chunks(Prompt(WithLexical(l, hits))))
<1>0. TopK \in Nat \ {0} /\ LexLimit \in Nat \ {0} /\ PromptMax \in Nat \ {0}
  BY RetrievalAssumption
<1>1. PICK t \in SetToSeqs(LexicalSearch(corpus)) : l = Plain(Cut(t, LexLimit))
  BY DEF LexicalHits, Ordered
<1>2. PICK s : s = Cut(t, LexLimit)
  OBVIOUS
<1>3. IsFiniteSet(LexicalSearch(corpus)) /\ LexicalSearch(corpus) \in SUBSET Active(corpus)
  <2>1. LexicalSearch(corpus) \in SUBSET Active(corpus)
    BY DEF LexicalSearch
  <2> QED
    BY <2>1, FS_Subset, ActiveSmaller
<1>4. Listing(s, LexicalSearch(corpus), LexLimit)
  BY <1>0, <1>2, <1>3, CutLists
<1>5. l = [i \in DOMAIN s |-> [chunk |-> s[i], score |-> s[i].sim, vscore |-> s[i].sim]]
  BY <1>1, <1>2 DEF Plain
<1>6. /\ DOMAIN l = DOMAIN s /\ l = [i \in DOMAIN l |-> l[i]]
      /\ \A i \in DOMAIN s : l[i].chunk = s[i] /\ l[i].vscore \in {0, s[i].sim}
  BY <1>5
<1>7. Hits(corpus, l, LexLimit)
  BY <1>0, <1>3, <1>4, <1>6, ListedHits
<1>8. PICK q : q = Join(l, hits)
  OBVIOUS
<1>9. Joined(q, l, hits, Len(hits))
  BY <1>0, <1>7, <1>8, JoinJoins
<1>10. /\ hits \in Seq(Range(hits)) /\ DOMAIN hits = 1 .. Len(hits) /\ Len(hits) \in Nat
       /\ l \in Seq(Range(l)) /\ DOMAIN l = 1 .. Len(l) /\ Len(l) \in Nat
  BY <1>7 DEF Hits
<1>11. /\ q \in Seq(Range(l) \cup Range(hits)) /\ Len(q) \in Nat /\ DOMAIN q = 1 .. Len(q) /\ Len(q) >= Len(l)
       /\ \A k \in DOMAIN l : q[k] = l[k]
  BY <1>9 DEF Joined
<1>12. \A k \in DOMAIN q : /\ q[k].chunk \in Active(corpus)
                           /\ q[k].vscore \in Nat /\ q[k].vscore <= q[k].chunk.sim
  <2> TAKE k \in DOMAIN q
  <2>1. CASE k > Len(l)
    <3>1. PICK j \in 1 .. Len(hits) : q[k] = hits[j]
      BY <1>9, <2>1 DEF Joined
    <3> QED
      BY <1>10, <3>1 DEF Hits
  <2>2. CASE ~(k > Len(l))
    <3>1. k \in DOMAIN l /\ q[k] = l[k]
      BY <1>10, <1>11, <2>2
    <3> QED
      BY <1>7, <3>1 DEF Hits
  <2> QED
    BY <2>1, <2>2
<1> DEFINE m == Smaller(Len(q), TopK)
           c == WithLexical(l, hits)
<1>13. m \in 0 .. Len(q) /\ m <= TopK /\ (m = Len(q) \/ m = TopK)
  BY <1>0, <1>11 DEF Smaller
<1>14. c = SubSeq(q, 1, m)
  BY <1>8 DEF WithLexical, Cut, Smaller
<1>15. PICK V : V = Range(l) \cup Range(hits)
  OBVIOUS
<1>16. /\ c \in Seq(V) /\ Len(c) = m /\ DOMAIN c = 1 .. m
       /\ \A i \in 1 .. m : c[i] = q[i] /\ i \in DOMAIN q
  <2> HIDE DEF m, c
  <2>1. q \in Seq(V) /\ Len(q) \in Nat
    BY <1>11, <1>15
  <2>2. /\ SubSeq(q, 1, m) \in Seq(V) /\ Len(SubSeq(q, 1, m)) = m
        /\ \A i \in 1 .. m : SubSeq(q, 1, m)[i] = q[i]
    BY <1>13, <2>1
  <2>3. DOMAIN c = 1 .. m
    BY <1>13, <1>14, <2>1, <2>2
  <2>4. \A i \in 1 .. m : i \in DOMAIN q
    <3>1. DOMAIN q = 1 .. Len(q)
      BY <1>11
    <3>2. \A n \in Nat : m \in 0 .. n => 1 .. m \subseteq 1 .. n
      OBVIOUS
    <3>3. 1 .. m \subseteq 1 .. Len(q)
      BY <1>13, <2>1, <3>2, Zenon
    <3> QED
      BY <3>1, <3>3, Zenon
  <2> QED
    BY <1>14, <2>2, <2>3, <2>4
<1> HIDE DEF m, c
<1>17. Hits(corpus, c, TopK)
  <2>1. \A i, j \in DOMAIN c : c[i].chunk = c[j].chunk => i = j
    BY <1>9, <1>16 DEF Joined
  <2>2. \A i \in DOMAIN c : /\ c[i].chunk \in Active(corpus)
                            /\ c[i].vscore \in Nat /\ c[i].vscore <= c[i].chunk.sim
    BY <1>12, <1>16
  <2>3. c \in Seq(Range(c)) /\ Len(c) <= TopK
    BY <1>13, <1>16 DEF Range
  <2> QED
    BY <2>1, <2>2, <2>3 DEF Hits
<1> DEFINE h == Smaller(m, PromptMax)
           p == Prompt(c)
<1>19. h \in 0 .. m /\ h <= PromptMax /\ (h = m \/ h = PromptMax) /\ m \in Nat /\ h \in Nat
  <2>1. m \in Nat
    BY <1>11, <1>13
  <2> QED
    BY <1>0, <2>1 DEF Smaller
<1>20. /\ DOMAIN p = 1 .. h
       /\ \A i \in 1 .. h : p[i] = q[i] /\ i \in DOMAIN q
  <2>1. Len(c) = m /\ c \in Seq(V) /\ DOMAIN c = 1 .. m
    BY <1>16
  <2>2. /\ DOMAIN p = 1 .. h
        /\ \A i \in DOMAIN p : i \in DOMAIN c /\ p[i] = c[i]
    BY <1>0, <2>1, CutIs DEF Prompt
  <2> HIDE DEF h, p
  <2> QED
    BY <1>16, <2>1, <2>2
<1> DEFINE k == Min({LexLimit, TopK, PromptMax})
<1>21. k \in Nat /\ k <= LexLimit /\ k <= TopK /\ k <= PromptMax
  <2> DEFINE E == {LexLimit, TopK, PromptMax}
             e == LexLimit + TopK + PromptMax
  <2>1. e \in Nat /\ E \in SUBSET (1 .. e) /\ E # {}
    BY <1>0
  <2>2. Min(E) \in E /\ \A y \in E : Min(E) <= y
    <3> HIDE DEF e, E
    <3> QED
      BY <2>1, Extremes
  <2> QED
    BY <1>0, <2>2
<1> HIDE DEF h, p, k
<1>18. ASSUME NEW d \in LexicalSearch(corpus) \ Chunks(p)
       PROVE  Cardinality(Chunks(p) \cap LexicalSearch(corpus)) >= k
  <2>1. s \in Seq(LexicalSearch(corpus)) /\ Len(s) = Len(l) /\ DOMAIN s = DOMAIN l
    <3>1. s \in Seq(LexicalSearch(corpus))
      BY <1>4 DEF Listing
    <3>2. DOMAIN s = 1 .. Len(s) /\ Len(s) \in Nat
      BY <3>1
    <3>4. 1 .. Len(s) = 1 .. Len(l)
      BY <1>6, <1>10, <3>2, Zenon
    <3>3. Len(s) = Len(l)
      <4>1. PICK x \in Nat : x = Len(s)
        BY <3>2, Zenon
      <4>2. PICK y \in Nat : y = Len(l)
        BY <1>10, Zenon
      <4>3. 1 .. x = 1 .. y
        BY <3>4, <4>1, <4>2, Zenon
      <4>4. x = y
        BY <4>3, SameLength
      <4> QED
        BY <4>1, <4>2, <4>4, Zenon
    <3> QED
      BY <1>6, <3>1, <3>3, Zenon
  <2>2. Len(l) >= k
    <3>1. CASE Cardinality(LexicalSearch(corpus)) <= LexLimit
      <4>1. PICK i \in DOMAIN s : s[i] = d
        BY <1>4, <3>1 DEF Listing
      <4>2. i \in DOMAIN l /\ q[i] = l[i] /\ l[i].chunk = d
        <5>1. i \in DOMAIN l /\ l[i].chunk = d
          BY <1>6, <4>1, Zenon
        <5> QED
          BY <1>11, <5>1, Zenon
      <4>3. i \notin DOMAIN p
        <5> SUFFICES ASSUME i \in DOMAIN p PROVE FALSE
          OBVIOUS
        <5>1. p[i].chunk = d
          BY <1>20, <4>2
        <5> QED
          BY <5>1 DEF Chunks
      <4>4. i > h /\ i <= Len(l) /\ i \in Nat
        BY <1>10, <1>19, <1>20, <4>2, <4>3
      <4>5. h = PromptMax \/ h = TopK
        <5>1. h # Len(q)
          BY <1>10, <1>11, <1>19, <4>4
        <5> QED
          BY <1>13, <1>19, <5>1
      <4> QED
        BY <1>0, <1>10, <1>21, <4>4, <4>5
    <3>2. CASE Cardinality(LexicalSearch(corpus)) > LexLimit
      <4>1. Len(s) = LexLimit
        BY <1>4, <3>2 DEF Listing
      <4> QED
        BY <1>0, <1>21, <2>1, <4>1
    <3>3. Cardinality(LexicalSearch(corpus)) \in Nat
      BY <1>3, FS_CardinalityType
    <3> QED
      BY <1>0, <3>1, <3>2, <3>3
  <2>3. k \in Nat /\ k <= h
    <3>1. k <= Len(q)
      BY <1>10, <1>11, <1>21, <2>2
    <3>2. k <= m
      BY <1>13, <1>21, <3>1
    <3> QED
      BY <1>19, <1>21, <3>2
  <2> DEFINE f == [i \in 1 .. k |-> l[i].chunk]
             H == Chunks(p) \cap LexicalSearch(corpus)
  <2>4. \A i \in 1 .. k : i \in DOMAIN l /\ i \in DOMAIN p /\ p[i] = l[i]
    <3> TAKE i \in 1 .. k
    <3>1. i \in 1 .. h /\ i \in 1 .. Len(l)
      BY <1>10, <1>19, <2>2, <2>3
    <3>2. i \in DOMAIN l /\ i \in DOMAIN p
      BY <1>10, <1>20, <3>1
    <3> QED
      BY <1>11, <1>20, <3>2
  <2>5. \A i \in 1 .. k : f[i] \in H
    <3> TAKE i \in 1 .. k
    <3>1. f[i] \in Chunks(p)
      BY <2>4 DEF Chunks
    <3>2. f[i] \in LexicalSearch(corpus)
      BY <1>6, <2>1, <2>4
    <3> QED
      BY <3>1, <3>2
  <2>6. \A i, j \in 1 .. k : f[i] = f[j] => i = j
    BY <1>7, <2>4 DEF Hits
  <2>7. IsFiniteSet(H)
    BY <1>3, FS_Subset
  <2>8. Cardinality(1 .. k) <= Cardinality(H)
    <3> HIDE DEF f, H
    <3> QED
      BY <2>5, <2>6, <2>7, Injected
  <2>9. Cardinality(1 .. k) = k /\ Cardinality(H) \in Nat
    <3> HIDE DEF H
    <3> QED
      BY <2>3, <2>7, FS_Interval, FS_CardinalityType
  <2>10. Cardinality(H) >= k
    <3> HIDE DEF H
    <3> QED
      BY <2>3, <2>8, <2>9
  <2> QED
    BY <2>10
<1>23. Matched(corpus, Chunks(p))
  BY <1>18 DEF Matched, k
<1> QED
  BY <1>17, <1>23 DEF c, p

LEMMA RetrieveSound ==
  ASSUME NEW corpus, Corpus(corpus), NEW gate, Gate(gate), NEW text,
         NEW r \in Retrieve(corpus, gate, text)
  PROVE  ResultSound(corpus, gate, text, r)
<1>1. PICK all \in VectorSearch(corpus) \cup IF text THEN HybridSearch(corpus) ELSE {} :
        r \in Judge(corpus, gate, text, Deduplicate(all))
  BY DEF Retrieve
<1>2. Hits(corpus, all, TopK) /\ Full(corpus, all)
  BY <1>1, VectorHits, HybridHits
<1>10. Ranks(all, text)
  <2>1. CASE all \in VectorSearch(corpus)
    BY <2>1, VectorRanks
  <2>2. CASE all \notin VectorSearch(corpus)
    <3>1. text /\ all \in HybridSearch(corpus)
      BY <1>1, <2>2
    <3>2. Ranks(all, TRUE)
      BY <3>1, HybridRanks
    <3> QED
      BY <3>1, <3>2 DEF Ranks
  <2> QED
    BY <2>1, <2>2
<1>3. PICK hits : hits = Deduplicate(all)
  OBVIOUS
<1>4. Hits(corpus, hits, TopK) /\ Covered(corpus, hits)
  BY <1>2, <1>3, DeduplicateHits, RetrievalAssumption
<1>11. \A i \in DOMAIN Prompt(hits) : \A j \in DOMAIN hits \ DOMAIN Prompt(hits) :
         Prompt(hits)[i].vscore >= hits[j].vscore \/ (text /\ Prompt(hits)[i].chunk.rank > 0)
  <2>1. Ranks(hits, text)
    BY <1>2, <1>3, <1>10, DeduplicateRanks, RetrievalAssumption
  <2>2. hits \in Seq(Range(hits)) /\ DOMAIN hits = 1 .. Len(hits) /\ Len(hits) \in Nat
    BY <1>4 DEF Hits
  <2> DEFINE k == Smaller(Len(hits), PromptMax)
  <2>3. /\ DOMAIN Prompt(hits) = 1 .. k /\ k \in 0 .. Len(hits)
        /\ \A i \in DOMAIN Prompt(hits) : i \in DOMAIN hits /\ Prompt(hits)[i] = hits[i]
    BY <2>2, CutIs, RetrievalAssumption DEF Prompt
  <2> HIDE DEF k
  <2> TAKE i \in DOMAIN Prompt(hits)
  <2> TAKE j \in DOMAIN hits \ DOMAIN Prompt(hits)
  <2>4. i \in DOMAIN hits /\ j \in DOMAIN hits /\ i < j
    BY <2>2, <2>3
  <2>5. hits[i].vscore >= hits[j].vscore \/ (text /\ hits[i].chunk.rank > 0)
    BY <2>1, <2>4 DEF Ranks
  <2> QED
    BY <2>3, <2>5
<1>5. r \in Judge(corpus, gate, text, hits)
  BY <1>1, <1>3
<1>6. Covered(corpus, hits) =>
        (Cardinality(corpus) <= TopK =>
           \A d \in Active(corpus) \ Chunks(hits) : \E e \in Chunks(hits) : e.doc = d.doc /\ e.index + 1 = d.index)
  BY DEF Covered, Chunks
<1>7. CASE /\ VectorEvidence(gate, hits)
           /\ r = [candidates |-> hits, enough |-> TRUE, path |-> "vector"]
  <2>1. r.candidates = hits /\ r.path = "vector"
    BY <1>7
  <2>2. Cardinality({d \in Chunks(hits) : d.sim >= gate.good}) >= gate.chunks
    BY <1>4, <1>7, EvidenceHeld DEF Gate
  <2> QED
    BY <1>4, <1>6, <1>11, <2>1, <2>2, HeldSound DEF ResultSound
<1>8. CASE r = [candidates |-> hits, enough |-> FALSE, path |-> "none"]
  <2>1. r.candidates = hits /\ r.path = "none"
    BY <1>8
  <2> QED
    BY <1>4, <1>6, <1>11, <2>1, HeldSound DEF ResultSound
<1>9. CASE \E l \in LexicalHits(corpus) :
             r = [candidates |-> WithLexical(l, hits), enough |-> TRUE, path |-> "lexical"]
  <2>1. PICK l \in LexicalHits(corpus) :
               r = [candidates |-> WithLexical(l, hits), enough |-> TRUE, path |-> "lexical"]
    BY <1>9
  <2>2. PICK c : c = WithLexical(l, hits)
    OBVIOUS
  <2>3. r.candidates = c /\ r.path = "lexical"
    BY <2>1, <2>2
  <2>4. /\ Hits(corpus, c, TopK)
        /\ Matched(corpus, Chunks(Prompt(c)))
    BY <1>4, <2>2, LexicalHeld
  <2> QED
    BY <2>3, <2>4, HeldSound DEF ResultSound
<1> QED
  BY <1>5, <1>7, <1>8, <1>9 DEF Judge

-----------------------------------------------------------------------------
(* Portions of a test *)

LEMMA DivMod ==
  ASSUME NEW a \in Nat, NEW L \in Nat \ {0}
  PROVE  a = (a \div L) * L + (a % L) /\ a % L \in 0 .. L - 1 /\ a \div L \in Nat
<1>1. a = (a \div L) * L + (a % L)
  OBVIOUS
<1>2. a % L \in 0 .. L - 1
  OBVIOUS
<1>3. a \div L \in Nat
  OBVIOUS
<1> QED
  BY <1>1, <1>2, <1>3

LEMMA ModOf ==
  ASSUME NEW k \in Nat, NEW L \in Nat \ {0}, NEW r \in 0 .. L - 1
  PROVE  (k * L + r) % L = r
OBVIOUS

LEMMA MinOfTwo ==
  ASSUME NEW a \in Int, NEW b \in Int
  PROVE  Min({a, b}) = IF a <= b THEN a ELSE b
<1>1. PICK m \in {a, b} : \A y \in {a, b} : m <= y
  OBVIOUS
<1>2. Min({a, b}) \in {a, b} /\ \A y \in {a, b} : Min({a, b}) <= y
  BY <1>1 DEF Min
<1> QED
  BY <1>2

-----------------------------------------------------------------------------
(* The calls *)

Calls(n) == (n + BatchSize - 1) \div BatchSize

LEMMA CallsCover ==
  ASSUME NEW n \in Nat \ {0}
  PROVE  /\ Calls(n) \in Nat \ {0}
         /\ Calls(n) * BatchSize >= n /\ (Calls(n) - 1) * BatchSize < n
<1>1. BatchSize \in Nat \ {0}
  BY QuizAssumption
<1>2. PICK B \in Nat \ {0} : B = BatchSize
  BY <1>1
<1>3. LET K == (n + B - 1) \div B IN K \in Nat /\ K * B >= n /\ (K - 1) * B < n
  OBVIOUS
<1>4. Calls(n) \in Nat /\ Calls(n) * B >= n /\ (Calls(n) - 1) * B < n
  BY <1>2, <1>3 DEF Calls
<1>5. Calls(n) # 0
  BY <1>4
<1> QED
  BY <1>2, <1>4, <1>5

\* What the first k calls ask for.
Asked(n, k) == IF k * BatchSize < n THEN k * BatchSize ELSE n

LEMMA BatchesFacts ==
  ASSUME NEW n \in Nat \ {0}
  PROVE  /\ DOMAIN Batches(n) = 1 .. Calls(n)
         /\ \A k \in 1 .. Calls(n) : /\ Batches(n)[k] \in 1 .. BatchSize
                                     /\ (k - 1) * BatchSize + Batches(n)[k] = Asked(n, k)
                                     /\ (k - 1) * BatchSize = Asked(n, k - 1)
                                     /\ (k - 1) * BatchSize \in Nat
<1>1. DOMAIN Batches(n) = 1 .. Calls(n)
  BY DEF Batches, Calls
<1>2. BatchSize \in Nat \ {0}
  BY QuizAssumption
<1>3. ASSUME NEW k \in 1 .. Calls(n)
      PROVE  /\ Batches(n)[k] \in 1 .. BatchSize
             /\ (k - 1) * BatchSize + Batches(n)[k] = Asked(n, k)
             /\ (k - 1) * BatchSize = Asked(n, k - 1)
             /\ (k - 1) * BatchSize \in Nat
  <2>1. Calls(n) \in Nat /\ (Calls(n) - 1) * BatchSize < n
    BY CallsCover
  <2>2. PICK b \in Int : b = (k - 1) * BatchSize
    BY <1>2, <2>1
  <2>3. k * BatchSize = b + BatchSize
    BY <1>2, <2>1, <2>2
  <2>4. b \in Nat /\ b < n
    <3>1. PICK j \in Nat : k + j = Calls(n)
      <4>1. Calls(n) - k \in Nat /\ k + (Calls(n) - k) = Calls(n)
        BY <2>1
      <4> QED
        BY <4>1
    <3>2. (Calls(n) - 1) * BatchSize = b + j * BatchSize
      BY <1>2, <2>1, <2>2, <3>1
    <3>3. j * BatchSize >= 0 /\ j * BatchSize \in Int
      BY <1>2
    <3>4. b >= 0
      BY <1>2, <2>1, <2>2
    <3> QED
      BY <2>1, <2>2, <3>2, <3>3, <3>4
  <2>5. Batches(n)[k] = Min({BatchSize, n - b})
    BY <2>1, <2>2 DEF Batches, Calls
  <2>6. Batches(n)[k] = IF BatchSize <= n - b THEN BatchSize ELSE n - b
    BY <1>2, <2>4, <2>5, MinOfTwo
  <2>7. Asked(n, k) = IF b + BatchSize < n THEN b + BatchSize ELSE n
    BY <2>3 DEF Asked
  <2>8. Asked(n, k - 1) = b
    BY <2>2, <2>4 DEF Asked
  <2> QED
    BY <1>2, <2>2, <2>4, <2>6, <2>7, <2>8
<1> QED
  BY <1>1, <1>3

\* All calls together ask for n.
LEMMA BatchesSum ==
  ASSUME NEW n \in Nat \ {0}
  PROVE  SumFunction(Batches(n)) = n
<1> DEFINE K == Calls(n)
           f == Batches(n)
<1>1. K \in Nat \ {0} /\ K * BatchSize >= n
  BY CallsCover
<1>2. BatchSize \in Nat \ {0}
  BY QuizAssumption
<1>3. f \in [1 .. K -> Int] /\ \A k \in 1 .. K : f[k] = Asked(n, k) - Asked(n, k - 1)
  <2>1. f = [k \in DOMAIN f |-> f[k]]
    BY DEF Batches
  <2>2. ASSUME NEW k \in 1 .. K PROVE f[k] \in Int /\ f[k] = Asked(n, k) - Asked(n, k - 1)
    <3>1. /\ f[k] \in 1 .. BatchSize
          /\ (k - 1) * BatchSize + f[k] = Asked(n, k)
          /\ (k - 1) * BatchSize = Asked(n, k - 1)
          /\ (k - 1) * BatchSize \in Nat
      BY BatchesFacts
    <3> HIDE DEF f
    <3> QED
      BY <1>2, <3>1
  <2>3. DOMAIN f = 1 .. K
    BY BatchesFacts
  <2> HIDE DEF f, K
  <2> QED
    BY <2>1, <2>2, <2>3
<1>4. IsFiniteSet(1 .. K)
  BY <1>1, FS_Interval
<1> HIDE DEF K, f
<1>5. PICK F : Sums(F, f, 1 .. K) /\ F[1 .. K] = SumFunction(f)
  BY <1>3, <1>4, SumFunctionSums
<1> DEFINE T == {k \in 0 .. K : F[1 .. k] = Asked(n, k)}
<1>6. 0 \in T
  <2>1. 1 .. 0 = {} /\ F[{}] = 0
    BY <1>5 DEF Sums
  <2>2. 0 * BatchSize = 0
    BY <1>2
  <2>3. Asked(n, 0) = 0
    BY <2>2 DEF Asked
  <2> QED
    BY <1>1, <2>1, <2>3
<1>7. ASSUME NEW k \in 0 .. K - 1, k \in T PROVE k + 1 \in T
  <2>1. k + 1 \in 1 .. K /\ (k + 1) - 1 = k /\ k + 1 \in 0 .. K
    BY <1>1
  <2>2. 1 .. k + 1 \in SUBSET (1 .. K) /\ k + 1 \in 1 .. k + 1 /\ (1 .. k + 1) \ {k + 1} = 1 .. k
    BY <1>1
  <2>3. F[1 .. k + 1] = f[k + 1] + F[1 .. k]
    BY <1>5, <2>1, <2>2 DEF Sums
  <2>4. f[k + 1] = Asked(n, k + 1) - Asked(n, k)
    BY <1>3, <2>1
  <2>5. Asked(n, k) \in Int /\ Asked(n, k + 1) \in Int
    BY <1>2, <2>1 DEF Asked
  <2>6. F[1 .. k] = Asked(n, k)
    BY <1>7
  <2> QED
    BY <2>1, <2>3, <2>4, <2>5, <2>6
<1>8. 0 .. K \subseteq T
  <2> HIDE DEF T
  <2> QED
    BY <1>1, <1>6, <1>7, BoundedInduction
<1>9. F[1 .. K] = Asked(n, K)
  BY <1>1, <1>8
<1>10. Asked(n, K) = n
  BY <1>1, <1>2 DEF Asked
<1> QED
  BY <1>5, <1>9, <1>10 DEF f

\* The topics of a call, each with how often it is there, are as many as it asks for.
LEMMA CountsAddUp ==
  ASSUME NEW V, NEW part \in Seq(V)
  PROVE  SumFunction([t \in Range(part) |-> Cardinality({i \in DOMAIN part : part[i] = t})]) = Len(part)
<1>1. DOMAIN part = 1 .. Len(part) /\ Len(part) \in Nat
  OBVIOUS
<1>2. IsFiniteSet(DOMAIN part) /\ Cardinality(DOMAIN part) = Len(part)
  BY <1>1, FS_Interval
<1>3. IsFiniteSet(Range(part))
  <2> DEFINE f == [i \in DOMAIN part |-> part[i]]
  <2>1. f \in Surjection(DOMAIN part, Range(part))
    BY DEF Surjection, Range
  <2> HIDE DEF f
  <2> QED
    BY <1>2, <2>1, FS_Surjection
<1> DEFINE f == [t \in Range(part) |-> Cardinality({i \in DOMAIN part : part[i] = t})]
<1>4. Parts(f, Range(part), DOMAIN part, part)
  BY <1>2, <1>3 DEF Parts
<1>5. {i \in DOMAIN part : part[i] \in Range(part)} = DOMAIN part
  BY DEF Range
<1> HIDE DEF f
<1>6. SumFunction(f) = Cardinality({i \in DOMAIN part : part[i] \in Range(part)})
  BY <1>4, PartsAddUp
<1> QED
  BY <1>2, <1>5, <1>6 DEF f

LEMMA PortionSizes ==
  ASSUME NEW n \in Nat \ {0}, NEW V, NEW slots \in Seq(V), Len(slots) = n
  PROVE  /\ DOMAIN Portions(slots) = 1 .. Calls(n)
         /\ \A k \in 1 .. Calls(n) : SumFunction(Portions(slots)[k]) = Batches(n)[k]
<1>1. DOMAIN Portions(slots) = 1 .. Calls(n)
  BY BatchesFacts DEF Portions
<1>2. ASSUME NEW k \in 1 .. Calls(n)
      PROVE  SumFunction(Portions(slots)[k]) = Batches(n)[k]
  <2>1. PICK size : size = Batches(n)[k]
    OBVIOUS
  <2>2. PICK b : b = (k - 1) * BatchSize
    OBVIOUS
  <2>3. size \in 1 .. BatchSize /\ b + size = Asked(n, k) /\ b \in Nat
    BY <2>1, <2>2, BatchesFacts
  <2>4. b + size <= n
    <3>1. BatchSize \in Nat /\ Calls(n) \in Nat
      BY QuizAssumption, CallsCover
    <3>2. Asked(n, k) <= n
      BY <3>1 DEF Asked
    <3> QED
      BY <2>3, <3>2
  <2> DEFINE part == SubSeq(slots, b + 1, b + size)
  <2>5. part \in Seq(V) /\ Len(part) = size
    <3>1. BatchSize \in Nat
      BY QuizAssumption
    <3>2. size \in Nat /\ b + 1 \in Nat /\ b + size \in Nat
      BY <2>3, <3>1
    <3> QED
      BY <2>3, <2>4, <3>2
  <2>6. Portions(slots)[k] = [t \in Range(part) |-> Cardinality({i \in DOMAIN part : part[i] = t})]
    BY <2>1, <2>2, BatchesFacts DEF Portions
  <2> HIDE DEF part
  <2> QED
    BY <2>1, <2>5, <2>6, CountsAddUp
<1> QED
  BY <1>1, <1>2

LEMMA SplitFacts ==
  ASSUME NEW size \in Nat
  PROVE  /\ \A i \in 1 .. 2 : SplitCounts(size)[i] \in 0 .. size
         /\ SplitCounts(size)[1] + SplitCounts(size)[2] = size
<1>1. PICK c : c = ChoiceCount(size)
  OBVIOUS
<1>2. c \in 0 .. size
  <2>1. c = (6 * size + 5) \div 10
    BY <1>1 DEF ChoiceCount
  <2> QED
    BY <2>1
<1>3. SplitCounts(size) = <<c, size - c>>
  BY <1>1 DEF SplitCounts
<1>4. SplitCounts(size)[1] = c /\ SplitCounts(size)[2] = size - c
  BY <1>3
<1>5. size - c \in 0 .. size /\ c + (size - c) = size
  BY <1>2
<1>6. \A i \in 1 .. 2 : i = 1 \/ i = 2
  OBVIOUS
<1>7. ASSUME NEW i \in 1 .. 2 PROVE SplitCounts(size)[i] \in 0 .. size
  BY <1>2, <1>4, <1>5, <1>6
<1> QED
  BY <1>4, <1>5, <1>7

-----------------------------------------------------------------------------
(* The topics of the questions *)

\* Every topic has its place in an order.
Arrangement(o, L) ==
  /\ o \in [1 .. L -> 1 .. L] /\ Len(o) = L
  /\ \A i, j \in 1 .. L : o[i] = o[j] => i = j
  /\ \A t \in 1 .. L : \E i \in 1 .. L : o[i] = t

LEMMA OrdersArrange ==
  ASSUME NEW V, NEW sections \in Seq(V), NEW o \in Orders(sections)
  PROVE  Arrangement(o, Len(sections))
<1> DEFINE L == Len(sections)
<1>1. DOMAIN sections = 1 .. L /\ L \in Nat
  OBVIOUS
<1>2. IsFiniteSet(1 .. L) /\ Cardinality(1 .. L) = L
  BY <1>1, FS_Interval
<1> HIDE DEF L
<1>3. o \in [1 .. L -> 1 .. L] /\ \A i, j \in 1 .. L : i # j => o[i] # o[j]
  BY <1>1, <1>2 DEF Orders, SetToSeqs
<1>4. Len(o) = L
  BY <1>1, <1>3
<1>5. o \in Surjection(1 .. L, 1 .. L)
  <2>1. o \in Injection(1 .. L, 1 .. L)
    BY <1>3, Fun_IsInj
  <2> QED
    BY <1>2, <2>1, FS_Injection
<1>6. \A t \in 1 .. L : \E i \in 1 .. L : o[i] = t
  BY <1>5 DEF Surjection
<1> QED
  BY <1>3, <1>4, <1>6 DEF Arrangement, L

SlotAt(o, L, i) == o[((i - 1) % L) + 1]

\* The slot i has the topic of place p.
LEMMA PlaceOfSlot ==
  ASSUME NEW L \in Nat \ {0}, NEW o, Arrangement(o, L), NEW i \in Nat \ {0}, NEW p \in 1 .. L
  PROVE  /\ (SlotAt(o, L, i) = o[p]) <=> ((i - 1) % L = p - 1)
         /\ i <= L => SlotAt(o, L, i) = o[i]
         /\ SlotAt(o, L, i) \in 1 .. L
<1>1. (i - 1) % L \in 0 .. L - 1
  <2>1. i - 1 \in Nat
    OBVIOUS
  <2> QED
    BY <2>1, DivMod
<1>2. PICK q \in 1 .. L : q = ((i - 1) % L) + 1
  BY <1>1
<1>3. SlotAt(o, L, i) = o[q]
  BY <1>2 DEF SlotAt
<1>4. (o[q] = o[p]) <=> (q = p)
  BY DEF Arrangement
<1>5. (q = p) <=> ((i - 1) % L = p - 1)
  BY <1>1, <1>2
<1>6. i <= L => q = i
  <2> SUFFICES ASSUME i <= L PROVE q = i
    OBVIOUS
  <2>1. i - 1 \in 0 .. L - 1 /\ 0 * L + (i - 1) = i - 1
    OBVIOUS
  <2>2. (i - 1) % L = i - 1
    BY <2>1, ModOf
  <2> QED
    BY <1>2, <2>2
<1>7. o[q] \in 1 .. L
  BY DEF Arrangement
<1> QED
  BY <1>3, <1>4, <1>5, <1>6, <1>7

\* No topic comes two times more than another.
LEMMA TopicsBalanced ==
  ASSUME NEW L \in Nat \ {0}, NEW o, Arrangement(o, L), NEW n \in Nat, NEW t \in 1 .. L, NEW u \in 1 .. L
  PROVE  Cardinality({i \in 1 .. n : SlotAt(o, L, i) = t}) <= Cardinality({i \in 1 .. n : SlotAt(o, L, i) = u}) + 1
<1> DEFINE A == {i \in 1 .. n : SlotAt(o, L, i) = t}
           B == {i \in A : i > L}
           C == {i \in 1 .. n : SlotAt(o, L, i) = u}
<1>1. PICK p \in 1 .. L : o[p] = t
  BY DEF Arrangement
<1>2. PICK q \in 1 .. L : o[q] = u
  BY DEF Arrangement
<1>3. IsFiniteSet(1 .. n)
  BY FS_Interval
<1>4. IsFiniteSet(A) /\ IsFiniteSet(B) /\ IsFiniteSet(C)
  <2>1. A \in SUBSET (1 .. n) /\ B \in SUBSET (1 .. n) /\ C \in SUBSET (1 .. n)
    OBVIOUS
  <2> HIDE DEF A, B, C
  <2> QED
    BY <1>3, <2>1, FS_Subset
<1>5. Cardinality(A) \in Nat /\ Cardinality(B) \in Nat /\ Cardinality(C) \in Nat
  <2> HIDE DEF A, B, C
  <2> QED
    BY <1>4, FS_CardinalityType
<1>6. A \subseteq B \cup {p}
  <2> SUFFICES ASSUME NEW i \in A, i <= L PROVE i = p
    OBVIOUS
  <2>1. i \in Nat \ {0} /\ SlotAt(o, L, i) = o[i] /\ SlotAt(o, L, i) = t
    BY PlaceOfSlot
  <2>2. i \in 1 .. L
    BY <2>1
  <2> QED
    BY <1>1, <2>1, <2>2 DEF Arrangement
<1>7. Cardinality(A) <= Cardinality(B) + 1
  <2> HIDE DEF A, B
  <2>1. IsFiniteSet(B \cup {p}) /\ Cardinality(B \cup {p}) \in Nat /\ Cardinality(B \cup {p}) <= Cardinality(B) + 1
    <3>1. IsFiniteSet(B \cup {p}) /\ Cardinality(B \cup {p}) = IF p \in B THEN Cardinality(B) ELSE Cardinality(B) + 1
      BY <1>4, FS_AddElement
    <3> QED
      BY <1>5, <3>1
  <2>2. Cardinality(A) <= Cardinality(B \cup {p})
    BY <1>6, <2>1, FS_Subset
  <2> QED
    BY <1>5, <2>1, <2>2
<1> DEFINE f == [i \in B |-> i - L - p + q]
<1>8. ASSUME NEW i \in B PROVE f[i] \in C
  <2>1. i \in 1 .. n /\ i > L /\ i \in Nat \ {0} /\ SlotAt(o, L, i) = o[p]
    BY <1>1
  <2>2. (i - 1) % L = p - 1
    BY <2>1, PlaceOfSlot
  <2>0. i - 1 \in Nat
    BY <2>1
  <2>3. PICK k \in Nat : k = (i - 1) \div L
    BY <2>0, DivMod
  <2>4. i - 1 = k * L + (p - 1)
    BY <2>0, <2>2, <2>3, DivMod
  <2>5. k # 0
    BY <2>1, <2>4
  <2>6. k - 1 \in Nat /\ k * L = (k - 1) * L + L
    BY <2>5
  <2>7. PICK j : j = i - L - p + q
    OBVIOUS
  <2>8. j - 1 = (k - 1) * L + (q - 1)
    <3>1. (k - 1) * L \in Nat
      BY <2>6
    <3> QED
      BY <2>1, <2>4, <2>6, <2>7, <3>1
  <2>9. j \in 1 .. n
    <3>1. (k - 1) * L >= 0 /\ (k - 1) * L \in Int
      BY <2>6
    <3>2. j \in Int /\ j >= 1
      BY <2>1, <2>7, <2>8, <3>1
    <3> QED
      BY <2>1, <2>7, <3>2
  <2>10. (j - 1) % L = q - 1
    BY <2>6, <2>8, ModOf
  <2>11. SlotAt(o, L, j) = u
    BY <1>2, <2>9, <2>10, PlaceOfSlot
  <2> QED
    BY <2>7, <2>9, <2>11
<1>9. \A i, j \in B : f[i] = f[j] => i = j
  OBVIOUS
<1>10. Cardinality(B) <= Cardinality(C)
  <2> HIDE DEF B, C, f
  <2> QED
    BY <1>4, <1>8, <1>9, Injected
<1>11. Cardinality(A) <= Cardinality(C) + 1
  <2> HIDE DEF A, B, C
  <2> QED
    BY <1>5, <1>7, <1>10
<1> QED
  BY <1>11

\* How many of the first m topics of an order are in section s.
OfSection(sections, o, m, s) == Cardinality({i \in 1 .. m : sections[o[i]] = s})

\* No section is asked about twice before each other one that has topics left.
LEMMA SectionsBalanced ==
  ASSUME NEW V, NEW sections \in Seq(V), NEW o \in Orders(sections), NEW m \in 1 .. Len(sections),
         NEW s, NEW r,
         OfSection(sections, o, m, s) > OfSection(sections, o, m, r) + 1
  PROVE  OfSection(sections, o, m, r) = Size(sections, r)
<1> USE DEF OfSection
<1> DEFINE L == Len(sections)
           A == {i \in 1 .. m : sections[o[i]] = s}
           B == {i \in 1 .. m : sections[o[i]] = r}
           R == {i \in 1 .. L : sections[o[i]] = r}
<1>0. L \in Nat /\ m \in Nat /\ m <= L /\ DOMAIN sections = 1 .. L
  OBVIOUS
<1>1. Arrangement(o, L)
  BY OrdersArrange
<1>2. IsFiniteSet(1 .. L) /\ IsFiniteSet(1 .. m)
  BY <1>0, FS_Interval
<1>3. /\ A \in SUBSET (1 .. m) /\ B \in SUBSET (1 .. m) /\ R \in SUBSET (1 .. L) /\ B \in SUBSET R
  BY <1>0
<1>4. /\ IsFiniteSet(A) /\ IsFiniteSet(B) /\ IsFiniteSet(R)
      /\ Cardinality(A) \in Nat /\ Cardinality(B) \in Nat /\ Cardinality(R) \in Nat
  <2> HIDE DEF A, B, R
  <2> QED
    BY <1>2, <1>3, FS_Subset, FS_CardinalityType
<1>5. Cardinality(R) = Size(sections, r)
  <2> DEFINE P == {t \in DOMAIN sections : sections[t] = r}
             f == [i \in R |-> o[i]]
  <2>1. f \in Bijection(R, P)
    <3>1. f \in [R -> P]
      BY <1>0, <1>1 DEF Arrangement
    <3>2. \A i, j \in R : f[i] = f[j] => i = j
      BY <1>1 DEF Arrangement
    <3>3. \A t \in P : \E i \in R : f[i] = t
      BY <1>0, <1>1 DEF Arrangement
    <3> HIDE DEF R, P, f
    <3> QED
      BY <3>1, <3>2, <3>3, Fun_IsBij
  <2>2. ExistsBijection(R, P)
    BY <2>1 DEF ExistsBijection
  <2> HIDE DEF R, P
  <2>3. Cardinality(P) = Cardinality(R)
    BY <1>4, <2>2, FS_Bijection
  <2> QED
    BY <2>3 DEF Size, P
<1>6. SUFFICES ASSUME B # R PROVE FALSE
  BY <1>5
<1> DEFINE Late == {j \in R : j > m}
<1>7. Late \subseteq Nat /\ Late # {}
  BY <1>0, <1>6
<1>8. PICK j \in Late : \A k \in Late : j <= k
  <2> HIDE DEF Late
  <2> QED
    BY <1>7, SmallestOf
<1>9. PICK i \in A : \A k \in A : k <= i
  <2>1. A # {}
    <3>1. Cardinality(A) > Cardinality(B) + 1
      OBVIOUS
    <3> HIDE DEF A, B
    <3> QED
      BY <1>4, <3>1, FS_EmptySet
  <2>2. Max(A) \in A /\ \A k \in A : k <= Max(A)
    <3> HIDE DEF A
    <3> QED
      BY <1>0, <1>3, <2>1, Extremes
  <2> HIDE DEF A
  <2> QED
    BY <2>2
<1>10. {k \in 1 .. i : sections[o[k]] = sections[o[i]]} = A
  <2>1. i \in 1 .. m /\ sections[o[i]] = s
    OBVIOUS
  <2>2. \A k \in 1 .. i : k \in 1 .. m
    BY <2>1
  <2>3. \A k \in A : k \in 1 .. i
    BY <1>9, <2>1
  <2> QED
    BY <2>1, <2>2, <2>3
<1>11. {k \in 1 .. j : sections[o[k]] = sections[o[j]]} = B \cup {j}
  <2>1. j \in 1 .. L /\ j > m /\ sections[o[j]] = r
    OBVIOUS
  <2>2. ASSUME NEW k \in 1 .. j, sections[o[k]] = r PROVE k \in B \cup {j}
    <3>1. CASE k <= m
      BY <2>2, <3>1
    <3>2. CASE ~(k <= m)
      <4>1. k \in Late
        BY <1>0, <2>1, <2>2, <3>2
      <4>2. j <= k
        BY <1>8, <4>1
      <4> QED
        BY <2>1, <4>2
    <3> QED
      BY <3>1, <3>2
  <2>3. \A k \in B \cup {j} : k \in 1 .. j /\ sections[o[k]] = r
    BY <1>0, <2>1
  <2> QED
    BY <2>1, <2>2, <2>3
<1>12. Cardinality(B \cup {j}) = Cardinality(B) + 1
  <2>1. j \notin B
    BY <1>0
  <2> HIDE DEF B, Late
  <2> QED
    BY <1>4, <2>1, FS_AddElement
<1>13. RoundByRound(Turn(sections, o, i), Turn(sections, o, j))
  <2>1. i \in 1 .. L /\ j \in 1 .. L /\ i < j
    BY <1>0
  <2>2. DOMAIN o = 1 .. L
    BY <1>1 DEF Arrangement
  <2> QED
    BY <2>1, <2>2 DEF Orders
<1>14. Turn(sections, o, i)[1] = Cardinality(A) /\ Turn(sections, o, j)[1] = Cardinality(B) + 1
  <2> HIDE DEF A, B
  <2> QED
    BY <1>10, <1>11, <1>12 DEF Turn
<1>15. Cardinality(A) <= Cardinality(B) + 1
  <2> HIDE DEF A, B
  <2> QED
    BY <1>4, <1>13, <1>14 DEF RoundByRound
<1>16. Cardinality(A) > Cardinality(B) + 1
  OBVIOUS
<1> HIDE DEF A, B
<1> QED
  BY <1>4, <1>15, <1>16

\* The questions of a test over the program.
LEMMA TestsSound ==
  ASSUME NEW V, NEW sections \in Seq(V), sections # << >>, NEW n \in Nat \ {0},
         NEW test \in Tests(sections, n)
  PROVE  TestSound(sections, n, test)
<1> DEFINE L == Len(sections)
<1>1. L \in Nat \ {0} /\ DOMAIN sections = 1 .. L
  OBVIOUS
<1>2. PICK slots \in Slots(sections, n) : test = [slots |-> slots, portions |-> Portions(slots)]
  BY DEF Tests
<1>3. PICK o \in Orders(sections) : slots = [i \in 1 .. n |-> o[((i - 1) % Len(o)) + 1]]
  BY <1>2 DEF Slots
<1>4. Arrangement(o, L)
  BY OrdersArrange
<1>5. slots = [i \in 1 .. n |-> SlotAt(o, L, i)]
  BY <1>3, <1>4 DEF Arrangement, SlotAt
<1>6. test.slots = slots /\ test.portions = Portions(slots)
  BY <1>2
<1>7. \A i \in 1 .. n : SlotAt(o, L, i) \in 1 .. L
  <2> HIDE DEF L
  <2> TAKE i \in 1 .. n
  <2>1. i \in Nat \ {0}
    OBVIOUS
  <2> QED
    BY <1>1, <1>4, <2>1, PlaceOfSlot
<1>8. slots \in Seq(1 .. L) /\ Len(slots) = n
  <2> HIDE DEF L
  <2> QED
    BY <1>5, <1>7
<1> DEFINE size(k) == SumFunction(test.portions[k])
<1>9. DOMAIN test.portions = 1 .. Calls(n) /\ \A k \in 1 .. Calls(n) : size(k) = Batches(n)[k]
  BY <1>6, <1>8, PortionSizes
<1>10. SumFunction([k \in DOMAIN test.portions |-> size(k)]) = n
  <2>1. [k \in DOMAIN test.portions |-> size(k)] = Batches(n)
    <3>1. DOMAIN Batches(n) = 1 .. Calls(n) /\ Batches(n) = [k \in DOMAIN Batches(n) |-> Batches(n)[k]]
      BY BatchesFacts DEF Batches
    <3> HIDE DEF size
    <3> QED
      BY <1>9, <3>1
  <2> QED
    BY <2>1, BatchesSum
<1>11. ASSUME NEW k \in DOMAIN test.portions
       PROVE  /\ size(k) \in 1 .. BatchSize
              /\ \A i \in 1 .. 2 : SplitCounts(size(k))[i] \in 0 .. size(k)
              /\ SplitCounts(size(k))[1] + SplitCounts(size(k))[2] = size(k)
  <2>1. size(k) \in 1 .. BatchSize
    BY <1>9, BatchesFacts
  <2>2. size(k) \in Nat
    <3> HIDE DEF size
    <3> QED
      BY <2>1, QuizAssumption
  <2> HIDE DEF size
  <2> QED
    BY <2>1, <2>2, SplitFacts
<1>12. ASSUME NEW t \in 1 .. L, NEW u \in 1 .. L
       PROVE  Cardinality({i \in 1 .. n : slots[i] = t}) <= Cardinality({i \in 1 .. n : slots[i] = u}) + 1
  <2>1. /\ {i \in 1 .. n : slots[i] = t} = {i \in 1 .. n : SlotAt(o, L, i) = t}
        /\ {i \in 1 .. n : slots[i] = u} = {i \in 1 .. n : SlotAt(o, L, i) = u}
    BY <1>5
  <2> HIDE DEF L
  <2> QED
    BY <1>1, <1>4, <2>1, TopicsBalanced
<1>13. ASSUME NEW m \in 1 .. Min({n, L}), NEW s, NEW r,
              Cardinality({i \in 1 .. m : sections[slots[i]] = s})
                > Cardinality({i \in 1 .. m : sections[slots[i]] = r}) + 1
       PROVE  Cardinality({i \in 1 .. m : sections[slots[i]] = r}) = Size(sections, r)
  <2>1. m \in 1 .. n /\ m \in 1 .. L
    <3>1. Min({n, L}) = IF n <= L THEN n ELSE L
      BY <1>1, MinOfTwo
    <3> HIDE DEF L
    <3> QED
      BY <1>1, <3>1
  <2>2. \A i \in 1 .. m : slots[i] = o[i]
    <3> HIDE DEF L
    <3> TAKE i \in 1 .. m
    <3>1. i \in 1 .. n /\ i \in Nat \ {0} /\ i <= L
      BY <1>1, <2>1
    <3>2. SlotAt(o, L, i) = o[i]
      BY <1>1, <1>4, <3>1, PlaceOfSlot
    <3>3. slots[i] = SlotAt(o, L, i)
      BY <1>5, <3>1
    <3> QED
      BY <3>2, <3>3
  <2>3. \A x : {i \in 1 .. m : sections[slots[i]] = x} = {i \in 1 .. m : sections[o[i]] = x}
    BY <2>2
  <2>4. OfSection(sections, o, m, s) > OfSection(sections, o, m, r) + 1
    BY <1>13, <2>3 DEF OfSection
  <2>5. OfSection(sections, o, m, r) = Size(sections, r)
    BY <2>1, <2>4, SectionsBalanced
  <2> QED
    BY <2>3, <2>5 DEF OfSection
<1> HIDE DEF size
<1>14. /\ SumFunction([k \in DOMAIN test.portions |-> SumFunction(test.portions[k])]) = n
       /\ \A k \in DOMAIN test.portions :
            /\ SumFunction(test.portions[k]) \in 1 .. BatchSize
            /\ \A i \in 1 .. 2 : SplitCounts(SumFunction(test.portions[k]))[i] \in 0 .. SumFunction(test.portions[k])
            /\ SplitCounts(SumFunction(test.portions[k]))[1] + SplitCounts(SumFunction(test.portions[k]))[2]
                 = SumFunction(test.portions[k])
  BY <1>10, <1>11 DEF size
<1>15. \A t, u \in DOMAIN sections :
         Cardinality({i \in 1 .. n : test.slots[i] = t}) <= Cardinality({i \in 1 .. n : test.slots[i] = u}) + 1
  BY <1>1, <1>6, <1>12
<1>16. \A m \in 1 .. Min({n, Len(sections)}) : \A s, r \in Range(sections) :
         Cardinality({i \in 1 .. m : sections[test.slots[i]] = s})
           > Cardinality({i \in 1 .. m : sections[test.slots[i]] = r}) + 1
         => Cardinality({i \in 1 .. m : sections[test.slots[i]] = r}) = Size(sections, r)
  <2> TAKE m \in 1 .. Min({n, L})
  <2> TAKE s, r \in Range(sections)
  <2> HAVE Cardinality({i \in 1 .. m : sections[test.slots[i]] = s})
             > Cardinality({i \in 1 .. m : sections[test.slots[i]] = r}) + 1
  <2> HIDE DEF L
  <2>1. {i \in 1 .. m : sections[test.slots[i]] = s} = {i \in 1 .. m : sections[slots[i]] = s}
    BY <1>6
  <2>2. {i \in 1 .. m : sections[test.slots[i]] = r} = {i \in 1 .. m : sections[slots[i]] = r}
    BY <1>6
  <2>3. /\ Cardinality({i \in 1 .. m : sections[slots[i]] = s})
             > Cardinality({i \in 1 .. m : sections[slots[i]] = r}) + 1
        => Cardinality({i \in 1 .. m : sections[slots[i]] = r}) = Size(sections, r)
    BY <1>13
  <2> QED
    BY <2>1, <2>2, <2>3
<1> QED
  BY <1>14, <1>15, <1>16 DEF TestSound

-----------------------------------------------------------------------------
(* Grading *)

LEMMA GradeKeepsId ==
  ASSUME NEW questions, NEW answers, NEW r, r = [id |-> r.id, score |-> r.score]
  PROVE  Grade(r, questions, answers).id = r.id
BY DEF Grade

LEMMA GradeOfChoice ==
  ASSUME NEW questions, NEW answers, NEW results, Graded(questions, answers, results),
         NEW k \in DOMAIN questions, questions[k].choice,
         NEW r \in Range(results), r.id = questions[k].id,
         Cardinality({i \in DOMAIN answers : answers[i].id = questions[k].id}) = 1
  PROVE  Grade(r, questions, answers).score =
           IF \A i \in DOMAIN answers : answers[i].id = questions[k].id => answers[i].letter = questions[k].key
           THEN 1 ELSE 0
<1> DEFINE q == questions[k]
           given == {i \in DOMAIN answers : answers[i].id = q.id}
<1>1. First_(questions, r.id, [id |-> r.id, choice |-> FALSE, key |-> None]) = q
  <2>1. {i \in DOMAIN questions : questions[i].id = r.id} = {k}
    BY DEF Graded
  <2>2. Min({k}) = k
    <3>1. k \in Nat
      BY DEF Graded
    <3> QED
      BY <3>1 DEF Min
  <2> QED
    BY <2>1, <2>2 DEF First_
<1>2. PICK j \in DOMAIN answers : given = {j}
  <2>1. IsFiniteSet(given)
    <3>1. given \in SUBSET (1 .. Len(answers)) /\ Len(answers) \in Nat
      BY DEF Graded
    <3>2. IsFiniteSet(1 .. Len(answers))
      BY <3>1, FS_Interval
    <3> HIDE DEF given
    <3> QED
      BY <3>1, <3>2, FS_Subset
  <2>2. Cardinality(given) = 1
    OBVIOUS
  <2>3. \E j : given = {j}
    <3> HIDE DEF given
    <3> QED
      BY <2>1, <2>2, FS_Singleton
  <2> QED
    BY <2>3
<1>3. First_(answers, r.id, [id |-> r.id, letter |-> None]) = answers[j]
  <2>1. {i \in DOMAIN answers : answers[i].id = r.id} = {j}
    BY <1>2
  <2>2. Min({j}) = j
    <3>1. j \in Nat
      BY DEF Graded
    <3> QED
      BY <3>1 DEF Min
  <2> QED
    BY <2>1, <2>2 DEF First_
<1>4. r = [id |-> r.id, score |-> r.score]
  BY DEF Graded
<1>5. Grade(r, questions, answers) = [r EXCEPT !.score = IF answers[j].letter = q.key THEN 1 ELSE 0]
  BY <1>1, <1>3 DEF Grade
<1>6. Grade(r, questions, answers).score = IF answers[j].letter = q.key THEN 1 ELSE 0
  BY <1>4, <1>5
<1>7. (\A i \in DOMAIN answers : answers[i].id = q.id => answers[i].letter = q.key) <=> answers[j].letter = q.key
  BY <1>2
<1> QED
  BY <1>6, <1>7

LEMMA ShownSound ==
  ASSUME NEW questions, NEW answers, NEW results, Graded(questions, answers, results)
  PROVE  GradeSound(questions, answers, results, Shown(questions, answers, results))
<1> DEFINE Of(k) == {i \in 1 .. Len(results) : results[i].id = questions[k].id}
           last(k) == IF Of(k) # {} THEN Max(Of(k)) ELSE 0
           value(k) == IF last(k) = 0 THEN 0 ELSE Grade(results[last(k)], questions, answers).score
<1>1. DOMAIN results = 1 .. Len(results) /\ Len(results) \in Nat
  BY DEF Graded
<1>2. Shown(questions, answers, results) = [k \in DOMAIN questions |-> value(k)]
  BY DEF Shown, SelectLastInSeq
<1>3. Detail(questions, answers, results) = [k \in DOMAIN questions |-> value(k)]
  <2> DEFINE stored == [i \in DOMAIN results |-> Grade(results[i], questions, answers)]
             Of2(k) == {i \in 1 .. Len(stored) : stored[i].id = questions[k].id}
             last2(k) == IF Of2(k) # {} THEN Max(Of2(k)) ELSE 0
  <2>1. DOMAIN stored = 1 .. Len(results) /\ Len(stored) = Len(results)
    BY <1>1
  <2>2. \A i \in 1 .. Len(results) : stored[i].id = results[i].id
    <3> TAKE i \in 1 .. Len(results)
    <3>1. results[i] \in Range(results) /\ results[i] = [id |-> results[i].id, score |-> results[i].score]
      BY <1>1 DEF Graded, Range
    <3> QED
      BY <1>1, <3>1, GradeKeepsId
  <2>3. \A k : Of2(k) = Of(k)
    BY <2>1, <2>2
  <2>4. \A k : last2(k) = last(k)
    <3> HIDE DEF Of, Of2
    <3> QED
      BY <2>3
  <2>5. Detail(questions, answers, results)
          = [k \in DOMAIN questions |-> IF last2(k) = 0 THEN 0 ELSE stored[last2(k)].score]
    BY DEF Detail, SelectLastInSeq
  <2>6. \A k : last(k) # 0 => last(k) \in DOMAIN results
    <3> SUFFICES ASSUME NEW k, Of(k) # {} PROVE last(k) \in DOMAIN results
      OBVIOUS
    <3>1. Of(k) \in SUBSET (1 .. Len(results)) /\ last(k) = Max(Of(k))
      OBVIOUS
    <3>2. Max(Of(k)) \in Of(k)
      <4> HIDE DEF Of
      <4> QED
        BY <1>1, <3>1, Extremes
    <3> HIDE DEF Of, last
    <3> QED
      BY <1>1, <3>1, <3>2
  <2>7. \A k : (IF last2(k) = 0 THEN 0 ELSE stored[last2(k)].score) = value(k)
    <3> HIDE DEF last, last2
    <3> QED
      BY <2>4, <2>6
  <2> HIDE DEF last2, stored, value
  <2> QED
    BY <2>5, <2>7
<1>4. ASSUME NEW k \in DOMAIN questions, questions[k].choice,
             Cardinality({i \in DOMAIN answers : answers[i].id = questions[k].id}) = 1
      PROVE  LET right == \A i \in {j \in DOMAIN answers : answers[j].id = questions[k].id} : answers[i].letter = questions[k].key
             IN  /\ value(k) \in {0, 1}
                 /\ value(k) = 1 => right
                 /\ value(k) = 0 /\ right => \A i \in DOMAIN results : results[i].id # questions[k].id
  <2>1. CASE Of(k) = {}
    <3>1. value(k) = 0
      BY <2>1
    <3>2. \A i \in DOMAIN results : results[i].id # questions[k].id
      BY <1>1, <2>1
    <3> HIDE DEF value
    <3> QED
      BY <3>1, <3>2
  <2>2. CASE Of(k) # {}
    <3>1. Of(k) \in SUBSET (1 .. Len(results)) /\ last(k) = Max(Of(k))
      BY <2>2
    <3>2. last(k) \in Of(k)
      <4> HIDE DEF Of, last
      <4> QED
        BY <1>1, <2>2, <3>1, Extremes
    <3>3. last(k) \in DOMAIN results /\ results[last(k)].id = questions[k].id /\ last(k) # 0
      <4> HIDE DEF last
      <4> QED
        BY <1>1, <3>2
    <3>4. results[last(k)] \in Range(results)
      <4> HIDE DEF last
      <4> QED
        BY <3>3 DEF Range
    <3>5. value(k) = IF \A i \in DOMAIN answers : answers[i].id = questions[k].id => answers[i].letter = questions[k].key
                     THEN 1 ELSE 0
      <4>1. value(k) = Grade(results[last(k)], questions, answers).score
        <5> HIDE DEF last
        <5> QED
          BY <3>3
      <4> HIDE DEF value, last
      <4> QED
        BY <1>4, <3>3, <3>4, <4>1, GradeOfChoice
    <3> HIDE DEF value
    <3> QED
      BY <3>5
  <2> QED
    BY <2>1, <2>2
<1> HIDE DEF value
<1>5. Detail(questions, answers, results) = Shown(questions, answers, results)
  BY <1>2, <1>3
<1>6. \A k \in DOMAIN questions : Shown(questions, answers, results)[k] = value(k)
  BY <1>2
<1> QED
  BY <1>4, <1>5, <1>6 DEF GradeSound

-----------------------------------------------------------------------------
(* The history *)

LEMMA FacetsAreSound ==
  ASSUME NEW attempts, History(attempts)
  PROVE  FacetsSound(attempts, Facets(attempts))
<1> DEFINE I == DOMAIN attempts
           key == [i \in I |-> KeyOf(attempts[i])]
           D == {KeyOf(attempts[i]) : i \in I}
           f == Facets(attempts)
<1>1. I = 1 .. Len(attempts) /\ Len(attempts) \in Nat
  BY DEF History
<1>2. IsFiniteSet(I) /\ Cardinality(I) = Len(attempts)
  <2> DEFINE n == Len(attempts)
  <2>1. n \in Nat /\ I = 1 .. n
    BY <1>1
  <2> HIDE DEF n, I
  <2>2. IsFiniteSet(1 .. n) /\ Cardinality(1 .. n) = IF 1 > n THEN 0 ELSE n - 1 + 1
    BY <2>1, FS_Interval
  <2>3. IsFiniteSet(1 .. n) /\ Cardinality(1 .. n) = n
    BY <2>1, <2>2
  <2>4. IsFiniteSet(I) /\ Cardinality(I) = n
    BY <2>1, <2>3
  <2> QED
    BY <2>4 DEF n
<1>3. IsFiniteSet(D)
  <2>1. key \in Surjection(I, D)
    BY DEF Surjection
  <2> HIDE DEF I, D, key
  <2> QED
    BY <1>2, <2>1, FS_Surjection
<1>4. f = [k \in D |-> Cardinality({i \in I : key[i] = k})]
  <2>1. \A k : {i \in I : key[i] = k} = {i \in I : KeyOf(attempts[i]) = k}
    OBVIOUS
  <2> QED
    BY <2>1 DEF Facets
<1>5. Parts(f, D, I, key)
  BY <1>2, <1>3, <1>4 DEF Parts
<1>6. SumFunction(f) = Len(attempts)
  <2>1. {i \in I : key[i] \in D} = I
    OBVIOUS
  <2>2. SumFunction(f) = Cardinality({i \in I : key[i] \in D})
    <3> HIDE DEF f, D, I, key
    <3> QED
      BY <1>5, PartsAddUp
  <2> QED
    BY <1>2, <2>1, <2>2
<1>7. ASSUME NEW k \in DOMAIN f
      PROVE  f[k] = Cardinality(Listed(attempts, k[1], k[2]))
  <2>1. PICK j \in I : k = KeyOf(attempts[j])
    BY <1>4
  <2>2. \A i \in I : (KeyOf(attempts[i]) = k) <=>
          /\ attempts[i].tenant = k[1]
          /\ CASE k[2] = "custom"  -> attempts[i].topic = "none" /\ ~attempts[i].full
               [] k[2] = "program" -> attempts[i].topic = "none" /\ attempts[i].full
               [] OTHER            -> attempts[i].topic = k[2]
    <3> TAKE i \in I
    <3>1. /\ attempts[i].topic \notin {"program", "custom"} /\ attempts[i].full \in BOOLEAN
          /\ attempts[j].topic \notin {"program", "custom"} /\ attempts[j].full \in BOOLEAN
      BY DEF History
    <3> QED
      BY <2>1, <3>1 DEF KeyOf
  <2>3. Listed(attempts, k[1], k[2]) = {i \in I : KeyOf(attempts[i]) = k}
    BY <2>2 DEF Listed
  <2>4. k \in D
    BY <1>4
  <2> QED
    BY <1>4, <2>3, <2>4
<1> QED
  BY <1>6, <1>7 DEF FacetsSound

-----------------------------------------------------------------------------
(* The text of a program *)

\* The state of the parser over a text.
Ids(body)    == {body[i].id : i \in DOMAIN body} \cup {NoValue}
Parsed(body) == [id : Ids(body), section : Ids(body), ordinal : Nat, concepts : Ids(body)]
Errors == {"none", "duplicate", "malformed topic", "no section", "malformed concepts", "no topic"}
States(body) ==
  [error : Errors, section : Ids(body), topic : {<< >>} \cup {<<t>> : t \in Parsed(body)},
   topics : Seq(Parsed(body))]
Begin == [error |-> "none", section |-> NoValue, topic |-> << >>, topics |-> << >>]

LEMMA CommitState ==
  ASSUME NEW body, NEW s \in States(body)
  PROVE  CommitTopic(s) \in States(body) /\ CommitTopic(s).section = s.section
<1>1. CASE s.topic = << >> \/ s.error # "none"
  BY <1>1 DEF CommitTopic
<1>2. CASE ~(s.topic = << >> \/ s.error # "none")
  <2>1. PICK t \in Parsed(body) : s.topic = <<t>>
    BY <1>2 DEF States
  <2>2. s.topic[1] = t
    BY <2>1
  <2>3. CASE \E u \in ToSet(s.topics) : u.id = s.topic[1].id
    <3>1. CommitTopic(s) = [s EXCEPT !.error = "duplicate"]
      BY <1>2, <2>3 DEF CommitTopic
    <3> QED
      BY <3>1 DEF States, Errors
  <2>4. CASE ~\E u \in ToSet(s.topics) : u.id = s.topic[1].id
    <3>1. CommitTopic(s) = [s EXCEPT !.topics = Append(s.topics, t), !.topic = << >>]
      BY <1>2, <2>2, <2>4 DEF CommitTopic
    <3>2. Append(s.topics, t) \in Seq(Parsed(body))
      BY DEF States
    <3> QED
      BY <3>1, <3>2 DEF States
  <2> QED
    BY <2>3, <2>4
<1> QED
  BY <1>1, <1>2

LEMMA RaiseState ==
  ASSUME NEW body, NEW s \in States(body), NEW what \in Errors
  PROVE  Raise(s, what) \in States(body)
<1> DEFINE e == IF s.error = "none" THEN what ELSE s.error
<1>1. e \in Errors
  BY DEF States
<1>2. Raise(s, what) = [s EXCEPT !.error = e]
  BY DEF Raise, States
<1> HIDE DEF e
<1>3. [s EXCEPT !.error = e] \in States(body)
  BY <1>1 DEF States
<1> QED
  BY <1>2, <1>3

LEMMA ReadState ==
  ASSUME NEW body, body \in Seq(Range(body)), NEW s \in States(body), NEW l \in Range(body)
  PROVE  Read(s, l) \in States(body)
<1>1. l.id \in Ids(body)
  BY DEF Ids, Range
<1>2. CASE s.error # "none" \/ l.kind \notin {"section", "topic", "concepts"}
  <2>1. Read(s, l) = s
    BY <1>2 DEF Read
  <2> QED
    BY <2>1
<1>3. CASE s.error = "none" /\ l.kind = "section"
  <2>1. Read(s, l) = [CommitTopic(s) EXCEPT !.section = l.id]
    BY <1>3 DEF Read, Section
  <2> QED
    BY <1>1, <2>1, CommitState DEF States
<1>4. CASE s.error = "none" /\ l.kind = "topic"
  <2> DEFINE c == CommitTopic(s)
  <2>1. c \in States(body)
    BY CommitState
  <2> HIDE DEF c
  <2>2. Read(s, l) = IF ~l.good THEN Raise(c, "malformed topic")
                     ELSE IF c.section = NoValue THEN Raise(c, "no section")
                     ELSE [c EXCEPT !.topic = <<[id |-> l.id, section |-> c.section,
                                                 ordinal |-> Len(c.topics) + 1, concepts |-> NoValue]>>]
    BY <1>4 DEF Read, Topic, c
  <2>3. [id |-> l.id, section |-> c.section, ordinal |-> Len(c.topics) + 1, concepts |-> NoValue] \in Parsed(body)
    <3>1. c.section \in Ids(body) /\ Len(c.topics) + 1 \in Nat /\ NoValue \in Ids(body)
      BY <2>1 DEF States, Ids
    <3> QED
      BY <1>1, <3>1 DEF Parsed
  <2>4. "malformed topic" \in Errors /\ "no section" \in Errors
    BY DEF Errors
  <2> DEFINE t == [id |-> l.id, section |-> c.section, ordinal |-> Len(c.topics) + 1, concepts |-> NoValue]
  <2>5. [c EXCEPT !.topic = <<t>>] \in States(body)
    <3> HIDE DEF t
    <3>1. t \in Parsed(body)
      BY <2>3 DEF t
    <3> QED
      BY <2>1, <3>1 DEF States
  <2>6. Raise(c, "malformed topic") \in States(body) /\ Raise(c, "no section") \in States(body)
    BY <2>1, <2>4, RaiseState
  <2> QED
    BY <2>2, <2>5, <2>6
<1>5. CASE s.error = "none" /\ l.kind = "concepts"
  <2>1. Read(s, l) = IF ~l.good THEN Raise(s, "malformed concepts")
                     ELSE IF s.topic = << >> THEN Raise(s, "no topic")
                     ELSE [s EXCEPT !.topic[1].concepts = l.id]
    BY <1>5 DEF Read, Concepts
  <2>2. CASE s.topic # << >>
    <3>1. PICK t \in Parsed(body) : s.topic = <<t>>
      BY <2>2 DEF States
    <3>2. [s EXCEPT !.topic[1].concepts = l.id] = [s EXCEPT !.topic = <<[t EXCEPT !.concepts = l.id]>>]
      BY <3>1 DEF States
    <3>3. [t EXCEPT !.concepts = l.id] \in Parsed(body)
      BY <1>1 DEF Parsed
    <3>4. [s EXCEPT !.topic[1].concepts = l.id] \in States(body)
      BY <3>2, <3>3 DEF States
    <3>5. "malformed concepts" \in Errors
      BY DEF Errors
    <3> QED
      BY <2>1, <2>2, <3>4, <3>5, RaiseState
  <2>3. CASE s.topic = << >>
    <3>1. "malformed concepts" \in Errors /\ "no topic" \in Errors
      BY DEF Errors
    <3> QED
      BY <2>1, <2>3, <3>1, RaiseState
  <2> QED
    BY <2>2, <2>3
<1> QED
  BY <1>2, <1>3, <1>4, <1>5

\* The text is read line by line.
LEMMA ReadSteps ==
  ASSUME NEW body, body \in Seq(Range(body))
  PROVE  \E g : /\ g \in [0 .. Len(body) -> States(body)]
                /\ g[0] = Begin /\ ReadAll(body) = CommitTopic(g[Len(body)])
                /\ \A i \in 1 .. Len(body) : g[i] = Read(g[i - 1], body[i])
<1> DEFINE n == Len(body)
           V == States(body)
           Step == [p \in (1 .. n) \X V |-> Read(p[2], body[p[1]])]
           Fold(f) == f = [t \in SUBSET (1 .. n) |->
                       IF t = {} THEN Begin ELSE LET x == Max(t) IN Read(f[t \ {x}], body[x])]
<1>1. n \in Nat /\ DOMAIN body = 1 .. n
  OBVIOUS
<1>2. Stepping(n, V, Begin, Step)
  <2>1. Begin \in V
    BY DEF Begin, States, Errors, Ids
  <2>2. \A x \in 1 .. n, s \in V : Read(s, body[x]) \in V
    BY <1>1, ReadState DEF Range
  <2> HIDE DEF V, n
  <2> QED
    BY <1>1, <2>1, <2>2 DEF Stepping
<1>3. \A x \in 1 .. n, s \in V : Step[<<x, s>>] = Read(s, body[x])
  OBVIOUS
<1> HIDE DEF V
<1>4. \E f : Fold(f)
  <2>1. PICK f : ListFold(f, n, V, Begin, Step)
    <3> HIDE DEF n, Step
    <3> QED
      BY <1>2, ListFoldExists
  <2>2. \A t \in SUBSET (1 .. n) : t # {} => f[t] = Read(f[t \ {Max(t)}], body[Max(t)])
    <3> HIDE DEF Step
    <3> QED
      BY <1>3, <2>1 DEF ListFold
  <2>3. Fold(f)
    BY <2>1, <2>2 DEF ListFold
  <2> QED
    BY <2>3
<1>5. PICK f : Fold(f) /\ CommitTopic(f[1 .. n]) = ReadAll(body)
  BY <1>1, <1>4 DEF ReadAll, Begin, FoldLeft, MapThenFoldSet
<1>6. f[{}] = Begin
  BY <1>5
<1>7. ASSUME NEW t \in SUBSET (1 .. n), t # {}, f[t \ {Max(t)}] \in V
      PROVE  f[t] = Step[<<Max(t), f[t \ {Max(t)}]>>]
  <2>1. Max(t) \in 1 .. n
    BY <1>1, <1>7, Extremes
  <2>2. f[t] = Read(f[t \ {Max(t)}], body[Max(t)])
    BY <1>5, <1>7
  <2> HIDE DEF Step
  <2> QED
    BY <1>3, <1>7, <2>1, <2>2
<1> DEFINE g == [i \in 0 .. n |-> f[1 .. i]]
<1>8. Steps(g, n, V, Begin, Step)
  <2> HIDE DEF n, Step
  <2>1. Folded(f, n, V, Begin, Step)
    BY <1>6, <1>7 DEF Folded
  <2> QED
    BY <1>2, <2>1, ListFoldSteps
<1>9. CommitTopic(g[n]) = ReadAll(body)
  <2>1. n \in 0 .. n
    BY <1>1
  <2> HIDE DEF n, Fold
  <2> QED
    BY <1>5, <2>1
<1> HIDE DEF g
<1>10. \A i \in 1 .. n : g[i] = Read(g[i - 1], body[i])
  <2> TAKE i \in 1 .. n
  <2>1. i - 1 \in 0 .. n
    BY <1>1
  <2>2. g[i - 1] \in V /\ g[i] = Step[<<i, g[i - 1]>>]
    BY <1>8, <2>1 DEF Steps
  <2> QED
    BY <1>3, <2>2
<1> QED
  BY <1>8, <1>9, <1>10 DEF Steps, V

-----------------------------------------------------------------------------
(* What the parser knows after the first k lines of a text *)

Headed(body) == LinesOf(body, {"topic"})
TopicsTo(body, k) == {i \in Headed(body) : i <= k}
ListsTo(body, i, k) == {j \in ListsOf(body, i) : j <= k}
Told(body, lists) == IF lists = {} THEN NoValue ELSE body[Max(lists)].id

\* The topic of line i, of which the lines up to k have been read.
SoFar(body, i, k) ==
  [id |-> body[i].id, section |-> body[Before(body, i, {"section"})].id, ordinal |-> Rank(body, i),
   concepts |-> Told(body, ListsTo(body, i, k))]

\* q holds the topics of the lines C.
Written(body, C, k, q) ==
  /\ \A i, j \in C : body[i].id = body[j].id => i = j
  /\ Len(q) = Cardinality(C)
  /\ \A i \in C : Rank(body, i) \in 1 .. Len(q) /\ q[Rank(body, i)] = SoFar(body, i, k)
  /\ \A m \in 1 .. Len(q) : \E i \in C : Rank(body, i) = m

SectionAt(body, i) ==
  LET h == Before(body, i, {"section"}) IN IF h = 0 THEN NoValue ELSE body[h].id

\* Nothing was wrong with the first k lines.
GoodTo(body, k) ==
  /\ \A i \in Headed(body) \cup LinesOf(body, {"concepts"}) : i <= k => body[i].good
  /\ \A i \in Headed(body) : i <= k => Before(body, i, {"section"}) # 0
  /\ \A i \in LinesOf(body, {"concepts"}) : i <= k => Before(body, i, Headings) \in Headed(body)

\* The last heading up to line k is not committed yet, if it is a topic's.
Pending(body, k) == Before(body, k + 1, Headings)

ParsedTo(body, k, s) ==
  /\ s \in States(body)
  /\ s.error # "none" => ~IsProgram(body)
  /\ s.error = "none" =>
       /\ GoodTo(body, k)
       /\ s.section = SectionAt(body, k + 1)
       /\ Written(body, TopicsTo(body, k) \ {Pending(body, k)}, k, s.topics)
       /\ s.topic = IF Pending(body, k) \in Headed(body) THEN <<SoFar(body, Pending(body, k), k)>> ELSE << >>

LEMMA BeforeIs ==
  ASSUME NEW body, Text(body), NEW kinds, NEW i \in 1 .. Len(body) + 1
  PROVE  /\ \A j \in LinesOf(body, kinds) : j < i => j <= Before(body, i, kinds)
         /\ \/ Before(body, i, kinds) = 0 /\ \A j \in LinesOf(body, kinds) : ~(j < i)
            \/ Before(body, i, kinds) \in LinesOf(body, kinds) /\ Before(body, i, kinds) < i
<1> DEFINE n == Len(body)
           B == {j \in LinesOf(body, kinds) : j < i}
<1>1. n \in Nat /\ DOMAIN body = 1 .. n
  BY DEF Text
<1>2. LinesOf(body, kinds) \subseteq 1 .. n
  BY <1>1 DEF LinesOf
<1>3. B \in SUBSET (1 .. n)
  BY <1>2
<1>4. Before(body, i, kinds) = IF B = {} THEN 0 ELSE Max(B)
  BY DEF Before
<1>5. CASE B = {}
  BY <1>4, <1>5
<1>6. CASE B # {}
  <2>1. Max(B) \in B /\ \A j \in B : j <= Max(B)
    <3> HIDE DEF B, n
    <3> QED
      BY <1>1, <1>3, <1>6, Extremes
  <2> QED
    BY <1>4, <1>6, <2>1
<1> QED
  BY <1>5, <1>6

LEMMA BeforeNext ==
  ASSUME NEW body, Text(body), NEW kinds, NEW k \in 1 .. Len(body)
  PROVE  Before(body, k + 1, kinds) = IF body[k].kind \in kinds THEN k ELSE Before(body, k, kinds)
<1>1. Len(body) \in Nat /\ DOMAIN body = 1 .. Len(body) /\ k \in Nat
  BY DEF Text
<1>2. LinesOf(body, kinds) \subseteq Nat
  BY <1>1 DEF LinesOf
<1> DEFINE b == Before(body, k, kinds)
           c == Before(body, k + 1, kinds)
<1>3. /\ \A j \in LinesOf(body, kinds) : j < k => j <= b
      /\ (b = 0 /\ \A j \in LinesOf(body, kinds) : ~(j < k)) \/ (b \in LinesOf(body, kinds) /\ b < k)
  <2>1. k \in 1 .. Len(body) + 1
    BY <1>1
  <2> QED
    BY <2>1, BeforeIs
<1>4. /\ \A j \in LinesOf(body, kinds) : j < k + 1 => j <= c
      /\ (c = 0 /\ \A j \in LinesOf(body, kinds) : ~(j < k + 1)) \/ (c \in LinesOf(body, kinds) /\ c < k + 1)
  <2>1. k + 1 \in 1 .. Len(body) + 1
    BY <1>1
  <2> QED
    BY <2>1, BeforeIs
<1> HIDE DEF b, c
<1>5. CASE body[k].kind \in kinds
  <2>1. k \in LinesOf(body, kinds)
    BY <1>1, <1>5 DEF LinesOf
  <2>2. k <= c /\ c < k + 1 /\ c \in Nat
    BY <1>1, <1>2, <1>4, <2>1
  <2>3. c = k
    BY <1>1, <2>2
  <2> QED
    BY <1>5, <2>3 DEF c
<1>6. CASE body[k].kind \notin kinds
  <2>1. k \notin LinesOf(body, kinds)
    BY <1>6 DEF LinesOf
  <2>2. \A j \in LinesOf(body, kinds) : j < k + 1 <=> j < k
    <3> TAKE j \in LinesOf(body, kinds)
    <3>1. j \in Nat /\ j # k
      BY <1>2, <2>1
    <3> QED
      BY <1>1, <3>1
  <2>3. CASE b = 0 /\ \A j \in LinesOf(body, kinds) : ~(j < k)
    <3>1. c = 0
      BY <1>4, <2>2, <2>3
    <3> QED
      BY <1>6, <2>3, <3>1 DEF b, c
  <2>4. CASE b \in LinesOf(body, kinds) /\ b < k
    <3>1. b <= c /\ c \in LinesOf(body, kinds) /\ c < k
      BY <1>4, <2>2, <2>4
    <3>2. c <= b /\ b \in Nat /\ c \in Nat
      BY <1>2, <1>3, <2>4, <3>1
    <3>3. b = c
      BY <3>1, <3>2
    <3> QED
      BY <1>6, <3>3 DEF b, c
  <2> QED
    BY <1>3, <2>3, <2>4
<1> QED
  BY <1>5, <1>6

LEMMA NothingBefore ==
  ASSUME NEW body, Text(body), NEW kinds
  PROVE  Before(body, 1, kinds) = 0
<1>1. Len(body) \in Nat /\ DOMAIN body = 1 .. Len(body)
  BY DEF Text
<1>2. {j \in LinesOf(body, kinds) : j < 1} = {}
  BY <1>1 DEF LinesOf
<1> QED
  BY <1>2 DEF Before

\* The topics up to a line, and the place of the last of them.
LEMMA TopicsCounted ==
  ASSUME NEW body, Text(body), NEW k \in 0 .. Len(body)
  PROVE  /\ IsFiniteSet(TopicsTo(body, k)) /\ Cardinality(TopicsTo(body, k)) \in Nat
         /\ \A i \in TopicsTo(body, k) : i \in Headed(body) /\ i \in 1 .. k /\ i \in 1 .. Len(body)
         /\ \A i \in Headed(body) : Rank(body, i) = Cardinality(TopicsTo(body, i))
<1>1. Len(body) \in Nat /\ DOMAIN body = 1 .. Len(body)
  BY DEF Text
<1>2. \A i \in TopicsTo(body, k) : i \in Headed(body) /\ i \in 1 .. k /\ i \in 1 .. Len(body)
  BY <1>1 DEF TopicsTo, Headed, LinesOf
<1>3. IsFiniteSet(TopicsTo(body, k))
  <2>1. IsFiniteSet(1 .. Len(body))
    BY <1>1, FS_Interval
  <2>2. TopicsTo(body, k) \in SUBSET (1 .. Len(body))
    BY <1>2
  <2> QED
    BY <2>1, <2>2, FS_Subset
<1>4. Cardinality(TopicsTo(body, k)) \in Nat
  BY <1>3, FS_CardinalityType
<1>5. \A i \in Headed(body) : Rank(body, i) = Cardinality(TopicsTo(body, i))
  BY DEF Rank, TopicsTo, Headed
<1> QED
  BY <1>2, <1>3, <1>4, <1>5

LEMMA TopicsNext ==
  ASSUME NEW body, Text(body), NEW k \in 1 .. Len(body)
  PROVE  TopicsTo(body, k) = TopicsTo(body, k - 1) \cup (IF body[k].kind = "topic" THEN {k} ELSE {})
<1>1. Len(body) \in Nat /\ DOMAIN body = 1 .. Len(body) /\ k \in Nat
  BY DEF Text
<1>2. \A i \in Headed(body) : i \in Nat /\ i \in DOMAIN body /\ body[i].kind = "topic"
  BY <1>1 DEF Headed, LinesOf
<1>3. \A i \in Headed(body) : i <= k <=> i <= k - 1 \/ i = k
  BY <1>1, <1>2
<1>4. k \in Headed(body) <=> body[k].kind = "topic"
  BY <1>1 DEF Headed, LinesOf
<1>5. \A i : i \in TopicsTo(body, k) <=> i \in TopicsTo(body, k - 1) \/ (i = k /\ k \in Headed(body))
  BY <1>1, <1>3 DEF TopicsTo
<1> QED
  BY <1>4, <1>5

\* What is told of a topic changes with a list of concepts under its heading.
LEMMA SoFarNext ==
  ASSUME NEW body, Text(body), NEW k \in 1 .. Len(body), NEW i,
         body[k].kind # "concepts" \/ Before(body, k, Headings) # i
  PROVE  SoFar(body, i, k) = SoFar(body, i, k - 1)
<1>1. Len(body) \in Nat /\ DOMAIN body = 1 .. Len(body) /\ k \in Nat
  BY DEF Text
<1>2. \A j \in ListsOf(body, i) : j \in Nat /\ j # k
  BY <1>1 DEF ListsOf, LinesOf
<1>3. ListsTo(body, i, k) = ListsTo(body, i, k - 1)
  BY <1>1, <1>2 DEF ListsTo
<1> QED
  BY <1>3 DEF SoFar

LEMMA WrittenNext ==
  ASSUME NEW body, Text(body), NEW k \in 1 .. Len(body), NEW C, NEW q, Written(body, C, k - 1, q),
         body[k].kind # "concepts" \/ Before(body, k, Headings) \notin C
  PROVE  Written(body, C, k, q)
<1>1. \A i \in C : SoFar(body, i, k) = SoFar(body, i, k - 1)
  BY SoFarNext
<1> QED
  BY <1>1 DEF Written

\* The topic that is pending is committed, unless its id is taken.
LEMMA CommitParsed ==
  ASSUME NEW body, Text(body), NEW k \in 0 .. Len(body), NEW s, ParsedTo(body, k, s), s.error = "none",
         NEW c, c = CommitTopic(s)
  PROVE  /\ c \in States(body) /\ c.section = s.section
         /\ c.error # "none" => ~IsProgram(body)
         /\ c.error = "none" => c.topic = << >> /\ Written(body, TopicsTo(body, k), k, c.topics)
<1> DEFINE h == Pending(body, k)
           C == TopicsTo(body, k) \ {h}
           q == s.topics
<1>1. Len(body) \in Nat /\ DOMAIN body = 1 .. Len(body) /\ k \in Nat
  BY DEF Text
<1>2. /\ s \in States(body) /\ Written(body, C, k, q)
      /\ s.topic = IF h \in Headed(body) THEN <<SoFar(body, h, k)>> ELSE << >>
  BY DEF ParsedTo
<1>3. c \in States(body) /\ c.section = s.section
  BY <1>2, CommitState
<1>4. CASE h \notin Headed(body)
  <2>1. c = s
    BY <1>2, <1>4 DEF CommitTopic
  <2>2. C = TopicsTo(body, k)
    BY <1>4 DEF TopicsTo
  <2> QED
    BY <1>2, <1>3, <1>4, <2>1, <2>2
<1>5. CASE h \in Headed(body)
  <2> DEFINE t == SoFar(body, h, k)
  <2>1. s.topic = <<t>> /\ s.topic # << >> /\ s.topic[1] = t
    BY <1>2, <1>5
  <2>2. /\ t.id = body[h].id
    BY DEF SoFar
  <2>3. q \in Seq(Parsed(body)) /\ Len(q) \in Nat /\ DOMAIN q = 1 .. Len(q)
    BY <1>2 DEF States
  <2>4. ToSet(q) = {q[m] : m \in 1 .. Len(q)}
    BY <2>3 DEF ToSet
  <2>5. \A m \in 1 .. Len(q) : \E i \in C : q[m].id = body[i].id
    <3> TAKE m \in 1 .. Len(q)
    <3>1. PICK i \in C : Rank(body, i) = m
      BY <1>2 DEF Written
    <3>2. q[m] = SoFar(body, i, k)
      BY <1>2, <3>1 DEF Written
    <3>3. q[m].id = body[i].id
      BY <3>2 DEF SoFar
    <3> QED
      BY <3>3
  <2>6. \A i \in C : \E u \in ToSet(q) : u.id = body[i].id
    <3> TAKE i \in C
    <3>1. Rank(body, i) \in 1 .. Len(q) /\ q[Rank(body, i)] = SoFar(body, i, k)
      BY <1>2 DEF Written
    <3>2. q[Rank(body, i)].id = body[i].id
      BY <3>1 DEF SoFar
    <3> QED
      BY <2>4, <3>1, <3>2
  <2>7. \A i \in C : i \in Headed(body) /\ i # h
    BY DEF TopicsTo
  <2>8. h \in TopicsTo(body, k) /\ h \in 0 .. Len(body) /\ TopicsTo(body, h) = TopicsTo(body, k)
    <3>1. k + 1 \in 1 .. Len(body) + 1
      BY <1>1
    <3>2. Headed(body) \subseteq LinesOf(body, Headings)
      BY DEF Headed, LinesOf, Headings
    <3>3. h \in 1 .. Len(body) /\ \A j \in Headed(body) : j \in Nat
      BY <1>1, <1>5 DEF Headed, LinesOf
    <3>4. h < k + 1 /\ \A j \in Headed(body) : j < k + 1 => j <= h
      BY <3>1, <3>2, <3>3, BeforeIs DEF Pending
    <3> HIDE DEF h
    <3>5. \A j \in Headed(body) : j <= k <=> j <= h
      BY <1>1, <3>3, <3>4
    <3>6. h <= k /\ h \in 0 .. Len(body)
      BY <1>1, <3>3, <3>4
    <3>7. h \in TopicsTo(body, k)
      BY <1>5, <3>6 DEF TopicsTo
    <3>8. TopicsTo(body, h) = TopicsTo(body, k)
      BY <3>5 DEF TopicsTo
    <3> QED
      BY <3>6, <3>7, <3>8
  <2> HIDE DEF h
  <2>9. Rank(body, h) = Len(q) + 1 /\ Cardinality(TopicsTo(body, k)) = Len(q) + 1
    <3>1. IsFiniteSet(TopicsTo(body, k)) /\ Cardinality(TopicsTo(body, k)) \in Nat
      BY TopicsCounted
    <3>2. Cardinality(C) = Cardinality(TopicsTo(body, k)) - 1
      BY <2>8, <3>1, FS_RemoveElement
    <3>3. Rank(body, h) = Cardinality(TopicsTo(body, k))
      BY <1>5, <2>8, TopicsCounted
    <3>4. Cardinality(C) = Len(q)
      BY <1>2 DEF Written
    <3> QED
      BY <2>3, <3>1, <3>2, <3>3, <3>4
  <2>10. CASE \E u \in ToSet(q) : u.id = t.id
    <3>1. PICK u \in ToSet(q) : u.id = t.id
      BY <2>10
    <3>2. PICK m \in 1 .. Len(q) : u = q[m]
      BY <2>4, <3>1
    <3>3. PICK i \in C : q[m].id = body[i].id
      BY <2>5, <3>2
    <3>4. body[i].id = body[h].id /\ i # h /\ i \in Headed(body)
      BY <2>2, <2>7, <3>1, <3>2, <3>3
    <3>5. ~IsProgram(body)
      BY <1>5, <3>4 DEF IsProgram, Headed
    <3>6. c.error # "none"
      <4>1. c = [s EXCEPT !.error = "duplicate"]
        BY <2>1, <2>10 DEF CommitTopic
      <4> QED
        BY <1>2, <4>1 DEF States
    <3> QED
      BY <1>3, <3>5, <3>6
  <2>11. CASE ~\E u \in ToSet(q) : u.id = t.id
    <3> DEFINE p == Append(q, t)
    <3>1. c = [s EXCEPT !.topics = p, !.topic = << >>]
      BY <2>1, <2>11 DEF CommitTopic
    <3>2. c.error = "none" /\ c.topic = << >> /\ c.topics = p
      BY <1>2, <3>1 DEF States
    <3>3. /\ Len(p) = Len(q) + 1 /\ p[Len(q) + 1] = t
          /\ \A m \in 1 .. Len(q) : p[m] = q[m]
      <4> HIDE DEF q, t
      <4> QED
        BY <2>3
    <3>4. TopicsTo(body, k) = C \cup {h}
      BY <2>8
    <3> HIDE DEF p, C, q
    <3>5. \A i, j \in TopicsTo(body, k) : body[i].id = body[j].id => i = j
      <4>1. \A i \in C : body[i].id # body[h].id
        BY <2>2, <2>6, <2>11
      <4>2. \A i, j \in C : body[i].id = body[j].id => i = j
        BY <1>2 DEF Written
      <4> QED
        BY <3>4, <4>1, <4>2
    <3>6. \A i \in TopicsTo(body, k) : Rank(body, i) \in 1 .. Len(p) /\ p[Rank(body, i)] = SoFar(body, i, k)
      <4>1. \A i \in C : Rank(body, i) \in 1 .. Len(q) /\ q[Rank(body, i)] = SoFar(body, i, k)
        BY <1>2 DEF Written
      <4>2. \A i \in C : Rank(body, i) \in 1 .. Len(p) /\ p[Rank(body, i)] = SoFar(body, i, k)
        BY <2>3, <3>3, <4>1
      <4>3. Rank(body, h) \in 1 .. Len(p) /\ p[Rank(body, h)] = SoFar(body, h, k)
        BY <2>3, <2>9, <3>3
      <4> QED
        BY <3>4, <4>2, <4>3
    <3>7. \A m \in 1 .. Len(p) : \E i \in TopicsTo(body, k) : Rank(body, i) = m
      <4> TAKE m \in 1 .. Len(p)
      <4>1. m = Len(q) + 1 \/ m \in 1 .. Len(q)
        BY <2>3, <3>3
      <4>2. CASE m = Len(q) + 1
        BY <2>8, <2>9, <4>2
      <4>3. CASE m \in 1 .. Len(q)
        <5>1. PICK i \in C : Rank(body, i) = m
          BY <1>2, <4>3 DEF Written
        <5> QED
          BY <3>4, <5>1
      <4> QED
        BY <4>1, <4>2, <4>3
    <3>8. Written(body, TopicsTo(body, k), k, p)
      BY <2>9, <3>3, <3>5, <3>6, <3>7 DEF Written
    <3> QED
      BY <1>3, <3>2, <3>8
  <2> QED
    BY <2>10, <2>11
<1> QED
  BY <1>4, <1>5

\* A line is read.
LEMMA LineParsed ==
  ASSUME NEW body, Text(body), NEW k \in 1 .. Len(body), NEW s, ParsedTo(body, k - 1, s)
  PROVE  ParsedTo(body, k, Read(s, body[k]))
<1> DEFINE l == body[k]
           r == Read(s, l)
           h == Before(body, k, Headings)
<1>1. Len(body) \in Nat /\ DOMAIN body = 1 .. Len(body) /\ k \in Nat /\ k - 1 \in 0 .. Len(body) /\ (k - 1) + 1 = k
  BY DEF Text
<1>2. s \in States(body) /\ r \in States(body)
  <2>1. l \in Range(body)
    BY <1>1 DEF Range
  <2> QED
    BY <2>1, ReadState DEF ParsedTo, Text
<1>3. CASE s.error # "none"
  <2>1. r = s
    BY <1>3 DEF Read
  <2> QED
    BY <1>2, <1>3, <2>1 DEF ParsedTo
<1>4. ASSUME s.error = "none" PROVE ParsedTo(body, k, r)
  <2>1. /\ GoodTo(body, k - 1) /\ s.section = SectionAt(body, k)
        /\ Written(body, TopicsTo(body, k - 1) \ {h}, k - 1, s.topics)
        /\ s.topic = IF h \in Headed(body) THEN <<SoFar(body, h, k - 1)>> ELSE << >>
    BY <1>1, <1>4 DEF ParsedTo, Pending
  <2>2. /\ Pending(body, k) = IF l.kind \in Headings THEN k ELSE h
        /\ Before(body, k + 1, {"section"}) = IF l.kind = "section" THEN k ELSE Before(body, k, {"section"})
    BY BeforeNext DEF Pending
  <2>3. TopicsTo(body, k) = TopicsTo(body, k - 1) \cup (IF l.kind = "topic" THEN {k} ELSE {})
    BY TopicsNext
  <2>4. k \notin TopicsTo(body, k - 1)
    BY <1>1 DEF TopicsTo
  <2>5. k \in Headed(body) <=> l.kind = "topic"
    BY <1>1 DEF Headed, LinesOf
  <2>6. /\ l.kind \notin {"topic", "concepts"} => GoodTo(body, k)
        /\ l.kind = "topic" /\ l.good /\ Before(body, k, {"section"}) # 0 => GoodTo(body, k)
        /\ l.kind = "concepts" /\ l.good /\ h \in Headed(body) => GoodTo(body, k)
    <3>1. \A i \in Headed(body) \cup LinesOf(body, {"concepts"}) : i \in Nat
      BY <1>1 DEF Headed, LinesOf
    <3>2. \A i \in Headed(body) \cup LinesOf(body, {"concepts"}) : i <= k => i <= k - 1 \/ i = k
      BY <1>1, <3>1
    <3>3. /\ k \in Headed(body) => l.kind = "topic"
          /\ k \in LinesOf(body, {"concepts"}) => l.kind = "concepts"
      BY DEF Headed, LinesOf
    <3> QED
      BY <2>1, <3>2, <3>3 DEF GoodTo
  <2>7. /\ l.kind = "topic" /\ (~l.good \/ Before(body, k, {"section"}) = 0) => ~IsProgram(body)
        /\ l.kind = "concepts" /\ (~l.good \/ h \notin Headed(body)) => ~IsProgram(body)
    <3>1. /\ l.kind = "topic" => k \in LinesOf(body, {"topic"})
          /\ l.kind = "concepts" => k \in LinesOf(body, {"concepts"})
      BY <1>1 DEF LinesOf
    <3> QED
      BY <3>1 DEF IsProgram, Headed
  <2> DEFINE c == CommitTopic(s)
  <2>8. /\ c \in States(body) /\ c.section = s.section
        /\ c.error # "none" => ~IsProgram(body)
        /\ c.error = "none" => c.topic = << >> /\ Written(body, TopicsTo(body, k - 1), k - 1, c.topics)
    BY <1>1, <1>4, CommitParsed
  <2> HIDE DEF c
  <2>9. CASE l.kind = "section"
    <3>1. r = [c EXCEPT !.section = l.id]
      BY <1>4, <2>9 DEF Read, Section, c
    <3>2. r.error = c.error /\ r.section = l.id /\ r.topic = c.topic /\ r.topics = c.topics
      BY <2>8, <3>1 DEF States
    <3>3. Pending(body, k) = k /\ k \notin Headed(body) /\ TopicsTo(body, k) \ {k} = TopicsTo(body, k - 1)
      BY <2>2, <2>3, <2>4, <2>5, <2>9 DEF Headings
    <3>4. c.error = "none" => Written(body, TopicsTo(body, k - 1), k, c.topics)
      BY <2>8, <2>9, WrittenNext
    <3>5. SectionAt(body, k + 1) = l.id
      BY <1>1, <2>2, <2>9 DEF SectionAt
    <3>6. GoodTo(body, k)
      BY <2>6, <2>9
    <3> HIDE DEF r, l
    <3> QED
      BY <1>2, <2>8, <3>2, <3>3, <3>4, <3>5, <3>6 DEF ParsedTo
  <2>10. CASE l.kind = "topic"
    <3> DEFINE t == [id |-> l.id, section |-> c.section, ordinal |-> Len(c.topics) + 1, concepts |-> NoValue]
    <3>1. r = IF ~l.good THEN Raise(c, "malformed topic")
              ELSE IF c.section = NoValue THEN Raise(c, "no section") ELSE [c EXCEPT !.topic = <<t>>]
      BY <1>4, <2>10 DEF Read, Topic, c
    <3>2. \A what \in {"malformed topic", "no section"} : Raise(c, what).error # "none"
      BY <2>8 DEF Raise, States
    <3>3. c.section = NoValue => Before(body, k, {"section"}) = 0
      <4> DEFINE b == Before(body, k, {"section"})
      <4>1. k \in 1 .. Len(body) + 1
        BY <1>1
      <4>2. b = 0 \/ b \in LinesOf(body, {"section"})
        BY <4>1, BeforeIs
      <4>3. b # 0 => body[b].id # NoValue
        BY <4>2 DEF LinesOf, Text
      <4>4. c.section = IF b = 0 THEN NoValue ELSE body[b].id
        BY <2>1, <2>8 DEF SectionAt
      <4> QED
        BY <4>3, <4>4
    <3>4. CASE ~l.good \/ c.section = NoValue
      <4>1. ~IsProgram(body)
        BY <2>7, <2>10, <3>3, <3>4
      <4>2. r.error # "none"
        BY <3>1, <3>2, <3>4
      <4> QED
        BY <1>2, <4>1, <4>2 DEF ParsedTo
    <3>5. CASE l.good /\ c.section # NoValue
      <4>1. r = [c EXCEPT !.topic = <<t>>]
        BY <3>1, <3>5
      <4>2. r.error = c.error /\ r.section = c.section /\ r.topic = <<t>> /\ r.topics = c.topics
        <5> HIDE DEF t
        <5> QED
          BY <2>8, <4>1 DEF States
      <4>3. Pending(body, k) = k /\ k \in Headed(body) /\ TopicsTo(body, k) \ {k} = TopicsTo(body, k - 1)
        BY <2>2, <2>3, <2>4, <2>5, <2>10 DEF Headings
      <4>4. c.error = "none" => Written(body, TopicsTo(body, k - 1), k, c.topics)
        BY <2>8, <2>10, WrittenNext
      <4>5. SectionAt(body, k + 1) = c.section /\ Before(body, k, {"section"}) # 0
            /\ c.section = body[Before(body, k, {"section"})].id
        BY <2>1, <2>2, <2>8, <2>10, <3>5 DEF SectionAt
      <4>6. GoodTo(body, k)
        BY <2>6, <2>10, <3>5, <4>5
      <4>7. c.error = "none" => t = SoFar(body, k, k)
        <5> SUFFICES ASSUME c.error = "none" PROVE t = SoFar(body, k, k)
          OBVIOUS
        <5>1. ListsTo(body, k, k) = {}
          <6>1. ASSUME NEW j \in ListsOf(body, k), j <= k PROVE FALSE
            <7>1. j \in 1 .. Len(body) + 1 /\ Before(body, j, Headings) = k /\ j \in Nat
              BY <1>1 DEF ListsOf, LinesOf
            <7>2. k = 0 \/ k < j
              BY <7>1, BeforeIs
            <7> QED
              BY <1>1, <6>1, <7>1, <7>2
          <6> QED
            BY <6>1 DEF ListsTo
        <5>2. Rank(body, k) = Len(c.topics) + 1
          <6>1. Rank(body, k) = Cardinality(TopicsTo(body, k))
            BY <1>1, <4>3, TopicsCounted
          <6>2. IsFiniteSet(TopicsTo(body, k - 1)) /\ Cardinality(TopicsTo(body, k - 1)) \in Nat
            BY <1>1, TopicsCounted
          <6>3. Cardinality(TopicsTo(body, k)) = Cardinality(TopicsTo(body, k - 1)) + 1
            BY <2>3, <2>4, <2>10, <6>2, FS_AddElement
          <6>4. Len(c.topics) = Cardinality(TopicsTo(body, k - 1))
            BY <2>8 DEF Written
          <6> QED
            BY <6>1, <6>3, <6>4
        <5>3. Told(body, ListsTo(body, k, k)) = NoValue
          BY <5>1 DEF Told
        <5> QED
          BY <4>5, <5>2, <5>3 DEF SoFar
      <4> HIDE DEF r, l, t
      <4> QED
        BY <1>2, <2>8, <4>2, <4>3, <4>4, <4>5, <4>6, <4>7 DEF ParsedTo
    <3> QED
      BY <3>4, <3>5
  <2>11. CASE l.kind = "concepts"
    <3>1. r = IF ~l.good THEN Raise(s, "malformed concepts")
              ELSE IF s.topic = << >> THEN Raise(s, "no topic")
              ELSE [s EXCEPT !.topic[1].concepts = l.id]
      BY <1>4, <2>11 DEF Read, Concepts
    <3>2. \A what \in {"malformed concepts", "no topic"} : Raise(s, what).error # "none"
      BY <1>2 DEF Raise, States
    <3>3. s.topic = << >> <=> h \notin Headed(body)
      BY <2>1
    <3>4. CASE ~l.good \/ s.topic = << >>
      <4>1. ~IsProgram(body)
        BY <2>7, <2>11, <3>3, <3>4
      <4>2. r.error # "none"
        BY <3>1, <3>2, <3>4
      <4> QED
        BY <1>2, <4>1, <4>2 DEF ParsedTo
    <3>5. CASE l.good /\ s.topic # << >>
      <4> DEFINE t == SoFar(body, h, k - 1)
                 u == [t EXCEPT !.concepts = l.id]
      <4>1. s.topic = <<t>> /\ h \in Headed(body)
        BY <2>1, <3>3, <3>5
      <4>2. r = [s EXCEPT !.topic = <<u>>]
        <5>1. r = [s EXCEPT !.topic[1].concepts = l.id]
          BY <3>1, <3>5
        <5> HIDE DEF t, l, r
        <5>2. s.topic = <<t>> /\ DOMAIN s.topic = {1} /\ s.topic[1] = t
          BY <4>1
        <5>3. [s.topic EXCEPT ![1] = u] = <<u>>
          <6> HIDE DEF u
          <6> QED
            BY <5>2
        <5>4. [s EXCEPT !.topic[1].concepts = l.id] = [s EXCEPT !.topic = [s.topic EXCEPT ![1] = u]]
          BY <1>2, <5>2 DEF States
        <5> QED
          BY <5>1, <5>3, <5>4
      <4>3. r.error = "none" /\ r.section = s.section /\ r.topic = <<u>> /\ r.topics = s.topics
        <5> HIDE DEF u
        <5> QED
          BY <1>2, <1>4, <4>2 DEF States
      <4>4. Pending(body, k) = h /\ TopicsTo(body, k) = TopicsTo(body, k - 1)
        BY <2>2, <2>3, <2>11 DEF Headings
      <4>5. Written(body, TopicsTo(body, k - 1) \ {h}, k, s.topics)
        BY <2>1, WrittenNext
      <4>6. SectionAt(body, k + 1) = s.section
        BY <2>1, <2>2, <2>11 DEF SectionAt
      <4>7. GoodTo(body, k)
        BY <2>6, <2>11, <3>5, <4>1
      <4>8. u = SoFar(body, h, k)
        <5>1. k \in ListsTo(body, h, k)
          BY <1>1, <2>11 DEF ListsTo, ListsOf, LinesOf
        <5>2. ListsTo(body, h, k) \in SUBSET (1 .. k)
          BY <1>1 DEF ListsTo, ListsOf, LinesOf
        <5>3. Max(ListsTo(body, h, k)) = k
          <6>1. Max(ListsTo(body, h, k)) \in 1 .. k /\ k <= Max(ListsTo(body, h, k))
            BY <1>1, <5>1, <5>2, Extremes
          <6> QED
            BY <1>1, <6>1
        <5>4. Told(body, ListsTo(body, h, k)) = l.id
          BY <5>1, <5>3 DEF Told
        <5> QED
          BY <5>4 DEF SoFar
      <4> HIDE DEF r, l, u, h
      <4> QED
        BY <1>2, <4>1, <4>3, <4>4, <4>5, <4>6, <4>7, <4>8 DEF ParsedTo
    <3> QED
      BY <3>4, <3>5
  <2>12. CASE l.kind \notin {"section", "topic", "concepts"}
    <3>1. r = s
      BY <1>4, <2>12 DEF Read
    <3>2. Pending(body, k) = h /\ TopicsTo(body, k) = TopicsTo(body, k - 1)
      BY <2>2, <2>3, <2>12 DEF Headings
    <3>3. Written(body, TopicsTo(body, k - 1) \ {h}, k, s.topics)
      BY <2>1, <2>12, WrittenNext
    <3>4. SectionAt(body, k + 1) = s.section
      BY <2>1, <2>2, <2>12 DEF SectionAt
    <3>5. GoodTo(body, k)
      BY <2>6, <2>12
    <3>6. SoFar(body, h, k) = SoFar(body, h, k - 1)
      BY <2>12, SoFarNext
    <3> HIDE DEF r, l, h
    <3> QED
      BY <1>2, <1>4, <2>1, <3>1, <3>2, <3>3, <3>4, <3>5, <3>6 DEF ParsedTo
  <2> QED
    BY <2>9, <2>10, <2>11, <2>12
<1> QED
  BY <1>3, <1>4

\* parse_program stores what the text as a whole says.
LEMMA ProgramsSound ==
  ASSUME NEW lines, Text(lines)
  PROVE  ParseSound(lines, ParseProgram(lines))
<1> DEFINE body == SubSeq(lines, Close(lines) + 1, Len(lines))
           n == Len(body)
           r == ParseProgram(lines)
<1> SUFFICES ASSUME FrontMatter(lines) = "none", Header(lines) = "none"
             PROVE  /\ (r.error = "none") = IsProgram(body)
                    /\ r.error = "none" =>
                         /\ Len(r.topics) = Cardinality(LinesOf(body, {"topic"}))
                         /\ \A i \in LinesOf(body, {"topic"}) : r.topics[Rank(body, i)] = Described(body, i)
  BY DEF ParseSound
<1>1. Text(body)
  <2>1. Len(lines) \in Nat /\ DOMAIN lines = 1 .. Len(lines) /\ lines \in Seq(Range(lines))
    BY DEF Text
  <2> DEFINE c == Close(lines)
             I == {i \in 2 .. Len(lines) : lines[i].kind = "---"}
  <2>2. c \in Nat
    <3>1. c = IF I # {} THEN Min(I) ELSE 0
      BY DEF Close, SelectInSubSeq
    <3>2. I \in SUBSET (1 .. Len(lines))
      BY <2>1
    <3> HIDE DEF I, c
    <3>3. I # {} => Min(I) \in I
      BY <2>1, <3>2, Extremes
    <3>4. I \subseteq Nat
      BY <2>1, <3>2
    <3> QED
      BY <3>1, <3>3, <3>4
  <2> HIDE DEF c
  <2>3. \A i \in 1 .. n : c + i \in DOMAIN lines /\ body[i] = lines[c + i]
    BY <2>1, <2>2 DEF c
  <2>4. n \in Nat /\ DOMAIN body = 1 .. n
    BY <2>1, <2>2 DEF c
  <2>5. body \in Seq(Range(body))
    <3>1. body \in Seq(Range(lines))
      <4>1. \A i \in c + 1 .. Len(lines) : i \in 1 .. Len(lines)
        BY <2>1, <2>2
      <4> QED
        BY <2>1, <2>2, <4>1 DEF c
    <3> HIDE DEF body
    <3> QED
      BY <3>1 DEF Range
  <2> HIDE DEF body
  <2> QED
    BY <2>3, <2>4, <2>5 DEF Text
<1> HIDE DEF body
<1>2. n \in Nat /\ body \in Seq(Range(body)) /\ DOMAIN body = 1 .. n
  BY <1>1 DEF Text
<1>3. PICK g : /\ g \in [0 .. n -> States(body)]
               /\ g[0] = Begin /\ ReadAll(body) = CommitTopic(g[n])
               /\ \A i \in 1 .. n : g[i] = Read(g[i - 1], body[i])
  BY <1>2, ReadSteps
<1> DEFINE T == {i \in 0 .. n : ParsedTo(body, i, g[i])}
<1>4. 0 \in T
  <2>1. 0 \in 0 .. n /\ g[0] \in States(body)
    BY <1>2, <1>3
  <2>2. TopicsTo(body, 0) = {}
    BY <1>2 DEF TopicsTo, Headed, LinesOf
  <2>3. Pending(body, 0) = 0 /\ Before(body, 1, {"section"}) = 0
    BY <1>1, NothingBefore DEF Pending
  <2>4. 0 \notin Headed(body)
    BY <1>2 DEF Headed, LinesOf
  <2>5. Written(body, {}, 0, << >>)
    <3>1. Cardinality({}) = 0 /\ Len(<< >>) = 0
      BY FS_EmptySet
    <3> QED
      BY <3>1 DEF Written
  <2>6. GoodTo(body, 0)
    BY <1>2 DEF GoodTo, Headed, LinesOf
  <2>7. SectionAt(body, 0 + 1) = NoValue
    BY <2>3 DEF SectionAt
  <2>8. TopicsTo(body, 0) \ {Pending(body, 0)} = {}
    BY <2>2
  <2>9. /\ Begin.error = "none" /\ Begin.section = NoValue /\ Begin.topic = << >> /\ Begin.topics = << >>
        /\ Begin \in States(body)
    BY <1>3, <2>1 DEF Begin
  <2>10. ParsedTo(body, 0, Begin)
    BY <2>3, <2>4, <2>5, <2>6, <2>7, <2>8, <2>9 DEF ParsedTo
  <2> QED
    BY <1>3, <2>1, <2>10
<1>5. ASSUME NEW i \in 0 .. n - 1, i \in T PROVE i + 1 \in T
  <2>1. i + 1 \in 1 .. n /\ i + 1 \in 0 .. n /\ (i + 1) - 1 = i
    BY <1>2
  <2>2. ParsedTo(body, i, g[i])
    BY <1>5
  <2>3. ParsedTo(body, i + 1, Read(g[i], body[i + 1]))
    BY <1>1, <2>1, <2>2, LineParsed
  <2>4. g[i + 1] = Read(g[i], body[i + 1])
    BY <1>3, <2>1
  <2> QED
    BY <2>1, <2>3, <2>4
<1>6. ParsedTo(body, n, g[n])
  <2>1. 0 .. n \subseteq T
    <3> HIDE DEF T
    <3> QED
      BY <1>2, <1>4, <1>5, BoundedInduction
  <2>2. n \in 0 .. n
    BY <1>2
  <2> QED
    BY <2>1, <2>2
<1> DEFINE s == g[n]
           c == ReadAll(body)
<1>7. c = CommitTopic(s)
  BY <1>3
<1>8. r = IF c.error # "none" THEN Failed(c.error)
          ELSE IF c.topics = << >> THEN Failed("no topics") ELSE [error |-> "none", topics |-> c.topics]
  BY DEF ParseProgram, body
<1> HIDE DEF r, c
<1>9. CASE s.error # "none"
  <2>1. c = s /\ ~IsProgram(body)
    BY <1>6, <1>7, <1>9 DEF CommitTopic, ParsedTo
  <2>2. r = Failed(c.error)
    BY <1>8, <1>9, <2>1
  <2>3. r.error # "none"
    BY <1>9, <2>1, <2>2 DEF Failed
  <2>4. IsProgram(body) \in BOOLEAN
    BY DEF IsProgram
  <2> QED
    BY <2>1, <2>3, <2>4
<1>10. CASE s.error = "none"
  <2>1. n \in 0 .. Len(body)
    BY <1>2
  <2>2. /\ c \in States(body)
        /\ c.error # "none" => ~IsProgram(body)
        /\ c.error = "none" => c.topic = << >> /\ Written(body, TopicsTo(body, n), n, c.topics)
    BY <1>1, <1>6, <1>7, <1>10, <2>1, CommitParsed
  <2>3. GoodTo(body, n)
    BY <1>6, <1>10 DEF ParsedTo
  <2>4. TopicsTo(body, n) = Headed(body) /\ Headed(body) \subseteq 1 .. n
    BY <1>2 DEF TopicsTo, Headed, LinesOf
  <2>5. IsProgram(body) \in BOOLEAN
    BY DEF IsProgram
  <2>6. CASE c.error # "none"
    <3>1. r.error # "none"
      BY <1>8, <2>6 DEF Failed
    <3> QED
      BY <2>2, <2>5, <2>6, <3>1
  <2>7. CASE c.error = "none"
    <3>1. /\ \A i, j \in Headed(body) : body[i].id = body[j].id => i = j
          /\ Len(c.topics) = Cardinality(Headed(body))
          /\ \A i \in Headed(body) : c.topics[Rank(body, i)] = SoFar(body, i, n)
      BY <2>2, <2>4, <2>7 DEF Written
    <3>2. c.topics = << >> <=> Headed(body) = {}
      <4>1. c.topics \in Seq(Parsed(body))
        BY <2>2 DEF States
      <4>2. c.topics = << >> <=> Len(c.topics) = 0
        BY <4>1
      <4>3. IsFiniteSet(Headed(body))
        <5>1. IsFiniteSet(1 .. n)
          BY <1>2, FS_Interval
        <5> QED
          BY <2>4, <5>1, FS_Subset
      <4>4. Headed(body) = {} <=> Cardinality(Headed(body)) = 0
        BY <4>3, FS_EmptySet
      <4> QED
        BY <3>1, <4>2, <4>4
    <3>3. IsProgram(body) <=> Headed(body) # {}
      <4>1. \A i \in Headed(body) \cup LinesOf(body, {"concepts"}) : i <= n
        BY <1>2 DEF Headed, LinesOf
      <4> QED
        BY <2>3, <3>1, <4>1 DEF IsProgram, GoodTo, Headed
    <3>4. \A i \in Headed(body) : SoFar(body, i, n) = Described(body, i)
      <4> TAKE i \in Headed(body)
      <4>1. ListsTo(body, i, n) = ListsOf(body, i)
        BY <1>2 DEF ListsTo, ListsOf, LinesOf
      <4> QED
        BY <4>1 DEF SoFar, Described, Told
    <3>5. CASE c.topics = << >>
      <4>1. r.error # "none"
        BY <1>8, <2>7, <3>5 DEF Failed
      <4> QED
        BY <2>5, <3>2, <3>3, <3>5, <4>1
    <3>6. CASE c.topics # << >>
      <4>1. r.error = "none" /\ r.topics = c.topics
        BY <1>8, <2>7, <3>6
      <4> QED
        BY <2>5, <3>1, <3>2, <3>3, <3>4, <3>6, <4>1 DEF Headed
    <3> QED
      BY <3>5, <3>6
  <2> QED
    BY <2>6, <2>7
<1> QED
  BY <1>9, <1>10

-----------------------------------------------------------------------------
(* The lines of an evaluation *)

\* A line as the runner writes it: what is scored is an answered self-check.
WrittenLine(l) ==
  /\ l.entry.type \in Types /\ l.entry.good \in BOOLEAN /\ l.failed \in BOOLEAN /\ l.ms \in Nat
  /\ l.api \in {"answered", "refused", "error", "none"} /\ l.score \in {"good", "poor", "none"}
  /\ l.api = "refused" => l.entry.type # "self_check"
  /\ l.api # "none" => ~l.failed /\ l.http = 200
  /\ l.entry.type = "refusal" => l.entry.topic = NoTopic

Logged(ls) == ls \in Seq(Range(ls)) /\ \A i \in DOMAIN ls : WrittenLine(ls[i])

\* Two parts of a finite set.
Split(S, A, B) == S = A \cup B /\ A \cap B = {}

LEMMA TwoParts ==
  ASSUME NEW S, IsFiniteSet(S), NEW A, NEW B, Split(S, A, B)
  PROVE  /\ IsFiniteSet(A) /\ IsFiniteSet(B)
         /\ Cardinality(A) \in Nat /\ Cardinality(B) \in Nat /\ Cardinality(S) \in Nat
         /\ Cardinality(S) = Cardinality(A) + Cardinality(B)
<1>0. S = A \cup B /\ A \cap B = {}
  BY DEF Split
<1>1. A \subseteq S /\ B \subseteq S
  BY <1>0
<1>2. IsFiniteSet(A) /\ IsFiniteSet(B)
  BY <1>1, FS_Subset
<1>3. Cardinality(A) \in Nat /\ Cardinality(B) \in Nat /\ Cardinality(S) \in Nat
  BY <1>2, FS_CardinalityType
<1>4. Cardinality(A \cup B) = Cardinality(A) + Cardinality(B) - Cardinality(A \cap B)
  BY <1>2, FS_Union
<1>5. Cardinality(A \cap B) = 0
  BY <1>0, FS_EmptySet
<1>6. Cardinality(S) = Cardinality(A) + Cardinality(B)
  BY <1>0, <1>3, <1>4, <1>5
<1> QED
  BY <1>2, <1>3, <1>6

LEMMA IndicesFinite ==
  ASSUME NEW ls, Logged(ls)
  PROVE  /\ IsFiniteSet(DOMAIN ls) /\ Cardinality(DOMAIN ls) = Len(ls) /\ Len(ls) \in Nat
         /\ DOMAIN ls = 1 .. Len(ls)
<1> DEFINE n == Len(ls)
<1>1. n \in Nat /\ DOMAIN ls = 1 .. n
  BY DEF Logged
<1> HIDE DEF n
<1>2. IsFiniteSet(1 .. n) /\ Cardinality(1 .. n) = n
  BY <1>1, FS_Interval
<1>3. IsFiniteSet(DOMAIN ls) /\ Cardinality(DOMAIN ls) = n
  BY <1>1, <1>2
<1> QED
  BY <1>1, <1>3 DEF n

\* What the runner has written, and what it has counted.
LEMMA RunLogged ==
  ASSUME NEW entries, NEW outcomes, NEW times, Evaluation(entries, outcomes, times),
         NEW run, run = Run(entries, outcomes, times)
  PROVE  /\ Logged(run.lines)
         /\ run.ok = Cardinality({i \in DOMAIN run.lines : ~run.lines[i].failed /\ run.lines[i].http = 200})
<1> DEFINE bad == {i \in DOMAIN entries : outcomes[i] = "garbled"}
           n == IF bad = {} THEN Len(entries) ELSE Min(bad) - 1
           out == [i \in 1 .. n |-> Line(entries[i], outcomes[i], times[i])]
<1>1. Len(entries) \in Nat /\ DOMAIN entries = 1 .. Len(entries)
  BY DEF Evaluation
<1>2. n \in Nat /\ \A i \in 1 .. n : i \in DOMAIN entries /\ outcomes[i] # "garbled"
  <2>1. CASE bad = {}
    BY <1>1, <2>1
  <2>2. CASE bad # {}
    <3>1. bad \in SUBSET (1 .. Len(entries))
      BY <1>1
    <3>2. Min(bad) \in bad /\ \A i \in bad : Min(bad) <= i
      <4> HIDE DEF bad
      <4> QED
        BY <1>1, <2>2, <3>1, Extremes
    <3>3. Min(bad) \in 1 .. Len(entries) /\ n = Min(bad) - 1
      BY <2>2, <3>1, <3>2
    <3>4. ASSUME NEW i \in 1 .. n PROVE i \in DOMAIN entries /\ i \notin bad
      <4> HIDE DEF bad, n
      <4>1. i \in 1 .. Len(entries) /\ i < Min(bad)
        BY <1>1, <3>3
      <4>2. i \notin bad
        <5> SUFFICES ASSUME i \in bad PROVE FALSE
          OBVIOUS
        <5>1. Min(bad) <= i
          BY <3>2
        <5> QED
          BY <3>3, <4>1, <5>1
      <4> QED
        BY <1>1, <4>1, <4>2
    <3>5. n \in Nat
      <4> HIDE DEF bad, n
      <4> QED
        BY <1>1, <3>3
    <3> HIDE DEF n
    <3> QED
      BY <3>4, <3>5
  <2> QED
    BY <2>1, <2>2
<1>3. run.lines = out /\ run.ok = Cardinality({i \in 1 .. n : ~out[i].failed /\ out[i].http = 200})
  BY DEF Run
<1> HIDE DEF n
<1>4. DOMAIN out = 1 .. n /\ out \in Seq(Range(out))
  BY <1>2 DEF Range
<1>5. ASSUME NEW i \in 1 .. n PROVE WrittenLine(out[i])
  <2> DEFINE e == entries[i]
             o == outcomes[i]
             l == Line(e, o, times[i])
  <2>1. /\ e.type \in Types /\ e.good \in BOOLEAN /\ o \in Possible(e.type) /\ times[i] \in Nat
        /\ o # "garbled"
        /\ e.type = "refusal" => e.topic = NoTopic
    BY <1>2 DEF Evaluation
  <2>2. out[i] = l
    OBVIOUS
  <2> HIDE DEF e, o
  <2> DEFINE f == Fails(e.type, o)
             a == IF o \in Answers THEN o ELSE "none"
             h == CASE o = "transport" \/ (e.type = "self_check" /\ f) -> 0
                    [] o = "http" -> 500 [] o = "redirect" -> 302 [] OTHER -> 200
             g == IF o \in Grades THEN o ELSE "none"
  <2>3. l = [entry |-> e, api |-> a, http |-> h, failed |-> f, score |-> g, ms |-> times[i]]
    BY Zenon DEF Line
  <2>4. /\ o \in Answers \cup Grades \cup Failures
        /\ e.type = "self_check" => o \notin Answers
    BY <2>1 DEF Possible, Answers, Grades, Failures
  <2>5. f \in BOOLEAN /\ (o \in Answers => ~f /\ h = 200 /\ e.type # "self_check")
    BY <2>4 DEF Fails, Answers
  <2>6. /\ a \in {"answered", "refused", "error", "none"} /\ g \in {"good", "poor", "none"}
        /\ a # "none" => o \in Answers
    BY DEF Answers, Grades
  <2> HIDE DEF f, a, h, g, l
  <2>7. l.entry = e /\ l.api = a /\ l.http = h /\ l.failed = f /\ l.score = g /\ l.ms = times[i]
    BY <2>3
  <2>8. WrittenLine(l)
    BY <2>1, <2>5, <2>6, <2>7 DEF WrittenLine
  <2> QED
    BY <2>2, <2>8
<1> HIDE DEF out
<1> QED
  BY <1>3, <1>4, <1>5 DEF Logged

-----------------------------------------------------------------------------
(* Sums over topics *)

OnTopic(ls)     == {i \in DOMAIN ls : ~ToRefuse(ls[i])}
TopicsOf(ls)    == {ls[i].entry.topic : i \in OnTopic(ls)}
Of(ls, I, t)    == {i \in I : ls[i].entry.topic = t}
WithApi(ls, a)  == {i \in OnTopic(ls) : ls[i].api = a}
Erroneous(ls)   == {i \in OnTopic(ls) : ls[i].api = "error" \/ (ls[i].api = "none" /\ ls[i].failed)}
Unclear(ls)     == {i \in OnTopic(ls) : ls[i].api \notin {"answered", "refused"}}
Scored(ls)      == {i \in DOMAIN ls : ls[i].score # "none"}

LEMMA TopicsAre ==
  ASSUME NEW ls, Logged(ls)
  PROVE  /\ Topics(ls) = [t \in TopicsOf(ls) |->
              [total    |-> Cardinality(Of(ls, OnTopic(ls), t)),
               answered |-> Cardinality(Of(ls, WithApi(ls, "answered"), t)),
               refused  |-> Cardinality(Of(ls, WithApi(ls, "refused"), t)),
               errors   |-> Cardinality(Of(ls, Erroneous(ls), t))]]
         /\ DashboardTopics(ls) = [t \in TopicsOf(ls) \ {NoTopic} |->
              [total    |-> Cardinality(Of(ls, OnTopic(ls), t)),
               answered |-> Cardinality(Of(ls, WithApi(ls, "answered"), t)),
               refused  |-> Cardinality(Of(ls, WithApi(ls, "refused"), t)),
               errors   |-> Cardinality(Of(ls, Unclear(ls), t))]]
<1>0. \A i \in DOMAIN ls : ToRefuse(ls[i]) => ls[i].entry.topic = NoTopic
  BY DEF Logged, WrittenLine, ToRefuse
<1> DEFINE Filed == {i \in DOMAIN ls : ls[i].entry.topic # NoTopic}
<1>1. \A t : /\ Of(ls, OnTopic(ls), t) = {i \in DOMAIN ls : ~ToRefuse(ls[i]) /\ ls[i].entry.topic = t /\ TRUE}
             /\ Of(ls, WithApi(ls, "answered"), t)
                  = {i \in DOMAIN ls : ~ToRefuse(ls[i]) /\ ls[i].entry.topic = t /\ ls[i].api = "answered"}
             /\ Of(ls, WithApi(ls, "refused"), t)
                  = {i \in DOMAIN ls : ~ToRefuse(ls[i]) /\ ls[i].entry.topic = t /\ ls[i].api = "refused"}
  BY DEF Of, OnTopic, WithApi
<1>2. \A t : Of(ls, Erroneous(ls), t)
                  = {i \in DOMAIN ls : ~ToRefuse(ls[i]) /\ ls[i].entry.topic = t
                       /\ (ls[i].api = "error" \/ (ls[i].api = "none" /\ ls[i].failed))}
  BY DEF Of, OnTopic, Erroneous
<1>3. TopicsOf(ls) = {ls[i].entry.topic : i \in {j \in DOMAIN ls : ~ToRefuse(ls[j])}}
  BY DEF TopicsOf, OnTopic
<1>4. Topics(ls) = [t \in TopicsOf(ls) |->
              [total    |-> Cardinality(Of(ls, OnTopic(ls), t)),
               answered |-> Cardinality(Of(ls, WithApi(ls, "answered"), t)),
               refused  |-> Cardinality(Of(ls, WithApi(ls, "refused"), t)),
               errors   |-> Cardinality(Of(ls, Erroneous(ls), t))]]
  BY <1>1, <1>2, <1>3 DEF Topics, ByTopic, Lines
<1>5. TopicsOf(ls) \ {NoTopic} = {ls[i].entry.topic : i \in Filed}
  BY <1>0 DEF TopicsOf, OnTopic
<1>6. \A t \in TopicsOf(ls) \ {NoTopic} :
        /\ Of(ls, OnTopic(ls), t) = {i \in DOMAIN ls : ls[i].entry.topic # NoTopic /\ ls[i].entry.topic = t /\ TRUE}
        /\ Of(ls, WithApi(ls, "answered"), t)
             = {i \in DOMAIN ls : ls[i].entry.topic # NoTopic /\ ls[i].entry.topic = t /\ ls[i].api = "answered"}
        /\ Of(ls, WithApi(ls, "refused"), t)
             = {i \in DOMAIN ls : ls[i].entry.topic # NoTopic /\ ls[i].entry.topic = t /\ ls[i].api = "refused"}
        /\ Of(ls, Unclear(ls), t)
             = {i \in DOMAIN ls : ls[i].entry.topic # NoTopic /\ ls[i].entry.topic = t
                  /\ ls[i].api \notin {"answered", "refused"}}
  BY <1>0 DEF Of, OnTopic, WithApi, Unclear
<1>7. DashboardTopics(ls) = [t \in TopicsOf(ls) \ {NoTopic} |->
              [total    |-> Cardinality(Of(ls, OnTopic(ls), t)),
               answered |-> Cardinality(Of(ls, WithApi(ls, "answered"), t)),
               refused  |-> Cardinality(Of(ls, WithApi(ls, "refused"), t)),
               errors   |-> Cardinality(Of(ls, Unclear(ls), t))]]
  BY <1>5, <1>6 DEF DashboardTopics, ByTopic, Lines
<1> QED
  BY <1>4, <1>7

\* Lines that have a topic are counted once.
LEMMA TopicSum ==
  ASSUME NEW ls, Logged(ls), NEW I \in SUBSET OnTopic(ls)
  PROVE  SumFunction([t \in TopicsOf(ls) |-> Cardinality(Of(ls, I, t))]) = Cardinality(I)
<1> DEFINE key == [i \in I |-> ls[i].entry.topic]
           D == TopicsOf(ls)
           f == [t \in D |-> Cardinality(Of(ls, I, t))]
<1>1. IsFiniteSet(OnTopic(ls)) /\ IsFiniteSet(I)
  <2>1. OnTopic(ls) \subseteq DOMAIN ls
    BY DEF OnTopic
  <2> QED
    BY <2>1, IndicesFinite, FS_Subset
<1>2. IsFiniteSet(D)
  <2> DEFINE g == [i \in OnTopic(ls) |-> ls[i].entry.topic]
  <2>1. g \in Surjection(OnTopic(ls), D)
    BY DEF Surjection, TopicsOf
  <2> HIDE DEF g, D
  <2> QED
    BY <1>1, <2>1, FS_Surjection
<1>3. f = [t \in D |-> Cardinality({i \in I : key[i] = t})]
  <2>1. \A t : Of(ls, I, t) = {i \in I : key[i] = t}
    BY DEF Of
  <2> QED
    BY <2>1
<1>4. {i \in I : key[i] \in D} = I
  BY DEF TopicsOf
<1>5. Parts(f, D, I, key)
  BY <1>1, <1>2, <1>3 DEF Parts
<1>6. SumFunction(f) = Cardinality({i \in I : key[i] \in D})
  <2> HIDE DEF f, D, key
  <2> QED
    BY <1>5, PartsAddUp
<1> QED
  BY <1>4, <1>6

-----------------------------------------------------------------------------
(* Lines are counted once *)

LEMMA CountsSound ==
  ASSUME NEW ls, Logged(ls)
  PROVE  /\ Refusals(ls).toRefuse + Refusals(ls).toAnswer
              + Lines(ls, LAMBDA l : l.entry.type = "self_check") = Len(ls)
         /\ Refusals(ls).correct + Refusals(ls).false = Lines(ls, LAMBDA l : l.api = "refused")
         /\ Refusals(ls).toRefuse + Cardinality(OnTopic(ls)) = Len(ls)
         /\ Refusals(ls).false = Cardinality(WithApi(ls, "refused"))
<1> DEFINE refuse == {i \in DOMAIN ls : ToRefuse(ls[i])}
           answer == {i \in DOMAIN ls : ToAnswer(ls[i])}
           self   == {i \in DOMAIN ls : ls[i].entry.type = "self_check"}
           right  == {i \in DOMAIN ls : ToRefuse(ls[i]) /\ IsRefusal(ls[i])}
           wrong  == {i \in DOMAIN ls : ToAnswer(ls[i]) /\ IsRefusal(ls[i])}
           none   == {i \in DOMAIN ls : ls[i].api = "refused"}
<1>1. /\ Refusals(ls).toRefuse = Cardinality(refuse) /\ Refusals(ls).toAnswer = Cardinality(answer)
      /\ Refusals(ls).correct = Cardinality(right) /\ Refusals(ls).false = Cardinality(wrong)
      /\ Lines(ls, LAMBDA l : l.entry.type = "self_check") = Cardinality(self)
      /\ Lines(ls, LAMBDA l : l.api = "refused") = Cardinality(none)
  BY DEF Refusals, Lines
<1>2. \A i \in DOMAIN ls : WrittenLine(ls[i])
  BY DEF Logged
<1>3. Split(OnTopic(ls), answer, self)
  BY <1>2 DEF Split, OnTopic, ToRefuse, ToAnswer, WrittenLine, Types
<1>4. Split(DOMAIN ls, refuse, OnTopic(ls))
  BY DEF Split, OnTopic
<1>5. Split(none, right, wrong) /\ none \subseteq DOMAIN ls
  BY <1>2 DEF Split, ToRefuse, ToAnswer, IsRefusal, WrittenLine, Types
<1>6. WithApi(ls, "refused") = wrong
  BY <1>2 DEF WithApi, OnTopic, ToRefuse, ToAnswer, IsRefusal, WrittenLine, Types
<1>7. IsFiniteSet(DOMAIN ls) /\ Cardinality(DOMAIN ls) = Len(ls)
  BY IndicesFinite
<1> HIDE DEF refuse, answer, self, right, wrong, none
<1>8. /\ Cardinality(DOMAIN ls) = Cardinality(refuse) + Cardinality(OnTopic(ls))
      /\ IsFiniteSet(OnTopic(ls)) /\ Cardinality(refuse) \in Nat
  BY <1>4, <1>7, TwoParts
<1>9. /\ Cardinality(OnTopic(ls)) = Cardinality(answer) + Cardinality(self)
      /\ Cardinality(answer) \in Nat /\ Cardinality(self) \in Nat
  BY <1>3, <1>8, TwoParts
<1>10. Cardinality(none) = Cardinality(right) + Cardinality(wrong)
  <2>1. IsFiniteSet(none)
    BY <1>5, <1>7, FS_Subset
  <2> QED
    BY <1>5, <2>1, TwoParts
<1> QED
  BY <1>1, <1>6, <1>7, <1>8, <1>9, <1>10

\* What the runner has counted as done and what the script counts as errors.
LEMMA ErrorsSound ==
  ASSUME NEW ls, Logged(ls)
  PROVE  Latency(ls).errors + Cardinality({i \in DOMAIN ls : ~ls[i].failed /\ ls[i].http = 200}) = Len(ls)
<1> DEFINE done == {i \in DOMAIN ls : ~ls[i].failed /\ ls[i].http = 200}
           lost == {i \in DOMAIN ls : ls[i].failed \/ ls[i].http # 200}
<1>1. Latency(ls).errors = Cardinality(lost)
  BY DEF Latency, Lines
<1>2. Split(DOMAIN ls, lost, done)
  BY DEF Split
<1>3. IsFiniteSet(DOMAIN ls) /\ Cardinality(DOMAIN ls) = Len(ls)
  BY IndicesFinite
<1> HIDE DEF lost, done
<1>4. Cardinality(DOMAIN ls) = Cardinality(lost) + Cardinality(done)
  BY <1>2, <1>3, TwoParts
<1> QED
  BY <1>1, <1>3, <1>4 DEF done

\* The errors by topic against the lines that the runner has not counted as done.
LEMMA ErrorsByTopic ==
  ASSUME NEW ls, Logged(ls)
  PROVE  Cardinality(Erroneous(ls))
           + Lines(ls, Strayed) + Lines(ls, LAMBDA l : ToRefuse(l) /\ (l.failed \/ l.http # 200))
         = Latency(ls).errors + Lines(ls, LAMBDA l : ~ToRefuse(l) /\ l.api = "error")
<1> DEFINE lost    == {i \in DOMAIN ls : ls[i].failed \/ ls[i].http # 200}
           stray   == {i \in DOMAIN ls : Strayed(ls[i])}
           refuse  == {i \in DOMAIN ls : ToRefuse(ls[i]) /\ (ls[i].failed \/ ls[i].http # 200)}
           error   == {i \in DOMAIN ls : ~ToRefuse(ls[i]) /\ ls[i].api = "error"}
           failure == {i \in DOMAIN ls : ~ToRefuse(ls[i]) /\ ls[i].failed}
<1>1. /\ Latency(ls).errors = Cardinality(lost) /\ Lines(ls, Strayed) = Cardinality(stray)
      /\ Lines(ls, LAMBDA l : ToRefuse(l) /\ (l.failed \/ l.http # 200)) = Cardinality(refuse)
      /\ Lines(ls, LAMBDA l : ~ToRefuse(l) /\ l.api = "error") = Cardinality(error)
  BY DEF Latency, Lines
<1>2. \A i \in DOMAIN ls : WrittenLine(ls[i])
  BY DEF Logged
<1>3. Split(lost, refuse, failure \cup stray) /\ Split(failure \cup stray, failure, stray)
  BY <1>2 DEF Split, Strayed, WrittenLine
<1>4. Split(Erroneous(ls), error, failure)
  BY <1>2 DEF Split, Erroneous, OnTopic, WrittenLine
<1>5. lost \subseteq DOMAIN ls /\ Erroneous(ls) \subseteq DOMAIN ls
  BY DEF Erroneous, OnTopic
<1> HIDE DEF lost, stray, refuse, error, failure
<1>6. IsFiniteSet(lost) /\ IsFiniteSet(Erroneous(ls))
  BY <1>5, IndicesFinite, FS_Subset
<1>7. /\ IsFiniteSet(failure \cup stray) /\ Cardinality(refuse) \in Nat
      /\ Cardinality(lost) = Cardinality(refuse) + Cardinality(failure \cup stray)
  BY <1>3, <1>6, TwoParts
<1>8. /\ Cardinality(failure) \in Nat /\ Cardinality(stray) \in Nat
      /\ Cardinality(failure \cup stray) = Cardinality(failure) + Cardinality(stray)
  BY <1>3, <1>7, TwoParts
<1>9. Cardinality(error) \in Nat /\ Cardinality(Erroneous(ls)) = Cardinality(error) + Cardinality(failure)
  BY <1>4, <1>6, TwoParts
<1>10. Cardinality(Erroneous(ls)) + Cardinality(stray) + Cardinality(refuse)
         = Cardinality(lost) + Cardinality(error)
  BY <1>7, <1>8, <1>9
<1> QED
  BY <1>1, <1>10

\* Every line on a topic is answered, refused, an error or silent.
LEMMA ApiParts ==
  ASSUME NEW ls, Logged(ls)
  PROVE  /\ OnTopic(ls) = ((WithApi(ls, "answered") \cup WithApi(ls, "refused")) \cup Erroneous(ls)) \cup Silent(ls)
         /\ WithApi(ls, "answered") \cap WithApi(ls, "refused") = {}
         /\ (WithApi(ls, "answered") \cup WithApi(ls, "refused")) \cap Erroneous(ls) = {}
         /\ ((WithApi(ls, "answered") \cup WithApi(ls, "refused")) \cup Erroneous(ls)) \cap Silent(ls) = {}
         /\ Unclear(ls) = Erroneous(ls) \cup Silent(ls)
<1>1. Silent(ls) = {i \in OnTopic(ls) : ls[i].api = "none" /\ ~ls[i].failed}
  BY DEF Silent, OnTopic
<1>2. \A i \in OnTopic(ls) : ls[i].api \in {"answered", "refused", "error", "none"}
  BY DEF Logged, OnTopic, WrittenLine
<1> QED
  BY <1>1, <1>2 DEF WithApi, Erroneous, Unclear

LEMMA OfParts ==
  ASSUME NEW ls, NEW t, NEW A, NEW B, A \cap B = {}
  PROVE  Split(Of(ls, A \cup B, t), Of(ls, A, t), Of(ls, B, t))
BY DEF Of, Split

\* The same for the lines of one topic.
LEMMA TopicParts ==
  ASSUME NEW ls, Logged(ls), NEW t
  PROVE  /\ Cardinality(Of(ls, OnTopic(ls), t))
               - (Cardinality(Of(ls, WithApi(ls, "answered"), t)) + Cardinality(Of(ls, WithApi(ls, "refused"), t))
                    + Cardinality(Of(ls, Erroneous(ls), t))) = Cardinality(Of(ls, Silent(ls), t))
         /\ Cardinality(Of(ls, Unclear(ls), t))
               = Cardinality(Of(ls, Erroneous(ls), t)) + Cardinality(Of(ls, Silent(ls), t))
<1> DEFINE A == WithApi(ls, "answered")
           B == WithApi(ls, "refused")
           C == Erroneous(ls)
           D == Silent(ls)
           T == OnTopic(ls)
<1>1. /\ T = ((A \cup B) \cup C) \cup D /\ A \cap B = {} /\ (A \cup B) \cap C = {} /\ ((A \cup B) \cup C) \cap D = {}
      /\ Unclear(ls) = C \cup D
  BY ApiParts
<1>2. IsFiniteSet(Of(ls, T, t))
  <2>1. Of(ls, T, t) \subseteq DOMAIN ls
    BY DEF Of, OnTopic
  <2> QED
    BY <2>1, IndicesFinite, FS_Subset
<1> HIDE DEF A, B, C, D, T
<1>3. Split(Of(ls, T, t), Of(ls, (A \cup B) \cup C, t), Of(ls, D, t))
  BY <1>1, OfParts
<1>4. Split(Of(ls, (A \cup B) \cup C, t), Of(ls, A \cup B, t), Of(ls, C, t))
  BY <1>1, OfParts
<1>5. Split(Of(ls, A \cup B, t), Of(ls, A, t), Of(ls, B, t))
  BY <1>1, OfParts
<1>6. Split(Of(ls, C \cup D, t), Of(ls, C, t), Of(ls, D, t))
  <2>1. C \cap D = {}
    BY <1>1
  <2> QED
    BY <2>1, OfParts
<1>7. /\ IsFiniteSet(Of(ls, (A \cup B) \cup C, t)) /\ IsFiniteSet(Of(ls, D, t))
      /\ Cardinality(Of(ls, T, t)) = Cardinality(Of(ls, (A \cup B) \cup C, t)) + Cardinality(Of(ls, D, t))
      /\ Cardinality(Of(ls, D, t)) \in Nat
  BY <1>2, <1>3, TwoParts
<1>8. /\ IsFiniteSet(Of(ls, A \cup B, t)) /\ IsFiniteSet(Of(ls, C, t)) /\ Cardinality(Of(ls, C, t)) \in Nat
      /\ Cardinality(Of(ls, (A \cup B) \cup C, t)) = Cardinality(Of(ls, A \cup B, t)) + Cardinality(Of(ls, C, t))
  BY <1>4, <1>7, TwoParts
<1>9. /\ Cardinality(Of(ls, A, t)) \in Nat /\ Cardinality(Of(ls, B, t)) \in Nat
      /\ Cardinality(Of(ls, A \cup B, t)) = Cardinality(Of(ls, A, t)) + Cardinality(Of(ls, B, t))
  BY <1>5, <1>8, TwoParts
<1>10. Cardinality(Of(ls, C \cup D, t)) = Cardinality(Of(ls, C, t)) + Cardinality(Of(ls, D, t))
  <2>1. IsFiniteSet(Of(ls, C \cup D, t))
    BY <1>6, <1>7, <1>8, FS_Union DEF Split
  <2> QED
    BY <1>6, <2>1, TwoParts
<1>11. Cardinality(Of(ls, Unclear(ls), t)) = Cardinality(Of(ls, C, t)) + Cardinality(Of(ls, D, t))
  BY <1>1, <1>10
<1>12. Cardinality(Of(ls, T, t))
         - (Cardinality(Of(ls, A, t)) + Cardinality(Of(ls, B, t)) + Cardinality(Of(ls, C, t))) = Cardinality(Of(ls, D, t))
  BY <1>7, <1>8, <1>9
<1> QED
  BY <1>11, <1>12 DEF A, B, C, D, T

\* The tables of both scripts add up to the lines of the run.
TablesSound(ls, topics, dashboard) ==
  /\ Refusals(ls).toRefuse + SumFunction([t \in DOMAIN topics |-> topics[t].total]) = Len(ls)
  /\ SumFunction([t \in DOMAIN topics |->
        topics[t].total - (topics[t].answered + topics[t].refused + topics[t].errors)]) = Cardinality(Silent(ls))
  /\ SumFunction([t \in DOMAIN topics |-> topics[t].refused]) = Refusals(ls).false
  /\ SumFunction([t \in DOMAIN topics |-> topics[t].errors]) = Cardinality(Erroneous(ls))
  /\ dashboard = [t \in DOMAIN topics \ {NoTopic} |-> [topics[t] EXCEPT !.errors = @ + Cardinality(Of(ls, Silent(ls), t))]]

LEMMA TablesAreSound ==
  ASSUME NEW ls, Logged(ls)
  PROVE  TablesSound(ls, Topics(ls), DashboardTopics(ls))
<1> DEFINE N(I, t) == Cardinality(Of(ls, I, t))
           Row(t, errors) ==
             [total |-> N(OnTopic(ls), t), answered |-> N(WithApi(ls, "answered"), t),
              refused |-> N(WithApi(ls, "refused"), t), errors |-> errors]
           topics == Topics(ls)
           D == TopicsOf(ls)
<1>1. topics = [t \in D |-> Row(t, N(Erroneous(ls), t))]
  BY TopicsAre
<1>2. DashboardTopics(ls) = [t \in D \ {NoTopic} |-> Row(t, N(Unclear(ls), t))]
  BY TopicsAre
<1>3. \A t : /\ N(OnTopic(ls), t) - (N(WithApi(ls, "answered"), t) + N(WithApi(ls, "refused"), t) + N(Erroneous(ls), t))
                   = N(Silent(ls), t)
             /\ N(Unclear(ls), t) = N(Erroneous(ls), t) + N(Silent(ls), t)
  BY TopicParts
<1>4. OnTopic(ls) \in SUBSET OnTopic(ls) /\ WithApi(ls, "refused") \in SUBSET OnTopic(ls) /\ Silent(ls) \in SUBSET OnTopic(ls)
      /\ Erroneous(ls) \in SUBSET OnTopic(ls)
  BY ApiParts DEF WithApi
<1>5. /\ SumFunction([t \in D |-> N(OnTopic(ls), t)]) = Cardinality(OnTopic(ls))
      /\ SumFunction([t \in D |-> N(WithApi(ls, "refused"), t)]) = Cardinality(WithApi(ls, "refused"))
      /\ SumFunction([t \in D |-> N(Silent(ls), t)]) = Cardinality(Silent(ls))
      /\ SumFunction([t \in D |-> N(Erroneous(ls), t)]) = Cardinality(Erroneous(ls))
  BY <1>4, TopicSum
<1> HIDE DEF N, topics, D
<1>6. DOMAIN topics = D
  BY <1>1
<1>7. \A t \in D : /\ topics[t].total = N(OnTopic(ls), t) /\ topics[t].answered = N(WithApi(ls, "answered"), t)
                   /\ topics[t].refused = N(WithApi(ls, "refused"), t) /\ topics[t].errors = N(Erroneous(ls), t)
  BY <1>1
<1>8. /\ [t \in D |-> topics[t].total] = [t \in D |-> N(OnTopic(ls), t)]
      /\ [t \in D |-> topics[t].refused] = [t \in D |-> N(WithApi(ls, "refused"), t)]
      /\ [t \in D |-> topics[t].errors] = [t \in D |-> N(Erroneous(ls), t)]
      /\ [t \in D |-> topics[t].total - (topics[t].answered + topics[t].refused + topics[t].errors)]
           = [t \in D |-> N(Silent(ls), t)]
  BY <1>3, <1>7
<1>9. \A t \in D : Row(t, N(Unclear(ls), t)) = [topics[t] EXCEPT !.errors = @ + N(Silent(ls), t)]
  BY <1>1, <1>3
<1> HIDE DEF Row
<1>10. DashboardTopics(ls) = [t \in D \ {NoTopic} |-> [topics[t] EXCEPT !.errors = @ + N(Silent(ls), t)]]
  BY <1>2, <1>9
<1>11. /\ Refusals(ls).toRefuse + Cardinality(OnTopic(ls)) = Len(ls)
       /\ Refusals(ls).false = Cardinality(WithApi(ls, "refused"))
  BY CountsSound
<1>12. TablesSound(ls, topics, DashboardTopics(ls))
  BY <1>5, <1>6, <1>8, <1>10, <1>11 DEF TablesSound, N
<1> QED
  BY <1>12 DEF topics

-----------------------------------------------------------------------------
(* Agreement of scores *)

\* The fraction of _cohen_kappa for a table of two by two.
Fraction(tp, fn, fp, tn) ==
  LET n  == tp + tn + fp + fn
      pe == (tp + fn) * (tp + fp) + (tn + fp) * (tn + fn)
  IN  IF n = 0 THEN <<0, 1>>
      ELSE IF n * n = pe THEN <<IF tp + tn = n THEN 1 ELSE 0, 1>>
      ELSE <<n * (tp + tn) - pe, n * n - pe>>

\* It is 1 exactly if all scores are on the diagonal.
Perfect(k, tp, fn, fp, tn) == tp + tn + fp + fn > 0 => (k[1] = k[2] <=> fp = 0 /\ fn = 0)

LEMMA FractionBounds ==
  ASSUME NEW tp \in Nat, NEW fn \in Nat, NEW fp \in Nat, NEW tn \in Nat,
         NEW k, k = Fraction(tp, fn, fp, tn)
  PROVE  /\ k[2] > 0 /\ k[1] \in (-k[2]) .. k[2]
         /\ Perfect(k, tp, fn, fp, tn)
<1> DEFINE n  == tp + tn + fp + fn
           pe == (tp + fn) * (tp + fp) + (tn + fp) * (tn + fn)
           agreed == n * (tp + tn)
<1>1. n \in Nat /\ pe \in Nat /\ agreed \in Nat /\ n * n \in Nat
  OBVIOUS
<1>2. n * n - pe = (tp + fn) * (tn + fn) + (fp + tn) * (tp + fp)
  OBVIOUS
<1>3. (agreed - pe) + (n * n - pe)
        = (fn - fp) * (fn - fp) + 4 * (tp * tn) + tp * fn + tp * fp + fn * tn + fp * tn
  OBVIOUS
<1>4. n * n - agreed = n * (fp + fn)
  OBVIOUS
<1>5. n * n - pe >= 0
  <2>1. (tp + fn) * (tn + fn) \in Nat /\ (fp + tn) * (tp + fp) \in Nat
    OBVIOUS
  <2> HIDE DEF n, pe
  <2> QED
    BY <1>2, <2>1
<1>6. (agreed - pe) + (n * n - pe) >= 0
  <2>1. /\ (fn - fp) * (fn - fp) >= 0 /\ (fn - fp) * (fn - fp) \in Int
    <3>1. \A x \in Int : x * x >= 0 /\ x * x \in Int
      OBVIOUS
    <3> QED
      BY <3>1
  <2>2. tp * tn \in Nat /\ tp * fn \in Nat /\ tp * fp \in Nat /\ fn * tn \in Nat /\ fp * tn \in Nat
    OBVIOUS
  <2> HIDE DEF n, pe, agreed
  <2> QED
    BY <1>3, <2>1, <2>2
<1>7. n * (fp + fn) \in Nat /\ (n > 0 => (n * (fp + fn) = 0 <=> fp = 0 /\ fn = 0))
  <2>1. \A x, y \in Nat : x * y \in Nat /\ (x > 0 => (x * y = 0 <=> y = 0))
    OBVIOUS
  <2>2. fp + fn \in Nat /\ (fp + fn = 0 <=> fp = 0 /\ fn = 0)
    OBVIOUS
  <2> HIDE DEF n
  <2> QED
    BY <1>1, <2>1, <2>2
<1>8. tp + tn = n <=> fp = 0 /\ fn = 0
  OBVIOUS
<1>9. k = IF n = 0 THEN <<0, 1>>
          ELSE IF n * n = pe THEN <<IF tp + tn = n THEN 1 ELSE 0, 1>>
          ELSE <<agreed - pe, n * n - pe>>
  BY DEF Fraction
<1> DEFINE q == n * n
           d == n * (fp + fn)
<1> HIDE DEF d, q, n, pe, agreed
<1>10. q \in Nat /\ d \in Nat /\ q - agreed = d /\ q - pe >= 0 /\ (agreed - pe) + (q - pe) >= 0
  BY <1>1, <1>4, <1>5, <1>6, <1>7 DEF q, d
<1>11. n > 0 => (d = 0 <=> fp = 0 /\ fn = 0)
  BY <1>7 DEF d
<1>12. k = IF n = 0 THEN <<0, 1>>
           ELSE IF q = pe THEN <<IF tp + tn = n THEN 1 ELSE 0, 1>>
           ELSE <<agreed - pe, q - pe>>
  BY <1>9 DEF q
<1>13. CASE n = 0
  <2>1. k[1] = 0 /\ k[2] = 1
    BY <1>12, <1>13
  <2> QED
    BY <1>13, <2>1 DEF n, Perfect
<1>14. CASE n # 0 /\ q = pe
  <2>1. k[1] = (IF tp + tn = n THEN 1 ELSE 0) /\ k[2] = 1
    BY <1>12, <1>14
  <2> QED
    BY <1>8, <2>1 DEF Perfect
<1>15. CASE n # 0 /\ q # pe
  <2>1. k[1] = agreed - pe /\ k[2] = q - pe
    BY <1>12, <1>15
  <2>2. k[1] = k[2] <=> d = 0
    BY <1>1, <1>10, <2>1
  <2>3. k[2] > 0 /\ k[1] \in (-k[2]) .. k[2]
    BY <1>1, <1>10, <1>15, <2>1
  <2> QED
    BY <1>1, <1>11, <1>15, <2>2, <2>3 DEF Perfect
<1> QED
  BY <1>13, <1>14, <1>15

KappaSound(ls, k) ==
  /\ k[2] > 0 /\ k[1] \in (-k[2]) .. k[2]
  /\ Scored(ls) # {} =>
       ((k[1] = k[2]) = \A i \in Scored(ls) : ls[i].entry.good = (ls[i].score = "good"))

LEMMA KappaIsSound ==
  ASSUME NEW ls, Logged(ls)
  PROVE  KappaSound(ls, Kappa(ls))
<1> DEFINE Cell(t, p) == {i \in DOMAIN ls : ls[i].score # "none" /\ ls[i].entry.good = t /\ (ls[i].score = "good") = p}
           A == Cell(TRUE, TRUE)
           B == Cell(TRUE, FALSE)
           C == Cell(FALSE, TRUE)
           D == Cell(FALSE, FALSE)
           k == Kappa(ls)
<1>1. k = Fraction(Cardinality(A), Cardinality(B), Cardinality(C), Cardinality(D))
  BY DEF Kappa, Lines, Fraction
<1>2. \A i \in Scored(ls) : i \in DOMAIN ls /\ ls[i].entry.good \in BOOLEAN /\ ls[i].score # "none"
  BY DEF Logged, WrittenLine, Scored
<1>3. /\ A = {i \in Scored(ls) : ls[i].entry.good /\ ls[i].score = "good"}
      /\ B = {i \in Scored(ls) : ls[i].entry.good /\ ls[i].score # "good"}
      /\ C = {i \in Scored(ls) : ~ls[i].entry.good /\ ls[i].score = "good"}
      /\ D = {i \in Scored(ls) : ~ls[i].entry.good /\ ls[i].score # "good"}
  BY <1>2 DEF Scored
<1>4. IsFiniteSet(Scored(ls))
  <2>1. Scored(ls) \subseteq DOMAIN ls
    BY DEF Scored
  <2> QED
    BY <2>1, IndicesFinite, FS_Subset
<1> HIDE DEF Cell, k
<1>5. Split(Scored(ls), A \cup B, C \cup D) /\ Split(A \cup B, A, B) /\ Split(C \cup D, C, D)
  BY <1>3 DEF Split
<1>6. (\A i \in Scored(ls) : ls[i].entry.good = (ls[i].score = "good")) <=> B = {} /\ C = {}
  BY <1>2, <1>3
<1> HIDE DEF A, B, C, D
<1>7. /\ IsFiniteSet(A \cup B) /\ IsFiniteSet(C \cup D)
      /\ Cardinality(Scored(ls)) = Cardinality(A \cup B) + Cardinality(C \cup D)
  BY <1>4, <1>5, TwoParts
<1>8. /\ IsFiniteSet(A) /\ IsFiniteSet(B) /\ Cardinality(A) \in Nat /\ Cardinality(B) \in Nat
      /\ Cardinality(A \cup B) = Cardinality(A) + Cardinality(B)
  BY <1>5, <1>7, TwoParts
<1>9. /\ IsFiniteSet(C) /\ IsFiniteSet(D) /\ Cardinality(C) \in Nat /\ Cardinality(D) \in Nat
      /\ Cardinality(C \cup D) = Cardinality(C) + Cardinality(D)
  BY <1>5, <1>7, TwoParts
<1>10. /\ k[2] > 0 /\ k[1] \in (-k[2]) .. k[2]
       /\ Cardinality(A) + Cardinality(D) + Cardinality(C) + Cardinality(B) > 0
            => (k[1] = k[2] <=> Cardinality(C) = 0 /\ Cardinality(B) = 0)
  <2> DEFINE a == Cardinality(A)
             b == Cardinality(B)
             c == Cardinality(C)
             d == Cardinality(D)
  <2>1. k = Fraction(a, b, c, d) /\ a \in Nat /\ b \in Nat /\ c \in Nat /\ d \in Nat
    BY <1>1, <1>8, <1>9
  <2> HIDE DEF a, b, c, d
  <2>2. k[2] > 0 /\ k[1] \in (-k[2]) .. k[2]
    BY <2>1, FractionBounds
  <2>3. Perfect(k, a, b, c, d)
    BY <2>1, FractionBounds
  <2>4. a + d + c + b > 0 => (k[1] = k[2] <=> c = 0 /\ b = 0)
    BY <2>3 DEF Perfect
  <2> QED
    BY <2>2, <2>4 DEF a, b, c, d
<1>11. (Cardinality(B) = 0 <=> B = {}) /\ (Cardinality(C) = 0 <=> C = {})
  BY <1>8, <1>9, FS_EmptySet
<1>12. Scored(ls) # {} => Cardinality(Scored(ls)) > 0
  BY <1>4, FS_EmptySet, FS_CardinalityType
<1>13. Scored(ls) # {} => Cardinality(A) + Cardinality(D) + Cardinality(C) + Cardinality(B) > 0
  BY <1>7, <1>8, <1>9, <1>12
<1>14. Scored(ls) # {} =>
         (k[1] = k[2] <=> \A i \in Scored(ls) : ls[i].entry.good = (ls[i].score = "good"))
  BY <1>6, <1>10, <1>11, <1>13
<1>15. KappaSound(ls, k)
  BY <1>10, <1>14, Zenon DEF KappaSound
<1> QED
  BY <1>15 DEF k

-----------------------------------------------------------------------------
(* Quantiles of the latencies *)

\* A finite set of numbers has a greatest one.
LEMMA GreatestOf ==
  ASSUME NEW S, IsFiniteSet(S), S \subseteq Nat, S # {}
  PROVE  Max(S) \in S /\ \A y \in S : y <= Max(S)
<1> DEFINE T == {n \in Nat : \A s \in SUBSET S : Cardinality(s) = n /\ s # {} => \E x \in s : \A y \in s : y <= x}
<1>1. \A s \in SUBSET S : IsFiniteSet(s) /\ Cardinality(s) \in Nat
  BY FS_Subset, FS_CardinalityType
<1>2. 0 \in T
  <2>1. \A s \in SUBSET S : Cardinality(s) = 0 => s = {}
    BY <1>1, FS_EmptySet
  <2> QED
    BY <2>1
<1>3. ASSUME NEW n \in Nat, n \in T PROVE n + 1 \in T
  <2> SUFFICES ASSUME NEW s \in SUBSET S, Cardinality(s) = n + 1, s # {}
               PROVE  \E x \in s : \A y \in s : y <= x
    OBVIOUS
  <2>1. PICK z \in s : TRUE
    OBVIOUS
  <2>2. s \ {z} \in SUBSET S /\ Cardinality(s \ {z}) = n
    <3>1. Cardinality(s \ {z}) = Cardinality(s) - 1
      BY <1>1, FS_RemoveElement
    <3> QED
      BY <1>3, <3>1
  <2>3. CASE s \ {z} = {}
    <3>1. \A y \in s : y = z
      BY <2>3
    <3> QED
      BY <3>1
  <2>4. CASE s \ {z} # {}
    <3>1. PICK w \in s \ {z} : \A y \in s \ {z} : y <= w
      BY <1>3, <2>2, <2>4
    <3>2. CASE z <= w
      BY <3>1, <3>2
    <3>3. CASE w <= z
      BY <3>1, <3>3
    <3> QED
      BY <3>2, <3>3
  <2> QED
    BY <2>3, <2>4
<1>4. Nat \subseteq T
  <2> HIDE DEF T
  <2> QED
    BY <1>2, <1>3, SetInduction
<1>5. \E x \in S : \A y \in S : y <= x
  BY <1>1, <1>4
<1>6. \E x \in S : \A y \in S : x >= y
  BY <1>5
<1> QED
  BY <1>6 DEF Max

LEMMA LeastOf ==
  ASSUME NEW S, S \subseteq Nat, S # {}
  PROVE  Min(S) \in S /\ \A y \in S : Min(S) <= y
<1>1. \E x \in S : \A y \in S : x <= y
  BY SmallestOf
<1> QED
  BY <1>1 DEF Min

LEMMA OfTwo ==
  ASSUME NEW a \in Int, NEW b \in Int
  PROVE  /\ Max({a, b}) = IF a >= b THEN a ELSE b
         /\ Min({a, b}) = IF a <= b THEN a ELSE b
<1>1. Max({a, b}) = IF a >= b THEN a ELSE b
  <2>1. \E x \in {a, b} : \A y \in {a, b} : x >= y
    OBVIOUS
  <2>2. Max({a, b}) \in {a, b} /\ \A y \in {a, b} : Max({a, b}) >= y
    BY <2>1 DEF Max
  <2> QED
    BY <2>2
<1>2. Min({a, b}) = IF a <= b THEN a ELSE b
  <2>1. \E x \in {a, b} : \A y \in {a, b} : x <= y
    OBVIOUS
  <2>2. Min({a, b}) \in {a, b} /\ \A y \in {a, b} : Min({a, b}) <= y
    BY <2>1 DEF Min
  <2> QED
    BY <2>2
<1> QED
  BY <1>1, <1>2

Times(ls) == {ls[i].ms : i \in DOMAIN ls}

Ascending(data, n) ==
  /\ n \in Nat /\ Len(data) = n
  /\ \A k \in 1 .. n : data[k] \in Nat
  /\ \A k, l \in 1 .. n : k <= l => data[k] <= data[l]

LEMMA TimesFinite ==
  ASSUME NEW ls, Logged(ls)
  PROVE  IsFiniteSet(Times(ls)) /\ Times(ls) \subseteq Nat
<1> DEFINE f == [i \in DOMAIN ls |-> ls[i].ms]
<1>1. f \in Surjection(DOMAIN ls, Times(ls))
  BY DEF Surjection, Times
<1>2. Times(ls) \subseteq Nat
  BY DEF Logged, WrittenLine, Times
<1> HIDE DEF f
<1> QED
  BY <1>1, <1>2, IndicesFinite, FS_Surjection

\* sorted() puts the times in order.
LEMMA SortedAscends ==
  ASSUME NEW ls, Logged(ls)
  PROVE  Ascending(Sorted(ls), Len(ls)) /\ \A k \in 1 .. Len(ls) : Sorted(ls)[k] \in Times(ls)
<1> DEFINE n == Len(ls)
           T == Times(ls)
           Upto(t) == {i \in DOMAIN ls : ls[i].ms <= t}
           Late(k) == {t \in T : Cardinality(Upto(t)) >= k}
           data == [k \in 1 .. n |-> Min(Late(k))]
<1>1. n \in Nat /\ DOMAIN ls = 1 .. n /\ Cardinality(DOMAIN ls) = n
  BY IndicesFinite
<1>2. Sorted(ls) = data
  BY <1>1 DEF Sorted, Times
<1>3. ASSUME NEW k \in 1 .. n PROVE Late(k) \subseteq T /\ Late(k) # {}
  <2>1. T # {}
    BY <1>1 DEF Times
  <2> DEFINE m == Max(T)
  <2>2. m \in T /\ \A y \in T : y <= m
    BY <2>1, TimesFinite, GreatestOf
  <2> HIDE DEF m
  <2>3. Upto(m) = DOMAIN ls
    BY <2>2 DEF Times
  <2>4. m \in Late(k)
    <3>1. Cardinality(Upto(m)) >= k
      <4>1. Cardinality(Upto(m)) = n
        BY <1>1, <2>3
      <4> HIDE DEF Upto, n
      <4> QED
        BY <1>1, <4>1
    <3> HIDE DEF Upto
    <3> QED
      BY <2>2, <3>1
  <2> QED
    BY <2>4
<1>4. \A k, l \in 1 .. n : k <= l => Late(l) \subseteq Late(k)
  <2>1. \A t \in T : Cardinality(Upto(t)) \in Nat
    <3> TAKE t \in T
    <3>1. Upto(t) \subseteq DOMAIN ls
      OBVIOUS
    <3> HIDE DEF Upto
    <3> QED
      BY <3>1, IndicesFinite, FS_Subset, FS_CardinalityType
  <2> HIDE DEF Upto
  <2> QED
    BY <1>1, <2>1
<1>5. T \subseteq Nat
  BY TimesFinite
<1> HIDE DEF Late, Upto, T, n
<1>6. \A k \in 1 .. n : Min(Late(k)) \in Late(k) /\ \A y \in Late(k) : Min(Late(k)) <= y
  BY <1>3, <1>5, LeastOf
<1>7. \A k \in 1 .. n : data[k] \in T /\ data[k] \in Late(k) /\ data[k] \in Nat /\ \A y \in Late(k) : data[k] <= y
  BY <1>3, <1>5, <1>6
<1>8. Len(data) = n
  BY <1>1
<1> HIDE DEF data
<1>9. \A k, l \in 1 .. n : k <= l => data[k] <= data[l]
  BY <1>4, <1>7
<1>10. Ascending(data, n)
  BY <1>1, <1>7, <1>8, <1>9 DEF Ascending
<1> QED
  BY <1>2, <1>7, <1>10 DEF n, T

\* The cut point and the weight of the next element.
CutPoint(n, i) == Max({1, Min({(i * (n + 1)) \div 20, n - 1})})
Delta(n, i)    == i * (n + 1) - CutPoint(n, i) * 20

LEMMA CutBounds ==
  ASSUME NEW n \in Nat, n >= 2
  PROVE  /\ CutPoint(n, 10) \in 1 .. n - 1 /\ CutPoint(n, 19) \in 1 .. n - 1 /\ CutPoint(n, 10) <= CutPoint(n, 19)
         /\ Delta(n, 10) \in {0, 10} /\ Delta(n, 19) \in Nat
         /\ CutPoint(n, 10) = CutPoint(n, 19) => Delta(n, 19) >= 10
<1> DEFINE p == (10 * (n + 1)) \div 20
           q == (19 * (n + 1)) \div 20
<1>1. /\ p \in Nat /\ q \in Nat /\ p <= q /\ 10 * (n + 1) - 20 * p \in {0, 10} /\ p >= 1 /\ p <= n - 1
      /\ q * 20 <= 19 * (n + 1) /\ q <= n
  OBVIOUS
<1>2. CutPoint(n, 10) = p
  <2>1. Min({p, n - 1}) = p
    BY <1>1, OfTwo
  <2>2. Max({1, p}) = p
    BY <1>1, OfTwo
  <2> QED
    BY <2>1, <2>2 DEF CutPoint
<1>3. CutPoint(n, 19) = (IF q <= n - 1 THEN q ELSE n - 1)
  <2> DEFINE r == IF q <= n - 1 THEN q ELSE n - 1
  <2>1. Min({q, n - 1}) = r
    <3> DEFINE m == n - 1
    <3>1. q \in Int /\ m \in Int /\ r = (IF q <= m THEN q ELSE m)
      BY <1>1
    <3> HIDE DEF q, m, r
    <3>2. Min({q, m}) = r
      BY <3>1, OfTwo
    <3> QED
      BY <3>2 DEF m
  <2>2. r \in Int /\ r >= 1
    <3> HIDE DEF q
    <3> QED
      BY <1>1
  <2>3. Max({1, r}) = r
    <3> HIDE DEF r
    <3> QED
      BY <2>2, OfTwo
  <2> QED
    BY <2>1, <2>3 DEF CutPoint
<1>4. Delta(n, 10) = 10 * (n + 1) - 20 * p
  BY <1>1, <1>2 DEF Delta
<1>5. Delta(n, 19) = 19 * (n + 1) - 20 * (IF q <= n - 1 THEN q ELSE n - 1)
  BY <1>1, <1>3 DEF Delta
<1> HIDE DEF p, q
<1>6. Delta(n, 19) \in Nat
  BY <1>1, <1>5
<1>7. p <= (IF q <= n - 1 THEN q ELSE n - 1) /\ (IF q <= n - 1 THEN q ELSE n - 1) \in 1 .. n - 1
  BY <1>1
<1>8. p = (IF q <= n - 1 THEN q ELSE n - 1) => Delta(n, 19) >= 10
  BY <1>1, <1>5
<1> QED
  BY <1>1, <1>2, <1>3, <1>4, <1>6, <1>7, <1>8

\* Between two elements, and beyond them, a quantile grows with its weight.
LEMMA Interpolation ==
  ASSUME NEW x \in Nat, NEW y \in Nat, x <= y, NEW e \in Nat
  PROVE  /\ (x * (20 - e) + y * e) \div 20 \in Int
         /\ x <= (x * (20 - e) + y * e) \div 20
         /\ e <= 20 => (x * (20 - e) + y * e) \div 20 <= y
         /\ e >= 10 => (x * 10 + y * 10) \div 20 <= (x * (20 - e) + y * e) \div 20
<1> DEFINE w == y - x
           u == x * (20 - e) + y * e
<1>1. u = 20 * x + w * e
  OBVIOUS
<1>2. w \in Nat /\ y = x + w
  OBVIOUS
<1>3. w * e \in Nat /\ (e <= 20 => w * e <= 20 * w) /\ (e >= 10 => w * e >= 10 * w)
  <2>1. \A a, b \in Nat : a * b \in Nat
    OBVIOUS
  <2>2. w * e \in Nat
    BY <1>2, <2>1
  <2>3. ASSUME e <= 20 PROVE w * e <= 20 * w
    <3>1. w * (20 - e) \in Nat
      <4>1. 20 - e \in Nat
        BY <2>3
      <4> HIDE DEF w
      <4> QED
        BY <1>2, <2>1, <4>1
    <3>2. w * (20 - e) = 20 * w - w * e
      OBVIOUS
    <3> HIDE DEF w
    <3> QED
      BY <1>2, <2>2, <3>1, <3>2
  <2>4. ASSUME e >= 10 PROVE w * e >= 10 * w
    <3>1. w * (e - 10) \in Nat
      <4>1. e - 10 \in Nat
        BY <2>4
      <4> HIDE DEF w
      <4> QED
        BY <1>2, <2>1, <4>1
    <3>2. w * (e - 10) = w * e - 10 * w
      OBVIOUS
    <3> HIDE DEF w
    <3> QED
      BY <1>2, <2>2, <3>1, <3>2
  <2> QED
    BY <2>2, <2>3, <2>4
<1> DEFINE z == w * e
<1> HIDE DEF w, u, z
<1>4. u = 20 * x + z /\ z \in Nat /\ (e <= 20 => z <= 20 * w) /\ (e >= 10 => z >= 10 * w)
  BY <1>1, <1>3 DEF z
<1>5. u \div 20 \in Int /\ x <= u \div 20
  BY <1>4
<1>6. e <= 20 => u \div 20 <= y
  BY <1>2, <1>4
<1>7. e >= 10 => (x * 10 + y * 10) \div 20 <= u \div 20
  BY <1>2, <1>4
<1> QED
  BY <1>5, <1>6, <1>7 DEF u

\* The median is between two elements, and the 95th percentile is no less.
LEMMA QuantilesOrdered ==
  ASSUME NEW data, NEW n, Ascending(data, n), n >= 2
  PROVE  /\ Quantile(data, 10) \in Int /\ Quantile(data, 19) \in Int
         /\ data[1] <= Quantile(data, 10) /\ Quantile(data, 10) <= data[n]
         /\ Quantile(data, 10) <= Quantile(data, 19)
<1> DEFINE j == CutPoint(n, 10)
           k == CutPoint(n, 19)
           d == Delta(n, 10)
           e == Delta(n, 19)
<1>1. n \in Nat /\ Len(data) = n
  BY DEF Ascending
<1>2. /\ Quantile(data, 10) = (data[j] * (20 - d) + data[j + 1] * d) \div 20
      /\ Quantile(data, 19) = (data[k] * (20 - e) + data[k + 1] * e) \div 20
  BY <1>1 DEF Quantile, CutPoint, Delta
<1>3. /\ j \in 1 .. n - 1 /\ k \in 1 .. n - 1 /\ j <= k /\ d \in {0, 10} /\ e \in Nat /\ (j = k => e >= 10)
  BY <1>1, CutBounds
<1> HIDE DEF j, k, d, e
<1>4. /\ 1 \in 1 .. n /\ n \in 1 .. n /\ j \in 1 .. n /\ k \in 1 .. n /\ j + 1 \in 1 .. n /\ k + 1 \in 1 .. n
      /\ 1 <= j /\ j <= j + 1 /\ j + 1 <= n /\ k <= k + 1 /\ (j # k => j + 1 <= k)
  BY <1>1, <1>3
<1> DEFINE a == data[j]
           b == data[j + 1]
           x == data[k]
           y == data[k + 1]
           P == (a * (20 - d) + b * d) \div 20
           Q == (x * (20 - e) + y * e) \div 20
<1>5. /\ a \in Nat /\ b \in Nat /\ x \in Nat /\ y \in Nat /\ data[1] \in Nat /\ data[n] \in Nat
      /\ data[1] <= a /\ a <= b /\ b <= data[n] /\ x <= y /\ (j # k => b <= x) /\ (j = k => a = x /\ b = y)
  BY <1>4 DEF Ascending
<1> HIDE DEF a, b, x, y
<1>6. P \in Int /\ a <= P /\ P <= b
  <2>1. d \in Nat /\ d <= 20
    BY <1>3
  <2> QED
    BY <1>5, <2>1, Interpolation
<1>7. Q \in Int /\ x <= Q
  BY <1>3, <1>5, Interpolation
<1>8. P <= Q
  <2>1. CASE j # k
    <3> HIDE DEF P, Q
    <3> QED
      BY <1>5, <1>6, <1>7, <2>1
  <2>2. CASE j = k
    <3>1. a = x /\ b = y /\ e >= 10
      BY <1>3, <1>5, <2>2
    <3> DEFINE R == (x * 10 + y * 10) \div 20
    <3>2. R <= Q
      BY <1>3, <1>5, <3>1, Interpolation
    <3>3. CASE d = 10
      <4>1. P = R
        BY <1>5, <3>1, <3>3
      <4> QED
        BY <3>2, <4>1
    <3>4. CASE d = 0
      <4>1. P = x
        BY <1>5, <3>1, <3>4
      <4> HIDE DEF P, Q
      <4> QED
        BY <1>7, <4>1
    <3> QED
      BY <1>3, <3>3, <3>4
  <2> QED
    BY <2>1, <2>2
<1>9. Quantile(data, 10) = P /\ Quantile(data, 19) = Q
  BY <1>2 DEF a, b, x, y
<1> HIDE DEF P, Q
<1>10. data[1] <= P /\ P <= data[n]
  BY <1>5, <1>6
<1> QED
  BY <1>6, <1>7, <1>8, <1>9, <1>10

LatencySound(ls, s) ==
  Times(ls) # {} => s.p50 \in Min(Times(ls)) .. Max(Times(ls)) /\ s.p50 <= s.p95

LEMMA LatencyIsSound ==
  ASSUME NEW ls, Logged(ls)
  PROVE  LatencySound(ls, Latency(ls))
<1> SUFFICES ASSUME Times(ls) # {}
             PROVE  Latency(ls).p50 \in Min(Times(ls)) .. Max(Times(ls)) /\ Latency(ls).p50 <= Latency(ls).p95
  BY DEF LatencySound
<1> DEFINE n == Len(ls)
           data == Sorted(ls)
           T == Times(ls)
           p50 == Latency(ls).p50
           p95 == Latency(ls).p95
<1>1. Ascending(data, n) /\ \A k \in 1 .. n : data[k] \in T
  BY SortedAscends
<1>2. T \subseteq Nat /\ Max(T) \in T /\ Min(T) \in T /\ \A y \in T : Min(T) <= y /\ y <= Max(T)
  BY TimesFinite, GreatestOf, LeastOf
<1>3. n \in Nat /\ n >= 1
  <2>1. n \in Nat /\ DOMAIN ls = 1 .. n
    BY IndicesFinite
  <2> QED
    BY <2>1 DEF Times
<1>4. /\ n = 1 => p50 = data[1] /\ p95 = data[1]
      /\ n >= 2 => p50 = Quantile(data, 10) /\ p95 = Quantile(data, 19)
  <2>1. Len(data) = n
    BY <1>1 DEF Ascending
  <2> HIDE DEF data, n
  <2>2. /\ Latency(ls).p50 = (CASE n = 0 -> 0 [] n = 1 -> data[1] [] OTHER -> Quantile(data, 10))
        /\ Latency(ls).p95 = (CASE n = 0 -> 0 [] n = 1 -> data[1] [] OTHER -> Quantile(data, 19))
    BY <2>1 DEF Latency, data
  <2>3. CASE n = 1
    BY <2>2, <2>3
  <2>4. CASE n >= 2
    BY <1>3, <2>2, <2>4
  <2> QED
    BY <1>3, <2>3, <2>4
<1> HIDE DEF n, data, T, p50, p95
<1>5. 1 \in 1 .. n /\ n \in 1 .. n
  BY <1>3
<1>6. Min(T) <= data[1] /\ data[1] <= Max(T) /\ Min(T) <= data[n] /\ data[n] <= Max(T) /\ data[1] \in Nat /\ data[n] \in Nat
      /\ Min(T) \in Nat /\ Max(T) \in Nat
  BY <1>1, <1>2, <1>5
<1>7. CASE n = 1
  BY <1>4, <1>6, <1>7 DEF p50, p95, T
<1>8. CASE n >= 2
  <2>1. /\ Quantile(data, 10) \in Int
        /\ data[1] <= Quantile(data, 10) /\ Quantile(data, 10) <= data[n]
        /\ Quantile(data, 10) <= Quantile(data, 19)
    BY <1>1, <1>8, QuantilesOrdered
  <2>2. p50 \in Min(T) .. Max(T) /\ p50 <= p95
    BY <1>4, <1>6, <1>8, <2>1
  <2> QED
    BY <2>2 DEF p50, p95, T
<1> QED
  BY <1>3, <1>7, <1>8

-----------------------------------------------------------------------------
(* The summary of an evaluation *)

LEMMA SummaryIsSound ==
  ASSUME NEW entries, NEW outcomes, NEW times, Evaluation(entries, outcomes, times),
         NEW run, run = Run(entries, outcomes, times)
  PROVE  SummarySound(run, Summary(run))
<1> DEFINE ls == run.lines
           s == Summary(run)
           done == {i \in DOMAIN ls : ~ls[i].failed /\ ls[i].http = 200}
<1>1. Logged(ls) /\ run.ok = Cardinality(done)
  BY RunLogged
<1>2. /\ s.refusals = Refusals(ls) /\ s.latency = Latency(ls) /\ s.kappa = Kappa(ls)
      /\ s.topics = Topics(ls) /\ s.dashboard = DashboardTopics(ls)
  BY DEF Summary
<1> HIDE DEF ls, s
<1>3. /\ s.refusals.toRefuse + s.refusals.toAnswer + Lines(ls, LAMBDA l : l.entry.type = "self_check") = Len(ls)
      /\ s.refusals.correct + s.refusals.false = Lines(ls, LAMBDA l : l.api = "refused")
  BY <1>1, <1>2, CountsSound
<1>4. s.latency.errors + run.ok = Len(ls)
  BY <1>1, <1>2, ErrorsSound
<1>5. /\ s.refusals.toRefuse + SumFunction([t \in DOMAIN s.topics |-> s.topics[t].total]) = Len(ls)
      /\ SumFunction([t \in DOMAIN s.topics |->
            s.topics[t].total - (s.topics[t].answered + s.topics[t].refused + s.topics[t].errors)]) = Cardinality(Silent(ls))
      /\ SumFunction([t \in DOMAIN s.topics |-> s.topics[t].refused]) = s.refusals.false
      /\ SumFunction([t \in DOMAIN s.topics |-> s.topics[t].errors]) = Cardinality(Erroneous(ls))
      /\ s.dashboard = [t \in DOMAIN s.topics \ {NoTopic} |->
            [s.topics[t] EXCEPT !.errors = @ + Cardinality(Of(ls, Silent(ls), t))]]
  <2>1. TablesSound(ls, s.topics, s.dashboard)
    BY <1>1, <1>2, TablesAreSound
  <2> QED
    BY <1>2, <2>1 DEF TablesSound
<1>9. SumFunction([t \in DOMAIN s.topics |-> s.topics[t].errors])
        + Lines(ls, Strayed) + Lines(ls, LAMBDA l : ToRefuse(l) /\ (l.failed \/ l.http # 200))
      = s.latency.errors + Lines(ls, LAMBDA l : ~ToRefuse(l) /\ l.api = "error")
  BY <1>1, <1>2, <1>5, ErrorsByTopic
<1>6. Times(ls) # {} => s.latency.p50 \in Min(Times(ls)) .. Max(Times(ls)) /\ s.latency.p50 <= s.latency.p95
  <2>1. LatencySound(ls, s.latency)
    BY <1>1, <1>2, LatencyIsSound
  <2> QED
    BY <2>1 DEF LatencySound
<1>7. /\ s.kappa[2] > 0 /\ s.kappa[1] \in (-s.kappa[2]) .. s.kappa[2]
      /\ Scored(ls) # {} =>
           ((s.kappa[1] = s.kappa[2]) = \A i \in Scored(ls) : ls[i].entry.good = (ls[i].score = "good"))
  <2>1. KappaSound(ls, s.kappa)
    BY <1>1, <1>2, KappaIsSound
  <2> QED
    BY <2>1 DEF KappaSound
<1>8. SummarySound(run, s)
  BY <1>3, <1>4, <1>5, <1>6, <1>7, <1>9 DEF SummarySound, ls, Scored, Of, Times
<1> QED
  BY <1>8 DEF s

-----------------------------------------------------------------------------
(* Texts and what they hold *)

\* White space in a text is shorter than a chunk.
Spaced(t) == \A i \in Nat : i + ChunkMax <= Len(t) => \E j \in i + 1 .. i + ChunkMax : t[j] # Blank

\* What T holds after i up to k.
Span(T, i, k) == {T[j] : j \in {l \in i + 1 .. k : T[l] # Blank}}

LEMMA InkIsSpan ==
  ASSUME NEW C, NEW T \in Seq(C)
  PROVE  Ink(T) = Span(T, 0, Len(T)) /\ Ink(T) \subseteq C /\ Blank \notin Ink(T)
BY DEF Ink, Span, Range

LEMMA SpansJoin ==
  ASSUME NEW T, NEW i \in Nat, NEW k \in Nat, NEW m \in Nat, i <= k, k <= m
  PROVE  Span(T, i, m) = Span(T, i, k) \cup Span(T, k, m) /\ Span(T, i, i) = {}
BY DEF Span

LEMMA SpanInOrder ==
  ASSUME NEW C, NEW T \in Seq(C), InOrder(T),
         NEW i \in Nat, NEW k \in Nat, NEW m \in Nat, i <= k, k <= m, m <= Len(T)
  PROVE  \A c \in Span(T, i, k), d \in Span(T, k, m) : Precedes(c, d)
<1> SUFFICES ASSUME NEW c \in Span(T, i, k), NEW d \in Span(T, k, m) PROVE Precedes(c, d)
  OBVIOUS
<1>1. PICK j \in i + 1 .. k : T[j] # Blank /\ c = T[j]
  BY DEF Span
<1>2. PICK l \in k + 1 .. m : T[l] # Blank /\ d = T[l]
  BY DEF Span
<1>3. j \in DOMAIN T /\ l \in DOMAIN T /\ j < l
  OBVIOUS
<1> QED
  BY <1>1, <1>2, <1>3 DEF InOrder

\* A stretch x of a text, what T holds after i up to k.
Stretch(C, T, x, i, k) ==
  /\ x \in Seq(C) /\ Len(x) = k - i /\ Ink(x) = Span(T, i, k)
  /\ \A j \in 1 .. k - i : x[j] = T[i + j]
  /\ InOrder(T) => InOrder(x)
  /\ Spaced(T) => Spaced(x)

LEMMA SubStretch ==
  ASSUME NEW C, NEW T \in Seq(C), NEW i \in Nat, NEW k \in Nat, i <= k, k <= Len(T),
         NEW x, x = SubSeq(T, i + 1, k)
  PROVE  Stretch(C, T, x, i, k)
<1>1. x \in Seq(C) /\ Len(x) = k - i /\ \A j \in 1 .. k - i : x[j] = T[i + j]
  OBVIOUS
<1>2. DOMAIN x = 1 .. k - i
  BY <1>1
<1>3. Ink(x) = Span(T, i, k)
  <2>1. Ink(x) = {x[j] : j \in {l \in 1 .. k - i : x[l] # Blank}}
    BY <1>2 DEF Ink, Range
  <2>2. \A l \in i + 1 .. k : l - i \in 1 .. k - i /\ x[l - i] = T[l]
    BY <1>1
  <2>3. \A l \in 1 .. k - i : i + l \in i + 1 .. k
    OBVIOUS
  <2>4. ASSUME NEW c \in Ink(x) PROVE c \in Span(T, i, k)
    <3>1. PICK l \in 1 .. k - i : x[l] # Blank /\ c = x[l]
      BY <2>1
    <3>2. i + l \in i + 1 .. k /\ c = T[i + l]
      BY <1>1, <2>3, <3>1
    <3> QED
      BY <3>1, <3>2 DEF Span
  <2>5. ASSUME NEW c \in Span(T, i, k) PROVE c \in Ink(x)
    <3>1. PICK l \in i + 1 .. k : T[l] # Blank /\ c = T[l]
      BY DEF Span
    <3>2. l - i \in 1 .. k - i /\ x[l - i] = T[l]
      BY <2>2
    <3> QED
      BY <2>1, <3>1, <3>2
  <2> QED
    BY <2>4, <2>5
<1>4. ASSUME InOrder(T) PROVE InOrder(x)
  <2> SUFFICES ASSUME NEW j \in 1 .. k - i, NEW l \in 1 .. k - i, j < l, x[j] # Blank, x[l] # Blank
               PROVE  Precedes(x[j], x[l])
    BY <1>2 DEF InOrder
  <2>1. i + j \in DOMAIN T /\ i + l \in DOMAIN T /\ i + j < i + l /\ x[j] = T[i + j] /\ x[l] = T[i + l]
    BY <1>1
  <2> QED
    BY <1>4, <2>1 DEF InOrder
<1>5. ASSUME Spaced(T) PROVE Spaced(x)
  <2> SUFFICES ASSUME NEW h \in Nat, h + ChunkMax <= Len(x)
               PROVE  \E j \in h + 1 .. h + ChunkMax : x[j] # Blank
    BY DEF Spaced
  <2>0. ChunkMax \in Nat
    BY ChunkerAssumption
  <2>1. i + h \in Nat /\ (i + h) + ChunkMax <= Len(T)
    BY <1>1, <2>0
  <2>2. PICK j \in (i + h) + 1 .. (i + h) + ChunkMax : T[j] # Blank
    BY <1>5, <2>1 DEF Spaced
  <2>3. j - i \in h + 1 .. h + ChunkMax /\ j - i \in 1 .. k - i /\ i + (j - i) = j
    BY <1>1, <2>0
  <2>4. x[j - i] = T[j]
    BY <1>1, <2>3
  <2> QED
    BY <2>2, <2>3, <2>4
<1> QED
  BY <1>1, <1>3, <1>4, <1>5 DEF Stretch

\* A stretch that begins and ends with a character.
LEMMA StripIs ==
  ASSUME NEW C, NEW T \in Seq(C), NEW x, x = Strip(T)
  PROVE  \/ x = << >> /\ Ink(T) = {}
         \/ \E i, k \in Nat : /\ i < k /\ k <= Len(T) /\ x = SubSeq(T, i + 1, k)
                              /\ T[i + 1] # Blank /\ T[k] # Blank
                              /\ \A j \in 1 .. i : T[j] = Blank
                              /\ \A j \in k + 1 .. Len(T) : T[j] = Blank
<1> DEFINE I == {i \in 1 .. Len(T) : T[i] # Blank}
<1>1. Len(T) \in Nat /\ DOMAIN T = 1 .. Len(T)
  OBVIOUS
<1>2. x = IF I = {} THEN << >> ELSE SubSeq(T, Min(I), Max(I))
  BY <1>1 DEF Strip
<1>3. CASE I = {}
  BY <1>1, <1>2, <1>3 DEF Ink, Range
<1>4. CASE I # {}
  <2> DEFINE a == Min(I)
             b == Max(I)
  <2>1. a \in I /\ b \in I /\ \A y \in I : a <= y /\ y <= b
    <3>1. I \in SUBSET (1 .. Len(T))
      OBVIOUS
    <3> HIDE DEF I
    <3> QED
      BY <1>1, <1>4, <3>1, Extremes
  <2>2. x = SubSeq(T, a, b)
    BY <1>2, <1>4
  <2> HIDE DEF a, b
  <2>3. a \in 1 .. Len(T) /\ b \in 1 .. Len(T) /\ T[a] # Blank /\ T[b] # Blank /\ a <= b
    BY <2>1
  <2>4. \A j \in 1 .. Len(T) : j < a \/ j > b => T[j] = Blank
    <3> TAKE j \in 1 .. Len(T)
    <3>1. j \in I => ~(j < a) /\ ~(j > b)
      BY <2>1, <2>3
    <3> QED
      BY <3>1
  <2> DEFINE i == a - 1
  <2>5. i \in Nat /\ i < b /\ b <= Len(T) /\ i + 1 = a /\ b \in Nat
    BY <2>3
  <2>6. \A j \in 1 .. i : T[j] = Blank
    BY <2>3, <2>4
  <2>7. \A j \in b + 1 .. Len(T) : T[j] = Blank
    BY <2>3, <2>4
  <2> HIDE DEF i
  <2> QED
    BY <2>2, <2>3, <2>5, <2>6, <2>7
<1> QED
  BY <1>3, <1>4

LEMMA StripText ==
  ASSUME NEW C, NEW T \in Seq(C), NEW x, x = Strip(T)
  PROVE  /\ x \in Seq(C) /\ Ink(x) = Ink(T) /\ Len(x) <= Len(T) /\ Trim(x)
         /\ InOrder(T) => InOrder(x)
         /\ Spaced(T) => Spaced(x)
<1>1. CASE x = << >> /\ Ink(T) = {}
  <2>1. x \in Seq(C) /\ Len(x) = 0 /\ DOMAIN x = {}
    BY <1>1
  <2>2. Ink(x) = {}
    BY <2>1 DEF Ink, Range
  <2>3. InOrder(x) /\ Trim(x)
    BY <1>1, <2>1 DEF InOrder, Trim
  <2>4. Spaced(x)
    BY <2>1, ChunkerAssumption DEF Spaced
  <2> QED
    BY <1>1, <2>1, <2>2, <2>3, <2>4
<1>2. CASE \E i, k \in Nat : /\ i < k /\ k <= Len(T) /\ x = SubSeq(T, i + 1, k)
                             /\ T[i + 1] # Blank /\ T[k] # Blank
                             /\ \A j \in 1 .. i : T[j] = Blank
                             /\ \A j \in k + 1 .. Len(T) : T[j] = Blank
  <2>1. PICK i \in Nat, k \in Nat :
          /\ i < k /\ k <= Len(T) /\ x = SubSeq(T, i + 1, k)
          /\ T[i + 1] # Blank /\ T[k] # Blank
          /\ \A j \in 1 .. i : T[j] = Blank
          /\ \A j \in k + 1 .. Len(T) : T[j] = Blank
    BY <1>2
  <2>2. /\ x \in Seq(C) /\ Len(x) = k - i /\ Ink(x) = Span(T, i, k)
        /\ \A j \in 1 .. k - i : x[j] = T[i + j]
        /\ InOrder(T) => InOrder(x)
        /\ Spaced(T) => Spaced(x)
    <3>1. i <= k /\ k <= Len(T) /\ x = SubSeq(T, i + 1, k)
      BY <2>1
    <3>2. Stretch(C, T, x, i, k)
      BY <3>1, SubStretch
    <3> QED
      BY <3>2 DEF Stretch
  <2>3. Ink(T) = Span(T, i, k)
    <3>1. Ink(T) = Span(T, 0, Len(T))
      BY InkIsSpan
    <3>2. Span(T, 0, i) = {} /\ Span(T, k, Len(T)) = {}
      BY <2>1 DEF Span
    <3>3. Span(T, 0, Len(T)) = Span(T, 0, i) \cup Span(T, i, Len(T)) /\ Span(T, i, Len(T)) = Span(T, i, k) \cup Span(T, k, Len(T))
      <4>1. Len(T) \in Nat /\ i <= Len(T) /\ i <= k /\ k <= Len(T) /\ 0 \in Nat /\ 0 <= i
        BY <2>1
      <4>2. Span(T, 0, Len(T)) = Span(T, 0, i) \cup Span(T, i, Len(T))
        BY <4>1 DEF Span
      <4>3. Span(T, i, Len(T)) = Span(T, i, k) \cup Span(T, k, Len(T))
        BY <4>1 DEF Span
      <4> QED
        BY <4>2, <4>3
    <3> QED
      BY <3>1, <3>2, <3>3
  <2>4. x[1] = T[i + 1] /\ x[k - i] = T[k]
    BY <2>1, <2>2
  <2>5. Trim(x) /\ Len(x) <= Len(T)
    BY <2>1, <2>2, <2>4 DEF Trim
  <2> QED
    BY <2>2, <2>3, <2>5
<1> QED
  BY <1>1, <1>2, StripIs

\* One text after the other, with k blanks between them.
Spliced(C, x, s, k, t) ==
  /\ x \in Seq(C) /\ Len(x) = Len(s) + k + Len(t) /\ Ink(x) = Ink(s) \cup Ink(t)
  /\ InOrder(s) /\ InOrder(t) /\ (\A c \in Ink(s), d \in Ink(t) : Precedes(c, d)) => InOrder(x)

LEMMA JoinText ==
  ASSUME NEW C, NEW s \in Seq(C), NEW t \in Seq(C), NEW x, x = s \o t
  PROVE  Spliced(C, x, s, 0, t)
<1>1. /\ x \in Seq(C) /\ Len(x) = Len(s) + Len(t) /\ Len(s) \in Nat /\ Len(t) \in Nat
      /\ DOMAIN s = 1 .. Len(s) /\ DOMAIN t = 1 .. Len(t) /\ DOMAIN x = 1 .. Len(s) + Len(t)
  OBVIOUS
<1>2. /\ \A i \in 1 .. Len(s) : x[i] = s[i] /\ i \in 1 .. Len(x)
      /\ \A i \in 1 .. Len(t) : x[Len(s) + i] = t[i] /\ Len(s) + i \in 1 .. Len(x)
      /\ \A i \in 1 .. Len(x) : i \in 1 .. Len(s) \/ (i - Len(s) \in 1 .. Len(t) /\ x[i] = t[i - Len(s)])
  BY <1>1
<1>3. Ink(x) = Ink(s) \cup Ink(t)
  <2>1. Ink(x) \subseteq Ink(s) \cup Ink(t)
    BY <1>1, <1>2 DEF Ink, Range
  <2>2. Ink(s) \subseteq Ink(x)
    BY <1>1, <1>2 DEF Ink, Range
  <2>3. Ink(t) \subseteq Ink(x)
    BY <1>1, <1>2 DEF Ink, Range
  <2> QED
    BY <2>1, <2>2, <2>3
<1>4. ASSUME InOrder(s), InOrder(t), \A c \in Ink(s), d \in Ink(t) : Precedes(c, d)
      PROVE  InOrder(x)
  <2> SUFFICES ASSUME NEW i \in 1 .. Len(x), NEW j \in 1 .. Len(x), i < j, x[i] # Blank, x[j] # Blank
               PROVE  Precedes(x[i], x[j])
    BY <1>1 DEF InOrder
  <2>1. CASE j \in 1 .. Len(s)
    <3>1. i \in 1 .. Len(s) /\ x[i] = s[i] /\ x[j] = s[j]
      BY <1>1, <1>2, <2>1
    <3> QED
      BY <1>1, <1>4, <2>1, <3>1 DEF InOrder
  <2>2. CASE i \notin 1 .. Len(s)
    <3>1. /\ i - Len(s) \in 1 .. Len(t) /\ x[i] = t[i - Len(s)]
          /\ j - Len(s) \in 1 .. Len(t) /\ x[j] = t[j - Len(s)] /\ i - Len(s) < j - Len(s)
      BY <1>1, <1>2, <2>2
    <3> QED
      BY <1>1, <1>4, <3>1 DEF InOrder
  <2>3. CASE i \in 1 .. Len(s) /\ j \notin 1 .. Len(s)
    <3>1. x[i] = s[i] /\ j - Len(s) \in 1 .. Len(t) /\ x[j] = t[j - Len(s)]
      BY <1>2, <2>3
    <3>2. x[i] \in Ink(s) /\ x[j] \in Ink(t)
      BY <1>1, <2>3, <3>1 DEF Ink, Range
    <3> QED
      BY <1>4, <3>2
  <2> QED
    BY <2>1, <2>2, <2>3
<1>5. Len(x) = Len(s) + 0 + Len(t)
  BY <1>1
<1> QED
  BY <1>1, <1>3, <1>4, <1>5 DEF Spliced

LEMMA SpacedText ==
  ASSUME NEW C, Blank \in C, NEW s \in Seq(C), NEW t \in Seq(C), NEW g \in {<<Blank>>, Gap}
  PROVE  Spliced(C, s \o g \o t, s, Len(g), t)
<1> DEFINE y == s \o g
           x == y \o t
<1>1. g \in Seq(C) /\ Ink(g) = {} /\ InOrder(g) /\ Len(g) \in Nat
  <2>1. g \in Seq(C) /\ \A i \in DOMAIN g : g[i] = Blank
    <3>1. CASE g = <<Blank>>
      BY <3>1
    <3>2. CASE g = Gap
      BY <3>2 DEF Gap
    <3> QED
      BY <3>1, <3>2
  <2>2. Len(g) \in Nat
    BY <2>1
  <2> QED
    BY <2>1, <2>2 DEF Ink, Range, InOrder
<1>2. s \o g \o t = x /\ y = s \o g /\ x = y \o t
  OBVIOUS
<1> HIDE DEF x, y
<1>3. Spliced(C, y, s, 0, g)
  BY <1>1, <1>2, JoinText
<1>4. y \in Seq(C) /\ Len(y) = Len(s) + Len(g) /\ Ink(y) = Ink(s)
  <2>1. y \in Seq(C) /\ Len(y) = Len(s) + 0 + Len(g) /\ Ink(y) = Ink(s) \cup Ink(g)
    BY <1>3 DEF Spliced
  <2> QED
    BY <1>1, <2>1
<1>5. Spliced(C, x, y, 0, t)
  BY <1>2, <1>4, JoinText
<1>6. Len(x) = Len(s) + Len(g) + Len(t)
  <2>1. Len(x) = Len(y) + 0 + Len(t)
    BY <1>5 DEF Spliced
  <2>2. Len(s) \in Nat /\ Len(t) \in Nat
    OBVIOUS
  <2> QED
    BY <1>1, <1>4, <2>1, <2>2
<1>7. InOrder(s) => InOrder(y)
  BY <1>1, <1>3 DEF Spliced
<1>8. Spliced(C, x, s, Len(g), t)
  BY <1>4, <1>5, <1>6, <1>7 DEF Spliced
<1> QED
  BY <1>2, <1>8

-----------------------------------------------------------------------------
(* Texts in parts *)

\* A part of a text over C that may become a chunk.
Fit(C, x) == x \in Seq(C) /\ InOrder(x) /\ Ink(x) # {} /\ Len(x) <= ChunkMax

\* The parts divide what T holds after i up to k, at the places e.
Divide(C, parts, T, i, k, e) ==
  /\ parts \in Seq(Seq(C))
  /\ e \in [0 .. Len(parts) -> i .. k] /\ e[0] = i /\ e[Len(parts)] = k
  /\ \A m \in 1 .. Len(parts) : /\ e[m - 1] <= e[m]
                                /\ Fit(C, parts[m]) /\ Ink(parts[m]) = Span(T, e[m - 1], e[m])

\* A text that ends with a character.
Ended(x) == x # << >> /\ x[Len(x)] # Blank

Parted(C, parts, T, i, k) ==
  /\ \E e : Divide(C, parts, T, i, k, e)
  /\ parts # << >> => Ended(parts[Len(parts)])

LEMMA PartedNone ==
  ASSUME NEW C, NEW T, NEW i \in Nat
  PROVE  Parted(C, << >>, T, i, i)
<1> DEFINE e == [m \in 0 .. 0 |-> i]
<1>1. << >> \in Seq(Seq(C)) /\ Len(<< >>) = 0
  OBVIOUS
<1>2. e \in [0 .. 0 -> i .. i] /\ e[0] = i
  OBVIOUS
<1> HIDE DEF e
<1>3. Divide(C, << >>, T, i, i, e)
  BY <1>1, <1>2 DEF Divide
<1> QED
  BY <1>3 DEF Parted

LEMMA PartedOne ==
  ASSUME NEW C, NEW T, NEW i \in Nat, NEW k \in Nat, i <= k, NEW x, Fit(C, x), Ended(x), Ink(x) = Span(T, i, k)
  PROVE  Parted(C, <<x>>, T, i, k)
<1> DEFINE e == [m \in 0 .. 1 |-> IF m = 0 THEN i ELSE k]
<1>1. <<x>> \in Seq(Seq(C)) /\ Len(<<x>>) = 1 /\ <<x>>[1] = x
  BY DEF Fit
<1>2. e \in [0 .. 1 -> i .. k] /\ e[0] = i /\ e[1] = k
  OBVIOUS
<1> HIDE DEF e
<1> DEFINE parts == <<x>>
<1> HIDE DEF parts
<1>3. parts \in Seq(Seq(C)) /\ Len(parts) = 1 /\ parts[1] = x
  BY <1>1 DEF parts
<1>4. \A m \in 1 .. Len(parts) : m = 1 /\ m - 1 = 0
  BY <1>3
<1>5. Divide(C, parts, T, i, k, e)
  BY <1>2, <1>3, <1>4 DEF Divide
<1> QED
  BY <1>3, <1>5 DEF Parted, parts

LEMMA PartedJoin ==
  ASSUME NEW C, NEW T, NEW i \in Nat, NEW k \in Nat, NEW l \in Nat, i <= k, k <= l,
         NEW p, Parted(C, p, T, i, k), NEW q, Parted(C, q, T, k, l)
  PROVE  Parted(C, p \o q, T, i, l)
<1>1. PICK e : Divide(C, p, T, i, k, e)
  BY DEF Parted
<1>2. PICK f : Divide(C, q, T, k, l, f)
  BY DEF Parted
<1> DEFINE a == Len(p)
           b == Len(q)
           r == p \o q
           g == [m \in 0 .. a + b |-> IF m <= a THEN e[m] ELSE f[m - a]]
<1>3. /\ p \in Seq(Seq(C)) /\ q \in Seq(Seq(C)) /\ a \in Nat /\ b \in Nat
      /\ e \in [0 .. a -> i .. k] /\ e[0] = i /\ e[a] = k
      /\ f \in [0 .. b -> k .. l] /\ f[0] = k /\ f[b] = l
  BY <1>1, <1>2 DEF Divide
<1>4. r \in Seq(Seq(C)) /\ Len(r) = a + b
  BY <1>3
<1>5. /\ \A m \in 1 .. a : r[m] = p[m]
      /\ \A m \in 1 .. b : r[a + m] = q[m]
  BY <1>3
<1> HIDE DEF r
<1>6. /\ \A m \in 0 .. a : e[m] \in i .. k
      /\ \A m \in 0 .. b : f[m] \in k .. l
  <2> HIDE DEF a, b
  <2> QED
    BY <1>3
<1> HIDE DEF a, b
<1>7. \A m \in 0 .. a : g[m] = e[m]
  BY <1>3
<1>8. \A m \in 0 .. b : g[a + m] = f[m]
  <2> TAKE m \in 0 .. b
  <2>1. a + m \in 0 .. a + b
    BY <1>3
  <2>2. CASE m = 0
    BY <1>3, <2>1, <2>2
  <2>3. CASE m # 0
    BY <1>3, <2>1, <2>3
  <2> QED
    BY <2>2, <2>3
<1>9. g \in [0 .. a + b -> i .. l]
  <2> SUFFICES ASSUME NEW m \in 0 .. a + b PROVE (IF m <= a THEN e[m] ELSE f[m - a]) \in i .. l
    OBVIOUS
  <2>1. CASE m <= a
    <3>1. e[m] \in i .. k
      BY <1>3, <1>6, <2>1
    <3> QED
      BY <2>1, <3>1
  <2>2. CASE ~(m <= a)
    <3>1. f[m - a] \in k .. l
      BY <1>3, <1>6, <2>2
    <3> QED
      BY <2>2, <3>1
  <2> QED
    BY <2>1, <2>2
<1> HIDE DEF g
<1>10. g[0] = i /\ g[a + b] = l
  BY <1>3, <1>7, <1>8
<1>11. ASSUME NEW m \in 1 .. a + b
       PROVE  g[m - 1] <= g[m] /\ Fit(C, r[m]) /\ Ink(r[m]) = Span(T, g[m - 1], g[m])
  <2>1. CASE m <= a
    <3>1. m \in 1 .. a /\ m \in 0 .. a /\ m - 1 \in 0 .. a
      BY <1>3, <2>1
    <3>2. g[m] = e[m] /\ g[m - 1] = e[m - 1] /\ r[m] = p[m]
      BY <1>5, <1>7, <3>1
    <3>3. e[m - 1] <= e[m] /\ Fit(C, p[m]) /\ Ink(p[m]) = Span(T, e[m - 1], e[m])
      BY <1>1, <3>1 DEF Divide, a
    <3> QED
      BY <3>2, <3>3
  <2>2. CASE ~(m <= a)
    <3> DEFINE h == m - a
    <3>1. h \in 1 .. b /\ h \in 0 .. b /\ h - 1 \in 0 .. b /\ a + h = m /\ a + (h - 1) = m - 1
      BY <1>3, <2>2
    <3> HIDE DEF h
    <3>2. g[m] = f[h] /\ g[m - 1] = f[h - 1] /\ r[m] = q[h]
      BY <1>5, <1>8, <3>1
    <3>3. f[h - 1] <= f[h] /\ Fit(C, q[h]) /\ Ink(q[h]) = Span(T, f[h - 1], f[h])
      BY <1>2, <3>1 DEF Divide, b
    <3> QED
      BY <3>2, <3>3
  <2> QED
    BY <2>1, <2>2
<1>12. Divide(C, r, T, i, l, g)
  BY <1>4, <1>9, <1>10, <1>11 DEF Divide
<1> QED
  <2>1. ASSUME r # << >> PROVE Ended(r[Len(r)])
    <3>1. CASE b = 0
      <4>1. a \in 1 .. a /\ r[a] = p[a] /\ Len(r) = a
        <5>1. a # 0
          <6> SUFFICES ASSUME a = 0 PROVE FALSE
            OBVIOUS
          <6>1. r \in Seq(Seq(C)) /\ Len(r) = 0
            BY <1>4, <3>1
          <6> QED
            BY <2>1, <6>1
        <5> QED
          BY <1>3, <1>4, <1>5, <3>1, <5>1
      <4>2. p # << >>
        BY <4>1 DEF a
      <4> QED
        BY <4>1, <4>2 DEF Parted, a
    <3>2. CASE b # 0
      <4>1. b \in 1 .. b /\ r[a + b] = q[b] /\ Len(r) = a + b
        BY <1>3, <1>4, <1>5, <3>2
      <4>2. q # << >>
        BY <3>2 DEF b
      <4> QED
        BY <4>1, <4>2 DEF Parted, b
    <3> QED
      BY <3>1, <3>2
  <2> QED
    BY <1>12, <2>1 DEF Parted, r

-----------------------------------------------------------------------------
(* Sentences *)

\* A sentence is what T has after i, up to the last character before k.
SentenceAt(T, s, i, k) ==
  \E z \in i + 1 .. k : /\ s = SubSeq(T, i + 1, z) /\ T[i + 1] # Blank /\ T[z] # Blank
                        /\ Span(T, z, k) = {}

LEMMA SentenceText ==
  ASSUME NEW C, NEW T \in Seq(C), InOrder(T), NEW i \in Nat, NEW k \in Nat, k <= Len(T),
         NEW s, SentenceAt(T, s, i, k)
  PROVE  /\ s \in Seq(C) /\ InOrder(s) /\ Ink(s) = Span(T, i, k) /\ Ink(s) # {} /\ s # << >>
         /\ s[1] # Blank /\ s[Len(s)] # Blank /\ i < k
<1>1. PICK z \in i + 1 .. k : /\ s = SubSeq(T, i + 1, z) /\ T[i + 1] # Blank /\ T[z] # Blank
                              /\ Span(T, z, k) = {}
  BY DEF SentenceAt
<1>2. i <= z /\ z <= Len(T) /\ z \in Nat /\ i < k /\ z <= k /\ i < z
  BY <1>1
<1>3. /\ s \in Seq(C) /\ Len(s) = z - i /\ Ink(s) = Span(T, i, z)
      /\ \A j \in 1 .. z - i : s[j] = T[i + j]
      /\ InOrder(s)
  <2>1. Stretch(C, T, s, i, z)
    BY <1>1, <1>2, SubStretch
  <2> QED
    BY <2>1 DEF Stretch
<1>4. Span(T, i, k) = Span(T, i, z)
  <2>1. Span(T, i, k) = Span(T, i, z) \cup Span(T, z, k)
    BY <1>2 DEF Span
  <2> QED
    BY <1>1, <2>1
<1>5. s[1] = T[i + 1] /\ s[z - i] = T[z]
  BY <1>2, <1>3
<1>6. T[z] \in Span(T, i, z)
  BY <1>1, <1>2 DEF Span
<1>7. s # << >>
  BY <1>2, <1>3
<1> QED
  BY <1>1, <1>2, <1>3, <1>4, <1>5, <1>6, <1>7

\* A sentence that is cut by characters.
LEMMA PiecesPart ==
  ASSUME NEW C, NEW T \in Seq(C), InOrder(T), Spaced(T), NEW i \in Nat, NEW k \in Nat, k <= Len(T),
         NEW s, SentenceAt(T, s, i, k)
  PROVE  Parted(C, Pieces(s), T, i, k)
<1>1. PICK z \in i + 1 .. k : /\ s = SubSeq(T, i + 1, z) /\ T[i + 1] # Blank /\ T[z] # Blank
                              /\ Span(T, z, k) = {}
  BY DEF SentenceAt
<1>2. i <= z /\ z <= Len(T) /\ z \in Nat /\ z <= k /\ i < z
  BY <1>1
<1> DEFINE L == z - i
           M == ChunkMax
           n == (L + M - 1) \div M
           e == [m \in 0 .. n |-> IF m = n THEN k ELSE i + m * M]
           to(m) == IF m = n THEN L ELSE m * M
<1>3. s \in Seq(C) /\ Len(s) = L /\ InOrder(s) /\ \A j \in 1 .. L : s[j] = T[i + j]
  <2>1. Stretch(C, T, s, i, z)
    BY <1>1, <1>2, SubStretch
  <2> QED
    BY <2>1 DEF Stretch, L
<1>4. M \in Nat /\ M > 0 /\ L \in Nat /\ L > 0
  BY <1>2, ChunkerAssumption
<1> HIDE DEF L, M
<1>5. n \in Nat /\ n >= 1 /\ n * M >= L /\ (n - 1) * M < L
  <2>1. n \in Nat /\ n * M <= L + M - 1 /\ L + M - 1 < n * M + M
    BY <1>4
  <2>2. n # 0
    <3> SUFFICES ASSUME n = 0 PROVE FALSE
      OBVIOUS
    <3>1. n * M = 0
      BY <1>4
    <3> HIDE DEF n
    <3> QED
      BY <1>4, <2>1, <3>1
  <2>3. (n - 1) * M = n * M - M
    BY <1>4, <2>1
  <2> DEFINE nM == n * M
             pM == (n - 1) * M
  <2>4. nM \in Nat /\ pM = nM - M /\ nM <= L + M - 1 /\ L + M - 1 < nM + M
    BY <1>4, <2>1, <2>3
  <2> HIDE DEF nM, pM, n
  <2>5. nM >= L /\ pM < L
    BY <1>4, <2>4
  <2> QED
    BY <2>1, <2>2, <2>5 DEF nM, pM
<1> HIDE DEF n
<1>6. ASSUME NEW m \in 1 .. n
      PROVE  /\ (m - 1) * M \in Nat /\ (m - 1) * M < to(m) /\ to(m) <= L /\ to(m) - (m - 1) * M <= M /\ to(m) \in Nat
             /\ m # n => to(m) = (m - 1) * M + M
             /\ Min({m * M, L}) = to(m)
  <2> DEFINE x == (m - 1) * M
             y == m * M
  <2>1. x \in Nat /\ y \in Nat /\ y = x + M
    BY <1>4
  <2>2. m # n => y < L
    <3> SUFFICES ASSUME m < n PROVE y < L
      BY <1>5
    <3>1. \A a, b \in Nat : a <= b => a * M <= b * M
      <4> TAKE a \in Nat, b \in Nat
      <4> SUFFICES ASSUME a <= b PROVE a * M <= b * M
        OBVIOUS
      <4>1. (b - a) * M \in Nat /\ b * M = a * M + (b - a) * M /\ a * M \in Nat /\ b * M \in Nat
        BY <1>4
      <4> QED
        BY <4>1
    <3>2. m * M <= (n - 1) * M
      BY <1>5, <3>1
    <3>3. (n - 1) * M \in Nat
      BY <1>4, <1>5
    <3> HIDE DEF y
    <3>4. y <= (n - 1) * M
      BY <3>2 DEF y
    <3> QED
      BY <1>4, <1>5, <2>1, <3>3, <3>4
  <2>3. m = n => y >= L /\ x < L
    BY <1>5
  <2> HIDE DEF x, y
  <2>4. Min({y, L}) = IF y <= L THEN y ELSE L
    <3>1. \E v \in {y, L} : \A w \in {y, L} : v <= w
      BY <1>4, <2>1
    <3>2. Min({y, L}) \in {y, L} /\ \A w \in {y, L} : Min({y, L}) <= w
      BY <3>1 DEF Min
    <3> QED
      BY <1>4, <2>1, <3>2
  <2> DEFINE t == to(m)
  <2>5. t = IF m = n THEN L ELSE y
    BY DEF y
  <2> HIDE DEF t
  <2>6. x < t /\ t <= L /\ t - x <= M /\ t \in Nat /\ (m # n => t = x + M) /\ Min({y, L}) = t
    BY <1>4, <2>1, <2>2, <2>3, <2>4, <2>5
  <2> QED
    BY <2>1, <2>6 DEF t, x, y
<1> DEFINE P == Pieces(s)
           x(m) == SubSeq(s, (m - 1) * M + 1, to(m))
<1>7. P = [m \in 1 .. n |-> x(m)]
  <2>1. P = [m \in 1 .. n |-> SubSeq(s, (m - 1) * M + 1, Min({m * M, L}))]
    BY <1>3 DEF Pieces, M, n
  <2> HIDE DEF P
  <2> QED
    BY <1>6, <2>1
<1> HIDE DEF P
<1>8. ASSUME NEW m \in 1 .. n
      PROVE  x(m) \in Seq(C) /\ Fit(C, x(m)) /\ Ink(x(m)) = Span(T, i + (m - 1) * M, i + to(m))
  <2> DEFINE u == (m - 1) * M
             v == to(m)
             w == x(m)
  <2>1. u \in Nat /\ u < v /\ v <= L /\ v - u <= M /\ v \in Nat /\ (m # n => v = u + M)
    BY <1>6
  <2>2. w = SubSeq(s, u + 1, v)
    OBVIOUS
  <2> HIDE DEF u, v, w
  <2>3. w \in Seq(C) /\ Len(w) = v - u /\ InOrder(w) /\ \A j \in 1 .. v - u : w[j] = s[u + j]
    <3>1. u <= v /\ v <= Len(s)
      BY <1>3, <2>1
    <3>2. Stretch(C, s, w, u, v)
      BY <1>3, <2>1, <2>2, <3>1, SubStretch
    <3> QED
      BY <1>3, <3>2 DEF Stretch
  <2>4. w = SubSeq(T, (i + u) + 1, i + v)
    <3>1. SubSeq(T, (i + u) + 1, i + v) = [j \in 1 .. v - u |-> T[(i + u) + j]]
      BY <1>2, <2>1 DEF L
    <3>2. \A j \in 1 .. v - u : w[j] = T[(i + u) + j]
      <4> TAKE j \in 1 .. v - u
      <4>1. u + j \in 1 .. L /\ i + (u + j) = (i + u) + j
        BY <1>4, <2>1
      <4> QED
        BY <1>3, <2>3, <4>1
    <3>3. w = [j \in 1 .. v - u |-> w[j]]
      BY <2>1, <2>3
    <3> QED
      BY <3>1, <3>2, <3>3
  <2>5. Ink(w) = Span(T, i + u, i + v)
    <3>1. i + u \in Nat /\ i + v \in Nat /\ i + u <= i + v /\ i + v <= Len(T)
      BY <1>2, <1>4, <2>1 DEF L
    <3>2. Stretch(C, T, w, i + u, i + v)
      BY <2>4, <3>1, SubStretch
    <3> QED
      BY <3>2 DEF Stretch
  <2>6. Ink(w) # {}
    <3>1. CASE m # n
      <4>1. i + u \in Nat /\ (i + u) + ChunkMax <= Len(T) /\ v = u + ChunkMax
        BY <1>2, <1>4, <2>1, <3>1 DEF L, M
      <4>2. PICK j \in (i + u) + 1 .. (i + u) + ChunkMax : T[j] # Blank
        BY <4>1 DEF Spaced
      <4>3. j \in (i + u) + 1 .. i + v
        <5>1. (i + u) + ChunkMax = i + v
          BY <1>2, <1>4, <2>1, <4>1 DEF M
        <5> QED
          BY <4>2, <5>1
      <4> QED
        BY <2>5, <4>2, <4>3 DEF Span
    <3>2. CASE m = n
      <4>1. i + v = z /\ z \in (i + u) + 1 .. z
        BY <1>2, <1>4, <2>1, <3>2 DEF v, L
      <4> QED
        BY <1>1, <2>5, <4>1 DEF Span
    <3> QED
      BY <3>1, <3>2
  <2>7. Fit(C, w)
    BY <1>4, <2>1, <2>3, <2>6 DEF Fit, M
  <2> QED
    BY <2>3, <2>5, <2>7 DEF w, u, v
<1> HIDE DEF x
<1>9. P \in Seq(Seq(C)) /\ Len(P) = n /\ \A m \in 1 .. n : P[m] = x(m)
  BY <1>5, <1>7, <1>8
<1>10. ASSUME NEW m \in 1 .. n PROVE i + to(m) \in i .. k /\ Span(T, i + (m - 1) * M, i + to(m)) = Span(T, e[m - 1], e[m]) /\ e[m - 1] <= e[m]
  <2> DEFINE u == (m - 1) * M
             v == to(m)
  <2>1. u \in Nat /\ u < v /\ v <= L /\ v \in Nat
    BY <1>6
  <2>2. e[m - 1] = i + u
    <3>1. m - 1 \in 0 .. n /\ m - 1 # n
      BY <1>5
    <3> QED
      BY <3>1
  <2>3. e[m] = IF m = n THEN k ELSE i + v
    <3>1. m \in 0 .. n
      BY <1>5
    <3> QED
      BY <3>1
  <2>4. m = n => i + v = z
    BY <1>2, <1>4 DEF L
  <2> HIDE DEF u, v, e
  <2>5. i + v \in i .. k /\ i + v <= z /\ i + u <= i + v
    BY <1>2, <1>4, <2>1 DEF L
  <2>6. CASE m # n
    <3>1. e[m] = i + v
      BY <2>3, <2>6
    <3> QED
      BY <2>2, <2>5, <3>1 DEF u, v
  <2>7. CASE m = n
    <3>1. e[m] = k /\ i + v = z
      BY <2>3, <2>4, <2>7
    <3>2. Span(T, i + u, k) = Span(T, i + u, z)
      <4>1. i + u \in Nat /\ k \in Nat /\ i + u <= z
        BY <1>2, <2>1, <2>5
      <4> DEFINE a == i + u
      <4> HIDE DEF a
      <4>2. Span(T, a, k) = Span(T, a, z) \cup Span(T, z, k)
        BY <1>2, <4>1 DEF Span, a
      <4> QED
        BY <1>1, <4>2 DEF a
    <3>3. i + u <= k
      BY <1>2, <2>1, <2>5
    <3>4. Span(T, i + u, i + v) = Span(T, e[m - 1], e[m]) /\ e[m - 1] <= e[m]
      BY <2>2, <3>1, <3>2, <3>3
    <3> QED
      BY <2>5, <3>4 DEF u, v
  <2> QED
    BY <2>6, <2>7
<1>11. e \in [0 .. n -> i .. k] /\ e[0] = i /\ e[n] = k
  <2>1. \A m \in 0 .. n : m # n => i + m * M \in i .. k
    <3> SUFFICES ASSUME NEW m \in 0 .. n, m # n PROVE i + m * M \in i .. k
      OBVIOUS
    <3>1. CASE m = 0
      <4>1. m * M = 0
        BY <1>4, <3>1
      <4> QED
        BY <1>2, <4>1
    <3>2. CASE m # 0
      <4>1. m \in 1 .. n /\ to(m) = m * M
        BY <1>5, <3>2
      <4> QED
        BY <1>10, <4>1
    <3> QED
      BY <3>1, <3>2
  <2>2. k \in i .. k
    BY <1>2
  <2>3. i + 0 * M = i /\ 0 # n /\ 0 \in 0 .. n /\ n \in 0 .. n
    BY <1>4, <1>5
  <2> QED
    BY <2>1, <2>2, <2>3
<1> HIDE DEF e, to
<1>12. Divide(C, P, T, i, k, e)
  BY <1>8, <1>9, <1>10, <1>11 DEF Divide
<1>13. Ended(P[Len(P)])
  <2> DEFINE u == (n - 1) * M
             w == x(n)
  <2>1. u \in Nat /\ u < L /\ w = SubSeq(s, u + 1, L)
    <3>1. n \in 1 .. n /\ to(n) = L
      BY <1>5 DEF to
    <3>2. u \in Nat /\ u < L
      BY <1>6, <3>1
    <3>3. w = SubSeq(s, u + 1, L)
      BY <3>1 DEF x
    <3> QED
      BY <3>2, <3>3
  <2> HIDE DEF u, w
  <2>2. Len(w) = L - u /\ w[L - u] = s[L] /\ w # << >>
    <3>1. w \in Seq(C) /\ Len(w) = L - u /\ \A j \in 1 .. L - u : w[j] = s[u + j]
      BY <1>3, <1>4, <2>1
    <3>2. L - u \in 1 .. L - u /\ u + (L - u) = L
      BY <1>4, <2>1
    <3> QED
      BY <3>1, <3>2
  <2>3. s[L] = T[z]
    BY <1>2, <1>3, <1>4 DEF L
  <2>4. P[Len(P)] = w
    BY <1>5, <1>9 DEF w
  <2> QED
    BY <1>1, <2>2, <2>3, <2>4 DEF Ended
<1> QED
  BY <1>12, <1>13 DEF Parted, P

\* Sentences as they are put together.
Acc(C) == [done : Seq(Seq(C)), text : Seq(C)]
NoParts == [done |-> << >>, text |-> << >>]

LEMMA PiecesType ==
  ASSUME NEW C, NEW s \in Seq(C)
  PROVE  Pieces(s) \in Seq(Seq(C))
<1> DEFINE L == Len(s)
           M == ChunkMax
           n == (L + M - 1) \div M
<1>1. L \in Nat /\ M \in Nat /\ M > 0
  BY ChunkerAssumption
<1>2. n \in Nat
  <2> HIDE DEF L, M
  <2> QED
    BY <1>1
<1>3. ASSUME NEW m \in 1 .. n PROVE SubSeq(s, (m - 1) * M + 1, Min({m * M, L})) \in Seq(C)
  <2> DEFINE a == (m - 1) * M
             b == Min({m * M, L})
  <2>1. a \in Nat /\ m * M \in Nat
    <3> HIDE DEF M
    <3> QED
      BY <1>1
  <2>2. b \in Int /\ b <= L
    <3> DEFINE y == m * M
    <3> HIDE DEF y, L
    <3>1. \E v \in {y, L} : \A w \in {y, L} : v <= w
      BY <1>1, <2>1 DEF y
    <3>2. Min({y, L}) \in {y, L} /\ \A w \in {y, L} : Min({y, L}) <= w
      BY <3>1 DEF Min
    <3> QED
      BY <1>1, <2>1, <3>2 DEF y
  <2> HIDE DEF a, b
  <2>3. SubSeq(s, a + 1, b) \in Seq(C)
    BY <2>1, <2>2
  <2> QED
    BY <2>3 DEF a, b
<1>4. Pieces(s) = [m \in 1 .. n |-> SubSeq(s, (m - 1) * M + 1, Min({m * M, L}))]
  BY DEF Pieces
<1> HIDE DEF n, L, M
<1> QED
  BY <1>2, <1>3, <1>4

LEMMA AddType ==
  ASSUME NEW C, Blank \in C, NEW acc \in Acc(C), NEW s \in Seq(C)
  PROVE  AddSentence(acc, s) \in Acc(C)
<1>1. acc.done \in Seq(Seq(C)) /\ acc.text \in Seq(C)
  BY DEF Acc
<1>2. NonEmpty(acc.text) \in Seq(Seq(C)) /\ Pieces(s) \in Seq(Seq(C)) /\ << >> \in Seq(C)
  BY <1>1, PiecesType DEF NonEmpty
<1>3. CASE Len(s) > ChunkMax
  <2>1. AddSentence(acc, s) = [done |-> acc.done \o NonEmpty(acc.text) \o Pieces(s), text |-> << >>]
    BY <1>3 DEF AddSentence
  <2>2. acc.done \o NonEmpty(acc.text) \o Pieces(s) \in Seq(Seq(C))
    BY <1>1, <1>2
  <2> QED
    BY <1>2, <2>1, <2>2 DEF Acc
<1>4. CASE ~(Len(s) > ChunkMax) /\ Len(acc.text) + Len(s) + 1 <= ChunkMax
  <2> DEFINE y == acc.text \o <<Blank>> \o s
             x == Strip(y)
  <2>1. AddSentence(acc, s) = [acc EXCEPT !.text = x]
    BY <1>4 DEF AddSentence
  <2>2. x \in Seq(C)
    <3>1. y \in Seq(C)
      BY <1>1
    <3> HIDE DEF y
    <3> QED
      BY <3>1, StripText
  <2> HIDE DEF x
  <2> QED
    BY <2>1, <2>2 DEF Acc
<1>5. CASE ~(Len(s) > ChunkMax) /\ ~(Len(acc.text) + Len(s) + 1 <= ChunkMax)
  <2>1. AddSentence(acc, s) = [done |-> acc.done \o NonEmpty(acc.text), text |-> s]
    BY <1>5 DEF AddSentence
  <2>2. acc.done \o NonEmpty(acc.text) \in Seq(Seq(C))
    BY <1>1, <1>2
  <2> QED
    BY <2>1, <2>2 DEF Acc
<1> QED
  BY <1>3, <1>4, <1>5

\* The parts and the text that is not yet a part hold T up to k.
Loose(C, x, T, i, k) ==
  /\ x \in Seq(C) /\ InOrder(x) /\ Ink(x) = Span(T, i, k) /\ Len(x) <= ChunkMax
  /\ IF x = << >> THEN i = k ELSE Ink(x) # {} /\ Ended(x)

Filled(C, acc, T, k) ==
  \E i \in 0 .. k : Parted(C, acc.done, T, 0, i) /\ Loose(C, acc.text, T, i, k)

LEMMA CloseText ==
  ASSUME NEW C, NEW T, NEW k \in Nat, NEW acc, Filled(C, acc, T, k)
  PROVE  Parted(C, acc.done \o NonEmpty(acc.text), T, 0, k)
<1>1. PICK i \in 0 .. k : Parted(C, acc.done, T, 0, i) /\ Loose(C, acc.text, T, i, k)
  BY DEF Filled
<1>2. Parted(C, NonEmpty(acc.text), T, i, k)
  <2>1. CASE acc.text = << >>
    <3>1. i = k /\ NonEmpty(acc.text) = << >>
      BY <1>1, <2>1 DEF Loose, NonEmpty
    <3> QED
      BY <3>1, PartedNone
  <2>2. CASE acc.text # << >>
    <3>1. Fit(C, acc.text) /\ Ended(acc.text) /\ Ink(acc.text) = Span(T, i, k) /\ NonEmpty(acc.text) = <<acc.text>>
      BY <1>1, <2>2 DEF Loose, Fit, NonEmpty
    <3>2. i \in Nat /\ i <= k
      OBVIOUS
    <3>3. Parted(C, <<acc.text>>, T, i, k)
      BY <3>1, <3>2, PartedOne
    <3> QED
      BY <3>1, <3>3
  <2> QED
    BY <2>1, <2>2
<1>3. i \in Nat /\ 0 \in Nat /\ 0 <= i /\ i <= k
  OBVIOUS
<1> QED
  BY <1>1, <1>2, <1>3, PartedJoin

LEMMA AddFills ==
  ASSUME NEW C, Blank \in C, NEW T \in Seq(C), InOrder(T), Spaced(T),
         NEW i \in Nat, NEW k \in Nat, k <= Len(T),
         NEW acc \in Acc(C), Filled(C, acc, T, i), NEW s, SentenceAt(T, s, i, k)
  PROVE  Filled(C, AddSentence(acc, s), T, k)
<1> DEFINE new == AddSentence(acc, s)
<1>1. /\ s \in Seq(C) /\ InOrder(s) /\ Ink(s) = Span(T, i, k) /\ Ink(s) # {} /\ s # << >>
      /\ i < k /\ Ended(s)
  BY SentenceText DEF Ended
<1>2. Parted(C, acc.done \o NonEmpty(acc.text), T, 0, i)
  BY CloseText
<1>3. CASE Len(s) > ChunkMax
  <2>1. new.done = (acc.done \o NonEmpty(acc.text)) \o Pieces(s) /\ new.text = << >>
    BY <1>3 DEF AddSentence
  <2>2. Parted(C, Pieces(s), T, i, k)
    BY PiecesPart
  <2>3. 0 \in Nat /\ 0 <= i /\ i <= k
    BY <1>1
  <2> HIDE DEF new
  <2>4. Parted(C, new.done, T, 0, k)
    BY <1>2, <2>1, <2>2, <2>3, PartedJoin
  <2>5. Loose(C, new.text, T, k, k)
    <3>1. << >> \in Seq(C) /\ Len(<< >>) = 0 /\ DOMAIN << >> = {}
      OBVIOUS
    <3>2. Ink(<< >>) = {} /\ Span(T, k, k) = {} /\ InOrder(<< >>)
      BY <3>1 DEF Ink, Range, Span, InOrder
    <3> QED
      BY <2>1, <3>1, <3>2, ChunkerAssumption DEF Loose
  <2>6. k \in 0 .. k
    OBVIOUS
  <2> QED
    BY <2>4, <2>5, <2>6 DEF Filled, new
<1>4. CASE ~(Len(s) > ChunkMax) /\ Len(acc.text) + Len(s) + 1 <= ChunkMax
  <2> DEFINE y == acc.text \o <<Blank>> \o s
             x == Strip(y)
  <2>1. new.done = acc.done /\ new.text = x
    BY <1>4 DEF AddSentence, Acc
  <2>2. PICK h \in 0 .. i : Parted(C, acc.done, T, 0, h) /\ Loose(C, acc.text, T, h, i)
    BY DEF Filled
  <2>3. acc.text \in Seq(C) /\ InOrder(acc.text) /\ Ink(acc.text) = Span(T, h, i)
    BY <2>2 DEF Loose
  <2>4. h \in Nat /\ h <= i /\ i <= k
    BY <1>1
  <2>5. \A c \in Ink(acc.text), d \in Ink(s) : Precedes(c, d)
    BY <1>1, <2>3, <2>4, SpanInOrder
  <2>6. y \in Seq(C) /\ Len(y) = Len(acc.text) + Len(<<Blank>>) + Len(s) /\ Ink(y) = Ink(acc.text) \cup Ink(s) /\ InOrder(y)
    <3>1. <<Blank>> \in {<<Blank>>, Gap}
      OBVIOUS
    <3>2. Spliced(C, y, acc.text, Len(<<Blank>>), s)
      BY <1>1, <2>3, <3>1, SpacedText
    <3> HIDE DEF y
    <3> QED
      BY <1>1, <2>3, <2>5, <3>2 DEF Spliced
  <2>7. Len(y) <= ChunkMax
    <3>1. Len(<<Blank>>) = 1 /\ Len(s) \in Nat /\ Len(acc.text) \in Nat
      BY <1>1, <2>3
    <3> HIDE DEF y
    <3> QED
      BY <1>4, <2>6, <3>1
  <2> HIDE DEF y
  <2>8. x \in Seq(C) /\ Ink(x) = Ink(y) /\ Len(x) <= Len(y) /\ InOrder(x) /\ Trim(x)
    BY <2>6, StripText
  <2>9. Ink(x) = Span(T, h, k) /\ Ink(x) # {}
    <3>1. Span(T, h, k) = Span(T, h, i) \cup Span(T, i, k)
      BY <2>4 DEF Span
    <3> HIDE DEF x
    <3> QED
      BY <1>1, <2>3, <2>6, <2>8, <3>1
  <2> HIDE DEF x
  <2>10. x # << >>
    <3>1. DOMAIN << >> = {}
      OBVIOUS
    <3>2. Ink(<< >>) = {}
      BY <3>1 DEF Ink, Range
    <3> QED
      BY <2>9, <3>2
  <2>11. Len(x) <= ChunkMax
    BY <2>6, <2>7, <2>8, ChunkerAssumption
  <2>12. Loose(C, x, T, h, k)
    BY <2>8, <2>9, <2>10, <2>11 DEF Loose, Ended, Trim
  <2>13. h \in 0 .. k
    BY <2>4
  <2> HIDE DEF new
  <2> QED
    BY <2>1, <2>2, <2>12, <2>13 DEF Filled, new
<1>5. CASE ~(Len(s) > ChunkMax) /\ ~(Len(acc.text) + Len(s) + 1 <= ChunkMax)
  <2>1. new.done = acc.done \o NonEmpty(acc.text) /\ new.text = s
    BY <1>5 DEF AddSentence
  <2>2. Len(s) <= ChunkMax
    BY <1>1, <1>5, ChunkerAssumption
  <2>3. Loose(C, s, T, i, k)
    BY <1>1, <2>2 DEF Loose
  <2>4. i \in 0 .. k
    BY <1>1
  <2> HIDE DEF new
  <2> QED
    BY <1>2, <2>1, <2>3, <2>4 DEF Filled, new
<1> QED
  BY <1>3, <1>4, <1>5

\* Where the sentence ends that goes on at i.
Until(T, i) ==
  LET later == {j \in Starts(T) : j > i} IN IF later = {} THEN Len(T) ELSE Min(later) - 1

LEMMA SentencesLine ==
  ASSUME NEW C, NEW T \in Seq(C), T # << >>, Trim(T)
  PROVE  /\ Starts(T) \subseteq {i \in 1 .. Len(T) : T[i] # Blank}
         /\ Until(T, 0) = 0 /\ Until(T, Len(T)) = Len(T)
         /\ \A i \in 1 .. Len(T) : /\ Until(T, i) \in i .. Len(T)
                                   /\ i \in Starts(T) => Until(T, i - 1) = i - 1
                                   /\ i \notin Starts(T) => Until(T, i - 1) = Until(T, i)
<1> DEFINE S == Starts(T)
           later(i) == {j \in S : j > i}
           n == Len(T)
<1>1. n \in Nat /\ n >= 1 /\ DOMAIN T = 1 .. n
  OBVIOUS
<1>2. S \subseteq {i \in 1 .. n : T[i] # Blank}
  BY <1>1 DEF Starts
<1>3. 1 \in S
  <2>1. 1 \in DOMAIN T /\ T[1] # Blank /\ ~(1 > 1)
    BY <1>1 DEF Trim
  <2> QED
    BY <2>1 DEF Starts
<1>4. \A i : Until(T, i) = IF later(i) = {} THEN n ELSE Min(later(i)) - 1
  BY DEF Until
<1> HIDE DEF S
<1>5. ASSUME NEW i \in 0 .. n, later(i) # {}
      PROVE  Min(later(i)) \in S /\ Min(later(i)) > i /\ Min(later(i)) <= n /\ \A j \in S : j > i => Min(later(i)) <= j
  <2>1. later(i) \in SUBSET (1 .. n)
    BY <1>2
  <2>2. Min(later(i)) \in later(i) /\ \A y \in later(i) : Min(later(i)) <= y
    <3> HIDE DEF later, n
    <3> QED
      BY <1>1, <1>5, <2>1, Extremes
  <2> DEFINE m == Min(later(i))
  <2>3. m \in {j \in S : j > i} /\ \A y \in {j \in S : j > i} : m <= y
    BY <2>2
  <2> HIDE DEF m
  <2>4. m \in S /\ m > i /\ m <= n /\ \A j \in S : j > i => m <= j
    BY <1>2, <2>3
  <2> QED
    BY <2>4 DEF m
<1>6. \A i \in 0 .. n : later(i) = {} => \A j \in S : j <= i
  BY <1>2
<1>7. \A i \in 0 .. n : \A j \in S : j > i => later(i) # {}
  OBVIOUS
<1> HIDE DEF later
<1> DEFINE least(i) == Min(later(i))
<1>8. \A i \in 0 .. n : later(i) # {} => least(i) \in S /\ least(i) > i /\ least(i) <= n /\ least(i) \in 1 .. n /\ \A j \in S : j > i => least(i) <= j
  BY <1>1, <1>2, <1>5
<1>9. \A i : Until(T, i) = IF later(i) = {} THEN n ELSE least(i) - 1
  BY <1>4
<1> HIDE DEF least, n
<1>10. Until(T, 0) = 0
  <2>1. 0 \in 0 .. n /\ later(0) # {}
    BY <1>1, <1>3, <1>7
  <2>2. least(0) = 1
    BY <1>3, <1>8, <2>1
  <2> QED
    BY <1>9, <2>1, <2>2
<1>11. Until(T, n) = n
  <2>1. n \in 0 .. n /\ later(n) = {}
    BY <1>1, <1>8
  <2> QED
    BY <1>9, <2>1
<1>12. ASSUME NEW i \in 1 .. n
       PROVE  /\ Until(T, i) \in i .. n
              /\ i \in S => Until(T, i - 1) = i - 1
              /\ i \notin S => Until(T, i - 1) = Until(T, i)
  <2>1. i \in 0 .. n /\ i - 1 \in 0 .. n
    BY <1>1
  <2>2. Until(T, i) \in i .. n
    BY <1>1, <1>8, <1>9, <2>1
  <2>3. ASSUME i \in S PROVE Until(T, i - 1) = i - 1
    <3>1. later(i - 1) # {}
      BY <1>7, <2>1, <2>3
    <3>2. least(i - 1) = i
      BY <1>8, <2>1, <2>3, <3>1
    <3> QED
      BY <1>9, <3>1, <3>2
  <2>4. ASSUME i \notin S PROVE later(i - 1) = later(i)
    <3>1. \A j \in S : j \in 1 .. n /\ j # i
      BY <1>2, <2>4 DEF n
    <3> QED
      BY <3>1 DEF later
  <2>5. i \notin S => Until(T, i - 1) = Until(T, i)
    BY <1>9, <2>4 DEF least
  <2> QED
    BY <2>2, <2>3, <2>5
<1> QED
  BY <1>2, <1>10, <1>11, <1>12 DEF S, n

LEMMA SentenceIs ==
  ASSUME NEW C, NEW T \in Seq(C), T # << >>, Trim(T), NEW i \in 1 .. Len(T), i \in Starts(T)
  PROVE  SentenceAt(T, Sentence(T, i), i - 1, Until(T, i))
<1> DEFINE u == Until(T, i)
           y == SubSeq(T, i, u)
           s == Sentence(T, i)
           a == i - 1
<1>1. u \in i .. Len(T) /\ T[i] # Blank
  BY SentencesLine
<1>2. s = Strip(y)
  BY DEF Sentence, Until
<1> HIDE DEF u, s
<1>3. a \in Nat /\ a + 1 = i /\ u \in Nat /\ a <= u /\ u <= Len(T) /\ y = SubSeq(T, a + 1, u)
  BY <1>1
<1> HIDE DEF y, a
<1>4. y \in Seq(C) /\ Len(y) = u - a /\ \A j \in 1 .. u - a : y[j] = T[a + j]
  <2>1. Stretch(C, T, y, a, u)
    BY <1>3, SubStretch
  <2> QED
    BY <2>1 DEF Stretch
<1>5. y[1] # Blank /\ 1 \in 1 .. Len(y)
  BY <1>1, <1>3, <1>4
<1>6. Ink(y) # {}
  <2>1. DOMAIN y = 1 .. Len(y)
    BY <1>4
  <2>2. y[1] \in Ink(y)
    BY <1>5, <2>1 DEF Ink, Range
  <2> QED
    BY <2>2
<1>7. PICK h \in Nat, k \in Nat :
        /\ h < k /\ k <= Len(y) /\ s = SubSeq(y, h + 1, k)
        /\ y[h + 1] # Blank /\ y[k] # Blank
        /\ \A j \in 1 .. h : y[j] = Blank
        /\ \A j \in k + 1 .. Len(y) : y[j] = Blank
  BY <1>2, <1>4, <1>6, StripIs
<1>8. h = 0
  <2> SUFFICES ASSUME h # 0 PROVE FALSE
    OBVIOUS
  <2>1. 1 \in 1 .. h
    BY <1>7
  <2> QED
    BY <1>5, <1>7, <2>1
<1> DEFINE z == a + k
<1>9. z \in a + 1 .. u /\ z \in Nat
  BY <1>3, <1>4, <1>7
<1>10. T[a + 1] # Blank /\ T[z] # Blank
  <2>1. k \in 1 .. u - a
    BY <1>4, <1>7
  <2> QED
    BY <1>1, <1>3, <1>4, <1>7, <2>1
<1>11. s = SubSeq(T, a + 1, z)
  <2>1. s \in Seq(C) /\ Len(s) = k /\ \A j \in 1 .. k : s[j] = y[j]
    BY <1>4, <1>7, <1>8
  <2>2. SubSeq(T, a + 1, z) = [j \in 1 .. k |-> T[a + j]]
    BY <1>3, <1>7, <1>9
  <2>3. \A j \in 1 .. k : s[j] = T[a + j]
    BY <1>4, <1>7, <2>1
  <2>4. s = [j \in 1 .. k |-> s[j]]
    BY <2>1
  <2> QED
    BY <2>2, <2>3, <2>4
<1>12. Span(T, z, u) = {}
  <2> SUFFICES ASSUME NEW l \in z + 1 .. u PROVE T[l] = Blank
    BY DEF Span
  <2>1. l - a \in k + 1 .. Len(y) /\ l - a \in 1 .. u - a /\ a + (l - a) = l
    BY <1>3, <1>4, <1>7, <1>9
  <2> QED
    BY <1>4, <1>7, <2>1
<1> HIDE DEF z
<1>13. SentenceAt(T, s, a, u)
  BY <1>9, <1>10, <1>11, <1>12 DEF SentenceAt
<1> QED
  BY <1>13 DEF s, a, u

\* The fold over a text, place by place.
AddAt(T, acc, i) == IF i \in Starts(T) THEN AddSentence(acc, Sentence(T, i)) ELSE acc

LEMMA AddAtType ==
  ASSUME NEW C, Blank \in C, NEW T \in Seq(C), T # << >>, Trim(T), NEW i \in 1 .. Len(T), NEW acc \in Acc(C)
  PROVE  AddAt(T, acc, i) \in Acc(C)
<1>1. CASE i \in Starts(T)
  <2>1. Sentence(T, i) \in Seq(C)
    <3>1. Sentence(T, i) = Strip(SubSeq(T, i, Until(T, i)))
      BY DEF Sentence, Until
    <3>2. Until(T, i) \in i .. Len(T)
      BY SentencesLine
    <3>3. SubSeq(T, i, Until(T, i)) \in Seq(C)
      BY <3>2
    <3> QED
      BY <3>1, <3>3, StripText
  <2> QED
    BY <1>1, <2>1, AddType DEF AddAt
<1>2. CASE i \notin Starts(T)
  BY <1>2 DEF AddAt
<1> QED
  BY <1>1, <1>2

LEMMA SplitSteps ==
  ASSUME NEW C, Blank \in C, NEW T \in Seq(C), T # << >>, Trim(T)
  PROVE  \E g : /\ g \in [0 .. Len(T) -> Acc(C)] /\ g[0] = NoParts
                /\ SplitLongText(T) = g[Len(T)].done \o NonEmpty(g[Len(T)].text)
                /\ \A i \in 1 .. Len(T) : g[i] = AddAt(T, g[i - 1], i)
<1> DEFINE n == Len(T)
           V == Acc(C)
           Step == [p \in (1 .. n) \X V |-> AddAt(T, p[2], p[1])]
           Fold(f) == f = [t \in SUBSET (1 .. n) |->
                       IF t = {} THEN NoParts ELSE LET x == Max(t) IN AddAt(T, f[t \ {x}], [i \in DOMAIN T |-> i][x])]
<1>1. n \in Nat /\ DOMAIN T = 1 .. n
  OBVIOUS
<1>2. Stepping(n, V, NoParts, Step)
  <2>1. NoParts \in V
    BY DEF NoParts, Acc
  <2>2. \A x \in 1 .. n, s \in V : AddAt(T, s, x) \in V
    BY <1>1, AddAtType
  <2> HIDE DEF V, n
  <2> QED
    BY <1>1, <2>1, <2>2 DEF Stepping
<1>3. \A x \in 1 .. n, s \in V : Step[<<x, s>>] = AddAt(T, s, x)
  OBVIOUS
<1> HIDE DEF V
<1>4. \E f : Fold(f)
  <2>1. PICK f : ListFold(f, n, V, NoParts, Step)
    <3> HIDE DEF n, Step
    <3> QED
      BY <1>2, ListFoldExists
  <2>2. \A t \in SUBSET (1 .. n) : t # {} => f[t] = AddAt(T, f[t \ {Max(t)}], Max(t)) /\ Max(t) \in 1 .. n
    <3> HIDE DEF Step
    <3> QED
      BY <1>3, <2>1 DEF ListFold
  <2>3. \A t \in SUBSET (1 .. n) : t # {} => f[t] = AddAt(T, f[t \ {Max(t)}], [i \in DOMAIN T |-> i][Max(t)])
    BY <1>1, <2>2
  <2>4. Fold(f)
    BY <2>1, <2>3 DEF ListFold
  <2> QED
    BY <2>4
<1>5. PICK f : Fold(f) /\ SplitLongText(T) = f[1 .. n].done \o NonEmpty(f[1 .. n].text)
  BY <1>1, <1>4 DEF SplitLongText, NoParts, AddAt, FoldLeft, MapThenFoldSet
<1>6. f[{}] = NoParts
  BY <1>5
<1>7. ASSUME NEW t \in SUBSET (1 .. n), t # {}, f[t \ {Max(t)}] \in V
      PROVE  f[t] = Step[<<Max(t), f[t \ {Max(t)}]>>]
  <2>1. Max(t) \in 1 .. n
    BY <1>1, <1>7, Extremes
  <2>2. f[t] = AddAt(T, f[t \ {Max(t)}], [i \in DOMAIN T |-> i][Max(t)])
    BY <1>5, <1>7
  <2>3. f[t] = AddAt(T, f[t \ {Max(t)}], Max(t))
    BY <1>1, <2>1, <2>2
  <2> HIDE DEF Step
  <2> QED
    BY <1>3, <1>7, <2>1, <2>3
<1> DEFINE g == [i \in 0 .. n |-> f[1 .. i]]
<1>8. Steps(g, n, V, NoParts, Step)
  <2> HIDE DEF n, Step
  <2>1. Folded(f, n, V, NoParts, Step)
    BY <1>6, <1>7 DEF Folded
  <2> QED
    BY <1>2, <2>1, ListFoldSteps
<1>9. SplitLongText(T) = g[n].done \o NonEmpty(g[n].text)
  <2>1. n \in 0 .. n
    BY <1>1
  <2> HIDE DEF n, Fold
  <2> QED
    BY <1>5, <2>1
<1> HIDE DEF g
<1>10. \A i \in 1 .. n : g[i] = AddAt(T, g[i - 1], i)
  <2> TAKE i \in 1 .. n
  <2>1. i - 1 \in 0 .. n
    BY <1>1
  <2>2. g[i - 1] \in V /\ g[i] = Step[<<i, g[i - 1]>>]
    BY <1>8, <2>1 DEF Steps
  <2> QED
    BY <1>3, <2>2
<1> QED
  BY <1>8, <1>9, <1>10 DEF Steps, V

\* The sentences of a text divide it.
LEMMA SplitParts ==
  ASSUME NEW C, Blank \in C, NEW T \in Seq(C), T # << >>, Trim(T), InOrder(T), Spaced(T)
  PROVE  Parted(C, SplitLongText(T), T, 0, Len(T))
<1> DEFINE n == Len(T)
<1>1. PICK g : /\ g \in [0 .. n -> Acc(C)] /\ g[0] = NoParts
               /\ SplitLongText(T) = g[n].done \o NonEmpty(g[n].text)
               /\ \A i \in 1 .. n : g[i] = AddAt(T, g[i - 1], i)
  BY SplitSteps
<1>2. n \in Nat /\ n >= 1
  OBVIOUS
<1> HIDE DEF n
<1>3. /\ Until(T, 0) = 0 /\ Until(T, n) = n
      /\ \A i \in 1 .. n : /\ Until(T, i) \in i .. n
                           /\ i \in Starts(T) => Until(T, i - 1) = i - 1
                           /\ i \notin Starts(T) => Until(T, i - 1) = Until(T, i)
  BY SentencesLine DEF n
<1> DEFINE I == {i \in 0 .. n : Filled(C, g[i], T, Until(T, i))}
<1>4. 0 \in I
  <2>1. Parted(C, << >>, T, 0, 0)
    BY PartedNone
  <2>2. Loose(C, << >>, T, 0, 0)
    <3>1. << >> \in Seq(C) /\ Len(<< >>) = 0 /\ DOMAIN << >> = {}
      OBVIOUS
    <3>2. Ink(<< >>) = {} /\ Span(T, 0, 0) = {} /\ InOrder(<< >>)
      BY <3>1 DEF Ink, Range, Span, InOrder
    <3>3. Len(<< >>) <= ChunkMax
      BY <3>1, ChunkerAssumption
    <3> QED
      BY <3>1, <3>2, <3>3 DEF Loose
  <2>3. g[0].done = << >> /\ g[0].text = << >> /\ 0 \in 0 .. 0 /\ 0 \in 0 .. n
    BY <1>1, <1>2 DEF NoParts
  <2>4. Filled(C, g[0], T, 0)
    BY <2>1, <2>2, <2>3 DEF Filled
  <2> QED
    BY <1>3, <2>3, <2>4
<1>5. ASSUME NEW i \in 0 .. n - 1, i \in I PROVE i + 1 \in I
  <2> DEFINE k == i + 1
  <2>1. k \in 1 .. n /\ k - 1 = i /\ k \in 0 .. n /\ i \in 0 .. n
    BY <1>2
  <2> HIDE DEF k
  <2>2. g[k] = AddAt(T, g[i], k) /\ g[i] \in Acc(C)
    BY <1>1, <2>1
  <2>3. Filled(C, g[k], T, Until(T, k))
    <3>1. CASE k \in Starts(T)
      <4>1. SentenceAt(T, Sentence(T, k), i, Until(T, k))
        BY <2>1, <3>1, SentenceIs DEF n
      <4>2. Filled(C, g[i], T, i)
        BY <1>3, <1>5, <2>1, <3>1
      <4>3. i \in Nat /\ Until(T, k) \in Nat /\ Until(T, k) <= Len(T)
        BY <1>2, <1>3, <2>1 DEF n
      <4>4. Filled(C, AddSentence(g[i], Sentence(T, k)), T, Until(T, k))
        BY <2>2, <4>1, <4>2, <4>3, AddFills
      <4> QED
        BY <2>2, <3>1, <4>4 DEF AddAt
    <3>2. CASE k \notin Starts(T)
      BY <1>3, <1>5, <2>1, <2>2, <3>2 DEF AddAt
    <3> QED
      BY <3>1, <3>2
  <2> QED
    BY <2>1, <2>3 DEF k
<1>6. 0 .. n \subseteq I
  <2> HIDE DEF I
  <2> QED
    BY <1>2, <1>4, <1>5, BoundedInduction
<1>7. Filled(C, g[n], T, n)
  BY <1>2, <1>3, <1>6
<1>8. Parted(C, g[n].done \o NonEmpty(g[n].text), T, 0, n)
  BY <1>2, <1>7, CloseText
<1> QED
  BY <1>1, <1>8 DEF n

-----------------------------------------------------------------------------
(* The document as a line of characters *)

Lined(D) ==
  /\ \A c \in D : c # Blank /\ c[1] \in Nat /\ c[2] \in Nat
  /\ \A c, d \in D : c = d \/ Precedes(c, d) \/ Precedes(d, c)

\* What D holds up to some place.
Down(A, D) == A \subseteq D /\ \A c \in A, d \in D \ A : Precedes(c, d)

LEMMA OneWay ==
  ASSUME NEW D, Lined(D)
  PROVE  \A c, d \in D : Precedes(c, d) => ~Precedes(d, c) /\ c # d
BY DEF Lined, Precedes

LEMMA DownChain ==
  ASSUME NEW D, Lined(D), NEW A, Down(A, D), NEW B, Down(B, D)
  PROVE  A \subseteq B \/ B \subseteq A
<1> SUFFICES ASSUME NEW a \in A \ B, NEW b \in B \ A PROVE FALSE
  OBVIOUS
<1>1. a \in D /\ b \in D /\ Precedes(a, b) /\ Precedes(b, a)
  BY DEF Down
<1> QED
  BY <1>1, OneWay

LEMMA DownUnion ==
  ASSUME NEW D, NEW A, Down(A, D), NEW B, Down(B, D)
  PROVE  Down(A \cup B, D)
BY DEF Down

\* The page of the first character in U.
FirstPage(U, page) == \E d \in U : page = d[1] /\ \A c \in U : c = d \/ Precedes(d, c)

LEMMA FirstOf ==
  ASSUME NEW D, Lined(D), NEW U \in SUBSET D, U # {}
  PROVE  \E d \in U : \A c \in U : c = d \/ Precedes(d, c)
<1> DEFINE P == {c[1] : c \in U}
<1>1. P \subseteq Nat /\ P # {}
  BY DEF Lined
<1>2. PICK p \in P : \A y \in P : p <= y
  <2> HIDE DEF P
  <2> QED
    BY <1>1, SmallestOf
<1> DEFINE V == {c \in U : c[1] = p}
           Q == {c[2] : c \in V}
<1>3. V # {}
  OBVIOUS
<1>4. Q \subseteq Nat /\ Q # {}
  BY <1>3 DEF Lined
<1>5. PICK q \in Q : \A y \in Q : q <= y
  <2> HIDE DEF Q
  <2> QED
    BY <1>4, SmallestOf
<1>6. PICK d \in V : d[2] = q
  OBVIOUS
<1>7. d \in U /\ d[1] = p
  OBVIOUS
<1>8. ASSUME NEW c \in U, c # d PROVE Precedes(d, c)
  <2>1. c \in D /\ d \in D /\ c[1] \in Nat /\ c[2] \in Nat /\ d[1] \in Nat /\ d[2] \in Nat
    BY <1>7 DEF Lined
  <2>2. p <= c[1] /\ (c[1] = p => q <= c[2])
    <3>1. c[1] \in P
      OBVIOUS
    <3>2. c[1] = p => c[2] \in Q
      OBVIOUS
    <3> QED
      BY <1>2, <1>5, <3>1, <3>2
  <2>3. ~Precedes(c, d)
    BY <1>6, <1>7, <2>1, <2>2 DEF Precedes
  <2> QED
    BY <1>8, <2>1, <2>3 DEF Lined
<1> QED
  BY <1>7, <1>8

\* What follows H begins on page p if the part of it in A is on that page.
LEMMA PageOfRest ==
  ASSUME NEW D, Lined(D), NEW A, Down(A, D), NEW H, ~(A \subseteq H),
         NEW p, \A c \in A \ H : c[1] = p
  PROVE  FirstPage(D \ H, p)
<1>1. PICK c \in A \ H : TRUE
  OBVIOUS
<1>2. c \in D \ H
  BY DEF Down
<1>3. PICK d \in D \ H : \A e \in D \ H : e = d \/ Precedes(d, e)
  <2>1. D \ H \in SUBSET D /\ D \ H # {}
    BY <1>2
  <2> QED
    BY <2>1, FirstOf
<1>4. d \in A
  <2> SUFFICES ASSUME d \notin A PROVE FALSE
    OBVIOUS
  <2>1. Precedes(c, d) /\ c # d
    BY <1>2 DEF Down
  <2>2. Precedes(d, c)
    BY <1>2, <1>3, <2>1
  <2> QED
    BY <1>2, <2>1, <2>2, OneWay
<1>5. d[1] = p
  BY <1>4
<1> QED
  BY <1>3, <1>5 DEF FirstPage

\* A text that holds A without B, up to one of its places.
Upto(B, T, k) == B \cup Span(T, 0, k)

Holds(C, T, A, B, D) ==
  T \in Seq(C) /\ InOrder(T) /\ Lined(D) /\ Down(A, D) /\ Down(B, D) /\ B \subseteq A /\ Ink(T) = A \ B

LEMMA UptoDown ==
  ASSUME NEW C, NEW T, NEW A, NEW B, NEW D, Holds(C, T, A, B, D), NEW k \in Nat, k <= Len(T)
  PROVE  Down(Upto(B, T, k), D) /\ Upto(B, T, k) \subseteq A
<1> USE DEF Holds
<1>1. Ink(T) = Span(T, 0, Len(T)) /\ Len(T) \in Nat
  BY InkIsSpan
<1>2. Span(T, 0, Len(T)) = Span(T, 0, k) \cup Span(T, k, Len(T))
  <2> DEFINE L == Len(T)
  <2>1. 0 \in Nat /\ 0 <= k /\ L \in Nat /\ k <= L
    BY <1>1
  <2> HIDE DEF L
  <2>2. Span(T, 0, L) = Span(T, 0, k) \cup Span(T, k, L)
    BY <2>1 DEF Span
  <2> QED
    BY <2>2 DEF L
<1>3. \A c \in Span(T, 0, k), d \in Span(T, k, Len(T)) : Precedes(c, d)
  <2>1. 0 \in Nat /\ 0 <= k /\ Len(T) <= Len(T)
    BY <1>1
  <2> QED
    BY <1>1, <2>1, SpanInOrder
<1> DEFINE S == Span(T, 0, k)
           R == Span(T, k, Len(T))
<1>4. A \ B = S \cup R /\ \A c \in S, d \in R : Precedes(c, d)
  BY <1>1, <1>2, <1>3
<1> HIDE DEF S, R
<1>5. Down(B \cup S, D) /\ B \cup S \subseteq A
  BY <1>4 DEF Down
<1> QED
  BY <1>5 DEF Upto, S

LEMMA UptoNext ==
  ASSUME NEW C, NEW T, NEW A, NEW B, NEW D, Holds(C, T, A, B, D),
         NEW i \in Nat, NEW k \in Nat, i <= k, k <= Len(T)
  PROVE  /\ Upto(B, T, k) \ Upto(B, T, i) = Span(T, i, k) /\ Upto(B, T, i) \subseteq Upto(B, T, k)
         /\ Upto(B, T, 0) = B /\ Upto(B, T, Len(T)) = A
<1> USE DEF Holds
<1>1. Ink(T) = Span(T, 0, Len(T)) /\ Len(T) \in Nat
  BY InkIsSpan
<1>2. Span(T, 0, k) = Span(T, 0, i) \cup Span(T, i, k) /\ Span(T, 0, 0) = {}
  BY SpansJoin
<1>3. Span(T, 0, Len(T)) = Span(T, 0, k) \cup Span(T, k, Len(T))
  <2> DEFINE L == Len(T)
  <2>1. 0 \in Nat /\ 0 <= k /\ L \in Nat /\ k <= L
    BY <1>1
  <2> HIDE DEF L
  <2>2. Span(T, 0, L) = Span(T, 0, k) \cup Span(T, k, L)
    BY <2>1 DEF Span
  <2> QED
    BY <2>2 DEF L
<1>4. \A c \in Span(T, 0, i), d \in Span(T, i, k) : Precedes(c, d)
  BY SpanInOrder
<1> DEFINE S == Span(T, 0, i)
           R == Span(T, i, k)
           Q == Span(T, 0, k)
<1>5. Q \subseteq A \ B /\ Q = S \cup R /\ \A c \in S, d \in R : Precedes(c, d)
  BY <1>1, <1>2, <1>3, <1>4
<1> HIDE DEF S, R, Q
<1>6. S \cap R = {}
  <2> SUFFICES ASSUME NEW c \in S, c \in R PROVE FALSE
    OBVIOUS
  <2>1. Precedes(c, c) /\ c \in D
    BY <1>5 DEF Down
  <2> QED
    BY <2>1, OneWay
<1>7. (B \cup Q) \ (B \cup S) = R /\ B \cup S \subseteq B \cup Q
  BY <1>5, <1>6
<1>8. B \cup Ink(T) = A
  OBVIOUS
<1> QED
  BY <1>1, <1>2, <1>7, <1>8 DEF Upto, S, R, Q

-----------------------------------------------------------------------------
(* Chunks as they are sent *)

Chunk(C)  == [text : Seq(C), page : Nat]
Drafts(C) == [chunks : Seq(Chunk(C)), text : Seq(C), page : Nat, tail : Seq(C)]

All(chunks) == Carried(chunks, Len(chunks))

Within(S) == IsFiniteSet(S) /\ Cardinality(S) <= Overlap

Sent(C, D, acc) ==
  /\ acc \in Drafts(C) /\ Lined(D) /\ Down(All(acc.chunks), D)
  /\ \A k \in 1 .. Len(acc.chunks) : ChunkSound(acc.chunks[k], Carried(acc.chunks, k - 1), D)

\* x, which holds A without B, may follow chunks that hold H.
Continues(C, D, x, A, B, H, page) ==
  /\ Fit(C, x) /\ Holds(C, x, A, B, D) /\ B \subseteq H
  /\ Within(H \ B) /\ page \in Nat /\ FirstPage(D \ H, page)

LEMMA WithinLess ==
  ASSUME NEW S, Within(S), NEW R, R \subseteq S
  PROVE  Within(R)
<1>1. IsFiniteSet(R) /\ Cardinality(R) <= Cardinality(S)
  <2>1. IsFiniteSet(S) /\ R \in SUBSET S
    BY DEF Within
  <2> QED
    BY <2>1, FS_Subset
<1>2. Cardinality(R) \in Nat /\ Cardinality(S) \in Nat
  BY <1>1, FS_CardinalityType DEF Within
<1>3. Overlap \in Nat
  BY ChunkerAssumption
<1> QED
  BY <1>1, <1>2, <1>3 DEF Within

\* One chunk more.
OneMore(Ch, all, chunks, c) ==
  /\ all \in Seq(Ch) /\ Len(all) = Len(chunks) + 1 /\ Len(chunks) \in Nat /\ all[Len(all)] = c
  /\ \A k \in 1 .. Len(chunks) : all[k] = chunks[k]
  /\ \A k \in 0 .. Len(chunks) : Carried(all, k) = Carried(chunks, k)
  /\ All(all) = All(chunks) \cup Ink(c.text)

LEMMA HeldAfter ==
  ASSUME NEW Ch, NEW chunks \in Seq(Ch), NEW c \in Ch, NEW all, all = Append(chunks, c)
  PROVE  OneMore(Ch, all, chunks, c)
<1> DEFINE n == Len(chunks)
<1>1. /\ all \in Seq(Ch) /\ Len(all) = n + 1 /\ n \in Nat /\ all[n + 1] = c
      /\ \A k \in 1 .. n : all[k] = chunks[k]
  OBVIOUS
<1> HIDE DEF n
<1>2. ASSUME NEW k \in 0 .. n PROVE Carried(all, k) = Carried(chunks, k)
  <2>1. \A j \in 1 .. k : all[j] = chunks[j]
    BY <1>1
  <2> QED
    BY <2>1 DEF Carried
<1>3. Carried(all, n + 1) = Carried(all, n) \cup Ink(all[n + 1].text)
  <2>1. 1 .. n + 1 = (1 .. n) \cup {n + 1}
    BY <1>1
  <2> QED
    BY <2>1 DEF Carried
<1>4. n \in 0 .. n
  BY <1>1
<1> QED
  BY <1>1, <1>2, <1>3, <1>4 DEF All, n, OneMore

LEMMA ChunkIsSound ==
  ASSUME NEW C, NEW D, NEW x, NEW A, NEW B, NEW H, NEW page, Continues(C, D, x, A, B, H, page), Down(H, D)
  PROVE  ChunkSound([text |-> Strip(x), page |-> page], H, D) /\ Ink(Strip(x)) = A \ B /\ Strip(x) \in Seq(C)
<1> DEFINE y == Strip(x)
           c == [text |-> y, page |-> page]
<1>0. x \in Seq(C) /\ InOrder(x) /\ Len(x) <= ChunkMax /\ Ink(x) = A \ B /\ Ink(x) # {}
  BY DEF Continues, Fit, Holds
<1>1. y \in Seq(C) /\ Ink(y) = Ink(x) /\ Len(y) <= Len(x) /\ InOrder(y)
  BY <1>0, StripText
<1> HIDE DEF y
<1>2. Len(y) \in 1 .. ChunkMax
  <2>1. Len(y) # 0
    <3> SUFFICES ASSUME Len(y) = 0 PROVE FALSE
      OBVIOUS
    <3>1. DOMAIN y = {}
      BY <1>1
    <3>2. Ink(y) = {}
      BY <3>1 DEF Ink, Range
    <3> QED
      BY <1>0, <1>1, <3>2
  <2>2. Len(y) \in Nat /\ Len(x) \in Nat
    BY <1>0, <1>1
  <2> QED
    BY <1>0, <1>1, <2>1, <2>2, ChunkerAssumption
<1> DEFINE I == A \ B
<1>3. Down(A, D) /\ Down(B, D) /\ B \subseteq H /\ Ink(y) = I
  BY <1>0, <1>1 DEF Continues, Holds
<1>4. \A d \in D \ I : (\A e \in I : Precedes(d, e)) \/ (\A e \in I : Precedes(e, d))
  BY <1>3 DEF Down
<1>5. \A e \in I \cup H, d \in D \ (I \cup H) : Precedes(e, d)
  BY <1>3 DEF Down
<1>6. Cardinality(I \cap H) <= Overlap
  <2>1. Within(I \cap H)
    <3>1. I \cap H \subseteq H \ B /\ Within(H \ B)
      BY DEF Continues
    <3> QED
      BY <3>1, WithinLess
  <2> QED
    BY <2>1 DEF Within
<1>7. \E d \in D \ H : page = d[1] /\ \A e \in D \ H : e = d \/ Precedes(d, e)
  BY DEF Continues, FirstPage
<1> HIDE DEF I
<1>8. ChunkSound(c, H, D)
  <2>1. c.text = y /\ c.page = page
    OBVIOUS
  <2> HIDE DEF c
  <2> QED
    BY <1>1, <1>2, <1>3, <1>4, <1>5, <1>6, <1>7, <2>1 DEF ChunkSound
<1> QED
  BY <1>1, <1>3, <1>8 DEF y, I

\* With x the chunks of acc hold A as well.
Sends(C, D, acc, x, A, new) ==
  /\ Sent(C, D, new) /\ All(new.chunks) = All(acc.chunks) \cup A
  /\ new.tail = Last_(x, Overlap) /\ new.page = acc.page /\ new.text = acc.text

LEMMA EmitSound ==
  ASSUME NEW C, NEW D, NEW acc, Sent(C, D, acc), NEW x, NEW A, NEW B, NEW page,
         Continues(C, D, x, A, B, All(acc.chunks), page)
  PROVE  Sends(C, D, acc, x, A, Emit(acc, x, page))
<1> DEFINE new == Emit(acc, x, page)
           c == [text |-> Strip(x), page |-> page]
           H == All(acc.chunks)
           tail == Last_(x, Overlap)
<1>1. ChunkSound(c, H, D) /\ Ink(Strip(x)) = A \ B /\ Strip(x) \in Seq(C)
  <2>1. Down(H, D)
    BY DEF Sent
  <2> QED
    BY <2>1, ChunkIsSound
<1>2. x # << >> /\ x \in Seq(C) /\ page \in Nat
  <2>1. x \in Seq(C) /\ Ink(x) # {} /\ page \in Nat
    BY DEF Continues, Fit
  <2>2. x # << >>
    <3> SUFFICES ASSUME x = << >> PROVE FALSE
      OBVIOUS
    <3>1. DOMAIN x = {}
      OBVIOUS
    <3> QED
      BY <2>1, <3>1 DEF Ink, Range
  <2> QED
    BY <2>1, <2>2
<1>3. acc \in Drafts(C) /\ acc.chunks \in Seq(Chunk(C))
  BY DEF Sent, Drafts
<1>4. tail \in Seq(C)
  <2>1. Overlap \in Nat /\ Len(x) \in Nat
    BY <1>2, ChunkerAssumption
  <2> DEFINE a == IF Len(x) > Overlap THEN Len(x) - Overlap + 1 ELSE 1
  <2>2. a \in Nat /\ a >= 1
    BY <2>1
  <2>3. tail = SubSeq(x, a, Len(x))
    BY DEF Last_
  <2> HIDE DEF a, tail
  <2> QED
    BY <1>2, <2>1, <2>2, <2>3
<1>5. c \in Chunk(C) /\ c.text = Strip(x)
  BY <1>1, <1>2 DEF Chunk
<1> DEFINE all == Append(acc.chunks, c)
<1>6. new = [acc EXCEPT !.chunks = all, !.tail = tail]
  BY <1>2 DEF Emit
<1> HIDE DEF c, tail
<1>7. /\ all \in Seq(Chunk(C)) /\ Len(all) = Len(acc.chunks) + 1 /\ Len(acc.chunks) \in Nat /\ all[Len(all)] = c
      /\ \A k \in 1 .. Len(acc.chunks) : all[k] = acc.chunks[k]
      /\ \A k \in 0 .. Len(acc.chunks) : Carried(all, k) = Carried(acc.chunks, k)
      /\ All(all) = All(acc.chunks) \cup Ink(c.text)
  <2> DEFINE sent == acc.chunks
             S == Chunk(C)
  <2>1. sent \in Seq(S) /\ c \in S /\ all = Append(sent, c)
    BY <1>3, <1>5
  <2> HIDE DEF sent, S, all
  <2>2. OneMore(S, all, sent, c)
    BY <2>1, HeldAfter
  <2> QED
    BY <2>2 DEF sent, S, OneMore
<1> HIDE DEF all
<1>8. /\ new \in Drafts(C) /\ new.chunks = all /\ new.tail = tail /\ new.page = acc.page /\ new.text = acc.text
  BY <1>3, <1>4, <1>6, <1>7 DEF Drafts
<1>9. Ink(c.text) = A \ B /\ B \subseteq H
  BY <1>1, <1>5 DEF Continues
<1>10. All(all) = H \cup A /\ Down(H \cup A, D)
  <2>1. Down(H, D) /\ Down(A, D)
    BY DEF Sent, Continues, Holds
  <2>2. All(all) = H \cup (A \ B)
    BY <1>7, <1>9
  <2> HIDE DEF H
  <2> QED
    BY <1>9, <2>1, <2>2, DownUnion
<1>11. ASSUME NEW k \in 1 .. Len(all) PROVE ChunkSound(all[k], Carried(all, k - 1), D)
  <2>1. CASE k \in 1 .. Len(acc.chunks)
    <3>1. all[k] = acc.chunks[k] /\ k - 1 \in 0 .. Len(acc.chunks)
      BY <1>7, <2>1
    <3>2. Carried(all, k - 1) = Carried(acc.chunks, k - 1)
      BY <1>7, <3>1
    <3> QED
      BY <2>1, <3>1, <3>2 DEF Sent
  <2>2. CASE k \notin 1 .. Len(acc.chunks)
    <3>1. k = Len(all) /\ k - 1 = Len(acc.chunks) /\ k - 1 \in 0 .. Len(acc.chunks)
      BY <1>7, <2>2
    <3>2. Carried(all, k - 1) = H /\ all[k] = c
      BY <1>7, <3>1 DEF All
    <3> QED
      BY <1>1, <3>2 DEF c
  <2> QED
    BY <2>1, <2>2
<1>12. Sent(C, D, new)
  BY <1>8, <1>10, <1>11 DEF Sent
<1> QED
  BY <1>8, <1>10, <1>12 DEF tail, Sends

\* The tail of a text that holds A without B holds A without more of it.
TailOf(C, D, tail, x, A) ==
  /\ tail \in Seq(C) /\ InOrder(tail) /\ Len(tail) <= Overlap
  /\ Ended(x) => Ended(tail)
  /\ \E E : /\ Down(E, D) /\ E \subseteq A /\ Ink(tail) = A \ E /\ Within(A \ E)

LEMMA TailHolds ==
  ASSUME NEW C, NEW D, NEW x, NEW A, NEW B, Holds(C, x, A, B, D), NEW tail, tail = Last_(x, Overlap)
  PROVE  TailOf(C, D, tail, x, A)
<1> DEFINE L == Len(x)
           k == IF L > Overlap THEN L - Overlap ELSE 0
<1>1. L \in Nat /\ Overlap \in Nat /\ Overlap >= 1 /\ x \in Seq(C) /\ InOrder(x)
  BY ChunkerAssumption DEF Holds
<1>2. tail = SubSeq(x, k + 1, L)
  BY <1>1 DEF Last_
<1> HIDE DEF L
<1>3. k \in Nat /\ k <= L /\ L - k <= Overlap /\ (L >= 1 => k < L)
  BY <1>1
<1> HIDE DEF k
<1>4. /\ tail \in Seq(C) /\ Len(tail) = L - k /\ Ink(tail) = Span(x, k, L) /\ InOrder(tail)
      /\ \A j \in 1 .. L - k : tail[j] = x[k + j]
  <2>1. Stretch(C, x, tail, k, L)
    <3>1. L \in Nat /\ L <= Len(x) /\ x \in Seq(C)
      BY <1>1 DEF L
    <3> QED
      BY <1>2, <1>3, <3>1, SubStretch
  <2> QED
    BY <1>1, <2>1 DEF Stretch
<1>5. Len(tail) <= Overlap
  BY <1>3, <1>4
<1>6. ASSUME Ended(x) PROVE Ended(tail)
  <2>1. L >= 1 /\ x[L] # Blank
    BY <1>1, <1>6 DEF Ended, L
  <2>2. L - k \in 1 .. L - k /\ k + (L - k) = L
    BY <1>1, <1>3, <2>1
  <2>3. tail[L - k] = x[L]
    BY <1>4, <2>2
  <2>4. tail # << >>
    BY <1>4, <2>2
  <2> QED
    BY <1>4, <2>1, <2>3, <2>4 DEF Ended
<1> DEFINE E == Upto(B, x, k)
<1>7. Down(E, D) /\ E \subseteq A
  BY <1>3, UptoDown DEF L
<1>8. Ink(tail) = A \ E
  <2>1. L \in Nat /\ L <= Len(x)
    BY <1>1 DEF L
  <2>2. Upto(B, x, L) \ Upto(B, x, k) = Span(x, k, L) /\ Upto(B, x, Len(x)) = A
    BY <1>3, <2>1, UptoNext
  <2> QED
    BY <1>4, <2>2 DEF L
<1> HIDE DEF E
<1>9. Within(Ink(tail))
  <2> DEFINE n == Len(tail)
             J == {j \in 1 .. n : tail[j] # Blank}
             f == [j \in J |-> tail[j]]
  <2>1. n \in Nat /\ n <= Overlap /\ DOMAIN tail = 1 .. n
    BY <1>4, <1>5
  <2>2. f \in Surjection(J, Ink(tail))
    BY <2>1 DEF Surjection, Ink, Range
  <2>3. IsFiniteSet(J) /\ Cardinality(J) <= n /\ Cardinality(J) \in Nat
    <3>1. IsFiniteSet(1 .. n) /\ Cardinality(1 .. n) = n
      <4> HIDE DEF n
      <4>1. n \in Int /\ 1 \in Int /\ (IF 1 > n THEN 0 ELSE n - 1 + 1) = n
        BY <2>1
      <4> QED
        BY <4>1, FS_Interval
    <3>2. J \in SUBSET (1 .. n)
      OBVIOUS
    <3> HIDE DEF J, n
    <3>3. IsFiniteSet(J) /\ Cardinality(J) <= n
      BY <3>1, <3>2, FS_Subset
    <3> QED
      BY <3>3, FS_CardinalityType
  <2> HIDE DEF f, J, n
  <2>4. IsFiniteSet(Ink(tail)) /\ Cardinality(Ink(tail)) <= Cardinality(J)
    BY <2>2, <2>3, FS_Surjection
  <2>5. Cardinality(Ink(tail)) \in Nat
    BY <2>4, FS_CardinalityType
  <2> QED
    BY <1>1, <2>1, <2>3, <2>4, <2>5 DEF Within
<1> QED
  BY <1>4, <1>5, <1>6, <1>7, <1>8, <1>9 DEF TailOf

-----------------------------------------------------------------------------
(* Pages *)

\* All of P has been sent, and the tail holds the end of it.
Ready(C, D, acc, P) ==
  /\ Sent(C, D, acc) /\ All(acc.chunks) = P
  /\ InOrder(acc.tail) /\ Len(acc.tail) <= Overlap /\ (acc.tail # << >> => Ended(acc.tail))
  /\ \E B : Down(B, D) /\ B \subseteq P /\ Ink(acc.tail) = P \ B /\ Within(P \ B)

\* What of P has not been sent waits in the text.
Waiting(C, D, acc, P) ==
  /\ Sent(C, D, acc) /\ Down(P, D) /\ All(acc.chunks) \subseteq P
  /\ Fit(C, acc.text) /\ Ended(acc.text)
  /\ FirstPage(D \ All(acc.chunks), acc.page)
  /\ \E B : /\ Down(B, D) /\ B \subseteq All(acc.chunks)
            /\ Ink(acc.text) = P \ B /\ Within(All(acc.chunks) \ B)

\* The page t, with the number p, follows P.
Follows(C, D, P, p, t) ==
  /\ t \in Seq(C) /\ t # << >> /\ InOrder(t) /\ Trim(t) /\ Spaced(t) /\ p \in Nat
  /\ Ink(t) \cap P = {} /\ Down(P \cup Ink(t), D) /\ \A c \in Ink(t) : c[1] = p

LEMMA SendWaiting ==
  ASSUME NEW C, NEW D, NEW P, NEW acc, Waiting(C, D, acc, P)
  PROVE  Ready(C, D, Emit(acc, acc.text, acc.page), P)
<1> DEFINE H == All(acc.chunks)
           x == acc.text
           new == Emit(acc, x, acc.page)
<1>1. PICK B : Down(B, D) /\ B \subseteq H /\ Ink(x) = P \ B /\ Within(H \ B)
  BY DEF Waiting
<1>2. /\ Sent(C, D, acc) /\ Down(P, D) /\ H \subseteq P /\ Fit(C, x) /\ Ended(x)
      /\ FirstPage(D \ H, acc.page) /\ Lined(D) /\ acc.page \in Nat
  BY DEF Waiting, Sent, Drafts
<1> HIDE DEF H, x
<1>3. Holds(C, x, P, B, D)
  BY <1>1, <1>2 DEF Holds, Fit
<1>4. Continues(C, D, x, P, B, H, acc.page)
  BY <1>1, <1>2, <1>3 DEF Continues
<1>5. Sent(C, D, new) /\ All(new.chunks) = P /\ new.tail = Last_(x, Overlap)
  <2>1. Continues(C, D, x, P, B, All(acc.chunks), acc.page)
    BY <1>4 DEF H
  <2>2. Sent(C, D, new) /\ All(new.chunks) = All(acc.chunks) \cup P /\ new.tail = Last_(x, Overlap)
    <3>1. Sends(C, D, acc, x, P, new)
      BY <1>2, <2>1, EmitSound
    <3> QED
      BY <3>1 DEF Sends
  <2> QED
    BY <1>2, <2>2 DEF H
<1> HIDE DEF new
<1> DEFINE tail == new.tail
<1>6. /\ tail \in Seq(C) /\ InOrder(tail) /\ Len(tail) <= Overlap
      /\ Ended(x) => Ended(tail)
      /\ \E E : /\ Down(E, D) /\ E \subseteq P /\ Ink(tail) = P \ E /\ Within(P \ E)
  <2>1. tail = Last_(x, Overlap)
    BY <1>5
  <2> HIDE DEF tail
  <2>2. TailOf(C, D, tail, x, P)
    BY <1>3, <2>1, TailHolds
  <2> QED
    BY <2>2 DEF TailOf
<1> QED
  BY <1>2, <1>5, <1>6 DEF Ready, new, x

\* A page after a text.
LEMMA PageAfter ==
  ASSUME NEW C, Blank \in C, NEW D, Lined(D), NEW P, Down(P, D), NEW B, Down(B, D), B \subseteq P,
         NEW s \in Seq(C), InOrder(s), Ink(s) = P \ B,
         NEW p, NEW t, Follows(C, D, P, p, t), NEW T, T = Strip(s \o Gap \o t)
  PROVE  /\ Holds(C, T, P \cup Ink(t), B, D) /\ Ended(T) /\ Trim(T) /\ Ink(T) # {}
         /\ Len(T) <= Len(s) + 2 + Len(t)
         /\ Len(s) <= ChunkMax /\ (s # << >> => Ended(s)) => Spaced(T)
<1> DEFINE y == s \o Gap \o t
<1>1. /\ t \in Seq(C) /\ t # << >> /\ InOrder(t) /\ Trim(t) /\ Spaced(t)
      /\ Ink(t) \cap P = {} /\ Down(P \cup Ink(t), D)
  BY DEF Follows
<1>2. Ink(t) # {} /\ Len(t) >= 1 /\ t[1] # Blank /\ Len(t) \in Nat
  <2>1. Len(t) \in Nat /\ Len(t) >= 1 /\ DOMAIN t = 1 .. Len(t)
    BY <1>1
  <2>2. t[1] # Blank
    BY <1>1 DEF Trim
  <2>3. t[1] \in Ink(t)
    BY <2>1, <2>2 DEF Ink, Range
  <2> QED
    BY <2>1, <2>2, <2>3
<1>3. \A c \in Ink(s), d \in Ink(t) : Precedes(c, d)
  <2> SUFFICES ASSUME NEW c \in Ink(s), NEW d \in Ink(t) PROVE Precedes(c, d)
    OBVIOUS
  <2>1. c \in P /\ d \in D \ P
    BY <1>1 DEF Down
  <2> QED
    BY <2>1 DEF Down
<1>4. y \in Seq(C) /\ Len(y) = Len(s) + 2 + Len(t) /\ Ink(y) = Ink(s) \cup Ink(t) /\ InOrder(y)
  <2>1. Gap \in {<<Blank>>, Gap} /\ Len(Gap) = 2
    BY DEF Gap
  <2>2. Spliced(C, y, s, Len(Gap), t)
    BY <1>1, <2>1, SpacedText
  <2> HIDE DEF y
  <2> QED
    BY <1>1, <1>3, <2>1, <2>2 DEF Spliced
<1>5. \A j \in 1 .. Len(s) : y[j] = s[j]
  <2>1. Gap \in Seq({Blank})
    BY DEF Gap
  <2> QED
    BY <1>1, <2>1
<1>6. \A j \in 1 .. Len(t) : y[Len(s) + 2 + j] = t[j]
  <2> DEFINE g == Gap
             u == s \o g
             n == Len(u)
  <2>1. g \in Seq(C)
    BY DEF Gap
  <2>7. Len(g) = 2
    BY DEF Gap
  <2>2. y = u \o t
    OBVIOUS
  <2> HIDE DEF g
  <2>3. u \in Seq(C)
    BY <2>1
  <2>4. Len(u) = Len(s) + Len(g)
    BY <2>1
  <2>5. n = Len(s) + 2
    BY <2>4, <2>7
  <2> HIDE DEF u, y
  <2>6. \A j \in 1 .. Len(t) : y[n + j] = t[j]
    BY <1>1, <2>2, <2>3
  <2> QED
    BY <2>5, <2>6
<1> HIDE DEF y
<1>7. T \in Seq(C) /\ Ink(T) = Ink(y) /\ Len(T) <= Len(y) /\ Trim(T) /\ InOrder(T) /\ (Spaced(y) => Spaced(T))
  BY <1>4, StripText DEF y
<1>8. Ink(T) # {} /\ T # << >>
  <2>1. Ink(T) # {}
    BY <1>2, <1>4, <1>7
  <2>2. T # << >>
    <3> SUFFICES ASSUME T = << >> PROVE FALSE
      OBVIOUS
    <3>1. DOMAIN T = {}
      OBVIOUS
    <3> QED
      BY <2>1, <3>1 DEF Ink, Range
  <2> QED
    BY <2>1, <2>2
<1>9. Ended(T)
  BY <1>7, <1>8 DEF Ended, Trim
<1>10. Holds(C, T, P \cup Ink(t), B, D)
  <2> DEFINE A == P \cup Ink(t)
  <2>1. Ink(T) = A \ B /\ B \subseteq A /\ Down(A, D)
    BY <1>1, <1>4, <1>7
  <2> HIDE DEF A
  <2>2. Holds(C, T, A, B, D)
    BY <1>7, <2>1 DEF Holds
  <2> QED
    BY <2>2 DEF A
<1>11. Len(T) <= Len(s) + 2 + Len(t)
  BY <1>4, <1>7
<1>12. ASSUME Len(s) <= ChunkMax, s # << >> => Ended(s) PROVE Spaced(y)
  <2> DEFINE a == Len(s)
             b == Len(t)
             M == ChunkMax
  <2>1. a \in Nat /\ b \in Nat /\ b >= 1 /\ M \in Nat /\ M > 2 /\ a <= M /\ Len(y) = a + 2 + b
    BY <1>2, <1>4, <1>12, ChunkerAssumption
  <2>2. \A j \in 1 .. a : y[j] = s[j]
    BY <1>5
  <2>3. \A j \in 1 .. b : y[a + 2 + j] = t[j]
    BY <1>6
  <2>4. a >= 1 => s[a] # Blank
    <3> SUFFICES ASSUME a >= 1 PROVE s[a] # Blank
      OBVIOUS
    <3>1. s # << >>
      OBVIOUS
    <3> QED
      BY <1>12, <3>1 DEF Ended
  <2>5. \A h \in Nat : h + M <= b => \E j \in h + 1 .. h + M : t[j] # Blank
    BY <1>1 DEF Spaced
  <2> HIDE DEF a, b, M
  <2>6. ASSUME NEW h \in Nat, h + M <= Len(y) PROVE \E j \in h + 1 .. h + M : y[j] # Blank
    <3>1. CASE h < a
      <4>1. a \in h + 1 .. h + M /\ a \in 1 .. a /\ a >= 1
        BY <2>1, <3>1
      <4> QED
        BY <2>2, <2>4, <4>1
    <3>2. CASE ~(h < a) /\ h <= a + 2
      <4>1. a + 2 + 1 \in h + 1 .. h + M /\ 1 \in 1 .. b
        BY <2>1, <3>2
      <4> QED
        BY <1>2, <2>3, <4>1
    <3>3. CASE h > a + 2
      <4> DEFINE i == h - (a + 2)
      <4>1. i \in Nat /\ i + M <= b /\ h = i + (a + 2)
        BY <2>1, <2>6, <3>3
      <4> HIDE DEF i
      <4>2. PICK j \in i + 1 .. i + M : t[j] # Blank
        BY <2>5, <4>1
      <4>3. a + 2 + j \in h + 1 .. h + M /\ j \in 1 .. b
        BY <2>1, <4>1
      <4> QED
        BY <2>3, <4>2, <4>3
    <3> QED
      BY <2>1, <3>1, <3>2, <3>3
  <2> QED
    BY <2>6 DEF Spaced, M
<1> QED
  BY <1>7, <1>8, <1>9, <1>10, <1>11, <1>12

LEMMA EmitType ==
  ASSUME NEW C, NEW acc \in Drafts(C), NEW x \in Seq(C), NEW page \in Nat
  PROVE  Emit(acc, x, page) \in Drafts(C)
<1>1. CASE x = << >>
  BY <1>1 DEF Emit
<1>2. CASE x # << >>
  <2> DEFINE a == IF Len(x) > Overlap THEN Len(x) - Overlap + 1 ELSE 1
             tail == Last_(x, Overlap)
             c == [text |-> Strip(x), page |-> page]
  <2>1. Overlap \in Nat /\ Len(x) \in Nat
    BY ChunkerAssumption
  <2>2. a \in Nat /\ a >= 1
    BY <2>1
  <2>3. tail = SubSeq(x, a, Len(x))
    BY DEF Last_
  <2>4. tail \in Seq(C)
    <3> HIDE DEF a, tail
    <3> QED
      BY <2>1, <2>2, <2>3
  <2>5. c \in Chunk(C)
    <3>1. Strip(x) \in Seq(C)
      BY StripText
    <3> QED
      BY <3>1 DEF Chunk
  <2>6. Emit(acc, x, page) = [acc EXCEPT !.chunks = Append(acc.chunks, c), !.tail = tail]
    BY <1>2 DEF Emit
  <2> HIDE DEF c, tail
  <2>7. Append(acc.chunks, c) \in Seq(Chunk(C))
    BY <2>5 DEF Drafts
  <2> QED
    BY <2>4, <2>6, <2>7 DEF Drafts
<1> QED
  BY <1>1, <1>2

SentSteps(C, prior, F, page, g) ==
  /\ g \in [0 .. Len(F) -> Drafts(C)] /\ g[0] = prior
  /\ EmitAll(prior, F, page) = g[Len(F)]
  /\ \A i \in 1 .. Len(F) : g[i] = Emit(g[i - 1], F[i], page)

LEMMA EmitSteps ==
  ASSUME NEW C, NEW prior \in Drafts(C), NEW F \in Seq(Seq(C)), NEW page \in Nat
  PROVE  \E g : SentSteps(C, prior, F, page, g)
<1> DEFINE n == Len(F)
           V == Drafts(C)
           Step == [q \in (1 .. n) \X V |-> Emit(q[2], F[q[1]], page)]
           Fold(f) == f = [t \in SUBSET (1 .. n) |->
                       IF t = {} THEN prior ELSE LET x == Max(t) IN Emit(f[t \ {x}], F[x], page)]
<1>1. n \in Nat /\ DOMAIN F = 1 .. n /\ \A i \in 1 .. n : F[i] \in Seq(C)
  OBVIOUS
<1>2. Stepping(n, V, prior, Step)
  <2>1. \A i \in 1 .. n, s \in V : Emit(s, F[i], page) \in V
    BY <1>1, EmitType
  <2> HIDE DEF V, n
  <2> QED
    BY <1>1, <2>1 DEF Stepping, V
<1>3. \A i \in 1 .. n, s \in V : Step[<<i, s>>] = Emit(s, F[i], page)
  OBVIOUS
<1> HIDE DEF V
<1>4. \E f : Fold(f)
  <2>1. PICK f : ListFold(f, n, V, prior, Step)
    <3> HIDE DEF n, Step
    <3> QED
      BY <1>2, ListFoldExists
  <2>2. \A t \in SUBSET (1 .. n) : t # {} => f[t] = Emit(f[t \ {Max(t)}], F[Max(t)], page)
    <3> HIDE DEF Step
    <3> QED
      BY <1>3, <2>1 DEF ListFold
  <2>3. Fold(f)
    BY <2>1, <2>2 DEF ListFold
  <2> QED
    BY <2>3
<1>5. PICK f : Fold(f) /\ EmitAll(prior, F, page) = f[1 .. n]
  BY <1>1, <1>4 DEF EmitAll, FoldLeft, MapThenFoldSet
<1>6. f[{}] = prior
  BY <1>5
<1>7. ASSUME NEW t \in SUBSET (1 .. n), t # {}, f[t \ {Max(t)}] \in V
      PROVE  f[t] = Step[<<Max(t), f[t \ {Max(t)}]>>]
  <2>1. Max(t) \in 1 .. n
    BY <1>1, <1>7, Extremes
  <2>2. f[t] = Emit(f[t \ {Max(t)}], F[Max(t)], page)
    BY <1>5, <1>7
  <2> HIDE DEF Step
  <2> QED
    BY <1>3, <1>7, <2>1, <2>2
<1> DEFINE g == [i \in 0 .. n |-> f[1 .. i]]
<1>8. Steps(g, n, V, prior, Step)
  <2> HIDE DEF n, Step
  <2>1. Folded(f, n, V, prior, Step)
    BY <1>6, <1>7 DEF Folded
  <2> QED
    BY <1>2, <2>1, ListFoldSteps
<1>9. EmitAll(prior, F, page) = g[n]
  <2>1. n \in 0 .. n
    BY <1>1
  <2> HIDE DEF n, Fold
  <2> QED
    BY <1>5, <2>1
<1> HIDE DEF g
<1>10. \A i \in 1 .. n : g[i] = Emit(g[i - 1], F[i], page)
  <2> TAKE i \in 1 .. n
  <2>1. i - 1 \in 0 .. n
    BY <1>1
  <2>2. g[i - 1] \in V /\ g[i] = Step[<<i, g[i - 1]>>]
    BY <1>8, <2>1 DEF Steps
  <2> QED
    BY <1>3, <2>2
<1> QED
  BY <1>8, <1>9, <1>10 DEF Steps, V, SentSteps

\* T, the rest of P and a page with the number p, is sent in parts.
Divisible(C, D, P, p, prior, A, B, T, parts) ==
  /\ Sent(C, D, prior) /\ All(prior.chunks) = P /\ B \subseteq P /\ Within(P \ B)
  /\ Holds(C, T, A, B, D) /\ Ink(T) # {} /\ P \subseteq A /\ ~(A \subseteq P)
  /\ p \in Nat /\ \A c \in A \ P : c[1] = p
  /\ Parted(C, parts, T, 0, Len(T))

LEMMA SendParts ==
  ASSUME NEW C, NEW D, NEW P, NEW p, NEW prior, NEW A, NEW B, NEW T, NEW parts,
         Divisible(C, D, P, p, prior, A, B, T, parts)
  PROVE  Waiting(C, D, [EmitAll(prior, Front(parts), p) EXCEPT !.text = Last(parts), !.page = p], A)
<1> USE DEF Divisible
<1>1. PICK e : Divide(C, parts, T, 0, Len(T), e)
  BY DEF Parted
<1> DEFINE n == Len(parts)
           L == Len(T)
           F == Front(parts)
           h == [m \in 0 .. n |-> Upto(B, T, e[m])]
<1>2. T \in Seq(C) /\ L \in Nat /\ Lined(D) /\ Down(A, D) /\ Down(B, D) /\ B \subseteq A /\ Ink(T) = A \ B
  BY DEF Holds
<1>3. /\ parts \in Seq(Seq(C)) /\ n \in Nat
      /\ e \in [0 .. n -> 0 .. L] /\ e[0] = 0 /\ e[n] = L
      /\ \A m \in 1 .. n : /\ e[m - 1] <= e[m]
                           /\ Fit(C, parts[m]) /\ Ink(parts[m]) = Span(T, e[m - 1], e[m])
  BY <1>1 DEF Divide
<1>4. n >= 1 /\ parts # << >>
  <2>1. n # 0
    <3> SUFFICES ASSUME n = 0 PROVE FALSE
      OBVIOUS
    <3>1. L = 0
      BY <1>3
    <3>2. Ink(T) = {}
      <4>1. DOMAIN T = {}
        BY <1>2, <3>1
      <4> QED
        BY <4>1 DEF Ink, Range
    <3> QED
      BY <3>2
  <2> QED
    BY <1>3, <2>1
<1>5. F \in Seq(Seq(C)) /\ Len(F) = n - 1 /\ \A m \in 1 .. n - 1 : F[m] = parts[m]
  <2>1. F = SubSeq(parts, 1, n - 1)
    BY DEF Front
  <2> HIDE DEF F, n
  <2>2. n \in Nat /\ n >= 1 /\ n = Len(parts)
    BY <1>3, <1>4 DEF n
  <2> QED
    BY <1>3, <2>1, <2>2
<1>6. Last(parts) = parts[n] /\ Ended(parts[n])
  BY <1>4 DEF Last, Parted
<1> HIDE DEF n, L, F
<1>7. \A m \in 0 .. n : e[m] \in Nat /\ e[m] <= L /\ e[m] <= Len(T)
  BY <1>2, <1>3 DEF L
<1>8. \A m \in 0 .. n : Down(h[m], D) /\ h[m] \subseteq A /\ B \subseteq h[m]
  <2> TAKE m \in 0 .. n
  <2>1. Down(Upto(B, T, e[m]), D) /\ Upto(B, T, e[m]) \subseteq A
    BY <1>7, UptoDown
  <2> QED
    BY <2>1 DEF Upto
<1>9. ASSUME NEW m \in 1 .. n
      PROVE  h[m] \ h[m - 1] = Ink(parts[m]) /\ h[m - 1] \subseteq h[m]
  <2> DEFINE a == e[m - 1]
             b == e[m]
  <2>1. m \in 0 .. n /\ m - 1 \in 0 .. n
    BY <1>3
  <2>2. a \in Nat /\ b \in Nat /\ a <= b /\ b <= Len(T)
    BY <1>3, <1>7, <2>1
  <2>3. h[m] = Upto(B, T, b) /\ h[m - 1] = Upto(B, T, a) /\ Ink(parts[m]) = Span(T, a, b)
    BY <1>3, <2>1
  <2> HIDE DEF a, b, h
  <2>4. Upto(B, T, b) \ Upto(B, T, a) = Span(T, a, b) /\ Upto(B, T, a) \subseteq Upto(B, T, b)
    BY <2>2, UptoNext
  <2> QED
    BY <2>3, <2>4
<1>10. h[0] = B /\ h[n] = A
  <2>1. Upto(B, T, 0) = B /\ Upto(B, T, Len(T)) = A
    <3>1. 0 \in Nat /\ 0 <= 0 /\ 0 <= Len(T)
      BY <1>2 DEF L
    <3> QED
      BY <3>1, UptoNext
  <2>2. 0 \in 0 .. n /\ n \in 0 .. n
    BY <1>3
  <2> QED
    BY <1>3, <2>1, <2>2 DEF L
<1> HIDE DEF h
<1>11. ASSUME NEW m \in 0 .. n - 1
       PROVE  /\ FirstPage(D \ (P \cup h[m]), p) /\ Within((P \cup h[m]) \ h[m])
              /\ Fit(C, parts[m + 1]) /\ Ink(parts[m + 1]) = h[m + 1] \ h[m]
  <2>1. m + 1 \in 1 .. n /\ (m + 1) - 1 = m /\ m \in 0 .. n /\ m + 1 \in 0 .. n
    BY <1>3, <1>4
  <2>2. Fit(C, parts[m + 1]) /\ Ink(parts[m + 1]) = h[m + 1] \ h[m] /\ h[m + 1] \subseteq A
    BY <1>3, <1>8, <1>9, <2>1
  <2>3. PICK c \in A : c \notin h[m]
    BY <2>2 DEF Fit
  <2>4. ~(A \subseteq P \cup h[m])
    <3>1. Down(P, D)
      BY DEF Sent
    <3>2. P \subseteq h[m] \/ h[m] \subseteq P
      BY <1>2, <1>8, <2>1, <3>1, DownChain
    <3> QED
      BY <2>3, <3>2
  <2>5. FirstPage(D \ (P \cup h[m]), p)
    <3> DEFINE H == P \cup h[m]
    <3>1. \A d \in A \ H : d[1] = p
      OBVIOUS
    <3>2. ~(A \subseteq H)
      BY <2>4
    <3> HIDE DEF H
    <3>3. FirstPage(D \ H, p)
      BY <1>2, <3>1, <3>2, PageOfRest
    <3> QED
      BY <3>3 DEF H
  <2>6. Within((P \cup h[m]) \ h[m])
    <3>1. (P \cup h[m]) \ h[m] \subseteq P \ B
      BY <1>8, <2>1
    <3> QED
      BY <3>1, WithinLess
  <2> QED
    BY <2>2, <2>5, <2>6
<1>12. PICK g : /\ g \in [0 .. n - 1 -> Drafts(C)] /\ g[0] = prior
                /\ EmitAll(prior, F, p) = g[n - 1]
                /\ \A i \in 1 .. n - 1 : g[i] = Emit(g[i - 1], F[i], p)
  <2>1. prior \in Drafts(C)
    BY DEF Sent
  <2>2. \E g : SentSteps(C, prior, F, p, g)
    BY <1>5, <2>1, EmitSteps
  <2> QED
    BY <1>5, <2>2 DEF SentSteps
<1> DEFINE I == {m \in 0 .. n - 1 : Sent(C, D, g[m]) /\ All(g[m].chunks) = P \cup h[m]}
<1>13. 0 \in I
  BY <1>3, <1>4, <1>10, <1>12
<1>14. ASSUME NEW m \in 0 .. (n - 1) - 1, m \in I PROVE m + 1 \in I
  <2>1. m \in 0 .. n - 1 /\ m + 1 \in 1 .. n - 1 /\ m + 1 \in 0 .. n - 1 /\ (m + 1) - 1 = m /\ m \in 0 .. n /\ m + 1 \in 0 .. n /\ m + 1 \in 1 .. n
    BY <1>3
  <2> DEFINE x == parts[m + 1]
             H == P \cup h[m]
  <2>2. Sent(C, D, g[m]) /\ All(g[m].chunks) = H /\ g[m + 1] = Emit(g[m], x, p)
    BY <1>5, <1>12, <1>14, <2>1
  <2>3. Fit(C, x) /\ Ink(x) = h[m + 1] \ h[m] /\ FirstPage(D \ H, p) /\ Within(H \ h[m])
    BY <1>11, <2>1
  <2>4. Down(h[m + 1], D) /\ Down(h[m], D) /\ h[m] \subseteq h[m + 1] /\ h[m] \subseteq H
    BY <1>8, <1>9, <2>1
  <2> HIDE DEF x, H
  <2>5. Continues(C, D, x, h[m + 1], h[m], H, p)
    BY <1>2, <2>3, <2>4 DEF Continues, Holds, Fit
  <2>6. Sends(C, D, g[m], x, h[m + 1], g[m + 1])
    BY <2>2, <2>5, EmitSound
  <2>7. H \cup h[m + 1] = P \cup h[m + 1]
    BY <2>4 DEF H
  <2> QED
    BY <2>1, <2>2, <2>6, <2>7 DEF Sends
<1>15. 0 .. n - 1 \subseteq I
  <2>1. n - 1 \in Nat
    BY <1>3, <1>4
  <2> HIDE DEF I
  <2> QED
    BY <1>13, <1>14, <2>1, BoundedInduction
<1> DEFINE k == n - 1
           s == g[k]
           x == parts[n]
           new == [s EXCEPT !.text = x, !.page = p]
           H == P \cup h[k]
<1>16. k \in 0 .. n - 1 /\ k + 1 = n /\ k \in 0 .. n /\ n \in 1 .. n /\ n - 1 = k
  BY <1>3, <1>4
<1>17. Sent(C, D, s) /\ All(s.chunks) = H
  BY <1>15, <1>16
<1>18. FirstPage(D \ H, p) /\ Within(H \ h[k]) /\ Fit(C, x) /\ Ink(x) = A \ h[k]
  BY <1>10, <1>11, <1>16
<1>19. Down(h[k], D) /\ h[k] \subseteq H /\ H \subseteq A
  BY <1>8, <1>16
<1> HIDE DEF k, s, x, H
<1>20. new \in Drafts(C) /\ new.chunks = s.chunks /\ new.text = x /\ new.page = p
  BY <1>17, <1>18 DEF Sent, Drafts, Fit
<1> HIDE DEF new
<1>21. Sent(C, D, new)
  BY <1>17, <1>20 DEF Sent
<1>22. Waiting(C, D, new, A)
  <2>1. Ended(x)
    BY <1>6 DEF x
  <2>2. All(new.chunks) = H
    BY <1>17, <1>20
  <2> QED
    BY <1>2, <1>18, <1>19, <1>20, <1>21, <2>1, <2>2 DEF Waiting
<1>23. new = [EmitAll(prior, F, p) EXCEPT !.text = Last(parts), !.page = p]
  BY <1>6, <1>12 DEF new, s, k, x
<1> QED
  BY <1>22, <1>23 DEF F

LEMMA PartsOf ==
  ASSUME NEW C, Blank \in C, NEW T \in Seq(C), InOrder(T), Spaced(T), Trim(T), Ended(T), Ink(T) # {},
         NEW parts, parts = IF Len(T) > ChunkMax THEN SplitLongText(T) ELSE <<T>>
  PROVE  Parted(C, parts, T, 0, Len(T))
<1>1. CASE Len(T) > ChunkMax
  <2>1. T # << >>
    BY DEF Ended
  <2> QED
    BY <1>1, <2>1, SplitParts
<1>2. CASE ~(Len(T) > ChunkMax)
  <2> DEFINE L == Len(T)
  <2>1. L \in Nat /\ 0 \in Nat /\ 0 <= L /\ L <= ChunkMax
    BY <1>2, ChunkerAssumption
  <2>2. Ink(T) = Span(T, 0, L)
    BY InkIsSpan
  <2>3. Fit(C, T)
    BY <2>1 DEF Fit
  <2> HIDE DEF L
  <2>4. Parted(C, <<T>>, T, 0, L)
    BY <2>1, <2>2, <2>3, PartedOne
  <2> QED
    BY <1>2, <2>4 DEF L
<1> QED
  BY <1>1, <1>2

\* After the pages that make up P, nothing has been sent and nothing waits, or
\* the end of P waits.
Begun(C, D, acc, P) ==
  /\ acc \in Drafts(C)
  /\ IF acc.text = << >> THEN P = {} /\ acc.chunks = << >> /\ acc.tail = << >> ELSE Waiting(C, D, acc, P)

LEMMA NothingHeld ==
  ASSUME NEW D
  PROVE  Down({}, D) /\ All(<< >>) = {} /\ Within({}) /\ Ink(<< >>) = {} /\ InOrder(<< >>)
<1>1. Len(<< >>) = 0 /\ DOMAIN << >> = {}
  OBVIOUS
<1>2. All(<< >>) = {}
  <2>1. 1 .. 0 = {}
    OBVIOUS
  <2> QED
    BY <1>1, <2>1 DEF All, Carried
<1>3. Within({})
  BY FS_EmptySet, ChunkerAssumption DEF Within
<1> QED
  BY <1>1, <1>2, <1>3 DEF Down, Ink, Range, InOrder

LEMMA ReadyAtPage ==
  ASSUME NEW C, NEW D, Lined(D), NEW P, NEW acc, Begun(C, D, acc, P)
  PROVE  Ready(C, D, Emit(acc, acc.text, acc.page), P) /\ Down(P, D)
<1>1. CASE acc.text # << >>
  <2>1. Waiting(C, D, acc, P)
    BY <1>1 DEF Begun
  <2> QED
    BY <2>1, SendWaiting DEF Waiting
<1>2. CASE acc.text = << >>
  <2>1. acc \in Drafts(C) /\ P = {} /\ acc.chunks = << >> /\ acc.tail = << >>
    BY <1>2 DEF Begun
  <2>2. Emit(acc, acc.text, acc.page) = acc
    BY <1>2 DEF Emit
  <2>3. Down({}, D) /\ All(acc.chunks) = {} /\ Within({}) /\ Ink(acc.tail) = {} /\ InOrder(acc.tail)
    BY <2>1, NothingHeld
  <2>4. Sent(C, D, acc)
    <3>1. Len(acc.chunks) = 0 /\ 1 .. 0 = {}
      BY <2>1
    <3> QED
      BY <2>1, <2>3, <3>1 DEF Sent
  <2>5. Len(acc.tail) <= Overlap
    BY <2>1, ChunkerAssumption
  <2>6. {} \ {} = {}
    OBVIOUS
  <2>7. Ready(C, D, acc, P)
    BY <2>1, <2>3, <2>4, <2>5, <2>6 DEF Ready
  <2> QED
    BY <2>1, <2>2, <2>3, <2>7
<1> QED
  BY <1>1, <1>2

\* The page of a text that is begun with it.
LEMMA FreshPage ==
  ASSUME NEW C, Blank \in C, NEW D, Lined(D), NEW P, Down(P, D), NEW prior, Ready(C, D, prior, P),
         NEW p, NEW t, Follows(C, D, P, p, t), NEW T, T = Strip(prior.tail \o Gap \o t),
         NEW parts, parts = IF Len(T) > ChunkMax THEN SplitLongText(T) ELSE <<T>>
  PROVE  Waiting(C, D, [EmitAll(prior, Front(parts), p) EXCEPT !.text = Last(parts), !.page = p], P \cup Ink(t))
<1> DEFINE s == prior.tail
           A == P \cup Ink(t)
<1>1. PICK B : Down(B, D) /\ B \subseteq P /\ Ink(s) = P \ B /\ Within(P \ B)
  BY DEF Ready
<1>2. /\ Sent(C, D, prior) /\ All(prior.chunks) = P
      /\ s \in Seq(C) /\ InOrder(s) /\ Len(s) <= Overlap /\ (s # << >> => Ended(s))
  BY DEF Ready, Sent, Drafts
<1>3. T = Strip(s \o Gap \o t)
  OBVIOUS
<1> HIDE DEF s
<1>4. Len(s) <= ChunkMax
  <2>1. Len(s) \in Nat
    BY <1>2
  <2> QED
    BY <1>2, <2>1, ChunkerAssumption
<1>5. /\ Holds(C, T, A, B, D) /\ Ended(T) /\ Trim(T) /\ Ink(T) # {} /\ Spaced(T)
  BY <1>1, <1>2, <1>3, <1>4, PageAfter
<1>6. Parted(C, parts, T, 0, Len(T))
  <2>1. T \in Seq(C) /\ InOrder(T)
    BY <1>5 DEF Holds
  <2> QED
    BY <1>5, <2>1, PartsOf
<1>7. P \subseteq A /\ ~(A \subseteq P) /\ p \in Nat /\ \A c \in A \ P : c[1] = p
  <2>1. Ink(t) \cap P = {} /\ p \in Nat /\ \A c \in Ink(t) : c[1] = p
    BY DEF Follows
  <2>2. Ink(t) # {}
    <3>1. t \in Seq(C) /\ t # << >> /\ t[1] # Blank
      BY DEF Follows, Trim
    <3>2. 1 \in DOMAIN t
      BY <3>1
    <3> QED
      BY <3>1, <3>2 DEF Ink, Range
  <2> QED
    BY <2>1, <2>2
<1> HIDE DEF A
<1>8. Divisible(C, D, P, p, prior, A, B, T, parts)
  BY <1>1, <1>2, <1>5, <1>6, <1>7 DEF Divisible
<1>9. Waiting(C, D, [EmitAll(prior, Front(parts), p) EXCEPT !.text = Last(parts), !.page = p], A)
  BY <1>8, SendParts
<1> QED
  BY <1>9 DEF A

\* The page of a text that goes on with it.
LEMMA NextPage ==
  ASSUME NEW C, Blank \in C, NEW D, Lined(D), NEW P, NEW acc, Waiting(C, D, acc, P),
         NEW p, NEW t, Follows(C, D, P, p, t), Len(acc.text) + Len(t) + 2 <= ChunkMax,
         NEW T, T = Strip(acc.text \o Gap \o t)
  PROVE  Waiting(C, D, [acc EXCEPT !.text = T, !.page = acc.page], P \cup Ink(t)) /\ Len(T) <= ChunkMax
<1> DEFINE s == acc.text
           A == P \cup Ink(t)
           H == All(acc.chunks)
           new == [acc EXCEPT !.text = T, !.page = acc.page]
<1>1. PICK B : Down(B, D) /\ B \subseteq H /\ Ink(s) = P \ B /\ Within(H \ B)
  BY DEF Waiting
<1>2. /\ Sent(C, D, acc) /\ acc \in Drafts(C) /\ Down(P, D) /\ H \subseteq P /\ Fit(C, s)
      /\ s \in Seq(C) /\ InOrder(s) /\ FirstPage(D \ H, acc.page)
  BY DEF Waiting, Sent, Fit
<1>3. T = Strip(s \o Gap \o t) /\ Len(s) + Len(t) + 2 <= ChunkMax
  OBVIOUS
<1> HIDE DEF s, H
<1>4. B \subseteq P
  BY <1>1, <1>2
<1>5. Holds(C, T, A, B, D) /\ Ended(T) /\ Ink(T) # {} /\ Len(T) <= Len(s) + 2 + Len(t)
  BY <1>1, <1>2, <1>3, <1>4, PageAfter
<1>6. Down(A, D)
  BY DEF Follows
<1> HIDE DEF A
<1>7. T \in Seq(C) /\ InOrder(T) /\ Ink(T) = A \ B /\ B \subseteq A
  BY <1>5 DEF Holds
<1>8. Len(T) <= ChunkMax
  <2>1. Len(T) \in Nat /\ Len(s) \in Nat /\ Len(t) \in Nat /\ ChunkMax \in Nat
    BY <1>2, <1>7, ChunkerAssumption DEF Follows
  <2> QED
    BY <1>3, <1>5, <2>1
<1>9. Fit(C, T)
  BY <1>5, <1>7, <1>8 DEF Fit
<1>10. new \in Drafts(C) /\ new.chunks = acc.chunks /\ new.text = T /\ new.page = acc.page
  BY <1>2, <1>7 DEF Drafts
<1> HIDE DEF new
<1>11. Sent(C, D, new)
  BY <1>2, <1>10 DEF Sent
<1>12. P \subseteq A
  BY DEF A
<1>13. Waiting(C, D, new, A)
  BY <1>1, <1>2, <1>5, <1>6, <1>7, <1>9, <1>10, <1>11, <1>12 DEF Waiting, H
<1> QED
  BY <1>8, <1>13 DEF new, A

LEMMA NoneToSend ==
  ASSUME NEW C, NEW prior \in Drafts(C), NEW page \in Nat
  PROVE  EmitAll(prior, << >>, page) = prior
<1>1. << >> \in Seq(Seq(C)) /\ Len(<< >>) = 0
  OBVIOUS
<1>2. PICK g : SentSteps(C, prior, << >>, page, g)
  BY <1>1, EmitSteps
<1> QED
  BY <1>1, <1>2 DEF SentSteps

LEMMA AddPageSound ==
  ASSUME NEW C, Blank \in C, NEW D, Lined(D), NEW P, NEW acc, Begun(C, D, acc, P),
         NEW p, NEW t, Follows(C, D, P, p, t)
  PROVE  Begun(C, D, AddPage(acc, p, t), P \cup Ink(t))
<1> DEFINE A == P \cup Ink(t)
           fresh == acc.text = << >> \/ Len(acc.text) + Len(t) + 2 > ChunkMax
<1>1. ASSUME NEW new, Waiting(C, D, new, A) PROVE Begun(C, D, new, A)
  <2>1. new.text # << >> /\ new \in Drafts(C)
    BY <1>1 DEF Waiting, Ended, Sent
  <2> QED
    BY <1>1, <2>1 DEF Begun
<1>2. CASE fresh
  <2> DEFINE prior == Emit(acc, acc.text, acc.page)
             T == Strip(prior.tail \o Gap \o t)
             parts == IF Len(T) > ChunkMax THEN SplitLongText(T) ELSE <<T>>
             new == [EmitAll(prior, Front(parts), p) EXCEPT !.text = Last(parts), !.page = p]
  <2>1. AddPage(acc, p, t) = new
    BY <1>2 DEF AddPage
  <2>2. Ready(C, D, prior, P) /\ Down(P, D)
    BY ReadyAtPage
  <2>3. Waiting(C, D, new, A)
    <3> HIDE DEF prior
    <3> DEFINE U == T
               W == parts
    <3> HIDE DEF U, W
    <3>1. U = Strip(prior.tail \o Gap \o t)
      BY DEF U
    <3>2. W = IF Len(U) > ChunkMax THEN SplitLongText(U) ELSE <<U>>
      BY DEF U, W
    <3>3. Waiting(C, D, [EmitAll(prior, Front(W), p) EXCEPT !.text = Last(W), !.page = p], P \cup Ink(t))
      BY <2>2, <3>1, <3>2, FreshPage
    <3> QED
      BY <3>3 DEF W, U
  <2> HIDE DEF new
  <2> QED
    BY <1>1, <2>1, <2>3
<1>3. CASE ~fresh
  <2> DEFINE T == Strip(acc.text \o Gap \o t)
             new == [acc EXCEPT !.text = T, !.page = acc.page]
  <2>1. Waiting(C, D, acc, P) /\ acc \in Drafts(C) /\ acc.page \in Nat /\ acc.text \in Seq(C)
    BY <1>3 DEF Begun, Drafts
  <2>2. Len(acc.text) + Len(t) + 2 <= ChunkMax
    <3>1. t \in Seq(C)
      BY DEF Follows
    <3>2. Len(acc.text) \in Nat /\ Len(t) \in Nat
      BY <2>1, <3>1
    <3> QED
      BY <1>3, <3>2, ChunkerAssumption
  <2>3. Waiting(C, D, new, A) /\ Len(T) <= ChunkMax
    <3> DEFINE U == T
    <3>1. U = Strip(acc.text \o Gap \o t)
      OBVIOUS
    <3> HIDE DEF U
    <3>2. Waiting(C, D, [acc EXCEPT !.text = U, !.page = acc.page], P \cup Ink(t)) /\ Len(U) <= ChunkMax
      BY <2>1, <2>2, <3>1, NextPage
    <3> QED
      BY <3>2 DEF U
  <2>4. AddPage(acc, p, t) = new
    <3> DEFINE parts == <<T>>
    <3>1. ~(Len(T) > ChunkMax)
      <4>1. acc.text \o Gap \o t \in Seq(C)
        <5> DEFINE g == Gap
        <5>1. g \in Seq(C) /\ t \in Seq(C)
          BY DEF Follows, Gap
        <5> HIDE DEF g
        <5>2. acc.text \o g \o t \in Seq(C)
          BY <2>1, <5>1
        <5> QED
          BY <5>2 DEF g
      <4>2. T \in Seq(C)
        <5> DEFINE y == acc.text \o Gap \o t
        <5> HIDE DEF y
        <5>1. Strip(y) \in Seq(C)
          BY <4>1, StripText DEF y
        <5> QED
          BY <5>1 DEF y
      <4> HIDE DEF T
      <4>3. Len(T) \in Nat
        BY <4>2
      <4> QED
        BY <2>3, <4>3, ChunkerAssumption
    <3>2. Front(parts) = << >> /\ Last(parts) = T
      <4> HIDE DEF T
      <4> QED
        BY DEF Front, Last
    <3>3. AddPage(acc, p, t) = [EmitAll(acc, Front(parts), acc.page) EXCEPT !.text = Last(parts), !.page = acc.page]
      BY <1>3, <3>1 DEF AddPage
    <3>4. EmitAll(acc, << >>, acc.page) = acc
      BY <2>1, NoneToSend
    <3> HIDE DEF parts, T
    <3> QED
      BY <3>2, <3>3, <3>4
  <2> HIDE DEF new
  <2> QED
    BY <1>1, <2>3, <2>4
<1> QED
  BY <1>2, <1>3

LEMMA InkAtEnd ==
  ASSUME NEW C, NEW t \in Seq(C), t # << >>, Trim(t)
  PROVE  Ink(t) # {}
<1>1. 1 \in DOMAIN t /\ t[1] # Blank
  BY DEF Trim
<1> QED
  BY <1>1 DEF Ink, Range

LEMMA NoInk ==
  ASSUME NEW x, Ink(x) # {}
  PROVE  x # << >>
<1> SUFFICES ASSUME x = << >> PROVE FALSE
  OBVIOUS
<1>1. DOMAIN x = {}
  OBVIOUS
<1> QED
  BY <1>1 DEF Ink, Range

\* A sentence that is added is in some part or in the text.
AnyPart(acc) == acc.done # << >> \/ acc.text # << >>

LEMMA AddSome ==
  ASSUME NEW C, Blank \in C, NEW acc \in Acc(C), NEW s \in Seq(C), Ink(s) # {}
  PROVE  AnyPart(AddSentence(acc, s))
<1>1. acc.done \in Seq(Seq(C)) /\ acc.text \in Seq(C) /\ NonEmpty(acc.text) \in Seq(Seq(C))
  BY DEF Acc, NonEmpty
<1>2. CASE Len(s) > ChunkMax
  <2> DEFINE d == acc.done \o NonEmpty(acc.text)
             q == Pieces(s)
             n == (Len(s) + ChunkMax - 1) \div ChunkMax
  <2>1. d \in Seq(Seq(C)) /\ q \in Seq(Seq(C))
    BY <1>1, PiecesType
  <2>2. Len(q) = n /\ n \in Nat /\ n # 0
    <3> DEFINE L == Len(s)
               M == ChunkMax
    <3>1. L \in Nat /\ M \in Nat /\ M > 0 /\ L > M
      BY <1>2, ChunkerAssumption
    <3>2. q = [k \in 1 .. n |-> SubSeq(s, (k - 1) * M + 1, Min({k * M, L}))]
      BY DEF Pieces
    <3> HIDE DEF L, M
    <3>3. n = (L + M - 1) \div M
      BY DEF L, M
    <3>4. n \in Nat /\ L + M - 1 < n * M + M
      BY <3>1, <3>3
    <3>5. n # 0
      <4> SUFFICES ASSUME n = 0 PROVE FALSE
        OBVIOUS
      <4>1. n * M = 0
        BY <3>1
      <4> HIDE DEF n
      <4> QED
        BY <3>1, <3>4, <4>1
    <3> HIDE DEF n, q
    <3> QED
      BY <3>2, <3>4, <3>5
  <2>3. AddSentence(acc, s).done = d \o q
    BY <1>2 DEF AddSentence
  <2> HIDE DEF d, q, n
  <2>4. Len(d \o q) # 0
    <3>1. Len(d \o q) = Len(d) + Len(q) /\ Len(d) \in Nat
      BY <2>1
    <3> QED
      BY <2>2, <3>1
  <2>5. d \o q # << >>
    BY <2>4
  <2> QED
    BY <2>3, <2>5 DEF AnyPart
<1>3. CASE ~(Len(s) > ChunkMax) /\ Len(acc.text) + Len(s) + 1 <= ChunkMax
  <2> DEFINE y == acc.text \o <<Blank>> \o s
             x == Strip(y)
  <2>1. Spliced(C, y, acc.text, Len(<<Blank>>), s)
    BY <1>1, SpacedText
  <2>2. AddSentence(acc, s).text = x
    BY <1>3 DEF AddSentence, Acc
  <2> HIDE DEF y
  <2>3. y \in Seq(C) /\ Ink(y) # {}
    BY <2>1 DEF Spliced
  <2>4. Ink(x) # {}
    BY <2>3, StripText
  <2> HIDE DEF x
  <2> QED
    BY <2>2, <2>4, NoInk DEF AnyPart
<1>4. CASE ~(Len(s) > ChunkMax) /\ ~(Len(acc.text) + Len(s) + 1 <= ChunkMax)
  <2>1. AddSentence(acc, s).text = s
    BY <1>4 DEF AddSentence
  <2> QED
    BY <2>1, NoInk DEF AnyPart
<1> QED
  BY <1>2, <1>3, <1>4

\* A text has parts.
LEMMA SplitSome ==
  ASSUME NEW C, Blank \in C, NEW T \in Seq(C), T # << >>, Trim(T)
  PROVE  SplitLongText(T) \in Seq(Seq(C)) /\ SplitLongText(T) # << >>
<1> DEFINE n == Len(T)
<1>1. PICK g : /\ g \in [0 .. n -> Acc(C)] /\ g[0] = NoParts
               /\ SplitLongText(T) = g[n].done \o NonEmpty(g[n].text)
               /\ \A i \in 1 .. n : g[i] = AddAt(T, g[i - 1], i)
  BY SplitSteps
<1>2. n \in Nat /\ n >= 1 /\ T[1] # Blank /\ DOMAIN T = 1 .. n
  BY DEF Trim
<1>3. 1 \in Starts(T)
  <2>1. 1 \in DOMAIN T /\ ~(1 > 1)
    BY <1>2
  <2> QED
    BY <1>2, <2>1 DEF Starts
<1>4. \A i \in 1 .. n : Until(T, i) \in i .. n
  BY SentencesLine
<1> HIDE DEF n
<1> DEFINE I == {i \in 0 .. n : i >= 1 => AnyPart(g[i])}
<1>5. 0 \in I
  BY <1>2
<1>6. ASSUME NEW i \in 0 .. n - 1, i \in I PROVE i + 1 \in I
  <2> DEFINE k == i + 1
  <2>1. k \in 1 .. n /\ k - 1 = i /\ k \in 0 .. n /\ i \in 0 .. n
    BY <1>2
  <2> HIDE DEF k
  <2>2. g[k] = AddAt(T, g[i], k) /\ g[i] \in Acc(C)
    BY <1>1, <2>1
  <2>3. CASE k \in Starts(T)
    <3> DEFINE s == Sentence(T, k)
               y == SubSeq(T, k, Until(T, k))
    <3>1. k \in 1 .. Len(T) /\ Until(T, k) \in k .. Len(T) /\ T[k] # Blank
      BY <1>4, <2>1, <2>3 DEF n, Starts
    <3>2. y \in Seq(C) /\ Len(y) >= 1 /\ y[1] = T[k]
      BY <3>1
    <3>3. Ink(y) # {}
      <4>1. 1 \in DOMAIN y
        BY <3>2
      <4> HIDE DEF y
      <4> QED
        BY <3>1, <3>2, <4>1 DEF Ink, Range
    <3>4. s = Strip(y)
      BY DEF Sentence, Until
    <3> HIDE DEF y, s
    <3>5. s \in Seq(C) /\ Ink(s) # {}
      BY <3>2, <3>3, <3>4, StripText
    <3>6. AnyPart(AddSentence(g[i], s))
      BY <2>2, <3>5, AddSome
    <3> QED
      BY <2>1, <2>2, <2>3, <3>6 DEF AddAt, s, k
  <2>4. CASE k \notin Starts(T)
    <3>1. i >= 1
      BY <1>3, <2>1, <2>4
    <3>2. AnyPart(g[i])
      BY <1>6, <3>1
    <3> QED
      BY <2>1, <2>2, <2>4, <3>2 DEF AddAt, k
  <2> QED
    BY <2>3, <2>4
<1>7. 0 .. n \subseteq I
  <2> HIDE DEF I
  <2> QED
    BY <1>2, <1>5, <1>6, BoundedInduction
<1>8. AnyPart(g[n]) /\ g[n] \in Acc(C)
  BY <1>1, <1>2, <1>7
<1> DEFINE d == g[n].done
           x == g[n].text
<1>9. d \in Seq(Seq(C)) /\ x \in Seq(C) /\ (d # << >> \/ x # << >>) /\ SplitLongText(T) = d \o NonEmpty(x)
  BY <1>1, <1>8 DEF Acc, AnyPart
<1> HIDE DEF d, x
<1>10. CASE x = << >>
  BY <1>9, <1>10 DEF NonEmpty
<1>11. CASE x # << >>
  <2>1. NonEmpty(x) = <<x>>
    BY <1>11 DEF NonEmpty
  <2>2. d \o <<x>> \in Seq(Seq(C)) /\ d \o <<x>> # << >>
    BY <1>9
  <2> QED
    BY <1>9, <2>1, <2>2
<1> QED
  BY <1>10, <1>11

LEMMA AddPageType ==
  ASSUME NEW C, Blank \in C, NEW acc \in Drafts(C), NEW t \in Seq(C), Ink(t) # {}, NEW p \in Nat
  PROVE  AddPage(acc, p, t) \in Drafts(C)
<1> DEFINE fresh == acc.text = << >> \/ Len(acc.text) + Len(t) + 2 > ChunkMax
           prior == IF fresh THEN Emit(acc, acc.text, acc.page) ELSE acc
           page == IF fresh THEN p ELSE acc.page
           s == IF fresh THEN prior.tail ELSE acc.text
           T == Strip(s \o Gap \o t)
           parts == IF Len(T) > ChunkMax THEN SplitLongText(T) ELSE <<T>>
           sent == EmitAll(prior, Front(parts), page)
<1>1. acc.text \in Seq(C) /\ acc.page \in Nat
  BY DEF Drafts
<1>2. AddPage(acc, p, t) = [sent EXCEPT !.text = Last(parts), !.page = page]
  BY DEF AddPage
<1>3. prior \in Drafts(C) /\ page \in Nat
  BY <1>1, EmitType
<1>4. s \in Seq(C)
  <2> HIDE DEF prior
  <2>1. prior.tail \in Seq(C)
    BY <1>3 DEF Drafts
  <2> QED
    BY <1>1, <2>1
<1> HIDE DEF prior, page, s
<1>5. T \in Seq(C) /\ T # << >> /\ Trim(T)
  <2> DEFINE y == s \o Gap \o t
  <2>1. Spliced(C, y, s, Len(Gap), t)
    BY <1>4, SpacedText
  <2> HIDE DEF y
  <2>2. y \in Seq(C) /\ Ink(y) # {}
    BY <2>1 DEF Spliced
  <2>3. Strip(y) \in Seq(C) /\ Ink(Strip(y)) # {} /\ Trim(Strip(y))
    BY <2>2, StripText
  <2>4. Strip(y) # << >>
    BY <2>3, NoInk
  <2> QED
    BY <2>3, <2>4 DEF y
<1> HIDE DEF T
<1>6. parts \in Seq(Seq(C)) /\ parts # << >>
  <2>1. SplitLongText(T) \in Seq(Seq(C)) /\ SplitLongText(T) # << >>
    BY <1>5, SplitSome
  <2>2. <<T>> \in Seq(Seq(C)) /\ <<T>> # << >>
    BY <1>5
  <2> QED
    BY <2>1, <2>2
<1> HIDE DEF parts
<1>7. Last(parts) \in Seq(C)
  BY <1>6 DEF Last
<1>8. Front(parts) \in Seq(Seq(C))
  <2>1. Front(parts) = SubSeq(parts, 1, Len(parts) - 1)
    BY DEF Front
  <2>2. Len(parts) \in Nat /\ Len(parts) >= 1
    BY <1>6
  <2> QED
    BY <1>6, <2>1, <2>2
<1>9. sent \in Drafts(C)
  <2> DEFINE F == Front(parts)
  <2> HIDE DEF F
  <2>1. F \in Seq(Seq(C))
    BY <1>8 DEF F
  <2>2. PICK g : SentSteps(C, prior, F, page, g)
    BY <1>3, <2>1, EmitSteps
  <2>3. Len(F) \in 0 .. Len(F)
    BY <2>1
  <2>4. EmitAll(prior, F, page) \in Drafts(C)
    BY <2>2, <2>3 DEF SentSteps
  <2> QED
    BY <2>4 DEF F
<1> HIDE DEF sent
<1> QED
  BY <1>2, <1>3, <1>7, <1>9 DEF Drafts

-----------------------------------------------------------------------------
(* Documents *)

\* The pages of a document, over the characters C.
Typeset(C, texts) ==
  /\ texts \in Seq(Seq(C)) /\ Blank \in C
  /\ \A p \in 1 .. Len(texts) :
       /\ InOrder(texts[p]) /\ Trim(texts[p]) /\ Spaced(texts[p])
       /\ \A c \in Ink(texts[p]) : c[1] = p /\ c[2] \in Nat

PageStep(texts, acc, p) == IF texts[p] = << >> THEN acc ELSE AddPage(acc, p, texts[p])

NoChunks == [chunks |-> << >>, text |-> << >>, page |-> 0, tail |-> << >>]

DocSteps(C, texts, g) ==
  /\ g \in [0 .. Len(texts) -> Drafts(C)] /\ g[0] = NoChunks
  /\ LET all == g[Len(texts)] IN ChunkPages(texts) = Emit(all, all.text, all.page).chunks
  /\ \A p \in 1 .. Len(texts) : g[p] = PageStep(texts, g[p - 1], p)

LEMMA PagesSteps ==
  ASSUME NEW C, NEW texts, Typeset(C, texts)
  PROVE  \E g : DocSteps(C, texts, g)
<1> DEFINE n == Len(texts)
           V == Drafts(C)
           Step == [q \in (1 .. n) \X V |-> PageStep(texts, q[2], q[1])]
           Fold(f) == f = [t \in SUBSET (1 .. n) |->
                       IF t = {} THEN NoChunks
                       ELSE LET x == Max(t) IN PageStep(texts, f[t \ {x}], [p \in DOMAIN texts |-> p][x])]
<1>1. texts \in Seq(Seq(C)) /\ n \in Nat /\ DOMAIN texts = 1 .. n /\ Blank \in C
  BY DEF Typeset
<1>2. Stepping(n, V, NoChunks, Step)
  <2>1. NoChunks \in V
    BY DEF NoChunks, Drafts
  <2>2. ASSUME NEW p \in 1 .. n, NEW s \in V PROVE PageStep(texts, s, p) \in V
    <3> DEFINE t == texts[p]
    <3>1. t \in Seq(C) /\ Trim(t) /\ p \in Nat
      BY <1>1 DEF Typeset
    <3>2. CASE t = << >>
      BY <3>2 DEF PageStep
    <3>3. CASE t # << >>
      <4>1. PageStep(texts, s, p) = AddPage(s, p, t)
        BY <3>3 DEF PageStep
      <4> HIDE DEF t
      <4>2. Ink(t) # {}
        BY <3>1, <3>3, InkAtEnd
      <4>3. AddPage(s, p, t) \in Drafts(C)
        BY <1>1, <3>1, <4>2, AddPageType
      <4> QED
        BY <4>1, <4>3
    <3> QED
      BY <3>2, <3>3
  <2> HIDE DEF V, n
  <2> QED
    BY <1>1, <2>1, <2>2 DEF Stepping
<1>3. \A p \in 1 .. n, s \in V : Step[<<p, s>>] = PageStep(texts, s, p)
  OBVIOUS
<1> HIDE DEF V
<1>4. \E f : Fold(f)
  <2>1. PICK f : ListFold(f, n, V, NoChunks, Step)
    <3> HIDE DEF n, Step
    <3> QED
      BY <1>2, ListFoldExists
  <2>2. \A t \in SUBSET (1 .. n) : t # {} => f[t] = PageStep(texts, f[t \ {Max(t)}], Max(t)) /\ Max(t) \in 1 .. n
    <3> HIDE DEF Step
    <3> QED
      BY <1>3, <2>1 DEF ListFold
  <2>3. \A t \in SUBSET (1 .. n) : t # {} => f[t] = PageStep(texts, f[t \ {Max(t)}], [p \in DOMAIN texts |-> p][Max(t)])
    BY <1>1, <2>2
  <2>4. Fold(f)
    BY <2>1, <2>3 DEF ListFold
  <2> QED
    BY <2>4
<1>5. PICK f : Fold(f) /\ LET all == f[1 .. n] IN ChunkPages(texts) = Emit(all, all.text, all.page).chunks
  BY <1>1, <1>4 DEF ChunkPages, NoChunks, PageStep, FoldLeft, MapThenFoldSet
<1>6. f[{}] = NoChunks
  BY <1>5
<1>7. ASSUME NEW t \in SUBSET (1 .. n), t # {}, f[t \ {Max(t)}] \in V
      PROVE  f[t] = Step[<<Max(t), f[t \ {Max(t)}]>>]
  <2>1. Max(t) \in 1 .. n
    BY <1>1, <1>7, Extremes
  <2>2. f[t] = PageStep(texts, f[t \ {Max(t)}], [p \in DOMAIN texts |-> p][Max(t)])
    BY <1>5, <1>7
  <2>3. f[t] = PageStep(texts, f[t \ {Max(t)}], Max(t))
    BY <1>1, <2>1, <2>2
  <2> HIDE DEF Step
  <2> QED
    BY <1>3, <1>7, <2>1, <2>3
<1> DEFINE g == [i \in 0 .. n |-> f[1 .. i]]
<1>8. Steps(g, n, V, NoChunks, Step)
  <2> HIDE DEF n, Step
  <2>1. Folded(f, n, V, NoChunks, Step)
    BY <1>6, <1>7 DEF Folded
  <2> QED
    BY <1>2, <2>1, ListFoldSteps
<1>9. LET all == g[n] IN ChunkPages(texts) = Emit(all, all.text, all.page).chunks
  <2>1. n \in 0 .. n
    BY <1>1
  <2> HIDE DEF n, Fold
  <2> QED
    BY <1>5, <2>1
<1> HIDE DEF g
<1>10. \A i \in 1 .. n : g[i] = PageStep(texts, g[i - 1], i)
  <2> TAKE i \in 1 .. n
  <2>1. i - 1 \in 0 .. n
    BY <1>1
  <2>2. g[i - 1] \in V /\ g[i] = Step[<<i, g[i - 1]>>]
    BY <1>8, <2>1 DEF Steps
  <2> QED
    BY <1>3, <2>2
<1> QED
  BY <1>8, <1>9, <1>10 DEF Steps, V, DocSteps

\* The text of the first p pages.
Opening(texts, p) == UNION {Ink(texts[q]) : q \in 1 .. p}

LEMMA DocLined ==
  ASSUME NEW C, NEW texts, Typeset(C, texts)
  PROVE  Lined(Doc(texts)) /\ Doc(texts) = Opening(texts, Len(texts))
<1>1. DOMAIN texts = 1 .. Len(texts) /\ Len(texts) \in Nat
  BY DEF Typeset
<1>2. Doc(texts) = Opening(texts, Len(texts))
  BY <1>1 DEF Doc, Opening
<1>3. ASSUME NEW c \in Doc(texts) PROVE c # Blank /\ c[1] \in Nat /\ c[2] \in Nat
  <2>1. PICK p \in 1 .. Len(texts) : c \in Ink(texts[p])
    BY <1>1 DEF Doc
  <2>2. c[1] = p /\ c[2] \in Nat
    BY <2>1 DEF Typeset
  <2> QED
    BY <2>1, <2>2 DEF Ink
<1>4. ASSUME NEW c \in Doc(texts), NEW d \in Doc(texts), c # d PROVE Precedes(c, d) \/ Precedes(d, c)
  <2>1. PICK p \in 1 .. Len(texts) : c \in Ink(texts[p])
    BY <1>1 DEF Doc
  <2>2. PICK q \in 1 .. Len(texts) : d \in Ink(texts[q])
    BY <1>1 DEF Doc
  <2>3. c[1] = p /\ d[1] = q
    BY <2>1, <2>2 DEF Typeset
  <2>4. CASE p # q
    BY <2>3, <2>4 DEF Precedes
  <2>5. CASE p = q
    <3> DEFINE t == texts[p]
    <3>1. t \in Seq(C) /\ InOrder(t)
      BY DEF Typeset
    <3>2. c \in Ink(t) /\ d \in Ink(t)
      BY <2>1, <2>2, <2>5
    <3> HIDE DEF t
    <3>3. DOMAIN t = 1 .. Len(t) /\ Len(t) \in Nat
      BY <3>1
    <3>4. PICK i \in 1 .. Len(t) : c = t[i] /\ c # Blank
      BY <3>2, <3>3 DEF Ink, Range
    <3>5. PICK j \in 1 .. Len(t) : d = t[j] /\ d # Blank
      BY <3>2, <3>3 DEF Ink, Range
    <3>6. i < j \/ j < i
      BY <1>4, <3>4, <3>5
    <3> QED
      BY <3>1, <3>3, <3>4, <3>5, <3>6 DEF InOrder
  <2> QED
    BY <2>4, <2>5
<1> QED
  BY <1>2, <1>3, <1>4 DEF Lined

LEMMA OpeningDown ==
  ASSUME NEW C, NEW texts, Typeset(C, texts), NEW p \in 0 .. Len(texts)
  PROVE  Down(Opening(texts, p), Doc(texts))
<1>1. DOMAIN texts = 1 .. Len(texts) /\ Len(texts) \in Nat
  BY DEF Typeset
<1>2. Opening(texts, p) \subseteq Doc(texts)
  BY <1>1 DEF Doc, Opening
<1>3. ASSUME NEW c \in Opening(texts, p), NEW d \in Doc(texts) \ Opening(texts, p) PROVE Precedes(c, d)
  <2>1. PICK q \in 1 .. p : c \in Ink(texts[q])
    BY DEF Opening
  <2>2. PICK r \in 1 .. Len(texts) : d \in Ink(texts[r])
    BY <1>1 DEF Doc
  <2>3. r \notin 1 .. p
    BY <1>3, <2>2 DEF Opening
  <2>4. c[1] = q /\ d[1] = r
    BY <1>1, <2>1, <2>2 DEF Typeset
  <2> QED
    BY <1>1, <2>3, <2>4 DEF Precedes
<1> QED
  BY <1>2, <1>3 DEF Down

LEMMA PageFollows ==
  ASSUME NEW C, NEW texts, Typeset(C, texts), NEW p \in 1 .. Len(texts), texts[p] # << >>
  PROVE  Follows(C, Doc(texts), Opening(texts, p - 1), p, texts[p])
<1> DEFINE t == texts[p]
           P == Opening(texts, p - 1)
<1>1. Len(texts) \in Nat /\ p \in Nat /\ p - 1 \in Nat /\ p \in 0 .. Len(texts)
  BY DEF Typeset
<1>2. t \in Seq(C) /\ t # << >> /\ InOrder(t) /\ Trim(t) /\ Spaced(t) /\ \A c \in Ink(t) : c[1] = p
  BY DEF Typeset
<1>3. Opening(texts, p) = P \cup Ink(t)
  <2>1. 1 .. p = (1 .. p - 1) \cup {p}
    BY <1>1
  <2> QED
    BY <2>1 DEF Opening
<1>4. Down(P \cup Ink(t), Doc(texts))
  BY <1>1, <1>3, OpeningDown
<1>5. Ink(t) \cap P = {}
  <2> SUFFICES ASSUME NEW c \in Ink(t), c \in P PROVE FALSE
    OBVIOUS
  <2>1. PICK q \in 1 .. p - 1 : c \in Ink(texts[q])
    BY DEF Opening
  <2>2. q \in 1 .. Len(texts) /\ q # p
    BY <1>1
  <2>3. c[1] = q
    BY <2>1, <2>2 DEF Typeset
  <2> QED
    BY <1>2, <2>2, <2>3
<1> HIDE DEF t, P
<1>6. Follows(C, Doc(texts), P, p, t)
  BY <1>1, <1>2, <1>4, <1>5 DEF Follows
<1> QED
  BY <1>6 DEF t, P

\* Chunks of a document hold all of it, each as it should.
LEMMA ChunkPagesSound ==
  ASSUME NEW C, NEW texts, Typeset(C, texts)
  PROVE  ChunksSound(texts, ChunkPages(texts))
<1> DEFINE n == Len(texts)
           D == Doc(texts)
<1>1. PICK g : DocSteps(C, texts, g)
  BY PagesSteps
<1>2. n \in Nat /\ Blank \in C
  BY DEF Typeset
<1>3. /\ g[0] = NoChunks
      /\ \A p \in 0 .. n : g[p] \in Drafts(C)
      /\ \A p \in 1 .. n : g[p] = PageStep(texts, g[p - 1], p)
  BY <1>1 DEF DocSteps
<1>4. Lined(D) /\ D = Opening(texts, n)
  BY DocLined
<1>5. \A p \in 1 .. n : texts[p] # << >> => Follows(C, D, Opening(texts, p - 1), p, texts[p])
  BY PageFollows
<1>6. \A p \in 1 .. n : Opening(texts, p) = Opening(texts, p - 1) \cup Ink(texts[p])
  <2> TAKE p \in 1 .. n
  <2>1. 1 .. p = (1 .. p - 1) \cup {p}
    BY <1>2
  <2> QED
    BY <2>1 DEF Opening
<1> HIDE DEF n, D
<1> DEFINE I == {p \in 0 .. n : Begun(C, D, g[p], Opening(texts, p))}
<1>7. 0 \in I
  <2>1. Opening(texts, 0) = {}
    BY DEF Opening
  <2>2. 0 \in 0 .. n
    BY <1>2
  <2>3. Begun(C, D, g[0], {})
    BY <1>3, <2>2 DEF Begun, NoChunks
  <2> QED
    BY <2>1, <2>2, <2>3
<1>8. ASSUME NEW i \in 0 .. n - 1, i \in I PROVE i + 1 \in I
  <2> DEFINE p == i + 1
             t == texts[p]
             P == Opening(texts, i)
  <2>1. p \in 1 .. n /\ p \in 0 .. n /\ p - 1 = i
    BY <1>2
  <2>2. g[p] = PageStep(texts, g[i], p) /\ Begun(C, D, g[i], P) /\ Opening(texts, p) = P \cup Ink(t)
    BY <1>3, <1>6, <1>8, <2>1
  <2>3. t # << >> => Follows(C, D, P, p, t)
    BY <1>5, <2>1
  <2> HIDE DEF p, P
  <2>4. CASE t = << >>
    <3>1. Ink(t) = {}
      BY <2>4, NothingHeld
    <3>2. g[p] = g[i] /\ Opening(texts, p) = P
      BY <2>2, <2>4, <3>1 DEF PageStep
    <3> QED
      BY <2>1, <2>2, <3>2 DEF p
  <2>5. CASE t # << >>
    <3>1. g[p] = AddPage(g[i], p, t)
      BY <2>2, <2>5 DEF PageStep
    <3> HIDE DEF t
    <3>2. Begun(C, D, AddPage(g[i], p, t), P \cup Ink(t))
      BY <1>2, <1>4, <2>2, <2>3, <2>5, AddPageSound
    <3> QED
      BY <2>1, <2>2, <3>1, <3>2 DEF p
  <2> QED
    BY <2>4, <2>5
<1>9. 0 .. n \subseteq I
  <2> HIDE DEF I
  <2> QED
    BY <1>2, <1>7, <1>8, BoundedInduction
<1> DEFINE all == g[n]
           chunks == Emit(all, all.text, all.page).chunks
<1>10. Begun(C, D, all, D)
  BY <1>2, <1>4, <1>9
<1>11. ChunkPages(texts) = chunks
  BY <1>1 DEF DocSteps, n
<1> HIDE DEF all
<1>12. Ready(C, D, Emit(all, all.text, all.page), D)
  BY <1>4, <1>10, ReadyAtPage
<1>13. All(chunks) = D /\ \A k \in 1 .. Len(chunks) : ChunkSound(chunks[k], Carried(chunks, k - 1), D)
  BY <1>12 DEF Ready, Sent
<1>14. DOMAIN chunks = 1 .. Len(chunks)
  <2> DEFINE new == Emit(all, all.text, all.page)
  <2>1. new \in Drafts(C)
    BY <1>12 DEF Ready, Sent
  <2> HIDE DEF new
  <2>2. new.chunks \in Seq(Chunk(C))
    BY <2>1 DEF Drafts
  <2>3. DOMAIN new.chunks = 1 .. Len(new.chunks)
    BY <2>2
  <2> QED
    BY <2>3 DEF new
<1> HIDE DEF chunks
<1>15. ChunksSound(texts, chunks)
  BY <1>13, <1>14 DEF ChunksSound, All, D
<1> QED
  BY <1>11, <1>15

-----------------------------------------------------------------------------
(* The computations as a specification *)

\* The pages that occur are a document over its own characters.
LEMMA PagesTypeset ==
  ASSUME NEW texts, Pages(texts)
  PROVE  Typeset(Doc(texts) \cup {Blank}, texts)
<1> DEFINE C == Doc(texts) \cup {Blank}
<1>1. texts \in Seq(Range(texts)) /\ \A p \in DOMAIN texts : Page(p, texts[p])
  BY DEF Pages
<1>2. DOMAIN texts = 1 .. Len(texts) /\ Len(texts) \in Nat
  BY <1>1
<1>3. ASSUME NEW p \in 1 .. Len(texts)
      PROVE  /\ texts[p] \in Seq(C) /\ InOrder(texts[p]) /\ Trim(texts[p]) /\ Spaced(texts[p])
             /\ \A c \in Ink(texts[p]) : c[1] = p /\ c[2] \in Nat
  <2> DEFINE t == texts[p]
  <2>1. Page(p, t)
    BY <1>1, <1>2
  <2>2. Ink(t) \subseteq C
    BY <1>2 DEF Doc
  <2> HIDE DEF t, C
  <2>3. t \in Seq(Range(t)) /\ InOrder(t) /\ Trim(t) /\ Airy(t)
    BY <2>1 DEF Page
  <2>4. DOMAIN t = 1 .. Len(t) /\ Len(t) \in Nat
    BY <2>3
  <2>5. \A i \in 1 .. Len(t) : t[i] \in C
    BY <2>2, <2>4 DEF Ink, Range, C
  <2>6. t \in Seq(C)
    <3>1. t = [i \in 1 .. Len(t) |-> t[i]]
      BY <2>3
    <3> QED
      BY <2>4, <2>5, <3>1
  <2>7. \A c \in Ink(t) : c[1] = p /\ c[2] \in Nat
    BY <2>1 DEF Page, Ink, Range
  <2>8. Spaced(t)
    BY <2>3, <2>4, ChunkerAssumption DEF Airy, Spaced
  <2> QED
    BY <2>3, <2>6, <2>7, <2>8 DEF t
<1>4. texts \in Seq(Seq(C)) /\ Blank \in C
  <2>1. texts = [p \in 1 .. Len(texts) |-> texts[p]]
    BY <1>1
  <2> HIDE DEF C
  <2>2. texts \in Seq(Seq(C))
    BY <1>2, <1>3, <2>1
  <2> QED
    BY <2>2 DEF C
<1> HIDE DEF C
<1>5. Typeset(C, texts)
  BY <1>3, <1>4 DEF Typeset
<1> QED
  BY <1>5 DEF C

\* A result is one that the computation of its task comes to.
AlgorithmsInv ==
  /\ task \in Tasks
  /\ Computed("chunk")    => result = <<ChunkPages(task.texts)>>
  /\ Computed("retrieve") => \E r \in Retrieve(task.corpus, task.gate, task.text) : result = <<r>>
  /\ Computed("compose")  => \E r \in Tests(task.sections, task.n) : result = <<r>>
  /\ Computed("grade")    => result = <<Shown(task.questions, task.answers, task.results)>>
  /\ Computed("facets")   => result = <<Facets(task.attempts)>>
  /\ Computed("parse")    => result = <<ParseProgram(task.lines)>>
  /\ Computed("evaluate") => result = <<Summary(Evaluated(task))>>

LEMMA InitAlgorithmsInv == AlgorithmsInit => AlgorithmsInv
BY DEF AlgorithmsInit, AlgorithmsInv, Computed

LEMMA AlgorithmsInvStep == AlgorithmsInv /\ [AlgorithmsNext]_algorithmsVars => AlgorithmsInv'
<1> SUFFICES ASSUME AlgorithmsInv, [AlgorithmsNext]_algorithmsVars PROVE AlgorithmsInv'
  OBVIOUS
<1>1. CASE ComputeChunks
  BY <1>1 DEF ComputeChunks, Compute, AlgorithmsInv, Computed
<1>2. CASE ComputeHits
  BY <1>2 DEF ComputeHits, Compute, AlgorithmsInv, Computed
<1>3. CASE ComputeTest
  BY <1>3 DEF ComputeTest, Compute, AlgorithmsInv, Computed
<1>4. CASE ComputeGrades
  BY <1>4 DEF ComputeGrades, Compute, AlgorithmsInv, Computed
<1>5. CASE ComputeFacets
  BY <1>5 DEF ComputeFacets, Compute, AlgorithmsInv, Computed
<1>6. CASE ComputeProgram
  BY <1>6 DEF ComputeProgram, Compute, AlgorithmsInv, Computed
<1>7. CASE ComputeMetrics
  BY <1>7 DEF ComputeMetrics, Compute, AlgorithmsInv, Computed, Evaluated
<1>8. CASE UNCHANGED algorithmsVars
  BY <1>8 DEF algorithmsVars, AlgorithmsInv, Computed, Evaluated
<1> QED
  BY <1>1, <1>2, <1>3, <1>4, <1>5, <1>6, <1>7, <1>8 DEF AlgorithmsNext

\* In every behaviour a result is one of the computation of its task.
THEOREM AlgorithmsInvariance == AlgorithmsSpec => []AlgorithmsInv
<1>1. AlgorithmsInit => AlgorithmsInv
  BY InitAlgorithmsInv
<1>2. AlgorithmsInv /\ [AlgorithmsNext]_algorithmsVars => AlgorithmsInv'
  BY AlgorithmsInvStep
<1> QED
  BY <1>1, <1>2, PTL DEF AlgorithmsSpec

\* retrieve() over a corpus of any size and for any thresholds: candidates are
\* active, distinct and at most top_k, the verdict of enough evidence is about
\* the candidates that are handed on, and removing neighbours loses no other; the
\* prompt passes over one of them only for what is more similar or has words of
\* the question, and begins with the matches that stand in for similarity.
THEOREM RetrievalIsSound == AlgorithmsSpec => []RetrievalSound
<1>1. AlgorithmsInv => RetrievalSound
  <2> SUFFICES ASSUME AlgorithmsInv, Computed("retrieve")
               PROVE  ResultSound(task.corpus, task.gate, task.text, result[1])
    BY DEF RetrievalSound
  <2>1. PICK r \in Retrieve(task.corpus, task.gate, task.text) : result = <<r>>
    BY DEF AlgorithmsInv
  <2>2. Corpus(task.corpus) /\ Gate(task.gate)
    BY TasksAssumption DEF AlgorithmsInv, Computed
  <2>3. ResultSound(task.corpus, task.gate, task.text, r)
    BY <2>2, RetrieveSound
  <2>4. result[1] = r
    BY <2>1
  <2> QED
    BY <2>3, <2>4
<1> QED
  BY <1>1, AlgorithmsInvariance, PTL

\* Tests of any length over any program are balanced, a graded choice is shown
\* as it was answered, and the filters of a history of any length add up.
THEOREM QuizIsSound == AlgorithmsSpec => []QuizSound
<1>1. ASSUME AlgorithmsInv, Computed("compose") PROVE TestSound(task.sections, task.n, result[1])
  <2>1. PICK r \in Tests(task.sections, task.n) : result = <<r>>
    BY <1>1 DEF AlgorithmsInv
  <2>2. Composed(task.sections, task.n)
    BY <1>1, TasksAssumption DEF AlgorithmsInv, Computed
  <2>3. TestSound(task.sections, task.n, r)
    BY <2>2, TestsSound DEF Composed
  <2>4. result[1] = r
    BY <2>1
  <2> QED
    BY <2>3, <2>4
<1>2. ASSUME AlgorithmsInv, Computed("grade")
      PROVE  GradeSound(task.questions, task.answers, task.results, result[1])
  <2>1. result = <<Shown(task.questions, task.answers, task.results)>>
    BY <1>2 DEF AlgorithmsInv
  <2>2. Graded(task.questions, task.answers, task.results)
    BY <1>2, TasksAssumption DEF AlgorithmsInv, Computed
  <2>3. GradeSound(task.questions, task.answers, task.results, Shown(task.questions, task.answers, task.results))
    BY <2>2, ShownSound
  <2>4. result[1] = Shown(task.questions, task.answers, task.results)
    BY <2>1
  <2> QED
    BY <2>3, <2>4
<1>3. ASSUME AlgorithmsInv, Computed("facets") PROVE FacetsSound(task.attempts, result[1])
  <2>1. result = <<Facets(task.attempts)>>
    BY <1>3 DEF AlgorithmsInv
  <2>2. History(task.attempts)
    BY <1>3, TasksAssumption DEF AlgorithmsInv, Computed
  <2>3. FacetsSound(task.attempts, Facets(task.attempts))
    BY <2>2, FacetsAreSound
  <2>4. result[1] = Facets(task.attempts)
    BY <2>1
  <2> QED
    BY <2>3, <2>4
<1>4. AlgorithmsInv => QuizSound
  BY <1>1, <1>2, <1>3 DEF QuizSound
<1> QED
  BY <1>4, AlgorithmsInvariance, PTL

\* A text of any length is accepted exactly if it is a program, and the topics
\* that are stored are those that its lines describe.
THEOREM ProgramIsSound == AlgorithmsSpec => []ProgramSound
<1>1. ASSUME AlgorithmsInv, Computed("parse") PROVE ParseSound(task.lines, result[1])
  <2>1. result = <<ParseProgram(task.lines)>>
    BY <1>1 DEF AlgorithmsInv
  <2>2. Text(task.lines)
    BY <1>1, TasksAssumption DEF AlgorithmsInv, Computed
  <2>3. ParseSound(task.lines, ParseProgram(task.lines))
    BY <2>2, ProgramsSound
  <2>4. result[1] = ParseProgram(task.lines)
    BY <2>1
  <2> QED
    BY <2>3, <2>4
<1>2. AlgorithmsInv => ProgramSound
  BY <1>1 DEF ProgramSound
<1> QED
  BY <1>2, AlgorithmsInvariance, PTL

\* For a golden set of any size and whatever the calls come to, a blank reply and
\* a redirection too, the numbers of the scripts add up to the lines of the run
\* and differ by the lines that can be named; the median lies among the times and
\* kappa between -1 and 1.
THEOREM MetricsIsSound == AlgorithmsSpec => []MetricsSound
<1>1. ASSUME AlgorithmsInv, Computed("evaluate") PROVE SummarySound(Evaluated(task), result[1])
  <2>1. result = <<Summary(Evaluated(task))>>
    BY <1>1 DEF AlgorithmsInv
  <2>2. Evaluation(task.entries, task.outcomes, task.times)
    BY <1>1, TasksAssumption DEF AlgorithmsInv, Computed
  <2>3. SummarySound(Evaluated(task), Summary(Evaluated(task)))
    BY <2>2, SummaryIsSound DEF Evaluated
  <2>4. result[1] = Summary(Evaluated(task))
    BY <2>1
  <2> QED
    BY <2>3, <2>4
<1>2. AlgorithmsInv => MetricsSound
  BY <1>1 DEF MetricsSound
<1> QED
  BY <1>2, AlgorithmsInvariance, PTL

\* A document of any length that normalize leaves is in its chunks whole and in
\* order; no chunk is too long or repeats more than the tail, and each bears the
\* page of the first character that no earlier chunk holds.
THEOREM ChunkingIsSound == AlgorithmsSpec => []ChunkingSound
<1>1. ASSUME AlgorithmsInv, Computed("chunk") PROVE ChunksSound(task.texts, result[1])
  <2>1. result = <<ChunkPages(task.texts)>>
    BY <1>1 DEF AlgorithmsInv
  <2>2. Pages(task.texts)
    BY <1>1, TasksAssumption DEF AlgorithmsInv, Computed
  <2>3. ChunksSound(task.texts, ChunkPages(task.texts))
    BY <2>2, PagesTypeset, ChunkPagesSound
  <2>4. result[1] = ChunkPages(task.texts)
    BY <2>1
  <2> QED
    BY <2>3, <2>4
<1>2. AlgorithmsInv => ChunkingSound
  BY <1>1 DEF ChunkingSound
<1> QED
  BY <1>2, AlgorithmsInvariance, PTL

=============================================================================
