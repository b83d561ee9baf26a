---------------------------- MODULE Reads_proofs ----------------------------
(***************************************************************************)
(* Theorems of Reads, for every value of its constants: session trees and  *)
(* causation graphs agree with their definitions (TreesAreComplete), pages *)
(* are exact (WalksAreExact), audit bundles and compliance reports say     *)
(* nothing wrong (BundlesAreTruthful), the counts of custom queries add up *)
(* (QueriesAddUp), the reports of a window agree (ReportsAgree), and the   *)
(* counts of getMetrics fit (MetricsFit).  First come the lemmas: numbers  *)
(* and finite sets, sums, sorting, the trees of session rows, the store,   *)
(* walks over pages, the requests that assemble a bundle, query results,   *)
(* the figures of the reports, and the reading of the counts.              *)
(***************************************************************************)
EXTENDS Reads, FiniteSetTheorems, WellFoundedInduction, TLAPS

(* Every nonempty set of naturals has a least element. *)
LEMMA LeastNat ==
    ASSUME NEW T \in SUBSET Nat, T # {}
    PROVE  \E m \in T : \A x \in T : m <= x
<1> DEFINE R == OpToRel(<, Nat)
<1>1. IsWellFoundedOn(R, Nat)
    BY NatLessThanWellFounded
<1>2. PICK m \in T : \A x \in T : ~(<<x, m>> \in R)
    <2> HIDE DEF R
    <2> QED BY <1>1, WFMin
<1>3. ASSUME NEW x \in T
      PROVE  m <= x
    <2>1. x \in Nat /\ m \in Nat
        OBVIOUS
    <2>2. ~(x < m)
        BY <1>2, <2>1 DEF OpToRel
    <2> QED
        BY <2>1, <2>2
<1> QED
    BY <1>3

(* Induction over the naturals, for a set in place of a predicate. *)
LEMMA NatInduct ==
    ASSUME NEW X, 0 \in X, \A n \in Nat : n \in X => n + 1 \in X
    PROVE  \A n \in Nat : n \in X
<1> DEFINE T == Nat \ X
<1>1. SUFFICES ASSUME T # {} PROVE FALSE
    OBVIOUS
<1>2. T \in SUBSET Nat /\ T # {}
    BY <1>1
<1>3. PICK m \in T : \A y \in T : m <= y
    <2> HIDE DEF T
    <2> QED BY <1>2, LeastNat
<1>4. m \in Nat /\ m # 0 /\ m - 1 \in Nat
    OBVIOUS
<1>5. m - 1 \notin T
    BY <1>3, <1>4
<1> QED
    BY <1>4, <1>5

(* Induction over the subsets of a finite set. *)
LEMMA FiniteInduct ==
    ASSUME NEW S, IsFiniteSet(S), NEW F, {} \in F,
           \A T \in SUBSET S : \A x \in S : T \in F /\ x \notin T => T \cup {x} \in F
    PROVE  S \in F
<1> DEFINE X == {n \in Nat : \A T \in SUBSET S : Cardinality(T) = n => T \in F}
<1>1. \A T \in SUBSET S : IsFiniteSet(T) /\ Cardinality(T) \in Nat
    BY FS_Subset, FS_CardinalityType
<1>2. 0 \in X
    BY <1>1, FS_EmptySet
<1>3. ASSUME NEW n \in Nat, n \in X
      PROVE  n + 1 \in X
    <2> SUFFICES ASSUME NEW T \in SUBSET S, Cardinality(T) = n + 1
                 PROVE  T \in F
        OBVIOUS
    <2>0. T \in SUBSET S /\ IsFiniteSet(T)
        BY <1>1
    <2>1. T # {}
        <3>1. n + 1 # 0 /\ Cardinality({}) = 0
            BY FS_EmptySet
        <3> QED BY <3>1
    <2>2. PICK x \in T : TRUE
        BY <2>1
    <2> DEFINE U == T \ {x}
    <2>3. Cardinality(U) = n
        <3>1. Cardinality(T \ {x}) = Cardinality(T) - 1
            BY <2>0, FS_RemoveElement
        <3> QED BY <3>1
    <2>4. U \in F
        BY <1>3, <2>3
    <2>5. T = U \cup {x} /\ x \notin U
        OBVIOUS
    <2> QED
        BY <2>4, <2>5
<1>4. \A n \in Nat : n \in X
    <2> HIDE DEF X
    <2> QED BY <1>2, <1>3, NatInduct
<1> QED
    BY <1>1, <1>4

(* f is defined by recursion on 0..N: it is b at 0, then g of what it was. *)
IsRecursive(f, N, V, b, g) ==
    /\ f \in [0..N -> V]
    /\ f[0] = b
    /\ \A n \in 1..N : f[n] = g[f[n - 1]]

(* A function defined by recursion on 0..N exists. *)
LEMMA RecursionExists ==
    ASSUME NEW N \in Nat, NEW V, NEW b \in V, NEW g \in [V -> V]
    PROVE  \E f : IsRecursive(f, N, V, b, g)
<1> DEFINE IsRec(f, n) == f[0] = b /\ \A k \in 1..n : f[k] = g[f[k - 1]]
           X == {n \in Nat : \E f \in [0..n -> V] : IsRec(f, n)}
<1>1. 0 \in X
    <2> DEFINE f == [k \in 0..0 |-> b]
    <2>1. f \in [0..0 -> V] /\ IsRec(f, 0)
        OBVIOUS
    <2> QED BY <2>1
<1>2. ASSUME NEW n \in Nat, n \in X
      PROVE  n + 1 \in X
    <2>1. PICK f \in [0..n -> V] : IsRec(f, n)
        BY <1>2
    <2> DEFINE h == [k \in 0..(n + 1) |-> IF k = n + 1 THEN g[f[n]] ELSE f[k]]
    <2>2. h \in [0..(n + 1) -> V]
        OBVIOUS
    <2>3. ASSUME NEW k \in 1..(n + 1)
          PROVE  h[k] = g[h[k - 1]]
        BY <2>1
    <2>4. h[0] = b
        BY <2>1
    <2>5. IsRec(h, n + 1)
        <3> HIDE DEF h
        <3> QED BY <2>3, <2>4
    <2> HIDE DEF h, IsRec
    <2> QED BY <2>2, <2>5
<1>3. N \in X
    <2> HIDE DEF X
    <2> QED BY <1>1, <1>2, NatInduct
<1> QED
    BY <1>3 DEF IsRecursive

(* A finite set has a member with the least key. *)
LEMMA LeastIsMember ==
    ASSUME NEW S, IsFiniteSet(S), S # {}, NEW key, \A x \in S : key[x] \in Int
    PROVE  Least(S, key) \in S /\ \A y \in S : key[Least(S, key)] <= key[y]
<1> DEFINE F == {T \in SUBSET S : T # {} => \E x \in T : \A y \in T : key[x] <= key[y]}
<1>1. {} \in F
    OBVIOUS
<1>2. ASSUME NEW T \in SUBSET S, NEW x \in S, T \in F, x \notin T
      PROVE  T \cup {x} \in F
    <2>1. CASE T = {}
        BY <2>1
    <2>2. CASE T # {}
        <3>1. PICK m \in T : \A y \in T : key[m] <= key[y]
            BY <1>2, <2>2
        <3>2. key[m] \in Int /\ key[x] \in Int /\ \A y \in T : key[y] \in Int
            OBVIOUS
        <3>3. CASE key[x] <= key[m]
            <4>1. \A y \in T \cup {x} : key[x] <= key[y]
                BY <3>1, <3>2, <3>3
            <4> QED BY <4>1
        <3>4. CASE ~(key[x] <= key[m])
            <4>1. \A y \in T \cup {x} : key[m] <= key[y]
                BY <3>1, <3>2, <3>4
            <4> QED BY <4>1
        <3> QED BY <3>3, <3>4
    <2> QED BY <2>1, <2>2
<1>3. S \in F
    <2> HIDE DEF F
    <2> QED BY <1>1, <1>2, FiniteInduct
<1> QED
    BY <1>3 DEF Least

(* Max and Min of a finite set of integers. *)
LEMMA MaxOfInts ==
    ASSUME NEW S \in SUBSET Int, IsFiniteSet(S), S # {}
    PROVE  Max(S) \in S /\ \A y \in S : y <= Max(S)
<1> DEFINE key == [x \in S |-> -x]
<1>1. \A x \in S : key[x] \in Int
    OBVIOUS
<1>2. PICK m \in S : \A y \in S : key[m] <= key[y]
    <2> HIDE DEF key
    <2> QED BY <1>1, LeastIsMember
<1>3. \A y \in S : m >= y
    BY <1>2
<1> QED
    BY <1>3 DEF Max

(* The least of a finite set of integers is one of them. *)
LEMMA MinOfInts ==
    ASSUME NEW S \in SUBSET Int, IsFiniteSet(S), S # {}
    PROVE  Min(S) \in S /\ \A y \in S : Min(S) <= y
<1> DEFINE key == [x \in S |-> x]
<1>1. \A x \in S : key[x] \in Int
    OBVIOUS
<1>2. PICK m \in S : \A y \in S : key[m] <= key[y]
    <2> HIDE DEF key
    <2> QED BY <1>1, LeastIsMember
<1>3. \A y \in S : m <= y
    BY <1>2
<1> QED
    BY <1>3 DEF Min

(* A finite set has finitely many images. *)
LEMMA ImageIsFinite ==
    ASSUME NEW S, IsFiniteSet(S), NEW f
    PROVE  IsFiniteSet({f[x] : x \in S})
<1> DEFINE g == [x \in S |-> f[x]]
<1>1. g \in Surjection(S, {f[x] : x \in S})
    BY DEF Surjection
<1> QED
    BY <1>1, FS_Surjection

-----------------------------------------------------------------------------
(* Sums *)

(* The sums that SumFunction adds up, one term at a time: there is a function *)
(* of the subsets of S that satisfies its recursive definition.               *)
OneOf(T) == CHOOSE x \in T : TRUE

AreSums(S, f, h) ==
    h = [T \in SUBSET S |-> IF T = {} THEN 0 ELSE f[OneOf(T)] + h[T \ {OneOf(T)}]]

(* The sums over the subsets of a finite set, by removing a member at a     *)
(* time.                                                                    *)
LEMMA SumsExist ==
    ASSUME NEW S, IsFiniteSet(S), NEW f, \A x \in S : f[x] \in Int
    PROVE  \E h : AreSums(S, f, h)
<1> DEFINE Small(n) == {T \in SUBSET S : Cardinality(T) <= n}
           Term(h, T) == IF T = {} THEN 0 ELSE f[OneOf(T)] + h[T \ {OneOf(T)}]
           Is(h, n) == h \in [Small(n) -> Int] /\ \A T \in Small(n) : h[T] = Term(h, T)
           X == {n \in Nat : \E h : Is(h, n)}
<1>1. \A T \in SUBSET S : IsFiniteSet(T) /\ Cardinality(T) \in Nat
    BY FS_Subset, FS_CardinalityType
<1>2. \A T \in SUBSET S : T # {} =>
          /\ OneOf(T) \in T /\ OneOf(T) \in S /\ T \ {OneOf(T)} \in SUBSET S
          /\ Cardinality(T \ {OneOf(T)}) = Cardinality(T) - 1
    <2> SUFFICES ASSUME NEW T \in SUBSET S, T # {}
                 PROVE  /\ OneOf(T) \in T
                        /\ Cardinality(T \ {OneOf(T)}) = Cardinality(T) - 1
        OBVIOUS
    <2>1. OneOf(T) \in T
        BY DEF OneOf
    <2> QED BY <1>1, <2>1, FS_RemoveElement
<1>3. Cardinality({}) = 0
    BY FS_EmptySet
<1>4. 0 \in X
    <2> DEFINE h == [T \in Small(0) |-> 0]
    <2>1. ASSUME NEW T \in Small(0)
          PROVE  T = {}
        <3>1. Cardinality(T) = 0 /\ IsFiniteSet(T)
            BY <1>1
        <3> QED BY <3>1, FS_EmptySet
    <2>2. h \in [Small(0) -> Int] /\ \A T \in Small(0) : h[T] = Term(h, T)
        <3> HIDE DEF Small
        <3> QED BY <2>1
    <2> HIDE DEF h, Term, Small
    <2> QED BY <2>2
<1>5. ASSUME NEW n \in Nat, n \in X
      PROVE  n + 1 \in X
    <2>1. PICK g : Is(g, n)
        BY <1>5
    <2> DEFINE h == [T \in Small(n + 1) |-> Term(g, T)]
    <2>2. ASSUME NEW T \in Small(n + 1), T # {}
          PROVE  T \ {OneOf(T)} \in Small(n) /\ f[OneOf(T)] \in Int
        BY <1>1, <1>2, <2>2
    <2>3. h \in [Small(n + 1) -> Int]
        <3>1. ASSUME NEW T \in Small(n + 1)
              PROVE  Term(g, T) \in Int
            <4>1. CASE T = {}
                BY <4>1
            <4>2. CASE T # {}
                <5>1. g[T \ {OneOf(T)}] \in Int
                    <6> HIDE DEF Small, Term
                    <6> QED BY <2>1, <2>2, <4>2
                <5> QED BY <2>2, <4>2, <5>1
            <4> QED BY <4>1, <4>2
        <3> HIDE DEF Term, Small
        <3> QED BY <3>1
    <2>4. \A T \in Small(n) : T \in Small(n + 1) /\ h[T] = g[T]
        <3>1. \A T \in Small(n) : T \in Small(n + 1)
            BY <1>1
        <3>2. \A T \in Small(n + 1) : h[T] = Term(g, T)
            <4> HIDE DEF Term, Small
            <4> QED OBVIOUS
        <3> HIDE DEF Term, Small, h
        <3> QED BY <2>1, <3>1, <3>2
    <2>5. ASSUME NEW T \in Small(n + 1)
          PROVE  h[T] = Term(h, T)
        <3>1. h[T] = Term(g, T)
            <4> HIDE DEF Term, Small
            <4> QED OBVIOUS
        <3>2. CASE T = {}
            BY <3>1, <3>2
        <3>3. CASE T # {}
            <4>1. h[T \ {OneOf(T)}] = g[T \ {OneOf(T)}]
                <5> HIDE DEF h, Small
                <5> QED BY <2>2, <2>4, <3>3
            <4> HIDE DEF h
            <4> QED BY <3>1, <3>3, <4>1
        <3> HIDE DEF h, Term
        <3> QED BY <3>2, <3>3
    <2>6. Is(h, n + 1)
        <3> HIDE DEF h, Term, Small
        <3> QED BY <2>3, <2>5
    <2> HIDE DEF h, Is
    <2> QED BY <2>6
<1>6. Cardinality(S) \in X
    <2>1. Cardinality(S) \in Nat
        BY <1>1
    <2> HIDE DEF X
    <2> QED BY <1>4, <1>5, <2>1, NatInduct
<1>7. Small(Cardinality(S)) = SUBSET S
    BY FS_Subset
<1>8. PICK h : Is(h, Cardinality(S))
    BY <1>6
<1>9. h \in [SUBSET S -> Int] /\ \A T \in SUBSET S : h[T] = Term(h, T)
    <2> HIDE DEF Term, Small
    <2> QED BY <1>7, <1>8
<1>10. h = [T \in SUBSET S |-> Term(h, T)]
    <2> HIDE DEF Term
    <2> QED BY <1>9
<1>11. AreSums(S, f, h)
    BY <1>10 DEF AreSums
<1> HIDE DEF Term, Small
<1> QED
    BY <1>11

(* A sum gains f[x] with x. *)
AddsEach(S, f, h) ==
    /\ h \in [SUBSET S -> Int]
    /\ h[{}] = 0
    /\ \A T \in SUBSET S : \A x \in S : x \notin T => h[T \cup {x}] = h[T] + f[x]

(* They do not depend on which member is removed. *)
LEMMA SumOfSets ==
    ASSUME NEW S, IsFiniteSet(S), NEW f, \A x \in S : f[x] \in Int
    PROVE  \E h : SumFunctionOnSet(f, S) = h[S] /\ AddsEach(S, f, h)
<1> DEFINE h == CHOOSE r : AreSums(S, f, r)
<1>1. AreSums(S, f, h)
    BY SumsExist
<1>2. SumFunctionOnSet(f, S) = h[S]
    BY DEF SumFunctionOnSet, FoldFunctionOnSet, MapThenFoldSet, OneOf, AreSums
<1> HIDE DEF h
<1>3. \A T \in SUBSET S : IsFiniteSet(T) /\ Cardinality(T) \in Nat
    BY FS_Subset, FS_CardinalityType
<1>4. ASSUME NEW T \in SUBSET S, T # {}
      PROVE  /\ OneOf(T) \in T /\ T \ {OneOf(T)} \in SUBSET S
             /\ Cardinality(T \ {OneOf(T)}) = Cardinality(T) - 1
             /\ h[T] = f[OneOf(T)] + h[T \ {OneOf(T)}]
    <2>1. OneOf(T) \in T
        BY <1>4 DEF OneOf
    <2>2. Cardinality(T \ {OneOf(T)}) = Cardinality(T) - 1
        BY <1>3, <2>1, FS_RemoveElement
    <2> QED BY <1>1, <1>4, <2>1, <2>2 DEF AreSums
<1>5. h[{}] = 0 /\ DOMAIN h = SUBSET S /\ Cardinality({}) = 0
    BY <1>1, FS_EmptySet DEF AreSums
<1>6. \A T \in SUBSET S : h[T] \in Int
    <2> DEFINE X == {n \in Nat : \A T \in SUBSET S : Cardinality(T) = n => h[T] \in Int}
    <2>1. 0 \in X
        <3>1. \A T \in SUBSET S : Cardinality(T) = 0 => T = {}
            BY <1>3, FS_EmptySet
        <3>2. h[{}] \in Int
            BY <1>5
        <3> QED BY <3>1, <3>2
    <2>2. ASSUME NEW n \in Nat, n \in X
          PROVE  n + 1 \in X
        <3> SUFFICES ASSUME NEW T \in SUBSET S, Cardinality(T) = n + 1
                     PROVE  h[T] \in Int
            OBVIOUS
        <3>1. T # {}
            <4>1. n + 1 # 0
                OBVIOUS
            <4> QED BY <1>5, <4>1
        <3>2. Cardinality(T \ {OneOf(T)}) = n
            BY <1>4, <3>1
        <3>3. h[T \ {OneOf(T)}] \in Int /\ f[OneOf(T)] \in Int
            BY <1>4, <2>2, <3>1, <3>2
        <3> QED BY <1>4, <3>1, <3>3
    <2>3. \A n \in Nat : n \in X
        <3> HIDE DEF X
        <3> QED BY <2>1, <2>2, NatInduct
    <2> QED BY <1>3, <2>3
<1> DEFINE Adds(T) == \A x \in S : x \notin T => h[T \cup {x}] = h[T] + f[x]
           Y == {n \in Nat : \A T \in SUBSET S : Cardinality(T) = n => Adds(T)}
<1>7. 0 \in Y
    <2> SUFFICES ASSUME NEW T \in SUBSET S, Cardinality(T) = 0, NEW x \in S
                 PROVE  h[T \cup {x}] = h[T] + f[x]
        OBVIOUS
    <2>1. T = {}
        BY <1>3, FS_EmptySet
    <2>2. OneOf({x}) = x
        BY DEF OneOf
    <2>3. h[{x}] = f[x] + h[{x} \ {x}]
        <3>1. {x} \in SUBSET S /\ {x} # {}
            OBVIOUS
        <3> QED BY <1>4, <2>2, <3>1
    <2>4. {} \cup {x} = {x} /\ {x} \ {x} = {}
        OBVIOUS
    <2>5. h[T] = 0 /\ h[T \cup {x}] = f[x] + 0 /\ f[x] \in Int
        BY <1>5, <2>1, <2>3, <2>4
    <2> QED BY <2>5
<1>8. ASSUME NEW n \in Nat, n \in Y
      PROVE  n + 1 \in Y
    <2> SUFFICES ASSUME NEW T \in SUBSET S, Cardinality(T) = n + 1, NEW x \in S, x \notin T
                 PROVE  h[T \cup {x}] = h[T] + f[x]
        OBVIOUS
    <2> DEFINE U == T \cup {x}
               c == OneOf(U)
    <2>1. U \in SUBSET S /\ U # {}
        OBVIOUS
    <2>2. c \in U /\ h[U] = f[c] + h[U \ {c}]
        <3> HIDE DEF U
        <3> QED BY <1>4, <2>1
    <2> HIDE DEF c
    <2>3. CASE c = x
        <3>1. U \ {c} = T
            BY <2>3
        <3>2. h[T] \in Int /\ f[x] \in Int
            BY <1>6
        <3>3. h[U] = f[x] + h[T]
            BY <2>2, <2>3, <3>1
        <3> HIDE DEF U
        <3>4. h[U] = h[T] + f[x]
            BY <3>2, <3>3
        <3> QED BY <3>4 DEF U
    <2>4. CASE c # x
        <3> DEFINE V == T \ {c}
        <3>1. c \in T /\ c \in S /\ V \in SUBSET S /\ c \notin V /\ x \notin V
            BY <2>2, <2>4
        <3>2. U \ {c} = V \cup {x} /\ V \cup {c} = T
            BY <2>2, <2>4
        <3>3. Cardinality(V) = n
            <4>1. Cardinality(T \ {c}) = Cardinality(T) - 1
                BY <1>3, <3>1, FS_RemoveElement
            <4> QED BY <4>1
        <3> HIDE DEF V, U
        <3>4. Adds(V)
            BY <1>8, <3>1, <3>3
        <3>5. h[V \cup {x}] = h[V] + f[x] /\ h[V \cup {c}] = h[V] + f[c]
            BY <3>1, <3>4
        <3>6. h[V] \in Int /\ f[x] \in Int /\ f[c] \in Int
            BY <1>6, <3>1
        <3>7. h[U] = f[c] + (h[V] + f[x]) /\ h[T] = h[V] + f[c]
            BY <2>2, <3>2, <3>5
        <3>8. h[U] = h[T] + f[x]
            BY <3>6, <3>7
        <3> QED BY <3>8 DEF U
    <2> QED BY <2>3, <2>4
<1>9. \A T \in SUBSET S : Adds(T)
    <2>1. \A n \in Nat : n \in Y
        <3> HIDE DEF Y
        <3> QED BY <1>7, <1>8, NatInduct
    <2> HIDE DEF Adds
    <2> QED BY <1>3, <2>1
<1>10. h \in [SUBSET S -> Int]
    <2>1. h = [T \in SUBSET S |-> h[T]]
        BY <1>1 DEF AreSums
    <2> QED BY <1>6, <2>1
<1>11. AddsEach(S, f, h)
    BY <1>5, <1>9, <1>10 DEF AddsEach
<1> QED
    BY <1>2, <1>11

(* f counts the elements of E for each value in S of their key. *)
CountsBy(E, S, key, f) ==
    /\ \A e \in E : key[e] \in S
    /\ \A s \in S : f[s] = Cardinality({e \in E : key[e] = s})

(* The sum over the groups of a finite set is its number of elements. *)
LEMMA GroupsAddUp ==
    ASSUME NEW E, IsFiniteSet(E), NEW S, IsFiniteSet(S), NEW k, NEW f, CountsBy(E, S, k, f)
    PROVE  SumFunctionOnSet(f, S) = Cardinality(E)
<1> USE DEF CountsBy
<1>1. \A T \in SUBSET E : IsFiniteSet(T) /\ Cardinality(T) \in Nat
    BY FS_Subset, FS_CardinalityType
<1>2. \A s \in S : f[s] \in Int
    <2>1. ASSUME NEW s \in S
          PROVE  f[s] \in Int
        <3> DEFINE A == {e \in E : k[e] = s}
        <3>1. A \in SUBSET E /\ f[s] = Cardinality(A)
            OBVIOUS
        <3> HIDE DEF A
        <3>2. Cardinality(A) \in Nat
            BY <1>1, <3>1
        <3> QED BY <3>1, <3>2
    <2> QED BY <2>1
<1>0. PICK h : SumFunctionOnSet(f, S) = h[S] /\ AddsEach(S, f, h)
    BY <1>2, SumOfSets
<1>3. /\ h \in [SUBSET S -> Int]
      /\ h[{}] = 0
      /\ \A T \in SUBSET S : \A x \in S : x \notin T => h[T \cup {x}] = h[T] + f[x]
    BY <1>0 DEF AddsEach
<1> DEFINE In(T) == {e \in E : k[e] \in T}
           F == {T \in SUBSET S : h[T] = Cardinality(In(T))}
<1>4. {} \in F
    <2>1. In({}) = {} /\ Cardinality({}) = 0
        BY FS_EmptySet
    <2> HIDE DEF In
    <2> QED BY <1>3, <2>1
<1>5. ASSUME NEW T \in SUBSET S, NEW x \in S, T \in F, x \notin T
      PROVE  T \cup {x} \in F
    <2> DEFINE A == {e \in E : k[e] = x}
    <2>1. In(T \cup {x}) = In(T) \cup A /\ In(T) \cap A = {} /\ In(T) \in SUBSET E /\ A \in SUBSET E
        BY <1>5
    <2>2. f[x] = Cardinality(A)
        OBVIOUS
    <2>3. h[T \cup {x}] = h[T] + f[x] /\ h[T] = Cardinality(In(T))
        BY <1>3, <1>5
    <2> HIDE DEF In, A
    <2>4. Cardinality(In(T) \cup A) = Cardinality(In(T)) + Cardinality(A) - Cardinality(In(T) \cap A)
        BY <1>1, <2>1, FS_Union
    <2>5. Cardinality(In(T) \cap A) = 0
        BY <2>1, FS_EmptySet
    <2>6. Cardinality(In(T)) \in Nat /\ Cardinality(A) \in Nat
        BY <1>1, <2>1
    <2>7. Cardinality(In(T) \cup A) = Cardinality(In(T)) + Cardinality(A)
        BY <2>4, <2>5, <2>6
    <2>8. h[T \cup {x}] = Cardinality(In(T \cup {x}))
        BY <2>1, <2>2, <2>3, <2>7
    <2> QED BY <2>8
<1>6. S \in F
    <2> HIDE DEF F
    <2> QED BY <1>4, <1>5, FiniteInduct
<1>7. In(S) = E
    OBVIOUS
<1> HIDE DEF In
<1> QED
    BY <1>0, <1>3, <1>6, <1>7

-----------------------------------------------------------------------------
(* Sorting *)

(* What is left of S after each step of a selection sort. *)
AreRests(S, key, h) ==
    /\ h \in [0..Cardinality(S) -> SUBSET S]
    /\ h[0] = S
    /\ \A n \in 1..Cardinality(S) : h[n] = h[n - 1] \ {Least(h[n - 1], key)}
    /\ \A i \in 1..Cardinality(S) : SortedBy(S, key)[i] = Least(h[i - 1], key)
    /\ SortedBy(S, key) = [i \in 1..Cardinality(S) |-> Least(h[i - 1], key)]

(* The recursive function in SortedBy exists. *)
LEMMA RestExists ==
    ASSUME NEW S, IsFiniteSet(S), NEW key
    PROVE  \E h : AreRests(S, key, h)
<1> DEFINE N == Cardinality(S)
           V == SUBSET S
           g == [D \in V |-> D \ {Least(D, key)}]
<1>1. N \in Nat
    BY FS_CardinalityType
<1>2. S \in V /\ g \in [V -> V]
    OBVIOUS
<1>0. PICK f : IsRecursive(f, N, V, S, g)
    <2> HIDE DEF V, g, N
    <2> QED BY <1>1, <1>2, RecursionExists
<1>3. f \in [0..N -> V] /\ f[0] = S /\ \A n \in 1..N : f[n] = g[f[n - 1]]
    <2> HIDE DEF V, g, N
    <2> QED BY <1>0 DEF IsRecursive
<1> DEFINE Rest(r) == r = [n \in 0..N |-> IF n = 0 THEN S ELSE r[n - 1] \ {Least(r[n - 1], key)}]
           h == CHOOSE r : Rest(r)
<1>4. Rest(f)
    <2>1. ASSUME NEW n \in 1..N
          PROVE  f[n] = f[n - 1] \ {Least(f[n - 1], key)}
        <3>1. n - 1 \in 0..N
            BY <1>1
        <3>2. f[n - 1] \in V
            BY <1>3, <3>1
        <3> QED BY <1>3, <3>2
    <2> HIDE DEF g, V, N
    <2> QED BY <1>1, <1>3, <2>1
<1>5. Rest(h)
    <2> HIDE DEF Rest
    <2> QED BY <1>4
<1>6. SortedBy(S, key) = [i \in 1..N |-> Least(h[i - 1], key)]
    BY DEF SortedBy
<1> HIDE DEF h
<1>7. h[0] = S /\ \A n \in 1..N : h[n] = h[n - 1] \ {Least(h[n - 1], key)}
    <2> HIDE DEF N
    <2>1. h[0] = S
        BY <1>1, <1>5
    <2>2. \A n \in 1..N : n \in 0..N /\ n # 0
        BY <1>1
    <2> QED BY <1>5, <2>1, <2>2
<1>8. h \in [0..N -> V]
    <2> DEFINE X == {k \in Nat : k <= N => h[k] \in V}
    <2> HIDE DEF N, V
    <2>1. 0 \in X
        BY <1>2, <1>7
    <2>2. ASSUME NEW k \in Nat, k \in X
          PROVE  k + 1 \in X
        <3> SUFFICES ASSUME k + 1 <= N
                     PROVE  h[k + 1] \in V
            OBVIOUS
        <3>1. k + 1 \in 1..N /\ (k + 1) - 1 = k /\ h[k] \in V
            BY <1>1, <2>2
        <3>2. h[k + 1] = h[k] \ {Least(h[k], key)}
            BY <1>7, <3>1
        <3> QED BY <3>1, <3>2 DEF V
    <2>3. \A k \in Nat : k \in X
        <3> HIDE DEF X
        <3> QED BY <2>1, <2>2, NatInduct
    <2>4. \A k \in 0..N : h[k] \in V
        BY <1>1, <2>3
    <2> QED BY <1>5, <2>4
<1>9. \A i \in 1..N : SortedBy(S, key)[i] = Least(h[i - 1], key)
    <2> HIDE DEF N
    <2> QED BY <1>6
<1>10. AreRests(S, key, h)
    BY <1>6, <1>7, <1>8, <1>9 DEF AreRests
<1> QED
    BY <1>10

(* SortedBy lists each element once, in ascending order of the keys. *)
IsListing(s, S, key) ==
    /\ s \in [1..Cardinality(S) -> S]
    /\ \A i, j \in 1..Cardinality(S) : s[i] = s[j] => i = j
    /\ \A x \in S : \E i \in 1..Cardinality(S) : s[i] = x
    /\ \A i, j \in 1..Cardinality(S) : i < j => key[s[i]] <= key[s[j]]

(* SortedBy is such a list, for integer keys. *)
LEMMA SortedIsSorted ==
    ASSUME NEW S, IsFiniteSet(S), NEW key, \A x \in S : key[x] \in Int
    PROVE  IsListing(SortedBy(S, key), S, key)
<1> DEFINE N == Cardinality(S)
           s == SortedBy(S, key)
<1>1. N \in Nat
    BY FS_CardinalityType
<1>0. PICK h : AreRests(S, key, h)
    BY RestExists
<1>2. /\ h \in [0..N -> SUBSET S]
      /\ h[0] = S
      /\ \A n \in 1..N : h[n] = h[n - 1] \ {Least(h[n - 1], key)}
      /\ \A i \in 1..N : s[i] = Least(h[i - 1], key)
      /\ s = [i \in 1..N |-> Least(h[i - 1], key)]
    BY <1>0 DEF AreRests
<1> HIDE DEF s, N
<1>3. \A n \in 0..N : IsFiniteSet(h[n]) /\ \A x \in h[n] : key[x] \in Int
    BY <1>2, FS_Subset
<1> DEFINE X == {n \in Nat : n <= N => Cardinality(h[n]) = N - n}
<1>4. 0 \in X
    BY <1>1, <1>2 DEF N
<1>5. ASSUME NEW n \in Nat, n + 1 <= N, Cardinality(h[n]) = N - n
      PROVE  /\ s[n + 1] \in h[n] /\ s[n + 1] \notin h[n + 1] /\ h[n + 1] \subseteq h[n]
             /\ \A y \in h[n] : key[s[n + 1]] <= key[y]
             /\ Cardinality(h[n + 1]) = N - (n + 1)
    <2>1. n + 1 \in 1..N /\ (n + 1) - 1 = n /\ n \in 0..N /\ N - n # 0
        BY <1>1, <1>5
    <2>2. s[n + 1] = Least(h[n], key) /\ h[n + 1] = h[n] \ {s[n + 1]}
        <3>1. s[n + 1] = Least(h[(n + 1) - 1], key)
            BY <1>2, <2>1
        <3>2. h[n + 1] = h[(n + 1) - 1] \ {Least(h[(n + 1) - 1], key)}
            BY <1>2, <2>1
        <3> QED BY <2>1, <3>1, <3>2
    <2>3. h[n] # {}
        <3>1. Cardinality({}) = 0
            BY FS_EmptySet
        <3> QED BY <1>5, <2>1, <3>1
    <2>4. s[n + 1] \in h[n] /\ \A y \in h[n] : key[s[n + 1]] <= key[y]
        <3>1. PICK D : D = h[n]
            OBVIOUS
        <3>2. IsFiniteSet(D) /\ D # {} /\ \A x \in D : key[x] \in Int
            BY <1>3, <2>1, <2>3, <3>1
        <3>3. Least(D, key) \in D /\ \A y \in D : key[Least(D, key)] <= key[y]
            BY <3>2, LeastIsMember
        <3> QED BY <2>2, <3>1, <3>3
    <2>5. Cardinality(h[n + 1]) = Cardinality(h[n]) - 1
        <3>1. PICK D, x : D = h[n] /\ x = s[n + 1]
            OBVIOUS
        <3>2. IsFiniteSet(D) /\ x \in D
            BY <1>3, <2>1, <2>4, <3>1
        <3>3. Cardinality(D \ {x}) = Cardinality(D) - 1
            BY <3>2, FS_RemoveElement
        <3> QED BY <2>2, <3>1, <3>3
    <2>6. Cardinality(h[n + 1]) = N - (n + 1)
        <3>1. Cardinality(h[n + 1]) = (N - n) - 1
            BY <1>5, <2>5
        <3> QED BY <1>1, <3>1
    <2> QED BY <2>2, <2>4, <2>6
<1>6. ASSUME NEW n \in Nat, n \in X
      PROVE  n + 1 \in X
    BY <1>1, <1>5, <1>6
<1>7. \A n \in Nat : n \in X
    <2> HIDE DEF X
    <2> QED BY <1>4, <1>6, NatInduct
<1>8. \A n \in Nat : n + 1 <= N =>
          /\ s[n + 1] \in h[n] /\ s[n + 1] \notin h[n + 1] /\ h[n + 1] \subseteq h[n]
          /\ \A y \in h[n] : key[s[n + 1]] <= key[y]
    <2>1. \A n \in Nat : n <= N => Cardinality(h[n]) = N - n
        BY <1>7
    <2> QED BY <1>1, <1>5, <2>1
<1>9. ASSUME NEW i \in Nat, NEW j \in Nat, i <= j, j <= N
      PROVE  h[j] \subseteq h[i]
    <2> DEFINE Y == {d \in Nat : i + d <= N => h[i + d] \subseteq h[i]}
    <2>1. 0 \in Y
        OBVIOUS
    <2>2. ASSUME NEW d \in Nat, d \in Y
          PROVE  d + 1 \in Y
        <3> SUFFICES ASSUME i + (d + 1) <= N
                     PROVE  h[i + (d + 1)] \subseteq h[i]
            OBVIOUS
        <3>1. i + d \in Nat /\ (i + d) + 1 = i + (d + 1) /\ i + d <= N /\ (i + d) + 1 <= N
            BY <1>1
        <3>2. h[i + d] \subseteq h[i] /\ h[(i + d) + 1] \subseteq h[i + d]
            BY <1>8, <2>2, <3>1
        <3> QED BY <3>1, <3>2
    <2>3. \A d \in Nat : d \in Y
        <3> HIDE DEF Y
        <3> QED BY <2>1, <2>2, NatInduct
    <2>4. j - i \in Nat /\ i + (j - i) = j
        BY <1>9
    <2> QED BY <1>9, <2>3, <2>4
<1>10. ASSUME NEW i \in 1..N, NEW j \in 1..N, i < j
       PROVE  s[i] # s[j] /\ key[s[i]] <= key[s[j]]
    <2>1. /\ i - 1 \in Nat /\ (i - 1) + 1 = i /\ i - 1 <= N /\ i \in Nat /\ i <= N
          /\ j - 1 \in Nat /\ (j - 1) + 1 = j /\ j - 1 <= N /\ i <= j - 1 /\ i - 1 <= j - 1
        BY <1>1, <1>10
    <2>2. s[j] \in h[j - 1] /\ s[i] \notin h[i]
        BY <1>8, <2>1
    <2>3. h[j - 1] \subseteq h[i] /\ h[j - 1] \subseteq h[i - 1]
        BY <1>9, <2>1
    <2>4. \A y \in h[i - 1] : key[s[i]] <= key[y]
        BY <1>8, <2>1
    <2> QED BY <2>2, <2>3, <2>4
<1>11. s \in [1..N -> S]
    <2>1. ASSUME NEW i \in 1..N
          PROVE  s[i] \in S
        <3>1. i - 1 \in Nat /\ (i - 1) + 1 = i /\ i - 1 \in 0..N
            BY <1>1
        <3>2. s[i] \in h[i - 1]
            BY <1>8, <3>1
        <3> QED BY <1>2, <3>1, <3>2
    <2> QED BY <1>2, <2>1
<1>12. \A i, j \in 1..N : s[i] = s[j] => i = j
    <2> SUFFICES ASSUME NEW i \in 1..N, NEW j \in 1..N, s[i] = s[j]
                 PROVE  i = j
        OBVIOUS
    <2>1. ~(i < j) /\ ~(j < i)
        BY <1>10
    <2> QED BY <1>1, <2>1
<1>13. \A x \in S : \E i \in 1..N : s[i] = x
    <2>1. s \in Injection(1..N, S)
        BY <1>11, <1>12 DEF Injection, IsInjective
    <2>2. IsFiniteSet(1..N) /\ Cardinality(1..N) = N
        BY <1>1, FS_Interval
    <2>3. s \in Surjection(1..N, S)
        BY <2>1, <2>2, FS_Injection DEF N
    <2> QED BY <2>3 DEF Surjection
<1> QED
    BY <1>10, <1>11, <1>12, <1>13 DEF IsListing, s, N

(* It is a sequence with as many places as the set has members. *)
LEMMA SortedIsSeq ==
    ASSUME NEW S, IsFiniteSet(S), NEW s, NEW key, IsListing(s, S, key)
    PROVE  s \in Seq(S) /\ Len(s) = Cardinality(S)
<1>1. Cardinality(S) \in Nat
    BY FS_CardinalityType
<1> QED
    BY <1>1 DEF IsListing

-----------------------------------------------------------------------------
(* Session rows *)

(* Session rows as the backends return them: finitely many, one for each id. *)
IsRows(rows) ==
    /\ IsFiniteSet(rows)
    /\ \A q, r \in rows : q.session = r.session => q = r
    /\ \A r \in rows : r.session \in Int

(* A child's row names one of the given sessions as its parent. *)
LEMMA ChildIff ==
    ASSUME NEW rows, NEW D, NEW c
    PROVE  c \in ChildrenIn(rows, D) <=> \E r \in rows : r.session = c /\ r.parent \in D
BY DEF ChildrenIn

(* A child of some sessions is a child of one of them. *)
LEMMA ChildOfOne ==
    ASSUME NEW rows, NEW D, NEW c \in ChildrenIn(rows, D)
    PROVE  \E p \in D : c \in ChildrenIn(rows, {p})
<1>1. PICK r \in rows : r.session = c /\ r.parent \in D
    BY ChildIff
<1>2. c \in ChildrenIn(rows, {r.parent})
    BY <1>1, ChildIff
<1> QED
    BY <1>1, <1>2

(* An id is the session of a row. *)
LEMMA IdIff ==
    ASSUME NEW rows, NEW s
    PROVE  s \in IdsOf(rows) <=> \E r \in rows : r.session = s
BY DEF IdsOf

(* Children are among the sessions of the rows. *)
LEMMA ChildrenAreIds ==
    ASSUME NEW rows, NEW D
    PROVE  ChildrenIn(rows, D) \subseteq IdsOf(rows)
BY DEF ChildrenIn, IdsOf

(* There are as many ids as rows. *)
LEMMA IdsAreFinite ==
    ASSUME NEW rows, IsRows(rows)
    PROVE  /\ IsFiniteSet(IdsOf(rows))
           /\ Cardinality(IdsOf(rows)) = Cardinality(rows)
           /\ Cardinality(rows) \in Nat
<1> DEFINE f == [r \in rows |-> r.session]
<1>1. f \in Bijection(rows, IdsOf(rows))
    BY DEF IsRows, IdsOf, Bijection, Injection, Surjection, IsInjective
<1>2. ExistsBijection(rows, IdsOf(rows))
    BY <1>1 DEF ExistsBijection
<1> QED
    BY <1>2, FS_Bijection, FS_CardinalityType DEF IsRows

(* A session has one parent. *)
LEMMA OneParent ==
    ASSUME NEW rows, IsRows(rows), NEW D, NEW E, NEW c,
           c \in ChildrenIn(rows, D), c \in ChildrenIn(rows, E)
    PROVE  \E p \in D \cap E : c \in ChildrenIn(rows, {p})
<1>1. PICK q \in rows : q.session = c /\ q.parent \in D
    BY ChildIff
<1>2. PICK r \in rows : r.session = c /\ r.parent \in E
    BY ChildIff
<1>3. q = r
    BY <1>1, <1>2 DEF IsRows
<1> QED
    BY <1>1, <1>2, <1>3, ChildIff

-----------------------------------------------------------------------------
(* The rounds of the recursive query *)

(* The rounds of the recursive query: the session, then the children of the *)
(* round before.                                                            *)
LEMMA RoundDef ==
    ASSUME NEW rows, IsRows(rows), NEW s \in IdsOf(rows)
    PROVE  LET N == Cardinality(rows) IN
           /\ Round(rows, s) \in [0..N -> SUBSET IdsOf(rows)]
           /\ Round(rows, s)[0] = {s}
           /\ \A n \in Nat : n + 1 <= N =>
                 Round(rows, s)[n + 1] = ChildrenIn(rows, Round(rows, s)[n])
<1> DEFINE N == Cardinality(rows)
           V == SUBSET IdsOf(rows)
           g == [D \in V |-> ChildrenIn(rows, D)]
<1>1. N \in Nat
    BY IdsAreFinite
<1>2. {s} \in V /\ g \in [V -> V]
    BY ChildrenAreIds
<1>0. PICK f : IsRecursive(f, N, V, {s}, g)
    <2> HIDE DEF V, g, N
    <2> QED BY <1>1, <1>2, RecursionExists
<1>3. f \in [0..N -> V] /\ f[0] = {s} /\ \A n \in 1..N : f[n] = g[f[n - 1]]
    <2> HIDE DEF V, g, N
    <2> QED BY <1>0 DEF IsRecursive
<1>4. f = [n \in 0..N |-> IF n = 0 THEN {s} ELSE ChildrenIn(rows, f[n - 1])]
    <2>1. ASSUME NEW n \in 1..N
          PROVE  f[n] = ChildrenIn(rows, f[n - 1])
        <3>1. n - 1 \in 0..N
            BY <1>1
        <3>2. f[n - 1] \in V
            BY <1>3, <3>1
        <3> QED BY <1>3, <3>2
    <2> HIDE DEF g, V, N
    <2> QED BY <1>1, <1>3, <2>1
<1>5. Round(rows, s) = CHOOSE r : r = [n \in 0..N |-> IF n = 0 THEN {s} ELSE ChildrenIn(rows, r[n - 1])]
    BY DEF Round
<1> DEFINE h == Round(rows, s)
<1>6. h = [n \in 0..N |-> IF n = 0 THEN {s} ELSE ChildrenIn(rows, h[n - 1])]
    <2> HIDE DEF N
    <2> QED BY <1>4, <1>5
<1>7. h[0] = {s} /\ \A n \in Nat : n + 1 <= N => h[n + 1] = ChildrenIn(rows, h[n])
    <2> HIDE DEF N, h
    <2>1. h[0] = {s}
        BY <1>1, <1>6
    <2>2. ASSUME NEW n \in Nat, n + 1 <= N
          PROVE  h[n + 1] = ChildrenIn(rows, h[n])
        <3>1. n + 1 \in 0..N /\ n + 1 # 0 /\ (n + 1) - 1 = n
            BY <1>1, <2>2
        <3> QED BY <1>6, <3>1
    <2> QED BY <2>1, <2>2
<1>8. h \in [0..N -> V]
    <2>1. ASSUME NEW n \in 0..N
          PROVE  (IF n = 0 THEN {s} ELSE ChildrenIn(rows, h[n - 1])) \in V
        BY <1>2, ChildrenAreIds
    <2> HIDE DEF N, h, V
    <2> QED BY <1>6, <2>1
<1> QED
    BY <1>7, <1>8

(* The query stays within any set with the session and the children of its  *)
(* members.                                                                 *)
LEMMA RoundsStayWithin ==
    ASSUME NEW rows, IsRows(rows), NEW s \in IdsOf(rows),
           NEW D, s \in D, ChildrenIn(rows, D) \subseteq D,
           NEW n \in 0..Cardinality(rows)
    PROVE  Round(rows, s)[n] \subseteq D
<1> DEFINE N == Cardinality(rows)
           h == Round(rows, s)
           X == {k \in Nat : k <= N => h[k] \subseteq D}
<1>1. N \in Nat
    BY IdsAreFinite
<1>2. h[0] = {s} /\ \A k \in Nat : k + 1 <= N => h[k + 1] = ChildrenIn(rows, h[k])
    BY RoundDef
<1> HIDE DEF h, N
<1>3. 0 \in X
    BY <1>2
<1>4. ASSUME NEW k \in Nat, k \in X
      PROVE  k + 1 \in X
    <2> SUFFICES ASSUME k + 1 <= N
                 PROVE  h[k + 1] \subseteq D
        OBVIOUS
    <2>1. h[k] \subseteq D
        BY <1>1, <1>4
    <2>2. ChildrenIn(rows, h[k]) \subseteq ChildrenIn(rows, D)
        BY <2>1 DEF ChildrenIn
    <2> QED BY <1>2, <2>2
<1>5. \A k \in Nat : k \in X
    <2> HIDE DEF X
    <2> QED BY <1>3, <1>4, NatInduct
<1> QED
    BY <1>1, <1>5 DEF h, N

-----------------------------------------------------------------------------
(* The sessions at and below one *)

(* The sessions below one are in every set that is closed under children. *)
LEMMA BelowIsLeast ==
    ASSUME NEW rows, NEW s, NEW D \in SUBSET IdsOf(rows),
           s \in D, ChildrenIn(rows, D) \subseteq D
    PROVE  Below(rows, s) \subseteq D
BY DEF Below

(* They are such a set themselves. *)
LEMMA BelowIsClosed ==
    ASSUME NEW rows, NEW s \in IdsOf(rows)
    PROVE  /\ s \in Below(rows, s)
           /\ Below(rows, s) \subseteq IdsOf(rows)
           /\ ChildrenIn(rows, Below(rows, s)) \subseteq Below(rows, s)
<1>1. s \in Below(rows, s) /\ Below(rows, s) \subseteq IdsOf(rows)
    BY DEF Below
<1>2. ASSUME NEW c \in ChildrenIn(rows, Below(rows, s)),
             NEW D \in SUBSET IdsOf(rows), s \in D, ChildrenIn(rows, D) \subseteq D
      PROVE  c \in D
    <2>1. Below(rows, s) \subseteq D
        BY <1>2, BelowIsLeast
    <2> QED
        BY <1>2, <2>1 DEF ChildrenIn
<1>3. \A c \in ChildrenIn(rows, Below(rows, s)) : c \in Below(rows, s)
    BY <1>2, ChildrenAreIds DEF Below
<1> QED
    BY <1>1, <1>3

(* What is below a session below another is below that one, too. *)
LEMMA BelowIsTransitive ==
    ASSUME NEW rows, NEW s \in IdsOf(rows), NEW d \in Below(rows, s)
    PROVE  Below(rows, d) \subseteq Below(rows, s)
BY BelowIsClosed, BelowIsLeast

(* Below a session are the sessions below its children. *)
LEMMA BelowChildren ==
    ASSUME NEW rows, NEW s \in IdsOf(rows), NEW d \in Below(rows, s), d # s
    PROVE  \E c \in ChildrenIn(rows, {s}) : d \in Below(rows, c)
<1> DEFINE D == {s} \cup {e \in IdsOf(rows) : \E c \in ChildrenIn(rows, {s}) : e \in Below(rows, c)}
<1>1. D \in SUBSET IdsOf(rows) /\ s \in D
    OBVIOUS
<1>2. ASSUME NEW e \in ChildrenIn(rows, D)
      PROVE  e \in D
    <2>1. PICK p \in D : e \in ChildrenIn(rows, {p})
        <3> HIDE DEF D
        <3> QED BY ChildOfOne
    <2>2. e \in IdsOf(rows)
        BY ChildrenAreIds
    <2>3. CASE p = s
        BY <2>1, <2>2, <2>3, BelowIsClosed
    <2>4. CASE p # s
        <3>1. PICK c \in ChildrenIn(rows, {s}) : p \in Below(rows, c)
            BY <2>4
        <3>2. c \in IdsOf(rows)
            BY ChildrenAreIds
        <3>3. e \in ChildrenIn(rows, Below(rows, c))
            BY <2>1, <3>1, ChildIff
        <3> QED BY <2>2, <3>2, <3>3, BelowIsClosed
    <2> QED BY <2>3, <2>4
<1>3. Below(rows, s) \subseteq D
    <2> HIDE DEF D
    <2> QED BY <1>1, <1>2, BelowIsLeast
<1> QED
    BY <1>3

(* The parent of a session below another is below it, too. *)
LEMMA BelowParent ==
    ASSUME NEW rows, NEW s \in IdsOf(rows), NEW d \in Below(rows, s), d # s
    PROVE  \E p \in Below(rows, s) : d \in ChildrenIn(rows, {p})
<1> DEFINE D == {e \in Below(rows, s) : e = s \/ \E p \in Below(rows, s) : e \in ChildrenIn(rows, {p})}
<1>1. D \in SUBSET IdsOf(rows) /\ s \in D
    BY BelowIsClosed
<1>2. ASSUME NEW e \in ChildrenIn(rows, D)
      PROVE  e \in D
    <2>1. PICK p \in D : e \in ChildrenIn(rows, {p})
        <3> HIDE DEF D
        <3> QED BY ChildOfOne
    <2>2. e \in ChildrenIn(rows, Below(rows, s))
        BY <2>1, ChildIff
    <2>3. e \in Below(rows, s)
        BY <2>2, BelowIsClosed
    <2> QED BY <2>1, <2>3
<1>3. Below(rows, s) \subseteq D
    <2> HIDE DEF D
    <2> QED BY <1>1, <1>2, BelowIsLeast
<1> QED
    BY <1>3

(* The query of a session that is its own ancestor never ends. *)
LEMMA OwnAncestorGoesOn ==
    ASSUME NEW rows, IsRows(rows), NEW s \in IdsOf(rows), OwnAncestor(rows, s)
    PROVE  ~QueryEnds(rows, s)
<1> DEFINE N == Cardinality(rows)
           h == Round(rows, s)
           X == {k \in Nat : k <= N => \E x \in h[k] : s \in Below(rows, x)}
<1>1. N \in Nat
    BY IdsAreFinite
<1>2. /\ h \in [0..N -> SUBSET IdsOf(rows)]
      /\ h[0] = {s}
      /\ \A k \in Nat : k + 1 <= N => h[k + 1] = ChildrenIn(rows, h[k])
    BY RoundDef
<1> HIDE DEF h, N
<1>3. 0 \in X
    BY <1>2, BelowIsClosed
<1>4. ASSUME NEW k \in Nat, k \in X
      PROVE  k + 1 \in X
    <2> SUFFICES ASSUME k + 1 <= N
                 PROVE  \E x \in h[k + 1] : s \in Below(rows, x)
        OBVIOUS
    <2>1. PICK x \in h[k] : s \in Below(rows, x)
        BY <1>1, <1>4
    <2>2. x \in IdsOf(rows)
        BY <1>1, <1>2
    <2>3. PICK c \in ChildrenIn(rows, {x}) : s \in Below(rows, c)
        BY <2>1, <2>2, BelowChildren DEF OwnAncestor
    <2>4. c \in h[k + 1]
        <3>1. c \in ChildrenIn(rows, h[k])
            BY <2>1, <2>3, ChildIff
        <3> QED BY <1>2, <3>1
    <2> QED BY <2>3, <2>4
<1>5. \A k \in Nat : k \in X
    <2> HIDE DEF X
    <2> QED BY <1>3, <1>4, NatInduct
<1> QED
    BY <1>1, <1>5 DEF QueryEnds, h, N

(* What two rounds have in common, the first round has in common with one    *)
(* that comes as much later.                                                 *)
LEMMA RoundsRepeat ==
    ASSUME NEW rows, IsRows(rows), NEW s \in IdsOf(rows),
           NEW i \in Nat, NEW j \in Nat, i < j, j <= Cardinality(rows),
           Round(rows, s)[i] \cap Round(rows, s)[j] # {}
    PROVE  s \in Round(rows, s)[j - i]
<1> DEFINE N == Cardinality(rows)
           h == Round(rows, s)
           X == {k \in Nat : \A l \in Nat : k < l /\ l <= N /\ h[k] \cap h[l] # {} => s \in h[l - k]}
<1>1. N \in Nat
    BY IdsAreFinite
<1>2. h[0] = {s} /\ \A k \in Nat : k + 1 <= N => h[k + 1] = ChildrenIn(rows, h[k])
    BY RoundDef
<1> HIDE DEF h, N
<1>3. 0 \in X
    BY <1>2
<1>4. ASSUME NEW k \in Nat, k \in X
      PROVE  k + 1 \in X
    <2> SUFFICES ASSUME NEW l \in Nat, k + 1 < l, l <= N, h[k + 1] \cap h[l] # {}
                 PROVE  s \in h[l - (k + 1)]
        OBVIOUS
    <2> DEFINE m == l - 1
    <2>1. m \in Nat /\ m + 1 = l /\ k < m /\ m <= N /\ m - k = l - (k + 1) /\ k + 1 <= N
        BY <1>1
    <2>2. h[k + 1] = ChildrenIn(rows, h[k]) /\ h[l] = ChildrenIn(rows, h[m])
        <3> HIDE DEF m
        <3> QED BY <1>2, <2>1
    <2>3. h[k] \cap h[m] # {}
        <3>1. PICK x : x \in ChildrenIn(rows, h[k]) /\ x \in ChildrenIn(rows, h[m])
            BY <2>2
        <3> HIDE DEF m
        <3>2. \E p \in h[k] \cap h[m] : x \in ChildrenIn(rows, {p})
            BY <3>1, OneParent
        <3> QED BY <3>2
    <2>4. s \in h[m - k]
        <3> HIDE DEF m
        <3> QED BY <1>4, <2>1, <2>3
    <2> QED BY <2>1, <2>4
<1>5. \A k \in Nat : k \in X
    <2> HIDE DEF X
    <2> QED BY <1>3, <1>4, NatInduct
<1> QED
    BY <1>1, <1>5 DEF h, N

(* After round 0 the query finds sessions below a child. *)
LEMMA LaterRoundsAreBelow ==
    ASSUME NEW rows, IsRows(rows), NEW s \in IdsOf(rows),
           NEW n \in Nat, n + 1 <= Cardinality(rows), NEW x \in Round(rows, s)[n + 1]
    PROVE  \E c \in ChildrenIn(rows, {s}) : x \in Below(rows, c)
<1> DEFINE N == Cardinality(rows)
           h == Round(rows, s)
           Reached(y) == \E c \in ChildrenIn(rows, {s}) : y \in Below(rows, c)
           X == {k \in Nat : k + 1 <= N => \A y \in h[k + 1] : Reached(y)}
<1>1. N \in Nat
    BY IdsAreFinite
<1>2. h[0] = {s} /\ \A k \in Nat : k + 1 <= N => h[k + 1] = ChildrenIn(rows, h[k])
    BY RoundDef
<1> HIDE DEF h, N
<1>3. 0 \in X
    <2>1. ASSUME 1 <= N, NEW y \in h[0 + 1]
          PROVE  Reached(y)
        <3>1. h[0 + 1] = ChildrenIn(rows, {s})
            BY <1>1, <1>2, <2>1
        <3>2. y \in Below(rows, y)
            BY <3>1, ChildrenAreIds, BelowIsClosed
        <3> QED BY <3>1, <3>2
    <2> QED BY <2>1
<1>4. ASSUME NEW k \in Nat, k \in X
      PROVE  k + 1 \in X
    <2> SUFFICES ASSUME (k + 1) + 1 <= N, NEW y \in h[(k + 1) + 1]
                 PROVE  Reached(y)
        OBVIOUS
    <2>1. y \in ChildrenIn(rows, h[k + 1])
        BY <1>1, <1>2
    <2>2. PICK p \in h[k + 1] : y \in ChildrenIn(rows, {p})
        BY <2>1, ChildOfOne
    <2>3. PICK c \in ChildrenIn(rows, {s}) : p \in Below(rows, c)
        BY <1>1, <1>4, <2>2
    <2>4. y \in ChildrenIn(rows, Below(rows, c)) /\ c \in IdsOf(rows)
        BY <2>2, <2>3, ChildIff, ChildrenAreIds
    <2>5. y \in Below(rows, c)
        BY <2>4, BelowIsClosed
    <2> QED BY <2>3, <2>5
<1>5. \A k \in Nat : k \in X
    <2> HIDE DEF X
    <2> QED BY <1>3, <1>4, NatInduct
<1> QED
    BY <1>1, <1>5 DEF h, N

(* After as many rounds as there are sessions, a session has come up twice. *)
LEMMA EndlessIsOwnAncestor ==
    ASSUME NEW rows, IsRows(rows), NEW s \in IdsOf(rows), ~QueryEnds(rows, s)
    PROVE  OwnAncestor(rows, s)
<1> DEFINE N == Cardinality(rows)
           h == Round(rows, s)
<1>1. N \in Nat /\ IsFiniteSet(IdsOf(rows)) /\ Cardinality(IdsOf(rows)) = N
    BY IdsAreFinite
<1>2. /\ h \in [0..N -> SUBSET IdsOf(rows)]
      /\ h[0] = {s}
      /\ \A k \in Nat : k + 1 <= N => h[k + 1] = ChildrenIn(rows, h[k])
    BY RoundDef
<1>3. h[N] # {}
    BY DEF QueryEnds
<1>4. \A i, j \in Nat : i < j /\ j <= N /\ h[i] \cap h[j] # {} => s \in h[j - i]
    BY RoundsRepeat
<1>5. \A k \in Nat : k + 1 <= N /\ s \in h[k + 1] => OwnAncestor(rows, s)
    BY LaterRoundsAreBelow DEF OwnAncestor
<1> HIDE DEF h, N
<1>6. ASSUME NEW k \in 0..N, h[k] = {}
      PROVE  FALSE
    <2> DEFINE X == {d \in Nat : k + d <= N => h[k + d] = {}}
    <2>1. 0 \in X
        BY <1>6
    <2>2. ASSUME NEW d \in Nat, d \in X
          PROVE  d + 1 \in X
        <3> SUFFICES ASSUME k + (d + 1) <= N
                     PROVE  h[k + (d + 1)] = {}
            OBVIOUS
        <3>1. k + d \in Nat /\ (k + d) + 1 = k + (d + 1) /\ k + d <= N
            BY <1>1
        <3>2. h[k + d] = {} /\ h[(k + d) + 1] = ChildrenIn(rows, h[k + d])
            BY <1>2, <2>2, <3>1
        <3> QED BY <3>1, <3>2, ChildIff
    <2>3. \A d \in Nat : d \in X
        <3> HIDE DEF X
        <3> QED BY <2>1, <2>2, NatInduct
    <2>4. N - k \in Nat /\ k + (N - k) = N /\ N <= N
        BY <1>1
    <2>5. N - k \in X
        BY <2>3, <2>4
    <2>6. h[k + (N - k)] = {}
        BY <2>4, <2>5
    <2> QED BY <1>3, <2>4, <2>6
<1> DEFINE f == [k \in 0..N |-> CHOOSE x : x \in h[k]]
<1>7. \A k \in 0..N : f[k] \in h[k]
    BY <1>6
<1>8. f \in [0..N -> IdsOf(rows)]
    <2>1. \A k \in 0..N : f[k] \in IdsOf(rows)
        <3> HIDE DEF f
        <3> QED BY <1>2, <1>7
    <2> QED BY <2>1
<1>9. IsFiniteSet(0..N) /\ Cardinality(0..N) = N + 1
    BY <1>1, FS_Interval
<1> HIDE DEF f
<1>10. PICK i, j \in 0..N : i # j /\ f[i] = f[j]
    <2>1. Cardinality(IdsOf(rows)) < Cardinality(0..N)
        BY <1>1, <1>9
    <2> QED BY <1>1, <1>8, <1>9, <2>1, FS_PigeonHole
<1>11. \E k, l \in 0..N : k < l /\ h[k] \cap h[l] # {}
    <2>1. h[i] \cap h[j] # {} /\ h[j] \cap h[i] # {}
        BY <1>7, <1>10
    <2>2. i < j \/ j < i
        BY <1>1, <1>10
    <2> QED BY <2>1, <2>2
<1>12. PICK k, l \in 0..N : k < l /\ h[k] \cap h[l] # {}
    BY <1>11
<1> DEFINE d == l - k - 1
<1>13. d \in Nat /\ d + 1 = l - k /\ d + 1 <= N
    BY <1>1, <1>12
<1>14. s \in h[d + 1]
    <2>1. k \in Nat /\ l \in Nat /\ l <= N
        BY <1>1
    <2> HIDE DEF d
    <2> QED BY <1>4, <1>12, <1>13, <2>1
<1> HIDE DEF d
<1> QED
    BY <1>5, <1>13, <1>14

(* The recursive query of a session tree ends unless the session is its own  *)
(* ancestor, with the session and all sessions below it.                     *)
THEOREM TreeCoversRows ==
    ASSUME NEW rows, IsRows(rows)
    PROVE  TreeCovers(rows)
<1> SUFFICES ASSUME NEW s \in IdsOf(rows)
             PROVE  /\ QueryEnds(rows, s) <=> ~OwnAncestor(rows, s)
                    /\ QueryEnds(rows, s) => Descendants(rows, s) = Below(rows, s)
    BY DEF TreeCovers
<1>1. QueryEnds(rows, s) <=> ~OwnAncestor(rows, s)
    BY OwnAncestorGoesOn, EndlessIsOwnAncestor
<1>2. ASSUME QueryEnds(rows, s)
      PROVE  Descendants(rows, s) = Below(rows, s)
    <2> DEFINE N == Cardinality(rows)
               h == Round(rows, s)
               D == Descendants(rows, s)
    <2>1. N \in Nat
        BY IdsAreFinite
    <2>2. /\ h \in [0..N -> SUBSET IdsOf(rows)]
          /\ h[0] = {s}
          /\ \A k \in Nat : k + 1 <= N => h[k + 1] = ChildrenIn(rows, h[k])
        BY RoundDef
    <2>3. h[N] = {}
        BY <1>2 DEF QueryEnds
    <2>4. D = UNION {h[n] : n \in 0..N}
        BY DEF Descendants
    <2>5. \A n \in 0..N : h[n] \subseteq Below(rows, s)
        BY BelowIsClosed, RoundsStayWithin
    <2> HIDE DEF D, N, h
    <2>6. D \subseteq Below(rows, s)
        BY <2>4, <2>5
    <2>7. D \in SUBSET IdsOf(rows) /\ s \in D
        BY <2>1, <2>2, <2>4
    <2>8. ASSUME NEW c \in ChildrenIn(rows, D)
          PROVE  c \in D
        <3>1. PICK p \in D : c \in ChildrenIn(rows, {p})
            BY ChildOfOne
        <3>2. PICK n \in 0..N : p \in h[n]
            BY <2>4
        <3>3. n # N /\ n \in Nat /\ n + 1 <= N /\ n + 1 \in 0..N
            BY <2>1, <2>3, <3>2
        <3>4. c \in h[n + 1]
            BY <2>2, <3>1, <3>2, <3>3, ChildIff
        <3> QED BY <2>4, <3>3, <3>4
    <2>9. Below(rows, s) \subseteq D
        BY <2>7, <2>8, BelowIsLeast
    <2> QED BY <2>6, <2>9 DEF D
<1> QED
    BY <1>1, <1>2

(* Append and Last, for paths. *)
LEMMA AppendPath ==
    ASSUME NEW S, NEW q \in Seq(S), NEW c \in S
    PROVE  /\ Append(q, c) \in Seq(S)
           /\ Len(Append(q, c)) = Len(q) + 1
           /\ Last(Append(q, c)) = c
           /\ \A i \in 1..Len(q) : Append(q, c)[i] = q[i]
           /\ Append(q, c)[Len(q) + 1] = c
BY DEF Last

(* The node q's children. *)
NodeChildren(rows, q) == {Append(q, c) : c \in ChildrenIn(rows, {Last(q)})}

(* The levels of a tree: the roots, then the children of the nodes of the   *)
(* level before.                                                            *)
LEMMA LevelDef ==
    ASSUME NEW rows, IsRows(rows), NEW R \in SUBSET IdsOf(rows)
    PROVE  LET N == Cardinality(rows)
               l == Levels(rows, R)
           IN  /\ l \in [0..N -> SUBSET Seq(IdsOf(rows))]
               /\ l[0] = {<<r>> : r \in R}
               /\ \A n \in Nat : n + 1 <= N =>
                     \A p : p \in l[n + 1] <=> \E q \in l[n] : p \in NodeChildren(rows, q)
<1> DEFINE N == Cardinality(rows)
           V == SUBSET Seq(IdsOf(rows))
           b == {<<r>> : r \in R}
           Next_(D) == UNION {NodeChildren(rows, q) : q \in D}
           g == [D \in V |-> Next_(D)]
<1>1. N \in Nat
    BY IdsAreFinite
<1>2. ASSUME NEW D \in V
      PROVE  Next_(D) \in V
    <2>1. \A x \in Next_(D) : \E q \in D : \E c \in ChildrenIn(rows, {Last(q)}) : x = Append(q, c)
        BY DEF NodeChildren
    <2>2. \A q \in D : \A c \in ChildrenIn(rows, {Last(q)}) : Append(q, c) \in Seq(IdsOf(rows))
        BY ChildrenAreIds
    <2>3. ASSUME NEW x \in Next_(D)
          PROVE  x \in Seq(IdsOf(rows))
        <3>1. PICK q \in D : \E c \in ChildrenIn(rows, {Last(q)}) : x = Append(q, c)
            BY ONLY <2>1, x \in Next_(D)
        <3>2. PICK c \in ChildrenIn(rows, {Last(q)}) : x = Append(q, c)
            BY <3>1
        <3> QED BY <2>2, <3>2
    <2> HIDE DEF Next_
    <2> QED BY <2>3
<1>3. b \in V
    <2>1. \A r \in R : <<r>> \in Seq(IdsOf(rows))
        OBVIOUS
    <2> QED BY <2>1
<1>4. g \in [V -> V]
    <2> HIDE DEF V, Next_
    <2> QED BY <1>2
<1>0. PICK f : IsRecursive(f, N, V, b, g)
    <2> HIDE DEF V, g, N, b
    <2> QED BY <1>1, <1>3, <1>4, RecursionExists
<1>5. f \in [0..N -> V] /\ f[0] = b /\ \A n \in 1..N : f[n] = g[f[n - 1]]
    <2> HIDE DEF V, g, N, b
    <2> QED BY <1>0 DEF IsRecursive
<1>6. f = [n \in 0..N |-> IF n = 0 THEN b ELSE Next_(f[n - 1])]
    <2>1. ASSUME NEW n \in 1..N
          PROVE  f[n] = Next_(f[n - 1])
        <3>1. n - 1 \in 0..N
            BY <1>1
        <3> HIDE DEF V, N, Next_
        <3>2. f[n - 1] \in V
            BY <1>5, <3>1
        <3> QED BY <1>5, <3>2
    <2> HIDE DEF g, V, N, b, Next_
    <2> QED BY <1>1, <1>5, <2>1
<1>7. Levels(rows, R) = CHOOSE r : r = [n \in 0..N |-> IF n = 0 THEN b ELSE Next_(r[n - 1])]
    BY DEF Levels, NodeChildren
<1> DEFINE h == Levels(rows, R)
<1>8. h = [n \in 0..N |-> IF n = 0 THEN b ELSE Next_(h[n - 1])]
    <2> HIDE DEF N, b, Next_
    <2> QED BY <1>6, <1>7
<1>9. h[0] = b /\ \A n \in Nat : n + 1 <= N => h[n + 1] = Next_(h[n])
    <2> HIDE DEF N, h, b, Next_
    <2>1. h[0] = b
        BY <1>1, <1>8
    <2>2. ASSUME NEW n \in Nat, n + 1 <= N
          PROVE  h[n + 1] = Next_(h[n])
        <3>1. n + 1 \in 0..N /\ n + 1 # 0 /\ (n + 1) - 1 = n
            BY <1>1, <2>2
        <3> QED BY <1>8, <3>1
    <2> QED BY <2>1, <2>2
<1>10. h \in [0..N -> V]
    <2> DEFINE X == {k \in Nat : k <= N => h[k] \in V}
    <2> HIDE DEF N, h, V, b, Next_
    <2>1. 0 \in X
        BY <1>3, <1>9
    <2>2. ASSUME NEW k \in Nat, k \in X
          PROVE  k + 1 \in X
        BY <1>1, <1>2, <1>9, <2>2
    <2>3. \A k \in Nat : k \in X
        <3> HIDE DEF X
        <3> QED BY <2>1, <2>2, NatInduct
    <2>4. \A k \in 0..N : h[k] \in V
        BY <1>1, <2>3
    <2> QED BY <1>8, <2>4
<1>11. \A D : \A p : p \in Next_(D) <=> \E q \in D : p \in NodeChildren(rows, q)
    OBVIOUS
<1>12. \A n \in Nat : n + 1 <= N => \A p : p \in h[n + 1] <=> \E q \in h[n] : p \in NodeChildren(rows, q)
    <2> HIDE DEF Next_, h, N
    <2> QED BY <1>9, <1>11
<1>13. h[0] = {<<r>> : r \in R}
    BY <1>9
<1> QED
    BY <1>10, <1>12, <1>13

(* A path of level n has n + 1 sessions, from a root down. *)
LEMMA PathShape ==
    ASSUME NEW rows, IsRows(rows), NEW R \in SUBSET IdsOf(rows),
           NEW n \in Nat, n <= Cardinality(rows), NEW p \in Levels(rows, R)[n]
    PROVE  /\ p \in Seq(IdsOf(rows)) /\ Len(p) = n + 1
           /\ p[1] \in R
           /\ \A i \in 1..n : p[i + 1] \in ChildrenIn(rows, {p[i]})
           /\ Last(p) \in IdsOf(rows) /\ Last(p) = p[n + 1]
<1> DEFINE N == Cardinality(rows)
           h == Levels(rows, R)
           Shape(q, k) == /\ Len(q) = k + 1
                          /\ q[1] \in R
                          /\ \A i \in 1..k : q[i + 1] \in ChildrenIn(rows, {q[i]})
           X == {k \in Nat : k <= N => \A q \in h[k] : Shape(q, k)}
<1>1. N \in Nat
    BY IdsAreFinite
<1>2. /\ h \in [0..N -> SUBSET Seq(IdsOf(rows))]
      /\ h[0] = {<<r>> : r \in R}
      /\ \A k \in Nat : k + 1 <= N =>
            \A q : q \in h[k + 1] <=> \E t \in h[k] : q \in NodeChildren(rows, t)
    BY LevelDef
<1> HIDE DEF h, N
<1>3. 0 \in X
    BY <1>2
<1>4. ASSUME NEW k \in Nat, k \in X, k + 1 <= N, NEW q \in h[k + 1]
      PROVE  Shape(q, k + 1)
    <2>1. PICK t \in h[k] : q \in NodeChildren(rows, t)
        BY <1>2, <1>4
    <2>2. PICK c \in ChildrenIn(rows, {Last(t)}) : q = Append(t, c)
        BY <2>1 DEF NodeChildren
    <2>3. c \in IdsOf(rows) /\ t \in Seq(IdsOf(rows))
        BY <1>1, <1>2, <1>4, <2>1, ChildrenAreIds
    <2>4. Shape(t, k)
        BY <1>1, <1>4, <2>1
    <2>5. Last(t) = t[k + 1]
        BY <2>4 DEF Last
    <2>6. /\ Len(q) = Len(t) + 1 /\ q[Len(t) + 1] = c
          /\ \A i \in 1..Len(t) : q[i] = t[i]
        BY <2>2, <2>3, AppendPath
    <2>7. Len(q) = (k + 1) + 1 /\ q[1] \in R
        BY <2>4, <2>6
    <2>8. ASSUME NEW i \in 1..(k + 1)
          PROVE  q[i + 1] \in ChildrenIn(rows, {q[i]})
        <3>1. CASE i = k + 1
            <4>1. q[i] = Last(t) /\ q[i + 1] = c
                BY <2>4, <2>5, <2>6, <3>1
            <4> QED BY <2>2, <4>1
        <3>2. CASE i # k + 1
            <4>1. i \in 1..k /\ q[i] = t[i] /\ q[i + 1] = t[i + 1]
                BY <2>4, <2>6, <3>2
            <4> QED BY <2>4, <4>1
        <3> QED BY <3>1, <3>2
    <2> QED BY <2>7, <2>8
<1>5. \A k \in Nat : k \in X
    <2>1. \A k \in Nat : k \in X => k + 1 \in X
        <3> HIDE DEF Shape
        <3> QED BY <1>4
    <2> HIDE DEF X
    <2> QED BY <1>3, <2>1, NatInduct
<1>6. Shape(p, n) /\ p \in Seq(IdsOf(rows))
    BY <1>1, <1>2, <1>5 DEF h, N
<1>7. Last(p) = p[n + 1] /\ Last(p) \in IdsOf(rows)
    BY <1>6 DEF Last
<1> QED
    BY <1>6, <1>7

(* The roots are the sessions that are no children within the rows. *)
LEMMA RootIff ==
    ASSUME NEW rows, IsRows(rows), NEW s \in IdsOf(rows)
    PROVE  s \in Roots(rows) <=> s \notin ChildrenIn(rows, IdsOf(rows))
<1>1. PICK r \in rows : r.session = s
    BY IdIff
<1>2. \A q \in rows : q.session = s => q = r
    BY <1>1 DEF IsRows
<1>3. s \in ChildrenIn(rows, IdsOf(rows)) <=> r.parent \in IdsOf(rows)
    BY <1>1, <1>2, ChildIff
<1>4. None \notin IdsOf(rows)
    BY NoneAssumption DEF IsRows, IdsOf
<1>5. s \in Roots(rows) <=> r.parent = None \/ r.parent \notin IdsOf(rows)
    BY <1>1, <1>2 DEF Roots
<1> QED
    BY <1>3, <1>4, <1>5

(* Roots are among the sessions of the rows. *)
LEMMA RootsAreIds ==
    ASSUME NEW rows
    PROVE  Roots(rows) \subseteq IdsOf(rows)
BY DEF Roots, IdsOf

(* No session comes twice on the way down from a root. *)
LEMMA PathsAreSimple ==
    ASSUME NEW rows, IsRows(rows), NEW n \in Nat, n <= Cardinality(rows),
           NEW p \in Levels(rows, Roots(rows))[n],
           NEW i \in Nat, NEW j \in Nat, 1 <= i, i < j, j <= n + 1
    PROVE  p[i] # p[j]
<1>1. /\ p \in Seq(IdsOf(rows)) /\ Len(p) = n + 1
      /\ p[1] \in Roots(rows)
      /\ \A k \in 1..n : p[k + 1] \in ChildrenIn(rows, {p[k]})
    BY RootsAreIds, PathShape
<1> DEFINE X == {k \in Nat : \A l \in Nat : k + 1 < l /\ l <= n + 1 => p[k + 1] # p[l]}
<1>2. \A k \in 1..(n + 1) : p[k] \in IdsOf(rows)
    BY <1>1
<1>3. 0 \in X
    <2> SUFFICES ASSUME NEW l \in Nat, 1 < l, l <= n + 1
                 PROVE  p[1] # p[l]
        OBVIOUS
    <2>1. l - 1 \in 1..n /\ (l - 1) + 1 = l /\ l - 1 \in 1..(n + 1)
        OBVIOUS
    <2>2. p[l] \in ChildrenIn(rows, {p[l - 1]})
        BY <1>1, <2>1
    <2>3. p[l] \in ChildrenIn(rows, IdsOf(rows))
        BY <1>2, <2>1, <2>2, ChildIff
    <2>4. p[1] \notin ChildrenIn(rows, IdsOf(rows))
        BY <1>1, RootIff, RootsAreIds
    <2> QED BY <2>3, <2>4
<1>4. ASSUME NEW k \in Nat, k \in X
      PROVE  k + 1 \in X
    <2> SUFFICES ASSUME NEW l \in Nat, (k + 1) + 1 < l, l <= n + 1, p[(k + 1) + 1] = p[l]
                 PROVE  FALSE
        OBVIOUS
    <2>1. /\ l - 1 \in 1..n /\ (l - 1) + 1 = l /\ l - 1 \in Nat
          /\ k + 1 \in 1..n /\ k + 1 < l - 1 /\ l - 1 <= n + 1
        OBVIOUS
    <2>2. p[l] \in ChildrenIn(rows, {p[l - 1]}) /\ p[l] \in ChildrenIn(rows, {p[k + 1]})
        BY <1>1, <2>1
    <2>3. p[l - 1] = p[k + 1]
        <3>1. \E q \in {p[l - 1]} \cap {p[k + 1]} : p[l] \in ChildrenIn(rows, {q})
            BY <2>2, OneParent
        <3> QED BY <3>1
    <2> QED BY <1>4, <2>1, <2>3
<1>5. \A k \in Nat : k \in X
    <2> HIDE DEF X
    <2> QED BY <1>3, <1>4, NatInduct
<1>6. i - 1 \in Nat /\ (i - 1) + 1 = i
    OBVIOUS
<1> QED
    BY <1>5, <1>6

(* So the tree comes to an end. *)
LEMMA TreesEnd ==
    ASSUME NEW rows, IsRows(rows)
    PROVE  Levels(rows, Roots(rows))[Cardinality(rows)] = {}
<1> DEFINE N == Cardinality(rows)
<1>1. N \in Nat /\ IsFiniteSet(IdsOf(rows)) /\ Cardinality(IdsOf(rows)) = N
    BY IdsAreFinite
<1> SUFFICES ASSUME NEW p \in Levels(rows, Roots(rows))[N]
             PROVE  FALSE
    OBVIOUS
<1>2. p \in Seq(IdsOf(rows)) /\ Len(p) = N + 1
    BY <1>1, RootsAreIds, PathShape
<1>3. \A i, j \in Nat : 1 <= i /\ i < j /\ j <= N + 1 => p[i] # p[j]
    BY <1>1, PathsAreSimple
<1> HIDE DEF N
<1>4. p \in [1..(N + 1) -> IdsOf(rows)]
    BY <1>1, <1>2
<1>5. IsFiniteSet(1..(N + 1)) /\ Cardinality(1..(N + 1)) = N + 1
    BY <1>1, FS_Interval
<1>6. Cardinality(IdsOf(rows)) < Cardinality(1..(N + 1))
    BY <1>1, <1>5
<1>7. PICK i, j \in 1..(N + 1) : i # j /\ p[i] = p[j]
    BY <1>1, <1>4, <1>5, <1>6, FS_PigeonHole
<1> QED
    BY <1>1, <1>3, <1>7

-----------------------------------------------------------------------------
(* One node for each session *)

(* A child of a is a child of no other session. *)
LEMMA ParentIsOne ==
    ASSUME NEW rows, IsRows(rows), NEW a, NEW D, NEW c,
           c \in ChildrenIn(rows, {a}), c \in ChildrenIn(rows, D)
    PROVE  a \in D
<1>1. \E p \in {a} \cap D : c \in ChildrenIn(rows, {p})
    BY OneParent
<1> QED
    BY <1>1

(* What a node of level n + 1 adds to one of level n. *)
LEMMA NodeStep ==
    ASSUME NEW rows, IsRows(rows), NEW R \in SUBSET IdsOf(rows),
           NEW n \in Nat, n + 1 <= Cardinality(rows), NEW p \in Levels(rows, R)[n + 1]
    PROVE  \E q \in Levels(rows, R)[n] :
              /\ q \in Seq(IdsOf(rows)) /\ Last(q) \in IdsOf(rows) /\ Len(q) = n + 1
              /\ Last(p) \in ChildrenIn(rows, {Last(q)})
              /\ p = Append(q, Last(p))
<1>1. Cardinality(rows) \in Nat
    BY IdsAreFinite
<1>2. PICK q \in Levels(rows, R)[n] : p \in NodeChildren(rows, q)
    BY LevelDef
<1>3. q \in Seq(IdsOf(rows)) /\ Last(q) \in IdsOf(rows) /\ Len(q) = n + 1
    BY <1>1, <1>2, PathShape
<1>4. PICK c \in ChildrenIn(rows, {Last(q)}) : p = Append(q, c)
    BY <1>2 DEF NodeChildren
<1>5. c \in IdsOf(rows)
    BY ChildrenAreIds
<1>6. Last(p) = c
    BY <1>3, <1>4, <1>5, AppendPath
<1> QED
    BY <1>2, <1>3, <1>4, <1>6

(* The same in a forest: a node stands below a node of the level before. *)
LEMMA NodeOfRootStep ==
    ASSUME NEW rows, IsRows(rows), NEW n \in Nat, n + 1 <= Cardinality(rows),
           NEW p \in Levels(rows, Roots(rows))[n + 1]
    PROVE  \E q \in Levels(rows, Roots(rows))[n] :
              /\ Last(q) \in IdsOf(rows)
              /\ Last(p) \in ChildrenIn(rows, {Last(q)})
              /\ p = Append(q, Last(p))
<1> DEFINE R == Roots(rows)
<1>1. R \in SUBSET IdsOf(rows)
    BY RootsAreIds
<1> HIDE DEF R
<1>2. \A t \in Levels(rows, R)[n + 1] : \E q \in Levels(rows, R)[n] :
              /\ q \in Seq(IdsOf(rows)) /\ Last(q) \in IdsOf(rows) /\ Len(q) = n + 1
              /\ Last(t) \in ChildrenIn(rows, {Last(q)})
              /\ t = Append(q, Last(t))
    BY <1>1, NodeStep
<1> QED
    BY <1>2 DEF R

(* The nodes of level 0 are the roots. *)
LEMMA RootNode ==
    ASSUME NEW rows, IsRows(rows), NEW p \in Levels(rows, Roots(rows))[0]
    PROVE  p = <<Last(p)>> /\ Last(p) \in Roots(rows)
<1>1. PICK r \in Roots(rows) : p = <<r>>
    BY RootsAreIds, LevelDef
<1> QED
    BY <1>1 DEF Last

(* A child within the rows is no root. *)
LEMMA ChildIsNoRoot ==
    ASSUME NEW rows, IsRows(rows), NEW D \in SUBSET IdsOf(rows), NEW c \in ChildrenIn(rows, D)
    PROVE  c \notin Roots(rows)
<1>1. c \in ChildrenIn(rows, IdsOf(rows))
    BY ChildIff
<1>2. c \in IdsOf(rows)
    BY ChildrenAreIds
<1> QED
    BY <1>1, <1>2, RootIff

(* A set that holds the parents of its members holds no node of a tree. *)
LEMMA NodesAreAcyclic ==
    ASSUME NEW rows, IsRows(rows), NEW C \in SUBSET IdsOf(rows),
           \A r \in rows : r.session \in C => r.parent \in C,
           NEW n \in Nat, n <= Cardinality(rows), NEW p \in Levels(rows, Roots(rows))[n]
    PROVE  Last(p) \notin C
<1> DEFINE N == Cardinality(rows)
           h == Levels(rows, Roots(rows))
           X == {k \in Nat : k <= N => \A q \in h[k] : Last(q) \notin C}
<1>1. N \in Nat
    BY IdsAreFinite
<1>2. \A c \in C : c \in ChildrenIn(rows, C)
    BY IdIff, ChildIff
<1>3. \A q \in h[0] : Last(q) \notin C
    <2> SUFFICES ASSUME NEW q \in h[0], Last(q) \in C
                 PROVE  FALSE
        OBVIOUS
    <2>1. Last(q) \in Roots(rows)
        BY RootNode
    <2>2. Last(q) \in ChildrenIn(rows, C)
        BY <1>2
    <2> QED BY <2>1, <2>2, ChildIsNoRoot
<1>4. ASSUME NEW k \in Nat, k + 1 <= N, \A q \in h[k] : Last(q) \notin C, NEW t \in h[k + 1]
      PROVE  Last(t) \notin C
    <2>1. PICK q \in h[k] : Last(t) \in ChildrenIn(rows, {Last(q)})
        BY <1>4, NodeOfRootStep
    <2>2. SUFFICES ASSUME Last(t) \in C
                   PROVE  FALSE
        OBVIOUS
    <2>3. Last(t) \in ChildrenIn(rows, C)
        BY <1>2, <2>2
    <2>4. Last(q) \in C
        BY <2>1, <2>3, ParentIsOne
    <2> QED BY <1>4, <2>4
<1> HIDE DEF h, N
<1>5. 0 \in X
    BY <1>3
<1>6. ASSUME NEW k \in Nat, k \in X
      PROVE  k + 1 \in X
    BY <1>1, <1>4, <1>6
<1>7. \A k \in Nat : k \in X
    <2> HIDE DEF X
    <2> QED BY <1>5, <1>6, NatInduct
<1> QED
    BY <1>1, <1>7 DEF h, N

(* Two nodes of one session are one node. *)
LEMMA OneNodeEach ==
    ASSUME NEW rows, IsRows(rows), NEW n \in Nat, n <= Cardinality(rows),
           NEW m \in Nat, m <= Cardinality(rows),
           NEW p \in Levels(rows, Roots(rows))[n], NEW q \in Levels(rows, Roots(rows))[m],
           Last(p) = Last(q)
    PROVE  p = q
<1> DEFINE N == Cardinality(rows)
           h == Levels(rows, Roots(rows))
           Same(k) == \A l \in Nat : k <= N /\ l <= N =>
                         \A s \in h[k], t \in h[l] : Last(s) = Last(t) => s = t
           X == {k \in Nat : Same(k)}
<1>1. N \in Nat
    BY IdsAreFinite
<1>2. \A s \in h[0] : s = <<Last(s)>> /\ Last(s) \in Roots(rows)
    BY RootNode
<1>3. ASSUME NEW k \in Nat, k + 1 <= N, NEW s \in h[k + 1]
      PROVE  /\ Last(s) \notin Roots(rows)
             /\ \E t \in h[k] : s = Append(t, Last(s)) /\ Last(s) \in ChildrenIn(rows, {Last(t)})
    <2>1. PICK t \in h[k] : /\ Last(t) \in IdsOf(rows)
                            /\ Last(s) \in ChildrenIn(rows, {Last(t)})
                            /\ s = Append(t, Last(s))
        BY <1>3, NodeOfRootStep
    <2>2. Last(s) \notin Roots(rows)
        BY <2>1, ChildIsNoRoot
    <2> QED BY <2>1, <2>2
<1> HIDE DEF h, N
<1>4. ASSUME NEW l \in Nat, l # 0
      PROVE  l - 1 \in Nat /\ (l - 1) + 1 = l
    BY <1>4
<1>5. Same(0)
    <2> SUFFICES ASSUME NEW l \in Nat, l <= N, NEW s \in h[0], NEW t \in h[l], Last(s) = Last(t)
                 PROVE  s = t
        OBVIOUS
    <2>1. CASE l = 0
        BY <1>2, <2>1
    <2>2. CASE l # 0
        <3>1. l - 1 \in Nat /\ (l - 1) + 1 = l /\ t \in h[(l - 1) + 1]
            BY <1>4, <2>2
        <3>2. Last(t) \notin Roots(rows)
            BY <1>3, <3>1
        <3> QED BY <1>2, <3>2
    <2> QED BY <2>1, <2>2
<1>6. ASSUME NEW k \in Nat, Same(k)
      PROVE  Same(k + 1)
    <2> SUFFICES ASSUME NEW l \in Nat, k + 1 <= N, l <= N, NEW s \in h[k + 1], NEW t \in h[l],
                        Last(s) = Last(t)
                 PROVE  s = t
        OBVIOUS
    <2>1. PICK u \in h[k] : s = Append(u, Last(s)) /\ Last(s) \in ChildrenIn(rows, {Last(u)})
        BY <1>3
    <2>2. l # 0
        BY <1>2, <1>3
    <2>3. PICK v \in h[l - 1] : t = Append(v, Last(t)) /\ Last(t) \in ChildrenIn(rows, {Last(v)})
        <3>1. l - 1 \in Nat /\ (l - 1) + 1 = l /\ t \in h[(l - 1) + 1]
            BY <1>4, <2>2
        <3> QED BY <1>3, <3>1
    <2>4. Last(u) = Last(v)
        <3>1. Last(s) \in ChildrenIn(rows, {Last(v)})
            BY <2>3
        <3>2. Last(u) \in {Last(v)}
            BY <2>1, <3>1, ParentIsOne
        <3> QED BY <3>2
    <2>5. k <= N /\ l - 1 \in Nat /\ l - 1 <= N
        BY <1>1, <2>2
    <2>6. u = v
        BY <1>6, <2>4, <2>5
    <2> QED BY <2>1, <2>3, <2>6
<1>7. \A k \in Nat : k \in X
    <2>1. 0 \in X /\ \A k \in Nat : k \in X => k + 1 \in X
        <3> HIDE DEF Same
        <3> QED BY <1>5, <1>6
    <2> HIDE DEF X
    <2> QED BY <2>1, NatInduct
<1>8. Same(n)
    <2> HIDE DEF Same
    <2> QED BY <1>7
<1> QED
    BY <1>8 DEF h, N

(* The forest is the union of its levels. *)
LEMMA ForestIff ==
    ASSUME NEW rows, NEW p
    PROVE  p \in Forest(rows) <=> \E n \in 0..Cardinality(rows) : p \in Levels(rows, Roots(rows))[n]
BY DEF Forest, BuildTree

(* The forest has a node for each session that no parent cycle is above. *)
LEMMA ForestIds ==
    ASSUME NEW rows, IsRows(rows)
    PROVE  CollectSessionIds(Forest(rows)) = IdsOf(rows) \ Cyclic(rows)
<1> DEFINE N == Cardinality(rows)
           h == Levels(rows, Roots(rows))
           F == CollectSessionIds(Forest(rows))
<1>1. N \in Nat
    BY IdsAreFinite
<1>2. \A s : s \in F <=> \E n \in 0..N : \E p \in h[n] : s = Last(p)
    BY ForestIff DEF CollectSessionIds
<1>3. F \subseteq IdsOf(rows)
    <2>1. ASSUME NEW n \in 0..N, NEW p \in h[n]
          PROVE  Last(p) \in IdsOf(rows)
        <3>1. n \in Nat /\ n <= N
            BY <1>1
        <3> QED BY <3>1, RootsAreIds, PathShape
    <2> HIDE DEF F, h, N
    <2> QED BY <1>2, <2>1
<1>4. ASSUME NEW C \in SUBSET IdsOf(rows), \A r \in rows : r.session \in C => r.parent \in C
      PROVE  F \cap C = {}
    <2>1. ASSUME NEW n \in 0..N, NEW p \in h[n]
          PROVE  Last(p) \notin C
        <3>1. n \in Nat /\ n <= N
            BY <1>1
        <3> QED BY <1>4, <3>1, NodesAreAcyclic
    <2> HIDE DEF F, h, N
    <2> QED BY <1>2, <2>1
<1>5. F \cap Cyclic(rows) = {}
    <2> HIDE DEF F
    <2> QED BY <1>4 DEF Cyclic
<1> DEFINE C == IdsOf(rows) \ F
<1>6. ASSUME NEW r \in rows, r.session \in C
      PROVE  r.parent \in C
    <2>1. ASSUME r.session \in Roots(rows)
          PROVE  r.session \in F
        <3>1. <<r.session>> \in h[0]
            BY <2>1, RootsAreIds, LevelDef
        <3>2. Last(<<r.session>>) = r.session
            BY DEF Last
        <3>3. 0 \in 0..N
            BY <1>1
        <3> HIDE DEF F, h, N
        <3> QED BY <1>2, <3>1, <3>2, <3>3
    <2>2. r.session \in IdsOf(rows) /\ r.session \notin F
        BY <1>6
    <2>3. r.session \in ChildrenIn(rows, IdsOf(rows))
        <3> HIDE DEF F
        <3> QED BY <2>1, <2>2, RootIff
    <2>4. r.parent \in IdsOf(rows) /\ r.session \in ChildrenIn(rows, {r.parent})
        <3>1. PICK q \in rows : q.session = r.session /\ q.parent \in IdsOf(rows)
            BY <2>3, ChildIff
        <3>2. q = r
            BY <3>1 DEF IsRows
        <3> QED BY <3>1, <3>2, ChildIff
    <2>5. ASSUME r.parent \in F
          PROVE  FALSE
        <3>1. PICK n \in 0..N : \E p \in h[n] : r.parent = Last(p)
            <4> HIDE DEF F, h, N
            <4> QED BY <1>2, <2>5
        <3>2. PICK p \in h[n] : r.parent = Last(p)
            BY <3>1
        <3>3. h[N] = {}
            BY TreesEnd
        <3>4. n \in Nat /\ n + 1 <= N /\ n + 1 \in 0..N
            <4> HIDE DEF h, N
            <4> QED BY <1>1, <3>2, <3>3
        <3>5. Append(p, r.session) \in h[n + 1]
            <4>1. Append(p, r.session) \in NodeChildren(rows, p)
                BY <2>4, <3>2 DEF NodeChildren
            <4>2. \A x : x \in h[n + 1] <=> \E q \in h[n] : x \in NodeChildren(rows, q)
                BY <3>4, RootsAreIds, LevelDef
            <4> HIDE DEF h
            <4> QED BY <4>1, <4>2
        <3>6. p \in Seq(IdsOf(rows))
            BY <3>4, RootsAreIds, PathShape
        <3>7. Last(Append(p, r.session)) = r.session
            BY <2>2, <3>6, AppendPath
        <3> HIDE DEF F, h, N
        <3> QED BY <1>2, <2>2, <3>4, <3>5, <3>7
    <2> QED BY <2>4, <2>5
<1>7. C \subseteq Cyclic(rows)
    <2>1. C \in SUBSET IdsOf(rows)
        OBVIOUS
    <2> HIDE DEF C
    <2> QED BY <1>6, <2>1 DEF Cyclic
<1> HIDE DEF F
<1> QED
    BY <1>3, <1>5, <1>7 DEF F

(* The forest of a trace comes to an end, and has every session of the trace *)
(* once, except those that no chain of parents leads to a root.              *)
THEOREM ForestCoversRows ==
    ASSUME NEW rows, IsRows(rows)
    PROVE  ForestCovers(rows)
<1> DEFINE f == [p \in Forest(rows) |-> Last(p)]
           F == CollectSessionIds(Forest(rows))
<1>1. Cardinality(rows) \in Nat
    BY IdsAreFinite
<1>2. ASSUME NEW p \in Forest(rows), NEW q \in Forest(rows), Last(p) = Last(q)
      PROVE  p = q
    <2>1. PICK n \in 0..Cardinality(rows) : p \in Levels(rows, Roots(rows))[n]
        BY ForestIff
    <2>2. PICK m \in 0..Cardinality(rows) : q \in Levels(rows, Roots(rows))[m]
        BY ForestIff
    <2>3. n \in Nat /\ n <= Cardinality(rows) /\ m \in Nat /\ m <= Cardinality(rows)
        BY <1>1
    <2> QED BY <1>2, <2>1, <2>2, <2>3, OneNodeEach
<1>3. f \in Bijection(Forest(rows), F)
    BY <1>2 DEF CollectSessionIds, Bijection, Injection, Surjection, IsInjective
<1>4. F = IdsOf(rows) \ Cyclic(rows)
    BY ForestIds
<1>5. IsFiniteSet(F)
    <2> HIDE DEF F
    <2> QED BY <1>4, IdsAreFinite, FS_Difference
<1>6. f \in Injection(Forest(rows), F) /\ f \in Surjection(Forest(rows), F)
    BY <1>3 DEF Bijection
<1>7. IsFiniteSet(Forest(rows)) /\ Cardinality(Forest(rows)) = Cardinality(F)
    <2> HIDE DEF F, f
    <2> QED BY <1>5, <1>6, FS_Injection
<1> HIDE DEF F
<1> QED
    BY <1>4, <1>7, TreesEnd DEF ForestCovers, F

-----------------------------------------------------------------------------
(* Depth *)

(* The sessions at and above a child are those of its parent and itself. *)
LEMMA AboveChild ==
    ASSUME NEW rows, IsRows(rows), NEW a \in IdsOf(rows), NEW c \in ChildrenIn(rows, {a})
    PROVE  Above(rows, c) = Above(rows, a) \cup {c}
<1>1. c \in IdsOf(rows) /\ c \in Below(rows, c)
    BY ChildrenAreIds, BelowIsClosed
<1>2. ASSUME NEW x \in IdsOf(rows), a \in Below(rows, x)
      PROVE  c \in Below(rows, x)
    <2>1. c \in ChildrenIn(rows, Below(rows, x))
        BY <1>2, ChildIff
    <2> QED BY <2>1, BelowIsClosed
<1>3. ASSUME NEW x \in IdsOf(rows), c \in Below(rows, x), c # x
      PROVE  a \in Below(rows, x)
    <2>1. PICK p \in Below(rows, x) : c \in ChildrenIn(rows, {p})
        BY <1>3, BelowParent
    <2>2. a \in {p}
        BY <2>1, ParentIsOne
    <2> QED BY <2>1, <2>2
<1>4. \A x : x \in Above(rows, c) <=> x \in Above(rows, a) \/ x = c
    BY <1>1, <1>2, <1>3 DEF Above
<1> QED
    BY <1>4

(* Only the root itself is above a root. *)
LEMMA AboveRoot ==
    ASSUME NEW rows, IsRows(rows), NEW r \in Roots(rows)
    PROVE  Above(rows, r) = {r}
<1>1. r \in IdsOf(rows) /\ r \in Below(rows, r)
    BY RootsAreIds, BelowIsClosed
<1>2. ASSUME NEW x \in IdsOf(rows), r \in Below(rows, x), r # x
      PROVE  FALSE
    <2>1. PICK p \in Below(rows, x) : r \in ChildrenIn(rows, {p})
        BY <1>2, BelowParent
    <2>2. r \in ChildrenIn(rows, IdsOf(rows))
        <3>1. p \in IdsOf(rows)
            BY BelowIsClosed
        <3> QED BY <2>1, <3>1, ChildIff
    <2> QED BY <1>1, <2>2, RootIff
<1> QED
    BY <1>1, <1>2 DEF Above

(* A node's path is the chain of its ancestors. *)
LEMMA PathIsAbove ==
    ASSUME NEW rows, IsRows(rows), NEW n \in Nat, n <= Cardinality(rows),
           NEW p \in Levels(rows, Roots(rows))[n]
    PROVE  Above(rows, Last(p)) = {p[i] : i \in 1..(n + 1)}
<1> DEFINE N == Cardinality(rows)
           h == Levels(rows, Roots(rows))
           Chain(q, k) == Above(rows, Last(q)) = {q[i] : i \in 1..(k + 1)}
           X == {k \in Nat : k <= N => \A q \in h[k] : Chain(q, k)}
<1>1. N \in Nat
    BY IdsAreFinite
<1>2. ASSUME NEW q \in h[0]
      PROVE  Chain(q, 0)
    <2>1. q = <<Last(q)>> /\ Last(q) \in Roots(rows)
        BY RootNode
    <2> DEFINE r == Last(q)
    <2> HIDE DEF r
    <2>2. Above(rows, r) = {r}
        BY <2>1, AboveRoot DEF r
    <2>3. q[1] = r /\ 1..(0 + 1) = {1}
        BY <2>1 DEF r
    <2> QED BY <2>2, <2>3 DEF r
<1>3. ASSUME NEW k \in Nat, k + 1 <= N, NEW q \in h[k + 1], \A t \in h[k] : Chain(t, k)
      PROVE  Chain(q, k + 1)
    <2>1. PICK t \in h[k] : /\ Last(t) \in IdsOf(rows)
                            /\ Last(q) \in ChildrenIn(rows, {Last(t)})
                            /\ q = Append(t, Last(q))
        BY <1>3, NodeOfRootStep
    <2>2. t \in Seq(IdsOf(rows)) /\ Len(t) = k + 1 /\ Last(q) \in IdsOf(rows)
        <3>1. k <= N
            BY <1>1, <1>3
        <3> QED BY <2>1, <3>1, RootsAreIds, PathShape, ChildrenAreIds
    <2>3. q[k + 2] = Last(q) /\ \A i \in 1..(k + 1) : q[i] = t[i]
        <3>1. /\ \A i \in 1..Len(t) : Append(t, Last(q))[i] = t[i]
              /\ Append(t, Last(q))[Len(t) + 1] = Last(q)
            BY <2>2, AppendPath
        <3>2. Len(t) + 1 = k + 2
            BY <2>2
        <3> QED BY <2>1, <2>2, <3>1, <3>2
    <2>4. Above(rows, Last(q)) = {t[i] : i \in 1..(k + 1)} \cup {Last(q)}
        <3>1. Above(rows, Last(q)) = Above(rows, Last(t)) \cup {Last(q)}
            BY <2>1, AboveChild
        <3> QED BY <1>3, <3>1
    <2>5. 1..((k + 1) + 1) = 1..(k + 1) \cup {k + 2}
        OBVIOUS
    <2> HIDE DEF h
    <2> QED BY <2>3, <2>4, <2>5
<1> HIDE DEF h, N
<1>4. 0 \in X
    BY <1>2
<1>5. ASSUME NEW k \in Nat, k \in X
      PROVE  k + 1 \in X
    <2> HIDE DEF Chain
    <2> QED BY <1>1, <1>3, <1>5
<1>6. n \in X
    <2> HIDE DEF X
    <2> QED BY <1>4, <1>5, NatInduct
<1> QED
    BY <1>6 DEF h, N

(* The reported depth is the length of the longest chain of parents that ends *)
(* at a root, up to the limit.                                               *)
LEMMA DepthOfRows ==
    ASSUME NEW rows, IsRows(rows)
    PROVE  DepthIsLongestChain(rows)
<1>1. Cardinality(rows) \in Nat
    BY IdsAreFinite
<1>2. ASSUME NEW p \in Forest(rows)
      PROVE  Cardinality(Above(rows, Last(p))) = Len(p)
    <2>1. PICK n \in 0..Cardinality(rows) : p \in Levels(rows, Roots(rows))[n]
        BY ForestIff
    <2>2. n \in Nat /\ n <= Cardinality(rows)
        BY <1>1
    <2>3. p \in Seq(IdsOf(rows)) /\ Len(p) = n + 1
        BY <2>1, <2>2, RootsAreIds, PathShape
    <2>4. Above(rows, Last(p)) = {p[i] : i \in 1..(n + 1)}
        BY <2>1, <2>2, PathIsAbove
    <2>5. \A i, j \in 1..(n + 1) : p[i] = p[j] => i = j
        <3>1. \A i, j \in Nat : 1 <= i /\ i < j /\ j <= n + 1 => p[i] # p[j]
            BY <2>1, <2>2, PathsAreSimple
        <3> QED BY <2>2, <3>1
    <2> DEFINE A == {p[i] : i \in 1..(n + 1)}
               f == [i \in 1..(n + 1) |-> p[i]]
    <2>6. f \in Bijection(1..(n + 1), A)
        BY <2>5 DEF Bijection, Injection, Surjection, IsInjective
    <2>7. IsFiniteSet(1..(n + 1)) /\ Cardinality(1..(n + 1)) = n + 1
        BY <2>2, FS_Interval
    <2>8. Cardinality(A) = n + 1
        <3> HIDE DEF A, f
        <3>1. ExistsBijection(1..(n + 1), A)
            BY <2>6 DEF ExistsBijection
        <3> QED BY <2>7, <3>1, FS_Bijection
    <2> QED BY <2>3, <2>4, <2>8
<1>3. IdsOf(rows) \ Cyclic(rows) = {Last(p) : p \in Forest(rows)}
    BY ForestIds DEF CollectSessionIds
<1>4. {Cardinality(Above(rows, s)) : s \in IdsOf(rows) \ Cyclic(rows)}
      = {Len(p) : p \in Forest(rows)}
    BY <1>2, <1>3
<1> QED
    BY <1>4 DEF DepthIsLongestChain, MaxDepth

-----------------------------------------------------------------------------
(* Causation graphs *)

UniqueIds(E) == \A e, f \in E : e.id = f.id => e = f

CausedIn(E) == {e \in E : HasInGraphParent(E, e)}

Edge(E, e) ==
    [from |-> e.causation_id, to |-> e.id,
     cross |-> (CHOOSE f \in E : f.id = e.causation_id).session_id # e.session_id]

(* The parts of a causation graph. *)
LEMMA GraphParts ==
    ASSUME NEW E
    PROVE  LET g == WorkflowGraph(E) IN
           /\ g.nodes = {e.id : e \in E}
           /\ g.edges = {Edge(E, e) : e \in CausedIn(E)}
           /\ g.roots = {e.id : e \in E \ CausedIn(E)}
           /\ g.sessions = [s \in {e.session_id : e \in E} |->
                               Cardinality({e \in E : e.session_id = s})]
BY DEF WorkflowGraph, Edge, CausedIn

(* A causation graph has its edges between its own nodes and one edge into    *)
(* each node that is not a root, and it counts each event once.               *)
LEMMA GraphOfEvents ==
    ASSUME NEW E, IsFiniteSet(E), UniqueIds(E)
    PROVE  GraphIsConsistent(E)
<1> DEFINE g == WorkflowGraph(E)
           C == CausedIn(E)
           R == E \ C
<1>1. /\ g.nodes = {e.id : e \in E}
      /\ g.edges = {Edge(E, e) : e \in C}
      /\ g.roots = {e.id : e \in R}
      /\ g.sessions = [s \in {e.session_id : e \in E} |-> Cardinality({e \in E : e.session_id = s})]
    BY GraphParts
<1>2. \A e : Edge(E, e).to = e.id /\ Edge(E, e).from = e.causation_id
    BY DEF Edge
<1>3. C \subseteq E /\ R \subseteq E
    BY DEF CausedIn
<1>4. \A e, f \in E : e.id = f.id => e = f
    BY DEF UniqueIds
<1>5. \A e \in C : e.causation_id # e.id /\ \E f \in E : f.id = e.causation_id
    BY DEF CausedIn, HasInGraphParent
<1>6. R \cap C = {} /\ R \cup C = E
    BY <1>3
<1>7. Cardinality(g.edges) = Cardinality(C)
    <2> DEFINE f == [e \in C |-> Edge(E, e)]
    <2>1. \A a, b \in C : Edge(E, a) = Edge(E, b) => a = b
        BY <1>2, <1>3, <1>4
    <2>2. f \in Bijection(C, {Edge(E, e) : e \in C})
        <3> HIDE DEF C
        <3> QED BY <2>1 DEF Bijection, Injection, Surjection, IsInjective
    <2>3. ExistsBijection(C, g.edges)
        BY <1>1, <2>2 DEF ExistsBijection
    <2>4. IsFiniteSet(C)
        BY <1>3, FS_Subset
    <2> QED BY <2>3, <2>4, FS_Bijection
<1>8. \A A \in SUBSET E : IsFiniteSet(A) /\ Cardinality({e.id : e \in A}) = Cardinality(A)
    <2> SUFFICES ASSUME NEW A \in SUBSET E
                 PROVE  IsFiniteSet(A) /\ Cardinality({e.id : e \in A}) = Cardinality(A)
        OBVIOUS
    <2> DEFINE f == [e \in A |-> e.id]
    <2>1. f \in Bijection(A, {e.id : e \in A})
        BY <1>4 DEF Bijection, Injection, Surjection, IsInjective
    <2>2. ExistsBijection(A, {e.id : e \in A})
        BY <2>1 DEF ExistsBijection
    <2>3. IsFiniteSet(A)
        BY FS_Subset
    <2> QED BY <2>2, <2>3, FS_Bijection
<1>9. Cardinality(g.nodes) = Cardinality(E) /\ Cardinality(g.roots) = Cardinality(R)
    BY <1>1, <1>3, <1>8
<1>10. Cardinality(C) + Cardinality(R) = Cardinality(E)
    <2> HIDE DEF C, R, g
    <2>1. IsFiniteSet(C) /\ IsFiniteSet(R)
        BY <1>3, FS_Subset
    <2>2. Cardinality(R \cup C) = Cardinality(R) + Cardinality(C) - Cardinality(R \cap C)
        BY <2>1, FS_Union
    <2>3. Cardinality(R \cap C) = 0
        BY <1>6, FS_EmptySet
    <2>4. Cardinality(R) \in Nat /\ Cardinality(C) \in Nat
        BY <2>1, FS_CardinalityType
    <2>5. Cardinality(E) = Cardinality(R) + Cardinality(C) - 0
        BY <1>6, <2>2, <2>3
    <2> QED BY <2>4, <2>5
<1>11. {x.to : x \in g.edges} = {e.id : e \in C}
    <2> HIDE DEF C, R, g
    <2> QED BY <1>1, <1>2
<1>12. SumFunction(g.sessions) = Cardinality(E)
    <2> DEFINE S == {e.session_id : e \in E}
               k == [e \in E |-> e.session_id]
               f == [s \in S |-> Cardinality({e \in E : e.session_id = s})]
    <2>1. IsFiniteSet(S)
        <3>1. k \in Surjection(E, S)
            BY DEF Surjection
        <3> QED BY <3>1, FS_Surjection
    <2>2. \A e \in E : k[e] \in S
        OBVIOUS
    <2>3. \A s \in S : f[s] = Cardinality({e \in E : k[e] = s})
        <3> SUFFICES ASSUME NEW s \in S
                     PROVE  {e \in E : k[e] = s} = {e \in E : e.session_id = s}
            OBVIOUS
        <3> QED OBVIOUS
    <2>4. g.sessions = f /\ DOMAIN f = S
        BY <1>1
    <2> HIDE DEF S, k, f, g
    <2>5. CountsBy(E, S, k, f)
        BY <2>2, <2>3 DEF CountsBy
    <2>6. SumFunctionOnSet(f, S) = Cardinality(E)
        BY <2>1, <2>5, GroupsAddUp
    <2> QED BY <2>4, <2>6 DEF SumFunction
<1> HIDE DEF C, R
<1>13. g.roots \cup {x.to : x \in g.edges} = g.nodes /\ g.roots \cap {x.to : x \in g.edges} = {}
    <2>1. {e.id : e \in R} \cup {e.id : e \in C} = {e.id : e \in E}
        BY <1>6
    <2>2. ASSUME NEW e \in R, NEW f \in C, e.id = f.id
          PROVE  FALSE
        BY <1>3, <1>4, <1>6, <2>2
    <2>3. {e.id : e \in R} \cap {e.id : e \in C} = {}
        BY <2>2
    <2> HIDE DEF g
    <2> QED BY <1>1, <1>11, <2>1, <2>3
<1>14. \A x \in g.edges : x.from \in g.nodes /\ x.from # x.to
    <2> HIDE DEF g
    <2> QED BY <1>1, <1>2, <1>5
<1>15. Cardinality(g.edges) + Cardinality(g.roots) = Cardinality(g.nodes)
    BY <1>7, <1>9, <1>10
<1> HIDE DEF g
<1> QED
    BY <1>12, <1>13, <1>14, <1>15 DEF GraphIsConsistent, g

-----------------------------------------------------------------------------
(* The store *)

(* A session row that event e made. *)
RowOf(e, u) ==
    [session |-> e.session_id, tenant |-> e.tenant, trace |-> e.trace_id,
     parent  |-> e.parent_session_id, updated |-> u]

(* Session rows, one for each id, that events of E made. *)
MadeFrom(rows, E) ==
    /\ IsFiniteSet(rows)
    /\ \A q, r \in rows : q.session = r.session => q = r
    /\ \A r \in rows : \E e \in E, u \in Int : r = RowOf(e, u)

(* The stored events are among those that emitters may send, and these made   *)
(* the session rows.  A stored event's session has a row unless tenants share *)
(* session ids: there the row goes when its tenant has no event left.         *)
StoreInv ==
    /\ emitted \in Worlds
    /\ events \subseteq emitted
    /\ MadeFrom(sessions, emitted)
    /\ Plain(emitted) => \A e \in events : e.session_id \in IdsOf(sessions)

(* What WorldAssumption says of one world. *)
LEMMA WorldFacts ==
    ASSUME NEW w \in Worlds
    PROVE  /\ IsFiniteSet(w)
           /\ UniqueIds(w)
           /\ \A e \in w : /\ DOMAIN e = Fields
                           /\ e.id \in Int /\ e.time \in Int
                           /\ e.session_id \in Int /\ e.trace_id \in Int
BY WorldAssumption DEF UniqueIds

(* What a row says. *)
LEMMA RowFields ==
    ASSUME NEW w \in Worlds, NEW e \in w, NEW u \in Int
    PROVE  LET r == RowOf(e, u) IN
           /\ r.session = e.session_id /\ r.session \in Int
           /\ r.trace = e.trace_id /\ r.trace \in Int
           /\ r.tenant = e.tenant /\ r.parent = e.parent_session_id
           /\ r.updated = u /\ r.updated \in Int
BY WorldFacts DEF RowOf

(* The rows that events of a world made are session rows. *)
LEMMA MadeRows ==
    ASSUME NEW w \in Worlds, NEW rows, MadeFrom(rows, w)
    PROVE  /\ IsRows(rows)
           /\ \A r \in rows : r.session \in Int /\ r.trace \in Int /\ r.updated \in Int
           /\ \A r \in rows : \E e \in w :
                 /\ r.session = e.session_id /\ r.tenant = e.tenant
                 /\ r.trace = e.trace_id /\ r.parent = e.parent_session_id
<1>1. ASSUME NEW r \in rows
      PROVE  /\ r.session \in Int /\ r.trace \in Int /\ r.updated \in Int
             /\ \E e \in w : /\ r.session = e.session_id /\ r.tenant = e.tenant
                             /\ r.trace = e.trace_id /\ r.parent = e.parent_session_id
    <2>1. PICK e \in w, u \in Int : r = RowOf(e, u)
        BY DEF MadeFrom
    <2> QED BY <2>1, RowFields
<1> QED
    BY <1>1 DEF IsRows, MadeFrom

(* A row with another last activity is made by the same event. *)
LEMMA RowMoved ==
    ASSUME NEW w, NEW e \in w, NEW u, NEW v
    PROVE  [RowOf(e, u) EXCEPT !.updated = v] = RowOf(e, v)
BY DEF RowOf

(* The rows of which the old ones were replaced, some of them by another.     *)
Replaced(rows, old, some, moved) == (rows \ old) \cup {moved[r] : r \in some}

Moves(some, moved) == \A r \in some : \E u \in Int : moved[r] = [r EXCEPT !.updated = u]

(* Rows of which some were replaced, each by one of the same event. *)
LEMMA RowsReplaced ==
    ASSUME NEW w \in Worlds, NEW rows, MadeFrom(rows, w), NEW old \in SUBSET rows,
           NEW some \in SUBSET old, NEW moved,
           Moves(some, moved)
    PROVE  /\ MadeFrom(Replaced(rows, old, some, moved), w)
           /\ IdsOf(Replaced(rows, old, some, moved)) = IdsOf((rows \ old) \cup some)
<1> DEFINE M == {moved[r] : r \in some}
           new == (rows \ old) \cup M
<1>1. ASSUME NEW r \in rows, NEW u \in Int
      PROVE  /\ [r EXCEPT !.updated = u].session = r.session
             /\ \E e \in w, v \in Int : [r EXCEPT !.updated = u] = RowOf(e, v)
    <2>1. PICK e \in w, v \in Int : r = RowOf(e, v)
        BY DEF MadeFrom
    <2>2. [r EXCEPT !.updated = u] = RowOf(e, u)
        BY <2>1, RowMoved
    <2>3. r.session = e.session_id /\ RowOf(e, u).session = e.session_id
        BY <2>1, RowFields
    <2> QED BY <2>2, <2>3
<1>a. ASSUME NEW r \in some
      PROVE  moved[r].session = r.session /\ \E e \in w, v \in Int : moved[r] = RowOf(e, v)
    <2>1. PICK u \in Int : moved[r] = [r EXCEPT !.updated = u]
        BY DEF Moves
    <2> QED BY <1>1, <2>1
<1>2. \A q \in M : \E r \in some : /\ q = moved[r]
                                   /\ q.session = r.session
                                   /\ \E e \in w, v \in Int : q = RowOf(e, v)
    BY <1>a
<1>3. \A r \in some : \E q \in M : q.session = r.session
    BY <1>a
<1>4. IsFiniteSet(new)
    <2>1. IsFiniteSet(some) /\ IsFiniteSet(rows \ old)
        <3>1. IsFiniteSet(rows) /\ some \in SUBSET rows /\ (rows \ old) \in SUBSET rows
            BY DEF MadeFrom
        <3> QED BY <3>1, FS_Subset
    <2>3. IsFiniteSet(M)
        BY <2>1, ImageIsFinite
    <2> HIDE DEF M
    <2> QED BY <2>1, <2>3, FS_Union
<1> HIDE DEF M
<1>5. ASSUME NEW q \in new, NEW r \in new, q.session = r.session
      PROVE  q = r
    <2>1. \A x, y \in rows : x.session = y.session => x = y
        BY DEF MadeFrom
    <2>2. CASE q \in rows \ old /\ r \in rows \ old
        BY <1>5, <2>1, <2>2
    <2>3. CASE q \in M /\ r \in M
        <3>1. PICK x \in some : q = moved[x] /\ q.session = x.session
            BY <1>2, <2>3
        <3>2. PICK y \in some : r = moved[y] /\ r.session = y.session
            BY <1>2, <2>3
        <3>3. x = y
            BY <1>5, <2>1, <3>1, <3>2
        <3> QED BY <3>1, <3>2, <3>3
    <2>4. CASE q \in rows \ old /\ r \in M
        <3>1. PICK y \in some : r.session = y.session
            BY <1>2, <2>4
        <3> QED BY <1>5, <2>1, <2>4, <3>1
    <2>5. CASE q \in M /\ r \in rows \ old
        <3>1. PICK x \in some : q.session = x.session
            BY <1>2, <2>5
        <3> QED BY <1>5, <2>1, <2>5, <3>1
    <2> QED BY <2>2, <2>3, <2>4, <2>5
<1>6. \A r \in new : \E e \in w, u \in Int : r = RowOf(e, u)
    BY <1>2 DEF MadeFrom
<1>7. IdsOf(new) = IdsOf((rows \ old) \cup some)
    <2>1. \A s : s \in IdsOf(new) <=> s \in IdsOf((rows \ old) \cup some)
        BY <1>2, <1>3, IdIff
    <2> HIDE DEF new
    <2> QED BY <2>1
<1> QED
    BY <1>4, <1>5, <1>6, <1>7 DEF MadeFrom, M, Replaced

(* The upsert of an event keeps all rows and adds that of its session. *)
LEMMA UpsertRows ==
    ASSUME NEW w \in Worlds, NEW rows, MadeFrom(rows, w), NEW e \in w
    PROVE  /\ MadeFrom(Upsert(rows, e), w)
           /\ IdsOf(Upsert(rows, e)) = IdsOf(rows) \cup {e.session_id}
<1> DEFINE old == {r \in rows : r.session = e.session_id}
           moved == [r \in old |-> [r EXCEPT !.updated = Max({r.updated, e.time})]]
           M == {[r EXCEPT !.updated = Max({r.updated, e.time})] : r \in old}
<1>1. CASE old = {}
    <2>1. Upsert(rows, e) = rows \cup {SessionRow(e)}
        BY <1>1 DEF Upsert
    <2>2. SessionRow(e) = RowOf(e, e.time) /\ e.time \in Int
        BY WorldFacts DEF SessionRow, RowOf
    <2>3. SessionRow(e).session = e.session_id
        BY DEF SessionRow
    <2>4. \A r \in rows : r.session # e.session_id
        BY <1>1
    <2>5. IsFiniteSet(rows \cup {SessionRow(e)})
        BY FS_AddElement DEF MadeFrom
    <2>6. MadeFrom(rows \cup {SessionRow(e)}, w)
        BY <2>2, <2>3, <2>4, <2>5 DEF MadeFrom
    <2>7. IdsOf(rows \cup {SessionRow(e)}) = IdsOf(rows) \cup {e.session_id}
        BY <2>3 DEF IdsOf
    <2> QED BY <2>1, <2>6, <2>7
<1>2. CASE old # {}
    <2>1. Upsert(rows, e) = (rows \ old) \cup M
        BY <1>2 DEF Upsert
    <2>2. (rows \ old) \cup M = Replaced(rows, old, old, moved)
        BY DEF Replaced
    <2>3. Moves(old, moved)
        <3> SUFFICES ASSUME NEW r \in old PROVE Max({r.updated, e.time}) \in Int
            BY DEF Moves
        <3>1. r.updated \in Int /\ e.time \in Int
            BY MadeRows, WorldFacts
        <3>2. IsFiniteSet({r.updated, e.time})
            <4>1. IsFiniteSet({r.updated} \cup {e.time})
                BY FS_Singleton, FS_Union
            <4>2. {r.updated} \cup {e.time} = {r.updated, e.time}
                OBVIOUS
            <4> QED BY <4>1, <4>2
        <3>3. {r.updated, e.time} \in SUBSET Int /\ {r.updated, e.time} # {}
            BY <3>1
        <3>4. Max({r.updated, e.time}) \in {r.updated, e.time}
            BY <3>2, <3>3, MaxOfInts
        <3> QED BY <3>3, <3>4
    <2>4. old \in SUBSET rows /\ (rows \ old) \cup old = rows
        OBVIOUS
    <2>5. e.session_id \in IdsOf(rows)
        BY <1>2 DEF IdsOf
    <2> HIDE DEF old, moved, M
    <2>6. /\ MadeFrom(Replaced(rows, old, old, moved), w)
          /\ IdsOf(Replaced(rows, old, old, moved)) = IdsOf((rows \ old) \cup old)
        BY <2>3, <2>4, RowsReplaced
    <2>7. MadeFrom((rows \ old) \cup M, w) /\ IdsOf((rows \ old) \cup M) = IdsOf(rows)
        BY <2>2, <2>4, <2>6
    <2>8. IdsOf(rows) = IdsOf(rows) \cup {e.session_id}
        BY <2>5
    <2> QED BY <2>1, <2>7, <2>8
<1> QED
    BY <1>1, <1>2

(* The prune of a tenant keeps a row if it lost nothing, is another tenant's, *)
(* or has an event of its tenant left.                                        *)
LEMMA ReconciledRows ==
    ASSUME NEW w \in Worlds, NEW rows, MadeFrom(rows, w), NEW t, NEW lost,
           NEW left \in SUBSET w
    PROVE  /\ MadeFrom(Reconciled(rows, t, lost, left), w)
           /\ \A r \in rows, e \in left :
                 r.session = e.session_id /\ r.tenant = e.tenant
                 => r.session \in IdsOf(Reconciled(rows, t, lost, left))
<1> DEFINE old == {r \in rows : r.tenant = t /\ \E e \in lost : e.session_id = r.session}
           own(r) == {e \in left : e.tenant = t /\ e.session_id = r.session}
           some == {r \in old : own(r) # {}}
           moved == [r \in some |-> [r EXCEPT !.updated = Max({e.time : e \in own(r)})]]
           M == {[r EXCEPT !.updated = Max({e.time : e \in own(r)})] : r \in some}
<1>1. Reconciled(rows, t, lost, left) = (rows \ old) \cup M
    BY DEF Reconciled
<1>2. old \in SUBSET rows /\ some \in SUBSET old
    OBVIOUS
<1>3. (rows \ old) \cup M = Replaced(rows, old, some, moved)
    BY DEF Replaced
<1>4. Moves(some, moved)
    <2> SUFFICES ASSUME NEW r \in some PROVE Max({e.time : e \in own(r)}) \in Int
        BY DEF Moves
    <2> DEFINE E == own(r)
               time == [e \in E |-> e.time]
               T == {e.time : e \in E}
    <2>1. E \in SUBSET w /\ E # {}
        OBVIOUS
    <2> HIDE DEF E
    <2>2. \A e \in E : e.time \in Int
        BY <2>1, WorldFacts
    <2>3. T = {time[e] : e \in E}
        OBVIOUS
    <2>4. T \in SUBSET Int /\ T # {}
        BY <2>1, <2>2
    <2> HIDE DEF T, time
    <2>5. IsFiniteSet(E)
        BY <2>1, WorldFacts, FS_Subset
    <2>6. IsFiniteSet(T)
        BY <2>3, <2>5, ImageIsFinite
    <2>7. Max(T) \in Int
        BY <2>4, <2>6, MaxOfInts
    <2> QED BY <2>7 DEF T, E
<1>5. ASSUME NEW r \in rows, NEW e \in left, r.session = e.session_id, r.tenant = e.tenant
      PROVE  r \in (rows \ old) \cup some
    <2>1. CASE r \in old
        <3>1. e \in own(r)
            BY <1>5, <2>1
        <3> QED BY <2>1, <3>1
    <2> QED BY <2>1
<1> HIDE DEF old, some, moved, M
<1>6. /\ MadeFrom((rows \ old) \cup M, w)
      /\ IdsOf((rows \ old) \cup M) = IdsOf((rows \ old) \cup some)
    <2>1. /\ MadeFrom(Replaced(rows, old, some, moved), w)
          /\ IdsOf(Replaced(rows, old, some, moved)) = IdsOf((rows \ old) \cup some)
        BY <1>2, <1>4, RowsReplaced
    <2> QED BY <1>3, <2>1
<1> QED
    BY <1>1, <1>5, <1>6, IdIff

(* So is every part of them. *)
LEMMA PartOfRows ==
    ASSUME NEW rows, IsRows(rows), NEW part \in SUBSET rows
    PROVE  IsRows(part)
BY FS_Subset DEF IsRows

(* TreesAreComplete, in every state whose rows came from one world.           *)
LEMMA TreesOfStore ==
    ASSUME StoreInv
    PROVE  TreesAreComplete
<1>1. emitted \in Worlds /\ events \in SUBSET emitted /\ IsRows(sessions)
    BY MadeRows DEF StoreInv
<1>2. TreeCovers(sessions) /\ DepthIsLongestChain(sessions)
    BY <1>1, TreeCoversRows, DepthOfRows
<1>3. ASSUME NEW t
      PROVE  ForestCovers(TraceRows(sessions, t, None))
    <2>1. TraceRows(sessions, t, None) \in SUBSET sessions
        BY DEF TraceRows, Seen
    <2> QED BY <1>1, <2>1, PartOfRows, ForestCoversRows
<1>4. ASSUME NEW t
      PROVE  GraphIsConsistent({e \in events : e.trace_id = t})
    <2> DEFINE own == {e \in events : e.trace_id = t}
    <2>1. IsFiniteSet(own) /\ UniqueIds(own)
        <3>1. IsFiniteSet(emitted) /\ UniqueIds(emitted) /\ own \in SUBSET emitted
            BY <1>1, WorldFacts
        <3> HIDE DEF own
        <3> QED BY <3>1, FS_Subset DEF UniqueIds
    <2> HIDE DEF own
    <2> QED BY <2>1, GraphOfEvents DEF own
<1> QED
    BY <1>2, <1>3, <1>4 DEF TreesAreComplete

(* Only inserts and prunes change the store. *)
LEMMA StoreKept ==
    ASSUME [Next]_vars, ~Insert, ~Prune
    PROVE  UNCHANGED store
<1>1. BeginWalk \/ NextPage \/ Answer => UNCHANGED store
    BY Zenon DEF BeginWalk, NextPage, Answer
<1>2. BeginAudit \/ ReadMetrics \/ ReadPolicy => UNCHANGED store
    BY Zenon DEF BeginAudit, ReadMetrics, ReadPolicy
<1>3. ReadScope \/ ReadRows \/ Build => UNCHANGED store
    BY Zenon DEF ReadScope, ReadRows, Build
<1>4. BeginMetrics \/ ReadCount => UNCHANGED store
    BY Zenon DEF BeginMetrics, ReadCount
<1>5. UNCHANGED vars => UNCHANGED store
    BY DEF vars, store
<1> QED
    BY <1>1, <1>2, <1>3, <1>4, <1>5 DEF Next

(* The stored events and the session rows stay those of the world. *)
LEMMA StoreStep ==
    ASSUME StoreInv, [Next]_vars
    PROVE  StoreInv'
<1>1. CASE Insert
    <2>1. PICK e \in emitted : /\ events' = events \cup {e}
                               /\ sessions' = Upsert(sessions, e)
                               /\ UNCHANGED emitted
        BY <1>1 DEF Insert
    <2>2. /\ MadeFrom(Upsert(sessions, e), emitted)
          /\ IdsOf(Upsert(sessions, e)) = IdsOf(sessions) \cup {e.session_id}
        BY UpsertRows DEF StoreInv
    <2> QED BY <2>1, <2>2 DEF StoreInv
<1>2. CASE Prune
    <2>1. PICK t, lost : /\ events' = events \ lost
                         /\ sessions' = Reconciled(sessions, t, lost, events')
                         /\ UNCHANGED emitted
        BY <1>2 DEF Prune
    <2>2. events' \in SUBSET emitted /\ events' \subseteq events
        BY <2>1 DEF StoreInv
    <2>3. /\ MadeFrom(Reconciled(sessions, t, lost, events'), emitted)
          /\ \A r \in sessions, e \in events' :
                r.session = e.session_id /\ r.tenant = e.tenant
                => r.session \in IdsOf(Reconciled(sessions, t, lost, events'))
        BY <2>2, ReconciledRows DEF StoreInv
    <2>4. ASSUME Plain(emitted), NEW e \in events'
          PROVE  e.session_id \in IdsOf(sessions')
        <3>1. PICK r \in sessions : r.session = e.session_id
            BY <2>2, <2>4, IdIff DEF StoreInv
        <3>2. PICK f \in emitted : r.session = f.session_id /\ r.tenant = f.tenant
            BY MadeRows DEF StoreInv
        <3>3. r.tenant = e.tenant
            BY <2>2, <2>4, <3>1, <3>2 DEF Plain
        <3> QED BY <2>1, <2>3, <3>1, <3>3
    <2> QED BY <2>1, <2>2, <2>3, <2>4 DEF StoreInv
<1>3. CASE ~(Insert \/ Prune)
    <2>1. UNCHANGED store
        BY <1>3, StoreKept
    <2> QED BY <2>1 DEF store, StoreInv
<1> QED
    BY <1>1, <1>2, <1>3

LEMMA StoreInvariant == Spec => []StoreInv
<1>1. Init => StoreInv
    BY FS_EmptySet DEF Init, StoreInv, MadeFrom
<1> QED
    BY <1>1, StoreStep, PTL DEF Spec

(* The trees and the depth of every table of sessions, whatever parents they  *)
(* name, and the causation graph of every trace agree with their definitions. *)
THEOREM TreesAreAlwaysComplete == Spec => []TreesAreComplete
<1>1. StoreInv => TreesAreComplete
    BY TreesOfStore
<1> QED
    BY <1>1, StoreInvariant, PTL

-----------------------------------------------------------------------------
(* The order of a list *)

Places == Int \X Int

(* No place precedes itself. *)
LEMMA OrderIsStrict ==
    ASSUME NEW w, NEW k \in Places, NEW l \in Places
    PROVE  /\ ~Precedes(w, k, k)
           /\ Precedes(w, k, l) => ~Precedes(w, l, k)
           /\ ~Precedes(w, k, l) /\ ~Precedes(w, l, k) => k = l
<1>1. PICK a, b \in Int : k = <<a, b>>
    BY DEF Places
<1>2. PICK c, d \in Int : l = <<c, d>>
    BY DEF Places
<1> QED
    BY <1>1, <1>2 DEF Precedes

(* Of three places, if the first precedes the second and that the third,    *)
(* the first precedes the third.                                            *)
LEMMA OrderIsTransitive ==
    ASSUME NEW w, NEW k \in Places, NEW l \in Places, NEW m \in Places,
           ~Precedes(w, l, k), Precedes(w, l, m)
    PROVE  Precedes(w, k, m)
<1>1. PICK a, b \in Int : k = <<a, b>>
    BY DEF Places
<1>2. PICK c, d \in Int : l = <<c, d>>
    BY DEF Places
<1>3. PICK e, f \in Int : m = <<e, f>>
    BY DEF Places
<1> QED
    BY <1>1, <1>2, <1>3 DEF Precedes

(* A finite nonempty list has a first and a last row. *)
LEMMA FirstExists ==
    ASSUME NEW w, NEW S \in SUBSET Places, IsFiniteSet(S), S # {}
    PROVE  \E m \in S : \A l \in S : ~Precedes(w, l, m)
<1> DEFINE F == {T \in SUBSET S : T # {} => \E m \in T : \A l \in T : ~Precedes(w, l, m)}
<1>1. {} \in F
    OBVIOUS
<1>2. ASSUME NEW T \in SUBSET S, NEW x \in S, T \in F, x \notin T
      PROVE  T \cup {x} \in F
    <2>1. CASE T = {}
        <3>1. ~Precedes(w, x, x)
            BY OrderIsStrict
        <3> QED BY <2>1, <3>1
    <2>2. CASE T # {}
        <3>1. PICK m \in T : \A l \in T : ~Precedes(w, l, m)
            BY <1>2, <2>2
        <3>2. m \in Places /\ x \in Places /\ \A l \in T : l \in Places
            OBVIOUS
        <3>3. CASE Precedes(w, x, m)
            <4>1. ASSUME NEW l \in T
                  PROVE  ~Precedes(w, l, x)
                <5>1. ~Precedes(w, l, m) /\ l \in Places
                    BY <3>1, <3>2
                <5>2. Precedes(w, x, l)
                    <6>1. Precedes(w, x, m) /\ ~Precedes(w, l, m) => Precedes(w, x, l)
                        BY <3>2, OrderIsStrict, OrderIsTransitive
                    <6> QED BY <3>3, <5>1, <6>1
                <5> QED BY <3>2, <5>2, OrderIsStrict
            <4>2. ~Precedes(w, x, x)
                BY OrderIsStrict
            <4> QED BY <4>1, <4>2
        <3>4. CASE ~Precedes(w, x, m)
            BY <3>1, <3>4
        <3> QED BY <3>3, <3>4
    <2> QED BY <2>1, <2>2
<1>3. S \in F
    <2> HIDE DEF F
    <2> QED BY <1>1, <1>2, FiniteInduct
<1> QED
    BY <1>3

(* Finitely many places have a last one. *)
LEMMA LastExists ==
    ASSUME NEW w, NEW S \in SUBSET Places, IsFiniteSet(S), S # {}
    PROVE  \E m \in S : \A l \in S : ~Precedes(w, m, l)
<1> DEFINE F == {T \in SUBSET S : T # {} => \E m \in T : \A l \in T : ~Precedes(w, m, l)}
<1>1. {} \in F
    OBVIOUS
<1>2. ASSUME NEW T \in SUBSET S, NEW x \in S, T \in F, x \notin T
      PROVE  T \cup {x} \in F
    <2>1. CASE T = {}
        <3>1. ~Precedes(w, x, x)
            BY OrderIsStrict
        <3> QED BY <2>1, <3>1
    <2>2. CASE T # {}
        <3>1. PICK m \in T : \A l \in T : ~Precedes(w, m, l)
            BY <1>2, <2>2
        <3>2. m \in Places /\ x \in Places /\ \A l \in T : l \in Places
            OBVIOUS
        <3>3. CASE Precedes(w, m, x)
            <4>1. ASSUME NEW l \in T
                  PROVE  ~Precedes(w, x, l)
                <5>1. ~Precedes(w, m, l) /\ l \in Places
                    BY <3>1, <3>2
                <5>2. Precedes(w, l, x)
                    BY <3>2, <3>3, <5>1, OrderIsTransitive
                <5> QED BY <3>2, <5>2, OrderIsStrict
            <4>2. ~Precedes(w, x, x)
                BY OrderIsStrict
            <4> QED BY <4>1, <4>2
        <3>4. CASE ~Precedes(w, m, x)
            BY <3>1, <3>4
        <3> QED BY <3>3, <3>4
    <2> QED BY <2>1, <2>2
<1>3. S \in F
    <2> HIDE DEF F
    <2> QED BY <1>1, <1>2, FiniteInduct
<1> QED
    BY <1>3

(* LIMIT takes as many rows as it may, and none before a row that it leaves. *)
LEMMA FirstRowsExist ==
    ASSUME NEW w, NEW S \in SUBSET Places, IsFiniteSet(S),
           NEW m \in Nat, m <= Cardinality(S)
    PROVE  \E R \in SUBSET S : Cardinality(R) = m /\ \A k \in R, l \in S \ R : ~Precedes(w, l, k)
<1> DEFINE Good(R, n) == Cardinality(R) = n /\ \A k \in R, l \in S \ R : ~Precedes(w, l, k)
           X == {n \in Nat : n <= Cardinality(S) => \E R \in SUBSET S : Good(R, n)}
<1>1. Cardinality(S) \in Nat
    BY FS_CardinalityType
<1>2. 0 \in X
    <2>1. Cardinality({}) = 0
        BY FS_EmptySet
    <2>2. {} \in SUBSET S /\ Good({}, 0)
        BY <2>1
    <2> HIDE DEF Good
    <2> QED BY <2>2
<1>3. ASSUME NEW n \in Nat, n \in X
      PROVE  n + 1 \in X
    <2> SUFFICES ASSUME n + 1 <= Cardinality(S)
                 PROVE  \E R \in SUBSET S : Good(R, n + 1)
        OBVIOUS
    <2>1. PICK R \in SUBSET S : Good(R, n)
        BY <1>1, <1>3
    <2>2. IsFiniteSet(R) /\ IsFiniteSet(S \ R) /\ S \ R \in SUBSET Places
        BY FS_Subset
    <2>3. S \ R # {}
        <3>1. CASE S \ R = {}
            <4>1. S = R
                BY <3>1
            <4>2. Cardinality(S) = n
                BY <2>1, <4>1
            <4> QED BY <4>2
        <3> QED BY <3>1
    <2>4. PICK x \in S \ R : \A l \in S \ R : ~Precedes(w, l, x)
        <3> DEFINE L == S \ R
        <3> HIDE DEF L
        <3>1. \E x \in L : \A l \in L : ~Precedes(w, l, x)
            BY <2>2, <2>3, FirstExists DEF L
        <3> QED BY <3>1 DEF L
    <2>5. Cardinality(R \cup {x}) = n + 1
        BY <2>1, <2>2, FS_AddElement
    <2>6. ASSUME NEW k \in R \cup {x}, NEW l \in S \ (R \cup {x})
          PROVE  ~Precedes(w, l, k)
        BY <2>1, <2>4
    <2>7. R \cup {x} \in SUBSET S /\ Good(R \cup {x}, n + 1)
        BY <2>5, <2>6
    <2> HIDE DEF Good
    <2> QED BY <2>7
<1>4. m \in X
    <2> HIDE DEF X
    <2> QED BY <1>2, <1>3, NatInduct
<1> QED
    BY <1>4

-----------------------------------------------------------------------------
(* One page *)

Later(w, evs, tab) == {k \in Keys(w, evs, tab) : w.cursor = None \/ Precedes(w, w.cursor, k)}

(* A page holds the first of the rows after the cursor; it ends the walk    *)
(* only if it holds them all, and otherwise the next page begins after its  *)
(* last row.                                                                *)
LEMMA PageFacts ==
    ASSUME NEW w, NEW evs, NEW tab,
           Keys(w, evs, tab) \in SUBSET Places, IsFiniteSet(Keys(w, evs, tab))
    PROVE  LET p == Page(w, evs, tab) IN
           /\ p.rows \subseteq Later(w, evs, tab)
           /\ p.next = None => p.rows = Later(w, evs, tab)
           /\ p.next # None => /\ p.next \in p.rows
                               /\ \A l \in p.rows : ~Precedes(w, p.next, l)
                               /\ \A l \in Later(w, evs, tab) \ p.rows : ~Precedes(w, l, p.next)
<1> DEFINE later == Later(w, evs, tab)
           n == Min({PageSize, Cardinality(later)})
           IsPage(R) == Cardinality(R) = n /\ \A k \in R, l \in later \ R : ~Precedes(w, l, k)
           shown == CHOOSE R \in SUBSET later : IsPage(R)
           IsLast(k) == \A l \in shown : ~Precedes(w, k, l)
           last == CHOOSE k \in shown : IsLast(k)
           p == Page(w, evs, tab)
<1>1. p.rows = shown /\ p.next = IF shown = later THEN None ELSE last
    BY DEF Page, Later
<1>2. later \in SUBSET Places /\ IsFiniteSet(later)
    <2>1. later \in SUBSET Keys(w, evs, tab)
        BY DEF Later
    <2> HIDE DEF later
    <2> QED BY <2>1, FS_Subset
<1> HIDE DEF later
<1>3. n \in Nat /\ n <= Cardinality(later) /\ (Cardinality(later) # 0 => n # 0)
    <2>1. Cardinality(later) \in Nat /\ PageSize \in Nat /\ PageSize # 0
        BY <1>2, PageAssumption, FS_CardinalityType
    <2> DEFINE c == Cardinality(later)
    <2> HIDE DEF c
    <2>2. {PageSize, c} \in SUBSET Int /\ {PageSize, c} # {} /\ IsFiniteSet({PageSize, c})
        <3>1. IsFiniteSet({PageSize} \cup {c})
            BY FS_Singleton, FS_Union
        <3>2. {PageSize} \cup {c} = {PageSize, c}
            OBVIOUS
        <3> QED BY <2>1, <3>1, <3>2 DEF c
    <2>3. Min({PageSize, c}) \in {PageSize, c} /\ \A y \in {PageSize, c} : Min({PageSize, c}) <= y
        BY <2>2, MinOfInts
    <2> QED BY <2>1, <2>3 DEF c
<1> HIDE DEF n
<1>4. \E R \in SUBSET later : IsPage(R)
    BY <1>2, <1>3, FirstRowsExist
<1>5. shown \in SUBSET later /\ IsPage(shown)
    <2> HIDE DEF IsPage
    <2> QED BY <1>4
<1> HIDE DEF shown
<1>6. ASSUME shown # later
      PROVE  last \in shown /\ IsLast(last)
    <2>1. shown # {}
        <3>1. CASE shown = {}
            <4>1. Cardinality(shown) = 0
                BY <3>1, FS_EmptySet
            <4>2. Cardinality(later) = 0
                BY <1>3, <1>5, <4>1
            <4>3. later = {}
                BY <1>2, <4>2, FS_EmptySet
            <4> QED BY <1>6, <3>1, <4>3
        <3> QED BY <3>1
    <2>2. shown \in SUBSET Places /\ IsFiniteSet(shown)
        BY <1>2, <1>5, FS_Subset
    <2>3. \E k \in shown : IsLast(k)
        BY <2>1, <2>2, LastExists
    <2> HIDE DEF IsLast
    <2> QED BY <2>3
<1> HIDE DEF last, p
<1>7. p.next = None => p.rows = later
    <2>1. ASSUME shown # later
          PROVE  p.next # None
        <3>1. last \in Places
            BY <1>2, <1>5, <1>6, <2>1
        <3> QED BY <1>1, <2>1, <3>1, NoneAssumption DEF Places
    <2> QED BY <1>1, <2>1
<1>8. ASSUME p.next # None
      PROVE  /\ p.next \in p.rows
             /\ \A l \in p.rows : ~Precedes(w, p.next, l)
             /\ \A l \in later \ p.rows : ~Precedes(w, l, p.next)
    <2>1. shown # later /\ p.next = last /\ p.rows = shown
        BY <1>1, <1>8
    <2> QED BY <1>5, <1>6, <2>1
<1> QED
    BY <1>1, <1>5, <1>7, <1>8 DEF p, later

-----------------------------------------------------------------------------
(* The keys of a list *)

(* No two places belong to one id. *)
OnePlaceEach(K) == \A k, l \in K : k[2] = l[2] => k = l

(* The events of a session have one place each, and finitely many. *)
LEMMA EventKeyFacts ==
    ASSUME NEW w \in Worlds, NEW evs \in SUBSET w, NEW s, NEW v
    PROVE  LET K == EventKeys(evs, s, v) IN
           K \in SUBSET Places /\ IsFiniteSet(K) /\ OnePlaceEach(K)
<1> DEFINE E == SessionEvents(evs, s, v)
           f == [e \in E |-> <<e.time, e.id>>]
           K == EventKeys(evs, s, v)
<1>1. E \in SUBSET w
    BY DEF SessionEvents
<1>2. IsFiniteSet(E)
    <2> HIDE DEF E
    <2> QED BY <1>1, WorldFacts, FS_Subset
<1>3. K = {f[e] : e \in E}
    BY DEF EventKeys
<1> HIDE DEF E
<1>4. IsFiniteSet(K)
    <2> HIDE DEF K, f
    <2> QED BY <1>2, <1>3, ImageIsFinite
<1>5. \A e \in E : e.time \in Int /\ e.id \in Int
    BY <1>1, WorldFacts
<1>6. K \in SUBSET Places
    BY <1>3, <1>5 DEF Places
<1>7. OnePlaceEach(K)
    <2>1. \A a, b \in E : a.id = b.id => a = b
        BY <1>1, WorldFacts DEF UniqueIds
    <2>2. ASSUME NEW k \in K, NEW l \in K, k[2] = l[2]
          PROVE  k = l
        <3>1. PICK a \in E : k = <<a.time, a.id>>
            BY <1>3
        <3>2. PICK b \in E : l = <<b.time, b.id>>
            BY <1>3
        <3> QED BY <2>1, <2>2, <3>1, <3>2
    <2> HIDE DEF K
    <2> QED BY <2>2 DEF OnePlaceEach
<1> QED
    BY <1>4, <1>6, <1>7

(* The rows that a request sees are finitely many, one for each session. *)
LEMMA SeenRows ==
    ASSUME NEW w \in Worlds, NEW tab, MadeFrom(tab, w), NEW v
    PROVE  LET R == Seen(tab, v) IN
           /\ R \subseteq tab
           /\ IsFiniteSet(R)
           /\ \A r \in R : r.session \in Int /\ r.trace \in Int /\ r.updated \in Int
           /\ \A q, r \in R : q.session = r.session => q = r
<1>1. Seen(tab, v) \in SUBSET tab
    BY DEF Seen
<1>2. IsRows(tab)
    BY MadeRows
<1>3. IsRows(Seen(tab, v))
    BY <1>1, <1>2, PartOfRows
<1>4. \A r \in tab : r.session \in Int /\ r.trace \in Int /\ r.updated \in Int
    BY MadeRows
<1> QED
    BY <1>1, <1>3, <1>4 DEF IsRows

(* The sessions have one place each, and finitely many. *)
LEMMA SessionKeyFacts ==
    ASSUME NEW w \in Worlds, NEW tab, MadeFrom(tab, w), NEW v
    PROVE  LET K == SessionKeys(tab, v) IN
           K \in SUBSET Places /\ IsFiniteSet(K) /\ OnePlaceEach(K)
<1> DEFINE R == Seen(tab, v)
           f == [r \in R |-> <<r.updated, r.session>>]
           K == SessionKeys(tab, v)
<1>1. /\ IsFiniteSet(R)
      /\ \A r \in R : r.session \in Int /\ r.trace \in Int /\ r.updated \in Int
      /\ \A q, r \in R : q.session = r.session => q = r
    BY SeenRows
<1>2. K = {f[r] : r \in R}
    BY DEF SessionKeys
<1> HIDE DEF R
<1>3. IsFiniteSet(K)
    <2> HIDE DEF K, f
    <2> QED BY <1>1, <1>2, ImageIsFinite
<1>4. K \in SUBSET Places
    BY <1>1, <1>2 DEF Places
<1>5. OnePlaceEach(K)
    <2>1. ASSUME NEW k \in K, NEW l \in K, k[2] = l[2]
          PROVE  k = l
        <3>1. PICK a \in R : k = <<a.updated, a.session>>
            BY <1>2
        <3>2. PICK b \in R : l = <<b.updated, b.session>>
            BY <1>2
        <3> QED BY <1>1, <2>1, <3>1, <3>2
    <2> HIDE DEF K
    <2> QED BY <2>1 DEF OnePlaceEach
<1> QED
    BY <1>3, <1>4, <1>5

(* The workflows have one place each, and finitely many. *)
LEMMA WorkflowKeyFacts ==
    ASSUME NEW w \in Worlds, NEW tab, MadeFrom(tab, w), NEW v
    PROVE  LET K == WorkflowKeys(tab, v) IN
           K \in SUBSET Places /\ IsFiniteSet(K) /\ OnePlaceEach(K)
<1> DEFINE R == Seen(tab, v)
           Times(t) == {r.updated : r \in {q \in R : q.trace = t}}
           T == {r.trace : r \in R}
           f == [t \in T |-> <<Max(Times(t)), t>>]
           K == WorkflowKeys(tab, v)
<1>1. /\ IsFiniteSet(R)
      /\ \A r \in R : r.session \in Int /\ r.trace \in Int /\ r.updated \in Int
    BY SeenRows
<1>2. K = {<<Max(Times(t)), t>> : t \in T}
    BY DEF WorkflowKeys, TraceRows
<1> HIDE DEF R
<1>3. IsFiniteSet(T)
    <2> DEFINE g == [r \in R |-> r.trace]
    <2>1. T = {g[r] : r \in R}
        OBVIOUS
    <2> HIDE DEF T, g
    <2> QED BY <1>1, <2>1, ImageIsFinite
<1>4. IsFiniteSet(K)
    <2>1. K = {f[t] : t \in T}
        <3> HIDE DEF T, Times
        <3> QED BY <1>2
    <2> HIDE DEF K, f, T
    <2> QED BY <1>3, <2>1, ImageIsFinite
<1>5. ASSUME NEW t \in T
      PROVE  Max(Times(t)) \in Int /\ t \in Int
    <2> DEFINE own == {q \in R : q.trace = t}
               g == [r \in own |-> r.updated]
    <2>1. own \in SUBSET R /\ own # {} /\ t \in Int
        BY <1>1
    <2>2. Times(t) = {g[r] : r \in own}
        OBVIOUS
    <2>3. \A r \in own : g[r] \in Int
        BY <1>1
    <2> HIDE DEF own, g, Times
    <2>4. IsFiniteSet(own)
        BY <1>1, <2>1, FS_Subset
    <2>5. IsFiniteSet(Times(t))
        BY <2>2, <2>4, ImageIsFinite
    <2>6. Times(t) \in SUBSET Int /\ Times(t) # {}
        BY <2>1, <2>2, <2>3
    <2>7. Max(Times(t)) \in Int
        BY <2>5, <2>6, MaxOfInts
    <2> QED BY <2>1, <2>7
<1> HIDE DEF T, Times, f
<1>6. K \in SUBSET Places
    BY <1>2, <1>5 DEF Places
<1>7. OnePlaceEach(K)
    <2>1. ASSUME NEW k \in K, NEW l \in K, k[2] = l[2]
          PROVE  k = l
        <3>1. PICK a \in T : k = <<Max(Times(a)), a>>
            BY <1>2
        <3>2. PICK b \in T : l = <<Max(Times(b)), b>>
            BY <1>2
        <3>3. a = b
            BY <2>1, <3>1, <3>2
        <3> QED BY <3>1, <3>2, <3>3
    <2> HIDE DEF K
    <2> QED BY <2>1 DEF OnePlaceEach
<1> QED
    BY <1>4, <1>6, <1>7

(* So have the rows of every list. *)
LEMMA KeyFacts ==
    ASSUME NEW world \in Worlds, NEW evs \in SUBSET world, NEW tab, MadeFrom(tab, world),
           NEW w, w.kind \in WalkKinds
    PROVE  LET K == Keys(w, evs, tab) IN
           K \in SUBSET Places /\ IsFiniteSet(K) /\ OnePlaceEach(K)
<1>1. CASE w.kind = "events"
    <2>1. Keys(w, evs, tab) = EventKeys(evs, w.arg, w.view)
        BY <1>1 DEF Keys
    <2> QED BY <2>1, EventKeyFacts
<1>2. CASE w.kind = "sessions"
    <2>1. Keys(w, evs, tab) = SessionKeys(tab, w.view)
        BY <1>2 DEF Keys
    <2> QED BY <2>1, SessionKeyFacts
<1>3. CASE w.kind = "workflows"
    <2>1. Keys(w, evs, tab) = WorkflowKeys(tab, w.view)
        BY <1>3 DEF Keys
    <2> QED BY <2>1, WorkflowKeyFacts
<1> QED
    BY <1>1, <1>2, <1>3 DEF WalkKinds

(* What a walk lists depends on its parameters alone. *)
LEMMA SameWalk ==
    ASSUME NEW w, NEW u, w.kind = u.kind, w.view = u.view, w.arg = u.arg, w.q = u.q,
           NEW evs, NEW tab
    PROVE  /\ Keys(w, evs, tab) = Keys(u, evs, tab)
           /\ \A k : Shown(w, evs, k) <=> Shown(u, evs, k)
           /\ \A k, l : Precedes(w, k, l) <=> Precedes(u, k, l)
BY DEF Keys, Shown, Precedes

-----------------------------------------------------------------------------
(* What holds of a walk *)

(* The walk w has returned place k. *)
Returned(w, k) == \E i \in DOMAIN w.got : k \in w.got[i]

WalkShape(w) ==
    /\ w.kind \in WalkKinds
    /\ w.cursor \in Places \cup {None}
    /\ w.ended \in BOOLEAN
    /\ w.got \in Seq(SUBSET Places)
    /\ w.kept \in SUBSET Places

(* What holds of a walk between its pages, with evs and tab stored: the       *)
(* pages so far are in order and end at the cursor, a returned row of a kept  *)
(* id was returned at the place that it kept, and no kept place up to the     *)
(* cursor has been left out.                                                  *)
InOrder(w) ==
    \A i, j \in DOMAIN w.got : i < j =>
        \A k \in w.got[i], l \in w.got[j] : Precedes(w, k, l)

UpToCursor(w) ==
    /\ w.cursor = None /\ ~w.ended => w.got = <<>>
    /\ w.cursor # None => \A k : Returned(w, k) => ~Precedes(w, w.cursor, k)

AtKeptPlace(w) == \A k : Returned(w, k) /\ k[2] \in Ids(w.kept) => k \in w.kept

Passed(w, k) == w.ended \/ (w.cursor # None /\ ~Precedes(w, w.cursor, k))

NoneLeftOut(w, evs) ==
    \A k \in w.kept : Shown(w, evs, k) /\ Passed(w, k) => Returned(w, k)

WalkOk(w, evs, tab) ==
    /\ w.kept \subseteq Keys(w, evs, tab)
    /\ InOrder(w)
    /\ UpToCursor(w)
    /\ AtKeptPlace(w)
    /\ NoneLeftOut(w, evs)

(* A walk that begins has returned nothing. *)
LEMMA WalkBegins ==
    ASSUME NEW w, w.got = <<>>, w.cursor = None, w.ended = FALSE,
           NEW evs, NEW tab, w.kept \subseteq Keys(w, evs, tab)
    PROVE  WalkOk(w, evs, tab)
<1>1. DOMAIN w.got = {}
    <2>1. DOMAIN << >> = {}
        OBVIOUS
    <2> QED BY <2>1
<1>2. \A k : ~Returned(w, k) /\ ~Passed(w, k)
    BY <1>1 DEF Returned, Passed
<1> QED
    BY <1>1, <1>2 DEF WalkOk, InOrder, UpToCursor, AtKeptPlace, NoneLeftOut

(* A page keeps the invariant of the walk. *)
LEMMA WalkTurnsPage ==
    ASSUME NEW world \in Worlds, NEW evs \in SUBSET world, NEW tab, MadeFrom(tab, world),
           NEW w, WalkShape(w), WalkOk(w, evs, tab), ~w.ended,
           NEW u, u.kind = w.kind, u.view = w.view, u.arg = w.arg, u.q = w.q, u.kept = w.kept,
           u.got = Append(w.got, {k \in Page(w, evs, tab).rows : Shown(w, evs, k)}),
           u.cursor = Page(w, evs, tab).next, u.ended = (Page(w, evs, tab).next = None)
    PROVE  WalkShape(u) /\ WalkOk(u, evs, tab)
<1> DEFINE p == Page(w, evs, tab)
           K == Keys(w, evs, tab)
           L == Later(w, evs, tab)
           new == {k \in p.rows : Shown(w, evs, k)}
           n == Len(w.got)
<1>1. K \in SUBSET Places /\ IsFiniteSet(K) /\ OnePlaceEach(K)
    BY KeyFacts DEF WalkShape
<1>2. /\ p.rows \subseteq L
      /\ p.next = None => p.rows = L
      /\ p.next # None => /\ p.next \in p.rows
                          /\ \A l \in p.rows : ~Precedes(w, p.next, l)
                          /\ \A l \in L \ p.rows : ~Precedes(w, l, p.next)
    BY <1>1, PageFacts
<1>3. /\ L \subseteq K
      /\ \A k \in K : k \in L <=> w.cursor = None \/ Precedes(w, w.cursor, k)
    BY DEF Later
<1>4. /\ w.got \in Seq(SUBSET Places) /\ w.kept \in SUBSET Places
      /\ w.cursor \in Places \cup {None} /\ w.kept \subseteq K
    BY DEF WalkShape, WalkOk
<1>5. /\ u.got = Append(w.got, new) /\ u.cursor = p.next /\ u.ended = (p.next = None)
      /\ u.kept = w.kept /\ u.kind = w.kind
    OBVIOUS
<1>6. new \in SUBSET Places /\ new \subseteq p.rows /\ \A k \in p.rows : Shown(w, evs, k) => k \in new
    <2> HIDE DEF p, K, L
    <2> QED BY <1>1, <1>2, <1>3
<1>7. /\ Keys(u, evs, tab) = K
      /\ \A k : Shown(u, evs, k) <=> Shown(w, evs, k)
      /\ \A k, l : Precedes(u, k, l) <=> Precedes(w, k, l)
    BY SameWalk
<1> HIDE DEF p, K, L, new
<1>8. WalkShape(u)
    <2>1. u.got \in Seq(SUBSET Places)
        BY <1>4, <1>5, <1>6
    <2>2. u.cursor \in Places \cup {None}
        BY <1>1, <1>2, <1>3, <1>5
    <2>3. u.ended \in BOOLEAN
        BY <1>5
    <2> QED BY <1>4, <1>5, <2>1, <2>2, <2>3 DEF WalkShape
<1>9. /\ DOMAIN w.got = 1..n /\ DOMAIN u.got = 1..(n + 1) /\ n \in Nat
      /\ \A i \in 1..n : u.got[i] = w.got[i]
      /\ u.got[n + 1] = new
    BY <1>4, <1>5, <1>6
<1> HIDE DEF n
<1>10. \A k : Returned(u, k) <=> Returned(w, k) \/ k \in new
    <2>1. \A i \in 1..(n + 1) : i \in 1..n \/ i = n + 1
        BY <1>9
    <2>2. \A i \in 1..n : i \in 1..(n + 1)
        BY <1>9
    <2>3. n + 1 \in 1..(n + 1)
        BY <1>9
    <2> QED BY <1>9, <2>1, <2>2, <2>3 DEF Returned
<1>11. \A k : Returned(w, k) => k \in Places
    BY <1>4 DEF Returned
<1>12. ASSUME NEW k, Returned(w, k), NEW l \in L
       PROVE  Precedes(w, k, l)
    <2>1. w.cursor # None
        <3>1. CASE w.cursor = None
            <4>1. w.got = <<>>
                BY <3>1 DEF WalkOk, UpToCursor
            <4>2. DOMAIN << >> = {}
                OBVIOUS
            <4> QED BY <1>12, <4>1, <4>2 DEF Returned
        <3> QED BY <3>1
    <2>2. w.cursor \in Places /\ k \in Places /\ l \in Places
        BY <1>1, <1>3, <1>4, <1>11, <1>12, <2>1
    <2>3. ~Precedes(w, w.cursor, k) /\ Precedes(w, w.cursor, l)
        BY <1>3, <1>12, <2>1 DEF WalkOk, UpToCursor
    <2> QED BY <2>2, <2>3, OrderIsTransitive
<1>13. InOrder(u)
    <2> SUFFICES ASSUME NEW i \in 1..(n + 1), NEW j \in 1..(n + 1), i < j,
                        NEW k \in u.got[i], NEW l \in u.got[j]
                 PROVE  Precedes(w, k, l)
        BY <1>7, <1>9 DEF InOrder
    <2>1. i \in 1..n /\ k \in w.got[i] /\ Returned(w, k)
        BY <1>9 DEF Returned
    <2>2. CASE j = n + 1
        <3>1. l \in L
            BY <1>2, <1>6, <1>9, <2>2
        <3> QED BY <1>12, <2>1, <3>1
    <2>3. CASE j # n + 1
        <3>1. j \in 1..n
            BY <1>9, <2>3
        <3>3. l \in w.got[j]
            BY <1>9, <3>1
        <3>2. InOrder(w)
            BY DEF WalkOk
        <3> QED BY <1>9, <2>1, <3>1, <3>2, <3>3 DEF InOrder
    <2> QED BY <2>2, <2>3
<1>14. UpToCursor(u)
    <2>1. u.cursor = None => u.ended
        BY <1>5
    <2>2. ASSUME u.cursor # None, NEW k, Returned(u, k)
          PROVE  ~Precedes(w, u.cursor, k)
        <3>1. /\ p.next \in p.rows /\ p.next \in L /\ u.cursor = p.next
              /\ \A l \in p.rows : ~Precedes(w, p.next, l)
            BY <1>2, <1>5, <2>2
        <3>2. CASE k \in new
            BY <1>6, <3>1, <3>2
        <3>3. CASE Returned(w, k)
            <4>1. Precedes(w, k, p.next) /\ k \in Places /\ p.next \in Places
                BY <1>1, <1>3, <1>11, <1>12, <3>1, <3>3
            <4> QED BY <3>1, <4>1, OrderIsStrict
        <3> QED BY <1>10, <2>2, <3>2, <3>3
    <2> QED BY <1>7, <2>1, <2>2 DEF UpToCursor
<1>15. AtKeptPlace(u)
    <2> SUFFICES ASSUME NEW k, Returned(u, k), k[2] \in Ids(w.kept)
                 PROVE  k \in w.kept
        BY <1>5 DEF AtKeptPlace
    <2>1. CASE Returned(w, k)
        BY <2>1 DEF WalkOk, AtKeptPlace
    <2>2. CASE k \in new
        <3>1. k \in K
            BY <1>2, <1>3, <1>6, <2>2
        <3>2. PICK l \in w.kept : l[2] = k[2]
            BY DEF Ids
        <3>3. l = k
            BY <1>1, <1>4, <3>1, <3>2 DEF OnePlaceEach
        <3> QED BY <3>2, <3>3
    <2> QED BY <1>10, <2>1, <2>2
<1>16. NoneLeftOut(u, evs)
    <2> SUFFICES ASSUME NEW k \in w.kept, Shown(w, evs, k), Passed(u, k), ~Returned(w, k)
                 PROVE  k \in new
        BY <1>5, <1>7, <1>10 DEF NoneLeftOut
    <2>1. k \in K /\ k \in Places
        BY <1>4
    <2>2. w.cursor = None \/ Precedes(w, w.cursor, k)
        BY DEF WalkOk, NoneLeftOut, Passed
    <2>3. k \in L
        BY <1>3, <2>1, <2>2
    <2>4. k \in p.rows
        <3>1. CASE p.next = None
            BY <1>2, <2>3, <3>1
        <3>2. CASE p.next # None
            <4>1. ~Precedes(w, p.next, k)
                BY <1>5, <1>7, <3>2 DEF Passed
            <4>2. p.next \in Places
                BY <1>1, <1>2, <1>3, <3>2
            <4>3. k \notin p.rows => ~Precedes(w, k, p.next)
                BY <1>2, <2>3, <3>2
            <4>4. k \notin p.rows => k = p.next
                BY <2>1, <4>1, <4>2, <4>3, OrderIsStrict
            <4> QED BY <1>2, <3>2, <4>4
        <3> QED BY <3>1, <3>2
    <2> QED BY <1>6, <2>4
<1>17. u.kept \subseteq Keys(u, evs, tab)
    BY <1>4, <1>5, <1>7
<1> QED
    BY <1>8, <1>13, <1>14, <1>15, <1>16, <1>17 DEF WalkOk

(* A change of the store takes away the places that rows lost with it. *)
LEMMA WalkSeesStore ==
    ASSUME NEW world \in Worlds, NEW evs \in SUBSET world, NEW evs2 \in SUBSET world,
           NEW tab, MadeFrom(tab, world), NEW tab2,
           NEW w, WalkShape(w), WalkOk(w, evs, tab),
           NEW u, u.kind = w.kind, u.view = w.view, u.arg = w.arg, u.q = w.q,
           u.got = w.got, u.cursor = w.cursor, u.ended = w.ended,
           u.kept = w.kept \cap Keys(w, evs2, tab2)
    PROVE  WalkShape(u) /\ WalkOk(u, evs2, tab2)
<1>1. \A e, t : /\ Keys(u, e, t) = Keys(w, e, t)
                /\ \A k : Shown(u, e, k) <=> Shown(w, e, k)
    BY SameWalk
<1>2. \A k, l : Precedes(u, k, l) <=> Precedes(w, k, l)
    BY SameWalk
<1>3. \A k : Returned(u, k) <=> Returned(w, k)
    BY DEF Returned
<1>4. /\ u.kept \subseteq w.kept /\ w.kept \subseteq Keys(w, evs, tab)
      /\ u.kept \subseteq Keys(u, evs2, tab2)
    BY <1>1 DEF WalkOk
<1>5. OnePlaceEach(Keys(w, evs, tab))
    BY KeyFacts DEF WalkShape
<1>6. WalkShape(u)
    BY DEF WalkShape
<1>7. InOrder(u)
    BY <1>2 DEF WalkOk, InOrder
<1>8. UpToCursor(u)
    BY <1>2, <1>3 DEF WalkOk, UpToCursor
<1>9. AtKeptPlace(u)
    <2> SUFFICES ASSUME NEW k, Returned(w, k), k[2] \in Ids(u.kept)
                 PROVE  k \in u.kept
        BY <1>3 DEF AtKeptPlace
    <2>1. PICK l \in u.kept : l[2] = k[2]
        BY DEF Ids
    <2>2. k \in w.kept
        BY <1>4, <2>1 DEF WalkOk, AtKeptPlace, Ids
    <2>3. k = l
        BY <1>4, <1>5, <2>1, <2>2 DEF OnePlaceEach
    <2> QED BY <2>1, <2>3
<1>10. ASSUME NEW k \in u.kept, Shown(w, evs2, k)
       PROVE  Shown(w, evs, k)
    <2> SUFFICES ASSUME w.kind = "events"
                 PROVE  \E e \in evs : e.id = k[2] /\ Mentions(e, w.q)
        BY DEF Shown
    <2>1. PICK e \in evs2 : e.id = k[2] /\ Mentions(e, w.q)
        BY <1>10 DEF Shown
    <2>2. k \in EventKeys(evs, w.arg, w.view)
        BY <1>4 DEF Keys
    <2>3. PICK f \in evs : k = <<f.time, f.id>>
        BY <2>2 DEF EventKeys, SessionEvents
    <2>4. e = f
        <3>1. e \in world /\ f \in world /\ e.id = f.id
            BY <2>1, <2>3
        <3> QED BY <3>1, WorldFacts DEF UniqueIds
    <2> QED BY <2>1, <2>4
<1>11. NoneLeftOut(u, evs2)
    <2> SUFFICES ASSUME NEW k \in u.kept, Shown(w, evs2, k), Passed(u, k)
                 PROVE  Returned(w, k)
        BY <1>1, <1>3 DEF NoneLeftOut
    <2>1. Passed(w, k)
        BY <1>2 DEF Passed
    <2>2. k \in w.kept /\ Shown(w, evs, k)
        BY <1>4, <1>10
    <2> QED BY <2>1, <2>2 DEF WalkOk, NoneLeftOut
<1> QED
    BY <1>4, <1>6, <1>7, <1>8, <1>9, <1>11 DEF WalkOk

(* Readers *)

WalkType ==
    [kind : WalkKinds, view : TenantsOf(emitted) \cup {None},
     arg : {e.session_id : e \in emitted} \cup {None}, q : Words \cup {None},
     cursor : Places \cup {None}, ended : BOOLEAN,
     got : Seq(SUBSET Places), kept : SUBSET Places]

AuditType ==
    [kind : AuditKinds, view : TenantsOf(emitted), arg : Int,
     at : {"metrics", "policy", "scope", "rows", "built", "unscoped"},
     total : Nat, blocked : Nat, todo : SUBSET Int, got : SUBSET emitted,
     stored : SUBSET emitted, known : SUBSET emitted,
     listed : SUBSET Int, named : SUBSET Int, hidden : SUBSET Int]

IsCounts(c) == c = [q \in DOMAIN NextQuery |-> c[q]]

MetricsType(c) ==
    [kind : {"metrics"}, view : TenantsOf(emitted) \cup {None},
     at : DOMAIN NextQuery \cup {"counted"}, counts : {c},
     stored : SUBSET emitted, known : SUBSET emitted]

IsMetrics(r) == IsCounts(r.counts) /\ r \in MetricsType(r.counts)

TypeInv ==
    /\ StoreInv
    /\ reader = Idle \/ reader \in WalkType \/ reader \in AuditType \/ IsMetrics(reader)

(* A reader is at most one of a walk, a request and a reading of the counts. *)
LEMMA KindsDiffer ==
    /\ Idle.kind \notin WalkKinds /\ Idle.kind \notin AuditKinds /\ Idle.kind # "metrics"
    /\ WalkKinds \cap AuditKinds = {}
    /\ "metrics" \notin WalkKinds /\ "metrics" \notin AuditKinds
BY DEF Idle, WalkKinds, AuditKinds

(* The reader's kind tells its type. *)
LEMMA WhichReader ==
    ASSUME TypeInv
    PROVE  /\ reader.kind \in WalkKinds => reader \in WalkType
           /\ reader.kind \in AuditKinds => reader \in AuditType
           /\ reader.kind = "metrics" => IsMetrics(reader)
<1>1. reader \in WalkType => reader.kind \in WalkKinds
    BY DEF WalkType
<1>2. reader \in AuditType => reader.kind \in AuditKinds
    BY DEF AuditType
<1>3. IsMetrics(reader) => reader.kind = "metrics"
    BY DEF IsMetrics, MetricsType
<1> QED
    BY <1>1, <1>2, <1>3, KindsDiffer DEF TypeInv

(* A page's rows, and the cursor after it, are places. *)
LEMMA PageIsPlaces ==
    ASSUME StoreInv, reader \in WalkType
    PROVE  /\ Page(reader, events, sessions).next \in Places \cup {None}
           /\ Page(reader, events, sessions).rows \in SUBSET Places
<1> DEFINE p == Page(reader, events, sessions)
           K == Keys(reader, events, sessions)
           L == Later(reader, events, sessions)
<1>1. reader.kind \in WalkKinds
    BY DEF WalkType
<1>2. K \in SUBSET Places /\ IsFiniteSet(K)
    BY <1>1, KeyFacts DEF StoreInv
<1>3. L \subseteq K
    BY DEF Later
<1>4. p.rows \subseteq L /\ (p.next # None => p.next \in p.rows)
    BY <1>2, PageFacts
<1> HIDE DEF K, L, p
<1>5. p.next \in Places \cup {None} /\ p.rows \in SUBSET Places
    BY <1>2, <1>3, <1>4
<1> QED
    BY <1>5 DEF p

(* The session ids in the scope of request u, among the rows tab. *)
ScopeIds(u, tab) == IdsOf(ScopeRows(u.kind, u.view, u.arg, tab))

(* They are the ids of some rows. *)
LEMMA ScopeIsPart ==
    ASSUME NEW w \in Worlds, NEW tab, MadeFrom(tab, w), NEW kind, NEW view, NEW arg
    PROVE  LET rows == ScopeRows(kind, view, arg, tab) IN
           rows \in SUBSET tab /\ IsRows(rows) /\ IdsOf(rows) \in SUBSET Int
<1> DEFINE rows == ScopeRows(kind, view, arg, tab)
<1>1. rows \in SUBSET tab
    BY DEF ScopeRows, TraceRows, Seen
<1> HIDE DEF rows
<1>2. IsRows(tab)
    BY MadeRows
<1>3. IsRows(rows)
    BY <1>1, <1>2, PartOfRows
<1>4. IdsOf(rows) \in SUBSET Int
    BY <1>3 DEF IsRows, IdsOf
<1> QED
    BY <1>1, <1>3, <1>4 DEF rows

(* The sessions to be read are those of the scope that no parent cycle hides. *)
LEMMA ScopeIsInts ==
    ASSUME StoreInv, reader \in AuditType, NEW rows,
           rows = ScopeRows(reader.kind, reader.view, reader.arg, sessions),
           NEW hidden,
           hidden = IF reader.kind = "session" THEN {} ELSE Cyclic(rows)
    PROVE  /\ ScopeSessions(rows) = IdsOf(rows) \ hidden
           /\ ScopeSessions(rows) \in SUBSET Int /\ hidden \in SUBSET Int
<1>1. IsRows(rows) /\ IdsOf(rows) \in SUBSET Int
    BY ScopeIsPart DEF StoreInv
<1>2. Cyclic(rows) \subseteq IdsOf(rows)
    BY DEF Cyclic
<1>3. ScopeSessions(rows) = IdsOf(rows) \ hidden
    <2>1. CASE reader.kind = "session"
        BY <2>1 DEF ScopeSessions
    <2>2. CASE reader.kind # "session"
        BY <1>1, <2>2, ForestIds DEF ScopeSessions
    <2> QED BY <2>1, <2>2
<1> QED
    BY <1>1, <1>2, <1>3

(* The counts that a report reads are natural numbers. *)
LEMMA CountsAreNat ==
    ASSUME StoreInv
    PROVE  /\ GetMetrics(events, sessions, reader.view).accepted \in Nat
           /\ Cardinality(GetPolicyBlockedEvents(events, reader.view, None, None)) \in Nat
<1> DEFINE list == Windowed(events, reader.view, None, None)
           pol == GetPolicyBlockedEvents(events, reader.view, None, None)
<1>1. list \in SUBSET emitted /\ pol \in SUBSET emitted
    BY DEF StoreInv, Windowed, GetPolicyBlockedEvents
<1>2. IsFiniteSet(emitted)
    BY WorldFacts DEF StoreInv
<1>3. GetMetrics(events, sessions, reader.view).accepted = Cardinality(list)
    BY DEF GetMetrics, MetricsOf
<1> HIDE DEF list, pol
<1>4. Cardinality(list) \in Nat /\ Cardinality(pol) \in Nat
    BY <1>1, <1>2, FS_Subset, FS_CardinalityType
<1> QED
    BY <1>3, <1>4 DEF pol

(* A new walk is of its type. *)
LEMMA NewWalk ==
    ASSUME NEW kind, NEW view, NEW arg, NEW q, NEW K
    PROVE  [Walk(kind, view, arg, q) EXCEPT !.kept = K]
           = [kind |-> kind, view |-> view, arg |-> arg, q |-> q, cursor |-> None,
              ended |-> FALSE, got |-> <<>>, kept |-> K]
<1> DEFINE w == Walk(kind, view, arg, q)
           W == {"kind", "view", "arg", "q", "cursor", "ended", "got", "kept"}
<1>1. /\ DOMAIN w = W /\ w = [x \in W |-> w[x]]
      /\ w.kind = kind /\ w.view = view /\ w.arg = arg /\ w.q = q
      /\ w.cursor = None /\ w.ended = FALSE /\ w.got = <<>>
    BY DEF Walk
<1> DEFINE u == [w EXCEPT !.kept = K]
<1>2. /\ u = [x \in W |-> u[x]]
      /\ u.kind = kind /\ u.view = view /\ u.arg = arg /\ u.q = q
      /\ u.cursor = None /\ u.ended = FALSE /\ u.got = <<>> /\ u.kept = K
    <2> HIDE DEF w
    <2> QED BY <1>1
<1> HIDE DEF u, w
<1>3. u = [kind |-> kind, view |-> view, arg |-> arg, q |-> q, cursor |-> None,
           ended |-> FALSE, got |-> <<>>, kept |-> K]
    BY <1>2
<1> QED
    BY <1>3 DEF u, w

(* A walk begins with no page, and keeps what is listed. *)
LEMMA BegunWalk ==
    ASSUME StoreInv, BeginWalk
    PROVE  /\ reader' \in WalkType /\ reader'.kind \in WalkKinds
           /\ reader'.got = <<>> /\ reader'.cursor = None /\ reader'.ended = FALSE
           /\ reader'.kept = Keys(reader', events, sessions)
           /\ UNCHANGED store
<1> DEFINE Kept(w) == Keys(w, events, sessions)
<1>1. \E kind \in WalkKinds, view \in TenantsOf(emitted) \cup {None},
         arg \in {e.session_id : e \in emitted} \cup {None}, q \in Words \cup {None} :
            reader' = [Walk(kind, view, arg, q) EXCEPT !.kept = Kept(Walk(kind, view, arg, q))]
    <2>1. CASE BeginEvents
        BY <2>1 DEF BeginEvents, Begin, WalkKinds
    <2>2. CASE BeginSessions
        BY <2>2 DEF BeginSessions, Begin, WalkKinds
    <2>3. CASE BeginWorkflows
        BY <2>3 DEF BeginWorkflows, Begin, WalkKinds
    <2> QED BY <2>1, <2>2, <2>3 DEF BeginWalk
<1>2. PICK kind \in WalkKinds, view \in TenantsOf(emitted) \cup {None},
           arg \in {e.session_id : e \in emitted} \cup {None}, q \in Words \cup {None} :
            reader' = [Walk(kind, view, arg, q) EXCEPT !.kept = Kept(Walk(kind, view, arg, q))]
    BY <1>1
<1> DEFINE w == Walk(kind, view, arg, q)
           K == Kept(w)
<1>3. reader' = [kind |-> kind, view |-> view, arg |-> arg, q |-> q, cursor |-> None,
                 ended |-> FALSE, got |-> <<>>, kept |-> K]
    BY <1>2, NewWalk
<1>4. w.kind = kind /\ w.view = view /\ w.arg = arg /\ w.q = q
    BY DEF Walk
<1> HIDE DEF w
<1>5. K \in SUBSET Places
    BY <1>4, KeyFacts DEF StoreInv
<1>6. Kept(reader') = K
    <2> DEFINE u == reader'
    <2>1. w.kind = u.kind /\ w.view = u.view /\ w.arg = u.arg /\ w.q = u.q
        BY <1>3, <1>4
    <2> HIDE DEF u
    <2>2. Kept(w) = Kept(u)
        BY <2>1, SameWalk
    <2> QED BY <2>2 DEF u
<1> HIDE DEF K
<1>7. << >> \in Seq(SUBSET Places)
    OBVIOUS
<1>8. reader' \in WalkType
    BY <1>3, <1>5, <1>7 DEF WalkType
<1>9. UNCHANGED store
    BY Zenon DEF BeginWalk
<1> QED
    BY <1>3, <1>6, <1>8, <1>9

(* What NextPage does to the walk. *)
LEMMA TurnedPage ==
    ASSUME TypeInv, NextPage
    PROVE  /\ reader \in WalkType /\ reader' \in WalkType /\ ~reader.ended
           /\ reader'.kind = reader.kind /\ reader'.view = reader.view
           /\ reader'.arg = reader.arg /\ reader'.q = reader.q /\ reader'.kept = reader.kept
           /\ LET p == Page(reader, events, sessions) IN
              /\ reader'.got = Append(reader.got, {k \in p.rows : Shown(reader, events, k)})
              /\ reader'.cursor = p.next
              /\ reader'.ended = (p.next = None)
           /\ UNCHANGED store
<1>1. reader \in WalkType /\ ~reader.ended /\ UNCHANGED store
    BY WhichReader DEF NextPage, store
<1> DEFINE p == Page(reader, events, sessions)
           new == {k \in p.rows : Shown(reader, events, k)}
           next == p.next
<1>2. next \in Places \cup {None} /\ new \in SUBSET Places
    BY <1>1, PageIsPlaces DEF TypeInv
<1>3. reader' = [reader EXCEPT !.got = Append(reader.got, new), !.cursor = next, !.ended = (next = None)]
    BY DEF NextPage
<1> HIDE DEF p, new, next
<1>4. Append(reader.got, new) \in Seq(SUBSET Places)
    BY <1>1, <1>2 DEF WalkType
<1>5. reader' \in WalkType
    BY <1>1, <1>2, <1>3, <1>4 DEF WalkType
<1>6. /\ reader'.kind = reader.kind /\ reader'.view = reader.view
      /\ reader'.arg = reader.arg /\ reader'.q = reader.q /\ reader'.kept = reader.kept
      /\ reader'.got = Append(reader.got, new) /\ reader'.cursor = next /\ reader'.ended = (next = None)
    BY <1>1, <1>3 DEF WalkType
<1> QED
    BY <1>1, <1>5, <1>6 DEF new, next, p

(* Insert and Prune leave a part of the world stored. *)
LEMMA StoreChanges ==
    ASSUME StoreInv, Insert \/ Prune
    PROVE  /\ StoreInv' /\ emitted' = emitted /\ events' \in SUBSET emitted
           /\ MadeFrom(sessions', emitted)
           /\ Witness(events', sessions')
<1>1. emitted' = emitted /\ Witness(events', sessions')
    BY DEF Insert, Prune
<1>2. StoreInv'
    BY StoreStep DEF Next
<1> QED
    BY <1>1, <1>2 DEF StoreInv

(* What a change of the store does to a walk. *)
LEMMA WitnessedWalk ==
    ASSUME TypeInv, reader.kind \in WalkKinds, Insert \/ Prune
    PROVE  /\ reader \in WalkType /\ reader' \in WalkType
           /\ reader'.kind = reader.kind /\ reader'.view = reader.view
           /\ reader'.arg = reader.arg /\ reader'.q = reader.q /\ reader'.got = reader.got
           /\ reader'.cursor = reader.cursor /\ reader'.ended = reader.ended
           /\ reader'.kept = reader.kept \cap Keys(reader, events', sessions')
<1>1. reader \in WalkType /\ emitted' = emitted
    BY WhichReader, StoreChanges DEF TypeInv
<1>2. PICK kept : kept = reader.kept \cap Keys(reader, events', sessions')
    OBVIOUS
<1>3. reader' = [reader EXCEPT !.kept = kept]
    BY <1>2, StoreChanges DEF Witness, TypeInv
<1>4. kept \in SUBSET Places
    BY <1>1, <1>2 DEF WalkType
<1> QED
    BY <1>1, <1>2, <1>3, <1>4 DEF WalkType

(* What a change of the store does to a request. *)
LEMMA WitnessedAudit ==
    ASSUME TypeInv, reader.kind \in AuditKinds, Insert \/ Prune
    PROVE  /\ reader \in AuditType /\ reader' \in AuditType
           /\ reader'.kind = reader.kind /\ reader'.view = reader.view
           /\ reader'.arg = reader.arg /\ reader'.at = reader.at
           /\ reader'.todo = reader.todo /\ reader'.got = reader.got
           /\ reader'.hidden = reader.hidden
           /\ reader'.stored = reader.stored \cap events'
           /\ reader'.known = reader.known \cup events'
           /\ reader'.listed = reader.listed \cap ScopeIds(reader, sessions')
           /\ reader'.named = reader.named \cup ScopeIds(reader, sessions')
<1>1. reader \in AuditType /\ events' \in SUBSET emitted /\ emitted' = emitted
    BY WhichReader, StoreChanges DEF TypeInv
<1>2. PICK S, K, I, J : /\ S = reader.stored \cap events'
                        /\ K = reader.known \cup events'
                        /\ I = reader.listed \cap ScopeIds(reader, sessions')
                        /\ J = reader.named \cup ScopeIds(reader, sessions')
    OBVIOUS
<1>3. reader' = [reader EXCEPT !.stored = S, !.known = K, !.listed = I, !.named = J]
    <2>1. reader.kind \notin WalkKinds
        BY KindsDiffer
    <2>2. Witness(events', sessions')
        BY StoreChanges DEF TypeInv
    <2> QED BY <1>2, <2>1, <2>2 DEF Witness, ScopeIds
<1>4. ScopeIds(reader, sessions') \in SUBSET Int
    BY StoreChanges, ScopeIsPart DEF TypeInv, StoreInv, ScopeIds
<1>5. S \in SUBSET emitted /\ K \in SUBSET emitted /\ I \in SUBSET Int /\ J \in SUBSET Int
    BY <1>1, <1>2, <1>4 DEF AuditType
<1>6. reader' \in AuditType
    BY <1>1, <1>3, <1>5 DEF AuditType
<1> QED
    BY <1>1, <1>2, <1>3, <1>6 DEF AuditType

(* What a change of the store does to a reading of the counts. *)
LEMMA WitnessedMetrics ==
    ASSUME TypeInv, reader.kind = "metrics", Insert \/ Prune
    PROVE  /\ IsMetrics(reader) /\ IsMetrics(reader')
           /\ reader'.kind = reader.kind /\ reader'.view = reader.view
           /\ reader'.at = reader.at /\ reader'.counts = reader.counts
           /\ reader'.stored = reader.stored \cap events'
           /\ reader'.known = reader.known \cup events'
<1>1. IsMetrics(reader) /\ events' \in SUBSET emitted /\ emitted' = emitted
    BY WhichReader, StoreChanges DEF TypeInv
<1>2. PICK S, K : S = reader.stored \cap events' /\ K = reader.known \cup events'
    OBVIOUS
<1>3. reader' = [reader EXCEPT !.stored = S, !.known = K]
    <2>1. reader.kind \notin WalkKinds /\ reader.kind \notin AuditKinds
        BY KindsDiffer
    <2>2. Witness(events', sessions')
        BY StoreChanges DEF TypeInv
    <2> QED BY <1>2, <2>1, <2>2 DEF Witness
<1>4. S \in SUBSET emitted /\ K \in SUBSET emitted
    BY <1>1, <1>2 DEF IsMetrics, MetricsType
<1>5. reader \in MetricsType(reader.counts)
    BY <1>1 DEF IsMetrics
<1> DEFINE c == reader.counts
<1> HIDE DEF c
<1>6. /\ reader' \in MetricsType(c) /\ reader'.counts = c
      /\ reader'.kind = reader.kind /\ reader'.view = reader.view /\ reader'.at = reader.at
      /\ reader'.stored = S /\ reader'.known = K
    BY <1>3, <1>4, <1>5 DEF MetricsType, c
<1> QED
    BY <1>1, <1>2, <1>6 DEF IsMetrics, c

AuditStep == ReadMetrics \/ ReadPolicy \/ ReadScope \/ ReadRows \/ Build

(* A new request. *)
LEMMA NewRequest ==
    ASSUME NEW kind, NEW view, NEW arg, NEW at
    PROVE  LET ids == IdsOf(ScopeRows(kind, view, arg, sessions)) IN
           [Request(kind, view, arg) EXCEPT !.at = at]
           = [kind |-> kind, view |-> view, arg |-> arg, at |-> at,
              total |-> 0, blocked |-> 0, todo |-> {}, got |-> {},
              stored |-> events, known |-> events,
              listed |-> ids, named |-> ids, hidden |-> {}]
<1> DEFINE ids == IdsOf(ScopeRows(kind, view, arg, sessions))
           w == [kind |-> kind, view |-> view, arg |-> arg, at |-> "metrics",
                 total |-> 0, blocked |-> 0, todo |-> {}, got |-> {},
                 stored |-> events, known |-> events,
                 listed |-> ids, named |-> ids, hidden |-> {}]
<1>1. Request(kind, view, arg) = w
    BY DEF Request
<1> HIDE DEF ids
<1>2. [w EXCEPT !.at = at]
      = [kind |-> kind, view |-> view, arg |-> arg, at |-> at,
         total |-> 0, blocked |-> 0, todo |-> {}, got |-> {},
         stored |-> events, known |-> events,
         listed |-> ids, named |-> ids, hidden |-> {}]
    OBVIOUS
<1> QED
    BY <1>1, <1>2 DEF ids

(* A request begins by noting what is stored and in its scope. *)
LEMMA BegunAudit ==
    ASSUME StoreInv, BeginAudit
    PROVE  /\ reader' \in AuditType /\ reader'.at \in {"metrics", "scope"}
           /\ reader'.todo = {} /\ reader'.got = {} /\ reader'.hidden = {}
           /\ reader'.stored = events /\ reader'.known = events
           /\ reader'.listed = ScopeIds(reader', sessions)
           /\ reader'.named = ScopeIds(reader', sessions)
           /\ UNCHANGED store
<1>1. \A e \in emitted : e.session_id \in Int /\ e.trace_id \in Int
    BY WorldFacts DEF StoreInv
<1>2. PICK v \in TenantsOf(emitted) :
          \/ \E s \in {e.session_id : e \in emitted} :
                reader' = [Request("session", v, s) EXCEPT !.at = "scope"]
          \/ \E t \in {e.trace_id : e \in emitted} :
                \/ reader' = [Request("workflow", v, t) EXCEPT !.at = "scope"]
                \/ reader' = Request("report", v, t)
    BY DEF BeginAudit
<1>3. \E kind \in AuditKinds, n \in Int, at \in {"metrics", "scope"} :
          reader' = [Request(kind, v, n) EXCEPT !.at = at]
    <2>1. "session" \in AuditKinds /\ "workflow" \in AuditKinds /\ "report" \in AuditKinds
        BY DEF AuditKinds
    <2>2. \A t : Request("report", v, t) = [Request("report", v, t) EXCEPT !.at = "metrics"]
        BY DEF Request
    <2> QED BY <1>1, <1>2, <2>1, <2>2
<1>4. PICK kind \in AuditKinds, n \in Int, at \in {"metrics", "scope"} :
          reader' = [Request(kind, v, n) EXCEPT !.at = at]
    BY <1>3
<1>5. UNCHANGED store
    BY Zenon DEF BeginAudit
<1> DEFINE u == reader'
           ids == IdsOf(ScopeRows(kind, v, n, sessions))
<1>6. u = [kind |-> kind, view |-> v, arg |-> n, at |-> at,
           total |-> 0, blocked |-> 0, todo |-> {}, got |-> {},
           stored |-> events, known |-> events,
           listed |-> ids, named |-> ids, hidden |-> {}]
    BY <1>4, NewRequest
<1>7. ids \in SUBSET Int /\ events \in SUBSET emitted
    BY ScopeIsPart DEF StoreInv
<1> HIDE DEF u, ids
<1>8. u \in AuditType
    BY <1>6, <1>7 DEF AuditType
<1>9. /\ u.kind = kind /\ u.view = v /\ u.arg = n /\ u.at \in {"metrics", "scope"}
      /\ u.todo = {} /\ u.got = {} /\ u.hidden = {}
      /\ u.stored = events /\ u.known = events /\ u.listed = ids /\ u.named = ids
    BY <1>6
<1>10. ids = ScopeIds(u, sessions)
    BY <1>9 DEF ScopeIds, ids
<1> QED
    BY <1>5, <1>8, <1>9, <1>10 DEF u

(* A step of a request leaves the store alone, and the reader a request, or *)
(* ends it.                                                                 *)
LEMMA AuditSteps ==
    ASSUME TypeInv, AuditStep
    PROVE  /\ reader \in AuditType
           /\ reader' = Idle \/ reader' \in AuditType
           /\ UNCHANGED store
<1>1. reader.kind \in AuditKinds
    BY DEF AuditStep, ReadMetrics, ReadPolicy, ReadScope, ReadRows, Build, AuditKinds
<1>2. reader \in AuditType
    BY <1>1, WhichReader
<1>3. UNCHANGED store
    <2>1. ReadMetrics \/ ReadPolicy => UNCHANGED store
        BY Zenon DEF ReadMetrics, ReadPolicy
    <2>2. ReadScope \/ ReadRows \/ Build => UNCHANGED store
        BY Zenon DEF ReadScope, ReadRows, Build
    <2> QED BY <2>1, <2>2 DEF AuditStep
<1>4. emitted \in Worlds /\ events \in SUBSET emitted /\ StoreInv
    BY DEF TypeInv, StoreInv
<1>5. CASE ReadMetrics
    <2>1. PICK n : n = GetMetrics(events, sessions, reader.view).accepted
        OBVIOUS
    <2>2. reader' = [reader EXCEPT !.at = "policy", !.total = n] /\ n \in Nat
        BY <1>4, <1>5, <2>1, CountsAreNat DEF ReadMetrics
    <2> QED BY <1>2, <1>3, <2>2 DEF AuditType
<1>6. CASE ReadPolicy
    <2>1. PICK n : n = Cardinality(GetPolicyBlockedEvents(events, reader.view, None, None))
        OBVIOUS
    <2>2. reader' = [reader EXCEPT !.at = "scope", !.blocked = n] /\ n \in Nat
        BY <1>4, <1>6, <2>1, CountsAreNat DEF ReadPolicy
    <2> QED BY <1>2, <1>3, <2>2 DEF AuditType
<1>7. CASE ReadScope
    <2>1. PICK S, H : /\ \/ reader' = [reader EXCEPT !.at = "rows", !.todo = S, !.hidden = H]
                         \/ reader' = [reader EXCEPT !.at = "unscoped"]
                         \/ reader' = Idle
                      /\ S \in SUBSET Int /\ H \in SUBSET Int
        <3> DEFINE rows == ScopeRows(reader.kind, reader.view, reader.arg, sessions)
                   S == ScopeSessions(rows)
                   H == IF reader.kind = "session" THEN {} ELSE Cyclic(rows)
        <3>1. S \in SUBSET Int /\ H \in SUBSET Int
            <4>1. PICK R, h : /\ R = rows
                              /\ h = IF reader.kind = "session" THEN {} ELSE Cyclic(R)
                OBVIOUS
            <4>2. ScopeSessions(R) \in SUBSET Int /\ h \in SUBSET Int
                BY <1>2, <1>4, <4>1, ScopeIsInts
            <4> QED BY <4>1, <4>2
        <3>2. \/ reader' = [reader EXCEPT !.at = "rows", !.todo = S, !.hidden = H]
              \/ reader' = [reader EXCEPT !.at = "unscoped"]
              \/ reader' = Idle
            BY <1>7 DEF ReadScope
        <3> HIDE DEF S, H
        <3> QED BY <3>1, <3>2
    <2>2. CASE reader' = [reader EXCEPT !.at = "rows", !.todo = S, !.hidden = H]
        <3>1. reader' \in AuditType
            BY <1>2, <2>1, <2>2 DEF AuditType
        <3> QED BY <1>2, <1>3, <3>1
    <2>3. CASE reader' = [reader EXCEPT !.at = "unscoped"]
        <3>1. reader' \in AuditType
            BY <1>2, <2>3 DEF AuditType
        <3> QED BY <1>2, <1>3, <3>1
    <2> QED BY <1>2, <1>3, <2>1, <2>2, <2>3
<1>8. CASE ReadRows
    <2>1. PICK s \in reader.todo :
              reader' = [reader EXCEPT !.todo = @ \ {s},
                                       !.got = @ \cup SessionEvents(events, s, reader.view)]
        BY <1>8 DEF ReadRows
    <2>2. PICK T, E : T = reader.todo \ {s} /\ E = reader.got \cup SessionEvents(events, s, reader.view)
        OBVIOUS
    <2>3. T \in SUBSET Int /\ E \in SUBSET emitted
        BY <1>2, <1>4, <2>2 DEF AuditType, SessionEvents
    <2>4. reader' = [reader EXCEPT !.todo = T, !.got = E]
        BY <2>1, <2>2
    <2> QED BY <1>2, <1>3, <2>3, <2>4 DEF AuditType
<1>9. CASE Build
    BY <1>2, <1>3, <1>9 DEF Build, AuditType
<1> QED
    BY <1>2, <1>3, <1>5, <1>6, <1>7, <1>8, <1>9 DEF AuditStep

(* What a reading of the counts begins with. *)
LEMMA BegunMetrics ==
    ASSUME StoreInv, BeginMetrics
    PROVE  /\ IsMetrics(reader') /\ reader'.kind = "metrics" /\ reader'.at = "accepted"
           /\ reader'.stored = events /\ reader'.known = events
           /\ UNCHANGED store
<1> DEFINE u == reader'
<1>1. PICK c : c = [q \in DOMAIN NextQuery |-> 0]
    OBVIOUS
<1>2. PICK v \in TenantsOf(emitted) \cup {None} :
          u = [kind |-> "metrics", view |-> v, at |-> "accepted", counts |-> c,
               stored |-> events, known |-> events]
    BY <1>1 DEF BeginMetrics
<1>3. IsCounts(c)
    BY <1>1 DEF IsCounts
<1>4. "accepted" \in DOMAIN NextQuery /\ events \in SUBSET emitted
    BY DEF NextQuery, StoreInv
<1> HIDE DEF u
<1>5. u \in MetricsType(c) /\ u.counts = c
    BY <1>2, <1>4 DEF MetricsType
<1>6. /\ u.kind = "metrics" /\ u.at = "accepted"
      /\ u.stored = events /\ u.known = events
    BY <1>2
<1>7. UNCHANGED store
    BY Zenon DEF BeginMetrics
<1> QED
    BY <1>3, <1>5, <1>6, <1>7 DEF u, IsMetrics

(* What one query does to the counts. *)
LEMMA CountRead ==
    ASSUME TypeInv, ReadCount
    PROVE  /\ IsMetrics(reader) /\ IsMetrics(reader')
           /\ reader.at \in DOMAIN NextQuery
           /\ reader'.kind = "metrics" /\ reader'.view = reader.view
           /\ reader'.at = NextQuery[reader.at]
           /\ reader'.stored = reader.stored /\ reader'.known = reader.known
           /\ reader'.counts[reader.at]
              = GetMetrics(events, sessions, reader.view)[reader.at]
           /\ \A q \in DOMAIN NextQuery \ {reader.at} : reader'.counts[q] = reader.counts[q]
           /\ UNCHANGED store
<1> DEFINE u == reader'
           c == reader.counts
<1>1. PICK a, m : a = reader.at /\ m = GetMetrics(events, sessions, reader.view)[a]
    OBVIOUS
<1>2. PICK d, n : d = [c EXCEPT ![a] = m] /\ n = NextQuery[a]
    OBVIOUS
<1>3. IsMetrics(reader) /\ a \in DOMAIN NextQuery
    BY <1>1, WhichReader DEF ReadCount
<1>4. u = [reader EXCEPT !.counts = d, !.at = n]
    BY <1>1, <1>2 DEF ReadCount
<1>5. n \in DOMAIN NextQuery \cup {"counted"}
    BY <1>2, <1>3 DEF NextQuery
<1>6. /\ IsCounts(d) /\ d[a] = m
      /\ \A q \in DOMAIN NextQuery \ {a} : d[q] = c[q]
    BY <1>2, <1>3 DEF IsMetrics, IsCounts
<1>7. reader \in MetricsType(c)
    BY <1>3 DEF IsMetrics
<1> HIDE DEF u, c
<1>8. /\ u \in MetricsType(d) /\ u.counts = d
      /\ u.kind = "metrics" /\ u.view = reader.view /\ u.at = n
      /\ u.stored = reader.stored /\ u.known = reader.known
    BY <1>4, <1>5, <1>7 DEF MetricsType
<1>9. UNCHANGED store
    BY Zenon DEF ReadCount
<1> QED
    BY <1>1, <1>2, <1>3, <1>6, <1>8, <1>9 DEF IsMetrics, u, c

(* Every step keeps the types. *)
LEMMA TypeStep ==
    ASSUME TypeInv, [Next]_vars
    PROVE  TypeInv'
<1> DEFINE Typed(r) == r = Idle \/ r \in WalkType \/ r \in AuditType \/ IsMetrics(r)
<1>1. StoreInv /\ StoreInv' /\ Typed(reader)
    BY StoreStep DEF TypeInv
<1>2. emitted' = emitted
    <2>1. Insert \/ Prune => emitted' = emitted
        BY DEF Insert, Prune
    <2>2. ~Insert /\ ~Prune => emitted' = emitted
        BY StoreKept DEF store
    <2> QED BY <2>1, <2>2
<1>3. SUFFICES Typed(reader')
    <2>1. WalkType' = WalkType /\ AuditType' = AuditType
        BY <1>2 DEF WalkType, AuditType
    <2>2. IsMetrics(reader') => IsMetrics(reader)'
        BY <1>2 DEF IsMetrics, MetricsType
    <2> QED BY <1>1, <2>1, <2>2 DEF TypeInv
<1>4. CASE Insert \/ Prune
    <2>1. CASE reader.kind \in WalkKinds
        BY <1>4, <2>1, WitnessedWalk
    <2>2. CASE reader.kind \in AuditKinds
        BY <1>4, <2>2, WitnessedAudit
    <2>3. CASE reader.kind = "metrics"
        BY <1>4, <2>3, WitnessedMetrics
    <2>4. CASE reader.kind \notin WalkKinds \cup AuditKinds \cup {"metrics"}
        <3>1. reader' = reader
            BY <1>1, <1>4, <2>4, StoreChanges DEF Witness
        <3> QED BY <1>1, <3>1
    <2> QED BY <2>1, <2>2, <2>3, <2>4
<1>5. CASE BeginWalk
    BY <1>1, <1>5, BegunWalk
<1>6. CASE NextPage
    BY <1>6, TurnedPage
<1>7. CASE BeginAudit
    BY <1>1, <1>7, BegunAudit
<1>8. CASE AuditStep
    BY <1>8, AuditSteps
<1>9. CASE BeginMetrics
    BY <1>1, <1>9, BegunMetrics
<1>10. CASE ReadCount
    BY <1>10, CountRead
<1>11. CASE Answer
    BY <1>11 DEF Answer
<1>12. CASE UNCHANGED vars
    BY <1>1, <1>12 DEF vars
<1> QED
    BY <1>4, <1>5, <1>6, <1>7, <1>8, <1>9, <1>10, <1>11, <1>12 DEF Next, AuditStep

(* Every state is of its type: events and rows are the world's, and the reader *)
(* is idle, a walk over places, a request over the world's events or a reading *)
(* of the counts.                                                              *)
THEOREM TypeInvariant == Spec => []TypeInv
<1>1. Init => TypeInv
    BY FS_EmptySet DEF Init, TypeInv, StoreInv, MadeFrom
<1>2. TypeInv /\ [Next]_vars => TypeInv'
    BY TypeStep
<1> QED
    BY <1>1, <1>2, PTL DEF Spec

-----------------------------------------------------------------------------
(* Walks *)

WalkInv == reader.kind \in WalkKinds => WalkShape(reader) /\ WalkOk(reader, events, sessions)

(* Every step keeps the invariant of the walk. *)
LEMMA WalkStep ==
    ASSUME TypeInv, TypeInv', WalkInv, [Next]_vars
    PROVE  WalkInv'
<1> DEFINE u == reader'
           e == events'
           t == sessions'
<1>1. SUFFICES ASSUME u.kind \in WalkKinds
               PROVE  WalkShape(u) /\ WalkOk(u, e, t)
    BY DEF WalkInv
<1>2. /\ emitted \in Worlds /\ events \in SUBSET emitted /\ StoreInv
      /\ MadeFrom(sessions, emitted)
    BY DEF TypeInv, StoreInv
<1>3. CASE Insert \/ Prune
    <2>1. e \in SUBSET emitted /\ Witness(e, t)
        BY <1>2, <1>3, StoreChanges
    <2>2. reader.kind \in WalkKinds
        <3>1. CASE reader.kind \in AuditKinds
            <4>1. u.kind = reader.kind
                BY <1>3, <3>1, WitnessedAudit
            <4> QED BY <1>1, <3>1, <4>1, KindsDiffer
        <3>2. CASE reader.kind = "metrics"
            <4>1. u.kind = reader.kind
                BY <1>3, <3>2, WitnessedMetrics
            <4> QED BY <1>1, <3>2, <4>1, KindsDiffer
        <3>3. CASE reader.kind \notin WalkKinds \cup AuditKinds \cup {"metrics"}
            BY <1>1, <2>1, <3>3 DEF Witness
        <3> QED BY <3>1, <3>2, <3>3
    <2>3. /\ u.kind = reader.kind /\ u.view = reader.view /\ u.arg = reader.arg /\ u.q = reader.q
          /\ u.got = reader.got /\ u.cursor = reader.cursor /\ u.ended = reader.ended
          /\ u.kept = reader.kept \cap Keys(reader, e, t)
        BY <1>3, <2>2, WitnessedWalk
    <2> HIDE DEF u, e, t
    <2> QED BY <1>2, <2>1, <2>2, <2>3, WalkSeesStore DEF WalkInv
<1>4. CASE BeginWalk
    <2>1. /\ u \in WalkType /\ u.got = <<>> /\ u.cursor = None /\ u.ended = FALSE
          /\ u.kept = Keys(u, events, sessions) /\ e = events /\ t = sessions
        BY <1>2, <1>4, BegunWalk DEF store
    <2>2. u.kept \in SUBSET Places /\ u.kept \subseteq Keys(u, e, t)
        <3> HIDE DEF u, e, t
        <3> QED BY <1>1, <1>2, <2>1, KeyFacts
    <2>3. WalkShape(u)
        <3>1. << >> \in Seq(SUBSET Places)
            OBVIOUS
        <3> HIDE DEF u, e, t
        <3> QED BY <1>1, <2>1, <2>2, <3>1 DEF WalkShape
    <2> HIDE DEF u, e, t
    <2> QED BY <2>1, <2>2, <2>3, WalkBegins
<1>5. CASE NextPage
    <2> DEFINE p == Page(reader, events, sessions)
    <2>1. /\ reader \in WalkType /\ ~reader.ended /\ e = events /\ t = sessions
          /\ u.kind = reader.kind /\ u.view = reader.view /\ u.arg = reader.arg /\ u.q = reader.q
          /\ u.kept = reader.kept
          /\ u.got = Append(reader.got, {k \in p.rows : Shown(reader, events, k)})
          /\ u.cursor = p.next /\ u.ended = (p.next = None)
        BY <1>5, TurnedPage DEF store
    <2> HIDE DEF u, e, t
    <2>2. WalkShape(reader) /\ WalkOk(reader, events, sessions)
        BY <1>1, <2>1 DEF WalkInv
    <2>3. WalkShape(u) /\ WalkOk(u, events, sessions)
        BY <1>2, <2>1, <2>2, WalkTurnsPage
    <2> QED BY <2>1, <2>3
<1>6. CASE BeginAudit \/ AuditStep
    <2>1. u = Idle \/ u \in AuditType
        BY <1>2, <1>6, BegunAudit, AuditSteps
    <2>2. u.kind \notin WalkKinds
        BY <2>1, KindsDiffer DEF AuditType
    <2> QED BY <1>1, <2>2
<1>7. CASE BeginMetrics \/ ReadCount
    <2>1. u.kind = "metrics"
        BY <1>2, <1>7, BegunMetrics, CountRead
    <2> QED BY <1>1, <2>1, KindsDiffer
<1>8. CASE Answer
    BY <1>1, <1>8, KindsDiffer DEF Answer
<1>9. CASE UNCHANGED vars
    BY <1>1, <1>9 DEF vars, WalkInv
<1> QED
    BY <1>3, <1>4, <1>5, <1>6, <1>7, <1>8, <1>9 DEF Next, AuditStep

(* The invariant of the walk holds in every state. *)
LEMMA WalkInvariant == Spec => [](TypeInv /\ WalkInv)
<1>1. Init => WalkInv
    BY KindsDiffer DEF Init, WalkInv
<1>2. TypeInv /\ TypeInv' /\ WalkInv /\ [Next]_vars => WalkInv'
    BY WalkStep
<1> QED
    BY <1>1, <1>2, TypeInvariant, PTL DEF Spec

(* It implies that the pages are exact. *)
LEMMA WalkIsExact ==
    ASSUME TypeInv, WalkInv
    PROVE  WalksAreExact
<1> SUFFICES ASSUME reader.kind \in WalkKinds
             PROVE  /\ \A i, j \in DOMAIN reader.got : i < j =>
                          \A k \in reader.got[i], l \in reader.got[j] :
                              /\ Precedes(reader, k, l)
                              /\ k[2] \in Ids(reader.kept) => k[2] # l[2]
                    /\ reader.ended =>
                          {k \in reader.kept : Shown(reader, events, k)}
                          \subseteq UNION {reader.got[i] : i \in DOMAIN reader.got}
    BY DEF WalksAreExact
<1>1. WalkShape(reader) /\ WalkOk(reader, events, sessions)
    BY DEF WalkInv
<1>2. /\ OnePlaceEach(Keys(reader, events, sessions))
      /\ reader.kept \subseteq Keys(reader, events, sessions)
    BY <1>1, KeyFacts DEF TypeInv, StoreInv, WalkOk
<1>3. ASSUME NEW i \in DOMAIN reader.got, NEW j \in DOMAIN reader.got, i < j,
             NEW k \in reader.got[i], NEW l \in reader.got[j]
      PROVE  Precedes(reader, k, l) /\ (k[2] \in Ids(reader.kept) => k[2] # l[2])
    <2>1. Precedes(reader, k, l)
        BY <1>1, <1>3 DEF WalkOk, InOrder
    <2>2. k \in Places /\ Returned(reader, k) /\ Returned(reader, l)
        BY <1>1 DEF WalkShape, Returned
    <2>3. ASSUME k[2] \in Ids(reader.kept), k[2] = l[2]
          PROVE  FALSE
        <3>1. k \in reader.kept /\ l \in reader.kept
            BY <1>1, <2>2, <2>3 DEF WalkOk, AtKeptPlace
        <3>2. k = l
            BY <1>2, <2>3, <3>1 DEF OnePlaceEach
        <3> QED BY <2>1, <2>2, <3>2, OrderIsStrict
    <2> QED BY <2>1, <2>3
<1>4. ASSUME reader.ended, NEW k \in reader.kept, Shown(reader, events, k)
      PROVE  \E i \in DOMAIN reader.got : k \in reader.got[i]
    BY <1>1, <1>4 DEF WalkOk, NoneLeftOut, Passed, Returned
<1> QED
    BY <1>3, <1>4

(* Pages are a partition of the list, whatever is inserted and pruned between *)
(* them: in order, without a row twice, and with all rows that kept their     *)
(* place since the first page.                                                *)
THEOREM WalksAreAlwaysExact == Spec => []WalksAreExact
<1>1. TypeInv /\ WalkInv => WalksAreExact
    BY WalkIsExact
<1> QED
    BY <1>1, WalkInvariant, PTL

-----------------------------------------------------------------------------
(* Requests for a bundle or a report *)

(* The event e is in the scope that request u asks for. *)
InRange(u, e) ==
    /\ e.tenant = u.view
    /\ IF u.kind = "session" THEN e.session_id = u.arg ELSE e.trace_id = u.arg

(* The event e is to be in the bundle of request u. *)
Wanted(u, e) ==
    /\ e.tenant = u.view /\ e.session_id \notin u.hidden
    /\ e.session_id \in u.listed \/ (Plain(emitted) /\ InRange(u, e))

(* The event e may be in it. *)
Fitting(u, e) ==
    /\ e \in u.known /\ e.tenant = u.view /\ e.session_id \in u.named
    /\ Plain(emitted) => InRange(u, e)

(* Not only has every event that is to be in the bundle been read: on the way *)
(* there, its session is still to be read, and only sessions that the scope   *)
(* named are.                                                                 *)
AuditOk(u, evs, tab) ==
    /\ u.stored \subseteq evs /\ evs \subseteq u.known
    /\ u.listed \subseteq ScopeIds(u, tab) /\ ScopeIds(u, tab) \subseteq u.named
    /\ \A e \in u.got : Fitting(u, e)
    /\ u.at = "rows" =>
          /\ u.todo \subseteq u.named
          /\ Plain(emitted) => \A e \in emitted :
                e.session_id \in u.todo /\ e.tenant = u.view => InRange(u, e)
    /\ u.at \in {"rows", "built"} =>
          \A e \in u.stored : Wanted(u, e) => e \in u.got \/ e.session_id \in u.todo
    /\ u.at = "built" => u.todo = {}

BundleInv == reader.kind \in AuditKinds => AuditOk(reader, events, sessions)

(* What the scope of a request says if session ids have one tenant and trace: *)
(* its sessions have only events of the scope, and the session of each event  *)
(* of the scope is one of them.                                               *)
LEMMA ScopeIsWhole ==
    ASSUME StoreInv, reader \in AuditType, Plain(emitted)
    PROVE  /\ \A e \in emitted :
                 e.session_id \in ScopeIds(reader, sessions) /\ e.tenant = reader.view
                 => InRange(reader, e)
           /\ \A e \in events : InRange(reader, e) => e.session_id \in ScopeIds(reader, sessions)
<1> DEFINE rows == ScopeRows(reader.kind, reader.view, reader.arg, sessions)
<1>1. emitted \in Worlds /\ events \in SUBSET emitted /\ MadeFrom(sessions, emitted)
    BY DEF StoreInv
<1>2. ASSUME NEW r \in sessions, NEW e \in emitted, r.session = e.session_id
      PROVE  r.tenant = e.tenant /\ r.trace = e.trace_id
    <2>1. PICK f \in emitted : /\ r.session = f.session_id /\ r.tenant = f.tenant
                               /\ r.trace = f.trace_id
        BY <1>1, MadeRows
    <2> QED BY <1>2, <2>1 DEF Plain
<1>3. ASSUME NEW e \in emitted, e.session_id \in IdsOf(rows), e.tenant = reader.view
      PROVE  InRange(reader, e)
    <2>1. PICK r \in rows : r.session = e.session_id
        BY <1>3, IdIff
    <2>2. CASE reader.kind = "session"
        <3>1. r.session = reader.arg
            BY <2>1, <2>2 DEF ScopeRows
        <3> QED BY <1>3, <2>1, <2>2, <3>1 DEF InRange
    <2>3. CASE reader.kind # "session"
        <3>1. r \in sessions /\ r.trace = reader.arg
            BY <2>1, <2>3 DEF ScopeRows, TraceRows, Seen
        <3> QED BY <1>2, <1>3, <2>1, <2>3, <3>1 DEF InRange
    <2> QED BY <2>2, <2>3
<1>4. ASSUME NEW e \in events, InRange(reader, e)
      PROVE  e.session_id \in IdsOf(rows)
    <2>1. e.session_id \in IdsOf(sessions)
        BY DEF StoreInv
    <2>2. PICK r \in sessions : r.session = e.session_id
        BY <2>1, IdIff
    <2>3. r.tenant = e.tenant /\ r.trace = e.trace_id
        BY <1>1, <1>2, <2>2
    <2>4. r \in rows
        BY <1>4, <2>2, <2>3 DEF InRange, ScopeRows, TraceRows, Seen
    <2> HIDE DEF rows
    <2> QED BY <2>2, <2>4, IdIff
<1> QED
    BY <1>3, <1>4 DEF ScopeIds

(* A request is made for a tenant. *)
LEMMA ViewIsATenant ==
    ASSUME StoreInv, reader \in AuditType
    PROVE  reader.view # None
BY NoneAssumption DEF StoreInv, AuditType, TenantsOf

(* The scope of a request depends on its parameters alone. *)
LEMMA SameRequest ==
    ASSUME NEW u, NEW v, v.kind = u.kind, v.view = u.view, v.arg = u.arg
    PROVE  /\ \A x : InRange(v, x) <=> InRange(u, x)
           /\ \A tab : ScopeIds(v, tab) = ScopeIds(u, tab)
BY DEF InRange, ScopeIds

(* A request that has read nothing satisfies the invariant of the bundle. *)
LEMMA AuditBegins ==
    ASSUME NEW u, NEW evs, NEW tab, u.stored = evs, u.known = evs, u.got = {},
           u.listed = ScopeIds(u, tab), u.named = ScopeIds(u, tab),
           u.at \in {"metrics", "scope"}
    PROVE  AuditOk(u, evs, tab)
BY DEF AuditOk

(* A change of the store keeps it. *)
LEMMA AuditSeesStore ==
    ASSUME NEW u, NEW evs, NEW tab, AuditOk(u, evs, tab), NEW evs2, NEW tab2,
           NEW v, v.kind = u.kind, v.view = u.view, v.arg = u.arg, v.at = u.at,
           v.todo = u.todo, v.got = u.got, v.hidden = u.hidden,
           v.stored = u.stored \cap evs2, v.known = u.known \cup evs2,
           v.listed = u.listed \cap ScopeIds(u, tab2),
           v.named = u.named \cup ScopeIds(u, tab2)
    PROVE  AuditOk(v, evs2, tab2)
<1>1. \A x : InRange(v, x) <=> InRange(u, x)
    BY SameRequest
<1>2. ScopeIds(v, tab2) = ScopeIds(u, tab2)
    BY SameRequest
<1>3. \A x : Fitting(u, x) => Fitting(v, x)
    BY <1>1 DEF Fitting
<1>4. \A x : Wanted(v, x) => Wanted(u, x)
    BY <1>1 DEF Wanted
<1> QED
    BY <1>1, <1>2, <1>3, <1>4 DEF AuditOk

(* The steps that read no events. *)
LEMMA AuditGoesOn ==
    ASSUME NEW u, NEW v, NEW evs, NEW tab, AuditOk(u, evs, tab),
           v.kind = u.kind, v.view = u.view, v.arg = u.arg,
           v.todo = u.todo, v.got = u.got, v.stored = u.stored, v.known = u.known,
           v.listed = u.listed, v.named = u.named, v.hidden = u.hidden,
           \/ v.at \in {"metrics", "policy", "scope", "unscoped"}
           \/ v.at = "built" /\ u.at = "rows" /\ u.todo = {}
    PROVE  AuditOk(v, evs, tab)
<1>1. \A x : InRange(v, x) <=> InRange(u, x)
    BY SameRequest
<1>2. ScopeIds(v, tab) = ScopeIds(u, tab)
    BY SameRequest
<1>3. \A x : (Fitting(v, x) <=> Fitting(u, x)) /\ (Wanted(v, x) <=> Wanted(u, x))
    BY <1>1 DEF Fitting, Wanted
<1> QED
    BY <1>2, <1>3 DEF AuditOk

(* Reading the scope keeps it. *)
LEMMA AuditScopes ==
    ASSUME TypeInv, reader \in AuditType, AuditOk(reader, events, sessions),
           NEW u, u.kind = reader.kind, u.view = reader.view, u.arg = reader.arg,
           u.at = "rows", u.todo = ScopeIds(reader, sessions) \ u.hidden,
           u.got = reader.got, u.stored = reader.stored, u.known = reader.known,
           u.listed = reader.listed, u.named = reader.named
    PROVE  AuditOk(u, events, sessions)
<1> DEFINE I == ScopeIds(reader, sessions)
<1>1. Plain(emitted) =>
          /\ \A e \in emitted : e.session_id \in I /\ e.tenant = reader.view => InRange(reader, e)
          /\ \A e \in events : InRange(reader, e) => e.session_id \in I
    BY ScopeIsWhole DEF TypeInv
<1>2. u.todo = I \ u.hidden
    OBVIOUS
<1>3. /\ reader.listed \subseteq I /\ I \subseteq reader.named
      /\ reader.stored \subseteq events /\ events \subseteq reader.known
      /\ \A e \in reader.got : Fitting(reader, e)
    BY DEF AuditOk
<1>4. \A x : InRange(u, x) <=> InRange(reader, x)
    BY SameRequest
<1>5. ScopeIds(u, sessions) = I
    BY SameRequest
<1> HIDE DEF I
<1>6. \A x : Fitting(reader, x) => Fitting(u, x)
    BY <1>4 DEF Fitting
<1>7. ASSUME NEW e \in u.stored, Wanted(u, e)
      PROVE  e.session_id \in u.todo
    BY <1>1, <1>2, <1>3, <1>4, <1>7 DEF Wanted
<1>8. /\ u.todo \subseteq u.named
      /\ Plain(emitted) => \A e \in emitted :
            e.session_id \in u.todo /\ e.tenant = u.view => InRange(u, e)
    BY <1>1, <1>2, <1>3, <1>4
<1> QED
    BY <1>3, <1>5, <1>6, <1>7, <1>8 DEF AuditOk

(* Reading one session's events keeps it. *)
LEMMA AuditReadsRows ==
    ASSUME TypeInv, reader \in AuditType, AuditOk(reader, events, sessions),
           reader.at = "rows",
           NEW s \in reader.todo, NEW u,
           u.kind = reader.kind, u.view = reader.view, u.arg = reader.arg, u.at = "rows",
           u.todo = reader.todo \ {s},
           u.got = reader.got \cup SessionEvents(events, s, reader.view),
           u.stored = reader.stored, u.known = reader.known,
           u.listed = reader.listed, u.named = reader.named, u.hidden = reader.hidden
    PROVE  AuditOk(u, events, sessions)
<1>1. PICK T, E : T = reader.todo \ {s} /\ E = SessionEvents(events, s, reader.view)
    OBVIOUS
<1>2. u.todo = T /\ u.got = reader.got \cup E
    BY <1>1
<1>3. /\ u.kind = reader.kind /\ u.view = reader.view /\ u.arg = reader.arg
      /\ u.at = "rows" /\ u.todo = T /\ u.got = reader.got \cup E
      /\ u.stored = reader.stored /\ u.known = reader.known
      /\ u.listed = reader.listed /\ u.named = reader.named /\ u.hidden = reader.hidden
    BY <1>2
<1>4. \A x : InRange(u, x) <=> InRange(reader, x)
    BY <1>3, SameRequest
<1>5. ScopeIds(u, sessions) = ScopeIds(reader, sessions)
    BY <1>3, SameRequest
<1>6. \A x : (Fitting(u, x) <=> Fitting(reader, x)) /\ (Wanted(u, x) <=> Wanted(reader, x))
    BY <1>3, <1>4 DEF Fitting, Wanted
<1>7. reader.view # None
    BY ViewIsATenant DEF TypeInv
<1>8. E = {e \in events : e.session_id = s /\ e.tenant = reader.view}
    BY <1>1, <1>7 DEF SessionEvents
<1>9. /\ events \subseteq emitted /\ events \subseteq reader.known
      /\ reader.stored \subseteq events /\ reader.todo \subseteq reader.named
      /\ Plain(emitted) => \A e \in emitted :
            e.session_id \in reader.todo /\ e.tenant = reader.view => InRange(reader, e)
    BY DEF TypeInv, StoreInv, AuditOk
<1>10. ASSUME NEW e \in E
       PROVE  Fitting(reader, e)
    BY <1>8, <1>9 DEF Fitting
<1>11. \A e \in u.got : Fitting(u, e)
    BY <1>3, <1>6, <1>10 DEF AuditOk
<1>12. ASSUME NEW e \in u.stored, Wanted(u, e)
       PROVE  e \in u.got \/ e.session_id \in u.todo
    <2>1. e \in reader.got \/ e.session_id \in reader.todo
        BY <1>3, <1>6, <1>12 DEF AuditOk
    <2>2. e.session_id = s => e \in E
        BY <1>3, <1>6, <1>8, <1>9, <1>12 DEF Wanted
    <2> QED BY <1>1, <1>3, <2>1, <2>2
<1>13. /\ u.todo \subseteq u.named
       /\ Plain(emitted) => \A e \in emitted :
             e.session_id \in u.todo /\ e.tenant = u.view => InRange(u, e)
    BY <1>1, <1>3, <1>4, <1>9
<1>14. /\ u.stored \subseteq events /\ events \subseteq u.known
       /\ u.listed \subseteq ScopeIds(u, sessions) /\ ScopeIds(u, sessions) \subseteq u.named
    BY <1>3, <1>5 DEF AuditOk
<1> QED
    BY <1>3, <1>11, <1>12, <1>13, <1>14 DEF AuditOk

(* The steps of a request that read the store, and Build, keep it. *)
LEMMA AuditStepKeeps ==
    ASSUME TypeInv, BundleInv, AuditStep, reader' # Idle
    PROVE  AuditOk(reader', events, sessions)
<1> DEFINE u == reader'
<1>1. reader \in AuditType /\ reader.kind \in AuditKinds
    BY AuditSteps DEF AuditType
<1>2. AuditOk(reader, events, sessions)
    BY <1>1 DEF BundleInv
<1>3. ASSUME NEW at \in {"policy", "scope", "unscoped", "built"},
             u.at = at, at = "built" => reader.at = "rows" /\ reader.todo = {},
             u.kind = reader.kind, u.view = reader.view, u.arg = reader.arg,
             u.todo = reader.todo, u.got = reader.got,
             u.stored = reader.stored, u.known = reader.known,
             u.listed = reader.listed, u.named = reader.named, u.hidden = reader.hidden
      PROVE  AuditOk(u, events, sessions)
    <2> HIDE DEF u
    <2>1. \/ u.at \in {"metrics", "policy", "scope", "unscoped"}
          \/ u.at = "built" /\ reader.at = "rows" /\ reader.todo = {}
        BY <1>3
    <2> QED BY <1>2, <1>3, <2>1, AuditGoesOn
<1>4. CASE ReadMetrics
    <2>1. PICK n : u = [reader EXCEPT !.at = "policy", !.total = n]
        BY <1>4 DEF ReadMetrics
    <2> QED BY <1>1, <1>3, <2>1 DEF AuditType
<1>5. CASE ReadPolicy
    <2>1. PICK n : u = [reader EXCEPT !.at = "scope", !.blocked = n]
        BY <1>5 DEF ReadPolicy
    <2> QED BY <1>1, <1>3, <2>1 DEF AuditType
<1>6. CASE Build
    <2>1. u = [reader EXCEPT !.at = "built"] /\ reader.at = "rows" /\ reader.todo = {}
        BY <1>6 DEF Build
    <2> QED BY <1>1, <1>3, <2>1 DEF AuditType
<1>7. CASE ReadScope
    <2>1. PICK R, H : /\ R = ScopeRows(reader.kind, reader.view, reader.arg, sessions)
                      /\ H = IF reader.kind = "session" THEN {} ELSE Cyclic(R)
        OBVIOUS
    <2>2. \/ u = [reader EXCEPT !.at = "rows", !.todo = ScopeSessions(R), !.hidden = H]
          \/ u = [reader EXCEPT !.at = "unscoped"]
        BY <1>7, <2>1 DEF ReadScope
    <2>3. CASE u = [reader EXCEPT !.at = "unscoped"]
        BY <1>1, <1>3, <2>3 DEF AuditType
    <2>4. CASE u = [reader EXCEPT !.at = "rows", !.todo = ScopeSessions(R), !.hidden = H]
        <3>1. ScopeSessions(R) = IdsOf(R) \ H
            BY <1>1, <2>1, ScopeIsInts DEF TypeInv
        <3>2. PICK S : S = ScopeSessions(R)
            OBVIOUS
        <3>3. S = ScopeIds(reader, sessions) \ H
            BY <2>1, <3>1, <3>2 DEF ScopeIds
        <3>4. u = [reader EXCEPT !.at = "rows", !.todo = S, !.hidden = H]
            BY <2>4, <3>2
        <3> HIDE DEF u
        <3>5. /\ u.kind = reader.kind /\ u.view = reader.view /\ u.arg = reader.arg
              /\ u.at = "rows" /\ u.todo = S /\ u.hidden = H /\ u.got = reader.got
              /\ u.stored = reader.stored /\ u.known = reader.known
              /\ u.listed = reader.listed /\ u.named = reader.named
            BY <1>1, <3>4 DEF AuditType
        <3>6. AuditOk(u, events, sessions)
            BY <1>1, <1>2, <3>3, <3>5, AuditScopes
        <3> QED BY <3>6 DEF u
    <2> QED BY <2>2, <2>3, <2>4
<1>8. CASE ReadRows
    <2>1. PICK s \in reader.todo :
              u = [reader EXCEPT !.todo = @ \ {s},
                                 !.got = @ \cup SessionEvents(events, s, reader.view)]
        BY <1>8 DEF ReadRows
    <2>2. reader.at = "rows"
        BY <1>8 DEF ReadRows
    <2> HIDE DEF u
    <2>3. /\ u.kind = reader.kind /\ u.view = reader.view /\ u.arg = reader.arg
          /\ u.at = "rows" /\ u.todo = reader.todo \ {s}
          /\ u.got = reader.got \cup SessionEvents(events, s, reader.view)
          /\ u.stored = reader.stored /\ u.known = reader.known
          /\ u.listed = reader.listed /\ u.named = reader.named /\ u.hidden = reader.hidden
        BY <1>1, <2>1, <2>2 DEF AuditType
    <2>4. AuditOk(u, events, sessions)
        BY <1>1, <1>2, <2>2, <2>3, AuditReadsRows
    <2> QED BY <2>4 DEF u
<1> QED
    BY <1>4, <1>5, <1>6, <1>7, <1>8 DEF AuditStep

(* Every step keeps the invariant of the bundle. *)
LEMMA BundleStep ==
    ASSUME TypeInv, TypeInv', BundleInv, [Next]_vars
    PROVE  BundleInv'
<1> DEFINE u == reader'
           e == events'
           t == sessions'
<1>1. emitted' = emitted
    <2>1. Insert \/ Prune => emitted' = emitted
        BY DEF Insert, Prune
    <2>2. ~Insert /\ ~Prune => emitted' = emitted
        BY StoreKept DEF store
    <2> QED BY <2>1, <2>2
<1>2. SUFFICES ASSUME u.kind \in AuditKinds
               PROVE  AuditOk(u, e, t)
    BY <1>1 DEF BundleInv, AuditOk, Fitting, Wanted, ScopeIds
<1>3. StoreInv
    BY DEF TypeInv
<1>4. CASE Insert \/ Prune
    <2>1. reader.kind \in AuditKinds
        <3>1. CASE reader.kind \in WalkKinds
            BY <1>2, <1>4, <3>1, WitnessedWalk, KindsDiffer
        <3>2. CASE reader.kind = "metrics"
            BY <1>2, <1>4, <3>2, WitnessedMetrics, KindsDiffer
        <3>3. CASE reader.kind \notin WalkKinds \cup AuditKinds \cup {"metrics"}
            <4>1. u = reader
                BY <1>3, <1>4, <3>3, StoreChanges DEF Witness
            <4> QED BY <1>2, <4>1
        <3> QED BY <3>1, <3>2, <3>3
    <2>2. /\ u.kind = reader.kind /\ u.view = reader.view /\ u.arg = reader.arg
          /\ u.at = reader.at /\ u.todo = reader.todo /\ u.got = reader.got
          /\ u.hidden = reader.hidden
          /\ u.stored = reader.stored \cap e /\ u.known = reader.known \cup e
          /\ u.listed = reader.listed \cap ScopeIds(reader, t)
          /\ u.named = reader.named \cup ScopeIds(reader, t)
        BY <1>4, <2>1, WitnessedAudit
    <2> HIDE DEF u, e, t
    <2>3. AuditOk(reader, events, sessions)
        BY <2>1 DEF BundleInv
    <2> QED BY <2>2, <2>3, AuditSeesStore
<1>5. CASE BeginWalk \/ NextPage
    <2>1. u.kind \in WalkKinds
        BY <1>3, <1>5, BegunWalk, TurnedPage DEF WalkType
    <2> QED BY <1>2, <2>1, KindsDiffer
<1>6. CASE BeginMetrics \/ ReadCount
    <2>1. u.kind = "metrics"
        BY <1>3, <1>6, BegunMetrics, CountRead
    <2> QED BY <1>2, <2>1, KindsDiffer
<1>7. CASE BeginAudit
    <2>1. /\ u.at \in {"metrics", "scope"} /\ u.got = {} /\ e = events /\ t = sessions
          /\ u.stored = events /\ u.known = events
          /\ u.listed = ScopeIds(u, sessions) /\ u.named = ScopeIds(u, sessions)
        BY <1>3, <1>7, BegunAudit DEF store
    <2> HIDE DEF u, e, t
    <2>2. AuditOk(u, events, sessions)
        BY <2>1, AuditBegins
    <2> QED BY <2>1, <2>2
<1>8. CASE AuditStep
    <2>1. e = events /\ t = sessions
        BY <1>8, AuditSteps DEF store
    <2>2. u # Idle
        BY <1>2, KindsDiffer
    <2> QED BY <1>8, <2>1, <2>2, AuditStepKeeps
<1>9. CASE Answer
    BY <1>2, <1>9, KindsDiffer DEF Answer
<1>10. CASE UNCHANGED vars
    BY <1>2, <1>10 DEF vars, BundleInv
<1> QED
    BY <1>4, <1>5, <1>6, <1>7, <1>8, <1>9, <1>10 DEF Next, AuditStep

(* The invariant of the bundle holds in every state. *)
LEMMA BundleInvariant == Spec => [](TypeInv /\ BundleInv)
<1>1. Init => BundleInv
    BY KindsDiffer DEF Init, BundleInv
<1>2. TypeInv /\ TypeInv' /\ BundleInv /\ [Next]_vars => BundleInv'
    BY BundleStep
<1> QED
    BY <1>1, <1>2, TypeInvariant, PTL DEF Spec

-----------------------------------------------------------------------------
(* Digests and bundles *)

(* The digest of an event leaves out its signature and nothing else. *)
LEMMA SerializedFields ==
    ASSUME NEW e, DOMAIN e = Fields, NEW f \in Fields, f # "signed"
    PROVE  Serialized(e)[f] = e[f]
BY DEF Serialized

(* The events of a bundle: all of one world, each once. *)
IsEvidence(s, w) ==
    /\ s \in Seq(w)
    /\ \A i, j \in 1..Len(s) : s[i] = s[j] => i = j

(* Changing a field of one event changes the digest. *)
LEMMA OneFieldChanged ==
    ASSUME NEW w \in Worlds, NEW s, IsEvidence(s, w), NEW i \in 1..Len(s),
           NEW x, DOMAIN x = Fields, NEW f \in Fields, f # "signed", x[f] # s[i][f]
    PROVE  ContentDigest(ReplaceAt(s, i, x)) # ContentDigest(s)
<1>1. s \in Seq(w) /\ s[i] \in w
    BY DEF IsEvidence
<1>2. DOMAIN s[i] = Fields
    BY <1>1, WorldFacts
<1>3. Serialized(x)[f] # Serialized(s[i])[f]
    BY <1>2, SerializedFields
<1>4. DOMAIN ReplaceAt(s, i, x) = DOMAIN s /\ ReplaceAt(s, i, x)[i] = x /\ i \in DOMAIN s
    BY <1>1 DEF ReplaceAt
<1>5. ContentDigest(ReplaceAt(s, i, x))[i] = Serialized(x) /\ ContentDigest(s)[i] = Serialized(s[i])
    BY <1>4 DEF ContentDigest
<1> QED
    BY <1>3, <1>5

(* Dropping an event changes the digest. *)
LEMMA OneRemoved ==
    ASSUME NEW w, NEW s \in Seq(w), NEW i \in 1..Len(s)
    PROVE  ContentDigest(RemoveAt(s, i)) # ContentDigest(s)
<1>1. DOMAIN s = 1..Len(s) /\ Len(s) \in Nat
    OBVIOUS
<1>2. RemoveAt(s, i) \in Seq(w) /\ Len(RemoveAt(s, i)) = Len(s) - 1
    <2>1. SubSeq(s, 1, i - 1) \in Seq(w) /\ Len(SubSeq(s, 1, i - 1)) = i - 1
        OBVIOUS
    <2>2. SubSeq(s, i + 1, Len(s)) \in Seq(w) /\ Len(SubSeq(s, i + 1, Len(s))) = Len(s) - i
        OBVIOUS
    <2>3. PICK a, b : a = SubSeq(s, 1, i - 1) /\ b = SubSeq(s, i + 1, Len(s))
        OBVIOUS
    <2>4. a \o b \in Seq(w) /\ Len(a \o b) = Len(a) + Len(b)
        BY <2>1, <2>2, <2>3
    <2>5. RemoveAt(s, i) = a \o b
        BY <2>3 DEF RemoveAt
    <2>6. Len(a) = i - 1 /\ Len(b) = Len(s) - i
        BY <2>1, <2>2, <2>3
    <2>7. Len(a) + Len(b) = Len(s) - 1
        <3>1. (i - 1) + (Len(s) - i) = Len(s) - 1
            BY <1>1
        <3> QED BY ONLY <2>6, <3>1
    <2> QED BY <2>4, <2>5, <2>7
<1>3. DOMAIN RemoveAt(s, i) = 1..(Len(s) - 1)
    BY <1>2
<1>4. DOMAIN ContentDigest(s) = 1..Len(s) /\ DOMAIN ContentDigest(RemoveAt(s, i)) = 1..(Len(s) - 1)
    BY <1>1, <1>3 DEF ContentDigest
<1>5. Len(s) \in 1..Len(s) /\ Len(s) \notin 1..(Len(s) - 1)
    BY <1>1
<1> QED
    BY <1>4, <1>5

(* Another order of the events changes the digest: their ids differ. *)
LEMMA OtherOrder ==
    ASSUME NEW w \in Worlds, NEW s, IsEvidence(s, w), Reverse(s) # s
    PROVE  ContentDigest(Reverse(s)) # ContentDigest(s)
<1>1. s \in Seq(w) /\ DOMAIN s = 1..Len(s) /\ Len(s) \in Nat
    BY DEF IsEvidence
<1>2. Reverse(s) = [i \in 1..Len(s) |-> s[(Len(s) - i) + 1]]
    BY DEF Reverse
<1>3. PICK i \in 1..Len(s) : Reverse(s)[i] # s[i]
    <2>1. s = [i \in 1..Len(s) |-> s[i]]
        BY <1>1
    <2> QED BY <1>2, <2>1
<1>4. Reverse(s)[i] \in w /\ s[i] \in w
    <2>1. (Len(s) - i) + 1 \in 1..Len(s)
        BY <1>1
    <2> QED BY <1>1, <1>2, <2>1
<1>5. DOMAIN Reverse(s)[i] = Fields /\ DOMAIN s[i] = Fields /\ Reverse(s)[i].id # s[i].id
    BY <1>3, <1>4, WorldFacts DEF UniqueIds
<1>6. "id" \in Fields /\ "id" # "signed"
    BY DEF Fields
<1>7. Serialized(Reverse(s)[i])["id"] # Serialized(s[i])["id"]
    BY <1>5, <1>6, SerializedFields
<1>8. /\ ContentDigest(Reverse(s))[i] = Serialized(Reverse(s)[i])
      /\ ContentDigest(s)[i] = Serialized(s[i])
    BY <1>1, <1>2 DEF ContentDigest
<1> QED
    BY <1>7, <1>8

(* "mutating any event byte, reordering events, or adding/dropping an event   *)
(* changes this digest".                                                      *)
LEMMA DigestTells ==
    ASSUME NEW w \in Worlds, NEW s, IsEvidence(s, w), NEW o \in Altered(s), o # s
    PROVE  ContentDigest(o) # ContentDigest(s)
<1>1. s \in Seq(w) /\ DOMAIN s = 1..Len(s)
    BY DEF IsEvidence
<1>2. \A i \in 1..Len(s) : s[i] \in w
    BY <1>1
<1>3. "time" \in Fields /\ "nested" \in Fields /\ "time" # "signed" /\ "nested" # "signed"
    BY DEF Fields
<1>4. CASE \E i \in DOMAIN s : o = RemoveAt(s, i)
    BY <1>1, <1>4, OneRemoved
<1>5. CASE \E i \in DOMAIN s : o = ReplaceAt(s, i, [s[i] EXCEPT !.time = @ + 1])
    <2>1. PICK i \in 1..Len(s) : o = ReplaceAt(s, i, [s[i] EXCEPT !.time = @ + 1])
        BY <1>1, <1>5
    <2>2. PICK x : x = [s[i] EXCEPT !.time = @ + 1]
        OBVIOUS
    <2>3. DOMAIN s[i] = Fields /\ s[i].time \in Int
        BY <1>2, WorldFacts
    <2>4. DOMAIN x = Fields /\ x["time"] = s[i]["time"] + 1
        BY <1>3, <2>2, <2>3
    <2>5. x["time"] # s[i]["time"]
        BY <2>3, <2>4
    <2> QED BY <1>3, <2>1, <2>2, <2>4, <2>5, OneFieldChanged
<1>6. CASE \E i \in {j \in DOMAIN s : s[j].nested # <<>>} :
              o = ReplaceAt(s, i, [s[i] EXCEPT !.nested = <<>>])
    <2>1. PICK i \in 1..Len(s) : /\ s[i].nested # <<>>
                                 /\ o = ReplaceAt(s, i, [s[i] EXCEPT !.nested = <<>>])
        BY <1>1, <1>6
    <2>2. PICK x : x = [s[i] EXCEPT !.nested = <<>>]
        OBVIOUS
    <2>3. DOMAIN s[i] = Fields
        BY <1>2, WorldFacts
    <2>4. DOMAIN x = Fields /\ x["nested"] = <<>>
        BY <1>3, <2>2, <2>3
    <2>5. x["nested"] # s[i]["nested"]
        BY <2>1, <2>4
    <2> QED BY <1>3, <2>1, <2>2, <2>4, <2>5, OneFieldChanged
<1>7. CASE o = Reverse(s)
    BY <1>7, OtherOrder
<1> QED
    BY <1>4, <1>5, <1>6, <1>7 DEF Altered

(* An event without its signature, or with one, has the same digest. *)
LEMMA SignatureIsNotCovered ==
    ASSUME NEW w \in Worlds, NEW s \in Seq(w), NEW i \in 1..Len(s),
           NEW x, x = [s[i] EXCEPT !.signed = ~@]
    PROVE  /\ ContentDigest(ReplaceAt(s, i, x)) = ContentDigest(s)
           /\ Len(ReplaceAt(s, i, x)) = Len(s)
<1>1. s[i] \in w /\ DOMAIN s = 1..Len(s) /\ Len(s) \in Nat
    OBVIOUS
<1>2. DOMAIN s[i] = Fields /\ "signed" \in Fields
    BY <1>1, WorldFacts DEF Fields
<1>3. Serialized(x) = Serialized(s[i])
    BY <1>2 DEF Serialized
<1>4. /\ DOMAIN ReplaceAt(s, i, x) = DOMAIN s /\ ReplaceAt(s, i, x)[i] = x
      /\ \A j \in DOMAIN s : j # i => ReplaceAt(s, i, x)[j] = s[j]
    BY <1>1 DEF ReplaceAt
<1> PICK r : r = ReplaceAt(s, i, x)
    OBVIOUS
<1>5. DOMAIN r = 1..Len(s) /\ \A j \in 1..Len(s) : Serialized(r[j]) = Serialized(s[j])
    BY <1>1, <1>3, <1>4
<1>6. Len(r) = Len(s)
    BY <1>1, <1>4 DEF ReplaceAt
<1> QED
    BY <1>1, <1>5, <1>6 DEF ContentDigest

(* A bundle verifies as it was built.  No edit of what the digest and the *)
(* signature cover does; an edit of what they leave out, an event's       *)
(* transport signature or the version outside the manifest, does.         *)
THEOREM NoEditVerifies ==
    ASSUME NEW w \in Worlds, NEW s, IsEvidence(s, w), NEW scope, NEW tenant
    PROVE  TamperEvident(BuildAuditBundle(s, scope, tenant, Secret))
<1> DEFINE M(evs) == Manifest(evs, scope, tenant)
           b == BuildAuditBundle(s, scope, tenant, Secret)
<1>0. Len(s) \in Nat
    BY DEF IsEvidence
<1>1. \A evs : /\ M(evs).content_digest = ContentDigest(evs)
               /\ M(evs).event_count = Len(evs)
               /\ M(evs).aep_audit_version = 1
               /\ M(evs).scope = scope /\ M(evs).tenant_id = tenant
    BY DEF Manifest
<1>2. b = [aep_audit_version |-> 1, manifest |-> M(s), events |-> s, signature |-> <<Secret, M(s)>>]
    BY DEF BuildAuditBundle, ManifestSignature
<1>3. DOMAIN M(s) = {"aep_audit_version", "scope", "tenant_id", "event_count", "time_range",
                     "content_digest", "per_event_signatures"}
    BY DEF Manifest
<1> HIDE DEF M, b
<1>4. VerifyAuditBundle(b, Secret)
    BY <1>1, <1>2 DEF VerifyAuditBundle, ManifestSignature
<1>5. ASSUME NEW t, VerifyAuditBundle(t, Secret)
      PROVE  /\ t.manifest.content_digest = ContentDigest(t.events)
             /\ t.manifest.event_count = Len(t.events)
             /\ t.signature = <<Secret, t.manifest>>
             /\ t.aep_audit_version \in {Undefined, t.manifest.aep_audit_version}
    BY <1>5 DEF VerifyAuditBundle, ManifestSignature
<1>6. \A evs : Manifest(evs, b.manifest.scope, b.manifest.tenant_id) = M(evs)
    BY <1>1, <1>2 DEF M
<1>7. ASSUME NEW o \in Altered(s), o # s,
             NEW t, t.events = o,
             \/ t.manifest = M(s)
             \/ t.manifest = M(o) /\ t.signature = <<Secret, M(s)>>
             \/ t.signature = <<OtherSecret, M(o)>>
      PROVE  ~VerifyAuditBundle(t, Secret)
    <2>1. ContentDigest(o) # ContentDigest(s)
        BY <1>7, DigestTells
    <2>2. M(o) # M(s)
        BY <1>1, <2>1
    <2> QED BY <1>1, <1>5, <1>7, <2>1, <2>2, SecretAssumption
<1>8. ASSUME NEW o
      PROVE  /\ [b EXCEPT !.events = o].events = o
             /\ [b EXCEPT !.events = o].manifest = M(s)
             /\ [b EXCEPT !.events = o, !.manifest = M(o)].events = o
             /\ [b EXCEPT !.events = o, !.manifest = M(o)].manifest = M(o)
             /\ [b EXCEPT !.events = o, !.manifest = M(o)].signature = <<Secret, M(s)>>
             /\ [b EXCEPT !.events = o, !.manifest = M(o),
                          !.signature = <<OtherSecret, M(o)>>].events = o
             /\ [b EXCEPT !.events = o, !.manifest = M(o),
                          !.signature = <<OtherSecret, M(o)>>].signature = <<OtherSecret, M(o)>>
    BY <1>2
<1>9. ~VerifyAuditBundle([b EXCEPT !.manifest.event_count = @ + 1], Secret)
    <2>1. PICK t : t = [b EXCEPT !.manifest.event_count = @ + 1]
        OBVIOUS
    <2>2. t.events = s /\ t.manifest = [M(s) EXCEPT !.event_count = @ + 1]
        BY <1>2, <2>1
    <2>3. t.manifest.event_count = Len(s) + 1
        BY <1>1, <1>3, <2>2
    <2>4. t.manifest.event_count # Len(t.events)
        BY <1>0, <2>2, <2>3
    <2> QED BY <1>5, <2>1, <2>4
<1>10. ~VerifyAuditBundle([b EXCEPT !.aep_audit_version = @ + 1], Secret)
    <2>1. PICK t : t = [b EXCEPT !.aep_audit_version = @ + 1]
        OBVIOUS
    <2>2. t.aep_audit_version = 2 /\ t.manifest = M(s)
        BY <1>2, <2>1
    <2>3. t.manifest.aep_audit_version = 1
        BY <1>1, <2>2
    <2>4. 2 # Undefined
        BY UndefinedAssumption
    <2>5. ~VerifyAuditBundle(t, Secret)
        BY <1>5, <2>2, <2>3, <2>4
    <2> QED BY <2>1, <2>5
<1>11. ~VerifyAuditBundle([b EXCEPT !.aep_audit_version = @ + 1,
                                    !.manifest.aep_audit_version = @ + 1], Secret)
    <2>1. PICK t : t = [b EXCEPT !.aep_audit_version = @ + 1,
                                 !.manifest.aep_audit_version = @ + 1]
        OBVIOUS
    <2>2. t.signature = <<Secret, M(s)>> /\ t.manifest = [M(s) EXCEPT !.aep_audit_version = @ + 1]
        BY <1>2, <2>1
    <2>3. t.manifest.aep_audit_version = 2
        BY <1>1, <1>3, <2>2
    <2>4. t.manifest # M(s)
        BY <1>1, <2>3
    <2>5. <<Secret, M(s)>> # <<Secret, t.manifest>>
        BY <2>4
    <2>6. ~VerifyAuditBundle(t, Secret)
        BY <1>5, <2>2, <2>5
    <2> QED BY <2>1, <2>6
<1>12. ASSUME NEW t \in Tampered(b)
       PROVE  ~VerifyAuditBundle(t, Secret)
    <2>1. b.events = s
        BY <1>2
    <2>2. /\ Altered(b.events) \ {b.events} = Altered(s) \ {s}
          /\ \A o : ManifestSignature(M(o), OtherSecret) = <<OtherSecret, M(o)>>
        BY <2>1 DEF ManifestSignature
    <2>3. \/ t \in {[b EXCEPT !.events = o] : o \in Altered(b.events) \ {b.events}}
          \/ t \in {[b EXCEPT !.events = o,
                             !.manifest = Manifest(o, b.manifest.scope, b.manifest.tenant_id)] :
                       o \in Altered(b.events) \ {b.events}}
          \/ t \in {[b EXCEPT !.events = o,
                             !.manifest = Manifest(o, b.manifest.scope, b.manifest.tenant_id),
                             !.signature = ManifestSignature(
                                 Manifest(o, b.manifest.scope, b.manifest.tenant_id), OtherSecret)] :
                       o \in Altered(b.events) \ {b.events}}
          \/ t = [b EXCEPT !.manifest.event_count = @ + 1]
          \/ t = [b EXCEPT !.aep_audit_version = @ + 1]
          \/ t = [b EXCEPT !.aep_audit_version = @ + 1, !.manifest.aep_audit_version = @ + 1]
        BY Zenon DEF Tampered
    <2>4. CASE t \in {[b EXCEPT !.events = o] : o \in Altered(b.events) \ {b.events}}
        <3>1. PICK o \in Altered(s) \ {s} : t = [b EXCEPT !.events = o]
            BY <2>2, <2>4
        <3> QED BY <1>7, <1>8, <3>1
    <2>5. CASE t \in {[b EXCEPT !.events = o,
                               !.manifest = Manifest(o, b.manifest.scope, b.manifest.tenant_id)] :
                         o \in Altered(b.events) \ {b.events}}
        <3>1. PICK o \in Altered(s) \ {s} : t = [b EXCEPT !.events = o, !.manifest = M(o)]
            BY <1>6, <2>2, <2>5
        <3> QED BY <1>7, <1>8, <3>1
    <2>6. CASE t \in {[b EXCEPT !.events = o,
                               !.manifest = Manifest(o, b.manifest.scope, b.manifest.tenant_id),
                               !.signature = ManifestSignature(
                                   Manifest(o, b.manifest.scope, b.manifest.tenant_id), OtherSecret)] :
                         o \in Altered(b.events) \ {b.events}}
        <3>1. PICK o \in Altered(s) \ {s} :
                  t = [b EXCEPT !.events = o, !.manifest = M(o),
                                !.signature = <<OtherSecret, M(o)>>]
            BY <1>6, <2>2, <2>6
        <3> QED BY <1>7, <1>8, <3>1
    <2> QED BY <1>9, <1>10, <1>11, <2>3, <2>4, <2>5, <2>6
<1>13. ASSUME NEW t \in Unnoticed(b)
       PROVE  VerifyAuditBundle(t, Secret)
    <2>1. b.events = s /\ s \in Seq(w) /\ DOMAIN s = 1..Len(s)
        BY <1>2 DEF IsEvidence
    <2>2. \/ t = [b EXCEPT !.aep_audit_version = Undefined]
          \/ \E r \in Resigned(s) : t = [b EXCEPT !.events = r]
        BY <2>1 DEF Unnoticed
    <2>3. CASE t = [b EXCEPT !.aep_audit_version = Undefined]
        <3>1. /\ t.aep_audit_version = Undefined /\ t.manifest = M(s)
              /\ t.events = s /\ t.signature = <<Secret, M(s)>>
            BY <1>2, <2>3
        <3> QED BY <1>1, <3>1 DEF VerifyAuditBundle, ManifestSignature
    <2>4. CASE \E r \in Resigned(s) : t = [b EXCEPT !.events = r]
        <3>1. PICK r \in Resigned(s) : t = [b EXCEPT !.events = r]
            BY <2>4
        <3>2. PICK i \in 1..Len(s) : r = ReplaceAt(s, i, [s[i] EXCEPT !.signed = ~@])
            BY <2>1 DEF Resigned
        <3>3. ContentDigest(r) = ContentDigest(s) /\ Len(r) = Len(s)
            <4>1. PICK x : x = [s[i] EXCEPT !.signed = ~@]
                OBVIOUS
            <4> QED BY <2>1, <3>2, <4>1, SignatureIsNotCovered
        <3>4. /\ t.events = r /\ t.manifest = M(s) /\ t.aep_audit_version = 1
              /\ t.signature = <<Secret, M(s)>>
            BY <1>2, <3>1
        <3> QED BY <1>1, <3>3, <3>4 DEF VerifyAuditBundle, ManifestSignature
    <2> QED BY <2>2, <2>3, <2>4
<1>14. TamperEvident(b)
    BY <1>4, <1>12, <1>13 DEF TamperEvident
<1> QED
    BY <1>14 DEF b

(* Compliance *)

(* Five controls are finitely many, *)
LEMMA FiveAreFinite ==
    ASSUME NEW a, NEW b, NEW c, NEW d, NEW e
    PROVE  IsFiniteSet({a, b, c, d, e})
<1>1. IsFiniteSet({a})
    BY FS_Singleton
<1>2. IsFiniteSet({a} \cup {b})
    BY <1>1, FS_AddElement
<1>3. IsFiniteSet({a, b} \cup {c})
    <2>1. {a} \cup {b} = {a, b}
        OBVIOUS
    <2> QED BY <1>2, <2>1, FS_AddElement
<1>4. IsFiniteSet({a, b, c} \cup {d})
    <2>1. {a, b} \cup {c} = {a, b, c}
        OBVIOUS
    <2> QED BY <1>3, <2>1, FS_AddElement
<1>5. IsFiniteSet({a, b, c, d} \cup {e})
    <2>1. {a, b, c} \cup {d} = {a, b, c, d}
        OBVIOUS
    <2> QED BY <1>4, <2>1, FS_AddElement
<1>6. {a, b, c, d} \cup {e} = {a, b, c, d, e}
    OBVIOUS
<1> QED
    BY <1>5, <1>6

(* and so are six. *)
LEMMA SixAreFinite ==
    ASSUME NEW a, NEW b, NEW c, NEW d, NEW e, NEW f
    PROVE  IsFiniteSet({a, b, c, d, e, f})
<1>1. IsFiniteSet({a, b, c, d, e} \cup {f})
    BY FiveAreFinite, FS_AddElement
<1>2. {a, b, c, d, e} \cup {f} = {a, b, c, d, e, f}
    OBVIOUS
<1> QED
    BY <1>1, <1>2

Evaluators == {"evalAccessControl", "evalAuditTrail", "evalIntegrity", "evalRetention",
               "evalMonitoring", "evalEnforcement", "evalTransparency", "evalRecordKeeping"}

(* Every framework has finitely many controls, each with an evaluator. *)
LEMMA FrameworkControls ==
    ASSUME NEW f \in DOMAIN Frameworks
    PROVE  /\ IsFiniteSet(DOMAIN Frameworks[f])
           /\ \A c \in DOMAIN Frameworks[f] : Frameworks[f][c] \in Evaluators
<1>1. f \in {"soc2", "hipaa", "gdpr", "eu_ai_act"}
    BY DEF Frameworks
<1>2. CASE f = "soc2"
    <2>1. DOMAIN Frameworks[f] = {"CC6_1", "CC6_6", "CC7_2", "CC7_3", "CC7_1", "A1_2"}
        BY <1>2 DEF Frameworks
    <2>2. \A c \in DOMAIN Frameworks[f] : Frameworks[f][c] \in Evaluators
        BY <1>2, <2>1 DEF Frameworks, Evaluators
    <2>3. IsFiniteSet({"CC6_1", "CC6_6", "CC7_2", "CC7_3", "CC7_1", "A1_2"})
        BY SixAreFinite
    <2> QED BY <2>1, <2>2, <2>3
<1>3. CASE f = "hipaa"
    <2>1. DOMAIN Frameworks[f] = {"access", "authentication", "audit", "integrity", "retention"}
        BY <1>3 DEF Frameworks
    <2>2. \A c \in DOMAIN Frameworks[f] : Frameworks[f][c] \in Evaluators
        BY <1>3, <2>1 DEF Frameworks, Evaluators
    <2>3. IsFiniteSet({"access", "authentication", "audit", "integrity", "retention"})
        BY FiveAreFinite
    <2> QED BY <2>1, <2>2, <2>3
<1>4. CASE f = "gdpr"
    <2>1. DOMAIN Frameworks[f] = {"Art30", "Art32", "Art32_1", "Art5_1_e", "Art33", "Art5_2"}
        BY <1>4 DEF Frameworks
    <2>2. \A c \in DOMAIN Frameworks[f] : Frameworks[f][c] \in Evaluators
        BY <1>4, <2>1 DEF Frameworks, Evaluators
    <2>3. IsFiniteSet({"Art30", "Art32", "Art32_1", "Art5_1_e", "Art33", "Art5_2"})
        BY SixAreFinite
    <2> QED BY <2>1, <2>2, <2>3
<1>5. CASE f = "eu_ai_act"
    <2>1. DOMAIN Frameworks[f] = {"Art12", "Art13", "Art14", "Art15", "Art19"}
        BY <1>5 DEF Frameworks
    <2>2. \A c \in DOMAIN Frameworks[f] : Frameworks[f][c] \in Evaluators
        BY <1>5, <2>1 DEF Frameworks, Evaluators
    <2>3. IsFiniteSet({"Art12", "Art13", "Art14", "Art15", "Art19"})
        BY FiveAreFinite
    <2> QED BY <2>1, <2>2, <2>3
<1> QED
    BY <1>1, <1>2, <1>3, <1>4, <1>5

(* Without a bundle that failed to verify no control is unmet. *)
LEMMA NoneUnmet ==
    ASSUME NEW ev, ev.signing_configured => ev.bundle_verified # FALSE, NEW n \in Evaluators
    PROVE  Evaluate(ev)[n] \in {"satisfied", "partial"}
<1>1. \A c : If(c, "satisfied", "partial") \in {"satisfied", "partial"}
    BY DEF If
<1>2. Evaluate(ev).evalIntegrity \in {"satisfied", "partial"}
    <2>1. Evaluate(ev).evalIntegrity =
              If(~ev.signing_configured, "partial",
                 If(ev.bundle_verified = FALSE, "unmet", "satisfied"))
        BY DEF Evaluate
    <2>2. CASE ev.signing_configured
        BY <2>1, <2>2 DEF If
    <2>3. CASE ~ev.signing_configured
        BY <2>1, <2>3 DEF If
    <2> QED BY <2>2, <2>3
<1>3. CASE n = "evalIntegrity"
    BY <1>2, <1>3
<1>4. CASE n # "evalIntegrity"
    <2>1. Evaluate(ev)["evalAccessControl"] = "satisfied"
        BY DEF Evaluate
    <2>2. \A x \in Evaluators \ {"evalIntegrity", "evalAccessControl"} :
              \E c : Evaluate(ev)[x] = If(c, "satisfied", "partial")
        BY DEF Evaluate, Evaluators
    <2> QED BY <1>1, <1>4, <2>1, <2>2
<1> QED
    BY <1>3, <1>4

(* So a report's satisfied and partial controls add up to all of them. *)
LEMMA ControlsAddUp ==
    ASSUME NEW ev, ev.signing_configured => ev.bundle_verified # FALSE,
           NEW f \in DOMAIN Frameworks
    PROVE  LET r == GenerateComplianceReport(f, ev) IN
           r.unmet = 0 /\ r.satisfied + r.partial = r.total_controls
<1> DEFINE D == DOMAIN Frameworks[f]
           k == [c \in D |-> Evaluate(ev)[Frameworks[f][c]]]
           S == {c \in D : k[c] = "satisfied"}
           Q == {c \in D : k[c] = "partial"}
           U == {c \in D : k[c] = "unmet"}
           r == GenerateComplianceReport(f, ev)
<1>1. IsFiniteSet(D) /\ \A c \in D : k[c] \in {"satisfied", "partial"}
    BY FrameworkControls, NoneUnmet
<1>2. /\ r.satisfied = Cardinality(S) /\ r.partial = Cardinality(Q)
      /\ r.unmet = Cardinality(U) /\ r.total_controls = Cardinality(D)
    BY DEF GenerateComplianceReport
<1> HIDE DEF r, k, D
<1>3. U = {} /\ S \cap Q = {} /\ S \cup Q = D
    BY <1>1
<1>4. IsFiniteSet(S) /\ IsFiniteSet(Q)
    BY <1>1, FS_Subset
<1> HIDE DEF S, Q, U
<1>5. Cardinality(S \cup Q) = Cardinality(S) + Cardinality(Q) - Cardinality(S \cap Q)
    BY <1>4, FS_Union
<1>6. Cardinality({}) = 0
    BY FS_EmptySet
<1>7. Cardinality(S) \in Nat /\ Cardinality(Q) \in Nat
    BY <1>4, FS_CardinalityType
<1>8. r.unmet = 0
    BY <1>2, <1>3, <1>6
<1>9. Cardinality(D) = Cardinality(S) + Cardinality(Q) - 0
    BY <1>3, <1>5, <1>6
<1>10. r.satisfied + r.partial = r.total_controls
    BY <1>2, <1>7, <1>9
<1> QED
    BY <1>8, <1>10 DEF r

-----------------------------------------------------------------------------
(* Bundles *)

(* The bundle that a request has assembled is tamper evident. *)
LEMMA BundleIsTamperEvident ==
    ASSUME TypeInv, reader \in AuditType
    PROVE  TamperEvident(Bundle)
<1> DEFINE key == [e \in reader.got |-> e.time]
           s == SortedBy(reader.got, key)
<1>1. emitted \in Worlds /\ reader.got \in SUBSET emitted
    BY DEF TypeInv, StoreInv, AuditType
<1>2. IsFiniteSet(reader.got) /\ \A e \in reader.got : key[e] \in Int
    BY <1>1, WorldFacts, FS_Subset
<1> HIDE DEF key
<1>3. IsListing(s, reader.got, key)
    <2> PICK S : S = reader.got
        OBVIOUS
    <2>1. IsFiniteSet(S) /\ \A e \in S : key[e] \in Int
        BY <1>2
    <2>2. IsListing(SortedBy(S, key), S, key)
        BY <2>1, SortedIsSorted
    <2> QED BY <2>2
<1>4. PICK scope : Bundle = BuildAuditBundle(s, scope, reader.view, Secret)
    BY DEF Bundle, key
<1> HIDE DEF s
<1>5. s \in Seq(reader.got) /\ Len(s) = Cardinality(reader.got)
    BY <1>2, <1>3, SortedIsSeq
<1>6. s \in Seq(emitted)
    BY <1>1, <1>5
<1>7. IsEvidence(s, emitted)
    BY <1>3, <1>5, <1>6 DEF IsEvidence, IsListing
<1> QED
    BY <1>1, <1>4, <1>7, NoEditVerifies

(* The invariant of the bundle implies that it is truthful. *)
LEMMA BundleIsTruthful ==
    ASSUME TypeInv, BundleInv
    PROVE  BundlesAreTruthful
<1> SUFFICES ASSUME reader.kind \in AuditKinds, reader.at = "built"
             PROVE  BundlesAreTruthful
    BY DEF BundlesAreTruthful
<1>1. reader \in AuditType /\ AuditOk(reader, events, sessions)
    BY WhichReader DEF BundleInv
<1>2. \A e : InScope(e) <=> InRange(reader, e)
    BY DEF InScope, InRange
<1>3. ASSUME NEW e \in reader.got
      PROVE  /\ e \in reader.known /\ e.tenant = reader.view
             /\ e.session_id \in reader.named
             /\ Plain(emitted) => InScope(e)
    BY <1>1, <1>2 DEF AuditOk, Fitting
<1>4. ASSUME NEW e \in reader.stored,
             e.tenant = reader.view, e.session_id \notin reader.hidden,
             e.session_id \in reader.listed \/ (Plain(emitted) /\ InScope(e))
      PROVE  e \in reader.got
    <2>1. Wanted(reader, e)
        BY <1>2, <1>4 DEF Wanted
    <2> QED BY <1>1, <2>1 DEF AuditOk
<1>5. TamperEvident(Bundle)
    BY <1>1, BundleIsTamperEvident
<1>6. Evidence.signing_configured => Evidence.bundle_verified # FALSE
    <2>1. VerifyAuditBundle(Bundle, Secret)
        BY <1>5 DEF TamperEvident
    <2>2. Evidence.bundle_verified = IF reader.at = "built" /\ SigningConfigured
                                     THEN VerifyAuditBundle(Bundle, Secret) ELSE NotVerified
        BY DEF Evidence
    <2>3. Evidence.signing_configured = SigningConfigured
        BY DEF Evidence
    <2> QED BY <2>1, <2>2, <2>3
<1>7. ASSUME NEW f \in DOMAIN Frameworks
      PROVE  LET r == GenerateComplianceReport(f, Evidence) IN
             r.unmet = 0 /\ r.satisfied + r.partial = r.total_controls
    BY <1>6, ControlsAddUp
<1> QED
    BY <1>3, <1>4, <1>5, <1>7 DEF BundlesAreTruthful

(* A bundle holds only stored events of its tenant and of the sessions that   *)
(* its scope named, and all those that stayed while it was assembled; these   *)
(* are the events of its scope if session ids have one tenant and trace.  No  *)
(* edit of what it covers verifies, and no report has an unmet control.       *)
THEOREM BundlesAreAlwaysTruthful == Spec => []BundlesAreTruthful
<1>1. TypeInv /\ BundleInv => BundlesAreTruthful
    BY BundleIsTruthful
<1> QED
    BY <1>1, BundleInvariant, PTL

-----------------------------------------------------------------------------
(* Custom queries *)

(* The groups of a query's matched events, and the rows of them. *)
GroupsOf(M, spec) == {GroupOf(e, spec) : e \in M}

MembersOf(M, spec, g) == {e \in M : GroupOf(e, spec) = g}

RowsOf(M, spec) == {Row(MembersOf(M, spec, g), spec, g) : g \in GroupsOf(M, spec)}

Sorted(M, spec) == SortedBy(RowsOf(M, spec), [r \in RowsOf(M, spec) |-> -r.count])

(* The query's rows are the first of the sorted ones. *)
LEMMA ResultParts ==
    ASSUME NEW E, NEW spec
    PROVE  LET M == Matched(E, spec)
               s == Sorted(M, spec)
               res == RunQuery(E, spec)
           IN  /\ res.total_matched = Cardinality(M)
               /\ res.truncated \in BOOLEAN
               /\ res.truncated <=> Len(s) > spec.limit
               /\ res.rows = IF Len(s) > spec.limit THEN SubSeq(s, 1, spec.limit) ELSE s
<1> PICK M, s, l, res : /\ M = Matched(E, spec) /\ s = Sorted(M, spec) /\ l = spec.limit
                        /\ res = RunQuery(E, spec)
    OBVIOUS
<1>1. res = [total_matched |-> Cardinality(M),
             rows          |-> IF Len(s) > l THEN SubSeq(s, 1, l) ELSE s,
             truncated     |-> Len(s) > l]
    BY DEF RunQuery, Sorted, RowsOf, GroupsOf, MembersOf
<1>2. /\ res.total_matched = Cardinality(M)
      /\ res.rows = IF Len(s) > l THEN SubSeq(s, 1, l) ELSE s
    BY ONLY <1>1
<1>3. PICK cut : cut = (Len(s) > l)
    OBVIOUS
<1>4. cut \in BOOLEAN /\ (cut <=> Len(s) > l)
    <2>1. CASE Len(s) > l
        <3>1. (Len(s) > l) = TRUE
            BY <2>1
        <3>2. cut = TRUE
            BY <1>3, <3>1
        <3> QED BY <2>1, <3>2
    <2>2. CASE ~(Len(s) > l)
        <3>1. (Len(s) > l) = FALSE
            BY <2>2
        <3>2. cut = FALSE
            BY <1>3, <3>1
        <3> QED BY <2>2, <3>2
    <2> QED BY <2>1, <2>2
<1>5. res.truncated = cut
    BY ONLY <1>1, <1>3
<1>6. res.truncated \in BOOLEAN /\ (res.truncated <=> Len(s) > l)
    BY <1>4, <1>5
<1> QED
    BY <1>2, <1>6

(* A row counts its group's events, of which there is at least one. *)
LEMMA RowFactsOfQuery ==
    ASSUME NEW M, IsFiniteSet(M), NEW spec, NEW r \in RowsOf(M, spec)
    PROVE  /\ r.count = Cardinality(MembersOf(M, spec, r.group))
           /\ MembersOf(M, spec, r.group) # {}
           /\ r.count \in Nat
           /\ r = Row(MembersOf(M, spec, r.group), spec, r.group)
<1>1. PICK g \in GroupsOf(M, spec) : r = Row(MembersOf(M, spec, g), spec, g)
    BY DEF RowsOf
<1>2. r.group = g /\ r.count = Cardinality(MembersOf(M, spec, g))
    BY <1>1 DEF Row
<1>3. IsFiniteSet(MembersOf(M, spec, g)) /\ MembersOf(M, spec, g) # {}
    BY FS_Subset DEF MembersOf, GroupsOf
<1>4. Cardinality(MembersOf(M, spec, g)) \in Nat
    BY <1>3, FS_CardinalityType
<1> QED
    BY <1>1, <1>2, <1>3, <1>4

(* A query has finitely many rows. *)
LEMMA RowsAreFinite ==
    ASSUME NEW M, IsFiniteSet(M), NEW spec
    PROVE  IsFiniteSet(RowsOf(M, spec))
<1> DEFINE f == [e \in M |-> Row(MembersOf(M, spec, GroupOf(e, spec)), spec, GroupOf(e, spec))]
<1>1. f \in Surjection(M, RowsOf(M, spec))
    BY DEF Surjection, RowsOf, GroupsOf
<1> HIDE DEF f
<1> QED
    BY <1>1, FS_Surjection

(* The sorted rows: each group once, the largest first. *)
LEMMA SortedRows ==
    ASSUME NEW M, IsFiniteSet(M), NEW spec
    PROVE  LET s == Sorted(M, spec)
               N == Cardinality(RowsOf(M, spec))
           IN  /\ N \in Nat /\ Len(s) = N /\ s \in Seq(RowsOf(M, spec))
               /\ \A i, j \in 1..N : s[i].group = s[j].group => i = j
               /\ \A e \in M : \E i \in 1..N : s[i].group = GroupOf(e, spec)
               /\ \A i, j \in 1..N : i < j => s[i].count >= s[j].count
<1> DEFINE R == RowsOf(M, spec)
           key == [r \in R |-> -r.count]
           s == Sorted(M, spec)
           N == Cardinality(R)
<1>1. IsFiniteSet(R) /\ N \in Nat
    BY RowsAreFinite, FS_CardinalityType
<1>2. \A r \in R : r.count \in Nat /\ r = Row(MembersOf(M, spec, r.group), spec, r.group)
    BY RowFactsOfQuery
<1>3. s = SortedBy(R, key)
    BY DEF Sorted
<1>4. \A r \in R : key[r] = -r.count
    OBVIOUS
<1>5. \A e \in M : \E r \in R : r.group = GroupOf(e, spec)
    <2> SUFFICES ASSUME NEW e \in M
                 PROVE  \E r \in R : r.group = GroupOf(e, spec)
        OBVIOUS
    <2> DEFINE r == Row(MembersOf(M, spec, GroupOf(e, spec)), spec, GroupOf(e, spec))
    <2>1. r \in R
        BY DEF RowsOf, GroupsOf
    <2>2. r.group = GroupOf(e, spec)
        BY DEF Row
    <2> QED BY <2>1, <2>2
<1> HIDE DEF R, key, s, N
<1>6. \A r \in R : key[r] \in Int
    BY <1>2, <1>4
<1>7. IsListing(s, R, key)
    BY <1>1, <1>3, <1>6, SortedIsSorted
<1>8. s \in Seq(R) /\ Len(s) = N
    BY <1>1, <1>7, SortedIsSeq DEF N
<1>9. /\ s \in [1..N -> R]
      /\ \A i, j \in 1..N : s[i] = s[j] => i = j
      /\ \A x \in R : \E i \in 1..N : s[i] = x
      /\ \A i, j \in 1..N : i < j => key[s[i]] <= key[s[j]]
    BY <1>7 DEF IsListing, N
<1>10. \A i, j \in 1..N : s[i].group = s[j].group => i = j
    <2> SUFFICES ASSUME NEW i \in 1..N, NEW j \in 1..N, s[i].group = s[j].group
                 PROVE  i = j
        OBVIOUS
    <2>1. s[i] = s[j]
        BY <1>2, <1>9
    <2> QED BY <1>9, <2>1
<1>11. \A e \in M : \E i \in 1..N : s[i].group = GroupOf(e, spec)
    BY <1>5, <1>9
<1>12. ASSUME NEW i \in 1..N, NEW j \in 1..N, i < j
       PROVE  s[i].count >= s[j].count
    <2>1. s[i] \in R /\ s[j] \in R /\ key[s[i]] <= key[s[j]]
        BY <1>9, <1>12
    <2>2. s[i].count \in Nat /\ s[j].count \in Nat /\ -s[i].count <= -s[j].count
        BY <1>2, <1>4, <2>1
    <2> QED BY <2>2
<1> QED
    BY <1>1, <1>8, <1>10, <1>11, <1>12 DEF R, s, N

(* The events counted by the first L rows. *)
FirstGroups(M, spec, L) ==
    {e \in M : \E i \in 1..L : Sorted(M, spec)[i].group = GroupOf(e, spec)}

(* The counts of the first rows add up to the events of their groups. *)
LEMMA FirstRowsCount ==
    ASSUME NEW M, IsFiniteSet(M), NEW spec, NEW L \in Nat, L <= Cardinality(RowsOf(M, spec)),
           NEW f, f = [i \in 1..L |-> Sorted(M, spec)[i].count]
    PROVE  SumFunction(f) = Cardinality(FirstGroups(M, spec, L))
<1> DEFINE s == Sorted(M, spec)
           N == Cardinality(RowsOf(M, spec))
           E == FirstGroups(M, spec, L)
           k == [e \in E |-> CHOOSE i \in 1..L : s[i].group = GroupOf(e, spec)]
<1>1. /\ N \in Nat /\ s \in Seq(RowsOf(M, spec)) /\ Len(s) = N
      /\ \A i, j \in 1..N : s[i].group = s[j].group => i = j
    BY SortedRows
<1>2. \A i \in 1..L : i \in 1..N /\ s[i] \in RowsOf(M, spec)
    <2> HIDE DEF s, N
    <2> QED BY <1>1 DEF N
<1>3. \A e \in E : k[e] \in 1..L /\ s[k[e]].group = GroupOf(e, spec)
    BY DEF FirstGroups
<1>4. IsFiniteSet(E) /\ E \subseteq M
    BY FS_Subset DEF FirstGroups
<1>5. ASSUME NEW i \in 1..L
      PROVE  f[i] = Cardinality({e \in E : k[e] = i})
    <2>1. f[i] = Cardinality(MembersOf(M, spec, s[i].group))
        BY <1>2, RowFactsOfQuery
    <2>2. \A e \in M : GroupOf(e, spec) = s[i].group => e \in E /\ k[e] = i
        <3> SUFFICES ASSUME NEW e \in M, GroupOf(e, spec) = s[i].group
                     PROVE  e \in E /\ k[e] = i
            OBVIOUS
        <3>1. e \in E
            BY DEF FirstGroups
        <3> HIDE DEF k, E, s, N
        <3>2. k[e] \in 1..N /\ i \in 1..N /\ s[k[e]].group = s[i].group
            BY <1>2, <1>3, <3>1
        <3> QED BY <1>1, <3>1, <3>2
    <2>3. \A e \in E : k[e] = i => e \in M /\ GroupOf(e, spec) = s[i].group
        BY <1>3, <1>4
    <2> HIDE DEF k, E, s
    <2>4. MembersOf(M, spec, s[i].group) = {e \in E : k[e] = i}
        BY <1>4, <2>2, <2>3 DEF MembersOf
    <2> QED BY <2>1, <2>4
<1>6. IsFiniteSet(1..L) /\ DOMAIN f = 1..L
    BY FS_Interval
<1> HIDE DEF k, E, s
<1>7. CountsBy(E, 1..L, k, f)
    BY <1>3, <1>5 DEF CountsBy
<1>8. SumFunctionOnSet(f, 1..L) = Cardinality(E)
    BY <1>4, <1>6, <1>7, GroupsAddUp
<1> QED
    BY <1>6, <1>8 DEF SumFunction, E

-----------------------------------------------------------------------------
(* Filters *)

(* The filter g negates h. *)
Negates(g, h) == g.field = h.field /\ g.value = h.value /\ g.op = Negation[h.op]

(* A filter with the opposite operator matches the other events. *)
LEMMA NegatedMatch ==
    ASSUME NEW e, NEW g, NEW h, h.op \in DOMAIN Negation, Negates(g, h)
    PROVE  MatchFilter(e, g) <=> ~MatchFilter(e, h)
<1>1. h.op \in {"eq", "in", "exists"} /\ g.field = h.field /\ g.value = h.value
    BY DEF Negation, Negates
<1>2. CASE h.op = "eq"
    <2>1. g.op = "ne"
        BY <1>2 DEF Negation, Negates
    <2> QED BY <1>1, <1>2, <2>1 DEF MatchFilter
<1>3. CASE h.op = "in"
    <2>1. g.op = "nin"
        BY <1>3 DEF Negation, Negates
    <2> QED BY <1>1, <1>3, <2>1 DEF MatchFilter
<1>4. CASE h.op = "exists"
    <2>1. g.op = "not_exists"
        BY <1>4 DEF Negation, Negates
    <2> QED BY <1>1, <1>4, <2>1 DEF MatchFilter
<1> QED
    BY <1>1, <1>2, <1>3, <1>4

(* An element of the first of two sequences, and *)
LEMMA FirstPart ==
    ASSUME NEW S, NEW a \in Seq(S), NEW b \in Seq(S), NEW k \in Nat, k = Len(a), NEW j \in 1..k
    PROVE  (a \o b)[j] = a[j]
OBVIOUS

(* an element past it. *)
LEMMA SecondPart ==
    ASSUME NEW S, NEW a \in Seq(S), NEW b \in Seq(S), NEW k \in Nat, k = Len(a),
           NEW m \in Nat, m = Len(b), NEW j \in 1..(k + m), ~(j <= k)
    PROVE  (a \o b)[j] = b[j - k]
OBVIOUS

(* The filters of a sequence that an event passes. *)
Passes(e, F) == \A i \in DOMAIN F : MatchFilter(e, F[i])

(* What is left of the filters without one of them. *)
LEMMA PassesAllButOne ==
    ASSUME NEW F, F \in Seq(Range(F)), NEW i \in DOMAIN F, NEW e
    PROVE  Passes(e, RemoveAt(F, i)) <=> \A j \in DOMAIN F : j # i => MatchFilter(e, F[j])
<1> DEFINE W == RemoveAt(F, i)
           n == Len(F)
<1>1. n \in Nat /\ DOMAIN F = 1..n /\ i \in 1..n
    OBVIOUS
<1>2. /\ DOMAIN W = 1..(n - 1)
      /\ \A j \in 1..(n - 1) : W[j] = IF j < i THEN F[j] ELSE F[j + 1]
    <2>1. SubSeq(F, 1, i - 1) = [j \in 1..(i - 1) |-> F[j]]
        BY <1>1
    <2>2. SubSeq(F, i + 1, n) = [j \in 1..(n - i) |-> F[j + i]]
        BY <1>1
    <2>3. /\ SubSeq(F, 1, i - 1) \in Seq(Range(F)) /\ Len(SubSeq(F, 1, i - 1)) = i - 1
          /\ SubSeq(F, i + 1, n) \in Seq(Range(F)) /\ Len(SubSeq(F, i + 1, n)) = n - i
        BY <1>1
    <2>4. W = SubSeq(F, 1, i - 1) \o SubSeq(F, i + 1, n)
        BY DEF RemoveAt
    <2> PICK a, b : a = SubSeq(F, 1, i - 1) /\ b = SubSeq(F, i + 1, n)
        OBVIOUS
    <2>5. /\ a \in Seq(Range(F)) /\ Len(a) = i - 1 /\ b \in Seq(Range(F)) /\ Len(b) = n - i
          /\ W = a \o b
        BY <2>3, <2>4
    <2>6. /\ \A j \in 1..(i - 1) : a[j] = F[j]
          /\ \A j \in 1..(n - i) : b[j] = F[j + i]
        BY <2>1, <2>2
    <2> HIDE DEF W, n
    <2>7. DOMAIN W = 1..(n - 1)
        BY <1>1, <2>5
    <2>8. ASSUME NEW j \in 1..(n - 1)
          PROVE  W[j] = IF j < i THEN F[j] ELSE F[j + 1]
        <3>1. CASE j < i
            <4>1. i - 1 \in Nat /\ j \in 1..(i - 1)
                BY <1>1, <3>1
            <4> PICK S, k : S = Range(F) /\ k = i - 1
                OBVIOUS
            <4>2. k \in Nat /\ j \in 1..k /\ a \in Seq(S) /\ b \in Seq(S) /\ k = Len(a)
                BY <2>5, <4>1
            <4>3. (a \o b)[j] = a[j]
                BY ONLY <4>2, FirstPart
            <4>4. W[j] = a[j]
                BY <2>5, <4>3
            <4> QED BY <2>6, <3>1, <4>1, <4>4
        <3>2. CASE ~(j < i)
            <4>1. i - 1 \in Nat /\ n - i \in Nat /\ (i - 1) + (n - i) = n - 1 /\ ~(j <= i - 1)
                BY <1>1, <3>2
            <4>2. j - (i - 1) \in 1..(n - i) /\ (j - (i - 1)) + i = j + 1
                BY <1>1, <3>2
            <4> PICK S, k, m : S = Range(F) /\ k = i - 1 /\ m = n - i
                OBVIOUS
            <4>3. k \in Nat /\ m \in Nat /\ j \in 1..(k + m) /\ ~(j <= k)
                BY <4>1
            <4>4. a \in Seq(S) /\ b \in Seq(S) /\ k = Len(a) /\ m = Len(b)
                BY <2>5
            <4>5. (a \o b)[j] = b[j - k]
                BY ONLY <4>3, <4>4, SecondPart
            <4>6. W[j] = b[j - (i - 1)]
                BY <2>5, <4>5
            <4> QED BY <2>6, <3>2, <4>2, <4>6
        <3> QED BY <3>1, <3>2
    <2> QED BY <2>7, <2>8
<1> HIDE DEF W, n
<1>3. ASSUME Passes(e, W), NEW j \in DOMAIN F, j # i
      PROVE  MatchFilter(e, F[j])
    <2>1. CASE j < i
        <3>1. j \in 1..(n - 1) /\ W[j] = F[j]
            BY <1>1, <1>2, <2>1
        <3> QED BY <1>2, <1>3, <3>1 DEF Passes
    <2>2. CASE i < j
        <3>1. j - 1 \in 1..(n - 1) /\ ~(j - 1 < i) /\ (j - 1) + 1 = j
            BY <1>1, <2>2
        <3>2. W[j - 1] = F[j]
            BY <1>2, <3>1
        <3> QED BY <1>2, <1>3, <3>1, <3>2 DEF Passes
    <2> QED BY <1>1, <1>3, <2>1, <2>2
<1>4. ASSUME \A j \in DOMAIN F : j # i => MatchFilter(e, F[j])
      PROVE  Passes(e, W)
    <2> SUFFICES ASSUME NEW j \in 1..(n - 1)
                 PROVE  MatchFilter(e, W[j])
        BY <1>2 DEF Passes
    <2>1. CASE j < i
        <3>1. j \in DOMAIN F /\ j # i /\ W[j] = F[j]
            BY <1>1, <1>2, <2>1
        <3> QED BY <1>4, <3>1
    <2>2. CASE ~(j < i)
        <3>1. j + 1 \in DOMAIN F /\ j + 1 # i /\ W[j] = F[j + 1]
            BY <1>1, <1>2, <2>2
        <3> QED BY <1>4, <3>1
    <2> QED BY <2>1, <2>2
<1> QED
    BY <1>3, <1>4 DEF W

(* Two halves of a finite set. *)
LEMMA HalvesAddUp ==
    ASSUME NEW E, IsFiniteSet(E), NEW A, NEW B, A \cap B = {}, A \cup B = E
    PROVE  Cardinality(A) + Cardinality(B) = Cardinality(E)
<1>1. IsFiniteSet(A) /\ IsFiniteSet(B)
    BY FS_Subset
<1>2. Cardinality(A) \in Nat /\ Cardinality(B) \in Nat
    BY <1>1, FS_CardinalityType
<1>3. Cardinality(A \cup B) = Cardinality(A) + Cardinality(B) - Cardinality(A \cap B)
    BY <1>1, FS_Union
<1>4. Cardinality({}) = 0
    BY FS_EmptySet
<1>5. Cardinality(A \cap B) = 0 /\ Cardinality(A \cup B) = Cardinality(E)
    BY <1>4
<1> QED
    BY <1>2, <1>3, <1>5

(* A spec with its filters named: those of Specs and their normal forms. *)
IsQuerySpec(spec) ==
    /\ DOMAIN spec = SpecFields
    /\ spec.filters \in Seq(Range(spec.filters))
    /\ \A i \in DOMAIN spec.filters : DOMAIN spec.filters[i] = {"field", "op", "value"}

(* A filter and its negation split the events that pass the others. *)
LEMMA FiltersSplit ==
    ASSUME NEW E, IsFiniteSet(E), NEW spec, IsQuerySpec(spec)
    PROVE  Splits(E, spec)
<1> SUFFICES ASSUME NEW i \in DOMAIN spec.filters, spec.filters[i].op \in DOMAIN Negation
             PROVE  Cardinality(Matched(E, spec))
                    + Cardinality(Matched(E, [spec EXCEPT !.filters[i].op = Negation[@]]))
                    = Cardinality(Matched(E, [spec EXCEPT !.filters = RemoveAt(@, i)]))
    BY DEF Splits
<1> DEFINE flipped == [spec EXCEPT !.filters[i].op = Negation[@]]
           without == [spec EXCEPT !.filters = RemoveAt(@, i)]
<1> PICK F, h : F = spec.filters /\ h = F[i]
    OBVIOUS
<1>1. /\ F \in Seq(Range(F)) /\ i \in DOMAIN F /\ h.op \in DOMAIN Negation
      /\ DOMAIN h = {"field", "op", "value"} /\ DOMAIN spec = SpecFields
    BY DEF IsQuerySpec
<1>2. /\ without.filters = RemoveAt(F, i)
      /\ without.since = spec.since /\ without.until = spec.until
    BY <1>1 DEF SpecFields
<1>3. /\ DOMAIN flipped.filters = DOMAIN F
      /\ \A j \in DOMAIN F : j # i => flipped.filters[j] = F[j]
      /\ Negates(flipped.filters[i], h)
      /\ flipped.since = spec.since /\ flipped.until = spec.until
    <2> PICK g : g = [h EXCEPT !.op = Negation[@]]
        OBVIOUS
    <2>1. Negates(g, h)
        BY <1>1 DEF Negates
    <2> PICK G : G = [F EXCEPT ![i] = g]
        OBVIOUS
    <2>2. flipped = [spec EXCEPT !.filters = G]
        OBVIOUS
    <2>3. flipped.filters = G /\ flipped.since = spec.since /\ flipped.until = spec.until
        BY <1>1, <2>2 DEF SpecFields
    <2>4. DOMAIN G = DOMAIN F /\ G[i] = g /\ \A j \in DOMAIN F : j # i => G[j] = F[j]
        BY <1>1
    <2> HIDE DEF flipped
    <2> QED BY <2>1, <2>3, <2>4
<1> HIDE DEF flipped, without
<1>4. \A e : /\ InWindow(e, flipped) <=> InWindow(e, spec)
             /\ InWindow(e, without) <=> InWindow(e, spec)
    BY <1>2, <1>3 DEF InWindow
<1>5. ASSUME NEW e
      PROVE  /\ Passes(e, F) <=> Passes(e, without.filters) /\ MatchFilter(e, h)
             /\ Passes(e, flipped.filters) <=> Passes(e, without.filters) /\ ~MatchFilter(e, h)
    <2>1. Passes(e, without.filters) <=> \A j \in DOMAIN F : j # i => MatchFilter(e, F[j])
        BY <1>1, <1>2, PassesAllButOne
    <2>2. MatchFilter(e, flipped.filters[i]) <=> ~MatchFilter(e, h)
        BY <1>1, <1>3, NegatedMatch
    <2>3. Passes(e, F) <=> /\ \A j \in DOMAIN F : j # i => MatchFilter(e, F[j])
                           /\ MatchFilter(e, h)
        BY <1>1 DEF Passes
    <2>4. Passes(e, flipped.filters)
          <=> /\ \A j \in DOMAIN F : j # i => MatchFilter(e, F[j])
              /\ MatchFilter(e, flipped.filters[i])
        BY <1>1, <1>3 DEF Passes
    <2> QED BY <2>1, <2>2, <2>3, <2>4
<1>6. /\ Matched(E, spec) = {e \in E : InWindow(e, spec) /\ Passes(e, F)}
      /\ Matched(E, flipped) = {e \in E : InWindow(e, flipped) /\ Passes(e, flipped.filters)}
      /\ Matched(E, without) = {e \in E : InWindow(e, without) /\ Passes(e, without.filters)}
    BY DEF Matched, Passes
<1> PICK A, B, C : A = Matched(E, spec) /\ B = Matched(E, flipped) /\ C = Matched(E, without)
    OBVIOUS
<1>7. C \subseteq E /\ A \cap B = {} /\ A \cup B = C
    BY <1>4, <1>5, <1>6
<1>8. IsFiniteSet(C)
    BY <1>7, FS_Subset
<1>9. Cardinality(A) + Cardinality(B) = Cardinality(C)
    BY ONLY <1>7, <1>8, HalvesAddUp
<1> QED
    BY <1>9 DEF flipped, without

-----------------------------------------------------------------------------
(* Results *)

(* A result shows the first of N sorted rows, as many as the limit allows. *)
ShowsFirst(res, M, s, N, l) ==
    /\ Len(res.rows) \in Nat /\ Len(res.rows) <= l /\ Len(res.rows) <= N
    /\ DOMAIN res.rows = 1..Len(res.rows)
    /\ \A i \in 1..Len(res.rows) : res.rows[i] = s[i]
    /\ res.truncated => Len(res.rows) = l /\ l < N
    /\ ~res.truncated => Len(res.rows) = N
    /\ res.truncated \in BOOLEAN
    /\ res.total_matched = Cardinality(M)

(* Of the sorted rows, a query returns the first. *)
LEMMA ShownRows ==
    ASSUME NEW E, IsFiniteSet(E), NEW spec, spec.limit \in Nat, NEW M, M = Matched(E, spec)
    PROVE  /\ IsFiniteSet(M)
           /\ ShowsFirst(RunQuery(E, spec), M, Sorted(M, spec),
                         Cardinality(RowsOf(M, spec)), spec.limit)
<1> PICK S, N, s : S = RowsOf(M, spec) /\ N = Cardinality(RowsOf(M, spec)) /\ s = Sorted(M, spec)
    OBVIOUS
<1> PICK res, rows, l : res = RunQuery(E, spec) /\ rows = res.rows /\ l = spec.limit
    OBVIOUS
<1>0. rows = res.rows
    OBVIOUS
<1>1. IsFiniteSet(M)
    BY FS_Subset DEF Matched
<1>2. N \in Nat /\ Len(s) = N /\ s \in Seq(S) /\ l \in Nat
    BY <1>1, SortedRows
<1>3. res.total_matched = Cardinality(M)
    BY ResultParts
<1>4. res.truncated \in BOOLEAN /\ (res.truncated <=> N > l)
    <2>1. res.truncated \in BOOLEAN /\ (res.truncated <=> Len(Sorted(M, spec)) > spec.limit)
        BY ResultParts
    <2> QED BY <1>2, <2>1
<1>5. rows = IF N > l THEN SubSeq(s, 1, l) ELSE s
    BY <1>2, ResultParts
<1>6. CASE N > l
    <2>1. Len(rows) = l /\ DOMAIN rows = 1..l /\ \A i \in 1..l : rows[i] = s[i]
        BY ONLY <1>2, <1>5, <1>6
    <2>2. ShowsFirst(res, M, s, N, l)
        BY ONLY <1>2, <1>3, <1>4, <1>6, <2>1, <1>0 DEF ShowsFirst
    <2> QED BY <1>1, <2>2
<1>7. CASE ~(N > l)
    <2>1. Len(rows) = N /\ DOMAIN rows = 1..N /\ \A i \in 1..N : rows[i] = s[i]
        BY ONLY <1>2, <1>5, <1>7
    <2>2. ShowsFirst(res, M, s, N, l)
        BY ONLY <1>2, <1>3, <1>4, <1>7, <2>1, <1>0 DEF ShowsFirst
    <2> QED BY <1>1, <2>2
<1> QED
    BY <1>6, <1>7

(* A distinct count of a finite group is at most its number of events. *)
LEMMA DistinctAtMost ==
    ASSUME NEW m, IsFiniteSet(m), NEW field
    PROVE  Cardinality({ResolveField(e, field) : e \in m} \ {Absent}) <= Cardinality(m)
<1> DEFINE V == {ResolveField(e, field) : e \in m}
           f == [e \in m |-> ResolveField(e, field)]
<1>1. f \in Surjection(m, V)
    BY DEF Surjection
<1> HIDE DEF f
<1>2. IsFiniteSet(V) /\ Cardinality(V) <= Cardinality(m)
    BY <1>1, FS_Surjection
<1>3. IsFiniteSet(V \ {Absent}) /\ Cardinality(V \ {Absent}) <= Cardinality(V)
    BY <1>2, FS_Subset
<1>4. Cardinality(m) \in Nat /\ Cardinality(V) \in Nat /\ Cardinality(V \ {Absent}) \in Nat
    BY <1>2, <1>3, FS_CardinalityType
<1> QED
    BY <1>2, <1>3, <1>4

(* So its counts add up, or fall short when the rows were cut. *)
LEMMA QueryAddsUp ==
    ASSUME NEW E, IsFiniteSet(E), NEW spec, spec.limit \in Nat
    PROVE  AddsUp(E, spec)
<1> PICK M, l, res : M = Matched(E, spec) /\ l = spec.limit /\ res = RunQuery(E, spec)
    OBVIOUS
<1> PICK s, N, L : s = Sorted(M, spec) /\ N = Cardinality(RowsOf(M, spec)) /\ L = Len(res.rows)
    OBVIOUS
<1> PICK S : S = RowsOf(M, spec)
    OBVIOUS
<1>1. /\ L \in Nat /\ L <= l /\ L <= N /\ DOMAIN res.rows = 1..L
      /\ \A i \in 1..L : res.rows[i] = s[i]
      /\ res.truncated => L = l /\ L < N
      /\ ~res.truncated => L = N
      /\ res.truncated \in BOOLEAN
      /\ IsFiniteSet(M) /\ res.total_matched = Cardinality(M)
    <2>1. IsFiniteSet(M) /\ ShowsFirst(res, M, s, N, l)
        BY ShownRows
    <2> QED BY ONLY <2>1, L = Len(res.rows) DEF ShowsFirst
<1>2. /\ N \in Nat /\ Len(s) = N /\ s \in Seq(S)
      /\ \A i, j \in 1..N : s[i].group = s[j].group => i = j
      /\ \A e \in M : \E i \in 1..N : s[i].group = GroupOf(e, spec)
      /\ \A i, j \in 1..N : i < j => s[i].count >= s[j].count
    BY <1>1, SortedRows
<1>3. \A i \in 1..N : s[i] \in S
    BY <1>2
<1>4. Counted(res.rows) = Cardinality(FirstGroups(M, spec, L))
    <2> DEFINE f == [i \in 1..L |-> s[i].count]
    <2>1. f = [i \in DOMAIN res.rows |-> res.rows[i].count]
        BY <1>1
    <2>2. Counted(res.rows) = SumFunction(f)
        BY <2>1 DEF Counted
    <2>3. f = [i \in 1..L |-> Sorted(M, spec)[i].count]
        OBVIOUS
    <2> HIDE DEF f
    <2>4. SumFunction(f) = Cardinality(FirstGroups(M, spec, L))
        BY <1>1, <2>3, FirstRowsCount
    <2> QED BY <2>2, <2>4
<1> PICK F : F = FirstGroups(M, spec, L)
    OBVIOUS
<1>5. F \subseteq M /\ \A e \in M : e \in F <=> \E i \in 1..L : s[i].group = GroupOf(e, spec)
    BY DEF FirstGroups
<1>6. IsFiniteSet(F) /\ Cardinality(F) \in Nat /\ Cardinality(M) \in Nat
    BY <1>1, <1>5, FS_Subset, FS_CardinalityType
<1>7. ASSUME res.truncated
      PROVE  L = l /\ Counted(res.rows) < res.total_matched
    <2>1. L + 1 \in 1..N /\ L = l
        BY <1>1, <1>2, <1>7
    <2>2. s[L + 1] \in S
        BY <1>3, <2>1
    <2>3. PICK e : e \in MembersOf(M, spec, s[L + 1].group)
        BY <1>1, <2>2, RowFactsOfQuery
    <2>4. e \in M /\ GroupOf(e, spec) = s[L + 1].group
        BY <2>3 DEF MembersOf
    <2>5. e \notin F
        <3> SUFFICES ASSUME NEW i \in 1..L, s[i].group = s[L + 1].group
                     PROVE  FALSE
            BY <1>5, <2>4
        <3>1. i \in 1..N /\ i # L + 1
            BY <1>1, <1>2, <2>1
        <3> QED BY <1>2, <2>1, <3>1
    <2>6. F # M
        BY <2>4, <2>5
    <2>7. Cardinality(F) < Cardinality(M)
        BY <1>1, <1>5, <1>6, <2>6, FS_Subset
    <2> QED BY <1>1, <1>4, <2>1, <2>7
<1>8. ASSUME ~res.truncated
      PROVE  Counted(res.rows) = res.total_matched
    <2>0. L = N
        BY <1>1, <1>8
    <2>1. F = M
        BY <1>2, <1>5, <2>0
    <2> QED BY <1>1, <1>4, <2>1
<1>9. ASSUME NEW i \in 2..L
      PROVE  res.rows[i - 1].count >= res.rows[i].count
    <2>1. i - 1 \in 1..N /\ i \in 1..N /\ i - 1 < i /\ i - 1 \in 1..L /\ i \in 1..L
        BY <1>1, <1>2
    <2>2. res.rows[i - 1] = s[i - 1] /\ res.rows[i] = s[i]
        BY <1>1, <2>1
    <2> QED BY <1>2, <2>1, <2>2
<1>10. ASSUME NEW i \in 1..L, NEW d \in DOMAIN spec.distinct
       PROVE  res.rows[i].distinct[d] <= res.rows[i].count
    <2>1. i \in 1..N /\ res.rows[i] = s[i]
        BY <1>1, <1>2
    <2> PICK r, m : r = s[i] /\ m = MembersOf(M, spec, s[i].group)
        OBVIOUS
    <2>2. r \in S /\ r = Row(m, spec, r.group) /\ r.count = Cardinality(m)
        BY <1>1, <1>3, <2>1, RowFactsOfQuery
    <2>3. r.distinct[d] = Cardinality({ResolveField(e, spec.distinct[d]) : e \in m} \ {Absent})
        BY <2>2 DEF Row
    <2>4. IsFiniteSet(m)
        BY <1>1, FS_Subset DEF MembersOf
    <2>5. Cardinality({ResolveField(e, spec.distinct[d]) : e \in m} \ {Absent}) <= Cardinality(m)
        BY <2>4, DistinctAtMost
    <2>6. r.distinct[d] <= r.count
        BY ONLY <2>2, <2>3, <2>5
    <2> QED BY <2>1, <2>6
<1>11. /\ L <= l
       /\ IF res.truncated
          THEN L = l /\ Counted(res.rows) < res.total_matched
          ELSE Counted(res.rows) = res.total_matched
       /\ \A i \in 2..L : res.rows[i - 1].count >= res.rows[i].count
       /\ \A i \in DOMAIN res.rows, d \in DOMAIN spec.distinct :
             res.rows[i].distinct[d] <= res.rows[i].count
    BY <1>1, <1>7, <1>8, <1>9, <1>10
<1> QED
    BY <1>11 DEF AddsUp

(* A valid spec has a limit once it is normalized. *)
LEMMA NormalSpec ==
    ASSUME NEW raw \in Specs, ValidSpec(raw)
    PROVE  IsQuerySpec(Normalized(raw)) /\ Normalized(raw).limit \in Nat
<1>1. IsQuerySpec(raw)
    BY SpecAssumption DEF IsQuerySpec
<1>2. /\ DOMAIN Normalized(raw) = SpecFields
      /\ Normalized(raw).filters = raw.filters
      /\ Normalized(raw).limit = IF raw.limit = Absent THEN DefaultLimit ELSE raw.limit
    BY <1>1 DEF IsQuerySpec, Normalized, SpecFields
<1>3. Normalized(raw).limit \in 1..MaxLimit
    BY <1>2, SpecAssumption DEF ValidSpec
<1>4. \A n \in 1..MaxLimit : n \in Nat
    BY SpecAssumption
<1> QED
    BY <1>1, <1>2, <1>3, <1>4 DEF IsQuerySpec

(* Queries add up on every store. *)
LEMMA QueriesOfStore ==
    ASSUME StoreInv
    PROVE  QueriesAddUp
<1>1. IsFiniteSet(events)
    BY WorldFacts, FS_Subset DEF StoreInv
<1> SUFFICES ASSUME NEW view, NEW raw \in Specs, ValidSpec(raw)
             PROVE  LET spec == Normalized(raw)
                        mine == Windowed(events, view, None, None)
                    IN  AddsUp(mine, spec) /\ Splits(mine, spec)
    BY DEF QueriesAddUp
<1> PICK spec, mine : spec = Normalized(raw) /\ mine = Windowed(events, view, None, None)
    OBVIOUS
<1>2. IsFiniteSet(mine)
    BY <1>1, FS_Subset DEF Windowed
<1>3. IsQuerySpec(spec) /\ spec.limit \in Nat
    BY NormalSpec
<1>4. AddsUp(mine, spec) /\ Splits(mine, spec)
    BY ONLY <1>2, <1>3, QueryAddsUp, FiltersSplit
<1> QED
    BY <1>4

(* QueriesAddUp: a query's groups partition what it matches, the truncated *)
(* result still has its total, and a filter and its negation split the     *)
(* events that pass the others (src/customQuery.js).                       *)
THEOREM QueriesAlwaysAddUp == Spec => []QueriesAddUp
<1>1. StoreInv => QueriesAddUp
    BY QueriesOfStore
<1> QED
    BY <1>1, StoreInvariant, PTL

-----------------------------------------------------------------------------
(* Breakdowns *)

(* A function that counts the elements of each value of key. *)
LEMMA ValuesAddUp ==
    ASSUME NEW D, IsFiniteSet(D), NEW key, key \in [D -> Range(key)],
           NEW f, f \in [Range(key) -> Int],
           \A k \in Range(key) : f[k] = Cardinality({e \in D : key[e] = k})
    PROVE  SumFunction(f) = Cardinality(D)
<1>1. key \in Surjection(D, Range(key))
    BY DEF Surjection, Range
<1>2. IsFiniteSet(Range(key))
    BY <1>1, FS_Surjection
<1>3. CountsBy(D, Range(key), key, f)
    BY DEF CountsBy
<1>4. SumFunctionOnSet(f, Range(key)) = Cardinality(D)
    BY <1>2, <1>3, GroupsAddUp
<1> QED
    BY <1>4 DEF SumFunction

(* A part of a finite set has no more elements. *)
LEMMA FiniteCounts ==
    ASSUME NEW D, IsFiniteSet(D)
    PROVE  \A A \in SUBSET D : IsFiniteSet(A) /\ Cardinality(A) \in Nat /\ Cardinality(A) <= Cardinality(D)
BY FS_Subset, FS_CardinalityType

(* The buckets of a breakdown add up to the events. *)
LEMMA TallyAddsUp ==
    ASSUME NEW D, IsFiniteSet(D), NEW key, key \in [D -> Range(key)]
    PROVE  SumFunction(Tally(key)) = Cardinality(D)
<1> DEFINE f == [k \in Range(key) |-> Cardinality({e \in D : key[e] = k})]
<1>1. Tally(key) = f
    BY DEF Tally
<1>2. f \in [Range(key) -> Int]
    BY FiniteCounts
<1>3. \A k \in Range(key) : f[k] = Cardinality({e \in D : key[e] = k})
    OBVIOUS
<1> HIDE DEF f
<1>4. SumFunction(f) = Cardinality(D)
    BY <1>2, <1>3, ValuesAddUp
<1> QED
    BY <1>1, <1>4

(* The buckets in a plain object do, but for those of inherited keys. *)
LEMMA OrdinaryAddsUp ==
    ASSUME NEW D, IsFiniteSet(D), NEW key, key \in [D -> Range(key)]
    PROVE  Ordinary(CountBy(key)) = Cardinality({e \in D : key[e] \notin ObjectPrototype})
<1> DEFINE E == {e \in D : key[e] \notin ObjectPrototype}
           own == [e \in E |-> key[e]]
           B == Range(key) \ ObjectPrototype
           f == [k \in B |-> Cardinality({e \in D : key[e] = k})]
<1>1. Range(own) = B /\ own \in [E -> Range(own)] /\ \A e \in E : own[e] = key[e]
    BY DEF Range
<1>2. Ordinary(CountBy(key)) = SumFunction(f)
    <2>1. /\ DOMAIN CountBy(key) = Range(key) \ {"__proto__"}
          /\ \A k \in Range(key) \ ({"__proto__"} \cup ObjectPrototype) :
                CountBy(key)[k] = Cardinality({e \in D : key[e] = k})
        BY DEF CountBy, Tally
    <2>2. "__proto__" \in ObjectPrototype
        BY DEF ObjectPrototype
    <2>3. DOMAIN CountBy(key) \ ObjectPrototype = B
        BY <2>1, <2>2
    <2>4. [k \in DOMAIN CountBy(key) \ ObjectPrototype |-> CountBy(key)[k]] = f
        BY <2>1, <2>2, <2>3
    <2> QED BY <2>4 DEF Ordinary
<1>3. IsFiniteSet(E)
    BY FS_Subset
<1>4. ASSUME NEW k \in B
      PROVE  f[k] = Cardinality({e \in E : own[e] = k})
    <2>1. {e \in E : own[e] = k} = {e \in D : key[e] = k}
        BY <1>1, <1>4
    <2> QED BY <2>1
<1>5. f \in [B -> Int]
    BY FiniteCounts
<1> HIDE DEF E, own, B, f
<1>6. SumFunction(f) = Cardinality(E)
    BY <1>1, <1>3, <1>4, <1>5, ValuesAddUp
<1> QED
    BY <1>2, <1>6 DEF E

(* The smaller of two numbers. *)
LEMMA MinOfTwo ==
    ASSUME NEW a \in Int, NEW b \in Int
    PROVE  Min({a, b}) \in {a, b} /\ Min({a, b}) <= a /\ Min({a, b}) <= b
<1>1. IsFiniteSet({a})
    BY FS_Singleton
<1>2. IsFiniteSet({a} \cup {b})
    BY <1>1, FS_AddElement
<1> PICK B : B = {a} \cup {b}
    OBVIOUS
<1>3. B \in SUBSET Int /\ B # {} /\ IsFiniteSet(B) /\ B = {a, b}
    BY <1>2
<1>4. Min(B) \in B /\ \A y \in B : Min(B) <= y
    BY <1>3, MinOfInts
<1> QED
    BY <1>3, <1>4

(* The first of the most recent events is the latest. *)
LEMMA MostRecentIsLatest ==
    ASSUME NEW D, IsFiniteSet(D), \A e \in D : e.time \in Int, NEW e \in D
    PROVE  MostRecent(D, 1) # <<>> /\ e.time <= MostRecent(D, 1)[1].time
<1> DEFINE key == [x \in D |-> -x.time]
           s == SortedBy(D, key)
           N == Cardinality(D)
<1>1. \A x \in D : key[x] \in Int /\ key[x] = -x.time
    OBVIOUS
<1>2. MostRecent(D, 1) = SubSeq(s, 1, Min({1, Len(s)}))
    BY DEF MostRecent
<1> HIDE DEF key, s, N
<1>3. IsListing(s, D, key)
    BY <1>1, SortedIsSorted DEF s
<1>4. s \in Seq(D) /\ Len(s) = N /\ N \in Nat
    BY <1>3, SortedIsSeq, FS_CardinalityType DEF N
<1>5. /\ s \in [1..N -> D]
      /\ \A x \in D : \E i \in 1..N : s[i] = x
      /\ \A i, j \in 1..N : i < j => key[s[i]] <= key[s[j]]
    BY <1>3 DEF IsListing, N
<1>6. PICK i \in 1..N : s[i] = e
    BY <1>5
<1>7. 1 \in 1..N /\ s[1] \in D
    BY <1>4, <1>5, <1>6
<1>8. Min({1, Len(s)}) = 1
    <2>1. 1 \in Int /\ Len(s) \in Int /\ 1 <= Len(s)
        BY <1>4, <1>7
    <2>2. Min({1, Len(s)}) \in {1, Len(s)} /\ Min({1, Len(s)}) <= 1
        BY <2>1, MinOfTwo
    <2> QED BY <2>1, <2>2
<1>9. MostRecent(D, 1) # <<>> /\ MostRecent(D, 1)[1] = s[1]
    <2>1. MostRecent(D, 1) = SubSeq(s, 1, 1)
        BY <1>2, <1>8
    <2>2. Len(s) \in Nat /\ 1 <= Len(s)
        BY <1>4, <1>7
    <2>3. Len(SubSeq(s, 1, 1)) = 1 /\ SubSeq(s, 1, 1)[1] = s[1]
        BY <1>4, <2>2
    <2> PICK latest, nil : latest = SubSeq(s, 1, 1) /\ nil = <<>>
        OBVIOUS
    <2>4. Len(nil) = 0
        OBVIOUS
    <2>5. Len(latest) = 1
        BY <2>3
    <2>6. latest # nil
        BY ONLY <2>4, <2>5
    <2> QED BY <2>1, <2>3, <2>6
<1>10. key[s[1]] <= key[e]
    <2>1. CASE i = 1
        BY <1>1, <1>6, <2>1
    <2>2. CASE i # 1
        BY <1>5, <1>6, <1>7, <2>2
    <2> QED BY <2>1, <2>2
<1>11. e.time <= s[1].time
    BY <1>1, <1>7, <1>10
<1> QED
    BY <1>9, <1>11

(* The breakdowns of policy.blocked events add up. *)
LEMMA PolicyOfEvents ==
    ASSUME NEW D, IsFiniteSet(D), \A e \in D : e.time \in Int
    PROVE  PolicyAddsUp(D)
<1> DEFINE r == SummarizePolicyBlocked(D, 1)
           policy == [e \in D |-> PolicyOf(e)]
           source == [e \in D |-> BucketKey(e.source)]
           day == [e \in D |-> e.time \div Day]
<1>1. /\ r.total = Cardinality(D) /\ r.recent = MostRecent(D, 1)
      /\ r.by_policy = CountBy(policy) /\ r.by_source = CountBy(source) /\ r.by_day = Tally(day)
    BY DEF SummarizePolicyBlocked
<1>2. policy \in [D -> Range(policy)] /\ source \in [D -> Range(source)] /\ day \in [D -> Range(day)]
    BY DEF Range
<1>3. /\ {e \in D : policy[e] \notin ObjectPrototype} = {e \in D : PolicyOf(e) \notin ObjectPrototype}
      /\ {e \in D : source[e] \notin ObjectPrototype}
         = {e \in D : BucketKey(e.source) \notin ObjectPrototype}
    OBVIOUS
<1> HIDE DEF r, policy, source, day
<1>4. Ordinary(r.by_policy) = Cardinality({e \in D : PolicyOf(e) \notin ObjectPrototype})
    BY <1>1, <1>2, <1>3, OrdinaryAddsUp
<1>5. Ordinary(r.by_source) = Cardinality({e \in D : BucketKey(e.source) \notin ObjectPrototype})
    BY <1>1, <1>2, <1>3, OrdinaryAddsUp
<1>6. SumFunction(r.by_day) = r.total
    BY <1>1, <1>2, TallyAddsUp
<1>7. \A e \in D : r.recent # <<>> /\ e.time <= r.recent[1].time
    BY <1>1, MostRecentIsLatest
<1> QED
    BY <1>4, <1>5, <1>6, <1>7 DEF PolicyAddsUp, r

(* A forest is at most as deep as it has sessions. *)
LEMMA DepthAtMostRows ==
    ASSUME NEW rows, IsRows(rows)
    PROVE  MaxDepth(rows) <= Cardinality(rows)
<1> DEFINE N == Cardinality(rows)
           L == {0} \cup {Len(p) : p \in Forest(rows)}
<1>1. N \in Nat
    BY IdsAreFinite
<1>2. ASSUME NEW p \in Forest(rows)
      PROVE  Len(p) \in 0..N
    <2>1. PICK n \in 0..N : p \in Levels(rows, Roots(rows))[n]
        BY ForestIff
    <2>2. n # N
        BY <2>1, TreesEnd
    <2>3. n \in Nat /\ n <= N /\ n + 1 <= N
        BY <1>1, <2>2
    <2>4. Len(p) = n + 1
        BY <2>1, <2>3, RootsAreIds, PathShape
    <2> QED BY <1>1, <2>3, <2>4
<1> HIDE DEF N
<1>3. L \subseteq 0..N /\ L # {}
    BY <1>1, <1>2
<1>4. IsFiniteSet(0..N) /\ 0..N \subseteq Int
    BY <1>1, FS_Interval
<1>5. IsFiniteSet(L) /\ L \in SUBSET Int
    <2> HIDE DEF L
    <2> QED BY <1>3, <1>4, FS_Subset
<1> HIDE DEF L
<1>6. Max(L) \in L
    BY <1>3, <1>5, MaxOfInts
<1>7. Max(L) \in 0..N
    BY <1>3, <1>6
<1>8. VisitedLimit + 2 \in Int /\ Max(L) \in Int /\ Max(L) <= N
    BY <1>1, <1>7 DEF VisitedLimit
<1>9. Min({VisitedLimit + 2, Max(L)}) \in {VisitedLimit + 2, Max(L)}
      /\ Min({VisitedLimit + 2, Max(L)}) <= Max(L)
    BY <1>8, MinOfTwo
<1>10. MaxDepth(rows) = Min({VisitedLimit + 2, Max(L)})
    BY DEF MaxDepth, L
<1>11. MaxDepth(rows) \in Int /\ MaxDepth(rows) <= Max(L)
    BY <1>8, <1>9, <1>10
<1>12. MaxDepth(rows) <= N
    BY <1>1, <1>8, <1>11
<1> QED
    BY <1>12 DEF N

-----------------------------------------------------------------------------
(* Percentiles *)

(* The nearest rank for q, which is a percentage times the number of samples. *)
RankOf(q) == Max({1, (q + 99) \div 100})

(* It is the smallest whole number that is not below a hundredth of q. *)
LEMMA RankBounds ==
    ASSUME NEW n \in Nat, NEW q \in 1..(100 * n)
    PROVE  RankOf(q) \in 1..n /\ 100 * RankOf(q) >= q /\ 100 * (RankOf(q) - 1) < q
<1>1. q \in Nat /\ 1 <= q /\ q <= 100 * n
    OBVIOUS
<1> PICK k : k = (q + 99) \div 100
    OBVIOUS
<1>2. k \in Int /\ 100 * k <= q + 99 /\ q + 99 < 100 * k + 100
    BY <1>1
<1>3. 1 <= k /\ k <= n
    BY <1>1, <1>2
<1>4. Max({1, k}) = k
    <2>1. IsFiniteSet({1})
        BY FS_Singleton
    <2>2. IsFiniteSet({1} \cup {k})
        BY <2>1, FS_AddElement
    <2> PICK B : B = {1} \cup {k}
        OBVIOUS
    <2>3. B \in SUBSET Int /\ B # {} /\ IsFiniteSet(B) /\ B = {1, k}
        BY <1>2, <2>2
    <2>4. Max(B) \in B /\ \A y \in B : y <= Max(B)
        BY <2>3, MaxOfInts
    <2> QED BY <1>2, <1>3, <2>3, <2>4
<1>5. RankOf(q) = k
    BY <1>4 DEF RankOf
<1> QED
    BY <1>1, <1>2, <1>3, <1>5

(* Samples in ascending order. *)
Ascending(ms, n) ==
    /\ ms \in [1..n -> Int]
    /\ \A i, j \in 1..n : i < j => ms[i] <= ms[j]

(* A percentile is the sample of its nearest rank, and at most the largest. *)
LEMMA PercentileIsNearest ==
    ASSUME NEW n \in Nat, n > 0, NEW ms, Ascending(ms, n), Len(ms) = n, NEW p \in {50, 95, 99}
    PROVE  NearestRank(ms, p, Percentile(ms, p)) /\ Percentile(ms, p) <= ms[n]
<1> PICK q : q = p * n
    OBVIOUS
<1>0. q \in 1..(100 * n)
    <2>1. CASE p = 50 BY <2>1
    <2>2. CASE p = 95 BY <2>2
    <2>3. CASE p = 99 BY <2>3
    <2> QED BY <2>1, <2>2, <2>3
<1> PICK k : k = RankOf(q)
    OBVIOUS
<1>1. k \in 1..n /\ q \in Nat /\ 100 * k >= q /\ 100 * (k - 1) < q
    <2>1. RankOf(q) \in 1..n /\ 100 * RankOf(q) >= q /\ 100 * (RankOf(q) - 1) < q
        BY ONLY <1>0, RankBounds
    <2> QED BY <1>0, <2>1
<1>2. Percentile(ms, p) = ms[k]
    BY DEF Percentile, RankOf
<1>3. /\ DOMAIN ms = 1..n /\ \A i \in 1..n : ms[i] \in Int
      /\ \A i, j \in 1..n : i < j => ms[i] <= ms[j]
    BY DEF Ascending
<1> DEFINE below(v) == {i \in 1..n : ms[i] <= v}
<1>4. IsFiniteSet(1..n) /\ k \in Int /\ k - 1 \in Int
    <2>1. IsFiniteSet(1..n)
        BY FS_Interval
    <2> QED BY <1>1, <2>1
<1>5. \A v : IsFiniteSet(below(v)) /\ Cardinality(below(v)) \in Nat
    BY <1>4, FiniteCounts
<1>6. 100 * Cardinality(below(ms[k])) >= q
    <2>1. \A i \in 1..k : i \in 1..n /\ ms[i] <= ms[k]
        <3> SUFFICES ASSUME NEW i \in 1..k
                     PROVE  i \in 1..n /\ ms[i] <= ms[k]
            OBVIOUS
        <3>1. i \in 1..n /\ (i = k \/ i < k)
            BY <1>1
        <3> QED BY <1>1, <1>3, <3>1
    <2>2. 1..k \subseteq below(ms[k])
        BY <2>1
    <2>3. IsFiniteSet(1..k) /\ Cardinality(1..k) = k
        BY <1>1, <1>4, FS_Interval
    <2> PICK B : B = below(ms[k])
        OBVIOUS
    <2>4. IsFiniteSet(B) /\ Cardinality(B) \in Nat /\ 1..k \in SUBSET B
        BY <1>5, <2>2
    <2>5. k <= Cardinality(B)
        BY ONLY <2>3, <2>4, FS_Subset
    <2> PICK c : c = Cardinality(B)
        OBVIOUS
    <2>6. k <= c /\ c \in Nat /\ 100 * k >= q /\ q \in Nat /\ k \in Int
        BY <1>1, <1>4, <2>4, <2>5
    <2>7. 100 * c >= q
        BY ONLY <2>6
    <2> QED BY <2>7
<1>7. ASSUME NEW j \in 1..n, ms[j] < ms[k]
      PROVE  100 * Cardinality(below(ms[j])) < q
    <2>1. ASSUME NEW i \in 1..n, ms[i] <= ms[j]
          PROVE  i \in 1..(k - 1)
        <3>1. ms[i] < ms[k]
            BY <1>1, <1>3, <1>7, <2>1
        <3>2. i # k /\ ~(k < i)
            BY <1>1, <1>3, <3>1
        <3> QED BY <1>1, <3>2
    <2> PICK B : B = below(ms[j])
        OBVIOUS
    <2>2. B \in SUBSET (1..(k - 1)) /\ Cardinality(B) \in Nat
        BY <1>5, <2>1
    <2> PICK m : m = k - 1
        OBVIOUS
    <2>3. IsFiniteSet(1..m) /\ Cardinality(1..m) = m
        <3>1. m \in Int /\ ~(1 > m + 1)
            BY <1>1, <1>4
        <3>2. IsFiniteSet(1..m) /\ Cardinality(1..m) = IF 1 > m THEN 0 ELSE m - 1 + 1
            BY ONLY <3>1, FS_Interval
        <3> QED BY <3>1, <3>2
    <2>4. Cardinality(B) <= k - 1
        <3>1. B \in SUBSET (1..m)
            BY <2>2
        <3>2. Cardinality(B) <= m
            BY ONLY <2>3, <3>1, FS_Subset
        <3> QED BY <3>2
    <2> PICK c : c = Cardinality(B)
        OBVIOUS
    <2>5. c <= k - 1 /\ c \in Nat /\ 100 * (k - 1) < q /\ q \in Nat /\ k \in Int
        BY <1>1, <1>4, <2>2, <2>4
    <2>6. 100 * c < q
        BY ONLY <2>5
    <2> QED BY <2>6
<1>8. NearestRank(ms, p, ms[k])
    <2>1. \A v : {i \in DOMAIN ms : ms[i] <= v} = below(v)
        BY <1>3
    <2> HIDE DEF below
    <2>2. /\ \E i \in DOMAIN ms : ms[i] = ms[k]
          /\ 100 * Cardinality(below(ms[k])) >= p * Len(ms)
          /\ \A i \in DOMAIN ms : ms[i] < ms[k] => 100 * Cardinality(below(ms[i])) < p * Len(ms)
        <3>1. p * Len(ms) = q
            OBVIOUS
        <3> QED BY <1>1, <1>3, <1>6, <1>7, <3>1
    <2> QED BY <2>1, <2>2 DEF NearestRank
<1>9. ms[k] <= ms[n]
    <2>1. n \in 1..n /\ (k = n \/ k < n)
        BY <1>1
    <2> QED BY <1>1, <1>3, <2>1
<1> QED
    BY <1>2, <1>8, <1>9

(* Operations with integer durations. *)
IsOps(ops) == IsFiniteSet(ops) /\ \A o \in ops : o.duration \in Int

(* The figures of a set of n operations with the sorted durations ms. *)
AreFigures(ops, n, ms) ==
    /\ n \in Nat /\ Stats(ops).count = n
    /\ Ascending(ms, n) /\ Len(ms) = n
    /\ \A o \in ops : \E i \in 1..n : ms[i] = o.duration
    /\ \A i \in 1..n : \E o \in ops : ms[i] = o.duration
    /\ n > 0 => /\ Stats(ops).min = ms[1] /\ Stats(ops).max = ms[n]
                /\ Stats(ops).p50 = Percentile(ms, 50)
                /\ Stats(ops).p95 = Percentile(ms, 95)
                /\ Stats(ops).p99 = Percentile(ms, 99)

(* The statistics of operations are these figures. *)
LEMMA StatsOfOps ==
    ASSUME NEW ops, IsOps(ops)
    PROVE  AreFigures(ops, Cardinality(ops), Stats(ops).sample)
<1> PICK n, ms : n = Cardinality(ops) /\ ms = Stats(ops).sample
    OBVIOUS
<1> DEFINE key == [o \in ops |-> o.duration]
           s == SortedBy(ops, key)
           t == [i \in DOMAIN s |-> s[i].duration]
<1>1. \A o \in ops : key[o] \in Int /\ key[o] = o.duration
    BY DEF IsOps
<1>2. Stats(ops) = IF Len(t) = 0 THEN [count |-> 0, sample |-> t]
                   ELSE [count |-> Len(t), sample |-> t, min |-> t[1], max |-> t[Len(t)],
                         p50 |-> Percentile(t, 50), p95 |-> Percentile(t, 95),
                         p99 |-> Percentile(t, 99)]
    BY DEF Stats
<1>3. t = [i \in DOMAIN s |-> s[i].duration]
    OBVIOUS
<1> HIDE DEF key, s, t
<1>4. IsFiniteSet(ops) /\ n \in Nat
    BY FS_CardinalityType DEF IsOps
<1>5. IsListing(s, ops, key)
    BY <1>1, <1>4, SortedIsSorted DEF s
<1>6. /\ s \in [1..n -> ops]
      /\ \A x \in ops : \E i \in 1..n : s[i] = x
      /\ \A i, j \in 1..n : i < j => key[s[i]] <= key[s[j]]
    BY <1>5 DEF IsListing
<1>7. t \in [1..n -> Int] /\ \A i \in 1..n : s[i] \in ops /\ t[i] = s[i].duration /\ t[i] = key[s[i]]
    BY <1>1, <1>3, <1>6
<1>8. Ascending(t, n)
    BY <1>6, <1>7 DEF Ascending
<1>9. Len(t) = n
    BY <1>4, <1>7
<1>10. ms = t /\ Stats(ops).count = n
    BY <1>2, <1>9
<1>11. \A o \in ops : \E i \in 1..n : t[i] = o.duration
    BY <1>6, <1>7
<1>12. \A i \in 1..n : \E o \in ops : t[i] = o.duration
    BY <1>7
<1>13. n > 0 => /\ Stats(ops).min = t[1] /\ Stats(ops).max = t[n]
                /\ Stats(ops).p50 = Percentile(t, 50)
                /\ Stats(ops).p95 = Percentile(t, 95)
                /\ Stats(ops).p99 = Percentile(t, 99)
    BY <1>2, <1>4, <1>9
<1> QED
    BY <1>4, <1>8, <1>9, <1>10, <1>11, <1>12, <1>13 DEF AreFigures

-----------------------------------------------------------------------------
(* Operations *)

(* What the reports are computed from: a list of envelopes. *)
IsEvents(D) == IsFiniteSet(D) /\ UniqueIds(D) /\ \A e \in D : e.time \in Int

(* Its operations, and the ends that have a start. *)
OpsOf(D) == {Operation(p[1], p[2]) : p \in Pairs(D)}

PairedEnds(D) == {p[2] : p \in Pairs(D)}

(* A pair is a start and an end of one list. *)
LEMMA PairFacts ==
    ASSUME NEW D, NEW p \in Pairs(D)
    PROVE  /\ p[1] \in D /\ p[2] \in EndsOf(D) /\ p[2] \in D
           /\ p[2].causation_id = p[1].id
           /\ p[2].time >= p[1].time
           /\ Operation(p[1], p[2]).end = p[2].id
           /\ Operation(p[1], p[2]).duration = p[2].time - p[1].time
<1>1. /\ p \in StartsById(D) \X EndsOf(D)
      /\ p[2].causation_id = p[1].id /\ p[2].time >= p[1].time
    BY DEF Pairs
<1>2. p[1] \in StartsById(D) /\ p[2] \in EndsOf(D)
    BY <1>1
<1>3. p[1] \in D /\ p[2] \in D
    BY <1>2 DEF StartsById, EndsOf
<1>4. /\ Operation(p[1], p[2]).end = p[2].id
      /\ Operation(p[1], p[2]).duration = p[2].time - p[1].time
    BY DEF Operation
<1> QED
    BY <1>1, <1>2, <1>3, <1>4

(* Start ids are unique, so each end of a pair is one operation. *)
LEMMA OneOpPerEnd ==
    ASSUME NEW D, IsEvents(D)
    PROVE  /\ IsFiniteSet(OpsOf(D))
           /\ Cardinality(OpsOf(D)) = Cardinality(PairedEnds(D))
<1> DEFINE ops == OpsOf(D)
           paired == PairedEnds(D)
           f == [e \in paired |-> CHOOSE o \in ops : o.end = e.id]
<1>1. \A d, e \in D : d.id = e.id => d = e
    BY DEF IsEvents, UniqueIds
<1>2. paired \subseteq D
    BY PairFacts DEF PairedEnds
<1>3. ASSUME NEW o \in ops
      PROVE  \E e \in paired : o.end = e.id
    <2>1. PICK p \in Pairs(D) : o = Operation(p[1], p[2])
        BY DEF OpsOf
    <2>2. p[2] \in paired /\ o.end = p[2].id
        BY <2>1, PairFacts DEF PairedEnds
    <2> QED BY <2>2
<1>4. ASSUME NEW o \in ops, NEW q \in ops, o.end = q.end
      PROVE  o = q
    <2>1. PICK a \in Pairs(D) : o = Operation(a[1], a[2])
        BY DEF OpsOf
    <2>2. PICK b \in Pairs(D) : q = Operation(b[1], b[2])
        BY DEF OpsOf
    <2>3. /\ a[1] \in D /\ a[2] \in D /\ a[2].causation_id = a[1].id /\ o.end = a[2].id
          /\ b[1] \in D /\ b[2] \in D /\ b[2].causation_id = b[1].id /\ q.end = b[2].id
        BY <2>1, <2>2, PairFacts
    <2>4. a[2] = b[2]
        BY <1>1, <1>4, <2>3
    <2>5. a[1] = b[1]
        BY <1>1, <2>3, <2>4
    <2> QED BY <2>1, <2>2, <2>4, <2>5
<1>5. ASSUME NEW e \in paired
      PROVE  \E o \in ops : o.end = e.id
    <2>1. PICK p \in Pairs(D) : e = p[2]
        BY DEF PairedEnds
    <2>2. Operation(p[1], p[2]) \in ops /\ Operation(p[1], p[2]).end = e.id
        BY <2>1, PairFacts DEF OpsOf
    <2> QED BY <2>2
<1> HIDE DEF ops, paired
<1>6. \A e \in paired : f[e] \in ops /\ f[e].end = e.id
    BY <1>5
<1>7. f \in [paired -> ops] /\ \A d, e \in paired : f[d] = f[e] => d = e
    BY <1>1, <1>2, <1>6
<1>8. \A o \in ops : \E e \in paired : f[e] = o
    BY <1>3, <1>4, <1>6
<1> HIDE DEF f
<1>9. f \in Bijection(paired, ops)
    BY <1>7, <1>8 DEF Bijection, Injection, Surjection, IsInjective
<1>10. IsFiniteSet(paired)
    BY <1>2, FS_Subset DEF IsEvents
<1>11. ExistsBijection(paired, ops)
    BY <1>9 DEF ExistsBijection
<1>12. IsFiniteSet(ops) /\ Cardinality(ops) = Cardinality(paired)
    BY <1>10, <1>11, FS_Bijection
<1> QED
    BY <1>12 DEF ops, paired

(* The operations of a list have durations, none negative. *)
LEMMA OpsOfEvents ==
    ASSUME NEW D, IsEvents(D)
    PROVE  IsOps(OpsOf(D)) /\ \A o \in OpsOf(D) : o.duration >= 0
<1>1. ASSUME NEW o \in OpsOf(D)
      PROVE  o.duration \in Int /\ o.duration >= 0
    <2>1. PICK p \in Pairs(D) : o = Operation(p[1], p[2])
        BY DEF OpsOf
    <2> PICK x, y : x = p[1].time /\ y = p[2].time
        OBVIOUS
    <2>2. p[1] \in D /\ p[2] \in D /\ y >= x /\ o.duration = y - x
        BY <2>1, PairFacts
    <2>3. x \in Int /\ y \in Int
        BY <2>2 DEF IsEvents
    <2> QED BY <2>2, <2>3
<1> QED
    BY <1>1, OneOpPerEnd DEF IsOps

(* The statistics of operations count them. *)
LEMMA CountOfOps ==
    ASSUME NEW ops, IsOps(ops)
    PROVE  Stats(ops).count = Cardinality(ops) /\ Cardinality(ops) \in Nat
BY StatsOfOps DEF AreFigures

(* A breakdown of the operations has each of them in one group. *)
LEMMA BreakdownAddsUp ==
    ASSUME NEW ops, IsOps(ops), NEW key, key \in [ops -> Range(key)]
    PROVE  TotalCount(GroupStats(key)) = Cardinality(ops)
<1> DEFINE group(k) == {o \in ops : key[o] = k}
           f == [k \in Range(key) |-> Stats(group(k)).count]
<1>1. \A k : IsOps(group(k))
    BY FS_Subset DEF IsOps
<1>2. \A k : Stats(group(k)).count = Cardinality(group(k)) /\ Cardinality(group(k)) \in Nat
    <2> HIDE DEF group
    <2> QED BY <1>1, CountOfOps
<1>3. f \in [Range(key) -> Int] /\ \A k \in Range(key) : f[k] = Cardinality(group(k))
    <2> HIDE DEF group
    <2> QED BY <1>2
<1>4. GroupStats(key) = [k \in Range(key) |-> Stats(group(k))]
    BY DEF GroupStats
<1>5. TotalCount(GroupStats(key)) = SumFunction(f)
    BY <1>4 DEF TotalCount
<1>6. IsFiniteSet(ops)
    BY DEF IsOps
<1> HIDE DEF f
<1>7. SumFunction(f) = Cardinality(ops)
    BY <1>3, <1>6, ValuesAddUp
<1> QED
    BY <1>5, <1>7

(* The latency report accounts for every end event. *)
LEMMA PerformanceOfEvents ==
    ASSUME NEW D, IsEvents(D)
    PROVE  PerformanceAddsUp(D)
<1> PICK ops, n : ops = OpsOf(D) /\ n = Cardinality(ops)
    OBVIOUS
<1> PICK r : r = SummarizePerformance(D)
    OBVIOUS
<1> DEFINE source == [o \in ops |-> o.source]
           session == [o \in ops |-> o.session]
           oper == [o \in ops |-> o.op]
<1>1. /\ r.total_operations = n
      /\ r.unmatched_ends = Cardinality(EndsOf(D) \ PairedEnds(D))
      /\ r.overall = Stats(ops)
      /\ r.by_agent = GroupStats(source)
      /\ r.by_session = GroupStats(session)
      /\ r.by_operation = GroupStats(oper)
    BY DEF SummarizePerformance, OpsOf, PairedEnds
<1>2. IsOps(ops) /\ (\A o \in ops : o.duration >= 0) /\ n = Cardinality(PairedEnds(D))
    BY OpsOfEvents, OneOpPerEnd
<1>3. n + r.unmatched_ends = Cardinality(EndsOf(D))
    <2> PICK A, B, E : A = PairedEnds(D) /\ B = EndsOf(D) \ PairedEnds(D) /\ E = EndsOf(D)
        OBVIOUS
    <2>1. A \subseteq E
        BY PairFacts DEF PairedEnds
    <2>2. IsFiniteSet(E) /\ A \cap B = {} /\ A \cup B = E
        <3>1. IsFiniteSet(E)
            BY FS_Subset DEF EndsOf, IsEvents
        <3> QED BY <2>1, <3>1
    <2>3. Cardinality(A) + Cardinality(B) = Cardinality(E)
        BY ONLY <2>2, HalvesAddUp
    <2> QED BY <1>1, <1>2, <2>3
<1>4. source \in [ops -> Range(source)] /\ session \in [ops -> Range(session)]
      /\ oper \in [ops -> Range(oper)]
    BY DEF Range
<1> HIDE DEF source, session, oper
<1>5. TotalCount(r.by_agent) = n
    BY <1>1, <1>2, <1>4, BreakdownAddsUp
<1>6. TotalCount(r.by_session) = n
    BY <1>1, <1>2, <1>4, BreakdownAddsUp
<1>7. TotalCount(r.by_operation) = n
    BY <1>1, <1>2, <1>4, BreakdownAddsUp
<1> PICK ms : ms = Stats(ops).sample
    OBVIOUS
<1>8. /\ n \in Nat /\ Ascending(ms, n) /\ Len(ms) = n
      /\ \A i \in 1..n : \E o \in ops : ms[i] = o.duration
      /\ n > 0 => /\ Stats(ops).min = ms[1] /\ Stats(ops).max = ms[n]
                  /\ Stats(ops).p50 = Percentile(ms, 50)
                  /\ Stats(ops).p95 = Percentile(ms, 95)
                  /\ Stats(ops).p99 = Percentile(ms, 99)
    <2>1. AreFigures(ops, n, ms)
        BY <1>2, StatsOfOps
    <2> QED BY <2>1 DEF AreFigures
<1>9. ASSUME n > 0
      PROVE  /\ r.overall.min >= 0
             /\ NearestRank(r.overall.sample, 50, r.overall.p50)
             /\ NearestRank(r.overall.sample, 95, r.overall.p95)
             /\ NearestRank(r.overall.sample, 99, r.overall.p99)
             /\ r.overall.p99 <= r.overall.max
    <2>1. ms[1] >= 0
        BY <1>2, <1>8, <1>9
    <2>2. \A p \in {50, 95, 99} : NearestRank(ms, p, Percentile(ms, p)) /\ Percentile(ms, p) <= ms[n]
        BY <1>8, <1>9, PercentileIsNearest
    <2> QED BY <1>1, <1>8, <1>9, <2>1, <2>2
<1> QED
    BY <1>1, <1>3, <1>5, <1>6, <1>7, <1>9 DEF PerformanceAddsUp

-----------------------------------------------------------------------------
(* Medians *)

(* At most half of the values are above the median, which is held twice. *)
LEMMA MedianIsMiddle ==
    ASSUME NEW D, IsFiniteSet(D), NEW vals \in [D -> Int]
    PROVE  /\ Median2(vals) \in Int
           /\ (\A u \in D : vals[u] >= 0) => Median2(vals) >= 0
           /\ 2 * Cardinality({u \in D : 2 * vals[u] > Median2(vals)}) <= Cardinality(D)
<1> PICK n, s, m : n = Cardinality(D) /\ s = SortedBy(D, vals) /\ m = n \div 2
    OBVIOUS
<1> PICK med : med = Median2(vals)
    OBVIOUS
<1>1. n \in Nat
    BY FS_CardinalityType
<1>2. m \in Nat /\ n - m \in Nat /\ (n = 2 * m \/ n = 2 * m + 1)
    BY <1>1
<1>3. /\ s \in [1..n -> D]
      /\ \A x \in D : \E i \in 1..n : s[i] = x
      /\ \A i, j \in 1..n : i < j => vals[s[i]] <= vals[s[j]]
    <2>1. IsListing(s, D, vals)
        BY SortedIsSorted
    <2> QED BY <2>1 DEF IsListing
<1> DEFINE v(i) == vals[s[i]]
<1>4. \A i \in 1..n : v(i) \in Int /\ s[i] \in D
    BY <1>3
<1>5. med = IF n = 0 THEN 0
            ELSE IF n % 2 = 1 THEN 2 * v(m + 1) ELSE v(m) + v(m + 1)
    BY DEF Median2
<1> HIDE DEF v
<1>6. /\ med \in Int
      /\ \A i \in 1..(n - m) : 2 * v(i) <= med
      /\ (\A i \in 1..n : v(i) >= 0) => med >= 0
    <2>0. \A i, j \in 1..n : i <= j => v(i) <= v(j)
        BY <1>1, <1>3, <1>4 DEF v
    <2>1. CASE n = 0
        <3>1. med = 0 /\ n - m = 0
            BY <1>2, <1>5, <2>1
        <3> QED BY <3>1
    <2>2. CASE n # 0 /\ n = 2 * m
        <3>0. n % 2 = 0
            BY <1>2, <2>2
        <3>1. ~(n % 2 = 1) /\ m \in 1..n /\ m + 1 \in 1..n /\ n - m = m
            BY ONLY <1>1, <1>2, <2>2, <3>0
        <3>2. med = v(m) + v(m + 1) /\ v(m) \in Int /\ v(m + 1) \in Int /\ v(m) <= v(m + 1)
            BY <1>2, <1>4, <1>5, <2>0, <2>2, <3>1
        <3>3. ASSUME NEW i \in 1..m
              PROVE  2 * v(i) <= med
            <4>1. i \in 1..n /\ i <= m
                BY <1>2, <2>2
            <4>2. v(i) \in Int /\ v(i) <= v(m)
                BY <1>4, <2>0, <3>1, <4>1
            <4> QED BY <3>2, <4>2
        <3> QED BY <3>1, <3>2, <3>3
    <2>3. CASE n = 2 * m + 1
        <3>1. n % 2 = 1 /\ m + 1 \in 1..n /\ n - m = m + 1 /\ n # 0
            BY <1>1, <1>2, <2>3
        <3>2. med = 2 * v(m + 1) /\ v(m + 1) \in Int
            BY <1>4, <1>5, <3>1
        <3>3. ASSUME NEW i \in 1..(m + 1)
              PROVE  2 * v(i) <= med
            <4>1. i \in 1..n /\ i <= m + 1
                BY <1>2, <2>3
            <4>2. v(i) \in Int /\ v(i) <= v(m + 1)
                BY <1>4, <2>0, <3>1, <4>1
            <4> QED BY <3>2, <4>2
        <3> QED BY <3>1, <3>2, <3>3
    <2> QED BY <1>2, <2>1, <2>2, <2>3
<1>7. (\A u \in D : vals[u] >= 0) => med >= 0
    BY <1>4, <1>6 DEF v
<1>8. 2 * Cardinality({u \in D : 2 * vals[u] > med}) <= n
    <2> DEFINE J == (n - m + 1)..n
               A == {u \in D : 2 * vals[u] > med}
               f == [i \in J |-> s[i]]
    <2>1. IsFiniteSet(J) /\ Cardinality(J) = m
        <3> PICK a : a = n - m + 1
            OBVIOUS
        <3>0. a = n - m + 1
            OBVIOUS
        <3>1. a \in Int /\ n \in Int /\ n - a + 1 = m /\ (a > n => m = 0)
            BY ONLY <1>1, <1>2, <3>0
        <3>2. IsFiniteSet(a..n) /\ Cardinality(a..n) = IF a > n THEN 0 ELSE n - a + 1
            BY <3>1, FS_Interval
        <3> QED BY <3>1, <3>2
    <2> PICK V : V = {s[i] : i \in J}
        OBVIOUS
    <2>2. f \in Surjection(J, V)
        BY DEF Surjection
    <2>3. ASSUME NEW u \in A
          PROVE  u \in V
        <3>1. u \in D /\ 2 * vals[u] > med
            OBVIOUS
        <3>2. PICK i \in 1..n : s[i] = u
            BY <1>3, <3>1
        <3>3. i \notin 1..(n - m)
            <4> SUFFICES ASSUME i \in 1..(n - m)
                         PROVE  FALSE
                OBVIOUS
            <4>1. 2 * v(i) <= med /\ v(i) = vals[u] /\ v(i) \in Int
                BY <1>4, <1>6, <3>2 DEF v
            <4> QED BY <1>6, <3>1, <4>1
        <3>4. i \in J
            BY <1>1, <1>2, <3>3
        <3> QED BY <3>2, <3>4
    <2> HIDE DEF J, A, f
    <2>4. IsFiniteSet(V) /\ Cardinality(V) <= m
        BY <2>1, <2>2, FS_Surjection
    <2>5. A \subseteq V
        BY <2>3
    <2>6. IsFiniteSet(A) /\ Cardinality(A) <= Cardinality(V)
        BY <2>4, <2>5, FS_Subset
    <2>7. Cardinality(A) \in Nat /\ Cardinality(V) \in Nat
        BY <2>4, <2>6, FS_CardinalityType
    <2>8. 2 * Cardinality(A) <= n
        BY <1>1, <1>2, <2>4, <2>6, <2>7
    <2> QED BY <2>8 DEF A
<1> QED
    BY <1>6, <1>7, <1>8

(* Arithmetic that the cutoff needs: products, *)
LEMMA ProductOfNats ==
    ASSUME NEW a \in Nat, NEW b \in Nat
    PROVE  a * b \in Nat
OBVIOUS

(* and what exceeds a bound does so when it grows. *)
LEMMA LargerScales ==
    ASSUME NEW c \in Nat, NEW b \in Nat, NEW d \in Int, NEW e \in Int, e >= d, c * d > b
    PROVE  d > 0 /\ c * e > b
<1>1. d > 0
    <2> SUFFICES ASSUME d <= 0
                 PROVE  FALSE
        OBVIOUS
    <2>1. c * (-d) \in Nat
        BY ProductOfNats
    <2>2. c * (-d) = -(c * d) /\ c * d \in Int
        OBVIOUS
    <2> QED BY <2>1, <2>2
<1>2. c * e > b
    <2>1. c * (e - d) \in Nat
        BY ProductOfNats
    <2>2. c * (e - d) = c * e - c * d /\ c * e \in Int /\ c * d \in Int
        OBVIOUS
    <2> QED BY <2>1, <2>2
<1> QED
    BY <1>1, <1>2

(* A value that exceeds the cutoff is above the median, and larger ones exceed *)
(* it too.                                                                     *)
LEMMA ExceedsIsAbove ==
    ASSUME NEW D, IsFiniteSet(D), NEW vals \in [D -> Int], NEW v \in Int, Exceeds(vals, v)
    PROVE  /\ Cardinality(D) >= MinSamples
           /\ 2 * v > Median2(vals)
           /\ \A w \in Int : w >= v => Exceeds(vals, w)
<1> PICK med, n : med = Median2(vals) /\ n = Cardinality(D)
    OBVIOUS
<1> PICK dev : dev = [t \in DOMAIN vals |-> Abs(2 * vals[t] - Median2(vals))]
    OBVIOUS
<1> PICK mad, sum : mad = Median2(dev) /\ sum = SumFunction(dev)
    OBVIOUS
<1>1. med \in Int /\ n \in Nat /\ Cutoff \in Nat
    BY MedianIsMiddle, FS_CardinalityType, ReportAssumption
<1>2. dev \in [D -> Int] /\ \A t \in D : dev[t] >= 0
    BY <1>1 DEF Abs
<1>3. mad \in Int /\ mad >= 0
    BY <1>2, MedianIsMiddle
<1>4. sum \in Int
    <2>1. \A x \in D : dev[x] \in Int
        BY <1>2
    <2>2. PICK h : SumFunctionOnSet(dev, D) = h[D] /\ AddsEach(D, dev, h)
        BY <2>1, SumOfSets
    <2>3. h[D] \in Int
        BY <2>2 DEF AddsEach
    <2>4. sum = SumFunctionOnSet(dev, D)
        BY <1>2 DEF SumFunction
    <2> QED BY <2>2, <2>3, <2>4
<1> DEFINE Beyond(w) == IF mad > 0
                       THEN 200000 * (2 * w - med) > Cutoff * 14826 * mad
                       ELSE 100000 * n * (2 * w - med) > Cutoff * 12533 * sum
<1>5. \A w : Exceeds(vals, w) <=> n >= MinSamples /\ sum > 0 /\ Beyond(w)
    BY DEF Exceeds
<1>6. n >= MinSamples /\ sum > 0 /\ Beyond(v)
    BY <1>5
<1>7. Cutoff * 14826 * mad \in Nat /\ Cutoff * 12533 * sum \in Nat /\ 100000 * n \in Nat
    <2>1. Cutoff * 14826 \in Nat /\ Cutoff * 12533 \in Nat /\ mad \in Nat /\ sum \in Nat
        BY <1>1, <1>3, <1>4, <1>6
    <2>2. Cutoff * 14826 * mad \in Nat
        BY ONLY <2>1, ProductOfNats
    <2>3. Cutoff * 12533 * sum \in Nat
        BY ONLY <2>1, ProductOfNats
    <2> QED BY <1>1, <2>2, <2>3
<1>8. ASSUME NEW w \in Int, w >= v
      PROVE  2 * v > med /\ Beyond(w)
    <2> PICK d, e : d = 2 * v - med /\ e = 2 * w - med
        OBVIOUS
    <2>1. d \in Int /\ e \in Int /\ e >= d
        BY <1>1, <1>8
    <2>2. CASE mad > 0
        <3> PICK b, c : b = Cutoff * 14826 * mad /\ c = 200000
            OBVIOUS
        <3>1. b \in Nat /\ c \in Nat /\ c * d > b
            BY <1>6, <1>7, <2>2
        <3>2. d > 0 /\ c * e > b
            BY ONLY <2>1, <3>1, LargerScales
        <3> QED BY <1>1, <2>2, <3>2
    <2>3. CASE ~(mad > 0)
        <3> PICK b, c : b = Cutoff * 12533 * sum /\ c = 100000 * n
            OBVIOUS
        <3>1. b \in Nat /\ c \in Nat /\ c * d > b
            BY <1>6, <1>7, <2>3
        <3>2. d > 0 /\ c * e > b
            BY ONLY <2>1, <3>1, LargerScales
        <3> QED BY <1>1, <2>3, <3>2
    <2> QED BY <2>2, <2>3
<1> HIDE DEF Beyond
<1>9. 2 * v > med
    BY <1>8
<1>10. \A w \in Int : w >= v => Exceeds(vals, w)
    BY <1>5, <1>6, <1>8
<1> QED
    BY <1>6, <1>9, <1>10

-----------------------------------------------------------------------------
(* Anomalies *)

(* The slowest operation of a list is one of its operations. *)
LEMMA LatencyOfEvents ==
    ASSUME NEW D, IsEvents(D)
    PROVE  /\ MaxOperationLatency(D) \in Int
           /\ \/ MaxOperationLatency(D) = 0
              \/ \E o \in OpsOf(D) : o.duration = MaxOperationLatency(D)
<1> DEFINE L == {p[2].time - p[1].time : p \in Pairs(D)}
           f == [o \in OpsOf(D) |-> o.duration]
<1>1. L = {o.duration : o \in OpsOf(D)}
    <2>1. \A p \in Pairs(D) : Operation(p[1], p[2]).duration = p[2].time - p[1].time
        BY PairFacts
    <2> QED BY <2>1 DEF OpsOf
<1>2. f \in Surjection(OpsOf(D), L)
    <2> HIDE DEF L
    <2> QED BY <1>1 DEF Surjection
<1> HIDE DEF L, f
<1>3. IsFiniteSet(OpsOf(D)) /\ \A o \in OpsOf(D) : o.duration \in Int
    BY OpsOfEvents DEF IsOps
<1>4. IsFiniteSet(L)
    BY <1>2, <1>3, FS_Surjection
<1>5. IsFiniteSet(L \cup {0})
    BY <1>4, FS_AddElement
<1> PICK B : B = L \cup {0}
    OBVIOUS
<1>6. B \in SUBSET Int /\ IsFiniteSet(B) /\ B # {}
    BY <1>1, <1>3, <1>5
<1>7. Max(B) \in B
    BY <1>6, MaxOfInts
<1>8. MaxOperationLatency(D) = Max(B)
    <2>1. B = {0} \cup L
        OBVIOUS
    <2> QED BY <2>1 DEF MaxOperationLatency, L
<1> QED
    BY <1>1, <1>6, <1>7, <1>8

(* The metrics of a trace are integers. *)
LEMMA MetricsAreInts ==
    ASSUME NEW D, IsEvents(D), D # {}, NEW m \in Metrics
    PROVE  TraceMetrics(D)[m] \in Int
<1>1. \A A \in SUBSET D : Cardinality(A) \in Nat
    BY FiniteCounts DEF IsEvents
<1> PICK errors, blocked, n : /\ errors = Cardinality({e \in D : e.type \in ErrorTypes})
                              /\ blocked = Cardinality({e \in D : e.type = "policy.blocked"})
                              /\ n = Cardinality(D)
    OBVIOUS
<1>2. errors \in Nat /\ blocked \in Nat /\ n \in Nat
    BY <1>1
<1>3. n # 0
    BY FS_EmptySet DEF IsEvents
<1>4. (RateScale * errors) \div n \in Int
    <2>1. RateScale * errors \in Nat
        BY <1>2, ReportAssumption, ProductOfNats
    <2> PICK a : a = RateScale * errors
        OBVIOUS
    <2>2. a \in Nat /\ n \in Nat /\ n # 0
        BY <1>2, <1>3, <2>1
    <2>3. a \div n \in Int
        BY ONLY <2>2
    <2> QED BY <2>3
<1>5. MaxOperationLatency(D) \in Int
    BY LatencyOfEvents
<1>6. TraceMetrics(D) = [error_rate           |-> (RateScale * errors) \div n,
                         policy_blocked_count |-> blocked,
                         latency_max_ms       |-> MaxOperationLatency(D)]
    BY DEF TraceMetrics
<1>7. m \in {"error_rate", "policy_blocked_count", "latency_max_ms"}
    BY DEF Metrics
<1> QED
    BY <1>2, <1>4, <1>5, <1>6, <1>7

TracesOf(D) == {e.trace_id : e \in D}

OfTrace(D, t) == {e \in D : e.trace_id = t}

(* A list has finitely many traces, none empty. *)
LEMMA TracesOfEvents ==
    ASSUME NEW D, IsEvents(D)
    PROVE  /\ IsFiniteSet(TracesOf(D))
           /\ \A t \in TracesOf(D) : IsEvents(OfTrace(D, t)) /\ OfTrace(D, t) # {}
<1> DEFINE f == [e \in D |-> e.trace_id]
<1>1. f \in Surjection(D, TracesOf(D))
    BY DEF Surjection, TracesOf
<1>2. IsFiniteSet(TracesOf(D))
    BY <1>1, FS_Surjection DEF IsEvents
<1>3. \A t \in TracesOf(D) : OfTrace(D, t) # {}
    BY DEF TracesOf, OfTrace
<1>4. \A t : IsEvents(OfTrace(D, t))
    BY FS_Subset DEF IsEvents, OfTrace, UniqueIds
<1> QED
    BY <1>2, <1>3, <1>4

(* The values of one metric, and the metrics on which a trace stands out. *)
ColumnOf(D, m) == [t \in TracesOf(D) |-> TraceMetrics(OfTrace(D, t))[m]]

Spikes(D, t) == {m \in Metrics : Exceeds(ColumnOf(D, m), TraceMetrics(OfTrace(D, t))[m])}

(* An anomaly report has the metrics of every trace, and its spikes if any. *)
LEMMA AnomalyParts ==
    ASSUME NEW D
    PROVE  LET r == DetectAnomalies(D) IN
           /\ r.metrics = [t \in TracesOf(D) |-> TraceMetrics(OfTrace(D, t))]
           /\ r.flags = [t \in {u \in TracesOf(D) : Spikes(D, u) # {}} |-> Spikes(D, t)]
<1> DEFINE metrics == [t \in TracesOf(D) |-> TraceMetrics(OfTrace(D, t))]
           column(m) == [t \in TracesOf(D) |-> metrics[t][m]]
           flags == [t \in TracesOf(D) |-> {m \in Metrics : Exceeds(column(m), metrics[t][m])}]
           r == DetectAnomalies(D)
<1>1. /\ r.metrics = metrics
      /\ r.flags = [t \in {u \in TracesOf(D) : flags[u] # {}} |-> flags[t]]
    BY DEF DetectAnomalies, TracesOf, OfTrace
<1>2. \A m : column(m) = ColumnOf(D, m)
    BY DEF ColumnOf
<1>3. \A t \in TracesOf(D) : flags[t] = Spikes(D, t)
    <2> HIDE DEF column
    <2> QED BY <1>2 DEF Spikes
<1> HIDE DEF flags, r
<1>4. {u \in TracesOf(D) : flags[u] # {}} = {u \in TracesOf(D) : Spikes(D, u) # {}}
    BY <1>3
<1>5. r.flags = [t \in {u \in TracesOf(D) : Spikes(D, u) # {}} |-> Spikes(D, t)]
    BY <1>1, <1>3, <1>4
<1> QED
    BY <1>1, <1>5 DEF r

(* Only spikes are flagged. *)
LEMMA SpikesStandOut ==
    ASSUME NEW D, IsEvents(D)
    PROVE  AnomaliesAreSpikes(D)
<1> PICK r, T, n : r = DetectAnomalies(D) /\ T = TracesOf(D) /\ n = Cardinality(TracesOf(D))
    OBVIOUS
<1>1. IsFiniteSet(T) /\ n \in Nat /\ MinSamples \in Nat
    BY TracesOfEvents, FS_CardinalityType, ReportAssumption
<1>0. /\ r.metrics = [t \in T |-> TraceMetrics(OfTrace(D, t))]
      /\ r.flags = [t \in {u \in T : Spikes(D, u) # {}} |-> Spikes(D, t)]
    BY AnomalyParts
<1> DEFINE value(t, m) == TraceMetrics(OfTrace(D, t))[m]
<1>2. \A m \in Metrics : \A t \in T : value(t, m) \in Int
    BY TracesOfEvents, MetricsAreInts
<1>3. DOMAIN r.metrics = T /\ \A t \in T : \A m : r.metrics[t][m] = value(t, m)
    BY <1>0
<1>4. /\ DOMAIN r.flags = {t \in T : Spikes(D, t) # {}}
      /\ \A t \in DOMAIN r.flags : r.flags[t] = Spikes(D, t)
    BY <1>0
<1>5. \A m \in Metrics : /\ ColumnOf(D, m) \in [T -> Int]
                         /\ \A t \in T : ColumnOf(D, m)[t] = value(t, m)
    BY <1>2 DEF ColumnOf
<1>6. \A t, m : m \in Spikes(D, t) <=> m \in Metrics /\ Exceeds(ColumnOf(D, m), value(t, m))
    BY DEF Spikes
<1> HIDE DEF value
<1>7. ASSUME NEW t \in T, NEW m \in Spikes(D, t)
      PROVE  /\ n >= MinSamples /\ m \in Metrics
             /\ 2 * value(t, m) > Median2(ColumnOf(D, m))
             /\ \A w \in Int : w >= value(t, m) => Exceeds(ColumnOf(D, m), w)
    <2> PICK vals, v : vals = ColumnOf(D, m) /\ v = value(t, m)
        OBVIOUS
    <2>1. m \in Metrics /\ vals \in [T -> Int] /\ v \in Int /\ Exceeds(vals, v)
        BY <1>2, <1>5, <1>6
    <2>2. /\ Cardinality(T) >= MinSamples /\ 2 * v > Median2(vals)
          /\ \A w \in Int : w >= v => Exceeds(vals, w)
        BY ONLY <1>1, <2>1, ExceedsIsAbove
    <2> QED BY <2>1, <2>2
<1>8. ASSUME n < MinSamples
      PROVE  DOMAIN r.flags = {}
    <2> SUFFICES ASSUME NEW t \in DOMAIN r.flags
                 PROVE  FALSE
        OBVIOUS
    <2>1. PICK m : m \in Spikes(D, t) /\ t \in T
        BY <1>4
    <2>2. n >= MinSamples
        BY <1>7, <2>1
    <2> QED BY <1>1, <1>8, <2>2
<1>9. ASSUME NEW t \in DOMAIN r.flags, NEW m \in r.flags[t]
      PROVE  2 * Cardinality({u \in T : value(u, m) >= value(t, m)}) <= n
    <2>1. t \in T /\ m \in Spikes(D, t)
        BY <1>4
    <2> PICK vals, med : vals = ColumnOf(D, m) /\ med = Median2(ColumnOf(D, m))
        OBVIOUS
    <2>2. m \in Metrics /\ 2 * value(t, m) > med
        BY <1>7, <2>1
    <2>3. vals \in [T -> Int] /\ \A u \in T : vals[u] = value(u, m) /\ value(u, m) \in Int
        BY <1>2, <1>5, <2>2
    <2> PICK A, B : /\ A = {u \in T : value(u, m) >= value(t, m)}
                    /\ B = {u \in T : 2 * vals[u] > med}
        OBVIOUS
    <2>4. med \in Int /\ 2 * Cardinality(B) <= n
        BY <1>1, <2>3, MedianIsMiddle
    <2>5. ASSUME NEW u \in A
          PROVE  u \in B
        <3>1. u \in T /\ value(u, m) >= value(t, m) /\ value(u, m) \in Int /\ value(t, m) \in Int
            BY <2>1, <2>3
        <3>2. 2 * value(u, m) > med
            BY <2>2, <2>4, <3>1
        <3> QED BY <2>3, <3>1, <3>2
    <2>6. IsFiniteSet(B) /\ A \in SUBSET B
        BY <1>1, <2>5, FS_Subset
    <2>7. Cardinality(A) <= Cardinality(B) /\ Cardinality(A) \in Nat /\ Cardinality(B) \in Nat
        BY ONLY <2>6, FiniteCounts
    <2>8. 2 * Cardinality(A) <= n
        BY <1>1, <2>4, <2>7
    <2> QED BY <2>8
<1>10. ASSUME NEW m \in Metrics, NEW t \in DOMAIN r.flags, m \in r.flags[t],
              NEW u \in T, value(u, m) > value(t, m)
       PROVE  u \in DOMAIN r.flags /\ m \in r.flags[u]
    <2>1. t \in T /\ m \in Spikes(D, t)
        BY <1>4, <1>10
    <2>2. value(u, m) \in Int /\ value(t, m) \in Int /\ value(u, m) >= value(t, m)
        BY <1>2, <1>10, <2>1
    <2>3. Exceeds(ColumnOf(D, m), value(u, m))
        BY <1>7, <2>1, <2>2
    <2>4. m \in Spikes(D, u)
        BY <1>6, <2>3
    <2> QED BY <1>4, <2>4
<1>11. ASSUME NEW t \in T, r.metrics[t].latency_max_ms > 0
       PROVE  r.metrics[t].latency_max_ms <= SummarizePerformance(D).overall.max
    <2> PICK P, x, ops, k, ms : /\ P = OfTrace(D, t) /\ x = MaxOperationLatency(P)
                                /\ ops = OpsOf(D) /\ k = Cardinality(ops)
                                /\ ms = Stats(ops).sample
        OBVIOUS
    <2>1. r.metrics[t].latency_max_ms = x
        <3>1. r.metrics[t] = TraceMetrics(P)
            BY <1>0
        <3>2. TraceMetrics(P).latency_max_ms = x
            BY DEF TraceMetrics
        <3> QED BY <3>1, <3>2
    <2>2. IsEvents(P)
        BY TracesOfEvents
    <2>3. x \in Int /\ x # 0 /\ (x = 0 \/ \E o \in OpsOf(P) : o.duration = x)
        BY <1>11, <2>1, <2>2, LatencyOfEvents
    <2>4. OpsOf(P) \subseteq OpsOf(D)
        <3>1. Pairs(P) \subseteq Pairs(D)
            BY DEF Pairs, StartsById, EndsOf, OfTrace
        <3> QED BY <3>1 DEF OpsOf
    <2>5. PICK o \in ops : o.duration = x
        BY <2>3, <2>4
    <2>6. AreFigures(ops, k, ms)
        BY OpsOfEvents, StatsOfOps
    <2>7. /\ k \in Nat
          /\ \A p \in ops : \E i \in 1..k : ms[i] = p.duration
          /\ \A i \in 1..k : ms[i] \in Int
          /\ \A i, j \in 1..k : i < j => ms[i] <= ms[j]
          /\ k > 0 => Stats(ops).max = ms[k]
        BY ONLY <2>6 DEF AreFigures, Ascending
    <2>8. PICK i \in 1..k : ms[i] = x
        BY <2>5, <2>7
    <2>9. k \in 1..k /\ k > 0 /\ (i = k \/ i < k)
        BY <2>7
    <2>10. x <= ms[k]
        BY <2>3, <2>7, <2>8, <2>9
    <2>11. SummarizePerformance(D).overall = Stats(ops)
        BY DEF SummarizePerformance, OpsOf
    <2> QED BY <2>1, <2>7, <2>9, <2>10, <2>11
<1>12. \A m \in Metrics, t \in DOMAIN r.flags : m \in r.flags[t] =>
          2 * Cardinality({u \in DOMAIN r.metrics : r.metrics[u][m] >= r.metrics[t][m]}) <= n
    <2> SUFFICES ASSUME NEW m \in Metrics, NEW t \in DOMAIN r.flags, m \in r.flags[t]
                 PROVE  2 * Cardinality({u \in DOMAIN r.metrics :
                                            r.metrics[u][m] >= r.metrics[t][m]}) <= n
        OBVIOUS
    <2>1. t \in T
        BY <1>4
    <2>2. {u \in DOMAIN r.metrics : r.metrics[u][m] >= r.metrics[t][m]}
          = {u \in T : value(u, m) >= value(t, m)}
        BY <1>3, <2>1
    <2> QED BY <1>9, <2>2
<1>13. \A m \in Metrics : \A t \in {t \in DOMAIN r.flags : m \in r.flags[t]}, u \in DOMAIN r.metrics :
          r.metrics[u][m] > r.metrics[t][m] => u \in {x \in DOMAIN r.flags : m \in r.flags[x]}
    <2>1. \A t \in DOMAIN r.flags : t \in T
        BY <1>4
    <2> QED BY <1>3, <1>10, <2>1
<1>14. n = Cardinality(DOMAIN r.metrics)
    BY <1>3
<1> QED
    BY <1>3, <1>8, <1>11, <1>12, <1>13, <1>14 DEF AnomaliesAreSpikes

-----------------------------------------------------------------------------
(* Reports of a store *)

(* Every part of a world is such a list. *)
LEMMA EventsOfWorld ==
    ASSUME NEW w \in Worlds, NEW D \in SUBSET w
    PROVE  IsEvents(D)
<1>1. IsFiniteSet(D)
    BY WorldFacts, FS_Subset
<1>2. UniqueIds(D) /\ \A e \in D : e.time \in Int
    BY WorldFacts DEF UniqueIds
<1> QED
    BY <1>1, <1>2 DEF IsEvents

(* The blocked events are counted in their traces, each once. *)
LEMMA BlockedInTraces ==
    ASSUME NEW D, IsEvents(D), NEW blocked, blocked = {e \in D : e.type = "policy.blocked"},
           NEW f, f = [t \in TracesOf(D) |-> TraceMetrics(OfTrace(D, t)).policy_blocked_count]
    PROVE  SumFunction(f) = Cardinality(blocked)
<1> DEFINE k == [e \in blocked |-> e.trace_id]
<1>1. IsFiniteSet(TracesOf(D)) /\ IsFiniteSet(blocked)
    BY TracesOfEvents, FS_Subset DEF IsEvents
<1>2. \A e \in blocked : k[e] \in TracesOf(D)
    BY DEF TracesOf
<1>3. \A t \in TracesOf(D) : f[t] = Cardinality({e \in blocked : k[e] = t})
    <2> SUFFICES ASSUME NEW t \in TracesOf(D)
                 PROVE  f[t] = Cardinality({e \in blocked : k[e] = t})
        OBVIOUS
    <2>1. f[t] = Cardinality({e \in OfTrace(D, t) : e.type = "policy.blocked"})
        BY DEF TraceMetrics
    <2>2. {e \in OfTrace(D, t) : e.type = "policy.blocked"} = {e \in blocked : k[e] = t}
        BY DEF OfTrace
    <2> QED BY <2>1, <2>2
<1> HIDE DEF k
<1>4. CountsBy(blocked, TracesOf(D), k, f)
    BY <1>2, <1>3 DEF CountsBy
<1>5. SumFunctionOnSet(f, TracesOf(D)) = Cardinality(blocked)
    BY <1>1, <1>4, GroupsAddUp
<1> QED
    BY <1>5 DEF SumFunction

(* There are no more workflows than sessions. *)
LEMMA WorkflowsAtMostSessions ==
    ASSUME NEW rows, IsFiniteSet(rows)
    PROVE  Cardinality({r.trace : r \in rows}) <= Cardinality(rows)
<1> DEFINE f == [r \in rows |-> r.trace]
<1>1. f \in Surjection(rows, {r.trace : r \in rows})
    BY DEF Surjection
<1> HIDE DEF f
<1> QED
    BY <1>1, FS_Surjection

(* The reports agree on every store. *)
LEMMA ReportsOfStore ==
    ASSUME StoreInv
    PROVE  ReportsAgree
<1> SUFFICES ASSUME NEW view, NEW w
             PROVE  LET all    == Windowed(events, view, w[1], w[2])
                        policy == GetPolicyBlockedEvents(events, view, w[1], w[2])
                        perf   == GetPerformanceEvents(events, view, w[1], w[2])
                        traces == DetectAnomalies(all).metrics
                    IN  /\ PolicyAddsUp(policy)
                        /\ PerformanceAddsUp(perf)
                        /\ AnomaliesAreSpikes(all)
                        /\ SumFunction([t \in DOMAIN traces |-> traces[t].policy_blocked_count])
                           = Cardinality(policy)
    BY DEF ReportsAgree
<1> PICK all, policy, perf : /\ all = Windowed(events, view, w[1], w[2])
                             /\ policy = GetPolicyBlockedEvents(events, view, w[1], w[2])
                             /\ perf = GetPerformanceEvents(events, view, w[1], w[2])
    OBVIOUS
<1>1. IsEvents(all) /\ IsEvents(policy) /\ IsEvents(perf)
    <2>1. all \subseteq events /\ policy \subseteq events /\ perf \subseteq events
        BY DEF Windowed, GetPolicyBlockedEvents, GetPerformanceEvents
    <2>2. emitted \in Worlds /\ events \subseteq emitted
        BY DEF StoreInv
    <2> QED BY <2>1, <2>2, EventsOfWorld
<1>2. policy = {e \in all : e.type = "policy.blocked"}
    BY DEF GetPolicyBlockedEvents
<1>3. PolicyAddsUp(policy)
    BY <1>1, PolicyOfEvents DEF IsEvents
<1>4. PerformanceAddsUp(perf)
    BY <1>1, PerformanceOfEvents
<1>5. AnomaliesAreSpikes(all)
    BY <1>1, SpikesStandOut
<1> PICK traces : traces = DetectAnomalies(all).metrics
    OBVIOUS
<1> DEFINE f == [t \in DOMAIN traces |-> traces[t].policy_blocked_count]
<1>6. traces = [t \in TracesOf(all) |-> TraceMetrics(OfTrace(all, t))]
    BY AnomalyParts
<1>7. f = [t \in TracesOf(all) |-> TraceMetrics(OfTrace(all, t)).policy_blocked_count]
    BY <1>6
<1> HIDE DEF f
<1>8. SumFunction(f) = Cardinality(policy)
    BY <1>1, <1>2, <1>7, BlockedInTraces
<1> QED
    BY <1>3, <1>4, <1>5, <1>8 DEF f

(* ReportsAgree: the reports of any store and window account for the same   *)
(* events.  Breakdowns add up to their totals, but for keys that objects    *)
(* inherit, every end of an operation is paired or unmatched, percentiles   *)
(* are nearest-rank samples, and what is flagged as an anomaly is above the *)
(* median of all traces (src/analytics, performance and anomalies.js).      *)
THEOREM ReportsAlwaysAgree == Spec => []ReportsAgree
<1>1. StoreInv => ReportsAgree
    BY ReportsOfStore
<1> QED
    BY <1>1, StoreInvariant, PTL

-----------------------------------------------------------------------------
(* The counts *)

(* The counts of one store fit together. *)
LEMMA MetricsOfStore ==
    ASSUME StoreInv, NEW view
    PROVE  LET counts == GetMetrics(events, sessions, view) IN
           /\ SumFunction(counts.byType) = counts.accepted
           /\ counts.subagent_session_count <= counts.session_count
           /\ counts.workflow_count <= counts.session_count
           /\ counts.max_tree_depth <= counts.session_count
<1> PICK mine, list : /\ mine = {r \in sessions : view = None \/ r.tenant = view}
                      /\ list = Windowed(events, view, None, None)
    OBVIOUS
<1> DEFINE key == [e \in list |-> e.type]
<1> PICK counts : counts = GetMetrics(events, sessions, view)
    OBVIOUS
<1>1. /\ counts.byType = Tally(key) /\ counts.accepted = Cardinality(list)
      /\ counts.session_count = Cardinality(mine)
      /\ counts.workflow_count = Cardinality({r.trace : r \in mine})
      /\ counts.subagent_session_count = Cardinality({r \in mine : r.parent # None})
      /\ counts.max_tree_depth = MaxDepth(mine)
    BY DEF GetMetrics, MetricsOf
<1>2. IsFiniteSet(list)
    BY EventsOfWorld DEF StoreInv, Windowed, IsEvents
<1>3. IsRows(mine)
    <2>1. IsRows(sessions)
        BY MadeRows DEF StoreInv
    <2> QED BY <2>1, PartOfRows
<1>4. SumFunction(counts.byType) = counts.accepted
    <2>1. key \in [list -> Range(key)]
        BY DEF Range
    <2> HIDE DEF key
    <2>2. SumFunction(Tally(key)) = Cardinality(list)
        BY <1>2, <2>1, TallyAddsUp
    <2> QED BY <1>1, <2>2
<1>5. IsFiniteSet(mine)
    BY <1>3 DEF IsRows
<1>6. MaxDepth(mine) <= Cardinality(mine)
    BY <1>3, DepthAtMostRows
<1>7. Cardinality({r.trace : r \in mine}) <= Cardinality(mine)
    BY <1>5, WorkflowsAtMostSessions
<1>8. Cardinality({r \in mine : r.parent # None}) <= Cardinality(mine)
    BY <1>5, FS_Subset
<1> QED
    BY <1>1, <1>4, <1>6, <1>7, <1>8

(* The queries that have been asked when the query at is next. *)
Place == [accepted |-> 1, byType |-> 2, workflow_count |-> 3, subagent_session_count |-> 4,
          session_count |-> 5, max_tree_depth |-> 6, counted |-> 7]

Asked(at) == {q \in DOMAIN NextQuery : Place[q] < Place[at]}

(* What a count of the stored events may be. *)
Bounds(u) == Cardinality(Windowed(u.stored, u.view, None, None))
             ..Cardinality(Windowed(u.known, u.view, None, None))

(* A count that has been read is that of some store since the reading began, *)
(* and if the store has not changed since then, it is the store's.           *)
MetricsOk(u, evs, tab) ==
    /\ u.stored \subseteq evs /\ evs \subseteq u.known
    /\ "accepted" \in Asked(u.at) => u.counts.accepted \in Bounds(u)
    /\ "byType" \in Asked(u.at) => SumFunction(u.counts.byType) \in Bounds(u)
    /\ u.stored = u.known =>
          \A q \in Asked(u.at) : u.counts[q] = GetMetrics(evs, tab, u.view)[q]

MetricsInv == reader.kind = "metrics" => MetricsOk(reader, events, sessions)

(* No query is asked when the first is next, one more is when it has been *)
(* read, and all six at the end.                                          *)
LEMMA QueriesAsked ==
    /\ Asked("accepted") = {}
    /\ \A q \in DOMAIN NextQuery : Asked(NextQuery[q]) = Asked(q) \cup {q}
    /\ Asked("counted") = DOMAIN NextQuery
<1>1. DOMAIN NextQuery = {"accepted", "byType", "workflow_count", "subagent_session_count",
                          "session_count", "max_tree_depth"}
    BY DEF NextQuery
<1>2. /\ Asked("accepted") = {}
      /\ Asked("counted") = DOMAIN NextQuery
    BY <1>1 DEF Asked, Place
<1>3. /\ NextQuery["accepted"] = "byType" /\ NextQuery["byType"] = "workflow_count"
      /\ NextQuery["workflow_count"] = "subagent_session_count"
      /\ NextQuery["subagent_session_count"] = "session_count"
      /\ NextQuery["session_count"] = "max_tree_depth"
      /\ NextQuery["max_tree_depth"] = "counted"
    BY DEF NextQuery
<1>4. /\ Asked("byType") = {"accepted"}
      /\ Asked("workflow_count") = {"accepted", "byType"}
      /\ Asked("subagent_session_count") = {"accepted", "byType", "workflow_count"}
      /\ Asked("session_count") = {"accepted", "byType", "workflow_count",
                                   "subagent_session_count"}
      /\ Asked("max_tree_depth") = {"accepted", "byType", "workflow_count",
                                    "subagent_session_count", "session_count"}
    BY <1>1 DEF Asked, Place
<1>5. ASSUME NEW q \in DOMAIN NextQuery
      PROVE  Asked(NextQuery[q]) = Asked(q) \cup {q}
    BY <1>1, <1>2, <1>3, <1>4
<1> QED
    BY <1>2, <1>5

(* More events of a world are at least as many of a view. *)
LEMMA WindowsGrow ==
    ASSUME NEW w \in Worlds, NEW B \in SUBSET w, NEW A \in SUBSET B, NEW view
    PROVE  /\ Cardinality(Windowed(A, view, None, None)) \in Nat
           /\ Cardinality(Windowed(B, view, None, None)) \in Nat
           /\ Cardinality(Windowed(A, view, None, None))
              <= Cardinality(Windowed(B, view, None, None))
<1> PICK X, Y : X = Windowed(A, view, None, None) /\ Y = Windowed(B, view, None, None)
    OBVIOUS
<1>1. X \subseteq Y /\ Y \in SUBSET w
    BY DEF Windowed
<1>2. IsFiniteSet(Y)
    BY <1>1, WorldFacts, FS_Subset
<1>3. Cardinality(X) \in Nat /\ Cardinality(Y) \in Nat /\ Cardinality(X) <= Cardinality(Y)
    BY <1>1, <1>2, FiniteCounts, FS_CardinalityType
<1> QED
    BY <1>3

(* The bounds only widen. *)
LEMMA BoundsWiden ==
    ASSUME NEW w \in Worlds, NEW u, NEW v, v.view = u.view,
           v.known \in SUBSET w, u.known \subseteq v.known,
           v.stored \subseteq u.stored, u.stored \subseteq u.known
    PROVE  Bounds(u) \subseteq Bounds(v)
<1> PICK a, b, c, d : /\ a = Cardinality(Windowed(v.stored, u.view, None, None))
                      /\ b = Cardinality(Windowed(u.stored, u.view, None, None))
                      /\ c = Cardinality(Windowed(u.known, u.view, None, None))
                      /\ d = Cardinality(Windowed(v.known, u.view, None, None))
    OBVIOUS
<1>1. u.known \in SUBSET w /\ u.stored \in SUBSET w
    OBVIOUS
<1>2. a \in Nat /\ b \in Nat /\ a <= b
    BY <1>1, WindowsGrow
<1>3. c \in Nat /\ d \in Nat /\ c <= d
    BY WindowsGrow
<1>4. Bounds(u) = b..c /\ Bounds(v) = a..d
    BY DEF Bounds
<1> QED
    BY <1>2, <1>3, <1>4

(* What is counted now lies between them. *)
LEMMA CountsInBounds ==
    ASSUME StoreInv, NEW u, u.stored \subseteq events, events \subseteq u.known,
           u.known \subseteq emitted
    PROVE  LET m == GetMetrics(events, sessions, u.view) IN
           m.accepted \in Bounds(u) /\ SumFunction(m.byType) \in Bounds(u)
<1> PICK a, b, c : /\ a = Cardinality(Windowed(u.stored, u.view, None, None))
                   /\ b = Cardinality(Windowed(events, u.view, None, None))
                   /\ c = Cardinality(Windowed(u.known, u.view, None, None))
    OBVIOUS
<1> PICK m : m = GetMetrics(events, sessions, u.view)
    OBVIOUS
<1>1. m.accepted = b
    BY DEF GetMetrics, MetricsOf
<1>2. SumFunction(m.byType) = m.accepted
    BY MetricsOfStore
<1>3. emitted \in Worlds /\ events \in SUBSET emitted
    BY DEF StoreInv
<1>4. a \in Nat /\ b \in Nat /\ a <= b
    BY <1>3, WindowsGrow
<1>5. c \in Nat /\ b <= c
    BY <1>3, WindowsGrow
<1>6. Bounds(u) = a..c
    BY DEF Bounds
<1> QED
    BY <1>1, <1>2, <1>4, <1>5, <1>6

(* One query keeps the invariant, *)
LEMMA ReadCountKeeps ==
    ASSUME TypeInv, MetricsInv, ReadCount
    PROVE  MetricsOk(reader', events, sessions)
<1> DEFINE u == reader'
<1> PICK a, m : a = reader.at /\ m = GetMetrics(events, sessions, reader.view)
    OBVIOUS
<1>1. /\ IsMetrics(reader) /\ a \in DOMAIN NextQuery
      /\ u.view = reader.view /\ u.at = NextQuery[a]
      /\ u.stored = reader.stored /\ u.known = reader.known
      /\ u.counts[a] = m[a]
      /\ \A q \in DOMAIN NextQuery \ {a} : u.counts[q] = reader.counts[q]
    BY CountRead
<1>2. reader.kind = "metrics" /\ reader.known \subseteq emitted
    BY <1>1 DEF IsMetrics, MetricsType
<1>3. MetricsOk(reader, events, sessions)
    BY <1>2 DEF MetricsInv
<1>4. Asked(u.at) = Asked(a) \cup {a}
    BY <1>1, QueriesAsked
<1>5. Bounds(u) = Bounds(reader)
    BY <1>1 DEF Bounds
<1>6. u.stored \subseteq events /\ events \subseteq u.known /\ u.known \subseteq emitted
    BY <1>1, <1>2, <1>3 DEF MetricsOk
<1>7. m.accepted \in Bounds(u) /\ SumFunction(m.byType) \in Bounds(u)
    BY <1>1, <1>6, CountsInBounds DEF TypeInv
<1> HIDE DEF u
<1>8. "accepted" \in DOMAIN NextQuery /\ "byType" \in DOMAIN NextQuery
    BY DEF NextQuery
<1>9. ASSUME "accepted" \in Asked(u.at)
      PROVE  u.counts.accepted \in Bounds(u)
    <2>1. CASE a = "accepted"
        BY <1>1, <1>7, <2>1
    <2>2. CASE a # "accepted"
        <3>1. u.counts["accepted"] = reader.counts["accepted"] /\ "accepted" \in Asked(a)
            BY <1>1, <1>4, <1>8, <1>9, <2>2
        <3>2. reader.counts.accepted \in Bounds(reader)
            BY <1>3, <3>1 DEF MetricsOk
        <3> QED BY <1>5, <3>1, <3>2
    <2> QED BY <2>1, <2>2
<1>10. ASSUME "byType" \in Asked(u.at)
       PROVE  SumFunction(u.counts.byType) \in Bounds(u)
    <2>1. CASE a = "byType"
        <3>1. u.counts.byType = m.byType
            BY <1>1, <2>1
        <3> QED BY <1>7, <3>1
    <2>2. CASE a # "byType"
        <3>1. u.counts.byType = reader.counts.byType /\ "byType" \in Asked(a)
            BY <1>1, <1>4, <1>8, <1>10, <2>2
        <3>2. SumFunction(reader.counts.byType) \in Bounds(reader)
            BY <1>3, <3>1 DEF MetricsOk
        <3> QED BY <1>5, <3>1, <3>2
    <2> QED BY <2>1, <2>2
<1>11. ASSUME u.stored = u.known, NEW q \in Asked(u.at)
       PROVE  u.counts[q] = GetMetrics(events, sessions, u.view)[q]
    <2>1. GetMetrics(events, sessions, u.view) = m
        BY <1>1
    <2>2. CASE q = a
        BY <1>1, <2>1, <2>2
    <2>3. CASE q # a
        <3>1. q \in Asked(a) /\ q \in DOMAIN NextQuery \ {a}
            BY <1>4, <1>11, <2>3 DEF Asked
        <3>2. reader.counts[q] = m[q]
            BY <1>1, <1>3, <1>11, <3>1 DEF MetricsOk
        <3> QED BY <1>1, <2>1, <3>1, <3>2
    <2> QED BY <2>2, <2>3
<1>12. MetricsOk(u, events, sessions)
    BY <1>6, <1>9, <1>10, <1>11 DEF MetricsOk
<1> QED
    BY <1>12 DEF u

(* and so does a change of the store. *)
LEMMA CountsSeeStore ==
    ASSUME TypeInv, MetricsInv, reader.kind = "metrics", Insert \/ Prune
    PROVE  MetricsOk(reader', events', sessions')
<1> DEFINE u == reader'
           e == events'
           t == sessions'
<1>1. /\ IsMetrics(reader) /\ IsMetrics(u)
      /\ u.view = reader.view /\ u.at = reader.at /\ u.counts = reader.counts
      /\ u.stored = reader.stored \cap e /\ u.known = reader.known \cup e
    BY WitnessedMetrics
<1>2. MetricsOk(reader, events, sessions)
    BY DEF MetricsInv
<1>3. emitted \in Worlds /\ emitted' = emitted /\ reader.stored \subseteq events
    BY <1>2, StoreChanges DEF TypeInv, StoreInv, MetricsOk
<1>4. u.known \in SUBSET emitted
    <2>1. u.known \in SUBSET emitted'
        BY <1>1, StoreChanges DEF IsMetrics, MetricsType, TypeInv
    <2> QED BY <1>3, <2>1
<1>5. u.stored \subseteq e /\ e \subseteq u.known
    BY <1>1
<1>6. Bounds(reader) \subseteq Bounds(u)
    BY <1>1, <1>2, <1>3, <1>4, BoundsWiden DEF MetricsOk
<1>7. ASSUME u.stored = u.known
      PROVE  reader.stored = reader.known /\ e = events /\ t = sessions
    <2>1. e \subseteq reader.stored /\ reader.known \subseteq e
        BY <1>1, <1>7
    <2>2. e = events /\ reader.stored = reader.known
        BY <1>2, <1>3, <2>1 DEF MetricsOk
    <2>3. ~Insert
        BY <2>2 DEF Insert
    <2>4. PICK x, lost : /\ e = events \ lost /\ lost \subseteq events
                         /\ t = Reconciled(sessions, x, lost, e)
        BY <2>3 DEF Prune
    <2>5. lost = {}
        BY <2>2, <2>4
    <2>6. Reconciled(sessions, x, {}, e) = sessions
        BY DEF Reconciled
    <2> QED BY <2>2, <2>4, <2>5, <2>6
<1> HIDE DEF u, e, t
<1>8. ASSUME u.stored = u.known, NEW q \in Asked(u.at)
      PROVE  u.counts[q] = GetMetrics(e, t, u.view)[q]
    <2>1. reader.counts[q] = GetMetrics(events, sessions, reader.view)[q]
        BY <1>1, <1>2, <1>7, <1>8 DEF MetricsOk
    <2> QED BY <1>1, <1>7, <1>8, <2>1
<1>9. /\ "accepted" \in Asked(u.at) => u.counts.accepted \in Bounds(u)
      /\ "byType" \in Asked(u.at) => SumFunction(u.counts.byType) \in Bounds(u)
    BY <1>1, <1>2, <1>6 DEF MetricsOk
<1>10. MetricsOk(u, e, t)
    BY <1>5, <1>8, <1>9 DEF MetricsOk
<1> QED
    BY <1>10 DEF u, e, t

(* Every step keeps it. *)
LEMMA MetricsStep ==
    ASSUME TypeInv, MetricsInv, [Next]_vars
    PROVE  MetricsInv'
<1> DEFINE u == reader'
<1>1. SUFFICES ASSUME u.kind = "metrics"
               PROVE  MetricsOk(u, events', sessions')
    BY DEF MetricsInv
<1>2. StoreInv
    BY DEF TypeInv
<1>3. CASE Insert \/ Prune
    <2>1. reader.kind = "metrics"
        <3>1. CASE reader.kind \in WalkKinds
            BY <1>1, <1>3, <3>1, WitnessedWalk, KindsDiffer
        <3>2. CASE reader.kind \in AuditKinds
            BY <1>1, <1>3, <3>2, WitnessedAudit, KindsDiffer
        <3>3. CASE reader.kind \notin WalkKinds \cup AuditKinds \cup {"metrics"}
            <4>1. u = reader
                BY <1>2, <1>3, <3>3, StoreChanges DEF Witness
            <4> QED BY <1>1, <4>1
        <3> QED BY <3>1, <3>2, <3>3
    <2> QED BY <1>3, <2>1, CountsSeeStore
<1>4. CASE BeginWalk \/ NextPage
    <2>1. u.kind \in WalkKinds
        BY <1>2, <1>4, BegunWalk, TurnedPage DEF WalkType
    <2> QED BY <1>1, <2>1, KindsDiffer
<1>5. CASE BeginAudit \/ AuditStep
    <2>1. u = Idle \/ u \in AuditType
        BY <1>2, <1>5, BegunAudit, AuditSteps
    <2>2. u = Idle \/ u.kind \in AuditKinds
        BY <2>1 DEF AuditType
    <2> QED BY <1>1, <2>2, KindsDiffer
<1>6. CASE BeginMetrics
    <2>1. /\ u.at = "accepted" /\ u.stored = events /\ u.known = events
          /\ events' = events
        BY <1>2, <1>6, BegunMetrics DEF store
    <2>2. Asked(u.at) = {}
        BY <2>1, QueriesAsked
    <2> QED BY <2>1, <2>2 DEF MetricsOk
<1>7. CASE ReadCount
    <2>1. events' = events /\ sessions' = sessions
        BY <1>7, CountRead DEF store
    <2>2. MetricsOk(u, events, sessions)
        BY <1>7, ReadCountKeeps
    <2> QED BY <2>1, <2>2
<1>8. CASE Answer
    BY <1>1, <1>8, KindsDiffer DEF Answer
<1>9. CASE UNCHANGED vars
    BY <1>1, <1>9 DEF vars, MetricsInv
<1> QED
    BY <1>3, <1>4, <1>5, <1>6, <1>7, <1>8, <1>9 DEF Next, AuditStep

(* MetricsFit: the counts of getMetrics, each read at another instant, lie     *)
(* between the events stored throughout and those stored at any time, and when *)
(* nothing is inserted or pruned meanwhile they fit together (postgres.js).    *)
THEOREM MetricsAlwaysFit == Spec => []MetricsFit
<1>1. Init => MetricsInv
    BY KindsDiffer DEF Init, MetricsInv
<1>2. TypeInv /\ TypeInv' /\ MetricsInv /\ [Next]_vars => MetricsInv'
    BY MetricsStep
<1>3. TypeInv /\ MetricsInv => MetricsFit
    <2> SUFFICES ASSUME TypeInv, MetricsInv, reader.kind = "metrics", reader.at = "counted"
                 PROVE  MetricsFit
        BY DEF MetricsFit
    <2> PICK c, m, least, most :
            /\ c = reader.counts /\ m = GetMetrics(events, sessions, reader.view)
            /\ least = Cardinality(Windowed(reader.stored, reader.view, None, None))
            /\ most = Cardinality(Windowed(reader.known, reader.view, None, None))
        OBVIOUS
    <2>1. MetricsOk(reader, events, sessions)
        BY DEF MetricsInv
    <2>2. Asked(reader.at) = DOMAIN NextQuery
        BY QueriesAsked
    <2>3. DOMAIN NextQuery = {"accepted", "byType", "workflow_count", "subagent_session_count",
                              "session_count", "max_tree_depth"}
        BY DEF NextQuery
    <2>4. c.accepted \in least..most /\ SumFunction(c.byType) \in least..most
        BY <2>1, <2>2, <2>3 DEF MetricsOk, Bounds
    <2>5. ASSUME reader.stored = reader.known
          PROVE  /\ SumFunction(c.byType) = c.accepted
                 /\ c.subagent_session_count <= c.session_count
                 /\ c.workflow_count <= c.session_count
                 /\ c.max_tree_depth <= c.session_count
        <3>1. \A q \in DOMAIN NextQuery : c[q] = m[q]
            BY <2>1, <2>2, <2>5 DEF MetricsOk
        <3>2. /\ c.accepted = m.accepted /\ c.byType = m.byType
              /\ c.session_count = m.session_count /\ c.workflow_count = m.workflow_count
              /\ c.subagent_session_count = m.subagent_session_count
              /\ c.max_tree_depth = m.max_tree_depth
            BY <2>3, <3>1
        <3>3. /\ SumFunction(m.byType) = m.accepted
              /\ m.subagent_session_count <= m.session_count
              /\ m.workflow_count <= m.session_count
              /\ m.max_tree_depth <= m.session_count
            BY MetricsOfStore DEF TypeInv
        <3> QED BY <3>2, <3>3
    <2> QED BY <2>4, <2>5 DEF MetricsFit
<1> QED
    BY <1>1, <1>2, <1>3, TypeInvariant, PTL DEF Spec
=============================================================================
