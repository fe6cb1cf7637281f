---------------------------- MODULE SumTheorems -----------------------------
(***************************************************************************)
(* Facts about finite sets of numbers, and about SumFunctionOnSet, which   *)
(* folds a function over a finite set and takes the elements in an order   *)
(* that CHOOSE picks: that it exists, that any element may be taken first, *)
(* and which values it depends on.  Each is shown by looking at a smallest *)
(* set for which it would fail.                                            *)
(***************************************************************************)
EXTENDS Integers, Functions, TLAPS, FiniteSetTheorems, WellFoundedInduction

First(S) == CHOOSE x \in S : TRUE

Rest(S) == S \ {First(S)}

SumsOver(f, S, sums) ==
    sums = [s \in SUBSET S |-> IF s = {} THEN 0 ELSE f[First(s)] + sums[s \ {First(s)}]]

(* The fold is the value at S of the function chosen to satisfy its        *)
(* recursion.                                                              *)
LEMMA SumUnfolds ==
    ASSUME NEW f, NEW S
    PROVE  SumFunctionOnSet(f, S) = (CHOOSE sums : SumsOver(f, S, sums))[S]
BY DEF SumFunctionOnSet, FoldFunctionOnSet, MapThenFoldSet, SumsOver, First

(* Of some subsets of a finite set, one is smallest.                       *)
LEMMA SmallestSubset ==
    ASSUME NEW S, IsFiniteSet(S), NEW B \in SUBSET (SUBSET S), B # {}
    PROVE  \E T \in B : \A U \in B : U \subseteq T => U = T
<1>. DEFINE R == StrictSubsetOrdering(S)
<1>1. IsWellFoundedOn(R, SUBSET S)
    BY FS_StrictSubsetOrderingWellFounded, FS_FiniteSubsetsOfFinite
<1>. HIDE DEF R
<1>2. PICK T \in B : \A U \in B : ~(<<U, T>> \in R)
    BY <1>1, WFMin
<1>3. ASSUME NEW U \in B, U \subseteq T, U # T PROVE FALSE
    <2>1. <<U, T>> \in R
        BY <1>3 DEF R, StrictSubsetOrdering
    <2>. QED
        BY <1>2, <2>1
<1>. QED
    BY <1>3

(* A set of numbers up to N with no gaps is an interval from 1.            *)
LEMMA NoGaps ==
    ASSUME NEW N \in Nat, NEW C \in SUBSET (1..N), \A j, k \in 1..N : k \in C /\ j < k => j \in C
    PROVE  \E n \in 0..N : C = 1..n
<1>. DEFINE S == 1..N
            B == {T \in SUBSET S : C \subseteq T /\ \E n \in 0..N : T = 1..n}
<1>1. IsFiniteSet(S)
    BY FS_Interval
<1>2. S \in B
    <2>1. N \in 0..N /\ S = 1..N
        OBVIOUS
    <2>. QED
        BY <2>1
<1>3. B \in SUBSET (SUBSET S)
    OBVIOUS
<1>. HIDE DEF B, S
<1>4. PICK T \in B : \A U \in B : U \subseteq T => U = T
    BY <1>1, <1>2, <1>3, SmallestSubset
<1>5. PICK n \in 0..N : C \subseteq T /\ T = 1..n
    BY DEF B
<1>6. n # 0 => n \in C
    <2>. SUFFICES ASSUME n # 0, n \notin C PROVE FALSE
        OBVIOUS
    <2>1. n - 1 \in 0..N /\ 1..(n - 1) \subseteq T /\ n \in T /\ n \notin 1..(n - 1)
        BY <1>5
    <2>2. C \subseteq 1..(n - 1)
        BY <1>5
    <2>3. 1..(n - 1) \in B
        BY <2>1, <2>2 DEF B, S
    <2>. QED
        BY <1>4, <2>1, <2>3
<1>7. ASSUME NEW k \in 1..n PROVE k \in C
    <2>1. k \in 1..N /\ n \in 1..N /\ n # 0 /\ (k = n \/ k < n)
        OBVIOUS
    <2>. QED
        BY <1>6, <2>1
<1>8. C = 1..n
    BY <1>5, <1>7
<1>. QED
    BY <1>8

(* What CHOOSE picks of a set is in it.                                     *)
LEMMA FirstIsIn ==
    ASSUME NEW S, S # {}
    PROVE  First(S) \in S /\ Rest(S) \subseteq S /\ Rest(S) # S
BY DEF First, Rest

(* Two solutions of the recursion agree where both are defined.            *)
LEMMA SumsAgree ==
    ASSUME NEW f, NEW S, NEW T, NEW g, NEW h, IsFiniteSet(S),
           SumsOver(f, S, g), SumsOver(f, T, h), S \subseteq T
    PROVE  \A s \in SUBSET S : g[s] = h[s]
<1>. DEFINE B == {s \in SUBSET S : g[s] # h[s]}
<1>. SUFFICES ASSUME B # {} PROVE FALSE
    OBVIOUS
<1>1. PICK s \in B : \A u \in B : u \subseteq s => u = s
    <2>. HIDE DEF B
    <2>1. B \in SUBSET (SUBSET S)
        BY DEF B
    <2>. QED
        BY <2>1, SmallestSubset
<1>2. /\ g[s] = IF s = {} THEN 0 ELSE f[First(s)] + g[Rest(s)]
      /\ h[s] = IF s = {} THEN 0 ELSE f[First(s)] + h[Rest(s)]
    BY DEF SumsOver, Rest
<1>3. s # {}
    BY <1>2
<1>4. Rest(s) \subseteq s /\ Rest(s) # s
    BY <1>3, FirstIsIn
<1>5. Rest(s) \notin B
    BY <1>1, <1>4
<1>6. g[Rest(s)] = h[Rest(s)]
    BY <1>4, <1>5
<1>. QED
    BY <1>2, <1>3, <1>6

(* On every finite set the recursion has a solution: on a smallest set     *)
(* without one, those of its proper subsets would make one up.             *)
LEMMA SumsExist ==
    ASSUME NEW f, NEW S, IsFiniteSet(S)
    PROVE  \E sums : SumsOver(f, S, sums)
<1>. DEFINE Solved(T) == \E sums : SumsOver(f, T, sums)
            B == {T \in SUBSET S : ~Solved(T)}
            Sums(T) == CHOOSE sums : SumsOver(f, T, sums)
<1>. SUFFICES ASSUME B # {} PROVE FALSE
    OBVIOUS
<1>1. PICK T \in B : \A U \in B : U \subseteq T => U = T
    <2>. HIDE DEF B
    <2>1. B \in SUBSET (SUBSET S)
        BY DEF B
    <2>. QED
        BY <2>1, SmallestSubset
<1>2. ASSUME NEW U \in SUBSET T, U # T PROVE SumsOver(f, U, Sums(U)) /\ IsFiniteSet(U)
    <2>1. Solved(U)
        BY <1>1, <1>2
    <2>. QED
        BY <2>1, FS_Subset
<1>. DEFINE G == [s \in SUBSET T |-> IF s = {} THEN 0 ELSE f[First(s)] + Sums(Rest(s))[Rest(s)]]
<1>3. ASSUME NEW U \in SUBSET T, U # T PROVE G[U] = Sums(U)[U]
    <2>1. Sums(U)[U] = IF U = {} THEN 0 ELSE f[First(U)] + Sums(U)[Rest(U)]
        <3>. HIDE DEF Sums
        <3>. QED
            BY <1>2, <1>3 DEF SumsOver, Rest
    <2>2. ASSUME U # {} PROVE Sums(U)[Rest(U)] = Sums(Rest(U))[Rest(U)]
        <3>1. Rest(U) \subseteq U /\ Rest(U) # T
            BY <2>2, <1>3, FirstIsIn
        <3>. HIDE DEF Sums
        <3>2. /\ SumsOver(f, U, Sums(U))
              /\ SumsOver(f, Rest(U), Sums(Rest(U)))
              /\ IsFiniteSet(Rest(U))
            BY <1>2, <1>3, <3>1
        <3>. QED
            BY <3>1, <3>2, SumsAgree
    <2>. HIDE DEF Sums
    <2>. QED
        BY <2>1, <2>2
<1>4. SumsOver(f, T, G)
    <2>1. ASSUME NEW s \in SUBSET T, s # {} PROVE Sums(Rest(s))[Rest(s)] = G[Rest(s)]
        <3>1. Rest(s) \subseteq T /\ Rest(s) # T
            BY <2>1, FirstIsIn
        <3>. HIDE DEF G, Sums
        <3>. QED
            BY <1>3, <3>1
    <2>. DEFINE V(s) == Sums(Rest(s))[Rest(s)]
    <2>2. G = [s \in SUBSET T |-> IF s = {} THEN 0 ELSE f[First(s)] + V(s)]
        OBVIOUS
    <2>3. \A s \in SUBSET T : s # {} => V(s) = G[Rest(s)]
        BY <2>1
    <2>. HIDE DEF G, V
    <2>4. G = [s \in SUBSET T |-> IF s = {} THEN 0 ELSE f[First(s)] + G[Rest(s)]]
        BY <2>2, <2>3
    <2>. QED
        BY <2>4 DEF SumsOver, Rest
<1>. HIDE DEF G
<1>. QED
    BY <1>1, <1>4

-----------------------------------------------------------------------------
(* The recursion, without its solution.                                    *)
LEMMA SumFirst ==
    ASSUME NEW f, NEW S, IsFiniteSet(S)
    PROVE  SumFunctionOnSet(f, S) =
               IF S = {} THEN 0 ELSE f[First(S)] + SumFunctionOnSet(f, Rest(S))
<1>. DEFINE Sums(T) == CHOOSE sums : SumsOver(f, T, sums)
<1>1. ASSUME NEW T \in SUBSET S PROVE SumsOver(f, T, Sums(T)) /\ IsFiniteSet(T)
    <2>1. IsFiniteSet(T)
        BY FS_Subset
    <2>. QED
        BY <2>1, SumsExist
<1>2. Rest(S) \in SUBSET S
    BY DEF Rest
<1>3. /\ SumFunctionOnSet(f, S) = Sums(S)[S]
      /\ SumFunctionOnSet(f, Rest(S)) = Sums(Rest(S))[Rest(S)]
    BY SumUnfolds
<1>. HIDE DEF Sums
<1>4. Sums(S)[S] = IF S = {} THEN 0 ELSE f[First(S)] + Sums(S)[Rest(S)]
    BY <1>1 DEF SumsOver, Rest
<1>5. Sums(S)[Rest(S)] = Sums(Rest(S))[Rest(S)]
    BY <1>1, <1>2, SumsAgree
<1>. QED
    BY <1>3, <1>4, <1>5

(* The sum over nothing is 0.                                              *)
LEMMA SumEmpty == ASSUME NEW f PROVE SumFunctionOnSet(f, {}) = 0
BY SumFirst, FS_EmptySet

(* What holds of a subset whenever it holds of the subsets properly within *)
(* it holds of all subsets; Holds is the set of those for which it does.   *)
LEMMA SubsetInduction ==
    ASSUME NEW S, IsFiniteSet(S), NEW Holds,
           \A T \in SUBSET S : (\A U \in SUBSET T : U # T => U \in Holds) => T \in Holds
    PROVE  \A T \in SUBSET S : T \in Holds
<1>. DEFINE B == {T \in SUBSET S : T \notin Holds}
<1>. SUFFICES ASSUME B # {} PROVE FALSE
    OBVIOUS
<1>1. PICK T \in B : \A U \in B : U \subseteq T => U = T
    <2>. HIDE DEF B
    <2>1. B \in SUBSET (SUBSET S)
        BY DEF B
    <2>. QED
        BY <2>1, SmallestSubset
<1>. QED
    BY <1>1

(* A sum of integers is one, and a sum of natural numbers.                 *)
LEMMA SumType ==
    ASSUME NEW S, IsFiniteSet(S), NEW f, NEW N \in {Int, Nat}, \A x \in S : f[x] \in N
    PROVE  SumFunctionOnSet(f, S) \in N
<1>. DEFINE Holds == {T \in SUBSET S : SumFunctionOnSet(f, T) \in N}
<1>1. ASSUME NEW T \in SUBSET S, \A U \in SUBSET T : U # T => U \in Holds
      PROVE  T \in Holds
    <2>1. SumFunctionOnSet(f, T) =
              IF T = {} THEN 0 ELSE f[First(T)] + SumFunctionOnSet(f, Rest(T))
        BY SumFirst, FS_Subset
    <2>2. T # {} => f[First(T)] \in N /\ SumFunctionOnSet(f, Rest(T)) \in N
        BY <1>1, FirstIsIn
    <2>. QED
        BY <2>1, <2>2
<1>. HIDE DEF Holds
<1>2. S \in Holds
    BY <1>1, SubsetInduction
<1>. QED
    BY <1>2 DEF Holds

(* The sum depends on the values at the elements of the set only.          *)
LEMMA SumEqual ==
    ASSUME NEW S, IsFiniteSet(S), NEW f, NEW g, \A x \in S : f[x] = g[x]
    PROVE  SumFunctionOnSet(f, S) = SumFunctionOnSet(g, S)
<1>. DEFINE Holds == {T \in SUBSET S : SumFunctionOnSet(f, T) = SumFunctionOnSet(g, T)}
<1>1. ASSUME NEW T \in SUBSET S, \A U \in SUBSET T : U # T => U \in Holds
      PROVE  T \in Holds
    <2>1. /\ SumFunctionOnSet(f, T) =
                IF T = {} THEN 0 ELSE f[First(T)] + SumFunctionOnSet(f, Rest(T))
          /\ SumFunctionOnSet(g, T) =
                IF T = {} THEN 0 ELSE g[First(T)] + SumFunctionOnSet(g, Rest(T))
        BY SumFirst, FS_Subset
    <2>2. T # {} => f[First(T)] = g[First(T)]
        BY FirstIsIn
    <2>3. T # {} => SumFunctionOnSet(f, Rest(T)) = SumFunctionOnSet(g, Rest(T))
        BY <1>1, FirstIsIn
    <2>4. SumFunctionOnSet(f, T) = SumFunctionOnSet(g, T)
        BY <2>1, <2>2, <2>3
    <2>. QED
        BY <2>4
<1>. HIDE DEF Holds
<1>2. S \in Holds
    BY <1>1, SubsetInduction
<1>. QED
    BY <1>2 DEF Holds

(* Any element of the set can be taken first.                              *)
LEMMA SumAny ==
    ASSUME NEW S, IsFiniteSet(S), NEW f, \A x \in S : f[x] \in Int, NEW x \in S
    PROVE  SumFunctionOnSet(f, S) = f[x] + SumFunctionOnSet(f, S \ {x})
<1>. DEFINE Sum(T) == SumFunctionOnSet(f, T)
            Holds == {T \in SUBSET S : \A y \in T : Sum(T) = f[y] + Sum(T \ {y})}
<1>1. ASSUME NEW T \in SUBSET S, \A U \in SUBSET T : U # T => U \in Holds, NEW y \in T
      PROVE  Sum(T) = f[y] + Sum(T \ {y})
    <2>. DEFINE a == First(T)
                U == T \ {y}
    <2>1. IsFiniteSet(T) /\ IsFiniteSet(U) /\ U \subseteq T /\ a \in T
        BY FS_Subset, FirstIsIn
    <2>2. Sum(T) = f[a] + Sum(T \ {a})
        BY <2>1, SumFirst DEF Rest
    <2>. SUFFICES ASSUME y # a PROVE Sum(T) = f[y] + Sum(U)
        BY <2>2
    <2>3. Sum(T \ {a}) = f[y] + Sum((T \ {a}) \ {y})
        <3>1. T \ {a} \in Holds /\ y \in T \ {a}
            BY <1>1, <2>1
        <3>. QED
            BY <3>1
    <2>4. Sum(U) = f[a] + Sum(U \ {a})
        <3>1. U \in Holds /\ a \in U
            BY <1>1, <2>1
        <3>. QED
            BY <3>1
    <2>5. (T \ {a}) \ {y} = U \ {a}
        OBVIOUS
    <2>6. Sum(U \ {a}) \in Int /\ f[a] \in Int /\ f[y] \in Int
        <3>1. IsFiniteSet(U \ {a}) /\ U \ {a} \subseteq S
            BY <2>1, FS_Subset
        <3>. QED
            BY <2>1, <3>1, SumType
    <2>. HIDE DEF Sum, a, U
    <2>7. Sum(T) = f[a] + (f[y] + Sum(U \ {a}))
        BY <2>2, <2>3, <2>5
    <2>. QED
        BY <2>4, <2>6, <2>7
<1>2. ASSUME NEW T \in SUBSET S, \A U \in SUBSET T : U # T => U \in Holds
      PROVE  T \in Holds
    BY <1>1, <1>2
<1>. HIDE DEF Holds
<1>3. S \in Holds
    BY <1>2, SubsetInduction
<1>. QED
    BY <1>3 DEF Holds

(* A change of one value changes the sum as much.                          *)
LEMMA SumChanged ==
    ASSUME NEW S, IsFiniteSet(S), NEW f, NEW g, NEW x \in S,
           \A y \in S : f[y] \in Int /\ g[y] \in Int,
           \A y \in S \ {x} : f[y] = g[y]
    PROVE  SumFunctionOnSet(g, S) = SumFunctionOnSet(f, S) + (g[x] - f[x])
<1>. DEFINE T == S \ {x}
<1>1. IsFiniteSet(T)
    BY FS_Subset
<1>2. SumFunctionOnSet(f, T) = SumFunctionOnSet(g, T)
    BY <1>1, SumEqual
<1>3. SumFunctionOnSet(f, T) \in Int
    BY <1>1, SumType
<1>4. /\ SumFunctionOnSet(f, S) = f[x] + SumFunctionOnSet(f, T)
      /\ SumFunctionOnSet(g, S) = g[x] + SumFunctionOnSet(g, T)
    BY SumAny
<1>. QED
    BY <1>2, <1>3, <1>4

(* Zeros can be left out.                                                  *)
LEMMA SumWithin ==
    ASSUME NEW S, IsFiniteSet(S), NEW R \in SUBSET S, NEW f,
           \A x \in S : f[x] \in Int, \A x \in S \ R : f[x] = 0
    PROVE  SumFunctionOnSet(f, S) = SumFunctionOnSet(f, R)
<1>. DEFINE Sum(T) == SumFunctionOnSet(f, T)
            Holds == {T \in SUBSET S : R \subseteq T => Sum(T) = Sum(R)}
<1>1. ASSUME NEW T \in SUBSET S, \A U \in SUBSET T : U # T => U \in Holds
      PROVE  T \in Holds
    <2>. SUFFICES ASSUME R \subseteq T, R # T PROVE Sum(T) = Sum(R)
        OBVIOUS
    <2>1. PICK x \in T : x \notin R
        OBVIOUS
    <2>2. IsFiniteSet(T) /\ IsFiniteSet(T \ {x})
        BY FS_Subset
    <2>3. Sum(T) = f[x] + Sum(T \ {x}) /\ Sum(T \ {x}) \in Int
        BY <2>2, SumAny, SumType
    <2>4. Sum(T \ {x}) = Sum(R)
        <3>1. T \ {x} \in Holds /\ R \subseteq T \ {x}
            BY <1>1, <2>1
        <3>. QED
            BY <3>1
    <2>. HIDE DEF Sum
    <2>. QED
        BY <2>1, <2>3, <2>4
<1>. HIDE DEF Holds
<1>2. S \in Holds
    BY <1>1, SubsetInduction
<1>. QED
    BY <1>2 DEF Holds

(* A sum of zeros is zero.                                                 *)
LEMMA SumZero ==
    ASSUME NEW S, IsFiniteSet(S), NEW f, \A x \in S : f[x] = 0
    PROVE  SumFunctionOnSet(f, S) = 0
BY SumWithin, SumEmpty

=============================================================================
