-------------------------- MODULE AggregateProofs --------------------------
(***************************************************************************)
(* What the other proofs need of the least and the greatest of a set of    *)
(* numbers, of the sum of a function over a set of indices, which the      *)
(* model takes from FiniteSetsExt and Functions, of recursive functions,   *)
(* that they exist, and of folds over sequences, step by step.             *)
(***************************************************************************)
EXTENDS FiniteSetsExt, FiniteSetTheorems, SequenceTheorems, WellFoundedInduction, TLAPS

(***************************************************************************)
(* The least and the greatest.                                             *)
(***************************************************************************)

\* A number of the set that none is below is the one chosen.
LEMMA MinIsLeast ==
  ASSUME NEW S, S \subseteq Int, NEW x \in S, \A y \in S : x <= y
  PROVE  Min(S) \in S /\ \A y \in S : Min(S) <= y
BY Zenon DEF Min

\* Of a set of ids one is the smallest, and it is the one chosen.
LEMMA MinIsMember ==
  ASSUME NEW S, S \subseteq Nat, S # {}
  PROVE  Min(S) \in S /\ \A y \in S : Min(S) <= y
<1>1. PICK x \in S : \A y \in S : ~ (<<y, x>> \in OpToRel(<, Nat))
  BY WFMin, NatLessThanWellFounded, Zenon
<1>2. \A y \in S : x <= y
  <2> SUFFICES ASSUME NEW y \in S PROVE x <= y
    OBVIOUS
  <2>1. ~ (y < x)
    BY <1>1 DEF OpToRel
  <2> QED
    BY <2>1
<1>3. S \subseteq Int
  OBVIOUS
<1> QED
  BY <1>2, <1>3, MinIsLeast, Zenon

\* Of numbers that do not exceed n, one is the greatest.
LEMMA MaxIsGreatest ==
  ASSUME NEW n \in Nat, NEW S, S \subseteq 0..n, S # {}
  PROVE  Max(S) \in S /\ \A y \in S : y <= Max(S)
<1> DEFINE gaps == {n - y : y \in S}
<1>1. gaps \subseteq Nat /\ gaps # {}
  <2>1. \A y \in S : n - y \in Nat
    <3> SUFFICES ASSUME NEW y \in S PROVE n - y \in Nat
      OBVIOUS
    <3>1. y \in 0..n
      OBVIOUS
    <3> QED
      BY <3>1
  <2> QED
    BY <2>1, Zenon
<1>2. PICK least \in gaps : \A g \in gaps : least <= g
  <2> HIDE DEF gaps
  <2> QED
    BY <1>1, MinIsMember
<1>3. PICK x \in S : least = n - x
  BY <1>2
<1>4. \A y \in S : x >= y
  <2> SUFFICES ASSUME NEW y \in S PROVE x >= y
    OBVIOUS
  <2>1. n - x <= n - y
    BY <1>2, <1>3, Zenon
  <2>2. x \in 0..n /\ y \in 0..n
    OBVIOUS
  <2>3. x \in Int /\ y \in Int
    BY <2>2
  <2> HIDE DEF gaps
  <2> QED
    BY <2>1, <2>3
<1>5. Max(S) \in S /\ \A y \in S : Max(S) >= y
  BY <1>4, Zenon DEF Max
<1> QED
  BY <1>5

(***************************************************************************)
(* Sums.  SumFunctionOnSet is a recursive function on the subsets of the   *)
(* indices, that is, a CHOOSE: IsSum says of g that it is one.             *)
(***************************************************************************)

Chosen(s) == CHOOSE x \in s : TRUE

IsSum(f, S, g) ==
  g = [s \in SUBSET S |-> IF s = {} THEN 0 ELSE f[Chosen(s)] + g[s \ {Chosen(s)}]]

\* The sum, as the fold of the library unfolds to it.
LEMMA SumUnfolded ==
  ASSUME NEW f, NEW S
  PROVE  SumFunctionOnSet(f, S) = (CHOOSE g : IsSum(f, S, g))[S]
BY DEF SumFunctionOnSet, FoldFunctionOnSet, MapThenFoldSet, IsSum, Chosen

\* The element a fold takes first is one of the set.
LEMMA ChosenIsMember ==
  ASSUME NEW s, s # {}
  PROVE  Chosen(s) \in s
BY Zenon DEF Chosen

\* Of sets of subsets of a finite set, one that is not empty has a smallest.
LEMMA SmallestSubset ==
  ASSUME NEW S, IsFiniteSet(S), NEW Bad \in SUBSET SUBSET S, Bad # {}
  PROVE  \E T \in Bad : \A t \in Bad : t \subseteq T => t = T
<1>1. IsWellFoundedOn(StrictSubsetOrdering(S), SUBSET S)
  BY FS_StrictSubsetOrderingWellFounded, FS_FiniteSubsetsOfFinite
<1>2. PICK T \in Bad : \A t \in Bad : ~ (<<t, T>> \in StrictSubsetOrdering(S))
  BY <1>1, WFMin, Zenon
<1>3. ASSUME NEW t \in Bad, t \subseteq T PROVE t = T
  BY <1>2, <1>3 DEF StrictSubsetOrdering
<1> QED
  BY <1>3

\* Two such functions agree where both are defined.
LEMMA SumsAgree ==
  ASSUME NEW f, NEW S, IsFiniteSet(S), NEW T \in SUBSET S, NEW g, NEW h,
         IsSum(f, S, g), IsSum(f, T, h)
  PROVE  \A s \in SUBSET T : g[s] = h[s]
<1> DEFINE Bad == {s \in SUBSET T : g[s] # h[s]}
<1>1. ASSUME Bad # {} PROVE FALSE
  <2>1. Bad \in SUBSET SUBSET S
    OBVIOUS
  <2>2. PICK s \in Bad : \A t \in Bad : t \subseteq s => t = s
    <3> HIDE DEF Bad
    <3> QED
      BY <1>1, <2>1, SmallestSubset
  <2>3. s \in SUBSET T /\ s \in SUBSET S /\ g[s] # h[s]
    BY <2>2
  <2>4. s # {}
    BY <2>3 DEF IsSum
  <2>5. Chosen(s) \in s
    BY <2>4, ChosenIsMember
  <2>6. g[s \ {Chosen(s)}] = h[s \ {Chosen(s)}]
    BY <2>2, <2>3, <2>5
  <2>7. g[s] = f[Chosen(s)] + g[s \ {Chosen(s)}] /\ h[s] = f[Chosen(s)] + h[s \ {Chosen(s)}]
    BY <2>3, <2>4 DEF IsSum
  <2> QED
    BY <2>3, <2>6, <2>7
<1> QED
  BY <1>1

\* Where there is one, the sum of a set that is not empty unfolds once.
LEMMA SumUnfoldsIf ==
  ASSUME NEW f, NEW S, IsFiniteSet(S), S # {},
         \E g : IsSum(f, S, g), \E g : IsSum(f, S \ {Chosen(S)}, g)
  PROVE  SumFunctionOnSet(f, S) = f[Chosen(S)] + SumFunctionOnSet(f, S \ {Chosen(S)})
<1> DEFINE T == S \ {Chosen(S)}
           g == CHOOSE k : IsSum(f, S, k)
           h == CHOOSE k : IsSum(f, T, k)
<1>1. IsSum(f, S, g) /\ IsSum(f, T, h)
  BY Zenon
<1>2. SumFunctionOnSet(f, S) = g[S] /\ SumFunctionOnSet(f, T) = h[T]
  BY SumUnfolded
<1> HIDE DEF g, h
<1>3. g[S] = f[Chosen(S)] + g[T]
  BY <1>1 DEF IsSum
<1>4. g[T] = h[T]
  BY <1>1, SumsAgree
<1> QED
  BY <1>2, <1>3, <1>4

\* The recursion of a sum over a finite set has a solution.
LEMMA SumExists ==
  ASSUME NEW f, NEW S, IsFiniteSet(S)
  PROVE  \E g : IsSum(f, S, g)
<1> DEFINE Bad == {T \in SUBSET S : ~ \E g : IsSum(f, T, g)}
           Sum(s) == SumFunctionOnSet(f, s)
<1>1. ASSUME Bad # {} PROVE FALSE
  <2>1. PICK T \in Bad : \A t \in Bad : t \subseteq T => t = T
    <3>1. Bad \in SUBSET SUBSET S
      OBVIOUS
    <3> HIDE DEF Bad
    <3> QED
      BY <1>1, <3>1, SmallestSubset
  <2>2. T \in SUBSET S /\ ~ \E g : IsSum(f, T, g)
    BY <2>1
  <2>3. \A t \in SUBSET T : t # T => \E g : IsSum(f, t, g)
    BY <2>1, <2>2
  <2> DEFINE h == [s \in SUBSET T |->
                     IF s = {} THEN 0
                     ELSE IF s = T THEN f[Chosen(T)] + Sum(T \ {Chosen(T)}) ELSE Sum(s)]
  <2>4. ASSUME NEW s \in SUBSET T, s # {}
        PROVE  h[s] = f[Chosen(s)] + h[s \ {Chosen(s)}]
    <3>1. Chosen(s) \in s
      BY <2>4, ChosenIsMember
    <3>2. IsFiniteSet(s)
      BY <2>2, FS_Subset
    <3>3. h[s] = f[Chosen(s)] + Sum(s \ {Chosen(s)})
      <4>1. CASE s = T
        BY <2>4, <4>1
      <4>2. CASE s # T
        <5>1. (\E g : IsSum(f, s, g)) /\ (\E g : IsSum(f, s \ {Chosen(s)}, g))
          BY <2>3, <4>2, <3>1
        <5>2. Sum(s) = f[Chosen(s)] + Sum(s \ {Chosen(s)})
          BY <5>1, <2>4, <3>2, SumUnfoldsIf
        <5> QED
          BY <2>4, <4>2, <5>2
      <4> QED
        BY <4>1, <4>2
    <3>4. h[s \ {Chosen(s)}] = Sum(s \ {Chosen(s)})
      <4>1. CASE s \ {Chosen(s)} = {}
        <5>1. \E g : IsSum(f, {}, g)
          BY <2>3, <2>4, <3>1
        <5>2. IsSum(f, {}, CHOOSE g : IsSum(f, {}, g))
          BY <5>1, Zenon
        <5>3. Sum({}) = 0
          BY <5>2, SumUnfolded DEF IsSum
        <5> QED
          BY <4>1, <5>3
      <4>2. CASE s \ {Chosen(s)} # {}
        BY <4>2, <3>1
      <4> QED
        BY <4>1, <4>2
    <3> QED
      BY <3>3, <3>4
  <2>5. h = [s \in SUBSET T |-> IF s = {} THEN 0 ELSE f[Chosen(s)] + h[s \ {Chosen(s)}]]
    BY <2>4
  <2> QED
    BY <2>2, <2>5 DEF IsSum
<1> QED
  BY <1>1

\* The sum over no index, and the sum over some.
LEMMA SumEmpty ==
  ASSUME NEW f
  PROVE  SumFunctionOnSet(f, {}) = 0
<1> DEFINE g == CHOOSE g : IsSum(f, {}, g)
<1>1. IsFiniteSet({})
  BY FS_EmptySet
<1>2. IsSum(f, {}, g)
  BY <1>1, SumExists, Zenon
<1>3. SumFunctionOnSet(f, {}) = g[{}]
  BY SumUnfolded
<1> HIDE DEF g
<1> QED
  BY <1>2, <1>3 DEF IsSum

\* A sum over a set is its first element's term and the sum over the others.
LEMMA SumUnfolds ==
  ASSUME NEW f, NEW S, IsFiniteSet(S), S # {}
  PROVE  SumFunctionOnSet(f, S) = f[Chosen(S)] + SumFunctionOnSet(f, S \ {Chosen(S)})
<1>1. IsFiniteSet(S \ {Chosen(S)})
  BY FS_Subset
<1> QED
  BY <1>1, SumExists, SumUnfoldsIf

\* A sum of integers is one.
LEMMA SumType ==
  ASSUME NEW f, NEW S, IsFiniteSet(S), \A i \in S : f[i] \in Int
  PROVE  SumFunctionOnSet(f, S) \in Int
<1> DEFINE Bad == {T \in SUBSET S : SumFunctionOnSet(f, T) \notin Int}
<1>1. ASSUME Bad # {} PROVE FALSE
  <2>1. PICK T \in Bad : \A t \in Bad : t \subseteq T => t = T
    <3>1. Bad \in SUBSET SUBSET S
      OBVIOUS
    <3> HIDE DEF Bad
    <3> QED
      BY <1>1, <3>1, SmallestSubset
  <2>2. T \in SUBSET S /\ SumFunctionOnSet(f, T) \notin Int
    BY <2>1
  <2>3. T # {}
    BY <2>2, SumEmpty
  <2>4. Chosen(T) \in T /\ IsFiniteSet(T)
    BY <2>2, <2>3, ChosenIsMember, FS_Subset
  <2>5. SumFunctionOnSet(f, T \ {Chosen(T)}) \in Int
    BY <2>1, <2>2, <2>4
  <2>6. f[Chosen(T)] \in Int
    BY <2>2, <2>4
  <2>7. SumFunctionOnSet(f, T) = f[Chosen(T)] + SumFunctionOnSet(f, T \ {Chosen(T)})
    BY <2>3, <2>4, SumUnfolds
  <2> QED
    BY <2>2, <2>5, <2>6, <2>7
<1>2. S \notin Bad
  BY <1>1
<1> QED
  BY <1>2

\* The sum unfolds at any index, whichever the recursion would choose.
LEMMA SumWithout ==
  ASSUME NEW f, NEW S, IsFiniteSet(S), \A i \in S : f[i] \in Int, NEW x \in S
  PROVE  SumFunctionOnSet(f, S) = f[x] + SumFunctionOnSet(f, S \ {x})
<1> DEFINE Sum(s) == SumFunctionOnSet(f, s)
           Bad == {T \in SUBSET S : \E i \in T : Sum(T) # f[i] + Sum(T \ {i})}
<1>1. ASSUME Bad # {} PROVE FALSE
  <2>1. PICK T \in Bad : \A t \in Bad : t \subseteq T => t = T
    <3>1. Bad \in SUBSET SUBSET S
      OBVIOUS
    <3> HIDE DEF Bad
    <3> QED
      BY <1>1, <3>1, SmallestSubset
  <2>2. PICK y \in T : Sum(T) # f[y] + Sum(T \ {y})
    BY <2>1
  <2> DEFINE c == Chosen(T)
  <2>3. T \in SUBSET S /\ c \in T /\ IsFiniteSet(T)
    BY <2>1, <2>2, ChosenIsMember, FS_Subset
  <2>4. Sum(T) = f[c] + Sum(T \ {c})
    BY <2>2, <2>3, SumUnfolds
  <2> HIDE DEF c
  <2>5. y # c
    BY <2>2, <2>4
  <2>6. T \ {c} \notin Bad /\ T \ {y} \notin Bad
    BY <2>1, <2>3
  <2>7. Sum(T \ {c}) = f[y] + Sum((T \ {c}) \ {y})
    BY <2>3, <2>5, <2>6
  <2>8. Sum(T \ {y}) = f[c] + Sum((T \ {y}) \ {c})
    BY <2>3, <2>5, <2>6
  <2>9. (T \ {c}) \ {y} = (T \ {y}) \ {c}
    OBVIOUS
  <2>10. f[y] \in Int /\ f[c] \in Int /\ Sum((T \ {y}) \ {c}) \in Int
    <3>1. IsFiniteSet((T \ {y}) \ {c}) /\ \A i \in (T \ {y}) \ {c} : f[i] \in Int
      BY <2>3, FS_Subset
    <3>2. Sum((T \ {y}) \ {c}) \in Int
      BY <3>1, SumType
    <3> QED
      BY <2>3, <3>2
  <2> DEFINE rest == Sum((T \ {y}) \ {c})
  <2>11. Sum(T) = f[c] + (f[y] + rest)
    BY <2>4, <2>7, <2>9
  <2>12. f[y] + Sum(T \ {y}) = f[y] + (f[c] + rest)
    BY <2>8
  <2>13. rest \in Int
    BY <2>10
  <2> HIDE DEF Sum, rest
  <2>14. f[c] + (f[y] + rest) = f[y] + (f[c] + rest)
    BY <2>10, <2>13
  <2> QED
    BY <2>2, <2>11, <2>12, <2>14
<1>2. S \notin Bad
  BY <1>1
<1> QED
  BY <1>2

\* Functions that agree on the indices have the same sum.
LEMMA SumOfEqual ==
  ASSUME NEW f, NEW g, NEW S, IsFiniteSet(S), \A i \in S : f[i] = g[i]
  PROVE  SumFunctionOnSet(f, S) = SumFunctionOnSet(g, S)
<1> DEFINE Bad == {T \in SUBSET S : SumFunctionOnSet(f, T) # SumFunctionOnSet(g, T)}
<1>1. ASSUME Bad # {} PROVE FALSE
  <2>1. PICK T \in Bad : \A t \in Bad : t \subseteq T => t = T
    <3>1. Bad \in SUBSET SUBSET S
      OBVIOUS
    <3> HIDE DEF Bad
    <3> QED
      BY <1>1, <3>1, SmallestSubset
  <2>2. T \in SUBSET S /\ SumFunctionOnSet(f, T) # SumFunctionOnSet(g, T)
    BY <2>1
  <2>3. T # {}
    BY <2>2, SumEmpty
  <2>4. Chosen(T) \in T /\ IsFiniteSet(T)
    BY <2>2, <2>3, ChosenIsMember, FS_Subset
  <2>5. SumFunctionOnSet(f, T \ {Chosen(T)}) = SumFunctionOnSet(g, T \ {Chosen(T)})
    BY <2>1, <2>2, <2>4
  <2>6. f[Chosen(T)] = g[Chosen(T)]
    BY <2>2, <2>4
  <2>7. /\ SumFunctionOnSet(f, T) = f[Chosen(T)] + SumFunctionOnSet(f, T \ {Chosen(T)})
        /\ SumFunctionOnSet(g, T) = g[Chosen(T)] + SumFunctionOnSet(g, T \ {Chosen(T)})
    BY <2>3, <2>4, SumUnfolds
  <2> QED
    BY <2>2, <2>5, <2>6, <2>7
<1>2. S \notin Bad
  BY <1>1
<1> QED
  BY <1>2

\* Indices that do not count against it never make a sum smaller.
LEMMA SumGrows ==
  ASSUME NEW f, NEW S, IsFiniteSet(S), \A i \in S : f[i] \in Int,
         NEW T \in SUBSET S, \A i \in S \ T : f[i] >= 0
  PROVE  SumFunctionOnSet(f, T) <= SumFunctionOnSet(f, S)
<1> DEFINE Sum(s) == SumFunctionOnSet(f, s)
           Bad == {U \in SUBSET S : T \subseteq U /\ ~ (Sum(T) <= Sum(U))}
<1>1. ASSUME Bad # {} PROVE FALSE
  <2>1. PICK U \in Bad : \A t \in Bad : t \subseteq U => t = U
    <3>1. Bad \in SUBSET SUBSET S
      OBVIOUS
    <3> HIDE DEF Bad
    <3> QED
      BY <1>1, <3>1, SmallestSubset
  <2>2. U \in SUBSET S /\ T \subseteq U /\ ~ (Sum(T) <= Sum(U))
    BY <2>1
  <2>3. IsFiniteSet(U) /\ IsFiniteSet(T) /\ (\A i \in U : f[i] \in Int) /\ \A i \in T : f[i] \in Int
    BY <2>2, FS_Subset
  <2>4. Sum(T) \in Int /\ Sum(U) \in Int
    BY <2>3, SumType
  <2>5. U # T
    <3> HIDE DEF Sum
    <3> QED
      BY <2>2, <2>4
  <2>6. PICK x \in U : x \notin T
    BY <2>2, <2>5
  <2>7. Sum(U) = f[x] + Sum(U \ {x})
    BY <2>3, SumWithout
  <2>8. U \ {x} \notin Bad
    BY <2>1, <2>6
  <2>9. Sum(T) <= Sum(U \ {x})
    BY <2>2, <2>6, <2>8
  <2>10. f[x] \in Int /\ f[x] >= 0
    BY <2>2, <2>6
  <2>11. IsFiniteSet(U \ {x}) /\ \A i \in U \ {x} : f[i] \in Int
    BY <2>3, FS_Subset
  <2>12. Sum(U \ {x}) \in Int
    BY <2>11, SumType
  <2> HIDE DEF Sum
  <2> QED
    BY <2>2, <2>4, <2>7, <2>9, <2>10, <2>12
<1>2. S \notin Bad
  BY <1>1
<1> QED
  BY <1>2

\* A sum does not fall when what is left out did not count for it and what is
\* added does not count against it.
LEMMA SumCompares ==
  ASSUME NEW f, NEW S, IsFiniteSet(S), \A i \in S : f[i] \in Int,
         NEW A \in SUBSET S, NEW B \in SUBSET S,
         \A i \in A \ B : f[i] <= 0, \A i \in B \ A : f[i] >= 0
  PROVE  SumFunctionOnSet(f, A) <= SumFunctionOnSet(f, B)
<1> DEFINE Sum(s) == SumFunctionOnSet(f, s)
           Bad == {U \in SUBSET A : A \cap B \subseteq U /\ ~ (Sum(U) <= Sum(A \cap B))}
<1>1. ASSUME Bad # {} PROVE FALSE
  <2>1. PICK U \in Bad : \A t \in Bad : t \subseteq U => t = U
    <3>1. Bad \in SUBSET SUBSET S
      OBVIOUS
    <3> HIDE DEF Bad
    <3> QED
      BY <1>1, <3>1, SmallestSubset
  <2>2. U \in SUBSET A /\ A \cap B \subseteq U /\ ~ (Sum(U) <= Sum(A \cap B))
    BY <2>1
  <2>3. /\ U \in SUBSET S /\ IsFiniteSet(U) /\ IsFiniteSet(A \cap B)
        /\ (\A i \in U : f[i] \in Int) /\ \A i \in A \cap B : f[i] \in Int
    BY <2>2, FS_Subset
  <2>4. Sum(A \cap B) \in Int /\ Sum(U) \in Int
    BY <2>3, SumType
  <2>5. U # A \cap B
    <3> HIDE DEF Sum
    <3> QED
      BY <2>2, <2>4
  <2>6. PICK x \in U : x \notin A \cap B
    BY <2>2, <2>5
  <2>7. Sum(U) = f[x] + Sum(U \ {x})
    BY <2>3, SumWithout
  <2>8. U \ {x} \notin Bad
    BY <2>1, <2>6
  <2>9. Sum(U \ {x}) <= Sum(A \cap B)
    BY <2>2, <2>6, <2>8
  <2>10. f[x] \in Int /\ f[x] <= 0
    BY <2>2, <2>3, <2>6
  <2>11. IsFiniteSet(U \ {x}) /\ \A i \in U \ {x} : f[i] \in Int
    BY <2>3, FS_Subset
  <2>12. Sum(U \ {x}) \in Int
    BY <2>11, SumType
  <2> HIDE DEF Sum
  <2> QED
    BY <2>2, <2>4, <2>7, <2>9, <2>10, <2>12
<1>2. Sum(A) <= Sum(A \cap B)
  BY <1>1
<1>3. IsFiniteSet(B) /\ (\A i \in B : f[i] \in Int) /\ IsFiniteSet(A) /\ IsFiniteSet(A \cap B)
  BY FS_Subset
<1>4. Sum(A \cap B) <= Sum(B)
  BY <1>3, SumGrows
<1>5. Sum(A) \in Int /\ Sum(B) \in Int /\ Sum(A \cap B) \in Int
  BY <1>3, SumType
<1> HIDE DEF Sum
<1>6. Sum(A) <= Sum(B)
  BY <1>2, <1>4, <1>5
<1> QED
  BY <1>6 DEF Sum

\* An index that counts and is left out makes a sum smaller.
LEMMA SumGrowsStrictly ==
  ASSUME NEW f, NEW S, IsFiniteSet(S), \A i \in S : f[i] \in Int,
         NEW T \in SUBSET S, \A i \in S \ T : f[i] > 0, T # S
  PROVE  SumFunctionOnSet(f, T) < SumFunctionOnSet(f, S)
<1> DEFINE Sum(s) == SumFunctionOnSet(f, s)
<1>1. PICK x \in S : x \notin T
  OBVIOUS
<1>2. Sum(S) = f[x] + Sum(S \ {x})
  BY SumWithout
<1>3. f[x] \in Int /\ f[x] > 0
  BY <1>1
<1>4. /\ IsFiniteSet(S \ {x}) /\ IsFiniteSet(T)
      /\ (\A i \in S \ {x} : f[i] \in Int) /\ \A i \in T : f[i] \in Int
  BY FS_Subset
<1>5. T \in SUBSET (S \ {x}) /\ \A i \in (S \ {x}) \ T : f[i] >= 0
  BY <1>1
<1>6. Sum(T) <= Sum(S \ {x})
  BY <1>4, <1>5, SumGrows
<1>7. Sum(T) \in Int /\ Sum(S \ {x}) \in Int
  BY <1>4, SumType
<1> HIDE DEF Sum
<1>8. Sum(T) < Sum(S)
  BY <1>2, <1>3, <1>6, <1>7
<1> QED
  BY <1>8 DEF Sum

\* A function that differs at one index has a sum that differs by as much.
LEMMA SumOfUpdate ==
  ASSUME NEW S, IsFiniteSet(S), NEW f, NEW g, NEW x \in S,
         \A i \in S : f[i] \in Int /\ g[i] \in Int, \A i \in S \ {x} : g[i] = f[i]
  PROVE  SumFunctionOnSet(g, S) = SumFunctionOnSet(f, S) - f[x] + g[x]
<1> DEFINE rest == SumFunctionOnSet(f, S \ {x})
<1>1. /\ \A i \in S \ {x} : f[i] \in Int /\ g[i] \in Int
      /\ f[x] \in Int /\ g[x] \in Int /\ IsFiniteSet(S \ {x})
  BY FS_Subset
<1>2. SumFunctionOnSet(f, S) = f[x] + rest
  BY <1>1, SumWithout
<1>3. SumFunctionOnSet(g, S) = g[x] + SumFunctionOnSet(g, S \ {x})
  BY <1>1, SumWithout
<1>4. SumFunctionOnSet(g, S \ {x}) = rest
  BY <1>1, SumOfEqual
<1>5. rest \in Int
  BY <1>1, SumType
<1> HIDE DEF rest
<1> QED
  BY <1>1, <1>2, <1>3, <1>4, <1>5

\* One more at one index is one more for the sum.
LEMMA SumOfIncrement ==
  ASSUME NEW S, IsFiniteSet(S), NEW f, NEW g, NEW x \in S,
         \A i \in S : f[i] \in Int /\ g[i] \in Int,
         \A i \in S \ {x} : g[i] = f[i], g[x] = f[x] + 1
  PROVE  SumFunctionOnSet(g, S) = SumFunctionOnSet(f, S) + 1
<1>1. SumFunctionOnSet(g, S) = SumFunctionOnSet(f, S) - f[x] + g[x]
  BY SumOfUpdate
<1>2. SumFunctionOnSet(f, S) \in Int
  BY SumType
<1> QED
  BY <1>1, <1>2

\* No sum exceeds its number of indices times the most that one can count for.
LEMMA SumIsBounded ==
  ASSUME NEW f, NEW S, IsFiniteSet(S), NEW most \in Int,
         \A i \in S : f[i] \in Int /\ f[i] <= most
  PROVE  SumFunctionOnSet(f, S) <= most * Cardinality(S)
<1> DEFINE Sum(s) == SumFunctionOnSet(f, s)
           Bad == {T \in SUBSET S : ~ (Sum(T) <= most * Cardinality(T))}
<1>1. ASSUME Bad # {} PROVE FALSE
  <2>1. PICK T \in Bad : \A t \in Bad : t \subseteq T => t = T
    <3>1. Bad \in SUBSET SUBSET S
      OBVIOUS
    <3> HIDE DEF Bad
    <3> QED
      BY <1>1, <3>1, SmallestSubset
  <2>2. T \in SUBSET S /\ ~ (Sum(T) <= most * Cardinality(T)) /\ IsFiniteSet(T)
    BY <2>1, FS_Subset
  <2>3. T # {}
    <3>1. Sum({}) = 0 /\ Cardinality({}) = 0
      BY SumEmpty, FS_EmptySet
    <3> HIDE DEF Sum
    <3> QED
      BY <2>2, <3>1
  <2>4. PICK x \in T : TRUE
    BY <2>3
  <2>5. f[x] \in Int /\ f[x] <= most
    BY <2>2
  <2>6. Sum(T) = f[x] + Sum(T \ {x})
    BY <2>2, SumWithout
  <2>7. T \ {x} \in SUBSET S /\ T \ {x} \notin Bad /\ IsFiniteSet(T \ {x})
    BY <2>1, <2>2, FS_Subset
  <2>8. Sum(T \ {x}) <= most * Cardinality(T \ {x})
    BY <2>7
  <2>9. Sum(T \ {x}) \in Int
    BY <2>7, SumType
  <2>10. /\ Cardinality(T) \in Nat /\ Cardinality(T \ {x}) \in Nat
         /\ Cardinality(T \ {x}) = Cardinality(T) - 1
    BY <2>2, <2>7, FS_CardinalityType, FS_RemoveElement
  <2> DEFINE n == Cardinality(T \ {x})
             rest == Sum(T \ {x})
  <2>11. n \in Int /\ Cardinality(T) = n + 1 /\ rest \in Int /\ rest <= most * n
    BY <2>8, <2>9, <2>10
  <2>12. ~ (f[x] + rest <= most * (n + 1))
    BY <2>2, <2>6, <2>11
  <2> HIDE DEF n, rest, Sum
  <2>13. most * (n + 1) = most * n + most /\ most * n \in Int
    BY <2>11
  <2> QED
    BY <2>5, <2>11, <2>12, <2>13
<1>2. S \notin Bad
  BY <1>1
<1> QED
  BY <1>2

----------------------------------------------------------------------------
(* Recursive functions.  A function whose value at c is a step from its    *)
(* values at arguments of lower rank exists.                                *)

\* A step looks at arguments of lower rank only.
LooksBelow(D, V, rank, step) ==
  \A c \in D : \A f, g \in [D -> V] :
    (\A d \in D : rank[d] < rank[c] => f[d] = g[d]) => step[<<c, f>>] = step[<<c, g>>]

\* f obeys the recursion at every argument of rank below n.
Obeys(D, rank, step, n, f) == \A c \in D : rank[c] < n => f[c] = step[<<c, f>>]

\* Two functions that obey it below n agree there.
LEMMA RecursionAgrees ==
  ASSUME NEW D, NEW V, NEW rank \in [D -> Nat], NEW step,
         LooksBelow(D, V, rank, step),
         NEW n \in Nat, NEW f \in [D -> V], NEW g \in [D -> V],
         Obeys(D, rank, step, n, f), Obeys(D, rank, step, n, g)
  PROVE  \A c \in D : rank[c] < n => f[c] = g[c]
<1> DEFINE Bad == {c \in D : rank[c] < n /\ f[c] # g[c]}
           ranks == {rank[c] : c \in Bad}
<1>1. ASSUME Bad # {} PROVE FALSE
  <2>1. ranks \subseteq Nat /\ ranks # {}
    BY <1>1
  <2>2. PICK r \in ranks : \A s \in ranks : r <= s
    <3> HIDE DEF ranks
    <3> QED
      BY <2>1, MinIsMember
  <2>3. PICK c \in Bad : rank[c] = r
    OBVIOUS
  <2>4. ASSUME NEW d \in D, rank[d] < rank[c] PROVE f[d] = g[d]
    <3>1. rank[d] \in Nat /\ rank[c] \in Nat /\ rank[c] < n
      OBVIOUS
    <3>2. CASE d \in Bad
      <4>1. rank[d] \in ranks
        BY <3>2
      <4> QED
        BY <2>2, <2>3, <2>4, <3>1, <4>1
    <3>3. CASE d \notin Bad
      BY <2>4, <3>1, <3>3
    <3> QED
      BY <3>2, <3>3
  <2>5. step[<<c, f>>] = step[<<c, g>>]
    BY <2>4 DEF LooksBelow
  <2> QED
    BY <2>5 DEF Obeys
<1> QED
  BY <1>1

\* A recursion that looks only below an element is obeyed up to any depth.
LEMMA RecursionBelow ==
  ASSUME NEW D, NEW V, NEW base \in V, NEW rank \in [D -> Nat],
         NEW step \in [D \X [D -> V] -> V],
         LooksBelow(D, V, rank, step)
  PROVE  \A n \in Nat : \E f \in [D -> V] : Obeys(D, rank, step, n, f)
<1> DEFINE Bad == {n \in Nat : ~ \E f \in [D -> V] : Obeys(D, rank, step, n, f)}
<1>1. ASSUME Bad # {} PROVE FALSE
  <2>1. PICK n \in Bad : \A m \in Bad : n <= m
    <3>1. Bad \subseteq Nat
      OBVIOUS
    <3> HIDE DEF Bad
    <3> QED
      BY <1>1, <3>1, MinIsMember
  <2>2. n \in Nat /\ ~ \E f \in [D -> V] : Obeys(D, rank, step, n, f)
    OBVIOUS
  <2>3. n # 0
    <3>1. Obeys(D, rank, step, 0, [c \in D |-> base])
      BY DEF Obeys
    <3>2. [c \in D |-> base] \in [D -> V]
      OBVIOUS
    <3> QED
      BY <2>2, <3>1, <3>2
  <2>4. n - 1 \in Nat /\ n - 1 \notin Bad
    <3>1. n - 1 \in Nat /\ ~ (n <= n - 1)
      BY <2>2, <2>3
    <3> QED
      BY <2>1, <3>1
  <2>5. PICK f \in [D -> V] : Obeys(D, rank, step, n - 1, f)
    BY <2>4
  <2> DEFINE g == [c \in D |-> step[<<c, f>>]]
  <2>6. g \in [D -> V]
    OBVIOUS
  <2>7. ASSUME NEW c \in D, rank[c] < n PROVE g[c] = step[<<c, g>>]
    <3>1. ASSUME NEW d \in D, rank[d] < rank[c] PROVE g[d] = f[d]
      <4>1. rank[d] \in Nat /\ rank[c] \in Nat
        OBVIOUS
      <4>2. rank[d] < n - 1
        BY <2>2, <2>7, <3>1, <4>1
      <4> QED
        BY <2>5, <4>2 DEF Obeys
    <3>2. step[<<c, g>>] = step[<<c, f>>]
      <4> HIDE DEF g
      <4> QED
        BY <2>6, <3>1 DEF LooksBelow
    <3> QED
      BY <3>2
  <2>8. Obeys(D, rank, step, n, g)
    <3> HIDE DEF g
    <3> QED
      BY <2>7 DEF Obeys
  <2> QED
    BY <2>2, <2>6, <2>8
<1> QED
  BY <1>1

IsRecursive(D, V, step, f) == f \in [D -> V] /\ \A c \in D : f[c] = step[<<c, f>>]

\* A function that a recursion defines exists if each value rests on those of
\* lower rank.
LEMMA RecursionExists ==
  ASSUME NEW D, NEW V, V # {}, NEW rank, rank \in [D -> Nat],
         NEW step, step \in [D \X [D -> V] -> V], LooksBelow(D, V, rank, step)
  PROVE  \E f : IsRecursive(D, V, step, f)
<1> DEFINE part == [n \in Nat |-> CHOOSE f \in [D -> V] : Obeys(D, rank, step, n, f)]
           whole == [c \in D |-> part[rank[c] + 1][c]]
<1>1. ASSUME NEW n \in Nat
      PROVE  part[n] \in [D -> V] /\ Obeys(D, rank, step, n, part[n])
  <2>1. \E f \in [D -> V] : Obeys(D, rank, step, n, f)
    <3>1. PICK base : base \in V
      OBVIOUS
    <3> QED
      BY <3>1, RecursionBelow
  <2> QED
    BY <2>1, Zenon
<1> HIDE DEF part
<1>2. \A c \in D : rank[c] \in Nat /\ rank[c] + 1 \in Nat
  OBVIOUS
<1>3. whole \in [D -> V]
  BY <1>1, <1>2
<1>4. ASSUME NEW n \in Nat, NEW f \in [D -> V], NEW g \in [D -> V],
             Obeys(D, rank, step, n, f), Obeys(D, rank, step, n, g)
      PROVE  \A e \in D : rank[e] < n => f[e] = g[e]
  <2> HIDE DEF whole
  <2> QED
    BY <1>4, RecursionAgrees
<1>5. ASSUME NEW c \in D PROVE whole[c] = step[<<c, whole>>]
  <2> DEFINE f == part[rank[c] + 1]
  <2>1. f \in [D -> V] /\ Obeys(D, rank, step, rank[c] + 1, f)
    BY <1>1, <1>2
  <2>2. whole[c] = f[c]
    OBVIOUS
  <2>3. ASSUME NEW d \in D, rank[d] < rank[c] PROVE whole[d] = f[d]
    <3> DEFINE h == part[rank[d] + 1]
    <3>1. h \in [D -> V] /\ Obeys(D, rank, step, rank[d] + 1, h) /\ whole[d] = h[d]
      BY <1>1, <1>2
    <3>2. Obeys(D, rank, step, rank[d] + 1, f)
      <4> SUFFICES ASSUME NEW e \in D, rank[e] < rank[d] + 1 PROVE f[e] = step[<<e, f>>]
        BY DEF Obeys
      <4>1. rank[e] \in Nat /\ rank[d] \in Nat /\ rank[c] \in Nat
        OBVIOUS
      <4>2. rank[e] < rank[c] + 1
        BY <2>3, <4>1
      <4> HIDE DEF f
      <4> QED
        BY <2>1, <4>2 DEF Obeys
    <3> HIDE DEF f, h, whole
    <3>3. rank[d] + 1 \in Nat /\ rank[d] < rank[d] + 1
      BY <1>2
    <3>4. \A e \in D : rank[e] < rank[d] + 1 => h[e] = f[e]
      BY <2>1, <3>1, <3>2, <3>3, <1>4
    <3> QED
      BY <3>1, <3>3, <3>4
  <2> HIDE DEF f, whole
  <2>4. f[c] = step[<<c, f>>]
    <3>1. rank[c] < rank[c] + 1
      BY <1>2
    <3> QED
      BY <2>1, <3>1 DEF Obeys
  <2>5. step[<<c, whole>>] = step[<<c, f>>]
    BY <1>3, <2>1, <2>3 DEF LooksBelow
  <2> QED
    BY <2>2, <2>4, <2>5
<1> QED
  BY <1>3, <1>5 DEF IsRecursive

----------------------------------------------------------------------------
(* Sequences, an element at a time: what the folds of SequencesExt compute. *)

\* What holds of 0 and of every number whose predecessor it holds of.
LEMMA CountingUp ==
  ASSUME NEW n \in Nat, NEW S, 0 \in S, \A k \in 1..n : k - 1 \in S => k \in S
  PROVE  \A k \in 0..n : k \in S
<1> DEFINE Bad == {k \in 0..n : k \notin S}
<1>1. ASSUME Bad # {} PROVE FALSE
  <2>1. Bad \subseteq Nat
    OBVIOUS
  <2>2. PICK k \in Bad : \A j \in Bad : k <= j
    <3> HIDE DEF Bad
    <3> QED
      BY <1>1, <2>1, MinIsMember
  <2>3. k # 0 /\ k \in 1..n /\ k - 1 \in 0..n /\ ~ (k <= k - 1)
    BY <2>2
  <2>4. k - 1 \in S
    BY <2>2, <2>3
  <2> QED
    BY <2>2, <2>3, <2>4
<1> QED
  BY <1>1

\* What a fold does: from the last element back to the first.
FoldsBy(step, base, seq, g) ==
  \A s \in SUBSET DOMAIN seq :
    g[s] = IF s = {} THEN base ELSE step[<<g[s \ {Max(s)}], seq[Max(s)]>>]

\* The recursion of a fold over a sequence has a solution.
LEMMA FoldExists ==
  ASSUME NEW E, NEW V, NEW base \in V, NEW seq \in Seq(E), NEW step \in [V \X E -> V]
  PROVE  \E g \in [SUBSET DOMAIN seq -> V] : FoldsBy(step, base, seq, g)
<1> DEFINE D == SUBSET DOMAIN seq
           rank == [s \in D |-> Cardinality(s)]
           body(s, g) == IF s = {} THEN base ELSE step[<<g[s \ {Max(s)}], seq[Max(s)]>>]
           whole == [x \in D \X [D -> V] |-> body(x[1], x[2])]
<1>1. DOMAIN seq = 1..Len(seq) /\ Len(seq) \in Nat /\ IsFiniteSet(DOMAIN seq)
  BY FS_Interval
<1>2. ASSUME NEW s \in D, s # {}
      PROVE  /\ Max(s) \in s /\ s \ {Max(s)} \in D /\ seq[Max(s)] \in E
             /\ Cardinality(s) \in Nat /\ Cardinality(s \ {Max(s)}) \in Nat
             /\ Cardinality(s \ {Max(s)}) < Cardinality(s)
  <2>1. s \subseteq 0 .. Len(seq)
    BY <1>1
  <2>2. Max(s) \in s
    BY <1>1, <1>2, <2>1, MaxIsGreatest
  <2>3. IsFiniteSet(s)
    BY <1>1, FS_Subset
  <2>4. /\ Cardinality(s) \in Nat /\ Cardinality(s \ {Max(s)}) = Cardinality(s) - 1
        /\ IsFiniteSet(s \ {Max(s)})
    BY <2>2, <2>3, FS_RemoveElement, FS_CardinalityType
  <2>5. Cardinality(s \ {Max(s)}) \in Nat
    BY <2>4, FS_CardinalityType
  <2>6. seq[Max(s)] \in E
    BY <1>1, <2>2
  <2> QED
    BY <2>2, <2>4, <2>5, <2>6
<1>3. rank \in [D -> Nat]
  <2>1. ASSUME NEW s \in D PROVE Cardinality(s) \in Nat
    BY <1>1, FS_Subset, FS_CardinalityType
  <2> QED
    BY <2>1
<1>4. ASSUME NEW s \in D, NEW g \in [D -> V] PROVE body(s, g) \in V
  <2>1. CASE s = {}
    BY <2>1
  <2>2. CASE s # {}
    <3>1. g[s \ {Max(s)}] \in V /\ seq[Max(s)] \in E
      BY <1>2, <2>2
    <3> QED
      BY <2>2, <3>1
  <2> QED
    BY <2>1, <2>2
<1>5. whole \in [D \X [D -> V] -> V] /\ \A s \in D, g \in [D -> V] : whole[<<s, g>>] = body(s, g)
  <2> HIDE DEF D, body
  <2> QED
    BY <1>4
<1>6. ASSUME NEW s \in D, NEW f \in [D -> V], NEW g \in [D -> V],
             \A d \in D : rank[d] < rank[s] => f[d] = g[d]
      PROVE  body(s, f) = body(s, g)
  <2>1. CASE s = {}
    BY <2>1
  <2>2. CASE s # {}
    <3>1. f[s \ {Max(s)}] = g[s \ {Max(s)}]
      BY <1>2, <1>6, <2>2
    <3> QED
      BY <3>1
  <2> QED
    BY <2>1, <2>2
<1>7. LooksBelow(D, V, rank, whole)
  <2> HIDE DEF whole, D, rank, body
  <2> QED
    BY <1>5, <1>6 DEF LooksBelow
<1> HIDE DEF whole, rank, D, body
<1>8. PICK g : IsRecursive(D, V, whole, g)
  BY <1>3, <1>5, <1>7, RecursionExists
<1>9. g \in [D -> V] /\ \A s \in D : g[s] = body(s, g)
  BY <1>5, <1>8 DEF IsRecursive
<1> QED
  BY <1>9 DEF FoldsBy, D, body

\* It goes through the beginnings of the sequence one by one.
LEMMA Beginnings ==
  ASSUME NEW E, NEW seq \in Seq(E), NEW k \in 1 .. Len(seq)
  PROVE  /\ 1..k \in SUBSET DOMAIN seq /\ 1..k # {}
         /\ Max(1..k) = k /\ (1..k) \ {k} = 1 .. k - 1
         /\ k - 1 \in 0 .. Len(seq) /\ seq[k] \in E
<1>1. /\ 1..k \subseteq DOMAIN seq /\ k \in 1..k /\ 1..k \subseteq 0..k /\ k \in Nat
      /\ (1..k) \ {k} = 1 .. k - 1 /\ k - 1 \in 0 .. Len(seq)
  OBVIOUS
<1>2. Max(1..k) \in 1..k /\ \A y \in 1..k : y <= Max(1..k)
  BY <1>1, MaxIsGreatest
<1> QED
  BY <1>1, <1>2

\* What a recursion that folds seq must satisfy, as far as its values are in V.
Folding(V, step, base, seq, g) ==
  /\ g[{}] = base
  /\ \A s \in SUBSET DOMAIN seq :
       s # {} /\ g[s \ {Max(s)}] \in V => g[s] = step[<<g[s \ {Max(s)}], seq[Max(s)]>>]

\* Its values on the beginnings of seq, each from the one before.
Trace(V, step, base, seq, g, t) ==
  /\ t \in [0 .. Len(seq) -> V]
  /\ t[0] = base /\ t[Len(seq)] = g[DOMAIN seq]
  /\ \A k \in 1 .. Len(seq) : t[k] = step[<<t[k - 1], seq[k]>>]

LEMMA FoldTrace ==
  ASSUME NEW E, NEW V, NEW base \in V, NEW seq \in Seq(E), NEW step \in [V \X E -> V],
         NEW g, Folding(V, step, base, seq, g)
  PROVE  \E t : Trace(V, step, base, seq, g, t)
<1> DEFINE n == Len(seq)
           t == [k \in 0..n |-> g[1..k]]
           S == {k \in 0..n : t[k] \in V}
<1>1. n \in Nat /\ DOMAIN seq = 1..n
  OBVIOUS
<1>2. t[0] = base
  <2>1. 1..0 = {}
    OBVIOUS
  <2> QED
    BY <1>1, <2>1 DEF Folding
<1>3. 0 \in S
  BY <1>1, <1>2
<1>4. ASSUME NEW k \in 1..n
      PROVE  /\ k - 1 \in 0..n /\ k \in 0..n /\ seq[k] \in E
             /\ t[k - 1] \in V => t[k] = step[<<t[k - 1], seq[k]>>]
  <2>1. /\ 1..k \in SUBSET DOMAIN seq /\ 1..k # {} /\ Max(1..k) = k
        /\ (1..k) \ {k} = 1 .. k - 1 /\ k - 1 \in 0..n /\ seq[k] \in E
    BY Beginnings
  <2>2. g[1 .. k - 1] \in V => g[1..k] = step[<<g[1 .. k - 1], seq[k]>>]
    <3> HIDE DEF t, S, n
    <3> QED
      BY <2>1 DEF Folding
  <2> QED
    BY <1>1, <2>1, <2>2
<1> HIDE DEF t
<1>5. ASSUME NEW k \in 1..n, k - 1 \in S PROVE k \in S
  <2>1. step[<<t[k - 1], seq[k]>>] \in V
    BY <1>4, <1>5
  <2> QED
    BY <1>4, <1>5, <2>1
<1>6. \A k \in 0..n : k \in S
  <2> HIDE DEF S, n
  <2> QED
    BY <1>1, <1>3, <1>5, CountingUp
<1>7. t \in [0..n -> V]
  BY <1>6 DEF t
<1>8. ASSUME NEW k \in 1..n PROVE t[k] = step[<<t[k - 1], seq[k]>>]
  BY <1>4, <1>6
<1>9. t[n] = g[DOMAIN seq]
  BY <1>1 DEF t
<1>10. Trace(V, step, base, seq, g, t)
  BY <1>2, <1>7, <1>8, <1>9 DEF Trace
<1> QED
  BY <1>10
=============================================================================
