------------------------ MODULE ContestScoringProofs ------------------------
(***************************************************************************)
(* Proofs about ContestScoring, for any users, problems, points, length    *)
(* and number of submissions.                                              *)
(*                                                                         *)
(* Requests may overlap.  What a request writes was scored on a row that   *)
(* was the user's once: its details were made by submissions that are      *)
(* among the saved ones to this day (Based).  As long as a user has not    *)
(* had two submissions in flight, the object a request scored is moreover  *)
(* what its submission makes of the row as it is, and save() finds and     *)
(* writes exactly what it changed (Current, Differing).                    *)
(*                                                                         *)
(* The sums of a row, of its final score and of the figures are folds over *)
(* finite sets.  The first part states what is needed of them; induction   *)
(* is over the subsets of a set, as a fact about sets.                     *)
(***************************************************************************)
EXTENDS ContestScoring, FiniteSetTheorems, SequenceTheorems, TLAPS


\* Induction over the subsets of a finite set, as a fact about sets: the
\* smallest subset that is not Good would have only Good ones below it.
LEMMA SubsetInduction ==
    ASSUME NEW S, IsFiniteSet(S), NEW Good, {} \in Good,
           \A T \in SUBSET S : (T # {} /\ \A x \in T : T \ {x} \in Good) => T \in Good
    PROVE  S \in Good
<1> DEFINE Bad == {T \in SUBSET S : T \notin Good}
<1> SUFFICES ASSUME Bad # {} PROVE FALSE
  OBVIOUS
<1>1. IsWellFoundedOn(StrictSubsetOrdering(S), SUBSET S)
  BY FS_StrictSubsetOrderingWellFounded, FS_FiniteSubsetsOfFinite
<1>2. PICK T \in Bad : \A U \in Bad : <<U, T>> \notin StrictSubsetOrdering(S)
  <2>1. Bad \subseteq SUBSET S
    OBVIOUS
  <2> HIDE DEF Bad
  <2> QED BY <1>1, <2>1, WFMin
<1>3. \A x \in T : T \ {x} \in Good
  <2> TAKE x \in T
  <2>1. <<T \ {x}, T>> \in StrictSubsetOrdering(S)
    BY DEF StrictSubsetOrdering
  <2> QED BY <1>2, <2>1
<1> QED BY <1>3

\* The same for the numbers.
LEMMA NumberInduction ==
    ASSUME NEW Good, 0 \in Good, \A n \in Nat : n \in Good => n + 1 \in Good
    PROVE  Nat \subseteq Good
<1> DEFINE Bad == {n \in Nat : n \notin Good}
<1> SUFFICES ASSUME Bad # {} PROVE FALSE
  OBVIOUS
<1>1. PICK n \in Bad : \A k \in Bad : <<k, n>> \notin OpToRel(<, Nat)
  <2>1. Bad \subseteq Nat
    OBVIOUS
  <2> HIDE DEF Bad
  <2> QED BY <2>1, NatLessThanWellFounded, WFMin
<1>2. n \in Nat /\ n # 0
  OBVIOUS
<1>3. n - 1 \in Nat /\ n - 1 < n /\ (n - 1) + 1 = n
  BY <1>2
<1>4. <<n - 1, n>> \in OpToRel(<, Nat)
  BY <1>2, <1>3 DEF OpToRel
<1>5. n - 1 \in Good
  BY <1>1, <1>3, <1>4
<1> QED BY <1>3, <1>5

-----------------------------------------------------------------------------
Pick(S) == CHOOSE x \in S : TRUE
IsFold(g, f, S) ==
    g = [T \in SUBSET S |-> IF T = {} THEN 0 ELSE f[Pick(T)] + g[T \ {Pick(T)}]]

\* The sum is a fold, ...
LEMMA SumIsFold ==
    ASSUME NEW f, NEW S
    PROVE  SumFunctionOnSet(f, S) = (CHOOSE g : IsFold(g, f, S))[S]
BY Zenon DEF SumFunctionOnSet, FoldFunctionOnSet, MapThenFoldSet, IsFold, Pick

\* ... there is one on every finite set, ...
LEMMA FoldExists ==
    ASSUME NEW f, NEW S, IsFiniteSet(S)
    PROVE  \E g : IsFold(g, f, S)
<1> DEFINE Once(g) ==
               [T \in SUBSET S |-> IF T = {} THEN 0 ELSE f[Pick(T)] + g[T \ {Pick(T)}]]
           Fits(g, n) == \A T \in SUBSET S : Cardinality(T) <= n => g[T] = Once(g)[T]
           Good == {n \in Nat : \E g : Fits(g, n)}
<1>1. \A T \in SUBSET S : T # {} =>
          /\ T \ {Pick(T)} \in SUBSET S
          /\ Cardinality(T) \in Nat /\ Cardinality(T \ {Pick(T)}) = Cardinality(T) - 1
  <2> SUFFICES ASSUME NEW T \in SUBSET S, T # {}
               PROVE  /\ T \ {Pick(T)} \in SUBSET S
                      /\ Cardinality(T) \in Nat
                      /\ Cardinality(T \ {Pick(T)}) = Cardinality(T) - 1
    OBVIOUS
  <2>1. Pick(T) \in T
    BY DEF Pick
  <2>2. IsFiniteSet(T)
    BY FS_Subset
  <2> QED BY <2>1, <2>2, FS_RemoveElement, FS_CardinalityType
<1>2. 0 \in Good
  <2> DEFINE g == [T \in SUBSET S |-> 0]
  <2>1. ASSUME NEW T \in SUBSET S, Cardinality(T) <= 0 PROVE g[T] = Once(g)[T]
    <3>1. IsFiniteSet(T) /\ Cardinality(T) \in Nat
      BY FS_Subset, FS_CardinalityType
    <3>2. T = {}
      BY <2>1, <3>1, FS_EmptySet
    <3> QED BY <3>2
  <2> QED BY <2>1
<1>3. ASSUME NEW n \in Nat, n \in Good PROVE n + 1 \in Good
  <2>1. PICK g : Fits(g, n)
    BY <1>3
  <2> DEFINE h == Once(g)
  <2>2. ASSUME NEW T \in SUBSET S, Cardinality(T) <= n + 1 PROVE h[T] = Once(h)[T]
    <3>1. CASE T = {}
      BY <3>1
    <3>2. CASE T # {}
      <4> DEFINE U == T \ {Pick(T)}
      <4>1. U \in SUBSET S /\ Cardinality(U) <= n
        BY <1>1, <2>2, <3>2
      <4>2. g[U] = h[U]
        BY <2>1, <4>1
      <4>3. h[T] = f[Pick(T)] + g[U] /\ Once(h)[T] = f[Pick(T)] + h[U]
        BY <3>2, <4>1
      <4> QED BY <4>2, <4>3
    <3> QED BY <3>1, <3>2
  <2>3. Fits(h, n + 1)
    BY <2>2
  <2> HIDE DEF Fits
  <2> QED BY <2>3
<1>4. Cardinality(S) \in Nat /\ Nat \subseteq Good
  <2>1. Cardinality(S) \in Nat
    BY FS_CardinalityType
  <2> HIDE DEF Good
  <2> QED BY <1>2, <1>3, <2>1, NumberInduction
<1>5. PICK g : Fits(g, Cardinality(S))
  BY <1>4
<1>6. \A T \in SUBSET S : g[T] = Once(g)[T]
  BY <1>5, FS_Subset
<1> DEFINE h == Once(g)
<1>7. \A T \in SUBSET S : T # {} => g[T \ {Pick(T)}] = h[T \ {Pick(T)}]
  BY <1>1, <1>6
<1>8. IsFold(h, f, S)
  BY <1>7 DEF IsFold
<1> QED BY <1>8

\* ... and only one.
LEMMA FoldIsUnique ==
    ASSUME NEW g, NEW h, NEW e, NEW f, NEW S, NEW R, IsFold(g, e, S), IsFold(h, f, R),
           NEW T, IsFiniteSet(T), T \subseteq S, T \subseteq R, \A x \in T : e[x] = f[x]
    PROVE  g[T] = h[T]
<1> DEFINE Good == {U \in SUBSET T : g[U] = h[U]}
<1>1. g[{}] = 0 /\ h[{}] = 0
  BY DEF IsFold
<1>2. ASSUME NEW U \in SUBSET T, U # {}, \A x \in U : U \ {x} \in Good PROVE U \in Good
  <2>1. Pick(U) \in U
    BY <1>2 DEF Pick
  <2>2. /\ g[U] = e[Pick(U)] + g[U \ {Pick(U)}]
        /\ h[U] = f[Pick(U)] + h[U \ {Pick(U)}]
    BY <1>2 DEF IsFold
  <2> QED BY <1>2, <2>1, <2>2
<1>3. {} \in Good
  BY <1>1
<1>4. T \in Good
  <2> HIDE DEF Good
  <2> QED BY <1>2, <1>3, SubsetInduction
<1> QED BY <1>4

\* No elements, no sum.
LEMMA SumOfNone == ASSUME NEW f PROVE SumFunctionOnSet(f, {}) = 0
<1>1. PICK g : IsFold(g, f, {})
  BY FoldExists, FS_EmptySet
<1>2. IsFold(CHOOSE h : IsFold(h, f, {}), f, {})
  BY <1>1
<1> QED BY <1>2, SumIsFold DEF IsFold

\* The sum is read off any fold on a larger set.
LEMMA SumOnSubset ==
    ASSUME NEW f, NEW g, NEW S, IsFiniteSet(S), IsFold(g, f, S), NEW T \in SUBSET S
    PROVE  SumFunctionOnSet(f, T) = g[T]
<1>1. IsFiniteSet(T)
  BY FS_Subset
<1>2. IsFold(CHOOSE h : IsFold(h, f, T), f, T)
  BY <1>1, FoldExists
<1>3. (CHOOSE h : IsFold(h, f, T))[T] = g[T]
  BY <1>1, <1>2, FoldIsUnique
<1> QED BY <1>3, SumIsFold

\* The order of the fold.
LEMMA SumByPick ==
    ASSUME NEW f, NEW S, IsFiniteSet(S), S # {}
    PROVE  /\ Pick(S) \in S
           /\ SumFunctionOnSet(f, S) = f[Pick(S)] + SumFunctionOnSet(f, S \ {Pick(S)})
<1>1. PICK g : IsFold(g, f, S)
  BY FoldExists
<1>2. g[S] = f[Pick(S)] + g[S \ {Pick(S)}]
  BY <1>1 DEF IsFold
<1>3. SumFunctionOnSet(f, S) = g[S] /\ SumFunctionOnSet(f, S \ {Pick(S)}) = g[S \ {Pick(S)}]
  BY <1>1, SumOnSubset
<1>4. Pick(S) \in S
  BY DEF Pick
<1> QED BY <1>2, <1>3, <1>4

\* The sum is of the elements' values, whatever the function is elsewhere.
LEMMA SumOfEqual ==
    ASSUME NEW e, NEW f, NEW S, IsFiniteSet(S), \A x \in S : e[x] = f[x]
    PROVE  SumFunctionOnSet(e, S) = SumFunctionOnSet(f, S)
<1>1. PICK g, h : IsFold(g, e, S) /\ IsFold(h, f, S)
  BY FoldExists
<1>2. g[S] = h[S]
  BY <1>1, FoldIsUnique
<1> QED BY <1>1, <1>2, SumOnSubset

\* Numbers add up to a number.
LEMMA SumIsNumber ==
    ASSUME NEW f, NEW S, IsFiniteSet(S), \A x \in S : f[x] \in Nat
    PROVE  SumFunctionOnSet(f, S) \in Nat
<1> DEFINE Good == {T \in SUBSET S : SumFunctionOnSet(f, T) \in Nat}
<1>1. ASSUME NEW T \in SUBSET S, T # {}, \A x \in T : T \ {x} \in Good PROVE T \in Good
  <2>1. IsFiniteSet(T)
    BY FS_Subset
  <2>2. Pick(T) \in T /\ SumFunctionOnSet(f, T) = f[Pick(T)] + SumFunctionOnSet(f, T \ {Pick(T)})
    BY <1>1, <2>1, SumByPick
  <2>3. f[Pick(T)] \in Nat /\ SumFunctionOnSet(f, T \ {Pick(T)}) \in Nat
    BY <1>1, <2>2
  <2>4. SumFunctionOnSet(f, T) \in Nat
    BY <2>2, <2>3
  <2> QED BY <2>4
<1>2. {} \in Good
  BY SumOfNone
<1>3. S \in Good
  <2> HIDE DEF Good
  <2> QED BY <1>1, <1>2, SubsetInduction
<1> QED BY <1>3

\* Any element may come first.
LEMMA SumByAny ==
    ASSUME NEW f, NEW S, IsFiniteSet(S), \A x \in S : f[x] \in Nat, NEW x \in S
    PROVE  SumFunctionOnSet(f, S) = f[x] + SumFunctionOnSet(f, S \ {x})
<1> DEFINE Sum(T) == SumFunctionOnSet(f, T)
           Good == {T \in SUBSET S : \A y \in T : Sum(T) = f[y] + Sum(T \ {y})}
<1>1. ASSUME NEW T \in SUBSET S, T # {}, \A y \in T : T \ {y} \in Good PROVE T \in Good
  <2> SUFFICES ASSUME NEW y \in T PROVE Sum(T) = f[y] + Sum(T \ {y})
    OBVIOUS
  <2> DEFINE p == Pick(T)
             rest == T \ {y, p}
  <2>1. IsFiniteSet(T) /\ IsFiniteSet(rest) /\ rest \subseteq S
    BY FS_Subset
  <2>2. p \in T /\ Sum(T) = f[p] + Sum(T \ {p})
    BY <1>1, <2>1, SumByPick
  <2>3. CASE p = y
    BY <2>2, <2>3
  <2>4. CASE p # y
    <3>1. Sum(T \ {p}) = f[y] + Sum(rest)
      <4>1. (T \ {p}) \ {y} = rest /\ T \ {p} \in Good /\ y \in T \ {p}
        BY <1>1, <2>2, <2>4
      <4> QED BY <4>1
    <3>2. Sum(T \ {y}) = f[p] + Sum(rest)
      <4>1. (T \ {y}) \ {p} = rest /\ T \ {y} \in Good /\ p \in T \ {y}
        BY <1>1, <2>2, <2>4
      <4> QED BY <4>1
    <3>3. f[y] \in Nat /\ f[p] \in Nat /\ Sum(rest) \in Nat
      BY <2>1, <2>2, SumIsNumber
    <3> HIDE DEF Sum, rest, p
    <3> QED BY <2>2, <3>1, <3>2, <3>3
  <2> QED BY <2>3, <2>4
<1>2. {} \in Good
  OBVIOUS
<1>3. S \in Good
  <2> HIDE DEF Good
  <2> QED BY <1>1, <1>2, SubsetInduction
<1> QED BY <1>3

\* More elements, and larger values, give a larger sum.
LEMMA SumGrows ==
    ASSUME NEW f, NEW h, NEW R, IsFiniteSet(R), NEW S \in SUBSET R,
           \A x \in R : h[x] \in Nat,
           \A x \in S : f[x] \in Nat /\ f[x] <= h[x]
    PROVE  SumFunctionOnSet(f, S) <= SumFunctionOnSet(h, R)
<1> DEFINE F(T) == SumFunctionOnSet(f, T)
           H(T) == SumFunctionOnSet(h, T)
           Good == {T \in SUBSET R : F(T \cap S) <= H(T)}
<1>1. ASSUME NEW T \in SUBSET R, T # {}, \A x \in T : T \ {x} \in Good PROVE T \in Good
  <2> DEFINE x == Pick(T)
             U == T \ {x}
  <2>1. IsFiniteSet(T) /\ IsFiniteSet(U) /\ IsFiniteSet(T \cap S) /\ IsFiniteSet(U \cap S)
    BY FS_Subset
  <2>2. x \in T /\ H(T) = h[x] + H(U)
    BY <1>1, <2>1, SumByPick
  <2>3. F(U \cap S) <= H(U)
    BY <1>1, <2>2
  <2>4. h[x] \in Nat /\ H(U) \in Nat /\ F(U \cap S) \in Nat
    BY <2>1, <2>2, SumIsNumber
  <2>5. CASE x \in S
    <3>1. F(T \cap S) = f[x] + F((T \cap S) \ {x})
      BY <2>1, <2>2, <2>5, SumByAny
    <3>2. (T \cap S) \ {x} = U \cap S /\ f[x] \in Nat /\ f[x] <= h[x]
      BY <2>2, <2>5
    <3>3. F(T \cap S) = f[x] + F(U \cap S)
      BY <3>1, <3>2
    <3>4. F(T \cap S) <= H(T)
      <4> HIDE DEF F, H, U, x
      <4> QED BY <2>2, <2>3, <2>4, <3>2, <3>3
    <3> QED BY <3>4
  <2>6. CASE x \notin S
    <3>1. T \cap S = U \cap S
      BY <2>6
    <3>2. F(T \cap S) <= H(T)
      <4> HIDE DEF F, H, U, x
      <4> QED BY <2>2, <2>3, <2>4, <3>1
    <3> QED BY <3>2
  <2> QED BY <2>5, <2>6
<1>2. {} \in Good
  BY SumOfNone
<1>3. R \in Good
  <2> HIDE DEF Good
  <2> QED BY <1>1, <1>2, SubsetInduction
<1>4. R \cap S = S
  OBVIOUS
<1> QED BY <1>3, <1>4

\* The sum of sums.
LEMMA SumPlus ==
    ASSUME NEW f, NEW h, NEW s, NEW S, IsFiniteSet(S),
           \A x \in S : f[x] \in Nat /\ h[x] \in Nat /\ s[x] = f[x] + h[x]
    PROVE  SumFunctionOnSet(s, S) = SumFunctionOnSet(f, S) + SumFunctionOnSet(h, S)
<1> DEFINE F(T) == SumFunctionOnSet(f, T)
           H(T) == SumFunctionOnSet(h, T)
           B(T) == SumFunctionOnSet(s, T)
           Good == {T \in SUBSET S : B(T) = F(T) + H(T)}
<1>1. ASSUME NEW T \in SUBSET S, T # {}, \A x \in T : T \ {x} \in Good PROVE T \in Good
  <2> DEFINE x == Pick(T)
             U == T \ {x}
  <2>1. IsFiniteSet(T) /\ IsFiniteSet(U)
    BY FS_Subset
  <2>2. /\ x \in T
        /\ F(T) = f[x] + F(U) /\ H(T) = h[x] + H(U) /\ B(T) = s[x] + B(U)
    BY <1>1, <2>1, SumByPick
  <2>3. B(U) = F(U) + H(U)
    BY <1>1, <2>2
  <2>4. f[x] \in Nat /\ h[x] \in Nat /\ s[x] = f[x] + h[x] /\ F(U) \in Nat /\ H(U) \in Nat
    BY <2>1, <2>2, SumIsNumber
  <2>5. B(T) = F(T) + H(T)
    <3> HIDE DEF F, H, B, U, x
    <3> QED BY <2>2, <2>3, <2>4
  <2> QED BY <2>5
<1>2. {} \in Good
  BY SumOfNone
<1>3. S \in Good
  <2> HIDE DEF Good
  <2> QED BY <1>1, <1>2, SubsetInduction
<1> QED BY <1>3

\* Counting is summing ones.
LEMMA SumCounts ==
    ASSUME NEW f, NEW R, IsFiniteSet(R), NEW S \in SUBSET R,
           \A x \in R : f[x] = IF x \in S THEN 1 ELSE 0
    PROVE  SumFunctionOnSet(f, R) = Cardinality(S)
<1> DEFINE F(T) == SumFunctionOnSet(f, T)
           Good == {T \in SUBSET R : F(T) = Cardinality(T \cap S)}
<1>1. ASSUME NEW T \in SUBSET R, T # {}, \A x \in T : T \ {x} \in Good PROVE T \in Good
  <2> DEFINE x == Pick(T)
             U == T \ {x}
  <2>1. IsFiniteSet(T) /\ IsFiniteSet(U) /\ IsFiniteSet(T \cap S) /\ IsFiniteSet(U \cap S)
    BY FS_Subset
  <2>2. x \in T /\ F(T) = f[x] + F(U)
    BY <1>1, <2>1, SumByPick
  <2>3. F(U) = Cardinality(U \cap S)
    BY <1>1, <2>2
  <2>4. CASE x \in S
    <3>1. T \cap S = (U \cap S) \cup {x} /\ x \notin U \cap S
      BY <2>2, <2>4
    <3>2. Cardinality(T \cap S) = Cardinality(U \cap S) + 1 /\ Cardinality(U \cap S) \in Nat
      BY <2>1, <3>1, FS_AddElement, FS_CardinalityType
    <3>3. f[x] = 1
      BY <2>2, <2>4
    <3>4. F(T) = Cardinality(T \cap S)
      <4> HIDE DEF F, U, x
      <4> QED BY <2>2, <2>3, <3>2, <3>3
    <3> QED BY <3>4
  <2>5. CASE x \notin S
    <3>1. T \cap S = U \cap S /\ f[x] = 0
      BY <2>2, <2>5
    <3>2. Cardinality(U \cap S) \in Nat
      BY <2>1, FS_CardinalityType
    <3>3. F(T) = Cardinality(T \cap S)
      <4> HIDE DEF F, U, x
      <4> QED BY <2>2, <2>3, <3>1, <3>2
    <3> QED BY <3>3
  <2> QED BY <2>4, <2>5
<1>2. {} \in Good
  BY SumOfNone, FS_EmptySet
<1>3. R \in Good
  <2> HIDE DEF Good
  <2> QED BY <1>1, <1>2, SubsetInduction
<1>4. R \cap S = S
  OBVIOUS
<1> QED BY <1>3, <1>4

\* A sum of equal numbers is a product.
LEMMA SumOfConstant ==
    ASSUME NEW f, NEW S, IsFiniteSet(S), NEW c \in Nat, \A x \in S : f[x] = c
    PROVE  SumFunctionOnSet(f, S) = c * Cardinality(S)
<1> DEFINE F(T) == SumFunctionOnSet(f, T)
           Good == {T \in SUBSET S : F(T) = c * Cardinality(T)}
<1>1. ASSUME NEW T \in SUBSET S, T # {}, \A x \in T : T \ {x} \in Good PROVE T \in Good
  <2> DEFINE x == Pick(T)
             U == T \ {x}
  <2>1. IsFiniteSet(T) /\ IsFiniteSet(U)
    BY FS_Subset
  <2>2. x \in T /\ F(T) = f[x] + F(U)
    BY <1>1, <2>1, SumByPick
  <2>3. F(U) = c * Cardinality(U) /\ f[x] = c
    BY <1>1, <2>2
  <2>4. Cardinality(U) \in Nat /\ Cardinality(T) = Cardinality(U) + 1
    BY <2>1, <2>2, FS_RemoveElement, FS_CardinalityType
  <2>5. F(T) = c * Cardinality(T)
    <3> HIDE DEF F, U, x
    <3> QED BY <2>2, <2>3, <2>4
  <2> QED BY <2>5
<1>2. {} \in Good
  BY SumOfNone, FS_EmptySet
<1>3. S \in Good
  <2> HIDE DEF Good
  <2> QED BY <1>1, <1>2, SubsetInduction
<1> QED BY <1>3

\* Pairs are counted by their first or by their second members.
LEMMA DoubleCounting ==
    ASSUME NEW A, NEW B, IsFiniteSet(A), IsFiniteSet(B), NEW Related
    PROVE  SumFunctionOnSet([a \in A |-> Cardinality({b \in B : <<a, b>> \in Related})], A)
               = SumFunctionOnSet([b \in B |-> Cardinality({a \in A : <<a, b>> \in Related})], B)
<1> DEFINE ByA == [a \in A |-> Cardinality({b \in B : <<a, b>> \in Related})]
           In(T) == [b \in B |-> Cardinality({a \in T : <<a, b>> \in Related})]
           Good == {T \in SUBSET A : SumFunctionOnSet(ByA, T) = SumFunctionOnSet(In(T), B)}
<1>0. \A a \in A : ByA[a] \in Nat /\ {b \in B : <<a, b>> \in Related} \in SUBSET B
  <2> TAKE a \in A
  <2>1. {b \in B : <<a, b>> \in Related} \in SUBSET B
    OBVIOUS
  <2>2. IsFiniteSet({b \in B : <<a, b>> \in Related})
    BY <2>1, FS_Subset
  <2> QED BY <2>1, <2>2, FS_CardinalityType
<1>1. ASSUME NEW T \in SUBSET A, T # {}, \A x \in T : T \ {x} \in Good PROVE T \in Good
  <2> DEFINE x == Pick(T)
             U == T \ {x}
             one == [b \in B |-> IF b \in {c \in B : <<x, c>> \in Related} THEN 1 ELSE 0]
  <2>1. IsFiniteSet(T) /\ IsFiniteSet(U)
    BY FS_Subset
  <2>2. x \in T /\ SumFunctionOnSet(ByA, T) = ByA[x] + SumFunctionOnSet(ByA, U)
    BY <1>1, <2>1, SumByPick
  <2>3. SumFunctionOnSet(ByA, U) = SumFunctionOnSet(In(U), B)
    BY <1>1, <2>2
  <2>4. SumFunctionOnSet(one, B) = ByA[x]
    <3>1. {c \in B : <<x, c>> \in Related} \in SUBSET B
      OBVIOUS
    <3>2. \A b \in B : one[b] = IF b \in {c \in B : <<x, c>> \in Related} THEN 1 ELSE 0
      OBVIOUS
    <3>3. SumFunctionOnSet(one, B) = Cardinality({c \in B : <<x, c>> \in Related})
      <4> HIDE DEF one, x
      <4> QED BY <3>1, <3>2, SumCounts
    <3>4. x \in A
      BY <2>2
    <3> HIDE DEF one, x
    <3> QED BY <3>3, <3>4
  <2>5. \A b \in B : one[b] \in Nat /\ In(U)[b] \in Nat /\ In(T)[b] = one[b] + In(U)[b]
    <3> SUFFICES ASSUME NEW b \in B
                 PROVE  /\ one[b] \in Nat /\ In(U)[b] \in Nat
                        /\ In(T)[b] = one[b] + In(U)[b]
      OBVIOUS
    <3> DEFINE V == {a \in U : <<a, b>> \in Related}
               W == {a \in T : <<a, b>> \in Related}
    <3>1. IsFiniteSet(V)
      BY <2>1, FS_Subset
    <3>2. Cardinality(V) \in Nat
      BY <3>1, FS_CardinalityType
    <3>3. In(U)[b] = Cardinality(V) /\ In(T)[b] = Cardinality(W)
      OBVIOUS
    <3>4. CASE <<x, b>> \in Related
      <4>1. W = V \cup {x} /\ x \notin V
        BY <2>2, <3>4
      <4>2. Cardinality(W) = Cardinality(V) + 1
        <5> HIDE DEF V, W, x
        <5> QED BY <3>1, <4>1, FS_AddElement
      <4>3. one[b] = 1
        BY <3>4
      <4> HIDE DEF V, W, x, one, In
      <4> QED BY <3>2, <3>3, <4>2, <4>3
    <3>5. CASE <<x, b>> \notin Related
      <4>1. W = V
        BY <2>2, <3>5
      <4>2. one[b] = 0
        BY <3>5
      <4> HIDE DEF V, W, x, one, In
      <4> QED BY <3>2, <3>3, <4>1, <4>2
    <3> QED BY <3>4, <3>5
  <2>6. SumFunctionOnSet(In(T), B)
            = SumFunctionOnSet(one, B) + SumFunctionOnSet(In(U), B)
    <3> HIDE DEF one, In, U, x
    <3> QED BY <2>5, SumPlus
  <2>7. SumFunctionOnSet(ByA, T) = SumFunctionOnSet(In(T), B)
    <3> HIDE DEF ByA, In, one, U, x
    <3> QED BY <2>2, <2>3, <2>4, <2>6
  <2> QED BY <2>7
<1>2. {} \in Good
  <2>1. \A b \in B : In({})[b] = 0
    <3> TAKE b \in B
    <3>1. {a \in {} : <<a, b>> \in Related} = {}
      OBVIOUS
    <3> QED BY <3>1, FS_EmptySet
  <2>2. SumFunctionOnSet(In({}), B) = 0 * Cardinality(B)
    <3> HIDE DEF In
    <3> QED BY <2>1, SumOfConstant
  <2>3. Cardinality(B) \in Nat
    BY FS_CardinalityType
  <2>4. SumFunctionOnSet(ByA, {}) = 0
    BY SumOfNone
  <2>5. SumFunctionOnSet(ByA, {}) = SumFunctionOnSet(In({}), B)
    <3> HIDE DEF ByA, In
    <3> QED BY <2>2, <2>3, <2>4
  <2> QED BY <2>5
<1>3. A \in Good
  <2> HIDE DEF Good
  <2> QED BY <1>1, <1>2, SubsetInduction
<1> QED BY <1>3
-----------------------------------------------------------------------------
(* The inductive invariant *)

Busy(r) == pc[r] # "idle"

\* Types; a busy request has a user, an object and a submission.
Shapes ==
    /\ TypeOK
    /\ \A r \in Requests : IF Busy(r)
                           THEN who[r] \in Users /\ mem[r] \in Row /\ job[r] \in Submissions
                           ELSE who[r] = None

\* A user who never had two submissions in flight has one now, ...
OneAtATime ==
    \A r, s \in Requests :
        Busy(r) /\ Busy(s) /\ who[r] = who[s] /\ who[r] \notin raced => r = s

\* ... so that the object is what it makes of the row, ...
Current ==
    \A r \in Requests :
        Busy(r) /\ who[r] \notin raced => mem[r] = UpdateProblemScore(db[who[r]], job[r])

\* ... and the columns that differ are still those that were found.
Differing ==
    \A r \in Requests :
        pc[r] = "update" /\ who[r] \notin raced
            => cols[r] = {c \in Columns : db[who[r]][c] # mem[r][c]}

\* The correct ones of the submissions that were kept.
CorrectOf(log, kept) == {k \in kept : log[k].points > 0}

\* The details of a row are made by some of the saved submissions, ...
Made(row, logs) ==
    \A p \in Problems : \E kept \in SUBSET (1 .. Len(logs[p])) :
        MadeOf(row.problemScores[p], logs[p], kept)

\* ... or by all of them.
MadeOfAll(row, logs) ==
    \A p \in Problems : MadeOf(row.problemScores[p], logs[p], 1 .. Len(logs[p]))

\* The object of a request is what its submission made of such a row.
Based ==
    \A r \in Requests : Busy(r) =>
        \E base \in Row : /\ mem[r] = UpdateProblemScore(base, job[r])
                          /\ Made(base, judged[who[r]])

\* RowsMatchSubmissions, row by row.
RowsKept ==
    \A u \in Users :
        /\ Made(db[u], judged[u])
        /\ u \notin raced => Counted(db[u]) /\ MadeOfAll(db[u], judged[u])

\* The time of the last solve is the latest of the times.
LastIsLatest(row) ==
    IF SolvedProblems(row) = {} THEN row.timeOfLastSolve = None
    ELSE /\ \E p \in SolvedProblems(row) : row.timeOfLastSolve = row.problemScores[p].solvedAt
         /\ \A p \in SolvedProblems(row) : row.problemScores[p].solvedAt <= row.timeOfLastSolve

SolvedBefore(row, t) ==
    \A p \in SolvedProblems(row) : row.problemScores[p].solvedAt <= t

LastSolves == \A u \in Users \ raced : LastIsLatest(db[u])

\* Nothing was solved later than the submission that is under way was sent.
InOrder ==
    /\ \A u \in Users \ raced : SolvedBefore(db[u], now)
    /\ \A r \in Requests : Busy(r) =>
           /\ job[r].time <= now
           /\ who[r] \notin raced => SolvedBefore(db[who[r]], job[r].time)

\* The inductive invariant.
IInv ==
    /\ Shapes /\ OneAtATime /\ Current /\ Differing /\ Based
    /\ RowsKept /\ LastSolves /\ InOrder
-----------------------------------------------------------------------------
(* Lemmas about rows *)

LEMMA Constants ==
    /\ None \notin Users /\ None \notin Nat /\ None \notin ProblemScore
    /\ IsFiniteSet(Users) /\ IsFiniteSet(Problems)
    /\ Points \subseteq Nat /\ BasePoints \in [Problems -> Nat]
    /\ ContestLength \in Nat /\ ContestLength > 0 /\ MaxRequests \in Nat
BY ScoringAssumption

LEMMA AttemptedType ==
    ASSUME NEW row \in Row, NEW p \in Problems
    PROVE  /\ Attempted(row, p) \in ProblemScore
           /\ row.problemScores[p] \in ProblemScore \cup {None}
           /\ row.problemScores[p] = None => Attempted(row, p) = [Unsolved EXCEPT !.attempts = 1]
           /\ row.problemScores[p] # None =>
                  Attempted(row, p) = [row.problemScores[p] EXCEPT !.attempts = @ + 1]
           /\ Attempted(row, p).attempts > 0
<1>1. row.problemScores[p] \in ProblemScore \cup {None}
  BY DEF Row
<1>2. CASE row.problemScores[p] = None
  <2>1. Attempted(row, p) = [Unsolved EXCEPT !.attempts = 1]
    BY <1>2 DEF Attempted, Unsolved
  <2> QED BY <1>1, <1>2, <2>1 DEF Unsolved, ProblemScore
<1>3. CASE row.problemScores[p] # None
  <2>1. row.problemScores[p] \in ProblemScore
    BY <1>1, <1>3
  <2>2. Attempted(row, p) = [row.problemScores[p] EXCEPT !.attempts = @ + 1]
    BY <1>3 DEF Attempted
  <2> QED BY <1>3, <2>1, <2>2 DEF ProblemScore
<1> QED BY <1>2, <1>3

LEMMA SolvedType ==
    ASSUME NEW current \in ProblemScore, current.attempts > 0, NEW submission \in Submissions
    PROVE  Solved(current, submission) \in ProblemScore
<1> DEFINE wrong == current.attempts - 1
           penalty == wrong * PENALTY_PER_WRONG_SUBMISSION
           a == [current EXCEPT !.score = submission.points]
           b == [a EXCEPT !.solvedAt = submission.time]
           c == [b EXCEPT !.wrongSubmissions = wrong]
<1>1. submission.points \in Nat /\ submission.time \in Nat
  BY Constants DEF Submissions
<1>2. wrong \in Nat /\ penalty \in Nat
  BY DEF ProblemScore, PENALTY_PER_WRONG_SUBMISSION
<1>3. Solved(current, submission) = [c EXCEPT !.penaltyTime = penalty]
  BY DEF Solved
<1> HIDE DEF wrong, penalty
<1>4. a \in ProblemScore
  BY <1>1 DEF ProblemScore
<1> HIDE DEF a
<1>5. b \in ProblemScore
  BY <1>1, <1>4 DEF ProblemScore
<1> HIDE DEF b
<1>6. c \in ProblemScore
  BY <1>2, <1>5 DEF ProblemScore
<1> HIDE DEF c
<1> QED BY <1>2, <1>3, <1>6 DEF ProblemScore

\* What updateProblemScoreICPC does to a row, field by field.
LEMMA UpdateFields ==
    ASSUME NEW row \in Row, NEW s \in Submissions
    PROVE  LET p == s.problem
               current == Attempted(row, p)
               new == UpdateProblemScore(row, s)
           IN  /\ p \in Problems
               /\ new \in Row
               /\ Scores(row, s) =>
                      /\ new.problemScores =
                             [row.problemScores EXCEPT ![p] = Solved(current, s)]
                      /\ new.problemsSolved = row.problemsSolved + 1
                      /\ new.totalScore = row.totalScore + s.points
                      /\ new.timeOfLastSolve = s.time
                      /\ new.totalPenaltyMinutes =
                             row.totalPenaltyMinutes + Solved(current, s).penaltyTime
               /\ ~Scores(row, s) =>
                      /\ new.problemScores = [row.problemScores EXCEPT ![p] = current]
                      /\ new.problemsSolved = row.problemsSolved
                      /\ new.totalScore = row.totalScore
                      /\ new.timeOfLastSolve = row.timeOfLastSolve
                      /\ new.totalPenaltyMinutes = row.totalPenaltyMinutes
<1> DEFINE p == s.problem
           current == Attempted(row, p)
           solved == Solved(current, s)
           new == UpdateProblemScore(row, s)
<1>1. p \in Problems /\ s.points \in Nat /\ s.time \in Nat
  BY Constants DEF Submissions
<1>2. current \in ProblemScore /\ solved \in ProblemScore
  BY <1>1, AttemptedType, SolvedType
<1> DEFINE counted == [row EXCEPT !.totalSubmissions = @ + 1]
<1>3. counted \in Row
  BY DEF Row
<1>4. /\ counted.problemScores = row.problemScores
      /\ counted.problemsSolved = row.problemsSolved
      /\ counted.totalScore = row.totalScore
      /\ counted.timeOfLastSolve = row.timeOfLastSolve
      /\ counted.totalPenaltyMinutes = row.totalPenaltyMinutes
  BY DEF Row
<1>5. CASE Scores(row, s)
  <2> DEFINE a == [counted EXCEPT !.problemScores[p] = solved]
             b == [a EXCEPT !.problemsSolved = @ + 1]
             c == [b EXCEPT !.totalScore = @ + s.points]
             d == [c EXCEPT !.timeOfLastSolve = s.time]
             e == [d EXCEPT !.totalPenaltyMinutes = @ + solved.penaltyTime]
  <2>1. new = e
    BY <1>5 DEF UpdateProblemScore
  <2>2. solved.penaltyTime \in Nat
    BY <1>2 DEF ProblemScore
  <2> HIDE DEF new, current, solved, p, counted
  <2>3. a \in Row
    BY <1>1, <1>2, <1>3 DEF Row
  <2>4. /\ a.problemScores = [counted.problemScores EXCEPT ![p] = solved]
        /\ a.problemsSolved = counted.problemsSolved
        /\ a.totalScore = counted.totalScore
        /\ a.totalPenaltyMinutes = counted.totalPenaltyMinutes
    BY <1>3 DEF Row
  <2> HIDE DEF a
  <2>5. b \in Row
    BY <2>3 DEF Row
  <2>6. /\ b.problemScores = a.problemScores /\ b.problemsSolved = a.problemsSolved + 1
        /\ b.totalScore = a.totalScore /\ b.totalPenaltyMinutes = a.totalPenaltyMinutes
    BY <2>3 DEF Row
  <2> HIDE DEF b
  <2>7. c \in Row
    BY <1>1, <2>5 DEF Row
  <2>8. /\ c.problemScores = b.problemScores /\ c.problemsSolved = b.problemsSolved
        /\ c.totalScore = b.totalScore + s.points
        /\ c.totalPenaltyMinutes = b.totalPenaltyMinutes
    BY <2>5 DEF Row
  <2> HIDE DEF c
  <2>9. d \in Row
    BY <1>1, <2>7 DEF Row
  <2>10. /\ d.problemScores = c.problemScores /\ d.problemsSolved = c.problemsSolved
         /\ d.totalScore = c.totalScore /\ d.timeOfLastSolve = s.time
         /\ d.totalPenaltyMinutes = c.totalPenaltyMinutes
    BY <2>7 DEF Row
  <2> HIDE DEF d
  <2>11. e \in Row
    BY <2>2, <2>9 DEF Row
  <2>12. /\ e.problemScores = d.problemScores /\ e.problemsSolved = d.problemsSolved
         /\ e.totalScore = d.totalScore /\ e.timeOfLastSolve = d.timeOfLastSolve
         /\ e.totalPenaltyMinutes = d.totalPenaltyMinutes + solved.penaltyTime
    BY <2>9 DEF Row
  <2> HIDE DEF e
  <2>13. /\ new.problemScores = [row.problemScores EXCEPT ![p] = solved]
         /\ new.problemsSolved = row.problemsSolved + 1
         /\ new.totalScore = row.totalScore + s.points
         /\ new.timeOfLastSolve = s.time
         /\ new.totalPenaltyMinutes = row.totalPenaltyMinutes + solved.penaltyTime
    BY <1>4, <2>1, <2>4, <2>6, <2>8, <2>10, <2>12
  <2> QED BY <1>1, <1>5, <2>1, <2>11, <2>13 DEF new, current, solved, p
<1>6. CASE ~Scores(row, s)
  <2> DEFINE a == [counted EXCEPT !.problemScores[p] = current]
  <2>1. new = a
    BY <1>6 DEF UpdateProblemScore
  <2> HIDE DEF new, current, solved, p, counted
  <2>2. a \in Row
    BY <1>1, <1>2, <1>3 DEF Row
  <2>3. /\ a.problemScores = [counted.problemScores EXCEPT ![p] = current]
        /\ a.problemsSolved = counted.problemsSolved
        /\ a.totalScore = counted.totalScore
        /\ a.timeOfLastSolve = counted.timeOfLastSolve
        /\ a.totalPenaltyMinutes = counted.totalPenaltyMinutes
    BY <1>3 DEF Row
  <2> HIDE DEF a
  <2>4. /\ new.problemScores = [row.problemScores EXCEPT ![p] = current]
        /\ new.problemsSolved = row.problemsSolved
        /\ new.totalScore = row.totalScore
        /\ new.timeOfLastSolve = row.timeOfLastSolve
        /\ new.totalPenaltyMinutes = row.totalPenaltyMinutes
    BY <1>4, <2>1, <2>3
  <2> QED BY <1>1, <1>6, <2>1, <2>2, <2>4 DEF new, current, solved, p
<1> QED BY <1>5, <1>6

LEMMA ColumnNames ==
    /\ Columns = {"problemsSolved", "totalSubmissions", "totalScore",
                  "totalPenaltyMinutes", "timeOfLastSolve", "problemScores"}
    /\ \A row \in Row : DOMAIN row = Columns /\ row = [c \in Columns |-> row[c]]
BY DEF Columns, Row

\* save() writes the object's columns into the row.
LEMMA WrittenType ==
    ASSUME NEW row \in Row, NEW object \in Row, NEW columns
    PROVE  Written(row, object, columns) \in Row
<1> DEFINE w == Written(row, object, columns)
<1>1. w = [problemsSolved |-> w.problemsSolved, totalSubmissions |-> w.totalSubmissions,
           totalScore |-> w.totalScore, totalPenaltyMinutes |-> w.totalPenaltyMinutes,
           timeOfLastSolve |-> w.timeOfLastSolve, problemScores |-> w.problemScores]
  BY DEF Written, Columns
<1>2. \A c \in Columns : w[c] \in {row[c], object[c]}
  BY DEF Written
<1>3. /\ w.problemsSolved \in Nat /\ w.totalSubmissions \in Nat /\ w.totalScore \in Nat
      /\ w.totalPenaltyMinutes \in Nat /\ w.timeOfLastSolve \in Nat \cup {None}
      /\ w.problemScores \in [Problems -> ProblemScore \cup {None}]
  <2> HIDE DEF w
  <2>1. w.problemsSolved \in Nat /\ w.totalSubmissions \in Nat /\ w.totalScore \in Nat
    BY <1>2 DEF Row, Columns
  <2>2. w.totalPenaltyMinutes \in Nat /\ w.timeOfLastSolve \in Nat \cup {None}
    BY <1>2 DEF Row, Columns
  <2>3. w.problemScores \in [Problems -> ProblemScore \cup {None}]
    BY <1>2 DEF Row, Columns
  <2> QED BY <2>1, <2>2, <2>3
<1> HIDE DEF w
<1>4. w \in Row
  BY <1>1, <1>3 DEF Row
<1> QED BY <1>4 DEF w

\* Writing the columns that differ makes the row the object.
LEMMA WrittenAll ==
    ASSUME NEW row \in Row, NEW object \in Row
    PROVE  Written(row, object, {c \in Columns : row[c] # object[c]}) = object
<1>1. object = [c \in Columns |-> object[c]]
  BY ColumnNames
<1>2. Written(row, object, {c \in Columns : row[c] # object[c]}) = [c \in Columns |-> object[c]]
  BY DEF Written
<1> QED BY <1>1, <1>2
-----------------------------------------------------------------------------
(* Types *)

LEMMA UpdateType ==
    ASSUME NEW row \in Row, NEW s \in Submissions
    PROVE  UpdateProblemScore(row, s) \in Row
BY UpdateFields

LEMMA ShapesInit == Init => Shapes
<1> SUFFICES ASSUME Init PROVE Shapes
  OBVIOUS
<1>1. db \in [Users -> Row]
  BY DEF Init, Row
<1>2. judged \in [Users -> [Problems -> Seq(Submissions)]]
  BY DEF Init
<1>3. TypeOK
  BY <1>1, <1>2, Constants DEF Init, TypeOK
<1> QED BY <1>3 DEF Init, Shapes, Busy

LEMMA DoneShapes ==
    ASSUME Shapes, NEW r \in Requests, Done(r), db' \in [Users -> Row],
           updated' \in [Users -> 0 .. MaxRequests],
           judged' \in [Users -> [Problems -> Seq(Submissions)]]
    PROVE  Shapes'
<1>1. TypeOK'
  BY DEF Shapes, TypeOK, Done
<1>2. ASSUME NEW s \in Requests
      PROVE  IF Busy(s)'
             THEN who'[s] \in Users /\ mem'[s] \in Row /\ job'[s] \in Submissions
             ELSE who'[s] = None
  BY <1>2 DEF Shapes, TypeOK, Done, Busy
<1> QED BY <1>1, <1>2 DEF Shapes

LEMMA ShapesStep == Shapes /\ [Next]_vars => Shapes'
<1> SUFFICES ASSUME Shapes, [Next]_vars PROVE Shapes'
  OBVIOUS
<1> USE DEF Shapes, TypeOK, Busy
<1>1. ASSUME NEW r \in Requests, NEW u \in Users, NEW p \in Problems, NEW points \in Points,
             Submit(r, u, p, points)
      PROVE  Shapes'
  <2> DEFINE s == [problem |-> p, points |-> points, time |-> now]
  <2>1. s \in Submissions
    BY DEF Submissions
  <2>2. UpdateProblemScore(db[u], s) \in Row
    BY <2>1, UpdateType
  <2>3. /\ now' = now + 1 /\ now < MaxRequests
        /\ pc' = [pc EXCEPT ![r] = "select"] /\ who' = [who EXCEPT ![r] = u]
        /\ job' = [job EXCEPT ![r] = s]
        /\ mem' = [mem EXCEPT ![r] = UpdateProblemScore(db[u], s)]
        /\ raced' \in {raced, raced \cup {u}}
        /\ UNCHANGED <<db, updated, cols, judged>>
    BY <1>1 DEF Submit
  <2> HIDE DEF s
  <2>4. TypeOK'
    BY <2>1, <2>2, <2>3, Constants
  <2>5. ASSUME NEW t \in Requests
        PROVE  IF pc'[t] # "idle"
               THEN who'[t] \in Users /\ mem'[t] \in Row /\ job'[t] \in Submissions
               ELSE who'[t] = None
    BY <2>1, <2>2, <2>3
  <2> QED BY <2>4, <2>5
<1>2. ASSUME NEW r \in Requests, Select(r) PROVE Shapes'
  BY <1>2 DEF Select
<1>3. ASSUME NEW r \in Requests, Update(r) PROVE Shapes'
  <2> DEFINE u == who[r]
  <2>1. u \in Users /\ mem[r] \in Row /\ job[r] \in Submissions /\ Done(r)
    BY <1>3 DEF Update
  <2>2. db' = [db EXCEPT ![u] = Written(db[u], mem[r], cols[r])]
    BY <1>3 DEF Update
  <2>3. db' \in [Users -> Row]
    BY <2>1, <2>2, WrittenType
  <2>4. updated' \in [Users -> 0 .. MaxRequests]
    BY <1>3, <2>1 DEF Update
  <2>5. judged' = [judged EXCEPT ![u][job[r].problem] = Append(@, job[r])]
    BY <1>3 DEF Update
  <2>6. job[r].problem \in Problems
    BY <2>1 DEF Submissions
  <2>7. Append(judged[u][job[r].problem], job[r]) \in Seq(Submissions)
    BY <2>1, <2>6, AppendProperties
  <2>8. judged' \in [Users -> [Problems -> Seq(Submissions)]]
    BY <2>1, <2>5, <2>6, <2>7
  <2> QED BY <2>1, <2>3, <2>4, <2>8, DoneShapes
<1>4. ASSUME NEW r \in Requests, Fails(r) PROVE Shapes'
  BY <1>4, DoneShapes DEF Fails
<1>5. CASE Idle
  BY <1>5 DEF Idle, vars, requestVars
<1>6. CASE UNCHANGED vars
  BY <1>6 DEF vars, requestVars
<1> QED BY <1>1, <1>2, <1>3, <1>4, <1>5, <1>6 DEF Next

\* Every variable keeps its type, however requests overlap: in particular an
\* accepted attempt is never counted before it was made, so that no number of
\* wrong submissions is negative.
THEOREM TypeCorrect == Spec => []TypeOK
<1>1. Shapes => TypeOK
  BY DEF Shapes
<1> QED BY <1>1, ShapesInit, ShapesStep, PTL DEF Spec
-----------------------------------------------------------------------------
(* What a submission does to the solved problems of a row *)

LEMMA SolvedEntries ==
    ASSUME NEW row \in Row
    PROVE  /\ SolvedProblems(row) \in SUBSET Problems
           /\ IsFiniteSet(SolvedProblems(row))
           /\ \A p \in SolvedProblems(row) :
                  /\ row.problemScores[p] \in ProblemScore
                  /\ row.problemScores[p].score \in Nat
                  /\ row.problemScores[p].penaltyTime \in Nat
                  /\ row.problemScores[p].wrongSubmissions \in Nat
                  /\ row.problemScores[p].solvedAt \in Nat
<1>1. SolvedProblems(row) \in SUBSET Problems
  BY DEF SolvedProblems
<1>2. IsFiniteSet(SolvedProblems(row))
  BY <1>1, Constants, FS_Subset
<1>3. ASSUME NEW p \in SolvedProblems(row)
      PROVE  /\ row.problemScores[p] \in ProblemScore
             /\ row.problemScores[p].solvedAt # None
  BY AttemptedType DEF SolvedProblems
<1> QED BY <1>1, <1>2, <1>3 DEF ProblemScore

\* A first correct solution adds its problem; nothing else of the solved
\* problems changes.
LEMMA UpdateSolves ==
    ASSUME NEW row \in Row, NEW s \in Submissions, Scores(row, s)
    PROVE  LET p == s.problem
               new == UpdateProblemScore(row, s)
               solved == Solved(Attempted(row, p), s)
           IN  /\ p \in Problems /\ p \notin SolvedProblems(row)
               /\ SolvedProblems(new) = SolvedProblems(row) \cup {p}
               /\ new.problemScores[p] = solved
               /\ solved \in ProblemScore
               /\ solved.score = s.points /\ solved.solvedAt = s.time
               /\ solved.attempts = Attempted(row, p).attempts
               /\ solved.wrongSubmissions = Attempted(row, p).attempts - 1
               /\ \A q \in Problems \ {p} : new.problemScores[q] = row.problemScores[q]
<1> DEFINE p == s.problem
           new == UpdateProblemScore(row, s)
           current == Attempted(row, p)
           solved == Solved(current, s)
<1>1. p \in Problems /\ s.time \in Nat /\ s.time # None
  BY Constants DEF Submissions
<1>2. new.problemScores = [row.problemScores EXCEPT ![p] = solved]
  BY UpdateFields
<1>3. row.problemScores \in [Problems -> ProblemScore \cup {None}]
  BY DEF Row
<1>4. current \in ProblemScore /\ current.attempts > 0 /\ solved \in ProblemScore
  BY <1>1, AttemptedType, SolvedType
<1>5. /\ solved.score = s.points /\ solved.solvedAt = s.time
      /\ solved.attempts = current.attempts
      /\ solved.wrongSubmissions = current.attempts - 1
  <2> HIDE DEF current, p
  <2> QED BY <1>4 DEF Solved, ProblemScore
<1>6. current.solvedAt = None
  BY DEF Scores
<1>7. p \notin SolvedProblems(row)
  <2> SUFFICES ASSUME p \in SolvedProblems(row) PROVE FALSE
    OBVIOUS
  <2>1. row.problemScores[p] # None /\ row.problemScores[p].solvedAt # None
    BY DEF SolvedProblems
  <2>2. row.problemScores[p] \in ProblemScore
    BY <1>1, <1>3, <2>1
  <2>3. current = [row.problemScores[p] EXCEPT !.attempts = @ + 1]
    BY <1>1, <2>1, AttemptedType
  <2>4. current.solvedAt = row.problemScores[p].solvedAt
    BY <2>2, <2>3 DEF ProblemScore
  <2> QED BY <1>6, <2>1, <2>4
<1> HIDE DEF new, current, solved, p
<1>8. /\ new.problemScores[p] = solved
      /\ \A q \in Problems \ {p} : new.problemScores[q] = row.problemScores[q]
  BY <1>1, <1>2, <1>3
<1>9. solved # None
  BY <1>4, Constants
<1>10. SolvedProblems(new) = SolvedProblems(row) \cup {p}
  BY <1>1, <1>5, <1>8, <1>9 DEF SolvedProblems
<1> QED BY <1>1, <1>4, <1>5, <1>7, <1>8, <1>10 DEF new, current, solved, p

LEMMA UpdateAttempts ==
    ASSUME NEW row \in Row, NEW s \in Submissions, ~Scores(row, s)
    PROVE  LET p == s.problem
               new == UpdateProblemScore(row, s)
           IN  /\ p \in Problems
               /\ SolvedProblems(new) = SolvedProblems(row)
               /\ new.problemScores[p] = Attempted(row, p)
               /\ \A q \in Problems \ {p} : new.problemScores[q] = row.problemScores[q]
               /\ \A q \in SolvedProblems(row) :
                      /\ new.problemScores[q].score = row.problemScores[q].score
                      /\ new.problemScores[q].solvedAt = row.problemScores[q].solvedAt
                      /\ new.problemScores[q].penaltyTime = row.problemScores[q].penaltyTime
<1> DEFINE p == s.problem
           new == UpdateProblemScore(row, s)
           current == Attempted(row, p)
<1>1. p \in Problems
  BY DEF Submissions
<1>2. new.problemScores = [row.problemScores EXCEPT ![p] = current]
  BY UpdateFields
<1>3. row.problemScores \in [Problems -> ProblemScore \cup {None}]
  BY DEF Row
<1>4. current \in ProblemScore /\ current # None
  BY <1>1, AttemptedType, Constants
<1>5. /\ row.problemScores[p] = None => current.solvedAt = None
      /\ row.problemScores[p] # None =>
             /\ current.score = row.problemScores[p].score
             /\ current.solvedAt = row.problemScores[p].solvedAt
             /\ current.penaltyTime = row.problemScores[p].penaltyTime
  <2>1. CASE row.problemScores[p] = None
    <3>1. current = [Unsolved EXCEPT !.attempts = 1]
      BY <1>1, <2>1, AttemptedType
    <3> QED BY <2>1, <3>1 DEF Unsolved
  <2>2. CASE row.problemScores[p] # None
    <3>1. current = [row.problemScores[p] EXCEPT !.attempts = @ + 1]
      BY <1>1, <2>2, AttemptedType
    <3>2. row.problemScores[p] \in ProblemScore
      BY <1>1, <1>3, <2>2
    <3> HIDE DEF current
    <3> QED BY <2>2, <3>1, <3>2 DEF ProblemScore
  <2> QED BY <2>1, <2>2
<1> HIDE DEF new, current, p
<1>6. /\ new.problemScores[p] = current
      /\ \A q \in Problems \ {p} : new.problemScores[q] = row.problemScores[q]
  BY <1>1, <1>2, <1>3
<1>7. SolvedProblems(new) = SolvedProblems(row)
  BY <1>1, <1>4, <1>5, <1>6 DEF SolvedProblems
<1>8. ASSUME NEW q \in SolvedProblems(row)
      PROVE  /\ new.problemScores[q].score = row.problemScores[q].score
             /\ new.problemScores[q].solvedAt = row.problemScores[q].solvedAt
             /\ new.problemScores[q].penaltyTime = row.problemScores[q].penaltyTime
  BY <1>5, <1>6 DEF SolvedProblems
<1> QED BY <1>1, <1>6, <1>7, <1>8 DEF new, current, p

\* One more in a sum.
LEMMA SumWithOneMore ==
    ASSUME NEW S, IsFiniteSet(S), NEW p, p \notin S,
           NEW f, NEW h, DOMAIN f = S, DOMAIN h = S \cup {p},
           \A q \in S : f[q] \in Nat /\ h[q] = f[q], h[p] \in Nat
    PROVE  SumFunction(h) = SumFunction(f) + h[p] /\ SumFunction(f) \in Nat
<1> DEFINE T == S \cup {p}
<1>1. IsFiniteSet(T) /\ T \ {p} = S
  BY FS_AddElement
<1>2. \A q \in T : h[q] \in Nat
  OBVIOUS
<1>3. SumFunctionOnSet(h, T) = h[p] + SumFunctionOnSet(h, S)
  BY <1>1, <1>2, SumByAny
<1>4. SumFunctionOnSet(h, S) = SumFunctionOnSet(f, S)
  BY SumOfEqual
<1>5. SumFunctionOnSet(f, S) \in Nat
  BY SumIsNumber
<1> QED BY <1>3, <1>4, <1>5 DEF SumFunction

LEMMA SumsAreEqual ==
    ASSUME NEW S, IsFiniteSet(S), NEW f, NEW h, DOMAIN f = S, DOMAIN h = S,
           \A q \in S : h[q] = f[q]
    PROVE  SumFunction(h) = SumFunction(f)
BY SumOfEqual DEF SumFunction

\* The counters go with the problems.
LEMMA UpdateKeepsCounted ==
    ASSUME NEW row \in Row, NEW s \in Submissions, Counted(row)
    PROVE  Counted(UpdateProblemScore(row, s))
<1> DEFINE p == s.problem
           new == UpdateProblemScore(row, s)
           old == SolvedProblems(row)
           solved == SolvedProblems(new)
           scores(r) == [q \in SolvedProblems(r) |-> r.problemScores[q].score]
           penalties(r) == [q \in SolvedProblems(r) |-> r.problemScores[q].penaltyTime]
<1>1. /\ IsFiniteSet(old)
      /\ \A q \in old : row.problemScores[q].score \in Nat
                        /\ row.problemScores[q].penaltyTime \in Nat
  BY SolvedEntries
<1>2. /\ row.problemsSolved = Cardinality(old)
      /\ row.totalScore = SumFunction(scores(row))
      /\ row.totalPenaltyMinutes = SumFunction(penalties(row))
  BY DEF Counted
<1>3. DOMAIN scores(row) = old /\ DOMAIN penalties(row) = old
      /\ DOMAIN scores(new) = solved /\ DOMAIN penalties(new) = solved
  OBVIOUS
<1>4. CASE Scores(row, s)
  <2>1. /\ p \notin old /\ solved = old \cup {p}
        /\ new.problemScores[p].score = s.points
        /\ new.problemScores[p] \in ProblemScore
        /\ new.problemScores[p] = Solved(Attempted(row, p), s)
        /\ \A q \in Problems \ {p} : new.problemScores[q] = row.problemScores[q]
    BY <1>4, UpdateSolves
  <2>2. old \subseteq Problems
    BY DEF SolvedProblems
  <2>3. /\ new.problemsSolved = row.problemsSolved + 1
        /\ new.totalScore = row.totalScore + new.problemScores[p].score
        /\ new.totalPenaltyMinutes = row.totalPenaltyMinutes + new.problemScores[p].penaltyTime
    <3>1. /\ new.problemsSolved = row.problemsSolved + 1
          /\ new.totalScore = row.totalScore + s.points
          /\ new.totalPenaltyMinutes =
                 row.totalPenaltyMinutes + Solved(Attempted(row, p), s).penaltyTime
      BY <1>4, UpdateFields
    <3> HIDE DEF new, p
    <3> QED BY <2>1, <3>1
  <2>4. new.problemScores[p].score \in Nat /\ new.problemScores[p].penaltyTime \in Nat
    BY <2>1 DEF ProblemScore
  <2>5. Cardinality(solved) = Cardinality(old) + 1
    BY <1>1, <2>1, FS_AddElement
  <2>6. /\ \A q \in old : scores(new)[q] = scores(row)[q] /\ scores(row)[q] \in Nat
        /\ \A q \in old : penalties(new)[q] = penalties(row)[q] /\ penalties(row)[q] \in Nat
        /\ scores(new)[p] = new.problemScores[p].score
        /\ penalties(new)[p] = new.problemScores[p].penaltyTime
    BY <1>1, <2>1, <2>2
  <2> HIDE DEF scores, penalties, new, p
  <2>7. SumFunction(scores(new)) = SumFunction(scores(row)) + new.problemScores[p].score
    BY <1>1, <1>3, <2>1, <2>4, <2>6, SumWithOneMore
  <2>8. SumFunction(penalties(new))
            = SumFunction(penalties(row)) + new.problemScores[p].penaltyTime
    BY <1>1, <1>3, <2>1, <2>4, <2>6, SumWithOneMore
  <2>9. /\ new.problemsSolved = Cardinality(solved)
        /\ new.totalScore = SumFunction(scores(new))
        /\ new.totalPenaltyMinutes = SumFunction(penalties(new))
    BY <1>2, <2>3, <2>5, <2>7, <2>8
  <2> QED BY <2>9 DEF Counted, new, scores, penalties
<1>5. CASE ~Scores(row, s)
  <2>1. /\ solved = old
        /\ \A q \in old : /\ new.problemScores[q].score = row.problemScores[q].score
                          /\ new.problemScores[q].penaltyTime = row.problemScores[q].penaltyTime
    BY <1>5, UpdateAttempts
  <2>2. /\ new.problemsSolved = row.problemsSolved
        /\ new.totalScore = row.totalScore
        /\ new.totalPenaltyMinutes = row.totalPenaltyMinutes
    BY <1>5, UpdateFields
  <2>3. /\ \A q \in old : scores(new)[q] = scores(row)[q]
        /\ \A q \in old : penalties(new)[q] = penalties(row)[q]
    BY <2>1
  <2> HIDE DEF scores, penalties, new, p
  <2>4. /\ SumFunction(scores(new)) = SumFunction(scores(row))
        /\ SumFunction(penalties(new)) = SumFunction(penalties(row))
    BY <1>1, <1>3, <2>1, <2>3, SumsAreEqual
  <2>5. /\ new.problemsSolved = Cardinality(solved)
        /\ new.totalScore = SumFunction(scores(new))
        /\ new.totalPenaltyMinutes = SumFunction(penalties(new))
    BY <1>2, <2>1, <2>2, <2>4
  <2> QED BY <2>5 DEF Counted, new, scores, penalties
<1> QED BY <1>4, <1>5
-----------------------------------------------------------------------------
(* What a submission does to the details and to the last solve *)

LEMMA LeastNumber ==
    ASSUME NEW S \in SUBSET Nat, S # {}
    PROVE  Min(S) \in S /\ \A x \in S : Min(S) <= x
<1>1. PICK n \in S : \A k \in S : <<k, n>> \notin OpToRel(<, Nat)
  BY NatLessThanWellFounded, WFMin
<1>2. \A k \in S : n <= k
  <2> SUFFICES ASSUME NEW k \in S, k < n PROVE FALSE
    OBVIOUS
  <2>1. <<k, n>> \in OpToRel(<, Nat)
    BY DEF OpToRel
  <2> QED BY <1>1, <2>1
<1> QED BY <1>2 DEF Min

LEMMA MinIs ==
    ASSUME NEW S \in SUBSET Nat, NEW n \in S, \A x \in S : n <= x
    PROVE  Min(S) = n
<1>1. Min(S) \in S /\ Min(S) <= n /\ n <= Min(S)
  BY LeastNumber
<1>2. Min(S) \in Nat /\ n \in Nat
  BY <1>1
<1> QED BY <1>1, <1>2

\* What adding s to a log says of the log, of what is kept and of what is correct.
Appended(log, s, kept, longer, n, more, correct) ==
    /\ n \in Nat /\ Len(longer) = n + 1
    /\ more \in SUBSET (1 .. Len(longer)) /\ kept \in SUBSET (1 .. Len(longer))
    /\ Cardinality(kept) \in Nat /\ Cardinality(more) = Cardinality(kept) + 1
    /\ \A k \in kept : longer[k] = log[k] /\ log[k] \in Submissions
    /\ longer[n + 1] = s
    /\ correct \in SUBSET kept
    /\ CorrectOf(longer, kept) = correct
    /\ CorrectOf(longer, more) = correct \cup (IF s.points > 0 THEN {n + 1} ELSE {})
    /\ {k \in more : k < n + 1} = kept
    /\ Min({n + 1}) = n + 1
    /\ correct # {} =>
           /\ Min(correct) \in correct
           /\ Min(CorrectOf(longer, more)) = Min(correct)
           /\ {k \in more : k < Min(correct)} = {k \in kept : k < Min(correct)}

\* A longer log keeps what was kept of it; and one more submission is correct
\* or not, and not the first one if there was one.
LEMMA CorrectAppended ==
    ASSUME NEW log \in Seq(Submissions), NEW s \in Submissions,
           NEW kept \in SUBSET (1 .. Len(log))
    PROVE  Appended(log, s, kept, Append(log, s), Len(log), kept \cup {Len(log) + 1},
                    CorrectOf(log, kept))
<1> DEFINE longer == Append(log, s)
           n == Len(log)
           more == kept \cup {n + 1}
           correct == CorrectOf(log, kept)
<1>1. n \in Nat /\ Len(longer) = n + 1
  BY AppendProperties, LenProperties
<1>2. \A k \in 1 .. n : longer[k] = log[k]
  BY AppendProperties
<1>3. longer[n + 1] = s
  BY AppendProperties
<1>4. \A k \in 1 .. n : log[k] \in Submissions
  BY ElementOfSeq
<1>5. /\ kept \in SUBSET (1 .. n) /\ n + 1 \notin kept
      /\ kept \in SUBSET (1 .. n + 1) /\ more \in SUBSET (1 .. n + 1)
      /\ {k \in more : k < n + 1} = kept
  <2>1. kept \in SUBSET (1 .. n)
    OBVIOUS
  <2> HIDE DEF n
  <2>2. /\ n + 1 \notin kept
        /\ kept \in SUBSET (1 .. n + 1)
    BY <1>1, <2>1
  <2>3. more \in SUBSET (1 .. n + 1)
    BY <1>1, <2>2
  <2>4. \A k \in kept : k < n + 1
    BY <1>1, <2>1
  <2>5. ~(n + 1 < n + 1)
    BY <1>1
  <2>6. {k \in more : k < n + 1} = kept
    BY <2>4, <2>5
  <2> QED BY <2>1, <2>2, <2>3, <2>6
<1>6. Cardinality(kept) \in Nat /\ Cardinality(more) = Cardinality(kept) + 1
  <2>1. IsFiniteSet(1 .. n)
    BY <1>1, FS_Interval
  <2>2. IsFiniteSet(kept)
    BY <2>1, FS_Subset
  <2> QED BY <1>5, <2>2, FS_AddElement, FS_CardinalityType
<1>7. /\ correct \in SUBSET kept
      /\ CorrectOf(longer, kept) = correct
      /\ CorrectOf(longer, more) = correct \cup (IF s.points > 0 THEN {n + 1} ELSE {})
  <2> HIDE DEF longer, n
  <2> QED BY <1>1, <1>2, <1>3, <1>5 DEF CorrectOf
<1>8. Min({n + 1}) = n + 1
  <2> DEFINE last == {n + 1}
  <2>1. last \in SUBSET Nat /\ n + 1 \in last /\ \A x \in last : n + 1 <= x
    BY <1>1
  <2> HIDE DEF last
  <2>2. Min(last) = n + 1
    BY <2>1, MinIs
  <2> QED BY <2>2 DEF last
<1>9. ASSUME correct # {}
      PROVE  /\ Min(correct) \in correct
             /\ Min(CorrectOf(longer, more)) = Min(correct)
             /\ {k \in more : k < Min(correct)} = {k \in kept : k < Min(correct)}
  <2> DEFINE m == Min(correct)
             new == CorrectOf(longer, more)
  <2> HIDE DEF longer, n, correct, more
  <2>1. correct \in SUBSET Nat
    BY <1>1, <1>5, <1>7
  <2>2. m \in correct /\ \A x \in correct : m <= x
    BY <1>9, <2>1, LeastNumber
  <2>3. m \in Nat /\ m <= n
    <3>1. m \in 1 .. n
      BY <1>5, <1>7, <2>2
    <3> HIDE DEF m
    <3> QED BY <1>1, <3>1
  <2>4. new \in SUBSET Nat /\ m \in new
    BY <1>1, <1>7, <2>1, <2>2
  <2>5. \A x \in new : m <= x
    <3> SUFFICES ASSUME NEW x \in new PROVE m <= x
      OBVIOUS
    <3>1. x \in correct \/ x = n + 1
      BY <1>7
    <3>2. CASE x \in correct
      BY <2>2, <3>2
    <3>3. CASE x = n + 1
      <4> HIDE DEF m, new
      <4> QED BY <1>1, <2>3, <3>3
    <3> QED BY <3>1, <3>2, <3>3
  <2>6. Min(new) = m
    <3> HIDE DEF m, new
    <3> QED BY <2>4, <2>5, MinIs
  <2>7. {k \in more : k < m} = {k \in kept : k < m}
    <3> HIDE DEF m
    <3> QED BY <1>1, <2>3 DEF more
  <2> QED BY <2>2, <2>6, <2>7
<1> QED BY <1>1, <1>2, <1>3, <1>4, <1>5, <1>6, <1>7, <1>8, <1>9 DEF Appended

\* Details are still made by the same submissions when another one is saved.
LEMMA MadeOfLonger ==
    ASSUME NEW log \in Seq(Submissions), NEW s \in Submissions,
           NEW kept \in SUBSET (1 .. Len(log)), NEW current, MadeOf(current, log, kept)
    PROVE  /\ kept \in SUBSET (1 .. Len(Append(log, s)))
           /\ MadeOf(current, Append(log, s), kept)
<1> DEFINE longer == Append(log, s)
           correct == CorrectOf(log, kept)
<1>1. /\ kept \in SUBSET (1 .. Len(longer))
      /\ \A k \in kept : longer[k] = log[k]
      /\ correct \in SUBSET kept
      /\ CorrectOf(longer, kept) = correct
      /\ correct # {} => Min(correct) \in correct
  <2> DEFINE n == Len(log)
             more == kept \cup {n + 1}
  <2>1. Appended(log, s, kept, longer, n, more, correct)
    BY CorrectAppended
  <2> HIDE DEF longer, n, more, correct
  <2> QED BY <2>1 DEF Appended
<1>2. correct # {} => longer[Min(correct)] = log[Min(correct)]
  BY <1>1
<1> HIDE DEF longer
<1>3. MadeOf(current, longer, kept)
  BY <1>1, <1>2 DEF MadeOf, CorrectOf
<1> QED BY <1>1, <1>3 DEF longer

\* The details go with the log: the submission is one more that was kept.
LEMMA UpdateKeepsDetails ==
    ASSUME NEW row \in Row, NEW s \in Submissions, NEW log \in Seq(Submissions),
           NEW kept \in SUBSET (1 .. Len(log)),
           MadeOf(row.problemScores[s.problem], log, kept)
    PROVE  /\ kept \cup {Len(log) + 1} \in SUBSET (1 .. Len(Append(log, s)))
           /\ MadeOf(UpdateProblemScore(row, s).problemScores[s.problem], Append(log, s),
                     kept \cup {Len(log) + 1})
<1> DEFINE p == s.problem
           old == row.problemScores[p]
           current == Attempted(row, p)
           new == UpdateProblemScore(row, s).problemScores[p]
           longer == Append(log, s)
           n == Len(log)
           more == kept \cup {n + 1}
           correct == CorrectOf(log, kept)
           c == Cardinality(kept)
<1>1. p \in Problems /\ s.points \in Nat /\ s.time \in Nat
  BY Constants DEF Submissions
<1>2. /\ n \in Nat /\ more \in SUBSET (1 .. Len(longer)) /\ more # {}
      /\ c \in Nat /\ Cardinality(more) = c + 1
      /\ \A k \in kept : longer[k] = log[k] /\ log[k] \in Submissions
      /\ longer[n + 1] = s
      /\ correct \in SUBSET kept
      /\ CorrectOf(longer, more) = correct \cup (IF s.points > 0 THEN {n + 1} ELSE {})
      /\ {k \in more : k < n + 1} = kept
      /\ Min({n + 1}) = n + 1
      /\ correct # {} =>
             /\ Min(correct) \in correct
             /\ Min(CorrectOf(longer, more)) = Min(correct)
             /\ {k \in more : k < Min(correct)} = {k \in kept : k < Min(correct)}
  <2>1. Appended(log, s, kept, longer, n, more, correct)
    BY CorrectAppended
  <2>2. more # {}
    OBVIOUS
  <2> HIDE DEF longer, n, more, correct
  <2> QED BY <2>1, <2>2 DEF Appended
<1>3. current \in ProblemScore /\ old \in ProblemScore \cup {None}
      /\ (old = None => current = [Unsolved EXCEPT !.attempts = 1])
      /\ (old # None => current = [old EXCEPT !.attempts = @ + 1])
  BY <1>1, AttemptedType
<1>4. /\ (old = None) = (kept = {})
      /\ old # None =>
          /\ old.attempts = c
          /\ correct = {} => old = [Unsolved EXCEPT !.attempts = c]
          /\ correct # {} =>
              /\ old.solvedAt = log[Min(correct)].time
              /\ old.score = log[Min(correct)].points
              /\ old.wrongSubmissions = Cardinality({k \in kept : k < Min(correct)})
  BY DEF MadeOf, CorrectOf
<1>5. kept = {} => c = 0 /\ correct = {}
  <2>1. kept = {} => c = 0
    BY FS_EmptySet
  <2>2. kept = {} => correct = {}
    BY DEF CorrectOf
  <2> QED BY <2>1, <2>2
<1> HIDE DEF c, correct, more, longer, n
<1>6. current.attempts = c + 1
  BY <1>3, <1>4, <1>5 DEF Unsolved, ProblemScore
<1>7. correct = {} => current = [Unsolved EXCEPT !.attempts = c + 1]
  BY <1>3, <1>4, <1>5 DEF Unsolved, ProblemScore
<1>8. correct # {} =>
          /\ current.solvedAt = log[Min(correct)].time
          /\ current.score = log[Min(correct)].points
          /\ current.wrongSubmissions = Cardinality({k \in kept : k < Min(correct)})
          /\ current.solvedAt # None
  <2> SUFFICES ASSUME correct # {}
               PROVE  /\ current.solvedAt = log[Min(correct)].time
                      /\ current.score = log[Min(correct)].points
                      /\ current.wrongSubmissions = Cardinality({k \in kept : k < Min(correct)})
                      /\ current.solvedAt # None
    OBVIOUS
  <2>1. old # None /\ old \in ProblemScore
    BY <1>3, <1>4, <1>5
  <2>2. /\ current.solvedAt = old.solvedAt
        /\ current.score = old.score
        /\ current.wrongSubmissions = old.wrongSubmissions
    <3> HIDE DEF current, old
    <3> QED BY <1>3, <2>1 DEF ProblemScore
  <2>3. log[Min(correct)] \in Submissions
    BY <1>2
  <2>4. log[Min(correct)].time \in Nat
    BY <2>3 DEF Submissions
  <2> QED BY <1>4, <2>1, <2>2, <2>4, Constants
<1>9. new # None /\ new = IF Scores(row, s) THEN Solved(current, s) ELSE current
  <2>1. CASE Scores(row, s)
    BY <2>1, UpdateSolves, Constants
  <2>2. CASE ~Scores(row, s)
    BY <1>3, <2>2, UpdateAttempts, Constants
  <2> QED BY <2>1, <2>2
<1>10. CASE Scores(row, s)
  <2>1. s.points > 0 /\ current.solvedAt = None
    BY <1>10 DEF Scores
  <2>2. correct = {}
    BY <1>8, <2>1
  <2>3. CorrectOf(longer, more) = {n + 1}
    BY <1>2, <2>1, <2>2
  <2>4. /\ new.attempts = c + 1 /\ new.solvedAt = s.time
        /\ new.score = s.points /\ new.wrongSubmissions = c
    <3>1. /\ new.attempts = current.attempts /\ new.solvedAt = s.time
          /\ new.score = s.points /\ new.wrongSubmissions = current.attempts - 1
      BY <1>10, UpdateSolves
    <3> HIDE DEF new, current
    <3> QED BY <1>2, <1>6, <3>1
  <2>5. Cardinality({k \in more : k < n + 1}) = c
    BY <1>2 DEF c
  <2> HIDE DEF new, p, current
  <2>6. MadeOf(new, longer, more)
    <3> DEFINE all == CorrectOf(longer, more)
               first == Min(all)
    <3>1. all = {n + 1} /\ first = n + 1
      BY <1>2, <2>3
    <3>2. /\ new # None /\ more # {} /\ all # {}
          /\ new.attempts = Cardinality(more)
      BY <1>2, <1>9, <2>4, <3>1
    <3>3. /\ new.solvedAt = longer[first].time
          /\ new.score = longer[first].points
          /\ new.wrongSubmissions = Cardinality({k \in more : k < first})
      BY <1>2, <2>4, <2>5, <3>1
    <3> HIDE DEF first
    <3>4. first = Min({k \in more : longer[k].points > 0})
      BY DEF first, CorrectOf
    <3> QED BY <3>2, <3>3, <3>4 DEF MadeOf, CorrectOf
  <2> QED BY <1>2, <2>6 DEF new, longer, p, more, n
<1>11. CASE ~Scores(row, s)
  <2>1. new = current /\ new # None
    BY <1>9, <1>11
  <2>2. CASE correct = {}
    <3>1. current.solvedAt = None
      BY <1>7, <2>2 DEF Unsolved
    <3>2. ~(s.points > 0)
      BY <1>11, <3>1 DEF Scores
    <3>3. CorrectOf(longer, more) = {}
      BY <1>2, <2>2, <3>2
    <3> HIDE DEF new, p, current
    <3>4. MadeOf(new, longer, more)
      BY <1>2, <1>6, <1>7, <2>1, <2>2, <3>3 DEF MadeOf, CorrectOf
    <3> QED BY <1>2, <3>4 DEF new, longer, p, more, n
  <2>3. CASE correct # {}
    <3>1. CorrectOf(longer, more) # {}
      BY <1>2, <2>3
    <3>2. longer[Min(CorrectOf(longer, more))] = log[Min(correct)]
      BY <1>2, <2>3
    <3> HIDE DEF new, p, current
    <3>3. MadeOf(new, longer, more)
      BY <1>2, <1>6, <1>8, <2>1, <2>3, <3>1, <3>2 DEF MadeOf, CorrectOf
    <3> QED BY <1>2, <3>3 DEF new, longer, p, more, n
  <2> QED BY <2>2, <2>3
<1> QED BY <1>10, <1>11

\* The same for all problems of a row.
LEMMA UpdateKeepsMade ==
    ASSUME NEW row \in Row, NEW s \in Submissions,
           NEW logs \in [Problems -> Seq(Submissions)],
           NEW longer \in [Problems -> Seq(Submissions)],
           longer = [logs EXCEPT ![s.problem] = Append(@, s)]
    PROVE  /\ Made(row, logs) => Made(row, longer)
           /\ Made(row, logs) => Made(UpdateProblemScore(row, s), longer)
           /\ MadeOfAll(row, logs) => MadeOfAll(UpdateProblemScore(row, s), longer)
<1> DEFINE p == s.problem
           new == UpdateProblemScore(row, s)
<1>1. p \in Problems
  BY DEF Submissions
<1>2. /\ longer[p] = Append(logs[p], s)
      /\ \A q \in Problems \ {p} : longer[q] = logs[q]
  BY <1>1
<1>3. \A q \in Problems \ {p} : new.problemScores[q] = row.problemScores[q]
  <2>1. CASE Scores(row, s)
    BY <2>1, UpdateSolves
  <2>2. CASE ~Scores(row, s)
    BY <2>2, UpdateAttempts
  <2> QED BY <2>1, <2>2
<1>4. logs[p] \in Seq(Submissions) /\ Len(logs[p]) \in Nat /\ Len(longer[p]) = Len(logs[p]) + 1
  BY <1>1, <1>2, LenProperties, AppendProperties
<1> HIDE DEF new
<1>5. ASSUME Made(row, logs) PROVE Made(row, longer)
  <2> SUFFICES ASSUME NEW q \in Problems
               PROVE  \E kept \in SUBSET (1 .. Len(longer[q])) :
                          MadeOf(row.problemScores[q], longer[q], kept)
    BY DEF Made
  <2>1. PICK kept \in SUBSET (1 .. Len(logs[q])) : MadeOf(row.problemScores[q], logs[q], kept)
    BY <1>5 DEF Made
  <2>2. CASE q = p
    <3>1. kept \in SUBSET (1 .. Len(longer[q])) /\ MadeOf(row.problemScores[q], longer[q], kept)
      <4> HIDE DEF p
      <4> QED BY <1>2, <1>4, <2>1, <2>2, MadeOfLonger
    <3> QED BY <3>1
  <2>3. CASE q # p
    BY <1>2, <2>1, <2>3
  <2> QED BY <2>2, <2>3
<1>6. ASSUME Made(row, logs) PROVE Made(new, longer)
  <2> SUFFICES ASSUME NEW q \in Problems
               PROVE  \E kept \in SUBSET (1 .. Len(longer[q])) :
                          MadeOf(new.problemScores[q], longer[q], kept)
    BY DEF Made
  <2>1. PICK kept \in SUBSET (1 .. Len(logs[q])) : MadeOf(row.problemScores[q], logs[q], kept)
    BY <1>6 DEF Made
  <2>2. CASE q = p
    <3> DEFINE more == kept \cup {Len(logs[p]) + 1}
    <3>1. more \in SUBSET (1 .. Len(Append(logs[p], s)))
          /\ MadeOf(new.problemScores[p], Append(logs[p], s), more)
      BY <1>4, <2>1, <2>2, UpdateKeepsDetails DEF new
    <3> QED BY <1>2, <2>2, <3>1
  <2>3. CASE q # p
    BY <1>2, <1>3, <2>1, <2>3
  <2> QED BY <2>2, <2>3
<1>7. ASSUME MadeOfAll(row, logs) PROVE MadeOfAll(new, longer)
  <2> SUFFICES ASSUME NEW q \in Problems
               PROVE  MadeOf(new.problemScores[q], longer[q], 1 .. Len(longer[q]))
    BY DEF MadeOfAll
  <2>1. MadeOf(row.problemScores[q], logs[q], 1 .. Len(logs[q]))
    BY <1>7 DEF MadeOfAll
  <2>2. CASE q = p
    <3> DEFINE kept == 1 .. Len(logs[p])
               more == kept \cup {Len(logs[p]) + 1}
    <3>1. more = 1 .. Len(longer[p])
      <4> DEFINE n == Len(logs[p])
      <4>1. (1 .. n) \cup {n + 1} = 1 .. n + 1
        <5>1. n \in Nat
          BY <1>4
        <5> HIDE DEF n
        <5> QED BY <5>1
      <4> QED BY <1>4, <4>1
    <3>2. kept \in SUBSET (1 .. Len(logs[p]))
      OBVIOUS
    <3>3. MadeOf(new.problemScores[p], Append(logs[p], s), more)
      <4>1. MadeOf(row.problemScores[p], logs[p], kept)
        BY <2>1, <2>2
      <4> HIDE DEF kept
      <4> QED BY <1>4, <3>2, <4>1, UpdateKeepsDetails DEF new
    <3> QED BY <1>2, <2>2, <3>1, <3>3
  <2>3. CASE q # p
    BY <1>2, <1>3, <2>1, <2>3
  <2> QED BY <2>2, <2>3
<1> QED BY <1>5, <1>6, <1>7 DEF new

\* Details are read off one column.
LEMMA MadeByColumn ==
    ASSUME NEW row, NEW other, NEW logs, row.problemScores = other.problemScores,
           Made(row, logs)
    PROVE  Made(other, logs)
BY DEF Made

\* The last solve is still the latest, as long as submissions are scored in
\* the order of their times.
LEMMA UpdateKeepsLast ==
    ASSUME NEW row \in Row, NEW s \in Submissions,
           LastIsLatest(row), SolvedBefore(row, s.time)
    PROVE  /\ LastIsLatest(UpdateProblemScore(row, s))
           /\ SolvedBefore(UpdateProblemScore(row, s), s.time)
<1> DEFINE p == s.problem
           new == UpdateProblemScore(row, s)
           old == SolvedProblems(row)
<1>1. s.time \in Nat /\ old \subseteq Problems
  BY DEF Submissions, SolvedProblems
<1>2. CASE Scores(row, s)
  <2>1. /\ SolvedProblems(new) = old \cup {p} /\ p \notin old
        /\ new.problemScores[p].solvedAt = s.time
        /\ \A q \in Problems \ {p} : new.problemScores[q] = row.problemScores[q]
    BY <1>2, UpdateSolves
  <2>2. new.timeOfLastSolve = s.time
    BY <1>2, UpdateFields
  <2>3. \A q \in old : new.problemScores[q].solvedAt <= s.time
    BY <1>1, <2>1 DEF SolvedBefore
  <2> HIDE DEF new, p, old
  <2>4. LastIsLatest(new) /\ SolvedBefore(new, s.time)
    BY <1>1, <2>1, <2>2, <2>3 DEF LastIsLatest, SolvedBefore
  <2> QED BY <2>4 DEF new
<1>3. CASE ~Scores(row, s)
  <2>1. /\ SolvedProblems(new) = old
        /\ \A q \in old : new.problemScores[q].solvedAt = row.problemScores[q].solvedAt
    BY <1>3, UpdateAttempts
  <2>2. new.timeOfLastSolve = row.timeOfLastSolve
    BY <1>3, UpdateFields
  <2> HIDE DEF new
  <2>3. LastIsLatest(new) /\ SolvedBefore(new, s.time)
    BY <2>1, <2>2 DEF LastIsLatest, SolvedBefore
  <2> QED BY <2>3 DEF new
<1> QED BY <1>2, <1>3
-----------------------------------------------------------------------------
(* The invariant holds *)

LEMMA RowsKeptSuffices == RowsKept => RowsMatchSubmissions
<1> SUFFICES ASSUME RowsKept PROVE RowsMatchSubmissions
  OBVIOUS
<1>1. CountersMatchProblems
  BY DEF RowsKept, CountersMatchProblems
<1>2. ASSUME NEW u \in Users, NEW p \in Problems
      PROVE  \E kept \in SUBSET (1 .. Len(judged[u][p])) :
                 /\ MadeOf(db[u].problemScores[p], judged[u][p], kept)
                 /\ u \notin raced => kept = 1 .. Len(judged[u][p])
  <2>1. CASE u \in raced
    BY <2>1 DEF RowsKept, Made
  <2>2. CASE u \notin raced
    <3> DEFINE all == 1 .. Len(judged[u][p])
    <3>1. MadeOf(db[u].problemScores[p], judged[u][p], all) /\ all \in SUBSET all
      BY <2>2 DEF RowsKept, MadeOfAll
    <3> QED BY <3>1
  <2> QED BY <2>1, <2>2
<1>3. DetailsMatchSubmissions
  BY <1>2 DEF DetailsMatchSubmissions
<1> QED BY <1>1, <1>3 DEF RowsMatchSubmissions

\* What is said of rows stays true while they do not change.
LEMMA RowsUnchanged ==
    ASSUME IInv, UNCHANGED <<db, judged>>, raced \subseteq raced'
    PROVE  RowsKept' /\ LastSolves'
<1>1. RowsKept'
  BY DEF IInv, RowsKept
<1>2. LastSolves'
  BY DEF IInv, LastSolves
<1> QED BY <1>1, <1>2

LEMMA InitEstablishesIInv == Init => IInv
<1> SUFFICES ASSUME Init PROVE IInv
  OBVIOUS
<1>1. Shapes /\ \A r \in Requests : ~Busy(r)
  BY ShapesInit DEF Init, Busy
<1>2. ASSUME NEW u \in Users
      PROVE  /\ SolvedProblems(db[u]) = {} /\ db[u].timeOfLastSolve = None
             /\ Counted(db[u]) /\ MadeOfAll(db[u], judged[u])
  <2>1. /\ db[u].problemScores = [p \in Problems |-> None]
        /\ db[u].problemsSolved = 0 /\ db[u].totalScore = 0
        /\ db[u].totalPenaltyMinutes = 0 /\ db[u].timeOfLastSolve = None
        /\ judged[u] = [p \in Problems |-> <<>>]
    BY DEF Init
  <2>2. SolvedProblems(db[u]) = {}
    BY <2>1 DEF SolvedProblems
  <2>3. \A f : DOMAIN f = {} => SumFunction(f) = 0
    BY SumOfNone DEF SumFunction
  <2>4. Cardinality({}) = 0
    BY FS_EmptySet
  <2>5. Counted(db[u])
    <3> DEFINE solved == SolvedProblems(db[u])
               scores == [p \in solved |-> db[u].problemScores[p].score]
               penalties == [p \in solved |-> db[u].problemScores[p].penaltyTime]
    <3>1. SumFunction(scores) = 0 /\ SumFunction(penalties) = 0
      BY <2>2, <2>3
    <3> QED BY <2>1, <2>2, <2>4, <3>1 DEF Counted
  <2>6. ASSUME NEW p \in Problems
        PROVE  MadeOf(db[u].problemScores[p], judged[u][p], 1 .. Len(judged[u][p]))
    <3>1. db[u].problemScores[p] = None /\ judged[u][p] = <<>>
      BY <2>1
    <3>2. 1 .. Len(judged[u][p]) = {}
      BY <3>1
    <3> QED BY <3>1, <3>2 DEF MadeOf
  <2>7. MadeOfAll(db[u], judged[u])
    BY <2>6 DEF MadeOfAll
  <2> QED BY <2>1, <2>2, <2>5, <2>7
<1>3. RowsKept
  <2>1. \A row, logs : MadeOfAll(row, logs) => Made(row, logs)
    BY DEF Made, MadeOfAll
  <2> QED BY <1>2, <2>1 DEF RowsKept
<1>4. OneAtATime /\ Current /\ Differing /\ Based
  BY <1>1 DEF OneAtATime, Current, Differing, Based, Busy
<1>5. LastSolves /\ InOrder
  BY <1>1, <1>2 DEF LastSolves, LastIsLatest, InOrder, SolvedBefore
<1> QED BY <1>1, <1>3, <1>4, <1>5 DEF IInv

LEMMA LaterIsLater ==
    ASSUME NEW row \in Row, NEW t \in Nat, NEW n \in Nat, t <= n, SolvedBefore(row, t)
    PROVE  SolvedBefore(row, n)
BY SolvedEntries DEF SolvedBefore

\* A submission that arrives finds no other one of its user, or marks him.
LEMMA SubmitKeepsIInv ==
    ASSUME IInv, Shapes', NEW r \in Requests, NEW u \in Users,
           NEW p \in Problems, NEW points \in Points, Submit(r, u, p, points)
    PROVE  IInv'
<1> DEFINE s == [problem |-> p, points |-> points, time |-> now]
<1>1. /\ pc[r] = "idle" /\ now' = now + 1
      /\ pc' = [pc EXCEPT ![r] = "select"] /\ who' = [who EXCEPT ![r] = u]
      /\ job' = [job EXCEPT ![r] = s]
      /\ mem' = [mem EXCEPT ![r] = UpdateProblemScore(db[u], s)]
      /\ raced \subseteq raced' /\ (u \notin raced' => Alone(u))
      /\ UNCHANGED <<db, updated, cols, judged>>
  BY DEF Submit
<1>2. /\ db \in [Users -> Row] /\ now \in Nat
      /\ pc \in [Requests -> {"idle", "select", "update"}]
      /\ DOMAIN who = Requests /\ DOMAIN job = Requests /\ DOMAIN mem = Requests
      /\ \A t \in Requests : Busy(t) => who[t] \in Users /\ job[t] \in Submissions
  BY Constants DEF IInv, Shapes, TypeOK
<1>3. /\ \A t \in Requests \ {r} :
             /\ Busy(t)' = Busy(t) /\ pc'[t] = pc[t] /\ who'[t] = who[t]
             /\ job'[t] = job[t] /\ mem'[t] = mem[t]
      /\ Busy(r)' /\ pc'[r] = "select" /\ who'[r] = u /\ job'[r] = s
      /\ mem'[r] = UpdateProblemScore(db[u], s)
  <2> HIDE DEF s
  <2> QED BY <1>1, <1>2 DEF Busy
<1>4. s.time = now
  OBVIOUS
<1> HIDE DEF s
<1>5. OneAtATime'
  BY <1>1, <1>3 DEF IInv, OneAtATime, Alone
<1>6. Current'
  BY <1>1, <1>3 DEF IInv, Current
<1>7. Differing'
  BY <1>1, <1>3 DEF IInv, Differing, Busy
<1>8. RowsKept' /\ LastSolves'
  BY <1>1, RowsUnchanged
<1>9. InOrder'
  <2>1. \A v \in Users \ raced : db[v] \in Row /\ SolvedBefore(db[v], now)
    BY <1>2 DEF IInv, InOrder
  <2>2. \A v \in Users \ raced' : SolvedBefore(db'[v], now + 1)
    <3>1. \A v \in Users \ raced : SolvedBefore(db[v], now + 1)
      BY <1>2, <2>1, LaterIsLater
    <3> QED BY <1>1, <3>1
  <2>3. \A t \in Requests : Busy(t) =>
            /\ job[t].time \in Nat /\ job[t].time <= now
            /\ who[t] \notin raced => SolvedBefore(db[who[t]], job[t].time)
    BY <1>2 DEF IInv, InOrder, Submissions
  <2>4. \A t \in Requests : Busy(t)' =>
            /\ job'[t].time <= now + 1
            /\ who'[t] \notin raced' => SolvedBefore(db'[who'[t]], job'[t].time)
    <3> TAKE t \in Requests
    <3>1. CASE t = r
      BY <1>1, <1>2, <1>3, <1>4, <2>1, <3>1
    <3>2. CASE t # r
      BY <1>1, <1>2, <1>3, <2>3, <3>2
    <3> QED BY <3>1, <3>2
  <2> QED BY <1>1, <2>2, <2>4 DEF InOrder
<1>10. Based'
  <2>1. db[u] \in Row /\ Made(db[u], judged[u])
    BY <1>2 DEF IInv, RowsKept
  <2>2. ASSUME NEW t \in Requests, Busy(t)'
        PROVE  \E base \in Row : /\ mem'[t] = UpdateProblemScore(base, job'[t])
                                 /\ Made(base, judged'[who'[t]])
    <3>1. CASE t = r
      BY <1>1, <1>3, <2>1, <3>1
    <3>2. CASE t # r
      BY <1>1, <1>3, <2>2, <3>2 DEF IInv, Based
    <3> QED BY <3>1, <3>2
  <2> QED BY <2>2 DEF Based
<1> QED BY <1>5, <1>6, <1>7, <1>8, <1>9, <1>10 DEF IInv

\* save() reads the row that the request read before.
LEMMA SelectKeepsIInv ==
    ASSUME IInv, Shapes', NEW r \in Requests, Select(r)
    PROVE  IInv'
<1>1. /\ pc[r] = "select" /\ pc' = [pc EXCEPT ![r] = "update"]
      /\ cols' = [cols EXCEPT ![r] = {c \in Columns : db[who[r]][c] # mem[r][c]}]
      /\ UNCHANGED <<db, updated, who, mem, job, now, judged, raced>>
  BY DEF Select
<1>2. DOMAIN pc = Requests /\ DOMAIN cols = Requests
  BY DEF IInv, Shapes, TypeOK
<1>3. \A t \in Requests : Busy(t)' = Busy(t)
  BY <1>1, <1>2 DEF Busy
<1>4. OneAtATime' /\ Current'
  BY <1>1, <1>3 DEF IInv, OneAtATime, Current
<1>5. Differing'
  BY <1>1, <1>2 DEF IInv, Differing
<1>6. RowsKept' /\ LastSolves'
  BY <1>1, RowsUnchanged
<1>7. InOrder'
  BY <1>1, <1>3 DEF IInv, InOrder
<1>8. Based'
  BY <1>1, <1>3 DEF IInv, Based
<1> QED BY <1>4, <1>5, <1>6, <1>7, <1>8 DEF IInv

\* A request that ends: those of users who never had two in flight belong to
\* somebody else, and what the others are based on is still among the saved.
LEMMA DoneKeepsOrder ==
    ASSUME IInv, NEW r \in Requests, Busy(r), Done(r),
           \A v \in Users \ {who[r]} : db'[v] = db[v],
           \A v \in Users : \A row \in Row : Made(row, judged[v]) => Made(row, judged'[v])
    PROVE  /\ OneAtATime' /\ Current' /\ Differing' /\ Based'
           /\ \A t \in Requests : Busy(t)' =>
                  /\ job'[t].time <= now
                  /\ who'[t] \notin raced => /\ who'[t] \in Users \ {who[r]}
                                             /\ SolvedBefore(db[who'[t]], job'[t].time)
<1>1. /\ pc' = [pc EXCEPT ![r] = "idle"] /\ who' = [who EXCEPT ![r] = None]
      /\ mem' = [mem EXCEPT ![r] = None] /\ cols' = [cols EXCEPT ![r] = {}]
      /\ job' = [job EXCEPT ![r] = None] /\ raced' = raced
  BY DEF Done
<1>2. /\ DOMAIN pc = Requests /\ DOMAIN who = Requests /\ DOMAIN mem = Requests
      /\ DOMAIN cols = Requests /\ DOMAIN job = Requests
      /\ \A t \in Requests : Busy(t) => who[t] \in Users
  BY DEF IInv, Shapes, TypeOK
<1>3. /\ ~Busy(r)' /\ pc'[r] = "idle"
      /\ \A t \in Requests \ {r} :
             /\ pc'[t] = pc[t] /\ Busy(t)' = Busy(t) /\ who'[t] = who[t]
             /\ mem'[t] = mem[t] /\ cols'[t] = cols[t] /\ job'[t] = job[t]
  BY <1>1, <1>2 DEF Busy
<1>4. \A t \in Requests \ {r} : Busy(t) /\ who[t] \notin raced =>
          who[t] \in Users \ {who[r]} /\ db'[who[t]] = db[who[t]]
  BY <1>2 DEF IInv, OneAtATime
<1>5. OneAtATime'
  BY <1>1, <1>3 DEF IInv, OneAtATime
<1>6. Current'
  BY <1>1, <1>3, <1>4 DEF IInv, Current
<1>7. Differing'
  BY <1>1, <1>3, <1>4 DEF IInv, Differing, Busy
<1>8. Based'
  <2> SUFFICES ASSUME NEW t \in Requests, Busy(t)'
               PROVE  \E base \in Row : /\ mem'[t] = UpdateProblemScore(base, job'[t])
                                        /\ Made(base, judged'[who'[t]])
    BY DEF Based
  <2>1. t # r /\ Busy(t) /\ who[t] \in Users
        /\ mem'[t] = mem[t] /\ job'[t] = job[t] /\ who'[t] = who[t]
    BY <1>2, <1>3
  <2>2. PICK base \in Row : mem[t] = UpdateProblemScore(base, job[t]) /\ Made(base, judged[who[t]])
    BY <2>1 DEF IInv, Based
  <2> QED BY <2>1, <2>2
<1>9. \A t \in Requests : Busy(t)' =>
          /\ job'[t].time <= now
          /\ who'[t] \notin raced => SolvedBefore(db[who'[t]], job'[t].time)
  BY <1>3 DEF IInv, InOrder
<1> QED BY <1>3, <1>4, <1>5, <1>6, <1>7, <1>8, <1>9

\* What is written was made by saved submissions and this one; for a user who
\* never had two in flight it is what this one makes of the row.
LEMMA UpdateKeepsIInv ==
    ASSUME IInv, Shapes', NEW r \in Requests, Update(r)
    PROVE  IInv'
<1> DEFINE u == who[r]
           s == job[r]
           p == s.problem
           w == Written(db[u], mem[r], cols[r])
<1>1. /\ pc[r] = "update" /\ Busy(r) /\ Done(r) /\ now' = now /\ raced' = raced
      /\ db' = [db EXCEPT ![u] = w]
      /\ judged' = [judged EXCEPT ![u][p] = Append(judged[u][p], s)]
  BY DEF Update, Done, Busy
<1>2. /\ u \in Users /\ s \in Submissions /\ db \in [Users -> Row] /\ now \in Nat
      /\ mem[r] \in Row /\ judged \in [Users -> [Problems -> Seq(Submissions)]]
      /\ judged' \in [Users -> [Problems -> Seq(Submissions)]]
  BY <1>1, Constants DEF IInv, Shapes, TypeOK
<1>3. p \in Problems /\ s.time \in Nat /\ s.time <= now
  BY <1>1, <1>2 DEF IInv, InOrder, Submissions
<1>4. /\ db'[u] = w
      /\ \A v \in Users \ {u} : db'[v] = db[v]
  <2> HIDE DEF u, w
  <2> QED BY <1>1, <1>2
<1>5. /\ judged'[u] = [judged[u] EXCEPT ![p] = Append(@, s)]
      /\ \A v \in Users \ {u} : judged'[v] = judged[v]
      /\ judged[u] \in [Problems -> Seq(Submissions)]
      /\ judged'[u] \in [Problems -> Seq(Submissions)]
  <2> HIDE DEF u, s, p, w
  <2> QED BY <1>1, <1>2, <1>3
<1>6. \A row \in Row : /\ Made(row, judged[u]) => Made(row, judged'[u])
                       /\ Made(row, judged[u]) => Made(UpdateProblemScore(row, s), judged'[u])
                       /\ MadeOfAll(row, judged[u])
                              => MadeOfAll(UpdateProblemScore(row, s), judged'[u])
  <2> TAKE row \in Row
  <2> DEFINE logs == judged[u]
             longer == judged'[u]
  <2>1. /\ logs \in [Problems -> Seq(Submissions)]
        /\ longer \in [Problems -> Seq(Submissions)]
        /\ longer = [logs EXCEPT ![s.problem] = Append(@, s)]
    BY <1>5
  <2>2. s \in Submissions
    BY <1>2
  <2> HIDE DEF logs, longer, s
  <2>3. /\ Made(row, logs) => Made(row, longer)
        /\ Made(row, logs) => Made(UpdateProblemScore(row, s), longer)
        /\ MadeOfAll(row, logs) => MadeOfAll(UpdateProblemScore(row, s), longer)
    BY <2>1, <2>2, UpdateKeepsMade
  <2> QED BY <2>3 DEF logs, longer
<1>7. Made(w, judged'[u])
  <2>1. w.problemScores \in {db[u].problemScores, mem[r].problemScores}
    BY DEF Written, Columns
  <2>2. CASE w.problemScores = db[u].problemScores
    <3>1. Made(db[u], judged'[u])
      BY <1>2, <1>6 DEF IInv, RowsKept
    <3> HIDE DEF u, w
    <3> QED BY <2>2, <3>1, MadeByColumn
  <2>3. CASE w.problemScores = mem[r].problemScores
    <3>1. PICK base \in Row : mem[r] = UpdateProblemScore(base, s) /\ Made(base, judged[u])
      BY <1>1 DEF IInv, Based
    <3>2. Made(mem[r], judged'[u])
      BY <1>6, <3>1
    <3> HIDE DEF u, w
    <3> QED BY <2>3, <3>2, MadeByColumn
  <2> QED BY <2>1, <2>2, <2>3
<1>8. ASSUME u \notin raced
      PROVE  /\ Counted(db'[u]) /\ LastIsLatest(db'[u]) /\ SolvedBefore(db'[u], now)
             /\ MadeOfAll(db'[u], judged'[u])
  <2>1. cols[r] = {c \in Columns : db[u][c] # mem[r][c]}
        /\ mem[r] = UpdateProblemScore(db[u], s)
    BY <1>1, <1>8 DEF IInv, Differing, Current
  <2>2. db'[u] = UpdateProblemScore(db[u], s)
    <3>1. w = mem[r]
      <4>1. db[u] \in Row /\ mem[r] \in Row
        BY <1>2
      <4>2. Written(db[u], mem[r], {c \in Columns : db[u][c] # mem[r][c]}) = mem[r]
        <5> DEFINE row == db[u]
                   object == mem[r]
        <5>1. row \in Row /\ object \in Row
          BY <4>1
        <5> HIDE DEF row, object
        <5>2. Written(row, object, {c \in Columns : row[c] # object[c]}) = object
          BY <5>1, WrittenAll
        <5> QED BY <5>2 DEF row, object
      <4> QED BY <2>1, <4>2
    <3> QED BY <1>4, <2>1, <3>1
  <2>3. /\ Counted(db[u]) /\ LastIsLatest(db[u]) /\ MadeOfAll(db[u], judged[u])
        /\ SolvedBefore(db[u], s.time)
    BY <1>1, <1>2, <1>8 DEF IInv, RowsKept, LastSolves, InOrder
  <2>4. db[u] \in Row /\ UpdateProblemScore(db[u], s) \in Row
    BY <1>2, UpdateType
  <2>5. /\ Counted(db'[u]) /\ LastIsLatest(db'[u]) /\ SolvedBefore(db'[u], s.time)
    BY <1>2, <2>2, <2>3, <2>4, UpdateKeepsCounted, UpdateKeepsLast
  <2>6. MadeOfAll(db'[u], judged'[u])
    BY <1>6, <2>2, <2>3, <2>4
  <2> HIDE DEF u, s, p
  <2> QED BY <1>2, <1>3, <2>2, <2>4, <2>5, <2>6, LaterIsLater
<1>9. \A v \in Users : \A row \in Row : Made(row, judged[v]) => Made(row, judged'[v])
  <2> HIDE DEF u, s, p, w
  <2> QED BY <1>5, <1>6
<1> HIDE DEF u, s, p, w
<1>10. RowsKept'
  BY <1>1, <1>4, <1>5, <1>7, <1>8 DEF IInv, RowsKept
<1>11. LastSolves'
  BY <1>1, <1>4, <1>8 DEF IInv, LastSolves
<1>12. /\ OneAtATime' /\ Current' /\ Differing' /\ Based'
       /\ \A t \in Requests : Busy(t)' =>
              /\ job'[t].time <= now
              /\ who'[t] \notin raced => /\ who'[t] \in Users \ {u}
                                         /\ SolvedBefore(db[who'[t]], job'[t].time)
  BY <1>1, <1>4, <1>9, DoneKeepsOrder DEF u
<1>13. InOrder'
  <2>1. \A t \in Requests : Busy(t)' =>
            /\ job'[t].time <= now
            /\ who'[t] \notin raced => SolvedBefore(db'[who'[t]], job'[t].time)
    BY <1>4, <1>12
  <2>2. \A v \in Users \ raced : SolvedBefore(db'[v], now)
    BY <1>4, <1>8 DEF IInv, InOrder
  <2> QED BY <1>1, <2>1, <2>2 DEF InOrder
<1> QED BY <1>10, <1>11, <1>12, <1>13 DEF IInv

\* A request that ends with an error leaves the rows alone.
LEMMA FailsKeepsIInv ==
    ASSUME IInv, Shapes', NEW r \in Requests, Fails(r)
    PROVE  IInv'
<1>1. Busy(r) /\ Done(r) /\ UNCHANGED <<db, updated, judged, now, raced>>
  BY DEF Fails, Done, Busy
<1>2. /\ OneAtATime' /\ Current' /\ Differing' /\ Based'
      /\ \A t \in Requests : Busy(t)' =>
             /\ job'[t].time <= now
             /\ who'[t] \notin raced => SolvedBefore(db[who'[t]], job'[t].time)
  BY <1>1, DoneKeepsOrder
<1>3. RowsKept' /\ LastSolves'
  BY <1>1, RowsUnchanged
<1>4. InOrder'
  BY <1>1, <1>2 DEF IInv, InOrder
<1> QED BY <1>2, <1>3, <1>4 DEF IInv

LEMMA StutterKeepsIInv ==
    ASSUME IInv, Shapes', UNCHANGED vars
    PROVE  IInv'
<1>1. UNCHANGED <<db, pc, who, mem, cols, job, updated, now, judged, raced>>
  BY DEF vars, requestVars
<1>2. OneAtATime' /\ Current' /\ Differing' /\ Based'
  BY <1>1 DEF IInv, OneAtATime, Current, Differing, Based, Busy
<1>3. RowsKept' /\ LastSolves'
  BY <1>1, RowsUnchanged
<1>4. InOrder'
  BY <1>1 DEF IInv, InOrder, Busy
<1> QED BY <1>2, <1>3, <1>4 DEF IInv

LEMMA StepKeepsIInv ==
    ASSUME IInv, [Next]_vars
    PROVE  IInv'
<1>1. Shapes'
  BY ShapesStep DEF IInv
<1>2. CASE Next
  <2>1. ASSUME NEW r \in Requests, NEW u \in Users, NEW p \in Problems, NEW points \in Points,
               Submit(r, u, p, points)
        PROVE  IInv'
    BY <1>1, <2>1, SubmitKeepsIInv
  <2>2. ASSUME NEW r \in Requests, Select(r) PROVE IInv'
    BY <1>1, <2>2, SelectKeepsIInv
  <2>3. ASSUME NEW r \in Requests, Update(r) PROVE IInv'
    BY <1>1, <2>3, UpdateKeepsIInv
  <2>4. ASSUME NEW r \in Requests, Fails(r) PROVE IInv'
    BY <1>1, <2>4, FailsKeepsIInv
  <2>5. CASE Idle
    BY <1>1, <2>5, StutterKeepsIInv DEF Idle
  <2> QED BY <1>2, <2>1, <2>2, <2>3, <2>4, <2>5 DEF Next
<1>3. CASE UNCHANGED vars
  BY <1>1, <1>3, StutterKeepsIInv
<1> QED BY <1>2, <1>3

LEMMA Invariance == Spec => []IInv
BY InitEstablishesIInv, StepKeepsIInv, PTL DEF Spec

\* However requests overlap, the details of a row are made by whole submissions
\* that were saved, in their order; and of a user who never had two in flight
\* every saved submission is there, and every solved problem is counted, scored
\* and penalized once.
THEOREM RowsHold == Spec => []RowsMatchSubmissions
<1>1. IInv => RowsMatchSubmissions
  BY RowsKeptSuffices DEF IInv
<1> QED BY <1>1, Invariance, PTL
-----------------------------------------------------------------------------
(* Arithmetic *)

LEMMA Division ==
    ASSUME NEW a \in Int, NEW b \in Nat, b > 0
    PROVE  a \div b \in Int /\ b * (a \div b) <= a /\ a < b * (a \div b) + b
OBVIOUS

LEMMA ProductGrows ==
    ASSUME NEW a \in Nat, NEW b \in Int, NEW c \in Int, b <= c
    PROVE  a * b <= a * c
OBVIOUS

LEMMA ProductCancels ==
    ASSUME NEW b \in Nat, b > 0, NEW q \in Int, NEW r \in Int, b * q < b * r
    PROVE  q < r
OBVIOUS

LEMMA ProductOfSum ==
    ASSUME NEW a \in Int, NEW b \in Int, NEW c \in Int
    PROVE  /\ a * (b + c) = a * b + a * c
           /\ a * (b - c) = a * b - a * c
           /\ a * b = b * a /\ a * b \in Int
OBVIOUS

LEMMA QuotientFrom ==
    ASSUME NEW a \in Int, NEW b \in Nat, b > 0, NEW q \in Int, b * q <= a
    PROVE  q <= a \div b
<1> DEFINE d == a \div b
<1>1. d \in Int /\ a < b * d + b
  BY Division
<1> HIDE DEF d
<1>2. b * (d + 1) = b * d + b
  BY <1>1, ProductOfSum
<1>3. b * q \in Int /\ b * d \in Int
  BY <1>1
<1>4. b * q < b * (d + 1)
  BY <1>1, <1>2, <1>3
<1>5. q < d + 1
  BY <1>1, <1>4, ProductCancels
<1> QED BY <1>1, <1>5 DEF d

LEMMA QuotientTo ==
    ASSUME NEW a \in Int, NEW b \in Nat, b > 0, NEW q \in Int, a < b * q + b
    PROVE  a \div b <= q
<1> DEFINE d == a \div b
<1>1. d \in Int /\ b * d <= a
  BY Division
<1> HIDE DEF d
<1>2. b * (q + 1) = b * q + b
  BY ProductOfSum
<1>3. b * q \in Int /\ b * d \in Int
  BY <1>1
<1>4. b * d < b * (q + 1)
  BY <1>1, <1>2, <1>3
<1>5. d < q + 1
  BY <1>1, <1>4, ProductCancels
<1> QED BY <1>1, <1>5 DEF d

LEMMA QuotientGrows ==
    ASSUME NEW a \in Int, NEW c \in Int, a <= c, NEW b \in Nat, b > 0
    PROVE  a \div b <= c \div b
<1>1. a \div b \in Int /\ b * (a \div b) <= a
  BY Division
<1>2. b * (a \div b) \in Int
  BY <1>1
<1>3. b * (a \div b) <= c
  BY <1>1, <1>2
<1> QED BY <1>1, <1>3, QuotientFrom

\* Rounding a quotient that lies between two numbers.
LEMMA RoundedBetween ==
    ASSUME NEW a \in Nat, NEW b \in Nat, b > 0
    PROVE  /\ Rounded(a, b) \in Nat
           /\ \A low \in Nat : b * low <= a => low <= Rounded(a, b)
           /\ \A high \in Nat : a <= b * high => Rounded(a, b) <= high
<1> DEFINE n == 2 * a + b
           d == 2 * b
<1>1. n \in Int /\ d \in Nat /\ d > 0
  OBVIOUS
<1>2. Rounded(a, b) = n \div d
  BY DEF Rounded
<1>3. ASSUME NEW low \in Nat, b * low <= a PROVE low <= Rounded(a, b)
  <2>1. d * low = 2 * (b * low) /\ b * low \in Int
    OBVIOUS
  <2>2. d * low <= n
    <3> HIDE DEF d
    <3> QED BY <1>3, <2>1
  <2> HIDE DEF n, d
  <2> QED BY <1>1, <1>2, <2>2, QuotientFrom
<1>4. ASSUME NEW high \in Nat, a <= b * high PROVE Rounded(a, b) <= high
  <2>1. d * high = 2 * (b * high) /\ b * high \in Int
    OBVIOUS
  <2>2. n < d * high + d
    <3>1. n <= d * high + b
      <4> HIDE DEF d
      <4> QED BY <1>4, <2>1
    <3>2. d * high \in Int
      BY <2>1
    <3> QED BY <3>1, <3>2
  <2> HIDE DEF n, d
  <2> QED BY <1>1, <1>2, <2>2, QuotientTo
<1>5. Rounded(a, b) \in Int /\ 0 <= Rounded(a, b)
  <2>1. b * 0 <= a
    OBVIOUS
  <2>2. n \div d \in Int
    <3> HIDE DEF n, d
    <3> QED BY <1>1, Division
  <2> QED BY <1>2, <1>3, <2>1, <2>2
<1> QED BY <1>3, <1>4, <1>5

LEMMA MaxOfTwo ==
    ASSUME NEW a \in Int, NEW b \in Int
    PROVE  Max({a, b}) = IF a >= b THEN a ELSE b
<1> DEFINE S == {a, b}
           m == IF a >= b THEN a ELSE b
<1>1. m \in S /\ \A y \in S : m >= y
  OBVIOUS
<1>2. Max(S) \in S /\ \A y \in S : Max(S) >= y
  <2> HIDE DEF S, m
  <2> QED BY <1>1 DEF Max
<1>3. Max(S) \in Int /\ m \in Int /\ Max(S) >= m /\ m >= Max(S)
  BY <1>1, <1>2
<1> HIDE DEF m
<1>4. Max(S) = m
  <2> HIDE DEF S
  <2> QED BY <1>3
<1> QED BY <1>4 DEF m

LEMMA MinOfTwo ==
    ASSUME NEW a \in Nat, NEW b \in Nat
    PROVE  Min({a, b}) = IF a <= b THEN a ELSE b
<1> DEFINE m == IF a <= b THEN a ELSE b
<1>1. {a, b} \in SUBSET Nat /\ m \in {a, b} /\ \A y \in {a, b} : m <= y
  OBVIOUS
<1> HIDE DEF m
<1>2. Min({a, b}) = m
  BY <1>1, MinIs
<1> QED BY <1>2 DEF m

\* Of finitely many numbers, one is the largest.
LEMMA LargestValue ==
    ASSUME NEW f, NEW S, IsFiniteSet(S), S # {}, \A x \in S : f[x] \in Nat
    PROVE  \E x \in S : \A y \in S : f[y] <= f[x]
<1> DEFINE Good == {T \in SUBSET S : T # {} => \E x \in T : \A y \in T : f[y] <= f[x]}
<1>1. ASSUME NEW T \in SUBSET S, T # {}, \A x \in T : T \ {x} \in Good PROVE T \in Good
  <2>1. PICK z \in T : TRUE
    BY <1>1
  <2>2. CASE T \ {z} = {}
    BY <2>1, <2>2
  <2>3. CASE T \ {z} # {}
    <3>1. PICK x \in T \ {z} : \A y \in T \ {z} : f[y] <= f[x]
      BY <1>1, <2>3
    <3>2. f[x] \in Nat /\ f[z] \in Nat
      OBVIOUS
    <3>3. CASE f[z] <= f[x]
      BY <3>1, <3>3
    <3>4. CASE f[x] <= f[z]
      <4>1. \A y \in T : f[y] <= f[z]
        <5> TAKE y \in T
        <5>1. CASE y = z
          BY <3>2, <5>1
        <5>2. CASE y # z
          <6>1. f[y] \in Nat /\ f[y] <= f[x]
            BY <3>1, <5>2
          <6> QED BY <3>2, <3>4, <6>1
        <5> QED BY <5>1, <5>2
      <4> QED BY <4>1
    <3> QED BY <3>2, <3>3, <3>4
  <2> QED BY <2>2, <2>3
<1>2. {} \in Good
  OBVIOUS
<1>3. S \in Good
  <2> HIDE DEF Good
  <2> QED BY <1>1, <1>2, SubsetInduction
<1> QED BY <1>3
-----------------------------------------------------------------------------
(* The final scores *)

LEMMA ScoreType ==
    ASSUME NEW points \in Nat, NEW time \in Nat, NEW wrong \in Nat
    PROVE  CalculateICPCScore(points, time, wrong) \in Nat
<1> DEFINE raw == points * (Scale - time) - SCORE_PENALTY_PER_WRONG * wrong * Scale
<1>1. Scale \in Int
  BY Constants DEF Scale
<1>2. points * (Scale - time) \in Int /\ SCORE_PENALTY_PER_WRONG * wrong * Scale \in Int
  BY <1>1 DEF SCORE_PENALTY_PER_WRONG
<1>3. raw \in Int
  BY <1>2
<1> HIDE DEF raw
<1>4. Max({0, raw}) \in Nat
  BY <1>3, MaxOfTwo
<1> QED BY <1>4 DEF CalculateICPCScore, raw

\* Later, or after more wrong attempts, is not worth more.
LEMMA ScoreFalls ==
    ASSUME NEW points \in Nat, NEW t1 \in Nat, NEW t2 \in Nat, t1 <= t2,
           NEW w1 \in Nat, NEW w2 \in Nat, w1 <= w2
    PROVE  CalculateICPCScore(points, t2, w2) <= CalculateICPCScore(points, t1, w1)
<1> DEFINE P1 == points * (Scale - t1)
           P2 == points * (Scale - t2)
           W1 == SCORE_PENALTY_PER_WRONG * w1 * Scale
           W2 == SCORE_PENALTY_PER_WRONG * w2 * Scale
<1>1. Scale \in Nat
  BY Constants DEF Scale
<1>2. P2 <= P1 /\ P1 \in Int /\ P2 \in Int
  <2>1. Scale - t2 <= Scale - t1 /\ Scale - t1 \in Int /\ Scale - t2 \in Int
    BY <1>1
  <2> QED BY <2>1, ProductGrows
<1>3. W1 <= W2 /\ W1 \in Int /\ W2 \in Int
  <2>1. W1 = Scale * (2 * w1) /\ W2 = Scale * (2 * w2)
    BY <1>1 DEF SCORE_PENALTY_PER_WRONG
  <2>2. 2 * w1 <= 2 * w2 /\ 2 * w1 \in Int /\ 2 * w2 \in Int
    OBVIOUS
  <2>3. Scale * (2 * w1) <= Scale * (2 * w2)
    <3> HIDE DEF Scale
    <3> QED BY <1>1, <2>2, ProductGrows
  <2>4. Scale * (2 * w1) \in Int /\ Scale * (2 * w2) \in Int
    BY <1>1
  <2> HIDE DEF W1, W2
  <2> QED BY <2>1, <2>3, <2>4
<1>4. /\ CalculateICPCScore(points, t1, w1) = Max({0, P1 - W1})
      /\ CalculateICPCScore(points, t2, w2) = Max({0, P2 - W2})
  BY DEF CalculateICPCScore
<1> HIDE DEF P1, P2, W1, W2
<1>5. P2 - W2 <= P1 - W1 /\ P1 - W1 \in Int /\ P2 - W2 \in Int
  BY <1>2, <1>3
<1>6. Max({0, P2 - W2}) <= Max({0, P1 - W1})
  BY <1>5, MaxOfTwo
<1> QED BY <1>4, <1>6

LEMMA PenaltyGrows ==
    ASSUME NEW w1 \in Nat, NEW w2 \in Nat, w1 <= w2
    PROVE  /\ CalculatePenaltyMinutes(w1) \in Nat
           /\ CalculatePenaltyMinutes(w2) \in Nat
           /\ CalculatePenaltyMinutes(w1) <= CalculatePenaltyMinutes(w2)
<1>1. w1 * 5 \in Nat /\ w2 * 5 \in Nat /\ w1 * 5 <= w2 * 5 /\ 500 \in Nat
  OBVIOUS
<1>2. /\ CalculatePenaltyMinutes(w1) = IF w1 * 5 <= 500 THEN w1 * 5 ELSE 500
      /\ CalculatePenaltyMinutes(w2) = IF w2 * 5 <= 500 THEN w2 * 5 ELSE 500
  BY <1>1, MinOfTwo
     DEF CalculatePenaltyMinutes, PENALTY_PER_WRONG_SUBMISSION, MAX_PENALTY_MINUTES
<1> QED BY <1>1, <1>2

\* The terms of a final score.
ScoreTerms(row) ==
    [p \in SolvedProblems(row) |->
        CalculateICPCScore(BasePoints[p], row.problemScores[p].solvedAt,
                           row.problemScores[p].wrongSubmissions)]
PenaltyTerms(row) ==
    [p \in SolvedProblems(row) |->
        CalculatePenaltyMinutes(row.problemScores[p].wrongSubmissions)]

LEMMA TermsType ==
    ASSUME NEW row \in Row
    PROVE  /\ \A p \in SolvedProblems(row) :
                  ScoreTerms(row)[p] \in Nat /\ PenaltyTerms(row)[p] \in Nat
           /\ SumFunction(ScoreTerms(row)) \in Nat
           /\ SumFunction(PenaltyTerms(row)) \in Nat
           /\ FinalPenalty(row) = SumFunction(PenaltyTerms(row))
           /\ FinalScore(row) = Rounded(SumFunction(ScoreTerms(row)), Scale)
           /\ FinalScore(row) \in Nat
<1>1. ASSUME NEW p \in SolvedProblems(row)
      PROVE  ScoreTerms(row)[p] \in Nat /\ PenaltyTerms(row)[p] \in Nat
  <2>1. /\ p \in Problems /\ BasePoints[p] \in Nat
        /\ row.problemScores[p].solvedAt \in Nat
        /\ row.problemScores[p].wrongSubmissions \in Nat
    BY Constants, SolvedEntries
  <2>2. CalculateICPCScore(BasePoints[p], row.problemScores[p].solvedAt,
                           row.problemScores[p].wrongSubmissions) \in Nat
    BY <2>1, ScoreType
  <2>3. CalculatePenaltyMinutes(row.problemScores[p].wrongSubmissions) \in Nat
    BY <2>1, PenaltyGrows
  <2> QED BY <2>2, <2>3 DEF ScoreTerms, PenaltyTerms
<1>2. DOMAIN ScoreTerms(row) = SolvedProblems(row) /\ DOMAIN PenaltyTerms(row) = SolvedProblems(row)
  BY DEF ScoreTerms, PenaltyTerms
<1>3. SumFunction(ScoreTerms(row)) \in Nat /\ SumFunction(PenaltyTerms(row)) \in Nat
  BY <1>1, <1>2, SolvedEntries, SumIsNumber DEF SumFunction
<1>4. FinalPenalty(row) = SumFunction(PenaltyTerms(row))
  BY DEF FinalPenalty, PenaltyTerms
<1>5. FinalScore(row) = Rounded(SumFunction(ScoreTerms(row)), Scale)
  BY DEF FinalScore, ScoreTerms, Rounded
<1>6. Scale \in Nat /\ Scale > 0
  BY Constants DEF Scale
<1>7. FinalScore(row) \in Nat
  BY <1>3, <1>5, <1>6, RoundedBetween
<1> QED BY <1>1, <1>3, <1>4, <1>5, <1>7
-----------------------------------------------------------------------------
(* The figures add up *)

\* Every user is on a leaderboard, once.
LEMMA BoardPositions ==
    ASSUME NEW board \in Leaderboards
    PROVE  /\ DOMAIN board = 1 .. Cardinality(Users) /\ Cardinality(Users) \in Nat
           /\ \A u \in Users : \E i \in DOMAIN board : board[i] = u
           /\ \A i \in DOMAIN board : board[i] \in Users
           /\ \A i, j \in DOMAIN board : i < j => ~LiveBefore(board[j], board[i])
<1> DEFINE n == Cardinality(Users)
           D == 1 .. n
<1>1. n \in Nat
  BY Constants, FS_CardinalityType
<1>2. /\ board \in [D -> Users]
      /\ \A i, j \in D : i # j => board[i] # board[j]
  BY DEF Leaderboards, SetToSeqs
<1>3. DOMAIN board = D
  BY <1>2
<1>4. board \in Injection(D, Users)
  BY <1>2 DEF Injection, IsInjective
<1>5. Cardinality(D) = n
  BY <1>1, FS_Interval
<1>6. board \in Surjection(D, Users)
  <2> HIDE DEF D
  <2> QED BY <1>4, <1>5, Constants, FS_Injection
<1>7. \A u \in Users : \E i \in D : board[i] = u
  BY <1>6 DEF Surjection
<1>8. \A i, j \in DOMAIN board : i < j => ~LiveBefore(board[j], board[i])
  BY DEF Leaderboards
<1> QED BY <1>1, <1>2, <1>3, <1>7, <1>8

\* Whoever tops a leaderboard has the highest score.
LEMMA TopIsHighest ==
    ASSUME Shapes, NEW board \in Leaderboards, NEW u \in Users
    PROVE  db[u].totalScore <= TopScore(board)
<1>1. PICK i \in DOMAIN board : board[i] = u
  BY BoardPositions
<1>2. i \in Nat /\ 1 <= i /\ 1 \in DOMAIN board
  BY BoardPositions
<1>3. board[1] \in Users /\ (i # 1 => ~LiveBefore(u, board[1]))
  BY <1>1, <1>2, BoardPositions
<1>4. db[u].totalScore \in Nat /\ db[board[1]].totalScore \in Nat
  <2>1. db[u] \in Row /\ db[board[1]] \in Row
    BY <1>3 DEF Shapes, TypeOK
  <2> QED BY <2>1 DEF Row
<1> QED BY <1>1, <1>3, <1>4 DEF LiveBefore, TopScore

\* The solved problems are counted by participant and by problem.
LEMMA SolvesAgree ==
    ASSUME IInv, raced = {}
    PROVE  TotalSolved = SumFunction([p \in Problems |-> Cardinality(SolvedBy(p))])
<1> DEFINE Pairs == {pair \in Users \X Problems : pair[2] \in SolvedProblems(db[pair[1]])}
           byUser == [u \in Users |-> Cardinality({p \in Problems : <<u, p>> \in Pairs})]
           byProblem == [p \in Problems |-> Cardinality({u \in Users : <<u, p>> \in Pairs})]
<1>1. SumFunctionOnSet(byUser, Users) = SumFunctionOnSet(byProblem, Problems)
  <2> HIDE DEF Pairs
  <2>1. IsFiniteSet(Users) /\ IsFiniteSet(Problems)
    BY Constants
  <2> QED BY <2>1, DoubleCounting, Zenon
<1>2. \A u \in Users, p \in Problems : <<u, p>> \in Pairs <=> p \in SolvedProblems(db[u])
  OBVIOUS
<1> HIDE DEF Pairs
<1>3. \A u \in Users : {p \in Problems : <<u, p>> \in Pairs} = SolvedProblems(db[u])
  BY <1>2 DEF SolvedProblems
<1>4. \A p \in Problems : {u \in Users : <<u, p>> \in Pairs} = SolvedBy(p)
  BY <1>2 DEF SolvedBy
<1>5. \A u \in Users : db[u].problemsSolved = Cardinality(SolvedProblems(db[u]))
  BY DEF IInv, RowsKept, Counted
<1>6. [u \in Users |-> db[u].problemsSolved] = byUser
  BY <1>3, <1>5
<1>7. [p \in Problems |-> Cardinality(SolvedBy(p))] = byProblem
  BY <1>4
<1>8. TotalSolved = SumFunctionOnSet(byUser, Users)
  BY <1>6 DEF TotalSolved, SumFunction
<1>9. SumFunction([p \in Problems |-> Cardinality(SolvedBy(p))])
          = SumFunctionOnSet(byProblem, Problems)
  BY <1>7 DEF SumFunction
<1> QED BY <1>1, <1>8, <1>9

\* Who solved a problem tried it.
LEMMA SolversTried ==
    ASSUME IInv, NEW p \in Problems
    PROVE  SolvedBy(p) \subseteq AttemptedBy(p)
<1> SUFFICES ASSUME NEW u \in Users, p \in SolvedProblems(db[u])
             PROVE  db[u].problemScores[p] # None /\ db[u].problemScores[p].attempts > 0
  BY DEF SolvedBy, AttemptedBy
<1>1. db[u].problemScores[p] # None
  BY DEF SolvedProblems
<1>2. PICK kept \in SUBSET (1 .. Len(judged[u][p])) :
          MadeOf(db[u].problemScores[p], judged[u][p], kept)
  BY DEF IInv, RowsKept, Made
<1>3. kept # {} /\ db[u].problemScores[p].attempts = Cardinality(kept)
  BY <1>1, <1>2 DEF MadeOf
<1>4. IsFiniteSet(kept)
  <2>1. Len(judged[u][p]) \in Nat
    BY LenProperties DEF IInv, Shapes, TypeOK
  <2>2. IsFiniteSet(1 .. Len(judged[u][p]))
    BY <2>1, FS_Interval
  <2> QED BY <2>2, FS_Subset
<1>5. Cardinality(kept) \in Nat /\ Cardinality(kept) # 0
  BY <1>3, <1>4, FS_CardinalityType, FS_EmptySet
<1> QED BY <1>1, <1>3, <1>5

LEMMA RateIsPercent ==
    ASSUME IInv, NEW p \in Problems
    PROVE  AcceptanceRate(p) \in 0 .. 100
<1> DEFINE solved == Cardinality(SolvedBy(p))
           tried == Cardinality(AttemptedBy(p))
<1>1. CASE AttemptedBy(p) = {}
  BY <1>1 DEF AcceptanceRate
<1>2. CASE AttemptedBy(p) # {}
  <2>1. AttemptedBy(p) \subseteq Users /\ SolvedBy(p) \subseteq AttemptedBy(p)
    BY SolversTried DEF AttemptedBy
  <2>2. IsFiniteSet(AttemptedBy(p)) /\ IsFiniteSet(SolvedBy(p)) /\ solved <= tried
    BY <2>1, Constants, FS_Subset
  <2>3. solved \in Nat /\ tried \in Nat /\ tried > 0
    BY <1>2, <2>2, FS_CardinalityType, FS_EmptySet
  <2>4. AcceptanceRate(p) = Rounded(100 * solved, tried)
    BY <1>2 DEF AcceptanceRate
  <2> HIDE DEF solved, tried
  <2>5. 100 * solved \in Nat /\ 100 * solved <= tried * 100
    BY <2>2, <2>3
  <2>6. Rounded(100 * solved, tried) \in Nat /\ Rounded(100 * solved, tried) <= 100
    BY <2>3, <2>5, RoundedBetween
  <2> QED BY <2>4, <2>6
<1> QED BY <1>1, <1>2

\* The average lies between the extremes.
LEMMA AverageBetween ==
    ASSUME Shapes
    PROVE  LowestScore <= AverageScore /\ AverageScore <= HighestScore
<1>1. CASE Users = {}
  BY <1>1 DEF LowestScore, AverageScore, HighestScore
<1>2. CASE Users # {}
  <2> DEFINE score == [u \in Users |-> FinalScore(db[u])]
             n == Cardinality(Users)
             low == LowestScore
             high == HighestScore
  <2>1. \A u \in Users : score[u] \in Nat
    BY TermsType DEF Shapes, TypeOK
  <2>2. n \in Nat /\ n > 0
    BY <1>2, Constants, FS_CardinalityType, FS_EmptySet
  <2>3. FinalScores = {score[u] : u \in Users}
    BY DEF FinalScores
  <2>4. low \in Nat /\ \A u \in Users : low <= score[u]
    <3>1. FinalScores \in SUBSET Nat /\ FinalScores # {}
      BY <1>2, <2>1, <2>3
    <3>2. low = Min(FinalScores)
      BY <1>2 DEF LowestScore
    <3>3. low \in FinalScores /\ \A x \in FinalScores : low <= x
      <4> HIDE DEF low, score
      <4> QED BY <3>1, <3>2, LeastNumber
    <3> HIDE DEF low, score
    <3> QED BY <2>3, <3>1, <3>3
  <2>5. high \in Nat /\ \A u \in Users : score[u] <= high
    <3>1. PICK best \in Users : \A u \in Users : score[u] <= score[best]
      <4> HIDE DEF score
      <4> QED BY <1>2, <2>1, Constants, LargestValue
    <3>2. high = Max(FinalScores)
      BY <1>2 DEF HighestScore
    <3> HIDE DEF high, score
    <3>3. score[best] \in FinalScores /\ \A x \in FinalScores : score[best] >= x
      BY <2>1, <2>3, <3>1
    <3>4. high \in FinalScores /\ \A x \in FinalScores : high >= x
      BY <3>2, <3>3 DEF Max
    <3> QED BY <2>1, <2>3, <3>4
  <2>6. SumFunctionOnSet(score, Users) \in Nat
    <3> HIDE DEF score
    <3> QED BY <2>1, Constants, SumIsNumber
  <2>7. n * low <= SumFunctionOnSet(score, Users)
    <3> DEFINE lows == [u \in Users |-> low]
    <3>1. SumFunctionOnSet(lows, Users) = low * n
      <4>1. \A u \in Users : lows[u] = low
        OBVIOUS
      <4> HIDE DEF lows, low
      <4> QED BY <2>4, <4>1, Constants, SumOfConstant
    <3>2. SumFunctionOnSet(lows, Users) <= SumFunctionOnSet(score, Users)
      <4>1. \A u \in Users : lows[u] \in Nat /\ lows[u] <= score[u]
        BY <2>4
      <4> HIDE DEF lows, low, score
      <4> QED BY <2>1, <4>1, Constants, SumGrows
    <3>3. n * low = low * n
      BY <2>2, <2>4
    <3> HIDE DEF lows, low, score, n
    <3> QED BY <3>1, <3>2, <3>3
  <2>8. SumFunctionOnSet(score, Users) <= n * high
    <3> DEFINE highs == [u \in Users |-> high]
    <3>1. SumFunctionOnSet(highs, Users) = high * n
      <4>1. \A u \in Users : highs[u] = high
        OBVIOUS
      <4> HIDE DEF highs, high
      <4> QED BY <2>5, <4>1, Constants, SumOfConstant
    <3>2. SumFunctionOnSet(score, Users) <= SumFunctionOnSet(highs, Users)
      <4>1. \A u \in Users : highs[u] \in Nat /\ score[u] <= highs[u]
        BY <2>5
      <4> HIDE DEF highs, high, score
      <4> QED BY <2>1, <4>1, Constants, SumGrows
    <3>3. n * high = high * n
      BY <2>2, <2>5
    <3> HIDE DEF highs, high, score, n
    <3> QED BY <3>1, <3>2, <3>3
  <2>9. AverageScore = Rounded(SumFunctionOnSet(score, Users), n)
    BY <1>2 DEF AverageScore, SumFunction
  <2> HIDE DEF score, n, low, high
  <2>10. low <= AverageScore /\ AverageScore <= high
    BY <2>2, <2>4, <2>5, <2>6, <2>7, <2>8, <2>9, RoundedBetween
  <2> QED BY <2>10 DEF low, high
<1> QED BY <1>1, <1>2

\* However requests overlap, the figures agree with each other: nobody solved
\* what he did not try, rates are percentages, the average lies between the
\* extremes and the top of a leaderboard has the highest score; solves are the
\* same counted by participant and by problem until somebody has two
\* submissions in flight.
THEOREM FiguresHold == Spec => []FiguresAddUp
<1>1. IInv => FiguresAddUp
  <2> SUFFICES ASSUME IInv PROVE FiguresAddUp
    OBVIOUS
  <2>1. Shapes
    BY DEF IInv
  <2>2. \A p \in Problems : SolvedBy(p) \subseteq AttemptedBy(p) /\ AcceptanceRate(p) \in 0 .. 100
    BY SolversTried, RateIsPercent
  <2>3. \A board \in Leaderboards, u \in Users : db[u].totalScore <= TopScore(board)
    BY <2>1, TopIsHighest
  <2> QED BY <2>1, <2>2, <2>3, SolvesAgree, AverageBetween DEF FiguresAddUp
<1> QED BY <1>1, Invariance, PTL
-----------------------------------------------------------------------------
(* The rankings are fair *)

\* No later and no more wrong attempts: no lower score, no higher penalty.
LEMMA NoWorseScores ==
    ASSUME NEW a \in Row, NEW b \in Row, NoWorse(a, b)
    PROVE  FinalScore(b) <= FinalScore(a) /\ FinalPenalty(a) <= FinalPenalty(b)
<1> DEFINE S == SolvedProblems(a)
<1>1. /\ SolvedProblems(b) = S /\ S \in SUBSET Problems /\ IsFiniteSet(S)
      /\ \A p \in S : /\ a.problemScores[p].solvedAt \in Nat
                      /\ b.problemScores[p].solvedAt \in Nat
                      /\ a.problemScores[p].wrongSubmissions \in Nat
                      /\ b.problemScores[p].wrongSubmissions \in Nat
                      /\ a.problemScores[p].solvedAt <= b.problemScores[p].solvedAt
                      /\ a.problemScores[p].wrongSubmissions <= b.problemScores[p].wrongSubmissions
  BY SolvedEntries DEF NoWorse
<1>2. DOMAIN ScoreTerms(a) = S /\ DOMAIN ScoreTerms(b) = S
      /\ DOMAIN PenaltyTerms(a) = S /\ DOMAIN PenaltyTerms(b) = S
  BY <1>1 DEF ScoreTerms, PenaltyTerms
<1>3. /\ \A p \in S : ScoreTerms(a)[p] \in Nat /\ ScoreTerms(b)[p] \in Nat
      /\ \A p \in S : PenaltyTerms(a)[p] \in Nat /\ PenaltyTerms(b)[p] \in Nat
  BY <1>1, TermsType
<1>4. ASSUME NEW p \in S
      PROVE  ScoreTerms(b)[p] <= ScoreTerms(a)[p] /\ PenaltyTerms(a)[p] <= PenaltyTerms(b)[p]
  <2>1. p \in Problems /\ BasePoints[p] \in Nat
    BY <1>1, Constants
  <2>2. CalculateICPCScore(BasePoints[p], b.problemScores[p].solvedAt,
                           b.problemScores[p].wrongSubmissions)
            <= CalculateICPCScore(BasePoints[p], a.problemScores[p].solvedAt,
                                  a.problemScores[p].wrongSubmissions)
    BY <1>1, <2>1, ScoreFalls
  <2>3. CalculatePenaltyMinutes(a.problemScores[p].wrongSubmissions)
            <= CalculatePenaltyMinutes(b.problemScores[p].wrongSubmissions)
    BY <1>1, PenaltyGrows
  <2> QED BY <1>1, <2>2, <2>3 DEF ScoreTerms, PenaltyTerms
<1> HIDE DEF S
<1>5. SumFunction(ScoreTerms(b)) <= SumFunction(ScoreTerms(a))
  BY <1>1, <1>2, <1>3, <1>4, SumGrows DEF SumFunction
<1>6. SumFunction(PenaltyTerms(a)) <= SumFunction(PenaltyTerms(b))
  BY <1>1, <1>2, <1>3, <1>4, SumGrows DEF SumFunction
<1>7. FinalScore(b) <= FinalScore(a)
  <2> DEFINE x == SumFunction(ScoreTerms(a))
             y == SumFunction(ScoreTerms(b))
  <2>1. x \in Nat /\ y \in Nat
    BY TermsType
  <2>2. Scale \in Nat /\ Scale > 0
    BY Constants DEF Scale
  <2>3. FinalScore(a) = (2 * x + Scale) \div (2 * Scale)
        /\ FinalScore(b) = (2 * y + Scale) \div (2 * Scale)
    BY TermsType DEF Rounded
  <2> HIDE DEF x, y
  <2>4. 2 * y + Scale <= 2 * x + Scale /\ 2 * y + Scale \in Int /\ 2 * x + Scale \in Int
        /\ 2 * Scale \in Nat /\ 2 * Scale > 0
    BY <1>5, <2>1, <2>2 DEF x, y
  <2> QED BY <2>3, <2>4, QuotientGrows
<1>8. FinalPenalty(a) <= FinalPenalty(b)
  BY <1>6, TermsType
<1> QED BY <1>7, <1>8

LEMMA FinalFair == IInv => FinalIsFair
<1> SUFFICES ASSUME IInv, NEW u \in Users, NEW v \in Users, NoWorse(db[u], db[v])
             PROVE  /\ FinalScore(db[v]) <= FinalScore(db[u])
                    /\ FinalPenalty(db[u]) <= FinalPenalty(db[v])
                    /\ {u, v} \cap raced = {} => ~Before(db[v], db[u])
  BY DEF FinalIsFair
<1> DEFINE a == db[u]
           b == db[v]
<1>1. /\ a \in Row /\ b \in Row
      /\ {u, v} \cap raced = {} => LastIsLatest(a) /\ LastIsLatest(b)
  BY DEF IInv, Shapes, TypeOK, LastSolves
<1>2. FinalScore(b) <= FinalScore(a) /\ FinalPenalty(a) <= FinalPenalty(b)
  BY <1>1, NoWorseScores
<1>3. /\ FinalScore(a) \in Nat /\ FinalScore(b) \in Nat
      /\ FinalPenalty(a) \in Nat /\ FinalPenalty(b) \in Nat
  BY <1>1, TermsType
<1>4. ASSUME {u, v} \cap raced = {}
      PROVE  ~Earlier(b.timeOfLastSolve, a.timeOfLastSolve)
  <2>0. LastIsLatest(a) /\ LastIsLatest(b)
    BY <1>1, <1>4
  <2>1. CASE SolvedProblems(b) = {}
    BY <2>0, <2>1 DEF LastIsLatest, Earlier
  <2>2. CASE SolvedProblems(b) # {}
    <3>1. SolvedProblems(a) = SolvedProblems(b)
      BY DEF NoWorse
    <3>2. PICK p \in SolvedProblems(a) : a.timeOfLastSolve = a.problemScores[p].solvedAt
      BY <2>0, <2>2, <3>1 DEF LastIsLatest
    <3>3. a.problemScores[p].solvedAt <= b.problemScores[p].solvedAt
      BY DEF NoWorse
    <3>4. b.problemScores[p].solvedAt <= b.timeOfLastSolve
      BY <2>0, <2>2, <3>1 DEF LastIsLatest
    <3>5. /\ a.problemScores[p].solvedAt \in Nat /\ b.problemScores[p].solvedAt \in Nat
          /\ b.timeOfLastSolve \in Nat
      <4>1. PICK q \in SolvedProblems(b) : b.timeOfLastSolve = b.problemScores[q].solvedAt
        BY <2>0, <2>2 DEF LastIsLatest
      <4> QED BY <1>1, <3>1, <4>1, SolvedEntries
    <3> HIDE DEF a, b
    <3> QED BY <3>2, <3>3, <3>4, <3>5, Constants DEF Earlier
  <2> QED BY <2>1, <2>2
<1> HIDE DEF a, b
<1>5. {u, v} \cap raced = {} => ~Before(b, a)
  BY <1>2, <1>3, <1>4 DEF Before
<1> QED BY <1>2, <1>5 DEF a, b

LEMMA LiveFair == IInv => LiveIsFair
<1> SUFFICES ASSUME IInv, NEW u \in Users \ raced, NEW v \in Users \ raced,
                    Surpasses(db[u], db[v]),
                    NEW board \in Leaderboards, NEW i \in DOMAIN board, NEW j \in DOMAIN board,
                    board[i] = u, board[j] = v
             PROVE  i < j
  BY DEF LiveIsFair
<1> DEFINE a == db[u]
           b == db[v]
           A == SolvedProblems(a)
           B == SolvedProblems(b)
           scoresA == [p \in A |-> a.problemScores[p].score]
           scoresB == [p \in B |-> b.problemScores[p].score]
<1>1. a \in Row /\ b \in Row /\ Counted(a) /\ Counted(b)
  BY DEF IInv, Shapes, TypeOK, RowsKept
<1>2. /\ B \subseteq A /\ A # B /\ IsFiniteSet(A) /\ IsFiniteSet(B)
      /\ \A p \in A : a.problemScores[p].score \in Nat
      /\ \A p \in B : b.problemScores[p].score \in Nat
      /\ \A p \in B : a.problemScores[p].score >= b.problemScores[p].score
  BY <1>1, SolvedEntries DEF Surpasses
<1>3. /\ a.problemsSolved = Cardinality(A) /\ b.problemsSolved = Cardinality(B)
      /\ a.totalScore = SumFunctionOnSet(scoresA, A)
      /\ b.totalScore = SumFunctionOnSet(scoresB, B)
  BY <1>1 DEF Counted, SumFunction
<1>4. SumFunctionOnSet(scoresB, B) <= SumFunctionOnSet(scoresA, A)
  <2>1. /\ \A p \in A : scoresA[p] \in Nat
        /\ \A p \in B : scoresB[p] \in Nat /\ scoresB[p] <= scoresA[p]
    BY <1>2
  <2> HIDE DEF A, B, scoresA, scoresB
  <2> QED BY <1>2, <2>1, SumGrows
<1>5. Cardinality(B) <= Cardinality(A) /\ Cardinality(B) # Cardinality(A)
      /\ Cardinality(A) \in Nat /\ Cardinality(B) \in Nat
  <2> HIDE DEF A, B
  <2> QED BY <1>2, FS_Subset, FS_CardinalityType
<1>6. /\ b.totalScore <= a.totalScore /\ b.problemsSolved < a.problemsSolved
      /\ a.totalScore \in Nat /\ b.totalScore \in Nat
  <2>1. a.totalScore \in Nat /\ b.totalScore \in Nat
    BY <1>1 DEF Row
  <2> HIDE DEF a, b, A, B, scoresA, scoresB
  <2> QED BY <1>3, <1>4, <1>5, <2>1
<1>7. LiveBefore(u, v)
  BY <1>6 DEF LiveBefore
<1>8. i # j
  BY <1>2
<1>9. ~(j < i)
  BY <1>7, BoardPositions
<1>10. i \in Nat /\ j \in Nat
  BY BoardPositions
<1> QED BY <1>8, <1>9, <1>10

\* However requests overlap, one who solved the same no later and with no more
\* wrong attempts gets no lower final score and no higher penalty; and of users
\* who never had two submissions in flight he is not ranked behind, and one who
\* solved more, for at least the same points, is shown above.
THEOREM RankingHolds == Spec => []RankingIsFair
<1>1. IInv => RankingIsFair
  BY FinalFair, LiveFair DEF RankingIsFair
<1> QED BY <1>1, Invariance, PTL
=============================================================================
