----------------------------- MODULE FiniteSums -----------------------------
(***************************************************************************)
(* What SumFunctionOnSet of the community modules computes.  Every budget, *)
(* balance and pool of this project is such a sum, and the proofs about    *)
(* them rest on these lemmas: what a sum is worth when an element joins or *)
(* leaves, when a summand changes, and set by set.                         *)
(*                                                                         *)
(* There is no induction here: a claim about every finite set is refuted   *)
(* by a smallest set that breaks it (MinimalSet).                          *)
(***************************************************************************)
EXTENDS Integers, FiniteSetsExt, Functions, FiniteSetTheorems, TLAPS

\* Among the subsets of a finite set that have some property, one has no
\* smaller one below it.
LEMMA MinimalSet ==
  ASSUME NEW S, IsFiniteSet(S), NEW B, B \subseteq SUBSET S, B # {}
  PROVE  \E s \in B : \A t \in B : t \subseteq s => t = s
<1>1. IsWellFoundedOn(StrictSubsetOrdering(S), SUBSET S)
  BY FS_StrictSubsetOrderingWellFounded, FS_FiniteSubsetsOfFinite
<1>2. PICK s \in B : \A t \in B : ~(<<t, s>> \in StrictSubsetOrdering(S))
  BY <1>1, WFMin
<1>3. ASSUME NEW t \in B, t \subseteq s, t # s
      PROVE  FALSE
  <2>1. <<t, s>> \in (SUBSET S) \X (SUBSET S)
    OBVIOUS
  <2>2. <<t, s>> \in StrictSubsetOrdering(S)
    BY <2>1, <1>3 DEF StrictSubsetOrdering
  <2>. QED BY <2>2, <1>2
<1>. QED BY <1>3

-----------------------------------------------------------------------------
\* The element a fold takes out of s first, and the recursion it follows: h
\* gives the sum of f over every subset of S.
Pick(s) == CHOOSE x \in s : TRUE
IsSum(f, S, h) == h = [s \in SUBSET S |-> IF s = {} THEN 0 ELSE f[Pick(s)] + h[s \ {Pick(s)}]]

\* Two functions that follow the recursion, on S and on more, agree on S.
LEMMA SumIsUnique ==
  ASSUME NEW f, NEW S, IsFiniteSet(S), NEW T, NEW h, NEW k, IsSum(f, S, h), IsSum(f, T, k),
         S \subseteq T
  PROVE  h[S] = k[S]
<1> DEFINE B == {s \in SUBSET S : h[s] # k[s]}
<1>1. SUFFICES ASSUME B # {} PROVE FALSE
  OBVIOUS
<1>2. PICK s \in B : \A t \in B : t \subseteq s => t = s
  <2>1. B \subseteq SUBSET S
    OBVIOUS
  <2> HIDE DEF B
  <2>. QED BY <1>1, <2>1, MinimalSet
<1>3. s \in SUBSET S /\ s \in SUBSET T /\ h[s] # k[s]
  OBVIOUS
<1>4. s # {}
  BY <1>3 DEF IsSum
<1>5. Pick(s) \in s
  BY <1>4 DEF Pick
<1>6. h[s \ {Pick(s)}] = k[s \ {Pick(s)}]
  BY <1>2, <1>3, <1>5
<1>7. h[s] = f[Pick(s)] + h[s \ {Pick(s)}]
  BY <1>3, <1>4 DEF IsSum
<1>8. k[s] = f[Pick(s)] + k[s \ {Pick(s)}]
  BY <1>3, <1>4 DEF IsSum
<1>. QED BY <1>3, <1>6, <1>7, <1>8

\* Some function follows it: a set is summed from the sums of smaller ones.
LEMMA SumExists ==
  ASSUME NEW f, NEW S, IsFiniteSet(S)
  PROVE  \E h : IsSum(f, S, h)
<1> DEFINE B == {T \in SUBSET S : ~\E h : IsSum(f, T, h)}
<1>1. SUFFICES ASSUME B # {} PROVE FALSE
  OBVIOUS
<1>2. PICK T \in B : \A t \in B : t \subseteq T => t = T
  <2>1. B \subseteq SUBSET S
    OBVIOUS
  <2> HIDE DEF B
  <2>. QED BY <1>1, <2>1, MinimalSet
<1> DEFINE V(s) == (CHOOSE h : IsSum(f, s, h))[s]
           h == [s \in SUBSET T |-> IF s = {} THEN 0 ELSE f[Pick(s)] + V(s \ {Pick(s)})]
<1>3. \A s \in SUBSET T : s # T => IsSum(f, s, CHOOSE k : IsSum(f, s, k))
  BY <1>2
<1>4. ASSUME NEW s \in SUBSET T, s # T
      PROVE  h[s] = V(s)
  <2>1. IsSum(f, s, CHOOSE k : IsSum(f, s, k))
    BY <1>3, <1>4
  <2> DEFINE k == CHOOSE k : IsSum(f, s, k)
  <2>2. k[s] = IF s = {} THEN 0 ELSE f[Pick(s)] + k[s \ {Pick(s)}]
    BY <2>1 DEF IsSum
  <2>3. CASE s = {}
    BY <2>2, <2>3
  <2>4. CASE s # {}
    <3> DEFINE t == s \ {Pick(s)}
    <3>1. t \subseteq s /\ t \in SUBSET T /\ t # T
      BY <2>4, <1>4
    <3>2. IsSum(f, t, CHOOSE j : IsSum(f, t, j))
      BY <3>1, <1>3
    <3>3. IsFiniteSet(t)
      BY <3>1, FS_Subset
    <3>4. V(t) = k[t]
      BY <3>1, <3>2, <3>3, <2>1, SumIsUnique
    <3>. QED BY <3>4, <2>2, <2>4
  <2>. QED BY <2>3, <2>4
<1>5. IsSum(f, T, h)
  <2>1. ASSUME NEW s \in SUBSET T, s # {}
        PROVE  V(s \ {Pick(s)}) = h[s \ {Pick(s)}]
    <3>1. Pick(s) \in s
      BY <2>1 DEF Pick
    <3>2. s \ {Pick(s)} \in SUBSET T /\ s \ {Pick(s)} # T
      BY <3>1
    <3>. QED BY <3>2, <1>4
  <2> DEFINE k == [s \in SUBSET T |-> IF s = {} THEN 0 ELSE f[Pick(s)] + h[s \ {Pick(s)}]]
  <2>2. ASSUME NEW s \in SUBSET T
        PROVE  h[s] = k[s]
    <3>1. h[s] = IF s = {} THEN 0 ELSE f[Pick(s)] + V(s \ {Pick(s)})
      OBVIOUS
    <3>2. k[s] = IF s = {} THEN 0 ELSE f[Pick(s)] + h[s \ {Pick(s)}]
      OBVIOUS
    <3> HIDE DEF h, k, V
    <3>. QED BY <3>1, <3>2, <2>1
  <2>3. h = k
    <3>1. h = [s \in SUBSET T |-> h[s]] /\ k = [s \in SUBSET T |-> k[s]]
      OBVIOUS
    <3> HIDE DEF h, k
    <3>. QED BY <3>1, <2>2
  <2>. QED BY <2>3, Zenon DEF IsSum
<1>. QED BY <1>5

\* SumFunctionOnSet is one of them.
LEMMA SumIsSum ==
  ASSUME NEW f, NEW S, IsFiniteSet(S)
  PROVE  \E h : IsSum(f, S, h) /\ SumFunctionOnSet(f, S) = h[S]
<1>1. PICK k : IsSum(f, S, k)
  BY SumExists
<1> DEFINE h == CHOOSE h : h = [s \in SUBSET S |-> IF s = {} THEN 0 ELSE f[CHOOSE x \in s : TRUE] + h[s \ {CHOOSE x \in s : TRUE}]]
<1>2. h = [s \in SUBSET S |-> IF s = {} THEN 0 ELSE f[CHOOSE x \in s : TRUE] + h[s \ {CHOOSE x \in s : TRUE}]]
  BY <1>1, Zenon DEF IsSum, Pick
<1>3. SumFunctionOnSet(f, S) = h[S]
  BY Zenon DEF SumFunctionOnSet, FoldFunctionOnSet, MapThenFoldSet
<1>. QED BY <1>2, <1>3 DEF IsSum, Pick
-----------------------------------------------------------------------------
\* Nothing adds up to nothing.
LEMMA SumEmpty == \A f : SumFunctionOnSet(f, {}) = 0
<1> SUFFICES ASSUME NEW f PROVE SumFunctionOnSet(f, {}) = 0
  OBVIOUS
<1>1. PICK h : IsSum(f, {}, h) /\ SumFunctionOnSet(f, {}) = h[{}]
  BY SumIsSum, FS_EmptySet
<1>. QED BY <1>1 DEF IsSum

\* The summand that Pick names may be taken out.
LEMMA SumPick ==
  ASSUME NEW f, NEW S, IsFiniteSet(S), S # {}
  PROVE  /\ Pick(S) \in S
         /\ SumFunctionOnSet(f, S) = f[Pick(S)] + SumFunctionOnSet(f, S \ {Pick(S)})
<1>1. Pick(S) \in S
  BY DEF Pick
<1> DEFINE R == S \ {Pick(S)}
<1>2. IsFiniteSet(R) /\ R \subseteq S
  BY FS_Subset
<1>3. PICK h : IsSum(f, S, h) /\ SumFunctionOnSet(f, S) = h[S]
  BY SumIsSum
<1>4. PICK k : IsSum(f, R, k) /\ SumFunctionOnSet(f, R) = k[R]
  BY <1>2, SumIsSum
<1>5. k[R] = h[R]
  BY <1>2, <1>3, <1>4, SumIsUnique
<1>6. h[S] = f[Pick(S)] + h[R]
  BY <1>3 DEF IsSum
<1>. QED BY <1>1, <1>3, <1>4, <1>5, <1>6

\* Integers add up to an integer.
LEMMA SumType ==
  ASSUME NEW f, NEW S, IsFiniteSet(S), \A x \in S : f[x] \in Int
  PROVE  SumFunctionOnSet(f, S) \in Int
<1> DEFINE B == {T \in SUBSET S : SumFunctionOnSet(f, T) \notin Int}
<1>1. SUFFICES ASSUME B # {} PROVE FALSE
  OBVIOUS
<1>2. PICK T \in B : \A t \in B : t \subseteq T => t = T
  <2>1. B \subseteq SUBSET S
    OBVIOUS
  <2> HIDE DEF B
  <2>. QED BY <1>1, <2>1, MinimalSet
<1>3. T # {}
  BY SumEmpty
<1>4. IsFiniteSet(T)
  BY FS_Subset
<1>5. /\ Pick(T) \in T
      /\ SumFunctionOnSet(f, T) = f[Pick(T)] + SumFunctionOnSet(f, T \ {Pick(T)})
  BY <1>3, <1>4, SumPick
<1>6. SumFunctionOnSet(f, T \ {Pick(T)}) \in Int
  BY <1>2, <1>5
<1>. QED BY <1>5, <1>6

\* Any summand may be taken out: the order of a fold does not matter.
LEMMA SumRemove ==
  ASSUME NEW f, NEW S, IsFiniteSet(S), \A x \in S : f[x] \in Int, NEW a \in S
  PROVE  SumFunctionOnSet(f, S) = f[a] + SumFunctionOnSet(f, S \ {a})
<1> DEFINE Sum(T) == SumFunctionOnSet(f, T)
           Fails(T) == \E x \in T : Sum(T) # f[x] + Sum(T \ {x})
           B == {T \in SUBSET S : Fails(T)}
<1>1. SUFFICES ASSUME B # {} PROVE FALSE
  OBVIOUS
<1>2. PICK T \in B : \A t \in B : t \subseteq T => t = T
  <2>1. B \subseteq SUBSET S
    OBVIOUS
  <2> HIDE DEF B
  <2>. QED BY <1>1, <2>1, MinimalSet
<1>3. PICK b \in T : Sum(T) # f[b] + Sum(T \ {b})
  OBVIOUS
<1> DEFINE p == Pick(T)
           R == (T \ {b}) \ {p}
<1>4. T \subseteq S /\ IsFiniteSet(T)
  BY FS_Subset
<1>5. p \in T /\ Sum(T) = f[p] + Sum(T \ {p})
  BY <1>3, <1>4, SumPick
<1>6. p # b
  BY <1>3, <1>5
<1>7. \A U \in SUBSET T : \A x \in U : U # T => Sum(U) = f[x] + Sum(U \ {x})
  BY <1>2, <1>4
<1> HIDE DEF B, Fails, Sum, p
<1>8. Sum(T \ {p}) = f[b] + Sum(R)
  <2>1. b \in T \ {p} /\ T \ {p} \in SUBSET T /\ T \ {p} # T /\ (T \ {p}) \ {b} = R
    BY <1>5, <1>6
  <2>. QED BY <2>1, <1>7
<1>9. Sum(T \ {b}) = f[p] + Sum(R)
  <2>1. p \in T \ {b} /\ T \ {b} \in SUBSET T /\ T \ {b} # T
    BY <1>5, <1>6
  <2>. QED BY <2>1, <1>7
<1>10. Sum(R) \in Int
  <2>1. R \subseteq S /\ IsFiniteSet(R)
    BY <1>4, FS_Subset
  <2>. QED BY <2>1, SumType DEF Sum
<1>11. f[b] \in Int /\ f[p] \in Int
  BY <1>4, <1>5
<1>. QED BY <1>3, <1>5, <1>8, <1>9, <1>10, <1>11

\* ... or added.
LEMMA SumAdd ==
  ASSUME NEW f, NEW S, IsFiniteSet(S), \A x \in S : f[x] \in Int, NEW a, a \notin S, f[a] \in Int
  PROVE  SumFunctionOnSet(f, S \cup {a}) = f[a] + SumFunctionOnSet(f, S)
<1> DEFINE T == S \cup {a}
<1>1. IsFiniteSet(T) /\ a \in T /\ T \ {a} = S /\ \A x \in T : f[x] \in Int
  BY FS_AddElement
<1> HIDE DEF T
<1>2. SumFunctionOnSet(f, T) = f[a] + SumFunctionOnSet(f, T \ {a})
  BY <1>1, SumRemove
<1>. QED BY <1>1, <1>2 DEF T

\* Equal summands have equal sums.
LEMMA SumSame ==
  ASSUME NEW f, NEW g, NEW S, IsFiniteSet(S), \A x \in S : f[x] = g[x]
  PROVE  SumFunctionOnSet(f, S) = SumFunctionOnSet(g, S)
<1> DEFINE B == {T \in SUBSET S : SumFunctionOnSet(f, T) # SumFunctionOnSet(g, T)}
<1>1. SUFFICES ASSUME B # {} PROVE FALSE
  OBVIOUS
<1>2. PICK T \in B : \A t \in B : t \subseteq T => t = T
  <2>1. B \subseteq SUBSET S
    OBVIOUS
  <2> HIDE DEF B
  <2>. QED BY <1>1, <2>1, MinimalSet
<1>3. T # {} /\ T \subseteq S /\ IsFiniteSet(T)
  BY SumEmpty, FS_Subset
<1> DEFINE p == Pick(T)
<1>4. /\ p \in T
      /\ SumFunctionOnSet(f, T) = f[p] + SumFunctionOnSet(f, T \ {p})
      /\ SumFunctionOnSet(g, T) = g[p] + SumFunctionOnSet(g, T \ {p})
  BY <1>3, SumPick
<1>5. SumFunctionOnSet(f, T \ {p}) = SumFunctionOnSet(g, T \ {p})
  BY <1>2, <1>3, <1>4
<1>. QED BY <1>3, <1>4, <1>5

\* Larger summands have a larger sum.
LEMMA SumMonotone ==
  ASSUME NEW f, NEW g, NEW S, IsFiniteSet(S),
         \A x \in S : f[x] \in Int /\ g[x] \in Int /\ f[x] <= g[x]
  PROVE  SumFunctionOnSet(f, S) <= SumFunctionOnSet(g, S)
<1> DEFINE B == {T \in SUBSET S : ~(SumFunctionOnSet(f, T) <= SumFunctionOnSet(g, T))}
<1>1. SUFFICES ASSUME B # {} PROVE FALSE
  OBVIOUS
<1>2. PICK T \in B : \A t \in B : t \subseteq T => t = T
  <2>1. B \subseteq SUBSET S
    OBVIOUS
  <2> HIDE DEF B
  <2>. QED BY <1>1, <2>1, MinimalSet
<1>3. T # {} /\ T \subseteq S /\ IsFiniteSet(T)
  <2>1. SumFunctionOnSet(f, {}) <= SumFunctionOnSet(g, {})
    BY SumEmpty
  <2>. QED BY <2>1, FS_Subset
<1> DEFINE p == Pick(T)
<1>4. /\ p \in T
      /\ SumFunctionOnSet(f, T) = f[p] + SumFunctionOnSet(f, T \ {p})
      /\ SumFunctionOnSet(g, T) = g[p] + SumFunctionOnSet(g, T \ {p})
  BY <1>3, SumPick
<1>5. SumFunctionOnSet(f, T \ {p}) <= SumFunctionOnSet(g, T \ {p})
  BY <1>2, <1>3, <1>4
<1>6. SumFunctionOnSet(f, T \ {p}) \in Int /\ SumFunctionOnSet(g, T \ {p}) \in Int
  <2>1. T \ {p} \subseteq S /\ IsFiniteSet(T \ {p})
    BY <1>3, FS_Subset
  <2>. QED BY <2>1, SumType
<1>. QED BY <1>3, <1>4, <1>5, <1>6

\* Zeros add up to zero.
LEMMA SumZero ==
  ASSUME NEW f, NEW S, IsFiniteSet(S), \A x \in S : f[x] = 0
  PROVE  SumFunctionOnSet(f, S) = 0
<1> DEFINE B == {T \in SUBSET S : SumFunctionOnSet(f, T) # 0}
<1>1. SUFFICES ASSUME B # {} PROVE FALSE
  OBVIOUS
<1>2. PICK T \in B : \A t \in B : t \subseteq T => t = T
  <2>1. B \subseteq SUBSET S
    OBVIOUS
  <2> HIDE DEF B
  <2>. QED BY <1>1, <2>1, MinimalSet
<1>3. T # {} /\ T \subseteq S /\ IsFiniteSet(T)
  BY SumEmpty, FS_Subset
<1> DEFINE p == Pick(T)
<1>4. p \in T /\ SumFunctionOnSet(f, T) = f[p] + SumFunctionOnSet(f, T \ {p})
  BY <1>3, SumPick
<1>5. SumFunctionOnSet(f, T \ {p}) = 0
  BY <1>2, <1>3, <1>4
<1>. QED BY <1>3, <1>4, <1>5

\* Natural numbers add up to a natural number.
LEMMA SumNat ==
  ASSUME NEW f, NEW S, IsFiniteSet(S), \A x \in S : f[x] \in Nat
  PROVE  SumFunctionOnSet(f, S) \in Nat
<1> DEFINE z == [x \in S |-> 0]
<1>1. SumFunctionOnSet(z, S) = 0
  BY SumZero
<1>2. SumFunctionOnSet(z, S) <= SumFunctionOnSet(f, S)
  BY SumMonotone
<1>3. SumFunctionOnSet(f, S) \in Int
  BY SumType
<1>. QED BY <1>1, <1>2, <1>3

\* When one summand changes, the sum changes by as much.
LEMMA SumChange ==
  ASSUME NEW f, NEW g, NEW S, IsFiniteSet(S), NEW a \in S,
         \A x \in S : f[x] \in Int /\ g[x] \in Int, \A x \in S \ {a} : g[x] = f[x]
  PROVE  SumFunctionOnSet(g, S) = SumFunctionOnSet(f, S) + g[a] - f[a]
<1> DEFINE R == S \ {a}
<1>1. IsFiniteSet(R)
  BY FS_Subset
<1>2. SumFunctionOnSet(g, R) = SumFunctionOnSet(f, R)
  BY <1>1, SumSame
<1>3. SumFunctionOnSet(f, R) \in Int
  BY <1>1, SumType
<1>4. SumFunctionOnSet(f, S) = f[a] + SumFunctionOnSet(f, R)
  BY SumRemove
<1>5. SumFunctionOnSet(g, S) = g[a] + SumFunctionOnSet(g, R)
  BY SumRemove
<1> HIDE DEF R
<1>. QED BY <1>2, <1>3, <1>4, <1>5

\* Two sets with nothing in common are summed one after the other.
LEMMA SumDisjoint ==
  ASSUME NEW f, NEW S, NEW T, IsFiniteSet(S), IsFiniteSet(T), S \cap T = {},
         \A x \in S \cup T : f[x] \in Int
  PROVE  SumFunctionOnSet(f, S \cup T) = SumFunctionOnSet(f, S) + SumFunctionOnSet(f, T)
<1> DEFINE Sum(U) == SumFunctionOnSet(f, U)
           B == {U \in SUBSET T : Sum(S \cup U) # Sum(S) + Sum(U)}
<1>1. SUFFICES ASSUME B # {} PROVE FALSE
  OBVIOUS
<1>2. PICK U \in B : \A t \in B : t \subseteq U => t = U
  <2>1. B \subseteq SUBSET T
    OBVIOUS
  <2> HIDE DEF B
  <2>. QED BY <1>1, <2>1, MinimalSet
<1>3. U \subseteq T /\ Sum(S \cup U) # Sum(S) + Sum(U)
  OBVIOUS
<1>4. Sum(S) \in Int /\ Sum({}) = 0
  BY SumType, SumEmpty
<1>5. U # {}
  <2> SUFFICES ASSUME U = {} PROVE FALSE
    OBVIOUS
  <2>1. S \cup U = S
    OBVIOUS
  <2>2. Sum(S \cup U) = Sum(S) /\ Sum(U) = 0
    BY <1>4, <2>1
  <2>. QED BY <1>3, <1>4, <2>2
<1>6. PICK a \in U : TRUE
  BY <1>5
<1> DEFINE R == U \ {a}
<1>7. IsFiniteSet(R) /\ R \subseteq T /\ a \notin R /\ a \notin S /\ R # U /\ f[a] \in Int
  BY <1>3, FS_Subset
<1>8. Sum(S \cup R) = Sum(S) + Sum(R)
  BY <1>2, <1>7
<1>9. Sum(U) = f[a] + Sum(R)
  <2>1. R \cup {a} = U
    OBVIOUS
  <2>. QED BY <1>7, <2>1, SumAdd
<1>10. Sum(S \cup U) = f[a] + Sum(S \cup R)
  <2> DEFINE V == S \cup R
  <2>1. V \cup {a} = S \cup U /\ IsFiniteSet(V) /\ a \notin V /\ \A x \in V : f[x] \in Int
    BY <1>3, <1>7, FS_Union
  <2> HIDE DEF V, R
  <2>2. Sum(V \cup {a}) = f[a] + Sum(V)
    BY <1>7, <2>1, SumAdd
  <2>. QED BY <2>1, <2>2 DEF V
<1>11. Sum(R) \in Int
  BY <1>7, SumType
<1> HIDE DEF Sum, R, B
<1>. QED BY <1>3, <1>4, <1>7, <1>8, <1>9, <1>10, <1>11

\* Fewer natural summands have no larger a sum.
LEMMA SumSubset ==
  ASSUME NEW f, NEW S, NEW T, IsFiniteSet(T), S \subseteq T, \A x \in T : f[x] \in Nat
  PROVE  SumFunctionOnSet(f, S) <= SumFunctionOnSet(f, T)
<1> DEFINE R == T \ S
<1>1. IsFiniteSet(R) /\ IsFiniteSet(S) /\ S \cup R = T /\ S \cap R = {}
  BY FS_Subset
<1>2. SumFunctionOnSet(f, R) \in Nat /\ SumFunctionOnSet(f, S) \in Nat
  BY <1>1, SumNat
<1>3. SumFunctionOnSet(f, S \cup R) = SumFunctionOnSet(f, S) + SumFunctionOnSet(f, R)
  <2> HIDE DEF R
  <2>. QED BY <1>1, SumDisjoint
<1>4. SumFunctionOnSet(f, T) = SumFunctionOnSet(f, S) + SumFunctionOnSet(f, R)
  BY <1>1, <1>3
<1> HIDE DEF R
<1>. QED BY <1>2, <1>4

\* A family of sets with nothing in common is summed set by set.
LEMMA SumOfParts ==
  ASSUME NEW f, NEW I, IsFiniteSet(I), NEW Part, \A i \in I : IsFiniteSet(Part[i]),
         \A i \in I : \A j \in I : i # j => Part[i] \cap Part[j] = {},
         \A i \in I : \A x \in Part[i] : f[x] \in Int,
         NEW F, \A i \in I : F[i] = SumFunctionOnSet(f, Part[i]),
         NEW U, \A i \in I : Part[i] \subseteq U, \A x \in U : \E i \in I : x \in Part[i]
  PROVE  IsFiniteSet(U) /\ SumFunctionOnSet(f, U) = SumFunctionOnSet(F, I)
<1> DEFINE All(J) == UNION {Part[i] : i \in J}
           Holds(J) == IsFiniteSet(All(J)) /\ SumFunctionOnSet(f, All(J)) = SumFunctionOnSet(F, J)
           B == {J \in SUBSET I : ~Holds(J)}
<1>1. SUFFICES ASSUME B # {} PROVE FALSE
  <2>1. All(I) = U
    OBVIOUS
  <2> HIDE DEF All
  <2>2. SUFFICES Holds(I)
    BY <2>1
  <2>. QED OBVIOUS
<1>2. PICK J \in B : \A t \in B : t \subseteq J => t = J
  <2>1. B \subseteq SUBSET I
    OBVIOUS
  <2> HIDE DEF B
  <2>. QED BY <1>1, <2>1, MinimalSet
<1>3. J \subseteq I /\ ~Holds(J)
  OBVIOUS
<1>4. J # {}
  <2>1. All({}) = {}
    OBVIOUS
  <2>2. Holds({})
    BY <2>1, SumEmpty, FS_EmptySet
  <2> HIDE DEF Holds
  <2>. QED BY <1>3, <2>2
<1>5. PICK a \in J : TRUE
  BY <1>4
<1> DEFINE K == J \ {a}
<1>6. Holds(K)
  <2>1. K \subseteq I /\ K \subseteq J /\ K # J
    BY <1>3, <1>5
  <2> HIDE DEF Holds, K
  <2>. QED BY <1>2, <2>1
<1>7. All(J) = All(K) \cup Part[a] /\ All(K) \cap Part[a] = {} /\ a \in I
  BY <1>3, <1>5
<1>8. IsFiniteSet(All(K)) /\ IsFiniteSet(Part[a]) /\ \A x \in All(K) \cup Part[a] : f[x] \in Int
  BY <1>3, <1>6, <1>7
<1>9. SumFunctionOnSet(f, All(J)) = SumFunctionOnSet(f, All(K)) + SumFunctionOnSet(f, Part[a])
  <2> DEFINE X == All(K)  Y == Part[a]
  <2>1. IsFiniteSet(X) /\ IsFiniteSet(Y) /\ X \cap Y = {} /\ \A x \in X \cup Y : f[x] \in Int
    BY <1>7, <1>8
  <2>2. All(J) = X \cup Y
    BY <1>7
  <2> HIDE DEF All, X, Y
  <2>3. SumFunctionOnSet(f, X \cup Y) = SumFunctionOnSet(f, X) + SumFunctionOnSet(f, Y)
    BY ONLY <2>1, SumDisjoint
  <2>. QED BY <2>2, <2>3 DEF X, Y
<1>10. IsFiniteSet(All(J))
  <2> HIDE DEF All
  <2>1. IsFiniteSet(All(K) \cup Part[a])
    BY <1>8, FS_Union
  <2>. QED BY <1>7, <2>1
<1>11. \A i \in I : F[i] \in Int
  BY SumType
<1>12. SumFunctionOnSet(F, J) = F[a] + SumFunctionOnSet(F, K)
  <2> HIDE DEF B
  <2>1. IsFiniteSet(J) /\ \A i \in J : F[i] \in Int
    BY <1>3, <1>11, FS_Subset
  <2>. QED BY <2>1, SumRemove
<1>13. SumFunctionOnSet(F, K) \in Int
  <2> HIDE DEF B
  <2>1. IsFiniteSet(K) /\ \A i \in K : F[i] \in Int
    BY <1>3, <1>11, FS_Subset
  <2>. QED BY <2>1, SumType
<1>14. F[a] = SumFunctionOnSet(f, Part[a])
  BY <1>7
<1>15. SumFunctionOnSet(f, All(K)) = SumFunctionOnSet(F, K)
  BY <1>6
<1>16. F[a] \in Int
  BY <1>7, <1>11
<1>17. SumFunctionOnSet(f, All(J)) = SumFunctionOnSet(F, J)
  <2> HIDE DEF All, K
  <2>. QED BY <1>9, <1>12, <1>13, <1>14, <1>15, <1>16
<1>. QED BY <1>3, <1>10, <1>17

\* A cardinality is a sum of ones.
LEMMA CardinalityIsSum ==
  ASSUME NEW f, NEW S, IsFiniteSet(S), \A x \in S : f[x] = 1
  PROVE  Cardinality(S) = SumFunctionOnSet(f, S)
<1> DEFINE B == {T \in SUBSET S : Cardinality(T) # SumFunctionOnSet(f, T)}
<1>1. SUFFICES ASSUME B # {} PROVE FALSE
  OBVIOUS
<1>2. PICK T \in B : \A t \in B : t \subseteq T => t = T
  <2>1. B \subseteq SUBSET S
    OBVIOUS
  <2> HIDE DEF B
  <2>. QED BY <1>1, <2>1, MinimalSet
<1>3. T # {} /\ T \subseteq S /\ IsFiniteSet(T)
  BY SumEmpty, FS_EmptySet, FS_Subset
<1> DEFINE p == Pick(T)
<1>4. p \in T /\ SumFunctionOnSet(f, T) = f[p] + SumFunctionOnSet(f, T \ {p})
  BY <1>3, SumPick
<1>5. SumFunctionOnSet(f, T \ {p}) = Cardinality(T \ {p})
  BY <1>2, <1>3, <1>4
<1>6. Cardinality(T \ {p}) = Cardinality(T) - 1 /\ Cardinality(T) \in Nat
  BY <1>3, <1>4, FS_RemoveElement, FS_CardinalityType
<1>. QED BY <1>3, <1>4, <1>5, <1>6

\* What a renaming of the elements does not change.
LEMMA SumRenamed ==
  ASSUME NEW f, NEW g, NEW S, IsFiniteSet(S), NEW m,
         \A x, y \in S : m[x] = m[y] => x = y,
         \A x \in S : g[m[x]] = f[x] /\ f[x] \in Int,
         NEW U, \A x \in S : m[x] \in U, \A y \in U : \E x \in S : y = m[x]
  PROVE  /\ IsFiniteSet(U) /\ Cardinality(U) = Cardinality(S)
         /\ SumFunctionOnSet(g, U) = SumFunctionOnSet(f, S)
<1> DEFINE Img(T) == {m[x] : x \in T}
           Holds(T) == /\ IsFiniteSet(Img(T)) /\ Cardinality(Img(T)) = Cardinality(T)
                       /\ SumFunctionOnSet(g, Img(T)) = SumFunctionOnSet(f, T)
           B == {T \in SUBSET S : ~Holds(T)}
<1>1. SUFFICES ASSUME B # {} PROVE FALSE
  <2>1. Img(S) = U
    OBVIOUS
  <2> HIDE DEF Img
  <2>2. SUFFICES Holds(S)
    BY <2>1
  <2>. QED OBVIOUS
<1>2. PICK T \in B : \A t \in B : t \subseteq T => t = T
  <2>1. B \subseteq SUBSET S
    OBVIOUS
  <2> HIDE DEF B
  <2>. QED BY <1>1, <2>1, MinimalSet
<1>3. T \subseteq S /\ ~Holds(T) /\ IsFiniteSet(T)
  BY FS_Subset
<1>4. T # {}
  <2>1. Img({}) = {}
    OBVIOUS
  <2> HIDE DEF Img
  <2>2. Holds({})
    BY <2>1, SumEmpty, FS_EmptySet
  <2> HIDE DEF Holds
  <2>. QED BY <1>3, <2>2
<1>5. PICK a \in T : TRUE
  BY <1>4
<1> DEFINE R == T \ {a}
<1>6. Holds(R) /\ R \subseteq S /\ a \notin R /\ R \cup {a} = T /\ IsFiniteSet(R)
  <2>1. R \subseteq S /\ a \notin R /\ R \cup {a} = T /\ R \subseteq T /\ R # T
    BY <1>3, <1>5
  <2>2. IsFiniteSet(R)
    BY <2>1, <1>3, FS_Subset
  <2> HIDE DEF Holds, R
  <2>. QED BY <1>2, <2>1, <2>2
<1>7. Img(T) = Img(R) \cup {m[a]} /\ m[a] \notin Img(R)
  BY <1>3, <1>5
<1>8. IsFiniteSet(Img(R)) /\ SumFunctionOnSet(g, Img(R)) = SumFunctionOnSet(f, R)
      /\ Cardinality(Img(R)) = Cardinality(R)
  BY <1>6
<1>9. (\A y \in Img(R) : g[y] \in Int) /\ g[m[a]] = f[a] /\ f[a] \in Int /\ \A x \in R : f[x] \in Int
  BY <1>3, <1>5, <1>6
<1> HIDE DEF Img, R
<1>10. SumFunctionOnSet(g, Img(T)) = f[a] + SumFunctionOnSet(g, Img(R))
  BY <1>7, <1>8, <1>9, SumAdd
<1>11. SumFunctionOnSet(f, T) = f[a] + SumFunctionOnSet(f, R)
  BY <1>6, <1>9, SumAdd
<1>12. IsFiniteSet(Img(T)) /\ Cardinality(Img(T)) = Cardinality(Img(R)) + 1
  <2> DEFINE X == Img(R)  y == m[a]
  <2>1. IsFiniteSet(X) /\ y \notin X /\ Img(T) = X \cup {y}
    BY <1>7, <1>8
  <2> HIDE DEF X, y
  <2>2. IsFiniteSet(X \cup {y}) /\ Cardinality(X \cup {y}) = Cardinality(X) + 1
    BY ONLY <2>1, FS_AddElement
  <2>. QED BY <2>1, <2>2 DEF X
<1>13. Cardinality(T) = Cardinality(R) + 1
  BY <1>6, FS_AddElement
<1>. QED BY <1>3, <1>8, <1>10, <1>11, <1>12, <1>13

-----------------------------------------------------------------------------
\* A function is summed over its domain.
LEMMA SumDomain == \A f : SumFunction(f) = SumFunctionOnSet(f, DOMAIN f)
  BY Zenon DEF SumFunction

\* Natural values have a natural sum.
LEMMA SumFunctionNat ==
  ASSUME NEW f, IsFiniteSet(DOMAIN f), \A x \in DOMAIN f : f[x] \in Nat
  PROVE  SumFunction(f) \in Nat
  BY SumDomain, SumNat

\* A function with one more element.
LEMMA SumFunctionGrows ==
  ASSUME NEW f, NEW g, IsFiniteSet(DOMAIN f), NEW a, a \notin DOMAIN f,
         DOMAIN g = DOMAIN f \cup {a}, g[a] \in Int,
         \A x \in DOMAIN f : g[x] = f[x] /\ f[x] \in Int
  PROVE  SumFunction(g) = SumFunction(f) + g[a]
<1> DEFINE S == DOMAIN f
<1>1. SumFunctionOnSet(f, S) \in Int
  BY SumType
<1>2. SumFunctionOnSet(g, S \cup {a}) = g[a] + SumFunctionOnSet(g, S)
  <2>1. IsFiniteSet(S) /\ a \notin S /\ g[a] \in Int /\ \A x \in S : g[x] \in Int
    OBVIOUS
  <2>. HIDE DEF S
  <2>. QED BY <2>1, SumAdd
<1>3. SumFunctionOnSet(g, S) = SumFunctionOnSet(f, S)
  BY SumSame
<1>4. SumFunction(f) = SumFunctionOnSet(f, S) /\ SumFunction(g) = SumFunctionOnSet(g, S \cup {a})
  BY SumDomain
<1>. QED BY <1>1, <1>2, <1>3, <1>4

\* A function that changes at one element.
LEMMA SumFunctionChange ==
  ASSUME NEW f, NEW g, IsFiniteSet(DOMAIN f), DOMAIN g = DOMAIN f, NEW a \in DOMAIN f,
         \A x \in DOMAIN f : f[x] \in Int /\ g[x] \in Int,
         \A x \in DOMAIN f \ {a} : g[x] = f[x]
  PROVE  SumFunction(g) = SumFunction(f) + g[a] - f[a]
<1> DEFINE S == DOMAIN f
<1>1. SumFunctionOnSet(g, S) = SumFunctionOnSet(f, S) + g[a] - f[a]
  BY SumChange
<1>2. SumFunction(f) = SumFunctionOnSet(f, S) /\ SumFunction(g) = SumFunctionOnSet(g, S)
  BY SumDomain
<1>. QED BY <1>1, <1>2

\* A function that is raised by another one on part of its domain.
LEMMA SumFunctionRaised ==
  ASSUME NEW f, NEW g, NEW h, IsFiniteSet(DOMAIN f), DOMAIN g = DOMAIN f, DOMAIN h \subseteq DOMAIN f,
         \A x \in DOMAIN f : f[x] \in Int /\ g[x] = f[x] + IF x \in DOMAIN h THEN h[x] ELSE 0,
         \A x \in DOMAIN h : h[x] \in Int
  PROVE  SumFunction(g) = SumFunction(f) + SumFunction(h)
<1> DEFINE S == DOMAIN f
           M == DOMAIN h
           Raised(T) == SumFunctionOnSet(g, T) = SumFunctionOnSet(f, T) + SumFunctionOnSet(h, T \cap M)
           B == {T \in SUBSET S : ~Raised(T)}
<1>1. /\ IsFiniteSet(S) /\ M \subseteq S
      /\ \A x \in S : f[x] \in Int /\ g[x] \in Int /\ g[x] = f[x] + IF x \in M THEN h[x] ELSE 0
      /\ \A x \in M : h[x] \in Int
  OBVIOUS
<1>2. SumFunction(f) = SumFunctionOnSet(f, S) /\ SumFunction(g) = SumFunctionOnSet(g, S)
      /\ SumFunction(h) = SumFunctionOnSet(h, M)
  BY SumDomain
<1> HIDE DEF S, M
<1>3. ASSUME B # {} PROVE FALSE
  <2>1. PICK T \in B : \A t \in B : t \subseteq T => t = T
    <3>1. B \subseteq SUBSET S
      OBVIOUS
    <3> HIDE DEF B
    <3>. QED BY <1>1, <1>3, <3>1, MinimalSet
  <2>2. T # {} /\ T \subseteq S /\ IsFiniteSet(T) /\ ~Raised(T)
    <3>1. Raised({})
      <4>1. {} \cap M = {}
        OBVIOUS
      <4>. QED BY <4>1, SumEmpty
    <3>. QED BY <1>1, <2>1, <3>1, FS_Subset
  <2> DEFINE p == Pick(T)
             R == T \ {p}
  <2>3. /\ p \in T
        /\ SumFunctionOnSet(f, T) = f[p] + SumFunctionOnSet(f, R)
        /\ SumFunctionOnSet(g, T) = g[p] + SumFunctionOnSet(g, R)
    BY <2>2, SumPick
  <2>4. Raised(R)
    <3>1. R \in SUBSET S /\ R \subseteq T /\ R # T
      BY <2>2, <2>3
    <3>. QED BY <2>1, <3>1
  <2>5. IsFiniteSet(R) /\ IsFiniteSet(T \cap M) /\ IsFiniteSet(R \cap M)
    <3>1. R \subseteq T /\ T \cap M \subseteq T /\ R \cap M \subseteq T
      OBVIOUS
    <3>. QED BY <2>2, <3>1, FS_Subset
  <2>6. SumFunctionOnSet(f, R) \in Int /\ SumFunctionOnSet(h, R \cap M) \in Int
    BY <1>1, <2>2, <2>5, SumType
  <2>7. SumFunctionOnSet(h, T \cap M) = SumFunctionOnSet(h, R \cap M) + IF p \in M THEN h[p] ELSE 0
    <3>1. CASE p \in M
      <4>1. p \in T \cap M /\ (T \cap M) \ {p} = R \cap M /\ \A x \in T \cap M : h[x] \in Int
        BY <1>1, <2>3, <3>1
      <4>2. SumFunctionOnSet(h, T \cap M) = h[p] + SumFunctionOnSet(h, (T \cap M) \ {p})
        BY <2>5, <4>1, SumRemove
      <4>3. h[p] \in Int
        BY <1>1, <3>1
      <4>4. SumFunctionOnSet(h, T \cap M) = h[p] + SumFunctionOnSet(h, R \cap M)
        BY <4>1, <4>2
      <4>5. (IF p \in M THEN h[p] ELSE 0) = h[p]
        BY <3>1
      <4>. HIDE DEF p, R
      <4>. QED BY <2>6, <4>3, <4>4, <4>5
    <3>2. CASE p \notin M
      <4>1. T \cap M = R \cap M
        BY <3>2
      <4>. HIDE DEF p, R
      <4>. QED BY <2>6, <3>2, <4>1
    <3>. QED BY <3>1, <3>2
  <2>8. f[p] \in Int /\ g[p] = f[p] + IF p \in M THEN h[p] ELSE 0
    BY <1>1, <2>2, <2>3
  <2>9. (IF p \in M THEN h[p] ELSE 0) \in Int
    BY <1>1
  <2> HIDE DEF p, R
  <2>. QED BY <2>2, <2>3, <2>4, <2>6, <2>7, <2>8, <2>9
<1>4. Raised(S)
  BY <1>3
<1>5. S \cap M = M
  BY <1>1
<1>. QED BY <1>2, <1>4, <1>5
=============================================================================
