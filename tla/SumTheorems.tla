----------------------------- MODULE SumTheorems -----------------------------
(***************************************************************************)
(* Sums over finite sets, for the proofs about the scaler, which adds up   *)
(* the counts of interceptors and of hosts.  SumFunctionOnSet of the       *)
(* community modules is a recursive function on sets.  What it computes is *)
(* proved by induction on finite sets, in the form that needs no predicate *)
(* as a parameter: a set of subsets of D that has T whenever it has every  *)
(* proper subset of T is the set of all subsets of D.                      *)
(***************************************************************************)
EXTENDS Functions, FiniteSetTheorems, TLAPS

\* Induction on the subsets of a finite set, from the library's fact that proper
\* inclusion is well-founded on them.
LEMMA SubsetInduction ==
  ASSUME NEW D, IsFiniteSet(D), NEW B, B \in SUBSET (SUBSET D),
         \A T \in SUBSET D : (\A U \in SUBSET T : U # T => U \in B) => T \in B
  PROVE  D \in B
<1>. DEFINE Missing == {T \in SUBSET D : T \notin B}
<1>. SUFFICES ASSUME Missing # {} PROVE FALSE
  OBVIOUS
<1>1. IsWellFoundedOn(StrictSubsetOrdering(D), FiniteSubsetsOf(D))
  BY FS_StrictSubsetOrderingWellFounded
<1>2. Missing \subseteq FiniteSubsetsOf(D)
  BY FS_Subset DEF FiniteSubsetsOf
<1>3. PICK T \in Missing : \A U \in Missing : ~(<<U, T>> \in StrictSubsetOrdering(D))
  <2>. HIDE DEF Missing
  <2>. QED BY <1>1, <1>2, WFMin
<1>4. \A U \in SUBSET T : U # T => U \in B
  BY <1>3 DEF StrictSubsetOrdering
<1>. QED BY <1>4

-----------------------------------------------------------------------------
(***************************************************************************)
(* The recursion that defines a sum has a solution, and only one.          *)
(***************************************************************************)

\* The element a sum takes first.
First(S) == CHOOSE x \in S : TRUE
Rest(S) == S \ {First(S)}

\* g gives the sum of f over every subset of D.
Sums(f, D, g) ==
  g = [S \in SUBSET D |-> IF S = {} THEN 0 ELSE f[First(S)] + g[Rest(S)]]

\* The definition of SumFunctionOnSet, unfolded.
LEMMA SumIsChosen ==
  ASSUME NEW f, NEW D
  PROVE  SumFunctionOnSet(f, D) = (CHOOSE g : Sums(f, D, g))[D]
BY DEF SumFunctionOnSet, FoldFunctionOnSet, MapThenFoldSet, Sums, First, Rest

\* A set that is not empty loses an element.
LEMMA RestIsSmaller ==
  ASSUME NEW S, S # {}
  PROVE  First(S) \in S /\ Rest(S) \in SUBSET S /\ Rest(S) # S
BY DEF First, Rest

\* What a solution of the recursion says of one set.
LEMMA SumsAt ==
  ASSUME NEW f, NEW D, NEW g, Sums(f, D, g), NEW S \in SUBSET D
  PROVE  g[S] = IF S = {} THEN 0 ELSE f[First(S)] + g[Rest(S)]
<1>1. g = [X \in SUBSET D |-> IF X = {} THEN 0 ELSE f[First(X)] + g[Rest(X)]]
  BY DEF Sums
<1>. QED BY <1>1

\* Two solutions, for functions that agree on a set, agree on it.
LEMMA SumsAgree ==
  ASSUME NEW f, NEW D, NEW g, Sums(f, D, g),
         NEW e, NEW E, NEW h, Sums(e, E, h),
         NEW S, IsFiniteSet(S), S \subseteq D, S \subseteq E,
         \A x \in S : f[x] = e[x]
  PROVE  g[S] = h[S]
<1>. DEFINE B == {T \in SUBSET S : g[T] = h[T]}
<1>1. ASSUME NEW T \in SUBSET S, \A U \in SUBSET T : U # T => U \in B
      PROVE  T \in B
  <2>1. CASE T = {}
    BY <2>1, SumsAt
  <2>2. CASE T # {}
    <3>1. First(T) \in T /\ Rest(T) \in B
      BY <2>2, <1>1, RestIsSmaller
    <3>2. g[T] = f[First(T)] + g[Rest(T)] /\ h[T] = e[First(T)] + h[Rest(T)]
      BY <2>2, SumsAt
    <3>. QED BY <3>1, <3>2
  <2>. QED BY <2>1, <2>2
<1>2. S \in B
  <2>1. B \in SUBSET (SUBSET S)
    OBVIOUS
  <2>. HIDE DEF B
  <2>. QED BY <1>1, <2>1, SubsetInduction
<1>. QED BY <1>2

\* The recursion over a finite set has a solution.
LEMMA SumsExist ==
  ASSUME NEW f, NEW D, IsFiniteSet(D)
  PROVE  \E g : Sums(f, D, g)
<1>. DEFINE B == {T \in SUBSET D : \E g : Sums(f, T, g)}
<1>1. ASSUME NEW T \in SUBSET D, \A U \in SUBSET T : U # T => U \in B
      PROVE  T \in B
  <2>. DEFINE Of(U) == CHOOSE g : Sums(f, U, g)
              G == [S \in SUBSET T |->
                      IF S = {} THEN 0 ELSE f[First(S)] + Of(Rest(S))[Rest(S)]]
  <2>1. ASSUME NEW U \in SUBSET T, U # T PROVE Sums(f, U, Of(U))
    BY <1>1, <2>1
  <2>2. ASSUME NEW U \in SUBSET T, U # T PROVE G[U] = Of(U)[U]
    <3>0. Sums(f, U, Of(U))
      BY <2>1, <2>2
    <3>1. CASE U = {}
      <4>. HIDE DEF Of
      <4>. QED BY <3>0, <3>1, SumsAt
    <3>2. CASE U # {}
      <4>. DEFINE V == Rest(U)
      <4>1. V \in SUBSET U /\ V # U /\ V \in SUBSET T /\ V # T
        BY <2>2, <3>2, RestIsSmaller
      <4>2. Sums(f, V, Of(V))
        BY <4>1, <2>1
      <4>3. IsFiniteSet(V)
        BY <4>1, FS_Subset
      <4>4. Of(U)[V] = Of(V)[V]
        <5>. HIDE DEF Of, V
        <5>. QED BY <3>0, <4>1, <4>2, <4>3, SumsAgree
      <4>5. Of(U)[U] = f[First(U)] + Of(U)[V]
        <5>. HIDE DEF Of
        <5>. QED BY <3>0, <3>2, SumsAt
      <4>6. G[U] = f[First(U)] + Of(V)[V]
        <5>. HIDE DEF Of
        <5>. QED BY <3>2
      <4>. QED BY <4>4, <4>5, <4>6
    <3>. QED BY <3>1, <3>2
  <2>3. Sums(f, T, G)
    <3>1. ASSUME NEW S \in SUBSET T, S # {}
          PROVE  Of(Rest(S))[Rest(S)] = G[Rest(S)]
      <4>1. Rest(S) \in SUBSET T /\ Rest(S) # T
        BY <3>1, RestIsSmaller
      <4>. HIDE DEF G, Of
      <4>. QED BY <4>1, <2>2
    <3>2. G = [S \in SUBSET T |-> IF S = {} THEN 0 ELSE f[First(S)] + G[Rest(S)]]
      <4>. HIDE DEF Of
      <4>. QED BY <3>1
    <3>. HIDE DEF G
    <3>. QED BY <3>2 DEF Sums
  <2>. QED BY <2>3
<1>2. D \in B
  <2>1. B \in SUBSET (SUBSET D)
    OBVIOUS
  <2>. HIDE DEF B
  <2>. QED BY <1>1, <2>1, SubsetInduction
<1>. QED BY <1>2

-----------------------------------------------------------------------------
(***************************************************************************)
(* What the proofs use.                                                    *)
(***************************************************************************)

\* A sum is one of its terms and the sum of the others.
LEMMA SumEquation ==
  ASSUME NEW f, NEW D, IsFiniteSet(D)
  PROVE  SumFunctionOnSet(f, D) =
           IF D = {} THEN 0 ELSE f[First(D)] + SumFunctionOnSet(f, Rest(D))
<1>. DEFINE Of(S) == CHOOSE g : Sums(f, S, g)
<1>1. Sums(f, D, Of(D))
  BY SumsExist
<1>2. SumFunctionOnSet(f, D) = Of(D)[D]
  BY SumIsChosen
<1>3. CASE D = {}
  <2>. HIDE DEF Of
  <2>. QED BY <1>1, <1>2, <1>3, SumsAt
<1>4. CASE D # {}
  <2>. DEFINE E == Rest(D)
  <2>1. E \in SUBSET D /\ IsFiniteSet(E)
    BY <1>4, RestIsSmaller, FS_Subset
  <2>2. Sums(f, E, Of(E))
    BY <2>1, SumsExist
  <2>3. SumFunctionOnSet(f, E) = Of(E)[E]
    BY SumIsChosen
  <2>4. Of(D)[E] = Of(E)[E]
    <3>. HIDE DEF Of, E
    <3>. QED BY <1>1, <2>1, <2>2, SumsAgree
  <2>5. Of(D)[D] = f[First(D)] + Of(D)[E]
    <3>. HIDE DEF Of
    <3>. QED BY <1>1, <1>4, SumsAt
  <2>. HIDE DEF Of
  <2>. QED BY <1>2, <1>4, <2>3, <2>4, <2>5
<1>. QED BY <1>3, <1>4

\* Nothing adds up to zero.
LEMMA SumEmpty == ASSUME NEW f PROVE SumFunctionOnSet(f, {}) = 0
BY SumEquation, FS_EmptySet

\* The sum of integers is an integer.
LEMMA SumType ==
  ASSUME NEW f, NEW D, IsFiniteSet(D), \A x \in D : f[x] \in Int
  PROVE  SumFunctionOnSet(f, D) \in Int
<1>. DEFINE B == {T \in SUBSET D : SumFunctionOnSet(f, T) \in Int}
<1>1. ASSUME NEW T \in SUBSET D, \A U \in SUBSET T : U # T => U \in B
      PROVE  T \in B
  <2>1. IsFiniteSet(T)
    BY FS_Subset
  <2>2. CASE T = {}
    BY <2>2, SumEmpty
  <2>3. CASE T # {}
    <3>1. First(T) \in D /\ Rest(T) \in B
      BY <1>1, <2>3, RestIsSmaller
    <3>. QED BY <2>1, <2>3, <3>1, SumEquation
  <2>. QED BY <2>2, <2>3
<1>2. B \in SUBSET (SUBSET D)
  OBVIOUS
<1>3. D \in B
  <2>. HIDE DEF B
  <2>. QED BY <1>1, <1>2, SubsetInduction
<1>. QED BY <1>3

\* Functions that agree on a set have the same sum over it.
LEMMA SumSame ==
  ASSUME NEW f, NEW g, NEW D, IsFiniteSet(D), \A x \in D : f[x] = g[x]
  PROVE  SumFunctionOnSet(f, D) = SumFunctionOnSet(g, D)
<1>. DEFINE F == CHOOSE h : Sums(f, D, h)
            G == CHOOSE h : Sums(g, D, h)
<1>1. Sums(f, D, F) /\ Sums(g, D, G)
  BY SumsExist
<1>2. SumFunctionOnSet(f, D) = F[D] /\ SumFunctionOnSet(g, D) = G[D]
  BY SumIsChosen
<1>3. F[D] = G[D]
  <2>. HIDE DEF F, G
  <2>. QED BY <1>1, SumsAgree
<1>. QED BY <1>2, <1>3

\* The order in which a sum takes its terms does not matter: any one of them can
\* be the last.
LEMMA SumRemove ==
  ASSUME NEW f, NEW D, IsFiniteSet(D), NEW x \in D, \A y \in D : f[y] \in Int
  PROVE  SumFunctionOnSet(f, D) = SumFunctionOnSet(f, D \ {x}) + f[x]
<1>. DEFINE S(T) == SumFunctionOnSet(f, T)
            B == {T \in SUBSET D : \A y \in T : S(T) = S(T \ {y}) + f[y]}
<1>0. ASSUME NEW T \in SUBSET D
      PROVE  /\ IsFiniteSet(T)
             /\ S(T) \in Int
             /\ T # {} => S(T) = f[First(T)] + S(Rest(T))
  <2>1. IsFiniteSet(T)
    BY FS_Subset
  <2>. QED BY <2>1, SumType, SumEquation
<1>. HIDE DEF S
<1>1. ASSUME NEW T \in SUBSET D, \A U \in SUBSET T : U # T => U \in B
      PROVE  T \in B
  <2>. SUFFICES ASSUME NEW y \in T PROVE S(T) = S(T \ {y}) + f[y]
    OBVIOUS
  <2>. DEFINE z == First(T)
  <2>1. z \in T /\ S(T) = f[z] + S(T \ {z}) /\ f[z] \in Int /\ f[y] \in Int
    BY <1>0, RestIsSmaller DEF Rest
  <2>. HIDE DEF z
  <2>2. CASE y = z
    BY <1>0, <2>1, <2>2
  <2>3. CASE y # z
    <3>1. T \ {z} \in B /\ T \ {y} \in B
      BY <1>1, <2>1
    <3>2. S(T \ {z}) = S((T \ {z}) \ {y}) + f[y]
      BY <2>3, <3>1
    <3>3. (T \ {z}) \ {y} = (T \ {y}) \ {z}
      OBVIOUS
    <3>4. S(T \ {y}) = S((T \ {y}) \ {z}) + f[z]
      BY <2>1, <2>3, <3>1
    <3>5. S(T \ {y}) = S((T \ {z}) \ {y}) + f[z]
      BY <3>3, <3>4
    <3>6. S((T \ {z}) \ {y}) \in Int
      BY <1>0
    <3>. QED BY <2>1, <3>2, <3>5, <3>6
  <2>. QED BY <2>2, <2>3
<1>2. B \in SUBSET (SUBSET D)
  OBVIOUS
<1>3. D \in B
  <2>. HIDE DEF B
  <2>. QED BY <1>1, <1>2, SubsetInduction
<1>. QED BY <1>3 DEF S

\* One term more.
LEMMA SumAdd ==
  ASSUME NEW f, NEW D, IsFiniteSet(D), NEW x, x \notin D, f[x] \in Int,
         \A y \in D : f[y] \in Int
  PROVE  SumFunctionOnSet(f, D \cup {x}) = SumFunctionOnSet(f, D) + f[x]
<1>1. IsFiniteSet(D \cup {x}) /\ (D \cup {x}) \ {x} = D
  BY FS_AddElement
<1>. QED BY <1>1, SumRemove

\* The sum of sums of two terms.
LEMMA SumPlus ==
  ASSUME NEW f, NEW g, NEW h, NEW D, IsFiniteSet(D),
         \A x \in D : f[x] \in Int /\ g[x] \in Int /\ h[x] = f[x] + g[x]
  PROVE  SumFunctionOnSet(h, D) = SumFunctionOnSet(f, D) + SumFunctionOnSet(g, D)
<1>. DEFINE B == {T \in SUBSET D : SumFunctionOnSet(h, T) =
                                 SumFunctionOnSet(f, T) + SumFunctionOnSet(g, T)}
<1>1. ASSUME NEW T \in SUBSET D, \A U \in SUBSET T : U # T => U \in B
      PROVE  T \in B
  <2>1. IsFiniteSet(T)
    BY FS_Subset
  <2>2. CASE T = {}
    BY <2>2, SumEmpty
  <2>3. CASE T # {}
    <3>1. /\ First(T) \in D /\ First(T) \in T
          /\ Rest(T) \in SUBSET D /\ Rest(T) \in B /\ IsFiniteSet(Rest(T))
      BY <1>1, <2>1, <2>3, RestIsSmaller, FS_Subset
    <3>2. /\ SumFunctionOnSet(f, T) = f[First(T)] + SumFunctionOnSet(f, Rest(T))
          /\ SumFunctionOnSet(g, T) = g[First(T)] + SumFunctionOnSet(g, Rest(T))
          /\ SumFunctionOnSet(h, T) = h[First(T)] + SumFunctionOnSet(h, Rest(T))
      BY <2>1, <2>3, SumEquation
    <3>3. SumFunctionOnSet(f, Rest(T)) \in Int /\ SumFunctionOnSet(g, Rest(T)) \in Int
      BY <3>1, SumType
    <3>4. SumFunctionOnSet(h, Rest(T)) =
            SumFunctionOnSet(f, Rest(T)) + SumFunctionOnSet(g, Rest(T))
      BY <3>1
    <3>. QED BY <3>1, <3>2, <3>3, <3>4
  <2>. QED BY <2>2, <2>3
<1>2. B \in SUBSET (SUBSET D)
  OBVIOUS
<1>3. D \in B
  <2>. HIDE DEF B
  <2>. QED BY <1>1, <1>2, SubsetInduction
<1>. QED BY <1>3

\* Larger terms have a larger sum.
LEMMA SumMonotonic ==
  ASSUME NEW f, NEW g, NEW D, IsFiniteSet(D),
         \A x \in D : f[x] \in Int /\ g[x] \in Int /\ f[x] <= g[x]
  PROVE  SumFunctionOnSet(f, D) <= SumFunctionOnSet(g, D)
<1>. DEFINE B == {T \in SUBSET D : SumFunctionOnSet(f, T) <= SumFunctionOnSet(g, T)}
<1>1. ASSUME NEW T \in SUBSET D, \A U \in SUBSET T : U # T => U \in B
      PROVE  T \in B
  <2>1. IsFiniteSet(T)
    BY FS_Subset
  <2>2. CASE T = {}
    BY <2>2, SumEmpty
  <2>3. CASE T # {}
    <3>1. /\ First(T) \in D /\ First(T) \in T
          /\ Rest(T) \in SUBSET D /\ Rest(T) \in B /\ IsFiniteSet(Rest(T))
      BY <1>1, <2>1, <2>3, RestIsSmaller, FS_Subset
    <3>2. /\ SumFunctionOnSet(f, T) = f[First(T)] + SumFunctionOnSet(f, Rest(T))
          /\ SumFunctionOnSet(g, T) = g[First(T)] + SumFunctionOnSet(g, Rest(T))
      BY <2>1, <2>3, SumEquation
    <3>3. SumFunctionOnSet(f, Rest(T)) \in Int /\ SumFunctionOnSet(g, Rest(T)) \in Int
      BY <3>1, SumType
    <3>4. SumFunctionOnSet(f, Rest(T)) <= SumFunctionOnSet(g, Rest(T))
      BY <3>1
    <3>. QED BY <3>1, <3>2, <3>3, <3>4
  <2>. QED BY <2>2, <2>3
<1>2. B \in SUBSET (SUBSET D)
  OBVIOUS
<1>3. D \in B
  <2>. HIDE DEF B
  <2>. QED BY <1>1, <1>2, SubsetInduction
<1>. QED BY <1>3

\* A sum of n terms between lo and hi is between n * lo and n * hi.
LEMMA SumBounds ==
  ASSUME NEW f, NEW D, IsFiniteSet(D), NEW lo \in Int, NEW hi \in Int,
         \A x \in D : f[x] \in Int /\ lo <= f[x] /\ f[x] <= hi
  PROVE  /\ SumFunctionOnSet(f, D) >= Cardinality(D) * lo
         /\ SumFunctionOnSet(f, D) <= Cardinality(D) * hi
<1>. DEFINE B == {T \in SUBSET D : /\ SumFunctionOnSet(f, T) >= Cardinality(T) * lo
                              /\ SumFunctionOnSet(f, T) <= Cardinality(T) * hi}
<1>1. ASSUME NEW T \in SUBSET D, \A U \in SUBSET T : U # T => U \in B
      PROVE  T \in B
  <2>1. IsFiniteSet(T)
    BY FS_Subset
  <2>2. CASE T = {}
    BY <2>2, SumEmpty, FS_EmptySet
  <2>3. CASE T # {}
    <3>1. /\ First(T) \in D /\ First(T) \in T
          /\ Rest(T) \in SUBSET D /\ Rest(T) \in B /\ IsFiniteSet(Rest(T))
      BY <1>1, <2>1, <2>3, RestIsSmaller, FS_Subset
    <3>. DEFINE n == Cardinality(Rest(T))
                s == SumFunctionOnSet(f, Rest(T))
    <3>2. SumFunctionOnSet(f, T) = f[First(T)] + s
      BY <2>1, <2>3, SumEquation
    <3>3. Cardinality(T) = n + 1 /\ n \in Nat
      BY <2>1, <3>1, FS_RemoveElement, FS_CardinalityType DEF Rest
    <3>4. s \in Int /\ s >= n * lo /\ s <= n * hi
      BY <3>1, SumType
    <3>. HIDE DEF n, s
    <3>5. (n + 1) * lo = n * lo + lo /\ (n + 1) * hi = n * hi + hi
      BY <3>3
    <3>6. n * lo \in Int /\ n * hi \in Int
      BY <3>3
    <3>. QED BY <3>1, <3>2, <3>3, <3>4, <3>5, <3>6
  <2>. QED BY <2>2, <2>3
<1>2. B \in SUBSET (SUBSET D)
  OBVIOUS
<1>3. D \in B
  <2>. HIDE DEF B
  <2>. QED BY <1>1, <1>2, SubsetInduction
<1>. QED BY <1>3

\* Zeros add up to zero.
LEMMA SumOfZeros ==
  ASSUME NEW f, NEW D, IsFiniteSet(D), \A x \in D : f[x] = 0
  PROVE  SumFunctionOnSet(f, D) = 0
<1>. DEFINE B == {T \in SUBSET D : SumFunctionOnSet(f, T) = 0}
<1>1. ASSUME NEW T \in SUBSET D, \A U \in SUBSET T : U # T => U \in B
      PROVE  T \in B
  <2>1. IsFiniteSet(T)
    BY FS_Subset
  <2>2. CASE T = {}
    BY <2>2, SumEmpty
  <2>3. CASE T # {}
    <3>1. /\ First(T) \in D /\ First(T) \in T
          /\ Rest(T) \in SUBSET D /\ Rest(T) \in B /\ IsFiniteSet(Rest(T))
      BY <1>1, <2>1, <2>3, RestIsSmaller, FS_Subset
    <3>2. SumFunctionOnSet(f, T) = f[First(T)] + SumFunctionOnSet(f, Rest(T))
      BY <2>1, <2>3, SumEquation
    <3>. QED BY <3>1, <3>2
  <2>. QED BY <2>2, <2>3
<1>2. B \in SUBSET (SUBSET D)
  OBVIOUS
<1>3. D \in B
  <2>. HIDE DEF B
  <2>. QED BY <1>1, <1>2, SubsetInduction
<1>. QED BY <1>3

\* Terms that are zero can be added or left out.
LEMMA SumExtend ==
  ASSUME NEW f, NEW g, NEW E, NEW D, IsFiniteSet(D), E \subseteq D,
         \A x \in D : f[x] \in Int /\ f[x] = IF x \in E THEN g[x] ELSE 0
  PROVE  SumFunctionOnSet(f, D) = SumFunctionOnSet(g, E)
<1>. DEFINE B == {T \in SUBSET D : SumFunctionOnSet(f, T) = SumFunctionOnSet(g, T \cap E)}
<1>1. ASSUME NEW T \in SUBSET D, \A U \in SUBSET T : U # T => U \in B
      PROVE  T \in B
  <2>1. IsFiniteSet(T)
    BY FS_Subset
  <2>2. CASE T = {}
    BY <2>2, SumEmpty
  <2>3. CASE T # {}
    <3>1. /\ First(T) \in D /\ First(T) \in T
          /\ Rest(T) \in SUBSET D /\ Rest(T) \in B /\ IsFiniteSet(Rest(T))
      BY <1>1, <2>1, <2>3, RestIsSmaller, FS_Subset
    <3>. DEFINE x == First(T)
                U == Rest(T)
    <3>2. SumFunctionOnSet(f, T) = f[x] + SumFunctionOnSet(f, U)
      BY <2>1, <2>3, SumEquation
    <3>3. SumFunctionOnSet(f, U) = SumFunctionOnSet(g, U \cap E) /\ SumFunctionOnSet(f, U) \in Int
      BY <3>1, SumType
    <3>4. CASE x \in E
      <4>1. T \cap E = (U \cap E) \cup {x} /\ x \notin U \cap E
        BY <3>1, <3>4 DEF Rest
      <4>2. IsFiniteSet(U \cap E) /\ f[x] = g[x] /\ g[x] \in Int
        BY <3>1, <3>4, FS_Intersection
      <4>3. \A y \in U \cap E : g[y] \in Int
        BY <3>1
      <4>4. SumFunctionOnSet(g, T \cap E) = SumFunctionOnSet(g, U \cap E) + g[x]
        BY <4>1, <4>2, <4>3, SumAdd
      <4>. HIDE DEF x, U
      <4>. QED BY <3>2, <3>3, <4>2, <4>4
    <3>5. CASE x \notin E
      <4>1. T \cap E = U \cap E
        BY <3>1, <3>5 DEF Rest
      <4>2. SumFunctionOnSet(g, T \cap E) = SumFunctionOnSet(g, U \cap E)
        BY <4>1
      <4>3. f[x] = 0
        BY <3>1, <3>5
      <4>. HIDE DEF x, U
      <4>. QED BY <3>2, <3>3, <4>2, <4>3
    <3>. QED BY <3>4, <3>5
  <2>. QED BY <2>2, <2>3
<1>2. B \in SUBSET (SUBSET D)
  OBVIOUS
<1>3. D \in B
  <2>. HIDE DEF B
  <2>. QED BY <1>1, <1>2, SubsetInduction
<1>. QED BY <1>3
=============================================================================
