------------------------------ MODULE SumsProofs ------------------------------
(***************************************************************************)
(* What SumOf computes, for every function and every finite set: the fold  *)
(* is a number, it does not depend on the order in which it takes the      *)
(* elements, and one element more or less adds or takes its own value.     *)
(*                                                                         *)
(* The proofs are by induction over the subsets of a finite set, in the    *)
(* form that needs no operator: among the subsets for which a fact fails   *)
(* there would be a smallest one (SmallestSubset).                         *)
(***************************************************************************)
EXTENDS Sums, FiniteSetTheorems, TLAPS

\* Among the subsets of a finite set that have a property, some have no smaller
\* one with it.
LEMMA SmallestSubset ==
    ASSUME NEW S, IsFiniteSet(S), NEW F \in SUBSET SUBSET S, F # {}
    PROVE  \E T \in F : \A U \in F : U \subseteq T => U = T
<1>1. IsWellFoundedOn(StrictSubsetOrdering(S), FiniteSubsetsOf(S))
  BY FS_StrictSubsetOrderingWellFounded
<1>2. F \subseteq FiniteSubsetsOf(S)
  BY FS_FiniteSubsetsOfFinite
<1>3. PICK T \in F : \A U \in F : ~(<<U, T>> \in StrictSubsetOrdering(S))
  BY <1>1, <1>2, WFMin
<1>4. \A U \in F : U \subseteq T => U = T
  <2>1. ASSUME NEW U \in F, U \subseteq T, U # T
        PROVE  <<U, T>> \in StrictSubsetOrdering(S)
    BY <2>1 DEF StrictSubsetOrdering
  <2>2. QED
    BY <1>3, <2>1
<1>5. QED
  BY <1>4

\* The element that the fold takes next.
First(T) == CHOOSE x \in T : TRUE

\* It is one of the set.
LEMMA FirstBelongs ==
    ASSUME NEW T, T # {}
    PROVE  First(T) \in T
BY DEF First

\* g sums f over the subsets of S by recursion: what the fold is defined by.
Sums(g, f, S) ==
    g = [T \in SUBSET S |-> IF T = {} THEN 0 ELSE f[First(T)] + g[T \ {First(T)}]]

\* The fold over S is what some function of this kind says of S.
LEMMA SumIsChosen ==
    ASSUME NEW f, NEW S
    PROVE  SumOf(f, S) = (CHOOSE g : Sums(g, f, S))[S]
BY DEF SumOf, MapThenFoldSet, Sums, First

\* One step of the recursion.
LEMMA SumsUnfold ==
    ASSUME NEW g, NEW f, NEW S, Sums(g, f, S), NEW T \in SUBSET S
    PROVE  g[T] = IF T = {} THEN 0 ELSE f[First(T)] + g[T \ {First(T)}]
BY DEF Sums

\* Two such functions agree where both are defined.
LEMMA SumsAgree ==
    ASSUME NEW S, IsFiniteSet(S), NEW R \in SUBSET S, NEW f,
           NEW g, Sums(g, f, S), NEW h, Sums(h, f, R)
    PROVE  \A T \in SUBSET R : g[T] = h[T]
<1> DEFINE F == {T \in SUBSET R : g[T] # h[T]}
<1>1. SUFFICES ASSUME F # {} PROVE FALSE
  OBVIOUS
<1>2. PICK T \in F : \A U \in F : U \subseteq T => U = T
  <2>1. IsFiniteSet(R) /\ F \in SUBSET SUBSET R
    BY FS_Subset
  <2> HIDE DEF F
  <2>2. QED
    BY <1>1, <2>1, SmallestSubset
<1>3. T \in SUBSET R /\ T \in SUBSET S /\ g[T] # h[T]
  OBVIOUS
<1> HIDE DEF F
<1>4. T # {}
  <2>1. T = {} => g[T] = 0
    BY <1>3, SumsUnfold
  <2>2. T = {} => h[T] = 0
    BY <1>3, SumsUnfold
  <2>3. QED
    BY <1>3, <2>1, <2>2
<1>5. First(T) \in T /\ T \ {First(T)} # T
  BY <1>4, FirstBelongs
<1>6. g[T \ {First(T)}] = h[T \ {First(T)}]
  BY <1>2, <1>3, <1>5 DEF F
<1>7. g[T] = f[First(T)] + g[T \ {First(T)}]
  BY <1>3, <1>4, SumsUnfold
<1>8. h[T] = f[First(T)] + h[T \ {First(T)}]
  BY <1>3, <1>4 DEF Sums
<1>9. QED
  BY <1>3, <1>5, <1>6, <1>7, <1>8

\* There is such a function on every finite set: a smallest set without one would
\* get one from those of its parts.
LEMMA SumsExist ==
    ASSUME NEW S, IsFiniteSet(S), NEW f
    PROVE  \E g : Sums(g, f, S)
<1> DEFINE F == {T \in SUBSET S : ~\E g : Sums(g, f, T)}
<1>1. SUFFICES ASSUME F # {} PROVE FALSE
  OBVIOUS
<1>2. PICK T \in F : \A U \in F : U \subseteq T => U = T
  <2>1. F \in SUBSET SUBSET S
    OBVIOUS
  <2> HIDE DEF F
  <2>2. QED
    BY <1>1, <2>1, SmallestSubset
<1>3. T \in SUBSET S /\ IsFiniteSet(T) /\ ~\E g : Sums(g, f, T)
  BY FS_Subset
<1> DEFINE G(U) == CHOOSE g : Sums(g, f, U)
           part(U) == U \ {First(U)}
           h == [U \in SUBSET T |-> IF U = {} THEN 0 ELSE f[First(U)] + G(part(U))[part(U)]]
<1>4. ASSUME NEW U \in SUBSET T, U # T
      PROVE  Sums(G(U), f, U)
  BY <1>2, <1>3, <1>4
<1>5. ASSUME NEW U \in SUBSET T, U # T
      PROVE  h[U] = G(U)[U]
  <2>1. CASE U = {}
    <3>1. G(U)[U] = 0
      <4>1. Sums(G(U), f, U)
        BY <1>4, <1>5
      <4> HIDE DEF G
      <4>2. QED BY <2>1, <4>1, SumsUnfold
    <3>2. h[U] = 0
      BY <2>1
    <3>3. QED BY <3>1, <3>2
  <2>2. CASE U # {}
    <3>1. First(U) \in U /\ part(U) \in SUBSET U /\ part(U) # T /\ part(U) \in SUBSET T
      BY <1>5, <2>2, FirstBelongs
    <3>2. IsFiniteSet(U)
      BY <1>3, FS_Subset
    <3>3. Sums(G(U), f, U) /\ Sums(G(part(U)), f, part(U))
      BY <1>4, <1>5, <3>1
    <3>4. G(U)[part(U)] = G(part(U))[part(U)]
      <4> HIDE DEF G, part
      <4>1. QED BY <3>1, <3>2, <3>3, SumsAgree
    <3>5. G(U)[U] = f[First(U)] + G(U)[part(U)]
      <4> HIDE DEF G
      <4>1. QED BY <2>2, <3>3, SumsUnfold
    <3>6. h[U] = f[First(U)] + G(part(U))[part(U)]
      BY <2>2
    <3>7. QED BY <3>4, <3>5, <3>6
  <2>3. QED BY <2>1, <2>2
<1>6. ASSUME NEW U \in SUBSET T
      PROVE  h[U] = IF U = {} THEN 0 ELSE f[First(U)] + h[part(U)]
  <2>1. CASE U # {}
    <3>1. part(U) \in SUBSET T /\ part(U) # T
      BY <2>1, FirstBelongs
    <3>2. h[part(U)] = G(part(U))[part(U)]
      <4> HIDE DEF h, G, part
      <4>1. QED BY <1>5, <3>1
    <3>3. h[U] = f[First(U)] + G(part(U))[part(U)]
      BY <2>1
    <3>4. QED BY <2>1, <3>2, <3>3
  <2>2. CASE U = {}
    BY <2>2
  <2>3. QED BY <2>1, <2>2
<1>7. Sums(h, f, T)
  <2>1. h = [U \in SUBSET T |-> h[U]]
    OBVIOUS
  <2> HIDE DEF h
  <2>2. QED
    BY <1>6, <2>1 DEF Sums
<1>8. QED
  BY <1>3, <1>7

------------------------------------------------------------------------------
(* What the fold computes *)

\* The fold over a finite set is the value of a function that sums.
LEMMA SumOfSums ==
    ASSUME NEW S, IsFiniteSet(S), NEW f
    PROVE  \E g : Sums(g, f, S) /\ SumOf(f, S) = g[S]
<1>1. Sums(CHOOSE g : Sums(g, f, S), f, S)
  BY SumsExist
<1>2. QED
  BY <1>1, SumIsChosen

\* Nothing sums to nothing.
LEMMA SumEmpty ==
    ASSUME NEW f
    PROVE  SumOf(f, {}) = 0
<1>1. PICK g : Sums(g, f, {}) /\ SumOf(f, {}) = g[{}]
  BY SumOfSums, FS_EmptySet
<1>2. QED
  BY <1>1, SumsUnfold

\* Functions that agree on a set have the same sum over it.
LEMMA SumCongruent ==
    ASSUME NEW S, IsFiniteSet(S), NEW f, NEW e, \A x \in S : f[x] = e[x]
    PROVE  SumOf(f, S) = SumOf(e, S)
<1>1. PICK g : Sums(g, f, S) /\ SumOf(f, S) = g[S]
  BY SumOfSums
<1>2. PICK h : Sums(h, e, S) /\ SumOf(e, S) = h[S]
  BY SumOfSums
<1>3. ASSUME NEW T \in SUBSET S
      PROVE  h[T] = IF T = {} THEN 0 ELSE f[First(T)] + h[T \ {First(T)}]
  <2>1. h[T] = IF T = {} THEN 0 ELSE e[First(T)] + h[T \ {First(T)}]
    BY <1>2 DEF Sums
  <2>2. T # {} => f[First(T)] = e[First(T)]
    BY FirstBelongs
  <2>3. QED
    BY <2>1, <2>2
<1>4. Sums(h, f, S)
  <2>1. h = [T \in SUBSET S |-> h[T]]
    BY <1>2 DEF Sums
  <2>2. QED
    BY <1>3, <2>1 DEF Sums
<1>5. S \in SUBSET S
  OBVIOUS
<1>6. g[S] = h[S]
  BY <1>1, <1>4, <1>5, SumsAgree
<1>7. QED
  BY <1>1, <1>2, <1>6

\* The fold takes the first element and goes on with the rest.
LEMMA SumFirst ==
    ASSUME NEW S, IsFiniteSet(S), NEW f, S # {}
    PROVE  SumOf(f, S) = f[First(S)] + SumOf(f, S \ {First(S)})
<1> DEFINE rest == S \ {First(S)}
<1>1. PICK g : Sums(g, f, S) /\ SumOf(f, S) = g[S]
  BY SumOfSums
<1>2. IsFiniteSet(rest)
  BY FS_Subset
<1>3. PICK h : Sums(h, f, rest) /\ SumOf(f, rest) = h[rest]
  BY <1>2, SumOfSums
<1>4. g[rest] = h[rest]
  BY <1>1, <1>3, SumsAgree
<1>5. g[S] = IF S = {} THEN 0 ELSE f[First(S)] + g[rest]
  BY <1>1, SumsUnfold, Zenon
<1>6. QED
  BY <1>1, <1>3, <1>4, <1>5

\* Integers sum to an integer.
LEMMA SumIsInteger ==
    ASSUME NEW S, IsFiniteSet(S), NEW f, \A x \in S : f[x] \in Int
    PROVE  SumOf(f, S) \in Int
<1> DEFINE F == {T \in SUBSET S : SumOf(f, T) \notin Int}
<1>1. SUFFICES ASSUME F # {} PROVE FALSE
  OBVIOUS
<1>2. PICK T \in F : \A U \in F : U \subseteq T => U = T
  <2>1. F \in SUBSET SUBSET S
    OBVIOUS
  <2> HIDE DEF F
  <2>2. QED
    BY <1>1, <2>1, SmallestSubset
<1>3. T \in SUBSET S /\ IsFiniteSet(T) /\ SumOf(f, T) \notin Int
  BY FS_Subset
<1> HIDE DEF F
<1>4. T # {}
  BY <1>3, SumEmpty
<1>5. First(T) \in T
  BY <1>4, FirstBelongs
<1>6. SumOf(f, T \ {First(T)}) \in Int
  BY <1>2, <1>3, <1>5 DEF F
<1>7. SumOf(f, T) = f[First(T)] + SumOf(f, T \ {First(T)})
  BY <1>3, <1>4, SumFirst
<1>8. QED
  BY <1>3, <1>5, <1>6, <1>7

\* The order in which the fold takes the elements does not matter: any of them
\* may be set aside.
LEMMA SumWithout ==
    ASSUME NEW S, IsFiniteSet(S), NEW f, \A x \in S : f[x] \in Int, NEW y \in S
    PROVE  SumOf(f, S) = f[y] + SumOf(f, S \ {y})
<1> DEFINE F == {T \in SUBSET S : \E x \in T : SumOf(f, T) # f[x] + SumOf(f, T \ {x})}
<1>1. SUFFICES ASSUME F # {} PROVE FALSE
  <2>1. S \notin F
    BY <1>1
  <2>2. QED
    BY <2>1
<1>2. PICK T \in F : \A U \in F : U \subseteq T => U = T
  <2>1. F \in SUBSET SUBSET S
    OBVIOUS
  <2> HIDE DEF F
  <2>2. QED
    BY <1>1, <2>1, SmallestSubset
<1>3. PICK x \in T : SumOf(f, T) # f[x] + SumOf(f, T \ {x})
  OBVIOUS
<1>4. T \in SUBSET S /\ IsFiniteSet(T)
  BY FS_Subset
<1> DEFINE z == First(T)
           both == T \ {x, z}
<1>5. z \in T /\ SumOf(f, T) = f[z] + SumOf(f, T \ {z})
  BY <1>3, <1>4, FirstBelongs, SumFirst
<1> HIDE DEF z
<1>6. x # z
  BY <1>3, <1>5
<1>7. ASSUME NEW U \in SUBSET T, U # T, NEW u \in U
      PROVE  SumOf(f, U) = f[u] + SumOf(f, U \ {u})
  BY <1>2, <1>4, <1>7
<1> HIDE DEF F
<1>8. SumOf(f, T \ {z}) = f[x] + SumOf(f, both)
  <2>1. (T \ {z}) \ {x} = both /\ T \ {z} # T /\ x \in T \ {z}
    BY <1>3, <1>5, <1>6
  <2> HIDE DEF both
  <2>2. QED
    BY <1>7, <2>1
<1>9. SumOf(f, T \ {x}) = f[z] + SumOf(f, both)
  <2>1. (T \ {x}) \ {z} = both /\ T \ {x} # T /\ z \in T \ {x}
    BY <1>3, <1>5, <1>6
  <2> HIDE DEF both
  <2>2. QED
    BY <1>7, <2>1
<1>10. f[x] \in Int /\ f[z] \in Int /\ SumOf(f, both) \in Int
  <2>1. IsFiniteSet(both)
    BY <1>4, FS_Subset
  <2>2. \A w \in both : f[w] \in Int
    BY <1>4
  <2> HIDE DEF both
  <2>3. QED
    BY <1>3, <1>4, <1>5, <2>1, <2>2, SumIsInteger
<1>11. QED
  BY <1>3, <1>5, <1>8, <1>9, <1>10

\* One more element adds its own value.
LEMMA SumAdd ==
    ASSUME NEW S, IsFiniteSet(S), NEW x, x \notin S, NEW f,
           \A y \in S \cup {x} : f[y] \in Int
    PROVE  SumOf(f, S \cup {x}) = f[x] + SumOf(f, S)
<1> DEFINE T == S \cup {x}
<1>1. IsFiniteSet(T)
  BY FS_AddElement
<1>2. T \ {x} = S /\ x \in T
  OBVIOUS
<1> HIDE DEF T
<1>3. SumOf(f, T) = f[x] + SumOf(f, T \ {x})
  BY <1>1, <1>2, SumWithout DEF T
<1>4. QED
  BY <1>2, <1>3 DEF T

\* When one value changes the sum changes by the difference.
LEMMA SumChanged ==
    ASSUME NEW S, IsFiniteSet(S), NEW f, NEW e, \A y \in S : f[y] \in Int /\ e[y] \in Int,
           NEW x \in S, \A y \in S \ {x} : e[y] = f[y]
    PROVE  SumOf(e, S) = SumOf(f, S) - f[x] + e[x]
<1> DEFINE rest == S \ {x}
<1>1. IsFiniteSet(rest)
  BY FS_Subset
<1>2. /\ SumOf(f, S) = f[x] + SumOf(f, rest)
      /\ SumOf(e, S) = e[x] + SumOf(e, rest)
  BY SumWithout
<1>3. SumOf(f, rest) = SumOf(e, rest)
  <2> HIDE DEF rest
  <2>1. \A y \in rest : f[y] = e[y]
    BY DEF rest
  <2> QED
    BY <1>1, <2>1, SumCongruent
<1>4. SumOf(f, rest) \in Int
  <2>1. \A y \in rest : f[y] \in Int
    OBVIOUS
  <2> HIDE DEF rest
  <2> QED
    BY <1>1, <2>1, SumIsInteger
<1> HIDE DEF rest
<1> QED
  BY <1>2, <1>3, <1>4

\* Nothing but zeros sums to zero.
LEMMA SumOfZeros ==
    ASSUME NEW S, IsFiniteSet(S), NEW f, \A x \in S : f[x] = 0
    PROVE  SumOf(f, S) = 0
<1> DEFINE F == {T \in SUBSET S : SumOf(f, T) # 0}
<1>1. SUFFICES ASSUME F # {} PROVE FALSE
  OBVIOUS
<1>2. PICK T \in F : \A U \in F : U \subseteq T => U = T
  <2>1. F \in SUBSET SUBSET S
    OBVIOUS
  <2> HIDE DEF F
  <2> QED
    BY <1>1, <2>1, SmallestSubset
<1>3. T \in SUBSET S /\ IsFiniteSet(T) /\ SumOf(f, T) # 0
  BY FS_Subset
<1> HIDE DEF F
<1>4. First(T) \in T
  BY <1>3, SumEmpty, FirstBelongs
<1>5. SumOf(f, T \ {First(T)}) = 0
  BY <1>2, <1>3, <1>4 DEF F
<1> QED
  BY <1>3, <1>4, <1>5, SumEmpty, SumFirst
===============================================================================
