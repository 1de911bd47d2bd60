---------------------------- MODULE SumTheorems ----------------------------
(***************************************************************************)
(* What SumFunctionOnSet computes.  Its definition folds over the set in   *)
(* the order in which CHOOSE picks the elements; the theorems say that the *)
(* order does not matter.  They are shown by taking a smallest finite set  *)
(* for which they would fail.                                              *)
(***************************************************************************)
EXTENDS Integers, FiniteSets, Functions, FiniteSetTheorems, WellFoundedInduction, TLAPS

Pick(s) == CHOOSE x \in s : TRUE

\* g follows the definition of the fold on the subsets of S.
IsFold(w, S, g) ==
    g = [s \in SUBSET S |-> IF s = {} THEN 0 ELSE w[Pick(s)] + g[s \ {Pick(s)}]]

(* Every collection of finite sets that is not empty has a smallest one.   *)
LEMMA SmallestSet ==
    ASSUME NEW S, IsFiniteSet(S), NEW C, C \subseteq SUBSET S, C # {}
    PROVE  \E s \in C : \A t \in C : t \subseteq s => t = s
<1>1. FiniteSubsetsOf(S) = SUBSET S
  BY FS_FiniteSubsetsOfFinite
<1>2. IsWellFoundedOn(StrictSubsetOrdering(S), SUBSET S)
  BY <1>1, FS_StrictSubsetOrderingWellFounded
<1>3. \E s \in C : \A t \in C : ~(<<t, s>> \in StrictSubsetOrdering(S))
  BY <1>2, WFMin
<1> QED BY <1>3 DEF StrictSubsetOrdering

LEMMA PickIn == ASSUME NEW s, s # {} PROVE Pick(s) \in s
BY DEF Pick

(* Two folds agree where both are defined.                                 *)
LEMMA FoldsAgree ==
    ASSUME NEW w, NEW S, IsFiniteSet(S), NEW T, T \subseteq S, NEW g, NEW h,
           IsFold(w, S, g), IsFold(w, T, h), NEW s, s \subseteq T
    PROVE  g[s] = h[s]
<1> DEFINE C == {t \in SUBSET T : g[t] # h[t]}
<1>1. ASSUME NEW t \in C, \A u \in C : u \subseteq t => u = t
      PROVE  FALSE
  <2>1. t \in SUBSET T /\ t \in SUBSET S /\ g[t] # h[t]
    BY <1>1
  <2>2. g[t] = IF t = {} THEN 0 ELSE w[Pick(t)] + g[t \ {Pick(t)}]
    BY <2>1 DEF IsFold
  <2>3. h[t] = IF t = {} THEN 0 ELSE w[Pick(t)] + h[t \ {Pick(t)}]
    BY <2>1 DEF IsFold
  <2>4. t # {}
    BY <2>1, <2>2, <2>3
  <2>5. t \ {Pick(t)} \in SUBSET T /\ t \ {Pick(t)} # t /\ t \ {Pick(t)} \subseteq t
    BY <2>1, <2>4, PickIn
  <2>6. g[t \ {Pick(t)}] = h[t \ {Pick(t)}]
    BY <1>1, <2>5
  <2> QED BY <2>1, <2>2, <2>3, <2>6
<1>2. C = {}
  <2> SUFFICES ASSUME C # {} PROVE FALSE
    OBVIOUS
  <2>1. C \subseteq SUBSET S
    OBVIOUS
  <2> HIDE DEF C
  <2> QED BY <1>1, <2>1, SmallestSet
<1> QED BY <1>2

(* The fold is defined on every finite set.                                *)
LEMMA FoldsExist ==
    ASSUME NEW w, NEW S, IsFiniteSet(S)
    PROVE  \E g : IsFold(w, S, g)
<1> DEFINE C == {t \in SUBSET S : ~\E g : IsFold(w, t, g)}
<1>1. ASSUME NEW t \in C, \A u \in C : u \subseteq t => u = t
      PROVE  FALSE
  <2> DEFINE fold(u) == CHOOSE g : IsFold(w, u, g)
             F == [u \in SUBSET t |-> IF u = {} THEN 0
                                      ELSE w[Pick(u)] + fold(u \ {Pick(u)})[u \ {Pick(u)}]]
  <2>1. t \in SUBSET S /\ IsFiniteSet(t)
    BY FS_Subset
  <2>2. ASSUME NEW u \in SUBSET t, u # t PROVE IsFold(w, u, fold(u))
    <3>1. \E g : IsFold(w, u, g)
      BY <1>1, <2>1, <2>2
    <3> QED BY <3>1
  <2>3. ASSUME NEW u \in SUBSET t, u # {}
        PROVE  fold(u \ {Pick(u)})[u \ {Pick(u)}] = F[u \ {Pick(u)}]
    <3> DEFINE v == u \ {Pick(u)}
    <3>1. v \in SUBSET t /\ v # t
      BY <2>3, PickIn
    <3>2. IsFold(w, v, fold(v)) /\ IsFiniteSet(v) /\ v \in SUBSET v
      BY <2>1, <2>2, <3>1, FS_Subset
    <3> HIDE DEF fold
    <3>3. fold(v)[v] = IF v = {} THEN 0 ELSE w[Pick(v)] + fold(v)[v \ {Pick(v)}]
      BY <3>2 DEF IsFold
    <3>4. ASSUME v # {}
          PROVE  fold(v)[v \ {Pick(v)}] = fold(v \ {Pick(v)})[v \ {Pick(v)}]
      <4> DEFINE x == v \ {Pick(v)}
      <4>1. x \subseteq v /\ x \in SUBSET t /\ x # t
        BY <3>1, <3>4, PickIn
      <4>2. IsFold(w, x, fold(x))
        BY <2>2, <4>1
      <4> HIDE DEF x
      <4>3. fold(v)[x] = fold(x)[x]
        BY <3>2, <4>1, <4>2, FoldsAgree
      <4> QED BY <4>3 DEF x
    <3>5. F[v] = IF v = {} THEN 0 ELSE w[Pick(v)] + fold(v \ {Pick(v)})[v \ {Pick(v)}]
      BY <3>1
    <3> QED BY <3>3, <3>4, <3>5
  <2> HIDE DEF fold
  <2>4. F = [u \in SUBSET t |-> IF u = {} THEN 0 ELSE w[Pick(u)] + F[u \ {Pick(u)}]]
    BY <2>3
  <2>5. IsFold(w, t, F)
    BY <2>4 DEF IsFold
  <2> QED BY <1>1, <2>5
<1>2. C = {}
  <2> SUFFICES ASSUME C # {} PROVE FALSE
    OBVIOUS
  <2>1. C \subseteq SUBSET S
    OBVIOUS
  <2> HIDE DEF C
  <2> QED BY <1>1, <2>1, SmallestSet
<1> QED BY <1>2

(* The sum is the value of the fold.                                       *)
LEMMA SumIsFold ==
    ASSUME NEW w, NEW S, IsFiniteSet(S)
    PROVE  \E g : IsFold(w, S, g) /\ SumFunctionOnSet(w, S) = g[S]
<1> DEFINE iter == CHOOSE g : g = [s \in SUBSET S |->
                       IF s = {} THEN 0
                       ELSE w[CHOOSE x \in s : TRUE] + g[s \ {CHOOSE x \in s : TRUE}]]
<1>1. IsFold(w, S, iter)
  <2>1. PICK g : IsFold(w, S, g)
    BY FoldsExist
  <2>2. g = [s \in SUBSET S |->
                IF s = {} THEN 0
                ELSE w[CHOOSE x \in s : TRUE] + g[s \ {CHOOSE x \in s : TRUE}]]
    BY <2>1 DEF IsFold, Pick
  <2>3. iter = [s \in SUBSET S |->
                   IF s = {} THEN 0
                   ELSE w[CHOOSE x \in s : TRUE] + iter[s \ {CHOOSE x \in s : TRUE}]]
    BY <2>2, Zenon
  <2> HIDE DEF iter
  <2> QED BY <2>3 DEF IsFold, Pick
<1>2. SumFunctionOnSet(w, S) = iter[S]
  BY DEF SumFunctionOnSet, FoldFunctionOnSet, MapThenFoldSet
<1> QED BY <1>1, <1>2

-----------------------------------------------------------------------------
(* Nothing sums to zero.                                                   *)
LEMMA SumOfNone == \A w : SumFunctionOnSet(w, {}) = 0
<1> SUFFICES ASSUME NEW w PROVE SumFunctionOnSet(w, {}) = 0
  OBVIOUS
<1>1. PICK g : IsFold(w, {}, g) /\ SumFunctionOnSet(w, {}) = g[{}]
  BY SumIsFold, FS_EmptySet
<1> QED BY <1>1 DEF IsFold

(* A sum splits at the element that is picked.                             *)
LEMMA SumAtPick ==
    ASSUME NEW w, NEW S, IsFiniteSet(S), S # {}
    PROVE  SumFunctionOnSet(w, S) = w[Pick(S)] + SumFunctionOnSet(w, S \ {Pick(S)})
<1> DEFINE T == S \ {Pick(S)}
<1>1. IsFiniteSet(T) /\ T \subseteq S
  BY FS_Subset
<1>2. PICK g : IsFold(w, S, g) /\ SumFunctionOnSet(w, S) = g[S]
  BY SumIsFold
<1>3. PICK h : IsFold(w, T, h) /\ SumFunctionOnSet(w, T) = h[T]
  BY <1>1, SumIsFold
<1>4. g[T] = h[T]
  BY <1>1, <1>2, <1>3, FoldsAgree
<1>5. g[S] = w[Pick(S)] + g[T]
  BY <1>2 DEF IsFold
<1> QED BY <1>2, <1>3, <1>4, <1>5

(* Integers sum to an integer.                                             *)
LEMMA SumType ==
    ASSUME NEW w, NEW S, IsFiniteSet(S), \A x \in S : w[x] \in Int
    PROVE  SumFunctionOnSet(w, S) \in Int
<1> DEFINE C == {T \in SUBSET S : SumFunctionOnSet(w, T) \notin Int}
<1>1. ASSUME NEW T \in C, \A u \in C : u \subseteq T => u = T
      PROVE  FALSE
  <2>1. T \in SUBSET S /\ IsFiniteSet(T) /\ SumFunctionOnSet(w, T) \notin Int
    BY FS_Subset
  <2>2. T # {}
    BY <2>1, SumOfNone
  <2>3. Pick(T) \in T /\ w[Pick(T)] \in Int
    BY <2>1, <2>2, PickIn
  <2>4. SumFunctionOnSet(w, T \ {Pick(T)}) \in Int
    BY <1>1, <2>1, <2>3
  <2> QED BY <2>1, <2>2, <2>3, <2>4, SumAtPick
<1>2. C = {}
  <2> SUFFICES ASSUME C # {} PROVE FALSE
    OBVIOUS
  <2>1. C \subseteq SUBSET S
    OBVIOUS
  <2> HIDE DEF C
  <2> QED BY <1>1, <2>1, SmallestSet
<1> QED BY <1>2

(* A sum splits at every element.                                          *)
THEOREM SumAtElement ==
    ASSUME NEW w, NEW S, IsFiniteSet(S), \A x \in S : w[x] \in Int, NEW e \in S
    PROVE  SumFunctionOnSet(w, S) = w[e] + SumFunctionOnSet(w, S \ {e})
<1> DEFINE Sum(T) == SumFunctionOnSet(w, T)
           C == {T \in SUBSET S : \E x \in T : Sum(T) # w[x] + Sum(T \ {x})}
<1>1. ASSUME NEW T \in C, \A u \in C : u \subseteq T => u = T
      PROVE  FALSE
  <2>1. PICK x \in T : Sum(T) # w[x] + Sum(T \ {x})
    OBVIOUS
  <2> DEFINE y == Pick(T)
             U == T \ {x, y}
  <2>2. T \in SUBSET S /\ IsFiniteSet(T) /\ y \in T
    BY FS_Subset, PickIn
  <2>3. Sum(T) = w[y] + Sum(T \ {y})
    BY <2>2, SumAtPick
  <2>4. x # y
    BY <2>1, <2>3
  <2>5. IsFiniteSet(U) /\ U \in SUBSET S
    BY <2>2, FS_Subset
  <2>6. w[x] \in Int /\ w[y] \in Int /\ Sum(U) \in Int
    BY <2>2, <2>5, SumType
  <2> HIDE DEF y, Sum
  <2>7. Sum(T \ {y}) = w[x] + Sum(U)
    <3>1. T \ {y} \in SUBSET S /\ T \ {y} \subseteq T /\ T \ {y} # T /\ x \in T \ {y}
      BY <2>2, <2>4
    <3>2. (T \ {y}) \ {x} = U
      OBVIOUS
    <3> QED BY <1>1, <3>1, <3>2
  <2>8. Sum(T \ {x}) = w[y] + Sum(U)
    <3>1. T \ {x} \in SUBSET S /\ T \ {x} \subseteq T /\ T \ {x} # T /\ y \in T \ {x}
      BY <2>2, <2>4
    <3>2. (T \ {x}) \ {y} = U
      OBVIOUS
    <3> QED BY <1>1, <3>1, <3>2
  <2> QED BY <2>1, <2>3, <2>6, <2>7, <2>8
<1>2. C = {}
  <2> SUFFICES ASSUME C # {} PROVE FALSE
    OBVIOUS
  <2>1. C \subseteq SUBSET S
    OBVIOUS
  <2> HIDE DEF C
  <2> QED BY <1>1, <2>1, SmallestSet
<1> QED BY <1>2

(* Adding an element adds its value.                                       *)
THEOREM SumWithElement ==
    ASSUME NEW w, NEW S, IsFiniteSet(S), NEW e, e \notin S, \A x \in S \cup {e} : w[x] \in Int
    PROVE  SumFunctionOnSet(w, S \cup {e}) = w[e] + SumFunctionOnSet(w, S)
<1>1. IsFiniteSet(S \cup {e}) /\ (S \cup {e}) \ {e} = S
  BY FS_AddElement
<1> QED BY <1>1, SumAtElement

(* The sum depends only on the values of the elements.                     *)
THEOREM SumOfSameValues ==
    ASSUME NEW w, NEW v, NEW S, IsFiniteSet(S), \A x \in S : w[x] = v[x]
    PROVE  SumFunctionOnSet(w, S) = SumFunctionOnSet(v, S)
<1> DEFINE C == {T \in SUBSET S : SumFunctionOnSet(w, T) # SumFunctionOnSet(v, T)}
<1>1. ASSUME NEW T \in C, \A u \in C : u \subseteq T => u = T
      PROVE  FALSE
  <2>1. T \in SUBSET S /\ IsFiniteSet(T) /\ SumFunctionOnSet(w, T) # SumFunctionOnSet(v, T)
    BY FS_Subset
  <2>2. T # {}
    BY <2>1, SumOfNone
  <2>3. Pick(T) \in T /\ w[Pick(T)] = v[Pick(T)]
    BY <2>1, <2>2, PickIn
  <2>4. SumFunctionOnSet(w, T \ {Pick(T)}) = SumFunctionOnSet(v, T \ {Pick(T)})
    BY <1>1, <2>1, <2>3
  <2> QED BY <2>1, <2>2, <2>3, <2>4, SumAtPick
<1>2. C = {}
  <2> SUFFICES ASSUME C # {} PROVE FALSE
    OBVIOUS
  <2>1. C \subseteq SUBSET S
    OBVIOUS
  <2> HIDE DEF C
  <2> QED BY <1>1, <2>1, SmallestSet
<1> QED BY <1>2

(* The sum over two sets that share no element.                            *)
THEOREM SumOfDisjoint ==
    ASSUME NEW w, NEW S, NEW T, IsFiniteSet(S), IsFiniteSet(T), S \cap T = {},
           \A x \in S \cup T : w[x] \in Int
    PROVE  SumFunctionOnSet(w, S \cup T) = SumFunctionOnSet(w, S) + SumFunctionOnSet(w, T)
<1> DEFINE Sum(U) == SumFunctionOnSet(w, U)
           C == {U \in SUBSET T : Sum(S \cup U) # Sum(S) + Sum(U)}
<1>1. ASSUME NEW U \in C, \A V \in C : V \subseteq U => V = U
      PROVE  FALSE
  <2>1. U \in SUBSET T /\ IsFiniteSet(U) /\ Sum(S \cup U) # Sum(S) + Sum(U)
    BY FS_Subset
  <2>2. Sum(S) \in Int /\ Sum(U) \in Int
    BY <2>1, SumType
  <2>3. U # {}
    <3>1. SUFFICES ASSUME U = {} PROVE FALSE
      OBVIOUS
    <3>2. Sum(U) = 0
      BY <3>1, SumOfNone
    <3>3. S \cup U = S
      BY <3>1
    <3>4. Sum(S \cup U) = Sum(S)
      BY <3>3
    <3> HIDE DEF Sum
    <3> QED BY <2>1, <2>2, <3>2, <3>4
  <2>4. PICK x \in U : TRUE
    BY <2>3
  <2> DEFINE V == U \ {x}
  <2>5. /\ V \in SUBSET T /\ V \subseteq U /\ V # U /\ IsFiniteSet(V)
        /\ (S \cup U) \ {x} = S \cup V /\ w[x] \in Int /\ x \in S \cup U
    BY <2>1, <2>4, FS_Subset
  <2>6. Sum(V) \in Int /\ IsFiniteSet(S \cup U)
    BY <2>1, <2>5, SumType, FS_Union
  <2>7. \A y \in S \cup U : w[y] \in Int
    BY <2>1
  <2> HIDE DEF V, Sum
  <2>8. Sum(S \cup V) = Sum(S) + Sum(V)
    BY <1>1, <2>5
  <2>9. Sum(S \cup U) = w[x] + Sum(S \cup V)
    BY <2>5, <2>6, <2>7, SumAtElement DEF Sum
  <2>10. Sum(U) = w[x] + Sum(V)
    BY <2>1, <2>4, <2>7, SumAtElement DEF Sum, V
  <2> QED BY <2>1, <2>2, <2>5, <2>6, <2>8, <2>9, <2>10
<1>2. C = {}
  <2> SUFFICES ASSUME C # {} PROVE FALSE
    OBVIOUS
  <2>1. C \subseteq SUBSET T
    OBVIOUS
  <2> HIDE DEF C
  <2> QED BY <1>1, <2>1, SmallestSet
<1> QED BY <1>2

(* Values that are nowhere negative have a sum that is not.                *)
THEOREM SumIsNatural ==
    ASSUME NEW w, NEW S, IsFiniteSet(S), \A x \in S : w[x] \in Nat
    PROVE  SumFunctionOnSet(w, S) \in Nat
<1> DEFINE C == {T \in SUBSET S : SumFunctionOnSet(w, T) \notin Nat}
<1>1. ASSUME NEW T \in C, \A u \in C : u \subseteq T => u = T
      PROVE  FALSE
  <2>1. T \in SUBSET S /\ IsFiniteSet(T) /\ SumFunctionOnSet(w, T) \notin Nat
    BY FS_Subset
  <2>2. T # {}
    BY <2>1, SumOfNone
  <2>3. Pick(T) \in T /\ w[Pick(T)] \in Nat
    BY <2>1, <2>2, PickIn
  <2>4. SumFunctionOnSet(w, T \ {Pick(T)}) \in Nat
    BY <1>1, <2>1, <2>3
  <2> QED BY <2>1, <2>2, <2>3, <2>4, SumAtPick
<1>2. C = {}
  <2> SUFFICES ASSUME C # {} PROVE FALSE
    OBVIOUS
  <2>1. C \subseteq SUBSET S
    OBVIOUS
  <2> HIDE DEF C
  <2> QED BY <1>1, <2>1, SmallestSet
<1> QED BY <1>2

(* Elements whose value is zero may be left out.                           *)
THEOREM SumOfRelevant ==
    ASSUME NEW w, NEW S, IsFiniteSet(S), NEW T, T \subseteq S,
           \A x \in T : w[x] \in Int, \A x \in S \ T : w[x] = 0
    PROVE  SumFunctionOnSet(w, S) = SumFunctionOnSet(w, T)
<1> DEFINE C == {U \in SUBSET (S \ T) : SumFunctionOnSet(w, T \cup U) # SumFunctionOnSet(w, T)}
<1>1. ASSUME NEW U \in C, \A V \in C : V \subseteq U => V = U
      PROVE  FALSE
  <2>1. /\ U \in SUBSET (S \ T) /\ IsFiniteSet(T \cup U) /\ IsFiniteSet(T)
        /\ SumFunctionOnSet(w, T \cup U) # SumFunctionOnSet(w, T)
    BY FS_Subset
  <2>2. U # {}
    <3>1. T \cup {} = T
      OBVIOUS
    <3> QED BY <2>1, <3>1
  <2>3. PICK x \in U : TRUE
    BY <2>2
  <2> DEFINE V == U \ {x}
  <2>4. V \in SUBSET (S \ T) /\ V \subseteq U /\ V # U /\ (T \cup U) \ {x} = T \cup V
    BY <2>1, <2>3
  <2>5. SumFunctionOnSet(w, T \cup V) = SumFunctionOnSet(w, T)
    BY <1>1, <2>4
  <2>6. w[x] = 0 /\ x \in T \cup U /\ \A y \in T \cup U : w[y] \in Int
    BY <2>1, <2>3
  <2>7. SumFunctionOnSet(w, T \cup U) = w[x] + SumFunctionOnSet(w, (T \cup U) \ {x})
    BY <2>1, <2>6, SumAtElement
  <2>8. SumFunctionOnSet(w, T) \in Int
    BY <2>1, SumType
  <2> HIDE DEF V
  <2>9. SumFunctionOnSet(w, (T \cup U) \ {x}) = SumFunctionOnSet(w, T)
    BY <2>4, <2>5
  <2> QED BY <2>1, <2>6, <2>7, <2>8, <2>9
<1>2. C = {}
  <2> SUFFICES ASSUME C # {} PROVE FALSE
    OBVIOUS
  <2>1. C \subseteq SUBSET (S \ T) /\ IsFiniteSet(S \ T)
    BY FS_Subset
  <2> HIDE DEF C
  <2> QED BY <1>1, <2>1, SmallestSet
<1>3. (S \ T) \notin C
  BY <1>2
<1>4. T \cup (S \ T) = S /\ S \ T \in SUBSET (S \ T)
  OBVIOUS
<1>5. SumFunctionOnSet(w, T \cup (S \ T)) = SumFunctionOnSet(w, T)
  BY <1>3, <1>4
<1> QED BY <1>4, <1>5

(* A single value that is not zero is the sum.                             *)
THEOREM SumOfOne ==
    ASSUME NEW w, NEW S, IsFiniteSet(S), NEW e \in S, w[e] \in Int,
           \A x \in S \ {e} : w[x] = 0
    PROVE  SumFunctionOnSet(w, S) = w[e]
<1>1. SumFunctionOnSet(w, S) = SumFunctionOnSet(w, {e})
  <2>1. \A x \in {e} : w[x] \in Int
    OBVIOUS
  <2> QED BY <2>1, SumOfRelevant
<1>2. SumFunctionOnSet(w, {e}) = w[e] + SumFunctionOnSet(w, {e} \ {e})
  <2>1. IsFiniteSet({e}) /\ \A x \in {e} : w[x] \in Int
    BY FS_Singleton
  <2> QED BY <2>1, SumAtElement
<1>3. SumFunctionOnSet(w, {e} \ {e}) = 0
  <2>1. {e} \ {e} = {}
    OBVIOUS
  <2> QED BY <2>1, SumOfNone
<1> QED BY <1>1, <1>2, <1>3

(* A set has as many elements as ones are summed over it.                  *)
THEOREM SumOfOnes ==
    ASSUME NEW w, NEW S, IsFiniteSet(S), \A x \in S : w[x] = 1
    PROVE  SumFunctionOnSet(w, S) = Cardinality(S)
<1> DEFINE C == {T \in SUBSET S : SumFunctionOnSet(w, T) # Cardinality(T)}
<1>1. ASSUME NEW T \in C, \A u \in C : u \subseteq T => u = T
      PROVE  FALSE
  <2>1. T \in SUBSET S /\ IsFiniteSet(T) /\ SumFunctionOnSet(w, T) # Cardinality(T)
    BY FS_Subset
  <2>2. T # {}
    BY <2>1, SumOfNone, FS_EmptySet
  <2>3. Pick(T) \in T /\ w[Pick(T)] = 1
    BY <2>1, <2>2, PickIn
  <2> DEFINE U == T \ {Pick(T)}
  <2>4. SumFunctionOnSet(w, U) = Cardinality(U)
    BY <1>1, <2>1, <2>3
  <2>5. Cardinality(U) = Cardinality(T) - 1 /\ Cardinality(T) \in Nat
    BY <2>1, <2>3, FS_RemoveElement, FS_CardinalityType
  <2> QED BY <2>1, <2>2, <2>3, <2>4, <2>5, SumAtPick
<1>2. C = {}
  <2> SUFFICES ASSUME C # {} PROVE FALSE
    OBVIOUS
  <2>1. C \subseteq SUBSET S
    OBVIOUS
  <2> HIDE DEF C
  <2> QED BY <1>1, <2>1, SmallestSet
<1> QED BY <1>2

(* The sum of sums of two values.                                          *)
THEOREM SumOfSums ==
    ASSUME NEW u, NEW v, NEW w, NEW S, IsFiniteSet(S),
           \A x \in S : u[x] \in Int /\ v[x] \in Int /\ w[x] = u[x] + v[x]
    PROVE  SumFunctionOnSet(w, S) = SumFunctionOnSet(u, S) + SumFunctionOnSet(v, S)
<1> DEFINE C == {T \in SUBSET S : SumFunctionOnSet(w, T)
                                    # SumFunctionOnSet(u, T) + SumFunctionOnSet(v, T)}
<1>1. ASSUME NEW T \in C, \A q \in C : q \subseteq T => q = T
      PROVE  FALSE
  <2>1. /\ T \in SUBSET S /\ IsFiniteSet(T)
        /\ SumFunctionOnSet(w, T) # SumFunctionOnSet(u, T) + SumFunctionOnSet(v, T)
    BY FS_Subset
  <2>2. T # {}
    BY <2>1, SumOfNone
  <2>3. Pick(T) \in S /\ Pick(T) \in T
    BY <2>1, <2>2, PickIn
  <2> DEFINE U == T \ {Pick(T)}
  <2>4. SumFunctionOnSet(w, U) = SumFunctionOnSet(u, U) + SumFunctionOnSet(v, U)
    BY <1>1, <2>1, <2>3
  <2>5. SumFunctionOnSet(u, U) \in Int /\ SumFunctionOnSet(v, U) \in Int
    BY <2>1, SumType, FS_Subset
  <2>6. /\ SumFunctionOnSet(w, T) = w[Pick(T)] + SumFunctionOnSet(w, U)
        /\ SumFunctionOnSet(u, T) = u[Pick(T)] + SumFunctionOnSet(u, U)
        /\ SumFunctionOnSet(v, T) = v[Pick(T)] + SumFunctionOnSet(v, U)
    BY <2>1, <2>2, SumAtPick
  <2>7. /\ u[Pick(T)] \in Int /\ v[Pick(T)] \in Int
        /\ w[Pick(T)] = u[Pick(T)] + v[Pick(T)]
    BY <2>3
  <2> HIDE DEF U
  <2> QED BY <2>1, <2>4, <2>5, <2>6, <2>7
<1>2. C = {}
  <2> SUFFICES ASSUME C # {} PROVE FALSE
    OBVIOUS
  <2>1. C \subseteq SUBSET S
    OBVIOUS
  <2> HIDE DEF C
  <2> QED BY <1>1, <2>1, SmallestSet
<1> QED BY <1>2

(* w holds the rows of a table and c its columns; u and v are their sums.  *)
IsTable(S, T, w, c, u, v) ==
    /\ IsFiniteSet(S) /\ IsFiniteSet(T)
    /\ \A x \in S : \A y \in T : w[x][y] \in Int /\ c[y][x] = w[x][y]
    /\ \A x \in S : u[x] = SumFunctionOnSet(w[x], T)
    /\ \A y \in T : v[y] = SumFunctionOnSet(c[y], S)

(* A table adds up to the same by rows and by columns.                     *)
THEOREM CountedTwice ==
    ASSUME NEW S, NEW T, NEW w, NEW c, NEW u, NEW v, IsTable(S, T, w, c, u, v)
    PROVE  SumFunctionOnSet(u, S) = SumFunctionOnSet(v, T)
<1> DEFINE below(R) == [y \in T |-> SumFunctionOnSet(c[y], R)]
           C == {R \in SUBSET S : SumFunctionOnSet(u, R) # SumFunctionOnSet(below(R), T)}
<1> USE DEF IsTable
<1>1. \A x \in S : u[x] \in Int
  <2> SUFFICES ASSUME NEW x \in S PROVE u[x] \in Int
    OBVIOUS
  <2>1. IsFiniteSet(T) /\ \A y \in T : w[x][y] \in Int
    OBVIOUS
  <2>2. SumFunctionOnSet(w[x], T) \in Int
    BY <2>1, SumType
  <2> QED BY <2>2
<1>2. ASSUME NEW R \in C, \A q \in C : q \subseteq R => q = R
      PROVE  FALSE
  <2>1. /\ R \in SUBSET S /\ IsFiniteSet(R)
        /\ SumFunctionOnSet(u, R) # SumFunctionOnSet(below(R), T)
    BY FS_Subset
  <2>2. R # {}
    <3>1. SUFFICES ASSUME R = {} PROVE FALSE
      OBVIOUS
    <3>2. SumFunctionOnSet(u, R) = 0
      BY <3>1, SumOfNone
    <3>3. \A y \in T : below(R)[y] = 0
      BY <3>1, SumOfNone
    <3>4. SumFunctionOnSet(below(R), T) = SumFunctionOnSet(below(R), {})
      <4> HIDE DEF below
      <4> QED BY <3>3, SumOfRelevant
    <3> QED BY <2>1, <3>2, <3>4, SumOfNone
  <2>3. PICK p \in R : TRUE
    BY <2>2
  <2> DEFINE U == R \ {p}
  <2>4. U \in SUBSET S /\ U \subseteq R /\ U # R /\ p \in S /\ p \in R /\ IsFiniteSet(U)
    BY <2>1, <2>3, FS_Subset
  <2>5. SumFunctionOnSet(u, U) = SumFunctionOnSet(below(U), T)
    BY <1>2, <2>4
  <2>6. SumFunctionOnSet(u, R) = u[p] + SumFunctionOnSet(u, U)
    BY <1>1, <2>1, <2>4, SumAtElement
  <2>7. ASSUME NEW y \in T
        PROVE  /\ w[p][y] \in Int /\ below(U)[y] \in Int
               /\ below(R)[y] = w[p][y] + below(U)[y]
    <3>1. /\ \A x \in R : c[y][x] \in Int
          /\ c[y][p] = w[p][y] /\ w[p][y] \in Int
      BY <2>1, <2>4
    <3>2. SumFunctionOnSet(c[y], R) = c[y][p] + SumFunctionOnSet(c[y], U)
      BY <2>1, <2>4, <3>1, SumAtElement
    <3>3. SumFunctionOnSet(c[y], U) \in Int
      BY <2>4, <3>1, SumType
    <3> QED BY <3>1, <3>2, <3>3
  <2>8. SumFunctionOnSet(below(R), T)
          = SumFunctionOnSet(w[p], T) + SumFunctionOnSet(below(U), T)
    <3> HIDE DEF below, U
    <3> QED BY <2>7, SumOfSums
  <2>9. u[p] = SumFunctionOnSet(w[p], T)
    BY <2>4
  <2> HIDE DEF below, U
  <2> QED BY <2>1, <2>5, <2>6, <2>8, <2>9
<1>3. C = {}
  <2> SUFFICES ASSUME C # {} PROVE FALSE
    OBVIOUS
  <2>1. C \subseteq SUBSET S
    OBVIOUS
  <2> HIDE DEF C
  <2> QED BY <1>2, <2>1, SmallestSet
<1>4. SumFunctionOnSet(u, S) = SumFunctionOnSet(below(S), T)
  BY <1>3
<1>5. SumFunctionOnSet(below(S), T) = SumFunctionOnSet(v, T)
  <2>1. \A y \in T : below(S)[y] = v[y]
    OBVIOUS
  <2> HIDE DEF below
  <2> QED BY <2>1, SumOfSameValues
<1> QED BY <1>4, <1>5

(* What is counted with ones and zeros is the size of a set.               *)
THEOREM SumOfFlags ==
    ASSUME NEW w, NEW S, IsFiniteSet(S), NEW T, T \subseteq S,
           \A x \in T : w[x] = 1, \A x \in S \ T : w[x] = 0
    PROVE  SumFunctionOnSet(w, S) = Cardinality(T)
<1>1. \A x \in T : w[x] \in Int
  OBVIOUS
<1>2. SumFunctionOnSet(w, S) = SumFunctionOnSet(w, T)
  BY <1>1, SumOfRelevant
<1> QED BY <1>2, SumOfOnes, FS_Subset

(* Counting by classes: the sizes of the classes add up to the whole.      *)
THEOREM CountedByClass ==
    ASSUME NEW R, NEW T, IsFiniteSet(R), IsFiniteSet(T), NEW class \in [R -> T], NEW w,
           \A t \in T : w[t] = Cardinality({x \in R : class[x] = t})
    PROVE  SumFunctionOnSet(w, T) = Cardinality(R)
<1> DEFINE byElement == [x \in R |-> [t \in T |-> IF class[x] = t THEN 1 ELSE 0]]
           byClass == [t \in T |-> [x \in R |-> IF class[x] = t THEN 1 ELSE 0]]
           ones == [x \in R |-> 1]
<1>1. \A x \in R : \A t \in T : byElement[x][t] \in Int /\ byClass[t][x] = byElement[x][t]
  OBVIOUS
<1>2. ASSUME NEW x \in R PROVE ones[x] = SumFunctionOnSet(byElement[x], T)
  <2> DEFINE f == byElement[x]
  <2>1. class[x] \in T /\ f[class[x]] = 1 /\ \A t \in T \ {class[x]} : f[t] = 0
    OBVIOUS
  <2> HIDE DEF f
  <2>2. SumFunctionOnSet(f, T) = f[class[x]]
    BY <2>1, SumOfOne
  <2> QED BY <2>1, <2>2 DEF f
<1>3. ASSUME NEW t \in T PROVE w[t] = SumFunctionOnSet(byClass[t], R)
  <2> DEFINE f == byClass[t]
             members == {x \in R : class[x] = t}
  <2>1. members \subseteq R /\ (\A x \in members : f[x] = 1) /\ \A x \in R \ members : f[x] = 0
    OBVIOUS
  <2>2. w[t] = Cardinality(members)
    OBVIOUS
  <2> HIDE DEF f, members
  <2>3. SumFunctionOnSet(f, R) = Cardinality(members)
    BY <2>1, SumOfFlags
  <2> QED BY <2>2, <2>3 DEF f
<1>4. \A x \in R : ones[x] = 1
  OBVIOUS
<1> HIDE DEF byElement, byClass, ones
<1>5. IsTable(R, T, byElement, byClass, ones, w)
  BY <1>1, <1>2, <1>3 DEF IsTable
<1>6. SumFunctionOnSet(ones, R) = SumFunctionOnSet(w, T)
  BY <1>5, CountedTwice
<1> QED BY <1>4, <1>6, SumOfOnes
=============================================================================
