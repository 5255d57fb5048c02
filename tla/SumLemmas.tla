------------------------------- MODULE SumLemmas -------------------------------
(***************************************************************************)
(* What SumFunctionOnSet, the sum of a function over a finite set of       *)
(* indices, computes.  The outbox's amounts, the warehouse's stock and the *)
(* webhook's balance are such sums, and their proofs need what a sum       *)
(* becomes when one index enters, leaves or changes its value.             *)
(*                                                                         *)
(* The fold is a recursive function on the subsets of the index set.  The  *)
(* arguments by induction take a smallest counterexample: the strict       *)
(* subset ordering of a finite set is well founded.                        *)
(***************************************************************************)
EXTENDS Naturals, Functions, FiniteSetTheorems, TLAPS

Pick(s) == CHOOSE x \in s : TRUE

\* g is the fold's recursive function for f on the subsets of S.
IsSum(f, S, g) == g = [s \in SUBSET S |-> IF s = {} THEN 0 ELSE f[Pick(s)] + g[s \ {Pick(s)}]]

\* A nonempty family of subsets of a finite set has a smallest member.
LEMMA SmallestSubset ==
  ASSUME NEW S, IsFiniteSet(S), NEW Q \in SUBSET (SUBSET S), Q # {}
  PROVE  \E T \in Q : \A U \in Q : U \subseteq T => U = T
<1>1. IsWellFoundedOn(StrictSubsetOrdering(S), SUBSET S)
  BY FS_StrictSubsetOrderingWellFounded, FS_FiniteSubsetsOfFinite
<1>2. PICK T \in Q : \A U \in Q : ~ (<<U, T>> \in StrictSubsetOrdering(S))
  <2> HIDE DEF StrictSubsetOrdering
  <2> QED BY <1>1, WFMin
<1> QED BY <1>2 DEF StrictSubsetOrdering

\* A nonempty set has an element to pick.
LEMMA PickInSet == ASSUME NEW s, s # {} PROVE Pick(s) \in s
BY DEF Pick

\* Two such functions agree where both are defined.
LEMMA SumUnique ==
  ASSUME NEW f, NEW S, IsFiniteSet(S), NEW V \in SUBSET S,
         NEW g, IsSum(f, S, g), NEW h, IsSum(f, V, h)
  PROVE  g[V] = h[V]
<1> DEFINE Q == {W \in SUBSET V : g[W] # h[W]}
<1>1. SUFFICES ASSUME Q # {} PROVE FALSE
  OBVIOUS
<1>2. IsFiniteSet(V)
  BY FS_Subset
<1>3. PICK W \in Q : \A U \in Q : U \subseteq W => U = W
  <2> HIDE DEF Q
  <2>1. Q \in SUBSET (SUBSET V)
    BY DEF Q
  <2> QED BY <1>1, <1>2, <2>1, SmallestSubset
<1>4. W # {}
  BY DEF IsSum
<1>5. Pick(W) \in W
  BY <1>4, PickInSet
<1>6. g[W \ {Pick(W)}] = h[W \ {Pick(W)}]
  BY <1>3, <1>5
<1> HIDE DEF Q
<1>7. W \in SUBSET V /\ W \in SUBSET S
  BY DEF Q
<1>8. g[W] = f[Pick(W)] + g[W \ {Pick(W)}]
  BY <1>4, <1>7 DEF IsSum
<1>9. h[W] = f[Pick(W)] + h[W \ {Pick(W)}]
  BY <1>4, <1>7 DEF IsSum
<1> QED BY <1>6, <1>8, <1>9 DEF Q

\* The function exists on the subsets of every finite set.
LEMMA SumExists ==
  ASSUME NEW f, NEW S, IsFiniteSet(S)
  PROVE  \E g : IsSum(f, S, g)
<1> DEFINE Q == {T \in SUBSET S : ~ \E g : IsSum(f, T, g)}
<1>1. SUFFICES ASSUME Q # {} PROVE FALSE
  OBVIOUS
<1>2. PICK T \in Q : \A U \in Q : U \subseteq T => U = T
  <2> HIDE DEF Q
  <2>1. Q \in SUBSET (SUBSET S)
    BY DEF Q
  <2> QED BY <1>1, <2>1, SmallestSubset
<1>3. T \in SUBSET S /\ IsFiniteSet(T)
  BY FS_Subset
<1> DEFINE G(U) == CHOOSE g : IsSum(f, U, g)
<1>4. ASSUME NEW U \in SUBSET T, U # T PROVE IsSum(f, U, G(U))
  <2>1. \E g : IsSum(f, U, g)
    BY <1>2, <1>3, <1>4
  <2> QED BY <2>1
<1> DEFINE h == [s \in SUBSET T |-> IF s = {} THEN 0
                                    ELSE f[Pick(s)] + G(s \ {Pick(s)})[s \ {Pick(s)}]]
<1> HIDE DEF G, Q
<1>5. ASSUME NEW U \in SUBSET T, U # T PROVE h[U] = G(U)[U]
  <2>1. CASE U = {}
    <3>1. h[U] = 0
      BY <2>1
    <3>2. G(U)[U] = 0
      BY <1>4, <1>5, <2>1 DEF IsSum
    <3> QED BY <3>1, <3>2
  <2>2. CASE U # {}
    <3> DEFINE V == U \ {Pick(U)}
    <3>1. Pick(U) \in U
      BY <2>2, PickInSet
    <3>2. V \in SUBSET U /\ V \in SUBSET T /\ V # T
      BY <3>1
    <3>3. IsSum(f, U, G(U)) /\ IsSum(f, V, G(V))
      BY <1>4, <1>5, <3>2
    <3>4. IsFiniteSet(U)
      BY <1>3, FS_Subset
    <3>5. G(U)[V] = G(V)[V]
      BY <3>2, <3>3, <3>4, SumUnique
    <3>6. G(U)[U] = f[Pick(U)] + G(U)[V]
      BY <2>2, <3>3 DEF IsSum
    <3>7. h[U] = f[Pick(U)] + G(V)[V]
      BY <2>2
    <3> QED BY <3>5, <3>6, <3>7
  <2> QED BY <2>1, <2>2
<1>6. \A s \in SUBSET T : s # {} => s \ {Pick(s)} \in SUBSET T /\ s \ {Pick(s)} # T
  BY PickInSet
<1>7. \A s \in SUBSET T : s # {} => h[s] = f[Pick(s)] + h[s \ {Pick(s)}]
  BY <1>5, <1>6
<1>8. h = [s \in SUBSET T |-> IF s = {} THEN 0 ELSE f[Pick(s)] + h[s \ {Pick(s)}]]
  <2> DEFINE k == [s \in SUBSET T |-> IF s = {} THEN 0 ELSE f[Pick(s)] + h[s \ {Pick(s)}]]
  <2>1. \A s \in SUBSET T : h[s] = k[s]
    BY <1>7
  <2> QED BY <2>1
<1>9. IsSum(f, T, h)
  <2> HIDE DEF h
  <2> QED BY <1>8 DEF IsSum
<1> QED BY <1>9 DEF Q

\* The sum of nothing is 0, and a sum is an index's value and the sum of the rest.
LEMMA SumStep ==
  ASSUME NEW f, NEW S, IsFiniteSet(S)
  PROVE  SumFunctionOnSet(f, S) =
           IF S = {} THEN 0 ELSE f[Pick(S)] + SumFunctionOnSet(f, S \ {Pick(S)})
<1> DEFINE G(U) == CHOOSE g : IsSum(f, U, g)
<1>1. \A U : SumFunctionOnSet(f, U) = G(U)[U]
  BY DEF SumFunctionOnSet, FoldFunctionOnSet, MapThenFoldSet, IsSum, Pick
<1>2. ASSUME NEW U \in SUBSET S PROVE IsSum(f, U, G(U))
  <2>1. \E g : IsSum(f, U, g)
    BY FS_Subset, SumExists
  <2> QED BY <2>1
<1> DEFINE V == S \ {Pick(S)}
<1>3. IsSum(f, S, G(S)) /\ IsSum(f, V, G(V))
  BY <1>2
<1> HIDE DEF G
<1>4. G(S)[V] = G(V)[V]
  BY <1>3, SumUnique
<1>5. G(S)[S] = IF S = {} THEN 0 ELSE f[Pick(S)] + G(S)[V]
  BY <1>3 DEF IsSum
<1> QED BY <1>1, <1>4, <1>5

\* Nothing sums to nothing.
LEMMA SumEmpty == \A f : SumFunctionOnSet(f, {}) = 0
BY SumStep, FS_EmptySet

\* A sum of natural numbers is one.
LEMMA SumType ==
  ASSUME NEW f, NEW S, IsFiniteSet(S), \A x \in S : f[x] \in Nat
  PROVE  SumFunctionOnSet(f, S) \in Nat
<1> DEFINE Q == {T \in SUBSET S : SumFunctionOnSet(f, T) \notin Nat}
<1>1. SUFFICES ASSUME Q # {} PROVE FALSE
  OBVIOUS
<1>2. PICK T \in Q : \A U \in Q : U \subseteq T => U = T
  <2> HIDE DEF Q
  <2>1. Q \in SUBSET (SUBSET S)
    BY DEF Q
  <2> QED BY <1>1, <2>1, SmallestSubset
<1>3. T \in SUBSET S /\ IsFiniteSet(T)
  BY FS_Subset
<1>4. T # {}
  BY SumEmpty
<1>5. Pick(T) \in T
  BY <1>4, PickInSet
<1>6. SumFunctionOnSet(f, T \ {Pick(T)}) \in Nat
  BY <1>2, <1>3, <1>5
<1>7. SumFunctionOnSet(f, T) = f[Pick(T)] + SumFunctionOnSet(f, T \ {Pick(T)})
  BY <1>3, <1>4, SumStep
<1>8. SumFunctionOnSet(f, T) \in Nat
  BY <1>3, <1>5, <1>6, <1>7
<1> QED BY <1>8 DEF Q

\* Any index may be the one that is taken out.
LEMMA SumRemove ==
  ASSUME NEW f, NEW S, IsFiniteSet(S), \A y \in S : f[y] \in Nat, NEW x \in S
  PROVE  SumFunctionOnSet(f, S) = f[x] + SumFunctionOnSet(f, S \ {x})
<1> DEFINE Law(T) == \A z \in T : SumFunctionOnSet(f, T) = f[z] + SumFunctionOnSet(f, T \ {z})
           Q == {T \in SUBSET S : ~ Law(T)}
<1>1. SUFFICES ASSUME Q # {} PROVE FALSE
  OBVIOUS
<1>2. PICK T \in Q : \A U \in Q : U \subseteq T => U = T
  <2> HIDE DEF Q
  <2>1. Q \in SUBSET (SUBSET S)
    BY DEF Q
  <2> QED BY <1>1, <2>1, SmallestSubset
<1>3. T \in SUBSET S /\ IsFiniteSet(T)
  BY FS_Subset
<1> DEFINE p == Pick(T)
<1>4. ASSUME NEW z \in T PROVE SumFunctionOnSet(f, T) = f[z] + SumFunctionOnSet(f, T \ {z})
  <2>1. p \in T
    BY PickInSet
  <2>2. SumFunctionOnSet(f, T) = f[p] + SumFunctionOnSet(f, T \ {p})
    BY <1>3, <2>1, SumStep
  <2> HIDE DEF p
  <2>3. CASE z # p
    <3>1. Law(T \ {p}) /\ Law(T \ {z})
      BY <1>2, <1>3, <1>4, <2>1
    <3>2. SumFunctionOnSet(f, T \ {p}) = f[z] + SumFunctionOnSet(f, (T \ {p}) \ {z})
      BY <2>3, <3>1
    <3>3. SumFunctionOnSet(f, T \ {z}) = f[p] + SumFunctionOnSet(f, (T \ {z}) \ {p})
      BY <2>1, <2>3, <3>1
    <3>4. (T \ {p}) \ {z} = (T \ {z}) \ {p}
      OBVIOUS
    <3>5. IsFiniteSet((T \ {z}) \ {p}) /\ \A y \in (T \ {z}) \ {p} : f[y] \in Nat
      BY <1>3, FS_Subset
    <3>6. SumFunctionOnSet(f, (T \ {z}) \ {p}) \in Nat
      BY <3>5, SumType
    <3>7. f[p] \in Nat /\ f[z] \in Nat
      BY <1>3, <1>4, <2>1
    <3> DEFINE n == SumFunctionOnSet(f, (T \ {z}) \ {p})
    <3>8. SumFunctionOnSet(f, T) = f[p] + (f[z] + n)
      BY <2>2, <3>2, <3>4
    <3>9. SumFunctionOnSet(f, T \ {z}) = f[p] + n
      BY <3>3
    <3> HIDE DEF n
    <3>10. n \in Nat
      BY <3>6 DEF n
    <3> QED BY <3>7, <3>8, <3>9, <3>10
  <2> QED BY <2>2, <2>3
<1> QED BY <1>4 DEF Q

\* An index that enters adds its value.
LEMMA SumAdd ==
  ASSUME NEW f, NEW S, IsFiniteSet(S), NEW x, x \notin S, \A y \in S \cup {x} : f[y] \in Nat
  PROVE  SumFunctionOnSet(f, S \cup {x}) = f[x] + SumFunctionOnSet(f, S)
<1>1. IsFiniteSet(S \cup {x})
  BY FS_AddElement
<1>2. (S \cup {x}) \ {x} = S
  OBVIOUS
<1> QED BY <1>1, <1>2, SumRemove

\* Functions that agree on the indices have the same sum.
LEMMA SumSame ==
  ASSUME NEW f, NEW g, NEW S, IsFiniteSet(S), \A x \in S : f[x] = g[x]
  PROVE  SumFunctionOnSet(f, S) = SumFunctionOnSet(g, S)
<1> DEFINE Q == {T \in SUBSET S : SumFunctionOnSet(f, T) # SumFunctionOnSet(g, T)}
<1>1. SUFFICES ASSUME Q # {} PROVE FALSE
  OBVIOUS
<1>2. PICK T \in Q : \A U \in Q : U \subseteq T => U = T
  <2> HIDE DEF Q
  <2>1. Q \in SUBSET (SUBSET S)
    BY DEF Q
  <2> QED BY <1>1, <2>1, SmallestSubset
<1>3. T \in SUBSET S /\ IsFiniteSet(T)
  BY FS_Subset
<1>4. T # {}
  BY SumEmpty
<1>5. Pick(T) \in T
  BY <1>4, PickInSet
<1>6. SumFunctionOnSet(f, T \ {Pick(T)}) = SumFunctionOnSet(g, T \ {Pick(T)})
  BY <1>2, <1>3, <1>5
<1>7. SumFunctionOnSet(f, T) = f[Pick(T)] + SumFunctionOnSet(f, T \ {Pick(T)})
  BY <1>3, <1>4, SumStep
<1>8. SumFunctionOnSet(g, T) = g[Pick(T)] + SumFunctionOnSet(g, T \ {Pick(T)})
  BY <1>3, <1>4, SumStep
<1>9. SumFunctionOnSet(f, T) = SumFunctionOnSet(g, T)
  BY <1>3, <1>5, <1>6, <1>7, <1>8
<1> QED BY <1>9 DEF Q

\* One index's value changes: the sum changes by as much.
LEMMA SumChange ==
  ASSUME NEW f, NEW g, NEW S, IsFiniteSet(S), NEW x \in S,
         \A y \in S : f[y] \in Nat /\ g[y] \in Nat,
         \A y \in S \ {x} : f[y] = g[y]
  PROVE  SumFunctionOnSet(g, S) + f[x] = SumFunctionOnSet(f, S) + g[x]
<1> DEFINE R == S \ {x}
<1>1. IsFiniteSet(R) /\ \A y \in R : f[y] \in Nat /\ f[y] = g[y]
  BY FS_RemoveElement
<1>2. SumFunctionOnSet(f, S) = f[x] + SumFunctionOnSet(f, R)
  BY SumRemove
<1>3. SumFunctionOnSet(g, S) = g[x] + SumFunctionOnSet(g, R)
  BY SumRemove
<1>4. SumFunctionOnSet(f, R) = SumFunctionOnSet(g, R)
  BY <1>1, SumSame
<1>5. SumFunctionOnSet(f, R) \in Nat
  BY <1>1, SumType
<1> QED BY <1>2, <1>3, <1>4, <1>5
================================================================================
