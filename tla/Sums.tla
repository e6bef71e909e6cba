-------------------------------- MODULE Sums ---------------------------------
(***************************************************************************)
(* What MapThenSumSet of the community modules computes, proved for every  *)
(* finite set: the models add up what has been received for an invoice and *)
(* what is cleared in a reconciliation with it.                            *)
(*                                                                         *)
(* The library's induction takes an operator as its parameter; here each   *)
(* induction is on a set, the subsets that would be counterexamples, of    *)
(* which a minimal one exists because the strict subsets of a finite set   *)
(* are well-founded.                                                       *)
(***************************************************************************)
EXTENDS Integers, FiniteSets, FiniteSetsExt, FiniteSetTheorems, WellFoundedInduction, TLAPS

Pick(s) == CHOOSE x \in s : TRUE

SumStep(f, it, S) == [s \in SUBSET S |-> IF s = {} THEN 0 ELSE f[Pick(s)] + it[s \ {Pick(s)}]]

\* The function that MapThenFoldSet defines by recursion on the subsets of S.
SumIter(f, S) == CHOOSE it : it = SumStep(f, it, S)

\* The sum of f over S.
SumOver(f, S) == SumIter(f, S)[S]

(* The sum of a function's values is what MapThenSumSet gives.               *)
LEMMA SumIsMapThenSumSet ==
  ASSUME NEW f, NEW S
  PROVE  MapThenSumSet(LAMBDA x : f[x], S) = SumOver(f, S)
BY DEF MapThenSumSet, MapThenFoldSet, SumOver, SumIter, SumStep, Pick

LEMMA PickIn ==
  ASSUME NEW s, s # {}
  PROVE  Pick(s) \in s
BY DEF Pick

(* Only the values on S matter.                                              *)
LEMMA SumCongruence ==
  ASSUME NEW S, NEW f, NEW g, \A x \in S : f[x] = g[x]
  PROVE  SumOver(f, S) = SumOver(g, S)
<1>1. \A s \in SUBSET S : s # {} => Pick(s) \in S
  BY PickIn
<1>2. ASSUME NEW it PROVE SumStep(f, it, S) = SumStep(g, it, S)
  BY <1>1 DEF SumStep
<1>3. \A it : (it = SumStep(f, it, S)) <=> (it = SumStep(g, it, S))
  BY <1>2
<1> QED
  BY <1>3 DEF SumOver, SumIter

(* A set of subsets of a finite set that is not empty has a minimal member.  *)
LEMMA MinimalSubset ==
  ASSUME NEW S, IsFiniteSet(S), NEW T, T \subseteq SUBSET S, T # {}
  PROVE  \E u \in T : \A w \in T : ~(w \subseteq u /\ w # u)
<1> DEFINE R == StrictSubsetOrdering(S)
<1>1. IsWellFoundedOn(R, SUBSET S)
  BY FS_FiniteSubsetsOfFinite, FS_StrictSubsetOrderingWellFounded
<1>2. \A u, w \in SUBSET S : <<w, u>> \in R <=> w \subseteq u /\ w # u
  BY DEF StrictSubsetOrdering
<1> HIDE DEF R
<1>3. PICK u \in T : \A w \in T : ~ (<<w, u>> \in R)
  BY <1>1, WFMin
<1>4. u \in SUBSET S /\ \A w \in T : w \in SUBSET S
  BY <1>3
<1> SUFFICES ASSUME NEW w \in T PROVE ~(w \subseteq u /\ w # u)
  BY <1>3
<1> QED
  BY <1>2, <1>3, <1>4, Zenon

(* The recursion has one solution at most.                                   *)
LEMMA IterUnique ==
  ASSUME NEW S, IsFiniteSet(S), NEW f, NEW W \in SUBSET S, NEW i, NEW j,
         i = SumStep(f, i, S), j = SumStep(f, j, W)
  PROVE  \A s \in SUBSET W : i[s] = j[s]
<1> DEFINE T == {s \in SUBSET W : i[s] # j[s]}
<1> SUFFICES ASSUME T # {} PROVE FALSE
  OBVIOUS
<1>1. T \subseteq SUBSET S
  OBVIOUS
<1>2. PICK u \in T : \A w \in T : ~(w \subseteq u /\ w # u)
  <2> HIDE DEF T
  <2> QED
    BY <1>1, MinimalSubset
<1>3. u \in SUBSET W /\ u \in SUBSET S /\ i[u] # j[u]
  BY <1>2
<1>4. /\ i[u] = IF u = {} THEN 0 ELSE f[Pick(u)] + i[u \ {Pick(u)}]
      /\ j[u] = IF u = {} THEN 0 ELSE f[Pick(u)] + j[u \ {Pick(u)}]
  BY <1>3 DEF SumStep
<1>5. u # {} /\ Pick(u) \in u
  BY <1>3, <1>4, PickIn
<1>6. PICK v : v = u \ {Pick(u)}
  OBVIOUS
<1>7. v \subseteq u /\ v # u /\ v \in SUBSET W
  BY <1>3, <1>5, <1>6
<1>8. v \notin T
  BY <1>2, <1>7
<1>9. i[v] = j[v]
  BY <1>7, <1>8
<1> QED
  BY <1>3, <1>4, <1>5, <1>6, <1>9

(* It has one.                                                               *)
LEMMA IterExists ==
  ASSUME NEW S, IsFiniteSet(S), NEW f
  PROVE  SumIter(f, S) = SumStep(f, SumIter(f, S), S)
<1> DEFINE Has(U) == SumIter(f, U) = SumStep(f, SumIter(f, U), U)
           T == {U \in SUBSET S : ~Has(U)}
<1> SUFFICES ASSUME T # {} PROVE FALSE
  OBVIOUS
<1>1. PICK U \in T : \A W \in T : ~(W \subseteq U /\ W # U)
  <2>1. T \subseteq SUBSET S
    OBVIOUS
  <2> HIDE DEF T
  <2> QED
    BY <2>1, MinimalSubset
<1>2. U \in SUBSET S /\ ~Has(U)
  BY <1>1
<1>3. ASSUME NEW W \in SUBSET U, W # U PROVE Has(W) /\ IsFiniteSet(W)
  <2>1. W \in SUBSET S
    BY <1>2, <1>3
  <2>2. W \notin T
    BY <1>1, <1>3
  <2> QED
    BY <2>1, <2>2, FS_Subset
<1> DEFINE it == [s \in SUBSET U |->
                   IF s = {} THEN 0 ELSE f[Pick(s)] + SumOver(f, s \ {Pick(s)})]
<1>4. ASSUME NEW s \in SUBSET U, s # {} PROVE it[s \ {Pick(s)}] = SumOver(f, s \ {Pick(s)})
  <2>1. PICK v : v = s \ {Pick(s)}
    OBVIOUS
  <2>2. v \in SUBSET U /\ v # U
    BY <1>4, <2>1, PickIn
  <2>3. Has(v) /\ IsFiniteSet(v)
    BY <1>3, <2>2
  <2>4. it[v] = IF v = {} THEN 0 ELSE f[Pick(v)] + SumOver(f, v \ {Pick(v)})
    BY <2>2
  <2>5. SumIter(f, v)[v] = IF v = {} THEN 0 ELSE f[Pick(v)] + SumIter(f, v)[v \ {Pick(v)}]
    BY <2>3 DEF SumStep
  <2>6. CASE v = {}
    BY <2>1, <2>4, <2>5, <2>6 DEF SumOver
  <2>7. CASE v # {}
    <3>1. PICK w : w = v \ {Pick(v)}
      OBVIOUS
    <3>2. w \in SUBSET v /\ w \in SUBSET U /\ w # U
      BY <2>2, <2>7, <3>1, PickIn
    <3>3. Has(w)
      BY <1>3, <3>2
    <3>4. \A s1 \in SUBSET w : SumIter(f, v)[s1] = SumIter(f, w)[s1]
      BY <2>3, <3>2, <3>3, IterUnique
    <3>5. SumIter(f, v)[w] = SumOver(f, w)
      BY <3>4 DEF SumOver
    <3> QED
      BY <2>1, <2>4, <2>5, <2>7, <3>1, <3>5 DEF SumOver
  <2> QED
    BY <2>6, <2>7
<1>5. it = SumStep(f, it, U)
  <2>1. \A s \in SUBSET U : (IF s = {} THEN 0 ELSE f[Pick(s)] + SumOver(f, s \ {Pick(s)}))
                          = (IF s = {} THEN 0 ELSE f[Pick(s)] + it[s \ {Pick(s)}])
    BY <1>4
  <2> QED
    BY <2>1 DEF SumStep
<1>6. Has(U)
  <2> HIDE DEF it
  <2> QED
    BY <1>5 DEF SumIter
<1> QED
  BY <1>2, <1>6

(* The recursion that the sum satisfies.                                     *)
LEMMA SumRecursion ==
  ASSUME NEW S, IsFiniteSet(S), NEW f
  PROVE  SumOver(f, S) = IF S = {} THEN 0 ELSE f[Pick(S)] + SumOver(f, S \ {Pick(S)})
<1>1. SumIter(f, S) = SumStep(f, SumIter(f, S), S)
  BY IterExists
<1>2. SumOver(f, S) = IF S = {} THEN 0 ELSE f[Pick(S)] + SumIter(f, S)[S \ {Pick(S)}]
  BY <1>1 DEF SumStep, SumOver
<1>3. PICK w : w = S \ {Pick(S)}
  OBVIOUS
<1>4. w \in SUBSET S /\ IsFiniteSet(w)
  BY <1>3, FS_Subset
<1>5. SumIter(f, w) = SumStep(f, SumIter(f, w), w)
  BY <1>4, IterExists
<1>6. \A s \in SUBSET w : SumIter(f, S)[s] = SumIter(f, w)[s]
  BY <1>1, <1>4, <1>5, IterUnique
<1>7. SumIter(f, S)[w] = SumOver(f, w)
  BY <1>6 DEF SumOver
<1> QED
  BY <1>2, <1>3, <1>7

(* A sum of integers is an integer.                                          *)
LEMMA SumType ==
  ASSUME NEW S, IsFiniteSet(S), NEW f, \A x \in S : f[x] \in Int
  PROVE  SumOver(f, S) \in Int
<1> DEFINE T == {U \in SUBSET S : SumOver(f, U) \notin Int}
<1> SUFFICES ASSUME T # {} PROVE FALSE
  OBVIOUS
<1>1. PICK U \in T : \A W \in T : ~(W \subseteq U /\ W # U)
  <2>1. T \subseteq SUBSET S
    OBVIOUS
  <2> HIDE DEF T
  <2> QED
    BY <2>1, MinimalSubset
<1>2. U \in SUBSET S /\ SumOver(f, U) \notin Int /\ IsFiniteSet(U)
  BY <1>1, FS_Subset
<1>3. SumOver(f, U) = IF U = {} THEN 0 ELSE f[Pick(U)] + SumOver(f, U \ {Pick(U)})
  BY <1>2, SumRecursion
<1>4. U # {} /\ Pick(U) \in U
  BY <1>2, <1>3, PickIn
<1>5. PICK w : w = U \ {Pick(U)}
  OBVIOUS
<1>6. w \in SUBSET S /\ w \subseteq U /\ w # U
  BY <1>2, <1>4, <1>5
<1>7. SumOver(f, w) \in Int
  BY <1>1, <1>6
<1> QED
  BY <1>2, <1>3, <1>4, <1>5, <1>7

(* Any member may be taken out: the order of the summands does not matter.   *)
LEMMA SumRemove ==
  ASSUME NEW S, IsFiniteSet(S), NEW f, \A x \in S : f[x] \in Int, NEW a \in S
  PROVE  SumOver(f, S) = f[a] + SumOver(f, S \ {a})
<1> DEFINE T == {U \in SUBSET S : \E b \in U : SumOver(f, U) # f[b] + SumOver(f, U \ {b})}
<1> SUFFICES ASSUME T # {} PROVE FALSE
  OBVIOUS
<1>1. PICK U \in T : \A W \in T : ~(W \subseteq U /\ W # U)
  <2>1. T \subseteq SUBSET S
    OBVIOUS
  <2> HIDE DEF T
  <2> QED
    BY <2>1, MinimalSubset
<1>2. PICK b \in U : SumOver(f, U) # f[b] + SumOver(f, U \ {b})
  BY <1>1
<1>3. U \in SUBSET S /\ IsFiniteSet(U)
  BY <1>1, FS_Subset
<1>4. PICK p : p = Pick(U)
  OBVIOUS
<1>5. p \in U /\ SumOver(f, U) = f[p] + SumOver(f, U \ {p})
  BY <1>2, <1>3, <1>4, PickIn, SumRecursion
<1>6. p # b
  BY <1>2, <1>5
<1>7. PICK v, w, x : v = U \ {p} /\ w = U \ {b} /\ x = U \ {p, b}
  OBVIOUS
<1>8. /\ v \in SUBSET S /\ v \subseteq U /\ v # U /\ b \in v /\ v \ {b} = x
      /\ w \in SUBSET S /\ w \subseteq U /\ w # U /\ p \in w /\ w \ {p} = x
      /\ x \in SUBSET S
  BY <1>2, <1>3, <1>5, <1>6, <1>7
<1>9. SumOver(f, v) = f[b] + SumOver(f, x)
  <2>1. v \notin T
    BY <1>1, <1>8
  <2> QED
    BY <1>8, <2>1
<1>10. SumOver(f, w) = f[p] + SumOver(f, x)
  <2>1. w \notin T
    BY <1>1, <1>8
  <2> QED
    BY <1>8, <2>1
<1>11. IsFiniteSet(x)
  BY <1>8, FS_Subset
<1>12. SumOver(f, x) \in Int
  BY <1>8, <1>11, SumType
<1>13. f[p] \in Int /\ f[b] \in Int
  BY <1>2, <1>3, <1>5
<1> QED
  BY <1>2, <1>5, <1>7, <1>9, <1>10, <1>12, <1>13

(* A new member adds its value.                                              *)
LEMMA SumAdd ==
  ASSUME NEW S, IsFiniteSet(S), NEW f, NEW a, a \notin S, \A x \in S \cup {a} : f[x] \in Int
  PROVE  SumOver(f, S \cup {a}) = f[a] + SumOver(f, S)
<1>1. IsFiniteSet(S \cup {a}) /\ (S \cup {a}) \ {a} = S
  BY FS_AddElement
<1> QED
  BY <1>1, SumRemove

LEMMA SumEmpty ==
  ASSUME NEW f
  PROVE  SumOver(f, {}) = 0
BY SumRecursion, FS_EmptySet

(* A sum of naturals is a natural.                                           *)
LEMMA SumNat ==
  ASSUME NEW S, IsFiniteSet(S), NEW f, \A x \in S : f[x] \in Nat
  PROVE  SumOver(f, S) \in Nat
<1> DEFINE T == {U \in SUBSET S : SumOver(f, U) \notin Nat}
<1> SUFFICES ASSUME T # {} PROVE FALSE
  OBVIOUS
<1>1. PICK U \in T : \A W \in T : ~(W \subseteq U /\ W # U)
  <2>1. T \subseteq SUBSET S
    OBVIOUS
  <2> HIDE DEF T
  <2> QED
    BY <2>1, MinimalSubset
<1>2. U \in SUBSET S /\ SumOver(f, U) \notin Nat /\ IsFiniteSet(U)
  BY <1>1, FS_Subset
<1>3. SumOver(f, U) = IF U = {} THEN 0 ELSE f[Pick(U)] + SumOver(f, U \ {Pick(U)})
  BY <1>2, SumRecursion
<1>4. U # {} /\ Pick(U) \in U
  BY <1>2, <1>3, PickIn
<1>5. PICK w : w = U \ {Pick(U)}
  OBVIOUS
<1>6. w \in SUBSET S /\ w \subseteq U /\ w # U
  BY <1>2, <1>4, <1>5
<1>7. SumOver(f, w) \in Nat
  BY <1>1, <1>6
<1> QED
  BY <1>2, <1>3, <1>4, <1>5, <1>7

(* It is no less than any of them.                                           *)
LEMMA SumAtLeast ==
  ASSUME NEW S, IsFiniteSet(S), NEW f, \A x \in S : f[x] \in Nat, NEW a \in S
  PROVE  f[a] <= SumOver(f, S)
<1>1. SumOver(f, S) = f[a] + SumOver(f, S \ {a})
  BY SumRemove
<1>2. IsFiniteSet(S \ {a})
  BY FS_Subset
<1>3. SumOver(f, S \ {a}) \in Nat
  BY <1>2, SumNat
<1> QED
  BY <1>1, <1>3
=============================================================================
