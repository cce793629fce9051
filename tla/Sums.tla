-------------------------------- MODULE Sums --------------------------------
(***************************************************************************)
(* Sums over a finite set, for the proofs about money and about ratings:   *)
(* SumFunctionOnSet(f, S), the community modules' fold, adds f[x] for each *)
(* x in S, whatever order the fold takes them in.                          *)
(*                                                                         *)
(* A fact about every finite set would be proved by induction on the set;  *)
(* here the sets of which it fails are looked at instead, among which a    *)
(* finite set has one that is minimal (MinimalSubset), and that one leads  *)
(* to a contradiction.  The sum is first shown to be a cardinality, that   *)
(* of Units(f, S), which does not depend on the order.                     *)
(***************************************************************************)
EXTENDS FiniteSetsExt, FiniteSetTheorems, TLAPS

\* The element the fold takes first.
Pick(s) == CHOOSE x \in s : TRUE

\* The equation by which a sum is computed, of g on the subsets of S.
Adds(f, S, g) ==
    g = [s \in SUBSET S |-> IF s = {} THEN 0 ELSE f[Pick(s)] + g[s \ {Pick(s)}]]

\* The sum is what that equation defines.
LEMMA Unfold ==
    ASSUME NEW f, NEW S
    PROVE  SumFunctionOnSet(f, S) = (CHOOSE g : Adds(f, S, g))[S]
  BY DEF SumFunctionOnSet, FoldFunctionOnSet, MapThenFoldSet, Pick, Adds

\* What f counts, one by one.
Units(f, S) == UNION {{x} \X (1..f[x]) : x \in S}

\* An element x has f[x] units of its own.
LEMMA UnitsRemove ==
    ASSUME NEW f, NEW S, IsFiniteSet(S), NEW x \in S, f[x] \in Nat, IsFiniteSet(Units(f, S \ {x}))
    PROVE  /\ IsFiniteSet(Units(f, S))
           /\ Cardinality(Units(f, S)) = f[x] + Cardinality(Units(f, S \ {x}))
  <1>. DEFINE A == Units(f, S \ {x})
              B == {x} \X (1..f[x])
  <1>1. Units(f, S) = A \cup B
    BY DEF Units
  <1>2. A \cap B = {}
    BY DEF Units
  <1>3. IsFiniteSet(B) /\ Cardinality(B) = f[x]
    <2>. DEFINE one == {x}
                I   == 1..f[x]
    <2>1. IsFiniteSet(one) /\ Cardinality(one) = 1
      BY FS_Singleton
    <2>2. IsFiniteSet(I) /\ Cardinality(I) = f[x]
      BY FS_Interval
    <2>. HIDE DEF one, I
    <2>3. IsFiniteSet(one \X I) /\ Cardinality(one \X I) = Cardinality(one) * Cardinality(I)
      BY <2>1, <2>2, FS_Product
    <2>. QED  BY <2>1, <2>2, <2>3 DEF one, I
  <1>4. IsFiniteSet(A) /\ Cardinality(A) \in Nat
    BY FS_CardinalityType
  <1>. HIDE DEF A, B
  <1>5. Cardinality(A \cap B) = 0
    BY <1>2, FS_EmptySet
  <1>6. IsFiniteSet(A \cup B) /\ Cardinality(A \cup B) = Cardinality(A) + Cardinality(B) - Cardinality(A \cap B)
    BY <1>3, <1>4, FS_Union
  <1>7. Cardinality(A \cup B) = f[x] + Cardinality(A)
    BY <1>3, <1>4, <1>5, <1>6
  <1>. QED  BY <1>1, <1>6, <1>7 DEF A

\* Of the subsets of a finite set with some property, one is minimal.
LEMMA MinimalSubset ==
    ASSUME NEW S, IsFiniteSet(S), NEW T, T \subseteq SUBSET S, T # {}
    PROVE  \E s \in T : \A x \in s : s \ {x} \notin T
  <1>1. IsWellFoundedOn(StrictSubsetOrdering(S), SUBSET S)
    BY FS_StrictSubsetOrderingWellFounded, FS_FiniteSubsetsOfFinite
  <1>2. PICK s \in T : \A t \in T : ~ (<<t, s>> \in StrictSubsetOrdering(S))
    BY <1>1, WFMin
  <1>3. ASSUME NEW x \in s, s \ {x} \in T
        PROVE  FALSE
    <2>1. s \ {x} \subseteq s /\ s \ {x} # s /\ s \in SUBSET S /\ s \ {x} \in SUBSET S
      OBVIOUS
    <2>2. <<s \ {x}, s>> \in StrictSubsetOrdering(S)
      BY <2>1 DEF StrictSubsetOrdering
    <2>. QED  BY <1>2, <1>3, <2>2
  <1>. QED  BY <1>3

\* Finitely many elements have finitely many units.
LEMMA UnitsFinite ==
    ASSUME NEW f, NEW S, IsFiniteSet(S), \A x \in S : f[x] \in Nat
    PROVE  \A s \in SUBSET S : IsFiniteSet(Units(f, s))
  <1>. DEFINE T == {s \in SUBSET S : ~ IsFiniteSet(Units(f, s))}
  <1>1. ASSUME T # {} PROVE FALSE
    <2>1. PICK s \in T : \A x \in s : s \ {x} \notin T
      <3>. HIDE DEF T
      <3>1. T \subseteq SUBSET S
        BY DEF T
      <3>. QED  BY <1>1, <3>1, MinimalSubset
    <2>2. CASE s = {}
      <3>1. Units(f, s) = {}
        BY <2>2 DEF Units
      <3>. QED  BY <3>1, FS_EmptySet
    <2>3. CASE s # {}
      <3>1. PICK x \in s : TRUE
        BY <2>3
      <3>2. IsFiniteSet(s) /\ f[x] \in Nat
        BY FS_Subset
      <3>3. IsFiniteSet(Units(f, s \ {x}))
        BY <2>1
      <3>. QED  BY <3>2, <3>3, UnitsRemove
    <2>. QED  BY <2>2, <2>3
  <1>. QED  BY <1>1

\* A sum counts the units: the fold and the count satisfy one equation, and a
\* minimal set on which they differed would not be minimal.
LEMMA SumIsCount ==
    ASSUME NEW f, NEW S, IsFiniteSet(S), \A x \in S : f[x] \in Nat
    PROVE  SumFunctionOnSet(f, S) = Cardinality(Units(f, S))
  <1>. DEFINE count == [s \in SUBSET S |-> Cardinality(Units(f, s))]
              g == CHOOSE h : Adds(f, S, h)
              T == {s \in SUBSET S : g[s] # count[s]}
  <1>1. ASSUME NEW s \in SUBSET S
        PROVE  /\ s = {} => count[s] = 0
               /\ s # {} => /\ Pick(s) \in s
                            /\ count[s] = f[Pick(s)] + count[s \ {Pick(s)}]
    <2>1. s = {} => Units(f, s) = {}
      BY DEF Units
    <2>2. s = {} => count[s] = 0
      BY <2>1, FS_EmptySet
    <2>3. ASSUME s # {}
          PROVE  Pick(s) \in s /\ Cardinality(Units(f, s)) = f[Pick(s)] + Cardinality(Units(f, s \ {Pick(s)}))
      <3>1. Pick(s) \in s
        BY <2>3 DEF Pick
      <3>2. IsFiniteSet(s) /\ IsFiniteSet(Units(f, s \ {Pick(s)})) /\ f[Pick(s)] \in Nat
        <4>1. s \ {Pick(s)} \in SUBSET S
          OBVIOUS
        <4>. QED  BY <3>1, <4>1, FS_Subset, UnitsFinite
      <3>. QED  BY <3>1, <3>2, UnitsRemove
    <2>. QED  BY <2>2, <2>3
  <1>2. Adds(f, S, count)
    <2>1. \A s \in SUBSET S : count[s] = IF s = {} THEN 0 ELSE f[Pick(s)] + count[s \ {Pick(s)}]
      BY <1>1
    <2>. QED  BY <2>1 DEF Adds
  <1>3. Adds(f, S, g)
    <2>. HIDE DEF count
    <2>. QED BY <1>2
  <1>4. ASSUME T # {} PROVE FALSE
    <2>1. PICK s \in T : \A x \in s : s \ {x} \notin T
      <3>. HIDE DEF T
      <3>1. T \subseteq SUBSET S
        BY DEF T
      <3>. QED  BY <1>4, <3>1, MinimalSubset
    <2>2. g[s] = IF s = {} THEN 0 ELSE f[Pick(s)] + g[s \ {Pick(s)}]
      <3>. HIDE DEF g
      <3>1. g = [t \in SUBSET S |-> IF t = {} THEN 0 ELSE f[Pick(t)] + g[t \ {Pick(t)}]]
        BY <1>3 DEF Adds
      <3>2. s \in SUBSET S
        BY DEF T
      <3>. HIDE DEF T
      <3>. QED BY <3>1, <3>2
    <2>. QED  BY <1>1, <2>1, <2>2
  <1>5. g[S] = Cardinality(Units(f, S))
    BY <1>4
  <1>. QED  BY <1>5, Unfold

-----------------------------------------------------------------------------
\* A sum of naturals is one.
LEMMA SumType ==
    ASSUME NEW f, NEW S, IsFiniteSet(S), \A x \in S : f[x] \in Nat
    PROVE  SumFunctionOnSet(f, S) \in Nat
  BY SumIsCount, UnitsFinite, FS_CardinalityType

\* Nothing adds up to nothing.
LEMMA SumEmpty == \A f : SumFunctionOnSet(f, {}) = 0
  <1>1. ASSUME NEW f
        PROVE  SumFunctionOnSet(f, {}) = 0
    <2>1. Units(f, {}) = {} /\ IsFiniteSet({})
      BY FS_EmptySet DEF Units
    <2>2. SumFunctionOnSet(f, {}) = Cardinality(Units(f, {}))
      BY <2>1, SumIsCount
    <2>. QED  BY <2>1, <2>2, FS_EmptySet
  <1>. QED  BY <1>1

\* Taking an element away takes its value away.
LEMMA SumRemove ==
    ASSUME NEW f, NEW S, IsFiniteSet(S), \A y \in S : f[y] \in Nat, NEW x \in S
    PROVE  SumFunctionOnSet(f, S) = f[x] + SumFunctionOnSet(f, S \ {x})
  <1>1. IsFiniteSet(S \ {x}) /\ S \ {x} \in SUBSET S
    BY FS_RemoveElement
  <1>2. IsFiniteSet(Units(f, S \ {x}))
    BY <1>1, UnitsFinite
  <1>3. SumFunctionOnSet(f, S \ {x}) = Cardinality(Units(f, S \ {x}))
    BY <1>1, SumIsCount
  <1>. QED  BY <1>2, <1>3, SumIsCount, UnitsRemove

\* A new element adds its value.
LEMMA SumAdd ==
    ASSUME NEW f, NEW S, IsFiniteSet(S), NEW x, x \notin S, \A y \in S \cup {x} : f[y] \in Nat
    PROVE  SumFunctionOnSet(f, S \cup {x}) = f[x] + SumFunctionOnSet(f, S)
  <1>1. IsFiniteSet(S \cup {x}) /\ (S \cup {x}) \ {x} = S
    BY FS_AddElement
  <1>. QED  BY <1>1, SumRemove

\* A sum depends on the values it adds up, and on no others.
LEMMA SumSame ==
    ASSUME NEW f, NEW g, NEW S, IsFiniteSet(S), \A x \in S : f[x] \in Nat /\ g[x] = f[x]
    PROVE  SumFunctionOnSet(g, S) = SumFunctionOnSet(f, S)
  <1>1. Units(g, S) = Units(f, S)
    BY DEF Units
  <1>. QED  BY <1>1, SumIsCount

\* One value of it changes.
LEMMA SumChange ==
    ASSUME NEW f, NEW g, NEW S, IsFiniteSet(S), NEW x \in S,
           \A y \in S : f[y] \in Nat /\ g[y] \in Nat,
           \A y \in S \ {x} : g[y] = f[y]
    PROVE  SumFunctionOnSet(g, S) + f[x] = SumFunctionOnSet(f, S) + g[x]
  <1>1. IsFiniteSet(S \ {x})
    BY FS_RemoveElement
  <1>2. SumFunctionOnSet(g, S \ {x}) = SumFunctionOnSet(f, S \ {x})
    BY <1>1, SumSame
  <1>3. SumFunctionOnSet(f, S \ {x}) \in Nat
    BY <1>1, SumType
  <1>4. SumFunctionOnSet(f, S) = f[x] + SumFunctionOnSet(f, S \ {x})
    BY SumRemove
  <1>5. SumFunctionOnSet(g, S) = g[x] + SumFunctionOnSet(g, S \ {x})
    BY SumRemove
  <1>. QED  BY <1>2, <1>3, <1>4, <1>5

\* One part is at most the whole.
LEMMA SumBounds ==
    ASSUME NEW f, NEW S, IsFiniteSet(S), \A y \in S : f[y] \in Nat, NEW x \in S
    PROVE  f[x] <= SumFunctionOnSet(f, S)
  <1>1. IsFiniteSet(S \ {x})
    BY FS_RemoveElement
  <1>2. SumFunctionOnSet(f, S \ {x}) \in Nat
    BY <1>1, SumType
  <1>. QED  BY <1>2, SumRemove

\* A sum of nothing is nothing.
LEMMA SumOfZeros ==
    ASSUME NEW f, NEW S, IsFiniteSet(S), \A x \in S : f[x] = 0
    PROVE  SumFunctionOnSet(f, S) = 0
  <1>1. Units(f, S) = {}
    BY DEF Units
  <1>. QED  BY <1>1, SumIsCount, FS_EmptySet

=============================================================================
