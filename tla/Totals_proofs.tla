---------------------------- MODULE Totals_proofs ----------------------------
(***************************************************************************)
(* The laws of Total the other proofs cite.  Finiteness of a set of units  *)
(* is proved with a minimal counterexample over the finite subsets of S,   *)
(* the other laws from the cardinalities of unions and intervals.  From    *)
(* them follow partial sums, ranks in a finite order, the apportionment by *)
(* largest remainder, and the comparison of shares m / T with r / w that   *)
(* the division free arithmetic of hex-core rests on.                      *)
(***************************************************************************)
EXTENDS Totals, FiniteSetTheorems, FunctionTheorems, WellFoundedInduction, TLAPS

\* f gives every element of S a natural number.
NatOn(f, S) == \A x \in S : f[x] \in Nat

\* The units of one element are as many as its amount.
LEMMA UnitsOfOne ==
  ASSUME NEW f, NEW x, f[x] \in Nat
  PROVE  /\ IsFiniteSet(Units(f, {x}))
         /\ Total(f, {x}) = f[x]
<1> DEFINE I == 1 .. f[x]
           g == [n \in I |-> <<x, n>>]
<1>1. IsFiniteSet(I) /\ Cardinality(I) = f[x]
  BY SMTT(60), FS_Interval
<1>2. Units(f, {x}) = {x} \X I
  BY DEF Units
<1>3. g \in Bijection(I, {x} \X I)
  <2>1. g \in [I -> {x} \X I]
    OBVIOUS
  <2>2. \A a, b \in I : g[a] = g[b] => a = b
    OBVIOUS
  <2>3. \A t \in {x} \X I : \E n \in I : g[n] = t
    OBVIOUS
  <2> QED BY <2>1, <2>2, <2>3, Fun_IsBij DEF Surjection
<1>4. ExistsBijection(I, {x} \X I)
  BY <1>3 DEF ExistsBijection
<1>5. IsFiniteSet({x} \X I) /\ Cardinality({x} \X I) = Cardinality(I)
  BY <1>1, <1>4, FS_Bijection
<1> QED BY <1>1, <1>2, <1>5 DEF Total

\* The units of a union,
LEMMA UnitsSplit ==
  ASSUME NEW f, NEW S, NEW T
  PROVE  Units(f, S \cup T) = Units(f, S) \cup Units(f, T)
BY DEF Units

\* and of disjoint sets.
LEMMA UnitsDisjoint ==
  ASSUME NEW f, NEW S, NEW T, S \cap T = {}
  PROVE  Units(f, S) \cap Units(f, T) = {}
<1> SUFFICES ASSUME NEW u, u \in Units(f, S), u \in Units(f, T) PROVE FALSE
  OBVIOUS
<1>1. PICK x \in S : u \in {x} \X (1 .. f[x])
  BY DEF Units
<1>2. PICK y \in T : u \in {y} \X (1 .. f[y])
  BY DEF Units
<1>3. x = y
  BY <1>1, <1>2
<1> QED BY <1>3

\* The units of a finite set of natural amounts are finitely many.
LEMMA UnitsFinite ==
  ASSUME NEW f, NEW S, IsFiniteSet(S), NatOn(f, S)
  PROVE  IsFiniteSet(Units(f, S))
<1> DEFINE Bad == {T \in FiniteSubsetsOf(S) : ~ IsFiniteSet(Units(f, T))}
<1>1. SUFFICES Bad = {}
  BY <1>1, FS_FiniteSubsetsOfFinite
<1>2. SUFFICES ASSUME Bad # {} PROVE FALSE
  OBVIOUS
<1>3. IsWellFoundedOn(StrictSubsetOrdering(S), FiniteSubsetsOf(S))
  BY FS_StrictSubsetOrderingWellFounded
<1>4. PICK T \in Bad : \A U \in Bad : ~ (<<U, T>> \in StrictSubsetOrdering(S))
  <2>1. Bad \subseteq FiniteSubsetsOf(S)
    OBVIOUS
  <2> HIDE DEF Bad
  <2> QED BY <1>2, <1>3, <2>1, WFMin
<1>5. T \in SUBSET S /\ IsFiniteSet(T) /\ ~ IsFiniteSet(Units(f, T))
  BY DEF FiniteSubsetsOf
<1>6. T # {}
  <2>1. Units(f, {}) = {}
    BY DEF Units
  <2> QED BY <1>5, <2>1, FS_EmptySet
<1>7. PICK x \in T : TRUE
  BY <1>6
<1>8. T \ {x} \in FiniteSubsetsOf(S)
  BY <1>5, FS_RemoveElement DEF FiniteSubsetsOf
<1>9. <<T \ {x}, T>> \in StrictSubsetOrdering(S)
  BY <1>5, <1>7 DEF StrictSubsetOrdering
<1>10. IsFiniteSet(Units(f, T \ {x}))
  BY <1>4, <1>8, <1>9
<1>11. IsFiniteSet(Units(f, {x}))
  BY <1>5, UnitsOfOne DEF NatOn
<1>12. Units(f, T) = Units(f, T \ {x}) \cup Units(f, {x})
  <2>1. T = (T \ {x}) \cup {x}
    OBVIOUS
  <2> QED BY <2>1, UnitsSplit
<1> QED BY ZenonT(60), <1>5, <1>10, <1>11, <1>12, FS_Union

\* A sum of natural numbers is a natural number.
LEMMA TotalNat ==
  ASSUME NEW f, NEW S, IsFiniteSet(S), NatOn(f, S)
  PROVE  Total(f, S) \in Nat
BY UnitsFinite, FS_CardinalityType DEF Total

\* The empty sum.
LEMMA TotalEmpty ==
  ASSUME NEW f
  PROVE  Total(f, {}) = 0
BY FS_EmptySet DEF Total, Units

\* A sum over two disjoint sets splits.
LEMMA TotalSplit ==
  ASSUME NEW f, NEW S, NEW T, IsFiniteSet(S), IsFiniteSet(T), S \cap T = {},
         NatOn(f, S), NatOn(f, T)
  PROVE  Total(f, S \cup T) = Total(f, S) + Total(f, T)
<1>1. IsFiniteSet(Units(f, S)) /\ IsFiniteSet(Units(f, T))
  BY UnitsFinite
<1>2. Cardinality(Units(f, S) \cap Units(f, T)) = 0
  BY UnitsDisjoint, FS_EmptySet
<1>3. /\ Cardinality(Units(f, S)) \in Nat
      /\ Cardinality(Units(f, T)) \in Nat
  BY <1>1, FS_CardinalityType
<1>4. Cardinality(Units(f, S) \cup Units(f, T))
        = Cardinality(Units(f, S)) + Cardinality(Units(f, T)) - 0
  BY <1>1, <1>2, FS_Union
<1>5. Units(f, S \cup T) = Units(f, S) \cup Units(f, T)
  BY UnitsSplit
<1>6. /\ Total(f, S \cup T) = Cardinality(Units(f, S) \cup Units(f, T))
      /\ Total(f, S) = Cardinality(Units(f, S))
      /\ Total(f, T) = Cardinality(Units(f, T))
  BY <1>5 DEF Total
<1> HIDE DEF Total
<1> QED BY <1>3, <1>4, <1>6

\* Only the values on S matter.
LEMMA TotalCong ==
  ASSUME NEW f, NEW g, NEW S, \A x \in S : f[x] = g[x]
  PROVE  Total(f, S) = Total(g, S)
<1>1. Units(f, S) = Units(g, S)
  BY DEF Units
<1> QED BY <1>1 DEF Total

\* One element taken out of the sum.
LEMMA TotalRemove ==
  ASSUME NEW f, NEW S, IsFiniteSet(S), NatOn(f, S), NEW x \in S
  PROVE  /\ Total(f, S) = Total(f, S \ {x}) + f[x]
         /\ Total(f, S \ {x}) \in Nat
         /\ f[x] \in Nat
         /\ f[x] <= Total(f, S)
<1>1. IsFiniteSet(S \ {x}) /\ IsFiniteSet({x})
  BY FS_RemoveElement, FS_Singleton
<1>2. NatOn(f, S \ {x}) /\ NatOn(f, {x}) /\ f[x] \in Nat
  BY DEF NatOn
<1>3. (S \ {x}) \cup {x} = S /\ (S \ {x}) \cap {x} = {}
  OBVIOUS
<1>4. Total(f, (S \ {x}) \cup {x}) = Total(f, S \ {x}) + Total(f, {x})
  BY <1>1, <1>2, <1>3, TotalSplit
<1>5. Total(f, {x}) = f[x]
  BY <1>2, UnitsOfOne
<1>6. Total(f, S \ {x}) \in Nat
  BY <1>1, <1>2, TotalNat
<1> QED BY <1>2, <1>3, <1>4, <1>5, <1>6

\* The sum after one value changed from f[x] to g[x].
LEMMA TotalUpdate ==
  ASSUME NEW f, NEW g, NEW S, IsFiniteSet(S), NatOn(f, S), NatOn(g, S),
         NEW x \in S, \A y \in S \ {x} : f[y] = g[y]
  PROVE  Total(g, S) = Total(f, S) - f[x] + g[x]
<1>1. Total(f, S \ {x}) = Total(g, S \ {x})
  BY TotalCong
<1>2. Total(f, S) = Total(f, S \ {x}) + f[x]
  BY TotalRemove
<1>3. Total(g, S) = Total(g, S \ {x}) + g[x]
  BY TotalRemove
<1>4. Total(f, S \ {x}) \in Nat /\ f[x] \in Nat /\ g[x] \in Nat
  BY TotalRemove DEF NatOn
<1> QED BY <1>1, <1>2, <1>3, <1>4

\* The sum after two different values changed.
LEMMA TotalUpdate2 ==
  ASSUME NEW f, NEW g, NEW S, IsFiniteSet(S), NatOn(f, S), NatOn(g, S),
         NEW x \in S, NEW y \in S, x # y,
         \A z \in S \ {x, y} : f[z] = g[z]
  PROVE  Total(g, S) = Total(f, S) - f[x] - f[y] + g[x] + g[y]
<1>1. IsFiniteSet(S \ {x}) /\ NatOn(f, S \ {x}) /\ NatOn(g, S \ {x}) /\ y \in S \ {x}
  BY FS_RemoveElement DEF NatOn
<1>2. Total(g, S \ {x}) = Total(f, S \ {x}) - f[y] + g[y]
  <2>1. \A z \in (S \ {x}) \ {y} : f[z] = g[z]
    OBVIOUS
  <2> QED BY <1>1, <2>1, TotalUpdate
<1>3. Total(f, S) = Total(f, S \ {x}) + f[x]
  BY TotalRemove
<1>4. Total(g, S) = Total(g, S \ {x}) + g[x]
  BY TotalRemove
<1>5. /\ Total(f, S \ {x}) \in Nat /\ Total(g, S \ {x}) \in Nat
      /\ f[x] \in Nat /\ g[x] \in Nat /\ f[y] \in Nat /\ g[y] \in Nat
  BY TotalRemove DEF NatOn
<1> QED BY <1>2, <1>3, <1>4, <1>5

\* A sum is zero exactly when every value is.
LEMMA TotalZero ==
  ASSUME NEW f, NEW S, IsFiniteSet(S), NatOn(f, S)
  PROVE  Total(f, S) = 0 <=> \A x \in S : f[x] = 0
<1>1. ASSUME Total(f, S) = 0, NEW x \in S PROVE f[x] = 0
  <2>1. f[x] \in Nat /\ f[x] <= Total(f, S)
    BY TotalRemove
  <2> QED BY <1>1, <2>1
<1>2. ASSUME \A x \in S : f[x] = 0 PROVE Total(f, S) = 0
  <2>1. Units(f, S) = {}
    BY <1>2 DEF Units
  <2> QED BY <2>1, FS_EmptySet DEF Total
<1> QED BY <1>1, <1>2
\* Elements with nothing in them do not matter.
LEMMA TotalPositive ==
  ASSUME NEW f, NEW S, NatOn(f, S)
  PROVE  Total(f, {x \in S : f[x] > 0}) = Total(f, S)
<1>1. Units(f, {x \in S : f[x] > 0}) = Units(f, S)
  <2>1. ASSUME NEW x \in S, f[x] = 0 PROVE 1 .. f[x] = {}
    BY <2>1
  <2>2. \A x \in S : f[x] = 0 \/ f[x] > 0
    BY DEF NatOn
  <2> QED BY <2>1, <2>2 DEF Units
<1> QED BY <1>1 DEF Total

\* The sum grows with the values.
LEMMA TotalLeq ==
  ASSUME NEW f, NEW g, NEW S, IsFiniteSet(S), NatOn(f, S), NatOn(g, S),
         \A x \in S : f[x] <= g[x]
  PROVE  Total(f, S) <= Total(g, S)
<1>1. IsFiniteSet(Units(g, S))
  BY UnitsFinite
<1>2. Units(f, S) \subseteq Units(g, S)
  <2>1. \A x \in S : 1 .. f[x] \subseteq 1 .. g[x]
    BY DEF NatOn
  <2> QED BY <2>1 DEF Units
<1> QED BY <1>1, <1>2, FS_Subset DEF Total

\* The sum grows with the set.
LEMMA TotalSubset ==
  ASSUME NEW f, NEW S, IsFiniteSet(S), NatOn(f, S), NEW T \in SUBSET S
  PROVE  /\ Total(f, T) <= Total(f, S)
         /\ Total(f, T) \in Nat
<1>1. IsFiniteSet(Units(f, S)) /\ IsFiniteSet(T) /\ NatOn(f, T)
  BY UnitsFinite, FS_Subset DEF NatOn
<1>2. Units(f, T) \subseteq Units(f, S)
  BY DEF Units
<1> QED BY <1>1, <1>2, TotalNat, FS_Subset DEF Total

\* Renaming the elements keeps the sum.
LEMMA TotalRename ==
  ASSUME NEW f, NEW S, IsFiniteSet(S), NatOn(f, S), NEW g, NEW T,
         NEW b \in Bijection(S, T), \A x \in S : g[b[x]] = f[x]
  PROVE  Total(g, T) = Total(f, S)
<1>1. /\ b \in [S -> T]
      /\ \A x, y \in S : b[x] = b[y] => x = y
      /\ \A t \in T : \E x \in S : b[x] = t
  BY Fun_IsBij DEF Bijection, Injection, Surjection, IsInjective
<1> DEFINE h == [u \in Units(f, S) |-> <<b[u[1]], u[2]>>]
<1>2. \A u : u \in Units(f, S) <=> \E x \in S : \E n \in 1 .. f[x] : u = <<x, n>>
  BY DEF Units
<1>3. \A u : u \in Units(g, T) <=> \E t \in T : \E n \in 1 .. g[t] : u = <<t, n>>
  BY DEF Units
<1>4. h \in [Units(f, S) -> Units(g, T)]
  <2> SUFFICES ASSUME NEW u \in Units(f, S) PROVE <<b[u[1]], u[2]>> \in Units(g, T)
    OBVIOUS
  <2>1. PICK x \in S : \E n \in 1 .. f[x] : u = <<x, n>>
    BY <1>2
  <2>2. PICK n \in 1 .. f[x] : u = <<x, n>>
    BY <2>1
  <2>3. b[x] \in T /\ n \in 1 .. g[b[x]]
    BY <1>1
  <2> QED BY <1>3, <2>2, <2>3
<1>5. \A u, v \in Units(f, S) : h[u] = h[v] => u = v
  <2> TAKE u, v \in Units(f, S)
  <2>1. PICK x \in S : \E n \in 1 .. f[x] : u = <<x, n>>
    BY <1>2
  <2>2. PICK y \in S : \E m \in 1 .. f[y] : v = <<y, m>>
    BY <1>2
  <2>3. /\ \E n \in 1 .. f[x] : u = <<x, n>> /\ h[u] = <<b[x], n>>
        /\ \E m \in 1 .. f[y] : v = <<y, m>> /\ h[v] = <<b[y], m>>
    BY <2>1, <2>2
  <2> QED BY <1>1, <2>3
<1>6. \A w \in Units(g, T) : \E u \in Units(f, S) : h[u] = w
  <2> TAKE w \in Units(g, T)
  <2>0. PICK t \in T : \E n \in 1 .. g[t] : w = <<t, n>>
    BY <1>3
  <2>1. PICK n \in 1 .. g[t] : w = <<t, n>>
    BY <2>0
  <2>2. PICK x \in S : b[x] = t
    BY <1>1
  <2>3. n \in 1 .. f[x]
    BY <2>1, <2>2
  <2>4. <<x, n>> \in Units(f, S)
    BY <1>2, <2>3
  <2> QED BY <2>1, <2>2, <2>4
<1> HIDE DEF h
<1>7. ExistsBijection(Units(f, S), Units(g, T))
  BY <1>4, <1>5, <1>6, Fun_IsBij DEF ExistsBijection, Surjection
<1>8. Cardinality(Units(g, T)) = Cardinality(Units(f, S))
  BY <1>7, UnitsFinite, FS_Bijection
<1> QED BY <1>8 DEF Total

\* Summing class by class.
LEMMA TotalClasses ==
  ASSUME NEW f, NEW X, IsFiniteSet(X), NatOn(f, X), NEW h, NEW C, IsFiniteSet(C)
  PROVE  Total([c \in C |-> Total(f, {x \in X : h[x] = c})], C)
           = Total(f, {x \in X : h[x] \in C})
<1> DEFINE class(D) == {x \in X : h[x] \in D}
           one(c) == {x \in X : h[x] = c}
           g == [c \in C |-> Total(f, one(c))]
           Bad == {D \in FiniteSubsetsOf(C) : Total(g, D) # Total(f, class(D))}
<1>1. SUFFICES Bad = {}
  BY <1>1, FS_FiniteSubsetsOfFinite DEF FiniteSubsetsOf
<1>2. SUFFICES ASSUME Bad # {} PROVE FALSE
  OBVIOUS
<1>3. IsWellFoundedOn(StrictSubsetOrdering(C), FiniteSubsetsOf(C))
  BY FS_StrictSubsetOrderingWellFounded
<1>4. PICK D \in Bad : \A E \in Bad : ~ (<<E, D>> \in StrictSubsetOrdering(C))
  <2>1. Bad \subseteq FiniteSubsetsOf(C)
    OBVIOUS
  <2> HIDE DEF Bad
  <2> QED BY <1>2, <1>3, <2>1, WFMin
<1>5. D \in SUBSET C /\ IsFiniteSet(D) /\ Total(g, D) # Total(f, class(D))
  BY DEF FiniteSubsetsOf
<1>6. D # {}
  <2>1. class({}) = {}
    OBVIOUS
  <2> QED BY <1>5, <2>1, TotalEmpty
<1>7. PICK c \in D : TRUE
  BY <1>6
<1>8. D \ {c} \in FiniteSubsetsOf(C) /\ <<D \ {c}, D>> \in StrictSubsetOrdering(C)
  BY <1>5, <1>7, FS_RemoveElement DEF FiniteSubsetsOf, StrictSubsetOrdering
<1>9. Total(g, D \ {c}) = Total(f, class(D \ {c}))
  BY <1>4, <1>8
<1>10. NatOn(g, D) /\ g[c] = Total(f, one(c)) /\ g[c] \in Nat
  <2>1. \A d : IsFiniteSet(one(d)) /\ NatOn(f, one(d))
    <3> TAKE d
    <3>1. one(d) \in SUBSET X
      OBVIOUS
    <3> QED BY <3>1, FS_Subset DEF NatOn
  <2>2. \A d : Total(f, one(d)) \in Nat
    <3> HIDE DEF one
    <3> QED BY <2>1, TotalNat
  <2> QED BY <1>5, <1>7, <2>2 DEF NatOn
<1>11. Total(g, D) = Total(g, D \ {c}) + g[c]
  <2> HIDE DEF g
  <2> QED BY <1>5, <1>7, <1>10, TotalRemove
<1>12. Total(f, class(D)) = Total(f, class(D \ {c})) + Total(f, one(c))
  <2>1. class(D \ {c}) \cup one(c) = class(D) /\ class(D \ {c}) \cap one(c) = {}
    BY <1>7
  <2>2. class(D \ {c}) \in SUBSET X /\ one(c) \in SUBSET X
    OBVIOUS
  <2>3. /\ IsFiniteSet(class(D \ {c})) /\ IsFiniteSet(one(c))
        /\ NatOn(f, class(D \ {c})) /\ NatOn(f, one(c))
    BY <2>2, FS_Subset DEF NatOn
  <2> HIDE DEF class, one
  <2>4. Total(f, class(D \ {c}) \cup one(c)) = Total(f, class(D \ {c})) + Total(f, one(c))
    BY <2>1, <2>3, TotalSplit
  <2> QED BY <2>1, <2>4
<1> QED BY <1>5, <1>9, <1>10, <1>11, <1>12

-----------------------------------------------------------------------------
(* The least and the greatest of some natural numbers.                     *)

\* A set of naturals has a least element.
LEMMA FirstFacts ==
  ASSUME NEW S \in SUBSET Nat, S # {}
  PROVE  First(S) \in S /\ \A n \in S : First(S) <= n
<1>1. PICK top \in S : TRUE
  OBVIOUS
<1> DEFINE below(n) == 0 .. n
           B == {below(n) : n \in {n \in S : n <= top}}
<1>2. B \subseteq FiniteSubsetsOf(below(top)) /\ B # {}
  <2>1. \A n \in S : n <= top => below(n) \in SUBSET below(top) /\ IsFiniteSet(below(n))
    <3> TAKE n \in S
    <3>1. n \in Nat /\ top \in Nat
      OBVIOUS
    <3>2. IsFiniteSet(below(n))
      BY <3>1, FS_Interval
    <3> QED BY <3>1, <3>2
  <2> QED BY <1>1, <2>1 DEF FiniteSubsetsOf
<1>3. IsWellFoundedOn(StrictSubsetOrdering(below(top)), FiniteSubsetsOf(below(top)))
  <2>1. IsFiniteSet(below(top))
    BY <1>1, FS_Interval
  <2> QED BY <2>1, FS_StrictSubsetOrderingWellFounded
<1>4. PICK X \in B : \A Y \in B : ~ (<<Y, X>> \in StrictSubsetOrdering(below(top)))
  <2> HIDE DEF B, below
  <2> QED BY <1>2, <1>3, WFMin
<1>5. PICK m \in S : m <= top /\ X = below(m)
  BY <1>4
<1>6. ASSUME NEW n \in S, n < m PROVE FALSE
  <2>1. n \in Nat /\ m \in Nat /\ top \in Nat /\ n <= top
    BY <1>5, <1>6
  <2>2. below(n) \in B
    BY <2>1
  <2>3. below(n) \subseteq below(m) /\ below(n) # below(m) /\ below(m) \subseteq below(top)
    <3>1. m \in below(m) /\ m \notin below(n)
      BY <1>6, <2>1
    <3> QED BY <1>5, <1>6, <2>1, <3>1
  <2>4. <<below(n), below(m)>> \in StrictSubsetOrdering(below(top))
    BY <2>3 DEF StrictSubsetOrdering
  <2> QED BY <1>4, <1>5, <2>2, <2>4
<1>7. \A n \in S : m <= n
  <2> TAKE n \in S
  <2>1. n \in Nat /\ m \in Nat
    OBVIOUS
  <2> QED BY <1>6, <2>1
<1> QED BY <1>5, <1>7 DEF First

\* A finite set of integers has a greatest one.
LEMMA LastExists ==
  ASSUME NEW S \in SUBSET Nat, S # {}, NEW top \in Nat, \A n \in S : n <= top
  PROVE  \E m \in S : \A n \in S : n <= m
<1> DEFINE R == {top - n : n \in S}
<1>1. R \in SUBSET Nat /\ R # {}
  <2>1. \A n \in S : top - n \in Nat
    OBVIOUS
  <2> QED BY <2>1
<1>2. First(R) \in R /\ \A r \in R : First(R) <= r
  <2> HIDE DEF R
  <2> QED BY <1>1, FirstFacts
<1>3. PICK m \in S : First(R) = top - m
  BY <1>2
<1>4. \A n \in S : top - m <= top - n
  BY <1>2, <1>3
<1> QED BY <1>4

\* The sum of a sum of two amounts.
LEMMA TotalAdd ==
  ASSUME NEW f, NEW g, NEW h, NEW S, IsFiniteSet(S), NatOn(f, S), NatOn(g, S),
         \A x \in S : h[x] = f[x] + g[x]
  PROVE  Total(h, S) = Total(f, S) + Total(g, S)
<1>0. NatOn(h, S)
  BY DEF NatOn
<1> DEFINE Bad == {T \in FiniteSubsetsOf(S) : Total(h, T) # Total(f, T) + Total(g, T)}
<1>1. SUFFICES Bad = {}
  BY <1>1, FS_FiniteSubsetsOfFinite DEF FiniteSubsetsOf
<1>2. SUFFICES ASSUME Bad # {} PROVE FALSE
  OBVIOUS
<1>3. IsWellFoundedOn(StrictSubsetOrdering(S), FiniteSubsetsOf(S))
  BY FS_StrictSubsetOrderingWellFounded
<1>4. PICK T \in Bad : \A U \in Bad : ~ (<<U, T>> \in StrictSubsetOrdering(S))
  <2>1. Bad \subseteq FiniteSubsetsOf(S)
    OBVIOUS
  <2> HIDE DEF Bad
  <2> QED BY <1>2, <1>3, <2>1, WFMin
<1>5. T \in SUBSET S /\ IsFiniteSet(T) /\ Total(h, T) # Total(f, T) + Total(g, T)
  BY DEF FiniteSubsetsOf
<1>6. T # {}
  <2>1. Total(h, {}) = 0 /\ Total(f, {}) = 0 /\ Total(g, {}) = 0
    BY TotalEmpty
  <2> QED BY <1>5, <2>1
<1>7. PICK x \in T : TRUE
  BY <1>6
<1>8. T \ {x} \in FiniteSubsetsOf(S) /\ <<T \ {x}, T>> \in StrictSubsetOrdering(S)
  BY <1>5, <1>7, FS_RemoveElement DEF FiniteSubsetsOf, StrictSubsetOrdering
<1>9. Total(h, T \ {x}) = Total(f, T \ {x}) + Total(g, T \ {x})
  BY <1>4, <1>8
<1>10. NatOn(f, T) /\ NatOn(g, T) /\ NatOn(h, T)
  BY <1>0, <1>5 DEF NatOn
<1>11. /\ Total(f, T) = Total(f, T \ {x}) + f[x] /\ Total(f, T \ {x}) \in Nat /\ f[x] \in Nat
       /\ Total(g, T) = Total(g, T \ {x}) + g[x] /\ Total(g, T \ {x}) \in Nat /\ g[x] \in Nat
       /\ Total(h, T) = Total(h, T \ {x}) + h[x]
  BY <1>5, <1>7, <1>10, TotalRemove
<1>12. h[x] = f[x] + g[x]
  BY <1>5, <1>7
<1> QED BY <1>5, <1>9, <1>11, <1>12

-----------------------------------------------------------------------------

-----------------------------------------------------------------------------
(* Induction, over the members of a set instead of a predicate.            *)

\* What holds of the empty set, and of a set if it does without one of its elements,
\* holds of every finite set (a minimal counterexample; G is the set of the subsets
\* that it holds of).
LEMMA SubsetInduction ==
  ASSUME NEW S, IsFiniteSet(S), NEW G, {} \in G,
         \A T \in SUBSET S : \A x \in T : T \ {x} \in G => T \in G
  PROVE  S \in G
<1> DEFINE Bad == {T \in FiniteSubsetsOf(S) : T \notin G}
<1>1. SUFFICES Bad = {}
  BY <1>1, FS_FiniteSubsetsOfFinite DEF FiniteSubsetsOf
<1>2. SUFFICES ASSUME Bad # {} PROVE FALSE
  OBVIOUS
<1>3. IsWellFoundedOn(StrictSubsetOrdering(S), FiniteSubsetsOf(S))
  BY FS_StrictSubsetOrderingWellFounded
<1>4. PICK T \in Bad : \A U \in Bad : ~ (<<U, T>> \in StrictSubsetOrdering(S))
  <2>1. Bad \subseteq FiniteSubsetsOf(S)
    OBVIOUS
  <2> HIDE DEF Bad
  <2> QED BY <1>2, <1>3, <2>1, WFMin
<1>5. T \in SUBSET S /\ IsFiniteSet(T) /\ T \notin G /\ T # {}
  BY DEF FiniteSubsetsOf
<1>6. PICK x \in T : TRUE
  BY <1>5
<1>7. T \ {x} \in FiniteSubsetsOf(S) /\ <<T \ {x}, T>> \in StrictSubsetOrdering(S)
  BY <1>5, <1>6, FS_RemoveElement DEF FiniteSubsetsOf, StrictSubsetOrdering
<1> QED BY <1>4, <1>5, <1>7

\* The same for the naturals.
LEMMA CountInduction ==
  ASSUME NEW G, 0 \in G, \A n \in Nat : n \in G => n + 1 \in G
  PROVE  \A n \in Nat : n \in G
<1> DEFINE Bad == {n \in Nat : n \notin G}
<1>1. SUFFICES ASSUME Bad # {} PROVE FALSE
  OBVIOUS
<1>2. First(Bad) \in Bad /\ \A n \in Bad : First(Bad) <= n
  <2>1. Bad \in SUBSET Nat
    OBVIOUS
  <2> HIDE DEF Bad
  <2> QED BY <1>1, <2>1, FirstFacts
<1>3. PICK m \in Nat : m = First(Bad)
  BY <1>2
<1>4. m \notin G /\ m # 0
  BY <1>2, <1>3
<1>5. m - 1 \in Nat /\ m - 1 \notin G /\ m - 1 < m
  BY <1>4
<1> QED BY <1>2, <1>3, <1>5

-----------------------------------------------------------------------------
(* More about sums.                                                        *)

\* A common factor.
LEMMA TotalScale ==
  ASSUME NEW f, NEW g, NEW S, IsFiniteSet(S), NatOn(f, S), NEW k \in Nat,
         \A x \in S : g[x] = k * f[x]
  PROVE  Total(g, S) = k * Total(f, S)
<1>0. NatOn(g, S)
  BY DEF NatOn
<1> DEFINE G == {T \in SUBSET S : Total(g, T) = k * Total(f, T)}
<1>1. {} \in G
  BY TotalEmpty
<1>2. \A T \in SUBSET S : \A x \in T : T \ {x} \in G => T \in G
  <2> TAKE T \in SUBSET S
  <2> TAKE x \in T
  <2> HAVE T \ {x} \in G
  <2>1. IsFiniteSet(T) /\ NatOn(f, T) /\ NatOn(g, T)
    BY <1>0, FS_Subset DEF NatOn
  <2>2. /\ Total(f, T) = Total(f, T \ {x}) + f[x] /\ Total(f, T \ {x}) \in Nat /\ f[x] \in Nat
        /\ Total(g, T) = Total(g, T \ {x}) + g[x] /\ Total(g, T \ {x}) \in Nat
    BY <2>1, TotalRemove
  <2>3. g[x] = k * f[x] /\ Total(g, T \ {x}) = k * Total(f, T \ {x})
    OBVIOUS
  <2>4. \A a, b \in Nat : k * (a + b) = k * a + k * b
    OBVIOUS
  <2> QED BY <2>2, <2>3, <2>4
<1>3. S \in G
  <2> HIDE DEF G
  <2> QED BY <1>1, <1>2, SubsetInduction
<1> QED BY <1>3

\* As many times the same.
LEMMA TotalConstant ==
  ASSUME NEW f, NEW S, IsFiniteSet(S), NEW k \in Nat, \A x \in S : f[x] = k
  PROVE  Total(f, S) = k * Cardinality(S)
<1> DEFINE one == [x \in S |-> 1]
           unit == [x \in S |-> <<x, 1>>]
<1>1. NatOn(one, S)
  BY DEF NatOn
<1>2. Units(one, S) = {<<x, 1>> : x \in S}
  <2>1. Units(one, S) = UNION {{x} \X (1 .. 1) : x \in S}
    BY DEF Units
  <2>2. 1 .. 1 = {1}
    OBVIOUS
  <2> QED BY <2>1, <2>2
<1>3. unit \in Bijection(S, Units(one, S))
  <2>1. unit \in [S -> Units(one, S)]
    BY <1>2
  <2>2. \A x, y \in S : unit[x] = unit[y] => x = y
    OBVIOUS
  <2>3. \A u \in Units(one, S) : \E x \in S : unit[x] = u
    BY <1>2
  <2> QED BY <2>1, <2>2, <2>3, Fun_IsBij
<1>4. Total(one, S) = Cardinality(S)
  BY <1>3, FS_Bijection DEF ExistsBijection, Total
<1>5. \A x \in S : f[x] = k * one[x]
  OBVIOUS
<1> HIDE DEF one
<1> QED BY <1>1, <1>4, <1>5, TotalScale

\* Adding up to each place of an interval.
LEMMA TotalPrefix ==
  ASSUME NEW f, NEW a \in Int, NEW n \in Int, a <= n, NatOn(f, a .. n)
  PROVE  /\ Total(f, a .. n) = Total(f, a .. n - 1) + f[n]
         /\ Total(f, a .. n - 1) \in Nat /\ f[n] \in Nat
<1>1. n \in a .. n /\ (a .. n) \ {n} = a .. n - 1
  OBVIOUS
<1>2. IsFiniteSet(a .. n)
  BY FS_Interval
<1> DEFINE S == a .. n
<1>3. n \in S /\ S \ {n} = a .. n - 1 /\ IsFiniteSet(S) /\ NatOn(f, S)
  BY <1>1, <1>2
<1> HIDE DEF S
<1>4. /\ Total(f, S) = Total(f, S \ {n}) + f[n]
      /\ Total(f, S \ {n}) \in Nat /\ f[n] \in Nat
  BY <1>3, TotalRemove
<1> QED BY <1>3, <1>4 DEF S

\* A sum whose partial sums are P.
LEMMA Telescope ==
  ASSUME NEW a \in Int, NEW b \in Int, a - 1 <= b, NEW f, NatOn(f, a .. b), NEW P,
         \A n \in a - 1 .. b : P[n] \in Nat, P[a - 1] = 0, \A n \in a .. b : P[n] = P[n - 1] + f[n]
  PROVE  Total(f, a .. b) = P[b]
<1> DEFINE G == {k \in Nat : a - 1 + k <= b => Total(f, a .. a - 1 + k) = P[a - 1 + k]}
<1>1. 0 \in G
  <2>1. a .. a - 1 + 0 = {}
    OBVIOUS
  <2>2. Total(f, a .. a - 1 + 0) = 0
    BY <2>1, TotalEmpty
  <2>3. P[a - 1 + 0] = 0
    OBVIOUS
  <2> QED BY <2>2, <2>3
<1>2. \A k \in Nat : k \in G => k + 1 \in G
  <2> SUFFICES ASSUME NEW k \in Nat, k \in G, a - 1 + (k + 1) <= b
               PROVE  Total(f, a .. a - 1 + (k + 1)) = P[a - 1 + (k + 1)]
    OBVIOUS
  <2> DEFINE n == a - 1 + (k + 1)
  <2>1. n \in Int /\ a <= n /\ n \in a .. b /\ n - 1 = a - 1 + k /\ n - 1 \in a - 1 .. b
    OBVIOUS
  <2>2. Total(f, a .. n - 1) = P[n - 1]
    BY <2>1
  <2>3. NatOn(f, a .. n)
    BY <2>1 DEF NatOn
  <2>4. P[n] = P[n - 1] + f[n]
    BY <2>1
  <2> HIDE DEF n
  <2>5. Total(f, a .. n) = P[n]
    BY <2>1, <2>2, <2>3, <2>4, TotalPrefix
  <2> QED BY <2>5 DEF n
<1>3. b - (a - 1) \in G
  <2>1. b - (a - 1) \in Nat
    OBVIOUS
  <2> HIDE DEF G
  <2> QED BY <1>1, <1>2, <2>1, CountInduction
<1>4. a - 1 + (b - (a - 1)) = b
  OBVIOUS
<1> QED BY <1>3, <1>4

-----------------------------------------------------------------------------
(* Ranks.                                                                  *)

\* As many naturals are below n.
LEMMA CountBelow ==
  ASSUME NEW n \in Nat
  PROVE  IsFiniteSet(0 .. n - 1) /\ Cardinality(0 .. n - 1) = n
<1>1. 0 \in Int /\ n - 1 \in Int
  OBVIOUS
<1> DEFINE m == n - 1
<1>2. IsFiniteSet(0 .. m) /\ Cardinality(0 .. m) = IF 0 > m THEN 0 ELSE m - 0 + 1
  <2> HIDE DEF m
  <2>1. m \in Int
    BY <1>1 DEF m
  <2> QED BY <2>1, FS_Interval
<1> QED BY <1>2

\* Where distinct ranks are given to all, each rank is taken.
LEMMA RankTaken ==
  ASSUME NEW C, IsFiniteSet(C), NEW rank, \A i \in C : rank[i] \in 0 .. Cardinality(C) - 1,
         \A i, j \in C : rank[i] = rank[j] => i = j, NEW t \in 0 .. Cardinality(C) - 1
  PROVE  \E i \in C : rank[i] = t
<1> DEFINE n == Cardinality(C)
           all == [i \in C |-> rank[i]]
<1>1. n \in Nat
  BY FS_CardinalityType
<1>5. all \in Bijection(C, 0 .. n - 1)
  <2>1. all \in Injection(C, 0 .. n - 1)
    BY Fun_IsInj
  <2>2. IsFiniteSet(0 .. n - 1) /\ Cardinality(0 .. n - 1) = n
    BY <1>1, CountBelow
  <2>3. all \in Surjection(C, 0 .. n - 1)
    BY <2>1, <2>2, FS_Surjection, FS_Injection
  <2> QED BY <2>1, <2>3 DEF Bijection
<1>2. PICK i \in C : all[i] = t
  BY <1>5, Fun_IsBij DEF Bijection, Surjection
<1> QED BY <1>2

\* As many as k have a rank below k.
LEMMA RankedBelow ==
  ASSUME NEW C, IsFiniteSet(C), NEW rank, \A i \in C : rank[i] \in 0 .. Cardinality(C) - 1,
         \A i, j \in C : rank[i] = rank[j] => i = j, NEW k \in 0 .. Cardinality(C)
  PROVE  Cardinality({i \in C : rank[i] < k}) = k
<1> DEFINE n == Cardinality(C)
<1>1. n \in Nat
  BY FS_CardinalityType
<1> DEFINE S == {i \in C : rank[i] < k}
           low == [i \in S |-> rank[i]]
<1>6. low \in Bijection(S, 0 .. k - 1)
  <2>1. \A t \in 0 .. k - 1 : \E i \in S : low[i] = t
    <3> TAKE t \in 0 .. k - 1
    <3>1. t \in 0 .. n - 1
      BY <1>1
    <3>2. PICK i \in C : rank[i] = t
      BY <3>1, RankTaken
    <3> QED BY <3>2
  <2>2. low \in [S -> 0 .. k - 1]
    BY <1>1
  <2>3. \A i, j \in S : low[i] = low[j] => i = j
    OBVIOUS
  <2> HIDE DEF S, low
  <2> QED BY <2>1, <2>2, <2>3, Fun_IsBij
<1>7. IsFiniteSet(S) /\ k \in Nat /\ IsFiniteSet(0 .. k - 1) /\ Cardinality(0 .. k - 1) = k
  <2>1. S \subseteq C
    OBVIOUS
  <2>2. IsFiniteSet(S)
    <3> HIDE DEF S
    <3> QED BY <2>1, FS_Subset
  <2>3. k \in Nat
    BY <1>1
  <2> HIDE DEF S, low, n
  <2> QED BY <2>2, <2>3, CountBelow
<1> HIDE DEF S, low
<1>8. Cardinality(S) = k
  BY <1>6, <1>7, FS_Bijection DEF ExistsBijection
<1> QED BY <1>8 DEF S

\* A strict order on C, given by who is ahead of each.
StrictlyOrdered(ahead, C) ==
  /\ \A i \in C : ahead[i] \in SUBSET C /\ i \notin ahead[i]
  /\ \A i, j \in C : i # j => i \in ahead[j] \/ j \in ahead[i]
  /\ \A i, j \in C : j \in ahead[i] => ahead[j] \subseteq ahead[i]

\* In a finite strict order the number of those ahead is a rank.
LEMMA AheadRanks ==
  ASSUME NEW C, IsFiniteSet(C), NEW ahead, StrictlyOrdered(ahead, C)
  PROVE  /\ \A i \in C : /\ IsFiniteSet(ahead[i])
                         /\ Cardinality(ahead[i]) \in 0 .. Cardinality(C) - 1
         /\ \A i, j \in C : j \in ahead[i] => Cardinality(ahead[j]) < Cardinality(ahead[i])
<1> DEFINE n == Cardinality(C)
<1>1. n \in Nat
  BY FS_CardinalityType
<1>2. \A i \in C : IsFiniteSet(ahead[i]) /\ Cardinality(ahead[i]) \in 0 .. n - 1
  <2> TAKE i \in C
  <2>1. ahead[i] \subseteq C \ {i} /\ IsFiniteSet(C \ {i}) /\ Cardinality(C \ {i}) = n - 1
    BY FS_RemoveElement DEF StrictlyOrdered
  <2>2. IsFiniteSet(ahead[i]) /\ Cardinality(ahead[i]) <= n - 1 /\ Cardinality(ahead[i]) \in Nat
    BY <2>1, FS_Subset, FS_CardinalityType
  <2> QED BY <1>1, <2>2
<1>3. \A i, j \in C : j \in ahead[i] => Cardinality(ahead[j]) < Cardinality(ahead[i])
  <2> TAKE i, j \in C
  <2> HAVE j \in ahead[i]
  <2>1. ahead[j] \subseteq ahead[i] \ {j}
    BY DEF StrictlyOrdered
  <2>2. IsFiniteSet(ahead[i] \ {j}) /\ Cardinality(ahead[i] \ {j}) = Cardinality(ahead[i]) - 1
    BY <1>2, FS_RemoveElement
  <2>3. Cardinality(ahead[j]) <= Cardinality(ahead[i]) - 1
    BY <2>1, <2>2, FS_Subset
  <2> QED BY <1>1, <1>2, <2>3
<1> QED BY <1>2, <1>3

\* The first k are as many as k.
LEMMA FirstOnes ==
  ASSUME NEW C, IsFiniteSet(C), NEW ahead, StrictlyOrdered(ahead, C), NEW k \in 0 .. Cardinality(C)
  PROVE  Cardinality({i \in C : Cardinality(ahead[i]) < k}) = k
<1> DEFINE rank == [i \in C |-> Cardinality(ahead[i])]
<1>1. /\ \A i \in C : Cardinality(ahead[i]) \in 0 .. Cardinality(C) - 1
      /\ \A i, j \in C : j \in ahead[i] => Cardinality(ahead[j]) < Cardinality(ahead[i])
  BY AheadRanks
<1>2. /\ \A i \in C : rank[i] \in 0 .. Cardinality(C) - 1
      /\ \A i, j \in C : j \in ahead[i] => rank[j] < rank[i]
  BY <1>1
<1>4. \A i, j \in C : rank[i] = rank[j] => i = j
  BY <1>2, FS_CardinalityType DEF StrictlyOrdered
<1>5. {i \in C : Cardinality(ahead[i]) < k} = {i \in C : rank[i] < k}
  OBVIOUS
<1>6. Cardinality({i \in C : rank[i] < k}) = k
  <2> HIDE DEF rank
  <2> QED BY <1>2, <1>4, RankedBelow
<1> QED BY <1>5, <1>6

-----------------------------------------------------------------------------

\* A sum of ones counts them.
LEMMA TotalOnes ==
  ASSUME NEW f, NEW S, IsFiniteSet(S), \A x \in S : f[x] \in {0, 1}
  PROVE  Total(f, S) = Cardinality({x \in S : f[x] = 1})
<1> DEFINE T == {x \in S : f[x] > 0}
<1>1. NatOn(f, S)
  BY DEF NatOn
<1>2. Total(f, T) = Total(f, S)
  BY <1>1, TotalPositive
<1>3. T = {x \in S : f[x] = 1} /\ T \subseteq S /\ \A x \in T : f[x] = 1
  OBVIOUS
<1> HIDE DEF T
<1>4. IsFiniteSet(T) /\ Cardinality(T) \in Nat
  BY <1>3, FS_Subset, FS_CardinalityType
<1>5. Total(f, T) = 1 * Cardinality(T)
  BY <1>3, <1>4, TotalConstant
<1> QED BY <1>2, <1>3, <1>4, <1>5

\* A product that the provers see only where its definition is cited.
Product(a, b) == a * b

\* Products are natural.
LEMMA ProductNat ==
  ASSUME NEW a \in Nat, NEW b \in Nat
  PROVE  Product(a, b) \in Nat
BY DEF Product

\* Division with a positive divisor.
LEMMA Division ==
  ASSUME NEW a \in Nat, NEW b \in Nat, b > 0
  PROVE  /\ a \div b \in Nat /\ a % b \in Nat /\ a % b < b
         /\ a = b * (a \div b) + (a % b)
OBVIOUS

\* A number and a part of it.
LEMMA PartWithin ==
  ASSUME NEW x \in Nat, NEW y \in Nat, NEW r \in Nat, NEW s \in Nat, x = y + r, r < s
  PROVE  y <= x /\ x < y + s /\ (r > 0 => y < x)
OBVIOUS

\* Products of naturals keep the order.
LEMMA TimesLeq ==
  ASSUME NEW a \in Nat, NEW b \in Nat, NEW k \in Nat, a <= b
  PROVE  k * a \in Nat /\ k * b \in Nat /\ k * a <= k * b
<1>1. PICK d \in Nat : b = a + d
  <2>1. b - a \in Nat /\ b = a + (b - a)
    OBVIOUS
  <2> QED BY <2>1
<1>2. k * b = k * a + k * d
  BY <1>1
<1>3. k * a \in Nat /\ k * d \in Nat /\ k * b \in Nat
  OBVIOUS
<1> QED BY <1>2, <1>3

\* Whose weight is greater, its share rounded down is not less, and its remainder
\* is greater if the shares agree.
LEMMA HeavierShare ==
  ASSUME NEW m \in Nat, NEW sum \in Nat, NEW w \in Nat, NEW v \in Nat, w > v,
         NEW f \in Nat, NEW g \in Nat,
         Product(sum, f) <= Product(m, w), Product(m, w) < Product(sum, f) + sum,
         Product(sum, g) <= Product(m, v), Product(m, v) < Product(sum, g) + sum
  PROVE  /\ g <= f
         /\ m # 0 /\ g = f => Product(m, v) - Product(sum, g) < Product(m, w) - Product(sum, f)
<1>0. /\ m * w \in Nat /\ m * v \in Nat /\ sum * f \in Nat /\ sum * g \in Nat
      /\ sum * f <= m * w /\ m * w < sum * f + sum
      /\ sum * g <= m * v /\ m * v < sum * g + sum
  BY DEF Product
<1>1. m * v <= m * w /\ (m # 0 => m * v < m * w)
  <2> DEFINE d == w - v
  <2>1. d \in Nat /\ d >= 1 /\ w = v + d
    OBVIOUS
  <2> HIDE DEF d
  <2>2. m * w = m * v + m * d
    BY <2>1
  <2>3. m * 1 <= m * d /\ m * d \in Nat
    BY <2>1, TimesLeq
  <2>4. m * 1 = m
    OBVIOUS
  <2> QED BY <1>0, <2>2, <2>3, <2>4
<1>2. g <= f
  <2> SUFFICES ASSUME f + 1 <= g PROVE FALSE
    OBVIOUS
  <2>1. f + 1 \in Nat
    OBVIOUS
  <2>2. sum * (f + 1) <= sum * g
    BY <2>1, TimesLeq
  <2>3. sum * (f + 1) = sum * f + sum
    OBVIOUS
  <2> QED BY <1>0, <1>1, <2>2, <2>3
<1>3. ASSUME m # 0, g = f PROVE m * v - sum * g < m * w - sum * f
  <2>1. sum * f = sum * g
    BY <1>3
  <2> QED BY <1>0, <1>1, <1>3, <2>1
<1> QED BY <1>2, <1>3 DEF Product

\* Apportionment by the largest remainder: the shares of m by the weights w are
\* rounded down, and what this leaves over goes to the first ones of an order.
Floors(m, w, C) == [i \in C |-> (m * w[i]) \div Total(w, C)]
Rests(m, w, C) == [i \in C |-> (m * w[i]) % Total(w, C)]
Rounded(m, w, C, ahead) ==
  [i \in C |-> Floors(m, w, C)[i]
               + (IF Cardinality(ahead[i]) < m - Total(Floors(m, w, C), C) THEN 1 ELSE 0)]

\* The exact share is the one rounded down and a remainder.
LEMMA FloorsAndRests ==
  ASSUME NEW C, IsFiniteSet(C), NEW w, NatOn(w, C), NEW m \in Nat, Total(w, C) > 0
  PROVE  /\ NatOn(Floors(m, w, C), C) /\ NatOn(Rests(m, w, C), C)
         /\ \A i \in C :
              /\ Product(m, w[i]) = Product(Total(w, C), Floors(m, w, C)[i]) + Rests(m, w, C)[i]
              /\ Rests(m, w, C)[i] < Total(w, C)
<1> DEFINE sum == Total(w, C)
           floor == Floors(m, w, C)
           rest == Rests(m, w, C)
<1>1. sum \in Nat
  BY TotalNat
<1>2. \A i \in C : floor[i] = (m * w[i]) \div sum /\ rest[i] = (m * w[i]) % sum
  BY DEF Floors, Rests
<1> HIDE DEF sum, floor, rest
<1>3. ASSUME NEW i \in C
      PROVE  /\ floor[i] \in Nat /\ rest[i] \in Nat /\ rest[i] < sum
             /\ Product(m, w[i]) = Product(sum, floor[i]) + rest[i]
  <2>1. w[i] \in Nat
    BY DEF NatOn
  <2>2. m * w[i] \in Nat
    BY <2>1
  <2> DEFINE a == m * w[i]
  <2>3. a \in Nat /\ floor[i] = a \div sum /\ rest[i] = a % sum /\ sum > 0
    BY <1>2, <2>2 DEF sum
  <2> HIDE DEF a
  <2>4. a \div sum \in Nat /\ a % sum \in Nat /\ a % sum < sum /\ a = sum * (a \div sum) + (a % sum)
    BY <1>1, <2>3, Division
  <2> QED BY <2>3, <2>4, Zenon DEF a, Product
<1>4. NatOn(floor, C) /\ NatOn(rest, C)
  BY <1>3 DEF NatOn
<1> QED BY <1>3, <1>4 DEF sum, floor, rest

\* If the order puts larger remainders first, all of m is given out, to each its
\* exact share rounded up or down, and up only if there is a remainder.
LEMMA LargestRemainder ==
  ASSUME NEW C, IsFiniteSet(C), NEW w, NatOn(w, C), NEW m \in Nat, Total(w, C) > 0,
         NEW ahead, StrictlyOrdered(ahead, C),
         \A i, j \in C : j \in ahead[i] => Rests(m, w, C)[j] >= Rests(m, w, C)[i]
  PROVE  /\ NatOn(Rounded(m, w, C, ahead), C)
         /\ Total(Rounded(m, w, C, ahead), C) = m
         /\ m - Total(Floors(m, w, C), C) \in 0 .. Cardinality(C)
         /\ \A i \in C :
              /\ Rounded(m, w, C, ahead)[i] \in {Floors(m, w, C)[i], Floors(m, w, C)[i] + 1}
              /\ Rounded(m, w, C, ahead)[i] > Floors(m, w, C)[i] => Rests(m, w, C)[i] > 0
<1> DEFINE sum == Total(w, C)
           floor == Floors(m, w, C)
           rest == Rests(m, w, C)
           got == Rounded(m, w, C, ahead)
<1>a. /\ NatOn(floor, C) /\ NatOn(rest, C)
      /\ \A i \in C : Product(m, w[i]) = Product(sum, floor[i]) + rest[i] /\ rest[i] < sum
  BY FloorsAndRests
<1>b. \A i, j \in C : j \in ahead[i] => rest[j] >= rest[i]
  OBVIOUS
<1>c. \A i \in C : got[i] = floor[i] + (IF Cardinality(ahead[i]) < m - Total(floor, C)
                                        THEN 1 ELSE 0)
  BY DEF Rounded
<1>d. sum \in Nat /\ sum > 0 /\ sum = Total(w, C)
  BY TotalNat
<1> HIDE DEF sum, floor, rest, got
<1> USE <1>d
<1> DEFINE prod == [i \in C |-> m * w[i]]
           big == [i \in C |-> sum * floor[i]]
           n == Cardinality(C)
           P == {i \in C : rest[i] > 0}
           p == Cardinality(P)
           F == Total(floor, C)
           R == Total(rest, C)
<1>1. \A i \in C : /\ w[i] \in Nat /\ m * w[i] \in Nat /\ floor[i] \in Nat /\ rest[i] \in Nat
                   /\ rest[i] < sum /\ m * w[i] = sum * floor[i] + rest[i]
                   /\ sum * floor[i] \in Nat
  <2> TAKE i \in C
  <2>1. w[i] \in Nat /\ floor[i] \in Nat /\ rest[i] \in Nat /\ rest[i] < sum
    BY <1>a DEF NatOn
  <2>2. m * w[i] \in Nat /\ sum * floor[i] \in Nat
    BY <1>d, <2>1
  <2>3. m * w[i] = sum * floor[i] + rest[i]
    BY <1>a DEF Product
  <2> QED BY <2>1, <2>2, <2>3
<1>2. NatOn(floor, C) /\ NatOn(rest, C) /\ NatOn(prod, C) /\ NatOn(big, C)
  BY <1>1 DEF NatOn
<1>3. F \in Nat /\ R \in Nat
  BY <1>a, TotalNat
<1>4. Total(prod, C) = m * sum
  <2>1. \A i \in C : prod[i] = m * w[i]
    OBVIOUS
  <2> HIDE DEF prod
  <2> QED BY <2>1, TotalScale
<1>5. Total(big, C) = sum * F
  <2>1. \A i \in C : big[i] = sum * floor[i]
    OBVIOUS
  <2> HIDE DEF big
  <2> QED BY <1>2, <2>1, TotalScale
<1>6. Total(prod, C) = Total(big, C) + R
  <2>1. \A i \in C : prod[i] = big[i] + rest[i]
    BY <1>1
  <2> HIDE DEF prod, big
  <2> QED BY <1>2, <2>1, TotalAdd
<1>7. m * sum = sum * F + R
  BY <1>4, <1>5, <1>6
<1>8. n \in Nat /\ IsFiniteSet(P) /\ p \in Nat /\ p <= n
  <2>1. P \subseteq C
    OBVIOUS
  <2> HIDE DEF P
  <2> QED BY <2>1, FS_Subset, FS_CardinalityType
<1>9. R <= sum * p
  <2> DEFINE top == [i \in P |-> sum]
  <2>1. Total(rest, P) = R
    BY <1>2, TotalPositive
  <2>2. Total(top, P) = sum * p
    <3>1. \A i \in P : top[i] = sum
      OBVIOUS
    <3> HIDE DEF top, P
    <3> QED BY <1>8, <3>1, TotalConstant
  <2>3. NatOn(rest, P) /\ NatOn(top, P) /\ \A i \in P : rest[i] <= top[i]
    BY <1>1 DEF NatOn
  <2> HIDE DEF top, P
  <2>4. Total(rest, P) <= Total(top, P)
    BY <1>8, <2>3, TotalLeq
  <2> QED BY <2>1, <2>2, <2>4
<1>10. m - F \in 0 .. p
  <2> HIDE DEF F, R, p, P, n
  <2>1. F <= m
    <3> SUFFICES ASSUME m < F PROVE FALSE
      BY <1>3
    <3>1. m + 1 <= F /\ m + 1 \in Nat
      BY <1>3
    <3>2. sum * (m + 1) <= sum * F
      BY <1>3, <3>1, TimesLeq
    <3>3. sum * (m + 1) = m * sum + sum
      OBVIOUS
    <3>4. m * sum \in Nat /\ sum * F \in Nat
      BY <1>3
    <3> QED BY <1>3, <1>7, <3>2, <3>3, <3>4
  <2>2. m <= F + p
    <3> SUFFICES ASSUME F + p < m PROVE FALSE
      BY <1>3, <1>8
    <3>1. F + p + 1 <= m /\ F + p + 1 \in Nat
      BY <1>3, <1>8
    <3>2. sum * (F + p + 1) <= sum * m
      BY <3>1, TimesLeq
    <3>3. sum * (F + p + 1) = sum * F + sum * p + sum
      BY <1>3, <1>8
    <3>4. sum * F \in Nat /\ sum * p \in Nat /\ m * sum = sum * m /\ sum * m \in Nat
      BY <1>3, <1>8
    <3> QED BY <1>3, <1>7, <1>9, <3>2, <3>3, <3>4
  <2> QED BY <1>3, <1>8, <2>1, <2>2
<1> DEFINE spare == m - F
           E == {i \in C : Cardinality(ahead[i]) < spare}
<1>11. spare \in 0 .. n
  BY <1>8, <1>10
<1>12. Cardinality(E) = spare
  <2> HIDE DEF spare
  <2> QED BY <1>11, FirstOnes
<1>13. \A i \in C : Cardinality(ahead[i]) < spare => rest[i] > 0
  <2> SUFFICES ASSUME NEW i \in C, Cardinality(ahead[i]) < spare, rest[i] = 0 PROVE FALSE
    BY <1>1
  <2>1. P \subseteq ahead[i]
    <3> SUFFICES ASSUME NEW j \in P PROVE j \in ahead[i]
      OBVIOUS
    <3>1. j \in C /\ rest[j] > 0 /\ j # i
      OBVIOUS
    <3>2. i \notin ahead[j]
      <4> SUFFICES ASSUME i \in ahead[j] PROVE FALSE
        OBVIOUS
      <4>1. rest[i] >= rest[j]
        BY <1>b, <3>1
      <4> QED BY <1>1, <3>1, <4>1
    <3> QED BY <3>1, <3>2 DEF StrictlyOrdered
  <2>2. IsFiniteSet(ahead[i])
    BY FS_Subset DEF StrictlyOrdered
  <2>3. p <= Cardinality(ahead[i]) /\ Cardinality(ahead[i]) \in Nat
    <3> HIDE DEF P
    <3> QED BY <2>1, <2>2, FS_Subset, FS_CardinalityType
  <2> HIDE DEF spare, p
  <2> QED BY <1>8, <1>10, <2>3 DEF spare
<1> DEFINE one == [i \in C |-> IF Cardinality(ahead[i]) < spare THEN 1 ELSE 0]
<1>14. Total(one, C) = spare
  <2>1. \A i \in C : one[i] \in {0, 1}
    OBVIOUS
  <2>2. {i \in C : one[i] = 1} = E
    OBVIOUS
  <2> HIDE DEF one, E, spare
  <2> QED BY <1>12, <2>1, <2>2, TotalOnes
<1>15. NatOn(one, C) /\ \A i \in C : got[i] = floor[i] + one[i]
  BY <1>c DEF NatOn
<1>16. Total(got, C) = m
  <2> HIDE DEF one, spare, F
  <2>1. Total(got, C) = F + spare
    BY <1>2, <1>14, <1>15, TotalAdd DEF F
  <2> QED BY <1>3, <2>1 DEF spare
<1>17. NatOn(got, C) /\ \A i \in C : got[i] \in {floor[i], floor[i] + 1}
  BY <1>1, <1>c DEF NatOn
<1>18. \A i \in C : got[i] > floor[i] => rest[i] > 0
  <2> TAKE i \in C
  <2> HAVE got[i] > floor[i]
  <2>1. Cardinality(ahead[i]) < spare
    BY <1>1, <1>c
  <2> QED BY <1>13, <2>1
<1>19. m - Total(floor, C) \in 0 .. Cardinality(C)
  BY <1>11
<1> HIDE DEF prod, big, n, P, p, F, R, spare, E, one
<1> QED BY <1>16, <1>17, <1>18, <1>19 DEF floor, rest, got

-----------------------------------------------------------------------------

\* The laws of products of naturals.
LEMMA ProductSwap ==
  ASSUME NEW a \in Nat, NEW b \in Nat
  PROVE  Product(a, b) = Product(b, a)
BY DEF Product

\* A product with a sum.
LEMMA ProductSplit ==
  ASSUME NEW a \in Nat, NEW b \in Nat, NEW c \in Nat
  PROVE  /\ Product(a, b + c) = Product(a, b) + Product(a, c)
         /\ Product(b + c, a) = Product(b, a) + Product(c, a)
BY DEF Product

\* A product of three.
LEMMA ProductTurn ==
  ASSUME NEW a \in Nat, NEW b \in Nat, NEW c \in Nat
  PROVE  Product(Product(a, b), c) = Product(Product(a, c), b)
BY DEF Product

\* A product grows with its first factor,
LEMMA ProductLeq ==
  ASSUME NEW a \in Nat, NEW b \in Nat, NEW k \in Nat, a <= b
  PROVE  Product(a, k) <= Product(b, k)
<1>1. k * a <= k * b
  BY TimesLeq
<1>2. Product(a, k) = k * a /\ Product(b, k) = k * b
  BY DEF Product
<1> QED BY <1>1, <1>2

\* and strictly if the other one is positive.
LEMMA ProductLess ==
  ASSUME NEW a \in Nat, NEW b \in Nat, NEW k \in Nat \ {0}, a < b
  PROVE  Product(a, k) < Product(b, k)
<1>1. k * (a + 1) <= k * b
  BY TimesLeq
<1>2. k * (a + 1) = k * a + k
  OBVIOUS
<1>3. k * a \in Nat /\ k * b \in Nat
  OBVIOUS
<1>4. Product(a, k) = k * a /\ Product(b, k) = k * b
  BY DEF Product
<1> QED BY <1>1, <1>2, <1>3, <1>4

\* And the other way round.
LEMMA ProductCancel ==
  ASSUME NEW a \in Nat, NEW b \in Nat, NEW k \in Nat
  PROVE  /\ Product(a, k) < Product(b, k) => a < b
         /\ k > 0 /\ Product(a, k) <= Product(b, k) => a <= b
<1>1. ASSUME Product(a, k) < Product(b, k) PROVE a < b
  <2> SUFFICES ASSUME b <= a PROVE FALSE
    OBVIOUS
  <2>1. Product(b, k) <= Product(a, k)
    BY ProductLeq
  <2>2. Product(b, k) \in Nat /\ Product(a, k) \in Nat
    BY ProductNat
  <2> QED BY <1>1, <2>1, <2>2
<1>2. ASSUME k > 0, Product(a, k) <= Product(b, k) PROVE a <= b
  <2> SUFFICES ASSUME b < a PROVE FALSE
    OBVIOUS
  <2>1. Product(b, k) < Product(a, k)
    BY <1>2, ProductLess
  <2>2. Product(b, k) \in Nat /\ Product(a, k) \in Nat
    BY ProductNat
  <2> QED BY <1>2, <2>1, <2>2
<1> QED BY <1>1, <1>2

\* A level m / T rises when a part whose rooms R are below it is filled: what is
\* left over is shared by the others, whose scores are Q.
LEMMA LevelRises ==
  ASSUME NEW m \in Nat, NEW R \in Nat, NEW S \in Nat, NEW Q \in Nat, NEW T \in Nat, T = S + Q,
         Product(R, T) < Product(m, S)
  PROVE  T > 0 /\ R < m /\ m - R \in Nat /\ Product(m, Q) < Product(m - R, T)
<1>1. /\ Product(m, S) \in Nat /\ Product(m, Q) \in Nat /\ Product(m, T) \in Nat
      /\ Product(R, T) \in Nat
  BY ProductNat
<1>2. Product(m, T) = Product(m, S) + Product(m, Q)
  BY ProductSplit
<1>3. Product(R, T) < Product(m, T)
  BY <1>1, <1>2
<1>4. R < m
  BY <1>3, ProductCancel
<1>5. m - R \in Nat /\ m = (m - R) + R
  BY <1>4
<1>6. Product(m, T) = Product(m - R, T) + Product(R, T) /\ Product(m - R, T) \in Nat
  <2> DEFINE n == m - R
  <2>1. n \in Nat /\ m = n + R
    BY <1>5
  <2> HIDE DEF n
  <2>2. Product(n + R, T) = Product(n, T) + Product(R, T) /\ Product(n, T) \in Nat
    <3>1. n \in Nat
      BY <2>1
    <3>2. Product(n, T) \in Nat
      BY <3>1, ProductNat
    <3>3. Product(n + R, T) = Product(n, T) + Product(R, T)
      BY <3>1, ProductSplit
    <3> QED BY <3>2, <3>3
  <2>3. Product(m, T) = Product(n, T) + Product(R, T) /\ Product(n, T) \in Nat
    BY <2>1, <2>2
  <2> QED BY <2>3 DEF n
<1>7. T > 0
  <2> SUFFICES ASSUME T = 0 PROVE FALSE
    OBVIOUS
  <2>1. Product(m, T) = 0
    BY DEF Product
  <2> QED BY <1>1, <1>3, <2>1
<1> QED BY <1>1, <1>2, <1>4, <1>5, <1>6, <1>7

\* Who is below a level is below a higher one.
LEMMA LevelAbove ==
  ASSUME NEW m \in Nat, NEW T \in Nat, NEW n \in Nat, NEW Q \in Nat, T > 0,
         Product(m, Q) < Product(n, T),
         NEW r \in Nat, NEW s \in Nat, Product(r, T) < Product(m, s)
  PROVE  Product(r, Q) < Product(n, s) /\ s > 0
<1>1. s > 0
  <2> SUFFICES ASSUME s = 0 PROVE FALSE
    OBVIOUS
  <2>1. Product(m, s) = 0 /\ Product(r, T) \in Nat
    BY ProductNat DEF Product
  <2> QED BY <2>1
<1>0. /\ Product(r, T) \in Nat /\ Product(m, s) \in Nat /\ Product(m, Q) \in Nat
      /\ Product(n, T) \in Nat /\ Product(r, Q) \in Nat /\ Product(n, s) \in Nat
  BY ProductNat
<1>2. Product(Product(r, T), Q) <= Product(Product(m, s), Q)
  BY <1>0, ProductLeq
<1>3. Product(Product(m, Q), s) < Product(Product(n, T), s)
  BY <1>0, <1>1, ProductLess
<1>4. /\ Product(Product(r, T), Q) = Product(Product(r, Q), T)
      /\ Product(Product(m, s), Q) = Product(Product(m, Q), s)
      /\ Product(Product(n, T), s) = Product(Product(n, s), T)
  BY ProductTurn
<1>5. /\ Product(Product(r, Q), T) \in Nat /\ Product(Product(n, s), T) \in Nat
      /\ Product(Product(m, Q), s) \in Nat
  BY <1>0, ProductNat
<1>6. Product(Product(r, Q), T) < Product(Product(n, s), T)
  BY <1>2, <1>3, <1>4, <1>5
<1> QED BY <1>0, <1>1, <1>6, ProductCancel

\* Below a level and above it: t - 1 is below the level for s, u + 1 is not below
\* it for v.
LEMMA AcrossLevel ==
  ASSUME NEW m \in Nat, NEW T \in Nat, NEW t \in Nat, NEW s \in Nat, NEW u \in Nat, NEW v \in Nat,
         s > 0, t > 0, Product(t - 1, T) < Product(m, s), Product(m, v) <= Product(u + 1, T)
  PROVE  Product(t - 1, v) < Product(u + 1, s)
<1>0. /\ t - 1 \in Nat /\ u + 1 \in Nat
      /\ Product(t - 1, T) \in Nat /\ Product(m, s) \in Nat /\ Product(m, v) \in Nat
      /\ Product(u + 1, T) \in Nat /\ Product(t - 1, v) \in Nat /\ Product(u + 1, s) \in Nat
  <2>1. t - 1 \in Nat /\ u + 1 \in Nat
    OBVIOUS
  <2> QED BY <2>1, ProductNat
<1>1. CASE v = 0
  <2>1. Product(t - 1, v) = 0
    BY <1>0, <1>1 DEF Product
  <2>2. Product(0, s) < Product(u + 1, s)
    BY <1>0, ProductLess
  <2>3. Product(0, s) = 0
    BY DEF Product
  <2> QED BY <2>1, <2>2, <2>3
<1>2. CASE v > 0
  <2>1. Product(Product(t - 1, T), v) < Product(Product(m, s), v)
    BY <1>0, <1>2, ProductLess
  <2>2. Product(Product(m, v), s) <= Product(Product(u + 1, T), s)
    BY <1>0, ProductLeq
  <2>3. /\ Product(Product(t - 1, T), v) = Product(Product(t - 1, v), T)
        /\ Product(Product(m, s), v) = Product(Product(m, v), s)
        /\ Product(Product(u + 1, T), s) = Product(Product(u + 1, s), T)
    BY <1>0, ProductTurn
  <2>4. /\ Product(Product(t - 1, v), T) \in Nat /\ Product(Product(m, v), s) \in Nat
        /\ Product(Product(u + 1, s), T) \in Nat
    BY <1>0, ProductNat
  <2>5. Product(Product(t - 1, v), T) < Product(Product(u + 1, s), T)
    BY <2>1, <2>2, <2>3, <2>4
  <2> QED BY <1>0, <2>5, ProductCancel
<1> QED BY <1>1, <1>2

\* The smaller of two values above a level is above it.
LEMMA LeastAbove ==
  ASSUME NEW a \in Nat, NEW b \in Nat, NEW T \in Nat, NEW k \in Nat,
         k <= Product(a, T), k <= Product(b, T)
  PROVE  k <= Product(Least(a, b), T)
BY DEF Least

\* The same level for two: r is not below it for s, f is not below it for v.
LEMMA BothAbove ==
  ASSUME NEW m \in Nat, NEW T \in Nat, NEW s \in Nat, NEW v \in Nat, NEW r \in Nat, NEW f \in Nat,
         Product(m, s) <= Product(r, T), Product(m, v) <= Product(f, T)
  PROVE  Product(Product(m, s), v) <= Product(Least(Product(r, v), Product(f, s)), T)
<1>0. /\ Product(m, s) \in Nat /\ Product(m, v) \in Nat /\ Product(r, T) \in Nat
      /\ Product(f, T) \in Nat /\ Product(r, v) \in Nat /\ Product(f, s) \in Nat
      /\ Product(Product(m, s), v) \in Nat
  BY ProductNat
<1>1. Product(Product(m, s), v) <= Product(Product(r, T), v)
  BY <1>0, ProductLeq
<1>2. Product(Product(m, v), s) <= Product(Product(f, T), s)
  BY <1>0, ProductLeq
<1>3. /\ Product(Product(m, v), s) = Product(Product(m, s), v)
      /\ Product(Product(r, T), v) = Product(Product(r, v), T)
      /\ Product(Product(f, T), s) = Product(Product(f, s), T)
  BY ProductTurn
<1> QED BY <1>0, <1>1, <1>2, <1>3, LeastAbove

\* A cell that the level fills: its room is what counts.
LEMMA FilledAbove ==
  ASSUME NEW m \in Nat, NEW T \in Nat, NEW s \in Nat, NEW v \in Nat, NEW r \in Nat, NEW f \in Nat,
         Product(r, T) < Product(m, s), Product(m, v) <= Product(f, T), T > 0
  PROVE  Least(Product(r, v), Product(f, s)) = Product(r, v)
<1>0. /\ Product(m, s) \in Nat /\ Product(m, v) \in Nat /\ Product(r, T) \in Nat
      /\ Product(f, T) \in Nat /\ Product(r, v) \in Nat /\ Product(f, s) \in Nat
  BY ProductNat
<1>1. Product(Product(r, T), v) <= Product(Product(m, s), v)
  BY <1>0, ProductLeq
<1>2. Product(Product(m, v), s) <= Product(Product(f, T), s)
  BY <1>0, ProductLeq
<1>3. /\ Product(Product(m, v), s) = Product(Product(m, s), v)
      /\ Product(Product(r, T), v) = Product(Product(r, v), T)
      /\ Product(Product(f, T), s) = Product(Product(f, s), T)
  BY ProductTurn
<1>4. /\ Product(Product(m, s), v) \in Nat /\ Product(Product(r, v), T) \in Nat
      /\ Product(Product(f, s), T) \in Nat
  BY <1>0, ProductNat
<1>5. Product(Product(r, v), T) <= Product(Product(f, s), T)
  BY <1>1, <1>2, <1>3, <1>4
<1>6. Product(r, v) <= Product(f, s)
  BY <1>0, <1>5, ProductCancel
<1> QED BY <1>6 DEF Least
=============================================================================
