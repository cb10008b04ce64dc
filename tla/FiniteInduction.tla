----------------------------- MODULE FiniteInduction ---------------------------
(***************************************************************************)
(* Facts about finite sets that the proofs of this project share: a finite *)
(* order has a first element, and a sum over a finite set is a count.      *)
(*                                                                         *)
(* The provers have no induction over data.  It is had here from the       *)
(* strict inclusion of the subsets of a finite set, which the library      *)
(* shows to be well-founded: a counterexample would have a least one.      *)
(***************************************************************************)
EXTENDS FiniteSets, Integers, Functions, FiniteSetTheorems, WellFoundedInduction, TLAPS

--------------------------------------------------------------------------------
(* Least elements *)

\* Among subsets of a finite set there is one that includes no other.
LEMMA LeastSet ==
  ASSUME NEW S, IsFiniteSet(S), NEW T, T \subseteq SUBSET S, T # {}
  PROVE  \E x \in T : \A y \in T : ~ (y \subseteq x /\ y # x)
<1>1. T \subseteq FiniteSubsetsOf(S)
  BY FS_Subset DEF FiniteSubsetsOf
<1>2. \E x \in T : \A y \in T : ~ (<<y, x>> \in StrictSubsetOrdering(S))
  BY <1>1, FS_StrictSubsetOrderingWellFounded, WFMin
<1> QED
  BY <1>2 DEF StrictSubsetOrdering

\* A strict order on a finite set has an element with none before it.
THEOREM FirstElement ==
  ASSUME NEW S, IsFiniteSet(S), S # {}, NEW R,
         \A x \in S : <<x, x>> \notin R,
         \A x, y, z \in S : <<x, y>> \in R /\ <<y, z>> \in R => <<x, z>> \in R
  PROVE  \E x \in S : \A y \in S : <<y, x>> \notin R
<1> DEFINE earlier(x) == {y \in S : <<y, x>> \in R}
           T == {earlier(x) : x \in S}
<1>1. T # {} /\ T \subseteq SUBSET S
  <2>1. PICK e \in S : TRUE
    OBVIOUS
  <2>2. earlier(e) \in T
    BY <2>1
  <2>3. ASSUME NEW t \in T PROVE t \subseteq S
    OBVIOUS
  <2> HIDE DEF T
  <2> QED
    BY <2>2, <2>3
<1>2. \E u \in T : \A v \in T : ~ (v \subseteq u /\ v # u)
  <2> HIDE DEF T
  <2> QED
    BY ONLY <1>1, IsFiniteSet(S), LeastSet
<1>3. PICK x \in S : \A y \in S : ~ (earlier(y) \subseteq earlier(x) /\ earlier(y) # earlier(x))
  <2>1. PICK u \in T : \A v \in T : ~ (v \subseteq u /\ v # u)
    BY <1>2
  <2>2. PICK x \in S : u = earlier(x)
    OBVIOUS
  <2>3. \A y \in S : earlier(y) \in T
    OBVIOUS
  <2> HIDE DEF T, earlier
  <2> QED
    BY <2>1, <2>2, <2>3
<1>4. ASSUME NEW y \in S, <<y, x>> \in R PROVE FALSE
  <2>1. earlier(y) \subseteq earlier(x) /\ y \in earlier(x) /\ y \notin earlier(y)
    BY <1>4
  <2> QED
    BY <1>3, <2>1
<1> QED
  BY <1>4

--------------------------------------------------------------------------------
(* Sums *)

\* The first n numbers are n.
LEMMA FirstNumbers ==
  ASSUME NEW n \in Nat
  PROVE  IsFiniteSet(1 .. n) /\ Cardinality(1 .. n) = n
<1>1. 1 \in Int /\ n \in Int
  OBVIOUS
<1>2. IsFiniteSet(1 .. n) /\ Cardinality(1 .. n) = IF 1 > n THEN 0 ELSE n - 1 + 1
  BY <1>1, FS_Interval
<1> QED
  BY <1>2

\* As many units for each element as the function gives it.
UnitsOf(f, S) == UNION {{x} \X (1 .. f[x]) : x \in S}

\* They are finitely many.
LEMMA UnitsFinite ==
  ASSUME NEW f, NEW S, IsFiniteSet(S), \A y \in S : f[y] \in Nat
  PROVE  IsFiniteSet(UnitsOf(f, S))
<1> DEFINE column(y) == {y} \X (1 .. f[y])
           C == {column(y) : y \in S}
<1>1. ASSUME NEW y \in S PROVE IsFiniteSet(column(y))
  BY FS_Singleton, FS_Product, FirstNumbers
<1>2. IsFiniteSet(C)
  <2> DEFINE g == [y \in S |-> column(y)]
  <2>1. g \in Surjection(S, C)
    BY DEF Surjection
  <2> HIDE DEF C
  <2> QED
    BY <2>1, FS_Surjection DEF ExistsSurjection
<1>3. \A c \in C : IsFiniteSet(c)
  BY <1>1
<1> HIDE DEF C
<1>4. IsFiniteSet(UNION C)
  BY <1>2, <1>3, FS_UNION
<1> QED
  BY <1>4 DEF UnitsOf, C

\* One element more adds its units.
LEMMA UnitsAdd ==
  ASSUME NEW f, NEW S, IsFiniteSet(S), NEW x, x \notin S,
         \A y \in S \cup {x} : f[y] \in Nat
  PROVE  /\ IsFiniteSet(UnitsOf(f, S))
         /\ Cardinality(UnitsOf(f, S \cup {x})) = Cardinality(UnitsOf(f, S)) + f[x]
<1> DEFINE column(y) == {y} \X (1 .. f[y])
<1>1. ASSUME NEW y \in S \cup {x}
      PROVE  IsFiniteSet(column(y)) /\ Cardinality(column(y)) = f[y]
  <2>1. IsFiniteSet({y}) /\ Cardinality({y}) = 1
    BY FS_Singleton
  <2>2. IsFiniteSet(1 .. f[y]) /\ Cardinality(1 .. f[y]) = f[y]
    <3>1. f[y] \in Nat
      OBVIOUS
    <3> QED
      BY <3>1, FirstNumbers
  <2>3. /\ IsFiniteSet({y} \X (1 .. f[y]))
        /\ Cardinality({y} \X (1 .. f[y])) = Cardinality({y}) * Cardinality(1 .. f[y])
    BY ONLY <2>1, <2>2, FS_Product
  <2> QED
    BY <2>1, <2>2, <2>3
<1>2. IsFiniteSet(UnitsOf(f, S))
  BY UnitsFinite
<1>3. UnitsOf(f, S \cup {x}) = UnitsOf(f, S) \cup column(x)
  BY DEF UnitsOf
<1>4. UnitsOf(f, S) \cap column(x) = {}
  BY DEF UnitsOf
<1> HIDE DEF column
<1>5. IsFiniteSet(column(x)) /\ Cardinality(column(x)) = f[x]
  BY <1>1
<1>6. Cardinality(UnitsOf(f, S) \cup column(x))
        = Cardinality(UnitsOf(f, S)) + Cardinality(column(x)) - Cardinality({})
  BY ONLY <1>2, <1>4, <1>5, FS_Union
<1>7. Cardinality({}) = 0 /\ Cardinality(UnitsOf(f, S)) \in Nat
  BY <1>2, FS_EmptySet, FS_CardinalityType
<1>8. f[x] \in Nat
  OBVIOUS
<1>9. Cardinality(UnitsOf(f, S \cup {x})) = Cardinality(UnitsOf(f, S) \cup column(x))
  BY <1>3
<1> QED
  BY ONLY <1>2, <1>5, <1>6, <1>7, <1>8, <1>9

\* A sum is the number of units: the fold by which it is defined takes the elements
\* in an order of its own, and takes each once.
THEOREM SumCounts ==
  ASSUME NEW f, NEW S, IsFiniteSet(S), \A y \in S : f[y] \in Nat
  PROVE  SumFunctionOnSet(f, S) = Cardinality(UnitsOf(f, S))
<1> DEFINE c(s) == CHOOSE x \in s : TRUE
           rule(g) == [s \in SUBSET S |-> IF s = {} THEN 0 ELSE f[c(s)] + g[s \ {c(s)}]]
           size == [s \in SUBSET S |-> Cardinality(UnitsOf(f, s))]
           iter == CHOOSE g : g = rule(g)
<1>1. SumFunctionOnSet(f, S) = iter[S]
  BY DEF SumFunctionOnSet, FoldFunctionOnSet, MapThenFoldSet
<1>2. size = rule(size)
  <2>1. ASSUME NEW s \in SUBSET S
        PROVE  size[s] = rule(size)[s]
    <3>1. CASE s = {}
      <4>1. UnitsOf(f, s) = {}
        BY <3>1 DEF UnitsOf
      <4> QED
        BY <3>1, <4>1, FS_EmptySet
    <3>2. CASE s # {}
      <4> DEFINE x == c(s)
                 r == s \ {x}
      <4>1. x \in s
        BY <3>2
      <4> HIDE DEF x
      <4>2. IsFiniteSet(r) /\ x \notin r /\ r \cup {x} = s /\ r \in SUBSET S
        BY <4>1, FS_Subset
      <4>3. Cardinality(UnitsOf(f, s)) = Cardinality(UnitsOf(f, r)) + f[x]
        BY <4>1, <4>2, UnitsAdd
      <4>4. IsFiniteSet(UnitsOf(f, r))
        BY <4>1, <4>2, UnitsAdd
      <4>5. Cardinality(UnitsOf(f, r)) \in Nat /\ f[x] \in Nat
        BY <4>1, <4>4, FS_CardinalityType
      <4> QED
        BY <3>2, <4>2, <4>3, <4>5 DEF x
    <3> QED
      BY <3>1, <3>2
  <2> QED
    BY <2>1
<1>3. iter = rule(iter)
  <2> HIDE DEF rule, size
  <2> QED
    BY <1>2
<1>4. iter[S] = size[S]
  <2> DEFINE D == {s \in SUBSET S : iter[s] # size[s]}
  <2>1. ASSUME D # {} PROVE FALSE
    <3>1. PICK s \in D : \A t \in D : ~ (t \subseteq s /\ t # s)
      <4>1. D \subseteq SUBSET S
        OBVIOUS
      <4> HIDE DEF D
      <4> QED
        BY ONLY <2>1, <4>1, LeastSet, IsFiniteSet(S)
    <3>2. s \in SUBSET S /\ iter[s] # size[s]
      OBVIOUS
    <3>3. iter[s] = rule(iter)[s] /\ size[s] = rule(size)[s]
      <4> HIDE DEF iter, size, rule
      <4> QED
        BY <1>2, <1>3
    <3> HIDE DEF iter, size
    <3>4. s # {}
      BY <3>2, <3>3
    <3>5. c(s) \in s
      BY <3>4
    <3>6. iter[s \ {c(s)}] = size[s \ {c(s)}]
      BY <3>1, <3>2, <3>5
    <3> QED
      BY <3>2, <3>3, <3>4, <3>6
  <2> QED
    BY <2>1
<1> QED
  BY <1>1, <1>4

\* The sum over the empty set is zero, and an element more adds what it is worth.
THEOREM SumAdds ==
  ASSUME NEW f, NEW S, IsFiniteSet(S), \A y \in S : f[y] \in Nat
  PROVE  /\ SumFunctionOnSet(f, {}) = 0
         /\ SumFunctionOnSet(f, S) \in Nat
         /\ \A x : x \notin S /\ f[x] \in Nat =>
              SumFunctionOnSet(f, S \cup {x}) = SumFunctionOnSet(f, S) + f[x]
<1>1. SumFunctionOnSet(f, {}) = 0
  <2>1. IsFiniteSet({}) /\ Cardinality({}) = 0
    BY FS_EmptySet
  <2>2. SumFunctionOnSet(f, {}) = Cardinality(UnitsOf(f, {}))
    BY <2>1, SumCounts
  <2>3. UnitsOf(f, {}) = {}
    BY DEF UnitsOf
  <2> QED
    BY <2>1, <2>2, <2>3
<1>2. IsFiniteSet(UnitsOf(f, S))
  BY UnitsFinite
<1>3. SumFunctionOnSet(f, S) = Cardinality(UnitsOf(f, S))
  BY SumCounts
<1>4. SumFunctionOnSet(f, S) \in Nat
  BY <1>2, <1>3, FS_CardinalityType
<1>5. ASSUME NEW x, x \notin S, f[x] \in Nat
      PROVE  SumFunctionOnSet(f, S \cup {x}) = SumFunctionOnSet(f, S) + f[x]
  <2>1. \A y \in S \cup {x} : f[y] \in Nat
    BY <1>5
  <2>2. IsFiniteSet(S \cup {x})
    BY FS_AddElement
  <2>3. SumFunctionOnSet(f, S \cup {x}) = Cardinality(UnitsOf(f, S \cup {x}))
    BY <2>1, <2>2, SumCounts
  <2> QED
    BY <1>3, <1>5, <2>1, <2>3, UnitsAdd
<1> QED
  BY <1>1, <1>4, <1>5
================================================================================
