------------------------------ MODULE SumLemmas ------------------------------
(***************************************************************************)
(* Sums over finite sets.  The models add up rows, receipts and shares     *)
(* with MapThenSumSet; these lemmas say what such a sum is, by induction   *)
(* on the set.  Induction is by smallest counterexample, which is first    *)
(* order, so the provers can use it.                                       *)
(***************************************************************************)
EXTENDS Integers, FiniteSets, FiniteSetsExt, FiniteSetTheorems,
        WellFoundedInduction, TLAPS

\* The sum of f over S.
Total(f, S) == MapThenSumSet(LAMBDA x : f[x], S)

\* The element the fold takes from a set, and the equation its iterator solves.
Pick(s) == CHOOSE x \in s : TRUE

Iterates(f, S, g) ==
    g = [s \in SUBSET S |-> IF s = {} THEN 0 ELSE f[Pick(s)] + g[s \ {Pick(s)}]]

-----------------------------------------------------------------------------
(* Induction *)

\* A nonempty set of naturals has a smallest element.
LEMMA SmallestNat ==
    ASSUME NEW T, T \subseteq Nat, T # {}
    PROVE  \E x \in T : \A y \in T : x <= y
<1>1. \E x \in T : \A y \in T : ~ (<<y, x>> \in OpToRel(<, Nat))
  BY WFMin, NatLessThanWellFounded, Zenon
<1>2. PICK x \in T : \A y \in T : ~ (<<y, x>> \in OpToRel(<, Nat))
  BY <1>1, Zenon
<1>3. \A y \in T : ~ (y < x) BY <1>2 DEF OpToRel
<1> QED BY <1>3

\* A nonempty set of naturals that has a bound has a largest element.
LEMMA LargestNat ==
    ASSUME NEW T, T \subseteq Nat, T # {}, NEW b \in Nat, \A x \in T : x <= b
    PROVE  \E x \in T : \A y \in T : x >= y
<1> DEFINE D == {b - x : x \in T}
<1>1. D \subseteq Nat /\ D # {}
  <2>1. ASSUME NEW d \in D PROVE d \in Nat
    <3>1. PICK x \in T : d = b - x BY <2>1
    <3>2. x \in Nat /\ x <= b BY <3>1
    <3> HIDE DEF D
    <3> QED BY <3>1, <3>2
  <2>2. PICK x \in T : TRUE OBVIOUS
  <2>3. b - x \in D BY <2>2
  <2> HIDE DEF D
  <2> QED BY <2>1, <2>3
<1>2. PICK d \in D : \A e \in D : d <= e
  <2> HIDE DEF D
  <2> QED BY <1>1, SmallestNat
<1>3. PICK x \in T : d = b - x BY <1>2
<1>4. ASSUME NEW y \in T PROVE x >= y
  <2>1. b - x <= b - y BY <1>2, <1>3
  <2>2. x \in Nat /\ y \in Nat OBVIOUS
  <2> HIDE DEF D
  <2> QED BY <2>1, <2>2
<1> QED BY <1>4

\* A nonempty family of subsets of a finite set has a minimal member.
LEMMA SmallestSet ==
    ASSUME NEW S, IsFiniteSet(S), NEW T, T \subseteq SUBSET S, T # {}
    PROVE  \E s \in T : \A t \in T : t \subseteq s => t = s
<1> DEFINE N == {Cardinality(s) : s \in T}
<1>1. \A s \in T : IsFiniteSet(s) /\ Cardinality(s) \in Nat
  BY FS_Subset, FS_CardinalityType
<1>2. N \subseteq Nat /\ N # {} BY <1>1
<1>3. PICK n \in N : \A m \in N : n <= m
  <2> HIDE DEF N
  <2> QED BY <1>2, SmallestNat
<1>4. PICK s \in T : n = Cardinality(s) OBVIOUS
<1>5. ASSUME NEW t \in T, t \subseteq s, t # s PROVE FALSE
  <2>1. Cardinality(t) < Cardinality(s) BY <1>1, <1>5, FS_Subset
  <2>2. Cardinality(t) \in N OBVIOUS
  <2>3. n <= Cardinality(t) BY <2>2, <1>3
  <2> QED BY <1>1, <1>4, <2>1, <2>3
<1> QED BY <1>5

-----------------------------------------------------------------------------
(* The fold is well defined *)

\* The fold takes a member of a nonempty set.
LEMMA PickIn == ASSUME NEW s, s # {} PROVE Pick(s) \in s
BY DEF Pick

\* The library's recursive definition, with the iterator named.
LEMMA TotalDef ==
    ASSUME NEW f, NEW S
    PROVE  Total(f, S) = (CHOOSE g : Iterates(f, S, g))[S]
BY DEF Total, MapThenSumSet, MapThenFoldSet, Iterates, Pick

\* What an iterator returns.
LEMMA IteratesAt ==
    ASSUME NEW f, NEW S, NEW g, Iterates(f, S, g), NEW s \in SUBSET S
    PROVE  g[s] = IF s = {} THEN 0 ELSE f[Pick(s)] + g[s \ {Pick(s)}]
<1> DEFINE G(t) == IF t = {} THEN 0 ELSE f[Pick(t)] + g[t \ {Pick(t)}]
<1>1. g = [t \in SUBSET S |-> G(t)] BY DEF Iterates
<1> HIDE DEF G
<1>2. g[s] = G(s) BY <1>1
<1> QED BY <1>2 DEF G

\* Two iterators agree wherever both are defined.
LEMMA IteratesUnique ==
    ASSUME NEW f, NEW S, NEW R, IsFiniteSet(S), NEW g, NEW h,
           Iterates(f, S, g), Iterates(f, R, h), NEW u \in SUBSET S, u \in SUBSET R
    PROVE  g[u] = h[u]
<1> DEFINE T == {s \in SUBSET S : s \in SUBSET R /\ g[s] # h[s]}
<1> SUFFICES ASSUME T # {} PROVE FALSE OBVIOUS
<1>1. T \subseteq SUBSET S OBVIOUS
<1>2. PICK s \in T : \A t \in T : t \subseteq s => t = s
  <2> HIDE DEF T
  <2> QED BY <1>1, SmallestSet
<1>3. s \in SUBSET S /\ s \in SUBSET R /\ g[s] # h[s] OBVIOUS
<1>4. /\ g[s] = IF s = {} THEN 0 ELSE f[Pick(s)] + g[s \ {Pick(s)}]
      /\ h[s] = IF s = {} THEN 0 ELSE f[Pick(s)] + h[s \ {Pick(s)}]
  BY <1>3, IteratesAt
<1>5. s # {} BY <1>3, <1>4
<1> DEFINE r == s \ {Pick(s)}
<1>6. Pick(s) \in s BY <1>5, PickIn
<1>7. r \subseteq s /\ r # s /\ r \in SUBSET S /\ r \in SUBSET R BY <1>3, <1>6
<1>8. g[r] = h[r]
  <2> HIDE DEF r
  <2>1. r \notin T BY <1>2, <1>7
  <2> QED BY <2>1, <1>7
<1> QED BY <1>3, <1>4, <1>5, <1>8

\* Every finite set has an iterator.
LEMMA IteratorExists ==
    ASSUME NEW f, NEW S, IsFiniteSet(S)
    PROVE  \E g : Iterates(f, S, g)
<1> DEFINE T == {s \in SUBSET S : ~ \E g : Iterates(f, s, g)}
<1> SUFFICES ASSUME T # {} PROVE FALSE OBVIOUS
<1>1. T \subseteq SUBSET S OBVIOUS
<1>2. PICK s \in T : \A t \in T : t \subseteq s => t = s
  <2> HIDE DEF T
  <2> QED BY <1>1, SmallestSet
<1> DEFINE It(t) == CHOOSE g : Iterates(f, t, g)
           V(t) == It(t)[t]
           h == [t \in SUBSET s |-> IF t = {} THEN 0 ELSE f[Pick(t)] + V(t \ {Pick(t)})]
<1>3. ASSUME NEW t \in SUBSET s, t # s PROVE Iterates(f, t, It(t)) /\ IsFiniteSet(t)
  <2>1. t \in SUBSET S /\ t \notin T BY <1>2, <1>3
  <2>2. \E g : Iterates(f, t, g) BY <2>1
  <2>3. IsFiniteSet(t) BY <2>1, FS_Subset
  <2> QED BY <2>2, <2>3
<1>4. ASSUME NEW t \in SUBSET s, t # s PROVE h[t] = V(t)
  <2> HIDE DEF It
  <2>1. Iterates(f, t, It(t)) /\ IsFiniteSet(t) BY <1>3, <1>4
  <2>2. V(t) = IF t = {} THEN 0 ELSE f[Pick(t)] + It(t)[t \ {Pick(t)}]
    BY <2>1, IteratesAt
  <2>3. ASSUME t # {} PROVE It(t)[t \ {Pick(t)}] = V(t \ {Pick(t)})
    <3> DEFINE r == t \ {Pick(t)}
    <3>1. r \in SUBSET t /\ r \in SUBSET s /\ r # s BY <2>3, <1>4, PickIn
    <3>2. Iterates(f, r, It(r)) BY <3>1, <1>3
    <3> HIDE DEF r
    <3>3. It(t)[r] = It(r)[r] BY <2>1, <3>1, <3>2, IteratesUnique
    <3> QED BY <3>3 DEF r
  <2> QED BY <2>2, <2>3
<1>5. ASSUME NEW t \in SUBSET s, t # {} PROVE V(t \ {Pick(t)}) = h[t \ {Pick(t)}]
  <2>1. t \ {Pick(t)} \in SUBSET s /\ t \ {Pick(t)} # s BY <1>5, PickIn
  <2> HIDE DEF h, V, It
  <2> QED BY <2>1, <1>4
<1>6. h = [t \in SUBSET s |-> IF t = {} THEN 0 ELSE f[Pick(t)] + h[t \ {Pick(t)}]]
  <2> DEFINE A(t) == IF t = {} THEN 0 ELSE f[Pick(t)] + V(t \ {Pick(t)})
             B(t) == IF t = {} THEN 0 ELSE f[Pick(t)] + h[t \ {Pick(t)}]
  <2>1. \A t \in SUBSET s : A(t) = B(t)
    <3> HIDE DEF h, V, It
    <3> QED BY <1>5
  <2>2. h = [t \in SUBSET s |-> A(t)] OBVIOUS
  <2>3. h = [t \in SUBSET s |-> B(t)]
    <3> HIDE DEF A, B, h
    <3> QED BY <2>1, <2>2
  <2> HIDE DEF h, A
  <2> QED BY <2>3
<1>7. Iterates(f, s, h)
  <2> HIDE DEF h
  <2> QED BY <1>6 DEF Iterates
<1>8. ~ \E g : Iterates(f, s, g) OBVIOUS
<1> HIDE DEF h
<1> QED BY <1>7, <1>8

\* The library's iterator solves its own equation.
LEMMA TotalIterates ==
    ASSUME NEW f, NEW S, IsFiniteSet(S)
    PROVE  Iterates(f, S, CHOOSE g : Iterates(f, S, g))
BY IteratorExists

\* Whatever solves the equation computes the sum.
LEMMA IteratorIsTotal ==
    ASSUME NEW f, NEW S, IsFiniteSet(S), NEW g, Iterates(f, S, g)
    PROVE  g[S] = Total(f, S)
<1> DEFINE h == CHOOSE x : Iterates(f, S, x)
<1>1. Iterates(f, S, h) BY TotalIterates
<1>2. Total(f, S) = h[S] BY TotalDef
<1> HIDE DEF h
<1> QED BY <1>1, <1>2, IteratesUnique

\* The recursive equation of a sum.
LEMMA TotalStep ==
    ASSUME NEW f, NEW S, IsFiniteSet(S)
    PROVE  Total(f, S) = IF S = {} THEN 0 ELSE f[Pick(S)] + Total(f, S \ {Pick(S)})
<1> DEFINE It(t) == CHOOSE g : Iterates(f, t, g)
           R == S \ {Pick(S)}
<1>1. IsFiniteSet(R) BY FS_Subset
<1>2. Iterates(f, S, It(S)) /\ Iterates(f, R, It(R)) BY <1>1, TotalIterates
<1>3. Total(f, S) = It(S)[S] /\ Total(f, R) = It(R)[R] BY TotalDef
<1> HIDE DEF It
<1>4. It(S)[S] = IF S = {} THEN 0 ELSE f[Pick(S)] + It(S)[R] BY <1>2, IteratesAt
<1>5. It(S)[R] = It(R)[R] BY <1>2, IteratesUnique
<1> QED BY <1>3, <1>4, <1>5

-----------------------------------------------------------------------------
(* Properties of sums *)

\* The empty sum is zero.
LEMMA TotalEmpty == ASSUME NEW f PROVE Total(f, {}) = 0
BY TotalStep, FS_EmptySet

\* A sum of integers is an integer.
LEMMA TotalInt ==
    ASSUME NEW f, NEW S, IsFiniteSet(S), \A x \in S : f[x] \in Int
    PROVE  Total(f, S) \in Int
<1> DEFINE T == {s \in SUBSET S : Total(f, s) \notin Int}
<1> SUFFICES ASSUME T # {} PROVE FALSE OBVIOUS
<1>1. PICK s \in T : \A t \in T : t \subseteq s => t = s
  <2>1. T \subseteq SUBSET S OBVIOUS
  <2> HIDE DEF T
  <2> QED BY <2>1, SmallestSet
<1>2. s \in SUBSET S /\ Total(f, s) \notin Int /\ IsFiniteSet(s) BY FS_Subset
<1>3. s # {} /\ Total(f, s) = f[Pick(s)] + Total(f, s \ {Pick(s)})
  <2>1. Total(f, {}) \in Int BY TotalEmpty
  <2>2. s # {} BY <1>2, <2>1
  <2> QED BY <1>2, <2>2, TotalStep
<1>4. Pick(s) \in s /\ f[Pick(s)] \in Int BY <1>2, <1>3, PickIn
<1> DEFINE r == s \ {Pick(s)}
<1>5. r \in SUBSET S /\ r \subseteq s /\ r # s BY <1>2, <1>4
<1>6. Total(f, r) \in Int
  <2> HIDE DEF r
  <2>1. r \notin T BY <1>1, <1>5
  <2> QED BY <2>1, <1>5
<1> QED BY <1>2, <1>3, <1>4, <1>6

\* Any member can be taken out of a sum.
LEMMA TotalRemove ==
    ASSUME NEW f, NEW S, IsFiniteSet(S), \A x \in S : f[x] \in Int, NEW e \in S
    PROVE  Total(f, S) = f[e] + Total(f, S \ {e})
<1> DEFINE T == {s \in SUBSET S : \E x \in s : Total(f, s) # f[x] + Total(f, s \ {x})}
<1> SUFFICES ASSUME T # {} PROVE FALSE OBVIOUS
<1>1. PICK s \in T : \A t \in T : t \subseteq s => t = s
  <2>1. T \subseteq SUBSET S OBVIOUS
  <2> HIDE DEF T
  <2> QED BY <2>1, SmallestSet
<1>2. PICK x \in s : Total(f, s) # f[x] + Total(f, s \ {x}) OBVIOUS
<1> DEFINE y == Pick(s)
<1>3. s \in SUBSET S /\ IsFiniteSet(s) /\ y \in s BY FS_Subset, PickIn
<1>4. Total(f, s) = f[y] + Total(f, s \ {y}) BY <1>2, <1>3, TotalStep
<1> HIDE DEF y
<1>5. x # y BY <1>2, <1>4
<1>6. /\ s \ {y} \in SUBSET S /\ s \ {y} \subseteq s /\ s \ {y} # s
      /\ s \ {x} \in SUBSET S /\ s \ {x} \subseteq s /\ s \ {x} # s
      /\ x \in s \ {y} /\ y \in s \ {x} /\ (s \ {y}) \ {x} = (s \ {x}) \ {y}
  BY <1>3, <1>5
<1>7. ASSUME NEW t \in SUBSET S, t \subseteq s, t # s, NEW z \in t
      PROVE  Total(f, t) = f[z] + Total(f, t \ {z})
  <2>1. t \notin T BY <1>1, <1>7
  <2> QED BY <2>1
<1>8. /\ Total(f, s \ {y}) = f[x] + Total(f, (s \ {y}) \ {x})
      /\ Total(f, s \ {x}) = f[y] + Total(f, (s \ {x}) \ {y})
  BY <1>6, <1>7
<1>9. f[x] \in Int /\ f[y] \in Int /\ Total(f, (s \ {x}) \ {y}) \in Int
  <2>1. IsFiniteSet((s \ {x}) \ {y}) BY <1>3, FS_Subset
  <2> QED BY <2>1, <1>3, TotalInt
<1>10. \A a, b, c \in Int : a + (b + c) = b + (a + c) OBVIOUS
<1>11. f[y] + (f[x] + Total(f, (s \ {x}) \ {y})) = f[x] + (f[y] + Total(f, (s \ {x}) \ {y}))
  BY <1>9, <1>10
<1>12. Total(f, s) = f[x] + Total(f, s \ {x})
  BY <1>4, <1>6, <1>8, <1>11, Zenon
<1> QED BY <1>2, <1>12

\* Any new member can be added to a sum.
LEMMA TotalAdd ==
    ASSUME NEW f, NEW S, IsFiniteSet(S), NEW e, e \notin S,
           \A x \in S \cup {e} : f[x] \in Int
    PROVE  Total(f, S \cup {e}) = f[e] + Total(f, S)
<1>1. IsFiniteSet(S \cup {e}) BY FS_AddElement
<1>2. (S \cup {e}) \ {e} = S OBVIOUS
<1>3. Total(f, S \cup {e}) = f[e] + Total(f, (S \cup {e}) \ {e}) BY <1>1, TotalRemove
<1> QED BY <1>2, <1>3

\* A sum of larger summands is larger.
LEMMA TotalMonotone ==
    ASSUME NEW f, NEW g, NEW S, IsFiniteSet(S),
           \A x \in S : f[x] \in Int /\ g[x] \in Int /\ f[x] <= g[x]
    PROVE  Total(f, S) <= Total(g, S)
<1> DEFINE T == {s \in SUBSET S : ~(Total(f, s) <= Total(g, s))}
<1> SUFFICES ASSUME T # {} PROVE FALSE OBVIOUS
<1>1. PICK s \in T : \A t \in T : t \subseteq s => t = s
  <2>1. T \subseteq SUBSET S OBVIOUS
  <2> HIDE DEF T
  <2> QED BY <2>1, SmallestSet
<1>2. s \in SUBSET S /\ ~(Total(f, s) <= Total(g, s)) /\ IsFiniteSet(s) BY FS_Subset
<1>3. s # {} BY <1>2, TotalEmpty
<1> DEFINE r == s \ {Pick(s)}
<1>4. /\ Total(f, s) = f[Pick(s)] + Total(f, r)
      /\ Total(g, s) = g[Pick(s)] + Total(g, r)
  BY <1>2, <1>3, TotalStep
<1>5. Pick(s) \in S BY <1>2, <1>3, PickIn
<1>6. r \in SUBSET S /\ r \subseteq s /\ r # s BY <1>2, <1>3, PickIn
<1>7. IsFiniteSet(r) BY <1>2, FS_Subset
<1>8. Total(f, r) <= Total(g, r)
  <2> HIDE DEF r
  <2>1. r \notin T BY <1>1, <1>6
  <2> QED BY <2>1, <1>6
<1>9. Total(f, r) \in Int /\ Total(g, r) \in Int BY <1>6, <1>7, TotalInt
<1>10. f[Pick(s)] \in Int /\ g[Pick(s)] \in Int /\ f[Pick(s)] <= g[Pick(s)] BY <1>5
<1> HIDE DEF r
<1> QED BY <1>2, <1>4, <1>8, <1>9, <1>10

\* Equal summands have equal sums.
LEMMA TotalSame ==
    ASSUME NEW f, NEW g, NEW S, IsFiniteSet(S), \A x \in S : f[x] \in Int /\ f[x] = g[x]
    PROVE  Total(f, S) = Total(g, S)
<1>1. Total(f, S) <= Total(g, S) /\ Total(g, S) <= Total(f, S) BY TotalMonotone
<1>2. Total(f, S) \in Int /\ Total(g, S) \in Int BY TotalInt
<1> QED BY <1>1, <1>2

\* A sum of naturals is a natural number.
LEMMA TotalNat ==
    ASSUME NEW f, NEW S, IsFiniteSet(S), \A x \in S : f[x] \in Nat
    PROVE  Total(f, S) \in Nat
<1> DEFINE T == {s \in SUBSET S : ~(Total(f, s) >= 0)}
<1>1. ASSUME T # {} PROVE FALSE
  <2>1. PICK s \in T : \A t \in T : t \subseteq s => t = s
    <3>1. T \subseteq SUBSET S OBVIOUS
    <3> HIDE DEF T
    <3> QED BY <1>1, <3>1, SmallestSet
  <2>2. s \in SUBSET S /\ ~(Total(f, s) >= 0) /\ IsFiniteSet(s) BY FS_Subset
  <2>3. s # {} BY <2>2, TotalEmpty
  <2> DEFINE r == s \ {Pick(s)}
  <2>4. Total(f, s) = f[Pick(s)] + Total(f, r) BY <2>2, <2>3, TotalStep
  <2>5. Pick(s) \in S /\ r \in SUBSET S /\ r \subseteq s /\ r # s BY <2>2, <2>3, PickIn
  <2>6. IsFiniteSet(r) BY <2>2, FS_Subset
  <2>7. Total(f, r) >= 0
    <3> HIDE DEF r
    <3>1. r \notin T BY <2>1, <2>5
    <3> QED BY <3>1, <2>5
  <2>8. Total(f, r) \in Int /\ f[Pick(s)] \in Nat BY <2>5, <2>6, TotalInt
  <2> HIDE DEF r
  <2> QED BY <2>2, <2>4, <2>7, <2>8
<1>2. Total(f, S) >= 0 /\ Total(f, S) \in Int BY <1>1, TotalInt
<1> QED BY <1>2

\* Dropping members never raises a sum of naturals.
LEMMA TotalSubset ==
    ASSUME NEW f, NEW S, IsFiniteSet(S), \A x \in S : f[x] \in Nat, NEW R \in SUBSET S
    PROVE  Total(f, R) <= Total(f, S)
<1> DEFINE T == {s \in SUBSET S : R \subseteq s /\ ~(Total(f, R) <= Total(f, s))}
<1> SUFFICES ASSUME T # {} PROVE FALSE OBVIOUS
<1>1. PICK s \in T : \A t \in T : t \subseteq s => t = s
  <2>1. T \subseteq SUBSET S OBVIOUS
  <2> HIDE DEF T
  <2> QED BY <2>1, SmallestSet
<1>2. /\ s \in SUBSET S /\ R \subseteq s /\ ~(Total(f, R) <= Total(f, s))
      /\ IsFiniteSet(s) /\ IsFiniteSet(R)
  BY FS_Subset
<1>3. Total(f, R) \in Nat /\ Total(f, s) \in Nat BY <1>2, TotalNat
<1>4. PICK x \in s : x \notin R
  <2>1. s # R BY <1>2, <1>3
  <2> QED BY <2>1, <1>2
<1>5. /\ s \ {x} \in SUBSET S /\ s \ {x} \subseteq s /\ s \ {x} # s /\ R \subseteq s \ {x}
      /\ f[x] \in Nat
  BY <1>2, <1>4
<1>6. Total(f, s) = f[x] + Total(f, s \ {x}) BY <1>2, TotalRemove
<1>7. Total(f, R) <= Total(f, s \ {x})
  <2>1. s \ {x} \notin T BY <1>1, <1>5
  <2> QED BY <2>1, <1>5
<1>8. IsFiniteSet(s \ {x}) BY <1>2, FS_Subset
<1>9. Total(f, s \ {x}) \in Nat BY <1>5, <1>8, TotalNat
<1> QED BY <1>2, <1>3, <1>5, <1>6, <1>7, <1>9

\* A sum of sums.
LEMMA TotalPlus ==
    ASSUME NEW f, NEW g, NEW h, NEW S, IsFiniteSet(S),
           \A x \in S : f[x] \in Int /\ g[x] \in Int /\ h[x] = f[x] + g[x]
    PROVE  Total(h, S) = Total(f, S) + Total(g, S)
<1> DEFINE T == {s \in SUBSET S : Total(h, s) # Total(f, s) + Total(g, s)}
<1> SUFFICES ASSUME T # {} PROVE FALSE OBVIOUS
<1>1. PICK s \in T : \A t \in T : t \subseteq s => t = s
  <2>1. T \subseteq SUBSET S OBVIOUS
  <2> HIDE DEF T
  <2> QED BY <2>1, SmallestSet
<1>2. s \in SUBSET S /\ Total(h, s) # Total(f, s) + Total(g, s) /\ IsFiniteSet(s) BY FS_Subset
<1>3. s # {}
  <2>1. Total(f, {}) = 0 /\ Total(g, {}) = 0 /\ Total(h, {}) = 0 BY TotalEmpty
  <2>2. Total(h, {}) = Total(f, {}) + Total(g, {}) BY <2>1
  <2> QED BY <2>2, <1>2, Zenon
<1> DEFINE r == s \ {Pick(s)}
<1>4. /\ Total(f, s) = f[Pick(s)] + Total(f, r)
      /\ Total(g, s) = g[Pick(s)] + Total(g, r)
      /\ Total(h, s) = h[Pick(s)] + Total(h, r)
  BY <1>2, <1>3, TotalStep
<1>5. Pick(s) \in S BY <1>2, <1>3, PickIn
<1>6. r \in SUBSET S /\ r \subseteq s /\ r # s BY <1>2, <1>3, PickIn
<1>7. IsFiniteSet(r) BY <1>2, FS_Subset
<1>8. Total(h, r) = Total(f, r) + Total(g, r)
  <2> HIDE DEF r
  <2>1. r \notin T BY <1>1, <1>6
  <2> QED BY <2>1, <1>6
<1>9. Total(f, r) \in Int /\ Total(g, r) \in Int BY <1>6, <1>7, TotalInt
<1>10. /\ f[Pick(s)] \in Int /\ g[Pick(s)] \in Int
       /\ h[Pick(s)] = f[Pick(s)] + g[Pick(s)]
  BY <1>5
<1> HIDE DEF r
<1> QED BY <1>2, <1>4, <1>8, <1>9, <1>10

\* A sum of zeros.
LEMMA TotalZero ==
    ASSUME NEW f, NEW S, IsFiniteSet(S), \A x \in S : f[x] = 0
    PROVE  Total(f, S) = 0
<1>1. Total(f, S) = Total(f, S) + Total(f, S) BY TotalPlus
<1>2. Total(f, S) \in Int BY TotalInt
<1>3. \A a \in Int : a = a + a => a = 0 OBVIOUS
<1> QED BY <1>1, <1>2, <1>3, Zenon

\* A multiple of every summand is a multiple of the sum.
LEMMA TotalScale ==
    ASSUME NEW f, NEW g, NEW k \in Int, NEW S, IsFiniteSet(S),
           \A x \in S : f[x] \in Int /\ g[x] = f[x] * k
    PROVE  Total(g, S) = Total(f, S) * k
<1> DEFINE T == {s \in SUBSET S : Total(g, s) # Total(f, s) * k}
<1> SUFFICES ASSUME T # {} PROVE FALSE OBVIOUS
<1>1. PICK s \in T : \A t \in T : t \subseteq s => t = s
  <2>1. T \subseteq SUBSET S OBVIOUS
  <2> HIDE DEF T
  <2> QED BY <2>1, SmallestSet
<1>2. s \in SUBSET S /\ Total(g, s) # Total(f, s) * k /\ IsFiniteSet(s) BY FS_Subset
<1>3. s # {}
  <2>1. Total(f, {}) = 0 /\ Total(g, {}) = 0 /\ 0 * k = 0 BY TotalEmpty
  <2> QED BY <2>1, <1>2
<1> DEFINE r == s \ {Pick(s)}
<1>4. /\ Total(f, s) = f[Pick(s)] + Total(f, r)
      /\ Total(g, s) = g[Pick(s)] + Total(g, r)
  BY <1>2, <1>3, TotalStep
<1>5. Pick(s) \in S BY <1>2, <1>3, PickIn
<1>6. r \in SUBSET S /\ r \subseteq s /\ r # s BY <1>2, <1>3, PickIn
<1>7. IsFiniteSet(r) BY <1>2, FS_Subset
<1>8. Total(g, r) = Total(f, r) * k
  <2> HIDE DEF r
  <2>1. r \notin T BY <1>1, <1>6
  <2> QED BY <2>1, <1>6
<1>9. Total(f, r) \in Int BY <1>6, <1>7, TotalInt
<1>10. f[Pick(s)] \in Int /\ g[Pick(s)] = f[Pick(s)] * k BY <1>5
<1>11. \A a, b, c \in Int : (a + b) * c = a * c + b * c OBVIOUS
<1>12. (f[Pick(s)] + Total(f, r)) * k = f[Pick(s)] * k + Total(f, r) * k
  BY <1>9, <1>10, <1>11
<1> HIDE DEF r
<1> QED BY <1>2, <1>4, <1>8, <1>10, <1>12, Zenon

\* One summand changes.
LEMMA TotalChange ==
    ASSUME NEW f, NEW g, NEW S, IsFiniteSet(S), NEW e \in S,
           \A x \in S : f[x] \in Int /\ g[x] \in Int,
           \A x \in S : x # e => g[x] = f[x]
    PROVE  Total(g, S) = Total(f, S) - f[e] + g[e]
<1>1. Total(f, S) = f[e] + Total(f, S \ {e}) /\ Total(g, S) = g[e] + Total(g, S \ {e})
  BY TotalRemove
<1>2. IsFiniteSet(S \ {e}) BY FS_Subset
<1>3. Total(f, S \ {e}) = Total(g, S \ {e}) BY <1>2, TotalSame
<1>4. Total(f, S \ {e}) \in Int BY <1>2, TotalInt
<1> QED BY <1>1, <1>3, <1>4

\* Summands that are zero do not count.
LEMMA TotalWiden ==
    ASSUME NEW f, NEW S, IsFiniteSet(S), \A x \in S : f[x] \in Int,
           NEW R \in SUBSET S, \A x \in S \ R : f[x] = 0
    PROVE  Total(f, R) = Total(f, S)
<1> DEFINE T == {s \in SUBSET S : R \subseteq s /\ Total(f, R) # Total(f, s)}
<1> SUFFICES ASSUME T # {} PROVE FALSE OBVIOUS
<1>1. PICK s \in T : \A t \in T : t \subseteq s => t = s
  <2>1. T \subseteq SUBSET S OBVIOUS
  <2> HIDE DEF T
  <2> QED BY <2>1, SmallestSet
<1>2. s \in SUBSET S /\ R \subseteq s /\ Total(f, R) # Total(f, s) /\ IsFiniteSet(s)
  BY FS_Subset
<1>3. PICK x \in s : x \notin R
  <2>1. s # R BY <1>2
  <2> QED BY <2>1, <1>2
<1>4. /\ s \ {x} \in SUBSET S /\ s \ {x} \subseteq s /\ s \ {x} # s /\ R \subseteq s \ {x}
      /\ f[x] = 0
  BY <1>2, <1>3
<1>5. Total(f, s) = f[x] + Total(f, s \ {x}) BY <1>2, TotalRemove
<1>6. Total(f, R) = Total(f, s \ {x})
  <2>1. s \ {x} \notin T BY <1>1, <1>4
  <2> QED BY <2>1, <1>4
<1>7. IsFiniteSet(s \ {x}) BY <1>2, FS_Subset
<1>8. Total(f, s \ {x}) \in Int BY <1>4, <1>7, TotalInt
<1> QED BY <1>2, <1>4, <1>5, <1>6, <1>8

\* A sum over the values of an injective map.
LEMMA TotalImage ==
    ASSUME NEW f, NEW g, NEW phi, NEW S, IsFiniteSet(S),
           \A x \in S : f[phi[x]] \in Int /\ g[x] = f[phi[x]],
           \A x, y \in S : phi[x] = phi[y] => x = y
    PROVE  Total(f, {phi[x] : x \in S}) = Total(g, S)
<1> DEFINE Image(s) == {phi[x] : x \in s}
           Good(s) == IsFiniteSet(Image(s)) /\ Total(f, Image(s)) = Total(g, s)
           T == {s \in SUBSET S : ~Good(s)}
<1> SUFFICES ASSUME T # {} PROVE FALSE
  <2>1. T = {} => Good(S)
    <3> HIDE DEF Good
    <3> QED OBVIOUS
  <2> QED BY <2>1
<1>1. PICK s \in T : \A t \in T : t \subseteq s => t = s
  <2>1. T \subseteq SUBSET S OBVIOUS
  <2> HIDE DEF T
  <2> QED BY <2>1, SmallestSet
<1>2. s \in SUBSET S /\ ~Good(s) /\ IsFiniteSet(s)
  <2> HIDE DEF Good
  <2> QED BY FS_Subset
<1>3. s # {}
  <2>1. Image({}) = {} OBVIOUS
  <2> HIDE DEF Image
  <2> QED BY <2>1, <1>2, TotalEmpty, FS_EmptySet
<1> DEFINE e == Pick(s)
           r == s \ {e}
<1>4. Total(g, s) = g[e] + Total(g, r) BY <1>2, <1>3, TotalStep
<1>5. e \in s /\ e \in S BY <1>2, <1>3, PickIn
<1> HIDE DEF e
<1>6. r \in SUBSET S /\ r \subseteq s /\ r # s /\ IsFiniteSet(r) BY <1>2, <1>5, FS_Subset
<1>7. Good(r)
  <2> HIDE DEF r, Good
  <2>1. r \notin T BY <1>1, <1>6
  <2> QED BY <2>1, <1>6
<1>8. Image(s) = Image(r) \cup {phi[e]} /\ phi[e] \notin Image(r) BY <1>2, <1>5
<1>9. IsFiniteSet(Image(r)) /\ Total(f, Image(r)) = Total(g, r)
  BY <1>7
<1>10. \A y \in Image(r) \cup {phi[e]} : f[y] \in Int BY <1>2, <1>5, <1>6
<1>11. Total(f, Image(s)) = f[phi[e]] + Total(f, Image(r))
  <2> HIDE DEF Image, r
  <2> QED BY <1>8, <1>9, <1>10, TotalAdd
<1> HIDE DEF Image, r
<1>12. Total(f, Image(s)) = Total(g, s) BY <1>4, <1>5, <1>9, <1>11
<1>13. IsFiniteSet(Image(s)) BY <1>8, <1>9, FS_AddElement
<1> QED BY <1>2, <1>12, <1>13

=============================================================================
