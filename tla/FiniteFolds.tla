---------------------------- MODULE FiniteFolds -----------------------------
(***************************************************************************)
(* Sums and folds, as the community modules define them, without an        *)
(* operator for a parameter: what the sum of a function over a finite set  *)
(* is, and how the fold of a sequence is taken apart, entry by entry.      *)
(***************************************************************************)
EXTENDS Integers, FiniteSets, FiniteSetsExt, FiniteSetTheorems, WellFoundedInduction, TLAPS

\* Induction over the natural numbers, for a set in the place of a predicate.
LEMMA SetInduction ==
    ASSUME NEW S \in SUBSET Nat, 0 \in S, \A n \in S : n + 1 \in S
    PROVE  S = Nat
  <1> DEFINE R == {ss \in Nat \X Nat : ss[1] < ss[2]}
  <1>1. IsWellFoundedOn(R, Nat)
    BY NatLessThanWellFounded DEF OpToRel
  <1>2. \A x, y \in Nat : x < y => <<x, y>> \in R
    OBVIOUS
  <1> HIDE DEF R
  <1>3. ASSUME Nat \ S # {} PROVE FALSE
    <2>1. PICK x \in Nat \ S : \A y \in Nat \ S : ~(<<y, x>> \in R)
      BY <1>1, <1>3, WFMin
    <2>2. x # 0 /\ x \in Nat
      OBVIOUS
    <2>3. x - 1 \in Nat /\ x - 1 < x
      BY <2>2
    <2>4. x - 1 \in S
      BY <2>1, <2>3, <1>2
    <2>5. (x - 1) + 1 \in S
      BY <2>4
    <2> QED BY <2>2, <2>5
  <1> QED BY <1>3

LEMMA RemoveOne ==
    ASSUME NEW s, IsFiniteSet(s), NEW x \in s, NEW n \in Nat, Cardinality(s) = n + 1
    PROVE  Cardinality(s \ {x}) = n
  <1>1. Cardinality(s \ {x}) = Cardinality(s) - 1
    BY FS_RemoveElement
  <1> QED BY <1>1

-----------------------------------------------------------------------------
Pick(s) == CHOOSE x \in s : TRUE

\* g[s] is the sum of f over s, for every s in Q, a set of sets that is closed
\* under taking an element away.
Adds(g, Q, f) ==
    g = [s \in Q |-> IF s = {} THEN 0 ELSE f[Pick(s)] + g[s \ {Pick(s)}]]

\* ... for every subset of D.
Sums(g, D, f) == Adds(g, SUBSET D, f)

LEMMA PickIs == ASSUME NEW s, s # {} PROVE Pick(s) \in s
  BY DEF Pick

Agree(f, k, T) == \A x \in T : f[x] = k[x]

Small(D, n) == {s \in SUBSET D : Cardinality(s) <= n}

LEMMA SmallIs ==
    ASSUME NEW D, IsFiniteSet(D), NEW n \in Nat, NEW s \in Small(D, n), s # {}
    PROVE  /\ s \ {Pick(s)} \in Small(D, n)
           /\ \A m \in Nat : Cardinality(s) <= m + 1 => s \ {Pick(s)} \in Small(D, m)
  <1>1. IsFiniteSet(s) /\ s \in SUBSET D
    BY FS_Subset DEF Small
  <1>2. Pick(s) \in s
    BY PickIs
  <1>3. Cardinality(s \ {Pick(s)}) = Cardinality(s) - 1 /\ Cardinality(s) \in Nat
    BY <1>1, <1>2, FS_RemoveElement, FS_CardinalityType
  <1>4. Cardinality(s) <= n
    BY DEF Small
  <1>5. Cardinality(s \ {Pick(s)}) <= n
    BY <1>3, <1>4
  <1>6. s \ {Pick(s)} \in SUBSET D
    BY <1>1
  <1>7. ASSUME NEW m \in Nat, Cardinality(s) <= m + 1
        PROVE  s \ {Pick(s)} \in Small(D, m)
    <2>1. Cardinality(s \ {Pick(s)}) <= m
      BY <1>3, <1>7
    <2> QED BY <2>1, <1>6 DEF Small
  <1> QED BY <1>5, <1>6, <1>7 DEF Small

\* The recursion has a solution.
LEMMA SumsExists ==
    ASSUME NEW D, IsFiniteSet(D), NEW f
    PROVE  \E g : Sums(g, D, f)
  <1> DEFINE S == {n \in Nat : \E g : Adds(g, Small(D, n), f)}
  <1>1. 0 \in S
    <2> DEFINE g == [s \in Small(D, 0) |-> 0]
    <2>1. \A s \in Small(D, 0) : s = {}
      <3> SUFFICES ASSUME NEW s \in Small(D, 0) PROVE s = {}
        OBVIOUS
      <3>1. IsFiniteSet(s) /\ Cardinality(s) <= 0
        BY FS_Subset DEF Small
      <3> QED BY <3>1, FS_CardinalityType, FS_EmptySet
    <2>2. Adds(g, Small(D, 0), f)
      BY <2>1 DEF Adds
    <2> QED BY <2>2
  <1>2. ASSUME NEW n \in S PROVE n + 1 \in S
    <2>1. PICK g : Adds(g, Small(D, n), f)
      BY <1>2
    <2> DEFINE h == [s \in Small(D, n + 1) |->
                        IF s = {} THEN 0 ELSE f[Pick(s)] + g[s \ {Pick(s)}]]
    <2>2. \A s \in Small(D, n) : s \in Small(D, n + 1) /\ h[s] = g[s]
      <3>1. n \in Nat
        OBVIOUS
      <3>2. ASSUME NEW s \in Small(D, n) PROVE s \in Small(D, n + 1)
        <4>1. Cardinality(s) \in Nat /\ Cardinality(s) <= n
          BY FS_Subset, FS_CardinalityType DEF Small
        <4> QED BY <3>1, <4>1 DEF Small
      <3>3. \A s \in Small(D, n) : g[s] = IF s = {} THEN 0 ELSE f[Pick(s)] + g[s \ {Pick(s)}]
        BY <2>1 DEF Adds
      <3> QED BY <3>2, <3>3
    <2>3. ASSUME NEW s \in Small(D, n + 1), s # {}
          PROVE  h[s \ {Pick(s)}] = g[s \ {Pick(s)}]
      <3>1. Cardinality(s) <= n + 1 /\ n \in Nat /\ n + 1 \in Nat
        BY DEF Small
      <3>2. s \ {Pick(s)} \in Small(D, n)
        BY <3>1, <2>3, SmallIs
      <3> QED BY <3>2, <2>2
    <2>4. h = [s \in Small(D, n + 1) |-> IF s = {} THEN 0 ELSE f[Pick(s)] + h[s \ {Pick(s)}]]
      <3>1. \A s \in Small(D, n + 1) :
               h[s] = IF s = {} THEN 0 ELSE f[Pick(s)] + h[s \ {Pick(s)}]
        <4> HIDE DEF h
        <4>1. \A s \in Small(D, n + 1) :
               h[s] = IF s = {} THEN 0 ELSE f[Pick(s)] + g[s \ {Pick(s)}]
          BY DEF h
        <4> QED BY <2>3, <4>1
      <3> QED BY <3>1
    <2> HIDE DEF h
    <2>5. \E k : Adds(k, Small(D, n + 1), f)
      BY <2>4 DEF Adds
    <2> QED BY <2>5
  <1> HIDE DEF S
  <1>3. S = Nat
    BY <1>1, <1>2, SetInduction DEF S
  <1>4. Cardinality(D) \in S
    BY <1>3, FS_CardinalityType
  <1>5. Small(D, Cardinality(D)) = SUBSET D
    <2>1. ASSUME NEW s \in SUBSET D PROVE Cardinality(s) <= Cardinality(D)
      BY FS_Subset
    <2> QED BY <2>1 DEF Small
  <1> QED BY <1>4, <1>5 DEF S, Sums

\* ... and no other, whatever the sets it is restricted to.
LEMMA SumsUnique ==
    ASSUME NEW D, IsFiniteSet(D), NEW E, IsFiniteSet(E), NEW f, NEW k, NEW g, NEW h,
           Sums(g, D, f), Sums(h, E, k),
           NEW T \in SUBSET D, T \in SUBSET E, Agree(f, k, T)
    PROVE  g[T] = h[T]
  <1> DEFINE S == {n \in Nat : \A s \in SUBSET T : Cardinality(s) = n => g[s] = h[s]}
  <1>1. \A s \in SUBSET T : /\ g[s] = IF s = {} THEN 0 ELSE f[Pick(s)] + g[s \ {Pick(s)}]
                            /\ h[s] = IF s = {} THEN 0 ELSE k[Pick(s)] + h[s \ {Pick(s)}]
    <2>1. ASSUME NEW s \in SUBSET T
          PROVE  g[s] = IF s = {} THEN 0 ELSE f[Pick(s)] + g[s \ {Pick(s)}]
      <3>1. s \in SUBSET D
        OBVIOUS
      <3> QED BY <3>1 DEF Sums, Adds
    <2>2. ASSUME NEW s \in SUBSET T
          PROVE  h[s] = IF s = {} THEN 0 ELSE k[Pick(s)] + h[s \ {Pick(s)}]
      <3>1. s \in SUBSET E
        OBVIOUS
      <3> QED BY <3>1 DEF Sums, Adds
    <2> QED BY <2>1, <2>2
  <1>2. \A s \in SUBSET T : IsFiniteSet(s)
    BY FS_Subset
  <1>3. 0 \in S
    <2>1. ASSUME NEW s \in SUBSET T, Cardinality(s) = 0 PROVE g[s] = h[s]
      <3>1. s = {}
        BY <1>2, <2>1, FS_EmptySet
      <3> QED BY <1>1, <3>1
    <2> QED BY <2>1
  <1>4. ASSUME NEW n \in S PROVE n + 1 \in S
    <2>1. ASSUME NEW s \in SUBSET T, Cardinality(s) = n + 1 PROVE g[s] = h[s]
      <3>1. n \in Nat /\ IsFiniteSet(s)
        BY <1>2
      <3>2. s # {}
        BY <2>1, <3>1, FS_EmptySet
      <3>3. Pick(s) \in s
        BY <3>2, PickIs
      <3>4. Cardinality(s \ {Pick(s)}) = n
        BY <2>1, <3>1, <3>3, RemoveOne
      <3>5. g[s \ {Pick(s)}] = h[s \ {Pick(s)}] /\ f[Pick(s)] = k[Pick(s)]
        BY <1>4, <3>3, <3>4 DEF Agree
      <3> QED BY <1>1, <3>2, <3>5
    <2> QED BY <2>1
  <1> HIDE DEF S
  <1>5. S = Nat
    BY <1>3, <1>4, SetInduction DEF S
  <1>6. Cardinality(T) \in S
    BY <1>2, <1>5, FS_CardinalityType
  <1> QED BY <1>6 DEF S

\* The sum of f over a finite set.
Total(f, S) == (CHOOSE g : Sums(g, S, f))[S]

LEMMA TotalIs ==
    ASSUME NEW D, IsFiniteSet(D), NEW f, NEW g, Sums(g, D, f),
           NEW k, NEW T \in SUBSET D, Agree(f, k, T)
    PROVE  g[T] = Total(k, T)
  <1>1. IsFiniteSet(T)
    BY FS_Subset
  <1>2. PICK h : Sums(h, T, k)
    BY <1>1, SumsExists
  <1>3. Sums(CHOOSE i : Sums(i, T, k), T, k)
    BY <1>2
  <1> DEFINE i == CHOOSE i : Sums(i, T, k)
  <1>4. Sums(i, T, k)
    BY <1>3
  <1> HIDE DEF i
  <1>5. g[T] = i[T]
    <2>1. T \in SUBSET T /\ T \in SUBSET D
      OBVIOUS
    <2> QED BY <1>1, <1>4, <2>1, SumsUnique
  <1> QED BY <1>5 DEF Total, i

LEMMA TotalOf ==
    ASSUME NEW D, IsFiniteSet(D), NEW f, NEW g, Sums(g, D, f)
    PROVE  \A T \in SUBSET D : g[T] = Total(f, T)
  <1> SUFFICES ASSUME NEW T \in SUBSET D PROVE g[T] = Total(f, T)
    OBVIOUS
  <1>1. Agree(f, f, T)
    BY DEF Agree
  <1> QED BY <1>1, TotalIs

LEMMA TotalSame ==
    ASSUME NEW T, IsFiniteSet(T), NEW f, NEW k, Agree(f, k, T)
    PROVE  Total(f, T) = Total(k, T)
  <1>1. PICK g : Sums(g, T, f)
    BY SumsExists
  <1>2. g[T] = Total(f, T) /\ g[T] = Total(k, T)
    <2>1. T \in SUBSET T
      OBVIOUS
    <2> QED BY <1>1, <2>1, TotalIs, TotalOf
  <1> QED BY <1>2

LEMMA TotalEmpty == ASSUME NEW f PROVE Total(f, {}) = 0
  <1>1. IsFiniteSet({})
    BY FS_EmptySet
  <1>2. PICK g : Sums(g, {}, f)
    BY <1>1, SumsExists
  <1>3. g[{}] = Total(f, {})
    <2>1. {} \in SUBSET {}
      OBVIOUS
    <2> QED BY <1>1, <1>2, <2>1, TotalOf
  <1> QED BY <1>2, <1>3 DEF Sums, Adds

LEMMA TotalPick ==
    ASSUME NEW T, IsFiniteSet(T), T # {}, NEW f
    PROVE  Total(f, T) = f[Pick(T)] + Total(f, T \ {Pick(T)})
  <1>1. PICK g : Sums(g, T, f)
    BY SumsExists
  <1>2. g[T] = f[Pick(T)] + g[T \ {Pick(T)}]
    BY <1>1 DEF Sums, Adds
  <1>3. \A t \in SUBSET T : g[t] = Total(f, t)
    BY <1>1, TotalOf
  <1>4. g[T] = Total(f, T) /\ g[T \ {Pick(T)}] = Total(f, T \ {Pick(T)})
    BY <1>3
  <1> QED BY <1>2, <1>4

LEMMA TotalType ==
    ASSUME NEW T, IsFiniteSet(T), NEW f, \A x \in T : f[x] \in Nat
    PROVE  Total(f, T) \in Nat
  <1> DEFINE S == {n \in Nat : \A s \in SUBSET T : Cardinality(s) = n => Total(f, s) \in Nat}
  <1>1. \A s \in SUBSET T : IsFiniteSet(s)
    BY FS_Subset
  <1>2. 0 \in S
    BY <1>1, FS_EmptySet, TotalEmpty
  <1>3. ASSUME NEW n \in S PROVE n + 1 \in S
    <2>1. ASSUME NEW s \in SUBSET T, Cardinality(s) = n + 1 PROVE Total(f, s) \in Nat
      <3>1. n \in Nat /\ IsFiniteSet(s)
        BY <1>1
      <3>2. s # {}
        BY <2>1, <3>1, FS_EmptySet
      <3>3. Pick(s) \in s
        BY <3>2, PickIs
      <3>4. Cardinality(s \ {Pick(s)}) = n
        BY <2>1, <3>1, <3>3, RemoveOne
      <3>5. Total(f, s \ {Pick(s)}) \in Nat /\ f[Pick(s)] \in Nat
        BY <1>3, <3>3, <3>4
      <3>6. Total(f, s) = f[Pick(s)] + Total(f, s \ {Pick(s)})
        BY <3>1, <3>2, TotalPick
      <3> QED BY <3>5, <3>6
    <2> QED BY <2>1
  <1> HIDE DEF S
  <1>4. S = Nat
    BY <1>2, <1>3, SetInduction DEF S
  <1>5. Cardinality(T) \in S
    BY <1>1, <1>4, FS_CardinalityType
  <1> QED BY <1>5 DEF S

\* The sum of one and the same number is a product.
LEMMA TotalConstant ==
    ASSUME NEW T, IsFiniteSet(T), NEW k \in Nat, NEW f, \A x \in T : f[x] = k
    PROVE  Total(f, T) = k * Cardinality(T)
  <1> DEFINE S == {n \in Nat : \A s \in SUBSET T : Cardinality(s) = n => Total(f, s) = k * n}
  <1>1. \A s \in SUBSET T : IsFiniteSet(s)
    BY FS_Subset
  <1>2. 0 \in S
    BY <1>1, FS_EmptySet, TotalEmpty
  <1>3. ASSUME NEW n \in S PROVE n + 1 \in S
    <2>1. ASSUME NEW s \in SUBSET T, Cardinality(s) = n + 1 PROVE Total(f, s) = k * (n + 1)
      <3>1. n \in Nat /\ IsFiniteSet(s)
        BY <1>1
      <3>2. s # {}
        BY <2>1, <3>1, FS_EmptySet
      <3>3. Pick(s) \in s
        BY <3>2, PickIs
      <3>4. Cardinality(s \ {Pick(s)}) = n
        BY <2>1, <3>1, <3>3, RemoveOne
      <3>5. Total(f, s \ {Pick(s)}) = k * n /\ f[Pick(s)] = k
        BY <1>3, <3>3, <3>4
      <3>6. Total(f, s) = f[Pick(s)] + Total(f, s \ {Pick(s)})
        BY <3>1, <3>2, TotalPick
      <3>7. k * (n + 1) = k + k * n
        BY <3>1
      <3> QED BY <3>5, <3>6, <3>7
    <2> QED BY <2>1
  <1> HIDE DEF S
  <1>4. S = Nat
    BY <1>2, <1>3, SetInduction DEF S
  <1>5. Cardinality(T) \in S
    BY <1>1, <1>4, FS_CardinalityType
  <1> QED BY <1>5 DEF S

\* Any element may be taken out first.
LEMMA TotalRemove ==
    ASSUME NEW T, IsFiniteSet(T), NEW f, \A x \in T : f[x] \in Nat, NEW e \in T
    PROVE  Total(f, T) = f[e] + Total(f, T \ {e})
  <1> DEFINE S == {n \in Nat : \A s \in SUBSET T : \A x \in s : Cardinality(s) = n =>
                                   Total(f, s) = f[x] + Total(f, s \ {x})}
  <1>1. \A s \in SUBSET T : IsFiniteSet(s)
    BY FS_Subset
  <1>2. 0 \in S
    BY <1>1, FS_EmptySet
  <1>3. ASSUME NEW n \in S PROVE n + 1 \in S
    <2>1. ASSUME NEW s \in SUBSET T, NEW x \in s, Cardinality(s) = n + 1
          PROVE  Total(f, s) = f[x] + Total(f, s \ {x})
      <3> DEFINE p == Pick(s)
      <3>1. n \in Nat /\ IsFiniteSet(s) /\ p \in s
        BY <1>1, PickIs
      <3> HIDE DEF p
      <3>2. Total(f, s) = f[p] + Total(f, s \ {p})
        BY <3>1, TotalPick DEF p
      <3>3. CASE x = p
        BY <3>2, <3>3
      <3>4. CASE x # p
        <4>1. Cardinality(s \ {p}) = n /\ Cardinality(s \ {x}) = n
          BY <2>1, <3>1, RemoveOne
        <4>2. /\ s \ {p} \in SUBSET T /\ x \in s \ {p}
              /\ s \ {x} \in SUBSET T /\ p \in s \ {x}
          BY <3>1, <3>4
        <4>3. Total(f, s \ {p}) = f[x] + Total(f, (s \ {p}) \ {x})
          BY <1>3, <4>1, <4>2
        <4>4. Total(f, s \ {x}) = f[p] + Total(f, (s \ {x}) \ {p})
          BY <1>3, <4>1, <4>2
        <4>5. (s \ {p}) \ {x} = (s \ {x}) \ {p}
          OBVIOUS
        <4>6. Total(f, (s \ {x}) \ {p}) \in Nat
          BY <1>1, TotalType
        <4>7. f[x] \in Nat /\ f[p] \in Nat
          BY <3>1
        <4> QED BY <3>2, <4>3, <4>4, <4>5, <4>6, <4>7
      <3> QED BY <3>3, <3>4
    <2> QED BY <2>1
  <1> HIDE DEF S
  <1>4. S = Nat
    BY <1>2, <1>3, SetInduction DEF S
  <1>5. Cardinality(T) \in S
    BY <1>1, <1>4, FS_CardinalityType
  <1> QED BY <1>5 DEF S

\* Sums are compared element by element: if every element of T has a counterpart
\* in U that is worth no less, and no two have the same, U adds up to no less.
LEMMA TotalMatched ==
    ASSUME NEW T, IsFiniteSet(T), NEW f, \A x \in T : f[x] \in Nat,
           NEW U, IsFiniteSet(U), NEW h, \A y \in U : h[y] \in Nat,
           NEW match \in [T -> U], \A x \in T : f[x] <= h[match[x]],
           \A x, y \in T : match[x] = match[y] => x = y
    PROVE  Total(f, T) <= Total(h, U)
  <1> DEFINE Matched(t, u) == \A x \in t : match[x] \in u
  <1> DEFINE S == {n \in Nat : \A t \in SUBSET T, u \in SUBSET U :
                       Cardinality(t) = n /\ Matched(t, u) => Total(f, t) <= Total(h, u)}
  <1>1. \A t \in SUBSET T : IsFiniteSet(t)
    BY FS_Subset
  <1>2. \A u \in SUBSET U : IsFiniteSet(u) /\ Total(h, u) \in Nat
    BY FS_Subset, TotalType
  <1>3. 0 \in S
    <2>1. ASSUME NEW t \in SUBSET T, NEW u \in SUBSET U, Cardinality(t) = 0
          PROVE  Total(f, t) <= Total(h, u)
      <3>1. t = {}
        BY <1>1, <2>1, FS_EmptySet
      <3> QED BY <1>2, <3>1, TotalEmpty
    <2> QED BY <2>1
  <1>4. ASSUME NEW n \in S PROVE n + 1 \in S
    <2>1. ASSUME NEW t \in SUBSET T, NEW u \in SUBSET U, Cardinality(t) = n + 1, Matched(t, u)
          PROVE  Total(f, t) <= Total(h, u)
      <3>1. n \in Nat /\ IsFiniteSet(t)
        BY <1>1
      <3>2. PICK x \in t : TRUE
        BY <2>1, <3>1, FS_EmptySet
      <3>3. Cardinality(t \ {x}) = n
        BY <2>1, <3>1, RemoveOne
      <3>4. Matched(t \ {x}, u \ {match[x]})
        BY <2>1
      <3>5. Total(f, t \ {x}) <= Total(h, u \ {match[x]})
        BY <1>4, <3>3, <3>4
      <3>6. match[x] \in u
        BY <2>1
      <3>7. Total(f, t) = f[x] + Total(f, t \ {x})
        BY <3>1, TotalRemove
      <3>8. Total(h, u) = h[match[x]] + Total(h, u \ {match[x]})
        BY <1>2, <3>6, TotalRemove
      <3>9. f[x] \in Nat /\ h[match[x]] \in Nat /\ f[x] <= h[match[x]]
        BY <3>6
      <3>10. Total(f, t \ {x}) \in Nat /\ Total(h, u \ {match[x]}) \in Nat
        BY <1>1, <1>2, TotalType
      <3> QED BY <3>5, <3>7, <3>8, <3>9, <3>10
    <2> QED BY <2>1
  <1> HIDE DEF S
  <1>5. S = Nat
    BY <1>3, <1>4, SetInduction DEF S
  <1>6. Cardinality(T) \in S
    BY <1>1, <1>5, FS_CardinalityType
  <1>7. Matched(T, U)
    OBVIOUS
  <1> QED BY <1>6, <1>7 DEF S

\* The sum over two sets with nothing in common.
LEMMA TotalUnion ==
    ASSUME NEW T, IsFiniteSet(T), NEW U, IsFiniteSet(U), T \cap U = {},
           NEW f, \A x \in T \cup U : f[x] \in Nat
    PROVE  Total(f, T \cup U) = Total(f, T) + Total(f, U)
  <1> DEFINE S == {n \in Nat : \A t \in SUBSET T : Cardinality(t) = n =>
                                   Total(f, t \cup U) = Total(f, t) + Total(f, U)}
  <1>1. \A t \in SUBSET T : IsFiniteSet(t) /\ IsFiniteSet(t \cup U)
    BY FS_Subset, FS_Union
  <1>2. Total(f, U) \in Nat
    BY TotalType
  <1>3. 0 \in S
    <2>1. ASSUME NEW t \in SUBSET T, Cardinality(t) = 0
          PROVE  Total(f, t \cup U) = Total(f, t) + Total(f, U)
      <3>1. t = {} /\ t \cup U = U
        BY <1>1, <2>1, FS_EmptySet
      <3> QED BY <1>2, <3>1, TotalEmpty
    <2> QED BY <2>1
  <1>4. ASSUME NEW n \in S PROVE n + 1 \in S
    <2>1. ASSUME NEW t \in SUBSET T, Cardinality(t) = n + 1
          PROVE  Total(f, t \cup U) = Total(f, t) + Total(f, U)
      <3>1. n \in Nat /\ IsFiniteSet(t)
        BY <1>1
      <3>2. PICK x \in t : TRUE
        BY <2>1, <3>1, FS_EmptySet
      <3>3. Cardinality(t \ {x}) = n
        BY <2>1, <3>1, RemoveOne
      <3>4. Total(f, (t \ {x}) \cup U) = Total(f, t \ {x}) + Total(f, U)
        BY <1>4, <3>3
      <3>5. Total(f, t) = f[x] + Total(f, t \ {x})
        BY <3>1, TotalRemove
      <3>6. (t \cup U) \ {x} = (t \ {x}) \cup U
        BY <3>2
      <3>7. Total(f, t \cup U) = f[x] + Total(f, (t \ {x}) \cup U)
        <4>1. IsFiniteSet(t \cup U) /\ x \in t \cup U /\ \A y \in t \cup U : f[y] \in Nat
          BY <1>1
        <4> QED BY <3>6, <4>1, TotalRemove
      <3>8. Total(f, t \ {x}) \in Nat /\ f[x] \in Nat
        BY <1>1, TotalType
      <3> QED BY <1>2, <3>4, <3>5, <3>7, <3>8
    <2> QED BY <2>1
  <1> HIDE DEF S
  <1>5. S = Nat
    BY <1>3, <1>4, SetInduction DEF S
  <1>6. Cardinality(T) \in S
    BY <1>5, FS_CardinalityType
  <1> QED BY <1>6 DEF S

InClass(I, class, d) == {i \in I : class[i] = d}

\* A set taken apart into classes is summed class by class.
LEMMA TotalByClass ==
    ASSUME NEW I, IsFiniteSet(I), NEW a, \A i \in I : a[i] \in Nat,
           NEW D, IsFiniteSet(D), NEW class \in [I -> D],
           NEW f, \A d \in D : f[d] = Total(a, InClass(I, class, d))
    PROVE  Total(f, D) = Total(a, I)
  <1> DEFINE Of(T) == {i \in I : class[i] \in T}
             S == {n \in Nat : \A T \in SUBSET D : Cardinality(T) = n => Total(f, T) = Total(a, Of(T))}
  <1>1. \A T \in SUBSET D : IsFiniteSet(T) /\ IsFiniteSet(Of(T)) /\ Of(T) \in SUBSET I
    BY FS_Subset
  <1>2. 0 \in S
    <2>1. Of({}) = {}
      OBVIOUS
    <2> QED BY <1>1, <2>1, FS_EmptySet, TotalEmpty
  <1>3. ASSUME NEW n \in S PROVE n + 1 \in S
    <2>1. ASSUME NEW T \in SUBSET D, Cardinality(T) = n + 1 PROVE Total(f, T) = Total(a, Of(T))
      <3>1. n \in Nat /\ IsFiniteSet(T)
        BY <1>1
      <3>2. PICK d \in T : TRUE
        BY <2>1, <3>1, FS_EmptySet
      <3>3. Cardinality(T \ {d}) = n
        BY <2>1, <3>1, RemoveOne
      <3>4. Total(f, T \ {d}) = Total(a, Of(T \ {d}))
        BY <1>3, <3>3
      <3> DEFINE C == {i \in I : class[i] = d}
      <3>5. /\ IsFiniteSet(Of(T \ {d})) /\ IsFiniteSet(C)
            /\ Of(T) = Of(T \ {d}) \cup C /\ Of(T \ {d}) \cap C = {}
        BY <1>1, FS_Subset
      <3>6. f[d] = Total(a, C)
        BY DEF InClass
      <3>7. Total(a, Of(T)) = Total(a, Of(T \ {d})) + Total(a, C)
        <4> DEFINE P == Of(T \ {d})
        <4>1. \A i \in P \cup C : a[i] \in Nat
          OBVIOUS
        <4>2. IsFiniteSet(P) /\ IsFiniteSet(C) /\ P \cap C = {} /\ Of(T) = P \cup C
          BY <3>5
        <4> HIDE DEF P, C
        <4>3. Total(a, P \cup C) = Total(a, P) + Total(a, C)
          BY <4>1, <4>2, TotalUnion
        <4> QED BY <4>2, <4>3 DEF P
      <3>8. \A x \in T : f[x] \in Nat
        <4> SUFFICES ASSUME NEW x \in T PROVE f[x] \in Nat
          OBVIOUS
        <4> DEFINE X == {i \in I : class[i] = x}
        <4>1. IsFiniteSet(X) /\ \A i \in X : a[i] \in Nat
          BY FS_Subset
        <4>2. f[x] = Total(a, X)
          BY DEF InClass
        <4> HIDE DEF X
        <4> QED BY <4>1, <4>2, TotalType
      <3>9. Total(f, T) = f[d] + Total(f, T \ {d})
        BY <3>1, <3>8, TotalRemove
      <3>10. Total(a, C) \in Nat /\ Total(a, Of(T \ {d})) \in Nat
        BY <3>5, TotalType
      <3> HIDE DEF Of, C
      <3> QED BY <3>4, <3>6, <3>7, <3>9, <3>10
    <2> QED BY <2>1
  <1> HIDE DEF S
  <1>4. S = Nat
    BY <1>2, <1>3, SetInduction DEF S
  <1>5. Cardinality(D) \in S
    BY <1>4, FS_CardinalityType
  <1>6. Of(D) = I
    OBVIOUS
  <1> QED BY <1>5, <1>6 DEF S

-----------------------------------------------------------------------------
(* The fold of a sequence of length n from its first entry on: FoldLeft     *)
(* takes the largest index away, until none is left.                        *)

LEMMA IndicesAre ==
    ASSUME NEW n \in Nat
    PROVE  /\ IsFiniteSet(1 .. n) /\ Cardinality(1 .. n) = n
           /\ \A s \in SUBSET (1 .. n) : IsFiniteSet(s) /\ Cardinality(s) \in Nat /\ Cardinality(s) <= n
  <1> DEFINE D == 1 .. n
  <1>1. IsFiniteSet(D) /\ Cardinality(D) = n
    BY FS_Interval
  <1> HIDE DEF D
  <1>2. \A s \in SUBSET D : IsFiniteSet(s) /\ Cardinality(s) \in Nat /\ Cardinality(s) <= n
    BY <1>1, FS_Subset, FS_CardinalityType
  <1> QED BY <1>1, <1>2 DEF D

\* The largest of some indices.
LEMMA MaxIs ==
    ASSUME NEW n \in Nat, NEW s \in SUBSET (1 .. n), s # {}
    PROVE  Max(s) \in s /\ \A y \in s : Max(s) >= y
  <1> DEFINE S == {m \in Nat : \A x \in s : n - x >= m}
  <1>1. 0 \in S
    OBVIOUS
  <1>2. n + 1 \notin S
    <2>1. PICK x \in s : TRUE
      OBVIOUS
    <2>2. n - x \in Nat /\ ~(n - x >= n + 1)
      BY <2>1
    <2> QED BY <2>2
  <1>3. S # Nat
    BY <1>2
  <1> HIDE DEF S
  <1>4. PICK m \in S : m + 1 \notin S
    BY <1>1, <1>3, SetInduction DEF S
  <1>5. PICK x \in s : n - x < m + 1 /\ n - x >= m
    BY <1>4 DEF S
  <1>6. \A y \in s : x >= y
    BY <1>4, <1>5 DEF S
  <1> QED BY <1>6 DEF Max

\* The indices up to k + 1 are those up to k and one more.
LEMMA PrefixIs ==
    ASSUME NEW k \in Nat
    PROVE  /\ 1 .. (k + 1) # {} /\ Max(1 .. (k + 1)) = k + 1
           /\ (1 .. (k + 1)) \ {k + 1} = 1 .. k /\ 1 .. (k + 1) = (1 .. k) \cup {k + 1}
           /\ 1 .. 0 = {}
  <1>1. k + 1 \in 1 .. (k + 1) /\ \A y \in 1 .. (k + 1) : k + 1 >= y
    OBVIOUS
  <1>2. \A x \in 1 .. (k + 1) : x >= k + 1 => x = k + 1
    OBVIOUS
  <1>3. Max(1 .. (k + 1)) = k + 1
    BY <1>1, <1>2 DEF Max
  <1> QED BY <1>1, <1>3

\* g[s] is the fold over the indices in s, for every s in Q: b for none, and F
\* applied to what the others give and the largest.
FoldsOn(g, Q, F, b) ==
    g = [s \in Q |-> IF s = {} THEN b ELSE F[<<g[s \ {Max(s)}], Max(s)>>]]

LEMMA BelowIs ==
    ASSUME NEW n \in Nat, NEW m \in Nat, NEW s \in Small(1 .. n, m + 1), s # {}
    PROVE  s \ {Max(s)} \in Small(1 .. n, m)
  <1>1. s \in SUBSET (1 .. n) /\ Cardinality(s) <= m + 1 /\ IsFiniteSet(s)
    BY IndicesAre DEF Small
  <1>2. Max(s) \in s
    BY <1>1, MaxIs
  <1>3. Cardinality(s \ {Max(s)}) = Cardinality(s) - 1 /\ Cardinality(s) \in Nat
    BY <1>1, <1>2, FS_RemoveElement, FS_CardinalityType
  <1>4. Cardinality(s \ {Max(s)}) <= m
    <2> HIDE DEF Max
    <2> QED BY <1>1, <1>3
  <1>5. s \ {Max(s)} \in SUBSET (1 .. n)
    BY <1>1
  <1> QED BY <1>4, <1>5 DEF Small

\* The recursion has a solution.
LEMMA FoldsExist ==
    ASSUME NEW n \in Nat, NEW F, NEW b
    PROVE  \E g : FoldsOn(g, SUBSET (1 .. n), F, b)
  <1> DEFINE S == {m \in Nat : \E g : FoldsOn(g, Small(1 .. n, m), F, b)}
  <1>1. 0 \in S
    <2> DEFINE g == [s \in Small(1 .. n, 0) |-> b]
    <2>1. \A s \in Small(1 .. n, 0) : s = {}
      <3> SUFFICES ASSUME NEW s \in Small(1 .. n, 0) PROVE s = {}
        OBVIOUS
      <3>1. IsFiniteSet(s) /\ Cardinality(s) <= 0
        BY IndicesAre DEF Small
      <3> QED BY <3>1, FS_CardinalityType, FS_EmptySet
    <2>2. FoldsOn(g, Small(1 .. n, 0), F, b)
      BY <2>1 DEF FoldsOn
    <2> QED BY <2>2
  <1>2. ASSUME NEW m \in S PROVE m + 1 \in S
    <2>1. PICK g : FoldsOn(g, Small(1 .. n, m), F, b)
      BY <1>2
    <2> DEFINE step(k, s) == IF s = {} THEN b ELSE F[<<k[s \ {Max(s)}], Max(s)>>]
               h == [s \in Small(1 .. n, m + 1) |-> step(g, s)]
    <2>2. \A s \in Small(1 .. n, m) : s \in Small(1 .. n, m + 1) /\ h[s] = g[s]
      <3>1. m \in Nat
        OBVIOUS
      <3>2. ASSUME NEW s \in Small(1 .. n, m) PROVE s \in Small(1 .. n, m + 1)
        <4>1. Cardinality(s) \in Nat /\ Cardinality(s) <= m
          BY IndicesAre DEF Small
        <4> QED BY <3>1, <4>1 DEF Small
      <3>3. \A s \in Small(1 .. n, m) : g[s] = step(g, s)
        BY <2>1 DEF FoldsOn
      <3> QED BY <3>2, <3>3
    <2>3. ASSUME NEW s \in Small(1 .. n, m + 1), s # {}
          PROVE  h[s \ {Max(s)}] = g[s \ {Max(s)}]
      <3>1. s \ {Max(s)} \in Small(1 .. n, m)
        BY <2>3, BelowIs
      <3> QED BY <3>1, <2>2
    <2>4. h = [s \in Small(1 .. n, m + 1) |-> step(h, s)]
      <3>1. \A s \in Small(1 .. n, m + 1) : h[s] = step(h, s)
        <4> HIDE DEF h
        <4>1. \A s \in Small(1 .. n, m + 1) : h[s] = step(g, s)
          BY DEF h
        <4> QED BY <2>3, <4>1
      <3> QED BY <3>1
    <2> HIDE DEF h
    <2>5. \E k : FoldsOn(k, Small(1 .. n, m + 1), F, b)
      BY <2>4 DEF FoldsOn
    <2> QED BY <2>5
  <1> HIDE DEF S
  <1>3. S = Nat
    BY <1>1, <1>2, SetInduction DEF S
  <1>4. n \in S
    BY <1>3
  <1>5. Small(1 .. n, n) = SUBSET (1 .. n)
    <2>1. ASSUME NEW s \in SUBSET (1 .. n) PROVE Cardinality(s) <= n
      BY IndicesAre
    <2> QED BY <2>1 DEF Small
  <1> QED BY <1>4, <1>5 DEF S

\* What F keeps, the fold keeps.
LEMMA FoldsClosed ==
    ASSUME NEW n \in Nat, NEW Acc, NEW b \in Acc, NEW F \in [Acc \X (1 .. n) -> Acc]
    PROVE  \E g : /\ FoldsOn(g, SUBSET (1 .. n), F, b)
                  /\ \A s \in SUBSET (1 .. n) : g[s] \in Acc
  <1>1. PICK g : FoldsOn(g, SUBSET (1 .. n), F, b)
    BY FoldsExist
  <1>2. \A s \in SUBSET (1 .. n) : g[s] = IF s = {} THEN b ELSE F[<<g[s \ {Max(s)}], Max(s)>>]
    BY <1>1 DEF FoldsOn
  <1> DEFINE S == {m \in Nat : \A s \in SUBSET (1 .. n) : Cardinality(s) = m => g[s] \in Acc}
  <1>3. \A s \in SUBSET (1 .. n) : IsFiniteSet(s)
    BY IndicesAre
  <1>4. 0 \in S
    BY <1>2, <1>3, FS_EmptySet
  <1>5. ASSUME NEW m \in S PROVE m + 1 \in S
    <2>1. ASSUME NEW s \in SUBSET (1 .. n), Cardinality(s) = m + 1 PROVE g[s] \in Acc
      <3>1. s # {} /\ m \in Nat
        BY <1>3, <2>1, FS_EmptySet
      <3>2. Max(s) \in s
        BY <3>1, MaxIs
      <3>3. Cardinality(s \ {Max(s)}) = m
        BY <1>3, <2>1, <3>1, <3>2, RemoveOne
      <3>4. g[s \ {Max(s)}] \in Acc
        BY <1>5, <3>3
      <3> QED BY <1>2, <3>1, <3>2, <3>4
    <2> QED BY <2>1
  <1> HIDE DEF S
  <1>6. S = Nat
    BY <1>4, <1>5, SetInduction DEF S
  <1>7. \A s \in SUBSET (1 .. n) : Cardinality(s) \in S
    BY <1>3, <1>6, FS_CardinalityType
  <1> QED BY <1>1, <1>7 DEF S

=============================================================================
