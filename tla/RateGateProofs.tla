--------------------------- MODULE RateGateProofs ---------------------------
(***************************************************************************)
(* Two buckets one after the other limit both addresses and payers, for    *)
(* any callers, quotas and windows, though a request may take a slot of    *)
(* the first and be refused or lost at the second: every bucket counts at  *)
(* least what comes past it, in every window.                              *)
(***************************************************************************)
EXTENDS RateGate, WellFoundedInduction, FiniteSetTheorems, TLAPS

\* The hits of a list that are in the window that ends at this time.
Late(list, at) == {i \in DOMAIN list : list[i] + Window > at}

Sorted(list) == \A i, j \in DOMAIN list : i <= j => list[i] <= list[j]

Past(list) == \A i \in DOMAIN list : list[i] <= now

\* Every window holds no more that passed than was counted.
Covered(b) == \A at \in Nat : Cardinality(Late(passed[b], at)) <= Cardinality(Late(counted[b], at))

\* A bucket is never over its quota, and below it when a wait it has named is over.
Bounded(b) == /\ Cardinality(Late(counted[b], now)) <= QuotaOf(b)
              /\ told[b] = Never \/ Cardinality(Late(counted[b], told[b])) < QuotaOf(b)

\* Of Quota + 1 requests in a row, the last came a window after the first.
Spaced(b) == \A i \in DOMAIN passed[b] :
                 i + QuotaOf(b) \in DOMAIN passed[b] =>
                     passed[b][i + QuotaOf(b)] >= passed[b][i] + Window

BucketInv(b) == /\ Past(counted[b]) /\ Past(passed[b]) /\ Sorted(passed[b])
                /\ Covered(b) /\ Bounded(b) /\ Spaced(b)

Inv == TypeOK /\ \A b \in Bucket : BucketInv(b)

LEMMA QuotaIs == ASSUME NEW b \in Bucket PROVE QuotaOf(b) \in Nat \ {0}
  BY RateGateAssumption DEF QuotaOf

LEMMA InWindowIs == ASSUME NEW b \in Bucket PROVE InWindow(b) = Late(counted[b], now)
  BY DEF InWindow, Sliding!InWindow, Late

LEMMA LateFinite ==
    ASSUME NEW list \in Seq(Nat), NEW at \in Nat
    PROVE  IsFiniteSet(Late(list, at)) /\ Cardinality(Late(list, at)) \in Nat
  <1>1. Late(list, at) \subseteq 1 .. Len(list)
    BY DEF Late
  <1>2. IsFiniteSet(1 .. Len(list))
    BY FS_Interval
  <1> QED BY <1>1, <1>2, FS_Subset, FS_CardinalityType

\* Later windows hold less of a list.
LEMMA LateShrinks ==
    ASSUME NEW list \in Seq(Nat), NEW at \in Nat, NEW later \in Nat, at <= later
    PROVE  /\ Late(list, later) \subseteq Late(list, at)
           /\ Cardinality(Late(list, later)) <= Cardinality(Late(list, at))
  <1>1. Late(list, later) \subseteq Late(list, at)
    BY RateGateAssumption DEF Late
  <1> QED BY <1>1, LateFinite, FS_Subset

LEMMA AppendIs ==
    ASSUME NEW list \in Seq(Nat), NEW t \in Nat
    PROVE  /\ DOMAIN Append(list, t) = DOMAIN list \cup {Len(list) + 1}
           /\ Append(list, t)[Len(list) + 1] = t
           /\ \A i \in DOMAIN list : /\ i < Len(list) + 1 /\ i \in Nat
                                     /\ Append(list, t)[i] = list[i] /\ list[i] \in Nat
  OBVIOUS

\* A hit more is in the windows that reach back to it.
LEMMA LateAppend ==
    ASSUME NEW list \in Seq(Nat), NEW t \in Nat, NEW at \in Nat
    PROVE  Cardinality(Late(Append(list, t), at)) =
               Cardinality(Late(list, at)) + (IF t + Window > at THEN 1 ELSE 0)
  <1> DEFINE n == Len(list) + 1
  <1>1. /\ Append(list, t) \in Seq(Nat) /\ DOMAIN Append(list, t) = DOMAIN list \cup {n}
        /\ n \notin DOMAIN list /\ Append(list, t)[n] = t
        /\ \A i \in DOMAIN list : Append(list, t)[i] = list[i]
    OBVIOUS
  <1>2. CASE t + Window > at
    <2>1. Late(Append(list, t), at) = Late(list, at) \cup {n}
      BY <1>1, <1>2 DEF Late
    <2>2. n \notin Late(list, at)
      BY <1>1 DEF Late
    <2> HIDE DEF n
    <2>3. Cardinality(Late(list, at) \cup {n}) = Cardinality(Late(list, at)) + 1
      BY <2>2, LateFinite, FS_AddElement
    <2> QED BY <1>2, <2>1, <2>3
  <1>3. CASE ~(t + Window > at)
    <2>1. Late(Append(list, t), at) = Late(list, at)
      BY <1>1, <1>3 DEF Late
    <2> QED BY <1>3, <2>1, LateFinite
  <1> QED BY <1>2, <1>3

LEMMA InitInv == Init => Inv
  <1> SUFFICES ASSUME Init PROVE Inv
    OBVIOUS
  <1>1. TypeOK
    BY RateGateAssumption DEF Init, TypeOK, Request, Never
  <1>2. ASSUME NEW b \in Bucket PROVE BucketInv(b)
    <2>1. counted[b] = << >> /\ passed[b] = << >> /\ told[b] = Never
      BY <1>2 DEF Init
    <2>2. \A at : Late(passed[b], at) = {} /\ Late(counted[b], at) = {}
      BY <2>1 DEF Late
    <2>3. Cardinality({}) = 0
      BY FS_EmptySet
    <2>4. Covered(b)
      <3> SUFFICES ASSUME NEW at \in Nat
                   PROVE  Cardinality(Late(passed[b], at)) <= Cardinality(Late(counted[b], at))
        BY DEF Covered
      <3> QED BY <2>2, <2>3
    <2>5. Bounded(b)
      <3>1. Cardinality(Late(counted[b], now)) = 0
        BY <2>2, <2>3
      <3> QED BY <2>1, <3>1, QuotaIs DEF Bounded
    <2> QED BY <2>1, <2>4, <2>5 DEF BucketInv, Past, Sorted, Spaced
  <1> QED BY <1>1, <1>2 DEF Inv

-----------------------------------------------------------------------------
(* What a step does to a bucket.                                           *)

\* Time passes.
LEMMA TickBucket ==
    ASSUME Inv, NEW b \in Bucket, now' = now + 1,
           UNCHANGED <<counted[b], passed[b], told[b]>>
    PROVE  BucketInv(b)'
  <1>1. BucketInv(b) /\ now \in Nat /\ counted[b] \in Seq(Nat) /\ passed[b] \in Seq(Nat)
    BY DEF Inv, TypeOK
  <1>2. Past(counted[b])' /\ Past(passed[b])' /\ Sorted(passed[b])' /\ Covered(b)' /\ Spaced(b)'
    BY <1>1 DEF BucketInv, Past, Sorted, Covered, Late, Spaced, QuotaOf
  <1>3. Cardinality(Late(counted[b], now + 1)) <= Cardinality(Late(counted[b], now))
    BY <1>1, LateShrinks
  <1>4. QuotaOf(b) \in Nat /\ Cardinality(Late(counted[b], now + 1)) \in Nat
        /\ Cardinality(Late(counted[b], now)) \in Nat
    <2>1. now + 1 \in Nat
      BY <1>1
    <2> QED BY <1>1, <2>1, QuotaIs, LateFinite
  <1>5. Bounded(b)'
    <2>1. Cardinality(Late(counted[b], now + 1)) <= QuotaOf(b)
      BY <1>1, <1>3, <1>4 DEF BucketInv, Bounded
    <2> QED BY <1>1, <2>1 DEF BucketInv, Bounded, QuotaOf, Late, Never
  <1> QED BY <1>2, <1>5 DEF BucketInv

\* A bucket that nothing touches.
LEMMA SameBucket ==
    ASSUME Inv, NEW b \in Bucket, UNCHANGED <<now, counted[b], passed[b], told[b]>>
    PROVE  BucketInv(b)'
  BY DEF Inv, BucketInv, Past, Sorted, Covered, Bounded, Late, Spaced, QuotaOf, Never

\* A bucket counts a hit, which comes past it or is lost.
LEMMA CountBucket ==
    ASSUME Inv, NEW b \in Bucket, Fits(b), now' = now,
           counted'[b] = Append(counted[b], now), told'[b] = Never,
           passed'[b] \in {passed[b], Append(passed[b], now)}
    PROVE  BucketInv(b)'
  <1>1. /\ BucketInv(b) /\ now \in Nat /\ counted[b] \in Seq(Nat) /\ passed[b] \in Seq(Nat)
        /\ QuotaOf(b) \in Nat \ {0}
    BY QuotaIs DEF Inv, TypeOK
  <1>2. Past(counted[b])' /\ Past(passed[b])' /\ Sorted(passed[b])'
    <2>1. Past(counted[b]) /\ Past(passed[b]) /\ Sorted(passed[b])
      BY <1>1 DEF BucketInv
    <2>2. Past(counted[b])'
      BY <1>1, <2>1, AppendIs DEF Past
    <2>3. Past(passed[b])'
      <3>1. CASE passed'[b] = passed[b]
        BY <2>1, <3>1 DEF Past
      <3>2. CASE passed'[b] = Append(passed[b], now)
        BY <1>1, <2>1, <3>2, AppendIs DEF Past
      <3> QED BY <3>1, <3>2
    <2>4. Sorted(passed[b])'
      <3>1. CASE passed'[b] = passed[b]
        BY <2>1, <3>1 DEF Sorted
      <3>2. CASE passed'[b] = Append(passed[b], now)
        <4> SUFFICES ASSUME NEW i \in DOMAIN passed'[b], NEW j \in DOMAIN passed'[b], i <= j
                     PROVE  passed'[b][i] <= passed'[b][j]
          BY DEF Sorted
        <4>1. CASE j \in DOMAIN passed[b]
          <5>1. i \in DOMAIN passed[b]
            BY <1>1, <3>2, <4>1, AppendIs
          <5> QED BY <1>1, <2>1, <3>2, <4>1, <5>1, AppendIs DEF Sorted
        <4>2. CASE j = Len(passed[b]) + 1
          BY <1>1, <2>1, <3>2, <4>2, AppendIs DEF Past
        <4> QED BY <1>1, <3>2, <4>1, <4>2, AppendIs
      <3> QED BY <3>1, <3>2
    <2> QED BY <2>2, <2>3, <2>4
  <1>3. Covered(b)'
    <2> SUFFICES ASSUME NEW at \in Nat
                 PROVE  Cardinality(Late(passed'[b], at)) <= Cardinality(Late(counted'[b], at))
      BY DEF Covered, Late
    <2>1. /\ Cardinality(Late(passed[b], at)) <= Cardinality(Late(counted[b], at))
          /\ Cardinality(Late(passed[b], at)) \in Nat /\ Cardinality(Late(counted[b], at)) \in Nat
      BY <1>1, LateFinite DEF BucketInv, Covered
    <2>2. Cardinality(Late(counted'[b], at)) =
              Cardinality(Late(counted[b], at)) + (IF now + Window > at THEN 1 ELSE 0)
      BY <1>1, LateAppend
    <2>3. CASE passed'[b] = passed[b]
      BY <2>1, <2>2, <2>3
    <2>4. CASE passed'[b] = Append(passed[b], now)
      <3>1. Cardinality(Late(passed'[b], at)) =
                Cardinality(Late(passed[b], at)) + (IF now + Window > at THEN 1 ELSE 0)
        BY <1>1, <2>4, LateAppend
      <3> QED BY <2>1, <2>2, <3>1
    <2> QED BY <2>3, <2>4
  <1>4. Cardinality(Late(counted[b], now)) < QuotaOf(b) /\ Cardinality(Late(counted[b], now)) \in Nat
    BY <1>1, InWindowIs, LateFinite DEF Fits
  <1>5. Bounded(b)'
    <2>1. Cardinality(Late(counted'[b], now)) = Cardinality(Late(counted[b], now)) + 1
      BY <1>1, LateAppend, RateGateAssumption
    <2>2. Cardinality(Late(counted'[b], now)) <= QuotaOf(b)
      BY <1>1, <1>4, <2>1
    <2> QED BY <2>2 DEF Bounded, Late, QuotaOf, Never
  <1>6. Spaced(b)'
    <2>1. CASE passed'[b] = passed[b]
      BY <1>1, <2>1 DEF BucketInv, Spaced, QuotaOf
    <2>2. CASE passed'[b] = Append(passed[b], now)
      <3> DEFINE n == Len(passed[b])
                 quota == QuotaOf(b)
      <3>1. ASSUME NEW i \in 1 .. n, i + quota = n + 1 PROVE now >= passed[b][i] + Window
        <4> SUFFICES ASSUME passed[b][i] + Window > now PROVE FALSE
          BY <1>1, RateGateAssumption
        <4>1. i .. n \subseteq Late(passed[b], now)
          <5> SUFFICES ASSUME NEW j \in i .. n PROVE j \in Late(passed[b], now)
            OBVIOUS
          <5>1. i \in DOMAIN passed[b] /\ j \in DOMAIN passed[b] /\ i <= j
            BY <1>1
          <5>2. passed[b][i] <= passed[b][j]
            BY <1>1, <5>1 DEF BucketInv, Sorted
          <5>3. passed[b][i] \in Nat /\ passed[b][j] \in Nat /\ now \in Nat /\ Window \in Nat
            <6>1. passed[b] \in Seq(Nat) /\ now \in Nat /\ Window \in Nat
              BY <1>1, RateGateAssumption
            <6>2. passed[b][i] \in Nat /\ passed[b][j] \in Nat
              BY <5>1, <6>1, AppendIs
            <6> QED BY <6>1, <6>2
          <5>4. passed[b][j] + Window > now
            <6> DEFINE x == passed[b][i]
                       y == passed[b][j]
            <6>1. x <= y /\ x \in Nat /\ y \in Nat /\ x + Window > now
              BY <5>2, <5>3
            <6> HIDE DEF x, y
            <6>2. y + Window > now
              BY <5>3, <6>1
            <6> QED BY <6>2 DEF y
          <5> QED BY <5>1, <5>4 DEF Late
        <4>2. Cardinality(i .. n) = n - i + 1
          <5>1. i \in Int /\ n \in Int /\ ~(i > n)
            BY <1>1
          <5> HIDE DEF n
          <5> QED BY <5>1, FS_Interval
        <4>3. Cardinality(i .. n) <= Cardinality(Late(passed[b], now))
          BY <1>1, <4>1, LateFinite, FS_Subset
        <4>4. /\ Cardinality(Late(passed[b], now)) <= Cardinality(Late(counted[b], now))
              /\ Cardinality(Late(passed[b], now)) \in Nat
          BY <1>1, LateFinite DEF BucketInv, Covered
        <4>5. n - i + 1 = quota
          BY <1>1, <3>1
        <4> HIDE DEF n, quota
        <4> QED BY <1>1, <1>4, <4>2, <4>3, <4>4, <4>5 DEF quota
      <3>2. \A i \in 1 .. n : passed'[b][i] = passed[b][i]
        BY <1>1, <2>2
      <3>3. passed'[b][n + 1] = now /\ DOMAIN passed'[b] = 1 .. n + 1 /\ DOMAIN passed[b] = 1 .. n
        BY <1>1, <2>2
      <3>4. ASSUME NEW i \in 1 .. n + 1, i + quota \in 1 .. n + 1
            PROVE  passed'[b][i + quota] >= passed'[b][i] + Window
        <4>1. i \in 1 .. n /\ n \in Nat
          BY <1>1, <3>4
        <4>2. CASE i + quota = n + 1
          BY <3>1, <3>2, <3>3, <4>1, <4>2
        <4>3. CASE i + quota # n + 1
          <5>1. i + quota \in 1 .. n
            <6> HIDE DEF n, quota
            <6> QED BY <3>4, <4>1, <4>3
          <5>2. passed[b][i + quota] >= passed[b][i] + Window
            BY <1>1, <3>3, <4>1, <5>1 DEF BucketInv, Spaced
          <5> QED BY <3>2, <4>1, <5>1, <5>2
        <4> QED BY <4>2, <4>3
      <3>5. QuotaOf(b)' = quota
        BY DEF QuotaOf
      <3> HIDE DEF n, quota
      <3> QED BY <3>3, <3>4, <3>5 DEF Spaced
    <2> QED BY <2>1, <2>2
  <1> QED BY <1>2, <1>3, <1>5, <1>6 DEF BucketInv

\* A multiple of b that is no less than a.
LEMMA CeilIs ==
    ASSUME NEW a \in Nat, NEW b \in Nat \ {0}
    PROVE  CeilDiv(a, b) \in Nat /\ a <= b * CeilDiv(a, b)
  <1>1. PICK q \in Int : q = (a + b - 1) \div b
    OBVIOUS
  <1>2. q * b <= a + b - 1 /\ a + b - 1 < q * b + b
    BY <1>1, SMTT(30)
  <1>3. q \in Nat
    BY <1>1, <1>2, SMTT(30)
  <1>4. b * q = q * b /\ q * b \in Int
    BY <1>3, SMTT(30)
  <1>5. CeilDiv(a, b) = q
    BY <1>1 DEF CeilDiv
  <1> QED BY <1>2, <1>3, <1>4, <1>5

\* A full bucket has an oldest hit, which has left the window when the wait is over.
LEMMA WaitIs ==
    ASSUME Inv, NEW b \in Bucket, ~Fits(b)
    PROVE  /\ now + Second * RetryAfter(b) \in Nat
           /\ Cardinality(Late(counted[b], now + Second * RetryAfter(b))) < QuotaOf(b)
  <1>1. /\ BucketInv(b) /\ now \in Nat /\ counted[b] \in Seq(Nat) /\ QuotaOf(b) \in Nat \ {0}
        /\ InWindow(b) = Late(counted[b], now)
    BY QuotaIs, InWindowIs DEF Inv, TypeOK
  <1>2. IsFiniteSet(Late(counted[b], now)) /\ Cardinality(Late(counted[b], now)) \in Nat
    BY <1>1, LateFinite
  <1>3. InWindow(b) # {}
    BY <1>1, <1>2, FS_EmptySet DEF Fits
  <1> DEFINE First(k) == k \in InWindow(b) /\ \A j \in InWindow(b) : k <= j
             oldest == CHOOSE i \in InWindow(b) : \A j \in InWindow(b) : i <= j
  <1>4. InWindow(b) \subseteq Nat
    BY <1>1 DEF Late
  <1>5. PICK k \in InWindow(b) : \A j \in InWindow(b) : k <= j
    <2>1. \E k \in InWindow(b) : \A j \in InWindow(b) : ~(<<j, k>> \in OpToRel(<, Nat))
      BY <1>3, <1>4, WFMin, NatLessThanWellFounded
    <2>2. \A j, k \in InWindow(b) : j < k => <<j, k>> \in OpToRel(<, Nat)
      BY <1>4 DEF OpToRel
    <2>3. \A j, k \in InWindow(b) : ~(j < k) => k <= j
      BY <1>4
    <2> QED BY <2>1, <2>2, <2>3
  <1>6. oldest \in InWindow(b)
    BY <1>5
  <1> HIDE DEF oldest
  <1>7. /\ oldest \in DOMAIN counted[b] /\ counted[b][oldest] \in Nat
        /\ counted[b][oldest] + Window > now
    BY <1>1, <1>6 DEF Late
  <1> DEFINE rest == counted[b][oldest] + Window - now
             over == now + Second * RetryAfter(b)
  <1>8. rest \in Nat /\ Second \in Nat \ {0}
    BY <1>1, <1>7, RateGateAssumption
  <1>9. RetryAfter(b) = CeilDiv(rest, Second)
    BY DEF RetryAfter, Oldest, oldest
  <1>10. RetryAfter(b) \in Nat /\ rest <= Second * RetryAfter(b)
    <2> HIDE DEF rest
    <2> QED BY <1>8, <1>9, CeilIs
  <1>11. Second * RetryAfter(b) \in Nat
    BY <1>8, <1>10, SMTT(30)
  <1>12. over \in Nat /\ now <= over /\ counted[b][oldest] + Window <= over
    <2> DEFINE w == Second * RetryAfter(b)
    <2>1. w \in Nat /\ rest <= w /\ over = now + w
      BY <1>10, <1>11
    <2> HIDE DEF w, over
    <2> QED BY <1>1, <1>7, <2>1, RateGateAssumption
  <1> HIDE DEF over
  <1>13. Late(counted[b], over) \subseteq Late(counted[b], now)
    BY <1>1, <1>12, LateShrinks
  <1>14. oldest \notin Late(counted[b], over)
    BY <1>7, <1>12, RateGateAssumption DEF Late
  <1>15. Cardinality(Late(counted[b], over)) < Cardinality(Late(counted[b], now))
    <2>1. oldest \in Late(counted[b], now)
      BY <1>1, <1>6
    <2>2. Late(counted[b], over) # Late(counted[b], now)
      BY <1>14, <2>1
    <2>3. Cardinality(Late(counted[b], over)) \in Nat
      BY <1>1, <1>12, LateFinite
    <2> QED BY <1>2, <1>13, <2>2, <2>3, FS_Subset
  <1>16. Cardinality(Late(counted[b], now)) <= QuotaOf(b) /\ Cardinality(Late(counted[b], over)) \in Nat
    BY <1>1, <1>12, LateFinite DEF BucketInv, Bounded
  <1>17. Cardinality(Late(counted[b], over)) < QuotaOf(b)
    BY <1>1, <1>2, <1>15, <1>16
  <1> QED BY <1>12, <1>17 DEF over

\* A bucket refuses and names a wait.
LEMMA RefuseBucket ==
    ASSUME Inv, NEW b \in Bucket, ~Fits(b), UNCHANGED <<now, counted[b], passed[b]>>,
           told'[b] = now + Second * RetryAfter(b)
    PROVE  BucketInv(b)'
  <1>1. Cardinality(Late(counted[b], told'[b])) < QuotaOf(b)
    BY WaitIs
  <1>2. Bounded(b)'
    BY <1>1 DEF Inv, BucketInv, Bounded, QuotaOf, Late
  <1> QED BY <1>2 DEF Inv, BucketInv, Past, Sorted, Covered, Late, Spaced, QuotaOf

-----------------------------------------------------------------------------
LEMMA RefuseInv ==
    ASSUME Inv, NEW c \in Caller, NEW b \in Bucket, ~Fits(b), Refuse(c, b)
    PROVE  Inv'
  <1>1. told' = [told EXCEPT ![b] = now + Second * RetryAfter(b)] /\ UNCHANGED <<now, counted, passed>>
    BY DEF Refuse
  <1>2. TypeOK'
    <2>1. now + Second * RetryAfter(b) \in Nat
      BY WaitIs
    <2>2. req' \in [Caller -> Request]
      BY DEF Inv, TypeOK, Refuse, Leave, Request
    <2> QED BY <1>1, <2>1, <2>2 DEF Inv, TypeOK
  <1>3. ASSUME NEW d \in Bucket PROVE BucketInv(d)'
    <2>1. CASE d = b
      <3>1. told'[b] = now + Second * RetryAfter(b)
        BY <1>1 DEF Inv, TypeOK
      <3> QED BY <1>1, <2>1, <3>1, RefuseBucket
    <2>2. CASE d # b
      <3>1. told'[d] = told[d]
        BY <1>1, <2>2 DEF Inv, TypeOK
      <3> QED BY <1>1, <3>1, SameBucket
    <2> QED BY <2>1, <2>2
  <1> QED BY <1>2, <1>3 DEF Inv

LEMMA CountInv ==
    ASSUME Inv, NEW b \in Bucket, Fits(b), Count(b), now' = now, Pass({b}) \/ passed' = passed,
           req' \in [Caller -> Request]
    PROVE  Inv'
  <1>1. counted' = [counted EXCEPT ![b] = Append(@, now)] /\ told' = [told EXCEPT ![b] = Never]
    BY DEF Count
  <1>2. passed' = passed \/ passed' = [d \in Bucket |-> IF d = b THEN Append(passed[d], now) ELSE passed[d]]
    BY DEF Pass
  <1>3. TypeOK'
    <2>1. now \in Nat /\ Never \in Nat
      BY RateGateAssumption DEF Inv, TypeOK, Never
    <2>2. \A d \in Bucket : /\ Append(counted[d], now) \in Seq(Nat) /\ Append(passed[d], now) \in Seq(Nat)
                            /\ passed[d] \in Seq(Nat)
      BY <2>1 DEF Inv, TypeOK
    <2>3. counted' \in [Bucket -> Seq(Nat)] /\ told' \in [Bucket -> Nat]
      BY <1>1, <2>1, <2>2 DEF Inv, TypeOK
    <2>4. passed' \in [Bucket -> Seq(Nat)]
      BY <1>2, <2>2 DEF Inv, TypeOK
    <2> QED BY <2>3, <2>4 DEF Inv, TypeOK
  <1>4. ASSUME NEW d \in Bucket PROVE BucketInv(d)'
    <2>1. CASE d = b
      <3>1. /\ counted'[b] = Append(counted[b], now) /\ told'[b] = Never
            /\ passed'[b] \in {passed[b], Append(passed[b], now)}
        BY <1>1, <1>2 DEF Inv, TypeOK
      <3> QED BY <2>1, <3>1, CountBucket
    <2>2. CASE d # b
      <3>1. counted'[d] = counted[d] /\ told'[d] = told[d] /\ passed'[d] = passed[d]
        BY <1>1, <1>2, <2>2 DEF Inv, TypeOK
      <3> QED BY <3>1, SameBucket
    <2> QED BY <2>1, <2>2
  <1> QED BY <1>3, <1>4 DEF Inv

LEMMA NextInv == Inv /\ [Next]_vars => Inv'
  <1> SUFFICES ASSUME Inv, [Next]_vars PROVE Inv'
    OBVIOUS
  <1>1. CASE Tick
    <2>1. TypeOK'
      BY <1>1, RateGateAssumption DEF Inv, TypeOK, Tick
    <2>2. \A b \in Bucket : BucketInv(b)'
      BY <1>1, TickBucket DEF Tick
    <2> QED BY <2>1, <2>2 DEF Inv
  <1>2. ASSUME NEW c \in Caller, Ask(c) PROVE Inv'
    <2>1. TypeOK'
      <3>1. PICK a \in Address, p \in Payer \cup {NoPayer} :
                req' = [req EXCEPT ![c] = [step |-> "address", from |-> a, payer |-> p]]
        BY <1>2 DEF Ask
      <3>2. [step |-> "address", from |-> a, payer |-> p] \in Request
        BY DEF Request
      <3> QED BY <1>2, <3>1, <3>2 DEF Inv, TypeOK, Ask
    <2>2. \A b \in Bucket : BucketInv(b)'
      BY <1>2, SameBucket DEF Ask
    <2> QED BY <2>1, <2>2 DEF Inv
  <1>3. ASSUME NEW c \in Caller, HitAddress(c) PROVE Inv'
    <2>1. req \in [Caller -> Request] /\ req[c] \in Request /\ req[c].step = "address"
      BY <1>3 DEF Inv, TypeOK, HitAddress
    <2>2. req[c].from \in Bucket
      BY <2>1 DEF Request, Idle, Bucket
    <2>3. CASE ~Fits(req[c].from) /\ Refuse(c, req[c].from)
      BY <2>2, <2>3, RefuseInv
    <2>4. CASE /\ Fits(req[c].from) /\ Count(req[c].from) /\ Pass({req[c].from}) /\ UNCHANGED now
               /\ IF req[c].payer = NoPayer THEN Leave(c)
                  ELSE req' = [req EXCEPT ![c].step = "payer"]
      <3>1. req' \in [Caller -> Request]
        <4>1. CASE Leave(c)
          BY <2>1, <4>1 DEF Leave, Request
        <4>2. CASE req[c].payer # NoPayer /\ req' = [req EXCEPT ![c].step = "payer"]
          <5>1. req[c] \in [step : {"address"}, from : Address, payer : Payer]
            BY <2>1, <4>2 DEF Request, Idle
          <5>2. [req[c] EXCEPT !.step = "payer"] \in Request
            BY <5>1 DEF Request
          <5> QED BY <2>1, <4>2, <5>2
        <4> QED BY <2>4, <4>1, <4>2
      <3> QED BY <2>2, <2>4, <3>1, CountInv
    <2> QED BY <1>3, <2>3, <2>4 DEF HitAddress
  <1>4. ASSUME NEW c \in Caller, HitPayer(c) PROVE Inv'
    <2>1. req \in [Caller -> Request] /\ req[c] \in Request /\ req[c].step = "payer"
      BY <1>4 DEF Inv, TypeOK, HitPayer
    <2>2. req[c].payer \in Bucket
      BY <2>1 DEF Request, Idle, Bucket
    <2>3. CASE ~Fits(req[c].payer) /\ Refuse(c, req[c].payer)
      BY <2>2, <2>3, RefuseInv
    <2>4. CASE /\ Fits(req[c].payer) /\ Count(req[c].payer) /\ Pass({req[c].payer}) /\ UNCHANGED now
               /\ Leave(c)
      <3>1. req' \in [Caller -> Request]
        BY <2>1, <2>4 DEF Leave, Request
      <3> QED BY <2>2, <2>4, <3>1, CountInv
    <2> QED BY <1>4, <2>3, <2>4 DEF HitPayer
  <1>5. ASSUME NEW c \in Caller, HitRejects(c) PROVE Inv'
    <2> DEFINE bucket == IF req[c].step = "address" THEN req[c].from ELSE req[c].payer
    <2>1. req' \in [Caller -> Request]
      BY <1>5 DEF Inv, TypeOK, HitRejects, Leave, Request
    <2>2. req[c] \in Request /\ req[c] # Idle
      BY <1>5 DEF Inv, TypeOK, HitRejects
    <2>3. bucket \in Bucket
      BY <2>2 DEF Request, Bucket
    <2>4. UNCHANGED <<now, passed>>
      BY <1>5 DEF HitRejects
    <2>5. CASE UNCHANGED <<counted, told>>
      <3>1. TypeOK'
        BY <2>1, <2>4, <2>5 DEF Inv, TypeOK
      <3>2. \A b \in Bucket : BucketInv(b)'
        BY <2>4, <2>5, SameBucket
      <3> QED BY <3>1, <3>2 DEF Inv
    <2>6. CASE Fits(bucket) /\ Count(bucket)
      <3> HIDE DEF bucket
      <3> QED BY <2>1, <2>3, <2>4, <2>6, CountInv
    <2> QED BY <1>5, <2>5, <2>6 DEF HitRejects
  <1>6. CASE UNCHANGED vars
    <2>1. TypeOK'
      BY <1>6 DEF Inv, TypeOK, vars
    <2>2. \A b \in Bucket : BucketInv(b)'
      BY <1>6, SameBucket DEF vars
    <2> QED BY <2>1, <2>2 DEF Inv
  <1> QED BY <1>1, <1>2, <1>3, <1>4, <1>5, <1>6 DEF Next

THEOREM Invariance == Spec => []Inv
  BY InitInv, NextInv, PTL DEF Spec

\* paid-route.ts:134-161: type correctness of the gate.
THEOREM TypeCorrect == Spec => []TypeOK
  <1>1. Inv => TypeOK
    BY DEF Inv
  <1> QED BY <1>1, Invariance, PTL

\* rate-limiter.ts:24: whatever payers its proofs name, and however its requests
\* end, no address and no payer has more than its quota in any window.
THEOREM NoQuotaIsExceeded == Spec => []BothQuotasHold
  <1>1. Inv => BothQuotasHold
    BY DEF Inv, BucketInv, Spaced, BothQuotasHold
  <1> QED BY <1>1, Invariance, PTL

\* rate-limiter.ts:46: a client that has waited as it was told is not refused by
\* the same bucket, unless another hit has come.
THEOREM WaitIsEnough == Spec => []RetryAfterSuffices
  <1>1. Inv => RetryAfterSuffices
    <2> SUFFICES ASSUME Inv, NEW b \in Bucket, now >= told[b] PROVE Fits(b)
      BY DEF RetryAfterSuffices
    <2>1. /\ now \in Nat /\ told[b] \in Nat /\ counted[b] \in Seq(Nat) /\ QuotaOf(b) \in Nat
          /\ BucketInv(b)
      BY QuotaIs DEF Inv, TypeOK
    <2>2. told[b] # Never
      BY <2>1, RateGateAssumption DEF Never, Inv, TypeOK
    <2>3. Cardinality(Late(counted[b], told[b])) < QuotaOf(b)
      BY <2>1, <2>2 DEF BucketInv, Bounded
    <2>4. /\ Cardinality(Late(counted[b], now)) <= Cardinality(Late(counted[b], told[b]))
          /\ Cardinality(Late(counted[b], now)) \in Nat /\ Cardinality(Late(counted[b], told[b])) \in Nat
      BY <2>1, LateShrinks, LateFinite
    <2> QED BY <2>1, <2>3, <2>4, InWindowIs DEF Fits
  <1> QED BY <1>1, Invariance, PTL
=============================================================================
