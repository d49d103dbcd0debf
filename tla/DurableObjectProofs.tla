------------------------- MODULE DurableObjectProofs -------------------------
(***************************************************************************)
(* The two Durable Objects that keep their own storage and alarm, whatever *)
(* fails.  The limiter's count is exact: what a bucket forgets, by pruning,*)
(* by its alarm or never at all, was already out of the window.  The       *)
(* twin's history is unbroken, the number of a reading is never given twice*)
(* and only grows, and a device whose setAlarm works never goes silent.    *)
(***************************************************************************)
EXTENDS RateLimiter, DeviceTwin, WellFoundedInduction, FiniteSetTheorems, TLAPS

-----------------------------------------------------------------------------
(* The rate limiter, for every window, quota and history.                  *)

\* What has left the bucket is a prefix of what was counted, and is stale.
Forgotten == Len(counted) - Len(hits)

Inv == /\ now \in Nat
       /\ hits \in Seq(Nat)
       /\ counted \in Seq(Nat)
       /\ Sorted(counted)
       /\ \A i \in 1 .. Len(counted) : counted[i] <= now
       /\ Forgotten \in Nat
       /\ \A i \in 1 .. Len(hits) : hits[i] = counted[Forgotten + i]
       /\ \A i \in 1 .. Forgotten : ~IsFresh(counted[i], now)
       /\ QuotaHolds

\* The first fresh hit of an ascending list exists, and all before it are stale.
LEMMA FirstFreshIs ==
    ASSUME NEW list \in Seq(Nat), Sorted(list), NEW at \in Nat
    PROVE  /\ FirstFresh(list, at) \in 1 .. Len(list) + 1
           /\ \A i \in FirstFresh(list, at) .. Len(list) : IsFresh(list[i], at)
           /\ \A i \in 1 .. FirstFresh(list, at) - 1 : ~IsFresh(list[i], at)
  <1> DEFINE P(k) == /\ \A i \in k .. Len(list) : IsFresh(list[i], at)
                     /\ k > 1 => ~IsFresh(list[k - 1], at)
             T == {k \in 1 .. Len(list) + 1 : \A i \in k .. Len(list) : IsFresh(list[i], at)}
  <1>1. T \subseteq Nat /\ Len(list) + 1 \in T
    OBVIOUS
  <1>2. PICK k \in T : \A j \in T : ~(j < k)
    <2>1. \E k \in T : \A j \in T : ~(<<j, k>> \in OpToRel(<, Nat))
      <3> HIDE DEF T
      <3> QED BY <1>1, WFMin, NatLessThanWellFounded
    <2>2. \A j, k \in T : j < k => <<j, k>> \in OpToRel(<, Nat)
      BY <1>1 DEF OpToRel
    <2> QED BY <2>1, <2>2
  <1>3. k \in 1 .. Len(list) + 1 /\ P(k)
    <2>1. ASSUME k > 1, IsFresh(list[k - 1], at) PROVE FALSE
      <3>1. k - 1 \in 1 .. Len(list) + 1 /\ \A i \in k - 1 .. Len(list) : IsFresh(list[i], at)
        <4>1. \A i \in k - 1 .. Len(list) : i = k - 1 \/ i \in k .. Len(list)
          OBVIOUS
        <4> QED BY <2>1, <4>1
      <3>2. PICK j \in Nat : j = k - 1
        BY <3>1
      <3>3. j \in T
        <4>1. j \in 1 .. Len(list) + 1
          BY <3>1, <3>2
        <4>2. \A i \in j .. Len(list) : IsFresh(list[i], at)
          BY <3>1, <3>2
        <4> QED BY <4>1, <4>2, Zenon
      <3>4. ~(j < k) /\ k \in Nat
        <4> HIDE DEF T
        <4> QED BY <1>1, <1>2, <3>3
      <3> QED BY <3>2, <3>4
    <2> QED BY <2>1
  <1>4. /\ FirstFresh(list, at) \in 1 .. Len(list) + 1
        /\ P(FirstFresh(list, at))
    BY <1>3 DEF FirstFresh
  <1>5. ASSUME NEW i \in 1 .. FirstFresh(list, at) - 1 PROVE ~IsFresh(list[i], at)
    <2> DEFINE f == FirstFresh(list, at)
    <2>1. f > 1 /\ f - 1 \in 1 .. Len(list) /\ i <= f - 1 /\ i \in 1 .. Len(list)
      BY <1>4, <1>5
    <2>2. list[i] <= list[f - 1] /\ list[i] \in Nat /\ list[f - 1] \in Nat
      BY <2>1 DEF Sorted
    <2>3. ~IsFresh(list[f - 1], at)
      BY <1>4, <2>1
    <2> HIDE DEF f
    <2> QED BY <2>2, <2>3, RateLimiterAssumption DEF IsFresh
  <1> QED BY <1>4, <1>5

LEMMA FreshIs ==
    ASSUME NEW list \in Seq(Nat), Sorted(list), NEW at \in Nat
    PROVE  /\ Fresh(list, at) \in Seq(Nat)
           /\ Len(list) - Len(Fresh(list, at)) \in 0 .. Len(list)
           /\ \A i \in 1 .. Len(Fresh(list, at)) :
                 Fresh(list, at)[i] = list[Len(list) - Len(Fresh(list, at)) + i]
           /\ \A i \in 1 .. Len(list) - Len(Fresh(list, at)) : ~IsFresh(list[i], at)
           /\ \A i \in 1 .. Len(Fresh(list, at)) : IsFresh(Fresh(list, at)[i], at)
  <1> DEFINE k == FirstFresh(list, at)
             s == SubSeq(list, k, Len(list))
  <1>1. /\ k \in 1 .. Len(list) + 1
        /\ \A i \in 1 .. k - 1 : ~IsFresh(list[i], at)
        /\ \A i \in k .. Len(list) : IsFresh(list[i], at)
    BY FirstFreshIs
  <1> HIDE DEF k
  <1>2. /\ s \in Seq(Nat)
        /\ Len(s) = Len(list) - k + 1
        /\ \A i \in 1 .. Len(s) : s[i] = list[k + i - 1]
    BY <1>1
  <1>3. s = Fresh(list, at)
    BY DEF Fresh, k
  <1>4. Len(list) \in Nat
    OBVIOUS
  <1> HIDE DEF s
  <1>5. Len(list) - Len(s) = k - 1 /\ Len(list) - Len(s) \in 0 .. Len(list)
    BY <1>1, <1>2, <1>4
  <1>6. \A i \in 1 .. Len(s) : s[i] = list[Len(list) - Len(s) + i]
    <2> TAKE i \in 1 .. Len(s)
    <2>1. k + i - 1 = Len(list) - Len(s) + i
      BY <1>1, <1>2, <1>4
    <2> QED BY <1>2, <2>1
  <1>7. \A i \in 1 .. Len(list) - Len(s) : ~IsFresh(list[i], at)
    BY <1>1, <1>5
  <1>8. \A i \in 1 .. Len(s) : IsFresh(s[i], at)
    <2> TAKE i \in 1 .. Len(s)
    <2>1. k + i - 1 \in k .. Len(list)
      BY <1>1, <1>2, <1>4
    <2> QED BY <1>1, <1>2, <2>1
  <1> QED BY <1>2, <1>3, <1>5, <1>6, <1>7, <1>8

LEMMA InitInv == Init => Inv
  BY RateLimiterAssumption DEF Init, Inv, Sorted, Forgotten, QuotaHolds

\* The list in storage is ascending: it is the end of an ascending history.
LEMMA HitsSorted == Inv => Sorted(hits)
  <1> SUFFICES ASSUME Inv, NEW i \in 1 .. Len(hits), NEW j \in 1 .. Len(hits), i <= j
               PROVE  hits[i] <= hits[j]
    BY DEF Sorted
  <1>1. /\ Forgotten + i \in 1 .. Len(counted)
        /\ Forgotten + j \in 1 .. Len(counted)
        /\ Forgotten + i <= Forgotten + j
    BY DEF Inv, Forgotten
  <1> QED BY <1>1 DEF Inv, Sorted

\* Forgetting what is stale keeps the invariant's view of the bucket.
LEMMA PruneIs ==
    ASSUME Inv
    PROVE  LET fresh == Fresh(hits, now)
           IN /\ fresh \in Seq(Nat)
              /\ Len(counted) - Len(fresh) \in Nat
              /\ Len(fresh) \in Nat
              /\ \A i \in 1 .. Len(fresh) : fresh[i] = counted[Len(counted) - Len(fresh) + i]
              /\ \A i \in 1 .. Len(counted) - Len(fresh) : ~IsFresh(counted[i], now)
              /\ \A i \in 1 .. Len(fresh) : IsFresh(fresh[i], now)
  <1> DEFINE fresh == Fresh(hits, now)
             gone == Len(hits) - Len(fresh)
  <1>1. hits \in Seq(Nat) /\ Sorted(hits) /\ now \in Nat
    BY HitsSorted DEF Inv
  <1>2. /\ fresh \in Seq(Nat)
        /\ gone \in 0 .. Len(hits)
        /\ \A i \in 1 .. Len(fresh) : fresh[i] = hits[gone + i]
        /\ \A i \in 1 .. gone : ~IsFresh(hits[i], now)
        /\ \A i \in 1 .. Len(fresh) : IsFresh(fresh[i], now)
    BY <1>1, FreshIs
  <1>3. /\ Len(fresh) \in Nat /\ Len(hits) \in Nat /\ Len(counted) \in Nat
        /\ Forgotten = Len(counted) - Len(hits) /\ Forgotten \in Nat
        /\ \A i \in 1 .. Len(hits) : hits[i] = counted[Forgotten + i]
        /\ \A i \in 1 .. Forgotten : ~IsFresh(counted[i], now)
    BY <1>1, <1>2 DEF Inv, Forgotten
  <1> HIDE DEF fresh
  <1>4. Len(counted) - Len(fresh) = Forgotten + gone
    BY <1>2, <1>3
  <1>5. \A i \in 1 .. Len(fresh) : fresh[i] = counted[Len(counted) - Len(fresh) + i]
    <2> TAKE i \in 1 .. Len(fresh)
    <2>1. gone + i \in 1 .. Len(hits) /\ fresh[i] = hits[gone + i]
      BY <1>2, <1>3
    <2>2. hits[gone + i] = counted[Forgotten + (gone + i)]
      BY <1>3, <2>1
    <2>3. Forgotten + (gone + i) = Len(counted) - Len(fresh) + i
      BY <1>2, <1>3
    <2> QED BY <2>1, <2>2, <2>3
  <1>6. \A i \in 1 .. Len(counted) - Len(fresh) : ~IsFresh(counted[i], now)
    <2> TAKE i \in 1 .. Len(counted) - Len(fresh)
    <2>1. CASE i <= Forgotten
      BY <1>3, <1>4, <2>1
    <2>2. CASE i > Forgotten
      <3>1. i - Forgotten \in 1 .. gone /\ i - Forgotten \in 1 .. Len(hits)
        BY <1>2, <1>3, <1>4, <2>2
      <3>2. hits[i - Forgotten] = counted[Forgotten + (i - Forgotten)]
        BY <1>3, <3>1
      <3>3. Forgotten + (i - Forgotten) = i
        BY <1>3, <3>1
      <3> QED BY <1>2, <3>1, <3>2, <3>3
    <2> QED BY <1>3, <2>1, <2>2
  <1> QED BY <1>2, <1>3, <1>4, <1>5, <1>6 DEF fresh

LEMMA NextInv == Inv /\ [Next]_vars => Inv'
  <1> SUFFICES ASSUME Inv, [Next]_vars PROVE Inv'
    OBVIOUS
  <1> DEFINE fresh == Fresh(hits, now)
             n == Len(counted)
  <1>0. /\ fresh \in Seq(Nat)
        /\ Len(fresh) \in Nat /\ n \in Nat /\ n - Len(fresh) \in Nat
        /\ \A i \in 1 .. Len(fresh) : fresh[i] = counted[n - Len(fresh) + i]
        /\ \A i \in 1 .. n - Len(fresh) : ~IsFresh(counted[i], now)
    BY PruneIs DEF Inv
  <1>1. CASE UNCHANGED <<now, hits, counted>>
    BY <1>1 DEF Inv, Sorted, Forgotten, QuotaHolds
  <1>2. CASE Tick
    <2>1. now' = now + 1 /\ hits' = hits /\ counted' = counted
      BY <1>2 DEF Tick
    <2>2. \A i \in 1 .. Forgotten : ~IsFresh(counted[i], now')
      <3> TAKE i \in 1 .. Forgotten
      <3>1. counted[i] \in Nat /\ ~(counted[i] + Window > now) /\ now \in Nat
        <4>1. i \in 1 .. n
          BY <1>0 DEF Inv, Forgotten
        <4> QED BY <4>1 DEF Inv, IsFresh
      <3> QED BY <2>1, <3>1, RateLimiterAssumption DEF IsFresh
    <2>3. \A i \in 1 .. n : counted[i] <= now'
      BY <2>1 DEF Inv
    <2> QED BY <2>1, <2>2, <2>3 DEF Inv, Sorted, Forgotten, QuotaHolds
  <1>3. CASE Alarm
    <2>1. hits' = fresh /\ now' = now /\ counted' = counted
      BY <1>3 DEF Alarm
    <2> HIDE DEF fresh
    <2> QED BY <1>0, <2>1 DEF Inv, Sorted, Forgotten, QuotaHolds
  <1>4. CASE Record(EvaluateWindow(hits, now)) /\ now' = now
    <2>1. CASE Len(fresh) >= Quota
      <3>1. hits' = fresh /\ counted' = counted
        BY <1>4, <2>1 DEF Record, EvaluateWindow
      <3> HIDE DEF fresh
      <3> QED BY <1>0, <1>4, <3>1 DEF Inv, Sorted, Forgotten, QuotaHolds
    <2>2. CASE ~(Len(fresh) >= Quota)
      <3>1. hits' = Append(fresh, now) /\ counted' = Append(counted, now) /\ now \in Nat
        BY <1>4, <2>2 DEF Record, EvaluateWindow, Inv
      <3> HIDE DEF fresh
      <3>2. /\ hits' \in Seq(Nat) /\ Len(hits') = Len(fresh) + 1
            /\ \A i \in 1 .. Len(fresh) : hits'[i] = fresh[i]
            /\ hits'[Len(fresh) + 1] = now
        BY <1>0, <3>1
      <3>3. /\ counted' \in Seq(Nat) /\ Len(counted') = n + 1
            /\ \A i \in 1 .. n : counted'[i] = counted[i]
            /\ counted'[n + 1] = now
        BY <1>0, <3>1 DEF Inv
      <3>4. Len(counted') - Len(hits') = n - Len(fresh) /\ Forgotten' = n - Len(fresh)
        BY <1>0, <3>2, <3>3 DEF Forgotten
      <3>5. Sorted(counted)'
        <4> SUFFICES ASSUME NEW i \in 1 .. n + 1, NEW j \in 1 .. n + 1, i <= j
                     PROVE  counted'[i] <= counted'[j]
          BY <3>3 DEF Sorted
        <4>1. CASE j = n + 1
          <5>1. CASE i = n + 1
            BY <3>1, <3>3, <4>1, <5>1
          <5>2. CASE i \in 1 .. n
            BY <3>3, <4>1, <5>2 DEF Inv
          <5> QED BY <1>0, <5>1, <5>2
        <4>2. CASE j \in 1 .. n
          <5>1. i \in 1 .. n
            BY <1>0, <4>2
          <5> QED BY <3>3, <4>2, <5>1 DEF Inv, Sorted
        <4> QED BY <1>0, <4>1, <4>2
      <3>6. \A i \in 1 .. n + 1 : counted'[i] <= now
        BY <1>0, <3>1, <3>3 DEF Inv
      <3>7. \A i \in 1 .. Len(hits') : hits'[i] = counted'[Forgotten' + i]
        <4> TAKE i \in 1 .. Len(hits')
        <4>1. CASE i = Len(fresh) + 1
          <5>1. Forgotten' + i = n + 1
            BY <1>0, <3>4, <4>1
          <5> QED BY <3>2, <3>3, <4>1, <5>1
        <4>2. CASE i \in 1 .. Len(fresh)
          <5>1. n - Len(fresh) + i \in 1 .. n
            BY <1>0, <4>2
          <5> QED BY <1>0, <3>2, <3>3, <3>4, <4>2, <5>1
        <4> QED BY <1>0, <3>2, <4>1, <4>2
      <3>8. \A i \in 1 .. Forgotten' : ~IsFresh(counted'[i], now)
        <4> TAKE i \in 1 .. Forgotten'
        <4>1. i \in 1 .. n - Len(fresh) /\ i \in 1 .. n
          BY <1>0, <3>4
        <4>2. counted'[i] = counted[i] /\ ~IsFresh(counted[i], now)
          BY <1>0, <3>3, <4>1
        <4> QED BY <4>2
      <3>9. QuotaHolds'
        <4> SUFFICES ASSUME NEW i \in 1 .. n + 1, i + Quota <= n + 1
                     PROVE  counted'[i + Quota] >= counted'[i] + Window
          BY <3>3 DEF QuotaHolds
        <4>1. CASE i + Quota <= n
          <5>1. i \in 1 .. n /\ i + Quota \in 1 .. n
            BY <1>0, <4>1, RateLimiterAssumption
          <5>2. counted[i + Quota] >= counted[i] + Window
            BY <4>1, <5>1 DEF Inv, QuotaHolds
          <5> QED BY <3>3, <5>1, <5>2
        <4>2. CASE i + Quota = n + 1
          <5>1. i \in 1 .. n - Len(fresh) /\ i \in 1 .. n
            BY <1>0, <2>2, <4>2, RateLimiterAssumption DEF fresh
          <5>2. ~IsFresh(counted[i], now) /\ counted[i] \in Nat
            BY <1>0, <5>1 DEF Inv
          <5>3. counted[i] + Window <= now
            BY <3>1, <5>2, RateLimiterAssumption DEF IsFresh
          <5> QED BY <3>3, <4>2, <5>1, <5>3
        <4> QED BY <1>0, <4>1, <4>2, RateLimiterAssumption
      <3> QED
        BY <1>0, <1>4, <3>1, <3>2, <3>3, <3>4, <3>5, <3>6, <3>7, <3>8, <3>9 DEF Inv
    <2> QED BY <2>1, <2>2
  <1>5. Hit => Record(EvaluateWindow(hits, now)) /\ now' = now
    BY DEF Hit
  <1>6. HitCutShort => \/ Record(EvaluateWindow(hits, now)) /\ now' = now
                       \/ UNCHANGED <<now, hits, counted>>
    BY DEF HitCutShort
  <1>7. AlarmRejects => UNCHANGED <<now, hits, counted>>
    BY DEF AlarmRejects
  <1> QED BY <1>1, <1>2, <1>3, <1>4, <1>5, <1>6, <1>7 DEF Next, vars

THEOREM Invariance == Spec => []Inv
  <1> QED BY InitInv, NextInv, PTL DEF Spec

\* rate-limiter.ts:19 "makes the count exact": no window ever holds more hits
\* than the quota, for every window length and quota.
THEOREM QuotaIsNeverExceeded == Spec => []QuotaHolds
  <1>1. Inv => QuotaHolds
    BY DEF Inv
  <1> QED BY <1>1, Invariance, PTL

\* The stored list never holds more than a quota of hits: a refused hit is not
\* recorded.
THEOREM TypeCorrect == Spec => []TypeOK
  <1> DEFINE Rest == /\ faults \in FaultSets
                     /\ now \in 0 .. MaxTime
                     /\ Len(hits) <= Quota
                     /\ alarm \in Nat
                     /\ verdict \in {"none", "allowed", "refused", "lost"}
  <1>1. Init => Rest
    BY RateLimiterAssumption DEF Init, NoAlarm
  <1>2. Inv /\ Rest /\ [Next]_vars => Rest'
    <2> SUFFICES ASSUME Inv, Rest, [Next]_vars PROVE Rest'
      OBVIOUS
    <2> DEFINE fresh == Fresh(hits, now)
    <2>1. fresh \in Seq(Nat) /\ Len(fresh) \in Nat /\ Len(fresh) <= Len(hits)
      BY HitsSorted, FreshIs DEF Inv
    <2>2. now' \in 0 .. MaxTime
      BY RateLimiterAssumption DEF Next, vars, Tick, Hit, HitCutShort, Alarm, AlarmRejects
    <2>3. Len(hits') <= Quota
      <3>1. CASE Record(EvaluateWindow(hits, now))
        <4>1. CASE Len(fresh) >= Quota
          <5>1. hits' = fresh
            BY <3>1, <4>1 DEF Record, EvaluateWindow
          <5>2. Len(hits) \in Nat
            BY DEF Inv
          <5> HIDE DEF fresh
          <5> QED BY <2>1, <5>1, <5>2, RateLimiterAssumption
        <4>2. CASE ~(Len(fresh) >= Quota)
          <5>1. hits' = Append(fresh, now) /\ now \in Nat
            BY <3>1, <4>2 DEF Record, EvaluateWindow, Inv
          <5> HIDE DEF fresh
          <5>2. Len(hits') = Len(fresh) + 1
            BY <2>1, <5>1
          <5> QED BY <2>1, <4>2, <5>2, RateLimiterAssumption
        <4> QED BY <4>1, <4>2
      <3>2. CASE hits' = fresh
        BY <2>1, <3>2, RateLimiterAssumption DEF Inv
      <3>3. CASE UNCHANGED hits
        BY <3>3
      <3> QED
        BY <3>1, <3>2, <3>3 DEF Next, vars, Tick, Hit, HitCutShort, Alarm, AlarmRejects
    <2>4. alarm' \in Nat
      BY RateLimiterAssumption DEF Next, vars, Tick, Hit, HitCutShort, Alarm, AlarmRejects, NoAlarm
    <2>5. verdict' \in {"none", "allowed", "refused", "lost"}
      BY DEF Next, vars, Tick, Hit, HitCutShort, Alarm, AlarmRejects
    <2>6. faults' \in FaultSets
      BY DEF Next, vars
    <2> QED BY <2>2, <2>3, <2>4, <2>5, <2>6
  <1>3. Inv /\ Rest => TypeOK
    BY HitsSorted DEF Inv, TypeOK
  <1> QED BY <1>1, <1>2, <1>3, Invariance, PTL DEF Spec

-----------------------------------------------------------------------------
(* The bucket that forgets implements the bucket that remembers.           *)

\* A multiple of b that is no less than a, and the least one.
LEMMA CeilIs ==
    ASSUME NEW a \in Nat, NEW b \in Nat \ {0}
    PROVE  /\ CeilDiv(a, b) \in Nat
           /\ a <= CeilDiv(a, b) * b
           /\ CeilDiv(a, b) > 1 => (CeilDiv(a, b) - 1) * b < a
  <1>1. PICK q \in Int : q = (a + b - 1) \div b
    OBVIOUS
  <1>2. q * b <= a + b - 1 /\ a + b - 1 < q * b + b
    BY <1>1, SMTT(30)
  <1>3. q \in Nat
    BY <1>1, <1>2, SMTT(30)
  <1>4. q * b \in Int /\ (q - 1) * b = q * b - b
    BY <1>3, SMTT(30)
  <1>5. CeilDiv(a, b) = q
    BY <1>1 DEF CeilDiv
  <1> QED BY <1>2, <1>3, <1>4, <1>5

\* A later look at a bucket finds less of it fresh once its first fresh hit has
\* gone stale, and no less before.
LEMMA FreshLater ==
    ASSUME NEW list \in Seq(Nat), Sorted(list), NEW at \in Nat, NEW later \in Nat,
           at <= later, Len(Fresh(list, at)) > 0
    PROVE  LET fresh == Fresh(list, at)
               then == Fresh(list, later)
           IN /\ fresh[1] \in Nat
              /\ fresh[1] + Window > at
              /\ ~IsFresh(fresh[1], later) => Len(then) < Len(fresh)
              /\ IsFresh(fresh[1], later) => Len(then) >= Len(fresh)
  <1> DEFINE k == FirstFresh(list, at)
             l == FirstFresh(list, later)
  <1>1. /\ k \in 1 .. Len(list) + 1 /\ l \in 1 .. Len(list) + 1
        /\ \A i \in k .. Len(list) : IsFresh(list[i], at)
        /\ \A i \in l .. Len(list) : IsFresh(list[i], later)
        /\ \A i \in 1 .. l - 1 : ~IsFresh(list[i], later)
    BY FirstFreshIs
  <1>2. k \in 1 .. Len(list) /\ Len(Fresh(list, at)) = Len(list) - k + 1 /\ Fresh(list, at)[1] = list[k]
    <2> HIDE DEF k
    <2>1. Fresh(list, at) = SubSeq(list, k, Len(list))
      BY DEF Fresh, k
    <2> QED BY <1>1, <2>1
  <1>3. Len(Fresh(list, later)) = Len(list) - l + 1
    <2> HIDE DEF l
    <2>1. Fresh(list, later) = SubSeq(list, l, Len(list))
      BY DEF Fresh, l
    <2> QED BY <1>1, <2>1
  <1>4. IsFresh(list[k], at)
    <2> HIDE DEF k, l
    <2> QED BY <1>1, <1>2
  <1>5. ~IsFresh(list[k], later) => k < l
    <2> HIDE DEF k, l
    <2> QED BY <1>1, <1>2
  <1>6. IsFresh(list[k], later) => l <= k
    <2> HIDE DEF k, l
    <2> QED BY <1>1, <1>2
  <1>7. list[k] \in Nat
    BY <1>2
  <1> HIDE DEF k, l
  <1> QED BY <1>1, <1>2, <1>3, <1>4, <1>5, <1>6, <1>7 DEF IsFresh

\* rate-limiter.ts:61: for every window and quota, the wait a refused caller is
\* told is the least number of whole seconds after which a hit fits.
THEOREM RetryAfterExact == Spec => []RetryAfterIsExact
  <1>1. Inv /\ TypeOK => RetryAfterIsExact
    <2> SUFFICES ASSUME Inv, TypeOK, ~EvaluateWindow(hits, now).allowed
                 PROVE  LET r == EvaluateWindow(hits, now).retryAfter
                        IN /\ EvaluateWindow(hits, now + r * Second).allowed
                           /\ r > 1 => ~EvaluateWindow(hits, now + (r - 1) * Second).allowed
      BY DEF RetryAfterIsExact
    <2> DEFINE fresh == Fresh(hits, now)
               a == fresh[1] + Window - now
               c == CeilDiv(a, Second)
               r == Larger(1, c)
    <2>1. hits \in Seq(Nat) /\ Sorted(hits) /\ now \in Nat /\ Len(hits) <= Quota
      BY HitsSorted DEF Inv, TypeOK
    <2>2. \A at \in Nat : Fresh(hits, at) \in Seq(Nat) /\ Len(Fresh(hits, at)) <= Len(hits)
      BY <2>1, FreshIs
    <2>3. \A at \in Nat : EvaluateWindow(hits, at).allowed <=> Len(Fresh(hits, at)) < Quota
      <3> SUFFICES ASSUME NEW at \in Nat
                   PROVE  EvaluateWindow(hits, at).allowed <=> Len(Fresh(hits, at)) < Quota
        OBVIOUS
      <3>1. Len(Fresh(hits, at)) \in Nat
        BY <2>2
      <3> QED BY <3>1, RateLimiterAssumption DEF EvaluateWindow
    <2>4. Len(fresh) = Quota /\ Len(fresh) > 0 /\ Quota \in Nat /\ Len(hits) \in Nat
      <3>1. Len(fresh) \in Nat /\ Len(fresh) <= Len(hits) /\ Len(hits) \in Nat
        <4>1. fresh \in Seq(Nat) /\ Len(fresh) <= Len(hits)
          BY <2>1, <2>2
        <4> HIDE DEF fresh
        <4> QED BY <2>1, <4>1
      <3>2. ~(Len(fresh) < Quota)
        BY <2>1, <2>3
      <3> HIDE DEF fresh
      <3> QED BY <2>1, <3>1, <3>2, RateLimiterAssumption
    <2>5. EvaluateWindow(hits, now).retryAfter = r
      BY <2>4 DEF EvaluateWindow
    <2>6. fresh[1] \in Nat /\ a \in Nat
      BY <2>1, <2>4, FreshLater, RateLimiterAssumption
    <2>7. c \in Nat /\ a <= c * Second /\ (c > 1 => (c - 1) * Second < a)
      BY <2>6, CeilIs, RateLimiterAssumption
    <2>8. r \in Nat \ {0} /\ a <= r * Second /\ (r > 1 => (r - 1) * Second < a)
      <3>1. CASE c > 1
        BY <2>7, <3>1 DEF Larger
      <3>2. CASE ~(c > 1)
        <4>1. r = 1 /\ (c = 0 \/ c = 1)
          BY <2>7, <3>2 DEF Larger
        <4> QED BY <2>6, <2>7, <4>1, RateLimiterAssumption
      <3> QED BY <3>1, <3>2
    <2>9. r * Second \in Nat /\ (r - 1) * Second \in Nat
      BY <2>8, RateLimiterAssumption, SMTT(30)
    <2>10. EvaluateWindow(hits, now + r * Second).allowed
      <3>1. PICK t \in Nat : t = now + r * Second
        BY <2>1, <2>9
      <3>2. ~IsFresh(fresh[1], t) /\ now <= t
        <4> HIDE DEF fresh, r
        <4> QED BY <2>1, <2>6, <2>8, <2>9, <3>1, RateLimiterAssumption DEF IsFresh
      <3>3. Len(Fresh(hits, t)) < Len(fresh)
        BY <2>1, <2>4, <3>2, FreshLater
      <3> QED BY <2>3, <2>4, <3>1, <3>3
    <2>11. ASSUME r > 1 PROVE ~EvaluateWindow(hits, now + (r - 1) * Second).allowed
      <3>1. PICK t \in Nat : t = now + (r - 1) * Second
        BY <2>1, <2>9
      <3>2. IsFresh(fresh[1], t) /\ now <= t
        <4> HIDE DEF fresh, r
        <4> QED BY <2>1, <2>6, <2>8, <2>9, <2>11, <3>1, RateLimiterAssumption DEF IsFresh
      <3>3. Len(Fresh(hits, t)) >= Len(fresh)
        BY <2>1, <2>4, <3>2, FreshLater
      <3>4. Len(Fresh(hits, t)) \in Nat
        BY <2>2
      <3>5. ~EvaluateWindow(hits, t).allowed
        <4>1. EvaluateWindow(hits, t).allowed <=> Len(Fresh(hits, t)) < Quota
          BY <2>3, Zenon
        <4>2. ~(Len(Fresh(hits, t)) < Quota)
          <5> HIDE DEF fresh
          <5> QED BY <2>4, <3>3, <3>4
        <4> QED BY <4>1, <4>2, Zenon
      <3> QED BY <3>1, <3>5, Zenon
    <2> HIDE DEF r
    <2> QED BY <2>5, <2>10, <2>11
  <1> QED BY <1>1, Invariance, TypeCorrect, PTL

\* What pruning keeps is what the whole history has in the window.
LEMMA FreshIsInWindow ==
    ASSUME Inv
    PROVE  Window0!Cardinality(Window0!InWindow) = Len(Fresh(hits, now))
  <1> DEFINE fresh == Fresh(hits, now)
             n == Len(counted)
  <1>1. /\ Len(fresh) \in Nat /\ n \in Nat /\ n - Len(fresh) \in Nat
        /\ counted \in Seq(Nat)
        /\ \A i \in 1 .. Len(fresh) : fresh[i] = counted[n - Len(fresh) + i]
        /\ \A i \in 1 .. n - Len(fresh) : ~IsFresh(counted[i], now)
        /\ \A i \in 1 .. Len(fresh) : IsFresh(fresh[i], now)
    BY PruneIs DEF Inv
  <1> HIDE DEF fresh
  <1>2. ASSUME NEW i \in 1 .. n PROVE IsFresh(counted[i], now) <=> i \in n - Len(fresh) + 1 .. n
    <2>1. CASE i \in 1 .. n - Len(fresh)
      BY <1>1, <2>1
    <2>2. CASE i \in n - Len(fresh) + 1 .. n
      <3>1. PICK j \in 1 .. Len(fresh) : i = n - Len(fresh) + j
        <4>1. i - (n - Len(fresh)) \in 1 .. Len(fresh)
          BY <1>1, <2>2
        <4>2. i = n - Len(fresh) + (i - (n - Len(fresh)))
          BY <1>1
        <4> QED BY <4>1, <4>2
      <3> QED BY <1>1, <2>2, <3>1
    <2> QED BY <1>1, <2>1, <2>2
  <1>3. Window0!InWindow = n - Len(fresh) + 1 .. n
    <2>1. DOMAIN counted = 1 .. n
      BY <1>1
    <2>2. n - Len(fresh) + 1 .. n \subseteq 1 .. n
      BY <1>1
    <2> QED BY <1>2, <2>1, <2>2 DEF Window0!InWindow, IsFresh
  <1>4. Cardinality(n - Len(fresh) + 1 .. n) = Len(fresh)
    <2>0. n - Len(fresh) + 1 \in Int
      BY <1>1
    <2>1. PICK a \in Int : a = n - Len(fresh) + 1
      BY <2>0
    <2>2. n \in Int
      BY <1>1
    <2>3. Cardinality(a .. n) = IF a > n THEN 0 ELSE n - a + 1
      BY <2>2, FS_Interval
    <2>4. (IF a > n THEN 0 ELSE n - a + 1) = Len(fresh)
      BY <1>1, <2>1
    <2> QED BY <2>1, <2>3, <2>4
  <1>5. Window0!Cardinality(Window0!InWindow) = Cardinality(Window0!InWindow)
    BY DEF Window0!Cardinality, Cardinality
  <1> QED BY <1>3, <1>4, <1>5 DEF fresh

LEMMA NextSlidingWindow == Inv /\ [Next]_vars => [Window0!Next]_(Window0!slidingVars)
  <1> SUFFICES ASSUME Inv, [Next]_vars
               PROVE  Window0!Next \/ UNCHANGED Window0!slidingVars
    OBVIOUS
  <1>1. CASE UNCHANGED <<now, counted, verdict>>
    BY <1>1 DEF Window0!slidingVars
  <1>2. CASE Tick
    BY <1>2 DEF Tick, Window0!Next, Window0!Tick
  <1>3. ASSUME Record(EvaluateWindow(hits, now)), now' = now,
               verdict' = "lost" \/
                 verdict' = (IF EvaluateWindow(hits, now).allowed THEN "allowed" ELSE "refused")
        PROVE  Window0!Count \/ Window0!Refuse \/ Window0!Lose
    <2>1. Window0!Cardinality(Window0!InWindow) = Len(Fresh(hits, now))
      BY FreshIsInWindow
    <2>2. Len(Fresh(hits, now)) \in Nat
      BY PruneIs
    <2>3. CASE Len(Fresh(hits, now)) >= Quota
      <3>1. EvaluateWindow(hits, now).allowed = FALSE
        BY <2>3 DEF EvaluateWindow
      <3>2. counted' = counted /\ verdict' \in {"refused", "lost"}
        BY <1>3, <3>1 DEF Record
      <3> QED BY <1>3, <2>1, <2>3, <3>2 DEF Window0!Refuse, Window0!Lose
    <2>4. CASE ~(Len(Fresh(hits, now)) >= Quota)
      <3>1. EvaluateWindow(hits, now).allowed = TRUE
        BY <2>4 DEF EvaluateWindow
      <3>2. counted' = Append(counted, now) /\ verdict' \in {"allowed", "lost"}
        BY <1>3, <3>1 DEF Record
      <3>3. Window0!Cardinality(Window0!InWindow) < Quota
        BY <2>1, <2>2, <2>4, RateLimiterAssumption
      <3> QED BY <1>3, <3>2, <3>3 DEF Window0!Count
    <2> QED BY <2>3, <2>4
  <1>4. Hit => Window0!Count \/ Window0!Refuse \/ Window0!Lose
    BY <1>3 DEF Hit
  <1>5. HitCutShort => Window0!Count \/ Window0!Lose
    <2> SUFFICES ASSUME HitCutShort PROVE Window0!Count \/ Window0!Lose
      OBVIOUS
    <2>1. CASE Record(EvaluateWindow(hits, now))
      BY <1>3, <2>1 DEF HitCutShort, Window0!Refuse
    <2>2. CASE UNCHANGED <<hits, counted>>
      BY <2>2 DEF HitCutShort, Window0!Lose
    <2> QED BY <2>1, <2>2 DEF HitCutShort
  <1>6. Alarm \/ AlarmRejects => UNCHANGED <<now, counted, verdict>>
    BY DEF Alarm, AlarmRejects
  <1> QED BY <1>1, <1>2, <1>4, <1>5, <1>6 DEF Next, vars, Window0!Next

\* Pruning, the alarm and crashes never change an answer: a bucket answers as
\* if it remembered every hit it ever counted.
THEOREM ImplementsSlidingWindow == Spec => SlidingWindowSpec
  <1>1. Init => Window0!Init
    BY DEF Init, Window0!Init
  <1> QED BY <1>1, NextSlidingWindow, Invariance, PTL DEF Spec, SlidingWindowSpec, Window0!Spec

-----------------------------------------------------------------------------
(* The device twin, for every length of the ring buffer, every number of   *)
(* ticks and every set of storage failures.                                *)

\* TwinTypeOK without the bound on the buffer's length.
TypesHold == /\ twinFaults \in TwinFaultSets
             /\ up \in BOOLEAN
             /\ armed \in BOOLEAN
             /\ latest \in Reading
             /\ seq \in Nat
             /\ history \in Seq(Reading)
             /\ drawn \in Nat
             /\ published \subseteq Reading

\* What the steps rely on for the shape of the stored history.
Unbroken == /\ latest = NoReading <=> history = << >>
            /\ history # << >> => history[1] = latest
            /\ \A i \in 1 .. Len(history) : history[i].seq + i = seq + 1
            /\ Len(history) <= HistoryMax

\* No number beyond seq is given out, and seq itself belongs to latest.
NumbersHeld == /\ latest = NoReading => published = {} /\ seq = 0
               /\ \A p \in published : p.seq <= seq /\ (p.seq = seq => p = latest)

IInv == /\ TypesHold /\ Unbroken /\ NumbersHeld /\ SeqIsUnique /\ ChainIsAlive

-----------------------------------------------------------------------------
\* A generated reading is never mistaken for an empty storage.
LEMMA GeneratedReading ==
    ASSUME drawn \in Nat, NEW n \in Nat
    PROVE  /\ GenerateReading(n) \in Reading
           /\ GenerateReading(n).seq = n
           /\ GenerateReading(n) # NoReading
BY DEF GenerateReading, Reading, NoReading

\* The arithmetic of a history that moves one place.
LEMMA OneUp == \A s, i, n \in Nat : s + (i - 1) = n + 1 => s + i = (n + 1) + 1
OBVIOUS

\* What Push leaves: the new reading in front of the old ones, cut at the end.
LEMMA PushShape ==
    ASSUME history \in Seq(Reading), NEW reading \in Reading
    PROVE  /\ Push(reading) \in Seq(Reading)
           /\ Push(reading) # << >>
           /\ Push(reading)[1] = reading
           /\ Len(Push(reading)) <= HistoryMax
           /\ Len(Push(reading)) <= Len(history) + 1
           /\ \A i \in 2 .. Len(Push(reading)) : Push(reading)[i] = history[i - 1]
<1> DEFINE pushed == <<reading>> \o history
           n == IF Len(pushed) > HistoryMax THEN HistoryMax ELSE Len(pushed)
<1>1. /\ pushed \in Seq(Reading)
      /\ Len(pushed) = Len(history) + 1
      /\ pushed[1] = reading
      /\ \A i \in 2 .. Len(pushed) : pushed[i] = history[i - 1]
  OBVIOUS
<1>2. n \in 1 .. Len(pushed) /\ n <= HistoryMax
  BY <1>1, DeviceTwinAssumption
<1>3. Push(reading) = SubSeq(pushed, 1, n)
  BY DEF Push
<1> HIDE DEF pushed, n
<1>4. /\ SubSeq(pushed, 1, n) \in Seq(Reading)
      /\ Len(SubSeq(pushed, 1, n)) = n
      /\ \A i \in 1 .. n : SubSeq(pushed, 1, n)[i] = pushed[i]
  BY <1>1, <1>2
<1>5. QED
  BY <1>1, <1>2, <1>3, <1>4

-----------------------------------------------------------------------------
\* The steps that store a reading: a tick, or a seed in an empty storage.
LEMMA TickKeeps == ASSUME IInv, TwinTick PROVE Unbroken' /\ NumbersHeld' /\ SeqIsUnique'
<1> DEFINE reading == GenerateReading(seq + 1)
<1> USE DEF IInv, TypesHold
<1>1. /\ reading \in Reading
      /\ reading.seq = seq + 1
      /\ reading # NoReading
  BY GeneratedReading
<1>2. /\ latest' = reading /\ seq' = seq + 1 /\ history' = Push(reading)
      /\ published' = published \cup {reading}
  BY DEF TwinTick
<1> HIDE DEF reading
<1>3. Unbroken'
  <2>1. /\ history' # << >> /\ history'[1] = reading
        /\ Len(history') <= HistoryMax
        /\ Len(history') <= Len(history) + 1
        /\ history' \in Seq(Reading)
        /\ \A i \in 2 .. Len(history') : history'[i] = history[i - 1]
    BY <1>1, <1>2, PushShape
  <2>2. ASSUME NEW i \in 1 .. Len(history')
        PROVE  history'[i].seq + i = seq' + 1
    <3>1. CASE i = 1
      BY <3>1, <2>1, <1>1, <1>2
    <3>2. CASE i # 1
      <4>1. i \in 2 .. Len(history') /\ i - 1 \in 1 .. Len(history)
        BY <3>2, <2>1
      <4>2. history[i - 1].seq + (i - 1) = seq + 1
        BY <4>1 DEF Unbroken
      <4>3. history'[i] = history[i - 1] /\ history[i - 1] \in Reading
        BY <4>1, <2>1
      <4>4. history[i - 1].seq \in Nat /\ i \in Nat /\ seq \in Nat
        BY <4>3, <2>1 DEF Reading
      <4>5. history[i - 1].seq + i = (seq + 1) + 1
        BY <4>2, <4>4, OneUp
      <4>6. history'[i].seq = history[i - 1].seq /\ seq' = seq + 1
        BY <4>3, <1>2
      <4>7. QED
        BY <4>5, <4>6
    <3>3. QED
      BY <3>1, <3>2
  <2>3. QED
    BY <2>1, <2>2, <1>1, <1>2 DEF Unbroken
<1>4. NumbersHeld'
  <2>1. ASSUME NEW p \in published
        PROVE  p.seq < seq'
    <3>1. p.seq \in Nat
      BY DEF Reading
    <3>2. p.seq <= seq
      BY DEF NumbersHeld
    <3>3. QED
      BY <3>1, <3>2, <1>2
  <2>2. \A p \in published : p.seq \in Nat
    BY DEF Reading
  <2>3. QED
    BY <2>1, <2>2, <1>1, <1>2 DEF NumbersHeld
<1>5. SeqIsUnique'
  <2>1. \A p \in published : p.seq \in Nat /\ p.seq <= seq
    BY DEF NumbersHeld, Reading
  <2>2. \A p \in published : p.seq # reading.seq
    BY <2>1, <1>1
  <2>3. QED
    BY <2>2, <1>2 DEF SeqIsUnique
<1>6. QED
  BY <1>3, <1>4, <1>5

LEMMA SeedKeeps ==
    ASSUME IInv, GetLatestReading, latest = NoReading
    PROVE  Unbroken' /\ NumbersHeld' /\ SeqIsUnique' /\ history' \in Seq(Reading)
<1> DEFINE reading == GenerateReading(0)
<1> USE DEF IInv, TypesHold
<1>1. reading \in Reading /\ reading.seq = 0 /\ reading # NoReading
  BY GeneratedReading
<1>2. /\ latest' = reading /\ seq' = 0 /\ history' = <<reading>>
      /\ published' = published \cup {reading}
  BY DEF GetLatestReading
<1> HIDE DEF reading
<1>3. published = {} /\ HistoryMax >= 1 /\ HistoryMax \in Nat
  BY DeviceTwinAssumption DEF NumbersHeld
<1>4. Len(<<reading>>) = 1 /\ <<reading>>[1] = reading /\ <<reading>> # << >>
  OBVIOUS
<1>5. Unbroken'
  BY <1>1, <1>2, <1>3, <1>4 DEF Unbroken
<1>6. NumbersHeld' /\ SeqIsUnique'
  BY <1>1, <1>2, <1>3 DEF NumbersHeld, SeqIsUnique
<1>7. QED
  BY <1>1, <1>2, <1>5, <1>6

\* A step that leaves storage alone and hands out nothing new.
LEMMA QuietKeeps ==
    ASSUME IInv, UNCHANGED store, published' \subseteq published \cup {latest},
           latest = NoReading => published' = published
    PROVE  Unbroken' /\ NumbersHeld' /\ SeqIsUnique'
<1> USE DEF IInv, TypesHold, store
<1>1. Unbroken'
  BY DEF Unbroken
<1>2. NumbersHeld'
  <2>1. CASE latest = NoReading
    BY <2>1 DEF NumbersHeld
  <2>2. CASE latest # NoReading
    <3>1. latest.seq = seq
      <4>1. history # << >> /\ history[1] = latest
        BY <2>2 DEF Unbroken
      <4>2. 1 \in 1 .. Len(history)
        BY <4>1
      <4>3. latest.seq + 1 = seq + 1 /\ latest.seq \in Nat
        BY <4>1, <4>2 DEF Unbroken, Reading
      <4>4. QED
        BY <4>3
    <3>2. QED
      BY <2>2, <3>1 DEF NumbersHeld
  <2>3. QED
    BY <2>1, <2>2
<1>3. SeqIsUnique'
  <2>1. \A p \in published' : p.seq <= seq' /\ (p.seq = seq' => p = latest')
    BY <1>2 DEF NumbersHeld
  <2>2. CASE latest = NoReading
    BY <2>2 DEF SeqIsUnique
  <2>3. CASE latest # NoReading
    <3>1. latest.seq = seq
      <4>1. history # << >> /\ history[1] = latest
        BY <2>3 DEF Unbroken
      <4>2. 1 \in 1 .. Len(history)
        BY <4>1
      <4>3. latest.seq + 1 = seq + 1 /\ latest.seq \in Nat
        BY <4>1, <4>2 DEF Unbroken, Reading
      <4>4. QED
        BY <4>3
    <3>2. \A p \in published : p.seq = latest.seq => p = latest
      BY <3>1 DEF NumbersHeld
    <3>3. QED
      BY <3>2 DEF SeqIsUnique
  <2>4. QED
    BY <2>2, <2>3
<1>4. QED
  BY <1>1, <1>2, <1>3

-----------------------------------------------------------------------------
LEMMA InitIInv == TwinInit => IInv
<1> SUFFICES ASSUME TwinInit PROVE IInv
  OBVIOUS
<1>1. TypesHold
  <2>1. NoReading \in Reading
    BY DEF Reading, NoReading
  <2>2. << >> \in Seq(Reading)
    OBVIOUS
  <2>3. QED
    BY <2>1, <2>2 DEF TwinInit, TypesHold
<1>2. Unbroken
  <2>1. history = << >> /\ Len(history) = 0 /\ latest = NoReading
    BY DEF TwinInit
  <2>2. QED
    BY <2>1, DeviceTwinAssumption DEF Unbroken
<1>3. NumbersHeld /\ SeqIsUnique /\ ChainIsAlive
  BY DEF TwinInit, NumbersHeld, SeqIsUnique, ChainIsAlive
<1>4. QED
  BY <1>1, <1>2, <1>3 DEF IInv

LEMMA NextIInv == IInv /\ [TwinNext]_twinVars => IInv'
<1> SUFFICES ASSUME IInv, [TwinNext]_twinVars PROVE IInv'
  OBVIOUS
<1>1. CASE Construct /\ UNCHANGED twinFaults
  <2>1. Unbroken' /\ NumbersHeld' /\ SeqIsUnique'
    BY <1>1, QuietKeeps DEF Construct
  <2>2. TypesHold'
    BY <1>1 DEF Construct, store, IInv, TypesHold
  <2>3. ChainIsAlive'
    BY <1>1 DEF Construct, IInv, ChainIsAlive
  <2>4. QED
    BY <2>1, <2>2, <2>3 DEF IInv
<1>2. CASE Evict /\ UNCHANGED twinFaults
  <2>1. Unbroken' /\ NumbersHeld' /\ SeqIsUnique'
    BY <1>2, QuietKeeps DEF Evict
  <2>2. QED
    BY <1>2, <2>1 DEF Evict, store, IInv, TypesHold, ChainIsAlive
<1>3. CASE TwinAlarm /\ UNCHANGED twinFaults
  <2>1. Unbroken' /\ NumbersHeld' /\ SeqIsUnique'
    BY <1>3, TickKeeps DEF TwinAlarm
  <2>2. TypesHold'
    <3>1. GenerateReading(seq + 1) \in Reading
      BY GeneratedReading DEF IInv, TypesHold
    <3>2. history' \in Seq(Reading)
      BY <1>3, <3>1, PushShape DEF TwinAlarm, TwinTick, IInv, TypesHold
    <3>3. QED
      BY <1>3, <3>1, <3>2 DEF TwinAlarm, TwinTick, IInv, TypesHold
  <2>3. QED
    BY <1>3, <2>1, <2>2 DEF TwinAlarm, IInv, ChainIsAlive
<1>4. CASE TickRejects /\ UNCHANGED twinFaults
  <2>1. Unbroken' /\ NumbersHeld' /\ SeqIsUnique'
    BY <1>4, QuietKeeps DEF TickRejects
  <2>2. QED
    BY <1>4, <2>1 DEF TickRejects, store, IInv, TypesHold, ChainIsAlive
<1>5. CASE SetAlarmRejects /\ UNCHANGED twinFaults
  <2>1. Unbroken' /\ NumbersHeld' /\ SeqIsUnique'
    BY <1>5, QuietKeeps DEF SetAlarmRejects
  <2>2. TypesHold'
    BY <1>5 DEF SetAlarmRejects, store, IInv, TypesHold
  <2>3. ChainIsAlive'
    BY <1>5 DEF SetAlarmRejects, ChainIsAlive
  <2>4. QED
    BY <2>1, <2>2, <2>3 DEF IInv
<1>6. CASE GetLatestReading /\ UNCHANGED twinFaults
  <2>1. CASE latest # NoReading
    <3>1. UNCHANGED store /\ published' = published \cup {latest} /\ UNCHANGED <<drawn, up, armed>>
      BY <1>6, <2>1 DEF GetLatestReading
    <3>2. Unbroken' /\ NumbersHeld' /\ SeqIsUnique'
      BY <2>1, <3>1, QuietKeeps
    <3>3. QED
      BY <1>6, <3>1, <3>2 DEF store, IInv, TypesHold, ChainIsAlive
  <2>2. CASE latest = NoReading
    <3>1. Unbroken' /\ NumbersHeld' /\ SeqIsUnique' /\ history' \in Seq(Reading)
      BY <1>6, <2>2, SeedKeeps
    <3>2. GenerateReading(0) \in Reading
      BY GeneratedReading DEF IInv, TypesHold
    <3>3. TypesHold'
      BY <1>6, <2>2, <3>1, <3>2 DEF GetLatestReading, IInv, TypesHold
    <3>4. QED
      BY <1>6, <3>1, <3>3 DEF GetLatestReading, IInv, ChainIsAlive
  <2>3. QED
    BY <2>1, <2>2
<1>7. CASE SeedRejects /\ UNCHANGED twinFaults
  <2>1. Unbroken' /\ NumbersHeld' /\ SeqIsUnique'
    BY <1>7, QuietKeeps DEF SeedRejects
  <2>2. QED
    BY <1>7, <2>1 DEF SeedRejects, store, IInv, TypesHold, ChainIsAlive
<1>8. CASE UNCHANGED twinVars
  <2>1. Unbroken' /\ NumbersHeld' /\ SeqIsUnique'
    BY <1>8, QuietKeeps DEF twinVars, store
  <2>2. QED
    BY <1>8, <2>1 DEF twinVars, store, IInv, TypesHold, ChainIsAlive
<1>9. QED
  BY <1>1, <1>2, <1>3, <1>4, <1>5, <1>6, <1>7, <1>8 DEF TwinNext

THEOREM TwinInvariance == TwinSpec => []IInv
<1>1. QED
  BY InitIInv, NextIInv, PTL DEF TwinSpec

\* Type correctness (device-twin.ts:24-27), the ring buffer's length included.
THEOREM TwinTypeCorrect == TwinSpec => []TwinTypeOK
<1>1. IInv => TwinTypeOK
  BY DEF IInv, TypesHold, Unbroken, TwinTypeOK
<1>2. QED
  BY <1>1, TwinInvariance, PTL

\* Two readings under one number are one reading (types.ts:11), through ticks,
\* the seed, failures and evictions (device-twin.ts:66-117).
THEOREM NumbersAreUnique == TwinSpec => []SeqIsUnique
<1>1. IInv => SeqIsUnique
  BY DEF IInv
<1>2. QED
  BY <1>1, TwinInvariance, PTL

\* As long as setAlarm works, an instance in memory always has its next alarm
\* (device-twin.ts:33-37 and 46-60).
THEOREM ChainSurvives == TwinSpec => []ChainIsAlive
<1>1. IInv => ChainIsAlive
  BY DEF IInv
<1>2. QED
  BY <1>1, TwinInvariance, PTL

\* The three stored keys agree after every step, and every slice that
\* getHistory serves begins with the latest reading (device-twin.ts:119-125).
THEOREM HistoryAgrees == TwinSpec => []HistoryIsUnbroken
<1>1. ASSUME IInv, NEW limit \in 0 .. HistoryMax + 1, history # << >>
      PROVE  GetHistory(limit) # << >> /\ GetHistory(limit)[1] = latest
  <2> DEFINE clamped == IF limit < 1 THEN 1 ELSE IF limit > HistoryMax THEN HistoryMax ELSE limit
             n == IF clamped < Len(history) THEN clamped ELSE Len(history)
  <2>1. HistoryMax \in Nat \ {0}
    BY DeviceTwinAssumption
  <2>2. history \in Seq(Reading) /\ Len(history) >= 1 /\ history[1] = latest
    BY <1>1 DEF IInv, TypesHold, Unbroken
  <2>3. n \in 1 .. Len(history)
    BY <2>1, <2>2
  <2>4. GetHistory(limit) = SubSeq(history, 1, n)
    BY DEF GetHistory
  <2> HIDE DEF clamped, n
  <2>5. Len(SubSeq(history, 1, n)) = n /\ SubSeq(history, 1, n)[1] = history[1]
    BY <2>2, <2>3
  <2>6. QED
    BY <2>2, <2>3, <2>4, <2>5
<1>2. IInv => HistoryIsUnbroken
  BY <1>1 DEF IInv, Unbroken, HistoryIsUnbroken
<1>3. QED
  BY <1>2, TwinInvariance, PTL

\* The stored number never falls, and every new reading but the seed gets the
\* next one (device-twin.ts:66-90).
THEOREM NumbersGrow == TwinSpec => SeqOnlyGrows
<1> DEFINE Grows == seq' >= seq /\ (latest' # latest /\ latest # NoReading => seq' = seq + 1)
<1>1. IInv /\ [TwinNext]_twinVars => [Grows]_twinVars
  <2> SUFFICES ASSUME IInv, TwinNext PROVE Grows
    BY DEF twinVars
  <2>1. seq \in Nat /\ (latest = NoReading => seq = 0)
    BY DEF IInv, TypesHold, NumbersHeld
  <2>2. CASE TwinAlarm
    BY <2>2, <2>1 DEF TwinAlarm, TwinTick
  <2>3. CASE GetLatestReading
    BY <2>3, <2>1 DEF GetLatestReading, store
  <2>4. CASE Construct \/ Evict \/ TickRejects \/ SetAlarmRejects \/ SeedRejects
    BY <2>4, <2>1 DEF Construct, Evict, TickRejects, SetAlarmRejects, SeedRejects, store
  <2>5. QED
    BY <2>2, <2>3, <2>4 DEF TwinNext
<1>2. QED
  BY <1>1, TwinInvariance, PTL DEF TwinSpec, SeqOnlyGrows
=============================================================================
