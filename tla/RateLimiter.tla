----------------------------- MODULE RateLimiter -----------------------------
(***************************************************************************)
(* One bucket of the rate limiter (src/rate-limiter.ts): a Durable Object  *)
(* that keeps the timestamps of recent hits and an alarm that empties an   *)
(* idle bucket.  Input gates make hit and alarm run one at a time, so each *)
(* is one action; what can come between their storage operations is a      *)
(* crash.  Alarms fire at least once, late or not.                         *)
(***************************************************************************)
EXTENDS Naturals, Sequences, FiniteSets

CONSTANTS Window,    \* windowMs, in time units
          Quota,     \* hits a window may hold
          Second,    \* time units in a second
          LastHit,   \* bound: no hit comes after this time
          MaxTime,   \* bound: the clock stops here
          FaultSets  \* the sets of faults to consider

FaultKinds == {"crash",    \* the object dies in hit
               "alarm"}    \* alarm() rejects

ASSUME RateLimiterAssumption ==
    /\ Window \in Nat \ {0}
    /\ Quota \in Nat \ {0}
    /\ Second \in Nat \ {0}
    /\ LastHit \in Nat
    /\ MaxTime \in Nat
    /\ FaultSets \subseteq SUBSET FaultKinds

NoAlarm == 0    \* no alarm is ever set for time 0

VARIABLES faults,   \* what may fail in this behaviour: fixed at the start
          now,      \* Date.now()
          hits,     \* storage "hits"; absent and empty are alike
          alarm,    \* the alarm the object has set, or NoAlarm
          counted,  \* history: every hit that took a slot, in order
          verdict   \* history: the last answer of hit

vars == <<faults, now, hits, alarm, counted, verdict>>

\* Bug: a hit stays in the window one unit too long.
IsFresh_Inclusive(t, at) == t + Window >= at

IsFresh(t, at) == t + Window > at    \* t > nowMs - windowMs

\* filter, then sort: the list is ascending (Sorted below), so what is still
\* fresh is a suffix of it, and the sort leaves it as it is.
FirstFresh(list, at) ==
    CHOOSE k \in 1 .. Len(list) + 1 :
        /\ \A i \in k .. Len(list) : IsFresh(list[i], at)
        /\ k > 1 => ~IsFresh(list[k - 1], at)

Fresh(list, at) == SubSeq(list, FirstFresh(list, at), Len(list))

\* Bug: the wait is rounded down.
CeilDiv_Floor(a, b) == a \div b

CeilDiv(a, b) == (a + b - 1) \div b

Larger(a, b) == IF a > b THEN a ELSE b

\* Bug: the quota is compared the wrong way round its boundary.
EvaluateWindow_OffByOne(list, at) ==
    LET fresh == Fresh(list, at)
    IN [allowed    |-> Len(fresh) <= Quota,
        retryAfter |-> 1,
        kept       |-> IF Len(fresh) <= Quota THEN Append(fresh, at) ELSE fresh]

\* WindowDecision of evaluateWindow.
EvaluateWindow(list, at) ==
    LET fresh == Fresh(list, at)
    IN IF Len(fresh) >= Quota
       THEN [allowed    |-> FALSE,
             retryAfter |-> Larger(1, CeilDiv(fresh[1] + Window - at, Second)),
             kept       |-> fresh]
       ELSE [allowed    |-> TRUE,
             retryAfter |-> 0,
             kept       |-> Append(fresh, at)]

-----------------------------------------------------------------------------
Init == /\ faults \in FaultSets
        /\ now = 0
        /\ hits = << >>
        /\ alarm = NoAlarm
        /\ counted = << >>
        /\ verdict = "none"

Tick == /\ now < MaxTime
        /\ now' = now + 1
        /\ UNCHANGED <<hits, alarm, counted, verdict>>

\* What both ways a hit can end have in common: the list is put.
Record(decision) ==
    /\ hits' = decision.kept
    /\ counted' = IF decision.allowed THEN Append(counted, now) ELSE counted

\* Bug: the alarm is set once and not pushed back by later hits.
Hit_ArmsOnce == /\ now <= LastHit
                /\ Record(EvaluateWindow(hits, now))
                /\ alarm' = IF alarm = NoAlarm THEN now + Window + Second ELSE alarm
                /\ verdict' \in {"allowed", "refused"}
                /\ UNCHANGED now

\* Every hit, let through or refused, pushes the alarm back.
Hit == /\ now <= LastHit
       /\ LET decision == EvaluateWindow(hits, now)
          IN /\ Record(decision)
             /\ alarm' = IF decision.kept = << >> THEN alarm ELSE now + Window + Second
             /\ verdict' = IF decision.allowed THEN "allowed" ELSE "refused"
       /\ UNCHANGED now

\* The object fails before the put, or between it and the setAlarm: the caller's
\* stub rejects.
HitCutShort == /\ "crash" \in faults
               /\ now <= LastHit
               /\ Record(EvaluateWindow(hits, now)) \/ UNCHANGED <<hits, counted>>
               /\ verdict' = "lost"
               /\ UNCHANGED <<now, alarm>>

\* alarm(): nothing fresh, delete everything; else keep what is fresh.
Alarm == /\ alarm # NoAlarm
         /\ now >= alarm
         /\ hits' = Fresh(hits, now)
         /\ alarm' = NoAlarm
         /\ UNCHANGED <<now, counted, verdict>>

\* alarm() rejects: the runtime tries again, and gives up after some tries.
AlarmRejects == /\ "alarm" \in faults
                /\ alarm # NoAlarm
                /\ now >= alarm
                /\ alarm' = NoAlarm
                /\ UNCHANGED <<now, hits, counted, verdict>>

Next == (Tick \/ Hit \/ HitCutShort \/ Alarm \/ AlarmRejects) /\ UNCHANGED faults

Spec == Init /\ [][Next]_vars

\* Time passes and a due alarm is delivered; nobody has to hit the bucket.
FairSpec == Spec /\ WF_vars(Tick /\ UNCHANGED faults) /\ WF_vars(Alarm /\ UNCHANGED faults)

-----------------------------------------------------------------------------
Sorted(list) == \A i, j \in 1 .. Len(list) : i <= j => list[i] <= list[j]

TypeOK == /\ faults \in FaultSets
          /\ now \in 0 .. MaxTime
          /\ hits \in Seq(Nat) /\ Sorted(hits)
          /\ Len(hits) <= Quota
          /\ alarm \in Nat
          /\ counted \in Seq(Nat) /\ Sorted(counted)
          /\ verdict \in {"none", "allowed", "refused", "lost"}

\* rate-limiter.ts:19 "makes the count exact": no window of Window time units
\* holds more than Quota counted hits, across pruning, alarms and crashes: the
\* hit that comes Quota places after another comes at least Window later.
QuotaHolds ==
    \A i \in 1 .. Len(counted) :
        i + Quota <= Len(counted) => counted[i + Quota] >= counted[i] + Window

\* rate-limiter.ts:46 "Seconds until a slot frees up": a refused caller that
\* waits retryAfter finds a slot if nobody else hits, and no whole second
\* earlier would have been enough.
RetryAfterIsExact ==
    LET decision == EvaluateWindow(hits, now)
        Free(at) == EvaluateWindow(hits, at).allowed
    IN ~decision.allowed =>
          /\ Free(now + decision.retryAfter * Second)
          /\ decision.retryAfter > 1 => ~Free(now + (decision.retryAfter - 1) * Second)

\* rate-limiter.ts:85 "Let an idle bucket clean itself up rather than
\* accumulating forever": it does, while no operation fails.
IdleBucketCleaned == faults = {} => <>[](hits = << >>)

Window0 == INSTANCE SlidingWindow
SlidingWindowSpec == Window0!Spec
=============================================================================
