------------------------------- MODULE RateGate -------------------------------
(***************************************************************************)
(* enforceRateLimit of src/paid-route.ts: a request that carries a proof   *)
(* hits the bucket of its address and then, if the proof names a payer,    *)
(* the bucket of that payer, and must fit in both.  Each bucket is a       *)
(* Durable Object of its own and each hit is awaited, so other requests    *)
(* come in between and a request may end half way.  A bucket is what       *)
(* SlidingWindow promises, which RateLimiter is proved to implement.       *)
(***************************************************************************)
EXTENDS Naturals, Sequences, FiniteSets

CONSTANTS Caller,        \* clients, one request at a time each
          Address,       \* values of cf-connecting-ip
          Payer,         \* payer addresses, lower-cased as in the bucket's name
          NoPayer,       \* no payer can be read from the proof
          AddressQuota,  \* IP_RATE_LIMIT_QUOTA
          PayerQuota,    \* RATE_LIMIT_QUOTA
          Window,        \* windowMs, in time units
          Second,        \* time units in a second
          MaxTime,       \* bound: the clock stops here
          HitMayFail     \* a call of a bucket's stub may reject

ASSUME RateGateAssumption ==
    /\ NoPayer \notin Address \cup Payer
    /\ Address \cap Payer = {}         \* the names carry the prefixes ip: and payer:
    /\ AddressQuota \in Nat \ {0} /\ PayerQuota \in Nat \ {0}
    /\ Window \in Nat \ {0} /\ Second \in Nat \ {0} /\ MaxTime \in Nat
    /\ HitMayFail \in BOOLEAN

Bucket == Address \cup Payer

VARIABLES now,       \* the clock the buckets read
          counted,   \* times of the hits each bucket has counted, in order
          req,       \* the request each caller has in the gate, or Idle
          told,      \* history: the wait each bucket has named since it last counted a hit
          passed     \* history: when requests came past each address's bucket,
                     \* and when they were admitted for each payer

vars == <<now, counted, req, told, passed>>

Never == MaxTime + Window + Second    \* later than any wait that is named

\* from: where it comes from; payer: whom its proof names.
Idle == [step |-> "idle", from |-> NoPayer, payer |-> NoPayer]

QuotaOf(b) == IF b \in Address THEN AddressQuota ELSE PayerQuota

Sliding(b) == INSTANCE SlidingWindow WITH Quota <- QuotaOf(b), counted <- counted[b],
                                          verdict <- "none"
InWindow(b) == Sliding(b)!InWindow

Fits(b) == Cardinality(InWindow(b)) < QuotaOf(b)

CeilDiv(x, y) == (x + y - 1) \div y

Oldest(b) == counted[b][CHOOSE i \in InWindow(b) : \A j \in InWindow(b) : i <= j]

\* The verdict's retryAfter, in seconds: until the oldest hit leaves the window.
RetryAfter(b) == CeilDiv(Oldest(b) + Window - now, Second)

Request == {Idle} \cup [step : {"address"}, from : Address, payer : Payer \cup {NoPayer}]
                  \cup [step : {"payer"}, from : Address, payer : Payer]

TypeOK == /\ now \in 0 .. MaxTime
          /\ counted \in [Bucket -> Seq(Nat)]
          /\ req \in [Caller -> Request]
          /\ told \in [Bucket -> Nat]
          /\ passed \in [Bucket -> Seq(Nat)]

Init == /\ now = 0
        /\ counted = [b \in Bucket |-> << >>]
        /\ req = [c \in Caller |-> Idle]
        /\ told = [b \in Bucket |-> Never]
        /\ passed = [b \in Bucket |-> << >>]

Tick == /\ now < MaxTime
        /\ now' = now + 1
        /\ UNCHANGED <<counted, req, told, passed>>

\* A client presents a proof, from wherever it is now.
Ask(c) ==
    /\ req[c] = Idle
    /\ \E a \in Address, p \in Payer \cup {NoPayer} :
          req' = [req EXCEPT ![c] = [step |-> "address", from |-> a, payer |-> p]]
    /\ UNCHANGED <<now, counted, told, passed>>

Count(b) == /\ counted' = [counted EXCEPT ![b] = Append(@, now)]
            /\ told' = [told EXCEPT ![b] = Never]

Leave(c) == req' = [req EXCEPT ![c] = Idle]

\* Bug: every 429 asks for the same wait.
Refuse_FixedWait(c, b) ==
    /\ told' = [told EXCEPT ![b] = now + Second]
    /\ Leave(c)
    /\ UNCHANGED <<now, counted, passed>>

\* 429 with the Retry-After of the bucket that refused.
Refuse(c, b) ==
    /\ told' = [told EXCEPT ![b] = now + Second * RetryAfter(b)]
    /\ Leave(c)
    /\ UNCHANGED <<now, counted, passed>>

Pass(who) == passed' = [b \in Bucket |-> IF b \in who THEN Append(passed[b], now)
                                         ELSE passed[b]]

\* Bug: a proof that names a payer is counted against that payer alone.
HitAddress_PayerOnly(c) ==
    /\ req[c].step = "address"
    /\ req[c].payer # NoPayer
    /\ Pass({req[c].from})
    /\ req' = [req EXCEPT ![c].step = "payer"]
    /\ UNCHANGED <<now, counted, told>>

\* The first bucket.  A proof that names no payer has no second one.
HitAddress(c) ==
    /\ req[c].step = "address"
    /\ \/ /\ Fits(req[c].from)
          /\ Count(req[c].from)
          /\ Pass({req[c].from})
          /\ IF req[c].payer = NoPayer THEN Leave(c)
             ELSE req' = [req EXCEPT ![c].step = "payer"]
          /\ UNCHANGED now
       \/ ~Fits(req[c].from) /\ Refuse(c, req[c].from)

\* The second bucket.  A request it refuses keeps its slot in the first.
HitPayer(c) ==
    /\ req[c].step = "payer"
    /\ \/ /\ Fits(req[c].payer)
          /\ Count(req[c].payer)
          /\ Pass({req[c].payer})
          /\ Leave(c)
          /\ UNCHANGED now
       \/ ~Fits(req[c].payer) /\ Refuse(c, req[c].payer)

\* A stub rejects, its hit counted or not: a bare 500, and what the first
\* bucket has counted stays counted.
HitRejects(c) ==
    /\ HitMayFail
    /\ LET bucket == IF req[c].step = "address" THEN req[c].from ELSE req[c].payer
       IN /\ req[c] # Idle
          /\ UNCHANGED <<counted, told>> \/ (Fits(bucket) /\ Count(bucket))
    /\ Leave(c)
    /\ UNCHANGED <<now, passed>>

Next == Tick \/ \E c \in Caller : Ask(c) \/ HitAddress(c) \/ HitPayer(c) \/ HitRejects(c)

Spec == Init /\ [][Next]_vars

-----------------------------------------------------------------------------
(* Properties.                                                             *)

\* rate-limiter.ts:24 "rotating fake addresses walks straight past a per-payer
\* limit.  So there are now two buckets": whatever payers its proofs name, and
\* whether those are refused later or lost, no address brings more than its
\* quota of requests past its bucket in a window; and no payer, from
\* whatever addresses, has more than its quota admitted.
BothQuotasHold ==
    \A b \in Bucket : \A i \in DOMAIN passed[b] :
        i + QuotaOf(b) \in DOMAIN passed[b] =>
            passed[b][i + QuotaOf(b)] >= passed[b][i] + Window

\* rate-limiter.ts:46 "Seconds until a slot frees up": a client that has waited
\* the Retry-After it was told is not refused again by the bucket that refused
\* it, unless that bucket has counted another hit in the meantime.
RetryAfterSuffices == \A b \in Bucket : now >= told[b] => Fits(b)
=============================================================================
