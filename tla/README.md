# Verification of the x402 IoT seller and its autonomous buyer

This directory holds TLA+ models of the program in this repository, the TLC
configurations that check them on small instances, and theorems about them that
TLAPS checks for every value of the constants. Line numbers in the modules and
below are those of the repository's sources.

Four files are the way in: `PaidRoute.tla` (how a request is paid for),
`BuyerAgent.tla` (how money is spent), `Sale.tla` (the two together) and
`RateLimiter.tla` (how requests are counted).

## 1. The system

A Cloudflare Worker (`src/`) sells readings of a simulated sensor and small
inferences for USDC over the x402 protocol. A Node program (`buyer/`) buys them
within a signed mandate and a daily cap. A facilitator, which neither side owns,
verifies and settles payments on a chain.

| Component | State it keeps | Operations | Talks to |
|---|---|---|---|
| Paid route gate (`src/paid-route.ts`, route table `src/index.ts`) | KV: `idem:<hash>` replay keys, `receipt_log` (newest 100), `latest_event` | one gate per request: validate, count, mandate, screen, verify, replay check, work, settle, record | rate limiter, mandate check, device twin, AI binding, facilitator, KV |
| Rate limiter (`src/rate-limiter.ts`) | a list of hit times for each bucket, an alarm | `hit`, `alarm` | called by the gate, one bucket for the address and one for the payer |
| Device twin (`src/device-twin.ts`) | `latest`, `seq`, `history`, an alarm | constructor, `alarm`, `tick`, `getLatestReading`, `getHistory` | called by the routes |
| Inference (`src/inference.ts`) | none | validate input, run the model, pick the top class | called by the gate |
| Mandate (`src/mandate.ts`, `buyer/mandate.mjs`) | none; the buyer creates one per launch | sign, verify, check a price | gate, negotiation, buyer loop |
| Negotiation (`src/negotiate.ts`) | none | judge a counter-offer | called by the buyer |
| Reports (`src/payers.ts`, `src/metrics.ts`, `src/index.ts`) | none, they read `receipt_log` | summarise, daily figures, receipts | read what the gate writes |
| Visit counters (`src/metrics.ts`) | KV counters per day, kind and label | count, report | landing page, reports |
| Subscriptions (`src/subscribe.ts`) | KV: `subrl:<ip>` counters, `sub:<email>` records | post, export, count | landing page, operator |
| Live feed (`src/demo.ts`) | a cursor for each stream; `sseCursor` and the table in the page | stream start, poll, close; connect, show; fetch and render the receipts | reads `latest_event`, `/api/receipts` |
| Agent card (`src/agent-card.ts`, `src/card-signing.ts`, `buyer/card-verify.mjs`) | a signing key in the environment, one pinned key at the buyer | publish, sign, announce the key, verify | read by the buyer before each purchase |
| Buyer loop (`buyer/agent.mjs`, `buyer/budget.mjs`) | `ledger.jsonl`, error count, turn | launch, discover, choose, pay, record, back off, exit | gate, negotiation, card |

What is hard about it:

- Every `await` of the Worker is a point where another request runs, and KV has
  no transactions: the replay check, the receipt log, the subscription throttle
  and the visit counters all read, wait and write back.
- KV reads may be stale across locations. Any KV, Durable Object or facilitator
  call may reject, before or after it took effect. The client can go away and
  the isolate can be evicted between any two awaits.
- Money moves outside both programs: a settlement may be executed although its
  answer is lost, or after everybody has stopped waiting for it. One signed
  authorization can be written down in several texts, and the replay key is a hash
  of the text.
- Durable Objects run one call at a time but are evicted, and are woken by
  alarms that must have been set before the thing that fails.
- The live feed is a chain of short connections over one overwritten key.

What makes each component correct is stated by the properties of section 4;
`PROJECT.json` lists the hazards behind them, line by line.

## 2. The modules

| Module | Models | What a state and an action are |
|---|---|---|
| `PaidRoute` | `createPaidRoute`, `rejectReplay`, `recordSettlement`, the payment middleware around them, the legacy route | `pc[r]` is the await a request stands at, or its answer; one action per await. `idem`, `log`, `latestEvent` are the KV keys, `expired` and `versions` what stale reads may find of them, `charges` the chain; `held` is history |
| `IdealSale` | nothing: the promise | one charge per proof, goods only for the request that was charged |
| `RateGate` | `enforceRateLimit`: the bucket of an address, then that of a payer | `req[c]` is the bucket a client's request stands at, `counted[b]` a bucket; `told`, `passed` are history |
| `RateLimiter` | one bucket | `hits` and `alarm` are its storage; `Hit`, `Alarm` its methods, `HitCutShort` a loss before the put, or between it and `setAlarm` |
| `SlidingWindow` | nothing: the promise | a bucket that never forgets |
| `DeviceTwin` | the sensor | `latest`, `seq`, `history` are the storage keys, `up` says that an instance is in memory |
| `AgentCard` | signing, serving and verifying the card | operators; a card is its offers and a set of signatures |
| `BuyerAgent` | the loop, its ledger and the seller as the loop sees it, its card and signing key among it | `pc` is the place in the loop, `flight` the request in flight, `late` the settlements nobody waits for, `secret` the seller's key, `pinned` the buyer's |
| `Sale` | a buyer's process at the real gate | `PaidRoute`'s variables for two requests per purchase, and those of `BuyerAgent` that are the buyer's own; the rest of `BuyerAgent` is computed from the gate |
| `Mandate` | both verifiers | one mandate, judged by the buyer, then, after any delay, by the seller |
| `SettlementFeed` | `sseHandler` and the page's `connectSSE` | `queue` holds what is under way from stream to page |
| `Subscribe` | the form's POST, the export and the count | `pc[p]` is the next KV call of a post, `listing` the place of an export or a count in the list |
| `Reports` | the folds over `receipt_log`; the visit counters and the report that adds them up; the page's fetches of the receipts | every log the seller could have, with the reports as operators on it; `pc[v]` is the next KV call of a visit, `held[k]` what a counter has held, `fetch[f]` a fetch or its answer |

`MC<Module>` gives the constants values TLC can use; `PaidRouteProofs`,
`RateGateProofs`, `BuyerAgentProofs` and `SubscribeProofs` hold the theorems of one
module, `DurableObjectProofs` those of `RateLimiter` and `DeviceTwin`, `PurchaseProofs`
those of `Mandate` and `Sale`, and `PageProofs` those of `SettlementFeed` and
`Reports`, what the public page shows. Modules whose theorems share one carry
prefixed names (`TwinSpec`, `ReportsSpec`). `FiniteFolds` has the lemmas on sums and
folds. The `map` in `PROJECT.json` ties each definition to its lines.

**The environment is a variable.** What may fail is a set chosen in the initial
state and never changed (`faults`, `events`, `setting`, `load`). A run explores all
the environments of its `.cfg`, and a property that holds in some of them only
says so: `LossNeedsOverlap` begins `load.faults = {} =>`.

**Bugs on purpose.** An operator named `X_Something`, with a comment that begins
`Bug:`, is `X` with a plausible mistake: a dropped guard, a swapped order, an
off-by-one, in some cases a defect this code once had. No action uses it. Put in
the place of `X`, it makes the property it is written for fail, which shows that
the property depends on the code. `PROJECT.json` pairs them.

### How the code became the model

- *PaidRoute.* Checks that await nothing are one step. A put that rejects may
  have been applied. A stale read of `receipt_log` returns any version the key
  has had (`versions`), with entries that were cut or overwritten since. A proof
  stands for a signed EIP-3009 authorization, whose nonce the chain takes once; a
  header is one text of it. Screening, facilitator and chain see the proof, the
  replay check sees the header. A replay key ends after 24 hours: without a clock,
  `Expire` may end it at any time, and a stale read may find it even then. The
  facilitator executes a submitted transfer on its own clock. The middleware is
  external: it verifies, runs the handler, and settles only below status 400.
  A rejected call to the facilitator is caught by the gate and answered 503; the
  legacy route catches nothing and answers a bare 500 (`CallRejected`). `Work` has
  one disjunct per resource: the device, the AI binding, and the legacy reading,
  which cannot fail and is not replay-protected.
- *RateGate.* Each bucket is a Durable Object and each hit an await, between which
  other clients' requests come. A bucket is a `SlidingWindow`, which `RateLimiter`
  is proved to implement. A client may change its address and its payer with every
  request, and a hit that rejects may have been counted.
- *RateLimiter.* `hit` is one step: a Durable Object delivers no other event to it
  while it awaits its storage. Only a loss of the object divides it. Filter and sort are written as the fresh suffix
  of an ordered list, which lemma `FreshIs` justifies. The clock does not run
  backwards.
- *DeviceTwin.* The values of a reading are reduced to a number that tells two
  readings apart. The three-key put of a tick is atomic, as storage promises.
- *BuyerAgent.* `Findings` is what reading and judging the card may come to: the
  offers of a card and a verdict on it, or an error. Prices are whole units: floating point and limits that do not
  parse are left out. `late` is the seller's side of a payment whose response
  was lost: it is made within `Lag` or never. The order of offers (as on the card,
  then negotiated ones) is `Before`; whose turn it is counts how many precede it.
- *Sale.* The two modules are instantiated, not rewritten: the gate's steps are
  `PaidRoute`'s and the buyer's are `BuyerAgent`'s. A purchase is a request without
  a proof, whose 402 names the price, and one with it. A request that has not
  reached the seller when its buyer gives up never arrives. Clock, price and
  signing key stand still, so that a mandate that fits is accepted; how they move
  is `BuyerAgent`'s and `Mandate`'s subject. Settlements nobody waits for are thus
  late without a limit.
- *AgentCard.* Cryptography is ideal: a signature verifies under the key that
  made it, for the payload and the header it was made over. Signatures do not
  expire, and the card carries no date, so a card the seller signed before it
  changed its prices or its key stays good for whoever pinned that key. The
  buyer may be served the seller's card or one assembled from any offers and up
  to two signatures: the seller's own, old ones included, and `Forgeries`, which
  are of any form that needs none of the seller's keys. A secret that is malformed
  counts as none; one that only looks like a key (`Unusable`) is announced, and the
  card is a 500. A signature that cannot be decoded makes the whole check throw
  where it is reached before one that counts (`Garbled`, `Throws`): the order of
  the signatures is left open. The endpoints on the card are taken to be the
  seller's.
- *Mandate.* A signature is the address recovered from it. A check is a name and
  a condition; the answer is the first that fails, which keeps the order of the
  code. `NaN` compares false with everything on the buyer's side and is `null`,
  refused as malformed, on the seller's.
- *SettlementFeed.* One page; messages of a stream arrive in order, and are lost
  with their connection. A settlement is stamped before it is put. A stream reads
  the key in one step (`StreamRead`) and takes its cursor in the next, which looks
  at the clock where the key was empty (`StreamStart`).
- *Subscribe.* Nothing in the handlers catches a KV failure: it ends the post or
  the listing. Nor is the JSON body `null` caught, which parses and has no fields. A page of KV's list holds keys in the order of their names; which
  name comes first is left open, so an address added meanwhile may fall before or
  behind the cursor. Where reads may be stale, a get finds any earlier count or no
  record yet, a list may miss keys and a key its value.
- *Reports.* `Record` stores any receipt, failed ones of an older version and
  timestamps out of order among them, so the folds meet every log. A visit is a
  get and a put of its counter; a rejection ends it, and the page does not try
  again. Where KV may be stale, a get returns any earlier count and a list may
  miss counters. A fetch of the page reads the log on the way and is rendered when
  its answer arrives, in any order. Sales, visits and fetches share no state but
  the log, so a behaviour has a workload (`load`) with many of the one or the other.

## 3. Bounds

| Run | Instance | Why it is enough |
|---|---|---|
| `paid_route` | 2 requests for any resource, 2 good proofs, one of them in two texts, a mismatched and an unverifiable one, log of 1; failing KV, aborts and keys that expire with fresh reads, and these with stale reads and failing calls; fairness | two requests suffice for every race on KV, two texts of one proof reach the chain together, and a log of 1 is cut by the second sale, so that an earlier version holds what it has lost; the proofs extend safety to any number |
| `rate_gate` | 2 clients, 2 addresses and 1 payer, quotas 2 and 1, window 2, a clock of 2, hits that reject | one client's second hit is refused while the other's stands between its two; addresses rotate past one payer and an address is full of refused requests |
| `rate_limiter` | window 4, quota 2, second 2, hits up to time 10 | two and a half windows; a hit that leaves the window, alarms in between |
| `device_twin` | history 3, 10 ticks | three times round the ring buffer |
| `buyer` | prices 1 and 2, `MAX_PER_CALL` 2, cap 3, window 2, 4 purchases (3 with restarts, kills or new prices, 2 and a still clock where keys change), 2 errors to a pause, the seller's two keys, a malformed and an unusable one, a stranger's signatures in five forms, 6 environments | a second purchase reaches the cap, an entry leaves the window while others stay, the mandate runs out; the key and the prices change back and forth around a purchase, and no check of the card reads the clock or the ledger |
| `sale` | price 1, cap 2, 2 purchases, log of 1, stale and failing KV, aborts, with and without lost answers of the facilitator; fairness, of the facilitator too | the second purchase meets what the first left: a late settlement, a spent cap, an error count, a full log |
| `sale_503` | cap 1, 2 purchases, lost answers of the facilitator only | smallest instance |
| `feed` | 3 settlements, 2 polls per stream, 3 instants, 1 break, 3 environments | streams change while events come out of order and share an instant |
| `subscribe` | 4 posts, 2 addresses, 1 IP, quota 2, window 2, posts overlapping by 1 or 2, KV failing; 3 posts with stale reads; with an export or a count, 2 posts and pages of 1 key, fresh or stale | the quota is passed twice over, the counter expires; a listing takes several pages while addresses are added |
| `subscribe_burst` | 3 overlapping posts | smallest instance |
| `metrics` | 2 payers, 2 amounts, 3 timestamps over 2 days, a log of 3; 4 sales alone, or 2 with 2 fetches, or 1 with 2 fetches and stale or failing KV; 3 visits of 4 counters, or 2 with stale or failing KV; 1 report | every order of timestamps, a log that was cut; two fetches cross; a third visit meets a counter two others have overwritten |
| `mandate` | 2 addresses, 2 sellers, limits -1, 0, 1, 2 and NaN, prices 1 and 2, 3 instants | below, at and above each limit and the expiry |

Named bounds in the modules: `MaxTime`, `LastHit`, `MaxSeq`, `MaxAttempts`,
`MaxBreaks`, `MaxReports`, `Fetch`, the `posts` of a setting of `Subscribe` and the
workloads of `Reports`; each stops the clock or an operation and nothing else.
Deadlock is not checked: a system whose requests have all been answered, whose
clock is at its bound or whose buyer has stopped is done. Symmetry is used in
`rate_gate`, `subscribe` and `subscribe_burst`, which check no liveness, over
clients, posts and addresses that nothing tells apart.

## 4. What the runs show

**Gate** (`paid_route`). With failures at every await:
a charge of a gated request implies a written replay key (`KeyBeforeCharge`); an
error is free unless the call for its settlement was rejected, and then it is the
one answer the route has for that (`FailureIsFree`); the log and the
live event name only real settlements, each once (`LedgerIsTrue`); whatever is
settled has passed every check (`OnlyAuthorizedSettle`). When two requests race
with one proof, in one text or in two, goods are delivered at most once for each
charge, although both may pass the replay check (`DeliveredOncePerCharge`). A
request whose very header has had its key since before it came is refused, while
reads are fresh (`NoLateReplay`); another text of the same proof is left to the
chain. The gate implements `IdealSale` (`IdealSpec`). Every request is answered, or
waits for the facilitator for ever (`EveryRequestAnswered`): nothing the seller's
own code, KV or a Durable Object does keeps it, and nothing limits that one wait.

**Rate limiter** (`rate_limiter`). No window of full width holds more than the
quota (`QuotaHolds`), the bucket that prunes and cleans itself answers as one
that remembers everything would (`SlidingWindowSpec`), `Retry-After` is neither
a second short nor a second long (`RetryAfterIsExact`), and the alarm cleans an
idle bucket (`IdleBucketCleaned`, while nothing fails).

**Rate gate** (`rate_gate`). Whatever payers its proofs name, no address brings more
than its quota past its bucket in a window, and no payer more than its own
(`BothQuotasHold`). A request that the payer's bucket refuses, or that is lost,
keeps its slot at the address: quotas may admit less than they allow, never more.
A client that has waited the `Retry-After` it was told is not refused again by
that bucket, unless the bucket has counted another hit meanwhile
(`RetryAfterSuffices`).

**Device** (`device_twin`). The three keys agree (`HistoryIsUnbroken`), no number
is given twice (`SeqIsUnique`), and as long as `setAlarm` works the device goes on
ticking through failing ticks and evictions (`KeepsTicking`).

**Buyer** (`buyer`). Four events make a charge unaccounted: a 503 after an
executed settlement, a kill while a payment is in flight, a price that changes
between card and 402, a card that is not the one the seller serves now. Without them, every charge is recorded at no less than its
amount (`EveryChargeRecorded`) and the cap holds over every window (`CapHolds`),
with one limit: when a settlement may come up to `Lag` after its response was
lost, it is exact for windows shorter by `Lag`. In all environments a charge is
within the mandate (`PerCallHolds`). A buyer that has
pinned a key pays only for an offer that the seller signed with that key, or a
counter-offer of its own, whatever cards it is shown and however the seller's key
and prices change (`PaysSignedOffersOnly`). An undisturbed loop buys each
product it can afford (`RunBuysEverything`); and once the kill switch is off and
the process that read it as on has ended, nothing is ever bought again
(`SwitchedOffForGood`).

**Sale** (`sale`). The seller that `BuyerAgent` assumes is what the gate, KV, the
facilitator and the network do to a buyer (`BuyerSpec`), so the results above hold
at the real gate; only lost answers of the facilitator need the event
`errorCharged`. A charge that is neither recorded nor still awaited was answered
with the 503 `facilitator_error` (`UnrecordedOnlyAfter503`), and every purchase
comes to an end as long as the facilitator answers (`PurchaseEnds`).

**Mandate** (`mandate`). What its holder finds good is accepted at the seller it
names, unless it expired on the way or its limit is no number
(`GoodMandateIsAccepted`); what is accepted is signed, funded, in scope, in time
and not for another (`AcceptedIsAuthorized`), whatever the buyer checked.

**Feed** (`feed`). Over closes, breaks and reconnects no settlement is shown twice
or after a later one (`ShownOnceInOrder`), none that was stored before the page
was opened, while reads are fresh (`NothingStaleShown`). Once the settlements
pause, the newest one stored is in the panel or one stamped no earlier is, through
planned closes and breaks (`CatchesUp`); the exception it names is a settlement
stamped no later than the start of a first stream that found no event.

**Subscriptions** (`subscribe`). Nobody is told ok who is not on the list
(`AcknowledgedIsStored`), nobody is on it without a ticked box and a passed
throttle (`ListedOnlyWithConsent`), however old what KV shows. While posts do not
overlap and reads are fresh, the throttle is a true window (`SerialThrottleHolds`).
An export or a count has no address twice and, while reads are fresh, each that was
there when it began (`ListingIsComplete`).

**Reports** (`metrics`). One pass over an unordered log computes each payer's
summary (`SummariseIsGroupBy`); `/api/payers`, the days of `/api/metrics/daily` and
`/api/receipts` agree, and failed settlements take no place in any of them
(`ReportsAgree`). Visit counts are a floor, whatever overlaps, fails or is read late
(`CountsAreAFloor`); while KV answers, visits are lost only to overlaps, and of
those that overlapped on a counter at least one is counted (`LossNeedsOverlap`).
The page's table may go back when answers cross, but once the sales pause it shows
them all (`TableCatchesUp`).

### Where the code and its documents differ

Two runs end in the violation of a documented promise:

- `sale_503`: ERRORS.md:100-102 says that every 4xx and 5xx of a paid route comes
  without a charge. When the facilitator's answer is lost after the transfer, the
  gate answers 503 `facilitator_error` and the charge stands; the buyer takes that
  503 for an error without a charge and records nothing, so the cap of
  README.md:198 and budget.mjs:11 is exceeded.
- `subscribe_burst`: overlapping posts read one count and pass the throttle of
  subscribe.ts:85 together.

Others were met on the way, are visible in the models, and have no run:

- ERRORS.md:30 documents `facilitator_timeout`, a 503 after 8 seconds. Nothing
  emits it: no call to the facilitator has a time limit (paid-route.ts:296-319),
  and a request waits for as long as the facilitator does (`AwaitsFacilitator`).
- A replay is recognised by the text of its header and for 24 hours
  (paid-route.ts:324-330, 352-356). Another text of the same authorization, or the
  same one later, passes `rejectReplay`; what it meets is the chain, which takes a
  nonce once (`ReplayGet`, `Expire`).
- On the legacy route a lost answer of the facilitator is a bare 500 and may have
  been charged (`CallRejected`): index.ts:64-83 has no catch.
- `gracefulExit` (agent.mjs:384-388) ends the process while a payment is in
  flight, and repricing between card and 402 is paid but recorded at the old
  price: either exceeds the cap (`Unaccounted` in `BuyerAgent`).
- `BUYER_ENABLED` is read from the environment at launch, so that README.md:202
  "stops the loop within one iteration" does not happen (`Launch`, `Begin`).
- Concurrent settlements lose entries of `receipt_log` (`LogGet`, `LogPut`);
  only visit counts are documented as a floor.
- A reading sold before the first tick has number 0; types.ts:11 says that
  numbers start at 1 (`GetLatestReading`).
- A bucket lost between put and `setAlarm` is not cleaned (`HitCutShort`).
- Of two settlements between two polls the feed shows one (`Poll`), and it shows
  none that is stamped before a cursor which started at now and stored after it
  (`StreamStart`, demo.ts:75), where README.md:159 says that each appears.
- metrics.ts:25-26 says that unknown sources become `other`; lines 51-54 and
  73-74 count them as `direct` and `none`.

## 5. Fairness

- *PaidRoute*: weak fairness for each request's next step, unless it waits for the
  facilitator. Every other await resolves or rejects, as the Workers runtime has it
  for KV and Durable Objects; the facilitator owes nothing, no request has to
  arrive and none has to be aborted.
- *Sale*: weak fairness for each request's next step, for the facilitator, and for
  the buyer's process. That the facilitator answers is an assumption about it, not
  a fact of this code. The network need not lose anything.
- *RateLimiter*: the clock runs and a due alarm is delivered.
- *DeviceTwin*: a due alarm constructs an instance; strong fairness of a
  successful tick says that one which is tried for ever is not lost for ever to
  eviction or failing writes. Nobody has to ask for readings.
- *BuyerAgent*: the process runs on, its timers fire, the seller answers. Used
  for `RunBuysEverything`, in the environment where nothing else happens. The
  operator need not switch anything off.
- *SettlementFeed*: timers fire and messages arrive while a connection holds.
  Nobody has to buy.
- *Reports*: the page's timer keeps firing, and a fetch is answered and rendered.
  Nobody has to visit or to ask for a report.

## 6. What is proved

TLAPS checks the proofs below to the last leaf, for all values of the constants
that satisfy the modules' named assumptions. Each follows one plan: an inductive
invariant, one step per action, then the properties as consequences.

| Module | Theorems | Inductive invariant |
|---|---|---|
| `PaidRouteProofs` | `TypeCorrect`, `KeyBeforeChargeHolds`, `DeliveredOncePerChargeHolds`, `FailureIsFreeHolds`, `OnlyAuthorizedSettleHolds`, `LedgerIsTrueHolds`, `NoLateReplayHolds`, `ImplementsIdealSale` | what each step implies: past the replay check the key is written, a settlement belongs to a request that reached `submit`, a charge belongs to a settlement that succeeded, and no two charges share a proof. A key that was written is there or expired; a request in `held` whose reads are fresh is not past the replay check. For the log: each request writes one entry, so no version of the log, and no view of it, holds the entry of a request that has yet to write |
| `DurableObjectProofs` | of `RateLimiter`: `TypeCorrect`, `QuotaIsNeverExceeded`, `ImplementsSlidingWindow`, `RetryAfterExact` | the bucket is ordered, is the tail of what was counted, and what it has forgotten is out of the window |
| | of `DeviceTwin`: `TwinTypeCorrect`, `HistoryAgrees`, `NumbersAreUnique`, `NumbersGrow`, `ChainSurvives` | no number beyond `seq` was given out, and `seq` itself belongs to `latest`; empty storage means that nothing was |
| `RateGateProofs` | `TypeCorrect`, `NoQuotaIsExceeded`, `WaitIsEnough` | no window holds more that passed than was counted, nor more that was counted than the quota; a bucket has room when a wait it has named is over; of a quota and one more that passed in a row, the last came a window after the first |
| `BuyerAgentProofs` | `TypeCorrect`, `ChargesAreInScope`, `ChargesAreRecorded`, `OnlySignedOffersArePaid`, `CapIsKept`, `KillSwitchIsFinal` | a request is in flight only while the process waits; what the seller accepted is within the mandate; while prices stay, the deal covers what is asked, and each possible late settlement has its entry already. For the cap: what the ledger spends in a window, with the deal in hand, is within it, and no charge is later than its entry by more than `Lag`. For the card: whatever is on offer while a key is pinned has been signed with that key, and what was signed stays signed. For the kill switch: nothing is in flight but while the loop pays, and a process launched with the switch off ends at its first look at it |
| `PageProofs` | of `SettlementFeed`: `TypeCorrect`, `EachShownOnce`, `OnlyNewShown` | what is stored or under way was stamped, in the past; the page's cursor is not behind what is shown; while reads are fresh, every cursor, in the stream, under way and in the page, is past what was stored before the page was opened |
| | of `Reports`: `ReportsTypeCorrect`, `VisitsAreAFloor`, `LostOnlyToOverlap`, `OnePassIsGroupBy`, `ReportsDoAgree` | `RInv`: whatever a counter has held, or a visit has read of it, was at most the number of its visits that are over, and the report has added no more than those of the counters it has read; while KV answers, a counter shows at least its visits that met no other, and one more once a visit that did is over, and a visit under way that met none has read as much. Of the log, that it is a sequence of receipts |
| `SubscribeProofs` | `TypeCorrect`, `ConsentIsNeeded`, `OkMeansStored`, `NobodyIsMissed`, `SerialIsThrottled` | a post in progress has a ticked box, one past the throttle was counted, and a record belongs to one that has ended; a key behind a listing's cursor has one line, but for the page at hand; while one post is under way at a time and reads are fresh, the counter outlives and counts every post that passed within the window |
| `PurchaseProofs` | of `Mandate`: `OnlyTheAuthorized`, `GoodIsAccepted` | types only: the rest is the two verifiers' checks, one by one, of a body that does not change |
| | of `Sale`: `SaleInvariance`, `UnrecordedOnlyAfter503Holds`, `ImplementsBuyerAgent`, `CapHoldsAtTheGate` | `SaleInv`: the gate's own invariant, for these requests; the second request of a purchase comes after the 402 of the first and carries its number; a payment that was made or is possible is recorded, awaited or behind a 503 |

Why they need strengthening: that each delivery has its charge says nothing of a
request still on its way, so it must be known of every step what money has
moved; that numbers are unique is not kept by a tick unless no larger number is
out; and that charges are recorded is not kept by a late settlement unless its
entry was written when the response was lost. That a paid offer was signed
follows only from the offers the loop still holds, and from there being no
signature under a key the seller has had but the seller's own
(`TrustedIsSigned`). That the cap holds needs, besides each charge's entry, that
entries and charges are numbered, so that a sum over charges is at most the sum
over their entries. That an overlap costs visits but never all of them needs the
count of those that met no other: the last put of an overlap is by one of its
visits, which had read at least these.

Induction over data, where a property needs it, is done with sets in the place of
predicates (`SetInduction`: a set of numbers that holds 0 and the successor of each
of its members is `Nat`). On it `FiniteFolds` builds two things. A sum over a
finite set (`Total`) exists, does not depend on the order, and can be taken element
by element (`TotalMatched`) or class by class (`TotalByClass`). A fold over a
sequence exists and can be followed entry by entry (`FoldsClosed`), which
`PageProofs` does for the three loops over the receipt log: after k entries a
summary, the figures of a day and the filtered list are those of the first k
(`SummariseComputes`, `DailyComputes`, `FilterComputes`). `OnePassIsGroupBy` and
`ReportsDoAgree` follow for a log of any length, any amounts, any timestamps in any
order and any division into days.

`PurchaseProofs` takes the results of its parts instead of repeating them: it
instantiates `PaidRouteProofs` for the requests of the sale and `BuyerAgentProofs`
for the seller computed from them. The gate's invariant holds since each step of
the sale is a step of the gate or leaves it alone (`StepOfGate`); each step is one
of `BuyerAgent` or unseen by it (`NextBuyer`); so `CapIsKept` becomes
`CapHoldsAtTheGate`: the cap holds at the real gate unless an answer of the
facilitator is lost, which is the violation that `sale_503` shows.

The type invariants and `ChainIsAlive` and `SeqOnlyGrows` of `DeviceTwin` are proved
and not checked again by a run.

Checked by TLC only: every liveness property, since fairness and ENABLED are beyond
the prover (`EveryRequestAnswered`, `IdleBucketCleaned`, `KeepsTicking`, `CatchesUp`,
`TableCatchesUp`, `RunBuysEverything`, `PurchaseEnds`). Every
other property of a passing run is a theorem.

## 7. Not modelled

- The content of readings, inferences and quotes, the top class of a classifier's
  answer (`pickTopClass`, a pure function with a unit test); the texts of forms and
  the layout of pages; logging. No property is about them.
- Cryptography, the middleware, the facilitator, the chain, KV and the Durable
  Object runtime, except as the code sees them.
- `buyer/pay.mjs`, `soak.mjs`, `x402-harness.mjs`, `scripts/`: straight-line tools
  for a person at a terminal.
- The content of the card besides its offers, and its canonical form: the form is
  taken to be the same for equal cards and to differ for different ones.
- Two agents on one ledger file, torn lines in it, floating-point sums.

## 8. Plan

Done: the gate with its pair of buckets, the limiter, the device, the buyer with its
card, buyer and gate end to end, the mandate, the feed, the subscriptions, the
reports with visits and the page's table, and the proofs of section 6. Left: two
agents on one ledger file, as two processes of `Sale`.
