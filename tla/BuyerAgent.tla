----------------------------- MODULE BuyerAgent ------------------------------
(***************************************************************************)
(* The autonomous buyer (buyer/agent.mjs, buyer/budget.mjs,                *)
(* buyer/mandate.mjs): a loop that verifies its mandate, reads the         *)
(* seller's card, picks an offer it can afford, checks the rolling cap     *)
(* against its ledger file and pays.  One payment is in flight at a time;  *)
(* the process may stop and be launched again.  The seller is modelled by  *)
(* what its gate does for a request that carries a mandate (PaidRoute has  *)
(* the detail), and may settle after the buyer has stopped listening.      *)
(* AgentCard has the card; the endpoints it names are the seller's.        *)
(***************************************************************************)
EXTENDS Naturals, Sequences, FiniteSets, FiniteSetsExt, AgentCard

CONSTANTS ListPrice,    \* prices on the agent card, one for each skill, in order
          Prices,       \* prices the seller may ever ask
          PriceLists,   \* what the prices may be changed to, all skills at once
          FirstKey,     \* the seller's signing key at the start
          SellerSecrets, \* what the signing secret may be changed to
          Forgeries,     \* signatures that others may put on a card
          MaxPerCall, DailyCap, MandateLife,
          Day,          \* the rolling window, in time units
          Lag,          \* how long a settlement may come after its request was lost
          MaxRetries,   \* consecutive errors that pause the loop (5 in the code)
          Scenarios,    \* the sets of events to consider: see EventKinds
          MaxTime(_),   \* bound: where the clock stops, for each set of events
          MaxAttempts(_) \* bound: resources picked for purchase

EventKinds == {"lost",          \* the paid request's response does not arrive
               "late",          \* ... and the settlement may come after that
               "errorCharged",  \* a 503 although the settlement was executed, or will be
               "killed",        \* the process ends while a payment is in flight
               "reprice",       \* the seller's prices are changed
               "rotate",        \* the seller's signing secret is changed
               "altered",       \* a card arrives that is not the one the seller serves now
               "seller",        \* the seller refuses: 429, 402, 503 without a charge
               "restart",       \* the process ends between two payments
               "switch"}        \* the operator sets BUYER_ENABLED to false

ASSUME BuyerAssumption ==
    /\ ListPrice \in Seq(Prices) /\ ListPrice # << >>
    /\ Prices \subseteq Nat \ {0}
    /\ PriceLists \subseteq [1 .. Len(ListPrice) -> Prices]
    /\ FirstKey \in Key /\ FirstKey \in SellerSecrets /\ SellerSecrets \subseteq Secret
    /\ Forgeries \subseteq {s \in Signature(PriceLists) : s.by \notin SellerSecrets \ {NoKey}}
    /\ MaxPerCall \in Nat \ {0} /\ DailyCap \in Nat \ {0}
    /\ MandateLife \in Nat /\ Day \in Nat /\ Lag \in Nat
    /\ MaxRetries \in Nat \ {0}
    /\ Scenarios \subseteq SUBSET EventKinds
    /\ \A scenario \in Scenarios : MaxTime(scenario) \in Nat /\ MaxAttempts(scenario) \in Nat

Skill == 1 .. Len(ListPrice)
NoOffers == << >>

VARIABLES events,   \* what may happen in this behaviour besides a plain run: fixed
          now,      \* Date.now()
          price,    \* the seller's configuration: the price of each skill
          secret,   \* the seller's AGENT_CARD_SIGNING_KEY
          published, \* history: the offers the seller has signed, and the key
          switch,   \* BUYER_ENABLED as the operator has set it
          enabled,  \* BUYER_ENABLED in the environment of the process
          pc,       \* where the loop is; "off" when no process runs
          pinned,   \* the key the process has pinned, or none
          expiry,   \* of the mandate the process created
          errors,   \* consecutiveErrors
          cursor,   \* resourceCursor
          offers,   \* what the agent card offered: the price of each skill
          deal,     \* the offer being paid: skill, price, number of the attempt
          flight,   \* the paid request: its stage at the seller, and the amount
          late,     \* settlements the seller still has to make or drop
          ledger,   \* ledger.jsonl: the entries that carry a price
          charges   \* history: the money that has left the wallet

vars == <<events, now, price, secret, published, switch, enabled, pinned, pc, expiry, errors,
          cursor, offers, deal, flight, late, ledger, charges>>
card == <<secret, published>>
world == <<now, price, card, switch>>
process == <<enabled, pinned, expiry>>
money == <<flight, late, charges>>

NoDeal == [n |-> 0, skill |-> 0, price |-> 0]
Idle == [stage |-> "none", amount |-> 0]

TypeOK ==
    /\ events \in Scenarios
    /\ now \in Nat
    /\ price \in [Skill -> Prices]
    /\ secret \in Secret
    /\ published \subseteq [key : Key, offers : [Skill -> Prices]]
    /\ pinned \in Key \cup {NoKey}
    /\ switch \in BOOLEAN /\ enabled \in BOOLEAN
    /\ pc \in {"off", "loop", "discover", "choose", "paying", "backoff", "paused", "interval"}
    /\ expiry \in Nat
    /\ errors \in 0 .. MaxRetries - 1
    /\ cursor \in Nat
    /\ offers \in [Skill -> Prices] \cup {NoOffers}
    /\ deal \in [n : Nat, skill : Nat, price : Nat]
    /\ flight \in [stage : {"none", "sent", "refused", "accepted", "settled"}, amount : Nat]
    /\ late \subseteq [n : Nat, amount : Nat, until : Nat]
    /\ ledger \subseteq [n : Nat, at : Nat, price : Nat, skill : Nat,
                         result : {"success", "payment_unconfirmed", "cap_reached"}]
    /\ charges \subseteq [n : Nat, at : Nat, amount : Nat]

Init == /\ events \in Scenarios
        /\ now = 0
        /\ price = ListPrice
        /\ secret = FirstKey
        /\ published = {[key |-> FirstKey, offers |-> ListPrice]}
        /\ pinned = FirstKey
        /\ switch = TRUE /\ enabled = TRUE
        /\ pc = "off"
        /\ expiry = 0 /\ errors = 0 /\ cursor = 0
        /\ offers = NoOffers /\ deal = NoDeal /\ flight = Idle
        /\ late = {} /\ ledger = {} /\ charges = {}

-----------------------------------------------------------------------------
(* The ledger and the checks.                                              *)

\* Bug: only confirmed purchases count.
SpendResults_ConfirmedOnly == {"success"}

SpendResults == {"success", "payment_unconfirmed"}

\* spentInWindow over the last window time units up to at.
SpentInWindow(entries, at, window) ==
    MapThenSumSet(LAMBDA e : e.price,
                  {e \in entries : e.result \in SpendResults /\ e.at + window > at /\ e.at <= at})

PriceInScope(p) == p <= MaxPerCall

\* What the mandate can afford: the offers within scope, and those whose
\* counter-offer of MaxPerCall was accepted, at that price.
Affordable(accepted) ==
    {[skill |-> s, price |-> IF s \in accepted THEN MaxPerCall ELSE offers[s]] :
        s \in accepted \cup {s \in Skill : PriceInScope(offers[s])}}

\* Their order: as on the card, but what was negotiated comes last.
Before(a, b, accepted) == IF (a.skill \in accepted) = (b.skill \in accepted)
                          THEN a.skill < b.skill ELSE b.skill \in accepted

\* Bug: the turn does not move on.
IsNext_SameTurn(o, accepted) == \A a \in Affordable(accepted) : ~Before(a, o, accepted)

\* The offer whose turn it is: affordable[resourceCursor % affordable.length].
IsNext(o, accepted) ==
    Cardinality({a \in Affordable(accepted) : Before(a, o, accepted)})
        = cursor % Cardinality(Affordable(accepted))

\* negotiateHandler accepts what is not below the list price.
NegotiateAccepts(s) == MaxPerCall >= price[s]

\* The answers a counter-offer for each expensive offer may get: the seller's,
\* or none, when a call fails.
Accepted == SUBSET {s \in Skill : ~PriceInScope(offers[s]) /\ NegotiateAccepts(s)}

Entry(result) == [n |-> deal.n, at |-> now, price |-> deal.price, skill |-> deal.skill,
                  result |-> result]

\* Bug: the count goes on after the pause.
CountError_NoReset == /\ errors' = errors + 1
                      /\ pc' = IF errors + 1 >= MaxRetries THEN "paused" ELSE "backoff"

\* One more error: back off, or pause after MaxRetries of them.
CountError == IF errors + 1 >= MaxRetries
              THEN errors' = 0 /\ pc' = "paused"
              ELSE errors' = errors + 1 /\ pc' = "backoff"

\* The loop ends: the process has nothing more to do.
Stop == pc' = "off" /\ UNCHANGED errors

-----------------------------------------------------------------------------
(* The process.                                                            *)

\* The keys a buyer may pin: what the seller has announced, or none at all.
Pins == IF "rotate" \in events THEN {NoKey} \cup {p.key : p \in published} ELSE {FirstKey}

\* The environment is read once, when the process starts; so is dotenv.
Launch == /\ pc = "off"
          /\ pc' = "loop"
          /\ enabled' = switch
          /\ pinned' \in Pins
          /\ expiry' = now + MandateLife
          /\ errors' = 0 /\ cursor' = 0
          /\ offers' = NoOffers
          /\ deal' = [NoDeal EXCEPT !.n = deal.n]
          /\ UNCHANGED <<world, money, ledger>>

\* Bug: the switch is looked at between purchases only, as at the loop's end.
Begin_NoSwitch == /\ pc = "loop"
                  /\ IF now < expiry THEN pc' = "discover" /\ UNCHANGED errors ELSE Stop
                  /\ UNCHANGED <<world, process, cursor, offers, deal, money, ledger>>

\* Top of onePurchase: kill switch, then mandate.
Begin == /\ pc = "loop"
         /\ IF enabled /\ now < expiry THEN pc' = "discover" /\ UNCHANGED errors ELSE Stop
         /\ UNCHANGED <<world, process, cursor, offers, deal, money, ledger>>

\* Signatures that exist: the seller's, under the keys it has had, and those of
\* others.
Signatures == {Sign(p.offers, p.key) : p \in published} \cup Forgeries

\* The cards a buyer may be served: the seller's, or one altered on the way,
\* assembled from anything that has been signed.  Two signatures are enough for
\* one that counts beside one that does not.
Cards == (IF CardFails(secret) THEN {} ELSE {AgentCardHandler(price, secret)}) \cup
         (IF "altered" \in events
          THEN [offers : PriceLists, signatures : {{}} \cup {{s, t} : s, t \in Signatures}]
          ELSE {})

\* With no key pinned the card is trusted on TLS alone.
Verdicts(c) == IF pinned = NoKey THEN {"ok"} ELSE VerifyCard(c, pinned)

Judged(c) == [offers : {c.offers}, verdict : Verdicts(c)]

\* No card is served, or none with skills.
NoCard == {f \in {[offers |-> NoOffers, verdict |-> "error"]} :
              "seller" \in events \/ CardFails(secret)}

\* What discoverSeller may come to.
Findings == (UNION {Judged(c) : c \in Cards}) \cup NoCard

\* A card that does not verify ends the loop (card_rejected).
Discover == /\ pc = "discover"
            /\ \E found \in Findings :
                  \/ /\ found.verdict = "ok"
                     /\ offers' = found.offers
                     /\ pc' = "choose"
                     /\ UNCHANGED errors
                  \/ /\ found.verdict \in {"card_unsigned", "card_signature_invalid"}
                     /\ Stop
                     /\ UNCHANGED offers
                  \/ /\ found.verdict = "error"
                     /\ CountError
                     /\ UNCHANGED offers
            /\ UNCHANGED <<world, process, cursor, deal, money, ledger>>

\* Nothing on offer fits the mandate: the loop ends.
NothingFits == /\ pc = "choose" /\ deal.n < MaxAttempts(events)
               /\ \E accepted \in Accepted : Affordable(accepted) = {}
               /\ Stop
               /\ offers' = NoOffers
               /\ UNCHANGED <<world, process, cursor, deal, money, ledger>>

\* Negotiate for what is too expensive, pick the next affordable offer in turn,
\* check the cap, and send the paid request.
Choose ==
    /\ pc = "choose" /\ deal.n < MaxAttempts(events)
    /\ \E accepted \in Accepted : \E offer \in Affordable(accepted) :
          /\ IsNext(offer, accepted)
          /\ deal' = [n |-> deal.n + 1, skill |-> offer.skill, price |-> offer.price]
    /\ cursor' = cursor + 1
    /\ offers' = NoOffers
    /\ IF SpentInWindow(ledger, now, Day) + deal'.price > DailyCap
       THEN /\ Stop
            /\ ledger' = ledger \cup {[n |-> deal'.n, at |-> now, price |-> deal'.price,
                                      skill |-> deal'.skill, result |-> "cap_reached"]}
            /\ UNCHANGED flight
       ELSE /\ pc' = "paying"
            /\ flight' = [stage |-> "sent", amount |-> 0]
            /\ UNCHANGED <<errors, ledger>>
    /\ UNCHANGED <<world, process, late, charges>>

\* What the loop does with each answer, whatever the seller has done for it.
Answered == UNCHANGED <<world, process, cursor, offers, deal>>

\* 200: the entry is appended, whatever the body says.
Take200 == /\ ledger' = ledger \cup {Entry("success")}
           /\ errors' = 0
           /\ pc' = "interval"
           /\ Answered

\* Bug: a lost response is an error like any other, and nothing is recorded.
TakeNothing_NotRecorded == CountError /\ Answered /\ UNCHANGED ledger

\* The response is lost: the price counts as spent, settled or not.
TakeNothing == /\ ledger' = ledger \cup {Entry("payment_unconfirmed")}
               /\ CountError
               /\ Answered

\* 503 and 429: back off, and no entry.
Take503 == CountError /\ Answered /\ UNCHANGED ledger

\* Any other status: no entry, no backoff, the next turn after the interval.
TakeOther == pc' = "interval" /\ Answered /\ UNCHANGED <<errors, ledger>>

\* Nobody waits for the request any more: the seller may still settle it.
Abandon == \/ UNCHANGED late
           \/ /\ "late" \in events /\ flight.stage = "accepted"
              /\ late' = late \cup {[n |-> deal.n, amount |-> flight.amount, until |-> now + Lag]}

Succeed == /\ pc = "paying" /\ flight.stage = "settled"
           /\ Take200
           /\ flight' = Idle
           /\ UNCHANGED <<late, charges>>

NetworkError == /\ "lost" \in events
                /\ pc = "paying"
                /\ TakeNothing
                /\ Abandon
                /\ flight' = Idle
                /\ UNCHANGED charges

\* A 503 means that nothing was settled, nor will be, unless the seller has lost
\* the facilitator's answer.
SellerError == /\ pc = "paying"
               /\ \/ "seller" \in events /\ flight.stage \in {"sent", "accepted"} /\ UNCHANGED late
                  \/ "errorCharged" \in events /\ flight.stage \in {"accepted", "settled"} /\ Abandon
               /\ Take503
               /\ flight' = Idle
               /\ UNCHANGED charges

UnexpectedStatus == /\ "seller" \in events
                    /\ pc = "paying" /\ flight.stage \in {"sent", "accepted"}
                    /\ TakeOther
                    /\ flight' = Idle
                    /\ UNCHANGED <<late, charges>>

\* 401 or 403: the mandate is refused, and the loop ends.
MandateRefused == /\ pc = "paying" /\ flight.stage = "refused"
                  /\ Stop
                  /\ flight' = Idle
                  /\ UNCHANGED <<world, process, cursor, offers, deal, late, ledger, charges>>

\* A delay is over.
Resume == /\ pc \in {"backoff", "paused", "interval"}
          /\ pc' = "loop"
          /\ UNCHANGED <<world, process, errors, cursor, offers, deal, money, ledger>>

\* SIGINT, SIGTERM or a crash: gracefulExit ends the process at once.
Exit == /\ pc # "off"
        /\ (IF pc = "paying" THEN "killed" ELSE "restart") \in events
        /\ pc' = "off"
        /\ Abandon
        /\ flight' = Idle
        /\ UNCHANGED <<world, process, errors, cursor, offers, deal, ledger, charges>>

-----------------------------------------------------------------------------
(* The world around the process.                                           *)

\* Bug: the seller takes a mandate for a signature only, not for a limit.
Accept_IgnoresScope ==
    /\ pc = "paying" /\ flight.stage = "sent"
    /\ flight' = IF now < expiry THEN [stage |-> "accepted", amount |-> price[deal.skill]]
                                 ELSE [flight EXCEPT !.stage = "refused"]
    /\ UNCHANGED <<world, process, pc, errors, cursor, offers, deal, late, ledger, charges>>

\* The seller's gate: verifyPresentedMandate against the price it asks now, and
\* a payment of that price, which the x402 client signs without a bound.
Accept ==
    /\ pc = "paying" /\ flight.stage = "sent"
    /\ flight' = IF now < expiry /\ PriceInScope(price[deal.skill])
                 THEN [stage |-> "accepted", amount |-> price[deal.skill]]
                 ELSE [flight EXCEPT !.stage = "refused"]
    /\ UNCHANGED <<world, process, pc, errors, cursor, offers, deal, late, ledger, charges>>

Settle == /\ pc = "paying" /\ flight.stage = "accepted"
          /\ flight' = [flight EXCEPT !.stage = "settled"]
          /\ charges' = charges \cup {[n |-> deal.n, at |-> now, amount |-> flight.amount]}
          /\ UNCHANGED <<world, process, pc, errors, cursor, offers, deal, late, ledger>>

\* A settlement nobody waits for is made before its authorization expires, or never.
SettleLate(o) == /\ o \in late
                 /\ late' = late \ {o}
                 /\ \/ charges' = charges \cup {[n |-> o.n, at |-> now, amount |-> o.amount]}
                    \/ UNCHANGED charges
                 /\ UNCHANGED <<world, process, pc, errors, cursor, offers, deal, flight, ledger>>

\* The cards signed with a secret are known to all from then on.
Publish(list, s) == published' = published \cup {[key |-> k, offers |-> list] : k \in JwksHandler(s) \cap Key}

Reprice(list) == /\ "reprice" \in events
                 /\ price' = list
                 /\ Publish(list, secret)
                 /\ UNCHANGED <<now, secret, switch, process, pc, errors, cursor, offers, deal, money, ledger>>

\* A secret takes effect at once, without a deployment.
Rotate(s) == /\ "rotate" \in events
             /\ secret' = s
             /\ Publish(price, s)
             /\ UNCHANGED <<now, price, switch, process, pc, errors, cursor, offers, deal, money, ledger>>

SwitchOff == /\ "switch" \in events
             /\ switch' = FALSE
             /\ UNCHANGED <<now, price, card, process, pc, errors, cursor, offers, deal, money, ledger>>

Tick == /\ now < MaxTime(events)
        /\ \A o \in late : now < o.until
        /\ now' = now + 1
        /\ UNCHANGED <<price, card, switch, process, pc, errors, cursor, offers, deal, money, ledger>>

Process == Launch \/ Begin \/ Discover \/ NothingFits \/ Choose \/ Succeed \/ NetworkError \/ SellerError
           \/ UnexpectedStatus \/ MandateRefused \/ Resume
Seller == Accept \/ Settle
Next == /\ \/ Process \/ Exit \/ Seller \/ (\E o \in late : SettleLate(o))
           \/ (\E list \in PriceLists : Reprice(list)) \/ (\E s \in SellerSecrets : Rotate(s))
           \/ SwitchOff \/ Tick
        /\ UNCHANGED events

Spec == Init /\ [][Next]_vars

\* The process runs on, its timers fire, and the seller answers.
FairSpec == Spec /\ WF_vars(Process /\ UNCHANGED events) /\ WF_vars(Seller /\ UNCHANGED events)

-----------------------------------------------------------------------------
(* What the README promises of the buyer, and what holds of it.            *)

ChargedWithin(window, end) ==
    MapThenSumSet(LAMBDA c : c.amount, {c \in charges : c.at + window > end /\ c.at <= end})

\* Events after which money may leave that no ledger entry accounts for.
Unaccounted == {"errorCharged", "killed", "reprice", "altered"}

\* README.md:198 DAILY_CAP "Max USDC over any rolling 24 hours", as far as it
\* holds: the cap is hard unless a charge goes unaccounted; when
\* settlements may come up to Lag after their request was given up, it is hard
\* over every window that is shorter by Lag.
CapHolds ==
    events \cap Unaccounted = {} =>
        LET window == IF "late" \in events THEN Day - Lag ELSE Day
        IN \A c \in charges : ChargedWithin(window, c.at) <= DailyCap

\* budget.mjs:14-15 "Only entries that record money leaving the wallet count":
\* all money that has left is in such an entry, or will be by the step in flight.
EveryChargeRecorded ==
    events \cap Unaccounted = {} => \A c \in charges :
        \/ \E e \in ledger : /\ e.n = c.n
                            /\ e.result \in {"success", "payment_unconfirmed"}
                            /\ e.price >= c.amount
        \/ deal.n = c.n /\ flight.stage = "settled"

\* README.md:202 "Kill switch", as far as the code goes: the switch is read when a
\* process starts, so one that runs goes on; but once the switch is off and the
\* process has ended, nothing is bought any more, however often it is launched.
SwitchedOffForGood == [](~switch /\ pc = "off" => [](flight = Idle))

\* README.md:199 MAX_PER_CALL "Max USDC for one call", also when the price has
\* changed since the agent card was read.
PerCallHolds == \A c \in charges : c.amount <= MaxPerCall

\* agent.mjs:157-159 "Verify the card before believing any price in it": a buyer
\* that has pinned a key pays for an offer only if the seller has signed it with
\* that key, whatever card it was shown and however often the key has changed.
PaysSignedOffersOnly ==
    pinned # NoKey /\ pc = "paying" =>
        \E p \in published : p.key = pinned /\ deal.price \in {p.offers[deal.skill], MaxPerCall}

\* agent.mjs:228 "a long run buys every advertised product, not just the cheapest
\* one": each one that the mandate can afford, while nothing interferes and the
\* mandate lasts.
RunBuysEverything ==
    events = {} => <>(\/ \A s \in Skill : PriceInScope(ListPrice[s]) =>
                             \E e \in ledger : e.skill = s /\ e.result = "success"
                      \/ pc # "off" /\ now >= expiry)
=============================================================================
