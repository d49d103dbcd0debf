-------------------------- MODULE BuyerAgentProofs ---------------------------
(***************************************************************************)
(* Proofs about BuyerAgent for every price list, limit and set of events:  *)
(* no charge exceeds the mandate, a buyer that has pinned a key pays for   *)
(* offers signed with it only, and unless a charge goes unaccounted, every *)
(* charge is in the ledger or in the hands of the process, and the charges *)
(* of any rolling day are within the cap.  A kill switch that has worked   *)
(* once works for good.                                                    *)
(***************************************************************************)
EXTENDS BuyerAgent, FiniteFolds, TLAPS

-----------------------------------------------------------------------------
(* The invariant.                                                          *)

Calm == events \cap Unaccounted = {}

\* A request is in flight only while the process waits for its answer.
InFlight == /\ flight.stage # "none" => pc = "paying"
            /\ pc = "choose" => offers \in [Skill -> Prices]
            /\ pc = "paying" => deal.skill \in Skill

\* No amount the seller has accepted is beyond the mandate.
InScope == /\ flight.stage \in {"accepted", "settled"} => flight.amount <= MaxPerCall
           /\ \A o \in late : o.amount <= MaxPerCall
           /\ PerCallHolds

\* What the books rest on while prices stay: the deal covers what is asked.
Covered == /\ price = ListPrice
           /\ offers \in {NoOffers, ListPrice}
           /\ pc = "paying" => deal.price >= ListPrice[deal.skill]
           /\ flight.stage \in {"accepted", "settled"} => flight.amount <= deal.price

\* How long a settlement may come after the entry that accounts for it.
Delay == IF "late" \in events THEN Lag ELSE 0

\* The ledger has an entry that accounts for amount in purchase n, paid at this
\* time at the latest.
Booked(n, amount, at) == \E e \in ledger : /\ e.n = n
                                           /\ e.result \in SpendResults
                                           /\ e.price >= amount
                                           /\ e.at + Delay >= at

Books == /\ \A o \in late : Booked(o.n, o.amount, o.until)
         /\ \A c \in charges : \/ Booked(c.n, c.amount, c.at)
                               \/ /\ deal.n = c.n /\ flight.stage = "settled"
                                  /\ c.amount <= deal.price

\* The seller's keys sign what it serves and nothing else, and what a buyer
\* that has pinned one reads and pays has been signed with it.
Signed == /\ \A k \in JwksHandler(secret) \cap Key : [key |-> k, offers |-> price] \in published
          /\ \A p \in published : p.key \in SellerSecrets
          /\ pinned # NoKey => pinned \in SellerSecrets
          /\ pinned # NoKey /\ pc = "choose" => [key |-> pinned, offers |-> offers] \in published
          /\ PaysSignedOffersOnly

\* Purchases are numbered as they are made: each is charged once at most, what
\* the ledger and the seller hold is of earlier ones, and of earlier times.
Numbered ==
    /\ \A e \in ledger : e.n <= deal.n /\ e.at <= now /\ (pc = "paying" => e.n < deal.n)
    /\ \A o \in late : /\ o.n <= deal.n /\ (pc = "paying" => o.n < deal.n)
                       /\ now <= o.until /\ "late" \in events
                       /\ \A p \in late : p.n = o.n => p = o
                       /\ \A c \in charges : c.n # o.n
    /\ \A c \in charges : /\ c.n <= deal.n /\ c.at <= now
                          /\ pc = "paying" => c.n < deal.n \/ flight.stage = "settled"
                          /\ \A d \in charges : d.n = c.n => d = c
    /\ IsFiniteSet(ledger) /\ IsFiniteSet(charges)

\* The entries of earlier purchases that count at time t, and what they add up to.
Earlier(n, t) == {e \in ledger : e.result \in SpendResults /\ e.n < n /\ e.at + Day > t}
PriceSum(entries) == MapThenSumSet(LAMBDA e : e.price, entries)

\* There was a time, before purchase n was charged and after all earlier ones
\* were entered, when p was within the cap.
Affords(n, p) == \E t \in 0 .. now :
    /\ \A e \in ledger : e.n < n => e.at <= t
    /\ \A c \in charges : c.n = n => t <= c.at
    /\ PriceSum(Earlier(n, t)) + p <= DailyCap

\* It is the time when purchase n was chosen.
Afforded == /\ \A e \in ledger : e.result \in SpendResults => Affords(e.n, e.price)
            /\ pc = "paying" => Affords(deal.n, deal.price)

IInv == /\ TypeOK /\ InFlight /\ InScope /\ Signed /\ Numbered /\ Afforded
        /\ Calm => Covered /\ Books

-----------------------------------------------------------------------------
\* What Choose can pick: a skill on offer, at its price or at the limit.
LEMMA AffordableIs ==
    ASSUME offers \in [Skill -> Prices], NEW accepted \in Accepted,
           NEW offer \in Affordable(accepted)
    PROVE  /\ offer.skill \in Skill /\ offer.price \in Nat
           /\ \/ offer.price = offers[offer.skill]
              \/ offer.price = MaxPerCall /\ MaxPerCall >= price[offer.skill]
<1>1. \A s \in accepted : s \in Skill /\ MaxPerCall >= price[s]
  BY DEF Accepted, NegotiateAccepts
<1>2. PICK s \in accepted \cup {t \in Skill : PriceInScope(offers[t])} :
          offer = [skill |-> s, price |-> IF s \in accepted THEN MaxPerCall ELSE offers[s]]
  BY DEF Affordable
<1>3. s \in Skill
  BY <1>1, <1>2
<1>4. offers[s] \in Nat /\ MaxPerCall \in Nat
  BY <1>3, BuyerAssumption
<1>5. QED
  BY <1>1, <1>2, <1>3, <1>4

-----------------------------------------------------------------------------
\* The variables' types, one group after the other.
TypesProcess == /\ events \in Scenarios
                /\ now \in Nat
                /\ price \in [Skill -> Prices]
                /\ secret \in Secret
                /\ published \subseteq [key : Key, offers : [Skill -> Prices]]
                /\ pinned \in Key \cup {NoKey}
                /\ switch \in BOOLEAN /\ enabled \in BOOLEAN
                /\ pc \in {"off", "loop", "discover", "choose", "paying", "backoff", "paused", "interval"}
                /\ expiry \in Nat
                /\ errors \in 0 .. MaxRetries - 1
                /\ cursor \in Nat
                /\ offers \in [Skill -> Prices] \cup {NoOffers}

TypesDeal == /\ deal \in [n : Nat, skill : Nat, price : Nat]
             /\ flight \in [stage : {"none", "sent", "refused", "accepted", "settled"}, amount : Nat]

TypesMoney == /\ late \subseteq [n : Nat, amount : Nat, until : Nat]
              /\ ledger \subseteq [n : Nat, at : Nat, price : Nat, skill : Nat,
                                   result : {"success", "payment_unconfirmed", "cap_reached"}]
              /\ charges \subseteq [n : Nat, at : Nat, amount : Nat]

LEMMA TypeParts == TypeOK <=> TypesProcess /\ TypesDeal /\ TypesMoney
BY DEF TypeOK, TypesProcess, TypesDeal, TypesMoney

LEMMA CountErrorTypes ==
    ASSUME TypesProcess, CountError
    PROVE  errors' \in 0 .. MaxRetries - 1 /\ pc' \in {"backoff", "paused"}
BY BuyerAssumption DEF CountError, TypesProcess

LEMMA ListPriceIs == ListPrice \in [Skill -> Prices]
BY BuyerAssumption DEF Skill

LEMMA AbandonTypes ==
    ASSUME TypesProcess, TypesDeal, TypesMoney, Abandon
    PROVE  late' \subseteq [n : Nat, amount : Nat, until : Nat]
<1>1. now + Lag \in Nat /\ deal.n \in Nat /\ flight.amount \in Nat
  BY BuyerAssumption DEF TypesProcess, TypesDeal
<1>2. QED
  BY <1>1 DEF Abandon, TypesMoney

LEMMA EntryTypes ==
    ASSUME TypesProcess, TypesDeal, NEW result \in {"success", "payment_unconfirmed", "cap_reached"}
    PROVE  Entry(result) \in [n : Nat, at : Nat, price : Nat, skill : Nat,
                              result : {"success", "payment_unconfirmed", "cap_reached"}]
BY DEF Entry, TypesProcess, TypesDeal

LEMMA ChooseDeal ==
    ASSUME IInv, Choose
    PROVE  /\ deal' \in [n : Nat, skill : Nat, price : Nat]
           /\ deal'.skill \in Skill
           /\ \/ deal'.price = offers[deal'.skill]
              \/ deal'.price = MaxPerCall /\ MaxPerCall >= price[deal'.skill]
<1>1. offers \in [Skill -> Prices]
  BY DEF IInv, InFlight, Choose
<1>2. PICK accepted \in Accepted : \E offer \in Affordable(accepted) :
          deal' = [n |-> deal.n + 1, skill |-> offer.skill, price |-> offer.price]
  BY DEF Choose
<1>3. PICK offer \in Affordable(accepted) :
          deal' = [n |-> deal.n + 1, skill |-> offer.skill, price |-> offer.price]
  BY <1>2
<1>4. /\ offer.skill \in Skill /\ offer.price \in Nat
      /\ \/ offer.price = offers[offer.skill]
         \/ offer.price = MaxPerCall /\ MaxPerCall >= price[offer.skill]
  BY <1>1, AffordableIs
<1>5. deal.n + 1 \in Nat /\ offer.skill \in Nat
  BY <1>4, TypeParts DEF IInv, TypesDeal, Skill
<1>6. QED
  BY <1>3, <1>4, <1>5

\* The card that is served carries the offers it was made for.
LEMMA CardOffers == ASSUME NEW list, NEW s PROVE AgentCardHandler(list, s).offers = list
BY DEF AgentCardHandler, SignCard

LEMMA PublishTypes ==
    ASSUME TypesProcess, NEW list \in [Skill -> Prices], NEW s \in Secret, Publish(list, s)
    PROVE  published' \subseteq [key : Key, offers : [Skill -> Prices]]
  BY DEF Publish, TypesProcess

LEMMA OffersTypes ==
    ASSUME TypesProcess, NEW c \in Cards
    PROVE  c.offers \in [Skill -> Prices]
<1>1. PriceLists \subseteq [Skill -> Prices]
  BY BuyerAssumption DEF Skill
<1>2. CASE c = AgentCardHandler(price, secret)
  BY <1>2, CardOffers DEF TypesProcess
<1>3. CASE c.offers \in PriceLists
  BY <1>1, <1>3
<1>4. QED
  BY <1>2, <1>3 DEF Cards

\* A buyer may come to trust the card.
Trusted(c) == "ok" \in Verdicts(c)

LEMMA InUnion ==
    ASSUME NEW Sets, NEW Rest, NEW x \in (UNION Sets) \cup Rest, x \notin Rest
    PROVE  \E some \in Sets : x \in some
OBVIOUS

\* What discoverSeller accepts are the offers of a card that it trusts.
LEMMA FindingIs ==
    ASSUME NEW found \in Findings, found.verdict = "ok"
    PROVE  \E c \in Cards : Trusted(c) /\ found.offers = c.offers
<1> DEFINE All == {Judged(c) : c \in Cards}
<1>1. found \in (UNION All) \cup NoCard
  BY DEF Findings
<1>2. found \notin NoCard
  BY DEF NoCard
<1>3. \E some \in All : found \in some
  <2> HIDE DEF All
  <2> QED BY <1>1, <1>2, InUnion
<1>4. PICK c \in Cards : found \in Judged(c)
  BY <1>3
<1>5. QED
  BY <1>4 DEF Judged, Trusted

\* The three ways a discovery ends.
LEMMA DiscoverIs ==
    ASSUME Discover
    PROVE  /\ pc = "discover"
           /\ UNCHANGED <<world, process, cursor, deal, money, ledger>>
           /\ \/ /\ \E c \in Cards : Trusted(c) /\ offers' = c.offers
                 /\ pc' = "choose" /\ UNCHANGED errors
              \/ Stop /\ UNCHANGED offers
              \/ CountError /\ UNCHANGED offers
  BY FindingIs DEF Discover

LEMMA NextTypes == ASSUME IInv, Next PROVE TypeOK'
<1>1. TypesProcess /\ TypesDeal /\ TypesMoney
  BY TypeParts DEF IInv
<1>2. UNCHANGED events
  BY DEF Next
<1> SUFFICES TypesProcess' /\ TypesDeal' /\ TypesMoney'
  BY TypeParts DEF TypeOK, TypesProcess, TypesDeal, TypesMoney
<1>3. CASE Launch
  <2>1. now + MandateLife \in Nat /\ 0 \in 0 .. MaxRetries - 1
    BY <1>1, BuyerAssumption DEF TypesProcess
  <2>2. pinned' \in Key \cup {NoKey}
    BY <1>1, <1>3, BuyerAssumption DEF Launch, Pins, TypesProcess
  <2>5. TypesProcess'
    BY <1>1, <1>2, <1>3, <2>1, <2>2 DEF Launch, world, card, TypesProcess
  <2>3. TypesDeal' /\ TypesMoney'
    BY <1>1, <1>3 DEF Launch, money, NoDeal, TypesDeal, TypesMoney
  <2>4. QED
    BY <2>3, <2>5
<1>4. CASE Begin
  BY <1>1, <1>2, <1>4 DEF Begin, Stop, world, card, process, money, TypesProcess, TypesDeal, TypesMoney
<1>5. CASE Discover
  <2>1. errors' \in 0 .. MaxRetries - 1 /\ pc' \in {"choose", "backoff", "paused", "off"}
    BY <1>1, <1>5, DiscoverIs, CountErrorTypes DEF Stop, TypesProcess
  <2>2. offers' \in [Skill -> Prices] \cup {NoOffers}
    BY <1>1, <1>5, DiscoverIs, OffersTypes DEF TypesProcess
  <2>3. QED
    BY <1>1, <1>2, <1>5, <2>1, <2>2, DiscoverIs DEF world, card, process, money, TypesProcess, TypesDeal, TypesMoney
<1>6. CASE NothingFits
  BY <1>1, <1>2, <1>6 DEF NothingFits, Stop, world, card, process, money, TypesProcess, TypesDeal, TypesMoney
<1>7. CASE Choose
  <2>1. deal' \in [n : Nat, skill : Nat, price : Nat]
    BY <1>7, ChooseDeal
  <2>2. TypesProcess'
    BY <1>1, <1>2, <1>7 DEF Choose, Stop, world, card, process, TypesProcess
  <2>3. TypesDeal'
    BY <1>1, <1>7, <2>1 DEF Choose, TypesDeal
  <2>4. TypesMoney'
    <3>1. [n |-> deal'.n, at |-> now, price |-> deal'.price, skill |-> deal'.skill,
           result |-> "cap_reached"]
             \in [n : Nat, at : Nat, price : Nat, skill : Nat,
                  result : {"success", "payment_unconfirmed", "cap_reached"}]
      BY <1>1, <2>1 DEF TypesProcess
    <3>2. QED
      BY <1>1, <1>7, <3>1 DEF Choose, TypesMoney
  <2>5. QED
    BY <2>2, <2>3, <2>4
<1>8. CASE Succeed
  <2>1. Entry("success") \in [n : Nat, at : Nat, price : Nat, skill : Nat,
                              result : {"success", "payment_unconfirmed", "cap_reached"}]
    BY <1>1, EntryTypes
  <2>2. 0 \in 0 .. MaxRetries - 1
    BY BuyerAssumption
  <2>3. QED
    BY <1>1, <1>2, <1>8, <2>1, <2>2
       DEF Succeed, Take200, Answered, Idle, world, card, process, TypesProcess, TypesDeal, TypesMoney
<1>9. CASE NetworkError
  <2>1. Entry("payment_unconfirmed") \in [n : Nat, at : Nat, price : Nat, skill : Nat,
                                          result : {"success", "payment_unconfirmed", "cap_reached"}]
    BY <1>1, EntryTypes
  <2>2. errors' \in 0 .. MaxRetries - 1 /\ pc' \in {"backoff", "paused"}
    BY <1>1, <1>9, CountErrorTypes DEF NetworkError, TakeNothing, Answered
  <2>3. late' \subseteq [n : Nat, amount : Nat, until : Nat]
    BY <1>1, <1>9, AbandonTypes DEF NetworkError, TakeNothing, Answered
  <2>4. QED
    BY <1>1, <1>2, <1>9, <2>1, <2>2, <2>3
       DEF NetworkError, TakeNothing, Answered, Idle, world, card, process, TypesProcess, TypesDeal, TypesMoney
<1>10. CASE SellerError
  <2>1. errors' \in 0 .. MaxRetries - 1 /\ pc' \in {"backoff", "paused"}
    BY <1>1, <1>10, CountErrorTypes DEF SellerError, Take503, Answered
  <2>2. late' \subseteq [n : Nat, amount : Nat, until : Nat]
    <3>1. UNCHANGED late \/ Abandon
      BY <1>10 DEF SellerError, Take503, Answered
    <3>2. QED
      BY <1>1, <3>1, AbandonTypes DEF TypesMoney
  <2>3. QED
    BY <1>1, <1>2, <1>10, <2>1, <2>2
       DEF SellerError, Take503, Answered, Idle, world, card, process, TypesProcess, TypesDeal, TypesMoney
<1>11. CASE UnexpectedStatus
  BY <1>1, <1>2, <1>11 DEF UnexpectedStatus, TakeOther, Answered, Idle, world, card, process, TypesProcess, TypesDeal, TypesMoney
<1>12. CASE MandateRefused
  BY <1>1, <1>2, <1>12 DEF MandateRefused, Stop, Idle, world, card, process, TypesProcess, TypesDeal, TypesMoney
<1>13. CASE Resume
  BY <1>1, <1>2, <1>13 DEF Resume, world, card, process, money, TypesProcess, TypesDeal, TypesMoney
<1>14. CASE Exit
  <2>1. late' \subseteq [n : Nat, amount : Nat, until : Nat]
    BY <1>1, <1>14, AbandonTypes DEF Exit
  <2>2. QED
    BY <1>1, <1>2, <1>14, <2>1 DEF Exit, Idle, world, card, process, TypesProcess, TypesDeal, TypesMoney
<1>15. CASE Accept
  <2>1. price[deal.skill] \in Nat
    BY <1>1, <1>15, BuyerAssumption DEF IInv, InFlight, Accept, TypesProcess
  <2>2. TypesDeal'
    BY <1>1, <1>15, <2>1 DEF Accept, TypesDeal
  <2>3. QED
    BY <1>1, <1>2, <1>15, <2>2 DEF Accept, world, card, process, TypesProcess, TypesMoney
<1>16. CASE Settle
  <2>1. [n |-> deal.n, at |-> now, amount |-> flight.amount] \in [n : Nat, at : Nat, amount : Nat]
    BY <1>1 DEF TypesProcess, TypesDeal
  <2>2. TypesDeal'
    BY <1>1, <1>16 DEF Settle, TypesDeal
  <2>3. QED
    BY <1>1, <1>2, <1>16, <2>1, <2>2 DEF Settle, world, card, process, TypesProcess, TypesMoney
<1>17. CASE \E o \in late : SettleLate(o)
  <2>1. PICK o \in late : SettleLate(o)
    BY <1>17
  <2>2. [n |-> o.n, at |-> now, amount |-> o.amount] \in [n : Nat, at : Nat, amount : Nat]
    BY <1>1, <2>1 DEF TypesProcess, TypesMoney
  <2>3. QED
    BY <1>1, <1>2, <2>1, <2>2 DEF SettleLate, world, card, process, TypesProcess, TypesDeal, TypesMoney
<1>18. CASE \E list \in PriceLists : Reprice(list)
  <2>1. PICK list \in PriceLists : Reprice(list)
    BY <1>18
  <2>2. list \in [Skill -> Prices]
    BY <2>1, BuyerAssumption DEF Skill
  <2>3. published' \subseteq [key : Key, offers : [Skill -> Prices]]
    BY <1>1, <2>1, <2>2, PublishTypes DEF Reprice, TypesProcess
  <2>4. QED
    BY <1>1, <1>2, <2>1, <2>2, <2>3
       DEF Reprice, process, money, TypesProcess, TypesDeal, TypesMoney
<1>19. CASE SwitchOff
  BY <1>1, <1>2, <1>19 DEF SwitchOff, card, process, money, TypesProcess, TypesDeal, TypesMoney
<1>20. CASE Tick
  BY <1>1, <1>2, <1>20 DEF Tick, card, process, money, TypesProcess, TypesDeal, TypesMoney
<1>21. CASE \E s \in SellerSecrets : Rotate(s)
  <2>1. PICK s \in SellerSecrets : Rotate(s)
    BY <1>21
  <2>2. s \in Secret /\ price \in [Skill -> Prices]
    BY <1>1, <2>1, BuyerAssumption DEF TypesProcess
  <2>3. published' \subseteq [key : Key, offers : [Skill -> Prices]]
    BY <1>1, <2>1, <2>2, PublishTypes DEF Rotate
  <2>4. QED
    BY <1>1, <1>2, <2>1, <2>2, <2>3
       DEF Rotate, process, money, TypesProcess, TypesDeal, TypesMoney
<1>22. QED
  BY <1>3, <1>4, <1>5, <1>6, <1>7, <1>8, <1>9, <1>10, <1>11, <1>12, <1>13, <1>14, <1>15, <1>16,
     <1>17, <1>18, <1>19, <1>20, <1>21 DEF Next, Process, Seller

-----------------------------------------------------------------------------
LEMMA NextInFlight == ASSUME IInv, Next PROVE InFlight'
<1>1. /\ flight.stage # "none" => pc = "paying"
      /\ pc = "choose" => offers \in [Skill -> Prices]
      /\ pc = "paying" => deal.skill \in Skill
  BY DEF IInv, InFlight
<1>2. price \in [Skill -> Prices]
  BY TypeParts DEF IInv, TypesProcess
<1>3. CASE Choose
  BY <1>3, ChooseDeal DEF Choose, Stop, world, process, InFlight, IInv
<1>9. Discover => offers' \in {offers} \cup [Skill -> Prices] /\ (pc' = "choose" => offers' \in [Skill -> Prices])
  BY DiscoverIs, OffersTypes, TypeParts DEF CountError, Stop, IInv
<1>4. CASE Launch \/ Begin \/ Discover \/ NothingFits \/ Resume
  BY <1>1, <1>2, <1>4, <1>9
     DEF Launch, Begin, Discover, NothingFits, Resume, CountError, Stop, money, InFlight
<1>5. CASE Succeed \/ NetworkError \/ SellerError \/ UnexpectedStatus \/ MandateRefused \/ Exit
  BY <1>1, <1>5
     DEF Succeed, Take200, NetworkError, TakeNothing, SellerError, Take503, UnexpectedStatus, TakeOther, Answered, MandateRefused, Exit, CountError,
         Stop, Idle, InFlight
<1>6. CASE Accept \/ Settle
  BY <1>1, <1>6 DEF Accept, Settle, InFlight
<1>7. CASE (\E o \in late : SettleLate(o)) \/ (\E list \in PriceLists : Reprice(list))
           \/ (\E s \in SellerSecrets : Rotate(s)) \/ SwitchOff \/ Tick
  BY <1>1, <1>7 DEF SettleLate, Reprice, Rotate, SwitchOff, Tick, money, InFlight
<1>8. QED
  BY <1>3, <1>4, <1>5, <1>6, <1>7 DEF Next, Process, Seller

-----------------------------------------------------------------------------
\* The seller takes no more than the mandate allows, and money leaves only by
\* what it has taken.
LEMMA NextInScope == ASSUME IInv, Next PROVE InScope'
<1>1. /\ flight.stage \in {"accepted", "settled"} => flight.amount <= MaxPerCall
      /\ \A o \in late : o.amount <= MaxPerCall
      /\ \A c \in charges : c.amount <= MaxPerCall
  BY DEF IInv, InScope, PerCallHolds
<1>2. CASE Launch \/ Begin \/ Discover \/ NothingFits \/ Resume \/ SwitchOff \/ Tick
           \/ (\E list \in PriceLists : Reprice(list)) \/ (\E s \in SellerSecrets : Rotate(s))
  <2>1. UNCHANGED money
    BY <1>2 DEF Launch, Begin, Discover, NothingFits, Resume, SwitchOff, Tick, Reprice, Rotate
  <2>2. QED
    BY <1>1, <2>1 DEF money, InScope, PerCallHolds
<1>3. CASE Choose
  BY <1>1, <1>3 DEF Choose, InScope, PerCallHolds
<1>4. CASE Succeed \/ UnexpectedStatus \/ MandateRefused
  BY <1>1, <1>4
     DEF Succeed, Take200, UnexpectedStatus, TakeOther, Answered, MandateRefused, Idle, InScope, PerCallHolds
<1>5. CASE NetworkError \/ SellerError \/ Exit
  <2>1. flight' = Idle /\ charges' = charges /\ (UNCHANGED late \/ Abandon)
    BY <1>5 DEF NetworkError, TakeNothing, SellerError, Take503, Answered, Exit
  <2>2. \A o \in late' : o.amount <= MaxPerCall
    BY <1>1, <2>1 DEF Abandon
  <2>3. QED
    BY <1>1, <2>1, <2>2 DEF Idle, InScope, PerCallHolds
<1>6. CASE Accept
  <2>1. PriceInScope(price[deal.skill]) => price[deal.skill] <= MaxPerCall
    BY DEF PriceInScope
  <2>2. flight'.stage = "accepted" => flight'.amount <= MaxPerCall
    BY <1>1, <1>6, <2>1, TypeParts DEF Accept, IInv, TypesDeal
  <2>3. flight'.stage \in {"accepted", "refused"}
    BY <1>6, TypeParts DEF Accept, IInv, TypesDeal
  <2>4. QED
    BY <1>1, <1>6, <2>2, <2>3 DEF Accept, InScope, PerCallHolds
<1>7. CASE Settle
  <2>1. /\ flight.amount <= MaxPerCall /\ flight'.amount = flight.amount
        /\ charges' = charges \cup {[n |-> deal.n, at |-> now, amount |-> flight.amount]}
        /\ late' = late
    BY <1>1, <1>7, TypeParts DEF Settle, IInv, TypesDeal
  <2>2. QED
    BY <1>1, <2>1 DEF InScope, PerCallHolds
<1>8. CASE \E o \in late : SettleLate(o)
  BY <1>1, <1>8 DEF SettleLate, InScope, PerCallHolds
<1>9. QED
  BY <1>2, <1>3, <1>4, <1>5, <1>6, <1>7, <1>8 DEF Next, Process, Seller

-----------------------------------------------------------------------------
\* A card that is trusted shows offers the seller has signed with the key that
\* is pinned.
LEMMA TrustedIsSigned ==
    ASSUME IInv, pinned # NoKey, NEW c \in Cards, Trusted(c)
    PROVE  [key |-> pinned, offers |-> c.offers] \in published
<1>1. PICK s \in c.signatures : Verifies(s, c.offers, pinned)
  BY DEF Trusted, Verdicts, VerifyCard
<1>2. s.by = pinned /\ s.over = c.offers
  BY <1>1 DEF Verifies
<1>3. CASE c = AgentCardHandler(price, secret) /\ ~CardFails(secret)
  <2>1. SigningKey(secret) # NoKey /\ s = Sign(price, SigningKey(secret)) /\ c.offers = price
    BY <1>1, <1>3 DEF AgentCardHandler, SignCard
  <2>2. SigningKey(secret) = pinned
    BY <1>2, <2>1 DEF Sign
  <2>3. pinned \in JwksHandler(secret) \cap Key
    BY <2>1, <2>2, TypeParts DEF JwksHandler, IInv, TypesProcess
  <2>4. QED
    BY <2>1, <2>3 DEF IInv, Signed
<1>4. CASE c \in [offers : PriceLists, signatures : {{}} \cup {{t, u} : t, u \in Signatures}]
  <2>1. s \in Signatures
    BY <1>1, <1>4
  <2>2. pinned \in SellerSecrets
    BY DEF IInv, Signed
  <2>3. PICK p \in published : s = Sign(p.offers, p.key)
    BY <1>2, <2>1, <2>2, BuyerAssumption DEF Signatures
  <2>4. p.key = pinned /\ p.offers = c.offers
    BY <1>2, <2>3 DEF Sign
  <2>5. p = [key |-> p.key, offers |-> p.offers]
    BY TypeParts DEF IInv, TypesProcess
  <2>6. QED
    BY <2>4, <2>5
<1>5. QED
  BY <1>3, <1>4 DEF Cards

\* Published cards stay published, so what was signed remains so.
LEMMA NextSigned == ASSUME IInv, Next PROVE Signed'
<1>1. /\ \A k \in JwksHandler(secret) \cap Key : [key |-> k, offers |-> price] \in published
      /\ \A p \in published : p.key \in SellerSecrets
      /\ pinned # NoKey => pinned \in SellerSecrets
      /\ pinned # NoKey /\ pc = "choose" => [key |-> pinned, offers |-> offers] \in published
      /\ pinned # NoKey /\ pc = "paying" =>
             \E p \in published : p.key = pinned /\ deal.price \in {p.offers[deal.skill], MaxPerCall}
  BY DEF IInv, Signed, PaysSignedOffersOnly
<1>2. CASE Launch
  <2>1. pinned' # NoKey => pinned' \in SellerSecrets
    BY <1>1, <1>2, BuyerAssumption DEF Launch, Pins
  <2>2. pc' = "loop" /\ UNCHANGED <<secret, price, published>>
    BY <1>2 DEF Launch, world, card
  <2>3. QED
    BY <1>1, <2>1, <2>2 DEF JwksHandler, SigningKey, Signed, PaysSignedOffersOnly
<1>3. CASE Discover
  <2>1. UNCHANGED <<secret, price, published, pinned>> /\ pc' # "paying"
    BY <1>3, DiscoverIs DEF CountError, Stop, world, card, process
  <2>2. pinned # NoKey /\ pc' = "choose" => [key |-> pinned, offers |-> offers'] \in published
    BY <1>3, DiscoverIs, TrustedIsSigned DEF CountError, Stop
  <2>3. QED
    BY <1>1, <2>1, <2>2 DEF JwksHandler, SigningKey, Signed, PaysSignedOffersOnly
<1>4. CASE Choose
  <2>1. UNCHANGED <<secret, price, published, pinned>> /\ pc' # "choose" /\ pc = "choose"
    BY <1>4 DEF Choose, Stop, world, card, process
  <2>2. deal'.price \in {offers[deal'.skill], MaxPerCall}
    BY <1>4, ChooseDeal
  <2>3. pinned # NoKey =>
            \E p \in published : p.key = pinned /\ deal'.price \in {p.offers[deal'.skill], MaxPerCall}
    BY <1>1, <2>1, <2>2
  <2>4. QED
    BY <1>1, <2>1, <2>3 DEF JwksHandler, SigningKey, Signed, PaysSignedOffersOnly
<1>5. CASE Begin \/ NothingFits \/ Resume \/ Succeed \/ NetworkError \/ SellerError
           \/ UnexpectedStatus \/ MandateRefused \/ Exit
  <2>1. UNCHANGED <<secret, price, published, pinned>> /\ pc' \notin {"choose", "paying"}
    BY <1>5 DEF Begin, NothingFits, Resume, Succeed, Take200, NetworkError, TakeNothing, SellerError, Take503, UnexpectedStatus, TakeOther, Answered,
                MandateRefused, Exit, CountError, Stop, world, card, process
  <2>2. QED
    BY <1>1, <2>1 DEF JwksHandler, SigningKey, Signed, PaysSignedOffersOnly
<1>6. CASE Accept \/ Settle \/ (\E o \in late : SettleLate(o)) \/ SwitchOff \/ Tick
  <2>1. UNCHANGED <<secret, price, published, pinned, pc, offers, deal>>
    BY <1>6 DEF Accept, Settle, SettleLate, SwitchOff, Tick, world, card, process
  <2>2. QED
    BY <1>1, <2>1 DEF JwksHandler, SigningKey, Signed, PaysSignedOffersOnly
<1>7. CASE (\E list \in PriceLists : Reprice(list)) \/ (\E s \in SellerSecrets : Rotate(s))
  <2>1. UNCHANGED <<pinned, pc, offers, deal>> /\ Publish(price', secret')
    BY <1>7 DEF Reprice, Rotate, process
  <2>2. published' = published \cup {[key |-> k, offers |-> price'] : k \in JwksHandler(secret') \cap Key}
    BY <2>1 DEF Publish
  <2>3. secret' \in SellerSecrets \/ secret' = secret
    BY <1>7 DEF Reprice, Rotate
  <2>4. ASSUME NEW k \in JwksHandler(secret') \cap Key PROVE k \in SellerSecrets
    <3>1. k = secret'
      BY <2>4 DEF JwksHandler, SigningKey
    <3>2. CASE secret' = secret
      <4>1. [key |-> k, offers |-> price] \in published
        BY <1>1, <2>4, <3>2
      <4>2. QED
        BY <1>1, <4>1
    <3>3. QED
      BY <2>3, <3>1, <3>2
  <2>5. \A k \in JwksHandler(secret') \cap Key : [key |-> k, offers |-> price'] \in published'
    BY <2>2
  <2>6. published \subseteq published' /\ \A p \in published' : p.key \in SellerSecrets
    BY <1>1, <2>2, <2>4
  <2>7. JwksHandler(secret)' = JwksHandler(secret')
    BY DEF JwksHandler, SigningKey
  <2>8. pinned' # NoKey /\ pc' = "paying" =>
            \E p \in published' : p.key = pinned' /\ deal'.price \in {p.offers[deal'.skill], MaxPerCall}
    BY <1>1, <2>1, <2>6
  <2>9. QED
    BY <1>1, <2>1, <2>5, <2>6, <2>7, <2>8 DEF Signed, PaysSignedOffersOnly
<1>8. QED
  BY <1>2, <1>3, <1>4, <1>5, <1>6, <1>7 DEF Next, Process, Seller

-----------------------------------------------------------------------------
\* While prices stay, the deal covers what the seller asks.
LEMMA NextCovered == ASSUME IInv, Calm, Covered, Next PROVE Covered'
<1>1. /\ price = ListPrice
      /\ offers \in {NoOffers, ListPrice}
      /\ pc = "paying" => deal.price >= ListPrice[deal.skill]
      /\ flight.stage \in {"accepted", "settled"} => flight.amount <= deal.price
      /\ flight.stage # "none" => pc = "paying"
  BY DEF Covered, IInv, InFlight
<1>2. "reprice" \notin events /\ "altered" \notin events
  BY DEF Calm, Unaccounted
<1>3. CASE Launch \/ Begin \/ Discover \/ NothingFits \/ Resume
  <2>1. pc # "paying" /\ flight.stage = "none" /\ pc' # "paying"
    BY <1>1, <1>3 DEF Launch, Begin, Discover, NothingFits, Resume, CountError, Stop
  <2>2. price' = price /\ flight' = flight
    BY <1>3 DEF Launch, Begin, Discover, NothingFits, Resume, world, money
  <2>4. Discover => offers' \in {offers, price}
    BY <1>2, DiscoverIs, CardOffers DEF Cards
  <2>5. offers' \in {offers, NoOffers, price}
    BY <1>3, <2>4 DEF Launch, Begin, NothingFits, Resume
  <2>3. QED
    BY <1>1, <2>1, <2>2, <2>5 DEF Covered
<1>4. CASE Choose
  <2>1. pc = "choose" /\ flight.stage = "none" /\ offers' = NoOffers /\ price' = price
    BY <1>1, <1>4 DEF Choose, world
  <2>2. offers \in [Skill -> Prices] /\ ListPrice \in [Skill -> Prices] /\ ListPrice # NoOffers
    BY <2>1, ListPriceIs, BuyerAssumption DEF IInv, InFlight, NoOffers
  <2>3. offers = ListPrice \/ Skill = {}
    BY <1>1, <2>2 DEF NoOffers
  <2>4. deal'.skill \in Skill
    BY <1>4, ChooseDeal
  <2>5. ListPrice[deal'.skill] \in Nat
    BY <2>2, <2>4, BuyerAssumption
  <2>6. deal'.price >= ListPrice[deal'.skill]
    BY <1>1, <1>4, <2>3, <2>4, <2>5, ChooseDeal
  <2>7. flight'.stage \in {"none", "sent"}
    BY <1>4, <2>1 DEF Choose
  <2>8. QED
    BY <1>1, <2>1, <2>6, <2>7 DEF Covered
<1>5. CASE Succeed \/ NetworkError \/ SellerError \/ UnexpectedStatus \/ MandateRefused \/ Exit
  <2>1. pc' # "paying" /\ flight' = Idle
    BY <1>5 DEF Succeed, Take200, NetworkError, TakeNothing, SellerError, Take503, UnexpectedStatus, TakeOther, Answered, MandateRefused, Exit,
                CountError, Stop
  <2>2. price' = price /\ offers' = offers
    BY <1>5 DEF Succeed, Take200, NetworkError, TakeNothing, SellerError, Take503, UnexpectedStatus, TakeOther, Answered, MandateRefused, Exit, world
  <2>3. QED
    BY <1>1, <2>1, <2>2 DEF Idle, Covered
<1>6. CASE Accept
  <2>1. deal.price >= price[deal.skill] /\ pc = "paying"
    BY <1>1, <1>6 DEF Accept
  <2>2. price[deal.skill] \in Nat /\ deal.price \in Nat
    BY <2>1, TypeParts, BuyerAssumption DEF IInv, InFlight, TypesProcess, TypesDeal
  <2>3. flight'.stage = "accepted" => flight'.amount <= deal.price
    BY <1>6, <2>1, <2>2, TypeParts DEF Accept, IInv, TypesDeal
  <2>4. flight'.stage \in {"accepted", "refused"}
    BY <1>6, TypeParts DEF Accept, IInv, TypesDeal
  <2>5. UNCHANGED <<price, pc, offers, deal>>
    BY <1>6 DEF Accept, world
  <2>6. QED
    BY <1>1, <2>3, <2>4, <2>5 DEF Covered
<1>7. CASE Settle
  <2>1. flight'.amount = flight.amount /\ flight.amount <= deal.price
    BY <1>1, <1>7, TypeParts DEF Settle, IInv, TypesDeal
  <2>2. UNCHANGED <<price, pc, offers, deal>>
    BY <1>7 DEF Settle, world
  <2>3. QED
    BY <1>1, <2>1, <2>2 DEF Covered
<1>8. CASE (\E o \in late : SettleLate(o)) \/ SwitchOff \/ Tick
  BY <1>1, <1>8 DEF SettleLate, SwitchOff, Tick, world, money, Covered
<1>9. CASE \E list \in PriceLists : Reprice(list)
  BY <1>2, <1>9 DEF Reprice
<1>10. CASE \E s \in SellerSecrets : Rotate(s)
  BY <1>1, <1>10 DEF Rotate, money, Covered
<1>11. QED
  BY <1>3, <1>4, <1>5, <1>6, <1>7, <1>8, <1>9, <1>10 DEF Next, Process, Seller

-----------------------------------------------------------------------------
\* An entry, once appended, stays.
LEMMA BookedStays ==
    ASSUME NEW n, NEW amount, NEW at, Booked(n, amount, at),
           ledger \subseteq ledger', UNCHANGED events
    PROVE  Booked(n, amount, at)'
BY DEF Booked, SpendResults, Delay

\* The entry that ends a purchase accounts for what the seller took.
LEMMA EntryBooks ==
    ASSUME NEW result \in SpendResults, Entry(result) \in ledger', UNCHANGED events,
           NEW n, n = deal.n, NEW amount, deal.price >= amount,
           NEW at, now + Delay >= at
    PROVE  Booked(n, amount, at)'
<1>1. /\ Entry(result).n = deal.n /\ Entry(result).result = result
      /\ Entry(result).price = deal.price /\ Entry(result).at = now
  BY DEF Entry
<1>2. QED
  BY <1>1 DEF Booked, SpendResults, Delay

\* What the seller still has to do, and what it did, stays in the books through
\* a step that neither ends the deal nor moves money.
LEMMA QuietBooks ==
    ASSUME Books, ledger \subseteq ledger', late' \subseteq late, charges' = charges, UNCHANGED events,
           flight.stage = "settled" => UNCHANGED <<deal, flight>>
    PROVE  Books'
<1>1. \A o \in late' : Booked(o.n, o.amount, o.until)'
  BY BookedStays DEF Books
<1>2. ASSUME NEW c \in charges'
      PROVE  \/ Booked(c.n, c.amount, c.at)'
             \/ deal'.n = c.n /\ flight'.stage = "settled" /\ c.amount <= deal'.price
  BY <1>2, BookedStays DEF Books
<1>3. QED
  BY <1>1, <1>2 DEF Books

LEMMA NextBooks == ASSUME IInv, Calm, Covered, Books, Next PROVE Books'
<1>1. /\ flight.stage # "none" => pc = "paying"
      /\ flight.stage \in {"accepted", "settled"} => flight.amount <= deal.price
  BY DEF Covered, IInv, InFlight
<1>2. events \cap {"errorCharged", "killed", "reprice", "altered"} = {}
  BY DEF Calm, Unaccounted
<1>3. deal.price \in Nat /\ deal.n \in Nat /\ flight.amount \in Nat
  BY TypeParts DEF IInv, TypesDeal
<1>15. UNCHANGED events
  BY DEF Next
<1>16. /\ now \in Nat /\ Delay \in Nat /\ \A c \in charges : c.at \in Nat /\ c.at <= now
       /\ \A o \in late : o.until \in Nat /\ now <= o.until
       /\ \A e \in ledger : e.at \in Nat
  BY BuyerAssumption, TypeParts DEF IInv, Numbered, TypesProcess, TypesMoney, Delay
<1>4. CASE Launch \/ Begin \/ Discover \/ NothingFits \/ Choose \/ Resume
  <2>1. flight.stage = "none"
    BY <1>1, <1>4 DEF Launch, Begin, Discover, NothingFits, Choose, Resume
  <2>2. ledger \subseteq ledger' /\ late' = late /\ charges' = charges
    BY <1>4 DEF Launch, Begin, Discover, NothingFits, Choose, Resume, money
  <2>3. QED
    BY <1>15, <2>1, <2>2, QuietBooks
<1>5. CASE Accept
  BY <1>5, <1>15, QuietBooks DEF Accept
<1>6. CASE SwitchOff \/ Tick \/ (\E s \in SellerSecrets : Rotate(s))
  BY <1>6, <1>15, QuietBooks DEF SwitchOff, Tick, Rotate, money
<1>7. CASE (SellerError \/ UnexpectedStatus \/ MandateRefused)
  <2>1. flight.stage # "settled"
    BY <1>2, <1>7 DEF SellerError, Take503, UnexpectedStatus, TakeOther, Answered, MandateRefused
  <2>2. ledger' = ledger /\ late' = late /\ charges' = charges
    BY <1>2, <1>7 DEF SellerError, Take503, UnexpectedStatus, TakeOther, Answered, MandateRefused
  <2>3. QED
    BY <1>15, <2>1, <2>2, QuietBooks
<1>8. CASE Exit
  <2>1. pc # "paying" /\ flight.stage = "none"
    BY <1>1, <1>2, <1>8 DEF Exit
  <2>2. late' = late /\ ledger' = ledger /\ charges' = charges
    BY <1>8, <2>1 DEF Exit, Abandon
  <2>3. QED
    BY <1>15, <2>1, <2>2, QuietBooks
<1>9. CASE Succeed
  <2>1. Entry("success") \in ledger' /\ ledger \subseteq ledger' /\ late' = late /\ charges' = charges
    BY <1>9 DEF Succeed, Take200, Answered
  <2>2. \A o \in late' : Booked(o.n, o.amount, o.until)'
    BY <2>1, <1>15, BookedStays DEF Books
  <2>3. ASSUME NEW c \in charges' PROVE Booked(c.n, c.amount, c.at)'
    <3>1. CASE Booked(c.n, c.amount, c.at)
      BY <2>1, <3>1, <1>15, BookedStays
    <3>2. CASE deal.n = c.n /\ c.amount <= deal.price
      <4>1. deal.price >= c.amount
        BY <2>1, <3>2, <1>3, TypeParts DEF IInv, TypesMoney
      <4>2. now + Delay >= c.at
        BY <1>16, <2>1
      <4>3. QED
        BY <1>15, <2>1, <3>2, <4>1, <4>2, EntryBooks DEF SpendResults
    <3>3. QED
      BY <2>1, <3>1, <3>2 DEF Books
  <2>4. QED
    BY <2>2, <2>3 DEF Books
<1>10. CASE NetworkError
  <2>1. /\ Entry("payment_unconfirmed") \in ledger' /\ ledger \subseteq ledger'
        /\ charges' = charges /\ Abandon
    BY <1>10 DEF NetworkError, TakeNothing, Answered
  <2>2. ASSUME NEW o \in late' PROVE Booked(o.n, o.amount, o.until)'
    <3>1. CASE o \in late
      BY <2>1, <3>1, <1>15, BookedStays DEF Books
    <3>2. CASE o \notin late
      <4>1. flight.stage = "accepted" /\ o = [n |-> deal.n, amount |-> flight.amount, until |-> now + Lag]
        BY <2>1, <2>2, <3>2 DEF Abandon
      <4>2. deal.price >= o.amount /\ o.n = deal.n
        BY <1>1, <1>3, <4>1
      <4>4. now + Delay >= o.until
        BY <1>16, <2>1, <3>2, <4>1, BuyerAssumption DEF Abandon, Delay
      <4>3. QED
        BY <1>15, <2>1, <4>2, <4>4, EntryBooks DEF SpendResults
    <3>3. QED
      BY <3>1, <3>2
  <2>3. ASSUME NEW c \in charges' PROVE Booked(c.n, c.amount, c.at)'
    <3>1. CASE Booked(c.n, c.amount, c.at)
      BY <2>1, <3>1, <1>15, BookedStays
    <3>2. CASE deal.n = c.n /\ c.amount <= deal.price
      <4>1. deal.price >= c.amount
        BY <2>1, <3>2, <1>3, TypeParts DEF IInv, TypesMoney
      <4>2. now + Delay >= c.at
        BY <1>16, <2>1
      <4>3. QED
        BY <1>15, <2>1, <3>2, <4>1, <4>2, EntryBooks DEF SpendResults
    <3>3. QED
      BY <2>1, <3>1, <3>2 DEF Books
  <2>4. QED
    BY <2>2, <2>3 DEF Books
<1>11. CASE Settle
  <2>1. /\ ledger' = ledger /\ late' = late /\ deal' = deal
        /\ charges' = charges \cup {[n |-> deal.n, at |-> now, amount |-> flight.amount]}
        /\ flight.stage = "accepted"
    BY <1>11 DEF Settle
  <2>2. flight'.stage = "settled"
    BY <1>11, TypeParts DEF Settle, IInv, TypesDeal
  <2>3. \A o \in late' : Booked(o.n, o.amount, o.until)'
    BY <2>1, <1>15, BookedStays DEF Books
  <2>4. ASSUME NEW c \in charges'
        PROVE  \/ Booked(c.n, c.amount, c.at)'
               \/ deal'.n = c.n /\ flight'.stage = "settled" /\ c.amount <= deal'.price
    <3>1. CASE c \in charges
      BY <2>1, <3>1, <1>15, BookedStays DEF Books
    <3>2. CASE c = [n |-> deal.n, at |-> now, amount |-> flight.amount]
      BY <1>1, <2>1, <2>2, <3>2
    <3>3. QED
      BY <2>1, <3>1, <3>2
  <2>5. QED
    BY <2>3, <2>4 DEF Books
<1>12. CASE \E o \in late : SettleLate(o)
  <2>1. PICK o \in late : SettleLate(o)
    BY <1>12
  <2>2. /\ ledger' = ledger /\ late' \subseteq late /\ deal' = deal /\ flight' = flight
        /\ charges' \subseteq charges \cup {[n |-> o.n, at |-> now, amount |-> o.amount]}
    BY <2>1 DEF SettleLate
  <2>3. \A p \in late' : Booked(p.n, p.amount, p.until)'
    BY <2>2, <1>15, BookedStays DEF Books
  <2>4. Booked(o.n, o.amount, o.until)'
    BY <2>1, <2>2, <1>15, BookedStays DEF Books
  <2>5. ASSUME NEW c \in charges'
        PROVE  \/ Booked(c.n, c.amount, c.at)'
               \/ deal'.n = c.n /\ flight'.stage = "settled" /\ c.amount <= deal'.price
    <3>1. CASE c \in charges
      BY <2>2, <3>1, <1>15, BookedStays DEF Books
    <3>2. CASE c = [n |-> o.n, at |-> now, amount |-> o.amount]
      <4>1. now \in Nat /\ o.until \in Nat /\ now <= o.until /\ Delay \in Nat
        BY <1>16
      <4>2. PICK e \in ledger' : /\ e.n = o.n /\ e.result \in SpendResults
                                 /\ e.price >= o.amount /\ e.at + Delay >= o.until
        BY <1>15, <2>4 DEF Booked, SpendResults, Delay
      <4>3. e.at \in Nat
        BY <1>16, <2>2
      <4>4. e.at + Delay >= now
        BY <4>1, <4>2, <4>3
      <4> QED BY <1>15, <3>2, <4>2, <4>4 DEF Booked, SpendResults, Delay
    <3>3. QED
      BY <2>2, <3>1, <3>2
  <2>6. QED
    BY <2>3, <2>5 DEF Books
<1>13. CASE \E list \in PriceLists : Reprice(list)
  BY <1>2, <1>13 DEF Reprice
<1>14. QED
  BY <1>4, <1>5, <1>6, <1>7, <1>8, <1>9, <1>10, <1>11, <1>12, <1>13 DEF Next, Process, Seller

-----------------------------------------------------------------------------
(* Numbers and times.                                                      *)

\* A step that appends nothing, charges nothing and gives up nothing.
LEMMA QuietNumbered ==
    ASSUME Numbered, UNCHANGED <<events, now, ledger, late, charges>>, deal'.n = deal.n,
           pc' = "paying" => /\ pc = "paying"
                             /\ flight.stage = "settled" => flight'.stage = "settled"
    PROVE  Numbered'
BY DEF Numbered

\* The request that is given up, if the seller may still settle it, is the last.
LEMMA AbandonIs ==
    ASSUME IInv, Abandon, pc = "paying"
    PROVE  /\ late \subseteq late'
           /\ \A o \in late' \ late : /\ o = [n |-> deal.n, amount |-> flight.amount, until |-> now + Lag]
                                      /\ "late" \in events
                                      /\ flight.stage = "accepted"
BY DEF Abandon

\* Such a request, given up, keeps the numbers in order.
LEMMA AbandonNumbered ==
    ASSUME IInv, pc = "paying", pc' # "paying", Abandon, UNCHANGED <<events, now, charges, deal>>,
           ledger' = ledger \/ \E result \in SpendResults : ledger' = ledger \cup {Entry(result)}
    PROVE  Numbered'
<1>1. /\ now \in Nat /\ deal.n \in Nat /\ now + Lag \in Nat /\ now <= now + Lag
      /\ \A e \in ledger : e.n \in Nat
      /\ \A o \in late : o.n \in Nat
      /\ \A c \in charges : c.n \in Nat
  BY BuyerAssumption, TypeParts DEF IInv, TypesProcess, TypesDeal, TypesMoney
<1>2. Numbered
  BY DEF IInv
<1>3. ASSUME NEW e \in ledger' PROVE e.n <= deal'.n /\ e.at <= now'
  <2>1. CASE e \in ledger
    BY <1>2, <2>1 DEF Numbered
  <2>2. CASE \E result \in SpendResults : e = Entry(result)
    BY <1>1, <2>2 DEF Entry
  <2>3. QED
    BY <1>3, <2>1, <2>2
<1>4. ASSUME NEW o \in late'
      PROVE  /\ o.n <= deal'.n /\ now' <= o.until /\ "late" \in events'
             /\ \A p \in late' : p.n = o.n => p = o
             /\ \A c \in charges' : c.n # o.n
  <2>1. late \subseteq late' /\ \A p \in late' \ late :
               /\ p = [n |-> deal.n, amount |-> flight.amount, until |-> now + Lag]
               /\ "late" \in events /\ flight.stage = "accepted"
    BY AbandonIs
  <2>2. \A p \in late : p.n < deal.n
    BY <1>2 DEF Numbered
  <2>3. \A p \in late' : p.n = o.n => p = o
    <3>1. \A p \in late' \ late : p.n = deal.n /\ \A q \in late' \ late : p = q
      BY <2>1
    <3>2. \A p \in late : p.n # deal.n
      BY <1>1, <2>2
    <3>3. \A p, q \in late : p.n = q.n => p = q
      BY <1>2 DEF Numbered
    <3>4. QED
      BY <1>4, <3>1, <3>2, <3>3
  <2>4. CASE o \in late
    BY <1>2, <2>3, <2>4 DEF Numbered
  <2>5. CASE o \notin late
    <3>1. o.n = deal.n /\ o.until = now + Lag /\ "late" \in events /\ flight.stage = "accepted"
      BY <1>4, <2>1, <2>5
    <3>2. \A c \in charges : c.n < deal.n
      BY <1>2, <3>1 DEF Numbered
    <3>3. QED
      BY <1>1, <2>3, <3>1, <3>2
  <2>6. QED
    BY <2>4, <2>5
<1>5. \A c \in charges' : c.n <= deal'.n /\ c.at <= now' /\ \A d \in charges' : d.n = c.n => d = c
  BY <1>2 DEF Numbered
<1>6. IsFiniteSet(ledger') /\ IsFiniteSet(charges')
  BY <1>2, FS_AddElement DEF Numbered
<1>7. QED
  BY <1>3, <1>4, <1>5, <1>6 DEF Numbered

LEMMA AddOne == ASSUME NEW S, IsFiniteSet(S), NEW x PROVE IsFiniteSet(S \cup {x})
BY FS_AddElement

LEMMA NextNumbered == ASSUME IInv, Next PROVE Numbered'
<1>1. Numbered /\ InFlight
  BY DEF IInv
<1>2. UNCHANGED events
  BY DEF Next
<1>3. /\ now \in Nat /\ deal.n \in Nat
      /\ \A e \in ledger : e.n \in Nat /\ e.at \in Nat
      /\ \A o \in late : o.n \in Nat /\ o.until \in Nat
      /\ \A c \in charges : c.n \in Nat /\ c.at \in Nat
  BY TypeParts DEF IInv, TypesProcess, TypesDeal, TypesMoney
<1>4. CASE Launch
  <2>1. deal'.n = deal.n /\ pc' = "loop"
    BY <1>4 DEF Launch, NoDeal
  <2>2. QED
    BY <1>1, <1>2, <1>4, <2>1, QuietNumbered DEF Launch, world, money
<1>5. CASE Begin \/ Discover \/ NothingFits \/ Resume
  <2>1. pc' # "paying" /\ UNCHANGED <<now, ledger, late, charges, deal>>
    BY <1>5 DEF Begin, Discover, NothingFits, Resume, CountError, Stop, world, money
  <2>2. QED
    BY <1>1, <1>2, <2>1, QuietNumbered
<1>6. CASE UnexpectedStatus \/ MandateRefused
  <2>1. pc' # "paying" /\ UNCHANGED <<now, ledger, late, charges, deal>>
    BY <1>6 DEF UnexpectedStatus, TakeOther, Answered, MandateRefused, Stop, world
  <2>2. QED
    BY <1>1, <1>2, <2>1, QuietNumbered
<1>7. CASE Accept
  <2>1. UNCHANGED <<now, ledger, late, charges, deal, pc>> /\ flight.stage # "settled"
    BY <1>7 DEF Accept, world
  <2>2. QED
    BY <1>1, <1>2, <2>1, QuietNumbered
<1>8. CASE (\E list \in PriceLists : Reprice(list)) \/ (\E s \in SellerSecrets : Rotate(s)) \/ SwitchOff
  <2>1. UNCHANGED <<now, ledger, late, charges, deal, pc, flight>>
    BY <1>8 DEF Reprice, Rotate, SwitchOff, money
  <2>2. QED
    BY <1>1, <1>2, <2>1, QuietNumbered
<1>9. CASE Choose
  <2>1. deal'.n = deal.n + 1 /\ UNCHANGED <<now, late, charges>>
    BY <1>9 DEF Choose, world
  <2>2. \/ ledger' = ledger
        \/ /\ pc' # "paying"
           /\ ledger' = ledger \cup {[n |-> deal'.n, at |-> now, price |-> deal'.price,
                                      skill |-> deal'.skill, result |-> "cap_reached"]}
    BY <1>9 DEF Choose, Stop
  <2>3. ASSUME NEW e \in ledger' PROVE e.n <= deal'.n /\ e.at <= now /\ (pc' = "paying" => e.n < deal'.n)
    <3>1. CASE e \in ledger
      BY <1>1, <1>3, <2>1, <3>1 DEF Numbered
    <3>2. CASE e \notin ledger
      BY <1>3, <2>1, <2>2, <2>3, <3>2
    <3>3. QED
      BY <3>1, <3>2
  <2>4. \A o \in late : o.n <= deal'.n /\ o.n < deal'.n
    BY <1>1, <1>3, <2>1 DEF Numbered
  <2>5. \A c \in charges : c.n <= deal'.n /\ c.n < deal'.n
    BY <1>1, <1>3, <2>1 DEF Numbered
  <2>6. IsFiniteSet(ledger') /\ IsFiniteSet(charges')
    <3>1. IsFiniteSet(ledger) /\ IsFiniteSet(charges)
      BY <1>1 DEF Numbered
    <3>2. QED
      BY <2>1, <2>2, <3>1, AddOne
  <2>7. QED
    BY <1>1, <1>2, <2>1, <2>3, <2>4, <2>5, <2>6 DEF Numbered
<1>10. CASE Succeed
  <2>1. pc = "paying" /\ pc' # "paying" /\ UNCHANGED <<now, charges, deal, late>> /\ Abandon
    BY <1>10 DEF Succeed, Take200, Answered, world, Abandon
  <2>2. ledger' = ledger \cup {Entry("success")} /\ "success" \in SpendResults
    BY <1>10 DEF Succeed, Take200, SpendResults
  <2>3. QED
    BY <1>2, <2>1, <2>2, AbandonNumbered
<1>11. CASE NetworkError
  <2>1. pc = "paying" /\ pc' # "paying" /\ UNCHANGED <<now, charges, deal>> /\ Abandon
    BY <1>11 DEF NetworkError, TakeNothing, CountError, Answered, world
  <2>2. ledger' = ledger \cup {Entry("payment_unconfirmed")} /\ "payment_unconfirmed" \in SpendResults
    BY <1>11 DEF NetworkError, TakeNothing, SpendResults
  <2>3. QED
    BY <1>2, <2>1, <2>2, AbandonNumbered
<1>12. CASE SellerError
  <2>1. pc = "paying" /\ pc' # "paying" /\ UNCHANGED <<now, charges, deal, ledger>> /\ Abandon
    BY <1>12 DEF SellerError, Take503, CountError, Answered, world, Abandon
  <2>2. QED
    BY <1>2, <2>1, AbandonNumbered
<1>13. CASE Exit
  <2>1. pc' # "paying" /\ UNCHANGED <<now, charges, deal, ledger>> /\ Abandon
    BY <1>13 DEF Exit, world
  <2>2. CASE pc = "paying"
    BY <1>2, <2>1, <2>2, AbandonNumbered
  <2>3. CASE pc # "paying"
    <3>1. late' = late
      BY <1>1, <2>1, <2>3 DEF Abandon, InFlight
    <3>2. QED
      BY <1>1, <1>2, <2>1, <3>1, QuietNumbered
  <2>4. QED
    BY <2>2, <2>3
<1>14. CASE Settle
  <2>1. /\ UNCHANGED <<now, ledger, late, deal, pc>> /\ pc = "paying"
        /\ charges' = charges \cup {[n |-> deal.n, at |-> now, amount |-> flight.amount]}
        /\ flight.stage = "accepted"
    BY <1>14 DEF Settle, world
  <2>2. flight'.stage = "settled"
    BY <1>14, TypeParts DEF Settle, IInv, TypesDeal
  <2>3. \A c \in charges : c.n < deal.n
    BY <1>1, <2>1 DEF Numbered
  <2>4. ASSUME NEW c \in charges'
        PROVE  c.n <= deal.n /\ c.at <= now /\ \A d \in charges' : d.n = c.n => d = c
    <3>1. \A x \in charges' \ charges : x = [n |-> deal.n, at |-> now, amount |-> flight.amount]
      BY <2>1
    <3>2. \A x \in charges : x.n # deal.n
      BY <1>3, <2>3
    <3>3. \A x, y \in charges : x.n = y.n => x = y
      BY <1>1 DEF Numbered
    <3>4. \A x \in charges : x.n <= deal.n /\ x.at <= now
      BY <1>1 DEF Numbered
    <3>5. QED
      BY <1>3, <2>4, <3>1, <3>2, <3>3, <3>4
  <2>5. \A o \in late : o.n < deal.n /\ o.n # deal.n
    BY <1>1, <1>3, <2>1 DEF Numbered
  <2>6. \A o \in late : \A c \in charges' : c.n # o.n
    BY <1>1, <2>1, <2>5 DEF Numbered
  <2>7. IsFiniteSet(charges')
    BY <1>1, <2>1, AddOne DEF Numbered
  <2>8. QED
    BY <1>1, <1>2, <2>1, <2>2, <2>4, <2>6, <2>7 DEF Numbered
<1>15. CASE \E o \in late : SettleLate(o)
  <2>1. PICK o \in late : SettleLate(o)
    BY <1>15
  <2>2. /\ UNCHANGED <<now, ledger, deal, pc, flight>> /\ late' = late \ {o}
        /\ \/ charges' = charges
           \/ charges' = charges \cup {[n |-> o.n, at |-> now, amount |-> o.amount]}
    BY <2>1 DEF SettleLate, world
  <2>3. /\ o.n <= deal.n /\ (pc = "paying" => o.n < deal.n)
        /\ \A p \in late : p.n = o.n => p = o
        /\ \A c \in charges : c.n # o.n
    BY <1>1 DEF Numbered
  <2>4. ASSUME NEW c \in charges'
        PROVE  /\ c.n <= deal.n /\ c.at <= now
               /\ pc = "paying" => c.n < deal.n \/ flight.stage = "settled"
               /\ \A d \in charges' : d.n = c.n => d = c
    <3>1. \A x \in charges' \ charges : x = [n |-> o.n, at |-> now, amount |-> o.amount]
      BY <2>2
    <3>2. \A x, y \in charges : x.n = y.n => x = y
      BY <1>1 DEF Numbered
    <3>3. \A x, y \in charges' : x.n = y.n => x = y
      BY <2>3, <3>1, <3>2
    <3>4. CASE c \in charges
      BY <1>1, <3>3, <3>4 DEF Numbered
    <3>5. CASE c \notin charges
      BY <1>3, <2>3, <2>4, <3>1, <3>3, <3>5
    <3>6. QED
      BY <3>4, <3>5
  <2>5. \A p \in late' : \A c \in charges' : c.n # p.n
    BY <1>1, <2>2, <2>3 DEF Numbered
  <2>6. IsFiniteSet(charges')
    <3>1. IsFiniteSet(charges)
      BY <1>1 DEF Numbered
    <3>2. QED
      BY <2>2, <3>1, AddOne
  <2>7. \A e \in ledger : e.n <= deal.n /\ e.at <= now /\ (pc = "paying" => e.n < deal.n)
    BY <1>1 DEF Numbered
  <2>8. \A p \in late' : /\ p.n <= deal.n /\ (pc = "paying" => p.n < deal.n)
                         /\ now <= p.until /\ "late" \in events
                         /\ \A q \in late' : q.n = p.n => q = p
    BY <1>1, <2>2 DEF Numbered
  <2>9. QED
    BY <1>1, <1>2, <2>2, <2>4, <2>5, <2>6, <2>7, <2>8 DEF Numbered
<1>16. CASE Tick
  <2>1. now' = now + 1 /\ UNCHANGED <<ledger, late, charges, deal, pc, flight>>
    BY <1>16 DEF Tick, money
  <2>2. \A o \in late : now' <= o.until
    BY <1>3, <1>16 DEF Tick
  <2>3. /\ \A e \in ledger : e.at <= now'
        /\ \A c \in charges : c.at <= now'
    BY <1>1, <1>3, <2>1 DEF Numbered
  <2>4. QED
    BY <1>1, <1>2, <2>1, <2>2, <2>3 DEF Numbered
<1>17. QED
  BY <1>4, <1>5, <1>6, <1>7, <1>8, <1>9, <1>10, <1>11, <1>12, <1>13, <1>14, <1>15, <1>16
     DEF Next, Process, Seller

-----------------------------------------------------------------------------
(* The cap.                                                                *)

\* MapThenSumSet is a sum in the sense of FiniteSums.
LEMMA PriceSumIs ==
    ASSUME NEW S, IsFiniteSet(S)
    PROVE  PriceSum(S) = Total([e \in S |-> e.price], S)
<1> DEFINE Solves(g) == g = [s \in SUBSET S |->
                                IF s = {} THEN 0
                                ELSE LET x == CHOOSE x \in s : TRUE IN x.price + g[s \ {x}]]
           h == CHOOSE g : Solves(g)
<1>1. PICK g : Sums(g, S, [e \in S |-> e.price])
  BY SumsExists
<1>2. Solves(g)
  BY <1>1, PickIs DEF Sums, Adds, Pick
<1>3. Solves(h)
  BY <1>2
<1>4. PriceSum(S) = h[S]
  BY DEF PriceSum, MapThenSumSet, MapThenFoldSet
<1> HIDE DEF h
<1>5. Sums(h, S, [e \in S |-> e.price])
  BY <1>3, PickIs DEF Sums, Adds, Pick
<1>6. QED
  BY <1>4, <1>5, TotalOf

AmountSum(payments) == MapThenSumSet(LAMBDA c : c.amount, payments)

LEMMA AmountSumIs ==
    ASSUME NEW S, IsFiniteSet(S)
    PROVE  AmountSum(S) = Total([c \in S |-> c.amount], S)
<1> DEFINE Solves(g) == g = [s \in SUBSET S |->
                                IF s = {} THEN 0
                                ELSE LET x == CHOOSE x \in s : TRUE IN x.amount + g[s \ {x}]]
           h == CHOOSE g : Solves(g)
<1>1. PICK g : Sums(g, S, [c \in S |-> c.amount])
  BY SumsExists
<1>2. Solves(g)
  BY <1>1, PickIs DEF Sums, Adds, Pick
<1>3. Solves(h)
  BY <1>2
<1>4. AmountSum(S) = h[S]
  BY DEF AmountSum, MapThenSumSet, MapThenFoldSet
<1> HIDE DEF h
<1>5. Sums(h, S, [c \in S |-> c.amount])
  BY <1>3, PickIs DEF Sums, Adds, Pick
<1>6. QED
  BY <1>4, <1>5, TotalOf

LEMMA PriceSumType ==
    ASSUME IInv, NEW S \in SUBSET ledger
    PROVE  IsFiniteSet(S) /\ PriceSum(S) \in Nat
<1>1. IsFiniteSet(S)
  BY FS_Subset DEF IInv, Numbered
<1>2. \A e \in S : e.price \in Nat
  BY TypeParts DEF IInv, TypesMoney
<1>3. Total([e \in S |-> e.price], S) \in Nat
  BY <1>1, <1>2, TotalType
<1>4. QED
  BY <1>1, <1>3, PriceSumIs

\* What was within the cap stays so: entries are appended for later purchases
\* only, and charges made when they are made.
LEMMA AffordsStays ==
    ASSUME NEW n, NEW p, Affords(n, p), now \in Nat, now' \in Nat, now <= now',
           ledger \subseteq ledger', \A e \in ledger' \ ledger : ~(e.n < n),
           \A c \in charges' \ charges : c.at = now
    PROVE  Affords(n, p)'
<1>1. PICK t \in 0 .. now : /\ \A e \in ledger : e.n < n => e.at <= t
                            /\ \A c \in charges : c.n = n => t <= c.at
                            /\ PriceSum(Earlier(n, t)) + p <= DailyCap
  BY DEF Affords
<1>2. Earlier(n, t)' = Earlier(n, t)
  BY DEF Earlier, SpendResults
<1>3. PriceSum(Earlier(n, t))' = PriceSum(Earlier(n, t))
  BY <1>2
<1>4. t \in 0 .. now' /\ t <= now
  OBVIOUS
<1>5. \A e \in ledger' : e.n < n => e.at <= t
  BY <1>1
<1>6. \A c \in charges' : c.n = n => t <= c.at
  BY <1>1, <1>4
<1>7. QED
  BY <1>1, <1>3, <1>4, <1>5, <1>6 DEF Affords

\* The check before a purchase.
LEMMA ChooseAffords ==
    ASSUME IInv, Choose, pc' = "paying"
    PROVE  Affords(deal.n, deal.price)'
<1>1. /\ deal'.n = deal.n + 1 /\ deal'.price \in Nat /\ ledger' = ledger
      /\ UNCHANGED <<now, charges>>
      /\ ~(SpentInWindow(ledger, now, Day) + deal'.price > DailyCap)
  BY ChooseDeal DEF Choose, Stop, world
<1>2. /\ now \in Nat /\ deal.n \in Nat
      /\ \A e \in ledger : e.n \in Nat /\ e.at \in Nat /\ e.n <= deal.n /\ e.at <= now
      /\ \A c \in charges : c.n \in Nat /\ c.n <= deal.n
  BY TypeParts DEF IInv, Numbered, TypesProcess, TypesDeal, TypesMoney
<1> DEFINE counted == {e \in ledger : e.result \in SpendResults /\ e.at + Day > now /\ e.at <= now}
<1>3. SpentInWindow(ledger, now, Day) = PriceSum(counted)
  BY DEF SpentInWindow, PriceSum
<1>4. Earlier(deal'.n, now) = counted
  BY <1>1, <1>2 DEF Earlier
<1> HIDE DEF counted
<1>5. PriceSum(Earlier(deal'.n, now)) \in Nat
  BY PriceSumType DEF Earlier
<1>6. PriceSum(Earlier(deal'.n, now)) + deal'.price <= DailyCap
  BY <1>1, <1>3, <1>4, <1>5, BuyerAssumption
<1>7. /\ \A e \in ledger : e.n < deal'.n => e.at <= now
      /\ \A c \in charges : c.n # deal'.n
      /\ now \in 0 .. now
  BY <1>1, <1>2
<1>8. Affords(deal'.n, deal'.price)
  BY <1>6, <1>7 DEF Affords
<1>9. PICK n, p : n = deal'.n /\ p = deal'.price
  OBVIOUS
<1>10. Affords(n, p)'
  BY <1>1, <1>2, <1>8, <1>9, AffordsStays
<1>11. QED
  BY <1>9, <1>10

LEMMA NextAfforded == ASSUME IInv, Next PROVE Afforded'
<1>1. Numbered /\ Afforded
  BY DEF IInv
<1>2. /\ now \in Nat /\ deal.n \in Nat
      /\ \A e \in ledger : e.n \in Nat /\ e.n <= deal.n
  BY <1>1, TypeParts DEF IInv, Numbered, TypesProcess, TypesDeal, TypesMoney
<1>3. /\ now' \in {now, now + 1}
      /\ \A c \in charges' \ charges : c.at = now
  BY DEF Next, Process, Seller, Launch, Begin, Discover, NothingFits, Choose, Succeed, Take200,
         NetworkError, TakeNothing, SellerError, Take503, UnexpectedStatus, TakeOther, Answered,
         MandateRefused, Resume, Exit, Accept, Settle, SettleLate, Reprice, Rotate, SwitchOff, Tick,
         world, money
<1>4. now' \in Nat /\ now <= now'
  BY <1>2, <1>3
<1>5. CASE Choose
  <2>1. deal'.n = deal.n + 1 /\ ledger \subseteq ledger'
        /\ \A e \in ledger' \ ledger : e.n = deal'.n /\ e.result \notin SpendResults
    BY <1>5 DEF Choose, SpendResults
  <2>2. ASSUME NEW e \in ledger', e.result \in SpendResults' PROVE Affords(e.n, e.price)'
    <3>1. e \in ledger
      BY <2>1, <2>2 DEF SpendResults
    <3>2. Affords(e.n, e.price)
      BY <1>1, <2>2, <3>1 DEF Afforded, SpendResults
    <3>3. \A f \in ledger' \ ledger : ~(f.n < e.n)
      BY <1>2, <2>1, <3>1
    <3>4. QED
      BY <1>2, <1>3, <1>4, <2>1, <3>2, <3>3, AffordsStays
  <2>3. pc' = "paying" => Affords(deal.n, deal.price)'
    BY <1>5, ChooseAffords
  <2>4. QED
    BY <2>2, <2>3 DEF Afforded
<1>6. CASE Succeed \/ NetworkError
  <2>1. /\ pc = "paying" /\ pc' # "paying" /\ deal' = deal
        /\ \E result \in SpendResults : ledger' = ledger \cup {Entry(result)}
    BY <1>6 DEF Succeed, Take200, NetworkError, TakeNothing, CountError, Answered, SpendResults
  <2>2. \A e \in ledger' \ ledger : e.n = deal.n /\ e.price = deal.price
    BY <2>1 DEF Entry
  <2>3. ASSUME NEW e \in ledger', e.result \in SpendResults' PROVE Affords(e.n, e.price)'
    <3>1. Affords(e.n, e.price)
      BY <1>1, <2>1, <2>2, <2>3 DEF Afforded, SpendResults
    <3>2. e.n \in Nat /\ e.n <= deal.n
      BY <1>2, <2>2, <2>3
    <3>3. \A f \in ledger' \ ledger : ~(f.n < e.n)
      BY <1>2, <2>2, <3>2
    <3>4. QED
      BY <1>2, <1>3, <1>4, <2>1, <3>1, <3>3, AffordsStays
  <2>4. QED
    BY <2>1, <2>3 DEF Afforded
<1>7. CASE ledger' = ledger /\ (pc' = "paying" => pc = "paying" /\ deal' = deal)
  <2>1. ASSUME NEW n, NEW p, Affords(n, p) PROVE Affords(n, p)'
    BY <1>2, <1>3, <1>4, <1>7, <2>1, AffordsStays
  <2>2. \A e \in ledger : e.result \in SpendResults => Affords(e.n, e.price)'
    BY <1>1, <2>1 DEF Afforded
  <2>3. pc' = "paying" => Affords(deal.n, deal.price)'
    <3>1. SUFFICES ASSUME pc' = "paying" PROVE Affords(deal.n, deal.price)'
      OBVIOUS
    <3>2. Affords(deal.n, deal.price)
      BY <1>1, <1>7, <3>1 DEF Afforded
    <3>3. PICK n, p : n = deal.n /\ p = deal.price
      OBVIOUS
    <3>4. Affords(n, p)'
      BY <2>1, <3>2, <3>3
    <3>5. QED
      BY <1>7, <3>1, <3>3, <3>4
  <2>4. QED
    BY <1>7, <2>2, <2>3 DEF Afforded, SpendResults
<1>8. CASE Launch \/ Begin \/ Discover \/ NothingFits \/ Resume
  <2>1. ledger' = ledger /\ pc' # "paying"
    BY <1>8 DEF Launch, Begin, Discover, NothingFits, Resume, CountError, Stop
  <2>2. QED
    BY <1>7, <2>1
<1>9. CASE SellerError \/ UnexpectedStatus \/ MandateRefused \/ Exit
  <2>1. ledger' = ledger /\ pc' # "paying"
    BY <1>9 DEF SellerError, Take503, UnexpectedStatus, TakeOther, Answered, MandateRefused, Exit,
                CountError, Stop
  <2>2. QED
    BY <1>7, <2>1
<1>10. CASE \/ Accept \/ Settle \/ (\E o \in late : SettleLate(o)) \/ SwitchOff \/ Tick
            \/ (\E list \in PriceLists : Reprice(list)) \/ (\E s \in SellerSecrets : Rotate(s))
  <2>1. UNCHANGED <<ledger, pc, deal>>
    BY <1>10 DEF Accept, Settle, SettleLate, SwitchOff, Tick, Reprice, Rotate
  <2>2. QED
    BY <1>7, <2>1
<1>11. QED
  BY <1>5, <1>6, <1>8, <1>9, <1>10 DEF Next, Process, Seller

\* A finite set of charges has a latest one.
LEMMA LatestCharge ==
    ASSUME IInv, NEW S \in SUBSET charges, S # {}
    PROVE  \E m \in S : \A d \in S : d.n <= m.n
<1> DEFINE T == {n \in Nat : \E d \in S : n = deal.n - d.n}
<1>1. /\ deal.n \in Nat
      /\ \A d \in S : d.n \in Nat /\ d.n <= deal.n /\ deal.n - d.n \in Nat
  BY TypeParts DEF IInv, Numbered, TypesDeal, TypesMoney
<1>2. T # {} /\ T \in SUBSET Nat
  BY <1>1
<1>3. PICK k \in T : \A j \in T : ~(<<j, k>> \in OpToRel(<, Nat))
  <2> HIDE DEF T
  <2>1. QED
    BY <1>2, WFMin, NatLessThanWellFounded
<1>4. \A j \in T : ~(j < k)
  BY <1>2, <1>3 DEF OpToRel
<1>5. PICK m \in S : k = deal.n - m.n
  OBVIOUS
<1>6. ASSUME NEW d \in S PROVE d.n <= m.n
  <2>1. deal.n - d.n \in T
    BY <1>1
  <2>2. ~(deal.n - d.n < deal.n - m.n)
    BY <1>4, <1>5, <2>1
  <2>3. QED
    BY <1>1, <2>2
<1>7. QED
  BY <1>6

\* The charges of earlier purchases that fall in a window, together, are no more
\* than what the ledger counted when the latest of them was chosen.
LEMMA EarlierCharges ==
    ASSUME IInv, Calm, NEW m \in charges, NEW t \in Nat, NEW S \in SUBSET charges,
           \A e \in ledger : e.n < m.n => e.at <= t,
           \A d \in S : d.n < m.n /\ d.at + Day > t + Delay
    PROVE  IsFiniteSet(S) /\ AmountSum(S) <= PriceSum(Earlier(m.n, t))
<1> DEFINE U == Earlier(m.n, t)
           f == [d \in S |-> d.amount]
           h == [e \in U |-> e.price]
           match == [d \in S |-> CHOOSE e \in U : e.n = d.n /\ e.price >= d.amount]
<1>1. /\ deal.n \in Nat /\ Delay \in Nat /\ Day \in Nat
      /\ \A c \in charges : c.n \in Nat /\ c.at \in Nat /\ c.amount \in Nat /\ c.n <= deal.n
      /\ \A e \in ledger : e.n \in Nat /\ e.at \in Nat /\ e.price \in Nat
  BY BuyerAssumption, TypeParts DEF IInv, Numbered, TypesDeal, TypesMoney, Delay
<1>2. ASSUME NEW d \in S PROVE \E e \in U : e.n = d.n /\ e.price >= d.amount
  <2>1. d.n < m.n /\ d.at + Day > t + Delay /\ d.n # deal.n
    BY <1>1
  <2>2. Booked(d.n, d.amount, d.at)
    BY <2>1 DEF IInv, Books
  <2>3. PICK e \in ledger : /\ e.n = d.n /\ e.result \in SpendResults
                            /\ e.price >= d.amount /\ e.at + Delay >= d.at
    BY <2>2 DEF Booked
  <2>4. e.at + Day > t
    BY <1>1, <2>1, <2>3
  <2>5. e \in U
    BY <2>1, <2>3, <2>4 DEF Earlier
  <2>6. QED
    BY <2>3, <2>5
<1>3. \A d \in S : match[d] \in U /\ match[d].n = d.n /\ match[d].price >= d.amount
  BY <1>2
<1>4. IsFiniteSet(S) /\ IsFiniteSet(U)
  BY FS_Subset DEF IInv, Numbered, Earlier
<1>5. \A d \in S : f[d] \in Nat
  BY <1>1
<1>6. \A e \in U : h[e] \in Nat
  BY <1>1 DEF Earlier
<1>7. match \in [S -> U]
  BY <1>3
<1>8. \A d \in S : f[d] <= h[match[d]]
  <2>1. ASSUME NEW d \in S PROVE f[d] <= h[match[d]]
    <3>1. match[d] \in U /\ match[d].price >= d.amount
      BY <1>3
    <3>2. h[match[d]] = match[d].price /\ f[d] = d.amount
      BY <3>1
    <3>3. match[d].price \in Nat /\ d.amount \in Nat
      BY <1>1, <3>1 DEF Earlier
    <3> HIDE DEF match, f, h
    <3>4. QED
      BY <3>1, <3>2, <3>3
  <2>2. QED
    BY <2>1
<1>9. \A c, d \in S : match[c] = match[d] => c = d
  <2>1. \A c, d \in S : c.n = d.n => c = d
    BY DEF IInv, Numbered
  <2>2. QED
    BY <1>3, <2>1
<1>10. AmountSum(S) = Total(f, S) /\ PriceSum(U) = Total(h, U)
  BY <1>4, AmountSumIs, PriceSumIs
<1> HIDE DEF U, f, h, match
<1>11. Total(f, S) <= Total(h, U)
  BY <1>4, <1>5, <1>6, <1>7, <1>8, <1>9, TotalMatched
<1>12. QED
  BY <1>4, <1>10, <1>11 DEF U

\* What a purchase was charged is no more than the price that was within the cap.
LEMMA ChargeAfforded ==
    ASSUME IInv, Calm, NEW m \in charges
    PROVE  \E p \in Nat : m.amount <= p /\ Affords(m.n, p)
<1>1. m.amount \in Nat /\ deal.price \in Nat /\ \A e \in ledger : e.price \in Nat
  BY TypeParts DEF IInv, TypesDeal, TypesMoney
<1>2. CASE Booked(m.n, m.amount, m.at)
  <2>1. PICK e \in ledger : e.n = m.n /\ e.result \in SpendResults /\ e.price >= m.amount
    BY <1>2 DEF Booked
  <2>2. Affords(e.n, e.price)
    BY <2>1 DEF IInv, Afforded
  <2>3. QED
    BY <1>1, <2>1, <2>2
<1>3. CASE deal.n = m.n /\ flight.stage = "settled" /\ m.amount <= deal.price
  <2>1. pc = "paying"
    BY <1>3 DEF IInv, InFlight
  <2>2. Affords(deal.n, deal.price)
    BY <2>1 DEF IInv, Afforded
  <2>3. QED
    BY <1>1, <1>3, <2>2
<1>4. QED
  BY <1>2, <1>3 DEF IInv, Books

LEMMA InvCap == IInv => CapHolds
<1> SUFFICES ASSUME IInv, Calm, NEW c \in charges
             PROVE  ChargedWithin(Day - Delay, c.at) <= DailyCap
  <2>1. Day - 0 = Day
    BY BuyerAssumption
  <2>2. QED
    BY <2>1 DEF CapHolds, Calm, Delay
<1> DEFINE S == {d \in charges : d.at + (Day - Delay) > c.at /\ d.at <= c.at}
<1>1. /\ Delay \in Nat /\ Day \in Nat /\ DailyCap \in Nat /\ deal.n \in Nat
      /\ \A d \in charges : d.n \in Nat /\ d.at \in Nat /\ d.amount \in Nat /\ d.n <= deal.n
  BY BuyerAssumption, TypeParts DEF IInv, Numbered, TypesDeal, TypesMoney, Delay
<1>2. ChargedWithin(Day - Delay, c.at) = AmountSum(S)
  BY DEF ChargedWithin, AmountSum
<1>3. S \in SUBSET charges
  OBVIOUS
<1>4. IsFiniteSet(S)
  BY <1>3, FS_Subset DEF IInv, Numbered
<1>5. CASE S = {}
  <2>1. AmountSum({}) = 0
    BY AmountSumIs, TotalEmpty, FS_EmptySet
  <2> HIDE DEF S
  <2>2. QED
    BY <1>1, <1>2, <1>5, <2>1
<1>6. CASE S # {}
  <2>1. PICK m \in S : \A d \in S : d.n <= m.n
    BY <1>3, <1>6, LatestCharge
  <2>2. m \in charges
    BY <2>1
  <2>3. PICK p \in Nat : m.amount <= p /\ Affords(m.n, p)
    BY <2>2, ChargeAfforded
  <2>4. PICK t \in 0 .. now : /\ \A e \in ledger : e.n < m.n => e.at <= t
                              /\ \A d \in charges : d.n = m.n => t <= d.at
                              /\ PriceSum(Earlier(m.n, t)) + p <= DailyCap
    BY <2>3 DEF Affords
  <2>5. t \in Nat /\ t <= m.at /\ m.at <= c.at
    BY <2>1, <2>2, <2>4, TypeParts DEF IInv, TypesProcess
  <2>6. \A d \in S \ {m} : d.n < m.n /\ d.at + Day > t + Delay
    <3>1. ASSUME NEW d \in S \ {m} PROVE d.n < m.n /\ d.at + Day > t + Delay
      <4>1. d \in charges /\ d.n <= m.n /\ d.at + (Day - Delay) > c.at
        BY <2>1
      <4>2. d.n # m.n
        BY <2>2, <4>1 DEF IInv, Numbered
      <4>3. QED
        BY <1>1, <2>2, <2>5, <4>1, <4>2
    <3>2. QED
      BY <3>1
  <2>7. S \ {m} \in SUBSET charges
    OBVIOUS
  <2> HIDE DEF S
  <2>8. AmountSum(S \ {m}) <= PriceSum(Earlier(m.n, t)) /\ IsFiniteSet(S \ {m})
    BY <2>2, <2>4, <2>5, <2>6, <2>7, EarlierCharges
  <2>9. AmountSum(S) = m.amount + AmountSum(S \ {m}) /\ AmountSum(S \ {m}) \in Nat
    <3> DEFINE f == [d \in S |-> d.amount]
               g == [d \in S \ {m} |-> d.amount]
    <3>1. AmountSum(S) = Total(f, S) /\ AmountSum(S \ {m}) = Total(g, S \ {m})
      BY <1>4, <2>8, AmountSumIs
    <3>2. Agree(f, g, S \ {m})
      BY DEF Agree
    <3>3. \A d \in S : f[d] \in Nat
      BY <1>1, <1>3
    <3>4. f[m] = m.amount
      BY <2>1
    <3> HIDE DEF f, g
    <3>5. Total(f, S) = f[m] + Total(f, S \ {m})
      BY <1>4, <2>1, <3>3, TotalRemove
    <3>6. Total(f, S \ {m}) = Total(g, S \ {m})
      BY <2>8, <3>2, TotalSame
    <3>7. Total(f, S \ {m}) \in Nat
      BY <2>8, <3>3, TotalType
    <3>8. QED
      BY <3>1, <3>4, <3>5, <3>6, <3>7
  <2>10. PriceSum(Earlier(m.n, t)) \in Nat
    BY PriceSumType DEF Earlier
  <2>11. QED
    BY <1>1, <1>2, <2>2, <2>3, <2>4, <2>8, <2>9, <2>10
<1>7. QED
  BY <1>5, <1>6

-----------------------------------------------------------------------------
LEMMA InitIInv == Init => IInv
<1> SUFFICES ASSUME Init PROVE IInv
  OBVIOUS
<1>1. TypesProcess
  <2>1. 0 \in 0 .. MaxRetries - 1
    BY BuyerAssumption
  <2>2. QED
    BY <2>1, ListPriceIs, BuyerAssumption DEF Init, Secret, TypesProcess
<1>2. TypesDeal /\ TypesMoney
  BY DEF Init, NoDeal, Idle, TypesDeal, TypesMoney
<1>3. InFlight /\ InScope
  BY DEF Init, Idle, InFlight, InScope, PerCallHolds
<1>4. Covered /\ Books
  BY DEF Init, Idle, Covered, Books
<1>5. Signed
  BY BuyerAssumption, AgentCardAssumption
     DEF Init, JwksHandler, SigningKey, Signed, PaysSignedOffersOnly
<1>6. Numbered /\ Afforded
  BY FS_EmptySet DEF Init, Numbered, Afforded
<1>7. QED
  BY <1>1, <1>2, <1>3, <1>4, <1>5, <1>6, TypeParts DEF IInv

LEMMA NextIInv == IInv /\ [Next]_vars => IInv'
<1> SUFFICES ASSUME IInv, [Next]_vars PROVE IInv'
  OBVIOUS
<1>1. CASE Next
  <2>1. UNCHANGED events
    BY <1>1 DEF Next
  <2>2. Calm' => Covered' /\ Books'
    BY <1>1, <2>1, NextCovered, NextBooks DEF IInv, Calm
  <2>3. QED
    BY <1>1, <2>2, NextTypes, NextInFlight, NextInScope, NextSigned, NextNumbered, NextAfforded
       DEF IInv
<1>2. CASE UNCHANGED vars
  <2>1. TypeOK' /\ InFlight' /\ InScope' /\ Signed'
    BY <1>2 DEF vars, IInv, TypeOK, InFlight, InScope, PerCallHolds, Signed, PaysSignedOffersOnly
  <2>2. Numbered'
    BY <1>2 DEF vars, IInv, Numbered
  <2>3. Afforded'
    BY <1>2 DEF vars, IInv, Afforded, Affords, Earlier, SpendResults
  <2>4. (Calm => Covered /\ Books)'
    BY <1>2 DEF vars, IInv, Calm, Covered, Booked, Books, SpendResults, Delay
  <2>5. QED
    BY <2>1, <2>2, <2>3, <2>4 DEF IInv
<1>3. QED
  BY <1>1, <1>2

THEOREM Invariance == Spec => []IInv
<1>1. QED
  BY InitIInv, NextIInv, PTL DEF Spec

\* The loop's variables keep their types; no more than MaxRetries - 1 errors are
\* ever counted (agent.mjs:410-420).
THEOREM TypeCorrect == Spec => []TypeOK
<1>1. IInv => TypeOK
  BY DEF IInv
<1>2. QED
  BY <1>1, Invariance, PTL

\* Whatever happens, repricing, lost responses and kills included, no charge
\* exceeds MAX_PER_CALL (README.md:199, mandate.ts:140-160).
THEOREM ChargesAreInScope == Spec => []PerCallHolds
<1>1. IInv => PerCallHolds
  BY DEF IInv, InScope
<1>2. QED
  BY <1>1, Invariance, PTL

\* A buyer that has pinned a key pays for nothing the seller has not signed with
\* it, however cards are altered and keys replaced (agent.mjs:152-168,
\* card-verify.mjs:55-84).
THEOREM OnlySignedOffersArePaid == Spec => []PaysSignedOffersOnly
<1>1. IInv => PaysSignedOffersOnly
  BY DEF IInv, Signed
<1>2. QED
  BY <1>1, Invariance, PTL

\* Unless a charge goes unaccounted, the ledger covers every charge that is not
\* in the hands of the process (budget.mjs:14-15, agent.mjs:297-310).
THEOREM ChargesAreRecorded == Spec => []EveryChargeRecorded
<1>1. IInv => EveryChargeRecorded
  BY DEF IInv, Calm, Books, Booked, SpendResults, EveryChargeRecorded
<1>2. QED
  BY <1>1, Invariance, PTL

\* README.md:198 DAILY_CAP: unless a charge goes unaccounted, the charges of any
\* rolling day are within the cap, for all prices, caps and windows, however
\* many purchases are made, lost or repeated; where settlements may come late,
\* of any window that is shorter by their delay (budget.mjs:41-64,
\* agent.mjs:271-279).
THEOREM CapIsKept == Spec => []CapHolds
<1>1. QED
  BY InvCap, Invariance, PTL

-----------------------------------------------------------------------------
(* The kill switch.                                                        *)

\* Nothing is in flight but while the loop pays.
Quiet == pc # "paying" => flight = Idle

\* The switch is off, and no process runs that read it as on.
Dead == ~switch /\ (pc = "off" \/ (pc = "loop" /\ ~enabled))

LEMMA NextQuiet == Quiet /\ [Next]_vars => Quiet'
<1> SUFFICES ASSUME Quiet, [Next]_vars PROVE Quiet'
  OBVIOUS
<1> USE DEF Quiet
<1>1. CASE Process
  <2>1. CASE Launch \/ Begin \/ Discover \/ NothingFits \/ Resume
    BY <2>1 DEF Launch, Begin, Discover, NothingFits, Resume, money, CountError, Stop
  <2>2. CASE Choose
    BY <2>2 DEF Choose, Stop
  <2>3. CASE Succeed \/ NetworkError \/ SellerError \/ UnexpectedStatus \/ MandateRefused
    BY <2>3 DEF Succeed, NetworkError, SellerError, UnexpectedStatus, MandateRefused
  <2>4. QED
    BY <1>1, <2>1, <2>2, <2>3 DEF Process
<1>2. CASE Exit
  BY <1>2 DEF Exit
<1>3. CASE Seller
  BY <1>3 DEF Seller, Accept, Settle
<1>4. CASE \/ \E o \in late : SettleLate(o)
           \/ \E list \in PriceLists : Reprice(list)
           \/ \E s \in SellerSecrets : Rotate(s)
           \/ SwitchOff \/ Tick \/ UNCHANGED vars
  BY <1>4 DEF SettleLate, Reprice, Rotate, SwitchOff, Tick, vars, money
<1>5. QED
  BY <1>1, <1>2, <1>3, <1>4 DEF Next

LEMMA NextDead == Dead /\ [Next]_vars => Dead'
<1> SUFFICES ASSUME Dead, [Next]_vars PROVE Dead'
  OBVIOUS
<1> USE DEF Dead
<1>1. CASE Process
  <2>1. CASE Launch \/ Begin
    BY <2>1 DEF Launch, Begin, Stop, world
  <2>2. CASE Discover \/ NothingFits \/ Choose \/ Succeed \/ NetworkError \/ SellerError
             \/ UnexpectedStatus \/ MandateRefused \/ Resume
    BY <2>2 DEF Discover, NothingFits, Choose, Succeed, NetworkError, SellerError,
                UnexpectedStatus, MandateRefused, Resume
  <2>3. QED
    BY <1>1, <2>1, <2>2 DEF Process
<1>2. CASE Exit
  BY <1>2 DEF Exit, world
<1>3. CASE \/ Seller \/ \E o \in late : SettleLate(o)
           \/ \E list \in PriceLists : Reprice(list)
           \/ \E s \in SellerSecrets : Rotate(s)
           \/ SwitchOff \/ Tick \/ UNCHANGED vars
  BY <1>3 DEF Seller, Accept, Settle, SettleLate, Reprice, Rotate, SwitchOff, Tick, vars, world, process
<1>4. QED
  BY <1>1, <1>2, <1>3 DEF Next

\* README.md:202 "Kill switch": however often the agent is launched afterwards,
\* and whatever the seller does, nothing is bought any more (agent.mjs:201-204).
THEOREM KillSwitchIsFinal == Spec => SwitchedOffForGood
<1>1. Init => Quiet
  BY DEF Init, Quiet
<1>2. ~switch /\ pc = "off" => Dead
  BY DEF Dead
<1>3. Quiet /\ Dead => flight = Idle
  BY DEF Quiet, Dead
<1>4. QED
  BY <1>1, <1>2, <1>3, NextQuiet, NextDead, PTL DEF Spec, SwitchedOffForGood
=============================================================================
