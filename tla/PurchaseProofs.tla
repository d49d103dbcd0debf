--------------------------- MODULE PurchaseProofs ----------------------------
(***************************************************************************)
(* Proofs about a purchase, for every price, cap and number of attempts:   *)
(* what buyer and seller may rely on in the mandate behind it (Mandate),   *)
(* and that the gate is the seller BuyerAgent takes it for (Sale), so that *)
(* the cap proved of BuyerAgent is kept at the gate too.                   *)
(***************************************************************************)
EXTENDS Sale, Mandate, FiniteSetTheorems, WellFoundedInduction, TLAPS

-----------------------------------------------------------------------------
(* The mandate: a chain of checks is passed by what passes each of them,   *)
(* wherever the check stands, and by nothing else.                         *)

\* A chain is passed when no check of it fails, and only then.
LEMMA FirstFailingIs ==
    ASSUME NEW checks, NEW n \in Nat, DOMAIN checks = 1 .. n,
           \A i \in 1 .. n : checks[i].status # 200
    PROVE  FirstFailing(checks) = OK <=> \A i \in 1 .. n : ~checks[i].fails
  <1>1. CASE \A i \in 1 .. n : ~checks[i].fails
    BY <1>1 DEF FirstFailing
  <1>2. CASE \E i \in 1 .. n : checks[i].fails
    <2> DEFINE T == {i \in 1 .. n : checks[i].fails}
    <2>1. T \subseteq Nat /\ T # {}
      BY <1>2
    <2>2. PICK k \in T : \A j \in T : ~(j < k)
      <3>1. \E k \in T : \A j \in T : ~(<<j, k>> \in OpToRel(<, Nat))
        <4> HIDE DEF T
        <4> QED BY <2>1, WFMin, NatLessThanWellFounded
      <3>2. \A j, k \in T : j < k => <<j, k>> \in OpToRel(<, Nat)
        BY <2>1 DEF OpToRel
      <3> QED BY <3>1, <3>2
    <2>3. checks[k].fails /\ \A j \in 1 .. k - 1 : ~checks[j].fails
      BY <2>2
    <2> DEFINE i == CHOOSE i \in DOMAIN checks :
                        checks[i].fails /\ \A j \in 1 .. i - 1 : ~checks[j].fails
    <2>4. i \in 1 .. n
      BY <2>2, <2>3
    <2>5. FirstFailing(checks) = [status |-> checks[i].status, error |-> checks[i].error]
      BY <1>2 DEF FirstFailing
    <2> HIDE DEF i
    <2>6. FirstFailing(checks).status # 200
      BY <2>4, <2>5
    <2> QED BY <1>2, <2>6 DEF OK
  <1> QED BY <1>1, <1>2

LEMMA CheckIs ==
    ASSUME NEW fails, NEW status, NEW error
    PROVE  /\ Check(fails, status, error).fails = fails
           /\ Check(fails, status, error).status = status
  BY DEF Check

\* The conditions of the seller's chain, and of the buyer's.
SellerRefuses == \/ Malformed
                 \/ body.signer # body.buyer
                 \/ payer \notin {UnknownPayer, body.buyer}
                 \/ body.expiry = -1 \/ now >= body.expiry
                 \/ AtMostZero(body.perCall) \/ AtMostZero(body.daily)
                 \/ TooExpensive
                 \/ body.seller # NoOrigin /\ body.seller # at

LEMMA SevenChecks ==
    ASSUME NEW a, NEW b, NEW c, NEW d, NEW e, NEW f, NEW g
    PROVE  LET checks == <<a>> \o <<b, c>> \o <<d, e, f, g>>
           IN /\ DOMAIN checks = 1 .. 7
              /\ checks[1] = a /\ checks[2] = b /\ checks[3] = c /\ checks[4] = d
              /\ checks[5] = e /\ checks[6] = f /\ checks[7] = g
  OBVIOUS

LEMMA SellerVerdictIs ==
    SellerVerdict = OK <=> ~SellerRefuses
  <1> DEFINE checks == <<Check(Malformed, 403, "mandate_malformed")>> \o IdentityChecks \o ScopeChecks
  <1>1. /\ DOMAIN checks = 1 .. 7
        /\ checks[1] = Check(Malformed, 403, "mandate_malformed")
        /\ checks[2] = Check(body.signer # body.buyer, 401, "identity_unverified")
        /\ checks[3] = Check(payer \notin {UnknownPayer, body.buyer}, 401, "identity_mismatch")
        /\ checks[4] = Check(body.expiry = -1 \/ now >= body.expiry, 403, "mandate_expired")
        /\ checks[5] = Check(AtMostZero(body.perCall) \/ AtMostZero(body.daily), 403, "mandate_invalid_caps")
        /\ checks[6] = Check(TooExpensive, 403, "mandate_scope_exceeded")
        /\ checks[7] = Check(body.seller # NoOrigin /\ body.seller # at, 403, "mandate_wrong_seller")
    BY SevenChecks DEF IdentityChecks, ScopeChecks
  <1> HIDE DEF checks
  <1>2. checks[1].fails = Malformed /\ checks[1].status # 200
    BY <1>1, CheckIs
  <1>3. checks[2].fails = (body.signer # body.buyer) /\ checks[2].status # 200
    BY <1>1, CheckIs
  <1>4. checks[3].fails = (payer \notin {UnknownPayer, body.buyer}) /\ checks[3].status # 200
    BY <1>1, CheckIs
  <1>5. checks[4].fails = (body.expiry = -1 \/ now >= body.expiry) /\ checks[4].status # 200
    BY <1>1, CheckIs
  <1>6. checks[5].fails = (AtMostZero(body.perCall) \/ AtMostZero(body.daily)) /\ checks[5].status # 200
    BY <1>1, CheckIs
  <1>7. checks[6].fails = TooExpensive /\ checks[6].status # 200
    BY <1>1, CheckIs
  <1>8. checks[7].fails = (body.seller # NoOrigin /\ body.seller # at) /\ checks[7].status # 200
    BY <1>1, CheckIs
  <1>9. \A i \in 1 .. 7 : checks[i].status # 200
    BY <1>2, <1>3, <1>4, <1>5, <1>6, <1>7, <1>8
  <1>10. FirstFailing(checks) = OK <=> \A i \in 1 .. 7 : ~checks[i].fails
    BY <1>1, <1>9, FirstFailingIs
  <1>11. (\A i \in 1 .. 7 : ~checks[i].fails) <=> ~SellerRefuses
    <2>1. (\A i \in 1 .. 7 : ~checks[i].fails)
              <=> /\ ~checks[1].fails /\ ~checks[2].fails /\ ~checks[3].fails /\ ~checks[4].fails
                  /\ ~checks[5].fails /\ ~checks[6].fails /\ ~checks[7].fails
      <3>1. \A i \in 1 .. 7 : i = 1 \/ i = 2 \/ i = 3 \/ i = 4 \/ i = 5 \/ i = 6 \/ i = 7
        OBVIOUS
      <3> QED BY <3>1
    <2> QED BY <1>2, <1>3, <1>4, <1>5, <1>6, <1>7, <1>8, <2>1, Zenon DEF SellerRefuses
  <1> QED BY <1>10, <1>11 DEF SellerVerdict, checks

BuyerRefuses == \/ body.expiry = -1 \/ now >= body.expiry
                \/ body.signer # body.buyer
                \/ AtMostZero(body.perCall) \/ AtMostZero(body.daily)
                \/ Exceeds(price, body.perCall)

LEMMA BuyerVerdictIs ==
    BuyerVerdict = OK <=> ~BuyerRefuses
  <1> DEFINE checks == <<
        Check(body.expiry = -1 \/ now >= body.expiry, 0, "mandate_expired"),
        Check(body.signer # body.buyer, 0, "mandate_signer_mismatch"),
        Check(AtMostZero(body.perCall) \/ AtMostZero(body.daily), 0, "mandate_invalid_caps"),
        Check(Exceeds(price, body.perCall), 0, "price_exceeds_mandate")>>
  <1>1. /\ DOMAIN checks = 1 .. 4
        /\ checks[1] = Check(body.expiry = -1 \/ now >= body.expiry, 0, "mandate_expired")
        /\ checks[2] = Check(body.signer # body.buyer, 0, "mandate_signer_mismatch")
        /\ checks[3] = Check(AtMostZero(body.perCall) \/ AtMostZero(body.daily), 0, "mandate_invalid_caps")
        /\ checks[4] = Check(Exceeds(price, body.perCall), 0, "price_exceeds_mandate")
    OBVIOUS
  <1> HIDE DEF checks
  <1>2. checks[1].fails = (body.expiry = -1 \/ now >= body.expiry) /\ checks[1].status # 200
    BY <1>1, CheckIs
  <1>3. checks[2].fails = (body.signer # body.buyer) /\ checks[2].status # 200
    BY <1>1, CheckIs
  <1>4. checks[3].fails = (AtMostZero(body.perCall) \/ AtMostZero(body.daily)) /\ checks[3].status # 200
    BY <1>1, CheckIs
  <1>5. checks[4].fails = Exceeds(price, body.perCall) /\ checks[4].status # 200
    BY <1>1, CheckIs
  <1>6. \A i \in 1 .. 4 : checks[i].status # 200
    BY <1>2, <1>3, <1>4, <1>5
  <1>7. FirstFailing(checks) = OK <=> \A i \in 1 .. 4 : ~checks[i].fails
    BY <1>1, <1>6, FirstFailingIs
  <1>8. (\A i \in 1 .. 4 : ~checks[i].fails) <=> ~BuyerRefuses
    <2>1. (\A i \in 1 .. 4 : ~checks[i].fails)
              <=> ~checks[1].fails /\ ~checks[2].fails /\ ~checks[3].fails /\ ~checks[4].fails
      <3>1. \A i \in 1 .. 4 : i = 1 \/ i = 2 \/ i = 3 \/ i = 4
        OBVIOUS
      <3> QED BY <3>1
    <2> QED BY <1>2, <1>3, <1>4, <1>5, <2>1, Zenon DEF BuyerRefuses
  <1> QED BY <1>7, <1>8 DEF BuyerVerdict, checks

-----------------------------------------------------------------------------
(* What the verdicts that were given still say.                            *)

MandateInv == /\ now \in Nat /\ price \in Nat /\ body \in Body
              /\ step \in {"verify", "present", "answered"}
              /\ step = "answered" => verdict = SellerVerdict
              /\ mine = OK => ~(body.signer # body.buyer \/ AtMostZero(body.perCall) \/ AtMostZero(body.daily)
                                     \/ Exceeds(price, body.perCall))

LEMMA InitMandateInv == MandateInit => MandateInv
  BY MandateAssumption DEF MandateInit, MandateInv, Unasked, OK

LEMMA NextMandateInv == MandateInv /\ [MandateNext]_mandateVars => MandateInv'
  <1> SUFFICES ASSUME MandateInv, [MandateNext]_mandateVars PROVE MandateInv'
    OBVIOUS
  <1> USE DEF request
  <1>1. CASE Verify
    <2>1. mine' = OK => ~BuyerRefuses
      BY <1>1, BuyerVerdictIs DEF Verify
    <2> QED BY <1>1, <2>1 DEF MandateInv, Verify, BuyerRefuses
  <1>2. CASE Present
    <2>1. SellerVerdict' = SellerVerdict
      BY <1>2 DEF Present, SellerVerdict, IdentityChecks, ScopeChecks, Malformed, TooExpensive
    <2> QED BY <1>2, <2>1 DEF MandateInv, Present
  <1>3. CASE Tick
    BY <1>3 DEF MandateInv, Tick
  <1>4. CASE UNCHANGED mandateVars
    <2>1. SellerVerdict' = SellerVerdict
      BY <1>4 DEF mandateVars, SellerVerdict, IdentityChecks, ScopeChecks, Malformed, TooExpensive
    <2> QED BY <1>4, <2>1 DEF MandateInv, mandateVars
  <1> QED BY <1>1, <1>2, <1>3, <1>4 DEF MandateNext

THEOREM MandateInvariance == MandateSpec => []MandateInv
  BY InitMandateInv, NextMandateInv, PTL DEF MandateSpec

\* mandate.ts:103-165: what the seller accepts is signed by its holder, funded by
\* it, in scope, in time and not for another seller, whatever the buyer checked.
THEOREM OnlyTheAuthorized == MandateSpec => []AcceptedIsAuthorized
  <1>1. MandateInv => AcceptedIsAuthorized
    <2> SUFFICES ASSUME MandateInv, step = "answered", verdict = OK
                 PROVE  /\ body.signer = body.buyer /\ payer \in {UnknownPayer, body.buyer}
                        /\ now < body.expiry
                        /\ price <= body.perCall /\ body.perCall > 0 /\ body.daily > 0
                        /\ body.seller \in {at, NoOrigin}
      BY DEF AcceptedIsAuthorized
    <2>1. ~SellerRefuses
      BY SellerVerdictIs DEF MandateInv
    <2>2. body.perCall \in Int /\ body.daily \in Int
      <3>1. body.perCall \in Cap /\ body.daily \in Cap
        BY <2>1 DEF MandateInv, Body, SellerRefuses, Malformed
      <3> QED BY <3>1, MandateAssumption
    <2>3. now \in Int /\ price \in Int /\ body.expiry \in Int
      BY MandateAssumption DEF MandateInv, Body
    <2> QED BY <2>1, <2>2, <2>3 DEF SellerRefuses, Malformed, AtMostZero, TooExpensive, Exceeds, MandateInv
  <1> QED BY <1>1, MandateInvariance, PTL

\* mandate.mjs and mandate.ts agree: what its holder found good is accepted
\* where and while it is valid.
THEOREM GoodIsAccepted == MandateSpec => []GoodMandateIsAccepted
  <1>1. MandateInv => GoodMandateIsAccepted
    <2> SUFFICES ASSUME MandateInv, step = "answered", mine = OK, payer \in {UnknownPayer, body.buyer},
                        body.seller = at, ~Malformed, now < body.expiry
                 PROVE  verdict = OK
      BY DEF GoodMandateIsAccepted
    <2>1. body.expiry \in Int /\ now \in Int
      BY MandateAssumption DEF MandateInv, Body
    <2>2. ~SellerRefuses
      BY <2>1 DEF MandateInv, SellerRefuses, TooExpensive
    <2> QED BY <2>2, SellerVerdictIs DEF MandateInv
  <1> QED BY <1>1, MandateInvariance, PTL

-----------------------------------------------------------------------------
(* The sale: the gate's side of it.                                        *)

\* What is proved of the gate, for the requests of this buyer.
GP == INSTANCE PaidRouteProofs WITH pc <- gate, Proof <- Attempt, Resources <- {"readings"},
                             Mandates <- {"good"}, Mismatched <- {}, Unverifiable <- {},
                             RequireMandate <- TRUE

\* ... and of the buyer, for this seller.
BP == INSTANCE BuyerAgentProofs WITH
        Key <- {1}, NoKey <- 0, Malformed <- 2, Unusable <- 3, FirstKey <- 1, SellerSecrets <- {1},
        Forgeries <- {},
        ListPrice <- <<Price>>, Prices <- {Price}, PriceLists <- {<<Price>>},
        MaxPerCall <- Price, MandateLife <- 1, Day <- 1, Lag <- 0,
        MaxTime <- Still, MaxAttempts <- Begun,
        events <- Events, now <- 0, price <- [s \in {1} |-> Price], secret <- 1,
        published <- {[key |-> 1, offers |-> <<Price>>]}, pinned <- 1,
        flight <- Flight, late <- Late, charges <- Spent

\* The ledger counts attempt n as spent.
Recorded(n) == \E e \in ledger : e.n = n /\ e.result \in B!SpendResults

\* The two requests of an attempt come one after the other and carry what the
\* buyer gave them; the purchase in hand is one the buyer could begin.
Orderly ==
    /\ deal.n \in 0 .. MaxAttempts
    /\ pc # "off" => expiry = 1
    /\ pc = "paying" => deal.n \in Attempt /\ deal.skill = 1
    /\ \A n \in Attempt :
          /\ gate[Ask(n)] # "idle" => req[Ask(n)].header.proof = NoProof
          /\ gate[Pay(n)] # "idle" => /\ req[Pay(n)].header.proof = n /\ n <= deal.n
                                      /\ gate[Ask(n)] = "paymentRequired"
    /\ \A r \in Request : req[r].resource = "readings"
    /\ \A r \in Request : gate[r] = "facilitatorError" => "call" \in faults

\* What was paid, or may still be, is recorded, awaited or hidden by a 503.
Accounted == \A n \in Attempt :
    Charged(n) \/ Open(n) => Recorded(n) \/ Paying(n) \/ gate[Pay(n)] = "facilitatorError"

SaleInv == GP!Inv /\ Orderly /\ Accounted

\* The gate of this sale is one PaidRouteProofs is about.
LEMMA Assumed == GP!PaidRouteAssumption
  BY SaleAssumption DEF G!PaidRouteAssumption, GP!PaidRouteAssumption, G!FaultKinds, GP!FaultKinds

\* Each attempt has two requests of its own, and there are no others.
LEMMA Requests ==
    /\ \A n \in Attempt : Ask(n) \in Request /\ Pay(n) \in Request
    /\ \A n, m \in Attempt : /\ Ask(n) # Pay(m)
                             /\ Pay(n) = Pay(m) => n = m
                             /\ Ask(n) = Ask(m) => n = m
    /\ \A r \in Request : \E n \in Attempt : r = Ask(n) \/ r = Pay(n)
  <1> USE SaleAssumption DEF Attempt, Request, Ask, Pay
  <1>1. \A n \in Attempt : Ask(n) \in Request /\ Pay(n) \in Request
    OBVIOUS
  <1>2. \A n, m \in Attempt : /\ Ask(n) # Pay(m)
                              /\ Pay(n) = Pay(m) => n = m
                              /\ Ask(n) = Ask(m) => n = m
    OBVIOUS
  <1>3. ASSUME NEW r \in Request PROVE \E n \in Attempt : r = Ask(n) \/ r = Pay(n)
    <2> DEFINE n == (r + 1) \div 2
    <2>1. n \in Attempt /\ (r = 2 * n \/ r = 2 * n - 1)
      OBVIOUS
    <2> QED BY <2>1
  <1> QED BY <1>1, <1>2, <1>3

\* The gate's state, in the definitions Sale uses.
LEMMA GateTypes ==
    ASSUME GP!Inv
    PROVE  /\ gate \in [Request -> G!Steps \cup G!Ended]
           /\ req \in [Request -> G!Arrival]
           /\ settlement \in [Request -> G!Outcomes]
           /\ charges \subseteq [proof : Attempt, request : Request]
           /\ faults \subseteq {"kv", "stale", "call", "abort", "expire"}
  BY Assumed DEF GP!Inv, GP!TypeOK, GP!Receipt, GP!Steps, G!Steps, GP!Ended, G!Ended, GP!Refusals, G!Refusals,
     GP!Outcomes, G!Outcomes, GP!Arrival, G!Arrival, GP!NoHeader, G!NoHeader,
     GP!Resource, G!Resource, GP!PaidRouteAssumption, GP!FaultKinds

\* What has become of the payment of attempt n.
LEMMA PaymentIs ==
    ASSUME GP!Inv, Orderly, NEW n \in Attempt
    PROVE  /\ Charged(n) <=> settlement[Pay(n)] = "success"
           /\ \A c \in charges : c.proof = n => c.request = Pay(n)
           /\ gate[Pay(n)] = "data" => settlement[Pay(n)] = "success"
           /\ gate[Pay(n)] \in GP!Refusals \ {"aborted", "facilitatorError"} =>
                ~Charged(n) /\ ~Open(n)
           /\ gate[Pay(n)] = "idle" => settlement[Pay(n)] = "none" /\ ~Charged(n) /\ ~Open(n)
           /\ Open(n) => ~Charged(n) /\ gate[Pay(n)] # "idle"
           /\ settlement[Ask(n)] = "none"
           /\ gate[Ask(n)] # "data"
  <1> USE DEF GP!ProofOf, GP!ReceiptOf
  <1>1. /\ gate \in [Request -> GP!Steps \cup GP!Ended]
        /\ settlement \in [Request -> GP!Outcomes]
        /\ charges \subseteq [proof : Attempt, request : Request]
    BY DEF GP!Inv, GP!TypeOK, GP!Receipt
  <1>2. \A c \in charges : c.proof = req[c.request].header.proof /\ settlement[c.request] = "success"
    BY DEF GP!Inv, GP!ChargeIsSettlement
  <1>3. \A r \in Request : settlement[r] = "success" =>
            \E c \in charges : c.proof = req[r].header.proof /\ c.request = r
    BY DEF GP!Inv, GP!ChargeIsSettlement
  <1>4. \A r \in Request : /\ settlement[r] # "none" => gate[r] \in GP!Settling
                           /\ gate[r] \in GP!Sold => settlement[r] = "success"
                           /\ gate[r] = "settlementFailed" => settlement[r] = "failure"
                           /\ gate[r] = "serverError" => settlement[r] = "none"
    <2>1. \A r \in Request : GP!CallRejected(r) = "facilitatorError"
      BY DEF GP!CallRejected, GP!Gated, Orderly
    <2> QED BY <2>1 DEF GP!Inv, GP!StepMatchesSettlement
  <1>5. \A r \in Request : settlement[r] # "none" => req[r].header.proof \in Attempt
    BY DEF GP!Inv, GP!GateOrder
  <1>6. \A m \in Attempt : settlement[Ask(m)] = "none"
    <2>1. SUFFICES ASSUME NEW m \in Attempt, settlement[Ask(m)] # "none" PROVE FALSE
      OBVIOUS
    <2>2. req[Ask(m)].header.proof \in Attempt /\ gate[Ask(m)] # "idle"
      BY <2>1, <1>4, <1>5, Requests DEF GP!Settling
    <2>3. req[Ask(m)].header.proof = 0
      BY <2>2 DEF Orderly, NoProof
    <2> QED BY <2>2, <2>3, SaleAssumption DEF Attempt
  <1>7. \A c \in charges : c.request = Pay(c.proof)
    <2> SUFFICES ASSUME NEW c \in charges PROVE c.request = Pay(c.proof)
      OBVIOUS
    <2>1. c.request \in Request /\ settlement[c.request] = "success" /\ c.proof = req[c.request].header.proof
      BY <1>1, <1>2
    <2>2. PICK m \in Attempt : c.request = Ask(m) \/ c.request = Pay(m)
      BY <2>1, Requests
    <2>3. c.request = Pay(m)
      BY <2>1, <2>2, <1>6
    <2>4. gate[Pay(m)] # "idle"
      BY <2>1, <2>3, <1>4 DEF GP!Settling
    <2>5. req[Pay(m)].header.proof = m
      BY <2>4 DEF Orderly
    <2> QED BY <2>1, <2>3, <2>5
  <1>8. Charged(n) <=> settlement[Pay(n)] = "success"
    <2>1. ASSUME Charged(n) PROVE settlement[Pay(n)] = "success"
      BY <2>1, <1>2, <1>7 DEF Charged
    <2>2. ASSUME settlement[Pay(n)] = "success" PROVE Charged(n)
      <3>1. Pay(n) \in Request
        BY Requests
      <3>2. PICK c \in charges : c.request = Pay(n) /\ c.proof = req[Pay(n)].header.proof
        BY <2>2, <3>1, <1>3
      <3>3. gate[Pay(n)] # "idle"
        BY <2>2, <3>1, <1>4 DEF GP!Settling
      <3>4. req[Pay(n)].header.proof = n
        BY <3>3 DEF Orderly
      <3> QED BY <3>2, <3>4 DEF Charged
    <2> QED BY <2>1, <2>2
  <1>9. gate[Pay(n)] = "idle" \/ gate[Pay(n)] \in GP!Refusals \ {"aborted", "facilitatorError", "settlementFailed"}
            => settlement[Pay(n)] = "none"
    BY <1>4, Requests DEF GP!Settling, GP!Refusals
  <1>10. gate[Pay(n)] \in GP!Refusals => ~G!InFlight(Pay(n))
    BY DEF GP!Refusals, G!InFlight, G!Steps
  <1>11. gate[Pay(n)] = "settlementFailed" => settlement[Pay(n)] = "failure"
    BY <1>4, Requests
  <1>12. gate[Pay(n)] = "data" => settlement[Pay(n)] = "success"
    BY <1>4, Requests DEF GP!Sold
  <1>13. gate[Ask(n)] # "data"
    BY <1>4, <1>6, Requests DEF GP!Sold
  <1>14. settlement[Pay(n)] = "none" => ~Charged(n)
    BY <1>8
  <1> QED BY <1>6, <1>7, <1>8, <1>9, <1>10, <1>11, <1>12, <1>13 DEF Open, G!InFlight

\* G and GP are the gate under two names; what a step of the one does, a step of
\* the other does.
LEMMA SameGateActions ==
    ASSUME NEW r \in Request
    PROVE  /\ G!Arrive(r) => GP!Arrive(r)
           /\ G!Progress(r) => GP!Progress(r)
           /\ G!Facilitator(r) => GP!Facilitator(r)
           /\ G!Abort(r) => GP!Abort(r)
  <1> USE DEF G!Goto, GP!Goto, G!kvVars, GP!kvVars, G!keyVars, GP!keyVars, G!logVars, GP!logVars,
          G!reqVars, GP!reqVars, G!moneyVars, GP!moneyVars,
          G!ProofOf, GP!ProofOf, G!ReceiptOf, GP!ReceiptOf
  <1>1. G!Arrive(r) => GP!Arrive(r)
    BY DEF G!Arrive, GP!Arrive, G!Arrival, GP!Arrival, G!NoHeader, GP!NoHeader,
       G!Resource, GP!Resource, G!Gated, GP!Gated
  <1>2. G!Progress(r) => GP!Progress(r)
    BY DEF G!Progress, GP!Progress, G!Validate, GP!Validate, G!EnforceRateLimit, GP!EnforceRateLimit,
       G!CheckMandate, GP!CheckMandate, G!Screen, GP!Screen, G!Verify, GP!Verify,
       G!CallRejected, GP!CallRejected, G!MayFind, GP!MayFind, G!MayMiss, GP!MayMiss,
       G!ReplayGet, GP!ReplayGet, G!ReplayPut, GP!ReplayPut, G!Work, GP!Work,
       G!WorkReading, GP!WorkReading, G!WorkInference, GP!WorkInference, G!WorkLegacy, GP!WorkLegacy,
       G!Submit, GP!Submit, G!Settled, GP!Settled, G!SettleCallRejects, GP!SettleCallRejects,
       G!LogGet, GP!LogGet, G!LogPut, GP!LogPut, G!EventPut, GP!EventPut,
       G!InputRefused, GP!InputRefused, G!HasKV, GP!HasKV, G!Recordable, GP!Recordable,
       G!Gated, GP!Gated, G!AfterRecording, GP!AfterRecording, G!Newest, GP!Newest,
       G!Readable, GP!Readable
  <1>3. G!Facilitator(r) => GP!Facilitator(r)
    BY DEF G!Facilitator, GP!Facilitator, G!ChainSettles, GP!ChainSettles, G!ChainRejects, GP!ChainRejects
  <1>4. G!Abort(r) => GP!Abort(r)
    BY DEF G!Abort, GP!Abort, G!InFlight, GP!InFlight, G!Steps, GP!Steps
  <1> QED BY <1>1, <1>2, <1>3, <1>4

\* A step the seller takes by itself moves one request on; whatever it does, a
\* transfer that was not possible does not become so.
LEMMA SellerMoves ==
    ASSUME GP!Inv, NEW r \in Request, GP!Progress(r) \/ GP!Abort(r)
    PROVE  /\ charges' = charges /\ req' = req
           /\ gate[r] \in GP!Steps \ {"idle"}
           /\ \E where \in (GP!Steps \cup GP!Ended) \ {"idle"} :
                 /\ gate' = [gate EXCEPT ![r] = where]
                 /\ where = "facilitatorError" => "call" \in faults
                 /\ \/ settlement' = settlement
                    \/ settlement[r] = "none" /\ settlement' = [settlement EXCEPT ![r] = "submitted"]
  <1> USE DEF GP!TypeOK, GP!Goto, GP!kvVars, GP!reqVars, GP!moneyVars, GP!Steps, GP!Ended, GP!Refusals,
          GP!CallRejected
  <1>1. CASE GP!Validate(r) \/ GP!EnforceRateLimit(r)
    BY <1>1 DEF GP!Validate, GP!EnforceRateLimit
  <1>2. CASE GP!CheckMandate(r) \/ GP!Screen(r)
    BY <1>2 DEF GP!CheckMandate, GP!Screen
  <1>3. CASE GP!Verify(r)
    BY <1>3 DEF GP!Verify
  <1>4. CASE GP!ReplayGet(r) \/ GP!ReplayPut(r)
    BY <1>4 DEF GP!ReplayGet, GP!ReplayPut
  <1>5. CASE GP!Work(r)
    BY <1>5 DEF GP!Work, GP!WorkReading, GP!WorkInference, GP!WorkLegacy
  <1>6. CASE GP!Submit(r)
    <2>1. settlement[r] = "none"
      BY <1>6 DEF GP!Submit, GP!Inv, GP!StepMatchesSettlement, GP!Settling
    <2> QED BY <1>6, <2>1 DEF GP!Submit
  <1>7. CASE GP!Settled(r)
    <2>1. GP!Goto(r, "logGet") \/ GP!Goto(r, "data") \/ GP!Goto(r, "settlementFailed")
      BY <1>7 DEF GP!Settled
    <2> QED BY <1>7, <2>1 DEF GP!Settled
  <1>8. CASE GP!SettleCallRejects(r)
    BY <1>8 DEF GP!SettleCallRejects
  <1>9. CASE GP!LogGet(r) \/ GP!LogPut(r) \/ GP!EventPut(r)
    BY <1>9 DEF GP!LogGet, GP!LogPut, GP!EventPut, GP!AfterRecording
  <1>10. CASE GP!Abort(r)
    BY <1>10 DEF GP!Abort, GP!InFlight
  <1> QED BY <1>1, <1>2, <1>3, <1>4, <1>5, <1>6, <1>7, <1>8, <1>9, <1>10 DEF GP!Progress

\* What the answer to attempt n tells of its payment.
LEMMA AnswerTells ==
    ASSUME GP!Inv, Orderly, NEW n \in Attempt
    PROVE  /\ Answer(n, {"data"}) => gate[Pay(n)] = "data"
           /\ Answer(n, Answers503) => \/ ~Charged(n) /\ ~Open(n)
                                       \/ gate[Pay(n)] = "facilitatorError" /\ "call" \in faults
           /\ Answer(n, AnswersOther) => ~Charged(n) /\ ~Open(n)
  <1>1. gate[Ask(n)] # "idle" /\ gate[Ask(n)] # "paymentRequired" => ~Charged(n) /\ ~Open(n)
    BY PaymentIs DEF Orderly
  <1>2. Answer(n, {"data"}) => gate[Pay(n)] = "data"
    BY PaymentIs DEF Answer
  <1>3. ASSUME Answer(n, Answers503)
        PROVE  \/ ~Charged(n) /\ ~Open(n)
               \/ gate[Pay(n)] = "facilitatorError" /\ "call" \in faults
    <2>1. CASE gate[Ask(n)] \in Answers503
      BY <1>1, <2>1 DEF Answers503
    <2>2. CASE gate[Pay(n)] \in {"limited", "handlerError"}
      BY <2>2, PaymentIs DEF GP!Refusals
    <2>3. CASE gate[Pay(n)] = "facilitatorError"
      BY <2>3, Requests DEF Orderly
    <2> QED BY <1>3, <2>1, <2>2, <2>3 DEF Answer, Answers503
  <1>4. ASSUME Answer(n, AnswersOther) PROVE ~Charged(n) /\ ~Open(n)
    <2>1. CASE gate[Ask(n)] \in AnswersOther \ {"paymentRequired"}
      BY <1>1, <2>1 DEF AnswersOther, G!Refusals
    <2>2. CASE gate[Pay(n)] \in AnswersOther
      BY <2>2, PaymentIs DEF AnswersOther, G!Refusals, GP!Refusals
    <2> QED BY <1>4, <2>1, <2>2 DEF Answer
  <1> QED BY <1>2, <1>3, <1>4

\* Every step of the sale is one of the gate's, or leaves the gate alone.
LEMMA StepOfGate == [Next]_vars => [GP!Next]_(GP!vars)
  <1> SUFFICES ASSUME [Next]_vars PROVE [GP!Next]_(GP!vars)
    OBVIOUS
  <1>1. CASE UNCHANGED gateVars
    BY <1>1 DEF gateVars, GP!vars
  <1>2. ASSUME NEW r \in Request, faults' = faults,
               G!Arrive(r) \/ G!Progress(r) \/ G!Facilitator(r) \/ G!Abort(r)
        PROVE  GP!Next
    BY <1>2, SameGateActions DEF GP!Next
  <1>3. CASE SendRequest \/ SendPayment
    BY <1>2, <1>3, Requests DEF SendRequest, SendPayment, Send
  <1>4. CASE \E r \in Request : Serve(r) \/ Facilitate(r) \/ Drop(r)
    BY <1>2, <1>4 DEF Serve, Facilitate, Drop
  <1> QED BY <1>1, <1>3, <1>4 DEF Next, Buyer, Prepare, TakeAnswer, LoseAnswer, Take, vars

\* However a purchase is answered, it is over, and the gate is not touched.
LEMMA TakeMoves ==
    ASSUME TakeAnswer \/ LoseAnswer
    PROVE  /\ pc = "paying" /\ pc' \in {"interval", "backoff", "paused"}
           /\ UNCHANGED <<gateVars, deal, expiry>>
  BY DEF TakeAnswer, LoseAnswer, Take, B!Take200, B!Take503, B!TakeOther, B!TakeNothing,
     B!Answered, B!CountError, B!process

LEMMA ChooseMoves ==
    ASSUME B!Choose, deal.n \in 0 .. MaxAttempts
    PROVE  /\ deal'.n = deal.n + 1 /\ deal'.n \in Attempt /\ deal'.skill = 1
           /\ pc = "choose" /\ expiry' = expiry
           /\ \A e \in ledger : e \in ledger'
  <1>1. PICK accepted \in B!Accepted : \E offer \in B!Affordable(accepted) :
            deal' = [n |-> deal.n + 1, skill |-> offer.skill, price |-> offer.price]
    BY DEF B!Choose
  <1>2. PICK offer \in B!Affordable(accepted) :
            deal' = [n |-> deal.n + 1, skill |-> offer.skill, price |-> offer.price]
    BY <1>1
  <1>3. B!Skill = {1}
    BY DEF B!Skill
  <1>4. offer.skill = 1
    BY <1>3, <1>2 DEF B!Affordable, B!Accepted
  <1>5. deal.n < MaxAttempts
    BY DEF B!Choose, Begun
  <1>6. deal.n + 1 \in Attempt
    BY <1>5, SaleAssumption DEF Attempt
  <1> QED BY <1>2, <1>4, <1>6 DEF B!Choose, B!process

\* Between purchases nothing is paid for, and the ledger only grows.
LEMMA PrepareMoves ==
    ASSUME Prepare, Orderly
    PROVE  /\ pc # "paying" /\ UNCHANGED gateVars
           /\ deal'.n \in 0 .. MaxAttempts /\ deal'.n >= deal.n
           /\ pc' # "off" => expiry' = 1
           /\ pc' = "paying" => deal'.n \in Attempt /\ deal'.n = deal.n + 1 /\ deal'.skill = 1
           /\ \A e \in ledger : e \in ledger'
  <1> USE DEF Orderly
  <1>0. UNCHANGED gateVars
    BY DEF Prepare
  <1>1. CASE B!Launch
    BY <1>0, <1>1, SaleAssumption DEF B!Launch, B!NoDeal
  <1>2. CASE B!Begin
    BY <1>0, <1>2, SaleAssumption DEF B!Begin, B!Stop, B!process
  <1>3. CASE B!Discover
    BY <1>0, <1>3, SaleAssumption DEF B!Discover, B!Stop, B!CountError, B!process
  <1>4. CASE B!Choose
    BY <1>0, <1>4, ChooseMoves, SaleAssumption DEF Attempt
  <1>5. CASE B!Resume
    BY <1>0, <1>5, SaleAssumption DEF B!Resume, B!process
  <1> QED BY <1>1, <1>2, <1>3, <1>4, <1>5 DEF Prepare

\* A request that is sent was not sent before, and carries what the buyer says.
LEMMA SendMoves ==
    ASSUME GP!Inv, NEW r \in Request, NEW header, Send(r, header)
    PROVE  /\ gate[r] = "idle" /\ UNCHANGED <<faults, settlement, charges, buyerVars>>
           /\ \E where \in {"verify", "validate"} : gate' = [gate EXCEPT ![r] = where]
           /\ req'[r].header = header /\ req'[r].resource = "readings"
           /\ \A s \in Request \ {r} : req'[s] = req[s]
  <1>1. PICK a \in G!Arrival : /\ req' = [req EXCEPT ![r] = a]
                               /\ G!Goto(r, IF a.resource = "legacy" THEN "verify" ELSE "validate")
    BY DEF Send, G!Arrive
  <1>2. \A s \in Request \ {r} : req'[s] = req[s]
    BY <1>1, GateTypes
  <1>3. \E where \in {"verify", "validate"} : gate' = [gate EXCEPT ![r] = where]
    BY <1>1 DEF G!Goto
  <1>4. req'[r].header = header /\ req'[r].resource = "readings"
    BY DEF Send
  <1>5. gate[r] = "idle" /\ UNCHANGED <<faults, settlement, charges, buyerVars>>
    BY DEF Send, G!Arrive, G!moneyVars
  <1> QED BY <1>2, <1>3, <1>4, <1>5

\* The second request follows the first (agent.mjs:255-300), whatever else happens.
LEMMA NextOrderly == GP!Inv /\ Orderly /\ [Next]_vars => Orderly'
  <1> SUFFICES ASSUME GP!Inv, Orderly, [Next]_vars PROVE Orderly'
    OBVIOUS
  <1> USE DEF Orderly, gateVars, buyerVars
  <1>1. CASE Prepare
    <2>1. \A n \in Attempt : n <= deal.n => n <= deal'.n
      BY <1>1, PrepareMoves, SaleAssumption DEF Attempt
    <2> QED BY <1>1, <2>1, PrepareMoves
  <1>2. CASE TakeAnswer \/ LoseAnswer
    BY <1>2, TakeMoves
  <1>3. CASE SendRequest
    <2>1. PICK n \in Attempt : Send(Ask(n), G!NoHeader)
      BY <1>3 DEF SendRequest
    <2>2. gate[Ask(n)] = "idle" /\ gate[Pay(n)] = "idle"
      BY <2>1, SendMoves, Requests
    <2>3. G!NoHeader.proof = NoProof
      BY DEF G!NoHeader
    <2> QED BY <2>1, <2>2, <2>3, SendMoves, Requests, GateTypes
  <1>4. CASE SendPayment
    <2>1. PICK n \in Attempt, h \in Header : /\ Paying(n) /\ gate[Ask(n)] = "paymentRequired"
                                              /\ h.proof = n /\ Send(Pay(n), h)
      BY <1>4 DEF SendPayment
    <2>2. n <= deal.n
      BY <2>1, SaleAssumption DEF Paying, Attempt
    <2> QED BY <2>1, <2>2, SendMoves, Requests, GateTypes
  <1>5. ASSUME NEW r \in Request, Serve(r) \/ Drop(r) PROVE Orderly'
    <2>1. GP!Progress(r) \/ GP!Abort(r)
      BY <1>5, SameGateActions DEF Serve, Drop
    <2>2. req' = req /\ gate[r] \in GP!Steps \ {"idle"}
      BY <2>1, SellerMoves
    <2>3. PICK where \in (GP!Steps \cup GP!Ended) \ {"idle"} :
              gate' = [gate EXCEPT ![r] = where] /\ (where = "facilitatorError" => "call" \in faults)
      BY <2>1, SellerMoves
    <2>4. \A n \in Attempt : gate[Ask(n)] = "paymentRequired" => Ask(n) # r
      BY <2>2 DEF GP!Steps
    <2>5. UNCHANGED <<faults, pc, deal, expiry>>
      BY <1>5 DEF Serve, Drop
    <2>6. \A s \in Request : gate'[s] = IF s = r THEN where ELSE gate[s]
      BY <2>3, GateTypes
    <2>7. \A n \in Attempt : /\ gate'[Ask(n)] # "idle" => gate[Ask(n)] # "idle"
                             /\ gate'[Pay(n)] # "idle" => gate[Pay(n)] # "idle"
      BY <2>2, <2>6, Requests
    <2> QED BY <2>2, <2>3, <2>4, <2>5, <2>6, <2>7, Requests
  <1>6. ASSUME NEW r \in Request, Facilitate(r) PROVE Orderly'
    BY <1>6 DEF Facilitate, G!Facilitator, G!ChainSettles, G!ChainRejects, G!reqVars
  <1>7. CASE UNCHANGED vars
    BY <1>7 DEF vars
  <1> QED BY <1>1, <1>2, <1>3, <1>4, <1>5, <1>6, <1>7 DEF Next, Buyer

\* What a step of the seller's does to the payment of each attempt.
LEMMA SellerPayments ==
    ASSUME GP!Inv, Orderly, NEW r \in Request, Serve(r) \/ Drop(r)
    PROVE  /\ UNCHANGED <<faults, req, charges, buyerVars>>
           /\ \A n \in Attempt :
                /\ Open(n)' => Open(n)
                /\ Pay(n) # r => Open(n)' = Open(n)
                /\ (gate[Pay(n)] = "idle")' = (gate[Pay(n)] = "idle")
                /\ gate[Pay(n)] = "facilitatorError" => gate'[Pay(n)] = "facilitatorError"
  <1>1. GP!Progress(r) \/ GP!Abort(r)
    BY SameGateActions DEF Serve, Drop
  <1>2. charges' = charges /\ req' = req /\ gate[r] \in GP!Steps \ {"idle"}
    BY <1>1, SellerMoves
  <1>3. PICK where \in (GP!Steps \cup GP!Ended) \ {"idle"} :
            /\ gate' = [gate EXCEPT ![r] = where]
            /\ \/ settlement' = settlement
               \/ settlement[r] = "none" /\ settlement' = [settlement EXCEPT ![r] = "submitted"]
    BY <1>1, SellerMoves
  <1>4. G!InFlight(r)
    BY <1>2 DEF G!InFlight, G!Steps, GP!Steps
  <1>5. \A s \in Request : /\ gate'[s] = IF s = r THEN where ELSE gate[s]
                           /\ s # r => settlement'[s] = settlement[s]
                           /\ \/ settlement'[r] = settlement[r]
                              \/ settlement[r] = "none" /\ settlement'[r] = "submitted"
    BY <1>3, GateTypes
  <1>6. ASSUME NEW n \in Attempt, Pay(n) # r PROVE Open(n)' = Open(n)
    BY <1>5, <1>6, Requests DEF Open, G!InFlight
  <1>7. ASSUME NEW n \in Attempt, Pay(n) = r PROVE Open(n)' => Open(n)
    BY <1>4, <1>5, <1>7 DEF Open
  <1>8. ASSUME NEW n \in Attempt
        PROVE  /\ (gate[Pay(n)] = "idle")' = (gate[Pay(n)] = "idle")
               /\ gate[Pay(n)] = "facilitatorError" => gate'[Pay(n)] = "facilitatorError"
    BY <1>2, <1>5, Requests DEF GP!Steps
  <1> QED BY <1>2, <1>6, <1>7, <1>8 DEF Serve, Drop

\* The facilitator works on one payment that is possible: it is made, or dropped.
LEMMA FacilitatorPays ==
    ASSUME GP!Inv, Orderly, NEW r \in Request, Facilitate(r)
    PROVE  /\ UNCHANGED <<faults, gate, req, buyerVars>>
           /\ \E n \in Attempt :
                /\ r = Pay(n) /\ settlement[Pay(n)] = "submitted"
                /\ Open(n) /\ ~Open(n)' /\ gate[Pay(n)] # "idle"
                /\ \A m \in Attempt \ {n} : Open(m)' = Open(m)
                /\ \/ charges' = charges
                   \/ charges' = charges \cup {[proof |-> n, request |-> r]}
  <1>1. UNCHANGED <<faults, gate, req, buyerVars>>
    BY DEF Facilitate, G!Facilitator, G!ChainSettles, G!ChainRejects, G!reqVars
  <1>2. PICK outcome \in {"success", "failure"} :
            /\ settlement[r] = "submitted"
            /\ settlement' = [settlement EXCEPT ![r] = outcome]
            /\ \/ charges' = charges
               \/ charges' = charges \cup {[proof |-> req[r].header.proof, request |-> r]}
    BY DEF Facilitate, G!Facilitator, G!ChainSettles, G!ChainRejects, G!ReceiptOf, G!ProofOf
  <1>3. PICK n \in Attempt : r = Ask(n) \/ r = Pay(n)
    BY Requests
  <1>4. r = Pay(n)
    BY <1>2, <1>3, PaymentIs
  <1>5. Open(n)
    BY <1>2, <1>4 DEF Open
  <1>6. gate[Pay(n)] # "idle"
    BY <1>5, PaymentIs
  <1>7. req[r].header.proof = n
    BY <1>4, <1>6 DEF Orderly
  <1>8. \A s \in Request : settlement'[s] = IF s = r THEN outcome ELSE settlement[s]
    BY <1>2, GateTypes
  <1>9. ~Open(n)'
    BY <1>4, <1>8 DEF Open
  <1>10. \A m \in Attempt \ {n} : Open(m)' = Open(m)
    BY <1>1, <1>4, <1>8, Requests DEF Open, G!InFlight
  <1> QED BY <1>1, <1>2, <1>4, <1>5, <1>6, <1>7, <1>9, <1>10

\* Sending a request asks for no transfer yet; the second one makes it possible.
LEMMA AskSent ==
    ASSUME GP!Inv, Orderly, NEW n \in Attempt, Send(Ask(n), G!NoHeader)
    PROVE  /\ UNCHANGED <<faults, charges, buyerVars>>
           /\ \A m \in Attempt : Open(m)' = Open(m) /\ gate'[Pay(m)] = gate[Pay(m)]
  <1>1. PICK where \in {"verify", "validate"} : gate' = [gate EXCEPT ![Ask(n)] = where]
    BY SendMoves, Requests
  <1>2. \A m \in Attempt : gate'[Pay(m)] = gate[Pay(m)]
    BY <1>1, GateTypes, Requests
  <1>3. UNCHANGED <<faults, settlement, charges, buyerVars>>
    BY SendMoves, Requests
  <1> QED BY <1>2, <1>3 DEF Open, G!InFlight

LEMMA PaymentSent ==
    ASSUME GP!Inv, Orderly, NEW n \in Attempt, NEW h \in Header, Send(Pay(n), h)
    PROVE  /\ UNCHANGED <<faults, charges, buyerVars>>
           /\ gate[Pay(n)] = "idle" /\ gate'[Pay(n)] # "idle"
           /\ \A m \in Attempt \ {n} : Open(m)' = Open(m) /\ gate'[Pay(m)] = gate[Pay(m)]
  <1>1. PICK where \in {"verify", "validate"} : gate' = [gate EXCEPT ![Pay(n)] = where]
    BY SendMoves, Requests
  <1>2. \A m \in Attempt \ {n} : gate'[Pay(m)] = gate[Pay(m)]
    BY <1>1, GateTypes, Requests
  <1>3. UNCHANGED <<faults, settlement, charges, buyerVars>>
    BY SendMoves, Requests
  <1>4. gate[Pay(n)] = "idle" /\ gate'[Pay(n)] # "idle"
    BY <1>1, GateTypes, SendMoves, Requests
  <1> QED BY <1>2, <1>3, <1>4 DEF Open, G!InFlight

\* No step loses sight of a payment that was made or is possible.
LEMMA NextAccounted ==
    GP!Inv /\ Orderly /\ Accounted /\ [Next]_vars => Accounted'
  <1> SUFFICES ASSUME GP!Inv, Orderly, Accounted, [Next]_vars PROVE Accounted'
    OBVIOUS
  <1>k. ASSUME \A e \in ledger : e \in ledger'
        PROVE  \A n \in Attempt : Recorded(n) => Recorded(n)'
    BY <1>k DEF Recorded, B!SpendResults
  <1>s. ASSUME UNCHANGED buyerVars
        PROVE  \A n \in Attempt : Recorded(n)' = Recorded(n) /\ Paying(n)' = Paying(n)
    BY <1>s DEF Recorded, Paying, buyerVars, B!SpendResults
  <1>c. ASSUME charges' = charges
        PROVE  \A n \in Attempt : Charged(n)' = Charged(n)
    BY <1>c DEF Charged
  <1>g. ASSUME UNCHANGED gateVars
        PROVE  \A n \in Attempt : /\ Charged(n)' = Charged(n) /\ Open(n)' = Open(n)
                                  /\ gate'[Pay(n)] = gate[Pay(n)]
    BY <1>g DEF Charged, Open, G!InFlight, gateVars
  <1>1. CASE Prepare
    <2>1. \A n \in Attempt : ~Paying(n)
      BY <1>1, PrepareMoves DEF Paying
    <2> QED BY <1>1, <2>1, <1>k, <1>g, PrepareMoves DEF Accounted
  <1>2. CASE TakeAnswer \/ LoseAnswer
    <2>1. \A e \in ledger : e \in ledger'
      BY <1>2 DEF TakeAnswer, LoseAnswer, Take, B!Take200, B!Take503, B!TakeOther, B!TakeNothing
    <2>2. deal.n \in Attempt /\ Paying(deal.n)
      BY <1>2, TakeMoves DEF Orderly, Paying
    <2>3. \A n \in Attempt \ {deal.n} : ~Paying(n)
      BY DEF Paying
    <2>4. \/ Recorded(deal.n)'
          \/ ~Charged(deal.n) /\ ~Open(deal.n)
          \/ gate[Pay(deal.n)] = "facilitatorError"
      <3>1. CASE Take(B!Take200) \/ Take(B!TakeNothing)
        <4>1. PICK result \in B!SpendResults : ledger' = ledger \cup {B!Entry(result)}
          BY <3>1 DEF Take, B!Take200, B!TakeNothing, B!SpendResults
        <4>2. /\ B!Entry(result) \in ledger'
              /\ B!Entry(result).n = deal.n /\ B!Entry(result).result = result
          BY <4>1 DEF B!Entry
        <4>3. deal' = deal
          BY <1>2, TakeMoves
        <4> QED BY <4>1, <4>2, <4>3 DEF Recorded, B!SpendResults
      <3>2. CASE TakeAnswer
        <4>1. CASE Answer(deal.n, Answers503)
          BY <4>1, <2>2, AnswerTells
        <4>2. CASE Answer(deal.n, AnswersOther)
          BY <4>2, <2>2, AnswerTells
        <4> QED BY <3>1, <3>2, <4>1, <4>2 DEF TakeAnswer, Paying
      <3> QED BY <1>2, <3>1, <3>2 DEF LoseAnswer
    <2> QED BY <1>2, <2>1, <2>2, <2>3, <2>4, <1>k, <1>g, TakeMoves DEF Accounted
  <1>3. CASE SendRequest
    <2>1. PICK n \in Attempt : Send(Ask(n), G!NoHeader)
      BY <1>3 DEF SendRequest
    <2> QED BY <2>1, AskSent, <1>s, <1>c DEF Accounted
  <1>4. CASE SendPayment
    <2>1. PICK n \in Attempt, h \in Header : Paying(n) /\ Send(Pay(n), h)
      BY <1>4 DEF SendPayment
    <2> QED BY <2>1, PaymentSent, <1>s, <1>c DEF Accounted
  <1>5. ASSUME NEW r \in Request, Serve(r) \/ Drop(r) PROVE Accounted'
    BY <1>5, <1>s, <1>c, SellerPayments DEF Accounted
  <1>6. ASSUME NEW r \in Request, Facilitate(r) PROVE Accounted'
    <2>1. PICK n \in Attempt :
              /\ r = Pay(n) /\ Open(n)
              /\ \A m \in Attempt \ {n} : Open(m)' = Open(m)
              /\ \/ charges' = charges
                 \/ charges' = charges \cup {[proof |-> n, request |-> r]}
      BY <1>6, FacilitatorPays
    <2>2. \A m \in Attempt \ {n} : Charged(m)' => Charged(m)
      BY <2>1 DEF Charged
    <2>3. UNCHANGED <<gate, buyerVars>>
      BY <1>6, FacilitatorPays
    <2> QED BY <2>1, <2>2, <2>3, <1>s DEF Accounted
  <1>7. CASE UNCHANGED vars
    BY <1>7, <1>g, <1>s DEF Accounted, vars
  <1> QED BY <1>1, <1>2, <1>3, <1>4, <1>5, <1>6, <1>7 DEF Next, Buyer

-----------------------------------------------------------------------------
(* The refinement: what the buyer sees of its seller.                      *)

\* The seller may still make the payment of n, which the buyer has given up.
Owed(n) == ~Paying(n) /\ Open(n)
Debt(n) == [n |-> n, amount |-> Price, until |-> 0]

LEMMA LateIs ==
    /\ (\A m \in Attempt : Owed(m)' = Owed(m)) => Late' = Late
    /\ \A n \in Attempt : (\A m \in Attempt \ {n} : Owed(m)' = Owed(m)) =>
          /\ Owed(n) /\ ~Owed(n)' => Debt(n) \in Late /\ Late' = Late \ {Debt(n)}
          /\ ~Owed(n) /\ Owed(n)' => Late' = Late \cup {Debt(n)}
  <1>1. Late = {Debt(n) : n \in {m \in Attempt : Owed(m)}}
    BY DEF Late, Debt, Owed
  <1>2. Late' = {Debt(n) : n \in {m \in Attempt : Owed(m)'}}
    BY DEF Late, Debt, Owed
  <1>3. \A n, m \in Attempt : Debt(n) = Debt(m) => n = m
    <2> SUFFICES ASSUME NEW n \in Attempt, NEW m \in Attempt, Debt(n) = Debt(m) PROVE n = m
      OBVIOUS
    <2>1. Debt(n).n = n /\ Debt(m).n = m
      BY DEF Debt
    <2> QED BY <2>1
  <1>4. (\A m \in Attempt : Owed(m)' = Owed(m)) => Late' = Late
    BY <1>1, <1>2
  <1>5. ASSUME NEW n \in Attempt, \A m \in Attempt \ {n} : Owed(m)' = Owed(m)
        PROVE  /\ Owed(n) /\ ~Owed(n)' => Debt(n) \in Late /\ Late' = Late \ {Debt(n)}
               /\ ~Owed(n) /\ Owed(n)' => Late' = Late \cup {Debt(n)}
    <2>1. ASSUME Owed(n), ~Owed(n)' PROVE Debt(n) \in Late /\ Late' = Late \ {Debt(n)}
      BY <1>1, <1>2, <1>3, <1>5, <2>1
    <2>2. ASSUME ~Owed(n), Owed(n)' PROVE Late' = Late \cup {Debt(n)}
      BY <1>1, <1>2, <1>3, <1>5, <2>2
    <2> QED BY <2>1, <2>2
  <1> QED BY <1>4, <1>5

\* The stage of the payment in hand.
LEMMA FlightIs ==
    ASSUME Orderly, pc = "paying"
    PROVE  /\ deal.n \in Attempt /\ Paying(deal.n)
           /\ gate[Pay(deal.n)] = "idle" => Flight = [stage |-> "sent", amount |-> 0]
           /\ gate[Pay(deal.n)] # "idle" =>
                Flight = [stage |-> IF Charged(deal.n) THEN "settled" ELSE "accepted", amount |-> Price]
  BY DEF Flight, Orderly, Paying

\* The buyer's seller stands still while no request is paid and none is charged.
LEMMA FlightStays ==
    ASSUME Orderly, UNCHANGED <<faults, charges, buyerVars>>,
           \A n \in Attempt : (gate[Pay(n)] = "idle")' = (gate[Pay(n)] = "idle")
    PROVE  Flight' = Flight /\ Spent' = Spent /\ Events' = Events
  <1>0. pc' = pc /\ deal' = deal /\ charges' = charges
    BY DEF buyerVars
  <1>1. Spent' = Spent /\ Events' = Events
    BY DEF Spent, Events
  <1>2. Charged(deal.n)' = Charged(deal.n)
    BY <1>0 DEF Charged
  <1>3. CASE pc = "paying"
    <2>1. deal.n \in Attempt
      BY <1>3, FlightIs
    <2> QED BY <1>0, <1>1, <1>2, <1>3, <2>1 DEF Flight
  <1>4. CASE pc # "paying"
    BY <1>0, <1>1, <1>4 DEF Flight
  <1> QED BY <1>1, <1>3, <1>4

\* What the seller gives up is dropped from what it still has to settle.
LEMMA OneOwedLess ==
    ASSUME UNCHANGED buyerVars, Flight' = Flight, Events' = Events,
           NEW n \in Attempt, \A m \in Attempt \ {n} : Open(m)' = Open(m),
           Open(n)' => Open(n),
           \/ Spent' = Spent
           \/ ~Open(n)' /\ Open(n) /\ ~Paying(n)
              /\ Spent' = Spent \cup {[n |-> n, at |-> 0, amount |-> Price]}
    PROVE  [B!Next]_(B!vars)
  <1>1. \A m \in Attempt \ {n} : Owed(m)' = Owed(m)
    BY DEF Owed, Paying, buyerVars
  <1>2. CASE Owed(n) /\ ~Owed(n)'
    <2>1. Debt(n) \in Late /\ Late' = Late \ {Debt(n)}
      BY <1>1, <1>2, LateIs
    <2>2. B!SettleLate(Debt(n))
      BY <2>1, <1>2 DEF B!SettleLate, Debt, buyerVars, B!world, B!process, B!card
    <2> QED BY <2>1, <2>2 DEF B!Next
  <1>3. CASE ~(Owed(n) /\ ~Owed(n)')
    <2>1. Owed(n)' = Owed(n) /\ Spent' = Spent
      BY <1>3 DEF Owed, Paying, buyerVars
    <2>2. Late' = Late
      BY <1>1, <2>1, LateIs
    <2> QED BY <2>1, <2>2 DEF B!vars, buyerVars
  <1> QED BY <1>2, <1>3

\* Nobody waits for a payment any more: if it is still possible, it is owed now.
LEMMA GivenUp ==
    ASSUME GP!Inv, Orderly, TakeAnswer \/ LoseAnswer
    PROVE  /\ Paying(deal.n) /\ deal.n \in Attempt
           /\ Flight' = B!Idle /\ Spent' = Spent /\ Events' = Events
           /\ ~Open(deal.n) => Late' = Late
           /\ B!Abandon
  <1>1. /\ pc = "paying" /\ pc' # "paying" /\ UNCHANGED <<gateVars, deal>>
    BY TakeMoves
  <1>2. Paying(deal.n) /\ deal.n \in Attempt
    BY <1>1, FlightIs
  <1>3. Flight' = B!Idle /\ Spent' = Spent /\ Events' = Events
    BY <1>1 DEF Flight, B!Idle, Spent, Events, gateVars
  <1>4. PICK n \in Attempt : n = deal.n
    BY <1>2
  <1>5. \A m \in Attempt \ {n} : Owed(m)' = Owed(m)
    BY <1>1, <1>4 DEF Owed, Paying, Open, G!InFlight, gateVars
  <1>6. ~Owed(n) /\ Owed(n)' = Open(n)
    BY <1>1, <1>4 DEF Owed, Paying, Open, G!InFlight, gateVars
  <1>7. \A m \in Attempt : ~Open(n) => Owed(m)' = Owed(m)
    BY <1>5, <1>6 DEF Owed
  <1>8. ~Open(n) => Late' = Late
    BY <1>7, LateIs
  <1>9. ASSUME Open(n) PROVE B!Abandon
    <2>1. Late' = Late \cup {Debt(n)}
      BY <1>5, <1>6, <1>9, LateIs
    <2>2. ~Charged(n) /\ gate[Pay(n)] # "idle"
      BY <1>9, PaymentIs
    <2>3. Flight = [stage |-> "accepted", amount |-> Price]
      BY <1>1, <1>4, <2>2, FlightIs
    <2> QED BY <1>4, <2>1, <2>3 DEF B!Abandon, Debt, Events
  <1>10. ~Open(n) => B!Abandon
    BY <1>8 DEF B!Abandon
  <1> QED BY <1>2, <1>3, <1>4, <1>8, <1>9, <1>10

\* Every answer the gate gives, and every one that is lost, is one that
\* BuyerAgent expects of its seller.
LEMMA AnswerIsExpected ==
    GP!Inv /\ Orderly /\ (TakeAnswer \/ LoseAnswer) => B!Next
  <1> SUFFICES ASSUME GP!Inv, Orderly, TakeAnswer \/ LoseAnswer PROVE B!Next
    OBVIOUS
  <1>1. /\ pc = "paying" /\ Paying(deal.n) /\ deal.n \in Attempt
        /\ Flight' = B!Idle /\ Spent' = Spent /\ Events' = Events
        /\ ~Open(deal.n) => Late' = Late
        /\ B!Abandon
    BY GivenUp, TakeMoves
  <1>2. /\ "lost" \in Events /\ "seller" \in Events
        /\ "call" \in faults => "errorCharged" \in Events
    BY DEF Events
  <1>3. /\ ~Charged(deal.n) => Flight.stage \in {"sent", "accepted"}
        /\ gate[Pay(deal.n)] # "idle" => Flight.stage \in {"accepted", "settled"}
        /\ gate[Pay(deal.n)] # "idle" /\ Charged(deal.n) => Flight.stage = "settled"
    BY <1>1, FlightIs
  <1>4. CASE Take(B!TakeNothing)
    <2>1. B!NetworkError
      BY <1>1, <1>2, <1>4 DEF B!NetworkError, Take
    <2> QED BY <2>1, <1>1 DEF B!Next, B!Process
  <1>5. CASE Answer(deal.n, {"data"}) /\ Take(B!Take200)
    <2>1. gate[Pay(deal.n)] = "data" /\ Charged(deal.n) /\ ~Open(deal.n)
      BY <1>1, <1>5, AnswerTells, PaymentIs
    <2>2. B!Succeed
      BY <1>1, <1>3, <1>5, <2>1 DEF B!Succeed, Take
    <2> QED BY <2>2, <1>1 DEF B!Next, B!Process
  <1>6. CASE Answer(deal.n, Answers503) /\ Take(B!Take503)
    <2>1. CASE ~Charged(deal.n) /\ ~Open(deal.n)
      <3>1. B!SellerError
        BY <1>1, <1>2, <1>3, <1>6, <2>1 DEF B!SellerError, Take
      <3> QED BY <3>1, <1>1 DEF B!Next, B!Process
    <2>2. CASE gate[Pay(deal.n)] = "facilitatorError" /\ "call" \in faults
      <3>1. B!SellerError
        BY <1>1, <1>2, <1>3, <1>6, <2>2 DEF B!SellerError, Take
      <3> QED BY <3>1, <1>1 DEF B!Next, B!Process
    <2> QED BY <1>1, <1>6, <2>1, <2>2, AnswerTells
  <1>7. CASE Answer(deal.n, AnswersOther) /\ Take(B!TakeOther)
    <2>1. ~Charged(deal.n) /\ ~Open(deal.n)
      BY <1>1, <1>7, AnswerTells
    <2>2. B!UnexpectedStatus
      BY <1>1, <1>2, <1>3, <1>7, <2>1 DEF B!UnexpectedStatus, Take
    <2> QED BY <2>2, <1>1 DEF B!Next, B!Process
  <1> QED BY <1>4, <1>5, <1>6, <1>7 DEF TakeAnswer, LoseAnswer, Paying

\* The second request is the one the seller of BuyerAgent accepts.
LEMMA PaymentIsAccepted ==
    GP!Inv /\ Orderly /\ SendPayment => B!Next
  <1> SUFFICES ASSUME GP!Inv, Orderly, SendPayment PROVE B!Next
    OBVIOUS
  <1>1. PICK n \in Attempt, h \in Header : Paying(n) /\ Send(Pay(n), h)
    BY DEF SendPayment
  <1>2. /\ UNCHANGED <<faults, charges, buyerVars>>
        /\ gate[Pay(n)] = "idle" /\ gate'[Pay(n)] # "idle"
        /\ \A m \in Attempt \ {n} : Open(m)' = Open(m)
    BY <1>1, PaymentSent
  <1>3. pc = "paying" /\ deal.n = n /\ pc' = pc /\ deal' = deal /\ expiry = 1 /\ deal.skill = 1
    BY <1>1, <1>2 DEF Paying, Orderly, buyerVars
  <1>4. ~Charged(n)'
    BY <1>2, PaymentIs DEF Charged
  <1>5. /\ Flight = [stage |-> "sent", amount |-> 0]
        /\ Flight' = [stage |-> "accepted", amount |-> Price]
    BY <1>2, <1>3, <1>4 DEF Flight
  <1>6. Late' = Late /\ Spent' = Spent /\ Events' = Events
    <2>1. \A m \in Attempt : Owed(m)' = Owed(m)
      BY <1>2, <1>3 DEF Owed, Paying
    <2> QED BY <1>2, <2>1, LateIs DEF Spent, Events
  <1>7. [s \in {1} |-> Price][deal.skill] = Price
    BY <1>3
  <1>8. B!Accept
    BY <1>2, <1>3, <1>5, <1>6, <1>7, SaleAssumption
       DEF B!Accept, B!PriceInScope, buyerVars, B!world, B!process, B!card
  <1> QED BY <1>6, <1>8 DEF B!Next, B!Seller

\* What the facilitator does is a settlement, in time or late, or its failure.
LEMMA TransferIsSettlement ==
    ASSUME GP!Inv, Orderly, NEW r \in Request, Facilitate(r)
    PROVE  [B!Next]_(B!vars)
  <1>1. UNCHANGED <<faults, gate, buyerVars>>
    BY FacilitatorPays
  <1>2. PICK n \in Attempt :
            /\ r = Pay(n) /\ settlement[Pay(n)] = "submitted"
            /\ Open(n) /\ ~Open(n)' /\ gate[Pay(n)] # "idle"
            /\ \A m \in Attempt \ {n} : Open(m)' = Open(m)
            /\ \/ charges' = charges
               \/ charges' = charges \cup {[proof |-> n, request |-> r]}
    BY FacilitatorPays
  <1>3. pc' = pc /\ deal' = deal /\ Events' = Events
    BY <1>1 DEF buyerVars, Events
  <1>4. CASE charges' = charges
    <2>1. Flight' = Flight /\ Spent' = Spent
      BY <1>1, <1>4, FlightStays
    <2> QED BY <1>1, <1>2, <1>3, <2>1, OneOwedLess
  <1>5. CASE charges' = charges \cup {[proof |-> n, request |-> r]}
    <2>1. Spent' = Spent \cup {[n |-> n, at |-> 0, amount |-> Price]}
      <3>1. [proof |-> n, request |-> r].proof = n
        OBVIOUS
      <3> QED BY <1>5, <3>1 DEF Spent
    <2>2. Charged(n)' /\ ~Charged(n)
      <3>1. [proof |-> n, request |-> r] \in charges' /\ [proof |-> n, request |-> r].proof = n
        BY <1>5
      <3>2. Charged(n)'
        BY <3>1 DEF Charged
      <3> QED BY <1>2, <3>2, PaymentIs
    <2>3. \A m \in Attempt \ {n} : Charged(m)' = Charged(m)
      BY <1>5 DEF Charged
    <2>4. CASE Paying(n)
      <3>1. pc = "paying" /\ deal.n = n
        BY <2>4 DEF Paying
      <3>2. Flight = [stage |-> "accepted", amount |-> Price]
        BY <1>2, <2>2, <3>1 DEF Flight
      <3>3. Flight' = [stage |-> "settled", amount |-> Price]
        BY <1>1, <1>2, <1>3, <2>2, <3>1 DEF Flight
      <3>4. Late' = Late
        <4>1. \A m \in Attempt : Owed(m)' = Owed(m)
          BY <1>2, <1>3, <3>1 DEF Owed, Paying
        <4> QED BY <4>1, LateIs
      <3>5. B!Settle
        BY <1>1, <2>1, <3>1, <3>2, <3>3, <3>4 DEF B!Settle, buyerVars, B!world, B!process, B!card
      <3> QED BY <1>3, <3>5 DEF B!Next, B!Seller
    <2>5. CASE ~Paying(n)
      <3>1. Flight' = Flight
        <4>1. CASE pc = "paying"
          <5>1. PICK m \in Attempt \ {n} : m = deal.n
            BY <4>1, <2>5, FlightIs DEF Paying
          <5> QED BY <1>1, <1>3, <2>3, <5>1 DEF Flight
        <4>2. CASE pc # "paying"
          BY <1>3, <4>2 DEF Flight
        <4> QED BY <4>1, <4>2
      <3> QED BY <1>1, <1>2, <1>3, <2>1, <2>5, <3>1, OneOwedLess
    <2> QED BY <2>4, <2>5
  <1> QED BY <1>2, <1>4, <1>5

\* Each step of the sale is a step of BuyerAgent, or one it does not see.
LEMMA NextBuyer == GP!Inv /\ Orderly /\ [Next]_vars => [B!Next]_(B!vars)
  <1> SUFFICES ASSUME GP!Inv, Orderly, [Next]_vars PROVE [B!Next]_(B!vars)
    OBVIOUS
  <1>1. CASE Prepare
    <2>1. B!Process
      BY <1>1 DEF Prepare, B!Process
    <2> QED BY <1>1, <2>1 DEF B!Next, Events, Prepare, gateVars
  <1>2. CASE TakeAnswer \/ LoseAnswer
    BY <1>2, AnswerIsExpected
  <1>3. CASE SendRequest
    <2>1. PICK n \in Attempt : Send(Ask(n), G!NoHeader)
      BY <1>3 DEF SendRequest
    <2>2. UNCHANGED <<faults, charges, buyerVars>>
      BY <2>1, AskSent
    <2>3. \A m \in Attempt : Open(m)' = Open(m) /\ gate'[Pay(m)] = gate[Pay(m)]
      BY <2>1, AskSent
    <2>4. Flight' = Flight /\ Spent' = Spent /\ Events' = Events
      BY <2>2, <2>3, FlightStays
    <2> QED BY <2>1, <2>2, <2>3, <2>4, OneOwedLess
  <1>4. CASE SendPayment
    BY <1>4, PaymentIsAccepted
  <1>5. ASSUME NEW r \in Request, Serve(r) \/ Drop(r) PROVE [B!Next]_(B!vars)
    <2>1. UNCHANGED <<faults, charges, buyerVars>>
      BY <1>5, SellerPayments
    <2>2. \A n \in Attempt : /\ Open(n)' => Open(n)
                             /\ Pay(n) # r => Open(n)' = Open(n)
                             /\ (gate[Pay(n)] = "idle")' = (gate[Pay(n)] = "idle")
      BY <1>5, SellerPayments
    <2>3. Flight' = Flight /\ Spent' = Spent /\ Events' = Events
      BY <2>1, <2>2, FlightStays
    <2>4. PICK n \in Attempt : r = Ask(n) \/ r = Pay(n)
      BY Requests
    <2>5. \A m \in Attempt \ {n} : Open(m)' = Open(m)
      BY <2>2, <2>4, Requests
    <2> QED BY <2>1, <2>2, <2>3, <2>5, OneOwedLess
  <1>6. ASSUME NEW r \in Request, Facilitate(r) PROVE [B!Next]_(B!vars)
    BY <1>6, TransferIsSettlement
  <1>7. CASE UNCHANGED vars
    BY <1>7 DEF vars, gateVars, buyerVars, B!vars, Flight, Late, Spent, Events,
                Paying, Open, Charged, G!InFlight
  <1> QED BY <1>1, <1>2, <1>3, <1>4, <1>5, <1>6, <1>7 DEF Next, Buyer

-----------------------------------------------------------------------------
(* The theorems.                                                           *)

LEMMA InitSale == Init => SaleInv /\ B!Init
  <1> SUFFICES ASSUME Init PROVE SaleInv /\ B!Init
    OBVIOUS
  <1>1. GP!Inv
    BY Assumed, GP!InitInv DEF Init, G!Init, GP!Init, G!NoHeader, GP!NoHeader
  <1>2. \A r \in Request : gate[r] = "idle" /\ settlement[r] = "none"
    BY DEF Init, G!Init
  <1>a. \A r \in Request : req[r].resource = "readings"
    BY DEF Init, G!Init
  <1>3. Orderly
    BY <1>2, <1>a, Requests, SaleAssumption DEF Init, Orderly
  <1>4. \A n \in Attempt : ~Open(n) /\ ~Charged(n)
    BY <1>1, <1>2, <1>3, Requests, PaymentIs
  <1>5. Accounted
    BY <1>4 DEF Accounted
  <1>6. Flight = B!Idle /\ Late = {} /\ Spent = {}
    BY <1>4 DEF Init, G!Init, Flight, B!Idle, Late, Spent
  <1>7. Events \in Scenarios
    BY DEF Events, Scenarios
  <1>8. B!Init
    BY <1>6, <1>7 DEF Init, B!Init, B!NoDeal, B!NoOffers
  <1> QED BY <1>1, <1>3, <1>5, <1>8 DEF SaleInv

LEMMA NextSaleInv == SaleInv /\ [Next]_vars => SaleInv'
  <1> SUFFICES ASSUME SaleInv, [Next]_vars PROVE SaleInv'
    OBVIOUS
  <1>1. GP!Inv'
    BY Assumed, StepOfGate, GP!NextInv DEF SaleInv
  <1> QED BY <1>1, NextOrderly, NextAccounted DEF SaleInv

\* What is true of the gate is true in the sale; requests come in order; every
\* payment is recorded, awaited or behind a 503 facilitator_error.
THEOREM SaleInvariance == Spec => []SaleInv
  BY InitSale, NextSaleInv, PTL DEF Spec

\* agent.mjs:297-331, paid-route.ts:311-319: the ledger misses a charge only if
\* the purchase is still under way or the gate answered it with its 503.
THEOREM UnrecordedOnlyAfter503Holds == Spec => []UnrecordedOnlyAfter503
  <1>1. SaleInv => UnrecordedOnlyAfter503
    <2> SUFFICES ASSUME SaleInv, NEW c \in charges
                 PROVE  \/ \E e \in ledger : e.n = c.proof /\ e.result \in B!SpendResults
                        \/ Paying(c.proof)
                        \/ gate[c.request] = "facilitatorError"
      BY DEF UnrecordedOnlyAfter503
    <2>1. c.proof \in Attempt
      BY GateTypes DEF SaleInv
    <2>2. Charged(c.proof) /\ c.request = Pay(c.proof)
      BY <2>1, PaymentIs DEF SaleInv, Charged
    <2> QED BY <2>1, <2>2 DEF SaleInv, Accounted, Recorded
  <1> QED BY <1>1, SaleInvariance, PTL

\* The seller BuyerAgent takes for granted is what the gate, KV, the facilitator
\* and the network do to a buyer: what holds of the loop there holds here.
THEOREM ImplementsBuyerAgent == Spec => BuyerSpec
  <1>1. SaleInv /\ [Next]_vars => [B!Next]_(B!vars)
    BY NextBuyer DEF SaleInv
  <1> QED BY <1>1, InitSale, SaleInvariance, PTL DEF Spec, BuyerSpec, B!Spec

\* The buyer of this sale is one BuyerAgentProofs is about. B and BP are that buyer
\* under two names, and the lemmas Same... say so of each operator and action.
LEMMA BuyerAssumed == BP!BuyerAssumption
  BY SaleAssumption DEF BP!BuyerAssumption, Scenarios, Still, Begun, BP!EventKinds, BP!Secret

LEMMA CardAssumed == BP!AgentCardAssumption
  BY DEF BP!AgentCardAssumption

LEMMA SameSpent ==
    ASSUME NEW entries, NEW end, NEW window
    PROVE  B!SpentInWindow(entries, end, window) = BP!SpentInWindow(entries, end, window)
  BY DEF B!SpentInWindow, BP!SpentInWindow, B!SpendResults, BP!SpendResults, B!MapThenSumSet,
           BP!MapThenSumSet, B!MapThenFoldSet, BP!MapThenFoldSet

LEMMA SameFindings == B!Findings = BP!Findings
  BY DEF B!Findings, BP!Findings, B!Judged, BP!Judged, B!NoCard, BP!NoCard,
           B!Verdicts, BP!Verdicts, B!Cards, BP!Cards, B!CardFails,
           BP!CardFails, B!Signatures, BP!Signatures, B!AgentCardHandler,
           BP!AgentCardHandler, B!Sign, BP!Sign, B!SignCard, BP!SignCard, B!SigningKey,
           BP!SigningKey, B!Verifies, BP!Verifies, B!VerifyCard, BP!VerifyCard,
           B!Throws, BP!Throws, B!Garbled, BP!Garbled, B!NoOffers, BP!NoOffers

LEMMA SameChoose == B!Choose => BP!Choose
  <1>0. \A s : B!Cardinality(s) = BP!Cardinality(s)
    BY DEF B!Cardinality, BP!Cardinality
  <1>1. /\ B!Accepted = BP!Accepted
        /\ \A a : B!Affordable(a) = BP!Affordable(a)
    BY DEF B!Accepted, BP!Accepted, B!Affordable, BP!Affordable, B!Skill, BP!Skill,
           B!PriceInScope, BP!PriceInScope, B!NegotiateAccepts, BP!NegotiateAccepts
  <1>2. \A a, b, c : B!Before(a, b, c) <=> BP!Before(a, b, c)
    BY DEF B!Before, BP!Before
  <1>3. \A a, b : B!IsNext(a, b) <=> BP!IsNext(a, b)
    BY <1>0, <1>1, <1>2 DEF B!IsNext, BP!IsNext
  <1> QED BY <1>1, <1>3, SameSpent DEF B!Choose, BP!Choose, B!Stop, BP!Stop, B!card, BP!card, B!world, BP!world, B!process,
           BP!process, B!money, BP!money, B!NoDeal, BP!NoDeal, B!Idle, BP!Idle,
           B!NoOffers, BP!NoOffers

LEMMA SameDiscover == B!Discover => BP!Discover
  BY SameFindings DEF B!Discover, BP!Discover, B!Stop, BP!Stop, B!CountError, BP!CountError, B!card,
           BP!card, B!world, BP!world, B!process, BP!process, B!money, BP!money,
           B!NoDeal, BP!NoDeal, B!Idle, BP!Idle, B!NoOffers, BP!NoOffers

LEMMA SameActions ==
    /\ B!Launch => BP!Launch
    /\ B!Begin => BP!Begin
    /\ B!Resume => BP!Resume
    /\ B!NothingFits => BP!NothingFits
    /\ B!Succeed => BP!Succeed
    /\ B!NetworkError => BP!NetworkError
    /\ B!SellerError => BP!SellerError
    /\ B!UnexpectedStatus => BP!UnexpectedStatus
    /\ B!MandateRefused => BP!MandateRefused
    /\ B!Exit => BP!Exit
    /\ B!Accept => BP!Accept
    /\ B!Settle => BP!Settle
    /\ B!SwitchOff => BP!SwitchOff
    /\ B!Tick => BP!Tick
    /\ \A o : B!SettleLate(o) => BP!SettleLate(o)
    /\ \A l : B!Reprice(l) => BP!Reprice(l)
    /\ \A s : B!Rotate(s) => BP!Rotate(s)
  <1>1. B!Launch => BP!Launch
    BY DEF B!Launch, BP!Launch, B!Pins, BP!Pins, B!card, BP!card, B!world, BP!world, B!process,
           BP!process, B!money, BP!money, B!NoDeal, BP!NoDeal, B!Idle, BP!Idle,
           B!NoOffers, BP!NoOffers
  <1>2. B!Begin => BP!Begin
    BY DEF B!Begin, BP!Begin, B!Stop, BP!Stop, B!card, BP!card, B!world, BP!world, B!process,
           BP!process, B!money, BP!money, B!NoDeal, BP!NoDeal, B!Idle, BP!Idle,
           B!NoOffers, BP!NoOffers
  <1>3. B!Resume => BP!Resume
    BY DEF B!Resume, BP!Resume, B!card, BP!card, B!world, BP!world, B!process, BP!process,
           B!money, BP!money, B!NoDeal, BP!NoDeal, B!Idle, BP!Idle, B!NoOffers,
           BP!NoOffers
  <1>4. B!NothingFits => BP!NothingFits
    BY DEF B!NothingFits, BP!NothingFits, B!Stop, BP!Stop, B!Skill, BP!Skill, B!Accepted,
           BP!Accepted, B!NegotiateAccepts, BP!NegotiateAccepts, B!Affordable,
           BP!Affordable, B!PriceInScope, BP!PriceInScope, B!card, BP!card, B!world,
           BP!world, B!process, BP!process, B!money, BP!money, B!NoDeal, BP!NoDeal,
           B!Idle, BP!Idle, B!NoOffers, BP!NoOffers
  <1>5. B!Succeed => BP!Succeed
    BY DEF B!Succeed, BP!Succeed, B!Take200, BP!Take200, B!Answered, BP!Answered, B!Entry,
           BP!Entry, B!card, BP!card, B!world, BP!world, B!process, BP!process, B!money,
           BP!money, B!NoDeal, BP!NoDeal, B!Idle, BP!Idle, B!NoOffers, BP!NoOffers
  <1>6. B!NetworkError => BP!NetworkError
    BY DEF B!NetworkError, BP!NetworkError, B!TakeNothing, BP!TakeNothing, B!Answered,
           BP!Answered, B!Entry, BP!Entry, B!CountError, BP!CountError, B!Abandon,
           BP!Abandon, B!card, BP!card, B!world, BP!world, B!process, BP!process,
           B!money, BP!money, B!NoDeal, BP!NoDeal, B!Idle, BP!Idle, B!NoOffers,
           BP!NoOffers
  <1>7. B!SellerError => BP!SellerError
    BY DEF B!SellerError, BP!SellerError, B!Take503, BP!Take503, B!Answered, BP!Answered,
           B!CountError, BP!CountError, B!Abandon, BP!Abandon, B!card, BP!card, B!world,
           BP!world, B!process, BP!process, B!money, BP!money, B!NoDeal, BP!NoDeal,
           B!Idle, BP!Idle, B!NoOffers, BP!NoOffers
  <1>8. B!UnexpectedStatus => BP!UnexpectedStatus
    BY DEF B!UnexpectedStatus, BP!UnexpectedStatus, B!TakeOther, BP!TakeOther, B!Answered,
           BP!Answered, B!card, BP!card, B!world, BP!world, B!process, BP!process,
           B!money, BP!money, B!NoDeal, BP!NoDeal, B!Idle, BP!Idle, B!NoOffers,
           BP!NoOffers
  <1>9. B!MandateRefused => BP!MandateRefused
    BY DEF B!MandateRefused, BP!MandateRefused, B!Stop, BP!Stop, B!card, BP!card, B!world,
           BP!world, B!process, BP!process, B!money, BP!money, B!NoDeal, BP!NoDeal,
           B!Idle, BP!Idle, B!NoOffers, BP!NoOffers
  <1>10. B!Exit => BP!Exit
    BY DEF B!Exit, BP!Exit, B!Abandon, BP!Abandon, B!card, BP!card, B!world, BP!world,
           B!process, BP!process, B!money, BP!money, B!NoDeal, BP!NoDeal, B!Idle,
           BP!Idle, B!NoOffers, BP!NoOffers
  <1>11. B!Accept => BP!Accept
    BY DEF B!Accept, BP!Accept, B!PriceInScope, BP!PriceInScope, B!card, BP!card, B!world,
           BP!world, B!process, BP!process, B!money, BP!money, B!NoDeal, BP!NoDeal,
           B!Idle, BP!Idle, B!NoOffers, BP!NoOffers
  <1>12. B!Settle => BP!Settle
    BY DEF B!Settle, BP!Settle, B!card, BP!card, B!world, BP!world, B!process, BP!process,
           B!money, BP!money, B!NoDeal, BP!NoDeal, B!Idle, BP!Idle, B!NoOffers,
           BP!NoOffers
  <1>13. B!SwitchOff => BP!SwitchOff
    BY DEF B!SwitchOff, BP!SwitchOff, B!card, BP!card, B!world, BP!world, B!process,
           BP!process, B!money, BP!money, B!NoDeal, BP!NoDeal, B!Idle, BP!Idle,
           B!NoOffers, BP!NoOffers
  <1>14. B!Tick => BP!Tick
    BY DEF B!Tick, BP!Tick, B!card, BP!card, B!world, BP!world, B!process, BP!process, B!money,
           BP!money, B!NoDeal, BP!NoDeal, B!Idle, BP!Idle, B!NoOffers, BP!NoOffers
  <1>20. \A o : B!SettleLate(o) => BP!SettleLate(o)
    BY DEF B!SettleLate, BP!SettleLate, B!card, BP!card, B!world, BP!world, B!process,
           BP!process, B!money, BP!money, B!NoDeal, BP!NoDeal, B!Idle, BP!Idle,
           B!NoOffers, BP!NoOffers
  <1>21. \A l : B!Reprice(l) => BP!Reprice(l)
    BY DEF B!Reprice, BP!Reprice, B!Publish, BP!Publish, B!JwksHandler, BP!JwksHandler,
           B!SigningKey, BP!SigningKey, B!card, BP!card, B!world, BP!world, B!process,
           BP!process, B!money, BP!money, B!NoDeal, BP!NoDeal, B!Idle, BP!Idle,
           B!NoOffers, BP!NoOffers
  <1>22. \A s : B!Rotate(s) => BP!Rotate(s)
    BY DEF B!Rotate, BP!Rotate, B!Publish, BP!Publish, B!JwksHandler, BP!JwksHandler,
           B!SigningKey, BP!SigningKey, B!card, BP!card, B!world, BP!world, B!process,
           BP!process, B!money, BP!money, B!NoDeal, BP!NoDeal, B!Idle, BP!Idle,
           B!NoOffers, BP!NoOffers
  <1> QED BY <1>1, <1>2, <1>3, <1>4, <1>5, <1>6, <1>7, <1>8, <1>9, <1>10, <1>11, <1>12, <1>13, <1>14, <1>20, <1>21, <1>22

LEMMA SameBuyer == BuyerSpec => BP!Spec
  <1>1. B!Init => BP!Init
    BY DEF B!Init, BP!Init, B!NoOffers, BP!NoOffers, B!NoDeal, BP!NoDeal, B!Idle, BP!Idle
  <1>2. B!Next => BP!Next
    BY SameActions, SameChoose, SameDiscover DEF B!Next, BP!Next, B!Process, BP!Process, B!Seller, BP!Seller
  <1>3. UNCHANGED B!vars => UNCHANGED BP!vars
    BY DEF B!vars, BP!vars, B!card, BP!card
  <1> QED BY <1>1, <1>2, <1>3, PTL DEF BuyerSpec, B!Spec, BP!Spec

LEMMA SameCounting == \A s : /\ BP!IsFiniteSet(s) <=> IsFiniteSet(s)
                             /\ BP!Cardinality(s) = Cardinality(s)
  BY DEF BP!IsFiniteSet, IsFiniteSet, BP!Cardinality, Cardinality

\* What is charged to this buyer is its number of charges at one price.
LEMMA ChargedHere ==
    ASSUME SaleInv
    PROVE  BP!AmountSum(Spent) = Price * Cardinality(charges)
  <1>1. charges \subseteq [proof : Attempt, request : Request]
        /\ \A c \in charges : c.request = Pay(c.proof)
    BY GateTypes, PaymentIs DEF SaleInv
  <1> DEFINE proofOf == [c \in charges |-> c.proof]
             spend == [c \in charges |-> [n |-> c.proof, at |-> 0, amount |-> Price]]
  <1>2. \A c, d \in charges : c.proof = d.proof => c = d
    BY <1>1
  <1>3. IsFiniteSet(charges)
    <2>1. proofOf \in Injection(charges, Attempt)
      BY <1>1, <1>2 DEF Injection, IsInjective
    <2>2. IsFiniteSet(Attempt)
      BY FS_Interval, SaleAssumption DEF Attempt
    <2> QED BY <2>1, <2>2, FS_Injection
  <1>4. IsFiniteSet(Spent) /\ Cardinality(Spent) = Cardinality(charges)
    <2>1. \A c \in charges : spend[c].n = c.proof
      OBVIOUS
    <2>2. spend \in [charges -> Spent]
      BY DEF Spent
    <2>3. \A c, d \in charges : spend[c] = spend[d] => c = d
      BY <1>2, <2>1
    <2>4. \A e \in Spent : \E c \in charges : spend[c] = e
      BY DEF Spent
    <2>5. spend \in Bijection(charges, Spent)
      BY <2>2, <2>3, <2>4 DEF Bijection, Injection, IsInjective, Surjection
    <2> QED BY <1>3, <2>5, FS_Bijection DEF ExistsBijection
  <1> DEFINE amountOf == [c \in Spent |-> c.amount]
  <1>5. BP!AmountSum(Spent) = BP!Total(amountOf, Spent)
    BY <1>4, SameCounting, BuyerAssumed, CardAssumed, BP!AmountSumIs
  <1>6. \A e \in Spent : amountOf[e] = Price
    BY DEF Spent
  <1>7. Price \in Nat
    BY SaleAssumption
  <1> HIDE DEF amountOf
  <1>8. BP!Total(amountOf, Spent) = Price * Cardinality(Spent)
    BY <1>4, <1>6, <1>7, SameCounting, BuyerAssumed, CardAssumed, BP!TotalConstant
  <1> QED BY <1>4, <1>5, <1>8

\* README.md:198, agent.mjs:271-276: as long as no answer of the facilitator is
\* lost, the buyer's cap bounds what the facilitator moves, whatever requests and
\* answers are lost, late or refused. Run sale_503 is the other case.
THEOREM CapHoldsAtTheGate == Spec => []("call" \notin faults => CapIsHard)
  <1>1. SaleInv /\ BP!CapHolds => ("call" \notin faults => CapIsHard)
    <2> SUFFICES ASSUME SaleInv, BP!CapHolds, "call" \notin faults PROVE CapIsHard
      OBVIOUS
    <2>1. Events \cap BP!Unaccounted = {}
      BY DEF Events, BP!Unaccounted
    <2>2. \A c \in Spent : BP!ChargedWithin(1, c.at) <= DailyCap
      BY <2>1 DEF BP!CapHolds
    <2>3. CASE charges = {}
      BY <2>3, FS_EmptySet, SaleAssumption DEF CapIsHard
    <2>4. CASE charges # {}
      <3>1. PICK c \in Spent : c.at = 0
        <4>1. PICK d \in charges : TRUE
          BY <2>4
        <4>2. [n |-> d.proof, at |-> 0, amount |-> Price] \in Spent
          BY DEF Spent
        <4> QED BY <4>2
      <3>2. {d \in Spent : d.at + 1 > 0 /\ d.at <= 0} = Spent
        BY DEF Spent
      <3>3. BP!ChargedWithin(1, 0) = BP!AmountSum(Spent)
        BY <3>2 DEF BP!ChargedWithin, BP!AmountSum
      <3> QED BY <2>2, <3>1, <3>3, ChargedHere DEF CapIsHard
    <2> QED BY <2>3, <2>4
  <1>2. BP!Spec => []BP!CapHolds
    BY BuyerAssumed, BP!CapIsKept
  <1> QED BY <1>1, <1>2, SaleInvariance, ImplementsBuyerAgent, SameBuyer, PTL
=============================================================================
