--------------------------------- MODULE Sale ---------------------------------
(***************************************************************************)
(* A buyer's process (BuyerAgent) at a seller's gate (PaidRoute).  A       *)
(* purchase is two requests: one without a proof, whose 402 names the      *)
(* price, and one with the proof that the x402 client then signs.  What    *)
(* BuyerAgent says of the seller in a few lines is here what the gate, KV, *)
(* the facilitator and the network do, step by step; responses can be lost *)
(* and the seller goes on with a request whose buyer has gone.  Prices,    *)
(* keys and the clock stand still: a mandate that fits is accepted.        *)
(***************************************************************************)
EXTENDS Naturals, Sequences, FiniteSets

CONSTANTS Price,        \* of the one resource on offer, within the mandate
          DailyCap, MaxRetries,
          MaxAttempts,  \* bound: purchases begun
          LogMax, Bindings, NoEvent,
          FaultSets     \* what may fail at the seller: see PaidRoute

Attempt == 1 .. MaxAttempts
Ask(n) == 2 * n - 1      \* the request without a proof
Pay(n) == 2 * n          \* the one with the proof of attempt n
Request == 1 .. 2 * MaxAttempts
NoProof == 0
Header == [proof : Attempt, form : {"client"}]    \* the x402 client writes a proof one way

VARIABLES faults, gate, req, idem, expired, held, log, versions,  \* PaidRoute's
          latestEvent, view, settlement, charges,
          switch, enabled, expiry, pc, errors, cursor, offers, deal, ledger  \* BuyerAgent's

gateVars == <<faults, gate, req, idem, expired, held, log, versions, latestEvent, view,
              settlement, charges>>
buyerVars == <<switch, enabled, expiry, pc, errors, cursor, offers, deal, ledger>>
vars == <<gateVars, buyerVars>>

G == INSTANCE PaidRoute WITH pc <- gate, Proof <- Attempt, Resources <- {"readings"},
                             Mandates <- {"good"}, Mismatched <- {}, Unverifiable <- {},
                             RequireMandate <- TRUE

ASSUME SaleAssumption ==
    /\ Price \in Nat \ {0} /\ DailyCap \in Nat \ {0}
    /\ MaxRetries \in Nat \ {0} /\ MaxAttempts \in Nat \ {0}
    /\ G!PaidRouteAssumption

Paying(n) == pc = "paying" /\ deal.n = n
Charged(n) == \E c \in charges : c.proof = n

\* The seller may still execute the transfer of attempt n.
Open(n) == \/ settlement[Pay(n)] = "submitted"
           \/ settlement[Pay(n)] = "none" /\ G!InFlight(Pay(n))

\* How BuyerAgent sees the seller.
Flight ==
    IF pc # "paying" THEN [stage |-> "none", amount |-> 0]
    ELSE IF gate[Pay(deal.n)] = "idle" THEN [stage |-> "sent", amount |-> 0]
    ELSE [stage |-> IF Charged(deal.n) THEN "settled" ELSE "accepted", amount |-> Price]

Late == {[n |-> n, amount |-> Price, until |-> 0] : n \in {m \in Attempt : ~Paying(m) /\ Open(m)}}

Spent == {[n |-> c.proof, at |-> 0, amount |-> Price] : c \in charges}

\* What may happen to a buyer of this seller.
Events == {"lost", "late", "seller"} \cup (IF "call" \in faults THEN {"errorCharged"} ELSE {})

Scenarios == {{"lost", "late", "seller"}, {"lost", "late", "seller", "errorCharged"}}
Still(scenario) == 0
Begun(scenario) == MaxAttempts

B == INSTANCE BuyerAgent WITH
        Key <- {1}, NoKey <- 0, Malformed <- 2, Unusable <- 3, FirstKey <- 1, SellerSecrets <- {1},
        Forgeries <- {},
        ListPrice <- <<Price>>, Prices <- {Price}, PriceLists <- {<<Price>>},
        MaxPerCall <- Price, MandateLife <- 1, Day <- 1, Lag <- 0,
        MaxTime <- Still, MaxAttempts <- Begun,
        events <- Events, now <- 0, price <- [s \in {1} |-> Price], secret <- 1,
        published <- {[key |-> 1, offers |-> <<Price>>]}, pinned <- 1,
        flight <- Flight, late <- Late, charges <- Spent

Init == /\ G!Init
        /\ switch = TRUE /\ enabled = TRUE /\ expiry = 0
        /\ pc = "off" /\ errors = 0 /\ cursor = 0
        /\ offers = << >> /\ deal = [n |-> 0, skill |-> 0, price |-> 0]
        /\ ledger = {}

-----------------------------------------------------------------------------
(* The buyer's process.                                                    *)

\* Between two purchases the buyer does what BuyerAgent says.
Prepare == /\ UNCHANGED gateVars
           /\ B!Launch \/ B!Begin \/ B!Discover \/ B!Choose \/ B!Resume

\* paidFetch's first request, and the second once it has the seller's price.
Send(r, header) ==
    /\ G!Arrive(r)
    /\ req'[r] = [header |-> header, resource |-> "readings", input |-> "ok",
                  mandate |-> "good"]
    /\ UNCHANGED <<faults, buyerVars>>

SendRequest == \E n \in Attempt : Paying(n) /\ Send(Ask(n), G!NoHeader)

SendPayment == \E n \in Attempt :
    /\ Paying(n) /\ gate[Ask(n)] = "paymentRequired"
    /\ \E h \in Header : h.proof = n /\ Send(Pay(n), h)

\* The answer paidFetch returns for attempt n: a 402 to the first request is not
\* returned but paid.
Answer(n, answers) == \/ gate[Pay(n)] \in answers
                      \/ gate[Ask(n)] \in answers \ {"paymentRequired"}

Take(how) == pc = "paying" /\ UNCHANGED gateVars /\ how

\* handlerError is a 503 of the resource's or a 500 of rejectReplay's.
Answers503 == {"facilitatorError", "limited", "handlerError"}
AnswersOther == G!Refusals \ {"facilitatorError", "limited", "mandateRefused", "aborted"}

TakeAnswer == \E n \in Attempt :
    /\ Paying(n)
    /\ \/ Answer(n, {"data"}) /\ Take(B!Take200)
       \/ Answer(n, Answers503) /\ Take(B!Take503)
       \/ Answer(n, AnswersOther) /\ Take(B!TakeOther)
       \/ Answer(n, {"aborted"}) /\ Take(B!TakeNothing)

\* The network loses a request or its response, or the buyer's machine sleeps.
LoseAnswer == Take(B!TakeNothing)

-----------------------------------------------------------------------------
(* The seller, whether anybody still waits or not.                         *)

Serve(r) == G!Progress(r) /\ UNCHANGED <<faults, buyerVars>>
Facilitate(r) == G!Facilitator(r) /\ UNCHANGED <<faults, buyerVars>>
Drop(r) == G!Abort(r) /\ UNCHANGED <<faults, buyerVars>>

Buyer == Prepare \/ SendRequest \/ SendPayment \/ TakeAnswer

Next == Buyer \/ LoseAnswer \/ \E r \in Request : Serve(r) \/ Facilitate(r) \/ Drop(r)

Spec == Init /\ [][Next]_vars

\* The buyer's process runs on, and everything the seller awaits is answered.
FairSpec == /\ Spec
            /\ WF_vars(Buyer)
            /\ \A r \in Request : WF_vars(Serve(r)) /\ WF_vars(Facilitate(r))

-----------------------------------------------------------------------------
(* Properties.                                                             *)

\* The seller of BuyerAgent is a true abstraction of the gate: whatever the gate,
\* KV, the facilitator and the network do, the buyer sees nothing but what
\* BuyerAgent allows, so what is proved of its cap and its ledger holds here.
\* Only where the facilitator's answers can be lost is "errorCharged" needed.
BuyerSpec == B!Spec

\* agent.mjs:297-300 "Count it as spent": every charge is in the buyer's ledger,
\* or still awaited, or was answered with the 503 that hides its outcome.
UnrecordedOnlyAfter503 ==
    \A c \in charges : \/ \E e \in ledger : e.n = c.proof /\ e.result \in B!SpendResults
                       \/ Paying(c.proof)
                       \/ gate[c.request] = "facilitatorError"

\* Every purchase that is begun comes to an end: no step of the buyer waits for
\* an answer that the seller does not give.  The facilitator is taken to answer:
\* neither the gate nor paidFetch sets a limit to the wait for it.
PurchaseEnds == pc = "paying" ~> pc # "paying"

\* README.md:198 DAILY_CAP: "Max USDC over any rolling 24 hours".
CapIsHard == Price * Cardinality(charges) <= DailyCap
=============================================================================
