------------------------------- MODULE Mandate -------------------------------
(***************************************************************************)
(* The spending mandate between buyer and seller: the buyer's own checks   *)
(* before each purchase (buyer/mandate.mjs), and the seller's checks of    *)
(* the mandate it is shown (src/mandate.ts).  Time passes between the two. *)
(* A check is a name and a condition under which it fails; what is         *)
(* answered is the first that fails.                                       *)
(***************************************************************************)
EXTENDS Integers, Sequences

CONSTANTS Address,   \* buyers' addresses, compared without case
          Seller,    \* origins of sellers
          Cap,       \* values of max_per_call and daily_cap; 0 or less is invalid
          Prices, MaxTime,
          NotANumber   \* a limit that does not parse; JSON carries it as null

ASSUME MandateAssumption == /\ Cap \subseteq Int /\ Prices \subseteq Nat
                            /\ MaxTime \in Nat

NoOrigin == "unparsable"   \* a seller that is no URL, or not a string
Unrecoverable == "none"    \* a signature from which no address can be recovered
UnknownPayer == "unknown"  \* the payment header names no payer

\* A number on the buyer's side may be NaN, for which every comparison is false.
AtMostZero(n) == n # NotANumber /\ n <= 0
Exceeds(p, n) == n # NotANumber /\ p > n

Body == [buyer : Address, signer : Address \cup {Unrecoverable},
         seller : Seller \cup {NoOrigin},
         perCall : Cap \cup {NotANumber}, daily : Cap \cup {NotANumber},
         expiry : 0 .. MaxTime \cup {-1}]    \* -1: no date

VARIABLES now, step,
          body,     \* the mandate
          price,    \* the price the buyer means to pay, and the seller asks
          payer,    \* who funds the payment, as far as the seller can tell
          at,       \* the seller that is asked
          mine,     \* the buyer's verdict
          verdict   \* the seller's answer: status and code

mandateVars == <<now, step, body, price, payer, at, mine, verdict>>
request == <<body, price, payer, at>>

OK == [status |-> 200, error |-> "ok"]

\* The first check that fails decides.
FirstFailing(checks) ==
    IF \A i \in DOMAIN checks : ~checks[i].fails THEN OK
    ELSE LET i == CHOOSE i \in DOMAIN checks :
                      checks[i].fails /\ \A j \in 1 .. i - 1 : ~checks[j].fails
         IN [status |-> checks[i].status, error |-> checks[i].error]

Check(fails, status, error) == [fails |-> fails, status |-> status, error |-> error]

\* verifyMandate and checkPriceInScope of the buyer (status: not sent).
BuyerVerdict ==
    FirstFailing(<<
        Check(body.expiry = -1 \/ now >= body.expiry, 0, "mandate_expired"),
        Check(body.signer # body.buyer, 0, "mandate_signer_mismatch"),
        Check(AtMostZero(body.perCall) \/ AtMostZero(body.daily), 0, "mandate_invalid_caps"),
        Check(Exceeds(price, body.perCall), 0, "price_exceeds_mandate")>>)

Malformed == body.perCall = NotANumber \/ body.daily = NotANumber

\* Bug: a price equal to the limit is refused.
TooExpensive_AtLimit == body.perCall # NotANumber /\ price >= body.perCall

TooExpensive == Exceeds(price, body.perCall)

\* Layer 1: who signed the mandate, and is it who pays?
IdentityChecks == <<
    Check(body.signer # body.buyer, 401, "identity_unverified"),
    Check(payer \notin {UnknownPayer, body.buyer}, 401, "identity_mismatch")>>

\* Bug: the expiry is not looked at again.
ScopeChecks_NoExpiry == <<
    Check(AtMostZero(body.perCall) \/ AtMostZero(body.daily), 403, "mandate_invalid_caps"),
    Check(TooExpensive, 403, "mandate_scope_exceeded"),
    Check(body.seller # NoOrigin /\ body.seller # at, 403, "mandate_wrong_seller")>>

\* Layer 2: does it allow this purchase, here and now?
ScopeChecks == <<
    Check(body.expiry = -1 \/ now >= body.expiry, 403, "mandate_expired"),
    Check(AtMostZero(body.perCall) \/ AtMostZero(body.daily), 403, "mandate_invalid_caps"),
    Check(TooExpensive, 403, "mandate_scope_exceeded"),
    Check(body.seller # NoOrigin /\ body.seller # at, 403, "mandate_wrong_seller")>>

\* verifyPresentedMandate.
SellerVerdict ==
    FirstFailing(<<Check(Malformed, 403, "mandate_malformed")>> \o IdentityChecks \o ScopeChecks)

Unasked == [status |-> 0, error |-> "unasked"]

MandateInit == /\ now = 0 /\ step = "verify"
               /\ body \in Body
               /\ price \in Prices
               /\ payer \in Address \cup {UnknownPayer}
               /\ at \in Seller
               /\ mine = Unasked /\ verdict = Unasked

Verify == /\ step = "verify"
          /\ mine' = BuyerVerdict
          /\ step' = "present"
          /\ UNCHANGED <<now, request, verdict>>

\* Whoever holds a mandate may present it, whatever the buyer's verdict was.
Present == /\ step = "present"
           /\ verdict' = SellerVerdict
           /\ step' = "answered"
           /\ UNCHANGED <<now, request, mine>>

Tick == /\ now < MaxTime /\ step # "answered"
        /\ now' = now + 1
        /\ UNCHANGED <<step, request, mine, verdict>>

MandateNext == Verify \/ Present \/ Tick
MandateSpec == MandateInit /\ [][MandateNext]_mandateVars

-----------------------------------------------------------------------------
\* Buyer and seller agree: a mandate its own holder found good, presented by
\* that holder at the seller it names, is accepted, unless it has expired on
\* the way or carries a limit that is no number.
GoodMandateIsAccepted ==
    (step = "answered" /\ mine = OK /\ payer \in {UnknownPayer, body.buyer} /\ body.seller = at
        /\ ~Malformed /\ now < body.expiry) => verdict = OK

\* ... and the seller relies on nothing the buyer has checked: what it accepts
\* is signed by its holder, funded by it, in scope, in time and not for another.
AcceptedIsAuthorized ==
    (step = "answered" /\ verdict = OK) =>
        /\ body.signer = body.buyer /\ payer \in {UnknownPayer, body.buyer}
        /\ now < body.expiry
        /\ price <= body.perCall /\ body.perCall > 0 /\ body.daily > 0
        /\ body.seller \in {at, NoOrigin}
=============================================================================
