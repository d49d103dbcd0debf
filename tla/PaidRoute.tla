------------------------------ MODULE PaidRoute ------------------------------
(***************************************************************************)
(* The seller's payment gate (src/paid-route.ts) around the priced         *)
(* resources of src/index.ts, for any number of requests in flight.  Every *)
(* await of the code is a point where another request may run, so every    *)
(* KV access, facilitator call and Durable Object call is a step of its    *)
(* own.  The @x402/hono middleware, the facilitator, the chain, Workers KV *)
(* and the runtime are external: they are modelled from how the code uses  *)
(* them (verify, run the handler, settle only below status 400).           *)
(***************************************************************************)
EXTENDS Naturals, Sequences, FiniteSets

CONSTANTS Request,        \* requests, one process each
          Proof,          \* signed EIP-3009 authorizations
          NoProof,        \* in place of one: the request carries no payment header
          Header,         \* payment headers: the texts in which proofs are sent
          Resources,      \* the resources clients ask for
          Mandates,       \* the mandates clients present
          Mismatched,     \* proofs screenPayment refuses: wrong network, asset, payee, amount
          Unverifiable,   \* proofs the facilitator refuses: bad signature, no funds
          NoEvent,        \* latest_event has not been written
          LogMax,         \* entries kept in receipt_log (100 in the code)
          RequireMandate, \* env.REQUIRE_MANDATE = "true"
          Bindings,       \* the optional bindings this deployment has
          FaultSets       \* the sets of faults to consider

FaultKinds == {"kv",      \* a KV operation rejects
               "stale",   \* a KV read returns what the key has held before
               "call",    \* a facilitator or Durable Object call rejects
               "abort",   \* the runtime drops a request in flight
               "expire"}  \* a replay key reaches its TTL meanwhile

ASSUME PaidRouteAssumption ==
    /\ NoProof \notin Proof
    /\ \A h \in Header : h.proof \in Proof
    /\ Mismatched \subseteq Proof
    /\ Unverifiable \subseteq Proof
    /\ Resources \subseteq {"readings", "inference", "legacy"}
    /\ Mandates \subseteq {"none", "good", "bad"}
    /\ NoEvent \notin [proof : Proof, request : Request]
    /\ LogMax \in Nat \ {0}
    /\ RequireMandate \in BOOLEAN
    /\ Bindings \subseteq {"IOT_KV", "RATE_LIMITER", "AI"}
    /\ FaultSets \subseteq SUBSET FaultKinds

VARIABLES faults,      \* what may go wrong in this behaviour: fixed at the start
          pc,          \* the step each request is at, or the answer it got
          req,         \* what each request carries
          idem,        \* headers whose idem:<hash> key is in KV
          expired,     \* headers whose key was there and has reached its TTL
          held,        \* requests whose header's key has been there since they came
          log,         \* receipt_log in KV, newest first
          versions,    \* what a read of receipt_log may return
          latestEvent, \* latest_event in KV
          view,        \* the receipt_log each recordSettlement has read
          settlement,  \* the facilitator's side of each request's settlement
          charges      \* transfers executed on chain

vars == <<faults, pc, req, idem, expired, held, log, versions, latestEvent, view,
          settlement, charges>>

Resource == {"readings", "inference", "legacy"}
Gated == {"readings", "inference"}    \* resources behind createPaidRoute

NoHeader == [proof |-> NoProof]

\* The attributes of a request the gate branches on.  Screen, facilitator and
\* chain see the authorization that a header decodes to; the replay check sees
\* its text, and one authorization can be written down in several.
Arrival == [header : Header \cup {NoHeader}, resource : Resource,
            input : {"ok", "bad"}, mandate : {"none", "good", "bad"}]

Receipt == [proof : Proof, request : Request]    \* stands for a transaction hash

\* Where a request can be between two awaits ...
Steps == {"idle", "validate", "limit", "mandate", "screen", "verify",
          "replayGet", "replayPut", "work", "submit", "await",
          "logGet", "logPut", "eventPut"}

\* ... and how it can end: "data" is the only answer below status 400.
Refusals == {"badRequest", "limited", "mandateRefused", "screened",
             "paymentRequired", "alreadyUsed", "handlerError",
             "settlementFailed", "facilitatorError", "serverError", "aborted"}
Ended == Refusals \cup {"data"}

Outcomes == {"none", "submitted", "success", "failure"}

ProofOf(r) == req[r].header.proof
ReceiptOf(r) == [proof |-> ProofOf(r), request |-> r]
HasKV == "IOT_KV" \in Bindings
InFlight(r) == pc[r] \in Steps \ {"idle"}

Entries(l) == {l[i] : i \in 1 .. Len(l)}

TypeOK ==
    /\ faults \in FaultSets
    /\ pc \in [Request -> Steps \cup Ended]
    /\ req \in [Request -> Arrival]
    /\ idem \subseteq Header
    /\ expired \subseteq Header
    /\ held \subseteq Request
    /\ log \in versions
    /\ versions \subseteq Seq(Receipt)
    /\ \A l \in versions : Len(l) <= LogMax
    /\ latestEvent \in Receipt \cup {NoEvent}
    /\ view \in [Request -> Seq(Receipt)]
    /\ \A r \in Request : Len(view[r]) <= LogMax
    /\ settlement \in [Request -> Outcomes]
    /\ charges \subseteq Receipt

Init ==
    /\ faults \in FaultSets
    /\ pc = [r \in Request |-> "idle"]
    /\ req = [r \in Request |-> [header |-> NoHeader, resource |-> "readings",
                                 input |-> "ok", mandate |-> "none"]]
    /\ idem = {}
    /\ expired = {}
    /\ held = {}
    /\ log = << >>
    /\ versions = {log}
    /\ latestEvent = NoEvent
    /\ view = [r \in Request |-> << >>]
    /\ settlement = [r \in Request |-> "none"]
    /\ charges = {}

Goto(r, where) == pc' = [pc EXCEPT ![r] = where]

\* The shared state a step of the gate leaves alone, by what it touches.
keyVars == <<idem, expired>>
logVars == <<log, versions>>
reqVars == <<req, held>>
kvVars == <<keyVars, logVars, latestEvent>>
moneyVars == <<settlement, charges>>

-----------------------------------------------------------------------------
(* The gate, in the order of createPaidRoute.                              *)

\* A client sends a request.  The legacy route has no gate of its own: only
\* the payment middleware stands before it.
Arrive(r) ==
    /\ pc[r] = "idle"
    /\ \E a \in Arrival :
          /\ a.resource \in Resources /\ a.mandate \in Mandates
          /\ a.input = "bad" => a.resource = "inference"
          /\ a.mandate # "none" => a.resource \in Gated
          /\ req' = [req EXCEPT ![r] = a]
          /\ held' = IF a.header \in idem THEN held \cup {r} ELSE held
          /\ Goto(r, IF a.resource = "legacy" THEN "verify" ELSE "validate")
    /\ UNCHANGED <<kvVars, view, moneyVars>>

\* validateInferenceInput, the hook of one resource: no text, or too much of it.
InputRefused(r) == req[r].input = "bad"

\* 400 before anything else; then only a request with a proof is counted.
Validate(r) ==
    /\ pc[r] = "validate"
    /\ \/ /\ InputRefused(r)
          /\ Goto(r, "badRequest")
       \/ /\ ~InputRefused(r)
          /\ Goto(r, IF ProofOf(r) = NoProof THEN "mandate" ELSE "limit")
    /\ UNCHANGED <<reqVars, kvVars, view, moneyVars>>

\* 429.  The buckets are RateLimiter's; here any verdict is
\* possible.  The stub call is outside every try: its rejection is a bare 500.
EnforceRateLimit(r) ==
    /\ pc[r] = "limit"
    /\ \/ Goto(r, "mandate")
       \/ "RATE_LIMITER" \in Bindings /\ Goto(r, "limited")
       \/ "RATE_LIMITER" \in Bindings /\ "call" \in faults /\ Goto(r, "serverError")
    /\ UNCHANGED <<reqVars, kvVars, view, moneyVars>>

\* Bug: with no mandate there is nothing to refuse, REQUIRE_MANDATE or not.
CheckMandate_OptionalOnly(r) ==
    /\ pc[r] = "mandate"
    /\ Goto(r, IF req[r].mandate = "bad" THEN "mandateRefused"
               ELSE IF ProofOf(r) = NoProof THEN "verify" ELSE "screen")
    /\ UNCHANGED <<reqVars, kvVars, view, moneyVars>>

\* 401 / 403.  A mandate is verified whenever it is presented.
CheckMandate(r) ==
    /\ pc[r] = "mandate"
    /\ LET refused == \/ req[r].mandate = "bad"
                      \/ req[r].mandate = "none" /\ RequireMandate
       IN Goto(r, IF refused THEN "mandateRefused"
                  ELSE IF ProofOf(r) = NoProof THEN "verify" ELSE "screen")
    /\ UNCHANGED <<reqVars, kvVars, view, moneyVars>>

\* 402 with a code of the seller's own, before the facilitator is asked.
Screen(r) ==
    /\ pc[r] = "screen"
    /\ Goto(r, IF ProofOf(r) \in Mismatched THEN "screened" ELSE "verify")
    /\ UNCHANGED <<reqVars, kvVars, view, moneyVars>>

\* What a request is answered when a call to the facilitator rejects: the catch
\* of createPaidRoute makes it a 503, the legacy route has none.
CallRejected(r) == IF req[r].resource \in Gated THEN "facilitatorError" ELSE "serverError"

\* The middleware: no proof is a 402 with the requirements; a proof is sent to
\* the facilitator, which may refuse any proof and cannot accept a bad one.
Verify(r) ==
    /\ pc[r] = "verify"
    /\ \/ Goto(r, "paymentRequired")
       \/ "call" \in faults /\ ProofOf(r) # NoProof /\ Goto(r, CallRejected(r))
       \/ /\ ProofOf(r) \in Proof \ (Unverifiable \cup Mismatched)
          /\ Goto(r, IF req[r].resource = "legacy" THEN "work"
                     ELSE IF HasKV THEN "replayGet" ELSE "work")
    /\ UNCHANGED <<reqVars, kvVars, view, moneyVars>>

-----------------------------------------------------------------------------
(* The route handler: rejectReplay, then the resource.  An exception in it  *)
(* is an answer of 500, and no answer from 400 up is settled.              *)

\* Bug: the key is looked up under a name nothing was written to, as when the
\* proof was read from X-PAYMENT only.
ReplayGet_WrongKey(r) ==
    /\ pc[r] = "replayGet"
    /\ Goto(r, "replayPut")
    /\ UNCHANGED <<reqVars, kvVars, view, moneyVars>>

\* The key is a hash of the header's text: another text of the same proof has
\* another key.  A stale read may miss a key, or find one that has expired.
MayFind(h) == h \in idem \/ ("stale" \in faults /\ h \in expired)
MayMiss(h) == h \notin idem \/ "stale" \in faults

\* rejectReplay's read.
ReplayGet(r) ==
    /\ pc[r] = "replayGet"
    /\ \/ MayFind(req[r].header) /\ Goto(r, "alreadyUsed")
       \/ MayMiss(req[r].header) /\ Goto(r, "replayPut")
       \/ "kv" \in faults /\ Goto(r, "handlerError")
    /\ UNCHANGED <<reqVars, kvVars, view, moneyVars>>

\* Bug: a failed put is swallowed, as it is for receipts.
ReplayPut_Swallowed(r) ==
    /\ pc[r] = "replayPut"
    /\ \/ idem' = idem \cup {req[r].header}
       \/ "kv" \in faults /\ UNCHANGED idem
    /\ Goto(r, "work")
    /\ UNCHANGED <<reqVars, expired, logVars, latestEvent, view, moneyVars>>

\* rejectReplay's write.  A put that rejects may or may not have been applied.
ReplayPut(r) ==
    /\ pc[r] = "replayPut"
    /\ \/ /\ idem' = idem \cup {req[r].header}
          /\ Goto(r, "work")
       \/ /\ "kv" \in faults
          /\ idem' \in {idem, idem \cup {req[r].header}}
          /\ Goto(r, "handlerError")
    /\ UNCHANGED <<reqVars, expired, logVars, latestEvent, view, moneyVars>>

\* A key lives for a day (expirationTtl).  No clock: it may end at any time.
Expire(h) ==
    /\ "expire" \in faults
    /\ h \in idem
    /\ idem' = idem \ {h}
    /\ expired' = expired \cup {h}
    /\ held' = {r \in held : req[r].header # h}
    /\ UNCHANGED <<pc, req, logVars, latestEvent, view, moneyVars>>

\* Bug: the settlement is started before the resource has answered.
Work_ChargedUpFront(r) ==
    /\ pc[r] = "work"
    /\ settlement' = [settlement EXCEPT ![r] = "submitted"]
    /\ Goto(r, "await") \/ Goto(r, "handlerError")
    /\ UNCHANGED <<reqVars, kvVars, view, charges>>

\* twin.getLatestReading(): a reading, or a 503.
WorkReading(r) ==
    /\ req[r].resource = "readings"
    /\ Goto(r, "submit") \/ Goto(r, "handlerError")

\* env.AI.run(): a class, or a 503, as when there is no such binding.  The
\* handler repeats the hook's check of the input, which has passed here.
WorkInference(r) ==
    /\ req[r].resource = "inference"
    /\ \/ "AI" \in Bindings /\ Goto(r, "submit")
       \/ Goto(r, "handlerError")

\* The legacy reading is made up on the spot.
WorkLegacy(r) == req[r].resource = "legacy" /\ Goto(r, "submit")

Work(r) ==
    /\ pc[r] = "work"
    /\ WorkReading(r) \/ WorkInference(r) \/ WorkLegacy(r)
    /\ UNCHANGED <<reqVars, kvVars, view, moneyVars>>

-----------------------------------------------------------------------------
(* Settlement.  The facilitator works on its own clock: it may execute a   *)
(* transfer after the seller has given up on its answer.                   *)

\* The handler answered below 400: the middleware asks for the settlement.
Submit(r) ==
    /\ pc[r] = "submit"
    /\ settlement' = [settlement EXCEPT ![r] = "submitted"]
    /\ Goto(r, "await")
    /\ UNCHANGED <<reqVars, kvVars, view, charges>>

\* The chain takes an EIP-3009 authorization once: its nonce is then used.
ChainSettles(r) ==
    /\ settlement[r] = "submitted"
    /\ \A c \in charges : c.proof # ProofOf(r)
    /\ charges' = charges \cup {ReceiptOf(r)}
    /\ settlement' = [settlement EXCEPT ![r] = "success"]
    /\ UNCHANGED <<pc, reqVars, kvVars, view>>

ChainRejects(r) ==
    /\ settlement[r] = "submitted"
    /\ settlement' = [settlement EXCEPT ![r] = "failure"]
    /\ UNCHANGED <<pc, reqVars, kvVars, view, charges>>

\* Bug: anything that carries a payment-response header is recorded.
Recordable_AnyHeader(outcome) == outcome \in Outcomes

\* A payment-response header is set on failures too; recordSettlement goes on
\* only for success with a transaction hash.
Recordable(outcome) == outcome = "success"

\* Bug: any answer of the facilitator delivers the goods.
Settled_Unread(r) ==
    /\ pc[r] = "await"
    /\ settlement[r] \in {"success", "failure"}
    /\ Goto(r, "data")
    /\ UNCHANGED <<reqVars, kvVars, view, moneyVars>>

\* The facilitator's answer reaches the seller.
Settled(r) ==
    /\ pc[r] = "await"
    /\ settlement[r] \in {"success", "failure"}
    /\ LET recorded == /\ req[r].resource \in Gated
                       /\ HasKV
                       /\ Recordable(settlement[r])
       IN Goto(r, IF recorded THEN "logGet"
                  ELSE IF settlement[r] = "success" THEN "data"
                  ELSE "settlementFailed")
    /\ UNCHANGED <<reqVars, kvVars, view, moneyVars>>

\* Bug: failing open.
SettleCallRejects_FailOpen(r) ==
    /\ pc[r] = "await"
    /\ "call" \in faults
    /\ Goto(r, "data")
    /\ UNCHANGED <<reqVars, kvVars, view, moneyVars>>

\* The call rejects, whatever the facilitator has done or will still do.
SettleCallRejects(r) ==
    /\ pc[r] = "await"
    /\ "call" \in faults
    /\ Goto(r, CallRejected(r))
    /\ UNCHANGED <<reqVars, kvVars, view, moneyVars>>

-----------------------------------------------------------------------------
(* recordSettlement: get receipt_log, put it back with one more entry at   *)
(* its head, put latest_event.  Any rejection ends it and is swallowed.    *)

\* The answer recordSettlement's caller returns, recorded or not.
AfterRecording(r) == IF settlement[r] = "success" THEN "data" ELSE "settlementFailed"

\* What a read may return once the log has been put: the log itself or, where
\* reads are stale, any earlier one, with entries cut or overwritten since.
Readable(l) == {l} \cup (IF "stale" \in faults THEN versions ELSE {})

Newest(l) == SubSeq(l, 1, IF Len(l) > LogMax THEN LogMax ELSE Len(l))

LogGet(r) ==
    /\ pc[r] = "logGet"
    /\ \/ /\ \E l \in versions : view' = [view EXCEPT ![r] = l]
          /\ Goto(r, "logPut")
       \/ /\ "kv" \in faults
          /\ Goto(r, AfterRecording(r))
          /\ UNCHANGED view
    /\ UNCHANGED <<reqVars, kvVars, moneyVars>>

\* Bug: a put that rejects is tried again from the read, for ever.
LogPut_RetriesForEver(r) ==
    /\ pc[r] = "logPut"
    /\ \/ log' = Newest(<<ReceiptOf(r)>> \o view[r]) /\ Goto(r, "eventPut")
       \/ "kv" \in faults /\ Goto(r, "logGet") /\ UNCHANGED log
    /\ versions' = Readable(log')
    /\ view' = [view EXCEPT ![r] = << >>]
    /\ UNCHANGED <<reqVars, keyVars, latestEvent, moneyVars>>

LogPut(r) ==
    /\ pc[r] = "logPut"
    /\ LET written == Newest(<<ReceiptOf(r)>> \o view[r])
       IN \/ /\ log' = written
             /\ Goto(r, "eventPut")
          \/ /\ "kv" \in faults
             /\ log' \in {log, written}
             /\ Goto(r, AfterRecording(r))
    /\ versions' = Readable(log')
    /\ view' = [view EXCEPT ![r] = << >>]
    /\ UNCHANGED <<reqVars, keyVars, latestEvent, moneyVars>>

EventPut(r) ==
    /\ pc[r] = "eventPut"
    /\ \/ latestEvent' = ReceiptOf(r)
       \/ "kv" \in faults /\ UNCHANGED latestEvent
    /\ Goto(r, AfterRecording(r))
    /\ UNCHANGED <<reqVars, keyVars, logVars, view, moneyVars>>

-----------------------------------------------------------------------------
\* The client goes away or the isolate is evicted: the code after the current
\* await never runs.  What was already sent to KV or the facilitator stands.
Abort(r) ==
    /\ "abort" \in faults
    /\ InFlight(r)
    /\ Goto(r, "aborted")
    /\ view' = [view EXCEPT ![r] = << >>]
    /\ UNCHANGED <<reqVars, kvVars, moneyVars>>

\* What the seller's code and the services it awaits do for request r.
Progress(r) ==
    \/ Validate(r) \/ EnforceRateLimit(r) \/ CheckMandate(r) \/ Screen(r) \/ Verify(r)
    \/ ReplayGet(r) \/ ReplayPut(r) \/ Work(r)
    \/ Submit(r) \/ Settled(r) \/ SettleCallRejects(r)
    \/ LogGet(r) \/ LogPut(r) \/ EventPut(r)

Facilitator(r) == ChainSettles(r) \/ ChainRejects(r)

Next == /\ \/ \E r \in Request : Arrive(r) \/ Progress(r) \/ Facilitator(r) \/ Abort(r)
           \/ \E h \in Header : Expire(h)
        /\ UNCHANGED faults

Spec == Init /\ [][Next]_vars

\* No call to the facilitator has a time limit, neither for verification nor
\* for settlement.
AwaitsFacilitator(r) == \/ pc[r] = "verify" /\ ProofOf(r) # NoProof
                        \/ pc[r] = "await"

\* The code runs on and what else it awaits, KV and Durable Objects, answers or
\* rejects.  The facilitator and the clients owe nothing here, and no request
\* has to be aborted.
Fairness == \A r \in Request :
    WF_vars(Progress(r) /\ ~AwaitsFacilitator(r) /\ UNCHANGED faults)

FairSpec == Spec /\ Fairness

-----------------------------------------------------------------------------
(* Properties.                                                             *)

\* paid-route.ts:339-340 "there is no window in which a settled payment lacks
\* its replay key": whenever a transfer has been executed for a request that
\* went through rejectReplay, the key of the very text it sent has been put
\* before, and is in KV still unless its day is over, whatever was interleaved,
\* lost or aborted.
KeyBeforeCharge ==
    HasKV => \A c \in charges : req[c.request].resource \in Gated =>
                                   req[c.request].header \in idem \cup expired

\* An unsettled response is never delivered, and two requests racing with one
\* proof get the goods at most once: each delivery has a charge made for that
\* very request, and no proof is charged twice.
DeliveredOncePerCharge ==
    /\ \A r \in Request : pc[r] = "data" => ReceiptOf(r) \in charges
    /\ \A r, s \in Request : /\ pc[r] = "data" /\ pc[s] = "data"
                             /\ ProofOf(r) = ProofOf(s)
                             => r = s

\* ERRORS.md "A failed response is never charged", as far as it is true: when an
\* error answered to a request that was not dropped turns out to be charged, the
\* call for its settlement has rejected, and the answer is the one the route has
\* for that, the 503 of the gate or the bare 500 of the legacy route.  No answer
\* given before the settlement or in knowledge of its outcome is ever charged,
\* not even later.
FailureIsFree ==
    \A r \in Request :
        pc[r] \in Refusals \ {"aborted"} /\ ReceiptOf(r) \in charges =>
            "call" \in faults /\ pc[r] = CallRejected(r)

\* The receipt log and the live event speak of real settlements only, and no
\* settlement is in the log twice: not for a failed settlement that carries a
\* payment-response header, not after two recordSettlements have interleaved.
LedgerIsTrue ==
    /\ Entries(log) \subseteq charges
    /\ latestEvent \in charges \cup {NoEvent}
    /\ \A i, j \in 1 .. Len(log) : log[i] = log[j] => i = j

\* A header that has had its key in KV ever since its request came in never gets
\* past rejectReplay, as long as KV shows what was written to it: not when the
\* put of that key was answered with an error, not while others with the same
\* proof are on their way.  Another text of the same proof, or a key whose day
\* is over, is left to the chain (DeliveredOncePerCharge).
NoLateReplay ==
    ("stale" \notin faults /\ HasKV) =>
        \A r \in held :
            req[r].resource \in Gated =>
                /\ pc[r] \notin {"replayPut", "work", "submit", "await", "data"}
                /\ ReceiptOf(r) \notin charges

\* No money moves before identity and authorization are settled: whatever the
\* facilitator was asked to settle had passed every check of the gate.
OnlyAuthorizedSettle ==
    \A r \in Request :
        settlement[r] # "none" =>
            /\ ProofOf(r) \notin Mismatched \cup Unverifiable \cup {NoProof}
            /\ req[r].resource \in Gated =>
                  /\ req[r].input = "ok"
                  /\ req[r].mandate # "bad"
                  /\ RequireMandate => req[r].mandate = "good"

\* Every request that arrives is answered or dropped, unless the facilitator
\* never answers: the code sets no limit to that wait, though ERRORS.md:30
\* documents a facilitator_timeout after 8 seconds.  Nothing else keeps a request
\* for ever, whatever fails.
EveryRequestAnswered ==
    \A r \in Request : (InFlight(r) ~> pc[r] \in Ended) \/ <>[]AwaitsFacilitator(r)

Outcome(r) == IF pc[r] = "data" THEN "data"
              ELSE IF pc[r] \in Refusals THEN "refused" ELSE "open"

Ideal == INSTANCE IdealSale WITH sold <- charges,
                                 outcome <- [r \in Request |-> Outcome(r)]
IdealSpec == Ideal!Spec
=============================================================================
