--------------------------- MODULE PaidRouteProofs ---------------------------
(***************************************************************************)
(* What holds of the payment gate for every number of requests and proofs, *)
(* every length of the log and every combination of faults.  The argument  *)
(* is one inductive invariant, Inv: it says, for each request, what the    *)
(* step it has reached implies about KV and about the chain.               *)
(***************************************************************************)
EXTENDS PaidRoute, TLAPS

\* Steps a gated request reaches only with its replay key written.
Cleared == {"work", "submit", "await", "logGet", "logPut", "eventPut", "data"}

\* Steps a request is in, or answers it has got, once it asked for settlement.
Settling == {"await", "logGet", "logPut", "eventPut", "data",
             "settlementFailed", "facilitatorError", "serverError", "aborted"}

\* Steps at which the seller has read that the settlement succeeded.
Sold == {"logGet", "logPut", "eventPut", "data"}

KeyHeld ==
    HasKV => \A r \in Request :
                (req[r].resource \in Gated /\ (pc[r] \in Cleared \/ settlement[r] # "none"))
                    => req[r].header \in idem \cup expired

ChargeIsSettlement ==
    /\ \A c \in charges : c.proof = ProofOf(c.request) /\ settlement[c.request] = "success"
    /\ \A c, d \in charges : c.proof = d.proof => c = d
    /\ \A r \in Request : settlement[r] = "success" => ReceiptOf(r) \in charges

StepMatchesSettlement ==
    \A r \in Request :
        /\ settlement[r] # "none" => pc[r] \in Settling
        /\ pc[r] \in Sold => settlement[r] = "success"
        /\ pc[r] = "settlementFailed" => settlement[r] = "failure"
        /\ settlement[r] # "none" /\ pc[r] \in {"facilitatorError", "serverError"}
              => "call" \in faults /\ pc[r] = CallRejected(r)

\* Has passed every check that stands before the payment middleware.
Admitted(r) ==
    req[r].resource \in Gated =>
        /\ req[r].input = "ok"
        /\ req[r].mandate # "bad"
        /\ RequireMandate => req[r].mandate = "good"
        /\ ProofOf(r) \notin Mismatched

GateOrder ==
    \A r \in Request :
        /\ pc[r] \in {"limit", "mandate", "screen"} /\ req[r].resource \in Gated
              => req[r].input = "ok"
        /\ pc[r] = "screen" /\ req[r].resource \in Gated
              => req[r].mandate # "bad" /\ (RequireMandate => req[r].mandate = "good")
        /\ pc[r] = "verify" => Admitted(r)
        /\ (pc[r] \in {"replayGet", "replayPut"} \cup Cleared \/ settlement[r] # "none")
              => Admitted(r) /\ ProofOf(r) \in Proof \ (Unverifiable \cup Mismatched)

Inv == TypeOK /\ KeyHeld /\ ChargeIsSettlement /\ StepMatchesSettlement /\ GateOrder

-----------------------------------------------------------------------------
\* What a log read back and written again is made of (recordSettlement,
\* paid-route.ts:195-198): at most LogMax receipts, all of them old or new.
LEMMA NewestIsLog ==
    ASSUME NEW l \in Seq(Receipt)
    PROVE  /\ Newest(l) \in Seq(Receipt)
           /\ Len(Newest(l)) <= LogMax
  BY PaidRouteAssumption DEF Newest

LEMMA EmptyLog == << >> \in Seq(Receipt) /\ Len(<< >>) <= LogMax
  BY PaidRouteAssumption

LEMMA OneMoreReceipt ==
    ASSUME NEW l \in Seq(Receipt), NEW x \in Receipt
    PROVE  /\ Newest(<<x>> \o l) \in Seq(Receipt)
           /\ Len(Newest(<<x>> \o l)) <= LogMax
  <1>1. <<x>> \o l \in Seq(Receipt)
    OBVIOUS
  <1> QED BY <1>1, NewestIsLog

LEMMA ViewUpdate ==
    ASSUME NEW v \in [Request -> Seq(Receipt)],
           \A s \in Request : Len(v[s]) <= LogMax,
           NEW r \in Request,
           NEW l \in Seq(Receipt), Len(l) <= LogMax
    PROVE  /\ [v EXCEPT ![r] = l] \in [Request -> Seq(Receipt)]
           /\ \A s \in Request : Len([v EXCEPT ![r] = l][s]) <= LogMax
  OBVIOUS

\* A step of a request that has not asked for settlement says nothing of one.
LEMMA BeforeSettlement ==
    ASSUME StepMatchesSettlement, NEW r \in Request, settlement[r] = "none",
           UNCHANGED <<faults, req, settlement>>,
           pc'[r] \notin Sold \cup {"settlementFailed"},
           \A s \in Request \ {r} : pc'[s] = pc[s]
    PROVE  StepMatchesSettlement'
  BY DEF StepMatchesSettlement, CallRejected

\* Every request starts outside the gate, and nothing has been charged.
LEMMA InitInv == Init => Inv
  <1> SUFFICES ASSUME Init PROVE Inv
    OBVIOUS
  <1> USE DEF Init
  <1>1. TypeOK
    BY PaidRouteAssumption DEF TypeOK, Steps, Ended, Arrival, Resource, Outcomes
  <1>2. KeyHeld
    BY DEF KeyHeld, Cleared
  <1>3. ChargeIsSettlement
    BY DEF ChargeIsSettlement
  <1>4. StepMatchesSettlement
    BY DEF StepMatchesSettlement, Settling, Sold, CallRejected
  <1>5. GateOrder
    BY DEF GateOrder, Cleared
  <1> QED BY <1>1, <1>2, <1>3, <1>4, <1>5 DEF Inv

LEMMA NextInv == Inv /\ [Next]_vars => Inv'
  <1> SUFFICES ASSUME Inv, [Next]_vars, faults' = faults PROVE Inv'
    BY DEF Next, vars
  <1> USE PaidRouteAssumption
      DEF Inv, TypeOK, Goto, kvVars, keyVars, logVars, reqVars, moneyVars, ProofOf, ReceiptOf,
          Steps, Refusals, Ended, Outcomes, Receipt, Gated
  <1>1. ASSUME NEW r \in Request, Arrive(r) PROVE Inv'
    <2> USE <1>1 DEF Arrive
    <2>0. PICK a \in Arrival : /\ req' = [req EXCEPT ![r] = a]
                              /\ pc' = [pc EXCEPT ![r] = IF a.resource = "legacy"
                                                       THEN "verify" ELSE "validate"]
      BY DEF Resource
    <2>a. settlement[r] = "none"
      BY DEF StepMatchesSettlement, Settling
    <2>b. \A c \in charges : c.request # r
      BY <2>a DEF ChargeIsSettlement
    <2>c. \A s \in Request \ {r} : req'[s] = req[s] /\ pc'[s] = pc[s]
      BY <2>0
    <2>d. req'[r] = a /\ pc'[r] \in {"verify", "validate"}
      BY <2>0
    <2>1. TypeOK'
      BY <2>0
    <2>2. KeyHeld'
      BY <2>a, <2>c, <2>d DEF KeyHeld, Cleared, HasKV
    <2>3. ChargeIsSettlement'
      BY <2>a, <2>b, <2>c DEF ChargeIsSettlement
    <2>4. StepMatchesSettlement'
      BY <2>a, <2>c, <2>d DEF StepMatchesSettlement, Sold, Settling, CallRejected
    <2>5. GateOrder'
      <3>1. pc'[r] = "verify" => a.resource \notin Gated
        BY <2>0
      <3> QED
        BY <3>1, <2>a, <2>c, <2>d DEF GateOrder, Admitted, Cleared
    <2> QED BY <2>1, <2>2, <2>3, <2>4, <2>5
  <1>2. ASSUME NEW r \in Request, Validate(r) PROVE Inv'
    <2> USE <1>2 DEF Validate, InputRefused
    <2>1. TypeOK'
      OBVIOUS
    <2>2. KeyHeld'
      BY DEF KeyHeld, Cleared, HasKV, StepMatchesSettlement, Settling
    <2>3. ChargeIsSettlement'
      BY DEF ChargeIsSettlement, StepMatchesSettlement, Settling
    <2>4. StepMatchesSettlement'
      <3>1. settlement[r] = "none"
        BY DEF StepMatchesSettlement, Settling
      <3>2. pc'[r] \notin Sold \cup {"settlementFailed"}
        BY DEF Sold
      <3>3. UNCHANGED <<req, settlement>> /\ \A s \in Request \ {r} : pc'[s] = pc[s]
        OBVIOUS
      <3> QED BY <3>1, <3>2, <3>3, BeforeSettlement
    <2>a. ~InputRefused(r) => req[r].input = "ok"
      BY DEF Arrival
    <2>5. GateOrder'
      BY <2>a DEF GateOrder, Admitted, Cleared, StepMatchesSettlement, Settling
    <2> QED BY <2>1, <2>2, <2>3, <2>4, <2>5
  <1>3. ASSUME NEW r \in Request, EnforceRateLimit(r) PROVE Inv'
    <2> USE <1>3 DEF EnforceRateLimit
    <2>1. TypeOK'
      OBVIOUS
    <2>2. KeyHeld'
      BY DEF KeyHeld, Cleared, HasKV, StepMatchesSettlement, Settling
    <2>3. ChargeIsSettlement'
      BY DEF ChargeIsSettlement, StepMatchesSettlement, Settling
    <2>4. StepMatchesSettlement'
      <3>1. settlement[r] = "none"
        BY DEF StepMatchesSettlement, Settling
      <3>2. pc'[r] \notin Sold \cup {"settlementFailed"}
        BY DEF Sold
      <3>3. UNCHANGED <<req, settlement>> /\ \A s \in Request \ {r} : pc'[s] = pc[s]
        OBVIOUS
      <3> QED BY <3>1, <3>2, <3>3, BeforeSettlement
    <2>5. GateOrder'
      BY DEF GateOrder, Admitted, Cleared, StepMatchesSettlement, Settling
    <2> QED BY <2>1, <2>2, <2>3, <2>4, <2>5
  <1>4. ASSUME NEW r \in Request, CheckMandate(r) PROVE Inv'
    <2> USE <1>4 DEF CheckMandate
    <2>1. TypeOK'
      OBVIOUS
    <2>2. KeyHeld'
      BY DEF KeyHeld, Cleared, HasKV, StepMatchesSettlement, Settling
    <2>3. ChargeIsSettlement'
      BY DEF ChargeIsSettlement, StepMatchesSettlement, Settling
    <2>4. StepMatchesSettlement'
      BY DEF StepMatchesSettlement, Settling, Sold, CallRejected
    <2>5. GateOrder'
      <3>1. \A s \in Request \ {r} : pc'[s] = pc[s]
        OBVIOUS
      <3>2. pc'[r] \in {"mandateRefused", "verify", "screen"} /\ settlement[r] = "none"
        BY DEF StepMatchesSettlement, Settling
      <3>3. pc'[r] # "mandateRefused" =>
              req[r].mandate # "bad" /\ (RequireMandate => req[r].mandate = "good")
        <4>1. CASE req[r].mandate = "bad"
          BY <4>1
        <4>2. CASE req[r].mandate = "none" /\ RequireMandate
          BY <4>2
        <4>3. req[r].mandate \in {"none", "good", "bad"}
          BY DEF Arrival
        <4> QED BY <4>1, <4>2, <4>3
      <3>4. pc'[r] = "verify" => ProofOf(r) \notin Mismatched
        OBVIOUS
      <3> QED
        BY <3>1, <3>2, <3>3, <3>4 DEF GateOrder, Admitted, Cleared
    <2> QED BY <2>1, <2>2, <2>3, <2>4, <2>5
  <1>5. ASSUME NEW r \in Request, Screen(r) PROVE Inv'
    <2> USE <1>5 DEF Screen
    <2>1. TypeOK'
      OBVIOUS
    <2>2. KeyHeld'
      BY DEF KeyHeld, Cleared, HasKV, StepMatchesSettlement, Settling
    <2>3. ChargeIsSettlement'
      BY DEF ChargeIsSettlement, StepMatchesSettlement, Settling
    <2>4. StepMatchesSettlement'
      BY DEF StepMatchesSettlement, Settling, Sold, CallRejected
    <2>5. GateOrder'
      BY DEF GateOrder, Admitted, Cleared, StepMatchesSettlement, Settling
    <2> QED BY <2>1, <2>2, <2>3, <2>4, <2>5
  <1>6. ASSUME NEW r \in Request, Verify(r) PROVE Inv'
    <2> USE <1>6 DEF Verify, CallRejected
    <2>1. TypeOK'
      OBVIOUS
    <2>2. KeyHeld'
      BY DEF KeyHeld, Cleared, HasKV, StepMatchesSettlement, Settling
    <2>3. ChargeIsSettlement'
      BY DEF ChargeIsSettlement, StepMatchesSettlement, Settling
    <2>4. StepMatchesSettlement'
      <3>1. settlement[r] = "none"
        BY DEF StepMatchesSettlement, Settling
      <3>2. pc'[r] \notin Sold \cup {"settlementFailed"}
        BY DEF Sold
      <3>3. UNCHANGED <<req, settlement>> /\ \A s \in Request \ {r} : pc'[s] = pc[s]
        OBVIOUS
      <3> QED BY <3>1, <3>2, <3>3, BeforeSettlement
    <2>5. GateOrder'
      BY DEF GateOrder, Admitted, Cleared, StepMatchesSettlement, Settling
    <2> QED BY <2>1, <2>2, <2>3, <2>4, <2>5
  <1>7. ASSUME NEW r \in Request, ReplayGet(r) PROVE Inv'
    <2> USE <1>7 DEF ReplayGet
    <2>1. TypeOK'
      OBVIOUS
    <2>2. KeyHeld'
      BY DEF KeyHeld, Cleared, HasKV, StepMatchesSettlement, Settling
    <2>3. ChargeIsSettlement'
      BY DEF ChargeIsSettlement, StepMatchesSettlement, Settling
    <2>4. StepMatchesSettlement'
      <3>1. settlement[r] = "none"
        BY DEF StepMatchesSettlement, Settling
      <3>2. pc'[r] \notin Sold \cup {"settlementFailed"}
        BY DEF Sold
      <3>3. UNCHANGED <<req, settlement>> /\ \A s \in Request \ {r} : pc'[s] = pc[s]
        OBVIOUS
      <3> QED BY <3>1, <3>2, <3>3, BeforeSettlement
    <2>5. GateOrder'
      BY DEF GateOrder, Admitted, Cleared, StepMatchesSettlement, Settling
    <2> QED BY <2>1, <2>2, <2>3, <2>4, <2>5
  <1>8. ASSUME NEW r \in Request, ReplayPut(r) PROVE Inv'
    <2> USE <1>8 DEF ReplayPut
    <2>1. TypeOK'
      <3>1. req[r].header \in Header
        <4>1. ProofOf(r) \in Proof
          BY DEF GateOrder
        <4> QED BY <4>1 DEF Arrival, NoHeader
      <3> QED BY <3>1
    <2>2. KeyHeld'
      BY DEF KeyHeld, Cleared, HasKV, StepMatchesSettlement, Settling
    <2>3. ChargeIsSettlement'
      BY DEF ChargeIsSettlement, StepMatchesSettlement, Settling
    <2>4. StepMatchesSettlement'
      <3>1. settlement[r] = "none"
        BY DEF StepMatchesSettlement, Settling
      <3>2. pc'[r] \notin Sold \cup {"settlementFailed"}
        BY DEF Sold
      <3>3. UNCHANGED <<req, settlement>> /\ \A s \in Request \ {r} : pc'[s] = pc[s]
        OBVIOUS
      <3> QED BY <3>1, <3>2, <3>3, BeforeSettlement
    <2>5. GateOrder'
      BY DEF GateOrder, Admitted, Cleared, StepMatchesSettlement, Settling
    <2> QED BY <2>1, <2>2, <2>3, <2>4, <2>5
  <1>9. ASSUME NEW r \in Request, Work(r) PROVE Inv'
    <2> USE <1>9 DEF Work, WorkReading, WorkInference, WorkLegacy
    <2>1. TypeOK'
      OBVIOUS
    <2>2. KeyHeld'
      BY DEF KeyHeld, Cleared, HasKV, StepMatchesSettlement, Settling
    <2>3. ChargeIsSettlement'
      BY DEF ChargeIsSettlement, StepMatchesSettlement, Settling
    <2>4. StepMatchesSettlement'
      <3>1. settlement[r] = "none"
        BY DEF StepMatchesSettlement, Settling
      <3>2. pc'[r] \notin Sold \cup {"settlementFailed"}
        BY DEF Sold
      <3>3. UNCHANGED <<req, settlement>> /\ \A s \in Request \ {r} : pc'[s] = pc[s]
        OBVIOUS
      <3> QED BY <3>1, <3>2, <3>3, BeforeSettlement
    <2>5. GateOrder'
      BY DEF GateOrder, Admitted, Cleared, StepMatchesSettlement, Settling
    <2> QED BY <2>1, <2>2, <2>3, <2>4, <2>5
  <1>10. ASSUME NEW r \in Request, Submit(r) PROVE Inv'
    <2> USE <1>10 DEF Submit
    <2>1. TypeOK'
      OBVIOUS
    <2>2. KeyHeld'
      BY DEF KeyHeld, Cleared, HasKV, StepMatchesSettlement, Settling
    <2>3. ChargeIsSettlement'
      <3>1. settlement[r] = "none"
        BY DEF StepMatchesSettlement, Settling
      <3>2. \A c \in charges : c.request # r
        BY <3>1 DEF ChargeIsSettlement
      <3> QED
        BY <3>1, <3>2 DEF ChargeIsSettlement
    <2>4. StepMatchesSettlement'
      BY DEF StepMatchesSettlement, Settling, Sold, CallRejected
    <2>5. GateOrder'
      BY DEF GateOrder, Admitted, Cleared, StepMatchesSettlement, Settling
    <2> QED BY <2>1, <2>2, <2>3, <2>4, <2>5
  <1>11. ASSUME NEW r \in Request, Settled(r) PROVE Inv'
    <2> USE <1>11 DEF Settled, Recordable, HasKV
    <2>1. TypeOK'
      OBVIOUS
    <2>2. KeyHeld'
      BY DEF KeyHeld, Cleared, HasKV, StepMatchesSettlement, Settling
    <2>3. ChargeIsSettlement'
      BY DEF ChargeIsSettlement, StepMatchesSettlement, Settling
    <2>4. StepMatchesSettlement'
      BY DEF StepMatchesSettlement, Settling, Sold, CallRejected
    <2>5. GateOrder'
      BY DEF GateOrder, Admitted, Cleared, StepMatchesSettlement, Settling
    <2> QED BY <2>1, <2>2, <2>3, <2>4, <2>5
  <1>12. ASSUME NEW r \in Request, SettleCallRejects(r) PROVE Inv'
    <2> USE <1>12 DEF SettleCallRejects, CallRejected
    <2>1. TypeOK'
      OBVIOUS
    <2>2. KeyHeld'
      BY DEF KeyHeld, Cleared, HasKV, StepMatchesSettlement, Settling
    <2>3. ChargeIsSettlement'
      BY DEF ChargeIsSettlement, StepMatchesSettlement, Settling
    <2>4. StepMatchesSettlement'
      BY DEF StepMatchesSettlement, Settling, Sold, CallRejected
    <2>5. GateOrder'
      BY DEF GateOrder, Admitted, Cleared, StepMatchesSettlement, Settling
    <2> QED BY <2>1, <2>2, <2>3, <2>4, <2>5
  <1>13. ASSUME NEW r \in Request, LogGet(r) PROVE Inv'
    <2> USE <1>13 DEF LogGet, AfterRecording
    <2>1. TypeOK'
      <3>1. view' \in [Request -> Seq(Receipt)] /\ (\A s \in Request : Len(view'[s]) <= LogMax)
        <4>1. CASE UNCHANGED view
          BY <4>1
        <4>2. ASSUME NEW l \in versions, view' = [view EXCEPT ![r] = l]
              PROVE  /\ view' \in [Request -> Seq(Receipt)]
                     /\ \A s \in Request : Len(view'[s]) <= LogMax
          BY <4>2, ViewUpdate
        <4> QED BY <4>1, <4>2
      <3> QED BY <3>1
    <2>2. KeyHeld'
      BY DEF KeyHeld, Cleared, HasKV, StepMatchesSettlement, Settling
    <2>3. ChargeIsSettlement'
      BY DEF ChargeIsSettlement, StepMatchesSettlement, Settling
    <2>4. StepMatchesSettlement'
      BY DEF StepMatchesSettlement, Settling, Sold, CallRejected
    <2>5. GateOrder'
      BY DEF GateOrder, Admitted, Cleared, StepMatchesSettlement, Settling
    <2> QED BY <2>1, <2>2, <2>3, <2>4, <2>5
  <1>14. ASSUME NEW r \in Request, LogPut(r) PROVE Inv'
    <2> USE <1>14 DEF LogPut, AfterRecording
    <2>0. ReceiptOf(r) \in Receipt
      BY DEF GateOrder, Cleared
    <2>1. TypeOK'
      <3>1. /\ Newest(<<ReceiptOf(r)>> \o view[r]) \in Seq(Receipt)
            /\ Len(Newest(<<ReceiptOf(r)>> \o view[r])) <= LogMax
        BY <2>0, OneMoreReceipt
      <3>0. log' \in Seq(Receipt) /\ Len(log') <= LogMax
        <4>1. log \in Seq(Receipt) /\ Len(log) <= LogMax
          OBVIOUS
        <4>2. log' = log \/ log' = Newest(<<ReceiptOf(r)>> \o view[r])
          OBVIOUS
        <4> QED BY <3>1, <4>1, <4>2
      <3>2. /\ log' \in versions'
            /\ versions' \subseteq Seq(Receipt)
            /\ \A l \in versions' : Len(l) <= LogMax
        <4>1. versions' = Readable(log')
          OBVIOUS
        <4>2. log' \in versions' /\ versions' \subseteq versions \cup {log'}
          BY <4>1 DEF Readable
        <4> QED BY <3>0, <4>2
      <3>3. view' \in [Request -> Seq(Receipt)] /\ (\A s \in Request : Len(view'[s]) <= LogMax)
        BY ViewUpdate, EmptyLog
      <3> QED BY <3>2, <3>3
    <2>2. KeyHeld'
      BY DEF KeyHeld, Cleared, HasKV, StepMatchesSettlement, Settling
    <2>3. ChargeIsSettlement'
      BY DEF ChargeIsSettlement, StepMatchesSettlement, Settling
    <2>4. StepMatchesSettlement'
      BY DEF StepMatchesSettlement, Settling, Sold, CallRejected
    <2>5. GateOrder'
      BY DEF GateOrder, Admitted, Cleared, StepMatchesSettlement, Settling
    <2> QED BY <2>1, <2>2, <2>3, <2>4, <2>5
  <1>15. ASSUME NEW r \in Request, EventPut(r) PROVE Inv'
    <2> USE <1>15 DEF EventPut, AfterRecording
    <2>0. ReceiptOf(r) \in Receipt
      BY DEF GateOrder, Cleared
    <2>1. TypeOK'
      BY <2>0
    <2>2. KeyHeld'
      BY DEF KeyHeld, Cleared, HasKV, StepMatchesSettlement, Settling
    <2>3. ChargeIsSettlement'
      BY DEF ChargeIsSettlement, StepMatchesSettlement, Settling
    <2>4. StepMatchesSettlement'
      BY DEF StepMatchesSettlement, Settling, Sold, CallRejected
    <2>5. GateOrder'
      BY DEF GateOrder, Admitted, Cleared, StepMatchesSettlement, Settling
    <2> QED BY <2>1, <2>2, <2>3, <2>4, <2>5
  <1>16. ASSUME NEW r \in Request, ChainSettles(r) PROVE Inv'
    <2> USE <1>16 DEF ChainSettles
    <2>0. ReceiptOf(r) \in Receipt
      BY DEF GateOrder, Cleared
    <2>1. TypeOK'
      BY <2>0
    <2>2. KeyHeld'
      BY DEF KeyHeld, Cleared, HasKV, StepMatchesSettlement, Settling
    <2>3. ChargeIsSettlement'
      BY DEF ChargeIsSettlement, StepMatchesSettlement, Settling
    <2>4. StepMatchesSettlement'
      BY DEF StepMatchesSettlement, Settling, Sold, CallRejected
    <2>5. GateOrder'
      BY DEF GateOrder, Admitted, Cleared, StepMatchesSettlement, Settling
    <2> QED BY <2>1, <2>2, <2>3, <2>4, <2>5
  <1>17. ASSUME NEW r \in Request, ChainRejects(r) PROVE Inv'
    <2> USE <1>17 DEF ChainRejects
    <2>1. TypeOK'
      OBVIOUS
    <2>2. KeyHeld'
      BY DEF KeyHeld, Cleared, HasKV, StepMatchesSettlement, Settling
    <2>3. ChargeIsSettlement'
      BY DEF ChargeIsSettlement, StepMatchesSettlement, Settling
    <2>4. StepMatchesSettlement'
      BY DEF StepMatchesSettlement, Settling, Sold, CallRejected
    <2>5. GateOrder'
      BY DEF GateOrder, Admitted, Cleared, StepMatchesSettlement, Settling
    <2> QED BY <2>1, <2>2, <2>3, <2>4, <2>5
  <1>18. ASSUME NEW r \in Request, Abort(r) PROVE Inv'
    <2> USE <1>18 DEF Abort, InFlight
    <2>1. TypeOK'
      <3>1. view' \in [Request -> Seq(Receipt)] /\ (\A s \in Request : Len(view'[s]) <= LogMax)
        BY ViewUpdate, EmptyLog
      <3> QED BY <3>1
    <2>2. KeyHeld'
      BY DEF KeyHeld, Cleared, HasKV, StepMatchesSettlement, Settling
    <2>3. ChargeIsSettlement'
      BY DEF ChargeIsSettlement, StepMatchesSettlement, Settling
    <2>4. StepMatchesSettlement'
      BY DEF StepMatchesSettlement, Settling, Sold, CallRejected
    <2>5. GateOrder'
      BY DEF GateOrder, Admitted, Cleared, StepMatchesSettlement, Settling
    <2> QED BY <2>1, <2>2, <2>3, <2>4, <2>5
  <1>20. ASSUME NEW h \in Header, Expire(h) PROVE Inv'
    <2> USE <1>20 DEF Expire
    <2>1. TypeOK'
      OBVIOUS
    <2>2. KeyHeld'
      BY DEF KeyHeld, HasKV
    <2>3. ChargeIsSettlement'
      BY DEF ChargeIsSettlement
    <2>4. StepMatchesSettlement'
      BY DEF StepMatchesSettlement, CallRejected
    <2>5. GateOrder'
      BY DEF GateOrder, Admitted
    <2> QED BY <2>1, <2>2, <2>3, <2>4, <2>5
  <1>19. CASE UNCHANGED vars
    <2> USE <1>19 DEF vars
    <2>1. TypeOK'
      OBVIOUS
    <2>2. KeyHeld'
      BY DEF KeyHeld, HasKV
    <2>3. ChargeIsSettlement'
      BY DEF ChargeIsSettlement
    <2>4. StepMatchesSettlement'
      BY DEF StepMatchesSettlement, CallRejected
    <2>5. GateOrder'
      BY DEF GateOrder, Admitted
    <2> QED BY <2>1, <2>2, <2>3, <2>4, <2>5
  <1> QED
    BY <1>1, <1>2, <1>3, <1>4, <1>5, <1>6, <1>7, <1>8, <1>9, <1>10, <1>11, <1>12, <1>13, <1>14, <1>15, <1>16, <1>17, <1>18, <1>19, <1>20 DEF Next, Progress, Facilitator

-----------------------------------------------------------------------------
\* Theorems of the specification.

THEOREM Invariance == Spec => []Inv
  <1> QED BY InitInv, NextInv, PTL DEF Spec

\* The variables keep their types: the log never outgrows its bound.
THEOREM TypeCorrect == Spec => []TypeOK
  <1>1. Inv => TypeOK
    BY DEF Inv
  <1> QED BY <1>1, Invariance, PTL

\* paid-route.ts:339-340: no transfer is ever executed for a gated request
\* before the replay key of its proof is in KV.
THEOREM KeyBeforeChargeHolds == Spec => []KeyBeforeCharge
  <1>1. Inv => KeyBeforeCharge
    BY DEF Inv, KeyBeforeCharge, KeyHeld, ChargeIsSettlement, TypeOK, Receipt, ProofOf
  <1> QED BY <1>1, Invariance, PTL

\* An unsettled response is never delivered, and racing requests with one
\* proof are served once.
THEOREM DeliveredOncePerChargeHolds == Spec => []DeliveredOncePerCharge
  <1>1. Inv => DeliveredOncePerCharge
    BY DEF Inv, DeliveredOncePerCharge, ChargeIsSettlement, StepMatchesSettlement,
       Sold, TypeOK, ReceiptOf
  <1> QED BY <1>1, Invariance, PTL

\* ERRORS.md "A failed response is never charged", for every answer the seller
\* gives knowing how the settlement ended.
THEOREM FailureIsFreeHolds == Spec => []FailureIsFree
  <1>1. Inv => FailureIsFree
    BY DEF Inv, FailureIsFree, ChargeIsSettlement, StepMatchesSettlement,
       Settling, Refusals, ReceiptOf, CallRejected
  <1> QED BY <1>1, Invariance, PTL

\* Identity, authorization and the screen come before any money moves.
THEOREM OnlyAuthorizedSettleHolds == Spec => []OnlyAuthorizedSettle
  <1>1. Inv => OnlyAuthorizedSettle
    BY PaidRouteAssumption DEF Inv, OnlyAuthorizedSettle, GateOrder, Admitted
  <1> QED BY <1>1, Invariance, PTL

-----------------------------------------------------------------------------
(* The receipt log.  Two recordSettlements may interleave: each writes back *)
(* the log it has read with its own receipt at the head.                    *)

NoDuplicates(l) == \A i, j \in 1 .. Len(l) : l[i] = l[j] => i = j

\* Answers and steps of a request whose receipt may have been written.
Written == {"eventPut", "data", "aborted"}

\* e is the receipt of a settlement whose recordSettlement has put the log.
Genuine(e) == e \in charges /\ pc[e.request] \in Written

LogInv == /\ \A e \in Entries(log) : Genuine(e)
          /\ \A l \in versions : (\A e \in Entries(l) : Genuine(e)) /\ NoDuplicates(l)
          /\ \A r \in Request : \A e \in Entries(view[r]) : Genuine(e)
          /\ latestEvent # NoEvent => Genuine(latestEvent)
          /\ NoDuplicates(log)
          /\ \A r \in Request : NoDuplicates(view[r])

LEMMA NewestEntries ==
    ASSUME NEW l \in Seq(Receipt)
    PROVE  /\ Entries(Newest(l)) \subseteq Entries(l)
           /\ NoDuplicates(l) => NoDuplicates(Newest(l))
  BY PaidRouteAssumption DEF Newest, Entries, NoDuplicates

LEMMA HeadEntries ==
    ASSUME NEW l \in Seq(Receipt), NEW x \in Receipt
    PROVE  /\ Entries(<<x>> \o l) \subseteq Entries(l) \cup {x}
           /\ NoDuplicates(l) /\ x \notin Entries(l) => NoDuplicates(<<x>> \o l)
  <1> DEFINE s == <<x>> \o l
  <1>1. /\ Len(l) \in Nat
        /\ Len(s) = Len(l) + 1
        /\ s[1] = x
        /\ \A i \in 2 .. Len(s) : s[i] = l[i - 1] /\ i - 1 \in 1 .. Len(l)
    OBVIOUS
  <1> HIDE DEF s
  <1>2. Entries(s) \subseteq Entries(l) \cup {x}
    BY <1>1 DEF Entries
  <1>3. NoDuplicates(l) /\ x \notin Entries(l) => NoDuplicates(s)
    BY <1>1 DEF NoDuplicates, Entries
  <1> QED BY <1>2, <1>3 DEF s

LEMMA EmptyEntries == Entries(<< >>) = {} /\ NoDuplicates(<< >>)
  BY DEF Entries, NoDuplicates

\* A step never takes a request back from the places where its receipt may
\* have been written, and never undoes a charge.
LEMMA GenuineStays ==
    ASSUME Inv, [Next]_vars, NEW e, Genuine(e)
    PROVE  Genuine(e)'
  <1>0. e \in Receipt /\ e.request \in Request
    BY DEF Inv, TypeOK, Genuine, Receipt
  <1>1. charges \subseteq charges'
    BY DEF Next, Progress, Facilitator, vars, kvVars, moneyVars, keyVars, logVars, reqVars, Arrive, Validate,
       InputRefused, EnforceRateLimit, CheckMandate, Screen, Verify, ReplayGet, ReplayPut,
       Work, WorkReading, WorkInference, WorkLegacy, Submit, Settled, SettleCallRejects,
       LogGet, LogPut, EventPut, ChainSettles, ChainRejects, Abort, Expire
  <1>2. pc'[e.request] \in Written
    <2>0. pc[e.request] \in {"eventPut", "data", "aborted"} /\ pc \in [Request -> Steps \cup Ended]
      BY DEF Inv, TypeOK, Genuine, Written
    <2>1. CASE UNCHANGED pc
      BY <2>0, <2>1 DEF Written
    <2>2. ASSUME NEW r \in Request, EventPut(r) PROVE pc'[e.request] \in Written
      BY <1>0, <2>0, <2>2 DEF EventPut, Goto, AfterRecording, Inv, StepMatchesSettlement,
         Sold, Written
    <2>3. ASSUME NEW r \in Request, Abort(r) PROVE pc'[e.request] \in Written
      BY <1>0, <2>0, <2>3 DEF Abort, Goto, Written
    <2>4. ASSUME NEW r \in Request, NEW where, Goto(r, where),
                 pc[r] \notin {"eventPut", "data", "aborted"}
          PROVE  pc'[e.request] \in Written
      BY <1>0, <2>0, <2>4 DEF Goto, Written
    <2>5. ASSUME NEW r \in Request, Arrive(r) \/ (Progress(r) /\ ~EventPut(r))
          PROVE  pc'[e.request] \in Written
      BY <2>4, <2>5 DEF Progress, Arrive, Validate, InputRefused, EnforceRateLimit,
         CheckMandate, Screen, Verify, ReplayGet, ReplayPut, Work, WorkReading,
         WorkInference, WorkLegacy, Submit, Settled, SettleCallRejects, LogGet, LogPut
    <2> QED
      BY <2>1, <2>2, <2>3, <2>5 DEF Next, Facilitator, ChainSettles, ChainRejects, Expire, vars
  <1> QED BY <1>1, <1>2 DEF Genuine

LEMMA NextLogInv == Inv /\ LogInv /\ [Next]_vars => LogInv'
  <1> SUFFICES ASSUME Inv, LogInv, [Next]_vars PROVE LogInv'
    OBVIOUS
  <1>0. \A e : Genuine(e) => Genuine(e)'
    BY GenuineStays
  <1>1. CASE UNCHANGED <<log, versions, latestEvent, view>>
    BY <1>0, <1>1 DEF LogInv, NoDuplicates, Entries
  <1>2. ASSUME NEW r \in Request, LogGet(r) PROVE LogInv'
    <2>0. CASE UNCHANGED view
      BY <1>0, <1>2, <2>0 DEF LogInv, LogGet, kvVars, logVars, NoDuplicates, Entries
    <2>1. ASSUME NEW l \in versions, view' = [view EXCEPT ![r] = l]
          PROVE  LogInv'
      <3>1. log' = log /\ versions' = versions /\ latestEvent' = latestEvent
        BY <1>2 DEF LogGet, kvVars, logVars
      <3>2. view'[r] = l /\ \A s \in Request \ {r} : view'[s] = view[s]
        BY <2>1 DEF Inv, TypeOK
      <3>3. \A s \in Request : (\A e \in Entries(view'[s]) : Genuine(e)') /\ NoDuplicates(view'[s])
        BY <3>2, <1>0 DEF LogInv
      <3> QED BY <1>0, <3>1, <3>3 DEF LogInv, NoDuplicates, Entries
    <2> QED BY <1>2, <2>0, <2>1 DEF LogGet
  <1>3. ASSUME NEW r \in Request, LogPut(r) PROVE LogInv'
    <2> DEFINE x == ReceiptOf(r)
               written == Newest(<<x>> \o view[r])
    <2>1. x \in Receipt /\ x \in charges /\ x.request = r
      BY <1>3 DEF Inv, TypeOK, LogPut, ChargeIsSettlement, StepMatchesSettlement, Sold, ReceiptOf
    <2>2. view[r] \in Seq(Receipt) /\ pc[r] = "logPut" /\ r \in Request
      BY <1>3 DEF Inv, TypeOK, LogPut
    <2>3. x \notin Entries(view[r])
      BY <2>1, <2>2 DEF LogInv, Genuine, Written
    <2>4. <<x>> \o view[r] \in Seq(Receipt)
      BY <2>1, <2>2
    <2>5. Entries(written) \subseteq Entries(view[r]) \cup {x} /\ NoDuplicates(written)
      BY <2>1, <2>2, <2>3, <2>4, HeadEntries, NewestEntries DEF LogInv
    <2>6. pc'[r] \in Written
      BY <1>3, <2>2 DEF LogPut, Goto, AfterRecording, Written, Inv, TypeOK,
         StepMatchesSettlement, Sold
    <2>7. charges' = charges
      BY <1>3 DEF LogPut, moneyVars
    <2>8. x \in charges' /\ pc'[x.request] \in Written
      BY <2>1, <2>6, <2>7
    <2>9. log' = log \/ log' = written
      BY <1>3 DEF LogPut
    <2>10. \A e \in Entries(log') : Genuine(e)'
      BY <2>5, <2>8, <2>9, <1>0 DEF LogInv, Genuine
    <2>11. NoDuplicates(log')
      BY <2>5, <2>9 DEF LogInv
    <2>14. \A l \in versions' : (\A e \in Entries(l) : Genuine(e)') /\ NoDuplicates(l)
      <3>1. versions' \subseteq versions \cup {log'}
        BY <1>3 DEF LogPut, Readable
      <3> QED BY <3>1, <2>10, <2>11, <1>0 DEF LogInv
    <2>12. /\ view'[r] = << >>
           /\ \A s \in Request \ {r} : view'[s] = view[s]
           /\ latestEvent' = latestEvent
      BY <1>3 DEF LogPut, Inv, TypeOK
    <2>13. \A s \in Request : (\A e \in Entries(view'[s]) : Genuine(e)') /\ NoDuplicates(view'[s])
      BY <2>12, <1>0, EmptyEntries DEF LogInv
    <2> QED
      BY <1>0, <2>10, <2>11, <2>12, <2>13, <2>14 DEF LogInv, NoDuplicates, Entries
  <1>4. ASSUME NEW r \in Request, EventPut(r) PROVE LogInv'
    <2>1. ReceiptOf(r) \in charges /\ ReceiptOf(r).request = r
      BY <1>4 DEF Inv, EventPut, ChargeIsSettlement, StepMatchesSettlement, Sold, ReceiptOf
    <2>2. pc'[r] \in Written
      BY <1>4 DEF EventPut, Goto, AfterRecording, Written, Inv, TypeOK, StepMatchesSettlement, Sold
    <2>3. Genuine(ReceiptOf(r))'
      <3>1. charges' = charges
        BY <1>4 DEF EventPut, moneyVars
      <3>2. ReceiptOf(r) = ReceiptOf(r)'
        BY <1>4 DEF EventPut, reqVars, ReceiptOf, ProofOf
      <3> QED BY <2>1, <2>2, <3>1, <3>2 DEF Genuine
    <2>4. latestEvent' = ReceiptOf(r)' \/ latestEvent' = latestEvent
      BY <1>4 DEF EventPut, reqVars, ReceiptOf, ProofOf
    <2>5. log' = log /\ versions' = versions /\ view' = view
      BY <1>4 DEF EventPut, logVars
    <2> QED BY <1>0, <2>3, <2>4, <2>5 DEF LogInv, NoDuplicates, Entries
  <1>5. ASSUME NEW r \in Request, Abort(r) PROVE LogInv'
    <2>1. /\ view'[r] = << >>
          /\ \A s \in Request \ {r} : view'[s] = view[s]
          /\ log' = log /\ versions' = versions /\ latestEvent' = latestEvent
      BY <1>5 DEF Abort, kvVars, logVars, Inv, TypeOK
    <2>2. \A s \in Request : (\A e \in Entries(view'[s]) : Genuine(e)') /\ NoDuplicates(view'[s])
      BY <2>1, <1>0, EmptyEntries DEF LogInv
    <2> QED BY <1>0, <2>1, <2>2 DEF LogInv, NoDuplicates, Entries
  <1> QED
    BY <1>1, <1>2, <1>3, <1>4, <1>5 DEF Next, Progress, Facilitator, vars, kvVars, logVars,
       moneyVars, Arrive, Validate, InputRefused, EnforceRateLimit, CheckMandate, Screen,
       Verify, ReplayGet, ReplayPut, Expire, Work, WorkReading, WorkInference, WorkLegacy,
       Submit, Settled, SettleCallRejects, ChainSettles, ChainRejects

\* The receipt log and latest_event hold real settlements only, each of them
\* once, whatever recordSettlements interleave or are cut short.
THEOREM LedgerIsTrueHolds == Spec => []LedgerIsTrue
  <1>1. Init => LogInv
    BY EmptyEntries DEF Init, LogInv
  <1>2. Inv /\ LogInv => LedgerIsTrue
    BY DEF LogInv, LedgerIsTrue, Genuine, NoDuplicates
  <1> QED BY <1>1, <1>2, NextLogInv, Invariance, PTL DEF Spec

-----------------------------------------------------------------------------
(* A spent header stays spent while its key lives and KV shows it.          *)

ReplayInv ==
    ("stale" \notin faults /\ HasKV) =>
        \A r \in held :
            /\ req[r].header \in idem /\ pc[r] # "idle"
            /\ req[r].resource \in Gated =>
                  /\ pc[r] \notin {"replayPut"} \cup Cleared
                  /\ settlement[r] = "none"

LEMMA NextReplayInv == Inv /\ ReplayInv /\ [Next]_vars => ReplayInv'
  <1> DEFINE Fresh(r) == /\ req[r].header \in idem /\ pc[r] # "idle"
                         /\ req[r].resource \in Gated =>
                               /\ pc[r] \notin {"replayPut"} \cup Cleared
                               /\ settlement[r] = "none"
  <1> SUFFICES ASSUME Inv, ReplayInv, [Next]_vars, "stale" \notin faults, HasKV, faults' = faults
               PROVE  \A r \in held' : Fresh(r)'
    BY DEF ReplayInv, HasKV, Next, vars
  <1>0. \A r \in held : r \in Request /\ Fresh(r)
    BY DEF ReplayInv, Inv, TypeOK
  <1> USE DEF Inv, TypeOK, Cleared, Goto, kvVars, keyVars, logVars, reqVars, moneyVars
  <1>1. CASE UNCHANGED vars
    BY <1>0, <1>1 DEF vars
  <1>2. ASSUME NEW r \in Request, Arrive(r) PROVE \A s \in held' : Fresh(s)'
    <2>1. settlement[r] = "none" /\ idem' = idem /\ settlement' = settlement
      BY <1>2 DEF Arrive, StepMatchesSettlement, Settling
    <2>2. \A s \in Request \ {r} : req'[s] = req[s] /\ pc'[s] = pc[s]
      BY <1>2 DEF Arrive
    <2>3. pc'[r] \in {"verify", "validate"}
      BY <1>2 DEF Arrive
    <2>4. r \notin held
      BY <1>0, <1>2 DEF Arrive
    <2>5. /\ held' \subseteq held \cup {r}
          /\ r \in held' => req'[r].header \in idem
      BY <1>2, <2>4 DEF Arrive
    <2> QED BY <1>0, <2>1, <2>2, <2>3, <2>5
  <1>3. ASSUME NEW r \in Request, Progress(r) \/ Facilitator(r) \/ Abort(r)
        PROVE  \A s \in held' : Fresh(s)'
    <2>1. req' = req /\ held' = held /\ idem \subseteq idem'
      BY <1>3 DEF Progress, Facilitator, Validate, InputRefused, EnforceRateLimit,
         CheckMandate, Screen, Verify, ReplayGet, ReplayPut, Work, WorkReading,
         WorkInference, WorkLegacy, Submit, Settled, SettleCallRejects, CallRejected, LogGet,
         LogPut, AfterRecording, EventPut, ChainSettles, ChainRejects, Abort
    <2>2. \A s \in Request \ {r} : pc'[s] = pc[s] /\ settlement'[s] = settlement[s]
      BY <1>3 DEF Progress, Facilitator, Validate, InputRefused, EnforceRateLimit,
         CheckMandate, Screen, Verify, ReplayGet, ReplayPut, Work, WorkReading,
         WorkInference, WorkLegacy, Submit, Settled, SettleCallRejects, CallRejected, LogGet,
         LogPut, AfterRecording, EventPut, ChainSettles, ChainRejects, Abort
    <2>3. ASSUME r \in held, req[r].resource \in Gated
          PROVE  pc'[r] \notin {"replayPut"} \cup Cleared /\ settlement'[r] = "none"
      <3>1. /\ pc[r] \notin {"replayPut"} \cup Cleared /\ settlement[r] = "none"
            /\ ~MayMiss(req[r].header) /\ req[r].resource # "legacy"
        BY <1>0, <2>3 DEF Gated, MayMiss
      <3> QED
        BY <1>3, <3>1 DEF Progress, Facilitator, Validate, InputRefused, EnforceRateLimit,
         CheckMandate, Screen, Verify, ReplayGet, ReplayPut, Work, WorkReading,
         WorkInference, WorkLegacy, Submit, Settled, SettleCallRejects, CallRejected, LogGet,
         LogPut, AfterRecording, EventPut, ChainSettles, ChainRejects, Abort
    <2>4. pc'[r] # "idle"
      BY <1>3 DEF Progress, Facilitator, Validate, InputRefused, EnforceRateLimit,
         CheckMandate, Screen, Verify, ReplayGet, ReplayPut, Work, WorkReading,
         WorkInference, WorkLegacy, Submit, Settled, SettleCallRejects, CallRejected, LogGet,
         LogPut, AfterRecording, EventPut, ChainSettles, ChainRejects, Abort, InFlight,
         StepMatchesSettlement, Settling
    <2> QED BY <1>0, <2>1, <2>2, <2>3, <2>4
  <1>4. ASSUME NEW h \in Header, Expire(h) PROVE \A s \in held' : Fresh(s)'
    BY <1>0, <1>4 DEF Expire
  <1> QED BY <1>1, <1>2, <1>3, <1>4 DEF Next

\* test/http.spec.ts "rejectReplay records a proof once and refuses it after":
\* a request whose header already had its key, and has it still, is never served
\* and never charged.
THEOREM NoLateReplayHolds == Spec => []NoLateReplay
  <1>1. Init => ReplayInv
    BY DEF Init, ReplayInv
  <1>2. Inv /\ ReplayInv => NoLateReplay
    BY DEF Inv, TypeOK, ReplayInv, NoLateReplay, Cleared, ChargeIsSettlement, ReceiptOf
  <1> QED BY <1>1, <1>2, NextReplayInv, Invariance, PTL DEF Spec

-----------------------------------------------------------------------------
(* PaidRoute implements IdealSale.                                         *)

\* A step of the seller moves one request on, charges nobody, and delivers
\* only what the facilitator has said is paid.
LEMMA SellerStep ==
    ASSUME Inv, NEW r \in Request, Arrive(r) \/ Progress(r) \/ Abort(r)
    PROVE  /\ charges' = charges
           /\ pc[r] \in Steps
           /\ \E where \in Steps \cup Ended : /\ Goto(r, where)
                                              /\ where = "data" => settlement[r] = "success"
  <1> USE DEF Inv, TypeOK, Goto, kvVars, moneyVars, Steps, Ended, Refusals
  <1>1. charges' = charges /\ pc[r] \in Steps
    BY DEF Arrive, Progress, Validate, InputRefused, EnforceRateLimit, CheckMandate,
       Screen, Verify, ReplayGet, ReplayPut, Work, WorkReading, WorkInference, WorkLegacy,
       Submit, Settled, SettleCallRejects, LogGet, LogPut, EventPut, Abort, InFlight
  <1>2. \E where \in Steps \cup Ended : Goto(r, where) /\ (where = "data" => settlement[r] = "success")
    <2>1. CASE Arrive(r)
      <3>1. Goto(r, "verify") \/ Goto(r, "validate")
        BY <2>1 DEF Arrive
      <3> QED BY <3>1
    <2>2. CASE Validate(r) \/ EnforceRateLimit(r)
      BY <2>2 DEF Validate, InputRefused, EnforceRateLimit
    <2>3. CASE CheckMandate(r) \/ Screen(r) \/ Verify(r)
      BY <2>3 DEF CheckMandate, Screen, Verify, CallRejected
    <2>4. CASE ReplayGet(r) \/ ReplayPut(r) \/ Work(r) \/ Submit(r) \/ SettleCallRejects(r)
      BY <2>4 DEF ReplayGet, ReplayPut, Work, WorkReading, WorkInference, WorkLegacy, Submit,
         SettleCallRejects, CallRejected
    <2>5. CASE Settled(r)
      <3>1. \/ Goto(r, "logGet")
            \/ Goto(r, "data") /\ settlement[r] = "success"
            \/ Goto(r, "settlementFailed")
        BY <2>5 DEF Settled
      <3> QED BY <3>1
    <2>6. CASE LogGet(r) \/ LogPut(r) \/ EventPut(r)
      BY <2>6 DEF LogGet, LogPut, EventPut, AfterRecording
    <2>7. CASE Abort(r)
      BY <2>7 DEF Abort
    <2> QED BY <2>1, <2>2, <2>3, <2>4, <2>5, <2>6, <2>7 DEF Progress
  <1> QED BY <1>1, <1>2

LEMMA NextIdeal == Inv /\ [Next]_vars => [Ideal!Next]_(Ideal!idealVars)
  <1> SUFFICES ASSUME Inv, [Next]_vars
               PROVE  Ideal!Next \/ UNCHANGED Ideal!idealVars
    OBVIOUS
  <1> DEFINE outcome == [r \in Request |-> Outcome(r)]
  <1>0. pc \in [Request -> Steps \cup Ended]
    BY DEF Inv, TypeOK
  <1>1. CASE UNCHANGED vars
    BY <1>1 DEF vars, Ideal!idealVars, Outcome
  <1>2. ASSUME NEW r \in Request, Arrive(r) \/ Progress(r) \/ Abort(r)
        PROVE  Ideal!Next \/ UNCHANGED Ideal!idealVars
    <2>1. PICK where \in Steps \cup Ended :
             Goto(r, where) /\ (where = "data" => settlement[r] = "success")
      BY <1>2, SellerStep
    <2>2. charges' = charges /\ pc[r] \in Steps
      BY <1>2, SellerStep
    <2>3. pc'[r] = where /\ \A s \in Request \ {r} : pc'[s] = pc[s]
      BY <1>0, <2>1 DEF Goto
    <2>4. Outcome(r) = "open"
      BY <2>2 DEF Outcome, Steps, Refusals
    <2>5. \A s \in Request \ {r} : Outcome(s)' = Outcome(s)
      BY <2>3 DEF Outcome
    <2>6. CASE where \in Steps
      <3>1. Outcome(r)' = "open"
        BY <2>3, <2>6 DEF Outcome, Steps, Refusals
      <3> QED BY <2>2, <2>4, <2>5, <3>1 DEF Ideal!idealVars
    <2>7. CASE where = "data"
      <3>1. Outcome(r)' = "data"
        BY <2>3, <2>7 DEF Outcome
      <3>2. \E c \in charges : c.request = r
        BY <2>1, <2>7 DEF Inv, ChargeIsSettlement, ReceiptOf
      <3>3. outcome' = [outcome EXCEPT ![r] = "data"]
        BY <2>5, <3>1
      <3>4. Ideal!Deliver(r)
        BY <2>2, <2>4, <3>2, <3>3 DEF Ideal!Deliver
      <3> QED BY <3>4 DEF Ideal!Next
    <2>8. CASE where \in Refusals
      <3>1. Outcome(r)' = "refused"
        BY <2>3, <2>8 DEF Outcome, Refusals
      <3>2. outcome' = [outcome EXCEPT ![r] = "refused"]
        BY <2>5, <3>1
      <3>3. Ideal!Refuse(r)
        BY <2>2, <2>4, <3>2 DEF Ideal!Refuse
      <3> QED BY <3>3 DEF Ideal!Next
    <2> QED BY <2>6, <2>7, <2>8 DEF Ended
  <1>3. ASSUME NEW r \in Request, ChainSettles(r)
        PROVE  Ideal!Next
    <2>1. outcome' = outcome
      BY <1>3 DEF ChainSettles, Outcome
    <2>2. Outcome(r) # "data"
      BY <1>3 DEF ChainSettles, Inv, StepMatchesSettlement, Sold, Outcome
    <2>3. ProofOf(r) \in Proof
      BY <1>3 DEF ChainSettles, Inv, GateOrder
    <2>4. \A c \in charges : c.proof # ProofOf(r) /\ c.request # r
      BY <1>3 DEF ChainSettles, Inv, ChargeIsSettlement
    <2>5. Ideal!Charge(ProofOf(r), r)
      BY <1>3, <2>1, <2>2, <2>4 DEF Ideal!Charge, ChainSettles, ReceiptOf
    <2> QED BY <2>3, <2>5 DEF Ideal!Next
  <1>4. ASSUME NEW r \in Request, ChainRejects(r)
        PROVE  UNCHANGED Ideal!idealVars
    BY <1>4 DEF ChainRejects, Ideal!idealVars, Outcome
  <1>5. ASSUME NEW h \in Header, Expire(h)
        PROVE  UNCHANGED Ideal!idealVars
    BY <1>5 DEF Expire, moneyVars, Ideal!idealVars, Outcome
  <1> QED BY <1>1, <1>2, <1>3, <1>4, <1>5 DEF Next, Facilitator

\* The gate, with everything that interleaves and fails in it, is a sale: one
\* proof, one charge, and goods only for the request that was charged.
THEOREM ImplementsIdealSale == Spec => IdealSpec
  <1>1. Init => Ideal!Init
    BY DEF Init, Ideal!Init, Outcome, Refusals
  <1> QED BY <1>1, NextIdeal, Invariance, PTL DEF Spec, IdealSpec, Ideal!Spec
=============================================================================
