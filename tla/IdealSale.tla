------------------------------ MODULE IdealSale ------------------------------
(***************************************************************************)
(* What the seller promises about money and goods, with none of the        *)
(* machinery: a request ends with the goods or without them, a signed      *)
(* payment proof buys at most one thing, and nobody gets the goods unless  *)
(* a charge was made for that very request.  PaidRoute implements it.      *)
(***************************************************************************)
CONSTANTS Request,      \* HTTP requests
          Proof         \* signed payment proofs

VARIABLES sold,         \* the charges made: which proof paid for which request
          outcome       \* what each request came to

idealVars == <<sold, outcome>>

Init == /\ sold = {}
        /\ outcome = [r \in Request |-> "open"]

\* A proof is spent on a request.  A charge may still land after the request
\* is over: the buyer pays and never hears back.
Charge(p, r) == /\ \A c \in sold : c.proof # p /\ c.request # r
                /\ outcome[r] # "data"
                /\ sold' = sold \cup {[proof |-> p, request |-> r]}
                /\ UNCHANGED outcome

Deliver(r) == /\ outcome[r] = "open"
              /\ \E c \in sold : c.request = r
              /\ outcome' = [outcome EXCEPT ![r] = "data"]
              /\ UNCHANGED sold

Refuse(r) == /\ outcome[r] = "open"
             /\ outcome' = [outcome EXCEPT ![r] = "refused"]
             /\ UNCHANGED sold

Next == \E r \in Request : \/ \E p \in Proof : Charge(p, r)
                           \/ Deliver(r)
                           \/ Refuse(r)

Spec == Init /\ [][Next]_idealVars
=============================================================================
