----------------------------- MODULE MCPaidRoute -----------------------------
(* PaidRoute on small instances: the .cfg files give the constants.  Every   *)
(* proof is sent as the x402 client writes it down, some of them also in     *)
(* another text.  Reads of KV are fresh in some behaviours and may be stale  *)
(* in others; any other fault that may happen need not.                      *)
EXTENDS PaidRoute

CONSTANT Rewritten    \* the proofs sent in two texts

HeadersSent == [proof : Proof, form : {"client"}] \cup [proof : Rewritten, form : {"other"}]
=============================================================================
