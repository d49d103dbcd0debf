---------------------------- MODULE MCRateLimiter ----------------------------
(* RateLimiter on small instances: every set of failures. *)
EXTENDS RateLimiter

AllFaultSets == SUBSET FaultKinds
=============================================================================
