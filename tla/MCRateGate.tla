------------------------------ MODULE MCRateGate ------------------------------
(* RateGate with callers and addresses that are alike.                     *)
EXTENDS RateGate, TLC

Symmetric == Permutations(Caller) \cup Permutations(Address)
===============================================================================
