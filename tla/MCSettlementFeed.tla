--------------------------- MODULE MCSettlementFeed --------------------------
(* SettlementFeed on small instances: the .cfg file gives the constants.  A   *)
(* fault that may happen need not, so larger sets of faults stand for the     *)
(* smaller ones wherever a property does not depend on the set.               *)
EXTENDS SettlementFeed
=============================================================================
