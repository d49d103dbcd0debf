------------------------------ MODULE MCMandate ------------------------------
(* Mandate on small instances: limits below, at and above the price.        *)
EXTENDS Mandate

Limits == {-1, 0, 1, 2}
=============================================================================
