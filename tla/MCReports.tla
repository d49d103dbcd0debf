------------------------------ MODULE MCReports ------------------------------
(* Reports on small instances: timestamps 10 and 11 are of one day, 20 of   *)
(* the next.  What the receipts and the visits are used for shares no state *)
(* but the log, so a workload has many of the one or of the other.          *)
EXTENDS Reports

Day(t) == t \div 10

Load(visitors, receipts, fetches, faults) ==
    [visits |-> visitors, sales |-> receipts, fetches |-> fetches, faults |-> faults]

CONSTANTS v1, v2, v3
Loads == {Load({}, 4, {}, {}), Load({}, 2, Fetch, {}), Load({}, 1, Fetch, {"stale", "kv"}),
          Load({v1, v2, v3}, 0, {}, {}), Load({v1, v2}, 0, {}, {"stale", "kv"})}
=============================================================================
