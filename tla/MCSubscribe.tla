---------------------------- MODULE MCSubscribe ------------------------------
(* Subscribe on small instances; posts, addresses and IPs are each           *)
(* interchangeable.                                                          *)
EXTENDS Subscribe, TLC

\* Posts alone, fewer of them with stale reads, and fewer still beside a listing
\* of either kind.  Where a call may reject, none has to.
Deployments ==
    [posts : {4}, overlap : {1, 2}, faulty : {TRUE}, stale : {FALSE}, listing : {{}}]
        \cup [posts : {3}, overlap : {2}, faulty : {TRUE}, stale : {TRUE}, listing : {{}}]
        \cup [posts : {2}, overlap : {2}, faulty : {TRUE}, stale : BOOLEAN, listing : {Kind}]

\* Three posts at once, and nothing fails.
Burst == {[posts |-> 4, overlap |-> 3, faulty |-> FALSE, stale |-> FALSE, listing |-> {}]}

Interchangeable == Permutations(Post) \cup Permutations(Email) \cup Permutations(Ip)
=============================================================================
