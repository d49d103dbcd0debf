---------------------------- MODULE SlidingWindow ----------------------------
(***************************************************************************)
(* What a rate-limit bucket promises: it remembers every hit it has        *)
(* counted, and counts one more exactly when fewer than Quota of them lie  *)
(* in the last Window time units.  RateLimiter, which forgets, implements  *)
(* it.                                                                     *)
(***************************************************************************)
EXTENDS Naturals, Sequences, FiniteSets

CONSTANTS Window, Quota

VARIABLES now,      \* the clock
          counted,  \* times of all the hits that took a slot, in order
          verdict   \* the bucket's last answer

slidingVars == <<now, counted, verdict>>

InWindow == {i \in DOMAIN counted : counted[i] + Window > now}

Init == now = 0 /\ counted = << >> /\ verdict = "none"

Tick == now' = now + 1 /\ UNCHANGED <<counted, verdict>>

\* A hit that is counted is let through, unless the answer is lost.
Count == /\ Cardinality(InWindow) < Quota
         /\ counted' = Append(counted, now)
         /\ verdict' \in {"allowed", "lost"}
         /\ UNCHANGED now

Refuse == /\ Cardinality(InWindow) >= Quota
          /\ verdict' = "refused"
          /\ UNCHANGED <<now, counted>>

\* A hit that failed may not have been counted.
Lose == verdict' = "lost" /\ UNCHANGED <<now, counted>>

Next == Tick \/ Count \/ Refuse \/ Lose

Spec == Init /\ [][Next]_slidingVars
=============================================================================
