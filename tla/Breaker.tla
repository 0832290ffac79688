------------------------------ MODULE Breaker ------------------------------
(***************************************************************************)
(* What the health of a leaf promises to the router and the aggregator, as *)
(* one atomic circuit breaker per leaf: it opens at the Threshold-th       *)
(* failure in a row (or at once when the first handshake fails) and closes *)
(* on the first success.  LeafHealth implements it.                        *)
(***************************************************************************)
EXTENDS Integers

CONSTANTS Leaves, Threshold

VARIABLES
  health,  \* what is_healthy reads, per leaf
  failures \* failures in a row, per leaf

vars == <<health, failures>>

Init ==
  /\ health = [l \in Leaves |-> "Unknown"]
  /\ failures = [l \in Leaves |-> 0]

\* A handshake or a probe succeeds.
Succeed(l) ==
  /\ health' = [health EXCEPT ![l] = "Healthy"]
  /\ failures' = [failures EXCEPT ![l] = 0]

\* The first handshake with a leaf fails.
HandshakeFails(l) ==
  /\ health[l] = "Unknown"
  /\ health' = [health EXCEPT ![l] = "Unhealthy"]
  /\ failures' = [failures EXCEPT ![l] = @ + 1]

\* A probe, made only after the handshake, fails: the leaf is taken out when
\* that was one too many.
ProbeFails(l) ==
  /\ health[l] # "Unknown"
  /\ health' = [health EXCEPT ![l] = IF failures[l] + 1 >= Threshold THEN "Unhealthy" ELSE @]
  /\ failures' = [failures EXCEPT ![l] = @ + 1]

Next == \E l \in Leaves : Succeed(l) \/ HandshakeFails(l) \/ ProbeFails(l)

Spec == Init /\ [][Next]_vars
=============================================================================
