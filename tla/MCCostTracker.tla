---------------------------- MODULE MCCostTracker ----------------------------
(* Billing, for TLC: two sessions of two consumers.                        *)
EXTENDS CostTracker, TLC

CONSTANTS s1, s2, a, b

Payers == s1 :> a @@ s2 :> b

=============================================================================
