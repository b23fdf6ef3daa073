----------------------------- MODULE MCAutoRetry -----------------------------
(* Automatic retries, for TLC: two of the offers are on one machine.       *)
EXTENDS AutoRetry, TLC

CONSTANTS o1, o2, o3, m1, m2

OnTwo == o1 :> m1 @@ o2 :> m1 @@ o3 :> m2

=============================================================================
