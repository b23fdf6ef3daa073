-------------------------- MODULE MCFailureTracker --------------------------
(* The failure tracker, for TLC: half an hour is two ticks.                *)
EXTENDS FailureTracker, TLC

CONSTANTS o1, o2

MCSymmetry == Permutations({o1, o2})

=============================================================================
