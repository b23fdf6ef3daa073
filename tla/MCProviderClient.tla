-------------------------- MODULE MCProviderClient --------------------------
(* The provider clients, for TLC.                                          *)
EXTENDS ProviderClient, TLC

CONSTANTS w1, w2, r, s1, s2, none

=============================================================================
