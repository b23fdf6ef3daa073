---------------------------- MODULE MCOfferCache ----------------------------
(* The offer cache, for TLC: one provider, listed with and without a       *)
(* filter.                                                                 *)
EXTENDS OfferCache, TLC

CONSTANTS c1, g1, g2, o1, all, gpu, none

AdmitsOne == all :> {o1} @@ gpu :> {o1}
MCSymmetry == Permutations({g1, g2})

=============================================================================
