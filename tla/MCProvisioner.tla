--------------------------- MODULE MCProvisioner ---------------------------
(* Instances of Provisioner for TLC.                                       *)
EXTENDS Provisioner, TLC

CONSTANTS s1, s2, s3, c1, c2, c3, l1, l2, l3

\* s1 and s2 are of one consumer and one offer, s3 has an offer of its own.
TwinKey == [s \in Sessions |-> IF s = s3 THEN "own" ELSE "shared"]

\* Mutexes and callers of DestroySession are interchangeable.
CallSymmetry == Permutations(Locks) \cup Permutations(Calls)

=============================================================================
