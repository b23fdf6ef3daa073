---------------------------- MODULE MCLifecycle ----------------------------
(* Instances of Lifecycle for TLC.                                         *)
EXTENDS Lifecycle, TLC

CONSTANTS s1, s2, mgr, u1, e1, l1, l2

\* All sessions are of one consumer and one offer.
OneKey == [s \in Sessions |-> "offer"]

\* Mutexes are only compared with one another.
LockSymmetry == Permutations(Locks)

=============================================================================
