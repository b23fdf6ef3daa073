---------------------------- MODULE MCBenchmark ----------------------------
(* Instances of BenchmarkRunner for TLC.                                   *)
EXTENDS BenchmarkRunner

CONSTANTS e1, e2

=============================================================================
