------------------------- MODULE MCBenchmarkClient -------------------------
(* Instances of BenchmarkClient for TLC: a few named requests.             *)
EXTENDS BenchmarkClient

CONSTANTS r1, r2, r3
=============================================================================
