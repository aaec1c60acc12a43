--------------------------- MODULE MCLatencyBenchmark ---------------------------
(***************************************************************************)
(* The model TLC checks: the configurations give every constant a value.   *)
(***************************************************************************)
EXTENDS LatencyBenchmarkProperties
=============================================================================
