--------------------------- MODULE BenchmarkConfig ---------------------------
(***************************************************************************)
(* The options of benchmark_config that steer control flow.  Options that  *)
(* only size a payload, name a file or pick a rate are left out.           *)
(***************************************************************************)
EXTENDS Integers

CONSTANTS
  Type,             \* general_.type_: "PARALLEL", or anything else for serial
  PayloadType,      \* general_.payload_type_: "NONE" or "COMPLEX"
  TrackingType,     \* general_.tracking_type_: "LATENCY" or "XTIMES"
  PipelineActors,   \* general_.pipeline_actors_: length of a chain
  Duration,         \* general_.duration_: 0 for an endless benchmark
  ForthAndBack,     \* general_.forth_and_back_
  DetachedPool,     \* general_.detached_pool_: size of the detached pool
  ChainsNumber,     \* parallel_.chains_number_
  RoundRobin,       \* parallel_.sending_order_: 1 is TRUE, 0 (random) is FALSE
  BatchSize,        \* payload_.batch_size_
  FileExists        \* general_.result_file_ exists when the program starts

\* main() gives up when this does not hold, and checks nothing else.
is_valid == PipelineActors > 1

ASSUME ConfigAssumption ==
  /\ PipelineActors \in Nat /\ is_valid
  /\ Duration \in Nat
  /\ DetachedPool \in Nat
  /\ ChainsNumber \in Nat
  /\ BatchSize \in Nat
  /\ ForthAndBack \in BOOLEAN
  /\ RoundRobin \in BOOLEAN
  /\ FileExists \in BOOLEAN

IsParallel == Type = "PARALLEL"
IsComplex == PayloadType = "COMPLEX"
IsCrossTimes == TrackingType = "XTIMES"

(***************************************************************************)
(* convert_gen_internal_to_external copies every parsed option but         *)
(* sender_to_detached, and general has no constructor: the field read by   *)
(* the benchmark actors keeps whatever the memory held.  PipelineActors    *)
(* stands for every value that names no actor of a chain; without a pool   *)
(* the value makes no difference.                                          *)
(***************************************************************************)
SenderToDetachedRead ==
  IF DetachedPool = 0 THEN {PipelineActors} ELSE 0 .. PipelineActors
=============================================================================
