SPECIFICATION FairSpec

CONSTANTS
  Type = "PARALLEL"
  PayloadType = "NONE"
  TrackingType = "LATENCY"
  PipelineActors = 2
  Duration = 0
  ForthAndBack = TRUE
  DetachedPool = 2
  ChainsNumber = 2
  RoundRobin = TRUE
  BatchSize = 0
  FileExists = FALSE
  Executor = executor
  TopoBuilder = topo_builder
  Collector = results
  Null = null
  MaxMsgs = 3
  MaxReps = 1

INVARIANTS
  PoolBalanced
PROPERTIES
  AllMeasured
