SPECIFICATION Spec

CONSTANTS
  Type = "PARALLEL"
  PayloadType = "NONE"
  TrackingType = "LATENCY"
  PipelineActors = 2
  Duration = 1
  ForthAndBack = FALSE
  DetachedPool = 0
  ChainsNumber = 1
  RoundRobin = TRUE
  BatchSize = 0
  FileExists = FALSE
  Executor = executor
  TopoBuilder = topo_builder
  Collector = results
  Null = null
  MaxMsgs = 1
  MaxReps = 1

INVARIANTS
  RowMatchesHeader
