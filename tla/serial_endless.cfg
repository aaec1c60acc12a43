SPECIFICATION FairSpec

CONSTANTS
  Type = "SERIAL"
  PayloadType = "NONE"
  TrackingType = "LATENCY"
  PipelineActors = 3
  Duration = 0
  ForthAndBack = TRUE
  DetachedPool = 0
  ChainsNumber = 2
  RoundRobin = TRUE
  BatchSize = 0
  FileExists = FALSE
  Executor = executor
  TopoBuilder = topo_builder
  Collector = results
  Null = null
  MaxMsgs = 1
  MaxReps = 2

PROPERTIES
  KeepsMeasuring
