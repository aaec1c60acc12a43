SPECIFICATION Spec

CONSTANTS
  Type = "PARALLEL"
  PayloadType = "COMPLEX"
  TrackingType = "XTIMES"
  PipelineActors = 3
  Duration = 1
  ForthAndBack = TRUE
  DetachedPool = 0
  ChainsNumber = 1
  RoundRobin = TRUE
  BatchSize = 2
  FileExists = TRUE
  Executor = executor
  TopoBuilder = topo_builder
  Collector = results
  Null = null
  MaxMsgs = 2
  MaxReps = 1

INVARIANTS
  NoCrash
  MeasuredLinks
  StopsInOrder

PROPERTIES
  ChainsAreQueues
