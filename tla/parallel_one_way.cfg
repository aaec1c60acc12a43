SPECIFICATION Spec

CONSTANTS
  Type = "PARALLEL"
  PayloadType = "NONE"
  TrackingType = "LATENCY"
  PipelineActors = 2
  Duration = 1
  ForthAndBack = FALSE
  DetachedPool = 0
  ChainsNumber = 2
  RoundRobin = TRUE
  BatchSize = 0
  FileExists = FALSE
  Executor = executor
  TopoBuilder = topo_builder
  Collector = results
  Null = null
  MaxMsgs = 3
  MaxReps = 1

INVARIANTS
  TypeOK
  InitialisedFirst
  AnnouncedChainsReady
  EachChainOnce
  OnePending
  DeliveredInTurn

PROPERTIES
  ChainsAreQueues
