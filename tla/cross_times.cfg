SPECIFICATION Spec

CONSTANTS
  PipelineActors = 3
  Delays = {1, 4}
  Work = 3
  Micro = 2
  MaxSamples = 3

INVARIANTS
  TypeOK
  NeverThrows
  PartsFollowRoute
  PartsAddUp
  MeanInOrder
  MeanApproached
