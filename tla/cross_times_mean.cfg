SPECIFICATION Spec

CONSTANTS
  PipelineActors = 3
  Delays = {1, 4}
  Work = 3
  Micro = 2
  MaxSamples = 2

INVARIANTS
  MeanOfSamples
