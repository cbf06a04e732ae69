SPECIFICATION ShapeSpec
CONSTANTS
  MaxSize = 4
  MaxFiles = 6
  MaxPerFile = 3
  MaxBatch = 3
  MaxThreads = 3
INVARIANTS
  SamplesPartitioned
  DatasetReadOnce
  LoadersKeepUp
