SPECIFICATION Spec
CONSTANTS
  Configurations <- MCConfigurations
  MaxSteps = 3
  MaxBetween = 2
  MaxExcluded = 2
  LoadTimes = {0, 2}
  ComputeTimes = {1, 2}
  BarrierTimes = {0, 1}
  SaveTimes = {1}
INVARIANTS
  StepsInBlocks
  CheckpointsOutsideBlocks
  MetricsOfSteps
