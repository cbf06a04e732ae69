SPECIFICATION Spec
CONSTANTS
  CommSize = 3
  Epochs = 2
  MaxSteps = 6
  TotalTrainingSteps = 5
  Batches <- BatchesSpare
  DoCheckpoint = TRUE
  StepsBetweenCheckpoints = 2
  CheckpointAfterEpoch = 1
  EpochsBetweenCheckpoints = 1
  DoEval = FALSE
  EvalAfterEpoch = 1
  EpochsBetweenEvals = 1
INVARIANTS
  CheckpointConsistent
  OneCheckpointAtATime
  ScheduleMet
PROPERTIES
  BulkSynchronous
