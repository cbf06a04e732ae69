SPECIFICATION Spec
CONSTANTS
  CommSize = 3
  Epochs = 4
  MaxSteps = 2
  TotalTrainingSteps <- Unset
  Batches <- BatchesSpare
  DoCheckpoint = TRUE
  StepsBetweenCheckpoints <- Unset
  CheckpointAfterEpoch = 1
  EpochsBetweenCheckpoints = 2
  DoEval = TRUE
  EvalAfterEpoch = 2
  EpochsBetweenEvals = 2
INVARIANTS
  CollectivesAgree
  ScheduleMet
PROPERTIES
  Termination
