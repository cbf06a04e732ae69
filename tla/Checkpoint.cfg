CONSTANTS
  MaxSize = 8
  MaxParallelism = 3
  MaxLayers = 4
  Models <- MCModels
  Layouts <- MCLayouts
  Simulated <- MCSimulated
  Workloads <- MCWorkloads
  Storages = {"file", "rooted", "object"}
  MaxJobs = 2
SPECIFICATION Spec
INVARIANTS FilesDistinct SavedOnce WrittenIsLoaded WritersCountEnough CheckpointOfOneJob FoldersAreCheckpoints
CHECK_DEADLOCK FALSE
