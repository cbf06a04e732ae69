CONSTANTS
  Configurations <- MCConfigurations
  Storages = {"file", "s3", "aistore"}
  MaxJobs = 2
  MaxFaults = 1
SPECIFICATION Spec
INVARIANTS GeneratedIsListed ListedFilesWhole LeftoversRead IndexFollowsFile
CHECK_DEADLOCK FALSE
