SPECIFICATION Spec
CONSTANTS
  Configurations <- MCConfigurations
  None = None
  MaxSize = 1
  MaxFiles = 2
  MaxPerFile = 2
  MaxThreads = 1
INVARIANT ObjectsPrefetched
