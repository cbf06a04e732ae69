SPECIFICATION Spec
CONSTANTS
  Configurations <- MCConfigurations
  None = None
  MaxSize = 2
  MaxFiles = 3
  MaxPerFile = 3
  MaxThreads = 2
INVARIANTS
  SizesReported
  FilesRead
PROPERTIES
  Delivers
  ReadsToTheEnd
