SPECIFICATION Spec
CONSTANTS
  Configurations <- MCConfigurations
  MaxSize = 2
  MaxFiles = 3
  MaxPerFile = 3
  MaxThreads = 2
  MaxCache = 2
INVARIANTS
  CacheMatchesLRU
  CachedFilesAreOpen
  ReadOnce
PROPERTIES
  Delivers
  ReadsToTheEnd
