SPECIFICATION Spec
CONSTANTS
  CommSize = 3
  NumFiles = 4
  MaxCheckpoints = 2
INVARIANTS
  NoRankFails
  CheckpointsInOrder
  DatasetAtExit
PROPERTIES
  EndsTogether
