SPECIFICATION Spec
CONSTANTS
  Unset = Unset
  Jobs <- MCJobs
  MaxCpus = 12
  MaxRanks = 3
INVARIANTS
  OptionsInForce
  DerivedTwice
  PartsAgree
  RefusedLate
CHECK_DEADLOCK FALSE
