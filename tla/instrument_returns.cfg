SPECIFICATION FairSpec
CHECK_DEADLOCK FALSE
CONSTANTS
  Thresholds = {100}
  Intervals = {1, 2}
  Kinds <- AllKinds
  StartLimit = 5
  ControlFaults = TRUE
  ServerFaults = FALSE
  MaxRequest = 2
  MaxCrash = 1
  MaxLate = 2
INVARIANTS
  AlarmIsLatched
PROPERTIES
  LatchSurvives
  EngineReturns
