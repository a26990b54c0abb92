SPECIFICATION Spec
CHECK_DEADLOCK FALSE
CONSTANTS
  Thresholds = {100, 200}
  Intervals = {1, 2}
  Kinds <- Restarting
  StartLimit = 1
  ControlFaults = TRUE
  ServerFaults = TRUE
  MaxRequest = 2
  MaxCrash = 1
  MaxLate = 2
INVARIANTS
  RunsAsConfigured
