SPECIFICATION FairSpec
CONSTANTS
  GateMode = "maintenance"
  Requests <- LiveRequests
  Value = {"v1", "v2"}
  OutOfRange = {"x"}
  Measurements <- GoodSamples
  Pids = {1, 2}
  DiskFaults = FALSE
  DispatchFaults = FALSE
  MaxCommand = 2
  MaxRestart = 0
INVARIANTS
  CalibrationAttended
PROPERTIES
  EveryCommandEnds
  CalibrationReadbackEnds
  WritesAreTakenUp
