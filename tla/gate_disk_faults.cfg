SPECIFICATION Spec
CONSTANTS
  GateMode = "maintenance"
  Requests <- RestorationRequests
  Value = {"v1"}
  OutOfRange = {}
  Measurements <- GoodSamples
  Pids = {1, 2}
  DiskFaults = TRUE
  DispatchFaults = FALSE
  MaxCommand = 2
  MaxRestart = 2
INVARIANTS
  LockInv
  FailedRestorationLocks
  LockAdmitsOnlyRecovery
PROPERTIES
  RestartNeverFabricatesSuccess
