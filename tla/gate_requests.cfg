SPECIFICATION Spec
CONSTANTS
  GateMode = "maintenance"
  Requests <- AllRequests
  Value = {"v1", "v2"}
  OutOfRange = {"x"}
  Measurements <- LatchSamples
  Pids = {1, 2}
  DiskFaults = FALSE
  DispatchFaults = TRUE
  MaxCommand = 2
  MaxRestart = 1
INVARIANTS
  DispatchedIsDurable
  ReservationHeld
PROPERTIES
  InterruptionLocks
  AuditSpec
