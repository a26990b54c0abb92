SPECIFICATION Spec
CONSTANTS
  GateMode = "maintenance"
  Requests <- ThresholdRequests
  Value = {"v1", "v2"}
  OutOfRange = {}
  Measurements <- GoodSamples
  Pids = {1, 2}
  DiskFaults = FALSE
  DispatchFaults = FALSE
  MaxCommand = 2
  MaxRestart = 0
PROPERTIES
  WriteSuccessIsInForce
