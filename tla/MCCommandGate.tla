--------------------------- MODULE MCCommandGate ---------------------------
(* Instances of CommandGate for TLC: what clients ask for, and what the    *)
(* collectors may deliver, per question.                                   *)
EXTENDS CommandGate

Maintenance(paths) == {"maintenance"} \X paths

(* Calibration, its abort and the recovery, and a client without a role.   *)
RestorationRequests ==
  Maintenance({"StartCalibration", "AbortCalibration", "RestoreNormalState"})
CalibrationRequests == RestorationRequests \cup {<<"anonymous", "ClearLatch">>}

(* Every method once, to fire every verification.                          *)
AllMethods == Maintenance(Methods)

(* ... and configuration writes next to them.                              *)
AllRequests == AllMethods \cup {<<"operator", "ThresholdOhm">>}

ThresholdRequests ==
  {<<"operator", "ThresholdOhm">>, <<"maintenance", "RestartMeasurementEngine">>}
LiveRequests == CalibrationRequests \cup ThresholdRequests

Sample(good, value, latched, alarm) ==
  [good |-> good, threshold |-> value, averages |-> value,
   latched |-> latched, alarm |-> alarm]

GoodSamples  == {Sample(TRUE, "v1", FALSE, FALSE)}
(* A record that could not be read parses as bad, without a latch.         *)
LatchSamples ==
  {Sample(TRUE, "v1", TRUE, FALSE), Sample(FALSE, NoValue, FALSE, FALSE)}
=============================================================================
