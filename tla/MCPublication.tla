--------------------------- MODULE MCPublication ---------------------------
(* Instances of Publication for TLC.                                       *)
EXTENDS Publication, TLC

Categories == {"Measurement", "Calibration", "Storage"}
EssentialOnes == {"Measurement", "Calibration"}
Collectives == {"Measurement", "Calibration"}
Fails == {"Measurement", "Calibration"}
Hangs == {"Storage"}
None == [p \in {} |-> "Good"]

(* A table of calibration, and a file system that is unknown at the start. *)
SomeParts    == ("Measurement" :> {}) @@ ("Calibration" :> {"table"}) @@ ("Storage" :> {"data"})
SomeExpected == ("Measurement" :> {}) @@ ("Calibration" :> {"table"}) @@ ("Storage" :> {})

Find(quality, parts, resistance) ==
  [quality |-> quality, parts |-> parts, resistance |-> resistance]

SomeFound ==
  ("Measurement" :> {Find("Good", None, TRUE), Find("Bad", None, FALSE)})
  @@ ("Calibration" :> {Find("Good", [i \in {"table"} |-> "Good"], FALSE)})
  @@ ("Storage" :> {Find("Good", [i \in {"data"} |-> "Good"], FALSE)})
=============================================================================
