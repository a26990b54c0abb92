----------------------- MODULE MCHistorianReplication -----------------------
(* Instances of HistorianReplication for TLC.                              *)
EXTENDS HistorianReplication

(* Samples are kept for two ticks, what is small for longer.               *)
ShortRaw ==
  [t \in Table |-> IF t \in {"fast_sample", "platform_sample"} THEN 1 ELSE 3]
=============================================================================
