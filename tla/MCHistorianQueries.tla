------------------------- MODULE MCHistorianQueries -------------------------
(* Instances of HistorianQueries for TLC.                                  *)
EXTENDS HistorianQueries

(* A value that is only usable and out of range, a good one, none.         *)
ThreeKinds ==
  {[value |-> 1, status |-> "Good", range |-> "InRange"],
   [value |-> 2, status |-> "Uncertain", range |-> "OutOfRange"],
   [value |-> NoValue, status |-> "Bad", range |-> "InRange"]}

(* Platform rows that are gone after a tick, raw rows after two, rollups   *)
(* after three.                                                            *)
Ages == [fast |-> 2, platform |-> 1, rollups |-> 3]

(* All of the time, in both tables, in fewer points than there may be.     *)
AllOfIt == {[from |-> 0, to |-> MaxClock, limit |-> 2, tables |-> Tables]}
=============================================================================
