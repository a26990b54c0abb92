---------------------------- MODULE MCInstrument ----------------------------
(* Instances of Instrument for TLC: what clients ask for, per question.    *)
EXTENDS Instrument

Settings   == {"run", "set_th", "CAL"}
Restarting == Settings \cup {"read_adc", "set_time"}
=============================================================================
