------------------------------ MODULE MCSignals ------------------------------
(* Slots and values for the run of Signals.                                  *)
EXTENDS Signals

CONSTANTS v1, v2

SomeSlots == [values : {<<>>, <<v1>>, <<v1, v2>>, <<v2, v1, v2>>}, byValue : BOOLEAN]
=============================================================================
