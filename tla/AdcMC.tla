-------------------------------- MODULE AdcMC --------------------------------
(***************************************************************************)
(* Instances of the adc for TLC: two channels that share a reference, one  *)
(* with another and one with the external reference; and one alone.        *)
(***************************************************************************)
EXTENDS AdcProps

\* The potentiometer and another pin, a pin against the internal reference
\* and a pin against the external one.
Pot == [ch |-> 1, ref |-> "Vcc"]
Pin2 == [ch |-> 2, ref |-> "Vcc"]
Sensor == [ch |-> 7, ref |-> "Int11"]
External == [ch |-> 3, ref |-> "Aref"]

AllKinds == {Pot, Pin2, Sensor, External}
OnlyPot == {Pot}
=============================================================================
