------------------------------ MODULE SwitchMC ------------------------------
(***************************************************************************)
(* Instances of the switches for TLC: two slots, so that one is polled,    *)
(* bound or released while the other is sampled, and two pins.  A window   *)
(* of two samples has stable and unstable histories.                       *)
(***************************************************************************)
EXTENDS SwitchProps, TLC

CONSTANTS d2, d3      \* pins, as in the tests

Pins == {d2, d3}

\* The two pins play the same part.
PinSymmetry == Permutations(Pins)
=============================================================================
