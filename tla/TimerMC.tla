------------------------------ MODULE TimerMC -------------------------------
(***************************************************************************)
(* Instances of the timer and the pins for TLC.  A counter of three values *)
(* is enough to reach the compare value, to miss it and to go round; two   *)
(* pins, for main and the action to write different ones of one port.      *)
(***************************************************************************)
EXTENDS TimerProps

CONSTANTS led, relay

LedAndRelay == {led, relay}
TestCounts == {1, 2}
OneCount == {1}

\* The operations of pin.h; those of an action that blinks; only setting and
\* clearing.
AllOps == {"true", "false", "toggle"}
BlinkOps == {"false", "toggle"}
SetOps == {"true", "false"}
=============================================================================
