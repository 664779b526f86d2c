-------------------------------- MODULE I2cMC --------------------------------
(***************************************************************************)
(* Instances of the i2c driver for TLC.  Three cells, two for requests,    *)
(* are enough for the indices to wrap, for the queue to be full with a     *)
(* caller waiting, and for a request to come while another is served.      *)
(***************************************************************************)
EXTENDS I2cProps, TLC

CONSTANTS k1, k2      \* clients

OneMain == {k1}
TwoMain == {k1, k2}
OneIsr == {k2}
NoIsr == {}

\* The user in main moves blocks, the user in a timer action single bytes.
MixedCalls == (k1 :> {"send", "forget", "receive", "sandr"}) @@ (k2 :> {"bytes"})

\* Calls of one request each.  A user that gives no status variable can fill
\* the queue alone.
PlainCalls == (k1 :> {"forget"}) @@ (k2 :> {"receive"})

\* A user of main that sends, and that sends and receives in one call.
PairCalls == k1 :> {"forget", "sandr"}

(***************************************************************************)
(* States that differ only in what the code never reads again are the same *)
(* for TLC: the cells of the queue that hold no request, current_req and i *)
(* while Idle, how the last request of a user ended and what it received.  *)
(***************************************************************************)
LiveState ==
  <<Contents(requests), requests.front, ida_state, cpu, twi, bus,
    IF ida_state = "Idle" THEN <<>> ELSE <<current_req, i>>,
    [k \in Clients |-> IF status[k] = "Running" THEN buffer[k] ELSE <<>>]>>
=============================================================================
