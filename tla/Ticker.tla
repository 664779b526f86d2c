------------------------------- MODULE Ticker -------------------------------
(***************************************************************************)
(* The ticker (ticker.c): a counter that the interrupt of TIMER2 moves on  *)
(* and that goes back to zero from its last value.  A tick stands for a    *)
(* whole period of TIMER2 and its interrupt, served before the next one.   *)
(***************************************************************************)
EXTENDS Integers

CONSTANT TICKS   \* how many values the counter has: 2^16 in ticker.c

ASSUME TicksAssumption == TICKS \in Nat \ {0, 1}

VARIABLES ticks,    \* the counter
          OCIE2A    \* whether TIMER2 counts and its interrupt is enabled

tickerVars == <<ticks, OCIE2A>>

Tick == 0 .. TICKS - 1

\* The counter is not set by ticker_setup: it starts with any value, so that
\* it can be about to overflow.
ticker_setup == ticks \in Tick /\ OCIE2A = FALSE

\* ticker_start does not set the counter either.
ticker_start == OCIE2A' = TRUE /\ UNCHANGED ticks

ticker_stop == OCIE2A' = FALSE /\ UNCHANGED ticks

\* Both bytes in an atomic block.
ticker_get == ticks

TIMER2_COMPA_vect == /\ OCIE2A
                     /\ ticks' = IF ticks = TICKS - 1 THEN 0 ELSE ticks + 1
                     /\ UNCHANGED OCIE2A

\* The difference of two counts, as a uint16_t.
Minus(a, b) == IF a >= b THEN a - b ELSE a - b + TICKS
=============================================================================
