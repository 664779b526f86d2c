-------------------------------- MODULE Timer --------------------------------
(***************************************************************************)
(* The timer (timer.c, timer.h) in a program like those that test it: main *)
(* sets an action and arms the timer; the interrupt of TIMER1 disarms it   *)
(* and calls the action, which writes a pin and may arm the timer again.   *)
(*                                                                         *)
(* Main's calls are cut at every register they write.  Main sets actions   *)
(* and arms only when it knows that the timer is not armed: it disarmed    *)
(* it, or saw timer_armed() false.                                         *)
(***************************************************************************)
EXTENDS Pin

CONSTANTS Led,      \* the pin that the action writes
          Counts,   \* the pulses that the timer is armed for
          TOP,      \* TCNT1 counts modulo TOP (2^16)
          SinceMax  \* bound of the observer since

ASSUME LedAssumption == Led \in Pins
ASSUME ActionOpsAssumption == ActionOps # {}
ASSUME CountsAssumption == TOP \in Nat \ {0} /\ Counts \subseteq 1 .. TOP - 1
\* The observer since must tell all the pulses of one turn.
ASSUME SinceAssumption == SinceMax \in Nat /\ SinceMax >= TOP

\* The actions of the user: write the pin, or also arm the timer again.
Action == {"once", "again"}

VARIABLES action,               \* the pointer of timer.c, in two bytes
          OCR1A, TCNT1,         \* registers: compare value, counter
          OCF1A, OCIE1A,        \* compare flag, interrupt enable bit
          main,                 \* where main is in a timer call
          mine,                 \* main knows that the timer is not armed
          count, since,         \* observers of the arming: the pulses asked for, those
          stale, wanted         \* since the counter was cleared; the flag was set then;
                                \* a call is due

timer == <<action, OCR1A, TCNT1, OCF1A, OCIE1A>>
observers == <<count, since, stale, wanted>>
vars == <<timer, main, mine, observers, pinVars>>

At(p) == main = p /\ call.todo = <<>>

-----------------------------------------------------------------------------
\* timer_set_action: a pointer is written one byte after the other.
timer_set_action ==
  \/ \E a \in Action : /\ At("idle") /\ mine /\ a # action.low
                       /\ action' = [action EXCEPT !.high = a]
                       /\ main' = "low"
                       /\ UNCHANGED <<OCR1A, TCNT1, OCF1A, OCIE1A, mine, observers, pinVars>>
  \/ /\ At("low")
     /\ action' = [action EXCEPT !.low = action.high]
     /\ main' = "idle"
     /\ UNCHANGED <<OCR1A, TCNT1, OCF1A, OCIE1A, mine, observers, pinVars>>

\* Faulty variant: one pulse more, for the one that was not counted.
CompareNext(c) ==
  /\ At("idle") /\ mine /\ Led \in bound
  /\ OCR1A' = c + 1 /\ count' = c
  /\ main' = "clear"
  /\ UNCHANGED <<action, TCNT1, OCF1A, OCIE1A, mine, since, stale, wanted, pinVars>>

ArmCompare(c) ==
  /\ At("idle") /\ mine /\ Led \in bound
  /\ OCR1A' = c /\ count' = c
  /\ main' = "clear"
  /\ UNCHANGED <<action, TCNT1, OCF1A, OCIE1A, mine, since, stale, wanted, pinVars>>

ArmClear ==
  /\ At("clear")
  /\ TCNT1' = 0
  /\ since' = 0 /\ stale' = OCF1A
  /\ main' = "enable"
  /\ UNCHANGED <<action, OCR1A, OCF1A, OCIE1A, mine, count, wanted, pinVars>>

\* With it the reset of the prescaler: time is counted in whole pulses here.
ArmEnable ==
  /\ At("enable")
  /\ OCIE1A' = TRUE /\ wanted' = TRUE
  /\ mine' = FALSE /\ main' = "idle"
  /\ UNCHANGED <<action, OCR1A, TCNT1, OCF1A, count, since, stale, pinVars>>

timer_arm_once == ArmClear \/ ArmEnable

\* Faulty variant: the call does not disarm.
DisarmNothing ==
  /\ At("idle") /\ ~mine
  /\ mine' = TRUE /\ wanted' = FALSE
  /\ UNCHANGED <<timer, main, count, since, stale, pinVars>>

timer_disarm ==
  /\ At("idle") /\ ~mine
  /\ OCIE1A' = FALSE
  /\ mine' = TRUE /\ wanted' = FALSE
  /\ UNCHANGED <<action, OCR1A, TCNT1, OCF1A, main, count, since, stale, pinVars>>

\* Main sees timer_armed() false.
timer_armed == /\ At("idle") /\ ~mine /\ ~OCIE1A
               /\ mine' = TRUE
               /\ UNCHANGED <<timer, main, observers, pinVars>>

-----------------------------------------------------------------------------
\* What the action does with the timer: nothing, or timer_arm_once(c).  The
\* flag was cleared when the interrupt was served.
CallAction ==
  \/ /\ action.low = "once"
     /\ wanted' = FALSE
     /\ UNCHANGED <<OCR1A, TCNT1, count, since, stale>>
  \/ /\ action.low = "again"
     /\ \E c \in Counts : OCR1A' = c /\ count' = c
     /\ TCNT1' = 0 /\ since' = 0
     /\ stale' = FALSE /\ wanted' = TRUE

\* Faulty variant: the timer is disarmed after the action.
DisarmLast ==
  /\ OCIE1A /\ OCF1A
  /\ OCF1A' = FALSE
  /\ CallAction
  /\ OCIE1A' = FALSE
  /\ \E op \in ActionOps : WriteAtOnce(op, Led)
  /\ UNCHANGED <<action, main, mine>>

\* Serving the interrupt clears its flag.  It disarms and calls the action.
TIMER1_COMPA_vect ==
  /\ OCIE1A /\ OCF1A
  /\ OCF1A' = FALSE
  /\ CallAction
  /\ OCIE1A' = (action.low = "again")
  /\ \E op \in ActionOps : WriteAtOnce(op, Led)
  /\ UNCHANGED <<action, main, mine>>

(***************************************************************************)
(* A pulse of the clock of TIMER1, armed or not: the counter goes round at *)
(* the compare value, where it sets the flag, or else at TOP.              *)
(***************************************************************************)
Pulse == /\ TCNT1' = IF TCNT1 = OCR1A THEN 0 ELSE (TCNT1 + 1) % TOP
         /\ OCF1A' = (OCF1A \/ TCNT1 = OCR1A)
         /\ since' = IF since < SinceMax THEN since + 1 ELSE since
         /\ UNCHANGED <<action, OCR1A, OCIE1A, main, mine, count, stale, wanted, pinVars>>

\* After timer_setup with a clock, with the rest of the registers as after a
\* reset and the first action set.
Init == /\ PinInit
        /\ action = [low |-> "once", high |-> "once"]
        /\ OCR1A = 0 /\ TCNT1 = 0 /\ OCF1A = FALSE /\ OCIE1A = FALSE
        /\ main = "idle" /\ mine = TRUE
        /\ count = 0 /\ since = 0 /\ stale = FALSE /\ wanted = FALSE

\* Main calls an operation on the pins; it does not unbind the pin of an
\* action that may come.
PinCall == /\ At("idle")
           /\ Bind \/ Use \/ (\E p \in Pins : (p = Led => mine) /\ Unbind(p))
           /\ UNCHANGED <<PORT, DDR, outside, written>>

\* The calls that have begun.
MainStep == \/ timer_arm_once
            \/ PinStep /\ UNCHANGED <<timer, main, mine, observers>>

Next == \/ PinCall /\ UNCHANGED <<timer, main, mine, observers>>
        \/ World /\ UNCHANGED <<timer, main, mine, observers>>
        \/ timer_set_action
        \/ \E c \in Counts : ArmCompare(c)
        \/ timer_disarm \/ timer_armed
        \/ MainStep
        \/ TIMER1_COMPA_vect
        \/ Pulse

Spec == Init /\ [][Next]_vars

\* The CPU goes on with the calls of main, and serves the interrupt; the
\* clock of the timer runs on.
Fairness == WF_vars(MainStep) /\ WF_vars(TIMER1_COMPA_vect) /\ WF_vars(Pulse)

FairSpec == Spec /\ Fairness
=============================================================================
