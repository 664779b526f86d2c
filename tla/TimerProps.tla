----------------------------- MODULE TimerProps -----------------------------
(***************************************************************************)
(* What the timer and the pins must do.                                    *)
(***************************************************************************)
EXTENDS Timer

Due == OCIE1A /\ OCF1A

Change == [reg : {"PORT", "DDR", "PIN"}, on : BOOLEAN, pin : Pins]

\* The type of every variable: registers, the action, main and the observers.
TypeOK ==
  /\ PORT \subseteq Pins /\ DDR \subseteq Pins /\ outside \subseteq Pins
  /\ bound \subseteq Pins /\ written \subseteq Pins
  /\ call \in [aim : {"true", "false", "toggle"}, todo : Seq(Change),
             copy : {<<>>} \cup {<<v>> : v \in SUBSET Pins}]
  /\ action \in [low : Action, high : Action]
  /\ OCR1A \in 0 .. TOP - 1 /\ TCNT1 \in 0 .. TOP - 1
  /\ OCF1A \in BOOLEAN /\ OCIE1A \in BOOLEAN
  /\ main \in {"idle", "low", "clear", "enable"}
  /\ mine \in BOOLEAN /\ stale \in BOOLEAN /\ wanted \in BOOLEAN
  /\ count \in Counts \cup {0} /\ since \in 0 .. SinceMax

\* The interrupt never calls through a pointer that main has half written:
\* main is right to believe that the timer is not armed, whatever the action
\* does.
ActionIsWhole == /\ OCIE1A => action.low = action.high /\ main = "idle"
                 /\ mine => ~OCIE1A

(***************************************************************************)
(* timer_arm_once(c) makes c the last value of the counter: the call of    *)
(* the action is due when the counter has gone past it, with pulse c + 1   *)
(* after the counter was cleared, where timer.h says after c pulses.  It   *)
(* is due earlier only if the flag was already set then, and never later:  *)
(* the compare value is in place before the counter is cleared, and the    *)
(* counter does not pass it unseen.                                        *)
(***************************************************************************)
FiresOnTime == /\ Due => since > count \/ stale
               /\ OCIE1A /\ ~OCF1A => since <= count

\* pin.h: an operation gives its value to its own pin: whoever sets, clears
\* or toggles pins, each is as its own operations left it.
PinsAsWritten == PORT = written

\* Main will write back a bit of p that the action changed after main read it.
StaleAt(p) ==
  /\ call.copy # <<>>
  /\ ~(p \in call.copy[1] <=> p \in Register(Head(call.todo).reg))

\* A toggle of another pin writes a 1 to p's bit of PIN: it was read there, by
\* main before or by the action now.
ToggledAlong(p) ==
  \/ /\ call.copy # <<>> /\ Head(call.todo).reg = "PIN"
     /\ p \in call.copy[1] \ {Head(call.todo).pin}
  \/ /\ Due /\ ~OCF1A' /\ "toggle" \in ActionOps
     /\ p \in PIN \ {Led}

(***************************************************************************)
(* Main and the action set, clear and toggle pins of one port.  A pin that *)
(* is as its own operations left it stays so in every step, of whoever,    *)
(* but for two ways to lose it: main writes back the value of before an    *)
(* action that came between its read and its write, or a toggle of another *)
(* pin takes it along.                                                     *)
(***************************************************************************)
NoOtherLoss ==
  [][\A p \in Pins : (p \in PORT <=> p \in written)
       => (p \in PORT' <=> p \in written') \/ StaleAt(p) \/ ToggledAlong(p)]_vars

\* The action of an armed timer is called, and one that arms the timer again
\* goes on being called until main disarms it.
ArmedFires == <>[]wanted => []<><<TIMER1_COMPA_vect>>_vars
=============================================================================
