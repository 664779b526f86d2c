--------------------------------- MODULE Pin ---------------------------------
(***************************************************************************)
(* The pins of one port (pin.c, pin.h).  Main's operations are read-       *)
(* modify-writes of the port's registers, through a pointer: an interrupt  *)
(* may come between the read and the write.  A register is the set of the  *)
(* pins whose bit is 1.                                                    *)
(***************************************************************************)
EXTENDS Integers, Sequences

CONSTANTS Pins,     \* the pins of the port
          PinOps,   \* the operations that main calls on bound pins
          ActionOps \* those that an interrupt routine calls on its pin

ASSUME PinOpsAssumption == PinOps \cup ActionOps \subseteq {"true", "false", "toggle"}

Direction == {"Input", "InputPullup", "Output"}

VARIABLES PORT, DDR,  \* registers: output values or pull-ups, outputs
          outside,    \* the pins that the world holds high
          bound,      \* the pins that main has bound
          call,       \* main's call: what is left of it, the value read
          written     \* observer: the pins that should be high in PORT

pinVars == <<PORT, DDR, outside, bound, call, written>>

NoCall == [aim |-> "false", todo |-> <<>>, copy |-> <<>>]

-----------------------------------------------------------------------------
\* What reading the register PIN gives.
PIN == {p \in Pins : IF p \in DDR THEN p \in PORT ELSE p \in outside}

\* R |= mask or R &= ~mask.
SetBit(r, p) == [reg |-> r, on |-> TRUE, pin |-> p]
ClearBit(r, p) == [reg |-> r, on |-> FALSE, pin |-> p]

\* Faulty variant: the levels of the pins for the values of the port.
LevelForValue(r) == IF r = "DDR" THEN DDR ELSE PIN

Register(r) == CASE r = "PORT" -> PORT [] r = "DDR" -> DDR [] r = "PIN" -> PIN

Changed(c, copy) == IF c.on THEN copy \cup {c.pin} ELSE copy \ {c.pin}

\* A 1 written to a bit of PIN toggles that bit of PORT.
Toggled(v) == (PORT \cup v) \ (PORT \cap v)

\* What the port holds when v has been written to register r.
PortAfter(r, v) == CASE r = "PORT" -> v [] r = "PIN" -> Toggled(v) [] r = "DDR" -> PORT

pin_bind(p, d) ==
  CASE d = "Output"      -> <<SetBit("DDR", p), ClearBit("PORT", p)>>
    [] d = "Input"       -> <<ClearBit("DDR", p), ClearBit("PORT", p)>>
    [] d = "InputPullup" -> <<ClearBit("DDR", p), SetBit("PORT", p)>>

pin_set_true(p) == <<SetBit("PORT", p)>>

pin_set_false(p) == <<ClearBit("PORT", p)>>

pin_w(p, v) == IF v THEN pin_set_true(p) ELSE pin_set_false(p)

pin_toggle(p) == <<SetBit("PIN", p)>>

pin_unbind(p) == <<ClearBit("DDR", p), ClearBit("PORT", p)>>

-----------------------------------------------------------------------------
(***************************************************************************)
(* What main may call: a pin is bound before it is used, and in one place. *)
(* The aim of a call is what it should make of its pin.                    *)
(***************************************************************************)
Calling(aim, todo) == call' = [aim |-> aim, todo |-> todo, copy |-> <<>>]

Bind == \E p \in Pins \ bound, d \in Direction :
          /\ Calling(IF d = "InputPullup" THEN "true" ELSE "false", pin_bind(p, d))
          /\ bound' = bound \cup {p}

Operation(op, p) == IF op = "toggle" THEN pin_toggle(p) ELSE pin_w(p, op = "true")

Use == /\ \E p \in bound, op \in PinOps : Calling(op, Operation(op, p))
       /\ UNCHANGED bound

Unbind(p) == /\ p \in bound
             /\ Calling("false", pin_unbind(p))
             /\ bound' = bound \ {p}

ReadRegister == /\ call.todo # <<>> /\ call.copy = <<>>
                /\ call' = [call EXCEPT !.copy = <<Register(Head(call.todo).reg)>>]
                /\ UNCHANGED <<PORT, DDR, outside, bound, written>>

Aimed(aim, p) == IF aim = "true" \/ (aim = "toggle" /\ p \notin written)
                 THEN written \cup {p} ELSE written \ {p}

WriteRegister ==
  LET c == Head(call.todo)
      v == Changed(c, call.copy[1])
  IN /\ call.todo # <<>> /\ call.copy # <<>>
     /\ DDR' = IF c.reg = "DDR" THEN v ELSE DDR
     /\ PORT' = PortAfter(c.reg, v)
     /\ written' = IF c.reg = "DDR" THEN written ELSE Aimed(call.aim, c.pin)
     /\ call' = [call EXCEPT !.todo = Tail(@), !.copy = <<>>]
     /\ UNCHANGED <<outside, bound>>

PinStep == ReadRegister \/ WriteRegister

\* The same operations called in an interrupt routine: nothing comes between
\* the read and the write of the one register.
WriteAtOnce(op, p) ==
  LET c == Head(Operation(op, p)) IN
  /\ PORT' = PortAfter(c.reg, Changed(c, Register(c.reg)))
  /\ written' = Aimed(op, p)
  /\ UNCHANGED <<DDR, outside, bound, call>>

\* The world changes the level of a pin.
World == /\ \E p \in Pins : outside' = IF p \in outside THEN outside \ {p} ELSE outside \cup {p}
         /\ UNCHANGED <<PORT, DDR, bound, call, written>>

\* After a reset.
PinInit == /\ PORT = {} /\ DDR = {} /\ bound = {} /\ written = {}
           /\ outside \in SUBSET Pins
           /\ call = NoCall
=============================================================================
