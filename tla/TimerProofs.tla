----------------------------- MODULE TimerProofs -----------------------------
(***************************************************************************)
(* What the timer does, proved for every width of the counter, all counts, *)
(* and any use of the pins.                                                *)
(***************************************************************************)
EXTENDS TimerProps, SequenceTheorems, TLAPS

\* Main writes the pointer and the registers only while it knows that the
\* timer is not armed, and it is right; the pointer is whole but in between.
PointerOK ==
  /\ action \in [low : Action, high : Action]
  /\ main \in {"idle", "low", "clear", "enable"}
  /\ mine \in BOOLEAN /\ OCIE1A \in BOOLEAN
  /\ mine => ~OCIE1A
  /\ main # "idle" => mine
  /\ main # "low" => action.low = action.high

\* The counter has been cleared for the compare value there is.
Counting == OCIE1A \/ main = "enable"

\* The compare value is the count of the last arming.  From then on the
\* counter does not pass it and, until it reaches it, tells the pulses that
\* have gone by.
CounterOK ==
  /\ OCR1A = count /\ count \in Counts \cup {0}
  /\ OCR1A \in 0 .. TOP - 1 /\ TCNT1 \in 0 .. TOP - 1
  /\ OCF1A \in BOOLEAN /\ stale \in BOOLEAN /\ since \in 0 .. SinceMax
  /\ Counting => /\ TCNT1 <= OCR1A
                 /\ ~OCF1A => since = TCNT1 /\ ~stale
                 /\ OCF1A /\ ~stale => since > OCR1A

TimerInv == PointerOK /\ CounterOK

-----------------------------------------------------------------------------
LEMMA InitTimerInv == Init => TimerInv
<1> SUFFICES ASSUME Init PROVE TimerInv
  OBVIOUS
<1>1. PointerOK
  BY DEF Init, PointerOK, Action
<1>2. CounterOK
  <2>1. ~Counting /\ OCF1A \in BOOLEAN /\ stale \in BOOLEAN
    BY DEF Init, Counting
  <2>2. /\ OCR1A \in 0 .. TOP - 1 /\ TCNT1 \in 0 .. TOP - 1 /\ since \in 0 .. SinceMax
        /\ OCR1A = count /\ count \in Counts \cup {0}
    BY CountsAssumption, SinceAssumption DEF Init
  <2> QED BY <2>1, <2>2 DEF CounterOK
<1> QED BY <1>1, <1>2 DEF TimerInv

\* One step for each action; a step on the pins alone leaves the timer as it is.
LEMMA NextTimerInv == TimerInv /\ [Next]_vars => TimerInv'
<1> SUFFICES ASSUME TimerInv, [Next]_vars PROVE TimerInv'
  OBVIOUS
<1> USE CountsAssumption, SinceAssumption DEF TimerInv
<1>1. CASE UNCHANGED <<timer, main, mine, observers>>
  BY <1>1 DEF PointerOK, CounterOK, Counting, timer, observers
<1>2. CASE timer_set_action
  <2>1. PointerOK'
    BY <1>2 DEF PointerOK, timer_set_action, At
  <2>2. CounterOK'
    BY <1>2 DEF PointerOK, CounterOK, Counting, timer_set_action, At, observers
  <2> QED BY <2>1, <2>2
<1>3. ASSUME NEW c \in Counts, ArmCompare(c)
      PROVE  TimerInv'
  <2>1. PointerOK'
    BY <1>3 DEF PointerOK, ArmCompare, At
  <2>2. CounterOK'
    BY <1>3 DEF PointerOK, CounterOK, Counting, ArmCompare, At, observers
  <2> QED BY <2>1, <2>2
<1>4. CASE timer_disarm
  BY <1>4 DEF PointerOK, CounterOK, Counting, timer_disarm, At
<1>5. CASE timer_armed
  BY <1>5 DEF PointerOK, CounterOK, Counting, timer_armed, At, timer, observers
<1>6. CASE ArmClear
  <2>1. PointerOK'
    BY <1>6 DEF PointerOK, ArmClear, At
  <2>2. CounterOK'
    BY <1>6 DEF PointerOK, CounterOK, Counting, ArmClear, At
  <2> QED BY <2>1, <2>2
<1>7. CASE ArmEnable
  <2>1. PointerOK'
    BY <1>7 DEF PointerOK, ArmEnable, At
  <2>2. CounterOK'
    BY <1>7 DEF PointerOK, CounterOK, Counting, ArmEnable, At
  <2> QED BY <2>1, <2>2
<1>8. CASE TIMER1_COMPA_vect
  <2>1. main = "idle" /\ ~mine
    BY <1>8 DEF PointerOK, TIMER1_COMPA_vect
  <2>2. PointerOK'
    BY <1>8, <2>1 DEF PointerOK, TIMER1_COMPA_vect
  <2>3. CASE action.low = "again"
    <3>1. PICK c \in Counts : OCR1A' = c /\ count' = c
      BY <1>8, <2>3 DEF TIMER1_COMPA_vect, CallAction
    <3>2. TCNT1' = 0 /\ since' = 0 /\ stale' = FALSE /\ OCF1A' = FALSE
      BY <1>8, <2>3 DEF TIMER1_COMPA_vect, CallAction
    <3>3. 0 <= c /\ 0 \in 0 .. TOP - 1 /\ 0 \in 0 .. SinceMax /\ c \in 0 .. TOP - 1
      OBVIOUS
    <3> QED BY <2>2, <3>1, <3>2, <3>3 DEF CounterOK
  <2>4. CASE action.low # "again"
    <3>1. ~Counting' /\ OCF1A' \in BOOLEAN
      BY <1>8, <2>1, <2>4 DEF Counting, TIMER1_COMPA_vect
    <3>2. UNCHANGED <<OCR1A, TCNT1, count, since, stale>>
      BY <1>8, <2>4 DEF TIMER1_COMPA_vect, CallAction
    <3> QED BY <2>2, <3>1, <3>2 DEF CounterOK
  <2> QED BY <2>2, <2>3, <2>4
<1>9. CASE Pulse
  <2>1. PointerOK'
    BY <1>9 DEF PointerOK, Pulse
  <2>2. Counting' <=> Counting
    BY <1>9 DEF Counting, Pulse
  <2>3. TCNT1 # OCR1A => TCNT1' = (TCNT1 + 1) % TOP /\ OCF1A' = OCF1A
    BY <1>9 DEF Pulse, CounterOK
  <2>4. /\ TCNT1' \in 0 .. TOP - 1
        /\ TCNT1 < OCR1A => TCNT1' = TCNT1 + 1
    BY <1>9, <2>3 DEF Pulse, CounterOK
  <2>5. since' \in 0 .. SinceMax /\ (since < SinceMax => since' = since + 1) /\ since' >= since
    BY <1>9 DEF Pulse, CounterOK
  <2>6. CASE TCNT1 = OCR1A
    <3>1. TCNT1' = 0 /\ OCF1A' = TRUE /\ UNCHANGED <<OCR1A, count, stale>>
      BY <1>9, <2>6 DEF Pulse
    <3>2. Counting /\ ~stale => since' > OCR1A
      BY <2>5, <2>6 DEF CounterOK
    <3> QED BY <2>1, <2>2, <2>5, <3>1, <3>2 DEF CounterOK
  <2>7. CASE TCNT1 # OCR1A
    <3>1. UNCHANGED <<OCR1A, count, OCF1A, stale>>
      BY <1>9, <2>3, <2>7 DEF Pulse
    <3>2. Counting => since < SinceMax \/ OCF1A
      BY DEF CounterOK
    <3> QED BY <2>1, <2>2, <2>4, <2>5, <2>7, <3>1, <3>2 DEF CounterOK
  <2> QED BY <2>1, <2>6, <2>7
<1> QED
  BY <1>1, <1>2, <1>3, <1>4, <1>5, <1>6, <1>7, <1>8, <1>9
     DEF Next, MainStep, timer_arm_once, vars

\* The invariant of the timer: timer.c and timer.h with TIMER1 running.
THEOREM TimerInvariance == Spec => []TimerInv
  BY InitTimerInv, NextTimerInv, PTL DEF Spec

\* timer_set_action and timer_arm_once: the interrupt never calls through a
\* half-written pointer.
THEOREM NeverTorn == Spec => []ActionIsWhole
<1>1. TimerInv => ActionIsWhole
  BY DEF TimerInv, PointerOK, ActionIsWhole
<1> QED BY <1>1, TimerInvariance, PTL

\* timer_arm_once: the call of the action is due with pulse c + 1 after the
\* counter was cleared; it is due earlier only if the compare flag was already
\* set then, and an armed timer never misses its compare value.
THEOREM OnTime == Spec => []FiresOnTime
<1>1. TimerInv => (Due => since > count \/ stale)
  BY CountsAssumption, SinceAssumption DEF TimerInv, CounterOK, Counting, Due
<1>2. TimerInv => (OCIE1A /\ ~OCF1A => since <= count)
  BY CountsAssumption, SinceAssumption DEF TimerInv, CounterOK, Counting
<1>3. TimerInv => FiresOnTime
  BY <1>1, <1>2 DEF FiresOnTime
<1> QED BY <1>3, TimerInvariance, PTL

-----------------------------------------------------------------------------
(***************************************************************************)
(* The pins.                                                               *)
(***************************************************************************)
PinTypes ==
  /\ PORT \subseteq Pins /\ DDR \subseteq Pins /\ outside \subseteq Pins
  /\ bound \subseteq Pins /\ written \subseteq Pins
  /\ call \in [aim : {"true", "false", "toggle"}, todo : Seq(Change),
               copy : {<<>>} \cup {<<v>> : v \in SUBSET Pins}]

\* The calls of pin.c and pin.h are lists of changes of registers.
LEMMA CallsAreChanges ==
  ASSUME NEW p \in Pins
  PROVE  /\ \A d \in Direction : pin_bind(p, d) \in Seq(Change)
         /\ \A v \in BOOLEAN : pin_w(p, v) \in Seq(Change)
         /\ \A op : Operation(op, p) \in Seq(Change)
         /\ pin_unbind(p) \in Seq(Change)
<1>1. \A r \in {"PORT", "DDR", "PIN"} : SetBit(r, p) \in Change /\ ClearBit(r, p) \in Change
  BY DEF SetBit, ClearBit, Change
<1>2. ASSUME NEW x \in Change, NEW y \in Change
      PROVE  <<x>> \in Seq(Change) /\ <<x, y>> \in Seq(Change)
  OBVIOUS
<1>3. ASSUME NEW d \in Direction
      PROVE  pin_bind(p, d) \in Seq(Change)
  <2>1. \/ pin_bind(p, d) = <<SetBit("DDR", p), ClearBit("PORT", p)>>
        \/ pin_bind(p, d) = <<ClearBit("DDR", p), ClearBit("PORT", p)>>
        \/ pin_bind(p, d) = <<ClearBit("DDR", p), SetBit("PORT", p)>>
    BY DEF pin_bind, Direction
  <2> QED BY <1>1, <1>2, <2>1
<1>4. ASSUME NEW v \in BOOLEAN
      PROVE  pin_w(p, v) \in Seq(Change)
  BY <1>1, <1>2 DEF pin_w, pin_set_true, pin_set_false
<1>5. pin_toggle(p) \in Seq(Change)
  BY <1>1, <1>2 DEF pin_toggle
<1>6. ASSUME NEW op
      PROVE  Operation(op, p) \in Seq(Change)
  BY <1>4, <1>5 DEF Operation
<1>7. pin_unbind(p) \in Seq(Change)
  BY <1>1, <1>2 DEF pin_unbind
<1> QED BY <1>3, <1>4, <1>6, <1>7

\* A call begins with nothing read.
LEMMA CallingTyped ==
  ASSUME NEW aim \in {"true", "false", "toggle"}, NEW todo \in Seq(Change), Calling(aim, todo)
  PROVE  call' \in [aim : {"true", "false", "toggle"}, todo : Seq(Change),
                    copy : {<<>>} \cup {<<v>> : v \in SUBSET Pins}]
  BY DEF Calling

\* What an operation aims at, and what toggling makes of the port.
LEMMA ValuesTyped ==
  ASSUME PinTypes, NEW p \in Pins
  PROVE  /\ \A aim : Aimed(aim, p) \subseteq Pins
         /\ \A r \in {"PORT", "DDR", "PIN"} : Register(r) \subseteq Pins
         /\ \A r \in {"PORT", "DDR", "PIN"}, v \in SUBSET Pins : PortAfter(r, v) \subseteq Pins
<1>1. PORT \subseteq Pins /\ DDR \subseteq Pins /\ written \subseteq Pins
  BY DEF PinTypes
<1>2. PIN \subseteq Pins
  BY DEF PIN
<1>3. \A v \in SUBSET Pins : Toggled(v) \subseteq Pins
  BY <1>1 DEF Toggled
<1> QED BY <1>1, <1>2, <1>3 DEF Aimed, Register, PortAfter

\* A call of main begins.
LEMMA PinCallTyped == ASSUME PinTypes, PinCall PROVE PinTypes'
<1>1. UNCHANGED <<PORT, DDR, outside, written>>
  BY DEF PinCall
<1>2. ASSUME NEW aim \in {"true", "false", "toggle"}, NEW todo \in Seq(Change), Calling(aim, todo),
             bound' \subseteq Pins
      PROVE  PinTypes'
  BY <1>1, <1>2, CallingTyped DEF PinTypes
<1>3. CASE Bind
  <2> PICK p \in Pins \ bound, d \in Direction :
        /\ Calling(IF d = "InputPullup" THEN "true" ELSE "false", pin_bind(p, d))
        /\ bound' = bound \cup {p}
    BY <1>3 DEF Bind
  <2>1. pin_bind(p, d) \in Seq(Change) /\ bound' \subseteq Pins
    BY CallsAreChanges DEF PinTypes
  <2>2. (IF d = "InputPullup" THEN "true" ELSE "false") \in {"true", "false", "toggle"}
    OBVIOUS
  <2> QED BY <1>2, <2>1, <2>2
<1>4. CASE Use
  <2> PICK p \in bound, op \in PinOps : Calling(op, Operation(op, p))
    BY <1>4 DEF Use
  <2>1. p \in Pins /\ op \in {"true", "false", "toggle"} /\ bound' \subseteq Pins
    BY <1>4, PinOpsAssumption DEF PinTypes, Use
  <2>2. Operation(op, p) \in Seq(Change)
    BY <2>1, CallsAreChanges
  <2> QED BY <1>2, <2>1, <2>2
<1>5. ASSUME NEW p \in Pins, Unbind(p)
      PROVE  PinTypes'
  <2>1. pin_unbind(p) \in Seq(Change) /\ bound' \subseteq Pins
    BY <1>5, CallsAreChanges DEF PinTypes, Unbind
  <2> QED BY <1>2, <1>5, <2>1 DEF Unbind
<1> QED BY <1>3, <1>4, <1>5 DEF PinCall

\* A call goes on: a register is read, or written.
LEMMA PinStepTyped == ASSUME PinTypes, PinStep PROVE PinTypes'
<1>1. CASE ReadRegister
  <2>1. call.todo \in Seq(Change) /\ call.todo # <<>> /\ Head(call.todo) \in Change
    BY <1>1 DEF ReadRegister, PinTypes
  <2>2. Register(Head(call.todo).reg) \in SUBSET Pins
    <3>1. Head(call.todo).reg \in {"PORT", "DDR", "PIN"} /\ Head(call.todo).pin \in Pins
      BY <2>1 DEF Change
    <3> QED BY <3>1, ValuesTyped
  <2>3. call' = [call EXCEPT !.copy = <<Register(Head(call.todo).reg)>>]
    BY <1>1 DEF ReadRegister
  <2>4. <<Register(Head(call.todo).reg)>> \in {<<v>> : v \in SUBSET Pins}
    BY <2>2
  <2> QED BY <1>1, <2>3, <2>4 DEF ReadRegister, PinTypes
<1>2. CASE WriteRegister
  <2> DEFINE c == Head(call.todo)
             v == Changed(c, call.copy[1])
  <2>1. call.todo \in Seq(Change) /\ call.todo # <<>> /\ c \in Change
    BY <1>2 DEF WriteRegister, PinTypes
  <2>2. v \subseteq Pins
    <3>1. call.copy \in {<<w>> : w \in SUBSET Pins}
      BY <1>2 DEF WriteRegister, PinTypes
    <3>2. call.copy[1] \subseteq Pins
      BY <3>1
    <3>3. c.pin \in Pins
      BY <2>1 DEF Change
    <3> QED BY <3>2, <3>3 DEF Changed
  <2>3. Aimed(call.aim, c.pin) \subseteq Pins /\ PortAfter(c.reg, v) \subseteq Pins
    <3>1. c.pin \in Pins /\ c.reg \in {"PORT", "DDR", "PIN"}
      BY <2>1 DEF Change
    <3> QED BY <2>2, <3>1, ValuesTyped
  <2>4. /\ DDR' = IF c.reg = "DDR" THEN v ELSE DDR
        /\ PORT' = PortAfter(c.reg, v)
        /\ written' = IF c.reg = "DDR" THEN written ELSE Aimed(call.aim, c.pin)
        /\ call' = [call EXCEPT !.todo = Tail(@), !.copy = <<>>]
        /\ UNCHANGED <<outside, bound>>
    BY <1>2 DEF WriteRegister
  <2>5. DDR' \subseteq Pins /\ PORT' \subseteq Pins /\ written' \subseteq Pins
    <3>1. PORT \subseteq Pins /\ DDR \subseteq Pins /\ written \subseteq Pins
      BY DEF PinTypes
    <3> HIDE DEF c, v
    <3> QED BY <2>2, <2>3, <2>4, <3>1
  <2>6. Tail(call.todo) \in Seq(Change)
    BY <2>1
  <2>7. call' \in [aim : {"true", "false", "toggle"}, todo : Seq(Change),
                   copy : {<<>>} \cup {<<w>> : w \in SUBSET Pins}]
    BY <2>4, <2>6 DEF PinTypes
  <2> QED BY <2>4, <2>5, <2>7 DEF PinTypes
<1> QED BY <1>1, <1>2 DEF PinStep

\* An operation is one change of one register.
LEMMA OneChange ==
  ASSUME NEW p \in Pins, NEW op \in {"true", "false", "toggle"}
  PROVE  Head(Operation(op, p)) = IF op = "toggle" THEN SetBit("PIN", p)
                                  ELSE IF op = "true" THEN SetBit("PORT", p)
                                  ELSE ClearBit("PORT", p)
  BY DEF Operation, pin_toggle, pin_w, pin_set_true, pin_set_false

LEMMA WriteTyped ==
  ASSUME PinTypes, NEW op \in ActionOps, WriteAtOnce(op, Led)
  PROVE  PinTypes'
<1> DEFINE c == Head(Operation(op, Led))
<1>1. Led \in Pins /\ op \in {"true", "false", "toggle"}
  BY LedAssumption, PinOpsAssumption
<1>2. c.reg \in {"PORT", "DDR", "PIN"} /\ c.pin = Led
  <2>1. c \in {SetBit("PIN", Led), SetBit("PORT", Led), ClearBit("PORT", Led)}
    BY <1>1, OneChange
  <2>2. ASSUME NEW x \in {SetBit("PIN", Led), SetBit("PORT", Led), ClearBit("PORT", Led)}
        PROVE  x.reg \in {"PORT", "DDR", "PIN"} /\ x.pin = Led
    BY DEF SetBit, ClearBit
  <2> QED BY <2>1, <2>2
<1>3. Register(c.reg) \subseteq Pins
  BY <1>1, <1>2, ValuesTyped
<1>4. Changed(c, Register(c.reg)) \in SUBSET Pins
  BY <1>1, <1>2, <1>3 DEF Changed
<1>5. PortAfter(c.reg, Changed(c, Register(c.reg))) \subseteq Pins /\ Aimed(op, Led) \subseteq Pins
  BY <1>1, <1>2, <1>4, ValuesTyped
<1> QED BY <1>5 DEF PinTypes, WriteAtOnce

\* One step for each action that changes the pins.
LEMMA NextPinTypes == PinTypes /\ [Next]_vars => PinTypes'
<1> SUFFICES ASSUME PinTypes, [Next]_vars PROVE PinTypes'
  OBVIOUS
<1>1. CASE UNCHANGED pinVars
  BY <1>1 DEF PinTypes, pinVars
<1>2. CASE PinCall
  BY <1>2, PinCallTyped
<1>3. CASE World
  BY <1>3 DEF World, PinTypes
<1>4. CASE PinStep
  BY <1>4, PinStepTyped
<1>5. CASE TIMER1_COMPA_vect
  BY <1>5, WriteTyped DEF TIMER1_COMPA_vect
<1>6. \/ UNCHANGED pinVars \/ PinCall \/ World \/ PinStep \/ TIMER1_COMPA_vect
  BY DEF Next, MainStep, timer_arm_once, timer_set_action, ArmCompare, ArmClear, ArmEnable,
         timer_disarm, timer_armed, Pulse, vars
<1> QED BY <1>1, <1>2, <1>3, <1>4, <1>5, <1>6

LEMMA InitPinTypes == Init => PinTypes
  BY DEF Init, PinInit, PinTypes, NoCall

\* Every variable has its type: timer.c and pin.c.
THEOREM TypeCorrect == Spec => []TypeOK
<1>1. Init => wanted \in BOOLEAN
  BY DEF Init
<1>2. TimerInv /\ wanted \in BOOLEAN /\ [Next]_vars => (wanted \in BOOLEAN)'
  BY DEF TimerInv, PointerOK, Next, PinCall, World, MainStep, timer_arm_once, timer_set_action,
         ArmCompare, ArmClear, ArmEnable, timer_disarm, timer_armed, TIMER1_COMPA_vect, CallAction,
         Pulse, PinStep, observers, vars
<1>3. TimerInv /\ PinTypes /\ wanted \in BOOLEAN => TypeOK
  BY DEF TimerInv, PointerOK, CounterOK, PinTypes, TypeOK
<1> QED
  BY <1>1, <1>2, <1>3, InitPinTypes, NextPinTypes, TimerInvariance, PTL DEF Spec

-----------------------------------------------------------------------------
(***************************************************************************)
(* What the operations make of the pins.                                   *)
(***************************************************************************)
\* The changes that a call with this aim may consist of.
Follows(aim) == {c \in Change : /\ c.reg = "PORT" => aim = IF c.on THEN "true" ELSE "false"
                                /\ c.reg = "PIN" => c.on /\ aim = "toggle"}

CallFollows == call.todo \in Seq(Follows(call.aim))

\* A call of main begins with a list of changes that follow its aim.
LEMMA CallsFollow ==
  ASSUME PinTypes, PinCall
  PROVE  \E aim \in {"true", "false", "toggle"} :
           /\ call' = [aim |-> aim, todo |-> call'.todo, copy |-> <<>>]
           /\ call'.todo \in Seq(Follows(aim))
           /\ aim = "toggle" => aim \in PinOps
<1>1. ASSUME NEW aim, NEW x \in Follows(aim), NEW y \in Follows(aim)
      PROVE  <<x>> \in Seq(Follows(aim)) /\ <<x, y>> \in Seq(Follows(aim))
  OBVIOUS
<1>2. ASSUME NEW p \in Pins
      PROVE  /\ SetBit("PORT", p) \in Follows("true") /\ ClearBit("PORT", p) \in Follows("false")
             /\ SetBit("PIN", p) \in Follows("toggle")
             /\ \A aim : SetBit("DDR", p) \in Follows(aim) /\ ClearBit("DDR", p) \in Follows(aim)
  BY DEF Follows, Change, SetBit, ClearBit
<1>3. ASSUME NEW aim \in {"true", "false", "toggle"}, NEW todo \in Seq(Follows(aim)),
             Calling(aim, todo), aim = "toggle" => aim \in PinOps
      PROVE  \E a \in {"true", "false", "toggle"} :
               /\ call' = [aim |-> a, todo |-> call'.todo, copy |-> <<>>]
               /\ call'.todo \in Seq(Follows(a))
               /\ a = "toggle" => a \in PinOps
  <2>1. call' = [aim |-> aim, todo |-> todo, copy |-> <<>>]
    BY <1>3 DEF Calling
  <2>2. call'.todo = todo
    BY <2>1
  <2> QED BY <1>3, <2>1, <2>2
<1>4. CASE Bind
  <2> PICK p \in Pins \ bound, d \in Direction :
        Calling(IF d = "InputPullup" THEN "true" ELSE "false", pin_bind(p, d))
    BY <1>4 DEF Bind
  <2>1. CASE d = "InputPullup"
    <3>1. pin_bind(p, d) = <<ClearBit("DDR", p), SetBit("PORT", p)>>
      BY <2>1 DEF pin_bind
    <3>2. pin_bind(p, d) \in Seq(Follows("true")) /\ Calling("true", pin_bind(p, d))
      BY <1>1, <1>2, <2>1, <3>1
    <3> QED BY <1>3, <3>2
  <2>2. CASE d # "InputPullup"
    <3>1. \/ pin_bind(p, d) = <<SetBit("DDR", p), ClearBit("PORT", p)>>
          \/ pin_bind(p, d) = <<ClearBit("DDR", p), ClearBit("PORT", p)>>
      BY <2>2 DEF pin_bind, Direction
    <3>2. pin_bind(p, d) \in Seq(Follows("false")) /\ Calling("false", pin_bind(p, d))
      BY <1>1, <1>2, <2>2, <3>1
    <3> QED BY <1>3, <3>2
  <2> QED BY <2>1, <2>2
<1>5. CASE Use
  <2> PICK p \in bound, op \in PinOps : Calling(op, Operation(op, p))
    BY <1>5 DEF Use
  <2>1. p \in Pins /\ op \in {"true", "false", "toggle"}
    BY PinOpsAssumption DEF PinTypes
  <2>2. /\ pin_toggle(p) = <<SetBit("PIN", p)>>
        /\ pin_w(p, TRUE) = <<SetBit("PORT", p)>> /\ pin_w(p, FALSE) = <<ClearBit("PORT", p)>>
    BY DEF pin_toggle, pin_w, pin_set_true, pin_set_false
  <2>3. Operation(op, p) \in Seq(Follows(op))
    BY <1>1, <1>2, <2>1, <2>2 DEF Operation
  <2> QED BY <1>3, <2>1, <2>3
<1>6. ASSUME NEW p \in Pins, Unbind(p)
      PROVE  \E aim \in {"true", "false", "toggle"} :
               /\ call' = [aim |-> aim, todo |-> call'.todo, copy |-> <<>>]
               /\ call'.todo \in Seq(Follows(aim))
               /\ aim = "toggle" => aim \in PinOps
  <2>1. pin_unbind(p) \in Seq(Follows("false")) /\ Calling("false", pin_unbind(p))
    BY <1>1, <1>2, <1>6 DEF Unbind, pin_unbind
  <2> QED BY <1>3, <2>1
<1> QED BY <1>4, <1>5, <1>6 DEF PinCall

\* What is left of a call goes on following its aim.
LEMMA NextCallFollows == PinTypes /\ CallFollows /\ [Next]_vars => CallFollows'
<1> SUFFICES ASSUME PinTypes, CallFollows, [Next]_vars PROVE CallFollows'
  OBVIOUS
<1>1. CASE UNCHANGED call
  BY <1>1 DEF CallFollows
<1>2. CASE PinCall
  <2> PICK aim \in {"true", "false", "toggle"} :
        /\ call' = [aim |-> aim, todo |-> call'.todo, copy |-> <<>>]
        /\ call'.todo \in Seq(Follows(aim))
    BY <1>2, CallsFollow
  <2>1. call'.aim = aim
    OBVIOUS
  <2> QED BY <2>1 DEF CallFollows
<1>3. CASE ReadRegister
  <2>1. call'.todo = call.todo /\ call'.aim = call.aim
    BY <1>3 DEF ReadRegister, PinTypes
  <2> QED BY <2>1 DEF CallFollows
<1>4. CASE WriteRegister
  <2>1. call'.todo = Tail(call.todo) /\ call'.aim = call.aim /\ call.todo # <<>>
    BY <1>4 DEF WriteRegister, PinTypes
  <2>2. ASSUME NEW S, NEW s \in Seq(S), s # <<>>
        PROVE  Tail(s) \in Seq(S)
    BY <2>2
  <2> QED BY <2>1, <2>2 DEF CallFollows
<1>5. \/ UNCHANGED call \/ PinCall \/ ReadRegister \/ WriteRegister
  BY DEF Next, World, PinStep, MainStep, timer_arm_once, timer_set_action, ArmCompare, ArmClear,
         ArmEnable, timer_disarm, timer_armed, TIMER1_COMPA_vect, WriteAtOnce, Pulse, pinVars, vars
<1> QED BY <1>1, <1>2, <1>3, <1>4, <1>5

LEMMA InitCallFollows == Init => CallFollows
  BY DEF Init, PinInit, CallFollows, NoCall

\* The change that a call writes next.
LEMMA HeadFollows ==
  ASSUME PinTypes, CallFollows, call.todo # <<>>
  PROVE  /\ Head(call.todo) \in Follows(call.aim)
         /\ Head(call.todo).reg \in {"PORT", "DDR", "PIN"} /\ Head(call.todo).pin \in Pins
         /\ Head(call.todo).on \in BOOLEAN
<1>1. ASSUME NEW S, NEW s \in Seq(S), s # <<>>
      PROVE  Head(s) \in S
  BY <1>1
<1>2. Head(call.todo) \in Follows(call.aim)
  BY <1>1 DEF CallFollows
<1> QED BY <1>2 DEF Follows, Change

-----------------------------------------------------------------------------
\* With a single pin in the port what was read does not matter: a value that
\* is written has the bit of the pin alone, set or cleared, and toggling
\* through PIN is atomic.
LEMMA OnePinStep ==
  ASSUME Pins = {Led}, PinTypes, CallFollows, PinsAsWritten, [Next]_vars
  PROVE  PinsAsWritten'
<1>1. CASE UNCHANGED <<PORT, written>>
  BY <1>1 DEF PinsAsWritten
<1>2. ASSUME NEW op \in ActionOps, WriteAtOnce(op, Led)
      PROVE  PinsAsWritten'
  <2> DEFINE c == Head(Operation(op, Led))
  <2>1. op \in {"true", "false", "toggle"}
    BY PinOpsAssumption
  <2>2. c = IF op = "toggle" THEN SetBit("PIN", Led) ELSE IF op = "true" THEN SetBit("PORT", Led)
            ELSE ClearBit("PORT", Led)
    BY <2>1, LedAssumption, OneChange
  <2>3. /\ PORT' = PortAfter(c.reg, Changed(c, Register(c.reg))) /\ written' = Aimed(op, Led)
        /\ PORT = written /\ PORT \subseteq {Led} /\ PIN \subseteq {Led}
    BY <1>2 DEF WriteAtOnce, PinsAsWritten, PinTypes, PIN
  <2>4. CASE op = "toggle"
    BY <2>2, <2>3, <2>4
       DEF PortAfter, Changed, Register, SetBit, Toggled, Aimed, PinsAsWritten
  <2>5. CASE op # "toggle"
    BY <2>1, <2>2, <2>3, <2>5
       DEF PortAfter, Changed, Register, SetBit, ClearBit, Aimed, PinsAsWritten
  <2> QED BY <2>4, <2>5
<1>3. CASE WriteRegister
  <2> DEFINE c == Head(call.todo)
             v == Changed(c, call.copy[1])
  <2>1. /\ c \in Follows(call.aim) /\ c.reg \in {"PORT", "DDR", "PIN"} /\ c.pin = Led
        /\ c.on \in BOOLEAN
    BY <1>3, HeadFollows DEF WriteRegister
  <2>2. /\ PORT' = PortAfter(c.reg, v)
        /\ written' = IF c.reg = "DDR" THEN written ELSE Aimed(call.aim, c.pin)
    BY <1>3 DEF WriteRegister
  <2>3. call.copy[1] \subseteq {Led}
    <3>1. call.copy \in {<<w>> : w \in SUBSET {Led}}
      BY <1>3 DEF WriteRegister, PinTypes
    <3> QED BY <3>1
  <2>4. v = IF c.on THEN {Led} ELSE {}
    BY <2>1, <2>3 DEF Changed
  <2>5. /\ c.reg = "PORT" => call.aim = IF c.on THEN "true" ELSE "false"
        /\ c.reg = "PIN" => c.on /\ call.aim = "toggle"
    BY <2>1 DEF Follows
  <2>6. PORT \subseteq {Led} /\ written = PORT
    BY DEF PinTypes, PinsAsWritten
  <2> HIDE DEF c, v
  <2>7. CASE c.reg = "PORT"
    BY <2>1, <2>2, <2>4, <2>5, <2>6, <2>7 DEF PortAfter, Aimed, PinsAsWritten
  <2>8. CASE c.reg = "PIN"
    BY <2>1, <2>2, <2>4, <2>5, <2>6, <2>8 DEF PortAfter, Aimed, Toggled, PinsAsWritten
  <2>9. CASE c.reg = "DDR"
    BY <2>2, <2>6, <2>9 DEF PortAfter, PinsAsWritten
  <2> QED BY <2>1, <2>7, <2>8, <2>9
<1>4. \/ UNCHANGED <<PORT, written>> \/ WriteRegister
      \/ \E op \in ActionOps : WriteAtOnce(op, Led)
  BY DEF Next, PinCall, World, PinStep, ReadRegister, MainStep, timer_arm_once, timer_set_action,
         ArmCompare, ArmClear, ArmEnable, timer_disarm, timer_armed, TIMER1_COMPA_vect, Pulse,
         pinVars, vars
<1> QED BY <1>1, <1>2, <1>3, <1>4

\* pin.h and pin.c: main and the action of the timer can share the pin of a
\* port that has no other pin in use.
THEOREM OnePinAsWritten == ASSUME Pins = {Led} PROVE Spec => []PinsAsWritten
<1>1. Init => PinsAsWritten
  BY DEF Init, PinInit, PinsAsWritten
<1>2. PinTypes /\ CallFollows /\ PinsAsWritten /\ [Next]_vars => PinsAsWritten'
  BY OnePinStep
<1> QED
  BY <1>1, <1>2, InitPinTypes, NextPinTypes, InitCallFollows, NextCallFollows, PTL DEF Spec

\* Main is alone: the timer is never armed, main toggles no pin, and nothing
\* comes between the read and the write of a register.
MainAlone ==
  /\ ~OCIE1A /\ main \in {"idle", "low"}
  /\ call.aim # "toggle"
  /\ call.copy # <<>> => call.todo # <<>> /\ call.copy = <<Register(Head(call.todo).reg)>>

LEMMA AloneStep ==
  ASSUME Counts = {}, "toggle" \notin PinOps,
         PinTypes, CallFollows, MainAlone, PinsAsWritten, [Next]_vars
  PROVE  MainAlone' /\ PinsAsWritten'
<1>1. ~OCIE1A' /\ main' \in {"idle", "low"}
  BY DEF MainAlone, Next, PinCall, World, PinStep, MainStep, timer_arm_once, timer_set_action,
         ArmCompare, ArmClear, ArmEnable, timer_disarm, timer_armed, TIMER1_COMPA_vect, Pulse,
         At, timer, vars
<1>2. call.todo # <<>> => Head(call.todo).reg \in {"PORT", "DDR"}
  BY HeadFollows DEF Follows, MainAlone
<1>3. CASE UNCHANGED <<PORT, DDR, call, written>>
  <2>1. call.copy # <<>> => Register(Head(call.todo).reg)' = Register(Head(call.todo).reg)
    BY <1>2, <1>3 DEF MainAlone, Register
  <2> QED BY <1>1, <1>3, <2>1 DEF MainAlone, PinsAsWritten
<1>4. CASE PinCall
  <2> PICK aim \in {"true", "false", "toggle"} :
        /\ call' = [aim |-> aim, todo |-> call'.todo, copy |-> <<>>]
        /\ aim = "toggle" => aim \in PinOps
    BY <1>4, CallsFollow
  <2>1. call'.aim = aim /\ call'.copy = <<>>
    OBVIOUS
  <2> QED BY <1>1, <1>4, <2>1 DEF MainAlone, PinsAsWritten, PinCall
<1>5. CASE ReadRegister
  <2>1. /\ call.todo # <<>> /\ call'.todo = call.todo /\ call'.aim = call.aim
        /\ call'.copy = <<Register(Head(call.todo).reg)>>
        /\ UNCHANGED <<PORT, DDR, written>>
    BY <1>5 DEF ReadRegister, PinTypes
  <2>2. Register(Head(call.todo).reg)' = Register(Head(call.todo).reg)
    BY <1>2, <2>1 DEF Register
  <2> QED BY <1>1, <2>1, <2>2 DEF MainAlone, PinsAsWritten
<1>6. CASE WriteRegister
  <2> DEFINE c == Head(call.todo)
             v == Changed(c, call.copy[1])
  <2>1. /\ c \in Follows(call.aim) /\ c.reg \in {"PORT", "DDR"} /\ c.on \in BOOLEAN
    BY <1>2, <1>6, HeadFollows DEF WriteRegister
  <2>2. /\ PORT' = PortAfter(c.reg, v)
        /\ written' = IF c.reg = "DDR" THEN written ELSE Aimed(call.aim, c.pin)
        /\ call'.aim = call.aim /\ call'.copy = <<>>
    BY <1>6 DEF WriteRegister, PinTypes
  <2>3. call.copy[1] = Register(c.reg)
    BY <1>6 DEF WriteRegister, MainAlone
  <2>4. c.reg = "PORT" => call.aim = IF c.on THEN "true" ELSE "false"
    BY <2>1 DEF Follows
  <2>5. PORT' = written'
    <3>1. CASE c.reg = "PORT"
      <4>1. v = IF c.on THEN PORT \cup {c.pin} ELSE PORT \ {c.pin}
        BY <2>3, <3>1 DEF Changed, Register
      <4>2. PORT' = v /\ written' = Aimed(call.aim, c.pin)
        BY <2>2, <3>1 DEF PortAfter
      <4> QED BY <2>1, <2>4, <3>1, <4>1, <4>2 DEF Aimed, PinsAsWritten
    <3>2. CASE c.reg = "DDR"
      BY <2>2, <3>2 DEF PortAfter, PinsAsWritten
    <3> QED BY <2>1, <3>1, <3>2
  <2> QED BY <1>1, <2>2, <2>5 DEF MainAlone, PinsAsWritten
<1>7. \/ UNCHANGED <<PORT, DDR, call, written>> \/ PinCall \/ ReadRegister \/ WriteRegister
  BY DEF MainAlone, Next, World, PinStep, MainStep, timer_arm_once, timer_set_action, ArmCompare,
         ArmClear, ArmEnable, timer_disarm, timer_armed, TIMER1_COMPA_vect, Pulse, pinVars, vars
<1> QED BY <1>3, <1>4, <1>5, <1>6, <1>7

\* pin.h and pin.c: whatever pins of a port main binds, sets and clears, each
\* is as its own operations left it, if no pin is toggled and no interrupt
\* writes the port.
THEOREM AloneAsWritten ==
  ASSUME Counts = {}, "toggle" \notin PinOps
  PROVE  Spec => []PinsAsWritten
<1>1. Init => MainAlone /\ PinsAsWritten
  BY DEF Init, PinInit, PinsAsWritten, MainAlone, NoCall
<1>2. PinTypes /\ CallFollows /\ MainAlone /\ PinsAsWritten /\ [Next]_vars
        => MainAlone' /\ PinsAsWritten'
  BY AloneStep
<1> QED
  BY <1>1, <1>2, InitPinTypes, NextPinTypes, InitCallFollows, NextCallFollows, PTL DEF Spec

-----------------------------------------------------------------------------
(***************************************************************************)
(* Main and the action set, clear and toggle pins of one port.             *)
(***************************************************************************)
Loss(p) == StaleAt(p) \/ ToggledAlong(p)

Kept(p) == (p \in PORT <=> p \in written) => (p \in PORT' <=> p \in written') \/ Loss(p)

\* A write of main: the other bits are as they were read.
LEMMA MainKeeps ==
  ASSUME PinTypes, CallFollows, WriteRegister, NEW p \in Pins
  PROVE  Kept(p)
<1> DEFINE c == Head(call.todo)
           v == Changed(c, call.copy[1])
<1>1. /\ c \in Follows(call.aim) /\ c.reg \in {"PORT", "DDR", "PIN"} /\ c.on \in BOOLEAN
  BY HeadFollows DEF WriteRegister
<1>2. /\ PORT' = PortAfter(c.reg, v)
      /\ written' = IF c.reg = "DDR" THEN written ELSE Aimed(call.aim, c.pin)
      /\ call.copy # <<>>
  BY DEF WriteRegister
<1>3. v = IF c.on THEN call.copy[1] \cup {c.pin} ELSE call.copy[1] \ {c.pin}
  BY DEF Changed
<1>4. CASE c.reg = "DDR"
  BY <1>2, <1>4 DEF PortAfter, Kept
<1>5. CASE c.reg = "PORT"
  <2>1. call.aim = IF c.on THEN "true" ELSE "false"
    BY <1>1, <1>5 DEF Follows
  <2>2. PORT' = v /\ written' = IF c.on THEN written \cup {c.pin} ELSE written \ {c.pin}
    BY <1>1, <1>2, <1>5, <2>1 DEF PortAfter, Aimed
  <2>3. ~Loss(p) => (p \in call.copy[1] <=> p \in PORT)
    BY <1>2, <1>5 DEF Loss, StaleAt, Register
  <2> HIDE DEF c, v
  <2> QED BY <1>3, <2>2, <2>3 DEF Kept
<1>6. CASE c.reg = "PIN"
  <2>1. c.on /\ call.aim = "toggle"
    BY <1>1, <1>6 DEF Follows
  <2>2. /\ PORT' = Toggled(call.copy[1] \cup {c.pin})
        /\ written' = IF c.pin \in written THEN written \ {c.pin} ELSE written \cup {c.pin}
    BY <1>2, <1>3, <1>6, <2>1 DEF PortAfter, Aimed
  <2>3. ~Loss(p) => p \notin call.copy[1] \ {c.pin}
    BY <1>2, <1>6 DEF Loss, ToggledAlong
  <2> HIDE DEF c, v
  <2> QED BY <2>2, <2>3 DEF Kept, Toggled
<1> QED BY <1>1, <1>4, <1>5, <1>6

\* The write of the action: it reads and writes at once.
LEMMA ActionKeeps ==
  ASSUME PinTypes, TIMER1_COMPA_vect, NEW p \in Pins
  PROVE  Kept(p)
<1> PICK op \in ActionOps : WriteAtOnce(op, Led)
  BY DEF TIMER1_COMPA_vect
<1> DEFINE c == Head(Operation(op, Led))
<1>1. op \in {"true", "false", "toggle"}
  BY PinOpsAssumption
<1>2. c = IF op = "toggle" THEN SetBit("PIN", Led) ELSE IF op = "true" THEN SetBit("PORT", Led)
          ELSE ClearBit("PORT", Led)
  BY <1>1, LedAssumption, OneChange
<1>3. PORT' = PortAfter(c.reg, Changed(c, Register(c.reg))) /\ written' = Aimed(op, Led)
  BY DEF WriteAtOnce
<1> HIDE DEF c
<1>4. CASE op = "toggle"
  <2>1. PORT' = Toggled(PIN \cup {Led})
    BY <1>2, <1>3, <1>4 DEF PortAfter, Changed, Register, SetBit
  <2>2. written' = IF Led \in written THEN written \ {Led} ELSE written \cup {Led}
    BY <1>3, <1>4 DEF Aimed
  <2>3. Due /\ ~OCF1A' /\ "toggle" \in ActionOps
    BY <1>4 DEF TIMER1_COMPA_vect, Due
  <2>4. ~Loss(p) => p \notin PIN \ {Led}
    BY <2>3 DEF Loss, ToggledAlong
  <2> QED BY <2>1, <2>2, <2>4 DEF Kept, Toggled
<1>5. CASE op = "true"
  <2>1. PORT' = PORT \cup {Led} /\ written' = written \cup {Led}
    BY <1>2, <1>3, <1>5 DEF PortAfter, Changed, Register, SetBit, Aimed
  <2> QED BY <2>1 DEF Kept
<1>6. CASE op = "false"
  <2>1. PORT' = PORT \ {Led} /\ written' = written \ {Led}
    BY <1>2, <1>3, <1>6 DEF PortAfter, Changed, Register, ClearBit, Aimed
  <2> QED BY <2>1 DEF Kept
<1> QED BY <1>1, <1>4, <1>5, <1>6

(***************************************************************************)
(* pin.h and pin.c, whatever the pins of a port, the counts and the        *)
(* operations of main and of the action: a pin changes against its own     *)
(* operations only when main writes back a bit that the action changed     *)
(* after main read it, or when another pin is toggled and this one read    *)
(* high.  (That it is lost so: finding pin_race.)                          *)
(***************************************************************************)
THEOREM NothingElseLoses == Spec => NoOtherLoss
<1>1. ASSUME PinTypes, CallFollows, [Next]_vars, NEW p \in Pins
      PROVE  Kept(p)
  <2>1. CASE UNCHANGED <<PORT, written>>
    BY <2>1 DEF Kept
  <2>2. UNCHANGED <<PORT, written>> \/ WriteRegister \/ TIMER1_COMPA_vect
    BY <1>1 DEF Next, PinCall, World, PinStep, ReadRegister, MainStep, timer_arm_once,
                timer_set_action, ArmCompare, ArmClear, ArmEnable, timer_disarm, timer_armed,
                Pulse, pinVars, vars
  <2> QED BY <1>1, <2>1, <2>2, MainKeeps, ActionKeeps
<1>2. PinTypes /\ CallFollows /\ [Next]_vars => [\A p \in Pins : Kept(p)]_vars
  BY <1>1
<1>3. [\A p \in Pins : Kept(p)]_vars
        => [\A p \in Pins : (p \in PORT <=> p \in written)
             => (p \in PORT' <=> p \in written') \/ StaleAt(p) \/ ToggledAlong(p)]_vars
  BY DEF Kept, Loss
<1> QED
  BY <1>2, <1>3, InitPinTypes, NextPinTypes, InitCallFollows, NextCallFollows, PTL
     DEF Spec, NoOtherLoss
=============================================================================
