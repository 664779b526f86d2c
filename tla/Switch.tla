------------------------------- MODULE Switch -------------------------------
(***************************************************************************)
(* Debounced switches (switch.c): main binds switches to pins and polls    *)
(* them; the interrupt of TIMER0 samples every polled switch until it is   *)
(* stable, and runs only while some switch is being sampled.               *)
(*                                                                         *)
(* Main is the only user and holds the handles of the bound switches.  Its *)
(* calls are cut where the interrupt can see a difference; the blocks      *)
(* ATOMIC_BLOCK are one step.                                              *)
(***************************************************************************)
EXTENDS Integers, FiniteSetsExt

CONSTANTS MAX_SWITCH,   \* slots of the table (8 in switch.c)
          WINDOW,       \* zeros of WINDOW_MASK: samples that must agree (3)
          Pin,          \* the pins of the ports
          NONE          \* no copy of the flags

ASSUME TableAssumption == MAX_SWITCH \in 1 .. 127    \* get_free_slot returns an int8_t
ASSUME WindowAssumption == WINDOW \in 1 .. 8
ASSUME PinAssumption == IsFiniteSet(Pin) /\ Pin # {} /\ NONE \notin Pin

Slot == 0 .. MAX_SWITCH - 1

\* The bit fields of a slot: they share a byte.
Flags == [used : BOOLEAN, sampling : BOOLEAN, state : BOOLEAN, changed : BOOLEAN]

\* Values of d_history; the bits above the window are never looked at.
AllHigh == 2 ^ WINDOW - 1
History == 0 .. AllHigh

VARIABLES
  flags, d_history, port,  \* the table swt.t, field by field
  on_sampling,             \* swt.on_sampling
  OCIE0A,                  \* the interrupt of TIMER0 is enabled
  DDR, PORT,               \* registers of the pins: output, driven or pulled high
  closed,                  \* the world: the switch at the pin joins it to ground
  main,                    \* where main is in a call
  fresh                    \* observer: samples of the binding, up to WINDOW

table == <<flags, d_history, port>>
pins == <<DDR, PORT>>
vars == <<table, on_sampling, OCIE0A, pins, closed, main, fresh>>

-----------------------------------------------------------------------------
\* PIN(port) & pin_mask: an input with pull-up is low when the switch closes.
PIN(p) == IF DDR[p] THEN PORT[p] ELSE ~closed[p]

Sampled == {i \in Slot : flags[i].sampling}

\* The next history of slot i.
Shift(i) == (2 * d_history[i] + (IF PIN(port[i]) THEN 0 ELSE 1)) % (AllHigh + 1)

Stable(i) == Shift(i) \in {0, AllHigh}

\* The flags of a slot that was found stable, high or low.
Answer(i) ==
  LET high == Shift(i) = AllHigh IN
  [flags[i] EXCEPT !.changed = (flags[i].state # high), !.state = high, !.sampling = FALSE]

\* Faulty variant: every bound switch is sampled.
SampleAllBound ==
  /\ OCIE0A
  /\ LET S == {i \in Slot : flags[i].used}
         Done == {i \in S : Stable(i)}
         left == (on_sampling - Cardinality(Done \cap Sampled)) % 256
     IN /\ d_history' = [i \in Slot |-> IF i \in S THEN Shift(i) ELSE d_history[i]]
        /\ flags' = [i \in Slot |-> IF i \in Done THEN Answer(i) ELSE flags[i]]
        /\ on_sampling' = left
        /\ OCIE0A' = (Done = {} \/ left # 0)
        /\ fresh' = [i \in Slot |-> IF i \in S /\ fresh[i] < WINDOW THEN fresh[i] + 1 ELSE fresh[i]]
  /\ UNCHANGED <<port, pins, closed, main>>

TIMER0_COMPA_vect ==
  /\ OCIE0A
  /\ LET Done == {i \in Sampled : Stable(i)}
         left == (on_sampling - Cardinality(Done)) % 256
     IN /\ d_history' = [i \in Slot |-> IF i \in Sampled THEN Shift(i) ELSE d_history[i]]
        /\ flags' = [i \in Slot |-> IF i \in Done THEN Answer(i) ELSE flags[i]]
        /\ on_sampling' = left
        /\ OCIE0A' = (Done = {} \/ left # 0)
        /\ fresh' = [i \in Slot |-> IF i \in Sampled /\ fresh[i] < WINDOW THEN fresh[i] + 1 ELSE fresh[i]]
  /\ UNCHANGED <<port, pins, closed, main>>

-----------------------------------------------------------------------------
(***************************************************************************)
(* Main.  main.slot is the switch of the call; main.copy the copy of its   *)
(* flags while main changes one of them outside an atomic block.           *)
(***************************************************************************)
At(p) == main.pc = p
Resting == [pc |-> "idle", slot |-> 0, wait |-> FALSE, copy |-> NONE]
GoTo(p, i) == main' = [main EXCEPT !.pc = p, !.slot = i]

Free == {i \in Slot : ~flags[i].used}
Bound == {i \in Slot : flags[i].used}

get_free_slot == Min(Free)

\* One step: the slot is not sampled, so the interrupt does not look at it.
switch_bind(p) ==
  /\ At("idle") /\ Free # {}
  /\ \A i \in Bound : port[i] # p
  /\ LET i == get_free_slot IN
     /\ flags' = [flags EXCEPT ![i] = [used |-> TRUE, sampling |-> FALSE,
                                       state |-> FALSE, changed |-> FALSE]]
     /\ port' = [port EXCEPT ![i] = p]
     /\ fresh' = [fresh EXCEPT ![i] = 0]
  /\ DDR' = [DDR EXCEPT ![p] = FALSE]
  /\ PORT' = [PORT EXCEPT ![p] = TRUE]
  /\ UNCHANGED <<d_history, on_sampling, OCIE0A, closed, main>>

\* switch_unbind, one register at a time.
UnbindOutput == \E i \in Bound :
  /\ At("idle")
  /\ GoTo("low", i)
  /\ DDR' = [DDR EXCEPT ![port[i]] = TRUE]
  /\ UNCHANGED <<table, on_sampling, OCIE0A, PORT, closed, fresh>>

UnbindLow ==
  /\ At("low")
  /\ GoTo("stop", main.slot)
  /\ PORT' = [PORT EXCEPT ![port[main.slot]] = FALSE]
  /\ UNCHANGED <<table, on_sampling, OCIE0A, DDR, closed, fresh>>

\* Faulty variant: an unbound switch goes on being sampled.
SkipStop ==
  /\ At("stop")
  /\ GoTo("release", main.slot)
  /\ UNCHANGED <<table, on_sampling, OCIE0A, pins, closed, fresh>>

\* The atomic block.
UnbindStop ==
  /\ At("stop")
  /\ IF flags[main.slot].sampling
     THEN /\ flags' = [flags EXCEPT ![main.slot].sampling = FALSE]
          /\ on_sampling' = (on_sampling - 1) % 256
          /\ OCIE0A' = IF on_sampling' = 0 THEN FALSE ELSE OCIE0A
     ELSE UNCHANGED <<flags, on_sampling, OCIE0A>>
  /\ GoTo("release", main.slot)
  /\ UNCHANGED <<d_history, port, pins, closed, fresh>>

\* slot->used = 0: the byte is read, changed and written.
UnbindRead == /\ At("release") /\ main.copy = NONE
              /\ main' = [main EXCEPT !.copy = flags[main.slot]]
              /\ UNCHANGED <<table, on_sampling, OCIE0A, pins, closed, fresh>>

UnbindRelease ==
  /\ At("release") /\ main.copy # NONE
  /\ flags' = [flags EXCEPT ![main.slot] = [main.copy EXCEPT !.used = FALSE]]
  /\ main' = Resting
  /\ UNCHANGED <<d_history, port, on_sampling, OCIE0A, pins, closed, fresh>>

switch_unbind == UnbindLow \/ UnbindStop \/ UnbindRead \/ UnbindRelease

\* switch_poll and switch_poll_wait: the test, then the atomic block.
PollTest(i, wait) ==
  /\ At("idle") /\ flags[i].used
  /\ ~flags[i].sampling \/ wait
  /\ main' = [main EXCEPT !.pc = IF flags[i].sampling THEN "wait" ELSE "poll",
                          !.slot = i, !.wait = wait]
  /\ UNCHANGED <<table, on_sampling, OCIE0A, pins, closed, fresh>>

PollEnd == main' = IF main.wait THEN [main EXCEPT !.pc = "wait"] ELSE Resting

\* Faulty variant: the switch is counted before the count is looked at.
PollCountFirst ==
  /\ At("poll")
  /\ flags' = [flags EXCEPT ![main.slot].sampling = TRUE]
  /\ on_sampling' = (on_sampling + 1) % 256
  /\ OCIE0A' = IF on_sampling' = 0 THEN TRUE ELSE OCIE0A
  /\ PollEnd
  /\ UNCHANGED <<d_history, port, pins, closed, fresh>>

PollStart ==
  /\ At("poll")
  /\ flags' = [flags EXCEPT ![main.slot].sampling = TRUE]
  /\ OCIE0A' = IF on_sampling = 0 THEN TRUE ELSE OCIE0A
  /\ on_sampling' = (on_sampling + 1) % 256
  /\ PollEnd
  /\ UNCHANGED <<d_history, port, pins, closed, fresh>>

switch_ready(i) == ~flags[i].sampling

switch_poll_wait == /\ At("wait") /\ switch_ready(main.slot)
                    /\ main' = Resting
                    /\ UNCHANGED <<table, on_sampling, OCIE0A, pins, closed, fresh>>

\* Somebody moves a switch, or its contacts bounce.
Move(p) == /\ closed' = [closed EXCEPT ![p] = ~@]
           /\ UNCHANGED <<table, on_sampling, OCIE0A, pins, main, fresh>>

-----------------------------------------------------------------------------
\* The state after switch_setup, with the pins as after a reset; what
\* switch_setup leaves alone is zeroed memory.
Init == /\ flags = [i \in Slot |-> [used |-> FALSE, sampling |-> FALSE,
                                    state |-> FALSE, changed |-> FALSE]]
        /\ d_history = [i \in Slot |-> 0]
        /\ port = [i \in Slot |-> NONE]
        /\ on_sampling = 0
        /\ OCIE0A = FALSE
        /\ DDR = [p \in Pin |-> FALSE]
        /\ PORT = [p \in Pin |-> FALSE]
        /\ closed \in [Pin -> BOOLEAN]
        /\ main = Resting
        /\ fresh = [i \in Slot |-> 0]

\* The calls that have begun.
MainStep == switch_unbind \/ PollStart \/ switch_poll_wait

Next == \/ \E p \in Pin : switch_bind(p) \/ Move(p)
        \/ UnbindOutput
        \/ \E i \in Slot, wait \in BOOLEAN : PollTest(i, wait)
        \/ MainStep
        \/ TIMER0_COMPA_vect

Spec == Init /\ [][Next]_vars

\* Main goes on between interrupts, and TIMER0 runs on and on.
Fairness == WF_vars(MainStep) /\ WF_vars(TIMER0_COMPA_vect)

FairSpec == Spec /\ Fairness
=============================================================================
