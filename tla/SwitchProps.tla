----------------------------- MODULE SwitchProps -----------------------------
(***************************************************************************)
(* What the debounced switches must do.                                    *)
(***************************************************************************)
EXTENDS Switch

\* The type of every variable: the table, the registers and main.
TypeOK ==
  /\ flags \in [Slot -> Flags]
  /\ d_history \in [Slot -> History]
  /\ port \in [Slot -> Pin \cup {NONE}]
  /\ on_sampling \in 0 .. MAX_SWITCH
  /\ OCIE0A \in BOOLEAN
  /\ DDR \in [Pin -> BOOLEAN] /\ PORT \in [Pin -> BOOLEAN]
  /\ closed \in [Pin -> BOOLEAN]
  /\ main \in [pc : {"idle", "low", "stop", "release", "poll", "wait"}, slot : Slot,
               wait : BOOLEAN, copy : Flags \cup {NONE}]
  /\ fresh \in [Slot -> 0 .. WINDOW]

(***************************************************************************)
(* on_sampling, which main and the interrupt both count, is the number of  *)
(* switches being sampled, the interrupt of TIMER0 is enabled exactly when *)
(* there is one, and only bound switches are sampled (switch.c: "force     *)
(* invariant: not used => not sampling").  Otherwise a poll is never       *)
(* answered, or the timer interrupts for ever.                             *)
(***************************************************************************)
TimerRunsForSampled == /\ on_sampling = Cardinality(Sampled)
                       /\ OCIE0A <=> Sampled # {}
                       /\ Sampled \subseteq Bound

\* The answer of a switch stays as it is until the switch is polled again:
\* neither the sampling of others nor a call for another disturbs it.
AnswerIsKept ==
  [][\A i \in Bound : switch_ready(i) /\ flags'[i].used
       => /\ flags'[i].state = flags[i].state
          /\ flags'[i].changed = flags[i].changed]_vars

\* The byte of flags that main writes back has not changed since main read
\* it, so no bit that the interrupt wrote is lost.
FlagsNotTorn == main.copy # NONE => main.copy = flags[main.slot]

\* The world leaves the switches as they are from some moment on.
Settled == <>[][UNCHANGED closed]_closed

\* Once the contacts settle every poll is answered, and every call returns:
\* switch_poll_wait too.
PollIsAnswered == Settled => /\ \A i \in Slot : ~switch_ready(i) ~> switch_ready(i)
                             /\ main.pc # "idle" ~> main.pc = "idle"

\* switch.h: "Queries are debounced by sampling switch state until stable":
\* an edge is told only after WINDOW samples of the switch.
EdgeIsDebounced == \A i \in Bound : flags[i].changed => fresh[i] = WINDOW
=============================================================================
