------------------------------ MODULE AdcProps ------------------------------
(***************************************************************************)
(* What the adc driver must do.                                            *)
(***************************************************************************)
EXTENDS Adc

Results == [ch : 0 .. 15, ref : Reference, good : BOOLEAN]

\* The type of every variable: the statics, the registers, main and its user.
TypeOK ==
  /\ last_channel_used \in Used
  /\ sample_sum \subseteq Results /\ num_samples \in 0 .. 255 /\ rested \in BOOLEAN
  /\ n_aref \in -8 .. 7 /\ n_other \in -8 .. 7
  /\ DIDR0 \subseteq 0 .. 5 /\ bound \subseteq Channel
  /\ ADMUX \in Used /\ ADCH \in Results /\ conv \in Used \cup {NONE}
  /\ ADCSRA \in [ADATE : BOOLEAN, ADIE : BOOLEAN, ADIF : BOOLEAN]
  /\ settled \in Reference
  /\ main \in [pc : {"setup", "idle", "halted", "discard_wait", "discard", "start_wait", "start",
                     "get_wait", "get", "trigger", "mean_wait", "mean"},
               then : {<<>>, <<"get_wait">>, <<"start_wait">>, <<"start_wait", "get_wait">>},
               copy : Control \cup {NONE}]
  /\ asked \in {"nothing", "value", "mean"}

\* A good result of the channel that main prepared last.
Wanted == [ch |-> last_channel_used.ch, ref |-> last_channel_used.ref, good |-> TRUE]

\* adc.h: adc_get gives "the value of the last started conversion", of the
\* prepared channel and not the one to be discarded after a new reference.
ValueIsOfPrepared == Ready("value") => ADCH = Wanted

\* adc.h: the mean is that of continuous measures "of the same channel":
\* none of another channel, and none that had to be discarded.
MeanIsOfPrepared == Ready("mean") => sample_sum = {Wanted}

\* It is so for a user that sees adc_converting() false before it asks for a
\* mean, whatever it asked for, and how, before.
RestedMeanIsGood == rested => MeanIsOfPrepared

\* The external reference cannot be with any other: the pin is shared.
Clash(c, d) == (c.ref = "Aref") # (d.ref = "Aref")

\* adc.h: adc_bind stops the program if the reference asked for clashes with
\* that of a channel bound now, whatever was bound and unbound before, and
\* binds the channel if it does not.
RefsEnforced ==
  [][\A c \in Channel : adc_bind(c) =>
       IF \E d \in bound : Clash(c, d) THEN main'.pc = "halted" /\ UNCHANGED bound
                                      ELSE main'.pc # "halted" /\ c \in bound']_vars

\* The calls that wait for a running conversion return, and what main asked
\* for comes: the conversion ends, the mean has its samples.
AnswerComes ==
  asked # "nothing" \/ main.pc # "idle"
    ~> At("halted") \/ (At("idle") /\ (asked = "nothing" \/ Ready(asked)))
=============================================================================
