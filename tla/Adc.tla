-------------------------------- MODULE Adc ---------------------------------
(***************************************************************************)
(* The analog to digital converter (adc.c): main binds channels, prepares  *)
(* one, and asks for one conversion or for the mean of several, which the  *)
(* conversion interrupt adds up while the converter runs on by itself.     *)
(*                                                                         *)
(* Main is the only user.  Its calls are cut at every access to ADCSRA:    *)
(* setting a bit of it is a read and then a write, and the converter or    *)
(* its interrupt may come in between.                                      *)
(***************************************************************************)
EXTENDS Integers, Sequences, FiniteSets

CONSTANTS Channel,     \* the logical channels of the users
          N_SAMPLES,   \* conversions that are added up (4)
          NONE         \* no conversion, no copy

Reference == {"Aref", "Vcc", "Int11"}

\* An adc_channel: a hardware channel and a reference.  A pin that can also
\* be digital has one of the channels 0 to 5.
ASSUME ChannelAssumption == Channel \subseteq [ch : 0 .. 15, ref : Reference]
ASSUME SamplesAssumption == N_SAMPLES \in 2 .. 255

\* The channel that adc_setup converts: 1.1 V against the 1.1 V reference,
\* and what the registers and last_channel_used hold before.
ADC_CHANNEL_11V == 14
Internal == [ch |-> ADC_CHANNEL_11V, ref |-> "Int11"]
Blank == [ch |-> 0, ref |-> "Aref"]

Used == Channel \cup {Internal, Blank}

\* The bits of ADCSRA that main reads and writes back.
Control == [ADSC : BOOLEAN, ADATE : BOOLEAN, ADIE : BOOLEAN, ADIF : BOOLEAN]

ASSUME NoneAssumption == NONE \notin Used \cup Control

VARIABLES
  last_channel_used, sample_sum, num_samples,  \* the statics of adc.c
  n_aref, n_other,     \* incompatible_refs
  DIDR0,               \* pins with the digital input disabled
  ADMUX,               \* register: the channel selected
  ADCSRA,              \* register: ADATE, ADIE and ADIF
  ADCH,                \* register: the result of the last conversion
  conv,                \* the conversion under way (ADSC is set) or NONE
  settled,             \* the reference of the last conversion
  main,                \* where main is in a call, and what the call does then
  asked,               \* what main waits for: a conversion or a mean
  bound,               \* the channels main has bound
  rested               \* observer: the converter was at rest when the mean was asked for

sampling == <<sample_sum, num_samples, rested>>
refs == <<n_aref, n_other, DIDR0, bound>>
converter == <<ADMUX, ADCSRA, ADCH, conv, settled>>
vars == <<last_channel_used, sampling, refs, converter, main, asked>>

-----------------------------------------------------------------------------
(***************************************************************************)
(* A result stands for where it comes from: channel, reference and whether *)
(* it is good (the first conversion after the reference changes is not).   *)
(***************************************************************************)
Result(c) == [ch |-> c.ch, ref |-> c.ref, good |-> c.ref = settled]

\* A conversion ends; in trigger mode the next one begins at once.
ConversionEnds == /\ conv # NONE
                  /\ ADCH' = Result(conv)
                  /\ settled' = conv.ref
                  /\ ADCSRA' = [ADCSRA EXCEPT !.ADIF = TRUE]
                  /\ conv' = IF ADCSRA.ADATE THEN ADMUX ELSE NONE
                  /\ UNCHANGED <<last_channel_used, sampling, refs, ADMUX, main, asked>>

\* Faulty variant: the sampling stops one sample short.
AdcStopsShort ==
  /\ ADCSRA.ADIE /\ ADCSRA.ADIF
  /\ sample_sum' = sample_sum \cup {ADCH}
  /\ num_samples' = (num_samples + 1) % 256
  /\ LET more == num_samples' # N_SAMPLES - 1 IN
     ADCSRA' = [ADIF |-> FALSE, ADATE |-> ADCSRA.ADATE /\ more, ADIE |-> ADCSRA.ADIE /\ more]
  /\ UNCHANGED <<last_channel_used, rested, refs, ADMUX, ADCH, conv, settled, main, asked>>

\* The sum is kept as the set of the results in it.
ADC_vect ==
  /\ ADCSRA.ADIE /\ ADCSRA.ADIF
  /\ sample_sum' = sample_sum \cup {ADCH}
  /\ num_samples' = (num_samples + 1) % 256
  /\ LET more == num_samples' # N_SAMPLES IN
     ADCSRA' = [ADIF |-> FALSE, ADATE |-> ADCSRA.ADATE /\ more, ADIE |-> ADCSRA.ADIE /\ more]
  /\ UNCHANGED <<last_channel_used, rested, refs, ADMUX, ADCH, conv, settled, main, asked>>

-----------------------------------------------------------------------------
At(p) == main.pc = p
GoTo(p) == main' = [main EXCEPT !.pc = p]

\* The end of a function: main is back in its caller, which goes on with the
\* rest of a compound call or is the user's code.
Continue(then) == IF then = <<>> THEN [pc |-> "idle", copy |-> NONE, then |-> <<>>]
                  ELSE [pc |-> Head(then), copy |-> NONE, then |-> Tail(then)]
Returned == Continue(main.then)
After(p) == IF p = "return" THEN Returned ELSE [main EXCEPT !.pc = p, !.copy = NONE]

adc_converting == conv # NONE

(***************************************************************************)
(* ADCSRA |= bits: what main writes is what it read with the bits set.  A  *)
(* 1 written to ADSC begins a conversion if there is none, and a 1 written *)
(* to the flag ADIF clears it.                                             *)
(***************************************************************************)
ReadControl(p) ==
  /\ At(p) /\ main.copy = NONE
  /\ main' = [main EXCEPT !.copy = [ADSC |-> adc_converting, ADATE |-> ADCSRA.ADATE,
                                    ADIE |-> ADCSRA.ADIE, ADIF |-> ADCSRA.ADIF]]
  /\ UNCHANGED <<last_channel_used, sampling, refs, converter, asked>>

WriteControl(p, bits, next) ==
  LET Written(b) == main.copy[b] \/ b \in bits IN
  /\ At(p) /\ main.copy # NONE
  /\ ADCSRA' = [ADATE |-> Written("ADATE"), ADIE |-> Written("ADIE"),
                ADIF |-> ADCSRA.ADIF /\ ~main.copy.ADIF]
  /\ conv' = IF conv = NONE /\ Written("ADSC") THEN ADMUX ELSE conv
  /\ main' = After(next)
  /\ UNCHANGED <<last_channel_used, sampling, refs, ADMUX, ADCH, settled, asked>>

SetBits(p, bits, next) == ReadControl(p) \/ WriteControl(p, bits, next)

\* while (ADCSRA & _BV(ADSC))
WaitConverted(p, next) == /\ At(p) /\ ~adc_converting
                          /\ GoTo(next)
                          /\ UNCHANGED <<last_channel_used, sampling, refs, converter, asked>>

-----------------------------------------------------------------------------
\* Int:4 counters of the channels bound with each kind of reference.
Wrap4(n) == ((n + 8) % 16) - 8

\* Faulty variant: only channels of the external reference are checked.
OtherUnchecked(c) == c.ref = "Aref" /\ n_other # 0

Incompatible(c) == IF c.ref = "Aref" THEN n_other # 0 ELSE n_aref # 0

CountRefs(c, d) == IF c.ref = "Aref" THEN n_aref' = Wrap4(n_aref + d) /\ UNCHANGED n_other
                                     ELSE n_other' = Wrap4(n_other + d) /\ UNCHANGED n_aref

\* alert_fatal does not return and leaves interrupts off.
adc_bind(c) ==
  /\ At("idle") /\ c \notin bound
  /\ IF Incompatible(c)
     THEN GoTo("halted") /\ UNCHANGED refs
     ELSE /\ CountRefs(c, 1)
          /\ DIDR0' = IF c.ch < 6 THEN DIDR0 \cup {c.ch} ELSE DIDR0
          /\ bound' = bound \cup {c}
          /\ UNCHANGED main
  /\ UNCHANGED <<last_channel_used, sampling, converter, asked>>

\* *ch < 6 holds the reference too: it is true for Aref only.
adc_unbind(c) ==
  /\ At("idle") /\ c \in bound /\ asked = "nothing"
  /\ CountRefs(c, -1)
  /\ DIDR0' = IF c.ref = "Aref" /\ c.ch < 6 THEN DIDR0 \ {c.ch} ELSE DIDR0
  /\ bound' = bound \ {c}
  /\ UNCHANGED <<last_channel_used, sampling, converter, main, asked>>

\* A user that prepares a channel; "then" is the rest of a compound call.
Prepares(c) == At("idle") /\ asked = "nothing" /\ c \in bound

NewReference(c) == c.ref # last_channel_used.ref

\* Faulty variant: the first conversion with a new reference is used.
PrepareNoDiscard(c, then) ==
  /\ ADMUX' = c
  /\ last_channel_used' = c
  /\ main' = Continue(then)
  /\ UNCHANGED <<sampling, refs, ADCSRA, ADCH, conv, settled>>

\* Faulty variant: a new reference is selected, and not the new channel.
PrepareRefOnly(c, then) ==
  /\ ADMUX' = [ADMUX EXCEPT !.ref = c.ref]
  /\ last_channel_used' = c
  /\ main' = IF NewReference(c) THEN [pc |-> "discard_wait", copy |-> NONE, then |-> then]
             ELSE Continue(then)
  /\ UNCHANGED <<sampling, refs, ADCSRA, ADCH, conv, settled>>

\* The registers change only where the channel differs from the last used.
Prepare(c, then) ==
  /\ ADMUX' = [ch |-> IF c.ch # last_channel_used.ch THEN c.ch ELSE ADMUX.ch,
               ref |-> IF NewReference(c) THEN c.ref ELSE ADMUX.ref]
  /\ last_channel_used' = c
  /\ main' = IF NewReference(c) THEN [pc |-> "discard_wait", copy |-> NONE, then |-> then]
             ELSE Continue(then)
  /\ UNCHANGED <<sampling, refs, ADCSRA, ADCH, conv, settled>>

\* Nothing to do for the last channel used.
adc_prepare(c) == /\ Prepares(c) /\ c # last_channel_used
                  /\ Prepare(c, <<>>)
                  /\ UNCHANGED asked

DiscardFirst == \/ WaitConverted("discard_wait", "discard")
                \/ SetBits("discard", {"ADSC"}, "return")

\* The compound calls: prepare and start; prepare, start, wait and get.
adc_prepare_start(c) == /\ Prepares(c)
                        /\ Prepare(c, <<"start_wait">>)
                        /\ asked' = "value"

adc_prep_start_get(c) == /\ Prepares(c)
                         /\ Prepare(c, <<"start_wait", "get_wait">>)
                         /\ asked' = "value"

\* The very first reading, which adc_setup makes and throws away.
adc_setup == /\ At("setup")
             /\ Prepare(Internal, <<"start_wait", "get_wait">>)
             /\ asked' = "value"

\* A user asks for a conversion of the channel it prepared.
Ask(what, p) == /\ At("idle") /\ asked = "nothing" /\ last_channel_used \in bound
                /\ asked' = what
                /\ GoTo(p)

BeginConversion == /\ Ask("value", "start_wait")
                   /\ UNCHANGED <<last_channel_used, sampling, refs, converter>>

\* Faulty variant: the conversion that is running is not waited for.
StartAtOnce == SetBits("start_wait", {"ADSC"}, "return")

adc_start_conversion == \/ WaitConverted("start_wait", "start")
                        \/ SetBits("start", {"ADSC"}, "return")

BeginOversample == /\ Ask("mean", "trigger")
                   /\ sample_sum' = {} /\ num_samples' = 0
                   /\ rested' = ~adc_converting
                   /\ UNCHANGED <<last_channel_used, refs, converter>>

adc_start_oversample == \/ SetBits("trigger", {"ADATE", "ADIE"}, "mean_wait")
                        \/ WaitConverted("mean_wait", "mean")
                        \/ SetBits("mean", {"ADSC"}, "return")

adc_oversampling == num_samples # N_SAMPLES

\* What main asked for is there: the user, or adc_prep_start_get, may read it.
Ready(what) == /\ asked = what
               /\ \/ what = "value" /\ At("idle") /\ ~adc_converting
                  \/ what = "value" /\ At("get")
                  \/ what = "mean" /\ At("idle") /\ ~adc_oversampling

adc_get == /\ Ready("value") \/ Ready("mean")
           /\ asked' = "nothing"
           /\ main' = Returned
           /\ UNCHANGED <<last_channel_used, sampling, refs, converter>>

\* while (adc_converting()), and the value is returned.
WaitAndGet == \/ WaitConverted("get_wait", "get")
              \/ At("get") /\ adc_get

\* What adc_get_oversample makes of a sum s: its mean, rounded.
adc_get_oversample(s) == IF (s \div (N_SAMPLES \div 2)) % 2 = 1 THEN s \div N_SAMPLES + 1
                                                               ELSE s \div N_SAMPLES

\* The value v of a conversion in the range from m to M, which are near enough
\* for the product to be an int32_t.  Division truncates towards zero.
ADC_MAX == 255
InRange32(M, m) == \A d \in {M - m, m - M} : d * ADC_MAX < 2 ^ 31
ADC_VALUE(v, M, m) == IF m <= M THEN m + ((M - m) * v) \div ADC_MAX
                                ELSE m - ((m - M) * v) \div ADC_MAX

-----------------------------------------------------------------------------
\* adc_setup, before its first reading.
Init == /\ last_channel_used = Blank
        /\ sample_sum = {} /\ num_samples = 0 /\ rested = FALSE
        /\ n_aref = 0 /\ n_other = 0
        /\ DIDR0 = {} /\ bound = {}
        /\ ADMUX = Blank
        /\ ADCSRA = [ADATE |-> FALSE, ADIE |-> FALSE, ADIF |-> FALSE]
        /\ ADCH = [ch |-> Blank.ch, ref |-> Blank.ref, good |-> FALSE]
        /\ conv = NONE /\ settled = Blank.ref
        /\ main = [pc |-> "setup", copy |-> NONE, then |-> <<>>]
        /\ asked = "nothing"

\* The calls that have begun.
MainStep == adc_setup \/ DiscardFirst \/ adc_start_conversion \/ adc_start_oversample
            \/ WaitAndGet

Next == \/ \E c \in Channel : \/ adc_bind(c) \/ adc_unbind(c) \/ adc_prepare(c)
                              \/ adc_prepare_start(c) \/ adc_prep_start_get(c)
        \/ BeginConversion \/ BeginOversample \/ adc_get
        \/ MainStep
        \/ ~At("halted") /\ ADC_vect
        \/ ConversionEnds

Spec == Init /\ [][Next]_vars

\* Main goes on between interrupts, the converter ends what it begins and
\* its interrupt is served.
Fairness == WF_vars(MainStep) /\ WF_vars(~At("halted") /\ ADC_vect) /\ WF_vars(ConversionEnds)

FairSpec == Spec /\ Fairness
=============================================================================
