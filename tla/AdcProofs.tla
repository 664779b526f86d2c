------------------------------ MODULE AdcProofs ------------------------------
(***************************************************************************)
(* What is proved of the adc driver.                                       *)
(***************************************************************************)
EXTENDS AdcProps, FiniteSetTheorems, TLAPS

(***************************************************************************)
(* With four samples, adc_get_oversample rounds the mean of their sum to   *)
(* the nearest value, halves upwards, and the result fits in a byte.       *)
(***************************************************************************)
THEOREM MeanIsRounded ==
  ASSUME N_SAMPLES = 4, NEW s \in 0 .. 4 * 255
  PROVE  /\ adc_get_oversample(s) = (s + 2) \div 4
         /\ adc_get_oversample(s) \in 0 .. 255
BY SMT DEF adc_get_oversample

(* A fraction of w, in 255ths: between 0 and w, and both ends are reached.   *)
LEMMA Scaled ==
  ASSUME NEW w \in Nat, NEW v \in 0 .. 255
  PROVE  /\ (w * v) \div 255 \in 0 .. w
         /\ v = 0 => (w * v) \div 255 = 0
         /\ v = 255 => (w * v) \div 255 = w
<1>1. w * v \in Nat /\ w * v <= w * 255
  BY SMT
<1>2. v = 0 => w * v = 0
  BY SMT
<1>3. v = 255 => w * v = w * 255
  OBVIOUS
<1> QED
  BY <1>1, <1>2, <1>3, SMT

(***************************************************************************)
(* ADC_VALUE takes the readings 0 to ADC_MAX to the whole range from m to  *)
(* M, whichever is greater, without leaving it, when the two are near      *)
(* enough for their difference times ADC_MAX to be an int32_t.             *)
(***************************************************************************)
THEOREM ValueInRange ==
  ASSUME NEW v \in 0 .. ADC_MAX, NEW m \in Int, NEW M \in Int,
         InRange32(M, m)
  PROVE  /\ m <= M => ADC_VALUE(v, M, m) \in m .. M
         /\ M <= m => ADC_VALUE(v, M, m) \in M .. m
         /\ ADC_VALUE(0, M, m) = m /\ ADC_VALUE(ADC_MAX, M, m) = M
<1> DEFINE Up(x) == ((M - m) * x) \div 255
           Down(x) == ((m - M) * x) \div 255
<1>0. v \in 0 .. 255 /\ 0 \in 0 .. 255 /\ 255 \in 0 .. 255
  BY DEF ADC_MAX
<1>1. CASE m <= M
  <2>1. M - m \in Nat
    BY <1>1
  <2>2. Up(v) \in 0 .. M - m /\ Up(0) = 0 /\ Up(255) = M - m
    <3>1. Up(v) \in 0 .. M - m
      BY <1>0, <2>1, Scaled
    <3>2. Up(0) = 0
      BY <1>0, <2>1, Scaled
    <3>3. Up(255) = M - m
      BY <1>0, <2>1, Scaled
    <3> QED
      BY <3>1, <3>2, <3>3
  <2>3. \A x : ADC_VALUE(x, M, m) = m + Up(x)
    BY <1>1 DEF ADC_VALUE, ADC_MAX
  <2> HIDE DEF Up
  <2>4. ADC_VALUE(v, M, m) = m + Up(v) /\ ADC_VALUE(0, M, m) = m + Up(0)
        /\ ADC_VALUE(ADC_MAX, M, m) = m + Up(255)
    BY <2>3 DEF ADC_MAX
  <2> QED
    BY <1>1, <2>2, <2>4
<1>2. CASE ~(m <= M)
  <2>1. m - M \in Nat
    BY <1>2
  <2>2. Down(v) \in 0 .. m - M /\ Down(0) = 0 /\ Down(255) = m - M
    <3>1. Down(v) \in 0 .. m - M
      BY <1>0, <2>1, Scaled
    <3>2. Down(0) = 0
      BY <1>0, <2>1, Scaled
    <3>3. Down(255) = m - M
      BY <1>0, <2>1, Scaled
    <3> QED
      BY <3>1, <3>2, <3>3
  <2>3. \A x : ADC_VALUE(x, M, m) = m - Down(x)
    BY <1>2 DEF ADC_VALUE, ADC_MAX
  <2> HIDE DEF Down
  <2>4. ADC_VALUE(v, M, m) = m - Down(v) /\ ADC_VALUE(0, M, m) = m - Down(0)
        /\ ADC_VALUE(ADC_MAX, M, m) = m - Down(255)
    BY <2>3 DEF ADC_MAX
  <2> QED
    BY <1>2, <2>2, <2>4
<1> QED
  BY <1>1, <1>2

-----------------------------------------------------------------------------
(***************************************************************************)
(* The conversions.  What each point of main still has to do, and what the *)
(* converter may be doing meanwhile.                                       *)
(***************************************************************************)
MainShape ==
  /\ main.pc = "setup" => asked = "nothing" /\ main.then = <<>>
  /\ main.pc = "idle" => main.then = <<>>
  /\ main.pc \in {"discard_wait", "discard"} =>
       \/ asked = "nothing" /\ main.then = <<>>
       \/ asked = "value" /\ main.then \in {<<"start_wait">>, <<"start_wait", "get_wait">>}
  /\ main.pc \in {"start_wait", "start"} =>
       asked = "value" /\ main.then \in {<<>>, <<"get_wait">>}
  /\ main.pc \in {"get_wait", "get"} => asked = "value" /\ main.then = <<>>
  /\ main.pc \in {"trigger", "mean_wait", "mean"} => asked = "mean" /\ main.then = <<>>
  /\ main.copy # NONE => main.pc \in {"discard", "start", "trigger", "mean"}

\* The registers hold the channel last prepared.  Only a call that has seen a
\* new reference may find a conversion with the old one; once that call is
\* over, the reference is settled or a conversion is settling it.
ConverterFollows ==
  /\ ADMUX = last_channel_used
  /\ main.pc # "discard_wait" /\ conv # NONE => conv.ref = last_channel_used.ref
  /\ main.pc \in {"discard", "start", "mean", "get"} => conv = NONE
  /\ main.pc \notin {"discard_wait", "discard"} =>
       conv # NONE \/ settled = last_channel_used.ref

\* The conversion that main started is the one it wants, or it has ended.
ValueComing ==
  asked = "value" /\ main.pc \in {"idle", "get_wait", "get"} =>
    IF conv = NONE THEN ADCH = Wanted
                   ELSE conv = last_channel_used /\ settled = last_channel_used.ref

AdcInv == TypeOK /\ MainShape /\ ConverterFollows /\ ValueComing

\* Where a function returns to, for every rest of a compound call.
LEMMA ContinueTo ==
  /\ Continue(<<>>) = [pc |-> "idle", copy |-> NONE, then |-> <<>>]
  /\ Continue(<<"get_wait">>) = [pc |-> "get_wait", copy |-> NONE, then |-> <<>>]
  /\ Continue(<<"start_wait">>) = [pc |-> "start_wait", copy |-> NONE, then |-> <<>>]
  /\ Continue(<<"start_wait", "get_wait">>)
       = [pc |-> "start_wait", copy |-> NONE, then |-> <<"get_wait">>]
BY DEF Continue

\* What main is told of: a value of a channel in use, and a conversion of it.
LEMMA Typed ==
  ASSUME TypeOK
  PROVE  /\ \A c \in Used : c.ch \in 0 .. 15 /\ c.ref \in Reference /\ Result(c) \in Results
         /\ \A c \in Used : c = [ch |-> c.ch, ref |-> c.ref]
         /\ ADMUX \in Used /\ last_channel_used \in Used /\ NONE \notin Used
         /\ conv # NONE => conv \in Used
<1>1. ASSUME NEW c \in Used
      PROVE  c \in [ch : 0 .. 15, ref : Reference]
  BY ChannelAssumption DEF Used, Internal, Blank, ADC_CHANNEL_11V, Reference
<1>2. \A c \in Used : c.ch \in 0 .. 15 /\ c.ref \in Reference /\ c = [ch |-> c.ch, ref |-> c.ref]
  BY <1>1
<1>3. \A c \in Used : Result(c) \in Results
  BY <1>2 DEF Result, Results
<1> QED BY <1>2, <1>3, NoneAssumption DEF TypeOK

\* The result of the channel last prepared, with its reference settled.
LEMMA WantedResult ==
  ASSUME settled = last_channel_used.ref
  PROVE  Result(last_channel_used) = Wanted
BY DEF Result, Wanted

LEMMA MainMoves ==
  ASSUME TypeOK, NEW p, GoTo(p)
  PROVE  main'.pc = p /\ main'.then = main.then /\ main'.copy = main.copy
         /\ main' = [pc |-> p, then |-> main.then, copy |-> main.copy]
BY DEF TypeOK, GoTo

-----------------------------------------------------------------------------
\* A conversion ends, and in trigger mode another begins.
LEMMA EndKeeps ==
  ASSUME AdcInv, ConversionEnds
  PROVE  AdcInv'
<1>1. /\ conv # NONE /\ conv \in Used /\ ADCH' = Result(conv) /\ settled' = conv.ref
      /\ ADCSRA' = [ADCSRA EXCEPT !.ADIF = TRUE]
      /\ conv' = IF ADCSRA.ADATE THEN ADMUX ELSE NONE
      /\ UNCHANGED <<last_channel_used, sample_sum, num_samples, rested, n_aref, n_other, DIDR0, bound,
                     ADMUX, main, asked>>
  BY Typed DEF ConversionEnds, sampling, refs, AdcInv
<1>2. ADCH' \in Results /\ settled' \in Reference /\ conv' \in Used \cup {NONE}
  BY <1>1, Typed DEF AdcInv
<1>3. TypeOK'
  BY <1>1, <1>2 DEF AdcInv, TypeOK
<1>4. MainShape'
  BY <1>1 DEF AdcInv, MainShape
<1>5. ConverterFollows'
  BY <1>1, Typed DEF AdcInv, ConverterFollows
<1>6. ValueComing'
  <2> SUFFICES ASSUME asked = "value", main.pc \in {"idle", "get_wait", "get"}
               PROVE  IF conv' = NONE THEN ADCH' = Wanted
                      ELSE conv' = last_channel_used /\ settled' = last_channel_used.ref
    BY <1>1 DEF ValueComing, Wanted
  <2>1. conv = last_channel_used /\ settled = last_channel_used.ref
    BY <1>1 DEF AdcInv, ValueComing
  <2>2. ADCH' = Wanted /\ settled' = last_channel_used.ref
    BY <1>1, <2>1, WantedResult
  <2> QED BY <1>1, <2>2 DEF AdcInv, ConverterFollows
<1> QED BY <1>3, <1>4, <1>5, <1>6 DEF AdcInv

\* main selects a channel: Prepare in every call that makes it.
LEMMA PrepareKeeps ==
  ASSUME AdcInv, NEW c \in Used, NEW then, Prepare(c, then),
         main.pc \in {"idle", "setup"},
         \/ asked' = "nothing" /\ then = <<>>
         \/ asked' = "value" /\ then \in {<<"start_wait">>, <<"start_wait", "get_wait">>}
  PROVE  AdcInv'
<1>1. /\ ADMUX = last_channel_used /\ TypeOK /\ last_channel_used \in Used /\ NONE \notin Used
      /\ conv # NONE => conv.ref = last_channel_used.ref
      /\ conv # NONE \/ settled = last_channel_used.ref
  BY Typed DEF AdcInv, ConverterFollows
<1>2. /\ last_channel_used' = c
      /\ UNCHANGED <<sample_sum, num_samples, rested, n_aref, n_other, DIDR0, bound, ADCSRA, ADCH, conv,
                     settled>>
  BY DEF Prepare, sampling, refs
<1>3. ADMUX' = c
  <2>1. c = [ch |-> c.ch, ref |-> c.ref]
    BY <1>1, Typed
  <2>2. ADMUX' = [ch |-> c.ch, ref |-> c.ref]
    BY <1>1 DEF Prepare, NewReference
  <2> QED BY <2>1, <2>2
<1>4. CASE NewReference(c)
  <2>1. main' = [pc |-> "discard_wait", copy |-> NONE, then |-> then]
    BY <1>4 DEF Prepare
  <2>2. TypeOK'
    BY <1>1, <1>2, <1>3, <2>1 DEF TypeOK
  <2>3. MainShape' /\ ConverterFollows' /\ ValueComing'
    BY <1>1, <1>2, <1>3, <2>1 DEF MainShape, ConverterFollows, ValueComing
  <2> QED BY <2>2, <2>3 DEF AdcInv
<1>5. CASE ~NewReference(c)
  <2>1. main' = Continue(then) /\ c.ref = last_channel_used.ref
    BY <1>5 DEF Prepare, NewReference
  <2>2. \/ asked' = "nothing" /\ main' = [pc |-> "idle", copy |-> NONE, then |-> <<>>]
        \/ asked' = "value" /\ main' = [pc |-> "start_wait", copy |-> NONE, then |-> <<>>]
        \/ asked' = "value" /\ main' = [pc |-> "start_wait", copy |-> NONE, then |-> <<"get_wait">>]
    BY <2>1, ContinueTo
  <2>3. TypeOK'
    BY <1>1, <1>2, <1>3, <2>2 DEF TypeOK
  <2>4. MainShape'
    BY <2>2 DEF MainShape
  <2>5. ConverterFollows' /\ ValueComing'
    BY <1>1, <1>2, <1>3, <2>1, <2>2 DEF ConverterFollows, ValueComing
  <2> QED BY <2>3, <2>4, <2>5 DEF AdcInv
<1> QED BY <1>4, <1>5

\* The end of a wait: no conversion is running.
LEMMA WaitKeeps ==
  ASSUME AdcInv, NEW p, NEW q, WaitConverted(p, q),
         <<p, q>> \in {<<"discard_wait", "discard">>, <<"start_wait", "start">>,
                       <<"mean_wait", "mean">>, <<"get_wait", "get">>}
  PROVE  AdcInv'
<1>1. /\ main.pc = p /\ conv = NONE
      /\ UNCHANGED <<last_channel_used, sample_sum, num_samples, rested, n_aref, n_other, DIDR0, bound,
                     ADMUX, ADCSRA, ADCH, conv, settled, asked>>
      /\ main'.pc = q /\ main'.then = main.then /\ main'.copy = main.copy
      /\ main' = [pc |-> q, then |-> main.then, copy |-> main.copy]
  BY MainMoves DEF AdcInv, WaitConverted, At, adc_converting, sampling, refs, converter
<1>2. \/ p = "discard_wait" /\ q = "discard"
      \/ p = "start_wait" /\ q = "start"
      \/ p = "mean_wait" /\ q = "mean"
      \/ p = "get_wait" /\ q = "get"
  OBVIOUS
<1>3. TypeOK'
  BY <1>1, <1>2 DEF AdcInv, TypeOK
<1>4. MainShape'
  BY <1>1, <1>2 DEF AdcInv, MainShape
<1>5. ConverterFollows' /\ ValueComing'
  BY <1>1, <1>2 DEF AdcInv, ConverterFollows, ValueComing, Wanted
<1> QED BY <1>3, <1>4, <1>5 DEF AdcInv

\* The read of ADCSRA |= bits.
LEMMA ReadKeeps ==
  ASSUME AdcInv, NEW p \in {"discard", "start", "trigger", "mean"}, ReadControl(p)
  PROVE  AdcInv' /\ main'.pc = p /\ main'.copy.ADIE = ADCSRA.ADIE /\ main'.copy.ADATE = ADCSRA.ADATE
         /\ main'.copy.ADIF = ADCSRA.ADIF /\ main'.copy.ADSC = (conv # NONE)
<1>1. /\ main.pc = p
      /\ UNCHANGED <<last_channel_used, sample_sum, num_samples, rested, n_aref, n_other, DIDR0, bound,
                     ADMUX, ADCSRA, ADCH, conv, settled, asked>>
  BY DEF ReadControl, At, sampling, refs, converter
<1>2. PICK y : y = [ADSC |-> adc_converting, ADATE |-> ADCSRA.ADATE, ADIE |-> ADCSRA.ADIE,
                    ADIF |-> ADCSRA.ADIF]
  OBVIOUS
<1>3. y \in Control /\ main' = [main EXCEPT !.copy = y]
  BY <1>2 DEF AdcInv, TypeOK, Control, adc_converting, ReadControl
<1>4. main'.pc = p /\ main'.then = main.then /\ main'.copy = y
      /\ main' = [pc |-> p, then |-> main.then, copy |-> y]
  BY <1>1, <1>3 DEF AdcInv, TypeOK
<1>5. TypeOK'
  BY <1>1, <1>3, <1>4 DEF AdcInv, TypeOK
<1>6. MainShape' /\ ConverterFollows' /\ ValueComing'
  BY <1>1, <1>4 DEF AdcInv, MainShape, ConverterFollows, ValueComing
<1> QED BY <1>2, <1>4, <1>5, <1>6 DEF AdcInv, adc_converting

\* The write of ADCSRA |= bits, with ADSC in bits: the conversion of the
\* channel prepared begins, since none is running.
LEMMA StartKeeps ==
  ASSUME AdcInv, NEW p \in {"discard", "start", "mean"}, WriteControl(p, {"ADSC"}, "return")
  PROVE  /\ AdcInv' /\ conv' = last_channel_used
         /\ ADCSRA'.ADATE = main.copy.ADATE /\ ADCSRA'.ADIE = main.copy.ADIE
         /\ ADCSRA'.ADIF = (ADCSRA.ADIF /\ ~main.copy.ADIF)
<1>1. /\ main.pc = p /\ conv = NONE /\ ADMUX = last_channel_used /\ NONE \notin Used
      /\ last_channel_used \in Used /\ main.copy \in Control
      /\ UNCHANGED <<last_channel_used, sample_sum, num_samples, rested, n_aref, n_other, DIDR0, bound,
                     ADMUX, ADCH, settled, asked>>
  BY Typed DEF WriteControl, At, AdcInv, TypeOK, ConverterFollows, sampling, refs
<1>2. conv' = last_channel_used
  BY <1>1 DEF WriteControl
<1>3. /\ ADCSRA' = [ADATE |-> main.copy.ADATE, ADIE |-> main.copy.ADIE,
                    ADIF |-> ADCSRA.ADIF /\ ~main.copy.ADIF]
      /\ ADCSRA' \in [ADATE : BOOLEAN, ADIE : BOOLEAN, ADIF : BOOLEAN]
  <2>1. /\ main.copy["ADATE"] = main.copy.ADATE /\ main.copy["ADIE"] = main.copy.ADIE
        /\ main.copy.ADATE \in BOOLEAN /\ main.copy.ADIE \in BOOLEAN
        /\ (main.copy["ADATE"] \/ "ADATE" \in {"ADSC"}) = main.copy.ADATE
        /\ (main.copy["ADIE"] \/ "ADIE" \in {"ADSC"}) = main.copy.ADIE
    BY <1>1 DEF Control
  <2> QED BY <2>1 DEF WriteControl
<1>4. main' = Continue(main.then)
  BY DEF WriteControl, After, Returned
<1>5. \/ /\ main' = [pc |-> "idle", copy |-> NONE, then |-> <<>>] /\ main.then = <<>>
         /\ p = "discard" => asked = "nothing"
      \/ /\ main' = [pc |-> "start_wait", copy |-> NONE, then |-> <<>>]
         /\ p = "discard" /\ asked = "value"
      \/ /\ main' = [pc |-> "start_wait", copy |-> NONE, then |-> <<"get_wait">>]
         /\ p = "discard" /\ asked = "value"
      \/ /\ main' = [pc |-> "get_wait", copy |-> NONE, then |-> <<>>]
         /\ p = "start" /\ asked = "value"
  BY <1>1, <1>4, ContinueTo DEF AdcInv, MainShape
<1>6. TypeOK'
  BY <1>1, <1>2, <1>3, <1>5 DEF AdcInv, TypeOK
<1>7. MainShape'
  BY <1>1, <1>5 DEF MainShape
<1>8. ConverterFollows'
  BY <1>1, <1>2, <1>5 DEF ConverterFollows
<1>9. ValueComing'
  <2>1. p # "discard" => settled = last_channel_used.ref
    BY <1>1 DEF AdcInv, ConverterFollows
  <2> QED BY <1>1, <1>2, <1>5, <2>1 DEF ValueComing
<1> QED BY <1>2, <1>3, <1>6, <1>7, <1>8, <1>9 DEF AdcInv

\* The write that sets the trigger mode: a conversion that ran at the read
\* and has ended begins again, of the channel prepared.
LEMMA TriggerKeeps ==
  ASSUME AdcInv, WriteControl("trigger", {"ADATE", "ADIE"}, "mean_wait")
  PROVE  /\ AdcInv' /\ main'.pc = "mean_wait" /\ main'.copy = NONE
         /\ conv = NONE /\ ~main.copy.ADSC => conv' = NONE
         /\ ADCSRA'.ADATE /\ ADCSRA'.ADIE
         /\ ADCSRA'.ADIF = (ADCSRA.ADIF /\ ~main.copy.ADIF)
<1>1. /\ main.pc = "trigger" /\ ADMUX = last_channel_used /\ NONE \notin Used
      /\ last_channel_used \in Used /\ main.copy \in Control /\ asked = "mean"
      /\ conv # NONE => conv.ref = last_channel_used.ref
      /\ conv # NONE \/ settled = last_channel_used.ref
      /\ UNCHANGED <<last_channel_used, sample_sum, num_samples, rested, n_aref, n_other, DIDR0, bound,
                     ADMUX, ADCH, settled, asked>>
  BY Typed DEF WriteControl, At, AdcInv, TypeOK, ConverterFollows, MainShape, sampling, refs
<1>2. /\ conv' \in {conv, last_channel_used}
      /\ conv # NONE => conv' = conv
      /\ conv = NONE /\ ~main.copy.ADSC => conv' = NONE
  BY <1>1 DEF WriteControl, Control
<1>3. /\ ADCSRA' = [ADATE |-> TRUE, ADIE |-> TRUE, ADIF |-> ADCSRA.ADIF /\ ~main.copy.ADIF]
      /\ ADCSRA' \in [ADATE : BOOLEAN, ADIE : BOOLEAN, ADIF : BOOLEAN]
  <2>1. /\ (main.copy["ADATE"] \/ "ADATE" \in {"ADATE", "ADIE"}) = TRUE
        /\ (main.copy["ADIE"] \/ "ADIE" \in {"ADATE", "ADIE"}) = TRUE
    OBVIOUS
  <2> QED BY <2>1 DEF WriteControl
<1>4. main' = [pc |-> "mean_wait", copy |-> NONE, then |-> main.then]
  BY <1>1 DEF WriteControl, After, AdcInv, TypeOK
<1>5. TypeOK'
  BY <1>1, <1>2, <1>3, <1>4 DEF AdcInv, TypeOK
<1>6. MainShape'
  BY <1>1, <1>4 DEF AdcInv, MainShape
<1>7. ConverterFollows' /\ ValueComing'
  BY <1>1, <1>2, <1>4 DEF ConverterFollows, ValueComing
<1> QED BY <1>2, <1>3, <1>4, <1>5, <1>6, <1>7 DEF AdcInv

\* The conversion interrupt adds a result to the sum.
LEMMA IsrKeeps ==
  ASSUME AdcInv, ADC_vect
  PROVE  AdcInv'
<1>1. /\ sample_sum' = sample_sum \cup {ADCH} /\ num_samples' \in 0 .. 255
      /\ ADCSRA' \in [ADATE : BOOLEAN, ADIE : BOOLEAN, ADIF : BOOLEAN]
      /\ UNCHANGED <<last_channel_used, rested, n_aref, n_other, DIDR0, bound, ADMUX, ADCH, conv,
                     settled, main, asked>>
  BY DEF ADC_vect, AdcInv, TypeOK, refs
<1>2. TypeOK'
  BY <1>1 DEF AdcInv, TypeOK
<1>3. MainShape' /\ ConverterFollows' /\ ValueComing'
  BY <1>1 DEF AdcInv, MainShape, ConverterFollows, ValueComing, Wanted
<1> QED BY <1>2, <1>3 DEF AdcInv

\* Channels come and go; an incompatible one stops the program.
LEMMA BindKeeps ==
  ASSUME AdcInv, NEW c \in Channel, adc_bind(c) \/ adc_unbind(c)
  PROVE  AdcInv'
<1>1. /\ UNCHANGED <<last_channel_used, sample_sum, num_samples, rested, ADMUX, ADCSRA, ADCH, conv,
                     settled, asked>>
      /\ main.pc = "idle" /\ \/ main' = main
                             \/ main' = [pc |-> "halted", then |-> main.then, copy |-> main.copy]
  BY MainMoves DEF adc_bind, adc_unbind, At, sampling, converter, AdcInv
<1>2. n_aref' \in -8 .. 7 /\ n_other' \in -8 .. 7
  <2>1. \A n \in Int : Wrap4(n) \in -8 .. 7
    BY DEF Wrap4
  <2>2. n_aref \in Int /\ n_other \in Int
    BY DEF AdcInv, TypeOK
  <2>3. \/ UNCHANGED <<n_aref, n_other>>
        \/ \E d \in {1, -1} : CountRefs(c, d)
    BY DEF adc_bind, adc_unbind, refs
  <2>4. ASSUME NEW d \in {1, -1}, CountRefs(c, d)
        PROVE  n_aref' \in -8 .. 7 /\ n_other' \in -8 .. 7
    <3>1. n_aref + d \in Int /\ n_other + d \in Int
      BY <2>2
    <3>2. Wrap4(n_aref + d) \in -8 .. 7 /\ Wrap4(n_other + d) \in -8 .. 7
      BY <2>1, <3>1, Zenon
    <3>3. n_aref \in -8 .. 7 /\ n_other \in -8 .. 7
      BY DEF AdcInv, TypeOK
    <3>4. \/ n_aref' = Wrap4(n_aref + d) /\ n_other' = n_other
          \/ n_other' = Wrap4(n_other + d) /\ n_aref' = n_aref
      BY <2>4 DEF CountRefs
    <3> QED BY <3>2, <3>3, <3>4
  <2> QED BY <2>3, <2>4 DEF AdcInv, TypeOK
<1>3. bound' \subseteq Channel /\ DIDR0' \subseteq 0 .. 5
  <2>1. c.ch \in 0 .. 15 /\ bound \subseteq Channel /\ DIDR0 \subseteq 0 .. 5
    BY ChannelAssumption DEF AdcInv, TypeOK
  <2>2. CASE adc_bind(c)
    <3>1. \/ UNCHANGED refs
          \/ /\ bound' = bound \cup {c}
             /\ DIDR0' = IF c.ch < 6 THEN DIDR0 \cup {c.ch} ELSE DIDR0
      BY <2>2 DEF adc_bind
    <3>2. c.ch < 6 => c.ch \in 0 .. 5
      BY <2>1
    <3> QED BY <2>1, <3>1, <3>2 DEF refs
  <2>3. CASE adc_unbind(c)
    BY <2>1, <2>3 DEF adc_unbind
  <2> QED BY <2>2, <2>3
<1>4. TypeOK'
  BY <1>1, <1>2, <1>3 DEF AdcInv, TypeOK
<1>5. MainShape' /\ ConverterFollows' /\ ValueComing'
  BY <1>1 DEF AdcInv, MainShape, ConverterFollows, ValueComing, Wanted
<1> QED BY <1>4, <1>5 DEF AdcInv

\* A user asks for a value or a mean.
LEMMA AskKeeps ==
  ASSUME AdcInv, BeginConversion \/ BeginOversample
  PROVE  AdcInv'
<1>1. PICK p \in {"start_wait", "trigger"} :
        /\ main.pc = "idle" /\ GoTo(p) /\ asked' = IF p = "trigger" THEN "mean" ELSE "value"
        /\ \/ UNCHANGED <<sample_sum, num_samples>>
           \/ sample_sum' = {} /\ num_samples' = 0
        /\ rested' = rested \/ rested' = (conv = NONE)
        /\ UNCHANGED <<last_channel_used, n_aref, n_other, DIDR0, bound, ADMUX, ADCSRA, ADCH, conv,
                       settled>>
  BY DEF BeginConversion, BeginOversample, Ask, At, adc_converting, sampling, refs, converter
<1>2. /\ main'.pc = p /\ main'.then = <<>> /\ main'.copy = NONE
      /\ main' = [pc |-> p, then |-> <<>>, copy |-> NONE]
  BY <1>1, MainMoves DEF AdcInv, MainShape
<1>3. TypeOK'
  <2>1. sample_sum' \subseteq Results /\ num_samples' \in 0 .. 255
    <3>1. sample_sum \subseteq Results /\ num_samples \in 0 .. 255
      BY DEF AdcInv, TypeOK
    <3> QED BY <1>1, <3>1
  <2>2. asked' \in {"nothing", "value", "mean"} /\ rested' \in BOOLEAN
    BY <1>1 DEF AdcInv, TypeOK
  <2> QED BY <1>1, <1>2, <2>1, <2>2 DEF AdcInv, TypeOK
<1>4. MainShape'
  BY <1>1, <1>2 DEF MainShape
<1>5. ConverterFollows' /\ ValueComing'
  BY <1>1, <1>2 DEF AdcInv, ConverterFollows, ValueComing
<1> QED BY <1>3, <1>4, <1>5 DEF AdcInv

\* The user reads what it asked for.
LEMMA GetKeeps ==
  ASSUME AdcInv, adc_get
  PROVE  AdcInv' /\ main' = [pc |-> "idle", copy |-> NONE, then |-> <<>>]
<1>1. /\ main.pc \in {"idle", "get"} /\ asked' = "nothing"
      /\ UNCHANGED <<last_channel_used, sample_sum, num_samples, rested, n_aref, n_other, DIDR0, bound,
                     ADMUX, ADCSRA, ADCH, conv, settled>>
  BY DEF adc_get, Ready, At, sampling, refs, converter
<1>2. main.then = <<>>
  BY <1>1 DEF AdcInv, MainShape
<1>3. main' = [pc |-> "idle", copy |-> NONE, then |-> <<>>]
  BY <1>2, ContinueTo DEF adc_get, Returned
<1>4. TypeOK'
  BY <1>1, <1>3 DEF AdcInv, TypeOK
<1>5. MainShape'
  BY <1>1, <1>3 DEF MainShape
<1>6. ConverterFollows' /\ ValueComing'
  BY <1>1, <1>3 DEF AdcInv, ConverterFollows, ValueComing
<1> QED BY <1>3, <1>4, <1>5, <1>6 DEF AdcInv

\* The calls that prepare a channel.
Preparing == \/ \E c \in Channel : adc_prepare(c) \/ adc_prepare_start(c) \/ adc_prep_start_get(c)
             \/ adc_setup

LEMMA PreparingKeeps ==
  ASSUME AdcInv, Preparing
  PROVE  AdcInv'
<1>1. PICK c \in Used :
        \/ adc_prepare(c) \/ adc_prepare_start(c) \/ adc_prep_start_get(c)
        \/ adc_setup /\ c = Internal
  BY DEF Preparing, Used
<1>2. CASE adc_prepare(c)
  BY <1>2, PrepareKeeps DEF adc_prepare, Prepares, At
<1>3. CASE adc_prepare_start(c)
  BY <1>3, PrepareKeeps DEF adc_prepare_start, Prepares, At
<1>4. CASE adc_prep_start_get(c)
  BY <1>4, PrepareKeeps DEF adc_prep_start_get, Prepares, At
<1>5. CASE adc_setup /\ c = Internal
  BY <1>5, PrepareKeeps DEF adc_setup, At
<1> QED BY <1>1, <1>2, <1>3, <1>4, <1>5

\* The waits and the reads and writes of ADCSRA in the calls of main.
Waits == \/ WaitConverted("discard_wait", "discard") \/ WaitConverted("start_wait", "start")
         \/ WaitConverted("mean_wait", "mean") \/ WaitConverted("get_wait", "get")
Reads == \E p \in {"discard", "start", "trigger", "mean"} : ReadControl(p)
Starts == \E p \in {"discard", "start", "mean"} : WriteControl(p, {"ADSC"}, "return")
Triggers == WriteControl("trigger", {"ADATE", "ADIE"}, "mean_wait")

LEMMA MainSteps ==
  ASSUME MainStep
  PROVE  Preparing \/ Waits \/ Reads \/ Starts \/ Triggers \/ adc_get
BY DEF MainStep, DiscardFirst, adc_start_conversion, adc_start_oversample, WaitAndGet, SetBits,
       Preparing, Waits, Reads, Starts, Triggers

LEMMA NextKeeps ==
  ASSUME AdcInv, [Next]_vars
  PROVE  AdcInv'
<1>1. CASE \E c \in Channel : adc_bind(c) \/ adc_unbind(c)
  BY <1>1, BindKeeps
<1>2. CASE BeginConversion \/ BeginOversample
  BY <1>2, AskKeeps
<1>3. CASE Preparing
  BY <1>3, PreparingKeeps
<1>4. CASE Waits
  BY <1>4, WaitKeeps DEF Waits
<1>5. CASE Reads
  BY <1>5, ReadKeeps DEF Reads
<1>6. CASE Starts
  BY <1>6, StartKeeps DEF Starts
<1>7. CASE Triggers
  BY <1>7, TriggerKeeps DEF Triggers
<1>8. CASE adc_get
  BY <1>8, GetKeeps
<1>9. CASE ADC_vect
  BY <1>9, IsrKeeps
<1>10. CASE ConversionEnds
  BY <1>10, EndKeeps
<1>11. CASE UNCHANGED vars
  <2>1. TypeOK'
    BY <1>11 DEF vars, AdcInv, TypeOK, sampling, refs, converter
  <2>2. MainShape' /\ ConverterFollows' /\ ValueComing'
    BY <1>11 DEF vars, AdcInv, MainShape, ConverterFollows, ValueComing, Wanted, converter
  <2> QED BY <2>1, <2>2 DEF AdcInv
<1> QED BY <1>1, <1>2, <1>3, <1>4, <1>5, <1>6, <1>7, <1>8, <1>9, <1>10, <1>11, MainSteps
        DEF Next, Preparing

(***************************************************************************)
(* The driver's registers, calls and converter stay as adc.c means them,   *)
(* for every set of channels and number of samples.                        *)
(***************************************************************************)
THEOREM AdcInvariance == Spec => []AdcInv
<1>1. Init => AdcInv
  <2> SUFFICES ASSUME Init PROVE AdcInv
    OBVIOUS
  <2>1. TypeOK
    <3>1. rested \in BOOLEAN
      BY Zenon DEF Init
    <3> QED BY <3>1 DEF Init, TypeOK, Used, Blank, Reference, Results
  <2>2. MainShape /\ ConverterFollows /\ ValueComing
    BY DEF Init, MainShape, ConverterFollows, ValueComing, Blank
  <2> QED BY <2>1, <2>2 DEF AdcInv
<1> QED BY <1>1, NextKeeps, PTL DEF Spec

\* Every variable keeps its type.
THEOREM TypeCorrect == Spec => []TypeOK
<1>1. AdcInv => TypeOK
  BY DEF AdcInv
<1> QED BY <1>1, AdcInvariance, PTL

(***************************************************************************)
(* adc.h: adc_get gives the value of the conversion that the user started, *)
(* of the channel it prepared, and never the one to be discarded after the *)
(* reference changes.                                                      *)
(***************************************************************************)
THEOREM ValueIsGood == Spec => []ValueIsOfPrepared
<1>1. AdcInv => ValueIsOfPrepared
  BY DEF AdcInv, ConverterFollows, ValueComing, ValueIsOfPrepared, Ready, At, adc_converting
<1> QED BY <1>1, AdcInvariance, PTL

-----------------------------------------------------------------------------
(***************************************************************************)
(* The mean.  The interrupt is on exactly while samples are missing, also  *)
(* in the copy of ADCSRA that main writes back to start the first one: the *)
(* converter rests then, so that one sample at most, of a conversion that  *)
(* had ended before, has been counted, and it is not the last one.         *)
(***************************************************************************)
SamplingOK ==
  /\ num_samples \in 0 .. N_SAMPLES
  /\ asked # "mean" => /\ ~ADCSRA.ADIE /\ ~ADCSRA.ADATE
                       /\ main.copy # NONE => ~main.copy.ADIE /\ ~main.copy.ADATE
  /\ main.pc = "trigger" => ~ADCSRA.ADIE /\ ~ADCSRA.ADATE /\ num_samples = 0
  /\ asked = "mean" /\ main.pc # "trigger" =>
       /\ num_samples = N_SAMPLES => ~ADCSRA.ADIE /\ ~ADCSRA.ADATE
       /\ num_samples # N_SAMPLES => ADCSRA.ADIE /\ ADCSRA.ADATE
  /\ main.pc \in {"mean_wait", "mean"} /\ conv = NONE /\ num_samples # N_SAMPLES =>
       num_samples = 0 \/ (num_samples = 1 /\ ~ADCSRA.ADIF)
  /\ main.pc = "mean" =>
       /\ conv = NONE
       /\ main.copy # NONE => /\ main.copy.ADIE <=> num_samples # N_SAMPLES
                              /\ main.copy.ADATE <=> num_samples # N_SAMPLES

(***************************************************************************)
(* When the converter was at rest, no sample is counted before main starts *)
(* the first one, and all are good ones of the channel prepared.           *)
(***************************************************************************)
SamplesOK ==
  /\ settled = last_channel_used.ref /\ (conv # NONE => conv = last_channel_used)
  /\ sample_sum = IF num_samples = 0 THEN {} ELSE {Wanted}
  /\ num_samples # N_SAMPLES /\ ADCSRA.ADIF => ADCH = Wanted

RestOK ==
  /\ main.pc \in {"trigger", "mean_wait", "mean"} =>
       conv = NONE /\ sample_sum = {} /\ num_samples = 0
  /\ main.pc = "trigger" /\ main.copy # NONE =>
       main.copy.ADIF = ADCSRA.ADIF /\ ~main.copy.ADSC
  /\ main.pc \in {"mean_wait", "mean"} => ~ADCSRA.ADIF
  /\ main.pc = "idle" /\ asked = "mean" => SamplesOK

MeanInv == SamplingOK /\ (rested => RestOK)

\* Where main may be while it wants a mean.
LEMMA MeanPlaces ==
  ASSUME AdcInv, asked = "mean"
  PROVE  main.pc \in {"idle", "halted", "trigger", "mean_wait", "mean"}
BY DEF AdcInv, TypeOK, MainShape

\* Main is in the steps of a mean only when it wants one.
LEMMA MeanSteps ==
  ASSUME AdcInv, main.pc \in {"trigger", "mean_wait", "mean"}
  PROVE  asked = "mean"
BY DEF AdcInv, MainShape

LEMMA EndKeepsMean ==
  ASSUME AdcInv, MeanInv, ConversionEnds
  PROVE  MeanInv'
<1>1. /\ conv # NONE /\ ADCH' = Result(conv) /\ settled' = conv.ref /\ NONE \notin Used
      /\ conv' = IF ADCSRA.ADATE THEN ADMUX ELSE NONE
      /\ ADCSRA'.ADIE = ADCSRA.ADIE /\ ADCSRA'.ADATE = ADCSRA.ADATE
      /\ ADMUX = last_channel_used /\ ADMUX \in Used
      /\ UNCHANGED <<last_channel_used, sample_sum, num_samples, rested, main, asked>>
  BY Typed DEF ConversionEnds, sampling, AdcInv, TypeOK, ConverterFollows
<1>2. SamplingOK'
  <2>1. main.pc = "mean_wait" => conv' # NONE \/ num_samples = N_SAMPLES
    BY <1>1, MeanSteps DEF MeanInv, SamplingOK
  <2> QED BY <1>1, <2>1 DEF MeanInv, SamplingOK
<1>3. ASSUME rested
      PROVE  RestOK'
  <2>1. main.pc \notin {"trigger", "mean_wait", "mean"}
    BY <1>1, <1>3 DEF MeanInv, RestOK
  <2>2. ASSUME main.pc = "idle", asked = "mean"
        PROVE  SamplesOK'
    <3>1. SamplesOK /\ conv = last_channel_used
      BY <1>1, <1>3, <2>2 DEF MeanInv, RestOK, SamplesOK
    <3>2. ADCH' = Wanted /\ Wanted' = Wanted
      BY <1>1, <3>1, WantedResult DEF SamplesOK, Wanted
    <3> QED BY <1>1, <3>1, <3>2 DEF SamplesOK
  <2> QED BY <1>1, <2>1, <2>2 DEF RestOK
<1> QED BY <1>1, <1>2, <1>3 DEF MeanInv

LEMMA IsrKeepsMean ==
  ASSUME AdcInv, MeanInv, ADC_vect, main.pc # "halted"
  PROVE  MeanInv'
<1>1. /\ ADCSRA.ADIE /\ ADCSRA.ADIF /\ sample_sum' = sample_sum \cup {ADCH}
      /\ num_samples' = (num_samples + 1) % 256
      /\ LET more == num_samples' # N_SAMPLES IN
         ADCSRA' = [ADIF |-> FALSE, ADATE |-> ADCSRA.ADATE /\ more, ADIE |-> ADCSRA.ADIE /\ more]
      /\ UNCHANGED <<last_channel_used, rested, ADCH, conv, settled, main, asked>>
  BY DEF ADC_vect
<1>2. asked = "mean" /\ main.pc \in {"idle", "mean_wait", "mean"}
  BY <1>1, MeanPlaces DEF MeanInv, SamplingOK
<1>3. num_samples \in 0 .. N_SAMPLES /\ num_samples # N_SAMPLES /\ ADCSRA.ADATE
  BY <1>1, <1>2 DEF MeanInv, SamplingOK
<1>4. num_samples' = num_samples + 1 /\ num_samples' \in 1 .. N_SAMPLES
  BY <1>1, <1>3, SamplesAssumption
<1>5. /\ num_samples' = N_SAMPLES => ~ADCSRA'.ADIE /\ ~ADCSRA'.ADATE
      /\ num_samples' # N_SAMPLES => ADCSRA'.ADIE /\ ADCSRA'.ADATE
      /\ ~ADCSRA'.ADIF
  BY <1>1, <1>3
<1>6. SamplingOK'
  <2>1. main.pc \in {"mean_wait", "mean"} /\ conv = NONE =>
          num_samples = 0 /\ num_samples' = 1 /\ num_samples' # N_SAMPLES
    BY <1>1, <1>3, <1>4, SamplesAssumption DEF MeanInv, SamplingOK
  <2> QED BY <1>1, <1>2, <1>3, <1>4, <1>5, <2>1 DEF MeanInv, SamplingOK
<1>7. ASSUME rested
      PROVE  RestOK'
  <2>1. main.pc = "idle" /\ SamplesOK
    BY <1>1, <1>2, <1>7 DEF MeanInv, RestOK
  <2>2. sample_sum' = {Wanted} /\ Wanted' = Wanted
    BY <1>1, <1>3, <2>1 DEF SamplesOK, Wanted
  <2>3. SamplesOK'
    BY <1>1, <1>4, <1>5, <2>1, <2>2 DEF SamplesOK
  <2> QED BY <1>1, <2>1, <2>3 DEF RestOK
<1> QED BY <1>1, <1>6, <1>7 DEF MeanInv

\* The steps of main in a conversion or in a mean.
LEMMA MainKeepsMean ==
  ASSUME AdcInv, MeanInv, Waits \/ Reads \/ Starts \/ Triggers
  PROVE  MeanInv'
<1>1. UNCHANGED <<last_channel_used, ADCH, settled, asked, sample_sum, num_samples, rested>>
  BY DEF Waits, Reads, Starts, Triggers, WaitConverted, ReadControl, WriteControl, converter, sampling
<1>2. CASE Waits
  <2>1. PICK p, q : /\ WaitConverted(p, q)
                    /\ \/ p = "mean_wait" /\ q = "mean"
                       \/ /\ p \in {"discard_wait", "start_wait", "get_wait"}
                          /\ q \in {"discard", "start", "get"}
    BY <1>2 DEF Waits
  <2>2. /\ main.pc = p /\ main'.pc = q /\ main'.copy = main.copy /\ conv = NONE
        /\ UNCHANGED <<conv, ADCSRA>>
    BY <2>1, MainMoves DEF AdcInv, WaitConverted, At, converter, adc_converting
  <2>3. p = "mean_wait" => main.copy = NONE /\ asked = "mean"
    BY <2>2 DEF AdcInv, MainShape
  <2>4. q # "mean" => main'.pc \notin {"trigger", "mean_wait", "mean"} /\ asked # "mean"
    BY <2>1, <2>2, MeanPlaces DEF WaitConverted, At
  <2>5. SamplingOK'
    BY <1>1, <2>1, <2>2, <2>3, <2>4 DEF MeanInv, SamplingOK
  <2>6. rested => RestOK'
    BY <1>1, <2>1, <2>2, <2>3, <2>4 DEF MeanInv, RestOK
  <2> QED BY <1>1, <2>5, <2>6 DEF MeanInv
<1>3. CASE Reads
  <2>1. PICK p \in {"discard", "start", "trigger", "mean"} : ReadControl(p)
    BY <1>3 DEF Reads
  <2>2. /\ main'.pc = p /\ main'.copy.ADIE = ADCSRA.ADIE /\ main'.copy.ADATE = ADCSRA.ADATE
        /\ main'.copy.ADIF = ADCSRA.ADIF /\ main'.copy.ADSC = (conv # NONE) /\ main.pc = p
        /\ UNCHANGED <<conv, ADCSRA>>
    BY <2>1, ReadKeeps DEF ReadControl, At, converter
  <2>3. p = "mean" => asked = "mean"
    BY <2>2, MeanSteps
  <2>4. SamplingOK'
    BY <1>1, <2>2, <2>3 DEF MeanInv, SamplingOK
  <2>5. rested => RestOK'
    BY <1>1, <2>2 DEF MeanInv, RestOK
  <2> QED BY <1>1, <2>4, <2>5 DEF MeanInv
<1>4. CASE Starts
  <2>1. PICK p \in {"discard", "start", "mean"} : WriteControl(p, {"ADSC"}, "return")
    BY <1>4 DEF Starts
  <2>2. /\ conv' = last_channel_used /\ ADCSRA'.ADATE = main.copy.ADATE
        /\ ADCSRA'.ADIE = main.copy.ADIE /\ ADCSRA'.ADIF = (ADCSRA.ADIF /\ ~main.copy.ADIF)
        /\ main.pc = p /\ main.copy # NONE /\ main' = Continue(main.then)
    BY <2>1, StartKeeps DEF WriteControl, At, After, Returned
  <2>3. CASE p # "mean"
    <3>1. asked # "mean" /\ main.then \in {<<>>, <<"get_wait">>, <<"start_wait">>,
                                           <<"start_wait", "get_wait">>}
      BY <2>2, <2>3 DEF AdcInv, MainShape
    <3>2. main'.copy = NONE /\ main'.pc \in {"idle", "start_wait", "get_wait"}
      BY <2>2, <3>1, ContinueTo
    <3> QED BY <1>1, <2>2, <3>1, <3>2 DEF MeanInv, SamplingOK, RestOK
  <2>4. CASE p = "mean"
    <3>1. asked = "mean" /\ main' = [pc |-> "idle", copy |-> NONE, then |-> <<>>]
      BY <2>2, <2>4, ContinueTo DEF AdcInv, MainShape
    <3>2. SamplingOK'
      BY <1>1, <2>2, <2>4, <3>1 DEF MeanInv, SamplingOK
    <3>3. ASSUME rested
          PROVE  RestOK'
      <4>1. /\ settled = last_channel_used.ref /\ sample_sum = {} /\ num_samples = 0
            /\ ~ADCSRA'.ADIF
        BY <2>2, <2>4, <3>3 DEF AdcInv, ConverterFollows, MeanInv, RestOK
      <4>2. SamplesOK'
        BY <1>1, <2>2, <4>1 DEF SamplesOK
      <4> QED BY <1>1, <3>1, <4>2 DEF RestOK
    <3> QED BY <1>1, <3>2, <3>3 DEF MeanInv
  <2> QED BY <2>3, <2>4
<1>5. CASE Triggers
  <2>1. /\ main'.pc = "mean_wait" /\ main'.copy = NONE
        /\ conv = NONE /\ ~main.copy.ADSC => conv' = NONE
        /\ ADCSRA'.ADATE /\ ADCSRA'.ADIE /\ ADCSRA'.ADIF = (ADCSRA.ADIF /\ ~main.copy.ADIF)
        /\ main.pc = "trigger" /\ main.copy # NONE /\ asked = "mean"
    BY <1>5, TriggerKeeps DEF Triggers, WriteControl, At, AdcInv, MainShape
  <2>2. SamplingOK'
    BY <1>1, <2>1, SamplesAssumption DEF MeanInv, SamplingOK
  <2>3. rested => RestOK'
    BY <1>1, <2>1 DEF MeanInv, RestOK
  <2> QED BY <1>1, <2>2, <2>3 DEF MeanInv
<1> QED BY <1>2, <1>3, <1>4, <1>5

LEMMA NextKeepsMean ==
  ASSUME AdcInv, MeanInv, [Next]_vars
  PROVE  MeanInv'
<1>1. CASE \E c \in Channel : adc_bind(c) \/ adc_unbind(c)
  <2>1. /\ main.pc = "idle" /\ main'.pc \in {"idle", "halted"} /\ main'.copy = main.copy
        /\ UNCHANGED <<last_channel_used, sample_sum, num_samples, rested, ADCSRA, ADCH, conv,
                       settled, asked>>
    BY <1>1, MainMoves DEF adc_bind, adc_unbind, At, sampling, converter, AdcInv
  <2>2. SamplesOK' <=> SamplesOK
    BY <2>1 DEF SamplesOK, Wanted
  <2> QED BY <2>1, <2>2 DEF MeanInv, SamplingOK, RestOK
<1>2. CASE BeginConversion
  <2>1. /\ main.pc = "idle" /\ GoTo("start_wait") /\ asked = "nothing" /\ asked' = "value"
        /\ UNCHANGED <<ADCSRA, num_samples, rested>>
    BY <1>2 DEF BeginConversion, Ask, At, converter, sampling
  <2>2. main'.pc = "start_wait" /\ main'.copy = NONE
    BY <2>1, MainMoves DEF AdcInv, MainShape
  <2> QED BY <2>1, <2>2 DEF MeanInv, SamplingOK, RestOK
<1>3. CASE BeginOversample
  <2>1. /\ main.pc = "idle" /\ GoTo("trigger") /\ asked = "nothing" /\ asked' = "mean"
        /\ sample_sum' = {} /\ num_samples' = 0 /\ (rested' => conv = NONE)
        /\ UNCHANGED <<ADCSRA, conv>>
    BY <1>3 DEF BeginOversample, Ask, At, adc_converting, converter
  <2>2. main'.pc = "trigger" /\ main'.copy = NONE
    BY <2>1, MainMoves DEF AdcInv, MainShape
  <2> QED BY <2>1, <2>2, SamplesAssumption DEF MeanInv, SamplingOK, RestOK
<1>4. CASE Preparing
  <2>1. PICK c, then : /\ Prepare(c, then) /\ asked = "nothing" /\ asked' \in {"nothing", "value"}
                       /\ then \in {<<>>, <<"start_wait">>, <<"start_wait", "get_wait">>}
    BY <1>4 DEF Preparing, adc_prepare, adc_prepare_start, adc_prep_start_get, adc_setup, Prepares,
                At, AdcInv, MainShape
  <2>2. /\ UNCHANGED <<ADCSRA, num_samples, rested>>
        /\ main'.copy = NONE /\ main'.pc \in {"discard_wait", "idle", "start_wait"}
    BY <2>1, ContinueTo DEF Prepare, sampling
  <2> QED BY <2>1, <2>2 DEF MeanInv, SamplingOK, RestOK
<1>5. CASE adc_get
  <2>1. /\ main' = [pc |-> "idle", copy |-> NONE, then |-> <<>>] /\ asked' = "nothing"
        /\ UNCHANGED <<ADCSRA, num_samples, rested>>
    BY <1>5, GetKeeps DEF adc_get, converter, sampling
  <2>2. ~ADCSRA.ADIE /\ ~ADCSRA.ADATE
    <3>1. asked = "value" \/ (asked = "mean" /\ main.pc = "idle" /\ num_samples = N_SAMPLES)
      BY <1>5 DEF adc_get, Ready, At, adc_oversampling
    <3> QED BY <3>1 DEF MeanInv, SamplingOK
  <2> QED BY <2>1, <2>2 DEF MeanInv, SamplingOK, RestOK
<1>6. CASE Waits \/ Reads \/ Starts \/ Triggers
  BY <1>6, MainKeepsMean
<1>7. CASE ~At("halted") /\ ADC_vect
  BY <1>7, IsrKeepsMean DEF At
<1>8. CASE ConversionEnds
  BY <1>8, EndKeepsMean
<1>9. CASE UNCHANGED vars
  <2>1. UNCHANGED <<last_channel_used, sample_sum, num_samples, rested, ADCSRA, ADCH, conv,
                    settled, main, asked>>
    BY <1>9 DEF vars, sampling, converter
  <2>2. SamplesOK' <=> SamplesOK
    BY <2>1 DEF SamplesOK, Wanted
  <2> QED BY <2>1, <2>2 DEF MeanInv, SamplingOK, RestOK
<1> QED BY <1>1, <1>2, <1>3, <1>4, <1>5, <1>6, <1>7, <1>8, <1>9, MainSteps DEF Next, Preparing

(***************************************************************************)
(* adc.h: the mean is of "continuous measures of the same channel", for a  *)
(* user that sees adc_converting() false before adc_start_oversample,      *)
(* whatever was asked for before.  (Without that it is not: finding        *)
(* adc_mean.)                                                              *)
(***************************************************************************)
THEOREM MeanIsGood == Spec => []RestedMeanIsGood
<1>1. Init => MeanInv
  BY SamplesAssumption DEF Init, MeanInv, SamplingOK
<1>2. AdcInv /\ MeanInv /\ [Next]_vars => MeanInv'
  BY NextKeepsMean
<1>3. MeanInv => RestedMeanIsGood
  BY SamplesAssumption
     DEF MeanInv, RestOK, SamplesOK, RestedMeanIsGood, MeanIsOfPrepared, Ready, At, adc_oversampling
<1> QED BY <1>1, <1>2, <1>3, AdcInvariance, PTL DEF Spec

-----------------------------------------------------------------------------
(***************************************************************************)
(* The references.  The two counters are the numbers of bound channels of  *)
(* each kind, in four bits; with at most fifteen channels of a kind, a     *)
(* counter is 0 only when there is none.                                   *)
(***************************************************************************)
ExternalOf(S) == {c \in S : c.ref = "Aref"}
OtherOf(S) == {c \in S : c.ref # "Aref"}

FewOfAKind == Cardinality(ExternalOf(Channel)) <= 15 /\ Cardinality(OtherOf(Channel)) <= 15

RefsInv ==
  /\ bound \subseteq Channel
  /\ n_aref = Wrap4(Cardinality(ExternalOf(bound)))
  /\ n_other = Wrap4(Cardinality(OtherOf(bound)))
  /\ ExternalOf(bound) = {} \/ OtherOf(bound) = {}

LEMMA Wrap4Facts ==
  /\ \A n \in 0 .. 15 : Wrap4(n) = 0 <=> n = 0
  /\ \A n \in Int : Wrap4(Wrap4(n) + 1) = Wrap4(n + 1) /\ Wrap4(Wrap4(n) - 1) = Wrap4(n - 1)
BY DEF Wrap4

\* There are finitely many channels: a hardware channel and a reference.
LEMMA FiniteChannels == IsFiniteSet(Channel)
<1> DEFINE P == (0 .. 15) \X Reference
           R == [ch : 0 .. 15, ref : Reference]
           f == [x \in P |-> [ch |-> x[1], ref |-> x[2]]]
<1>1. IsFiniteSet(0 .. 15)
  <2>1. 0 \in Int /\ 15 \in Int
    OBVIOUS
  <2> QED BY <2>1, FS_Interval, Zenon
<1>2. IsFiniteSet(Reference)
  <2>1. Reference = (({} \cup {"Aref"}) \cup {"Vcc"}) \cup {"Int11"}
    BY DEF Reference
  <2> QED BY <2>1, FS_EmptySet, FS_AddElement
<1>3. IsFiniteSet(P)
  BY <1>1, <1>2, FS_Product
<1>4. f \in [P -> R]
  OBVIOUS
<1>5. ASSUME NEW r \in R
      PROVE  \E x \in P : f[x] = r
  <2>1. <<r.ch, r.ref>> \in P /\ f[<<r.ch, r.ref>>] = [ch |-> r.ch, ref |-> r.ref]
    OBVIOUS
  <2> QED BY <2>1
<1> HIDE DEF P, R, f
<1>6. f \in Surjection(P, R)
  BY <1>4, <1>5 DEF Surjection
<1>7. IsFiniteSet(R)
  BY <1>3, <1>6, FS_Surjection
<1> QED BY <1>7, ChannelAssumption, FS_Subset DEF R

\* The number of bound channels of a kind fits in its counter.
LEMMA Counted ==
  ASSUME FewOfAKind, bound \subseteq Channel
  PROVE  /\ IsFiniteSet(ExternalOf(bound)) /\ Cardinality(ExternalOf(bound)) \in 0 .. 15
         /\ Cardinality(ExternalOf(bound)) = 0 <=> ExternalOf(bound) = {}
         /\ IsFiniteSet(OtherOf(bound)) /\ Cardinality(OtherOf(bound)) \in 0 .. 15
         /\ Cardinality(OtherOf(bound)) = 0 <=> OtherOf(bound) = {}
<1>1. ASSUME NEW S, NEW T, S \subseteq T, T \subseteq Channel, Cardinality(T) <= 15
      PROVE  IsFiniteSet(S) /\ Cardinality(S) \in 0 .. 15 /\ (Cardinality(S) = 0 <=> S = {})
  <2>1. IsFiniteSet(T)
    BY <1>1, FiniteChannels, FS_Subset
  <2>2. IsFiniteSet(S) /\ Cardinality(S) <= Cardinality(T)
    BY <1>1, <2>1, FS_Subset
  <2>3. Cardinality(S) \in Nat /\ Cardinality(T) \in Nat
    BY <2>1, <2>2, FS_CardinalityType
  <2>4. Cardinality(S) = 0 <=> S = {}
    BY <2>2, FS_EmptySet
  <2> QED BY <1>1, <2>2, <2>3, <2>4
<1>2. /\ ExternalOf(bound) \subseteq ExternalOf(Channel) /\ ExternalOf(Channel) \subseteq Channel
      /\ OtherOf(bound) \subseteq OtherOf(Channel) /\ OtherOf(Channel) \subseteq Channel
  BY DEF ExternalOf, OtherOf
<1> QED BY <1>1, <1>2, Zenon DEF FewOfAKind

\* A channel is refused exactly when a bound one clashes with it.
LEMMA RefusedIfClash ==
  ASSUME FewOfAKind, RefsInv, NEW c \in Channel
  PROVE  Incompatible(c) <=> \E d \in bound : Clash(c, d)
<1>1. (n_aref = 0 <=> ExternalOf(bound) = {}) /\ (n_other = 0 <=> OtherOf(bound) = {})
  <2>1. bound \subseteq Channel
    BY DEF RefsInv
  <2>2. /\ Cardinality(ExternalOf(bound)) \in 0 .. 15
        /\ Cardinality(ExternalOf(bound)) = 0 <=> ExternalOf(bound) = {}
        /\ Cardinality(OtherOf(bound)) \in 0 .. 15
        /\ Cardinality(OtherOf(bound)) = 0 <=> OtherOf(bound) = {}
    BY <2>1, Counted, Zenon
  <2> QED BY <2>2, Wrap4Facts DEF RefsInv
<1> QED BY <1>1 DEF Incompatible, Clash, ExternalOf, OtherOf

LEMMA BindCounts ==
  ASSUME FewOfAKind, RefsInv, NEW c \in Channel, adc_bind(c)
  PROVE  RefsInv'
<1> DEFINE Ext == ExternalOf(bound)
           Oth == OtherOf(bound)
<1>1. /\ IsFiniteSet(Ext) /\ Cardinality(Ext) \in 0 .. 15 /\ (Cardinality(Ext) = 0 <=> Ext = {})
      /\ IsFiniteSet(Oth) /\ Cardinality(Oth) \in 0 .. 15 /\ (Cardinality(Oth) = 0 <=> Oth = {})
  BY Counted, Zenon DEF RefsInv
<1>2. (n_aref = 0 <=> Ext = {}) /\ (n_other = 0 <=> Oth = {})
  BY <1>1, Wrap4Facts DEF RefsInv
<1>3. c \notin bound
  BY DEF adc_bind
<1>4. CASE Incompatible(c)
  <2>1. UNCHANGED <<bound, n_aref, n_other>>
    BY <1>4 DEF adc_bind, refs
  <2> QED BY <2>1 DEF RefsInv
<1>5. CASE ~Incompatible(c)
  <2>1. /\ bound' = bound \cup {c}
        /\ c.ref = "Aref" => n_aref' = Wrap4(n_aref + 1) /\ UNCHANGED n_other
        /\ c.ref # "Aref" => n_other' = Wrap4(n_other + 1) /\ UNCHANGED n_aref
    BY <1>5 DEF adc_bind, CountRefs
  <2>2. CASE c.ref = "Aref"
    <3>1. Oth = {} /\ ExternalOf(bound)' = Ext \cup {c} /\ OtherOf(bound)' = Oth /\ c \notin Ext
      BY <1>2, <1>3, <1>5, <2>1, <2>2 DEF Incompatible, ExternalOf, OtherOf
    <3>2. Cardinality(Ext \cup {c}) = Cardinality(Ext) + 1
      BY <1>1, <3>1, FS_AddElement
    <3>3. n_aref' = Wrap4(Cardinality(Ext) + 1)
      BY <1>1, <2>1, <2>2, Wrap4Facts DEF RefsInv
    <3> QED BY <2>1, <2>2, <3>1, <3>2, <3>3 DEF RefsInv
  <2>3. CASE c.ref # "Aref"
    <3>1. Ext = {} /\ OtherOf(bound)' = Oth \cup {c} /\ ExternalOf(bound)' = Ext /\ c \notin Oth
      BY <1>2, <1>3, <1>5, <2>1, <2>3 DEF Incompatible, ExternalOf, OtherOf
    <3>2. Cardinality(Oth \cup {c}) = Cardinality(Oth) + 1
      BY <1>1, <3>1, FS_AddElement
    <3>3. n_other' = Wrap4(Cardinality(Oth) + 1)
      BY <1>1, <2>1, <2>3, Wrap4Facts DEF RefsInv
    <3> QED BY <2>1, <2>3, <3>1, <3>2, <3>3 DEF RefsInv
  <2> QED BY <2>2, <2>3
<1> QED BY <1>4, <1>5

LEMMA UnbindCounts ==
  ASSUME FewOfAKind, RefsInv, NEW c \in Channel, adc_unbind(c)
  PROVE  RefsInv'
<1> DEFINE Ext == ExternalOf(bound)
           Oth == OtherOf(bound)
<1>1. /\ IsFiniteSet(Ext) /\ Cardinality(Ext) \in Int
      /\ IsFiniteSet(Oth) /\ Cardinality(Oth) \in Int
  <2>1. /\ IsFiniteSet(Ext) /\ Cardinality(Ext) \in 0 .. 15
        /\ IsFiniteSet(Oth) /\ Cardinality(Oth) \in 0 .. 15
    BY Counted, Zenon DEF RefsInv
  <2> HIDE DEF Ext, Oth
  <2> QED BY <2>1
<1>2. /\ c \in bound /\ bound' = bound \ {c}
      /\ c.ref = "Aref" => n_aref' = Wrap4(n_aref + (-1)) /\ UNCHANGED n_other
      /\ c.ref # "Aref" => n_other' = Wrap4(n_other + (-1)) /\ UNCHANGED n_aref
  BY DEF adc_unbind, CountRefs
<1>3. \A n \in Int : Wrap4(Wrap4(n) + (-1)) = Wrap4(n - 1)
  BY DEF Wrap4
<1>4. CASE c.ref = "Aref"
  <2>1. ExternalOf(bound)' = Ext \ {c} /\ OtherOf(bound)' = Oth /\ c \in Ext
    BY <1>2, <1>4 DEF ExternalOf, OtherOf
  <2>2. Cardinality(Ext \ {c}) = Cardinality(Ext) - 1
    BY <1>1, <2>1, FS_RemoveElement
  <2>3. n_aref' = Wrap4(Cardinality(Ext) - 1)
    BY <1>1, <1>2, <1>3, <1>4 DEF RefsInv
  <2> QED BY <1>2, <1>4, <2>1, <2>2, <2>3 DEF RefsInv
<1>5. CASE c.ref # "Aref"
  <2>1. OtherOf(bound)' = Oth \ {c} /\ ExternalOf(bound)' = Ext /\ c \in Oth
    BY <1>2, <1>5 DEF ExternalOf, OtherOf
  <2>2. Cardinality(Oth \ {c}) = Cardinality(Oth) - 1
    BY <1>1, <2>1, FS_RemoveElement
  <2>3. n_other' = Wrap4(Cardinality(Oth) - 1)
    BY <1>1, <1>2, <1>3, <1>5 DEF RefsInv
  <2> QED BY <1>2, <1>5, <2>1, <2>2, <2>3 DEF RefsInv
<1> QED BY <1>4, <1>5

\* No other step touches the counters.
LEMMA OthersKeepRefs ==
  ASSUME AdcInv, [Next]_vars, ~\E c \in Channel : adc_bind(c) \/ adc_unbind(c)
  PROVE  UNCHANGED <<bound, n_aref, n_other>>
<1>1. CASE BeginConversion \/ BeginOversample \/ Waits
  BY <1>1 DEF BeginConversion, BeginOversample, Waits, WaitConverted, refs
<1>2. CASE Reads
  BY <1>2 DEF Reads, ReadControl, refs
<1>3. CASE Starts
  BY <1>3 DEF Starts, WriteControl, refs
<1>4. CASE Triggers
  BY <1>4 DEF Triggers, WriteControl, refs
<1>5. CASE adc_get
  BY <1>5 DEF adc_get, refs
<1>6. CASE Preparing
  BY <1>6 DEF Preparing, adc_prepare, adc_prepare_start, adc_prep_start_get, adc_setup, Prepare, refs
<1>7. CASE ADC_vect \/ ConversionEnds \/ UNCHANGED vars
  BY <1>7 DEF ADC_vect, ConversionEnds, vars, refs
<1> QED BY <1>1, <1>2, <1>3, <1>4, <1>5, <1>6, <1>7, MainSteps DEF Next, Preparing

(***************************************************************************)
(* adc.h: adc_bind stops the program exactly when the channel asked for    *)
(* clashes with a bound one, if the program has at most fifteen channels   *)
(* of each kind: with sixteen bound, the counters of adc.c:25 count none   *)
(* (finding adc_sixteen).                                                  *)
(***************************************************************************)
THEOREM RefsAreEnforced == ASSUME FewOfAKind PROVE Spec => RefsEnforced
<1> DEFINE Enforced == \A c \in Channel : adc_bind(c) =>
             IF \E d \in bound : Clash(c, d) THEN main'.pc = "halted" /\ UNCHANGED bound
                                            ELSE main'.pc # "halted" /\ c \in bound'
<1>1. Init => RefsInv
  <2>1. ExternalOf({}) = {} /\ OtherOf({}) = {} /\ Cardinality({}) = 0 /\ Wrap4(0) = 0
    BY FS_EmptySet DEF ExternalOf, OtherOf, Wrap4
  <2>2. Init => bound = {} /\ n_aref = 0 /\ n_other = 0
    BY DEF Init
  <2> QED BY <2>1, <2>2, Zenon DEF RefsInv
<1>2. AdcInv /\ RefsInv /\ [Next]_vars => RefsInv'
  <2> SUFFICES ASSUME AdcInv, RefsInv, [Next]_vars PROVE RefsInv'
    OBVIOUS
  <2>1. CASE \E c \in Channel : adc_bind(c) \/ adc_unbind(c)
    BY <2>1, BindCounts, UnbindCounts
  <2>2. CASE ~\E c \in Channel : adc_bind(c) \/ adc_unbind(c)
    BY <2>2, OthersKeepRefs DEF RefsInv
  <2> QED BY <2>1, <2>2
<1>3. AdcInv /\ RefsInv /\ [Next]_vars => [Enforced]_vars
  <2> SUFFICES ASSUME AdcInv, RefsInv, NEW c \in Channel, adc_bind(c)
               PROVE  IF \E d \in bound : Clash(c, d) THEN main'.pc = "halted" /\ UNCHANGED bound
                                                      ELSE main'.pc # "halted" /\ c \in bound'
    OBVIOUS
  <2>1. CASE Incompatible(c)
    <3>1. main'.pc = "halted" /\ UNCHANGED bound
      BY <2>1, MainMoves DEF AdcInv, TypeOK, adc_bind, GoTo, refs
    <3> QED BY <2>1, <3>1, RefusedIfClash
  <2>2. CASE ~Incompatible(c)
    <3>1. main'.pc # "halted" /\ c \in bound'
      BY <2>2 DEF adc_bind, At
    <3> QED BY <2>2, <3>1, RefusedIfClash
  <2> QED BY <2>1, <2>2
<1> QED BY <1>1, <1>2, <1>3, AdcInvariance, PTL DEF Spec, RefsEnforced
=============================================================================
