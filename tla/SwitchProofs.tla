---------------------------- MODULE SwitchProofs -----------------------------
(***************************************************************************)
(* The safety of the switches for every number of slots and pins and every *)
(* window.                                                                 *)
(*                                                                         *)
(* Main tests the flag sampling of a switch outside the atomic blocks.     *)
(* That is right because the interrupt looks only at switches that are     *)
(* sampled, and only ends their sampling: what main found resting stays    *)
(* resting.  So the count, the interrupt mask and where main is in a call  *)
(* must be followed together.                                              *)
(***************************************************************************)
EXTENDS SwitchProps, FiniteSetTheorems, TLAPS

\* A call is for a bound switch, and what it found resting is resting.
CallOK == /\ ~At("idle") => main.slot \in Bound
          /\ At("poll") \/ At("release") => switch_ready(main.slot)
          /\ main.copy # NONE => At("release")

PortsOK == \A i \in Bound : port[i] \in Pin

SwitchInv == TypeOK /\ CallOK /\ PortsOK /\ TimerRunsForSampled /\ FlagsNotTorn

-----------------------------------------------------------------------------
\* The histories are the numbers below a power of two.
LEMMA HistoryIsRange == AllHigh \in Nat /\ AllHigh + 1 > 0
<1>1. WINDOW \in {1, 2, 3, 4, 5, 6, 7, 8}
  BY WindowAssumption
<1>3. 2 ^ 1 \in Nat \ {0} /\ 2 ^ 2 \in Nat \ {0} /\ 2 ^ 3 \in Nat \ {0} /\ 2 ^ 4 \in Nat \ {0}
  OBVIOUS
<1>4. 2 ^ 5 \in Nat \ {0} /\ 2 ^ 6 \in Nat \ {0} /\ 2 ^ 7 \in Nat \ {0} /\ 2 ^ 8 \in Nat \ {0}
  OBVIOUS
<1>5. 2 ^ WINDOW \in Nat \ {0}
  BY <1>1, <1>3, <1>4, Zenon
<1>6. PICK h : h = 2 ^ WINDOW
  OBVIOUS
<1>7. h \in Nat \ {0} /\ AllHigh = h - 1
  BY <1>5, <1>6, Zenon DEF AllHigh
<1> QED
  BY <1>7

LEMMA ShiftIsHistory == ASSUME NEW i \in Slot, TypeOK PROVE Shift(i) \in History
<1>1. d_history[i] \in Nat
  BY HistoryIsRange DEF TypeOK, History
<1>2. 2 * d_history[i] + (IF PIN(port[i]) THEN 0 ELSE 1) \in Nat
  BY <1>1
<1> QED
  BY <1>2, HistoryIsRange DEF Shift, History

\* A set of numbers has a least one: the slot that get_free_slot finds.
LEMMA LeastNumber ==
  ASSUME NEW S \in SUBSET Nat, S # {}
  PROVE  Min(S) \in S
<1> DEFINE Below == {ss \in Nat \X Nat : ss[1] < ss[2]}
<1>1. IsWellFoundedOn(Below, Nat)
  BY NatLessThanWellFounded DEF OpToRel
<1>2. PICK n \in S : \A m \in S : ~(<<m, n>> \in Below)
  <2> HIDE DEF Below
  <2> QED
    BY <1>1, WFMin
<1>3. ASSUME NEW m \in S PROVE n <= m
  <2>1. m \in Nat /\ n \in Nat
    OBVIOUS
  <2>2. m < n => <<m, n>> \in Below
    BY <2>1
  <2>3. ~(m < n)
    BY <1>2, <2>2
  <2> QED
    BY <2>1, <2>3
<1> QED
  BY <1>3 DEF Min

LEMMA FreeSlot ==
  ASSUME Free # {}
  PROVE  get_free_slot \in Slot /\ ~flags[get_free_slot].used
<1>1. Free \in SUBSET Nat
  BY TableAssumption DEF Free, Slot
<1>2. get_free_slot \in Free
  BY <1>1, LeastNumber DEF get_free_slot
<1> QED
  BY <1>2 DEF Free

\* There are not more switches than fit in the count.
LEMMA SampledFits ==
  /\ IsFiniteSet(Sampled) /\ Cardinality(Sampled) \in 0 .. MAX_SWITCH
  /\ \A T \in SUBSET Slot : IsFiniteSet(T) /\ Cardinality(T) \in 0 .. MAX_SWITCH
<1>1. IsFiniteSet(Slot) /\ Cardinality(Slot) = MAX_SWITCH
  BY FS_Interval, TableAssumption DEF Slot
<1>2. ASSUME NEW T \in SUBSET Slot
      PROVE  IsFiniteSet(T) /\ Cardinality(T) \in 0 .. MAX_SWITCH
  BY <1>1, FS_Subset, FS_CardinalityType, TableAssumption
<1>3. Sampled \in SUBSET Slot
  BY DEF Sampled
<1> QED
  BY <1>2, <1>3

\* What is left of a set without some of its elements.
LEMMA Difference ==
  ASSUME NEW S, IsFiniteSet(S), NEW T \in SUBSET S
  PROVE  Cardinality(S \ T) = Cardinality(S) - Cardinality(T)
<1>1. IsFiniteSet(T) /\ IsFiniteSet(S \ T)
  BY FS_Subset
<1>2. T \cup (S \ T) = S /\ T \cap (S \ T) = {}
  OBVIOUS
<1>3. Cardinality(S) = Cardinality(T) + Cardinality(S \ T) - Cardinality({})
  BY <1>1, <1>2, FS_Union
<1>4. Cardinality(S) \in Nat /\ Cardinality(T) \in Nat /\ Cardinality(S \ T) \in Nat
  BY <1>1, FS_CardinalityType
<1> QED
  BY <1>3, <1>4, FS_EmptySet

-----------------------------------------------------------------------------
\* The state that switch_setup leaves.
LEMMA Initially == Init => SwitchInv
<1> SUFFICES ASSUME Init PROVE SwitchInv
  OBVIOUS
<1>1. 0 \in Slot /\ 0 \in History /\ 0 \in 0 .. WINDOW /\ 0 \in 0 .. MAX_SWITCH
  BY TableAssumption, WindowAssumption, HistoryIsRange DEF Slot, History
<1>2. Sampled = {} /\ Bound = {}
  BY DEF Init, Sampled, Bound
<1>3. TypeOK
  BY <1>1 DEF Init, TypeOK, Flags, Resting
<1>4. TimerRunsForSampled
  BY <1>2, FS_EmptySet DEF Init, TimerRunsForSampled
<1> QED
  BY <1>2, <1>3, <1>4 DEF Init, SwitchInv, CallOK, PortsOK, FlagsNotTorn, Resting, At

\* The interrupt counts down by as many switches as it finds stable.
LEMMA Interrupt == ASSUME SwitchInv, TIMER0_COMPA_vect PROVE SwitchInv'
<1> DEFINE Done == {i \in Sampled : Stable(i)}
<1>1. /\ d_history' = [i \in Slot |-> IF i \in Sampled THEN Shift(i) ELSE d_history[i]]
      /\ flags' = [i \in Slot |-> IF i \in Done THEN Answer(i) ELSE flags[i]]
      /\ on_sampling' = (on_sampling - Cardinality(Done)) % 256
      /\ OCIE0A' = (Done = {} \/ (on_sampling - Cardinality(Done)) % 256 # 0)
      /\ fresh' = [i \in Slot |-> IF i \in Sampled /\ fresh[i] < WINDOW THEN fresh[i] + 1
                                                                       ELSE fresh[i]]
      /\ OCIE0A /\ UNCHANGED <<port, DDR, PORT, closed, main>>
  BY DEF TIMER0_COMPA_vect, pins
<1>2. \A i \in Slot : /\ flags[i] \in Flags /\ Answer(i) \in Flags
                      /\ Answer(i).used = flags[i].used /\ ~Answer(i).sampling
  <2>1. \A i \in Slot : flags[i] \in Flags
    BY DEF SwitchInv, TypeOK
  <2> QED
    BY <2>1 DEF Answer, Flags
<1>3. flags' \in [Slot -> Flags]
  BY <1>1, <1>2
<1>4. Sampled' = Sampled \ Done /\ Bound' = Bound /\ Done \subseteq Sampled
  BY <1>1, <1>2 DEF Sampled, Bound
<1>5. Cardinality(Sampled \ Done) = Cardinality(Sampled) - Cardinality(Done)
  BY Difference, SampledFits
<1>6. /\ Cardinality(Sampled \ Done) \in 0 .. MAX_SWITCH /\ Cardinality(Sampled) \in 0 .. MAX_SWITCH
      /\ Cardinality(Done) \in 0 .. MAX_SWITCH
  <2>1. Done \in SUBSET Slot /\ Sampled \ Done \in SUBSET Slot
    BY DEF Sampled
  <2> QED
    BY <2>1, SampledFits
<1>7. on_sampling' = Cardinality(Sampled') /\ on_sampling' \in 0 .. MAX_SWITCH
  <2>1. on_sampling = Cardinality(Sampled)
    BY DEF SwitchInv, TimerRunsForSampled
  <2> HIDE DEF Done
  <2>2. on_sampling - Cardinality(Done) = Cardinality(Sampled \ Done)
    BY <1>5, <1>6, <2>1
  <2>3. Cardinality(Sampled \ Done) % 256 = Cardinality(Sampled \ Done)
    BY <1>6, TableAssumption
  <2> QED
    BY <1>1, <1>4, <1>6, <2>2, <2>3
<1>8. TimerRunsForSampled'
  <2>1. Sampled # {}
    BY <1>1 DEF SwitchInv, TimerRunsForSampled
  <2>2. on_sampling' = 0 <=> Sampled' = {}
    BY <1>4, <1>7, FS_EmptySet, FS_Subset, SampledFits
  <2>3. OCIE0A' <=> Sampled' # {}
    BY <1>1, <1>4, <2>1, <2>2
  <2> QED
    BY <1>4, <1>7, <2>3 DEF SwitchInv, TimerRunsForSampled
<1>9. TypeOK'
  <2>1. d_history' \in [Slot -> History]
    BY <1>1, ShiftIsHistory DEF SwitchInv, TypeOK
  <2>2. fresh' \in [Slot -> 0 .. WINDOW]
    BY <1>1, WindowAssumption DEF SwitchInv, TypeOK
  <2>3. OCIE0A' \in BOOLEAN
    BY <1>1
  <2> QED
    BY <1>1, <1>3, <1>7, <2>1, <2>2, <2>3 DEF SwitchInv, TypeOK
\* What main found resting is not in Done.
<1>10. \A i \in Slot : ~flags[i].sampling => flags'[i] = flags[i]
  BY <1>1 DEF Sampled
<1>11. CallOK'
  BY <1>1, <1>4, <1>10 DEF SwitchInv, CallOK, At, switch_ready, Bound
<1>12. FlagsNotTorn'
  BY <1>1, <1>10 DEF SwitchInv, CallOK, FlagsNotTorn, At, switch_ready, Bound
<1>13. PortsOK'
  BY <1>1, <1>4 DEF SwitchInv, PortsOK
<1> QED
  BY <1>8, <1>9, <1>11, <1>12, <1>13 DEF SwitchInv
-----------------------------------------------------------------------------
(***************************************************************************)
(* Main.                                                                   *)
(***************************************************************************)
\* Main moves on, with or without the registers of a pin.
LEMMA MainMoves ==
  ASSUME SwitchInv, TypeOK', CallOK', FlagsNotTorn',
         UNCHANGED <<table, on_sampling, OCIE0A, closed, fresh>>
  PROVE  SwitchInv'
<1>1. Sampled' = Sampled /\ Bound' = Bound
  BY DEF Sampled, Bound, table
<1> QED
  BY <1>1 DEF SwitchInv, PortsOK, TimerRunsForSampled, table

\* A new switch is not sampled yet.
LEMMA BindStep == ASSUME SwitchInv, NEW p \in Pin, switch_bind(p) PROVE SwitchInv'
<1> DEFINE i == get_free_slot
           new == [used |-> TRUE, sampling |-> FALSE, state |-> FALSE, changed |-> FALSE]
<1>1. i \in Slot /\ ~flags[i].used
  BY FreeSlot DEF switch_bind
<1>2. /\ At("idle") /\ flags' = [flags EXCEPT ![i] = new] /\ port' = [port EXCEPT ![i] = p]
      /\ fresh' = [fresh EXCEPT ![i] = 0]
      /\ DDR' = [DDR EXCEPT ![p] = FALSE] /\ PORT' = [PORT EXCEPT ![p] = TRUE]
      /\ UNCHANGED <<d_history, on_sampling, OCIE0A, closed, main>>
  BY DEF switch_bind
<1>3. new \in Flags /\ new.used /\ ~new.sampling
  BY DEF Flags
<1>4. i \notin Sampled /\ i \notin Bound
  BY <1>1 DEF SwitchInv, TimerRunsForSampled, Bound
<1> HIDE DEF i, new
<1>5. TypeOK'
  BY <1>1, <1>2, <1>3, WindowAssumption DEF SwitchInv, TypeOK
<1>6. Sampled' = Sampled /\ Bound' = Bound \cup {i}
  BY <1>1, <1>2, <1>3, <1>4 DEF SwitchInv, TypeOK, Sampled, Bound
<1>7. TimerRunsForSampled'
  BY <1>2, <1>6 DEF SwitchInv, TimerRunsForSampled
<1>8. CallOK' /\ FlagsNotTorn'
  BY <1>2 DEF SwitchInv, CallOK, FlagsNotTorn, At
<1>9. PortsOK'
  BY <1>1, <1>2, <1>6 DEF SwitchInv, TypeOK, PortsOK
<1> QED
  BY <1>5, <1>7, <1>8, <1>9 DEF SwitchInv

\* The registers of the pin, and the reads of the flags.
LEMMA UnbindBegins == ASSUME SwitchInv, UnbindOutput PROVE SwitchInv'
<1>1. PICK i \in Bound : /\ At("idle") /\ GoTo("low", i)
                         /\ DDR' = [DDR EXCEPT ![port[i]] = TRUE]
                         /\ UNCHANGED <<table, on_sampling, OCIE0A, PORT, closed, fresh>>
  BY DEF UnbindOutput
<1>2. i \in Slot
  BY DEF Bound
<1>3. TypeOK'
  BY <1>1, <1>2 DEF SwitchInv, TypeOK, GoTo, table
<1>4. main'.pc = "low" /\ main'.slot = i /\ main'.copy = main.copy /\ main.copy = NONE
  BY <1>1 DEF SwitchInv, TypeOK, CallOK, GoTo, At
<1>5. CallOK' /\ FlagsNotTorn'
  BY <1>1, <1>4 DEF CallOK, FlagsNotTorn, At, Bound, table
<1> QED
  BY <1>1, <1>3, <1>5, MainMoves DEF table

LEMMA UnbindGoesLow == ASSUME SwitchInv, UnbindLow PROVE SwitchInv'
<1>1. TypeOK'
  BY DEF SwitchInv, TypeOK, UnbindLow, GoTo, table
<1>2. main'.pc = "stop" /\ main'.slot = main.slot /\ main'.copy = main.copy /\ main.copy = NONE
  BY DEF SwitchInv, TypeOK, CallOK, UnbindLow, GoTo, At
<1>3. CallOK' /\ FlagsNotTorn'
  BY <1>2 DEF SwitchInv, CallOK, FlagsNotTorn, UnbindLow, At, Bound, table
<1> QED
  BY <1>1, <1>3, MainMoves DEF UnbindLow, table

\* The atomic block that ends the sampling of the switch.
LEMMA UnbindStops == ASSUME SwitchInv, UnbindStop PROVE SwitchInv'
<1> DEFINE i == main.slot
<1>1. /\ i \in Bound /\ i \in Slot /\ main.copy = NONE
      /\ main'.pc = "release" /\ main'.slot = i /\ main'.copy = NONE
      /\ main' \in [pc : {"idle", "low", "stop", "release", "poll", "wait"}, slot : Slot,
                    wait : BOOLEAN, copy : Flags \cup {NONE}]
  BY DEF SwitchInv, TypeOK, CallOK, UnbindStop, GoTo, At, Bound
<1>2. CASE ~flags[i].sampling
  <2>1. UNCHANGED <<table, on_sampling, OCIE0A, DDR, PORT, closed, fresh>>
    BY <1>2 DEF UnbindStop, table, pins
  <2>2. TypeOK'
    BY <1>1, <2>1 DEF SwitchInv, TypeOK, table
  <2>3. CallOK' /\ FlagsNotTorn'
    BY <1>1, <1>2, <2>1 DEF CallOK, FlagsNotTorn, At, switch_ready, Bound, table
  <2> QED
    BY <2>1, <2>2, <2>3, MainMoves DEF table
<1>3. CASE flags[i].sampling
  <2>1. /\ flags' = [flags EXCEPT ![i].sampling = FALSE]
        /\ on_sampling' = (on_sampling - 1) % 256
        /\ OCIE0A' = IF on_sampling' = 0 THEN FALSE ELSE OCIE0A
        /\ UNCHANGED <<d_history, port, DDR, PORT, closed, fresh>>
    BY <1>3 DEF UnbindStop, pins
  <2> HIDE DEF i
  <2>2. flags \in [Slot -> Flags] /\ OCIE0A \in BOOLEAN
    BY DEF SwitchInv, TypeOK
  <2>3. flags' \in [Slot -> Flags] /\ ~flags'[i].sampling /\ flags'[i].used = flags[i].used
    <3>1. i \in Slot
      BY <1>1
    <3> QED
      BY <3>1, <2>1, <2>2 DEF Flags
  <2>4. \A j \in Slot \ {i} : flags'[j] = flags[j]
    BY <2>1, <2>2
  <2>5. Sampled' = Sampled \ {i} /\ Bound' = Bound /\ i \in Sampled
    BY <1>1, <1>3, <2>3, <2>4 DEF Sampled, Bound
  <2>6. on_sampling' = Cardinality(Sampled') /\ on_sampling' \in 0 .. MAX_SWITCH
    <3>1. on_sampling = Cardinality(Sampled)
      BY DEF SwitchInv, TimerRunsForSampled
    <3>2. Cardinality(Sampled') = Cardinality(Sampled) - 1
      BY <2>5, SampledFits, FS_RemoveElement
    <3>3. Sampled' \in SUBSET Slot
      BY DEF Sampled
    <3>4. Cardinality(Sampled') \in 0 .. MAX_SWITCH
      BY <3>3, SampledFits
    <3>5. (on_sampling - 1) % 256 = on_sampling - 1
      BY <3>1, <3>2, <3>4, TableAssumption
    <3> QED
      BY <2>1, <3>1, <3>2, <3>4, <3>5
  <2>7. TimerRunsForSampled'
    <3>1. IsFiniteSet(Sampled')
      BY <2>5, SampledFits, FS_Subset
    <3>2. on_sampling' = 0 <=> Sampled' = {}
      BY <2>6, <3>1, FS_EmptySet
    <3>3. OCIE0A
      BY <2>5 DEF SwitchInv, TimerRunsForSampled
    <3>4. OCIE0A' <=> Sampled' # {}
      BY <2>1, <3>2, <3>3
    <3> QED
      BY <2>5, <2>6, <3>4 DEF SwitchInv, TimerRunsForSampled
  <2>8. TypeOK'
    BY <1>1, <2>1, <2>2, <2>3, <2>6 DEF SwitchInv, TypeOK
  <2>9. CallOK' /\ FlagsNotTorn' /\ PortsOK'
    BY <1>1, <2>1, <2>3, <2>5 DEF SwitchInv, CallOK, FlagsNotTorn, PortsOK, At, switch_ready
  <2> QED
    BY <2>7, <2>8, <2>9 DEF SwitchInv
<1> QED
  BY <1>2, <1>3

LEMMA UnbindReads == ASSUME SwitchInv, UnbindRead PROVE SwitchInv'
<1>1. flags[main.slot] \in Flags
  BY DEF SwitchInv, TypeOK
<1>2. TypeOK'
  BY <1>1 DEF SwitchInv, TypeOK, UnbindRead, table, pins
<1>3. main'.pc = main.pc /\ main'.slot = main.slot /\ main'.copy = flags[main.slot]
  BY DEF SwitchInv, TypeOK, UnbindRead
<1>4. CallOK' /\ FlagsNotTorn'
  BY <1>3 DEF SwitchInv, CallOK, FlagsNotTorn, UnbindRead, At, switch_ready, Bound, table
<1> QED
  BY <1>2, <1>4, MainMoves DEF UnbindRead

\* The slot is given back: its switch rests, and the copy is fresh.
LEMMA UnbindReleases == ASSUME SwitchInv, UnbindRelease PROVE SwitchInv'
<1> DEFINE i == main.slot
<1>1. /\ i \in Slot /\ ~flags[i].sampling /\ main.copy = flags[i] /\ flags[i] \in Flags
      /\ flags' = [flags EXCEPT ![i] = [main.copy EXCEPT !.used = FALSE]]
      /\ main' = Resting
      /\ UNCHANGED <<d_history, port, on_sampling, OCIE0A, DDR, PORT, closed, fresh>>
  BY DEF SwitchInv, TypeOK, CallOK, FlagsNotTorn, UnbindRelease, At, switch_ready, Bound, pins
<1> HIDE DEF i
<1>2. /\ flags' \in [Slot -> Flags] /\ ~flags'[i].sampling /\ ~flags'[i].used
      /\ \A j \in Slot \ {i} : flags'[j] = flags[j]
  BY <1>1 DEF SwitchInv, TypeOK, Flags
<1>3. Sampled' = Sampled /\ Bound' = Bound \ {i} /\ i \notin Sampled
  BY <1>1, <1>2 DEF Sampled, Bound
<1>4. Resting \in [pc : {"idle", "low", "stop", "release", "poll", "wait"}, slot : Slot,
                   wait : BOOLEAN, copy : Flags \cup {NONE}]
  BY TableAssumption DEF Resting, Slot
<1>5. TypeOK'
  BY <1>1, <1>2, <1>4 DEF SwitchInv, TypeOK
<1>6. TimerRunsForSampled'
  BY <1>1, <1>3 DEF SwitchInv, TimerRunsForSampled
<1>7. CallOK' /\ FlagsNotTorn' /\ PortsOK'
  BY <1>1, <1>3 DEF SwitchInv, CallOK, FlagsNotTorn, PortsOK, At, Resting
<1> QED
  BY <1>5, <1>6, <1>7 DEF SwitchInv

\* The test of a poll, outside the atomic block.
LEMMA PollTests ==
  ASSUME SwitchInv, NEW i \in Slot, NEW wait \in BOOLEAN, PollTest(i, wait)
  PROVE  SwitchInv'
<1>1. TypeOK'
  BY DEF SwitchInv, TypeOK, PollTest, table, pins
<1>2. /\ main'.pc = IF flags[i].sampling THEN "wait" ELSE "poll"
      /\ main'.slot = i /\ main'.copy = NONE
  BY DEF SwitchInv, TypeOK, CallOK, PollTest, At
<1>3. CallOK' /\ FlagsNotTorn'
  BY <1>2 DEF SwitchInv, CallOK, FlagsNotTorn, PollTest, At, switch_ready, Bound, table
<1> QED
  BY <1>1, <1>3, MainMoves DEF PollTest

\* The atomic block of a poll, for a switch that is still resting.
LEMMA PollStarts == ASSUME SwitchInv, PollStart PROVE SwitchInv'
<1> DEFINE i == main.slot
<1>1. /\ i \in Bound /\ i \in Slot /\ ~flags[i].sampling /\ main.copy = NONE
      /\ main'.pc \in {"wait", "idle"} /\ main'.copy = NONE
      /\ main'.pc = "wait" => main'.slot = i
      /\ main' \in [pc : {"idle", "low", "stop", "release", "poll", "wait"}, slot : Slot,
                    wait : BOOLEAN, copy : Flags \cup {NONE}]
  <2>1. 0 \in Slot
    BY TableAssumption DEF Slot
  <2> QED
    BY <2>1 DEF SwitchInv, TypeOK, CallOK, PollStart, PollEnd, Resting, At, Bound, switch_ready
<1>2. /\ flags' = [flags EXCEPT ![i].sampling = TRUE]
      /\ OCIE0A' = IF on_sampling = 0 THEN TRUE ELSE OCIE0A
      /\ on_sampling' = (on_sampling + 1) % 256
      /\ UNCHANGED <<d_history, port, DDR, PORT, closed, fresh>>
  BY DEF PollStart, pins
<1> HIDE DEF i
<1>3. flags \in [Slot -> Flags] /\ OCIE0A \in BOOLEAN
  BY DEF SwitchInv, TypeOK
<1>4. /\ flags' \in [Slot -> Flags] /\ flags'[i].sampling /\ flags'[i].used = flags[i].used
      /\ \A j \in Slot \ {i} : flags'[j] = flags[j]
  <2>1. i \in Slot /\ flags[i] \in Flags
    BY <1>1, <1>3
  <2>2. /\ [flags[i] EXCEPT !.sampling = TRUE] \in Flags
        /\ [flags[i] EXCEPT !.sampling = TRUE].sampling
        /\ [flags[i] EXCEPT !.sampling = TRUE].used = flags[i].used
    BY <2>1 DEF Flags
  <2>3. flags' = [flags EXCEPT ![i] = [flags[i] EXCEPT !.sampling = TRUE]]
    BY <1>2, <1>3, <2>1
  <2> QED
    BY <1>3, <2>1, <2>2, <2>3
<1>5. Sampled' = Sampled \cup {i} /\ Bound' = Bound /\ i \notin Sampled
  BY <1>1, <1>4 DEF Sampled, Bound
<1>6. on_sampling' = Cardinality(Sampled') /\ on_sampling' \in 0 .. MAX_SWITCH
  <2>1. on_sampling = Cardinality(Sampled)
    BY DEF SwitchInv, TimerRunsForSampled
  <2>2. Cardinality(Sampled') = Cardinality(Sampled) + 1
    BY <1>5, SampledFits, FS_AddElement
  <2>3. Sampled' \in SUBSET Slot
    BY DEF Sampled
  <2>4. Cardinality(Sampled') \in 0 .. MAX_SWITCH /\ Cardinality(Sampled) \in 0 .. MAX_SWITCH
    BY <2>3, SampledFits
  <2>5. (on_sampling + 1) % 256 = on_sampling + 1
    BY <2>1, <2>2, <2>4, TableAssumption
  <2> QED
    BY <1>2, <2>1, <2>2, <2>4, <2>5
<1>7. TimerRunsForSampled'
  <2>1. on_sampling = 0 <=> Sampled = {}
    BY SampledFits, FS_EmptySet DEF SwitchInv, TimerRunsForSampled
  <2>2. OCIE0A'
    BY <1>2, <2>1 DEF SwitchInv, TimerRunsForSampled
  <2> QED
    BY <1>1, <1>5, <1>6, <2>2 DEF SwitchInv, TimerRunsForSampled
<1>8. TypeOK'
  BY <1>1, <1>2, <1>3, <1>4, <1>6 DEF SwitchInv, TypeOK
<1>9. CallOK' /\ FlagsNotTorn' /\ PortsOK'
  BY <1>1, <1>2, <1>5 DEF SwitchInv, CallOK, FlagsNotTorn, PortsOK, At
<1> QED
  BY <1>7, <1>8, <1>9 DEF SwitchInv

LEMMA PollWaits == ASSUME SwitchInv, switch_poll_wait PROVE SwitchInv'
<1>1. 0 \in Slot
  BY TableAssumption DEF Slot
<1>2. TypeOK' /\ CallOK' /\ FlagsNotTorn'
  BY <1>1 DEF SwitchInv, TypeOK, CallOK, FlagsNotTorn, switch_poll_wait, Resting, At, table, pins
<1> QED
  BY <1>2, MainMoves DEF switch_poll_wait

\* The contacts.
LEMMA Moves == ASSUME SwitchInv, NEW p \in Pin, Move(p) PROVE SwitchInv'
<1>1. TypeOK'
  BY DEF SwitchInv, TypeOK, Move, table, pins
<1>2. Sampled' = Sampled /\ Bound' = Bound
  BY DEF Sampled, Bound, Move, table
<1> QED
  BY <1>1, <1>2 DEF SwitchInv, CallOK, PortsOK, TimerRunsForSampled, FlagsNotTorn, Move, At,
                    switch_ready, Bound, table, pins

LEMMA Unchanged == ASSUME SwitchInv, UNCHANGED vars PROVE SwitchInv'
<1>1. Sampled' = Sampled /\ Bound' = Bound
  BY DEF Sampled, Bound, vars, table
<1> QED
  BY <1>1 DEF SwitchInv, TypeOK, CallOK, PortsOK, TimerRunsForSampled, FlagsNotTorn, At,
              switch_ready, Bound, vars, table, pins

-----------------------------------------------------------------------------
(***************************************************************************)
(* Answers.                                                                *)
(***************************************************************************)
\* A step may only give new answers to switches that are sampled, new or
\* unbound.
OthersKept == \A i \in Bound : switch_ready(i) /\ flags'[i].used
                => /\ flags'[i].state = flags[i].state
                   /\ flags'[i].changed = flags[i].changed

\* A step that changes the bit sampling of one slot.
LEMMA OneBit ==
  ASSUME flags \in [Slot -> Flags], NEW j \in Slot, NEW b \in BOOLEAN,
         flags' = [flags EXCEPT ![j].sampling = b]
  PROVE  OthersKept
BY DEF OthersKept, Bound, Flags

LEMMA SameFlags == ASSUME UNCHANGED flags PROVE OthersKept
BY DEF OthersKept

LEMMA StepKeepsAnswers == ASSUME SwitchInv, [Next]_vars PROVE OthersKept
<1>0. flags \in [Slot -> Flags] /\ main.slot \in Slot
  BY DEF SwitchInv, TypeOK
<1>1. ASSUME NEW p \in Pin, switch_bind(p) PROVE OthersKept
  <2>1. PICK j \in Slot, new \in Flags : ~flags[j].used /\ flags' = [flags EXCEPT ![j] = new]
    <3>1. [used |-> TRUE, sampling |-> FALSE, state |-> FALSE, changed |-> FALSE] \in Flags
      BY DEF Flags
    <3> QED
      BY <1>1, <3>1, FreeSlot DEF switch_bind
  <2> QED
    BY <1>0, <2>1 DEF OthersKept, Bound
<1>2. CASE UnbindStop
  <2>1. flags' = [flags EXCEPT ![main.slot].sampling = FALSE] \/ UNCHANGED flags
    BY <1>2 DEF UnbindStop
  <2> QED
    BY <1>0, <2>1, OneBit, SameFlags
<1>3. CASE UnbindRelease
  <2>1. main.copy \in Flags
    BY <1>3 DEF SwitchInv, TypeOK, UnbindRelease
  <2>2. flags' = [flags EXCEPT ![main.slot] = [main.copy EXCEPT !.used = FALSE]]
    BY <1>3 DEF UnbindRelease
  <2>3. ~flags'[main.slot].used /\ \A i \in Slot \ {main.slot} : flags'[i] = flags[i]
    BY <1>0, <2>1, <2>2 DEF Flags
  <2> QED
    BY <2>3 DEF OthersKept, Bound
<1>4. CASE PollStart
  <2>1. flags' = [flags EXCEPT ![main.slot].sampling = TRUE]
    BY <1>4 DEF PollStart
  <2> QED
    BY <1>0, <2>1, OneBit
<1>5. CASE TIMER0_COMPA_vect
  <2>1. \A i \in Slot : ~flags[i].sampling => flags'[i] = flags[i]
    BY <1>5 DEF TIMER0_COMPA_vect, Sampled
  <2> QED
    BY <2>1 DEF OthersKept, Bound, switch_ready
<1>6. CASE UnbindOutput \/ UnbindLow \/ UnbindRead \/ switch_poll_wait \/ UNCHANGED vars
  <2>1. UNCHANGED flags
    BY <1>6 DEF UnbindOutput, UnbindLow, UnbindRead, switch_poll_wait, vars, table
  <2> QED
    BY <2>1, SameFlags
<1>7. CASE \/ \E i \in Slot, wait \in BOOLEAN : PollTest(i, wait)
           \/ \E p \in Pin : Move(p)
  <2>1. UNCHANGED flags
    BY <1>7 DEF PollTest, Move, table
  <2> QED
    BY <2>1, SameFlags
<1> QED
  BY <1>1, <1>2, <1>3, <1>4, <1>5, <1>6, <1>7 DEF Next, MainStep, switch_unbind

-----------------------------------------------------------------------------
(***************************************************************************)
(* The invariant of the table, the timer and main together: switch.c.      *)
(***************************************************************************)
THEOREM SwitchInvariance == Spec => []SwitchInv
<1>1. SwitchInv /\ [Next]_vars => SwitchInv'
  <2> SUFFICES ASSUME SwitchInv, [Next]_vars PROVE SwitchInv'
    OBVIOUS
  <2>1. CASE \E p \in Pin : switch_bind(p) \/ Move(p)
    BY <2>1, BindStep, Moves
  <2>2. CASE UnbindOutput
    BY <2>2, UnbindBegins
  <2>3. CASE \E i \in Slot, wait \in BOOLEAN : PollTest(i, wait)
    BY <2>3, PollTests
  <2>4. CASE switch_unbind
    BY <2>4, UnbindGoesLow, UnbindStops, UnbindReads, UnbindReleases DEF switch_unbind
  <2>5. CASE PollStart
    BY <2>5, PollStarts
  <2>6. CASE switch_poll_wait
    BY <2>6, PollWaits
  <2>7. CASE TIMER0_COMPA_vect
    BY <2>7, Interrupt
  <2>8. CASE UNCHANGED vars
    BY <2>8, Unchanged
  <2> QED
    BY <2>1, <2>2, <2>3, <2>4, <2>5, <2>6, <2>7, <2>8 DEF Next, MainStep
<1> QED
  BY <1>1, Initially, PTL DEF Spec

(***************************************************************************)
(* Type correctness of the switches.                                       *)
(***************************************************************************)
THEOREM TypeCorrect == Spec => []TypeOK
<1>1. SwitchInv => TypeOK
  BY DEF SwitchInv
<1> QED
  BY <1>1, SwitchInvariance, PTL

(***************************************************************************)
(* The count that main and the interrupt share is right, and TIMER0 runs   *)
(* exactly while a switch is sampled, for every size of the table.         *)
(***************************************************************************)
THEOREM TimerRuns == Spec => []TimerRunsForSampled
<1>1. SwitchInv => TimerRunsForSampled
  BY DEF SwitchInv
<1> QED
  BY <1>1, SwitchInvariance, PTL

(***************************************************************************)
(* The interrupt writes nothing into the byte of flags that switch_unbind  *)
(* is changing outside an atomic block.                                    *)
(***************************************************************************)
THEOREM NeverTorn == Spec => []FlagsNotTorn
<1>1. SwitchInv => FlagsNotTorn
  BY DEF SwitchInv
<1> QED
  BY <1>1, SwitchInvariance, PTL

(***************************************************************************)
(* No sampling of other switches and no call for them disturbs an answer   *)
(* that its user has not fetched yet.                                      *)
(***************************************************************************)
THEOREM AnswerKept == Spec => AnswerIsKept
<1>1. SwitchInv /\ [Next]_vars => [OthersKept]_vars
  BY StepKeepsAnswers
<1> QED
  BY <1>1, SwitchInvariance, PTL DEF Spec, AnswerIsKept, OthersKept

-----------------------------------------------------------------------------
(***************************************************************************)
(* Edges.  A slot that is bound for the first time begins with a history   *)
(* of zeros, as all memory, and a state that is low: an edge needs a full  *)
(* window of ones.                                                         *)
(***************************************************************************)
\* The histories that n samples can have made of zeros are below this.
Reach(n) == 2 ^ n

FirstBound == \A i \in Slot : /\ d_history[i] < Reach(fresh[i])
                              /\ ~flags[i].used => d_history[i] = 0
                              /\ flags[i].state \/ flags[i].changed => fresh[i] = WINDOW

NoUnbind == main.pc \in {"idle", "poll", "wait"}

LEMMA ReachGrows ==
  /\ Reach(0) = 1
  /\ \A n \in 0 .. 8 : Reach(n) \in Nat \ {0}
  /\ \A n \in 0 .. 7 : Reach(n + 1) = 2 * Reach(n)
  /\ \A m, n \in 0 .. 8 : m < n => Reach(m) < Reach(n)
<1>1. /\ Reach(0) = 1 /\ Reach(1) = 2 /\ Reach(2) = 4 /\ Reach(3) = 8 /\ Reach(4) = 16
  BY DEF Reach
<1>2. /\ Reach(5) = 32 /\ Reach(6) = 64 /\ Reach(7) = 128 /\ Reach(8) = 256
  BY DEF Reach
<1>3. \A n \in 0 .. 8 : n = 0 \/ n = 1 \/ n = 2 \/ n = 3 \/ n = 4 \/ n = 5 \/ n = 6 \/ n = 7 \/ n = 8
  OBVIOUS
<1>4. \A n \in 0 .. 7 : n = 0 \/ n = 1 \/ n = 2 \/ n = 3 \/ n = 4 \/ n = 5 \/ n = 6 \/ n = 7
  OBVIOUS
<1>5. \A n \in 0 .. 8 : Reach(n) \in Nat \ {0}
  BY <1>1, <1>2, <1>3
<1>6. \A n \in 0 .. 7 : Reach(n + 1) = 2 * Reach(n)
  BY <1>1, <1>2, <1>4
<1>7. \A m, n \in 0 .. 8 : m < n => Reach(m) < Reach(n)
  BY <1>1, <1>2, <1>3
<1> QED
  BY <1>1, <1>5, <1>6, <1>7

\* One more sample: the next history is within reach, and only a full window
\* of ones is high.
LEMMA SampleReach ==
  ASSUME SwitchInv, NEW i \in Slot, d_history[i] < Reach(fresh[i]),
         NEW next, next = (IF fresh[i] < WINDOW THEN fresh[i] + 1 ELSE fresh[i])
  PROVE  /\ next \in 0 .. WINDOW /\ (fresh[i] = WINDOW => next = WINDOW)
         /\ Shift(i) < Reach(next)
         /\ Shift(i) = AllHigh => next = WINDOW
<1>1. WINDOW \in 1 .. 8 /\ fresh[i] \in 0 .. WINDOW
  BY WindowAssumption DEF SwitchInv, TypeOK
<1>2. next \in 0 .. WINDOW /\ (fresh[i] = WINDOW => next = WINDOW)
  BY <1>1
<1>3. AllHigh + 1 = Reach(WINDOW)
  <2>1. PICK h : h = 2 ^ WINDOW
    OBVIOUS
  <2>2. h \in Nat /\ AllHigh = h - 1
    <3>1. Reach(WINDOW) \in Nat
      BY <1>1, ReachGrows
    <3> QED
      BY <2>1, <3>1, Zenon DEF Reach, AllHigh
  <2>3. Reach(WINDOW) = h
    BY <2>1, Zenon DEF Reach
  <2> QED
    BY <2>2, <2>3
<1>4. d_history[i] \in Nat /\ Reach(WINDOW) \in Nat \ {0} /\ Reach(next) \in Nat \ {0}
  <2>1. d_history[i] \in Nat
    BY HistoryIsRange DEF SwitchInv, TypeOK, History
  <2>2. next \in 0 .. 8 /\ WINDOW \in 0 .. 8
    BY <1>1, <1>2
  <2> QED
    BY <2>1, <2>2, ReachGrows
<1>5. PICK bit \in {0, 1} : Shift(i) = (2 * d_history[i] + bit) % Reach(WINDOW)
  BY <1>3 DEF Shift
<1>6. Shift(i) \in Nat /\ Shift(i) < Reach(WINDOW) /\ Shift(i) <= 2 * d_history[i] + bit
  BY <1>4, <1>5
<1>7. Shift(i) < Reach(next)
  <2>1. CASE next = WINDOW
    BY <1>6, <2>1
  <2>2. CASE next # WINDOW
    <3>1. next = fresh[i] + 1 /\ fresh[i] \in 0 .. 7
      BY <1>1, <2>2
    <3>2. Reach(next) = 2 * Reach(fresh[i]) /\ Reach(fresh[i]) \in Nat
      <4>1. fresh[i] \in 0 .. 8
        BY <3>1
      <4> QED
        BY <3>1, <4>1, ReachGrows
    <3> QED
      BY <1>4, <1>6, <3>2
  <2> QED
    BY <2>1, <2>2
<1>8. ASSUME Shift(i) = AllHigh
      PROVE  next = WINDOW
  <2>1. Reach(WINDOW) <= Reach(next)
    BY <1>3, <1>4, <1>6, <1>7, <1>8
  <2>2. next < WINDOW => Reach(next) < Reach(WINDOW)
    BY <1>1, <1>2, ReachGrows
  <2> QED
    BY <1>1, <1>2, <1>4, <2>1, <2>2
<1> QED
  BY <1>2, <1>7, <1>8

\* A step that neither samples nor binds.
LEMMA FirstStays ==
  ASSUME FirstBound, UNCHANGED <<d_history, fresh>>,
         \A i \in Slot : /\ flags'[i].used = flags[i].used
                         /\ flags'[i].state = flags[i].state
                         /\ flags'[i].changed = flags[i].changed
  PROVE  FirstBound'
  BY DEF FirstBound

LEMMA FirstSamples == ASSUME SwitchInv, FirstBound, TIMER0_COMPA_vect PROVE FirstBound'
<1> DEFINE Done == {i \in Sampled : Stable(i)}
<1>1. /\ d_history' = [i \in Slot |-> IF i \in Sampled THEN Shift(i) ELSE d_history[i]]
      /\ flags' = [i \in Slot |-> IF i \in Done THEN Answer(i) ELSE flags[i]]
      /\ fresh' = [i \in Slot |-> IF i \in Sampled /\ fresh[i] < WINDOW THEN fresh[i] + 1
                                                                       ELSE fresh[i]]
  BY DEF TIMER0_COMPA_vect
<1>2. flags \in [Slot -> Flags] /\ Done \subseteq Sampled /\ Sampled \subseteq Bound
  BY DEF SwitchInv, TypeOK, TimerRunsForSampled
<1> HIDE DEF Done
<1>3. ASSUME NEW i \in Slot, i \notin Sampled
      PROVE  /\ d_history'[i] < Reach(fresh'[i])
             /\ ~flags'[i].used => d_history'[i] = 0
             /\ flags'[i].state \/ flags'[i].changed => fresh'[i] = WINDOW
  <2>1. d_history'[i] = d_history[i] /\ flags'[i] = flags[i] /\ fresh'[i] = fresh[i]
    BY <1>1, <1>2, <1>3
  <2> QED
    BY <2>1 DEF FirstBound
<1>4. ASSUME NEW i \in Slot, i \in Sampled
      PROVE  /\ d_history'[i] < Reach(fresh'[i])
             /\ ~flags'[i].used => d_history'[i] = 0
             /\ flags'[i].state \/ flags'[i].changed => fresh'[i] = WINDOW
  <2>1. /\ d_history'[i] = Shift(i)
        /\ fresh'[i] = IF fresh[i] < WINDOW THEN fresh[i] + 1 ELSE fresh[i]
        /\ flags'[i] = IF i \in Done THEN Answer(i) ELSE flags[i]
    BY <1>1, <1>4
  <2>2. /\ d_history[i] < Reach(fresh[i])
        /\ flags[i].state \/ flags[i].changed => fresh[i] = WINDOW
    BY DEF FirstBound
  <2>3. /\ fresh[i] = WINDOW => fresh'[i] = WINDOW
        /\ Shift(i) < Reach(fresh'[i])
        /\ Shift(i) = AllHigh => fresh'[i] = WINDOW
    BY <2>1, <2>2, SampleReach
  <2>4. flags[i] \in Flags /\ flags[i].used
    BY <1>2, <1>4 DEF Bound
  <2>5. /\ Answer(i).used = flags[i].used
        /\ Answer(i).state = (Shift(i) = AllHigh)
        /\ Answer(i).changed = (flags[i].state # (Shift(i) = AllHigh))
    BY <2>4 DEF Answer, Flags
  <2>6. flags'[i].used
    BY <2>1, <2>4, <2>5
  <2>7. flags'[i].state \/ flags'[i].changed => fresh'[i] = WINDOW
    <3>1. CASE i \in Done
      <4>1. flags'[i].state => Shift(i) = AllHigh
        BY <2>1, <2>5, <3>1
      <4>2. flags'[i].changed => Shift(i) = AllHigh \/ flags[i].state
        BY <2>1, <2>4, <2>5, <3>1 DEF Flags
      <4> QED
        BY <2>2, <2>3, <4>1, <4>2
    <3>2. CASE i \notin Done
      BY <2>1, <2>2, <2>3, <3>2
    <3> QED
      BY <3>1, <3>2
  <2> QED
    BY <2>1, <2>3, <2>6, <2>7
<1> QED
  BY <1>3, <1>4 DEF FirstBound

LEMMA FirstBinds == ASSUME SwitchInv, FirstBound, NEW p \in Pin, switch_bind(p) PROVE FirstBound'
<1> DEFINE j == get_free_slot
           new == [used |-> TRUE, sampling |-> FALSE, state |-> FALSE, changed |-> FALSE]
<1>1. j \in Slot /\ ~flags[j].used
  BY FreeSlot DEF switch_bind
<1>2. /\ flags' = [flags EXCEPT ![j] = new] /\ fresh' = [fresh EXCEPT ![j] = 0]
      /\ UNCHANGED d_history
  BY DEF switch_bind
<1>3. flags \in [Slot -> Flags] /\ fresh \in [Slot -> 0 .. WINDOW]
  BY DEF SwitchInv, TypeOK
<1>4. new.used /\ ~new.state /\ ~new.changed
  OBVIOUS
<1> HIDE DEF j, new
<1>5. ASSUME NEW i \in Slot, i = j
      PROVE  /\ d_history'[i] < Reach(fresh'[i])
             /\ flags'[i].used /\ ~flags'[i].state /\ ~flags'[i].changed
  <2>1. d_history[i] = 0
    BY <1>1, <1>5 DEF FirstBound
  <2>2. fresh'[i] = 0 /\ flags'[i] = new /\ d_history'[i] = 0
    BY <1>2, <1>3, <1>5, <2>1
  <2> QED
    BY <1>4, <2>2, ReachGrows
<1>6. ASSUME NEW i \in Slot, i # j
      PROVE  fresh'[i] = fresh[i] /\ flags'[i] = flags[i] /\ d_history'[i] = d_history[i]
  BY <1>2, <1>3, <1>6
<1> QED
  BY <1>5, <1>6 DEF FirstBound

\* One step for each action that is left when main unbinds no switch.
LEMMA NextFirstBound ==
  ASSUME SwitchInv, NoUnbind, FirstBound, [Next]_vars, ~UnbindOutput \/ UNCHANGED vars
  PROVE  NoUnbind' /\ FirstBound'
<1>1. CASE UNCHANGED vars
  BY <1>1 DEF NoUnbind, FirstBound, vars, table
<1>2. ASSUME NEW p \in Pin, switch_bind(p)
      PROVE  NoUnbind' /\ FirstBound'
  BY <1>2, FirstBinds DEF switch_bind, NoUnbind
<1>3. ASSUME NEW p \in Pin, Move(p)
      PROVE  NoUnbind' /\ FirstBound'
  BY <1>3 DEF Move, NoUnbind, FirstBound, table
<1>4. ASSUME NEW i \in Slot, NEW wait \in BOOLEAN, PollTest(i, wait)
      PROVE  NoUnbind' /\ FirstBound'
  <2>1. main'.pc \in {"wait", "poll"}
    BY <1>4 DEF PollTest, SwitchInv, TypeOK
  <2> QED
    BY <1>4, <2>1 DEF PollTest, NoUnbind, FirstBound, table
<1>5. CASE PollStart
  <2>1. main'.pc \in {"wait", "idle"}
    BY <1>5 DEF PollStart, PollEnd, Resting, SwitchInv, TypeOK
  <2>2. flags' = [flags EXCEPT ![main.slot].sampling = TRUE] /\ UNCHANGED <<d_history, fresh>>
    BY <1>5 DEF PollStart
  <2>3. flags \in [Slot -> Flags]
    BY DEF SwitchInv, TypeOK
  <2>4. \A i \in Slot : /\ flags'[i].used = flags[i].used
                        /\ flags'[i].state = flags[i].state
                        /\ flags'[i].changed = flags[i].changed
    BY <2>2, <2>3 DEF Flags
  <2> QED
    BY <2>1, <2>2, <2>4, FirstStays DEF NoUnbind
<1>6. CASE switch_poll_wait
  BY <1>6 DEF switch_poll_wait, Resting, NoUnbind, FirstBound, table
<1>7. CASE TIMER0_COMPA_vect
  BY <1>7, FirstSamples DEF TIMER0_COMPA_vect, NoUnbind
<1>8. ~switch_unbind
  BY DEF switch_unbind, UnbindLow, UnbindStop, UnbindRead, UnbindRelease, At, NoUnbind
<1> QED
  BY <1>1, <1>2, <1>3, <1>4, <1>5, <1>6, <1>7, <1>8 DEF Next, MainStep

(***************************************************************************)
(* switch.c: in a program that unbinds no switch, so that no slot is used  *)
(* again, edges are debounced: none is told before WINDOW samples of its   *)
(* switch.                                                                 *)
(***************************************************************************)
THEOREM FirstBindingIsDebounced == Spec /\ [][~UnbindOutput]_vars => []EdgeIsDebounced
<1>1. Init => NoUnbind /\ FirstBound
  <2>1. 0 < Reach(0)
    BY ReachGrows
  <2> QED
    BY <2>1 DEF Init, NoUnbind, FirstBound, Resting
<1>2. SwitchInv /\ NoUnbind /\ FirstBound /\ [Next]_vars /\ [~UnbindOutput]_vars
        => NoUnbind' /\ FirstBound'
  <2>1. [~UnbindOutput]_vars => ~UnbindOutput \/ UNCHANGED vars
    OBVIOUS
  <2> QED
    BY <2>1, NextFirstBound
<1>3. FirstBound => EdgeIsDebounced
  BY DEF FirstBound, EdgeIsDebounced, Bound
<1> QED
  BY <1>1, <1>2, <1>3, SwitchInvariance, PTL DEF Spec
=============================================================================
