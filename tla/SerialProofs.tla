---------------------------- MODULE SerialProofs -----------------------------
(***************************************************************************)
(* The safety of the serial port for every length of its queues, every     *)
(* text and every build.                                                   *)
(*                                                                         *)
(* A copy of UCSR0B may be written back because the only bit that an       *)
(* interrupt changes is UDRIE, and whenever main changes another bit there *)
(* is nothing to send and UDRIE is clear already.  So the register, the    *)
(* queue to send and where main is must be followed together.              *)
(***************************************************************************)
EXTENDS SerialProps, SequenceTheorems, TLAPS

\* The labels of main at which the transmitter is not in use.
Quiet == {"closed", "rxen_on", "rxcie_on", "txen_on", "txen_off", "rxcie_off", "rxen_off"}

BitLabel == (Quiet \ {"closed"}) \cup {"enable"}

Bit == {"RXCIE", "UDRIE", "RXEN", "TXEN"}

Character == Seq(Byte) \ {<<>>}

\* The queues, the USART and what main still has to write.
DataOK == /\ inq \in Ring!QueueOf(Byte) /\ outq \in Ring!QueueOf(Byte)
          /\ txbuf \in OneByte /\ txshift \in OneByte
          /\ rxbuf \in Seq(Byte) /\ Len(rxbuf) <= 2
          /\ wire \in Byte \cup {NONE} /\ answer \in Byte \cup {NONE}
          /\ main.todo \in Seq(Character) /\ main.r \in Byte \cup {NONE}
          /\ main.pc = "dequeue" => main.r \in Byte
          /\ main.pc \in {"write", "enqueue"} => main.todo # <<>>

MainOK == /\ has \in Build
          /\ main \in [pc : Quiet \cup {"idle", "write", "enqueue", "enable", "read", "front",
                                        "dequeue", "closing"},
                       todo : Seq(Seq(Byte)), r : Byte \cup {NONE}, copy : Control \cup {NONE}]
          /\ main.pc \in {"write", "enqueue", "enable", "closing", "txen_on", "txen_off"}
               => "TX" \in has

\* A copy differs from the register at most in the bit that main writes.
CopyFresh == main.copy # NONE => /\ main.pc \in BitLabel
                                 /\ \A b \in Bit \ {OwnBit} : main.copy[b] = UCSR0B[b]

\* The transmitter is on while it may be in use, and at rest otherwise.
LineOK == IF main.pc \in Quiet \/ "TX" \notin has
          THEN queue_is_empty(outq) /\ ~UCSR0B.UDRIE
          ELSE UCSR0B.TXEN

RegisterOK == UCSR0B \in Control /\ CopyFresh /\ LineOK

SerialInv == DataOK /\ MainOK /\ RegisterOK /\ ChecksStayValid /\ SenderAwake

-----------------------------------------------------------------------------
\* What the operations on a queue do to its type, to empty and to full.
LEMMA QueueFacts ==
  ASSUME NEW q \in Ring!QueueOf(Byte), NEW v \in Byte
  PROVE  /\ queue_front(q) \in Byte
         /\ queue_enqueue(q, v) \in Ring!QueueOf(Byte)
         /\ queue_dequeue(q) \in Ring!QueueOf(Byte)
         /\ ~queue_is_full(q) => ~queue_is_empty(queue_enqueue(q, v))
         /\ ~queue_is_full(q) => ~queue_is_full(queue_dequeue(q))
<1>1. /\ q.front \in Int /\ 0 <= q.front /\ q.front < QL /\ q.front \in Ring!Cell
      /\ q.rear \in Int /\ 0 <= q.rear /\ q.rear < QL /\ q.rear \in Ring!Cell
      /\ q.t \in [Ring!Cell -> Byte] /\ QL \in Int /\ 2 <= QL
  BY QLAssumption DEF Ring!QueueOf, Ring!Cell
<1>2. Ring!inc(q.front) \in Ring!Cell /\ Ring!inc(q.rear) \in Ring!Cell
  BY <1>1 DEF Ring!inc, Ring!Cell
<1>3. Ring!inc(q.front) = Ring!inc(q.rear) => q.front = q.rear
  BY <1>1 DEF Ring!inc
<1>4. queue_front(q) \in Byte
  BY <1>1 DEF queue_front, Ring!i2cq_front
<1>5. queue_enqueue(q, v) \in Ring!QueueOf(Byte)
  BY <1>1, <1>2 DEF queue_enqueue, Ring!i2cq_enqueue, Ring!QueueOf
<1>6. queue_dequeue(q) \in Ring!QueueOf(Byte)
  BY <1>1, <1>2 DEF queue_dequeue, Ring!i2cq_dequeue, Ring!QueueOf
<1>7. ~queue_is_full(q) => ~queue_is_empty(queue_enqueue(q, v))
  BY DEF queue_enqueue, Ring!i2cq_enqueue, queue_is_full, Ring!i2cq_is_full, queue_is_empty,
         Ring!i2cq_is_empty, Ring!QueueOf
<1>8. ~queue_is_full(q) => ~queue_is_full(queue_dequeue(q))
  BY <1>3 DEF queue_dequeue, Ring!i2cq_dequeue, queue_is_full, Ring!i2cq_is_full,
         Ring!i2cq_is_empty, Ring!QueueOf
<1> QED
  BY <1>4, <1>5, <1>6, <1>7, <1>8

\* The state that serial_setup leaves.
LEMMA Initially == Init => SerialInv
<1> SUFFICES ASSUME Init PROVE SerialInv
  OBVIOUS
<1>1. /\ inq \in Ring!QueueOf(Byte) /\ outq \in Ring!QueueOf(Byte)
      /\ queue_is_empty(outq)
  <2>1. PICK v \in Byte : inq = queue_empty(Ring!ZeroedQueue(v)) /\ outq = inq
    BY ByteAssumption DEF Init
  <2>2. Ring!ZeroedQueue(v) \in Ring!QueueOf(Byte) /\ 0 \in Ring!Cell
    BY QLAssumption DEF Ring!ZeroedQueue, Ring!QueueOf, Ring!Cell
  <2> QED
    BY <2>1, <2>2 DEF queue_empty, Ring!i2cq_empty, Ring!QueueOf, queue_is_empty,
                      Ring!i2cq_is_empty
<1>2. DataOK
  BY <1>1 DEF Init, DataOK, OneByte
<1>3. MainOK /\ UCSR0B \in Control
  BY DEF Init, MainOK, Control, Quiet
<1>4. CopyFresh /\ LineOK
  BY <1>1 DEF Init, CopyFresh, LineOK, Quiet
<1> QED
  BY <1>1, <1>2, <1>3, <1>4 DEF SerialInv, RegisterOK, Init, ChecksStayValid, SenderAwake, At

-----------------------------------------------------------------------------
(***************************************************************************)
(* The interrupts, which come anywhere in a call of main.                  *)
(***************************************************************************)
LEMMA RxInterrupt == ASSUME SerialInv, USART_RX_vect PROVE SerialInv'
<1>1. Head(rxbuf) \in Byte /\ Tail(rxbuf) \in Seq(Byte) /\ Len(Tail(rxbuf)) <= 2
  BY DEF SerialInv, DataOK, USART_RX_vect
<1>2. inq' \in Ring!QueueOf(Byte) /\ (~queue_is_empty(inq) => ~queue_is_empty(inq'))
  BY <1>1, QueueFacts DEF SerialInv, DataOK, USART_RX_vect
<1>3. DataOK'
  BY <1>1, <1>2 DEF SerialInv, DataOK, USART_RX_vect
<1>4. MainOK' /\ RegisterOK' /\ SenderAwake'
  BY DEF SerialInv, USART_RX_vect, MainOK, RegisterOK, CopyFresh, LineOK, SenderAwake, OwnBit, At
<1>5. ChecksStayValid'
  BY <1>2 DEF SerialInv, USART_RX_vect, ChecksStayValid, At
<1> QED
  BY <1>3, <1>4, <1>5 DEF SerialInv

\* The interrupt is enabled only while the line is in use, when no step of
\* main but the one that enables it has a copy of the register.
LEMMA UdreInterrupt == ASSUME SerialInv, USART_UDRE_vect PROVE SerialInv'
<1>1. /\ outq' \in Ring!QueueOf(Byte) /\ txbuf' \in OneByte
      /\ ~queue_is_full(outq) => ~queue_is_full(outq')
  BY QueueFacts, ByteAssumption DEF SerialInv, DataOK, USART_UDRE_vect, OneByte
<1>2. DataOK'
  BY <1>1 DEF SerialInv, DataOK, USART_UDRE_vect
<1>3. MainOK'
  BY DEF SerialInv, USART_UDRE_vect, MainOK
<1>4. ~(main.pc \in Quiet \/ "TX" \notin has) /\ UCSR0B.TXEN
  BY DEF SerialInv, RegisterOK, LineOK, USART_UDRE_vect
<1>5. UCSR0B' \in Control /\ \A b \in Bit \ {"UDRIE"} : UCSR0B'[b] = UCSR0B[b]
  BY DEF SerialInv, RegisterOK, USART_UDRE_vect, Control, Bit
<1>6. CopyFresh'
  BY <1>4, <1>5 DEF SerialInv, RegisterOK, USART_UDRE_vect, CopyFresh, OwnBit, At, BitLabel
<1>7. LineOK'
  BY <1>4, <1>5 DEF USART_UDRE_vect, LineOK, Bit
<1>8. ChecksStayValid'
  BY <1>1 DEF SerialInv, USART_UDRE_vect, ChecksStayValid, At
<1>9. SenderAwake'
  BY DEF SerialInv, RegisterOK, Control, USART_UDRE_vect, SenderAwake, At
<1> QED
  BY <1>2, <1>3, <1>5, <1>6, <1>7, <1>8, <1>9 DEF SerialInv, RegisterOK

\* The USART, which touches neither the queues nor the register.
LEMMA Line ==
  ASSUME SerialInv, TxLoad \/ TxDone \/ (\E b \in Byte : RxByte(b))
  PROVE  SerialInv'
<1>1. /\ UNCHANGED <<has, inq, outq, UCSR0B, main, answer>>
      /\ txbuf' \in OneByte /\ txshift' \in OneByte
      /\ rxbuf' \in Seq(Byte) /\ Len(rxbuf') <= 2 /\ wire' \in Byte \cup {NONE}
  <2>1. CASE TxLoad
    BY <2>1 DEF TxLoad, SerialInv, DataOK, OneByte
  <2>2. CASE TxDone
    BY <2>2 DEF TxDone, SerialInv, DataOK, OneByte
  <2>3. ASSUME NEW b \in Byte, RxByte(b)
        PROVE  /\ UNCHANGED <<has, inq, outq, UCSR0B, main, answer>>
               /\ txbuf' \in OneByte /\ txshift' \in OneByte
               /\ rxbuf' \in Seq(Byte) /\ Len(rxbuf') <= 2 /\ wire' \in Byte \cup {NONE}
    BY <2>3 DEF RxByte, SerialInv, DataOK
  <2> QED
    BY <2>1, <2>2, <2>3
<1>2. DataOK' /\ MainOK'
  BY <1>1 DEF SerialInv, DataOK, MainOK
<1>3. RegisterOK' /\ ChecksStayValid' /\ SenderAwake'
  BY <1>1 DEF SerialInv, RegisterOK, CopyFresh, LineOK, OwnBit, At, ChecksStayValid, SenderAwake
<1> QED
  BY <1>2, <1>3 DEF SerialInv

-----------------------------------------------------------------------------
(***************************************************************************)
(* Main.  Reading the register makes a fresh copy; the step that writes it *)
(* finds it fresh but for the bit it sets or clears.                       *)
(***************************************************************************)
LEMMA ReadStep ==
  ASSUME SerialInv, NEW p \in BitLabel, ReadControl(p)
  PROVE  SerialInv'
<1>1. /\ main' = [main EXCEPT !.copy = UCSR0B] /\ main.pc = p /\ main'.pc = p
      /\ main'.todo = main.todo /\ main'.r = main.r /\ main'.copy = UCSR0B
      /\ UNCHANGED <<has, inq, outq, UCSR0B, txbuf, txshift, rxbuf, wire, answer>>
  BY DEF ReadControl, At, usart, SerialInv, MainOK
<1>2. DataOK'
  BY <1>1 DEF SerialInv, DataOK
<1>3. MainOK'
  BY <1>1 DEF SerialInv, MainOK, RegisterOK
<1>4. RegisterOK' /\ ChecksStayValid' /\ SenderAwake'
  BY <1>1 DEF SerialInv, RegisterOK, CopyFresh, LineOK, OwnBit, At, ChecksStayValid, SenderAwake,
              queue_is_empty, queue_is_full
<1> QED
  BY <1>2, <1>3, <1>4 DEF SerialInv

\* Where a step that writes the register leads to.
LEMMA WriteStep ==
  ASSUME SerialInv, NEW p \in BitLabel, NEW on \in BOOLEAN, NEW next,
         WriteControl(p, OwnBit, on, next)
  PROVE  /\ main' = [main EXCEPT !.copy = NONE, !.pc = next] /\ main.pc = p
         /\ main'.pc = next /\ main'.copy = NONE /\ main'.todo = main.todo /\ main'.r = main.r
         /\ UCSR0B' = [UCSR0B EXCEPT ![OwnBit] = on] /\ UCSR0B' \in Control
         /\ UNCHANGED <<has, inq, outq, txbuf, txshift, rxbuf, wire, answer>>
<1>1. /\ main.pc = p /\ main.copy # NONE /\ UCSR0B' = [main.copy EXCEPT ![OwnBit] = on]
      /\ main' = [main EXCEPT !.copy = NONE, !.pc = next]
      /\ UNCHANGED <<has, inq, outq, txbuf, txshift, rxbuf, wire, answer>>
  BY DEF WriteControl, At, usart
<1>2. /\ main.copy \in Control /\ UCSR0B \in Control /\ OwnBit \in Bit
      /\ \A b \in Bit \ {OwnBit} : main.copy[b] = UCSR0B[b]
  BY <1>1 DEF SerialInv, MainOK, RegisterOK, CopyFresh, OwnBit, Bit
<1>3. UCSR0B' = [UCSR0B EXCEPT ![OwnBit] = on] /\ UCSR0B' \in Control
  BY <1>1, <1>2 DEF Control, Bit
<1> QED
  BY <1>1, <1>3 DEF SerialInv, MainOK

\* While the transmitter is at rest: a bit other than UDRIE.
LEMMA QuietWrite ==
  ASSUME SerialInv, NEW p \in Quiet \ {"closed"}, NEW on \in BOOLEAN,
         NEW next \in Quiet \cup {"idle"},
         WriteControl(p, OwnBit, on, next),
         next = "txen_on" => "TX" \in has, next # "txen_off",
         next = "idle" /\ "TX" \in has => p = "txen_on" /\ on
  PROVE  SerialInv'
<1>1. /\ main' = [main EXCEPT !.copy = NONE, !.pc = next] /\ main.pc = p
      /\ main'.pc = next /\ main'.copy = NONE /\ main'.todo = main.todo /\ main'.r = main.r
      /\ UCSR0B' = [UCSR0B EXCEPT ![OwnBit] = on] /\ UCSR0B' \in Control
      /\ UNCHANGED <<has, inq, outq, txbuf, txshift, rxbuf, wire, answer>>
  BY WriteStep DEF BitLabel
<1>2. /\ OwnBit \in {"RXEN", "RXCIE", "TXEN"} /\ (p = "txen_on" => OwnBit = "TXEN")
  BY <1>1 DEF OwnBit, At, Quiet
<1>3. DataOK'
  BY <1>1 DEF SerialInv, DataOK, Quiet
<1>4. MainOK'
  BY <1>1 DEF SerialInv, MainOK, Quiet
<1>5. LineOK'
  BY <1>1, <1>2 DEF SerialInv, RegisterOK, LineOK, Control, queue_is_empty
<1>6. RegisterOK'
  BY <1>1, <1>5 DEF RegisterOK, CopyFresh
<1>7. ChecksStayValid' /\ SenderAwake'
  BY <1>1 DEF SerialInv, RegisterOK, LineOK, ChecksStayValid, SenderAwake, At, Quiet, queue_is_empty
<1> QED
  BY <1>3, <1>4, <1>6, <1>7 DEF SerialInv

\* Steps that leave the register alone, and have no copy of it.
LEMMA OtherStep ==
  ASSUME SerialInv, DataOK', MainOK', ChecksStayValid', SenderAwake',
         UNCHANGED <<has, UCSR0B>>, main'.copy = NONE,
         queue_is_empty(outq)' \/ ~(main.pc \in Quiet \/ "TX" \notin has),
         main'.pc \in Quiet => main.pc \in Quiet \/ (queue_is_empty(outq)' /\ ~UCSR0B.UDRIE),
         main.pc \in Quiet => main'.pc \in Quiet
  PROVE  SerialInv'
BY DEF SerialInv, RegisterOK, CopyFresh, LineOK

\* What is left of a text after its next byte.
LEMMA Writes ==
  ASSUME SerialInv, main.todo # <<>>
  PROVE  NextByte \in Byte /\ Left \in Seq(Character)
<1>1. Head(main.todo) \in Character /\ Tail(main.todo) \in Seq(Character)
  BY DEF SerialInv, DataOK
<1>2. PICK h : h = Head(main.todo)
  OBVIOUS
<1>3. h \in Seq(Byte) /\ h # <<>> /\ Len(h) \in Nat /\ Len(h) # 0
  BY <1>1, <1>2 DEF Character
<1>4. Head(h) \in Byte
  BY <1>3
<1>5. Len(h) # 1 => Tail(h) \in Seq(Byte) /\ Tail(h) # <<>>
  <2>1. Tail(h) \in Seq(Byte) /\ Len(Tail(h)) = Len(h) - 1
    BY <1>3
  <2>2. Tail(h) = <<>> => Len(Tail(h)) = 0
    OBVIOUS
  <2> QED
    BY <1>3, <2>1, <2>2
<1>6. Len(h) # 1 => <<Tail(h)>> \o Tail(main.todo) \in Seq(Character)
  <2>1. Len(h) # 1 => <<Tail(h)>> \in Seq(Character)
    BY <1>5 DEF Character
  <2> QED
    BY <2>1, <1>1
<1> QED
  BY <1>1, <1>2, <1>4, <1>6 DEF NextByte, Left

\* A text is a sequence of non-empty sequences of bytes.
LEMMA CharacterSeq == Seq(Character) \subseteq Seq(Seq(Byte))
BY DEF Character

\* A new operation, with something to write if it writes.
LEMMA Begins ==
  ASSUME SerialInv, NEW p, NEW todo \in Seq(Character), Begin(p, todo),
         \/ p = "read"
         \/ p = "write" /\ todo # <<>> /\ "TX" \in has
         \/ p = "closing" /\ "TX" \in has
         \/ p = "rxcie_off" /\ "TX" \notin has
  PROVE  SerialInv'
<1>1. /\ main.pc = "idle" /\ main' = [main EXCEPT !.pc = p, !.todo = todo]
      /\ main'.pc = p /\ main'.todo = todo /\ main'.r = main.r /\ main'.copy = main.copy
      /\ UNCHANGED <<has, inq, outq, UCSR0B, txbuf, txshift, rxbuf, wire, answer>>
  BY DEF Begin, At, usart, SerialInv, MainOK
<1>2. main.copy = NONE
  BY <1>1 DEF SerialInv, RegisterOK, CopyFresh, BitLabel, Quiet
<1>3. DataOK'
  BY <1>1 DEF SerialInv, DataOK
<1>4. MainOK'
  BY <1>1, CharacterSeq DEF SerialInv, MainOK, Quiet
<1>5. ChecksStayValid' /\ SenderAwake'
  BY <1>1 DEF SerialInv, ChecksStayValid, SenderAwake, At, queue_is_empty
<1>6. LineOK'
  BY <1>1 DEF SerialInv, RegisterOK, LineOK, Quiet, queue_is_empty
<1> QED
  BY <1>1, <1>2, <1>3, <1>4, <1>5, <1>6 DEF SerialInv, RegisterOK, CopyFresh

\* The steps of the calls of main, which keep the invariant.
LEMMA NewCall == ASSUME SerialInv, BeginRead \/ BeginWrite \/ BeginClose PROVE SerialInv'
<1>0. <<>> \in Seq(Character)
  OBVIOUS
<1>1. CASE BeginRead
  BY <1>0, <1>1, Begins DEF BeginRead
<1>2. CASE BeginClose
  <2>1. CASE "TX" \in has
    BY <1>0, <1>2, <2>1, Begins DEF BeginClose
  <2>2. CASE "TX" \notin has
    BY <1>0, <1>2, <2>2, Begins DEF BeginClose
  <2> QED
    BY <2>1, <2>2
<1>3. CASE BeginWrite
  <2>1. \A b \in Byte : <<<<b>>>> \in Seq(Character) /\ <<<<b>>>> # <<>>
    BY DEF Character
  <2>2. <<serial_eol>> \in Seq(Character) /\ <<serial_eol>> # <<>>
    BY ByteAssumption DEF Character, serial_eol
  <2>3. ASSUME NEW t \in Texts, t # <<>>
        PROVE  serial_write_s(t) \in Seq(Character) /\ serial_write_s(t) # <<>>
    <3>1. t \in Seq(Byte) /\ Len(t) \in Nat /\ Len(t) # 0 /\ DOMAIN t = 1 .. Len(t)
      BY <2>3, TextsAssumption
    <3>2. \A j \in 1 .. Len(t) : (IF t[j] = NL THEN serial_eol ELSE <<t[j]>>) \in Character
      BY <3>1, ByteAssumption DEF Character, serial_eol
    <3>3. serial_write_s(t) \in [1 .. Len(t) -> Character]
      BY <3>1, <3>2 DEF serial_write_s
    <3> QED
      BY <3>1, <3>3
  <2> QED
    BY <1>3, <2>1, <2>2, <2>3, Begins DEF BeginWrite
<1> QED
  BY <1>1, <1>2, <1>3

\* The wait for room, the byte into the queue, the interrupt enabled.
LEMMA WriteCall == ASSUME SerialInv, serial_write PROVE SerialInv'
<1>1. ASSUME At("write"), serial_can_write, GoTo("enqueue"),
             UNCHANGED <<has, inq, outq, UCSR0B, usart, answer>>
      PROVE  SerialInv'
  <2>1. /\ main' = [main EXCEPT !.pc = "enqueue"] /\ main.pc = "write" /\ main'.pc = "enqueue"
        /\ main'.todo = main.todo /\ main'.r = main.r /\ main'.copy = main.copy
        /\ ~queue_is_full(outq)
        /\ UNCHANGED <<has, inq, outq, UCSR0B, txbuf, txshift, rxbuf, wire, answer>>
    BY <1>1 DEF At, GoTo, usart, SerialInv, MainOK, serial_can_write
  <2>2. DataOK' /\ MainOK'
    BY <2>1 DEF SerialInv, DataOK, MainOK
  <2>3. main.copy = NONE /\ "TX" \in has
    BY <2>1 DEF SerialInv, MainOK, RegisterOK, CopyFresh, BitLabel, Quiet
  <2>4. ChecksStayValid' /\ SenderAwake'
    BY <2>1 DEF SerialInv, ChecksStayValid, SenderAwake, At, queue_is_full, queue_is_empty
  <2> QED
    BY <2>1, <2>2, <2>3, <2>4, OtherStep DEF Quiet
<1>2. ASSUME At("enqueue"), outq' = queue_enqueue(outq, NextByte),
             main' = [main EXCEPT !.todo = Left, !.pc = "enable"],
             UNCHANGED <<has, inq, UCSR0B, usart, answer>>
      PROVE  SerialInv'
  <2>1. /\ main.pc = "enqueue" /\ main'.pc = "enable" /\ main'.todo = Left /\ main'.r = main.r
        /\ main'.copy = main.copy
        /\ UNCHANGED <<has, inq, UCSR0B, txbuf, txshift, rxbuf, wire, answer>>
    BY <1>2 DEF At, usart, SerialInv, MainOK
  <2>2. NextByte \in Byte /\ Left \in Seq(Character) /\ outq' \in Ring!QueueOf(Byte)
    <3>1. main.todo # <<>> /\ outq \in Ring!QueueOf(Byte)
      BY <2>1 DEF SerialInv, DataOK
    <3>2. NextByte \in Byte /\ Left \in Seq(Character)
      BY <3>1, Writes
    <3> QED
      BY <1>2, <3>1, <3>2, QueueFacts
  <2>3. DataOK'
    BY <2>1, <2>2 DEF SerialInv, DataOK
  <2>4. MainOK' /\ main.copy = NONE /\ "TX" \in has
    BY <1>2, <2>1, <2>2, CharacterSeq
       DEF SerialInv, MainOK, RegisterOK, CopyFresh, BitLabel, Quiet
  <2>5. ChecksStayValid' /\ SenderAwake'
    BY <2>1 DEF ChecksStayValid, SenderAwake, At
  <2> QED
    BY <2>1, <2>3, <2>4, <2>5, OtherStep DEF Quiet
<1>3. ASSUME WriteControl("enable", "UDRIE", TRUE, AfterWrite(main.todo))
      PROVE  SerialInv'
  <2>1. OwnBit = "UDRIE"
    BY <1>3 DEF WriteControl, OwnBit, At
  <2>2. WriteControl("enable", OwnBit, TRUE, AfterWrite(main.todo)) /\ "enable" \in BitLabel
    BY <1>3, <2>1 DEF BitLabel
  <2>3. PICK next : next = AfterWrite(main.todo)
    OBVIOUS
  <2>4. /\ main' = [main EXCEPT !.copy = NONE, !.pc = next] /\ main.pc = "enable"
        /\ main'.pc = next /\ main'.copy = NONE /\ main'.todo = main.todo /\ main'.r = main.r
        /\ UCSR0B' = [UCSR0B EXCEPT !.UDRIE = TRUE] /\ UCSR0B' \in Control
        /\ UNCHANGED <<has, inq, outq, txbuf, txshift, rxbuf, wire, answer>>
    BY <2>1, <2>2, <2>3, WriteStep
  <2>5. next \in {"idle", "write"} /\ (next = "write" => main.todo # <<>>)
    BY <2>3 DEF AfterWrite
  <2>6. DataOK'
    BY <2>4, <2>5 DEF SerialInv, DataOK
  <2>7. MainOK' /\ "TX" \in has
    BY <2>4, <2>5 DEF SerialInv, MainOK
  <2>8. LineOK' /\ SenderAwake'
    BY <2>4, <2>5, <2>7 DEF SerialInv, RegisterOK, LineOK, SenderAwake, Control, Quiet
  <2>9. ChecksStayValid'
    BY <2>4, <2>5 DEF ChecksStayValid, At
  <2> QED
    BY <2>4, <2>6, <2>7, <2>8, <2>9 DEF SerialInv, RegisterOK, CopyFresh
<1> QED
  BY <1>1, <1>2, <1>3, ReadStep DEF serial_write, SetBit, BitLabel

\* The wait for a byte, and its way out of the queue.
LEMMA ReadCall == ASSUME SerialInv, serial_read PROVE SerialInv'
<1>0. main.pc \in {"read", "front", "dequeue"} => main.copy = NONE
  BY DEF SerialInv, RegisterOK, CopyFresh, BitLabel, Quiet
<1>1. ASSUME At("read"), serial_can_read, GoTo("front"),
             UNCHANGED <<has, inq, outq, UCSR0B, usart, answer>>
      PROVE  SerialInv'
  <2>1. /\ main' = [main EXCEPT !.pc = "front"] /\ main.pc = "read" /\ main'.pc = "front"
        /\ main'.todo = main.todo /\ main'.r = main.r /\ main'.copy = main.copy
        /\ ~queue_is_empty(inq)
        /\ UNCHANGED <<has, inq, outq, UCSR0B, txbuf, txshift, rxbuf, wire, answer>>
    BY <1>1 DEF At, GoTo, usart, SerialInv, MainOK, serial_can_read
  <2>2. DataOK' /\ MainOK'
    BY <2>1 DEF SerialInv, DataOK, MainOK
  <2>3. ChecksStayValid' /\ SenderAwake'
    BY <2>1 DEF SerialInv, ChecksStayValid, SenderAwake, At, queue_is_full, queue_is_empty
  <2> QED
    BY <1>0, <2>1, <2>2, <2>3 DEF SerialInv, RegisterOK, CopyFresh, LineOK, Quiet, queue_is_empty
<1>2. ASSUME At("front"), main' = [main EXCEPT !.pc = "dequeue", !.r = queue_front(inq)],
             UNCHANGED <<has, inq, outq, UCSR0B, usart, answer>>
      PROVE  SerialInv'
  <2>1. /\ main.pc = "front" /\ main'.pc = "dequeue"
        /\ main'.todo = main.todo /\ main'.r = queue_front(inq) /\ main'.copy = main.copy
        /\ UNCHANGED <<has, inq, outq, UCSR0B, txbuf, txshift, rxbuf, wire, answer>>
    BY <1>2 DEF At, usart, SerialInv, MainOK
  <2>2. queue_front(inq) \in Byte
    BY QueueFacts, ByteAssumption DEF SerialInv, DataOK
  <2>3. DataOK'
    BY <2>1, <2>2 DEF SerialInv, DataOK
  <2>4. MainOK'
    BY <1>2, <2>1, <2>2 DEF SerialInv, MainOK
  <2>5. ChecksStayValid' /\ SenderAwake'
    BY <2>1 DEF SerialInv, ChecksStayValid, SenderAwake, At, queue_is_full, queue_is_empty
  <2> QED
    BY <1>0, <2>1, <2>3, <2>4, <2>5
       DEF SerialInv, RegisterOK, CopyFresh, LineOK, Quiet, queue_is_empty
<1>3. ASSUME At("dequeue"), inq' = queue_dequeue(inq), answer' = main.r,
             main' = [main EXCEPT !.pc = "idle", !.r = NONE],
             UNCHANGED <<has, outq, UCSR0B, usart>>
      PROVE  SerialInv'
  <2>1. /\ main.pc = "dequeue" /\ main'.pc = "idle"
        /\ main'.todo = main.todo /\ main'.r = NONE /\ main'.copy = main.copy
        /\ UNCHANGED <<has, outq, UCSR0B, txbuf, txshift, rxbuf, wire>>
    BY <1>3 DEF At, usart, SerialInv, MainOK
  <2>2. inq' \in Ring!QueueOf(Byte) /\ answer' \in Byte
    BY <1>3, <2>1, QueueFacts, ByteAssumption DEF SerialInv, DataOK
  <2>3. DataOK'
    BY <2>1, <2>2 DEF SerialInv, DataOK
  <2>4. MainOK'
    BY <1>3, <2>1 DEF SerialInv, MainOK
  <2>5. ChecksStayValid' /\ SenderAwake'
    BY <2>1 DEF SerialInv, ChecksStayValid, SenderAwake, At, queue_is_full, queue_is_empty
  <2> QED
    BY <1>0, <2>1, <2>3, <2>4, <2>5
       DEF SerialInv, RegisterOK, CopyFresh, LineOK, Quiet, queue_is_empty
<1> QED
  BY <1>1, <1>2, <1>3 DEF serial_read

\* The bits set one by one.
LEMMA OpenCall == ASSUME SerialInv, serial_open PROVE SerialInv'
<1>1. ASSUME At("closed"), GoTo(IF "RX" \in has THEN "rxen_on" ELSE "txen_on"),
             UNCHANGED <<has, inq, outq, UCSR0B, usart, answer>>
      PROVE  SerialInv'
  <2>1. PICK p : p = IF "RX" \in has THEN "rxen_on" ELSE "txen_on"
    OBVIOUS
  <2>2. /\ main' = [main EXCEPT !.pc = p] /\ main.pc = "closed" /\ main'.pc = p
        /\ main'.todo = main.todo /\ main'.r = main.r /\ main'.copy = main.copy
        /\ UNCHANGED <<has, inq, outq, UCSR0B, txbuf, txshift, rxbuf, wire, answer>>
        /\ p \in {"rxen_on", "txen_on"} /\ (p = "txen_on" => "TX" \in has)
    BY <1>1, <2>1 DEF At, GoTo, usart, SerialInv, MainOK, Build
  <2>3. DataOK' /\ MainOK' /\ main.copy = NONE
    BY <2>2 DEF SerialInv, DataOK, MainOK, Quiet, RegisterOK, CopyFresh, BitLabel
  <2>4. ChecksStayValid' /\ SenderAwake'
    BY <2>2 DEF SerialInv, ChecksStayValid, SenderAwake, At, queue_is_full, queue_is_empty
  <2> QED
    BY <2>2, <2>3, <2>4 DEF SerialInv, RegisterOK, CopyFresh, LineOK, Quiet, queue_is_empty
<1>2. ASSUME WriteControl("rxen_on", "RXEN", TRUE, "rxcie_on") PROVE SerialInv'
  <2>1. OwnBit = "RXEN"
    BY <1>2 DEF WriteControl, OwnBit, At
  <2> QED
    BY <1>2, <2>1, QuietWrite DEF Quiet
<1>3. ASSUME WriteControl("rxcie_on", "RXCIE", TRUE, IF "TX" \in has THEN "txen_on" ELSE "idle")
      PROVE  SerialInv'
  <2>1. OwnBit = "RXCIE"
    BY <1>3 DEF WriteControl, OwnBit, At
  <2>2. CASE "TX" \in has
    BY <1>3, <2>1, <2>2, QuietWrite DEF Quiet
  <2>3. CASE "TX" \notin has
    BY <1>3, <2>1, <2>3, QuietWrite DEF Quiet
  <2> QED
    BY <2>2, <2>3
<1>4. ASSUME WriteControl("txen_on", "TXEN", TRUE, "idle") PROVE SerialInv'
  <2>1. OwnBit = "TXEN"
    BY <1>4 DEF WriteControl, OwnBit, At
  <2> QED
    BY <1>4, <2>1, QuietWrite DEF Quiet
<1> QED
  BY <1>1, <1>2, <1>3, <1>4, ReadStep DEF serial_open, SetBit, BitLabel, Quiet

\* The wait for the sender, and the bits cleared one by one.
LEMMA CloseCall == ASSUME SerialInv, serial_close PROVE SerialInv'
<1>1. CASE WaitSent
  <2>1. /\ main' = [main EXCEPT !.pc = "txen_off"] /\ main.pc = "closing"
        /\ main'.pc = "txen_off"
        /\ main'.todo = main.todo /\ main'.r = main.r /\ main'.copy = main.copy
        /\ UNCHANGED <<has, inq, outq, UCSR0B, txbuf, txshift, rxbuf, wire, answer>>
    BY <1>1 DEF WaitSent, At, GoTo, usart, SerialInv, MainOK
  <2>2. queue_is_empty(outq) /\ ~UCSR0B.UDRIE
    BY <1>1, <2>1 DEF WaitSent, SerialInv, SenderAwake, At
  <2>3. DataOK' /\ MainOK' /\ main.copy = NONE
    BY <2>1 DEF SerialInv, DataOK, MainOK, Quiet, RegisterOK, CopyFresh, BitLabel
  <2>4. ChecksStayValid' /\ SenderAwake'
    BY <2>1 DEF SerialInv, ChecksStayValid, SenderAwake, At, queue_is_full, queue_is_empty
  <2> QED
    BY <2>1, <2>2, <2>3, <2>4 DEF SerialInv, RegisterOK, CopyFresh, LineOK, Quiet, queue_is_empty
<1>2. ASSUME WriteControl("txen_off", "TXEN", FALSE, IF "RX" \in has THEN "rxcie_off" ELSE "closed")
      PROVE  SerialInv'
  <2>1. OwnBit = "TXEN"
    BY <1>2 DEF WriteControl, OwnBit, At
  <2>2. CASE "RX" \in has
    BY <1>2, <2>1, <2>2, QuietWrite DEF Quiet
  <2>3. CASE "RX" \notin has
    BY <1>2, <2>1, <2>3, QuietWrite DEF Quiet
  <2> QED
    BY <2>2, <2>3
<1>3. ASSUME WriteControl("rxcie_off", "RXCIE", FALSE, "rxen_off") PROVE SerialInv'
  <2>1. OwnBit = "RXCIE"
    BY <1>3 DEF WriteControl, OwnBit, At
  <2> QED
    BY <1>3, <2>1, QuietWrite DEF Quiet
<1>4. ASSUME At("rxen_off"), main.copy # NONE, UCSR0B' = [main.copy EXCEPT !.RXEN = FALSE],
             rxbuf' = <<>>, main' = [main EXCEPT !.copy = NONE, !.pc = "closed"],
             UNCHANGED <<has, inq, outq, txbuf, txshift, wire, answer>>
      PROVE  SerialInv'
  <2>1. /\ main.pc = "rxen_off" /\ main'.pc = "closed" /\ main'.copy = NONE
        /\ main'.todo = main.todo /\ main'.r = main.r
    BY <1>4 DEF At, SerialInv, MainOK
  <2>2. UCSR0B' \in Control /\ UCSR0B'.UDRIE = UCSR0B.UDRIE
    <3>1. main.copy \in Control /\ OwnBit = "RXEN"
      BY <1>4 DEF SerialInv, MainOK, OwnBit, At
    <3>2. main.copy.UDRIE = UCSR0B.UDRIE
      BY <1>4, <3>1 DEF SerialInv, RegisterOK, CopyFresh, Bit
    <3> QED
      BY <1>4, <3>1, <3>2 DEF Control
  <2>3. DataOK'
    BY <1>4, <2>1 DEF SerialInv, DataOK
  <2>4. MainOK'
    BY <1>4, <2>1 DEF SerialInv, MainOK, Quiet
  <2>5. LineOK'
    BY <1>4, <2>1, <2>2 DEF SerialInv, RegisterOK, LineOK, Quiet, queue_is_empty
  <2>6. ChecksStayValid' /\ SenderAwake'
    BY <1>4, <2>1, <2>5 DEF ChecksStayValid, SenderAwake, At, LineOK, Quiet
  <2> QED
    BY <2>1, <2>2, <2>3, <2>4, <2>5, <2>6 DEF SerialInv, RegisterOK, CopyFresh
<1> QED
  BY <1>1, <1>2, <1>3, <1>4, ReadStep DEF serial_close, SetBit, BitLabel, Quiet

-----------------------------------------------------------------------------
\* A step that changes nothing.
LEMMA Unchanged == ASSUME SerialInv, UNCHANGED vars PROVE SerialInv'
<1>1. UNCHANGED <<has, inq, outq, UCSR0B, txbuf, txshift, rxbuf, wire, main, answer>>
  BY DEF vars, usart
<1>2. DataOK' /\ MainOK'
  BY <1>1 DEF SerialInv, DataOK, MainOK
<1>3. RegisterOK' /\ ChecksStayValid' /\ SenderAwake'
  BY <1>1 DEF SerialInv, RegisterOK, CopyFresh, LineOK, OwnBit, At, ChecksStayValid, SenderAwake
<1> QED
  BY <1>2, <1>3 DEF SerialInv

(***************************************************************************)
(* The invariant of the driver, the USART and main together.               *)
(***************************************************************************)
THEOREM Invariance == Spec => []SerialInv
<1>1. SerialInv /\ [Next]_vars => SerialInv'
  <2> SUFFICES ASSUME SerialInv, [Next]_vars PROVE SerialInv'
    OBVIOUS
  <2>1. CASE serial_open
    BY <2>1, OpenCall
  <2>2. CASE BeginWrite \/ BeginRead \/ BeginClose
    BY <2>2, NewCall
  <2>3. CASE MainStep
    BY <2>3, WriteCall, ReadCall, CloseCall DEF MainStep
  <2>4. CASE USART_RX_vect
    BY <2>4, RxInterrupt
  <2>5. CASE USART_UDRE_vect
    BY <2>5, UdreInterrupt
  <2>6. CASE TxLoad \/ TxDone \/ \E b \in Byte : RxByte(b)
    BY <2>6, Line
  <2>7. CASE UNCHANGED vars
    BY <2>7, Unchanged
  <2> QED
    BY <2>1, <2>2, <2>3, <2>4, <2>5, <2>6, <2>7 DEF Next
<1> QED
  BY Initially, <1>1, PTL DEF Spec

(***************************************************************************)
(* Type correctness of the serial port.                                    *)
(***************************************************************************)
THEOREM TypeCorrect == Spec => []TypeOK
<1>1. SerialInv => TypeOK
  BY DEF SerialInv, DataOK, MainOK, RegisterOK, TypeOK, Quiet
<1> QED
  BY Invariance, <1>1, PTL

(***************************************************************************)
(* What the note at the end of serial.c argues: main finds the queues as   *)
(* its waiting loop saw them, whatever interrupts come in between.         *)
(***************************************************************************)
THEOREM NoteHolds == Spec => []ChecksStayValid
<1>1. SerialInv => ChecksStayValid
  BY DEF SerialInv
<1> QED
  BY Invariance, <1>1, PTL

(***************************************************************************)
(* The sender never sleeps over a byte: serial_write may enable the        *)
(* interrupt after it queued the byte, though the interrupt may disable    *)
(* itself in between.                                                      *)
(***************************************************************************)
THEOREM NoLostWakeUp == Spec => []SenderAwake
<1>1. SerialInv => SenderAwake
  BY DEF SerialInv
<1> QED
  BY Invariance, <1>1, PTL

(***************************************************************************)
(* With the transmitter off nothing is left to send, and no interrupt is   *)
(* enabled that would send it.                                             *)
(***************************************************************************)
THEOREM QuietWhenClosed == Spec => []ClosedIsQuiet
<1>1. SerialInv => ClosedIsQuiet
  BY DEF SerialInv, RegisterOK, LineOK, ClosedIsQuiet
<1> QED
  BY Invariance, <1>1, PTL

-----------------------------------------------------------------------------
(***************************************************************************)
(* A step of main that ends a change of the register.                      *)
(***************************************************************************)
OwnOnly == main.copy # NONE /\ main'.copy = NONE
             => \A b \in Bit \ {OwnBit} : UCSR0B'[b] = UCSR0B[b]

\* A bit set or cleared through a copy.
LEMMA OwnWrite ==
  ASSUME SerialInv, NEW p \in BitLabel, NEW bit, NEW on \in BOOLEAN, NEW next,
         At(p) => OwnBit = bit, SetBit(p, bit, on, next)
  PROVE  OwnOnly
<1>1. CASE ReadControl(p)
  BY <1>1 DEF ReadControl, OwnOnly
<1>2. CASE WriteControl(p, bit, on, next)
  <2>1. WriteControl(p, OwnBit, on, next)
    BY <1>2 DEF WriteControl
  <2>2. UCSR0B' = [UCSR0B EXCEPT ![OwnBit] = on] /\ UCSR0B \in Control
    BY <2>1, WriteStep DEF SerialInv, RegisterOK
  <2> QED
    BY <2>2 DEF OwnOnly, Control, Bit
<1> QED
  BY <1>1, <1>2 DEF SetBit

\* Every step.
LEMMA OwnStep == ASSUME SerialInv, [Next]_vars PROVE OwnOnly
<1>0. main \in [pc : Quiet \cup {"idle", "write", "enqueue", "enable", "read", "front",
                                 "dequeue", "closing"},
                todo : Seq(Seq(Byte)), r : Byte \cup {NONE}, copy : Control \cup {NONE}]
  BY DEF SerialInv, MainOK
<1>1. CASE serial_open
  <2>1. CASE At("closed") /\ GoTo(IF "RX" \in has THEN "rxen_on" ELSE "txen_on")
    BY <1>0, <2>1 DEF GoTo, OwnOnly
  <2>2. CASE SetBit("rxen_on", "RXEN", TRUE, "rxcie_on")
    BY <2>2, OwnWrite DEF OwnBit, At, BitLabel, Quiet
  <2>3. CASE SetBit("rxcie_on", "RXCIE", TRUE, IF "TX" \in has THEN "txen_on" ELSE "idle")
    BY <2>3, OwnWrite DEF OwnBit, At, BitLabel, Quiet
  <2>4. CASE SetBit("txen_on", "TXEN", TRUE, "idle")
    BY <2>4, OwnWrite DEF OwnBit, At, BitLabel, Quiet
  <2> QED
    BY <1>1, <2>1, <2>2, <2>3, <2>4 DEF serial_open
<1>2. CASE BeginWrite \/ BeginRead \/ BeginClose
  BY <1>0, <1>2 DEF BeginWrite, BeginRead, BeginClose, Begin, OwnOnly
<1>3. CASE serial_write
  <2>1. CASE SetBit("enable", "UDRIE", TRUE, AfterWrite(main.todo))
    BY <2>1, OwnWrite DEF OwnBit, At, BitLabel
  <2>2. CASE ~SetBit("enable", "UDRIE", TRUE, AfterWrite(main.todo))
    BY <1>0, <1>3, <2>2 DEF serial_write, GoTo, OwnOnly
  <2> QED
    BY <2>1, <2>2
<1>4. CASE serial_read
  BY <1>0, <1>4 DEF serial_read, GoTo, OwnOnly
<1>5. CASE serial_close
  <2>1. CASE WaitSent
    BY <1>0, <2>1 DEF WaitSent, GoTo, OwnOnly
  <2>2. CASE SetBit("txen_off", "TXEN", FALSE, IF "RX" \in has THEN "rxcie_off" ELSE "closed")
    BY <2>2, OwnWrite DEF OwnBit, At, BitLabel, Quiet
  <2>3. CASE SetBit("rxcie_off", "RXCIE", FALSE, "rxen_off")
    BY <2>3, OwnWrite DEF OwnBit, At, BitLabel, Quiet
  <2>4. CASE ReadControl("rxen_off")
    BY <2>4 DEF ReadControl, OwnOnly
  <2>5. CASE At("rxen_off") /\ main.copy # NONE /\ UCSR0B' = [main.copy EXCEPT !.RXEN = FALSE]
    <3>1. main.copy \in Control /\ OwnBit = "RXEN"
      BY <1>0, <2>5 DEF OwnBit, At
    <3>2. \A b \in Bit \ {"RXEN"} : main.copy[b] = UCSR0B[b]
      BY <2>5, <3>1 DEF SerialInv, RegisterOK, CopyFresh
    <3> QED
      BY <2>5, <3>1, <3>2 DEF OwnOnly, Control, Bit
  <2> QED
    BY <1>5, <2>1, <2>2, <2>3, <2>4, <2>5 DEF serial_close
<1>6. CASE USART_RX_vect \/ USART_UDRE_vect \/ TxLoad \/ TxDone \/ \E b \in Byte : RxByte(b)
  BY <1>6 DEF USART_RX_vect, USART_UDRE_vect, TxLoad, TxDone, RxByte, OwnOnly
<1>7. CASE UNCHANGED vars
  BY <1>7 DEF vars, OwnOnly
<1> QED
  BY <1>1, <1>2, <1>3, <1>4, <1>5, <1>6, <1>7 DEF Next, MainStep

(***************************************************************************)
(* Main never undoes what an interrupt did to UCSR0B while main held a     *)
(* copy of it: only the bit that it meant to change changes.               *)
(***************************************************************************)
THEOREM NoBitLost == Spec => OnlyOwnBit
<1>1. SerialInv /\ [Next]_vars
        => [main.copy # NONE /\ main'.copy = NONE
              => \A b \in {"RXCIE", "UDRIE", "RXEN", "TXEN"} \ {OwnBit} :
                   UCSR0B'[b] = UCSR0B[b]]_vars
  BY OwnStep DEF OwnOnly, Bit
<1> QED
  BY Invariance, <1>1, PTL DEF Spec, OnlyOwnBit

-----------------------------------------------------------------------------
(***************************************************************************)
(* The driver implements the sending side of SerialChannel.  I2cQueueProofs *)
(* says what the operations do to the contents of a queue.                 *)
(***************************************************************************)
QueueFact == INSTANCE I2cQueueProofs WITH I2CQ_L <- QL

\* What the operations on a queue do to its contents.
LEMMA QueueContents ==
  ASSUME NEW q \in Ring!QueueOf(Byte), NEW v \in Byte
  PROVE  /\ Ring!Contents(q) \in Seq(Byte)
         /\ queue_is_empty(q) => Ring!Contents(q) = <<>>
         /\ queue_is_full(q) => Len(Ring!Contents(q)) = QL - 1
         /\ ~queue_is_full(q) => Ring!Contents(queue_enqueue(q, v)) = Append(Ring!Contents(q), v)
         /\ ~queue_is_empty(q) => /\ Ring!Contents(q) # <<>>
                                  /\ Ring!Contents(queue_dequeue(q)) = Tail(Ring!Contents(q))
                                  /\ Head(Ring!Contents(q)) = queue_front(q)
<1>1. q \in QueueFact!QueueOf(Byte)
  BY DEF QueueFact!QueueOf, Ring!QueueOf, QueueFact!Cell, Ring!Cell
<1>2. \A x : QueueFact!Contents(x) = Ring!Contents(x)
  BY DEF QueueFact!Contents, Ring!Contents, QueueFact!Count, Ring!Count, QueueFact!CellOf,
         Ring!CellOf
<1>3. /\ QueueFact!i2cq_is_full(q) <=> queue_is_full(q)
      /\ QueueFact!i2cq_is_empty(q) <=> queue_is_empty(q)
      /\ QueueFact!i2cq_enqueue(q, v) = queue_enqueue(q, v)
      /\ QueueFact!i2cq_dequeue(q) = queue_dequeue(q)
      /\ q.t[QueueFact!i2cq_front(q)] = queue_front(q)
  BY DEF queue_is_full, queue_is_empty, queue_enqueue, queue_dequeue, queue_front,
         QueueFact!i2cq_is_full, QueueFact!i2cq_is_empty, QueueFact!i2cq_enqueue,
         QueueFact!i2cq_dequeue, QueueFact!i2cq_front, QueueFact!inc,
         Ring!i2cq_is_full, Ring!i2cq_is_empty, Ring!i2cq_enqueue, Ring!i2cq_dequeue,
         Ring!i2cq_front, Ring!inc
<1>4. /\ QueueFact!Contents(q) \in Seq(Byte)
      /\ Len(QueueFact!Contents(q)) = QueueFact!Count(q)
  BY <1>1, QLAssumption, QueueFact!ContentsType
<1>5. queue_is_empty(q) <=> QueueFact!Count(q) = 0
  BY <1>1, <1>3, QLAssumption, QueueFact!CountRange
<1>6. ~queue_is_full(q) => QueueFact!Contents(queue_enqueue(q, v)) = Append(QueueFact!Contents(q), v)
  BY <1>1, <1>3, QLAssumption, QueueFact!EnqueueWithRoom
<1>7. ~queue_is_empty(q) => /\ QueueFact!Contents(queue_dequeue(q)) = Tail(QueueFact!Contents(q))
                            /\ Head(QueueFact!Contents(q)) = queue_front(q)
  BY <1>1, <1>3, QLAssumption, QueueFact!DequeueTails
<1>8. /\ queue_is_empty(q) => Ring!Contents(q) = <<>>
      /\ ~queue_is_empty(q) => Ring!Contents(q) # <<>>
  BY <1>2, <1>4, <1>5
<1>9. queue_is_full(q) => QueueFact!Count(q) = QL - 1
  BY <1>1, <1>3, QLAssumption, QueueFact!CountRange
<1> QED
  BY <1>2, <1>4, <1>6, <1>7, <1>8, <1>9

\* The bytes on their way out.
Outgoing == txshift \o txbuf \o Ring!Contents(outq)

SendStep == \/ UNCHANGED <<UCSR0B.TXEN, Outgoing, wire>>
            \/ ~UCSR0B.TXEN /\ UCSR0B'.TXEN /\ UNCHANGED <<Outgoing, wire>>
            \/ UCSR0B.TXEN /\ ~UCSR0B'.TXEN /\ UNCHANGED <<Outgoing, wire>>
            \/ \E b \in Byte : /\ UCSR0B.TXEN /\ Outgoing' = Append(Outgoing, b)
                               /\ UNCHANGED <<UCSR0B.TXEN, wire>>
            \/ /\ Outgoing # <<>> /\ wire' = Head(Outgoing) /\ Outgoing' = Tail(Outgoing)
               /\ UNCHANGED UCSR0B.TXEN

\* These are the steps of the channel.
LEMMA SendStepIsStep ==
  ASSUME SerialInv, SerialInv', SendStep
  PROVE  [Sending!Next]_(Sending!vars)
<1>1. UCSR0B.TXEN \in BOOLEAN /\ UCSR0B'.TXEN \in BOOLEAN
  BY DEF SerialInv, RegisterOK, Control
<1>2. CASE UNCHANGED <<UCSR0B.TXEN, Outgoing, wire>>
  BY <1>2 DEF Sending!vars, Outgoing
<1>3. CASE ~UCSR0B.TXEN /\ UCSR0B'.TXEN /\ UNCHANGED <<Outgoing, wire>>
  BY <1>1, <1>3 DEF Sending!Next, Sending!Open, Outgoing
<1>4. CASE UCSR0B.TXEN /\ ~UCSR0B'.TXEN /\ UNCHANGED <<Outgoing, wire>>
  BY <1>1, <1>4 DEF Sending!Next, Sending!Close, Outgoing
<1>5. ASSUME NEW b \in Byte, UCSR0B.TXEN, Outgoing' = Append(Outgoing, b),
             UNCHANGED <<UCSR0B.TXEN, wire>>
      PROVE  Sending!Next
  BY <1>5 DEF Sending!Next, Sending!Put, Outgoing
<1>6. CASE /\ Outgoing # <<>> /\ wire' = Head(Outgoing) /\ Outgoing' = Tail(Outgoing)
           /\ UNCHANGED UCSR0B.TXEN
  BY <1>6 DEF Sending!Next, Sending!Get, Outgoing
<1> QED
  BY <1>2, <1>3, <1>4, <1>5, <1>6 DEF SendStep

\* A bit set or cleared does not move a byte.
LEMMA SendWrite ==
  ASSUME SerialInv, NEW p \in BitLabel, NEW bit, NEW on \in BOOLEAN, NEW next,
         At(p) => OwnBit = bit, SetBit(p, bit, on, next)
  PROVE  SendStep
<1>1. CASE ReadControl(p)
  BY <1>1 DEF ReadControl, usart, SendStep, Outgoing
<1>2. CASE WriteControl(p, bit, on, next)
  <2>1. WriteControl(p, OwnBit, on, next)
    BY <1>2 DEF WriteControl
  <2>2. /\ UCSR0B' = [UCSR0B EXCEPT ![OwnBit] = on] /\ UCSR0B \in Control /\ UCSR0B' \in Control
        /\ UNCHANGED <<outq, txbuf, txshift, wire>>
    BY <2>1, WriteStep DEF SerialInv, RegisterOK
  <2>3. UNCHANGED <<Outgoing, wire>>
    BY <2>2 DEF Outgoing
  <2>4. UCSR0B.TXEN \in BOOLEAN /\ UCSR0B'.TXEN \in BOOLEAN
    BY <2>2 DEF Control
  <2> QED
    BY <2>3, <2>4 DEF SendStep
<1> QED
  BY <1>1, <1>2 DEF SetBit

\* Every step is one of the sending side of the channel.
LEMMA Sends == ASSUME SerialInv, [Next]_vars PROVE SendStep
<1>0. /\ outq \in Ring!QueueOf(Byte) /\ txbuf \in OneByte /\ txshift \in OneByte
      /\ Ring!Contents(outq) \in Seq(Byte)
  BY QueueContents, ByteAssumption DEF SerialInv, DataOK
<1>1. ASSUME UNCHANGED <<outq, UCSR0B, txbuf, txshift, wire>> PROVE SendStep
  BY <1>1 DEF SendStep, Outgoing
<1>2. CASE serial_open
  <2>1. CASE At("closed") /\ UNCHANGED <<has, inq, outq, UCSR0B, usart, answer>>
    BY <1>1, <2>1 DEF usart
  <2>2. CASE SetBit("rxen_on", "RXEN", TRUE, "rxcie_on")
    BY <2>2, SendWrite DEF OwnBit, At, BitLabel, Quiet
  <2>3. CASE SetBit("rxcie_on", "RXCIE", TRUE, IF "TX" \in has THEN "txen_on" ELSE "idle")
    BY <2>3, SendWrite DEF OwnBit, At, BitLabel, Quiet
  <2>4. CASE SetBit("txen_on", "TXEN", TRUE, "idle")
    BY <2>4, SendWrite DEF OwnBit, At, BitLabel, Quiet
  <2> QED
    BY <1>2, <2>1, <2>2, <2>3, <2>4 DEF serial_open
<1>3. CASE BeginWrite \/ BeginRead \/ BeginClose
  BY <1>1, <1>3 DEF BeginWrite, BeginRead, BeginClose, Begin, usart
<1>4. CASE serial_write
  <2>1. CASE At("write") /\ UNCHANGED <<has, inq, outq, UCSR0B, usart, answer>>
    BY <1>1, <2>1 DEF usart
  <2>2. CASE At("enqueue") /\ outq' = queue_enqueue(outq, NextByte)
             /\ UNCHANGED <<has, inq, UCSR0B, usart, answer>>
    <3>1. main.todo # <<>> /\ ~queue_is_full(outq) /\ UCSR0B.TXEN
      BY <2>2 DEF SerialInv, DataOK, MainOK, RegisterOK, LineOK, ChecksStayValid, At, Quiet
    <3>2. NextByte \in Byte
      BY <3>1, Writes
    <3>3. Ring!Contents(outq)' = Append(Ring!Contents(outq), NextByte)
      BY <1>0, <2>2, <3>1, <3>2, QueueContents
    <3>4. UNCHANGED <<txbuf, txshift, wire, UCSR0B>>
      BY <2>2 DEF usart
    <3>5. PICK c, d : c = Ring!Contents(outq) /\ d = Ring!Contents(outq)'
      OBVIOUS
    <3>6. txshift \o txbuf \o d = Append(txshift \o txbuf \o c, NextByte)
      BY <1>0, <3>2, <3>3, <3>5 DEF OneByte
    <3>7. Outgoing' = Append(Outgoing, NextByte)
      BY <3>4, <3>5, <3>6 DEF Outgoing
    <3> QED
      BY <3>1, <3>2, <3>4, <3>7 DEF SendStep
  <2>3. CASE SetBit("enable", "UDRIE", TRUE, AfterWrite(main.todo))
    BY <2>3, SendWrite DEF OwnBit, At, BitLabel
  <2> QED
    BY <1>4, <2>1, <2>2, <2>3 DEF serial_write
<1>5. CASE serial_read
  BY <1>1, <1>5 DEF serial_read, usart
<1>6. CASE serial_close
  <2>1. CASE WaitSent
    BY <1>1, <2>1 DEF WaitSent, usart
  <2>2. CASE SetBit("txen_off", "TXEN", FALSE, IF "RX" \in has THEN "rxcie_off" ELSE "closed")
    BY <2>2, SendWrite DEF OwnBit, At, BitLabel, Quiet
  <2>3. CASE SetBit("rxcie_off", "RXCIE", FALSE, "rxen_off")
    BY <2>3, SendWrite DEF OwnBit, At, BitLabel, Quiet
  <2>4. CASE ReadControl("rxen_off")
    BY <1>1, <2>4 DEF ReadControl, usart
  <2>5. CASE At("rxen_off") /\ main.copy # NONE /\ UCSR0B' = [main.copy EXCEPT !.RXEN = FALSE]
             /\ UNCHANGED <<outq, txbuf, txshift, wire>>
    <3>1. main.copy \in Control /\ OwnBit = "RXEN"
      BY <2>5 DEF OwnBit, At, SerialInv, MainOK
    <3>2. main.copy.TXEN = UCSR0B.TXEN
      BY <2>5, <3>1 DEF SerialInv, RegisterOK, CopyFresh, Bit
    <3>3. UCSR0B'.TXEN = UCSR0B.TXEN
      BY <2>5, <3>1, <3>2 DEF Control
    <3> QED
      BY <2>5, <3>3 DEF SendStep, Outgoing
  <2> QED
    BY <1>6, <2>1, <2>2, <2>3, <2>4, <2>5 DEF serial_close
<1>7. CASE USART_RX_vect
  BY <1>1, <1>7 DEF USART_RX_vect
<1>8. CASE USART_UDRE_vect
  <2>1. UCSR0B \in Control
    BY DEF SerialInv, RegisterOK
  <2>2. CASE queue_is_empty(outq)
    BY <1>8, <2>1, <2>2 DEF USART_UDRE_vect, SendStep, Outgoing, Control
  <2>3. CASE ~queue_is_empty(outq)
    <3>1. /\ Ring!Contents(outq) # <<>> /\ Head(Ring!Contents(outq)) = queue_front(outq)
          /\ Ring!Contents(outq)' = Tail(Ring!Contents(outq))
      BY <1>0, <1>8, <2>3, QueueContents, ByteAssumption DEF USART_UDRE_vect
    <3>2. /\ txbuf = <<>> /\ txbuf' = <<queue_front(outq)>>
          /\ UNCHANGED <<txshift, wire, UCSR0B>>
      BY <1>8, <2>3 DEF USART_UDRE_vect
    <3>3. PICK c, d : c = Ring!Contents(outq) /\ d = Ring!Contents(outq)'
      OBVIOUS
    <3>4. txshift \o <<Head(c)>> \o Tail(c) = txshift \o <<>> \o c
      BY <1>0, <3>1, <3>3 DEF OneByte
    <3>5. Outgoing' = Outgoing
      BY <3>1, <3>2, <3>3, <3>4 DEF Outgoing
    <3> QED
      BY <3>2, <3>5 DEF SendStep
  <2> QED
    BY <2>2, <2>3
<1>9. CASE TxLoad
  <2>1. /\ txshift = <<>> /\ txshift' = txbuf /\ txbuf' = <<>>
        /\ UNCHANGED <<outq, UCSR0B, wire>>
    BY <1>9 DEF TxLoad
  <2>2. txbuf \o <<>> = <<>> \o txbuf
    BY <1>0 DEF OneByte
  <2> QED
    BY <2>1, <2>2 DEF SendStep, Outgoing
<1>10. CASE TxDone
  <2>1. /\ txshift # <<>> /\ wire' = Head(txshift) /\ txshift' = <<>>
        /\ UNCHANGED <<outq, UCSR0B, txbuf>>
    BY <1>10 DEF TxDone
  <2>2. PICK b \in Byte : txshift = <<b>>
    BY <1>0, <2>1 DEF OneByte
  <2>3. PICK c, r : c = Ring!Contents(outq) /\ r = txbuf \o c
    OBVIOUS
  <2>4. /\ r \in Seq(Byte)
        /\ <<b>> \o txbuf \o Ring!Contents(outq) = <<b>> \o r
        /\ <<>> \o txbuf \o Ring!Contents(outq) = r
    <3>1. c \in Seq(Byte) /\ txbuf \in Seq(Byte)
      <4>1. c \in Seq(Byte)
        BY <1>0, <2>3
      <4>2. txbuf \in Seq(Byte)
        <5>1. \A x \in Byte : <<x>> \in Seq(Byte)
          OBVIOUS
        <5>2. <<>> \in Seq(Byte)
          OBVIOUS
        <5> QED
          BY <1>0, <5>1, <5>2, Zenon DEF OneByte
      <4> QED
        BY <4>1, <4>2
    <3>2. r \in Seq(Byte)
      BY <2>3, <3>1
    <3>3. <<>> \o txbuf = txbuf
      BY <1>0 DEF OneByte
    <3>4. <<b>> \o txbuf \o c = <<b>> \o (txbuf \o c)
      <4>1. <<b>> \in Seq(Byte)
        OBVIOUS
      <4> QED
        BY <3>1, <4>1, ConcatAssociative
    <3> QED
      BY <2>3, <3>2, <3>3, <3>4
  <2>5. <<b>> \o r # <<>> /\ Head(<<b>> \o r) = b /\ Tail(<<b>> \o r) = r
    BY <2>4
  <2>6. Outgoing = <<b>> \o r /\ Outgoing' = r /\ wire' = b
    BY <2>1, <2>2, <2>4 DEF Outgoing
  <2> QED
    BY <2>1, <2>5, <2>6 DEF SendStep
<1>11. CASE \E b \in Byte : RxByte(b)
  BY <1>1, <1>11 DEF RxByte
<1>12. CASE UNCHANGED vars
  BY <1>1, <1>12 DEF vars, usart
<1> QED
  BY <1>2, <1>3, <1>4, <1>5, <1>6, <1>7, <1>8, <1>9, <1>10, <1>11, <1>12 DEF Next, MainStep

(***************************************************************************)
(* What main writes comes out on the line in that order, each byte once    *)
(* and none lost, also while the port is closed and opened: the driver     *)
(* implements the channel that loses nothing.                              *)
(***************************************************************************)
THEOREM SendingOrder == Spec => SendsInOrder
<1>1. Init => Sending!Init
  <2> SUFFICES ASSUME Init PROVE Sending!Init
    OBVIOUS
  <2>1. outq \in Ring!QueueOf(Byte) /\ queue_is_empty(outq)
    BY Initially DEF SerialInv, DataOK, RegisterOK, LineOK, Init, Quiet
  <2>2. Ring!Contents(outq) = <<>>
    BY <2>1, QueueContents, ByteAssumption
  <2> QED
    BY <2>2, ByteAssumption DEF Init, Sending!Init
<1>2. SerialInv /\ SerialInv' /\ [Next]_vars => [Sending!Next]_(Sending!vars)
  BY Sends, SendStepIsStep
<1> QED
  BY Invariance, <1>1, <1>2, PTL DEF Spec, SendsInOrder, Sending!Spec
-----------------------------------------------------------------------------
(***************************************************************************)
(* The receiving side.  Nothing is received with the receiver off, and the *)
(* byte that serial_read is about to return is still the first of inq.     *)
(***************************************************************************)
ReceiverOK == /\ rxbuf # <<>> => UCSR0B.RXEN
              /\ At("dequeue") => main.r = queue_front(inq)

\* The bytes received, as far as serial_read will see them.
Incoming == Ring!Contents(inq) \o rxbuf

ReceiveStep ==
  \/ UNCHANGED <<UCSR0B.RXEN, Incoming, answer>>
  \/ ~UCSR0B.RXEN /\ UCSR0B'.RXEN /\ UNCHANGED <<Incoming, answer>>
  \/ /\ UCSR0B.RXEN /\ ~UCSR0B'.RXEN /\ UNCHANGED answer
     /\ \E n \in 0 .. Len(Incoming) : Incoming' = SubSeq(Incoming, 1, n)
  \/ \E b \in Byte : /\ UCSR0B.RXEN /\ Incoming' = Append(Incoming, b)
                     /\ UNCHANGED <<UCSR0B.RXEN, answer>>
  \/ /\ Incoming # <<>> /\ answer' = Head(Incoming) /\ Incoming' = Tail(Incoming)
     /\ UNCHANGED UCSR0B.RXEN
  \/ /\ Len(Incoming) > QL - 1 /\ UNCHANGED <<UCSR0B.RXEN, answer>>
     /\ Incoming' = SubSeq(Incoming, 1, QL - 1) \o SubSeq(Incoming, QL + 1, Len(Incoming))

\* These are the steps of the channel.
LEMMA ReceiveStepIsStep ==
  ASSUME SerialInv, SerialInv', ReceiveStep
  PROVE  [Receiving!Next]_(Receiving!vars)
<1>1. UCSR0B.RXEN \in BOOLEAN /\ UCSR0B'.RXEN \in BOOLEAN
  BY DEF SerialInv, RegisterOK, Control
<1>2. CASE UNCHANGED <<UCSR0B.RXEN, Incoming, answer>>
  BY <1>2 DEF Receiving!vars, Incoming
<1>3. CASE ~UCSR0B.RXEN /\ UCSR0B'.RXEN /\ UNCHANGED <<Incoming, answer>>
  BY <1>1, <1>3 DEF Receiving!Next, Receiving!Open, Incoming
<1>4. CASE /\ UCSR0B.RXEN /\ ~UCSR0B'.RXEN /\ UNCHANGED answer
           /\ \E n \in 0 .. Len(Incoming) : Incoming' = SubSeq(Incoming, 1, n)
  BY <1>1, <1>4 DEF Receiving!Next, Receiving!Close, Incoming
<1>5. ASSUME NEW b \in Byte, UCSR0B.RXEN, Incoming' = Append(Incoming, b),
             UNCHANGED <<UCSR0B.RXEN, answer>>
      PROVE  Receiving!Next
  BY <1>5 DEF Receiving!Next, Receiving!Put, Incoming
<1>6. CASE /\ Incoming # <<>> /\ answer' = Head(Incoming) /\ Incoming' = Tail(Incoming)
           /\ UNCHANGED UCSR0B.RXEN
  BY <1>6 DEF Receiving!Next, Receiving!Get, Incoming
<1>7. CASE /\ Len(Incoming) > QL - 1 /\ UNCHANGED <<UCSR0B.RXEN, answer>>
           /\ Incoming' = SubSeq(Incoming, 1, QL - 1) \o SubSeq(Incoming, QL + 1, Len(Incoming))
  <2>1. QL - 1 + 2 = QL + 1
    BY QLAssumption
  <2> QED
    BY <1>7, <2>1 DEF Receiving!Next, Receiving!Lose, Incoming
<1> QED
  BY <1>2, <1>3, <1>4, <1>5, <1>6, <1>7 DEF ReceiveStep

\* Two sequences, one before the other: the first of the later ones moves
\* to the earlier.
LEMMA MoveOver ==
  ASSUME NEW c \in Seq(Byte), NEW r \in Seq(Byte), r # <<>>
  PROVE  Append(c, Head(r)) \o Tail(r) = c \o r
<1>1. Append(c, Head(r)) \in Seq(Byte) /\ Tail(r) \in Seq(Byte)
  OBVIOUS
<1>2. /\ Append(c, Head(r)) \o Tail(r) \in Seq(Byte) /\ c \o r \in Seq(Byte)
      /\ Len(Append(c, Head(r)) \o Tail(r)) = Len(c \o r)
  BY <1>1
<1>3. \A i \in 1 .. Len(c \o r) : (Append(c, Head(r)) \o Tail(r))[i] = (c \o r)[i]
  BY <1>1
<1> QED
  BY <1>2, <1>3, SeqEqual

\* The first of the later ones is left out, or all of them are.
LEMMA LeaveOut ==
  ASSUME NEW c \in Seq(Byte), NEW r \in Seq(Byte)
  PROVE  /\ SubSeq(c \o r, 1, Len(c)) = c
         /\ r # <<>> => Len(c \o r) > Len(c)
         /\ r # <<>> => c \o Tail(r) = SubSeq(c \o r, 1, Len(c))
                                         \o SubSeq(c \o r, Len(c) + 2, Len(c \o r))
<1>1. SubSeq(c \o r, 1, Len(c)) = c
  OBVIOUS
<1>2. ASSUME r # <<>> PROVE SubSeq(c \o r, Len(c) + 2, Len(c \o r)) = Tail(r)
  BY <1>2
<1>3. r # <<>> => Len(r) > 0
  OBVIOUS
<1>4. r # <<>> => Len(c \o r) > Len(c)
  BY <1>3
<1> QED
  BY <1>1, <1>2, <1>4

\* The head of the two is the head of the earlier.
LEMMA Prefix ==
  ASSUME NEW c \in Seq(Byte), NEW r \in Seq(Byte), c # <<>>
  PROVE  c \o r # <<>> /\ Head(c \o r) = Head(c) /\ Tail(c \o r) = Tail(c) \o r
<1>1. c \o r # <<>> /\ Head(c \o r) = Head(c)
  OBVIOUS
<1>2. Tail(c \o r) = Tail(c) \o r
  OBVIOUS
<1> QED
  BY <1>1, <1>2

\* A step of main that changes a bit does not touch the line.
LEMMA ReceiveWrite ==
  ASSUME SerialInv, ReceiverOK, NEW p \in BitLabel, NEW bit, NEW on \in BOOLEAN,
         NEW next, next # "dequeue",
         At(p) => OwnBit = bit, bit # "RXEN" \/ on, SetBit(p, bit, on, next)
  PROVE  ReceiverOK' /\ ReceiveStep
<1>1. CASE ReadControl(p)
  <2>1. ReceiveStep
    BY <1>1 DEF ReadControl, usart, ReceiveStep, Incoming
  <2>2. ReceiverOK'
    BY <1>1 DEF ReadControl, usart, ReceiverOK, At, SerialInv, MainOK
  <2> QED
    BY <2>1, <2>2
<1>2. CASE WriteControl(p, bit, on, next)
  <2>1. WriteControl(p, OwnBit, on, next)
    BY <1>2 DEF WriteControl
  <2>2. /\ UCSR0B' = [UCSR0B EXCEPT ![OwnBit] = on] /\ UCSR0B \in Control /\ UCSR0B' \in Control
        /\ UNCHANGED <<inq, rxbuf, answer>> /\ main'.pc = next
    <3>1. main'.pc = next
      BY <1>2 DEF WriteControl, SerialInv, MainOK
    <3> QED
      BY <2>1, <3>1, WriteStep DEF SerialInv, RegisterOK
  <2>3. UNCHANGED <<Incoming, answer>>
    BY <2>2 DEF Incoming
  <2>4. /\ UCSR0B.RXEN \in BOOLEAN /\ UCSR0B'.RXEN \in BOOLEAN
        /\ UCSR0B.RXEN => UCSR0B'.RXEN
    BY <1>2, <2>2 DEF Control, WriteControl
  <2>5. ReceiveStep
    BY <2>3, <2>4 DEF ReceiveStep
  <2>6. ReceiverOK'
    BY <2>2, <2>4 DEF ReceiverOK, At
  <2> QED
    BY <2>5, <2>6
<1> QED
  BY <1>1, <1>2 DEF SetBit

\* Every step is one of the receiving side of the channel.
LEMMA Receives ==
  ASSUME SerialInv, ReceiverOK, [Next]_vars
  PROVE  ReceiverOK' /\ ReceiveStep
<1>0. /\ inq \in Ring!QueueOf(Byte) /\ rxbuf \in Seq(Byte) /\ Ring!Contents(inq) \in Seq(Byte)
      /\ UCSR0B \in Control
      /\ main \in [pc : Quiet \cup {"idle", "write", "enqueue", "enable", "read", "front",
                                    "dequeue", "closing"},
                   todo : Seq(Seq(Byte)), r : Byte \cup {NONE}, copy : Control \cup {NONE}]
  BY QueueContents, ByteAssumption DEF SerialInv, DataOK, RegisterOK, MainOK
\* Steps that leave the receiving side alone.
<1>1. ASSUME UNCHANGED <<inq, UCSR0B.RXEN, rxbuf, answer>>, ~At("dequeue")' \/ main' = main
      PROVE  ReceiverOK' /\ ReceiveStep
  BY <1>1 DEF ReceiverOK, ReceiveStep, Incoming, At
<1>2. CASE serial_open
  <2>1. CASE At("closed") /\ GoTo(IF "RX" \in has THEN "rxen_on" ELSE "txen_on")
             /\ UNCHANGED <<has, inq, outq, UCSR0B, usart, answer>>
    BY <1>0, <1>1, <2>1 DEF usart, GoTo, At
  <2>2. CASE SetBit("rxen_on", "RXEN", TRUE, "rxcie_on")
    BY <2>2, ReceiveWrite DEF OwnBit, At, BitLabel, Quiet
  <2>3. CASE SetBit("rxcie_on", "RXCIE", TRUE, IF "TX" \in has THEN "txen_on" ELSE "idle")
    BY <2>3, ReceiveWrite DEF OwnBit, At, BitLabel, Quiet
  <2>4. CASE SetBit("txen_on", "TXEN", TRUE, "idle")
    BY <2>4, ReceiveWrite DEF OwnBit, At, BitLabel, Quiet
  <2> QED
    BY <1>2, <2>1, <2>2, <2>3, <2>4 DEF serial_open
<1>3. CASE BeginWrite \/ BeginRead \/ BeginClose
  BY <1>0, <1>1, <1>3 DEF BeginWrite, BeginRead, BeginClose, Begin, usart, At
<1>4. CASE serial_write
  <2>1. CASE At("write") /\ GoTo("enqueue") /\ UNCHANGED <<has, inq, outq, UCSR0B, usart, answer>>
    BY <1>0, <1>1, <2>1 DEF usart, GoTo, At
  <2>2. CASE At("enqueue") /\ main' = [main EXCEPT !.todo = Left, !.pc = "enable"]
             /\ UNCHANGED <<has, inq, UCSR0B, usart, answer>>
    BY <1>0, <1>1, <2>2 DEF usart, At
  <2>3. CASE SetBit("enable", "UDRIE", TRUE, AfterWrite(main.todo))
    BY <2>3, ReceiveWrite DEF OwnBit, At, BitLabel, AfterWrite
  <2> QED
    BY <1>4, <2>1, <2>2, <2>3 DEF serial_write
<1>5. CASE serial_read
  <2>1. CASE At("read") /\ GoTo("front") /\ UNCHANGED <<has, inq, outq, UCSR0B, usart, answer>>
    BY <1>0, <1>1, <2>1 DEF usart, GoTo, At
  <2>2. CASE At("front") /\ main' = [main EXCEPT !.pc = "dequeue", !.r = queue_front(inq)]
             /\ UNCHANGED <<has, inq, outq, UCSR0B, usart, answer>>
    <3>1. main'.r = queue_front(inq) /\ inq' = inq
      BY <1>0, <2>2
    <3>2. ReceiverOK'
      BY <2>2, <3>1 DEF ReceiverOK, usart, queue_front
    <3>3. ReceiveStep
      BY <2>2 DEF ReceiveStep, Incoming, usart
    <3> QED
      BY <3>2, <3>3
  <2>3. CASE /\ At("dequeue") /\ inq' = queue_dequeue(inq) /\ answer' = main.r
             /\ main' = [main EXCEPT !.pc = "idle", !.r = NONE]
             /\ UNCHANGED <<has, outq, UCSR0B, usart>>
    <3>1. ~queue_is_empty(inq) /\ main.r = queue_front(inq)
      BY <2>3 DEF SerialInv, ChecksStayValid, ReceiverOK
    <3>2. PICK c, d : c = Ring!Contents(inq) /\ d = Ring!Contents(inq)'
      OBVIOUS
    <3>3. c \in Seq(Byte) /\ c # <<>> /\ d = Tail(c) /\ Head(c) = main.r
      BY <1>0, <2>3, <3>1, <3>2, QueueContents, ByteAssumption
    <3>4. c \o rxbuf # <<>> /\ Head(c \o rxbuf) = Head(c) /\ Tail(c \o rxbuf) = d \o rxbuf
      BY <1>0, <3>3, Prefix
    <3>5. Incoming # <<>> /\ answer' = Head(Incoming) /\ Incoming' = Tail(Incoming)
      BY <2>3, <3>2, <3>3, <3>4 DEF Incoming, usart
    <3>6. ReceiverOK'
      BY <1>0, <2>3 DEF ReceiverOK, usart, At
    <3> QED
      BY <2>3, <3>5, <3>6 DEF ReceiveStep
  <2> QED
    BY <1>5, <2>1, <2>2, <2>3 DEF serial_read
<1>6. CASE serial_close
  <2>1. CASE WaitSent
    BY <1>0, <1>1, <2>1 DEF WaitSent, usart, GoTo, At
  <2>2. CASE SetBit("txen_off", "TXEN", FALSE, IF "RX" \in has THEN "rxcie_off" ELSE "closed")
    BY <2>2, ReceiveWrite DEF OwnBit, At, BitLabel, Quiet
  <2>3. CASE SetBit("rxcie_off", "RXCIE", FALSE, "rxen_off")
    BY <2>3, ReceiveWrite DEF OwnBit, At, BitLabel, Quiet
  <2>4. CASE ReadControl("rxen_off")
    BY <1>0, <1>1, <2>4 DEF ReadControl, usart, At
  <2>5. CASE /\ At("rxen_off") /\ main.copy # NONE /\ rxbuf' = <<>>
             /\ UCSR0B' = [main.copy EXCEPT !.RXEN = FALSE]
             /\ main' = [main EXCEPT !.copy = NONE, !.pc = "closed"]
             /\ UNCHANGED <<has, inq, outq, txbuf, txshift, wire, answer>>
    <3>1. ~UCSR0B'.RXEN
      BY <1>0, <2>5 DEF Control
    <3>2. PICK c : c = Ring!Contents(inq) /\ c = Ring!Contents(inq)'
      BY <2>5
    <3>3. SubSeq(c \o rxbuf, 1, Len(c)) = c /\ c \o <<>> = c /\ Len(c) \in 0 .. Len(c \o rxbuf)
      BY <1>0, <3>2, LeaveOut
    <3>4. Incoming' = SubSeq(Incoming, 1, Len(c)) /\ Len(c) \in 0 .. Len(Incoming)
      BY <2>5, <3>2, <3>3 DEF Incoming
    <3>5. ~UCSR0B.RXEN => UNCHANGED <<UCSR0B.RXEN, Incoming, answer>>
      BY <1>0, <2>5, <3>1, <3>2 DEF ReceiverOK, Control, Incoming
    <3>6. ReceiverOK'
      BY <1>0, <2>5 DEF ReceiverOK, At
    <3> QED
      BY <2>5, <3>1, <3>4, <3>5, <3>6 DEF ReceiveStep
  <2> QED
    BY <1>6, <2>1, <2>2, <2>3, <2>4, <2>5 DEF serial_close
<1>7. CASE USART_RX_vect
  <2>0. /\ rxbuf # <<>> /\ rxbuf' = Tail(rxbuf) /\ UNCHANGED <<UCSR0B, main, answer>>
        /\ Head(rxbuf) \in Byte /\ UCSR0B.RXEN
    BY <1>0, <1>7 DEF USART_RX_vect, ReceiverOK
  <2>1. PICK c, d : c = Ring!Contents(inq) /\ d = Ring!Contents(inq)'
    OBVIOUS
  <2>2. CASE queue_is_full(inq)
    <3>1. inq' = inq /\ d = c
      BY <1>7, <2>1, <2>2 DEF USART_RX_vect
    <3>2. c \in Seq(Byte) /\ Len(c) = QL - 1
      BY <1>0, <2>1, <2>2, QueueContents, ByteAssumption
    <3>3. /\ c \o Tail(rxbuf) = SubSeq(c \o rxbuf, 1, Len(c))
                                  \o SubSeq(c \o rxbuf, Len(c) + 2, Len(c \o rxbuf))
          /\ Len(c \o rxbuf) > Len(c)
      BY <1>0, <2>0, <3>2, LeaveOut
    <3>4. Len(c) + 2 = QL + 1
      BY <3>2, QLAssumption
    <3>5. /\ Incoming' = SubSeq(Incoming, 1, QL - 1) \o SubSeq(Incoming, QL + 1, Len(Incoming))
          /\ Len(Incoming) > QL - 1
      BY <2>0, <2>1, <3>1, <3>2, <3>3, <3>4 DEF Incoming
    <3>6. ReceiverOK'
      BY <2>0, <3>1 DEF ReceiverOK, At, queue_front
    <3> QED
      BY <2>0, <3>5, <3>6 DEF ReceiveStep
  <2>3. CASE ~queue_is_full(inq)
    <3>1. inq' = queue_enqueue(inq, Head(rxbuf))
      BY <1>7, <2>3 DEF USART_RX_vect
    <3>2. c \in Seq(Byte) /\ d = Append(c, Head(rxbuf))
      BY <1>0, <2>0, <2>1, <2>3, <3>1, QueueContents
    <3>3. Incoming' = Incoming
      BY <1>0, <2>0, <2>1, <3>2, MoveOver DEF Incoming
    <3>4. ~queue_is_empty(inq) => queue_front(inq') = queue_front(inq)
      <4>1. inq' \in Ring!QueueOf(Byte) /\ ~queue_is_empty(inq')
        BY <1>0, <2>0, <2>3, <3>1, QueueFacts
      <4>2. Head(Ring!Contents(inq')) = queue_front(inq')
        BY <2>0, <4>1, QueueContents
      <4>3. ~queue_is_empty(inq) => c # <<>> /\ Head(c) = queue_front(inq)
        BY <1>0, <2>0, <2>1, QueueContents
      <4>4. c # <<>> => Head(Append(c, Head(rxbuf))) = Head(c)
        BY <2>0, <3>2
      <4>5. d = Ring!Contents(inq')
        BY <2>1 DEF Ring!Contents, Ring!Count, Ring!CellOf
      <4> QED
        BY <3>2, <4>2, <4>3, <4>4, <4>5
    <3>5. ReceiverOK'
      <4>1. At("dequeue")' => ~queue_is_empty(inq) /\ main.r = queue_front(inq)
        BY <2>0 DEF SerialInv, ChecksStayValid, ReceiverOK, At
      <4>2. queue_front(inq)' = queue_front(inq')
        BY DEF queue_front, Ring!i2cq_front
      <4> QED
        BY <2>0, <3>4, <4>1, <4>2 DEF ReceiverOK
    <3> QED
      BY <2>0, <3>3, <3>5 DEF ReceiveStep
  <2> QED
    BY <2>2, <2>3
<1>8. CASE USART_UDRE_vect
  <2>1. UCSR0B'.RXEN = UCSR0B.RXEN
    BY <1>0, <1>8 DEF USART_UDRE_vect, Control
  <2> QED
    BY <1>1, <1>8, <2>1 DEF USART_UDRE_vect
<1>9. CASE TxLoad \/ TxDone
  BY <1>1, <1>9 DEF TxLoad, TxDone
<1>10. ASSUME NEW b \in Byte, RxByte(b) PROVE ReceiverOK' /\ ReceiveStep
  <2>1. UCSR0B.RXEN /\ rxbuf' = Append(rxbuf, b) /\ UNCHANGED <<inq, UCSR0B, main, answer>>
    BY <1>10 DEF RxByte
  <2>2. PICK c : c = Ring!Contents(inq) /\ c = Ring!Contents(inq)'
    BY <2>1
  <2>3. c \o Append(rxbuf, b) = Append(c \o rxbuf, b)
    BY <1>0, <2>2
  <2>4. Incoming' = Append(Incoming, b)
    BY <2>1, <2>2, <2>3 DEF Incoming
  <2>5. ReceiverOK'
    BY <2>1 DEF ReceiverOK, At, queue_front
  <2> QED
    BY <2>1, <2>4, <2>5 DEF ReceiveStep
<1>11. CASE UNCHANGED vars
  BY <1>1, <1>11 DEF vars, usart
<1> QED
  BY <1>2, <1>3, <1>4, <1>5, <1>6, <1>7, <1>8, <1>9, <1>10, <1>11 DEF Next, MainStep

(***************************************************************************)
(* What the other end sends is returned by serial_read in that order, each *)
(* byte once; what is lost is the byte that finds inq full, or what was    *)
(* not yet taken from the USART when the port is closed.                   *)
(***************************************************************************)
THEOREM ReceivingOrder == Spec => ReceivesInOrder
<1>1. Init => ReceiverOK
  BY DEF Init, ReceiverOK, At
<1>2. Init => Receiving!Init
  <2> SUFFICES ASSUME Init PROVE Receiving!Init
    OBVIOUS
  <2>1. PICK v \in Byte : inq = queue_empty(Ring!ZeroedQueue(v)) /\ outq = inq
    BY ByteAssumption DEF Init
  <2>2. inq \in Ring!QueueOf(Byte) /\ queue_is_empty(inq)
    BY <2>1, Initially DEF SerialInv, DataOK, RegisterOK, LineOK, Init, Quiet
  <2>3. Ring!Contents(inq) = <<>>
    BY <2>2, QueueContents, ByteAssumption
  <2> QED
    BY <2>3, ByteAssumption DEF Init, Receiving!Init
<1>3. SerialInv /\ ReceiverOK /\ [Next]_vars => ReceiverOK' /\ ReceiveStep
  BY Receives
<1>4. SerialInv /\ SerialInv' /\ ReceiverOK /\ [Next]_vars => [Receiving!Next]_(Receiving!vars)
  BY <1>3, ReceiveStepIsStep
<1> QED
  BY Invariance, <1>1, <1>2, <1>3, <1>4, PTL DEF Spec, ReceivesInOrder, Receiving!Spec

=============================================================================
