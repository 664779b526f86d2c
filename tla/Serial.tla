------------------------------- MODULE Serial -------------------------------
(***************************************************************************)
(* The serial port driver (serial.c over queue.c): main writes and reads   *)
(* bytes through two circular queues that the USART interrupts empty and   *)
(* fill.                                                                   *)
(*                                                                         *)
(* Main is the only user.  Its calls are cut at every queue operation,     *)
(* which is atomic, and at every access to the register UCSR0B: a bit of   *)
(* it is set or cleared by a read, a change and a write, and an interrupt  *)
(* may come in between.  An interrupt routine is one action.               *)
(***************************************************************************)
EXTENDS Integers, Sequences

CONSTANTS QL,        \* cells of a queue (32 in queue.h)
          Byte,      \* what goes over the line
          CR, NL,    \* '\r' and '\n'
          Texts,     \* the texts given to serial_write_s
          NONE       \* no register copy, no byte

ASSUME QLAssumption == QL \in 2 .. 255
ASSUME ByteAssumption == CR \in Byte /\ NL \in Byte /\ NONE \notin Byte
ASSUME TextsAssumption == Texts \subseteq Seq(Byte)

Ring == INSTANCE I2cQueue WITH I2CQ_L <- QL

\* What serial.h may compile in: both directions or one of them.
Build == {{"RX", "TX"}, {"RX"}, {"TX"}}

VARIABLES
  has,        \* the directions compiled in
  inq, outq,  \* the queues of serial.c
  UCSR0B,     \* control register: the enable bits
  txbuf,      \* UDR0 on the sending side: empty or one byte
  txshift,    \* the sending shift register: empty or one byte
  rxbuf,      \* the receive buffer of the USART: up to two bytes
  main,       \* where main is in a call of the driver
  wire,       \* the last byte that went out complete
  answer      \* the last byte serial_read returned

usart == <<txbuf, txshift, rxbuf, wire>>
vars == <<has, inq, outq, UCSR0B, usart, main, answer>>

-----------------------------------------------------------------------------
queue_empty(q) == Ring!i2cq_empty(q)

queue_is_empty(q) == Ring!i2cq_is_empty(q)

queue_is_full(q) == Ring!i2cq_is_full(q)

queue_front(q) == q.t[Ring!i2cq_front(q)]

queue_enqueue(q, v) == Ring!i2cq_enqueue(q, v)

queue_dequeue(q) == Ring!i2cq_dequeue(q)

-----------------------------------------------------------------------------
(***************************************************************************)
(* The interrupts.  UDRE is requested as long as UDR0 is empty, RX as long *)
(* as a received byte is not read.                                         *)
(***************************************************************************)
\* Faulty variant: on a full queue the oldest byte is discarded.
RxKeepsNewest ==
  /\ UCSR0B.RXCIE /\ rxbuf # <<>>
  /\ inq' = queue_enqueue(IF queue_is_full(inq) THEN queue_dequeue(inq) ELSE inq, Head(rxbuf))
  /\ rxbuf' = Tail(rxbuf)
  /\ UNCHANGED <<has, outq, UCSR0B, txbuf, txshift, main, wire, answer>>

USART_RX_vect ==
  /\ UCSR0B.RXCIE /\ rxbuf # <<>>
  /\ inq' = IF queue_is_full(inq) THEN inq ELSE queue_enqueue(inq, Head(rxbuf))
  /\ rxbuf' = Tail(rxbuf)
  /\ UNCHANGED <<has, outq, UCSR0B, txbuf, txshift, main, wire, answer>>

\* Faulty variant: the byte stays in the queue after it is sent.
UdreNoDequeue ==
  /\ UCSR0B.UDRIE /\ txbuf = <<>>
  /\ IF queue_is_empty(outq)
     THEN UCSR0B' = [UCSR0B EXCEPT !.UDRIE = FALSE] /\ UNCHANGED <<outq, txbuf>>
     ELSE txbuf' = <<queue_front(outq)>> /\ UNCHANGED <<outq, UCSR0B>>
  /\ UNCHANGED <<has, inq, txshift, rxbuf, main, wire, answer>>

USART_UDRE_vect ==
  /\ UCSR0B.UDRIE /\ txbuf = <<>>
  /\ IF queue_is_empty(outq)
     THEN UCSR0B' = [UCSR0B EXCEPT !.UDRIE = FALSE] /\ UNCHANGED <<outq, txbuf>>
     ELSE /\ txbuf' = <<queue_front(outq)>>
          /\ outq' = queue_dequeue(outq)
          /\ UNCHANGED UCSR0B
  /\ UNCHANGED <<has, inq, txshift, rxbuf, main, wire, answer>>

-----------------------------------------------------------------------------
(***************************************************************************)
(* Main.  main.pc is the next step, main.todo what its call still has to   *)
(* write, the bytes of each character, main.r the byte serial_read got and *)
(* main.copy the copy of UCSR0B while main changes a bit.                  *)
(***************************************************************************)
At(p) == main.pc = p
GoTo(p) == main' = [main EXCEPT !.pc = p]

\* UCSR0B |= bit or UCSR0B &= ~bit: a read into a CPU register, then a write.
ReadControl(p) == /\ At(p) /\ main.copy = NONE
                  /\ main' = [main EXCEPT !.copy = UCSR0B]
                  /\ UNCHANGED <<has, inq, outq, UCSR0B, usart, answer>>

WriteControl(p, bit, on, next) ==
  /\ At(p) /\ main.copy # NONE
  /\ UCSR0B' = [main.copy EXCEPT ![bit] = on]
  /\ main' = [main EXCEPT !.copy = NONE, !.pc = next]
  /\ UNCHANGED <<has, inq, outq, usart, answer>>

SetBit(p, bit, on, next) == ReadControl(p) \/ WriteControl(p, bit, on, next)

serial_can_read == ~queue_is_empty(inq)

\* Faulty variant: nobody looks whether there is room.
CanAlwaysWrite == TRUE

serial_can_write == ~queue_is_full(outq)

\* The bytes that the operations of serial.h write, one by one, for each
\* character of a text: '\n' ends a line.
serial_eol == <<CR, NL>>

serial_write_s(t) == [j \in DOMAIN t |-> IF t[j] = NL THEN serial_eol ELSE <<t[j]>>]

\* An operation begins; todo is what it will write.
Begin(p, todo) == /\ At("idle")
                  /\ main' = [main EXCEPT !.pc = p, !.todo = todo]
                  /\ UNCHANGED <<has, inq, outq, UCSR0B, usart, answer>>

BeginRead == "RX" \in has /\ Begin("read", <<>>)

BeginWrite == /\ "TX" \in has
              /\ \/ \E c \in Byte : Begin("write", <<<<c>>>>)
                 \/ Begin("write", <<serial_eol>>)
                 \/ \E t \in Texts : t # <<>> /\ Begin("write", serial_write_s(t))

\* The byte that is written next, and what is left then.
NextByte == Head(Head(main.todo))

Left == IF Len(Head(main.todo)) = 1 THEN Tail(main.todo)
        ELSE <<Tail(Head(main.todo))>> \o Tail(main.todo)

AfterWrite(todo) == IF todo = <<>> THEN "idle" ELSE "write"

\* Faulty variant: the interrupt is enabled before the byte is queued.
EnableFirst ==
  \/ /\ At("write") /\ serial_can_write
     /\ GoTo("enable")
     /\ UNCHANGED <<has, inq, outq, UCSR0B, usart, answer>>
  \/ SetBit("enable", "UDRIE", TRUE, "enqueue")
  \/ /\ At("enqueue")
     /\ outq' = queue_enqueue(outq, NextByte)
     /\ main' = [main EXCEPT !.todo = Left, !.pc = AfterWrite(Left)]
     /\ UNCHANGED <<has, inq, UCSR0B, usart, answer>>

serial_write ==
  \/ /\ At("write") /\ serial_can_write
     /\ GoTo("enqueue")
     /\ UNCHANGED <<has, inq, outq, UCSR0B, usart, answer>>
  \/ /\ At("enqueue")
     /\ outq' = queue_enqueue(outq, NextByte)
     /\ main' = [main EXCEPT !.todo = Left, !.pc = "enable"]
     /\ UNCHANGED <<has, inq, UCSR0B, usart, answer>>
  \/ SetBit("enable", "UDRIE", TRUE, AfterWrite(main.todo))

serial_read ==
  \/ /\ At("read") /\ serial_can_read
     /\ GoTo("front")
     /\ UNCHANGED <<has, inq, outq, UCSR0B, usart, answer>>
  \/ /\ At("front")
     /\ main' = [main EXCEPT !.pc = "dequeue", !.r = queue_front(inq)]
     /\ UNCHANGED <<has, inq, outq, UCSR0B, usart, answer>>
  \/ /\ At("dequeue")
     /\ inq' = queue_dequeue(inq)
     /\ answer' = main.r
     /\ main' = [main EXCEPT !.pc = "idle", !.r = NONE]
     /\ UNCHANGED <<has, outq, UCSR0B, usart>>

serial_open == \/ /\ At("closed") /\ GoTo(IF "RX" \in has THEN "rxen_on" ELSE "txen_on")
                  /\ UNCHANGED <<has, inq, outq, UCSR0B, usart, answer>>
               \/ SetBit("rxen_on", "RXEN", TRUE, "rxcie_on")
               \/ SetBit("rxcie_on", "RXCIE", TRUE, IF "TX" \in has THEN "txen_on" ELSE "idle")
               \/ SetBit("txen_on", "TXEN", TRUE, "idle")

\* Faulty variant: serial_close does not wait.
CloseAtOnce == At("closing") /\ GoTo("txen_off") /\ UNCHANGED <<has, inq, outq, UCSR0B, usart, answer>>

BeginClose == Begin(IF "TX" \in has THEN "closing" ELSE "rxcie_off", <<>>)

WaitSent == /\ At("closing") /\ ~UCSR0B.UDRIE
            /\ GoTo("txen_off")
            /\ UNCHANGED <<has, inq, outq, UCSR0B, usart, answer>>

\* Clearing RXEN empties the receive buffer.
serial_close ==
  \/ WaitSent
  \/ SetBit("txen_off", "TXEN", FALSE, IF "RX" \in has THEN "rxcie_off" ELSE "closed")
  \/ SetBit("rxcie_off", "RXCIE", FALSE, "rxen_off")
  \/ ReadControl("rxen_off")
  \/ /\ At("rxen_off") /\ main.copy # NONE
     /\ UCSR0B' = [main.copy EXCEPT !.RXEN = FALSE]
     /\ rxbuf' = <<>>
     /\ main' = [main EXCEPT !.copy = NONE, !.pc = "closed"]
     /\ UNCHANGED <<has, inq, outq, txbuf, txshift, wire, answer>>

-----------------------------------------------------------------------------
(***************************************************************************)
(* The USART and the other end of the line.  A byte in UDR0 waits for the  *)
(* shift register; a transmission under way ends even with TXEN cleared.   *)
(* The interrupts are served before the receive buffer overruns.           *)
(***************************************************************************)
TxLoad == /\ txbuf # <<>> /\ txshift = <<>>
          /\ txshift' = txbuf
          /\ txbuf' = <<>>
          /\ UNCHANGED <<has, inq, outq, UCSR0B, rxbuf, main, wire, answer>>

TxDone == /\ txshift # <<>>
          /\ wire' = Head(txshift)
          /\ txshift' = <<>>
          /\ UNCHANGED <<has, inq, outq, UCSR0B, txbuf, rxbuf, main, answer>>

RxByte(b) == /\ UCSR0B.RXEN /\ Len(rxbuf) < 2
             /\ rxbuf' = Append(rxbuf, b)
             /\ UNCHANGED <<has, inq, outq, UCSR0B, txbuf, txshift, main, wire, answer>>

-----------------------------------------------------------------------------
\* The state after serial_setup.
Init == LET v == CHOOSE b \in Byte : TRUE IN
        /\ has \in Build
        /\ inq = queue_empty(Ring!ZeroedQueue(v))
        /\ outq = queue_empty(Ring!ZeroedQueue(v))
        /\ UCSR0B = [RXCIE |-> FALSE, UDRIE |-> FALSE, RXEN |-> FALSE, TXEN |-> FALSE]
        /\ txbuf = <<>> /\ txshift = <<>> /\ rxbuf = <<>>
        /\ main = [pc |-> "closed", todo |-> <<>>, r |-> NONE, copy |-> NONE]
        /\ wire = NONE /\ answer = NONE

\* The calls that have begun.
MainStep == serial_write \/ serial_read \/ serial_close

Next == \/ serial_open \/ BeginWrite \/ BeginRead \/ BeginClose
        \/ MainStep
        \/ USART_RX_vect \/ USART_UDRE_vect
        \/ TxLoad \/ TxDone \/ \E b \in Byte : RxByte(b)

Spec == Init /\ [][Next]_vars

(***************************************************************************)
(* The CPU goes on with main between interrupts, takes the interrupts that *)
(* are requested, and the USART sends.  Nothing makes the other end send.  *)
(***************************************************************************)
Fairness == /\ WF_vars(MainStep)
            /\ WF_vars(USART_UDRE_vect) /\ WF_vars(USART_RX_vect)
            /\ WF_vars(TxLoad) /\ WF_vars(TxDone)

FairSpec == Spec /\ Fairness
=============================================================================
