----------------------------- MODULE SerialProps -----------------------------
(***************************************************************************)
(* What the serial port driver must do.                                    *)
(***************************************************************************)
EXTENDS Serial

Control == [RXCIE : BOOLEAN, UDRIE : BOOLEAN, RXEN : BOOLEAN, TXEN : BOOLEAN]

OneByte == {<<>>} \cup {<<b>> : b \in Byte}

\* The type of every variable: queues, registers, the USART and main.
TypeOK ==
  /\ has \in Build
  /\ inq \in Ring!QueueOf(Byte) /\ outq \in Ring!QueueOf(Byte)
  /\ UCSR0B \in Control
  /\ txbuf \in OneByte /\ txshift \in OneByte
  /\ rxbuf \in Seq(Byte) /\ Len(rxbuf) <= 2
  /\ main \in [pc : {"closed", "rxen_on", "rxcie_on", "txen_on", "idle", "write", "enqueue",
                     "enable", "read", "front", "dequeue", "closing", "txen_off",
                     "rxcie_off", "rxen_off"},
               todo : Seq(Seq(Byte)), r : Byte \cup {NONE}, copy : Control \cup {NONE}]
  /\ wire \in Byte \cup {NONE} /\ answer \in Byte \cup {NONE}

-----------------------------------------------------------------------------
(***************************************************************************)
(* serial.c, the note at its end: what a waiting loop saw stays true until *)
(* main uses it, for an interrupt only fills inq and only empties outq.    *)
(***************************************************************************)
ChecksStayValid == /\ At("enqueue") => ~queue_is_full(outq)
                   /\ At("front") \/ At("dequeue") => ~queue_is_empty(inq)

\* No lost wake-up: whenever there is a byte to send the UDRE interrupt is
\* enabled, or main is about to enable it.
SenderAwake == ~queue_is_empty(outq) => UCSR0B.UDRIE \/ At("enable")

\* With the transmitter off there is nothing to send and no interrupt to
\* send it: serial_close waited for all, and serial_open starts clean.
ClosedIsQuiet == ~UCSR0B.TXEN => queue_is_empty(outq) /\ ~UCSR0B.UDRIE

\* The bit that each writing step of main sets or clears.
OwnBit == CASE At("enable") -> "UDRIE"
            [] At("rxen_on") \/ At("rxen_off") -> "RXEN"
            [] At("rxcie_on") \/ At("rxcie_off") -> "RXCIE"
            [] OTHER -> "TXEN"

\* Main changes UCSR0B from a copy that an interrupt may have made stale: it
\* must never undo what the interrupt did to the other bits.
OnlyOwnBit ==
  [][main.copy # NONE /\ main'.copy = NONE
       => \A b \in {"RXCIE", "UDRIE", "RXEN", "TXEN"} \ {OwnBit} : UCSR0B'[b] = UCSR0B[b]]_vars

\* Each direction is a channel that keeps the order and loses nothing, save
\* that the receiver discards what finds inq full.
Sending == INSTANCE SerialChannel
             WITH open <- UCSR0B.TXEN, pending <- txshift \o txbuf \o Ring!Contents(outq),
                  last <- wire, Kept <- 0, Lossy <- FALSE

Receiving == INSTANCE SerialChannel
               WITH open <- UCSR0B.RXEN, pending <- Ring!Contents(inq) \o rxbuf,
                    last <- answer, Kept <- QL - 1, Lossy <- TRUE

SendsInOrder == Sending!Spec
ReceivesInOrder == Receiving!Spec

-----------------------------------------------------------------------------
\* Every byte that was written is sent: the front of outq always moves on.
EveryByteIsSent ==
  \A c \in Ring!Cell : outq.front = c /\ ~queue_is_empty(outq) ~> outq.front # c

\* The calls return: one that writes, however full outq is, and serial_close,
\* whose wait for the sender ends.
CallsReturn == /\ main.todo # <<>> ~> main.todo = <<>> /\ At("idle")
               /\ At("closing") \/ At("rxcie_off") ~> At("closed")
=============================================================================
