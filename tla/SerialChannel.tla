---------------------------- MODULE SerialChannel ----------------------------
(***************************************************************************)
(* What the serial port promises in each direction: the bytes come out in  *)
(* the order they were put in, each once.  The sending side loses none;    *)
(* the receiving side may lose a byte only when Kept older ones are not    *)
(* read yet, or because the port is closed.                                *)
(***************************************************************************)
EXTENDS Integers, Sequences

CONSTANTS Byte, Kept, Lossy

VARIABLES open,      \* bytes can be put in
          pending,   \* the bytes on their way
          last       \* the last byte that came out

vars == <<open, pending, last>>

Init == open = FALSE /\ pending = <<>> /\ last \notin Byte

Open == /\ ~open /\ open' = TRUE
        /\ UNCHANGED <<pending, last>>

Put(b) == /\ open
          /\ pending' = Append(pending, b)
          /\ UNCHANGED <<open, last>>

Get == /\ pending # <<>>
       /\ last' = Head(pending)
       /\ pending' = Tail(pending)
       /\ UNCHANGED open

Lose == /\ Lossy /\ Len(pending) > Kept
        /\ pending' = SubSeq(pending, 1, Kept) \o SubSeq(pending, Kept + 2, Len(pending))
        /\ UNCHANGED <<open, last>>

Close == /\ open /\ open' = FALSE
         /\ IF Lossy THEN \E n \in 0 .. Len(pending) : pending' = SubSeq(pending, 1, n)
                     ELSE UNCHANGED pending
         /\ UNCHANGED last

Next == Open \/ (\E b \in Byte : Put(b)) \/ Get \/ Lose \/ Close

Spec == Init /\ [][Next]_vars
=============================================================================
