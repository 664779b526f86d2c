------------------------------ MODULE SerialMC ------------------------------
(***************************************************************************)
(* Instances of the serial port for TLC.  Three cells, two for bytes: the  *)
(* indices wrap, a queue is full with main waiting, a byte is discarded.   *)
(* Two different bytes are enough to see one lost, repeated or overtaken.  *)
(***************************************************************************)
EXTENDS SerialProps

CONSTANTS cr, nl

Line == {cr, nl}
ShortTexts == {<<cr>>, <<nl, cr>>}

\* Where only progress is asked, all bytes can be the same.
Same == {cr}
OneText == {<<cr>>}

\* The cells that hold no byte and the bytes already delivered are not read
\* again.
LiveState == <<has, Ring!Contents(inq), inq.front, Ring!Contents(outq), outq.front,
               UCSR0B, txbuf, txshift, rxbuf, main>>
=============================================================================
