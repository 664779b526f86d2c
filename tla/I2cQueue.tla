------------------------------ MODULE I2cQueue ------------------------------
(***************************************************************************)
(* The circular queue of i2cq.c, as operators on its structure             *)
(* [t, front, rear].  The queued elements fill the cells [front, rear), so *)
(* the capacity is I2CQ_L - 1: one cell stays free to tell full from       *)
(* empty.  queue.c is the same algorithm on bytes; Serial reuses this      *)
(* module for it.                                                          *)
(***************************************************************************)
EXTENDS Integers, Sequences

CONSTANT I2CQ_L        \* number of cells (10 in i2cq.h, 32 in queue.h)

\* front and rear are uint8_t: with fewer than 256 cells they cannot wrap.
ASSUME QueueLengthAssumption == I2CQ_L \in 2 .. 255

Cell == 0 .. I2CQ_L - 1

QueueOf(V) == [t : [Cell -> V], front : Cell, rear : Cell]

\* The static queue of a driver before any operation: zeroed memory.
ZeroedQueue(v) == [t |-> [c \in Cell |-> v], front |-> 0, rear |-> 0]

-----------------------------------------------------------------------------
\* Faulty variant: the index goes round one cell too late.
IncPastEnd(v) == IF v = I2CQ_L THEN 0 ELSE v + 1

inc(v) == IF v + 1 = I2CQ_L THEN 0 ELSE v + 1

i2cq_empty(q) == [q EXCEPT !.front = 0, !.rear = 0]

i2cq_is_empty(q) == q.front = q.rear

\* Faulty variant (mutants): the free cell is forgotten, a queue is never full.
NeverFull(q) == FALSE

i2cq_is_full(q) == inc(q.rear) = q.front

\* The code returns the address of the cell; here the cell's index.
i2cq_front(q) == q.front

i2cq_enqueue(q, v) ==
  IF i2cq_is_full(q) THEN q
  ELSE [q EXCEPT !.t[q.rear] = v, !.rear = inc(q.rear)]

i2cq_dequeue(q) ==
  IF i2cq_is_empty(q) THEN q ELSE [q EXCEPT !.front = inc(q.front)]

-----------------------------------------------------------------------------
(***************************************************************************)
(* The sequence a queue stands for.                                        *)
(***************************************************************************)
Count(q) == IF q.rear >= q.front THEN q.rear - q.front
                                 ELSE q.rear + I2CQ_L - q.front

\* The cell of the j-th queued element, counted from 1.
CellOf(q, j) == IF q.front + j - 1 < I2CQ_L THEN q.front + j - 1
                                            ELSE q.front + j - 1 - I2CQ_L

Contents(q) == [j \in 1 .. Count(q) |-> q.t[CellOf(q, j)]]
=============================================================================
