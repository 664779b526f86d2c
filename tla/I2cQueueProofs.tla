--------------------------- MODULE I2cQueueProofs ---------------------------
(***************************************************************************)
(* The circular queue behaves as a bounded sequence, whatever its length   *)
(* and whatever it holds: each operation on the cells has the effect of    *)
(* the operation of Sequences on Contents.                                 *)
(***************************************************************************)
EXTENDS I2cQueue, SequenceTheorems, TLAPS

\* An index never leaves the array, and a step moves it.
LEMMA IncCell ==
  ASSUME NEW c \in Cell
  PROVE  inc(c) \in Cell /\ inc(c) # c
BY QueueLengthAssumption DEF inc, Cell

\* The operations keep the type of the structure.
LEMMA QueueTypes ==
  ASSUME NEW V, NEW q \in QueueOf(V), NEW v \in V
  PROVE  /\ i2cq_empty(q) \in QueueOf(V)
         /\ i2cq_enqueue(q, v) \in QueueOf(V)
         /\ i2cq_dequeue(q) \in QueueOf(V)
<1>1. q.front \in Cell /\ q.rear \in Cell /\ q.t \in [Cell -> V]
  BY DEF QueueOf
<1>2. inc(q.front) \in Cell /\ inc(q.rear) \in Cell /\ 0 \in Cell
  BY <1>1, IncCell, QueueLengthAssumption DEF Cell
<1> QED BY <1>1, <1>2 DEF QueueOf, i2cq_empty, i2cq_enqueue, i2cq_dequeue

\* The indices of a queue as integers, for the arithmetic below.
LEMMA QueueInts ==
  ASSUME NEW V, NEW q \in QueueOf(V)
  PROVE  /\ q.front \in Int /\ 0 <= q.front /\ q.front < I2CQ_L
         /\ q.rear \in Int /\ 0 <= q.rear /\ q.rear < I2CQ_L
         /\ I2CQ_L \in Int /\ 2 <= I2CQ_L
         /\ q.front \in Cell /\ q.rear \in Cell /\ q.t \in [Cell -> V]
<1>1. q.front \in Cell /\ q.rear \in Cell /\ q.t \in [Cell -> V]
  BY DEF QueueOf
<1> QED BY <1>1, QueueLengthAssumption DEF Cell

\* The count is a number of cells; it is 0 when the queue is empty and one
\* less than the number of cells when it is full.
LEMMA CountRange ==
  ASSUME NEW V, NEW q \in QueueOf(V)
  PROVE  /\ Count(q) \in Int /\ 0 <= Count(q) /\ Count(q) < I2CQ_L
         /\ i2cq_is_empty(q) <=> Count(q) = 0
         /\ i2cq_is_full(q) <=> Count(q) = I2CQ_L - 1
BY QueueInts DEF Count, i2cq_is_empty, i2cq_is_full, inc

\* The elements of Contents are cells of the queue.
LEMMA ContentsType ==
  ASSUME NEW V, NEW q \in QueueOf(V)
  PROVE  /\ Contents(q) \in Seq(V)
         /\ Len(Contents(q)) = Count(q)
         /\ \A j \in 1 .. Count(q) : CellOf(q, j) \in Cell
<1>1. Count(q) \in Nat
  BY CountRange
<1>2. ASSUME NEW j \in 1 .. Count(q)
      PROVE  CellOf(q, j) \in Cell
  <2>1. j \in Int /\ 1 <= j /\ j <= Count(q)
    BY <1>1
  <2>2. CellOf(q, j) \in Int /\ 0 <= CellOf(q, j) /\ CellOf(q, j) < I2CQ_L
    BY <2>1, QueueInts DEF Count, CellOf
  <2> QED BY <2>2, QueueInts DEF Cell
<1>3. Contents(q) \in [1 .. Count(q) -> V]
  BY <1>2, QueueInts DEF Contents
<1> QED BY <1>1, <1>2, <1>3

\* i2cq_enqueue on a queue with room appends, and writes only a free cell.
LEMMA EnqueueWithRoom ==
  ASSUME NEW V, NEW q \in QueueOf(V), NEW v \in V, ~i2cq_is_full(q)
  PROVE  /\ Contents(i2cq_enqueue(q, v)) = Append(Contents(q), v)
         /\ ~i2cq_is_empty(i2cq_enqueue(q, v))
         /\ ~i2cq_is_empty(q) => i2cq_enqueue(q, v).t[q.front] = q.t[q.front]
<1>1. PICK p : p = i2cq_enqueue(q, v)
  OBVIOUS
<1>2. p.t = [q.t EXCEPT ![q.rear] = v] /\ p.front = q.front /\ p.rear = inc(q.rear)
  BY <1>1 DEF i2cq_enqueue, QueueOf
<1>3. Count(p) = Count(q) + 1 /\ CellOf(p, Count(q) + 1) = q.rear /\ inc(q.rear) # q.front
  BY <1>2, QueueInts DEF Count, CellOf, inc, i2cq_is_full
<1>4. Count(q) \in Nat
  BY CountRange
<1>5. ASSUME NEW j \in 1 .. Count(q)
      PROVE  p.t[CellOf(p, j)] = Contents(q)[j]
  <2>1. j \in Int /\ 1 <= j /\ j <= Count(q)
    BY <1>4
  <2>2. CellOf(p, j) = CellOf(q, j) /\ CellOf(q, j) # q.rear
    BY <2>1, <1>2, QueueInts DEF CellOf, Count
  <2>3. CellOf(q, j) \in Cell
    BY ContentsType
  <2> QED BY <2>2, <2>3, <1>2, QueueInts DEF Contents
<1>6. p.t[q.rear] = v
  BY <1>2, QueueInts
<1>7. p \in QueueOf(V)
  BY <1>1, QueueTypes
<1>8. /\ Contents(q) \in Seq(V) /\ Len(Contents(q)) = Count(q)
      /\ Contents(p) \in Seq(V) /\ Len(Contents(p)) = Count(q) + 1
  BY <1>3, <1>7, ContentsType
<1>9. ASSUME NEW j \in 1 .. Count(q) + 1
      PROVE  Contents(p)[j] = Append(Contents(q), v)[j]
  <2>1. Contents(p)[j] = p.t[CellOf(p, j)]
    BY <1>3 DEF Contents
  <2>2. CASE j = Count(q) + 1
    BY <2>1, <2>2, <1>3, <1>6, <1>8, AppendProperties
  <2>3. CASE j # Count(q) + 1
    <3>1. j \in 1 .. Count(q)
      BY <2>3, <1>4
    <3>2. Append(Contents(q), v)[j] = Contents(q)[j]
      BY <3>1, <1>8, AppendProperties
    <3> QED BY <2>1, <3>1, <3>2, <1>5
  <2> QED BY <2>2, <2>3
<1>10. Contents(p) = Append(Contents(q), v)
  <2>1. Append(Contents(q), v) \in Seq(V) /\ Len(Append(Contents(q), v)) = Count(q) + 1
    BY <1>8, AppendProperties
  <2> QED BY <2>1, <1>8, <1>9, SeqEqual
<1>11. ~i2cq_is_empty(p)
  BY <1>2, <1>3 DEF i2cq_is_empty
<1>12. ~i2cq_is_empty(q) => p.t[q.front] = q.t[q.front]
  BY <1>2, QueueInts DEF i2cq_is_empty
<1> QED BY <1>1, <1>10, <1>11, <1>12

(***************************************************************************)
(* i2cq_enqueue is the append of a sequence bounded by I2CQ_L - 1: on a    *)
(* queue with room the element goes to the end, and the cell that          *)
(* i2cq_front points at keeps what it holds; on a full queue nothing       *)
(* changes, the element is dropped.                                        *)
(***************************************************************************)
THEOREM EnqueueAppends ==
  ASSUME NEW V, NEW q \in QueueOf(V), NEW v \in V
  PROVE  /\ Contents(i2cq_enqueue(q, v)) = IF Len(Contents(q)) < I2CQ_L - 1
                                           THEN Append(Contents(q), v)
                                           ELSE Contents(q)
         /\ Len(Contents(q)) = I2CQ_L - 1 => i2cq_enqueue(q, v) = q
         /\ Len(Contents(q)) > 0 =>
              i2cq_enqueue(q, v).t[i2cq_front(q)] = q.t[i2cq_front(q)]
<1>1. /\ Len(Contents(q)) = Count(q)
      /\ Count(q) \in Int /\ 0 <= Count(q) /\ Count(q) < I2CQ_L
      /\ i2cq_is_empty(q) <=> Count(q) = 0
      /\ i2cq_is_full(q) <=> Count(q) = I2CQ_L - 1
  BY CountRange, ContentsType
<1>2. CASE i2cq_is_full(q)
  <2>1. i2cq_enqueue(q, v) = q
    BY <1>2 DEF i2cq_enqueue
  <2> QED BY <1>1, <1>2, <2>1, QueueInts
<1>3. CASE ~i2cq_is_full(q)
  <2>1. Count(q) < I2CQ_L - 1 /\ Count(q) # I2CQ_L - 1
    BY <1>1, <1>3, QueueInts
  <2> QED BY <1>1, <1>3, <2>1, EnqueueWithRoom DEF i2cq_front
<1> QED BY <1>2, <1>3

\* i2cq_dequeue on a queue with elements removes the one that i2cq_front
\* points at, and writes no cell.
THEOREM DequeueTails ==
  ASSUME NEW V, NEW q \in QueueOf(V), ~i2cq_is_empty(q)
  PROVE  /\ Contents(i2cq_dequeue(q)) = Tail(Contents(q))
         /\ Head(Contents(q)) = q.t[i2cq_front(q)]
         /\ i2cq_dequeue(q).t = q.t
<1>1. PICK p : p = i2cq_dequeue(q)
  OBVIOUS
<1>2. p.t = q.t /\ p.front = inc(q.front) /\ p.rear = q.rear
  BY <1>1 DEF i2cq_dequeue, QueueOf
<1>3. Count(p) = Count(q) - 1 /\ Count(q) \in Nat \ {0} /\ CellOf(q, 1) = q.front
  BY <1>2, QueueInts DEF Count, CellOf, inc, i2cq_is_empty
<1>4. ASSUME NEW j \in 1 .. Count(q) - 1
      PROVE  p.t[CellOf(p, j)] = Contents(q)[j + 1]
  <2>1. j \in Int /\ 1 <= j /\ j + 1 <= Count(q)
    BY <1>3
  <2>2. CellOf(p, j) = CellOf(q, j + 1)
    BY <2>1, <1>2, QueueInts DEF CellOf, Count, inc
  <2> QED BY <2>1, <2>2, <1>2, <1>3 DEF Contents
<1>5. Contents(q) \in Seq(V) /\ Len(Contents(q)) = Count(q)
  BY ContentsType
<1>6. p \in QueueOf(V)
  BY <1>1, <1>2, QueueInts, IncCell DEF QueueOf, i2cq_dequeue
<1>7. Contents(p) \in Seq(V) /\ Len(Contents(p)) = Count(q) - 1
  BY <1>3, <1>6, ContentsType
<1>8. Contents(p) = Tail(Contents(q))
  <2>1. Contents(q) # <<>>
    BY <1>3, <1>5
  <2>2. /\ Tail(Contents(q)) \in Seq(V)
        /\ Len(Tail(Contents(q))) = Count(q) - 1
        /\ \A j \in 1 .. Count(q) - 1 : Tail(Contents(q))[j] = Contents(q)[j + 1]
    BY <2>1, <1>5, HeadTailProperties
  <2>3. \A j \in 1 .. Count(q) - 1 : Contents(p)[j] = p.t[CellOf(p, j)]
    BY <1>3 DEF Contents
  <2> QED BY <2>2, <2>3, <1>4, <1>7, SeqEqual
<1>9. Head(Contents(q)) = q.t[q.front]
  BY <1>3, <1>5 DEF Contents
<1> QED BY <1>1, <1>2, <1>8, <1>9 DEF i2cq_front
=============================================================================
