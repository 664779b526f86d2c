----------------------------- MODULE I2cProofs ------------------------------
(***************************************************************************)
(* The safety of the i2c driver for every queue length, every set of users *)
(* and every message length.                                               *)
(*                                                                         *)
(* TypeOK, AutomatonAwake and BusFollowsAutomaton are not inductive alone: *)
(* the driver is safe because the three hold together.  A cell can be used *)
(* as a request only because current_req is the front of a queue that is   *)
(* not empty; the queue is dequeued only when an event was awaited; and    *)
(* the event is one the state expects only because the automaton ordered   *)
(* it.  I2cInv puts them together with what the typing of the cells needs. *)
(***************************************************************************)
EXTENDS I2cProps, I2cQueueProofs

Requests == Request \cup {ZeroRequest}

\* The statics of i2c.c, the users' variables and the registers.  The cells
\* between front and rear hold requests the users made, and a byte that was
\* received is on the wire.
DriverOK == /\ requests \in QueueOf(Requests)
            /\ Contents(requests) \in Seq(Request)
            /\ ida_state \in State
            /\ current_req \in Cell \cup {NULL}
            /\ i \in 0 .. 255
            /\ status \in [Clients -> Status]
            /\ buffer \in [Clients -> [0 .. MaxLen - 1 -> Int]]
            /\ twi \in TwiReg
            /\ twi.int /\ twi.sr = "TW_MR_DATA_ACK" => bus.wire # <<>>
            /\ AutomatonAwake
            /\ EventExpected
            /\ StopComesFirst

\* A call under way still has something to put.
CpuOK == /\ cpu \in [Context -> [pc : {"idle", "ready", "called", "prepared", "atomic",
                                       "closing"},
                                 todo : Seq(Request)]]
         /\ \A c \in Context :
              cpu[c].pc \in {"called", "prepared", "atomic"} => cpu[c].todo # <<>>

BusOK == bus \in [owner : {"free", "started", "MT", "MR"}, node : Clients \cup {NULL},
                  wire : Seq(Int)]

I2cInv == DriverOK /\ CpuOK /\ BusOK

-----------------------------------------------------------------------------
\* Every call of the interface builds at least one well formed request.
LEMMA CallsAreRequests ==
  ASSUME NEW k \in Clients, NEW reqs \in Calls(k)
  PROVE  reqs \in Seq(Request) /\ reqs # <<>>
<1>1. \A n \in 1 .. MaxLen, s \in Clients \cup {NULL} :
        /\ i2c_send(k, n, s) \in Seq(Request) /\ Len(i2c_send(k, n, s)) = 1
        /\ i2c_receive(k, n, s) \in Seq(Request) /\ Len(i2c_receive(k, n, s)) = 1
  BY DEF i2c_send, i2c_receive, Request
<1>2. /\ i2c_receive_uint8(k, k) \in Seq(Request) /\ Len(i2c_receive_uint8(k, k)) = 1
      /\ i2c_send_uint8(k, k) \in Seq(Request) /\ Len(i2c_send_uint8(k, k)) = 1
      /\ i2c_send_2uint8(k, k) \in Seq(Request) /\ Len(i2c_send_2uint8(k, k)) = 1
  BY LenAssumption
     DEF i2c_receive_uint8, i2c_receive, i2c_send_uint8, i2c_send_2uint8, Request
<1>3. ASSUME NEW n \in 1 .. MaxLen, NEW m \in 1 .. MaxLen
      PROVE  i2c_sandr(k, n, m, k) \in Seq(Request) /\ Len(i2c_sandr(k, n, m, k)) = 2
  <2>1. i2c_send(k, n, NULL) \in Seq(Request) /\ Len(i2c_send(k, n, NULL)) = 1
    BY <1>1
  <2>2. i2c_receive(k, m, k) \in Seq(Request) /\ Len(i2c_receive(k, m, k)) = 1
    BY <1>1
  <2>3. ASSUME NEW s \in Seq(Request), NEW t \in Seq(Request), Len(s) = 1, Len(t) = 1
        PROVE  s \o t \in Seq(Request) /\ Len(s \o t) = 2
    <3>1. s \o t \in Seq(Request) /\ Len(s \o t) = Len(s) + Len(t)
      BY ConcatProperties, Zenon
    <3> QED BY <2>3, <3>1
  <2>4. i2c_sandr(k, n, m, k) = i2c_send(k, n, NULL) \o i2c_receive(k, m, k)
    BY DEF i2c_sandr
  <2> QED BY <2>1, <2>2, <2>3, <2>4
<1>4. PICK f \in {"send", "forget", "receive", "bytes", "sandr"} : reqs \in CallsOf(k, f)
  BY CallAssumption DEF Calls
<1>5. reqs \in Seq(Request) /\ Len(reqs) > 0
  <2>1. CASE f = "send"
    BY <2>1, <1>1, <1>4 DEF CallsOf
  <2>2. CASE f = "forget"
    BY <2>2, <1>1, <1>4 DEF CallsOf
  <2>3. CASE f = "receive"
    BY <2>3, <1>1, <1>2, <1>4 DEF CallsOf
  <2>4. CASE f = "bytes"
    BY <2>4, <1>2, <1>4 DEF CallsOf
  <2>5. CASE f = "sandr"
    <3>1. PICK n \in 1 .. MaxLen, m \in 1 .. MaxLen : reqs = i2c_sandr(k, n, m, k)
      BY <2>5, <1>4 DEF CallsOf
    <3> QED BY <3>1, <1>3
  <2> QED BY <1>4, <2>1, <2>2, <2>3, <2>4, <2>5
<1> QED BY <1>5

\* Register w orders an operation, has its interrupt enabled and has nothing
\* to attend.
Ordered(w, kind) == /\ w \in TwiReg
                    /\ w.en /\ w.ie /\ ~w.int /\ w.sr = "TW_NO_INFO"
                    /\ w.op.kind = kind /\ w.op # NoOp

\* ... and no STOP to put on the bus.
OrderedAlone(w, kind) == Ordered(w, kind) /\ ~w.stop

\* Each control word that the driver writes orders what its name says.
LEMMA StartOrdered ==
  ASSUME NEW w \in TwiReg
  PROVE  Ordered(throw_start(w), "start")
BY DEF TwiReg, throw_start, Go, Op, NoOp, Ordered

LEMMA AddressOrdered ==
  ASSUME NEW w \in TwiReg, ~w.stop, NEW k \in Clients, NEW kind \in {"read", "write"}
  PROVE  OrderedAlone(throw_byte(w, kind, k), kind)
BY DEF TwiReg, throw_byte, Go, Op, NoOp, Ordered, OrderedAlone

LEMMA DataOrdered ==
  ASSUME NEW w \in TwiReg, ~w.stop, NEW n \in Int
  PROVE  OrderedAlone(throw_byte(w, "data", n), "data")
BY DEF TwiReg, throw_byte, Go, Op, NoOp, Ordered, OrderedAlone

LEMMA ReceiveOrdered ==
  ASSUME NEW w \in TwiReg, ~w.stop, NEW last \in BOOLEAN
  PROVE  OrderedAlone(throw_request_byte(w, last), IF last THEN "recvNACK" ELSE "recvACK")
BY DEF TwiReg, throw_request_byte, Go, Op, NoOp, Ordered, OrderedAlone

\* A STOP leaves the peripheral with nothing to answer and its interrupt off.
LEMMA StopFields ==
  ASSUME NEW w \in TwiReg, NEW x, x = disable_i2c_interrupts(throw_stop(w))
  PROVE  x \in TwiReg /\ ~x.ie /\ ~x.int /\ x.op = NoOp /\ x.sr = "TW_NO_INFO"
BY DEF TwiReg, disable_i2c_interrupts, throw_stop, Go, NoOp, Op

\* Reporting the end of a request writes one status variable at most.
LEMMA ReportType ==
  ASSUME NEW r \in Request, NEW s \in Status, status \in [Clients -> Status], Report(r, s)
  PROVE  status' \in [Clients -> Status]
BY DEF Report, Request

\* While the automaton is not Idle its request is the first of the queue.
LEMMA CurrentIsHead ==
  ASSUME DriverOK, ida_state # "Idle"
  PROVE  /\ current_req = requests.front
         /\ ~i2cq_is_empty(requests)
         /\ Current \in Request
<1>1. current_req = requests.front /\ ~i2cq_is_empty(requests)
  BY DEF DriverOK, AutomatonAwake
<1>2. Head(Contents(requests)) = Current /\ Count(requests) # 0
  BY <1>1, DequeueTails, CountRange DEF DriverOK, Current, i2cq_front
<1>3. Contents(requests) # <<>>
  BY <1>2, ContentsType DEF DriverOK
<1> QED BY <1>1, <1>2, <1>3, HeadTailProperties DEF DriverOK

\* The end of a request leaves the automaton starting the next one, or Idle
\* with an empty queue.
LEMMA FetchOrIdleKeeps ==
  ASSUME DriverOK, ida_state # "Idle", NEW s \in Status,
         fetch_or_idle(s, requests), bus' = bus
  PROVE  DriverOK'
<1> USE DEF Requests
<1>1. PICK n : n = i2cq_dequeue(requests)
  OBVIOUS
<1>2. /\ current_req = requests.front
      /\ ~i2cq_is_empty(requests)
      /\ Current \in Request
  BY CurrentIsHead
<1>3. n \in QueueOf(Requests) /\ Contents(n) = Tail(Contents(requests))
  <2>1. ZeroRequest \in Requests
    OBVIOUS
  <2> QED BY <1>1, <1>2, <2>1, QueueTypes, DequeueTails DEF DriverOK
<1>4. Contents(n) \in Seq(Request)
  <2>1. Count(requests) # 0 /\ Len(Contents(requests)) = Count(requests)
    BY <1>2, CountRange, ContentsType DEF DriverOK
  <2>2. Contents(requests) # <<>>
    BY <2>1
  <2> QED BY <1>3, <2>2, HeadTailProperties DEF DriverOK
<1>5. status' \in [Clients -> Status] /\ requests' = n /\ i' = i /\ buffer' = buffer
  BY <1>1, <1>2, ReportType DEF fetch_or_idle, DriverOK, Current
<1>6. CASE i2cq_is_empty(n)
  <2>1. /\ twi' = disable_i2c_interrupts(throw_stop(twi))
        /\ ida_state' = "Idle" /\ current_req' = current_req
    BY <1>1, <1>6 DEF fetch_or_idle
  <2>2. twi' \in TwiReg /\ ~twi'.ie /\ ~twi'.int /\ twi'.op = NoOp /\ twi'.sr = "TW_NO_INFO"
    BY <2>1, StopFields DEF DriverOK
  <2>3. AutomatonAwake'
    BY <1>5, <1>6, <2>1, <2>2 DEF AutomatonAwake
  <2>4. EventExpected' /\ StopComesFirst'
    BY <2>1 DEF EventExpected, StopComesFirst
  <2> QED BY <1>3, <1>4, <1>5, <2>1, <2>2, <2>3, <2>4 DEF DriverOK, State
<1>7. CASE ~i2cq_is_empty(n)
  <2>1. /\ twi' = throw_start(twi)
        /\ ida_state' = "Starting" /\ current_req' = n.front
    BY <1>1, <1>7 DEF fetch_or_idle, i2cq_front
  <2>2. Ordered(twi', "start")
    BY <2>1, StartOrdered DEF DriverOK
  <2>3. AutomatonAwake'
    BY <1>5, <1>7, <2>1, <2>2 DEF AutomatonAwake, Ordered
  <2>4. EventExpected' /\ StopComesFirst'
    BY <2>1, <2>2 DEF EventExpected, StopComesFirst, Ordered
  <2>5. n.front \in Cell
    BY <1>3, QueueInts
  <2> QED BY <1>3, <1>4, <1>5, <2>1, <2>2, <2>3, <2>4, <2>5 DEF DriverOK, State, Ordered
<1> QED BY <1>6, <1>7

\* i is a uint8_t.
Index == 0 .. 255

(***************************************************************************)
(* The transitions that stay with the request: w is the word written, kind *)
(* what it orders, n the next index.                                       *)
(***************************************************************************)
LEMMA GotoKeeps ==
  ASSUME DriverOK, ida_state # "Idle", bus' = bus,
         NEW s \in State \ {"Idle"}, NEW w, NEW kind, OrderedAlone(w, kind), NEW n \in Index,
         Goto(s, w, n, requests), buffer' \in [Clients -> [0 .. MaxLen - 1 -> Int]]
  PROVE  /\ EventExpected' => DriverOK'
         /\ ida_state' = s /\ i' = n /\ Current' = Current /\ twi'.op.kind = kind /\ ~twi'.int
<1>1. /\ ida_state' = s /\ twi' = w /\ i' = n /\ requests' = requests
      /\ current_req' = current_req /\ status' = status
  BY DEF Goto
<1>2. AutomatonAwake'
  BY <1>1 DEF AutomatonAwake, DriverOK, Ordered, OrderedAlone
<1>3. StopComesFirst'
  BY <1>1 DEF StopComesFirst, OrderedAlone
<1> QED BY <1>1, <1>2, <1>3 DEF DriverOK, Current, Ordered, OrderedAlone, Index

\* The TWI interrupt keeps the driver consistent in every state, for every
\* event the peripheral may bring.
LEMMA IsrKeeps ==
  ASSUME DriverOK, BusOK, twi.ie, twi.int, ida_next(twi.sr, requests), bus' = bus
  PROVE  DriverOK'
<1> DEFINE r == Current
<1>0. twi \in TwiReg /\ buffer \in [Clients -> [0 .. MaxLen - 1 -> Int]] /\ EventExpected
  BY DEF DriverOK
<1>1. ida_state # "Idle"
  BY DEF DriverOK, AutomatonAwake
<1>2. r \in Request /\ twi.op = NoOp /\ twi.op.kind = "none"
  BY <1>1, CurrentIsHead DEF DriverOK, AutomatonAwake, NoOp, Op
<1>3. twi.sr # "TW_BUS_ERROR" => ~twi.stop
  BY <1>1, <1>2 DEF DriverOK, StopComesFirst
<1>4. r.node \in Clients /\ r.length \in 1 .. 255
  BY <1>2, LenAssumption DEF Request
<1>5. \A s \in Status : fetch_or_idle(s, requests) => DriverOK'
  BY <1>1, FetchOrIdleKeeps
<1>5a. ASSUME NEW s \in State \ {"Idle"}, NEW w, NEW kind, OrderedAlone(w, kind),
              NEW n \in Index, Goto(s, w, n, requests),
              buffer' \in [Clients -> [0 .. MaxLen - 1 -> Int]]
       PROVE  /\ EventExpected' => DriverOK'
              /\ ida_state' = s /\ i' = n /\ Current' = Current /\ twi'.op.kind = kind
  BY <1>1, <1>5a, GotoKeeps, Zenon
<1>5b. \A s \in {"SeekingSlaveTx", "SeekingSlaveRx", "TxData", "RxData"} : s \in State \ {"Idle"}
  BY DEF State
<1>6. CASE ida_state = "Starting"
  <2>1. FromStarting(twi.sr, requests)
    BY <1>6 DEF ida_next
  <2>2. CASE fetch_or_idle("InternalError", requests)
    BY <2>2, <1>5 DEF Status
  <2>3. CASE /\ twi.sr \in {"TW_START", "TW_REP_START"} /\ UNCHANGED buffer
             /\ r.rt = "I2Creceive"
             /\ Goto("SeekingSlaveRx", throw_byte(twi, "read", r.node), 0, requests)
    <3>1. OrderedAlone(throw_byte(twi, "read", r.node), "read")
      BY <1>3, <2>3, <1>0, <1>4, AddressOrdered
    <3>2. bus.owner = "started"
      BY <1>0, <1>2, <1>6, <2>3 DEF EventExpected
    <3>3. /\ EventExpected' => DriverOK'
          /\ ida_state' = "SeekingSlaveRx" /\ i' = 0 /\ r' = r /\ twi'.op.kind = "read"
      <4>1. /\ buffer' \in [Clients -> [0 .. MaxLen - 1 -> Int]]
            /\ "SeekingSlaveRx" \in State \ {"Idle"} /\ 0 \in Index
        BY <1>0, <1>5b, <2>3 DEF Index
      <4> QED BY <1>5a, <2>3, <3>1, <4>1, Zenon
    <3>4. EventExpected'
      BY <2>3, <3>2, <3>3 DEF EventExpected, Awaits
    <3> QED BY <3>3, <3>4
  <2>4. CASE /\ twi.sr \in {"TW_START", "TW_REP_START"} /\ UNCHANGED buffer
             /\ r.rt # "I2Creceive"
             /\ Goto("SeekingSlaveTx", throw_byte(twi, "write", r.node), 0, requests)
    <3>1. OrderedAlone(throw_byte(twi, "write", r.node), "write")
      BY <1>3, <2>4, <1>0, <1>4, AddressOrdered
    <3>2. bus.owner = "started"
      BY <1>0, <1>2, <1>6, <2>4 DEF EventExpected
    <3>3. /\ EventExpected' => DriverOK'
          /\ ida_state' = "SeekingSlaveTx" /\ i' = 0 /\ r' = r /\ twi'.op.kind = "write"
      <4>1. /\ buffer' \in [Clients -> [0 .. MaxLen - 1 -> Int]]
            /\ "SeekingSlaveTx" \in State \ {"Idle"} /\ 0 \in Index
        BY <1>0, <1>5b, <2>4 DEF Index
      <4> QED BY <1>5a, <2>4, <3>1, <4>1, Zenon
    <3>4. EventExpected'
      BY <2>4, <3>2, <3>3 DEF EventExpected, Awaits
    <3> QED BY <3>3, <3>4
  <2> QED BY <2>1, <2>2, <2>3, <2>4 DEF FromStarting, Current
<1>7. CASE ida_state = "SeekingSlaveTx"
  <2>1. FromSeekingSlaveTx(twi.sr, requests)
    BY <1>7 DEF ida_next
  <2>2. CASE \E s \in Status : fetch_or_idle(s, requests)
    BY <2>2, <1>5
  <2>3. CASE /\ twi.sr = "TW_MT_SLA_ACK" /\ UNCHANGED buffer
             /\ Goto("TxData", throw_byte(twi, "data", Byte(r, i)), (i + 1) % 256, requests)
    <3>1. i = 0 /\ r.rt # "I2Creceive" /\ Byte(r, i) \in Int /\ (i + 1) % 256 = 1
      BY <1>0, <1>7 DEF EventExpected, Byte
    <3>2. OrderedAlone(throw_byte(twi, "data", Byte(r, i)), "data")
      BY <1>3, <2>3, <1>0, <3>1, DataOrdered
    <3>3. bus.owner = "MT"
      BY <1>0, <1>2, <1>7, <2>3 DEF EventExpected, Awaits
    <3>4. /\ EventExpected' => DriverOK'
          /\ ida_state' = "TxData" /\ i' = 1 /\ r' = r /\ twi'.op.kind = "data"
      <4>1. /\ Goto("TxData", throw_byte(twi, "data", Byte(r, i)), 1, requests)
            /\ buffer' = buffer /\ "TxData" \in State \ {"Idle"} /\ 1 \in Index
        BY <2>3, <3>1, <1>5b DEF Index
      <4> QED BY <1>0, <1>5a, <3>2, <4>1, Zenon
    <3>5. EventExpected'
      BY <1>4, <3>1, <3>3, <3>4 DEF EventExpected, Awaits
    <3> QED BY <3>4, <3>5
  <2> QED BY <2>1, <2>2, <2>3 DEF FromSeekingSlaveTx, Current, Status
<1>8. CASE ida_state = "TxData"
  <2>1. FromTxData(twi.sr, requests)
    BY <1>8 DEF ida_next
  <2>2. CASE \E s \in Status : fetch_or_idle(s, requests)
    BY <2>2, <1>5
  <2>3. CASE /\ twi.sr = "TW_MT_DATA_ACK" /\ UNCHANGED buffer /\ More(r, i)
             /\ Goto("TxData", throw_byte(twi, "data", Byte(r, i)), (i + 1) % 256, requests)
    <3>1. i \in 1 .. r.length /\ r.rt # "I2Creceive" /\ bus.owner = "MT"
      BY <1>0, <1>2, <1>8, <2>3 DEF EventExpected, Awaits
    <3>2. i + 1 \in 1 .. r.length /\ (i + 1) % 256 = i + 1 /\ Byte(r, i) \in Int
      BY <1>2, <1>4, <2>3, <3>1 DEF More, Byte, Request
    <3>3. OrderedAlone(throw_byte(twi, "data", Byte(r, i)), "data")
      BY <1>3, <2>3, <1>0, <3>2, DataOrdered
    <3>4. i + 1 \in Index
      BY <1>4, <3>2 DEF Index
    <3>5. /\ EventExpected' => DriverOK'
          /\ ida_state' = "TxData" /\ i' = i + 1 /\ r' = r /\ twi'.op.kind = "data"
      <4>1. /\ Goto("TxData", throw_byte(twi, "data", Byte(r, i)), i + 1, requests)
            /\ buffer' = buffer /\ "TxData" \in State \ {"Idle"}
        BY <2>3, <3>2, <1>5b
      <4> QED BY <1>0, <1>5a, <3>3, <3>4, <4>1, Zenon
    <3>6. EventExpected'
      BY <3>1, <3>2, <3>5 DEF EventExpected, Awaits
    <3> QED BY <3>5, <3>6
  <2> QED BY <2>1, <2>2, <2>3 DEF FromTxData, Current, Status
<1>9. CASE ida_state = "SeekingSlaveRx"
  <2>1. FromSeekingSlaveRx(twi.sr, requests)
    BY <1>9 DEF ida_next
  <2>2. CASE \E s \in Status : fetch_or_idle(s, requests)
    BY <2>2, <1>5
  <2>3. CASE /\ twi.sr = "TW_MR_SLA_ACK" /\ UNCHANGED buffer
             /\ Goto("RxData", throw_request_byte(twi, FALSE), i, requests)
    <3>1. i = 0 /\ r.rt = "I2Creceive" /\ bus.owner = "MR"
      BY <1>0, <1>2, <1>9, <2>3 DEF EventExpected, Awaits
    <3>2. PICK w : w = throw_request_byte(twi, FALSE) /\ OrderedAlone(w, "recvACK")
      BY <1>3, <2>3, <1>0, ReceiveOrdered
    <3>3. /\ EventExpected' => DriverOK'
          /\ ida_state' = "RxData" /\ i' = 0 /\ r' = r /\ twi'.op.kind = "recvACK"
      <4>1. Goto("RxData", w, 0, requests)
        BY <2>3, <3>1, <3>2, Zenon
      <4>2. /\ "RxData" \in State \ {"Idle"} /\ 0 \in Index
            /\ buffer' \in [Clients -> [0 .. MaxLen - 1 -> Int]]
        BY <1>0, <2>3, <1>5b DEF Index
      <4> QED BY <1>5a, <3>2, <4>1, <4>2, Zenon
    <3>4. EventExpected'
      BY <1>4, <3>1, <3>3 DEF EventExpected, Awaits
    <3> QED BY <3>3, <3>4
  <2> QED BY <2>1, <2>2, <2>3 DEF FromSeekingSlaveRx, Current, Status
<1>10. CASE ida_state = "RxData"
  <2>1. FromRxData(twi.sr, requests)
    BY <1>10 DEF ida_next
  <2>2. CASE \E s \in Status : fetch_or_idle(s, requests)
    BY <2>2, <1>5
  <2>3. CASE /\ twi.sr = "TW_MR_DATA_ACK"
             /\ buffer' = [buffer EXCEPT ![r.node][i] = get_byte]
             /\ Goto("RxData", throw_request_byte(twi, r.length = (i + 1) % 256),
                     (i + 1) % 256, requests)
    <3>1. i \in 0 .. r.length /\ r.rt = "I2Creceive" /\ i < r.length /\ bus.owner = "MR"
      BY <1>0, <1>2, <1>10, <2>3 DEF EventExpected, Awaits
    <3>2. (i + 1) % 256 = i + 1 /\ i + 1 \in Index
      BY <1>4, <3>1 DEF Index
    <3>3. PICK w, kind : /\ w = throw_request_byte(twi, r.length = i + 1) /\ OrderedAlone(w, kind)
                         /\ kind = IF r.length = i + 1 THEN "recvNACK" ELSE "recvACK"
      <4>1. twi.sr # "TW_BUS_ERROR"
        BY <2>3
      <4> QED BY <1>3, <1>0, <4>1, ReceiveOrdered
    <3>4. buffer' \in [Clients -> [0 .. MaxLen - 1 -> Int]]
      <4>1. get_byte \in Int
        BY <2>3 DEF get_byte, BusOK, DriverOK
      <4> QED BY <1>0, <2>3, <4>1
    <3>5. /\ EventExpected' => DriverOK'
          /\ ida_state' = "RxData" /\ i' = i + 1 /\ r' = r /\ twi'.op.kind = kind
      <4>1. /\ Goto("RxData", w, i + 1, requests)
            /\ "RxData" \in State \ {"Idle"}
        BY <2>3, <3>2, <3>3, <1>5b
      <4>2. OrderedAlone(w, kind) /\ i + 1 \in Index
        BY <3>2, <3>3
      <4> QED BY <1>5a, <3>4, <4>1, <4>2, Zenon
    <3>6. EventExpected'
      BY <1>4, <3>1, <3>3, <3>5 DEF EventExpected, Awaits
    <3> QED BY <3>5, <3>6
  <2> QED BY <2>1, <2>2, <2>3 DEF FromRxData, Current, Status
<1> QED BY <1>1, <1>6, <1>7, <1>8, <1>9, <1>10 DEF DriverOK, State

-----------------------------------------------------------------------------
\* The parts of the invariant follow what they speak of.
LEMMA DriverUnchanged ==
  ASSUME DriverOK, UNCHANGED <<requests, ida_state, current_req, i, twi, bus>>,
         status' \in [Clients -> Status], buffer' \in [Clients -> [0 .. MaxLen - 1 -> Int]]
  PROVE  DriverOK'
<1>1. AutomatonAwake'
  BY DEF DriverOK, AutomatonAwake
<1>2. EventExpected' /\ StopComesFirst'
  BY DEF DriverOK, EventExpected, StopComesFirst, Awaits, Current
<1> QED BY <1>1, <1>2 DEF DriverOK

LEMMA CpuStep ==
  ASSUME CpuOK, NEW c \in Context,
         NEW p \in {"idle", "ready", "called", "prepared", "atomic", "closing"},
         p \in {"called", "prepared", "atomic"} => cpu[c].todo # <<>>,
         To(c, p)
  PROVE  CpuOK'
<1>1. cpu' = [cpu EXCEPT ![c] = [cpu[c] EXCEPT !.pc = p]]
  BY DEF To
<1>2. [cpu[c] EXCEPT !.pc = p] = [pc |-> p, todo |-> cpu[c].todo]
  BY DEF CpuOK
<1> QED BY <1>1, <1>2 DEF CpuOK

LEMMA OpenKeeps ==
  ASSUME I2cInv, i2c_open
  PROVE  I2cInv'
<1>1. requests \in QueueOf(Requests) /\ ZeroRequest \in Requests
  BY DEF I2cInv, DriverOK, Requests
<1>2. requests' = i2cq_empty(requests)
  BY DEF i2c_open
<1>3. requests' \in QueueOf(Requests)
  BY <1>1, <1>2, QueueTypes
<1>4. requests'.front = 0 /\ requests'.rear = 0
  BY <1>1, <1>2 DEF i2cq_empty, QueueOf
<1>5. i2cq_is_empty(requests')
  BY <1>4 DEF i2cq_is_empty
<1>6. Contents(requests') \in Seq(Request)
  <2>1. Len(Contents(requests')) = 0 /\ Contents(requests') \in Seq(Requests)
    BY <1>3, <1>5, CountRange, ContentsType
  <2>2. Contents(requests') = <<>>
    BY <2>1, EmptySeq
  <2> QED BY <2>2
<1>7. ida_state = "Idle" /\ twi \in TwiReg /\ ~twi.int /\ twi.op = NoOp
  BY DEF I2cInv, DriverOK, AutomatonAwake, i2c_open
<1>8. /\ twi' \in TwiReg /\ ~twi'.ie /\ ~twi'.int /\ twi'.op = NoOp /\ twi'.sr = twi.sr
      /\ ida_state' = "Idle" /\ current_req' = current_req /\ i' = i
      /\ status' = status /\ buffer' = buffer /\ bus' = bus /\ cpu' = cpu
  BY <1>7 DEF i2c_open, TwiReg
<1>9. AutomatonAwake' /\ EventExpected' /\ StopComesFirst'
  BY <1>5, <1>8 DEF AutomatonAwake, EventExpected, StopComesFirst
<1>10. DriverOK'
  BY <1>3, <1>6, <1>8, <1>9 DEF I2cInv, DriverOK, State
<1>11. CpuOK' /\ BusOK'
  BY <1>8 DEF I2cInv, CpuOK, BusOK
<1> QED BY <1>10, <1>11 DEF I2cInv

\* A call changes no more than the user's own buffer and its place.
LEMMA CallKeeps ==
  ASSUME I2cInv, NEW c \in Context, NEW k \in Clients, NEW reqs \in Calls(k), Call(c, k, reqs)
  PROVE  I2cInv'
<1>1. reqs \in Seq(Request) /\ reqs # <<>>
  BY CallsAreRequests
<1>2. buffer' \in [Clients -> [0 .. MaxLen - 1 -> Int]] /\ status' \in [Clients -> Status]
  BY DEF Call, I2cInv, DriverOK
<1>3. DriverOK'
  BY <1>2, DriverUnchanged DEF Call, I2cInv
<1>4. CpuOK'
  BY <1>1 DEF Call, I2cInv, CpuOK
<1> QED BY <1>3, <1>4 DEF Call, I2cInv, BusOK

LEMMA SetRunningKeeps ==
  ASSUME I2cInv, NEW c \in Context, SetRunning(c)
  PROVE  I2cInv'
<1>1. cpu[c].todo # <<>> /\ Head(cpu[c].todo) \in Request
  BY HeadTailProperties DEF I2cInv, CpuOK, SetRunning, At
<1>2. status' \in [Clients -> Status]
  BY <1>1, ReportType DEF SetRunning, I2cInv, DriverOK, Status
<1>3. DriverOK'
  BY <1>2, DriverUnchanged DEF SetRunning, I2cInv, DriverOK, automaton
<1>4. CpuOK'
  BY <1>1, CpuStep DEF SetRunning, I2cInv
<1> QED BY <1>3, <1>4 DEF SetRunning, I2cInv, BusOK

\* The body of the atomic block: the queue has room, so the request is
\* appended and the automaton, if Idle, starts with it.
LEMMA PutKeeps ==
  ASSUME I2cInv, NEW c \in Context, Put(c)
  PROVE  I2cInv'
<1>1. PICK q : q = i2cq_enqueue(requests, Head(cpu[c].todo))
  OBVIOUS
<1>2. /\ cpu[c].todo \in Seq(Request) /\ cpu[c].todo # <<>>
      /\ Head(cpu[c].todo) \in Request /\ Tail(cpu[c].todo) \in Seq(Request)
  BY HeadTailProperties DEF I2cInv, CpuOK, Put, At
<1>3. requests \in QueueOf(Requests) /\ ~i2cq_is_full(requests)
  BY DEF I2cInv, DriverOK, Put
<1>4. Head(cpu[c].todo) \in Requests
  BY <1>2 DEF Requests
<1>5. /\ q \in QueueOf(Requests) /\ ~i2cq_is_empty(q)
      /\ Contents(q) = Append(Contents(requests), Head(cpu[c].todo))
      /\ ~i2cq_is_empty(requests) => q.t[requests.front] = requests.t[requests.front]
  BY <1>1, <1>3, <1>4, QueueTypes, EnqueueWithRoom
<1>6. Contents(q) \in Seq(Request)
  BY <1>2, <1>5, AppendProperties DEF I2cInv, DriverOK
<1>7. q.front = requests.front
  BY <1>1, <1>3 DEF i2cq_enqueue, QueueOf
<1>8. CpuOK' /\ BusOK'
  <2>1. cpu' = [cpu EXCEPT ![c] = IF Tail(cpu[c].todo) = <<>> THEN Resting
                                  ELSE [pc |-> "called", todo |-> Tail(cpu[c].todo)]]
    BY DEF Put
  <2>2. Resting = [pc |-> "idle", todo |-> <<>>] /\ <<>> \in Seq(Request)
    BY DEF Resting
  <2> QED BY <1>2, <2>1, <2>2 DEF I2cInv, CpuOK, BusOK, Put
<1>9. CASE ida_state = "Idle"
  <2>1. /\ requests' = q /\ ida_state' = "Starting" /\ current_req' = q.front
        /\ twi' = throw_start(twi) /\ i' = i /\ buffer' = buffer /\ status' = status
        /\ bus' = bus
    BY <1>1, <1>9 DEF Put, ida_next, FromIdle, i2cq_front
  <2>2. Ordered(twi', "start")
    BY <2>1, StartOrdered DEF I2cInv, DriverOK
  <2>3. AutomatonAwake'
    BY <1>5, <2>1, <2>2 DEF AutomatonAwake, Ordered
  <2>4. EventExpected' /\ StopComesFirst'
    BY <2>1, <2>2 DEF EventExpected, StopComesFirst, Ordered
  <2>5. q.front \in Cell
    BY <1>5, QueueInts
  <2>6. DriverOK'
    BY <1>5, <1>6, <2>1, <2>2, <2>3, <2>4, <2>5 DEF I2cInv, DriverOK, State, Ordered
  <2> QED BY <1>8, <2>6 DEF I2cInv
<1>10. CASE ida_state # "Idle"
  <2>1. /\ requests' = q /\ UNCHANGED <<ida_state, current_req, i, buffer, status, twi, bus>>
    BY <1>1, <1>10 DEF Put, automaton
  <2>2. ~i2cq_is_empty(requests) /\ current_req = requests.front
    BY <1>10 DEF I2cInv, DriverOK, AutomatonAwake
  <2>3. AutomatonAwake'
    BY <1>5, <1>7, <1>10, <2>1, <2>2 DEF I2cInv, DriverOK, AutomatonAwake
  <2>4. Current' = Current
    BY <1>5, <2>1, <2>2 DEF Current
  <2>5. EventExpected' /\ StopComesFirst'
    BY <2>1, <2>4 DEF I2cInv, DriverOK, EventExpected, StopComesFirst, Awaits
  <2>6. DriverOK'
    BY <1>5, <1>6, <2>1, <2>3, <2>5 DEF I2cInv, DriverOK
  <2> QED BY <1>8, <2>6 DEF I2cInv
<1> QED BY <1>9, <1>10

\* i2c_close stops an automaton that is Idle.
LEMMA CloseKeeps ==
  ASSUME I2cInv, i2c_close
  PROVE  I2cInv'
<1>1. /\ ida_state = "Idle" /\ ida_state' = "Idle" /\ bus' = bus
      /\ UNCHANGED <<requests, current_req, i, status, buffer>>
  BY DEF i2c_close, automaton
<1>2. /\ twi' \in TwiReg /\ ~twi'.ie /\ ~twi'.int /\ twi'.op = NoOp /\ twi'.sr = twi.sr
  BY <1>1 DEF I2cInv, DriverOK, AutomatonAwake, i2c_close, TwiReg, NoOp, Op
<1>3. AutomatonAwake' /\ EventExpected' /\ StopComesFirst'
  BY <1>1, <1>2 DEF I2cInv, DriverOK, AutomatonAwake, EventExpected, StopComesFirst
<1>4. DriverOK'
  BY <1>1, <1>2, <1>3 DEF I2cInv, DriverOK
<1>5. CpuOK'
  BY CpuStep DEF I2cInv, i2c_close, Context
<1> QED BY <1>1, <1>4, <1>5 DEF I2cInv, BusOK

-----------------------------------------------------------------------------
(***************************************************************************)
(* The peripheral only answers what the automaton ordered.                 *)
(***************************************************************************)
\* After an event the automaton has it to attend and nothing ordered.
LEMMA EventKeeps ==
  ASSUME I2cInv, twi.op # NoOp, NEW e, Event(e), NEW w, bus' = w,
         UNCHANGED <<requests, automaton, cpu, status>>,
         e \in {"TW_START", "TW_REP_START", "TW_MT_SLA_ACK", "TW_MT_SLA_NACK",
                "TW_MT_DATA_ACK", "TW_MT_DATA_NACK", "TW_MR_SLA_ACK", "TW_MR_SLA_NACK",
                "TW_MR_DATA_ACK", "TW_MR_DATA_NACK", "TW_BUS_ERROR"},
         e = "TW_MR_DATA_ACK" => w.wire # <<>>, BusOK', EventExpected' /\ StopComesFirst'
  PROVE  I2cInv'
<1>1. twi' \in TwiReg /\ twi'.int /\ twi'.op = NoOp /\ twi'.sr = e
      /\ twi'.en = twi.en /\ twi'.ie = twi.ie
  BY DEF I2cInv, DriverOK, Event, TwiReg, NoOp, Op
<1>2. AutomatonAwake'
  BY <1>1 DEF I2cInv, DriverOK, AutomatonAwake, automaton
<1>3. DriverOK'
  BY <1>1, <1>2 DEF I2cInv, DriverOK, automaton
<1>4. CpuOK'
  BY DEF I2cInv, CpuOK
<1> QED BY <1>3, <1>4 DEF I2cInv

LEMMA HardwareKeeps ==
  ASSUME I2cInv, Hardware
  PROVE  I2cInv'
<1>0. /\ UNCHANGED <<requests, automaton, cpu, status>> /\ BusOK /\ twi \in TwiReg
      /\ AutomatonAwake /\ EventExpected /\ StopComesFirst /\ Current' = Current
      /\ ida_state' = ida_state /\ i' = i /\ requests' = requests
  BY DEF Hardware, I2cInv, DriverOK, automaton, Current
<1>1. ASSUME twi.op # NoOp
      PROVE  ida_state # "Idle" /\ ~twi.int
  BY <1>0, <1>1 DEF AutomatonAwake
<1>2. ASSUME NEW e, Event(e)
      PROVE  twi'.int /\ twi'.sr = e /\ twi'.stop = twi.stop /\ twi'.op = NoOp
  BY <1>0, <1>2 DEF Event, TwiReg
<1>3. CASE TwiStart
  <2>1. twi.op # NoOp /\ twi.op.kind = "start" /\ ~twi.stop
    BY <1>3 DEF TwiStart, NoOp, Op
  <2>2. ida_state = "Starting"
    BY <1>0, <1>1, <2>1 DEF EventExpected, Awaits, I2cInv, DriverOK, State
  <2>3. PICK e \in {"TW_START", "TW_REP_START"} : Event(e)
    BY <1>3 DEF TwiStart
  <2>4. bus' = [owner |-> "started", node |-> NULL, wire |-> <<>>]
    BY <1>3 DEF TwiStart, FreeBus
  <2>5. EventExpected' /\ StopComesFirst'
    BY <1>0, <1>2, <2>1, <2>2, <2>3, <2>4 DEF EventExpected, StopComesFirst
  <2>6. BusOK'
    BY <2>4 DEF BusOK
  <2> QED BY <1>0, <2>1, <2>3, <2>5, <2>6, EventKeeps
<1>4. CASE TwiAddress
  <2>1. twi.op # NoOp /\ twi.op.kind \in {"read", "write"} /\ bus.owner = "started"
    BY <1>4 DEF TwiAddress, NoOp, Op
  <2>2. ida_state = IF twi.op.kind = "read" THEN "SeekingSlaveRx" ELSE "SeekingSlaveTx"
    BY <1>0, <1>1, <2>1 DEF EventExpected, Awaits, I2cInv, DriverOK, State
  <2>3. PICK e : /\ Event(e)
                 /\ e \in IF twi.op.kind = "read" THEN {"TW_MR_SLA_ACK", "TW_MR_SLA_NACK"}
                                                  ELSE {"TW_MT_SLA_ACK", "TW_MT_SLA_NACK"}
    BY <1>4, <2>1 DEF TwiAddress
  <2>4. bus' = [bus EXCEPT !.owner = IF twi.op.kind = "read" THEN "MR" ELSE "MT",
                           !.node = twi.op.val]
    BY <1>4, <2>1 DEF TwiAddress
  <2>5. twi.op.val \in Clients
    BY <1>0, <2>1 DEF TwiReg
  <2>6. bus'.owner = IF twi.op.kind = "read" THEN "MR" ELSE "MT"
    BY <1>0, <2>4 DEF BusOK
  <2>7. EventExpected'
    BY <1>0, <1>2, <2>1, <2>2, <2>3, <2>6 DEF EventExpected, Awaits
  <2>8. StopComesFirst'
    BY <1>0, <1>2, <2>1, <2>2, <2>3 DEF StopComesFirst
  <2>9. BusOK'
    BY <1>0, <2>4, <2>5 DEF BusOK
  <2> QED BY <1>0, <2>1, <2>3, <2>7, <2>8, <2>9, EventKeeps
<1>5. CASE TwiSend
  <2>1. twi.op # NoOp /\ twi.op.kind = "data" /\ bus.owner = "MT"
    BY <1>5 DEF TwiSend, NoOp, Op
  <2>2. ida_state = "TxData"
    BY <1>0, <1>1, <2>1 DEF EventExpected, Awaits, I2cInv, DriverOK, State
  <2>3. PICK e \in {"TW_MT_DATA_ACK", "TW_MT_DATA_NACK"} : Event(e)
    BY <1>5 DEF TwiSend
  <2>4. bus' = [bus EXCEPT !.wire = Append(bus.wire, twi.op.val)] /\ twi.op.val \in Int
    BY <1>0, <1>5, <2>1 DEF TwiSend, TwiReg
  <2>5. bus'.owner = "MT" /\ BusOK'
    BY <1>0, <2>1, <2>4, AppendProperties DEF BusOK
  <2>6. EventExpected'
    BY <1>0, <1>2, <2>1, <2>2, <2>3, <2>5 DEF EventExpected, Awaits
  <2>7. StopComesFirst'
    BY <1>0, <1>2, <2>1, <2>2, <2>3 DEF StopComesFirst
  <2> QED BY <1>0, <2>1, <2>3, <2>5, <2>6, <2>7, EventKeeps
<1>6. CASE TwiReceive
  <2>1. twi.op # NoOp /\ twi.op.kind \in {"recvACK", "recvNACK"} /\ bus.owner = "MR"
    BY <1>6 DEF TwiReceive, NoOp, Op
  <2>2. ida_state = "RxData"
    BY <1>0, <1>1, <2>1 DEF EventExpected, Awaits, I2cInv, DriverOK, State
  <2>3. PICK e : /\ Event(e)
                 /\ e = IF twi.op.kind = "recvACK" THEN "TW_MR_DATA_ACK" ELSE "TW_MR_DATA_NACK"
    BY <1>6 DEF TwiReceive
  <2>4. bus' = [bus EXCEPT !.wire = Append(bus.wire, Len(bus.wire))]
    BY <1>6 DEF TwiReceive
  <2>5. Append(bus.wire, Len(bus.wire)) \in Seq(Int) \ {<<>>}
    BY <1>0, LenProperties, AppendProperties DEF BusOK
  <2>6. bus'.owner = "MR" /\ bus'.wire # <<>> /\ BusOK'
    BY <1>0, <2>1, <2>4, <2>5 DEF BusOK
  <2>7. EventExpected'
    BY <1>0, <1>1, <1>2, <2>1, <2>2, <2>3, <2>6 DEF EventExpected, Awaits
  <2>8. StopComesFirst'
    BY <1>0, <1>2, <2>1, <2>2, <2>3 DEF StopComesFirst
  <2> QED BY <1>0, <2>1, <2>3, <2>6, <2>7, <2>8, EventKeeps
<1>7. CASE TwiFault
  <2>1. twi.op # NoOp /\ Event("TW_BUS_ERROR") /\ bus' = FreeBus
    BY <1>7 DEF TwiFault
  <2>2. twi'.int /\ twi'.sr = "TW_BUS_ERROR" /\ twi'.stop = twi.stop
    BY <1>2, <2>1
  <2>3. EventExpected'
    <3>1. CASE ida_state \in {"Idle", "Starting"}
      BY <1>0, <2>2, <3>1 DEF EventExpected
    <3>2. CASE ida_state = "SeekingSlaveTx"
      BY <1>0, <2>2, <3>2 DEF EventExpected, Awaits
    <3>3. CASE ida_state = "TxData"
      BY <1>0, <2>2, <3>3 DEF EventExpected, Awaits
    <3>4. CASE ida_state = "SeekingSlaveRx"
      BY <1>0, <2>2, <3>4 DEF EventExpected, Awaits
    <3>5. CASE ida_state = "RxData"
      BY <1>0, <2>2, <3>5 DEF EventExpected, Awaits
    <3> QED BY <3>1, <3>2, <3>3, <3>4, <3>5 DEF I2cInv, DriverOK, State
  <2>4. StopComesFirst'
    BY <1>0, <2>2 DEF StopComesFirst
  <2>5. BusOK'
    BY <2>1 DEF BusOK, FreeBus
  <2> QED BY <1>0, <2>1, <2>3, <2>4, <2>5, EventKeeps
<1>8. CASE TwiStop
  <2>1. /\ twi' \in TwiReg /\ twi'.int = twi.int /\ twi'.op = twi.op /\ twi'.sr = twi.sr
        /\ twi'.ie = twi.ie /\ twi'.en = twi.en /\ ~twi'.stop
    BY <1>0, <1>8 DEF TwiStop, TwiReg
  <2>2. \/ ida_state = "Idle"
        \/ ida_state = "Starting" /\ (twi.op.kind = "start" \/ twi.sr = "TW_BUS_ERROR")
    BY <1>0, <1>8 DEF TwiStop, StopComesFirst
  <2>3. AutomatonAwake' /\ StopComesFirst' /\ EventExpected'
    <3>1. AutomatonAwake'
      BY <1>0, <2>1 DEF AutomatonAwake, automaton
    <3>2. StopComesFirst'
      BY <2>1 DEF StopComesFirst
    <3>3. EventExpected'
      BY <1>0, <2>1, <2>2 DEF EventExpected
    <3> QED BY <3>1, <3>2, <3>3
  <2>4. bus' = FreeBus /\ BusOK'
    BY <1>8 DEF TwiStop, BusOK, FreeBus
  <2>5. ~(twi.int /\ twi.sr = "TW_MR_DATA_ACK")
    BY <1>0, <2>2 DEF AutomatonAwake, EventExpected, NoOp, Op
  <2>6. DriverOK' /\ CpuOK'
    BY <1>0, <2>1, <2>3, <2>5 DEF I2cInv, DriverOK, CpuOK, automaton
  <2> QED BY <2>4, <2>6 DEF I2cInv
<1> QED BY <1>3, <1>4, <1>5, <1>6, <1>7, <1>8 DEF Hardware

-----------------------------------------------------------------------------
LEMMA InitHolds == ASSUME Init PROVE I2cInv
<1>1. requests \in QueueOf(Requests) /\ i2cq_is_empty(requests)
  BY QueueLengthAssumption
     DEF Init, ZeroedQueue, QueueOf, Requests, Cell, i2cq_is_empty
<1>2. Contents(requests) \in Seq(Request)
  <2>1. Len(Contents(requests)) = 0 /\ Contents(requests) \in Seq(Requests)
    BY <1>1, CountRange, ContentsType
  <2>2. Contents(requests) = <<>>
    BY <2>1, EmptySeq
  <2> QED BY <2>2
<1>3. twi \in TwiReg /\ ~twi.ie /\ ~twi.int /\ twi.op = NoOp /\ ~twi.stop
  BY DEF Init, TwiReg, NoOp, Op
<1>4. DriverOK
  BY <1>1, <1>2, <1>3
     DEF Init, DriverOK, State, Status, AutomatonAwake, EventExpected, StopComesFirst
<1>5. CpuOK /\ BusOK
  BY DEF Init, CpuOK, BusOK, Resting, FreeBus
<1> QED BY <1>4, <1>5 DEF I2cInv

\* Every step of main, of the users' interrupt routines, of the TWI
\* interrupt and of the peripheral keeps the invariant.
LEMMA NextKeeps == ASSUME I2cInv, [Next]_vars PROVE I2cInv'
<1>1. CASE i2c_open
  BY <1>1, OpenKeeps
<1>2. CASE i2c_swamped
  <2>1. DriverOK'
    BY <1>2, DriverUnchanged DEF i2c_swamped, I2cInv, automaton, DriverOK
  <2>2. CpuOK'
    BY <1>2, CpuStep DEF i2c_swamped, I2cInv, Context
  <2> QED BY <1>2, <2>1, <2>2 DEF i2c_swamped, I2cInv, BusOK
<1>3. CASE UserCall
  BY <1>3, CallKeeps DEF UserCall
<1>4. CASE CallStep
  <2>1. CASE \E c \in Context : SetRunning(c)
    BY <2>1, SetRunningKeeps
  <2>2. CASE \E c \in Context : Put(c)
    BY <2>2, PutKeeps
  <2>3. CASE EnterAtomic
    <3>1. DriverOK'
      BY <2>3, DriverUnchanged DEF EnterAtomic, I2cInv, automaton, DriverOK
    <3>2. CpuOK'
      BY <2>3, CpuStep DEF EnterAtomic, I2cInv, Context, At, CpuOK
    <3> QED BY <2>3, <3>1, <3>2 DEF EnterAtomic, I2cInv, BusOK
  <2>4. CASE i2c_close
    BY <2>4, CloseKeeps
  <2> QED BY <1>4, <2>1, <2>2, <2>3, <2>4 DEF CallStep
<1>5. CASE CloseBegin
  <2>1. DriverOK'
    BY <1>5, DriverUnchanged DEF CloseBegin, I2cInv, automaton, DriverOK
  <2>2. CpuOK'
    BY <1>5, CpuStep DEF CloseBegin, I2cInv, Context
  <2> QED BY <1>5, <2>1, <2>2 DEF CloseBegin, I2cInv, BusOK
<1>6. CASE TwiIsr
  <2>1. DriverOK'
    BY <1>6, IsrKeeps DEF TwiIsr, I2cInv
  <2> QED BY <1>6, <2>1 DEF TwiIsr, I2cInv, CpuOK, BusOK
<1>7. CASE Hardware
  BY <1>7, HardwareKeeps
<1>8. CASE UNCHANGED vars
  <2>1. DriverOK'
    BY <1>8, DriverUnchanged DEF vars, I2cInv, automaton, DriverOK
  <2> QED BY <1>8, <2>1 DEF vars, I2cInv, CpuOK, BusOK
<1> QED BY <1>1, <1>2, <1>3, <1>4, <1>5, <1>6, <1>7, <1>8 DEF Next

\* The inductive invariant holds in every reachable state.
THEOREM Invariance == Spec => []I2cInv
BY InitHolds, NextKeeps, PTL DEF Spec

\* Every variable of the driver, the users and the hardware keeps its type.
THEOREM TypeCorrect == Spec => []TypeOK
<1>1. I2cInv => TypeOK
  BY DEF I2cInv, DriverOK, CpuOK, BusOK, TypeOK, Requests
<1> QED BY <1>1, Invariance, PTL

\* No request is left asleep in the queue and the automaton never wakes
\* without one: for every queue length and any calls of any users.
THEOREM NeverAsleep == Spec => []AutomatonAwake
<1>1. I2cInv => AutomatonAwake
  BY DEF I2cInv, DriverOK
<1> QED BY <1>1, Invariance, PTL

\* The automaton and the bus stay in step: no event but a bus error can be
\* unexpected.
THEOREM InStep == Spec => []BusFollowsAutomaton
<1>1. I2cInv => BusFollowsAutomaton
  BY DEF I2cInv, DriverOK, BusFollowsAutomaton
<1> QED BY <1>1, Invariance, PTL

\* The driver never writes past the end of the user's receive buffer.
THEOREM NoOverrun == Spec => []StoreInBounds
<1>1. I2cInv => StoreInBounds
  <2> SUFFICES ASSUME I2cInv, ida_state = "RxData", twi.int, twi.sr = "TW_MR_DATA_ACK"
               PROVE  i < Current.length
    BY DEF StoreInBounds
  <2>1. twi.op.kind = "none"
    BY DEF I2cInv, DriverOK, AutomatonAwake, NoOp, Op
  <2> QED BY <2>1 DEF I2cInv, DriverOK, EventExpected, Awaits
<1> QED BY <1>1, Invariance, PTL

\* The cell of the request in progress is never written over.
THEOREM CurrentKept == Spec => CurrentNotOverwritten
<1>1. ASSUME I2cInv, [Next]_vars, ida_state # "Idle"
      PROVE  requests'.t[current_req] = Current
  <2>1. requests \in QueueOf(Requests) /\ ~i2cq_is_empty(requests) /\ current_req = requests.front
    BY <1>1 DEF I2cInv, DriverOK, AutomatonAwake
  <2>2. i2cq_dequeue(requests).t = requests.t
    BY <2>1, DequeueTails
  <2>3. CASE UNCHANGED requests
    BY <2>3 DEF Current
  <2>4. CASE \E s \in Status : fetch_or_idle(s, requests)
    BY <2>2, <2>4 DEF fetch_or_idle, Current
  <2>5. CASE \E c \in Context : Put(c)
    <3>1. PICK c \in Context : Put(c)
      BY <2>5
    <3>2. PICK v : v = Head(cpu[c].todo)
      OBVIOUS
    <3>3. v \in Requests
      BY <1>1, <3>1, <3>2, HeadTailProperties DEF I2cInv, CpuOK, Put, At, Requests
    <3>4. requests' = i2cq_enqueue(requests, v) /\ ~i2cq_is_full(requests)
      BY <1>1, <3>1, <3>2 DEF Put
    <3> QED BY <2>1, <3>3, <3>4, EnqueueWithRoom DEF Current
  <2>6. CASE i2c_open
    <3>1. ~twi.en
      BY <2>6 DEF i2c_open
    <3> QED BY <1>1, <3>1 DEF I2cInv, DriverOK, AutomatonAwake
  <2>7. CASE TwiIsr
    <3>1. UNCHANGED requests \/ \E s \in Status : fetch_or_idle(s, requests)
      BY <1>1, <2>7 DEF TwiIsr, ida_next, FromStarting, FromSeekingSlaveTx, FromTxData,
                        FromSeekingSlaveRx, FromRxData, Goto, Status
    <3> QED BY <3>1, <2>3, <2>4
  <2> QED BY <1>1, <2>3, <2>5, <2>6, <2>7
       DEF Next, i2c_swamped, UserCall, Call, CallStep, SetRunning, EnterAtomic, i2c_close,
           CloseBegin, Hardware, vars
<1>2. I2cInv /\ [Next]_vars => [ida_state # "Idle" => requests'.t[current_req] = Current]_vars
  BY <1>1
<1> QED BY <1>2, Invariance, PTL DEF Spec, CurrentNotOverwritten

-----------------------------------------------------------------------------
(***************************************************************************)
(* What users are told.                                                    *)
(***************************************************************************)
\* The event at hand is the one that error s stands for.
Reason(s) == \/ s = "InternalError" /\ twi.sr = "TW_BUS_ERROR"
             \/ s = "SlaveRejected" /\ twi.sr \in {"TW_MT_SLA_NACK", "TW_MR_SLA_NACK"}
             \/ s = "SlaveDiscardedData" /\ twi.sr = "TW_MT_DATA_NACK"

\* The last byte of the message is through.
Done == \/ ida_state = "TxData" /\ twi.sr = "TW_MT_DATA_ACK" /\ ~More(Current, i)
        \/ ida_state = "RxData" /\ twi.sr = "TW_MR_DATA_NACK" /\ i = Current.length

Told(s) == \/ Done /\ s = "Success"
           \/ Reason(s)

\* The interrupt ends a request with the verdict that the event calls for.
LEMMA Verdict ==
  ASSUME DriverOK, TwiIsr
  PROVE  \/ UNCHANGED status
         \/ \E s \in Status : fetch_or_idle(s, requests) /\ Told(s)
<1> DEFINE Ends(s) == fetch_or_idle(s, requests)
           Goal == \/ UNCHANGED status
                   \/ \E s \in Status : Ends(s) /\ Told(s)
<1>1. /\ ida_state # "Idle" /\ ida_next(twi.sr, requests) /\ EventExpected
      /\ twi.int /\ twi.op.kind = "none"
  BY DEF TwiIsr, DriverOK, AutomatonAwake, NoOp, Op
<1>2. ASSUME NEW s, Reason(s), Ends(s)
      PROVE  Goal
  <2>1. s \in Status
    BY <1>2 DEF Reason, Status
  <2> QED BY <1>2, <2>1 DEF Told
<1>3. ASSUME Done, Ends("Success")
      PROVE  Goal
  BY <1>3 DEF Status, Told
<1> HIDE DEF Ends, Goal
<1>4. CASE ida_state = "Starting"
  <2>1. UNCHANGED status \/ (twi.sr \notin {"TW_START", "TW_REP_START"} /\ Ends("InternalError"))
    BY <1>1, <1>4 DEF ida_next, FromStarting, Goto, Ends
  <2>2. twi.sr \in {"TW_START", "TW_REP_START", "TW_BUS_ERROR"}
    BY <1>1, <1>4 DEF EventExpected
  <2>3. twi.sr = "TW_BUS_ERROR" => Reason("InternalError")
    BY DEF Reason
  <2> QED BY <1>2, <2>1, <2>2, <2>3 DEF Goal, Ends
<1>5. CASE ida_state = "SeekingSlaveTx"
  <2>1. \/ UNCHANGED status
        \/ twi.sr = "TW_MT_SLA_NACK" /\ Ends("SlaveRejected")
        \/ twi.sr \notin {"TW_MT_SLA_ACK", "TW_MT_SLA_NACK"} /\ Ends("InternalError")
    BY <1>1, <1>5 DEF ida_next, FromSeekingSlaveTx, Goto, Ends
  <2>2. twi.sr \in {"TW_MT_SLA_ACK", "TW_MT_SLA_NACK", "TW_BUS_ERROR"}
    BY <1>1, <1>5 DEF EventExpected, Awaits
  <2>3. /\ twi.sr = "TW_BUS_ERROR" => Reason("InternalError")
        /\ twi.sr = "TW_MT_SLA_NACK" => Reason("SlaveRejected")
    BY DEF Reason
  <2> QED BY <1>2, <2>1, <2>2, <2>3 DEF Goal, Ends
<1>6. CASE ida_state = "TxData"
  <2>1. \/ UNCHANGED status
        \/ Done /\ Ends("Success")
        \/ twi.sr = "TW_MT_DATA_NACK" /\ Ends("SlaveDiscardedData")
        \/ twi.sr \notin {"TW_MT_DATA_ACK", "TW_MT_DATA_NACK"} /\ Ends("InternalError")
    BY <1>1, <1>6 DEF ida_next, FromTxData, Goto, Ends, Done, Current
  <2>2. twi.sr \in {"TW_MT_DATA_ACK", "TW_MT_DATA_NACK", "TW_BUS_ERROR"}
    BY <1>1, <1>6 DEF EventExpected, Awaits
  <2>3. /\ twi.sr = "TW_BUS_ERROR" => Reason("InternalError")
        /\ twi.sr = "TW_MT_DATA_NACK" => Reason("SlaveDiscardedData")
    BY DEF Reason
  <2> QED BY <1>2, <1>3, <2>1, <2>2, <2>3 DEF Goal, Ends
<1>7. CASE ida_state = "SeekingSlaveRx"
  <2>1. \/ UNCHANGED status
        \/ twi.sr = "TW_MR_SLA_NACK" /\ Ends("SlaveRejected")
        \/ twi.sr \notin {"TW_MR_SLA_ACK", "TW_MR_SLA_NACK"} /\ Ends("InternalError")
    BY <1>1, <1>7 DEF ida_next, FromSeekingSlaveRx, Goto, Ends
  <2>2. twi.sr \in {"TW_MR_SLA_ACK", "TW_MR_SLA_NACK", "TW_BUS_ERROR"}
    BY <1>1, <1>7 DEF EventExpected, Awaits
  <2>3. /\ twi.sr = "TW_BUS_ERROR" => Reason("InternalError")
        /\ twi.sr = "TW_MR_SLA_NACK" => Reason("SlaveRejected")
    BY DEF Reason
  <2> QED BY <1>2, <2>1, <2>2, <2>3 DEF Goal, Ends
<1>8. CASE ida_state = "RxData"
  <2>1. \/ twi.sr = "TW_MR_DATA_ACK"
        \/ twi.sr = "TW_MR_DATA_NACK" /\ i = Current.length
        \/ twi.sr = "TW_BUS_ERROR"
    <3>1. i \in 0 .. Current.length /\ Current \in Request
      BY <1>1, <1>8, CurrentIsHead DEF EventExpected
    <3>2. i < Current.length \/ i = Current.length
      BY <3>1, LenAssumption DEF Request
    <3> QED BY <1>1, <1>8, <3>2 DEF EventExpected, Awaits
  <2>2. CASE twi.sr = "TW_MR_DATA_ACK"
    BY <1>1, <1>8, <2>2 DEF ida_next, FromRxData, Goto, Goal
  <2> DEFINE Verb == CASE twi.sr # "TW_MR_DATA_NACK" -> "InternalError"
                       [] twi.sr = "TW_MR_DATA_NACK" /\ Current.length = i -> "Success"
                       [] OTHER -> "ReceivedMessageLenError"
  <2>3. twi.sr # "TW_MR_DATA_ACK" => Ends(Verb)
    <3>1. FromRxData(twi.sr, requests)
      BY <1>1, <1>8, Zenon DEF ida_next
    <3> QED BY <3>1, Zenon DEF FromRxData, Ends, Current
  <2>4. CASE twi.sr = "TW_MR_DATA_NACK" /\ i = Current.length
    <3>1. Verb = "Success" /\ Ends(Verb)
      BY <2>4, <2>3
    <3>2. Done
      BY <1>8, <2>4 DEF Done
    <3> QED BY <1>3, <3>1, <3>2, Zenon DEF Goal, Ends
  <2>5. CASE twi.sr = "TW_BUS_ERROR"
    <3>1. Verb = "InternalError" /\ Ends(Verb)
      BY <2>5, <2>3
    <3>2. Reason("InternalError")
      BY <2>5 DEF Reason
    <3> QED BY <1>2, <3>1, <3>2, Zenon DEF Goal, Ends
  <2> QED BY <2>1, <2>2, <2>4, <2>5
<1> QED BY <1>1, <1>4, <1>5, <1>6, <1>7, <1>8 DEF DriverOK, State, Goal, Ends

\* Only the interrupt ends the wait of a client, and only that of the client
\* whose request is in progress.
LEMMA OnlyIsrAnswers ==
  ASSUME I2cInv, [Next]_vars, NEW k \in Clients, status[k] = "Running",
         status'[k] # "Running"
  PROVE  TwiIsr /\ Current.status = k /\ Told(status'[k])
<1>1. status \in [Clients -> Status]
  BY DEF I2cInv, DriverOK
<1>2. ASSUME NEW c \in Context, SetRunning(c)
      PROVE  status'[k] = "Running"
  BY <1>1, <1>2 DEF SetRunning, Report
<1>3. ASSUME NEW c \in Context, Put(c)
      PROVE  UNCHANGED status
  BY <1>3 DEF Put, ida_next, FromIdle
<1>4. TwiIsr
  BY <1>2, <1>3 DEF Next, i2c_open, i2c_swamped, UserCall, Call, CallStep, EnterAtomic, i2c_close,
                    CloseBegin, Hardware, vars
<1>5. PICK s \in Status : fetch_or_idle(s, requests) /\ Told(s)
  BY <1>4, Verdict DEF I2cInv
<1>6. status' = IF Current.status = NULL THEN status ELSE [status EXCEPT ![Current.status] = s]
  BY <1>5 DEF fetch_or_idle, Report, Current
<1>7. Current.status = k /\ status'[k] = s
  BY <1>1, <1>6
<1> QED BY <1>4, <1>5, <1>7

\* A user is told of an error only if it happened to its own request, and
\* never of ReceivedMessageLenError.
THEOREM ErrorsAreReal == Spec => ErrorIsReal
<1> DEFINE Real == \A k \in Clients :
             status[k] = "Running" /\ status'[k] \notin {"Running", "Success"}
               => /\ Current.status = k
                  /\ \/ status'[k] = "InternalError" /\ twi.sr = "TW_BUS_ERROR"
                     \/ /\ status'[k] = "SlaveRejected"
                        /\ twi.sr \in {"TW_MT_SLA_NACK", "TW_MR_SLA_NACK"}
                     \/ status'[k] = "SlaveDiscardedData" /\ twi.sr = "TW_MT_DATA_NACK"
<1>1. ASSUME I2cInv, [Next]_vars, NEW k \in Clients, status[k] = "Running",
             status'[k] \notin {"Running", "Success"}
      PROVE  Current.status = k /\ Reason(status'[k])
  BY <1>1, OnlyIsrAnswers DEF Told
<1>2. I2cInv /\ [Next]_vars => [Real]_vars
  BY <1>1 DEF Reason
<1> QED BY <1>2, Invariance, PTL DEF Spec, ErrorIsReal
=============================================================================
