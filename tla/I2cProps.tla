------------------------------ MODULE I2cProps ------------------------------
(***************************************************************************)
(* What the i2c driver must do: the properties that the runs check on      *)
(* small instances and that I2cProofs proves for every instance.           *)
(***************************************************************************)
EXTENDS I2c, FiniteSets

Current == requests.t[current_req]

\* The request that client k waits for is the j-th of the queue.
Waits(k, j) == Contents(requests)[j].status = k

\* Context c announced the request of client k and has not put it yet.
Announced(c, k) == /\ cpu[c].pc \in {"prepared", "atomic"}
                   /\ Head(cpu[c].todo).status = k

-----------------------------------------------------------------------------
TwiReg == [en : BOOLEAN, ie : BOOLEAN, int : BOOLEAN, stop : BOOLEAN,
           sr : {"TW_NO_INFO", "TW_START", "TW_REP_START", "TW_MT_SLA_ACK", "TW_MT_SLA_NACK",
                 "TW_MT_DATA_ACK", "TW_MT_DATA_NACK", "TW_MR_SLA_ACK", "TW_MR_SLA_NACK",
                 "TW_MR_DATA_ACK", "TW_MR_DATA_NACK", "TW_BUS_ERROR"},
           op : [kind : {"none", "start", "recvACK", "recvNACK"}, val : {NULL}]
                \cup [kind : {"read", "write"}, val : Clients]
                \cup [kind : {"data"}, val : Int]]

\* The type of every variable: the driver's statics, the users' variables,
\* the registers and the bus.
TypeOK ==
  /\ requests \in QueueOf(Request \cup {ZeroRequest})
  /\ ida_state \in State
  /\ current_req \in Cell \cup {NULL}
  /\ i \in 0 .. 255
  /\ cpu \in [Context -> [pc : {"idle", "ready", "called", "prepared", "atomic", "closing"},
                          todo : Seq(Request)]]
  /\ status \in [Clients -> Status]
  /\ buffer \in [Clients -> [0 .. MaxLen - 1 -> Int]]
  /\ twi \in TwiReg
  /\ bus \in [owner : {"free", "started", "MT", "MR"}, node : Clients \cup {NULL},
              wire : Seq(Int)]

-----------------------------------------------------------------------------
(***************************************************************************)
(* Exactly when the automaton is not Idle there is a request, current_req  *)
(* points at the front of the queue, the TWI interrupt is enabled and one  *)
(* TWI event is on its way or waiting: the automaton can neither sleep     *)
(* over a queued request nor be woken with none.                           *)
(***************************************************************************)
AutomatonAwake ==
  /\ ida_state = "Idle" <=> i2cq_is_empty(requests)
  /\ IF ida_state = "Idle"
     THEN ~twi.ie /\ ~twi.int /\ twi.op = NoOp
     ELSE /\ current_req = requests.front
          /\ twi.en /\ twi.ie
          /\ twi.int <=> twi.op = NoOp

\* The automaton ordered one of ops on a bus whose owner is as the operation
\* needs, or it was done and left the bus so, or there was a bus error.
Awaits(ops, before, events, after) ==
  \/ twi.op.kind \in ops /\ bus.owner = before
  \/ twi.int /\ twi.sr \in events /\ bus.owner = after
  \/ twi.int /\ twi.sr = "TW_BUS_ERROR"

\* In every state the peripheral was told something it can do, and the only
\* event the state does not expect is a bus error.
EventExpected ==
  CASE ida_state = "Idle" -> TRUE
    [] ida_state = "Starting" ->
         \/ twi.op.kind = "start"
         \/ /\ twi.int /\ twi.sr \in {"TW_START", "TW_REP_START", "TW_BUS_ERROR"}
            /\ twi.sr # "TW_BUS_ERROR" => bus.owner = "started" /\ bus.wire = <<>>
    [] ida_state = "SeekingSlaveTx" ->
         /\ Awaits({"write"}, "started", {"TW_MT_SLA_ACK", "TW_MT_SLA_NACK"}, "MT")
         /\ Current.rt # "I2Creceive" /\ i = 0
    [] ida_state = "TxData" ->
         /\ Awaits({"data"}, "MT", {"TW_MT_DATA_ACK", "TW_MT_DATA_NACK"}, "MT")
         /\ Current.rt # "I2Creceive" /\ i \in 1 .. Current.length
    [] ida_state = "SeekingSlaveRx" ->
         /\ Awaits({"read"}, "started", {"TW_MR_SLA_ACK", "TW_MR_SLA_NACK"}, "MR")
         /\ Current.rt = "I2Creceive" /\ i = 0
    [] ida_state = "RxData" ->
         /\ Current.rt = "I2Creceive" /\ i \in 0 .. Current.length
         /\ IF i < Current.length THEN Awaits({"recvACK"}, "MR", {"TW_MR_DATA_ACK"}, "MR")
                                  ELSE Awaits({"recvNACK"}, "MR", {"TW_MR_DATA_NACK"}, "MR")

\* A STOP waiting to go out can only be followed by a START.
StopComesFirst ==
  twi.stop => \/ ida_state = "Idle"
              \/ ida_state = "Starting" /\ (twi.op.kind = "start" \/ twi.sr = "TW_BUS_ERROR")

(***************************************************************************)
(* The automaton and the bus stay in step: the driver never orders what    *)
(* the bus cannot do, and never gets an event it does not expect, save a   *)
(* bus error.  In particular our own NACK never comes before the last      *)
(* byte, so ReceivedMessageLenError cannot be reported, and the STOP of a  *)
(* transfer never cuts the next one.                                       *)
(***************************************************************************)
BusFollowsAutomaton == EventExpected /\ StopComesFirst

\* The received byte that the next interrupt will store is inside the
\* buffer of the request: the driver never writes past the user's memory.
StoreInBounds ==
  ida_state = "RxData" /\ twi.int /\ twi.sr = "TW_MR_DATA_ACK" => i < Current.length

(***************************************************************************)
(* A status variable is Running exactly while the driver owes its user one *)
(* answer: one request with it is in the queue, or is about to be put, and *)
(* never two.  So no request is lost, none is answered twice and none is   *)
(* answered in the name of another.                                        *)
(***************************************************************************)
Owed(k) == {<<"queue", j>> : j \in {x \in 1 .. Count(requests) : Waits(k, x)}}
           \cup {<<c, 0>> : c \in {x \in Context : Announced(x, k)}}

RunningIffOwed == \A k \in Clients : IF status[k] = "Running" THEN \E w \in Owed(k) : Owed(k) = {w}
                                                              ELSE Owed(k) = {}

\* current_req is a pointer into the queue: while the automaton uses the
\* request, no enqueue and no dequeue may write over its cell.
CurrentNotOverwritten ==
  [][ida_state # "Idle" => requests'.t[current_req] = Current]_vars

-----------------------------------------------------------------------------
\* What the bus has carried for request r: to or from its node, all the
\* bytes of the user's message in their order.
Transferred(r) ==
  /\ bus.node = r.node
  /\ IF r.rt = "I2Creceive" THEN \A b \in 0 .. r.length - 1 : buffer[r.node][b] = b
     ELSE bus.wire = [b \in 1 .. r.length |-> Byte(r, b - 1)]

\* A user is told Success only if its own message went over the bus whole.
SuccessIsTransferred ==
  [][\A k \in Clients : status[k] = "Running" /\ status'[k] = "Success"
       => Current.status = k /\ Transferred(Current)]_vars

(***************************************************************************)
(* A user is told of an error only if it happened, to its own request: the *)
(* event that ends it is a NACK of the node to its address (SlaveRejected) *)
(* or to a byte (SlaveDiscardedData), or a bus error (InternalError).  No  *)
(* user is told ReceivedMessageLenError.                                   *)
(***************************************************************************)
ErrorIsReal ==
  [][\A k \in Clients : status[k] = "Running" /\ status'[k] \notin {"Running", "Success"}
       => /\ Current.status = k
          /\ \/ status'[k] = "InternalError" /\ twi.sr = "TW_BUS_ERROR"
             \/ /\ status'[k] = "SlaveRejected"
                /\ twi.sr \in {"TW_MT_SLA_NACK", "TW_MR_SLA_NACK"}
             \/ status'[k] = "SlaveDiscardedData" /\ twi.sr = "TW_MT_DATA_NACK"]_vars

\* The driver is the bounded queue of requests that i2c.h promises: requests
\* end in the order they were accepted, each one once.
Service == INSTANCE I2cService
             WITH open <- twi.en, queue <- Contents(requests),
                  Requests <- Request, Capacity <- I2CQ_L - 1

ImplementsService == Service!Spec

-----------------------------------------------------------------------------
\* i2c.rst: i2c_swamped() lets main foresee that a call would block.
GuardedCallNeverBlocks == cpu["main"].pc = "atomic" => ~i2cq_is_full(requests)

\* i2c.h: Running lasts until the request ends, and every request ends; so
\* does the wait of i2c_close for the automaton to be Idle.
EveryRequestEnds == /\ \A k \in Clients : status[k] = "Running" ~> status[k] # "Running"
                    /\ cpu["main"].pc = "closing" ~> cpu["main"].pc = "idle"

\* i2c.h: a call with the queue full blocks until the request is accepted.
BlockedCallIsAccepted == cpu["main"].pc = "atomic" ~> cpu["main"].pc # "atomic"
=============================================================================
