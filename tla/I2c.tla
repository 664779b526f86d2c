-------------------------------- MODULE I2c ---------------------------------
(***************************************************************************)
(* The i2c master driver (i2c.c): application code in main and in other    *)
(* interrupt routines puts requests in a queue; an automaton driven by the *)
(* TWI interrupt takes them to the bus one by one.                         *)
(*                                                                         *)
(* One CPU runs everything.  An interrupt routine runs to its end without  *)
(* interruption, so the TWI routine is one action; the calls of the users  *)
(* are cut where something else can come in between.  The TWI peripheral   *)
(* and the slaves run on their own.                                        *)
(***************************************************************************)
EXTENDS I2cQueue

CONSTANTS MainClients,  \* users of the driver that run in main
          IsrClients,   \* users that run in interrupt routines (a timer action)
          NULL,         \* the null pointer
          MaxLen,       \* longest message a user sends or receives
          UsedCalls,    \* for each user, the operations of i2c.h it calls
          Guarded       \* TRUE: users ask i2c_swamped() before every call

Clients == MainClients \cup IsrClients

ASSUME ClientAssumption == NULL \notin Clients /\ MainClients \cap IsrClients = {}
\* A length is a uint8_t; i2c_send_2uint8 sends two bytes.
ASSUME LenAssumption == MaxLen \in 2 .. 255
ASSUME CallAssumption ==
  UsedCalls \in [Clients -> SUBSET {"send", "forget", "receive", "bytes", "sandr"}]
ASSUME GuardedAssumption == Guarded \in BOOLEAN

Status == {"Running", "Success", "ReceivedMessageLenError", "SlaveRejected",
           "SlaveDiscardedData", "InternalError"}

State == {"Idle", "Starting", "SeekingSlaveTx", "TxData", "SeekingSlaveRx", "RxData"}

(***************************************************************************)
(* A client k owns a status variable, a receive buffer and a slave node:   *)
(* k names all three.  A byte of a message stands for its position in the  *)
(* user's data: byte j of a buffer is j; the arguments b1 and b0 of        *)
(* i2c_send_2uint8 are 1 and 0.                                            *)
(***************************************************************************)
Request ==
  {r \in [rt : {"I2Csend", "I2Creceive", "I2Csend_uint8", "I2Csend_2uint8"},
          node : Clients, status : Clients \cup {NULL}, length : 1 .. MaxLen] :
     /\ r.rt = "I2Csend_uint8" => r.length = 1
     /\ r.rt = "I2Csend_2uint8" => r.length = 2}

ZeroRequest == [rt |-> "I2Csend", node |-> NULL, status |-> NULL, length |-> 0]

\* i2cr_type_t and the data union: the byte of request r at index n.
Byte(r, n) == IF r.rt = "I2Csend_2uint8" THEN 1 - n ELSE n

\* Faulty variant: the last byte of a message is forgotten.
MoreButLast(r, n) == n + 1 < r.length

\* In TxData: there is another byte to send.
More(r, n) == \/ r.rt = "I2Csend" /\ n < r.length
              \/ r.rt = "I2Csend_2uint8" /\ n < 2

VARIABLES
  requests, ida_state, current_req, i,  \* the statics of i2c.c
  cpu,          \* what main and the interrupting user are doing in the driver
  status,       \* the users' status variables
  buffer,       \* the users' receive buffers
  twi,          \* the registers of the TWI peripheral
  bus           \* the bus and the slave at the other end

automaton == <<ida_state, current_req, i, buffer>>
vars == <<requests, automaton, cpu, status, twi, bus>>

-----------------------------------------------------------------------------
(***************************************************************************)
(* The TWI registers: en and ie are bits TWEN and TWIE of TWCR, int is its *)
(* flag TWINT, op the operation TWCR started (with the byte in TWDR), stop *)
(* a STOP still to be put on the bus (TWSTO) and sr the status in TWSR,    *)
(* which tells nothing while TWINT is clear.  TWDR holds the last byte on  *)
(* the bus when a byte came in.                                            *)
(***************************************************************************)
Op(k, v) == [kind |-> k, val |-> v]
NoOp == Op("none", NULL)
FreeBus == [owner |-> "free", node |-> NULL, wire |-> <<>>]

\* TWCR with TWINT written to 1: the flag clears and the peripheral goes on.
Go(w, o, irq) ==
  [w EXCEPT !.en = TRUE, !.int = FALSE, !.sr = "TW_NO_INFO", !.op = o, !.ie = irq]

disable_i2c_interrupts(w) == [w EXCEPT !.ie = FALSE]

\* Faulty variant: START without TWIE.
StartNoInterrupt(w) == Go(w, Op("start", NULL), FALSE)

throw_start(w) == Go(w, Op("start", NULL), TRUE)

throw_stop(w) == [Go(w, NoOp, FALSE) EXCEPT !.stop = TRUE]

throw_byte(w, kind, b) == Go(w, Op(kind, b), TRUE)

\* Faulty variant: always ask for one more byte.
RequestAnother(w, is_last) == Go(w, Op("recvACK", NULL), TRUE)

throw_request_byte(w, is_last) == Go(w, Op(IF is_last THEN "recvNACK" ELSE "recvACK", NULL), TRUE)

get_byte == bus.wire[Len(bus.wire)]

-----------------------------------------------------------------------------
(***************************************************************************)
(* The automaton.  q is the request queue as the caller of ida_next left   *)
(* it: with the new request when put_request calls it.                     *)
(***************************************************************************)
Report(r, s) == status' = IF r.status = NULL THEN status
                                             ELSE [status EXCEPT ![r.status] = s]

\* Faulty variant: the next request is fetched before the status is reported.
FetchThenReport(s, q) ==
  LET n == i2cq_dequeue(q) IN
  /\ requests' = n
  /\ Report(n.t[n.front], s)
  /\ IF i2cq_is_empty(n)
     THEN /\ twi' = disable_i2c_interrupts(throw_stop(twi))
          /\ ida_state' = "Idle"
          /\ UNCHANGED current_req
     ELSE /\ twi' = throw_start(twi)
          /\ current_req' = i2cq_front(n)
          /\ ida_state' = "Starting"
  /\ UNCHANGED <<i, buffer>>

fetch_or_idle(s, q) ==
  LET n == i2cq_dequeue(q) IN
  /\ Report(q.t[current_req], s)
  /\ requests' = n
  /\ IF i2cq_is_empty(n)
     THEN /\ twi' = disable_i2c_interrupts(throw_stop(twi))
          /\ ida_state' = "Idle"
          /\ UNCHANGED current_req
     ELSE /\ twi' = throw_start(twi)
          /\ current_req' = i2cq_front(n)
          /\ ida_state' = "Starting"
  /\ UNCHANGED <<i, buffer>>

\* The transitions that stay with the current request.
Goto(s, w, n, q) == /\ ida_state' = s
                    /\ twi' = w
                    /\ i' = n
                    /\ requests' = q
                    /\ UNCHANGED <<current_req, status>>

FromIdle(e, q) ==
  IF e = "TW_GO_OPERATIVE"
  THEN /\ current_req' = i2cq_front(q)
       /\ twi' = throw_start(twi)
       /\ ida_state' = "Starting"
       /\ requests' = q
       /\ UNCHANGED <<i, buffer, status>>
  ELSE fetch_or_idle("InternalError", q)

FromStarting(e, q) ==
  LET r == q.t[current_req] IN
  \/ /\ e \in {"TW_START", "TW_REP_START"}
     /\ IF r.rt = "I2Creceive"
        THEN Goto("SeekingSlaveRx", throw_byte(twi, "read", r.node), 0, q)
        ELSE Goto("SeekingSlaveTx", throw_byte(twi, "write", r.node), 0, q)
     /\ UNCHANGED buffer
  \/ /\ e \notin {"TW_START", "TW_REP_START"}
     /\ fetch_or_idle("InternalError", q)

FromSeekingSlaveTx(e, q) ==
  LET r == q.t[current_req] IN
  \/ /\ e = "TW_MT_SLA_ACK"
     /\ Goto("TxData", throw_byte(twi, "data", Byte(r, i)), (i + 1) % 256, q)
     /\ UNCHANGED buffer
  \/ /\ e # "TW_MT_SLA_ACK"
     /\ fetch_or_idle(IF e = "TW_MT_SLA_NACK" THEN "SlaveRejected" ELSE "InternalError", q)

\* Faulty variant: a missing break, an acknowledged last byte goes on into
\* the case of a refused one.
LastFallsThrough(e, q) ==
  LET r == q.t[current_req] IN
  IF e = "TW_MT_DATA_ACK" /\ More(r, i)
  THEN /\ Goto("TxData", throw_byte(twi, "data", Byte(r, i)), (i + 1) % 256, q)
       /\ UNCHANGED buffer
  ELSE fetch_or_idle(IF e \in {"TW_MT_DATA_ACK", "TW_MT_DATA_NACK"} THEN "SlaveDiscardedData"
                                                                  ELSE "InternalError", q)

FromTxData(e, q) ==
  LET r == q.t[current_req] IN
  \/ /\ e = "TW_MT_DATA_ACK"
     /\ IF More(r, i)
        THEN /\ Goto("TxData", throw_byte(twi, "data", Byte(r, i)), (i + 1) % 256, q)
             /\ UNCHANGED buffer
        ELSE fetch_or_idle("Success", q)
  \/ /\ e # "TW_MT_DATA_ACK"
     /\ fetch_or_idle(IF e = "TW_MT_DATA_NACK" THEN "SlaveDiscardedData"
                                               ELSE "InternalError", q)

FromSeekingSlaveRx(e, q) ==
  \/ /\ e = "TW_MR_SLA_ACK"
     /\ Goto("RxData", throw_request_byte(twi, FALSE), i, q)
     /\ UNCHANGED buffer
  \/ /\ e # "TW_MR_SLA_ACK"
     /\ fetch_or_idle(IF e = "TW_MR_SLA_NACK" THEN "SlaveRejected" ELSE "InternalError", q)

FromRxData(e, q) ==
  LET r == q.t[current_req] IN
  \/ /\ e = "TW_MR_DATA_ACK"
     /\ buffer' = [buffer EXCEPT ![r.node][i] = get_byte]
     /\ LET n == (i + 1) % 256 IN
        Goto("RxData", throw_request_byte(twi, r.length = n), n, q)
  \/ /\ e # "TW_MR_DATA_ACK"
     /\ fetch_or_idle(CASE e # "TW_MR_DATA_NACK" -> "InternalError"
                        [] e = "TW_MR_DATA_NACK" /\ r.length = i -> "Success"
                        [] OTHER -> "ReceivedMessageLenError", q)

ida_next(e, q) ==
  \/ ida_state = "Idle" /\ FromIdle(e, q)
  \/ ida_state = "Starting" /\ FromStarting(e, q)
  \/ ida_state = "SeekingSlaveTx" /\ FromSeekingSlaveTx(e, q)
  \/ ida_state = "TxData" /\ FromTxData(e, q)
  \/ ida_state = "SeekingSlaveRx" /\ FromSeekingSlaveRx(e, q)
  \/ ida_state = "RxData" /\ FromRxData(e, q)

-----------------------------------------------------------------------------
(***************************************************************************)
(* The CPU.  cpu.main is where main is in a call of the driver, cpu.isr    *)
(* the same for the interrupt routine of a user; todo holds the requests   *)
(* the call still has to put.  Interrupts are off while an interrupt       *)
(* routine runs and in the atomic block of put_request.                    *)
(***************************************************************************)
Context == {"main", "isr"}
Resting == [pc |-> "idle", todo |-> <<>>]

InterruptsOn == cpu["isr"].pc = "idle" /\ cpu["main"].pc # "atomic"

Runs(c) == c = "isr" \/ cpu["isr"].pc = "idle"

At(c, p) == Runs(c) /\ cpu[c].pc = p

To(c, p) == cpu' = [cpu EXCEPT ![c].pc = p]

TwiIsr == /\ InterruptsOn
          /\ twi.ie /\ twi.int
          /\ ida_next(twi.sr, requests)
          /\ UNCHANGED <<cpu, bus>>

\* The requests each operation of i2c.h builds; s is the status pointer.
i2c_send(k, n, s) == <<[rt |-> "I2Csend", node |-> k, status |-> s, length |-> n]>>
i2c_receive(k, n, s) == <<[rt |-> "I2Creceive", node |-> k, status |-> s, length |-> n]>>
i2c_send_2uint8(k, s) == <<[rt |-> "I2Csend_2uint8", node |-> k, status |-> s, length |-> 2]>>
i2c_send_uint8(k, s) == <<[rt |-> "I2Csend_uint8", node |-> k, status |-> s, length |-> 1]>>
i2c_receive_uint8(k, s) == i2c_receive(k, 1, s)
i2c_sandr(k, n, m, s) == i2c_send(k, n, NULL) \o i2c_receive(k, m, s)

\* What client k may ask for with operation f; "forget" is a send with no
\* status variable.  A user does not give up the answer of a receive.
CallsOf(k, f) ==
  LET Lengths == 1 .. MaxLen IN
  CASE f = "send"    -> {i2c_send(k, n, k) : n \in Lengths}
    [] f = "forget"  -> {i2c_send(k, n, NULL) : n \in Lengths}
    [] f = "receive" -> {i2c_receive(k, n, k) : n \in Lengths} \cup {i2c_receive_uint8(k, k)}
    [] f = "bytes"   -> {i2c_send_uint8(k, k), i2c_send_2uint8(k, k)}
    [] f = "sandr"   -> {i2c_sandr(k, n, m, k) : n \in Lengths, m \in Lengths}

Calls(k) == UNION {CallsOf(k, f) : f \in UsedCalls[k]}

i2c_open == /\ At("main", "idle")
            /\ ~twi.en
            /\ requests' = i2cq_empty(requests)
            /\ ida_state' = "Idle"
            /\ twi' = [twi EXCEPT !.en = TRUE, !.ie = FALSE]
            /\ UNCHANGED <<current_req, i, cpu, status, buffer, bus>>

\* Faulty variant: the index does not wrap.
NotSwampedNoWrap == requests.rear + 1 # requests.front

NotSwamped == ~i2cq_is_full(requests)

\* A user in main finds i2c_swamped() false and will call next.
i2c_swamped == /\ Guarded /\ twi.en
               /\ At("main", "idle")
               /\ NotSwamped
               /\ To("main", "ready")
               /\ UNCHANGED <<requests, automaton, status, twi, bus>>

(***************************************************************************)
(* A user calls the driver: the channel is open and not being closed, and  *)
(* the user's status variable and buffer are not in use by an unfinished   *)
(* request (the obligations of i2c.h).  A user in an interrupt routine     *)
(* comes when interrupts are on.                                           *)
(***************************************************************************)
Call(c, k, reqs) ==
  /\ twi.en /\ status[k] # "Running"
  /\ \/ c = "main" /\ k \in MainClients /\ At(c, IF Guarded THEN "ready" ELSE "idle")
     \/ /\ c = "isr" /\ k \in IsrClients
        /\ InterruptsOn /\ cpu["main"].pc # "closing"
        /\ Guarded => NotSwamped
  /\ cpu' = [cpu EXCEPT ![c] = [pc |-> "called", todo |-> reqs]]
  /\ buffer' = IF \E j \in 1 .. Len(reqs) : reqs[j].rt = "I2Creceive"
               THEN [buffer EXCEPT ![k] = [b \in 0 .. MaxLen - 1 |-> -1]]  \* old content
               ELSE buffer
  /\ UNCHANGED <<requests, ida_state, current_req, i, status, twi, bus>>

\* put_request: if (r->status) *(r->status) = Running
SetRunning(c) ==
  /\ At(c, "called")
  /\ Report(Head(cpu[c].todo), "Running")
  /\ To(c, IF c = "isr" THEN "atomic" ELSE "prepared")
  /\ UNCHANGED <<requests, automaton, twi, bus>>

\* put_request: the atomic block disables interrupts.
EnterAtomic == /\ At("main", "prepared")
               /\ To("main", "atomic")
               /\ UNCHANGED <<requests, automaton, status, twi, bus>>

(***************************************************************************)
(* put_request: the body of the atomic block.  Its loop on a full queue    *)
(* runs with interrupts off: Put is not enabled while the queue is full.   *)
(***************************************************************************)
Put(c) ==
  LET rest == Tail(cpu[c].todo)
      q == i2cq_enqueue(requests, Head(cpu[c].todo))
  IN /\ At(c, "atomic")
     /\ ~i2cq_is_full(requests)
     /\ IF ida_state = "Idle" THEN ida_next("TW_GO_OPERATIVE", q)
        ELSE requests' = q /\ UNCHANGED <<automaton, status, twi>>
     /\ cpu' = [cpu EXCEPT ![c] = IF rest = <<>> THEN Resting
                                  ELSE [pc |-> "called", todo |-> rest]]
     /\ UNCHANGED bus

\* i2c_close waits for the automaton and then switches the peripheral off,
\* whatever it is doing.
CloseBegin == /\ At("main", "idle")
              /\ twi.en
              /\ To("main", "closing")
              /\ UNCHANGED <<requests, automaton, status, twi, bus>>

i2c_close == /\ At("main", "closing")
             /\ ida_state = "Idle"
             /\ twi' = [twi EXCEPT !.en = FALSE, !.ie = FALSE, !.op = NoOp, !.stop = FALSE]
             /\ To("main", "idle")
             /\ UNCHANGED <<requests, automaton, status, bus>>

-----------------------------------------------------------------------------
(***************************************************************************)
(* The peripheral and the slaves.  bus.owner tells what the bus is doing:  *)
(* free, after a START, or transferring in one of the master modes;        *)
(* bus.wire is the data of the transfer, bus.node its slave.  A received   *)
(* byte stands for its position among those the slave sent.                *)
(***************************************************************************)
Event(e) == twi' = [twi EXCEPT !.int = TRUE, !.sr = e, !.op = NoOp]

\* START: first any STOP still pending is put on the bus.
TwiStart == /\ twi.op.kind = "start" /\ ~twi.stop
            /\ Event(IF bus.owner = "free" THEN "TW_START" ELSE "TW_REP_START")
            /\ bus' = [FreeBus EXCEPT !.owner = "started"]

TwiAddress == /\ twi.op.kind \in {"read", "write"} /\ bus.owner = "started"
              /\ LET m == IF twi.op.kind = "read" THEN "MR" ELSE "MT" IN
                 /\ \/ Event(IF m = "MR" THEN "TW_MR_SLA_ACK" ELSE "TW_MT_SLA_ACK")
                    \/ Event(IF m = "MR" THEN "TW_MR_SLA_NACK" ELSE "TW_MT_SLA_NACK")
                 /\ bus' = [bus EXCEPT !.owner = m, !.node = twi.op.val]

TwiSend == /\ twi.op.kind = "data" /\ bus.owner = "MT"
           /\ Event("TW_MT_DATA_ACK") \/ Event("TW_MT_DATA_NACK")
           /\ bus' = [bus EXCEPT !.wire = Append(@, twi.op.val)]

TwiReceive == /\ twi.op.kind \in {"recvACK", "recvNACK"} /\ bus.owner = "MR"
              /\ Event(IF twi.op.kind = "recvACK" THEN "TW_MR_DATA_ACK" ELSE "TW_MR_DATA_NACK")
              /\ bus' = [bus EXCEPT !.wire = Append(@, Len(bus.wire))]

\* Noise on the bus, or a lost arbitration, at any operation.
TwiFault == /\ twi.op # NoOp
            /\ Event("TW_BUS_ERROR")
            /\ bus' = FreeBus

TwiStop == /\ twi.stop
           /\ twi' = [twi EXCEPT !.stop = FALSE]
           /\ bus' = FreeBus

Hardware == /\ TwiStart \/ TwiAddress \/ TwiSend \/ TwiReceive \/ TwiFault \/ TwiStop
            /\ UNCHANGED <<requests, automaton, cpu, status>>

-----------------------------------------------------------------------------
Init == /\ requests = ZeroedQueue(ZeroRequest)
        /\ ida_state = "Idle"
        /\ current_req = NULL
        /\ i = 0
        /\ cpu = [c \in Context |-> Resting]
        /\ status = [k \in Clients |-> "Success"]
        /\ buffer = [k \in Clients |-> [b \in 0 .. MaxLen - 1 |-> -1]]
        /\ twi = [en |-> FALSE, ie |-> FALSE, int |-> FALSE, sr |-> "TW_NO_INFO",
                  op |-> NoOp, stop |-> FALSE]
        /\ bus = FreeBus

UserCall == \E c \in Context, k \in Clients : \E reqs \in Calls(k) : Call(c, k, reqs)

\* The steps of calls that have begun.
CallStep == \/ \E c \in Context : SetRunning(c) \/ Put(c)
            \/ EnterAtomic
            \/ i2c_close

Next == \/ i2c_open
        \/ i2c_swamped
        \/ UserCall
        \/ CallStep
        \/ CloseBegin
        \/ TwiIsr
        \/ Hardware

Spec == Init /\ [][Next]_vars

(***************************************************************************)
(* The CPU goes on with the code it runs, takes a pending interrupt and    *)
(* the peripheral ends what it was told to do.  Users need not call.       *)
(***************************************************************************)
Fairness == WF_vars(CallStep) /\ WF_vars(TwiIsr) /\ WF_vars(Hardware)

FairSpec == Spec /\ Fairness
=============================================================================
