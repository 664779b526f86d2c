-------------------------- MODULE I2cServiceProofs --------------------------
(***************************************************************************)
(* The i2c driver keeps the promises of i2c.h to its users, for every      *)
(* queue length, every set of users and every message length: it is the    *)
(* bounded FIFO of I2cService, and every status variable that is Running   *)
(* is owed exactly one answer.                                             *)
(*                                                                         *)
(* On top of the invariant of I2cProofs this takes a ledger of the answers *)
(* owed, and that nobody else touches the status variable of a user whose  *)
(* call is under way: main and the interrupt routines have users of their  *)
(* own, and each is in one call at a time.                                 *)
(***************************************************************************)
EXTENDS I2cProofs

\* The client that each context announced and has not put yet.
AnnouncedBy ==
  [c \in Context |-> IF cpu[c].pc \in {"prepared", "atomic"} THEN Head(cpu[c].todo).status
                                                             ELSE NULL]

\* What is owed, for a queue q, announcements a and status variables st:
\* one answer to each client that is Running and none to the others.
Ledger(q, a, st) ==
  /\ \A j \in 1 .. Len(q) : q[j].status # NULL => st[q[j].status] = "Running"
  /\ \A c \in Context : a[c] # NULL => st[a[c]] = "Running"
  /\ \A k \in Clients : st[k] = "Running" => \/ \E j \in 1 .. Len(q) : q[j].status = k
                                             \/ \E c \in Context : a[c] = k
  /\ \A j, l \in 1 .. Len(q) : q[j].status # NULL /\ q[j].status = q[l].status => j = l
  /\ \A j \in 1 .. Len(q), c \in Context : a[c] # NULL => q[j].status # a[c]
  /\ \A c, d \in Context : a[c] # NULL /\ a[c] = a[d] => c = d

UsersOf(c) == IF c = "main" THEN MainClients ELSE IsrClients

Calling(c) == cpu[c].pc \in {"called", "prepared", "atomic"}

\* The client whose status variable the last request of a call reports to.
Asks(todo) == todo[Len(todo)].status

\* Only the last request of a call has a status variable; it belongs to a
\* user of the context, and is not Running before its request is announced.
CallerOK(c) ==
  LET todo == cpu[c].todo IN
  /\ \A j \in 1 .. Len(todo) - 1 : todo[j].status = NULL
  /\ Asks(todo) \in UsersOf(c) \cup {NULL}
  /\ Asks(todo) # NULL /\ (cpu[c].pc = "called" \/ Len(todo) > 1)
       => status[Asks(todo)] # "Running"

\* The channel is open as long as somebody is in the driver.
OpenInCalls == \A c \in Context : cpu[c].pc # "idle" => twi.en

CallersOK == OpenInCalls /\ \A c \in Context : Calling(c) => CallerOK(c)

ServiceInv == I2cInv /\ CallersOK /\ Ledger(Contents(requests), AnnouncedBy, status)

-----------------------------------------------------------------------------
(***************************************************************************)
(* The ledger, for any queue, announcements and status variables.          *)
(***************************************************************************)
Announcements == [Context -> Clients \cup {NULL}]

\* A request is announced.
LEMMA LedgerAnnounce ==
  ASSUME NEW q \in Seq(Request), NEW a \in Announcements, NEW st \in [Clients -> Status],
         Ledger(q, a, st), NEW c \in Context, a[c] = NULL, NEW k \in Clients,
         st[k] # "Running"
  PROVE  Ledger(q, [a EXCEPT ![c] = k], [st EXCEPT ![k] = "Running"])
<1> DEFINE b == [a EXCEPT ![c] = k]
           su == [st EXCEPT ![k] = "Running"]
<1>1. \A j \in 1 .. Len(q) : q[j].status # NULL => su[q[j].status] = "Running"
  BY DEF Ledger, Request
<1>2. \A d \in Context : b[d] # NULL => su[b[d]] = "Running"
  BY DEF Ledger, Announcements
<1>3. ASSUME NEW h \in Clients, su[h] = "Running"
      PROVE  \/ \E j \in 1 .. Len(q) : q[j].status = h
             \/ \E d \in Context : b[d] = h
  <2>1. CASE h = k
    BY <2>1 DEF Announcements
  <2>2. CASE h # k
    <3>1. st[h] = "Running"
      BY <1>3, <2>2
    <3>2. \A d \in Context : a[d] = h => b[d] = h
      BY ClientAssumption DEF Announcements
    <3> QED BY <3>1, <3>2 DEF Ledger
  <2> QED BY <2>1, <2>2
<1>4. \A j, l \in 1 .. Len(q) : q[j].status # NULL /\ q[j].status = q[l].status => j = l
  BY DEF Ledger
<1>5. \A j \in 1 .. Len(q), d \in Context : b[d] # NULL => q[j].status # b[d]
  BY ClientAssumption DEF Ledger, Announcements
<1>6. \A d, e \in Context : b[d] # NULL /\ b[d] = b[e] => d = e
  BY DEF Ledger, Announcements
<1> QED BY <1>1, <1>2, <1>3, <1>4, <1>5, <1>6 DEF Ledger

\* What was announced is queued: the debt goes from the call to the queue.
LEMMA LedgerAccept ==
  ASSUME NEW q \in Seq(Request), NEW a \in Announcements, NEW st \in [Clients -> Status],
         Ledger(q, a, st), NEW c \in Context, NEW r \in Request, a[c] = r.status
  PROVE  Ledger(Append(q, r), [a EXCEPT ![c] = NULL], st)
<1> DEFINE b == [a EXCEPT ![c] = NULL]
           p == Append(q, r)
<1>1. /\ Len(q) \in Nat /\ Len(p) = Len(q) + 1 /\ p[Len(q) + 1] = r
      /\ \A j \in 1 .. Len(q) : p[j] = q[j]
  BY AppendProperties, LenProperties
<1>2. \A j \in 1 .. Len(p) : j \in 1 .. Len(q) \/ j = Len(q) + 1
  BY <1>1
<1> HIDE DEF p
<1>3. \A j \in 1 .. Len(p) : p[j].status # NULL => st[p[j].status] = "Running"
  BY <1>1, <1>2 DEF Ledger
<1>4. \A d \in Context : b[d] # NULL => st[b[d]] = "Running"
  BY DEF Ledger, Announcements
<1>5. ASSUME NEW h \in Clients, st[h] = "Running"
      PROVE  \/ \E j \in 1 .. Len(p) : p[j].status = h
             \/ \E d \in Context : b[d] = h
  <2>1. CASE \E j \in 1 .. Len(q) : q[j].status = h
    BY <1>1, <2>1
  <2>2. CASE \E d \in Context \ {c} : a[d] = h
    BY <2>2 DEF Announcements
  <2>3. CASE a[c] = h
    <3>1. p[Len(q) + 1].status = h /\ Len(q) + 1 \in 1 .. Len(p)
      BY <1>1, <2>3
    <3> QED BY <3>1
  <2> QED BY <1>5, <2>1, <2>2, <2>3 DEF Ledger
<1>6. ASSUME NEW j \in 1 .. Len(p), NEW l \in 1 .. Len(p), p[j].status # NULL,
             p[j].status = p[l].status
      PROVE  j = l
  BY <1>1, <1>2, <1>6 DEF Ledger
<1>7. ASSUME NEW j \in 1 .. Len(p), NEW d \in Context, b[d] # NULL
      PROVE  p[j].status # b[d]
  <2>1. d # c /\ b[d] = a[d]
    BY <1>7 DEF Announcements
  <2> QED BY <1>1, <1>2, <1>7, <2>1 DEF Ledger
<1>8. \A d, e \in Context : b[d] # NULL /\ b[d] = b[e] => d = e
  BY DEF Ledger, Announcements
<1> QED BY <1>3, <1>4, <1>5, <1>6, <1>7, <1>8 DEF Ledger, p

\* The first request ends and its client is answered.
LEMMA LedgerFinish ==
  ASSUME NEW q \in Seq(Request), NEW a \in Announcements, NEW st \in [Clients -> Status],
         Ledger(q, a, st), q # <<>>, NEW s \in Status \ {"Running"},
         NEW su, su = IF Head(q).status = NULL THEN st ELSE [st EXCEPT ![Head(q).status] = s]
  PROVE  Ledger(Tail(q), a, su)
<1> DEFINE p == Tail(q)
           k == Head(q).status
<1>1. /\ Len(q) \in Nat \ {0} /\ Len(p) = Len(q) - 1 /\ Head(q) = q[1]
      /\ \A j \in 1 .. Len(p) : p[j] = q[j + 1]
  BY HeadTailProperties, LenProperties, EmptySeq
<1>2. \A j \in 1 .. Len(p) : j + 1 \in 1 .. Len(q) /\ j + 1 # 1
  BY <1>1
<1>3. k = q[1].status /\ 1 \in 1 .. Len(q) /\ k \in Clients \cup {NULL}
  BY <1>1 DEF Request
<1>4. \A h \in Clients : h # k => su[h] = st[h]
  BY <1>3
<1>5. k # NULL => su[k] = s
  BY <1>3
<1>6. \A j \in 1 .. Len(p) : p[j].status # NULL => p[j].status # k /\ p[j].status \in Clients
  <2>1. \A j \in 1 .. Len(p) : p[j] \in Request
    BY <1>1, <1>2
  <2> QED BY <1>1, <1>2, <1>3, <2>1 DEF Ledger, Request
<1>7. \A d \in Context : a[d] # NULL => a[d] # k /\ a[d] \in Clients
  BY <1>3 DEF Ledger, Announcements
<1> HIDE DEF p, k
<1>8. ASSUME NEW j \in 1 .. Len(p), p[j].status # NULL
      PROVE  su[p[j].status] = "Running"
  <2>1. p[j].status # k /\ p[j].status \in Clients /\ p[j] = q[j + 1] /\ j + 1 \in 1 .. Len(q)
    BY <1>1, <1>2, <1>6, <1>8
  <2>2. st[p[j].status] = "Running"
    BY <1>8, <2>1 DEF Ledger
  <2> QED BY <1>4, <2>1, <2>2
<1>9. \A d \in Context : a[d] # NULL => su[a[d]] = "Running"
  BY <1>4, <1>7 DEF Ledger
<1>10. ASSUME NEW h \in Clients, su[h] = "Running"
       PROVE  \/ \E j \in 1 .. Len(p) : p[j].status = h
              \/ \E d \in Context : a[d] = h
  <2>1. h # k /\ st[h] = "Running"
    BY <1>4, <1>5, <1>10, ClientAssumption
  <2>2. CASE \E d \in Context : a[d] = h
    BY <2>2
  <2>3. CASE \E j \in 1 .. Len(q) : q[j].status = h
    <3>1. PICK j \in 1 .. Len(q) : q[j].status = h
      BY <2>3
    <3>2. j # 1
      BY <1>3, <2>1, <3>1
    <3>3. j - 1 \in 1 .. Len(p) /\ p[j - 1] = q[j]
      BY <1>1, <3>2
    <3> QED BY <3>1, <3>3
  <2> QED BY <2>1, <2>2, <2>3 DEF Ledger
<1>11. ASSUME NEW j \in 1 .. Len(p), NEW l \in 1 .. Len(p), p[j].status # NULL,
              p[j].status = p[l].status
       PROVE  j = l
  <2>1. j + 1 = l + 1
    BY <1>1, <1>2, <1>11 DEF Ledger
  <2> QED BY <2>1
<1>12. \A j \in 1 .. Len(p), d \in Context : a[d] # NULL => p[j].status # a[d]
  BY <1>1, <1>2 DEF Ledger
<1>13. \A d, e \in Context : a[d] # NULL /\ a[d] = a[e] => d = e
  BY DEF Ledger
<1> QED BY <1>8, <1>9, <1>10, <1>11, <1>12, <1>13 DEF Ledger, p

-----------------------------------------------------------------------------
(***************************************************************************)
(* What the steps do to the queue and to the status variables.             *)
(***************************************************************************)
LEMMA AnnouncedType == ASSUME CpuOK PROVE AnnouncedBy \in Announcements
<1>1. ASSUME NEW c \in Context, cpu[c].pc \in {"prepared", "atomic"}
      PROVE  Head(cpu[c].todo) \in Request
  BY <1>1, HeadTailProperties DEF CpuOK
<1>2. \A r \in Request : r.status \in Clients \cup {NULL}
  BY DEF Request
<1> QED BY <1>1, <1>2 DEF AnnouncedBy, Announcements

\* The end of a request.
LEMMA FetchMoves ==
  ASSUME I2cInv, ida_state # "Idle", NEW s \in Status, fetch_or_idle(s, requests)
  PROVE  /\ Contents(requests) # <<>> /\ Head(Contents(requests)) = Current
         /\ Contents(requests)' = Tail(Contents(requests))
         /\ status' = IF Head(Contents(requests)).status = NULL THEN status
                      ELSE [status EXCEPT ![Head(Contents(requests)).status] = s]
         /\ twi'.en
<1>1. /\ requests \in QueueOf(Requests) /\ ~i2cq_is_empty(requests)
      /\ current_req = requests.front
  BY CurrentIsHead DEF I2cInv, DriverOK
<1>2. /\ Contents(i2cq_dequeue(requests)) = Tail(Contents(requests))
      /\ Head(Contents(requests)) = Current
  BY <1>1, DequeueTails DEF Current, i2cq_front
<1>3. Contents(requests) # <<>>
  BY <1>1, CountRange, ContentsType
<1>4. Contents(requests)' = Tail(Contents(requests))
  BY <1>2 DEF fetch_or_idle
<1>5. twi'.en
  BY DEF fetch_or_idle, throw_start, throw_stop, disable_i2c_interrupts, Go, I2cInv, DriverOK,
         TwiReg
<1>6. status' = IF Current.status = NULL THEN status
                ELSE [status EXCEPT ![Current.status] = s]
  BY DEF fetch_or_idle, Report, Current
<1> QED BY <1>2, <1>3, <1>4, <1>5, <1>6

\* The TWI interrupt goes on with a request or ends it.
LEMMA IsrMoves ==
  ASSUME I2cInv, TwiIsr
  PROVE  /\ ida_state # "Idle"
         /\ \/ UNCHANGED <<requests, status>> /\ twi'.en
            \/ \E s \in Status \ {"Running"} : fetch_or_idle(s, requests)
<1>1. ida_state # "Idle" /\ ida_next(twi.sr, requests) /\ twi \in TwiReg
  BY DEF TwiIsr, I2cInv, DriverOK, AutomatonAwake
<1>2. \A k, v : throw_byte(twi, k, v).en /\ throw_request_byte(twi, v).en
  BY <1>1 DEF throw_byte, throw_request_byte, Go, TwiReg
<1>3. CASE \E s \in Status \ {"Running"} : fetch_or_idle(s, requests)
  BY <1>1, <1>3
<1>4. CASE \E s, k, v, n : Goto(s, throw_byte(twi, k, v), n, requests)
  BY <1>1, <1>2, <1>4 DEF Goto
<1>5. CASE \E s, v, n : Goto(s, throw_request_byte(twi, v), n, requests)
  BY <1>1, <1>2, <1>5 DEF Goto
<1>6. \/ \E s \in Status \ {"Running"} : fetch_or_idle(s, requests)
      \/ \E s, k, v, n : Goto(s, throw_byte(twi, k, v), n, requests)
      \/ \E s, v, n : Goto(s, throw_request_byte(twi, v), n, requests)
  <2>1. CASE FromStarting(twi.sr, requests)
    BY <2>1, Zenon DEF FromStarting, Status
  <2>2. CASE FromSeekingSlaveTx(twi.sr, requests)
    BY <2>2, Zenon DEF FromSeekingSlaveTx, Status
  <2>3. CASE FromTxData(twi.sr, requests)
    BY <2>3, Zenon DEF FromTxData, Status
  <2>4. CASE FromSeekingSlaveRx(twi.sr, requests)
    BY <2>4, Zenon DEF FromSeekingSlaveRx, Status
  <2>5. CASE FromRxData(twi.sr, requests)
    BY <2>5, Zenon DEF FromRxData, Status
  <2> QED BY <1>1, <2>1, <2>2, <2>3, <2>4, <2>5 DEF ida_next
<1> QED BY <1>3, <1>4, <1>5, <1>6

\* A call has one request, or two of which the first has no status variable.
LEMMA CallShape ==
  ASSUME NEW k \in Clients, NEW reqs \in Calls(k)
  PROVE  /\ \A j \in 1 .. Len(reqs) - 1 : reqs[j].status = NULL
         /\ Asks(reqs) \in {k, NULL}
<1>1. ASSUME NEW n, NEW s \in {k, NULL}, NEW r \in {i2c_send(k, n, s), i2c_receive(k, n, s)}
      PROVE  Len(r) = 1 /\ r[1].status = s
  BY <1>1 DEF i2c_send, i2c_receive
<1>2. ASSUME NEW r \in {i2c_send_uint8(k, k), i2c_send_2uint8(k, k), i2c_receive_uint8(k, k)}
      PROVE  Len(r) = 1 /\ r[1].status = k
  BY <1>2 DEF i2c_send_uint8, i2c_send_2uint8, i2c_receive_uint8, i2c_receive
<1>3. ASSUME NEW n, NEW m
      PROVE  LET r == i2c_sandr(k, n, m, k) IN
             Len(r) = 2 /\ r[1].status = NULL /\ r[2].status = k
  BY DEF i2c_sandr, i2c_send, i2c_receive
<1>4. PICK f \in {"send", "forget", "receive", "bytes", "sandr"} : reqs \in CallsOf(k, f)
  BY CallAssumption DEF Calls
<1>5. \/ Len(reqs) = 1 /\ reqs[1].status \in {k, NULL}
      \/ Len(reqs) = 2 /\ reqs[1].status = NULL /\ reqs[2].status = k
  <2>1. CASE f = "send"
    BY <2>1, <1>1, <1>4 DEF CallsOf
  <2>2. CASE f = "forget"
    BY <2>2, <1>1, <1>4 DEF CallsOf
  <2>3. CASE f = "receive"
    BY <2>3, <1>1, <1>2, <1>4 DEF CallsOf
  <2>4. CASE f = "bytes"
    BY <2>4, <1>2, <1>4 DEF CallsOf
  <2>5. CASE f = "sandr"
    BY <2>5, <1>3, <1>4 DEF CallsOf
  <2> QED BY <1>4, <2>1, <2>2, <2>3, <2>4, <2>5
<1> QED BY <1>5 DEF Asks

\* A step of the driver that is one of the service, or none.
ServiceStep == [Service!Next]_(Service!vars)

LEMMA PcMoves ==
  ASSUME CpuOK, NEW c \in Context, NEW p, To(c, p)
  PROVE  /\ cpu'[c].pc = p /\ cpu'[c].todo = cpu[c].todo
         /\ \A d \in Context \ {c} : cpu'[d] = cpu[d]
BY DEF CpuOK, To

\* Steps that the users of the service do not see.
LEMMA Unseen ==
  ASSUME ServiceInv, I2cInv', CallersOK', UNCHANGED <<requests, status, AnnouncedBy>>,
         twi'.en = twi.en
  PROVE  ServiceInv' /\ ServiceStep
BY DEF ServiceInv, ServiceStep, Service!vars

\* A context that moves without announcing or putting anything.
LEMMA Moves ==
  ASSUME ServiceInv, I2cInv', UNCHANGED <<requests, status, twi>>,
         NEW c \in Context, NEW p \in {"ready", "closing", "atomic"}, To(c, p), twi.en,
         \/ ~Calling(c) /\ p # "atomic"
         \/ cpu[c].pc = "prepared" /\ p = "atomic"
  PROVE  ServiceInv' /\ ServiceStep
<1>1. /\ cpu'[c].pc = p /\ cpu'[c].todo = cpu[c].todo
      /\ \A d \in Context \ {c} : cpu'[d] = cpu[d]
  BY PcMoves DEF ServiceInv, I2cInv
<1>2. AnnouncedBy' = AnnouncedBy
  BY <1>1 DEF AnnouncedBy, Calling
<1>3. \A d \in Context : Calling(d)' => Calling(d) /\ CallerOK(d)'
  BY <1>1 DEF ServiceInv, CallersOK, Calling, CallerOK
<1>4. CallersOK'
  BY <1>1, <1>3 DEF CallersOK, OpenInCalls
<1> QED BY <1>2, <1>4, Unseen

-----------------------------------------------------------------------------
(***************************************************************************)
(* The steps of main and of the users' interrupt routines.                 *)
(***************************************************************************)
LEMMA OpenServes ==
  ASSUME ServiceInv, I2cInv', i2c_open
  PROVE  ServiceInv' /\ ServiceStep
<1>1. /\ ~twi.en /\ twi'.en /\ requests' = i2cq_empty(requests) /\ UNCHANGED <<cpu, status>>
  BY DEF i2c_open, ServiceInv, I2cInv, DriverOK, TwiReg
<1>2. requests \in QueueOf(Requests) /\ i2cq_is_empty(requests)
  BY <1>1 DEF ServiceInv, I2cInv, DriverOK, AutomatonAwake
<1>3. Contents(requests) = <<>>
  BY <1>2, CountRange, ContentsType, EmptySeq
<1>4. requests' \in QueueOf(Requests) /\ i2cq_is_empty(requests')
  <2>1. ZeroRequest \in Requests
    BY DEF Requests
  <2> QED BY <1>1, <1>2, <2>1, QueueTypes DEF i2cq_empty, i2cq_is_empty, QueueOf
<1>5. Contents(requests)' = <<>>
  BY <1>4, CountRange, ContentsType, EmptySeq
<1>6. Service!Open
  BY <1>1, <1>3, <1>5 DEF Service!Open
<1>7. UNCHANGED <<AnnouncedBy, Contents(requests)>>
  BY <1>1, <1>3, <1>5 DEF AnnouncedBy
<1>8. CallersOK'
  BY <1>1 DEF ServiceInv, CallersOK, OpenInCalls, Calling, CallerOK
<1> QED BY <1>1, <1>6, <1>7, <1>8 DEF ServiceInv, ServiceStep, Service!Next

LEMMA CallServes ==
  ASSUME ServiceInv, I2cInv', NEW c \in Context, NEW k \in Clients, NEW reqs \in Calls(k),
         Call(c, k, reqs)
  PROVE  ServiceInv' /\ ServiceStep
<1>1. /\ twi.en /\ status[k] # "Running" /\ k \in UsersOf(c) /\ ~Calling(c)
      /\ cpu' = [cpu EXCEPT ![c] = [pc |-> "called", todo |-> reqs]]
      /\ UNCHANGED <<requests, status, twi>>
  BY DEF Call, UsersOf, At, InterruptsOn, Calling, Context
<1>2. /\ cpu'[c].pc = "called" /\ cpu'[c].todo = reqs
      /\ \A d \in Context \ {c} : cpu'[d] = cpu[d]
  BY <1>1 DEF ServiceInv, I2cInv, CpuOK
<1>3. AnnouncedBy' = AnnouncedBy
  BY <1>1, <1>2 DEF AnnouncedBy, Calling
<1>4. CallerOK(c)'
  BY <1>1, <1>2, CallShape DEF CallerOK
<1>5. \A d \in Context \ {c} : Calling(d)' => CallerOK(d)'
  BY <1>1, <1>2 DEF ServiceInv, CallersOK, Calling, CallerOK
<1>6. CallersOK'
  BY <1>1, <1>4, <1>5 DEF CallersOK, OpenInCalls
<1> QED BY <1>1, <1>3, <1>6, Unseen

\* The status variable is set to Running: the request is announced.
LEMMA SetRunningServes ==
  ASSUME ServiceInv, I2cInv', NEW c \in Context, SetRunning(c)
  PROVE  ServiceInv' /\ ServiceStep
<1> DEFINE todo == cpu[c].todo
           k == Head(todo).status
<1>1. /\ cpu[c].pc = "called" /\ Report(Head(todo), "Running")
      /\ UNCHANGED <<requests, twi>> /\ twi.en /\ CallerOK(c)
  BY DEF SetRunning, At, ServiceInv, CallersOK, OpenInCalls, Calling
<1>2. /\ cpu'[c].pc \in {"prepared", "atomic"} /\ cpu'[c].todo = todo
      /\ \A d \in Context \ {c} : cpu'[d] = cpu[d]
  BY PcMoves DEF SetRunning, ServiceInv, I2cInv
<1>3. /\ todo \in Seq(Request) /\ Len(todo) \in Nat \ {0} /\ Head(todo) = todo[1]
      /\ k \in Clients \cup {NULL}
  <2>1. todo \in Seq(Request) /\ todo # <<>>
    BY <1>1 DEF ServiceInv, I2cInv, CpuOK
  <2>2. Len(todo) \in Nat \ {0} /\ Head(todo) = todo[1] /\ Head(todo) \in Request
    BY <2>1, HeadTailProperties, LenProperties, EmptySeq
  <2> QED BY <2>1, <2>2 DEF Request
<1>4. AnnouncedBy[c] = NULL /\ AnnouncedBy' = [AnnouncedBy EXCEPT ![c] = k]
  BY <1>1, <1>2 DEF AnnouncedBy
<1>5. AnnouncedBy \in Announcements /\ status \in [Clients -> Status]
  BY AnnouncedType DEF ServiceInv, I2cInv, DriverOK
<1>6. OpenInCalls'
  BY <1>1 DEF OpenInCalls
<1>7. CASE k = NULL
  <2>1. status' = status /\ AnnouncedBy' = AnnouncedBy
    BY <1>1, <1>4, <1>5, <1>7 DEF Report, Announcements
  <2>2. \A d \in Context : Calling(d)' => CallerOK(d)'
    BY <1>1, <1>2, <2>1 DEF ServiceInv, CallersOK, Calling, CallerOK
  <2> QED BY <1>1, <1>6, <2>1, <2>2, Unseen DEF CallersOK
<1>8. CASE k # NULL
  <2>1. k \in Clients /\ status' = [status EXCEPT ![k] = "Running"]
    BY <1>1, <1>3, <1>8 DEF Report
  <2>2. Len(todo) = 1 /\ k = Asks(todo) /\ k \in UsersOf(c) /\ status[k] # "Running"
    <3>1. ~(1 \in 1 .. Len(todo) - 1)
      BY <1>1, <1>3, <1>8 DEF CallerOK
    <3>2. Len(todo) = 1
      <4>1. \A n \in Nat \ {0} : ~(1 \in 1 .. n - 1) => n = 1
        OBVIOUS
      <4> QED BY <1>3, <3>1, <4>1, Zenon
    <3> QED BY <1>1, <1>3, <1>8, <3>2 DEF CallerOK, Asks
  <2>3. Ledger(Contents(requests), AnnouncedBy, status)'
    <3>1. Contents(requests) \in Seq(Request)
      BY DEF ServiceInv, I2cInv, DriverOK
    <3>2. Ledger(Contents(requests), [AnnouncedBy EXCEPT ![c] = k],
                 [status EXCEPT ![k] = "Running"])
      BY <1>4, <1>5, <2>1, <2>2, <3>1, LedgerAnnounce DEF ServiceInv
    <3> QED BY <1>1, <1>4, <2>1, <3>2
  <2>4. CallerOK(c)'
    BY <1>1, <1>2, <2>2 DEF CallerOK
  <2>5. ASSUME NEW d \in Context \ {c}, Calling(d)'
        PROVE  CallerOK(d)'
    <3>1. Calling(d) /\ CallerOK(d) /\ cpu'[d] = cpu[d]
      BY <1>2, <2>5 DEF ServiceInv, CallersOK, Calling
    <3>2. Asks(cpu[d].todo) # k
      BY <2>1, <2>2, <3>1, ClientAssumption DEF CallerOK, UsersOf, Context
    <3>3. Asks(cpu[d].todo) \in Clients \cup {NULL}
      BY <3>1 DEF CallerOK, UsersOf, Clients
    <3>4. Asks(cpu[d].todo) # NULL => status'[Asks(cpu[d].todo)] = status[Asks(cpu[d].todo)]
      BY <1>5, <2>1, <3>2, <3>3
    <3> QED BY <3>1, <3>4 DEF CallerOK
  <2>6. CallersOK'
    BY <1>6, <2>4, <2>5 DEF CallersOK
  <2>7. Service!Announce(k)
    BY <1>1, <2>1, <2>2 DEF Service!Announce
  <2> QED BY <2>1, <2>3, <2>6, <2>7 DEF ServiceInv, ServiceStep, Service!Next
<1> QED BY <1>7, <1>8

\* The request is queued, if there is room.
LEMMA PutServes ==
  ASSUME ServiceInv, I2cInv', NEW c \in Context, Put(c)
  PROVE  ServiceInv' /\ ServiceStep
<1> DEFINE todo == cpu[c].todo
           r == Head(todo)
<1>1. /\ cpu[c].pc = "atomic" /\ twi.en /\ CallerOK(c) /\ ~i2cq_is_full(requests)
  BY DEF Put, At, ServiceInv, CallersOK, OpenInCalls, Calling
<1>2. /\ todo \in Seq(Request) /\ todo # <<>> /\ Len(todo) \in Nat \ {0}
      /\ r \in Request /\ r \in Requests
      /\ Tail(todo) \in Seq(Request) /\ Len(Tail(todo)) = Len(todo) - 1
      /\ \A j \in 1 .. Len(todo) - 1 : Tail(todo)[j] = todo[j + 1]
  <2>1. todo \in Seq(Request) /\ todo # <<>>
    BY <1>1 DEF ServiceInv, I2cInv, CpuOK
  <2> QED BY <2>1, HeadTailProperties, LenProperties, EmptySeq DEF Requests
<1>3. /\ requests' = i2cq_enqueue(requests, r) /\ UNCHANGED status /\ twi'.en
  <2>1. CASE ida_state = "Idle"
    <3>1. /\ requests' = i2cq_enqueue(requests, r) /\ UNCHANGED status
          /\ twi' = throw_start(twi)
      BY <2>1 DEF Put, ida_next, FromIdle
    <3>2. twi \in TwiReg
      BY DEF ServiceInv, I2cInv, DriverOK
    <3>3. Ordered(twi', "start")
      BY <3>1, <3>2, StartOrdered
    <3> QED BY <3>1, <3>3 DEF Ordered
  <2>2. CASE ida_state # "Idle"
    BY <1>1, <2>2 DEF Put
  <2> QED BY <2>1, <2>2
<1>4. /\ Contents(requests)' = Append(Contents(requests), r)
      /\ Contents(requests) \in Seq(Request) /\ Len(Contents(requests)) < I2CQ_L - 1
  <2>1. requests \in QueueOf(Requests)
    BY DEF ServiceInv, I2cInv, DriverOK
  <2>2. Len(Contents(requests)) < I2CQ_L - 1
    <3>1. \A n, m \in Int : n < m /\ n # m - 1 => n < m - 1
      OBVIOUS
    <3>2. /\ Count(requests) \in Int /\ I2CQ_L \in Int /\ Count(requests) < I2CQ_L
          /\ Count(requests) # I2CQ_L - 1 /\ Len(Contents(requests)) = Count(requests)
      BY <1>1, <2>1, CountRange, ContentsType, QueueInts
    <3> QED BY <3>1, <3>2, Zenon
  <2> QED BY <1>1, <1>2, <1>3, <2>1, <2>2, EnqueueWithRoom DEF ServiceInv, I2cInv, DriverOK
<1>5. cpu' = [cpu EXCEPT ![c] = IF Tail(todo) = <<>> THEN Resting
                                ELSE [pc |-> "called", todo |-> Tail(todo)]]
  BY DEF Put
<1>6. /\ cpu'[c].pc \in {"idle", "called"}
      /\ cpu'[c].pc = "called" => cpu'[c].todo = Tail(todo) /\ Tail(todo) # <<>>
      /\ \A d \in Context \ {c} : cpu'[d] = cpu[d]
  BY <1>5 DEF ServiceInv, I2cInv, CpuOK, Resting
<1>7. AnnouncedBy[c] = r.status /\ AnnouncedBy' = [AnnouncedBy EXCEPT ![c] = NULL]
  BY <1>1, <1>6 DEF AnnouncedBy
<1>8. AnnouncedBy \in Announcements /\ status \in [Clients -> Status]
  BY AnnouncedType DEF ServiceInv, I2cInv, DriverOK
<1>9. Ledger(Contents(requests), AnnouncedBy, status)'
  <2>1. Ledger(Append(Contents(requests), r), [AnnouncedBy EXCEPT ![c] = NULL], status)
    BY <1>2, <1>4, <1>7, <1>8, LedgerAccept DEF ServiceInv
  <2> QED BY <1>3, <1>4, <1>7, <2>1
<1>10. CallersOK'
  <2>1. ASSUME cpu'[c].pc = "called"
        PROVE  CallerOK(c)'
    <3>1. Len(todo) > 1 /\ Len(Tail(todo)) \in Nat \ {0}
      <4>1. Len(Tail(todo)) # 0
        BY <1>2, <1>6, <2>1, EmptySeq
      <4>2. \A n \in Nat \ {0} : n - 1 # 0 => n > 1 /\ n - 1 \in Nat \ {0}
        OBVIOUS
      <4> QED BY <1>2, <4>1, <4>2, Zenon
    <3>2. Asks(Tail(todo)) = Asks(todo)
      BY <1>2, <3>1 DEF Asks
    <3>3. \A j \in 1 .. Len(Tail(todo)) - 1 : Tail(todo)[j].status = NULL
      BY <1>1, <1>2, <3>1 DEF CallerOK
    <3> QED BY <1>1, <1>3, <1>6, <2>1, <3>1, <3>2, <3>3 DEF CallerOK
  <2>2. \A d \in Context \ {c} : Calling(d)' => CallerOK(d)'
    BY <1>3, <1>6 DEF ServiceInv, CallersOK, Calling, CallerOK
  <2> QED BY <1>3, <1>6, <2>1, <2>2 DEF CallersOK, OpenInCalls, Calling
<1>11. Service!Accept(r)
  <2>1. ASSUME r.status # NULL
        PROVE  status[r.status] = "Running" /\ ~Service!Pending(r.status)
    BY <1>7, <2>1 DEF ServiceInv, Ledger, Service!Pending
  <2> QED BY <1>1, <1>3, <1>4, <2>1 DEF Service!Accept
<1> QED BY <1>2, <1>9, <1>10, <1>11 DEF ServiceInv, ServiceStep, Service!Next

\* The channel closes with nothing pending and nobody else in the driver.
LEMMA CloseServes ==
  ASSUME ServiceInv, I2cInv', i2c_close
  PROVE  ServiceInv' /\ ServiceStep
<1>1. /\ cpu["main"].pc = "closing" /\ cpu["isr"].pc = "idle" /\ ida_state = "Idle"
      /\ UNCHANGED <<requests, status>> /\ To("main", "idle") /\ ~twi'.en /\ twi.en
  BY DEF i2c_close, At, Runs, ServiceInv, CallersOK, OpenInCalls, I2cInv, DriverOK, TwiReg,
         Context
<1>2. cpu'["main"].pc = "idle" /\ cpu'["isr"] = cpu["isr"]
  BY <1>1, PcMoves DEF ServiceInv, I2cInv, Context
<1>3. AnnouncedBy' = AnnouncedBy
  BY <1>1, <1>2 DEF AnnouncedBy, Context
<1>4. CallersOK'
  BY <1>1, <1>2 DEF CallersOK, OpenInCalls, Calling, Context
<1>5. Contents(requests) = <<>>
  <2>1. requests \in QueueOf(Requests) /\ i2cq_is_empty(requests)
    BY <1>1 DEF ServiceInv, I2cInv, DriverOK, AutomatonAwake
  <2> QED BY <2>1, CountRange, ContentsType, EmptySeq
<1>6. Service!Close
  BY <1>1, <1>5 DEF Service!Close
<1> QED BY <1>1, <1>3, <1>4, <1>6 DEF ServiceInv, ServiceStep, Service!Next

-----------------------------------------------------------------------------
(***************************************************************************)
(* The interrupt and the peripheral.                                       *)
(***************************************************************************)
LEMMA IsrServes ==
  ASSUME ServiceInv, I2cInv', TwiIsr
  PROVE  ServiceInv' /\ ServiceStep
<1>1. UNCHANGED cpu /\ twi.en /\ ida_state # "Idle"
  BY IsrMoves DEF TwiIsr, ServiceInv, I2cInv, DriverOK, AutomatonAwake
<1>2. AnnouncedBy' = AnnouncedBy
  BY <1>1 DEF AnnouncedBy
<1>3. CASE UNCHANGED <<requests, status>> /\ twi'.en
  <2>1. CallersOK'
    BY <1>1, <1>3 DEF ServiceInv, CallersOK, OpenInCalls, Calling, CallerOK
  <2>2. twi'.en = twi.en
    BY <1>1, <1>3 DEF ServiceInv, I2cInv, DriverOK, TwiReg
  <2> QED BY <1>2, <1>3, <2>1, <2>2, Unseen
<1>4. ASSUME NEW s \in Status \ {"Running"}, fetch_or_idle(s, requests)
      PROVE  ServiceInv' /\ ServiceStep
  <2>1. /\ Contents(requests) # <<>> /\ Contents(requests)' = Tail(Contents(requests))
        /\ status' = IF Head(Contents(requests)).status = NULL THEN status
                     ELSE [status EXCEPT ![Head(Contents(requests)).status] = s]
        /\ twi'.en
    BY <1>1, <1>4, FetchMoves DEF ServiceInv
  <2>2. /\ Contents(requests) \in Seq(Request) /\ status \in [Clients -> Status]
        /\ AnnouncedBy \in Announcements
    BY AnnouncedType DEF ServiceInv, I2cInv, DriverOK
  <2>3. Ledger(Tail(Contents(requests)), AnnouncedBy, status')
    BY <2>1, <2>2, LedgerFinish DEF ServiceInv
  <2>4. Ledger(Contents(requests), AnnouncedBy, status)'
    BY <1>2, <2>1, <2>3
  <2>5. \A k \in Clients : status[k] # "Running" => status'[k] # "Running"
    BY <2>1, <2>2
  <2>6. ASSUME NEW d \in Context, Calling(d)'
        PROVE  CallerOK(d)'
    <3>1. CallerOK(d)
      BY <1>1, <2>6 DEF ServiceInv, CallersOK, Calling
    <3>2. Asks(cpu[d].todo) \in Clients \cup {NULL}
      BY <3>1 DEF CallerOK, UsersOf, Clients
    <3> QED BY <1>1, <2>5, <3>1, <3>2 DEF CallerOK
  <2>7. CallersOK'
    BY <2>1, <2>6 DEF CallersOK, OpenInCalls
  <2>8. Service!Finish(s)
    BY <1>1, <2>1 DEF Service!Finish, ServiceInv, I2cInv, DriverOK, TwiReg
  <2> QED BY <2>4, <2>7, <2>8 DEF ServiceInv, ServiceStep, Service!Next
<1> QED BY <1>3, <1>4, IsrMoves DEF ServiceInv

LEMMA HardwareServes ==
  ASSUME ServiceInv, I2cInv', Hardware
  PROVE  ServiceInv' /\ ServiceStep
<1>1. UNCHANGED <<requests, cpu, status>> /\ twi'.en = twi.en
  <2>1. twi \in TwiReg
    BY DEF ServiceInv, I2cInv, DriverOK
  <2>2. (\E e : Event(e)) => twi'.en = twi.en
    BY <2>1 DEF Event, TwiReg
  <2>3. TwiStop => twi'.en = twi.en
    BY <2>1 DEF TwiStop, TwiReg
  <2>4. TwiStop \/ \E e : Event(e)
    BY Zenon DEF Hardware, TwiStart, TwiAddress, TwiSend, TwiReceive, TwiFault
  <2> QED BY <2>2, <2>3, <2>4 DEF Hardware
<1>2. AnnouncedBy' = AnnouncedBy
  BY <1>1 DEF AnnouncedBy
<1>3. CallersOK'
  BY <1>1 DEF ServiceInv, CallersOK, OpenInCalls, Calling, CallerOK
<1> QED BY <1>1, <1>2, <1>3, Unseen

-----------------------------------------------------------------------------
LEMMA InitServes == ASSUME Init PROVE ServiceInv /\ Service!Init
<1>1. requests \in QueueOf(Requests) /\ i2cq_is_empty(requests)
  BY InitHolds, QueueLengthAssumption
     DEF Init, ZeroedQueue, i2cq_is_empty, I2cInv, DriverOK
<1>2. Contents(requests) = <<>>
  BY <1>1, CountRange, ContentsType, EmptySeq
<1>3. \A c \in Context : cpu[c].pc = "idle"
  BY DEF Init, Resting
<1>4. \A c \in Context : AnnouncedBy[c] = NULL
  BY <1>3 DEF AnnouncedBy
<1>5. CallersOK
  BY <1>3 DEF CallersOK, OpenInCalls, Calling
<1>6. Len(Contents(requests)) = 0 /\ \A k \in Clients : status[k] # "Running"
  BY <1>2 DEF Init
<1>7. Ledger(Contents(requests), AnnouncedBy, status)
  BY <1>4, <1>6 DEF Ledger
<1>8. Service!Init
  BY <1>2 DEF Init, Service!Init, Status
<1> QED BY <1>5, <1>7, <1>8, InitHolds DEF ServiceInv

LEMMA NextServes ==
  ASSUME ServiceInv, [Next]_vars
  PROVE  ServiceInv' /\ ServiceStep
<1>0. I2cInv' /\ I2cInv
  BY NextKeeps DEF ServiceInv
<1>1. CASE i2c_open
  BY <1>0, <1>1, OpenServes
<1>2. CASE i2c_swamped
  BY <1>0, <1>2, Moves DEF i2c_swamped, At, Calling, Context
<1>3. CASE UserCall
  BY <1>0, <1>3, CallServes DEF UserCall
<1>4. CASE CallStep
  <2>1. CASE EnterAtomic
    <3>1. twi.en
      BY <2>1 DEF EnterAtomic, At, ServiceInv, CallersOK, OpenInCalls, Context
    <3> QED BY <1>0, <2>1, <3>1, Moves DEF EnterAtomic, At, Context
  <2> QED BY <1>0, <1>4, <2>1, SetRunningServes, PutServes, CloseServes DEF CallStep
<1>5. CASE CloseBegin
  BY <1>0, <1>5, Moves DEF CloseBegin, At, Calling, Context
<1>6. CASE TwiIsr
  BY <1>0, <1>6, IsrServes
<1>7. CASE Hardware
  BY <1>0, <1>7, HardwareServes
<1>8. CASE UNCHANGED vars
  <2>1. UNCHANGED <<requests, status, cpu, twi>>
    BY <1>8 DEF vars
  <2>2. AnnouncedBy' = AnnouncedBy
    BY <2>1 DEF AnnouncedBy
  <2>3. CallersOK'
    BY <2>1 DEF ServiceInv, CallersOK, OpenInCalls, Calling, CallerOK
  <2> QED BY <1>0, <2>1, <2>2, <2>3, Unseen
<1> QED BY <1>1, <1>2, <1>3, <1>4, <1>5, <1>6, <1>7, <1>8 DEF Next

(***************************************************************************)
(* The ledger balances in every reachable state: i2c.c.                    *)
(***************************************************************************)
THEOREM ServiceInvariance == Spec => []ServiceInv
BY InitServes, NextServes, PTL DEF Spec

(***************************************************************************)
(* A status variable is Running exactly while its user is owed one answer: *)
(* no request is lost and none is answered twice.                          *)
(***************************************************************************)
THEOREM OneAnswerOwed == Spec => []RunningIffOwed
<1>1. ServiceInv => RunningIffOwed
  <2> SUFFICES ASSUME ServiceInv, NEW k \in Clients
               PROVE  IF status[k] = "Running" THEN \E w \in Owed(k) : Owed(k) = {w}
                                               ELSE Owed(k) = {}
    BY DEF RunningIffOwed
  <2>1. /\ Ledger(Contents(requests), AnnouncedBy, status) /\ k # NULL
        /\ Len(Contents(requests)) = Count(requests)
    BY ContentsType, ClientAssumption DEF ServiceInv, I2cInv, DriverOK
  <2>2. \A c \in Context : Announced(c, k) <=> AnnouncedBy[c] = k
    BY <2>1 DEF Announced, AnnouncedBy
  <2>3. \A w : w \in Owed(k) <=> \/ \E j \in 1 .. Count(requests) : w = <<"queue", j>> /\ Waits(k, j)
                                 \/ \E c \in Context : w = <<c, 0>> /\ Announced(c, k)
    BY DEF Owed
  <2>4. status[k] # "Running" => \A w : w \notin Owed(k)
    BY <2>1, <2>2, <2>3 DEF Ledger, Waits
  <2>5. status[k] = "Running" => \E w : w \in Owed(k)
    BY <2>1, <2>2, <2>3 DEF Ledger, Waits
  <2>6. \A v, w : v \in Owed(k) /\ w \in Owed(k) => v = w
    BY <2>1, <2>2, <2>3 DEF Ledger, Waits
  <2> QED BY <2>4, <2>5, <2>6
<1> QED BY <1>1, ServiceInvariance, PTL

(***************************************************************************)
(* The driver with its interrupts, its circular queue and its callers is   *)
(* the bounded FIFO of requests that i2c.h promises.                       *)
(***************************************************************************)
THEOREM Implementation == Spec => ImplementsService
<1>1. ServiceInv /\ [Next]_vars => ServiceStep
  BY NextServes
<1>2. Init => Service!Init
  BY InitServes
<1> QED BY <1>1, <1>2, ServiceInvariance, PTL
        DEF Spec, ImplementsService, Service!Spec, ServiceStep

-----------------------------------------------------------------------------
(***************************************************************************)
(* What the bus carries.  A receive writes to the buffer of the client     *)
(* that waits for it, which calls for nothing meanwhile: what was stored   *)
(* stays.                                                                  *)
(***************************************************************************)
OwnRequest == {r \in Request : r.rt = "I2Creceive" => r.status = r.node}

OwnOK == /\ Contents(requests) \in Seq(OwnRequest)
         /\ \A c \in Context : cpu[c].todo \in Seq(OwnRequest)

\* The first n bytes of request r.
Sent(r, n) == [b \in 1 .. n |-> Byte(r, b - 1)]

\* The peripheral is told to go on, or did so and the slave answered.
Ordering == twi.op # NoOp
Answered == twi.int /\ twi.sr # "TW_BUS_ERROR"

AddressOK ==
  ida_state \in {"SeekingSlaveTx", "SeekingSlaveRx"} =>
    /\ Ordering => twi.op.val = Current.node /\ bus.wire = <<>>
    /\ Answered => bus.node = Current.node /\ bus.wire = <<>>

SendOK ==
  ida_state = "TxData" =>
    /\ Ordering => /\ bus.node = Current.node /\ bus.wire = Sent(Current, i - 1)
                   /\ twi.op.val = Byte(Current, i - 1)
    /\ Answered => bus.node = Current.node /\ bus.wire = Sent(Current, i)

ReceiveOK ==
  ida_state = "RxData" =>
    /\ \A b \in 0 .. i - 1 : buffer[Current.node][b] = b
    /\ Ordering => bus.node = Current.node /\ Len(bus.wire) = i
    /\ Answered => bus.node = Current.node
    /\ Answered /\ twi.sr = "TW_MR_DATA_ACK" => Len(bus.wire) = i + 1 /\ get_byte = i

TransferOK == AddressOK /\ SendOK /\ ReceiveOK

TransferInv == ServiceInv /\ OwnOK /\ TransferOK

\* One more byte.
LEMMA SentMore ==
  ASSUME NEW r, NEW n \in Nat \ {0}
  PROVE  Append(Sent(r, n - 1), Byte(r, n - 1)) = Sent(r, n)
<1> DEFINE f == [b \in 1 .. n |-> Byte(r, b - 1)]
           g == [b \in 1 .. n - 1 |-> Byte(r, b - 1)]
<1>1. PICK V : \A b \in 1 .. n : Byte(r, b - 1) \in V
  <2>1. \A b \in 1 .. n : Byte(r, b - 1) \in {Byte(r, c - 1) : c \in 1 .. n}
    OBVIOUS
  <2> QED BY <2>1
<1>2. f \in Seq(V) /\ Len(f) = n /\ g \in Seq(V) /\ Len(g) = n - 1
  BY <1>1
<1>3. Byte(r, n - 1) \in V
  BY <1>1
<1>4. /\ Append(g, Byte(r, n - 1)) \in Seq(V) /\ Len(Append(g, Byte(r, n - 1))) = n
      /\ \A b \in 1 .. n - 1 : Append(g, Byte(r, n - 1))[b] = g[b]
      /\ Append(g, Byte(r, n - 1))[n] = Byte(r, n - 1)
  BY <1>2, <1>3, AppendProperties
<1>5. \A b \in 1 .. n : b \in 1 .. n - 1 \/ b = n
  OBVIOUS
<1>6. \A b \in 1 .. n : Append(g, Byte(r, n - 1))[b] = f[b]
  BY <1>4, <1>5
<1> HIDE DEF f, g
<1>7. Append(g, Byte(r, n - 1)) = f
  BY <1>2, <1>4, <1>6, SeqEqual
<1> QED BY <1>7 DEF f, g, Sent

LEMMA CallsAreOwn ==
  ASSUME NEW k \in Clients, NEW reqs \in Calls(k)
  PROVE  reqs \in Seq(OwnRequest)
<1>1. reqs \in Seq(Request)
  BY CallsAreRequests
<1>2. ASSUME NEW n, NEW s \in {k, NULL}, NEW r \in {i2c_send(k, n, s), i2c_receive(k, n, k)}
      PROVE  Len(r) = 1 /\ (r[1].rt = "I2Creceive" => r[1].status = r[1].node)
  BY <1>2 DEF i2c_send, i2c_receive
<1>3. ASSUME NEW r \in {i2c_send_uint8(k, k), i2c_send_2uint8(k, k), i2c_receive_uint8(k, k)}
      PROVE  Len(r) = 1 /\ (r[1].rt = "I2Creceive" => r[1].status = r[1].node)
  BY <1>3 DEF i2c_send_uint8, i2c_send_2uint8, i2c_receive_uint8, i2c_receive
<1>4. ASSUME NEW n, NEW m, NEW r, r = i2c_sandr(k, n, m, k)
      PROVE  Len(r) = 2 /\ r[1].rt = "I2Csend" /\ r[2].status = r[2].node
  BY <1>4 DEF i2c_sandr, i2c_send, i2c_receive
<1>5. PICK f \in {"send", "forget", "receive", "bytes", "sandr"} : reqs \in CallsOf(k, f)
  BY CallAssumption DEF Calls
<1>6. \A j \in 1 .. Len(reqs) : reqs[j].rt = "I2Creceive" => reqs[j].status = reqs[j].node
  <2>1. CASE f = "send"
    BY <2>1, <1>2, <1>5 DEF CallsOf
  <2>2. CASE f = "forget"
    BY <2>2, <1>2, <1>5 DEF CallsOf
  <2>3. CASE f = "receive"
    BY <2>3, <1>2, <1>3, <1>5 DEF CallsOf
  <2>4. CASE f = "bytes"
    BY <2>4, <1>3, <1>5 DEF CallsOf
  <2>5. CASE f = "sandr"
    <3>1. PICK n, m : reqs = i2c_sandr(k, n, m, k)
      BY <2>5, <1>5 DEF CallsOf
    <3> QED BY <1>4, <3>1
  <2> QED BY <1>5, <2>1, <2>2, <2>3, <2>4, <2>5
<1>7. \A j \in 1 .. Len(reqs) : reqs[j] \in OwnRequest
  BY <1>1, <1>6 DEF OwnRequest
<1> QED BY <1>1, <1>7

\* The requests that the users build are all the driver ever has.
LEMMA OwnKept ==
  ASSUME ServiceInv, OwnOK, [Next]_vars
  PROVE  OwnOK'
<1>1. ASSUME UNCHANGED requests, \A c \in Context : cpu'[c].todo = cpu[c].todo
      PROVE  OwnOK'
  BY <1>1 DEF OwnOK
<1>2. ASSUME NEW c \in Context, NEW p, To(c, p), UNCHANGED requests
      PROVE  OwnOK'
  BY <1>1, <1>2, PcMoves DEF ServiceInv, I2cInv
<1>3. CASE i2c_open
  <2>1. requests \in QueueOf(Requests) /\ ZeroRequest \in Requests
    BY DEF ServiceInv, I2cInv, DriverOK, Requests
  <2>2. requests' \in QueueOf(Requests) /\ i2cq_is_empty(requests')
    BY <1>3, <2>1, QueueTypes DEF i2c_open, i2cq_empty, i2cq_is_empty, QueueOf
  <2>3. Contents(requests)' = <<>>
    BY <2>2, CountRange, ContentsType, EmptySeq
  <2> QED BY <1>3, <2>3 DEF OwnOK, i2c_open
<1>4. ASSUME NEW c \in Context, NEW k \in Clients, NEW reqs \in Calls(k), Call(c, k, reqs)
      PROVE  OwnOK'
  BY <1>4, CallsAreOwn DEF OwnOK, Call, ServiceInv, I2cInv, CpuOK
<1>5. ASSUME NEW c \in Context, Put(c)
      PROVE  OwnOK'
  <2> DEFINE todo == cpu[c].todo
  <2>1. todo \in Seq(OwnRequest) /\ todo # <<>> /\ Head(todo) \in Requests
    <3>1. todo \in Seq(Request) /\ todo # <<>>
      BY <1>5 DEF Put, At, ServiceInv, I2cInv, CpuOK
    <3> QED BY <3>1, HeadTailProperties DEF OwnOK, Requests
  <2>2. Head(todo) \in OwnRequest /\ Tail(todo) \in Seq(OwnRequest)
    BY <2>1, HeadTailProperties
  <2>3. requests' = i2cq_enqueue(requests, Head(todo))
    <3>1. CASE ida_state = "Idle"
      BY <1>5, <3>1 DEF Put, ida_next, FromIdle
    <3>2. CASE ida_state # "Idle"
      BY <1>5, <3>2 DEF Put
    <3> QED BY <3>1, <3>2
  <2>4. requests \in QueueOf(Requests) /\ ~i2cq_is_full(requests)
    BY <1>5 DEF Put, ServiceInv, I2cInv, DriverOK
  <2>5. Contents(requests)' = Append(Contents(requests), Head(todo))
    BY <2>1, <2>3, <2>4, EnqueueWithRoom
  <2>6. Contents(requests)' \in Seq(OwnRequest)
    BY <2>2, <2>5, AppendProperties DEF OwnOK
  <2>7. cpu' = [cpu EXCEPT ![c] = IF Tail(todo) = <<>> THEN Resting
                                  ELSE [pc |-> "called", todo |-> Tail(todo)]]
    BY <1>5 DEF Put
  <2>8. Resting.todo \in Seq(OwnRequest)
    BY DEF Resting
  <2>9. \A d \in Context : cpu'[d].todo \in Seq(OwnRequest)
    BY <2>2, <2>7, <2>8 DEF OwnOK, ServiceInv, I2cInv, CpuOK
  <2> QED BY <2>6, <2>9 DEF OwnOK
<1>6. CASE TwiIsr
  <2>1. UNCHANGED cpu
    BY <1>6 DEF TwiIsr
  <2>2. CASE UNCHANGED requests
    BY <1>1, <2>1, <2>2
  <2>3. ASSUME NEW s \in Status, fetch_or_idle(s, requests)
        PROVE  OwnOK'
    <3>1. Contents(requests) # <<>> /\ Contents(requests)' = Tail(Contents(requests))
      BY <1>6, <2>3, IsrMoves, FetchMoves DEF ServiceInv
    <3> QED BY <2>1, <3>1, HeadTailProperties DEF OwnOK
  <2> QED BY <1>6, <2>2, <2>3, IsrMoves DEF ServiceInv
<1>7. CASE Hardware \/ UNCHANGED vars
  BY <1>1, <1>7 DEF Hardware, vars
<1> QED BY <1>2, <1>3, <1>4, <1>5, <1>6, <1>7
     DEF Next, i2c_swamped, UserCall, CallStep, SetRunning, EnterAtomic, i2c_close, CloseBegin,
         Context

\* Steps that leave the bus and the request in progress alone.
LEMMA TransferUnchanged ==
  ASSUME TransferOK, UNCHANGED <<ida_state, i, twi, bus>>,
         ida_state # "Idle" => Current' = Current,
         ida_state = "RxData" => buffer'[Current.node] = buffer[Current.node]
  PROVE  TransferOK'
<1>1. AddressOK'
  BY DEF TransferOK, AddressOK, Ordering, Answered
<1>2. SendOK'
  BY DEF TransferOK, SendOK, Ordering, Answered
<1>3. ReceiveOK'
  BY DEF TransferOK, ReceiveOK, Ordering, Answered, get_byte
<1> QED BY <1>1, <1>2, <1>3 DEF TransferOK

\* A user that calls waits for nothing, and so not for what is being received.
LEMMA CallTransfer ==
  ASSUME TransferInv, NEW c \in Context, NEW k \in Clients, NEW reqs \in Calls(k),
         Call(c, k, reqs)
  PROVE  TransferOK'
<1>1. /\ status[k] # "Running" /\ UNCHANGED <<requests, ida_state, current_req, i, twi, bus>>
      /\ buffer' = buffer \/ \E x : buffer' = [buffer EXCEPT ![k] = x]
  BY DEF Call
<1>2. ASSUME ida_state = "RxData"
      PROVE  Current.node # k /\ Current.node \in Clients
  <2>1. Current = Head(Contents(requests)) /\ Contents(requests) # <<>> /\ Current \in Request
    <3>1. ~i2cq_is_empty(requests) /\ current_req = requests.front /\ Current \in Request
      BY <1>2, CurrentIsHead DEF TransferInv, ServiceInv, I2cInv
    <3>2. requests \in QueueOf(Requests)
      BY DEF TransferInv, ServiceInv, I2cInv, DriverOK
    <3> QED BY <3>1, <3>2, DequeueTails, CountRange, ContentsType DEF Current, i2cq_front
  <2>2. Current \in OwnRequest
    BY <2>1, HeadTailProperties DEF TransferInv, OwnOK
  <2>3. Current.rt = "I2Creceive"
    BY <1>2 DEF TransferInv, ServiceInv, I2cInv, DriverOK, EventExpected
  <2>4. Current.status = Current.node /\ Current.node \in Clients
    BY <2>2, <2>3 DEF OwnRequest, Request
  <2>5. status[Current.status] = "Running"
    <3>1. /\ 1 \in 1 .. Len(Contents(requests)) /\ Contents(requests)[1] = Current
      BY <2>1, LenProperties, EmptySeq, HeadTailProperties DEF TransferInv, OwnOK
    <3>2. Current.status # NULL
      BY <2>4, ClientAssumption
    <3> QED BY <3>1, <3>2 DEF TransferInv, ServiceInv, Ledger
  <2> QED BY <1>1, <2>4, <2>5
<1>3. ida_state = "RxData" => buffer'[Current.node] = buffer[Current.node]
  BY <1>1, <1>2 DEF TransferInv, ServiceInv, I2cInv, DriverOK
<1>4. Current' = Current
  BY <1>1 DEF Current
<1> QED BY <1>1, <1>3, <1>4, TransferUnchanged DEF TransferInv

\* A new request does not disturb the one in progress.
LEMMA PutTransfer ==
  ASSUME TransferInv, NEW c \in Context, Put(c)
  PROVE  TransferOK'
<1>1. CASE ida_state = "Idle"
  <2>1. ida_state' = "Starting"
    BY <1>1 DEF Put, ida_next, FromIdle
  <2> QED BY <2>1 DEF TransferOK, AddressOK, SendOK, ReceiveOK
<1>2. CASE ida_state # "Idle"
  <2>1. /\ UNCHANGED <<ida_state, current_req, i, buffer, twi, bus>> /\ ~i2cq_is_full(requests)
        /\ requests' = i2cq_enqueue(requests, Head(cpu[c].todo))
    BY <1>2 DEF Put, automaton
  <2>2. /\ requests \in QueueOf(Requests) /\ ~i2cq_is_empty(requests)
        /\ current_req = requests.front
    BY <1>2, CurrentIsHead DEF TransferInv, ServiceInv, I2cInv, DriverOK
  <2>3. Head(cpu[c].todo) \in Requests
    BY HeadTailProperties DEF Put, At, TransferInv, ServiceInv, I2cInv, CpuOK, Requests
  <2>4. Current' = Current
    BY <2>1, <2>2, <2>3, EnqueueWithRoom DEF Current
  <2> QED BY <2>1, <2>4, TransferUnchanged DEF TransferInv
<1> QED BY <1>1, <1>2

\* The word written to TWCR: an operation is ordered, and nothing answered.
LEMMA Thrown ==
  ASSUME twi \in TwiReg, NEW s, NEW n, NEW kind \in {"read", "write", "data"}, NEW v,
         Goto(s, throw_byte(twi, kind, v), n, requests)
  PROVE  /\ ida_state' = s /\ i' = n /\ Current' = Current
         /\ twi'.op.val = v /\ ~Answered'
BY DEF Goto, throw_byte, Go, Op, TwiReg, Answered, Current

LEMMA Requested ==
  ASSUME twi \in TwiReg, NEW s, NEW n, NEW last,
         Goto(s, throw_request_byte(twi, last), n, requests)
  PROVE  /\ ida_state' = s /\ i' = n /\ Current' = Current
         /\ ~Answered'
BY DEF Goto, throw_request_byte, Go, Op, TwiReg, Answered, Current

\* The interrupt orders the next byte of the message and stores the one that
\* came.
LEMMA IsrTransfer ==
  ASSUME TransferInv, TwiIsr
  PROVE  TransferOK'
<1> DEFINE r == Current
<1>0. /\ twi \in TwiReg /\ twi.int /\ twi.op = NoOp /\ twi.op.kind = "none" /\ UNCHANGED bus
      /\ ida_state # "Idle" /\ EventExpected /\ ida_next(twi.sr, requests)
      /\ AddressOK /\ SendOK /\ ReceiveOK
  BY DEF TwiIsr, TransferInv, TransferOK, ServiceInv, I2cInv, DriverOK, AutomatonAwake, NoOp, Op
<1>1. r \in Request /\ r.node \in Clients /\ r.length \in 1 .. MaxLen /\ r.length \in 1 .. 255
  <2>1. r \in Request
    BY <1>0, CurrentIsHead DEF TransferInv, ServiceInv, I2cInv
  <2> QED BY <2>1, LenAssumption DEF Request
<1>2. CASE \E s \in Status : fetch_or_idle(s, requests)
  <2>1. ida_state' \in {"Idle", "Starting"}
    BY <1>2 DEF fetch_or_idle
  <2> QED BY <2>1 DEF TransferOK, AddressOK, SendOK, ReceiveOK
<1>3. CASE ida_state = "Starting"
  <2>1. \/ \E s \in Status : fetch_or_idle(s, requests)
        \/ /\ twi.sr \in {"TW_START", "TW_REP_START"}
           /\ \E s \in {"SeekingSlaveTx", "SeekingSlaveRx"}, kind \in {"read", "write"} :
                Goto(s, throw_byte(twi, kind, r.node), 0, requests)
    BY <1>0, <1>3 DEF ida_next, FromStarting, Status, Current
  <2>2. ASSUME NEW s \in {"SeekingSlaveTx", "SeekingSlaveRx"}, NEW kind \in {"read", "write"},
               Goto(s, throw_byte(twi, kind, r.node), 0, requests),
               twi.sr \in {"TW_START", "TW_REP_START"}
        PROVE  TransferOK'
    <3>1. bus.wire = <<>>
      BY <1>0, <1>3, <2>2 DEF EventExpected
    <3>2. ida_state' = s /\ Current' = r /\ twi'.op.val = r.node /\ ~Answered'
      BY <1>0, <2>2, Thrown
    <3> QED BY <1>0, <2>2, <3>1, <3>2 DEF TransferOK, AddressOK, SendOK, ReceiveOK
  <2> QED BY <1>2, <2>1, <2>2
<1>4. CASE ida_state = "SeekingSlaveTx"
  <2>1. \/ \E s \in Status : fetch_or_idle(s, requests)
        \/ /\ twi.sr = "TW_MT_SLA_ACK"
           /\ Goto("TxData", throw_byte(twi, "data", Byte(r, i)), (i + 1) % 256, requests)
    BY <1>0, <1>4 DEF ida_next, FromSeekingSlaveTx, Status, Current
  <2>2. CASE /\ twi.sr = "TW_MT_SLA_ACK"
             /\ Goto("TxData", throw_byte(twi, "data", Byte(r, i)), (i + 1) % 256, requests)
    <3>1. i = 0 /\ (i + 1) % 256 = 1
      BY <1>0, <1>4 DEF EventExpected
    <3>2. bus.wire = <<>> /\ bus.node = r.node
      BY <1>0, <1>4, <2>2 DEF AddressOK, Answered
    <3>3. /\ ida_state' = "TxData" /\ i' = 1 /\ Current' = r /\ twi'.op.val = Byte(r, 0)
          /\ ~Answered'
      <4>1. /\ ida_state' = "TxData" /\ i' = (i + 1) % 256 /\ Current' = r
            /\ twi'.op.val = Byte(r, i) /\ ~Answered'
        BY <1>0, <2>2, Thrown, Zenon
      <4> QED BY <3>1, <4>1
    <3>4. Sent(r, 0) = <<>> /\ i' - 1 = 0
      BY <3>3 DEF Sent
    <3>5. SendOK'
      BY <1>0, <3>2, <3>3, <3>4 DEF SendOK
    <3> QED BY <3>3, <3>5 DEF TransferOK, AddressOK, ReceiveOK
  <2> QED BY <1>2, <2>1, <2>2
<1>5. CASE ida_state = "TxData"
  <2>1. \/ \E s \in Status : fetch_or_idle(s, requests)
        \/ /\ twi.sr = "TW_MT_DATA_ACK" /\ More(r, i)
           /\ Goto("TxData", throw_byte(twi, "data", Byte(r, i)), (i + 1) % 256, requests)
    BY <1>0, <1>5 DEF ida_next, FromTxData, Status, Current
  <2>2. CASE /\ twi.sr = "TW_MT_DATA_ACK" /\ More(r, i)
             /\ Goto("TxData", throw_byte(twi, "data", Byte(r, i)), (i + 1) % 256, requests)
    <3>1. i \in 1 .. r.length
      BY <1>0, <1>5 DEF EventExpected
    <3>2. i + 1 \in 1 .. r.length /\ (i + 1) % 256 = i + 1 /\ (i + 1) - 1 = i
      BY <1>1, <2>2, <3>1 DEF More, Request
    <3>3. bus.wire = Sent(r, i) /\ bus.node = r.node
      BY <1>0, <1>5, <2>2 DEF SendOK, Answered
    <3>4. /\ ida_state' = "TxData" /\ i' = i + 1 /\ Current' = r /\ twi'.op.val = Byte(r, i)
          /\ ~Answered'
      <4>1. /\ ida_state' = "TxData" /\ i' = (i + 1) % 256 /\ Current' = r
            /\ twi'.op.val = Byte(r, i) /\ ~Answered'
        BY <1>0, <2>2, Thrown, Zenon
      <4> QED BY <3>2, <4>1
    <3>5. SendOK'
      BY <1>0, <3>2, <3>3, <3>4 DEF SendOK
    <3> QED BY <3>4, <3>5 DEF TransferOK, AddressOK, ReceiveOK
  <2> QED BY <1>2, <2>1, <2>2
<1>6. CASE ida_state = "SeekingSlaveRx"
  <2>1. \/ \E s \in Status : fetch_or_idle(s, requests)
        \/ /\ twi.sr = "TW_MR_SLA_ACK"
           /\ Goto("RxData", throw_request_byte(twi, FALSE), i, requests)
    BY <1>0, <1>6 DEF ida_next, FromSeekingSlaveRx, Status, Current
  <2>2. CASE /\ twi.sr = "TW_MR_SLA_ACK"
             /\ Goto("RxData", throw_request_byte(twi, FALSE), i, requests)
    <3>1. i = 0
      BY <1>0, <1>6 DEF EventExpected
    <3>2. bus.wire = <<>> /\ bus.node = r.node
      BY <1>0, <1>6, <2>2 DEF AddressOK, Answered
    <3>3. ida_state' = "RxData" /\ i' = 0 /\ Current' = r /\ ~Answered'
      BY <1>0, <2>2, <3>1, Requested
    <3>4. Len(bus.wire) = 0 /\ ~\E b \in 0 .. i' - 1 : TRUE
      BY <3>2, <3>3
    <3>5. ReceiveOK'
      BY <1>0, <3>2, <3>3, <3>4 DEF ReceiveOK
    <3> QED BY <3>3, <3>5 DEF TransferOK, AddressOK, SendOK
  <2> QED BY <1>2, <2>1, <2>2
<1>7. CASE ida_state = "RxData"
  <2>1. \/ \E s \in Status : fetch_or_idle(s, requests)
        \/ /\ twi.sr = "TW_MR_DATA_ACK"
           /\ buffer' = [buffer EXCEPT ![r.node][i] = get_byte]
           /\ Goto("RxData", throw_request_byte(twi, r.length = (i + 1) % 256),
                   (i + 1) % 256, requests)
    BY <1>0, <1>7, Zenon DEF ida_next, FromRxData, Status, Current
  <2>2. CASE /\ twi.sr = "TW_MR_DATA_ACK"
             /\ buffer' = [buffer EXCEPT ![r.node][i] = get_byte]
             /\ Goto("RxData", throw_request_byte(twi, r.length = (i + 1) % 256),
                     (i + 1) % 256, requests)
    <3>1. i \in 0 .. r.length /\ i < r.length
      BY <1>0, <1>7, <2>2 DEF EventExpected, Awaits
    <3>2. (i + 1) % 256 = i + 1 /\ i \in 0 .. MaxLen - 1 /\ (i + 1) - 1 = i
      BY <1>1, <3>1, LenAssumption
    <3>3. /\ bus.node = r.node /\ Len(bus.wire) = i + 1 /\ get_byte = i
          /\ \A b \in 0 .. i - 1 : buffer[r.node][b] = b
      BY <1>0, <1>7, <2>2 DEF ReceiveOK, Answered
    <3>4. ida_state' = "RxData" /\ i' = i + 1 /\ Current' = r /\ ~Answered'
      BY <1>0, <2>2, <3>2, Requested
    <3>5. buffer \in [Clients -> [0 .. MaxLen - 1 -> Int]]
      BY DEF TransferInv, ServiceInv, I2cInv, DriverOK
    <3>6. buffer'[r.node] = [buffer[r.node] EXCEPT ![i] = i]
      BY <1>1, <2>2, <3>3, <3>5
    <3>7. ASSUME NEW b \in 0 .. i
          PROVE  buffer'[r.node][b] = b
      <4>1. DOMAIN buffer[r.node] = 0 .. MaxLen - 1
        BY <1>1, <3>5
      <4>2. b \in 0 .. MaxLen - 1 /\ (b = i \/ b \in 0 .. i - 1)
        BY <3>2, LenAssumption
      <4> QED BY <3>3, <3>6, <4>1, <4>2
    <3>8. ReceiveOK'
      BY <1>0, <3>2, <3>3, <3>4, <3>7 DEF ReceiveOK
    <3> QED BY <3>4, <3>8 DEF TransferOK, AddressOK, SendOK
  <2> QED BY <1>2, <2>1, <2>2
<1> QED BY <1>0, <1>3, <1>4, <1>5, <1>6, <1>7 DEF TransferInv, ServiceInv, I2cInv, DriverOK, State

\* The peripheral does what was ordered, byte after byte.
LEMMA HardwareTransfer ==
  ASSUME TransferInv, Hardware
  PROVE  TransferOK'
<1>0. /\ UNCHANGED <<requests, ida_state, current_req, i, buffer>> /\ Current' = Current
      /\ twi \in TwiReg /\ BusOK /\ EventExpected /\ StopComesFirst /\ AutomatonAwake
      /\ AddressOK /\ SendOK /\ ReceiveOK
  BY DEF Hardware, automaton, Current, TransferInv, TransferOK, ServiceInv, I2cInv, DriverOK
<1>1. ASSUME NEW e, Event(e)
      PROVE  twi'.int /\ twi'.sr = e /\ ~Ordering'
  BY <1>0, <1>1 DEF Event, TwiReg, Ordering
<1>2. CASE TwiStart
  <2>1. ida_state = "Starting"
    <3>1. twi.op.kind = "start" /\ twi.op # NoOp /\ ida_state # "Idle" /\ ~twi.int
      BY <1>0, <1>2 DEF TwiStart, NoOp, Op, AutomatonAwake
    <3> QED BY <1>0, <3>1 DEF EventExpected, Awaits, TransferInv, ServiceInv, I2cInv, DriverOK,
                              State
  <2> QED BY <1>0, <2>1 DEF TransferOK, AddressOK, SendOK, ReceiveOK
<1>3. CASE TwiAddress
  <2>1. /\ twi.op.kind \in {"read", "write"} /\ Ordering /\ \E e : Event(e)
        /\ bus' = [bus EXCEPT !.owner = bus'.owner, !.node = twi.op.val]
    <3>1. twi.op.kind \in {"read", "write"} /\ Ordering /\ \E e : Event(e)
      <4>1. twi.op.kind \in {"read", "write"} /\ \E e : Event(e)
        BY <1>3, Zenon DEF TwiAddress
      <4> QED BY <4>1 DEF NoOp, Op, Ordering
    <3>2. \E m : bus' = [bus EXCEPT !.owner = m, !.node = twi.op.val]
      BY <1>3, Zenon DEF TwiAddress
    <3> QED BY <1>0, <3>1, <3>2 DEF BusOK
  <2>2. ida_state \in {"SeekingSlaveTx", "SeekingSlaveRx"}
    <3>1. ida_state # "Idle" /\ ~twi.int
      BY <1>0, <2>1 DEF AutomatonAwake, Ordering
    <3> QED BY <1>0, <2>1, <3>1 DEF EventExpected, Awaits, TransferInv, ServiceInv, I2cInv,
                                    DriverOK, State
  <2>3. bus'.wire = bus.wire /\ bus'.node = twi.op.val
    BY <1>0, <2>1 DEF BusOK
  <2>4. AddressOK'
    BY <1>0, <1>1, <2>1, <2>2, <2>3 DEF AddressOK
  <2> QED BY <1>0, <2>2, <2>4 DEF TransferOK, SendOK, ReceiveOK
<1>4. CASE TwiSend
  <2>1. /\ twi.op.kind = "data" /\ Ordering /\ \E e : Event(e)
        /\ bus' = [bus EXCEPT !.wire = Append(bus.wire, twi.op.val)]
    BY <1>4 DEF TwiSend, NoOp, Op, Ordering
  <2>2. ida_state = "TxData"
    <3>1. ida_state # "Idle" /\ ~twi.int
      BY <1>0, <2>1 DEF AutomatonAwake, Ordering
    <3> QED BY <1>0, <2>1, <3>1 DEF EventExpected, Awaits, TransferInv, ServiceInv, I2cInv,
                                    DriverOK, State
  <2>3. i \in Nat \ {0} /\ Current \in Request
    <3>1. Current \in Request
      BY <2>2, CurrentIsHead DEF TransferInv, ServiceInv, I2cInv
    <3> QED BY <1>0, <2>2, <3>1, LenAssumption DEF EventExpected, Request
  <2>4. bus.node = Current.node /\ bus.wire = Sent(Current, i - 1)
        /\ twi.op.val = Byte(Current, i - 1)
    BY <1>0, <2>1, <2>2 DEF SendOK
  <2>5. bus'.wire = Append(Sent(Current, i - 1), Byte(Current, i - 1)) /\ bus'.node = bus.node
    BY <1>0, <2>1, <2>4 DEF BusOK
  <2>6. Append(Sent(Current, i - 1), Byte(Current, i - 1)) = Sent(Current, i)
    BY <2>3, SentMore
  <2>7. SendOK'
    BY <1>0, <1>1, <2>1, <2>4, <2>5, <2>6 DEF SendOK
  <2> QED BY <1>0, <2>2, <2>7 DEF TransferOK, AddressOK, ReceiveOK
<1>5. CASE TwiReceive
  <2>1. /\ twi.op.kind \in {"recvACK", "recvNACK"} /\ Ordering /\ \E e : Event(e)
        /\ bus' = [bus EXCEPT !.wire = Append(bus.wire, Len(bus.wire))]
    BY <1>5 DEF TwiReceive, NoOp, Op, Ordering
  <2>2. ida_state = "RxData"
    <3>1. ida_state # "Idle" /\ ~twi.int
      BY <1>0, <2>1 DEF AutomatonAwake, Ordering
    <3> QED BY <1>0, <2>1, <3>1 DEF EventExpected, Awaits, TransferInv, ServiceInv, I2cInv,
                                    DriverOK, State
  <2>3. bus.node = Current.node /\ Len(bus.wire) = i /\ bus.wire \in Seq(Int) /\ i \in Nat
    BY <1>0, <2>1, <2>2 DEF ReceiveOK, BusOK, TransferInv, ServiceInv, I2cInv, DriverOK
  <2>4. bus'.wire = Append(bus.wire, i) /\ bus'.node = bus.node
    BY <1>0, <2>1, <2>3 DEF BusOK
  <2>5. Len(bus'.wire) = i + 1 /\ bus'.wire[i + 1] = i
    BY <2>3, <2>4, AppendProperties
  <2>6. ReceiveOK'
    BY <1>0, <1>1, <2>1, <2>3, <2>4, <2>5 DEF ReceiveOK, get_byte
  <2> QED BY <1>0, <2>2, <2>6 DEF TransferOK, AddressOK, SendOK
<1>6. CASE TwiFault
  <2>1. Event("TW_BUS_ERROR")
    BY <1>6 DEF TwiFault
  <2>2. ~Ordering' /\ ~Answered'
    BY <1>1, <2>1 DEF Answered
  <2>3. AddressOK' /\ SendOK'
    BY <2>2 DEF AddressOK, SendOK
  <2>4. ReceiveOK'
    BY <1>0, <2>2 DEF ReceiveOK
  <2> QED BY <2>3, <2>4 DEF TransferOK
<1>7. CASE TwiStop
  <2>1. ida_state \in {"Idle", "Starting"}
    BY <1>0, <1>7 DEF TwiStop, StopComesFirst
  <2> QED BY <1>0, <2>1 DEF TransferOK, AddressOK, SendOK, ReceiveOK
<1> QED BY <1>2, <1>3, <1>4, <1>5, <1>6, <1>7 DEF Hardware

LEMMA NextTransfer ==
  ASSUME TransferInv, [Next]_vars
  PROVE  TransferInv'
<1> SUFFICES TransferOK'
  BY NextServes, OwnKept DEF TransferInv
<1>2. ASSUME ida_state = "Idle", ida_state' = "Idle"
      PROVE  TransferOK'
  BY <1>2 DEF TransferOK, AddressOK, SendOK, ReceiveOK
<1>3. ASSUME UNCHANGED <<requests, automaton, twi, bus>>
      PROVE  TransferOK'
  <2>1. Current' = Current /\ UNCHANGED <<ida_state, i, twi, bus, buffer>>
    BY <1>3 DEF Current, automaton
  <2> QED BY <2>1, TransferUnchanged DEF TransferInv
<1>4. CASE i2c_open \/ i2c_close
  <2>1. ida_state = "Idle"
    BY <1>4 DEF i2c_open, i2c_close, TransferInv, ServiceInv, I2cInv, DriverOK, AutomatonAwake
  <2>2. ida_state' = "Idle"
    BY <1>4, <2>1 DEF i2c_open, i2c_close, automaton
  <2> QED BY <1>2, <2>1, <2>2
<1>5. CASE UserCall
  BY <1>5, CallTransfer DEF UserCall
<1>6. CASE \E c \in Context : Put(c)
  BY <1>6, PutTransfer
<1>7. CASE \/ i2c_swamped \/ CloseBegin \/ EnterAtomic \/ UNCHANGED vars
           \/ \E c \in Context : SetRunning(c)
  <2>1. UNCHANGED <<requests, automaton, twi, bus>>
    BY <1>7 DEF i2c_swamped, CloseBegin, EnterAtomic, SetRunning, vars
  <2> QED BY <1>3, <2>1
<1>8. CASE TwiIsr
  BY <1>8, IsrTransfer
<1>9. CASE Hardware
  BY <1>9, HardwareTransfer
<1> QED BY <1>4, <1>5, <1>6, <1>7, <1>8, <1>9 DEF Next, CallStep

\* What the bus has carried is what the current request asked for: i2c.c with
\* its automaton and the buffers of the users.
THEOREM TransferInvariance == Spec => []TransferInv
<1>1. Init => TransferInv
  <2> SUFFICES ASSUME Init PROVE TransferInv
    OBVIOUS
  <2>1. requests \in QueueOf(Requests) /\ i2cq_is_empty(requests)
    BY InitHolds, QueueLengthAssumption
       DEF Init, ZeroedQueue, i2cq_is_empty, I2cInv, DriverOK
  <2>2. Contents(requests) = <<>>
    BY <2>1, CountRange, ContentsType, EmptySeq
  <2>3. OwnOK
    <3>1. \A c \in Context : cpu[c].todo = <<>>
      BY DEF Init, Resting
    <3>2. <<>> \in Seq(OwnRequest)
      OBVIOUS
    <3> QED BY <2>2, <3>1, <3>2 DEF OwnOK
  <2>4. TransferOK
    BY DEF Init, TransferOK, AddressOK, SendOK, ReceiveOK
  <2> QED BY <2>3, <2>4, InitServes DEF TransferInv
<1> QED BY <1>1, NextTransfer, PTL DEF Spec

(***************************************************************************)
(* A user is told Success only when every byte of its own message went     *)
(* over the bus, or came into its buffer, in order.                        *)
(***************************************************************************)
THEOREM SuccessIsReal == Spec => SuccessIsTransferred
<1> DEFINE Real == \A k \in Clients : status[k] = "Running" /\ status'[k] = "Success"
                     => Current.status = k /\ Transferred(Current)
<1>1. ASSUME TransferInv, [Next]_vars, NEW k \in Clients, status[k] = "Running",
             status'[k] = "Success"
      PROVE  Current.status = k /\ Transferred(Current)
  <2>1. TwiIsr /\ Current.status = k /\ Done
    <3>1. TwiIsr /\ Current.status = k /\ Told("Success")
      BY <1>1, OnlyIsrAnswers DEF TransferInv, ServiceInv
    <3>2. ~Reason("Success")
      BY DEF Reason
    <3> QED BY <3>1, <3>2 DEF Told
  <2>2. twi.int /\ EventExpected /\ SendOK /\ ReceiveOK
    BY <1>1, <2>1 DEF TwiIsr, TransferInv, TransferOK, ServiceInv, I2cInv, DriverOK
  <2>3. Current \in Request /\ Current.length \in Nat
    <3>1. Current \in Request
      BY <1>1, <2>1, CurrentIsHead DEF Done, TransferInv, ServiceInv, I2cInv
    <3> QED BY <3>1, LenAssumption DEF Request
  <2>4. CASE ida_state = "TxData" /\ twi.sr = "TW_MT_DATA_ACK" /\ ~More(Current, i)
    <3>1. i \in 1 .. Current.length /\ Current.rt # "I2Creceive"
      BY <2>2, <2>4 DEF EventExpected
    <3>2. i = Current.length
      BY <2>3, <2>4, <3>1 DEF More, Request
    <3>3. bus.node = Current.node /\ bus.wire = Sent(Current, i)
      BY <2>2, <2>4 DEF SendOK, Answered
    <3> QED BY <2>1, <3>1, <3>2, <3>3 DEF Transferred, Sent
  <2>5. CASE ida_state = "RxData" /\ twi.sr = "TW_MR_DATA_NACK" /\ i = Current.length
    <3>1. Current.rt = "I2Creceive"
      BY <2>2, <2>5 DEF EventExpected
    <3>2. bus.node = Current.node /\ \A b \in 0 .. i - 1 : buffer[Current.node][b] = b
      BY <2>2, <2>5 DEF ReceiveOK, Answered
    <3> QED BY <2>1, <2>5, <3>1, <3>2 DEF Transferred
  <2> QED BY <2>1, <2>4, <2>5 DEF Done
<1>2. TransferInv /\ [Next]_vars => [Real]_vars
  BY <1>1
<1> QED BY <1>2, TransferInvariance, PTL DEF Spec, SuccessIsTransferred

-----------------------------------------------------------------------------
(***************************************************************************)
(* The guard.  Users that all run in main, ask i2c_swamped() before every  *)
(* call and put one request in a call keep the place they saw free: only   *)
(* main takes places, and the interrupt gives them back.                   *)
(***************************************************************************)
RoomKept ==
  /\ cpu["isr"].pc = "idle"
  /\ cpu["main"].pc = "ready" \/ Calling("main") => ~i2cq_is_full(requests)
  /\ Calling("main") => Len(cpu["main"].todo) = 1

\* Without i2c_sandr, a call puts one request.
LEMMA OneRequest ==
  ASSUME NEW k \in Clients, "sandr" \notin UsedCalls[k], NEW reqs \in Calls(k)
  PROVE  Len(reqs) = 1
<1>1. PICK f \in {"send", "forget", "receive", "bytes"} : reqs \in CallsOf(k, f)
  BY CallAssumption DEF Calls
<1>2. \A n, s : Len(i2c_send(k, n, s)) = 1 /\ Len(i2c_receive(k, n, s)) = 1
  BY DEF i2c_send, i2c_receive
<1>3. /\ Len(i2c_send_uint8(k, k)) = 1 /\ Len(i2c_send_2uint8(k, k)) = 1
      /\ Len(i2c_receive_uint8(k, k)) = 1
  BY DEF i2c_send_uint8, i2c_send_2uint8, i2c_receive_uint8, i2c_receive
<1>4. CASE f = "send" \/ f = "forget"
  BY <1>1, <1>2, <1>4 DEF CallsOf
<1>5. CASE f = "receive"
  BY <1>1, <1>2, <1>3, <1>5 DEF CallsOf
<1>6. CASE f = "bytes"
  BY <1>1, <1>3, <1>6 DEF CallsOf
<1> QED BY <1>1, <1>4, <1>5, <1>6

\* The end of a request leaves room.
LEMMA DequeueLeavesRoom ==
  ASSUME NEW V, NEW q \in QueueOf(V), ~i2cq_is_full(q)
  PROVE  ~i2cq_is_full(i2cq_dequeue(q))
<1>1. PICK p : p = i2cq_dequeue(q)
  OBVIOUS
<1>2. CASE i2cq_is_empty(q)
  BY <1>2 DEF i2cq_dequeue
<1>3. CASE ~i2cq_is_empty(q)
  <2>1. p.front = inc(q.front) /\ p.rear = q.rear
    BY <1>1, <1>3 DEF i2cq_dequeue, QueueOf
  <2>2. ~i2cq_is_full(p)
    BY <1>3, <2>1, QueueInts DEF i2cq_is_empty, i2cq_is_full, inc
  <2> QED BY <1>1, <2>2
<1> QED BY <1>2, <1>3

LEMMA NextKeepsRoom ==
  ASSUME Guarded, IsrClients = {}, \A k \in Clients : "sandr" \notin UsedCalls[k],
         I2cInv, RoomKept, [Next]_vars
  PROVE  RoomKept'
<1>1. /\ cpu["isr"].pc = "idle" /\ "main" \in Context /\ "isr" \in Context
      /\ requests \in QueueOf(Requests) /\ CpuOK
  BY DEF RoomKept, I2cInv, DriverOK, Context
<1>2. ASSUME NEW p, To("main", p)
      PROVE  /\ cpu'["main"].pc = p /\ cpu'["main"].todo = cpu["main"].todo
             /\ cpu'["isr"] = cpu["isr"]
  BY <1>1, <1>2, PcMoves DEF Context
<1>3. CASE i2c_open
  <2>1. cpu["main"].pc = "idle" /\ cpu' = cpu
    BY <1>3 DEF i2c_open, At
  <2> QED BY <1>1, <2>1 DEF RoomKept, Calling
<1>4. CASE i2c_swamped
  <2>1. To("main", "ready") /\ requests' = requests /\ ~i2cq_is_full(requests)
    BY <1>4 DEF i2c_swamped, NotSwamped
  <2> QED BY <1>1, <1>2, <2>1 DEF RoomKept, Calling
<1>5. CASE UserCall
  <2>1. PICK c \in Context, k \in Clients : \E reqs \in Calls(k) : Call(c, k, reqs)
    BY <1>5 DEF UserCall
  <2>2. PICK reqs \in Calls(k) : Call(c, k, reqs)
    BY <2>1
  <2>3. /\ cpu["main"].pc = "ready" /\ requests' = requests
        /\ cpu' = [cpu EXCEPT !["main"] = [pc |-> "called", todo |-> reqs]]
    BY <2>2 DEF Call, At
  <2>4. Len(reqs) = 1
    BY OneRequest
  <2>5. cpu'["main"].todo = reqs /\ cpu'["isr"] = cpu["isr"]
    BY <1>1, <2>3 DEF CpuOK
  <2> QED BY <1>1, <2>3, <2>4, <2>5 DEF RoomKept, Calling
<1>6. CASE \E c \in Context : SetRunning(c)
  <2>1. SetRunning("main")
    BY <1>1, <1>6 DEF SetRunning, At, Context
  <2>2. To("main", "prepared") /\ requests' = requests /\ Calling("main")
    BY <2>1 DEF SetRunning, At, Calling
  <2> QED BY <1>1, <1>2, <2>2 DEF RoomKept, Calling
<1>7. CASE \E c \in Context : Put(c)
  <2>1. Put("main")
    BY <1>1, <1>7 DEF Put, At, Context
  <2>2. Len(cpu["main"].todo) = 1 /\ cpu["main"].todo \in Seq(Request)
    BY <1>1, <2>1 DEF Put, At, RoomKept, Calling, CpuOK
  <2>3. Tail(cpu["main"].todo) = <<>>
    <3>1. cpu["main"].todo # <<>>
      BY <2>2
    <3>2. Tail(cpu["main"].todo) \in Seq(Request) /\ Len(Tail(cpu["main"].todo)) = 0
      BY <2>2, <3>1, HeadTailProperties
    <3> QED BY <3>2, EmptySeq
  <2>4. cpu' = [cpu EXCEPT !["main"] = Resting]
    BY <2>1, <2>3 DEF Put
  <2>5. cpu'["main"].pc = "idle" /\ cpu'["isr"] = cpu["isr"]
    BY <1>1, <2>4 DEF CpuOK, Resting
  <2> QED BY <1>1, <2>5 DEF RoomKept, Calling
<1>8. CASE EnterAtomic
  <2>1. To("main", "atomic") /\ requests' = requests /\ Calling("main")
    BY <1>8 DEF EnterAtomic, At, Calling
  <2> QED BY <1>1, <1>2, <2>1 DEF RoomKept, Calling
<1>9. CASE CloseBegin \/ i2c_close
  <2>1. \E p \in {"closing", "idle"} : To("main", p)
    BY <1>9 DEF CloseBegin, i2c_close
  <2> QED BY <1>1, <1>2, <2>1 DEF RoomKept, Calling
<1>10. CASE TwiIsr
  <2>1. cpu' = cpu /\ \/ requests' = requests
                      \/ requests' = i2cq_dequeue(requests)
    BY <1>10, IsrMoves DEF TwiIsr, fetch_or_idle
  <2>2. ~i2cq_is_full(requests) => ~i2cq_is_full(requests')
    BY <1>1, <2>1, DequeueLeavesRoom
  <2> QED BY <2>1, <2>2 DEF RoomKept, Calling
<1>11. CASE Hardware \/ UNCHANGED vars
  <2>1. UNCHANGED <<requests, cpu>>
    BY <1>11 DEF Hardware, vars
  <2> QED BY <2>1 DEF RoomKept, Calling
<1> QED BY <1>3, <1>4, <1>5, <1>6, <1>7, <1>8, <1>9, <1>10, <1>11 DEF Next, CallStep

(***************************************************************************)
(* i2c.rst: with i2c_swamped() a user in main foresees that a call would   *)
(* block.  It takes that no other routine fills the queue in between, and  *)
(* that the call is not i2c_sandr, which needs two places.                 *)
(***************************************************************************)
THEOREM GuardWorks ==
  ASSUME Guarded, IsrClients = {}, \A k \in Clients : "sandr" \notin UsedCalls[k]
  PROVE  Spec => []GuardedCallNeverBlocks
<1>1. Init => RoomKept
  BY DEF Init, RoomKept, Resting, Context, Calling
<1>2. I2cInv /\ RoomKept /\ [Next]_vars => RoomKept'
  BY NextKeepsRoom
<1>3. RoomKept => GuardedCallNeverBlocks
  BY DEF RoomKept, GuardedCallNeverBlocks, Calling
<1> QED BY <1>1, <1>2, <1>3, Invariance, PTL DEF Spec
=============================================================================
