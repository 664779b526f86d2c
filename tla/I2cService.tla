----------------------------- MODULE I2cService -----------------------------
(***************************************************************************)
(* What i2c.h promises to the users of the driver: a bounded FIFO of       *)
(* requests.  A request is announced in its status variable, accepted at   *)
(* the back of the queue if there is room, and ends exactly once, at the   *)
(* front, when its status variable leaves Running.  The channel closes     *)
(* only when nothing is pending.                                           *)
(***************************************************************************)
EXTENDS Integers, Sequences

CONSTANTS Clients,     \* owners of a status variable, a buffer and a node
          Requests,    \* the request records; field status names a client
          NULL,        \* no status variable given
          Status,      \* i2c_status_t
          Capacity     \* how many requests may be pending

VARIABLES open,        \* the channel is open
          queue,       \* the accepted requests not finished yet
          status       \* the users' status variables

vars == <<open, queue, status>>

Pending(k) == \E j \in 1 .. Len(queue) : queue[j].status = k

Init == /\ open = FALSE
        /\ queue = <<>>
        /\ status \in [Clients -> Status \ {"Running"}]

Open == /\ ~open
        /\ open' = TRUE
        /\ UNCHANGED <<queue, status>>

Announce(k) == /\ open
               /\ status[k] # "Running"
               /\ status' = [status EXCEPT ![k] = "Running"]
               /\ UNCHANGED <<open, queue>>

Accept(r) == /\ open
             /\ Len(queue) < Capacity
             /\ r.status # NULL => status[r.status] = "Running" /\ ~Pending(r.status)
             /\ queue' = Append(queue, r)
             /\ UNCHANGED <<open, status>>

Finish(s) == /\ open
             /\ queue # <<>>
             /\ queue' = Tail(queue)
             /\ status' = IF Head(queue).status = NULL THEN status
                          ELSE [status EXCEPT ![Head(queue).status] = s]
             /\ UNCHANGED open

Close == /\ open
         /\ queue = <<>>
         /\ open' = FALSE
         /\ UNCHANGED <<queue, status>>

Next == \/ Open
        \/ \E k \in Clients : Announce(k)
        \/ \E r \in Requests : Accept(r)
        \/ \E s \in Status \ {"Running"} : Finish(s)
        \/ Close

Spec == Init /\ [][Next]_vars
=============================================================================
