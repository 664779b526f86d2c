------------------------- MODULE ProtothreadsProps -------------------------
(***************************************************************************)
(* What the threads, their delays and their semaphores must do.            *)
(***************************************************************************)
EXTENDS Protothreads

\* The type of every variable: the ticker, the threads and what they share.
TypeOK ==
  /\ ticks \in Tick /\ OCIE2A \in BOOLEAN
  /\ lc \in [Thread -> Label]
  /\ calls \in Seq(Thread) /\ at \in Label \cup {"body"}
  /\ next \in DOMAIN Order
  /\ static \in [Function -> [from : Tick, p : Tick]]
  /\ offset \in Times
  /\ count \in [Sem -> Nat] /\ place \in [Unit -> Sem \cup Thread]
  /\ begun \in 0 .. Work /\ lag \in 0 .. Speed
  /\ delay \in [Thread -> [gone : -1 .. GoneMax, time : Tick]]

-----------------------------------------------------------------------------
(***************************************************************************)
(* pt-delay.h: "The thread waits at least time centiseconds", wherever the *)
(* counter goes back to zero and whoever else is in a delay: more ticks    *)
(* than the time given have come when a thread goes on.                    *)
(***************************************************************************)
NeverShort ==
  [][\A t \in Thread : Delaying(t) /\ ~Delaying(t)'
       => delay[t].gone > IF lc[t] = "delay" THEN offset ELSE delay[t].time]_vars

\* The longest time that the delay of t may be given while it lasts.
Longest(t) == IF lc[t] = "delay" THEN CHOOSE v \in Times : \A w \in Times : w <= v
                                 ELSE delay[t].time

(***************************************************************************)
(* A delay ends when its time is over, as soon as the thread is scheduled: *)
(* no turn of the counter passes unseen, provided that the longest time    *)
(* leaves room for the ticks of two turns of the scheduler.                *)
(***************************************************************************)
EndsInTime == \A t \in Thread : Delaying(t) => delay[t].gone <= Longest(t) + 2 * Speed

\* A semaphore counts the units that are free: a thread that passes has taken
\* one that no other has.
UnitsCounted == \A s \in Sem : count[s] = Cardinality(In(s))

\* No thread is left behind: every delay ends, and a thread does not wait for
\* ever for a semaphore that has a unit from some moment on.
NobodyLeftBehind ==
  /\ \A t \in Thread : Delaying(t) ~> ~Delaying(t)
  /\ \A t \in Thread, s \in Sem : []<>~(lc[t] = s /\ count[s] > 0)
=============================================================================
