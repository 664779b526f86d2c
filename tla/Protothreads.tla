---------------------------- MODULE Protothreads ----------------------------
(***************************************************************************)
(* The threads of a program that main schedules in turn: pt.h over         *)
(* lc-switch.h, with the delays of pt-delay.h and the semaphores of        *)
(* pt-sem.h.                                                               *)
(*                                                                         *)
(* A thread is a function that is called again and again.  It goes on from *)
(* where lc says, and returns when it has to wait; nothing but the         *)
(* interrupt of the ticker comes between two steps of a call.  What the    *)
(* functions do with the macros is not fixed: in the body of its function  *)
(* a thread takes any of the operations that May lets it, and yields after *)
(* Work of them, as a thread that shares the processor must.               *)
(***************************************************************************)
EXTENDS Ticker, Sequences, FiniteSets

CONSTANTS
  Thread,       \* the struct pt of the program
  Order,        \* the threads that main schedules, in this order
  Child,        \* the thread that each parent spawns
  Function,     \* the functions of the threads, each with its own statics
  Code,         \* the function of each thread
  May,          \* the operations of each thread
  Work,         \* operations that a thread begins in one call, at most
  Times,        \* the times given to the delays
  Sem, Unit,    \* semaphores, and the units that they count
  Speed         \* ticks in a turn of the scheduler, at most

Macro == {"start", "delay", "delay_f", "yield", "yield_until", "wait_until", "child"}

Label == Macro \cup Sem

ASSUME ThreadsAssumption == /\ Order \in Seq(Thread) /\ Order # <<>>
                            /\ DOMAIN Child \subseteq Thread
                            /\ Child \in [DOMAIN Child -> Thread]
                            /\ \A t \in DOMAIN Child : \A n \in DOMAIN Order :
                                 Child[t] \notin DOMAIN Child \cup {Order[n]}
                            /\ \A t, u \in DOMAIN Child : Child[t] = Child[u] => t = u
                            /\ Code \in [Thread -> Function]
ASSUME TimesAssumption == Times \subseteq Tick /\ Times # {}
ASSUME UnitsAssumption == /\ IsFiniteSet(Unit)
                          /\ Sem \cap (Thread \cup Macro \cup {"body"}) = {}
ASSUME BoundsAssumption == Work \in Nat /\ Speed \in Nat

VARIABLES
  lc,        \* where each thread goes on: its local continuation
  calls,     \* the functions under way: a thread, and the child it calls
  at,        \* where the last of them is: at a label or in its body
  next,      \* whose turn it is in the loop of main
  static,    \* the statics of the delay of each function
  offset,    \* the time of PT_DELAY, which any thread may set
  count,     \* the counters of the semaphores
  begun,     \* operations begun in this call
  lag,       \* ticks in this turn of the scheduler
  delay,     \* observer: the ticks since a thread's delay began, if it is in
             \* one, and the time given to it
  place      \* observer: where each unit is, in a semaphore or with a thread

threadVars == <<lc, calls, at, begun>>
dataVars == <<static, offset, delay>>
semVars == <<count, place>>
vars == <<tickerVars, threadVars, dataVars, semVars, next, lag>>

NoDelay == [gone |-> -1, time |-> 0]

Delaying(t) == delay[t] # NoDelay

-----------------------------------------------------------------------------
(***************************************************************************)
(* Calls and returns.                                                      *)
(***************************************************************************)
PT_WAITING == 0
PT_YIELDED == 1
PT_EXITED == 2
PT_ENDED == 3

PT_SCHEDULE(v) == v < PT_EXITED

Me == calls[Len(calls)]

At(p) == calls # <<>> /\ at = p

\* A call of a thread's function: PT_BEGIN resumes it at its label, and the
\* label of PT_INIT is the beginning of the body.
PT_BEGIN(t) == /\ calls' = Append(calls, t)
               /\ at' = IF lc[t] = "start" THEN "body" ELSE lc[t]

\* A function returns.  A parent that learns that its child has not finished
\* returns PT_WAITING, up to main; otherwise it goes on with its body.
Return(v) == /\ calls' = IF PT_SCHEDULE(v) THEN <<>> ELSE SubSeq(calls, 1, Len(calls) - 1)
             /\ begun' = IF calls' = <<>> THEN 0 ELSE begun
             /\ at' = "body"

LC_SET(p) == lc' = [lc EXCEPT ![Me] = p] /\ at' = p

PT_INIT(t) == lc' = [lc EXCEPT ![t] = "start"]

\* The code after the label of a waiting macro.
Resume(p, passes) ==
  /\ At(p)
  /\ IF passes THEN at' = "body" /\ UNCHANGED <<calls, begun>> ELSE Return(PT_WAITING)
  /\ UNCHANGED <<tickerVars, lc, next, lag>>

\* An operation of the body begins.
Begin(op) == /\ At("body") /\ op \in May[Me] /\ begun < Work
             /\ begun' = begun + 1
             /\ UNCHANGED <<tickerVars, next, lag>>

-----------------------------------------------------------------------------
(***************************************************************************)
(* Delays.  PT_DELAY reads its time, here offset, at every check, while    *)
(* PT_DELAY_F keeps the time it was given.                                 *)
(***************************************************************************)
\* Faulty variant: the moments are compared, not the durations.
BeforeMoment(from, time) == ticker_get <= (from + time) % TICKS

\* Faulty variant: the tick that is under way counts as a whole one.
BeforeTime(from, time) == Minus(ticker_get, from) < time

NotOver(from, time) == Minus(ticker_get, from) <= time

PT_DELAY ==
  /\ Begin("PT_DELAY") /\ OCIE2A
  /\ static' = [static EXCEPT ![Code[Me]].from = ticker_get]
  /\ LC_SET("delay")
  /\ delay' = [delay EXCEPT ![Me] = [gone |-> 0, time |-> offset]]
  /\ UNCHANGED <<calls, offset, semVars>>

PT_DELAY_F(time) ==
  /\ Begin("PT_DELAY_F") /\ OCIE2A
  /\ static' = [static EXCEPT ![Code[Me]] = [from |-> ticker_get, p |-> time]]
  /\ LC_SET("delay_f")
  /\ delay' = [delay EXCEPT ![Me] = [gone |-> 0, time |-> time]]
  /\ UNCHANGED <<calls, offset, semVars>>

\* What the statics of a function hold when none of its threads is in a delay
\* is never read: the model forgets it.
Unread == [from |-> 0, p |-> 0]

Shared == \E t \in Thread \ {Me} : Delaying(t) /\ Code[t] = Code[Me]

ResumeDelay(p, time) ==
  LET passes == ~NotOver(static[Code[Me]].from, time) IN
  /\ Resume(p, passes)
  /\ delay' = IF passes THEN [delay EXCEPT ![Me] = NoDelay] ELSE delay
  /\ static' = IF passes /\ ~Shared THEN [static EXCEPT ![Code[Me]] = Unread] ELSE static
  /\ UNCHANGED <<offset, semVars>>

CheckDelay == At("delay") /\ ResumeDelay("delay", offset)

CheckDelayF == At("delay_f") /\ ResumeDelay("delay_f", static[Code[Me]].p)

\* A thread changes the time of the delays that read it.
SetOffset(time) == /\ Begin("set") /\ offset' = time
                   /\ UNCHANGED <<lc, calls, at, static, delay, semVars>>

-----------------------------------------------------------------------------
(***************************************************************************)
(* Semaphores.  A thread signals only for a unit it has, and keeps none    *)
(* when it ends.                                                           *)
(***************************************************************************)
In(x) == {u \in Unit : place[u] = x}

\* A unit of those in x, if there is one, goes to y.
Move(x, y) == place' = IF In(x) = {} THEN place
                       ELSE [place EXCEPT ![CHOOSE u \in In(x) : TRUE] = y]

PT_SEM_INIT == /\ place \in [Unit -> Sem]
               /\ count = [s \in Sem |-> Cardinality(In(s))]

PT_SEM_WAIT(s) == /\ Begin("PT_SEM_WAIT") /\ LC_SET(s)
                  /\ UNCHANGED <<calls, dataVars, semVars>>

\* Faulty variant: the thread does not wait.
CheckSemNoWait(s) == /\ Resume(s, TRUE)
                     /\ count' = [count EXCEPT ![s] = @ - 1] /\ Move(s, Me)
                     /\ UNCHANGED dataVars

\* Faulty variant: the thread goes on without counting.
CheckSemNoCount(s) ==
  /\ Resume(s, count[s] > 0)
  /\ IF count[s] > 0 THEN Move(s, Me) ELSE UNCHANGED place
  /\ UNCHANGED <<dataVars, count>>

CheckSem(s) ==
  /\ Resume(s, count[s] > 0)
  /\ IF count[s] > 0 THEN count' = [count EXCEPT ![s] = @ - 1] /\ Move(s, Me)
                     ELSE UNCHANGED semVars
  /\ UNCHANGED dataVars

PT_SEM_SIGNAL(s) == /\ Begin("PT_SEM_SIGNAL") /\ In(Me) # {}
                    /\ count' = [count EXCEPT ![s] = @ + 1]
                    /\ Move(Me, s)
                    /\ UNCHANGED <<lc, calls, at, dataVars>>

-----------------------------------------------------------------------------
(***************************************************************************)
(* The other macros of pt.h.  Whether a condition holds is the program's.  *)
(***************************************************************************)
PT_WAIT_UNTIL == /\ Begin("PT_WAIT_UNTIL") /\ LC_SET("wait_until")
                 /\ UNCHANGED <<calls, dataVars, semVars>>

CheckWait(condition) == /\ Resume("wait_until", condition)
                        /\ UNCHANGED <<dataVars, semVars>>

\* The flag of the call makes it return the first time.
Yield(p) == /\ At("body")
            /\ lc' = [lc EXCEPT ![Me] = p]
            /\ Return(PT_YIELDED)
            /\ UNCHANGED <<tickerVars, dataVars, semVars, next, lag>>

PT_YIELD == Yield("yield")

PT_YIELD_UNTIL == At("body") /\ "PT_YIELD_UNTIL" \in May[Me] /\ Yield("yield_until")

CheckYield(condition) == /\ \/ Resume("yield", TRUE)
                            \/ Resume("yield_until", condition)
                         /\ UNCHANGED <<dataVars, semVars>>

PT_SPAWN == /\ Begin("PT_SPAWN") /\ Me \in DOMAIN Child
            /\ lc' = [lc EXCEPT ![Child[Me]] = "start", ![Me] = "child"]
            /\ at' = "child"
            /\ UNCHANGED <<calls, dataVars, semVars>>

\* PT_WAIT_THREAD calls the child, whose return decides.
CheckChild == /\ At("child") /\ PT_BEGIN(Child[Me])
              /\ UNCHANGED <<tickerVars, lc, begun, dataVars, semVars, next, lag>>

Leave(op, v) == /\ At("body") /\ op \in May[Me] /\ In(Me) = {}
                /\ PT_INIT(Me) /\ Return(v)
                /\ UNCHANGED <<tickerVars, dataVars, semVars, next, lag>>

PT_RESTART == Leave("PT_RESTART", PT_WAITING)

PT_EXIT == Leave("PT_EXIT", PT_EXITED)

PT_END == Leave("PT_END", PT_ENDED)

-----------------------------------------------------------------------------
(***************************************************************************)
(* Main and the interrupt.                                                 *)
(***************************************************************************)
\* for(;;) { PT_SCHEDULE(first); ... PT_SCHEDULE(last); }
Schedule == /\ calls = <<>>
            /\ PT_BEGIN(Order[next])
            /\ next' = IF next = Len(Order) THEN 1 ELSE next + 1
            /\ lag' = IF next = 1 THEN 0 ELSE lag
            /\ UNCHANGED <<tickerVars, lc, begun, dataVars, semVars>>

\* Main starts the ticker, and stops it when no delay needs it.
StartStop == /\ calls = <<>>
             /\ \/ ~OCIE2A /\ ticker_start
                \/ OCIE2A /\ (\A t \in Thread : ~Delaying(t)) /\ ticker_stop
             /\ UNCHANGED <<threadVars, dataVars, semVars, next, lag>>

\* The ticks of a delay are counted up to two turns of the counter.
GoneMax == 2 * TICKS

\* A tick, which comes between any two steps.  Main is fast enough for Speed.
Interrupt ==
  /\ lag < Speed /\ lag' = lag + 1
  /\ TIMER2_COMPA_vect
  /\ delay' = [t \in Thread |->
                 IF Delaying(t) /\ delay[t].gone < GoneMax
                 THEN [delay[t] EXCEPT !.gone = @ + 1] ELSE delay[t]]
  /\ UNCHANGED <<threadVars, static, offset, semVars, next>>

-----------------------------------------------------------------------------
Init == /\ ticker_setup
        /\ lc = [t \in Thread |-> "start"]
        /\ calls = <<>> /\ at = "body" /\ next = 1
        /\ static = [f \in Function |-> Unread]
        /\ offset \in Times
        /\ PT_SEM_INIT
        /\ begun = 0 /\ lag = 0
        /\ delay = [t \in Thread |-> NoDelay]

Operation == \/ PT_DELAY \/ \E v \in Times : PT_DELAY_F(v) \/ SetOffset(v)
             \/ \E s \in Sem : PT_SEM_WAIT(s) \/ PT_SEM_SIGNAL(s)
             \/ PT_WAIT_UNTIL \/ PT_YIELD \/ PT_YIELD_UNTIL
             \/ PT_SPAWN \/ PT_RESTART \/ PT_EXIT \/ PT_END

Check == \/ CheckDelay \/ CheckDelayF
         \/ \E s \in Sem : CheckSem(s)
         \/ \E condition \in BOOLEAN : CheckWait(condition) \/ CheckYield(condition)
         \/ CheckChild

Next == Schedule \/ Operation \/ Check \/ StartStop \/ Interrupt

Spec == Init /\ [][Next]_vars

(***************************************************************************)
(* The processor does not stop: main goes on with its loop, and a thread   *)
(* with its call, until it returns.  The ticker ticks.                     *)
(***************************************************************************)
Fairness == WF_vars(Schedule \/ Operation \/ Check) /\ WF_vars(Interrupt)

FairSpec == Spec /\ Fairness
=============================================================================
