-------------------------- MODULE ProtothreadsProofs --------------------------
(***************************************************************************)
(* What threads, delays and semaphores do, proved for any number of        *)
(* threads, any width of the counter, any times and any units.             *)
(***************************************************************************)
EXTENDS ProtothreadsProps, FiniteSetTheorems, SequenceTheorems, TLAPS

\* Main calls a thread of its loop, and that one calls at most its child, from
\* the label where it waits for it.
CallsOK ==
  \/ calls = <<>>
  \/ \E n \in DOMAIN Order : calls = <<Order[n]>>
  \/ \E n \in DOMAIN Order : /\ Order[n] \in DOMAIN Child /\ lc[Order[n]] = "child"
                             /\ calls = <<Order[n], Child[Order[n]]>>

\* A function is at the label it goes on from, or in its body; only a parent
\* waits for a child.
LabelsOK == /\ calls # <<>> /\ at # "body" => lc[Me] = at
            /\ \A t \in Thread : lc[t] = "child" => t \in DOMAIN Child

ThreadTypes == /\ lc \in [Thread -> Label] /\ at \in Label \cup {"body"}
               /\ begun \in 0 .. Work /\ next \in DOMAIN Order

ThreadInv == ThreadTypes /\ CallsOK /\ LabelsOK

-----------------------------------------------------------------------------
\* Who is being called: a thread of main's loop, which is nobody's child, or
\* the child of one, which has none.
LEMMA WhoIsCalled ==
  ASSUME CallsOK, calls # <<>>
  PROVE  /\ Me \in Thread
         /\ \/ /\ calls = <<Me>> /\ \E n \in DOMAIN Order : Me = Order[n]
               /\ \A q \in DOMAIN Child : Child[q] # Me
            \/ \E n \in DOMAIN Order :
                 /\ Order[n] \in DOMAIN Child /\ lc[Order[n]] = "child"
                 /\ calls = <<Order[n], Me>> /\ Me = Child[Order[n]]
                 /\ Me \notin DOMAIN Child
<1>1. \A n \in DOMAIN Order : Order[n] \in Thread
  BY ThreadsAssumption
<1>2. \A q \in DOMAIN Child : Child[q] \in Thread /\ Child[q] \notin DOMAIN Child
  <2>1. 1 \in DOMAIN Order
    BY ThreadsAssumption
  <2> QED BY ThreadsAssumption, <2>1
<1>3. CASE \E n \in DOMAIN Order : calls = <<Order[n]>>
  <2>1. PICK n \in DOMAIN Order : calls = <<Order[n]>>
    BY <1>3
  <2>2. Me = Order[n]
    BY <2>1 DEF Me
  <2>3. \A q \in DOMAIN Child : Child[q] # Order[n]
    BY ThreadsAssumption
  <2> QED BY <1>1, <2>1, <2>2, <2>3
<1>4. CASE \E n \in DOMAIN Order : /\ Order[n] \in DOMAIN Child /\ lc[Order[n]] = "child"
                                   /\ calls = <<Order[n], Child[Order[n]]>>
  <2>1. PICK n \in DOMAIN Order : /\ Order[n] \in DOMAIN Child /\ lc[Order[n]] = "child"
                                  /\ calls = <<Order[n], Child[Order[n]]>>
    BY <1>4
  <2>2. Me = Child[Order[n]]
    BY <2>1 DEF Me
  <2> QED BY <1>2, <2>1, <2>2
<1> QED BY <1>3, <1>4 DEF CallsOK

\* A second element after the first.
LEMMA TwoOf == ASSUME NEW S, NEW x \in S, NEW y \in S PROVE Append(<<x>>, y) = <<x, y>>
<1>1. <<x>> \in Seq(S) /\ Len(<<x>>) = 1 /\ <<x>>[1] = x
  OBVIOUS
<1>2. /\ Append(<<x>>, y) \in Seq(S) /\ Len(Append(<<x>>, y)) = 2
      /\ Append(<<x>>, y)[1] = x /\ Append(<<x>>, y)[2] = y
  BY <1>1
<1>3. /\ <<x, y>> \in Seq(S) /\ Len(<<x, y>>) = 2
      /\ <<x, y>>[1] = x /\ <<x, y>>[2] = y
  OBVIOUS
<1>4. \A k \in 1 .. 2 : Append(<<x>>, y)[k] = <<x, y>>[k]
  BY <1>2, <1>3
<1> QED BY <1>2, <1>3, <1>4, SeqEqual

\* A sequence cut after its first element.
LEMMA FirstOnly == ASSUME NEW s PROVE SubSeq(s, 1, 1) = <<s[1]>>
<1>1. SubSeq(s, 1, 1) \in Seq({s[1]})
  OBVIOUS
<1>2. Len(SubSeq(s, 1, 1)) = 1 /\ SubSeq(s, 1, 1)[1] = s[1]
  <2>1. Len(SubSeq(s, 1, 1)) = 1
    OBVIOUS
  <2>2. SubSeq(s, 1, 1)[1] = s[1]
    OBVIOUS
  <2> QED BY <2>1, <2>2
<1>3. ASSUME NEW S, NEW t \in Seq(S), Len(t) = 1
      PROVE  t = <<t[1]>>
  <2>1. t[1] \in S /\ <<t[1]>> \in Seq(S) /\ Len(<<t[1]>>) = 1
    BY <1>3
  <2>2. \A i \in 1 .. Len(t) : t[i] = <<t[1]>>[i]
    BY <1>3
  <2> QED BY <1>3, <2>1, <2>2, SeqEqual
<1> QED BY <1>1, <1>2, <1>3

\* What a return does to the calls: back to main, or to the parent of a child
\* that has finished.
LEMMA WhereReturns ==
  ASSUME CallsOK, calls # <<>>, NEW v \in 0 .. 3, Return(v)
  PROVE  /\ at' = "body"
         /\ begun' = 0 \/ begun' = begun
         /\ \/ calls' = <<>>
            \/ \E n \in DOMAIN Order :
                 /\ calls = <<Order[n], Me>> /\ Me = Child[Order[n]]
                 /\ Order[n] \in DOMAIN Child /\ lc[Order[n]] = "child"
                 /\ calls' = <<Order[n]>>
<1>1. at' = "body" /\ (begun' = 0 \/ begun' = begun)
  BY DEF Return
<1>2. CASE calls = <<Me>>
  <2>1. Len(calls) = 1
    BY <1>2
  <2>2. SubSeq(calls, 1, 0) = <<>>
    BY SubSeqEmpty
  <2> QED BY <1>1, <2>1, <2>2 DEF Return
<1>3. ASSUME NEW n \in DOMAIN Order, Order[n] \in DOMAIN Child, lc[Order[n]] = "child",
             calls = <<Order[n], Me>>, Me = Child[Order[n]]
      PROVE  calls' = <<>> \/ calls' = <<Order[n]>>
  <2>1. Len(calls) - 1 = 1
    BY <1>3
  <2>2. SubSeq(calls, 1, 1) = <<Order[n]>>
    BY <1>3, FirstOnly
  <2> QED BY <2>1, <2>2 DEF Return
<1> QED BY <1>1, <1>2, <1>3, WhoIsCalled

\* A label other than that of a call is set from the body.
LEMMA SetKeepsThreads ==
  ASSUME ThreadInv, At("body"), NEW p \in Label \ {"child"}, LC_SET(p),
         calls' = calls, begun' \in 0 .. Work, next' = next
  PROVE  ThreadInv'
<1>1. Me \in Thread /\ Me' = Me
  BY WhoIsCalled DEF ThreadInv, At, Me
<1>2. ThreadTypes'
  BY <1>1 DEF ThreadInv, ThreadTypes, LC_SET
<1>3. CallsOK'
  BY <1>1, WhoIsCalled DEF ThreadInv, ThreadTypes, CallsOK, LC_SET, At
<1>4. LabelsOK'
  BY <1>1 DEF ThreadInv, ThreadTypes, LabelsOK, LC_SET
<1> QED BY <1>2, <1>3, <1>4 DEF ThreadInv

\* A call begins, at the label of its function.
LEMMA BeginKeepsThreads ==
  ASSUME ThreadInv, NEW t \in Thread, PT_BEGIN(t), lc' = lc, begun' = begun,
         next' \in DOMAIN Order,
         \/ calls = <<>> /\ \E n \in DOMAIN Order : t = Order[n]
         \/ At("child") /\ t = Child[Me]
  PROVE  ThreadInv' /\ Me' = t /\ calls' # <<>>
<1>1. CASE calls = <<>> /\ \E n \in DOMAIN Order : t = Order[n]
  <2>1. calls' = <<t>>
    BY <1>1 DEF PT_BEGIN
  <2>2. Me' = t /\ CallsOK'
    BY <1>1, <2>1 DEF CallsOK, Me
  <2> QED BY <2>1, <2>2 DEF ThreadInv, ThreadTypes, LabelsOK, PT_BEGIN
<1>2. CASE At("child") /\ t = Child[Me]
  <2>1. lc[Me] = "child" /\ Me \in DOMAIN Child /\ Me \in Thread
    BY <1>2, WhoIsCalled DEF ThreadInv, LabelsOK, At
  <2>2. calls = <<Me>> /\ \E n \in DOMAIN Order : Me = Order[n]
    BY <1>2, <2>1, WhoIsCalled DEF ThreadInv, At
  <2>3. calls' = <<Me, t>>
    <3>1. calls' = Append(calls, t)
      BY DEF PT_BEGIN
    <3> QED BY <2>1, <2>2, <3>1, TwoOf
  <2>4. Me' = t
    BY <2>3 DEF Me
  <2>5. CallsOK'
    BY <1>2, <2>1, <2>2, <2>3 DEF CallsOK
  <2> QED BY <2>3, <2>4, <2>5 DEF ThreadInv, ThreadTypes, LabelsOK, PT_BEGIN
<1> QED BY <1>1, <1>2

\* A function returns, its label as it was or set to one that is not a call's.
LEMMA ReturnKeepsThreads ==
  ASSUME ThreadInv, calls # <<>>, NEW v \in 0 .. 3, Return(v), next' = next,
         \/ lc' = lc
         \/ \E p \in Label \ {"child"} : lc' = [lc EXCEPT ![Me] = p]
  PROVE  ThreadInv'
<1>1. Me \in Thread /\ ThreadTypes /\ LabelsOK
  BY WhoIsCalled DEF ThreadInv
<1>2. at' = "body" /\ begun' \in 0 .. Work
  BY WhereReturns, BoundsAssumption DEF ThreadInv, ThreadTypes
<1>3. ThreadTypes'
  BY <1>1, <1>2 DEF ThreadTypes
<1>4. CallsOK'
  BY WhereReturns DEF ThreadInv, CallsOK
<1>5. LabelsOK'
  BY <1>1, <1>2 DEF ThreadTypes, LabelsOK
<1> QED BY <1>3, <1>4, <1>5 DEF ThreadInv

\* The code after a label: on with the body, or back to main.
LEMMA ResumeKeepsThreads ==
  ASSUME ThreadInv, NEW p \in Label \ {"child"}, NEW passes \in BOOLEAN, Resume(p, passes)
  PROVE  ThreadInv'
<1>1. CASE passes
  <2>1. at' = "body" /\ UNCHANGED <<lc, calls, begun, next>> /\ Me' = Me
    BY <1>1 DEF Resume, Me
  <2> QED BY <2>1 DEF ThreadInv, ThreadTypes, CallsOK, LabelsOK
<1>2. CASE ~passes
  <2>1. Return(PT_WAITING) /\ lc' = lc /\ next' = next /\ calls # <<>>
    BY <1>2 DEF Resume, At
  <2> QED BY <2>1, ReturnKeepsThreads DEF PT_WAITING
<1> QED BY <1>1, <1>2

LEMMA SpawnKeepsThreads == ASSUME ThreadInv, PT_SPAWN PROVE ThreadInv'
<1>1. Me \in Thread /\ Me \in DOMAIN Child /\ Child[Me] \in Thread /\ Child[Me] # Me
  <2>1. Me \in Thread /\ Me \in DOMAIN Child
    BY WhoIsCalled DEF ThreadInv, PT_SPAWN, Begin, At
  <2>2. 1 \in DOMAIN Order
    BY ThreadsAssumption
  <2> QED BY <2>1, <2>2, ThreadsAssumption
<1>2. calls = <<Me>> /\ (\E n \in DOMAIN Order : Me = Order[n]) /\ Me' = Me
  BY <1>1, WhoIsCalled DEF ThreadInv, PT_SPAWN, Begin, At, Me
<1>3. ThreadTypes'
  <2>1. "start" \in Label /\ "child" \in Label
    BY DEF Label, Macro
  <2> QED BY <1>1, <2>1, BoundsAssumption DEF ThreadInv, ThreadTypes, PT_SPAWN, Begin
<1>4. CallsOK'
  BY <1>2 DEF CallsOK, PT_SPAWN
<1>5. LabelsOK'
  BY <1>1, <1>2 DEF ThreadInv, ThreadTypes, LabelsOK, PT_SPAWN
<1> QED BY <1>3, <1>4, <1>5 DEF ThreadInv

\* The labels of the macros and of the semaphores are not that of a call.
LEMMA LabelsDiffer ==
  /\ {"start", "delay", "delay_f", "yield", "yield_until", "wait_until"} \subseteq Label \ {"child"}
  /\ Sem \subseteq Label \ {"child"}
  /\ Sem \cap {"start", "delay", "delay_f", "child", "body"} = {}
<1>1. /\ {"start", "delay", "delay_f", "yield", "yield_until", "wait_until"} \subseteq Macro
      /\ {"start", "delay", "delay_f", "child"} \subseteq Macro
  BY DEF Macro
<1>2. "child" \notin {"start", "delay", "delay_f", "yield", "yield_until", "wait_until"}
  OBVIOUS
<1>3. Sem \cap (Macro \cup {"body"}) = {} /\ "child" \in Macro
  BY UnitsAssumption DEF Macro
<1> QED BY <1>1, <1>2, <1>3 DEF Label

LEMMA InitThreadInv == Init => ThreadInv
  BY ThreadsAssumption, BoundsAssumption
     DEF Init, ThreadInv, ThreadTypes, CallsOK, LabelsOK, Label, Macro

\* One step for each action.
LEMMA NextThreadInv == ThreadInv /\ [Next]_vars => ThreadInv'
<1> SUFFICES ASSUME ThreadInv, [Next]_vars PROVE ThreadInv'
  OBVIOUS
<1>1. ASSUME UNCHANGED threadVars, UNCHANGED next
      PROVE  ThreadInv'
  BY <1>1 DEF ThreadInv, ThreadTypes, CallsOK, LabelsOK, threadVars, Me
<1>2. CASE Schedule
  <2>1. next \in DOMAIN Order /\ Order[next] \in Thread /\ next' \in DOMAIN Order
    BY <1>2, ThreadsAssumption DEF Schedule, ThreadInv, ThreadTypes
  <2> QED BY <1>2, <2>1, BeginKeepsThreads DEF Schedule
<1>3. CASE PT_DELAY
  BY <1>3, LabelsDiffer, SetKeepsThreads, BoundsAssumption
     DEF PT_DELAY, Begin, ThreadInv, ThreadTypes
<1>4. ASSUME NEW v \in Times, PT_DELAY_F(v)
      PROVE  ThreadInv'
  BY <1>4, LabelsDiffer, SetKeepsThreads, BoundsAssumption
     DEF PT_DELAY_F, Begin, ThreadInv, ThreadTypes
<1>5. ASSUME NEW v \in Times, SetOffset(v)
      PROVE  ThreadInv'
  BY <1>5, BoundsAssumption
     DEF SetOffset, Begin, ThreadInv, ThreadTypes, CallsOK, LabelsOK, Me
<1>6. ASSUME NEW s \in Sem, PT_SEM_WAIT(s)
      PROVE  ThreadInv'
  BY <1>6, LabelsDiffer, SetKeepsThreads, BoundsAssumption
     DEF PT_SEM_WAIT, Begin, ThreadInv, ThreadTypes
<1>7. ASSUME NEW s \in Sem, PT_SEM_SIGNAL(s)
      PROVE  ThreadInv'
  BY <1>7, BoundsAssumption
     DEF PT_SEM_SIGNAL, Begin, ThreadInv, ThreadTypes, CallsOK, LabelsOK, Me
<1>8. CASE PT_WAIT_UNTIL
  BY <1>8, LabelsDiffer, SetKeepsThreads, BoundsAssumption
     DEF PT_WAIT_UNTIL, Begin, ThreadInv, ThreadTypes
<1>9. CASE PT_YIELD \/ PT_YIELD_UNTIL
  <2>1. PICK p \in {"yield", "yield_until"} : Yield(p)
    BY <1>9 DEF PT_YIELD, PT_YIELD_UNTIL
  <2>2. p \in Label \ {"child"}
    BY LabelsDiffer
  <2>3. /\ calls # <<>> /\ Return(1) /\ next' = next
        /\ \E q \in Label \ {"child"} : lc' = [lc EXCEPT ![Me] = q]
    BY <2>1, <2>2 DEF Yield, At, PT_YIELDED
  <2>4. 1 \in 0 .. 3
    OBVIOUS
  <2> QED BY <2>3, <2>4, ReturnKeepsThreads
<1>10. CASE PT_SPAWN
  BY <1>10, SpawnKeepsThreads
<1>11. CASE PT_RESTART \/ PT_EXIT \/ PT_END
  <2>1. \E v \in 0 .. 3 : At("body") /\ PT_INIT(Me) /\ Return(v) /\ next' = next
    BY <1>11 DEF PT_RESTART, PT_EXIT, PT_END, Leave, PT_WAITING, PT_EXITED, PT_ENDED
  <2> QED BY <2>1, LabelsDiffer, ReturnKeepsThreads DEF PT_INIT, At
<1>12. CASE CheckDelay \/ CheckDelayF
  <2>1. \E p \in {"delay", "delay_f"}, passes \in BOOLEAN : Resume(p, passes)
    BY <1>12 DEF CheckDelay, CheckDelayF, ResumeDelay
  <2> QED BY <2>1, LabelsDiffer, ResumeKeepsThreads
<1>13. ASSUME NEW s \in Sem, CheckSem(s)
       PROVE  ThreadInv'
  <2>1. (count[s] > 0) \in BOOLEAN
    OBVIOUS
  <2>2. Resume(s, count[s] > 0)
    BY <1>13 DEF CheckSem
  <2>3. s \in Label \ {"child"}
    BY LabelsDiffer
  <2> QED BY <2>1, <2>2, <2>3, ResumeKeepsThreads, Zenon
<1>14. ASSUME NEW condition \in BOOLEAN, CheckWait(condition) \/ CheckYield(condition)
       PROVE  ThreadInv'
  <2>1. \E p \in {"wait_until", "yield", "yield_until"}, passes \in BOOLEAN : Resume(p, passes)
    BY <1>14 DEF CheckWait, CheckYield
  <2> QED BY <2>1, LabelsDiffer, ResumeKeepsThreads
<1>15. CASE CheckChild
  <2>1. Child[Me] \in Thread
    BY <1>15, WhoIsCalled, ThreadsAssumption DEF CheckChild, At, ThreadInv, LabelsOK
  <2> QED BY <1>15, <2>1, BeginKeepsThreads DEF CheckChild, ThreadInv, ThreadTypes
<1>16. CASE StartStop
  BY <1>1, <1>16 DEF StartStop, threadVars
<1>17. CASE Interrupt
  BY <1>1, <1>17 DEF Interrupt, threadVars
<1>18. CASE UNCHANGED vars
  BY <1>1, <1>18 DEF vars, threadVars
<1> QED BY <1>2, <1>3, <1>4, <1>5, <1>6, <1>7, <1>8, <1>9, <1>10, <1>11, <1>12, <1>13, <1>14,
           <1>15, <1>16, <1>17, <1>18 DEF Next, Operation, Check

-----------------------------------------------------------------------------
\* The rest of the type.
Clock == ticks \in Tick /\ OCIE2A \in BOOLEAN /\ lag \in 0 .. Speed

DelayTypes == /\ static \in [Function -> [from : Tick, p : Tick]] /\ offset \in Times
              /\ delay \in [Thread -> [gone : -1 .. GoneMax, time : Tick]]

SemTypes == count \in [Sem -> Nat] /\ place \in [Unit -> Sem \cup Thread]

DataTypes == Clock /\ DelayTypes /\ SemTypes

LEMMA TypeParts == ThreadInv /\ DataTypes => TypeOK
<1> SUFFICES ASSUME ThreadInv, DataTypes PROVE TypeOK
  OBVIOUS
<1>1. calls \in Seq(Thread)
  <2>1. CASE calls = <<>>
    BY <2>1
  <2>2. CASE calls # <<>>
    <3>1. (Me \in Thread) /\ (calls = <<Me>> \/ \E n \in DOMAIN Order : calls = <<Order[n], Me>>)
      BY <2>2, WhoIsCalled DEF ThreadInv
    <3>2. \A n \in DOMAIN Order : Order[n] \in Thread
      BY ThreadsAssumption
    <3>3. ASSUME NEW x \in Thread, NEW y \in Thread
          PROVE  <<x>> \in Seq(Thread) /\ <<x, y>> \in Seq(Thread)
      OBVIOUS
    <3> QED BY <3>1, <3>2, <3>3
  <2> QED BY <2>1, <2>2
<1> QED BY <1>1 DEF ThreadInv, ThreadTypes, DataTypes, Clock, DelayTypes, SemTypes, TypeOK

LEMMA DelayIsTyped ==
  /\ NoDelay \in [gone : -1 .. GoneMax, time : Tick]
  /\ \A v \in Times : [gone |-> 0, time |-> v] \in [gone : -1 .. GoneMax, time : Tick]
  /\ Unread \in [from : Tick, p : Tick]
  BY TicksAssumption, TimesAssumption DEF NoDelay, Unread, GoneMax, Tick

\* A unit that moves to a semaphore or to a thread.
LEMMA MoveIsTyped ==
  ASSUME SemTypes, NEW x, NEW y \in Sem \cup Thread, Move(x, y)
  PROVE  place' \in [Unit -> Sem \cup Thread]
  BY DEF SemTypes, Move

LEMMA InitDataTypes == Init => DataTypes
<1> SUFFICES ASSUME Init PROVE DataTypes
  OBVIOUS
<1>1. Clock
  <2>1. ticks \in Tick /\ OCIE2A \in BOOLEAN
    BY DEF Init, ticker_setup
  <2>2. lag \in 0 .. Speed
    BY BoundsAssumption DEF Init
  <2> QED BY <2>1, <2>2 DEF Clock
<1>2. DelayTypes
  BY DelayIsTyped DEF Init, DelayTypes
<1>3. SemTypes
  <2>1. place \in [Unit -> Sem \cup Thread]
    BY DEF Init, PT_SEM_INIT
  <2>2. \A s \in Sem : Cardinality(In(s)) \in Nat
    BY UnitsAssumption, FS_Subset, FS_CardinalityType DEF In
  <2> QED BY <2>1, <2>2 DEF Init, PT_SEM_INIT, SemTypes
<1> QED BY <1>1, <1>2, <1>3 DEF DataTypes

\* One step for each action that changes the data.
LEMMA NextDataTypes == ThreadInv /\ DataTypes /\ [Next]_vars => DataTypes'
<1> SUFFICES ASSUME ThreadInv, DataTypes, [Next]_vars PROVE DataTypes'
  OBVIOUS
<1> USE DEF DataTypes
<1>0. calls # <<>> => Me \in Thread /\ Code[Me] \in Function
  BY WhoIsCalled, ThreadsAssumption DEF ThreadInv
<1>1. ASSUME UNCHANGED <<tickerVars, lag>>
      PROVE  Clock'
  BY <1>1 DEF Clock, tickerVars
<1>2. ASSUME UNCHANGED dataVars
      PROVE  DelayTypes'
  BY <1>2 DEF DelayTypes, dataVars
<1>3. ASSUME UNCHANGED semVars
      PROVE  SemTypes'
  BY <1>3 DEF SemTypes, semVars
<1>4. CASE Schedule
  <2>1. Clock'
    BY <1>4, BoundsAssumption DEF Schedule, Clock, tickerVars
  <2> QED BY <1>2, <1>3, <1>4, <2>1 DEF Schedule
<1>5. CASE PT_DELAY
  <2>1. DelayTypes'
    BY <1>0, <1>5, DelayIsTyped DEF PT_DELAY, At, Begin, DelayTypes, Clock, ticker_get
  <2> QED BY <1>1, <1>3, <1>5, <2>1 DEF PT_DELAY, Begin
<1>6. ASSUME NEW v \in Times, PT_DELAY_F(v)
      PROVE  DataTypes'
  <2>1. DelayTypes'
    BY <1>0, <1>6, DelayIsTyped, TimesAssumption
       DEF PT_DELAY_F, At, Begin, DelayTypes, Clock, ticker_get
  <2> QED BY <1>1, <1>3, <1>6, <2>1 DEF PT_DELAY_F, Begin
<1>7. ASSUME NEW v \in Times, SetOffset(v)
      PROVE  DataTypes'
  <2>1. DelayTypes'
    BY <1>7 DEF SetOffset, DelayTypes
  <2> QED BY <1>1, <1>3, <1>7, <2>1 DEF SetOffset, Begin
<1>8. ASSUME NEW p, NEW time, ResumeDelay(p, time)
      PROVE  DataTypes'
  <2>1. DelayTypes'
    BY <1>0, <1>8, DelayIsTyped DEF ResumeDelay, DelayTypes
  <2> QED BY <1>1, <1>3, <1>8, <2>1 DEF ResumeDelay, Resume
<1>9. ASSUME NEW s \in Sem, PT_SEM_SIGNAL(s)
      PROVE  DataTypes'
  <2>1. count' \in [Sem -> Nat]
    BY <1>9 DEF PT_SEM_SIGNAL, SemTypes
  <2>2. place' \in [Unit -> Sem \cup Thread]
    BY <1>9, MoveIsTyped DEF PT_SEM_SIGNAL
  <2> QED BY <1>1, <1>2, <1>9, <2>1, <2>2 DEF PT_SEM_SIGNAL, Begin, SemTypes
<1>10. ASSUME NEW s \in Sem, CheckSem(s)
       PROVE  DataTypes'
  <2>1. UNCHANGED <<tickerVars, lag, dataVars>> /\ calls # <<>>
    BY <1>10 DEF CheckSem, Resume, At
  <2>2. CASE count[s] > 0
    <3>1. count' \in [Sem -> Nat]
      BY <1>10, <2>2 DEF CheckSem, SemTypes
    <3>2. place' \in [Unit -> Sem \cup Thread]
      BY <1>0, <1>10, <2>1, <2>2, MoveIsTyped DEF CheckSem
    <3> QED BY <1>1, <1>2, <2>1, <3>1, <3>2 DEF SemTypes
  <2>3. CASE ~(count[s] > 0)
    BY <1>1, <1>2, <1>3, <1>10, <2>1, <2>3 DEF CheckSem
  <2> QED BY <2>2, <2>3
<1>11. CASE StartStop
  <2>1. Clock'
    BY <1>11 DEF StartStop, Clock, ticker_start, ticker_stop
  <2> QED BY <1>2, <1>3, <1>11, <2>1 DEF StartStop
<1>12. CASE Interrupt
  <2>1. Clock'
    BY <1>12, BoundsAssumption, TicksAssumption DEF Interrupt, TIMER2_COMPA_vect, Clock, Tick
  <2>2. ASSUME NEW t \in Thread
        PROVE  (IF Delaying(t) /\ delay[t].gone < GoneMax
                THEN [delay[t] EXCEPT !.gone = @ + 1] ELSE delay[t])
                 \in [gone : -1 .. GoneMax, time : Tick]
    BY TicksAssumption DEF DelayTypes, GoneMax
  <2>3. DelayTypes'
    BY <1>12, <2>2 DEF Interrupt, DelayTypes
  <2> QED BY <1>3, <1>12, <2>1, <2>3 DEF Interrupt
<1>13. ASSUME UNCHANGED <<tickerVars, lag, dataVars, semVars>>
       PROVE  DataTypes'
  BY <1>1, <1>2, <1>3, <1>13
<1>14. CASE CheckDelay \/ CheckDelayF
  BY <1>8, <1>14 DEF CheckDelay, CheckDelayF
<1>15. ASSUME NEW s \in Sem, PT_SEM_WAIT(s)
       PROVE  DataTypes'
  BY <1>13, <1>15 DEF PT_SEM_WAIT, Begin
<1>16. CASE PT_WAIT_UNTIL \/ PT_SPAWN
  BY <1>13, <1>16 DEF PT_WAIT_UNTIL, PT_SPAWN, Begin
<1>17. CASE PT_YIELD \/ PT_YIELD_UNTIL
  BY <1>13, <1>17 DEF PT_YIELD, PT_YIELD_UNTIL, Yield
<1>18. CASE PT_RESTART \/ PT_EXIT \/ PT_END
  BY <1>13, <1>18 DEF PT_RESTART, PT_EXIT, PT_END, Leave
<1>19. ASSUME NEW condition \in BOOLEAN, CheckWait(condition) \/ CheckYield(condition)
       PROVE  DataTypes'
  BY <1>13, <1>19 DEF CheckWait, CheckYield, Resume
<1>20. CASE CheckChild
  BY <1>13, <1>20 DEF CheckChild
<1>21. CASE UNCHANGED vars
  BY <1>13, <1>21 DEF vars
<1> QED BY <1>4, <1>5, <1>6, <1>7, <1>9, <1>10, <1>11, <1>12, <1>14, <1>15, <1>16, <1>17, <1>18,
           <1>19, <1>20, <1>21 DEF Next, Operation, Check

-----------------------------------------------------------------------------
(***************************************************************************)
(* Who is in a delay.                                                      *)
(***************************************************************************)
DelayLabel == {"delay", "delay_f"}

InBody(t) == calls # <<>> /\ at = "body" /\ t = Me

\* A thread in a delay goes on at it, and not from elsewhere; at a delay it is
\* in one, but for the rest of the call that ends it; the child of a thread is
\* in one only while the thread waits for it, so that it is not spawned then.
WhereOK ==
  /\ \A t \in Thread : Delaying(t) => lc[t] \in DelayLabel /\ ~InBody(t)
  /\ \A t \in Thread : lc[t] \in DelayLabel /\ ~Delaying(t) => InBody(t)
  /\ \A q \in DOMAIN Child : Delaying(Child[q]) => lc[q] = "child" /\ ~InBody(q)

\* The body is not a label.
LEMMA NoBodyLabel == "body" \notin Label
  BY UnitsAssumption DEF Label, Macro

\* A label set from the body, that of a delay when one begins.
LEMMA SetKeepsWhere ==
  ASSUME ThreadInv, WhereOK, At("body"), NEW p \in Label \ {"child"}, LC_SET(p), calls' = calls,
         \A t \in Thread : Delaying(t)' <=> (Delaying(t) \/ (t = Me /\ p \in DelayLabel))
  PROVE  WhereOK'
<1>1. Me \in Thread /\ Me' = Me /\ InBody(Me) /\ ~Delaying(Me)
  BY WhoIsCalled DEF ThreadInv, At, InBody, Me, WhereOK
<1>2. \A t : ~InBody(t)'
  BY NoBodyLabel DEF LC_SET, InBody
<1>3. \A t \in Thread \ {Me} : lc'[t] = lc[t] /\ ~InBody(t)
  BY DEF LC_SET, ThreadInv, ThreadTypes, InBody
<1>4. lc'[Me] = p
  BY <1>1 DEF LC_SET, ThreadInv, ThreadTypes
<1>5. \A t \in Thread : Delaying(t)' => lc'[t] \in DelayLabel
  BY <1>1, <1>3, <1>4 DEF WhereOK
<1>6. \A t \in Thread : lc'[t] \in DelayLabel => Delaying(t)'
  BY <1>1, <1>3, <1>4 DEF WhereOK
<1>7. ASSUME NEW q \in DOMAIN Child, Delaying(Child[q])'
      PROVE  lc'[q] = "child"
  <2>1. Child[q] \in Thread
    BY ThreadsAssumption
  <2>2. CASE Child[q] = Me
    <3>1. PICK n \in DOMAIN Order : /\ Order[n] \in DOMAIN Child /\ lc[Order[n]] = "child"
                                    /\ Me = Child[Order[n]] /\ Me \notin DOMAIN Child
      BY <2>2, WhoIsCalled DEF ThreadInv, At
    <3>2. q = Order[n]
      BY <2>2, <3>1, ThreadsAssumption
    <3>3. q \in Thread /\ q # Me
      BY <3>1, <3>2, ThreadsAssumption
    <3> QED BY <1>3, <3>1, <3>2, <3>3
  <2>3. CASE Child[q] # Me
    <3>1. lc[q] = "child" /\ q # Me
      BY <1>1, <1>7, <2>1, <2>3 DEF WhereOK
    <3> QED BY <3>1 DEF LC_SET, ThreadInv, ThreadTypes
  <2> QED BY <2>2, <2>3
<1> QED BY <1>2, <1>5, <1>6, <1>7 DEF WhereOK

\* A call that begins at a label.
LEMMA BeginKeepsWhere ==
  ASSUME ThreadInv, WhereOK, NEW t \in Thread, PT_BEGIN(t), lc' = lc, delay' = delay,
         Me' = t, calls = <<>> \/ At("child")
  PROVE  WhereOK'
<1>1. \A u : ~InBody(u)
  BY DEF At, InBody
<1>2. \A u \in Thread : InBody(u)' => lc[u] = "start"
  BY NoBodyLabel DEF InBody, PT_BEGIN, ThreadInv, ThreadTypes
<1>3. \A u \in Thread : Delaying(u)' <=> Delaying(u)
  BY DEF Delaying
<1>4. \A u : InBody(u)' => u \in Thread
  BY DEF InBody
<1>5. \A u \in DOMAIN Child : Child[u] \in Thread
  BY ThreadsAssumption
<1> QED BY <1>1, <1>2, <1>3, <1>4, <1>5 DEF WhereOK, DelayLabel

\* A function leaves from its body, for a label that is not that of a delay.
LEMMA LeaveKeepsWhere ==
  ASSUME ThreadInv, WhereOK, At("body"), NEW v \in 0 .. 3, Return(v), delay' = delay,
         NEW p \in Label \ ({"child"} \cup DelayLabel), lc' = [lc EXCEPT ![Me] = p]
  PROVE  WhereOK'
<1>1. Me \in Thread /\ InBody(Me) /\ ~Delaying(Me)
  BY WhoIsCalled DEF ThreadInv, At, InBody, WhereOK
<1>2. \A t \in Thread : Delaying(t)' <=> Delaying(t)
  BY DEF Delaying
<1>3. lc'[Me] = p /\ \A t \in Thread \ {Me} : lc'[t] = lc[t] /\ ~InBody(t)
  BY <1>1 DEF ThreadInv, ThreadTypes, InBody
<1>4. ASSUME NEW t, InBody(t)'
      PROVE  t \in DOMAIN Child /\ Child[t] = Me /\ lc[t] = "child"
  <2>1. PICK n \in DOMAIN Order :
          /\ Me = Child[Order[n]] /\ Order[n] \in DOMAIN Child /\ lc[Order[n]] = "child"
          /\ calls' = <<Order[n]>>
    BY <1>4, WhereReturns DEF ThreadInv, At, InBody
  <2>2. Me' = Order[n]
    BY <2>1 DEF Me
  <2> QED BY <1>4, <2>1, <2>2 DEF InBody
<1>5. \A q \in DOMAIN Child : q \in Thread /\ Child[q] \in Thread
  BY ThreadsAssumption
<1>6. ASSUME NEW t \in Thread, Delaying(t)
      PROVE  lc'[t] \in DelayLabel /\ ~InBody(t)'
  BY <1>1, <1>3, <1>4, <1>6 DEF WhereOK, DelayLabel
<1>7. ASSUME NEW t \in Thread, lc'[t] \in DelayLabel
      PROVE  Delaying(t)
  BY <1>3, <1>7 DEF WhereOK
<1>8. ASSUME NEW q \in DOMAIN Child, Delaying(Child[q])
      PROVE  lc'[q] = "child" /\ ~InBody(q)'
  BY <1>1, <1>3, <1>4, <1>5, <1>8 DEF WhereOK
<1> QED BY <1>2, <1>5, <1>6, <1>7, <1>8 DEF WhereOK

\* The code after a label: a delay ends when it lets the thread pass, and only
\* then.
LEMMA ResumeKeepsWhere ==
  ASSUME ThreadInv, WhereOK, NEW p \in Label \ {"child"}, NEW passes \in BOOLEAN,
         Resume(p, passes),
         \A t \in Thread :
           Delaying(t)' <=> Delaying(t) /\ ~(passes /\ t = Me /\ p \in DelayLabel)
  PROVE  WhereOK'
<1>1. /\ Me \in Thread /\ calls # <<>> /\ at = p /\ lc[Me] = p /\ lc' = lc
      /\ \A t : ~InBody(t)
  BY NoBodyLabel, WhoIsCalled DEF ThreadInv, LabelsOK, Resume, At, InBody
<1>2. \A q \in DOMAIN Child : q \in Thread /\ Child[q] \in Thread
  BY ThreadsAssumption
<1>3. CASE passes
  <2>1. Me' = Me /\ \A t : InBody(t)' <=> t = Me
    BY <1>1, <1>3 DEF Resume, InBody, Me
  <2>2. ~Delaying(Me)'
    <3>1. CASE p \in DelayLabel
      BY <1>1, <1>3, <2>1, <3>1
    <3>2. CASE p \notin DelayLabel
      BY <1>1, <2>1, <3>2 DEF WhereOK
    <3> QED BY <3>1, <3>2
  <2>3. /\ \A t \in Thread : lc[t] \in DelayLabel <=> Delaying(t)
        /\ \A t \in Thread : Delaying(t)' => Delaying(t)
        /\ \A t \in Thread \ {Me} : Delaying(t) => Delaying(t)'
    BY <1>1 DEF WhereOK
  <2>4. \A q \in DOMAIN Child : Delaying(Child[q])' => lc[q] = "child" /\ q # Me
    BY <1>1, <1>2 DEF WhereOK
  <2> QED BY <1>1, <2>1, <2>2, <2>3, <2>4 DEF WhereOK
<1>4. CASE ~passes
  <2>1. calls' = <<>>
    BY <1>4 DEF Resume, Return, PT_SCHEDULE, PT_WAITING, PT_EXITED
  <2>2. \A t : ~InBody(t)'
    BY <2>1 DEF InBody
  <2>3. \A t \in Thread : Delaying(t)' <=> Delaying(t)
    BY <1>4
  <2> QED BY <1>1, <1>2, <2>2, <2>3 DEF WhereOK
<1> QED BY <1>3, <1>4

LEMMA SpawnKeepsWhere == ASSUME ThreadInv, WhereOK, PT_SPAWN PROVE WhereOK'
<1>1. Me \in Thread /\ Me \in DOMAIN Child /\ InBody(Me) /\ ~Delaying(Me)
  BY WhoIsCalled DEF ThreadInv, PT_SPAWN, Begin, At, InBody, WhereOK
<1>2. Child[Me] \in Thread /\ Child[Me] \notin DOMAIN Child /\ ~Delaying(Child[Me])
  <2>1. 1 \in DOMAIN Order
    BY ThreadsAssumption
  <2> QED BY <1>1, <2>1, ThreadsAssumption DEF WhereOK
<1>3. /\ lc'[Me] = "child" /\ lc'[Child[Me]] = "start"
      /\ \A t \in Thread \ {Me, Child[Me]} : lc'[t] = lc[t]
      /\ \A t \in Thread \ {Me} : ~InBody(t)
  BY <1>1, <1>2 DEF PT_SPAWN, ThreadInv, ThreadTypes, InBody
<1>4. (\A t : ~InBody(t)') /\ \A t \in Thread : Delaying(t)' <=> Delaying(t)
  BY DEF PT_SPAWN, InBody, dataVars, Delaying
<1>5. \A q \in DOMAIN Child : q \in Thread /\ Child[q] \in Thread
  BY ThreadsAssumption
<1>6. \A t \in Thread : Delaying(t) => lc'[t] \in DelayLabel
  BY <1>1, <1>2, <1>3 DEF WhereOK
<1>7. \A t \in Thread : lc'[t] \in DelayLabel => Delaying(t)
  BY <1>3 DEF WhereOK, DelayLabel
<1>8. \A q \in DOMAIN Child : Delaying(Child[q]) => lc'[q] = "child"
  BY <1>2, <1>3, <1>5 DEF WhereOK
<1> QED BY <1>4, <1>5, <1>6, <1>7, <1>8 DEF WhereOK

LEMMA InitWhereOK == Init => WhereOK
<1> SUFFICES ASSUME Init PROVE WhereOK
  OBVIOUS
<1>1. \A t \in Thread : lc[t] = "start" /\ ~Delaying(t)
  BY DEF Init, Delaying
<1>2. \A q \in DOMAIN Child : Child[q] \in Thread
  BY ThreadsAssumption
<1> QED BY <1>1, <1>2 DEF WhereOK, DelayLabel

LEMMA NextWhereOK == ThreadInv /\ DataTypes /\ WhereOK /\ [Next]_vars => WhereOK'
<1> SUFFICES ASSUME ThreadInv, DataTypes, WhereOK, [Next]_vars PROVE WhereOK'
  OBVIOUS
<1>1. ASSUME UNCHANGED <<lc, calls, at>>, \A t \in Thread : Delaying(t)' <=> Delaying(t)
      PROVE  WhereOK'
  <2>1. \A t : InBody(t)' <=> InBody(t)
    BY <1>1 DEF InBody, Me
  <2>2. \A q \in DOMAIN Child : Child[q] \in Thread
    BY ThreadsAssumption
  <2> QED BY <1>1, <2>1, <2>2 DEF WhereOK
<1>2. UNCHANGED delay => \A t : Delaying(t)' <=> Delaying(t)
  BY DEF Delaying
<1>3. calls # <<>> => Me \in Thread
  BY WhoIsCalled DEF ThreadInv
<1>4. CASE Schedule
  <2>1. Order[next] \in Thread /\ next \in DOMAIN Order /\ next' \in DOMAIN Order
    BY <1>4, ThreadsAssumption DEF Schedule, ThreadInv, ThreadTypes
  <2>2. Me' = Order[next]
    BY <1>4, <2>1, BeginKeepsThreads DEF Schedule
  <2> QED BY <1>4, <2>1, <2>2, BeginKeepsWhere DEF Schedule, dataVars
<1>5. CASE CheckChild
  <2>1. Child[Me] \in Thread
    BY <1>5, WhoIsCalled, ThreadsAssumption DEF CheckChild, At, ThreadInv, LabelsOK
  <2>2. Me' = Child[Me]
    BY <1>5, <2>1, BeginKeepsThreads DEF CheckChild, ThreadInv, ThreadTypes
  <2> QED BY <1>5, <2>1, <2>2, BeginKeepsWhere DEF CheckChild, dataVars
<1>6. ASSUME NEW p \in DelayLabel, NEW v \in Times, At("body"), LC_SET(p), calls' = calls,
             delay' = [delay EXCEPT ![Me] = [gone |-> 0, time |-> v]]
      PROVE  WhereOK'
  <2>1. \A t \in Thread : Delaying(t)' <=> (Delaying(t) \/ t = Me)
    BY <1>3, <1>6 DEF At, Delaying, NoDelay, DataTypes, DelayTypes
  <2>2. p \in Label \ {"child"}
    BY LabelsDiffer DEF DelayLabel
  <2> QED BY <1>6, <2>1, <2>2, SetKeepsWhere
<1>7. CASE PT_DELAY \/ \E v \in Times : PT_DELAY_F(v)
  <2>1. offset \in Times /\ {"delay", "delay_f"} \subseteq DelayLabel
    BY DEF DataTypes, DelayTypes, DelayLabel
  <2> QED BY <1>6, <1>7, <2>1 DEF PT_DELAY, PT_DELAY_F, Begin
<1>8. ASSUME NEW p \in Label \ ({"child"} \cup DelayLabel), At("body"), LC_SET(p),
             calls' = calls, UNCHANGED dataVars
      PROVE  WhereOK'
  <2>1. \A t \in Thread : Delaying(t)' <=> (Delaying(t) \/ (t = Me /\ p \in DelayLabel))
    BY <1>2, <1>8 DEF dataVars
  <2> QED BY <1>8, <2>1, SetKeepsWhere
<1>9. /\ {"start", "yield", "yield_until", "wait_until"} \subseteq Label \ ({"child"} \cup DelayLabel)
      /\ Sem \subseteq Label \ ({"child"} \cup DelayLabel)
  BY LabelsDiffer DEF DelayLabel
<1>10. ASSUME NEW s \in Sem, PT_SEM_WAIT(s)
       PROVE  WhereOK'
  BY <1>8, <1>9, <1>10 DEF PT_SEM_WAIT, Begin
<1>11. CASE PT_WAIT_UNTIL
  BY <1>8, <1>9, <1>11 DEF PT_WAIT_UNTIL, Begin
<1>12. CASE PT_SPAWN
  BY <1>12, SpawnKeepsWhere
<1>13. CASE PT_YIELD \/ PT_YIELD_UNTIL
  <2>1. PICK p \in {"yield", "yield_until"} : Yield(p)
    BY <1>13 DEF PT_YIELD, PT_YIELD_UNTIL
  <2>2. /\ At("body") /\ Return(1) /\ delay' = delay
        /\ lc' = [lc EXCEPT ![Me] = p] /\ p \in Label \ ({"child"} \cup DelayLabel)
    BY <1>9, <2>1 DEF Yield, PT_YIELDED, dataVars
  <2>3. 1 \in 0 .. 3
    OBVIOUS
  <2> QED BY <2>2, <2>3, LeaveKeepsWhere
<1>14. CASE PT_RESTART \/ PT_EXIT \/ PT_END
  <2>1. PICK v \in 0 .. 3 : At("body") /\ PT_INIT(Me) /\ Return(v) /\ delay' = delay
    BY <1>14 DEF PT_RESTART, PT_EXIT, PT_END, Leave, PT_WAITING, PT_EXITED, PT_ENDED, dataVars
  <2>2. "start" \in Label \ ({"child"} \cup DelayLabel)
    BY <1>9
  <2> QED BY <2>1, <2>2, LeaveKeepsWhere DEF PT_INIT
<1>15. ASSUME NEW p \in Label \ ({"child"} \cup DelayLabel), NEW passes \in BOOLEAN,
              Resume(p, passes), UNCHANGED dataVars
       PROVE  WhereOK'
  <2>1. \A t \in Thread :
          Delaying(t)' <=> Delaying(t) /\ ~(passes /\ t = Me /\ p \in DelayLabel)
    BY <1>2, <1>15 DEF dataVars
  <2> QED BY <1>15, <2>1, ResumeKeepsWhere
<1>16. ASSUME NEW s \in Sem, CheckSem(s)
       PROVE  WhereOK'
  <2>1. (count[s] > 0) \in BOOLEAN
    OBVIOUS
  <2>2. Resume(s, count[s] > 0) /\ UNCHANGED dataVars
    BY <1>16 DEF CheckSem
  <2>3. s \in Label \ ({"child"} \cup DelayLabel)
    BY <1>9
  <2> QED BY <1>15, <2>1, <2>2, <2>3, Zenon
<1>17. ASSUME NEW condition \in BOOLEAN, CheckWait(condition) \/ CheckYield(condition)
       PROVE  WhereOK'
  <2>1. \E p \in {"wait_until", "yield", "yield_until"}, passes \in BOOLEAN :
          Resume(p, passes) /\ UNCHANGED dataVars
    BY <1>17 DEF CheckWait, CheckYield
  <2> QED BY <1>9, <1>15, <2>1
<1>18. CASE CheckDelay \/ CheckDelayF
  <2>0. PICK p \in DelayLabel : \E time : ResumeDelay(p, time)
    BY <1>18 DEF CheckDelay, CheckDelayF, DelayLabel
  <2>1. PICK time : ResumeDelay(p, time)
    BY <2>0
  <2>2. PICK passes \in BOOLEAN :
          /\ Resume(p, passes)
          /\ delay' = IF passes THEN [delay EXCEPT ![Me] = NoDelay] ELSE delay
    <3>1. (~NotOver(static[Code[Me]].from, time)) \in BOOLEAN
      OBVIOUS
    <3> QED BY <2>1, <3>1, Zenon DEF ResumeDelay
  <2>3. Me \in Thread
    BY <1>3, <2>2 DEF Resume, At
  <2>4. \A t \in Thread :
          Delaying(t)' <=> Delaying(t) /\ ~(passes /\ t = Me /\ p \in DelayLabel)
    BY <2>2, <2>3 DEF Delaying, DataTypes, DelayTypes
  <2>5. p \in Label \ {"child"}
    BY LabelsDiffer DEF DelayLabel
  <2> QED BY <2>2, <2>4, <2>5, ResumeKeepsWhere
<1>19. CASE Interrupt
  <2>1. \A t \in Thread : Delaying(t)' <=> Delaying(t)
    BY <1>19 DEF Interrupt, Delaying, NoDelay, DataTypes, DelayTypes
  <2> QED BY <1>1, <1>19, <2>1 DEF Interrupt, threadVars
<1>20. ASSUME UNCHANGED <<lc, calls, at, delay>>
       PROVE  WhereOK'
  BY <1>1, <1>2, <1>20
<1>21. ASSUME \/ \E v \in Times : SetOffset(v)
              \/ \E s \in Sem : PT_SEM_SIGNAL(s)
              \/ StartStop
              \/ UNCHANGED vars
       PROVE  WhereOK'
  BY <1>20, <1>21 DEF SetOffset, PT_SEM_SIGNAL, StartStop, vars, threadVars, dataVars
<1> QED BY <1>4, <1>5, <1>7, <1>10, <1>11, <1>12, <1>13, <1>14, <1>16, <1>17, <1>18, <1>19, <1>21
        DEF Next, Operation, Check

-----------------------------------------------------------------------------
(***************************************************************************)
(* How long a delay has lasted: as the ticks it has seen say, until they   *)
(* are a whole turn of the counter.  The statics of a function must be     *)
(* those of one thread only.                                               *)
(***************************************************************************)
OwnFunctions == \A t, u \in Thread : Code[t] = Code[u] => t = u

TimeOf(t) == /\ delay[t].gone >= 0
             /\ delay[t].gone < TICKS => Minus(ticks, static[Code[t]].from) = delay[t].gone
             /\ lc[t] = "delay_f" => static[Code[t]].p = delay[t].time

TimeOK == \A t \in Thread : Delaying(t) => TimeOf(t)

DelayInv == ThreadInv /\ DataTypes /\ WhereOK

\* A tick moves the difference on.
LEMMA TickMinus ==
  ASSUME NEW a \in Tick, NEW f \in Tick, NEW b, b = (IF a = TICKS - 1 THEN 0 ELSE a + 1),
         Minus(a, f) + 1 < TICKS
  PROVE  Minus(b, f) = Minus(a, f) + 1
  BY TicksAssumption DEF Tick, Minus

\* Both reads of the counter at the same tick.
LEMMA MinusSelf == \A a \in Tick : Minus(a, a) = 0
  BY TicksAssumption DEF Tick, Minus

LEMMA NextTimeOK ==
  ASSUME OwnFunctions, DelayInv, TimeOK, [Next]_vars
  PROVE  TimeOK'
<1> USE DEF DelayInv
<1>1. calls # <<>> => Me \in Thread /\ Code[Me] \in Function
  BY WhoIsCalled, ThreadsAssumption DEF ThreadInv
<1>2. At("body") => ~Delaying(Me)
  BY <1>1 DEF At, WhereOK, InBody
<1>3. ASSUME UNCHANGED <<ticks, static, delay>>, \A t \in Thread : Delaying(t) => lc'[t] = lc[t]
      PROVE  TimeOK'
  BY <1>3 DEF TimeOK, TimeOf, Delaying, Minus
<1>4. ASSUME At("body"), NEW p, lc' = [lc EXCEPT ![Me] = p], UNCHANGED <<ticks, static, delay>>
      PROVE  TimeOK'
  <2>1. \A t \in Thread : Delaying(t) => lc'[t] = lc[t]
    BY <1>2, <1>4 DEF ThreadInv, ThreadTypes
  <2> QED BY <1>3, <1>4, <2>1
<1>5. ASSUME NEW r, NEW v, At("body"), r.from = ticks, r.p = v \/ lc'[Me] # "delay_f",
             UNCHANGED ticks, static' = [static EXCEPT ![Code[Me]] = r],
             delay' = [delay EXCEPT ![Me] = [gone |-> 0, time |-> v]],
             \A t \in Thread \ {Me} : lc'[t] = lc[t]
      PROVE  TimeOK'
  <2>1. Me \in Thread /\ Code[Me] \in Function /\ ticks \in Tick
    BY <1>1, <1>5 DEF At, DataTypes, Clock
  <2>2. ASSUME NEW t \in Thread, t # Me
        PROVE  delay'[t] = delay[t] /\ static'[Code[t]] = static[Code[t]] /\ lc'[t] = lc[t]
    <3>1. Code[t] # Code[Me] /\ Code[t] \in Function
      BY <2>1, <2>2, ThreadsAssumption DEF OwnFunctions
    <3> QED BY <1>5, <2>1, <2>2, <3>1 DEF DataTypes, DelayTypes
  <2>3. delay'[Me] = [gone |-> 0, time |-> v] /\ static'[Code[Me]] = r
    BY <1>5, <2>1 DEF DataTypes, DelayTypes
  <2>4. ASSUME NEW t \in Thread, t = Me
        PROVE  TimeOf(t)'
    BY <1>5, <2>1, <2>3, <2>4, MinusSelf DEF TimeOf
  <2>5. ASSUME NEW t \in Thread, t # Me, Delaying(t)'
        PROVE  TimeOf(t)'
    BY <1>5, <2>2, <2>5 DEF TimeOK, TimeOf, Delaying
  <2> QED BY <2>4, <2>5 DEF TimeOK
<1>6. CASE PT_DELAY
  <2>1. static' = [static EXCEPT ![Code[Me]] = [static[Code[Me]] EXCEPT !.from = ticks]]
    BY <1>6 DEF PT_DELAY, ticker_get
  <2>2. [static[Code[Me]] EXCEPT !.from = ticks].from = ticks
    BY <1>1, <1>6 DEF PT_DELAY, Begin, At, DataTypes, DelayTypes
  <2>3. lc'[Me] = "delay" /\ \A t \in Thread \ {Me} : lc'[t] = lc[t]
    BY <1>1, <1>6 DEF PT_DELAY, Begin, At, LC_SET, ThreadInv, ThreadTypes
  <2> QED BY <1>5, <1>6, <2>1, <2>2, <2>3 DEF PT_DELAY, Begin, tickerVars
<1>7. ASSUME NEW v \in Times, PT_DELAY_F(v)
      PROVE  TimeOK'
  <2>1. \A t \in Thread \ {Me} : lc'[t] = lc[t]
    BY <1>1, <1>7 DEF PT_DELAY_F, Begin, At, LC_SET, ThreadInv, ThreadTypes
  <2>2. [from |-> ticks, p |-> v].from = ticks /\ [from |-> ticks, p |-> v].p = v
    OBVIOUS
  <2> QED BY <1>5, <1>7, <2>1, <2>2 DEF PT_DELAY_F, Begin, tickerVars, ticker_get
<1>8. CASE CheckDelay \/ CheckDelayF
  <2>1. /\ calls # <<>> /\ UNCHANGED <<ticks, lc>>
        /\ \/ UNCHANGED <<delay, static>>
           \/ /\ delay' = [delay EXCEPT ![Me] = NoDelay]
              /\ \/ static' = static
                 \/ static' = [static EXCEPT ![Code[Me]] = Unread]
    BY <1>8 DEF CheckDelay, CheckDelayF, ResumeDelay, Resume, At, tickerVars
  <2>2. CASE UNCHANGED <<delay, static>>
    BY <1>3, <2>1, <2>2
  <2>3. CASE delay' = [delay EXCEPT ![Me] = NoDelay]
    <3>1. ASSUME NEW t \in Thread, Delaying(t)'
          PROVE  t # Me /\ delay'[t] = delay[t] /\ static'[Code[t]] = static[Code[t]]
      <4>1. t # Me /\ delay'[t] = delay[t]
        BY <1>1, <2>1, <2>3, <3>1 DEF Delaying, DataTypes, DelayTypes
      <4>2. Code[t] # Code[Me] /\ Code[t] \in Function
        BY <1>1, <2>1, <4>1, ThreadsAssumption DEF OwnFunctions
      <4> QED BY <2>1, <4>1, <4>2 DEF DataTypes, DelayTypes
    <3> QED BY <2>1, <3>1 DEF TimeOK, TimeOf, Delaying, Minus
  <2> QED BY <2>1, <2>2, <2>3
<1>9. CASE Interrupt
  <2>1. /\ UNCHANGED <<lc, static>> /\ ticks \in Tick
        /\ ticks' = IF ticks = TICKS - 1 THEN 0 ELSE ticks + 1
    BY <1>9 DEF Interrupt, TIMER2_COMPA_vect, threadVars, DataTypes, Clock
  <2>2. ASSUME NEW t \in Thread, Delaying(t)'
        PROVE  TimeOf(t)'
    <3>1. Delaying(t) /\ TimeOf(t) /\ static[Code[t]].from \in Tick /\ delay[t].gone \in Int
      <4>1. Delaying(t)
        BY <1>9, <2>2 DEF Interrupt, Delaying
      <4>2. Code[t] \in Function
        BY ThreadsAssumption
      <4> QED BY <4>1, <4>2 DEF TimeOK, DataTypes, DelayTypes
    <3>2. /\ delay'[t].time = delay[t].time
          /\ delay[t].gone < GoneMax => delay'[t].gone = delay[t].gone + 1
          /\ delay[t].gone >= GoneMax => delay'[t].gone = delay[t].gone
      <4>1. delay'[t] = IF delay[t].gone < GoneMax
                        THEN [delay[t] EXCEPT !.gone = @ + 1] ELSE delay[t]
        BY <1>9, <3>1 DEF Interrupt
      <4>2. delay[t] \in [gone : -1 .. GoneMax, time : Tick] /\ GoneMax \in Int
        BY TicksAssumption DEF DataTypes, DelayTypes, GoneMax
      <4> QED BY <4>1, <4>2
    <3>3. delay'[t].gone >= 0
      BY <3>1, <3>2, TicksAssumption DEF TimeOf, GoneMax
    <3>4. ASSUME delay'[t].gone < TICKS
          PROVE  Minus(ticks', static[Code[t]].from) = delay'[t].gone
      <4>1. delay[t].gone + 1 < TICKS /\ delay'[t].gone = delay[t].gone + 1
        BY <3>1, <3>2, <3>4, TicksAssumption DEF GoneMax
      <4>2. Minus(ticks, static[Code[t]].from) = delay[t].gone
        BY <3>1, <4>1, TicksAssumption DEF TimeOf
      <4> QED BY <2>1, <3>1, <4>1, <4>2, TickMinus
    <3> QED BY <2>1, <3>1, <3>2, <3>3, <3>4 DEF TimeOf
  <2> QED BY <2>2 DEF TimeOK
<1>10. CASE PT_SPAWN
  <2>1. /\ Me \in DOMAIN Child /\ Me \in Thread /\ At("body")
        /\ lc' = [lc EXCEPT ![Child[Me]] = "start", ![Me] = "child"]
        /\ UNCHANGED <<ticks, static, delay>>
    BY <1>1, <1>10 DEF PT_SPAWN, Begin, At, tickerVars, dataVars
  <2>2. ~Delaying(Me) /\ ~Delaying(Child[Me])
    BY <1>2, <2>1 DEF WhereOK, InBody, At
  <2> QED BY <1>3, <2>1, <2>2 DEF ThreadInv, ThreadTypes
<1>11. ASSUME NEW s \in Sem, PT_SEM_WAIT(s)
       PROVE  TimeOK'
  BY <1>4, <1>11 DEF PT_SEM_WAIT, LC_SET, Begin, tickerVars, dataVars
<1>12. CASE PT_WAIT_UNTIL
  BY <1>4, <1>12 DEF PT_WAIT_UNTIL, LC_SET, Begin, tickerVars, dataVars
<1>13. CASE PT_YIELD \/ PT_YIELD_UNTIL
  BY <1>4, <1>13 DEF PT_YIELD, PT_YIELD_UNTIL, Yield, tickerVars, dataVars
<1>14. CASE PT_RESTART \/ PT_EXIT \/ PT_END
  BY <1>4, <1>14 DEF PT_RESTART, PT_EXIT, PT_END, Leave, PT_INIT, tickerVars, dataVars
<1>15. ASSUME UNCHANGED <<ticks, static, delay, lc>>
       PROVE  TimeOK'
  BY <1>3, <1>15
<1>16. ASSUME NEW v \in Times, SetOffset(v)
       PROVE  TimeOK'
  BY <1>15, <1>16 DEF SetOffset, Begin, tickerVars
<1>17. ASSUME NEW s \in Sem, PT_SEM_SIGNAL(s) \/ CheckSem(s)
       PROVE  TimeOK'
  BY <1>15, <1>17 DEF PT_SEM_SIGNAL, CheckSem, Begin, Resume, tickerVars, dataVars
<1>18. ASSUME NEW condition \in BOOLEAN, CheckWait(condition) \/ CheckYield(condition)
       PROVE  TimeOK'
  BY <1>15, <1>18 DEF CheckWait, CheckYield, Resume, tickerVars, dataVars
<1>19. CASE CheckChild \/ Schedule \/ StartStop \/ UNCHANGED vars
  BY <1>15, <1>19
     DEF CheckChild, Schedule, StartStop, ticker_start, ticker_stop, vars, tickerVars, dataVars, threadVars
<1> QED BY <1>6, <1>7, <1>8, <1>9, <1>10, <1>11, <1>12, <1>13, <1>14, <1>16, <1>17, <1>18, <1>19
        DEF Next, Operation, Check

\* A delay ends only at its check, and not before its time.
LEMMA NoStepIsShort ==
  ASSUME DelayInv, TimeOK, [Next]_vars, NEW t \in Thread, Delaying(t), ~Delaying(t)'
  PROVE  delay[t].gone > IF lc[t] = "delay" THEN offset ELSE delay[t].time
<1>1. calls # <<>> => Me \in Thread
  BY WhoIsCalled DEF DelayInv, ThreadInv
<1>2. delay' # delay
  BY DEF Delaying
<1>3. CASE PT_DELAY \/ \E v \in Times : PT_DELAY_F(v)
  <2>1. PICK v : delay' = [delay EXCEPT ![Me] = [gone |-> 0, time |-> v]]
    BY <1>3 DEF PT_DELAY, PT_DELAY_F
  <2> QED BY <2>1 DEF Delaying, NoDelay, DelayInv, DataTypes, DelayTypes
<1>4. CASE Interrupt
  BY <1>4 DEF Interrupt, Delaying, NoDelay, DelayInv, DataTypes, DelayTypes
<1>5. ASSUME NEW p \in DelayLabel, NEW time, ResumeDelay(p, time),
             time = IF p = "delay" THEN offset ELSE static[Code[Me]].p
      PROVE  delay[t].gone > IF lc[t] = "delay" THEN offset ELSE delay[t].time
  <2>1. /\ ~NotOver(static[Code[Me]].from, time)
        /\ delay' = [delay EXCEPT ![Me] = NoDelay]
    BY <1>2, <1>5 DEF ResumeDelay
  <2>2. t = Me
    BY <2>1 DEF Delaying, DelayInv, DataTypes, DelayTypes
  <2>3. lc[t] = p
    BY <1>5, <2>2, NoBodyLabel, LabelsDiffer
       DEF ResumeDelay, Resume, At, DelayInv, ThreadInv, LabelsOK, DelayLabel
  <2>4. TimeOf(t)
    BY DEF TimeOK
  <2>5. time = IF lc[t] = "delay" THEN offset ELSE delay[t].time
    BY <1>5, <2>2, <2>3, <2>4 DEF TimeOf, DelayLabel
  <2>6. time \in 0 .. TICKS - 1 /\ delay[t].gone \in Int
    BY <2>5, TimesAssumption DEF DelayInv, DataTypes, DelayTypes, Tick
  <2>7. ~(Minus(ticks, static[Code[t]].from) <= time)
    BY <2>1, <2>2 DEF NotOver, ticker_get
  <2>8. delay[t].gone > time
    <3>1. CASE delay[t].gone < TICKS
      BY <2>4, <2>6, <2>7, <3>1 DEF TimeOf
    <3>2. CASE ~(delay[t].gone < TICKS)
      BY <2>6, <3>2, TicksAssumption
    <3> QED BY <3>1, <3>2
  <2> QED BY <2>5, <2>8
<1>6. CASE CheckDelay
  BY <1>5, <1>6 DEF CheckDelay, DelayLabel
<1>7. CASE CheckDelayF
  BY <1>5, <1>7 DEF CheckDelayF, DelayLabel
<1>8. ASSUME NEW v \in Times, SetOffset(v)
      PROVE  FALSE
  BY <1>2, <1>8 DEF SetOffset
<1>9. ASSUME NEW s \in Sem, PT_SEM_WAIT(s) \/ PT_SEM_SIGNAL(s) \/ CheckSem(s)
      PROVE  FALSE
  BY <1>2, <1>9 DEF PT_SEM_WAIT, PT_SEM_SIGNAL, CheckSem, dataVars
<1>10. ASSUME NEW condition \in BOOLEAN, CheckWait(condition) \/ CheckYield(condition)
       PROVE  FALSE
  BY <1>2, <1>10 DEF CheckWait, CheckYield, dataVars
<1>11. ~(PT_WAIT_UNTIL \/ PT_SPAWN \/ PT_YIELD \/ PT_YIELD_UNTIL)
  BY <1>2 DEF PT_WAIT_UNTIL, PT_SPAWN, PT_YIELD, PT_YIELD_UNTIL, Yield, dataVars
<1>12. ~(PT_RESTART \/ PT_EXIT \/ PT_END \/ CheckChild \/ Schedule \/ StartStop \/ UNCHANGED vars)
  BY <1>2 DEF PT_RESTART, PT_EXIT, PT_END, Leave, CheckChild, Schedule, StartStop, vars, dataVars
<1> QED BY <1>3, <1>4, <1>6, <1>7, <1>8, <1>9, <1>10, <1>11, <1>12 DEF Next, Operation, Check

LEMMA InitTimeOK == Init => TimeOK
  BY DEF Init, TimeOK, Delaying

-----------------------------------------------------------------------------
(***************************************************************************)
(* How long a delay may last.  Main calls the threads in turn: the turn of *)
(* the thread at place Now has come.                                       *)
(***************************************************************************)
Room == \A v \in Times : v + 2 * Speed < TICKS

Now == IF next = 1 THEN Len(Order) ELSE next - 1

\* Where main calls a thread, or the parent that calls it.
Places(t) == {n \in DOMAIN Order : \/ t = Order[n]
                                   \/ Order[n] \in DOMAIN Child /\ t = Child[Order[n]]}

\* A thread is about to check its delay.
Pending(t) == /\ calls # <<>>
              /\ \/ t = Me /\ at \in DelayLabel
                 \/ Me \in DOMAIN Child /\ t = Child[Me] /\ at = "child"

\* In this turn the thread has checked its delay, or begun it.
Served(t) == \E n \in Places(t) : n < Now \/ (n = Now /\ ~Pending(t))

\* The ticks after the time given are those of this turn, and those of the
\* turn before if the thread has not been served in this one.
TurnOf(t) == /\ Places(t) # {} /\ delay[t].time \in Times
             /\ delay[t].gone <= Longest(t) + Speed + lag
             /\ Served(t) => delay[t].gone <= Longest(t) + lag

TurnOK == \A t \in Thread : Delaying(t) => TurnOf(t)

\* The longest of the times that the program gives.
Top == CHOOSE v \in Times : \A w \in Times : w <= v

LEMMA TopIsLongest ==
  ASSUME Room
  PROVE  Top \in Times /\ (\A w \in Times : w <= Top) /\ Top + 2 * Speed < TICKS
<1> DEFINE Less == {ss \in Nat \X Nat : ss[1] < ss[2]}
           Left == {TICKS - 1 - v : v \in Times}
<1>1. Times \subseteq 0 .. TICKS - 1 /\ TICKS \in Nat
  BY TimesAssumption, TicksAssumption DEF Tick
<1>2. Left \subseteq Nat /\ Left # {}
  <2>1. ASSUME NEW v \in Times
        PROVE  TICKS - 1 - v \in Nat
    BY <1>1
  <2>2. Left # {}
    BY TimesAssumption
  <2> QED BY <2>1, <2>2
<1>3. IsWellFoundedOn(Less, Nat)
  BY NatLessThanWellFounded DEF OpToRel
<1>4. PICK least \in Left : \A m \in Left : ~(<<m, least>> \in Less)
  <2> HIDE DEF Less, Left
  <2> QED BY <1>2, <1>3, WFMin
<1>5. PICK top \in Times : least = TICKS - 1 - top
  OBVIOUS
<1>6. ASSUME NEW w \in Times
      PROVE  w <= top
  <2>1. TICKS - 1 - w \in Left /\ TICKS - 1 - w \in Nat /\ least \in Nat
    BY <1>2
  <2>2. TICKS - 1 - w < least => <<TICKS - 1 - w, least>> \in Less
    BY <2>1
  <2>3. ~(TICKS - 1 - w < least)
    BY <1>4, <2>1, <2>2
  <2>4. w \in Int /\ top \in Int /\ TICKS \in Int
    BY <1>1
  <2> HIDE DEF Less, Left
  <2> QED BY <1>5, <2>3, <2>4
<1>7. \A v, w \in Times : v <= w /\ w <= v => v = w
  BY <1>1
<1>8. Top = top
  <2> HIDE DEF Less, Left
  <2> QED BY <1>6, <1>7 DEF Top
<1> QED BY <1>6, <1>8 DEF Room

\* The longest time of a delay leaves room in the counter.
LEMMA LongestFits ==
  ASSUME Room, DelayInv, NEW t \in Thread, delay[t].time \in Times
  PROVE  /\ Longest(t) \in Nat /\ Longest(t) + 2 * Speed < TICKS
         /\ lc[t] = "delay" => offset <= Longest(t)
         /\ lc[t] # "delay" => Longest(t) = delay[t].time
<1>1. Times \subseteq Nat /\ Speed \in Nat /\ TICKS \in Nat
  BY TimesAssumption, BoundsAssumption, TicksAssumption DEF Tick
<1>2. Longest(t) = IF lc[t] = "delay" THEN Top ELSE delay[t].time
  BY DEF Longest, Top
<1>3. Longest(t) \in Times /\ Longest(t) <= Top
  BY <1>1, <1>2, TopIsLongest
<1>4. Longest(t) \in Nat /\ Top \in Nat /\ Top + 2 * Speed < TICKS
  BY <1>1, <1>3, TopIsLongest
<1>5. Longest(t) + 2 * Speed < TICKS
  BY <1>1, <1>3, <1>4
<1>6. offset \in Times
  BY DEF DelayInv, DataTypes, DelayTypes
<1> QED BY <1>2, <1>4, <1>5, <1>6, TopIsLongest

\* A thread that a step leaves alone in its turn.
LEMMA TurnStays ==
  ASSUME NEW t \in Thread, TurnOf(t), delay'[t] = delay[t], lc'[t] = lc[t], lag' = lag,
         next' = next, Pending(t) => Pending(t)'
  PROVE  TurnOf(t)'
<1>1. Places(t)' = Places(t) /\ Now' = Now /\ Longest(t)' = Longest(t)
  BY DEF Places, Now, Longest
<1>2. Served(t)' => Served(t)
  BY <1>1 DEF Served
<1> QED BY <1>1, <1>2 DEF TurnOf

\* Who is called has a place in main's loop, and it is the one whose turn it is.
LEMMA CalledHasPlace == ASSUME DelayInv, calls # <<>> PROVE Places(Me) # {}
  BY WhoIsCalled DEF DelayInv, ThreadInv, Places

\* Nobody is about to check a delay outside of a check.
LEMMA NonePending ==
  ASSUME DelayInv, NEW t \in Thread, calls = <<>> \/ at \notin DelayLabel \cup {"child"}
  PROVE  ~Pending(t)
  BY DEF Pending

\* The body of a function: the thread that runs it is in no delay.
LEMMA BodyKeepsTurn ==
  ASSUME DelayInv, TurnOK, At("body"), lag' = lag, next' = next, delay' = delay,
         \A t \in Thread : Delaying(t) => lc'[t] = lc[t]
  PROVE  TurnOK'
<1> SUFFICES ASSUME NEW t \in Thread, Delaying(t)'
             PROVE  TurnOf(t)'
  BY DEF TurnOK
<1>1. Delaying(t) /\ TurnOf(t) /\ lc'[t] = lc[t]
  BY DEF Delaying, TurnOK
<1>2. ~Pending(t)
  BY NonePending DEF At, DelayLabel
<1> QED BY <1>1, <1>2, TurnStays

\* A delay begins.
LEMMA DelayKeepsTurn ==
  ASSUME Room, DelayInv, TurnOK, At("body"), lag' = lag, next' = next, NEW v \in Times,
         delay' = [delay EXCEPT ![Me] = [gone |-> 0, time |-> v]],
         \A t \in Thread \ {Me} : lc'[t] = lc[t]
  PROVE  TurnOK'
<1>1. Me \in Thread /\ Places(Me) # {}
  BY WhoIsCalled, CalledHasPlace DEF At, DelayInv, ThreadInv
<1>2. delay \in [Thread -> [gone : -1 .. GoneMax, time : Tick]] /\ lag \in Nat /\ Speed \in Nat
  BY BoundsAssumption DEF DelayInv, DataTypes, DelayTypes, Clock
<1>3. ASSUME NEW t \in Thread, t # Me, Delaying(t)'
      PROVE  TurnOf(t)'
  <2>1. Delaying(t) /\ TurnOf(t) /\ delay'[t] = delay[t] /\ lc'[t] = lc[t]
    BY <1>1, <1>2, <1>3 DEF Delaying, TurnOK
  <2>2. ~Pending(t)
    BY NonePending DEF At, DelayLabel
  <2> QED BY <2>1, <2>2, TurnStays
<1>4. ASSUME NEW t \in Thread, t = Me
      PROVE  TurnOf(t)'
  <2>1. delay'[t] = [gone |-> 0, time |-> v]
    BY <1>2, <1>4
  <2>2. delay'[t].gone = 0 /\ delay'[t].time \in Times
    BY <2>1
  <2>3. Longest(t)' \in Nat
    <3>1. Longest(t)' = IF lc'[t] = "delay" THEN Top ELSE delay'[t].time
      BY DEF Longest, Top
    <3>2. Longest(t)' \in Times
      BY <2>2, <3>1, TopIsLongest
    <3>3. Times \subseteq Nat
      BY TimesAssumption, TicksAssumption DEF Tick
    <3> QED BY <3>2, <3>3
  <2>4. Places(t)' # {}
    BY <1>1, <1>4 DEF Places
  <2> QED BY <1>2, <2>2, <2>3, <2>4 DEF TurnOf
<1> QED BY <1>3, <1>4 DEF TurnOK

\* A check: a delay goes on only if its time has not passed, or it ends.
LEMMA CheckKeepsTurn ==
  ASSUME Room, DelayInv, TimeOK, TurnOK, NEW p \in DelayLabel, NEW time, ResumeDelay(p, time),
         time = IF p = "delay" THEN offset ELSE static[Code[Me]].p
  PROVE  TurnOK'
<1>1. Me \in Thread /\ lc[Me] = p /\ at = p /\ calls # <<>>
  BY WhoIsCalled, NoBodyLabel, LabelsDiffer
     DEF ResumeDelay, Resume, At, DelayInv, ThreadInv, LabelsOK, DelayLabel
<1>2. delay \in [Thread -> [gone : -1 .. GoneMax, time : Tick]] /\ lag \in Nat /\ Speed \in Nat
      /\ lag <= Speed
  BY BoundsAssumption DEF DelayInv, DataTypes, DelayTypes, Clock
<1>3. UNCHANGED <<lc, lag, next>>
  BY DEF ResumeDelay, Resume
<1>4. ASSUME NEW t \in Thread, t # Me, Delaying(t)'
      PROVE  TurnOf(t)'
  <2>1. delay'[t] = delay[t]
    BY <1>1, <1>2, <1>4 DEF ResumeDelay
  <2>2. Delaying(t) /\ TurnOf(t)
    BY <1>4, <2>1 DEF Delaying, TurnOK
  <2>3. ~Pending(t)
    BY <1>1, <1>4 DEF Pending, DelayLabel
  <2> QED BY <1>3, <2>1, <2>2, <2>3, TurnStays
<1>5. ASSUME NEW t \in Thread, t = Me, Delaying(t)'
      PROVE  TurnOf(t)'
  <2>1. delay' = delay /\ NotOver(static[Code[t]].from, time)
    BY <1>1, <1>2, <1>5 DEF ResumeDelay, Delaying
  <2>2. Delaying(t) /\ TurnOf(t) /\ TimeOf(t)
    BY <1>5, <2>1 DEF Delaying, TurnOK, TimeOK
  <2>3. delay[t].time \in Times /\ delay[t].gone \in Int /\ delay[t].gone <= Longest(t) + Speed + lag
    BY <1>2, <2>2 DEF TurnOf
  <2>4. /\ Longest(t) \in Nat /\ Longest(t) + 2 * Speed < TICKS
        /\ lc[t] = "delay" => offset <= Longest(t)
        /\ lc[t] # "delay" => Longest(t) = delay[t].time
    BY <2>3, LongestFits
  <2>5. delay[t].gone < TICKS
    BY <1>2, <2>3, <2>4, TicksAssumption
  <2>6. delay[t].gone <= time
    BY <2>1, <2>2, <2>5 DEF NotOver, TimeOf, ticker_get
  <2>7. \/ time = offset /\ lc[t] = "delay"
        \/ time = delay[t].time /\ lc[t] # "delay"
    <3>1. lc[t] = "delay" => time = offset
      BY <1>1, <1>5
    <3>2. lc[t] # "delay" => lc[t] = "delay_f" /\ time = static[Code[t]].p
      BY <1>1, <1>5 DEF DelayLabel
    <3>3. lc[t] = "delay_f" => static[Code[t]].p = delay[t].time
      BY <2>2 DEF TimeOf
    <3> QED BY <3>1, <3>2, <3>3
  <2>8. offset \in Int /\ delay[t].time \in Int
    BY <2>3, TimesAssumption, TicksAssumption DEF DelayInv, DataTypes, DelayTypes, Tick
  <2>9. delay[t].gone <= Longest(t)
    BY <2>3, <2>4, <2>6, <2>7, <2>8
  <2>10. Places(t)' = Places(t) /\ Longest(t)' = Longest(t)
    BY <1>3, <2>1 DEF Places, Longest
  <2> QED BY <1>2, <1>3, <2>1, <2>2, <2>3, <2>4, <2>9, <2>10 DEF TurnOf
<1> QED BY <1>4, <1>5 DEF TurnOK

\* Main calls a thread: if it, or its child, is in a delay, the check comes.
LEMMA ScheduleKeepsTurn == ASSUME Room, DelayInv, TurnOK, Schedule PROVE TurnOK'
<1>1. /\ calls = <<>> /\ UNCHANGED <<lc, delay>> /\ next \in DOMAIN Order
      /\ calls' = Append(<<>>, Order[next])
      /\ at' = IF lc[Order[next]] = "start" THEN "body" ELSE lc[Order[next]]
      /\ next' = IF next = Len(Order) THEN 1 ELSE next + 1
      /\ lag' = IF next = 1 THEN 0 ELSE lag
  BY DEF Schedule, PT_BEGIN, dataVars, DelayInv, ThreadInv, ThreadTypes
<1>2. /\ Order \in Seq(Thread) /\ Len(Order) \in Nat /\ next \in 1 .. Len(Order)
      /\ DOMAIN Order = 1 .. Len(Order)
  BY <1>1, ThreadsAssumption
<1>3. Now' = next
  BY <1>1, <1>2 DEF Now
<1>4. calls' = <<Order[next]>> /\ calls' # <<>> /\ Me' = Order[next]
  BY <1>1, <1>2 DEF Me
<1>5. lag \in Nat /\ Speed \in Nat /\ lag <= Speed
  BY BoundsAssumption DEF DelayInv, DataTypes, Clock
<1> SUFFICES ASSUME NEW t \in Thread, Delaying(t)'
             PROVE  TurnOf(t)'
  BY DEF TurnOK
<1>6. Delaying(t) /\ TurnOf(t)
  BY <1>1 DEF Delaying, TurnOK
<1>7. delay[t].gone \in Int /\ Longest(t) \in Nat
  <2>1. delay[t] \in [gone : -1 .. GoneMax, time : Tick] /\ GoneMax \in Int
    BY TicksAssumption DEF DelayInv, DataTypes, DelayTypes, GoneMax
  <2> QED BY <1>6, <2>1, LongestFits DEF TurnOf
<1>8. next \in Places(t) => Pending(t)'
  <2>1. CASE t = Order[next]
    <3>1. lc[t] \in DelayLabel
      BY <1>6 DEF DelayInv, WhereOK
    <3> QED BY <1>1, <1>4, <2>1, <3>1 DEF Pending, DelayLabel
  <2>2. CASE Order[next] \in DOMAIN Child /\ t = Child[Order[next]]
    <3>1. lc[Order[next]] = "child"
      BY <1>6, <2>2 DEF DelayInv, WhereOK
    <3> QED BY <1>1, <1>4, <2>2, <3>1 DEF Pending
  <2> QED BY <2>1, <2>2 DEF Places
<1>9. ~Pending(t)
  BY <1>1 DEF Pending
<1>10. Places(t)' = Places(t) /\ Longest(t)' = Longest(t) /\ delay'[t] = delay[t]
  BY <1>1 DEF Places, Longest
<1>11. Served(t)' => \E n \in Places(t) : n < next
  BY <1>3, <1>8, <1>10 DEF Served
<1>12. CASE next = 1
  <2>1. ~Served(t)'
    BY <1>2, <1>11, <1>12 DEF Places
  <2>2. Now = Len(Order) /\ Served(t)
    <3>1. Now = Len(Order)
      BY <1>12 DEF Now
    <3>2. PICK n \in Places(t) : TRUE
      BY <1>6 DEF TurnOf
    <3>3. n \in 1 .. Len(Order)
      BY <1>2 DEF Places
    <3>4. Len(Order) \in Nat
      BY <1>2
    <3>5. n < Len(Order) \/ n = Len(Order)
      BY <3>3, <3>4
    <3> QED BY <1>9, <3>1, <3>5 DEF Served
  <2>3. delay[t].gone <= Longest(t) + lag /\ lag' = 0
    BY <1>1, <1>6, <1>12, <2>2 DEF TurnOf
  <2>4. delay[t].gone <= Longest(t) + Speed + lag'
    BY <1>5, <1>7, <2>3
  <2> QED BY <1>6, <1>10, <2>1, <2>4 DEF TurnOf
<1>13. CASE next # 1
  <2>1. Served(t)' => Served(t)
    <3>1. ASSUME NEW n \in Places(t), n < next
          PROVE  n < Now \/ n = Now
      BY <1>2, <1>13, <3>1 DEF Now, Places
    <3> QED BY <1>9, <1>11, <3>1 DEF Served
  <2>2. lag' = lag
    BY <1>1, <1>13
  <2> QED BY <1>6, <1>10, <2>1, <2>2 DEF TurnOf
<1> QED BY <1>12, <1>13

\* A tick.
LEMMA TickKeepsTurn == ASSUME Room, DelayInv, TurnOK, Interrupt PROVE TurnOK'
<1> SUFFICES ASSUME NEW t \in Thread, Delaying(t)'
             PROVE  TurnOf(t)'
  BY DEF TurnOK
<1>1. UNCHANGED <<lc, calls, at, next>> /\ lag' = lag + 1
  BY DEF Interrupt, threadVars
<1>2. /\ delay'[t] = IF Delaying(t) /\ delay[t].gone < GoneMax
                     THEN [delay[t] EXCEPT !.gone = @ + 1] ELSE delay[t]
      /\ delay[t] \in [gone : -1 .. GoneMax, time : Tick]
      /\ lag \in Nat /\ Speed \in Nat /\ GoneMax \in Int
  BY BoundsAssumption, TicksAssumption
     DEF Interrupt, DelayInv, DataTypes, DelayTypes, Clock, GoneMax
<1>3. Delaying(t)
  BY <1>2 DEF Delaying
<1>4. TurnOf(t)
  BY <1>3 DEF TurnOK
<1>5. delay[t].gone \in Int /\ delay'[t].gone <= delay[t].gone + 1 /\ delay'[t].gone \in Int
      /\ delay'[t].time = delay[t].time
  BY <1>2
<1>6. Places(t)' = Places(t) /\ Longest(t)' = Longest(t) /\ (Served(t)' <=> Served(t))
  BY <1>1, <1>5 DEF Places, Longest, Served, Pending, Now, Me
<1>7. Longest(t) \in Nat
  BY <1>4, LongestFits DEF TurnOf
<1>8. delay'[t].gone <= Longest(t) + Speed + lag'
  BY <1>1, <1>2, <1>4, <1>5, <1>7 DEF TurnOf
<1>9. Served(t) => delay'[t].gone <= Longest(t) + lag'
  BY <1>1, <1>2, <1>4, <1>5, <1>7 DEF TurnOf
<1> QED BY <1>4, <1>5, <1>6, <1>8, <1>9 DEF TurnOf

\* One step for each action.
LEMMA NextTurnOK ==
  ASSUME Room, DelayInv, TimeOK, TurnOK, [Next]_vars
  PROVE  TurnOK'
<1>0. calls # <<>> => Me \in Thread
  BY WhoIsCalled DEF DelayInv, ThreadInv
<1>1. lc \in [Thread -> Label]
  BY DEF DelayInv, ThreadInv, ThreadTypes
<1>2. ASSUME At("body"), UNCHANGED <<lag, next, delay>>,
             \A t \in Thread \ {Me} : Delaying(t) => lc'[t] = lc[t]
      PROVE  TurnOK'
  <2>1. ~Delaying(Me)
    BY <1>0, <1>2 DEF At, DelayInv, WhereOK, InBody
  <2> QED BY <1>2, <2>1, BodyKeepsTurn
<1>3. ASSUME UNCHANGED <<lc, lag, next, delay>>,
             \A t \in Thread : Delaying(t) /\ Pending(t) => Pending(t)'
      PROVE  TurnOK'
  <2> SUFFICES ASSUME NEW t \in Thread, Delaying(t)'
               PROVE  TurnOf(t)'
    BY DEF TurnOK
  <2>1. Delaying(t) /\ TurnOf(t)
    BY <1>3 DEF Delaying, TurnOK
  <2> QED BY <1>3, <2>1, TurnStays
<1>4. CASE Schedule
  BY <1>4, ScheduleKeepsTurn
<1>5. CASE PT_DELAY
  <2>1. At("body") /\ UNCHANGED <<lag, next>> /\ \A t \in Thread \ {Me} : lc'[t] = lc[t]
    BY <1>1, <1>5 DEF PT_DELAY, Begin, LC_SET
  <2>2. offset \in Times /\ delay' = [delay EXCEPT ![Me] = [gone |-> 0, time |-> offset]]
    BY <1>5 DEF PT_DELAY, DelayInv, DataTypes, DelayTypes
  <2> QED BY <2>1, <2>2, DelayKeepsTurn
<1>6. ASSUME NEW v \in Times, PT_DELAY_F(v)
      PROVE  TurnOK'
  <2>1. At("body") /\ UNCHANGED <<lag, next>> /\ \A t \in Thread \ {Me} : lc'[t] = lc[t]
    BY <1>1, <1>6 DEF PT_DELAY_F, Begin, LC_SET
  <2>2. delay' = [delay EXCEPT ![Me] = [gone |-> 0, time |-> v]]
    BY <1>6 DEF PT_DELAY_F
  <2> QED BY <2>1, <2>2, DelayKeepsTurn
<1>7. ASSUME NEW v \in Times, SetOffset(v)
      PROVE  TurnOK'
  BY <1>2, <1>7 DEF SetOffset, Begin
<1>8. ASSUME NEW s \in Sem, PT_SEM_WAIT(s)
      PROVE  TurnOK'
  BY <1>1, <1>2, <1>8 DEF PT_SEM_WAIT, Begin, LC_SET, dataVars
<1>9. ASSUME NEW s \in Sem, PT_SEM_SIGNAL(s)
      PROVE  TurnOK'
  BY <1>2, <1>9 DEF PT_SEM_SIGNAL, Begin, dataVars
<1>10. CASE PT_WAIT_UNTIL
  BY <1>1, <1>2, <1>10 DEF PT_WAIT_UNTIL, Begin, LC_SET, dataVars
<1>11. CASE PT_YIELD \/ PT_YIELD_UNTIL
  BY <1>1, <1>2, <1>11 DEF PT_YIELD, PT_YIELD_UNTIL, Yield, dataVars
<1>12. CASE PT_SPAWN
  <2>1. At("body") /\ UNCHANGED <<lag, next, delay>> /\ Me \in DOMAIN Child
        /\ lc' = [lc EXCEPT ![Child[Me]] = "start", ![Me] = "child"]
    BY <1>12 DEF PT_SPAWN, Begin, dataVars
  <2>2. ~Delaying(Child[Me])
    BY <2>1 DEF At, DelayInv, WhereOK, InBody
  <2>3. \A t \in Thread \ {Me} : Delaying(t) => lc'[t] = lc[t]
    BY <1>1, <2>1, <2>2
  <2> QED BY <1>2, <2>1, <2>3
<1>13. CASE PT_RESTART \/ PT_EXIT \/ PT_END
  BY <1>1, <1>2, <1>13 DEF PT_RESTART, PT_EXIT, PT_END, Leave, PT_INIT, dataVars
<1>14. CASE CheckDelay
  <2>1. ResumeDelay("delay", offset) /\ "delay" \in DelayLabel
    BY <1>14 DEF CheckDelay, DelayLabel
  <2> QED BY <2>1, CheckKeepsTurn
<1>15. CASE CheckDelayF
  <2>1. ResumeDelay("delay_f", static[Code[Me]].p) /\ "delay_f" \in DelayLabel
    BY <1>15 DEF CheckDelayF, DelayLabel
  <2> QED BY <2>1, CheckKeepsTurn
<1>16. ASSUME NEW p \in Label \ (DelayLabel \cup {"child"}), NEW passes, Resume(p, passes),
              UNCHANGED delay
       PROVE  TurnOK'
  <2>1. at = p /\ UNCHANGED <<lc, lag, next>>
    BY <1>16 DEF Resume, At
  <2>2. \A t \in Thread : ~Pending(t)
    BY <2>1, NonePending
  <2> QED BY <1>3, <1>16, <2>1, <2>2
<1>17. ASSUME NEW s \in Sem, CheckSem(s)
       PROVE  TurnOK'
  <2>1. s \in Label \ (DelayLabel \cup {"child"})
    BY LabelsDiffer DEF DelayLabel
  <2> QED BY <1>16, <1>17, <2>1 DEF CheckSem, dataVars
<1>18. ASSUME NEW condition \in BOOLEAN, CheckWait(condition) \/ CheckYield(condition)
       PROVE  TurnOK'
  <2>1. {"wait_until", "yield", "yield_until"} \subseteq Label \ (DelayLabel \cup {"child"})
    BY DEF Label, Macro, DelayLabel
  <2> QED BY <1>16, <1>18, <2>1 DEF CheckWait, CheckYield, dataVars
<1>19. CASE CheckChild
  <2>1. /\ calls # <<>> /\ at = "child" /\ UNCHANGED <<lc, lag, next, delay>>
        /\ PT_BEGIN(Child[Me])
    BY <1>19 DEF CheckChild, At, dataVars
  <2>2. Me \in DOMAIN Child /\ Child[Me] \in Thread
    <3>1. Me \in Thread /\ lc[Me] = "child"
      BY <1>0, <2>1 DEF DelayInv, ThreadInv, LabelsOK
    <3>2. Me \in DOMAIN Child
      BY <3>1 DEF DelayInv, ThreadInv, LabelsOK
    <3> QED BY <3>2, ThreadsAssumption
  <2>3. Me' = Child[Me] /\ calls' # <<>>
    <3>1. UNCHANGED <<lc, begun>> /\ next' \in DOMAIN Order /\ At("child")
      BY <1>19 DEF CheckChild, DelayInv, ThreadInv, ThreadTypes
    <3> QED BY <2>1, <2>2, <3>1, BeginKeepsThreads DEF DelayInv
  <2>4. ASSUME NEW t \in Thread, Delaying(t), Pending(t)
        PROVE  Pending(t)'
    <3>1. t = Child[Me]
      BY <2>1, <2>4 DEF Pending, DelayLabel
    <3>2. lc[t] \in DelayLabel
      BY <2>4 DEF DelayInv, WhereOK
    <3>3. at' \in DelayLabel
      BY <2>1, <3>1, <3>2 DEF PT_BEGIN, DelayLabel
    <3> QED BY <2>3, <3>1, <3>3 DEF Pending, DelayLabel
  <2> QED BY <1>3, <2>1, <2>4
<1>20. CASE StartStop \/ UNCHANGED vars
  <2>1. UNCHANGED <<lc, calls, at, lag, next, delay>>
    BY <1>20 DEF StartStop, vars, threadVars, dataVars
  <2>2. \A t \in Thread : Pending(t)' <=> Pending(t)
    BY <2>1 DEF Pending, Me
  <2> QED BY <1>3, <2>1, <2>2
<1>21. CASE Interrupt
  BY <1>21, TickKeepsTurn
<1> QED
  BY <1>4, <1>5, <1>6, <1>7, <1>8, <1>9, <1>10, <1>11, <1>12, <1>13, <1>14, <1>15, <1>17, <1>18,
     <1>19, <1>20, <1>21 DEF Next, Operation, Check

\* What the turns say of each delay.
LEMMA TurnsEnd == ASSUME Room, DelayInv, TurnOK PROVE EndsInTime
<1> SUFFICES ASSUME NEW t \in Thread, Delaying(t)
             PROVE  delay[t].gone <= Longest(t) + 2 * Speed
  BY DEF EndsInTime
<1>1. TurnOf(t)
  BY DEF TurnOK
<1>2. Longest(t) \in Nat
  BY <1>1, LongestFits DEF TurnOf
<1>3. delay[t].gone \in Int /\ lag \in Nat /\ Speed \in Nat /\ lag <= Speed
  <2>1. delay[t] \in [gone : -1 .. GoneMax, time : Tick] /\ GoneMax \in Int
    BY TicksAssumption DEF DelayInv, DataTypes, DelayTypes, GoneMax
  <2> QED BY <2>1, BoundsAssumption DEF DelayInv, DataTypes, Clock
<1> QED BY <1>1, <1>2, <1>3 DEF TurnOf

LEMMA InitTurnOK == Init => TurnOK
  BY DEF Init, TurnOK, Delaying

-----------------------------------------------------------------------------
(***************************************************************************)
(* The units of the semaphores.                                            *)
(***************************************************************************)
\* A unit leaves one place for another, and only that.
LEMMA MoveCounts ==
  ASSUME SemTypes, NEW x \in Sem \cup Thread, NEW y \in Sem \cup Thread, x # y, Move(x, y),
         In(x) # {}
  PROVE  /\ Cardinality(In(x)') = Cardinality(In(x)) - 1
         /\ Cardinality(In(y)') = Cardinality(In(y)) + 1
         /\ \A z : z # x /\ z # y => In(z)' = In(z)
<1> DEFINE u == CHOOSE v \in In(x) : TRUE
<1>1. u \in Unit /\ place[u] = x
  BY DEF In
<1>2. place' = [place EXCEPT ![u] = y]
  BY DEF Move
<1> HIDE DEF u
<1>3. /\ In(x)' = In(x) \ {u} /\ u \in In(x)
      /\ In(y)' = In(y) \cup {u} /\ u \notin In(y)
      /\ \A z : z # x /\ z # y => In(z)' = In(z)
  BY <1>1, <1>2 DEF In, SemTypes
<1>4. IsFiniteSet(In(x)) /\ IsFiniteSet(In(y))
  BY UnitsAssumption, FS_Subset DEF In
<1>5. Cardinality(In(x) \ {u}) = Cardinality(In(x)) - 1
  BY <1>3, <1>4, FS_RemoveElement
<1>6. Cardinality(In(y) \cup {u}) = Cardinality(In(y)) + 1
  BY <1>3, <1>4, FS_AddElement
<1> QED BY <1>3, <1>5, <1>6

LEMMA NextUnitsCounted ==
  ASSUME ThreadInv, DataTypes, UnitsCounted, [Next]_vars
  PROVE  UnitsCounted'
<1>1. calls # <<>> => Me \in Thread /\ Me \notin Sem
  BY WhoIsCalled, UnitsAssumption DEF ThreadInv
<1>2. ASSUME UNCHANGED semVars
      PROVE  UnitsCounted'
  BY <1>2 DEF UnitsCounted, semVars, In
<1>3. ASSUME NEW s \in Sem, CheckSem(s)
      PROVE  UnitsCounted'
  <2>1. calls # <<>>
    BY <1>3 DEF CheckSem, Resume, At
  <2>2. CASE count[s] > 0
    <3>1. count' = [count EXCEPT ![s] = @ - 1] /\ Move(s, Me)
      BY <1>3, <2>2 DEF CheckSem
    <3>2. In(s) # {}
      BY <2>2, FS_EmptySet DEF UnitsCounted
    <3>3. PICK m \in Thread : m = Me /\ m \notin Sem
      BY <1>1, <2>1
    <3>4. /\ Cardinality(In(s)') = Cardinality(In(s)) - 1
          /\ \A z \in Sem \ {s} : In(z)' = In(z)
      BY <3>1, <3>2, <3>3, MoveCounts DEF DataTypes
    <3> QED BY <3>1, <3>4 DEF UnitsCounted, DataTypes, SemTypes
  <2>3. CASE ~(count[s] > 0)
    BY <1>2, <1>3, <2>3 DEF CheckSem
  <2> QED BY <2>2, <2>3
<1>4. ASSUME NEW s \in Sem, PT_SEM_SIGNAL(s)
      PROVE  UnitsCounted'
  <2>1. PICK m \in Thread : m = Me /\ m \notin Sem
    BY <1>1, <1>4 DEF PT_SEM_SIGNAL, Begin, At
  <2>2. /\ Cardinality(In(s)') = Cardinality(In(s)) + 1
        /\ \A z \in Sem \ {s} : In(z)' = In(z)
    BY <1>4, <2>1, MoveCounts DEF PT_SEM_SIGNAL, DataTypes
  <2> QED BY <1>4, <2>2 DEF PT_SEM_SIGNAL, UnitsCounted, DataTypes, SemTypes
<1>5. ASSUME NEW s \in Sem, PT_SEM_WAIT(s)
      PROVE  UnitsCounted'
  BY <1>2, <1>5 DEF PT_SEM_WAIT
<1>6. ASSUME NEW v \in Times, PT_DELAY_F(v) \/ SetOffset(v)
      PROVE  UnitsCounted'
  BY <1>2, <1>6 DEF PT_DELAY_F, SetOffset
<1>7. ASSUME NEW condition \in BOOLEAN, CheckWait(condition) \/ CheckYield(condition)
      PROVE  UnitsCounted'
  BY <1>2, <1>7 DEF CheckWait, CheckYield
<1>8. CASE PT_DELAY \/ PT_WAIT_UNTIL \/ PT_SPAWN \/ PT_YIELD \/ PT_YIELD_UNTIL
  BY <1>2, <1>8 DEF PT_DELAY, PT_WAIT_UNTIL, PT_SPAWN, PT_YIELD, PT_YIELD_UNTIL, Yield
<1>9. CASE PT_RESTART \/ PT_EXIT \/ PT_END
  BY <1>2, <1>9 DEF PT_RESTART, PT_EXIT, PT_END, Leave
<1>10. CASE CheckDelay \/ CheckDelayF \/ CheckChild
  BY <1>2, <1>10 DEF CheckDelay, CheckDelayF, ResumeDelay, CheckChild
<1>11. CASE Schedule \/ StartStop \/ Interrupt \/ UNCHANGED vars
  BY <1>2, <1>11 DEF Schedule, StartStop, Interrupt, vars
<1> QED BY <1>3, <1>4, <1>5, <1>6, <1>7, <1>8, <1>9, <1>10, <1>11 DEF Next, Operation, Check

-----------------------------------------------------------------------------
\* The inductive invariant of the threads and their delays: pt.h, lc-switch.h
\* and pt-delay.h.
THEOREM DelayInvariance == Spec => []DelayInv
<1>1. Init => DelayInv
  BY InitThreadInv, InitDataTypes, InitWhereOK DEF DelayInv
<1>2. DelayInv /\ [Next]_vars => DelayInv'
  BY NextThreadInv, NextDataTypes, NextWhereOK DEF DelayInv
<1> QED BY <1>1, <1>2, PTL DEF Spec

\* Type correctness of the threads, delays and semaphores.
THEOREM TypeCorrect == Spec => []TypeOK
<1>1. DelayInv => TypeOK
  BY TypeParts DEF DelayInv
<1> QED BY <1>1, DelayInvariance, PTL

\* pt-delay.h: provided that no two threads run the same function, a thread
\* waits at least the time it gave, for every width of the counter, any number
\* of threads and whatever they do meanwhile.
THEOREM DelaysLast == ASSUME OwnFunctions PROVE Spec => NeverShort
<1>1. Init => TimeOK
  BY InitTimeOK
<1>2. DelayInv /\ TimeOK /\ [Next]_vars => TimeOK'
  BY NextTimeOK
<1>3. DelayInv /\ TimeOK /\ [Next]_vars
        => [\A t \in Thread : Delaying(t) /\ ~Delaying(t)'
              => delay[t].gone > IF lc[t] = "delay" THEN offset ELSE delay[t].time]_vars
  BY NoStepIsShort
<1> QED BY <1>1, <1>2, <1>3, DelayInvariance, PTL DEF Spec, NeverShort

\* pt-delay.h and pt.h: provided that no two threads run the same function and
\* that each time leaves room in the counter for the ticks of two turns of
\* main's loop, a delay lasts at most its time and those two turns: no turn
\* of the counter passes unseen, and a changed time is seen at the next check.
THEOREM DelaysEnd == ASSUME OwnFunctions, Room PROVE Spec => []EndsInTime
<1>1. Init => TimeOK /\ TurnOK
  BY InitTimeOK, InitTurnOK
<1>2. DelayInv /\ TimeOK /\ TurnOK /\ [Next]_vars => TimeOK' /\ TurnOK'
  BY NextTimeOK, NextTurnOK
<1>3. DelayInv /\ TurnOK => EndsInTime
  BY TurnsEnd
<1> QED BY <1>1, <1>2, <1>3, DelayInvariance, PTL DEF Spec

\* pt-sem.h: a semaphore counts the units that are free, so a thread that
\* passes has taken one that no other has.
THEOREM UnitsKept == Spec => []UnitsCounted
<1>1. Init => UnitsCounted
  BY DEF Init, PT_SEM_INIT, UnitsCounted
<1>2. DelayInv /\ UnitsCounted /\ [Next]_vars => UnitsCounted'
  BY NextUnitsCounted DEF DelayInv
<1> QED BY <1>1, <1>2, DelayInvariance, PTL DEF Spec
=============================================================================
