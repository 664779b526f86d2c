# A TLA+ verification of libaire

libaire is a C library for the AVR microcontroller of the Arduino board
(`src/`, sources in `src/src/`, documentation in `src/doc/source/`).  It has no
operating system and no threads: one program runs in `main`, and interrupt
routines come between any two of its instructions.  Nearly all of the library
is state shared between those two, some of it protected by `ATOMIC_BLOCK` and
some by an argument in a comment.  That is what this project models, checks
with TLC and proves with TLAPS.

Line numbers below refer to `src/src/` unless a path is given.

## 1. Inventory

| Component | State it keeps | Operations | Shared with |
|---|---|---|---|
| **i2c driver** `i2c.c`, `i2c.h`, `i2cr.h` | `ida_state`, `current_req`, `i`, the queue `requests`; status variables and buffers of the users | `i2c_open/close/swamped/send/receive/sandr/send_uint8/send_2uint8/send_uint16/receive_uint8`; the automaton `ida_next` | main, user code in other interrupts, `TWI_vect`, the TWI peripheral |
| **i2c queue** `i2cq.c` | a circular array of `I2CQ_L` requests, one cell always free | empty, enqueue, dequeue, front, is_empty, is_full | the i2c driver |
| **serial port** `serial.c` | `inq`, `outq`, the enable bits of `UCSR0B` | setup, open, close, read, write, write_s, write_eol, can_read, can_write | main, `USART_RX_vect`, `USART_UDRE_vect`, the USART |
| **byte queue** `queue.c` | as the i2c queue, with bytes; every operation in an atomic block | as the i2c queue | serial |
| **switch** `switch.c` | a table of slots (`used`, `sampling`, `state`, `changed`, `d_history`, pin), `on_sampling`, `TIMSK0` | bind, unbind, poll, poll_wait, ready, closed, changed | main, `TIMER0_COMPA_vect`, the contacts |
| **adc** `adc.c` | `last_channel_used`, `sample_sum`, `num_samples`, `incompatible_refs`, the converter's registers | setup, bind, unbind, prepare, start_conversion, prepare_start, prep_start_get, start_oversample, converting, oversampling, get, get_oversample, `ADC_VALUE` | main, `ADC_vect`, the free-running converter |
| **timer** `timer.c` | the action, `TIMER1` | setup, set_action, arm_once, disarm, armed | main, the action, `TIMER1_COMPA_vect` |
| **ticker, delays** `ticker.c`, `pt-delay.h` | a 16-bit tick count; the statics of each delay | setup, start, stop, get; `PT_DELAY`, `PT_DELAY_F` | the threads of main, `TIMER2_COMPA_vect` |
| **pin** `pin.h`, `pin.c` | a port and a mask | bind, unbind, read, write, toggle | main and any interrupt that writes another pin of the port |
| **alert** `alert.c` | none | `alert_fatal`: interrupts off, blinks for ever | `adc_bind`, other drivers |
| **protothreads** `pt.h`, `lc*.h`, `pt-sem.h` | a line number per thread (`lc`), a counter per semaphore | init, begin, end, restart, exit, yield, yield_until, wait_until, spawn, schedule; init, wait and signal of a semaphore | the functions that main schedules in turn |
| **tests** `src/test/` | — | programs run by hand on a board | — |

### Interactions and hard behaviours

* **i2c.**  A call puts a request in the queue, and starts the automaton if it
  is Idle; from then on the TWI interrupt serves the queue.  Calls come from
  main and from other interrupt routines, so a call can be overtaken between
  the moment it writes `Running` and its atomic block.  The peripheral acts on
  its own after each order.  Hard: lost wake-ups, a request answered twice or in
  the name of another, orders out of step with the bus, the full queue, closing
  while the peripheral still works, bus errors at every operation.
* **serial.**  Main is the only consumer of `inq` and producer of `outq`, the
  interrupts do the reverse; the correctness of "test, then use" without a
  lock is argued in the note at the end of `serial.c`.  Both main and
  `USART_UDRE_vect` change `UCSR0B`, main by a read, a change and a write.
  Hard: stale tests, lost wake-up of the sender, lost register bits,
  closing while bytes are under way.
* **switch.**  Main and the timer interrupt both write `on_sampling`, the
  interrupt mask and the bit fields of a slot, which share one byte.  Hard: the
  timer stopping with a switch to sample, the torn byte, a slot used again.
* **adc.**  The converter runs freely, one conversion beginning by itself after
  another in trigger mode; main changes `ADCSRA` by a read and a write, and a 1
  written to the flag `ADIF` clears it.  Hard: conversions that began before
  the channel was selected, the last conversion that trigger mode leaves behind.
* **timer, pin.**  A compare flag left from before the arming, a two-byte action
  pointer read by the interrupt, an action that arms the timer itself, the
  read-modify-write of a port.
* **protothreads, delays, ticker.**  A thread is a function that returns
  wherever it waits and is resumed at a line number; it keeps nothing on the
  stack, and the start of a delay is a static of its function.  Ticks come
  between any two steps, also between two reads of the count.  Hard: the
  count going round during a delay, a thread that is scheduled too late to see
  the end of its delay, a child called by its parent only, a unit of a semaphore
  taken by two.

### What makes each component correct

* i2c: the automaton and the bus stay in step; the automaton sleeps exactly when
  there is nothing to do; every request gets exactly one answer, its own, in
  order; Success means that the message went over the bus; an error means that
  it happened; nothing is written outside the user's buffer; calls return and
  requests end.
* serial: bytes keep their order in both directions; none is lost when sending,
  and when receiving only those that find `inq` full; bytes in `outq` are sent;
  no register bit is undone; calls return.
* switch: the timer runs exactly while a switch is sampled; answers are stable
  until the next poll; polls are answered; edges are debounced.
* adc: a value is of the channel prepared and never the one to discard; a mean
  is of one channel; incompatible references are refused; answers come.
* timer: an action runs in time after each arming, through a whole pointer, and
  goes on if it arms the timer again.  Pin: a write to a pin changes no other
  pin.
* delays: a delay lasts at least its time, wrap-around or not, and ends as soon
  as the thread is scheduled after it.  Protothreads: a unit of a semaphore is
  with one thread at most, and nobody waits for ever for what is there.

## 2. Modules

```
I2cQueue            i2cq.c: operators on the queue structure
  I2cQueueProofs    enqueue appends, dequeue takes the head: for every length
  I2c               i2c.c: users, automaton, TWI peripheral, bus
    I2cProps        type, invariants, action properties, refinement, liveness
      I2cMC         instances for TLC      (i2c_*.cfg)
      I2cProofs     inductive invariant and theorems: automaton, bus, errors
        I2cServiceProofs  the ledger of answers, the refinement, the transfers
I2cService          abstract: a FIFO of requests, each answered once
Serial              serial.c over queue.c (INSTANCE I2cQueue), USART
  SerialProps, SerialMC                    (serial_*.cfg)
  SerialProofs      inductive invariant and theorems, both refinements
SerialChannel       abstract: one direction of the line
Switch, SwitchProps, SwitchMC              (switch_*.cfg)
  SwitchProofs      inductive invariant and theorems
Adc, AdcProps, AdcMC                       (adc_*.cfg)
  AdcProofs         the arithmetic; the converter, the mean, the references
Pin                 pin.c: the pins of a port, as read-modify-writes
  Timer             timer.c with an action that writes a pin
    TimerProps, TimerMC                    (timer_blink.cfg, pin_race.cfg)
    TimerProofs     inductive invariant and theorems
Ticker              ticker.c
  Protothreads      pt.h, lc-switch.h, pt-sem.h, pt-delay.h: threads under main
    ProtothreadsProps, ProtothreadsMC      (threads.cfg)
    ProtothreadsProofs  inductive invariant and theorems
```

**What is one action.**  An interrupt routine runs to its end without
interruption (none enables interrupts again), so it is one action.  A call from
main is cut wherever an interrupt could see or cause a difference: at each loop
that waits, each access to a register that an interrupt also writes, each queue
operation, each step outside an atomic block.  A body of `ATOMIC_BLOCK` is one
action.  `R |= b` on a register that an interrupt changes is two actions, the
read into a CPU register and the write.

**What the peripherals do** (TWI, USART, converter, and the slaves, lines and
contacts behind them) is not in the repository; it is modelled from how the
drivers use it, as separate actions that come at any moment, with the outcomes
the drivers' code distinguishes.  These definitions are marked external.

### I2c

`requests`, `ida_state`, `current_req`, `i` are the statics of `i2c.c`;
`cpu["main"]` and `cpu["isr"]` tell where main and a user's interrupt routine
are in a call; `twi` holds the bits of `TWCR`, the status and the operation under
way; `bus` tells what the bus is doing and what the transfer has carried.
`From<State>` are the branches of `ida_next`, and `fetch_or_idle`, `throw_*`
are named as in the code.  `SetRunning`, `EnterAtomic`, `Put` are the steps of
`put_request`.  `Put` is not enabled on a full queue: the loop there spins with
interrupts off.  A data byte is its position in the user's message, so a
byte lost, repeated or moved shows.

Users respect the obligations of `i2c.h:72-75` and `i2c.rst:49-51`: they call on
an open channel, do not reuse a status variable or a buffer that is Running, and
no interrupt routine calls while main is closing the channel.

### Serial

`Ring == INSTANCE I2cQueue` gives the algorithm that `queue.c` and
`i2cq.c` share.  `main.pc` is the next step of the call, `main.copy` the copy of
`UCSR0B` that main is about to write back.  A transmission has three places for
a byte after the queue: `UDR0` (`txbuf`), the shift register, the wire.  `has`
says which directions are compiled in (`serial.h:7-17`): both, or one of them;
the calls and the bits of the other do not exist then.  `main.todo` is what
a call still has to write, one sequence of bytes for each character, for
`serial_write_s` writes two bytes for a `'\n'`.

### Switch

`flags` are the bit fields of the slots, which main copies and writes back
outside an atomic block only at `slot->used = 0` (`main.copy`).  Of `d_history`
only the bits in the window are kept: the code masks the others away.  `fresh`
is not in the code: it counts the samples taken since the switch was bound.
The contacts (`Move`) may change at any moment.

### Adc

A result is where it came from (channel, reference) and whether the reference had
settled; `sample_sum` is the set of the results added up, which is what
"the mean of one channel" needs.  `ADCSRA` is a record of the four bits that
the code uses (`Control`).  The arithmetic of the mean is the operator
`adc_get_oversample`, and that of a reading `ADC_VALUE`: both are proved apart.
The first state is that before `adc_setup`, which makes a reading of its own.
A call that is made of others (`adc_prepare_start`, `adc_prep_start_get`, and
`adc_prepare` with its reading to discard) is a list of what is still to be done,
`main.then`; each part goes on with the next (`Continue`).  `rested` is an observer:
no conversion was running when main asked for its last mean.

### Pin and Timer

A register of a port is the set of the pins whose bit is 1.  An operation of
`pin.c` is a sequence of `R |= mask` and `R &= ~mask`, each a read and a write
(the port is known through a pointer, so the compiler cannot use the one
instruction that sets a bit).  In main an interrupt comes between the two; in an
interrupt routine nothing does (`WriteAtOnce`).  `written` is an observer: what
PORT should be after the operations called so far, each having changed its own
pin only.

`Timer` composes them the way `test/test_timer.c` and `test_timer2.c` do: main
sets the action, arms the timer and asks `timer_armed()`; the action sets, clears
or toggles the pin `Led` and, in `"again"`, arms the timer too.  Main sets actions and arms only when it
knows that the timer is not armed (`mine`).  `Pulse` is a pulse of the clock of
TIMER1, which runs armed or not.  Time is counted in whole pulses, so the reset
of the prescaler, which aligns the first one, is not modelled.  `count` (the
argument of the last `timer_arm_once`), `since` (the pulses since the counter was
cleared), `stale` and `wanted` are observers.

### Ticker and Protothreads

`ticks` and `OCIE2A` are the counter and the enable bit of `TIMER2`.  The counter
starts with any value, for neither `ticker_setup` nor `ticker_start` sets it.

`lc` is the local continuation of every thread, and a line number is the label of
the macro that stands there: two uses of one macro differ in nothing that the
properties see.  `calls` is the stack of the functions under way (a thread of
main's loop and perhaps the child it calls), `at` the label or the body where
the innermost is.  `PT_BEGIN` resumes, `Resume` is the code after a label that
waits, `Return` gives the value that `PT_SCHEDULE` tests, up to main.  `static`
are the statics of each delay, one per function as in the code, whichever
thread runs it; what they hold while no thread of the function is in a delay is
never read, and the model forgets it.  `offset` is the time of `PT_DELAY`, which
is read anew at every check; `PT_DELAY_F` keeps the time it was given.

What the functions do is not fixed: in its body a thread takes any of the macros
that `May` gives it, in any order, and yields after `Work` of them, since nothing
in the library makes it yield.  Whether a condition holds is the program's.  A
thread signals only for a unit that it has and ends with none, which is how
`pt-sem.h` uses a semaphore for exclusion and for a pool.  Ticks come between any two
steps, at most `Speed` in a turn of the scheduler.  `delay` and `place` are
observers: the ticks since a thread's delay began with the time given to it,
and where each unit is.

## 3. The runs

| Run | Expect | Instance | What it shows |
|---|---|---|---|
| `i2c_isr` | pass | a user in main (blocks, `i2c_sandr`, no-status sends), one in an interrupt (bytes), calls at any moment | the automaton stays awake and in step with the bus; every request gets exactly one answer, its own; the driver implements `I2cService` |
| `i2c_live` | pass | two users in main that ask `i2c_swamped()` | no call blocks, every request ends, `i2c_close` returns |
| `i2c_blocked` | violation | a user alone, in main, that asks `i2c_swamped()` and calls `i2c_sandr` too | a call on a full queue blocks for ever (`i2c.c:330`): here the second request of an `i2c_sandr` for which there was room for one (`i2c.c:430`) |
| `serial_order` | pass | every build; both directions busy, two byte values, open and close | each direction is a `SerialChannel`; tests stay valid; no lost wake-up; no lost register bit |
| `serial_live` | pass | all bytes alike | bytes go out, writes return with the queue full, close returns, in every build |
| `switch_poll` | pass | two slots, two pins | the timer runs exactly while needed; flags are never torn; answers stay; polls are answered |
| `switch_rebind` | violation | one slot, two pins | a slot bound again keeps the old samples (`switch.c:131`) |
| `adc_user` | pass | four channels over all the references, any query at any moment | values are of the prepared channel, so are means begun with the converter at rest; `adc_bind` stops the program exactly for an incompatible reference; answers come |
| `adc_mean` | violation | one channel, a mean right after preparing | the conversion to discard is in the mean (`adc.c:162`) |
| `timer_blink` | pass | actions that arm again or not and clear or toggle one pin of a port of two, while main sets, clears and toggles both | the interrupt calls a whole pointer, when the counter has gone past the count asked for, earlier only if the flag was set before the arming, never later; an action that arms again goes on; a pin is lost to a race of the two writers or to the toggle of another, to nothing else |
| `pin_race` | violation | main and the action set and clear different pins of a port | main writes back a port read before the action wrote its pin, which is lost (`pin.h:42`) |
| `threads` | pass | two threads with a unit between them, one with a child, both kinds of delay, the counter going round, the ticker stopped and started | no delay is short; each ends by its time and two turns; a unit is with one thread; nobody is left behind |

More departures are not runs of their own.  What they show is at the line; no
property of a passing run says the contrary, or it says it with a hypothesis.

* `timer_arm_once(c)` (`timer.h:32`) makes c the last value of a counter that
  begins at 0, so the compare flag comes with pulse c + 1 and not "after `c` clock
  pulses" (`timer.h:10`) or "after `c` counts" (`timer.h:29`).  `FiresOnTime` measures
  from the arming with the argument c, and says c + 1.
* It does not clear the compare flag (`timer.h:39`), which TIMER1 sets in every turn,
  armed or not: an action may then be called at once.  `FiresOnTime` says that it
  is early only then.
* `pin_toggle` (`pin.h:52`) ors its mask into the value read from PIN and writes it
  back, and every 1 written toggles a pin: the other pins that read high change too,
  where `pin.h:50` says "Toggles value in pin `p`".  `NoOtherLoss` has this as its
  second way to lose a pin (`ToggledAlong`).
* The counters of references are bit fields of four bits (`adc.c:25`): sixteen
  bindings of one kind count as none, and a channel of an incompatible reference is
  let in (`adc.h:75` says that it throws).  The run has four channels, and the theorem
  `RefsAreEnforced` assumes at most fifteen of each kind.
* `serial_close` (`serial.c:144`) goes on when UDRIE is clear: "this means that tx queue
  emptied and last char was sent" (`serial.c:142`), but the last bytes are still in
  UDR0 and in the shift register.  `ClosedIsQuiet` speaks of the queue only.
  `i2c_close` (`i2c.c:306`) returns before the STOP is on the bus.  In the models both
  actions are enabled in such states.
* The statics of a delay belong to the function (`pt-delay.h:23`, `pt-delay.h:40`): when
  two threads run it, the delay of the second writes over that of the first,
  which may then not wait "at least `time` centiseconds" (`pt-delay.h:9`).  The run gives
  each thread a function of its own, and so do `DelaysLast` and `DelaysEnd`.
* A thread that signals a semaphore and waits for it again in one call takes the
  unit back, for ever if it likes: `pt-sem.h:211` says that signalling "eventually
  will cause waiting protothreads to continue".  `NobodyLeftBehind` asks only for
  what holds: nobody waits for ever for a unit that stays.
* A delay of 0 can pass without yielding when a tick comes between the two reads
  of the count in one call, while
  `src/test/test_adc.c:39` counts on a yield.
* A thread that signals a semaphore and waits for it again in one call takes the
  unit back, for ever if it likes: `pt-sem.h:217` says that signalling "eventually
  will cause waiting protothreads to continue".  `NobodyLeftBehind` asks only for
  what holds: nobody waits for ever for a unit that stays.
* A child that has ended and is called again starts again: a parent that waits
  for two children in one expression, as in the example of `pt-sem.h:124`, calls
  both until both end in the same call.
* `ticker_get` ends its atomic block with interrupts on, whatever they were
  (`ticker.c:38`); the models call it from main only.
* A delay of 65535 ticks never ends, for the test is "more than".  In the model,
  that is a time of `TICKS - 1`.
* `ticker_setup` counts 0 to 156, a period of 157, while `ticker_tps` divides by
  156; `src/test/test_ticker.c:30` compares moments and not durations, so it goes wrong when
  the count goes round.  Neither is in the model, whose unit is the tick.

Each violation is a disagreement between a sentence of the documentation or a
comment and the code, quoted in `PROJECT.json` under `findings`.

### Bounds, and why they are enough

* **Queues of three cells** (`I2CQ_L = 3`, `QL = 3`), that is two elements: the
  smallest in which the indices wrap, a caller meets a full queue while another
  request is being served, and an element comes between the front and the back.
  The theorems of `I2cQueueProofs` and `I2cProofs` hold for every length.
* **Messages of one and two bytes** (`MaxLen = 2`): the first byte, the last byte
  and the change from ACK to NACK between them.  The proofs hold up to 255.
* **Two users** of i2c, one in main and one in an interrupt or both in main: with
  three requests under way at most (two queued, one announced) a third user
  adds no new order.  The proofs hold for any number.
* **Two byte values** on the line: enough to see a byte lost, repeated or
  overtaken.  `serial_live` asks about progress only and uses one.
* **A window of two samples** (`WINDOW = 2`) when switches pass, three (the
  code's) in the violation; two slots and two pins, so that one switch is
  sampled while the other is bound, polled or unbound.
* **Four samples** of the adc, as in the code, over a channel of the external
  reference, two of Vcc and one of 1.1 V: every pair of references occurs.
* **The receive buffer of the USART** holds two bytes and the interrupts are
  served before it overruns.
* **A counter of three values** for TIMER1, armed for 1 and 2 pulses: enough to
  reach the compare value, to miss it and to go round.  Two pins in the port: the
  one that the action writes, which main writes too, and one of main's.
* **A counter of three bits** for the ticker, times of 0 and 5 ticks, one tick in
  a turn of the scheduler, so that the time and the ticks of two turns just fit
  (5 + 2 < 8): with a time of 6 `EndsInTime` fails, a thread scheduled late misses the end
  of its delay and waits for another turn of the counter.  Two threads, one
  child and one unit: one thread can be in a delay, in each kind, while the
  other holds the unit or waits for it.  Each thread has a function of its own:
  with one function for two threads `NeverShort` fails, the second delay moves the
  start of the first.  `Work = 2` operations in a call: a delay can follow
  another, and a signal a wait, before the thread returns.
* **`VIEW LiveState`** (`i2c_isr`, `serial_order`) leaves out of a state what
  the code never reads again: queue cells without an element, `current_req`
  and `i` while Idle, an answer already told.  Only runs without liveness
  properties use it.

Deadlock is checked except where the program really may stop: the full queue
(`i2c_isr`, `i2c_blocked`) and `alert_fatal` (`adc_user`).

### Fairness

All fairness is weak, and about things that happen by themselves: main goes on
with a call that has begun (the CPU does not stop, and interrupts are short), a
pending and enabled interrupt is served, a peripheral ends what it was told to
do.  Users need not call, the other end of the serial line need not send,
contacts need not move.  The liveness of the switches is stated for contacts
that settle (`Settled`), for a contact that bounces for ever is never stable.
For the threads: the loop of main goes on, each call goes on to its return, and
the ticker ticks while it is started.  A thread's body always may return
(`Work`), and no fairness says which operation it takes.

## 4. The proofs

TLAPS checks these for every value of the constants that satisfies the
assumptions named in the modules (`I2CQ_L \in 2..255`, a length is a `uint8_t`,
the users are disjoint from NULL, ...).

* `I2cQueueProofs`: `Contents`, the sequence a queue structure stands for, relates
  the array, `front` and `rear` modulo `I2CQ_L`.  `EnqueueAppends`: on a queue that is
  not full `i2cq_enqueue` appends; on a full one it changes nothing; in both the
  front stays.
  `DequeueTails`: `i2cq_dequeue` removes the head.
* `I2cProofs`: `I2cInv` is the inductive invariant, in three parts.  `DriverOK`:
  the types of the driver's statics and registers, the queue stands for a
  sequence of proper requests, a received byte is there when its event is
  told, and the three properties `AutomatonAwake`, `EventExpected` and
  `StopComesFirst` together.  `CpuOK`: a call under way has something left to
  put, and that is proper requests.  `BusOK`: the type of the bus.
  The properties are not inductive alone: that the next event is expected
  depends on the order given to a bus in step, the order on the request
  that `current_req` points at, hence on the queue holding only proper requests
  and on the callers that wrote them; and that `current_req` is the
  front depends on Idle and the empty queue going together.
  `Invariance` proves it of `Spec`, with one lemma
  per operation of the driver and one step per action.  From it follow
    * `TypeCorrect` (`TypeOK`),
    * `NeverAsleep` (`AutomatonAwake`: no lost wake-up),
    * `InStep` (`BusFollowsAutomaton`: no order or event out of place, so
      `ReceivedMessageLenError` cannot be told),
    * `NoOverrun` (`StoreInBounds`: no store outside the user's buffer),
    * `CurrentKept` (`CurrentNotOverwritten`, an action property),
    * `ErrorsAreReal` (`ErrorIsReal`, an action property): each error is told in answer to
      the one event that means it, `SlaveDiscardedData` only to a byte that was not
      acknowledged.  The status that a request is answered with depends only on the
      event told, and the events possible in each state of the automaton are
      those of `I2cInv`.
* `I2cServiceProofs`, on top of it, proves what the users see.  `Ledger` is the
  ledger of answers owed: a client is Running exactly if it has one request,
  in the queue or announced by a call under way, and no two requests are of
  one client.  It is stated for any queue, announcements and statuses, with one
  lemma for each entry (announce, put, answer).  Alone it is not inductive: between
  the moment a call writes `Running` and its atomic block an interrupt may answer,
  and another call may come.  `CallersOK` says why that does no harm: the status
  variable a call is about to write belongs to a user of its own context, main or
  interrupt, each context is in one call at a time, and only the last request of a
  call has a status variable.  From `ServiceInvariance` follow
    * `OneAnswerOwed` (`RunningIffOwed`),
    * `Implementation` (`ImplementsService`): each step of the driver and its bus is a
      step of `I2cService` under the mapping `Contents(requests)`, or a stutter.
  `TransferInv` adds the bytes: those on the wire, or in the buffer, are those of
  the current request up to `i`, and the buffer that a receive is filling belongs
  to the client that waits for it, so no other user's call disturbs it.  From it
  `SuccessIsReal` (`SuccessIsTransferred`).  `GuardWorks` (`GuardedCallNeverBlocks`) needs three
  hypotheses: users ask `i2c_swamped()`, none is in an interrupt routine (which could
  take the place that main saw free), and none calls `i2c_sandr` (the run `i2c_blocked`).
  Then only main takes places in the queue and the interrupt only
  gives them back, so the place seen free stays free.
* `SwitchProofs`: `SwitchInv` is inductive.  Main tests `sampling` outside its
  atomic block; that is right because the interrupt looks at sampled switches only
  and only ends their sampling, so what main found resting stays resting
  (`CallOK`).  The count needs that too, and fits in its byte because `MAX_SWITCH` is
  127 at most.  From it `TypeCorrect` (`TypeOK`), `TimerRuns` (`TimerRunsForSampled`), `NeverTorn`
  (`FlagsNotTorn`) and `AnswerKept` (`AnswerIsKept`).  `FirstBindingIsDebounced` is the other
  side of the run `switch_rebind`: in a program that unbinds no switch
  `EdgeIsDebounced` holds, for every window.  There the history of a slot has made
  at most `2^n - 1` of its first zeros after `n` samples (`FirstBound`), so a full window
  of ones takes `WINDOW` of them; a slot that is used again begins with the
  history of another switch, and the argument is lost.
* `SerialProofs`: `SerialInv` is inductive.  The hard part is `UCSR0B`: main writes
  back a copy while an interrupt may have changed the register.  `CopyFresh` says
  that a copy differs at most in the bit main is writing; it holds because the
  interrupts change `UDRIE` only, and `LineOK` says that whenever main changes
  another bit the transmitter is at rest, with `outq` empty and `UDRIE` clear, so no
  interrupt can come.  That in turn rests on `serial_close` waiting, on `SenderAwake`
  and on the tests of main staying valid.  From `Invariance` follow
    * `TypeCorrect` (`TypeOK`), `NoteHolds` (`ChecksStayValid`), `NoLostWakeUp`
      (`SenderAwake`), `QuietWhenClosed` (`ClosedIsQuiet`),
    * `NoBitLost` (`OnlyOwnBit`, an action property),
    * `SendingOrder` (`SendsInOrder`) and `ReceivingOrder` (`ReceivesInOrder`): each
      direction implements `SerialChannel`.  `SendStep` and `ReceiveStep` are the steps of
      the channel under the refinement mapping, and every step of the driver is one.
      What the operations do to the contents of a queue is taken from
      `I2cQueueProofs`, instantiated with `QL`; for the receiving side the invariant needs
      `ReceiverOK` too: the byte that `serial_read` has copied is still the first.
* `ProtothreadsProofs`: `DelayInv` is inductive: main calls a thread of its loop, and
  that one at most its child from the label where it waits for it (`CallsOK`);
  a function is where its continuation says (`LabelsOK`); a thread in a delay is
  at the label of one (`WhereOK`).  From it `TypeCorrect` (`TypeOK`).  With the
  hypothesis `OwnFunctions`, no two threads run the same function, `TimeOK` is
  inductive beside it: as long as fewer than `TICKS` ticks have gone by, the
  difference modulo `TICKS` between the count and the static is the ticks gone
  by.  From both `DelaysLast` (`NeverShort`), for every width of the counter, any
  threads and any times.  `DelaysEnd` (`EndsInTime`) needs how far main's loop is from a
  thread: `TurnOK` says that a delay has lasted its time and the ticks of this
  turn of the loop (`lag`) if the thread has been served in it, and those of one
  turn more if its check is still to come.  A failed check brings the bound back
  to the time given, provided the difference of the counts is still the ticks
  gone by, which the hypothesis `Room` gives: each time leaves room in the counter
  for the ticks of two turns.  `UnitsKept` (`UnitsCounted`) holds for any threads,
  semaphores and units.
* `AdcProofs`: `MeanIsRounded`: the shifts of `adc_get_oversample` round to the
  nearest and the result fits in a byte.  `ValueInRange`: `ADC_VALUE` takes the
  readings to the range from `m` to `M`, whichever is greater, its ends included
  and nothing outside, when the product fits in 32 bits.  `AdcInv` is inductive:
  the registers hold the channel last prepared, and a conversion with the old
  reference can be found only by the call that waits to discard it
  (`ConverterFollows`); a value asked for is there or under way (`ValueComing`); each point
  of a compound call knows what is left of it (`MainShape`).  From it `TypeCorrect`
  (`TypeOK`) and `ValueIsGood` (`ValueIsOfPrepared`), which need no hypothesis on the user.
  `MeanIsGood` (`RestedMeanIsGood`): whatever was asked before, a mean begun with
  `adc_converting()` false has all its samples of the channel prepared; the run
  `adc_mean` shows that it need not without.  `MeanInv` says that no sample is
  counted before main starts the first one, and that the interrupt turns itself off
  with the last (`SamplingOK`), and that those of a mean begun at rest are good
  (`RestOK`).  `RefsAreEnforced` (`RefsEnforced`, an action property): adc_bind stops the program
  if the reference asked for is incompatible with one in use, and otherwise it
  binds.  The two counters are the numbers of bound channels of each kind modulo 16,
  hence zero only if there is none, up to fifteen of a kind (`FewOfAKind`); the
  sixteenth binding makes four bits zero again, and the hypothesis cannot be
  dropped.
* `TimerProofs`: `TimerInv` is inductive.  `PointerOK` says that main writes the
  pointer and the registers only while the timer is not armed; `CounterOK` that from
  the moment the counter is cleared it tells, until the flag is set, the pulses
  gone by and does not pass the compare value.  The properties speak of an
  armed timer, so the invariant must also cover the step of arming before it.
  From it `NeverTorn` (`ActionIsWhole`) and `OnTime` (`FiresOnTime`: the call is due with
  pulse c + 1, c the argument of the last arming), for every `TOP` and every set of
  counts below it; with the types of the pins, `TypeCorrect` (`TypeOK`).
  `NothingElseLoses` (`NoOtherLoss`): whatever pins main and the action set, clear and
  toggle, a pin changes against its own operations only when main writes back a bit
  that the action changed after main read it, or when another pin is toggled and this
  one read high.  It has one lemma for each writer, `MainKeeps` and `ActionKeeps`.
  `PinsAsWritten` itself holds in two cases, and `pin_race` shows why not in
  general.  `OnePinAsWritten`: with one pin in the port, for a value that is
  written holds the bit of that pin alone, whatever was read before the
  interrupt came, and toggling through `PIN` is atomic.  `AloneAsWritten`: with any pins,
  none toggled and the timer never armed, for then the value read is still
  that of the register (`MainAlone`).  All three rest on `CallFollows`: the changes that
  are left of a call serve its aim.

A proof found one fault of the model.  Two branches of the `CASE` of `FromRxData`
(what `ida_next` does in its receiving state) overlapped in states that cannot be reached; TLC
takes the first, while in TLA+ either may be meant, and `ErrorsAreReal` could not
be proved.  The branches are disjoint now.

**Only model-checked**: the liveness properties (`EveryRequestEnds`, `EveryByteIsSent`,
`CallsReturn`, `PollIsAnswered`, `AnswerComes`, `ArmedFires`, `NobodyLeftBehind`), which need fairness
and ENABLED and are out of the prover's reach; and the four runs that expect a
violation.  Every invariant, action property and refinement that a passing run
checks is a theorem, under the hypotheses named above where it has any.

## 5. What is not modelled

* A local continuation other than `lc-switch.h`, which `LC_INCLUDE` could name
  (`lc.h:124`).
* The blinking of `alert_fatal` (interrupts are off, nothing else runs) and the
  conversion of a number to text in `serial_write_ui`: pure output.
* Baud rate, prescalers and other constants of the set-up code; the fractions of
  a period of a timer.
* Interrupt latency, except that a request is served eventually, and in
  `Protothreads` the number of ticks in a turn of the scheduler.
* The programs under `src/test/`: run by hand on a board; the clients of the
  models follow them.

## 6. Plan

1. **The safety behind liveness**: what each liveness property rests on, as
   invariants and theorems.  A writer that waits for room has the interrupt of
   the transmitter enabled; a poll that waits has its switch sampled and the
   timer on; each event of the TWI brings the request under way nearer to its
   end.
2. **Weaker hypotheses**: `DelaysLast` and `DelaysEnd` for threads that run one function
   but are never in its delay at the same time.
3. **Programs of more than one driver**: a thread that waits for a switch or for
   the i2c driver, with the interrupts of both.
