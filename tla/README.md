# A TLA+ verification project for c6021light

c6021light is the firmware of a gateway between three model-railway buses: the
Märklin CAN bus, an I2C bus that carries turnout messages of Märklin keyboards
(with two extra stop/go lines), and LocoNet. It runs on one STM32F103
under FreeRTOS. This directory holds TLA+ modules that model the firmware, TLC
configurations that check them on small instances, and TLAPS proofs.
Paths below are relative to `src/c6021light/src` unless they say otherwise.

1. [Inventory](#1-inventory)
2. [Modules](#2-modules)
3. [Runs and bounds](#3-runs-and-bounds)
4. [Fairness](#4-fairness)
5. [Proofs](#5-proofs)
6. [Where the code and its documents part](#6-where-the-code-and-its-documents-part)
7. [What is not modelled](#7-what-is-not-modelled)
8. [Plan](#8-plan)

## 1. Inventory

### 1.1 Who runs

| actor | priority | what it runs | wakes on |
|---|---|---|---|
| interrupt handlers (I2C event/error, EXTI stop/go, CAN rx, LocoNet timers, UART DMA) | above all tasks, one priority level | `hal/*.cpp` | hardware |
| `RoutingTask` | 4 | `tasks/RoutingTask/*`: all routing, slot server, engine database, state machines | a binary task notification |
| FreeRTOS timer task | 3 | commands to the four software timers, and their callbacks | its command queue, timer expiry |
| `ConsoleTask` | 0 | command line, LocoNet transmission (`LocoNetTx::DoBlockingSend`) | polling, in turns with the idle task |

Interaction: the handlers put messages into queues and notify the RoutingTask;
its loop drains stop/go, CAN, I2C and LocoNet in this order, forwards each
message to the other buses (`hal::sendI2CMessage`, `RR32Can.SendPacket`,
`LocoNetTx::AsyncSend`) and to the program's own state (`RR32Can.HandlePacket`),
then steps the state machines and compares engine database and slot server.
The timer task reaches the RoutingTask only through an atomic flag and the same
notification. The ConsoleTask calls straight into the slot server and the engine
database, without a lock, and may be preempted there. The RoutingTask and the
ConsoleTask write text to the serial line, under the only mutex of the firmware.

Who runs when, who is woken and what a tick does is FreeRTOS V10.4.1, which the
repository contains (`c6021light/lib/freertos`) with its configuration
(`c6021light/include/FreeRTOSConfig.h`): preemption, time slices, no suspension
of tasks, so that a wait "for ever" ends when the tick count has come round.

### 1.2 Components

| component | state | operations | hard parts | what makes it correct | module |
|---|---|---|---|---|---|
| I2C driver `hal/stm32I2C.cpp` | transmit and receive control block, two rings, peripheral flags | task: send, poll, free; handlers: SB, ADDR, RxNE, TxE, STOPF, AF, ARLO, BERR | task and handlers claim the same block; STOP, NACK and BUSY come later than the code that asks for them | no message stranded, skipped, mixed or delivered twice; no lost wake-up | `I2CBus` |
| slot server `LocoNetSlotServer.*` | 127 slots, each with its own engine state and diff; the slot in dispatch | the LocoNet slot messages; console dispatch | written by two tasks; exhaustion; master and devices talk at once | a slot names one engine and the right one; one slot per engine | `EngineRouting` |
| engine forwarders `LocoNetForwarder::forwardLocoChange`, `CANForwarder::forwardLocoChange` | the diffs in slot and database | translate the changes of one engine | crossing changes, echoes, stale copies, full queue | both buses converge, nothing stays pending | `EngineRouting` |
| LocoNet transmit queue `LocoNetTx.cpp` | queue (8) | `AsyncSend`, `DoBlockingSend` | drop when full | bounded | `EngineRouting` |
| engine database `CanEngineDB.*` | up to 40 engines, download offset, stream consumers | stream and frame callbacks of RR32Can | repeated and late answers, two tasks download at once | complete means whole; no engine twice | `EngineDownload` |
| `CanEngineDBStateMachine.h`, `StopGoStateMachine.h` | state, tries, expired flag | start, loop, retry, stop | timer against late answers; lost timer commands | retries while needed, rests at the end | `EngineDownload` |
| indicators | flags, a timer each | start, stop, callbacks | a full queue drops a command silently | they tell what goes on | `EngineDownload` |
| FreeRTOS kernel `lib/freertos/{list,tasks,port}.c` | ready, delayed and event lists, tick count, a pending switch | block, wake, notify, tick, suspend and resume, switch | interrupts between any two critical sections; a tick count that comes round; wake-ups while the scheduler is suspended | the right task runs, no wake-up is lost | `Kernel` |
| software timers `lib/freertos/timers.c`, `OsTimer.h` | command queue (7), two sorted lists, the last time seen | start, stop, change of the period, expiry | wrap of the tick count; a timer task that is late; a full queue | each period ends with one callback, commands are obeyed in order | `TimerService`, which implements `Timers` |
| mutex `lib/freertos/queue.c`, `OsMutex.h` | holder, waiting tasks, priorities | take, wait, give | priority inheritance | one holder; priorities are given back | `Mutex` |
| stateless routing: `I2CForwarder`, the turnout, power and sensor parts of `LocoNetForwarder`, `AccessoryMsg` | the last turnout switched on | translate one message | a power-off names no turnout; several receivers in a fixed order; commands of the buses cross | each message reaches each other bus once and not its own; keyboards show what the central holds | `StatelessRouting` |
| stop/go lines `hal/stm32I2C.cpp`, `hal/Debounce.h` | a request record, two debounce timers | edge handlers, `getStopGoRequest()` | read-then-clear against the handlers; a stop overtakes older commands; wrap of the clock | a stop stops both buses | `StatelessRouting`, without the clock |
| serial output `hal/stm32usart.cpp` | ring, DMA owner flag, the range in transfer | `SerialWrite`, `startSerialTx`, DMA handler | a low-priority writer preempted inside the start of the DMA; newlines on the edge of the ring | every byte is sent once and in order; nobody waits for ever | `SerialOut` |
| CAN driver `hal/stm32can.cpp` | receive queue (10), three mailboxes | handler, poll, blocking send | queue overflow stops the firmware; two tasks fill the mailboxes | – | section 7 |
| message codecs `LocoNetHelpers.*` | – | encode, decode | bit layout, speed scaling | decode undoes encode | the speed in `EngineRouting`, what is lost on the way there and in `StatelessRouting` |
| settings, tracing, faults, command line | – | – | – | – | section 7 |

## 2. Modules

Each component is one module, its instances for TLC an `MC` module, its proofs
a `Proofs` module. Operators that start their comment with "Mutant" are
deliberate faults: with one of them in place of the definition that follows, a
run must report the property it is meant for.

### 2.1 `I2CBus`

The driver between the RoutingTask and the bus. `txQueue` and `rxQueue` are the
two `ObjectRingBuffer`s, `tx` and `rx` the control blocks `txControl` and
`rxControl`; `pc` and `call` say where the RoutingTask is in its loop and in
`startTx()`. The actions fall in three groups.

* `Task...` and `StartTx...`: one action per access of the task to state the
  handlers share (claim, clear, peek, check of BUSY, START). Inside a message
  the order is that of `processI2CMessages()`: poll, reply, free.
* `Ev...` and `Er...`: one action per branch of `i2c1_ev_isr` and `i2c1_er_isr`.
  The branches are served in the order of the code's `if` chain. Both handlers
  have the same priority, so that a run of one is one action, and the task takes
  no step while an interrupt flag is up.
* The hardware: START, STOP, acknowledge, other masters and errors. It raises
  flags in the order of the reference manual: TxE right after the first data
  byte was written, STOP after the byte on the wire. So BUSY is still set when
  `finishTx()` calls `startTx()`, as it is on the chip. `Prompt` states that
  received bytes are read before the next one arrives.

A message is its number; the three bytes of a frame are the number of the
message each was taken from, so that mixed and repeated messages show.
Arbitration loss is raised only before the STOP of the last byte is requested.

### 2.2 `EngineRouting`

Engine control between CAN and LocoNet, in both roles of the slot server
(`Mode`): PASSIVE beside a LocoNet master, ACTIVE as the master. `slots` is
`slotDB_`, `db` the engine database with the diff of each engine, `lnTx`
`msgBuffer_`, `pc` the place in `RoutingTask::loop()`. The two buses are
modelled by what their devices hold: `can[a]` is what the CAN central shows for
engine `a`, `bus[s]` what the throttles show in slot `s`; that is what "the two
sides agree" is about. The RoutingTask has the highest priority, so only
arriving messages interleave with its steps: `HandleCan`, `ForwardLocoChange`
(one engine), `process` (one LocoNet message), `MatchAndForward` (one slot).
`DoBlockingSend` and the dispatch command (`Dispatch`, `DispatchSearch`,
`DispatchNew`, one step per slot looked at) are the ConsoleTask, which runs
only while the RoutingTask waits and can be preempted between any two steps.

An engine's state is reduced to one attribute for each way the code treats one:
speed; direction and F0, which share OPC_LOCO_DIRF; F9, which stands for the
functions the slot does not hold. The speed has the unit of the bus it is on,
127 steps on LocoNet and 1000 on CAN; `lnSpeedToCanVelocity` and
`canVelocityToLnSpeed` convert and round it where the code does (within these ranges,
`SpeedAssumption`, nothing exceeds the code's 16 bits). `process` covers all messages that
`LocoNetSlotServer::process()` handles. External: the central confirms each
command with a frame that the gateway receives; a LocoNet message of our own is
not received back; a command for UID 0 reaches no engine; `LocoNet.send`
succeeds. After a write past the table (`overrun`) the model stops, as
what follows is undefined.

Address 0 is an engine to nobody but can be asked for: neither the handler of
OPC_LOCO_ADR nor the dispatch command of the console, whose `atoi()` makes 0 of
anything that is no number, looks for it. `findOrAllocate` compares addresses as
the code does, in every slot, in use or not (`LocoNetSlotServer.h:71`), and a
cleared slot has address 0. So a request for it gets a slot as it is, not in
use, for which the device can do nothing but offer it for dispatch
(`GivenForZero`); with no cleared slot left it writes behind the table. The
history `asked` keeps whether somebody has asked for address 0 and whether the
console has dispatched; two properties are conditional on it (`DispatchNamesEngine`,
`UniqueSlot`).

### 2.3 `EngineDownload`

Everything on timers: the download of the engine database with its state
machine, the query for the power state, the two indicators, and the FreeRTOS
timer service that they share. `timerQ` is the command queue with its limit of
`configTIMER_QUEUE_LENGTH`: `Start()` and `Stop()` do not wait, and `Fits` drops
what the queue cannot hold. `setupCommands` lists the commands of `setup()` in
their order, made before the scheduler runs; they are exactly seven. `pc` is
again the place in the loop: frames, `stopGoStateM_.loop()`,
`notifyEngineDBComplete()`, `canEngineDBStateM_.loop()`. The timer task acts
when the RoutingTask waits, the ConsoleTask when both do; the console's download
is split where it can be preempted.

The CAN central is the environment: it answers pings, status requests and
config requests, the latter with a stream whose first and last frame are kept
apart, because the first one moves the state machine and the last one calls
`streamComplete()`. In some environments the timer may expire before the answer
is there (`late` counts how often, at most `env.late` times),
so that requests are repeated and answers reach the wrong consumer. RR32Can is
not in the repository; that its parser reads a stream only while a request is
under way, that a new request makes it start afresh, and that an answer of
another kind has no keys for the consumer, is taken from how `CanEngineDB.cpp`
and the tests use it. The keys and stop lines of the other buses, which also
tell the start/stop indicator the power state, are in `StatelessRouting`.

### 2.4 `StatelessRouting`

Turnouts, track power and sensors. A command is one record on all buses;
`makeMsg` and `TurnoutAddr` say what the three bytes on I2C keep of it (a
power-off loses output and direction), `Ln_Turnout` and `Ln_Sensor` what fits
into a LocoNet message, `rail` what CAN adds. `forwardToI2C`, `LnMessages`,
`MakeRR32CanMsg` and `FromLn` are the four translations. `pc` is the place in
the loop, one action per message; `getStopGoRequest()` is two steps (`Wake`,
`processI2CStopGo`), because the edge handlers may run between them.

External, from the README of the repository and `doc/GeneralOperation.md`: the
central executes and answers turnouts in the go state only, in the order of the
bus, and sets the turnout on a power-off too (`I2CForwarder.cpp:103`); a frame
without an address is ignored; a keyboard repeats a request until an answer with
the same data byte comes and takes no other key meanwhile; its lamps follow every
answer that names an output. `CooldownEnds` stands for the clock of `Debounce`.

`issued` is the history of what the users of each bus gave, `got` of what the gateway sent to
CAN and to LocoNet, by the bus it came from, `power` the power command given last.
`passed` records the cases that the properties leave out, each of which the
code does not handle: two keys down at a time (`overlap`), a turnout commanded
while its key is down (`crossed`), an edge between copy and clearing (`wiped`),
a stop that overtakes a power command in a queue (`overtaken`), a message that
the transmit queue has no room for (`dropped`).

### 2.5 `Kernel` and `Mutex`

The kernel is one record, `k`, and each of its functions an operator from record
to record that does what the function does inside one critical section; the
modules that use it own the variable and say where an interrupt may come.
`pxCurrentTCB` is the running task, `ready` the ready lists with the place of
`pxIndex` (whose end marker counts as an item, as in `list.c`), `delayed` and
`overflow` the two lists of sleeping tasks, `waiting` the event lists, `pending`
what was woken while the scheduler was suspended, `pendSV` the exception that
switches tasks. `tick` is a number modulo `Ticks`, and `nextUnblock`,
`pendedTicks`, `suspended` and `yieldPending` are the variables of `tasks.c`. A
failed `configASSERT` stops everything (`failed`).

`Mutex` adds a queue used as a mutex with its holder, the inheritance of
priority and its end. A wait without a limit is taken as such there: the tick
count would have to come round several times to end it.

### 2.6 `TimerService` and `Timers`

`Timers` is what the timer service promises, without lists, kernel or range of
the tick count: a queue of commands obeyed in their order, and for each running
timer the ticks until its callback is due. `TimerService` is `timers.c` with the
three other tasks around it. Each step is one critical section with the private
computations before it; `tmr` says where the timer task is and what its local
variables hold, `user` the same of the two tasks that start and stop timers.
`SysTick`, `BusIsr` and `PendSV` may come between any two steps.

`Promised == INSTANCE Timers WITH ...` maps one to the other. Commands are the
one in the hand of the timer task and those in the queue, with their age.
A timer runs if it is in one of the two lists, and is due at the distance of its
expiry time from now; how a time modulo `Ticks` is read as a distance depends on
the list and on whether the timer task has seen the tick count come round.
The callback of a late timer and the command to go on with it are two steps
of the code, in either order, and one step of `Timers`, taken at the command
(`Between`). The service sends that command, `again`, to the end of its own
queue, and this is part of the promise: a stop that was sent before it is
undone by it.

### 2.7 `SerialOut`

`_write()` of the RoutingTask and the ConsoleTask on top of `Mutex`. A byte is
named by its writer and its number, a newline is two bytes, so that lost,
doubled or swapped bytes show on the `wire`. `Allocate` is the ring's
`allocate` and `memcpyCharReplace`, in ranges that end at the end of the
memory; `rest` is the second byte of a newline that found no room. `Start`,
`Claim`, `Peek`, `Release`, `Configure`, `EnableTxDma` are `startSerialTx()`, in
which a task may be preempted at each access; in the handler of the DMA it is
one step. The ring buffer is not in the repository: `mem`, `head` and `tail` are
taken from how `stm32usart.cpp` uses it. The timer task writes no text.

### 2.8 How they compose

The modules share the RoutingTask, which takes one notification and runs its
loop once. Each models the part of the loop whose state it owns and lets the
rest of the loop be a step that does nothing there (`OtherNotify` in `I2CBus`
stands for a notification from any other source). The engine database appears
in two modules: `EngineDownload` fills it, `EngineRouting` takes it as filled
(`Known`) and changes its engines.

The kernel appears twice. `Kernel` is the code of FreeRTOS, and `TimerService` and
`SerialOut` are built on it. The other modules use what it promises: the
RoutingTask runs whenever it is notified (`NotifiedIsAwake` and `HighestRuns` are
the two halves of that), lower tasks run while it waits, and a timer whose
command found room in the queue calls back (`KeepsPromise`). `EngineDownload`
adds the real length of the queue and the commands of `setup()`.

## 3. Runs and bounds

| run | what it shows |
|---|---|
| `i2c_safety` | two-message rings, three sends, three frames of any length up to complete, one error of any kind: all safety properties of the driver |
| `i2c_live` | received messages are processed; a message whose START was requested is sent or refused |
| `i2c_stall` (violation) | the next message is *not* started automatically after a transmission |
| `er_converge` | PASSIVE, one engine, four changes from either side: both sides agree at rest, echoes die out |
| `er_passive` | PASSIVE, two slots, two engines of which CAN knows one, address 0, a transmit queue that overflows: slots follow the master, UIDs match, no lost wake-up |
| `er_active` | ACTIVE, two slots, address 0 asked for, the console dispatching: one slot per engine, slots keep engines, what is dispatched holds an engine unless address 0 was asked for, nothing pending |
| `ed_download` | five engines in three pages, all kinds of central, a console command: timers armed, completeness, indicator; both state machines come to rest, with a complete database if the central answers in time |
| `sr_routing` | commands of all buses crossing, repeated requests, a transmit queue that overflows: each command reaches CAN and LocoNet once, except the bus it came from, lamps and indicator agree with the central, a stop stops, no keyboard stays stuck |
| `sr_stop` (violation) | a stop between copy and clearing of the request record is lost |
| `timers` | one timer of the service started, stopped, changed, with a tick count of four: the service implements `Timers`; the kernel runs the right task and loses no wake-up |
| `serial` | two writers, two texts each, rings of 2, 3 and 12 bytes: bytes in order, one owner of the DMA, nothing left in the ring, priorities given back; where the ring holds everything, all is sent |
| `serial_hang` (violation) | a write that does not fit waits for ever for a DMA that a preempted task has claimed |

Bounds, and why they are enough to meet the interesting cases:

* `TxSize = RxSize = 2`, `MaxSend = MaxFrames = 3`: both rings fill up, wrap and
  refuse; `MaxErrors = 1`, an error of every kind at every point. A frame may
  break off after zero or one data byte. In `i2c_live` two frames and two
  sends, without arbitration loss: its branch clears no flag, so the
  processor never leaves the handler (section 6).
* `MaxOps = 4`: a request, a change on either side and their crossing. With two
  slots and two engines the table becomes full, and slots are moved onto each
  other. `LnDepth = 8` is the real depth, 2 in `er_passive`, where the queue
  overflows within the bound. `Addr` has 0 next to the engines in `er_passive` and
  `er_active`. `Velocities = {0, 4, 8}` (two of them in the larger runs): 8 is the
  velocity of step 1, and 4 is one that LocoNet rounds to step 1 and would send back as 8.
  The conversion of the other speeds rests on `SpeedReturns`. In `er_active` no throttle
  moves slots: with moves the run is too large, and `er_passive` has them.
* `NumEngines = 5`, `Page = 2`: two full pages and a partial one, so that a late
  answer can leave a gap in the table before the last page; details of several
  engines in a row. `MaxTries = 2`, one first try and one repetition.
  `QueueLength = 7` is the real length: whether the start-up fits depends on it.
  One console command, with a late central none; two late answers, so that a
  request is repeated while the first is unanswered, and that again.
* `sr_routing` chooses one of eight scenarios in `Init`, each a set of commands and
  how many of them are given (two or three, next to releases and repetitions of
  keys): which buses cross, whether requests are repeated early, whether the
  gateway answers by itself. Turnouts 1 and 2 share a decoder, 17 is on another
  keyboard, 257 out of reach of I2C. `LnDepth = 2` lets the queue overflow.
  `MaxIssued = 6`, a bound on the requests of keyboards, ends the repetitions of one that
  is never answered. The code as it is never comes that far: with 20 the states are the
  same.
* `timers`: one timer, as two multiply the states; that several do not disturb each
  other rests on the theorems about `TimerService`, which are for any number.
  `Ticks = 4`, so that the tick count comes round within every
  behaviour and the lists are switched again and again; a timer of period 2,
  changed to 1: both below the range, as the real ones are (`TickRangeAssumption`).
  `MaxLate = 1`: how long the timer task may be kept from running after it was
  due; with a period of 1 that is late by a whole period, so that the command to
  go on is sent, and a queue of two makes it meet a full queue. Two starts or stops
  (`MaxOps`) of the RoutingTask. The ConsoleTask is there for the time slices.
* `serial`: a ring of two bytes is full after every other byte, one of three
  splits newlines at its end, one of twelve holds all that is written. One text
  has its newline in the middle, one at the end. `MaxFrames = 2`: how often a
  bus wakes the RoutingTask, which preempts the ConsoleTask at every point.
* `CHECK_DEADLOCK FALSE`: the bounded environment falls silent, and a breakpoint
  or an overrun stops the firmware.

## 4. Fairness

* `I2CBus`: weak fairness of the task (highest priority), of the handlers (a
  pending interrupt is served), of the end of a transfer by whoever owns the bus;
  strong fairness of the START condition (arbitration lets a waiting master
  through in the end). No other master must start a frame, no error must happen.
* `EngineRouting`: weak fairness of the RoutingTask and of the ConsoleTask; the
  latter runs whenever the former waits, and the bounded inputs let it wait.
* `EngineDownload`: weak fairness of the RoutingTask; strong fairness of the
  timer task, of the expiry of each active timer and of a console command
  under way, as each of them runs whenever those above it wait, again and again;
  weak fairness of the central, which completes each stream that it starts.
  Strong fairness is needed: a timer whose `Stop()` was lost in the full
  queue wakes the RoutingTask every second for ever, which is harmless, but
  disables the others for a moment each time.
* `StatelessRouting`: weak fairness of the RoutingTask, the ConsoleTask (the bounded
  users let it run), the central, the I2C bus, and of a keyboard that repeats
  what is not answered. No user has to do anything.
* `SerialOut`: weak fairness of the processor, which goes on with the task that
  runs and with no other (`Processor` is one action: which task that is is up to
  the kernel), of the switch, the DMA and its handler. That is why
  `serial_hang` is a real hang: the processor is busy for ever with the wrong task.
* `TimerService` has safety properties only.

## 5. Proofs

Eight modules hold proofs: `I2CBusProofs`, `EngineRoutingProofs`,
`EngineDownloadProofs`, `StatelessRoutingProofs`, `KernelProofs`,
`TimerServiceProofs`, `TimersRefinementProofs` and `SerialOutProofs`. They prove
safety properties for every size of the rings, tables and queues, every number of
engines, slots and turnouts, and without the bounds of the runs. They rest on the
named assumptions on constants (sizes are positive, `Known` is a subset of
`Addr`, ...) and on nothing else; where a theorem needs more, it says so.

*I2C driver.* None of the properties is inductive by itself. `IInv` adds to them:
`FlagInv`, which flags can be up together and in which state of the bus (so
that a handler never runs on a flag of an earlier frame); `RingInv`, an occupied
receive block has storage and the ring a free place, which is why `publish`
cannot overflow although it is far from its `allocate`; `SlotInv` and `FreshInv`,
the bytes in a block under construction are those of the current frame, and
that frame is newer than everything in the ring. From `Inductive` follow
`TypeCorrect`, `NeverAbandoned`, `HeadFirst`, `WholeOnce`, `WakeupKept` and
`BreakpointCause`. There is a lemma per routine that several handlers call
(`FinishTxStep`, `ForwardRxRingStep`, ...), then one case per action.
`SentWhole` states `ConsumedWasSent`, for which `WireInv` ties the wire to the driver: how
far a frame of ours has come (`FrameSoFar`) is told by the state of the bus, the flag that is
up and the count in the control block together, and no START is requested while we are
master, because `resumeTx()` looks at the bus and only an occupied block asks for one.

*Engine routing.* `IInv` is `TypeOK`, `UidOfSlot`, `PendingInv` and `QueueInv`:
the latter two say at *which places of the loop* a change or a message may still
wait, and that everywhere else a notification is pending. From it follow
`TypeCorrect`, `SlotKeepsEngine`, `ForwardsAll` and `ServesQueues`.
`OneSlotEach` has an invariant of its own, `UniqueInv`: the allocation compares
the address of *every* slot, in use or not, so all addresses must differ, also
those of unused slots. The one exception is address 0, that of all cleared slots: it is
never an address of a slot in use. It is proved under `Alone`: no dispatch from the console
and no write of a slot by another device, both of which break it in the code.
`DispatchesEngine` states `DispatchNamesEngine` under `Unmoved`: a move of a slot clears
the slot it starts from, also one that is offered for dispatch. `DispatchInv` follows
the slots that throttles hold, have heard of and will name in a dispatch: they are
in use, and no entry goes out of use. The search of the console compares
addresses only, so `DispatchInv` also says that an entry which is not in use has address
0. The search for this address ends at such an entry, and that is why the property
speaks of the time before address 0 is asked for, on either side (`asked`); with it the
slot offered for dispatch need not be in use.
`KeepsSlots` states `SlotKept`, step by step, from `TypeOK` alone. `TableOfMaster` states
`FollowsMaster` under `Unsearched`: a dispatch at the console may take a slot that the
master has not assigned. The messages that wait in `lnRx` are older than what the
throttles hold, so `FollowInv` says what they will *make* of the table: there is a course
of tables, one for each message (`Course`, `Effect`), that begins with the slot server's
and ends with one in which each slot is empty or has the engine of the master
(`Agrees`). Handling a message drops the first table of the course, hearing one adds a
last, and the sequence of the two never matters in between; what the gateway itself sends
to the bus changes no engine of a slot.

`SpeedReturns` says that the speed survives its way round: a LocoNet step that is converted to
a velocity and back is the same step. The other way is not true, as several
velocities are one step.
`BusesConverge` states `Converged` for every number of slots, engines and changes. `FlowInv`
follows one attribute of one engine round the whole circle: what waits on CAN will make of
the database what the central holds (`CanTold`); the slot holds what the database holds,
unless one of the two is marked as changed or CAN is about to change the database
(`Copied`); what was sent to LocoNet last is the value of the database (`LastSent`); and
what was heard last is the value of the throttle (`LastHeard`). A speed is compared in the
steps of LocoNet; `SpeedReturns` is what keeps an echo from changing it. Two changes that cross meet
in the database and the slot. That the one handled last wins on both sides rests on
`SentInv` and `QueueInv`: nothing is sent to one side while something heard from it waits,
so an echo never overtakes a change. Assumed are `ControlsOnly`, the instance of `er_converge` without its
bounds (a master keeps the slots, each engine is in one at most, and speed, direction and F0
are what is set), and `[]Room`: when the forwarder runs, the transmit queue has room for the
two messages that an engine can take. With a full queue a message is dropped, and the
sides really differ; in `er_converge`, where the queue has its real length, TLC finds
`Room` never violated.

*Engine download.* `TimersArmed` states `ArmedWhenNeeded` under
`QueueLength >= 7`. The bound is not a convenience: `setup()` makes seven commands
before the timer task can take one, and with six the last, the start of the
database's timer, is lost. Later commands may be lost all the same. `Armed` is
inductive because a need arises in two places only, in `setup()` and in the
ConsoleTask, which runs while the queue is empty; at all others a lost command
is a stop, or a start of a timer that runs already (`PostArmed`). `IndicatorTold` states
`IndicatorTells` for a queue of any length; between the frame that completes the
download and `notifyEngineDBComplete()` in the same turn of the loop the flag is
still up, and `IndicatorInv` says that this is the only place.

*Engine database.* `NeverTwice` states `NoEngineTwice`. What makes it hold is spread
over three places of the code, and `Quiet` collects it. As long as the state
machine may repeat its request, which clears the table, nothing of an answer has
been taken, because the first frame of *any* stream moves it to DOWNLOADING
(`RepeatInv`). The pages asked for do not overlap and none lies behind the one that
the consumer waits for (`AllApart`, `ListInv`), so that no engine of a page still to
come is known; only the first page may be answered again, and then `hasEngine()`
finds all of it, because the start of the table is still as it was stored.
`CompleteWhole` states `CompleteIsWhole`. `Whole` adds that there is one request at a
time, that it is the one the consumer waits for, and that the table is the list
up to the page that was read, then the whole list, each engine with its own
details or none; the place of an engine in a page is a cardinality, which the
theorems about intervals give. That a timer does not interfere needs
`NotifiedInv`: the RoutingTask does not sleep while a frame waits. Both need the
assumption that the last page fits the table; without it the code writes behind
its end.

*Serial output.* `SoleOwner` and `NothingForgotten` state `OneOwner` and
`NothingLeftBehind` for a ring of any size and any texts. `OwnerInv` names the owner
of a busy DMA: the transfer until its completion is acknowledged, or one task
at one of four places of `startSerialTx()`. The mutex is not used, and nothing is
assumed of the scheduler: the flag alone keeps the owner single, whatever order
the tasks run in. That is also why `serial_hang` is possible.

`PriorityInherited` states `HolderInherits`: whoever holds the mutex runs at no lower
priority than any task that waits for it. `HInv` adds to `OwnerInv` what the kernel keeps
(`KernelInv`: lists without repetition, a task is in the ready list of the priority it
*has*, not of the one it was created with, who runs is ready, and who waits for the mutex is
not) and what the mutex keeps (`MutexInv`: only its holder has an inherited priority, and at
most one task waits, for a holder whose priority is at least its own). `KernelProofs` has the lemmas it cites: what each service of the kernel leaves
alone, and that the lists are changed as sets of tasks are.

`SentInOrder` states `BytesInOrder` for a ring of any size. `BInv` unrolls the ring: the
characters sent, being sent, in the ring and still with their writer form one chain of
places that never runs backwards (`Chain`), a transfer is one piece of it that
does not cross the end of the ring (`TransferInv`), and the indices that a task read and
will use later still stand for the places they stood for (`PlaceInv`), since only the
holder of the mutex moves the one and only the owner of the DMA the other.

*Timer service.* `TheHighestRuns` states `HighestRuns`, and `ANotifiedTaskWakes` states
`NotifiedIsAwake`, for any timers, any number of ticks and any queue; both follow from
`RunsInv`. While the scheduler is not suspended (`Free`) a switch is pending, or the task
that runs is ready and nothing ready outranks it. In `prvProcessTimerOrBlockTask()` the
timer task suspends the scheduler (`Stopped`), and what a tick or an interrupt makes ready
meanwhile does not run: it is noted in `pendSV`, in the count of pended ticks or in
`xPendingReadyList`, and the proof is that `xTaskResumeAll()` makes up for each of the
three, and that the timer task never takes a command or blocks in between. `Known` is
what the kernel keeps for that: the idle task is always ready, so that there is somebody
to switch to; only the timer task waits in an event list; only the RoutingTask, the one
that interrupts notify, is put off to `xPendingReadyList`. None of it depends on the
arithmetic of ticks: `KernelProofs` shows for an arbitrary delay list that a tick readies
tasks and forgets none.

`EachWakesInItsTick` states `WokenInItsTick`, and `FailsOnlyWhenFull` states
`AssertOnlyWhenFull`. `Timed` is about the two delayed lists: they are sorted, the times
in the first lie ahead, none before `xNextTaskUnblockTime`, and those in the other lie
behind, which means after the tick count has come round. A tick keeps it because a task
leaves its list in the tick that it waits for and `xNextTaskUnblockTime` is set anew
(`TickTimed`); when the tick count comes to 0 the first list must be empty, as no time lies
ahead of the last tick, and the lists change their places. What has to be shown of the
timer task is that it never goes to sleep for zero ticks without waiting for ever: the
delay is the distance from now to the first timer, or to the return of the tick count if
only the list of the timers beyond it has one. In that case `now` must not be 0, and this
is the fact about the timers that takes work (`Counted`): nothing is in that list as long
as `xLastTime` is 0. A timer that is started at time 0 is due before the tick count comes
round, unless its command is older, and then it is late by its whole period and goes to
no list (`InsertsAtZero`). The other parts of `TimeInv` are the ranges of the commands, in
the queue and on their way, and of the local variables of the timer task. That none of
the kernel's own assertions fails is part of the same proof: the list that the tick
count leaves behind is empty, the scheduler that is resumed was suspended, and a task
that is notified waits for nothing else. What is left is the room in the queue, in three
steps of the timer task.

*The timers keep their promise.* `TimersKeepTheirPromise` states `KeepsPromise`: every
step of `TimerService` is a step of `Timers` under the refinement mapping, or leaves what
`Timers` sees as it is. `Timers` counts the ticks that are left; the code has times of a
clock that comes round, which of two lists a timer is in, and a time that the timer task
read some ticks ago. `PromiseInv`, on top of `RunsInv` and `TimeInv`, says that the two
agree. `Dues` is the core: for each timer that runs, the distance from now that
the mapping reads from its expiry time is also the distance that the list tells, counted
from `xLastTime`, or while the lists are switched from the time that was sampled, one
round of the clock less. The first is told modulo `Ticks` and means nothing for a
timer too far ahead, the second is an exact number. The rest is what keeps this true.
`Sound` and `Lag` bound what is stale: a start that waits in the queue, the ticks pended
while the scheduler is suspended, and the time in hand are at most `MaxLate` old, and no
period with `MaxLate` added reaches `Ticks`. `Apart` says that a timer is in at most one
list, and in none while a command about it is in hand. `Ages` says that
a timer which sends itself the command to go on was due at that time, and that the time
read after a command was taken is not before the command, so the difference the code
forms does not wrap. From the kernel come two facts for each of its services: the time
that a tick adds is in exactly one of `xTickCount` and the pended ticks (`Now`), and nothing
else moves it (`Calm`). The steps that take work are those in
`prvSwitchTimerLists()`, which reloads what is left of the current list, the restart of a
late timer, and the tick, which must keep all distances at once. A failed assertion ends
the promise, as in `Timers`.

`SleepsUntilDue` states `SleepsNoLonger`. Its invariant keeps the time that the timer task
sleeps for beside the timers of both lists. `Sleeps`: as long as the timer task waits for a
command there is none, it is in a delayed list, and the ticks left to its wake time, less
those that are still pended, are no more than the distance from now of any listed timer.
`InOrder`, both lists are sorted by expiry time, makes the first of the current list stand
for all of them at the moment the task goes to sleep, and `Dues` turns what the lists tell
into distances; a timer beyond the return of the tick count does not matter, as the task is
woken for the change of the lists. From then on nothing is asked of the timers: the kernel
brings whoever still waits after a tick or after `xTaskResumeAll()` exactly as much nearer
to its time as ticks went by (`Dozes`, `Nears` in `KernelProofs`), and a command that is
sent leaves nobody waiting.

The proofs need two facts about constants which the model had not stated: there is a timer,
and `"none"` is not one (`TimerAssumption`).

The loops of the kernel over its lists are recursive functions in
the model. That one keeps a predicate is shown by a least counterexample
(`ReadiedAllKernel`, `PendedTicksKernel`), as the induction theorems of the library
cannot be used.

*Stateless routing.* `EachArrives` states `EachReachesTheOthers`. The history of each bus
is kept apart, and `ReachInv` says of each path that what was sent is the beginning of the
history and that the queues on the path carry the rest, in its order: `Carries` names for
every element of a queue how far one has come in the history, since most elements carry
nothing of it (answers, requests of other buses). For CAN the two queues meet at some
entry `m`, which is where the RoutingTask is in the history. For the keyboards the path
loses data, as a power-off does not name its turnout; `KeyOrder` says why it is found
again: with one key in use at a time each power-off follows a command for the same
turnout, and what the forwarder remembers is the last command it took
(`KeyMeant`). It is proved for commands that a user of the bus can give
(`ScenarioAssumption`) and for addresses that LocoNet can name (`AddressAssumption`).

`StopReaches` states `StopStops`. `StopInv` follows a stop of the line: until another power
command is given, it waits in the record and the RoutingTask is about to look, or it is
the last power command on the way to the central and to the LocoNet devices.

`IndicatorSettles` states `IndicatorAgrees`. `LedInv` follows the last power command
through both queues: once the central has none left to handle, its state is that of the
last one which the gateway has not read, or else that of the indicator. What other buses
send does not matter.

`LampsAgree` states `LampsFollow`, for the central's answers and for the gateway's own.
`LampInv` is what has to hold of the queues towards the keyboards: in the order in which
they arrive, the answers under way lead each lamp to the position of its turnout (`Final`),
unless a request that the gateway answered already has yet to set it. What threatens it is
the power-off, which sets the turnout too and is not shown. `FrameInv` and `OffInv` say that
every power-off under way, as a frame or as a message that the gateway has not yet
completed from what it remembers, will find the turnout as it leaves it (`Leads`);
`KeyInv`, that the command remembered when the power-off of a key in use is handled will be
the one of this key; `ReplyInv`, that a key which has its answer has set its turnout, or that
the answer that says so is still under way. With answers of its own the gateway must not
be refused by the central, hence `NoStopInv`.

The theorem has two hypotheses; without either the property is false for some scenario, as TLC
shows. In `sr_routing` the first holds; the second does not, so that the run goes beyond the
theorem here, but its scenarios are too short for harm to follow.
`UsersSwitchOn`: no CAN or LocoNet device switches a turnout off, as a power-off with another
direction sets the turnout and no lamp shows it (and the gateway has a rail protocol, and the
central is not stopped from the start where the gateway answers itself). `ClearPress`: no
switch-on of a turnout is under way when a key is pressed for it, unless the gateway answers
itself. Otherwise let a CAN device set a turnout to green and then to red, let a key ask for
green while both are under way, and let the central be stopped before it handles the key:
the keyboard takes the answer to the first command for its own, the key is released, and its
power-off, once the central goes again, sets the turnout to green while the lamp shows red.

Every invariant and action property of the runs is stated by a theorem. Only model-checked
is liveness (`ReceivedIsProcessed`, `ResumedIsSent`, `EventuallyAgree`, `ComesToRest`,
`KeyboardServed`, `RestsIfFits`), which is out of the prover's reach.

## 6. Where the code and its documents part

Each has a run that must end in a counterexample.

* `i2c_stall`. `design/design.md:134` promises that the next transmission starts
  automatically. `finishTx()` tries while its own STOP still keeps the bus busy,
  and nothing tries again until other traffic comes (`hal/stm32I2C.cpp:291`).
* `sr_stop`. `hal/stm32I2C.h:47` says that the flags tell whether a user pressed
  the button. `getStopGoRequest()` copies them and clears them in a second step; a
  press in between is wiped out (`hal/stm32I2C.cpp:216`).
* `serial_hang`. `design/design.md:68` says that a write busy-waits until all data could
  be forwarded. `startSerialTx()` claims the DMA long before it enables it
  (`hal/stm32usart.cpp:189`); a RoutingTask that preempts the ConsoleTask in between and
  whose text does not fit waits for a transfer that never starts.

Seen while modelling, as the code does it, and without a run:

* I2C: the ARLO branch clears no flag (`stm32I2C.cpp:395`); a fourth byte is never
  read (335); the acknowledge failure of a last byte discards the message after it
  (392); the STOPF handler may start a block that the task has claimed and not
  filled (309).
* Routing of engines: F9 to F31 are not copied into the slot
  (`LocoNetForwarder.cpp:93`, against `doc/GeneralOperation.md:79`), so that the next
  LocoNet message is compared with a stale copy; with a full table the entry behind
  its end is initialised (`LocoNetSlotServer.h:77`); `AsyncSend()` may drop a message of a
  change whose flags are cleared all the same (`LocoNetForwarder.cpp:84`); a pending CAN
  change is not offered again when its slot becomes known (`RoutingTask.cpp:28`); in ACTIVE
  mode an engine that CAN does not know is controlled as UID 0 (`LocoNetSlotServer.h:142`);
  slot reads are answered in PASSIVE mode too (`LocoNetSlotServer.cpp:258`); a dispatch
  from the console may overwrite a slot allocated meanwhile (`LocoNetSlotServer.h:52`);
  a request for address 0, from LocoNet or as `dispatch 0` at the console, finds a cleared
  slot and reports or dispatches it although it is not in use (`LocoNetSlotServer.h:71`);
  a slot that is moved after it was offered for dispatch is handed out empty
  (`LocoNetSlotServer.cpp:46`). Of the last two no document or test says what should
  happen. `doc/GeneralOperation.md:96` says that CAN controls only the speed of an engine
  on LocoNet; the code forwards direction and functions as well
  (`LocoNetForwarder.cpp:88-139`), so the sentence is out of date.
* Download: the flag that `startTimerImmediate()` sets inside `loop()` is reset at
  its end, so the first request is a period late; any stream on the bus moves the
  state machine to DOWNLOADING, where its timer has no effect; late answers of
  repeated requests may leave engines out or give one the details of another;
  while the protocol is unknown the tries are counted but the ping is sent only
  once, so that a central switched on later is never asked
  (`CanEngineDBStateMachine.h:39`, against `doc/GeneralOperation.md:90`);
  a console download with an unknown protocol clears the database and lets the
  lamp blink for good; one that races another may end COMPLETE and empty.
* Stateless: a go that waits in a queue undoes a stop of the line that came after
  it, because the loop looks at the lines first (`RoutingTask.cpp:120`); with two
  keys down the first turnout is never switched off, a frame without an address is
  sent instead, and its keyboard stays stuck (`I2CForwarder.cpp:114`); a press of
  a line within 100 ms of the last one is ignored also if the other line was
  pressed in between; after 49 days the wrap of the clock can leave a line deaf
  (`Debounce.h:50`); addresses above those of LocoNet come out there as others.
* Timers: the command to go on with a late timer undoes a stop sent before it
  (`lib/freertos/timers.c:826`), and the service asserts that it has room for it in a queue
  that others fill (937).

The properties are stated so that they hold next to these: each condition in a
property (`typed = 0`, `env.late = 0`, `frame = 0`, `errors = 0`, `Alone`, the members of `passed` and
`asked`) names
the case it leaves out.

## 7. What is not modelled

* The CAN driver `hal/stm32can.cpp`: its queues are the unbounded queues of the other
  modules. Its breakpoint at a full queue and its wait for a mailbox depend on the pace of
  the bus and on a library outside the repository.
* The bit layout of the LocoNet messages (functions, slots), and slot number 127, for which
  `findSlot()` returns the end of the table.
* Races that no property catches although the code is exposed to them: the late
  acknowledge failure that ends the wrong I2C message (`ConsumedWasSent` is about the time
  before the first error), what a download from the console leaves in the database when
  it races another, and a message dropped at a full LocoNet queue.
* DISABLED mode of the slot server: the routing of engines then does nothing.
* Settings: three bytes written by FlashFairy, which is not in the repository.
* `LocoNetPrinter`, `FaultHandler`, board support, the command table and the word
  matching of the command line: no shared state and no order to get wrong.
* Of FreeRTOS, what the firmware never calls (stream buffers, event groups,
  co-routines), and waits that end because the tick count has come round. microrl,
  RR32Can, LocoNet, libopencm3 and the ring buffer are third parties; what the code
  uses of them is marked external in the map.
* More than 40 engines: `streamComplete()` does not look at the end of the table;
  `SizeAssumption` of `EngineDownload` excludes it.

## 8. Plan

Done: `I2CBus`, `EngineRouting`, `EngineDownload`, `StatelessRouting`, `Kernel`,
`Mutex`, `TimerService` with `Timers`, `SerialOut`, and the proofs of section 5.
What is left, the most useful first:

1. `TxFifo`, an abstract specification of what the transmit path of `I2CBus`
   promises (accepted messages leave in order, each once), with `I2CBus` shown to
   implement it; the same for the pair of buses in `EngineRouting` (one shared
   engine state).
2. `CanDriver`: the receive queue and its breakpoint, the blocking send.
3. `LocoNetCodec`: the function bits of `LocoNetHelpers` as
   operators, checked against a reference for all values.

Runs stay one per question.
