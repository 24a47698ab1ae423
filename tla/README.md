# Formal models of the STM32F407 firmware

TLA+ specifications of the firmware's own code: the Modbus slave under
`Driver/FreeModbus`, the memory manager and the delays under `Driver/System`, the
Ethernet rings with their interrupt and their start-up, and the tasks of `main.c`
on the part of FreeRTOS they use, with CAN and RS485.  TLC checks small
instances; TLAPS proves the main properties for every value of the constants.

## The system

The firmware is a Keil MDK project for an STM32F407 with FreeRTOS.
`User/main.c` sets the interrupt priorities to group 4, configures the LED, the
RS485 transceiver on USART2 and the two CAN controllers, and starts a task that
creates three others: one blinks the LED, one sends a byte on RS485, one sends
a frame on each CAN controller, each every 500 ticks.  Linked in and ready to be
started by an application are the FreeModbus slave and the lwIP interface.

| part | source | state | operations | talks to |
|---|---|---|---|---|
| Modbus RTU link layer | `FreeModbus/rtu/mbrtu.c`, `mbcrc.c` | receive and send state, the frame buffer, positions | start, stop, receive, send; one state machine each for a received byte, a sent byte and the t3.5 timer | called back by the serial and timer ports, posts events |
| Modbus port | `FreeModbus/port/*.c` | one event slot; USART2 and TIM2 registers | post and get an event; enable and disable interrupts; the two interrupt handlers | USART2 (priority 1), TIM2 (priority 3) |
| Modbus protocol core | `FreeModbus/mb.c` | `eMBState`, the handler table, the request being executed | init, enable, disable, close, register a handler, poll | link layer, handlers |
| Modbus function handlers | `FreeModbus/functions/*.c` | none (they rewrite the request into the response) | ten function codes | register map |
| Modbus register map | `FreeModbus/modbus.c` | input and holding registers, coils, discrete inputs | four callbacks | handlers |
| Memory manager | `System/malloc.c` | a block table and a ready flag per bank | init, malloc, free, realloc, usage | Ethernet and lwIP start-up |
| Ethernet driver | `Peripherals/eth.c`, `Hardware/phy.c` | DMA descriptors and buffers | allocate and free buffers, configure, take a packet, hand one out | ETH interrupt (priority 0), memory manager |
| lwIP glue | `Lwip/app/*.c`, `arch/` | the lwIP heap and pool pointers, DHCP state | start-up, packet input and output, periodic timers, DHCP | Ethernet driver, lwIP |
| Tasks | `User/main.c`, `Hardware/485.c` | none but the stack | `start_task`; blink, send a byte on RS485, send CAN frames, then `vTaskDelay` | kernel, USART2, CAN |
| Kernel | FreeRTOS `tasks.c`, `port.c` | tick count, ready and delayed lists, pended ticks, the running task | `vTaskDelay`, tick interrupt, context switch | tasks; PendSV and SysTick (lowest priority) |
| CAN | `Peripherals/can.c` | mailboxes and filters (hardware) | configure, send and wait, receive interrupt | task3 |
| Delays | `System/delay.c` | the SysTick counter; factors | `delay_us`, `delay_ms`, `delay_xms` | SysTick, kernel |
| Board | `Peripherals/{timer,usart}.c`, `Hardware/led.c` | registers | configuration | |

What is hard in it: the Modbus slave shares its frame buffer and state between
a task and two interrupt handlers of different priority, mostly without a
critical section; its single event slot can be overwritten; its handlers clear
interrupt flags after the work that may raise them again.  Start-up code
allocates in several steps of which one may fail, and retries.  The register
handlers have many boundaries (address, count, byte count, bit offset).  The
tick count wraps while tasks sleep, and ticks come in the middle of `vTaskDelay`;
the delays count a timer that reloads between two reads of it; the task of the
highest priority polls a CAN bus that owes it nothing.

What makes the parts correct: the Modbus slave answers every undamaged request
to it exactly, answers nobody else, never runs outside its buffer and always
returns to listening; the memory manager never hands a block out twice and
loses none; the register map changes and returns exactly the registers named;
every Ethernet frame is accounted for once, handed on in order, and an accepted
one is sent as it was given; a failed start leaves nothing behind and one with
room comes up; a delay never ends early and always ends; a task sleeps exactly
as many ticks as it asked for, the highest ready one runs and none starves; a CAN
call reports a failure exactly when its own frame failed.

## Modules

| module | models | used by |
|---|---|---|
| `ModbusRTU` | link layer, port and the event loop of `eMBPoll`, with USART2, TIM2 and a master | `MCModbusRTU`, `ModbusRTUProofs` |
| `ModbusCore` | application interface and handler table of `mb.c` | `MCModbusCore`, `ModbusCoreProofs` |
| `ModbusRegisters` | function handlers on the register map | `MCModbusRegisters`, `RegistersProofs` |
| `Heap` | what a bank of memory promises | `MemPool` |
| `MemPool` | one bank of the memory manager | `NetStart`, `MemPoolProofs` |
| `NetStart` | `lwip_comm_init` with its allocations and retries, beside an application on the same bank | `MCNetStart`, `NetStartProofs` |
| `Ethernet` | descriptor rings, packet input and output, `ETH_IRQHandler` | TLC directly, `EthernetProofs` |
| `Delay` | the three delays on SysTick | `MCDelay`, `DelayProofs` |
| `Kernel` | sleeping, ticks and context switches of FreeRTOS | `Tasks` |
| `Can` | sending on two CAN controllers | `Tasks` |
| `Tasks` | the tasks of `main.c` on `Kernel` and `Can`, with USART2 | `MCTasks`, `TasksProofs` |

The `MC...` modules only give constants their values; the `...Proofs` modules
only hold theorems.  Definitions called "Mutant of X" are X with one plausible
mistake; nothing else refers to them.  They show that the properties can fail.

### ModbusRTU

Variables have the names of the statics in `mbrtu.c`, `portevent.c` and `mb.c`;
`rxne`, `ore`, `tc`, `rxIE`, `tcIE`, `timOn` and `timFlag` are bits of USART2 and
TIM2.  `serPc`, `timPc` and `mainPc` are the program counters of the two
interrupt handlers and of the task.  A context runs only while no interrupt of
higher priority is pending.  Handlers are cut where one of higher priority can
get in between and be noticed: `xMBRTUTimerT35Expired` is four steps (post the
event, disable the timer, set the receiver idle, clear the flag),
`USART2_IRQHandler` two (state machine, clear the bit), one round of `eMBPoll`
up to six.  Code in `ENTER_CRITICAL_SECTION` is one step.

A byte is a token, the place it has in a request or response, so that the
properties can tell one frame's bytes from another's.  A CRC is right exactly
when the bytes are one undamaged frame; collisions of CRC-16 are left out.
`Timing` says how late interrupts are served: "free" any time, "prompt" within a
character time, "patient" that and a master that waits for the slave to finish.
`StallsAfter` says at which of its steps the Ethernet interrupt (priority 0) may
hold `USART2_IRQHandler` for a character time.

### ModbusCore

`xFuncHandlers` is the table; `scan` is the position of the search in `eMBPoll`,
which is outside the critical section, goes entry by entry and reads the code
before the handler.  `Uses` says what the application does beyond registering
new handlers (remove, rebind, share, register from a preempting task,
initialise again).  `bound` remembers what the registrations said.

### ModbusRegisters

One action per function code; each is the handler, its callback and the reply.
Byte width, register count, coil count and limits are constants, and addresses
and counts wrap as 16-bit values do.  The bit helpers work on words, with the
byte behind the coil buffer that they read and write.  `Number` is the value a
field of bits stands for, `Pow2` the powers of two it needs.  `InBuffer` says that
the frame buffer (256 bytes) reaches as far as the longest write a handler
accepts (247 and 253 bytes with the header, for functions 16 and 23).

### Heap and MemPool

`memmap` is the block table and `live` what callers hold.  `Search` is the
downward loop of `my_mem_malloc`, a `Turn` for each block, with its run counter.  Every function brings
its lazy initialisation with it.  `RefinesHeap` says that the bank implements
`Heap`, whose one variable is `live`.

### NetStart

`NetStart` extends `MemPool`: an application allocates, reallocates and frees, then
`main` calls `lwip_comm_init` until it returns 0 (the loop at `main.c:135`, which
is commented out in this build).  `ptr` is the four pointers of `eth.c`, taken and
released one at a time.  A failed attempt leaves them set, as the code does, and
the next one then only releases; `my_free` of a block that is free already does
what the table says, nothing.  Nobody else uses the bank during the loop: `main`
is its only context.  `netif_add` is taken to succeed: its callback always
returns `ERR_OK`.  With the real sizes, and no other user, the parts need 246 of
the 480 blocks, so the first attempt succeeds.

### Ethernet

`rxOwner` and `txOwner` are the OWN bits; buffers hold the number of a frame.
`irq` and `out` are the program counters of the interrupt handler and of
`low_level_output` in the main loop and in the handler, one step per access to a
descriptor.  The DMA and lwIP are external: the DMA stores, misses and sends
frames between any two steps and suspends itself when it finds nothing to send;
lwIP answers a frame with at most one frame.  `Preempt` says whether the
interrupt may come in the middle of an output of the main loop.  The two flags
cleared at the end of the handler are cleared in one step.  Looking at the
transmit descriptor and suspending is one step of the DMA.  A frame longer than
one buffer is not modelled, nor is the choice of a compiler to keep
`DMATxDescToSet` in a register.

### Delay

`VAL` counts down from `LOAD` between any two steps of the caller, so that it may
be held for any number of cycles.  `delay_init` sets `LOAD` to the cycles of a
tick and the kernel, when it starts, to one less: `running` says which.  Numbers
wrap at `W` as the code's `u32` does.  `elapsed` measures the call.  A sleep in
`delay_ms` is counted in ticks, the first of which may come at once.

### Kernel, Can, Tasks

`Kernel` has the lists and counters of `tasks.c`.  `vTaskDelay` is cut where a tick
can be noticed: suspend the scheduler, move to a delayed list, enter the critical
section of `xTaskResumeAll`, make up for one pended tick at a time, leave it, yield.
The tick and PendSV are taken between any two of these steps unless masked.
`wake` is the list item's value, `elapsed` a history variable: ticks since the
task called.  What a task does between two delays is not in `Kernel` but in
`Tasks`, which composes it with `Can` and USART2 and names the work of each task;
every step of `Tasks` is one of `Kernel` or leaves its variables alone (theorem
`TasksUseKernel`).  `MaxBusy` bounds the ticks that come before the processor is
idle again.  Priorities differ, as those of `main.c` do, so there is no
round robin.  The timer task is left out: it waits for a command that never
comes.

`Can` has one state per mailbox and the locals of the call in progress; `fate` is
what has become of its frame.  `POLLS` is the bound `0xFFF` of the wait.  Another
read that finds no failure ends the wait.  The bus, which is external, sends or
fails the pending frame of the lowest mailbox, or does nothing for ever.

## Runs

| run | shows | bounds and why they are enough |
|---|---|---|
| `rtu_patient` | every kind of frame is treated as Modbus wants: a request to this slave is executed on the bytes that were received, answered completely and once; nobody else is answered | buffer of 5 (shortest frame 4), so frames are below, at, and above every limit; 3 frames, so that each follows each other |
| `rtu_free` | with bytes and interrupts at any moment, the handler of a received byte held as long as one likes, and a restart in between: a transmission always has its next interrupt, the slave always listens again unless an overrun keeps the interrupt pending (the case of `rtu_overrun`), half duplex, the receiver has its timer, the transmit pointer stays in the buffer | 2 frames and 1 restart: the second frame and the restart meet each step of the first; t3.5 may cut a frame anywhere or join two, so one kind of frame gives short, whole and oversized receptions. The handler is not held between its write of a byte and the clearing of TC, where the transmission stops for good; the theorems about the last three have that too |
| `rtu_overrun` (violation) | an overrun after the handler has cleared RXNE raises the interrupt without end | 1 frame |
| `registers` | reads answer and writes change exactly what they name, refused requests change nothing except the write half of function 23; coils and discrete inputs likewise, with writes of up to one byte and zero padding | one master of the registers or one of the coils; bytes of 3 bits, 2 registers, addresses at both ends of the 6-bit range; 2 bytes of 3 coils: every offset in a byte, every crossing |
| `reg_coils_many` (violation) | the second byte of a long coil write goes to the place of the first | as above |
| `core` | handlers are registered, also by a task that preempts the search, and removed between requests: a request gets the handler registered for its code, and one is out of reach only behind a free entry; no null pointer is called | 3 entries for 4 codes and 4 handlers: the table fills up, refuses, and has holes at every place |
| `netstart` | allocations never overlap, the table says what callers hold, the search finds the highest run exactly when there is one, the bank implements `Heap`; a failed start leaves the bank as it was, and the first one comes up when there is room | 6 blocks and 4 parts of one block: every way to fragment the bank, a start that fails at each of its allocations, and one that succeeds in one hole or in several |
| `eth` | every received frame is accounted for once and reaches lwIP in order; the DMA sends accepted frames once and in order, except the oldest one when an output meets a full ring; accepted frames are sent; a frame never waits longer than until the next is stored | rings of 2, 3 arrivals and 2 outputs: both rings fill, empty and wrap; `MaxLate` 1 (all but one descriptor) |
| `delay` | in range, no delay ends early, whatever happens between two reads of the counter; every delay ends unless its count is within a period of the width | `W` 16, periods of 4 and 5 cycles: counts of none to three periods, and a count so near the width that the sum can jump over it |
| `tasks` | the three tasks: the highest ready task runs, each wakes with exactly the tick it asked for, each works again and again however the CAN bus behaves, and a CAN call tells of its own frame whether it was sent or has failed | a tick count that wraps every 4 ticks with delays of 3, so that sleepers are in both lists at each wrap; 2 ticks before idle, which a task can meet at any two points of `vTaskDelay`; 1 mailbox, so that it is taken at times; 2 polls |
| `tasks_can` (violation) | with every mailbox taken the frame is dropped and the call returns 0, although `CAN_TransmitStatus` is to say "Failed" of all that was not transmitted | as `tasks`: with one mailbox the second frame on a controller finds it taken when the bus is quiet (with three the fourth does) |
| `eth_preempt` (violation) | an answer sent from the interrupt overwrites the frame the main loop has just handed over | rings with room, 1 arrival, 1 output |

Deadlock checking is off where the bounded environment may come to its end
(`reg_*`, `eth*`).

Fairness.  `ModbusRTU`: pending interrupts are taken and return, the scheduler
runs the task, the USART and the timer finish what they began, and the master
finishes a frame it has begun; it need not begin one.  `NetStart`: the loop of
`main` goes on, and a link that can come comes; without a cable the code waits
for ever.  `Ethernet`: the DMA works, the interrupt is taken, its handler and the
output of the main loop run on; nothing has to arrive.  `Delay`: the counter runs
and the caller runs on; a caller that finds new values of the counter again and
again reads one of them (strong fairness of `Count`), since a round of its loop is
far shorter than a period.  `Tasks`: the processor runs what is
chosen, takes its interrupts, and USART2 sends what it is given; the CAN bus owes
nothing.  That a task comes to sleep within `MaxBusy` ticks is a bound of the model
and an assumption of `EveryTaskRuns`: the bodies take about a millisecond (one
byte at 115200 baud, at most 4095 polls) against delays of 500.  The
theorems about `Kernel` hold for every `MaxBusy`.  `ModbusCore`, `ModbusRegisters`:
no fairness.  All of it is what the NVIC, FreeRTOS and the hardware do as long as
no interrupt storms; `rtu_overrun` is the case where one does.

## Where code and documents disagree

Four disagreements are kept as runs (see above).  Others met on the way:

- `eMBRTUSend` sends also when the master has meanwhile sent another complete
  frame, which its comment excludes (`mbrtu.c:193-197`).
- a legal 256-byte frame contradicts the assert at `mbrtu.c:156`; USART2 between
  the steps of the timer handler contradicts the one at `mbrtu.c:351`; a restart
  during a response the one at `mbrtu.c:235`.  The asserts are compiled out.
- function 3 drops the high byte of its count (`mbfuncholding.c:185`); function 16
  accepts requests that end before their values (`mbfuncholding.c:118`); coil
  writes do not mask padding bits (`mbutils.c:77`); the last input register, coil
  and discrete input cannot be read (`modbus.c:52`).
- after a handler is removed, those behind it are out of reach (`mb.c:376`;
  `core` says exactly when); a code registered twice keeps its first handler and a handler registered for a
  second code loses the first (`mb.c:237`); a failing `eMBInit` moves a running
  stack to the new address (`mb.c:140`); `eMBDisable` of a disabled stack reports
  success (`mb.c:319`).
- a start of the network that failed for want of memory can never succeed later:
  the pointers stay set after `my_eth_mem_free` (`eth.c:12`), so every later call
  takes the branch that only releases (`eth.c:37`) and returns 1.
- the comment at `lwip_comm.c:72` promises five attempts to find a link; the loop
  has no bound.
- `delay_us` is documented for 0..204522252 microseconds (`delay.c:45`: 2^32 over the
  factor of an eighth of the clock); with the full clock the product at
  `delay.c:51` wraps from 25565282 on.  Likewise `delay_ms` for 0..65535
  (`delay.c:67`) before the scheduler runs: it wraps from 25566 on.  The theorem
  `DelaysNeverEarly` has the true ranges as its assumption `InRange`.  With the
  scheduler running `delay_ms(n)` may end up to a tick early, as every
  `vTaskDelay(n)` does; `NeverEarly` allows for that.
- `stm32f4xx_can.c:781` has `CAN_TransmitStatus` return "CAN_TxStatus_Failed in an
  other case" than transmitted. It returns Pending for "no mailbox" (run
  `tasks_can`) and for a frame that still waits; `can.c:49` waits only while the
  status is Failed.  So a frame that still waits is reported as sent too, and the
  4095 reads wait for a status that does not change any more.  `Verdict` is about
  frames that were sent or have failed only.

## Proofs

All theorems hold for every value of the constants that the named assumptions
of the modules allow.

`MemPoolProofs`: `TypeCorrect`, `AllocationsDisjoint`, `TableExact` and
`ImplementsHeap`.  The invariant is `TypeOK /\ NoOverlap /\ TableMatches`: none is
inductive alone, since an allocation trusts the table about what is free and a
release trusts it about how long a run is.  `Describes` states it of values, so
that the state between the allocation and the release of `myrealloc` has it too.
`SearchCorrect` is about the loop itself: for every table of every size it finds
the highest free run of the length asked for, exactly when there is one.
`Counting` is its loop invariant: the counter is the whole row of free blocks
above the one to be looked at, and no run begins above.  That the loop (a
recursive function) exists and keeps the invariant is shown by the smallest
number of turns for which it would not (`LeastNat`).

`NetStartProofs`: the same properties for `NetSpec`, the start-up and an
application on one bank (`NetAllocationsDisjoint`, `NetTableExact`,
`NetImplementsHeap`, `NetSearchCorrect`, `NetTypeCorrect`), and `StartAllOrNothing`:
a start that goes on holds four parts, one that failed has left the bank as it
was.  The invariant `NetInv` adds to that of `MemPool` the types, that pieces are
new (`PiecesNew`: what the start has taken was not held before it) and `Held`: at
each step of `eth_mem_alloc`, the check and `my_eth_mem_free`, which pieces are held
beside those from before.  A retry releases pointers that were released before;
the proof has to show that those releases hit nothing.

`ModbusRTUProofs`: `TypeCorrect` and `TransmitStaysInBuffer` from `Typed` (types
with the transmit window, since the pointer is only bounded together with the
count); `ReceiverKeepsTimer` is inductive with types; `StaysHalfDuplex`, assuming
`~StopWhileSending`, from `DuplexInv`, which adds when the task is past its
initialisation; `TransmitterKeepsInterrupt`, assuming also that nothing holds
the handler before it clears TC (`"TC" \notin StallsAfter`), from `ArmedInv`.  Both assumptions are needed: each case they leave out breaks the
property.

Its second part is about whole requests, for a `PatientMaster` (`Timing = "patient"`
and `~StopWhileSending`) and any buffer size, requests, number of restarts and
delays of the USART2 handler: `ExecutesWhatArrived`, `NobodyElseAnswered` and
`WholeResponseSent` are the three properties of `rtu_patient` that are not liveness.
Nothing in the code ties an event in the mailbox to what the shared buffer holds
when the event is read.  `PatientInv` supplies the tie: a request is in the slave
at one stage at a time (`OneRequest`: queued, read, being handled, being sent), and
at each stage the buffer is what that stage takes it for (`RcvInv`: a prefix of the
frame on the line; `HeldInv`: the frame; `TakenInv`: the PDU handed out; `SendInv`:
the answer, of which the line has what the transmit pointer has passed;
`ShiftInv`: nothing is left in the transmitter when TC is seen after the last
byte).  It needs the half duplex of `DuplexInv`, that an enabled slave listens
unless it sends (`Enables`), and that t3.5 expires only between frames (`LineInv`).
Patience is needed: a master that sends earlier has its next frame received into
the buffer while the answer is still being built, and TLC then finds each of these
properties violated.  Stopping the slave during a response is left out because
nothing follows it: the transmitter stays in `TX_XMIT`, its interrupt off, and a
patient master waits for ever.

`AnswersEveryRequest` is the safety half of `EveryRequestAnswered`: until the
application first calls `eMBDisable`, a slave that is idle again has answered every
undamaged request to it that fits its buffer, so no event was overwritten in the
one-place mailbox and no byte missed.  `LossInv` adds to the above that no event of an
earlier request is left to be overwritten by a later one (`NoStaleEvent`), and that
the request on the line is answered, coming in or in the slave (`LastKnown`).
`NoSecondAnswer` is the other side, with restarts: no transmission answers a
request that was answered before (`NotYet`: a request that is coming in or in the
slave is not answered).

`ModbusCoreProofs`: `TypeCorrect`; `NoNullCall` from `NullInv` (an entry has a code
exactly when it has a handler; a hit is an entry of the table), assuming that no
task that preempts the search also removes; `RequestsServed` from `TableInv` (codes
and handlers distinct, entries as registered, and no entry the search has passed
was free or had the code of the request),
assuming that nothing is removed under a search, rebound or shared; removals
between requests are allowed.  `SearchAnswers` is the step property from the same
invariant.  `AddressKept` assumes that `eMBInit` is not called again.  `FirstSlot`
gives the least element of a non-empty set of entries by well-foundedness.

`DelayProofs`: `TypeCorrect`, and `DelaysNeverEarly` assuming `InRange` (the products
fit the width) and `Tells` (`elapsed` is not capped too early).  The invariant is
`TypeOK /\ Places /\ Target /\ Bound`: `Bound` says that what the caller has added up
plus what the counter has run since the last read (`Since`, taking the smallest
number of reloads) never exceeds what has elapsed; `Slept` says the same of a
sleep, tick by tick.

`RegistersProofs` has every property of the run `registers` for all widths of a byte,
numbers of registers and coils, limits and requests: `RegistersTypeCorrect`,
`WritesAreExact`, `CoilReadsAreCurrent`; `ReadsAreCurrent`, assuming `ShortCounts`
(function 3 drops the high byte of its count), and `CoilWritesAreExact`, assuming
`OneByteWrites` (a write of more than a byte, or one with padding that is not zero,
does damage other coils; `reg_coils_many` shows the first).  The invariant is
`RegInv`: types, and `Held`, that the registers still hold what the last request
wrote, since `eMBSetSlaveID` may come between two requests; `CoilsHeld` is the same
of coils.  It rests on lemmas about addresses (`AddressKept`: adding one in the
handler and taking it off in the callback loses none, 0xFFFF included), bytes
(`WordSplit`, `WordsReadBack`) and bits: `Pow2Multiples`, `LowBitsKept`, `TopBitSet` and
`NoHighBits` give `AddingEncodes`, one more bit of a field, and from it `FieldRead`
(what `xMBUtilGetBits` returns has exactly the bits of the field) and `FieldWritten`.
`IterationExists` is the existence of the recursive functions, once for all three.

`EthernetProofs`: `EthernetTypeCorrect`; `FramesAccounted`; and `AcceptedInOrder`,
assuming `~Preempt` (`eth_preempt` is the case it leaves out).  On the receive side
`RxInv` is `RxTypes /\ RxOrder /\ RxHandler /\ RxSets`: the descriptors of the CPU are
those from the read to the write position, their frames in the order of arrival
and later than all that lwIP has; what the handler has in hand at each of its
steps; and the sets of frames with lwIP, in hand, in the ring, dropped and missed
are apart and together all that came.  On the transmit side `TxInv` is `TxTypes /\
OneOutput /\ TxOrder /\ TxStored /\ TxFilling /\ TxSent`: at most one output is under way,
the descriptors of the DMA are those from its position to the driver's, they hold
the last frames accepted in order, but for one being overwritten, and what was
sent is what was accepted before.  The ring lemmas (`NextPlace`, `RingGrows`,
`RingShrinks`) say how a stretch of descriptors changes at either end for every
size.

`TasksProofs`: `KernelTypeCorrect`, `ProcessorWithHighest`, `TasksWakeOnTime` and
`EmptyWhenSwitched` (the assertion of `taskSWITCH_DELAYED_LISTS`, `tasks.c:206`) for
`KernelSpec`, that is for any tasks of different priorities, any delays and any
width of the tick count.  The invariant is `KernelTypeOK /\ OneList /\ Ahead /\
Control /\ HighestRuns`.  `Ahead` relates each sleeper's wake time to the count, to
its list and to the ticks it has slept; it needs `OneList` (a task is ready or in
one delayed list) and `Control` (only the running task is inside `vTaskDelay`, with
no switch pending, and ticks are pended only then).  `TickStep` is the one lemma
about `xTaskIncrementTick`, used for the interrupt and for each tick made up
later.  `TasksUseKernel` shows that `Tasks` implements `KernelSpec`; with it
`TasksOnTime` has the two properties for the firmware.  `VerdictOnOwnFrame` follows
from what `fate` and the mailbox of the call say of each other.  `TasksTypeCorrect`
has the types of all of `Tasks`.

Only model-checked: liveness (`ListensAgain`, `EveryRequestAnswered`, `AcceptedSent`,
`ServedWithNext`, `Ends`, `StartsWithRoom`, `EveryTaskRuns`), since fairness and
`ENABLED` are out of the prover's reach.  Every other property that a passing run
checks is a theorem, under the assumptions named above.  `EveryRequestAnswered`
and `Ends` have their safety halves proved: what a slave that is idle again has
answered, and what a delay that ends has waited for.

## Plan

1. An abstract request-response link that `ModbusRTU` implements for a patient
   master.
2. `ModbusAscii`: the state machines of `mbascii.c` (not built in this
   configuration), implementing the same link.
3. DHCP states and the periodic timers of `lwip_comm.c`; frames that span
   descriptors in `Ethernet`.

## Not modelled

Register-level configuration (GPIO, clocks, NVIC, baud rates, PHY), LED, timer and
USART set-up, and the vendored code: FreeRTOS beyond what `Kernel` says, lwIP, the
ST libraries, CMSIS.  They appear only through how the firmware uses them.  The
CAN receive interrupts only store into a variable nothing reads.  The DHCP
handling and the periodic timers of `lwip_comm.c` have no caller in this build.  Modbus ASCII and TCP are
compiled out (`mbconfig.h`).  CRC tables are not computed.  Contents of memory
copied by `myrealloc`, and the percentage `my_mem_perused` computes, are not modelled.
