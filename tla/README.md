# A verification development for eMote

TLA+ models of the concurrent core of eMote 4.4, a .NET Micro Framework for
sensor nodes, with the instances TLC checks and the theorems TLAPS proves.
Paths are relative to the root of the repository; `pal` is
`src/DeviceCode/pal`.

## 1. The system

eMote runs managed programs on a microcontroller.  One thread of the processor,
the CLR, interprets the managed threads; everything else happens in interrupts
or in callbacks that the CLR runs between two quanta.  There is no preemptive
kernel: GLOBAL_LOCK switches interrupts off, and whatever is not under it can be
interrupted.

| component | state | operations | who it talks to |
|---|---|---|---|
| asynchronous calls of the PAL (`pal/AsyncProcCall`, `pal/events`) | list of completions in order of time, list of continuations, event flags, compare register | EnqueueDelta, EnqueueTicks, Abort, DequeueAndExec, Dequeue_And_Execute, Events_Set, Events_Get, Events_WaitForEvents | time driver below, CLR and drivers above |
| intrusive list (`src/DeviceCode/include/tinyhal.h`) | next and previous pointers | Insert, Unlink, LinkAtFront, LinkAtBack, ExtractFirstNode, ... | every queue of the PAL |
| virtual timers (`pal/Samraksh/VirtualTimer`) | a table of timers, the alarm of a hardware timer, a pool of continuations | SetTimer, ChangeTimer, StartTimer, StopTimer, VirtualTimerCallback | hardware timer below; MACs, eMote time above |
| eMote time (`pal/Samraksh/eMote_Time`) | one virtual timer, VIRT_TIMER_EVENTS | HAL_Time_SetCompare, SetCompareHandler | completions above, virtual timers below |
| time drivers (STM32F7, STM32H7) | counter, compare, alarm, software upper half of the time | CurrentTicks, SetCompare, interrupt handlers | the hardware |
| CLR execution engine (`src/CLR/Core`) | lists of ready, waiting and zombie threads; locks with queues of requests; wait handles | ScheduleThreads, Start, Sleep, Suspend, Resume, Abort, Join, Monitor.Enter and Exit, WaitOne/Any/All, Set, Reset | the interpreter; ProcessActivity and WaitForEvents of the PAL |
| managed timers (`src/CLR/Core/CLR_RT_HeapBlock_Timer.cpp`) | list of timers with time, period and flags; one thread for their callbacks | Create, Change, Dispose, CheckTimers, SpawnTimer, the end of the thread | the scheduler, the collector |
| heap persistence (`src/CLR/Core/HeapPersistence`) | extended weak references, two banks of flash, a state machine | SetTarget, InvalidateEntry, AdvanceState, FlushAll, Initialize | the collector, a completion, block storage |
| CSMA MAC (`pal/Samraksh/Wireless/MAC/CSMAMAC`) | send and receive buffers, the answer it waits for, three virtual timers | Send, SendToRadio, SendAckHandler, ReceiveHandler, beacon | radio drivers, virtual timers |
| SX1276 radio driver (`src/DeviceCode/Targets/Native/radio/SX1276`) | what the radio does, the transmission timeout | SetRx, StartCad, SetTx, DIO0 interrupt, OnTimeoutIrq | the MAC above, SPI below |
| OMAC MAC (`pal/Samraksh/Wireless/MAC/OMAC`) | neighbour table, scheduler state, time models | | radio drivers, virtual timers |
| heap, garbage collector, type system, messaging, debugger (`src/CLR`) | heap, metadata, packets | | |
| storage: wear leveling, FAT, update, data store | block map, sectors | | flash drivers |
| serial ports, USB | transmit and receive queues | | interrupts |
| boot loaders, small PAL services, vendored libraries, managed framework, tools | | | |

How the modelled parts interact: a client arms a *completion*; the list keeps
the earliest one's time in the compare register (on the STM32F7), or in a
*virtual timer* that shares an alarm with the timers of the MACs (eMote time, on
the STM32H7).  The interrupt takes the completion off the list and runs its
callback, or queues it as a *continuation* for the CLR.  The CLR runs ready
managed threads, and when there are none it waits in `Events_WaitForEvents`,
running continuations meanwhile.  The MACs and the radio driver are clients of the
virtual timers, and run their callbacks as continuations too; the radio's
interrupt calls back into the MAC.  The persistence manager is a client of a
completion, and works when the engine has idle time.  Managed timers are looked at
by the scheduler after each quantum, and their callbacks are managed code.

What is hard here, and what a test on a board would hardly reach:

- the compare register, or the alarm, is written by the thread, the interrupt
  and the idle loop in turn; if it is ever left without the earliest deadline,
  the timer is lost for good;
- times and table entries are written before a lock is taken, or while the
  object is linked;
- callbacks enqueue, abort and start the very objects that are being served;
- small pools and tables (20 virtual timers, 8 continuations) that fill up;
- the radio's interrupt and the timers' callbacks take from the same buffer, turn
  the same radio round and wait for each other's answers, timeouts included that
  belong to a transmission that is over;
- power may fail between any two writes to flash, in the middle of a compaction,
  while the program replaces the very objects that are being copied;
- one thread runs the callbacks of all managed timers, which may be changed,
  disposed or collected between the moment they fall due and the callback's end;
- the engine's lists are walked while the threads in them are moved, by signals,
  grants, timeouts, aborts, suspends and the end of a thread.

`PROJECT.json` lists each hazard at its line, with the properties that stand for
it, or why none does yet.

## 2. The modules

| module | models | EXTENDS / INSTANCE |
|---|---|---|
| `LinkedLists` | the list's operations on sequences | |
| `NodeLists` | several lists of nodes, abstractly: a node is in one list at most | LinkedLists |
| `DblLinkedList` | the list down to its pointers and shared sentinels; implements `NodeLists` | LinkedLists, NodeLists |
| `TimerService` | what `HAL_COMPLETION` promises | |
| `Completions` | completions, continuations, events and the idle loop on the STM32F7; implements `TimerService` | LinkedLists, TimerService |
| `VirtualTimers` | a mapper of virtual timers on the STM32H7's TIM5 | |
| `EmoteTime` | the completion list over a virtual timer | VirtualTimers, LinkedLists |
| `ClrThreads` | managed threads, monitors and wait handles | LinkedLists |
| `ClrTimers` | managed timers and their thread | LinkedLists |
| `HeapPersistence` | the persistence manager over two banks of flash that may lose power | LinkedLists |
| `PacketQueue` | what a send buffer promises | |
| `CircularBuffer` | the ring of pointers, as operators | |
| `CsmaMac` | the CSMA MAC on the SX1276 driver; its send buffer implements `PacketQueue` | CircularBuffer, PacketQueue |
| `LinkedListLemmas` | what the operations of `LinkedLists` keep and return | LinkedLists |
| `DblLinkedListProofs`, `CompletionsProofs`, `ClrThreadsProofs`, `ClrTimersProofs`, `HeapPersistenceProofs`, `CsmaMacProofs` | theorems about the module of that name | that module, LinkedListLemmas (all but `CsmaMacProofs`) |
| `EmoteTimeProofs` | theorems about `VirtualTimers` and about the composition | EmoteTime, LinkedListLemmas |
| `MC...` | definitions the instances need | |

### Completions

`completions`, `eventTicks` and `continuations` are the two lists and the times;
`nextEvent` and `pending` are the compare register and the interrupt flag.  Two
contexts make calls: the thread, wherever it may (`pc` in the application, in
ProcessActivity or in a continuation), and a callback in the interrupt (`isr`).
`EnqueueDelta` is two actions because it reads the clock before it takes the
lock; every other call is under GLOBAL_LOCK and is one.  `Events_WaitForEvents`
is taken apart at each point where the lock is taken or let go and, between
`SetCompareToExpire` and `ResetCompare`, where only the clock can move.  The
interrupt is one step up to the callback, which is a state of its own.

`ClientMayEnqueue` is what the clients in the tree keep to (Abort first, or
IsLinked): properties that need it are checked with `RelinkAllowed = FALSE`,
the others also with clients that enqueue a completion that is linked, or that
the other context is enqueueing.

### VirtualTimers

`slots` is the order of the table, `timers` the fields of its entries.  `alarm`
is TIM5 with the timer it was set for; `cbRunning` the flag that tells
`SetAlarmForTheNextTimer` to do nothing.  `StartTimer` is two steps, before and
in the lock.  The interrupt runs a callback (`CallbackInInterrupt`, then calls
of that context, then `CallbackReturn`), or queues it (`CallbackToQueue`), or
finds nothing due, or refuses (`CallbackRefused`: the table is full).

Abstractions: `SetTimer`, `ChangeTimer` and `StopTimer` take no lock but are one
step each (their clients own the timer they set); the update interrupt that
setting TIM5 up raises is taken to be served, and ignored, at once; waits
longer than the register are left out, as is `UpdateAlarms`, which sets the
alarm again after a deep sleep has added to the clock.  Only differences of times
matter, so when the clock reaches `MaxTicks` the times on record move back
instead: the model never ends, which the liveness properties need.

### EmoteTime

`HAL_Time_SetCompare` stops the events timer, or changes its delay and starts
it.  `DelayTo` is what becomes of a number of ticks on the way to the timer: capped
at 32 bits, made microseconds with a product of 32 bits, and made ticks again.
`EnqueueDelta` is two steps (`call` holds what it has read of the clock until
`EnqueueTicks` has the lock); the other operations are under GLOBAL_LOCK and one
step each.  `DequeueAndExec` is the callback of the events timer up to
`ptr->Execute()`; the completion's callback then makes its calls as context `isr`,
in the middle of VirtualTimerCallback, and `ExecuteReturns` is the rest of it,
which ends the one shot.

Callbacks abort completions and start and stop other timers in every instance.
They enqueue completions where `CallbacksEnqueue` is set, which is off in the run,
because what follows is a disagreement (section 3).  Completions that do not run
in the interrupt are those of `Completions`: to the events timer a continuation is a
callback that does nothing.

### ClrThreads

`exec` is the state of the execution engine as a record, so that `Unlink`,
`PutInProperList`, `Restart` and `ChangeLockRequestCount` can be written as the
operators that the code composes.  A native call is a step: nothing else runs.
Taken apart are the two walks that change the list they walk, `SignalObject` and
the end of a thread (`Passivate`, `ReleaseLocks`, `DestroyOwner`,
`DeleteLockRequests`).  Threads take their steps in any order.

Left out: execution counters and priorities, static-constructor, system and
finalizer threads, subthreads and constraints, synchronized methods, WaitEvents,
locks of value types, application domains, timeouts of locks (Monitor has none)
and the debugger.

### ClrTimers

`timer` holds the node's flags and times, `timers` is m_timers, `thread` is
m_timerThread: none yet, free to be reused, busy with the callback of `runs`, or
lost.  `ProcessTimer` is UpdateTime, CheckTimers and SpawnTimer in one step, for
the scheduler does them without a break; `CallbackEnds` is the termination
callback, Reschedule and SpawnTimer.  `owed` is a history: a timer that was found
due, until its callback is called, or the program changes, disposes or drops it,
or the next period of its own callback takes over.

Abstractions: times are ticks.  A period is kept only for a timer that recurs, and
m_timeLastExpiration only while the callback runs: they are read at no other
time.  Where Reschedule's sum of 64-bit times overflows, `NextExpire` gives the
times that can come out of it.  Left out: ExtendedTimers (absolute times and
SetFixedExpire), the correction after a change of the time zone, the debugger's
PauseTimers.  Memory may fail for the first thread and for a stack frame.

### HeapPersistence

`flash` is the two banks: a sequence number (0: no header, `Unsequenced`: the
0xFFFFFFFF of a fresh header) and slots with an object, its version, how much of
it is written and whether it is alive.  `target` is m_targetSerialized with
WR_Persisted folded in: an array in RAM, or a slot of the bank in use; `copied` is
m_targetCopied.  AdvanceState is taken apart at every write to flash, so that
power can fail between any two; nothing else interrupts a call of it, and
`running` says who made it: the completion, FlushAll (which calls it twice) or
Initialize.  `latest` is a history: the version of the object that the program set
last.

Abstractions: an object is one slot, written in three steps (part of its header,
all of it, the data), and all have one priority.  `faults` counts what fails: power,
a burst (`WriteFails`), an erasure (`EraseFails`), a sequence number (in
`SwitchBank`, with `FailsUnsequenced`).  An erasure that fails leaves the block
erased or as it was; m_eraseIndex has moved on, so that in a bank of one block
AdvanceState finds no block to erase ever after (`NoSector`).  A torn header leaves a slot that is neither free nor good, as a
CRC that does not match does.  After a restart the references
that were kept in RAM follow those of the bank in any order, which is the order the
heap happens to hold them in.  `SafeObjects` is m_totalSafeBytes.  The comparison
`usedBytes < m_totalSafeBytes` is written `<=` in objects, for a length is never a
whole share of the margin.  Left out: header writes that fail and are skipped, and
with them a Format that fails at every word of a bank; an erasure that fails in a
bank of several blocks, after which the next block is erased and the bank formatted
over what the first one holds; the erasures of Initialize (EraseAll) that fail;
devices that are not mapped into memory, the serialization of objects.

### CsmaMac

`send` and `recv` are rings of `CircularBuffer`, `sendMsg` and `recvMsg` what the
messages hold; the message after the last is the driver's RxTxBuffer.  The thread
(`pc`) runs calls of the client and the callbacks of virtual timers, one at a
time; `SendToRadio` is taken apart where the radio's interrupt can come between:
before carrier sensing, before the packet is taken, before it is sent.  The
interrupt is one step (`SX1276_HAL_TxDone`, `SX1276_HAL_RxDone`) with the MAC's
handler in it.  `SX1276_HAL_TxTimeout` is the second half of the timeout's
callback: the reset of the radio takes long, and the interrupt may come before.
The callback looks at the state of the driver only, so the timeout of an earlier
packet may reset the radio during a later one; the model has this step.
The virtual timers appear as `running` and `queue`, which is what module
`VirtualTimers` provides.

Abstractions: the result of carrier sensing is any; a packet is a name.  Resend
and NetworkOperations_Busy are left out because the SX1276 driver never reports
busy, as is the neighbour table.

## 3. What is checked

Bounds are in the `.cfg` files; each is named as a bound where the constant is
declared.  TLC runs with deadlock checking, except for ClrThreads, where every
managed thread may wait for ever.

| run | instance | shows |
|---|---|---|
| `completions_fair` | one completion run in the interrupt and one by continuation, 3 ticks, a compare register that wraps at 4 | `HeadIsCompare`, the refinement `KeepsTimerPromise`, and that completions fire, continuations run and waits end |
| `completions_relink` | three completions, clients that enqueue what is linked | `NodeInOneList`, `SortedByDueTime`, `HeadIsArmed` |
| `dbl_linked_list` | four nodes, two lists | `WellLinked`: both directions agree and a node is in one list; the pointers implement the sequences |
| `virtual_timers_three` | three timers and a free slot, one served in the interrupt, one-shot and periodic | `AlarmCoversTimers`, `EarliestFirst` |
| `virtual_timers_full` | three one-shot timers and three slots | `AlarmHasTimer`; `OneShotsEnd`: until the table is full a one-shot is served or stopped, and a callback in the pool is called |
| `emote_time_one` | one completion, another client's timer; delays of none, one and four microseconds in a word of 8, in which the last wraps around; callbacks that do not enqueue | `HeadHasTimer`, `TimerIsForCompletion`: the events timer runs for the head, and not without one; `CompletionsFire` |
| `clr_threads_three` | three threads, two locks, aborts of threads that wait for no lock | lists and status agree, requests are counted, owners can release, Enter returns to an owner only |
| `clr_threads_handles` | three threads, an auto-reset and a manual-reset event, suspends of threads that wait for no handle | no wait outlasts its signals, a signal that is taken back has freed a thread, Set returns |
| `clr_timers` | two timers; a one-shot, a recurring timer, a stopped one, a refused period and a refused due time; 2 ticks, one allocation that fails | `ThreadServesTimers`, `OwedIsCalled` |
| `heap_persistence` | two references in banks of two slots, of which one may be used; three sets, two faults, which are losses of power outside the time from Format to SetSequence, bursts and erasures that fail | `PersistedIsStored`, `RestartKeeps`, `IdleMeansSaved`; `ComesToRest`, unless an erasure has failed |
| `csma_send` | room for two packets to send and one received, one packet and the beacon | `PendingIsAnswered`, `NotCutOff`, the refinement `SendBufferIsQueue`, `StoredIsTaken` |
| `csma_receive` | room for two received packets | violated: `ReceivedIsQueue` |

Why the bounds are enough: three completions or timers give a first, a middle
and a last, so that the head can change by arrival, departure and both; 3 ticks
with delays of 1 and 2 put deadlines before, at and after each other and the end
of a wait; a register of 4 values sees early matches of the idle value (14 mod
4).  In the timer runs a cushion of 1 tick is enough to make an alarm later than
its timer.  Three threads are an owner and two waiters.  Two timers are one that runs and one
that waits for the thread; each can fall due again, be changed, disposed and
collected at every stage, and 2 ticks let a period of 1 fall behind.  Three sets
of two references make a replacement while the other is pending, a bank that is
full and one that has been compacted twice; two faults are a loss of power during
the recovery from another.  A ring of two wraps around with every second packet.

### Disagreements with what the code says

One run ends in a violation: `csma_receive` (`ReceivedIsQueue`).  The comments at
`csmaMAC.cpp:546` and `:555` speak of a bag exchange, in which ReceiveHandler puts
the received message into the ring and returns a free one.  `SX1276_HAL_RxDone`
does not take what is returned, and reads the next packet into the message that
the ring points to by then.

Others are seen by changing an instance:

| instance | change | fails | because |
|---|---|---|---|
| `EmoteTime_one.cfg` | `CallbacksEnqueue = TRUE` | `HeadHasTimer`, `CompletionsFire` | a completion whose callback enqueues it again in the interrupt starts the events timer, and `VirtualTimer.cpp:430` stops it when the callback has returned: the completion stays in the list and never fires, against `eMote_Time_functions.cpp:60` ("compare value cannot miss").  `Piezo.cpp:205` and `touchpanel_driver.cpp:293` enqueue so |
| | `PROPERTY OnlyExpired` | `OnlyExpired` | `CPU_TicksToMicroseconds` (`STM32H7_time_functions.cpp:310`) multiplies in 32 bits: a delay of more than 89 microseconds wraps around, the timer goes off early, and `DequeueAndExec` executes a head that is not due: of the two checks the comment at `Completions.cpp:62` asks for it makes one.  With `Delta = {0, 1}`, which does not wrap around, the property holds |
| | `Completion = {c1, c2}` | `HeadHasTimer`, `OnlyExpired` also with `Delta = {0, 1}` | `StartTimer` leaves a running timer as it is, so the compare value of an earlier completion is lost, against the same comment; and after an abort the earlier match is taken for a later completion, which `DequeueAndExec` executes before its time |
| `VirtualTimers_full.cfg` | `INVARIANT NeverRefused` | `NeverRefused` | with the last slot of the table taken the `ASSERT(0)` at `VirtualTimer.cpp:414` is reached; in a release build `is_callback_running` stays set and no alarm is set again |
| `ClrThreads_three.cfg` | `AbortLockWaiters = TRUE` | `PendingMeansWaiting` | Abort does not take back the lock request, against `Interpreter.cpp:652` |
| `ClrThreads_handles.cfg` | `SuspendWaiters = TRUE` | `SignalReturns` | two suspended waiters of a handle that stays signaled are put back at the end of the list that `SignalObject` walks, for ever |
| | the same | `SignalFreesOne` | a suspended waiter keeps its wait and takes a second signal, against `CLR_RT_HeapBlock_WaitForObject.cpp:137` |
| `CsmaMac_send.cfg` | `SendSize = 3`, `INVARIANT MoreThanOneFlushes` | `MoreThanOneFlushes` | SendFirstPacketToRadio stops the flush timer and leaves `flushTimerRunning` set, so that SendToRadio does not start it for the next packets, against the comment at `csmaMAC.cpp:377`; if the transmission then times out and the buffer is full, nothing gets the MAC going again (which `StoredIsTaken` excepts) |
| | `INVARIANT TimeoutIsItsOwn` | `TimeoutIsItsOwn` | the timeout of a packet that is queued when the packet is acknowledged resets the radio while the next one is sent, which is reported as failed, against `SX1276.cpp:1470` ("Tx timeout shouldn't happen", but for a corrupted SPI transfer) |
| `HeapPersistence_power.cfg` | `FailsUnsequenced = TRUE` | `RestartKeeps` | the 0xFFFFFFFF that Format leaves counts as a good and the newest sequence number: power that fails during a compaction loses what has not been copied, and so does a SetSequence that fails, whose result is ignored (line 1195) |
| | `BlockSlots = 1` | `RestartKeeps` | only the first block of the other bank is erased, and deleted or old objects of the others come back; `Solutions/Windows/TinyCLR/BlockStorage.cpp:32` gives a bank two blocks |
| | `MoveWhenIdle = TRUE` | `IdleMeansSaved` | a reference that moves forward in the list when all is saved wakes nobody, though its object may fit now |
| | `PROPERTY []<>AtRest` (as a definition) | `[]<>AtRest` | the branch at `Heap_Persistence.cpp:992` has no alternative: an erasure that fails leaves the manager in STATE_EraseSector for ever; from the completion it looks again whenever there is idle time, in FlushAll it does not return.  `ComesToRest` excepts it |
| `ClrTimers_calls.cfg` | `INVARIANT RecurringHasPeriod` | `RecurringHasPeriod` | a refused Change has stored its period before it is refused; Reschedule divides by it |

In `VirtualTimers`, `CallbackToQueue` drops the callback when the pool is used up,
and stops the timer all the same, against the comment at `VirtualTimer.cpp:392`.
Any pool can be used up, because a model without speeds has no bound on how long
the CLR keeps the thread.

Met while reading, and part of the models without a property of their own: a timer
that is changed or disposed after its trigger is still called; a Change made in
the callback of a recurring timer is overwritten by Reschedule; `CheckDisposed`
tests a flag that nothing sets; a stack frame that cannot be allocated loses the
timers' thread for good; FlushAll returns with objects unsaved when its first call
has triggered a compaction.  Met, and left out of the models: the SX1276 driver's
Send is called without the flag that prepares the payload, and the radio stays in
carrier sensing after a busy channel; an allocation in CopyBackToRam may start a
collection that invalidates the reference it is made for.

One property had to stay with the mapper: `OneShotsEnd` does not hold of
`EmoteTime`, because each turn of the wait loop starts and stops the events
timer, and every start sets the alarm again, no nearer than the cushion.  The
interrupt of another client's timer can be put off for as long as the wait lasts.

### Fairness

- The clock runs (weak).
- An interrupt that is pending is taken when the lock is let go, however soon it
  is taken again: strong fairness of `Timer_Interrupt` in `Completions`.  In
  `VirtualTimers` an interrupt has no guard but its own flag, and weak fairness
  is enough; it can be cancelled by starts, whose number `LastCall` bounds.
- A call that has begun ends, callbacks return, the wait loop goes round (weak).
- The CLR comes back to its continuations (`ProcessActivity`,
  `HAL_CONTINUATION_ExtendedExecute`): strong, because interrupts come between.
  `ScheduleThreads` calls `ProcessHardware` after every quantum.
- `ClrTimers`: the scheduler looks at the timers again and again, and callbacks end
  (weak).  That is the program's duty, and the reason why one callback that does
  not end stops all timers.
- `HeapPersistence`: the completion fires and Initialize goes on (weak); the engine
  has enough idle time, and memory for what is reverted, now and then (strong): the
  manager asks for idle time at each write and would otherwise wait for ever.
- `CsmaMac`: a call that has begun goes on, timers run out (weak), the thread comes
  back to its continuations, and carrier sensing lets a packet go if it is tried
  again and again (strong).  That a transmission ends is not assumed: that is what
  the timeout is for.
- `ClrThreads`: only a walk that has begun goes on; nothing is assumed of managed
  programs.

## 4. What is proved

`TypeOK` of each module below that has one (`EmoteTypeOK`, of the composition, is
proved only; TLC checks the others too), and:

| module | theorem | property | assuming, besides the module's assumption on its constants |
|---|---|---|---|
| `DblLinkedListProofs` | `AlwaysWellLinked` | `WellLinked` | |
| | `PointersImplementSequences` | `ImplementsSequences`: every operation on the pointers does to the sequences what its namesake in `NodeLists` does | |
| `CompletionsProofs` | `NodesWellLinked` | `NodeInOneList` | |
| | `ListInOrder` | `SortedByDueTime` | |
| | `HeadNeverForgotten` | `HeadIsArmed` | |
| | `RegisterIsExact` | `HeadIsCompare` | `~RelinkAllowed` |
| | `PromiseKept` | `KeepsTimerPromise`: every step is a step or a stutter of `TimerService` | `~RelinkAllowed` |
| `EmoteTimeProofs` | `NoTimerLeftBehind` | `AlarmCoversTimers` | |
| | `AlarmAlwaysHasTimer` | `AlarmHasTimer` | |
| | `ServedInOrder` | `EarliestFirst` | |
| | `CompareLeavesNoTimerBehind` | `AlarmCoversTimers`, `AlarmHasTimer` of the composition | |
| | `NoTimerWithoutCompletion` | `TimerIsForCompletion` | |
| | `OneHeadHasTimer` | `HeadHasTimer` | one completion, `~CallbacksEnqueue` |
| `ClrThreadsProofs` | `ListsAgree` | `ListsMatchStatus` | `~AbortLockWaiters` |
| | `PendingWaits` | `PendingMeansWaiting` | the same |
| | `OwnersRelease` | `OwnersCanRelease` | the same |
| | `EnterReturns` | `EnterReturnsOwning` | the same |
| | `NoSignalMissed` | `NoMissedSignal` | the same and `~SuspendWaiters` |
| | `SignalFrees` | `SignalFreesOne` | the same |
| `ClrTimersProofs` | `ThreadAlwaysServes` | `ThreadServesTimers` | |
| `HeapPersistenceProofs` | `IdleIsSaved` | `IdleMeansSaved` | `~MoveWhenIdle` |
| | `PersistedStaysStored` | `PersistedIsStored` | `~FailsUnsequenced`, `BlockSlots = Slots`, `[]NoWrap` |
| | `RestartLosesNothing` | `RestartKeeps` | the same |
| `CsmaMacProofs` | `AnswerIsOnItsWay` | `PendingIsAnswered` | |
| | `NoTransmissionCutOff` | `NotCutOff` | |
| | `SendBufferImplementsQueue` | `SendBufferIsQueue`: the ring implements `PacketQueue` | |

The theorems hold for every value of the constants that the modules' assumptions
admit: any sets of lists, nodes, completions, timers, threads, locks, references and packets,
any delays, and any value of what the instances bound.  `LinkedListLemmas` gives types, members,
order and absence of repetition for each operation of `LinkedLists` on sequences
without repeats; the other modules cite it.

The further assumptions are not there to get a proof through: each rules out a
disagreement of section 3, which the property, or an invariant it rests on, does
not survive (clients that enqueue what is linked; two completions over one virtual
timer, and a callback that enqueues its completion again; an abort of a thread that
waits for a lock, and a suspend of one that waits for a handle; a loss of power
between Format and the sequence number; a bank of several blocks; a reference that
moves while the manager is idle).  `TypeOK` of `ClrThreads` is part of the invariant
that needs the first of the two about threads, and is proved under it too.  The exception is `NoWrap`: the sequence
number of the bank in use is not the last before 0xFFFFFFFF, which takes 2^32 - 2
compactions, each of them an erasure of the flash.

### DblLinkedList

The invariant is `Linked`: there are sequences of nodes that the pointers represent.
`Represents(n, p, s, loose)` says that each cell of a list, from the head's sentinel to
the tail's, points at the next one and is pointed back at, that no node stands in two
places, and that the pointers of a node in no list are null, but for the nodes of
`loose`.  An invariant about `next` and `prev` alone would not do: in the middle of an
insertion RemoveFromList has taken the node out and left its pointers dangling, which
is what `loose` is for.  Three lemmas carry the operations: `TakenOut` (the stores of
RemoveFromList take the node out of its sequence and make it loose), `Cleared` (Unlink
clears it) and `PutIn` (Insert puts a loose node between two neighbours).  That the
neighbour is read after the removal matters in `PutNextDoes`: it is the neighbour in
the sequences without the node.

The properties speak of walks along the pointers, which are recursive functions.
`WalkIs` says that a walk finds the sequence: it takes no more steps than there are
nodes, and the first number of steps at which it would differ from a prefix of the
sequence does not exist (`LeastNat` stands for an induction).  This is where the
assumption is needed that there are finitely many nodes: the memory that holds them is
finite.

### Completions

In three layers:

1. `Lists /\ ContextsOK` is inductive.  `ContextsOK` says that no interrupt runs
   inside a locked section and that a call belongs to a context that may be
   making it; without it an interrupt could return into a locked section.
2. `Order == SortedByDueTime /\ HeadIsArmed` is inductive given the first.  They
   need each other: the new head of a list in order is due no earlier than the
   one that left, so a compare set for the old one still covers it.
3. `Exact == CallsUnlinked /\ HeadIsCompare` is inductive given both, when clients
   keep to the rules.  `CallsUnlinked` says that a completion whose EnqueueDelta
   has read the clock is not linked before it takes the lock: the clause that
   re-enqueueing breaks, and with it the exactness of the register.

The refinement follows step by step: a deadline is the time of a linked
completion, and a completion has fired while it is queued or its callback runs
in the interrupt.  `TimerService!Fire` asks that nothing is due earlier, which is
layer 2, and that the time has come, which is layer 3 and the interrupt's own
comparison.

### VirtualTimers and EmoteTime

`IInv == TypeOK /\ Quiet /\ Alarmed`.  `Quiet`: while a callback runs the alarm is
off, and a `StartTimer` that is between its two halves has a timer of the table.
Without it the end of a callback could find an alarm it does not replace, and the
second half of a start could run a timer that has no slot.  `Alarmed` adds `AlarmIsForEarliest` to
the two invariants: while the timer that the alarm was set for still runs, no
other is due before it; stops, which leave the alarm as it is, keep that.  It is
what `EarliestFirst` rests on.  `AlarmIsSet`, from `NextSlotIsEarliest`, says that
`SetAlarmForTheNextTimer` makes `Alarmed` true of any table.

`EmoteTime` takes the steps of the mapper over, and `CompareTableIsTable` reduces
HAL_Time_SetCompare to a change of one entry of the table and a look for the next
alarm, to which `AlarmIsSet` applies again; in the middle of VirtualTimerCallback the
look is left to its end, which `Quiet` provides for.
`DelayIsNoLonger` says that the way through microseconds, cap and wrap included,
makes no delay longer.  `OneClient` adds that the events timer is started by the
driver alone, and that a completion is in the list or in the hands of one context,
which has read the clock for it.  `TimerIsForCompletion` is inductive with it, for any
number of completions and with callbacks that enqueue: the timer is a one-shot, so
that the end of its callback stops it whatever was set meanwhile.  That very step is
what takes the timer away from a completion that its own callback enqueues; without
such callbacks, and with one completion, the invariant is `ArmedIsMatched`: nothing
is armed while the callback runs, and at other times the events timer runs if and
only if the completion is linked, and its match time is no later than the
completion's, or than the delay that stands for the past.

### ClrThreads

1. `ThreadInv == EngineOK(exec) /\ LocksTyped /\ Owned /\ Queued /\ GoingOn` is
   inductive.  `EngineOK`: a thread is in the one list its status calls for, has
   one lock request at most, and while it has one waits for nothing else.  `Owned`:
   a lock is free, or its owner knows of it and is alive or at its end.  `Queued`:
   a thread is in one queue, once, if it has a request, and else in none.
   `GoingOn`: the walk that is going on is at a thread that waits, or at the first
   lock of a thread that has terminated.  They need each other: that a lock's next
   owner can be restarted is `EngineOK` with `Queued`, and that the locks of a
   thread that ends are all given up is `Owned` with `GoingOn`.  One lemma for each
   operator of the engine (`Placed`, `Restarted`, `Stopped`, `RequestCounted`) says
   what it does to its thread and that the others stay as they are (`SameRow`), so
   that an action is a chain of moves of one thread each.  It follows that, without
   aborts of threads that wait for a lock, `DeleteLockRequests` finds nothing.
2. `EnterReturnsOwning` rests on `RequestsEndWithGrant`: a thread's request goes
   only where `ChangeOwner` makes that thread the owner.
3. `Signals` is inductive given the first: a thread that waits for handles is not
   suspended and has no result; if its wait is over by the handles that are
   signaled, then `SignalObject` has not come to it yet, and the handle it was
   called for is what makes the wait over.  The last clause is needed where the
   walk ends early because a thread has taken the signal back: no wait behind it
   is over any more.  `OrderKept` and `AfterIsNext` are about the list that changes
   under the walk.  `SignalFreesOne` is the second half of the first clause.

### ClrTimers

`TypeOK /\ ThreadServesTimers` is inductive: `SpawnTimer` runs wherever a trigger
or the thread's return could leave a triggered timer and an idle thread.  It is
proved once, as a lemma about the list, and used by `ProcessTimer` and
`CallbackEnds`.  `ThreadServesTimers` allows for the thread that is lost.

### HeapPersistence

1. `TypeInv` adds what each state of the machine has made sure of: the entry that
   is being written is torn, nothing is linked twice, a bank is switched to when
   all is copied, nothing fits where compaction found no room, and what is copied
   is in flash.
2. `Saved` is inductive given the first: a walk that found nothing to flush in the
   part that fits has looked at all of it.
3. `StoreInv` is the heart of the component: the bank in use holds exactly the
   objects of the references that are marked as persisted (`Stored`,
   `OnlyStored`), the other bank exactly the copies (`Copies`, and `OnlyCopied`
   once it is erased), and the bank in use is the one a restart would choose
   (`BankInUse`).  "Exactly" is needed: an object left alive in the other bank
   would come back with the bank once it is switched to.  `RestartFinds` draws the
   conclusion for a loss of power at any point, and `Restart` itself closes the
   circle.

### CsmaMac

`CsmaInv` joins the types with `Sensing` (a packet is taken from a ring that is
not empty, while no answer is pending), `OnAir` (what is on the air is waited for
and the driver knows that it sends) and `PendingIsAnswered`.  The last is not
inductive alone: the interrupt that ends a transmission must be known to answer
the one that is pending, which is `OnAir`.  The refinement maps the ring to the
sequence of its full messages; `RingSteps` says what each operator of
`CircularBuffer` does to its positions, so that no modulo is left in the proof of a step.

### Only model-checked

All liveness (`CompletionsFire`, `OneShotsEnd`, `SignalReturns`, `OwedIsCalled`,
`ComesToRest`, `StoredIsTaken` and so on): the prover has neither fairness nor
ENABLED.  Every safety property that a passing run checks is proved, under the
assumptions above.

## 5. Not modelled, and the plan

Next modules, in this order:

1. `SystemTime`: the STM32H7's 64-bit time from a 32-bit counter, a software
   upper half and `prevRead`, with interrupts between them: time never goes back.
2. The saved interrupts of `InterruptHandler.cpp`, over Completions.
3. `OmacScheduler` with the neighbour table; `Messaging`; the queues of `usart.cpp`.
4. `WearLeveling`: the block map with a crash between any two writes (built by the
   Windows solutions only).

Each of them comes with its invariants and their proofs, as those above do.

Left out for good: register sequences of radios and peripherals (their effects
are inputs of the MAC), the IL interpreter, type system, serialization and JIT (large data,
little interleaving), time synchronisation (real arithmetic on clocks), boot
loaders (sequential), vendored libraries (TLS, TCP/IP, codecs), the managed
framework and the tools.

## 6. Running it

    tlc -config Completions_fair.cfg MCCompletions
    tlapm CompletionsProofs.tla

`Mutants` in the modules, each beside the definition it stands for, are the bugs
that the properties are known to catch: `PROJECT.json` says which run and
property catches which.
