---------------------------- MODULE Completions ----------------------------
(***************************************************************************)
(* The PAL's asynchronous procedure calls: timed callbacks (completions),  *)
(* deferred callbacks (continuations), the system event flags and the idle *)
(* loop that waits for them, over the tick counter and compare register of *)
(* the STM32F7 time driver.                                                *)
(*                                                                         *)
(* Two contexts run this code.  The thread is the CLR: it calls the API,   *)
(* drains continuations (ProcessActivity) and blocks in                    *)
(* Events_WaitForEvents.  The timer interrupt preempts it wherever         *)
(* interrupts are enabled and runs to its end.  GLOBAL_LOCK disables       *)
(* interrupts, so a locked section is one step, or several steps during    *)
(* which only the clock can move.                                          *)
(***************************************************************************)
EXTENDS LinkedLists

CONSTANTS
    Completion,      \* the HAL_COMPLETION objects of the program
    IsrCompletion,   \* those set up by InitializeForISR
    Event,           \* the flags of SystemEvents
    SystemTimer,     \* SYSTEM_EVENT_FLAG_SYSTEM_TIMER
    Delta,           \* bound: delays passed to EnqueueDelta, in ticks
    Timeout,         \* bound: timeouts passed to Events_WaitForEvents
    WakeupSets,      \* bound: event masks passed to Events_WaitForEvents
    MaxTicks,        \* bound: the clock stops here
    IdleValue,       \* HAL_Completion_IdleValue: "never"
    CompareRange,    \* the compare register keeps a tick modulo this (2^32)
    RelinkAllowed,   \* may a client enqueue a completion that is linked?
    NoCall           \* no EnqueueDelta is in progress

Context == {"thread", "isr"}
Nobody == "nobody"

ASSUME CompletionAssumption ==
    /\ IsrCompletion \subseteq Completion
    /\ SystemTimer \in Event
    /\ Nobody \notin Completion
    /\ Delta \subseteq Nat /\ Timeout \subseteq Nat
    /\ WakeupSets \subseteq SUBSET Event
    /\ MaxTicks \in Nat /\ IdleValue \in Nat /\ IdleValue > MaxTicks
    /\ CompareRange \in Nat \ {0}
    /\ RelinkAllowed \in BOOLEAN
    /\ NoCall \notin [node : Completion, ticks : Nat]

VARIABLES
    now,              \* HAL_Time_CurrentTicks
    nextEvent,        \* g_nextEvent, the compare value last set
    pending,          \* CC1IF: a compare interrupt waits to be served
    completions,      \* g_HAL_Completion_List
    eventTicks,       \* EventTimeTicks of each completion
    continuations,    \* g_HAL_Continuation_List
    systemEvents,     \* SystemEvents
    isr,              \* whose callback the interrupt is running, or Nobody
    call,             \* an EnqueueDelta that has read the clock, per context
    pc,               \* where the thread is
    expire,           \* locals of Events_WaitForEvents ...
    wakeup,
    runContinuations,
    noContinuations   \* SYSTEM_STATE_NO_CONTINUATIONS is set

driver == <<nextEvent, pending>>
wait   == <<expire, wakeup, runContinuations, noContinuations>>
vars   == <<now, driver, completions, eventTicks, continuations,
            systemEvents, isr, call, pc, wait>>

\* The thread holds GLOBAL_LOCK at these points and nothing preempts it.
Masked == {"loop", "sleep", "armed"}
\* ... and is inside Events_WaitForEvents at these.
Waiting == Masked \cup {"unlocked", "callback", "relock", "probe"}
Place == Waiting \cup {"app", "activity"}

TypeOK ==
    /\ now \in 0..MaxTicks
    /\ nextEvent \in Nat
    /\ pending \in BOOLEAN
    /\ completions \in Seq(Completion)
    /\ eventTicks \in [Completion -> 0..MaxTicks]
    /\ continuations \in Seq(Completion)
    /\ systemEvents \subseteq Event
    /\ isr \in IsrCompletion \cup {Nobody}
    /\ call \in [Context -> [node : Completion, ticks : 0..MaxTicks] \cup {NoCall}]
    /\ pc \in Place
    /\ expire \in 0..MaxTicks
    /\ wakeup \in SUBSET Event
    /\ runContinuations \in BOOLEAN
    /\ noContinuations \in BOOLEAN

-----------------------------------------------------------------------------
\* Timer_Initialize leaves the compare at "never"; both lists start empty.
Init ==
    /\ now = 0
    /\ nextEvent = IdleValue
    /\ pending = FALSE
    /\ completions = <<>>
    /\ eventTicks = [c \in Completion |-> 0]
    /\ continuations = <<>>
    /\ systemEvents = {}
    /\ isr = Nobody
    /\ call = [x \in Context |-> NoCall]
    /\ pc = "app"
    /\ expire = 0
    /\ wakeup = {}
    /\ runContinuations = TRUE
    /\ noContinuations = FALSE

(***************************************************************************)
(* The time driver.                                                        *)
(***************************************************************************)

\* The counter moves on.  The register compares the low bits only, so a
\* compare far in the future matches early, now and then.
Tick ==
    /\ now < MaxTicks
    /\ now' = now + 1
    /\ pending' = (pending \/ now' % CompareRange = nextEvent % CompareRange)
    /\ UNCHANGED <<nextEvent, completions, eventTicks, continuations,
                   systemEvents, isr, call, pc, wait>>

\* Mutants: the compare value is a distance, or never looks at the clock.
HAL_Time_SetCompare_Relative(t) ==
    /\ nextEvent' = t - now
    /\ pending' = (pending \/ now >= t)

HAL_Time_SetCompare_MissesPast(t) ==
    /\ nextEvent' = t
    /\ UNCHANGED pending

\* A compare value that has passed already raises the interrupt at once.
HAL_Time_SetCompare(t) ==
    /\ nextEvent' = t
    /\ pending' = (pending \/ now >= t)

-----------------------------------------------------------------------------
(***************************************************************************)
(* Calls of the API, from the CLR thread or from a callback in the         *)
(* interrupt.                                                              *)
(***************************************************************************)
MayCall(x) ==
    /\ call[x] = NoCall
    /\ IF x = "isr" THEN isr # Nobody
                    ELSE isr = Nobody /\ pc \in {"app", "activity", "callback"}

IsLinked(c) == c \in ToSet(completions) \cup ToSet(continuations)

\* Every client in the tree calls Abort first, or enqueues only when
\* IsLinked() says no, and keeps a completion to one context at a time.
ClientMayEnqueue(c) ==
    \/ RelinkAllowed
    \/ /\ ~IsLinked(c)
       /\ \A x \in Context : call[x] # NoCall => call[x].node # c

\* EnqueueDelta64 reads the clock before it takes the lock.  (A callback
\* that enqueues its own completion with no delay would never let go of the
\* processor; EventTimeTicks = 0 is asserted against.)
EnqueueDelta(x, c, d) ==
    /\ MayCall(x)
    /\ ClientMayEnqueue(c)
    /\ now + d \in 1..MaxTicks
    /\ x = "isr" => d > 0
    /\ call' = [call EXCEPT ![x] = [node |-> c, ticks |-> now + d]]
    /\ UNCHANGED <<now, driver, completions, eventTicks, continuations,
                   systemEvents, isr, pc, wait>>

\* Mutants: always at the front, or before the first that is due earlier.
InsertionPoint_Front(list, ticks, t) == 1

InsertionPoint_Reversed(list, ticks, t) ==
    LET sooner == {i \in DOMAIN list : t > ticks[list[i]]}
    IN  IF sooner = {} THEN Len(list) + 1
        ELSE CHOOSE i \in sooner : \A j \in sooner : i <= j

\* The position the walk of EnqueueTicks stops at: before the first node
\* that is due strictly later.
InsertionPoint(list, ticks, t) ==
    LET later == {i \in DOMAIN list : t < ticks[list[i]]}
    IN  IF later = {} THEN Len(list) + 1
        ELSE CHOOSE i \in later : \A j \in later : i <= j

\* EnqueueTicks, under GLOBAL_LOCK.  The node's time is overwritten while it
\* may still be linked, and it leaves whichever list it was in.
EnqueueTicks(x) ==
    /\ call[x] # NoCall
    /\ x = "thread" => isr = Nobody
    /\ LET c == call[x].node
           t == call[x].ticks
           others == Unlinked(completions, c)
           list == Inserted(others, InsertionPoint(others, eventTicks, t), c)
       IN  /\ eventTicks' = [eventTicks EXCEPT ![c] = t]
           /\ completions' = list
           /\ continuations' = Unlinked(continuations, c)
           /\ IF FirstNode(list) = c THEN HAL_Time_SetCompare(t)
                                     ELSE UNCHANGED driver
    /\ call' = [call EXCEPT ![x] = NoCall]
    /\ UNCHANGED <<now, systemEvents, isr, pc, wait>>

\* Mutant: the next completion is not looked at.
CompareFor_Idle(list, ticks) == IdleValue

\* The compare value a list asks for.
CompareFor(list, ticks) ==
    IF list = <<>> THEN IdleValue ELSE ticks[FirstNode(list)]

\* HAL_COMPLETION::Abort: only the head's departure moves the compare.
Abort(x, c) ==
    /\ MayCall(x)
    /\ completions' = Unlinked(completions, c)
    /\ continuations' = Unlinked(continuations, c)
    /\ IF completions # <<>> /\ FirstNode(completions) = c
       THEN HAL_Time_SetCompare(CompareFor(completions', eventTicks))
       ELSE UNCHANGED driver
    /\ UNCHANGED <<now, eventTicks, systemEvents, isr, call, pc, wait>>

Events_Set(x, e) ==
    /\ MayCall(x)
    /\ systemEvents' = systemEvents \cup {e}
    /\ UNCHANGED <<now, driver, completions, eventTicks, continuations, isr,
                   call, pc, wait>>

\* Events_Get reads and clears the flags asked for, atomically.  The CLR
\* calls it from ProcessActivity.
Events_Get(events) ==
    /\ MayCall("thread") /\ pc = "app"
    /\ systemEvents' = systemEvents \ events
    /\ UNCHANGED <<now, driver, completions, eventTicks, continuations, isr,
                   call, pc, wait>>

-----------------------------------------------------------------------------
(***************************************************************************)
(* The timer interrupt.                                                    *)
(***************************************************************************)

\* Timer_Interrupt: the flag is cleared first, then the head completion is
\* taken off the list if the compare value has really passed.  The compare
\* moves on to the next completion before the callback runs.
Timer_Interrupt ==
    /\ pending /\ isr = Nobody /\ pc \notin Masked
    /\ IF now >= nextEvent /\ completions # <<>>
       THEN /\ systemEvents' = systemEvents \cup {SystemTimer}
            /\ completions' = Tail(completions)
            /\ nextEvent' = CompareFor(completions', eventTicks)
            /\ pending' = (now >= nextEvent')
            /\ LET c == FirstNode(completions)
               IN  IF c \in IsrCompletion
                   THEN /\ isr' = c
                        /\ UNCHANGED continuations
                   ELSE /\ continuations' = LinkedAtBack(continuations, c)
                        /\ UNCHANGED isr
       ELSE /\ pending' = FALSE
            /\ UNCHANGED <<nextEvent, completions, continuations,
                           systemEvents, isr>>
    /\ UNCHANGED <<now, eventTicks, call, pc, wait>>

\* The callback returns, and with it the interrupt.
InterruptReturn ==
    /\ isr # Nobody /\ call["isr"] = NoCall
    /\ isr' = Nobody
    /\ UNCHANGED <<now, driver, completions, eventTicks, continuations,
                   systemEvents, call, pc, wait>>

-----------------------------------------------------------------------------
(***************************************************************************)
(* The thread: Dequeue_And_Execute and Events_WaitForEvents.               *)
(***************************************************************************)
ThreadMoves(from, to) ==
    /\ pc = from /\ call["thread"] = NoCall
    /\ from \notin Masked => isr = Nobody
    /\ pc' = to
    /\ UNCHANGED <<now, eventTicks, systemEvents, isr, call>>

\* Mutant: the continuation is run but stays in the list.
ProcessActivity_KeepsNode ==
    /\ ThreadMoves("app", "activity")
    /\ continuations # <<>>
    /\ UNCHANGED <<driver, completions, continuations, wait>>

\* ProcessActivity lets one continuation run (it tries ten times).
ProcessActivity ==
    /\ ThreadMoves("app", "activity")
    /\ continuations # <<>>
    /\ continuations' = Tail(continuations)
    /\ UNCHANGED <<driver, completions, wait>>

ActivityReturn ==
    /\ ThreadMoves("activity", "app")
    /\ UNCHANGED <<driver, completions, continuations, wait>>

\* Events_WaitForEvents, or Events_WaitForEventsInternal, which forbids
\* continuations meanwhile.  The lock is taken on entry.  (Waits that would
\* outlast the clock are left out.)
WaitForEvents(events, timeout, internal) ==
    /\ ThreadMoves("app", "loop")
    /\ now + timeout <= MaxTicks
    /\ expire' = now + timeout
    /\ wakeup' = events
    /\ runContinuations' = TRUE
    /\ noContinuations' = internal
    /\ UNCHANGED <<driver, completions, continuations>>

Awake   == systemEvents \cap wakeup # {}
Expired == expire <= now

\* Mutant: the timeout is not looked at.
ReturnFromWait_NoTimeout ==
    /\ ThreadMoves("loop", "app")
    /\ Awake
    /\ noContinuations' = FALSE
    /\ UNCHANGED <<driver, completions, continuations, expire, wakeup,
                   runContinuations>>

ReturnFromWait ==
    /\ ThreadMoves("loop", "app")
    /\ Awake \/ Expired
    /\ noContinuations' = FALSE
    /\ UNCHANGED <<driver, completions, continuations, expire, wakeup,
                   runContinuations>>

\* irq.Release(), before a continuation is looked for.
ReleaseForContinuation ==
    /\ ThreadMoves("loop", "unlocked")
    /\ ~Awake /\ ~Expired
    /\ runContinuations /\ ~noContinuations
    /\ UNCHANGED <<driver, completions, continuations, wait>>

\* Dequeue_And_Execute: the node is unlinked under the lock, the callback
\* runs without it.
Dequeue_And_Execute ==
    /\ ThreadMoves("unlocked", IF continuations = <<>> THEN "relock"
                                                       ELSE "callback")
    /\ runContinuations' = (continuations # <<>>)
    /\ continuations' = IF continuations = <<>> THEN <<>>
                        ELSE Tail(continuations)
    /\ UNCHANGED <<driver, completions, expire, wakeup, noContinuations>>

CallbackReturn ==
    /\ ThreadMoves("callback", "relock")
    /\ UNCHANGED <<driver, completions, continuations, wait>>

\* irq.Acquire().
Relock ==
    /\ ThreadMoves("relock", "loop")
    /\ UNCHANGED <<driver, completions, continuations, wait>>

\* Nothing to run: WaitForInterrupts is called, with the lock held.
Stall ==
    /\ ThreadMoves("loop", "sleep")
    /\ ~Awake /\ ~Expired
    /\ ~runContinuations \/ noContinuations
    /\ runContinuations' = TRUE
    /\ UNCHANGED <<driver, completions, continuations, expire, wakeup,
                   noContinuations>>

\* WaitForInterrupts asks for an interrupt at the end of the timeout unless
\* a completion is due before it ...
SetCompareToExpire ==
    /\ ThreadMoves("sleep", "armed")
    /\ IF completions = <<>> \/ eventTicks[FirstNode(completions)] > expire
       THEN HAL_Time_SetCompare(expire)
       ELSE UNCHANGED driver
    /\ UNCHANGED <<completions, continuations, wait>>

\* ... and puts the compare back afterwards; the CPU_Sleep that stood in
\* between is commented out, so the list cannot have changed.
ResetCompare ==
    /\ ThreadMoves("armed", "probe")
    /\ IF completions = <<>> \/ eventTicks[FirstNode(completions)] > expire
       THEN HAL_Time_SetCompare(CompareFor(completions, eventTicks))
       ELSE UNCHANGED driver
    /\ UNCHANGED <<completions, continuations, wait>>

\* irq.Probe() lets a pending interrupt in, then takes the lock again.
Probe ==
    /\ ThreadMoves("probe", "loop")
    /\ ~pending
    /\ UNCHANGED <<driver, completions, continuations, wait>>

-----------------------------------------------------------------------------
Calls ==
    \/ \E x \in Context, c \in Completion, d \in Delta : EnqueueDelta(x, c, d)
    \/ \E x \in Context : EnqueueTicks(x)
    \/ \E x \in Context, c \in Completion : Abort(x, c)
    \/ \E x \in Context, e \in Event : Events_Set(x, e)
    \/ \E events \in WakeupSets : Events_Get(events)

Interrupt == Timer_Interrupt \/ InterruptReturn

WaitLoop ==
    \/ ReturnFromWait \/ ReleaseForContinuation \/ Dequeue_And_Execute
    \/ CallbackReturn \/ Relock \/ Stall \/ SetCompareToExpire
    \/ ResetCompare \/ Probe

Thread ==
    \/ ProcessActivity \/ ActivityReturn \/ WaitLoop
    \/ \E events \in WakeupSets, t \in Timeout, i \in BOOLEAN :
          WaitForEvents(events, t, i)

Next == Tick \/ Calls \/ Interrupt \/ Thread

Spec == Init /\ [][Next]_vars

(***************************************************************************)
(* The clock runs; a pending interrupt is served when the lock is let go,  *)
(* however soon it is taken again (the processor takes it on the next      *)
(* instruction), so it is strongly fair; a call that has begun ends,       *)
(* callbacks return and the wait loop goes round; and the CLR's main loop  *)
(* comes back to ProcessActivity whenever it keeps getting control.        *)
(***************************************************************************)
Fairness ==
    /\ WF_vars(Tick)
    /\ SF_vars(Timer_Interrupt) /\ WF_vars(InterruptReturn)
    /\ \A x \in Context : WF_vars(EnqueueTicks(x))
    /\ WF_vars(WaitLoop)
    /\ WF_vars(ActivityReturn)
    /\ SF_vars(ProcessActivity)

FairSpec == Spec /\ Fairness

-----------------------------------------------------------------------------
(***************************************************************************)
(* Properties.                                                             *)
(***************************************************************************)

\* A node has one pair of pointers: a completion is armed, or queued as a
\* continuation, or neither, and is in its list once.  EnqueueTicks, Abort
\* and LinkAtBack must each take it out of wherever it was.
NodeInOneList ==
    /\ NoRepeats(completions) /\ NoRepeats(continuations)
    /\ ToSet(completions) \cap ToSet(continuations) = {}
    /\ ToSet(continuations) \cap IsrCompletion = {}

InOrder(list, ticks) ==
    \A i, j \in DOMAIN list : i < j => ticks[list[i]] <= ticks[list[j]]

\* The list stays in order of due time, although EnqueueTicks overwrites the
\* time of a node that may still be linked.
SortedByDueTime == InOrder(completions, eventTicks)

\* The head of the list can never be forgotten: whenever interrupts can
\* happen the compare register is set no later than the head is due, and a
\* compare that has passed has left an interrupt behind.  (It holds an
\* earlier value while WaitForInterrupts borrows it.)
HeadIsArmed ==
    completions # <<>> =>
        /\ nextEvent <= eventTicks[FirstNode(completions)]
        /\ now >= nextEvent => pending

\* With clients that keep to ClientMayEnqueue the register holds exactly the
\* head's time, or the end of a wait that comes first.
HeadIsCompare ==
    completions # <<>> =>
        nextEvent = IF pc = "armed" /\ expire < eventTicks[FirstNode(completions)]
                    THEN expire ELSE eventTicks[FirstNode(completions)]

\* The promise of TimerService, kept by the list, the compare register and
\* the interrupt together.
Armed(c) == c \in ToSet(completions)
DeadlineBar == [c \in Completion |-> IF Armed(c) THEN eventTicks[c]
                                                ELSE IdleValue]
FiredBar == ToSet(continuations) \cup ({isr} \ {Nobody})

TS == INSTANCE TimerService WITH
          Ticks <- 0..MaxTicks, Never <- IdleValue, clock <- now,
          deadline <- DeadlineBar, fired <- FiredBar

KeepsTimerPromise == TS!Spec

\* Every armed completion leaves the list: the compare register, re-armed by
\* enqueue, abort, interrupt and wait loop in any order, never loses it.
CompletionsFire == \A c \in Completion : Armed(c) ~> ~Armed(c)

\* Every queued continuation is run or aborted, whether the CLR is busy
\* (ProcessActivity) or idle (Events_WaitForEvents).
ContinuationsRun ==
    \A c \in Completion : c \in ToSet(continuations)
                              ~> c \notin ToSet(continuations)

\* A wait ends once it has timed out or one of its events is set, although
\* it runs callbacks and borrows the compare register on the way.
WaitEnds == pc \in Waiting /\ (Expired \/ Awake) ~> pc = "app"
=============================================================================
