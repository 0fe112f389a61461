--------------------------- MODULE VirtualTimers ---------------------------
(***************************************************************************)
(* The virtual timers of one VirtualTimerMapper, multiplexed on the alarm  *)
(* of one hardware timer (TIM5 of the STM32H7).                            *)
(*                                                                         *)
(* Thread code and the alarm's interrupt both work on the mapper.  The     *)
(* interrupt runs the callbacks of the timers it is trusted with and hands *)
(* those of the others to a pool of continuations, which the thread runs.  *)
(* Only the end of StartTimer is under GLOBAL_LOCK.                        *)
(***************************************************************************)
EXTENDS SequencesExt, Integers

CONSTANTS
    Timer,       \* timer ids
    IsrTimer,    \* ids up to VIRT_TIMER_INTERRUPT_CONTEXT_MARKER
    MaxSlots,    \* g_VirtualTimerPerHardwareTimer
    MaxPool,     \* VT_CALLBACK_CONTINUATION_MAX
    Shape,       \* bound: what clients ask for, [delay, period, oneShot]
    Cushion,     \* TIMER_5_TIME_CUSHION: no alarm is set nearer than this
    MaxTicks,    \* bound: the largest value of the clock
    LastCall,    \* bound: clients set and start nothing after this tick
    Never,       \* the alarm is off
    NoTimer      \* also an index that is out of range

Context == {"thread", "isr"}

ASSUME TimerAssumption ==
    /\ IsrTimer \subseteq Timer
    /\ MaxSlots \in Nat /\ MaxPool \in Nat /\ MaxTicks \in Nat
    /\ Shape \subseteq [delay : Nat, period : Nat, oneShot : BOOLEAN]
    /\ Cushion \in Nat \ {0}
    /\ LastCall \in 0..MaxTicks
    /\ Never \notin Nat
    /\ NoTimer \notin Timer

VARIABLES
    now,         \* CPU_Timer_CurrentTicks(SYSTEM_TIME)
    slots,       \* the ids of g_VirtualTimerInfo[0 .. m_current_timer_cnt_ - 1]
    timers,      \* the other fields of a timer's g_VirtualTimerInfo
    alarm,       \* TIM5, and m_current_timer_running_
    cbRunning,   \* is_callback_running
    isr,         \* whose callback the interrupt is running, or NoTimer
    starting,    \* a StartTimer that has written the match time, per context
    queue,       \* callbacks waiting in the pool's continuations
    executing    \* the one the thread is running, or NoTimer

vars == <<now, slots, timers, alarm, cbRunning, isr, starting, queue, executing>>

TypeOK ==
    /\ now \in 0..MaxTicks
    /\ slots \in Seq(Timer) /\ Len(slots) <= MaxSlots
    /\ \A n, m \in DOMAIN slots : slots[n] = slots[m] => n = m
    /\ timers \in [Timer -> [delay : Nat, period : Nat, oneShot : BOOLEAN,
                             running : BOOLEAN, reserved : BOOLEAN, match : Nat]]
    /\ alarm \in [at : Nat \cup {Never}, pending : BOOLEAN,
                  current : Timer \cup {NoTimer}]
    /\ cbRunning \in BOOLEAN
    /\ isr \in IsrTimer \cup {NoTimer}
    /\ starting \in [Context -> Timer \cup {NoTimer}]
    /\ queue \in Seq(Timer \ IsrTimer)
    /\ executing \in (Timer \ IsrTimer) \cup {NoTimer}

\* Fields of a table entry that was never set.
Unset == [delay |-> 0, period |-> 0, oneShot |-> FALSE,
          running |-> FALSE, reserved |-> FALSE, match |-> 0]
AlarmOff == [at |-> Never, pending |-> FALSE, current |-> NoTimer]

Init ==
    /\ now = 0
    /\ slots = <<>>
    /\ timers = [t \in Timer |-> Unset]
    /\ alarm = AlarmOff
    /\ cbRunning = FALSE
    /\ isr = NoTimer
    /\ starting = [x \in Context |-> NoTimer]
    /\ queue = <<>>
    /\ executing = NoTimer

-----------------------------------------------------------------------------
(***************************************************************************)
(* The alarm.                                                              *)
(***************************************************************************)

\* System time goes on; the alarm runs out.  Only differences of times
\* matter, so time is bounded without ever ending: from MaxTicks on it is the
\* times on record that move, into a past that has one tick, 0, to itself.
Earlier(t) == IF t > 0 THEN t - 1 ELSE 0

Tick ==
    /\ IF now < MaxTicks
       THEN /\ now' = now + 1
            /\ alarm' = [alarm EXCEPT !.pending = @ \/ now + 1 = alarm.at]
            /\ UNCHANGED timers
       ELSE /\ timers' = [t \in Timer |->
                            [timers[t] EXCEPT !.match = Earlier(@)]]
            /\ alarm' = IF alarm.at = Never THEN alarm
                        ELSE [alarm EXCEPT !.at = Earlier(@),
                                           !.pending = @ \/ now + 1 = alarm.at]
            /\ UNCHANGED now
    /\ UNCHANGED <<slots, cbRunning, isr, starting, queue, executing>>

\* CPU_Timer_SetCompare.  Setting the timer up raises an update interrupt
\* that the handler ignores, and with it one that was waiting.
CPU_Timer_SetCompare(t, compareValue) ==
    [at |-> IF compareValue < now + Cushion THEN now + Cushion ELSE compareValue,
     pending |-> FALSE, current |-> t]

\* Mutant: the last slot that is running, whenever it is due.
NextSlot_Last(table) ==
    CHOOSE n \in DOMAIN slots :
        /\ table[slots[n]].running
        /\ \A m \in DOMAIN slots : table[slots[m]].running => m <= n

\* The slot the scan ends with: the last of those with the smallest match.
NextSlot(table) ==
    LET match(n) == table[slots[n]].match
        running == {n \in DOMAIN slots : table[slots[n]].running}
    IN  CHOOSE n \in running :
          \A m \in running : match(m) >= match(n) /\ (m > n => match(m) # match(n))

\* SetAlarmForTheNextTimer, outside a callback: the alarm a table asks for,
\* given the one there was.  With no timer running the hardware is left alone.
SetAlarmForTheNextTimer(before, table) ==
    IF \E n \in DOMAIN slots : table[slots[n]].running
    THEN LET t == slots[NextSlot(table)]
         IN  CPU_Timer_SetCompare(t, table[t].match)
    ELSE [before EXCEPT !.current = NoTimer]

-----------------------------------------------------------------------------
(***************************************************************************)
(* The calls, from the thread or from a callback in the interrupt.         *)
(***************************************************************************)
MayCall(x) ==
    /\ starting[x] = NoTimer
    /\ IF x = "isr" THEN isr # NoTimer ELSE isr = NoTimer

IsSet(t) == t \in ToSet(slots)   \* VirtTimerIndexMapper finds it

\* Mutant: a timer takes a new slot each time it is set.
SetTimer_NewSlot(x, t, s, isreserved) ==
    /\ MayCall(x) /\ now <= LastCall
    /\ Len(slots) < MaxSlots
    /\ ~timers[t].reserved
    /\ slots' = Append(slots, t)
    /\ UNCHANGED <<now, timers, alarm, cbRunning, isr, starting, queue, executing>>

\* A timer that is unknown takes the next slot; a full table or a reserved
\* timer is refused.  A timer that was running no longer is.
SetTimer(x, t, s, isreserved) ==
    /\ MayCall(x) /\ now <= LastCall
    /\ IsSet(t) \/ Len(slots) < MaxSlots
    /\ ~timers[t].reserved
    /\ slots' = IF IsSet(t) THEN slots ELSE Append(slots, t)
    /\ timers' = [timers EXCEPT ![t] =
                    [delay |-> s.delay, period |-> s.period,
                     oneShot |-> s.oneShot, running |-> FALSE,
                     reserved |-> isreserved,
                     match |-> now + s.period + s.delay]]
    /\ UNCHANGED <<now, alarm, cbRunning, isr, starting, queue, executing>>

Changed(table, t, s) ==
    [table EXCEPT ![t].delay = s.delay, ![t].period = s.period,
                  ![t].oneShot = s.oneShot]

\* The match time of a running timer stays as it is.
ChangeTimer(x, t, s) ==
    /\ MayCall(x) /\ now <= LastCall
    /\ IsSet(t)
    /\ timers' = Changed(timers, t, s)
    /\ UNCHANGED <<now, slots, alarm, cbRunning, isr, starting, queue, executing>>

Matching(table, t) ==
    [table EXCEPT ![t].match = now + table[t].period + table[t].delay]
Running(table, t) == [table EXCEPT ![t].running = TRUE]

\* StartTimer leaves a running timer alone.  The match time of one that is
\* not is written before the lock is taken ...
StartTimer(x, t) ==
    /\ MayCall(x) /\ now <= LastCall
    /\ IsSet(t) /\ ~timers[t].running
    /\ timers' = Matching(timers, t)
    /\ starting' = [starting EXCEPT ![x] = t]
    /\ UNCHANGED <<now, slots, alarm, cbRunning, isr, queue, executing>>

\* Mutant: the alarm is left as it is.
StartTimerLocked_NoAlarm(x) ==
    /\ starting[x] # NoTimer
    /\ x = "thread" => isr = NoTimer
    /\ timers' = Running(timers, starting[x])
    /\ starting' = [starting EXCEPT ![x] = NoTimer]
    /\ UNCHANGED <<now, slots, alarm, cbRunning, isr, queue, executing>>

\* ... and under GLOBAL_LOCK it is marked running and the alarm is set, or
\* left to the end of the callback that is running.
StartTimerLocked(x) ==
    /\ starting[x] # NoTimer
    /\ x = "thread" => isr = NoTimer
    /\ timers' = Running(timers, starting[x])
    /\ alarm' = IF cbRunning THEN alarm ELSE SetAlarmForTheNextTimer(alarm, timers')
    /\ starting' = [starting EXCEPT ![x] = NoTimer]
    /\ UNCHANGED <<now, slots, cbRunning, isr, queue, executing>>

Stopped(table, t) == [table EXCEPT ![t].running = FALSE, ![t].reserved = FALSE]

\* Mutant: the next timer is looked for, but the alarm is not taken back.
StopTimer_Rescans(x, t) ==
    /\ MayCall(x)
    /\ timers' = IF IsSet(t) THEN Stopped(timers, t) ELSE timers
    /\ alarm' = IF cbRunning THEN alarm ELSE SetAlarmForTheNextTimer(alarm, timers')
    /\ UNCHANGED <<now, slots, cbRunning, isr, starting, queue, executing>>

\* The alarm is not touched: it may go off for a timer that has stopped.
StopTimer(x, t) ==
    /\ MayCall(x)
    /\ timers' = IF IsSet(t) THEN Stopped(timers, t) ELSE timers
    /\ UNCHANGED <<now, slots, alarm, cbRunning, isr, starting, queue, executing>>

-----------------------------------------------------------------------------
(***************************************************************************)
(* The interrupt: TIM5_IRQHandler stops the timer and calls                *)
(* VirtualTimerCallback.                                                   *)
(***************************************************************************)
Interrupts == alarm.pending /\ isr = NoTimer
Full == Len(slots) >= MaxSlots

\* The timer the alarm was set for is running and its time has passed.
Due == /\ alarm.current # NoTimer
       /\ timers[alarm.current].running
       /\ timers[alarm.current].match < now

\* A one-shot is over, a periodic timer counts from the end of its callback.
AfterService(table, t) ==
    IF table[t].oneShot
    THEN [table EXCEPT ![t].running = FALSE]
    ELSE [table EXCEPT ![t].match = now + table[t].period]

\* "ASSERT(0); return" with the flag still set, when every slot is taken.
CallbackRefused ==
    /\ Interrupts /\ Full
    /\ cbRunning' = TRUE
    /\ alarm' = [AlarmOff EXCEPT !.current = alarm.current]
    /\ UNCHANGED <<now, slots, timers, isr, starting, queue, executing>>

\* The callback is called from the interrupt, and the flag stays set for it.
CallbackInInterrupt ==
    /\ Interrupts /\ ~Full
    /\ Due /\ alarm.current \in IsrTimer
    /\ isr' = alarm.current
    /\ cbRunning' = TRUE
    /\ alarm' = [AlarmOff EXCEPT !.current = alarm.current]
    /\ UNCHANGED <<now, slots, timers, starting, queue, executing>>

\* A continuation is free unless its callback is queued or running.
PoolSize == Len(queue) + (IF executing = NoTimer THEN 0 ELSE 1)

\* queueVTCallback, whose failure nobody looks at.
CallbackToQueue ==
    /\ Interrupts /\ ~Full
    /\ Due /\ alarm.current \notin IsrTimer
    /\ queue' = IF PoolSize < MaxPool THEN Append(queue, alarm.current) ELSE queue
    /\ timers' = AfterService(timers, alarm.current)
    /\ alarm' = SetAlarmForTheNextTimer(AlarmOff, timers')
    /\ cbRunning' = FALSE
    /\ UNCHANGED <<now, slots, isr, starting, executing>>

\* The alarm of a timer that was stopped, or is not past its time yet.
NothingDue ==
    /\ Interrupts /\ ~Full /\ ~Due
    /\ alarm' = SetAlarmForTheNextTimer(AlarmOff, timers)
    /\ cbRunning' = FALSE
    /\ UNCHANGED <<now, slots, timers, isr, starting, queue, executing>>

\* Mutant: no alarm after a callback.
CallbackReturn_NoAlarm ==
    /\ isr # NoTimer /\ starting["isr"] = NoTimer
    /\ timers' = AfterService(timers, isr)
    /\ cbRunning' = FALSE
    /\ isr' = NoTimer
    /\ UNCHANGED <<now, slots, alarm, starting, queue, executing>>

\* The callback returns to VirtualTimerCallback.
CallbackReturn ==
    /\ isr # NoTimer /\ starting["isr"] = NoTimer
    /\ timers' = AfterService(timers, isr)
    /\ cbRunning' = FALSE
    /\ alarm' = SetAlarmForTheNextTimer(alarm, timers')
    /\ isr' = NoTimer
    /\ UNCHANGED <<now, slots, starting, queue, executing>>

-----------------------------------------------------------------------------
(***************************************************************************)
(* The thread runs the continuations, first come first served.             *)
(***************************************************************************)
ThreadIsFree == isr = NoTimer /\ starting["thread"] = NoTimer

HAL_CONTINUATION_ExtendedExecute ==
    /\ ThreadIsFree /\ executing = NoTimer
    /\ queue # <<>>
    /\ executing' = Head(queue)
    /\ queue' = Tail(queue)
    /\ UNCHANGED <<now, slots, timers, alarm, cbRunning, isr, starting>>

SetUnUsed ==
    /\ ThreadIsFree /\ executing # NoTimer
    /\ executing' = NoTimer
    /\ UNCHANGED <<now, slots, timers, alarm, cbRunning, isr, starting, queue>>

-----------------------------------------------------------------------------
Calls(x) ==
    \/ StartTimerLocked(x)
    \/ \E t \in Timer : StartTimer(x, t) \/ StopTimer(x, t)
    \/ \E t \in Timer, s \in Shape : ChangeTimer(x, t, s)
    \/ \E t \in Timer, s \in Shape, r \in BOOLEAN : SetTimer(x, t, s, r)

VirtualTimerCallback ==
    \/ CallbackRefused \/ CallbackInInterrupt \/ CallbackToQueue
    \/ NothingDue \/ CallbackReturn

Next ==
    \/ Tick
    \/ \E x \in Context : Calls(x)
    \/ VirtualTimerCallback
    \/ HAL_CONTINUATION_ExtendedExecute \/ SetUnUsed

Spec == Init /\ [][Next]_vars

\* The clock runs, a waiting interrupt is served, callbacks return, a call
\* that has begun ends and the CLR comes back to its continuations.
Fairness ==
    /\ WF_vars(Tick)
    /\ WF_vars(VirtualTimerCallback)
    /\ \A x \in Context : WF_vars(StartTimerLocked(x))
    /\ SF_vars(HAL_CONTINUATION_ExtendedExecute) /\ SF_vars(SetUnUsed)

FairSpec == Spec /\ Fairness

-----------------------------------------------------------------------------
(***************************************************************************)
(* Properties.                                                             *)
(***************************************************************************)
Larger(a, b) == IF a > b THEN a ELSE b

\* No running timer is left behind: outside a callback the alarm is due by
\* the earliest match time, or by the end of the cushion, or its interrupt is
\* waiting.  Stops never move the alarm, starts cancel one that has gone off,
\* and starts in a callback count on its end to set the alarm.
AlarmCoversTimers ==
    ~cbRunning =>
        \A t \in ToSet(slots) : timers[t].running =>
            \/ alarm.pending
            \/ /\ alarm.at # Never
               /\ now < alarm.at
               /\ alarm.at <= Larger(timers[t].match, now + Cushion)

\* VirtualTimerCallback indexes the table with m_current_timer_running_,
\* which is out of range when the last scan found no timer running: the
\* alarm must never go off, or be set to, in that state.
AlarmHasTimer ==
    alarm.at # Never => alarm.current \in ToSet(slots)

Served(t) == \/ isr # isr' /\ isr' = t
             \/ queue' # queue /\ Len(queue') > Len(queue) /\ Last(queue') = t

\* A timer is served after its match time, and never before another running
\* timer that is due earlier, although the one the alarm was set for may have
\* been stopped, changed or set again since.
EarliestFirst ==
    [][\A t \in Timer : Served(t) =>
          /\ timers[t].running /\ timers[t].match < now
          /\ \A u \in ToSet(slots) :
                timers[u].running => timers[t].match <= timers[u].match]_vars

\* The callback is never refused: "ASSERT(0)" stands for what cannot happen.
NeverRefused == ~(Interrupts /\ Full)

\* A one-shot that runs is served, or stopped: nothing the clients do makes
\* the alarm miss it for ever, unless they fill the table.  And a callback
\* that is in the pool is called, whatever interrupts the thread.
OneShotsEnd ==
    \A t \in Timer :
        /\ timers[t].running /\ timers[t].oneShot
             ~> Full \/ ~(timers[t].running /\ timers[t].oneShot)
        /\ t \in ToSet(queue) ~> executing = t
=============================================================================
