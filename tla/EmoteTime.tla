----------------------------- MODULE EmoteTime -----------------------------
(***************************************************************************)
(* HAL_COMPLETION on eMote's time driver: HAL_Time_SetCompare keeps the    *)
(* compare value of the completion list in virtual timer VIRT_TIMER_EVENTS *)
(* (eMote_Time), next to the virtual timers of other clients.              *)
(*                                                                         *)
(* The completion list is that of module Completions.  Its completions run *)
(* in the interrupt, inside the events timer's own callback; one that does *)
(* not is put among the continuations there and is the same to this module *)
(* as a callback that does nothing.                                        *)
(***************************************************************************)
EXTENDS VirtualTimers, LinkedLists

CONSTANTS
    EVENTS,       \* VIRT_TIMER_EVENTS, an interrupt-context timer
    Completion,   \* HAL_COMPLETION objects
    Delta,        \* bound: delays of completions, timeouts of waits, in us
    PastDelay,    \* what a compare value in the past is replaced by (300)
    IdleValue,    \* HAL_Completion_IdleValue
    CLOCK_COMMON_FACTOR,   \* 10^6
    timerFrequency,        \* 48 * 10^6, a multiple of it
    Word,                  \* 2^32, what UINT32 wraps around at
    CallbacksEnqueue,      \* a callback may enqueue completions
    NoCall                 \* a context that is not in EnqueueDelta

TicksPerMicrosecond == timerFrequency \div CLOCK_COMMON_FACTOR

ASSUME EmoteAssumption ==
    /\ IsrTimer = {EVENTS}   \* the others in its context are left out
    /\ IsFiniteSet(Timer) /\ Cardinality(Timer) < MaxSlots   \* never Full
    /\ Delta \subseteq Nat /\ PastDelay \in Nat
    /\ IdleValue \notin Nat
    /\ CLOCK_COMMON_FACTOR \in Nat \ {0} /\ Word \in Nat \ {0}
    /\ timerFrequency \in Nat \ {0}
    /\ timerFrequency = TicksPerMicrosecond * CLOCK_COMMON_FACTOR
    /\ CallbacksEnqueue \in BOOLEAN
    /\ NoCall \notin [node : Completion, ticks : Nat]

VARIABLES
    completions,   \* g_HAL_Completion_List
    eventTicks,    \* EventTimeTicks of each completion
    call           \* an EnqueueDelta that has read the clock, per context

armed == <<completions, eventTicks, call>>

EmoteTypeOK ==
    /\ TypeOK
    /\ completions \in Seq(Completion)
    /\ eventTicks \in [Completion -> Nat]
    /\ call \in [Context -> {NoCall} \cup [node : Completion, ticks : Nat]]

\* Time_Driver::Initialize sets the timer up, reserved; nothing starts it
\* with the period it has then.
EmoteInit ==
    /\ now = 0
    /\ slots = <<EVENTS>>
    /\ timers = [t \in Timer |-> [Unset EXCEPT !.reserved = (t = EVENTS)]]
    /\ alarm = AlarmOff
    /\ cbRunning = FALSE
    /\ isr = NoTimer
    /\ starting = [x \in Context |-> NoTimer]
    /\ queue = <<>> /\ executing = NoTimer
    /\ completions = <<>>
    /\ eventTicks = [c \in Completion |-> 0]
    /\ call = [x \in Context |-> NoCall]

-----------------------------------------------------------------------------
(***************************************************************************)
(* HAL_Time_SetCompare, as what it makes of the timer table and the alarm. *)
(* It stops the timer, or changes its delay and starts it: StartTimer      *)
(* leaves a running timer, and with it the match time, as they are.        *)
(***************************************************************************)
CPU_MicrosecondsToTicks(us) == us * TicksPerMicrosecond

\* The product is taken in 32 bits: on the STM32H7 it wraps around from 4295
\* ticks on, which are 89 microseconds.
CPU_TicksToMicroseconds(ticks) ==
    ((ticks * CLOCK_COMMON_FACTOR) % Word) \div timerFrequency

\* The delay of the timer: ticks to go, no more of them than 32 bits hold
\* (the ASSERT that none were lost does nothing in a release build), as
\* microseconds for VirtTimer_Change, which makes ticks of them again.
DelayTo(c) ==
    LET ticks  == IF c > now THEN c - now ELSE PastDelay
        capped == IF ticks >= Word THEN Word - 1 ELSE ticks
    IN  CPU_MicrosecondsToTicks(CPU_TicksToMicroseconds(capped))

\* Mutant: a compare value in the past sets nothing.
SetCompareValue_IgnoresPast(table, c) ==
    IF c <= now THEN table
    ELSE Running(Matching(Changed(table, EVENTS,
           [delay |-> DelayTo(c), period |-> 0, oneShot |-> TRUE]), EVENTS), EVENTS)

SetCompareValue(table, c) ==
    LET changed == Changed(table, EVENTS,
                     [delay |-> DelayTo(c), period |-> 0, oneShot |-> TRUE])
    IN  IF table[EVENTS].running THEN changed
        ELSE Running(Matching(changed, EVENTS), EVENTS)

CompareTable(table, c) ==
    IF c = IdleValue THEN Stopped(table, EVENTS) ELSE SetCompareValue(table, c)

CompareAlarm(before, table, c) ==
    IF c = IdleValue \/ table[EVENTS].running THEN before
    ELSE SetAlarmForTheNextTimer(before, SetCompareValue(table, c))

HAL_Time_SetCompare(c) ==
    /\ timers' = CompareTable(timers, c)
    /\ alarm' = IF cbRunning THEN alarm ELSE CompareAlarm(alarm, timers, c)

-----------------------------------------------------------------------------
(***************************************************************************)
(* The completions' operations, from the thread or from the callback of a  *)
(* completion.                                                             *)
(***************************************************************************)
Calling(x) == MayCall(x) /\ call[x] = NoCall

CompareFor(l) == IF l = <<>> THEN IdleValue ELSE eventTicks[FirstNode(l)]

InsertionPoint(l, t) ==
    LET later == {i \in DOMAIN l : t < eventTicks[l[i]]}
    IN  IF later = {} THEN Len(l) + 1
        ELSE CHOOSE i \in later : \A j \in later : i <= j

\* HAL_COMPLETION::EnqueueDelta reads the clock before the lock is taken.
\* The clients in the tree abort a completion before they enqueue it again,
\* and keep it to one context at a time.
EnqueueDelta(x, c, d) ==
    LET ticks == now + CPU_MicrosecondsToTicks(d)
    IN  /\ Calling(x) /\ now <= LastCall
        /\ x = "isr" => CallbacksEnqueue
        /\ c \notin ToSet(completions)
        /\ \A y \in Context : call[y] # NoCall => call[y].node # c
        /\ ticks > 0
        /\ call' = [call EXCEPT ![x] = [node |-> c, ticks |-> ticks]]
        /\ UNCHANGED <<vars, completions, eventTicks>>

\* EnqueueTicks, under GLOBAL_LOCK.
EnqueueTicks(x) ==
    /\ call[x] # NoCall
    /\ x = "thread" => isr = NoTimer
    /\ LET c == call[x].node
           t == call[x].ticks
       IN  /\ eventTicks' = [eventTicks EXCEPT ![c] = t]
           /\ completions' = Inserted(completions, InsertionPoint(completions, t), c)
           /\ IF FirstNode(completions') = c THEN HAL_Time_SetCompare(t)
                                             ELSE UNCHANGED <<timers, alarm>>
    /\ call' = [call EXCEPT ![x] = NoCall]
    /\ UNCHANGED <<now, slots, cbRunning, isr, starting, queue, executing>>

\* Mutant: the compare value of an aborted head stays.
Abort_KeepsCompare(x, c) ==
    /\ Calling(x) /\ now <= LastCall
    /\ completions' = Unlinked(completions, c)
    /\ UNCHANGED <<vars, eventTicks, call>>

Abort(x, c) ==
    /\ Calling(x) /\ now <= LastCall
    /\ completions' = Unlinked(completions, c)
    /\ IF completions # <<>> /\ FirstNode(completions) = c
       THEN HAL_Time_SetCompare(CompareFor(completions'))
       ELSE UNCHANGED <<timers, alarm>>
    /\ UNCHANGED <<now, slots, cbRunning, isr, starting, queue, executing,
                   eventTicks, call>>

\* WaitForInterrupts, called with the lock held, sets the compare to the end
\* of the wait, unless a completion is due before it, and back again, without
\* ever sleeping.
WaitForInterrupts(timeout) ==
    LET expire == now + CPU_MicrosecondsToTicks(timeout)
        first == CompareTable(timers, expire)
    IN  /\ Calling("thread") /\ timeout > 0
        /\ IF completions = <<>> \/ eventTicks[FirstNode(completions)] > expire
           THEN /\ timers' = CompareTable(first, CompareFor(completions))
                /\ alarm' = IF cbRunning THEN alarm
                            ELSE CompareAlarm(CompareAlarm(alarm, timers, expire),
                                              first, CompareFor(completions))
           ELSE UNCHANGED <<timers, alarm>>
        /\ UNCHANGED <<now, slots, cbRunning, isr, starting, queue, executing,
                       armed>>

\* The events timer is served: SetCompareHandler calls DequeueAndExec, which
\* takes the head off without a look at its time, sets the next compare and
\* executes the completion, all inside the timer's callback.
DequeueAndExec ==
    /\ Interrupts /\ Due /\ alarm.current = EVENTS
    /\ completions' = IF completions = <<>> THEN <<>> ELSE Tail(completions)
    /\ timers' = IF completions = <<>> THEN timers
                 ELSE CompareTable(timers, CompareFor(completions'))
    /\ isr' = EVENTS
    /\ cbRunning' = TRUE
    /\ alarm' = [AlarmOff EXCEPT !.current = EVENTS]
    /\ UNCHANGED <<now, slots, starting, queue, executing, eventTicks, call>>

\* The completion's callback returns, and with it the timer's, whose one shot
\* is over: a compare value set meanwhile goes with it.
ExecuteReturns ==
    /\ call["isr"] = NoCall
    /\ CallbackReturn
    /\ UNCHANGED armed

-----------------------------------------------------------------------------
EmoteTick ==
    /\ Tick
    /\ IF now < MaxTicks THEN UNCHANGED <<eventTicks, call>>
       ELSE /\ eventTicks' = [c \in Completion |-> Earlier(eventTicks[c])]
            /\ call' = [x \in Context |->
                          IF call[x] = NoCall THEN NoCall
                          ELSE [call[x] EXCEPT !.ticks = Earlier(@)]]
    /\ UNCHANGED completions

\* The other clients of the mapper leave the events timer alone.
OtherTimers(x) ==
    /\ call[x] = NoCall
    /\ \/ StartTimerLocked(x)
       \/ \E t \in Timer \ {EVENTS} :
             \/ StartTimer(x, t) \/ StopTimer(x, t)
             \/ \E s \in Shape : ChangeTimer(x, t, s) \/ SetTimer(x, t, s, FALSE)
    /\ UNCHANGED armed

OtherCallbacks ==
    /\ CallbackToQueue \/ NothingDue
    /\ UNCHANGED armed

Continuations ==
    /\ call["thread"] = NoCall
    /\ HAL_CONTINUATION_ExtendedExecute \/ SetUnUsed
    /\ UNCHANGED armed

CompletionCalls(x) ==
    \/ \E c \in Completion, d \in Delta : EnqueueDelta(x, c, d)
    \/ EnqueueTicks(x)
    \/ \E c \in Completion : Abort(x, c)

EmoteNext ==
    \/ EmoteTick
    \/ \E x \in Context : CompletionCalls(x) \/ OtherTimers(x)
    \/ \E d \in Delta : WaitForInterrupts(d)
    \/ DequeueAndExec \/ ExecuteReturns
    \/ OtherCallbacks \/ Continuations

EmoteSpec == EmoteInit /\ [][EmoteNext]_<<vars, armed>>

\* As for VirtualTimers and Completions.
EmoteFairSpec ==
    /\ EmoteSpec
    /\ WF_<<vars, armed>>(EmoteTick)
    /\ WF_<<vars, armed>>(DequeueAndExec \/ ExecuteReturns \/ OtherCallbacks)
    /\ \A x \in Context :
          /\ WF_<<vars, armed>>(EnqueueTicks(x))
          /\ WF_<<vars, armed>>(StartTimerLocked(x) /\ UNCHANGED armed)
    /\ SF_<<vars, armed>>(Continuations)

-----------------------------------------------------------------------------
(***************************************************************************)
(* Properties.                                                             *)
(***************************************************************************)

\* The head of the completion list is never without a running events timer,
\* and the timer's match time is not after the head is due (or after the
\* delay that stands for a compare value in the past): "compare value cannot
\* miss", as HAL_Time_SetCompare has it.  With CallbacksEnqueue this is not so,
\* nor is CompletionsFire: ExecuteReturns stops the timer that was started.
HeadHasTimer ==
    completions # <<>> =>
        /\ timers[EVENTS].running
        /\ timers[EVENTS].match <= Larger(eventTicks[FirstNode(completions)],
                                          now + PastDelay)

\* The events timer runs only while a completion is armed, whatever is
\* aborted, enqueued and waited for, and from wherever: SetCompareHandler is
\* not called for the end of a wait, or for a head that has gone.
TimerIsForCompletion ==
    timers[EVENTS].running /\ isr = NoTimer => completions # <<>>

\* A completion is taken off the list only when it has expired (give or take
\* the microsecond that delays are rounded to), which DequeueAndExec leaves
\* to the virtual timer to see to.  This is so only of one completion, and of
\* delays that CPU_TicksToMicroseconds does not wrap around.
OnlyExpired ==
    [][DequeueAndExec /\ completions # <<>>
         => eventTicks[FirstNode(completions)] < now + TicksPerMicrosecond
      ]_<<vars, armed>>

\* An armed completion is executed or aborted, through the timer table, the
\* alarm and its cushion.
CompletionsFire ==
    \A c \in Completion : c \in ToSet(completions) ~> c \notin ToSet(completions)
=============================================================================
