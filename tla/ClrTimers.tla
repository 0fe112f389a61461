----------------------------- MODULE ClrTimers -----------------------------
(***************************************************************************)
(* The managed timers of the CLR: nodes in one list of the execution       *)
(* engine, which marks those that are due and gives them, one at a time,   *)
(* to one system thread that runs their callbacks.                         *)
(*                                                                         *)
(* The interpreter makes native calls to their end, so a call is a step,   *)
(* as in module ClrThreads; what is interleaved is the calls of the        *)
(* application (of a callback too), the scheduler's look at the timers     *)
(* after every quantum, the end of a callback, the garbage collector and   *)
(* the clock, which only the scheduler reads into m_currentMachineTime.    *)
(***************************************************************************)
EXTENDS LinkedLists

CONSTANTS
    Timer,        \* nodes of CLR_RT_HeapBlock_Timer
    Request,      \* due time and period the application asks for; below 0
                  \* is refused
    Infinite,     \* TIMEOUT_INFINITE, the largest time
    MaxTime,      \* bound: the clock
    MaxFailures,  \* bound: allocations that fail
    Nothing

ASSUME TimerAssumption ==
    /\ Request \subseteq Int \X Int /\ MaxTime \in Nat /\ MaxFailures \in Nat
    /\ Infinite \in Nat
    /\ \A q \in Request : q[1] + q[2] + MaxTime < Infinite \/ Infinite \in {q[1], q[2]}
    /\ Nothing \notin Timer

VARIABLES
    clock,        \* Time_GetMachineTime
    machineTime,  \* m_currentMachineTime
    timers,       \* m_timers
    timer,        \* m_flags, m_timeExpire, m_timeFrequency, m_timeLastExpiration
    held,         \* the timers the application has a reference to
    thread,       \* m_timerThread: none yet, idle, busy or lost
    runs,         \* its m_terminationParameter
    failures,
    owed          \* history: timers found due and not called since

vars == <<clock, machineTime, timers, timer, held, thread, runs, failures, owed>>

TypeOK ==
    /\ clock \in 0..MaxTime /\ machineTime \in 0..clock
    /\ timers \in Seq(Timer) /\ NoRepeats(timers)
    /\ timer \in [Timer -> [enabled : BOOLEAN, recurring : BOOLEAN,
                            triggered : BOOLEAN, executing : BOOLEAN,
                            expire : Int, frequency : Int, last : Int]]
    /\ held \cup owed \subseteq ToSet(timers)
    /\ thread \in {"none", "idle", "busy", "lost"}
    /\ runs \in Timer \cup {Nothing} /\ (thread = "busy") = (runs # Nothing)
    /\ failures \in 0..MaxFailures

Fresh == [enabled |-> FALSE, recurring |-> FALSE, triggered |-> FALSE,
          executing |-> FALSE, expire |-> Infinite, frequency |-> Infinite, last |-> 0]

Init ==
    /\ clock = 0 /\ machineTime = 0
    /\ timers = <<>> /\ timer = [t \in Timer |-> Fresh] /\ held = {} /\ owed = {}
    /\ thread = "none" /\ runs = Nothing /\ failures = 0

-----------------------------------------------------------------------------
(***************************************************************************)
(* The application's calls.  The times are given in ticks, as by the forms *)
(* that take TimeSpans; the others multiply by 10000 after the stores.     *)
(***************************************************************************)

\* A refused time has been stored already, and the exception leaves what
\* comes after it as it was.
SetDue(r, due) ==
    IF due = Infinite THEN [r EXCEPT !.expire = Infinite, !.enabled = FALSE]
    ELSE IF due < 0 THEN [r EXCEPT !.expire = due]
    ELSE [r EXCEPT !.expire = clock + due, !.enabled = TRUE]

\* (A period is of no use to a timer that does not recur.)
SetPeriod(r, due, period) ==
    IF due < 0 \/ period < 0
    THEN [r EXCEPT !.frequency = IF r.recurring THEN period ELSE Infinite]
    ELSE [r EXCEPT !.frequency = period, !.recurring = period \notin {0, Infinite}]

ConfigureObject(r, due, period) == SetPeriod(SetDue(r, due), due, period)

\* Mutant: the node keeps the place it had.
LinkAtBack_Twice(t) == timers' = Append(timers, t)

LinkAtBack(t) == timers' = LinkedAtBack(timers, t)

\* A constructor that throws has given the application no reference.
Create(t, due, period) ==
    /\ t \notin ToSet(timers)
    /\ LinkAtBack(t)
    /\ timer' = [timer EXCEPT ![t] = ConfigureObject(Fresh, due, period)]
    /\ held' = IF due < 0 \/ period < 0 THEN held ELSE held \cup {t}
    /\ UNCHANGED <<clock, machineTime, thread, runs, failures, owed>>

\* A disposed timer may be changed too: CheckDisposed reads a flag that is
\* never set.  A timer that was triggered stays so.
Change(t, due, period) ==
    /\ t \in held
    /\ timer' = [timer EXCEPT ![t] = ConfigureObject(@, due, period)]
    /\ owed' = owed \ {t}
    /\ UNCHANGED <<clock, machineTime, timers, held, thread, runs, failures>>

Dispose(t) ==
    /\ t \in held
    /\ timer' = [timer EXCEPT ![t].enabled = FALSE]
    /\ owed' = owed \ {t}
    /\ UNCHANGED <<clock, machineTime, timers, held, thread, runs, failures>>

\* The application drops its references and RecoverFromGC frees the node,
\* whether or not its callback runs.
Collect(t) ==
    /\ t \in ToSet(timers)
    /\ timers' = Unlinked(timers, t)
    /\ timer' = [timer EXCEPT ![t] = Fresh]
    /\ held' = held \ {t} /\ owed' = owed \ {t}
    /\ UNCHANGED <<clock, machineTime, thread, runs, failures>>

-----------------------------------------------------------------------------
(***************************************************************************)
(* The engine.                                                             *)
(***************************************************************************)

\* The first triggered timer of the list is given to the thread, if that can
\* be used, and goes to the back of the list.  `timerNew`, `was` and `owedNew`
\* are the timers, the thread's state and the history at the call.
SpawnTimer(timerNew, was, owedNew) ==
    LET waiting == {i \in DOMAIN timers : timerNew[timers[i]].triggered}
        first == {timers[i] : i \in {k \in waiting : \A j \in waiting : k <= j}}
        Called(t) == [timerNew EXCEPT ![t].last = timerNew[t].expire,
                                      ![t].expire = Infinite]
    IN
    \/ /\ waiting = {} \/ was \in {"busy", "lost"}
       /\ timer' = timerNew /\ owed' = owedNew /\ thread' = was
       /\ UNCHANGED <<timers, failures>>
       /\ runs' = IF was = "busy" THEN runs ELSE Nothing
    \/ \* PushThreadProcDelegate finds none for the stack frame: the thread is
       \* ready, in no list and never ends.
       /\ was \in {"none", "idle"} /\ failures < MaxFailures
       /\ failures' = failures + 1
       /\ thread' = "lost" /\ runs' = Nothing
       /\ \E t \in first : timer' = Called(t) /\ LinkAtBack(t)
       /\ owed' = owedNew
    \/ /\ was \in {"none", "idle"}
       /\ thread' = "busy" /\ UNCHANGED failures
       /\ \E t \in first :
             /\ runs' = t
             /\ timer' = [Called(t) EXCEPT ![t].executing = TRUE,
                                           ![t].triggered = FALSE]
             /\ owed' = owedNew \ {t}
             /\ LinkAtBack(t)

Expired(t) == timer[t].enabled /\ timer[t].expire <= clock

\* Mutant: what falls due while its callback runs is put off for ever.
Trigger_Forgets(t) ==
    IF timer[t].executing THEN [timer[t] EXCEPT !.expire = Infinite]
                          ELSE [timer[t] EXCEPT !.triggered = TRUE]

Trigger(t) == IF timer[t].executing THEN timer[t]
                                    ELSE [timer[t] EXCEPT !.triggered = TRUE]

\* UpdateTime and ProcessTimer, after every quantum and while no thread runs.
ProcessTimer ==
    LET due == {t \in ToSet(timers) : Expired(t)}
        triggered == [t \in Timer |-> IF t \in due THEN Trigger(t) ELSE timer[t]]
    IN
    /\ machineTime' = clock /\ UNCHANGED <<clock, held>>
    /\ \/ due = {} /\ UNCHANGED <<timers, timer, thread, runs, failures, owed>>
       \/ due # {} /\ SpawnTimer(triggered, thread, owed \cup due)
       \/ \* EnsureSystemThread finds no memory for a first thread.
          /\ due # {} /\ thread = "none" /\ failures < MaxFailures
          /\ failures' = failures + 1
          /\ timer' = triggered /\ owed' = owed \cup due
          /\ UNCHANGED <<timers, thread, runs>>

\* What the end of a callback does to the node.  (The time of the call is of
\* no use until the next call stores its own.)
Ended(r) == [r EXCEPT !.executing = FALSE, !.last = 0]

\* The next time of a recurring timer that has been called.  Where a refused
\* change has left no period to divide by, it is overdue or never comes.  The
\* sum overflows after a timer that was changed to Infinite between its trigger
\* and its call, and what the 64-bit arithmetic makes of it lies in the future.
NextExpire(r) ==
    LET expire == r.last + r.frequency
        period == IF r.frequency < 0 THEN -r.frequency ELSE r.frequency
    IN  IF r.frequency \in {0, Infinite} THEN {machineTime, Infinite}
        ELSE IF r.last = Infinite /\ r.frequency > 0
             THEN (machineTime + 1) .. (machineTime + 2 * period - 1)
        ELSE {IF expire < machineTime
              THEN machineTime - ((machineTime - expire) % period) + r.frequency
              ELSE expire}

Rescheduled(r) ==
    IF r.recurring /\ r.enabled
    THEN {[Ended(r) EXCEPT !.expire = e] : e \in NextExpire(r)} ELSE {Ended(r)}

\* Mutant: the thread looks for no other timer.
CallbackEnds_Alone ==
    /\ thread = "busy"
    /\ \E r \in Rescheduled(timer[runs]) :
          timer' = [timer EXCEPT ![runs] = r]
    /\ thread' = "idle" /\ runs' = Nothing
    /\ UNCHANGED <<clock, machineTime, timers, held, failures, owed>>

\* The thread ends: ThreadTerminationCallback of a node that may be free, or
\* another timer's, by now.  A timer that was due again while its callback
\* ran loses that time to its period.
CallbackEnds ==
    /\ thread = "busy"
    /\ UNCHANGED <<clock, machineTime, held>>
    /\ \E r \in Rescheduled(timer[runs]) :
          SpawnTimer([timer EXCEPT ![runs] = r], "idle",
                     IF r.recurring /\ r.enabled /\ ~r.triggered
                     THEN owed \ {runs} ELSE owed)

Tick ==
    /\ clock < MaxTime
    /\ clock' = clock + 1
    /\ UNCHANGED <<machineTime, timers, timer, held, thread, runs, failures, owed>>

Next ==
    \/ \E t \in Timer, request \in Request :
          \/ Create(t, request[1], request[2])
          \/ Change(t, request[1], request[2])
    \/ \E t \in Timer : Dispose(t) \/ Collect(t)
    \/ ProcessTimer \/ CallbackEnds \/ Tick

Spec == Init /\ [][Next]_vars

\* The scheduler looks at the timers again and again, and callbacks end.
FairSpec == Spec /\ WF_vars(ProcessTimer) /\ WF_vars(CallbackEnds)

-----------------------------------------------------------------------------
(***************************************************************************)
(* Properties.                                                             *)
(***************************************************************************)

\* The one thread is the callbacks' only way to run: it never sits idle while
\* a triggered timer waits, whatever was changed, disposed or collected since
\* the trigger, and no timer counts as executing unless its callback is what
\* the thread runs (one that did would never be triggered again).
ThreadServesTimers ==
    /\ (\E t \in ToSet(timers) : timer[t].triggered) => thread # "idle"
    /\ \A t \in ToSet(timers) : timer[t].executing => thread = "busy" /\ runs = t

\* A timer that has been found due is called, although there is one thread for
\* all of them, unless the application thinks better of it, its own next period
\* takes over or the thread is lost: also one that falls due while its own
\* callback runs, which has set it anew.
OwedIsCalled ==
    \A t \in Timer : t \in owed ~> (t \notin owed \/ thread = "lost")

\* What recurs has a period.  Not so after a refused change, which the runs
\* allow: then the timer comes back at once, or its next time is undefined.
RecurringHasPeriod ==
    \A t \in ToSet(timers) :
        timer[t].recurring => timer[t].frequency > 0 /\ timer[t].frequency # Infinite
=============================================================================
