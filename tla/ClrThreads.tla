----------------------------- MODULE ClrThreads -----------------------------
(***************************************************************************)
(* The managed threads of the CLR: the execution engine's lists of ready,  *)
(* waiting and zombie threads, monitor locks with their request queues,    *)
(* wait handles (events, and the threads themselves for Join), sleeping,   *)
(* suspending, resuming and aborting.                                      *)
(*                                                                         *)
(* The interpreter runs one ready thread at a time, for a quantum, and     *)
(* every native call is made to its end: a call is one step, and the       *)
(* threads in the ready list take their steps in any order (the execution  *)
(* counters that sort it are left out).  Only SignalObject and the end of  *)
(* a thread, which walk lists that they change, are taken apart; nothing   *)
(* else happens meanwhile.                                                 *)
(***************************************************************************)
EXTENDS LinkedLists, FiniteSets

CONSTANTS
    Thread,
    Main,             \* the thread that runs first
    Object,           \* what Monitor.Enter locks
    Event,            \* AutoResetEvents and ManualResetEvents
    AutoReset,        \* those with HB_SignalAutoReset
    MaxRecursion,     \* bound: nested Enters of one object
    MaxRequests,      \* bound: requests of one thread for locks
    AbortLockWaiters, \* is a thread aborted while it waits for a lock?
    SuspendWaiters,   \* is a thread suspended while it waits for a handle?
    Nobody, NoWait, NoScan, End

Handle == Event \cup Thread   \* Join waits for a thread's own object

Wait == [handles : SUBSET Handle, all : BOOLEAN, timed : BOOLEAN]
Scan == [handle : Handle, at : Thread \cup {End}, ends : Thread \cup {Nobody}]
Destroy == [lock : Object \cup {End}, ends : Thread]

ASSUME ThreadAssumption ==
    /\ Main \in Thread /\ AutoReset \subseteq Event
    /\ Thread \cap Event = {} /\ Nobody \notin Thread
    /\ End \notin Thread \cup Object
    /\ NoWait \notin Wait /\ NoScan \notin Scan \cup Destroy
    /\ MaxRecursion \in Nat /\ MaxRequests \in Nat
    /\ AbortLockWaiters \in BOOLEAN /\ SuspendWaiters \in BOOLEAN

VARIABLES
    exec,      \* the lists of the execution engine and its threads' fields:
               \* status, suspended, ready, waiting, zombie, waitFor
               \* (m_waitForObject), sleeping (m_waitForEvents_Timeout is
               \* set) and requests (m_lockRequestsCount)
    result,    \* m_waitForObject_Result
    lock,      \* m_owningThread, m_recursion and m_requests
    locks,     \* m_locks of each thread
    signaled,  \* the handles with HB_Signaled
    scan       \* a SignalObject or an end of a thread that is going on

vars == <<exec, result, lock, locks, signaled, scan>>

TypeOK ==
    /\ exec \in [status : [Thread -> {"Unstarted", "Ready", "Waiting", "Terminated"}],
                 suspended : SUBSET Thread,
                 ready : SUBSET Thread, waiting : Seq(Thread), zombie : SUBSET Thread,
                 waitFor : [Thread -> Wait \cup {NoWait}],
                 sleeping : SUBSET Thread, requests : [Thread -> 0..MaxRequests]]
    /\ result \in [Thread -> {"init", "handle", "timeout"}]
    /\ lock \in [Object -> [owner : Thread \cup {Nobody}, recursion : 0..MaxRecursion,
                            requests : Seq(Thread)]]
    /\ locks \in [Thread -> Seq(Object)]
    /\ signaled \subseteq Handle
    /\ scan \in Scan \cup Destroy \cup {NoScan}

Free == [owner |-> Nobody, recursion |-> 0, requests |-> <<>>]

Init ==
    /\ exec = [status |-> [t \in Thread |-> IF t = Main THEN "Ready" ELSE "Unstarted"],
               suspended |-> {}, ready |-> {Main}, waiting |-> <<>>, zombie |-> {},
               waitFor |-> [t \in Thread |-> NoWait], sleeping |-> {},
               requests |-> [t \in Thread |-> 0]]
    /\ result = [t \in Thread |-> "init"]
    /\ lock = [o \in Object |-> Free]
    /\ locks = [t \in Thread |-> <<>>]
    /\ signaled = {}
    /\ scan = NoScan

-----------------------------------------------------------------------------
(***************************************************************************)
(* Moving threads between the lists.  Each operator takes the engine's     *)
(* state and gives the new one.                                            *)
(***************************************************************************)
Unlink(e, t) ==
    [e EXCEPT !.ready = @ \ {t}, !.waiting = Unlinked(@, t), !.zombie = @ \ {t}]

\* A thread that becomes ready forgets what it waited for.
InsertThreadRoundRobin(e, t) ==
    [Unlink(e, t) EXCEPT !.ready = @ \cup {t}, !.sleeping = @ \ {t},
                         !.waitFor[t] = NoWait]

\* Mutant: the suspended flag is not looked at.
PutInProperList_Suspended(e, t) ==
    IF e.status[t] = "Ready" THEN InsertThreadRoundRobin(e, t)
    ELSE [Unlink(e, t) EXCEPT !.waiting = Append(@, t)]

\* A suspended thread goes with those that wait, and forgets nothing.
PutInProperList(e, t) ==
    IF e.status[t] = "Ready" /\ t \notin e.suspended
    THEN InsertThreadRoundRobin(e, t)
    ELSE [Unlink(e, t) EXCEPT !.waiting = Append(@, t)]

Restart(e, t, fDeleteEvent) ==
    LET queued == PutInProperList([e EXCEPT !.status[t] = "Ready"], t)
    IN  IF fDeleteEvent THEN [queued EXCEPT !.sleeping = @ \ {t}] ELSE queued

\* CLR_E_THREAD_WAITING, and ScheduleThreads after it.
StopToWait(e, t) == PutInProperList([e EXCEPT !.status[t] = "Waiting"], t)

\* A thread is restarted when its last request is gone; while there are more
\* it is marked as waiting, in whichever list it is.
ChangeLockRequestCount(e, t, diff) ==
    LET n == e.requests[t] + diff
    IN  IF n = 0 THEN Restart([e EXCEPT !.requests[t] = 0], t, FALSE)
        ELSE [e EXCEPT !.requests[t] = n, !.status[t] = "Waiting"]

\* The thread the interpreter is running.
Scheduled(t) == t \in exec.ready /\ scan = NoScan

\* ... makes calls unless it has no frames left, which its own object tells.
Ended(t) == t \in signaled
Runs(t) == Scheduled(t) /\ ~Ended(t)

\* Native calls need a thread that was started.
Started(t) == exec.status[t] # "Unstarted"
Alive(t) == exec.status[t] \in {"Ready", "Waiting"}

-----------------------------------------------------------------------------
(***************************************************************************)
(* Threads.                                                                *)
(***************************************************************************)
Start(t, u) ==
    /\ Runs(t) /\ ~Started(u)
    /\ exec' = PutInProperList([exec EXCEPT !.status[u] = "Ready"], u)
    /\ signaled' = signaled \ {u}
    /\ UNCHANGED <<result, lock, locks, scan>>

\* The quantum is over: the thread is put where its status says.
QuantumExpired(t) ==
    /\ Scheduled(t)
    /\ exec' = PutInProperList(exec, t)
    /\ UNCHANGED <<result, lock, locks, signaled, scan>>

Sleep(t) ==
    /\ Runs(t)
    /\ exec' = StopToWait([exec EXCEPT !.sleeping = @ \cup {t}], t)
    /\ UNCHANGED <<result, lock, locks, signaled, scan>>

Suspend(t, u) ==
    /\ Runs(t) /\ Alive(u) /\ u \notin exec.suspended
    /\ SuspendWaiters \/ exec.waitFor[u] = NoWait
    /\ exec' = PutInProperList([exec EXCEPT !.suspended = @ \cup {u}], u)
    /\ UNCHANGED <<result, lock, locks, signaled, scan>>

\* Mutant: the thread is made ready, whatever it waits for.
Resume_Restarts(t, u) ==
    /\ Runs(t) /\ Alive(u) /\ u \in exec.suspended
    /\ exec' = Restart([exec EXCEPT !.suspended = @ \ {u}], u, FALSE)
    /\ UNCHANGED <<result, lock, locks, signaled, scan>>

Resume(t, u) ==
    /\ Runs(t) /\ Alive(u) /\ u \in exec.suspended
    /\ exec' = PutInProperList([exec EXCEPT !.suspended = @ \ {u}], u)
    /\ UNCHANGED <<result, lock, locks, signaled, scan>>

\* The exception ends whatever call the thread is in.  Its lock requests stay.
Abort(t, u) ==
    /\ Runs(t) /\ Alive(u) /\ u # t
    /\ AbortLockWaiters \/ exec.requests[u] = 0
    /\ exec' = Restart(exec, u, TRUE)
    /\ UNCHANGED <<result, lock, locks, signaled, scan>>

\* CheckThreads, for the timeout of a sleep ...
SleepExpires(t) ==
    /\ scan = NoScan
    /\ t \in exec.sleeping \ exec.suspended
    /\ exec' = Restart([exec EXCEPT !.sleeping = @ \ {t}], t, FALSE)
    /\ UNCHANGED <<result, lock, locks, signaled, scan>>

\* ... and of a wait.
WaitExpires(t) ==
    /\ scan = NoScan
    /\ t \notin exec.suspended
    /\ exec.waitFor[t] # NoWait /\ exec.waitFor[t].timed
    /\ result' = [result EXCEPT ![t] = "timeout"]
    /\ exec' = Restart(exec, t, TRUE)
    /\ UNCHANGED <<lock, locks, signaled, scan>>

-----------------------------------------------------------------------------
(***************************************************************************)
(* Monitors.                                                               *)
(***************************************************************************)

\* The places of a thread in the queues.
Requests(t) == UNION {{<<o, n>> : n \in {m \in DOMAIN lock[o].requests :
                                            lock[o].requests[m] = t}} : o \in Object}

\* LockObject: a lock comes into being with its first owner.
EnterOwned(t, o) ==
    /\ Runs(t)
    /\ lock[o].owner \in {t, Nobody} /\ lock[o].recursion < MaxRecursion
    /\ lock' = [lock EXCEPT ![o].owner = t, ![o].recursion = @ + 1]
    /\ locks' = IF lock[o].owner = t THEN locks
                ELSE [locks EXCEPT ![t] = Append(@, o)]
    /\ UNCHANGED <<exec, result, signaled, scan>>

\* Someone else's: the thread waits at the back of the queue.  When it runs
\* again the call returns, without another look at the lock.
EnterWaits(t, o) ==
    /\ Runs(t)
    /\ lock[o].owner \notin {t, Nobody} /\ exec.requests[t] < MaxRequests
    /\ lock' = [lock EXCEPT ![o].requests = Append(@, t)]
    /\ exec' = StopToWait(ChangeLockRequestCount(exec, t, 1), t)
    /\ UNCHANGED <<result, locks, signaled, scan>>

\* Mutant: the next owner is restarted, its request is not counted off.
ChangeOwner_NotCounted(o) ==
    /\ lock[o].requests # <<>>
    /\ LET next == Head(lock[o].requests)
       IN  /\ lock' = [lock EXCEPT ![o] = [owner |-> next, recursion |-> 1,
                                           requests |-> Tail(@.requests)]]
           /\ locks' = [locks EXCEPT ![lock[o].owner] = Unlinked(@, o),
                                     ![next] = Append(@, o)]
           /\ exec' = Restart(exec, next, FALSE)

\* ChangeOwner: the lock goes to the first in the queue, or out of being.
ChangeOwner(o) ==
    LET t == lock[o].owner
        left == [locks EXCEPT ![t] = Unlinked(@, o)]
    IN  IF lock[o].requests = <<>>
        THEN /\ lock' = [lock EXCEPT ![o] = Free]
             /\ locks' = left
             /\ UNCHANGED exec
        ELSE LET next == Head(lock[o].requests)
             IN  /\ lock' = [lock EXCEPT ![o] = [owner |-> next, recursion |-> 1,
                                                 requests |-> Tail(@.requests)]]
                 /\ locks' = [left EXCEPT ![next] = Append(@, o)]
                 /\ exec' = ChangeLockRequestCount(exec, next, -1)

\* Mutant: the lock is not given up with the last Exit.
MonitorExit_KeepsOwner(t, o) ==
    /\ Runs(t) /\ lock[o].owner = t
    /\ lock' = [lock EXCEPT ![o].recursion = @ - 1]
    /\ UNCHANGED <<exec, locks, result, signaled, scan>>

MonitorExit(t, o) ==
    /\ Runs(t) /\ lock[o].owner = t
    /\ IF lock[o].recursion = 1 THEN ChangeOwner(o)
       ELSE /\ lock' = [lock EXCEPT ![o].recursion = @ - 1]
            /\ UNCHANGED <<exec, locks>>
    /\ UNCHANGED <<result, signaled, scan>>

-----------------------------------------------------------------------------
(***************************************************************************)
(* Wait handles.                                                           *)
(***************************************************************************)

\* What TryWaitForSignal leaves signaled if the wait is over (for any handle
\* of an array, whichever comes first in it).
Remaining(w) ==
    IF w.all THEN IF w.handles \subseteq signaled
                  THEN {signaled \ (w.handles \cap AutoReset)} ELSE {}
    ELSE {signaled \ ({h} \cap AutoReset) : h \in w.handles \cap signaled}

\* Join of a thread that has ended does nothing.
Waitable(t) == {{u} : u \in {v \in Thread \ {t} : Alive(v)}}
                   \cup (SUBSET Event \ {{}})

\* Mutant: the result of the thread's last wait is kept.
WaitForSignal_KeepsResult(t, w) ==
    /\ Runs(t) /\ w.handles \in Waitable(t)
    /\ \/ /\ signaled' \in Remaining(w)
          /\ result' = [result EXCEPT ![t] = "handle"]
          /\ UNCHANGED exec
       \/ /\ Remaining(w) = {}
          /\ exec' = StopToWait([exec EXCEPT !.waitFor[t] = w], t)
          /\ UNCHANGED <<signaled, result>>
    /\ UNCHANGED <<lock, locks, scan>>

WaitForSignal(t, w) ==
    /\ Runs(t) /\ w.handles \in Waitable(t)
    /\ \/ /\ signaled' \in Remaining(w)
          /\ result' = [result EXCEPT ![t] = "handle"]
          /\ UNCHANGED exec
       \/ /\ Remaining(w) = {}
          /\ result' = [result EXCEPT ![t] = "init"]
          /\ exec' = StopToWait([exec EXCEPT !.waitFor[t] = w], t)
          /\ UNCHANGED signaled
    /\ UNCHANGED <<lock, locks, scan>>

EventReset(t, h) ==
    /\ Runs(t) /\ h \in Event
    /\ signaled' = signaled \ {h}
    /\ UNCHANGED <<exec, result, lock, locks, scan>>

FirstOf(s) == IF s = <<>> THEN End ELSE Head(s)
After(s, x) == LET n == CHOOSE m \in DOMAIN s : s[m] = x
               IN  IF n = Len(s) THEN End ELSE s[n + 1]

EventSet(t, h) ==
    /\ Runs(t) /\ h \in Event
    /\ signaled' = signaled \cup {h}
    /\ scan' = [handle |-> h, at |-> FirstOf(exec.waiting), ends |-> Nobody]
    /\ UNCHANGED <<exec, result, lock, locks>>

\* Mutants: one thread is enough for any handle; or the list is walked from
\* the start again.
SignalObject_Once ==
    /\ scan \in Scan /\ scan.at # End
    /\ LET t == scan.at
           w == exec.waitFor[t]
       IN  IF w # NoWait /\ Remaining(w) # {}
           THEN /\ signaled' \in Remaining(w)
                /\ result' = [result EXCEPT ![t] = "handle"]
                /\ exec' = Restart(exec, t, TRUE)
                /\ scan' = [scan EXCEPT !.at = End]
           ELSE /\ scan' = [scan EXCEPT !.at = After(exec.waiting, t)]
                /\ UNCHANGED <<signaled, result, exec>>
    /\ UNCHANGED <<lock, locks>>

SignalObject_FromStart ==
    /\ scan \in Scan /\ scan.at # End
    /\ LET t == scan.at
           w == exec.waitFor[t]
       IN  IF w # NoWait /\ Remaining(w) # {}
           THEN /\ signaled' \in Remaining(w)
                /\ result' = [result EXCEPT ![t] = "handle"]
                /\ exec' = Restart(exec, t, TRUE)
           ELSE UNCHANGED <<signaled, result, exec>>
    /\ scan' = [scan EXCEPT !.at = IF scan.handle \in signaled'
                                   THEN FirstOf(exec'.waiting) ELSE End]
    /\ UNCHANGED <<lock, locks>>

\* One turn of SignalObject's loop.  The next thread is the one that follows
\* before this one is restarted; an event that was reset has freed a thread.
SignalObject ==
    /\ scan \in Scan /\ scan.at # End
    /\ LET t == scan.at
           w == exec.waitFor[t]
       IN  /\ IF w # NoWait /\ Remaining(w) # {}
              THEN /\ signaled' \in Remaining(w)
                   /\ result' = [result EXCEPT ![t] = "handle"]
                   /\ exec' = Restart(exec, t, TRUE)
              ELSE UNCHANGED <<signaled, result, exec>>
           /\ scan' = [scan EXCEPT !.at = IF scan.handle \in signaled'
                                          THEN After(exec.waiting, t) ELSE End]
    /\ UNCHANGED <<lock, locks>>

SetReturns ==
    /\ scan \in Scan /\ scan.at = End /\ scan.ends = Nobody
    /\ scan' = NoScan
    /\ UNCHANGED <<exec, result, lock, locks, signaled>>

-----------------------------------------------------------------------------
(***************************************************************************)
(* The end of a thread.                                                    *)
(***************************************************************************)

\* Passivate: the thread joins the zombies, and those that Join it are
\* signaled.  (One that has ended before has nothing left to release.)
Passivate(t) ==
    /\ Scheduled(t)
    /\ exec' = [Unlink(exec, t) EXCEPT
                  !.status[t] = "Terminated", !.suspended = @ \ {t},
                  !.zombie = @ \cup {t}, !.sleeping = @ \ {t},
                  !.waitFor[t] = NoWait]
    /\ signaled' = signaled \cup {t}
    /\ scan' = [handle |-> t, at |-> FirstOf(exec.waiting),
                ends |-> IF Ended(t) THEN Nobody ELSE t]
    /\ UNCHANGED <<result, lock, locks>>

\* Mutant: the thread's locks are kept.
ReleaseLocks_None ==
    /\ scan \in Scan /\ scan.at = End /\ scan.ends # Nobody
    /\ scan' = [lock |-> End, ends |-> scan.ends]
    /\ UNCHANGED <<exec, result, lock, locks, signaled>>

\* Its locks are walked ...
ReleaseLocks ==
    /\ scan \in Scan /\ scan.at = End /\ scan.ends # Nobody
    /\ scan' = [lock |-> FirstOf(locks[scan.ends]), ends |-> scan.ends]
    /\ UNCHANGED <<exec, result, lock, locks, signaled>>

\* ... and given away one by one ...
DestroyOwner ==
    /\ scan \in Destroy /\ scan.lock # End
    /\ ChangeOwner(scan.lock)
    /\ scan' = [scan EXCEPT !.lock = After(locks[scan.ends], @)]
    /\ UNCHANGED <<result, signaled>>

\* ... and its requests are taken out of the queues of the other threads'
\* locks; with the last of them the thread is restarted.
DeleteLockRequests ==
    /\ scan \in Destroy /\ scan.lock = End
    /\ LET t == scan.ends
           others(o) == lock[o].owner \in exec.ready \cup ToSet(exec.waiting)
           mine == {r \in Requests(t) : others(r[1])}
       IN  IF mine = {} THEN UNCHANGED <<exec, lock>>
           ELSE /\ exec' = ChangeLockRequestCount(exec, t, -Cardinality(mine))
                /\ lock' = [o \in Object |->
                              IF others(o)
                              THEN [lock[o] EXCEPT !.requests =
                                      SelectSeq(@, LAMBDA u : u # t)]
                              ELSE lock[o]]
    /\ scan' = NoScan
    /\ UNCHANGED <<result, locks, signaled>>

-----------------------------------------------------------------------------
ThreadCalls(t) ==
    \/ QuantumExpired(t) \/ Sleep(t) \/ Passivate(t)
    \/ SleepExpires(t) \/ WaitExpires(t)
    \/ \E u \in Thread : \/ Start(t, u) \/ Abort(t, u)
                         \/ Suspend(t, u) \/ Resume(t, u)

MonitorCalls(t) ==
    \E o \in Object : EnterOwned(t, o) \/ EnterWaits(t, o) \/ MonitorExit(t, o)

HandleCalls(t) ==
    \/ \E w \in Wait : WaitForSignal(t, w)
    \/ \E h \in Event : EventSet(t, h) \/ EventReset(t, h)

Going ==
    \/ SignalObject \/ SetReturns
    \/ ReleaseLocks \/ DestroyOwner \/ DeleteLockRequests

Next ==
    \/ Going
    \/ \E t \in Thread : ThreadCalls(t) \/ MonitorCalls(t) \/ HandleCalls(t)

Spec == Init /\ [][Next]_vars

\* A call that is going on goes on: nothing else runs.
FairSpec == Spec /\ WF_vars(Going)

-----------------------------------------------------------------------------
(***************************************************************************)
(* Properties.                                                             *)
(***************************************************************************)
InWaiting(t) == t \in ToSet(exec.waiting)

\* A thread that was started is in one list, the one its status and the
\* suspended flag call for, however often grants, signals, timeouts, aborts
\* and resumes have moved it: a lost thread would never run again, and a
\* terminated one that is ready would run once more.
ListsMatchStatus ==
    \A t \in Thread :
        /\ t \in exec.ready <=> exec.status[t] = "Ready" /\ t \notin exec.suspended
        /\ t \in exec.zombie <=> exec.status[t] = "Terminated"
        /\ Cardinality({n \in DOMAIN exec.waiting : exec.waiting[n] = t})
             = (IF Alive(t) /\ t \notin exec.ready THEN 1 ELSE 0)

\* "Thread cannot run if a lock request is still pending...": the count
\* agrees with the queues, and a thread with a request is not ready.
PendingMeansWaiting ==
    scan = NoScan =>
        \A t \in Thread : /\ exec.requests[t] = Cardinality(Requests(t))
                          /\ exec.requests[t] > 0 => t \notin exec.ready

\* Whoever waits for a lock waits for a thread that can still give it up:
\* one that is alive, has it in its list, and does not wait for it itself.
OwnersCanRelease ==
    scan = NoScan =>
        \A o \in Object :
            /\ lock[o].owner = Nobody => lock[o].requests = <<>>
            /\ lock[o].owner # Nobody =>
                  /\ Alive(lock[o].owner)
                  /\ o \in ToSet(locks[lock[o].owner])
                  /\ lock[o].owner \notin ToSet(lock[o].requests)

\* Monitor.Enter returns success whenever its thread runs again: so nothing
\* but the grant of the lock may make it run.
EnterReturnsOwning ==
    [][\A t \in Thread, o \in Object :
          t \in ToSet(lock[o].requests) /\ t \in exec'.ready
              => lock'[o].owner = t]_vars

\* No wait outlasts its signals: between calls, no thread waits for handles
\* that are signaled already.
NoMissedSignal ==
    scan = NoScan =>
        \A t \in Thread : exec.waitFor[t] # NoWait => Remaining(exec.waitFor[t]) = {}

\* "This object can only free one thread": and it frees one.  The signal
\* that SignalObject takes back has ended a wait that had not ended before.
SignalFreesOne ==
    [][\A t \in Thread :
          SignalObject /\ signaled' # signaled /\ scan.at = t
              => result[t] = "init"]_vars

\* Set, and the end of a thread, are over at some time, although SignalObject
\* moves the threads it visits.
SignalReturns == scan # NoScan ~> scan = NoScan
=============================================================================
