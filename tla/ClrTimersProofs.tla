-------------------------- MODULE ClrTimersProofs --------------------------
(***************************************************************************)
(* ClrTimers, for every set of timers, every time an application asks for  *)
(* and every bound: the types, and that the one system thread is never     *)
(* idle while a triggered timer waits for it.                              *)
(***************************************************************************)
EXTENDS ClrTimers, LinkedListLemmas

Table == [Timer -> [enabled : BOOLEAN, recurring : BOOLEAN,
                    triggered : BOOLEAN, executing : BOOLEAN,
                    expire : Int, frequency : Int, last : Int]]
Node == [enabled : BOOLEAN, recurring : BOOLEAN,
         triggered : BOOLEAN, executing : BOOLEAN,
         expire : Int, frequency : Int, last : Int]

-----------------------------------------------------------------------------
(***************************************************************************)
(* What the calls make of a node.                                          *)
(***************************************************************************)

\* A change sets times and what follows from them; it neither triggers a
\* timer nor takes a trigger back.
LEMMA ConfigureKeepsFlags ==
    ASSUME TimerAssumption, clock \in Nat, NEW r \in Node,
           NEW due \in Int, NEW period \in Int
    PROVE  /\ ConfigureObject(r, due, period) \in Node
           /\ ConfigureObject(r, due, period).triggered = r.triggered
           /\ ConfigureObject(r, due, period).executing = r.executing
<1>. DEFINE set == SetDue(r, due)
<1>1. Infinite \in Int /\ clock + due \in Int
  BY DEF TimerAssumption
<1>2. set \in Node /\ set.triggered = r.triggered /\ set.executing = r.executing
  BY <1>1 DEF SetDue, Node
<1>3. ConfigureObject(r, due, period) = SetPeriod(set, due, period)
  BY DEF ConfigureObject
<1>. HIDE DEF set
<1>. QED BY <1>1, <1>2, <1>3 DEF SetPeriod, Node

LEMMA FreshIsNode ==
    ASSUME TimerAssumption
    PROVE  Fresh \in Node /\ ~Fresh.triggered /\ ~Fresh.executing
BY DEF TimerAssumption, Fresh, Node

\* What the end of a callback makes of a node: it no longer executes, and it
\* has a next time if it recurs, whatever a refused change has left of its
\* period.
LEMMA RescheduledIsNode ==
    ASSUME TimerAssumption, machineTime \in Nat, NEW r \in Node,
           NEW s \in Rescheduled(r)
    PROVE  s \in Node /\ ~s.executing /\ s.triggered = r.triggered
<1>1. Ended(r) \in Node /\ Ended(r).executing = FALSE
      /\ Ended(r).triggered = r.triggered
  <2>1. Ended(r) \in Node
    <3>. DEFINE mid == [r EXCEPT !.executing = FALSE]
    <3>1. mid \in Node
      BY DEF Node
    <3>2. Ended(r) = [mid EXCEPT !.last = 0]
      BY DEF Ended
    <3>. HIDE DEF mid
    <3>. QED BY <3>1, <3>2 DEF Node
  <2>2. Ended(r).executing = FALSE
    BY DEF Ended, Node
  <2>3. Ended(r).triggered = r.triggered
    BY DEF Ended, Node
  <2>. QED BY <2>1, <2>2, <2>3
<1>2. NextExpire(r) \subseteq Int
  <2>. DEFINE expire == r.last + r.frequency
              period == IF r.frequency < 0 THEN -r.frequency ELSE r.frequency
  <2>1. /\ expire \in Int /\ period \in Int /\ r.frequency \in Int
        /\ r.frequency # 0 => period > 0
        /\ Infinite \in Int
    BY DEF Node, TimerAssumption
  <2>2. ASSUME r.frequency # 0
        PROVE  machineTime - ((machineTime - expire) % period) + r.frequency \in Int
    <3>. DEFINE late == machineTime - expire
    <3>1. late \in Int
      BY <2>1
    <3>. HIDE DEF late, period, expire
    <3>2. late % period \in Int
      BY <2>1, <2>2, <3>1
    <3>. QED BY <2>1, <3>2 DEF late
  <2>3. NextExpire(r) \subseteq
           {machineTime, Infinite, expire}
             \cup ((machineTime + 1) .. (machineTime + 2 * period - 1))
             \cup (IF r.frequency = 0 THEN {} ELSE
                   {machineTime - ((machineTime - expire) % period) + r.frequency})
    BY Zenon DEF NextExpire
  <2>. QED BY <2>1, <2>2, <2>3
<1>3. CASE s = Ended(r)
  BY <1>1, <1>3
<1>4. ASSUME NEW e \in NextExpire(r), s = [Ended(r) EXCEPT !.expire = e]
      PROVE  s \in Node /\ ~s.executing /\ s.triggered = r.triggered
  <2>1. e \in Int
    BY <1>2
  <2>. QED BY <1>1, <1>4, <2>1 DEF Node
<1>. QED BY <1>3, <1>4 DEF Rescheduled

-----------------------------------------------------------------------------
(***************************************************************************)
(* The invariant: types and ThreadServesTimers itself.                     *)
(***************************************************************************)
Threads == {"none", "idle", "busy", "lost"}

IInv == TypeOK /\ ThreadServesTimers

LEMMA IInvInit == ASSUME TimerAssumption, Init PROVE IInv
<1>1. /\ timers \in Seq(Timer) /\ DOMAIN timers = {} /\ ToSet(timers) = {}
  BY EmptySeq DEF Init, ToSet
<1>2. timer \in Table
  BY FreshIsNode DEF Init, Table, Node
<1>3. clock \in 0..MaxTime /\ machineTime \in 0..clock /\ failures \in 0..MaxFailures
  BY DEF Init, TimerAssumption
<1>4. TypeOK
  BY <1>1, <1>2, <1>3 DEF Init, TypeOK, Table, NoRepeats
<1>. QED BY <1>1, <1>4 DEF IInv, ThreadServesTimers

\* The look for a timer to run: if one is triggered then the thread is not
\* left idle, and a timer starts to execute only as the thread takes it.
LEMMA SpawnKeeps ==
    ASSUME TimerAssumption, TypeOK, NEW timerNew \in Table, NEW was \in Threads,
           NEW owedNew, owedNew \subseteq ToSet(timers),
           SpawnTimer(timerNew, was, owedNew),
           was = "busy" => runs # Nothing,
           \A t \in ToSet(timers) : timerNew[t].executing => was = "busy" /\ runs = t
    PROVE  /\ timers' \in Seq(Timer) /\ NoRepeats(timers')
           /\ ToSet(timers') = ToSet(timers)
           /\ timer' \in Table /\ owed' \subseteq ToSet(timers)
           /\ thread' \in Threads /\ runs' \in Timer \cup {Nothing}
           /\ (thread' = "busy") = (runs' # Nothing)
           /\ failures' \in 0..MaxFailures
           /\ ThreadServesTimers'
<1>1. /\ timers \in Seq(Timer) /\ NoRepeats(timers) /\ Len(timers) \in Nat
      /\ DOMAIN timers = 1..Len(timers) /\ runs \in Timer \cup {Nothing}
      /\ failures \in 0..MaxFailures /\ MaxFailures \in Nat /\ Nothing \notin Timer
      /\ Infinite \in Int
  BY LenProperties DEF TypeOK, TimerAssumption
<1>. DEFINE waiting == {i \in DOMAIN timers : timerNew[timers[i]].triggered}
            first == {timers[i] : i \in {k \in waiting : \A j \in waiting : k <= j}}
            Called(t) == [timerNew EXCEPT ![t].last = timerNew[t].expire,
                                          ![t].expire = Infinite]
<1>2. first \subseteq Timer /\ first \subseteq ToSet(timers)
  <2>1. \A i \in DOMAIN timers : timers[i] \in Timer /\ timers[i] \in ToSet(timers)
    BY <1>1, ElementOfSeq DEF ToSet
  <2>. QED BY <2>1
<1>3. \A t \in first : /\ LinkedAtBack(timers, t) \in Seq(Timer)
                       /\ NoRepeats(LinkedAtBack(timers, t))
                       /\ ToSet(LinkedAtBack(timers, t)) = ToSet(timers)
  <2>1. SUFFICES ASSUME NEW t \in first
                 PROVE  /\ LinkedAtBack(timers, t) \in Seq(Timer)
                        /\ NoRepeats(LinkedAtBack(timers, t))
                        /\ ToSet(LinkedAtBack(timers, t)) = ToSet(timers)
    OBVIOUS
  <2>. HIDE DEF first
  <2>2. t \in Timer /\ t \in ToSet(timers)
    BY <1>2
  <2>3. /\ LinkedAtBack(timers, t) \in Seq(Timer)
        /\ NoRepeats(LinkedAtBack(timers, t))
        /\ ToSet(LinkedAtBack(timers, t)) = ToSet(timers) \cup {t}
    BY <1>1, <2>2, LinkedAtBackProperties
  <2>. QED BY <2>2, <2>3
<1>4. \/ /\ waiting = {} \/ was \in {"busy", "lost"}
         /\ timer' = timerNew /\ owed' = owedNew /\ thread' = was
         /\ UNCHANGED <<timers, failures>>
         /\ runs' = IF was = "busy" THEN runs ELSE Nothing
      \/ /\ was \in {"none", "idle"} /\ failures < MaxFailures
         /\ failures' = failures + 1
         /\ thread' = "lost" /\ runs' = Nothing
         /\ \E t \in first : timer' = Called(t) /\ timers' = LinkedAtBack(timers, t)
         /\ owed' = owedNew
      \/ /\ was \in {"none", "idle"}
         /\ thread' = "busy" /\ UNCHANGED failures
         /\ \E t \in first :
               /\ runs' = t
               /\ timer' = [Called(t) EXCEPT ![t].executing = TRUE,
                                             ![t].triggered = FALSE]
               /\ owed' = owedNew \ {t}
               /\ timers' = LinkedAtBack(timers, t)
  BY DEF SpawnTimer, LinkAtBack
<1>5. \A t \in ToSet(timers) : t \in Timer /\ \E i \in DOMAIN timers : timers[i] = t
  BY <1>1, ElementOfSeq DEF ToSet
<1>6. \A t \in first :
         /\ Called(t) \in Table
         /\ \A u \in Timer : /\ Called(t)[u].executing = timerNew[u].executing
                             /\ Called(t)[u].triggered = timerNew[u].triggered
  <2>1. SUFFICES ASSUME NEW t \in first
                 PROVE  /\ Called(t) \in Table
                        /\ \A u \in Timer :
                              /\ Called(t)[u].executing = timerNew[u].executing
                              /\ Called(t)[u].triggered = timerNew[u].triggered
    OBVIOUS
  <2>. HIDE DEF first
  <2>. DEFINE node == [timerNew[t] EXCEPT !.last = timerNew[t].expire,
                                         !.expire = Infinite]
  <2>2. t \in Timer
    BY <1>2
  <2>3. timerNew[t] \in Node /\ timerNew \in [Timer -> Node]
    BY <2>2 DEF Table, Node
  <2>4. Called(t) = [timerNew EXCEPT ![t] = node]
    BY <2>2, <2>3
  <2>5. /\ node \in Node /\ node.executing = timerNew[t].executing
        /\ node.triggered = timerNew[t].triggered
    BY <1>1, <2>3 DEF Node
  <2>. HIDE DEF node, Called
  <2>6. Called(t) \in [Timer -> Node]
    BY <2>2, <2>3, <2>4, <2>5
  <2>7. \A u \in Timer : Called(t)[u] = IF u = t THEN node ELSE timerNew[u]
    BY <2>3, <2>4
  <2>. QED BY <2>5, <2>6, <2>7 DEF Table, Node
<1>. HIDE DEF first, Called
<1>7. CASE /\ waiting = {} \/ was \in {"busy", "lost"}
           /\ timer' = timerNew /\ owed' = owedNew /\ thread' = was
           /\ UNCHANGED <<timers, failures>>
           /\ runs' = IF was = "busy" THEN runs ELSE Nothing
  <2>1. (\E t \in ToSet(timers) : timerNew[t].triggered) => waiting # {}
    BY <1>5
  <2>2. ThreadServesTimers'
    BY <1>7, <2>1 DEF ThreadServesTimers
  <2>. QED BY <1>1, <1>7, <2>2
<1>8. ASSUME was \in {"none", "idle"}, failures < MaxFailures,
             failures' = failures + 1, thread' = "lost", runs' = Nothing,
             NEW t \in first, timer' = Called(t), timers' = LinkedAtBack(timers, t),
             owed' = owedNew
      PROVE  /\ timers' \in Seq(Timer) /\ NoRepeats(timers')
             /\ ToSet(timers') = ToSet(timers)
             /\ timer' \in Table /\ owed' \subseteq ToSet(timers)
             /\ thread' \in Threads /\ runs' \in Timer \cup {Nothing}
             /\ (thread' = "busy") = (runs' # Nothing)
             /\ failures' \in 0..MaxFailures
             /\ ThreadServesTimers'
  <2>1. ThreadServesTimers'
    BY <1>3, <1>5, <1>6, <1>8 DEF ThreadServesTimers
  <2>. QED BY <1>1, <1>3, <1>6, <1>8, <2>1 DEF Threads
<1>9. ASSUME was \in {"none", "idle"}, thread' = "busy", failures' = failures,
             NEW t \in first, runs' = t,
             timer' = [Called(t) EXCEPT ![t].executing = TRUE, ![t].triggered = FALSE],
             owed' = owedNew \ {t}, timers' = LinkedAtBack(timers, t)
      PROVE  /\ timers' \in Seq(Timer) /\ NoRepeats(timers')
             /\ ToSet(timers') = ToSet(timers)
             /\ timer' \in Table /\ owed' \subseteq ToSet(timers)
             /\ thread' \in Threads /\ runs' \in Timer \cup {Nothing}
             /\ (thread' = "busy") = (runs' # Nothing)
             /\ failures' \in 0..MaxFailures
             /\ ThreadServesTimers'
  <2>1. t \in Timer /\ Called(t) \in Table
    BY <1>2, <1>6
  <2>2. /\ timer' \in Table
        /\ \A u \in Timer \ {t} : timer'[u].executing = Called(t)[u].executing
    <3>. DEFINE node == [Called(t)[t] EXCEPT !.executing = TRUE, !.triggered = FALSE]
    <3>1. Called(t)[t] \in Node /\ Called(t) \in [Timer -> Node]
      BY <2>1 DEF Table, Node
    <3>2. timer' = [Called(t) EXCEPT ![t] = node]
      BY <1>9, <2>1, <3>1
    <3>3. node \in Node
      BY <3>1 DEF Node
    <3>. HIDE DEF node
    <3>4. timer' \in [Timer -> Node]
      BY <2>1, <3>1, <3>2, <3>3
    <3>. QED BY <3>1, <3>2, <3>4 DEF Table, Node
  <2>3. ASSUME NEW u \in ToSet(timers), timer'[u].executing
        PROVE  u = t
    <3>1. u \in Timer
      BY <1>5
    <3>2. CASE u # t
      <4>1. timerNew[u].executing
        BY <1>6, <2>2, <2>3, <3>1, <3>2
      <4>. QED BY <1>9, <4>1
    <3>. QED BY <3>2
  <2>4. ToSet(timers') = ToSet(timers)
    BY <1>3, <1>9
  <2>5. ThreadServesTimers'
    BY <1>9, <2>3, <2>4 DEF ThreadServesTimers
  <2>. QED BY <1>1, <1>3, <1>9, <2>1, <2>2, <2>5 DEF Threads
<1>. QED BY <1>4, <1>7, <1>8, <1>9

\* A step on node t: it may enter the list or leave it, and its flags that
\* only the engine sets stay as they are or are cleared.
WorksOn(t) ==
    /\ UNCHANGED <<clock, machineTime, thread, runs, failures>>
    /\ timers' \in Seq(Timer) /\ NoRepeats(timers')
    /\ ToSet(timers') \subseteq ToSet(timers) \cup {t}
    /\ timer' \in Table
    /\ held' \cup owed' \subseteq ToSet(timers')
    /\ \A u \in Timer \ {t} : timer'[u] = timer[u]
    /\ \/ /\ timer'[t].triggered = timer[t].triggered
          /\ timer'[t].executing = timer[t].executing
          /\ t \in ToSet(timers)
       \/ ~timer'[t].triggered /\ ~timer'[t].executing

\* The application's calls and the collector work on one node and never on
\* the thread.
LEMMA CallsWorkOnOne ==
    ASSUME TimerAssumption, IInv, NEW t \in Timer,
           \/ \E request \in Request : \/ Create(t, request[1], request[2])
                                       \/ Change(t, request[1], request[2])
           \/ Dispose(t) \/ Collect(t)
    PROVE  WorksOn(t)
<1>1. /\ timers \in Seq(Timer) /\ NoRepeats(timers) /\ clock \in Nat /\ timer \in Table
      /\ held \subseteq ToSet(timers) /\ owed \subseteq ToSet(timers)
      /\ timer[t] \in Node
  BY DEF IInv, TypeOK, TimerAssumption, Table, Node
<1>2. \A request \in Request : request[1] \in Int /\ request[2] \in Int
  BY DEF TimerAssumption
<1>3. ASSUME NEW request \in Request, Create(t, request[1], request[2])
      PROVE  WorksOn(t)
  <2>. DEFINE node == ConfigureObject(Fresh, request[1], request[2])
  <2>1. node \in Node /\ ~node.triggered /\ ~node.executing
    BY <1>1, <1>2, FreshIsNode, ConfigureKeepsFlags
  <2>2. /\ timers' = LinkedAtBack(timers, t) /\ timer' = [timer EXCEPT ![t] = node]
        /\ held' \subseteq held \cup {t} /\ owed' = owed
        /\ UNCHANGED <<clock, machineTime, thread, runs, failures>>
    BY <1>3 DEF Create, LinkAtBack
  <2>. HIDE DEF node
  <2>3. timers' \in Seq(Timer) /\ NoRepeats(timers') /\ ToSet(timers') = ToSet(timers) \cup {t}
    BY <1>1, <2>2, LinkedAtBackProperties
  <2>4. /\ timer' \in Table /\ timer'[t] = node
        /\ \A u \in Timer \ {t} : timer'[u] = timer[u]
    BY <1>1, <2>1, <2>2 DEF Table, Node
  <2>. QED BY <1>1, <2>1, <2>2, <2>3, <2>4 DEF WorksOn
<1>4. ASSUME NEW request \in Request, Change(t, request[1], request[2])
      PROVE  WorksOn(t)
  <2>. DEFINE node == ConfigureObject(timer[t], request[1], request[2])
  <2>1. node \in Node /\ node.triggered = timer[t].triggered
        /\ node.executing = timer[t].executing
    BY <1>1, <1>2, ConfigureKeepsFlags
  <2>2. /\ t \in ToSet(timers) /\ timer' = [timer EXCEPT ![t] = node]
        /\ owed' \subseteq owed
        /\ UNCHANGED <<timers, held, clock, machineTime, thread, runs, failures>>
    BY <1>1, <1>4 DEF Change
  <2>. HIDE DEF node
  <2>3. /\ timer' \in Table /\ timer'[t] = node
        /\ \A u \in Timer \ {t} : timer'[u] = timer[u]
    BY <1>1, <2>1, <2>2 DEF Table, Node
  <2>. QED BY <1>1, <2>1, <2>2, <2>3 DEF WorksOn
<1>5. ASSUME Dispose(t)
      PROVE  WorksOn(t)
  <2>1. /\ t \in ToSet(timers) /\ timer' = [timer EXCEPT ![t].enabled = FALSE]
        /\ owed' \subseteq owed
        /\ UNCHANGED <<timers, held, clock, machineTime, thread, runs, failures>>
    BY <1>1, <1>5 DEF Dispose
  <2>2. /\ timer' \in Table /\ timer'[t].triggered = timer[t].triggered
        /\ timer'[t].executing = timer[t].executing
        /\ \A u \in Timer \ {t} : timer'[u] = timer[u]
    BY <1>1, <2>1 DEF Table
  <2>. QED BY <1>1, <2>1, <2>2 DEF WorksOn
<1>6. ASSUME Collect(t)
      PROVE  WorksOn(t)
  <2>1. /\ timers' = Unlinked(timers, t) /\ timer' = [timer EXCEPT ![t] = Fresh]
        /\ held' = held \ {t} /\ owed' = owed \ {t}
        /\ UNCHANGED <<clock, machineTime, thread, runs, failures>>
    BY <1>6 DEF Collect
  <2>2. timers' \in Seq(Timer) /\ NoRepeats(timers') /\ ToSet(timers') = ToSet(timers) \ {t}
    BY <1>1, <2>1, UnlinkedProperties
  <2>3. /\ timer' \in Table /\ timer'[t] = Fresh
        /\ \A u \in Timer \ {t} : timer'[u] = timer[u]
    BY <1>1, <2>1, FreshIsNode DEF Table, Node
  <2>. QED BY <1>1, <2>1, <2>2, <2>3, FreshIsNode DEF WorksOn
<1>. QED BY <1>3, <1>4, <1>5, <1>6

LEMMA WorkKeeps ==
    ASSUME IInv, NEW t \in Timer, WorksOn(t) PROVE IInv'
<1>1. ToSet(timers') \subseteq Timer
  <2>1. timers' \in Seq(Timer)
    BY DEF WorksOn
  <2>. QED BY <2>1, ElementOfSeq, LenProperties DEF ToSet
<1>2. \A u \in ToSet(timers') :
         /\ timer'[u].triggered => u \in ToSet(timers) /\ timer[u].triggered
         /\ timer'[u].executing => u \in ToSet(timers) /\ timer[u].executing
  BY <1>1 DEF WorksOn
<1>3. ThreadServesTimers'
  BY <1>2 DEF WorksOn, IInv, ThreadServesTimers
<1>4. TypeOK'
  BY DEF WorksOn, IInv, TypeOK, Table
<1>. QED BY <1>3, <1>4 DEF IInv

\* The scheduler's look at the timers.
LEMMA ProcessTimerKeeps ==
    ASSUME TimerAssumption, IInv, ProcessTimer PROVE IInv'
<1>. DEFINE due == {t \in ToSet(timers) : Expired(t)}
            triggered == [t \in Timer |-> IF t \in due THEN Trigger(t) ELSE timer[t]]
<1>1. /\ timers \in Seq(Timer) /\ NoRepeats(timers) /\ timer \in Table /\ TypeOK
      /\ owed \subseteq ToSet(timers) /\ ThreadServesTimers /\ clock \in Nat
  BY DEF IInv, TypeOK, TimerAssumption, Table
<1>2. due \subseteq ToSet(timers)
  OBVIOUS
<1>3. /\ triggered \in Table
      /\ \A t \in Timer : triggered[t].executing = timer[t].executing
  BY <1>1 DEF Trigger, Table
<1>4. /\ machineTime' = clock /\ UNCHANGED <<clock, held>>
      /\ \/ due = {} /\ UNCHANGED <<timers, timer, thread, runs, failures, owed>>
         \/ due # {} /\ SpawnTimer(triggered, thread, owed \cup due)
         \/ /\ due # {} /\ thread = "none" /\ failures < MaxFailures
            /\ failures' = failures + 1
            /\ timer' = triggered /\ owed' = owed \cup due
            /\ UNCHANGED <<timers, thread, runs>>
  BY DEF ProcessTimer
<1>5. ToSet(timers) \subseteq Timer
  BY <1>1, ElementOfSeq, LenProperties DEF ToSet
<1>. HIDE DEF due, triggered
<1>6. CASE due = {} /\ UNCHANGED <<timers, timer, thread, runs, failures, owed>>
  <2>1. ThreadServesTimers'
    BY <1>1, <1>6 DEF ThreadServesTimers
  <2>2. TypeOK'
    BY <1>1, <1>4, <1>6 DEF TypeOK
  <2>. QED BY <2>1, <2>2 DEF IInv
<1>7. CASE SpawnTimer(triggered, thread, owed \cup due)
  <2>1. \A t \in ToSet(timers) : triggered[t].executing => thread = "busy" /\ runs = t
    BY <1>1, <1>3, <1>5 DEF ThreadServesTimers
  <2>2. thread \in Threads /\ (thread = "busy" => runs # Nothing)
        /\ owed \cup due \subseteq ToSet(timers)
    BY <1>1, <1>2 DEF TypeOK, Threads
  <2>3. /\ timers' \in Seq(Timer) /\ NoRepeats(timers')
        /\ ToSet(timers') = ToSet(timers)
        /\ timer' \in Table /\ owed' \subseteq ToSet(timers)
        /\ thread' \in Threads /\ runs' \in Timer \cup {Nothing}
        /\ (thread' = "busy") = (runs' # Nothing)
        /\ failures' \in 0..MaxFailures
        /\ ThreadServesTimers'
    BY <1>1, <1>3, <1>7, <2>1, <2>2, SpawnKeeps
  <2>4. TypeOK'
    BY <1>1, <1>4, <2>3 DEF TypeOK, Table, Threads
  <2>. QED BY <2>3, <2>4 DEF IInv
<1>8. CASE /\ thread = "none" /\ failures < MaxFailures
           /\ failures' = failures + 1
           /\ timer' = triggered /\ owed' = owed \cup due
           /\ UNCHANGED <<timers, thread, runs>>
  <2>1. ThreadServesTimers'
    BY <1>1, <1>3, <1>5, <1>8 DEF ThreadServesTimers
  <2>2. failures' \in 0..MaxFailures
    BY <1>1, <1>8 DEF TypeOK, TimerAssumption
  <2>3. TypeOK'
    BY <1>1, <1>2, <1>3, <1>4, <1>8, <2>2 DEF TypeOK, Table
  <2>. QED BY <2>1, <2>3 DEF IInv
<1>. QED BY <1>4, <1>6, <1>7, <1>8

\* The end of a callback.
LEMMA CallbackEndsKeeps ==
    ASSUME TimerAssumption, IInv, CallbackEnds PROVE IInv'
<1>1. /\ timers \in Seq(Timer) /\ NoRepeats(timers) /\ timer \in Table /\ TypeOK
      /\ owed \subseteq ToSet(timers) /\ ThreadServesTimers /\ machineTime \in Nat
      /\ thread = "busy" /\ runs \in Timer /\ timer[runs] \in Node
  BY DEF IInv, TypeOK, TimerAssumption, Table, Node, CallbackEnds
<1>2. ToSet(timers) \subseteq Timer
  BY <1>1, ElementOfSeq, LenProperties DEF ToSet
<1>3. PICK r \in Rescheduled(timer[runs]) :
         SpawnTimer([timer EXCEPT ![runs] = r], "idle",
                    IF r.recurring /\ r.enabled /\ ~r.triggered
                    THEN owed \ {runs} ELSE owed)
  BY DEF CallbackEnds
<1>. DEFINE table == [timer EXCEPT ![runs] = r]
            owing == IF r.recurring /\ r.enabled /\ ~r.triggered
                     THEN owed \ {runs} ELSE owed
<1>4. r \in Node /\ ~r.executing
  BY <1>1, RescheduledIsNode
<1>5. /\ table \in Table /\ table[runs] = r
      /\ \A t \in Timer \ {runs} : table[t] = timer[t]
  BY <1>1, <1>4 DEF Table, Node
<1>6. owing \subseteq ToSet(timers) /\ "idle" \in Threads /\ "idle" # "busy"
  BY <1>1 DEF Threads
<1>7. SpawnTimer(table, "idle", owing)
  BY <1>3
<1>. HIDE DEF table, owing
<1>8. \A t \in ToSet(timers) : ~table[t].executing
  BY <1>1, <1>2, <1>4, <1>5 DEF ThreadServesTimers
<1>9. /\ timers' \in Seq(Timer) /\ NoRepeats(timers')
      /\ ToSet(timers') = ToSet(timers)
      /\ timer' \in Table /\ owed' \subseteq ToSet(timers)
      /\ thread' \in Threads /\ runs' \in Timer \cup {Nothing}
      /\ (thread' = "busy") = (runs' # Nothing)
      /\ failures' \in 0..MaxFailures
      /\ ThreadServesTimers'
  BY <1>1, <1>5, <1>6, <1>7, <1>8, SpawnKeeps
<1>10. UNCHANGED <<clock, machineTime, held>>
  BY DEF CallbackEnds
<1>11. TypeOK'
  BY <1>1, <1>9, <1>10 DEF TypeOK, Table, Threads
<1>. QED BY <1>9, <1>11 DEF IInv

LEMMA IInvNext == ASSUME TimerAssumption, IInv, [Next]_vars PROVE IInv'
<1>1. ASSUME NEW t \in Timer,
             \/ \E request \in Request : \/ Create(t, request[1], request[2])
                                         \/ Change(t, request[1], request[2])
             \/ Dispose(t) \/ Collect(t)
      PROVE  IInv'
  BY <1>1, CallsWorkOnOne, WorkKeeps
<1>2. CASE Tick \/ UNCHANGED vars
  <2>1. TypeOK'
    BY <1>2 DEF IInv, TypeOK, Tick, vars, TimerAssumption
  <2>2. ThreadServesTimers'
    BY <1>2 DEF IInv, ThreadServesTimers, Tick, vars
  <2>. QED BY <2>1, <2>2 DEF IInv
<1>. QED BY <1>1, <1>2, ProcessTimerKeeps, CallbackEndsKeeps DEF Next

LEMMA IInvAlways == ASSUME TimerAssumption PROVE Spec => []IInv
BY IInvInit, IInvNext, PTL DEF Spec

-----------------------------------------------------------------------------
(***************************************************************************)
(* The theorems.                                                           *)
(***************************************************************************)

\* Every variable keeps its type: a node is in the list once, the thread is
\* busy exactly while it has a callback to run, and what a refused change or
\* an overflow makes of a time is still a time.
THEOREM ClrTimersTypeCorrect == ASSUME TimerAssumption PROVE Spec => []TypeOK
<1>1. IInv => TypeOK
  BY DEF IInv
<1>. QED BY <1>1, IInvAlways, PTL

\* The one thread that runs callbacks is never idle while a triggered timer
\* is in the list, and only the timer whose callback it runs counts as
\* executing, whatever is created, changed, disposed, collected or fails.
THEOREM ThreadAlwaysServes ==
    ASSUME TimerAssumption PROVE Spec => []ThreadServesTimers
<1>1. IInv => ThreadServesTimers
  BY DEF IInv
<1>. QED BY <1>1, IInvAlways, PTL
=============================================================================
