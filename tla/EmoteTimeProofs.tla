-------------------------- MODULE EmoteTimeProofs ---------------------------
(***************************************************************************)
(* VirtualTimers, for every set of timers, table and pool size, cushion    *)
(* and clock bound: no running timer is left without an alarm, the alarm   *)
(* never goes off without a timer of the table, and timers are served      *)
(* after their time and in the order of their match times.                 *)
(*                                                                         *)
(* EmoteTime, which is composed over it, for every delay, frequency and    *)
(* width of the words: the alarm stays right although HAL_Time_SetCompare  *)
(* starts, changes and stops the events timer in one call, from the thread *)
(* and from the timer's own callback; the timer runs for no completion     *)
(* that has gone; and one completion that does not enqueue itself again    *)
(* from its callback is never without its timer.                           *)
(***************************************************************************)
EXTENDS EmoteTime, LinkedListLemmas, FiniteSetTheorems

-----------------------------------------------------------------------------
(***************************************************************************)
(* The table of timers and the alarm: theorems about VirtualTimers.        *)
(***************************************************************************)

Table == [Timer -> [delay : Nat, period : Nat, oneShot : BOOLEAN,
                    running : BOOLEAN, reserved : BOOLEAN, match : Nat]]
Row == [delay : Nat, period : Nat, oneShot : BOOLEAN,
        running : BOOLEAN, reserved : BOOLEAN, match : Nat]
IsRunning(table, t) == t \in ToSet(slots) /\ table[t].running

\* The slots of the table hold timers, and every timer in it has a slot.
LEMMA SlotsAreTimers ==
    ASSUME slots \in Seq(Timer)
    PROVE  /\ Len(slots) \in Nat /\ DOMAIN slots = 1..Len(slots)
           /\ \A n \in DOMAIN slots : slots[n] \in Timer /\ slots[n] \in ToSet(slots)
           /\ ToSet(slots) \subseteq Timer
           /\ \A t \in ToSet(slots) : \E n \in DOMAIN slots : slots[n] = t
<1>1. Len(slots) \in Nat /\ DOMAIN slots = 1..Len(slots)
  BY LenProperties
<1>2. \A n \in DOMAIN slots : slots[n] \in Timer
  BY <1>1, ElementOfSeq
<1>. QED BY <1>1, <1>2 DEF ToSet

\* The scan of the table ends with a running timer that is due first.
LEMMA NextSlotIsEarliest ==
    ASSUME slots \in Seq(Timer), NEW table \in Table,
           NEW some \in DOMAIN slots, table[slots[some]].running
    PROVE  /\ NextSlot(table) \in DOMAIN slots
           /\ table[slots[NextSlot(table)]].running
           /\ \A m \in DOMAIN slots : table[slots[m]].running =>
                 table[slots[NextSlot(table)]].match <= table[slots[m]].match
<1>. DEFINE match(n) == table[slots[n]].match
            running == {n \in DOMAIN slots : table[slots[n]].running}
            matches == {match(n) : n \in running}
<1>1. Len(slots) \in Nat /\ DOMAIN slots = 1..Len(slots)
  BY SlotsAreTimers
<1>2. \A n \in DOMAIN slots : match(n) \in Nat
  BY SlotsAreTimers DEF Table
<1>3. PICK least \in matches : \A x \in matches : least <= x
  <2>1. matches \subseteq Nat /\ matches # {}
    BY <1>2
  <2>. HIDE DEF matches
  <2>. QED BY <2>1, LeastNat
<1>. DEFINE fromEnd == {k \in Nat : \E n \in running :
                           match(n) = least /\ k = Len(slots) - n}
<1>4. PICK k \in fromEnd : \A x \in fromEnd : k <= x
  <2>1. PICK n \in running : match(n) = least
    BY <1>3
  <2>2. Len(slots) - n \in fromEnd
    BY <1>1, <2>1
  <2>3. fromEnd \subseteq Nat /\ fromEnd # {}
    BY <2>2
  <2>. HIDE DEF fromEnd
  <2>. QED BY <2>3, LeastNat
<1>5. PICK n \in running : match(n) = least /\ k = Len(slots) - n
  BY <1>4
<1>6. \A m \in running : match(m) >= match(n) /\ (m > n => match(m) # match(n))
  <2>1. SUFFICES ASSUME NEW m \in running
                 PROVE  match(m) >= match(n) /\ (m > n => match(m) # match(n))
    OBVIOUS
  <2>2. match(m) >= match(n)
    BY <1>2, <1>3, <1>5
  <2>3. ASSUME m > n, match(m) = match(n)
        PROVE  FALSE
    <3>1. Len(slots) - m \in fromEnd
      BY <1>1, <1>5, <2>3
    <3>2. k <= Len(slots) - m
      BY <1>4, <3>1
    <3>. QED BY <1>1, <1>5, <2>3, <3>2
  <2>. QED BY <2>2, <2>3
<1>. DEFINE p == NextSlot(table)
<1>7. p \in running /\ \A m \in running : match(m) >= match(p)
  <2>1. p = CHOOSE q \in running :
               \A m \in running : match(m) >= match(q) /\ (m > q => match(m) # match(q))
    BY DEF NextSlot
  <2>. HIDE DEF p, running, match
  <2>. QED BY <1>6, <2>1
<1>. QED BY <1>2, <1>7

\* What SetAlarmForTheNextTimer sets: an alarm to come that no running timer
\* is left out of, for one that is due first; or none where none runs.
LEMMA AlarmIsSet ==
    ASSUME TimerAssumption, slots \in Seq(Timer), now \in Nat,
           NEW table \in Table, NEW before,
           NEW new, new = SetAlarmForTheNextTimer(before, table)
    PROVE  /\ (\E t \in Timer : IsRunning(table, t)) =>
                 /\ new \in [at : Nat \cup {Never}, pending : BOOLEAN,
                             current : Timer \cup {NoTimer}]
                 /\ new.at # Never /\ new.at \in Nat /\ now < new.at
                 /\ IsRunning(table, new.current) /\ ~new.pending
                 /\ \A u \in ToSet(slots) : table[u].running =>
                       /\ table[new.current].match <= table[u].match
                       /\ new.at <= Larger(table[u].match, now + Cushion)
           /\ (\A t \in Timer : ~IsRunning(table, t)) =>
                 new = [before EXCEPT !.current = NoTimer]
<1>1. ASSUME \E t \in Timer : IsRunning(table, t)
      PROVE  /\ new \in [at : Nat \cup {Never}, pending : BOOLEAN,
                         current : Timer \cup {NoTimer}]
             /\ new.at # Never /\ new.at \in Nat /\ now < new.at
             /\ IsRunning(table, new.current) /\ ~new.pending
             /\ \A u \in ToSet(slots) : table[u].running =>
                   /\ table[new.current].match <= table[u].match
                   /\ new.at <= Larger(table[u].match, now + Cushion)
  <2>1. PICK some \in DOMAIN slots : table[slots[some]].running
    BY <1>1, SlotsAreTimers DEF IsRunning
  <2>. DEFINE p == NextSlot(table)
  <2>2. /\ p \in DOMAIN slots /\ table[slots[p]].running
        /\ \A m \in DOMAIN slots : table[slots[m]].running =>
              table[slots[p]].match <= table[slots[m]].match
    BY <2>1, NextSlotIsEarliest
  <2>3. new = CPU_Timer_SetCompare(slots[p], table[slots[p]].match)
    BY <2>1 DEF SetAlarmForTheNextTimer
  <2>. HIDE DEF p
  <2>4. slots[p] \in Timer /\ slots[p] \in ToSet(slots)
    BY <2>2, SlotsAreTimers
  <2>. DEFINE t == slots[p]
  <2>5. table[t].match \in Nat
    BY <2>4 DEF Table
  <2>6. /\ new.at = IF table[t].match < now + Cushion THEN now + Cushion
                    ELSE table[t].match
        /\ new.pending = FALSE /\ new.current = t
        /\ new \in [at : Nat \cup {Never}, pending : BOOLEAN,
                    current : Timer \cup {NoTimer}]
    BY <2>3, <2>4, <2>5 DEF CPU_Timer_SetCompare, TimerAssumption
  <2>7. new.at \in Nat /\ now < new.at /\ new.at # Never
    BY <2>5, <2>6 DEF TimerAssumption
  <2>8. ASSUME NEW u \in ToSet(slots), table[u].running
        PROVE  /\ table[t].match <= table[u].match
               /\ new.at <= Larger(table[u].match, now + Cushion)
    <3>1. PICK m \in DOMAIN slots : slots[m] = u
      BY SlotsAreTimers
    <3>2. table[t].match <= table[u].match
      BY <2>2, <2>8, <3>1
    <3>3. table[u].match \in Nat
      BY SlotsAreTimers DEF Table
    <3>. QED BY <2>5, <2>6, <3>2, <3>3 DEF Larger, TimerAssumption
  <2>. QED BY <2>2, <2>4, <2>6, <2>7, <2>8 DEF IsRunning
<1>2. ASSUME \A t \in Timer : ~IsRunning(table, t)
      PROVE  new = [before EXCEPT !.current = NoTimer]
  <2>1. \A n \in DOMAIN slots : ~table[slots[n]].running
    BY <1>2, SlotsAreTimers DEF IsRunning
  <2>. QED BY <2>1 DEF SetAlarmForTheNextTimer
<1>. QED BY <1>1, <1>2

-----------------------------------------------------------------------------
(***************************************************************************)
(* The invariant.                                                          *)
(***************************************************************************)

\* During a callback, and after a refused one, the alarm is off; a StartTimer
\* that is between its two halves has a timer of the table.
Quiet ==
    /\ cbRunning => alarm.at = Never /\ ~alarm.pending
    /\ isr # NoTimer => cbRunning
    /\ starting["isr"] # NoTimer => isr # NoTimer
    /\ \A x \in Context : starting[x] # NoTimer => starting[x] \in ToSet(slots)

\* If the timer the alarm was set for still runs, no other is due before it.
AlarmIsForEarliest ==
    ~cbRunning /\ alarm.current # NoTimer /\ timers[alarm.current].running =>
        \A u \in ToSet(slots) :
            timers[u].running => timers[alarm.current].match <= timers[u].match

Alarmed == AlarmCoversTimers /\ AlarmHasTimer /\ AlarmIsForEarliest
IInv == TypeOK /\ Quiet /\ Alarmed

\* Nothing has been set up, and nobody calls.
LEMMA IInvInit == ASSUME TimerAssumption, Init PROVE IInv
<1>1. slots \in Seq(Timer) /\ Len(slots) = 0 /\ DOMAIN slots = {} /\ ToSet(slots) = {}
  BY EmptySeq DEF Init, ToSet
<1>2. queue \in Seq(Timer \ IsrTimer)
  BY EmptySeq DEF Init
<1>3. /\ now \in 0..MaxTicks
      /\ timers \in Table
      /\ alarm \in [at : Nat \cup {Never}, pending : BOOLEAN, current : Timer \cup {NoTimer}]
      /\ starting \in [Context -> Timer \cup {NoTimer}]
  BY DEF Init, TimerAssumption, Table, Unset, AlarmOff
<1>4. TypeOK
  <2>1. /\ Len(slots) <= MaxSlots
        /\ \A n, m \in DOMAIN slots : slots[n] = slots[m] => n = m
    BY <1>1 DEF TimerAssumption
  <2>2. /\ cbRunning \in BOOLEAN /\ isr \in IsrTimer \cup {NoTimer}
        /\ executing \in (Timer \ IsrTimer) \cup {NoTimer}
    BY DEF Init
  <2>. QED BY <1>1, <1>2, <1>3, <2>1, <2>2 DEF TypeOK, Table
<1>5. Quiet
  BY DEF Init, Quiet, AlarmOff, Context
<1>6. Alarmed
  BY <1>1 DEF Init, Alarmed, AlarmCoversTimers, AlarmHasTimer, AlarmIsForEarliest, AlarmOff
<1>. QED BY <1>4, <1>5, <1>6 DEF IInv

\* A step that leaves the alarm alone keeps it right, if it starts no timer
\* and moves no running one.
LEMMA AlarmKept ==
    ASSUME IInv, alarm' = alarm, now' = now, cbRunning' = cbRunning,
           ToSet(slots) \subseteq ToSet(slots'),
           \A u \in Timer : timers'[u].running =>
               timers[u].running /\ timers'[u].match = timers[u].match,
           \A u \in ToSet(slots') : timers'[u].running => u \in ToSet(slots)
    PROVE  Alarmed'
<1>1. ToSet(slots) \subseteq Timer
  BY SlotsAreTimers DEF IInv, TypeOK
<1>2. \A u \in ToSet(slots') : timers'[u].running =>
         /\ u \in ToSet(slots) /\ timers[u].running
         /\ timers'[u].match = timers[u].match
  BY <1>1
<1>3. AlarmCoversTimers'
  BY <1>2 DEF IInv, Alarmed, AlarmCoversTimers, Larger
<1>4. AlarmHasTimer'
  BY DEF IInv, Alarmed, AlarmHasTimer
<1>5. AlarmIsForEarliest'
  <2>1. alarm.current # NoTimer => alarm.current \in Timer
    BY DEF IInv, TypeOK
  <2>. QED BY <1>2, <2>1 DEF IInv, Alarmed, AlarmIsForEarliest
<1>. QED BY <1>3, <1>4, <1>5 DEF Alarmed

\* The alarm of a table in which some timer runs is right for that table, and
\* stays so if timers are stopped after it was set.
LEMMA AlarmSetThenStopped ==
    ASSUME TimerAssumption, IInv, slots' = slots, now' = now,
           NEW table \in Table, NEW before, \E t \in Timer : IsRunning(table, t),
           alarm' = SetAlarmForTheNextTimer(before, table),
           \A u \in Timer : timers'[u].running =>
               table[u].running /\ timers'[u].match = table[u].match
    PROVE  /\ Alarmed'
           /\ alarm' \in [at : Nat \cup {Never}, pending : BOOLEAN,
                          current : Timer \cup {NoTimer}]
<1>1. slots \in Seq(Timer) /\ now \in Nat /\ ToSet(slots) \subseteq Timer
  BY SlotsAreTimers DEF IInv, TypeOK, TimerAssumption
<1>. DEFINE new == alarm'
<1>2. /\ new \in [at : Nat \cup {Never}, pending : BOOLEAN,
                  current : Timer \cup {NoTimer}]
      /\ new.at # Never /\ new.at \in Nat /\ now < new.at
      /\ IsRunning(table, new.current) /\ ~new.pending
      /\ \A u \in ToSet(slots) : table[u].running =>
            /\ table[new.current].match <= table[u].match
            /\ new.at <= Larger(table[u].match, now + Cushion)
  <2>. HIDE DEF new
  <2>1. new = SetAlarmForTheNextTimer(before, table)
    BY DEF new
  <2>. QED BY <1>1, <2>1, AlarmIsSet
<1>3. \A u \in ToSet(slots) : timers'[u].running =>
         table[u].running /\ timers'[u].match = table[u].match
  BY <1>1
<1>4. AlarmCoversTimers'
  BY <1>2, <1>3 DEF AlarmCoversTimers, Larger
<1>5. AlarmHasTimer'
  BY <1>2 DEF AlarmHasTimer, IsRunning
<1>6. AlarmIsForEarliest'
  BY <1>2, <1>3 DEF AlarmIsForEarliest, IsRunning
<1>. QED BY <1>2, <1>4, <1>5, <1>6 DEF Alarmed

\* A step that ends with a look for the next timer leaves the alarm right, if
\* it was off or some timer runs.
LEMMA AlarmRescanned ==
    ASSUME TimerAssumption, IInv, slots' = slots, now' = now, timers' \in Table,
           NEW before, before \in [at : Nat \cup {Never}, pending : BOOLEAN,
                                   current : Timer \cup {NoTimer}],
           alarm' = SetAlarmForTheNextTimer(before, timers'),
           before.at = Never \/ \E t \in Timer : IsRunning(timers', t)
    PROVE  /\ Alarmed'
           /\ alarm' \in [at : Nat \cup {Never}, pending : BOOLEAN,
                          current : Timer \cup {NoTimer}]
<1>1. slots \in Seq(Timer) /\ now \in Nat /\ ToSet(slots) \subseteq Timer
  BY SlotsAreTimers DEF IInv, TypeOK, TimerAssumption
<1>2. CASE \E t \in Timer : IsRunning(timers', t)
  BY <1>2, AlarmSetThenStopped
<1>3. CASE \A t \in Timer : ~IsRunning(timers', t)
  <2>1. alarm' = [before EXCEPT !.current = NoTimer]
    <3>. DEFINE table == timers'
                new == alarm'
    <3>1. table \in Table /\ new = SetAlarmForTheNextTimer(before, table)
      OBVIOUS
    <3>2. \A t \in Timer : ~IsRunning(table, t)
      BY <1>3
    <3>3. new = [before EXCEPT !.current = NoTimer]
      <4>. HIDE DEF table, new
      <4>. QED BY <1>1, <3>1, <3>2, AlarmIsSet
    <3>. QED BY <3>3
  <2>2. /\ alarm'.at = before.at /\ alarm'.current = NoTimer
        /\ alarm' \in [at : Nat \cup {Never}, pending : BOOLEAN,
                       current : Timer \cup {NoTimer}]
    BY <2>1
  <2>3. \A u \in ToSet(slots) : ~timers'[u].running
    BY <1>1, <1>3 DEF IsRunning
  <2>4. before.at = Never
    BY <1>3
  <2>. QED BY <2>2, <2>3, <2>4
       DEF Alarmed, AlarmCoversTimers, AlarmHasTimer, AlarmIsForEarliest
<1>. QED BY <1>2, <1>3

\* Changed and Stopped touch one timer of the table, field by field.
LEMMA ChangedIs ==
    ASSUME NEW table \in Table, NEW t \in Timer, NEW s,
           s.delay \in Nat, s.period \in Nat, s.oneShot \in BOOLEAN
    PROVE  /\ Changed(table, t, s) \in Table
           /\ \A u \in Timer \ {t} : Changed(table, t, s)[u] = table[u]
           /\ Changed(table, t, s)[t].delay = s.delay
           /\ Changed(table, t, s)[t].period = s.period
           /\ Changed(table, t, s)[t].oneShot = s.oneShot
           /\ Changed(table, t, s)[t].running = table[t].running
           /\ Changed(table, t, s)[t].match = table[t].match
<1>. DEFINE row == [table[t] EXCEPT !.delay = s.delay, !.period = s.period,
                                    !.oneShot = s.oneShot]
<1>1. table \in [Timer -> Row] /\ table[t] \in Row
  BY DEF Table, Row
<1>2. Changed(table, t, s) = [table EXCEPT ![t] = row]
  BY <1>1 DEF Changed
<1>3. /\ row \in Row /\ row.delay = s.delay /\ row.period = s.period
      /\ row.oneShot = s.oneShot /\ row.running = table[t].running
      /\ row.match = table[t].match
  BY <1>1 DEF Row
<1>. HIDE DEF row
<1>4. /\ Changed(table, t, s) \in [Timer -> Row]
      /\ \A u \in Timer : Changed(table, t, s)[u] = IF u = t THEN row ELSE table[u]
  BY <1>1, <1>2, <1>3
<1>. QED BY <1>3, <1>4 DEF Table, Row

LEMMA StoppedIs ==
    ASSUME NEW table \in Table, NEW t \in Timer
    PROVE  /\ Stopped(table, t) \in Table
           /\ \A u \in Timer \ {t} : Stopped(table, t)[u] = table[u]
           /\ ~Stopped(table, t)[t].running
<1>. DEFINE row == [table[t] EXCEPT !.running = FALSE, !.reserved = FALSE]
<1>1. table \in [Timer -> Row] /\ table[t] \in Row
  BY DEF Table, Row
<1>2. Stopped(table, t) = [table EXCEPT ![t] = row]
  BY <1>1 DEF Stopped
<1>3. row \in Row /\ ~row.running
  BY <1>1 DEF Row
<1>. HIDE DEF row
<1>4. /\ Stopped(table, t) \in [Timer -> Row]
      /\ \A u \in Timer : Stopped(table, t)[u] = IF u = t THEN row ELSE table[u]
  BY <1>1, <1>2, <1>3
<1>. QED BY <1>3, <1>4 DEF Table, Row

\* The fields of the table that a call or a callback changes keep their types.
LEMMA TablesStayTables ==
    ASSUME NEW table \in Table, NEW t \in Timer, now \in Nat
    PROVE  /\ Matching(table, t) \in Table
           /\ Running(table, t) \in Table
           /\ Stopped(table, t) \in Table
           /\ AfterService(table, t) \in Table
           /\ \A s \in Shape : TimerAssumption => Changed(table, t, s) \in Table
<1>1. /\ table[t].delay \in Nat /\ table[t].period \in Nat
      /\ now + table[t].period + table[t].delay \in Nat
      /\ now + table[t].period \in Nat
  BY DEF Table
<1>2. Matching(table, t) \in Table
  BY <1>1 DEF Matching, Table
<1>3. Running(table, t) \in Table
  BY DEF Running, Table
<1>4. Stopped(table, t) \in Table
  BY StoppedIs
<1>5. AfterService(table, t) \in Table
  BY <1>1 DEF AfterService, Table
<1>6. ASSUME NEW s \in Shape, TimerAssumption
      PROVE  Changed(table, t, s) \in Table
  <2>1. s.delay \in Nat /\ s.period \in Nat /\ s.oneShot \in BOOLEAN
    BY <1>6 DEF TimerAssumption
  <2>. QED BY <2>1, ChangedIs
<1>. QED BY <1>2, <1>3, <1>4, <1>5, <1>6

\* The clock: every time on record comes nearer by one, or none does.
LEMMA TickKeeps == ASSUME TimerAssumption, IInv, Tick PROVE IInv'
<1>1. /\ now \in Nat /\ MaxTicks \in Nat /\ now <= MaxTicks /\ timers \in Table
      /\ ToSet(slots) \subseteq Timer
  BY SlotsAreTimers DEF IInv, TypeOK, TimerAssumption, Table
<1>2. \A t \in Timer : /\ timers'[t].running = timers[t].running
                       /\ timers[t].match \in Nat
                       /\ timers'[t].match = IF now < MaxTicks THEN timers[t].match
                                             ELSE Earlier(timers[t].match)
  BY <1>1 DEF Tick, Table
<1>3. timers' \in Table
  <2>1. CASE now < MaxTicks
    BY <1>1, <2>1 DEF Tick
  <2>2. CASE ~(now < MaxTicks)
    <3>1. \A t \in Timer : Earlier(timers[t].match) \in Nat
      BY <1>2 DEF Earlier
    <3>. QED BY <1>1, <2>2, <3>1 DEF Tick, Table
  <2>. QED BY <2>1, <2>2
<1>4. /\ alarm'.current = alarm.current
      /\ alarm.at \in Nat \cup {Never} /\ (alarm'.at = Never <=> alarm.at = Never)
      /\ alarm' \in [at : Nat \cup {Never}, pending : BOOLEAN, current : Timer \cup {NoTimer}]
      /\ alarm.at # Never =>
            /\ alarm'.at = IF now < MaxTicks THEN alarm.at ELSE Earlier(alarm.at)
            /\ alarm'.pending = (alarm.pending \/ now + 1 = alarm.at)
      /\ alarm.at = Never => alarm'.pending = alarm.pending
  <2>1. /\ alarm \in [at : Nat \cup {Never}, pending : BOOLEAN, current : Timer \cup {NoTimer}]
        /\ Never \notin Nat
    BY DEF IInv, TypeOK, TimerAssumption
  <2>2. \A n \in Nat : Earlier(n) \in Nat
    BY DEF Earlier
  <2>3. now + 1 \in Nat
    BY <1>1
  <2>4. CASE now < MaxTicks
    <3>1. alarm' = [alarm EXCEPT !.pending = @ \/ now + 1 = alarm.at]
      BY <2>4 DEF Tick
    <3>2. alarm'.pending = (alarm.pending \/ now + 1 = alarm.at)
      BY <2>1, <3>1
    <3>3. alarm.at = Never => alarm'.pending = alarm.pending
      BY <2>1, <2>3, <3>2
    <3>. QED BY <2>1, <2>4, <3>1, <3>2, <3>3
  <2>5. CASE ~(now < MaxTicks)
    <3>1. CASE alarm.at = Never
      BY <2>1, <2>5, <3>1 DEF Tick
    <3>2. CASE alarm.at # Never
      <4>1. alarm' = [alarm EXCEPT !.at = Earlier(@),
                                   !.pending = @ \/ now + 1 = alarm.at]
        BY <2>5, <3>2 DEF Tick
      <4>2. alarm.at \in Nat /\ Earlier(alarm.at) \in Nat
        BY <2>1, <2>2, <3>2
      <4>. QED BY <2>1, <2>5, <3>2, <4>1, <4>2
    <3>. QED BY <3>1, <3>2
  <2>. QED BY <2>4, <2>5
<1>5. now' \in 0..MaxTicks /\ now' = IF now < MaxTicks THEN now + 1 ELSE now
  BY <1>1 DEF Tick
<1>6. TypeOK'
  BY <1>3, <1>4, <1>5 DEF IInv, TypeOK, Tick, Table
<1>7. Quiet'
  BY <1>4 DEF IInv, Quiet, Tick
<1>8. AlarmCoversTimers'
  <2>1. SUFFICES ASSUME ~cbRunning, NEW t \in ToSet(slots), timers[t].running,
                        ~alarm'.pending
                 PROVE  /\ alarm'.at # Never /\ now' < alarm'.at
                        /\ alarm'.at <= Larger(timers'[t].match, now' + Cushion)
    BY <1>1, <1>2 DEF AlarmCoversTimers, Tick
  <2>2. alarm.at # Never /\ ~alarm.pending
        /\ now < alarm.at /\ alarm.at <= Larger(timers[t].match, now + Cushion)
    BY <1>4, <2>1 DEF IInv, Alarmed, AlarmCoversTimers
  <2>3. alarm.at \in Nat /\ timers[t].match \in Nat /\ Cushion \in Nat
    <3>1. t \in Timer /\ timers[t].match \in Nat
      BY <1>1, <1>2
    <3>2. alarm.at \in Nat
      <4>1. alarm.at \in Nat \cup {Never}
        BY <1>4
      <4>. QED BY <2>2, <4>1
    <3>. QED BY <3>1, <3>2 DEF TimerAssumption
  <2>4. now + 1 # alarm.at
    <3>1. alarm'.pending = (alarm.pending \/ now + 1 = alarm.at)
      BY <1>4, <2>2
    <3>. QED BY <2>1, <3>1, Zenon
  <2>. QED BY <1>1, <1>2, <1>4, <1>5, <2>2, <2>3, <2>4 DEF Larger, Earlier
<1>9. AlarmHasTimer'
  BY <1>4 DEF IInv, Alarmed, AlarmHasTimer, Tick
<1>10. AlarmIsForEarliest'
  <2>1. SUFFICES ASSUME ~cbRunning, alarm.current # NoTimer,
                        timers[alarm.current].running,
                        NEW u \in ToSet(slots), timers[u].running
                 PROVE  timers'[alarm.current].match <= timers'[u].match
    <3>1. alarm.current \in Timer \cup {NoTimer}
      BY DEF IInv, TypeOK
    <3>. QED BY <1>1, <1>2, <1>4, <3>1 DEF AlarmIsForEarliest, Tick
  <2>2. timers[alarm.current].match <= timers[u].match
    BY <2>1 DEF IInv, Alarmed, AlarmIsForEarliest
  <2>3. alarm.current \in Timer /\ u \in Timer
    BY <1>1, <2>1 DEF IInv, TypeOK
  <2>. QED BY <1>2, <2>2, <2>3 DEF Earlier
<1>. QED BY <1>6, <1>7, <1>8, <1>9, <1>10 DEF IInv, Alarmed

\* The calls that leave the alarm to others: a timer that is set, changed,
\* stopped or about to be started.
LEMMA CallKeeps ==
    ASSUME TimerAssumption, IInv, NEW x \in Context, NEW t \in Timer,
           \/ \E s \in Shape, r \in BOOLEAN : SetTimer(x, t, s, r)
           \/ \E s \in Shape : ChangeTimer(x, t, s)
           \/ StartTimer(x, t) \/ StopTimer(x, t)
    PROVE  IInv'
<1>1. /\ now \in Nat /\ timers \in Table /\ slots \in Seq(Timer)
      /\ ToSet(slots) \subseteq Timer
  BY SlotsAreTimers DEF IInv, TypeOK, TimerAssumption, Table
<1>2. ASSUME NEW s \in Shape, NEW r \in BOOLEAN, SetTimer(x, t, s, r)
      PROVE  IInv'
  <2>1. /\ s.delay \in Nat /\ s.period \in Nat /\ s.oneShot \in BOOLEAN
        /\ now + s.period + s.delay \in Nat
    BY <1>1 DEF TimerAssumption
  <2>2. /\ timers' \in Table /\ ~timers'[t].running
        /\ \A u \in Timer \ {t} : timers'[u] = timers[u]
    BY <1>1, <1>2, <2>1 DEF SetTimer, Table
  <2>3. /\ slots' \in Seq(Timer) /\ Len(slots') <= MaxSlots
        /\ \A n, m \in DOMAIN slots' : slots'[n] = slots'[m] => n = m
        /\ ToSet(slots') = ToSet(slots) \cup {t}
    <3>1. CASE IsSet(t)
      <4>1. slots' = slots /\ t \in ToSet(slots)
        BY <1>2, <3>1 DEF SetTimer, IsSet
      <4>2. /\ Len(slots) <= MaxSlots
            /\ \A n, m \in DOMAIN slots : slots[n] = slots[m] => n = m
        BY DEF IInv, TypeOK
      <4>. QED BY <1>1, <4>1, <4>2
    <3>2. CASE ~IsSet(t)
      <4>1. slots' = Append(slots, t) /\ Len(slots) < MaxSlots
        BY <1>2, <3>2 DEF SetTimer
      <4>2. Len(slots) \in Nat /\ DOMAIN slots = 1..Len(slots) /\ MaxSlots \in Nat
        BY <1>1, SlotsAreTimers DEF TimerAssumption
      <4>3. /\ slots' \in Seq(Timer) /\ Len(slots') = Len(slots) + 1
            /\ \A i \in 1..Len(slots) : slots'[i] = slots[i]
            /\ slots'[Len(slots) + 1] = t
        BY <1>1, <4>1, AppendProperties
      <4>4. DOMAIN slots' = 1..(Len(slots) + 1)
        BY <4>3, LenProperties
      <4>5. \A i \in DOMAIN slots : slots[i] # t
        BY <3>2 DEF IsSet, ToSet
      <4>6. ToSet(slots') = ToSet(slots) \cup {t}
        BY <4>2, <4>3, <4>4 DEF ToSet
      <4>7. \A n, m \in DOMAIN slots' : slots'[n] = slots'[m] => n = m
        <5>1. \A n, m \in DOMAIN slots : slots[n] = slots[m] => n = m
          BY DEF IInv, TypeOK
        <5>. QED BY <4>2, <4>3, <4>4, <4>5, <5>1
      <4>. QED BY <4>1, <4>2, <4>3, <4>6, <4>7
    <3>. QED BY <3>1, <3>2
  <2>4. TypeOK'
    BY <1>2, <2>2, <2>3 DEF IInv, TypeOK, SetTimer, Table
  <2>5. Quiet'
    BY <1>2, <2>3 DEF IInv, Quiet, SetTimer
  <2>6. Alarmed'
    BY <1>1, <1>2, <2>2, <2>3, AlarmKept DEF SetTimer
  <2>. QED BY <2>4, <2>5, <2>6 DEF IInv
<1>3. ASSUME NEW s \in Shape, ChangeTimer(x, t, s)
      PROVE  IInv'
  <2>1. timers' \in Table
    BY <1>1, <1>3, TablesStayTables DEF ChangeTimer
  <2>2. \A u \in Timer : timers'[u].running = timers[u].running
                       /\ timers'[u].match = timers[u].match
    <3>1. s.delay \in Nat /\ s.period \in Nat /\ s.oneShot \in BOOLEAN
      BY DEF TimerAssumption
    <3>2. timers' = Changed(timers, t, s)
      BY <1>3 DEF ChangeTimer
    <3>. DEFINE new == Changed(timers, t, s)
    <3>3. \A u \in Timer \ {t} : new[u] = timers[u]
      BY <1>1, <3>1, ChangedIs
    <3>4. new[t].running = timers[t].running /\ new[t].match = timers[t].match
      BY <1>1, <3>1, ChangedIs
    <3>. HIDE DEF new
    <3>5. timers' = new
      BY <3>2 DEF new
    <3>6. ASSUME NEW u \in Timer
          PROVE  /\ timers'[u].running = timers[u].running
                 /\ timers'[u].match = timers[u].match
      <4>1. CASE u = t
        BY <3>4, <3>5, <4>1
      <4>2. CASE u # t
        BY <3>3, <3>5, <4>2
      <4>. QED BY <4>1, <4>2
    <3>. QED BY <3>6
  <2>3. TypeOK' /\ Quiet'
    BY <1>3, <2>1 DEF IInv, TypeOK, Quiet, ChangeTimer, Table
  <2>4. Alarmed'
    BY <1>1, <1>3, <2>2, AlarmKept DEF ChangeTimer
  <2>. QED BY <2>3, <2>4 DEF IInv
<1>4. CASE StartTimer(x, t)
  <2>1. timers' \in Table
    BY <1>1, <1>4, TablesStayTables DEF StartTimer
  <2>2. /\ \A u \in Timer : timers'[u].running = timers[u].running
        /\ \A u \in Timer : timers'[u].running => timers'[u].match = timers[u].match
    BY <1>1, <1>4 DEF StartTimer, Matching, Table
  <2>3. TypeOK'
    BY <1>4, <2>1 DEF IInv, TypeOK, StartTimer, Table
  <2>4. Quiet'
    <3>1. \A y \in Context : starting'[y] = IF y = x THEN t ELSE starting[y]
      BY <1>4 DEF StartTimer, IInv, TypeOK
    <3>2. x = "isr" => isr # NoTimer
      BY <1>4 DEF StartTimer, MayCall
    <3>3. "isr" \in Context
      BY DEF Context
    <3>. QED BY <1>4, <3>1, <3>2, <3>3 DEF IInv, Quiet, StartTimer, IsSet
  <2>5. Alarmed'
    BY <1>1, <1>4, <2>2, AlarmKept DEF StartTimer
  <2>. QED BY <2>3, <2>4, <2>5 DEF IInv
<1>5. CASE StopTimer(x, t)
  <2>1. timers' \in Table
    BY <1>1, <1>5, TablesStayTables DEF StopTimer
  <2>2. \A u \in Timer : timers'[u].running =>
           timers[u].running /\ timers'[u].match = timers[u].match
    BY <1>1, <1>5 DEF StopTimer, Stopped, Table
  <2>3. TypeOK' /\ Quiet'
    BY <1>5, <2>1 DEF IInv, TypeOK, Quiet, StopTimer, Table
  <2>4. Alarmed'
    BY <1>1, <1>5, <2>2, AlarmKept DEF StopTimer
  <2>. QED BY <2>3, <2>4 DEF IInv
<1>. QED BY <1>2, <1>3, <1>4, <1>5

\* The second half of StartTimer: outside a callback it looks for the next
\* timer, and there is one, the timer it has just marked.
LEMMA StartTimerLockedKeeps ==
    ASSUME TimerAssumption, IInv, NEW x \in Context, StartTimerLocked(x)
    PROVE  IInv'
<1>. DEFINE t == starting[x]
<1>1. /\ now \in Nat /\ timers \in Table /\ slots \in Seq(Timer)
      /\ t \in Timer /\ t \in ToSet(slots)
  BY DEF IInv, TypeOK, TimerAssumption, Table, Quiet, StartTimerLocked
<1>2. timers' \in Table /\ timers'[t].running
  <2>1. timers' = Running(timers, t)
    BY DEF StartTimerLocked
  <2>2. Running(timers, t)[t].running
    BY <1>1 DEF Running, Table
  <2>. QED BY <1>1, <2>1, <2>2, TablesStayTables
<1>3. /\ Alarmed'
      /\ alarm' \in [at : Nat \cup {Never}, pending : BOOLEAN, current : Timer \cup {NoTimer}]
      /\ cbRunning => alarm' = alarm
  <2>1. alarm \in [at : Nat \cup {Never}, pending : BOOLEAN, current : Timer \cup {NoTimer}]
    BY DEF IInv, TypeOK
  <2>2. CASE cbRunning
    BY <2>1, <2>2 DEF StartTimerLocked, IInv, Alarmed, AlarmCoversTimers, AlarmHasTimer,
                      AlarmIsForEarliest
  <2>3. CASE ~cbRunning
    <3>1. alarm' = SetAlarmForTheNextTimer(alarm, timers')
      BY <2>3 DEF StartTimerLocked
    <3>2. IsRunning(timers', t)
      BY <1>1, <1>2 DEF IsRunning
    <3>3. slots' = slots /\ now' = now
      BY DEF StartTimerLocked
    <3>. QED BY <1>1, <1>2, <2>1, <2>3, <3>1, <3>2, <3>3, AlarmRescanned
  <2>. QED BY <2>2, <2>3
<1>4. TypeOK'
  <2>1. starting' \in [Context -> Timer \cup {NoTimer}]
    BY DEF StartTimerLocked, IInv, TypeOK
  <2>. QED BY <1>2, <1>3, <2>1 DEF StartTimerLocked, IInv, TypeOK, Table
<1>5. Quiet'
  <2>1. \A y \in Context : starting'[y] = IF y = x THEN NoTimer ELSE starting[y]
    BY DEF StartTimerLocked, IInv, TypeOK
  <2>2. "isr" \in Context
    BY DEF Context
  <2>. QED BY <1>3, <2>1, <2>2 DEF StartTimerLocked, IInv, Quiet
<1>. QED BY <1>3, <1>4, <1>5 DEF IInv

\* The interrupt comes with the alarm off, and is over with a look for the
\* next timer, unless it waits for a callback or has been refused.
LEMMA CallbackKeeps == ASSUME TimerAssumption, IInv, VirtualTimerCallback PROVE IInv'
<1>1. /\ now \in Nat /\ timers \in Table /\ slots \in Seq(Timer)
      /\ AlarmOff \in [at : Nat \cup {Never}, pending : BOOLEAN, current : Timer \cup {NoTimer}]
      /\ AlarmOff.at = Never
      /\ alarm \in [at : Nat \cup {Never}, pending : BOOLEAN, current : Timer \cup {NoTimer}]
  BY DEF IInv, TypeOK, TimerAssumption, Table, AlarmOff
<1>2. CASE CallbackRefused \/ CallbackInInterrupt
  <2>1. /\ alarm' = [AlarmOff EXCEPT !.current = alarm.current] /\ cbRunning' = TRUE
        /\ UNCHANGED <<now, slots, timers, starting, queue, executing>>
        /\ isr' = isr \/ isr' \in IsrTimer
    <3>1. CASE CallbackRefused
      BY <3>1 DEF CallbackRefused
    <3>2. CASE CallbackInInterrupt
      BY <3>2 DEF CallbackInInterrupt
    <3>. QED BY <1>2, <3>1, <3>2
  <2>2. /\ alarm'.at = Never /\ alarm'.pending = FALSE
        /\ alarm' \in [at : Nat \cup {Never}, pending : BOOLEAN, current : Timer \cup {NoTimer}]
    BY <1>1, <2>1 DEF AlarmOff
  <2>3. TypeOK'
    BY <2>1, <2>2 DEF IInv, TypeOK
  <2>4. isr' = isr \/ isr' # NoTimer
    BY <2>1 DEF TimerAssumption
  <2>5. Quiet'
    BY <2>1, <2>2, <2>4 DEF IInv, Quiet
  <2>6. Alarmed'
    BY <2>1, <2>2 DEF Alarmed, AlarmCoversTimers, AlarmHasTimer, AlarmIsForEarliest
  <2>. QED BY <2>3, <2>5, <2>6 DEF IInv
<1>3. CASE CallbackToQueue
  <2>1. alarm.current \in Timer \ IsrTimer
    BY <1>1, <1>3 DEF CallbackToQueue, Due
  <2>2. timers' \in Table
    BY <1>1, <1>3, <2>1, TablesStayTables DEF CallbackToQueue
  <2>3. /\ Alarmed'
        /\ alarm' \in [at : Nat \cup {Never}, pending : BOOLEAN, current : Timer \cup {NoTimer}]
    BY <1>1, <1>3, <2>2, AlarmRescanned DEF CallbackToQueue
  <2>4. queue' \in Seq(Timer \ IsrTimer)
    <3>1. queue \in Seq(Timer \ IsrTimer)
      BY DEF IInv, TypeOK
    <3>2. Append(queue, alarm.current) \in Seq(Timer \ IsrTimer)
      BY <2>1, <3>1, AppendProperties
    <3>. QED BY <1>3, <3>1, <3>2 DEF CallbackToQueue
  <2>5. TypeOK'
    BY <1>3, <2>2, <2>3, <2>4 DEF CallbackToQueue, IInv, TypeOK, Table
  <2>6. Quiet'
    BY <1>3 DEF CallbackToQueue, IInv, Quiet, Interrupts
  <2>. QED BY <2>3, <2>5, <2>6 DEF IInv
<1>4. CASE NothingDue
  <2>1. /\ Alarmed'
        /\ alarm' \in [at : Nat \cup {Never}, pending : BOOLEAN, current : Timer \cup {NoTimer}]
    <3>1. timers' \in Table /\ alarm' = SetAlarmForTheNextTimer(AlarmOff, timers')
          /\ slots' = slots /\ now' = now
      BY <1>1, <1>4 DEF NothingDue
    <3>. QED BY <1>1, <3>1, AlarmRescanned
  <2>2. TypeOK'
    BY <1>4, <2>1 DEF NothingDue, IInv, TypeOK
  <2>3. Quiet'
    BY <1>4 DEF NothingDue, IInv, Quiet, Interrupts
  <2>. QED BY <2>1, <2>2, <2>3 DEF IInv
<1>5. CASE CallbackReturn
  <2>1. isr \in Timer /\ alarm.at = Never
    BY <1>5 DEF CallbackReturn, IInv, TypeOK, Quiet, TimerAssumption
  <2>2. timers' \in Table
    BY <1>1, <1>5, <2>1, TablesStayTables DEF CallbackReturn
  <2>3. /\ Alarmed'
        /\ alarm' \in [at : Nat \cup {Never}, pending : BOOLEAN, current : Timer \cup {NoTimer}]
    BY <1>1, <1>5, <2>1, <2>2, AlarmRescanned DEF CallbackReturn
  <2>4. TypeOK'
    BY <1>5, <2>2, <2>3 DEF CallbackReturn, IInv, TypeOK, Table
  <2>5. Quiet'
    BY <1>5 DEF CallbackReturn, IInv, Quiet
  <2>. QED BY <2>3, <2>4, <2>5 DEF IInv
<1>. QED BY <1>2, <1>3, <1>4, <1>5 DEF VirtualTimerCallback

\* The thread's continuations, and steps that change nothing.
LEMMA ContinuationKeeps ==
    ASSUME TimerAssumption, IInv,
           HAL_CONTINUATION_ExtendedExecute \/ SetUnUsed \/ UNCHANGED vars
    PROVE  IInv'
<1>1. /\ queue' \in Seq(Timer \ IsrTimer)
      /\ executing' \in (Timer \ IsrTimer) \cup {NoTimer}
  <2>1. queue \in Seq(Timer \ IsrTimer) /\ executing \in (Timer \ IsrTimer) \cup {NoTimer}
    BY DEF IInv, TypeOK
  <2>2. CASE HAL_CONTINUATION_ExtendedExecute
    <3>1. Head(queue) \in Timer \ IsrTimer /\ Tail(queue) \in Seq(Timer \ IsrTimer)
      BY <2>1, <2>2, HeadTailProperties DEF HAL_CONTINUATION_ExtendedExecute
    <3>. QED BY <2>2, <3>1 DEF HAL_CONTINUATION_ExtendedExecute
  <2>. QED BY <2>1, <2>2 DEF SetUnUsed, vars
<1>2. UNCHANGED <<now, slots, timers, alarm, cbRunning, isr, starting>>
  BY DEF HAL_CONTINUATION_ExtendedExecute, SetUnUsed, vars
<1>3. TypeOK'
  BY <1>1, <1>2 DEF IInv, TypeOK
<1>4. Quiet'
  BY <1>2 DEF IInv, Quiet
<1>5. Alarmed'
  BY <1>2 DEF IInv, Alarmed, AlarmCoversTimers, AlarmHasTimer, AlarmIsForEarliest
<1>. QED BY <1>3, <1>4, <1>5 DEF IInv

LEMMA IInvNext == ASSUME TimerAssumption, IInv, [Next]_vars PROVE IInv'
<1>1. CASE Tick
  BY <1>1, TickKeeps
<1>2. ASSUME NEW x \in Context, Calls(x)
      PROVE  IInv'
  BY <1>2, CallKeeps, StartTimerLockedKeeps DEF Calls
<1>3. CASE VirtualTimerCallback
  BY <1>3, CallbackKeeps
<1>4. CASE HAL_CONTINUATION_ExtendedExecute \/ SetUnUsed \/ UNCHANGED vars
  BY <1>4, ContinuationKeeps
<1>. QED BY <1>1, <1>2, <1>3, <1>4 DEF Next

LEMMA IInvAlways == ASSUME TimerAssumption PROVE Spec => []IInv
BY IInvInit, IInvNext, PTL DEF Spec

-----------------------------------------------------------------------------
(***************************************************************************)
(* The theorems.                                                           *)
(***************************************************************************)

\* Every variable keeps its type: no timer has two slots of the table and
\* the table does not outgrow the mapper.
THEOREM TimersTypeCorrect == ASSUME TimerAssumption PROVE Spec => []TypeOK
<1>1. IInv => TypeOK
  BY DEF IInv
<1>. QED BY <1>1, IInvAlways, PTL

\* Outside a callback every running timer has an alarm, or the interrupt of
\* one is on its way, whatever was stopped, set and started, in whatever
\* context, since VirtualTimerMapper last looked for the next timer.
THEOREM NoTimerLeftBehind == ASSUME TimerAssumption PROVE Spec => []AlarmCoversTimers
<1>1. IInv => AlarmCoversTimers
  BY DEF IInv, Alarmed
<1>. QED BY <1>1, IInvAlways, PTL

\* The alarm is never set without a timer of the table it is set for, so
\* VirtualTimerCallback never indexes the table out of range.
THEOREM AlarmAlwaysHasTimer == ASSUME TimerAssumption PROVE Spec => []AlarmHasTimer
<1>1. IInv => AlarmHasTimer
  BY DEF IInv, Alarmed
<1>. QED BY <1>1, IInvAlways, PTL

\* Only the interrupt serves a timer, the one the alarm was set for.
LEMMA ServedIsDue ==
    ASSUME TimerAssumption, IInv, [Next]_vars, NEW t \in Timer, Served(t)
    PROVE  Interrupts /\ Due /\ alarm.current = t
<1>1. queue \in Seq(Timer \ IsrTimer) /\ Len(queue) \in Nat /\ t # NoTimer
      /\ alarm.current \in Timer \cup {NoTimer}
  BY LenProperties DEF IInv, TypeOK, TimerAssumption
<1>2. CASE isr # isr' /\ isr' = t
  <2>1. CASE CallbackInInterrupt
    BY <1>2, <2>1 DEF CallbackInInterrupt
  <2>2. isr' = isr \/ isr' = NoTimer \/ CallbackInInterrupt
    BY DEF Next, Tick, Calls, SetTimer, ChangeTimer, StartTimer, StartTimerLocked, StopTimer,
           VirtualTimerCallback, CallbackRefused, CallbackToQueue, NothingDue,
           CallbackReturn, HAL_CONTINUATION_ExtendedExecute, SetUnUsed, vars
  <2>. QED BY <1>1, <1>2, <2>1, <2>2
<1>3. CASE queue' # queue /\ Len(queue') > Len(queue) /\ Last(queue') = t
  <2>1. CASE CallbackToQueue
    <3>1. queue' = Append(queue, alarm.current)
      BY <1>3, <2>1 DEF CallbackToQueue
    <3>2. alarm.current \in Timer \ IsrTimer
      BY <1>1, <2>1 DEF CallbackToQueue, Due
    <3>3. Last(queue') = alarm.current
      BY <1>1, <3>1, <3>2, AppendProperties DEF Last
    <3>. QED BY <1>3, <2>1, <3>3 DEF CallbackToQueue
  <2>2. CASE HAL_CONTINUATION_ExtendedExecute
    <3>1. queue' = Tail(queue) /\ queue # <<>>
      BY <2>2 DEF HAL_CONTINUATION_ExtendedExecute
    <3>2. Len(queue') = Len(queue) - 1
      BY <1>1, <3>1, HeadTailProperties
    <3>. QED BY <1>1, <1>3, <3>2
  <2>3. queue' = queue \/ CallbackToQueue \/ HAL_CONTINUATION_ExtendedExecute
    BY DEF Next, Tick, Calls, SetTimer, ChangeTimer, StartTimer, StartTimerLocked, StopTimer,
           VirtualTimerCallback, CallbackRefused, CallbackInInterrupt, NothingDue,
           CallbackReturn, SetUnUsed, vars
  <2>. QED BY <1>3, <2>1, <2>2, <2>3
<1>. QED BY <1>2, <1>3 DEF Served

\* A timer is served after its match time and never before a running one that
\* is due earlier, although the alarm is not taken back when a timer stops.
THEOREM ServedInOrder == ASSUME TimerAssumption PROVE Spec => EarliestFirst
<1>. DEFINE InOrder == \A t \in Timer : Served(t) =>
                /\ timers[t].running /\ timers[t].match < now
                /\ \A u \in ToSet(slots) :
                      timers[u].running => timers[t].match <= timers[u].match
<1>1. IInv /\ [Next]_vars => InOrder
  <2>1. SUFFICES ASSUME IInv, [Next]_vars, NEW t \in Timer, Served(t)
                 PROVE  /\ timers[t].running /\ timers[t].match < now
                        /\ \A u \in ToSet(slots) :
                              timers[u].running => timers[t].match <= timers[u].match
    OBVIOUS
  <2>2. Interrupts /\ Due /\ alarm.current = t
    BY <2>1, ServedIsDue
  <2>3. ~cbRunning
    <3>1. cbRunning => ~alarm.pending
      BY <2>1 DEF IInv, Quiet
    <3>. QED BY <2>2, <3>1 DEF Interrupts
  <2>4. AlarmIsForEarliest
    BY <2>1 DEF IInv, Alarmed
  <2>. QED BY <2>2, <2>3, <2>4 DEF Due, AlarmIsForEarliest
<1>2. Spec => [][InOrder]_vars
  <2>. HIDE DEF InOrder
  <2>. QED BY <1>1, IInvAlways, PTL DEF Spec
<1>. QED BY <1>2 DEF EarliestFirst

-----------------------------------------------------------------------------
(***************************************************************************)
(* The completion list over a virtual timer: theorems about EmoteTime.     *)
(***************************************************************************)

Assumptions == TimerAssumption /\ EmoteAssumption

\* Ticks made microseconds, in words that wrap around, and ticks again are no
\* more than they were.
LEMMA Product == ASSUME NEW a \in Nat, NEW b \in Nat PROVE a * b \in Nat
OBVIOUS

LEMMA Quotient ==
    ASSUME NEW a \in Nat, NEW b \in Nat \ {0}
    PROVE  /\ a \div b \in Nat /\ (a \div b) * b <= a
           /\ a % b \in Nat /\ a % b <= a
OBVIOUS

LEMMA ConversionIsNoLonger ==
    ASSUME NEW x \in Nat, NEW k \in Nat, NEW f \in Nat \ {0}, NEW us \in Nat,
           us * (k * f) <= x * f
    PROVE  us * k <= x
<1>1. us * k \in Nat /\ (us * k) * f = us * (k * f)
  OBVIOUS
<1>. DEFINE a == us * k
<1>2. a \in Nat /\ a * f <= x * f
  BY <1>1
<1>. HIDE DEF a
<1>3. SUFFICES a <= x
  BY DEF a
<1>4. SUFFICES ASSUME a >= x + 1 PROVE FALSE
  BY <1>2
<1>5. a * f >= (x + 1) * f /\ (x + 1) * f = x * f + f
  BY <1>2, <1>4
<1>. QED BY <1>2, <1>5

LEMMA DelayIsNoLonger ==
    ASSUME Assumptions, now \in Nat, NEW c \in Nat
    PROVE  /\ DelayTo(c) \in Nat
           /\ DelayTo(c) <= IF c > now THEN c - now ELSE PastDelay
<1>. DEFINE ticks == IF c > now THEN c - now ELSE PastDelay
            x == IF ticks >= Word THEN Word - 1 ELSE ticks
            F == CLOCK_COMMON_FACTOR
            k == TicksPerMicrosecond
            product == (x * F) % Word
            us == product \div timerFrequency
<1>1. /\ PastDelay \in Nat /\ Word \in Nat \ {0} /\ F \in Nat \ {0}
      /\ timerFrequency \in Nat \ {0} /\ timerFrequency = k * F
  BY DEF Assumptions, EmoteAssumption
<1>2. k \in Nat
  BY <1>1, Quotient DEF TicksPerMicrosecond
<1>3. x \in Nat /\ x <= ticks /\ ticks \in Nat
  BY <1>1
<1>4. DelayTo(c) = us * k
  BY DEF DelayTo, CPU_MicrosecondsToTicks, CPU_TicksToMicroseconds
<1>. HIDE DEF ticks, x, F, k
<1>5. x * F \in Nat
  BY <1>1, <1>3, Product
<1>6. product \in Nat /\ product <= x * F
  BY <1>1, <1>5, Quotient
<1>. HIDE DEF product
<1>7. us \in Nat /\ us * timerFrequency <= product
  BY <1>1, <1>6, Quotient
<1>. HIDE DEF us
<1>8. us * (k * F) <= x * F
  <2>1. us * (k * F) \in Nat /\ us * (k * F) <= product
    BY <1>1, <1>7
  <2>. QED BY <1>5, <1>6, <2>1
<1>9. us * k <= x /\ us * k \in Nat
  BY <1>1, <1>2, <1>3, <1>7, <1>8, ConversionIsNoLonger, Product
<1>. QED BY <1>3, <1>4, <1>9 DEF ticks

\* What CompareTable makes of the events timer, and of no other.
LEMMA CompareTableIsTable ==
    ASSUME Assumptions, now \in Nat, NEW table \in Table,
           NEW c, c \in Nat \/ c = IdleValue
    PROVE  /\ CompareTable(table, c) \in Table
           /\ \A u \in Timer \ {EVENTS} : CompareTable(table, c)[u] = table[u]
           /\ c = IdleValue => ~CompareTable(table, c)[EVENTS].running
           /\ c # IdleValue =>
                 /\ CompareTable(table, c)[EVENTS].running
                 /\ CompareTable(table, c)[EVENTS].oneShot
                 /\ CompareTable(table, c)[EVENTS].match =
                       IF table[EVENTS].running THEN table[EVENTS].match
                       ELSE now + DelayTo(c)
<1>1. EVENTS \in Timer /\ IdleValue \notin Nat /\ PastDelay \in Nat
  BY DEF Assumptions, TimerAssumption, EmoteAssumption
<1>2. CASE c = IdleValue
  <2>1. CompareTable(table, c) = Stopped(table, EVENTS)
    BY <1>2 DEF CompareTable
  <2>. QED BY <1>1, <1>2, <2>1, StoppedIs
<1>3. CASE c \in Nat
  <2>1. DelayTo(c) \in Nat
    BY <1>3, DelayIsNoLonger
  <2>. DEFINE changed == Changed(table, EVENTS,
                   [delay |-> DelayTo(c), period |-> 0, oneShot |-> TRUE])
  <2>2. /\ changed \in Table
        /\ \A u \in Timer \ {EVENTS} : changed[u] = table[u]
        /\ changed[EVENTS].delay = DelayTo(c) /\ changed[EVENTS].period = 0
        /\ changed[EVENTS].oneShot = TRUE
        /\ changed[EVENTS].running = table[EVENTS].running
        /\ changed[EVENTS].match = table[EVENTS].match
    <3>. DEFINE s == [delay |-> DelayTo(c), period |-> 0, oneShot |-> TRUE]
    <3>1. s.delay = DelayTo(c) /\ s.period = 0 /\ s.oneShot = TRUE
      OBVIOUS
    <3>2. changed = Changed(table, EVENTS, s)
      OBVIOUS
    <3>3. s.delay \in Nat /\ s.period \in Nat /\ s.oneShot \in BOOLEAN
      BY <2>1
    <3>. HIDE DEF s, changed
    <3>. QED BY <1>1, <3>1, <3>2, <3>3, ChangedIs
  <2>3. CompareTable(table, c) =
           IF table[EVENTS].running THEN changed
           ELSE Running(Matching(changed, EVENTS), EVENTS)
    BY <1>1, <1>3 DEF CompareTable, SetCompareValue
  <2>. HIDE DEF changed
  <2>. DEFINE matching == Matching(changed, EVENTS)
              started == Running(matching, EVENTS)
  <2>4. /\ matching \in Table
        /\ \A u \in Timer \ {EVENTS} : matching[u] = changed[u]
        /\ matching[EVENTS].match = now + DelayTo(c)
        /\ matching[EVENTS].oneShot = TRUE
    BY <1>1, <2>1, <2>2 DEF Matching, Table
  <2>. HIDE DEF matching
  <2>5. /\ started \in Table
        /\ \A u \in Timer \ {EVENTS} : started[u] = matching[u]
        /\ started[EVENTS].match = matching[EVENTS].match
        /\ started[EVENTS].oneShot = matching[EVENTS].oneShot
        /\ started[EVENTS].running = TRUE
    BY <1>1, <2>4 DEF Running, Table
  <2>. HIDE DEF started
  <2>. QED BY <1>1, <1>3, <2>2, <2>3, <2>4, <2>5 DEF started, matching
<1>. QED BY <1>2, <1>3

-----------------------------------------------------------------------------
(***************************************************************************)
(* The invariant.                                                          *)
(***************************************************************************)

\* The events timer is the driver's alone, and a one-shot while it runs; a
\* completion is in the list once, or in one context's hands.
Held(x) == call[x].node
OneClient ==
    /\ EVENTS \in ToSet(slots)
    /\ starting["thread"] # EVENTS /\ starting["isr"] # EVENTS
    /\ timers[EVENTS].running => timers[EVENTS].oneShot
    /\ completions \in Seq(Completion) /\ NoRepeats(completions)
    /\ eventTicks \in [Completion -> Nat]
    /\ call \in [Context -> {NoCall} \cup [node : Completion, ticks : Nat]]
    /\ \A x \in Context : call[x] # NoCall => Held(x) \notin ToSet(completions)
    /\ \A x, y \in Context :
          x # y /\ call[x] # NoCall /\ call[y] # NoCall => Held(x) # Held(y)

EmoteInv == IInv /\ OneClient

LEMMA EmoteInvInit == ASSUME Assumptions, EmoteInit PROVE EmoteInv
<1>1. /\ EVENTS \in Timer /\ EVENTS # NoTimer /\ MaxSlots \in Nat /\ MaxSlots > 0
      /\ MaxTicks \in Nat
  <2>1. Cardinality(Timer) \in Nat /\ Cardinality(Timer) < MaxSlots
    BY FS_CardinalityType DEF Assumptions, EmoteAssumption
  <2>. QED BY <2>1 DEF Assumptions, TimerAssumption, EmoteAssumption
<1>2. /\ slots \in Seq(Timer) /\ Len(slots) = 1 /\ DOMAIN slots = {1}
      /\ slots[1] = EVENTS /\ ToSet(slots) = {EVENTS}
  <2>1. slots = <<EVENTS>>
    BY DEF EmoteInit
  <2>2. slots \in Seq(Timer) /\ Len(slots) = 1 /\ slots[1] = EVENTS
    BY <1>1, <2>1
  <2>3. DOMAIN slots = {1}
    BY <2>2, LenProperties
  <2>. QED BY <2>2, <2>3 DEF ToSet
<1>3. /\ queue \in Seq(Timer \ IsrTimer) /\ completions \in Seq(Completion)
      /\ NoRepeats(completions)
  BY EmptySeq DEF EmoteInit, NoRepeats
<1>4. /\ now \in 0..MaxTicks
      /\ timers \in Table /\ \A t \in Timer : ~timers[t].running
      /\ alarm \in [at : Nat \cup {Never}, pending : BOOLEAN, current : Timer \cup {NoTimer}]
      /\ starting \in [Context -> Timer \cup {NoTimer}]
      /\ eventTicks \in [Completion -> Nat]
      /\ call \in [Context -> {NoCall} \cup [node : Completion, ticks : Nat]]
      /\ \A x \in Context : call[x] = NoCall
  <2>1. now \in 0..MaxTicks
    BY <1>1 DEF EmoteInit
  <2>2. timers \in Table /\ \A t \in Timer : ~timers[t].running
    <3>1. timers = [t \in Timer |-> [Unset EXCEPT !.reserved = (t = EVENTS)]]
      BY DEF EmoteInit
    <3>2. \A t \in Timer :
             /\ [Unset EXCEPT !.reserved = (t = EVENTS)] \in
                  [delay : Nat, period : Nat, oneShot : BOOLEAN,
                   running : BOOLEAN, reserved : BOOLEAN, match : Nat]
             /\ [Unset EXCEPT !.reserved = (t = EVENTS)].running = FALSE
      BY DEF Unset
    <3>. QED BY <3>1, <3>2 DEF Table
  <2>3. alarm \in [at : Nat \cup {Never}, pending : BOOLEAN, current : Timer \cup {NoTimer}]
    BY DEF EmoteInit, AlarmOff
  <2>4. /\ starting \in [Context -> Timer \cup {NoTimer}]
        /\ eventTicks \in [Completion -> Nat]
        /\ call \in [Context -> {NoCall} \cup [node : Completion, ticks : Nat]]
        /\ \A x \in Context : call[x] = NoCall
    BY DEF EmoteInit
  <2>. QED BY <2>1, <2>2, <2>3, <2>4
<1>5. TypeOK
  <2>1. /\ Len(slots) <= MaxSlots
        /\ \A n, m \in DOMAIN slots : slots[n] = slots[m] => n = m
    BY <1>1, <1>2
  <2>2. /\ cbRunning \in BOOLEAN /\ isr \in IsrTimer \cup {NoTimer}
        /\ executing \in (Timer \ IsrTimer) \cup {NoTimer}
    BY DEF EmoteInit
  <2>. QED BY <1>2, <1>3, <1>4, <2>1, <2>2 DEF TypeOK, Table
<1>6. Quiet
  BY DEF EmoteInit, Quiet, AlarmOff, Context
<1>7. Alarmed
  BY <1>1, <1>2, <1>4 DEF EmoteInit, Alarmed, AlarmCoversTimers, AlarmHasTimer,
                         AlarmIsForEarliest, AlarmOff
<1>8. OneClient
  BY <1>1, <1>2, <1>3, <1>4 DEF EmoteInit, OneClient, Context
<1>. QED BY <1>5, <1>6, <1>7, <1>8 DEF EmoteInv, IInv

\* A call that works on the events timer alone keeps the mapper's invariant:
\* it leaves the alarm to a timer that runs, or sets it for one it starts, or
\* leaves it to the end of the callback it comes from.
LEMMA CompareKeeps ==
    ASSUME Assumptions, EmoteInv, timers' \in Table,
           UNCHANGED <<now, slots, cbRunning, isr, starting, queue, executing>>,
           \/ cbRunning /\ alarm' = alarm
           \/ /\ alarm' = alarm
              /\ \A u \in Timer : timers'[u].running =>
                    timers[u].running /\ timers'[u].match = timers[u].match
           \/ \E table \in Table :
                 /\ ~cbRunning /\ table[EVENTS].running
                 /\ alarm' = SetAlarmForTheNextTimer(alarm, table)
                 /\ \A u \in Timer : timers'[u].running =>
                       table[u].running /\ timers'[u].match = table[u].match
    PROVE  IInv'
<1>1. IInv /\ TimerAssumption /\ EVENTS \in Timer
  BY DEF EmoteInv, Assumptions, TimerAssumption, EmoteAssumption
<1>2. /\ Alarmed'
      /\ alarm' \in [at : Nat \cup {Never}, pending : BOOLEAN, current : Timer \cup {NoTimer}]
  <2>1. ASSUME alarm' = alarm,
               \A u \in Timer : timers'[u].running =>
                   timers[u].running /\ timers'[u].match = timers[u].match
        PROVE  /\ Alarmed'
               /\ alarm' \in [at : Nat \cup {Never}, pending : BOOLEAN,
                              current : Timer \cup {NoTimer}]
    BY <1>1, <2>1, AlarmKept DEF IInv, TypeOK
  <2>2. ASSUME NEW table \in Table, table[EVENTS].running,
               alarm' = SetAlarmForTheNextTimer(alarm, table),
               \A u \in Timer : timers'[u].running =>
                   table[u].running /\ timers'[u].match = table[u].match
        PROVE  /\ Alarmed'
               /\ alarm' \in [at : Nat \cup {Never}, pending : BOOLEAN,
                              current : Timer \cup {NoTimer}]
    <3>1. \E t \in Timer : IsRunning(table, t)
      BY <1>1, <2>2 DEF IsRunning, EmoteInv, OneClient
    <3>. QED BY <1>1, <2>2, <3>1, AlarmSetThenStopped
  <2>3. ASSUME cbRunning, alarm' = alarm
        PROVE  /\ Alarmed'
               /\ alarm' \in [at : Nat \cup {Never}, pending : BOOLEAN,
                              current : Timer \cup {NoTimer}]
    BY <1>1, <2>3 DEF IInv, TypeOK, Alarmed, AlarmCoversTimers, AlarmHasTimer,
                      AlarmIsForEarliest
  <2>. QED BY <2>1, <2>2, <2>3
<1>3. TypeOK'
  BY <1>1, <1>2 DEF IInv, TypeOK, Table
<1>4. Quiet'
  <2>1. cbRunning => alarm' = alarm
    OBVIOUS
  <2>. QED BY <1>1, <2>1 DEF IInv, Quiet
<1>. QED BY <1>2, <1>3, <1>4 DEF IInv

\* One compare value, and the table and the alarm it makes.
LEMMA SetCompareKeeps ==
    ASSUME Assumptions, EmoteInv, NEW c, c \in Nat \/ c = IdleValue,
           HAL_Time_SetCompare(c),
           UNCHANGED <<now, slots, cbRunning, isr, starting, queue, executing>>
    PROVE  IInv' /\ timers' \in Table
<1>1. timers \in Table /\ now \in Nat /\ EVENTS \in Timer /\ IdleValue \notin Nat
  BY DEF EmoteInv, IInv, TypeOK, Table, Assumptions, TimerAssumption, EmoteAssumption
<1>2. timers' = CompareTable(timers, c)
      /\ alarm' = IF cbRunning THEN alarm ELSE CompareAlarm(alarm, timers, c)
  BY DEF HAL_Time_SetCompare
<1>. DEFINE table == CompareTable(timers, c)
<1>3. /\ table \in Table
      /\ \A u \in Timer \ {EVENTS} : table[u] = timers[u]
      /\ c = IdleValue => ~table[EVENTS].running
      /\ c # IdleValue =>
            /\ table[EVENTS].running
            /\ table[EVENTS].match = IF timers[EVENTS].running
                  THEN timers[EVENTS].match ELSE now + DelayTo(c)
  BY <1>1, CompareTableIsTable
<1>4. c \in Nat => table = SetCompareValue(timers, c)
  BY <1>1 DEF CompareTable
<1>. HIDE DEF table
<1>5. timers' = table /\ timers' \in Table
  BY <1>2, <1>3 DEF table
<1>6. CASE cbRunning
  BY <1>2, <1>5, <1>6, CompareKeeps
<1>7. CASE ~cbRunning /\ (c = IdleValue \/ timers[EVENTS].running)
  <2>1. alarm' = alarm
    BY <1>2, <1>7 DEF CompareAlarm
  <2>2. \A u \in Timer : table[u].running =>
           timers[u].running /\ table[u].match = timers[u].match
    BY <1>1, <1>3, <1>7
  <2>. QED BY <1>5, <2>1, <2>2, CompareKeeps
<1>8. CASE ~cbRunning /\ c # IdleValue /\ ~timers[EVENTS].running
  <2>1. alarm' = SetAlarmForTheNextTimer(alarm, table)
    BY <1>2, <1>4, <1>8 DEF CompareAlarm
  <2>2. table[EVENTS].running
    BY <1>3, <1>8
  <2>. QED BY <1>3, <1>5, <1>8, <2>1, <2>2, CompareKeeps
<1>. QED BY <1>6, <1>7, <1>8

\* What a compare value leaves of the events timer: a one-shot, if it runs.
LEMMA CompareIsOneShot ==
    ASSUME Assumptions, EmoteInv, NEW c, c \in Nat \/ c = IdleValue
    PROVE  CompareTable(timers, c)[EVENTS].running
              => CompareTable(timers, c)[EVENTS].oneShot
<1>1. timers \in Table /\ now \in Nat
  BY DEF EmoteInv, IInv, TypeOK, Table, Assumptions, TimerAssumption
<1>. DEFINE table == CompareTable(timers, c)
<1>2. /\ c = IdleValue => ~table[EVENTS].running
      /\ c # IdleValue => table[EVENTS].oneShot
  BY <1>1, CompareTableIsTable
<1>. QED BY <1>2

\* Two compare values in a row: the first starts the timer if it has to.
LEMMA TwoComparesKeep ==
    ASSUME Assumptions, EmoteInv, NEW first \in Nat, NEW c, c \in Nat \/ c = IdleValue,
           timers' = CompareTable(CompareTable(timers, first), c),
           alarm' = IF cbRunning THEN alarm
                    ELSE CompareAlarm(CompareAlarm(alarm, timers, first),
                                      CompareTable(timers, first), c),
           UNCHANGED <<now, slots, cbRunning, isr, starting, queue, executing>>
    PROVE  /\ IInv'
           /\ timers'[EVENTS].running => timers'[EVENTS].oneShot
           /\ c = IdleValue => ~timers'[EVENTS].running
           /\ timers[EVENTS].running /\ c # IdleValue =>
                 /\ timers'[EVENTS].running
                 /\ timers'[EVENTS].match = timers[EVENTS].match
<1>1. timers \in Table /\ now \in Nat /\ EVENTS \in Timer /\ IdleValue \notin Nat
  BY DEF EmoteInv, IInv, TypeOK, Table, Assumptions, TimerAssumption, EmoteAssumption
<1>. DEFINE one == CompareTable(timers, first)
            two == CompareTable(one, c)
<1>2. /\ one \in Table
      /\ \A u \in Timer \ {EVENTS} : one[u] = timers[u]
      /\ one[EVENTS].running
      /\ one[EVENTS].match = IF timers[EVENTS].running
            THEN timers[EVENTS].match ELSE now + DelayTo(first)
  BY <1>1, CompareTableIsTable
<1>3. one = SetCompareValue(timers, first)
  BY <1>1 DEF CompareTable
<1>4. /\ alarm' = IF cbRunning THEN alarm
                  ELSE CompareAlarm(CompareAlarm(alarm, timers, first), one, c)
      /\ timers' = two
  OBVIOUS
<1>. HIDE DEF one
<1>5. /\ two \in Table
      /\ \A u \in Timer \ {EVENTS} : two[u] = one[u]
      /\ c = IdleValue => ~two[EVENTS].running
      /\ c # IdleValue => /\ two[EVENTS].running /\ two[EVENTS].oneShot
                          /\ two[EVENTS].match = one[EVENTS].match
  BY <1>1, <1>2, CompareTableIsTable
<1>. HIDE DEF two
<1>6. \A u \in Timer : two[u].running =>
         one[u].running /\ two[u].match = one[u].match
  BY <1>1, <1>2, <1>5
<1>7. ~cbRunning => alarm' = CompareAlarm(alarm, timers, first)
  BY <1>2, <1>4 DEF CompareAlarm
<1>8. IInv'
  <2>1. CASE ~cbRunning /\ timers[EVENTS].running
    <3>1. alarm' = alarm
      BY <1>7, <2>1 DEF CompareAlarm
    <3>2. \A u \in Timer : two[u].running =>
             timers[u].running /\ two[u].match = timers[u].match
      BY <1>1, <1>2, <1>6, <2>1
    <3>. QED BY <1>4, <1>5, <3>1, <3>2, CompareKeeps
  <2>2. CASE ~cbRunning /\ ~timers[EVENTS].running
    <3>1. alarm' = SetAlarmForTheNextTimer(alarm, one)
      BY <1>1, <1>3, <1>7, <2>2 DEF CompareAlarm
    <3>. QED BY <1>2, <1>4, <1>5, <1>6, <3>1, CompareKeeps
  <2>3. CASE cbRunning
    BY <1>4, <1>5, <2>3, CompareKeeps
  <2>. QED BY <2>1, <2>2, <2>3
<1>. QED BY <1>1, <1>2, <1>4, <1>5, <1>8

\* The compare value of a list of completions.
LEMMA CompareForList ==
    ASSUME eventTicks \in [Completion -> Nat], NEW list \in Seq(Completion)
    PROVE  /\ CompareFor(list) \in Nat \/ CompareFor(list) = IdleValue
           /\ list # <<>> => list[1] \in Completion
                             /\ CompareFor(list) = eventTicks[list[1]]
           /\ list = <<>> => CompareFor(list) = IdleValue
<1>1. ASSUME list # <<>>
      PROVE  list[1] \in Completion
  <2>1. Len(list) \in Nat \ {0}
    BY <1>1, EmptySeq
  <2>. QED BY <2>1, ElementOfSeq
<1>. QED BY <1>1 DEF CompareFor, FirstNode

\* The walk of EnqueueDelta stops inside the list, or at its end.
LEMMA DelayedInsertion ==
    ASSUME NEW list \in Seq(Completion), NEW t, NEW p, p = InsertionPoint(list, t)
    PROVE  p \in 1..(Len(list) + 1)
<1>. DEFINE later == {i \in DOMAIN list : t < eventTicks[list[i]]}
<1>1. Len(list) \in Nat /\ DOMAIN list = 1..Len(list)
  BY LenProperties
<1>2. CASE later = {}
  BY <1>1, <1>2 DEF InsertionPoint
<1>3. CASE later # {}
  <2>1. p = CHOOSE i \in later : \A j \in later : i <= j
    BY <1>3 DEF InsertionPoint
  <2>2. \E i \in later : \A j \in later : i <= j
    <3>1. later \subseteq Nat
      BY <1>1
    <3>. HIDE DEF later
    <3>. QED BY <1>3, <3>1, LeastNat
  <2>3. p \in later
    <3>. HIDE DEF later
    <3>. QED BY <2>1, <2>2
  <2>. QED BY <1>1, <2>3
<1>. QED BY <1>2, <1>3

\* A step that keeps the rest of OneClient: the events timer stays a one-shot
\* and the contexts' calls are left alone.
LEMMA CompletionsKept ==
    ASSUME EmoteInv, IInv',
           UNCHANGED <<slots, starting, eventTicks, call>>,
           timers'[EVENTS].running => timers'[EVENTS].oneShot,
           completions' \in Seq(Completion), NoRepeats(completions'),
           ToSet(completions') \subseteq ToSet(completions)
    PROVE  EmoteInv'
BY DEF EmoteInv, OneClient, Held

\* EnqueueDelta up to the lock.
LEMMA EnqueueDeltaKeeps ==
    ASSUME Assumptions, EmoteInv, NEW x \in Context, NEW c \in Completion,
           NEW d \in Delta, EnqueueDelta(x, c, d)
    PROVE  EmoteInv'
<1>1. IInv /\ OneClient /\ now \in Nat
  BY DEF EmoteInv, IInv, TypeOK, Assumptions, TimerAssumption
<1>2. IInv'
  BY <1>1, ContinuationKeeps DEF EnqueueDelta, Assumptions
<1>. DEFINE t == now + CPU_MicrosecondsToTicks(d)
            mine == [node |-> c, ticks |-> t]
<1>3. t \in Nat
  <2>1. d \in Nat /\ TicksPerMicrosecond \in Nat
    BY Quotient DEF Assumptions, EmoteAssumption, TicksPerMicrosecond
  <2>2. CPU_MicrosecondsToTicks(d) \in Nat
    BY <2>1, Product DEF CPU_MicrosecondsToTicks
  <2>. QED BY <1>1, <2>2
<1>4. /\ call' = [call EXCEPT ![x] = mine]
      /\ c \notin ToSet(completions)
      /\ \A y \in Context : call[y] # NoCall => Held(y) # c
      /\ UNCHANGED <<vars, completions, eventTicks>>
  BY DEF EnqueueDelta, Held
<1>5. mine \in [node : Completion, ticks : Nat] /\ mine.node = c
  BY <1>3
<1>. HIDE DEF mine
<1>6. /\ call' \in [Context -> {NoCall} \cup [node : Completion, ticks : Nat]]
      /\ call'[x] = mine /\ \A y \in Context \ {x} : call'[y] = call[y]
  BY <1>1, <1>4, <1>5 DEF OneClient
<1>7. /\ \A y \in Context : call'[y] # NoCall => call'[y].node \notin ToSet(completions)
      /\ \A y, z \in Context :
            y # z /\ call'[y] # NoCall /\ call'[z] # NoCall => call'[y].node # call'[z].node
  BY <1>1, <1>4, <1>5, <1>6 DEF OneClient, Held
<1>. QED BY <1>1, <1>2, <1>4, <1>6, <1>7 DEF EmoteInv, OneClient, Held, vars

\* EnqueueTicks puts the context's completion into the list.
LEMMA EnqueueTicksKeeps ==
    ASSUME Assumptions, EmoteInv, NEW x \in Context, EnqueueTicks(x)
    PROVE  EmoteInv'
<1>. DEFINE c == call[x].node
            t == call[x].ticks
            p == InsertionPoint(completions, t)
<1>1. IInv /\ OneClient /\ timers \in Table
  BY DEF EmoteInv, IInv, TypeOK, Table
<1>2. c \in Completion /\ t \in Nat /\ c \notin ToSet(completions)
  BY <1>1 DEF OneClient, EnqueueTicks, Held
<1>3. /\ eventTicks' = [eventTicks EXCEPT ![c] = t]
      /\ completions' = Inserted(completions, p, c)
      /\ call' = [call EXCEPT ![x] = NoCall]
      /\ UNCHANGED <<now, slots, cbRunning, isr, starting, queue, executing>>
      /\ \/ HAL_Time_SetCompare(t)
         \/ UNCHANGED <<timers, alarm>>
  BY DEF EnqueueTicks
<1>4. /\ completions' \in Seq(Completion) /\ NoRepeats(completions')
      /\ ToSet(completions') = ToSet(completions) \cup {c}
  <2>1. p \in 1..(Len(completions) + 1)
    BY <1>1, DelayedInsertion DEF OneClient
  <2>. HIDE DEF p, c
  <2>2. completions \in Seq(Completion) /\ NoRepeats(completions)
    BY <1>1 DEF OneClient
  <2>. QED BY <1>2, <1>3, <2>1, <2>2, InsertedProperties
<1>5. IInv' /\ (timers'[EVENTS].running => timers'[EVENTS].oneShot)
  <2>1. CASE HAL_Time_SetCompare(t)
    <3>1. IInv'
      BY <1>2, <1>3, <2>1, SetCompareKeeps
    <3>2. timers' = CompareTable(timers, t)
      BY <2>1 DEF HAL_Time_SetCompare
    <3>. QED BY <1>2, <3>1, <3>2, CompareIsOneShot
  <2>2. CASE UNCHANGED <<timers, alarm>>
    BY <1>1, <1>3, <2>2, CompareKeeps DEF OneClient
  <2>. QED BY <1>3, <2>1, <2>2
<1>6. eventTicks' \in [Completion -> Nat]
  BY <1>1, <1>2, <1>3 DEF OneClient
<1>7. /\ call' \in [Context -> {NoCall} \cup [node : Completion, ticks : Nat]]
      /\ call'[x] = NoCall /\ \A y \in Context \ {x} : call'[y] = call[y]
  BY <1>1, <1>3 DEF OneClient
<1>8. \A y \in Context \ {x} : call[y] # NoCall => call[y].node # c
  BY <1>1 DEF OneClient, Held, EnqueueTicks
<1>9. /\ \A y \in Context : call'[y] # NoCall => call'[y].node \notin ToSet(completions')
      /\ \A y, z \in Context :
            y # z /\ call'[y] # NoCall /\ call'[z] # NoCall => call'[y].node # call'[z].node
  <2>. HIDE DEF c
  <2>. QED BY <1>1, <1>4, <1>7, <1>8 DEF OneClient, Held
<1>. HIDE DEF c, t, p
<1>. QED BY <1>1, <1>3, <1>4, <1>5, <1>6, <1>7, <1>9 DEF EmoteInv, OneClient, Held

LEMMA AbortKeeps ==
    ASSUME Assumptions, EmoteInv, NEW x \in Context, NEW c \in Completion, Abort(x, c)
    PROVE  EmoteInv'
<1>1. /\ completions \in Seq(Completion) /\ NoRepeats(completions)
      /\ eventTicks \in [Completion -> Nat] /\ IInv /\ timers \in Table
      /\ timers[EVENTS].running => timers[EVENTS].oneShot
  BY DEF EmoteInv, OneClient, IInv, TypeOK, Table
<1>2. /\ completions' = Unlinked(completions, c)
      /\ UNCHANGED <<now, slots, cbRunning, isr, starting, queue, executing,
                     eventTicks, call>>
      /\ \/ HAL_Time_SetCompare(CompareFor(completions'))
         \/ UNCHANGED <<timers, alarm>>
  BY DEF Abort
<1>3. /\ completions' \in Seq(Completion) /\ NoRepeats(completions')
      /\ ToSet(completions') \subseteq ToSet(completions)
  BY <1>1, <1>2, UnlinkedProperties
<1>. DEFINE v == CompareFor(completions')
<1>4. v \in Nat \/ v = IdleValue
  BY <1>1, <1>3, CompareForList
<1>5. HAL_Time_SetCompare(v) \/ UNCHANGED <<timers, alarm>>
  BY <1>2 DEF CompareFor
<1>. HIDE DEF v
<1>6. IInv' /\ (timers'[EVENTS].running => timers'[EVENTS].oneShot)
  <2>1. CASE HAL_Time_SetCompare(v)
    <3>1. IInv'
      BY <1>2, <1>4, <2>1, SetCompareKeeps
    <3>2. timers' = CompareTable(timers, v)
      BY <2>1 DEF HAL_Time_SetCompare
    <3>. QED BY <1>4, <3>1, <3>2, CompareIsOneShot
  <2>2. CASE UNCHANGED <<timers, alarm>>
    BY <1>1, <1>2, <2>2, CompareKeeps
  <2>. QED BY <1>5, <2>1, <2>2
<1>. QED BY <1>2, <1>3, <1>6, CompletionsKept

LEMMA WaitKeeps ==
    ASSUME Assumptions, EmoteInv, NEW d \in Delta, WaitForInterrupts(d)
    PROVE  EmoteInv'
<1>1. /\ completions \in Seq(Completion) /\ NoRepeats(completions)
      /\ eventTicks \in [Completion -> Nat] /\ IInv /\ timers \in Table /\ now \in Nat
      /\ timers[EVENTS].running => timers[EVENTS].oneShot
  BY DEF EmoteInv, OneClient, IInv, TypeOK, Table, Assumptions, TimerAssumption
<1>. DEFINE expire == now + CPU_MicrosecondsToTicks(d)
            c == CompareFor(completions)
<1>2. expire \in Nat
  <2>1. d \in Nat /\ TicksPerMicrosecond \in Nat
    BY Quotient DEF Assumptions, EmoteAssumption, TicksPerMicrosecond
  <2>2. CPU_MicrosecondsToTicks(d) \in Nat
    BY <2>1, Product DEF CPU_MicrosecondsToTicks
  <2>. QED BY <1>1, <2>2
<1>3. c \in Nat \/ c = IdleValue
  BY <1>1, CompareForList
<1>4. /\ UNCHANGED <<now, slots, cbRunning, isr, starting, queue, executing, armed>>
      /\ \/ /\ timers' = CompareTable(CompareTable(timers, expire), c)
            /\ alarm' = IF cbRunning THEN alarm
                        ELSE CompareAlarm(CompareAlarm(alarm, timers, expire),
                                          CompareTable(timers, expire), c)
         \/ UNCHANGED <<timers, alarm>>
  BY DEF WaitForInterrupts
<1>. HIDE DEF expire, c
<1>5. IInv' /\ (timers'[EVENTS].running => timers'[EVENTS].oneShot)
  <2>1. CASE UNCHANGED <<timers, alarm>>
    BY <1>1, <1>4, <2>1, CompareKeeps
  <2>2. CASE ~UNCHANGED <<timers, alarm>>
    BY <1>2, <1>3, <1>4, <2>2, TwoComparesKeep
  <2>. QED BY <2>1, <2>2
<1>. QED BY <1>1, <1>4, <1>5, CompletionsKept DEF armed

\* The events timer's callback begins: the alarm is off until it returns.
LEMMA DequeueKeeps == ASSUME Assumptions, EmoteInv, DequeueAndExec PROVE EmoteInv'
<1>1. /\ completions \in Seq(Completion) /\ NoRepeats(completions)
      /\ eventTicks \in [Completion -> Nat] /\ now \in Nat /\ IInv
      /\ timers \in Table /\ EVENTS \in Timer /\ EVENTS \in IsrTimer /\ EVENTS # NoTimer
      /\ timers[EVENTS].running => timers[EVENTS].oneShot
  BY DEF EmoteInv, OneClient, IInv, TypeOK, Table, Assumptions, TimerAssumption,
         EmoteAssumption
<1>2. /\ completions' \in Seq(Completion) /\ NoRepeats(completions')
      /\ ToSet(completions') \subseteq ToSet(completions)
  <2>1. CASE completions = <<>>
    BY <1>1, <2>1 DEF DequeueAndExec
  <2>2. CASE completions # <<>>
    BY <1>1, <2>2, TailProperties DEF DequeueAndExec
  <2>. QED BY <2>1, <2>2
<1>3. timers' \in Table /\ (timers'[EVENTS].running => timers'[EVENTS].oneShot)
  <2>. DEFINE v == CompareFor(completions')
  <2>1. v \in Nat \/ v = IdleValue
    BY <1>1, <1>2, CompareForList
  <2>2. timers' = IF completions = <<>> THEN timers ELSE CompareTable(timers, v)
    BY DEF DequeueAndExec, CompareFor
  <2>. HIDE DEF v
  <2>. QED BY <1>1, <2>1, <2>2, CompareTableIsTable, CompareIsOneShot
<1>4. /\ UNCHANGED <<now, slots, starting, queue, executing, eventTicks, call>>
      /\ cbRunning' = TRUE /\ isr' = EVENTS
      /\ alarm' = [AlarmOff EXCEPT !.current = EVENTS]
  BY DEF DequeueAndExec
<1>5. /\ alarm'.at = Never /\ alarm'.pending = FALSE
      /\ alarm' \in [at : Nat \cup {Never}, pending : BOOLEAN, current : Timer \cup {NoTimer}]
  BY <1>1, <1>4 DEF AlarmOff
<1>6. TypeOK'
  BY <1>1, <1>3, <1>4, <1>5 DEF IInv, TypeOK, Table
<1>7. Quiet'
  BY <1>1, <1>4, <1>5 DEF IInv, Quiet
<1>8. Alarmed'
  BY <1>4, <1>5 DEF Alarmed, AlarmCoversTimers, AlarmHasTimer, AlarmIsForEarliest
<1>9. IInv'
  BY <1>6, <1>7, <1>8 DEF IInv
<1>. QED BY <1>2, <1>3, <1>4, <1>9, CompletionsKept

\* The callback returns: the events timer has stopped, whatever was set
\* meanwhile.
LEMMA ReturnStops ==
    ASSUME Assumptions, EmoteInv, ExecuteReturns
    PROVE  EmoteInv' /\ timers'[EVENTS].running = FALSE
<1>1. /\ IInv /\ OneClient /\ timers \in Table /\ EVENTS \in Timer
      /\ isr = EVENTS
  BY DEF EmoteInv, IInv, TypeOK, Table, Assumptions, TimerAssumption, EmoteAssumption,
         ExecuteReturns, CallbackReturn
<1>2. IInv'
  BY <1>1, CallbackKeeps DEF ExecuteReturns, VirtualTimerCallback, Assumptions
<1>3. timers' = AfterService(timers, EVENTS)
      /\ UNCHANGED <<now, slots, starting, queue, executing, armed>>
  BY <1>1 DEF ExecuteReturns, CallbackReturn
<1>4. timers'[EVENTS].running = FALSE
  BY <1>1, <1>3 DEF AfterService, Table, OneClient
<1>5. EmoteInv'
  BY <1>1, <1>2, <1>3, <1>4, CompletionsKept DEF armed, OneClient
<1>. QED BY <1>4, <1>5

\* The other clients' calls leave the events timer alone.
LEMMA OtherTimersKeep ==
    ASSUME Assumptions, EmoteInv, NEW x \in Context, OtherTimers(x)
    PROVE  EmoteInv' /\ timers'[EVENTS] = timers[EVENTS]
<1>1. /\ IInv /\ OneClient /\ TimerAssumption
      /\ starting \in [Context -> Timer \cup {NoTimer}] /\ EVENTS # NoTimer
      /\ timers \in Table /\ EVENTS \in Timer /\ slots \in Seq(Timer)
      /\ Context = {"thread", "isr"} /\ UNCHANGED armed
  BY DEF EmoteInv, IInv, TypeOK, Table, Assumptions, TimerAssumption, EmoteAssumption,
         Context, OtherTimers
<1>. DEFINE Kept == /\ IInv' /\ timers'[EVENTS] = timers[EVENTS]
                   /\ starting'["thread"] # EVENTS /\ starting'["isr"] # EVENTS
                   /\ EVENTS \in ToSet(slots')
<1>2. ASSUME StartTimerLocked(x)
      PROVE  Kept
  <2>1. IInv'
    BY <1>1, <1>2, StartTimerLockedKeeps
  <2>2. starting[x] # EVENTS
    BY <1>1 DEF OneClient
  <2>3. timers'[EVENTS] = timers[EVENTS]
    BY <1>1, <1>2, <2>2 DEF StartTimerLocked, Running, Table
  <2>4. starting'["thread"] # EVENTS /\ starting'["isr"] # EVENTS
    BY <1>1, <1>2 DEF StartTimerLocked, OneClient
  <2>. QED BY <1>1, <1>2, <2>1, <2>3, <2>4 DEF StartTimerLocked, OneClient
<1>3. ASSUME NEW t \in Timer \ {EVENTS},
             \/ StartTimer(x, t) \/ StopTimer(x, t)
             \/ \E s \in Shape : ChangeTimer(x, t, s) \/ SetTimer(x, t, s, FALSE)
      PROVE  Kept
  <2>1. IInv'
    <3>1. \/ \E s \in Shape, r \in BOOLEAN : SetTimer(x, t, s, r)
          \/ \E s \in Shape : ChangeTimer(x, t, s)
          \/ StartTimer(x, t) \/ StopTimer(x, t)
      BY <1>3
    <3>. QED BY <1>1, <3>1, CallKeeps
  <2>2. CASE StartTimer(x, t)
    BY <1>1, <2>1, <2>2 DEF StartTimer, Matching, Table, OneClient
  <2>3. CASE StopTimer(x, t)
    BY <1>1, <2>1, <2>3 DEF StopTimer, Stopped, Table, OneClient
  <2>4. ASSUME NEW s \in Shape, ChangeTimer(x, t, s)
        PROVE  Kept
    BY <1>1, <2>1, <2>4 DEF ChangeTimer, Changed, Table, OneClient
  <2>5. ASSUME NEW s \in Shape, SetTimer(x, t, s, FALSE)
        PROVE  Kept
    <3>1. ToSet(slots) \subseteq ToSet(slots')
      <4>1. slots' = slots \/ slots' = Append(slots, t)
        BY <2>5 DEF SetTimer
      <4>. QED BY <1>1, <4>1, AppendProperties, LenProperties DEF ToSet
    <3>. QED BY <1>1, <2>1, <2>5, <3>1 DEF SetTimer, Table, OneClient
  <2>. QED BY <1>3, <2>2, <2>3, <2>4, <2>5
<1>4. Kept
  <2>. HIDE DEF Kept
  <2>. QED BY <1>2, <1>3 DEF OtherTimers
<1>. QED BY <1>1, <1>4 DEF EmoteInv, OneClient, Held, armed

\* Interrupts for other timers, the thread's continuations, and nothing.
LEMMA OthersKeep ==
    ASSUME Assumptions, EmoteInv,
           OtherCallbacks \/ Continuations \/ UNCHANGED <<vars, armed>>
    PROVE  EmoteInv' /\ timers'[EVENTS] = timers[EVENTS]
<1>1. /\ IInv /\ OneClient /\ TimerAssumption /\ timers \in Table
      /\ EVENTS \in Timer /\ IsrTimer = {EVENTS}
      /\ alarm.current \in Timer \cup {NoTimer} /\ UNCHANGED <<slots, starting, armed>>
  BY DEF EmoteInv, IInv, TypeOK, Table, Assumptions, TimerAssumption, EmoteAssumption,
         OtherCallbacks, CallbackToQueue, NothingDue, Continuations,
         HAL_CONTINUATION_ExtendedExecute, SetUnUsed, vars
<1>2. IInv'
  BY <1>1, CallbackKeeps, ContinuationKeeps DEF OtherCallbacks, VirtualTimerCallback,
     Continuations
<1>3. timers'[EVENTS] = timers[EVENTS]
  <2>1. CASE CallbackToQueue
    <3>1. timers' = AfterService(timers, alarm.current) /\ alarm.current # EVENTS
      BY <1>1, <2>1 DEF CallbackToQueue
    <3>. QED BY <1>1, <3>1 DEF AfterService, Table
  <2>2. CASE ~CallbackToQueue
    BY <2>2 DEF OtherCallbacks, NothingDue, Continuations,
                HAL_CONTINUATION_ExtendedExecute, SetUnUsed, vars
  <2>. QED BY <2>1, <2>2
<1>. QED BY <1>1, <1>2, <1>3 DEF EmoteInv, OneClient, Held, armed

LEMMA EmoteTickKeeps ==
    ASSUME Assumptions, EmoteInv, EmoteTick
    PROVE  /\ EmoteInv'
           /\ timers'[EVENTS].running = timers[EVENTS].running
           /\ completions' = completions /\ UNCHANGED <<isr, cbRunning>>
           /\ \A x \in Context : call'[x] = NoCall <=> call[x] = NoCall
           /\ \/ /\ now' = now + 1 /\ timers'[EVENTS].match = timers[EVENTS].match
                 /\ eventTicks' = eventTicks
              \/ /\ now' = now
                 /\ timers'[EVENTS].match = Earlier(timers[EVENTS].match)
                 /\ \A c \in Completion : eventTicks'[c] = Earlier(eventTicks[c])
<1>1. /\ IInv /\ OneClient /\ timers \in Table /\ EVENTS \in Timer
      /\ NoCall \notin [node : Completion, ticks : Nat]
  BY DEF EmoteInv, IInv, TypeOK, Table, Assumptions, TimerAssumption, EmoteAssumption
<1>2. IInv'
  BY <1>1, TickKeeps DEF EmoteTick, Assumptions
<1>3. /\ timers'[EVENTS].running = timers[EVENTS].running
      /\ timers'[EVENTS].oneShot = timers[EVENTS].oneShot
      /\ \/ now' = now + 1 /\ timers'[EVENTS].match = timers[EVENTS].match
         \/ now' = now /\ timers'[EVENTS].match = Earlier(timers[EVENTS].match)
      /\ now < MaxTicks => now' = now + 1 /\ timers'[EVENTS].match = timers[EVENTS].match
      /\ ~(now < MaxTicks)
            => now' = now /\ timers'[EVENTS].match = Earlier(timers[EVENTS].match)
      /\ UNCHANGED <<slots, starting, completions, isr, cbRunning>>
  BY <1>1 DEF EmoteTick, Tick, Table
<1>4. \A n \in Nat : Earlier(n) \in Nat
  BY DEF Earlier
<1>5. /\ eventTicks' \in [Completion -> Nat]
      /\ now < MaxTicks => eventTicks' = eventTicks
      /\ ~(now < MaxTicks) =>
            \A c \in Completion : eventTicks'[c] = Earlier(eventTicks[c])
  BY <1>1, <1>4 DEF EmoteTick, OneClient
<1>6. /\ call' \in [Context -> {NoCall} \cup [node : Completion, ticks : Nat]]
      /\ \A x \in Context : /\ call'[x] = NoCall <=> call[x] = NoCall
                            /\ call[x] # NoCall => call'[x].node = call[x].node
  <2>1. CASE now < MaxTicks
    BY <1>1, <2>1 DEF EmoteTick, OneClient
  <2>2. CASE ~(now < MaxTicks)
    <3>. DEFINE moved(x) == [call[x] EXCEPT !.ticks = Earlier(@)]
    <3>1. call' = [x \in Context |-> IF call[x] = NoCall THEN NoCall ELSE moved(x)]
      BY <2>2 DEF EmoteTick
    <3>2. \A x \in Context : call[x] # NoCall =>
             /\ moved(x) \in [node : Completion, ticks : Nat]
             /\ moved(x).node = call[x].node
      BY <1>1, <1>4 DEF OneClient
    <3>. HIDE DEF moved
    <3>. QED BY <1>1, <3>1, <3>2
  <2>. QED BY <2>1, <2>2
<1>7. OneClient'
  BY <1>1, <1>3, <1>5, <1>6 DEF OneClient, Held
<1>. QED BY <1>2, <1>3, <1>5, <1>6, <1>7 DEF EmoteInv

LEMMA EmoteInvNext ==
    ASSUME Assumptions, EmoteInv, [EmoteNext]_<<vars, armed>>
    PROVE  EmoteInv'
<1>1. CASE EmoteTick
  BY <1>1, EmoteTickKeeps
<1>2. ASSUME NEW x \in Context, CompletionCalls(x)
      PROVE  EmoteInv'
  BY <1>2, EnqueueDeltaKeeps, EnqueueTicksKeeps, AbortKeeps DEF CompletionCalls
<1>3. ASSUME NEW x \in Context, OtherTimers(x)
      PROVE  EmoteInv'
  BY <1>3, OtherTimersKeep
<1>4. ASSUME NEW d \in Delta, WaitForInterrupts(d)
      PROVE  EmoteInv'
  BY <1>4, WaitKeeps
<1>5. CASE DequeueAndExec \/ ExecuteReturns
  BY <1>5, DequeueKeeps, ReturnStops
<1>6. CASE OtherCallbacks \/ Continuations \/ UNCHANGED <<vars, armed>>
  BY <1>6, OthersKeep
<1>. QED BY <1>1, <1>2, <1>3, <1>4, <1>5, <1>6 DEF EmoteNext

LEMMA EmoteInvAlways == ASSUME Assumptions PROVE EmoteSpec => []EmoteInv
BY EmoteInvInit, EmoteInvNext, PTL DEF EmoteSpec

-----------------------------------------------------------------------------
(***************************************************************************)
(* The theorems for any number of completions, with callbacks that enqueue *)
(* and callbacks that do not.                                              *)
(***************************************************************************)

\* Every variable keeps its type, the completions' too.
THEOREM EmoteTypeCorrect == ASSUME Assumptions PROVE EmoteSpec => []EmoteTypeOK
<1>1. EmoteInv => EmoteTypeOK
  BY DEF EmoteInv, IInv, OneClient, EmoteTypeOK
<1>. QED BY <1>1, EmoteInvAlways, PTL

\* HAL_Time_SetCompare starts, changes and stops a timer between two looks of
\* the mapper, from the thread and from a completion's callback inside the
\* timer's, twice in a row where the CLR goes to sleep; and still, outside
\* the callback, no timer that runs, the events timer or another client's, is
\* without an alarm.
THEOREM CompareLeavesNoTimerBehind ==
    ASSUME Assumptions PROVE EmoteSpec => [](AlarmCoversTimers /\ AlarmHasTimer)
<1>1. EmoteInv => AlarmCoversTimers /\ AlarmHasTimer
  BY DEF EmoteInv, IInv, Alarmed
<1>. QED BY <1>1, EmoteInvAlways, PTL

LEMMA TimerIsForCompletionNext ==
    ASSUME Assumptions, EmoteInv, TimerIsForCompletion, [EmoteNext]_<<vars, armed>>
    PROVE  TimerIsForCompletion'
<1>1. /\ completions \in Seq(Completion) /\ NoRepeats(completions)
      /\ eventTicks \in [Completion -> Nat] /\ timers \in Table /\ now \in Nat
      /\ EVENTS \in Timer /\ EVENTS # NoTimer /\ IdleValue \notin Nat
  BY DEF EmoteInv, OneClient, IInv, TypeOK, Table, Assumptions, TimerAssumption,
         EmoteAssumption
<1>2. CASE EmoteTick
  BY <1>2, EmoteTickKeeps DEF TimerIsForCompletion
<1>3. ASSUME NEW x \in Context, NEW c \in Completion, NEW d \in Delta,
             EnqueueDelta(x, c, d)
      PROVE  TimerIsForCompletion'
  BY <1>3 DEF EnqueueDelta, TimerIsForCompletion, vars
<1>4. ASSUME NEW x \in Context, EnqueueTicks(x)
      PROVE  TimerIsForCompletion'
  <2>. DEFINE c == call[x].node
              p == InsertionPoint(completions, call[x].ticks)
  <2>1. completions' = Inserted(completions, p, c)
    BY <1>4 DEF EnqueueTicks
  <2>2. p \in 1..(Len(completions) + 1)
    BY <1>1, DelayedInsertion
  <2>3. c \in Completion /\ c \notin ToSet(completions)
    BY <1>4 DEF EnqueueTicks, EmoteInv, OneClient, Held
  <2>. HIDE DEF c, p
  <2>4. completions' # <<>>
    BY <1>1, <2>1, <2>2, <2>3, InsertedProperties
  <2>. QED BY <2>4 DEF TimerIsForCompletion
<1>5. ASSUME NEW x \in Context, NEW c \in Completion, Abort(x, c)
      PROVE  TimerIsForCompletion'
  <2>1. completions' = Unlinked(completions, c) /\ isr' = isr
    BY <1>5 DEF Abort
  <2>2. CASE completions = <<>> \/ completions' # <<>>
    <3>1. completions = <<>> => completions' = <<>> /\ timers' = timers
      <4>1. completions = <<>> => c \notin ToSet(completions)
        BY EmptySeq DEF ToSet
      <4>. QED BY <1>1, <1>5, <2>1, <4>1, UnlinkedProperties DEF Abort
    <3>. QED BY <2>1, <2>2, <3>1 DEF TimerIsForCompletion
  <2>3. CASE completions # <<>> /\ completions' = <<>>
    <3>1. FirstNode(completions) = c
      <4>1. completions[1] # c => Unlinked(completions, c) # <<>>
        BY ONLY <1>1, <2>3, UnlinkedProperties
      <4>. QED BY <2>1, <2>3, <4>1 DEF FirstNode
    <3>2. timers' = CompareTable(timers, IdleValue)
      BY <1>5, <2>3, <3>1 DEF Abort, HAL_Time_SetCompare, CompareFor
    <3>3. ~timers'[EVENTS].running
      BY <1>1, <3>2, CompareTableIsTable
    <3>. QED BY <3>3 DEF TimerIsForCompletion
  <2>. QED BY <2>2, <2>3
<1>6. ASSUME NEW d \in Delta, WaitForInterrupts(d)
      PROVE  TimerIsForCompletion'
  <2>1. completions' = completions /\ isr' = isr
    BY <1>6 DEF WaitForInterrupts, armed
  <2>2. CASE completions = <<>>
    <3>. DEFINE first == CompareTable(timers, now + CPU_MicrosecondsToTicks(d))
    <3>1. timers' = CompareTable(first, IdleValue)
      BY <1>6, <2>2 DEF WaitForInterrupts, CompareFor
    <3>2. timers' = Stopped(first, EVENTS)
      BY <3>1 DEF CompareTable
    <3>3. first \in Table
      <4>1. now + CPU_MicrosecondsToTicks(d) \in Nat
        <5>1. d \in Nat /\ TicksPerMicrosecond \in Nat
          BY Quotient DEF Assumptions, EmoteAssumption, TicksPerMicrosecond
        <5>2. CPU_MicrosecondsToTicks(d) \in Nat
          BY <5>1, Product DEF CPU_MicrosecondsToTicks
        <5>. QED BY <1>1, <5>2
      <4>. QED BY <1>1, <4>1, CompareTableIsTable
    <3>. HIDE DEF first
    <3>4. ~timers'[EVENTS].running
      BY <1>1, <3>2, <3>3, StoppedIs
    <3>. QED BY <3>4 DEF TimerIsForCompletion
  <2>3. CASE completions # <<>>
    BY <2>1, <2>3 DEF TimerIsForCompletion
  <2>. QED BY <2>2, <2>3
<1>7. CASE DequeueAndExec
  BY <1>1, <1>7 DEF DequeueAndExec, TimerIsForCompletion
<1>8. CASE ExecuteReturns
  BY <1>8, ReturnStops DEF TimerIsForCompletion
<1>9. ASSUME NEW x \in Context, OtherTimers(x)
      PROVE  TimerIsForCompletion'
  <2>1. completions' = completions /\ isr' = isr
    BY <1>9 DEF OtherTimers, StartTimerLocked, StartTimer, StopTimer, ChangeTimer,
                SetTimer, armed
  <2>. QED BY <1>9, <2>1, OtherTimersKeep DEF TimerIsForCompletion
<1>10. CASE OtherCallbacks \/ Continuations \/ UNCHANGED <<vars, armed>>
  <2>1. completions' = completions /\ isr' = isr
    BY <1>10 DEF OtherCallbacks, CallbackToQueue, NothingDue, Continuations,
                 HAL_CONTINUATION_ExtendedExecute, SetUnUsed, vars, armed
  <2>. QED BY <1>10, <2>1, OthersKeep DEF TimerIsForCompletion
<1>. QED BY <1>2, <1>3, <1>4, <1>5, <1>6, <1>7, <1>8, <1>9, <1>10
         DEF EmoteNext, CompletionCalls

\* The events timer runs for no completion that has gone: whatever is
\* aborted, enqueued and waited for, from the thread or from callbacks, it is
\* stopped by the last of them, or by the end of its own callback.
THEOREM NoTimerWithoutCompletion ==
    ASSUME Assumptions PROVE EmoteSpec => []TimerIsForCompletion
<1>1. EmoteInit => TimerIsForCompletion
  <2>1. EVENTS \in Timer /\ Unset.running = FALSE
    BY DEF Assumptions, TimerAssumption, EmoteAssumption, Unset
  <2>. QED BY <2>1 DEF EmoteInit, TimerIsForCompletion, Unset
<1>2. EmoteInv /\ TimerIsForCompletion /\ [EmoteNext]_<<vars, armed>>
         => TimerIsForCompletion'
  BY TimerIsForCompletionNext
<1>. QED BY <1>1, <1>2, EmoteInvAlways, PTL DEF EmoteSpec

-----------------------------------------------------------------------------
(***************************************************************************)
(* One completion, whose callback does not enqueue it.  It is not in the   *)
(* list while its callback runs; at other times the events timer runs if   *)
(* and only if it is, to match when the completion is due, or no later     *)
(* than the delay that stands for the past.  A second completion breaks    *)
(* this, and so does a callback that enqueues: see README.                 *)
(***************************************************************************)
ArmedIsMatched(c) ==
    /\ call["isr"] = NoCall
    /\ isr # NoTimer => completions = <<>>
    /\ completions = <<>> /\ isr = NoTimer => ~timers[EVENTS].running
    /\ completions # <<>> =>
          /\ completions[1] = c
          /\ timers[EVENTS].running
          /\ timers[EVENTS].match <= Larger(eventTicks[c], now + PastDelay)

\* The list of the only completion.
LEMMA OneInList ==
    ASSUME NEW c, Completion = {c}, NEW list \in Seq(Completion), NoRepeats(list)
    PROVE  /\ list = <<>> => c \notin ToSet(list)
           /\ list # <<>> => /\ list[1] = c /\ c \in ToSet(list)
                             /\ Tail(list) = <<>> /\ Unlinked(list, c) = <<>>
<1>1. Len(list) \in Nat /\ DOMAIN list = 1..Len(list)
      /\ (list = <<>> <=> Len(list) = 0)
      /\ \A i \in 1..Len(list) : list[i] = c
  BY LenProperties, EmptySeq, ElementOfSeq
<1>2. ASSUME list # <<>>
      PROVE  /\ list[1] = c /\ c \in ToSet(list)
             /\ Tail(list) = <<>> /\ Unlinked(list, c) = <<>>
  <2>1. 1 \in 1..Len(list)
    BY <1>1, <1>2
  <2>2. list[1] = c /\ c \in ToSet(list)
    BY <1>1, <2>1 DEF ToSet
  <2>3. Unlinked(list, c) = Tail(list)
    BY <1>2, <2>2, UnlinkedProperties
  <2>4. Tail(list) \in Seq(Completion) /\ Len(Tail(list)) = Len(list) - 1
    BY <1>2, HeadTailProperties
  <2>5. Len(list) = 1
    <3>1. SUFFICES ASSUME Len(list) # 1 PROVE FALSE
      OBVIOUS
    <3>2. 2 \in 1..Len(list)
      BY <1>1, <2>1, <3>1
    <3>. QED BY <1>1, <2>1, <3>2 DEF NoRepeats
  <2>. QED BY <2>2, <2>3, <2>4, <2>5, EmptySeq
<1>. QED BY <1>1, <1>2 DEF ToSet

\* What the steps below need of the invariant and the assumptions.
LEMMA EmoteFacts ==
    ASSUME Assumptions, EmoteInv
    PROVE  /\ completions \in Seq(Completion) /\ NoRepeats(completions)
           /\ eventTicks \in [Completion -> Nat] /\ timers \in Table /\ now \in Nat
           /\ EVENTS \in Timer /\ EVENTS # NoTimer /\ isr \in {EVENTS, NoTimer}
           /\ IdleValue \notin Nat /\ PastDelay \in Nat /\ "isr" \in Context
           /\ call \in [Context -> {NoCall} \cup [node : Completion, ticks : Nat]]
<1>1. /\ completions \in Seq(Completion) /\ NoRepeats(completions)
      /\ eventTicks \in [Completion -> Nat]
      /\ call \in [Context -> {NoCall} \cup [node : Completion, ticks : Nat]]
  BY DEF EmoteInv, OneClient
<1>2. timers \in Table /\ now \in 0..MaxTicks /\ isr \in IsrTimer \cup {NoTimer}
  BY DEF EmoteInv, IInv, TypeOK, Table
<1>3. /\ IsrTimer = {EVENTS} /\ IsrTimer \subseteq Timer /\ NoTimer \notin Timer
      /\ IdleValue \notin Nat /\ PastDelay \in Nat /\ MaxTicks \in Nat
  BY DEF Assumptions, TimerAssumption, EmoteAssumption
<1>. QED BY <1>1, <1>2, <1>3 DEF Context

\* A step that leaves the completion and the events timer alone.
LEMMA ArmedUndisturbed ==
    ASSUME NEW c, ArmedIsMatched(c), UNCHANGED <<completions, eventTicks, now, isr>>,
           call'["isr"] = call["isr"],
           timers'[EVENTS].running = timers[EVENTS].running,
           timers'[EVENTS].match = timers[EVENTS].match
    PROVE  ArmedIsMatched(c)'
BY DEF ArmedIsMatched, Larger

LEMMA ArmedCalls ==
    ASSUME Assumptions, EmoteInv, NEW c, Completion = {c}, ~CallbacksEnqueue,
           ArmedIsMatched(c), NEW x \in Context, CompletionCalls(x)
    PROVE  ArmedIsMatched(c)'
<1>1. c \in Completion
  OBVIOUS
<1>2. ASSUME NEW d \in Delta, EnqueueDelta(x, c, d)
      PROVE  ArmedIsMatched(c)'
  <2>1. x # "isr" /\ call'["isr"] = call["isr"]
    BY <1>2, EmoteFacts DEF EnqueueDelta
  <2>. QED BY <1>2, <2>1, ArmedUndisturbed DEF EnqueueDelta, vars
<1>3. CASE EnqueueTicks(x)
  <2>. DEFINE t == call[x].ticks
  <2>1. /\ call[x] # NoCall /\ call[x].node = c /\ t \in Nat
        /\ c \notin ToSet(completions)
    BY <1>3, EmoteFacts DEF EnqueueTicks, EmoteInv, OneClient, Held
  <2>2. x # "isr" /\ isr = NoTimer
    BY <1>3, <2>1 DEF ArmedIsMatched, EnqueueTicks, Context
  <2>3. completions = <<>> /\ ~timers[EVENTS].running
    BY <2>1, <2>2, EmoteFacts, OneInList DEF ArmedIsMatched
  <2>4. completions' = Inserted(completions, InsertionPoint(completions, t), c)
    BY <1>3, <2>1 DEF EnqueueTicks
  <2>5. completions' \in Seq(Completion) /\ completions' # <<>> /\ NoRepeats(completions')
    <3>. DEFINE p == InsertionPoint(completions, t)
    <3>1. p \in 1..(Len(completions) + 1)
      BY EmoteFacts, DelayedInsertion
    <3>. HIDE DEF p, t
    <3>. QED BY <1>1, <2>1, <2>4, <3>1, EmoteFacts, InsertedProperties DEF p
  <2>6. completions'[1] = c
    BY <2>5, OneInList
  <2>. HIDE DEF t
  <2>7. /\ timers' = CompareTable(timers, t) /\ eventTicks'[c] = t
        /\ now' = now /\ isr' = isr /\ call'["isr"] = call["isr"]
    BY <1>1, <1>3, <2>1, <2>2, <2>6, EmoteFacts
       DEF EnqueueTicks, FirstNode, HAL_Time_SetCompare, t
  <2>8. /\ timers'[EVENTS].running
        /\ timers'[EVENTS].match = now + DelayTo(t)
    <3>1. t \in Nat /\ t # IdleValue /\ timers \in Table /\ now \in Nat
      BY <2>1, EmoteFacts
    <3>2. /\ CompareTable(timers, t)[EVENTS].running
          /\ CompareTable(timers, t)[EVENTS].match = now + DelayTo(t)
      BY <2>3, <3>1, CompareTableIsTable
    <3>. QED BY <2>7, <3>2
  <2>9. /\ DelayTo(t) \in Nat
        /\ DelayTo(t) <= IF t > now THEN t - now ELSE PastDelay
    BY <2>1, EmoteFacts, DelayIsNoLonger
  <2>10. timers'[EVENTS].match <= Larger(eventTicks'[c], now' + PastDelay)
    BY <2>1, <2>7, <2>8, <2>9, EmoteFacts DEF Larger
  <2>. QED BY <2>2, <2>5, <2>6, <2>7, <2>8, <2>10 DEF ArmedIsMatched
<1>4. CASE Abort(x, c)
  <2>1. completions' = <<>> /\ isr' = isr /\ call' = call
    <3>1. completions' = Unlinked(completions, c) /\ isr' = isr /\ call' = call
      BY <1>4 DEF Abort
    <3>. QED BY <3>1, EmoteFacts, OneInList, UnlinkedProperties
  <2>2. isr = NoTimer => ~timers'[EVENTS].running
    <3>1. CASE completions = <<>>
      BY <1>4, <3>1 DEF Abort, ArmedIsMatched
    <3>2. CASE completions # <<>>
      <4>1. completions[1] = c
        BY <3>2 DEF ArmedIsMatched
      <4>2. timers' = CompareTable(timers, IdleValue)
        BY <1>4, <2>1, <3>2, <4>1 DEF Abort, FirstNode, HAL_Time_SetCompare, CompareFor
      <4>. QED BY <4>2, EmoteFacts, CompareTableIsTable
    <3>. QED BY <3>1, <3>2
  <2>. QED BY <2>1, <2>2 DEF ArmedIsMatched
<1>. QED BY <1>2, <1>3, <1>4 DEF CompletionCalls

LEMMA ArmedWait ==
    ASSUME Assumptions, EmoteInv, NEW c, ArmedIsMatched(c),
           NEW d \in Delta, WaitForInterrupts(d)
    PROVE  ArmedIsMatched(c)'
<1>1. /\ UNCHANGED <<now, slots, cbRunning, isr, starting, queue, executing>>
      /\ UNCHANGED <<completions, eventTicks, call>>
  BY DEF WaitForInterrupts, armed
<1>2. CASE timers' = timers
  BY <1>1, <1>2, ArmedUndisturbed
<1>3. CASE timers' # timers
  <2>. DEFINE expire == now + CPU_MicrosecondsToTicks(d)
              compare == CompareFor(completions)
  <2>1. /\ timers' = CompareTable(CompareTable(timers, expire), compare)
        /\ alarm' = IF cbRunning THEN alarm
                    ELSE CompareAlarm(CompareAlarm(alarm, timers, expire),
                                      CompareTable(timers, expire), compare)
    BY <1>3 DEF WaitForInterrupts
  <2>2. expire \in Nat
    <3>1. d \in Nat /\ TicksPerMicrosecond \in Nat
      BY Quotient DEF Assumptions, EmoteAssumption, TicksPerMicrosecond
    <3>2. CPU_MicrosecondsToTicks(d) \in Nat
      BY <3>1, Product DEF CPU_MicrosecondsToTicks
    <3>. QED BY <3>2, EmoteFacts
  <2>3. /\ compare \in Nat \/ compare = IdleValue
        /\ completions = <<>> <=> compare = IdleValue
    BY EmoteFacts, CompareForList
  <2>. HIDE DEF expire, compare
  <2>4. /\ compare = IdleValue => ~timers'[EVENTS].running
        /\ timers[EVENTS].running /\ compare # IdleValue =>
              /\ timers'[EVENTS].running
              /\ timers'[EVENTS].match = timers[EVENTS].match
    BY <1>1, <2>1, <2>2, <2>3, TwoComparesKeep
  <2>. QED BY <1>1, <2>3, <2>4 DEF ArmedIsMatched, Larger
<1>. QED BY <1>2, <1>3

LEMMA ArmedNext ==
    ASSUME Assumptions, EmoteInv, NEW c, Completion = {c}, ~CallbacksEnqueue,
           ArmedIsMatched(c), [EmoteNext]_<<vars, armed>>
    PROVE  ArmedIsMatched(c)'
<1>1. CASE EmoteTick
  <2>1. timers[EVENTS].match \in Nat /\ eventTicks[c] \in Nat
    BY EmoteFacts DEF Table
  <2>2. /\ timers'[EVENTS].running = timers[EVENTS].running
        /\ completions' = completions /\ isr' = isr
        /\ call'["isr"] = NoCall <=> call["isr"] = NoCall
        /\ \/ /\ now' = now + 1 /\ timers'[EVENTS].match = timers[EVENTS].match
              /\ eventTicks'[c] = eventTicks[c]
           \/ /\ now' = now /\ timers'[EVENTS].match = Earlier(timers[EVENTS].match)
              /\ eventTicks'[c] = Earlier(eventTicks[c])
    BY <1>1, EmoteTickKeeps, EmoteFacts
  <2>. QED BY <2>1, <2>2, EmoteFacts DEF ArmedIsMatched, Earlier, Larger
<1>2. CASE DequeueAndExec
  <2>1. completions' = <<>> /\ isr' = EVENTS /\ call' = call
    BY <1>2, EmoteFacts, OneInList DEF DequeueAndExec
  <2>. QED BY <2>1, EmoteFacts DEF ArmedIsMatched
<1>3. CASE ExecuteReturns
  <2>1. /\ completions = <<>> /\ UNCHANGED armed /\ isr' = NoTimer
    BY <1>3 DEF ExecuteReturns, CallbackReturn, ArmedIsMatched
  <2>2. timers'[EVENTS].running = FALSE
    BY <1>3, ReturnStops
  <2>. QED BY <2>1, <2>2 DEF ArmedIsMatched, armed
<1>4. ASSUME NEW x \in Context, CompletionCalls(x)
      PROVE  ArmedIsMatched(c)'
  BY <1>4, ArmedCalls
<1>5. ASSUME NEW d \in Delta, WaitForInterrupts(d)
      PROVE  ArmedIsMatched(c)'
  BY <1>5, ArmedWait
<1>6. ASSUME NEW x \in Context, OtherTimers(x)
      PROVE  ArmedIsMatched(c)'
  <2>1. UNCHANGED <<completions, eventTicks, call, now, isr>>
    BY <1>6 DEF OtherTimers, StartTimerLocked, StartTimer, StopTimer, ChangeTimer,
                SetTimer, armed
  <2>. QED BY <1>6, <2>1, OtherTimersKeep, ArmedUndisturbed
<1>7. CASE OtherCallbacks \/ Continuations \/ UNCHANGED <<vars, armed>>
  <2>1. UNCHANGED <<completions, eventTicks, call, now, isr>>
    BY <1>7 DEF OtherCallbacks, CallbackToQueue, NothingDue, Continuations,
                HAL_CONTINUATION_ExtendedExecute, SetUnUsed, vars, armed
  <2>. QED BY <1>7, <2>1, OthersKeep, ArmedUndisturbed
<1>. QED BY <1>1, <1>2, <1>3, <1>4, <1>5, <1>6, <1>7 DEF EmoteNext

LEMMA ArmedAlways ==
    ASSUME Assumptions, NEW c, Completion = {c}, ~CallbacksEnqueue
    PROVE  EmoteSpec => []ArmedIsMatched(c)
<1>1. EmoteInit => ArmedIsMatched(c)
  <2>1. EVENTS \in Timer
    BY DEF Assumptions, TimerAssumption, EmoteAssumption
  <2>. QED BY <2>1 DEF EmoteInit, Unset, ArmedIsMatched, Context
<1>2. EmoteInv /\ ArmedIsMatched(c) /\ [EmoteNext]_<<vars, armed>> => ArmedIsMatched(c)'
  BY ArmedNext
<1>. QED BY <1>1, <1>2, EmoteInvAlways, PTL DEF EmoteSpec

\* With one completion, whose callback does not enqueue it again, the head of
\* the list never waits without the events timer running for it, to match no
\* later than it is due: the value given to HAL_Time_SetCompare is not lost
\* in a timer that still runs, nor with the end of the callback, and the way
\* through microseconds in 32 bits makes no delay longer.
THEOREM OneHeadHasTimer ==
    ASSUME Assumptions, NEW c, Completion = {c}, ~CallbacksEnqueue
    PROVE  EmoteSpec => []HeadHasTimer
<1>1. ArmedIsMatched(c) => HeadHasTimer
  BY DEF ArmedIsMatched, HeadHasTimer, FirstNode
<1>. QED BY <1>1, ArmedAlways, PTL
=============================================================================
