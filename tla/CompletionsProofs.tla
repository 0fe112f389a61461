------------------------- MODULE CompletionsProofs --------------------------
(***************************************************************************)
(* Completions, for every number of completions, every clock and compare   *)
(* range: the lists are well formed, the head is never forgotten, and, with *)
(* clients that do not enqueue a linked completion, the promise of         *)
(* TimerService is kept.                                                   *)
(***************************************************************************)
EXTENDS Completions, LinkedListLemmas

USE CompletionAssumption

\* Unlinking, in the form the steps below use it.
LEMMA UnlinkedCompletion ==
    ASSUME NEW list \in Seq(Completion), NoRepeats(list), NEW c
    PROVE  /\ Unlinked(list, c) \in Seq(Completion)
           /\ NoRepeats(Unlinked(list, c))
           /\ ToSet(Unlinked(list, c)) = ToSet(list) \ {c}
BY UnlinkedProperties

\* The walk of EnqueueTicks stops inside the list, or at its end.
LEMMA InsertionPointType ==
    ASSUME NEW list \in Seq(Completion), NEW ticks, NEW t,
           NEW p, p = InsertionPoint(list, ticks, t)
    PROVE  /\ p \in 1..(Len(list) + 1)
           /\ \A i \in DOMAIN list : i < p => ~(t < ticks[list[i]])
           /\ p \in DOMAIN list => t < ticks[list[p]]
<1>. DEFINE later == {i \in DOMAIN list : t < ticks[list[i]]}
<1>1. Len(list) \in Nat /\ DOMAIN list = 1..Len(list)
  BY LenProperties
<1>2. CASE later = {}
  <2>1. p = Len(list) + 1
    BY <1>2 DEF InsertionPoint
  <2>. QED BY <1>1, <1>2, <2>1
<1>3. CASE later # {}
  <2>1. p = CHOOSE i \in later : \A j \in later : i <= j
    BY <1>3 DEF InsertionPoint
  <2>2. \E i \in later : \A j \in later : i <= j
    <3>1. later \subseteq Nat
      BY <1>1
    <3>. HIDE DEF later
    <3>. QED BY <1>3, <3>1, LeastNat
  <2>3. p \in later /\ \A j \in later : p <= j
    <3>. HIDE DEF later
    <3>. QED BY <2>1, <2>2
  <2>. QED BY <1>1, <2>3
<1>. QED BY <1>2, <1>3

\* EnqueueTicks leaves the list of completions well formed.
LEMMA EnqueuedList ==
    ASSUME TypeOK, NodeInOneList, NEW c \in Completion, NEW t,
           NEW others, others = Unlinked(completions, c),
           NEW list,
           list = Inserted(others, InsertionPoint(others, eventTicks, t), c)
    PROVE  /\ list \in Seq(Completion) /\ list # <<>>
           /\ NoRepeats(list)
           /\ ToSet(list) = ToSet(completions) \cup {c}
<1>1. /\ others \in Seq(Completion) /\ NoRepeats(others)
      /\ ToSet(others) = ToSet(completions) \ {c}
  BY UnlinkedCompletion DEF TypeOK, NodeInOneList
<1>. DEFINE p == InsertionPoint(others, eventTicks, t)
<1>2. p \in 1..(Len(others) + 1)
  BY <1>1, InsertionPointType
<1>3. list = Inserted(others, p, c)
  OBVIOUS
<1>. HIDE DEF p
<1>4. /\ list \in Seq(Completion) /\ list # <<>> /\ NoRepeats(list)
      /\ ToSet(list) = ToSet(others) \cup {c}
  BY <1>1, <1>2, <1>3, InsertedProperties
<1>. QED BY <1>1, <1>4

-----------------------------------------------------------------------------
\* The lists and the types stay well formed; an interrupt never runs inside
\* a locked section, and a call belongs to a context that may be making it.
ContextsOK ==
    /\ pc \in Masked => isr = Nobody
    /\ call["isr"] # NoCall => isr # Nobody
    /\ call["thread"] # NoCall => pc \in {"app", "activity", "callback"}

Lists == TypeOK /\ NodeInOneList

\* Both lists start empty, and nobody is in a call.
LEMMA ListsInit == Init => Lists /\ ContextsOK
<1>. SUFFICES ASSUME Init PROVE Lists /\ ContextsOK
  OBVIOUS
<1>1. TypeOK
  <2>1. /\ now \in 0..MaxTicks /\ nextEvent \in Nat /\ expire \in 0..MaxTicks
        /\ eventTicks \in [Completion -> 0..MaxTicks]
    BY DEF Init
  <2>2. completions \in Seq(Completion) /\ continuations \in Seq(Completion)
    BY EmptySeq DEF Init
  <2>3. /\ pending \in BOOLEAN /\ runContinuations \in BOOLEAN
        /\ noContinuations \in BOOLEAN
    BY DEF Init
  <2>4. pc \in Place
    BY DEF Init, Place, Waiting, Masked
  <2>5. /\ call \in [Context -> [node : Completion, ticks : 0..MaxTicks]
                                   \cup {NoCall}]
        /\ systemEvents \subseteq Event /\ wakeup \in SUBSET Event
        /\ isr \in IsrCompletion \cup {Nobody}
    BY DEF Init
  <2>. QED BY <2>1, <2>2, <2>3, <2>4, <2>5 DEF TypeOK
<1>2. NodeInOneList
  BY DEF Init, NodeInOneList, NoRepeats, ToSet
<1>3. ContextsOK
  BY DEF Init, ContextsOK, Masked, Context
<1>. QED BY <1>1, <1>2, <1>3 DEF Lists

\* A step of the thread changes none of the lists but the continuations, of
\* which it takes at most the first.
LEMMA ThreadStep ==
    ASSUME Lists, ContextsOK, NEW from \in Place, NEW to \in Place,
           ThreadMoves(from, to),
           completions' = completions,
           continuations' \in {continuations, Tail(continuations)},
           nextEvent' \in Nat, pending' \in BOOLEAN,
           expire' \in 0..MaxTicks, wakeup' \in SUBSET Event,
           runContinuations' \in BOOLEAN, noContinuations' \in BOOLEAN
    PROVE  Lists' /\ ContextsOK'
<1>1. /\ continuations' \in Seq(Completion) /\ NoRepeats(continuations')
      /\ ToSet(continuations') \subseteq ToSet(continuations)
  <2>1. CASE continuations' = continuations
    BY <2>1 DEF Lists, TypeOK, NodeInOneList
  <2>2. CASE continuations = <<>> /\ continuations' = Tail(continuations)
    <3>1. continuations' = continuations
      BY <2>2
    <3>. QED BY <2>1, <3>1
  <2>3. CASE continuations # <<>> /\ continuations' = Tail(continuations)
    BY <2>3, TailProperties DEF Lists, TypeOK, NodeInOneList
  <2>. QED BY <2>1, <2>2, <2>3
<1>2. NodeInOneList'
  BY <1>1 DEF Lists, NodeInOneList
<1>3. TypeOK'
  BY <1>1 DEF Lists, TypeOK, ThreadMoves
<1>4. ContextsOK'
  BY DEF ContextsOK, ThreadMoves
<1>. QED BY <1>2, <1>3, <1>4 DEF Lists

\* Every step keeps the lists well linked: the calls that link a node take it
\* out of its place first, the others only remove nodes or leave the lists.
LEMMA ListsNext == Lists /\ ContextsOK /\ [Next]_vars => Lists' /\ ContextsOK'
<1>. SUFFICES ASSUME Lists, ContextsOK, [Next]_vars PROVE Lists' /\ ContextsOK'
  OBVIOUS
<1>. USE DEF Lists
<1>1. CASE Tick
  <2>1. now' \in 0..MaxTicks /\ pending' \in BOOLEAN
    BY <1>1 DEF Tick, TypeOK
  <2>. QED BY <1>1, <2>1
          DEF Tick, TypeOK, NodeInOneList, ContextsOK, wait
<1>2. ASSUME NEW x \in Context, NEW c \in Completion, NEW d \in Delta,
             EnqueueDelta(x, c, d)
      PROVE  Lists' /\ ContextsOK'
  <2>1. [node |-> c, ticks |-> now + d] \in [node : Completion, ticks : 0..MaxTicks]
    BY <1>2 DEF EnqueueDelta, TypeOK
  <2>2. call' \in [Context -> [node : Completion, ticks : 0..MaxTicks] \cup {NoCall}]
    BY <1>2, <2>1 DEF EnqueueDelta, TypeOK
  <2>3. TypeOK'
    BY <1>2, <2>2 DEF EnqueueDelta, TypeOK, wait, driver
  <2>4. NodeInOneList'
    BY <1>2 DEF EnqueueDelta, NodeInOneList
  <2>5. ContextsOK'
    BY <1>2 DEF EnqueueDelta, ContextsOK, MayCall, TypeOK, Context
  <2>. QED BY <2>3, <2>4, <2>5
<1>3. ASSUME NEW x \in Context, EnqueueTicks(x)
      PROVE  Lists' /\ ContextsOK'
  <2>. DEFINE c == call[x].node
              t == call[x].ticks
              others == Unlinked(completions, c)
              list == Inserted(others, InsertionPoint(others, eventTicks, t), c)
  <2>1. c \in Completion /\ t \in 0..MaxTicks
    BY <1>3 DEF EnqueueTicks, TypeOK
  <2>2. /\ eventTicks' = [eventTicks EXCEPT ![c] = t]
        /\ completions' = list
        /\ continuations' = Unlinked(continuations, c)
        /\ \/ nextEvent' = t /\ pending' = (pending \/ now >= t)
           \/ nextEvent' = nextEvent /\ pending' = pending
        /\ call' = [call EXCEPT ![x] = NoCall]
        /\ UNCHANGED <<now, systemEvents, isr, pc, wait>>
    BY <1>3 DEF EnqueueTicks, HAL_Time_SetCompare, driver
  <2>3. /\ list \in Seq(Completion) /\ NoRepeats(list)
        /\ ToSet(list) = ToSet(completions) \cup {c}
    BY <2>1, EnqueuedList
  <2>4. /\ continuations' \in Seq(Completion) /\ NoRepeats(continuations')
        /\ ToSet(continuations') = ToSet(continuations) \ {c}
    BY <2>2, UnlinkedCompletion DEF TypeOK, NodeInOneList
  <2>. HIDE DEF list, c, t
  <2>5. nextEvent' \in Nat /\ pending' \in BOOLEAN
    <3>1. pending \in BOOLEAN /\ nextEvent \in Nat /\ t \in Nat
      BY <2>1 DEF TypeOK
    <3>2. pending' \in BOOLEAN
      BY <2>2, <3>1, Zenon
    <3>3. nextEvent' \in Nat
      BY <2>2, <3>1, Zenon
    <3>. QED BY <3>2, <3>3
  <2>6. TypeOK'
    BY <2>1, <2>2, <2>3, <2>4, <2>5 DEF TypeOK, wait
  <2>7. NodeInOneList'
    BY <2>2, <2>3, <2>4 DEF NodeInOneList
  <2>8. ContextsOK'
    BY <2>2 DEF ContextsOK, TypeOK, Context
  <2>. QED BY <2>6, <2>7, <2>8
<1>4. ASSUME NEW x \in Context, NEW c \in Completion, Abort(x, c)
      PROVE  Lists' /\ ContextsOK'
  <2>1. /\ completions' \in Seq(Completion) /\ NoRepeats(completions')
        /\ ToSet(completions') = ToSet(completions) \ {c}
        /\ continuations' \in Seq(Completion) /\ NoRepeats(continuations')
        /\ ToSet(continuations') = ToSet(continuations) \ {c}
    BY <1>4, UnlinkedCompletion DEF Abort, TypeOK, NodeInOneList
  <2>2. CompareFor(completions', eventTicks) \in Nat
    <3>1. completions' # <<>> => completions'[1] \in Completion
      BY <2>1, TailProperties
    <3>. QED BY <3>1 DEF CompareFor, FirstNode, TypeOK
  <2>3. \/ /\ nextEvent' = CompareFor(completions', eventTicks)
           /\ pending' = (pending \/ now >= nextEvent')
        \/ nextEvent' = nextEvent /\ pending' = pending
    BY <1>4 DEF Abort, HAL_Time_SetCompare, driver
  <2>4. nextEvent' \in Nat /\ pending' \in BOOLEAN
    <3>1. pending \in BOOLEAN /\ nextEvent \in Nat
      BY DEF TypeOK
    <3>2. pending' \in BOOLEAN
      BY <2>3, <3>1, Zenon
    <3>3. nextEvent' \in Nat
      BY <2>2, <2>3, <3>1, Zenon
    <3>. QED BY <3>2, <3>3
  <2>. QED BY <1>4, <2>1, <2>4 DEF Abort, TypeOK, NodeInOneList, ContextsOK, wait
<1>5. ASSUME NEW x \in Context, NEW e \in Event, Events_Set(x, e)
      PROVE  Lists' /\ ContextsOK'
  BY <1>5 DEF Events_Set, TypeOK, NodeInOneList, ContextsOK, wait, driver
<1>6. ASSUME NEW events \in WakeupSets, Events_Get(events)
      PROVE  Lists' /\ ContextsOK'
  BY <1>6 DEF Events_Get, TypeOK, NodeInOneList, ContextsOK, wait, driver
<1>7. CASE Timer_Interrupt
  <2>1. CASE now >= nextEvent /\ completions # <<>>
    <3>. DEFINE c == completions[1]
    <3>1. /\ completions' = Tail(completions)
          /\ completions' \in Seq(Completion) /\ NoRepeats(completions')
          /\ ToSet(completions') = ToSet(completions) \ {c}
          /\ c \in ToSet(completions) /\ c \in Completion
      <4>1. completions \in Seq(Completion) /\ NoRepeats(completions)
        BY DEF TypeOK, NodeInOneList
      <4>2. completions' = Tail(completions)
        BY <1>7, <2>1 DEF Timer_Interrupt
      <4>. QED BY <2>1, <4>1, <4>2, TailProperties
    <3>2. CompareFor(completions', eventTicks) \in Nat
      <4>1. completions' # <<>> => completions'[1] \in Completion
        BY <3>1, TailProperties
      <4>. QED BY <4>1 DEF CompareFor, FirstNode, TypeOK
    <3>3. nextEvent' \in Nat /\ pending' \in BOOLEAN
      BY <1>7, <2>1, <3>2 DEF Timer_Interrupt
    <3>4. systemEvents' \subseteq Event
      BY <1>7, <2>1 DEF Timer_Interrupt, TypeOK
    <3>5. /\ isr' \in IsrCompletion \cup {Nobody}
          /\ continuations' \in Seq(Completion) /\ NoRepeats(continuations')
          /\ ToSet(continuations') \cap ToSet(completions') = {}
          /\ ToSet(continuations') \cap IsrCompletion = {}
      <4>1. CASE c \in IsrCompletion
        BY <1>7, <2>1, <3>1, <4>1
           DEF Timer_Interrupt, FirstNode, TypeOK, NodeInOneList
      <4>2. CASE c \notin IsrCompletion
        <5>1. continuations' = LinkedAtBack(continuations, c) /\ isr' = isr
          BY <1>7, <2>1, <4>2 DEF Timer_Interrupt, FirstNode
        <5>2. continuations \in Seq(Completion) /\ NoRepeats(continuations)
          BY DEF TypeOK, NodeInOneList
        <5>3. c \in Completion
          BY <3>1
        <5>. HIDE DEF c
        <5>4. /\ continuations' \in Seq(Completion) /\ NoRepeats(continuations')
              /\ ToSet(continuations') = ToSet(continuations) \cup {c}
          BY <5>1, <5>2, <5>3, LinkedAtBackProperties
        <5>. QED BY <3>1, <4>2, <5>1, <5>4 DEF TypeOK, NodeInOneList
      <4>. QED BY <4>1, <4>2
    <3>6. UNCHANGED <<now, eventTicks, call, pc, wait>>
      BY <1>7 DEF Timer_Interrupt
    <3>7. TypeOK'
      BY <3>1, <3>3, <3>4, <3>5, <3>6 DEF TypeOK, wait
    <3>8. NodeInOneList'
      BY <3>1, <3>5 DEF NodeInOneList
    <3>9. ContextsOK'
      BY <1>7, <3>6 DEF ContextsOK, Timer_Interrupt
    <3>. QED BY <3>7, <3>8, <3>9
  <2>2. CASE ~(now >= nextEvent /\ completions # <<>>)
    BY <1>7, <2>2 DEF Timer_Interrupt, TypeOK, NodeInOneList, ContextsOK, wait
  <2>. QED BY <2>1, <2>2
<1>8. CASE InterruptReturn
  BY <1>8 DEF InterruptReturn, TypeOK, NodeInOneList, ContextsOK, wait, driver
<1>9. CASE Thread
  <2>. USE DEF Place, Waiting, Masked
  <2>1. CASE ProcessActivity
    BY <2>1, ThreadStep DEF ProcessActivity, driver, wait, TypeOK
  <2>2. CASE ActivityReturn
    BY <2>2, ThreadStep DEF ActivityReturn, driver, wait, TypeOK
  <2>3. ASSUME NEW events \in WakeupSets, NEW t \in Timeout, NEW i \in BOOLEAN,
               WaitForEvents(events, t, i)
        PROVE  Lists' /\ ContextsOK'
    <3>1. expire' \in 0..MaxTicks
      BY <2>3 DEF WaitForEvents, TypeOK
    <3>. QED BY <2>3, <3>1, ThreadStep DEF WaitForEvents, driver, TypeOK
  <2>4. CASE ReturnFromWait
    BY <2>4, ThreadStep DEF ReturnFromWait, driver, TypeOK
  <2>5. CASE ReleaseForContinuation
    BY <2>5, ThreadStep DEF ReleaseForContinuation, driver, wait, TypeOK
  <2>6. CASE Dequeue_And_Execute
    <3>. DEFINE to == IF continuations = <<>> THEN "relock" ELSE "callback"
    <3>1. ThreadMoves("unlocked", to)
      BY <2>6 DEF Dequeue_And_Execute
    <3>2. to \in Place
      OBVIOUS
    <3>3. continuations' \in {continuations, Tail(continuations)}
      BY <2>6 DEF Dequeue_And_Execute
    <3>. HIDE DEF to
    <3>. QED BY <2>6, <3>1, <3>2, <3>3, ThreadStep
            DEF Dequeue_And_Execute, driver, TypeOK
  <2>7. CASE CallbackReturn
    BY <2>7, ThreadStep DEF CallbackReturn, driver, wait, TypeOK
  <2>8. CASE Relock
    BY <2>8, ThreadStep DEF Relock, driver, wait, TypeOK
  <2>9. CASE Stall
    BY <2>9, ThreadStep DEF Stall, driver, TypeOK
  <2>10. CASE SetCompareToExpire
    <3>1. \/ nextEvent' = expire /\ pending' = (pending \/ now >= expire)
          \/ nextEvent' = nextEvent /\ pending' = pending
      BY <2>10 DEF SetCompareToExpire, HAL_Time_SetCompare, driver
    <3>2. pending \in BOOLEAN /\ nextEvent \in Nat /\ expire \in Nat
      BY DEF TypeOK
    <3>3. pending' \in BOOLEAN
      BY <3>1, <3>2, Zenon
    <3>4. nextEvent' \in Nat
      BY <3>1, <3>2, Zenon
    <3>. QED BY <2>10, <3>3, <3>4, ThreadStep DEF SetCompareToExpire, wait, TypeOK
  <2>11. CASE ResetCompare
    <3>1. CompareFor(completions, eventTicks) \in Nat
      <4>1. completions # <<>> => completions[1] \in Completion
        BY TailProperties DEF TypeOK, NodeInOneList
      <4>. QED BY <4>1 DEF CompareFor, FirstNode, TypeOK
    <3>2. \/ /\ nextEvent' = CompareFor(completions, eventTicks)
             /\ pending' = (pending \/ now >= nextEvent')
          \/ nextEvent' = nextEvent /\ pending' = pending
      BY <2>11 DEF ResetCompare, HAL_Time_SetCompare, driver
    <3>3. nextEvent' \in Nat /\ pending' \in BOOLEAN
      <4>1. pending \in BOOLEAN /\ nextEvent \in Nat
        BY DEF TypeOK
      <4>2. pending' \in BOOLEAN
        BY <3>2, <4>1, Zenon
      <4>3. nextEvent' \in Nat
        BY <3>1, <3>2, <4>1, Zenon
      <4>. QED BY <4>2, <4>3
    <3>. QED BY <2>11, <3>3, ThreadStep DEF ResetCompare, wait, TypeOK
  <2>12. CASE Probe
    BY <2>12, ThreadStep DEF Probe, driver, wait, TypeOK
  <2>. QED BY <1>9, <2>1, <2>2, <2>3, <2>4, <2>5, <2>6, <2>7, <2>8, <2>9,
              <2>10, <2>11, <2>12 DEF Thread, WaitLoop
<1>10. CASE UNCHANGED vars
  BY <1>10 DEF vars, wait, driver, TypeOK, NodeInOneList, ContextsOK
<1>. QED BY <1>1, <1>2, <1>3, <1>4, <1>5, <1>6, <1>7, <1>8, <1>9, <1>10
        DEF Next, Calls, Interrupt

\* The two invariants above hold of every behaviour.
LEMMA ListsAlways == Spec => [](Lists /\ ContextsOK)
BY ListsInit, ListsNext, PTL DEF Spec

\* Every variable keeps its type: nothing but completions is ever linked,
\* and an interrupt runs only the callbacks set up for interrupts.
THEOREM TypeCorrect == Spec => []TypeOK
BY ListsAlways, PTL DEF Lists

\* A completion is never in two lists, or twice in one, whoever enqueues,
\* aborts, fires or runs it, in whatever order.
THEOREM NodesWellLinked == Spec => []NodeInOneList
BY ListsAlways, PTL DEF Lists

-----------------------------------------------------------------------------
(***************************************************************************)
(* The order of the list, and the compare register.                        *)
(***************************************************************************)

\* A list in order stays so when a node leaves it.
LEMMA UnlinkedInOrder ==
    ASSUME NEW list \in Seq(Completion), NoRepeats(list), NEW ticks,
           InOrder(list, ticks), NEW c
    PROVE  InOrder(Unlinked(list, c), ticks)
<1>. DEFINE out == Unlinked(list, c)
<1>1. \A i, j \in DOMAIN out : i < j =>
         \E k, l \in DOMAIN list : k < l /\ out[i] = list[k] /\ out[j] = list[l]
  BY UnlinkedProperties
<1>. HIDE DEF out
<1>2. InOrder(out, ticks)
  BY <1>1 DEF InOrder
<1>. QED BY <1>2 DEF out

\* No node is due before the head.
LEMMA HeadIsFirst ==
    ASSUME NEW list \in Seq(Completion), NEW ticks \in [Completion -> Nat],
           InOrder(list, ticks), NEW c \in ToSet(list)
    PROVE  list # <<>> /\ list[1] \in Completion /\ ticks[list[1]] <= ticks[c]
<1>1. Len(list) \in Nat /\ DOMAIN list = 1..Len(list)
  BY LenProperties
<1>2. PICK i \in 1..Len(list) : list[i] = c
  BY <1>1 DEF ToSet
<1>3. 1 \in 1..Len(list) /\ list # <<>>
  BY <1>1, <1>2, EmptySeq
<1>4. list[1] \in Completion /\ list[i] \in Completion
  BY <1>2, <1>3, ElementOfSeq
<1>5. CASE i = 1
  BY <1>2, <1>3, <1>4, <1>5
<1>6. CASE 1 < i
  BY <1>1, <1>2, <1>3, <1>4, <1>6 DEF InOrder
<1>. QED BY <1>1, <1>2, <1>5, <1>6

\* The head of a list after an insertion.
LEMMA InsertedHead ==
    ASSUME NEW list \in Seq(Completion), NEW c \in Completion,
           NEW p \in 1..(Len(list) + 1), NEW new, new = Inserted(list, p, c)
    PROVE  new[1] = c \/ (list # <<>> /\ new[1] = list[1])
<1>1. Len(list) \in Nat /\ (list = <<>> <=> Len(list) = 0)
  BY LenProperties, EmptySeq
<1>2. \A i \in 1..(Len(list) + 1) :
          InsertAt(list, p, c)[i] =
             IF i < p THEN list[i] ELSE IF i = p THEN c ELSE list[i-1]
  BY InsertAtProperties
<1>3. new[1] = IF 1 < p THEN list[1] ELSE IF 1 = p THEN c ELSE list[1-1]
  BY <1>1, <1>2 DEF Inserted
<1>. QED BY <1>1, <1>3

\* Where the walk stops, the list stays in order.
LEMMA InsertedInOrder ==
    ASSUME NEW list \in Seq(Completion), NEW ticks \in [Completion -> Nat],
           InOrder(list, ticks), NEW c \in Completion, c \notin ToSet(list),
           NEW t \in Nat, NEW p, p = InsertionPoint(list, ticks, t),
           NEW new, new = Inserted(list, p, c),
           NEW late, late = [ticks EXCEPT ![c] = t]
    PROVE  InOrder(new, late)
<1>1. /\ Len(list) \in Nat /\ DOMAIN list = 1..Len(list)
      /\ list = <<>> <=> Len(list) = 0
  BY LenProperties, EmptySeq
<1>2. /\ p \in 1..(Len(list) + 1)
      /\ \A i \in 1..Len(list) : i < p => ~(t < ticks[list[i]])
      /\ p \in 1..Len(list) => t < ticks[list[p]]
  BY <1>1, InsertionPointType
<1>3. /\ new \in Seq(Completion) /\ Len(new) = Len(list) + 1
      /\ \A i \in 1..(Len(list) + 1) :
            new[i] = IF i < p THEN list[i] ELSE IF i = p THEN c ELSE list[i-1]
  <2>1. new = InsertAt(list, p, c)
    BY DEF Inserted
  <2>2. p \in 1..(Len(list) + 1) /\ list \in Seq(Completion) /\ c \in Completion
    BY <1>2
  <2>3. /\ InsertAt(list, p, c) \in Seq(Completion)
        /\ Len(InsertAt(list, p, c)) = Len(list) + 1
        /\ \A i \in 1..(Len(list) + 1) :
              InsertAt(list, p, c)[i] =
                 IF i < p THEN list[i] ELSE IF i = p THEN c ELSE list[i-1]
    <3>1. /\ InsertAt(list, p, c) \in Seq(Completion)
          /\ Len(InsertAt(list, p, c)) = Len(list) + 1
      BY ONLY <2>2, InsertAtProperties
    <3>2. \A i \in 1..(Len(list) + 1) :
              InsertAt(list, p, c)[i] =
                 IF i < p THEN list[i] ELSE IF i = p THEN c ELSE list[i-1]
      BY ONLY <2>2, InsertAtProperties
    <3>. QED BY ONLY <3>1, <3>2
  <2>. QED BY ONLY <2>1, <2>3
<1>4. DOMAIN new = 1..(Len(list) + 1)
  BY <1>3, LenProperties
<1>5. \A i \in 1..Len(list) : /\ list[i] \in Completion /\ list[i] # c
                              /\ late[list[i]] = ticks[list[i]]
                              /\ ticks[list[i]] \in Nat
  BY <1>1, ElementOfSeq DEF ToSet
<1>6. late[c] = t
  OBVIOUS
<1>7. ASSUME NEW i \in 1..Len(list), p <= i
      PROVE  t < ticks[list[i]]
  <2>1. CASE i = p
    BY <1>2, <2>1
  <2>2. CASE p < i
    <3>1. p \in 1..Len(list)
      BY <1>1, <1>2, <2>2
    <3>2. ticks[list[p]] <= ticks[list[i]]
      BY <1>1, <2>2, <3>1 DEF InOrder
    <3>. QED BY <1>2, <1>5, <3>1, <3>2
  <2>. QED BY <1>1, <1>2, <1>7, <2>1, <2>2
<1>8. ASSUME NEW i \in 1..(Len(list) + 1), NEW j \in 1..(Len(list) + 1), i < j
      PROVE  late[new[i]] <= late[new[j]]
  <2>1. CASE j < p
    <3>1. /\ i \in 1..Len(list) /\ j \in 1..Len(list)
          /\ new[i] = list[i] /\ new[j] = list[j]
      BY <1>1, <1>2, <1>3, <1>8, <2>1
    <3>. QED BY <1>1, <1>5, <1>8, <3>1 DEF InOrder
  <2>2. CASE j = p
    <3>1. i \in 1..Len(list) /\ i < p /\ new[i] = list[i] /\ new[j] = c
      BY <1>1, <1>2, <1>3, <1>8, <2>2
    <3>. QED BY <1>2, <1>5, <1>6, <3>1
  <2>3. CASE i < p /\ p < j
    <3>1. /\ i \in 1..Len(list) /\ j - 1 \in 1..Len(list) /\ i < j - 1
          /\ new[i] = list[i] /\ new[j] = list[j - 1]
      BY <1>1, <1>2, <1>3, <1>8, <2>3
    <3>2. ticks[list[i]] <= ticks[list[j - 1]]
      BY <1>1, <3>1 DEF InOrder
    <3>. QED BY <1>5, <3>1, <3>2
  <2>4. CASE i = p
    <3>1. j - 1 \in 1..Len(list) /\ p <= j - 1 /\ new[i] = c /\ new[j] = list[j - 1]
      BY <1>1, <1>2, <1>3, <1>8, <2>4
    <3>2. t < ticks[list[j - 1]] /\ late[list[j - 1]] = ticks[list[j - 1]]
      BY <1>5, <1>7, <3>1
    <3>3. late[new[i]] = t /\ late[new[j]] = ticks[list[j - 1]]
      BY <1>6, <3>1, <3>2
    <3>. QED BY <1>5, <3>1, <3>2, <3>3
  <2>5. CASE p < i
    <3>1. /\ i - 1 \in 1..Len(list) /\ j - 1 \in 1..Len(list) /\ i - 1 < j - 1
          /\ new[i] = list[i - 1] /\ new[j] = list[j - 1]
      <4>1. p < j /\ i \in Nat /\ j \in Nat /\ p \in Nat /\ 1 <= p
        BY <1>1, <1>2, <1>8, <2>5
      <4>2. new[i] = list[i - 1] /\ new[j] = list[j - 1]
        BY <1>3, <2>5, <4>1
      <4>. QED BY <1>1, <1>8, <2>5, <4>1, <4>2
    <3>2. ticks[list[i - 1]] <= ticks[list[j - 1]]
      BY <1>1, <3>1 DEF InOrder
    <3>. QED BY <1>5, <3>1, <3>2
  <2>. QED BY <1>1, <1>2, <1>8, <2>1, <2>2, <2>3, <2>4, <2>5
<1>9. InOrder(new, late)
  BY <1>4, <1>8 DEF InOrder
<1>. QED BY <1>9

Order == SortedByDueTime /\ HeadIsArmed

\* A step that leaves the driver alone keeps the head armed as long as the
\* new head is due no earlier than something that was linked.
LEMMA HeadStaysArmed ==
    ASSUME Lists, Order, UNCHANGED <<now, driver>>,
           completions' # <<>> =>
               \E c \in ToSet(completions) :
                   eventTicks'[completions'[1]] = eventTicks[c]
    PROVE  HeadIsArmed'
<1>. SUFFICES ASSUME completions' # <<>> PROVE HeadIsArmed'
  BY DEF HeadIsArmed
<1>1. PICK c \in ToSet(completions) :
          eventTicks'[completions'[1]] = eventTicks[c]
  OBVIOUS
<1>2. completions \in Seq(Completion) /\ eventTicks \in [Completion -> Nat]
  BY DEF Lists, TypeOK
<1>3. InOrder(completions, eventTicks)
  BY DEF Order, SortedByDueTime
<1>4. /\ completions # <<>> /\ completions[1] \in Completion
      /\ eventTicks[completions[1]] <= eventTicks[c]
  BY <1>2, <1>3, HeadIsFirst
<1>5. c \in Completion
  BY <1>2, ElementOfSeq, LenProperties DEF ToSet
<1>6. nextEvent <= eventTicks[completions[1]] /\ (now >= nextEvent => pending)
  BY <1>4 DEF Order, HeadIsArmed, FirstNode
<1>7. /\ nextEvent \in Nat /\ eventTicks[c] \in Nat
      /\ eventTicks[completions[1]] \in Nat
  BY <1>2, <1>4, <1>5 DEF Lists, TypeOK
<1>8. nextEvent' <= eventTicks'[completions'[1]]
  BY <1>1, <1>4, <1>6, <1>7 DEF driver
<1>9. now' >= nextEvent' => pending'
  BY <1>6 DEF driver
<1>. QED BY <1>8, <1>9 DEF HeadIsArmed, FirstNode

\* Every step keeps the list in order and its head armed.
LEMMA OrderNext ==
    Lists /\ Lists' /\ ContextsOK /\ Order /\ [Next]_vars => Order'
<1>. SUFFICES ASSUME Lists, Lists', ContextsOK, Order, [Next]_vars PROVE Order'
  OBVIOUS
<1>a. /\ completions \in Seq(Completion) /\ NoRepeats(completions)
      /\ eventTicks \in [Completion -> Nat]
      /\ InOrder(completions, eventTicks)
      /\ now \in Nat /\ nextEvent \in Nat
  BY DEF Lists, TypeOK, NodeInOneList, Order, SortedByDueTime
<1>b. completions # <<>> => completions[1] \in ToSet(completions)
  BY <1>a, TailProperties
<1>c. completions' # <<>> => eventTicks'[completions'[1]] \in Nat
  <2>1. /\ completions' \in Seq(Completion) /\ NoRepeats(completions')
        /\ eventTicks' \in [Completion -> 0..MaxTicks]
    BY DEF Lists, TypeOK, NodeInOneList
  <2>2. completions' # <<>> => completions'[1] \in Completion
    BY <2>1, TailProperties
  <2>. QED BY <2>1, <2>2
<1>d. ASSUME UNCHANGED <<now, driver, completions, eventTicks>>
      PROVE  Order'
  BY <1>d DEF Order, SortedByDueTime, HeadIsArmed, driver
<1>e. ASSUME now' = now, nextEvent' \in Nat, now >= nextEvent' => pending',
             completions' # <<>> => nextEvent' <= eventTicks'[completions'[1]]
      PROVE  HeadIsArmed'
  BY <1>e DEF HeadIsArmed, FirstNode
<1>1. CASE Tick
  <2>1. SortedByDueTime'
    BY <1>1 DEF Tick, Order, SortedByDueTime
  <2>2. completions # <<>> =>
            /\ nextEvent <= eventTicks[completions[1]]
            /\ now >= nextEvent => pending
    BY DEF Order, HeadIsArmed, FirstNode
  <2>3. now + 1 >= nextEvent => now >= nextEvent \/ now + 1 = nextEvent
    BY <1>a
  <2>4. /\ now' = now + 1 /\ nextEvent' = nextEvent
        /\ completions' = completions /\ eventTicks' = eventTicks
        /\ pending' = (pending \/ now' % CompareRange = nextEvent % CompareRange)
    BY <1>1 DEF Tick
  <2>5. completions' # <<>> /\ now' >= nextEvent' => pending'
    BY <2>2, <2>3, <2>4
  <2>. QED BY <2>1, <2>2, <2>4, <2>5 DEF Order, HeadIsArmed, FirstNode
<1>2. ASSUME NEW x \in Context, NEW c \in Completion, NEW d \in Delta,
             EnqueueDelta(x, c, d)
      PROVE  Order'
  BY <1>2, <1>d DEF EnqueueDelta
<1>3. ASSUME NEW x \in Context, EnqueueTicks(x)
      PROVE  Order'
  <2>1. PICK c \in Completion, t \in Nat : c = call[x].node /\ t = call[x].ticks
    BY <1>3 DEF EnqueueTicks, Lists, TypeOK
  <2>a. PICK others : others = Unlinked(completions, c)
    OBVIOUS
  <2>b. PICK p : p = InsertionPoint(others, eventTicks, t)
    OBVIOUS
  <2>c. PICK list : list = Inserted(others, p, c)
    OBVIOUS
  <2>d. PICK late : late = [eventTicks EXCEPT ![c] = t]
    OBVIOUS
  <2>2. /\ eventTicks' = late /\ completions' = list
        /\ IF list[1] = c THEN HAL_Time_SetCompare(t) ELSE UNCHANGED driver
        /\ UNCHANGED now
    BY <1>3, <2>1, <2>a, <2>b, <2>c, <2>d DEF EnqueueTicks, FirstNode
  <2>3. /\ others \in Seq(Completion)
        /\ ToSet(others) = ToSet(completions) \ {c}
        /\ NoRepeats(others)
    BY <1>a, <2>a, UnlinkedCompletion
  <2>4. InOrder(others, eventTicks)
    BY <1>a, <2>a, UnlinkedInOrder
  <2>5. c \notin ToSet(others)
    BY <2>3
  <2>6. /\ InOrder(list, late)
        /\ list[1] # c => others # <<>> /\ list[1] = others[1]
    <3>1. others \in Seq(Completion)
      BY <2>3
    <3>2. eventTicks \in [Completion -> Nat]
      BY <1>a
    <3>3. c \in Completion /\ t \in Nat
      OBVIOUS
    <3>4. InOrder(list, late)
      BY <3>1, <3>2, <3>3, <2>4, <2>5, <2>b, <2>c, <2>d, InsertedInOrder, Zenon
    <3>5. list[1] = c \/ (others # <<>> /\ list[1] = others[1])
      <4>1. p \in 1..(Len(others) + 1)
        BY <3>1, <2>b, InsertionPointType
      <4>. QED BY <3>1, <3>3, <4>1, <2>c, InsertedHead
    <3>. QED BY <3>4, <3>5
  <2>7. SortedByDueTime'
    BY <2>2, <2>6 DEF SortedByDueTime
  <2>8. CASE list[1] = c
    <3>1. nextEvent' = t /\ (now >= nextEvent' => pending')
      BY <2>2, <2>8 DEF HAL_Time_SetCompare
    <3>2. eventTicks'[completions'[1]] = t
      BY <1>a, <2>2, <2>8, <2>d
    <3>. QED BY <1>e, <2>1, <2>2, <2>7, <3>1, <3>2 DEF Order
  <2>9. CASE list[1] # c
    <3>1. others[1] \in ToSet(others) /\ list[1] = others[1]
      BY <2>3, <2>6, <2>9, TailProperties
    <3>2. eventTicks'[completions'[1]] = eventTicks[others[1]]
      BY <1>a, <2>2, <2>3, <2>9, <2>d, <3>1, ElementOfSeq, LenProperties DEF ToSet
    <3>3. HeadIsArmed'
      BY <2>2, <2>3, <2>9, <3>1, <3>2, HeadStaysArmed
    <3>. QED BY <2>7, <3>3 DEF Order
  <2>. QED BY <2>8, <2>9
<1>4. ASSUME NEW x \in Context, NEW c \in Completion, Abort(x, c)
      PROVE  Order'
  <2>1. /\ completions' = Unlinked(completions, c)
        /\ now' = now /\ eventTicks' = eventTicks
    BY <1>4 DEF Abort
  <2>2. SortedByDueTime'
    BY <1>a, <2>1, UnlinkedInOrder DEF SortedByDueTime
  <2>3. CASE completions # <<>> /\ FirstNode(completions) = c
    <3>1. /\ nextEvent' = CompareFor(completions', eventTicks)
          /\ now >= nextEvent' => pending'
      BY <1>4, <2>3 DEF Abort, HAL_Time_SetCompare
    <3>2. completions' # <<>> => nextEvent' = eventTicks'[completions'[1]]
      BY <2>1, <3>1 DEF CompareFor, FirstNode
    <3>3. nextEvent' \in Nat
      BY DEF Lists, TypeOK
    <3>. QED BY <1>c, <1>e, <2>1, <2>2, <3>1, <3>2, <3>3 DEF Order
  <2>4. CASE ~(completions # <<>> /\ FirstNode(completions) = c)
    <3>1. UNCHANGED driver
      BY <1>4, <2>4 DEF Abort
    <3>2. completions' # <<>> => completions'[1] \in ToSet(completions)
      <4>1. /\ completions' \in Seq(Completion) /\ NoRepeats(completions')
            /\ ToSet(completions') = ToSet(completions) \ {c}
        BY <1>a, <2>1, UnlinkedCompletion
      <4>. QED BY <4>1, TailProperties
    <3>3. HeadIsArmed'
      BY <2>1, <3>1, <3>2, HeadStaysArmed
    <3>. QED BY <2>2, <3>3 DEF Order
  <2>. QED BY <2>3, <2>4
<1>5. ASSUME NEW x \in Context, NEW e \in Event, Events_Set(x, e)
      PROVE  Order'
  BY <1>5, <1>d DEF Events_Set
<1>6. ASSUME NEW events \in WakeupSets, Events_Get(events)
      PROVE  Order'
  BY <1>6, <1>d DEF Events_Get
<1>7. CASE Timer_Interrupt
  <2>1. CASE now >= nextEvent /\ completions # <<>>
    <3>1. /\ completions' = Tail(completions)
          /\ nextEvent' = CompareFor(completions', eventTicks)
          /\ pending' = (now >= nextEvent')
          /\ now' = now /\ eventTicks' = eventTicks
      BY <1>7, <2>1 DEF Timer_Interrupt
    <3>2. Tail(completions) = Unlinked(completions, completions[1])
      BY <1>a, <2>1, UnlinkedProperties
    <3>a. InOrder(Unlinked(completions, completions[1]), eventTicks)
      BY <1>a, UnlinkedInOrder
    <3>3. SortedByDueTime'
      BY <3>1, <3>2, <3>a DEF SortedByDueTime
    <3>4. completions' # <<>> => nextEvent' = eventTicks'[completions'[1]]
      BY <3>1 DEF CompareFor, FirstNode
    <3>5. nextEvent' \in Nat
      BY DEF Lists, TypeOK
    <3>6. now >= nextEvent' => pending'
      BY <3>1
    <3>. QED BY <1>c, <1>e, <3>1, <3>3, <3>4, <3>5, <3>6 DEF Order
  <2>2. CASE ~(now >= nextEvent /\ completions # <<>>)
    <3>1. UNCHANGED <<now, nextEvent, completions, eventTicks>>
      BY <1>7, <2>2 DEF Timer_Interrupt
    <3>. QED BY <2>2, <3>1 DEF Order, SortedByDueTime, HeadIsArmed
  <2>. QED BY <2>1, <2>2
<1>8. CASE InterruptReturn
  BY <1>8, <1>d DEF InterruptReturn
<1>9. CASE Thread
  <2>1. CASE SetCompareToExpire
    <3>1. /\ SortedByDueTime' /\ now' = now
          /\ completions' = completions /\ eventTicks' = eventTicks
      BY <2>1 DEF SetCompareToExpire, ThreadMoves, Order, SortedByDueTime
    <3>2. CASE completions = <<>> \/ eventTicks[FirstNode(completions)] > expire
      <4>1. nextEvent' = expire /\ pending' = (pending \/ now >= expire)
        BY <2>1, <3>2 DEF SetCompareToExpire, HAL_Time_SetCompare
      <4>2. expire \in Nat
        BY DEF Lists, TypeOK
      <4>3. completions # <<>> => expire <= eventTicks[completions[1]]
        BY <1>a, <1>c, <3>1, <3>2, <4>2 DEF FirstNode
      <4>. QED BY <1>e, <3>1, <4>1, <4>2, <4>3 DEF Order
    <3>3. CASE ~(completions = <<>> \/ eventTicks[FirstNode(completions)] > expire)
      BY <1>d, <2>1, <3>1, <3>3 DEF SetCompareToExpire
    <3>. QED BY <3>2, <3>3
  <2>2. CASE ResetCompare
    <3>1. /\ SortedByDueTime' /\ now' = now
          /\ completions' = completions /\ eventTicks' = eventTicks
      BY <2>2 DEF ResetCompare, ThreadMoves, Order, SortedByDueTime
    <3>2. CASE completions = <<>> \/ eventTicks[FirstNode(completions)] > expire
      <4>1. /\ nextEvent' = CompareFor(completions, eventTicks)
            /\ now >= nextEvent' => pending'
        BY <2>2, <3>2 DEF ResetCompare, HAL_Time_SetCompare
      <4>2. nextEvent' \in Nat
        BY DEF Lists, TypeOK
      <4>3. completions # <<>> => nextEvent' = eventTicks[completions[1]]
        BY <4>1 DEF CompareFor, FirstNode
      <4>. QED BY <1>c, <1>e, <3>1, <4>1, <4>2, <4>3 DEF Order
    <3>3. CASE ~(completions = <<>> \/ eventTicks[FirstNode(completions)] > expire)
      BY <1>d, <2>2, <3>1, <3>3 DEF ResetCompare
    <3>. QED BY <3>2, <3>3
  <2>3. CASE ~SetCompareToExpire /\ ~ResetCompare
    <3>1. UNCHANGED <<now, driver, completions, eventTicks>>
      BY <1>9, <2>3
         DEF Thread, WaitLoop, ThreadMoves, ProcessActivity, ActivityReturn,
             WaitForEvents, ReturnFromWait, ReleaseForContinuation,
             Dequeue_And_Execute, CallbackReturn, Relock, Stall, Probe
    <3>. QED BY <1>d, <3>1
  <2>. QED BY <2>1, <2>2, <2>3
<1>10. CASE UNCHANGED vars
  BY <1>10, <1>d DEF vars
<1>. QED BY <1>1, <1>2, <1>3, <1>4, <1>5, <1>6, <1>7, <1>8, <1>9, <1>10
        DEF Next, Calls, Interrupt

\* The order of the list and the armed head are invariants of Spec.
LEMMA OrderAlways == Spec => []Order
<1>1. Init => Order
  BY DEF Init, Order, SortedByDueTime, InOrder, HeadIsArmed
<1>2. Lists /\ ContextsOK /\ Order /\ [Next]_vars => Order'
  BY ListsNext, OrderNext
<1>. QED BY <1>1, <1>2, ListsAlways, PTL DEF Spec

\* The list stays in order of due time, whatever is enqueued, re-enqueued
\* with another time, aborted or fired.
THEOREM ListInOrder == Spec => []SortedByDueTime
BY OrderAlways, PTL DEF Order

\* The compare register is never later than the head is due, and a compare
\* that has passed has left an interrupt pending: no alarm is forgotten.
THEOREM HeadNeverForgotten == Spec => []HeadIsArmed
BY OrderAlways, PTL DEF Order

-----------------------------------------------------------------------------
(***************************************************************************)
(* With clients that enqueue only what is not linked, the register holds   *)
(* the head's own time, and the promise of TimerService follows.           *)
(***************************************************************************)

\* An EnqueueDelta that has read the clock holds a completion that nobody
\* else links before it does.
CallsUnlinked ==
    \A x \in Context : call[x] # NoCall =>
        /\ ~IsLinked(call[x].node)
        /\ \A y \in Context : y # x /\ call[y] # NoCall
                                  => call[y].node # call[x].node

Exact == CallsUnlinked /\ HeadIsCompare

\* A step that links nothing and begins no call leaves nothing to check.
LEMMA CallsStayUnlinked ==
    ASSUME CallsUnlinked, call' = call,
           ToSet(completions') \cup ToSet(continuations')
               \subseteq ToSet(completions) \cup ToSet(continuations)
    PROVE  CallsUnlinked'
BY DEF CallsUnlinked, IsLinked

\* Every step keeps the register at the head's time.
LEMMA ExactNext ==
    ~RelinkAllowed /\ Lists /\ ContextsOK /\ Exact /\ [Next]_vars => Exact'
<1>. SUFFICES ASSUME ~RelinkAllowed, Lists, ContextsOK, Exact, [Next]_vars
              PROVE  Exact'
  OBVIOUS
<1>a. /\ completions \in Seq(Completion) /\ NoRepeats(completions)
      /\ continuations \in Seq(Completion) /\ NoRepeats(continuations)
      /\ eventTicks \in [Completion -> Nat]
      /\ CallsUnlinked
  BY DEF Lists, TypeOK, NodeInOneList, Exact
<1>b. completions # <<>> => completions[1] \in ToSet(completions)
  BY <1>a, TailProperties
<1>c. completions # <<>> /\ pc # "armed"
          => nextEvent = eventTicks[completions[1]]
  BY DEF Exact, HeadIsCompare, FirstNode
<1>d. ASSUME pc' # "armed",
             completions' # <<>> => nextEvent' = eventTicks'[completions'[1]]
      PROVE  HeadIsCompare'
  BY <1>d DEF HeadIsCompare, FirstNode
<1>e. ASSUME UNCHANGED <<nextEvent, completions, eventTicks, expire, pc>>
      PROVE  HeadIsCompare'
  BY <1>e DEF Exact, HeadIsCompare
<1>f. ASSUME NEW x \in Context,
             IF x = "isr" THEN isr # Nobody
                          ELSE pc \in {"app", "activity", "callback"}
      PROVE  pc # "armed"
  BY <1>f DEF ContextsOK, Masked
<1>1. CASE Tick
  <2>1. UNCHANGED <<nextEvent, completions, eventTicks, continuations, call,
                    expire, pc>>
    BY <1>1 DEF Tick, wait
  <2>. QED BY <1>a, <1>e, <2>1, CallsStayUnlinked DEF Exact
<1>2. ASSUME NEW x \in Context, NEW c \in Completion, NEW d \in Delta,
             EnqueueDelta(x, c, d)
      PROVE  Exact'
  <2>1. /\ call' = [call EXCEPT ![x] = [node |-> c, ticks |-> now + d]]
        /\ UNCHANGED <<nextEvent, completions, eventTicks, continuations,
                       expire, pc>>
    BY <1>2 DEF EnqueueDelta, driver, wait
  <2>2. /\ ~IsLinked(c)
        /\ \A y \in Context : call[y] # NoCall => call[y].node # c
    BY <1>2 DEF EnqueueDelta, ClientMayEnqueue
  <2>3. /\ call'[x].node = c
        /\ \A y \in Context : y # x => call'[y] = call[y]
    BY <2>1 DEF Lists, TypeOK
  <2>4. CallsUnlinked'
    BY <1>a, <2>1, <2>2, <2>3 DEF CallsUnlinked, IsLinked
  <2>. QED BY <1>e, <2>1, <2>4 DEF Exact
<1>3. ASSUME NEW x \in Context, EnqueueTicks(x)
      PROVE  Exact'
  <2>1. PICK c \in Completion, t \in Nat : c = call[x].node /\ t = call[x].ticks
    BY <1>3 DEF EnqueueTicks, Lists, TypeOK
  <2>2. PICK p : p = InsertionPoint(completions, eventTicks, t)
    OBVIOUS
  <2>3. PICK list : list = Inserted(completions, p, c)
    OBVIOUS
  <2>4. call[x] # NoCall
    BY <1>3 DEF EnqueueTicks
  <2>5. c \notin ToSet(completions) /\ c \notin ToSet(continuations)
    BY <1>a, <2>1, <2>4 DEF CallsUnlinked, IsLinked
  <2>6. Unlinked(completions, c) = completions
    BY <1>a, <2>5, UnlinkedProperties
  <2>7. Unlinked(continuations, c) = continuations
    BY <1>a, <2>5, UnlinkedProperties
  <2>8. /\ eventTicks' = [eventTicks EXCEPT ![c] = t]
        /\ completions' = list
        /\ continuations' = continuations
        /\ list[1] = c => nextEvent' = t
        /\ list[1] # c => nextEvent' = nextEvent
        /\ call' = [call EXCEPT ![x] = NoCall]
        /\ pc' = pc
    BY <1>3, <2>1, <2>2, <2>3, <2>6, <2>7
       DEF EnqueueTicks, FirstNode, HAL_Time_SetCompare, driver
  <2>9. p \in 1..(Len(completions) + 1)
    BY <1>a, <2>2, InsertionPointType
  <2>10. /\ list # <<>>
         /\ ToSet(list) = ToSet(completions) \cup {c}
    BY <1>a, <2>3, <2>5, <2>9, InsertedProperties
  <2>11. CallsUnlinked'
    <3>1. \A y \in Context : call'[y] = IF y = x THEN NoCall ELSE call[y]
      BY <2>8 DEF Lists, TypeOK
    <3>2. \A y \in Context : y # x /\ call[y] # NoCall
              => call[y].node # c /\ ~IsLinked(call[y].node)
      BY <1>a, <2>1, <2>4 DEF CallsUnlinked
    <3>. QED BY <1>a, <2>8, <2>10, <3>1, <3>2 DEF CallsUnlinked, IsLinked
  <2>12. pc' # "armed"
    BY <1>f, <2>4, <2>8 DEF ContextsOK, Context
  <2>13. list[1] = c \/ (completions # <<>> /\ list[1] = completions[1])
    BY <1>a, <2>3, <2>9, InsertedHead
  <2>14. CASE list[1] = c
    <3>1. eventTicks'[completions'[1]] = t
      BY <1>a, <2>8, <2>14
    <3>. QED BY <1>d, <2>8, <2>11, <2>12, <2>14, <3>1 DEF Exact
  <2>15. CASE list[1] # c
    <3>1. eventTicks'[completions'[1]] = eventTicks[completions[1]]
      BY <1>a, <2>8, <2>13, <2>15
    <3>. QED BY <1>c, <1>d, <2>8, <2>11, <2>12, <2>13, <2>15, <3>1 DEF Exact
  <2>. QED BY <2>14, <2>15
<1>4. ASSUME NEW x \in Context, NEW c \in Completion, Abort(x, c)
      PROVE  Exact'
  <2>1. /\ completions' = Unlinked(completions, c)
        /\ continuations' = Unlinked(continuations, c)
        /\ eventTicks' = eventTicks /\ call' = call /\ pc' = pc
    BY <1>4 DEF Abort
  <2>2. /\ ToSet(completions') = ToSet(completions) \ {c}
        /\ ToSet(continuations') = ToSet(continuations) \ {c}
    BY <1>a, <2>1, UnlinkedCompletion
  <2>3. CallsUnlinked'
    BY <1>a, <2>1, <2>2, CallsStayUnlinked
  <2>4. pc' # "armed"
    BY <1>4, <1>f, <2>1 DEF Abort, MayCall
  <2>5. CASE completions # <<>> /\ FirstNode(completions) = c
    <3>1. nextEvent' = CompareFor(completions', eventTicks)
      BY <1>4, <2>5 DEF Abort, HAL_Time_SetCompare
    <3>. QED BY <1>d, <2>1, <2>3, <2>4, <3>1 DEF Exact, CompareFor, FirstNode
  <2>6. CASE completions # <<>> /\ FirstNode(completions) # c
    <3>1. nextEvent' = nextEvent
      BY <1>4, <2>6 DEF Abort, driver
    <3>2. completions'[1] = completions[1]
      BY <1>a, <2>1, <2>6, UnlinkedProperties DEF FirstNode
    <3>. QED BY <1>c, <1>d, <2>1, <2>3, <2>4, <2>6, <3>1, <3>2 DEF Exact
  <2>7. CASE completions = <<>>
    <3>1. completions' = <<>>
      <4>1. ToSet(completions) = {}
        BY <2>7 DEF ToSet
      <4>. QED BY <1>a, <2>1, <2>7, <4>1, UnlinkedProperties
    <3>. QED BY <1>d, <2>3, <2>4, <3>1 DEF Exact
  <2>. QED BY <2>5, <2>6, <2>7
<1>5. ASSUME NEW x \in Context, NEW e \in Event, Events_Set(x, e)
      PROVE  Exact'
  BY <1>5, <1>a, <1>e, CallsStayUnlinked DEF Events_Set, Exact, driver, wait
<1>6. ASSUME NEW events \in WakeupSets, Events_Get(events)
      PROVE  Exact'
  BY <1>6, <1>a, <1>e, CallsStayUnlinked DEF Events_Get, Exact, driver, wait
<1>7. CASE Timer_Interrupt
  <2>1. pc' = pc /\ pc # "armed" /\ eventTicks' = eventTicks /\ call' = call
    BY <1>7 DEF Timer_Interrupt, Masked
  <2>2. CASE now >= nextEvent /\ completions # <<>>
    <3>1. PICK c : c = completions[1]
      OBVIOUS
    <3>2. /\ completions' = Tail(completions)
          /\ nextEvent' = CompareFor(completions', eventTicks)
          /\ continuations' \in {continuations, LinkedAtBack(continuations, c)}
      BY <1>7, <2>2, <3>1 DEF Timer_Interrupt, FirstNode
    <3>3. /\ ToSet(completions') = ToSet(completions) \ {c}
          /\ c \in ToSet(completions) /\ c \in Completion
      BY <1>a, <2>2, <3>1, <3>2, TailProperties
    <3>4. ToSet(LinkedAtBack(continuations, c)) = ToSet(continuations) \cup {c}
      BY <1>a, <3>3, LinkedAtBackProperties
    <3>5. CallsUnlinked'
      BY <1>a, <2>1, <3>2, <3>3, <3>4, CallsStayUnlinked
    <3>. QED BY <1>d, <2>1, <3>2, <3>5 DEF Exact, CompareFor, FirstNode
  <2>3. CASE ~(now >= nextEvent /\ completions # <<>>)
    <3>1. UNCHANGED <<nextEvent, completions, eventTicks, continuations, call,
                      expire, pc>>
      BY <1>7, <2>3 DEF Timer_Interrupt, wait
    <3>. QED BY <1>a, <1>e, <3>1, CallsStayUnlinked DEF Exact
  <2>. QED BY <2>2, <2>3
<1>8. CASE InterruptReturn
  BY <1>8, <1>a, <1>e, CallsStayUnlinked
     DEF InterruptReturn, Exact, driver, wait
<1>9. CASE Thread
  <2>1. /\ completions' = completions /\ eventTicks' = eventTicks
        /\ call' = call
        /\ continuations' \in {continuations, Tail(continuations)}
    BY <1>9
       DEF Thread, WaitLoop, ThreadMoves, ProcessActivity, ActivityReturn,
           WaitForEvents, ReturnFromWait, ReleaseForContinuation,
           Dequeue_And_Execute, CallbackReturn, Relock, Stall,
           SetCompareToExpire, ResetCompare, Probe
  <2>2. ToSet(continuations') \subseteq ToSet(continuations)
    <3>1. continuations = <<>> => Tail(continuations) = continuations
      OBVIOUS
    <3>2. continuations # <<>>
             => ToSet(Tail(continuations)) \subseteq ToSet(continuations)
      BY <1>a, TailProperties
    <3>. QED BY <2>1, <3>1, <3>2
  <2>3. CallsUnlinked'
    BY <1>a, <2>1, <2>2, CallsStayUnlinked
  <2>4. CASE SetCompareToExpire
    <3>1. pc = "sleep" /\ pc' = "armed" /\ expire' = expire
      BY <2>4 DEF SetCompareToExpire, ThreadMoves, wait
    <3>2. CASE completions # <<>> /\ eventTicks[completions[1]] > expire
      <4>1. nextEvent' = expire
        BY <2>4, <3>2 DEF SetCompareToExpire, FirstNode, HAL_Time_SetCompare
      <4>2. expire < eventTicks[completions[1]]
        <5>1. expire \in Nat /\ eventTicks[completions[1]] \in Nat
          BY <1>a, <1>b, <3>2, ElementOfSeq, TailProperties DEF Lists, TypeOK
        <5>. QED BY <3>2, <5>1
      <4>. QED BY <2>1, <2>3, <3>1, <4>1, <4>2 DEF Exact, HeadIsCompare, FirstNode
    <3>3. CASE completions # <<>> /\ ~(eventTicks[completions[1]] > expire)
      <4>1. nextEvent' = nextEvent
        BY <2>4, <3>3 DEF SetCompareToExpire, FirstNode, driver
      <4>2. ~(expire < eventTicks[completions[1]])
        <5>1. expire \in Nat /\ eventTicks[completions[1]] \in Nat
          BY <1>a, <1>b, <3>3, ElementOfSeq, TailProperties DEF Lists, TypeOK
        <5>. QED BY <3>3, <5>1
      <4>. QED BY <1>c, <2>1, <2>3, <3>1, <3>3, <4>1, <4>2
              DEF Exact, HeadIsCompare, FirstNode
    <3>4. CASE completions = <<>>
      BY <2>1, <2>3, <3>4 DEF Exact, HeadIsCompare
    <3>. QED BY <3>2, <3>3, <3>4
  <2>5. CASE ResetCompare
    <3>1. pc' # "armed"
      BY <2>5 DEF ResetCompare, ThreadMoves
    <3>2. CASE completions # <<>> /\ eventTicks[completions[1]] > expire
      <4>1. nextEvent' = CompareFor(completions, eventTicks)
        BY <2>5, <3>2 DEF ResetCompare, FirstNode, HAL_Time_SetCompare
      <4>. QED BY <1>d, <2>1, <2>3, <3>1, <4>1 DEF Exact, CompareFor, FirstNode
    <3>3. CASE completions # <<>> /\ ~(eventTicks[completions[1]] > expire)
      <4>1. nextEvent' = nextEvent
        BY <2>5, <3>3 DEF ResetCompare, FirstNode, driver
      <4>2. ~(expire < eventTicks[completions[1]])
        <5>1. expire \in Nat /\ eventTicks[completions[1]] \in Nat
          BY <1>a, <1>b, <3>3, ElementOfSeq, TailProperties DEF Lists, TypeOK
        <5>. QED BY <3>3, <5>1
      <4>3. nextEvent = eventTicks[completions[1]]
        BY <3>3, <4>2 DEF Exact, HeadIsCompare, FirstNode
      <4>. QED BY <1>d, <2>1, <2>3, <3>1, <4>1, <4>3 DEF Exact
    <3>4. CASE completions = <<>>
      BY <1>d, <2>1, <2>3, <3>1, <3>4 DEF Exact
    <3>. QED BY <3>2, <3>3, <3>4
  <2>6. CASE ~SetCompareToExpire /\ ~ResetCompare
    <3>1. pc # "armed" /\ pc' # "armed" /\ nextEvent' = nextEvent
      BY <1>9, <2>6
         DEF Thread, WaitLoop, ThreadMoves, ProcessActivity, ActivityReturn,
             WaitForEvents, ReturnFromWait, ReleaseForContinuation,
             Dequeue_And_Execute, CallbackReturn, Relock, Stall, Probe, driver
    <3>. QED BY <1>c, <1>d, <2>1, <2>3, <3>1 DEF Exact
  <2>. QED BY <2>4, <2>5, <2>6
<1>10. CASE UNCHANGED vars
  BY <1>10, <1>a, <1>e, CallsStayUnlinked DEF vars, wait, driver, Exact
<1>. QED BY <1>1, <1>2, <1>3, <1>4, <1>5, <1>6, <1>7, <1>8, <1>9, <1>10
        DEF Next, Calls, Interrupt

\* The register and the unlinked calls, for clients that do not relink.
LEMMA ExactAlways == ASSUME ~RelinkAllowed PROVE Spec => []Exact
<1>1. Init => Exact
  BY DEF Init, Exact, CallsUnlinked, HeadIsCompare
<1>2. Lists /\ ContextsOK /\ Exact /\ [Next]_vars => Exact'
  BY ExactNext
<1>. QED BY <1>1, <1>2, ListsAlways, PTL DEF Spec

\* With clients that enqueue only what is not linked, the compare register
\* holds exactly the head's time, or the end of a wait that comes before it.
THEOREM RegisterIsExact == ASSUME ~RelinkAllowed PROVE Spec => []HeadIsCompare
BY ExactAlways, PTL DEF Exact

-----------------------------------------------------------------------------
(***************************************************************************)
(* Refinement of TimerService.                                             *)
(***************************************************************************)
\* The deadlines depend on the list's members and their times only.
LEMMA BarsKept ==
    ASSUME ToSet(completions') = ToSet(completions), eventTicks' = eventTicks
    PROVE  DeadlineBar' = DeadlineBar
BY DEF DeadlineBar, Armed

\* Taking a completion off the list takes its deadline away.
LEMMA BarDropped ==
    ASSUME NEW c \in Completion,
           ToSet(completions') = ToSet(completions) \ {c},
           eventTicks' = eventTicks
    PROVE  DeadlineBar' = [DeadlineBar EXCEPT ![c] = IdleValue]
BY DEF DeadlineBar, Armed

\* Every step of the code is a step of TimerService, or changes nothing in it.
LEMMA StepRefines ==
    ~RelinkAllowed /\ Lists /\ Lists' /\ ContextsOK /\ Order /\ Exact
        /\ [Next]_vars => [TS!Next]_(TS!vars)
<1>. SUFFICES ASSUME ~RelinkAllowed, Lists, Lists', ContextsOK, Order, Exact,
                     [Next]_vars
              PROVE  TS!Next \/ UNCHANGED TS!vars
  OBVIOUS
<1>a. /\ completions \in Seq(Completion) /\ NoRepeats(completions)
      /\ continuations \in Seq(Completion) /\ NoRepeats(continuations)
      /\ eventTicks \in [Completion -> 0..MaxTicks]
      /\ ToSet(completions) \cap ToSet(continuations) = {}
      /\ ToSet(continuations) \cap IsrCompletion = {}
  BY DEF Lists, TypeOK, NodeInOneList
<1>b. ASSUME UNCHANGED <<now, completions, eventTicks, continuations, isr>>
      PROVE  UNCHANGED TS!vars
  BY <1>b, BarsKept DEF TS!vars, FiredBar
<1>c. isr \in IsrCompletion \cup {Nobody} /\ IsrCompletion \subseteq Completion
      /\ Nobody \notin Completion
  BY DEF Lists, TypeOK
\* A thread that takes the first continuation delivers it.
<1>d. ASSUME NEW from, NEW to, ThreadMoves(from, to), from \notin Masked,
             completions' = completions, continuations # <<>>,
             continuations' = Tail(continuations)
      PROVE  TS!Next
  <2>1. PICK c : c = continuations[1]
    OBVIOUS
  <2>2. /\ ToSet(continuations') = ToSet(continuations) \ {c}
        /\ c \in ToSet(continuations) /\ c \in Completion
    BY <1>a, <1>d, <2>1, TailProperties
  <2>3. isr = Nobody /\ isr' = isr /\ now' = now /\ eventTicks' = eventTicks
    BY <1>d DEF ThreadMoves
  <2>4. DeadlineBar' = DeadlineBar
    BY <1>d, <2>3, BarsKept
  <2>5. c \in FiredBar /\ FiredBar' = FiredBar \ {c}
    BY <2>2, <2>3 DEF FiredBar
  <2>6. TS!Deliver(c)
    BY <2>3, <2>4, <2>5 DEF TS!Deliver
  <2>. QED BY <2>2, <2>6 DEF TS!Next
<1>1. CASE Tick
  <2>1. now' = now + 1
        /\ UNCHANGED <<completions, eventTicks, continuations, isr>>
    BY <1>1 DEF Tick
  <2>2. DeadlineBar' = DeadlineBar /\ FiredBar' = FiredBar
    BY <2>1, BarsKept DEF FiredBar
  <2>. QED BY <2>1, <2>2 DEF TS!Next, TS!Advance
<1>2. ASSUME NEW x \in Context, NEW c \in Completion, NEW d \in Delta,
             EnqueueDelta(x, c, d)
      PROVE  UNCHANGED TS!vars
  BY <1>2, <1>b DEF EnqueueDelta
<1>3. ASSUME NEW x \in Context, EnqueueTicks(x)
      PROVE  TS!Next
  <2>1. PICK c \in Completion, t \in 0..MaxTicks :
            c = call[x].node /\ t = call[x].ticks
    BY <1>3 DEF EnqueueTicks, Lists, TypeOK
  <2>2. PICK others : others = Unlinked(completions, c)
    OBVIOUS
  <2>3. PICK list :
            list = Inserted(others, InsertionPoint(others, eventTicks, t), c)
    OBVIOUS
  <2>4. /\ eventTicks' = [eventTicks EXCEPT ![c] = t]
        /\ completions' = list
        /\ continuations' = Unlinked(continuations, c)
        /\ now' = now /\ isr' = isr
    BY <1>3, <2>1, <2>2, <2>3 DEF EnqueueTicks
  <2>5. ToSet(list) = ToSet(completions) \cup {c}
    BY <2>2, <2>3, EnqueuedList DEF Lists
  <2>6. ToSet(continuations') = ToSet(continuations) \ {c}
    BY <1>a, <2>4, UnlinkedCompletion
  <2>7. DeadlineBar' = [DeadlineBar EXCEPT ![c] = t]
    BY <1>a, <2>4, <2>5 DEF DeadlineBar, Armed
  <2>8. FiredBar' = FiredBar \/ FiredBar' = FiredBar \ {c}
    BY <1>a, <1>c, <2>4, <2>6 DEF FiredBar
  <2>9. TS!Arm(c, t)
    BY <2>4, <2>7, <2>8 DEF TS!Arm
  <2>. QED BY <2>9 DEF TS!Next
<1>4. ASSUME NEW x \in Context, NEW c \in Completion, Abort(x, c)
      PROVE  TS!Next
  <2>1. /\ completions' = Unlinked(completions, c)
        /\ continuations' = Unlinked(continuations, c)
        /\ eventTicks' = eventTicks /\ now' = now /\ isr' = isr
    BY <1>4 DEF Abort
  <2>2. /\ ToSet(completions') = ToSet(completions) \ {c}
        /\ ToSet(continuations') = ToSet(continuations) \ {c}
    BY <1>a, <2>1, UnlinkedCompletion
  <2>3. DeadlineBar' = [DeadlineBar EXCEPT ![c] = IdleValue]
    BY <2>1, <2>2, BarDropped
  <2>4. FiredBar' = FiredBar \/ FiredBar' = FiredBar \ {c}
    BY <1>a, <1>c, <2>1, <2>2 DEF FiredBar
  <2>5. TS!Cancel(c)
    BY <2>1, <2>3, <2>4 DEF TS!Cancel
  <2>. QED BY <2>5 DEF TS!Next
<1>5. ASSUME NEW x \in Context, NEW e \in Event, Events_Set(x, e)
      PROVE  UNCHANGED TS!vars
  BY <1>5, <1>b DEF Events_Set
<1>6. ASSUME NEW events \in WakeupSets, Events_Get(events)
      PROVE  UNCHANGED TS!vars
  BY <1>6, <1>b DEF Events_Get
<1>7. CASE Timer_Interrupt
  <2>1. CASE now >= nextEvent /\ completions # <<>>
    <3>1. PICK c : c = completions[1]
      OBVIOUS
    <3>2. /\ completions' = Tail(completions)
          /\ eventTicks' = eventTicks /\ now' = now
          /\ isr = Nobody /\ pc # "armed"
          /\ IF c \in IsrCompletion
             THEN isr' = c /\ continuations' = continuations
             ELSE isr' = isr /\ continuations' = LinkedAtBack(continuations, c)
      BY <1>7, <2>1, <3>1 DEF Timer_Interrupt, FirstNode, Masked
    <3>3. /\ ToSet(completions') = ToSet(completions) \ {c}
          /\ c \in ToSet(completions) /\ c \in Completion
      BY <1>a, <2>1, <3>1, <3>2, TailProperties
    <3>4. DeadlineBar' = [DeadlineBar EXCEPT ![c] = IdleValue]
      BY <3>2, <3>3, BarDropped
    <3>5. DeadlineBar[c] = eventTicks[c]
      BY <3>3 DEF DeadlineBar, Armed
    <3>6. eventTicks[c] # IdleValue
      BY <1>a, <3>3
    <3>7. eventTicks[c] <= now
      <4>1. nextEvent = eventTicks[c]
        BY <2>1, <3>1, <3>2 DEF Exact, HeadIsCompare, FirstNode
      <4>2. now \in Nat /\ nextEvent \in Nat
        BY DEF Lists, TypeOK
      <4>. QED BY <2>1, <4>1, <4>2
    <3>8. ASSUME NEW d \in Completion
          PROVE  DeadlineBar[c] <= DeadlineBar[d]
      <4>1. CASE d \in ToSet(completions)
        <5>1. eventTicks[c] <= eventTicks[d]
          <6>1. InOrder(completions, eventTicks)
            BY DEF Order, SortedByDueTime
          <6>2. eventTicks \in [Completion -> Nat]
            BY <1>a
          <6>. QED BY <1>a, <3>1, <4>1, <6>1, <6>2, HeadIsFirst
        <5>. QED BY <3>5, <4>1, <5>1 DEF DeadlineBar, Armed
      <4>2. CASE d \notin ToSet(completions)
        <5>1. DeadlineBar[d] = IdleValue
          BY <4>2 DEF DeadlineBar, Armed
        <5>2. eventTicks[c] \in 0..MaxTicks
          BY <1>a, <3>3
        <5>. QED BY <3>5, <5>1, <5>2
      <4>. QED BY <4>1, <4>2
    <3>9. c \notin FiredBar
      BY <1>a, <3>2, <3>3 DEF FiredBar
    <3>10. FiredBar' = FiredBar \cup {c}
      <4>1. CASE c \in IsrCompletion
        BY <1>c, <3>2, <3>3, <4>1 DEF FiredBar
      <4>2. CASE c \notin IsrCompletion
        <5>1. ToSet(continuations') = ToSet(continuations) \cup {c}
          BY <1>a, <3>2, <3>3, <4>2, LinkedAtBackProperties
        <5>. QED BY <3>2, <4>2, <5>1 DEF FiredBar
      <4>. QED BY <4>1, <4>2
    <3>11. TS!Fire(c)
      BY <3>2, <3>4, <3>5, <3>6, <3>7, <3>8, <3>9, <3>10 DEF TS!Fire
    <3>. QED BY <3>3, <3>11 DEF TS!Next
  <2>2. CASE ~(now >= nextEvent /\ completions # <<>>)
    <3>1. UNCHANGED <<now, completions, eventTicks, continuations, isr>>
      BY <1>7, <2>2 DEF Timer_Interrupt
    <3>. QED BY <1>b, <3>1
  <2>. QED BY <2>1, <2>2
<1>8. CASE InterruptReturn
  <2>1. /\ isr # Nobody /\ isr' = Nobody
        /\ UNCHANGED <<now, completions, eventTicks, continuations>>
    BY <1>8 DEF InterruptReturn
  <2>2. DeadlineBar' = DeadlineBar
    BY <2>1, BarsKept
  <2>3. isr \in FiredBar /\ FiredBar' = FiredBar \ {isr} /\ isr \in Completion
    BY <1>a, <1>c, <2>1 DEF FiredBar
  <2>4. TS!Deliver(isr)
    BY <2>1, <2>2, <2>3 DEF TS!Deliver
  <2>. QED BY <2>3, <2>4 DEF TS!Next
<1>9. CASE Thread
  <2>1. CASE ProcessActivity
    BY <1>d, <2>1 DEF ProcessActivity, Masked
  <2>2. CASE Dequeue_And_Execute
    <3>1. CASE continuations = <<>>
      <4>1. UNCHANGED <<now, completions, eventTicks, continuations, isr>>
        BY <2>2, <3>1 DEF Dequeue_And_Execute, ThreadMoves
      <4>. QED BY <1>b, <4>1
    <3>2. CASE continuations # <<>>
      <4>1. PICK to : ThreadMoves("unlocked", to)
        BY <2>2 DEF Dequeue_And_Execute
      <4>2. completions' = completions /\ continuations' = Tail(continuations)
        BY <2>2, <3>2 DEF Dequeue_And_Execute
      <4>3. "unlocked" \notin Masked
        BY DEF Masked
      <4>. QED BY <1>d, <3>2, <4>1, <4>2, <4>3
    <3>. QED BY <3>1, <3>2
  <2>3. CASE ~ProcessActivity /\ ~Dequeue_And_Execute
    <3>1. UNCHANGED <<now, completions, eventTicks, continuations, isr>>
      BY <1>9, <2>3
         DEF Thread, WaitLoop, ThreadMoves, ActivityReturn, WaitForEvents,
             ReturnFromWait, ReleaseForContinuation, CallbackReturn, Relock,
             Stall, SetCompareToExpire, ResetCompare, Probe
    <3>. QED BY <1>b, <3>1
  <2>. QED BY <2>1, <2>2, <2>3
<1>10. CASE UNCHANGED vars
  BY <1>10, <1>b DEF vars
<1>. QED BY <1>1, <1>2, <1>3, <1>4, <1>5, <1>6, <1>7, <1>8, <1>9, <1>10
        DEF Next, Calls, Interrupt

\* The completions keep the promise of TimerService: a callback is handed
\* over at or after its tick, never before one that is due earlier, and once
\* per arming, whatever the thread and the interrupt do in between.
THEOREM PromiseKept == ASSUME ~RelinkAllowed PROVE Spec => KeepsTimerPromise
<1>1. Init => TS!Init
  BY DEF Init, TS!Init, DeadlineBar, FiredBar, Armed, ToSet
<1>2. Lists /\ Lists' /\ ContextsOK /\ Order /\ Exact /\ [Next]_vars
         => [TS!Next]_(TS!vars)
  BY StepRefines
<1>. QED BY <1>1, <1>2, ListsAlways, OrderAlways, ExactAlways, PTL
        DEF Spec, KeepsTimerPromise, TS!Spec
=============================================================================
