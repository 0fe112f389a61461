--------------------------- MODULE ClrThreadsProofs ---------------------------
(***************************************************************************)
(* ClrThreads, for any threads, locks and events, and for programs that    *)
(* abort no thread while it waits for a lock: a thread is in the list that *)
(* its status calls for, requests are counted, owners can release, Enter   *)
(* returns to an owner, and, if nobody suspends a thread that waits for    *)
(* handles, no wait outlasts its signals.                                  *)
(***************************************************************************)
EXTENDS ClrThreads, LinkedListLemmas, FiniteSetTheorems

-----------------------------------------------------------------------------
(***************************************************************************)
(* The invariant.                                                          *)
(***************************************************************************)
Engine == [status : [Thread -> {"Unstarted", "Ready", "Waiting", "Terminated"}],
           suspended : SUBSET Thread,
           ready : SUBSET Thread, waiting : Seq(Thread), zombie : SUBSET Thread,
           waitFor : [Thread -> Wait \cup {NoWait}],
           sleeping : SUBSET Thread, requests : [Thread -> 0..MaxRequests]]

\* A thread is in the one list its status calls for; one that waits for
\* anything is alive and not ready; one that waits for a lock has one request
\* and waits for nothing else.
InItsList(e, t) ==
    /\ t \in e.ready <=> e.status[t] = "Ready" /\ t \notin e.suspended
    /\ t \in e.zombie <=> e.status[t] = "Terminated"
    /\ t \in ToSet(e.waiting) <=> e.status[t] \in {"Ready", "Waiting"} /\ t \notin e.ready
WaitsApart(e, t) ==
    /\ t \in e.sleeping \/ e.waitFor[t] # NoWait \/ e.requests[t] # 0
          => e.status[t] \in {"Ready", "Waiting"} /\ t \notin e.ready
    /\ e.requests[t] # 0 => /\ e.requests[t] = 1 /\ e.status[t] = "Waiting"
                            /\ t \notin e.sleeping /\ e.waitFor[t] = NoWait

Typed(e) == e \in Engine /\ NoRepeats(e.waiting)
EngineOK(e) == Typed(e) /\ \A t \in Thread : InItsList(e, t) /\ WaitsApart(e, t)

\* The locks of each thread and the queues of each lock.
LocksTyped ==
    /\ lock \in [Object -> [owner : Thread \cup {Nobody}, recursion : 0..MaxRecursion,
                            requests : Seq(Thread)]]
    /\ locks \in [Thread -> Seq(Object)]
    /\ \A t \in Thread : NoRepeats(locks[t])

\* A thread whose end is going on.
Ends(t) == scan \in Scan \cup Destroy /\ scan.ends = t

\* A lock is free or has an owner that knows of it and can still give it up.
Owned ==
    /\ \A o \in Object :
          IF lock[o].owner = Nobody THEN lock[o].requests = <<>>
          ELSE /\ lock[o].recursion > 0
               /\ o \in ToSet(locks[lock[o].owner])
               /\ lock[o].owner \notin ToSet(lock[o].requests)
               /\ Alive(lock[o].owner) \/ Ends(lock[o].owner)
    /\ \A t \in Thread : \A o \in ToSet(locks[t]) : lock[o].owner = t

\* A thread is in one queue, once, if it has a request, and else in none.
Queued ==
    /\ \A o, p \in Object : \A n \in DOMAIN lock[o].requests, m \in DOMAIN lock[p].requests :
          lock[o].requests[n] = lock[p].requests[m] => o = p /\ n = m
    /\ \A t \in Thread :
          exec.requests[t] # 0 <=> \E o \in Object : t \in ToSet(lock[o].requests)

\* What is going on: the walk is at a thread that waits, or at the first lock
\* of a thread that has terminated.
GoingOn ==
    /\ result \in [Thread -> {"init", "handle", "timeout"}]
    /\ signaled \subseteq Handle /\ scan \in Scan \cup Destroy \cup {NoScan}
    /\ \A t \in Thread : t \in signaled => exec.status[t] = "Terminated"
    /\ \A t \in Thread : Ends(t) => exec.status[t] = "Terminated"
    /\ scan \in Scan => scan.at = End \/ scan.at \in ToSet(exec.waiting)
    /\ scan \in Destroy => scan.lock = FirstOf(locks[scan.ends])

ThreadInv == EngineOK(exec) /\ LocksTyped /\ Owned /\ Queued /\ GoingOn

\* Whether a wait is over when the handles of `set` are signaled.
IsOver(w, set) == IF w.all THEN w.handles \subseteq set ELSE w.handles \cap set # {}

\* A thread that waits is not suspended and has no result yet.
\* A wait that is over is ahead of SignalObject, and over because of the handle
\* that it was called for.
Signals ==
    /\ \A t \in Thread : exec.waitFor[t] # NoWait =>
          t \notin exec.suspended /\ result[t] = "init"
    /\ \A t \in Thread : exec.waitFor[t] # NoWait /\ IsOver(exec.waitFor[t], signaled) =>
          /\ scan \in Scan /\ ~IsOver(exec.waitFor[t], signaled \ {scan.handle})
          /\ scan.at # End
          /\ \E i, j \in DOMAIN exec.waiting :
                i <= j /\ exec.waiting[i] = scan.at /\ exec.waiting[j] = t

-----------------------------------------------------------------------------
(***************************************************************************)
(* Moving threads between the lists.                                       *)
(***************************************************************************)

\* What moves one thread leaves the others where they are, as they are.
SameRow(e, f, u) ==
    /\ f.status[u] = e.status[u] /\ f.requests[u] = e.requests[u]
    /\ f.waitFor[u] = e.waitFor[u]
    /\ u \in f.suspended <=> u \in e.suspended
    /\ u \in f.sleeping <=> u \in e.sleeping
    /\ u \in f.ready <=> u \in e.ready
    /\ u \in f.zombie <=> u \in e.zombie
    /\ u \in ToSet(f.waiting) <=> u \in ToSet(e.waiting)
Moves(e, f, t) == Typed(f) /\ \A u \in Thread : u # t => SameRow(e, f, u)

LEMMA RowKept ==
    ASSUME NEW e, NEW f, NEW u, SameRow(e, f, u), InItsList(e, u), WaitsApart(e, u)
    PROVE  InItsList(f, u) /\ WaitsApart(f, u)
<1>1. InItsList(f, u)
  BY DEF SameRow, InItsList
<1>2. WaitsApart(f, u)
  BY DEF SameRow, WaitsApart
<1>. QED BY <1>1, <1>2

LEMMA OthersKept ==
    ASSUME NEW e, NEW f, NEW t \in Thread, EngineOK(e), Moves(e, f, t),
           InItsList(f, t), WaitsApart(f, t)
    PROVE  EngineOK(f)
<1>1. ASSUME NEW u \in Thread
      PROVE  InItsList(f, u) /\ WaitsApart(f, u)
  <2>1. CASE u = t
    BY <2>1
  <2>2. CASE u # t
    BY <2>2, RowKept DEF EngineOK, Moves
  <2>. QED BY <2>1, <2>2
<1>. QED BY <1>1 DEF EngineOK, Moves

LEMMA MovesTwice ==
    ASSUME NEW e, NEW f, NEW g, NEW t, Moves(e, f, t), Moves(f, g, t)
    PROVE  Moves(e, g, t)
<1>1. ASSUME NEW u \in Thread, u # t
      PROVE  SameRow(e, g, u)
  BY <1>1 DEF Moves, SameRow
<1>. QED BY <1>1 DEF Moves

\* The fields, one by one.
With(status, suspended, ready, waiting, zombie, waitFor, sleeping, requests) ==
    [status |-> status, suspended |-> suspended, ready |-> ready,
     waiting |-> waiting, zombie |-> zombie, waitFor |-> waitFor,
     sleeping |-> sleeping, requests |-> requests]

LEMMA EngineFields ==
    ASSUME NEW e, Typed(e)
    PROVE  /\ e.status \in [Thread -> {"Unstarted", "Ready", "Waiting", "Terminated"}]
           /\ e.suspended \subseteq Thread /\ e.ready \subseteq Thread
           /\ e.waiting \in Seq(Thread) /\ NoRepeats(e.waiting)
           /\ e.zombie \subseteq Thread /\ e.sleeping \subseteq Thread
           /\ e.waitFor \in [Thread -> Wait \cup {NoWait}]
           /\ e.requests \in [Thread -> 0..MaxRequests]
           /\ e = With(e.status, e.suspended, e.ready, e.waiting, e.zombie,
                       e.waitFor, e.sleeping, e.requests)
BY DEF Typed, Engine, With

LEMMA EngineOfFields ==
    ASSUME NEW status \in [Thread -> {"Unstarted", "Ready", "Waiting", "Terminated"}],
           NEW suspended \in SUBSET Thread, NEW ready \in SUBSET Thread,
           NEW waiting \in Seq(Thread), NoRepeats(waiting),
           NEW zombie \in SUBSET Thread,
           NEW waitFor \in [Thread -> Wait \cup {NoWait}],
           NEW sleeping \in SUBSET Thread, NEW requests \in [Thread -> 0..MaxRequests]
    PROVE  Typed(With(status, suspended, ready, waiting, zombie, waitFor, sleeping,
                       requests))
BY DEF Typed, Engine, With

\* A new engine in which all fields but those of one thread agree.
Fits(e, t, status, suspended, ready, waiting, zombie, waitFor, sleeping, requests) ==
    /\ status \in [Thread -> {"Unstarted", "Ready", "Waiting", "Terminated"}]
    /\ suspended \in SUBSET Thread /\ ready \in SUBSET Thread
    /\ waiting \in Seq(Thread) /\ NoRepeats(waiting)
    /\ zombie \in SUBSET Thread /\ sleeping \in SUBSET Thread
    /\ waitFor \in [Thread -> Wait \cup {NoWait}]
    /\ requests \in [Thread -> 0..MaxRequests]
    /\ \A u \in Thread : u # t =>
          /\ status[u] = e.status[u] /\ requests[u] = e.requests[u]
          /\ waitFor[u] = e.waitFor[u]
          /\ u \in suspended <=> u \in e.suspended
          /\ u \in sleeping <=> u \in e.sleeping
          /\ u \in ready <=> u \in e.ready
          /\ u \in zombie <=> u \in e.zombie
          /\ u \in ToSet(waiting) <=> u \in ToSet(e.waiting)

LEMMA FieldsMove ==
    ASSUME NEW e, NEW t, NEW status, NEW suspended, NEW ready, NEW waiting,
           NEW zombie, NEW waitFor, NEW sleeping, NEW requests,
           Fits(e, t, status, suspended, ready, waiting, zombie, waitFor, sleeping,
                requests)
    PROVE  LET f == With(status, suspended, ready, waiting, zombie, waitFor, sleeping,
                         requests)
           IN  /\ Moves(e, f, t)
               /\ f.status = status /\ f.suspended = suspended /\ f.ready = ready
               /\ f.waiting = waiting /\ f.zombie = zombie /\ f.waitFor = waitFor
               /\ f.sleeping = sleeping /\ f.requests = requests
<1>. DEFINE f == With(status, suspended, ready, waiting, zombie, waitFor, sleeping,
                      requests)
<1>1. Typed(f)
  BY EngineOfFields DEF Fits
<1>2. /\ f.status = status /\ f.suspended = suspended /\ f.ready = ready
      /\ f.waiting = waiting /\ f.zombie = zombie /\ f.waitFor = waitFor
      /\ f.sleeping = sleeping /\ f.requests = requests
  BY DEF With
<1>. HIDE DEF f
<1>3. ASSUME NEW u \in Thread, u # t
      PROVE  SameRow(e, f, u)
  BY <1>2, <1>3 DEF SameRow, Fits
<1>4. Moves(e, f, t)
  BY <1>1, <1>3 DEF Moves
<1>. QED BY <1>2, <1>4 DEF f

\* Changes of one field.
SetStatus(e, t, s) == [e EXCEPT !.status[t] = s]
SetWaitFor(e, t, w) == [e EXCEPT !.waitFor[t] = w]
SetRequests(e, t, n) == [e EXCEPT !.requests[t] = n]
SetSuspended(e, set) == [e EXCEPT !.suspended = set]
SetSleeping(e, set) == [e EXCEPT !.sleeping = set]

LEMMA StatusChanged ==
    ASSUME NEW e, Typed(e), NEW t \in Thread,
           NEW s \in {"Unstarted", "Ready", "Waiting", "Terminated"}
    PROVE  LET f == SetStatus(e, t, s)
           IN  /\ Moves(e, f, t) /\ f.status[t] = s
               /\ f.suspended = e.suspended /\ f.ready = e.ready /\ f.waiting = e.waiting
               /\ f.zombie = e.zombie /\ f.waitFor = e.waitFor /\ f.sleeping = e.sleeping
               /\ f.requests = e.requests
<1>. DEFINE f == SetStatus(e, t, s)
            status == [e.status EXCEPT ![t] = s]
<1>1. e = With(e.status, e.suspended, e.ready, e.waiting, e.zombie,
               e.waitFor, e.sleeping, e.requests)
  BY EngineFields
<1>2. f = With(status, e.suspended, e.ready, e.waiting, e.zombie,
            e.waitFor, e.sleeping, e.requests)
  BY <1>1 DEF With, SetStatus
<1>3. /\ e.status \in [Thread -> {"Unstarted", "Ready", "Waiting", "Terminated"}]
      /\ e.suspended \in SUBSET Thread /\ e.ready \in SUBSET Thread
      /\ e.waiting \in Seq(Thread) /\ NoRepeats(e.waiting)
      /\ e.zombie \in SUBSET Thread /\ e.sleeping \in SUBSET Thread
      /\ e.waitFor \in [Thread -> Wait \cup {NoWait}]
      /\ e.requests \in [Thread -> 0..MaxRequests]
  BY EngineFields
<1>4. /\ status \in [Thread -> {"Unstarted", "Ready", "Waiting", "Terminated"}]
      /\ status[t] = s /\ \A u \in Thread : u # t => status[u] = e.status[u]
  BY <1>3
<1>. HIDE DEF status, f
<1>5. Fits(e, t, status, e.suspended, e.ready, e.waiting, e.zombie,
            e.waitFor, e.sleeping, e.requests)
  BY <1>3, <1>4 DEF Fits
<1>6. Moves(e, f, t) /\ f.status = status
      /\ f.suspended = e.suspended /\ f.ready = e.ready /\ f.waiting = e.waiting
      /\ f.zombie = e.zombie /\ f.waitFor = e.waitFor /\ f.sleeping = e.sleeping
      /\ f.requests = e.requests
  BY <1>2, <1>5, FieldsMove
<1>. QED BY <1>4, <1>6 DEF f, status

LEMMA WaitForChanged ==
    ASSUME NEW e, Typed(e), NEW t \in Thread,
           NEW w \in Wait \cup {NoWait}
    PROVE  LET f == SetWaitFor(e, t, w)
           IN  /\ Moves(e, f, t) /\ f.waitFor[t] = w
               /\ f.status = e.status /\ f.suspended = e.suspended /\ f.ready = e.ready
               /\ f.waiting = e.waiting /\ f.zombie = e.zombie /\ f.sleeping = e.sleeping
               /\ f.requests = e.requests
<1>. DEFINE f == SetWaitFor(e, t, w)
            waitFor == [e.waitFor EXCEPT ![t] = w]
<1>1. e = With(e.status, e.suspended, e.ready, e.waiting, e.zombie,
               e.waitFor, e.sleeping, e.requests)
  BY EngineFields
<1>2. f = With(e.status, e.suspended, e.ready, e.waiting, e.zombie,
            waitFor, e.sleeping, e.requests)
  BY <1>1 DEF With, SetWaitFor
<1>3. /\ e.status \in [Thread -> {"Unstarted", "Ready", "Waiting", "Terminated"}]
      /\ e.suspended \in SUBSET Thread /\ e.ready \in SUBSET Thread
      /\ e.waiting \in Seq(Thread) /\ NoRepeats(e.waiting)
      /\ e.zombie \in SUBSET Thread /\ e.sleeping \in SUBSET Thread
      /\ e.waitFor \in [Thread -> Wait \cup {NoWait}]
      /\ e.requests \in [Thread -> 0..MaxRequests]
  BY EngineFields
<1>4. /\ waitFor \in [Thread -> Wait \cup {NoWait}]
      /\ waitFor[t] = w /\ \A u \in Thread : u # t => waitFor[u] = e.waitFor[u]
  BY <1>3
<1>. HIDE DEF waitFor, f
<1>5. Fits(e, t, e.status, e.suspended, e.ready, e.waiting, e.zombie,
            waitFor, e.sleeping, e.requests)
  BY <1>3, <1>4 DEF Fits
<1>6. Moves(e, f, t) /\ f.waitFor = waitFor
      /\ f.status = e.status /\ f.suspended = e.suspended /\ f.ready = e.ready
      /\ f.waiting = e.waiting /\ f.zombie = e.zombie /\ f.sleeping = e.sleeping
      /\ f.requests = e.requests
  BY <1>2, <1>5, FieldsMove
<1>. QED BY <1>4, <1>6 DEF f, waitFor

LEMMA RequestsChanged ==
    ASSUME NEW e, Typed(e), NEW t \in Thread,
           NEW n \in 0 .. MaxRequests
    PROVE  LET f == SetRequests(e, t, n)
           IN  /\ Moves(e, f, t) /\ f.requests[t] = n
               /\ f.status = e.status /\ f.suspended = e.suspended /\ f.ready = e.ready
               /\ f.waiting = e.waiting /\ f.zombie = e.zombie /\ f.waitFor = e.waitFor
               /\ f.sleeping = e.sleeping
<1>. DEFINE f == SetRequests(e, t, n)
            requests == [e.requests EXCEPT ![t] = n]
<1>1. e = With(e.status, e.suspended, e.ready, e.waiting, e.zombie,
               e.waitFor, e.sleeping, e.requests)
  BY EngineFields
<1>2. f = With(e.status, e.suspended, e.ready, e.waiting, e.zombie,
            e.waitFor, e.sleeping, requests)
  BY <1>1 DEF With, SetRequests
<1>3. /\ e.status \in [Thread -> {"Unstarted", "Ready", "Waiting", "Terminated"}]
      /\ e.suspended \in SUBSET Thread /\ e.ready \in SUBSET Thread
      /\ e.waiting \in Seq(Thread) /\ NoRepeats(e.waiting)
      /\ e.zombie \in SUBSET Thread /\ e.sleeping \in SUBSET Thread
      /\ e.waitFor \in [Thread -> Wait \cup {NoWait}]
      /\ e.requests \in [Thread -> 0..MaxRequests]
  BY EngineFields
<1>4. /\ requests \in [Thread -> 0..MaxRequests]
      /\ requests[t] = n /\ \A u \in Thread : u # t => requests[u] = e.requests[u]
  BY <1>3
<1>. HIDE DEF requests, f
<1>5. Fits(e, t, e.status, e.suspended, e.ready, e.waiting, e.zombie,
            e.waitFor, e.sleeping, requests)
  BY <1>3, <1>4 DEF Fits
<1>6. Moves(e, f, t) /\ f.requests = requests
      /\ f.status = e.status /\ f.suspended = e.suspended /\ f.ready = e.ready
      /\ f.waiting = e.waiting /\ f.zombie = e.zombie /\ f.waitFor = e.waitFor
      /\ f.sleeping = e.sleeping
  BY <1>2, <1>5, FieldsMove
<1>. QED BY <1>4, <1>6 DEF f, requests

LEMMA SuspendedChanged ==
    ASSUME NEW e, Typed(e), NEW t \in Thread,
           NEW suspended \in SUBSET Thread,
           \A u \in Thread : u # t => (u \in suspended <=> u \in e.suspended)
    PROVE  LET f == SetSuspended(e, suspended)
           IN  /\ Moves(e, f, t) /\ f.suspended = suspended
               /\ f.status = e.status /\ f.ready = e.ready /\ f.waiting = e.waiting
               /\ f.zombie = e.zombie /\ f.waitFor = e.waitFor /\ f.sleeping = e.sleeping
               /\ f.requests = e.requests
<1>. DEFINE f == SetSuspended(e, suspended)
<1>1. e = With(e.status, e.suspended, e.ready, e.waiting, e.zombie,
               e.waitFor, e.sleeping, e.requests)
  BY EngineFields
<1>2. f = With(e.status, suspended, e.ready, e.waiting, e.zombie,
            e.waitFor, e.sleeping, e.requests)
  BY <1>1 DEF With, SetSuspended
<1>3. /\ e.status \in [Thread -> {"Unstarted", "Ready", "Waiting", "Terminated"}]
      /\ e.suspended \in SUBSET Thread /\ e.ready \in SUBSET Thread
      /\ e.waiting \in Seq(Thread) /\ NoRepeats(e.waiting)
      /\ e.zombie \in SUBSET Thread /\ e.sleeping \in SUBSET Thread
      /\ e.waitFor \in [Thread -> Wait \cup {NoWait}]
      /\ e.requests \in [Thread -> 0..MaxRequests]
  BY EngineFields
<1>. HIDE DEF f
<1>4. Fits(e, t, e.status, suspended, e.ready, e.waiting, e.zombie,
            e.waitFor, e.sleeping, e.requests)
  BY <1>3 DEF Fits
<1>5. Moves(e, f, t) /\ f.suspended = suspended
      /\ f.status = e.status /\ f.ready = e.ready /\ f.waiting = e.waiting
      /\ f.zombie = e.zombie /\ f.waitFor = e.waitFor /\ f.sleeping = e.sleeping
      /\ f.requests = e.requests
  BY <1>2, <1>4, FieldsMove
<1>. QED BY <1>5 DEF f

LEMMA SleepingChanged ==
    ASSUME NEW e, Typed(e), NEW t \in Thread,
           NEW sleeping \in SUBSET Thread,
           \A u \in Thread : u # t => (u \in sleeping <=> u \in e.sleeping)
    PROVE  LET f == SetSleeping(e, sleeping)
           IN  /\ Moves(e, f, t) /\ f.sleeping = sleeping
               /\ f.status = e.status /\ f.suspended = e.suspended /\ f.ready = e.ready
               /\ f.waiting = e.waiting /\ f.zombie = e.zombie /\ f.waitFor = e.waitFor
               /\ f.requests = e.requests
<1>. DEFINE f == SetSleeping(e, sleeping)
<1>1. e = With(e.status, e.suspended, e.ready, e.waiting, e.zombie,
               e.waitFor, e.sleeping, e.requests)
  BY EngineFields
<1>2. f = With(e.status, e.suspended, e.ready, e.waiting, e.zombie,
            e.waitFor, sleeping, e.requests)
  BY <1>1 DEF With, SetSleeping
<1>3. /\ e.status \in [Thread -> {"Unstarted", "Ready", "Waiting", "Terminated"}]
      /\ e.suspended \in SUBSET Thread /\ e.ready \in SUBSET Thread
      /\ e.waiting \in Seq(Thread) /\ NoRepeats(e.waiting)
      /\ e.zombie \in SUBSET Thread /\ e.sleeping \in SUBSET Thread
      /\ e.waitFor \in [Thread -> Wait \cup {NoWait}]
      /\ e.requests \in [Thread -> 0..MaxRequests]
  BY EngineFields
<1>. HIDE DEF f
<1>4. Fits(e, t, e.status, e.suspended, e.ready, e.waiting, e.zombie,
            e.waitFor, sleeping, e.requests)
  BY <1>3 DEF Fits
<1>5. Moves(e, f, t) /\ f.sleeping = sleeping
      /\ f.status = e.status /\ f.suspended = e.suspended /\ f.ready = e.ready
      /\ f.waiting = e.waiting /\ f.zombie = e.zombie /\ f.waitFor = e.waitFor
      /\ f.requests = e.requests
  BY <1>2, <1>4, FieldsMove
<1>. QED BY <1>5 DEF f

\* Unlinking takes a thread out of every list.
LEMMA UnlinkFields ==
    ASSUME NEW e, Typed(e), NEW t
    PROVE  Unlink(e, t) =
             With(e.status, e.suspended, e.ready \ {t}, Unlinked(e.waiting, t), e.zombie \ {t},
            e.waitFor, e.sleeping, e.requests)
<1>. DEFINE left == Unlinked(e.waiting, t)
            e1 == [e EXCEPT !.ready = e.ready \ {t}]
            e2 == [e1 EXCEPT !.waiting = left]
<1>1. e = With(e.status, e.suspended, e.ready, e.waiting, e.zombie,
               e.waitFor, e.sleeping, e.requests)
  BY EngineFields
<1>. HIDE DEF left
<1>2. e1 = With(e.status, e.suspended, e.ready \ {t}, e.waiting, e.zombie,
            e.waitFor, e.sleeping, e.requests)
  BY <1>1 DEF With
<1>. HIDE DEF e1
<1>3. e2 = With(e.status, e.suspended, e.ready \ {t}, left, e.zombie,
            e.waitFor, e.sleeping, e.requests)
  BY <1>2 DEF With
<1>. HIDE DEF e2
<1>4. [e2 EXCEPT !.zombie = e.zombie \ {t}] = With(e.status, e.suspended, e.ready \ {t}, left, e.zombie \ {t},
            e.waitFor, e.sleeping, e.requests)
  BY <1>3 DEF With
<1>5. Unlink(e, t) = [e2 EXCEPT !.zombie = e.zombie \ {t}]
  BY DEF Unlink, e2, e1, left
<1>. QED BY <1>4, <1>5 DEF left

\* A thread that is ready and not suspended joins those that run, and forgets
\* what it waited for; any other waits, and forgets nothing.
LEMMA Placed ==
    ASSUME NEW e, Typed(e), NEW t \in Thread, NoWait \notin Wait
    PROVE  LET f == PutInProperList(e, t)
           IN  /\ Moves(e, f, t)
               /\ f.status = e.status /\ f.suspended = e.suspended
               /\ f.requests = e.requests /\ t \notin f.zombie
               /\ e.status[t] = "Ready" /\ t \notin e.suspended =>
                     /\ t \in f.ready /\ t \notin ToSet(f.waiting)
                     /\ t \notin f.sleeping /\ f.waitFor[t] = NoWait
                     /\ f.waiting = Unlinked(e.waiting, t)
               /\ ~(e.status[t] = "Ready" /\ t \notin e.suspended) =>
                     /\ t \notin f.ready /\ t \in ToSet(f.waiting)
                     /\ f.sleeping = e.sleeping /\ f.waitFor = e.waitFor
                     /\ f.waiting = LinkedAtBack(e.waiting, t)
<1>. DEFINE f == PutInProperList(e, t)
            left == Unlinked(e.waiting, t)
            back == LinkedAtBack(e.waiting, t)
            waitFor == [e.waitFor EXCEPT ![t] = NoWait]
<1>1. e = With(e.status, e.suspended, e.ready, e.waiting, e.zombie,
               e.waitFor, e.sleeping, e.requests)
  BY EngineFields
<1>2. /\ e.status \in [Thread -> {"Unstarted", "Ready", "Waiting", "Terminated"}]
      /\ e.suspended \in SUBSET Thread /\ e.ready \in SUBSET Thread
      /\ e.waiting \in Seq(Thread) /\ NoRepeats(e.waiting)
      /\ e.zombie \in SUBSET Thread /\ e.sleeping \in SUBSET Thread
      /\ e.waitFor \in [Thread -> Wait \cup {NoWait}]
      /\ e.requests \in [Thread -> 0..MaxRequests]
  BY EngineFields
<1>3. /\ left \in Seq(Thread) /\ NoRepeats(left)
      /\ ToSet(left) = ToSet(e.waiting) \ {t}
  BY <1>2, UnlinkedProperties
<1>4. /\ back \in Seq(Thread) /\ NoRepeats(back)
      /\ ToSet(back) = ToSet(e.waiting) \cup {t}
      /\ back = Append(left, t)
  BY <1>2, LinkedAtBackProperties DEF LinkedAtBack
<1>5. /\ waitFor \in [Thread -> Wait \cup {NoWait}] /\ waitFor[t] = NoWait
      /\ \A u \in Thread : u # t => waitFor[u] = e.waitFor[u]
  BY <1>2
<1>. DEFINE unlinked == With(e.status, e.suspended, e.ready \ {t}, left, e.zombie \ {t},
            e.waitFor, e.sleeping, e.requests)
<1>6. Unlink(e, t) = unlinked
  BY UnlinkFields
<1>7. CASE e.status[t] = "Ready" /\ t \notin e.suspended
  <2>. DEFINE ready == (e.ready \ {t}) \cup {t}
              zombie == e.zombie \ {t}
              sleeping == e.sleeping \ {t}
              f1 == [unlinked EXCEPT !.ready = ready]
              f2 == [f1 EXCEPT !.sleeping = sleeping]
  <2>1. f = With(e.status, e.suspended, ready, left, zombie,
            waitFor, sleeping, e.requests)
    <3>0. /\ unlinked.ready = e.ready \ {t} /\ unlinked.sleeping = e.sleeping
          /\ unlinked.waitFor = e.waitFor
      BY DEF With
    <3>. HIDE DEF waitFor, left
    <3>1. f1 = With(e.status, e.suspended, ready, left, zombie,
            e.waitFor, e.sleeping, e.requests)
      BY DEF With
    <3>. HIDE DEF unlinked, f1
    <3>2. f2 = With(e.status, e.suspended, ready, left, zombie,
            e.waitFor, sleeping, e.requests)
      BY <3>1 DEF With
    <3>. HIDE DEF f2
    <3>3. [f2 EXCEPT !.waitFor = waitFor] = With(e.status, e.suspended, ready, left, zombie,
            waitFor, sleeping, e.requests)
      BY <3>2 DEF With
    <3>4. f = [f2 EXCEPT !.waitFor = waitFor]
      <4>1. f = InsertThreadRoundRobin(e, t)
        BY <1>7 DEF PutInProperList
      <4>2. InsertThreadRoundRobin(e, t) =
              [unlinked EXCEPT !.ready = @ \cup {t}, !.sleeping = @ \ {t},
                               !.waitFor[t] = NoWait]
        BY <1>6 DEF InsertThreadRoundRobin
      <4>. HIDE DEF f
      <4>. QED BY <3>0, <4>1, <4>2 DEF f1, f2, waitFor
    <3>. QED BY <3>3, <3>4
  <2>. HIDE DEF f, left, back, waitFor, ready, sleeping, zombie
  <2>2. /\ ready \in SUBSET Thread /\ sleeping \in SUBSET Thread
        /\ zombie \in SUBSET Thread /\ t \in ready /\ t \notin sleeping /\ t \notin zombie
        /\ \A u \in Thread : u # t => /\ u \in ready <=> u \in e.ready
                                      /\ u \in sleeping <=> u \in e.sleeping
                                      /\ u \in zombie <=> u \in e.zombie
    BY <1>2 DEF ready, sleeping, zombie
  <2>3. \A u \in Thread : u # t => (u \in ToSet(left) <=> u \in ToSet(e.waiting))
    BY <1>3
  <2>5. Fits(e, t, e.status, e.suspended, ready, left, zombie,
            waitFor, sleeping, e.requests)
    BY <1>2, <1>3, <1>5, <2>2, <2>3 DEF Fits
  <2>4. /\ Moves(e, f, t)
        /\ f.status = e.status /\ f.suspended = e.suspended /\ f.ready = ready
        /\ f.waiting = left /\ f.zombie = zombie /\ f.waitFor = waitFor
        /\ f.sleeping = sleeping /\ f.requests = e.requests
    BY <2>1, <2>5, FieldsMove
  <2>. QED BY <1>3, <1>5, <1>7, <2>2, <2>4 DEF f, left
<1>8. CASE ~(e.status[t] = "Ready" /\ t \notin e.suspended)
  <2>. DEFINE ready == e.ready \ {t}
              zombie == e.zombie \ {t}
  <2>1. f = With(e.status, e.suspended, ready, back, zombie,
            e.waitFor, e.sleeping, e.requests)
    <3>1. f = [unlinked EXCEPT !.waiting = Append(@, t)]
      BY <1>6, <1>8 DEF PutInProperList
    <3>2. unlinked.waiting = left
      BY DEF With
    <3>. HIDE DEF f, left, back
    <3>. QED BY <1>4, <3>1, <3>2 DEF With
  <2>. HIDE DEF f, left, back, waitFor, ready, zombie
  <2>2. /\ ready \in SUBSET Thread /\ zombie \in SUBSET Thread
        /\ t \notin ready /\ t \notin zombie
        /\ \A u \in Thread : u # t => /\ u \in ready <=> u \in e.ready
                                      /\ u \in zombie <=> u \in e.zombie
    BY <1>2 DEF ready, zombie
  <2>3. \A u \in Thread : u # t => (u \in ToSet(back) <=> u \in ToSet(e.waiting))
    BY <1>4
  <2>5. Fits(e, t, e.status, e.suspended, ready, back, zombie,
            e.waitFor, e.sleeping, e.requests)
    BY <1>2, <1>4, <2>2, <2>3 DEF Fits
  <2>4. /\ Moves(e, f, t)
        /\ f.status = e.status /\ f.suspended = e.suspended /\ f.ready = ready
        /\ f.waiting = back /\ f.zombie = zombie /\ f.waitFor = e.waitFor
        /\ f.sleeping = e.sleeping /\ f.requests = e.requests
    BY <2>1, <2>5, FieldsMove
  <2>. QED BY <1>4, <1>8, <2>2, <2>4 DEF f, back
<1>. QED BY <1>7, <1>8

\* A thread that waits for a lock has one request and waits for nothing else.
OneRequest(e, t) ==
    e.requests[t] # 0 => /\ e.requests[t] = 1 /\ e.status[t] = "Waiting"
                         /\ t \notin e.sleeping /\ e.waitFor[t] = NoWait
Settled(e, t) == InItsList(e, t) /\ WaitsApart(e, t)

\* Wherever a thread that is alive comes from, PutInProperList puts it where
\* its status calls for.
LEMMA PlacedSettles ==
    ASSUME NEW e, Typed(e), NEW t \in Thread, NoWait \notin Wait,
           e.status[t] \in {"Ready", "Waiting"}, OneRequest(e, t)
    PROVE  Settled(PutInProperList(e, t), t)
<1>. DEFINE f == PutInProperList(e, t)
<1>1. /\ f.status[t] = e.status[t] /\ (t \in f.suspended <=> t \in e.suspended)
      /\ f.requests[t] = e.requests[t] /\ t \notin f.zombie
      /\ e.status[t] = "Ready" /\ t \notin e.suspended =>
            /\ t \in f.ready /\ t \notin ToSet(f.waiting)
            /\ t \notin f.sleeping /\ f.waitFor[t] = NoWait
      /\ ~(e.status[t] = "Ready" /\ t \notin e.suspended) =>
            /\ t \notin f.ready /\ t \in ToSet(f.waiting)
            /\ (t \in f.sleeping <=> t \in e.sleeping) /\ f.waitFor[t] = e.waitFor[t]
  BY Placed
<1>. HIDE DEF f
<1>2. InItsList(f, t)
  BY <1>1 DEF InItsList
<1>3. WaitsApart(f, t)
  BY <1>1 DEF WaitsApart, OneRequest
<1>. QED BY <1>2, <1>3 DEF Settled, f

\* A restarted thread is ready, unless it is suspended.
LEMMA Restarted ==
    ASSUME NEW e, Typed(e), NEW t \in Thread, NoWait \notin Wait,
           NEW d \in BOOLEAN
    PROVE  LET f == Restart(e, t, d)
           IN  /\ Moves(e, f, t)
               /\ f.status[t] = "Ready" /\ f.suspended = e.suspended
               /\ f.requests = e.requests /\ t \notin f.zombie
               /\ t \notin e.suspended =>
                     /\ t \in f.ready /\ t \notin ToSet(f.waiting)
                     /\ t \notin f.sleeping /\ f.waitFor[t] = NoWait
                     /\ f.waiting = Unlinked(e.waiting, t)
               /\ t \in e.suspended =>
                     /\ t \notin f.ready /\ t \in ToSet(f.waiting)
                     /\ f.waitFor = e.waitFor
                     /\ f.waiting = LinkedAtBack(e.waiting, t)
<1>. DEFINE f == Restart(e, t, d)
            g == SetStatus(e, t, "Ready")
            q == PutInProperList(g, t)
            s == SetSleeping(q, q.sleeping \ {t})
<1>1. /\ Moves(e, g, t) /\ g.status[t] = "Ready"
      /\ g.suspended = e.suspended /\ g.waiting = e.waiting /\ g.waitFor = e.waitFor
      /\ g.requests = e.requests
  BY StatusChanged
<1>2. Typed(g)
  BY <1>1 DEF Moves
<1>3. f = IF d THEN s ELSE q
  BY DEF Restart, SetStatus, SetSleeping
<1>. HIDE DEF f, g
<1>4. /\ Moves(g, q, t)
      /\ q.status[t] = "Ready" /\ q.suspended = e.suspended
      /\ q.requests = e.requests /\ t \notin q.zombie
      /\ t \notin e.suspended =>
            /\ t \in q.ready /\ t \notin ToSet(q.waiting)
            /\ t \notin q.sleeping /\ q.waitFor[t] = NoWait
            /\ q.waiting = Unlinked(e.waiting, t)
      /\ t \in e.suspended =>
            /\ t \notin q.ready /\ t \in ToSet(q.waiting)
            /\ q.waitFor = e.waitFor
            /\ q.waiting = LinkedAtBack(e.waiting, t)
  BY <1>1, <1>2, Placed
<1>. HIDE DEF q
<1>5. Moves(e, q, t) /\ Typed(q)
  BY <1>1, <1>4, MovesTwice DEF Moves
<1>6. /\ q.sleeping \ {t} \in SUBSET Thread
      /\ \A u \in Thread : u # t => (u \in q.sleeping \ {t} <=> u \in q.sleeping)
  BY <1>5, EngineFields
<1>7. /\ Moves(q, s, t) /\ s.sleeping = q.sleeping \ {t}
      /\ s.status = q.status /\ s.suspended = q.suspended /\ s.ready = q.ready
      /\ s.waiting = q.waiting /\ s.zombie = q.zombie /\ s.waitFor = q.waitFor
      /\ s.requests = q.requests
  BY <1>5, <1>6, SleepingChanged
<1>. HIDE DEF s
<1>8. Moves(e, s, t)
  BY <1>5, <1>7, MovesTwice
<1>9. CASE d
  BY <1>3, <1>4, <1>7, <1>8, <1>9 DEF f
<1>10. CASE ~d
  BY <1>3, <1>4, <1>5, <1>10 DEF f
<1>. QED BY <1>9, <1>10

LEMMA RestartedSettles ==
    ASSUME NEW e, Typed(e), NEW t \in Thread, NoWait \notin Wait,
           NEW d \in BOOLEAN, e.requests[t] = 0
    PROVE  Settled(Restart(e, t, d), t)
<1>. DEFINE f == Restart(e, t, d)
<1>1. /\ f.status[t] = "Ready" /\ (t \in f.suspended <=> t \in e.suspended)
      /\ f.requests[t] = 0 /\ t \notin f.zombie
      /\ t \notin e.suspended =>
            /\ t \in f.ready /\ t \notin ToSet(f.waiting)
            /\ t \notin f.sleeping /\ f.waitFor[t] = NoWait
      /\ t \in e.suspended => t \notin f.ready /\ t \in ToSet(f.waiting)
  BY Restarted
<1>. HIDE DEF f
<1>2. InItsList(f, t)
  BY <1>1 DEF InItsList
<1>3. WaitsApart(f, t)
  BY <1>1 DEF WaitsApart
<1>. QED BY <1>2, <1>3 DEF Settled, f

\* A thread that stops to wait is not ready.
LEMMA Stopped ==
    ASSUME NEW e, Typed(e), NEW t \in Thread, NoWait \notin Wait
    PROVE  LET f == StopToWait(e, t)
           IN  /\ Moves(e, f, t)
               /\ f.status[t] = "Waiting" /\ f.suspended = e.suspended
               /\ f.requests = e.requests /\ t \notin f.zombie
               /\ t \notin f.ready /\ t \in ToSet(f.waiting)
               /\ f.sleeping = e.sleeping /\ f.waitFor = e.waitFor
               /\ f.waiting = LinkedAtBack(e.waiting, t)
<1>. DEFINE g == SetStatus(e, t, "Waiting")
            f == PutInProperList(g, t)
<1>1. /\ Moves(e, g, t) /\ g.status[t] = "Waiting"
      /\ g.suspended = e.suspended /\ g.waiting = e.waiting /\ g.waitFor = e.waitFor
      /\ g.requests = e.requests /\ g.sleeping = e.sleeping
  BY StatusChanged
<1>2. Typed(g)
  BY <1>1 DEF Moves
<1>3. StopToWait(e, t) = f
  BY DEF StopToWait, SetStatus
<1>. HIDE DEF g
<1>4. /\ Moves(g, f, t)
      /\ f.status = g.status /\ f.suspended = e.suspended
      /\ f.requests = e.requests /\ t \notin f.zombie
      /\ t \notin f.ready /\ t \in ToSet(f.waiting)
      /\ f.sleeping = e.sleeping /\ f.waitFor = e.waitFor
      /\ f.waiting = LinkedAtBack(e.waiting, t)
  BY <1>1, <1>2, Placed
<1>. HIDE DEF f
<1>5. Moves(e, f, t)
  BY <1>1, <1>4, MovesTwice
<1>. QED BY <1>1, <1>3, <1>4, <1>5

LEMMA StoppedSettles ==
    ASSUME NEW e, Typed(e), NEW t \in Thread, NoWait \notin Wait,
           e.requests[t] # 0 =>
              e.requests[t] = 1 /\ t \notin e.sleeping /\ e.waitFor[t] = NoWait
    PROVE  Settled(StopToWait(e, t), t)
<1>. DEFINE f == StopToWait(e, t)
<1>1. /\ f.status[t] = "Waiting" /\ (t \in f.suspended <=> t \in e.suspended)
      /\ f.requests[t] = e.requests[t] /\ t \notin f.zombie
      /\ t \notin f.ready /\ t \in ToSet(f.waiting)
      /\ (t \in f.sleeping <=> t \in e.sleeping) /\ f.waitFor[t] = e.waitFor[t]
  BY Stopped
<1>. HIDE DEF f
<1>2. InItsList(f, t)
  BY <1>1 DEF InItsList
<1>3. WaitsApart(f, t)
  BY <1>1 DEF WaitsApart
<1>. QED BY <1>2, <1>3 DEF Settled, f

LEMMA SettlesAll ==
    ASSUME NEW e, NEW f, NEW t \in Thread, EngineOK(e), Moves(e, f, t), Settled(f, t)
    PROVE  EngineOK(f)
BY OthersKept DEF Settled

-----------------------------------------------------------------------------
(***************************************************************************)
(* Steps that leave the locks alone.                                       *)
(***************************************************************************)
Sane(t) == Alive(t) \/ Ends(t)

LEMMA LocksKept ==
    ASSUME LocksTyped, Owned, Queued, UNCHANGED <<lock, locks>>,
           \A t \in Thread : exec'.requests[t] = exec.requests[t],
           \A t \in Thread : Sane(t) => Sane(t)'
    PROVE  LocksTyped' /\ Owned' /\ Queued'
<1>1. LocksTyped'
  BY DEF LocksTyped
<1>2. ASSUME NEW o \in Object, lock[o].owner # Nobody
      PROVE  Alive(lock[o].owner)' \/ Ends(lock[o].owner)'
  <2>1. lock[o].owner \in Thread /\ Sane(lock[o].owner)
    BY <1>2 DEF LocksTyped, Owned, Sane
  <2>2. Sane(lock[o].owner)'
    BY <2>1
  <2>. QED BY <2>2 DEF Sane
<1>3. Owned'
  BY <1>2 DEF Owned
<1>4. Queued'
  BY DEF Queued
<1>. QED BY <1>1, <1>3, <1>4

LEMMA NobodyEnds ==
    ASSUME ThreadAssumption, scan = NoScan
    PROVE  \A t : ~Ends(t)
BY DEF ThreadAssumption, Ends

\* A call that puts a living thread where it belongs.
LEMMA PlainStep ==
    ASSUME ThreadAssumption, ThreadInv, scan = NoScan, scan' = NoScan,
           UNCHANGED <<lock, locks>>, NEW t \in Thread,
           Moves(exec, exec', t), Settled(exec', t),
           exec'.requests[t] = exec.requests[t],
           exec'.status[t] \in {"Ready", "Waiting"},
           signaled' \subseteq Handle, signaled' \cap Thread \subseteq signaled \ {t},
           result' \in [Thread -> {"init", "handle", "timeout"}]
    PROVE  ThreadInv'
<1>1. EngineOK(exec)'
  BY SettlesAll DEF ThreadInv
<1>2. \A u \in Thread : exec'.requests[u] = exec.requests[u]
  BY DEF Moves, SameRow
<1>3. \A u \in Thread : u # t => exec'.status[u] = exec.status[u]
  BY DEF Moves, SameRow
<1>4. ASSUME NEW u \in Thread, Sane(u)
      PROVE  Sane(u)'
  BY <1>3, <1>4, NobodyEnds DEF Sane, Alive
<1>5. LocksTyped' /\ Owned' /\ Queued'
  BY <1>2, <1>4, LocksKept DEF ThreadInv
<1>6. GoingOn'
  <2>1. \A u \in Thread : u \in signaled' => exec'.status[u] = "Terminated"
    BY <1>3 DEF ThreadInv, GoingOn
  <2>2. scan' \notin Scan \cup Destroy
    BY DEF ThreadAssumption
  <2>. QED BY <2>1, <2>2 DEF GoingOn, Ends
<1>. QED BY <1>1, <1>5, <1>6 DEF ThreadInv

\* A call that moves no thread, with a walk that begins or without.
LEMMA FirstIsMember ==
    ASSUME NEW S, NEW list \in Seq(S)
    PROVE  /\ list = <<>> => FirstOf(list) = End
           /\ list # <<>> => FirstOf(list) = list[1] /\ FirstOf(list) \in ToSet(list)
                             /\ FirstOf(list) \in S
<1>1. ASSUME list # <<>>
      PROVE  list[1] \in ToSet(list) /\ list[1] \in S /\ Head(list) = list[1]
  <2>1. Len(list) \in Nat \ {0} /\ DOMAIN list = 1..Len(list)
    BY <1>1, LenProperties, EmptySeq
  <2>. QED BY <2>1, ElementOfSeq, HeadTailProperties DEF ToSet
<1>. QED BY <1>1 DEF FirstOf

LEMMA HandleStep ==
    ASSUME ThreadAssumption, ThreadInv, scan = NoScan,
           UNCHANGED <<exec, lock, locks>>,
           \/ scan' = NoScan
           \/ scan' \in Scan /\ scan'.ends = Nobody /\ scan'.at = FirstOf(exec.waiting),
           signaled' \subseteq Handle, signaled' \cap Thread \subseteq signaled,
           result' \in [Thread -> {"init", "handle", "timeout"}]
    PROVE  ThreadInv'
<1>1. EngineOK(exec)'
  BY DEF ThreadInv
<1>2. ASSUME NEW u \in Thread, Sane(u)
      PROVE  Sane(u)'
  BY <1>2, NobodyEnds DEF Sane, Alive
<1>3. LocksTyped' /\ Owned' /\ Queued'
  BY <1>2, LocksKept DEF ThreadInv
<1>4. \A u \in Thread : u \in signaled' => exec'.status[u] = "Terminated"
  BY DEF ThreadInv, GoingOn
<1>5. GoingOn'
  <2>1. CASE scan' = NoScan
    <3>1. scan' \notin Scan \cup Destroy
      BY <2>1 DEF ThreadAssumption
    <3>. QED BY <1>4, <2>1, <3>1 DEF GoingOn, Ends
  <2>2. CASE scan' \in Scan /\ scan'.ends = Nobody /\ scan'.at = FirstOf(exec.waiting)
    <3>1. scan' \notin Destroy
      BY <2>2 DEF Scan, Destroy
    <3>2. scan'.at = End \/ scan'.at \in ToSet(exec'.waiting)
      <4>1. exec.waiting \in Seq(Thread)
        BY DEF ThreadInv, EngineOK, Typed, Engine
      <4>. QED BY <2>2, <4>1, FirstIsMember
    <3>3. \A u \in Thread : ~Ends(u)'
      BY <2>2 DEF Ends, ThreadAssumption
    <3>. QED BY <1>4, <2>2, <3>1, <3>2, <3>3 DEF GoingOn
  <2>. QED BY <2>1, <2>2
<1>. QED BY <1>1, <1>3, <1>5 DEF ThreadInv

-----------------------------------------------------------------------------
(***************************************************************************)
(* Threads.                                                                *)
(***************************************************************************)
LEMMA ThreadFacts ==
    ASSUME ThreadAssumption, ThreadInv
    PROVE  /\ Typed(exec) /\ NoWait \notin Wait
           /\ signaled \subseteq Handle
           /\ result \in [Thread -> {"init", "handle", "timeout"}]
           /\ exec.status \in [Thread -> {"Unstarted", "Ready", "Waiting", "Terminated"}]
           /\ exec.suspended \subseteq Thread /\ exec.sleeping \subseteq Thread
           /\ exec.ready \subseteq Thread
           /\ exec.waiting \in Seq(Thread) /\ NoRepeats(exec.waiting)
           /\ exec.waitFor \in [Thread -> Wait \cup {NoWait}]
           /\ exec.requests \in [Thread -> 0..MaxRequests]
           /\ MaxRequests \in Nat /\ MaxRecursion \in Nat
<1>1. Typed(exec)
  BY DEF ThreadInv, EngineOK
<1>. QED BY <1>1, EngineFields DEF ThreadInv, GoingOn, ThreadAssumption

\* A thread that runs waits for nothing.
LEMMA ReadyThread ==
    ASSUME ThreadInv, NEW t \in Thread, t \in exec.ready
    PROVE  /\ exec.status[t] = "Ready" /\ t \notin exec.suspended
           /\ exec.requests[t] = 0 /\ t \notin exec.sleeping
           /\ exec.waitFor[t] = NoWait /\ t \notin signaled /\ Alive(t)
<1>1. InItsList(exec, t) /\ WaitsApart(exec, t)
  BY DEF ThreadInv, EngineOK
<1>2. exec.status[t] = "Ready" /\ t \notin exec.suspended
  BY <1>1 DEF InItsList
<1>3. exec.requests[t] = 0 /\ t \notin exec.sleeping /\ exec.waitFor[t] = NoWait
  BY <1>1 DEF WaitsApart
<1>4. t \notin signaled
  BY <1>2 DEF ThreadInv, GoingOn
<1>. QED BY <1>2, <1>3, <1>4 DEF Alive

LEMMA AliveThread ==
    ASSUME ThreadInv, NEW t \in Thread
    PROVE  /\ Alive(t) => t \notin signaled
           /\ OneRequest(exec, t)
           /\ exec.requests[t] # 0 \/ exec.waitFor[t] # NoWait \/ t \in exec.sleeping
                 => Alive(t) /\ t \notin exec.ready
           /\ exec.waitFor[t] # NoWait \/ t \in exec.sleeping => exec.requests[t] = 0
           /\ t \in ToSet(exec.waiting) <=> Alive(t) /\ t \notin exec.ready
<1>1. InItsList(exec, t) /\ WaitsApart(exec, t)
  BY DEF ThreadInv, EngineOK
<1>2. Alive(t) => t \notin signaled
  BY DEF ThreadInv, GoingOn, Alive
<1>3. OneRequest(exec, t)
  BY <1>1 DEF WaitsApart, OneRequest
<1>4. exec.requests[t] # 0 \/ exec.waitFor[t] # NoWait \/ t \in exec.sleeping
         => Alive(t) /\ t \notin exec.ready
  BY <1>1 DEF WaitsApart, Alive
<1>5. exec.waitFor[t] # NoWait \/ t \in exec.sleeping => exec.requests[t] = 0
  BY <1>1 DEF WaitsApart
<1>6. t \in ToSet(exec.waiting) <=> Alive(t) /\ t \notin exec.ready
  BY <1>1 DEF InItsList, Alive
<1>. QED BY <1>2, <1>3, <1>4, <1>5, <1>6

LEMMA StartKeeps ==
    ASSUME ThreadAssumption, ThreadInv, NEW t \in Thread, NEW u \in Thread, Start(t, u)
    PROVE  ThreadInv'
<1>. DEFINE g == SetStatus(exec, u, "Ready")
            f == PutInProperList(g, u)
<1>1. /\ ~Started(u) /\ scan = NoScan /\ exec' = f
      /\ signaled' = signaled \ {u} /\ UNCHANGED <<result, lock, locks, scan>>
  BY DEF Start, Runs, Scheduled, SetStatus
<1>2. Typed(exec) /\ NoWait \notin Wait
  BY ThreadFacts
<1>3. /\ Moves(exec, g, u) /\ g.status[u] = "Ready"
      /\ g.requests = exec.requests
  BY <1>2, StatusChanged
<1>4. exec.requests[u] = 0
  BY <1>1, AliveThread DEF Started, Alive
<1>5. Typed(g) /\ g.status[u] \in {"Ready", "Waiting"} /\ OneRequest(g, u)
  BY <1>3, <1>4 DEF Moves, OneRequest
<1>. HIDE DEF g
<1>6. Moves(g, f, u) /\ f.status = g.status /\ f.requests = g.requests
  BY <1>2, <1>5, Placed
<1>7. Settled(f, u)
  BY <1>2, <1>5, PlacedSettles
<1>. HIDE DEF f
<1>8. Moves(exec, f, u)
  BY <1>3, <1>6, MovesTwice
<1>9. /\ Moves(exec, exec', u) /\ Settled(exec', u)
      /\ exec'.requests[u] = exec.requests[u]
      /\ exec'.status[u] \in {"Ready", "Waiting"}
  BY <1>1, <1>3, <1>5, <1>6, <1>7, <1>8
<1>10. /\ signaled' \subseteq Handle /\ signaled' \cap Thread \subseteq signaled \ {u}
       /\ result' \in [Thread -> {"init", "handle", "timeout"}] /\ scan' = NoScan
  BY <1>1, ThreadFacts
<1>. QED BY <1>1, <1>9, <1>10, PlainStep

LEMMA QuantumExpiredKeeps ==
    ASSUME ThreadAssumption, ThreadInv, NEW t \in Thread, QuantumExpired(t)
    PROVE  ThreadInv'
<1>. DEFINE f == PutInProperList(exec, t)
<1>1. /\ t \in exec.ready /\ scan = NoScan /\ exec' = f
      /\ UNCHANGED <<result, lock, locks, signaled, scan>>
  BY DEF QuantumExpired, Scheduled
<1>2. Typed(exec) /\ NoWait \notin Wait
  BY ThreadFacts
<1>3. /\ exec.status[t] \in {"Ready", "Waiting"} /\ OneRequest(exec, t) /\ t \notin signaled
  BY <1>1, ReadyThread, AliveThread
<1>4. /\ Moves(exec, f, t) /\ f.status = exec.status /\ f.requests = exec.requests
      /\ Settled(f, t)
  BY <1>2, <1>3, Placed, PlacedSettles
<1>. HIDE DEF f
<1>5. /\ Moves(exec, exec', t) /\ Settled(exec', t)
      /\ exec'.requests[t] = exec.requests[t]
      /\ exec'.status[t] \in {"Ready", "Waiting"}
  BY <1>1, <1>3, <1>4
<1>6. /\ signaled' \subseteq Handle /\ signaled' \cap Thread \subseteq signaled \ {t}
      /\ result' \in [Thread -> {"init", "handle", "timeout"}] /\ scan' = NoScan
  BY <1>1, <1>3, ThreadFacts
<1>. QED BY <1>1, <1>5, <1>6, PlainStep

LEMMA SleepKeeps ==
    ASSUME ThreadAssumption, ThreadInv, NEW t \in Thread, Sleep(t)
    PROVE  ThreadInv'
<1>. DEFINE g == SetSleeping(exec, exec.sleeping \cup {t})
            f == StopToWait(g, t)
<1>1. /\ t \in exec.ready /\ scan = NoScan /\ exec' = f
      /\ UNCHANGED <<result, lock, locks, signaled, scan>>
  BY DEF Sleep, Runs, Scheduled, SetSleeping
<1>2. Typed(exec) /\ NoWait \notin Wait
  BY ThreadFacts
<1>3. exec.requests[t] = 0 /\ t \notin signaled
  BY <1>1, ReadyThread
<1>4. Moves(exec, g, t) /\ g.requests = exec.requests
  <2>1. /\ exec.sleeping \cup {t} \in SUBSET Thread
        /\ \A u \in Thread : u # t =>
              (u \in exec.sleeping \cup {t} <=> u \in exec.sleeping)
    BY ThreadFacts
  <2>. QED BY <1>2, <2>1, SleepingChanged
<1>5. Typed(g)
  BY <1>4 DEF Moves
<1>. HIDE DEF g
<1>6. /\ Moves(g, f, t) /\ f.status[t] = "Waiting" /\ f.requests = g.requests
      /\ Settled(f, t)
  BY <1>2, <1>3, <1>4, <1>5, Stopped, StoppedSettles
<1>. HIDE DEF f
<1>7. /\ Moves(exec, exec', t) /\ Settled(exec', t)
      /\ exec'.requests[t] = exec.requests[t]
      /\ exec'.status[t] \in {"Ready", "Waiting"}
  BY <1>1, <1>4, <1>6, MovesTwice
<1>8. /\ signaled' \subseteq Handle /\ signaled' \cap Thread \subseteq signaled \ {t}
      /\ result' \in [Thread -> {"init", "handle", "timeout"}] /\ scan' = NoScan
  BY <1>1, <1>3, ThreadFacts
<1>. QED BY <1>1, <1>7, <1>8, PlainStep

\* Suspend and Resume change the flag of a living thread and put it where it
\* belongs then.
LEMMA SuspendedChangeKeeps ==
    ASSUME ThreadAssumption, ThreadInv, NEW u \in Thread, Alive(u), scan = NoScan,
           NEW set \in SUBSET Thread,
           \A v \in Thread : v # u => (v \in set <=> v \in exec.suspended),
           exec' = PutInProperList(SetSuspended(exec, set), u),
           UNCHANGED <<result, lock, locks, signaled, scan>>
    PROVE  ThreadInv'
<1>. DEFINE g == SetSuspended(exec, set)
            f == PutInProperList(g, u)
<1>1. Typed(exec) /\ NoWait \notin Wait
  BY ThreadFacts
<1>2. /\ exec.status[u] \in {"Ready", "Waiting"} /\ OneRequest(exec, u)
      /\ u \notin signaled
  BY AliveThread DEF Alive
<1>3. /\ Moves(exec, g, u) /\ g.status = exec.status /\ g.requests = exec.requests
      /\ g.sleeping = exec.sleeping /\ g.waitFor = exec.waitFor
  BY <1>1, SuspendedChanged
<1>4. Typed(g) /\ g.status[u] \in {"Ready", "Waiting"} /\ OneRequest(g, u)
  BY <1>2, <1>3 DEF Moves, OneRequest
<1>5. exec' = f
  OBVIOUS
<1>. HIDE DEF g
<1>6. /\ Moves(g, f, u) /\ f.status = g.status /\ f.requests = g.requests
      /\ Settled(f, u)
  BY <1>1, <1>4, Placed, PlacedSettles
<1>. HIDE DEF f
<1>7. /\ Moves(exec, exec', u) /\ Settled(exec', u)
      /\ exec'.requests[u] = exec.requests[u]
      /\ exec'.status[u] \in {"Ready", "Waiting"}
  BY <1>2, <1>3, <1>5, <1>6, MovesTwice
<1>8. /\ signaled' \subseteq Handle /\ signaled' \cap Thread \subseteq signaled \ {u}
      /\ result' \in [Thread -> {"init", "handle", "timeout"}] /\ scan' = NoScan
      /\ UNCHANGED <<lock, locks>>
  BY <1>2, ThreadFacts
<1>. QED BY <1>7, <1>8, PlainStep

LEMMA SuspendKeeps ==
    ASSUME ThreadAssumption, ThreadInv, NEW t \in Thread, NEW u \in Thread,
           Suspend(t, u) \/ Resume(t, u)
    PROVE  ThreadInv'
<1>1. ASSUME Suspend(t, u)
      PROVE  ThreadInv'
  <2>. DEFINE set == exec.suspended \cup {u}
  <2>1. /\ Alive(u) /\ scan = NoScan /\ exec' = PutInProperList(SetSuspended(exec, set), u)
        /\ UNCHANGED <<result, lock, locks, signaled, scan>>
    BY <1>1 DEF Suspend, Runs, Scheduled, SetSuspended
  <2>2. set \in SUBSET Thread /\ \A v \in Thread : v # u => (v \in set <=> v \in exec.suspended)
    BY ThreadFacts
  <2>. QED BY <2>1, <2>2, SuspendedChangeKeeps
<1>2. ASSUME Resume(t, u)
      PROVE  ThreadInv'
  <2>. DEFINE set == exec.suspended \ {u}
  <2>1. /\ Alive(u) /\ scan = NoScan /\ exec' = PutInProperList(SetSuspended(exec, set), u)
        /\ UNCHANGED <<result, lock, locks, signaled, scan>>
    BY <1>2 DEF Resume, Runs, Scheduled, SetSuspended
  <2>2. set \in SUBSET Thread /\ \A v \in Thread : v # u => (v \in set <=> v \in exec.suspended)
    BY ThreadFacts
  <2>. QED BY <2>1, <2>2, SuspendedChangeKeeps
<1>. QED BY <1>1, <1>2

\* A thread without requests that is restarted between calls.
LEMMA RestartKeeps ==
    ASSUME ThreadAssumption, ThreadInv, scan = NoScan,
           NEW t \in Thread, exec.requests[t] = 0, t \notin signaled,
           NEW set \in SUBSET Thread, NEW d \in BOOLEAN,
           \A u \in Thread : u # t => (u \in set <=> u \in exec.sleeping),
           exec' = Restart(SetSleeping(exec, set), t, d),
           UNCHANGED <<lock, locks, signaled, scan>>,
           result' \in [Thread -> {"init", "handle", "timeout"}]
    PROVE  ThreadInv'
<1>. DEFINE g == SetSleeping(exec, set)
            f == Restart(g, t, d)
<1>1. Typed(exec) /\ NoWait \notin Wait
  BY ThreadFacts
<1>2. Moves(exec, g, t) /\ g.requests = exec.requests
  BY <1>1, SleepingChanged
<1>3. Typed(g) /\ g.requests[t] = 0 /\ exec' = f
  BY <1>2 DEF Moves
<1>. HIDE DEF g
<1>4. /\ Moves(g, f, t) /\ f.status[t] = "Ready" /\ f.requests = g.requests
      /\ Settled(f, t)
  BY <1>1, <1>3, Restarted, RestartedSettles
<1>. HIDE DEF f
<1>5. /\ Moves(exec, exec', t) /\ Settled(exec', t)
      /\ exec'.requests[t] = exec.requests[t]
      /\ exec'.status[t] \in {"Ready", "Waiting"}
  BY <1>2, <1>3, <1>4, MovesTwice
<1>6. /\ signaled' \subseteq Handle /\ signaled' \cap Thread \subseteq signaled \ {t}
      /\ scan' = NoScan /\ UNCHANGED <<lock, locks>>
  BY ThreadFacts
<1>. QED BY <1>5, <1>6, PlainStep

LEMMA NoChange == ASSUME NEW e, Typed(e) PROVE SetSleeping(e, e.sleeping) = e
<1>1. e = With(e.status, e.suspended, e.ready, e.waiting, e.zombie,
               e.waitFor, e.sleeping, e.requests)
  BY EngineFields
<1>2. SetSleeping(e, e.sleeping) =
         With(e.status, e.suspended, e.ready, e.waiting, e.zombie,
              e.waitFor, e.sleeping, e.requests)
  BY <1>1 DEF With, SetSleeping
<1>. QED BY <1>1, <1>2

LEMMA TimeoutsKeep ==
    ASSUME ThreadAssumption, ThreadInv, ~AbortLockWaiters,
           NEW t \in Thread, NEW u \in Thread,
           Abort(t, u) \/ SleepExpires(t) \/ WaitExpires(t)
    PROVE  ThreadInv'
<1>0. /\ exec.sleeping \in SUBSET Thread /\ SetSleeping(exec, exec.sleeping) = exec
      /\ result \in [Thread -> {"init", "handle", "timeout"}]
      /\ Thread \subseteq Thread
  BY ThreadFacts, NoChange
<1>1. ASSUME Abort(t, u)
      PROVE  ThreadInv'
  <2>1. /\ scan = NoScan /\ exec' = Restart(SetSleeping(exec, exec.sleeping), u, TRUE)
        /\ exec.requests[u] = 0 /\ Alive(u)
        /\ UNCHANGED <<result, lock, locks, signaled, scan>>
    BY <1>0, <1>1 DEF Abort, Runs, Scheduled
  <2>2. u \notin signaled
    BY <2>1, AliveThread
  <2>3. result' \in [Thread -> {"init", "handle", "timeout"}]
    BY <1>0, <2>1
  <2>. QED BY <1>0, <2>1, <2>2, <2>3, RestartKeeps
<1>2. ASSUME SleepExpires(t)
      PROVE  ThreadInv'
  <2>. DEFINE set == exec.sleeping \ {t}
  <2>1. /\ scan = NoScan /\ exec' = Restart(SetSleeping(exec, set), t, FALSE)
        /\ t \in exec.sleeping /\ UNCHANGED <<result, lock, locks, signaled, scan>>
    BY <1>2 DEF SleepExpires, SetSleeping
  <2>2. exec.requests[t] = 0 /\ t \notin signaled
    BY <2>1, AliveThread
  <2>3. set \in SUBSET Thread /\ \A v \in Thread : v # t => (v \in set <=> v \in exec.sleeping)
    BY <1>0
  <2>4. result' \in [Thread -> {"init", "handle", "timeout"}]
    BY <1>0, <2>1
  <2>. HIDE DEF set
  <2>. QED BY <2>1, <2>2, <2>3, <2>4, RestartKeeps
<1>3. ASSUME WaitExpires(t)
      PROVE  ThreadInv'
  <2>1. /\ scan = NoScan /\ exec' = Restart(SetSleeping(exec, exec.sleeping), t, TRUE)
        /\ exec.waitFor[t] # NoWait /\ result' = [result EXCEPT ![t] = "timeout"]
        /\ UNCHANGED <<lock, locks, signaled, scan>>
    BY <1>0, <1>3 DEF WaitExpires
  <2>2. exec.requests[t] = 0 /\ t \notin signaled
    BY <2>1, AliveThread
  <2>3. result' \in [Thread -> {"init", "handle", "timeout"}]
    BY <1>0, <2>1
  <2>. QED BY <1>0, <2>1, <2>2, <2>3, RestartKeeps
<1>. QED BY <1>1, <1>2, <1>3

-----------------------------------------------------------------------------
(***************************************************************************)
(* Wait handles.                                                           *)
(***************************************************************************)
LEMMA RemainingShrinks ==
    ASSUME ThreadAssumption, NEW w, NEW set \in Remaining(w)
    PROVE  /\ set \subseteq signaled /\ set \cap Thread = signaled \cap Thread
           /\ IsOver(w, signaled)
<1>1. AutoReset \cap Thread = {}
  BY DEF ThreadAssumption
<1>2. CASE w.all
  BY <1>1, <1>2 DEF Remaining, IsOver
<1>3. CASE ~w.all
  BY <1>1, <1>3 DEF Remaining, IsOver
<1>. QED BY <1>2, <1>3

LEMMA WaitForSignalKeeps ==
    ASSUME ThreadAssumption, ThreadInv, NEW t \in Thread, NEW w \in Wait,
           WaitForSignal(t, w)
    PROVE  ThreadInv'
<1>1. /\ t \in exec.ready /\ scan = NoScan /\ UNCHANGED <<lock, locks, scan>>
  BY DEF WaitForSignal, Runs, Scheduled
<1>2. CASE /\ signaled' \in Remaining(w)
           /\ result' = [result EXCEPT ![t] = "handle"]
           /\ UNCHANGED exec
  <2>1. /\ signaled' \subseteq Handle /\ signaled' \cap Thread \subseteq signaled
    BY <1>2, RemainingShrinks, ThreadFacts
  <2>2. result' \in [Thread -> {"init", "handle", "timeout"}]
    BY <1>2, ThreadFacts
  <2>. QED BY <1>1, <1>2, <2>1, <2>2, HandleStep
<1>3. CASE /\ result' = [result EXCEPT ![t] = "init"]
           /\ exec' = StopToWait([exec EXCEPT !.waitFor[t] = w], t)
           /\ UNCHANGED signaled
  <2>. DEFINE g == SetWaitFor(exec, t, w)
              f == StopToWait(g, t)
  <2>1. exec' = f
    BY <1>3 DEF SetWaitFor
  <2>2. Typed(exec) /\ NoWait \notin Wait
    BY ThreadFacts
  <2>3. exec.requests[t] = 0 /\ t \notin signaled
    BY <1>1, ReadyThread
  <2>4. Moves(exec, g, t) /\ g.requests = exec.requests
    BY <2>2, WaitForChanged
  <2>5. Typed(g)
    BY <2>4 DEF Moves
  <2>. HIDE DEF g
  <2>6. /\ Moves(g, f, t) /\ f.status[t] = "Waiting" /\ f.requests = g.requests
        /\ Settled(f, t)
    BY <2>2, <2>3, <2>4, <2>5, Stopped, StoppedSettles
  <2>. HIDE DEF f
  <2>7. /\ Moves(exec, exec', t) /\ Settled(exec', t)
        /\ exec'.requests[t] = exec.requests[t]
        /\ exec'.status[t] \in {"Ready", "Waiting"}
    BY <2>1, <2>4, <2>6, MovesTwice
  <2>8. /\ signaled' \subseteq Handle /\ signaled' \cap Thread \subseteq signaled \ {t}
        /\ result' \in [Thread -> {"init", "handle", "timeout"}] /\ scan' = NoScan
    BY <1>1, <1>3, <2>3, ThreadFacts
  <2>. QED BY <1>1, <2>7, <2>8, PlainStep
<1>. QED BY <1>2, <1>3 DEF WaitForSignal

LEMMA EventsKeep ==
    ASSUME ThreadAssumption, ThreadInv, NEW t \in Thread, NEW h \in Event,
           EventReset(t, h) \/ EventSet(t, h)
    PROVE  ThreadInv'
<1>1. ASSUME EventReset(t, h)
      PROVE  ThreadInv'
  <2>1. /\ scan = NoScan /\ scan' = NoScan /\ UNCHANGED <<exec, lock, locks>>
        /\ result' = result /\ signaled' = signaled \ {h}
    BY <1>1 DEF EventReset, Runs, Scheduled
  <2>2. /\ signaled' \subseteq Handle /\ signaled' \cap Thread \subseteq signaled
        /\ result' \in [Thread -> {"init", "handle", "timeout"}]
    BY <2>1, ThreadFacts
  <2>. QED BY <2>1, <2>2, HandleStep
<1>2. ASSUME EventSet(t, h)
      PROVE  ThreadInv'
  <2>1. /\ scan = NoScan /\ UNCHANGED <<exec, lock, locks>>
        /\ scan' = [handle |-> h, at |-> FirstOf(exec.waiting), ends |-> Nobody]
        /\ result' = result /\ signaled' = signaled \cup {h}
    BY <1>2 DEF EventSet, Runs, Scheduled
  <2>2. /\ signaled' \subseteq Handle /\ signaled' \cap Thread \subseteq signaled
        /\ result' \in [Thread -> {"init", "handle", "timeout"}]
    BY <2>1, ThreadFacts DEF Handle, ThreadAssumption
  <2>3. scan' \in Scan /\ scan'.ends = Nobody /\ scan'.at = FirstOf(exec.waiting)
    <3>1. FirstOf(exec.waiting) \in Thread \cup {End}
      BY ThreadFacts, FirstIsMember
    <3>. QED BY <2>1, <3>1 DEF Scan, Handle
  <2>. QED BY <2>1, <2>2, <2>3, HandleStep
<1>. QED BY <1>1, <1>2

\* The successor of a thread in a list.
LEMMA AfterIsNext ==
    ASSUME NEW S, NEW list \in Seq(S), NoRepeats(list), NEW n \in DOMAIN list
    PROVE  After(list, list[n]) = IF n = Len(list) THEN End ELSE list[n + 1]
<1>. DEFINE m == CHOOSE k \in DOMAIN list : list[k] = list[n]
<1>1. m \in DOMAIN list /\ list[m] = list[n]
  OBVIOUS
<1>2. m = n
  <2>. HIDE DEF m
  <2>. QED BY <1>1 DEF NoRepeats
<1>3. After(list, list[n]) = IF m = Len(list) THEN End ELSE list[m + 1]
  BY DEF After
<1>. HIDE DEF m
<1>. QED BY <1>2, <1>3

LEMMA AfterIsMember ==
    ASSUME NEW S, NEW list \in Seq(S), NoRepeats(list), NEW x \in ToSet(list)
    PROVE  \/ After(list, x) = End
           \/ After(list, x) \in ToSet(list) /\ After(list, x) # x /\ After(list, x) \in S
<1>1. Len(list) \in Nat /\ DOMAIN list = 1..Len(list)
  BY LenProperties
<1>2. PICK n \in DOMAIN list : list[n] = x
  BY DEF ToSet
<1>3. CASE n = Len(list)
  BY <1>2, <1>3, AfterIsNext
<1>4. CASE n # Len(list)
  <2>1. n + 1 \in DOMAIN list /\ After(list, x) = list[n + 1]
    BY <1>1, <1>2, <1>4, AfterIsNext
  <2>2. list[n + 1] \in ToSet(list) /\ list[n + 1] \in S
    BY <1>1, <2>1, ElementOfSeq DEF ToSet
  <2>3. list[n + 1] # x
    BY <1>1, <1>2, <2>1 DEF NoRepeats
  <2>. QED BY <2>1, <2>2, <2>3
<1>. QED BY <1>3, <1>4

LEMMA ScanFields ==
    ASSUME NEW s \in Scan, NEW a \in Thread \cup {End}, NEW r, r = [s EXCEPT !.at = a]
    PROVE  r \in Scan /\ r.at = a /\ r.ends = s.ends /\ r.handle = s.handle
BY DEF Scan

LEMMA ScanIsNotDestroy ==
    ASSUME ThreadAssumption
    PROVE  \A s \in Scan : s \notin Destroy /\ s # NoScan
BY DEF Scan, Destroy, ThreadAssumption

LEMMA SignalObjectKeeps ==
    ASSUME ThreadAssumption, ThreadInv, SignalObject
    PROVE  ThreadInv'
<1>. DEFINE t == scan.at
            w == exec.waitFor[t]
            next == IF scan.handle \in signaled' THEN After(exec.waiting, t) ELSE End
<1>1. /\ scan \in Scan /\ t # End /\ scan' = [scan EXCEPT !.at = next]
      /\ UNCHANGED <<lock, locks>>
      /\ \/ /\ w # NoWait /\ signaled' \in Remaining(w)
            /\ result' = [result EXCEPT ![t] = "handle"]
            /\ exec' = Restart(exec, t, TRUE)
         \/ UNCHANGED <<signaled, result, exec>>
  BY DEF SignalObject
<1>2. t \in ToSet(exec.waiting) /\ t \in Thread
  BY <1>1 DEF ThreadInv, GoingOn, Scan
<1>3. /\ Alive(t) /\ t \notin signaled /\ t \notin exec.ready
      /\ (w # NoWait => exec.requests[t] = 0)
  BY <1>2, AliveThread
<1>4. /\ EngineOK(exec)'
      /\ \A u \in Thread : exec'.requests[u] = exec.requests[u]
      /\ \A u \in Thread : u # t => /\ exec'.status[u] = exec.status[u]
                                    /\ u \in ToSet(exec.waiting) => u \in ToSet(exec'.waiting)
      /\ exec'.status[t] \in {"Ready", "Waiting"}
      /\ signaled' \subseteq Handle /\ signaled' \cap Thread \subseteq signaled
      /\ result' \in [Thread -> {"init", "handle", "timeout"}]
  <2>1. CASE UNCHANGED <<signaled, result, exec>>
    BY <1>3, <2>1, ThreadFacts DEF Alive, ThreadInv
  <2>2. CASE /\ w # NoWait /\ signaled' \in Remaining(w)
             /\ result' = [result EXCEPT ![t] = "handle"]
             /\ exec' = Restart(exec, t, TRUE)
    <3>. DEFINE d == TRUE
                f == Restart(exec, t, d)
    <3>1. Typed(exec) /\ NoWait \notin Wait /\ d \in BOOLEAN /\ exec.requests[t] = 0
      BY <1>3, <2>2, ThreadFacts
    <3>. HIDE DEF t, w, d
    <3>2. /\ Moves(exec, f, t) /\ Settled(f, t) /\ f.status[t] = "Ready"
          /\ f.requests = exec.requests
      <4>1. /\ Moves(exec, f, t) /\ f.status[t] = "Ready"
            /\ f.requests = exec.requests
        BY <1>2, <3>1, Restarted
      <4>2. Settled(f, t)
        BY <1>2, <3>1, RestartedSettles
      <4>. QED BY <4>1, <4>2
    <3>3. exec' = f
      BY <2>2 DEF d
    <3>. HIDE DEF f
    <3>4. /\ Moves(exec, exec', t) /\ Settled(exec', t) /\ exec'.status[t] = "Ready"
          /\ exec'.requests = exec.requests
      BY <3>2, <3>3
    <3>5. EngineOK(exec)'
      BY <1>2, <3>4, SettlesAll DEF ThreadInv
    <3>6. /\ signaled' \subseteq Handle /\ signaled' \cap Thread \subseteq signaled
          /\ result' \in [Thread -> {"init", "handle", "timeout"}]
      BY <2>2, RemainingShrinks, ThreadFacts
    <3>. QED BY <3>4, <3>5, <3>6 DEF Moves, SameRow
  <2>. QED BY <1>1, <2>1, <2>2
<1>5. next = End \/ (next \in ToSet(exec.waiting) /\ next # t /\ next \in Thread)
  BY <1>2, ThreadFacts, AfterIsMember
<1>. HIDE DEF next
<1>6. scan' \in Scan /\ scan'.at = next /\ scan'.ends = scan.ends
  BY <1>1, <1>5, ScanFields
<1>7. /\ scan \notin Destroy /\ scan' \notin Destroy
      /\ \A u \in Thread : Ends(u)' <=> Ends(u)
  BY <1>1, <1>6, ScanIsNotDestroy DEF Ends
<1>8. ASSUME NEW u \in Thread, Sane(u)
      PROVE  Sane(u)'
  BY <1>4, <1>7, <1>8 DEF Sane, Alive
<1>9. LocksTyped' /\ Owned' /\ Queued'
  BY <1>1, <1>4, <1>8, LocksKept DEF ThreadInv
<1>10. GoingOn'
  <2>1. \A u \in Thread : u \in signaled' => exec'.status[u] = "Terminated"
    BY <1>3, <1>4 DEF ThreadInv, GoingOn
  <2>2. \A u \in Thread : Ends(u)' => exec'.status[u] = "Terminated"
    <3>1. \A u \in Thread : Ends(u) => exec.status[u] = "Terminated" /\ u # t
      BY <1>3 DEF ThreadInv, GoingOn, Alive
    <3>. QED BY <1>4, <1>7, <3>1
  <2>3. scan'.at = End \/ scan'.at \in ToSet(exec'.waiting)
    BY <1>4, <1>5, <1>6
  <2>. QED BY <1>4, <1>6, <1>7, <2>1, <2>2, <2>3 DEF GoingOn
<1>. QED BY <1>4, <1>9, <1>10 DEF ThreadInv

LEMMA SetReturnsKeeps ==
    ASSUME ThreadAssumption, ThreadInv, SetReturns
    PROVE  ThreadInv'
<1>1. /\ scan \in Scan /\ scan.ends = Nobody /\ scan' = NoScan
      /\ UNCHANGED <<exec, result, lock, locks, signaled>>
  BY DEF SetReturns
<1>2. \A u \in Thread : ~Ends(u) /\ ~Ends(u)'
  BY <1>1 DEF Ends, ThreadAssumption
<1>3. \A u \in Thread : Sane(u) => Sane(u)'
  BY <1>1, <1>2 DEF Sane, Alive
<1>4. LocksTyped' /\ Owned' /\ Queued'
  BY <1>1, <1>3, LocksKept DEF ThreadInv
<1>5. GoingOn'
  BY <1>1, <1>2 DEF ThreadInv, GoingOn, ThreadAssumption
<1>. QED BY <1>1, <1>4, <1>5 DEF ThreadInv

-----------------------------------------------------------------------------
(***************************************************************************)
(* The end of a thread.                                                    *)
(***************************************************************************)
Passivated(e, t) ==
    [Unlink(e, t) EXCEPT !.status[t] = "Terminated", !.suspended = @ \ {t},
                         !.zombie = @ \cup {t}, !.sleeping = @ \ {t},
                         !.waitFor[t] = NoWait]

\* A thread that ends is with the zombies, and nowhere else.
LEMMA PassivatedSettles ==
    ASSUME NEW e, Typed(e), NEW t \in Thread
    PROVE  LET f == Passivated(e, t)
           IN  /\ Moves(e, f, t) /\ f.status[t] = "Terminated"
               /\ f.requests = e.requests /\ f.waiting = Unlinked(e.waiting, t)
               /\ t \notin f.suspended /\ f.waitFor[t] = NoWait
               /\ e.requests[t] = 0 => Settled(f, t)
<1>. DEFINE f == Passivated(e, t)
            left == Unlinked(e.waiting, t)
            ready == e.ready \ {t}
            status == [e.status EXCEPT ![t] = "Terminated"]
            suspended == e.suspended \ {t}
            zombie == (e.zombie \ {t}) \cup {t}
            sleeping == e.sleeping \ {t}
            waitFor == [e.waitFor EXCEPT ![t] = NoWait]
            unlinked == With(e.status, e.suspended, ready, left, e.zombie \ {t},
            e.waitFor, e.sleeping, e.requests)
            f1 == [unlinked EXCEPT !.status = status]
            f2 == [f1 EXCEPT !.suspended = suspended]
            f3 == [f2 EXCEPT !.zombie = zombie]
            f4 == [f3 EXCEPT !.sleeping = sleeping]
<1>1. /\ e.status \in [Thread -> {"Unstarted", "Ready", "Waiting", "Terminated"}]
      /\ e.suspended \in SUBSET Thread /\ e.ready \in SUBSET Thread
      /\ e.waiting \in Seq(Thread) /\ NoRepeats(e.waiting)
      /\ e.zombie \in SUBSET Thread /\ e.sleeping \in SUBSET Thread
      /\ e.waitFor \in [Thread -> Wait \cup {NoWait}]
      /\ e.requests \in [Thread -> 0..MaxRequests]
  BY EngineFields
<1>2. /\ left \in Seq(Thread) /\ NoRepeats(left)
      /\ ToSet(left) = ToSet(e.waiting) \ {t}
  BY <1>1, UnlinkedProperties
<1>3. Unlink(e, t) = unlinked
  BY UnlinkFields
<1>4. f = With(status, suspended, ready, left, zombie,
            waitFor, sleeping, e.requests)
  <2>1. /\ unlinked.status = e.status /\ unlinked.suspended = e.suspended
        /\ unlinked.zombie = e.zombie \ {t} /\ unlinked.sleeping = e.sleeping
        /\ unlinked.waitFor = e.waitFor
    BY DEF With
  <2>2. f = [f4 EXCEPT !.waitFor = waitFor]
    BY <1>3, <2>1 DEF Passivated
  <2>. HIDE DEF f, left, ready, status, suspended, zombie, sleeping, waitFor
  <2>3. f1 = With(status, e.suspended, ready, left, e.zombie \ {t},
            e.waitFor, e.sleeping, e.requests)
    BY DEF With
  <2>. HIDE DEF unlinked, f1
  <2>4. f2 = With(status, suspended, ready, left, e.zombie \ {t},
            e.waitFor, e.sleeping, e.requests)
    BY <2>3 DEF With
  <2>. HIDE DEF f2
  <2>5. f3 = With(status, suspended, ready, left, zombie,
            e.waitFor, e.sleeping, e.requests)
    BY <2>4 DEF With
  <2>. HIDE DEF f3
  <2>6. f4 = With(status, suspended, ready, left, zombie,
            e.waitFor, sleeping, e.requests)
    BY <2>5 DEF With
  <2>. HIDE DEF f4
  <2>. QED BY <2>2, <2>6 DEF With
<1>5. /\ status \in [Thread -> {"Unstarted", "Ready", "Waiting", "Terminated"}]
      /\ status[t] = "Terminated" /\ \A u \in Thread : u # t => status[u] = e.status[u]
      /\ waitFor \in [Thread -> Wait \cup {NoWait}] /\ waitFor[t] = NoWait
      /\ \A u \in Thread : u # t => waitFor[u] = e.waitFor[u]
  BY <1>1
<1>6. /\ ready \in SUBSET Thread /\ suspended \in SUBSET Thread
      /\ zombie \in SUBSET Thread /\ sleeping \in SUBSET Thread
      /\ t \notin ready /\ t \notin suspended /\ t \notin sleeping /\ t \in zombie
      /\ \A u \in Thread : u # t => /\ u \in ready <=> u \in e.ready
                                    /\ u \in suspended <=> u \in e.suspended
                                    /\ u \in zombie <=> u \in e.zombie
                                    /\ u \in sleeping <=> u \in e.sleeping
                                    /\ u \in ToSet(left) <=> u \in ToSet(e.waiting)
  BY <1>1, <1>2
<1>. HIDE DEF f, left, ready, status, suspended, zombie, sleeping, waitFor
<1>7. Fits(e, t, status, suspended, ready, left, zombie,
            waitFor, sleeping, e.requests)
  BY <1>1, <1>2, <1>5, <1>6 DEF Fits
<1>8. /\ Moves(e, f, t) /\ f.status = status /\ f.suspended = suspended
      /\ f.ready = ready /\ f.waiting = left /\ f.zombie = zombie
      /\ f.waitFor = waitFor /\ f.sleeping = sleeping /\ f.requests = e.requests
  BY <1>4, <1>7, FieldsMove
<1>9. ASSUME e.requests[t] = 0
      PROVE  Settled(f, t)
  <2>1. InItsList(f, t)
    BY <1>2, <1>5, <1>6, <1>8 DEF InItsList
  <2>2. WaitsApart(f, t)
    BY <1>5, <1>6, <1>8, <1>9 DEF WaitsApart
  <2>. QED BY <2>1, <2>2 DEF Settled
<1>. QED BY <1>5, <1>6, <1>8, <1>9 DEF f, left

LEMMA PassivateKeeps ==
    ASSUME ThreadAssumption, ThreadInv, NEW t \in Thread, Passivate(t)
    PROVE  ThreadInv'
<1>. DEFINE f == Passivated(exec, t)
<1>1. /\ t \in exec.ready /\ scan = NoScan /\ exec' = f
      /\ signaled' = signaled \cup {t}
      /\ scan' = [handle |-> t, at |-> FirstOf(exec.waiting),
                  ends |-> IF Ended(t) THEN Nobody ELSE t]
      /\ UNCHANGED <<result, lock, locks>>
  BY DEF Passivate, Scheduled, Passivated
<1>2. /\ exec.requests[t] = 0 /\ ~Ended(t) /\ Alive(t)
      /\ t \notin ToSet(exec.waiting)
  BY <1>1, ReadyThread, AliveThread DEF Ended
<1>3. /\ Moves(exec, f, t) /\ f.status[t] = "Terminated"
      /\ f.requests = exec.requests /\ Settled(f, t)
  BY <1>2, ThreadFacts, PassivatedSettles
<1>. HIDE DEF f
<1>4. /\ EngineOK(exec)'
      /\ \A u \in Thread : exec'.requests[u] = exec.requests[u]
      /\ \A u \in Thread : u # t =>
            /\ exec'.status[u] = exec.status[u]
            /\ u \in ToSet(exec.waiting) => u \in ToSet(exec'.waiting)
      /\ exec'.status[t] = "Terminated"
  <2>1. Moves(exec, exec', t) /\ Settled(exec', t)
    BY <1>1, <1>3
  <2>2. EngineOK(exec)'
    BY <2>1, SettlesAll DEF ThreadInv
  <2>. QED BY <1>1, <1>3, <2>1, <2>2 DEF Moves, SameRow
<1>5. FirstOf(exec.waiting) = End \/ (/\ FirstOf(exec.waiting) \in ToSet(exec.waiting)
                                      /\ FirstOf(exec.waiting) \in Thread)
  BY ThreadFacts, FirstIsMember
<1>6. /\ scan' \in Scan /\ scan'.ends = t /\ scan'.at = FirstOf(exec.waiting)
      /\ scan' \notin Destroy /\ scan' # NoScan
  <2>1. scan' \in Scan /\ scan'.ends = t /\ scan'.at = FirstOf(exec.waiting)
    BY <1>1, <1>2, <1>5 DEF Scan, Handle
  <2>. QED BY <2>1, ScanIsNotDestroy
<1>7. \A u \in Thread : Ends(u)' <=> u = t
  BY <1>6 DEF Ends
<1>8. ASSUME NEW u \in Thread, Sane(u)
      PROVE  Sane(u)'
  BY <1>1, <1>4, <1>7, <1>8, NobodyEnds DEF Sane, Alive
<1>9. LocksTyped' /\ Owned' /\ Queued'
  BY <1>1, <1>4, <1>8, LocksKept DEF ThreadInv
<1>10. GoingOn'
  <2>1. \A u \in Thread : u \in signaled' => exec'.status[u] = "Terminated"
    BY <1>1, <1>4 DEF ThreadInv, GoingOn
  <2>2. scan'.at = End \/ scan'.at \in ToSet(exec'.waiting)
    <3>1. ASSUME scan'.at # End
          PROVE  scan'.at \in ToSet(exec'.waiting)
      <4>1. /\ FirstOf(exec.waiting) \in ToSet(exec.waiting)
            /\ FirstOf(exec.waiting) \in Thread /\ scan'.at = FirstOf(exec.waiting)
        BY <1>5, <1>6, <3>1
      <4>2. FirstOf(exec.waiting) # t
        BY <1>2, <4>1
      <4>. QED BY <1>4, <4>1, <4>2
    <3>. QED BY <3>1
  <2>3. /\ signaled' \subseteq Handle
        /\ result' \in [Thread -> {"init", "handle", "timeout"}]
    BY <1>1, ThreadFacts DEF Handle
  <2>. QED BY <1>4, <1>6, <1>7, <2>1, <2>2, <2>3 DEF GoingOn
<1>. QED BY <1>4, <1>9, <1>10 DEF ThreadInv

LEMMA ReleaseLocksKeeps ==
    ASSUME ThreadAssumption, ThreadInv, ReleaseLocks
    PROVE  ThreadInv'
<1>. DEFINE t == scan.ends
<1>1. /\ scan \in Scan /\ t # Nobody /\ scan' = [lock |-> FirstOf(locks[t]), ends |-> t]
      /\ UNCHANGED <<exec, result, lock, locks, signaled>>
  BY DEF ReleaseLocks
<1>2. t \in Thread
  BY <1>1 DEF Scan
<1>3. FirstOf(locks[t]) \in Object \cup {End}
  <2>1. locks[t] \in Seq(Object)
    BY <1>2 DEF ThreadInv, LocksTyped
  <2>. QED BY <2>1, FirstIsMember
<1>4. /\ scan' \in Destroy /\ scan'.ends = t /\ scan'.lock = FirstOf(locks[t])
      /\ scan' \notin Scan
  <2>1. scan' \in Destroy /\ scan'.ends = t /\ scan'.lock = FirstOf(locks[t])
    BY <1>1, <1>2, <1>3 DEF Destroy
  <2>. QED BY <2>1, ScanIsNotDestroy
<1>5. \A u \in Thread : Ends(u)' <=> Ends(u)
  BY <1>1, <1>4 DEF Ends
<1>6. \A u \in Thread : Sane(u) => Sane(u)'
  BY <1>1, <1>5 DEF Sane, Alive
<1>7. LocksTyped' /\ Owned' /\ Queued'
  BY <1>1, <1>6, LocksKept DEF ThreadInv
<1>8. GoingOn'
  BY <1>1, <1>4, <1>5 DEF ThreadInv, GoingOn
<1>. QED BY <1>1, <1>7, <1>8 DEF ThreadInv

-----------------------------------------------------------------------------
(***************************************************************************)
(* Monitors.                                                               *)
(***************************************************************************)

\* The first request of a thread is counted, and the thread waits.
LEMMA RequestCounted ==
    ASSUME NEW e, Typed(e), NEW t \in Thread, NoWait \notin Wait,
           e.requests[t] = 0, 1 \in 0..MaxRequests,
           t \notin e.sleeping, e.waitFor[t] = NoWait
    PROVE  LET f == StopToWait(ChangeLockRequestCount(e, t, 1), t)
           IN  /\ Moves(e, f, t) /\ Settled(f, t)
               /\ f.requests[t] = 1 /\ f.status[t] = "Waiting"
<1>. DEFINE g == SetRequests(e, t, 1)
            h == SetStatus(g, t, "Waiting")
            f == StopToWait(h, t)
<1>1. ChangeLockRequestCount(e, t, 1) = h
  BY DEF ChangeLockRequestCount, SetRequests, SetStatus
<1>2. /\ Moves(e, g, t) /\ g.requests[t] = 1
      /\ g.sleeping = e.sleeping /\ g.waitFor = e.waitFor
  BY RequestsChanged
<1>3. Typed(g)
  BY <1>2 DEF Moves
<1>. HIDE DEF g
<1>4. /\ Moves(g, h, t) /\ h.requests = g.requests
      /\ h.sleeping = g.sleeping /\ h.waitFor = g.waitFor
  BY <1>3, StatusChanged
<1>. HIDE DEF h
<1>5. Moves(e, h, t) /\ Typed(h)
  BY <1>2, <1>4, MovesTwice DEF Moves
<1>6. /\ Moves(h, f, t) /\ f.requests = h.requests /\ f.status[t] = "Waiting"
      /\ Settled(f, t)
  BY <1>2, <1>4, <1>5, Stopped, StoppedSettles
<1>. HIDE DEF f
<1>7. Moves(e, f, t)
  BY <1>5, <1>6, MovesTwice
<1>. QED BY <1>1, <1>2, <1>4, <1>6, <1>7 DEF f

\* The last request of a thread is granted, and the thread restarted.
LEMMA RequestGranted ==
    ASSUME NEW e, Typed(e), NEW t \in Thread, NoWait \notin Wait, e.requests[t] = 1,
           MaxRequests \in Nat
    PROVE  LET f == ChangeLockRequestCount(e, t, -1)
           IN  /\ Moves(e, f, t) /\ Settled(f, t)
               /\ f.requests[t] = 0 /\ f.status[t] = "Ready"
<1>. DEFINE g == SetRequests(e, t, 0)
            f == Restart(g, t, FALSE)
<1>1. ChangeLockRequestCount(e, t, -1) = f
  BY DEF ChangeLockRequestCount, SetRequests
<1>2. Moves(e, g, t) /\ g.requests[t] = 0
  <2>1. 0 \in 0..MaxRequests
    OBVIOUS
  <2>. QED BY <2>1, RequestsChanged
<1>3. Typed(g) /\ FALSE \in BOOLEAN
  BY <1>2 DEF Moves
<1>. HIDE DEF g
<1>4. /\ Moves(g, f, t) /\ f.requests = g.requests /\ f.status[t] = "Ready"
      /\ Settled(f, t)
  BY <1>2, <1>3, Restarted, RestartedSettles
<1>. HIDE DEF f
<1>5. Moves(e, f, t)
  BY <1>2, <1>4, MovesTwice
<1>. QED BY <1>1, <1>2, <1>4, <1>5 DEF f

\* A thread is in one queue, once.
LEMMA QueueFacts ==
    ASSUME LocksTyped, Queued, NEW o \in Object
    PROVE  /\ lock[o].requests \in Seq(Thread) /\ NoRepeats(lock[o].requests)
           /\ lock[o].owner \in Thread \cup {Nobody}
           /\ lock[o].recursion \in 0..MaxRecursion
           /\ \A p \in Object : p # o =>
                 \A u : u \in ToSet(lock[o].requests) => u \notin ToSet(lock[p].requests)
           /\ \A u \in ToSet(lock[o].requests) : u \in Thread /\ exec.requests[u] # 0
<1>1. /\ lock[o].requests \in Seq(Thread) /\ lock[o].owner \in Thread \cup {Nobody}
      /\ lock[o].recursion \in 0..MaxRecursion
  BY DEF LocksTyped
<1>2. NoRepeats(lock[o].requests)
  BY DEF Queued, NoRepeats
<1>3. ASSUME NEW p \in Object, p # o, NEW u, u \in ToSet(lock[o].requests),
             u \in ToSet(lock[p].requests)
      PROVE  FALSE
  <2>1. PICK n \in DOMAIN lock[o].requests : lock[o].requests[n] = u
    BY <1>3 DEF ToSet
  <2>2. PICK m \in DOMAIN lock[p].requests : lock[p].requests[m] = u
    BY <1>3 DEF ToSet
  <2>. QED BY <1>3, <2>1, <2>2 DEF Queued
<1>4. ASSUME NEW u \in ToSet(lock[o].requests)
      PROVE  u \in Thread /\ exec.requests[u] # 0
  <2>1. u \in Thread
    <3>1. DOMAIN lock[o].requests = 1..Len(lock[o].requests)
      BY <1>1, LenProperties
    <3>. QED BY <1>1, <3>1, ElementOfSeq DEF ToSet
  <2>. QED BY <2>1 DEF Queued
<1>. QED BY <1>1, <1>2, <1>3, <1>4

LEMMA OwnerFacts ==
    ASSUME ThreadAssumption, LocksTyped, Owned, NEW o \in Object
    PROVE  /\ lock[o].owner = Nobody =>
                 /\ lock[o].requests = <<>>
                 /\ \A t \in Thread : o \notin ToSet(locks[t])
           /\ lock[o].owner # Nobody =>
                 /\ lock[o].owner \in Thread
                 /\ lock[o].recursion > 0 /\ o \in ToSet(locks[lock[o].owner])
                 /\ lock[o].owner \notin ToSet(lock[o].requests)
                 /\ Sane(lock[o].owner)
           /\ \A t \in Thread : o \in ToSet(locks[t]) => lock[o].owner = t
<1>1. \A t \in Thread : o \in ToSet(locks[t]) => lock[o].owner = t
  BY DEF Owned
<1>2. ASSUME lock[o].owner = Nobody
      PROVE  /\ lock[o].requests = <<>>
             /\ \A t \in Thread : o \notin ToSet(locks[t])
  BY <1>1, <1>2 DEF Owned, ThreadAssumption
<1>3. ASSUME lock[o].owner # Nobody
      PROVE  /\ lock[o].owner \in Thread
             /\ lock[o].recursion > 0 /\ o \in ToSet(locks[lock[o].owner])
             /\ lock[o].owner \notin ToSet(lock[o].requests)
             /\ Sane(lock[o].owner)
  BY <1>3 DEF Owned, Sane, LocksTyped
<1>. QED BY <1>1, <1>2, <1>3

\* Adding a member at the end of a list that does not have it.
LEMMA AppendedProperties ==
    ASSUME NEW S, NEW list \in Seq(S), NoRepeats(list), NEW x \in S, x \notin ToSet(list)
    PROVE  /\ Append(list, x) \in Seq(S) /\ NoRepeats(Append(list, x))
           /\ ToSet(Append(list, x)) = ToSet(list) \cup {x}
<1>1. Unlinked(list, x) = list
  BY UnlinkedProperties
<1>2. LinkedAtBack(list, x) = Append(list, x)
  BY <1>1 DEF LinkedAtBack
<1>3. /\ LinkedAtBack(list, x) \in Seq(S) /\ NoRepeats(LinkedAtBack(list, x))
      /\ ToSet(LinkedAtBack(list, x)) = ToSet(list) \cup {x}
  BY LinkedAtBackProperties
<1>. QED BY <1>2, <1>3

\* A lock that leaves its owner and goes to an heir, or to nobody.
LEMMA GivenAway ==
    ASSUME ThreadAssumption, LocksTyped, Owned, NEW o \in Object,
           NEW heir \in Thread \cup {Nobody}, heir # lock[o].owner,
           \A p \in Object : p # o => lock'[p] = lock[p],
           lock'[o].owner = heir,
           heir = Nobody => lock'[o].requests = <<>>,
           heir # Nobody => /\ lock'[o].recursion > 0 /\ Sane(heir)'
                            /\ heir \notin ToSet(lock'[o].requests)
                            /\ ToSet(locks'[heir]) = ToSet(locks[heir]) \cup {o},
           lock[o].owner # Nobody =>
              ToSet(locks'[lock[o].owner]) = ToSet(locks[lock[o].owner]) \ {o},
           \A t \in Thread : t # lock[o].owner /\ t # heir =>
              ToSet(locks'[t]) = ToSet(locks[t]),
           \A t \in Thread : ToSet(locks'[t]) \subseteq Object,
           \A t \in Thread : Sane(t) => Sane(t)'
    PROVE  Owned'
<1>1. ASSUME NEW p \in Object, lock'[p].owner # Nobody
      PROVE  /\ lock'[p].recursion > 0
             /\ p \in ToSet(locks'[lock'[p].owner])
             /\ lock'[p].owner \notin ToSet(lock'[p].requests)
             /\ Sane(lock[p].owner)'
  <2>1. CASE p = o
    BY <1>1, <2>1
  <2>2. CASE p # o
    <3>1. lock'[p] = lock[p] /\ lock[p].owner \in Thread
      BY <1>1, <2>2, OwnerFacts
    <3>2. /\ lock[p].recursion > 0 /\ p \in ToSet(locks[lock[p].owner])
          /\ lock[p].owner \notin ToSet(lock[p].requests) /\ Sane(lock[p].owner)
      BY <1>1, <3>1, OwnerFacts
    <3>3. p \in ToSet(locks'[lock[p].owner])
      BY <2>2, <3>1, <3>2, OwnerFacts
    <3>4. Sane(lock[p].owner)'
      BY <3>1, <3>2
    <3>. QED BY <3>1, <3>2, <3>3, <3>4
  <2>. QED BY <2>1, <2>2
<1>2. ASSUME NEW p \in Object, lock'[p].owner = Nobody
      PROVE  lock'[p].requests = <<>>
  BY <1>2, OwnerFacts
<1>3. ASSUME NEW t \in Thread, NEW p \in Object, p \in ToSet(locks'[t])
      PROVE  lock'[p].owner = t
  <2>. t # Nobody
    BY DEF ThreadAssumption
  <2>1. CASE t = lock[o].owner
    <3>1. p # o /\ p \in ToSet(locks[t])
      BY <1>3, <2>1
    <3>. QED BY <3>1, OwnerFacts
  <2>2. CASE t = heir
    <3>1. p = o \/ p \in ToSet(locks[t])
      BY <1>3, <2>2
    <3>. QED BY <2>2, <3>1, OwnerFacts
  <2>3. CASE t # lock[o].owner /\ t # heir
    <3>1. p \in ToSet(locks[t])
      BY <1>3, <2>3
    <3>2. lock[p].owner = t
      BY <3>1, OwnerFacts
    <3>. QED BY <2>3, <3>2
  <2>. QED BY <2>1, <2>2, <2>3
<1>4. ASSUME NEW t \in Thread, NEW p \in ToSet(locks'[t])
      PROVE  p \in Object
  OBVIOUS
<1>. QED BY <1>1, <1>2, <1>3, <1>4 DEF Owned, Sane

LEMMA MembersOf ==
    ASSUME NEW S, NEW list \in Seq(S)
    PROVE  ToSet(list) \subseteq S
<1>1. DOMAIN list = 1..Len(list)
  BY LenProperties
<1>. QED BY <1>1, ElementOfSeq DEF ToSet

\* The first of a queue leaves it, and no other queue changes.
LEMMA FirstLeaves ==
    ASSUME LocksTyped, Queued, NEW o \in Object, lock[o].requests # <<>>,
           \A p \in Object : p # o => lock'[p] = lock[p],
           lock'[o].requests = Tail(lock[o].requests),
           exec'.requests[Head(lock[o].requests)] = 0,
           \A u \in Thread : u # Head(lock[o].requests) =>
              exec'.requests[u] = exec.requests[u]
    PROVE  Queued'
<1>. DEFINE q == lock[o].requests
            next == Head(q)
            place(p, n) == IF p = o THEN n + 1 ELSE n
<1>1. /\ q \in Seq(Thread) /\ NoRepeats(q) /\ q # <<>> /\ next = q[1]
      /\ Len(q) \in Nat /\ DOMAIN q = 1..Len(q)
      /\ DOMAIN Tail(q) = 1..(Len(q) - 1)
      /\ \A n \in 1..(Len(q) - 1) : Tail(q)[n] = q[n + 1]
  BY QueueFacts
<1>2. next \in Thread /\ next \in ToSet(q) /\ ToSet(Tail(q)) = ToSet(q) \ {next}
  BY <1>1, TailProperties
<1>3. ASSUME NEW p \in Object, NEW n \in DOMAIN lock'[p].requests
      PROVE  /\ n \in Nat /\ place(p, n) \in DOMAIN lock[p].requests
             /\ lock'[p].requests[n] = lock[p].requests[place(p, n)]
  <2>1. CASE p = o
    <3>1. lock'[p].requests = Tail(q) /\ lock[p].requests = q
      BY <2>1
    <3>2. n \in 1..(Len(q) - 1)
      BY <1>1, <1>3, <3>1
    <3>3. n \in Nat /\ n + 1 \in 1..Len(q) /\ place(p, n) = n + 1
      BY <1>1, <2>1, <3>2
    <3>. HIDE DEF place
    <3>. QED BY <1>1, <3>1, <3>2, <3>3
  <2>2. CASE p # o
    <3>1. lock'[p].requests = lock[p].requests
      BY <2>2
    <3>2. lock[p].requests \in Seq(Thread)
      BY QueueFacts
    <3>. QED BY <1>3, <2>2, <3>1, <3>2, LenProperties
  <2>. QED BY <2>1, <2>2
<1>4. ASSUME NEW p \in Object, NEW r \in Object,
             NEW n \in DOMAIN lock'[p].requests, NEW m \in DOMAIN lock'[r].requests,
             lock'[p].requests[n] = lock'[r].requests[m]
      PROVE  p = r /\ n = m
  <2>1. lock[p].requests[place(p, n)] = lock[r].requests[place(r, m)]
    BY <1>3, <1>4
  <2>2. p = r /\ place(p, n) = place(r, m)
    BY <1>3, <2>1 DEF Queued
  <2>. QED BY <1>3, <2>2
<1>5. ASSUME NEW t \in Thread
      PROVE  exec'.requests[t] # 0 <=> \E p \in Object : t \in ToSet(lock'[p].requests)
  <2>1. CASE t = next
    <3>1. t \notin ToSet(lock'[o].requests)
      BY <1>2, <2>1
    <3>2. \A p \in Object : p # o => t \notin ToSet(lock'[p].requests)
      BY <1>2, <2>1, QueueFacts
    <3>. QED BY <2>1, <3>1, <3>2
  <2>2. CASE t # next
    <3>1. exec'.requests[t] = exec.requests[t]
      BY <2>2
    <3>2. \A p \in Object : t \in ToSet(lock'[p].requests) <=> t \in ToSet(lock[p].requests)
      BY <1>2, <2>2
    <3>3. exec.requests[t] # 0 <=> \E p \in Object : t \in ToSet(lock[p].requests)
      BY DEF Queued
    <3>. QED BY <3>1, <3>2, <3>3
  <2>. QED BY <2>1, <2>2
<1>. QED BY <1>4, <1>5 DEF Queued

LEMMA QueuesKept ==
    ASSUME Queued, \A p \in Object : lock'[p].requests = lock[p].requests,
           \A u \in Thread : exec'.requests[u] = exec.requests[u]
    PROVE  Queued'
BY DEF Queued

\* The lock has left its owner, whoever has it now; no thread comes to an end.
LEMMA ChangeOwnerKeeps ==
    ASSUME ThreadAssumption, ThreadInv, NEW o \in Object, lock[o].owner # Nobody,
           ChangeOwner(o), \A u \in Thread : Ends(u) => Ends(u)'
    PROVE  /\ EngineOK(exec)' /\ LocksTyped' /\ Owned' /\ Queued'
           /\ \A u \in Thread : exec.status[u] = "Terminated" =>
                 exec'.status[u] = "Terminated" /\ locks'[u] =
                    IF u = lock[o].owner THEN Unlinked(locks[u], o) ELSE locks[u]
<1>. DEFINE t == lock[o].owner
            q == lock[o].requests
            left == [locks EXCEPT ![t] = Unlinked(@, o)]
<1>1. /\ lock \in [Object -> [owner : Thread \cup {Nobody}, recursion : 0..MaxRecursion,
                              requests : Seq(Thread)]]
      /\ locks \in [Thread -> Seq(Object)] /\ \A u \in Thread : NoRepeats(locks[u])
      /\ LocksTyped /\ Owned /\ Queued /\ EngineOK(exec) /\ GoingOn
  BY DEF ThreadInv, LocksTyped
<1>2. /\ t \in Thread /\ lock[o].recursion > 0 /\ t \notin ToSet(q)
      /\ lock[o].recursion \in 0..MaxRecursion /\ MaxRecursion \in Nat
  BY <1>1, OwnerFacts, QueueFacts DEF ThreadAssumption
<1>3. /\ left \in [Thread -> Seq(Object)] /\ left[t] = Unlinked(locks[t], o)
      /\ ToSet(left[t]) = ToSet(locks[t]) \ {o} /\ NoRepeats(left[t])
      /\ \A u \in Thread : u # t => left[u] = locks[u]
  <2>1. /\ Unlinked(locks[t], o) \in Seq(Object) /\ NoRepeats(Unlinked(locks[t], o))
        /\ ToSet(Unlinked(locks[t], o)) = ToSet(locks[t]) \ {o}
    BY <1>1, <1>2, UnlinkedProperties
  <2>. QED BY <1>1, <1>2, <2>1
<1>. HIDE DEF left
<1>4. CASE q = <<>>
  <2>1. lock' = [lock EXCEPT ![o] = Free] /\ locks' = left /\ exec' = exec
    BY <1>4 DEF ChangeOwner, left
  <2>2. /\ lock'[o].owner = Nobody /\ lock'[o].requests = <<>>
        /\ \A p \in Object : p # o => lock'[p] = lock[p]
        /\ lock' \in [Object -> [owner : Thread \cup {Nobody}, recursion : 0..MaxRecursion,
                                 requests : Seq(Thread)]]
    BY <1>1, <1>2, <2>1 DEF Free
  <2>3. LocksTyped'
    BY <1>1, <1>3, <2>1, <2>2 DEF LocksTyped
  <2>4. \A u \in Thread : Sane(u) => Sane(u)'
    BY <2>1 DEF Sane, Alive
  <2>5. \A u \in Thread : ToSet(locks'[u]) \subseteq Object
    BY <1>3, <2>1, MembersOf
  <2>6. Owned'
    <3>1. Nobody # t
      BY <1>2 DEF ThreadAssumption
    <3>2. \A u \in Thread : u # t /\ u # Nobody => ToSet(locks'[u]) = ToSet(locks[u])
      BY <1>3, <2>1
    <3>3. ToSet(locks'[t]) = ToSet(locks[t]) \ {o}
      BY <1>3, <2>1
    <3>4. LocksTyped /\ Owned
      BY <1>1
    <3>5. PICK heir \in Thread \cup {Nobody} : heir = Nobody
      OBVIOUS
    <3>6. /\ \A p \in Object : p # o => lock'[p] = lock[p]
          /\ lock'[o].owner = heir /\ lock'[o].requests = <<>> /\ heir # lock[o].owner
          /\ \A u \in Thread : u # lock[o].owner /\ u # heir =>
                ToSet(locks'[u]) = ToSet(locks[u])
      BY <2>2, <3>1, <3>2, <3>5
    <3>. HIDE DEF left, q
    <3>. QED BY <2>4, <2>5, <3>3, <3>4, <3>5, <3>6, GivenAway
  <2>7. \A p \in Object : lock'[p].requests = lock[p].requests
    BY <1>4, <2>2
  <2>8. Queued'
    BY <1>1, <2>1, <2>7, QueuesKept
  <2>. QED BY <1>1, <1>3, <2>1, <2>3, <2>6, <2>8
<1>5. CASE q # <<>>
  <2>. PICK next : next = Head(q)
    OBVIOUS
  <2>. DEFINE r == [owner |-> next, recursion |-> 1, requests |-> Tail(q)]
  <2>1. /\ lock' = [lock EXCEPT ![o] = r]
        /\ locks' = [left EXCEPT ![next] = Append(@, o)]
        /\ exec' = ChangeLockRequestCount(exec, next, -1)
    BY <1>1, <1>5 DEF ChangeOwner, left
  <2>2. /\ next \in Thread /\ next \in ToSet(q) /\ next \notin ToSet(Tail(q))
        /\ Tail(q) \in Seq(Thread)
    BY <1>1, <1>5, QueueFacts, TailProperties
  <2>3. next # t /\ exec.requests[next] # 0
    BY <1>1, <1>2, <2>2, QueueFacts
  <2>4. /\ exec.requests[next] = 1 /\ exec.status[next] = "Waiting" /\ Typed(exec)
        /\ NoWait \notin Wait /\ MaxRequests \in Nat
    BY <1>1, <2>2, <2>3 DEF EngineOK, WaitsApart, ThreadAssumption
  <2>5. /\ Moves(exec, exec', next) /\ Settled(exec', next)
        /\ exec'.requests[next] = 0 /\ exec'.status[next] = "Ready"
    <3>. HIDE DEF q, r, left
    <3>. QED BY <2>1, <2>2, <2>4, RequestGranted
  <2>6. EngineOK(exec)'
    BY <1>1, <2>2, <2>5, SettlesAll
  <2>7. /\ lock'[o] = r
        /\ \A p \in Object : p # o => lock'[p] = lock[p]
        /\ lock' \in [Object -> [owner : Thread \cup {Nobody}, recursion : 0..MaxRecursion,
                                 requests : Seq(Thread)]]
    <3>1. 1 \in 0..MaxRecursion
      BY <1>2
    <3>2. r \in [owner : Thread \cup {Nobody}, recursion : 0..MaxRecursion,
                 requests : Seq(Thread)]
      BY <2>2, <3>1
    <3>. HIDE DEF r
    <3>. QED BY <1>1, <2>1, <3>2
  <2>8. /\ lock'[o].owner = next /\ lock'[o].recursion > 0
        /\ lock'[o].requests = Tail(q)
    BY <2>7
  <2>9. /\ locks' \in [Thread -> Seq(Object)] /\ NoRepeats(locks'[next])
        /\ ToSet(locks'[next]) = ToSet(locks[next]) \cup {o}
        /\ \A u \in Thread : u # next => locks'[u] = left[u]
    <3>1. locks[next] \in Seq(Object) /\ NoRepeats(locks[next]) /\ o \notin ToSet(locks[next])
      BY <1>1, <2>2, <2>3, OwnerFacts
    <3>2. /\ Append(locks[next], o) \in Seq(Object) /\ NoRepeats(Append(locks[next], o))
          /\ ToSet(Append(locks[next], o)) = ToSet(locks[next]) \cup {o}
      BY <3>1, AppendedProperties
    <3>3. left[next] = locks[next]
      BY <1>3, <2>2, <2>3
    <3>. HIDE DEF t
    <3>. QED BY <1>3, <2>1, <2>2, <3>2, <3>3
  <2>10. LocksTyped'
    <3>1. \A u \in Thread : NoRepeats(locks'[u])
      BY <1>1, <1>3, <2>9
    <3>. QED BY <2>7, <2>9, <3>1 DEF LocksTyped
  <2>11. \A u \in Thread : u # next => /\ exec'.status[u] = exec.status[u]
                                       /\ exec'.requests[u] = exec.requests[u]
    BY <2>5 DEF Moves, SameRow
  <2>12. Sane(next)' /\ \A u \in Thread : Sane(u) => Sane(u)'
    <3>1. Alive(next)'
      BY <2>5 DEF Alive
    <3>. QED BY <2>11, <3>1 DEF Sane, Alive
  <2>13. Queued'
    BY <1>1, <1>5, <2>5, <2>7, <2>8, <2>11, FirstLeaves
  <2>14. Owned'
    <3>1. \A u \in Thread : ToSet(locks'[u]) \subseteq Object
      BY <2>9, MembersOf
    <3>2. \A u \in Thread : u # t /\ u # next => ToSet(locks'[u]) = ToSet(locks[u])
      BY <1>3, <2>9
    <3>3. ToSet(locks'[t]) = ToSet(locks[t]) \ {o}
      BY <1>2, <1>3, <2>3, <2>9
    <3>4. next # Nobody /\ next \notin ToSet(lock'[o].requests)
      BY <2>2, <2>8 DEF ThreadAssumption
    <3>5. LocksTyped /\ Owned /\ next \in Thread \cup {Nobody}
      BY <1>1, <2>2
    <3>6. /\ \A p \in Object : p # o => lock'[p] = lock[p]
          /\ lock'[o].owner = next /\ lock'[o].recursion > 0 /\ next # lock[o].owner
      BY <2>3, <2>7, <2>8
    <3>. HIDE DEF left, q, r
    <3>. QED BY <2>9, <2>12, <3>1, <3>2, <3>3, <3>4, <3>5, <3>6, GivenAway
  <2>15. \A u \in Thread : exec.status[u] = "Terminated" =>
            exec'.status[u] = "Terminated" /\ locks'[u] =
               IF u = t THEN Unlinked(locks[u], o) ELSE locks[u]
    BY <1>3, <2>4, <2>9, <2>11
  <2>. QED BY <2>6, <2>10, <2>13, <2>14, <2>15
<1>. QED BY <1>4, <1>5

\* Calls after which no other call is going on.
LEMMA CallIsOver ==
    ASSUME ThreadAssumption, ThreadInv, scan' = NoScan, UNCHANGED <<signaled, result>>,
           \A u \in Thread : exec.status[u] = "Terminated" => exec'.status[u] = "Terminated"
    PROVE  GoingOn'
<1>1. scan' \notin Scan \cup Destroy
  BY DEF ThreadAssumption
<1>2. \A u \in Thread : u \in signaled' => exec'.status[u] = "Terminated"
  BY DEF ThreadInv, GoingOn
<1>. QED BY <1>1, <1>2 DEF GoingOn, Ends, ThreadInv

\* The owner of a lock nests its Enters and Exits.
LEMMA NestingKeeps ==
    ASSUME ThreadAssumption, ThreadInv, NEW o \in Object, lock[o].owner # Nobody,
           NEW n \in 1..MaxRecursion,
           lock' = [lock EXCEPT ![o].recursion = n],
           UNCHANGED <<exec, locks, result, signaled, scan>>, scan = NoScan
    PROVE  ThreadInv'
<1>1. /\ lock \in [Object -> [owner : Thread \cup {Nobody}, recursion : 0..MaxRecursion,
                              requests : Seq(Thread)]]
      /\ LocksTyped /\ Owned /\ Queued /\ EngineOK(exec) /\ MaxRecursion \in Nat
  BY DEF ThreadInv, LocksTyped, ThreadAssumption
<1>2. /\ lock' \in [Object -> [owner : Thread \cup {Nobody}, recursion : 0..MaxRecursion,
                               requests : Seq(Thread)]]
      /\ \A p \in Object : lock'[p].owner = lock[p].owner
                           /\ lock'[p].requests = lock[p].requests
      /\ \A p \in Object : p # o => lock'[p].recursion = lock[p].recursion
      /\ lock'[o].recursion > 0
  <2>1. n \in 0..MaxRecursion /\ n > 0
    BY <1>1
  <2>. QED BY <1>1, <2>1
<1>3. LocksTyped'
  BY <1>1, <1>2 DEF LocksTyped
<1>4. Queued'
  BY <1>1, <1>2, QueuesKept
<1>5. Owned'
  <2>1. \A u : Alive(u) \/ Ends(u) <=> Alive(u)' \/ Ends(u)'
    BY DEF Alive, Ends
  <2>. QED BY <1>1, <1>2, <2>1 DEF Owned
<1>6. GoingOn'
  BY CallIsOver
<1>. QED BY <1>1, <1>3, <1>4, <1>5, <1>6 DEF ThreadInv

LEMMA EnterOwnedKeeps ==
    ASSUME ThreadAssumption, ThreadInv, NEW t \in Thread, NEW o \in Object,
           EnterOwned(t, o)
    PROVE  ThreadInv'
<1>1. /\ t \in exec.ready /\ scan = NoScan
      /\ lock[o].owner \in {t, Nobody} /\ lock[o].recursion < MaxRecursion
      /\ lock' = [lock EXCEPT ![o].owner = t, ![o].recursion = @ + 1]
      /\ locks' = IF lock[o].owner = t THEN locks
                  ELSE [locks EXCEPT ![t] = Append(@, o)]
      /\ UNCHANGED <<exec, result, signaled, scan>>
  BY DEF EnterOwned, Runs, Scheduled
<1>2. /\ lock \in [Object -> [owner : Thread \cup {Nobody}, recursion : 0..MaxRecursion,
                              requests : Seq(Thread)]]
      /\ locks \in [Thread -> Seq(Object)] /\ \A u \in Thread : NoRepeats(locks[u])
      /\ LocksTyped /\ Owned /\ Queued /\ EngineOK(exec) /\ MaxRecursion \in Nat
  BY DEF ThreadInv, LocksTyped, ThreadAssumption
<1>3. t # Nobody /\ lock[o].recursion + 1 \in 1..MaxRecursion
  BY <1>1, <1>2 DEF ThreadAssumption
<1>4. CASE lock[o].owner = t
  <2>1. lock' = [lock EXCEPT ![o].recursion = lock[o].recursion + 1] /\ locks' = locks
    BY <1>1, <1>2, <1>4
  <2>. QED BY <1>1, <1>3, <1>4, <2>1, NestingKeeps
<1>5. CASE lock[o].owner # t
  <2>1. /\ lock[o].owner = Nobody /\ lock[o].requests = <<>>
        /\ o \notin ToSet(locks[t])
        /\ locks' = [locks EXCEPT ![t] = Append(locks[t], o)]
    BY <1>1, <1>2, <1>5, OwnerFacts
  <2>2. /\ Append(locks[t], o) \in Seq(Object) /\ NoRepeats(Append(locks[t], o))
        /\ ToSet(Append(locks[t], o)) = ToSet(locks[t]) \cup {o}
    BY <1>2, <2>1, AppendedProperties
  <2>3. /\ locks' \in [Thread -> Seq(Object)] /\ \A u \in Thread : NoRepeats(locks'[u])
        /\ ToSet(locks'[t]) = ToSet(locks[t]) \cup {o}
        /\ \A u \in Thread : u # t => locks'[u] = locks[u]
    BY <1>2, <2>1, <2>2
  <2>4. /\ lock' \in [Object -> [owner : Thread \cup {Nobody}, recursion : 0..MaxRecursion,
                                 requests : Seq(Thread)]]
        /\ \A p \in Object : p # o => lock'[p] = lock[p]
        /\ lock'[o].owner = t /\ lock'[o].requests = <<>> /\ lock'[o].recursion > 0
    <3>1. lock[o].recursion + 1 \in 0..MaxRecursion /\ lock[o].recursion + 1 > 0
      BY <1>3
    <3>. DEFINE r == [owner |-> t, recursion |-> lock[o].recursion + 1,
                      requests |-> lock[o].requests]
                l1 == [lock EXCEPT ![o].owner = t]
    <3>2. l1 = [lock EXCEPT ![o] = [owner |-> t, recursion |-> lock[o].recursion,
                                    requests |-> lock[o].requests]]
      <4>1. [lock[o] EXCEPT !.owner = t] =
               [owner |-> t, recursion |-> lock[o].recursion, requests |-> lock[o].requests]
        <5>. HIDE DEF l1, r
        <5>1. lock[o] \in [owner : Thread \cup {Nobody}, recursion : 0..MaxRecursion,
                           requests : Seq(Thread)]
          BY <1>2
        <5>. QED BY <5>1
      <4>2. l1 = [lock EXCEPT ![o] = [lock[o] EXCEPT !.owner = t]]
        OBVIOUS
      <4>. QED BY <4>1, <4>2
    <3>3. lock' = [l1 EXCEPT ![o].recursion = lock[o].recursion + 1]
      BY <1>1, <1>2
    <3>. HIDE DEF l1
    <3>4. lock' = [lock EXCEPT ![o] = r]
      BY <1>2, <3>2, <3>3
    <3>5. /\ r \in [owner : Thread \cup {Nobody}, recursion : 0..MaxRecursion,
                   requests : Seq(Thread)]
          /\ r.owner = t /\ r.requests = <<>> /\ r.recursion > 0
      BY <2>1, <3>1
    <3>. HIDE DEF r
    <3>. QED BY <1>2, <3>4, <3>5
  <2>5. LocksTyped'
    BY <2>3, <2>4 DEF LocksTyped
  <2>6. \A p \in Object : lock'[p].requests = lock[p].requests
    BY <2>1, <2>4
  <2>7. Queued'
    BY <1>1, <1>2, <2>6, QueuesKept
  <2>8. \A u \in Thread : Sane(u) => Sane(u)'
    BY <1>1 DEF Sane, Alive, Ends
  <2>9. Sane(t)'
    BY <1>1, <2>8, ReadyThread DEF Sane
  <2>10. Owned'
    <3>1. \A u \in Thread : ToSet(locks'[u]) \subseteq Object
      BY <2>3, MembersOf
    <3>2. \A u \in Thread : u # lock[o].owner /\ u # t => ToSet(locks'[u]) = ToSet(locks[u])
      BY <2>3
    <3>3. t \notin ToSet(lock'[o].requests)
      BY <2>4 DEF ToSet
    <3>4. t \in Thread \cup {Nobody} /\ t # lock[o].owner /\ LocksTyped /\ Owned
      BY <1>2, <1>5
    <3>5. lock[o].owner = Nobody
      BY <2>1
    <3>6. /\ \A p \in Object : p # o => lock'[p] = lock[p]
          /\ lock'[o].owner = t /\ lock'[o].recursion > 0
      BY <2>4
    <3>7. ToSet(locks'[t]) = ToSet(locks[t]) \cup {o}
      BY <2>3
    <3>. QED BY <1>3, <2>8, <2>9, <3>1, <3>2, <3>3, <3>4, <3>5, <3>6, <3>7, GivenAway
  <2>11. GoingOn'
    BY <1>1, CallIsOver
  <2>. QED BY <1>1, <1>2, <2>5, <2>7, <2>10, <2>11 DEF ThreadInv
<1>. QED BY <1>4, <1>5

LEMMA MonitorExitKeeps ==
    ASSUME ThreadAssumption, ThreadInv, NEW t \in Thread, NEW o \in Object,
           MonitorExit(t, o)
    PROVE  ThreadInv'
<1>1. /\ scan = NoScan /\ lock[o].owner = t /\ UNCHANGED <<result, signaled, scan>>
      /\ IF lock[o].recursion = 1 THEN ChangeOwner(o)
         ELSE /\ lock' = [lock EXCEPT ![o].recursion = @ - 1]
              /\ UNCHANGED <<exec, locks>>
  BY DEF MonitorExit, Runs, Scheduled
<1>2. lock[o].owner # Nobody
  BY <1>1 DEF ThreadAssumption
<1>3. CASE lock[o].recursion = 1
  <2>1. \A u \in Thread : Ends(u) => Ends(u)'
    BY <1>1, NobodyEnds
  <2>2. /\ EngineOK(exec)' /\ LocksTyped' /\ Owned' /\ Queued'
        /\ \A u \in Thread : exec.status[u] = "Terminated" => exec'.status[u] = "Terminated"
    BY <1>1, <1>2, <1>3, <2>1, ChangeOwnerKeeps
  <2>3. GoingOn'
    BY <1>1, <2>2, CallIsOver
  <2>. QED BY <2>2, <2>3 DEF ThreadInv
<1>4. CASE lock[o].recursion # 1
  <2>1. lock[o].recursion - 1 \in 1..MaxRecursion
    <3>1. lock[o].recursion > 0 /\ lock[o].recursion \in 0..MaxRecursion
      BY <1>2, OwnerFacts, QueueFacts DEF ThreadInv
    <3>. QED BY <1>4, <3>1, ThreadFacts
  <2>2. lock' = [lock EXCEPT ![o].recursion = lock[o].recursion - 1]
    BY <1>1, <1>4
  <2>. QED BY <1>1, <1>2, <1>4, <2>1, <2>2, NestingKeeps
<1>. QED BY <1>3, <1>4

LEMMA EnterWaitsKeeps ==
    ASSUME ThreadAssumption, ThreadInv, NEW t \in Thread, NEW o \in Object,
           EnterWaits(t, o)
    PROVE  ThreadInv'
<1>. DEFINE q == lock[o].requests
<1>1. /\ t \in exec.ready /\ scan = NoScan
      /\ lock[o].owner \notin {t, Nobody} /\ exec.requests[t] < MaxRequests
      /\ lock' = [lock EXCEPT ![o].requests = Append(@, t)]
      /\ exec' = StopToWait(ChangeLockRequestCount(exec, t, 1), t)
      /\ UNCHANGED <<result, locks, signaled, scan>>
  BY DEF EnterWaits, Runs, Scheduled
<1>2. /\ lock \in [Object -> [owner : Thread \cup {Nobody}, recursion : 0..MaxRecursion,
                              requests : Seq(Thread)]]
      /\ locks \in [Thread -> Seq(Object)] /\ \A u \in Thread : NoRepeats(locks[u])
      /\ LocksTyped /\ Owned /\ Queued /\ EngineOK(exec)
  BY DEF ThreadInv, LocksTyped
<1>3. /\ exec.requests[t] = 0 /\ t \notin exec.sleeping /\ exec.waitFor[t] = NoWait
      /\ exec.status[t] = "Ready"
  BY <1>1, ReadyThread
<1>4. /\ Moves(exec, exec', t) /\ Settled(exec', t)
      /\ exec'.requests[t] = 1 /\ exec'.status[t] = "Waiting"
  <2>1. 1 \in 0..MaxRequests
    BY <1>1, <1>3, ThreadFacts
  <2>2. Typed(exec) /\ NoWait \notin Wait
    BY ThreadFacts
  <2>. QED BY <1>1, <1>3, <2>1, <2>2, RequestCounted
<1>5. EngineOK(exec)'
  BY <1>2, <1>4, SettlesAll
<1>6. \A u \in Thread : u # t => /\ exec'.status[u] = exec.status[u]
                                 /\ exec'.requests[u] = exec.requests[u]
  BY <1>4 DEF Moves, SameRow
<1>7. /\ \A p \in Object : t \notin ToSet(lock[p].requests)
      /\ q \in Seq(Thread) /\ NoRepeats(q)
  BY <1>2, <1>3, QueueFacts
<1>8. /\ Append(q, t) \in Seq(Thread) /\ NoRepeats(Append(q, t))
      /\ ToSet(Append(q, t)) = ToSet(q) \cup {t}
  BY <1>7, AppendedProperties
<1>9. /\ lock' \in [Object -> [owner : Thread \cup {Nobody}, recursion : 0..MaxRecursion,
                               requests : Seq(Thread)]]
      /\ lock'[o].requests = Append(q, t)
      /\ \A p \in Object : p # o => lock'[p].requests = lock[p].requests
      /\ \A p \in Object : lock'[p].owner = lock[p].owner
                           /\ lock'[p].recursion = lock[p].recursion
  BY <1>1, <1>2, <1>8
<1>10. LocksTyped'
  BY <1>1, <1>2, <1>9 DEF LocksTyped
<1>11. Owned'
  <2>1. ASSUME NEW p \in Object, lock[p].owner # Nobody
        PROVE  /\ lock'[p].recursion > 0 /\ p \in ToSet(locks'[lock'[p].owner])
               /\ lock'[p].owner \notin ToSet(lock'[p].requests)
               /\ Alive(lock[p].owner)' \/ Ends(lock[p].owner)'
    <3>1. /\ lock[p].owner \in Thread
          /\ lock[p].recursion > 0 /\ p \in ToSet(locks[lock[p].owner])
          /\ lock[p].owner \notin ToSet(lock[p].requests) /\ Sane(lock[p].owner)
      BY <1>2, <2>1, OwnerFacts
    <3>2. lock'[p].owner \notin ToSet(lock'[p].requests)
      BY <1>1, <1>8, <1>9, <3>1
    <3>3. \A u \in Thread : Sane(u) => Alive(u)' \/ Ends(u)'
      BY <1>1, <1>4, <1>6 DEF Sane, Alive, Ends
    <3>. QED BY <1>1, <1>9, <3>1, <3>2, <3>3
  <2>2. ASSUME NEW p \in Object, lock[p].owner = Nobody
        PROVE  lock'[p].requests = <<>>
    BY <1>1, <1>2, <1>9, <2>2, OwnerFacts
  <2>3. \A u \in Thread : \A p \in ToSet(locks'[u]) : lock'[p].owner = u
    <3>1. \A u \in Thread : \A p \in ToSet(locks[u]) : p \in Object /\ lock[p].owner = u
      BY <1>2, MembersOf DEF Owned
    <3>. QED BY <1>1, <1>9, <3>1
  <2>. QED BY <1>9, <2>1, <2>2, <2>3 DEF Owned
<1>12. Queued'
  <2>1. /\ Len(q) \in Nat /\ DOMAIN q = 1..Len(q) /\ DOMAIN Append(q, t) = 1..(Len(q) + 1)
        /\ Append(q, t)[Len(q) + 1] = t
        /\ \A n \in 1..Len(q) : Append(q, t)[n] = q[n]
    BY <1>7
  <2>2. ASSUME NEW p \in Object, NEW n \in DOMAIN lock'[p].requests
        PROVE  \/ p = o /\ n = Len(q) + 1 /\ lock'[p].requests[n] = t
               \/ /\ n \in DOMAIN lock[p].requests
                  /\ lock'[p].requests[n] = lock[p].requests[n]
                  /\ lock'[p].requests[n] # t
    <3>1. CASE p = o
      <4>1. lock'[p].requests = Append(q, t) /\ lock[p].requests = q
        BY <1>9, <3>1
      <4>2. n \in 1..(Len(q) + 1)
        BY <2>1, <2>2, <4>1
      <4>3. CASE n = Len(q) + 1
        BY <2>1, <3>1, <4>1, <4>3
      <4>4. CASE n \in 1..Len(q)
        <5>1. q[n] # t
          BY <1>7, <2>1, <4>4 DEF ToSet
        <5>. QED BY <2>1, <4>1, <4>4, <5>1
      <4>. QED BY <2>1, <4>2, <4>3, <4>4
    <3>2. CASE p # o
      BY <1>7, <1>9, <2>2, <3>2 DEF ToSet
    <3>. QED BY <3>1, <3>2
  <2>3. ASSUME NEW p \in Object, NEW r \in Object,
               NEW n \in DOMAIN lock'[p].requests, NEW m \in DOMAIN lock'[r].requests,
               lock'[p].requests[n] = lock'[r].requests[m]
        PROVE  p = r /\ n = m
    <3>1. CASE lock'[p].requests[n] = t
      <4>1. p = o /\ n = Len(q) + 1
        BY <2>2, <3>1
      <4>2. r = o /\ m = Len(q) + 1
        BY <2>2, <2>3, <3>1
      <4>. QED BY <4>1, <4>2
    <3>2. CASE lock'[p].requests[n] # t
      <4>1. n \in DOMAIN lock[p].requests /\ lock'[p].requests[n] = lock[p].requests[n]
        BY <2>2, <3>2
      <4>2. m \in DOMAIN lock[r].requests /\ lock'[r].requests[m] = lock[r].requests[m]
        BY <2>2, <2>3, <3>2
      <4>3. \A k \in DOMAIN lock[p].requests, l \in DOMAIN lock[r].requests :
                lock[p].requests[k] = lock[r].requests[l] => p = r /\ k = l
        BY <1>2 DEF Queued
      <4>. QED BY <2>3, <4>1, <4>2, <4>3
    <3>. QED BY <3>1, <3>2
  <2>4. ASSUME NEW u \in Thread
        PROVE  exec'.requests[u] # 0 <=> \E p \in Object : u \in ToSet(lock'[p].requests)
    <3>1. CASE u = t
      <4>1. t \in ToSet(lock'[o].requests)
        BY <1>8, <1>9
      <4>. QED BY <1>4, <3>1, <4>1
    <3>2. CASE u # t
      <4>1. \A p \in Object : u \in ToSet(lock'[p].requests) <=> u \in ToSet(lock[p].requests)
        BY <1>8, <1>9, <3>2
      <4>2. exec.requests[u] # 0 <=> \E p \in Object : u \in ToSet(lock[p].requests)
        BY <1>2 DEF Queued
      <4>. QED BY <1>6, <3>2, <4>1, <4>2
    <3>. QED BY <3>1, <3>2
  <2>. QED BY <2>3, <2>4 DEF Queued
<1>13. GoingOn'
  <2>1. \A u \in Thread : exec.status[u] = "Terminated" => exec'.status[u] = "Terminated"
    BY <1>3, <1>6
  <2>. QED BY <1>1, <2>1, CallIsOver
<1>. QED BY <1>5, <1>10, <1>11, <1>12, <1>13 DEF ThreadInv

\* The walk through the locks goes on at what is then the first of them.
LEMMA AfterFirst ==
    ASSUME NEW S, NEW list \in Seq(S), NoRepeats(list), list # <<>>
    PROVE  FirstOf(Unlinked(list, list[1])) = After(list, list[1])
<1>. DEFINE tail == Tail(list)
<1>1. Unlinked(list, list[1]) = tail
  BY UnlinkedProperties
<1>2. /\ Len(list) \in Nat \ {0} /\ DOMAIN list = 1..Len(list)
      /\ tail \in Seq(S) /\ Len(tail) = Len(list) - 1
      /\ \A i \in 1..(Len(list) - 1) : tail[i] = list[i+1]
  BY LenProperties, EmptySeq, HeadTailProperties
<1>3. After(list, list[1]) = IF 1 = Len(list) THEN End ELSE list[1 + 1]
  BY <1>2, AfterIsNext
<1>. HIDE DEF tail
<1>4. CASE Len(list) = 1
  <2>1. Len(tail) = 0
    BY <1>2, <1>4
  <2>2. tail = <<>>
    BY <1>2, <2>1, EmptySeq
  <2>. QED BY <1>1, <1>3, <1>4, <2>2 DEF FirstOf
<1>5. CASE Len(list) # 1
  <2>1. Len(tail) # 0
    BY <1>2, <1>5
  <2>2. tail # <<>>
    BY <1>2, <2>1, EmptySeq
  <2>3. Head(tail) = tail[1]
    BY <1>2, <2>2, HeadTailProperties
  <2>4. tail[1] = list[1 + 1]
    BY <1>2, <1>5
  <2>. QED BY <1>1, <1>3, <1>5, <2>2, <2>3, <2>4 DEF FirstOf
<1>. QED BY <1>4, <1>5

LEMMA EndingThread ==
    ASSUME ThreadAssumption, ThreadInv, scan \in Destroy
    PROVE  /\ scan.ends \in Thread /\ scan \notin Scan
           /\ Ends(scan.ends) /\ exec.status[scan.ends] = "Terminated"
           /\ exec.requests[scan.ends] = 0
           /\ locks[scan.ends] \in Seq(Object) /\ NoRepeats(locks[scan.ends])
           /\ scan.lock = End <=> locks[scan.ends] = <<>>
           /\ scan.lock # End => /\ scan.lock \in Object
                                 /\ scan.lock = locks[scan.ends][1]
                                 /\ lock[scan.lock].owner = scan.ends
<1>. DEFINE t == scan.ends
<1>1. t \in Thread /\ scan \notin Scan /\ Ends(t)
  BY ScanIsNotDestroy DEF Destroy, Ends
<1>2. exec.status[t] = "Terminated" /\ scan.lock = FirstOf(locks[t])
  BY <1>1 DEF ThreadInv, GoingOn
<1>3. exec.requests[t] = 0
  BY <1>1, <1>2 DEF ThreadInv, EngineOK, WaitsApart
<1>4. locks[t] \in Seq(Object) /\ NoRepeats(locks[t])
  BY <1>1 DEF ThreadInv, LocksTyped
<1>5. locks[t] # <<>> => /\ FirstOf(locks[t]) = locks[t][1] /\ locks[t][1] \in Object
                         /\ locks[t][1] \in ToSet(locks[t])
  BY <1>4, TailProperties DEF FirstOf
<1>6. locks[t] = <<>> => FirstOf(locks[t]) = End
  BY DEF FirstOf
<1>7. \A o \in ToSet(locks[t]) : lock[o].owner = t
  BY <1>1 DEF ThreadInv, Owned
<1>. QED BY <1>1, <1>2, <1>3, <1>4, <1>5, <1>6, <1>7 DEF ThreadAssumption

LEMMA DestroyOwnerKeeps ==
    ASSUME ThreadAssumption, ThreadInv, DestroyOwner
    PROVE  ThreadInv'
<1>. DEFINE t == scan.ends
            o == scan.lock
<1>1. /\ scan \in Destroy /\ o # End /\ ChangeOwner(o)
      /\ scan' = [scan EXCEPT !.lock = After(locks[t], o)]
      /\ UNCHANGED <<result, signaled>>
  BY DEF DestroyOwner
<1>2. /\ t \in Thread /\ Ends(t) /\ exec.status[t] = "Terminated"
      /\ locks[t] \in Seq(Object) /\ NoRepeats(locks[t]) /\ locks[t] # <<>>
      /\ o \in Object /\ o = locks[t][1] /\ lock[o].owner = t /\ t # Nobody
  BY <1>1, EndingThread DEF ThreadAssumption
<1>3. After(locks[t], o) \in Object \cup {End}
  <2>1. o \in ToSet(locks[t])
    BY <1>2, TailProperties
  <2>. QED BY <1>2, <2>1, AfterIsMember
<1>4. /\ scan' \in Destroy /\ scan'.ends = t /\ scan'.lock = After(locks[t], o)
      /\ scan' \notin Scan /\ scan \notin Scan
  <2>1. scan' \in Destroy /\ scan'.ends = t /\ scan'.lock = After(locks[t], o)
    BY <1>1, <1>3 DEF Destroy
  <2>. QED BY <1>1, <2>1, ScanIsNotDestroy
<1>5. \A u \in Thread : Ends(u)' <=> Ends(u)
  BY <1>1, <1>4 DEF Ends
<1>6. /\ EngineOK(exec)' /\ LocksTyped' /\ Owned' /\ Queued'
      /\ \A u \in Thread : exec.status[u] = "Terminated" =>
            exec'.status[u] = "Terminated" /\ locks'[u] =
               IF u = t THEN Unlinked(locks[u], o) ELSE locks[u]
  BY <1>1, <1>2, <1>5, ChangeOwnerKeeps
<1>7. scan'.lock = FirstOf(locks'[t])
  BY <1>2, <1>4, <1>6, AfterFirst
<1>8. GoingOn'
  <2>1. \A u \in Thread : u \in signaled' => exec'.status[u] = "Terminated"
    BY <1>1, <1>6 DEF ThreadInv, GoingOn
  <2>2. \A u \in Thread : Ends(u)' => exec'.status[u] = "Terminated"
    BY <1>5, <1>6 DEF ThreadInv, GoingOn
  <2>3. /\ result' \in [Thread -> {"init", "handle", "timeout"}] /\ signaled' \subseteq Handle
    BY <1>1, ThreadFacts
  <2>4. scan'.lock = FirstOf(locks'[scan'.ends])
    BY <1>4, <1>7
  <2>. QED BY <1>4, <2>1, <2>2, <2>3, <2>4 DEF GoingOn
<1>. QED BY <1>6, <1>8 DEF ThreadInv

\* A thread that has ended owns nothing any more, and has no requests left.
LEMMA DeleteLockRequestsKeeps ==
    ASSUME ThreadAssumption, ThreadInv, DeleteLockRequests
    PROVE  ThreadInv'
<1>. DEFINE t == scan.ends
<1>1. /\ scan \in Destroy /\ scan.lock = End /\ scan' = NoScan
      /\ UNCHANGED <<result, locks, signaled>>
  BY DEF DeleteLockRequests
<1>2. /\ t \in Thread /\ exec.requests[t] = 0 /\ locks[t] = <<>>
  BY <1>1, EndingThread
<1>3. Requests(t) = {}
  <2>1. \A o \in Object : t \notin ToSet(lock[o].requests)
    BY <1>2 DEF ThreadInv, Queued
  <2>. QED BY <2>1 DEF Requests, ToSet
<1>4. UNCHANGED <<exec, lock>>
  BY <1>3 DEF DeleteLockRequests
<1>5. LocksTyped' /\ Queued' /\ EngineOK(exec)'
  BY <1>1, <1>4 DEF ThreadInv, LocksTyped, Queued
<1>6. Owned'
  <2>1. \A u \in Thread : Ends(u) => u = t
    BY <1>1, EndingThread DEF Ends
  <2>2. ASSUME NEW o \in Object, lock[o].owner # Nobody
        PROVE  Alive(lock[o].owner)
    <3>1. /\ lock[o].owner \in Thread /\ o \in ToSet(locks[lock[o].owner])
          /\ Sane(lock[o].owner)
      BY <2>2, OwnerFacts DEF ThreadInv
    <3>2. lock[o].owner # t
      BY <1>2, <3>1 DEF ToSet
    <3>. QED BY <2>1, <3>1, <3>2 DEF Sane
  <2>3. \A u : Alive(u) => Alive(u)'
    BY <1>4 DEF Alive
  <2>. QED BY <1>1, <1>4, <2>2, <2>3 DEF ThreadInv, Owned
<1>7. GoingOn'
  BY <1>1, <1>4, CallIsOver
<1>. QED BY <1>5, <1>6, <1>7 DEF ThreadInv

-----------------------------------------------------------------------------
(***************************************************************************)
(* The invariant holds.                                                    *)
(***************************************************************************)
LEMMA InitInv ==
    ASSUME ThreadAssumption, Init
    PROVE  ThreadInv
<1>. DEFINE status == [t \in Thread |-> IF t = Main THEN "Ready" ELSE "Unstarted"]
            waitFor == [t \in Thread |-> NoWait]
            requests == [t \in Thread |-> 0]
<1>1. /\ exec = With(status, {}, {Main}, <<>>, {}, waitFor, {}, requests)
      /\ result = [t \in Thread |-> "init"] /\ lock = [o \in Object |-> Free]
      /\ locks = [t \in Thread |-> <<>>] /\ signaled = {} /\ scan = NoScan
  BY DEF Init, With
<1>2. Main \in Thread /\ MaxRequests \in Nat /\ MaxRecursion \in Nat
  BY DEF ThreadAssumption
<1>3. <<>> \in Seq(Thread) /\ <<>> \in Seq(Object) /\ NoRepeats(<<>>) /\ ToSet(<<>>) = {}
  BY EmptySeq DEF NoRepeats, ToSet
<1>4. /\ status \in [Thread -> {"Unstarted", "Ready", "Waiting", "Terminated"}]
      /\ waitFor \in [Thread -> Wait \cup {NoWait}]
      /\ requests \in [Thread -> 0..MaxRequests]
      /\ \A t \in Thread : /\ status[t] = "Ready" <=> t = Main
                           /\ status[t] # "Waiting" /\ status[t] # "Terminated"
                           /\ waitFor[t] = NoWait /\ requests[t] = 0
  BY <1>2
<1>. HIDE DEF status, waitFor, requests
<1>5. Typed(exec)
  <2>1. {Main} \in SUBSET Thread /\ {} \in SUBSET Thread
    BY <1>2
  <2>. QED BY <1>1, <1>3, <1>4, <2>1, EngineOfFields
<1>6. /\ exec.status = status /\ exec.suspended = {} /\ exec.ready = {Main}
      /\ exec.waiting = <<>> /\ exec.zombie = {} /\ exec.waitFor = waitFor
      /\ exec.sleeping = {} /\ exec.requests = requests
  BY <1>1 DEF With
<1>7. EngineOK(exec)
  <2>1. ASSUME NEW t \in Thread
        PROVE  InItsList(exec, t) /\ WaitsApart(exec, t)
    BY <1>3, <1>4, <1>6 DEF InItsList, WaitsApart
  <2>. QED BY <1>5, <2>1 DEF EngineOK
<1>8. LocksTyped /\ Owned /\ Queued
  <2>1. /\ \A o \in Object : lock[o] = Free
        /\ \A t \in Thread : locks[t] = <<>>
        /\ Free.owner = Nobody /\ Free.requests = <<>>
        /\ Free \in [owner : Thread \cup {Nobody}, recursion : 0..MaxRecursion,
                     requests : Seq(Thread)]
    BY <1>1, <1>2, <1>3 DEF Free
  <2>2. LocksTyped
    BY <1>1, <1>3, <2>1 DEF LocksTyped
  <2>3. Owned
    BY <1>3, <2>1 DEF Owned
  <2>4. Queued
    <3>1. \A o \in Object : DOMAIN lock[o].requests = {} /\ ToSet(lock[o].requests) = {}
      BY <1>3, <2>1
    <3>. QED BY <1>4, <1>6, <3>1 DEF Queued
  <2>. QED BY <2>2, <2>3, <2>4
<1>9. GoingOn
  <2>1. scan \notin Scan \cup Destroy
    BY <1>1 DEF ThreadAssumption
  <2>. QED BY <1>1, <2>1 DEF GoingOn, Ends
<1>. QED BY <1>7, <1>8, <1>9 DEF ThreadInv

LEMMA StutterInv ==
    ASSUME ThreadInv, UNCHANGED vars
    PROVE  ThreadInv'
<1>1. EngineOK(exec)'
  BY DEF ThreadInv, vars
<1>2. LocksTyped' /\ Queued'
  BY DEF ThreadInv, vars, LocksTyped, Queued
<1>3. \A u : (Alive(u)' <=> Alive(u)) /\ (Ends(u)' <=> Ends(u))
  BY DEF vars, Alive, Ends
<1>4. Owned'
  BY <1>3 DEF ThreadInv, vars, Owned
<1>5. GoingOn'
  BY <1>3 DEF ThreadInv, vars, GoingOn
<1>. QED BY <1>1, <1>2, <1>4, <1>5 DEF ThreadInv

LEMMA NextInv ==
    ASSUME ThreadAssumption, ~AbortLockWaiters, ThreadInv, [Next]_vars
    PROVE  ThreadInv'
<1>1. CASE Going
  BY <1>1, SignalObjectKeeps, SetReturnsKeeps, ReleaseLocksKeeps, DestroyOwnerKeeps,
     DeleteLockRequestsKeeps DEF Going
<1>2. ASSUME NEW t \in Thread, ThreadCalls(t)
      PROVE  ThreadInv'
  BY <1>2, QuantumExpiredKeeps, SleepKeeps, PassivateKeeps, TimeoutsKeep, StartKeeps,
     SuspendKeeps, RestartKeeps DEF ThreadCalls
<1>3. ASSUME NEW t \in Thread, MonitorCalls(t)
      PROVE  ThreadInv'
  BY <1>3, EnterOwnedKeeps, EnterWaitsKeeps, MonitorExitKeeps DEF MonitorCalls
<1>4. ASSUME NEW t \in Thread, HandleCalls(t)
      PROVE  ThreadInv'
  BY <1>4, WaitForSignalKeeps, EventsKeep DEF HandleCalls
<1>5. CASE UNCHANGED vars
  BY <1>5, StutterInv
<1>. QED BY <1>1, <1>2, <1>3, <1>4, <1>5 DEF Next

\* ThreadInv, whatever the program, as long as it aborts no thread that waits
\* for a lock.
THEOREM Invariance ==
    ASSUME ~AbortLockWaiters
    PROVE  Spec => []ThreadInv
<1>1. Init => ThreadInv
  BY InitInv, ThreadAssumption
<1>2. ThreadInv /\ [Next]_vars => ThreadInv'
  BY NextInv, ThreadAssumption
<1>. QED BY <1>1, <1>2, PTL DEF Spec

\* The engine, the threads and the locks are always what the code's types
\* allow, and no counter leaves its bounds.
THEOREM ThreadTypeCorrect ==
    ASSUME ~AbortLockWaiters
    PROVE  Spec => []TypeOK
<1>1. ThreadInv => TypeOK
  BY DEF ThreadInv, EngineOK, Typed, Engine, LocksTyped, GoingOn, TypeOK
<1>. QED BY <1>1, Invariance, PTL

\* How often a member is in a list: once, if at all.
LEMMA PlacesOf ==
    ASSUME NEW S, NEW list \in Seq(S), NoRepeats(list), NEW x
    PROVE  Cardinality({n \in DOMAIN list : list[n] = x})
             = (IF x \in ToSet(list) THEN 1 ELSE 0)
<1>1. CASE x \in ToSet(list)
  <2>1. PICK n \in DOMAIN list : list[n] = x
    BY <1>1 DEF ToSet
  <2>2. {m \in DOMAIN list : list[m] = x} = {n}
    BY <2>1 DEF NoRepeats
  <2>. QED BY <1>1, <2>2, FS_Singleton
<1>2. CASE x \notin ToSet(list)
  <2>1. {m \in DOMAIN list : list[m] = x} = {}
    BY <1>2 DEF ToSet
  <2>. QED BY <1>2, <2>1, FS_EmptySet
<1>. QED BY <1>1, <1>2

\* ListsMatchStatus: whatever has moved a thread, it is in the one list that
\* its status and the suspended flag call for.
THEOREM ListsAgree ==
    ASSUME ~AbortLockWaiters
    PROVE  Spec => []ListsMatchStatus
<1>1. ThreadInv => ListsMatchStatus
  <2>1. SUFFICES ASSUME ThreadInv, NEW t \in Thread
                 PROVE  /\ t \in exec.ready <=>
                              exec.status[t] = "Ready" /\ t \notin exec.suspended
                        /\ t \in exec.zombie <=> exec.status[t] = "Terminated"
                        /\ Cardinality({n \in DOMAIN exec.waiting : exec.waiting[n] = t})
                             = (IF Alive(t) /\ t \notin exec.ready THEN 1 ELSE 0)
    BY DEF ListsMatchStatus
  <2>2. InItsList(exec, t)
    BY <2>1 DEF ThreadInv, EngineOK
  <2>3. t \in ToSet(exec.waiting) <=> Alive(t) /\ t \notin exec.ready
    BY <2>2 DEF InItsList, Alive
  <2>4. exec.waiting \in Seq(Thread) /\ NoRepeats(exec.waiting)
    BY <2>1, ThreadFacts, ThreadAssumption
  <2>. QED BY <2>2, <2>3, <2>4, PlacesOf DEF InItsList
<1>. QED BY <1>1, Invariance, PTL

\* PendingMeansWaiting: the count of a thread's requests is the number of its
\* places in the queues, and a thread with a request is not ready.
THEOREM PendingWaits ==
    ASSUME ~AbortLockWaiters
    PROVE  Spec => []PendingMeansWaiting
<1>1. ThreadInv => PendingMeansWaiting
  <2>1. SUFFICES ASSUME ThreadInv, NEW t \in Thread
                 PROVE  /\ exec.requests[t] = Cardinality(Requests(t))
                        /\ exec.requests[t] > 0 => t \notin exec.ready
    BY DEF PendingMeansWaiting
  <2>2. exec.requests[t] # 0 => exec.requests[t] = 1 /\ t \notin exec.ready
    BY <2>1 DEF ThreadInv, EngineOK, WaitsApart
  <2>3. CASE exec.requests[t] = 0
    <3>1. \A o \in Object : t \notin ToSet(lock[o].requests)
      BY <2>1, <2>3 DEF ThreadInv, Queued
    <3>2. Requests(t) = {}
      BY <3>1 DEF Requests, ToSet
    <3>. QED BY <2>3, <3>2, FS_EmptySet
  <2>4. CASE exec.requests[t] # 0
    <3>1. PICK o \in Object : t \in ToSet(lock[o].requests)
      BY <2>1, <2>4 DEF ThreadInv, Queued
    <3>2. PICK n \in DOMAIN lock[o].requests : lock[o].requests[n] = t
      BY <3>1 DEF ToSet
    <3>3. ASSUME NEW p \in Object, NEW m \in DOMAIN lock[p].requests,
                 lock[p].requests[m] = t
          PROVE  p = o /\ m = n
      BY <2>1, <3>2, <3>3 DEF ThreadInv, Queued
    <3>4. Requests(t) = {<<o, n>>}
      BY <3>2, <3>3 DEF Requests
    <3>. QED BY <2>2, <2>4, <3>4, FS_Singleton
  <2>. QED BY <2>2, <2>3, <2>4
<1>. QED BY <1>1, Invariance, PTL

\* OwnersCanRelease: an owner is alive, has the lock in its list and does not
\* wait for it.
THEOREM OwnersRelease ==
    ASSUME ~AbortLockWaiters
    PROVE  Spec => []OwnersCanRelease
<1>1. ThreadInv => OwnersCanRelease
  BY NobodyEnds, OwnerFacts, ThreadAssumption DEF ThreadInv, OwnersCanRelease, Sane
<1>. QED BY <1>1, Invariance, PTL

-----------------------------------------------------------------------------
(***************************************************************************)
(* Enter returns to an owner.                                              *)
(***************************************************************************)

\* A request ends with the lock, and in no other way.
Pending(o, t) == t \in ToSet(lock[o].requests)
Granted(o, t) == lock[o].owner = t

LEMMA ChangeOwnerGrants ==
    ASSUME ThreadInv, NEW p \in Object, ChangeOwner(p),
           NEW o \in Object, NEW t \in Thread, Pending(o, t)
    PROVE  Pending(o, t)' \/ Granted(o, t)'
<1>. DEFINE q == lock[p].requests
<1>1. lock \in [Object -> [owner : Thread \cup {Nobody}, recursion : 0..MaxRecursion,
                           requests : Seq(Thread)]]
      /\ q \in Seq(Thread) /\ NoRepeats(q)
  BY QueueFacts DEF ThreadInv, LocksTyped
<1>2. CASE o # p
  <2>1. lock'[o] = lock[o]
    BY <1>1, <1>2 DEF ChangeOwner
  <2>. QED BY <2>1 DEF Pending
<1>3. CASE o = p
  <2>1. q # <<>>
    BY <1>3 DEF Pending, ToSet
  <2>2. lock' = [lock EXCEPT ![p] = [owner |-> Head(q), recursion |-> 1,
                                     requests |-> Tail(q)]]
    BY <1>1, <2>1 DEF ChangeOwner
  <2>3. lock'[p].owner = Head(q) /\ lock'[p].requests = Tail(q)
    BY <1>1, <2>2
  <2>4. ToSet(Tail(q)) = ToSet(q) \ {q[1]} /\ Head(q) = q[1]
    BY <1>1, <2>1, TailProperties
  <2>. QED BY <1>3, <2>3, <2>4 DEF Pending, Granted
<1>. QED BY <1>2, <1>3

LEMMA RequestsEndWithGrant ==
    ASSUME ThreadAssumption, ThreadInv, [Next]_vars,
           NEW o \in Object, NEW t \in Thread, Pending(o, t)
    PROVE  Pending(o, t)' \/ Granted(o, t)'
<1>1. ASSUME UNCHANGED lock
      PROVE  Pending(o, t)'
  BY <1>1 DEF Pending
<1>2. ASSUME NEW u \in Thread, MonitorCalls(u)
      PROVE  Pending(o, t)' \/ Granted(o, t)'
  <2>1. PICK p \in Object : EnterOwned(u, p) \/ EnterWaits(u, p) \/ MonitorExit(u, p)
    BY <1>2 DEF MonitorCalls
  <2>2. /\ lock \in [Object -> [owner : Thread \cup {Nobody}, recursion : 0..MaxRecursion,
                                requests : Seq(Thread)]]
        /\ lock[p].requests \in Seq(Thread) /\ NoRepeats(lock[p].requests)
    BY QueueFacts DEF ThreadInv, LocksTyped
  <2>3. CASE EnterOwned(u, p)
    <3>1. lock'[o].requests = lock[o].requests
      BY <2>2, <2>3 DEF EnterOwned
    <3>. QED BY <3>1 DEF Pending
  <2>4. CASE EnterWaits(u, p)
    <3>1. lock' = [lock EXCEPT ![p].requests = Append(@, u)]
      BY <2>4 DEF EnterWaits
    <3>2. CASE o = p
      <4>1. lock'[o].requests = Append(lock[o].requests, u)
        BY <2>2, <3>1, <3>2
      <4>2. /\ DOMAIN lock[o].requests \subseteq DOMAIN Append(lock[o].requests, u)
            /\ \A n \in DOMAIN lock[o].requests :
                  Append(lock[o].requests, u)[n] = lock[o].requests[n]
        BY <2>2, <3>2
      <4>. QED BY <4>1, <4>2 DEF Pending, ToSet
    <3>3. CASE o # p
      <4>1. lock'[o] = lock[o]
        BY <2>2, <3>1, <3>3
      <4>. QED BY <4>1 DEF Pending
    <3>. QED BY <3>2, <3>3
  <2>5. CASE MonitorExit(u, p)
    <3>1. CASE lock[p].recursion = 1
      BY <2>5, <3>1, ChangeOwnerGrants DEF MonitorExit
    <3>2. CASE lock[p].recursion # 1
      <4>1. lock' = [lock EXCEPT ![p].recursion = @ - 1]
        BY <2>5, <3>2 DEF MonitorExit
      <4>2. lock'[o].requests = lock[o].requests
        BY <2>2, <4>1
      <4>. QED BY <4>2 DEF Pending
    <3>. QED BY <3>1, <3>2
  <2>. QED BY <2>1, <2>3, <2>4, <2>5
<1>3. ASSUME NEW u \in Thread, ThreadCalls(u) \/ HandleCalls(u)
      PROVE  UNCHANGED lock
  BY <1>3 DEF ThreadCalls, HandleCalls, QuantumExpired, Sleep, Passivate, SleepExpires,
     WaitExpires, Start, Abort, Suspend, Resume, WaitForSignal, EventSet, EventReset
<1>4. CASE SignalObject \/ SetReturns \/ ReleaseLocks
  BY <1>1, <1>4 DEF SignalObject, SetReturns, ReleaseLocks
<1>5. CASE DestroyOwner
  BY <1>5, EndingThread, ChangeOwnerGrants DEF DestroyOwner
<1>6. CASE DeleteLockRequests
  <2>1. Requests(scan.ends) = {}
    <3>1. \A p \in Object : scan.ends \notin ToSet(lock[p].requests)
      BY <1>6, EndingThread DEF DeleteLockRequests, ThreadInv, Queued
    <3>. QED BY <3>1 DEF Requests, ToSet
  <2>. QED BY <1>1, <1>6, <2>1 DEF DeleteLockRequests
<1>7. CASE UNCHANGED vars
  BY <1>1, <1>7 DEF vars
<1>. QED BY <1>1, <1>2, <1>3, <1>4, <1>5, <1>6, <1>7 DEF Next, Going

\* EnterReturnsOwning: a thread that was in the queue of a lock and is ready
\* after a step owns the lock after that step.
THEOREM EnterReturns ==
    ASSUME ~AbortLockWaiters
    PROVE  Spec => EnterReturnsOwning
<1>1. ASSUME ThreadInv, ThreadInv', [Next]_vars
      PROVE  [\A t \in Thread, o \in Object :
                 t \in ToSet(lock[o].requests) /\ t \in exec'.ready
                    => lock'[o].owner = t]_vars
  <2>1. SUFFICES ASSUME NEW t \in Thread, NEW o \in Object,
                        t \in ToSet(lock[o].requests), t \in exec'.ready
                 PROVE  lock'[o].owner = t
    OBVIOUS
  <2>2. t \in ToSet(lock'[o].requests) \/ lock'[o].owner = t
    BY <1>1, <2>1, RequestsEndWithGrant, ThreadAssumption DEF Pending, Granted
  <2>3. exec'.requests[t] = 0
    <3>1. WaitsApart(exec, t)'
      BY <1>1 DEF ThreadInv, EngineOK
    <3>. QED BY <2>1, <3>1 DEF WaitsApart
  <2>4. t \notin ToSet(lock'[o].requests)
    BY <1>1, <2>3 DEF ThreadInv, Queued
  <2>. QED BY <2>2, <2>4
<1>. QED BY <1>1, Invariance, PTL DEF Spec, EnterReturnsOwning

-----------------------------------------------------------------------------
(***************************************************************************)
(* No wait outlasts its signals.                                           *)
(***************************************************************************)

\* Waits end, none begins, and no thread that waits is suspended.
FewerWaits(e, f) ==
    \A t \in Thread : f.waitFor[t] # NoWait =>
        f.waitFor[t] = e.waitFor[t] /\ (t \in f.suspended => t \in e.suspended)

LEMMA FewerTwice ==
    ASSUME NEW e, NEW f, NEW g, FewerWaits(e, f), FewerWaits(f, g)
    PROVE  FewerWaits(e, g)
BY DEF FewerWaits

LEMMA SameWaits ==
    ASSUME NEW e, NEW f, f.waitFor = e.waitFor, f.suspended = e.suspended
    PROVE  FewerWaits(e, f)
BY DEF FewerWaits

LEMMA MovedWaits ==
    ASSUME NEW e, NEW f, NEW t \in Thread, Moves(e, f, t),
           f.waitFor[t] # NoWait =>
              f.waitFor[t] = e.waitFor[t] /\ (t \in f.suspended => t \in e.suspended)
    PROVE  FewerWaits(e, f)
BY DEF FewerWaits, Moves, SameRow

LEMMA PlacedWaits ==
    ASSUME NEW e, Typed(e), NEW t \in Thread, NoWait \notin Wait
    PROVE  FewerWaits(e, PutInProperList(e, t))
<1>. DEFINE f == PutInProperList(e, t)
<1>1. /\ Moves(e, f, t) /\ f.suspended = e.suspended
      /\ f.waitFor[t] = NoWait \/ f.waitFor = e.waitFor
  BY Placed
<1>. HIDE DEF f
<1>2. FewerWaits(e, f)
  BY <1>1, MovedWaits
<1>. QED BY <1>2 DEF f

LEMMA RestartedWaits ==
    ASSUME NEW e, Typed(e), NEW t \in Thread, NoWait \notin Wait, NEW d \in BOOLEAN
    PROVE  FewerWaits(e, Restart(e, t, d))
<1>. DEFINE f == Restart(e, t, d)
<1>1. /\ Moves(e, f, t) /\ f.suspended = e.suspended
      /\ f.waitFor[t] = NoWait \/ f.waitFor = e.waitFor
  BY Restarted
<1>. HIDE DEF f
<1>2. FewerWaits(e, f)
  BY <1>1, MovedWaits
<1>. QED BY <1>2 DEF f

LEMMA StoppedWaits ==
    ASSUME NEW e, Typed(e), NEW t \in Thread, NoWait \notin Wait
    PROVE  FewerWaits(e, StopToWait(e, t))
<1>. DEFINE f == StopToWait(e, t)
<1>1. f.waitFor = e.waitFor /\ f.suspended = e.suspended
  BY Stopped
<1>. HIDE DEF f
<1>2. FewerWaits(e, f)
  BY <1>1, SameWaits
<1>. QED BY <1>2 DEF f

LEMMA CountedWaits ==
    ASSUME NEW e, Typed(e), NEW t \in Thread, NoWait \notin Wait, NEW d,
           e.requests[t] + d \in 0..MaxRequests
    PROVE  LET f == ChangeLockRequestCount(e, t, d)
           IN  FewerWaits(e, f) /\ Typed(f)
<1>. DEFINE n == e.requests[t] + d
            f == ChangeLockRequestCount(e, t, d)
            g == SetRequests(e, t, n)
<1>. HIDE DEF n
<1>1. /\ Typed(g) /\ g.waitFor = e.waitFor /\ g.suspended = e.suspended
  BY RequestsChanged DEF Moves, n
<1>2. FewerWaits(e, g)
  <2>. HIDE DEF g
  <2>. QED BY <1>1, SameWaits
<1>3. CASE n = 0
  <2>1. f = Restart(g, t, FALSE)
    BY <1>3 DEF ChangeLockRequestCount, SetRequests, n
  <2>. HIDE DEF f, g
  <2>2. FewerWaits(g, Restart(g, t, FALSE)) /\ Typed(Restart(g, t, FALSE))
    BY <1>1, RestartedWaits, Restarted DEF Moves
  <2>3. FewerWaits(e, f) /\ Typed(f)
    BY <1>2, <2>1, <2>2, FewerTwice
  <2>. QED BY <2>3 DEF f
<1>4. CASE n # 0
  <2>1. f = SetStatus(g, t, "Waiting")
    BY <1>4 DEF ChangeLockRequestCount, SetRequests, SetStatus, n
  <2>. HIDE DEF f, g
  <2>. DEFINE h == SetStatus(g, t, "Waiting")
  <2>2. Typed(h) /\ h.waitFor = g.waitFor /\ h.suspended = g.suspended
    BY <1>1, StatusChanged DEF Moves
  <2>. HIDE DEF h
  <2>3. FewerWaits(g, h)
    BY <2>2, SameWaits
  <2>4. FewerWaits(e, f) /\ Typed(f)
    BY <1>2, <2>1, <2>2, <2>3, FewerTwice DEF h
  <2>. QED BY <2>4 DEF f
<1>. QED BY <1>3, <1>4

\* What is signaled can only help.
LEMMA OverGrows ==
    ASSUME NEW w, NEW A, NEW B, A \subseteq B, IsOver(w, A)
    PROVE  IsOver(w, B)
BY DEF IsOver

LEMMA RemainingMeansOver ==
    ASSUME NEW w
    PROVE  Remaining(w) # {} <=> IsOver(w, signaled)
<1>1. CASE w.all
  BY <1>1 DEF Remaining, IsOver
<1>2. CASE ~w.all
  BY <1>2 DEF Remaining, IsOver
<1>. QED BY <1>1, <1>2

\* Where SignalObject is not at a thread, no wait is over; and what takes
\* signals back and ends waits leaves it so.
Unvisited == scan \notin Scan \/ scan.at = End

LEMMA NoneIsOver ==
    ASSUME Signals, Unvisited, NEW t \in Thread, exec.waitFor[t] # NoWait
    PROVE  ~IsOver(exec.waitFor[t], signaled)
BY DEF Signals, Unvisited

LEMMA QuietSignals ==
    ASSUME Signals, Unvisited, FewerWaits(exec, exec'), signaled' \subseteq signaled,
           \A t \in Thread : exec'.waitFor[t] # NoWait => result'[t] = result[t]
    PROVE  Signals'
<1>1. ASSUME NEW t \in Thread, exec'.waitFor[t] # NoWait
      PROVE  /\ t \notin exec'.suspended /\ result'[t] = "init"
             /\ ~IsOver(exec'.waitFor[t], signaled')
  <2>1. /\ exec'.waitFor[t] = exec.waitFor[t] /\ exec.waitFor[t] # NoWait
        /\ t \in exec'.suspended => t \in exec.suspended
    BY <1>1 DEF FewerWaits
  <2>2. t \notin exec.suspended /\ result'[t] = "init"
    BY <1>1, <2>1 DEF Signals
  <2>. QED BY <2>1, <2>2, NoneIsOver, OverGrows
<1>. QED BY <1>1 DEF Signals, IsOver

\* A new signal sets SignalObject off at the first thread that waits.
LEMMA SetOffSignals ==
    ASSUME ThreadAssumption, ThreadInv, Signals, Unvisited, FewerWaits(exec, exec'),
           NEW h \in Handle, signaled' = signaled \cup {h},
           scan' \in Scan, scan'.handle = h, scan'.at = FirstOf(exec.waiting),
           exec'.waiting = exec.waiting, result' = result
    PROVE  Signals'
<1>1. ASSUME NEW t \in Thread, exec'.waitFor[t] # NoWait
      PROVE  /\ t \notin exec'.suspended /\ result'[t] = "init"
             /\ ~IsOver(exec'.waitFor[t], signaled' \ {h})
             /\ scan'.at # End
             /\ \E i, j \in DOMAIN exec'.waiting :
                   i <= j /\ exec'.waiting[i] = scan'.at /\ exec'.waiting[j] = t
  <2>1. /\ exec'.waitFor[t] = exec.waitFor[t] /\ exec.waitFor[t] # NoWait
        /\ t \in exec'.suspended => t \in exec.suspended
    BY <1>1 DEF FewerWaits
  <2>2. t \notin exec.suspended /\ result'[t] = "init"
    BY <2>1 DEF Signals
  <2>3. ~IsOver(exec'.waitFor[t], signaled' \ {h})
    <3>1. signaled' \ {h} \subseteq signaled
      OBVIOUS
    <3>. QED BY <2>1, <3>1, NoneIsOver, OverGrows
  <2>4. t \in ToSet(exec.waiting) /\ exec.waiting \in Seq(Thread)
    BY <2>1, AliveThread, ThreadFacts
  <2>5. PICK j \in DOMAIN exec.waiting : exec.waiting[j] = t
    BY <2>4 DEF ToSet
  <2>6. /\ 1 \in DOMAIN exec.waiting /\ 1 <= j /\ exec.waiting # <<>>
    BY <2>4, <2>5, LenProperties, EmptySeq
  <2>7. scan'.at = exec.waiting[1] /\ scan'.at # End
    <3>1. exec.waiting[1] \in Thread
      BY <2>4, <2>6, LenProperties, ElementOfSeq
    <3>. QED BY <2>4, <2>6, <3>1 DEF FirstOf, ThreadAssumption
  <2>. QED BY <2>1, <2>2, <2>3, <2>5, <2>6, <2>7
<1>. QED BY <1>1 DEF Signals, IsOver

LEMMA RestartedAwake ==
    ASSUME NEW e, Typed(e), NEW t \in Thread, NoWait \notin Wait, NEW d \in BOOLEAN,
           t \notin e.suspended
    PROVE  /\ Restart(e, t, d).waitFor[t] = NoWait
           /\ Restart(e, t, d).waiting = Unlinked(e.waiting, t)
BY Restarted

\* The calls of threads, except the last.
LEMMA ThreadCallsSignal ==
    ASSUME ThreadAssumption, ThreadInv, Signals, ~SuspendWaiters,
           NEW t \in Thread, ThreadCalls(t), ~Passivate(t)
    PROVE  Signals'
<1>0. Typed(exec) /\ NoWait \notin Wait /\ TRUE \in BOOLEAN /\ FALSE \in BOOLEAN
  BY ThreadFacts
<1>1. CASE QuantumExpired(t)
  <2>1. scan = NoScan /\ exec' = PutInProperList(exec, t) /\ UNCHANGED <<signaled, result>>
    BY <1>1 DEF QuantumExpired, Scheduled
  <2>2. FewerWaits(exec, exec')
    BY <1>0, <2>1, PlacedWaits
  <2>. QED BY <2>1, <2>2, QuietSignals DEF Unvisited, ThreadAssumption
<1>2. CASE Sleep(t)
  <2>. DEFINE g == SetSleeping(exec, exec.sleeping \cup {t})
  <2>1. scan = NoScan /\ exec' = StopToWait(g, t) /\ UNCHANGED <<signaled, result>>
    BY <1>2 DEF Sleep, Runs, Scheduled, SetSleeping
  <2>2. /\ exec.sleeping \cup {t} \in SUBSET Thread
        /\ \A u \in Thread : u # t => (u \in exec.sleeping \cup {t} <=> u \in exec.sleeping)
    BY ThreadFacts
  <2>3. Typed(g) /\ g.waitFor = exec.waitFor /\ g.suspended = exec.suspended
    BY <1>0, <2>2, SleepingChanged DEF Moves
  <2>. HIDE DEF g
  <2>4. FewerWaits(exec, g) /\ FewerWaits(g, exec')
    BY <1>0, <2>1, <2>3, SameWaits, StoppedWaits
  <2>5. FewerWaits(exec, exec')
    BY <2>4, FewerTwice
  <2>. QED BY <2>1, <2>5, QuietSignals DEF Unvisited, ThreadAssumption
<1>3. CASE SleepExpires(t)
  <2>. DEFINE g == SetSleeping(exec, exec.sleeping \ {t})
  <2>1. scan = NoScan /\ exec' = Restart(g, t, FALSE) /\ UNCHANGED <<signaled, result>>
    BY <1>3 DEF SleepExpires, SetSleeping
  <2>2. /\ exec.sleeping \ {t} \in SUBSET Thread
        /\ \A u \in Thread : u # t => (u \in exec.sleeping \ {t} <=> u \in exec.sleeping)
    BY ThreadFacts
  <2>3. Typed(g) /\ g.waitFor = exec.waitFor /\ g.suspended = exec.suspended
    BY <1>0, <2>2, SleepingChanged DEF Moves
  <2>. HIDE DEF g
  <2>4. FewerWaits(exec, g) /\ FewerWaits(g, exec')
    BY <1>0, <2>1, <2>3, SameWaits, RestartedWaits
  <2>5. FewerWaits(exec, exec')
    BY <2>4, FewerTwice
  <2>. QED BY <2>1, <2>5, QuietSignals DEF Unvisited, ThreadAssumption
<1>4. CASE WaitExpires(t)
  <2>1. /\ scan = NoScan /\ exec' = Restart(exec, t, TRUE) /\ UNCHANGED signaled
        /\ result' = [result EXCEPT ![t] = "timeout"] /\ t \notin exec.suspended
    BY <1>4 DEF WaitExpires
  <2>2. FewerWaits(exec, exec')
    BY <1>0, <2>1, RestartedWaits
  <2>3. exec'.waitFor[t] = NoWait
    BY <1>0, <2>1, RestartedAwake
  <2>4. \A u \in Thread : exec'.waitFor[u] # NoWait => result'[u] = result[u]
    BY <2>1, <2>3, ThreadFacts
  <2>. QED BY <2>1, <2>2, <2>4, QuietSignals DEF Unvisited, ThreadAssumption
<1>5. ASSUME NEW u \in Thread, Start(t, u)
      PROVE  Signals'
  <2>. DEFINE g == SetStatus(exec, u, "Ready")
  <2>1. /\ scan = NoScan /\ exec' = PutInProperList(g, u)
        /\ signaled' = signaled \ {u} /\ result' = result
    BY <1>5 DEF Start, Runs, Scheduled, SetStatus
  <2>2. Typed(g) /\ g.waitFor = exec.waitFor /\ g.suspended = exec.suspended
    BY <1>0, StatusChanged DEF Moves
  <2>. HIDE DEF g
  <2>3. FewerWaits(exec, g) /\ FewerWaits(g, exec')
    BY <1>0, <2>1, <2>2, SameWaits, PlacedWaits
  <2>4. FewerWaits(exec, exec') /\ signaled' \subseteq signaled
    BY <2>1, <2>3, FewerTwice
  <2>. QED BY <2>1, <2>4, QuietSignals DEF Unvisited, ThreadAssumption
<1>6. ASSUME NEW u \in Thread, Abort(t, u)
      PROVE  Signals'
  <2>1. scan = NoScan /\ exec' = Restart(exec, u, TRUE) /\ UNCHANGED <<signaled, result>>
    BY <1>6 DEF Abort, Runs, Scheduled
  <2>2. FewerWaits(exec, exec')
    BY <1>0, <2>1, RestartedWaits
  <2>. QED BY <2>1, <2>2, QuietSignals DEF Unvisited, ThreadAssumption
<1>7. ASSUME NEW u \in Thread, Suspend(t, u) \/ Resume(t, u)
      PROVE  Signals'
  <2>1. PICK set \in {exec.suspended \cup {u}, exec.suspended \ {u}} :
           /\ exec' = PutInProperList(SetSuspended(exec, set), u)
           /\ u \in set => exec.waitFor[u] = NoWait
    BY <1>7 DEF Suspend, Resume, SetSuspended
  <2>2. scan = NoScan /\ UNCHANGED <<signaled, result>>
    BY <1>7 DEF Suspend, Resume, Runs, Scheduled
  <2>3. /\ set \in SUBSET Thread
        /\ \A v \in Thread : v # u => (v \in set <=> v \in exec.suspended)
    BY ThreadFacts
  <2>. DEFINE g == SetSuspended(exec, set)
  <2>4. Typed(g) /\ g.waitFor = exec.waitFor /\ g.suspended = set
    BY <1>0, <2>3, SuspendedChanged DEF Moves
  <2>5. exec' = PutInProperList(g, u)
    BY <2>1
  <2>. HIDE DEF g
  <2>6. FewerWaits(exec, g)
    BY <2>1, <2>3, <2>4 DEF FewerWaits
  <2>7. FewerWaits(g, exec')
    BY <1>0, <2>4, <2>5, PlacedWaits
  <2>8. FewerWaits(exec, exec')
    BY <2>6, <2>7, FewerTwice
  <2>. QED BY <2>2, <2>8, QuietSignals DEF Unvisited, ThreadAssumption
<1>. QED BY <1>1, <1>2, <1>3, <1>4, <1>5, <1>6, <1>7 DEF ThreadCalls

LEMMA PassivateSignals ==
    ASSUME ThreadAssumption, ThreadInv, Signals, NEW t \in Thread, Passivate(t)
    PROVE  Signals'
<1>. DEFINE f == Passivated(exec, t)
<1>1. /\ t \in exec.ready /\ scan = NoScan /\ exec' = f
      /\ signaled' = signaled \cup {t} /\ result' = result
      /\ scan' = [handle |-> t, at |-> FirstOf(exec.waiting),
                  ends |-> IF Ended(t) THEN Nobody ELSE t]
  BY DEF Passivate, Scheduled, Passivated
<1>2. t \notin ToSet(exec.waiting) /\ exec.waiting \in Seq(Thread) /\ NoRepeats(exec.waiting)
  BY <1>1, AliveThread, ThreadFacts
<1>3. /\ Moves(exec, f, t) /\ f.waiting = Unlinked(exec.waiting, t)
      /\ f.waitFor[t] = NoWait
  BY ThreadFacts, PassivatedSettles
<1>. HIDE DEF f
<1>4. exec'.waiting = exec.waiting
  BY <1>1, <1>2, <1>3, UnlinkedProperties
<1>5. FewerWaits(exec, exec')
  BY <1>1, <1>3, MovedWaits
<1>6. FirstOf(exec.waiting) \in Thread \cup {End}
  BY <1>2, FirstIsMember
<1>7. /\ scan' \in Scan /\ scan'.handle = t /\ scan'.at = FirstOf(exec.waiting)
      /\ t \in Handle
  BY <1>1, <1>6 DEF Scan, Handle
<1>8. Unvisited
  BY <1>1 DEF Unvisited, ThreadAssumption
<1>. QED BY <1>1, <1>4, <1>5, <1>7, <1>8, SetOffSignals

LEMMA ChangeOwnerWaits ==
    ASSUME ThreadAssumption, ThreadInv, NEW o \in Object, ChangeOwner(o)
    PROVE  FewerWaits(exec, exec')
<1>. DEFINE q == lock[o].requests
<1>1. CASE q = <<>>
  BY <1>1 DEF ChangeOwner, FewerWaits
<1>2. CASE q # <<>>
  <2>1. exec' = ChangeLockRequestCount(exec, Head(q), -1)
    BY <1>2 DEF ChangeOwner
  <2>2. Head(q) \in Thread /\ Head(q) \in ToSet(q)
    BY <1>2, QueueFacts, TailProperties DEF ThreadInv
  <2>. PICK next \in Thread : next = Head(q)
    BY <2>2
  <2>3. exec.requests[next] # 0
    BY <2>2, QueueFacts DEF ThreadInv
  <2>4. exec.requests[next] + (-1) \in 0..MaxRequests
    <3>1. exec.requests[next] \in 0..MaxRequests /\ MaxRequests \in Nat
      BY ThreadFacts
    <3>. QED BY <2>3, <3>1
  <2>. HIDE DEF q
  <2>. QED BY <2>1, <2>4, CountedWaits, ThreadFacts
<1>. QED BY <1>1, <1>2

LEMMA MonitorCallsSignal ==
    ASSUME ThreadAssumption, ThreadInv, Signals, NEW t \in Thread, MonitorCalls(t)
    PROVE  Signals'
<1>1. PICK o \in Object : EnterOwned(t, o) \/ EnterWaits(t, o) \/ MonitorExit(t, o)
  BY DEF MonitorCalls
<1>2. scan = NoScan /\ UNCHANGED <<signaled, result>>
  BY <1>1 DEF EnterOwned, EnterWaits, MonitorExit, Runs, Scheduled
<1>3. FewerWaits(exec, exec')
  <2>1. CASE UNCHANGED exec
    BY <2>1 DEF FewerWaits
  <2>2. CASE EnterWaits(t, o)
    <3>. DEFINE g == ChangeLockRequestCount(exec, t, 1)
    <3>1. /\ exec' = StopToWait(g, t)
          /\ t \in exec.ready /\ exec.requests[t] < MaxRequests
      BY <2>2 DEF EnterWaits, Runs, Scheduled
    <3>2. exec.requests[t] + 1 \in 0..MaxRequests
      <4>1. exec.requests[t] \in 0..MaxRequests /\ MaxRequests \in Nat
        BY ThreadFacts
      <4>. QED BY <3>1, <4>1
    <3>3. FewerWaits(exec, g) /\ Typed(g)
      BY <3>2, CountedWaits, ThreadFacts
    <3>. HIDE DEF g
    <3>4. FewerWaits(g, exec')
      BY <3>1, <3>3, StoppedWaits, ThreadFacts
    <3>. QED BY <3>3, <3>4, FewerTwice
  <2>3. CASE MonitorExit(t, o)
    <3>1. ChangeOwner(o) \/ UNCHANGED exec
      BY <2>3 DEF MonitorExit
    <3>. QED BY <2>1, <3>1, ChangeOwnerWaits
  <2>. QED BY <1>1, <2>1, <2>2, <2>3 DEF EnterOwned
<1>. QED BY <1>2, <1>3, QuietSignals DEF Unvisited, ThreadAssumption

LEMMA HandleCallsSignal ==
    ASSUME ThreadAssumption, ThreadInv, Signals, NEW t \in Thread, HandleCalls(t)
    PROVE  Signals'
<1>1. ASSUME NEW w \in Wait, WaitForSignal(t, w)
      PROVE  Signals'
  <2>1. /\ t \in exec.ready /\ scan = NoScan /\ Unvisited /\ scan' = scan
    BY <1>1 DEF WaitForSignal, Runs, Scheduled, Unvisited, ThreadAssumption
  <2>2. CASE /\ signaled' \in Remaining(w) /\ UNCHANGED exec
             /\ result' = [result EXCEPT ![t] = "handle"]
    <3>1. FewerWaits(exec, exec') /\ signaled' \subseteq signaled
      BY <2>2, RemainingShrinks DEF FewerWaits
    <3>2. \A u \in Thread : exec'.waitFor[u] # NoWait => result'[u] = result[u]
      BY <2>1, <2>2, ReadyThread, ThreadFacts
    <3>. QED BY <2>1, <3>1, <3>2, QuietSignals
  <2>3. CASE /\ Remaining(w) = {} /\ UNCHANGED signaled
             /\ result' = [result EXCEPT ![t] = "init"]
             /\ exec' = StopToWait([exec EXCEPT !.waitFor[t] = w], t)
    <3>. DEFINE g == SetWaitFor(exec, t, w)
                f == StopToWait(g, t)
    <3>1. exec' = f
      BY <2>3 DEF SetWaitFor
    <3>2. Typed(exec) /\ NoWait \notin Wait /\ t \notin exec.suspended
      BY <2>1, ReadyThread, ThreadFacts
    <3>3. /\ Moves(exec, g, t) /\ g.waitFor[t] = w /\ g.suspended = exec.suspended
      BY <3>2, WaitForChanged
    <3>4. Typed(g)
      BY <3>3 DEF Moves
    <3>. HIDE DEF g
    <3>5. /\ Moves(g, f, t) /\ f.suspended = g.suspended /\ f.waitFor = g.waitFor
      BY <3>2, <3>4, Stopped
    <3>. HIDE DEF f
    <3>6. Moves(exec, exec', t) /\ exec'.suspended = exec.suspended /\ exec'.waitFor[t] = w
      BY <3>1, <3>3, <3>5, MovesTwice
    <3>7. ASSUME NEW u \in Thread, exec'.waitFor[u] # NoWait
          PROVE  /\ u \notin exec'.suspended /\ result'[u] = "init"
                 /\ ~IsOver(exec'.waitFor[u], signaled')
      <4>0. result'[t] = "init" /\ (u # t => result'[u] = result[u])
        BY <2>3, ThreadFacts
      <4>1. CASE u = t
        BY <2>3, <3>2, <3>6, <4>0, <4>1, RemainingMeansOver
      <4>2. CASE u # t
        <5>1. exec'.waitFor[u] = exec.waitFor[u] /\ exec.waitFor[u] # NoWait
          BY <3>6, <3>7, <4>2 DEF Moves, SameRow
        <5>. QED BY <2>1, <2>3, <3>6, <4>0, <4>2, <5>1, NoneIsOver DEF Signals
      <4>. QED BY <4>1, <4>2
    <3>. QED BY <3>7 DEF Signals, IsOver
  <2>. QED BY <1>1, <2>2, <2>3 DEF WaitForSignal
<1>2. ASSUME NEW h \in Event, EventReset(t, h)
      PROVE  Signals'
  <2>1. scan = NoScan /\ exec' = exec /\ signaled' \subseteq signaled /\ result' = result
    BY <1>2 DEF EventReset, Runs, Scheduled
  <2>2. FewerWaits(exec, exec')
    BY <2>1 DEF FewerWaits
  <2>. QED BY <2>1, <2>2, QuietSignals DEF Unvisited, ThreadAssumption
<1>3. ASSUME NEW h \in Event, EventSet(t, h)
      PROVE  Signals'
  <2>1. /\ scan = NoScan /\ UNCHANGED <<exec, result>> /\ signaled' = signaled \cup {h}
        /\ scan' = [handle |-> h, at |-> FirstOf(exec.waiting), ends |-> Nobody]
    BY <1>3 DEF EventSet, Runs, Scheduled
  <2>2. FewerWaits(exec, exec') /\ Unvisited /\ h \in Handle
    BY <2>1 DEF FewerWaits, Unvisited, ThreadAssumption, Handle
  <2>3. FirstOf(exec.waiting) \in Thread \cup {End}
    BY ThreadFacts, FirstIsMember
  <2>4. scan' \in Scan /\ scan'.handle = h /\ scan'.at = FirstOf(exec.waiting)
    BY <2>1, <2>2, <2>3 DEF Scan
  <2>. QED BY <2>1, <2>2, <2>4, SetOffSignals
<1>. QED BY <1>1, <1>2, <1>3 DEF HandleCalls

\* Taking one thread out of a list does not change the order of the others.
LEMMA OrderKept ==
    ASSUME NEW S, NEW list \in Seq(S), NoRepeats(list), NEW x,
           NEW i \in DOMAIN list, NEW j \in DOMAIN list, i <= j,
           list[i] # x, list[j] # x
    PROVE  \E a, b \in DOMAIN Unlinked(list, x) :
              /\ a <= b /\ Unlinked(list, x)[a] = list[i] /\ Unlinked(list, x)[b] = list[j]
<1>. DEFINE out == Unlinked(list, x)
<1>1. /\ out \in Seq(S) /\ ToSet(out) = ToSet(list) \ {x}
      /\ \A a, b \in DOMAIN out : a < b =>
            \E k, l \in DOMAIN list : k < l /\ out[a] = list[k] /\ out[b] = list[l]
  BY UnlinkedProperties
<1>. HIDE DEF out
<1>2. /\ Len(list) \in Nat /\ DOMAIN list = 1..Len(list)
      /\ Len(out) \in Nat /\ DOMAIN out = 1..Len(out)
  BY <1>1, LenProperties
<1>0. list[i] \in ToSet(list) \ {x} /\ list[j] \in ToSet(list) \ {x}
  BY DEF ToSet
<1>3. PICK a \in DOMAIN out : out[a] = list[i]
  <2>1. list[i] \in ToSet(out)
    BY <1>0, <1>1
  <2>. QED BY <2>1 DEF ToSet
<1>4. PICK b \in DOMAIN out : out[b] = list[j]
  <2>1. list[j] \in ToSet(out)
    BY <1>0, <1>1
  <2>. QED BY <2>1 DEF ToSet
<1>5. CASE i = j
  BY <1>2, <1>3, <1>5 DEF out
<1>6. CASE i # j
  <2>1. ASSUME b < a
        PROVE  FALSE
    <3>1. PICK k \in DOMAIN list, l \in DOMAIN list :
             k < l /\ out[b] = list[k] /\ out[a] = list[l]
      BY <1>1, <2>1
    <3>2. k = j /\ l = i
      BY <1>3, <1>4, <3>1 DEF NoRepeats
    <3>. QED BY <1>2, <3>1, <3>2
  <2>2. a <= b
    BY <1>2, <2>1
  <2>. QED BY <1>3, <1>4, <2>2 DEF out
<1>. QED BY <1>5, <1>6

LEMMA SignalObjectSignals ==
    ASSUME ThreadAssumption, ThreadInv, Signals, SignalObject
    PROVE  Signals'
<1>. DEFINE w == exec.waitFor[scan.at]
            next == IF scan.handle \in signaled' THEN After(exec.waiting, scan.at) ELSE End
<1>1. /\ scan \in Scan /\ scan.at # End /\ scan' = [scan EXCEPT !.at = next]
      /\ \/ /\ w # NoWait /\ signaled' \in Remaining(w)
            /\ result' = [result EXCEPT ![scan.at] = "handle"]
            /\ exec' = Restart(exec, scan.at, TRUE)
         \/ /\ ~(w # NoWait /\ Remaining(w) # {})
            /\ UNCHANGED <<signaled, result, exec>>
  BY DEF SignalObject
<1>2. scan.at \in ToSet(exec.waiting) /\ scan.at \in Thread
  BY <1>1 DEF ThreadInv, GoingOn, Scan
<1>. PICK t \in Thread : t = scan.at
  BY <1>2
<1>3. /\ exec.waiting \in Seq(Thread) /\ NoRepeats(exec.waiting)
      /\ Typed(exec) /\ NoWait \notin Wait
  BY ThreadFacts
<1>4. PICK n \in DOMAIN exec.waiting : exec.waiting[n] = t
  BY <1>2 DEF ToSet
<1>5. /\ FewerWaits(exec, exec') /\ signaled' \subseteq signaled
      /\ exec'.waitFor[t] # NoWait => ~IsOver(exec'.waitFor[t], signaled')
      /\ exec'.waiting = exec.waiting \/ exec'.waiting = Unlinked(exec.waiting, t)
      /\ \A u \in Thread : exec'.waitFor[u] # NoWait => result'[u] = result[u]
  <2>1. CASE /\ w # NoWait /\ signaled' \in Remaining(w)
             /\ result' = [result EXCEPT ![scan.at] = "handle"]
             /\ exec' = Restart(exec, scan.at, TRUE)
    <3>1. signaled' \subseteq signaled
      BY <2>1, RemainingShrinks
    <3>2. t \notin exec.suspended
      BY <2>1 DEF Signals
    <3>. DEFINE f == Restart(exec, t, TRUE)
    <3>3. /\ FewerWaits(exec, f) /\ f.waitFor[t] = NoWait
          /\ f.waiting = Unlinked(exec.waiting, t)
      <4>. TRUE \in BOOLEAN
        OBVIOUS
      <4>1. FewerWaits(exec, f)
        BY <1>3, RestartedWaits
      <4>2. f.waitFor[t] = NoWait /\ f.waiting = Unlinked(exec.waiting, t)
        BY <1>3, <3>2, RestartedAwake
      <4>. QED BY <4>1, <4>2
    <3>4. exec' = f
      BY <2>1
    <3>. HIDE DEF f
    <3>5. \A u \in Thread : exec'.waitFor[u] # NoWait => result'[u] = result[u]
      BY <2>1, <3>3, <3>4, ThreadFacts
    <3>. QED BY <3>1, <3>3, <3>4, <3>5
  <2>2. CASE /\ ~(w # NoWait /\ Remaining(w) # {})
             /\ UNCHANGED <<signaled, result, exec>>
    <3>1. w = NoWait \/ ~IsOver(w, signaled)
      BY <2>2, RemainingMeansOver
    <3>. QED BY <2>2, <3>1 DEF FewerWaits
  <2>. QED BY <1>1, <2>1, <2>2
<1>6. next \in Thread \cup {End}
  BY <1>2, <1>3, AfterIsMember
<1>. HIDE DEF next
<1>7. scan' \in Scan /\ scan'.at = next /\ scan'.handle = scan.handle
  BY <1>1, <1>6, ScanFields
<1>8. ASSUME NEW u \in Thread, exec'.waitFor[u] # NoWait
      PROVE  u \notin exec'.suspended /\ result'[u] = "init"
  BY <1>5, <1>8 DEF FewerWaits, Signals
<1>9. ASSUME NEW u \in Thread, exec'.waitFor[u] # NoWait,
             IsOver(exec'.waitFor[u], signaled')
      PROVE  /\ ~IsOver(exec'.waitFor[u], signaled' \ {scan.handle})
             /\ next # End
             /\ \E i, j \in DOMAIN exec'.waiting :
                   i <= j /\ exec'.waiting[i] = next /\ exec'.waiting[j] = u
  <2>1. u # t /\ exec.waitFor[u] # NoWait /\ exec'.waitFor[u] = exec.waitFor[u]
    BY <1>5, <1>9 DEF FewerWaits
  <2>2. IsOver(exec.waitFor[u], signaled)
    BY <1>5, <1>9, <2>1, OverGrows
  <2>3. /\ ~IsOver(exec.waitFor[u], signaled \ {scan.handle})
        /\ \E i, j \in DOMAIN exec.waiting :
              i <= j /\ exec.waiting[i] = t /\ exec.waiting[j] = u
    BY <2>1, <2>2 DEF Signals
  <2>4. ~IsOver(exec'.waitFor[u], signaled' \ {scan.handle})
    <3>1. signaled' \ {scan.handle} \subseteq signaled \ {scan.handle}
      BY <1>5
    <3>. QED BY <2>1, <2>3, <3>1, OverGrows
  <2>5. scan.handle \in signaled'
    <3>1. ASSUME scan.handle \notin signaled'
          PROVE  FALSE
      <4>1. signaled' \subseteq signaled \ {scan.handle}
        BY <1>5, <3>1
      <4>. QED BY <1>9, <2>1, <2>3, <4>1, OverGrows
    <3>. QED BY <3>1
  <2>6. PICK i \in DOMAIN exec.waiting, j \in DOMAIN exec.waiting :
           i <= j /\ exec.waiting[i] = t /\ exec.waiting[j] = u
    BY <2>3
  <2>7. i = n /\ Len(exec.waiting) \in Nat /\ DOMAIN exec.waiting = 1..Len(exec.waiting)
    BY <1>3, <1>4, <2>6, LenProperties DEF NoRepeats
  <2>8. n # j
    BY <1>4, <2>1, <2>6
  <2>9. n + 1 \in DOMAIN exec.waiting /\ n + 1 <= j /\ n # Len(exec.waiting)
    BY <2>6, <2>7, <2>8
  <2>10. next = exec.waiting[n + 1]
    BY <1>3, <1>4, <2>5, <2>9, AfterIsNext DEF next
  <2>11. exec.waiting[n + 1] \in Thread /\ exec.waiting[n + 1] # t
    <3>1. exec.waiting[n + 1] \in Thread
      BY <1>3, <2>7, <2>9, ElementOfSeq
    <3>2. n + 1 # n
      BY <2>7
    <3>. QED BY <1>3, <1>4, <2>9, <3>1, <3>2 DEF NoRepeats
  <2>12. \E a, b \in DOMAIN exec'.waiting :
            a <= b /\ exec'.waiting[a] = next /\ exec'.waiting[b] = u
    <3>1. CASE exec'.waiting = exec.waiting
      BY <2>6, <2>9, <2>10, <3>1
    <3>2. CASE exec'.waiting = Unlinked(exec.waiting, t)
      BY <1>3, <2>1, <2>6, <2>9, <2>10, <2>11, <3>2, OrderKept
    <3>. QED BY <1>5, <3>1, <3>2
  <2>. QED BY <2>4, <2>10, <2>11, <2>12 DEF ThreadAssumption
<1>. QED BY <1>7, <1>8, <1>9 DEF Signals, IsOver

LEMMA GoingSignals ==
    ASSUME ThreadAssumption, ThreadInv, Signals,
           SetReturns \/ ReleaseLocks \/ DestroyOwner \/ DeleteLockRequests
    PROVE  Signals'
<1>1. Unvisited /\ signaled' = signaled /\ result' = result
  <2>1. CASE SetReturns \/ ReleaseLocks
    BY <2>1 DEF SetReturns, ReleaseLocks, Unvisited
  <2>2. CASE DestroyOwner \/ DeleteLockRequests
    BY <2>2, ScanIsNotDestroy DEF DestroyOwner, DeleteLockRequests, Unvisited
  <2>. QED BY <2>1, <2>2
<1>2. FewerWaits(exec, exec')
  <2>1. CASE UNCHANGED exec
    BY <2>1 DEF FewerWaits
  <2>2. CASE DestroyOwner
    BY <2>2, EndingThread, ChangeOwnerWaits DEF DestroyOwner
  <2>3. CASE DeleteLockRequests
    <3>1. Requests(scan.ends) = {}
      <4>1. \A p \in Object : scan.ends \notin ToSet(lock[p].requests)
        BY <2>3, EndingThread DEF DeleteLockRequests, ThreadInv, Queued
      <4>. QED BY <4>1 DEF Requests, ToSet
    <3>2. UNCHANGED exec
      BY <2>3, <3>1 DEF DeleteLockRequests
    <3>. QED BY <2>1, <3>2
  <2>. QED BY <2>1, <2>2, <2>3 DEF SetReturns, ReleaseLocks
<1>. QED BY <1>1, <1>2, QuietSignals

LEMMA NextSignals ==
    ASSUME ThreadAssumption, ThreadInv, Signals, ~SuspendWaiters, [Next]_vars
    PROVE  Signals'
<1>1. CASE Going
  BY <1>1, SignalObjectSignals, GoingSignals DEF Going
<1>2. ASSUME NEW t \in Thread, ThreadCalls(t)
      PROVE  Signals'
  BY <1>2, ThreadCallsSignal, PassivateSignals
<1>3. ASSUME NEW t \in Thread, MonitorCalls(t)
      PROVE  Signals'
  BY <1>3, MonitorCallsSignal
<1>4. ASSUME NEW t \in Thread, HandleCalls(t)
      PROVE  Signals'
  BY <1>4, HandleCallsSignal
<1>5. CASE UNCHANGED vars
  BY <1>5 DEF vars, Signals, IsOver
<1>. QED BY <1>1, <1>2, <1>3, <1>4, <1>5 DEF Next

\* Signals, whatever the program, as long as it suspends no thread that waits.
THEOREM SignalsServed ==
    ASSUME ~AbortLockWaiters, ~SuspendWaiters
    PROVE  Spec => []Signals
<1>1. Init => Signals
  <2>1. SUFFICES ASSUME Init
                 PROVE  Signals
    OBVIOUS
  <2>2. exec.waitFor = [t \in Thread |-> NoWait]
    BY <2>1 DEF Init
  <2>. QED BY <2>2 DEF Signals
<1>2. ThreadInv /\ Signals /\ [Next]_vars => Signals'
  BY NextSignals, ThreadAssumption
<1>. QED BY <1>1, <1>2, Invariance, PTL DEF Spec

\* NoMissedSignal: between calls no thread waits for handles that are signaled
\* already.
THEOREM NoSignalMissed ==
    ASSUME ~AbortLockWaiters, ~SuspendWaiters
    PROVE  Spec => []NoMissedSignal
<1>1. Signals => NoMissedSignal
  <2>1. scan = NoScan => Unvisited
    BY ThreadAssumption DEF ThreadAssumption, Unvisited
  <2>. QED BY <2>1, NoneIsOver, RemainingMeansOver DEF NoMissedSignal
<1>. QED BY <1>1, SignalsServed, PTL

\* SignalFreesOne: the signal that SignalObject takes back has ended a wait that
\* had not ended before.
THEOREM SignalFrees ==
    ASSUME ~AbortLockWaiters, ~SuspendWaiters
    PROVE  Spec => SignalFreesOne
<1>1. ASSUME ThreadInv, Signals, [Next]_vars
      PROVE  [\A t \in Thread : SignalObject /\ signaled' # signaled /\ scan.at = t
                                   => result[t] = "init"]_vars
  <2>1. SUFFICES ASSUME NEW t \in Thread, SignalObject, signaled' # signaled, scan.at = t
                 PROVE  result[t] = "init"
    OBVIOUS
  <2>2. exec.waitFor[t] # NoWait
    BY <2>1 DEF SignalObject
  <2>. QED BY <1>1, <2>2 DEF Signals
<1>. QED BY <1>1, Invariance, SignalsServed, PTL DEF Spec, SignalFreesOne
=============================================================================
