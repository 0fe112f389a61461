--------------------------- MODULE TimerService ----------------------------
(***************************************************************************)
(* What HAL_COMPLETION promises its clients: a callback armed for a tick   *)
(* is handed over at or after that tick, never before another armed        *)
(* callback that is due earlier, and once per arming.                      *)
(***************************************************************************)
EXTENDS Naturals

CONSTANTS
    Completion,
    Ticks,      \* the ticks a callback can be armed for, a set of naturals
    Never       \* the deadline of one that is not armed, after every tick

VARIABLES
    clock,
    deadline,   \* when each completion is due; Never if it is not armed
    fired       \* handed over, the callback not yet run to its end

vars == <<clock, deadline, fired>>

TypeOK ==
    /\ clock \in Nat
    /\ deadline \in [Completion -> Ticks \cup {Never}]
    /\ fired \subseteq Completion

Init ==
    /\ clock = 0
    /\ deadline = [c \in Completion |-> Never]
    /\ fired = {}

Advance ==
    /\ clock' = clock + 1
    /\ UNCHANGED <<deadline, fired>>

\* Arming a completion whose callback is still queued takes it back.
Arm(c, t) ==
    /\ deadline' = [deadline EXCEPT ![c] = t]
    /\ fired' \in {fired, fired \ {c}}
    /\ UNCHANGED clock

Cancel(c) ==
    /\ deadline' = [deadline EXCEPT ![c] = Never]
    /\ fired' \in {fired, fired \ {c}}
    /\ UNCHANGED clock

Fire(c) ==
    /\ deadline[c] # Never
    /\ deadline[c] <= clock
    /\ \A d \in Completion : deadline[c] <= deadline[d]
    /\ c \notin fired
    /\ deadline' = [deadline EXCEPT ![c] = Never]
    /\ fired' = fired \cup {c}
    /\ UNCHANGED clock

Deliver(c) ==
    /\ c \in fired
    /\ fired' = fired \ {c}
    /\ UNCHANGED <<clock, deadline>>

Next ==
    \/ Advance
    \/ \E c \in Completion : Cancel(c) \/ Fire(c) \/ Deliver(c)
    \/ \E c \in Completion, t \in Ticks : Arm(c, t)

Spec == Init /\ [][Next]_vars
=============================================================================
