-------------------------- MODULE MCVirtualTimers --------------------------
(* Instances of VirtualTimers for TLC: what the clients ask for.            *)
EXTENDS VirtualTimers
CONSTANTS mac, led   \* two timers of the same kind

SameKind == Permutations({mac, led})

OneShot(d) == [delay |-> d, period |-> 0, oneShot |-> TRUE]
Periodic(p) == [delay |-> 0, period |-> p, oneShot |-> FALSE]

Soon == {OneShot(1)}
SoonOrPeriodic == Soon \cup {Periodic(2)}
=============================================================================
