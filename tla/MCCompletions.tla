--------------------------- MODULE MCCompletions ---------------------------
(* Instances of Completions for TLC: the flag the timer sets is the one the *)
(* CLR waits for.                                                           *)
EXTENDS Completions
CONSTANT timer

TimerEvent == {timer}
TimerMask == {{timer}}
=============================================================================
