---------------------------- MODULE MCClrTimers ----------------------------
(* An instance of ClrTimers for TLC.                                        *)
EXTENDS ClrTimers
CONSTANTS t1, t2

\* A one-shot, a recurring timer, a stopped one, a refused period and a refused
\* due time.
Requests == {<<1, Infinite>>, <<1, 1>>, <<Infinite, Infinite>>, <<1, -1>>, <<-1, Infinite>>}
=============================================================================
