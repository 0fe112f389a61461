---------------------------- MODULE MCClrThreads ----------------------------
(* Instances of ClrThreads for TLC: the threads but Main are alike.         *)
EXTENDS ClrThreads
CONSTANTS t1, t2

Alike == Permutations({t1, t2})
=============================================================================
