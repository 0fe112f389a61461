---------------------------- MODULE MCEmoteTime ----------------------------
(* Instances of EmoteTime for TLC: the events timer and one other client.   *)
EXTENDS EmoteTime

OneShotSoon == {[delay |-> 1, period |-> 0, oneShot |-> TRUE]}
=============================================================================
