-------------------------- MODULE MCHeapPersistence --------------------------
(* Instances of HeapPersistence for TLC.                                    *)
EXTENDS HeapPersistence
CONSTANTS w1, w2, w3
=============================================================================
