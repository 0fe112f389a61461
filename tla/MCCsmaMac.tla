------------------------------ MODULE MCCsmaMac ------------------------------
(* Instances of CsmaMac for TLC.                                            *)
EXTENDS CsmaMac
CONSTANTS a1, r1, r2
=============================================================================
