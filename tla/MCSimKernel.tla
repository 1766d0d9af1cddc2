---------------------------- MODULE MCSimKernel ----------------------------
(* Small instance of SimKernel: a refused delay, equal and distinct times. *)
EXTENDS SimKernel

MCDelays == {-1, 0, 1, 2}
MCHorizons == {0, 2, 3}
MCCaps == {1, 3}
=============================================================================
