------------------------------- MODULE Clock -------------------------------
(* block.timestamp, of L1 and of L2: the two chains share one clock.        *)
EXTENDS Integers

VARIABLE now
=============================================================================
