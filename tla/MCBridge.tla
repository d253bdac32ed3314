------------------------------ MODULE MCBridge ------------------------------
(* Instances of Bridge: the first and the last pump share a bus.             *)
EXTENDS Bridge

CONSTANTS b1, b2

MCBus3 == [p \in 1..3 |-> IF p = 2 THEN b2 ELSE b1]
MCFrequency3 == <<2, 1, 3>>
=============================================================================
