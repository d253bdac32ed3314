---------------------------- MODULE MCGcpWriter -----------------------------
(* Instances of GcpWriter: two versions of a cycle's row, and databases with *)
(* and without the unique key. Without it, sending a row again is only safe  *)
(* where a lost transaction is settled first.                                *)
EXTENDS GcpWriter

CONSTANTS v1, v2

MCKeyed == [unique |-> TRUE, settles |-> FALSE]
MCSettled == [unique |-> FALSE, settles |-> TRUE]
MCUnkeyed == [unique |-> FALSE, settles |-> FALSE]

MCSafe == {MCKeyed, MCSettled}
MCUnsafe == {MCUnkeyed}
=============================================================================
