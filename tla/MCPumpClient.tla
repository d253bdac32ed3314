---------------------------- MODULE MCPumpClient ----------------------------
(* Instances of PumpClient: an answer with a frame has two more units than   *)
(* its header, the longest allowed one more, and garbage one more still.     *)
EXTENDS PumpClient
=============================================================================
