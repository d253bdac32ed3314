------------------------------ MODULE MCRender ------------------------------
(* Instances of Render: the file writer, which overwrites in place, and the  *)
(* cloud writer, whose row and object each change in one step. The first of  *)
(* two cycles comes out in every way, the second clean or blank.             *)
EXTENDS Render

CONSTANTS Bridge, Tool

MCCaptures == {capture \in Cycles \X Flaws : capture[1] = 1 \/ capture[2] \in {Clean, <<1, 0>>}}
=============================================================================
