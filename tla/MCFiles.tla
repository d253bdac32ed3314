------------------------------- MODULE MCFiles -------------------------------
(* An instance of Files: profiles of two traces, one reply that may be kept, *)
(* two runs of the bridge and one re-render.                                 *)
EXTENDS Files

MCTraces == <<1, 2>>
MCBadReplies == {<<2, 0, 1>>}
MCMaxRuns == [p \in Procs |-> IF p = Bridge THEN 2 ELSE 1]
=============================================================================
