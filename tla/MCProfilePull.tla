---------------------------- MODULE MCProfilePull ----------------------------
(* Instances of ProfilePull: two traces, pulled in the opposite of their     *)
(* number order, the first over several chunks and the second in one.        *)
EXTENDS ProfilePull

MCTraces == {0, 7}
MCTraceOrder == <<7, 0>>
MCSizes == [t \in MCTraces |-> IF t = 0 THEN 3 ELSE 1]
=============================================================================
