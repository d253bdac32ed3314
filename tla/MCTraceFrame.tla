----------------------------- MODULE MCTraceFrame -----------------------------
(* Instances of TraceFrame: runs, deltas that wrap and that don't fill their *)
(* last word, plain words, alone and after one another, at both ends of a    *)
(* word's range.                                                             *)
EXTENDS TraceFrame

Run(v, n) == [kind |-> "run", value |-> v, len |-> n]
Deltas(v, ds) == [kind |-> "delta", value |-> v, deltas |-> ds]
Plain(vs) == [kind |-> "plain", values |-> vs]

MCRecordings == {
    <<Run(65535, 3)>>,
    <<Deltas(3, <<5, -16, 15, -1>>)>>,
    <<Deltas(65530, <<-6>>), Plain(<<32768>>), Run(0, 1)>> }
=============================================================================
