----------------------------- MODULE ProfilePull -----------------------------
(***************************************************************************)
(* profile_pull.py: the encoded traces of one profile, pulled a chunk at a *)
(* time over a serial bus that flips bits, loses replies and delivers some *)
(* late, from a pump that may drop the profile while it is being pulled.   *)
(*                                                                         *)
(* A word of a trace is the pair <<trace, index>>, so that a word that     *)
(* ends up in the wrong place, or comes from somewhere else, shows.        *)
(***************************************************************************)
EXTENDS Integers, Sequences

CONSTANTS
    Traces,         \* the trace numbers
    TraceOrder,     \* TRACE_ORDER, the order they are pulled in
    EncodedSize,    \* info.encoded_size: how many words each trace holds
    MaxTraceWords,  \* MAX_TRACE_WORDS
    MaxRetries,     \* MAX_RETRIES
    BusFlips        \* how many bits of one reply the bus may flip

ASSUME TracesAssumption ==
    /\ Traces \subseteq Nat
    /\ TraceOrder \in Seq(Traces)
    /\ \A t \in Traces : \E i \in 1..Len(TraceOrder) : TraceOrder[i] = t
    /\ \A i, j \in 1..Len(TraceOrder) : TraceOrder[i] = TraceOrder[j] => i = j

ASSUME SizesAssumption ==
    /\ EncodedSize \in [Traces -> Nat]
    /\ MaxTraceWords \in Nat \ {0}
    /\ MaxRetries \in Nat
    /\ BusFlips \subseteq 1..3

VARIABLES
    pc,         \* where pull_profile is
    cur,        \* index in TraceOrder of the trace being pulled
    start,      \* the next word to ask for
    count,      \* how many words the open chunk asks for
    attempts,   \* how often it has been asked for
    bad,        \* the replies to it that failed their checks (bad_replies)
    words,      \* TracePull.data of each trace
    failed,     \* the traces with a failed chunk
    repaired,   \* TracePull.repaired: the traces with a repaired chunk
    held,       \* whether the pump still holds the profile
    late        \* the reply, if any, still on its way when its request timed out

open == <<count, attempts, bad>>
pulls == <<words, failed, repaired>>
vars == <<pc, cur, start, count, attempts, bad, words, failed, repaired, held, late>>

-----------------------------------------------------------------------------
(* Words and frames *)

Junk == <<-1, -1>>                      \* a word no pump sent
Words == (Traces \X Nat) \union {Junk}

\* n words of trace t from word first
Slice(t, first, n) == [i \in 1..n |-> <<t, first + i - 1>>]

\* A reply frame: the pump's return code, its data, and what flipping the one
\* bit that makes its CRC pass would give. With one bit damaged that bit is
\* the only candidate; CRC-16 keeps parity, so with two there is none; with
\* three there may be one, and it gives a frame the pump never sent.
Frames == [rc : {"GOOD", "refused"}, words : Seq(Words),
           fix : {"none", "itself", "wrong"}]

Fixes(flips) == CASE flips = 1 -> {"itself"}
                  [] flips = 2 -> {"none"}
                  [] flips = 3 -> {"none", "wrong"}

trace == TraceOrder[cur]

\* TracePull.complete
Complete(t) == Len(words[t]) = EncodedSize[t]

-----------------------------------------------------------------------------
Init ==
    /\ pc = "chunk"
    /\ cur = 1
    /\ start = 0
    /\ count = 0 /\ attempts = 0 /\ bad = <<>>
    /\ words = [t \in Traces |-> <<>>]
    /\ failed = {}
    /\ repaired = {}
    /\ held = TRUE
    /\ late = {}

(***************************************************************************)
(* The pump and the bus, external to src/py.                               *)
(***************************************************************************)

\* What the pump sends for the open chunk: some of the words asked for, or up
\* to one more, while it holds the profile; a refusal at any time.
PumpFrames ==
    {[rc |-> "refused", words |-> <<>>, fix |-> "none"]} \union
    (IF held
     THEN {[rc |-> "GOOD", words |-> Slice(trace, start, n), fix |-> "none"] :
             n \in 0..(count + 1)}
     ELSE {})

\* The frame a request gets back. No frame says which request it answers, so
\* one that is late is taken for the answer to the next.
Answers == IF late = {} THEN PumpFrames ELSE late

\* The pump dispenses, and its oldest profile, the one being pulled, is gone.
Evict ==
    /\ pc \in {"chunk", "request", "recovery", "repair"}
    /\ held
    /\ held' = FALSE
    /\ UNCHANGED <<pc, cur, start, open, pulls, late>>

-----------------------------------------------------------------------------
(* pull_profile and pull_trace *)

\* while start < expected_words: one more ChunkRecord
OpenChunk ==
    /\ pc = "chunk"
    /\ cur <= Len(TraceOrder)
    /\ start < EncodedSize[trace]
    /\ LET left == EncodedSize[trace] - start
       IN  count' = IF left < MaxTraceWords THEN left ELSE MaxTraceWords
    /\ pc' = "request"
    /\ UNCHANGED <<cur, start, attempts, bad, pulls, held, late>>

NextTrace ==
    /\ pc = "chunk"
    /\ cur <= Len(TraceOrder)
    /\ start >= EncodedSize[trace]
    /\ cur' = cur + 1
    /\ start' = 0
    /\ UNCHANGED <<pc, open, pulls, held, late>>

Finish ==
    /\ pc = "chunk"
    /\ cur > Len(TraceOrder)
    /\ pc' = "done"
    /\ UNCHANGED <<cur, start, open, pulls, held, late>>

CloseChunk == count' = 0 /\ attempts' = 0 /\ bad' = <<>>

\* pull_trace stops at this chunk and pull_profile goes on to the next trace
GiveUpTrace ==
    /\ pc' = "chunk"
    /\ cur' = cur + 1
    /\ start' = 0
    /\ CloseChunk

\* (mutant of TakeData: an empty answer is taken like any other)
TakeEmptyData(data) ==
    /\ words' = [words EXCEPT ![trace] = @ \o data]
    /\ pc' = "chunk"
    /\ start' = start + Len(data)
    /\ CloseChunk
    /\ UNCHANGED <<cur, failed>>

\* pull_trace takes the data request_chunk returned; an empty answer would
\* otherwise ask for the same words forever
TakeData(data) ==
    /\ words' = [words EXCEPT ![trace] = @ \o data]
    /\ IF data = <<>>
       THEN /\ failed' = failed \union {trace}
            /\ GiveUpTrace
       ELSE /\ pc' = "chunk"
            /\ start' = start + Len(data)
            /\ CloseChunk
            /\ UNCHANGED <<cur, failed>>

-----------------------------------------------------------------------------
(* request_chunk: each outcome of one paced(pump.get_profile_trace, ...) *)

Attempt ==
    /\ pc = "request"
    /\ attempts' = attempts + 1
    /\ UNCHANGED <<cur, start, count, pulls, held>>

\* (mutant of AfterError: one attempt too many)
AfterErrorOnceMore(n, retryable) ==
    IF n > MaxRetries + 1 \/ ~retryable THEN "repair" ELSE "request"

\* the loop's choice after attempt n failed: ask again, or leave it
AfterError(n, retryable) ==
    IF n > MaxRetries \/ ~retryable THEN "repair" ELSE "request"

GoodReply ==
    /\ pc = "request"
    /\ \E f \in Answers : f.rc = "GOOD" /\ TakeData(f.words)
    /\ late' = {}
    /\ UNCHANGED <<repaired, held>>

\* PumpReturnCodeError: the pump answered, so there is nothing to ask again
Refused ==
    /\ Attempt
    /\ \E f \in Answers : f.rc # "GOOD"
    /\ pc' = AfterError(attempts', FALSE)
    /\ late' = {}
    /\ UNCHANGED bad

\* A damaged reply. The gateway reports it (PumpTransportError with
\* SERIAL_OUTPUT_INVALID_CRC) and it is asked for again, or lets it through
\* (PumpProtocolError) and it is not; either way the frame is kept.
Damaged(noticed) ==
    /\ Attempt
    /\ \E f \in Answers, flips \in BusFlips : \E fix \in Fixes(flips) :
          bad' = Append(bad, [f EXCEPT !.fix = fix])
    /\ pc' = AfterError(attempts', noticed)
    /\ late' = {}

\* SERIAL_READ_TIMEOUT: the reply is lost, or still on its way
ReadTimeout ==
    /\ Attempt
    /\ late' = {} \/ \E f \in Answers : late' = {f}
    /\ pc' = "recovery"
    /\ UNCHANGED bad

\* (mutant of WaitOut: no sleep)
WaitOutUnslept ==
    /\ pc = "recovery"
    /\ pc' = AfterError(attempts, TRUE)
    /\ UNCHANGED <<cur, start, open, pulls, held, late>>

\* paced sleeps TIMEOUT_RECOVERY_SEC, long enough for the late reply to pass,
\* and only then hands the error on
WaitOut ==
    /\ pc = "recovery"
    /\ late' = {}
    /\ pc' = AfterError(attempts, TRUE)
    /\ UNCHANGED <<cur, start, open, pulls, held>>

\* PumpTransportError with any other gateway code, no body
GatewayError ==
    /\ Attempt
    /\ pc' = AfterError(attempts', FALSE)
    /\ UNCHANGED <<bad, late>>

\* NCSError: nothing here catches it, the pump is given up for this run
NetworkFailure ==
    /\ pc = "request"
    /\ pc' = "aborted"
    /\ UNCHANGED <<cur, start, open, pulls, held, late>>

-----------------------------------------------------------------------------
(* try_repair *)

\* exactly one repairing bit, and the result a good reply of the size asked for
Repairable(f) ==
    /\ f.fix # "none"
    /\ f.rc = "GOOD"
    /\ Len(f.words) = count

RepairedWords(f) ==
    IF f.fix = "itself" THEN f.words ELSE [i \in 1..Len(f.words) |-> Junk]

\* the first bad reply that can be repaired is the one used
RepairFirst ==
    /\ pc = "repair"
    /\ \E k \in 1..Len(bad) :
          /\ Repairable(bad[k])
          /\ \A j \in 1..(k - 1) : ~Repairable(bad[j])
          /\ TakeData(RepairedWords(bad[k]))
    /\ UNCHANGED <<held, late>>

\* (mutant of RepairChunk: the record doesn't say so)
RepairUnmarked == RepairFirst /\ UNCHANGED repaired

RepairChunk == RepairFirst /\ repaired' = repaired \union {trace}

\* (mutant of ChunkFails: the record doesn't say so)
ChunkFailsUnmarked ==
    /\ pc = "repair"
    /\ \A k \in 1..Len(bad) : ~Repairable(bad[k])
    /\ GiveUpTrace
    /\ UNCHANGED <<words, failed, repaired, held, late>>

ChunkFails ==
    /\ pc = "repair"
    /\ \A k \in 1..Len(bad) : ~Repairable(bad[k])
    /\ failed' = failed \union {trace}
    /\ GiveUpTrace
    /\ UNCHANGED <<words, repaired, held, late>>

-----------------------------------------------------------------------------
Over == pc \in {"done", "aborted"}

Bridge ==
    \/ OpenChunk \/ NextTrace \/ Finish
    \/ GoodReply \/ Refused \/ Damaged(TRUE) \/ Damaged(FALSE)
    \/ ReadTimeout \/ WaitOut \/ GatewayError \/ NetworkFailure
    \/ RepairChunk \/ ChunkFails

\* the pull is over, its traces go to the capture
Stop == Over /\ UNCHANGED vars

Next == Bridge \/ Evict \/ Stop

\* every request ends, at the latest with the socket's timeout, and every sleep
\* does, so the pull never stays where it is
Fairness == WF_vars(Bridge)

Spec == Init /\ [][Next]_vars
FairSpec == Spec /\ Fairness

-----------------------------------------------------------------------------
(* Properties *)

\* Every variable has its type; in particular a chunk is never asked for more
\* than MaxRetries + 1 times (request_chunk), nor for more words than the pump
\* accepts in one request (profile_trace_request).
TypeOK ==
    /\ pc \in {"chunk", "request", "recovery", "repair", "done", "aborted"}
    /\ cur \in 1..(Len(TraceOrder) + 1)
    /\ start \in Nat
    /\ count \in 0..MaxTraceWords
    /\ attempts \in 0..(MaxRetries + 1)
    /\ bad \in Seq(Frames)
    /\ words \in [Traces -> Seq(Words)]
    /\ failed \subseteq Traces
    /\ repaired \subseteq Traces
    /\ held \in BOOLEAN
    /\ late \in SUBSET Frames

\* The words kept of a trace are the pump's own, of that trace, from the first
\* on and in order, whatever was damaged, lost, late, short, long or refused on
\* the way, and when the profile was dropped half way through. Only a repair of
\* a reply with three flipped bits can break this, and it leaves the trace
\* marked as repaired, which is what the decoder's length check is then for.
WordsInPlace ==
    \A t \in Traces :
        \/ words[t] = Slice(t, 0, Len(words[t]))
        \/ 3 \in BusFlips /\ t \in repaired

\* When the pull is done every trace is accounted for: it is complete, or a
\* failed chunk says why not, or the pump sent more than the trace holds; and a
\* trace with a failed chunk is never taken for complete, so the dispense row's
\* failed_chunks and blank_traces agree.
TracesAccountedFor ==
    pc = "done" =>
        \A t \in Traces :
            /\ t \in failed => ~Complete(t)
            /\ \/ Complete(t)
               \/ t \in failed
               \/ Len(words[t]) > EncodedSize[t]

\* The pull ends: retries run out, and a reply with no data in it is not asked
\* for again for ever.
PullEnds == <>Over
=============================================================================
