-------------------------------- MODULE Decode --------------------------------
(***************************************************************************)
(* decode (profile_decode.py): a trace's encoded words, block after block,  *)
(* into samples. Words are 16 bits wide, as on the wire.                    *)
(***************************************************************************)
EXTENDS Integers, Sequences

VARIABLES
    at,         \* "lead": at a block's first word; "delta": in a delta block;
                \* "returned", "raised"
    encoded,    \* the words
    maxSamples,
    pos,        \* the next word
    samples,
    value,      \* the last sample of the delta block
    count       \* deltas left in it

decoding == <<at, encoded, maxSamples, pos, samples, value, count>>

WordRange == 2^16
NegativeFrom == 2^15
DeltaBlock == 2^14
DeltasPerWord == 3
Words == 0..WordRange-1

Least(a, b) == IF a < b THEN a ELSE b

Idle ==
    /\ at = "idle"
    /\ encoded = <<>> /\ maxSamples = 0 /\ pos = 1 /\ samples = <<>>
    /\ value = 0 /\ count = 0

StartDecode(words, max) ==
    /\ at' = "lead"
    /\ encoded' = words /\ maxSamples' = max
    /\ UNCHANGED <<pos, samples, value, count>>

Ended == pos > Len(encoded)
RaiseError == at' = "raised" /\ UNCHANGED <<encoded, maxSamples, pos, samples, value, count>>
Return == at' = "returned" /\ UNCHANGED <<encoded, maxSamples, pos, samples, value, count>>
Continue(n) == pos' = pos + n /\ UNCHANGED <<encoded, maxSamples>>
Fits(n) == Len(samples) + n <= maxSamples

End == at = "lead" /\ Ended /\ Return

\* (mutant of RunLength: the complement, but for the one)
RunLengthOneLess(lead) == WordRange - 1 - lead

RunLength(lead) == WordRange - lead

RunBlock ==
    /\ at = "lead" /\ ~Ended
    /\ encoded[pos] >= NegativeFrom
    /\ LET n == RunLength(encoded[pos]) IN
       IF pos = Len(encoded) THEN RaiseError
       ELSE IF ~Fits(n) THEN Return
       ELSE /\ samples' = samples \o [i \in 1..n |-> encoded[pos + 1]]
            /\ Continue(2)
            /\ UNCHANGED <<at, value, count>>

StartDelta ==
    /\ at = "lead" /\ ~Ended
    /\ encoded[pos] \in DeltaBlock..NegativeFrom-1
    /\ IF pos = Len(encoded) THEN RaiseError
       ELSE IF ~Fits(1) THEN Return
       ELSE /\ value' = encoded[pos + 1]
            /\ samples' = Append(samples, value')
            /\ count' = encoded[pos] - DeltaBlock
            /\ at' = IF count' > 0 THEN "delta" ELSE "lead"
            /\ Continue(2)

\* the k-th of a word's three five bits; the first with whatever the top bit adds
Field(packed, k) ==
    CASE k = 1 -> packed \div 2^10
      [] k = 2 -> (packed \div 2^5) % 2^5
      [] k = 3 -> packed % 2^5

\* (mutant of Delta: one off at the lowest)
DeltaOneOff(packed, k) ==
    IF Field(packed, k) > 16 THEN Field(packed, k) - 32 ELSE Field(packed, k)

Delta(packed, k) ==
    IF Field(packed, k) > 15 THEN Field(packed, k) - 32 ELSE Field(packed, k)

\* (mutant of Below: not cut to a word)
BelowUncut(v, d) == v - d

\* a delta is how much lower the next sample is
Below(v, d) == (v - d) % WordRange

Taken == Least(DeltasPerWord, count)

\* the samples are full in the middle of a word: its other deltas are dropped,
\* but the block's other words are still read
DeltaWord ==
    /\ at = "delta"
    /\ IF Ended THEN RaiseError
       ELSE LET v1 == Below(value, Delta(encoded[pos], 1))
                v2 == Below(v1, Delta(encoded[pos], 2))
                v3 == Below(v2, Delta(encoded[pos], 3))
                room == Least(Taken, maxSamples - Len(samples))
            IN  /\ samples' = samples \o SubSeq(<<v1, v2, v3>>, 1, room)
                /\ value' = (<<v1, v2, v3>>)[Taken]
                /\ count' = count - Taken
                /\ at' = IF count' > 0 THEN "delta" ELSE "lead"
                /\ Continue(1)

PlainBlock ==
    /\ at = "lead" /\ ~Ended
    /\ encoded[pos] < DeltaBlock
    /\ LET n == encoded[pos] IN
       IF ~Fits(n) THEN Return
       ELSE IF pos + n > Len(encoded) THEN RaiseError
       ELSE /\ samples' = samples \o SubSeq(encoded, pos + 1, pos + n)
            /\ Continue(1 + n)
            /\ UNCHANGED <<at, value, count>>

DecodeStep == End \/ RunBlock \/ StartDelta \/ DeltaWord \/ PlainBlock
=============================================================================
