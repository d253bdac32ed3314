------------------------------ MODULE TraceFrame ------------------------------
(***************************************************************************)
(* A trace on its way from the pump's memory to a column of the profile:    *)
(* the pump's frame, bits the bus flips in it, the check and the repair     *)
(* (parse_frame, try_repair), the decoding and the last look at its result  *)
(* (decode_traces in render.py, decode_trace in profile_decode.py), and its *)
(* column and row. One chunk holds the whole trace.                         *)
(***************************************************************************)
EXTENDS Crc, Decode, Table

CONSTANTS
    Recordings, \* what pumps record, as the blocks they encode it in
    Addr,       \* the pump's address
    Numbers,    \* which of the traces it may be
    StartCycle, \* start_cycle, the sample at the trigger
    Interval,   \* sample_interval
    Burst,      \* more than two flipped bits are no further apart than this
    Nothing

VARIABLES
    recording,
    frame,      \* what arrives of the pump's reply
    flipped,    \* its bits that are not as they were sent
    repaired,   \* the bit that was flipped back, or Nothing
    cut,        \* whether what is decoded is only a capture's first words
    verdict,    \* "column" or "blank"
    profile,    \* the trace in the CSV
    row         \* what the dispense row says of it

output == <<profile, row>>
traceVars == <<decoding, recording, frame, flipped, repaired, cut, verdict, output>>

-----------------------------------------------------------------------------
(* The pump, external: how it encodes a recording, and its reply.            *)

RunKind == [kind : {"run"}, value : Words, len : 1..NegativeFrom]
DeltaKind == [kind : {"delta"}, value : Words, deltas : Seq(-16..15)]
PlainKind == [kind : {"plain"}, values : Seq(Words)]

\* a delta block's samples, each as much lower as its delta says
Lowered(start, deltas) ==
    LET low[i \in 0..Len(deltas)] ==
            IF i = 0 THEN start ELSE (low[i - 1] + WordRange - deltas[i]) % WordRange
    IN  low

\* what the first k sequences make one after the other, for each k
Joined(seqs) ==
    LET first[k \in 0..Len(seqs)] == IF k = 0 THEN <<>> ELSE first[k - 1] \o seqs[k]
    IN  first

SamplesOf(block) ==
    CASE block.kind = "run" -> [i \in 1..block.len |-> block.value]
      [] block.kind = "delta" ->
            [i \in 1..Len(block.deltas)+1 |-> Lowered(block.value, block.deltas)[i - 1]]
      [] block.kind = "plain" -> block.values

\* three deltas to a word, padded with zeros, five bits each
Packed(deltas) ==
    LET Five(k) == IF k <= Len(deltas) THEN (deltas[k] + 32) % 32 ELSE 0
    IN  [w \in 1..(Len(deltas) + 2) \div 3 |->
            Five(3*w - 2) * 2^10 + Five(3*w - 1) * 2^5 + Five(3*w)]

WordsOf(block) ==
    CASE block.kind = "run" -> <<WordRange - block.len, block.value>>
      [] block.kind = "delta" ->
            <<DeltaBlock + Len(block.deltas), block.value>> \o Packed(block.deltas)
      [] block.kind = "plain" -> <<Len(block.values)>> \o block.values

\* of the first k blocks, for each k
RecordedTo(blocks) == Joined([b \in DOMAIN blocks |-> SamplesOf(blocks[b])])
EncodedTo(blocks) == Joined([b \in DOMAIN blocks |-> WordsOf(blocks[b])])

Recorded(blocks) == RecordedTo(blocks)[Len(blocks)]
Encoded(blocks) == EncodedTo(blocks)[Len(blocks)]

Bits(word) == {b \in 0..15 : (word \div 2^b) % 2 = 1}

BitValue(byte, b) == IF b \in byte THEN 2^b ELSE 0
Number(byte) ==
    BitValue(byte, 0) + BitValue(byte, 1) + BitValue(byte, 2) + BitValue(byte, 3) +
    BitValue(byte, 4) + BitValue(byte, 5) + BitValue(byte, 6) + BitValue(byte, 7)

\* each word's low byte first
BytesOf(words) ==
    [i \in 1..2*Len(words) |->
        LET bits == Bits(words[(i + 1) \div 2])
        IN  IF i % 2 = 1 THEN LowByte(bits) ELSE HighByte(bits)]

FrameHeaderLen == 4
CrcLen == 2
Good == {}

FrameOf(words) ==
    LET size == FrameHeaderLen + 2*Len(words) + CrcLen
    IN  AppendCrc(<<Bits(Addr), Good>> \o BytesOf(<<size>>) \o BytesOf(words))

Sent(blocks) == FrameOf(Encoded(blocks))

\* A recording has samples, blocks no longer than their first words can say, and
\* fits into a frame.
ASSUME RecordingsAssumption ==
    \A blocks \in Recordings :
        /\ blocks \in Seq(RunKind \union DeltaKind \union PlainKind)
        /\ \A b \in DOMAIN blocks :
              /\ blocks[b].kind = "delta" => Len(blocks[b].deltas) < DeltaBlock
              /\ blocks[b].kind = "plain" => Len(blocks[b].values) < DeltaBlock
        /\ Len(Recorded(blocks)) > 0
        /\ FrameHeaderLen + 2*Len(Encoded(blocks)) + CrcLen <= MaxLen

ASSUME TraceAssumption ==
    /\ Addr \in 0..255
    /\ Numbers \subseteq 0..Len(TraceColumns)-1
    /\ StartCycle \in Nat /\ Interval \in Nat /\ Burst \in Nat

\* Nothing is no sample, bit, verdict, column or row
ASSUME NothingAssumption ==
    Nothing \notin Int \union {"column", "blank"} \union Seq(Words) \union (Nat \X (0..7))
                   \union [trace : Numbers, times : Seq(Int), values : Seq(Int \union {Nothing})]
                   \union [blank : BOOLEAN, reconstructed : BOOLEAN, failed : BOOLEAN]

-----------------------------------------------------------------------------
TraceInit ==
    /\ recording \in Recordings
    /\ frame = Sent(recording)
    /\ flipped = {}
    /\ repaired = Nothing /\ cut = FALSE /\ verdict = Nothing
    /\ profile = Nothing /\ row = Nothing
    /\ Idle

Place(p) == 8*p[1] + p[2]

\* flips are taken from front to back
FlipBit(p) ==
    /\ at = "idle"
    /\ \A q \in flipped : Place(p) > Place(q)
    /\ Cardinality(flipped) < 3
    /\ Cardinality(flipped) = 2 => \A q \in flipped : Place(p) - Place(q) <= Burst
    /\ flipped' = flipped \union {p}
    /\ frame' = Flip(frame, p)
    /\ UNCHANGED <<decoding, recording, repaired, cut, verdict, output>>

WordAt(f, i) == Number(f[i]) + 2^8 * Number(f[i + 1])

\* parse_frame, and what its callers ask of the reply
GoodReply(f) ==
    /\ WordAt(f, 3) = Len(f)
    /\ IsValid(f)
    /\ Number(f[1]) = Addr
    /\ f[2] = Good

WordsIn(f) == [w \in 1..(Len(f) - FrameHeaderLen - CrcLen) \div 2 |-> WordAt(f, FrameHeaderLen + 2*w - 1)]

Size == Len(Recorded(recording))

Receive ==
    /\ at = "idle"
    /\ GoodReply(frame)
    /\ StartDecode(WordsIn(frame), Size)
    /\ UNCHANGED <<recording, frame, flipped, repaired, cut, verdict, output>>

\* The bit whose flip alone makes the frame pass, if there is only one and what
\* it gives is a good reply.
TryRepair ==
    /\ at = "idle"
    /\ ~GoodReply(frame)
    /\ \E found \in {RepairingBits(frame)} :
          IF Cardinality(found) = 1 /\ (\A p \in found : GoodReply(Flip(frame, p)))
          THEN \E p \in found :
                 /\ repaired' = p
                 /\ StartDecode(WordsIn(Flip(frame, p)), Size)
                 /\ UNCHANGED verdict
          ELSE /\ at' = "failed" /\ verdict' = "blank"
               /\ UNCHANGED <<encoded, maxSamples, pos, samples, value, count, repaired>>
    /\ UNCHANGED <<recording, frame, flipped, cut, output>>

\* profile_decode.py on a capture: a trace of which the last chunks failed is
\* decoded as far as it goes
DecodeCapture ==
    /\ at = "idle" /\ flipped = {}
    /\ \E n \in 0..Len(WordsIn(frame))-1 : StartDecode(SubSeq(WordsIn(frame), 1, n), Size)
    /\ cut' = TRUE
    /\ UNCHANGED <<recording, frame, flipped, repaired, verdict, output>>

Decoding ==
    /\ DecodeStep
    /\ UNCHANGED <<recording, frame, flipped, repaired, cut, verdict, output>>

\* (mutant of Whole: only an error counts)
WholeIfReturned == at = "returned"

Whole == at = "returned" /\ Len(samples) = maxSamples

Judge ==
    /\ at \in {"returned", "raised"} /\ verdict = Nothing
    /\ verdict' = IF Whole THEN "column" ELSE "blank"
    /\ UNCHANGED <<decoding, recording, frame, flipped, repaired, cut, output>>

Info == [unencoded_size |-> Size, start_cycle |-> StartCycle, sample_interval |-> Interval]

\* write_csv, of a capture; or dispense_record and profile_frame
Tabulate ==
    /\ verdict # Nothing /\ profile = Nothing
    /\ LET decoded == IF verdict = "column" THEN samples ELSE Nothing
       IN  /\ \E trace \in Numbers : profile' = ProfileFrame(trace, Info, decoded, Nothing)
           /\ row' = IF cut THEN Nothing
                     ELSE DispenseRecord(decoded, repaired, at = "failed", Nothing)
    /\ UNCHANGED <<decoding, recording, frame, flipped, repaired, cut, verdict>>

Done == profile # Nothing /\ UNCHANGED traceVars

TraceNext ==
    \/ \E p \in Positions(frame) : FlipBit(p)
    \/ Receive \/ TryRepair \/ DecodeCapture \/ Decoding \/ Judge \/ Tabulate \/ Done

TraceSpec == TraceInit /\ [][TraceNext]_traceVars

-----------------------------------------------------------------------------
(* Properties *)

\* Every variable has its type; whatever the words, there are never more samples
\* than the profile has, and nothing is read past the words.
TraceTypeOK ==
    /\ at \in {"idle", "lead", "delta", "returned", "raised", "failed"}
    /\ recording \in Recordings
    /\ Len(encoded) <= Len(frame) /\ pos <= Len(encoded) + 1
    /\ Len(samples) <= maxSamples
    /\ \A i \in DOMAIN samples : samples[i] \in Words
    /\ value \in Words /\ count < DeltaBlock
    /\ flipped \subseteq Positions(frame)
    /\ repaired \in Positions(frame) \union {Nothing}
    /\ cut \in BOOLEAN
    /\ verdict \in {"column", "blank", Nothing}
    /\ profile # Nothing =>
          Len(profile.times) = Size /\ Len(profile.values) = Size

\* A column holds what the pump recorded, to the last sample, and never what is
\* left of a trace that was cut. Only where more than two bits were flipped it may
\* hold something else; then it is told as reconstructed, and is as long as the
\* other columns all the same.
ColumnsAreRecorded ==
    verdict = "column" =>
        \/ samples = Recorded(recording)
        \/ /\ repaired # Nothing /\ Cardinality(flipped) > 2
           /\ Len(samples) = Len(Recorded(recording))

\* what a word says, by the range its column is in
Reading(word, signed) ==
    CHOOSE n \in IF signed THEN -2^15..2^15-1 ELSE Words : n % WordRange = word

\* A trace that was received as it was sent is in the CSV as the pump recorded
\* it: each sample at its distance from the trigger, and so that scaling lost
\* nothing of it, at the ends of a word's range too.
CsvIsRecorded ==
    profile # Nothing /\ verdict = "column" /\ flipped = {} =>
        LET column == TraceColumns[profile.trace + 1]
        IN  /\ StartCycle < Size => profile.times[StartCycle + 1] = 0
            /\ \A i \in 1..Size-1 : profile.times[i + 1] - profile.times[i] = Interval
            /\ \A i \in 1..Size :
                  profile.values[i] * column.scale =
                      Reading(Recorded(recording)[i], column.signed) * 10^column.decimals

\* A dispense row without flaws (render.py, flaws) has the profile exactly as
\* the pump recorded it; and it tells of a repair where the profile has one
\* (never of one that was refused), whatever bits were flipped.
RowIsHonest ==
    row # Nothing =>
        /\ ~row.blank /\ ~row.reconstructed => samples = Recorded(recording)
        /\ row.reconstructed => repaired # Nothing /\ profile.values[1] # Nothing
        /\ row.blank <=> profile.values[1] = Nothing

\* "one flipped bit can be found exactly because the CRC is linear"
\* (crc_repair.py): no trace is lost to a single bit, wherever in the frame.
OneFlipMended == verdict = "blank" /\ ~cut => Cardinality(flipped) > 1

\* The table gives the CRC-16 of the generator polynomial, "the same way the
\* reference CRC16_Init does" (crc16.py), at whatever byte a bit is flipped in.
CrcAsDefined ==
    \A p \in flipped : Cardinality(flipped) = 1 =>
        Crc16(SubSeq(frame, 1, p[1])) =
            NextByDefinition(Crc16(SubSeq(frame, 1, p[1] - 1)), frame[p[1]])
=============================================================================
