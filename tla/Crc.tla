---------------------------------- MODULE Crc ----------------------------------
(***************************************************************************)
(* The pump protocol's CRC-16 (crc16.py) and the repair of single flipped   *)
(* bits that its linearity allows (crc_repair.py). A byte or a word is the  *)
(* set of its bits that are set, 0 the least significant.                   *)
(***************************************************************************)
EXTENDS Integers, SequencesExt

CONSTANT MaxLen     \* the longest frame

\* a frame's size is in 16 bits of its header
ASSUME MaxLenAssumption == MaxLen \in 0..2^16-1

Byte == SUBSET (0..7)
Word == SUBSET (0..15)

ShiftLeft(w, n) == {b + n : b \in {c \in w : c + n <= 15}}
ShiftRight(w, n) == {b - n : b \in {c \in w : c >= n}}
LowByte(w) == w \intersect (0..7)
HighByte(w) == ShiftRight(w, 8)

OddParityTerm == {0, 14, 15}    \* 0xC001
Residue == {0, 12, 13, 15}      \* 0xB001

Parity(i) == Cardinality(i) % 2

\* (mutant of Table: one of its shifts is missing)
TableOneShift ==
    [i \in Byte |-> SymDiff(ShiftLeft(i, 7), IF Parity(i) = 1 THEN OddParityTerm ELSE {})]

Table ==
    [i \in Byte |-> SymDiff(SymDiff(ShiftLeft(i, 7), ShiftLeft(i, 6)),
                            IF Parity(i) = 1 THEN OddParityTerm ELSE {})]

\* the register after one more byte
NextCrc(crc, v) ==
    SymDiff(Table[LowByte(SymDiff(v, crc))], HighByte(crc))

\* the register after n bytes, for each n
Register(data) ==
    LET crc[n \in 0..Len(data)] == IF n = 0 THEN {} ELSE NextCrc(crc[n - 1], data[n])
    IN  crc

Crc16(data) == Register(data)[Len(data)]

AppendCrc(data) ==
    LET check == (0..15) \ Crc16(data)
    IN  data \o <<LowByte(check), HighByte(check)>>

IsValid(frame) == Crc16(frame) = Residue

Positions(frame) == (DOMAIN frame) \X (0..7)

Flip(frame, p) == [frame EXCEPT ![p[1]] = SymDiff(@, {p[2]})]

\* what a bit changes in the CRC: as the last of a frame, then with a zero byte
\* more behind it at each step
Effects(bit) ==
    LET state[n \in 0..MaxLen] ==
            IF n = 0 THEN Table[{bit}] ELSE NextCrc(state[n - 1], {})
    IN  state

FlipEffect(bit, zeros) == Effects(bit)[zeros]

\* (mutant of FlipEffects: a zero byte too many)
FlipEffectsOneMore ==
    {<<zeros, bit, FlipEffect(bit, zeros + 1)>> : zeros \in 0..MaxLen-1, bit \in 0..7}

FlipEffects ==
    {<<zeros, bit, FlipEffect(bit, zeros)>> : zeros \in 0..MaxLen-1, bit \in 0..7}

\* No two bits of a frame change its CRC alike, as its bits are fewer than the
\* generator's period, 32767: the longest packet with a frame has 4096 bytes, and
\* those of its own header are not the frame's.
ASSUME EffectsAssumption == \A e, f \in FlipEffects : e[3] = f[3] => e = f

RepairingBits(frame) ==
    LET change == SymDiff(Crc16(frame), Residue)
    IN  {p \in Positions(frame) : <<Len(frame) - p[1], p[2], change>> \in FlipEffects}

-----------------------------------------------------------------------------
(* CRC-16 by its definition: the bits, least significant first, through a    *)
(* register with the generator x^16 + x^15 + x^2 + 1.                        *)

Generator == {0, 13, 15}        \* 0xA001, reflected

Shifted[crc \in Word] == SymDiff(ShiftRight(crc, 1), IF 0 \in crc THEN Generator ELSE {})

\* the register after one more byte
NextByDefinition(crc, v) ==
    LET shifted[n \in 0..8] == IF n = 0 THEN SymDiff(crc, v) ELSE Shifted[shifted[n - 1]]
    IN  shifted[8]
=============================================================================
