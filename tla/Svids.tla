------------------------------- MODULE Svids --------------------------------
(***************************************************************************)
(* svid.py: single values read by number. A reply is the values one after  *)
(* the other without tags, a string with its length in front. Whether the  *)
(* pump pads a string of odd length to a whole word is not known.          *)
(***************************************************************************)
EXTENDS Integers, Sequences

\* REGISTRY, by what a value takes up: a string's length and bytes, 2 or 4
Strings == 10..21
Words == {257, 269, 270, 287, 288, 298, 299, 769, 771, 773, 796, 849}
Longs == {513, 514, 1025, 1048, 1056, 1058, 1071}
Registry == Strings \union Words \union Longs

LengthSize == 2         \* STRING_LEN_FORMAT, and the largest it can hold
LargestLength == 65535
Width(number) == IF number \in Words THEN 2 ELSE 4

-----------------------------------------------------------------------------
(* The pump, external to src/py. It holds texts, each string's length, and   *)
(* padded, whether it pads; its numbers are zero.                            *)

Letter == 65

Sent(pump, number) ==
    IF number \notin Strings THEN [i \in 1..Width(number) |-> 0]
    ELSE LET length == pump.texts[number]
             pad == IF pump.padded /\ length % 2 = 1 THEN <<0>> ELSE <<>>
         IN  <<length % 256, length \div 256>> \o [i \in 1..length |-> Letter] \o pad

\* its reply as far as the k-th value, for each k
Replied(pump, numbers) ==
    LET reply[k \in 0..Len(numbers)] ==
            IF k = 0 THEN <<>> ELSE reply[k - 1] \o Sent(pump, numbers[k])
    IN  reply

Reply(pump, numbers) == Replied(pump, numbers)[Len(numbers)]

\* where the k-th value is in the pump's reply, as <<offset, size>>
SentAt(pump, numbers, k) ==
    LET before == Len(Replied(pump, numbers)[k - 1])
    IN  IF numbers[k] \in Strings
        THEN <<before + LengthSize, pump.texts[numbers[k]]>>
        ELSE <<before, Width(numbers[k])>>

-----------------------------------------------------------------------------
(* walk_reply *)

\* (mutant of ValueAt: a length is one byte)
ValueAtShort(data, at, number) ==
    IF number \notin Strings THEN {<<at, Width(number)>>}
    ELSE IF at + LengthSize > Len(data) THEN {}
    ELSE {<<at + LengthSize - 1, data[at + 1]>>}

\* where the next value is taken to be, if its length is there
ValueAt(data, at, number) ==
    IF number \notin Strings THEN {<<at, Width(number)>>}
    ELSE IF at + LengthSize > Len(data) THEN {}
    ELSE {<<at + LengthSize, data[at + 1] + 256 * data[at + 2]>>}

\* A walk is the places found so far and the offset reached, or RanOut, the
\* ValueError, for good.
RanOut == [found |-> <<>>, at |-> -1]

\* (mutant of Walked: the end of the reply isn't looked at)
WalkedOn(data, walk, number) ==
    LET places == ValueAt(data, walk.at, number)
    IN  IF walk = RanOut \/ places = {} THEN RanOut
        ELSE LET place == CHOOSE p \in places : TRUE
             IN  [found |-> Append(walk.found, place), at |-> place[1] + place[2]]

\* one value further
Walked(data, walk, number) ==
    LET fits == {place \in ValueAt(data, walk.at, number) : place[1] + place[2] <= Len(data)}
    IN  IF walk = RanOut \/ fits = {} THEN RanOut
        ELSE LET place == CHOOSE p \in fits : TRUE
             IN  [found |-> Append(walk.found, place), at |-> place[1] + place[2]]

NotYet == [found |-> <<>>, at |-> 0]

\* the walk as far as the k-th value, for each k
WalkReply(data, numbers) ==
    LET walk[k \in 0..Len(numbers)] ==
            IF k = 0 THEN NotYet ELSE Walked(data, walk[k - 1], numbers[k])
    IN  walk
=============================================================================
