------------------------------ MODULE ReplyProofs ------------------------------
(***************************************************************************)
(* Theorems about the pump's replies: what becomes of a trace's frame, for  *)
(* any recordings and frame length (TraceFrame), and how a command is       *)
(* answered, for any lengths and timeouts (PumpClient).                     *)
(***************************************************************************)
EXTENDS TraceFrame, PumpClient, FiniteSetTheorems, WellFoundedInduction,
        NaturalsInduction, TLAPS

-----------------------------------------------------------------------------
(* Bits *)

\* Which bits a shifted word has.
LEMMA ShiftLeftIs ==
    ASSUME NEW w \in SUBSET Int, NEW n \in Int, NEW b
    PROVE  b \in ShiftLeft(w, n) <=> b \in Int /\ b - n \in w /\ b <= 15
BY DEF ShiftLeft

LEMMA ShiftRightIs ==
    ASSUME NEW w \in SUBSET Int, NEW n \in Int, NEW b
    PROVE  b \in ShiftRight(w, n) <=> b \in Int /\ b + n \in w /\ b >= 0
BY DEF ShiftRight

\* Which bits a symmetric difference has.
LEMMA XorIs ==
    ASSUME NEW A, NEW B, NEW b
    PROVE  b \in SymDiff(A, B) <=> ~(b \in A <=> b \in B)
BY DEF SymDiff

\* A bit set in one of two sets makes their numbers of bits add up modulo two.
LEMMA XorParity ==
    ASSUME NEW A, NEW B, IsFiniteSet(A), IsFiniteSet(B)
    PROVE  /\ IsFiniteSet(SymDiff(A, B))
           /\ Parity(A) \in 0..1 /\ Parity(B) \in 0..1
           /\ Parity(SymDiff(A, B)) = (Parity(A) + Parity(B)) % 2
<1>1. /\ IsFiniteSet(A \ B) /\ IsFiniteSet(B \ A)
      /\ Cardinality(A \ B) = Cardinality(A) - Cardinality(A \cap B)
      /\ Cardinality(B \ A) = Cardinality(B) - Cardinality(B \cap A)
  BY FS_Difference
<1>2. /\ IsFiniteSet((A \ B) \cup (B \ A))
      /\ Cardinality((A \ B) \cup (B \ A)) =
           Cardinality(A \ B) + Cardinality(B \ A) - Cardinality((A \ B) \cap (B \ A))
  BY <1>1, FS_Union
<1>3. (A \ B) \cap (B \ A) = {} /\ B \cap A = A \cap B
  OBVIOUS
<1>4. Cardinality({}) = 0
  BY FS_EmptySet
<1>5. IsFiniteSet(A \cap B)
  BY FS_Intersection
<1>6. Cardinality(A) \in Nat /\ Cardinality(B) \in Nat /\ Cardinality(A \cap B) \in Nat
  BY <1>5, FS_CardinalityType
<1>7. Cardinality(SymDiff(A, B)) = Cardinality(A) + Cardinality(B) - 2 * Cardinality(A \cap B)
  <2>1. Cardinality(SymDiff(A, B)) = Cardinality(A \ B) + Cardinality(B \ A) - 0
    BY <1>2, <1>3, <1>4 DEF SymDiff
  <2>2. Cardinality(B \cap A) = Cardinality(A \cap B)
    BY <1>3
  <2> DEFINE a == Cardinality(A)
             b == Cardinality(B)
             both == Cardinality(A \cap B)
  <2>3. Cardinality(A \ B) = a - both /\ Cardinality(B \ A) = b - both
    BY <1>1, <2>2
  <2>4. a \in Nat /\ b \in Nat /\ both \in Nat
    BY <1>6
  <2> HIDE DEF a, b, both
  <2>5. Cardinality(SymDiff(A, B)) = (a - both) + (b - both) - 0
    BY <2>1, <2>3
  <2>6. Cardinality(SymDiff(A, B)) = a + b - 2 * both
    BY <2>4, <2>5
  <2> QED BY <2>6 DEF a, b, both
<1> QED BY <1>2, <1>6, <1>7 DEF SymDiff, Parity

\* A word has finitely many bits.
LEMMA BitsAreFinite ==
    ASSUME NEW w \in Word
    PROVE  IsFiniteSet(w) /\ Cardinality(w) \in Nat
<1>1. IsFiniteSet(0..15)
  <2>1. 0 \in Int /\ 15 \in Int
    OBVIOUS
  <2> QED BY <2>1, FS_Interval, Zenon
<1>2. IsFiniteSet(w)
  BY <1>1, FS_Subset DEF Word
<1> QED BY <1>2, FS_CardinalityType

\* A byte is a word.
LEMMA BytesAreWords == Byte \subseteq Word
BY DEF Byte, Word

\* What is made of words and bytes are words and bytes.
LEMMA WordOfXor ==
    /\ \A c, d \in Word : SymDiff(c, d) \in Word
    /\ \A v, w \in Byte : SymDiff(v, w) \in Byte
    /\ \A c \in Word : LowByte(c) \in Byte /\ HighByte(c) \in Byte
    /\ \A c \in Word, n \in Nat : ShiftLeft(c, n) \in Word
    /\ {} \in Byte /\ OddParityTerm \in Word /\ Residue \in Word
BY DEF SymDiff, Byte, Word, LowByte, HighByte, ShiftRight, ShiftLeft, OddParityTerm, Residue

\* A bit is in the table's word for i by i's bits a shift away, and by its parity.
LEMMA TableIs ==
    ASSUME NEW i \in Byte
    PROVE  /\ Table[i] \in Word
           /\ \A b \in 0..15 : b \in Table[i] <=>
                ((b - 7 \in i) <=> ((b - 6 \in i) <=> (Parity(i) = 1 /\ b \in OddParityTerm)))
<1>1. i \in SUBSET Int /\ i \in Word
  BY BytesAreWords DEF Byte
<1>2. \A b \in 0..15 : /\ b \in ShiftLeft(i, 7) <=> b - 7 \in i
                       /\ b \in ShiftLeft(i, 6) <=> b - 6 \in i
  BY <1>1, ShiftLeftIs
<1>3. Table[i] = SymDiff(SymDiff(ShiftLeft(i, 7), ShiftLeft(i, 6)),
                         IF Parity(i) = 1 THEN OddParityTerm ELSE {})
  BY DEF Table
<1>4. ShiftLeft(i, 7) \in Word /\ ShiftLeft(i, 6) \in Word
  BY <1>1, WordOfXor
<1>5. (IF Parity(i) = 1 THEN OddParityTerm ELSE {}) \in Word
  BY WordOfXor, BytesAreWords
<1>6. Table[i] \in Word
  BY <1>3, <1>4, <1>5, WordOfXor
<1>7. ASSUME NEW b \in 0..15
      PROVE  b \in Table[i] <=>
                ((b - 7 \in i) <=> ((b - 6 \in i) <=> (Parity(i) = 1 /\ b \in OddParityTerm)))
  <2> DEFINE left == ShiftLeft(i, 7)
             right == ShiftLeft(i, 6)
             odd == IF Parity(i) = 1 THEN OddParityTerm ELSE {}
  <2>1. b \in odd <=> Parity(i) = 1 /\ b \in OddParityTerm
    OBVIOUS
  <2>2. Table[i] = SymDiff(SymDiff(left, right), odd)
    BY <1>3
  <2>3. (b \in left <=> b - 7 \in i) /\ (b \in right <=> b - 6 \in i)
    BY <1>2
  <2> HIDE DEF left, right, odd
  <2>4. b \in Table[i] <=> (b \in left <=> (b \in right <=> b \in odd))
    BY <2>2 DEF SymDiff
  <2> QED BY <2>1, <2>3, <2>4
<1> QED BY <1>6, <1>7

\* A parity is zero or one.
LEMMA ParityOf ==
    ASSUME NEW w \in Word
    PROVE  Parity(w) \in 0..1
BY BitsAreFinite DEF Parity

\* The table is linear.
LEMMA TableXor ==
    ASSUME NEW i \in Byte, NEW j \in Byte
    PROVE  Table[SymDiff(i, j)] = SymDiff(Table[i], Table[j])
<1> DEFINE k == SymDiff(i, j)
<1>1. k \in Byte
  BY WordOfXor
<1>2. Parity(i) \in 0..1 /\ Parity(j) \in 0..1 /\ Parity(k) = (Parity(i) + Parity(j)) % 2
  BY XorParity, BitsAreFinite, BytesAreWords
<1>3. (Parity(k) = 1) <=> ~(Parity(i) = 1 <=> Parity(j) = 1)
  BY <1>2
<1>4. ASSUME NEW b \in 0..15 PROVE b \in Table[k] <=> b \in SymDiff(Table[i], Table[j])
  <2>1. /\ b - 7 \in k <=> ~(b - 7 \in i <=> b - 7 \in j)
        /\ b - 6 \in k <=> ~(b - 6 \in i <=> b - 6 \in j)
    BY DEF SymDiff
  <2>2. b \in SymDiff(Table[i], Table[j]) <=> ~(b \in Table[i] <=> b \in Table[j])
    BY DEF SymDiff
  <2> HIDE DEF k
  <2>3. b \in Table[k] <=>
                ((b - 7 \in k) <=> ((b - 6 \in k) <=> (Parity(k) = 1 /\ b \in OddParityTerm)))
    BY <1>1, TableIs
  <2>4. b \in Table[i] <=>
                ((b - 7 \in i) <=> ((b - 6 \in i) <=> (Parity(i) = 1 /\ b \in OddParityTerm)))
    BY TableIs
  <2>5. b \in Table[j] <=>
                ((b - 7 \in j) <=> ((b - 6 \in j) <=> (Parity(j) = 1 /\ b \in OddParityTerm)))
    BY TableIs
  <2> QED BY <1>3, <2>1, <2>2, <2>3, <2>4, <2>5
<1>5. Table[k] \in Word /\ SymDiff(Table[i], Table[j]) \in Word
  <2> HIDE DEF k
  <2> QED BY <1>1, TableIs, WordOfXor
<1> QED BY <1>4, <1>5 DEF Word

\* The register stays a word.
LEMMA NextCrcIs ==
    ASSUME NEW c \in Word, NEW v \in Byte
    PROVE  /\ NextCrc(c, v) = SymDiff(Table[LowByte(SymDiff(v, c))], HighByte(c))
           /\ NextCrc(c, v) \in Word
           /\ LowByte(SymDiff(v, c)) \in Byte
<1>1. NextCrc(c, v) = SymDiff(Table[LowByte(SymDiff(v, c))], HighByte(c))
  BY DEF NextCrc
<1>2. LowByte(SymDiff(v, c)) \in Byte /\ HighByte(c) \in Word
  BY WordOfXor, BytesAreWords
<1>3. Table[LowByte(SymDiff(v, c))] \in Word
  BY <1>2, TableIs
<1>4. NextCrc(c, v) \in Word
  BY <1>1, <1>2, <1>3, WordOfXor
<1> QED BY <1>1, <1>2, <1>4

\* What goes into the register is added to it.
LEMMA NextCrcXor ==
    ASSUME NEW c \in Word, NEW d \in Word, NEW v \in Byte, NEW w \in Byte
    PROVE  NextCrc(SymDiff(c, d), SymDiff(v, w)) = SymDiff(NextCrc(c, v), NextCrc(d, w))
<1> DEFINE i == LowByte(SymDiff(v, c))
           j == LowByte(SymDiff(w, d))
<1>1. SymDiff(c, d) \in Word /\ SymDiff(v, w) \in Byte /\ i \in Byte /\ j \in Byte
  BY WordOfXor, NextCrcIs
<1>2. LowByte(SymDiff(SymDiff(v, w), SymDiff(c, d))) = SymDiff(i, j)
  BY DEF LowByte, SymDiff
<1>3. HighByte(SymDiff(c, d)) = SymDiff(HighByte(c), HighByte(d))
  <2>1. c \in SUBSET Int /\ d \in SUBSET Int /\ SymDiff(c, d) \in SUBSET Int
    BY <1>1 DEF Word
  <2>2. \A b : /\ b \in HighByte(c) <=> b \in Int /\ b + 8 \in c /\ b >= 0
               /\ b \in HighByte(d) <=> b \in Int /\ b + 8 \in d /\ b >= 0
               /\ b \in HighByte(SymDiff(c, d)) <=> b \in Int /\ b + 8 \in SymDiff(c, d) /\ b >= 0
    BY <2>1, ShiftRightIs DEF HighByte
  <2> QED BY <2>2 DEF SymDiff
<1>4. Table[SymDiff(i, j)] = SymDiff(Table[i], Table[j])
  BY <1>1, TableXor
<1>5. NextCrc(SymDiff(c, d), SymDiff(v, w)) =
        SymDiff(SymDiff(Table[i], Table[j]), SymDiff(HighByte(c), HighByte(d)))
  BY <1>1, <1>2, <1>3, <1>4, NextCrcIs
<1>6. NextCrc(c, v) = SymDiff(Table[i], HighByte(c)) /\ NextCrc(d, w) = SymDiff(Table[j], HighByte(d))
  BY NextCrcIs
<1> HIDE DEF i, j
<1> QED BY <1>5, <1>6 DEF SymDiff

(* Recursive functions on 0..n *)

\* Each set of natural numbers that is not empty has a least.
LEMMA LeastOf ==
    ASSUME NEW T \in SUBSET Nat, T # {}
    PROVE  \E m \in T : \A n \in T : m <= n
<1> DEFINE R == OpToRel(<, Nat)
<1>1. IsWellFoundedOn(R, Nat)
  BY NatLessThanWellFounded
<1> HIDE DEF R
<1>2. PICK m \in T : \A n \in T : ~(<<n, m>> \in R)
  BY <1>1, WFMin, Zenon
<1>3. \A n \in T : n < m => <<n, m>> \in R
  BY DEF R, OpToRel
<1>4. \A n \in T : ~(n < m)
  BY <1>2, <1>3
<1> QED BY <1>4

\* What holds at 0 and goes on holding up to N holds up to N.
LEMMA UpTo ==
    ASSUME NEW N \in Nat, NEW S \in SUBSET Nat, 0 \in S,
           \A n \in S : n < N => n + 1 \in S
    PROVE  \A n \in 0..N : n \in S
<1> SUFFICES ASSUME (0..N) \ S # {} PROVE FALSE
  OBVIOUS
<1>1. (0..N) \ S \in SUBSET Nat
  OBVIOUS
<1>2. PICK m \in (0..N) \ S : \A n \in (0..N) \ S : m <= n
  BY <1>1, LeastOf
<1>3. m # 0 /\ m - 1 \in 0..N /\ m - 1 < N /\ ~(m <= m - 1)
  BY <1>2
<1>4. m - 1 \in S
  BY <1>2, <1>3
<1>5. (m - 1) + 1 \in S
  BY <1>3, <1>4
<1> QED BY <1>2, <1>5

\* f goes on from base by the steps g
Follows(f, S, N, base, g) ==
    f \in [0..N -> S] /\ f[0] = base /\ \A i \in 1..N : f[i] = g[<<f[i - 1], i>>]

\* There is such a function, whatever the steps.
LEMMA Recursion ==
    ASSUME NEW S, NEW N \in Nat, NEW base \in S, NEW g \in [S \X (1..N) -> S]
    PROVE  \E f : Follows(f, S, N, base, g)
<1> DEFINE P(n) == \E f \in [0..n -> S] : \A i \in 0..n : f[i] = IF i = 0 THEN base ELSE g[<<f[i - 1], i>>]
           T == {n \in Nat : P(n)}
<1>1. P(0)
  <2> DEFINE f == [i \in 0..0 |-> base]
  <2>1. f \in [0..0 -> S] /\ \A i \in 0..0 : i = 0 /\ f[i] = base
    OBVIOUS
  <2> HIDE DEF f
  <2> QED BY <2>1
<1>2. ASSUME NEW n \in Nat, n < N, P(n) PROVE P(n + 1)
  <2>1. PICK f \in [0..n -> S] : \A i \in 0..n : f[i] = IF i = 0 THEN base ELSE g[<<f[i - 1], i>>]
    BY <1>2
  <2> DEFINE last == g[<<f[n], n + 1>>]
             h == [i \in 0..(n + 1) |-> IF i = n + 1 THEN last ELSE f[i]]
  <2>2. last \in S
    <3>1. f[n] \in S /\ n + 1 \in 1..N
      BY <1>2, <2>1
    <3> QED BY <3>1
  <2>3. h \in [0..(n + 1) -> S]
    <3> HIDE DEF last
    <3> QED BY <2>1, <2>2
  <2>4. \A i \in 0..n : h[i] = f[i] /\ i - 1 # n + 1
    OBVIOUS
  <2>5. h[n + 1] = last
    OBVIOUS
  <2> HIDE DEF h
  <2>6. ASSUME NEW i \in 0..(n + 1) PROVE h[i] = IF i = 0 THEN base ELSE g[<<h[i - 1], i>>]
    <3>1. CASE i = n + 1
      <4>1. i # 0 /\ i - 1 = n /\ n \in 0..n
        BY <3>1
      <4> QED BY <3>1, <4>1, <2>4, <2>5
    <3>2. CASE i # n + 1 /\ i # 0
      <4>1. i \in 0..n /\ i - 1 \in 0..n
        BY <3>2
      <4> QED BY <3>2, <4>1, <2>1, <2>4
    <3>3. CASE i = 0
      <4>1. i \in 0..n
        BY <3>3
      <4> QED BY <3>3, <4>1, <2>1, <2>4
    <3> QED BY <3>1, <3>2, <3>3
  <2> QED BY <2>3, <2>6
<1> HIDE DEF P
<1>3. T \in SUBSET Nat /\ 0 \in T
  BY <1>1
<1>4. \A n \in T : n < N => n + 1 \in T
  BY <1>2
<1>5. \A n \in 0..N : n \in T
  BY <1>3, <1>4, UpTo
<1>6. P(N)
  BY <1>5
<1>7. PICK f \in [0..N -> S] : \A i \in 0..N : f[i] = IF i = 0 THEN base ELSE g[<<f[i - 1], i>>]
  BY <1>6 DEF P
<1>8. 0 \in 0..N /\ \A i \in 1..N : i \in 0..N /\ i # 0
  OBVIOUS
<1>9. f[0] = base /\ \A i \in 1..N : f[i] = g[<<f[i - 1], i>>]
  BY <1>7, <1>8
<1> QED BY <1>7, <1>9 DEF Follows


\* What holds of f at 0 and goes on holding holds of it up to N.
LEMMA Throughout ==
    ASSUME NEW N \in Nat, NEW S, NEW f, f[0] \in S,
           \A n \in 1..N : f[n - 1] \in S => f[n] \in S
    PROVE  \A n \in 0..N : f[n] \in S
<1> DEFINE T == {n \in Nat : n <= N => f[n] \in S}
<1>1. T \in SUBSET Nat /\ 0 \in T
  OBVIOUS
<1>2. ASSUME NEW n \in T, n < N PROVE n + 1 \in T
  <2>1. n + 1 \in 1..N /\ (n + 1) - 1 = n /\ f[n] \in S
    BY <1>2
  <2>2. f[(n + 1) - 1] \in S
    BY <2>1
  <2>3. f[n + 1] \in S
    BY <2>1, <2>2
  <2> QED BY <2>1, <2>3
<1>3. \A n \in 0..N : n \in T
  <2> HIDE DEF T
  <2> QED BY <1>1, <1>2, UpTo
<1> QED BY <1>3

-----------------------------------------------------------------------------
(* The register *)

RegisterEq(f, data) ==
    f = [n \in 0..Len(data) |-> IF n = 0 THEN {} ELSE NextCrc(f[n - 1], data[n])]

\* The register takes the bytes one after the other.
LEMMA RegisterIs ==
    ASSUME NEW data \in Seq(Byte)
    PROVE  /\ Register(data) \in [0..Len(data) -> Word]
           /\ Register(data)[0] = {}
           /\ \A n \in 1..Len(data) : Register(data)[n] = NextCrc(Register(data)[n - 1], data[n])
<1> DEFINE N == Len(data)
           g == [p \in Word \X (1..N) |-> NextCrc(p[1], data[p[2]])]
<1>1. \A i \in 1..N : data[i] \in Byte
  OBVIOUS
<1>2. \A c \in Word, i \in 1..N : NextCrc(c, data[i]) \in Word
  BY <1>1, NextCrcIs
<1>3. g \in [Word \X (1..N) -> Word]
  BY <1>2
<1>4. \A c \in Word, i \in 1..N : g[<<c, i>>] = NextCrc(c, data[i])
  OBVIOUS
<1> HIDE DEF g
<1>5. PICK f : Follows(f, Word, N, {}, g)
  <2>1. N \in Nat /\ {} \in Word
    BY WordOfXor, BytesAreWords
  <2> QED BY <2>1, <1>3, Recursion, Zenon
<1>6. \A i \in 0..N : f[i] = IF i = 0 THEN {} ELSE NextCrc(f[i - 1], data[i])
  <2>1. \A i \in 1..N : f[i - 1] \in Word
    BY <1>5 DEF Follows
  <2>2. \A i \in 1..N : i # 0 /\ g[<<f[i - 1], i>>] = NextCrc(f[i - 1], data[i])
    BY <2>1, <1>4
  <2>3. \A i \in 0..N : i = 0 \/ i \in 1..N
    OBVIOUS
  <2> QED BY <2>2, <2>3, <1>5 DEF Follows
<1>7. RegisterEq(f, data)
  <2>1. f = [i \in 0..N |-> f[i]]
    BY <1>5 DEF Follows
  <2> QED BY <2>1, <1>6 DEF RegisterEq
<1> DEFINE r == CHOOSE s : RegisterEq(s, data)
<1>8. Register(data) = r
  BY DEF Register, RegisterEq
<1>9. RegisterEq(r, data)
  BY <1>7
<1> HIDE DEF r
<1>10. DOMAIN r = 0..N /\ \A i \in 0..N : r[i] = IF i = 0 THEN {} ELSE NextCrc(r[i - 1], data[i])
  BY <1>9, Zenon DEF RegisterEq
<1>11. r[0] = {} /\ \A i \in 1..N : r[i] = NextCrc(r[i - 1], data[i])
  <2>1. 0 \in 0..N /\ \A i \in 1..N : i \in 0..N /\ i # 0
    OBVIOUS
  <2> QED BY <2>1, <1>10
<1>12. \A i \in 0..N : r[i] \in Word
  <2>1. r[0] \in Word
    BY <1>11, WordOfXor, BytesAreWords
  <2>2. \A i \in 1..N : r[i - 1] \in Word => r[i] \in Word
    BY <1>2, <1>11
  <2> HIDE DEF N
  <2>3. N \in Nat
    BY DEF N
  <2> QED BY <2>1, <2>2, <2>3, Throughout, Zenon
<1>13. r = [i \in 0..N |-> r[i]]
  BY <1>9, Zenon DEF RegisterEq
<1>14. r \in [0..N -> Word]
  BY <1>12, <1>13
<1> QED BY <1>8, <1>11, <1>14

EffectsEq(f, bit) ==
    f = [n \in 0..MaxLen |-> IF n = 0 THEN Table[{bit}] ELSE NextCrc(f[n - 1], {})]

\* A flipped bit's effect goes through the register with a zero byte at a time.
LEMMA EffectsIs ==
    ASSUME NEW bit \in 0..7
    PROVE  /\ Effects(bit) \in [0..MaxLen -> Word]
           /\ Effects(bit)[0] = Table[{bit}]
           /\ \A n \in 1..MaxLen : Effects(bit)[n] = NextCrc(Effects(bit)[n - 1], {})
<1> DEFINE base == Table[{bit}]
           g == [p \in Word \X (1..MaxLen) |-> NextCrc(p[1], {})]
<1>1. MaxLen \in Nat /\ base \in Word /\ {} \in Byte
  BY MaxLenAssumption, TableIs DEF Byte
<1>2. \A c \in Word : NextCrc(c, {}) \in Word
  BY <1>1, NextCrcIs
<1>3. g \in [Word \X (1..MaxLen) -> Word]
  BY <1>2
<1>4. \A c \in Word, i \in 1..MaxLen : g[<<c, i>>] = NextCrc(c, {})
  OBVIOUS
<1> HIDE DEF g, base
<1>5. PICK f : Follows(f, Word, MaxLen, base, g)
  BY <1>1, <1>3, Recursion, Zenon
<1>6. \A i \in 0..MaxLen : f[i] = IF i = 0 THEN base ELSE NextCrc(f[i - 1], {})
  <2>1. \A i \in 1..MaxLen : f[i - 1] \in Word
    BY <1>1, <1>5 DEF Follows
  <2>2. \A i \in 1..MaxLen : i # 0 /\ g[<<f[i - 1], i>>] = NextCrc(f[i - 1], {})
    BY <2>1, <1>4
  <2>3. \A i \in 0..MaxLen : i = 0 \/ i \in 1..MaxLen
    BY <1>1
  <2> QED BY <2>2, <2>3, <1>5 DEF Follows
<1>7. EffectsEq(f, bit)
  <2>1. f = [i \in 0..MaxLen |-> f[i]]
    BY <1>5 DEF Follows
  <2> QED BY <2>1, <1>6 DEF EffectsEq, base
<1> DEFINE r == CHOOSE s : EffectsEq(s, bit)
<1>8. Effects(bit) = r
  BY DEF Effects, EffectsEq
<1>9. EffectsEq(r, bit)
  BY <1>7
<1> HIDE DEF r
<1>10. DOMAIN r = 0..MaxLen /\ \A i \in 0..MaxLen : r[i] = IF i = 0 THEN base ELSE NextCrc(r[i - 1], {})
  BY <1>9, Zenon DEF EffectsEq, base
<1>11. r[0] = base /\ \A i \in 1..MaxLen : r[i] = NextCrc(r[i - 1], {})
  <2>1. 0 \in 0..MaxLen /\ \A i \in 1..MaxLen : i \in 0..MaxLen /\ i # 0
    BY <1>1
  <2> QED BY <2>1, <1>10
<1>12. \A i \in 0..MaxLen : r[i] \in Word
  <2>1. \A i \in 1..MaxLen : r[i - 1] \in Word => r[i] \in Word
    BY <1>2, <1>11
  <2> QED BY <2>1, <1>1, <1>11, Throughout, Zenon
<1>13. r = [i \in 0..MaxLen |-> r[i]]
  BY <1>9, Zenon DEF EffectsEq
<1>14. r \in [0..MaxLen -> Word]
  BY <1>12, <1>13
<1> QED BY <1>8, <1>11, <1>14 DEF base

\* Shifting keeps the number of bits.
LEMMA ShiftCount ==
    ASSUME NEW S \in SUBSET Int, IsFiniteSet(S), NEW k \in Int,
           NEW T \in SUBSET Int, \A b \in Int : b \in T <=> b - k \in S
    PROVE  Cardinality(T) = Cardinality(S)
<1> DEFINE f == [b \in S |-> b + k]
<1>1. f \in [S -> T]
  OBVIOUS
<1>2. \A a, b \in S : f[a] = f[b] => a = b
  OBVIOUS
<1>3. \A t \in T : \E b \in S : f[b] = t
  <2> TAKE t \in T
  <2>1. t - k \in S /\ f[t - k] = t
    OBVIOUS
  <2> QED BY <2>1
<1> HIDE DEF f
<1>4. f \in Bijection(S, T)
  BY <1>1, <1>2, <1>3 DEF Bijection, Injection, Surjection, IsInjective
<1>5. ExistsBijection(S, T)
  BY <1>4 DEF ExistsBijection
<1> QED BY <1>5, FS_Bijection

\* The table's word for i has as many bits as i modulo two.
LEMMA TableParity ==
    ASSUME NEW i \in Byte
    PROVE  Parity(Table[i]) = Parity(i)
<1> DEFINE left == ShiftLeft(i, 7)
           right == ShiftLeft(i, 6)
           odd == IF Parity(i) = 1 THEN OddParityTerm ELSE {}
<1>1. i \in SUBSET Int /\ i \in Word /\ IsFiniteSet(i)
  BY BytesAreWords, BitsAreFinite DEF Byte
<1>2. left \in Word /\ right \in Word
  BY <1>1, WordOfXor
<1>3. \A b \in Int : (b \in left <=> b - 7 \in i) /\ (b \in right <=> b - 6 \in i)
  BY ShiftLeftIs, <1>1 DEF Byte
<1>4. Cardinality(left) = Cardinality(i) /\ Cardinality(right) = Cardinality(i)
  <2>1. left \in SUBSET Int /\ right \in SUBSET Int
    BY <1>2 DEF Word
  <2> HIDE DEF left, right
  <2>2. Cardinality(left) = Cardinality(i)
    <3>1. 7 \in Int /\ i \in SUBSET Int /\ \A b \in Int : b \in left <=> b - 7 \in i
      BY <1>1, <1>3
    <3> QED BY <1>1, <2>1, <3>1, ShiftCount, Zenon
  <2>3. Cardinality(right) = Cardinality(i)
    <3>1. 6 \in Int /\ i \in SUBSET Int /\ \A b \in Int : b \in right <=> b - 6 \in i
      BY <1>1, <1>3
    <3> QED BY <1>1, <2>1, <3>1, ShiftCount, Zenon
  <2> QED BY <2>2, <2>3
<1>5. Parity(i) \in 0..1 /\ Parity(left) = Parity(i) /\ Parity(right) = Parity(i)
  BY <1>1, <1>4, ParityOf DEF Parity
<1>6. odd \in Word /\ Parity(odd) = Parity(i)
  <2>1. Parity({}) = 0 /\ {} \in Word
    BY FS_EmptySet, BytesAreWords, WordOfXor DEF Parity
  <2>2. Parity(OddParityTerm) = 1
    <3>1. IsFiniteSet({}) /\ Cardinality({}) = 0
      BY FS_EmptySet
    <3>2. IsFiniteSet({0}) /\ Cardinality({0}) = 1
      BY FS_Singleton
    <3> DEFINE two == {0} \cup {14}
               three == two \cup {15}
    <3>3. 14 \notin {0} /\ 15 \notin two /\ three = {0, 14, 15}
      OBVIOUS
    <3> HIDE DEF three
    <3>4. IsFiniteSet(two) /\ Cardinality(two) = 1 + 1
      BY <3>2, <3>3, FS_AddElement
    <3> HIDE DEF two
    <3>5. Cardinality(two \cup {15}) = Cardinality(two) + 1
      BY <3>3, <3>4, FS_AddElement
    <3>6. Cardinality({0, 14, 15}) = 3
      BY <3>3, <3>4, <3>5 DEF three
    <3>7. OddParityTerm = {0, 14, 15}
      BY DEF OddParityTerm
    <3> QED BY <3>6, <3>7 DEF Parity
  <2> QED BY <2>1, <2>2, <1>5, WordOfXor
<1>7. Table[i] = SymDiff(SymDiff(left, right), odd)
  BY DEF Table
<1> HIDE DEF left, right, odd
<1>8. SymDiff(left, right) \in Word /\ Parity(SymDiff(left, right)) = 0
  <2>1. IsFiniteSet(left) /\ IsFiniteSet(right) /\ SymDiff(left, right) \in Word
    BY <1>2, BitsAreFinite, WordOfXor
  <2>2. Parity(SymDiff(left, right)) = (Parity(left) + Parity(right)) % 2
    BY <2>1, XorParity
  <2>3. Parity(SymDiff(left, right)) = (Parity(i) + Parity(i)) % 2
    BY <1>5, <2>2
  <2>4. (Parity(i) + Parity(i)) % 2 = 0
    BY <1>5
  <2> QED BY <2>1, <2>3, <2>4
<1>9. Parity(SymDiff(SymDiff(left, right), odd)) = (0 + Parity(i)) % 2
  BY <1>6, <1>8, XorParity, BitsAreFinite
<1> QED BY <1>5, <1>7, <1>9

\* A byte more makes the register's number of bits even or odd as the byte's is.
LEMMA NextCrcParity ==
    ASSUME NEW c \in Word, NEW v \in Byte
    PROVE  Parity(NextCrc(c, v)) = (Parity(c) + Parity(v)) % 2
<1> DEFINE i == LowByte(SymDiff(v, c))
           low == LowByte(c)
           high == HighByte(c)
           up == c \ (0..7)
<1>1. i \in Byte /\ low \in Byte /\ high \in Byte
  BY NextCrcIs, WordOfXor
<1>2. i = SymDiff(v, low)
  BY DEF LowByte, SymDiff, Byte
<1>3. up \in Word /\ SymDiff(low, up) = c
  BY DEF LowByte, SymDiff, Word
<1>4. Cardinality(up) = Cardinality(high)
  <2>1. high \in SUBSET Int /\ up \in SUBSET Int /\ IsFiniteSet(high) /\ c \in SUBSET Int
    <3>1. high \in Word
      BY <1>1, BytesAreWords
    <3>2. IsFiniteSet(high)
      BY <3>1, BitsAreFinite
    <3> QED BY <1>3, <3>1, <3>2 DEF Word
  <2>2. \A b \in Int : b \in up <=> b - 8 \in high
    <3>1. \A b \in Int : b - 8 \in high <=> b \in c /\ b - 8 >= 0
      BY <2>1, ShiftRightIs DEF HighByte
    <3>2. \A b \in Int : b \in up <=> b \in c /\ b >= 8
      BY DEF Word
    <3> QED BY <3>1, <3>2
  <2> HIDE DEF up, high
  <2>3. 8 \in Int
    OBVIOUS
  <2> QED BY <2>1, <2>2, <2>3, ShiftCount, Zenon
<1> HIDE DEF i, low, high, up
<1>5. /\ IsFiniteSet(v) /\ IsFiniteSet(low) /\ IsFiniteSet(up) /\ IsFiniteSet(high)
      /\ IsFiniteSet(Table[i])
  BY <1>1, <1>3, BitsAreFinite, BytesAreWords, TableIs
<1>6. Parity(c) = (Parity(low) + Parity(up)) % 2 /\ Parity(low) \in 0..1 /\ Parity(up) \in 0..1
  BY <1>3, <1>5, XorParity
<1>7. Parity(up) = Parity(high)
  BY <1>4 DEF Parity
<1>8. Parity(i) = (Parity(v) + Parity(low)) % 2 /\ Parity(v) \in 0..1
  BY <1>2, <1>5, XorParity
<1>9. Parity(NextCrc(c, v)) = (Parity(Table[i]) + Parity(high)) % 2
  BY <1>5, XorParity, NextCrcIs DEF i, high
<1>10. Parity(Table[i]) = Parity(i)
  BY <1>1, TableParity
<1> QED BY <1>6, <1>7, <1>8, <1>9, <1>10

\* A flipped bit changes an odd number of the CRC's bits.
LEMMA EffectIsOdd ==
    ASSUME NEW bit \in 0..7
    PROVE  \A n \in 0..MaxLen : Parity(Effects(bit)[n]) = 1
<1> DEFINE e == Effects(bit)
           S == {w \in Word : Parity(w) = 1}
<1>1. e[0] \in S
  <2>1. {bit} \in Byte /\ Parity({bit}) = 1
    <3>1. Cardinality({bit}) = 1
      BY FS_Singleton
    <3> QED BY <3>1 DEF Parity, Byte
  <2> QED BY <2>1, EffectsIs, TableIs, TableParity
<1>2. MaxLen \in Nat
  BY MaxLenAssumption
<1>3. ASSUME NEW n \in 1..MaxLen, e[n - 1] \in S PROVE e[n] \in S
  <2>1. Parity({}) = 0 /\ {} \in Byte
    BY FS_EmptySet, WordOfXor DEF Parity
  <2>2. e[n] = NextCrc(e[n - 1], {}) /\ e[n - 1] \in Word
    BY <1>3, EffectsIs
  <2>3. NextCrc(e[n - 1], {}) \in Word
    BY <2>1, <2>2, NextCrcIs
  <2>4. Parity(NextCrc(e[n - 1], {})) = (1 + 0) % 2
    BY <1>3, <2>1, <2>2, NextCrcParity
  <2> QED BY <2>2, <2>3, <2>4
<1> HIDE DEF e, S
<1>4. \A n \in 0..MaxLen : e[n] \in S
  BY <1>1, <1>2, <1>3, Throughout
<1> QED BY <1>4 DEF e, S

-----------------------------------------------------------------------------
(* Flipped bits *)

\* Frames have a longest.
LEMMA LongestFrame == MaxLen \in Nat
BY MaxLenAssumption

\* A flip changes its bit, and nothing when it is done twice.
LEMMA FlipIs ==
    ASSUME NEW f \in Seq(Byte), NEW p \in Positions(f)
    PROVE  /\ p[1] \in 1..Len(f) /\ p[2] \in 0..7 /\ {p[2]} \in Byte
           /\ Flip(f, p) \in Seq(Byte) /\ Len(Flip(f, p)) = Len(f)
           /\ Positions(Flip(f, p)) = Positions(f)
           /\ \A i \in 1..Len(f) : Flip(f, p)[i] = IF i = p[1] THEN SymDiff(f[i], {p[2]}) ELSE f[i]
           /\ Flip(Flip(f, p), p) = f
<1>1. p[1] \in 1..Len(f) /\ p[2] \in 0..7 /\ {p[2]} \in Byte
  BY DEF Positions, Byte
<1> DEFINE g == Flip(f, p)
<1>2. SymDiff(f[p[1]], {p[2]}) \in Byte
  BY <1>1, WordOfXor
<1>3. g \in Seq(Byte) /\ Len(g) = Len(f)
  BY <1>1, <1>2 DEF Flip
<1>4. \A i \in 1..Len(f) : g[i] = IF i = p[1] THEN SymDiff(f[i], {p[2]}) ELSE f[i]
  BY <1>1 DEF Flip
<1>5. Positions(g) = Positions(f)
  BY <1>3 DEF Positions
<1> HIDE DEF g
<1>6. Flip(g, p) = f
  <2>1. p \in Positions(g) /\ SymDiff(g[p[1]], {p[2]}) \in Byte
    BY <1>1, <1>3, <1>5, WordOfXor
  <2>2. Flip(g, p) \in Seq(Byte) /\ Len(Flip(g, p)) = Len(f)
    BY <1>1, <1>3, <2>1 DEF Flip
  <2>3. \A i \in 1..Len(f) : Flip(g, p)[i] = IF i = p[1] THEN SymDiff(g[i], {p[2]}) ELSE g[i]
    BY <1>1, <1>3 DEF Flip
  <2>4. SymDiff(SymDiff(f[p[1]], {p[2]}), {p[2]}) = f[p[1]]
    BY DEF SymDiff
  <2>5. \A i \in 1..Len(f) : Flip(g, p)[i] = f[i]
    BY <1>4, <2>3, <2>4
  <2> QED BY <2>2, <2>5
<1> QED BY <1>1, <1>3, <1>4, <1>5, <1>6 DEF g

\* what flipping a frame's bit changes in its CRC
EffectAt(f, p) == FlipEffect(p[2], Len(f) - p[1])

\* What a bit changes in the CRC is a word, and an odd one.
LEMMA EffectAtIs ==
    ASSUME NEW f \in Seq(Byte), Len(f) <= MaxLen, NEW p \in Positions(f)
    PROVE  EffectAt(f, p) \in Word /\ Parity(EffectAt(f, p)) = 1
<1>1. p[2] \in 0..7 /\ Len(f) - p[1] \in 0..MaxLen
  <2>1. p[2] \in 0..7 /\ p[1] \in 1..Len(f)
    BY FlipIs
  <2> QED BY <2>1, LongestFrame
<1> QED BY <1>1, EffectsIs, EffectIsOdd DEF EffectAt, FlipEffect

\* The register up to some byte knows only the bytes up to it.
LEMMA RegisterOfPrefix ==
    ASSUME NEW f \in Seq(Byte), NEW g \in Seq(Byte), NEW N \in Nat, N <= Len(f), N <= Len(g),
           \A i \in 1..N : f[i] = g[i]
    PROVE  \A n \in 0..N : Register(f)[n] = Register(g)[n]
<1> DEFINE T == {n \in Nat : n <= N => Register(f)[n] = Register(g)[n]}
<1>1. T \in SUBSET Nat /\ 0 \in T
  BY RegisterIs
<1>2. ASSUME NEW n \in T, n < N PROVE n + 1 \in T
  <2>1. n + 1 \in 1..Len(f) /\ n + 1 \in 1..Len(g) /\ n + 1 \in 1..N /\ (n + 1) - 1 = n
    BY <1>2
  <2>2. /\ Register(f)[n + 1] = NextCrc(Register(f)[(n + 1) - 1], f[n + 1])
        /\ Register(g)[n + 1] = NextCrc(Register(g)[(n + 1) - 1], g[n + 1])
    BY <2>1, RegisterIs
  <2>3. Register(f)[n] = Register(g)[n] /\ f[n + 1] = g[n + 1]
    BY <1>2, <2>1
  <2>4. Register(f)[n + 1] = Register(g)[n + 1]
    BY <2>1, <2>2, <2>3
  <2> QED BY <2>1, <2>4
<1> HIDE DEF T
<1>3. \A n \in 0..N : n \in T
  BY <1>1, <1>2, UpTo
<1> QED BY <1>3 DEF T

\* A flipped bit changes the CRC by its effect, whatever the rest of the frame is.
LEMMA FlippedCrc ==
    ASSUME NEW f \in Seq(Byte), Len(f) <= MaxLen, NEW p \in Positions(f)
    PROVE  Crc16(Flip(f, p)) = SymDiff(Crc16(f), EffectAt(f, p))
<1> DEFINE g == Flip(f, p)
           e == Effects(p[2])
           N == Len(f)
           Changed(n) == Register(g)[n] = IF n < p[1] THEN Register(f)[n]
                                          ELSE SymDiff(Register(f)[n], e[n - p[1]])
           T == {n \in Nat : n <= N => Changed(n)}
<1>1. /\ p[1] \in 1..N /\ p[2] \in 0..7 /\ {p[2]} \in Byte /\ g \in Seq(Byte) /\ Len(g) = N
      /\ \A i \in 1..N : g[i] = IF i = p[1] THEN SymDiff(f[i], {p[2]}) ELSE f[i]
  BY FlipIs
<1>0. N \in Nat /\ MaxLen \in Nat /\ N <= MaxLen
  BY LongestFrame
<1> HIDE DEF g, N
<1>2. /\ Register(f) \in [0..N -> Word] /\ Register(f)[0] = {}
      /\ \A n \in 1..N : Register(f)[n] = NextCrc(Register(f)[n - 1], f[n])
  BY RegisterIs DEF N
<1>3. /\ Register(g)[0] = {}
      /\ \A n \in 1..N : Register(g)[n] = NextCrc(Register(g)[n - 1], g[n])
  BY <1>0, <1>1, RegisterIs
<1>4. /\ e \in [0..MaxLen -> Word] /\ e[0] = Table[{p[2]}]
      /\ \A n \in 1..MaxLen : e[n] = NextCrc(e[n - 1], {})
  BY <1>0, <1>1, EffectsIs
<1>5. \A n \in 1..N : f[n] \in Byte
  BY DEF N
<1> HIDE DEF e
<1>6. \A w : SymDiff(w, {}) = w
  BY DEF SymDiff
<1>7. NextCrc({}, {p[2]}) = e[0] /\ {} \in Word /\ {} \in Byte
  <2>1. LowByte(SymDiff({p[2]}, {})) = {p[2]} /\ HighByte({}) = {}
    BY <1>0, <1>1, <1>6 DEF LowByte, HighByte, ShiftRight, Byte
  <2>2. {} \in Word /\ {} \in Byte
    BY WordOfXor, BytesAreWords
  <2>3. NextCrc({}, {p[2]}) = SymDiff(Table[LowByte(SymDiff({p[2]}, {}))], HighByte({}))
    BY <1>0, <1>1, <2>2, NextCrcIs
  <2>4. NextCrc({}, {p[2]}) = SymDiff(Table[{p[2]}], {})
    BY <2>1, <2>3
  <2> QED BY <1>4, <1>6, <2>2, <2>4
<1>8. T \in SUBSET Nat /\ 0 \in T
  <2>1. Changed(0)
    BY <1>0, <1>1, <1>2, <1>3
  <2> HIDE DEF Changed
  <2> QED BY <2>1
<1>9. ASSUME NEW n \in Nat, n < N, Changed(n) PROVE Changed(n + 1)
  <2>1. n + 1 \in 1..N /\ (n + 1) - 1 = n /\ n \in 0..N
    BY <1>0, <1>1, <1>9
  <2> DEFINE c == Register(f)[n]
             v == f[n + 1]
  <2>2. Register(f)[n + 1] = NextCrc(c, v) /\ Register(g)[n + 1] = NextCrc(Register(g)[n], g[n + 1])
    <3>1. /\ Register(f)[n + 1] = NextCrc(Register(f)[(n + 1) - 1], f[n + 1])
          /\ Register(g)[n + 1] = NextCrc(Register(g)[(n + 1) - 1], g[n + 1])
      BY <1>2, <1>3, <2>1
    <3> QED BY <2>1, <3>1
  <2>3. c \in Word /\ v \in Byte
    BY <1>2, <1>5, <2>1
  <2> HIDE DEF c, v
  <2>4. CASE n + 1 < p[1]
    <3>1. n < p[1] /\ n + 1 # p[1]
      BY <2>4, <1>0, <1>1
    <3>2. Register(g)[n] = c /\ g[n + 1] = v
      BY <1>0, <1>1, <1>9, <2>1, <3>1 DEF c, v
    <3> QED BY <2>2, <2>4, <3>2
  <2>5. CASE n + 1 = p[1]
    <3>1. n < p[1] /\ ~(n + 1 < p[1]) /\ (n + 1) - p[1] = 0
      BY <2>5, <1>0, <1>1
    <3>2. Register(g)[n] = SymDiff(c, {}) /\ g[n + 1] = SymDiff(v, {p[2]})
      BY <1>0, <1>1, <1>6, <1>9, <2>1, <2>5, <3>1 DEF c, v
    <3>3. NextCrc(SymDiff(c, {}), SymDiff(v, {p[2]})) = SymDiff(NextCrc(c, v), e[0])
      BY <1>0, <1>1, <1>7, <2>3, NextCrcXor
    <3>4. Register(g)[n + 1] = SymDiff(Register(f)[n + 1], e[0])
      BY <2>2, <3>2, <3>3
    <3> QED BY <3>1, <3>4, Zenon
  <2>6. CASE n + 1 > p[1]
    <3>1. /\ ~(n < p[1]) /\ ~(n + 1 < p[1]) /\ n + 1 # p[1]
          /\ (n + 1) - p[1] \in 1..MaxLen /\ ((n + 1) - p[1]) - 1 = n - p[1] /\ n - p[1] \in 0..MaxLen
      BY <2>6, <1>0, <1>1, <1>9 DEF N
    <3>2. Register(g)[n] = SymDiff(c, e[n - p[1]]) /\ g[n + 1] = SymDiff(v, {})
      BY <1>0, <1>1, <1>6, <1>9, <2>1, <3>1 DEF c, v
    <3>3. e[n - p[1]] \in Word /\ e[(n + 1) - p[1]] = NextCrc(e[n - p[1]], {})
      <4>1. e[(n + 1) - p[1]] = NextCrc(e[((n + 1) - p[1]) - 1], {})
        BY <1>4, <3>1
      <4> QED BY <1>4, <3>1, <4>1
    <3>4. NextCrc(SymDiff(c, e[n - p[1]]), SymDiff(v, {})) = SymDiff(NextCrc(c, v), e[(n + 1) - p[1]])
      BY <1>7, <2>3, <3>3, NextCrcXor
    <3>5. Register(g)[n + 1] = SymDiff(Register(f)[n + 1], e[(n + 1) - p[1]])
      BY <2>2, <3>2, <3>4
    <3> QED BY <3>1, <3>5, Zenon
  <2>7. n + 1 < p[1] \/ n + 1 = p[1] \/ n + 1 > p[1]
    BY <1>0, <1>1
  <2> QED BY <2>4, <2>5, <2>6, <2>7
<1>10. \A n \in T : n < N => n + 1 \in T
  <2> HIDE DEF Changed
  <2> QED BY <1>0, <1>1, <1>9
<1> HIDE DEF T
<1>11. N \in T
  <2>1. \A n \in 0..N : n \in T
    BY <1>0, <1>1, <1>8, <1>0, <1>10, UpTo
  <2> QED BY <1>0, <1>1, <2>1
<1>12. Changed(N)
  BY <1>0, <1>1, <1>0, <1>11 DEF T
<1> QED BY <1>0, <1>1, <1>0, <1>12 DEF Crc16, g, N, EffectAt, FlipEffect, e

\* No two bits of a frame have the same effect.
LEMMA EffectsDiffer ==
    ASSUME NEW f \in Seq(Byte), Len(f) <= MaxLen, NEW p \in Positions(f), NEW q \in Positions(f),
           EffectAt(f, p) = EffectAt(f, q)
    PROVE  p = q
<1>1. /\ p[1] \in 1..Len(f) /\ q[1] \in 1..Len(f) /\ p[2] \in 0..7 /\ q[2] \in 0..7
      /\ p = <<p[1], p[2]>> /\ q = <<q[1], q[2]>> /\ MaxLen \in Nat
  BY MaxLenAssumption DEF Positions
<1>2. Len(f) - p[1] \in 0..MaxLen-1 /\ Len(f) - q[1] \in 0..MaxLen-1
  BY <1>1
<1> DEFINE d == <<Len(f) - p[1], p[2], EffectAt(f, p)>>
           e == <<Len(f) - q[1], q[2], EffectAt(f, q)>>
<1>3. d \in FlipEffects /\ e \in FlipEffects
  BY <1>1, <1>2, SMTT(60) DEF FlipEffects, EffectAt
<1>4. d = e
  BY <1>3, EffectsAssumption
<1>5. Len(f) - p[1] = Len(f) - q[1] /\ p[2] = q[2]
  BY <1>4
<1> QED BY <1>1, <1>5

\* The bits of which the flip alone makes a frame pass.
LEMMA RepairingBitsAre ==
    ASSUME NEW f \in Seq(Byte), Len(f) <= MaxLen
    PROVE  RepairingBits(f) = {p \in Positions(f) : EffectAt(f, p) = SymDiff(Crc16(f), Residue)}
<1> DEFINE change == SymDiff(Crc16(f), Residue)
<1>1. ASSUME NEW p \in Positions(f)
      PROVE  <<Len(f) - p[1], p[2], change>> \in FlipEffects <=> EffectAt(f, p) = change
  <2>1. p[1] \in 1..Len(f) /\ p[2] \in 0..7 /\ MaxLen \in Nat
    BY FlipIs, LongestFrame
  <2>2. Len(f) - p[1] \in 0..MaxLen-1
    BY <2>1
  <2> HIDE DEF change
  <2>3. ASSUME <<Len(f) - p[1], p[2], change>> \in FlipEffects PROVE EffectAt(f, p) = change
    <3>1. PICK zeros \in 0..MaxLen-1, bit \in 0..7 :
             <<Len(f) - p[1], p[2], change>> = <<zeros, bit, FlipEffect(bit, zeros)>>
      BY <2>3 DEF FlipEffects
    <3> QED BY <3>1 DEF EffectAt
  <2>4. ASSUME EffectAt(f, p) = change PROVE <<Len(f) - p[1], p[2], change>> \in FlipEffects
    BY <2>1, <2>2, <2>4, SMTT(60) DEF EffectAt, FlipEffects
  <2> QED BY <2>3, <2>4
<1> QED BY <1>1 DEF RepairingBits

\* A CRC is a word.
LEMMA CrcIsWord == \A f \in Seq(Byte) : Crc16(f) \in Word
BY RegisterIs DEF Crc16

\* A flipped bit is the only one whose flip makes the frame pass.
LEMMA OneFlip ==
    ASSUME NEW f \in Seq(Byte), Len(f) <= MaxLen, IsValid(f), NEW p \in Positions(f)
    PROVE  ~IsValid(Flip(f, p)) /\ RepairingBits(Flip(f, p)) = {p}
<1> DEFINE g == Flip(f, p)
           e == EffectAt(f, p)
<1>1. /\ g \in Seq(Byte) /\ Len(g) = Len(f) /\ Positions(g) = Positions(f)
      /\ \A q \in Positions(f) : EffectAt(g, q) = EffectAt(f, q)
  BY FlipIs DEF EffectAt
<1>2. Crc16(g) = SymDiff(Residue, e)
  BY FlippedCrc DEF IsValid
<1>3. SymDiff(SymDiff(Residue, e), Residue) = e
  BY DEF SymDiff
<1>4. e # {}
  <2>1. Parity({}) = 0
    BY FS_EmptySet DEF Parity
  <2>2. Parity(e) = 1
    BY EffectAtIs
  <2>3. ASSUME e = {} PROVE Parity({}) = 1
    BY <2>2, <2>3
  <2> QED BY <2>1, <2>3
<1>5. Crc16(g) # Residue
  <2> HIDE DEF e
  <2> QED BY <1>2, <1>4 DEF SymDiff
<1> HIDE DEF g, e
<1>6. RepairingBits(g) = {q \in Positions(f) : EffectAt(f, q) = e}
  BY <1>1, <1>2, <1>3, RepairingBitsAre
<1>7. RepairingBits(g) = {p}
  BY <1>6, EffectsDiffer DEF e
<1> QED BY <1>5, <1>7 DEF IsValid, g

\* Two flipped bits are never taken for one.
LEMMA TwoFlips ==
    ASSUME NEW f \in Seq(Byte), Len(f) <= MaxLen, IsValid(f),
           NEW p \in Positions(f), NEW q \in Positions(f), p # q
    PROVE  ~IsValid(Flip(Flip(f, p), q)) /\ RepairingBits(Flip(Flip(f, p), q)) = {}
<1> DEFINE g == Flip(f, p)
           h == Flip(g, q)
           d == EffectAt(f, p)
           e == EffectAt(f, q)
<1>1. /\ g \in Seq(Byte) /\ Len(g) = Len(f) /\ Positions(g) = Positions(f)
      /\ \A r \in Positions(f) : EffectAt(g, r) = EffectAt(f, r)
  BY FlipIs DEF EffectAt
<1> HIDE DEF g
<1>2. /\ h \in Seq(Byte) /\ Len(h) = Len(f) /\ Positions(h) = Positions(f)
      /\ \A r \in Positions(f) : EffectAt(h, r) = EffectAt(f, r)
  BY <1>1, FlipIs DEF EffectAt
<1>3. Crc16(h) = SymDiff(SymDiff(Residue, d), e)
  <2>1. Crc16(g) = SymDiff(Residue, d)
    BY FlippedCrc DEF IsValid, g
  <2>2. Crc16(h) = SymDiff(Crc16(g), EffectAt(g, q))
    BY <1>1, FlippedCrc
  <2> QED BY <1>1, <2>1, <2>2
<1>4. d # e
  BY EffectsDiffer
<1> HIDE DEF h
<1>5. Crc16(h) # Residue
  <2> HIDE DEF d, e
  <2> QED BY <1>3, <1>4 DEF SymDiff
<1>6. /\ IsFiniteSet(d) /\ IsFiniteSet(e) /\ Parity(d) = 1 /\ Parity(e) = 1
  BY EffectAtIs, BitsAreFinite
<1> HIDE DEF d, e
<1>7. SymDiff(Crc16(h), Residue) = SymDiff(d, e)
  BY <1>3 DEF SymDiff
<1>8. Parity(SymDiff(d, e)) = 0
  BY <1>6, XorParity
<1>9. \A r \in Positions(f) : EffectAt(f, r) # SymDiff(d, e)
  BY <1>8, EffectAtIs
<1>10. RepairingBits(h) = {}
  BY <1>2, <1>7, <1>9, RepairingBitsAre
<1> QED BY <1>5, <1>10 DEF IsValid, g, h

\* Three flipped bits are always seen.
LEMMA ThreeFlips ==
    ASSUME NEW f \in Seq(Byte), Len(f) <= MaxLen, IsValid(f),
           NEW p \in Positions(f), NEW q \in Positions(f), NEW r \in Positions(f)
    PROVE  ~IsValid(Flip(Flip(Flip(f, p), q), r))
<1> DEFINE g == Flip(f, p)
           h == Flip(g, q)
           i == Flip(h, r)
           c == EffectAt(f, p)
           d == EffectAt(f, q)
           e == EffectAt(f, r)
<1>1. /\ g \in Seq(Byte) /\ Len(g) = Len(f) /\ Positions(g) = Positions(f)
      /\ \A s \in Positions(f) : EffectAt(g, s) = EffectAt(f, s)
  BY FlipIs DEF EffectAt
<1>2. Crc16(g) = SymDiff(Residue, c)
  BY FlippedCrc DEF IsValid
<1> HIDE DEF g
<1>3. /\ h \in Seq(Byte) /\ Len(h) = Len(f) /\ Positions(h) = Positions(f)
      /\ \A s \in Positions(f) : EffectAt(h, s) = EffectAt(f, s)
  BY <1>1, FlipIs DEF EffectAt
<1>4. Crc16(h) = SymDiff(Crc16(g), d)
  BY <1>1, FlippedCrc
<1> HIDE DEF h
<1>5. Crc16(i) = SymDiff(Crc16(h), e)
  BY <1>3, FlippedCrc
<1>6. /\ IsFiniteSet(c) /\ IsFiniteSet(d) /\ IsFiniteSet(e)
      /\ Parity(c) = 1 /\ Parity(d) = 1 /\ Parity(e) = 1
  BY EffectAtIs, BitsAreFinite
<1> HIDE DEF c, d, e, i
<1>7. SymDiff(Crc16(i), Residue) = SymDiff(SymDiff(c, d), e)
  BY <1>2, <1>4, <1>5 DEF SymDiff
<1>8. Parity(SymDiff(c, d)) = 0 /\ IsFiniteSet(SymDiff(c, d))
  BY <1>6, XorParity
<1>9. Parity(SymDiff(SymDiff(c, d), e)) = 1
  BY <1>6, <1>8, XorParity
<1>10. Parity({}) = 0 /\ SymDiff(Residue, Residue) = {}
  BY FS_EmptySet DEF Parity, SymDiff
<1>11. Crc16(i) # Residue
  <2> SUFFICES ASSUME Crc16(i) = Residue PROVE FALSE
    OBVIOUS
  <2>1. Parity({}) = 1
    BY <1>7, <1>9, <1>10
  <2> QED BY <1>10, <2>1
<1> QED BY <1>11 DEF IsValid, i, h, g

\* Without the CRC's two bytes the register is what it was, with them the residue.
LEMMA AppendedIsValid ==
    ASSUME NEW data \in Seq(Byte)
    PROVE  /\ AppendCrc(data) \in Seq(Byte) /\ Len(AppendCrc(data)) = Len(data) + 2
           /\ \A i \in 1..Len(data) : AppendCrc(data)[i] = data[i]
           /\ IsValid(AppendCrc(data))
<1> DEFINE N == Len(data)
           c == Crc16(data)
           check == (0..15) \ c
           f == AppendCrc(data)
           low == LowByte(check)
           high == HighByte(check)
<1>1. c \in Word /\ check \in Word
  BY CrcIsWord DEF Word
<1> HIDE DEF c
<1>2. low \in Byte /\ high \in Byte
  BY <1>1, WordOfXor
<1>3. f = data \o <<low, high>>
  BY DEF AppendCrc, c
<1> HIDE DEF low, high, f
<1>4. f \in Seq(Byte) /\ Len(f) = N + 2 /\ f[N + 1] = low /\ f[N + 2] = high
  BY <1>2, <1>3
<1>5. \A i \in 1..N : f[i] = data[i]
  BY <1>2, <1>3
<1>6. Register(f)[N] = c
  BY <1>4, <1>5, RegisterOfPrefix DEF c, Crc16
<1>7. \A w : SymDiff(w, {}) = w
  BY DEF SymDiff
<1> DEFINE d == SymDiff({6, 14}, HighByte(c))
<1>8. HighByte(c) \in Byte /\ d \in Word
  <2>1. {6, 14} \in Word
    BY DEF Word
  <2> QED BY <1>1, <2>1, WordOfXor, BytesAreWords
<1>9. Register(f)[N + 1] = d
  <2>1. Register(f)[N + 1] = NextCrc(c, low)
    <3>1. N + 1 \in 1..Len(f) /\ (N + 1) - 1 = N
      BY <1>4
    <3>2. Register(f)[N + 1] = NextCrc(Register(f)[(N + 1) - 1], f[N + 1])
      BY <1>4, <3>1, RegisterIs
    <3> QED BY <1>4, <1>6, <3>1, <3>2
  <2>2. LowByte(SymDiff(low, c)) = 0..7
    BY <1>1 DEF low, LowByte, SymDiff
  <2>3. Table[0..7] = {6, 14}
    <3>1. 0..7 \in Byte /\ Parity(0..7) = 0
      <4>1. 0 \in Int /\ 7 \in Int
        OBVIOUS
      <4>2. Cardinality(0..7) = IF 0 > 7 THEN 0 ELSE 7 - 0 + 1
        BY <4>1, FS_Interval, Zenon
      <4> QED BY <4>2 DEF Byte, Parity
    <3>2. \A b \in 0..15 : b \in Table[0..7] <=> ~(b - 7 \in 0..7 <=> b - 6 \in 0..7)
      <4> DEFINE all == 0..7
      <4>1. all \in Byte /\ Parity(all) = 0
        BY <3>1
      <4> HIDE DEF all
      <4>2. \A b \in 0..15 : b \in Table[all] <=>
                ((b - 7 \in all) <=> ((b - 6 \in all) <=> (Parity(all) = 1 /\ b \in OddParityTerm)))
        BY <4>1, TableIs
      <4>3. \A b \in 0..15 : b \in Table[all] <=> ~(b - 7 \in all <=> b - 6 \in all)
        <5> TAKE b \in 0..15
        <5>1. ~(Parity(all) = 1 /\ b \in OddParityTerm)
          BY <4>1
        <5> QED BY <4>2, <5>1
      <4> QED BY <4>3 DEF all
    <3>3. \A b \in 0..15 : b \in Table[0..7] <=> b = 6 \/ b = 14
      BY <3>2
    <3>4. Table[0..7] \in Word
      BY <3>1, TableIs
    <3> QED BY <3>3, <3>4 DEF Word
  <2> QED BY <1>1, <1>2, <2>1, <2>2, <2>3, NextCrcIs
<1>10. Register(f)[N + 2] = Residue
  <2>1. Register(f)[N + 2] = NextCrc(d, high)
    <3>1. N + 2 \in 1..Len(f) /\ (N + 2) - 1 = N + 1
      BY <1>4
    <3>2. Register(f)[N + 2] = NextCrc(Register(f)[(N + 2) - 1], f[N + 2])
      BY <1>4, <3>1, RegisterIs
    <3> QED BY <1>4, <1>9, <3>1, <3>2
  <2> DEFINE i == (0..7) \ {6}
  <2>2. high = (0..7) \ HighByte(c)
    <3>1. check \in SUBSET Int /\ c \in SUBSET Int
      BY <1>1 DEF Word
    <3>2. \A b : b \in high <=> b \in Int /\ b + 8 \in check /\ b >= 0
      BY <3>1, ShiftRightIs DEF high, HighByte
    <3>3. \A b : b \in HighByte(c) <=> b \in Int /\ b + 8 \in c /\ b >= 0
      BY <3>1, ShiftRightIs DEF HighByte
    <3>4. \A b : b \in high <=> b \in 0..7 /\ b \notin HighByte(c)
      BY <3>2, <3>3, SMTT(60)
    <3> QED BY <3>4
  <2>3. LowByte(SymDiff(high, d)) = i
    BY <1>8, <2>2 DEF LowByte, SymDiff, Byte
  <2>4. HighByte(d) = {6}
    <3>1. d \in SUBSET Int
      BY <1>8 DEF Word
    <3>2. \A b \in Int : b + 8 \in d /\ b >= 0 <=> b = 6
      BY <1>8 DEF SymDiff, Byte
    <3>3. \A b : b \in HighByte(d) <=> b \in Int /\ b + 8 \in d /\ b >= 0
      <4> HIDE DEF d
      <4> QED BY <3>1, ShiftRightIs DEF HighByte
    <3> QED BY <3>2, <3>3
  <2>5. i \in Byte /\ Parity(i) = 1
    <3>1. 0 \in Int /\ 7 \in Int
      OBVIOUS
    <3>2. IsFiniteSet(0..7) /\ Cardinality(0..7) = IF 0 > 7 THEN 0 ELSE 7 - 0 + 1
      BY <3>1, FS_Interval, Zenon
    <3>3. Cardinality((0..7) \ {6}) = IF 6 \in 0..7 THEN Cardinality(0..7) - 1 ELSE Cardinality(0..7)
      BY <3>2, FS_RemoveElement
    <3>4. Cardinality(i) = 7
      BY <3>2, <3>3
    <3> QED BY <3>4 DEF Byte, Parity
  <2>6. Table[i] = {0, 6, 12, 13, 15}
    <3>1. \A b \in 0..15 : b \in Table[i] <=>
             ((b - 7 \in i) <=> ((b - 6 \in i) <=> (b \in OddParityTerm)))
      <4> HIDE DEF i
      <4>1. \A b \in 0..15 : b \in Table[i] <=>
                ((b - 7 \in i) <=> ((b - 6 \in i) <=> (Parity(i) = 1 /\ b \in OddParityTerm)))
        BY <2>5, TableIs
      <4> TAKE b \in 0..15
      <4>2. (Parity(i) = 1 /\ b \in OddParityTerm) <=> b \in OddParityTerm
        BY <2>5
      <4> QED BY <4>1, <4>2
    <3>2. \A b \in 0..15 : b \in Table[i] <=> b \in {0, 6, 12, 13, 15}
      BY <3>1, SMTT(60) DEF OddParityTerm
    <3>3. Table[i] \in Word
      BY <2>5, TableIs
    <3> QED BY <3>2, <3>3 DEF Word
  <2>7. NextCrc(d, high) = SymDiff(Table[i], {6})
    BY <1>2, <1>8, <2>3, <2>4, NextCrcIs
  <2>8. SymDiff({0, 6, 12, 13, 15}, {6}) = {0, 12, 13, 15}
    BY DEF SymDiff
  <2> QED BY <2>1, <2>6, <2>7, <2>8 DEF Residue
<1> QED BY <1>4, <1>5, <1>10 DEF IsValid, Crc16, f

-----------------------------------------------------------------------------
(* The table and the generator *)

ShiftedEq(f, x) ==
    f = [n \in 0..8 |-> IF n = 0 THEN x ELSE Shifted[f[n - 1]]]

\* The register, shifted n times.
LEMMA ShiftedIs ==
    ASSUME NEW x \in Word
    PROVE  /\ Shifted[x] \in Word
           /\ \A b \in 0..15 : b \in Shifted[x] <=> ~(b + 1 \in x <=> 0 \in x /\ b \in Generator)
<1>1. x \in SUBSET Int
  BY DEF Word
<1>2. Shifted[x] = SymDiff(ShiftRight(x, 1), IF 0 \in x THEN Generator ELSE {})
  BY DEF Shifted
<1> DEFINE right == ShiftRight(x, 1)
           added == IF 0 \in x THEN Generator ELSE {}
<1>3. \A b : b \in right <=> b \in Int /\ b + 1 \in x /\ b >= 0
  BY <1>1, ShiftRightIs
<1>4. \A b : b \in added <=> 0 \in x /\ b \in Generator
  OBVIOUS
<1> HIDE DEF right, added
<1>5. Shifted[x] = SymDiff(right, added)
  BY <1>2 DEF right, added
<1>6. right \in Word /\ added \in Word
  BY <1>3, <1>4 DEF Word, Generator
<1>7. \A b \in 0..15 : b \in Shifted[x] <=> ~(b + 1 \in x <=> 0 \in x /\ b \in Generator)
  BY <1>3, <1>4, <1>5 DEF SymDiff
<1> QED BY <1>5, <1>6, <1>7, WordOfXor

\* n bits into a byte, the register is as if the table's word of the bits shifted
\* out had been added to it, that far from where it belongs.
LEMMA ShiftedBy ==
    ASSUME NEW x \in Word, NEW s, s[0] = x, \A n \in 1..8 : s[n] = Shifted[s[n - 1]]
    PROVE  /\ s[8] \in Word
           /\ \A b \in 0..15 : b \in s[8] <=>
                ~(b + 8 \in x <=> (b - 7 \in LowByte(x) <=> (b - 6 \in LowByte(x)
                     <=> (Parity(LowByte(x)) = 1 /\ b \in OddParityTerm))))
<1> DEFINE low(n) == x \cap (0..(n - 1))
           Bit(b, n) == ~((b + n) \in x <=> ((b + (n - 15)) \in low(n) <=> ((b + (n - 14)) \in low(n)
                             <=> (Parity(low(n)) = 1 /\ b \in OddParityTerm))))
           P(n) == s[n] \in Word /\ \A b \in 0..16 : b \in s[n] <=> Bit(b, n)
           T == {n \in Nat : n <= 8 => P(n)}
<1>1. P(0)
  <2>1. low(0) = {} /\ Parity({}) = 0
    BY FS_EmptySet DEF Parity
  <2>2. \A b \in 0..16 : Bit(b, 0) <=> b \in x
    <3> HIDE DEF low
    <3> QED BY <2>1
  <2> HIDE DEF Bit
  <2> QED BY <2>2
<1>2. ASSUME NEW n \in Nat, n < 8, P(n) PROVE P(n + 1)
  <2>1. low(n) \in Word /\ IsFiniteSet(low(n)) /\ Parity(low(n)) \in 0..1
    <3>1. low(n) \in Word
      BY DEF Word
    <3> HIDE DEF low
    <3> QED BY <3>1, BitsAreFinite, ParityOf
  <2>2. \A b \in Int : b \in low(n + 1) <=> b \in low(n) \/ (b = n /\ n \in x)
    OBVIOUS
  <2>3. Parity(low(n + 1)) = 1 <=> ~(Parity(low(n)) = 1 <=> n \in x)
    <3>1. CASE n \in x
      <4>1. low(n + 1) = low(n) \cup {n} /\ n \notin low(n)
        BY <3>1
      <4> HIDE DEF low
      <4>2. Cardinality(low(n + 1)) = Cardinality(low(n)) + 1 /\ Cardinality(low(n)) \in Nat
        BY <2>1, <4>1, FS_AddElement, FS_CardinalityType
      <4> QED BY <3>1, <4>2 DEF Parity
    <3>2. CASE n \notin x
      <4>1. low(n + 1) = low(n)
        BY <3>2
      <4> HIDE DEF low
      <4> QED BY <3>2, <4>1
    <3> QED BY <3>1, <3>2
  <2> DEFINE odd == Parity(low(n)) = 1
             top == n \in x
  <2>4. 0 \in s[n] <=> ~(top <=> odd)
    <3>1. 0 + (n - 15) \notin low(n) /\ 0 + (n - 14) \notin low(n)
      BY <1>2
    <3>2. 0 \in s[n] <=> Bit(0, n)
      BY <1>2
    <3> HIDE DEF low
    <3>3. 0 \in OddParityTerm /\ 0 + n = n
      BY DEF OddParityTerm
    <3> QED BY <3>1, <3>2, <3>3
  <2>5. s[n + 1] = Shifted[s[n]] /\ s[n] \in Word
    <3>1. n + 1 \in 1..8 /\ (n + 1) - 1 = n
      BY <1>2
    <3>2. s[n + 1] = Shifted[s[(n + 1) - 1]]
      BY <3>1
    <3> QED BY <1>2, <3>1, <3>2
  <2>6. s[n + 1] \in Word /\ \A b \in 0..15 : b \in s[n + 1] <=> ~(b + 1 \in s[n] <=> 0 \in s[n] /\ b \in Generator)
    BY <2>5, ShiftedIs
  <2>7. ASSUME NEW b \in 0..15 PROVE b \in s[n + 1] <=> Bit(b, n + 1)
    <3> DEFINE A == b + (n + 1) \in x
               B == b + (n - 14) \in low(n)
               C == b + (n - 13) \in low(n)
    <3>1. b + 1 \in s[n] <=> ~(A <=> (B <=> (C <=> (odd /\ b \in {13, 14}))))
      <4>1. b + 1 \in s[n] <=> Bit(b + 1, n)
        BY <1>2
      <4>2. b + 1 \in OddParityTerm <=> b \in {13, 14}
        BY DEF OddParityTerm
      <4>3. /\ (b + 1) + n = b + (n + 1)
            /\ (b + 1) + (n - 15) = b + (n - 14)
            /\ (b + 1) + (n - 14) = b + (n - 13)
        OBVIOUS
      <4> HIDE DEF low
      <4> QED BY <4>1, <4>2, <4>3
    <3>2. b \in s[n + 1] <=> ~(b + 1 \in s[n] <=> ~(top <=> odd) /\ b \in {0, 13, 15})
      BY <2>4, <2>6 DEF Generator
    <3>3. b + ((n + 1) - 15) \in low(n + 1) <=> B \/ (b = 14 /\ top)
      <4>1. b + ((n + 1) - 15) = b + (n - 14) /\ b + (n - 14) \in Int /\ (b + (n - 14) = n <=> b = 14)
        OBVIOUS
      <4> HIDE DEF low
      <4> QED BY <2>2, <4>1
    <3>4. b + ((n + 1) - 14) \in low(n + 1) <=> C \/ (b = 13 /\ top)
      <4>1. b + ((n + 1) - 14) = b + (n - 13) /\ b + (n - 13) \in Int /\ (b + (n - 13) = n <=> b = 13)
        OBVIOUS
      <4> HIDE DEF low
      <4> QED BY <2>2, <4>1
    <3>5. Parity(low(n + 1)) = 1 /\ b \in OddParityTerm <=> ~(odd <=> top) /\ b \in {0, 14, 15}
      BY <2>3 DEF OddParityTerm
    <3>6. (b = 14 => ~B) /\ (b = 13 => ~C)
      OBVIOUS
    <3>7. Bit(b, n + 1) <=> ~(A <=> ((B \/ (b = 14 /\ top)) <=> ((C \/ (b = 13 /\ top))
                               <=> (~(odd <=> top) /\ b \in {0, 14, 15}))))
      <4> HIDE DEF low
      <4> QED BY <3>3, <3>4, <3>5
    <3> HIDE DEF A, B, C, odd, top, Bit
    <3> QED BY <3>1, <3>2, <3>6, <3>7
  <2>8. 16 \notin s[n + 1] /\ ~Bit(16, n + 1)
    <3>1. 16 + (n + 1) \notin x /\ 16 + ((n + 1) - 15) \notin low(n + 1) /\ 16 + ((n + 1) - 14) \notin low(n + 1)
      BY DEF Word
    <3>2. 16 \notin s[n + 1] /\ 16 \notin OddParityTerm
      BY <2>6 DEF Word, OddParityTerm
    <3> HIDE DEF low
    <3> QED BY <3>1, <3>2
  <2> HIDE DEF Bit
  <2>9. \A b \in 0..16 : b \in 0..15 \/ b = 16
    OBVIOUS
  <2> QED BY <2>6, <2>7, <2>8, <2>9
<1> HIDE DEF P
<1>3. \A n \in 0..8 : n \in T
  <2>1. T \in SUBSET Nat /\ 0 \in T /\ 8 \in Nat
    BY <1>1
  <2>2. \A n \in T : n < 8 => n + 1 \in T
    BY <1>2
  <2> HIDE DEF T
  <2> QED BY <2>1, <2>2, UpTo
<1>4. P(8)
  BY <1>3
<1>5. low(8) = LowByte(x)
  BY DEF LowByte
<1> HIDE DEF low
<1>6. ASSUME NEW b \in 0..15
      PROVE  b \in s[8] <=> ~(b + 8 \in x <=> (b - 7 \in LowByte(x) <=> (b - 6 \in LowByte(x)
                     <=> (Parity(LowByte(x)) = 1 /\ b \in OddParityTerm))))
  <2>1. b \in s[8] <=> Bit(b, 8)
    BY <1>4 DEF P
  <2>2. b + (8 - 15) = b - 7 /\ b + (8 - 14) = b - 6
    OBVIOUS
  <2> QED BY <1>5, <2>1, <2>2
<1> QED BY <1>4, <1>6 DEF P

\* The table does at once what the generator does to eight bits.
LEMMA TableIsGenerator ==
    ASSUME NEW c \in Word, NEW v \in Byte
    PROVE  NextByDefinition(c, v) = NextCrc(c, v)
<1> DEFINE x == SymDiff(c, v)
           i == LowByte(SymDiff(v, c))
           g == [p \in Word \X (1..8) |-> Shifted[p[1]]]
<1>1. x \in Word /\ i \in Byte /\ v \in Word
  BY WordOfXor, BytesAreWords
<1>2. x = SymDiff(v, c) /\ i = LowByte(x)
  BY DEF SymDiff
<1> HIDE DEF x, i
<1>3. g \in [Word \X (1..8) -> Word] /\ \A w \in Word, n \in 1..8 : g[<<w, n>>] = Shifted[w]
  BY ShiftedIs
<1> HIDE DEF g
<1>4. PICK f : Follows(f, Word, 8, x, g)
  BY <1>1, <1>3, Recursion
<1>5. \A n \in 0..8 : f[n] = IF n = 0 THEN x ELSE Shifted[f[n - 1]]
  <2>1. \A n \in 1..8 : f[n - 1] \in Word
    BY <1>4 DEF Follows
  <2>2. \A n \in 1..8 : n # 0 /\ g[<<f[n - 1], n>>] = Shifted[f[n - 1]]
    <3> TAKE n \in 1..8
    <3>1. f[n - 1] \in Word /\ n # 0
      BY <2>1
    <3> HIDE DEF Follows
    <3>2. g[<<f[n - 1], n>>] = Shifted[f[n - 1]]
      BY <3>1, <1>3
    <3> QED BY <3>1, <3>2
  <2>3. \A n \in 0..8 : n = 0 \/ n \in 1..8
    OBVIOUS
  <2> QED BY <2>2, <2>3, <1>4 DEF Follows
<1>6. ShiftedEq(f, x)
  <2>1. f = [n \in 0..8 |-> f[n]]
    BY <1>4 DEF Follows
  <2> QED BY <2>1, <1>5 DEF ShiftedEq
<1> DEFINE s == CHOOSE r : ShiftedEq(r, x)
<1>7. NextByDefinition(c, v) = s[8]
  BY DEF NextByDefinition, ShiftedEq, x
<1>8. ShiftedEq(s, x)
  BY <1>6
<1> HIDE DEF s
<1>9. \A n \in 0..8 : s[n] = IF n = 0 THEN x ELSE Shifted[s[n - 1]]
  BY <1>8, Zenon DEF ShiftedEq
<1>10. s[0] = x /\ \A n \in 1..8 : s[n] = Shifted[s[n - 1]]
  <2>1. 0 \in 0..8 /\ \A n \in 1..8 : n \in 0..8 /\ n # 0
    OBVIOUS
  <2> QED BY <2>1, <1>9
<1>11. /\ s[8] \in Word
       /\ \A b \in 0..15 : b \in s[8] <=> ~(b + 8 \in x <=> (b - 7 \in i <=> (b - 6 \in i
                     <=> (Parity(i) = 1 /\ b \in OddParityTerm))))
  BY <1>1, <1>2, <1>10, ShiftedBy
<1>12. \A b \in 0..15 : b \in Table[i] <=> (b - 7 \in i <=> (b - 6 \in i
                     <=> (Parity(i) = 1 /\ b \in OddParityTerm)))
  BY <1>1, TableIs
<1>13. \A b \in 0..15 : b + 8 \in x <=> b \in HighByte(c)
  <2>1. c \in SUBSET Int
    BY DEF Word
  <2>2. \A b : b \in HighByte(c) <=> b \in Int /\ b + 8 \in c /\ b >= 0
    BY <2>1, ShiftRightIs DEF HighByte
  <2>3. \A b \in 0..15 : b + 8 \notin v
    BY DEF Byte
  <2> QED BY <2>2, <2>3 DEF x, SymDiff
<1>14. NextCrc(c, v) \in Word /\ NextCrc(c, v) = SymDiff(Table[i], HighByte(c))
  BY NextCrcIs DEF i
<1>15. ASSUME NEW b \in 0..15 PROVE b \in s[8] <=> b \in NextCrc(c, v)
  <2>1. b \in NextCrc(c, v) <=> ~(b \in Table[i] <=> b \in HighByte(c))
    BY <1>14 DEF SymDiff
  <2> QED BY <1>11, <1>12, <1>13, <2>1
<1>16. s[8] = NextCrc(c, v)
  BY <1>11, <1>14, <1>15 DEF Word
<1> QED BY <1>7, <1>16

-----------------------------------------------------------------------------
(* Words and bytes *)

\* A number's bits.
LEMMA BitsIs ==
    ASSUME NEW n \in Nat
    PROVE  /\ Bits(n) \in Word
           /\ \A b \in 0..15 : b \in Bits(n) <=> (n \div 2^b) % 2 = 1
BY DEF Bits, Word

\* The powers of two that are needed.
LEMMA Powers ==
    /\ 2^0 = 1 /\ 2^1 = 2 /\ 2^2 = 4 /\ 2^3 = 8 /\ 2^4 = 16 /\ 2^5 = 32 /\ 2^6 = 64 /\ 2^7 = 128
    /\ 2^8 = 256 /\ 2^9 = 512 /\ 2^10 = 1024 /\ 2^11 = 2048 /\ 2^12 = 4096 /\ 2^13 = 8192
    /\ 2^14 = 16384 /\ 2^15 = 32768 /\ 2^16 = 65536
OBVIOUS

\* What each bit of a byte counts.
LEMMA BitValueIs ==
    ASSUME NEW byte
    PROVE  /\ BitValue(byte, 0) = IF 0 \in byte THEN 1 ELSE 0
           /\ BitValue(byte, 1) = IF 1 \in byte THEN 2 ELSE 0
           /\ BitValue(byte, 2) = IF 2 \in byte THEN 4 ELSE 0
           /\ BitValue(byte, 3) = IF 3 \in byte THEN 8 ELSE 0
           /\ BitValue(byte, 4) = IF 4 \in byte THEN 16 ELSE 0
           /\ BitValue(byte, 5) = IF 5 \in byte THEN 32 ELSE 0
           /\ BitValue(byte, 6) = IF 6 \in byte THEN 64 ELSE 0
           /\ BitValue(byte, 7) = IF 7 \in byte THEN 128 ELSE 0
BY Powers DEF BitValue

\* A word is a number below 65536.
LEMMA WordsAre == \A n : n \in Words <=> n \in Int /\ 0 <= n /\ n < 65536
<1> TAKE n
<1>1. n \in Words <=> n \in Int /\ 0 <= n /\ n <= WordRange - 1
  BY DEF Words
<1>2. WordRange = 65536
  BY Powers DEF WordRange
<1> QED BY <1>1, <1>2

\* A byte is a number below 256.
LEMMA NumberType ==
    ASSUME NEW byte
    PROVE  Number(byte) \in Int /\ 0 <= Number(byte) /\ Number(byte) < 256
BY BitValueIs DEF Number

\* Two bytes are a number below 65536.
LEMMA TwoBytes ==
    ASSUME NEW a \in Int, NEW b \in Int, 0 <= a, a < 256, 0 <= b, b < 256
    PROVE  a + 256 * b \in Int /\ 0 <= a + 256 * b /\ a + 256 * b < 65536
OBVIOUS

\* Any two bytes of a frame are a word.
LEMMA WordAtType ==
    ASSUME NEW f, NEW i
    PROVE  WordAt(f, i) \in Words
<1> DEFINE a == Number(f[i])
           b == Number(f[i + 1])
           n == a + 256 * b
<1>1. a \in Int /\ b \in Int /\ 0 <= a /\ a < 256 /\ 0 <= b /\ b < 256
  BY NumberType
<1>2. WordAt(f, i) = n
  BY Powers DEF WordAt
<1> HIDE DEF a, b
<1>3. n \in Int /\ 0 <= n /\ n < 65536
  BY <1>1, TwoBytes
<1> HIDE DEF n
<1> QED BY <1>2, <1>3, WordsAre

\* A word's bits, low byte and high byte, make its number again.
LEMMA NumberOfBits ==
    ASSUME NEW n \in Words
    PROVE  Number(LowByte(Bits(n))) + 256 * Number(HighByte(Bits(n))) = n
<1> DEFINE bits == Bits(n)
           q(b) == n \div 2^b
           digit(b) == IF b \in bits THEN 1 ELSE 0
<1>1. n \in Nat /\ n < 65536
  BY WordsAre
<1>2. bits \in Word /\ \A b \in 0..15 : b \in bits <=> q(b) % 2 = 1
  BY <1>1, BitsIs
<1>d0. n \div 1 = 2 * (n \div 2) + digit(0)
  <2>1. 0 \in bits <=> (n \div 2^0) % 2 = 1
    BY <1>2
  <2>2. 2^0 = 1
    BY Powers
  <2> HIDE DEF bits
  <2>3. 0 \in bits <=> (n \div 1) % 2 = 1
    BY <2>1, <2>2
  <2> QED BY <1>1, <2>3
<1>d1. n \div 2 = 2 * (n \div 4) + digit(1)
  <2>1. 1 \in bits <=> (n \div 2^1) % 2 = 1
    BY <1>2
  <2>2. 2^1 = 2
    BY Powers
  <2> HIDE DEF bits
  <2>3. 1 \in bits <=> (n \div 2) % 2 = 1
    BY <2>1, <2>2
  <2> QED BY <1>1, <2>3
<1>d2. n \div 4 = 2 * (n \div 8) + digit(2)
  <2>1. 2 \in bits <=> (n \div 2^2) % 2 = 1
    BY <1>2
  <2>2. 2^2 = 4
    BY Powers
  <2> HIDE DEF bits
  <2>3. 2 \in bits <=> (n \div 4) % 2 = 1
    BY <2>1, <2>2
  <2> QED BY <1>1, <2>3
<1>d3. n \div 8 = 2 * (n \div 16) + digit(3)
  <2>1. 3 \in bits <=> (n \div 2^3) % 2 = 1
    BY <1>2
  <2>2. 2^3 = 8
    BY Powers
  <2> HIDE DEF bits
  <2>3. 3 \in bits <=> (n \div 8) % 2 = 1
    BY <2>1, <2>2
  <2> QED BY <1>1, <2>3
<1>d4. n \div 16 = 2 * (n \div 32) + digit(4)
  <2>1. 4 \in bits <=> (n \div 2^4) % 2 = 1
    BY <1>2
  <2>2. 2^4 = 16
    BY Powers
  <2> HIDE DEF bits
  <2>3. 4 \in bits <=> (n \div 16) % 2 = 1
    BY <2>1, <2>2
  <2> QED BY <1>1, <2>3
<1>d5. n \div 32 = 2 * (n \div 64) + digit(5)
  <2>1. 5 \in bits <=> (n \div 2^5) % 2 = 1
    BY <1>2
  <2>2. 2^5 = 32
    BY Powers
  <2> HIDE DEF bits
  <2>3. 5 \in bits <=> (n \div 32) % 2 = 1
    BY <2>1, <2>2
  <2> QED BY <1>1, <2>3
<1>d6. n \div 64 = 2 * (n \div 128) + digit(6)
  <2>1. 6 \in bits <=> (n \div 2^6) % 2 = 1
    BY <1>2
  <2>2. 2^6 = 64
    BY Powers
  <2> HIDE DEF bits
  <2>3. 6 \in bits <=> (n \div 64) % 2 = 1
    BY <2>1, <2>2
  <2> QED BY <1>1, <2>3
<1>d7. n \div 128 = 2 * (n \div 256) + digit(7)
  <2>1. 7 \in bits <=> (n \div 2^7) % 2 = 1
    BY <1>2
  <2>2. 2^7 = 128
    BY Powers
  <2> HIDE DEF bits
  <2>3. 7 \in bits <=> (n \div 128) % 2 = 1
    BY <2>1, <2>2
  <2> QED BY <1>1, <2>3
<1>d8. n \div 256 = 2 * (n \div 512) + digit(8)
  <2>1. 8 \in bits <=> (n \div 2^8) % 2 = 1
    BY <1>2
  <2>2. 2^8 = 256
    BY Powers
  <2> HIDE DEF bits
  <2>3. 8 \in bits <=> (n \div 256) % 2 = 1
    BY <2>1, <2>2
  <2> QED BY <1>1, <2>3
<1>d9. n \div 512 = 2 * (n \div 1024) + digit(9)
  <2>1. 9 \in bits <=> (n \div 2^9) % 2 = 1
    BY <1>2
  <2>2. 2^9 = 512
    BY Powers
  <2> HIDE DEF bits
  <2>3. 9 \in bits <=> (n \div 512) % 2 = 1
    BY <2>1, <2>2
  <2> QED BY <1>1, <2>3
<1>d10. n \div 1024 = 2 * (n \div 2048) + digit(10)
  <2>1. 10 \in bits <=> (n \div 2^10) % 2 = 1
    BY <1>2
  <2>2. 2^10 = 1024
    BY Powers
  <2> HIDE DEF bits
  <2>3. 10 \in bits <=> (n \div 1024) % 2 = 1
    BY <2>1, <2>2
  <2> QED BY <1>1, <2>3
<1>d11. n \div 2048 = 2 * (n \div 4096) + digit(11)
  <2>1. 11 \in bits <=> (n \div 2^11) % 2 = 1
    BY <1>2
  <2>2. 2^11 = 2048
    BY Powers
  <2> HIDE DEF bits
  <2>3. 11 \in bits <=> (n \div 2048) % 2 = 1
    BY <2>1, <2>2
  <2> QED BY <1>1, <2>3
<1>d12. n \div 4096 = 2 * (n \div 8192) + digit(12)
  <2>1. 12 \in bits <=> (n \div 2^12) % 2 = 1
    BY <1>2
  <2>2. 2^12 = 4096
    BY Powers
  <2> HIDE DEF bits
  <2>3. 12 \in bits <=> (n \div 4096) % 2 = 1
    BY <2>1, <2>2
  <2> QED BY <1>1, <2>3
<1>d13. n \div 8192 = 2 * (n \div 16384) + digit(13)
  <2>1. 13 \in bits <=> (n \div 2^13) % 2 = 1
    BY <1>2
  <2>2. 2^13 = 8192
    BY Powers
  <2> HIDE DEF bits
  <2>3. 13 \in bits <=> (n \div 8192) % 2 = 1
    BY <2>1, <2>2
  <2> QED BY <1>1, <2>3
<1>d14. n \div 16384 = 2 * (n \div 32768) + digit(14)
  <2>1. 14 \in bits <=> (n \div 2^14) % 2 = 1
    BY <1>2
  <2>2. 2^14 = 16384
    BY Powers
  <2> HIDE DEF bits
  <2>3. 14 \in bits <=> (n \div 16384) % 2 = 1
    BY <2>1, <2>2
  <2> QED BY <1>1, <2>3
<1>d15. n \div 32768 = 2 * (n \div 65536) + digit(15)
  <2>1. 15 \in bits <=> (n \div 2^15) % 2 = 1
    BY <1>2
  <2>2. 2^15 = 32768
    BY Powers
  <2> HIDE DEF bits
  <2>3. 15 \in bits <=> (n \div 32768) % 2 = 1
    BY <2>1, <2>2
  <2> QED BY <1>1, <2>3
<1>3. LowByte(bits) = {b \in bits : b \in 0..7} /\ \A b \in 0..7 : b \in HighByte(bits) <=> b + 8 \in bits
  <2>1. bits \in SUBSET Int
    BY <1>2 DEF Word
  <2> HIDE DEF bits
  <2>2. \A b : b \in HighByte(bits) <=> b \in Int /\ b + 8 \in bits /\ b >= 0
    BY <2>1, ShiftRightIs DEF HighByte
  <2> QED BY <2>2 DEF LowByte
<1> HIDE DEF bits
<1>4. n \div 1 = n /\ n \div 65536 = 0
  BY <1>1
<1> DEFINE low == LowByte(bits)
           high == HighByte(bits)
<1>5. /\ \A b \in 0..7 : b \in low <=> b \in bits
      /\ \A b \in 0..7 : b \in high <=> b + 8 \in bits
  BY <1>3
<1> HIDE DEF low, high
<1>l0. BitValue(low, 0) = 1 * digit(0) /\ BitValue(high, 0) = 1 * digit(8)
  <2>1. (0 \in low <=> 0 \in bits) /\ (0 \in high <=> 8 \in bits)
    BY <1>5
  <2> QED BY <2>1, BitValueIs
<1>l1. BitValue(low, 1) = 2 * digit(1) /\ BitValue(high, 1) = 2 * digit(9)
  <2>1. (1 \in low <=> 1 \in bits) /\ (1 \in high <=> 9 \in bits)
    BY <1>5
  <2> QED BY <2>1, BitValueIs
<1>l2. BitValue(low, 2) = 4 * digit(2) /\ BitValue(high, 2) = 4 * digit(10)
  <2>1. (2 \in low <=> 2 \in bits) /\ (2 \in high <=> 10 \in bits)
    BY <1>5
  <2> QED BY <2>1, BitValueIs
<1>l3. BitValue(low, 3) = 8 * digit(3) /\ BitValue(high, 3) = 8 * digit(11)
  <2>1. (3 \in low <=> 3 \in bits) /\ (3 \in high <=> 11 \in bits)
    BY <1>5
  <2> QED BY <2>1, BitValueIs
<1>l4. BitValue(low, 4) = 16 * digit(4) /\ BitValue(high, 4) = 16 * digit(12)
  <2>1. (4 \in low <=> 4 \in bits) /\ (4 \in high <=> 12 \in bits)
    BY <1>5
  <2> QED BY <2>1, BitValueIs
<1>l5. BitValue(low, 5) = 32 * digit(5) /\ BitValue(high, 5) = 32 * digit(13)
  <2>1. (5 \in low <=> 5 \in bits) /\ (5 \in high <=> 13 \in bits)
    BY <1>5
  <2> QED BY <2>1, BitValueIs
<1>l6. BitValue(low, 6) = 64 * digit(6) /\ BitValue(high, 6) = 64 * digit(14)
  <2>1. (6 \in low <=> 6 \in bits) /\ (6 \in high <=> 14 \in bits)
    BY <1>5
  <2> QED BY <2>1, BitValueIs
<1>l7. BitValue(low, 7) = 128 * digit(7) /\ BitValue(high, 7) = 128 * digit(15)
  <2>1. (7 \in low <=> 7 \in bits) /\ (7 \in high <=> 15 \in bits)
    BY <1>5
  <2> QED BY <2>1, BitValueIs
<1>d. \A b : digit(b) \in Int
  OBVIOUS
<1> HIDE DEF digit
<1>6. /\ Number(low) = digit(0) + 2 * digit(1) + 4 * digit(2) + 8 * digit(3)
                        + 16 * digit(4) + 32 * digit(5) + 64 * digit(6) + 128 * digit(7)
      /\ Number(high) = digit(8) + 2 * digit(9) + 4 * digit(10) + 8 * digit(11)
                        + 16 * digit(12) + 32 * digit(13) + 64 * digit(14) + 128 * digit(15)
  BY <1>l0, <1>l1, <1>l2, <1>l3, <1>l4, <1>l5, <1>l6, <1>l7, <1>d DEF Number
<1>7. /\ n \div 256 = digit(8) + 2 * digit(9) + 4 * digit(10) + 8 * digit(11)
                        + 16 * digit(12) + 32 * digit(13) + 64 * digit(14) + 128 * digit(15)
      /\ n \div 256 \in Int
  BY <1>d8, <1>d9, <1>d10, <1>d11, <1>d12, <1>d13, <1>d14, <1>d15, <1>d, <1>1, <1>4
<1>8. n = digit(0) + 2 * digit(1) + 4 * digit(2) + 8 * digit(3)
            + 16 * digit(4) + 32 * digit(5) + 64 * digit(6) + 128 * digit(7) + 256 * (n \div 256)
  <2> DEFINE q1 == n \div 2
             q2 == n \div 4
             q3 == n \div 8
             q4 == n \div 16
             q5 == n \div 32
             q6 == n \div 64
             q7 == n \div 128
             q8 == n \div 256
  <2>1. /\ n = 2 * q1 + digit(0) /\ q1 = 2 * q2 + digit(1) /\ q2 = 2 * q3 + digit(2)
        /\ q3 = 2 * q4 + digit(3) /\ q4 = 2 * q5 + digit(4) /\ q5 = 2 * q6 + digit(5)
        /\ q6 = 2 * q7 + digit(6) /\ q7 = 2 * q8 + digit(7)
    BY <1>d0, <1>d1, <1>d2, <1>d3, <1>d4, <1>d5, <1>d6, <1>d7, <1>4
  <2>2. /\ q1 \in Int /\ q2 \in Int /\ q3 \in Int /\ q4 \in Int
        /\ q5 \in Int /\ q6 \in Int /\ q7 \in Int /\ q8 \in Int
    BY <1>1
  <2>3. n \div 256 = q8
    OBVIOUS
  <2> HIDE DEF q1, q2, q3, q4, q5, q6, q7, q8
  <2>4. /\ digit(0) \in Int /\ digit(1) \in Int /\ digit(2) \in Int /\ digit(3) \in Int
        /\ digit(4) \in Int /\ digit(5) \in Int /\ digit(6) \in Int /\ digit(7) \in Int
    BY <1>d
  <2>5. q4 = digit(4) + 2 * digit(5) + 4 * digit(6) + 8 * digit(7) + 16 * q8
    BY <2>1, <2>2, <2>4
  <2>6. n = digit(0) + 2 * digit(1) + 4 * digit(2) + 8 * digit(3) + 16 * q4
    BY <2>1, <2>2, <2>4
  <2>7. n = digit(0) + 2 * digit(1) + 4 * digit(2) + 8 * digit(3)
            + 16 * digit(4) + 32 * digit(5) + 64 * digit(6) + 128 * digit(7) + 256 * q8
    BY <2>2, <2>4, <2>5, <2>6
  <2> QED BY <2>3, <2>7
<1>9. Number(low) + 256 * Number(high) = n
  <2> DEFINE h == Number(high)
             l == digit(0) + 2 * digit(1) + 4 * digit(2) + 8 * digit(3)
                        + 16 * digit(4) + 32 * digit(5) + 64 * digit(6) + 128 * digit(7)
  <2>1. Number(low) = l /\ h = n \div 256 /\ n = l + 256 * (n \div 256)
    BY <1>6, <1>7, <1>8
  <2> HIDE DEF h, l
  <2> QED BY <2>1 DEF h
<1> QED BY <1>9 DEF low, high, bits

\* A byte's bits make its number again.
LEMMA NumberOfByte ==
    ASSUME NEW n \in Nat, n < 256
    PROVE  Bits(n) \in Byte /\ Number(Bits(n)) = n
<1>1. n \in Words
  BY WordsAre
<1>2. ASSUME NEW b \in 8..15 PROVE b \notin Bits(n)
  <2>1. n \div 2^b = 0
    <3>8. CASE b = 8
      BY <3>8, Powers
    <3>9. CASE b = 9
      BY <3>9, Powers
    <3>10. CASE b = 10
      BY <3>10, Powers
    <3>11. CASE b = 11
      BY <3>11, Powers
    <3>12. CASE b = 12
      BY <3>12, Powers
    <3>13. CASE b = 13
      BY <3>13, Powers
    <3>14. CASE b = 14
      BY <3>14, Powers
    <3>15. CASE b = 15
      BY <3>15, Powers
    <3> QED BY <3>8, <3>9, <3>10, <3>11, <3>12, <3>13, <3>14, <3>15
  <2> QED BY <1>1, <2>1, BitsIs
<1>3. Bits(n) \in Byte
  BY <1>1, <1>2, BitsIs DEF Byte, Word
<1>4. LowByte(Bits(n)) = Bits(n) /\ HighByte(Bits(n)) = {}
  BY <1>3 DEF LowByte, HighByte, ShiftRight, Byte
<1>5. Number({}) = 0
  BY BitValueIs DEF Number
<1>6. Number(Bits(n)) \in Int
  BY NumberType
<1>7. Number(Bits(n)) + 256 * 0 = n
  BY <1>1, <1>4, <1>5, NumberOfBits
<1> QED BY <1>3, <1>6, <1>7

-----------------------------------------------------------------------------
(* Frames *)

\* One sequence after the other.
LEMMA Concat ==
    ASSUME NEW S, NEW s \in Seq(S), NEW t \in Seq(S)
    PROVE  /\ s \o t \in Seq(S) /\ Len(s \o t) = Len(s) + Len(t)
           /\ \A i \in 1..Len(s) : (s \o t)[i] = s[i]
           /\ \A j \in 1..Len(t) : (s \o t)[Len(s) + j] = t[j]
<1>1. s \o t \in Seq(S) /\ Len(s \o t) = Len(s) + Len(t)
  OBVIOUS
<1>2. \A i \in 1..Len(s) : (s \o t)[i] = s[i]
  OBVIOUS
<1>3. \A j \in 1..Len(t) : (s \o t)[Len(s) + j] = t[j]
  OBVIOUS
<1> QED BY <1>1, <1>2, <1>3

\* A word is its low byte and then its high byte.
LEMMA BytesOfIs ==
    ASSUME NEW words \in Seq(Words)
    PROVE  /\ BytesOf(words) \in Seq(Byte) /\ Len(BytesOf(words)) = 2 * Len(words)
           /\ \A w \in 1..Len(words) : /\ BytesOf(words)[2*w - 1] = LowByte(Bits(words[w]))
                                       /\ BytesOf(words)[2*w] = HighByte(Bits(words[w]))
<1> DEFINE N == Len(words)
           bits(i) == Bits(words[(i + 1) \div 2])
           b(i) == IF i % 2 = 1 THEN LowByte(bits(i)) ELSE HighByte(bits(i))
<1>1. N \in Nat
  OBVIOUS
<1>2. BytesOf(words) = [i \in 1..2*N |-> b(i)]
  BY DEF BytesOf
<1>3. ASSUME NEW i \in 1..2*N PROVE b(i) \in Byte
  <2>1. (i + 1) \div 2 \in 1..N
    BY <1>1
  <2>2. words[(i + 1) \div 2] \in Nat
    BY <2>1, WordsAre
  <2>3. bits(i) \in Word
    BY <2>2, BitsIs
  <2> HIDE DEF bits
  <2>4. LowByte(bits(i)) \in Byte /\ HighByte(bits(i)) \in Byte
    BY <2>3, WordOfXor
  <2> QED BY <2>4
<1>4. BytesOf(words) \in Seq(Byte) /\ Len(BytesOf(words)) = 2 * N
  <2> HIDE DEF b, N
  <2>1. 2 * N \in Nat
    BY <1>1
  <2> QED BY <1>2, <1>3, <2>1
<1>5. ASSUME NEW w \in 1..N
      PROVE  /\ BytesOf(words)[2*w - 1] = LowByte(Bits(words[w]))
             /\ BytesOf(words)[2*w] = HighByte(Bits(words[w]))
  <2>1. /\ 2*w - 1 \in 1..2*N /\ 2*w \in 1..2*N
        /\ ((2*w - 1) + 1) \div 2 = w /\ (2*w + 1) \div 2 = w
        /\ (2*w - 1) % 2 = 1 /\ (2*w) % 2 = 0
    BY <1>1
  <2>2. BytesOf(words)[2*w - 1] = b(2*w - 1) /\ BytesOf(words)[2*w] = b(2*w)
    <3> HIDE DEF b, N
    <3> QED BY <1>2, <2>1
  <2> QED BY <2>1, <2>2
<1> QED BY <1>4, <1>5

\* What arrives in words of a frame.
LEMMA WordsInIs ==
    ASSUME NEW f \in Seq(Byte), Len(f) >= 6
    PROVE  /\ WordsIn(f) \in Seq(Words) /\ Len(WordsIn(f)) = (Len(f) - 6) \div 2
           /\ \A w \in 1..((Len(f) - 6) \div 2) : WordsIn(f)[w] = WordAt(f, 4 + (2*w - 1))
<1> DEFINE N == (Len(f) - 6) \div 2
<1>1. N \in Nat /\ (Len(f) - FrameHeaderLen - CrcLen) \div 2 = N
  BY DEF FrameHeaderLen, CrcLen
<1>2. WordsIn(f) = [w \in 1..N |-> WordAt(f, FrameHeaderLen + 2*w - 1)]
  BY <1>1 DEF WordsIn
<1> HIDE DEF N
<1>3. WordsIn(f) \in Seq(Words) /\ Len(WordsIn(f)) = N
  BY <1>1, <1>2, WordAtType
<1>4. \A w \in 1..N : WordsIn(f)[w] = WordAt(f, 4 + (2*w - 1))
  BY <1>1, <1>2 DEF FrameHeaderLen
<1> QED BY <1>3, <1>4 DEF N

\* A frame says what it is, and holds its words.
LEMMA FrameIs ==
    ASSUME NEW words \in Seq(Words), FrameHeaderLen + 2*Len(words) + CrcLen <= MaxLen
    PROVE  /\ FrameOf(words) \in Seq(Byte) /\ Len(FrameOf(words)) = 6 + 2*Len(words)
           /\ Len(FrameOf(words)) <= MaxLen
           /\ IsValid(FrameOf(words)) /\ GoodReply(FrameOf(words))
           /\ WordsIn(FrameOf(words)) = words
<1> DEFINE N == Len(words)
           size == FrameHeaderLen + 2*N + CrcLen
           head == <<Bits(Addr), Good>>
           sized == BytesOf(<<size>>)
           body == BytesOf(words)
           data == head \o sized \o body
           f == FrameOf(words)
<1>1. N \in Nat /\ size = 6 + 2*N /\ size <= MaxLen /\ size \in Words /\ <<size>> \in Seq(Words)
  <2>1. N \in Nat /\ size = 6 + 2*N /\ size <= MaxLen
    BY DEF FrameHeaderLen, CrcLen
  <2>2. MaxLen <= 65535 /\ MaxLen \in Int
    BY MaxLenAssumption, Powers
  <2> HIDE DEF size, N
  <2>3. size \in Words
    BY <2>1, <2>2, WordsAre
  <2> QED BY <2>1, <2>3
<1>2. f = AppendCrc(data)
  BY DEF FrameOf
<1> HIDE DEF size, f
<1>3. head \in Seq(Byte) /\ Len(head) = 2 /\ head[1] = Bits(Addr) /\ head[2] = {} /\ Number(Bits(Addr)) = Addr
  <2>1. Addr \in Nat /\ Addr < 256
    BY TraceAssumption
  <2> QED BY <2>1, NumberOfByte, WordOfXor DEF Good
<1>4. /\ sized \in Seq(Byte) /\ Len(sized) = 2
      /\ sized[1] = LowByte(Bits(size)) /\ sized[2] = HighByte(Bits(size))
  <2>1. Len(<<size>>) = 1 /\ <<size>>[1] = size /\ 1 \in 1..1 /\ 2*1 - 1 = 1 /\ 2*1 = 2
    OBVIOUS
  <2> DEFINE one == <<size>>
  <2>2. one \in Seq(Words) /\ Len(one) = 1 /\ one[1] = size
    BY <1>1
  <2> HIDE DEF one
  <2>3. /\ BytesOf(one) \in Seq(Byte) /\ Len(BytesOf(one)) = 2 * Len(one)
        /\ \A w \in 1..Len(one) : /\ BytesOf(one)[2*w - 1] = LowByte(Bits(one[w]))
                                  /\ BytesOf(one)[2*w] = HighByte(Bits(one[w]))
    BY <2>2, BytesOfIs
  <2>4. BytesOf(one)[2*1 - 1] = LowByte(Bits(one[1])) /\ BytesOf(one)[2*1] = HighByte(Bits(one[1]))
    BY <2>2, <2>3
  <2> QED BY <2>1, <2>2, <2>3, <2>4 DEF one
<1>5. /\ body \in Seq(Byte) /\ Len(body) = 2 * N
      /\ \A w \in 1..N : body[2*w - 1] = LowByte(Bits(words[w])) /\ body[2*w] = HighByte(Bits(words[w]))
  BY BytesOfIs
<1> HIDE DEF head, sized, body, N
<1>6. /\ data \in Seq(Byte) /\ Len(data) = 4 + 2*N
      /\ data[1] = head[1] /\ data[2] = head[2] /\ data[3] = sized[1] /\ data[4] = sized[2]
      /\ \A j \in 1..2*N : data[4 + j] = body[j]
  <2> DEFINE front == head \o sized
  <2>1. /\ front \in Seq(Byte) /\ Len(front) = 4
        /\ front[1] = head[1] /\ front[2] = head[2] /\ front[3] = sized[1] /\ front[4] = sized[2]
    <3>1. /\ front \in Seq(Byte) /\ Len(front) = 2 + 2
          /\ \A i \in 1..2 : front[i] = head[i]
          /\ \A j \in 1..2 : front[2 + j] = sized[j]
      <4>1. /\ front \in Seq(Byte) /\ Len(front) = Len(head) + Len(sized)
            /\ \A i \in 1..Len(head) : front[i] = head[i]
            /\ \A j \in 1..Len(sized) : front[Len(head) + j] = sized[j]
        <5>1. head \in Seq(Byte) /\ sized \in Seq(Byte)
          BY <1>3, <1>4
        <5> QED BY <5>1, Concat
      <4> HIDE DEF front
      <4> QED BY <1>3, <1>4, <4>1
    <3>2. front[1] = head[1] /\ front[2] = head[2] /\ front[2 + 1] = sized[1] /\ front[2 + 2] = sized[2]
      BY <3>1
    <3> QED BY <3>1, <3>2
  <2>2. data = front \o body
    OBVIOUS
  <2> HIDE DEF front, data
  <2>3. /\ front \o body \in Seq(Byte) /\ Len(front \o body) = 4 + 2*N
        /\ \A i \in 1..4 : (front \o body)[i] = front[i]
        /\ \A j \in 1..2*N : (front \o body)[4 + j] = body[j]
    <3>1. /\ front \o body \in Seq(Byte) /\ Len(front \o body) = Len(front) + Len(body)
          /\ \A i \in 1..Len(front) : (front \o body)[i] = front[i]
          /\ \A j \in 1..Len(body) : (front \o body)[Len(front) + j] = body[j]
      <4>1. front \in Seq(Byte) /\ body \in Seq(Byte)
        BY <1>5, <2>1
      <4> QED BY <4>1, Concat
    <3> QED BY <1>5, <2>1, <3>1
  <2>4. data[1] = front[1] /\ data[2] = front[2] /\ data[3] = front[3] /\ data[4] = front[4]
    <3>1. 1 \in 1..4 /\ 2 \in 1..4 /\ 3 \in 1..4 /\ 4 \in 1..4
      OBVIOUS
    <3> QED BY <2>2, <2>3, <3>1, Zenon
  <2> QED BY <2>1, <2>2, <2>3, <2>4
<1> HIDE DEF data
<1>7. /\ f \in Seq(Byte) /\ Len(f) = 6 + 2*N /\ IsValid(f)
      /\ \A i \in 1..4 + 2*N : f[i] = data[i]
  <2>1. /\ AppendCrc(data) \in Seq(Byte) /\ Len(AppendCrc(data)) = Len(data) + 2
        /\ \A i \in 1..Len(data) : AppendCrc(data)[i] = data[i]
        /\ IsValid(AppendCrc(data))
    BY <1>6, AppendedIsValid
  <2>2. Len(data) = 4 + 2*N /\ (4 + 2*N) + 2 = 6 + 2*N
    BY <1>1, <1>6
  <2> QED BY <1>2, <2>1, <2>2
<1>8. /\ f[1] = Bits(Addr) /\ f[2] = {} /\ f[3] = LowByte(Bits(size)) /\ f[4] = HighByte(Bits(size))
      /\ \A j \in 1..2*N : f[4 + j] = body[j]
  <2>1. 1 \in 1..4 + 2*N /\ 2 \in 1..4 + 2*N /\ 3 \in 1..4 + 2*N /\ 4 \in 1..4 + 2*N
    BY <1>1
  <2>2. f[1] = data[1] /\ f[2] = data[2] /\ f[3] = data[3] /\ f[4] = data[4]
    BY <1>7, <2>1
  <2>3. \A j \in 1..2*N : 4 + j \in 1..4 + 2*N
    BY <1>1
  <2> QED BY <1>3, <1>4, <1>6, <1>7, <2>2, <2>3
<1>9. GoodReply(f)
  <2>1. WordAt(f, 3) = size
    BY <1>1, <1>8, NumberOfBits, Powers DEF WordAt
  <2> QED BY <1>1, <1>3, <1>7, <1>8, <2>1 DEF GoodReply, Good
<1>10. WordsIn(f) = words
  <2>1. Len(f) >= 6 /\ (Len(f) - 6) \div 2 = N
    BY <1>1, <1>7
  <2>2. WordsIn(f) \in Seq(Words) /\ Len(WordsIn(f)) = N
    BY <1>7, <2>1, WordsInIs
  <2>3. ASSUME NEW w \in 1..N PROVE WordsIn(f)[w] = words[w]
    <3>1. WordsIn(f)[w] = WordAt(f, 4 + (2*w - 1))
      BY <1>7, <2>1, WordsInIs
    <3>2. /\ 2*w - 1 \in 1..2*N /\ 2*w \in 1..2*N /\ (4 + (2*w - 1)) + 1 = 4 + 2*w
      BY <1>1
    <3>3. f[4 + (2*w - 1)] = LowByte(Bits(words[w])) /\ f[4 + 2*w] = HighByte(Bits(words[w]))
      BY <1>5, <1>8, <3>2
    <3>4. words[w] \in Words
      BY DEF N
    <3>5. WordAt(f, 4 + (2*w - 1)) = Number(LowByte(Bits(words[w]))) + 256 * Number(HighByte(Bits(words[w])))
      BY <3>2, <3>3, Powers DEF WordAt
    <3> QED BY <3>1, <3>4, <3>5, NumberOfBits
  <2> QED BY <2>2, <2>3 DEF N
<1> QED BY <1>1, <1>7, <1>9, <1>10 DEF f, N

-----------------------------------------------------------------------------
(* Sequences one after the other *)

JoinedEq(f, seqs) ==
    f = [k \in 0..Len(seqs) |-> IF k = 0 THEN <<>> ELSE f[k - 1] \o seqs[k]]

\* The recursion that joins sequences, step by step.
LEMMA JoinedIs ==
    ASSUME NEW S, NEW seqs \in Seq(Seq(S))
    PROVE  /\ Joined(seqs) \in [0..Len(seqs) -> Seq(S)]
           /\ Joined(seqs)[0] = <<>>
           /\ \A k \in 1..Len(seqs) : Joined(seqs)[k] = Joined(seqs)[k - 1] \o seqs[k]
<1> DEFINE N == Len(seqs)
           Q == Seq(S)
           g == [p \in Q \X (1..N) |-> p[1] \o seqs[p[2]]]
<1>1. N \in Nat /\ <<>> \in Q /\ \A k \in 1..N : seqs[k] \in Q
  OBVIOUS
<1>2. \A s, t \in Q : s \o t \in Q
  OBVIOUS
<1> HIDE DEF N, Q
<1>3. g \in [Q \X (1..N) -> Q]
  BY <1>1, <1>2
<1>4. \A s \in Q, k \in 1..N : g[<<s, k>>] = s \o seqs[k]
  OBVIOUS
<1> HIDE DEF g
<1>5. PICK f : Follows(f, Q, N, <<>>, g)
  BY <1>1, <1>3, Recursion, Zenon
<1>6. \A k \in 0..N : f[k] = IF k = 0 THEN <<>> ELSE f[k - 1] \o seqs[k]
  <2>1. \A k \in 1..N : f[k - 1] \in Q
    BY <1>1, <1>5 DEF Follows
  <2>2. \A k \in 1..N : k # 0 /\ g[<<f[k - 1], k>>] = f[k - 1] \o seqs[k]
    <3> TAKE k \in 1..N
    <3>1. f[k - 1] \in Q /\ k # 0
      BY <2>1, <1>1
    <3>2. g[<<f[k - 1], k>>] = f[k - 1] \o seqs[k]
      BY <3>1, <1>4
    <3> QED BY <3>1, <3>2
  <2>3. \A k \in 0..N : k = 0 \/ k \in 1..N
    BY <1>1
  <2> QED BY <2>2, <2>3, <1>5 DEF Follows
<1>7. JoinedEq(f, seqs)
  <2>1. f = [k \in 0..N |-> f[k]]
    BY <1>5 DEF Follows
  <2> QED BY <2>1, <1>6 DEF JoinedEq, N
<1> DEFINE r == CHOOSE s : JoinedEq(s, seqs)
<1>8. Joined(seqs) = r
  BY DEF Joined, JoinedEq
<1>9. JoinedEq(r, seqs)
  BY <1>7
<1> HIDE DEF r
<1>10. DOMAIN r = 0..N /\ \A k \in 0..N : r[k] = IF k = 0 THEN <<>> ELSE r[k - 1] \o seqs[k]
  BY <1>9, Zenon DEF JoinedEq, N
<1>11. r[0] = <<>> /\ \A k \in 1..N : r[k] = r[k - 1] \o seqs[k]
  <2>1. 0 \in 0..N /\ \A k \in 1..N : k \in 0..N /\ k # 0
    BY <1>1
  <2> QED BY <2>1, <1>10
<1>12. \A k \in 0..N : r[k] \in Q
  <2>1. \A k \in 1..N : r[k - 1] \in Q => r[k] \in Q
    BY <1>1, <1>2, <1>11
  <2> QED BY <2>1, <1>1, <1>11, Throughout, Zenon
<1>13. r = [k \in 0..N |-> r[k]]
  BY <1>9, Zenon DEF JoinedEq, N
<1>14. r \in [0..N -> Q]
  BY <1>12, <1>13
<1> QED BY <1>8, <1>11, <1>14 DEF N, Q

\* all of them
AllOf(seqs) == Joined(seqs)[Len(seqs)]

\* Where the k-th of the sequences is in all of them.
LEMMA JoinedAt ==
    ASSUME NEW S, NEW seqs \in Seq(Seq(S))
    PROVE  \A k \in 0..Len(seqs) :
              /\ Joined(seqs)[k] \in Seq(S) /\ Len(Joined(seqs)[k]) <= Len(AllOf(seqs))
              /\ \A i \in 1..Len(Joined(seqs)[k]) : AllOf(seqs)[i] = Joined(seqs)[k][i]
<1> DEFINE N == Len(seqs)
           J == Joined(seqs)
           j == AllOf(seqs)
           At(k) == /\ Len(J[k]) <= Len(j)
                    /\ \A i \in 1..Len(J[k]) : j[i] = J[k][i]
           T == {n \in Nat : n <= N => At(N - n)}
<1>1. /\ N \in Nat /\ j \in Seq(S) /\ \A k \in 0..N : J[k] \in Seq(S)
      /\ \A k \in 1..N : J[k] = J[k - 1] \o seqs[k] /\ seqs[k] \in Seq(S)
  <2>1. /\ J \in [0..N -> Seq(S)]
        /\ \A k \in 1..N : J[k] = J[k - 1] \o seqs[k]
    BY JoinedIs
  <2>2. N \in Nat /\ \A k \in 1..N : seqs[k] \in Seq(S)
    OBVIOUS
  <2>3. j = J[N] /\ N \in 0..N
    BY DEF AllOf
  <2> HIDE DEF J, N, j
  <2> QED BY <2>1, <2>2, <2>3
<1>2. T \in SUBSET Nat /\ 0 \in T
  <2>1. N - 0 = N /\ At(N)
    BY <1>1 DEF AllOf
  <2> HIDE DEF At
  <2> QED BY <2>1
<1> HIDE DEF J, N, j
<1>3. ASSUME NEW n \in Nat, n < N, At(N - n) PROVE At(N - (n + 1))
  <2> DEFINE k == N - n
             a == J[k - 1]
             b == seqs[k]
  <2>1. k \in 1..N /\ k - 1 \in 0..N /\ N - (n + 1) = k - 1
    BY <1>1, <1>3
  <2>2. a \in Seq(S) /\ b \in Seq(S) /\ J[k] = a \o b
    BY <1>1, <2>1
  <2> HIDE DEF k, a, b
  <2>3. /\ Len(J[k]) = Len(a) + Len(b)
        /\ \A i \in 1..Len(a) : J[k][i] = a[i]
    BY <2>2, Concat
  <2>4. Len(a) \in Nat /\ Len(b) \in Nat /\ Len(j) \in Nat
    BY <1>1, <2>2
  <2>5. Len(J[k]) <= Len(j) /\ \A i \in 1..Len(J[k]) : j[i] = J[k][i]
    BY <1>3 DEF k
  <2>6. Len(a) <= Len(j)
    BY <2>3, <2>4, <2>5
  <2>7. \A i \in 1..Len(a) : j[i] = a[i]
    BY <2>3, <2>4, <2>5
  <2> QED BY <2>1, <2>6, <2>7 DEF a
<1>4. \A n \in T : n < N => n + 1 \in T
  <2> TAKE n \in T
  <2> HAVE n < N
  <2>1. n \in Nat /\ At(N - n)
    <3> HIDE DEF At
    <3> QED BY <1>1
  <2>2. At(N - (n + 1))
    BY <1>3, <2>1
  <2> HIDE DEF At
  <2> QED BY <2>1, <2>2
<1> HIDE DEF T
<1>5. \A n \in 0..N : n \in T
  BY <1>1, <1>2, <1>4, UpTo
<1>6. ASSUME NEW k \in 0..N PROVE At(k)
  <2>1. N - k \in 0..N /\ N - (N - k) = k
    BY <1>1
  <2>2. N - k \in T
    BY <1>5, <2>1
  <2>3. At(N - (N - k))
    <3> HIDE DEF At
    <3> QED BY <2>1, <2>2 DEF T
  <2> QED BY <2>1, <2>3
<1> QED BY <1>1, <1>6 DEF N, J, j

\* Where the k-th of the sequences begins in all of them.
LEMMA JoinedParts ==
    ASSUME NEW S, NEW seqs \in Seq(Seq(S)),
           NEW k \in 1..Len(seqs)
    PROVE  /\ Len(Joined(seqs)[k - 1]) \in Nat
           /\ Len(Joined(seqs)[k]) = Len(Joined(seqs)[k - 1]) + Len(seqs[k])
           /\ Len(Joined(seqs)[k]) <= Len(AllOf(seqs))
           /\ \A i \in 1..Len(seqs[k]) : AllOf(seqs)[Len(Joined(seqs)[k - 1]) + i] = seqs[k][i]
<1> DEFINE J == Joined(seqs)
           j == AllOf(seqs)
           a == J[k - 1]
           b == seqs[k]
<1>1. /\ a \in Seq(S) /\ b \in Seq(S) /\ J[k] = a \o b
  <2>1. k - 1 \in 0..Len(seqs)
    OBVIOUS
  <2>2. /\ J \in [0..Len(seqs) -> Seq(S)]
        /\ \A i \in 1..Len(seqs) : J[i] = J[i - 1] \o seqs[i]
    BY JoinedIs
  <2>3. b \in Seq(S)
    OBVIOUS
  <2> HIDE DEF J
  <2> QED BY <2>1, <2>2, <2>3
<1>2. /\ Len(J[k]) <= Len(j)
      /\ \A i \in 1..Len(J[k]) : j[i] = J[k][i]
  <2>1. k \in 0..Len(seqs)
    OBVIOUS
  <2>2. \A m \in 0..Len(seqs) :
              /\ Joined(seqs)[m] \in Seq(S) /\ Len(Joined(seqs)[m]) <= Len(AllOf(seqs))
              /\ \A i \in 1..Len(Joined(seqs)[m]) : AllOf(seqs)[i] = Joined(seqs)[m][i]
    BY JoinedAt, Zenon
  <2> QED BY <2>1, <2>2, Zenon
<1> HIDE DEF a, b, J, j
<1>3. /\ Len(J[k]) = Len(a) + Len(b)
      /\ \A i \in 1..Len(b) : J[k][Len(a) + i] = b[i]
  BY <1>1, Concat
<1>4. Len(a) \in Nat /\ Len(b) \in Nat
  BY <1>1
<1>5. \A i \in 1..Len(b) : Len(a) + i \in 1..Len(J[k])
  BY <1>3, <1>4
<1>6. \A i \in 1..Len(b) : j[Len(a) + i] = b[i]
  BY <1>2, <1>3, <1>5
<1> QED BY <1>2, <1>3, <1>4, <1>6 DEF a, b, J, j

-----------------------------------------------------------------------------
(* Blocks *)

\* The bounds of words and blocks, as numbers.
LEMMA Moduli ==
    /\ WordRange = 65536 /\ NegativeFrom = 32768 /\ DeltaBlock = 16384 /\ DeltasPerWord = 3
BY Powers DEF WordRange, NegativeFrom, DeltaBlock, DeltasPerWord

\* A sample that is lower by a delta is a word, whichever way the cut is made.
LEMMA BelowIs ==
    ASSUME NEW v \in Int, NEW d \in Int
    PROVE  /\ Below(v, d) \in Words
           /\ (v + WordRange - d) % WordRange = Below(v, d)
<1> DEFINE x == v - d
<1>1. x \in Int /\ v + (65536 - d) = x + 65536
  OBVIOUS
<1> HIDE DEF x
<1>2. (x + 65536) % 65536 = x % 65536
  BY <1>1
<1>3. x % 65536 \in Int /\ 0 <= x % 65536 /\ x % 65536 < 65536
  BY <1>1
<1>4. Below(v, d) = x % 65536
  BY Moduli DEF Below, x
<1>5. Below(v, d) \in Words
  BY <1>3, <1>4, WordsAre
<1> QED BY <1>1, <1>2, <1>4, <1>5, Moduli

\* A delta is five bits, with a sign.
LEMMA DeltasAre ==
    ASSUME NEW deltas \in Seq(-16..15), NEW i \in 1..Len(deltas)
    PROVE  deltas[i] \in Int /\ -16 <= deltas[i] /\ deltas[i] <= 15
<1> DEFINE S == -16..15
           d == deltas[i]
<1>1. deltas \in Seq(S)
  OBVIOUS
<1> HIDE DEF S
<1>2. d \in S
  BY <1>1
<1> HIDE DEF d
<1>3. d \in Int /\ -16 <= d /\ d <= 15
  BY <1>2 DEF S
<1> QED BY <1>3 DEF d

LoweredEq(f, start, deltas) ==
    f = [i \in 0..Len(deltas) |->
            IF i = 0 THEN start ELSE (f[i - 1] + WordRange - deltas[i]) % WordRange]

\* A delta block's samples are words, each lower by its delta.
LEMMA LoweredIs ==
    ASSUME NEW start \in Words, NEW deltas \in Seq(-16..15)
    PROVE  /\ Lowered(start, deltas) \in [0..Len(deltas) -> Words]
           /\ Lowered(start, deltas)[0] = start
           /\ \A i \in 1..Len(deltas) :
                 Lowered(start, deltas)[i] = Below(Lowered(start, deltas)[i - 1], deltas[i])
<1> DEFINE N == Len(deltas)
           Next_(v, i) == (v + WordRange - deltas[i]) % WordRange
           g == [p \in Words \X (1..N) |-> Next_(p[1], p[2])]
<1>1. N \in Nat /\ \A i \in 1..N : deltas[i] \in Int
  BY DeltasAre
<1>2. \A v \in Words, i \in 1..N : Next_(v, i) = Below(v, deltas[i]) /\ Next_(v, i) \in Words
  <2> TAKE v \in Words, i \in 1..N
  <2>1. v \in Int /\ deltas[i] \in Int
    BY <1>1, WordsAre
  <2> QED BY <2>1, BelowIs
<1> HIDE DEF N, Next_
<1>3. g \in [Words \X (1..N) -> Words]
  BY <1>2
<1>4. \A v \in Words, i \in 1..N : g[<<v, i>>] = Next_(v, i)
  OBVIOUS
<1> HIDE DEF g
<1>5. PICK f : Follows(f, Words, N, start, g)
  BY <1>1, <1>3, Recursion, Zenon
<1>6. \A i \in 0..N : f[i] = IF i = 0 THEN start ELSE Next_(f[i - 1], i)
  <2>1. \A i \in 1..N : f[i - 1] \in Words
    BY <1>1, <1>5 DEF Follows
  <2>2. \A i \in 1..N : i # 0 /\ g[<<f[i - 1], i>>] = Next_(f[i - 1], i)
    <3> TAKE i \in 1..N
    <3>1. f[i - 1] \in Words /\ i # 0
      BY <2>1, <1>1
    <3>2. g[<<f[i - 1], i>>] = Next_(f[i - 1], i)
      BY <3>1, <1>4
    <3> QED BY <3>1, <3>2
  <2>3. \A i \in 0..N : i = 0 \/ i \in 1..N
    BY <1>1
  <2> QED BY <2>2, <2>3, <1>5 DEF Follows
<1>7. LoweredEq(f, start, deltas)
  <2>1. f = [i \in 0..N |-> f[i]]
    BY <1>5 DEF Follows
  <2>2. f = [i \in 0..N |-> IF i = 0 THEN start ELSE Next_(f[i - 1], i)]
    BY <2>1, <1>6
  <2> QED BY <2>2, Zenon DEF LoweredEq, N, Next_
<1> DEFINE r == CHOOSE s : LoweredEq(s, start, deltas)
<1>8. Lowered(start, deltas) = r
  BY DEF Lowered, LoweredEq
<1>9. LoweredEq(r, start, deltas)
  BY <1>7
<1> HIDE DEF r
<1>10. r = [i \in 0..N |-> IF i = 0 THEN start ELSE Next_(r[i - 1], i)]
  BY <1>9, Zenon DEF LoweredEq, N, Next_
<1>11. r[0] = start /\ \A i \in 1..N : r[i] = Next_(r[i - 1], i)
  <2>1. 0 \in 0..N /\ \A i \in 1..N : i \in 0..N /\ i # 0
    BY <1>1
  <2>2. \A i \in 0..N : r[i] = IF i = 0 THEN start ELSE Next_(r[i - 1], i)
    BY <1>10, Zenon
  <2> QED BY <2>1, <2>2
<1>12. \A i \in 0..N : r[i] \in Words
  <2>1. \A i \in 1..N : r[i - 1] \in Words => r[i] \in Words
    BY <1>2, <1>11
  <2> QED BY <2>1, <1>1, <1>11, Throughout, Zenon
<1>13. r = [i \in 0..N |-> r[i]]
  BY <1>10, Zenon
<1>14. r \in [0..N -> Words]
  BY <1>12, <1>13
<1>15. \A i \in 1..N : r[i] = Below(r[i - 1], deltas[i])
  <2> TAKE i \in 1..N
  <2>1. r[i - 1] \in Words
    BY <1>1, <1>12
  <2> QED BY <2>1, <1>2, <1>11
<1> QED BY <1>8, <1>11, <1>14, <1>15 DEF N

\* three times five bits
WordOf(a, b, c) == a * 2^10 + b * 2^5 + c

\* A word gives back the three deltas that were put into it.
LEMMA DeltaOfWord ==
    ASSUME NEW a \in Int, NEW b \in Int, NEW c \in Int,
           0 <= a, a < 32, 0 <= b, b < 32, 0 <= c, c < 32
    PROVE  /\ WordOf(a, b, c) \in Words
           /\ Field(WordOf(a, b, c), 1) = a
           /\ Field(WordOf(a, b, c), 2) = b
           /\ Field(WordOf(a, b, c), 3) = c
<1> DEFINE word == 1024 * a + 32 * b + c
<1>1. word = WordOf(a, b, c)
  BY Powers DEF WordOf
<1>2. word \in Int /\ 0 <= word /\ word < 65536
  OBVIOUS
<1>3. word \div 1024 = a /\ (word \div 32) % 32 = b /\ word % 32 = c
  <2>1. word \div 1024 = a
    OBVIOUS
  <2>2. word \div 32 = 32 * a + b
    OBVIOUS
  <2>3. word % 32 = c
    OBVIOUS
  <2>4. (32 * a + b) % 32 = b
    OBVIOUS
  <2> QED BY <2>1, <2>2, <2>3, <2>4
<1>4. word \in Words
  <2> HIDE DEF word
  <2> QED BY <1>2, WordsAre
<1>5. Field(word, 1) = word \div 1024 /\ Field(word, 2) = (word \div 32) % 32 /\ Field(word, 3) = word % 32
  <2> HIDE DEF word
  <2> QED BY Powers DEF Field
<1> QED BY <1>1, <1>3, <1>4, <1>5

\* how many words n deltas are packed into
PackedLen(n) == (n + 2) \div 3

\* A word of deltas is only there where it has one to hold.
LEMMA PackedLenIs ==
    ASSUME NEW n \in Nat
    PROVE  /\ PackedLen(n) \in Nat
           /\ \A w \in Nat : w < PackedLen(n) <=> 3*w < n
BY DEF PackedLen

\* A word gives back the deltas that were packed into it.
LEMMA PackedIs ==
    ASSUME NEW deltas \in Seq(-16..15)
    PROVE  /\ Packed(deltas) \in Seq(Words)
           /\ Len(Packed(deltas)) = PackedLen(Len(deltas))
           /\ \A w \in 1..PackedLen(Len(deltas)) :
                 /\ 3*w - 2 <= Len(deltas) => Delta(Packed(deltas)[w], 1) = deltas[3*w - 2]
                 /\ 3*w - 1 <= Len(deltas) => Delta(Packed(deltas)[w], 2) = deltas[3*w - 1]
                 /\ 3*w <= Len(deltas) => Delta(Packed(deltas)[w], 3) = deltas[3*w]
<1> DEFINE N == Len(deltas)
           M == PackedLen(N)
           five(k) == IF k <= N THEN (deltas[k] + 32) % 32 ELSE 0
           word(w) == five(3*w - 2) * 2^10 + five(3*w - 1) * 2^5 + five(3*w)
<1>1. N \in Nat /\ M \in Nat
  <2>1. N \in Nat
    OBVIOUS
  <2> QED BY <2>1, PackedLenIs
<1>2. ASSUME NEW k \in Nat, k >= 1
      PROVE  /\ five(k) \in Int /\ 0 <= five(k) /\ five(k) < 32
             /\ k <= N => (IF five(k) > 15 THEN five(k) - 32 ELSE five(k)) = deltas[k]
  <2>1. CASE k <= N
    <3> DEFINE d == deltas[k]
    <3>1. k \in 1..N
      BY <1>1, <1>2, <2>1
    <3>2. d \in Int /\ -16 <= d /\ d <= 15
      BY <3>1, DeltasAre
    <3> HIDE DEF d
    <3>3. (d + 32) % 32 = IF d < 0 THEN d + 32 ELSE d
      BY <3>2
    <3>4. five(k) = IF d < 0 THEN d + 32 ELSE d
      BY <2>1, <3>3 DEF d
    <3> HIDE DEF five
    <3>5. /\ five(k) \in Int /\ 0 <= five(k) /\ five(k) < 32
          /\ (IF five(k) > 15 THEN five(k) - 32 ELSE five(k)) = d
      BY <3>2, <3>4
    <3> QED BY <3>5 DEF d
  <2>2. CASE ~(k <= N)
    BY <2>2
  <2> QED BY <2>1, <2>2
<1>3. Packed(deltas) = [w \in 1..M |-> word(w)]
  BY DEF Packed, PackedLen
<1> HIDE DEF five
<1>4. ASSUME NEW w \in 1..M
      PROVE  /\ word(w) \in Words
             /\ Field(word(w), 1) = five(3*w - 2)
             /\ Field(word(w), 2) = five(3*w - 1)
             /\ Field(word(w), 3) = five(3*w)
  <2>1. 3*w - 2 \in Nat /\ 3*w - 2 >= 1 /\ 3*w - 1 \in Nat /\ 3*w - 1 >= 1 /\ 3*w \in Nat /\ 3*w >= 1
    BY <1>1
  <2> DEFINE a == five(3*w - 2)
             b == five(3*w - 1)
             c == five(3*w)
  <2>2. a \in Int /\ b \in Int /\ c \in Int /\ 0 <= a /\ a < 32 /\ 0 <= b /\ b < 32 /\ 0 <= c /\ c < 32
    BY <2>1, <1>2
  <2>3. word(w) = WordOf(a, b, c)
    BY DEF WordOf
  <2> HIDE DEF a, b, c, word
  <2>4. /\ WordOf(a, b, c) \in Words
        /\ Field(WordOf(a, b, c), 1) = a /\ Field(WordOf(a, b, c), 2) = b /\ Field(WordOf(a, b, c), 3) = c
    BY <2>2, DeltaOfWord
  <2> QED BY <2>3, <2>4 DEF a, b, c
<1> HIDE DEF word, M, N
<1>5. Packed(deltas) \in Seq(Words) /\ Len(Packed(deltas)) = M
  BY <1>1, <1>3, <1>4
<1>6. ASSUME NEW w \in 1..M
      PROVE  /\ 3*w - 2 <= N => Delta(Packed(deltas)[w], 1) = deltas[3*w - 2]
             /\ 3*w - 1 <= N => Delta(Packed(deltas)[w], 2) = deltas[3*w - 1]
             /\ 3*w <= N => Delta(Packed(deltas)[w], 3) = deltas[3*w]
  <2>1. 3*w - 2 \in Nat /\ 3*w - 2 >= 1 /\ 3*w - 1 \in Nat /\ 3*w - 1 >= 1 /\ 3*w \in Nat /\ 3*w >= 1
    BY <1>1
  <2>2. Packed(deltas)[w] = word(w)
    BY <1>3
  <2>3. /\ Delta(word(w), 1) = IF five(3*w - 2) > 15 THEN five(3*w - 2) - 32 ELSE five(3*w - 2)
        /\ Delta(word(w), 2) = IF five(3*w - 1) > 15 THEN five(3*w - 1) - 32 ELSE five(3*w - 1)
        /\ Delta(word(w), 3) = IF five(3*w) > 15 THEN five(3*w) - 32 ELSE five(3*w)
    BY <1>4 DEF Delta
  <2> QED BY <2>1, <2>2, <2>3, <1>2
<1> QED BY <1>5, <1>6 DEF M, N

\* the blocks a recording is made of
Blocks ==
    {b \in RunKind \union DeltaKind \union PlainKind :
        /\ b.kind = "delta" => Len(b.deltas) < DeltaBlock
        /\ b.kind = "plain" => Len(b.values) < DeltaBlock}

\* What each kind of block has.
LEMMA KindsAre ==
    ASSUME NEW b \in Blocks
    PROVE  /\ b.kind \in {"run", "delta", "plain"}
           /\ b.kind = "run" => b.value \in Words /\ b.len \in Int /\ 1 <= b.len /\ b.len <= 32768
           /\ b.kind = "delta" => b.value \in Words /\ b.deltas \in Seq(-16..15) /\ Len(b.deltas) < DeltaBlock
           /\ b.kind = "plain" => b.values \in Seq(Words) /\ Len(b.values) < 16384
<1>1. CASE b \in RunKind
  <2>1. b.kind = "run" /\ b.value \in Words /\ b.len \in 1..NegativeFrom
    BY <1>1 DEF RunKind
  <2>2. NegativeFrom \in Int
    BY Moduli
  <2>3. b.len \in Int /\ 1 <= b.len /\ b.len <= NegativeFrom
    BY <2>1, <2>2
  <2>4. b.len <= 32768
    BY <2>3, Moduli
  <2> QED BY <2>1, <2>3, <2>4
<1>2. CASE b \in DeltaKind
  <2>1. b.kind = "delta" /\ b.value \in Words /\ b.deltas \in Seq(-16..15)
    BY <1>2 DEF DeltaKind
  <2>2. Len(b.deltas) < DeltaBlock
    BY <2>1 DEF Blocks
  <2> QED BY <2>1, <2>2
<1>3. CASE b \in PlainKind
  <2>1. b.kind = "plain" /\ b.values \in Seq(Words)
    BY <1>3 DEF PlainKind
  <2>2. Len(b.values) < DeltaBlock
    BY <2>1 DEF Blocks
  <2>3. Len(b.values) < 16384
    BY <2>2, Moduli
  <2> QED BY <2>1, <2>3
<1> QED BY <1>1, <1>2, <1>3 DEF Blocks

\* A run's words and samples.
LEMMA RunIs ==
    ASSUME NEW b \in Blocks, b.kind = "run"
    PROVE  /\ WordsOf(b) \in Seq(Words) /\ Len(WordsOf(b)) = 2
           /\ WordsOf(b)[1] = 65536 - b.len /\ WordsOf(b)[2] = b.value
           /\ SamplesOf(b) \in Seq(Words) /\ Len(SamplesOf(b)) = b.len
           /\ \A i \in 1..b.len : SamplesOf(b)[i] = b.value
<1>1. b.value \in Words /\ b.len \in Int /\ 1 <= b.len /\ b.len <= 32768
  BY KindsAre
<1>2. WordsOf(b) = <<65536 - b.len, b.value>> /\ SamplesOf(b) = [i \in 1..b.len |-> b.value]
  BY Moduli DEF WordsOf, SamplesOf
<1>3. 65536 - b.len \in Words
  <2>1. 65536 - b.len \in Int /\ 0 <= 65536 - b.len /\ 65536 - b.len < 65536
    BY <1>1
  <2> QED BY <2>1, WordsAre
<1>4. WordsOf(b) \in Seq(Words) /\ Len(WordsOf(b)) = 2 /\ WordsOf(b)[1] = 65536 - b.len /\ WordsOf(b)[2] = b.value
  BY <1>1, <1>2, <1>3
<1>5. SamplesOf(b) \in Seq(Words) /\ Len(SamplesOf(b)) = b.len
  BY <1>1, <1>2
<1>6. \A i \in 1..b.len : SamplesOf(b)[i] = b.value
  BY <1>2
<1> QED BY <1>4, <1>5, <1>6

\* A plain block's words and samples.
LEMMA PlainIs ==
    ASSUME NEW b \in Blocks, b.kind = "plain"
    PROVE  /\ WordsOf(b) \in Seq(Words) /\ Len(WordsOf(b)) = 1 + Len(b.values)
           /\ WordsOf(b)[1] = Len(b.values)
           /\ \A i \in 1..Len(b.values) : WordsOf(b)[1 + i] = b.values[i]
           /\ SamplesOf(b) = b.values /\ SamplesOf(b) \in Seq(Words)
<1>1. b.values \in Seq(Words) /\ Len(b.values) < 16384 /\ Len(b.values) \in Nat
  BY KindsAre
<1>2. WordsOf(b) = <<Len(b.values)>> \o b.values /\ SamplesOf(b) = b.values
  BY DEF WordsOf, SamplesOf
<1> DEFINE n == Len(b.values)
           first == <<n>>
<1>3. first \in Seq(Words) /\ Len(first) = 1 /\ first[1] = n
  <2>1. n \in Words
    BY <1>1, WordsAre
  <2> QED BY <2>1
<1> HIDE DEF first
<1>4. /\ first \o b.values \in Seq(Words) /\ Len(first \o b.values) = Len(first) + Len(b.values)
      /\ \A i \in 1..Len(first) : (first \o b.values)[i] = first[i]
      /\ \A j \in 1..Len(b.values) : (first \o b.values)[Len(first) + j] = b.values[j]
  <2> DEFINE rest == b.values
  <2>1. first \in Seq(Words) /\ rest \in Seq(Words)
    BY <1>1, <1>3
  <2> HIDE DEF rest
  <2>2. /\ first \o rest \in Seq(Words) /\ Len(first \o rest) = Len(first) + Len(rest)
        /\ \A i \in 1..Len(first) : (first \o rest)[i] = first[i]
        /\ \A j \in 1..Len(rest) : (first \o rest)[Len(first) + j] = rest[j]
    BY <2>1, Concat
  <2> QED BY <2>2 DEF rest
<1>5. WordsOf(b) = first \o b.values
  BY <1>2 DEF first
<1>6. 1 \in 1..1
  OBVIOUS
<1> HIDE DEF n
<1> QED BY <1>1, <1>2, <1>3, <1>4, <1>5, <1>6 DEF n

\* A delta block's words and samples.
LEMMA DeltaIs ==
    ASSUME NEW b \in Blocks, b.kind = "delta"
    PROVE  /\ WordsOf(b) \in Seq(Words) /\ Len(WordsOf(b)) = 2 + PackedLen(Len(b.deltas))
           /\ WordsOf(b)[1] = DeltaBlock + Len(b.deltas) /\ WordsOf(b)[2] = b.value
           /\ \A w \in 1..PackedLen(Len(b.deltas)) : WordsOf(b)[2 + w] = Packed(b.deltas)[w]
           /\ SamplesOf(b) \in Seq(Words) /\ Len(SamplesOf(b)) = Len(b.deltas) + 1
           /\ \A i \in 0..Len(b.deltas) : SamplesOf(b)[i + 1] = Lowered(b.value, b.deltas)[i]
<1> DEFINE n == Len(b.deltas)
           m == PackedLen(n)
           first == <<DeltaBlock + n, b.value>>
           rest == Packed(b.deltas)
           low == Lowered(b.value, b.deltas)
<1>1. b.value \in Words /\ n < DeltaBlock /\ n \in Nat /\ m \in Nat
  <2>1. b.value \in Words /\ b.deltas \in Seq(-16..15) /\ n < DeltaBlock
    BY KindsAre
  <2>2. n \in Nat
    BY <2>1
  <2>3. m \in Nat
    BY <2>2, PackedLenIs
  <2> QED BY <2>1, <2>2, <2>3
<1>0. b.deltas \in Seq(-16..15)
  BY KindsAre
<1>2. first \in Seq(Words) /\ Len(first) = 2 /\ first[1] = DeltaBlock + n /\ first[2] = b.value
  <2>1. DeltaBlock + n \in Words
    BY <1>1, WordsAre, Moduli
  <2> QED BY <1>1, <2>1
<1>3. rest \in Seq(Words) /\ Len(rest) = m
  BY <1>0, PackedIs
<1>4. WordsOf(b) = first \o rest
  BY Moduli DEF WordsOf
<1>5. SamplesOf(b) = [i \in 1..n + 1 |-> low[i - 1]]
  BY DEF SamplesOf
<1>6. \A i \in 0..n : low[i] \in Words
  <2>1. low \in [0..n -> Words]
    BY <1>0, <1>1, LoweredIs
  <2> HIDE DEF low, n
  <2> QED BY <2>1
<1> HIDE DEF first, rest, low, n, m
<1>7. /\ first \o rest \in Seq(Words) /\ Len(first \o rest) = Len(first) + Len(rest)
      /\ \A i \in 1..Len(first) : (first \o rest)[i] = first[i]
      /\ \A j \in 1..Len(rest) : (first \o rest)[Len(first) + j] = rest[j]
  <2>1. first \in Seq(Words) /\ rest \in Seq(Words)
    BY <1>2, <1>3
  <2> QED BY <2>1, Concat
<1>8. 1 \in 1..2 /\ 2 \in 1..2
  OBVIOUS
<1>9. /\ WordsOf(b) \in Seq(Words) /\ Len(WordsOf(b)) = 2 + m
      /\ WordsOf(b)[1] = DeltaBlock + n /\ WordsOf(b)[2] = b.value
      /\ \A w \in 1..m : WordsOf(b)[2 + w] = rest[w]
  BY <1>2, <1>3, <1>4, <1>7, <1>8
<1>10. SamplesOf(b) \in Seq(Words) /\ Len(SamplesOf(b)) = n + 1
  <2>1. n + 1 \in Nat /\ \A i \in 1..n + 1 : i - 1 \in 0..n
    BY <1>1
  <2>2. \A i \in 1..n + 1 : low[i - 1] \in Words
    BY <1>6, <2>1
  <2> QED BY <1>5, <2>1, <2>2
<1>11. \A i \in 0..n : SamplesOf(b)[i + 1] = low[i]
  <2>1. \A i \in 0..n : i + 1 \in 1..n + 1 /\ (i + 1) - 1 = i
    BY <1>1
  <2> QED BY <1>5, <2>1
<1> QED BY <1>9, <1>10, <1>11, Zenon DEF n, m, low, rest

\* Every block has words.
LEMMA BlockIs ==
    ASSUME NEW b \in Blocks
    PROVE  WordsOf(b) \in Seq(Words) /\ Len(WordsOf(b)) >= 1 /\ SamplesOf(b) \in Seq(Words)
<1>1. CASE b.kind = "run"
  BY <1>1, RunIs
<1>2. CASE b.kind = "delta"
  <2>1. b.deltas \in Seq(-16..15)
    BY <1>2, KindsAre
  <2>2. Len(b.deltas) \in Nat
    BY <2>1
  <2> DEFINE m == PackedLen(Len(b.deltas))
  <2>3. m \in Nat
    BY <2>2, PackedLenIs
  <2>4. WordsOf(b) \in Seq(Words) /\ SamplesOf(b) \in Seq(Words) /\ Len(WordsOf(b)) = 2 + m
    BY <1>2, DeltaIs, Zenon
  <2> HIDE DEF m
  <2> QED BY <2>3, <2>4
<1>3. CASE b.kind = "plain"
  <2>1. Len(b.values) \in Nat
    BY <1>3, KindsAre
  <2> QED BY <1>3, <2>1, PlainIs
<1> QED BY <1>1, <1>2, <1>3, KindsAre

\* how many words and samples a recording's first k blocks have
WordsTo(rec, k) == Len(EncodedTo(rec)[k])
SamplesTo(rec, k) == Len(RecordedTo(rec)[k])

\* A recording has words and samples, and so have its first k blocks.
LEMMA RecordingIs ==
    ASSUME NEW rec \in Recordings
    PROVE  /\ rec \in Seq(Blocks) /\ Len(rec) \in Nat
           /\ Encoded(rec) \in Seq(Words) /\ Recorded(rec) \in Seq(Words) /\ Len(Recorded(rec)) > 0
           /\ WordsTo(rec, 0) = 0 /\ SamplesTo(rec, 0) = 0
           /\ WordsTo(rec, Len(rec)) = Len(Encoded(rec)) /\ SamplesTo(rec, Len(rec)) = Len(Recorded(rec))
           /\ \A k \in 0..Len(rec) : /\ WordsTo(rec, k) \in Nat /\ WordsTo(rec, k) <= Len(Encoded(rec))
                                     /\ SamplesTo(rec, k) \in Nat /\ SamplesTo(rec, k) <= Len(Recorded(rec))
<1> DEFINE K == Len(rec)
           ws == [b \in DOMAIN rec |-> WordsOf(rec[b])]
           ss == [b \in DOMAIN rec |-> SamplesOf(rec[b])]
<1>1. rec \in Seq(RunKind \union DeltaKind \union PlainKind)
  BY RecordingsAssumption
<1>2. K \in Nat /\ DOMAIN rec = 1..K /\ \A k \in 1..K : rec[k] \in RunKind \union DeltaKind \union PlainKind
  BY <1>1
<1>3. \A k \in 1..K : rec[k] \in Blocks
  <2> TAKE k \in 1..K
  <2>1. /\ rec[k].kind = "delta" => Len(rec[k].deltas) < DeltaBlock
        /\ rec[k].kind = "plain" => Len(rec[k].values) < DeltaBlock
    BY <1>2, RecordingsAssumption
  <2> QED BY <1>2, <2>1 DEF Blocks
<1>4. rec \in Seq(Blocks)
  <2>1. rec = [k \in 1..K |-> rec[k]]
    BY <1>1
  <2> QED BY <1>2, <1>3, <2>1
<1>5. ws \in Seq(Seq(Words)) /\ Len(ws) = K /\ ss \in Seq(Seq(Words)) /\ Len(ss) = K
  <2>1. \A k \in 1..K : WordsOf(rec[k]) \in Seq(Words) /\ SamplesOf(rec[k]) \in Seq(Words)
    BY <1>3, BlockIs
  <2> QED BY <1>2, <2>1
<1>6. EncodedTo(rec) = Joined(ws) /\ RecordedTo(rec) = Joined(ss)
  BY DEF EncodedTo, RecordedTo
<1> HIDE DEF ws, ss
<1>7. /\ Encoded(rec) = AllOf(ws) /\ Recorded(rec) = AllOf(ss)
  BY <1>5, <1>6 DEF Encoded, Recorded, AllOf
<1>8. /\ \A k \in 0..K : Joined(ws)[k] \in Seq(Words) /\ Len(Joined(ws)[k]) <= Len(AllOf(ws))
      /\ \A k \in 0..K : Joined(ss)[k] \in Seq(Words) /\ Len(Joined(ss)[k]) <= Len(AllOf(ss))
      /\ Joined(ws)[0] = <<>> /\ Joined(ss)[0] = <<>>
  <2>1. \A k \in 0..Len(ws) : Joined(ws)[k] \in Seq(Words) /\ Len(Joined(ws)[k]) <= Len(AllOf(ws))
    BY <1>5, JoinedAt
  <2>2. \A k \in 0..Len(ss) : Joined(ss)[k] \in Seq(Words) /\ Len(Joined(ss)[k]) <= Len(AllOf(ss))
    BY <1>5, JoinedAt
  <2>3. Joined(ws)[0] = <<>>
    BY <1>5, JoinedIs
  <2>4. Joined(ss)[0] = <<>>
    BY <1>5, JoinedIs
  <2> QED BY <1>5, <2>1, <2>2, <2>3, <2>4
<1>9. K \in 0..K /\ 0 \in 0..K
  BY <1>2
<1>10. Encoded(rec) \in Seq(Words) /\ Recorded(rec) \in Seq(Words)
  BY <1>5, <1>7, <1>8, <1>9 DEF AllOf
<1>11. /\ WordsTo(rec, 0) = 0 /\ SamplesTo(rec, 0) = 0
       /\ WordsTo(rec, K) = Len(Encoded(rec)) /\ SamplesTo(rec, K) = Len(Recorded(rec))
  <2>1. Len(<<>>) = 0
    OBVIOUS
  <2> QED BY <1>5, <1>6, <1>7, <1>8, <2>1 DEF WordsTo, SamplesTo, AllOf
<1>12. \A k \in 0..K : /\ WordsTo(rec, k) \in Nat /\ WordsTo(rec, k) <= Len(Encoded(rec))
                       /\ SamplesTo(rec, k) \in Nat /\ SamplesTo(rec, k) <= Len(Recorded(rec))
  BY <1>6, <1>7, <1>8 DEF WordsTo, SamplesTo
<1>13. Len(Recorded(rec)) > 0
  BY RecordingsAssumption
<1> QED BY <1>2, <1>4, <1>10, <1>11, <1>12, <1>13

\* Where a block's words and samples are.
LEMMA BlockAt ==
    ASSUME NEW rec \in Recordings, NEW k \in 1..Len(rec)
    PROVE  /\ rec[k] \in Blocks
           /\ WordsTo(rec, k) = WordsTo(rec, k - 1) + Len(WordsOf(rec[k]))
           /\ SamplesTo(rec, k) = SamplesTo(rec, k - 1) + Len(SamplesOf(rec[k]))
           /\ \A i \in 1..Len(WordsOf(rec[k])) : Encoded(rec)[WordsTo(rec, k - 1) + i] = WordsOf(rec[k])[i]
           /\ \A i \in 1..Len(SamplesOf(rec[k])) : Recorded(rec)[SamplesTo(rec, k - 1) + i] = SamplesOf(rec[k])[i]
<1> DEFINE K == Len(rec)
           ws == [b \in DOMAIN rec |-> WordsOf(rec[b])]
           ss == [b \in DOMAIN rec |-> SamplesOf(rec[b])]
<1>1. rec \in Seq(Blocks) /\ K \in Nat
  BY RecordingIs
<1>2. DOMAIN rec = 1..K /\ \A i \in 1..K : rec[i] \in Blocks
  BY <1>1
<1>3. ws \in Seq(Seq(Words)) /\ Len(ws) = K /\ ss \in Seq(Seq(Words)) /\ Len(ss) = K
  <2>1. \A i \in 1..K : WordsOf(rec[i]) \in Seq(Words) /\ SamplesOf(rec[i]) \in Seq(Words)
    BY <1>2, BlockIs
  <2> QED BY <1>1, <1>2, <2>1
<1>4. EncodedTo(rec) = Joined(ws) /\ RecordedTo(rec) = Joined(ss)
  BY DEF EncodedTo, RecordedTo
<1>5. ws[k] = WordsOf(rec[k]) /\ ss[k] = SamplesOf(rec[k])
  BY <1>2
<1> HIDE DEF ws, ss
<1>6. /\ Encoded(rec) = AllOf(ws) /\ Recorded(rec) = AllOf(ss)
  BY <1>3, <1>4 DEF Encoded, Recorded, AllOf
<1>7. /\ Len(Joined(ws)[k]) = Len(Joined(ws)[k - 1]) + Len(ws[k])
      /\ \A i \in 1..Len(ws[k]) : AllOf(ws)[Len(Joined(ws)[k - 1]) + i] = ws[k][i]
  <2>1. k \in 1..Len(ws)
    BY <1>3
  <2> QED BY <1>3, <2>1, JoinedParts
<1>8. /\ Len(Joined(ss)[k]) = Len(Joined(ss)[k - 1]) + Len(ss[k])
      /\ \A i \in 1..Len(ss[k]) : AllOf(ss)[Len(Joined(ss)[k - 1]) + i] = ss[k][i]
  <2>1. k \in 1..Len(ss)
    BY <1>3
  <2> QED BY <1>3, <2>1, JoinedParts
<1> QED BY <1>2, <1>4, <1>5, <1>6, <1>7, <1>8 DEF WordsTo, SamplesTo

-----------------------------------------------------------------------------
(* Decoding *)

\* The decoder's variables have their types, and it reads nothing past the words.
Bounded ==
    /\ encoded \in Seq(Words) /\ samples \in Seq(Words)
    /\ maxSamples \in Nat /\ Len(samples) <= maxSamples
    /\ pos \in Nat /\ 1 <= pos /\ pos <= Len(encoded) + 1
    /\ value \in Words
    /\ count \in Nat /\ count < DeltaBlock
    /\ at = "delta" => count > 0

Prefix(s, t) == Len(s) <= Len(t) /\ \A i \in 1..Len(s) : s[i] = t[i]

\* The decoder stands where a block of the recording ends, or begins.
AtBlock ==
    \E k \in 0..Len(recording) :
        /\ pos = 1 + WordsTo(recording, k)
        /\ Len(samples) = SamplesTo(recording, k)

\* The decoder stands in a delta block, with 3*m of its deltas taken.
InDeltaBlock(k, m) ==
    /\ recording[k].kind = "delta"
    /\ 3*m < Len(recording[k].deltas)
    /\ pos = WordsTo(recording, k - 1) + 3 + m
    /\ Len(samples) = SamplesTo(recording, k - 1) + 1 + 3*m
    /\ value = Lowered(recording[k].value, recording[k].deltas)[3*m]
    /\ count = Len(recording[k].deltas) - 3*m

\* What is decoded are the recording's first words, and what it made of them are
\* its first samples.
Tracked ==
    /\ Prefix(encoded, Encoded(recording))
    /\ Prefix(samples, Recorded(recording))
    /\ maxSamples = Len(Recorded(recording))
    /\ at = "lead" => AtBlock
    /\ at = "delta" => \E k \in 1..Len(recording), m \in Nat : InDeltaBlock(k, m)
    /\ at = "returned" /\ Len(encoded) = Len(Encoded(recording))
          => Len(samples) = Len(Recorded(recording))
    /\ at = "raised" => Len(encoded) < Len(Encoded(recording))

\* What is appended to a prefix, where the whole goes on with it, is a prefix.
LEMMA Extended ==
    ASSUME NEW s \in Seq(Words), NEW t \in Seq(Words), NEW whole \in Seq(Words),
           Prefix(s, whole), Len(s) + Len(t) <= Len(whole),
           \A i \in 1..Len(t) : whole[Len(s) + i] = t[i]
    PROVE  Prefix(s \o t, whole)
<1>1. /\ Len(s \o t) = Len(s) + Len(t)
      /\ \A i \in 1..Len(s) : (s \o t)[i] = s[i]
      /\ \A j \in 1..Len(t) : (s \o t)[Len(s) + j] = t[j]
  BY Concat
<1>2. Len(s) \in Nat /\ Len(t) \in Nat
  OBVIOUS
<1> DEFINE st == s \o t
<1> HIDE DEF st
<1>3. ASSUME NEW i \in 1..Len(s) + Len(t) PROVE st[i] = whole[i]
  <2>1. CASE i <= Len(s)
    <3>1. i \in 1..Len(s)
      BY <1>2, <2>1
    <3> QED BY <1>1, <3>1 DEF Prefix, st
  <2>2. CASE ~(i <= Len(s))
    <3> DEFINE j == i - Len(s)
    <3>1. j \in 1..Len(t) /\ Len(s) + j = i
      BY <1>2, <2>2
    <3> HIDE DEF j
    <3>2. st[Len(s) + j] = t[j] /\ whole[Len(s) + j] = t[j]
      BY <1>1, <3>1 DEF st
    <3> QED BY <3>1, <3>2
  <2> QED BY <2>1, <2>2
<1>4. Len(st) = Len(s) + Len(t)
  BY <1>1 DEF st
<1>5. Prefix(st, whole)
  BY <1>3, <1>4 DEF Prefix
<1> QED BY <1>5 DEF st

\* A delta block's first word is none of the others'.
LEMMA DeltaRange ==
    ASSUME NEW w \in Int
    PROVE  w \in DeltaBlock..NegativeFrom-1 <=> DeltaBlock <= w /\ w < NegativeFrom
<1>1. DeltaBlock \in Int /\ NegativeFrom \in Int
  BY Moduli
<1> QED BY <1>1

\* Which words can begin which block.
LEMMA LeadIs ==
    ASSUME NEW b \in Blocks
    PROVE  /\ b.kind = "run" <=> WordsOf(b)[1] >= NegativeFrom
           /\ b.kind = "delta" <=> WordsOf(b)[1] \in DeltaBlock..NegativeFrom-1
           /\ b.kind = "plain" <=> WordsOf(b)[1] < DeltaBlock
<1> DEFINE w == WordsOf(b)[1]
<1>1. CASE b.kind = "run"
  <2>1. w = 65536 - b.len /\ b.len \in Int /\ 1 <= b.len /\ b.len <= 32768
    BY <1>1, RunIs, KindsAre
  <2> HIDE DEF w
  <2>2. w \in Int /\ w >= 32768
    BY <2>1
  <2>3. w >= NegativeFrom /\ ~(w \in DeltaBlock..NegativeFrom-1) /\ ~(w < DeltaBlock)
    <3>1. w >= NegativeFrom /\ ~(w < DeltaBlock) /\ ~(w < NegativeFrom)
      BY <2>2, Moduli
    <3> QED BY <2>2, <3>1, DeltaRange
  <2>4. b.kind # "delta" /\ b.kind # "plain"
    BY <1>1
  <2> QED BY <1>1, <2>3, <2>4, Zenon DEF w
<1>2. CASE b.kind = "delta"
  <2>1. w = DeltaBlock + Len(b.deltas) /\ Len(b.deltas) < DeltaBlock
    BY <1>2, DeltaIs, KindsAre
  <2>2. b.deltas \in Seq(-16..15)
    BY <1>2, KindsAre
  <2>3. Len(b.deltas) \in Nat
    BY <2>2
  <2> HIDE DEF w
  <2>4. w \in Int /\ w >= 16384 /\ w < 32768
    BY <2>1, <2>3, Moduli
  <2>5. ~(w >= NegativeFrom) /\ w \in DeltaBlock..NegativeFrom-1 /\ ~(w < DeltaBlock)
    <3>1. w \in Int /\ (w >= NegativeFrom <=> ~(w < NegativeFrom))
      BY <2>4, Moduli
    <3>2. (w < NegativeFrom) /\ (w < DeltaBlock <=> ~(DeltaBlock <= w)) /\ DeltaBlock <= w
      BY <2>4, Moduli
    <3> QED BY <3>1, <3>2, DeltaRange
  <2>6. b.kind # "run" /\ b.kind # "plain"
    BY <1>2
  <2> QED BY <1>2, <2>5, <2>6, Zenon DEF w
<1>3. CASE b.kind = "plain"
  <2>1. w = Len(b.values) /\ Len(b.values) < 16384 /\ b.values \in Seq(Words)
    BY <1>3, PlainIs, KindsAre
  <2>2. Len(b.values) \in Nat
    BY <2>1
  <2> HIDE DEF w
  <2>4. w \in Int /\ w < 16384
    BY <2>1, <2>2
  <2>5. ~(w >= NegativeFrom) /\ ~(w \in DeltaBlock..NegativeFrom-1) /\ w < DeltaBlock
    <3>1. w \in Int /\ (w >= NegativeFrom <=> ~(w < NegativeFrom))
      BY <2>4, Moduli
    <3>2. (w < NegativeFrom) /\ (w < DeltaBlock <=> ~(DeltaBlock <= w)) /\ w < DeltaBlock
      BY <2>4, Moduli
    <3> QED BY <3>1, <3>2, DeltaRange
  <2>6. b.kind # "run" /\ b.kind # "delta"
    BY <1>3
  <2> QED BY <1>3, <2>5, <2>6, Zenon DEF w
<1> QED BY <1>1, <1>2, <1>3, KindsAre

\* The decoder stands at the k-th block's first word, and this is what is left of it.
LeadAt(k) ==
    /\ recording[k] \in Blocks
    /\ pos = 1 + WordsTo(recording, k - 1)
    /\ Len(samples) = SamplesTo(recording, k - 1)
    /\ WordsTo(recording, k) = pos - 1 + Len(WordsOf(recording[k]))
    /\ WordsTo(recording, k) <= Len(Encoded(recording))
    /\ SamplesTo(recording, k) = Len(samples) + Len(SamplesOf(recording[k]))
    /\ SamplesTo(recording, k) <= maxSamples
    /\ \A i \in 1..Len(WordsOf(recording[k])) :
          pos - 1 + i <= Len(encoded) => encoded[pos - 1 + i] = WordsOf(recording[k])[i]
    /\ \A i \in 1..Len(SamplesOf(recording[k])) :
          Recorded(recording)[Len(samples) + i] = SamplesOf(recording[k])[i]

\* At a block's first word there is one.
LEMMA Lead ==
    ASSUME recording \in Recordings, Bounded, Tracked, at = "lead", ~Ended
    PROVE  \E k \in 1..Len(recording) : LeadAt(k) /\ encoded[pos] = WordsOf(recording[k])[1]
<1> DEFINE K == Len(recording)
           E == Encoded(recording)
           W(k) == WordsTo(recording, k)
           S(k) == SamplesTo(recording, k)
<1>1. /\ K \in Nat /\ W(K) = Len(E)
      /\ \A k \in 0..K : W(k) \in Nat /\ W(k) <= Len(E) /\ S(k) \in Nat /\ S(k) <= Len(Recorded(recording))
      /\ Len(E) \in Nat
  BY RecordingIs
<1>2. PICK k \in 0..K : pos = 1 + W(k) /\ Len(samples) = S(k)
  BY DEF Tracked, AtBlock
<1>3. pos <= Len(encoded) /\ Len(encoded) \in Nat /\ pos \in Nat /\ Len(encoded) <= Len(E)
  BY DEF Bounded, Ended, Tracked, Prefix
<1>4. \A i \in 1..Len(encoded) : encoded[i] = E[i]
  BY DEF Tracked, Prefix
<1>5. maxSamples = Len(Recorded(recording))
  BY DEF Tracked
<1> DEFINE b == recording[k + 1]
<1>6. k + 1 \in 1..K /\ (k + 1) - 1 = k
  <2> HIDE DEF W, E, K
  <2>1. k # K
    BY <1>1, <1>2, <1>3
  <2> QED BY <1>1, <2>1
<1>7. /\ b \in Blocks
      /\ W(k + 1) = W(k) + Len(WordsOf(b))
      /\ S(k + 1) = S(k) + Len(SamplesOf(b))
      /\ \A i \in 1..Len(WordsOf(b)) : E[W(k) + i] = WordsOf(b)[i]
      /\ \A i \in 1..Len(SamplesOf(b)) : Recorded(recording)[S(k) + i] = SamplesOf(b)[i]
  BY <1>6, BlockAt
<1>8. W(k + 1) <= Len(E) /\ S(k + 1) <= maxSamples
  <2>1. k + 1 \in 0..K
    BY <1>1, <1>6
  <2> HIDE DEF W, S, K, E
  <2> QED BY <1>1, <1>5, <2>1
<1>9. Len(WordsOf(b)) \in Nat
  BY <1>7, BlockIs
<1>10. W(k) \in Nat
  BY <1>1
<1> HIDE DEF W, S, E, b
<1>11. ASSUME NEW i \in 1..Len(WordsOf(b)), pos - 1 + i <= Len(encoded)
       PROVE  encoded[pos - 1 + i] = WordsOf(b)[i]
  <2>1. pos - 1 + i = W(k) + i /\ W(k) + i \in 1..Len(encoded)
    BY <1>2, <1>3, <1>9, <1>10, <1>11
  <2> QED BY <1>4, <1>7, <2>1
<1>12. W(k + 1) = pos - 1 + Len(WordsOf(b))
  BY <1>2, <1>7, <1>9, <1>10
<1>14. encoded[pos] = WordsOf(b)[1]
  <2>1. Len(WordsOf(b)) >= 1
    BY <1>7, BlockIs
  <2>2. 1 \in 1..Len(WordsOf(b)) /\ pos - 1 + 1 = pos
    BY <1>3, <1>9, <2>1
  <2>3. encoded[pos - 1 + 1] = WordsOf(b)[1]
    BY <1>3, <1>11, <2>2
  <2> QED BY <2>2, <2>3
<1>15. LeadAt(k + 1)
  BY <1>2, <1>6, <1>7, <1>8, <1>11, <1>12 DEF W, S, E, b, LeadAt
<1>13. k + 1 \in 1..Len(recording)
  BY <1>6
<1> WITNESS k + 1 \in 1..Len(recording)
<1> QED BY <1>14, <1>15 DEF b

\* A delta is a number, whatever the word.
LEMMA FieldIs ==
    ASSUME NEW w \in Words, NEW k \in {1, 2, 3}
    PROVE  Delta(w, k) \in Int
<1>1. w \in Int /\ 2^10 \in Int /\ 2^5 \in Int /\ 2^10 = 1024 /\ 2^5 = 32
  BY WordsAre, Powers
<1>2. Field(w, 1) = w \div 1024 /\ Field(w, 2) = (w \div 32) % 32 /\ Field(w, 3) = w % 32
  BY <1>1 DEF Field
<1>3. Field(w, k) \in Int
  BY <1>1, <1>2
<1> QED BY <1>3 DEF Delta

\* the three samples a word of a delta block gives
Three(v, w) ==
    LET v1 == Below(v, Delta(w, 1))
        v2 == Below(v1, Delta(w, 2))
    IN  <<v1, v2, Below(v2, Delta(w, 3))>>

\* The three samples are words, each below the one before.
LEMMA ThreeAre ==
    ASSUME NEW v \in Words, NEW w \in Words
    PROVE  /\ Three(v, w) \in Seq(Words) /\ Len(Three(v, w)) = 3
           /\ Three(v, w)[1] = Below(v, Delta(w, 1))
           /\ Three(v, w)[2] = Below(Three(v, w)[1], Delta(w, 2))
           /\ Three(v, w)[3] = Below(Three(v, w)[2], Delta(w, 3))
<1> DEFINE v1 == Below(v, Delta(w, 1))
           v2 == Below(v1, Delta(w, 2))
           v3 == Below(v2, Delta(w, 3))
<1>0. 1 \in {1, 2, 3} /\ 2 \in {1, 2, 3} /\ 3 \in {1, 2, 3}
  OBVIOUS
<1>1. Delta(w, 1) \in Int /\ Delta(w, 2) \in Int /\ Delta(w, 3) \in Int
  BY <1>0, FieldIs
<1>2. v \in Int /\ \A u \in Words : u \in Int
  BY WordsAre
<1>3. v1 \in Words
  BY <1>1, <1>2, BelowIs
<1>4. v2 \in Words
  <2> HIDE DEF v1
  <2> QED BY <1>1, <1>2, <1>3, BelowIs
<1>5. v3 \in Words
  <2> HIDE DEF v2
  <2> QED BY <1>1, <1>2, <1>4, BelowIs
<1>6. Three(v, w) = <<v1, v2, v3>>
  BY DEF Three
<1>7. /\ v2 = Below(v1, Delta(w, 2)) /\ v3 = Below(v2, Delta(w, 3))
  OBVIOUS
<1> HIDE DEF v2, v3
<1> QED BY <1>3, <1>4, <1>5, <1>6, <1>7

\* DeltaWord with its LET unfolded.
LEMMA DeltaWordIs ==
    ASSUME DeltaWord, Bounded, ~Ended
    PROVE  /\ at = "delta"
           /\ samples' = samples \o SubSeq(Three(value, encoded[pos]), 1, Least(Taken, maxSamples - Len(samples)))
           /\ value' = Three(value, encoded[pos])[Taken]
           /\ count' = count - Taken
           /\ at' = IF count' > 0 THEN "delta" ELSE "lead"
           /\ pos' = pos + 1 /\ encoded' = encoded /\ maxSamples' = maxSamples
           /\ encoded[pos] \in Words
           /\ Taken \in {1, 2, 3} /\ Taken <= count
           /\ count > 3 => Taken = 3
           /\ count <= 3 => Taken = count
<1>1. /\ at = "delta"
      /\ samples' = samples \o SubSeq(Three(value, encoded[pos]), 1, Least(Taken, maxSamples - Len(samples)))
      /\ value' = Three(value, encoded[pos])[Taken]
      /\ count' = count - Taken
      /\ at' = IF count' > 0 THEN "delta" ELSE "lead"
      /\ pos' = pos + 1 /\ encoded' = encoded /\ maxSamples' = maxSamples
  BY Zenon DEF DeltaWord, Three, Continue
<1>2. encoded[pos] \in Words
  BY DEF Bounded, Ended
<1>3. count \in Nat /\ count > 0
  BY <1>1 DEF Bounded
<1>4. Taken = IF 3 < count THEN 3 ELSE count
  BY DEF Taken, Least, DeltasPerWord
<1>5. Taken \in {1, 2, 3} /\ Taken <= count /\ (count > 3 => Taken = 3) /\ (count <= 3 => Taken = count)
  BY <1>3, <1>4
<1> QED BY <1>1, <1>2, <1>5, Zenon

\* A sequence's n elements from the a-th on.
LEMMA SubSeqIs ==
    ASSUME NEW s \in Seq(Words), NEW a \in 1..Len(s)+1, NEW n \in Nat, a + n - 1 <= Len(s)
    PROVE  /\ SubSeq(s, a, (a + n) - 1) \in Seq(Words)
           /\ Len(SubSeq(s, a, (a + n) - 1)) = n
           /\ \A i \in 1..n : SubSeq(s, a, (a + n) - 1)[i] = s[(a - 1) + i]
<1>1. Len(s) \in Nat /\ a \in Nat /\ a >= 1 /\ a - 1 \in Nat
  OBVIOUS
<1>2. SubSeq(s, a, (a + n) - 1) = [i \in 1..n |-> s[(a - 1) + i]]
  <2>1. (a + n) - 1 \in Int /\ ((a + n) - 1) - a + 1 = n
    BY <1>1
  <2> QED BY <1>1, <2>1
<1>3. \A i \in 1..n : (a - 1) + i \in 1..Len(s)
  BY <1>1
<1> QED BY <1>2, <1>3

\* Appending keeps the samples within their number.
LEMMA Fitting ==
    ASSUME NEW s \in Seq(Words), NEW t \in Seq(Words)
    PROVE  /\ s \o t \in Seq(Words) /\ Len(s \o t) = Len(s) + Len(t)
           /\ Len(s) \in Nat /\ Len(t) \in Nat
BY Concat

\* A run that fits is appended.
LEMMA RunStep ==
    ASSUME Bounded, RunBlock, pos # Len(encoded), Fits(RunLength(encoded[pos]))
    PROVE  LET t == [i \in 1..RunLength(encoded[pos]) |-> encoded[pos + 1]]
           IN  /\ samples' = samples \o t
               /\ pos' = pos + 2 /\ UNCHANGED <<at, encoded, maxSamples, value, count>>
               /\ t \in Seq(Words) /\ Len(t) = RunLength(encoded[pos]) /\ pos + 1 <= Len(encoded)
<1> DEFINE n == RunLength(encoded[pos])
           t == [i \in 1..n |-> encoded[pos + 1]]
<1>1. pos \in Nat /\ Len(encoded) \in Nat /\ pos <= Len(encoded) /\ encoded[pos] \in Words
  BY DEF Bounded, RunBlock, Ended
<1>2. pos + 1 <= Len(encoded) /\ encoded[pos + 1] \in Words
  BY <1>1 DEF Bounded
<1>3. n \in Nat
  <2>1. encoded[pos] \in Int /\ encoded[pos] < 65536
    BY <1>1, WordsAre
  <2> QED BY <2>1, Moduli DEF RunLength
<1>4. samples' = samples \o t /\ pos' = pos + 2 /\ UNCHANGED <<at, encoded, maxSamples, value, count>>
  BY DEF RunBlock, Continue
<1> HIDE DEF n
<1>5. t \in Seq(Words) /\ Len(t) = n
  BY <1>2, <1>3
<1> QED BY <1>2, <1>4, <1>5 DEF n

\* Whatever the words, a step of the decoder keeps its types and bounds.
LEMMA BoundedStep ==
    ASSUME Bounded, DecodeStep
    PROVE  Bounded'
<1> DEFINE Typed == /\ encoded \in Seq(Words) /\ samples \in Seq(Words)
                    /\ maxSamples \in Nat /\ Len(samples) <= maxSamples
                    /\ pos \in Nat /\ 1 <= pos /\ pos <= Len(encoded) + 1
                    /\ value \in Words /\ count \in Nat /\ count < DeltaBlock
<1>0. Typed /\ Len(encoded) \in Nat /\ Len(samples) \in Nat
  BY DEF Bounded
<1>1. CASE UNCHANGED <<encoded, maxSamples, pos, samples, value, count>> /\ at' # "delta"
  BY <1>1 DEF Bounded
<1>2. CASE End
  BY <1>1, <1>2 DEF End, Return
<1>3. CASE RunBlock
  <2>1. CASE pos = Len(encoded) \/ ~Fits(RunLength(encoded[pos]))
    BY <1>1, <1>3, <2>1 DEF RunBlock, Return, RaiseError
  <2>2. CASE pos # Len(encoded) /\ Fits(RunLength(encoded[pos]))
    <3> DEFINE n == RunLength(encoded[pos])
               t == [i \in 1..n |-> encoded[pos + 1]]
    <3>1. /\ samples' = samples \o t
          /\ pos' = pos + 2 /\ UNCHANGED <<at, encoded, maxSamples, value, count>>
          /\ t \in Seq(Words) /\ Len(t) = n /\ pos + 1 <= Len(encoded)
      BY <1>3, <2>2, RunStep
    <3>2. Len(samples) + n <= maxSamples /\ at = "lead"
      BY <1>3, <2>2 DEF Fits, RunBlock
    <3> HIDE DEF t, n
    <3>3. samples \o t \in Seq(Words) /\ Len(samples \o t) = Len(samples) + Len(t)
      BY <1>0, <3>1, Concat
    <3> QED BY <1>0, <3>1, <3>2, <3>3 DEF Bounded
  <2> QED BY <2>1, <2>2
<1>4. CASE StartDelta
  <2>1. CASE pos = Len(encoded) \/ ~Fits(1)
    BY <1>1, <1>4, <2>1 DEF StartDelta, Return, RaiseError
  <2>2. CASE pos # Len(encoded) /\ Fits(1)
    <3>1. /\ value' = encoded[pos + 1]
          /\ samples' = Append(samples, value')
          /\ count' = encoded[pos] - DeltaBlock
          /\ at' = IF count' > 0 THEN "delta" ELSE "lead"
          /\ pos' = pos + 2 /\ UNCHANGED <<encoded, maxSamples>>
          /\ encoded[pos] \in DeltaBlock..NegativeFrom-1
          /\ ~Ended
      BY <1>4, <2>2 DEF StartDelta, Continue
    <3>2. pos + 1 <= Len(encoded) /\ encoded[pos + 1] \in Words /\ encoded[pos] \in Words
      BY <1>0, <2>2, <3>1 DEF Ended
    <3>3. encoded[pos] \in Int /\ DeltaBlock <= encoded[pos] /\ encoded[pos] < NegativeFrom
      <4>1. encoded[pos] \in Int
        BY <3>2, WordsAre
      <4> QED BY <3>1, <4>1, DeltaRange
    <3>4. count' \in Nat /\ count' < DeltaBlock
      <4> DEFINE w == encoded[pos]
                 c == count'
      <4>1. w \in Int /\ 16384 <= w /\ w < 32768
        BY <3>3, Moduli
      <4>0. c = w - DeltaBlock
        BY <3>1, Zenon
      <4> HIDE DEF w, c
      <4>2. c = w - 16384
        BY <4>0, Moduli
      <4>3. c \in Nat /\ c < 16384
        BY <4>1, <4>2
      <4> QED BY <4>3, Moduli DEF c
    <3>5. samples' \in Seq(Words) /\ Len(samples') = Len(samples) + 1
      BY <1>0, <3>1, <3>2
    <3>6. Len(samples) + 1 <= maxSamples
      BY <2>2 DEF Fits
    <3>7. at' = "delta" => count' > 0
      BY <3>1
    <3> QED BY <1>0, <3>1, <3>2, <3>4, <3>5, <3>6, <3>7 DEF Bounded
  <2> QED BY <2>1, <2>2
<1>5. CASE DeltaWord
  <2>1. CASE Ended
    BY <1>1, <1>5, <2>1 DEF DeltaWord, RaiseError
  <2>2. CASE ~Ended
    <3> DEFINE three == Three(value, encoded[pos])
               room == Least(Taken, maxSamples - Len(samples))
               t == SubSeq(three, 1, room)
    <3>1. /\ samples' = samples \o t
          /\ value' = three[Taken]
          /\ count' = count - Taken
          /\ at' = IF count' > 0 THEN "delta" ELSE "lead"
          /\ pos' = pos + 1 /\ encoded' = encoded /\ maxSamples' = maxSamples
          /\ encoded[pos] \in Words
          /\ Taken \in {1, 2, 3} /\ Taken <= count
      BY <1>5, <2>2, DeltaWordIs
    <3>2. three \in Seq(Words) /\ Len(three) = 3
      BY <1>0, <3>1, ThreeAre
    <3>3. room \in Nat /\ room <= 3 /\ room <= maxSamples - Len(samples)
      <4>1. room = IF Taken < maxSamples - Len(samples) THEN Taken ELSE maxSamples - Len(samples)
        BY DEF Least
      <4>2. maxSamples - Len(samples) \in Nat
        BY <1>0
      <4> HIDE DEF room
      <4> QED BY <3>1, <4>1, <4>2
    <3> HIDE DEF three, room
    <3>4. t \in Seq(Words) /\ Len(t) = room
      <4>1. (1 + room) - 1 = room /\ 1 + room - 1 <= Len(three) /\ 1 \in 1..Len(three)+1
        BY <3>2, <3>3
      <4>2. /\ SubSeq(three, 1, (1 + room) - 1) \in Seq(Words)
            /\ Len(SubSeq(three, 1, (1 + room) - 1)) = room
        BY <3>2, <3>3, <4>1, SubSeqIs
      <4> QED BY <4>1, <4>2
    <3> HIDE DEF t
    <3>5. samples \o t \in Seq(Words) /\ Len(samples \o t) = Len(samples) + Len(t)
      BY <1>0, <3>4, Concat
    <3>6. three[Taken] \in Words
      <4>1. \A i \in {1, 2, 3} : three[i] \in Words
        BY <3>2
      <4>2. Taken \in {1, 2, 3}
        BY <3>1
      <4> QED BY <4>1, <4>2, Zenon
    <3>7. count' \in Nat /\ count' < DeltaBlock
      BY <1>0, <3>1, Moduli
    <3>8. pos' <= Len(encoded) + 1
      BY <1>0, <2>2, <3>1 DEF Ended
    <3>9. at' = "delta" => count' > 0
      BY <3>1
    <3>10. Len(samples) + room <= maxSamples
      BY <1>0, <3>3
    <3> QED BY <1>0, <3>1, <3>4, <3>5, <3>6, <3>7, <3>8, <3>9, <3>10 DEF Bounded
  <2> QED BY <2>1, <2>2
<1>6. CASE PlainBlock
  <2> DEFINE n == encoded[pos]
  <2>1. CASE ~Fits(n) \/ pos + n > Len(encoded)
    BY <1>1, <1>6, <2>1 DEF PlainBlock, Return, RaiseError
  <2>2. CASE Fits(n) /\ ~(pos + n > Len(encoded))
    <3> DEFINE t == SubSeq(encoded, pos + 1, pos + n)
    <3>1. /\ samples' = samples \o t
          /\ pos' = pos + (1 + n) /\ UNCHANGED <<at, encoded, maxSamples, value, count>>
          /\ at = "lead" /\ ~Ended
      BY <1>6, <2>2 DEF PlainBlock, Continue
    <3>2. n \in Nat /\ pos + n <= Len(encoded)
      <4>1. n \in Words
        BY <1>0, <3>1 DEF Ended
      <4>2. n \in Nat
        BY <4>1, WordsAre
      <4> HIDE DEF n
      <4> QED BY <1>0, <2>2, <4>2
    <3> HIDE DEF n
    <3>3. t \in Seq(Words) /\ Len(t) = n
      <4>1. ((pos + 1) + n) - 1 = pos + n /\ (pos + 1) + n - 1 <= Len(encoded) /\ pos + 1 \in 1..Len(encoded)+1
        BY <1>0, <3>2
      <4>2. /\ SubSeq(encoded, pos + 1, ((pos + 1) + n) - 1) \in Seq(Words)
            /\ Len(SubSeq(encoded, pos + 1, ((pos + 1) + n) - 1)) = n
        BY <1>0, <3>2, <4>1, SubSeqIs
      <4> QED BY <4>1, <4>2
    <3> HIDE DEF t
    <3>4. samples \o t \in Seq(Words) /\ Len(samples \o t) = Len(samples) + Len(t)
      BY <1>0, <3>3, Concat
    <3>5. Len(samples) + n <= maxSamples
      BY <2>2 DEF Fits
    <3> QED BY <1>0, <3>1, <3>2, <3>3, <3>4, <3>5 DEF Bounded
  <2> QED BY <2>1, <2>2
<1> QED BY <1>2, <1>3, <1>4, <1>5, <1>6 DEF DecodeStep

\* the recording, the words and the number of samples stay
Same == UNCHANGED <<recording, encoded, maxSamples>>

\* A step to the next block.
LEMMA ToBlock ==
    ASSUME Tracked, Same, at' = "lead",
           Prefix(samples', Recorded(recording)),
           NEW k \in 0..Len(recording),
           pos' = 1 + WordsTo(recording, k), Len(samples') = SamplesTo(recording, k)
    PROVE  Tracked'
<1>1. recording' = recording /\ encoded' = encoded /\ maxSamples' = maxSamples
  BY DEF Same
<1>2. AtBlock'
  BY <1>1 DEF AtBlock
<1>3. Prefix(samples, Recorded(recording))'
  BY <1>1
<1>4. Prefix(encoded, Encoded(recording))' /\ (maxSamples = Len(Recorded(recording)))'
  BY <1>1 DEF Tracked
<1> QED BY <1>2, <1>3, <1>4 DEF Tracked

\* A step into, or on in, a delta block.
LEMMA ToDelta ==
    ASSUME Tracked, Same, at' = "delta",
           Prefix(samples', Recorded(recording)),
           NEW k \in 1..Len(recording), NEW m \in Nat, InDeltaBlock(k, m)'
    PROVE  Tracked'
<1>1. recording' = recording /\ encoded' = encoded /\ maxSamples' = maxSamples
  BY DEF Same
<1>2. (\E j \in 1..Len(recording), n \in Nat : InDeltaBlock(j, n))'
  BY <1>1
<1>3. Prefix(samples, Recorded(recording))'
  BY <1>1
<1>4. Prefix(encoded, Encoded(recording))' /\ (maxSamples = Len(Recorded(recording)))'
  BY <1>1 DEF Tracked
<1> QED BY <1>2, <1>3, <1>4 DEF Tracked

\* A step that returns or raises.
LEMMA Stopping ==
    ASSUME Tracked, Same, samples' = samples,
           at' \in {"returned", "raised"},
           at' = "returned" /\ Len(encoded) = Len(Encoded(recording))
              => Len(samples) = Len(Recorded(recording)),
           at' = "raised" => Len(encoded) < Len(Encoded(recording))
    PROVE  Tracked'
<1>1. recording' = recording /\ encoded' = encoded /\ maxSamples' = maxSamples
  BY DEF Same
<1>2. /\ Prefix(samples, Recorded(recording))'
      /\ Prefix(encoded, Encoded(recording))' /\ (maxSamples = Len(Recorded(recording)))'
  BY <1>1 DEF Tracked
<1>3. /\ (at = "returned" /\ Len(encoded) = Len(Encoded(recording)) => Len(samples) = Len(Recorded(recording)))'
      /\ (at = "raised" => Len(encoded) < Len(Encoded(recording)))'
  BY <1>1
<1>4. at' # "lead" /\ at' # "delta"
  OBVIOUS
<1> QED BY <1>2, <1>3, <1>4 DEF Tracked

\* At the last word's end all blocks have been decoded.
LEMMA EndTracked ==
    ASSUME recording \in Recordings, Bounded, Tracked, End, recording' = recording
    PROVE  Tracked'
<1>1. at = "lead" /\ Ended /\ at' = "returned" /\ Same /\ samples' = samples
  BY DEF End, Return, Same
<1> DEFINE K == Len(recording)
           E == Encoded(recording)
           W(k) == WordsTo(recording, k)
           S(k) == SamplesTo(recording, k)
<1>2. ASSUME Len(encoded) = Len(E) PROVE Len(samples) = Len(Recorded(recording))
  <2>1. PICK k \in 0..K : pos = 1 + W(k) /\ Len(samples) = S(k)
    BY <1>1 DEF Tracked, AtBlock
  <2>2. /\ K \in Nat /\ W(K) = Len(E) /\ S(K) = Len(Recorded(recording))
        /\ Len(E) \in Nat
        /\ \A j \in 0..K : W(j) \in Nat /\ W(j) <= Len(E)
    BY RecordingIs
  <2>3. pos > Len(E)
    BY <1>1, <1>2 DEF Ended
  <2>4. CASE k = K
    BY <2>1, <2>2, <2>4
  <2>5. CASE k # K
    <3>1. k + 1 \in 1..K /\ (k + 1) - 1 = k /\ k + 1 \in 0..K
      BY <2>2, <2>5
    <3>2. W(k + 1) = W(k) + Len(WordsOf(recording[k + 1])) /\ recording[k + 1] \in Blocks
      BY <3>1, BlockAt
    <3>3. Len(WordsOf(recording[k + 1])) >= 1 /\ Len(WordsOf(recording[k + 1])) \in Nat
      BY <3>2, BlockIs
    <3>4. W(k) \in Nat /\ W(k + 1) <= Len(E)
      BY <3>1, <2>2
    <3> HIDE DEF W, E, S
    <3> QED BY <2>1, <2>2, <2>3, <3>2, <3>3, <3>4
  <2> QED BY <2>4, <2>5
<1> QED BY <1>1, <1>2, Stopping

\* A run block of a recording gives its samples, or is not there whole.
LEMMA RunTracked ==
    ASSUME recording \in Recordings, Bounded, Tracked, RunBlock, recording' = recording
    PROVE  Tracked'
<1> DEFINE n == RunLength(encoded[pos])
           R == Recorded(recording)
<1>1. at = "lead" /\ ~Ended /\ encoded[pos] >= NegativeFrom
  BY DEF RunBlock
<1>2. PICK k \in 1..Len(recording) : LeadAt(k) /\ encoded[pos] = WordsOf(recording[k])[1]
  BY <1>1, Lead
<1> DEFINE b == recording[k]
           w == WordsOf(b)
<1>0. /\ b \in Blocks
      /\ Len(samples) = SamplesTo(recording, k - 1)
      /\ WordsTo(recording, k) = pos - 1 + Len(w)
      /\ WordsTo(recording, k) <= Len(Encoded(recording))
      /\ SamplesTo(recording, k) = Len(samples) + Len(SamplesOf(b))
      /\ SamplesTo(recording, k) <= maxSamples
      /\ \A i \in 1..Len(w) : pos - 1 + i <= Len(encoded) => encoded[pos - 1 + i] = w[i]
      /\ \A i \in 1..Len(SamplesOf(b)) : R[Len(samples) + i] = SamplesOf(b)[i]
  BY <1>2 DEF LeadAt
<1>3. pos \in Nat /\ Len(encoded) \in Nat /\ pos <= Len(encoded) /\ samples \in Seq(Words) /\ Len(samples) \in Nat
  BY <1>1 DEF Bounded, Ended
<1>4. encoded[pos] = WordsOf(b)[1]
  BY <1>2
<1>5. b.kind = "run"
  <2>1. WordsOf(b)[1] >= NegativeFrom
    BY <1>1, <1>4
  <2> QED BY <1>0, <2>1, LeadIs
<1>6. /\ Len(WordsOf(b)) = 2
      /\ WordsOf(b)[1] = 65536 - b.len /\ WordsOf(b)[2] = b.value
      /\ SamplesOf(b) \in Seq(Words) /\ Len(SamplesOf(b)) = b.len
      /\ \A i \in 1..b.len : SamplesOf(b)[i] = b.value
      /\ b.len \in Nat
  <2>1. b.len \in Nat
    BY <1>0, <1>5, KindsAre
  <2> QED BY <1>0, <1>5, <2>1, RunIs, SMTT(60)
<1>7. n = b.len
  BY <1>4, <1>6, Moduli DEF RunLength
<1>8. Fits(n)
  BY <1>0, <1>6, <1>7 DEF Fits
<1>9. maxSamples = Len(R) /\ Prefix(samples, R) /\ Len(Encoded(recording)) \in Nat /\ R \in Seq(Words)
  BY RecordingIs DEF Tracked
<1>10. CASE pos = Len(encoded)
  <2>1. at' = "raised" /\ Same /\ samples' = samples
    BY <1>10 DEF RunBlock, RaiseError, Same
  <2>2. Len(encoded) < Len(Encoded(recording))
    BY <1>0, <1>3, <1>6, <1>9, <1>10
  <2> QED BY <2>1, <2>2, Stopping
<1>11. CASE pos # Len(encoded)
  <2> DEFINE t == [i \in 1..n |-> encoded[pos + 1]]
  <2>1. /\ samples' = samples \o t
        /\ pos' = pos + 2 /\ UNCHANGED <<at, encoded, maxSamples, value, count>>
        /\ t \in Seq(Words) /\ Len(t) = n /\ pos + 1 <= Len(encoded)
    BY <1>8, <1>11, RunStep
  <2>2. encoded[pos + 1] = b.value
    <3>1. 2 \in 1..Len(WordsOf(b)) /\ pos - 1 + 2 = pos + 1
      BY <1>3, <1>6
    <3> HIDE DEF b, w
    <3> QED BY <1>0, <1>6, <2>1, <3>1 DEF b, w
  <2>3. \A i \in 1..n : t[i] = b.value
    BY <2>2
  <2>4. \A i \in 1..Len(t) : R[Len(samples) + i] = t[i]
    <3>1. \A i \in 1..n : R[Len(samples) + i] = SamplesOf(b)[i] /\ SamplesOf(b)[i] = b.value
      <4> HIDE DEF n, R, b
      <4> QED BY <1>0, <1>6, <1>7
    <3> HIDE DEF t, n, R, b
    <3> QED BY <2>1, <2>3, <3>1
  <2> HIDE DEF t, n
  <2>5. Len(samples) + Len(t) <= Len(R)
    BY <1>0, <1>6, <1>7, <1>9, <2>1
  <2>6. Prefix(samples \o t, R)
    BY <1>3, <1>9, <2>1, <2>4, <2>5, Extended
  <2>7. Len(samples \o t) = Len(samples) + Len(t)
    BY <1>3, <2>1, Fitting
  <2>8. /\ k \in 0..Len(recording) /\ at' = "lead" /\ Same
        /\ pos' = 1 + WordsTo(recording, k) /\ Len(samples') = SamplesTo(recording, k)
        /\ Prefix(samples', R)
    BY <1>1, <1>0, <1>3, <1>6, <1>7, <2>1, <2>6, <2>7 DEF Same
  <2> QED BY <2>8, ToBlock
<1> QED BY <1>10, <1>11

\* A plain block of a recording gives its samples, or is not there whole.
LEMMA PlainTracked ==
    ASSUME recording \in Recordings, Bounded, Tracked, PlainBlock, recording' = recording
    PROVE  Tracked'
<1> DEFINE n == encoded[pos]
           R == Recorded(recording)
<1>1. at = "lead" /\ ~Ended /\ n < DeltaBlock
  BY DEF PlainBlock
<1>2. PICK k \in 1..Len(recording) : LeadAt(k) /\ n = WordsOf(recording[k])[1]
  BY <1>1, Lead
<1> DEFINE b == recording[k]
           w == WordsOf(b)
<1>0. /\ b \in Blocks
      /\ Len(samples) = SamplesTo(recording, k - 1)
      /\ WordsTo(recording, k) = pos - 1 + Len(w)
      /\ WordsTo(recording, k) <= Len(Encoded(recording))
      /\ SamplesTo(recording, k) = Len(samples) + Len(SamplesOf(b))
      /\ SamplesTo(recording, k) <= maxSamples
      /\ \A i \in 1..Len(w) : pos - 1 + i <= Len(encoded) => encoded[pos - 1 + i] = w[i]
      /\ \A i \in 1..Len(SamplesOf(b)) : R[Len(samples) + i] = SamplesOf(b)[i]
  BY <1>2 DEF LeadAt
<1>3. /\ pos \in Nat /\ Len(encoded) \in Nat /\ pos <= Len(encoded) /\ encoded \in Seq(Words)
      /\ samples \in Seq(Words) /\ Len(samples) \in Nat /\ pos >= 1
  BY <1>1 DEF Bounded, Ended
<1>4. b.kind = "plain"
  <2>1. WordsOf(b)[1] < DeltaBlock
    BY <1>1, <1>2
  <2> QED BY <1>0, <2>1, LeadIs
<1>5. b.values \in Seq(Words)
  BY <1>0, <1>4, KindsAre
<1> DEFINE v == b.values
<1>6. /\ Len(w) = 1 + Len(v) /\ w[1] = Len(v)
      /\ \A i \in 1..Len(v) : w[1 + i] = v[i]
      /\ SamplesOf(b) = v
  BY <1>0, <1>4, PlainIs
<1>7. n = Len(v) /\ n \in Nat
  BY <1>2, <1>5, <1>6
<1>8. Fits(n)
  BY <1>0, <1>6, <1>7 DEF Fits
<1>9. maxSamples = Len(R) /\ Prefix(samples, R) /\ Len(Encoded(recording)) \in Nat /\ R \in Seq(Words)
  BY RecordingIs DEF Tracked
<1> HIDE DEF n, b, w, v, R
<1>10. CASE pos + n > Len(encoded)
  <2>1. at' = "raised" /\ Same /\ samples' = samples
    BY <1>8, <1>10 DEF PlainBlock, RaiseError, Same, n
  <2>2. Len(encoded) < Len(Encoded(recording))
    BY <1>0, <1>3, <1>6, <1>7, <1>9, <1>10
  <2> QED BY <2>1, <2>2, Stopping
<1>11. CASE ~(pos + n > Len(encoded))
  <2> DEFINE t == SubSeq(encoded, pos + 1, pos + n)
  <2>1. /\ samples' = samples \o t
        /\ pos' = pos + (1 + n) /\ UNCHANGED <<at, encoded, maxSamples, value, count>>
    BY <1>8, <1>11 DEF PlainBlock, Continue, n
  <2>2. t \in Seq(Words) /\ Len(t) = n /\ \A i \in 1..n : t[i] = encoded[pos + i]
    <3>1. /\ ((pos + 1) + n) - 1 = pos + n /\ (pos + 1) + n - 1 <= Len(encoded) /\ pos + 1 \in 1..Len(encoded)+1
          /\ (pos + 1) - 1 = pos
      BY <1>3, <1>7, <1>11
    <3>2. /\ SubSeq(encoded, pos + 1, ((pos + 1) + n) - 1) \in Seq(Words)
          /\ Len(SubSeq(encoded, pos + 1, ((pos + 1) + n) - 1)) = n
          /\ \A i \in 1..n : SubSeq(encoded, pos + 1, ((pos + 1) + n) - 1)[i] = encoded[((pos + 1) - 1) + i]
      BY <1>3, <1>7, <3>1, SubSeqIs
    <3> QED BY <3>1, <3>2
  <2>3. \A i \in 1..n : t[i] = v[i]
    <3> TAKE i \in 1..n
    <3>1. 1 + i \in 1..Len(w) /\ pos - 1 + (1 + i) = pos + i /\ pos + i <= Len(encoded)
      <4>1. n \in Nat /\ Len(w) = 1 + n /\ pos \in Nat /\ Len(encoded) \in Nat
        BY <1>3, <1>6, <1>7
      <4>2. i \in Nat /\ 1 <= i /\ i <= n
        BY <4>1
      <4> QED BY <1>11, <4>1, <4>2
    <3>2. encoded[pos - 1 + (1 + i)] = w[1 + i] /\ w[1 + i] = v[i]
      <4>1. pos - 1 + (1 + i) <= Len(encoded)
        BY <3>1
      <4> QED BY <1>0, <1>6, <1>7, <3>1, <4>1
    <3> QED BY <2>2, <3>1, <3>2
  <2> HIDE DEF t
  <2>4. \A i \in 1..Len(t) : R[Len(samples) + i] = t[i]
    BY <1>0, <1>6, <1>7, <2>2, <2>3
  <2>5. Len(samples) + Len(t) <= Len(R)
    BY <1>0, <1>6, <1>7, <1>9, <2>2
  <2>6. Prefix(samples \o t, R)
    BY <1>3, <1>9, <2>2, <2>4, <2>5, Extended
  <2>7. Len(samples \o t) = Len(samples) + Len(t)
    BY <1>3, <2>2, Fitting
  <2>8. /\ k \in 0..Len(recording) /\ at' = "lead" /\ Same
        /\ pos' = 1 + WordsTo(recording, k) /\ Len(samples') = SamplesTo(recording, k)
    BY <1>0, <1>1, <1>3, <1>6, <1>7, <2>1, <2>2, <2>7 DEF Same
  <2>9. Prefix(samples', R)
    BY <2>1, <2>6
  <2> QED BY <2>8, <2>9, ToBlock DEF R
<1> QED BY <1>10, <1>11

\* Appending one.
LEMMA AppendIs ==
    ASSUME NEW s \in Seq(Words), NEW v \in Words
    PROVE  Append(s, v) = s \o <<v>>
OBVIOUS

\* A delta block of a recording starts with its first sample, or is not there.
LEMMA StartDeltaTracked ==
    ASSUME recording \in Recordings, Bounded, Tracked, StartDelta, recording' = recording
    PROVE  Tracked'
<1> DEFINE R == Recorded(recording)
<1>1. at = "lead" /\ ~Ended /\ encoded[pos] \in DeltaBlock..NegativeFrom-1
  BY DEF StartDelta
<1>2. PICK k \in 1..Len(recording) : LeadAt(k) /\ encoded[pos] = WordsOf(recording[k])[1]
  BY <1>1, Lead
<1> DEFINE b == recording[k]
           w == WordsOf(b)
           N == Len(b.deltas)
           low == Lowered(b.value, b.deltas)
<1>0. /\ b \in Blocks
      /\ pos = 1 + WordsTo(recording, k - 1)
      /\ Len(samples) = SamplesTo(recording, k - 1)
      /\ WordsTo(recording, k) = pos - 1 + Len(w)
      /\ WordsTo(recording, k) <= Len(Encoded(recording))
      /\ SamplesTo(recording, k) = Len(samples) + Len(SamplesOf(b))
      /\ SamplesTo(recording, k) <= maxSamples
      /\ \A i \in 1..Len(w) : pos - 1 + i <= Len(encoded) => encoded[pos - 1 + i] = w[i]
      /\ \A i \in 1..Len(SamplesOf(b)) : R[Len(samples) + i] = SamplesOf(b)[i]
  BY <1>2 DEF LeadAt
<1>3. /\ pos \in Nat /\ Len(encoded) \in Nat /\ pos <= Len(encoded) /\ encoded \in Seq(Words)
      /\ samples \in Seq(Words) /\ Len(samples) \in Nat /\ pos >= 1
  BY <1>1 DEF Bounded, Ended
<1>4. b.kind = "delta"
  <2>1. WordsOf(b)[1] \in DeltaBlock..NegativeFrom-1
    BY <1>1, <1>2, Zenon
  <2> QED BY <1>0, <2>1, LeadIs, Zenon
<1>5. b.deltas \in Seq(-16..15) /\ b.value \in Words
  BY <1>0, <1>4, KindsAre
<1>6. N \in Nat /\ PackedLen(N) \in Nat
  <2>1. N \in Nat
    BY <1>5
  <2> QED BY <2>1, PackedLenIs
<1>7. /\ Len(w) = 2 + PackedLen(N) /\ w[1] = DeltaBlock + N /\ w[2] = b.value
      /\ Len(SamplesOf(b)) = N + 1
      /\ \A i \in 0..N : SamplesOf(b)[i + 1] = low[i]
  BY <1>0, <1>4, DeltaIs
<1>8. low[0] = b.value
  BY <1>5, LoweredIs
<1>9. maxSamples = Len(R) /\ Prefix(samples, R) /\ Len(Encoded(recording)) \in Nat /\ R \in Seq(Words)
  BY RecordingIs DEF Tracked
<1>10. encoded[pos] = DeltaBlock + N
  BY <1>2, <1>7
<1> HIDE DEF b, w, N, low, R
<1>11. Fits(1) /\ Len(samples) + 1 <= Len(R)
  <2>1. Len(samples) + (N + 1) <= maxSamples
    BY <1>0, <1>7
  <2>2. Len(samples) + 1 <= maxSamples
    <3>1. maxSamples \in Nat
      BY DEF Bounded
    <3> QED BY <1>3, <1>6, <2>1, <3>1
  <2> QED BY <1>9, <2>2 DEF Fits
<1>12. CASE pos = Len(encoded)
  <2>1. at' = "raised" /\ Same /\ samples' = samples
    BY <1>12 DEF StartDelta, RaiseError, Same
  <2>2. Len(encoded) < Len(Encoded(recording))
    <3> DEFINE E == Len(Encoded(recording))
    <3>1. pos - 1 + (2 + PackedLen(N)) <= E
      BY <1>0, <1>7
    <3>2. E \in Nat
      BY <1>9
    <3> HIDE DEF E
    <3>3. Len(encoded) < E
      BY <1>3, <1>6, <1>12, <3>1, <3>2
    <3> QED BY <3>3 DEF E
  <2> QED BY <2>1, <2>2, Stopping
<1>13. CASE pos # Len(encoded)
  <2>1. /\ value' = encoded[pos + 1]
        /\ samples' = Append(samples, value')
        /\ count' = encoded[pos] - DeltaBlock
        /\ at' = IF count' > 0 THEN "delta" ELSE "lead"
        /\ pos' = pos + 2 /\ UNCHANGED <<encoded, maxSamples>>
    BY <1>11, <1>13 DEF StartDelta, Continue
  <2>2. encoded[pos + 1] = b.value
    <3>1. 2 \in 1..Len(w) /\ pos - 1 + 2 = pos + 1 /\ pos + 1 <= Len(encoded)
      BY <1>3, <1>6, <1>7, <1>13
    <3> QED BY <1>0, <1>7, <3>1
  <2>3. count' = N
    BY <1>6, <1>10, <2>1, Moduli
  <2> DEFINE t == <<b.value>>
  <2>4. t \in Seq(Words) /\ Len(t) = 1 /\ t[1] = b.value
    BY <1>5 DEF b
  <2>5. samples' = samples \o t
    <3>1. samples' = Append(samples, b.value)
      BY <2>1, <2>2
    <3>2. b.value \in Words /\ samples \in Seq(Words)
      BY <1>3, <1>5 DEF b
    <3> QED BY <3>1, <3>2, AppendIs
  <2> HIDE DEF t
  <2>6. \A i \in 1..Len(t) : R[Len(samples) + i] = t[i]
    <3>1. 1 \in 1..Len(SamplesOf(b)) /\ 0 \in 0..N /\ 0 + 1 = 1
      BY <1>6, <1>7
    <3>2. R[Len(samples) + 1] = b.value
      BY <1>0, <1>7, <1>8, <3>1
    <3> QED BY <2>4, <3>2
  <2>7. Len(samples) + Len(t) <= Len(R)
    BY <1>11, <2>4
  <2>8. Prefix(samples', R)
    BY <1>3, <1>9, <2>4, <2>5, <2>6, <2>7, Extended
  <2>9. Len(samples') = Len(samples) + 1 /\ Same
    BY <1>3, <2>1, <2>4, <2>5, Fitting DEF Same
  <2>10. CASE N = 0
    <3>1. PackedLen(N) = 0
      BY <2>10 DEF PackedLen
    <3>2. k \in 0..Len(recording) /\ at' = "lead"
      BY <2>1, <2>3, <2>10
    <3>3. pos' = 1 + WordsTo(recording, k) /\ Len(samples') = SamplesTo(recording, k)
      BY <1>0, <1>3, <1>7, <2>1, <2>9, <2>10, <3>1
    <3> QED BY <2>8, <2>9, <3>2, <3>3, ToBlock DEF R
  <2>11. CASE N # 0
    <3>1. at' = "delta" /\ count' = N /\ value' = low[0]
      BY <1>6, <1>8, <2>1, <2>2, <2>3, <2>11
    <3>2. pos' = WordsTo(recording, k - 1) + 3 /\ Len(samples') = SamplesTo(recording, k - 1) + 1
      <4> DEFINE W == WordsTo(recording, k - 1)
      <4>1. pos = 1 + W /\ pos' = pos + 2
        BY <1>0, <2>1
      <4>2. W \in Nat
        <5>1. k - 1 \in 0..Len(recording)
          OBVIOUS
        <5> QED BY <5>1, RecordingIs
      <4> HIDE DEF W
      <4>3. pos' = W + 3
        BY <4>1, <4>2
      <4> QED BY <1>0, <2>9, <4>3 DEF W
    <3>3. recording' = recording
      OBVIOUS
    <3>4. 3*0 = 0 /\ 0 < N /\ N - 0 = N /\ 0 \in Nat
      BY <1>6, <2>11
    <3>5. InDeltaBlock(k, 0)'
      <4>1. /\ recording'[k].kind = "delta" /\ 3*0 < Len(recording'[k].deltas)
            /\ value' = Lowered(recording'[k].value, recording'[k].deltas)[3*0]
            /\ count' = Len(recording'[k].deltas) - 3*0
        BY <1>4, <3>1, <3>3, <3>4 DEF b, N, low
      <4>2. /\ pos' = WordsTo(recording', k - 1) + 3 + 0
            /\ Len(samples') = SamplesTo(recording', k - 1) + 1 + 3*0
        <5> DEFINE W == WordsTo(recording, k - 1)
                   S == SamplesTo(recording, k - 1)
        <5>1. W \in Nat /\ S \in Nat
          <6>1. k - 1 \in 0..Len(recording)
            OBVIOUS
          <6> QED BY <6>1, RecordingIs
        <5> HIDE DEF W, S
        <5>2. W + 3 + 0 = W + 3 /\ S + 1 + 3*0 = S + 1
          BY <5>1
        <5> QED BY <3>2, <3>3, <5>2 DEF W, S
      <4> QED BY <4>1, <4>2 DEF InDeltaBlock
    <3> QED BY <2>8, <2>9, <3>1, <3>4, <3>5, ToDelta DEF R
  <2> QED BY <2>10, <2>11
<1> QED BY <1>12, <1>13

\* In a delta block, the next word gives the block's next samples.
LEMMA NextThree ==
    ASSUME NEW b \in Blocks, b.kind = "delta", NEW m \in Nat, 3*m < Len(b.deltas),
           NEW w, w = WordsOf(b)[3 + m]
    PROVE  LET low == Lowered(b.value, b.deltas)
               three == Three(low[3*m], w)
           IN  /\ low[3*m] \in Words
               /\ w \in Words
               /\ three[1] = low[3*m + 1]
               /\ 3*m + 2 <= Len(b.deltas) => three[2] = low[3*m + 2]
               /\ 3*m + 3 <= Len(b.deltas) => three[3] = low[3*m + 3]
<1> DEFINE N == Len(b.deltas)
           d == b.deltas
           low == Lowered(b.value, d)
           three == Three(low[3*m], w)
<1>1. d \in Seq(-16..15) /\ b.value \in Words
  BY KindsAre
<1>2. N \in Nat
  BY <1>1
<1>3. /\ low \in [0..N -> Words]
      /\ \A i \in 1..N : low[i] = Below(low[i - 1], d[i])
  BY <1>1, LoweredIs
<1>4. PackedLen(N) \in Nat /\ m < PackedLen(N)
  BY <1>2, PackedLenIs
<1>5. m + 1 \in 1..PackedLen(N)
  BY <1>4
<1>6. w = Packed(d)[m + 1]
  <2>1. WordsOf(b)[2 + (m + 1)] = Packed(d)[m + 1]
    BY <1>5, DeltaIs
  <2>2. 2 + (m + 1) = 3 + m
    OBVIOUS
  <2> QED BY <2>1, <2>2
<1>7. /\ Packed(d) \in Seq(Words) /\ Len(Packed(d)) = PackedLen(N)
      /\ \A u \in 1..PackedLen(N) :
                 /\ 3*u - 2 <= N => Delta(Packed(d)[u], 1) = d[3*u - 2]
                 /\ 3*u - 1 <= N => Delta(Packed(d)[u], 2) = d[3*u - 1]
                 /\ 3*u <= N => Delta(Packed(d)[u], 3) = d[3*u]
  BY <1>1, PackedIs
<1> HIDE DEF N, d, low
<1>8. w \in Words
  BY <1>5, <1>6, <1>7
<1>9. low[3*m] \in Words
  <2>1. 3*m \in 0..N
    BY <1>2 DEF N, d
  <2> QED BY <1>3, <2>1
<1>10. /\ three[1] = Below(low[3*m], Delta(w, 1))
       /\ three[2] = Below(three[1], Delta(w, 2))
       /\ three[3] = Below(three[2], Delta(w, 3))
  BY <1>8, <1>9, ThreeAre
<1> HIDE DEF three
<1>11. 3*(m + 1) - 2 = 3*m + 1 /\ 3*(m + 1) - 1 = 3*m + 2 /\ 3*(m + 1) = 3*m + 3
  OBVIOUS
<1>12. /\ 3*m + 1 <= N => Delta(w, 1) = d[3*m + 1]
       /\ 3*m + 2 <= N => Delta(w, 2) = d[3*m + 2]
       /\ 3*m + 3 <= N => Delta(w, 3) = d[3*m + 3]
  BY <1>5, <1>6, <1>7, <1>11
<1>13. 3*m + 1 <= N
  BY <1>2 DEF N, d
<1>14. three[1] = low[3*m + 1]
  <2>1. 3*m + 1 \in 1..N /\ (3*m + 1) - 1 = 3*m
    BY <1>2, <1>13
  <2> QED BY <1>3, <1>10, <1>12, <1>13, <2>1
<1>15. ASSUME 3*m + 2 <= N PROVE three[2] = low[3*m + 2]
  <2>1. 3*m + 2 \in 1..N /\ (3*m + 2) - 1 = 3*m + 1
    BY <1>2, <1>15
  <2> QED BY <1>3, <1>10, <1>12, <1>14, <1>15, <2>1
<1>16. ASSUME 3*m + 3 <= N PROVE three[3] = low[3*m + 3]
  <2>1. 3*m + 3 \in 1..N /\ (3*m + 3) - 1 = 3*m + 2 /\ 3*m + 2 <= N
    BY <1>2, <1>16
  <2> QED BY <1>3, <1>10, <1>12, <1>15, <1>16, <2>1
<1> QED BY <1>8, <1>9, <1>14, <1>15, <1>16 DEF N, d, low, three

\* A word of a recording's delta block gives its next samples, or is not there.
LEMMA DeltaTracked ==
    ASSUME recording \in Recordings, Bounded, Tracked, DeltaWord, recording' = recording
    PROVE  Tracked'
<1> DEFINE R == Recorded(recording)
<1>1. at = "delta"
  BY DEF DeltaWord
<1>2. PICK k \in 1..Len(recording), m \in Nat : InDeltaBlock(k, m)
  BY <1>1 DEF Tracked
<1> DEFINE b == recording[k]
           w == WordsOf(b)
           N == Len(b.deltas)
           low == Lowered(b.value, b.deltas)
           W == WordsTo(recording, k - 1)
           S == SamplesTo(recording, k - 1)
<1>3. /\ b.kind = "delta" /\ 3*m < N
      /\ pos = W + 3 + m
      /\ Len(samples) = S + 1 + 3*m
      /\ value = low[3*m]
      /\ count = N - 3*m
  BY <1>2 DEF InDeltaBlock
<1>4. /\ b \in Blocks
      /\ WordsTo(recording, k) = W + Len(w)
      /\ SamplesTo(recording, k) = S + Len(SamplesOf(b))
      /\ \A i \in 1..Len(w) : Encoded(recording)[W + i] = w[i]
      /\ \A i \in 1..Len(SamplesOf(b)) : R[S + i] = SamplesOf(b)[i]
  BY BlockAt
<1>5. b.deltas \in Seq(-16..15)
  BY <1>3, <1>4, KindsAre
<1>6. N \in Nat /\ PackedLen(N) \in Nat /\ m < PackedLen(N)
  <2>1. N \in Nat
    BY <1>5
  <2>2. 3*m < N
    BY <1>3
  <2> HIDE DEF N
  <2> QED BY <2>1, <2>2, PackedLenIs
<1>7. /\ Len(w) = 2 + PackedLen(N)
      /\ Len(SamplesOf(b)) = N + 1
      /\ \A i \in 0..N : SamplesOf(b)[i + 1] = low[i]
  BY <1>3, <1>4, DeltaIs
<1>8. /\ W \in Nat /\ S \in Nat
      /\ WordsTo(recording, k) <= Len(Encoded(recording)) /\ SamplesTo(recording, k) <= Len(R)
      /\ Len(Encoded(recording)) \in Nat /\ R \in Seq(Words) /\ Len(R) \in Nat
  <2>1. k - 1 \in 0..Len(recording) /\ k \in 0..Len(recording)
    OBVIOUS
  <2>2. Encoded(recording) \in Seq(Words) /\ R \in Seq(Words)
    BY RecordingIs
  <2>3. Len(Encoded(recording)) \in Nat /\ Len(R) \in Nat
    BY <2>2
  <2> QED BY <2>1, <2>2, <2>3, RecordingIs
<1>9. /\ maxSamples = Len(R) /\ Prefix(samples, R)
      /\ Prefix(encoded, Encoded(recording))
      /\ samples \in Seq(Words) /\ Len(samples) \in Nat /\ Len(encoded) \in Nat
  BY DEF Tracked, Bounded
<1> DEFINE u == encoded[pos]
           three == Three(value, u)
<1>10. ASSUME ~Ended PROVE u = w[3 + m]
  <2>1. pos \in 1..Len(encoded)
    BY <1>10, <1>9 DEF Ended, Bounded
  <2>2. u = Encoded(recording)[pos]
    BY <1>9, <2>1 DEF Prefix
  <2>3. 3 + m \in 1..Len(w) /\ W + (3 + m) = pos
    <3> HIDE DEF w, N, W
    <3> QED BY <1>3, <1>6, <1>7, <1>8
  <2> HIDE DEF w, W
  <2> QED BY <1>4, <2>2, <2>3
<1>11. ASSUME ~Ended
       PROVE  /\ value \in Words /\ u \in Words
              /\ three[1] = low[3*m + 1]
              /\ 3*m + 2 <= N => three[2] = low[3*m + 2]
              /\ 3*m + 3 <= N => three[3] = low[3*m + 3]
  BY <1>3, <1>4, <1>10, <1>11, NextThree
<1> HIDE DEF b, w, N, low, W, S, R, u, three
<1>12. CASE Ended
  <2>1. at' = "raised" /\ Same /\ samples' = samples
    BY <1>12 DEF DeltaWord, RaiseError, Same
  <2>2. Len(encoded) < Len(Encoded(recording))
    <3> DEFINE E == Len(Encoded(recording))
    <3>1. W + (2 + PackedLen(N)) <= E /\ E \in Nat
      BY <1>4, <1>7, <1>8
    <3>2. Len(encoded) < W + 3 + m
      BY <1>3, <1>12 DEF Ended
    <3> HIDE DEF E
    <3>3. Len(encoded) < E
      BY <1>6, <1>8, <1>9, <3>1, <3>2
    <3> QED BY <3>3 DEF E
  <2> QED BY <2>1, <2>2, Stopping
<1>13. CASE ~Ended
  <2> DEFINE taken == Taken
             room == Least(Taken, maxSamples - Len(samples))
             t == SubSeq(three, 1, room)
  <2>1. /\ samples' = samples \o t
        /\ value' = three[taken]
        /\ count' = count - taken
        /\ at' = IF count' > 0 THEN "delta" ELSE "lead"
        /\ pos' = pos + 1 /\ encoded' = encoded /\ maxSamples' = maxSamples
        /\ taken \in {1, 2, 3} /\ taken <= count
        /\ count > 3 => taken = 3
        /\ count <= 3 => taken = count
    BY <1>13, DeltaWordIs DEF three, u
  <2>2. three \in Seq(Words) /\ Len(three) = 3
    BY <1>11, <1>13, ThreeAre DEF three
  <2>3. S + (N + 1) <= Len(R)
    BY <1>4, <1>7, <1>8
  <2>4. room = taken
    <3>1. maxSamples - Len(samples) >= count
      BY <1>3, <1>6, <1>8, <1>9, <2>3
    <3>2. maxSamples - Len(samples) >= taken
      BY <1>3, <1>6, <1>8, <1>9, <2>1, <3>1
    <3>3. room = IF taken < maxSamples - Len(samples) THEN taken ELSE maxSamples - Len(samples)
      BY DEF Least
    <3> HIDE DEF taken, room
    <3> QED BY <1>8, <1>9, <2>1, <3>2, <3>3
  <2> HIDE DEF taken, room
  <2>5. taken \in Nat /\ taken \in 1..3 /\ 3*m + taken <= N
    BY <1>3, <1>6, <2>1
  <2>6. t \in Seq(Words) /\ Len(t) = taken /\ \A i \in 1..taken : t[i] = three[i]
    <3>1. (1 + taken) - 1 = taken /\ 1 + taken - 1 <= Len(three) /\ 1 \in 1..Len(three)+1 /\ 1 - 1 = 0
      BY <2>2, <2>5
    <3>2. /\ SubSeq(three, 1, (1 + taken) - 1) \in Seq(Words)
          /\ Len(SubSeq(three, 1, (1 + taken) - 1)) = taken
          /\ \A i \in 1..taken : SubSeq(three, 1, (1 + taken) - 1)[i] = three[(1 - 1) + i]
      BY <2>2, <2>5, <3>1, SubSeqIs
    <3>3. \A i \in 1..taken : (1 - 1) + i = i
      BY <2>5
    <3> QED BY <2>4, <3>1, <3>2, <3>3
  <2> HIDE DEF t
  <2>7. \A i \in 1..taken : three[i] = low[3*m + i]
    <3> TAKE i \in 1..taken
    <3>1. i \in {1, 2, 3} /\ 3*m + i <= N
      BY <1>6, <2>5
    <3> QED BY <1>11, <1>13, <3>1
  <2>8. \A i \in 1..Len(t) : R[Len(samples) + i] = t[i]
    <3> TAKE i \in 1..Len(t)
    <3>1. i \in 1..taken /\ t[i] = low[3*m + i]
      BY <2>6, <2>7
    <3>2. 3*m + i \in 0..N /\ (3*m + i) + 1 \in 1..N + 1 /\ Len(samples) + i = S + ((3*m + i) + 1)
      BY <1>3, <1>6, <1>8, <2>5, <3>1
    <3>3. R[S + ((3*m + i) + 1)] = SamplesOf(b)[(3*m + i) + 1]
      BY <1>4, <1>7, <3>2
    <3> QED BY <1>7, <3>1, <3>2, <3>3
  <2>9. Len(samples) + Len(t) <= Len(R)
    <3> DEFINE most == Len(R)
    <3>1. Len(samples) = S + 1 + 3*m /\ Len(t) = taken /\ most \in Nat /\ S + (N + 1) <= most
      BY <1>3, <1>8, <2>3, <2>6
    <3> HIDE DEF most
    <3>2. Len(samples) + Len(t) <= most
      BY <1>6, <1>8, <2>5, <3>1
    <3> QED BY <3>2 DEF most
  <2>10. Prefix(samples', R)
    BY <1>8, <1>9, <2>1, <2>6, <2>8, <2>9, Extended
  <2>11. Len(samples') = S + 1 + 3*m + taken /\ Same
    <3>1. Len(samples \o t) = Len(samples) + Len(t)
      BY <1>9, <2>6, Fitting
    <3>2. Len(samples') = S + 1 + 3*m + taken
      BY <1>3, <2>1, <2>6, <3>1
    <3> QED BY <2>1, <3>2 DEF Same
  <2>12. value' = low[3*m + taken] /\ count' = N - 3*m - taken /\ pos' = W + 4 + m
    <3>1. value' = low[3*m + taken]
      BY <2>1, <2>5, <2>7
    <3>2. count' = N - 3*m - taken
      BY <1>3, <2>1
    <3>3. pos' = W + 4 + m
      BY <1>3, <1>8, <2>1
    <3> QED BY <3>1, <3>2, <3>3
  <2>13. CASE N = 3*m + taken
    <3>1. PackedLen(N) = m + 1
      BY <2>5, <2>13 DEF PackedLen
    <3>2. k \in 0..Len(recording) /\ at' = "lead"
      <4>1. count' = 0
        BY <1>6, <2>5, <2>12, <2>13
      <4> QED BY <2>1, <4>1
    <3>3. pos' = 1 + WordsTo(recording, k)
      <4>1. WordsTo(recording, k) = W + (2 + (m + 1))
        BY <1>4, <1>7, <3>1
      <4> QED BY <1>8, <2>12, <4>1
    <3>4. Len(samples') = SamplesTo(recording, k)
      <4>1. SamplesTo(recording, k) = S + (N + 1)
        BY <1>4, <1>7
      <4> QED BY <1>8, <2>5, <2>11, <2>13, <4>1
    <3> QED BY <2>10, <2>11, <3>2, <3>3, <3>4, ToBlock DEF R
  <2>14. CASE N # 3*m + taken
    <3>1. taken = 3 /\ at' = "delta"
      <4>1. count # taken
        BY <1>3, <1>6, <2>5, <2>14
      <4>2. count \in Nat /\ count' > 0
        BY <1>3, <1>6, <2>5, <2>12, <2>14
      <4> QED BY <2>1, <4>1, <4>2
    <3> DEFINE j == m + 1
    <3>2. j \in Nat /\ 3*j = 3*m + 3 /\ 3*j < N
      BY <1>6, <2>5, <2>14, <3>1
    <3>3. pos' = W + 3 + j /\ Len(samples') = S + 1 + 3*j /\ value' = low[3*j] /\ count' = N - 3*j
      BY <1>6, <1>8, <2>11, <2>12, <3>1, <3>2
    <3>4. recording' = recording
      OBVIOUS
    <3> HIDE DEF j
    <3>5. InDeltaBlock(k, j)'
      BY <1>3, <3>2, <3>3, <3>4 DEF InDeltaBlock, b, N, low, W, S
    <3> QED BY <2>10, <2>11, <3>1, <3>2, <3>5, ToDelta DEF R
  <2> QED BY <2>13, <2>14
<1> QED BY <1>12, <1>13

\* Decoding a recording's words, all of them or the first, gives its samples.
LEMMA TrackedStep ==
    ASSUME recording \in Recordings, Bounded, Tracked, DecodeStep, recording' = recording
    PROVE  Tracked'
BY EndTracked, RunTracked, StartDeltaTracked, DeltaTracked, PlainTracked DEF DecodeStep

-----------------------------------------------------------------------------
(* The frame *)

\* The frame is as the pump sent it, with the flipped bits flipped.
AsSent ==
    /\ flipped \subseteq Positions(Sent(recording))
    /\ \/ flipped = {} /\ frame = Sent(recording)
       \/ \E p \in flipped : flipped = {p} /\ frame = Flip(Sent(recording), p)
       \/ \E p, q \in flipped :
             p # q /\ flipped = {p, q} /\ frame = Flip(Flip(Sent(recording), p), q)
       \/ \E p, q, r \in flipped :
             /\ IsFiniteSet(flipped) /\ Cardinality(flipped) = 3
             /\ frame = Flip(Flip(Flip(Sent(recording), p), q), r)

\* The reply as it is sent passes, and its words are the encoded ones.
LEMMA SentIs ==
    ASSUME NEW rec \in Recordings
    PROVE  /\ Sent(rec) \in Seq(Byte) /\ Len(Sent(rec)) = 6 + 2*Len(Encoded(rec)) /\ Len(Sent(rec)) <= MaxLen
           /\ IsValid(Sent(rec)) /\ GoodReply(Sent(rec)) /\ WordsIn(Sent(rec)) = Encoded(rec)
<1>1. Encoded(rec) \in Seq(Words)
  BY RecordingIs
<1>2. FrameHeaderLen + 2*Len(Encoded(rec)) + CrcLen <= MaxLen
  BY RecordingsAssumption
<1> QED BY <1>1, <1>2, FrameIs DEF Sent

\* How many elements small sets have.
LEMMA Cards ==
    /\ IsFiniteSet({}) /\ Cardinality({}) = 0
    /\ \A x : IsFiniteSet({x}) /\ Cardinality({x}) = 1
    /\ \A x, y : x # y => IsFiniteSet({x, y}) /\ Cardinality({x, y}) = 2
<1>1. IsFiniteSet({}) /\ Cardinality({}) = 0
  BY FS_EmptySet
<1>2. \A x : IsFiniteSet({x}) /\ Cardinality({x}) = 1
  BY FS_Singleton
<1>3. ASSUME NEW x, NEW y, x # y PROVE IsFiniteSet({x, y}) /\ Cardinality({x, y}) = 2
  <2>1. {x, y} = {x} \union {y} /\ y \notin {x}
    BY <1>3
  <2>2. IsFiniteSet({x} \union {y}) /\ Cardinality({x} \union {y}) = Cardinality({x}) + 1
    BY <1>2, <2>1, FS_AddElement
  <2> QED BY <1>2, <2>1, <2>2
<1> QED BY <1>1, <1>2, <1>3

\* What is received, and what the repair finds, by how many bits were flipped.
FrameByFlips ==
    /\ frame \in Seq(Byte) /\ Len(frame) = Len(Sent(recording))
    /\ Positions(frame) = Positions(Sent(recording))
    /\ IsFiniteSet(flipped) /\ Cardinality(flipped) \in {0, 1, 2, 3}
    /\ GoodReply(frame) <=> flipped = {}
    /\ flipped = {} => frame = Sent(recording)
    /\ Cardinality(flipped) = 1 =>
          \E p \in Positions(frame) : /\ RepairingBits(frame) = {p} /\ flipped = {p}
                                      /\ Flip(frame, p) = Sent(recording)
                                      /\ frame = Flip(Sent(recording), p)
    /\ Cardinality(flipped) = 2 => RepairingBits(frame) = {}

\* What the receiver makes of a frame follows from how many bits were flipped.
LEMMA FlippedFrame ==
    ASSUME recording \in Recordings, AsSent
    PROVE  FrameByFlips
<1> DEFINE s == Sent(recording)
<1>0. s \in Seq(Byte) /\ Len(s) <= MaxLen /\ IsValid(s) /\ GoodReply(s)
  BY SentIs
<1> HIDE DEF s
<1>1. ASSUME NEW p \in Positions(s)
      PROVE  /\ Flip(s, p) \in Seq(Byte) /\ Len(Flip(s, p)) = Len(s) /\ Positions(Flip(s, p)) = Positions(s)
             /\ Flip(Flip(s, p), p) = s /\ ~IsValid(Flip(s, p)) /\ RepairingBits(Flip(s, p)) = {p}
  BY <1>0, FlipIs, OneFlip
<1>2. ASSUME NEW p \in Positions(s), NEW q \in Positions(s)
      PROVE  /\ Flip(Flip(s, p), q) \in Seq(Byte) /\ Len(Flip(Flip(s, p), q)) = Len(s)
             /\ Positions(Flip(Flip(s, p), q)) = Positions(s)
             /\ p # q => ~IsValid(Flip(Flip(s, p), q)) /\ RepairingBits(Flip(Flip(s, p), q)) = {}
  <2> DEFINE g == Flip(s, p)
  <2>1. g \in Seq(Byte) /\ Len(g) = Len(s) /\ Positions(g) = Positions(s)
    BY <1>1
  <2>2. p # q => ~IsValid(Flip(g, q)) /\ RepairingBits(Flip(g, q)) = {}
    BY <1>0, TwoFlips
  <2> HIDE DEF g
  <2>3. Flip(g, q) \in Seq(Byte) /\ Len(Flip(g, q)) = Len(g) /\ Positions(Flip(g, q)) = Positions(g)
    BY <2>1, FlipIs
  <2> QED BY <2>1, <2>2, <2>3 DEF g
<1>3. ASSUME NEW p \in Positions(s), NEW q \in Positions(s), NEW r \in Positions(s)
      PROVE  /\ Flip(Flip(Flip(s, p), q), r) \in Seq(Byte) /\ Len(Flip(Flip(Flip(s, p), q), r)) = Len(s)
             /\ Positions(Flip(Flip(Flip(s, p), q), r)) = Positions(s)
             /\ ~IsValid(Flip(Flip(Flip(s, p), q), r))
  <2> DEFINE g == Flip(Flip(s, p), q)
  <2>1. g \in Seq(Byte) /\ Len(g) = Len(s) /\ Positions(g) = Positions(s)
    BY <1>2
  <2>2. ~IsValid(Flip(g, r))
    BY <1>0, ThreeFlips
  <2> HIDE DEF g
  <2>3. Flip(g, r) \in Seq(Byte) /\ Len(Flip(g, r)) = Len(g) /\ Positions(Flip(g, r)) = Positions(g)
    BY <2>1, FlipIs
  <2> QED BY <2>1, <2>2, <2>3 DEF g
<1>4. \A f : ~IsValid(f) => ~GoodReply(f)
  BY DEF GoodReply
<1>5. flipped \subseteq Positions(s)
  BY DEF AsSent, s
<1>6. CASE flipped = {} /\ frame = s
  <2>1. Cardinality(flipped) = 0 /\ IsFiniteSet(flipped)
    BY <1>6, Cards
  <2> QED BY <1>0, <1>6, <2>1 DEF FrameByFlips, s
<1>7. ASSUME NEW p \in flipped, flipped = {p}, frame = Flip(s, p) PROVE FrameByFlips
  <2>1. Cardinality(flipped) = 1 /\ IsFiniteSet(flipped) /\ flipped # {}
    BY <1>7, Cards
  <2>2. p \in Positions(s)
    BY <1>5
  <2> QED BY <1>1, <1>4, <1>7, <2>1, <2>2 DEF FrameByFlips, s
<1>8. ASSUME NEW p \in flipped, NEW q \in flipped, p # q, flipped = {p, q}, frame = Flip(Flip(s, p), q)
      PROVE  FrameByFlips
  <2>1. Cardinality(flipped) = 2 /\ IsFiniteSet(flipped) /\ flipped # {}
    BY <1>8, Cards
  <2>2. p \in Positions(s) /\ q \in Positions(s)
    BY <1>5
  <2> QED BY <1>2, <1>4, <1>8, <2>1, <2>2 DEF FrameByFlips, s
<1>9. ASSUME NEW p \in flipped, NEW q \in flipped, NEW r \in flipped,
             IsFiniteSet(flipped), Cardinality(flipped) = 3, frame = Flip(Flip(Flip(s, p), q), r)
      PROVE  FrameByFlips
  <2>1. flipped # {}
    OBVIOUS
  <2>2. p \in Positions(s) /\ q \in Positions(s) /\ r \in Positions(s)
    BY <1>5
  <2> QED BY <1>3, <1>4, <1>9, <2>1, <2>2 DEF FrameByFlips, s
<1> QED BY <1>6, <1>7, <1>8, <1>9 DEF AsSent, s

-----------------------------------------------------------------------------
(* The trace *)

Decoded == at \in {"lead", "delta", "returned", "raised"}

TraceTypes ==
    /\ at \in {"idle", "lead", "delta", "returned", "raised", "failed"}
    /\ recording \in Recordings
    /\ Bounded /\ Len(encoded) <= Len(frame)
    /\ repaired \in Positions(frame) \union {Nothing}
    /\ cut \in BOOLEAN
    /\ verdict \in {"column", "blank", Nothing}

\* Nothing is known of the trace before it is received; one that could not be
\* repaired had more than one bit flipped.
Before ==
    /\ at = "idle" => Idle /\ repaired = Nothing /\ ~cut /\ verdict = Nothing
    /\ at = "failed" => /\ samples = <<>> /\ maxSamples = 0 /\ verdict = "blank"
                        /\ repaired = Nothing /\ ~cut /\ Cardinality(flipped) > 1

\* What is decoded are the recording's words, all of them if it was not cut; or
\* the words of a frame that was wrongly repaired.
During ==
    Decoded =>
        /\ maxSamples = Size
        /\ repaired = Nothing => flipped = {}
        /\ cut => repaired = Nothing
        /\ \/ Tracked /\ (~cut => Len(encoded) = Len(Encoded(recording)))
           \/ repaired # Nothing /\ Cardinality(flipped) > 2

Judged ==
    /\ at \in {"lead", "delta"} => verdict = Nothing
    /\ Decoded /\ verdict # Nothing => (verdict = "column" <=> Whole)
    /\ verdict = Nothing => profile = Nothing

Tabled ==
    /\ profile = Nothing => row = Nothing
    /\ profile # Nothing =>
          LET decoded == IF verdict = "column" THEN samples ELSE Nothing
          IN  /\ \E trace \in Numbers : profile = ProfileFrame(trace, Info, decoded, Nothing)
              /\ row = IF cut THEN Nothing
                       ELSE DispenseRecord(decoded, repaired, at = "failed", Nothing)

TraceInv == AsSent /\ TraceTypes /\ Before /\ During /\ Judged /\ Tabled

\* No verdict and no bit is Nothing.
LEMMA Tellable ==
    /\ "column" # Nothing /\ "blank" # Nothing
    /\ \A f \in Seq(Byte) : \A p \in Positions(f) : p # Nothing
<1>1. ASSUME NEW f \in Seq(Byte), NEW p \in Positions(f) PROVE p # Nothing
  <2>1. p \in Nat \X (0..7)
    BY DEF Positions
  <2> QED BY <2>1, NothingAssumption
<1>2. "column" # Nothing /\ "blank" # Nothing
  BY NothingAssumption
<1> QED BY <1>1, <1>2

\* The invariant holds at first.
LEMMA TraceStart == TraceInit => TraceInv
<1> SUFFICES ASSUME TraceInit PROVE TraceInv
  OBVIOUS
<1>1. AsSent
  BY DEF TraceInit, AsSent
<1>2. Bounded /\ Len(encoded) <= Len(frame)
  <2>1. 0 \in Words /\ 0 < DeltaBlock
    BY WordsAre, Moduli
  <2>2. frame \in Seq(Byte)
    BY SentIs DEF TraceInit
  <2> QED BY <2>1, <2>2 DEF TraceInit, Idle, Bounded
<1>3. TraceTypes
  BY <1>2 DEF TraceInit, Idle, TraceTypes
<1>4. Before /\ During /\ Judged /\ Tabled
  BY DEF TraceInit, Idle, Before, During, Judged, Tabled, Decoded
<1> QED BY <1>1, <1>3, <1>4 DEF TraceInv

\* Decoding starts on the recording's first words.
LEMMA Starting ==
    ASSUME TraceInv, at = "idle", NEW words \in Seq(Words), StartDecode(words, Size),
           recording' = recording, frame' = frame, Len(words) <= Len(frame)
    PROVE  /\ Bounded' /\ Len(encoded') <= Len(frame') /\ Decoded' /\ at' = "lead"
           /\ maxSamples' = Size /\ samples' = <<>>
           /\ Prefix(words, Encoded(recording)) => Tracked'
<1>1. Idle /\ recording \in Recordings
  BY DEF TraceInv, Before, TraceTypes
<1>2. /\ at' = "lead" /\ encoded' = words /\ maxSamples' = Size
      /\ pos' = 1 /\ samples' = <<>> /\ value' = 0 /\ count' = 0
  BY <1>1 DEF StartDecode, Idle
<1>3. Size \in Nat
  BY <1>1, RecordingIs DEF Size
<1>4. Bounded'
  <2>1. 0 \in Words /\ 0 < DeltaBlock
    BY WordsAre, Moduli
  <2>2. Len(words) \in Nat /\ <<>> \in Seq(Words) /\ Len(<<>>) = 0
    OBVIOUS
  <2> QED BY <1>2, <1>3, <2>1, <2>2 DEF Bounded
<1>5. ASSUME Prefix(words, Encoded(recording)) PROVE Tracked'
  <2>1. Prefix(encoded, Encoded(recording))'
    BY <1>2, <1>5
  <2>2. Prefix(samples, Recorded(recording))' /\ (maxSamples = Len(Recorded(recording)))'
    BY <1>2, <1>3 DEF Size, Prefix
  <2>3. AtBlock'
    <3>1. 0 \in 0..Len(recording) /\ WordsTo(recording, 0) = 0 /\ SamplesTo(recording, 0) = 0
      BY <1>1, RecordingIs
    <3>2. Len(<<>>) = 0
      OBVIOUS
    <3> QED BY <1>2, <3>1, <3>2 DEF AtBlock
  <2> QED BY <1>2, <2>1, <2>2, <2>3 DEF Tracked
<1> QED BY <1>2, <1>4, <1>5 DEF Decoded

\* One more bit is flipped.
LEMMA FlipStep ==
    ASSUME TraceInv, NEW p \in Positions(frame), FlipBit(p)
    PROVE  TraceInv'
<1> DEFINE s == Sent(recording)
<1>1. /\ at = "idle" /\ \A q \in flipped : Place(p) > Place(q)
      /\ Cardinality(flipped) < 3
      /\ flipped' = flipped \union {p} /\ frame' = Flip(frame, p)
      /\ UNCHANGED <<decoding, recording, repaired, cut, verdict, output>>
  BY DEF FlipBit
<1>2. FrameByFlips /\ recording \in Recordings
  BY FlippedFrame DEF TraceInv, TraceTypes
<1>3. p \notin flipped
  <2> SUFFICES ASSUME p \in flipped PROVE FALSE
    OBVIOUS
  <2>1. p[1] \in Int /\ p[2] \in Int
    <3>1. p[1] \in 1..Len(frame) /\ p[2] \in 0..7 /\ Len(frame) \in Nat
      <4>1. frame \in Seq(Byte)
        BY <1>2 DEF FrameByFlips
      <4>2. Len(frame) \in Nat
        BY <4>1
      <4> QED BY <4>1, <4>2, FlipIs
    <3> QED BY <3>1
  <2> QED BY <1>1, <2>1 DEF Place
<1>4. /\ frame' \in Seq(Byte) /\ Len(frame') = Len(frame) /\ Positions(frame') = Positions(frame)
  BY <1>1, <1>2, FlipIs DEF FrameByFlips
<1>5. AsSent'
  <2>1. flipped' \subseteq Positions(s) /\ recording' = recording
    BY <1>1, <1>2 DEF FrameByFlips, TraceInv, AsSent
  <2>2. IsFiniteSet(flipped') /\ Cardinality(flipped') = Cardinality(flipped) + 1
    BY <1>1, <1>2, <1>3, FS_AddElement DEF FrameByFlips
  <2>3. CASE flipped = {} /\ frame = s
    <3>1. flipped' = {p} /\ frame' = Flip(s, p) /\ p \in flipped'
      BY <1>1, <2>3
    <3> QED BY <2>1, <3>1 DEF AsSent
  <2>4. ASSUME NEW q \in flipped, flipped = {q}, frame = Flip(s, q) PROVE AsSent'
    <3>1. /\ flipped' = {q, p} /\ frame' = Flip(Flip(s, q), p) /\ p \in flipped' /\ q \in flipped' /\ q # p
      BY <1>1, <1>3, <2>4
    <3> QED BY <2>1, <3>1 DEF AsSent
  <2>5. ASSUME NEW q \in flipped, NEW r \in flipped, q # r, flipped = {q, r}, frame = Flip(Flip(s, q), r)
        PROVE  AsSent'
    <3>1. Cardinality(flipped) = 2
      BY <2>5, Cards
    <3>2. /\ frame' = Flip(Flip(Flip(s, q), r), p) /\ p \in flipped' /\ q \in flipped' /\ r \in flipped'
          /\ IsFiniteSet(flipped') /\ Cardinality(flipped') = 3
      BY <1>1, <2>2, <2>5, <3>1
    <3> QED BY <2>1, <3>2 DEF AsSent
  <2>6. Cardinality(flipped) # 3
    BY <1>1
  <2> QED BY <2>3, <2>4, <2>5, <2>6 DEF TraceInv, AsSent
<1>6. TraceTypes'
  BY <1>1, <1>4 DEF TraceInv, TraceTypes, Bounded, decoding
<1>7. Before' /\ During' /\ Judged'
  BY <1>1 DEF TraceInv, Before, During, Judged, Decoded, Idle, decoding, output
<1>8. Tabled'
  BY <1>1 DEF TraceInv, Before, Judged, Tabled, decoding, output
<1> QED BY <1>5, <1>6, <1>7, <1>8 DEF TraceInv

\* Only a frame with no bit flipped is received without repair.
LEMMA ReceiveStep ==
    ASSUME TraceInv, Receive
    PROVE  TraceInv'
<1>1. /\ at = "idle" /\ GoodReply(frame) /\ StartDecode(WordsIn(frame), Size)
      /\ UNCHANGED <<recording, frame, flipped, repaired, cut, verdict, output>>
  BY DEF Receive
<1>2. FrameByFlips /\ recording \in Recordings
  BY FlippedFrame DEF TraceInv, TraceTypes
<1>3. flipped = {} /\ frame = Sent(recording) /\ WordsIn(frame) = Encoded(recording)
      /\ Len(frame) = 6 + 2*Len(Encoded(recording)) /\ Encoded(recording) \in Seq(Words)
  BY <1>1, <1>2, SentIs, RecordingIs DEF FrameByFlips
<1>4. Len(WordsIn(frame)) <= Len(frame) /\ Prefix(WordsIn(frame), Encoded(recording))
  <2>1. Len(Encoded(recording)) \in Nat
    BY <1>3
  <2> QED BY <1>3, <2>1 DEF Prefix
<1>5. /\ Bounded' /\ Len(encoded') <= Len(frame') /\ at' = "lead" /\ maxSamples' = Size /\ Tracked'
  BY <1>1, <1>3, <1>4, Starting
<1>6. /\ repaired' = Nothing /\ ~cut' /\ verdict' = Nothing /\ profile' = Nothing /\ row' = Nothing
      /\ encoded' = Encoded(recording) /\ recording' = recording /\ flipped' = flipped /\ frame' = frame
  BY <1>1, <1>3 DEF TraceInv, Before, Judged, Tabled, StartDecode, output
<1>7. AsSent'
  BY <1>1 DEF TraceInv, AsSent
<1>8. TraceTypes'
  <2>1. cut' \in BOOLEAN
    BY <1>1 DEF TraceInv, TraceTypes
  <2> QED BY <1>2, <1>5, <1>6, <2>1 DEF TraceTypes
<1>9. Before' /\ Judged' /\ Tabled'
  BY <1>5, <1>6 DEF Before, Judged, Tabled, Decoded
<1>10. During'
  BY <1>3, <1>5, <1>6 DEF During, Size
<1> QED BY <1>7, <1>8, <1>9, <1>10 DEF TraceInv

\* One flipped bit is found, two are refused, of three some are found wrongly.
LEMMA RepairStep ==
    ASSUME TraceInv, TryRepair
    PROVE  TraceInv'
<1> DEFINE found == RepairingBits(frame)
           good == Cardinality(found) = 1 /\ (\A p \in found : GoodReply(Flip(frame, p)))
<1>1. /\ at = "idle" /\ ~GoodReply(frame)
      /\ UNCHANGED <<recording, frame, flipped, cut, output>>
  BY DEF TryRepair
<1>2. FrameByFlips /\ recording \in Recordings
  BY FlippedFrame DEF TraceInv, TraceTypes
<1>3. /\ recording' = recording /\ flipped' = flipped /\ frame' = frame
      /\ ~cut' /\ cut' = cut /\ profile' = Nothing /\ row' = Nothing
      /\ Idle /\ verdict = Nothing /\ repaired = Nothing
  BY <1>1 DEF TraceInv, Before, Judged, Tabled, output
<1>4. AsSent'
  BY <1>1 DEF TraceInv, AsSent
<1>5. flipped # {} /\ Cardinality(flipped) \in {1, 2, 3}
  <2>1. flipped # {}
    BY <1>1, <1>2 DEF FrameByFlips
  <2>2. Cardinality(flipped) # 0
    BY <1>2, <2>1, FS_EmptySet DEF FrameByFlips
  <2> QED BY <1>2, <2>1, <2>2 DEF FrameByFlips
<1>6. CASE good
  <2>1. PICK p \in found : repaired' = p /\ StartDecode(WordsIn(Flip(frame, p)), Size) /\ verdict' = verdict
    BY <1>6 DEF TryRepair
  <2>2. p \in Positions(frame)
    BY <2>1 DEF RepairingBits
  <2> DEFINE g == Flip(frame, p)
  <2>3. g \in Seq(Byte) /\ Len(g) = Len(frame) /\ Len(frame) = 6 + 2*Len(Encoded(recording))
        /\ Encoded(recording) \in Seq(Words) /\ Len(Encoded(recording)) \in Nat
    <3>1. Encoded(recording) \in Seq(Words)
      BY <1>2, RecordingIs
    <3>2. Len(Encoded(recording)) \in Nat
      BY <3>1
    <3> QED BY <1>2, <2>2, <3>1, <3>2, FlipIs, SentIs DEF FrameByFlips
  <2> HIDE DEF g
  <2>4. WordsIn(g) \in Seq(Words) /\ Len(WordsIn(g)) <= Len(frame)
    <3>1. Len(g) >= 6 /\ (Len(g) - 6) \div 2 = Len(Encoded(recording))
      BY <2>3
    <3>2. WordsIn(g) \in Seq(Words) /\ Len(WordsIn(g)) = Len(Encoded(recording))
      BY <2>3, <3>1, WordsInIs
    <3> QED BY <2>3, <3>2
  <2>5. /\ Bounded' /\ Len(encoded') <= Len(frame') /\ at' = "lead" /\ maxSamples' = Size
        /\ encoded' = WordsIn(g)
        /\ Prefix(WordsIn(g), Encoded(recording)) => Tracked'
    BY <1>1, <1>3, <2>1, <2>4, Starting DEF StartDecode, g
  <2>6. repaired' \in Positions(frame) /\ repaired' # Nothing /\ verdict' = Nothing
    BY <1>2, <1>3, <2>1, <2>2, Tellable DEF FrameByFlips
  <2>7. TraceTypes'
    <3>1. cut' \in BOOLEAN
      BY <1>1 DEF TraceInv, TraceTypes
    <3> QED BY <1>2, <1>3, <2>5, <2>6, <3>1 DEF TraceTypes
  <2>8. Before' /\ Judged' /\ Tabled'
    BY <1>3, <2>5, <2>6 DEF Before, Judged, Tabled, Decoded
  <2>9. \/ Tracked' /\ encoded' = Encoded(recording)
        \/ Cardinality(flipped) > 2
    <3>1. CASE Cardinality(flipped) = 1
      <4>1. g = Sent(recording)
        BY <1>2, <2>1, <3>1 DEF FrameByFlips, g
      <4>2. WordsIn(g) = Encoded(recording)
        BY <1>2, <4>1, SentIs
      <4> QED BY <2>3, <2>5, <4>2 DEF Prefix
    <3>2. CASE Cardinality(flipped) = 2
      <4>1. found = {}
        BY <1>2, <3>2 DEF FrameByFlips
      <4> QED BY <2>1, <4>1
    <3> QED BY <1>5, <3>1, <3>2
  <2>10. During'
    BY <1>3, <2>5, <2>6, <2>9 DEF During, Size
  <2> QED BY <1>4, <2>7, <2>8, <2>10 DEF TraceInv
<1>7. CASE ~good
  <2>1. /\ at' = "failed" /\ verdict' = "blank"
        /\ UNCHANGED <<encoded, maxSamples, pos, samples, value, count, repaired>>
    BY <1>7 DEF TryRepair
  <2>2. Cardinality(flipped) # 1
    <3> SUFFICES ASSUME Cardinality(flipped) = 1 PROVE good
      BY <1>7
    <3>1. PICK p \in Positions(frame) : found = {p} /\ Flip(frame, p) = Sent(recording)
      BY <1>2 DEF FrameByFlips
    <3>2. Cardinality(found) = 1
      BY <3>1, Cards
    <3> QED BY <1>2, <3>1, <3>2, SentIs
  <2>3. TraceTypes'
    BY <1>2, <1>3, <2>1 DEF TraceInv, TraceTypes, Bounded
  <2>4. Before'
    BY <1>3, <1>5, <2>1, <2>2 DEF Before, Idle
  <2>5. During' /\ Judged' /\ Tabled'
    BY <1>3, <2>1, Tellable DEF During, Judged, Tabled, Decoded
  <2> QED BY <1>4, <2>3, <2>4, <2>5 DEF TraceInv
<1> QED BY <1>6, <1>7

\* A capture has the first words.
LEMMA CaptureStep ==
    ASSUME TraceInv, DecodeCapture
    PROVE  TraceInv'
<1>1. /\ at = "idle" /\ flipped = {} /\ cut' = TRUE
      /\ UNCHANGED <<recording, frame, flipped, repaired, verdict, output>>
  BY DEF DecodeCapture
<1>2. FrameByFlips /\ recording \in Recordings
  BY FlippedFrame DEF TraceInv, TraceTypes
<1>3. WordsIn(frame) = Encoded(recording)
      /\ Len(frame) = 6 + 2*Len(Encoded(recording)) /\ Encoded(recording) \in Seq(Words)
  BY <1>1, <1>2, SentIs, RecordingIs DEF FrameByFlips
<1> DEFINE E == Encoded(recording)
<1>4. PICK n \in 0..Len(E)-1 : StartDecode(SubSeq(E, 1, n), Size)
  BY <1>3 DEF DecodeCapture
<1> DEFINE s == SubSeq(E, 1, n)
<1>5. s \in Seq(Words) /\ Len(s) <= Len(frame) /\ Prefix(s, E)
  <2> HIDE DEF E
  <2>1. Len(E) \in Nat /\ n \in Nat /\ n <= Len(E) /\ E \in Seq(Words)
    BY <1>3 DEF E
  <2>2. 1 \in 1..Len(E)+1 /\ 1 + n - 1 <= Len(E) /\ (1 + n) - 1 = n /\ \A i \in 1..n : (1 - 1) + i = i
    BY <2>1
  <2>3. /\ SubSeq(E, 1, (1 + n) - 1) \in Seq(Words) /\ Len(SubSeq(E, 1, (1 + n) - 1)) = n
        /\ \A i \in 1..n : SubSeq(E, 1, (1 + n) - 1)[i] = E[(1 - 1) + i]
    BY <2>1, <2>2, SubSeqIs
  <2>4. s \in Seq(Words) /\ Len(s) = n /\ \A i \in 1..n : s[i] = E[i]
    BY <2>2, <2>3
  <2> HIDE DEF s
  <2>5. Len(frame) = 6 + 2*Len(E)
    BY <1>3 DEF E
  <2> QED BY <2>1, <2>4, <2>5 DEF Prefix
<1> HIDE DEF s
<1>6. /\ Bounded' /\ Len(encoded') <= Len(frame') /\ at' = "lead" /\ maxSamples' = Size /\ Tracked'
  BY <1>1, <1>4, <1>5, Starting DEF s
<1>7. /\ repaired' = Nothing /\ verdict' = Nothing /\ profile' = Nothing /\ row' = Nothing
      /\ recording' = recording /\ flipped' = flipped /\ frame' = frame
  BY <1>1 DEF TraceInv, Before, Judged, Tabled, output
<1>8. AsSent'
  BY <1>1 DEF TraceInv, AsSent
<1>9. TraceTypes'
  BY <1>1, <1>2, <1>6, <1>7 DEF TraceTypes
<1>10. Before' /\ Judged' /\ Tabled'
  BY <1>6, <1>7 DEF Before, Judged, Tabled, Decoded
<1>11. During'
  BY <1>1, <1>6, <1>7 DEF During, Size
<1> QED BY <1>8, <1>9, <1>10, <1>11 DEF TraceInv

\* A step of the decoder.
LEMMA DecodingStep ==
    ASSUME TraceInv, Decoding
    PROVE  TraceInv'
<1>1. DecodeStep /\ UNCHANGED <<recording, frame, flipped, repaired, cut, verdict, output>>
  BY DEF Decoding
<1>2. at \in {"lead", "delta"}
  BY <1>1 DEF DecodeStep, End, RunBlock, StartDelta, DeltaWord, PlainBlock
<1>3. at' \in {"lead", "delta", "returned", "raised"} /\ UNCHANGED <<encoded, maxSamples>>
  BY <1>1, <1>2, Zenon DEF DecodeStep, End, RunBlock, StartDelta, DeltaWord, PlainBlock, Return, RaiseError, Continue
<1>4. /\ repaired' = repaired /\ cut' = cut /\ verdict' = verdict
      /\ recording' = recording /\ flipped' = flipped /\ frame' = frame
      /\ verdict = Nothing /\ profile' = Nothing /\ row' = Nothing
  BY <1>1, <1>2 DEF TraceInv, Judged, Tabled, output
<1>5. Bounded'
  BY <1>1, BoundedStep DEF TraceInv, TraceTypes
<1>6. AsSent'
  BY <1>1 DEF TraceInv, AsSent
<1>7. TraceTypes'
  BY <1>3, <1>4, <1>5 DEF TraceInv, TraceTypes
<1>8. Before' /\ Judged' /\ Tabled'
  BY <1>3, <1>4 DEF TraceInv, Before, Judged, Tabled, Decoded
<1>9. Tracked => Tracked'
  BY <1>1, <1>4, TrackedStep DEF TraceInv, TraceTypes
<1>10. During'
  BY <1>2, <1>3, <1>4, <1>9 DEF TraceInv, During, Decoded, Size
<1> QED BY <1>6, <1>7, <1>8, <1>10 DEF TraceInv

\* The last look at what was decoded.
LEMMA JudgeStep ==
    ASSUME TraceInv, Judge
    PROVE  TraceInv'
<1>1. /\ at \in {"returned", "raised"} /\ verdict = Nothing
      /\ verdict' = (IF Whole THEN "column" ELSE "blank")
      /\ UNCHANGED <<decoding, recording, frame, flipped, repaired, cut, output>>
  BY DEF Judge
<1>2. verdict' \in {"column", "blank"} /\ (verdict' = "column" <=> Whole) /\ verdict' # Nothing
  BY <1>1, Tellable
<1>3. AsSent' /\ TraceTypes'
  BY <1>1, <1>2 DEF TraceInv, AsSent, TraceTypes, Bounded, decoding
<1>4. Before'
  BY <1>1 DEF TraceInv, Before, decoding
<1>5. During'
  BY <1>1 DEF TraceInv, During, Decoded, Tracked, AtBlock, InDeltaBlock, decoding, Size
<1>6. Judged'
  BY <1>1, <1>2 DEF TraceInv, Judged, Decoded, Whole, decoding
<1>7. Tabled'
  BY <1>1, <1>2 DEF TraceInv, Judged, Tabled, output, decoding
<1> QED BY <1>3, <1>4, <1>5, <1>6, <1>7 DEF TraceInv

-----------------------------------------------------------------------------
(* The column and the row *)

\* The powers of ten that are needed.
LEMMA Tens == 10^0 = 1 /\ 10^2 = 100 /\ 10^3 = 1000
OBVIOUS

\* the four shapes a column has
SignedHundredths == Column(TRUE, 100, 2)
Thousandths == Column(FALSE, 1000, 3)
SignedOnes == Column(TRUE, 1, 0)
Ones == Column(FALSE, 1, 0)

\* A trace's column has one of the four shapes.
LEMMA ColumnsAre ==
    ASSUME NEW n \in Numbers
    PROVE  TraceColumns[n + 1] \in {SignedHundredths, Thousandths, SignedOnes, Ones}
<1>1. Len(TraceColumns) = 10
  BY DEF TraceColumns
<1>2. n \in {0, 1, 2, 3, 4, 5, 6, 7, 8, 9}
  <2>1. n \in 0..Len(TraceColumns)-1
    BY TraceAssumption
  <2> QED BY <1>1, <2>1
<1>3. /\ TraceColumns[1] = Column(TRUE, 100, 2) /\ TraceColumns[2] = Column(TRUE, 100, 2)
      /\ TraceColumns[3] = Column(FALSE, 1000, 3) /\ TraceColumns[4] = Column(FALSE, 1000, 3)
      /\ TraceColumns[5] = Column(TRUE, 1, 0) /\ TraceColumns[6] = Column(FALSE, 1, 0)
      /\ TraceColumns[7] = Column(FALSE, 1, 0) /\ TraceColumns[8] = Column(FALSE, 1000, 3)
      /\ TraceColumns[9] = Column(TRUE, 100, 2) /\ TraceColumns[10] = Column(TRUE, 100, 2)
  BY DEF TraceColumns
<1>4. n + 1 \in {1, 2, 3, 4, 5, 6, 7, 8, 9, 10}
  BY <1>2
<1> DEFINE i == n + 1
           T == TraceColumns
<1>5. /\ T[1] = SignedHundredths /\ T[2] = SignedHundredths /\ T[3] = Thousandths
      /\ T[4] = Thousandths /\ T[5] = SignedOnes /\ T[6] = Ones /\ T[7] = Ones
      /\ T[8] = Thousandths /\ T[9] = SignedHundredths /\ T[10] = SignedHundredths
  BY <1>3 DEF SignedHundredths, Thousandths, SignedOnes, Ones
<1> HIDE DEF i, T
<1>6. \A k \in {1, 2, 3, 4, 5, 6, 7, 8, 9, 10} : T[k] \in {SignedHundredths, Thousandths, SignedOnes, Ones}
  BY <1>5
<1>7. T[i] \in {SignedHundredths, Thousandths, SignedOnes, Ones}
  BY <1>4, <1>6 DEF i
<1> QED BY <1>7 DEF i, T

\* Nothing is rounded off, as a column has the decimals its scale needs.
LEMMA RoundedIs ==
    ASSUME NEW v \in Int, NEW s \in {1, 100, 1000}
    PROVE  Rounded(v * s, s) = v
<1>1. CASE s = 1
  BY <1>1 DEF Rounded
<1>2. CASE s = 100
  BY <1>2 DEF Rounded
<1>3. CASE s = 1000
  BY <1>3 DEF Rounded
<1> QED BY <1>1, <1>2, <1>3

\* A word as its range reads it: with a sign, two's complement.
LEMMA SignedIs ==
    ASSUME NEW w \in Words
    PROVE  ToSigned(w) \in Int /\ Reading(w, TRUE) = ToSigned(w) /\ Reading(w, FALSE) = w
<1>1. w \in Int /\ 0 <= w /\ w < 65536
  BY WordsAre
<1>2. ToSigned(w) = IF w >= 32768 THEN w - 65536 ELSE w
  BY Powers DEF ToSigned
<1> DEFINE t == ToSigned(w)
           S == -2^15..2^15-1
<1>3. \A n : n \in S <=> n \in Int /\ -32768 <= n /\ n <= 32767
  <2> DEFINE lo == -2^15
             hi == 2^15-1
  <2>1. lo = -32768 /\ hi = 32767
    BY Powers
  <2> HIDE DEF lo, hi
  <2>0. lo \in Int /\ hi \in Int
    BY <2>1
  <2>2. \A n : n \in lo..hi <=> n \in Int /\ lo <= n /\ n <= hi
    BY <2>0
  <2> QED BY <2>1, <2>2 DEF lo, hi
<1>4. t \in Int /\ t \in S /\ t % 65536 = w
  <2>1. t \in Int /\ -32768 <= t /\ t <= 32767 /\ t % 65536 = w
    <3> HIDE DEF t
    <3>1. t = IF w >= 32768 THEN w - 65536 ELSE w
      BY <1>2 DEF t
    <3> QED BY <1>1, <3>1
  <2> HIDE DEF t, S
  <2> QED BY <1>3, <2>1
<1>5. ASSUME NEW n \in S, n % 65536 = w PROVE n = t
  <2>1. n \in Int /\ -32768 <= n /\ n <= 32767
    BY <1>3
  <2> HIDE DEF S
  <2>2. n % 65536 = IF n < 0 THEN n + 65536 ELSE n
    BY <2>1
  <2> QED BY <1>2, <1>5, <2>1, <2>2
<1> DEFINE Reads(n) == n % WordRange = w
<1>6. t \in S /\ Reads(t) /\ \A n \in S : Reads(n) => n = t
  <2> HIDE DEF S, t
  <2> QED BY <1>4, <1>5, Moduli
<1>7. Reading(w, TRUE) = CHOOSE n \in S : Reads(n)
  BY DEF Reading
<1>8. Reading(w, FALSE) = CHOOSE n \in Words : Reads(n)
  BY DEF Reading
<1>9. w \in Words /\ Reads(w) /\ \A n \in Words : Reads(n) => n = w
  BY <1>1, WordsAre, Moduli
<1> HIDE DEF Reads, S, t
<1>10. Reading(w, TRUE) = t
  BY <1>6, <1>7, Zenon
<1>11. Reading(w, FALSE) = w
  BY <1>8, <1>9, Zenon
<1>12. t \in Int
  BY <1>4
<1> QED BY <1>10, <1>11, <1>12 DEF t

\* A value, times its scale, is what the word says.
LEMMA ValueIs ==
    ASSUME NEW n \in Numbers, NEW raw \in Words
    PROVE  LET c == TraceColumns[n + 1] IN
           /\ ScaledValue(raw, c) \in Int
           /\ ScaledValue(raw, c) * c.scale = Reading(raw, c.signed) * 10^c.decimals
<1> DEFINE c == TraceColumns[n + 1]
           v == IF c.signed THEN ToSigned(raw) ELSE raw
<1>1. c \in {SignedHundredths, Thousandths, SignedOnes, Ones}
  BY ColumnsAre
<1> HIDE DEF c
<1>2. c.signed \in BOOLEAN /\ 10^c.decimals = c.scale /\ c.scale \in {1, 100, 1000}
  <2> DEFINE Fine == c.signed \in BOOLEAN /\ 10^c.decimals = c.scale /\ c.scale \in {1, 100, 1000}
  <2>1. c = SignedHundredths => Fine
    BY Tens DEF Column, SignedHundredths
  <2>2. c = Thousandths => Fine
    BY Tens DEF Column, Thousandths
  <2>3. c = SignedOnes => Fine
    BY Tens DEF Column, SignedOnes
  <2>4. c = Ones => Fine
    BY Tens DEF Column, Ones
  <2> HIDE DEF Fine
  <2>5. Fine
    BY <1>1, <2>1, <2>2, <2>3, <2>4
  <2> QED BY <2>5 DEF Fine
<1>3. v \in Int /\ Reading(raw, c.signed) = v
  <2>1. raw \in Int /\ ToSigned(raw) \in Int /\ Reading(raw, TRUE) = ToSigned(raw) /\ Reading(raw, FALSE) = raw
    <3>1. raw \in Int
      BY WordsAre
    <3> QED BY <3>1, SignedIs
  <2>2. CASE c.signed = TRUE
    BY <2>1, <2>2
  <2>3. CASE c.signed = FALSE
    BY <2>1, <2>3
  <2> QED BY <1>2, <2>2, <2>3, ZenonT(60)
<1>4. ScaledValue(raw, c) = Rounded(v * c.scale, c.scale)
  BY <1>2 DEF ScaledValue
<1>5. ScaledValue(raw, c) = v
  BY <1>2, <1>3, <1>4, RoundedIs
<1> QED BY <1>2, <1>3, <1>5 DEF c

\* A trace's column is never mistaken for none.
LEMMA ProfileIs ==
    ASSUME NEW n \in Numbers, NEW decoded \in Seq(Words) \union {Nothing}, recording \in Recordings
    PROVE  /\ ProfileFrame(n, Info, decoded, Nothing) # Nothing
           /\ Len(ProfileFrame(n, Info, decoded, Nothing).times) = Size
           /\ Len(ProfileFrame(n, Info, decoded, Nothing).values) = IF decoded = Nothing THEN Size ELSE Len(decoded)
<1> DEFINE p == ProfileFrame(n, Info, decoded, Nothing)
<1>1. Size \in Nat /\ Size > 0
  BY RecordingIs DEF Size
<1>2. p = [trace |-> n, times |-> p.times, values |-> p.values]
  BY DEF ProfileFrame
<1>3. p.times = [i \in 1..Size |-> ((i - 1) - StartCycle) * Interval]
  BY DEF ProfileFrame, Info, SecondsValue
<1>4. p.times \in Seq(Int) /\ Len(p.times) = Size
  <2>1. \A i \in 1..Size : ((i - 1) - StartCycle) * Interval \in Int
    BY <1>1, TraceAssumption
  <2> HIDE DEF p
  <2> QED BY <1>1, <1>3, <2>1
<1>5. p.values \in Seq(Int \union {Nothing}) /\ Len(p.values) = IF decoded = Nothing THEN Size ELSE Len(decoded)
  <2>1. CASE decoded = Nothing
    <3>1. p.values = [i \in 1..Size |-> Nothing]
      BY <2>1 DEF ProfileFrame, Info
    <3> HIDE DEF p
    <3> QED BY <1>1, <2>1, <3>1
  <2>2. CASE decoded # Nothing
    <3>1. p.values = [i \in DOMAIN decoded |-> ScaledValue(decoded[i], TraceColumns[n + 1])]
      BY <2>2 DEF ProfileFrame
    <3>2. decoded \in Seq(Words)
      BY <2>2
    <3>3. DOMAIN decoded = 1..Len(decoded) /\ Len(decoded) \in Nat /\ \A i \in 1..Len(decoded) : decoded[i] \in Words
      BY <3>2
    <3>4. \A i \in 1..Len(decoded) : ScaledValue(decoded[i], TraceColumns[n + 1]) \in Int
      BY <3>3, ValueIs
    <3> HIDE DEF p
    <3> QED BY <2>2, <3>1, <3>3, <3>4
  <2> QED BY <2>1, <2>2
<1> HIDE DEF p
<1>6. p \in [trace : Numbers, times : Seq(Int), values : Seq(Int \union {Nothing})]
  BY <1>2, <1>4, <1>5
<1>7. p # Nothing
  BY <1>6, NothingAssumption
<1> QED BY <1>4, <1>5, <1>7 DEF p

\* The trace is written to the CSV.
LEMMA TabulateStep ==
    ASSUME TraceInv, Tabulate
    PROVE  TraceInv'
<1> DEFINE decoded == IF verdict = "column" THEN samples ELSE Nothing
<1>1. /\ verdict # Nothing
      /\ \E trace \in Numbers : profile' = ProfileFrame(trace, Info, decoded, Nothing)
      /\ row' = IF cut THEN Nothing ELSE DispenseRecord(decoded, repaired, at = "failed", Nothing)
      /\ UNCHANGED <<decoding, recording, frame, flipped, repaired, cut, verdict>>
  BY DEF Tabulate
<1>2. profile' # Nothing
  <2>1. PICK trace \in Numbers : profile' = ProfileFrame(trace, Info, decoded, Nothing)
    BY <1>1
  <2>2. decoded \in Seq(Words) \union {Nothing}
    BY DEF TraceInv, TraceTypes, Bounded
  <2> HIDE DEF decoded
  <2> QED BY <2>1, <2>2, ProfileIs DEF TraceInv, TraceTypes
<1>3. AsSent' /\ TraceTypes'
  BY <1>1 DEF TraceInv, AsSent, TraceTypes, Bounded, decoding
<1>4. Before' /\ During' /\ Judged'
  BY <1>1 DEF TraceInv, Before, During, Judged, Decoded, Tracked, AtBlock, InDeltaBlock, Idle, Whole, decoding, Size
<1>5. Tabled'
  BY <1>1, <1>2 DEF TraceInv, Tabled, decoding, Info, Size
<1> QED BY <1>3, <1>4, <1>5 DEF TraceInv

\* Every step keeps the invariant.
LEMMA TraceStep == TraceInv /\ [TraceNext]_traceVars => TraceInv'
<1> SUFFICES ASSUME TraceInv, [TraceNext]_traceVars PROVE TraceInv'
  OBVIOUS
<1>1. ASSUME NEW p \in Positions(frame), FlipBit(p) PROVE TraceInv'
  BY <1>1, FlipStep
<1>2. CASE Receive
  BY <1>2, ReceiveStep
<1>3. CASE TryRepair
  BY <1>3, RepairStep
<1>4. CASE DecodeCapture
  BY <1>4, CaptureStep
<1>5. CASE Decoding
  BY <1>5, DecodingStep
<1>6. CASE Judge
  BY <1>6, JudgeStep
<1>7. CASE Tabulate
  BY <1>7, TabulateStep
<1>8. CASE UNCHANGED traceVars
  <2>1. /\ UNCHANGED <<at, encoded, maxSamples, pos, samples, value, count>>
        /\ UNCHANGED <<recording, frame, flipped, repaired, cut, verdict, profile, row>>
    BY <1>8 DEF traceVars, decoding, output
  <2>2. AsSent' /\ TraceTypes'
    BY <2>1 DEF TraceInv, AsSent, TraceTypes, Bounded
  <2>3. Before' /\ During' /\ Judged'
    BY <2>1, ZenonT(60) DEF TraceInv, Before, During, Judged, Decoded, Tracked, AtBlock, InDeltaBlock, Idle, Whole, Size
  <2>4. Tabled'
    BY <2>1 DEF TraceInv, Tabled, Info, Size
  <2> QED BY <2>2, <2>3, <2>4 DEF TraceInv
<1>9. CASE Done
  BY <1>8, <1>9 DEF Done
<1> QED BY <1>1, <1>2, <1>3, <1>4, <1>5, <1>6, <1>7, <1>8, <1>9 DEF TraceNext

\* The invariant holds always.
LEMMA TraceInvariant == TraceSpec => []TraceInv
<1>1. TraceInit => TraceInv
  BY TraceStart
<1>2. TraceInv /\ [TraceNext]_traceVars => TraceInv'
  BY TraceStep
<1> QED BY <1>1, <1>2, PTL DEF TraceSpec

-----------------------------------------------------------------------------
(* What the invariant says *)

\* What a verdict says of the samples and the flipped bits.
LEMMA JudgedTraces ==
    ASSUME TraceInv, verdict # Nothing
    PROVE  /\ verdict = "column" => /\ Decoded /\ Whole /\ Len(samples) = Size
                                    /\ \/ samples = Recorded(recording)
                                       \/ repaired # Nothing /\ Cardinality(flipped) > 2
           /\ verdict = "blank" /\ ~cut => Cardinality(flipped) > 1
<1>0. recording \in Recordings /\ Bounded /\ verdict \in {"column", "blank"} /\ "column" # "blank"
  BY DEF TraceInv, TraceTypes
<1>1. at \in {"returned", "raised", "failed"}
  BY DEF TraceInv, TraceTypes, Before, Judged
<1>2. CASE at = "failed"
  BY <1>2, <1>0 DEF TraceInv, Before
<1>3. CASE at \in {"returned", "raised"}
  <2>1. Decoded /\ maxSamples = Size /\ (verdict = "column" <=> Whole)
    BY <1>3 DEF TraceInv, During, Judged, Decoded
  <2>2. \/ Tracked /\ (~cut => Len(encoded) = Len(Encoded(recording)))
        \/ repaired # Nothing /\ Cardinality(flipped) > 2
    BY <2>1 DEF TraceInv, During
  <2>3. IsFiniteSet(flipped) /\ Cardinality(flipped) \in {0, 1, 2, 3}
    BY <1>0, FlippedFrame DEF TraceInv, FrameByFlips
  <2>4. ASSUME verdict = "column" PROVE /\ Whole /\ Len(samples) = Size
                                        /\ \/ samples = Recorded(recording)
                                           \/ repaired # Nothing /\ Cardinality(flipped) > 2
    <3>1. Whole /\ Len(samples) = Size
      BY <2>1, <2>4 DEF Whole
    <3>2. CASE Tracked
      <4>1. Recorded(recording) \in Seq(Words) /\ samples \in Seq(Words)
        BY <1>0, RecordingIs DEF Bounded
      <4>2. /\ Len(samples) = Len(Recorded(recording))
            /\ \A i \in 1..Len(samples) : samples[i] = Recorded(recording)[i]
        BY <3>1, <3>2 DEF Size, Tracked, Prefix
      <4> DEFINE R == Recorded(recording)
      <4> HIDE DEF R
      <4>3. samples = R
        BY <4>1, <4>2 DEF R
      <4> QED BY <3>1, <4>3 DEF R
    <3> QED BY <2>2, <3>1, <3>2
  <2>5. ASSUME verdict = "blank", ~cut PROVE Cardinality(flipped) > 1
    <3>1. ~Whole
      BY <2>1, <2>5
    <3>2. CASE Tracked
      <4>1. Len(encoded) = Len(Encoded(recording)) \/ Cardinality(flipped) > 2
        BY <2>2, <2>5
      <4>2. ASSUME Len(encoded) = Len(Encoded(recording)) PROVE FALSE
        <5>1. Encoded(recording) \in Seq(Words)
          BY <1>0, RecordingIs
        <5>2. Len(Encoded(recording)) \in Nat
          BY <5>1
        <5>3. at = "returned"
          BY <1>3, <3>2, <4>2, <5>2 DEF Tracked
        <5>4. Len(samples) = maxSamples
          BY <3>2, <4>2, <5>3 DEF Tracked
        <5> QED BY <3>1, <5>3, <5>4 DEF Whole
      <4> QED BY <2>3, <4>1, <4>2
    <3> QED BY <2>2, <2>3, <3>2
  <2> QED BY <2>1, <2>4, <2>5
<1> QED BY <1>1, <1>2, <1>3

\* What the CSV holds of a trace: times, and values or none.
LEMMA TabledTraces ==
    ASSUME TraceInv, profile # Nothing
    PROVE  /\ profile.trace \in Numbers /\ verdict # Nothing
           /\ Len(profile.times) = Size /\ Len(profile.values) = Size
           /\ \A i \in 1..Size : profile.times[i] = ((i - 1) - StartCycle) * Interval
           /\ verdict = "column" =>
                 \A i \in 1..Size :
                    profile.values[i] = ScaledValue(samples[i], TraceColumns[profile.trace + 1])
           /\ verdict = "blank" => \A i \in 1..Size : profile.values[i] = Nothing
<1> DEFINE decoded == IF verdict = "column" THEN samples ELSE Nothing
<1>1. PICK n \in Numbers : profile = ProfileFrame(n, Info, decoded, Nothing)
  BY DEF TraceInv, Tabled
<1>2. verdict # Nothing /\ verdict \in {"column", "blank"} /\ recording \in Recordings /\ samples \in Seq(Words)
  BY DEF TraceInv, Judged, TraceTypes, Bounded
<1>3. samples # Nothing
  BY <1>2, NothingAssumption
<1>4. decoded \in Seq(Words) \union {Nothing}
  BY <1>2
<1>5. profile.trace = n /\ profile.times = [i \in 1..Size |-> ((i - 1) - StartCycle) * Interval]
  BY <1>1 DEF ProfileFrame, Info, SecondsValue
<1>6. verdict = "column" => Len(samples) = Size
  BY <1>2, JudgedTraces
<1>7. Len(profile.times) = Size /\ Len(profile.values) = Size
  <2>1. /\ Len(profile.times) = Size
        /\ Len(profile.values) = IF decoded = Nothing THEN Size ELSE Len(decoded)
    <3> HIDE DEF decoded
    <3> QED BY <1>1, <1>2, <1>4, ProfileIs
  <2> QED BY <1>2, <1>3, <1>6, <2>1
<1>8. ASSUME verdict = "column"
      PROVE  \A i \in 1..Size : profile.values[i] = ScaledValue(samples[i], TraceColumns[profile.trace + 1])
  <2>1. decoded = samples
    BY <1>8
  <2>2. profile.values = [i \in DOMAIN samples |-> ScaledValue(samples[i], TraceColumns[n + 1])]
    BY <1>1, <1>3, <2>1 DEF ProfileFrame
  <2>3. DOMAIN samples = 1..Size
    BY <1>2, <1>6, <1>8
  <2> QED BY <1>5, <2>2, <2>3
<1>9. ASSUME verdict = "blank" PROVE \A i \in 1..Size : profile.values[i] = Nothing
  <2>1. decoded = Nothing
    BY <1>9
  <2>2. profile.values = [i \in 1..Size |-> Nothing]
    BY <1>1, <2>1 DEF ProfileFrame, Info
  <2> QED BY <2>2
<1> QED BY <1>2, <1>5, <1>7, <1>8, <1>9

\* A frame's first n bytes.
LEMMA FirstBytes ==
    ASSUME NEW f \in Seq(Byte), NEW n \in 0..Len(f)
    PROVE  /\ SubSeq(f, 1, n) \in Seq(Byte) /\ Len(SubSeq(f, 1, n)) = n
           /\ \A i \in 1..n : SubSeq(f, 1, n)[i] = f[i]
<1>1. Len(f) \in Nat /\ n \in Nat /\ n <= Len(f)
  OBVIOUS
<1>2. SubSeq(f, 1, n) = [i \in 1..n |-> f[i]]
  <2>1. n - 1 + 1 = n /\ \A i \in 1..n : 1 + i - 1 = i
    BY <1>1
  <2> QED BY <1>1, <2>1
<1>3. \A i \in 1..n : i \in 1..Len(f)
  BY <1>1
<1> QED BY <1>1, <1>2, <1>3

\* Each byte takes the register where the generator's shifts take it.
LEMMA ByDefinition ==
    ASSUME NEW f \in Seq(Byte), NEW n \in 1..Len(f)
    PROVE  Crc16(SubSeq(f, 1, n)) = NextByDefinition(Crc16(SubSeq(f, 1, n - 1)), f[n])
<1> DEFINE g == SubSeq(f, 1, n)
           h == SubSeq(f, 1, n - 1)
<1>0. Len(f) \in Nat /\ n \in Nat /\ n >= 1 /\ n - 1 \in 0..Len(f) /\ n \in 0..Len(f) /\ f[n] \in Byte /\ n - 1 \in Nat
  OBVIOUS
<1>1. /\ g \in Seq(Byte) /\ Len(g) = n /\ \A i \in 1..n : g[i] = f[i]
      /\ h \in Seq(Byte) /\ Len(h) = n - 1 /\ \A i \in 1..n - 1 : h[i] = f[i]
  BY <1>0, FirstBytes
<1> HIDE DEF g, h
<1>2. Register(g)[n - 1] = Register(h)[n - 1]
  <2>1. n - 1 <= Len(g) /\ n - 1 <= Len(h) /\ n - 1 \in 0..n - 1 /\ \A i \in 1..n - 1 : i \in 1..n /\ g[i] = h[i]
    BY <1>0, <1>1
  <2>2. \A i \in 1..n - 1 : g[i] = h[i]
    BY <2>1
  <2>3. \A i \in 0..n - 1 : Register(g)[i] = Register(h)[i]
    BY <1>0, <1>1, <2>1, <2>2, RegisterOfPrefix
  <2> QED BY <2>1, <2>3
<1>3. Register(g)[n] = NextCrc(Register(g)[n - 1], g[n]) /\ g[n] = f[n]
  <2>1. n \in 1..Len(g) /\ n \in 1..n
    BY <1>0, <1>1
  <2> QED BY <1>1, <2>1, RegisterIs
<1>4. Crc16(g) = Register(g)[n] /\ Crc16(h) = Register(h)[n - 1]
  BY <1>1 DEF Crc16
<1>5. Crc16(h) \in Word
  BY <1>1, CrcIsWord
<1>6. NextByDefinition(Crc16(h), f[n]) = NextCrc(Crc16(h), f[n])
  BY <1>0, <1>5, TableIsGenerator
<1> QED BY <1>2, <1>3, <1>4, <1>6 DEF g, h

\* Every variable of a trace has its type, whatever was recorded and whichever
\* bits were flipped: there are never more samples than the profile has, and
\* nothing is read past the words (decode in profile_decode.py).
THEOREM TraceTypeCorrect == TraceSpec => []TraceTypeOK
<1>1. TraceInv => TraceTypeOK
  <2> SUFFICES ASSUME TraceInv PROVE TraceTypeOK
    OBVIOUS
  <2>1. TraceTypes
    BY DEF TraceInv
  <2>2. \A i \in DOMAIN samples : samples[i] \in Words
    BY <2>1 DEF TraceTypes, Bounded
  <2>3. flipped \subseteq Positions(frame)
    BY <2>1, FlippedFrame DEF TraceInv, AsSent, FrameByFlips, TraceTypes
  <2>4. profile # Nothing => Len(profile.times) = Size /\ Len(profile.values) = Size
    BY TabledTraces
  <2> QED BY <2>1, <2>2, <2>3, <2>4 DEF TraceTypeOK, TraceTypes, Bounded
<1> QED BY <1>1, TraceInvariant, PTL

\* A column that a trace is given holds the pump's recording, or is told as
\* reconstructed of a frame with more than two flipped bits (decode_traces).
THEOREM ColumnsAreRecordedAlways == TraceSpec => []ColumnsAreRecorded
<1>1. TraceInv => ColumnsAreRecorded
  <2> SUFFICES ASSUME TraceInv, verdict = "column" PROVE ColumnsAreRecorded
    BY DEF ColumnsAreRecorded
  <2>1. verdict # Nothing
    BY Tellable
  <2> QED BY <2>1, JudgedTraces DEF ColumnsAreRecorded, Size
<1> QED BY <1>1, TraceInvariant, PTL

\* No trace is lost to a single flipped bit (try_repair in crc_repair.py).
THEOREM OneFlipMendedAlways == TraceSpec => []OneFlipMended
<1>1. TraceInv => OneFlipMended
  <2> SUFFICES ASSUME TraceInv, verdict = "blank", ~cut PROVE Cardinality(flipped) > 1
    BY DEF OneFlipMended
  <2>1. verdict # Nothing
    BY Tellable
  <2> QED BY <2>1, JudgedTraces
<1> QED BY <1>1, TraceInvariant, PTL

\* One interval more.
LEMMA OneMoreTimes ==
    ASSUME NEW a \in Int, NEW b \in Int
    PROVE  (a + 1) * b - a * b = b
OBVIOUS

\* What the CSV holds of a trace that came unharmed is the recording, its samples
\* at their distance from the trigger, their values not rounded (profile_frame).
THEOREM CsvIsRecordedAlways == TraceSpec => []CsvIsRecorded
<1>1. TraceInv => CsvIsRecorded
  <2> SUFFICES ASSUME TraceInv, profile # Nothing, verdict = "column", flipped = {} PROVE CsvIsRecorded
    BY DEF CsvIsRecorded
  <2> DEFINE n == profile.trace
             R == Recorded(recording)
  <2>1. /\ n \in Numbers /\ verdict # Nothing
        /\ \A i \in 1..Size : profile.times[i] = ((i - 1) - StartCycle) * Interval
        /\ \A i \in 1..Size : profile.values[i] = ScaledValue(samples[i], TraceColumns[n + 1])
    BY TabledTraces
  <2>2. samples = R
    <3>1. ~(Cardinality(flipped) > 2)
      BY Cards
    <3> QED BY <2>1, <3>1, JudgedTraces
  <2>3. R \in Seq(Words) /\ Size = Len(R) /\ Size \in Nat
    <3>1. R \in Seq(Words)
      BY RecordingIs DEF TraceInv, TraceTypes
    <3> QED BY <3>1 DEF Size
  <2> HIDE DEF R, n
  <2>4. StartCycle < Size => profile.times[StartCycle + 1] = 0
    <3> SUFFICES ASSUME StartCycle < Size PROVE profile.times[StartCycle + 1] = 0
      OBVIOUS
    <3>1. StartCycle + 1 \in 1..Size /\ ((StartCycle + 1) - 1) - StartCycle = 0
      BY <2>3, TraceAssumption
    <3>2. profile.times[StartCycle + 1] = 0 * Interval
      BY <2>1, <3>1
    <3> QED BY <3>2, TraceAssumption
  <2>5. \A i \in 1..Size-1 : profile.times[i + 1] - profile.times[i] = Interval
    <3> TAKE i \in 1..Size-1
    <3> DEFINE a == (i - 1) - StartCycle
    <3>1. a \in Int /\ i \in 1..Size /\ i + 1 \in 1..Size /\ ((i + 1) - 1) - StartCycle = a + 1
      BY <2>3, TraceAssumption
    <3>2. profile.times[i] = a * Interval /\ profile.times[i + 1] = (a + 1) * Interval
      BY <2>1, <3>1
    <3> HIDE DEF a
    <3>3. (a + 1) * Interval - a * Interval = Interval
      BY <3>1, TraceAssumption, OneMoreTimes
    <3> QED BY <3>2, <3>3
  <2>6. \A i \in 1..Size :
            profile.values[i] * TraceColumns[n + 1].scale =
                Reading(R[i], TraceColumns[n + 1].signed) * 10^(TraceColumns[n + 1].decimals)
    <3> TAKE i \in 1..Size
    <3>1. R[i] \in Words /\ profile.values[i] = ScaledValue(R[i], TraceColumns[n + 1])
      BY <2>1, <2>2, <2>3
    <3> QED BY <2>1, <3>1, ValueIs
  <2> QED BY <2>4, <2>5, <2>6 DEF CsvIsRecorded, n, R
<1> QED BY <1>1, TraceInvariant, PTL

\* The dispense row tells of what its profile holds: nothing where there is no
\* column, and a repair where, and only where, one is in it (dispense_record).
THEOREM RowIsHonestAlways == TraceSpec => []RowIsHonest
<1>1. TraceInv => RowIsHonest
  <2> SUFFICES ASSUME TraceInv, row # Nothing PROVE RowIsHonest
    BY DEF RowIsHonest
  <2> DEFINE decoded == IF verdict = "column" THEN samples ELSE Nothing
  <2>1. profile # Nothing /\ row = DispenseRecord(decoded, repaired, at = "failed", Nothing)
    BY DEF TraceInv, Tabled
  <2>2. /\ row.blank <=> decoded = Nothing
        /\ row.reconstructed <=> repaired # Nothing /\ decoded # Nothing
    BY <2>1 DEF DispenseRecord
  <2>3. /\ verdict # Nothing /\ verdict \in {"column", "blank"} /\ recording \in Recordings
        /\ samples \in Seq(Words) /\ profile.trace \in Numbers
    BY <2>1, TabledTraces DEF TraceInv, TraceTypes, Bounded
  <2>4. samples # Nothing
    BY <2>3, NothingAssumption
  <2>5. decoded = Nothing <=> verdict = "blank"
    BY <2>3, <2>4
  <2>6. 1 \in 1..Size
    <3>1. Size \in Nat /\ Size > 0
      BY <2>3, RecordingIs DEF Size
    <3> QED BY <3>1
  <2>7. verdict = "blank" => profile.values[1] = Nothing
    BY <2>1, <2>6, TabledTraces
  <2>8. ASSUME verdict = "column" PROVE profile.values[1] # Nothing
    <3>1. Len(samples) = Size
      BY <2>3, <2>8, JudgedTraces
    <3>2. samples[1] \in Words
      BY <2>3, <2>6, <3>1
    <3>3. profile.values[1] = ScaledValue(samples[1], TraceColumns[profile.trace + 1])
      BY <2>1, <2>6, <2>8, TabledTraces
    <3>4. profile.values[1] \in Int
      BY <2>3, <3>2, <3>3, ValueIs
    <3> QED BY <3>4, NothingAssumption
  <2>9. verdict = "column" /\ repaired = Nothing => samples = Recorded(recording)
    BY <2>3, JudgedTraces
  <2> HIDE DEF decoded
  <2> QED BY <2>2, <2>3, <2>5, <2>7, <2>8, <2>9 DEF RowIsHonest
<1> QED BY <1>1, TraceInvariant, PTL

\* The table's register is the generator polynomial's, bit after bit (crc16.py),
\* at whatever byte a bit is flipped in.
THEOREM CrcAsDefinedAlways == TraceSpec => []CrcAsDefined
<1>1. TraceInv => CrcAsDefined
  <2> SUFFICES ASSUME TraceInv, NEW p \in flipped
               PROVE  Crc16(SubSeq(frame, 1, p[1])) =
                          NextByDefinition(Crc16(SubSeq(frame, 1, p[1] - 1)), frame[p[1]])
    BY DEF CrcAsDefined
  <2>1. frame \in Seq(Byte) /\ p \in Positions(frame)
    BY FlippedFrame DEF TraceInv, TraceTypes, AsSent, FrameByFlips
  <2>2. p[1] \in 1..Len(frame)
    BY <2>1, FlipIs
  <2> QED BY <2>1, <2>2, ByDefinition
<1> QED BY <1>1, TraceInvariant, PTL

-----------------------------------------------------------------------------
(* Commands and their answers (PumpClient) *)

USE LengthsAssumption, NoneAssumption

\* The gateway answers only once it has something to answer, and with what
\* reflects it; a command has an outcome only when it is done.
Answered ==
    /\ event # None => event \in Events /\ answer \in Answers(event)
    /\ event = None => answer = None /\ arrived = 0
    /\ gateway = "answered" => event # None
    /\ gateway \in {"waiting", "bus"} => event = None
    /\ received <= arrived
    /\ pc # "done" => outcome = None

LEMMA Lengths ==
    /\ HeaderLen \in Nat /\ FrameLen \in Nat /\ MaxPacket \in Nat
    /\ Timeout \in Nat /\ Margin \in Nat /\ SocketTimeout \in Nat
BY DEF SocketTimeout

LEMMA AnswerTypes ==
    ASSUME NEW e \in Events, NEW a \in Answers(e)
    PROVE  /\ a.len \in 0..(MaxPacket + 2)
           /\ a.rc \in {"NO_ERR", "copied", "other", "SERIAL_OUTPUT_INVALID_CRC",
                        "SERIAL_READ_TIMEOUT"}
           /\ e \in Frames => a.len = HeaderLen + FrameLen
<1>1. CASE e \in Frames
  <2>1. CASE e.intact
    BY <1>1, <2>1 DEF Answers, Answer, Frames
  <2>2. CASE ~e.intact
    BY <1>1, <2>2 DEF Answers, Answer, Frames
  <2> QED BY <2>1, <2>2
<1>2. CASE e = Silence
  BY <1>2 DEF Answers, Answer, Silence, Frames
<1>3. CASE e = Refusal
  BY <1>3 DEF Answers, Answer, Refusal, Frames
<1>4. CASE e = Garbage
  BY <1>4 DEF Answers, Garbage, Frames
<1> QED BY <1>1, <1>2, <1>3, <1>4 DEF Events

LEMMA Start == Init => TypeOK /\ Answered
<1>1. Init => TypeOK
  BY Lengths DEF Init, TypeOK
<1>2. Init => Answered
  BY DEF Init, Answered
<1> QED BY <1>1, <1>2

LEMMA AnsweredStep == ASSUME TypeOK, Answered, [Next]_vars PROVE Answered'
<1> USE DEF Answered
<1>1. CASE UNCHANGED vars
  BY <1>1 DEF vars, client, box
<1>2. CASE Client
  <2>1. UNCHANGED <<event, answer, arrived, gateway>>
    BY <1>2 DEF Client, Connect, ConnectFails, Breaks, Recv, RecvEnds, RecvTimeout, Parse, box
  <2>2. pc' # "done" => outcome' = outcome /\ pc # "done"
    BY <1>2 DEF Client, Connect, ConnectFails, Breaks, Recv, RecvEnds, RecvTimeout, Parse, Raise
  <2>3. received' <= arrived'
    BY <1>2, <2>1 DEF Client, Connect, ConnectFails, Breaks, Recv, Room, RecvEnds, RecvTimeout, Parse, TypeOK
  <2> QED BY <2>1, <2>2, <2>3
<1>3. CASE Reaches
  BY <1>3 DEF Reaches, client
<1>4. CASE Responds
  BY <1>4 DEF Responds, client
<1>5. CASE Deliver
  <2>1. event \in Events /\ answer.len \in Nat
    BY <1>5, AnswerTypes DEF Deliver
  <2>2. received' <= arrived'
    BY <1>5, <2>1 DEF Deliver, client, TypeOK
  <2> QED BY <1>5, <2>1, <2>2 DEF Deliver, client, box
<1>6. CASE Close
  BY <1>6 DEF Close, client
<1>7. CASE Tick
  BY <1>7 DEF Tick
<1> QED BY <1>1, <1>2, <1>3, <1>4, <1>5, <1>6, <1>7 DEF Next, Elsewhere, Stop

LEMMA TypeStep == ASSUME TypeOK, Answered, [Next]_vars PROVE TypeOK'
<1> USE DEF TypeOK, SocketTimeout
<1>1. CASE UNCHANGED vars
  BY <1>1 DEF vars, client, box
<1>2. CASE Connect
  BY <1>2 DEF Connect, box
<1>3. ASSUME NEW kind \in {"ConnectError", "NetworkError", "ProtocolError"}, Raise(kind),
             UNCHANGED <<received, age, box, arrived, prompt, spent>>
      PROVE  TypeOK'
  BY <1>3 DEF Raise, box, Outcomes, Codes
<1>4. CASE Recv
  BY <1>4 DEF Recv, Room, box
<1>5. CASE RecvEnds
  BY <1>5 DEF RecvEnds, box
<1>6. CASE RecvTimeout
  BY <1>6, <1>3 DEF RecvTimeout, box
<1>7. CASE Parse
  <2>1. CASE received > 0 /\ Parses
    <3>1. outcome' = CommandOutcome
      BY <1>7, <2>1 DEF Parse
    <3>2. answer.rc \in Codes
      BY <2>1, AnswerTypes DEF Codes, Answered
    <3>3. CommandOutcome \in Outcomes
      BY <3>2 DEF CommandOutcome, FrameParses, Frames, Outcomes, Codes
    <3> QED BY <1>7, <3>1, <3>3 DEF Parse, box
  <2>2. CASE ~(received > 0 /\ Parses)
    BY <1>7, <2>2 DEF Parse, box, Outcomes, Codes
  <2> QED BY <2>1, <2>2
<1>8. CASE Reaches
  BY <1>8 DEF Reaches, client
<1>9. CASE Responds
  BY <1>9 DEF Responds, client
<1>10. CASE Deliver
  BY <1>10, AnswerTypes DEF Deliver, client, box, Answered
<1>11. CASE Close
  BY <1>11 DEF Close, client
<1>12. CASE Tick
  BY <1>12 DEF Tick
<1>13. CASE ConnectFails \/ Breaks
  BY <1>13, <1>3 DEF ConnectFails, Breaks
<1> QED BY <1>1, <1>2, <1>4, <1>5, <1>6, <1>7, <1>8, <1>9, <1>10, <1>11, <1>12, <1>13
        DEF Next, Client, Elsewhere, Stop

\* Types, for any lengths and timeouts: an answer is never read further than one
\* past MAX_PACKET_SIZE, and no socket call outlasts its timeout (ncs_client.py).
THEOREM TypeCorrect == Spec => []TypeOK
<1> QED BY Start, TypeStep, AnsweredStep, PTL DEF Spec

LEMMA RepliesStep ==
    ASSUME TypeOK, Answered, RepliesAreThePumps, [Next]_vars PROVE RepliesAreThePumps'
<1> USE DEF RepliesAreThePumps
<1>1. CASE Parse
  <2>1. CASE received > 0 /\ Parses /\ FrameParses
    <3>1. event \in Events /\ answer \in Answers(event) /\ event \in Frames
      BY <2>1 DEF FrameParses, Answered, Events
    <3>2. answer.len = received
      BY <3>1, <2>1, AnswerTypes DEF FrameParses
    <3>3. outcome' = <<"reply", event.rc>>
      BY <1>1, <2>1 DEF Parse, CommandOutcome
    <3> QED BY <1>1, <2>1, <3>1, <3>2, <3>3 DEF Parse, FrameParses, Frames, box
  <2>2. CASE ~(received > 0 /\ Parses /\ FrameParses)
    <3>1. outcome'[1] # "reply"
      BY <1>1, <2>2 DEF Parse, CommandOutcome
    <3> QED BY <3>1
  <2> QED BY <2>1, <2>2
<1>2. CASE pc # "done" /\ pc' = "done" /\ ~Parse
  <2>1. outcome'[1] # "reply"
    BY <1>2 DEF Next, Client, Connect, ConnectFails, Breaks, Recv, RecvEnds, RecvTimeout, Raise,
                Elsewhere, Reaches, Responds, Deliver, Close, Tick, Stop, vars, client
  <2> QED BY <2>1
<1>3. CASE pc # "done" /\ pc' # "done"
  <2>1. outcome' = None
    BY <1>3, AnsweredStep DEF Answered
  <2> QED BY <2>1
<1>4. CASE pc = "done"
  BY <1>4 DEF Next, Client, Connect, ConnectFails, Breaks, Recv, RecvEnds, RecvTimeout, Parse,
              Elsewhere, Reaches, Responds, Deliver, Close, Tick, Stop, vars, client, box
<1> QED BY <1>1, <1>2, <1>3, <1>4

\* What a command returns is the whole and intact reply of the pump it asked,
\* for any lengths of answers and packets, however the answer is cut and delayed
\* (pump_client.py, command).
THEOREM RepliesAreThePumpsAlways == Spec => []RepliesAreThePumps
<1>1. Init => RepliesAreThePumps
  BY DEF Init, RepliesAreThePumps
<1> QED BY <1>1, Start, TypeStep, AnsweredStep, RepliesStep, PTL DEF Spec

-----------------------------------------------------------------------------
(* A command on a prompt network *)

AllThere ==
    /\ event # None /\ gateway \in {"answered", "closed"}
    /\ arrived = answer.len /\ received = arrived

\* The socket has waited no longer than the way and the pump have taken so far,
\* until the answer is there; and it is only parsed once all of it is, or more
\* than an answer can have.
OnTime ==
    prompt =>
        /\ spent < Margin /\ since <= Timeout
        /\ gateway = "waiting" => since = 0
        /\ gateway \in {"answered", "closed"} => event # None /\ arrived <= answer.len
        /\ gateway = "closed" => arrived = answer.len
        /\ pc = "start" => age = 0
        /\ pc = "recv" => AllThere \/ age <= since + spent
        /\ pc = "parse" => event # None /\ (received = answer.len \/ received > MaxPacket)
        /\ HeardAsItHappened

\* Parsing all there is gives what was heard.
LEMMA ParsedIsHeard ==
    ASSUME TypeOK, Answered, event # None, arrived <= answer.len,
           received = answer.len \/ received > MaxPacket, Parse
    PROVE  outcome' \in Heard(event)
<1>1. event \in Events /\ answer \in Answers(event) /\ outcome' \in Outcomes
  <2>1. event \in Events /\ answer \in Answers(event)
    BY DEF Answered
  <2>2. answer.rc \in Codes
    BY <2>1, AnswerTypes DEF Codes
  <2>3. CommandOutcome \in Outcomes
    BY <2>2 DEF CommandOutcome, FrameParses, Frames, Outcomes, Codes
  <2>4. <<"ProtocolError", None>> \in Outcomes
    BY DEF Outcomes, Codes
  <2> QED BY <2>1, <2>3, <2>4 DEF Parse
<1>2. CASE event \in Frames
  <2>1. answer.len = HeaderLen + FrameLen /\ answer.size = answer.len
    BY <1>1, <1>2 DEF Answers, Answer, Frames
  <2>2. received = HeaderLen + FrameLen
    BY <2>1, Lengths DEF TypeOK, Answered
  <2>3. received > 0 /\ Parses
    BY <2>1, <2>2, Lengths DEF Parses
  <2>4. outcome' = CommandOutcome
    BY <2>3 DEF Parse
  <2>5. CASE event.intact /\ event.addr = "own"
    BY <1>2, <2>2, <2>4, <2>5 DEF CommandOutcome, FrameParses, Heard, Frames
  <2>6. CASE event.intact /\ event.addr # "own"
    <3>1. answer.rc \in {"NO_ERR", "copied"}
      BY <1>1, <1>2, <2>6 DEF Answers, Answer, Frames
    <3> QED BY <1>2, <2>4, <2>6, <3>1 DEF CommandOutcome, FrameParses, Heard, Frames
  <2>7. CASE ~event.intact
    <3>1. answer.rc \in {"NO_ERR", "SERIAL_OUTPUT_INVALID_CRC"}
      BY <1>1, <1>2, <2>7 DEF Answers, Answer, Frames
    <3> QED BY <1>2, <2>4, <2>7, <3>1 DEF CommandOutcome, FrameParses, Heard, Frames
  <2> QED BY <2>5, <2>6, <2>7
<1>3. ASSUME NEW rc \in {"SERIAL_READ_TIMEOUT", "other"}, event \in {Silence, Refusal},
             answer = Answer(rc, HeaderLen)
      PROVE  outcome' = <<"PumpTransportError", rc>>
  <2>1. received = HeaderLen
    BY <1>3, Lengths DEF Answer, TypeOK, Answered
  <2>2. received > 0 /\ Parses
    BY <1>3, <2>1, Lengths DEF Parses, Answer
  <2>3. ~FrameParses
    BY <1>3 DEF FrameParses, Frames, Silence, Refusal
  <2> QED BY <1>3, <2>2, <2>3 DEF Parse, CommandOutcome, Answer
<1>4. CASE event = Silence
  BY <1>1, <1>3, <1>4 DEF Answers, Heard, Silence
<1>5. CASE event = Refusal
  BY <1>1, <1>3, <1>5 DEF Answers, Heard, Refusal
<1>6. CASE event = Garbage
  BY <1>1, <1>6 DEF Heard, Garbage
<1> QED BY <1>1, <1>2, <1>4, <1>5, <1>6 DEF Events

LEMMA OnTimeStep == ASSUME TypeOK, Answered, OnTime, [Next]_vars PROVE OnTime'
<1> SUFFICES ASSUME prompt, prompt' PROVE OnTime'
  BY DEF OnTime, Next, vars, Client, Connect, ConnectFails, Breaks, Recv, RecvEnds, RecvTimeout,
         Parse, Elsewhere, Reaches, Responds, Deliver, Close, Tick, Stop
<1> USE DEF HeardAsItHappened
<1>t. /\ age \in Nat /\ since \in Nat /\ spent \in Nat /\ received \in Nat /\ arrived \in Nat
      /\ SocketTimeout = Timeout + Margin
  BY Lengths DEF TypeOK, SocketTimeout
<1>o. /\ spent < Margin /\ since <= Timeout
      /\ gateway = "waiting" => since = 0
      /\ gateway \in {"answered", "closed"} => event # None /\ arrived <= answer.len
      /\ gateway = "closed" => arrived = answer.len
      /\ pc = "start" => age = 0
      /\ pc = "recv" => AllThere \/ age <= since + spent
      /\ pc = "parse" => event # None /\ (received = answer.len \/ received > MaxPacket)
      /\ HeardAsItHappened
  BY DEF OnTime
<1>1. CASE UNCHANGED vars
  BY <1>1 DEF vars, client, box, OnTime, AllThere, Heard
<1>2. CASE Connect
  BY <1>2, <1>o, <1>t DEF Connect, box, OnTime
<1>3. CASE Recv
  BY <1>3, <1>o, <1>t DEF Recv, box, OnTime
<1>4. CASE RecvEnds
  <2>1. received > MaxPacket => event # None
    BY <1>t, Lengths DEF Answered
  <2>2. pc = "recv" /\ (received > MaxPacket \/ (gateway = "closed" /\ received = arrived))
    BY <1>4 DEF RecvEnds
  <2> QED BY <1>4, <2>1, <2>2, <1>o DEF RecvEnds, box, OnTime
<1>5. CASE RecvTimeout
  <2>1. pc = "recv" /\ age = Timeout + Margin /\ AllThere
    BY <1>5, <1>o, <1>t, Lengths DEF RecvTimeout
  <2>2. CASE received > 0
    BY <1>5, <2>1, <2>2, <1>o DEF RecvTimeout, box, OnTime, AllThere
  <2>3. CASE received = 0
    <3>1. event = Garbage
      <4>1. event \in Events /\ answer \in Answers(event) /\ answer.len = 0
        BY <2>1, <2>3 DEF AllThere, Answered
      <4>2. event \notin Frames
        BY <4>1, AnswerTypes, Lengths
      <4>3. event \in {Silence, Refusal} => answer.len = HeaderLen
        BY <4>1 DEF Answers, Answer, Silence, Refusal
      <4> QED BY <4>1, <4>2, <4>3 DEF Events
    <3>2. outcome' = <<"NetworkError", None>> /\ event' = event /\ pc' = "done"
      BY <1>5, <2>3 DEF RecvTimeout, Raise, box
    <3>3. outcome' \in Heard(event)
      BY <3>1, <3>2 DEF Heard, Garbage, Outcomes, Codes
    <3> QED BY <1>5, <2>1, <3>2, <3>3, <1>o DEF RecvTimeout, box, OnTime, Heard, AllThere
  <2> QED BY <2>2, <2>3, <1>t
<1>6. CASE Parse
  <2>1. outcome' \in Heard(event)
    <3>1. gateway \in {"answered", "closed"}
      BY <1>6, <1>o DEF Parse, Answered, TypeOK
    <3> QED BY <1>6, <3>1, <1>o, ParsedIsHeard DEF Parse
  <2> QED BY <1>6, <2>1, <1>o DEF Parse, box, OnTime, Heard
<1>7. CASE Reaches
  BY <1>7, <1>o, <1>t DEF Reaches, client, OnTime, AllThere
<1>8. CASE Responds
  <2>1. event' # None
    BY <1>8 DEF Responds
  <2>2. event = None /\ arrived = 0
    BY <1>8 DEF Responds, Answered
  <2>3. answer'.len \in Nat
    BY <1>8, AnswerTypes DEF Responds
  <2>4. ~AllThere
    BY <2>2 DEF AllThere
  <2>5. /\ gateway' = "answered" /\ pc = "recv" /\ arrived' <= answer'.len
        /\ UNCHANGED <<pc, received, age, outcome, since, spent>>
    BY <1>8, <2>2, <2>3 DEF Responds, client
  <2> QED BY <2>1, <2>4, <2>5, <1>o DEF OnTime
<1>9. CASE Deliver
  <2>1. ~AllThere
    BY <1>9, AnswerTypes, <1>t DEF Deliver, AllThere, Answered
  <2> QED BY <1>9, <2>1, <1>o, <1>t DEF Deliver, client, box, OnTime
<1>10. CASE Close
  <2>1. event # None
    BY <1>10 DEF Close, Answered
  <2> QED BY <1>10, <2>1, <1>o, <1>t DEF Close, client, OnTime, AllThere
<1>11. CASE Tick
  <2>1. CASE AllThere
    BY <1>11, <2>1, <1>o, <1>t DEF Tick, OnTime, AllThere, OnTheWay
  <2>2. CASE ~AllThere
    <3>1. /\ pc = "recv" /\ received = arrived /\ age' = age + 1
          /\ OnTheWay => spent < Margin - 1 /\ spent' = spent + 1
          /\ ~OnTheWay => spent' = spent
          /\ gateway = "bus" => since < Timeout /\ since' = since + 1
          /\ gateway # "bus" => since' = since
          /\ UNCHANGED <<pc, received, outcome, gateway, event, answer, arrived>>
      BY <1>11 DEF Tick
    <3>2. OnTheWay \/ gateway = "bus"
      <4>1. gateway \in {"answered", "closed"} => answer.len \in Nat
        BY <1>o, AnswerTypes DEF Answered
      <4> QED BY <2>2, <3>1, <4>1, <1>o, <1>t DEF OnTheWay, AllThere, TypeOK
    <3>3. age' <= since' + spent'
      BY <2>2, <3>1, <3>2, <1>o, <1>t DEF OnTheWay
    <3>4. spent' < Margin /\ since' <= Timeout
      BY <3>1, <1>o, <1>t, Lengths DEF OnTheWay
    <3> QED BY <3>1, <3>3, <3>4, <1>o DEF OnTime
  <2> QED BY <2>1, <2>2
<1>12. CASE ConnectFails \/ Breaks
  BY <1>12 DEF ConnectFails, Breaks
<1>13. CASE Stop
  BY <1>1, <1>13 DEF Stop
<1> QED BY <1>1, <1>2, <1>3, <1>4, <1>5, <1>6, <1>7, <1>8, <1>9, <1>10, <1>11, <1>12, <1>13
        DEF Next, Client, Elsewhere

\* We never give up on the gateway before it can tell us that it gave up on the
\* pump (ncs_client.py, transact): where nothing on the way is slow or broken, a
\* command ends with what happened on the bus, for any timeout and margin.
THEOREM HeardAsItHappenedAlways == Spec => []HeardAsItHappened
<1>1. Init => OnTime
  BY Lengths DEF Init, OnTime, HeardAsItHappened
<1>2. OnTime => HeardAsItHappened
  BY DEF OnTime, HeardAsItHappened
<1> QED BY <1>1, <1>2, Start, TypeStep, AnsweredStep, OnTimeStep, PTL DEF Spec
==============================================================================
