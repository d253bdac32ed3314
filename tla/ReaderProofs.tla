---------------------------- MODULE ReaderProofs ----------------------------
(***************************************************************************)
(* Theorems about Reader, for any names in NAME_SVIDS, lengths of strings  *)
(* and serial numbers. The layouts put every field where the pump does and *)
(* walk_reply finds every value where it was sent: both are functions that *)
(* recur on a position, and are followed by induction over the natural     *)
(* numbers. The invariant, IInv, says of a read how it came to where it    *)
(* is: InTurn, how far it is in its plan, or in the list that is read one  *)
(* at a time, and that what lies behind is told of; Waited, that a reply   *)
(* is late only while it is waited for; the others, of each struct and     *)
(* value from which reply it is, and whether from before the dispense.     *)
(***************************************************************************)
EXTENDS Reader, WellFoundedInduction, NaturalsInduction, TLAPS

-----------------------------------------------------------------------------
(* Recursive functions on 0..n *)

\* Each set of natural numbers that is not empty has a least.
LEMMA Least ==
    ASSUME NEW T \in SUBSET Nat, T # {}
    PROVE  \E m \in T : \A n \in T : m <= n
<1> DEFINE R == OpToRel(<, Nat)
<1>1. IsWellFoundedOn(R, Nat)
  BY NatLessThanWellFounded
<1> HIDE DEF R
<1>2. PICK m \in T : \A n \in T : ~(<<n, m>> \in R)
  BY <1>1, WFMin, Zenon
<1>3. \A n \in T : n < m => <<n, m>> \in R
  BY DEF R, OpToRel
<1>4. \A n \in T : ~(n < m)
  BY <1>2, <1>3
<1> QED BY <1>4

\* What holds at 0 and goes on holding up to N holds up to N.
LEMMA UpTo ==
    ASSUME NEW N \in Nat, NEW S \in SUBSET Nat, 0 \in S,
           \A n \in S : n < N => n + 1 \in S
    PROVE  \A n \in 0..N : n \in S
<1> SUFFICES ASSUME (0..N) \ S # {} PROVE FALSE
  OBVIOUS
<1>1. (0..N) \ S \in SUBSET Nat
  OBVIOUS
<1>2. PICK m \in (0..N) \ S : \A n \in (0..N) \ S : m <= n
  BY <1>1, Least
<1>3. m # 0 /\ m - 1 \in 0..N /\ m - 1 < N /\ ~(m <= m - 1)
  BY <1>2
<1>4. m - 1 \in S
  BY <1>2, <1>3
<1>5. (m - 1) + 1 \in S
  BY <1>3, <1>4
<1> QED BY <1>2, <1>5

\* f goes on from base by the steps g
Follows(f, S, N, base, g) ==
    f \in [0..N -> S] /\ f[0] = base /\ \A i \in 1..N : f[i] = g[<<f[i - 1], i>>]

\* There is such a function, whatever the steps.
LEMMA Recursion ==
    ASSUME NEW S, NEW N \in Nat, NEW base \in S, NEW g \in [S \X (1..N) -> S]
    PROVE  \E f : Follows(f, S, N, base, g)
<1> DEFINE P(n) == \E f \in [0..n -> S] : \A i \in 0..n : f[i] = IF i = 0 THEN base ELSE g[<<f[i - 1], i>>]
           T == {n \in Nat : P(n)}
<1>1. P(0)
  <2> DEFINE f == [i \in 0..0 |-> base]
  <2>1. f \in [0..0 -> S] /\ \A i \in 0..0 : i = 0 /\ f[i] = base
    OBVIOUS
  <2> HIDE DEF f
  <2> QED BY <2>1
<1>2. ASSUME NEW n \in Nat, n < N, P(n) PROVE P(n + 1)
  <2>1. PICK f \in [0..n -> S] : \A i \in 0..n : f[i] = IF i = 0 THEN base ELSE g[<<f[i - 1], i>>]
    BY <1>2
  <2> DEFINE last == g[<<f[n], n + 1>>]
             h == [i \in 0..(n + 1) |-> IF i = n + 1 THEN last ELSE f[i]]
  <2>2. last \in S
    <3>1. f[n] \in S /\ n + 1 \in 1..N
      BY <1>2, <2>1
    <3> QED BY <3>1
  <2>3. h \in [0..(n + 1) -> S]
    <3> HIDE DEF last
    <3> QED BY <2>1, <2>2
  <2>4. \A i \in 0..n : h[i] = f[i] /\ i - 1 # n + 1
    OBVIOUS
  <2>5. h[n + 1] = last
    OBVIOUS
  <2> HIDE DEF h
  <2>6. ASSUME NEW i \in 0..(n + 1) PROVE h[i] = IF i = 0 THEN base ELSE g[<<h[i - 1], i>>]
    <3>1. CASE i = n + 1
      <4>1. i # 0 /\ i - 1 = n /\ n \in 0..n
        BY <3>1
      <4> QED BY <3>1, <4>1, <2>4, <2>5
    <3>2. CASE i # n + 1 /\ i # 0
      <4>1. i \in 0..n /\ i - 1 \in 0..n
        BY <3>2
      <4> QED BY <3>2, <4>1, <2>1, <2>4
    <3>3. CASE i = 0
      <4>1. i \in 0..n
        BY <3>3
      <4> QED BY <3>3, <4>1, <2>1, <2>4
    <3> QED BY <3>1, <3>2, <3>3
  <2> QED BY <2>3, <2>6
<1> HIDE DEF P
<1>3. T \in SUBSET Nat /\ 0 \in T
  BY <1>1
<1>4. \A n \in T : n < N => n + 1 \in T
  BY <1>2
<1>5. \A n \in 0..N : n \in T
  BY <1>3, <1>4, UpTo
<1>6. P(N)
  BY <1>5
<1>7. PICK f \in [0..N -> S] : \A i \in 0..N : f[i] = IF i = 0 THEN base ELSE g[<<f[i - 1], i>>]
  BY <1>6 DEF P
<1>8. 0 \in 0..N /\ \A i \in 1..N : i \in 0..N /\ i # 0
  OBVIOUS
<1>9. f[0] = base /\ \A i \in 1..N : f[i] = g[<<f[i - 1], i>>]
  BY <1>7, <1>8
<1> QED BY <1>7, <1>9 DEF Follows

-----------------------------------------------------------------------------
(* Layouts: the fields are where the pump puts them *)

Codes == {"h", "H", "l", "L", "f", "16s", "24s", "48s", "10L"}

\* What struct.calcsize says of each code.
LEMMA Sizes ==
    /\ Size("h") = 2 /\ Size("H") = 2 /\ Size("l") = 4 /\ Size("L") = 4 /\ Size("f") = 4
    /\ Size("16s") = 16 /\ Size("24s") = 24 /\ Size("48s") = 48 /\ Size("10L") = 40
BY DEF Size

SumEq(f, layout) ==
    f = [i \in 0..Len(layout) |-> IF i = 0 THEN 0 ELSE f[i - 1] + Size(layout[i])]

\* Each field comes right after the one before it.
LEMMA OffsetIs ==
    ASSUME NEW layout \in Seq(Codes)
    PROVE  /\ Offset(layout) \in [0..Len(layout) -> Nat]
           /\ Offset(layout)[0] = 0
           /\ \A i \in 1..Len(layout) : Offset(layout)[i] = Offset(layout)[i - 1] + Size(layout[i])
<1> DEFINE N == Len(layout)
           g == [p \in Nat \X (1..N) |-> p[1] + Size(layout[p[2]])]
<1>1. \A i \in 1..N : Size(layout[i]) \in Nat
  <2>1. \A i \in 1..N : layout[i] \in Codes
    OBVIOUS
  <2> QED BY <2>1, Sizes DEF Codes
<1>2. g \in [Nat \X (1..N) -> Nat]
  BY <1>1
<1>3. \A n \in Nat : \A i \in 1..N : g[<<n, i>>] = n + Size(layout[i])
  OBVIOUS
<1> HIDE DEF g
<1>4. PICK f : Follows(f, Nat, N, 0, g)
  <2>1. N \in Nat /\ 0 \in Nat
    OBVIOUS
  <2> QED BY <2>1, <1>2, Recursion, Zenon
<1>5. \A i \in 0..N : f[i] = IF i = 0 THEN 0 ELSE f[i - 1] + Size(layout[i])
  <2>1. \A i \in 1..N : f[i - 1] \in Nat
    BY <1>4 DEF Follows
  <2>2. \A i \in 1..N : i \in 0..N /\ i # 0 /\ g[<<f[i - 1], i>>] = f[i - 1] + Size(layout[i])
    BY <2>1, <1>3
  <2>3. \A i \in 0..N : i = 0 \/ i \in 1..N
    OBVIOUS
  <2> QED BY <2>2, <2>3, <1>4 DEF Follows
<1>6. SumEq(f, layout)
  <2>1. f = [i \in 0..N |-> f[i]]
    BY <1>4 DEF Follows
  <2> QED BY <2>1, <1>5 DEF SumEq
<1> DEFINE o == CHOOSE s : SumEq(s, layout)
<1>7. Offset(layout) = o
  BY DEF Offset, SumEq
<1>8. SumEq(o, layout)
  BY <1>6
<1> HIDE DEF o
<1>9. DOMAIN o = 0..N /\ \A i \in 0..N : o[i] = IF i = 0 THEN 0 ELSE o[i - 1] + Size(layout[i])
  BY <1>8, Zenon DEF SumEq
<1> DEFINE T == {n \in Nat : n <= N => o[n] \in Nat}
<1>10. 0 \in T /\ T \in SUBSET Nat
  BY <1>9
<1>11. \A n \in T : n < N => n + 1 \in T
  <2> SUFFICES ASSUME NEW n \in Nat, n < N, o[n] \in Nat PROVE o[n + 1] \in Nat
    OBVIOUS
  <2>1. o[n + 1] = o[n] + Size(layout[n + 1])
    <3>1. n + 1 \in 0..N /\ n + 1 # 0 /\ (n + 1) - 1 = n
      OBVIOUS
    <3> QED BY <3>1, <1>9
  <2> QED BY <2>1, <1>1
<1>12. \A n \in 0..N : n \in T
  <2> HIDE DEF T
  <2> QED BY <1>10, <1>11, UpTo
<1>13. \A n \in 0..N : o[n] \in Nat
  BY <1>12
<1>14. o = [i \in 0..N |-> o[i]]
  BY <1>8, Zenon DEF SumEq
<1>15. o \in [0..N -> Nat]
  BY <1>13, <1>14
<1> QED BY <1>7, <1>9, <1>15

\* n fields of the same size, one after the other
LEMMA Block ==
    ASSUME NEW layout \in Seq(Codes), NEW m \in Nat, NEW n \in Nat, m + n <= Len(layout),
           NEW w \in Nat, \A i \in 1..n : Size(layout[m + i]) = w
    PROVE  \A k \in 0..n : Offset(layout)[m + k] = Offset(layout)[m] + k * w
<1> DEFINE o == Offset(layout)
           T == {k \in Nat : k <= n => o[m + k] = o[m] + k * w}
<1>1. o \in [0..Len(layout) -> Nat] /\ \A i \in 1..Len(layout) : o[i] = o[i - 1] + Size(layout[i])
  BY OffsetIs
<1> HIDE DEF o
<1>2. 0 \in T /\ T \in SUBSET Nat
  <2>1. m + 0 = m /\ 0 * w = 0 /\ o[m] \in Nat
    BY <1>1
  <2> QED BY <2>1
<1>3. \A k \in T : k < n => k + 1 \in T
  <2> SUFFICES ASSUME NEW k \in Nat, k < n, o[m + k] = o[m] + k * w
               PROVE  o[m + (k + 1)] = o[m] + (k + 1) * w
    OBVIOUS
  <2>1. m + (k + 1) \in 1..Len(layout) /\ (m + (k + 1)) - 1 = m + k /\ k + 1 \in 1..n
    OBVIOUS
  <2>2. o[m + (k + 1)] = o[m + k] + w
    BY <2>1, <1>1
  <2>3. o[m] \in Nat /\ k * w \in Nat /\ (k + 1) * w = k * w + w
    BY <1>1
  <2> QED BY <2>2, <2>3
<1>4. \A k \in 0..n : k \in T
  <2> HIDE DEF T
  <2> QED BY <1>2, <1>3, UpTo
<1> QED BY <1>4 DEF o

\* One after the other: the elements of both.
Joined(s, t, st) ==
    /\ Len(st) = Len(s) + Len(t)
    /\ \A i \in 1..Len(s) : st[i] = s[i]
    /\ \A j \in 1..Len(t) : st[Len(s) + j] = t[j]

\* Concatenation has the elements of both, in order.
LEMMA Concatenated ==
    ASSUME NEW S
    PROVE  \A s, t \in Seq(S) : s \o t \in Seq(S) /\ Joined(s, t, s \o t)
BY DEF Joined

\* Times is n times the same code.
LEMMA Repeated ==
    ASSUME NEW n \in Nat, NEW code \in Codes
    PROVE  /\ Times(n, code) \in Seq(Codes) /\ Len(Times(n, code)) = n
           /\ \A i \in 1..n : Times(n, code)[i] = code
<1>1. Times(n, code) \in [1..n -> Codes]
  BY DEF Times
<1> QED BY <1>1 DEF Times

\* the fields that both status replies begin with
IsRtStatus(layout) ==
    /\ layout[1] = "h" /\ layout[2] = "H" /\ layout[3] = "L"
    /\ \A i \in 4..7 : layout[i] = "H"
    /\ \A i \in 8..10 : layout[i] = "L"
    /\ \A i \in 11..16 : layout[i] = "H"
    /\ \A i \in 17..21 : layout[i] = "L"
    /\ layout[22] = "h" /\ layout[23] = "h" /\ layout[24] = "H"

\* RtStatusCommon is such a layout, 24 fields long.
LEMMA RtStatusFields ==
    RtStatusCommon \in Seq(Codes) /\ Len(RtStatusCommon) = 24 /\ IsRtStatus(RtStatusCommon)
<1> DEFINE a == <<"h", "H", "L">>
           h4 == Times(4, "H")
           l3 == Times(3, "L")
           h6 == Times(6, "H")
           l5 == Times(5, "L")
           z == <<"h", "h", "H">>
           b == a \o h4
           c == b \o l3
           d == c \o h6
           e == d \o l5
           f == e \o z
<1>1. /\ a \in Seq(Codes) /\ Len(a) = 3 /\ a[1] = "h" /\ a[2] = "H" /\ a[3] = "L"
      /\ z \in Seq(Codes) /\ Len(z) = 3 /\ z[1] = "h" /\ z[2] = "h" /\ z[3] = "H"
  BY DEF Codes
<1>2. /\ h4 \in Seq(Codes) /\ Len(h4) = 4 /\ \A i \in 1..4 : h4[i] = "H"
      /\ l3 \in Seq(Codes) /\ Len(l3) = 3 /\ \A i \in 1..3 : l3[i] = "L"
      /\ h6 \in Seq(Codes) /\ Len(h6) = 6 /\ \A i \in 1..6 : h6[i] = "H"
      /\ l5 \in Seq(Codes) /\ Len(l5) = 5 /\ \A i \in 1..5 : l5[i] = "L"
  <2>1. "H" \in Codes /\ "L" \in Codes
    BY DEF Codes
  <2> QED BY <2>1, Repeated
<1>3. RtStatusCommon = f
  BY DEF RtStatusCommon
<1> HIDE DEF a, h4, l3, h6, l5, z
<1>4. b \in Seq(Codes) /\ Joined(a, h4, b)
  BY <1>1, <1>2, Concatenated
<1> HIDE DEF b
<1>5. c \in Seq(Codes) /\ Joined(b, l3, c)
  BY <1>4, <1>2, Concatenated
<1> HIDE DEF c
<1>6. d \in Seq(Codes) /\ Joined(c, h6, d)
  BY <1>5, <1>2, Concatenated
<1> HIDE DEF d
<1>7. e \in Seq(Codes) /\ Joined(d, l5, e)
  BY <1>6, <1>2, Concatenated
<1> HIDE DEF e
<1>8. f \in Seq(Codes) /\ Joined(e, z, f)
  BY <1>7, <1>1, Concatenated
<1> HIDE DEF f
<1>9. /\ Len(b) = 7 /\ \A i \in 1..3 : b[i] = a[i]
      /\ \A i \in 4..7 : b[i] = "H"
  <2>1. \A i \in 4..7 : i - 3 \in 1..4 /\ 3 + (i - 3) = i
    OBVIOUS
  <2> QED BY <2>1, <1>1, <1>2, <1>4 DEF Joined
<1>10. /\ Len(c) = 10 /\ \A i \in 1..7 : c[i] = b[i]
       /\ \A i \in 8..10 : c[i] = "L"
  <2>1. \A i \in 8..10 : i - 7 \in 1..3 /\ 7 + (i - 7) = i
    OBVIOUS
  <2> QED BY <2>1, <1>2, <1>5, <1>9 DEF Joined
<1>11. /\ Len(d) = 16 /\ \A i \in 1..10 : d[i] = c[i]
       /\ \A i \in 11..16 : d[i] = "H"
  <2>1. \A i \in 11..16 : i - 10 \in 1..6 /\ 10 + (i - 10) = i
    OBVIOUS
  <2> QED BY <2>1, <1>2, <1>6, <1>10 DEF Joined
<1>12. /\ Len(e) = 21 /\ \A i \in 1..16 : e[i] = d[i]
       /\ \A i \in 17..21 : e[i] = "L"
  <2>1. \A i \in 17..21 : i - 16 \in 1..5 /\ 16 + (i - 16) = i
    OBVIOUS
  <2> QED BY <2>1, <1>2, <1>7, <1>11 DEF Joined
<1>13. /\ Len(f) = 24 /\ \A i \in 1..21 : f[i] = e[i]
       /\ f[22] = "h" /\ f[23] = "h" /\ f[24] = "H"
  <2>1. 21 + 1 = 22 /\ 21 + 2 = 23 /\ 21 + 3 = 24
    OBVIOUS
  <2> QED BY <2>1, <1>1, <1>8, <1>12 DEF Joined
<1> QED BY <1>1, <1>3, <1>8, <1>9, <1>10, <1>11, <1>12, <1>13 DEF IsRtStatus

\* Where they are, in any layout that begins with them.
LEMMA RtStatusOffsets ==
    ASSUME NEW layout \in Seq(Codes), Len(layout) >= 24, IsRtStatus(layout)
    PROVE  /\ Offset(layout)[2] = 4 /\ Offset(layout)[4] = 10 /\ Offset(layout)[20] = 56
           /\ Offset(layout)[24] = 66
           /\ layout[3] = "L" /\ layout[5] = "H" /\ layout[21] = "L"
<1> DEFINE o == Offset(layout)
<1>1. /\ o \in [0..Len(layout) -> Nat] /\ o[0] = 0
      /\ \A i \in 1..Len(layout) : o[i] = o[i - 1] + Size(layout[i])
  BY OffsetIs
<1>2. /\ \A i \in 4..7 : Size(layout[i]) = 2
      /\ \A i \in 8..10 : Size(layout[i]) = 4
      /\ \A i \in 11..16 : Size(layout[i]) = 2
      /\ \A i \in 17..21 : Size(layout[i]) = 4
  BY Sizes DEF IsRtStatus
<1>3. /\ Size(layout[1]) = 2 /\ Size(layout[2]) = 2 /\ Size(layout[3]) = 4
      /\ Size(layout[22]) = 2 /\ Size(layout[23]) = 2 /\ Size(layout[24]) = 2
  BY Sizes DEF IsRtStatus
<1> DEFINE Same(m, n, w) == \A i \in 1..n : Size(layout[m + i]) = w
<1>4. \A m, n, w \in Nat : m + n <= Len(layout) /\ Same(m, n, w)
         => \A k \in 0..n : o[m + k] = o[m] + k * w
  BY Block, ZenonT(60)
<1>5. Same(3, 4, 2) /\ Same(7, 3, 4) /\ Same(10, 6, 2) /\ Same(16, 5, 4)
  <2>1. /\ \A i \in 1..4 : 3 + i \in 4..7
        /\ \A i \in 1..3 : 7 + i \in 8..10
        /\ \A i \in 1..6 : 10 + i \in 11..16
        /\ \A i \in 1..5 : 16 + i \in 17..21
    OBVIOUS
  <2> QED BY <2>1, <1>2
<1>b. /\ 3 + 4 <= Len(layout) /\ 7 + 3 <= Len(layout)
      /\ 10 + 6 <= Len(layout) /\ 16 + 5 <= Len(layout)
  OBVIOUS
<1> HIDE DEF o, Same
<1>6. o[1] = 2 /\ o[2] = 4 /\ o[3] = 8
  <2>1. /\ 1 \in 1..Len(layout) /\ 2 \in 1..Len(layout) /\ 3 \in 1..Len(layout)
        /\ 1 - 1 = 0 /\ 2 - 1 = 1 /\ 3 - 1 = 2
    OBVIOUS
  <2> QED BY <2>1, <1>1, <1>3
<1>7. o[4] = 10 /\ o[7] = 16
  <2>1. \A k \in 0..4 : o[3 + k] = o[3] + k * 2
    BY <1>4, <1>5, <1>b, SMTT(60)
  <2>2. o[3 + 1] = 8 + 1 * 2 /\ o[3 + 4] = 8 + 4 * 2
    BY <2>1, <1>6
  <2> QED BY <2>2
<1>8. o[10] = 28
  <2>1. \A k \in 0..3 : o[7 + k] = o[7] + k * 4
    BY <1>4, <1>5, <1>b, SMTT(60)
  <2>2. o[7 + 3] = 16 + 3 * 4
    BY <2>1, <1>7
  <2> QED BY <2>2
<1>9. o[16] = 40
  <2>1. \A k \in 0..6 : o[10 + k] = o[10] + k * 2
    BY <1>4, <1>5, <1>b, SMTT(60)
  <2>2. o[10 + 6] = 28 + 6 * 2
    BY <2>1, <1>8
  <2> QED BY <2>2
<1>10. o[20] = 56 /\ o[21] = 60
  <2>1. \A k \in 0..5 : o[16 + k] = o[16] + k * 4
    BY <1>4, <1>5, <1>b, SMTT(60)
  <2>2. o[16 + 4] = 40 + 4 * 4 /\ o[16 + 5] = 40 + 5 * 4
    BY <2>1, <1>9
  <2> QED BY <2>2
<1>11. o[24] = 66
  <2>1. /\ 22 \in 1..Len(layout) /\ 23 \in 1..Len(layout) /\ 24 \in 1..Len(layout)
        /\ 22 - 1 = 21 /\ 23 - 1 = 22 /\ 24 - 1 = 23
    OBVIOUS
  <2> QED BY <2>1, <1>1, <1>3, <1>10
<1>12. layout[3] = "L" /\ layout[5] = "H" /\ layout[21] = "L"
  BY DEF IsRtStatus
<1> QED BY <1>6, <1>7, <1>10, <1>11, <1>12 DEF o

\* Every field that is used is parsed from where the pump puts it, whatever its
\* reply's layout (PumpStruct.parse).
LEMMA PlacesAreTheirs == \A cmd \in StructCommands : Places[cmd] = PumpPuts[cmd]
<1>0. "H" \in Codes /\ "L" \in Codes /\ "24s" \in Codes /\ "48s" \in Codes /\ "16s" \in Codes
  BY DEF Codes
<1>1. \A layout \in Seq(Codes) :
         /\ Offset(layout)[0] = 0
         /\ \A i \in 1..Len(layout) : Offset(layout)[i] = Offset(layout)[i - 1] + Size(layout[i])
  BY OffsetIs
<1>2. PlaceOf(SerialNumbers, 1) = <<0, 24>>
  <2> DEFINE a == Times(12, "24s")
             z == Times(2, "L")
             s == a \o z
  <2>1. a \in Seq(Codes) /\ Len(a) = 12 /\ z \in Seq(Codes) /\ Len(z) = 2 /\ a[1] = "24s"
    <3>1. 1 \in 1..12
      OBVIOUS
    <3> QED BY <3>1, <1>0, Repeated
  <2>2. SerialNumbers = s
    BY DEF SerialNumbers
  <2> HIDE DEF a, z
  <2>3. s \in Seq(Codes) /\ Joined(a, z, s)
    BY <2>1, Concatenated
  <2> HIDE DEF s
  <2>4. s[1] = "24s"
    <3>1. 1 \in 1..12
      OBVIOUS
    <3> QED BY <3>1, <2>1, <2>3 DEF Joined
  <2>5. 1 - 1 = 0
    OBVIOUS
  <2> QED BY <2>2, <2>3, <2>4, <2>5, <1>1, Sizes DEF PlaceOf
<1>3. PlaceOf(Version, 3) = <<32, 24>> /\ PlaceOf(Version, 4) = <<56, 48>>
  <2>1. /\ Version \in Seq(Codes) /\ Len(Version) = 4 /\ Version[1] = "16s" /\ Version[2] = "16s"
        /\ Version[3] = "24s" /\ Version[4] = "48s"
    BY <1>0 DEF Version
  <2> DEFINE o == Offset(Version)
  <2>2. o[0] = 0 /\ \A i \in 1..4 : o[i] = o[i - 1] + Size(Version[i])
    BY <2>1, <1>1
  <2> HIDE DEF o
  <2>3. o[2] = 32 /\ o[3] = 56
    <3>1. o[1] = o[1 - 1] + 16 /\ o[2] = o[2 - 1] + 16 /\ o[3] = o[3 - 1] + 24
      BY <2>1, <2>2, Sizes
    <3> QED BY <3>1, <2>2
  <2>4. 3 - 1 = 2 /\ 4 - 1 = 3
    OBVIOUS
  <2> QED BY <2>1, <2>3, <2>4, Sizes DEF PlaceOf, o
<1>4. PlaceOf(FirmwareInfo, 4) = <<6, 2>>
  <2>1. FirmwareInfo \in Seq(Codes) /\ Len(FirmwareInfo) = 8 /\ \A i \in 1..8 : FirmwareInfo[i] = "H"
    BY <1>0, Repeated DEF FirmwareInfo
  <2> DEFINE o == Offset(FirmwareInfo)
  <2>2. o[0] = 0 /\ \A i \in 1..8 : o[i] = o[i - 1] + 2
    <3>1. o[0] = 0 /\ \A i \in 1..8 : o[i] = o[i - 1] + Size(FirmwareInfo[i])
      BY <2>1, <1>1
    <3>2. \A i \in 1..8 : Size(FirmwareInfo[i]) = 2
      BY <2>1, Sizes
    <3> QED BY <3>1, <3>2
  <2> HIDE DEF o
  <2>3. o[3] = 6
    <3>1. o[1] = o[1 - 1] + 2 /\ o[2] = o[2 - 1] + 2 /\ o[3] = o[3 - 1] + 2
      BY <2>2
    <3> QED BY <3>1, <2>2
  <2>4. 4 - 1 = 3
    OBVIOUS
  <2> QED BY <2>1, <2>3, <2>4, Sizes DEF PlaceOf, o
<1>5. PlaceOf(LastDispenseInfo2, 1) = <<0, 4>> /\ PlaceOf(LastDispenseInfo2, 2) = <<4, 4>>
  <2>1. LastDispenseInfo2 \in Seq(Codes) /\ Len(LastDispenseInfo2) = 4
        /\ \A i \in 1..4 : LastDispenseInfo2[i] = "L"
    BY <1>0, Repeated DEF LastDispenseInfo2
  <2> DEFINE o == Offset(LastDispenseInfo2)
  <2>2. o[0] = 0 /\ \A i \in 1..4 : o[i] = o[i - 1] + 4
    <3>1. o[0] = 0 /\ \A i \in 1..4 : o[i] = o[i - 1] + Size(LastDispenseInfo2[i])
      BY <2>1, <1>1
    <3>2. \A i \in 1..4 : Size(LastDispenseInfo2[i]) = 4
      BY <2>1, Sizes
    <3> QED BY <3>1, <3>2
  <2> HIDE DEF o
  <2>3. o[1] = 4
    <3>1. o[1] = o[1 - 1] + 4
      BY <2>2
    <3> QED BY <3>1, <2>2
  <2>4. 1 - 1 = 0 /\ 2 - 1 = 1
    OBVIOUS
  <2> QED BY <2>1, <2>2, <2>3, <2>4, Sizes DEF PlaceOf, o
<1>6. /\ PlaceOf(RtStatus, 21) = <<56, 4>> /\ PlaceOf(RtStatus, 3) = <<4, 4>>
      /\ PlaceOf(RtStatus, 5) = <<10, 2>>
  <2> DEFINE z == <<"H", "l", "l">>
             s == RtStatusCommon \o z
  <2>1. z \in Seq(Codes)
    BY DEF Codes
  <2>2. RtStatus = s
    BY DEF RtStatus
  <2> HIDE DEF z
  <2>3. s \in Seq(Codes) /\ Joined(RtStatusCommon, z, s)
    BY <2>1, RtStatusFields, Concatenated
  <2> HIDE DEF s
  <2>4. IsRtStatus(s) /\ Len(s) >= 24
    <3>1. Len(s) = 24 + Len(z) /\ Len(z) \in Nat
      BY <2>1, <2>3, RtStatusFields DEF Joined
    <3>2. IsRtStatus(s)
      BY <2>3, RtStatusFields DEF Joined, IsRtStatus
    <3> QED BY <3>1, <3>2
  <2>5. 21 - 1 = 20 /\ 3 - 1 = 2 /\ 5 - 1 = 4
    OBVIOUS
  <2> QED BY <2>2, <2>3, <2>4, <2>5, RtStatusOffsets, Sizes DEF PlaceOf
<1>7. /\ PlaceOf(CsRtStatus, 21) = <<56, 4>> /\ PlaceOf(CsRtStatus, 25) = <<66, 24>>
      /\ PlaceOf(CsRtStatus, 26) = <<90, 24>>
  <2> DEFINE z == <<"24s", "24s", "H", "l", "l">>
             s == RtStatusCommon \o z
  <2>1. z \in Seq(Codes) /\ Len(z) = 5 /\ z[1] = "24s" /\ z[2] = "24s"
    BY DEF Codes
  <2>2. CsRtStatus = s
    BY DEF CsRtStatus
  <2> HIDE DEF z
  <2>3. s \in Seq(Codes) /\ Joined(RtStatusCommon, z, s)
    BY <2>1, RtStatusFields, Concatenated
  <2> HIDE DEF s
  <2>4. IsRtStatus(s) /\ Len(s) = 29
    BY <2>1, <2>3, RtStatusFields DEF Joined, IsRtStatus
  <2>5. s[24 + 1] = "24s" /\ s[24 + 2] = "24s"
    <3>1. 1 \in 1..5 /\ 2 \in 1..5
      OBVIOUS
    <3> QED BY <3>1, <2>1, <2>3, RtStatusFields DEF Joined
  <2>6. 24 + 1 = 25 /\ 24 + 2 = 26 /\ 21 - 1 = 20 /\ 25 - 1 = 24 /\ 26 - 1 = 25
    OBVIOUS
  <2>7. Offset(s)[20] = 56 /\ Offset(s)[24] = 66 /\ s[21] = "L"
    <3>1. Len(s) >= 24
      BY <2>4
    <3> QED BY <3>1, <2>3, <2>4, RtStatusOffsets, Zenon
  <2>8. Offset(s)[25] = 90
    <3>1. 25 \in 1..Len(s)
      BY <2>4
    <3>2. Offset(s)[25] = Offset(s)[25 - 1] + Size(s[25])
      BY <3>1, <2>3, <1>1
    <3> QED BY <3>2, <2>5, <2>6, <2>7, Sizes
  <2> QED BY <2>2, <2>5, <2>6, <2>7, <2>8, Sizes DEF PlaceOf
<1> DEFINE Same(cmd) == Places[cmd] = PumpPuts[cmd]
<1>8. Same(SERIALNUMBERS) /\ Same(VERSION) /\ Same(FIRMWAREINFO)
  BY <1>2, <1>3, <1>4 DEF Places, PumpPuts, StructCommands, SERIALNUMBERS, VERSION, FIRMWAREINFO,
     RTSTATUS, CS_RTSTATUS, DISPENSE_INFO, LAST_DIS_INFO_2
<1>9. Same(RTSTATUS) /\ Same(CS_RTSTATUS)
  BY <1>6, <1>7 DEF Places, PumpPuts, StructCommands, SERIALNUMBERS, VERSION, FIRMWAREINFO,
     RTSTATUS, CS_RTSTATUS, DISPENSE_INFO, LAST_DIS_INFO_2
<1>10. Same(DISPENSE_INFO) /\ Same(LAST_DIS_INFO_2)
  BY <1>5 DEF Places, PumpPuts, StructCommands, SERIALNUMBERS, VERSION, FIRMWAREINFO,
     RTSTATUS, CS_RTSTATUS, DISPENSE_INFO, LAST_DIS_INFO_2, DispenseInfoKnown
<1> HIDE DEF Same
<1>11. \A cmd \in StructCommands : Same(cmd)
  BY <1>8, <1>9, <1>10 DEF StructCommands
<1> QED BY <1>11 DEF Same

-----------------------------------------------------------------------------
(* SVIDs: what the pump sends *)

\* what is asked for is known, and the strings' lengths fit
CanSend(p, numbers) ==
    /\ numbers \in Seq(Registry)
    /\ \A k \in 1..Len(numbers) : numbers[k] \in Strings => p.texts[numbers[k]] \in Nat

\* nothing is shifted: no string is padded
Unshifted(p, numbers) ==
    \A k \in 1..Len(numbers) : numbers[k] \in Strings => ~(p.padded /\ p.texts[numbers[k]] % 2 = 1)

\* A length is its low byte and 256 times the other.
LEMMA TwoBytes ==
    \A L \in Nat : /\ L % 256 \in Nat /\ L \div 256 \in Nat
                        /\ (L % 256) + 256 * (L \div 256) = L
OBVIOUS

\* A value as it is sent: its width, or its length in front and at least as
\* many bytes.
LEMMA SentIs ==
    ASSUME NEW p, NEW n \in Registry, n \in Strings => p.texts[n] \in Nat
    PROVE  /\ Sent(p, n) \in Seq(Nat)
           /\ n \notin Strings => Len(Sent(p, n)) = Width(n)
           /\ n \in Strings => /\ Len(Sent(p, n)) >= 2 + p.texts[n]
                               /\ Sent(p, n)[1] + 256 * Sent(p, n)[2] = p.texts[n]
                               /\ ~(p.padded /\ p.texts[n] % 2 = 1) => Len(Sent(p, n)) = 2 + p.texts[n]
<1>1. CASE n \notin Strings
  <2>1. Width(n) \in Nat
    BY DEF Width
  <2>2. Sent(p, n) = [i \in 1..Width(n) |-> 0]
    BY <1>1 DEF Sent
  <2>3. [i \in 1..Width(n) |-> 0] \in [1..Width(n) -> Nat]
    OBVIOUS
  <2> QED BY <1>1, <2>1, <2>2, <2>3
<1>2. CASE n \in Strings
  <2> DEFINE L == p.texts[n]
             a == <<L % 256, L \div 256>>
             b == [i \in 1..L |-> Letter]
             pad == IF p.padded /\ L % 2 = 1 THEN <<0>> ELSE <<>>
             s == a \o b
  <2>1. L \in Nat /\ L \in Nat
    BY <1>2
  <2>2. Sent(p, n) = s \o pad
    BY <1>2 DEF Sent
  <2>3. a \in Seq(Nat) /\ Len(a) = 2 /\ a[1] + 256 * a[2] = L
    <3> DEFINE low == L % 256
               high == L \div 256
    <3>1. low \in Nat /\ high \in Nat /\ low + 256 * high = L
      BY <2>1, TwoBytes
    <3> HIDE DEF L, low, high
    <3>2. a[1] = low /\ a[2] = high /\ Len(a) = 2 /\ a \in Seq(Nat)
      BY <3>1 DEF low, high
    <3> QED BY <3>1, <3>2
  <2>4. b \in Seq(Nat) /\ Len(b) = L
    <3>1. b \in [1..L -> Nat]
      BY DEF Letter
    <3> QED BY <2>1, <3>1
  <2>5. pad \in Seq(Nat) /\ Len(pad) \in {0, 1} /\ (~(p.padded /\ L % 2 = 1) => Len(pad) = 0)
    OBVIOUS
  <2> HIDE DEF L, a, b, pad
  <2>6. s \in Seq(Nat) /\ Joined(a, b, s)
    BY <2>3, <2>4, Concatenated
  <2> HIDE DEF s
  <2>7. s \o pad \in Seq(Nat) /\ Joined(s, pad, s \o pad)
    BY <2>5, <2>6, Concatenated
  <2>8. Len(s) = 2 + L /\ s[1] = a[1] /\ s[2] = a[2]
    <3>1. 1 \in 1..2 /\ 2 \in 1..2
      OBVIOUS
    <3> QED BY <3>1, <2>3, <2>4, <2>6 DEF Joined
  <2> DEFINE t == s \o pad
  <2>9. Len(t) = 2 + L + Len(pad) /\ t[1] = a[1] /\ t[2] = a[2]
    <3>1. 1 \in 1..(2 + L) /\ 2 \in 1..(2 + L)
      BY <2>1
    <3> QED BY <3>1, <2>7, <2>8 DEF Joined
  <2>10. t \in Seq(Nat) /\ Sent(p, n) = t
    BY <2>2, <2>7
  <2> HIDE DEF t
  <2>11. /\ Len(t) >= 2 + L /\ t[1] + 256 * t[2] = L
         /\ ~(p.padded /\ L % 2 = 1) => Len(t) = 2 + L
    BY <2>1, <2>3, <2>5, <2>9
  <2> QED BY <1>2, <2>10, <2>11 DEF L
<1> QED BY <1>1, <1>2

RepliedEq(f, p, numbers) ==
    f = [k \in 0..Len(numbers) |-> IF k = 0 THEN <<>> ELSE f[k - 1] \o Sent(p, numbers[k])]

\* The reply grows by one value at a time.
LEMMA RepliedIs ==
    ASSUME NEW p, NEW numbers, CanSend(p, numbers)
    PROVE  /\ Replied(p, numbers) \in [0..Len(numbers) -> Seq(Nat)]
           /\ Replied(p, numbers)[0] = <<>>
           /\ \A k \in 1..Len(numbers) :
                 Replied(p, numbers)[k] = Replied(p, numbers)[k - 1] \o Sent(p, numbers[k])
<1> DEFINE N == Len(numbers)
           g == [x \in Seq(Nat) \X (1..N) |-> x[1] \o Sent(p, numbers[x[2]])]
<1>0. numbers \in Seq(Registry) /\ N \in Nat
  BY DEF CanSend
<1>1. \A k \in 1..N : Sent(p, numbers[k]) \in Seq(Nat)
  <2>1. \A k \in 1..N : numbers[k] \in Registry /\ (numbers[k] \in Strings => p.texts[numbers[k]] \in Nat)
    BY <1>0 DEF CanSend
  <2> QED BY <2>1, SentIs
<1>2. \A s \in Seq(Nat) : \A k \in 1..N : s \o Sent(p, numbers[k]) \in Seq(Nat)
  BY <1>1, Concatenated
<1>3. g \in [Seq(Nat) \X (1..N) -> Seq(Nat)]
  BY <1>2
<1>4. \A s \in Seq(Nat) : \A k \in 1..N : g[<<s, k>>] = s \o Sent(p, numbers[k])
  OBVIOUS
<1> HIDE DEF g
<1>5. PICK f : Follows(f, Seq(Nat), N, <<>>, g)
  <2>1. <<>> \in Seq(Nat)
    OBVIOUS
  <2> QED BY <2>1, <1>0, <1>3, Recursion, Zenon
<1>6. RepliedEq(f, p, numbers)
  <2>1. \A k \in 1..N : k - 1 \in 0..N /\ k \in 0..N /\ k # 0
    BY <1>0
  <2>2. \A k \in 1..N : k \in 0..N /\ k # 0 /\ g[<<f[k - 1], k>>] = f[k - 1] \o Sent(p, numbers[k])
    <3> HIDE DEF N
    <3>1. \A k \in 1..N : f[k - 1] \in Seq(Nat)
      BY <2>1, <1>5, Zenon DEF Follows
    <3> QED BY <2>1, <3>1, <1>4, Zenon
  <2>3. \A k \in 0..N : k = 0 \/ k \in 1..N
    OBVIOUS
  <2>4. \A k \in 0..N : f[k] = IF k = 0 THEN <<>> ELSE f[k - 1] \o Sent(p, numbers[k])
    BY <2>2, <2>3, <1>5 DEF Follows
  <2>5. f = [k \in 0..N |-> f[k]]
    BY <1>5 DEF Follows
  <2> QED BY <2>4, <2>5 DEF RepliedEq
<1> DEFINE r == CHOOSE s : RepliedEq(s, p, numbers)
<1>7. Replied(p, numbers) = r
  BY DEF Replied, RepliedEq
<1>8. RepliedEq(r, p, numbers)
  BY <1>6
<1> HIDE DEF r
<1>9. DOMAIN r = 0..N /\ \A k \in 0..N : r[k] = IF k = 0 THEN <<>> ELSE r[k - 1] \o Sent(p, numbers[k])
  BY <1>8, Zenon DEF RepliedEq
<1>10. r[0] = <<>> /\ \A k \in 1..N : r[k] = r[k - 1] \o Sent(p, numbers[k])
  <2>1. 0 \in 0..N /\ \A k \in 1..N : k \in 0..N /\ k # 0
    BY <1>0
  <2> QED BY <2>1, <1>9
<1> DEFINE T == {n \in Nat : n <= N => r[n] \in Seq(Nat)}
<1>11. 0 \in T /\ T \in SUBSET Nat
  <2>1. r[0] \in Seq(Nat)
    BY <1>10
  <2> QED BY <2>1
<1>12. \A n \in T : n < N => n + 1 \in T
  <2> SUFFICES ASSUME NEW n \in Nat, n < N, r[n] \in Seq(Nat) PROVE r[n + 1] \in Seq(Nat)
    BY <1>0
  <2>1. n + 1 \in 1..N /\ (n + 1) - 1 = n
    BY <1>0
  <2>2. r[n + 1] = r[n] \o Sent(p, numbers[n + 1])
    BY <2>1, <1>10
  <2> QED BY <2>1, <2>2, <1>2
<1>13. \A n \in 0..N : n \in T
  <2> HIDE DEF T
  <2> QED BY <1>0, <1>11, <1>12, UpTo
<1>14. r \in [0..N -> Seq(Nat)]
  <2>1. r = [k \in 0..N |-> r[k]]
    BY <1>8, Zenon DEF RepliedEq
  <2>2. \A n \in 0..N : r[n] \in Seq(Nat)
    BY <1>13
  <2> QED BY <2>1, <2>2
<1> QED BY <1>7, <1>10, <1>14

\* s is how st begins
Begins(s, st) == Len(s) <= Len(st) /\ \A i \in 1..Len(s) : st[i] = s[i]

\* What a sequence begins with it still begins with when it is continued.
LEMMA JoinedBegins ==
    ASSUME NEW S, NEW a \in Seq(S), NEW s \in Seq(S), NEW t \in Seq(S), Begins(a, s)
    PROVE  Begins(a, s \o t)
<1> DEFINE st == s \o t
<1>1. Joined(s, t, st)
  BY Concatenated
<1> HIDE DEF st
<1>2. Len(s) \in Nat /\ Len(t) \in Nat /\ Len(a) \in Nat
  OBVIOUS
<1>3. \A i \in 1..Len(a) : i \in 1..Len(s)
  BY <1>2 DEF Begins
<1>4. Begins(a, st)
  BY <1>1, <1>2, <1>3 DEF Joined, Begins
<1> QED BY <1>4 DEF st

\* The whole reply begins with the reply as far as any value.
LEMMA RepliedBegins ==
    ASSUME NEW p, NEW numbers, CanSend(p, numbers), NEW k \in 0..Len(numbers)
    PROVE  Begins(Replied(p, numbers)[k], Reply(p, numbers))
<1> DEFINE N == Len(numbers)
           r == Replied(p, numbers)
           T == {m \in Nat : k + m <= N => Begins(r[k], r[k + m])}
<1>0. N \in Nat
  BY DEF CanSend
<1>1. r \in [0..N -> Seq(Nat)] /\ \A j \in 1..N : r[j] = r[j - 1] \o Sent(p, numbers[j])
  BY RepliedIs
<1>2. \A j \in 1..N : Sent(p, numbers[j]) \in Seq(Nat)
  <2>1. \A j \in 1..N : numbers[j] \in Registry /\ (numbers[j] \in Strings => p.texts[numbers[j]] \in Nat)
    BY DEF CanSend
  <2> QED BY <2>1, SentIs
<1> HIDE DEF r
<1>3. 0 \in T /\ T \in SUBSET Nat
  <2>1. k + 0 = k /\ r[k] \in Seq(Nat)
    BY <1>0, <1>1
  <2>2. Len(r[k]) \in Nat
    BY <2>1
  <2>3. Begins(r[k], r[k])
    BY <2>2 DEF Begins
  <2> QED BY <2>1, <2>3
<1>4. \A m \in T : m < N - k => m + 1 \in T
  <2> SUFFICES ASSUME NEW m \in Nat, m < N - k, Begins(r[k], r[k + m])
               PROVE  Begins(r[k], r[k + (m + 1)])
    BY <1>0
  <2>1. k + (m + 1) \in 1..N /\ (k + (m + 1)) - 1 = k + m /\ k + m \in 0..N
    BY <1>0
  <2>2. r[k + (m + 1)] = r[k + m] \o Sent(p, numbers[k + (m + 1)])
    BY <2>1, <1>1
  <2>3. r[k] \in Seq(Nat) /\ r[k + m] \in Seq(Nat) /\ Sent(p, numbers[k + (m + 1)]) \in Seq(Nat)
    BY <2>1, <1>0, <1>1, <1>2
  <2> QED BY <2>2, <2>3, JoinedBegins
<1>5. N - k \in Nat /\ k + (N - k) = N /\ N - k \in 0..(N - k)
  BY <1>0
<1>6. \A m \in 0..(N - k) : m \in T
  <2> HIDE DEF T
  <2> QED BY <1>3, <1>4, <1>5, UpTo
<1>7. Begins(r[k], r[k + (N - k)])
  BY <1>5, <1>6
<1> QED BY <1>5, <1>7 DEF r, Reply

\* A reply cut to a length has that length, and the same bytes.
LEMMA DataIs ==
    ASSUME NEW s \in Seq(Nat), NEW length \in 0..Len(s)
    PROVE  /\ SubSeq(s, 1, length) \in Seq(Nat) /\ Len(SubSeq(s, 1, length)) = length
           /\ \A i \in 1..length : SubSeq(s, 1, length)[i] = s[i]
OBVIOUS

-----------------------------------------------------------------------------
(* SVIDs: what walk_reply finds *)

Found == [found : Seq(Nat \X Nat), at : Nat]

\* Running out is no result of a walk.
LEMMA RanOutIsNot == RanOut \notin Found
<1>1. RanOut.at = -1
  BY DEF RanOut
<1>2. \A w \in Found : w.at \in Nat
  BY DEF Found
<1>3. -1 \notin Nat
  OBVIOUS
<1> QED BY <1>1, <1>2, <1>3

\* Where a value is taken to be: here, or behind the length that is here.
LEMMA ValueAtIs ==
    ASSUME NEW data \in Seq(Nat), NEW at \in Nat, NEW n \in Registry, NEW place \in ValueAt(data, at, n)
    PROVE  /\ place \in Nat \X Nat
           /\ n \notin Strings => place = <<at, Width(n)>>
           /\ n \in Strings => /\ at + 2 <= Len(data)
                               /\ place = <<at + 2, data[at + 1] + 256 * data[at + 2]>>
<1>1. Width(n) \in Nat
  BY DEF Width
<1>2. CASE n \notin Strings
  BY <1>1, <1>2 DEF ValueAt
<1>3. CASE n \in Strings
  <2>1. at + 2 <= Len(data) /\ place = <<at + 2, data[at + 1] + 256 * data[at + 2]>>
    BY <1>3 DEF ValueAt, LengthSize
  <2>2. Len(data) \in Nat /\ at + 1 \in 1..Len(data) /\ at + 2 \in 1..Len(data)
    BY <2>1
  <2>3. data[at + 1] \in Nat /\ data[at + 2] \in Nat
    BY <2>2
  <2>4. data[at + 1] + 256 * data[at + 2] \in Nat
    BY <2>3
  <2> QED BY <1>3, <2>1, <2>4
<1> QED BY <1>2, <1>3

\* A walk that doesn't run out has found one place more, within the data.
LEMMA WalkedIs ==
    ASSUME NEW data \in Seq(Nat), NEW walk \in Found \union {RanOut}, NEW n \in Registry,
           Walked(data, walk, n) # RanOut
    PROVE  /\ walk \in Found /\ Walked(data, walk, n) \in Found
           /\ \E place \in ValueAt(data, walk.at, n) :
                 /\ place \in Nat \X Nat
                 /\ place[1] + place[2] <= Len(data)
                 /\ Walked(data, walk, n).found = Append(walk.found, place)
                 /\ Walked(data, walk, n).at = place[1] + place[2]
<1> DEFINE fits == {place \in ValueAt(data, walk.at, n) : place[1] + place[2] <= Len(data)}
           place == CHOOSE q \in fits : TRUE
           new == [found |-> Append(walk.found, place), at |-> place[1] + place[2]]
<1>1. walk # RanOut /\ fits # {} /\ Walked(data, walk, n) = new
  BY DEF Walked
<1>2. place \in fits
  BY <1>1
<1>3. walk \in Found
  BY <1>1
<1>4. walk.at \in Nat /\ walk.found \in Seq(Nat \X Nat)
  BY <1>3 DEF Found
<1>5. place \in ValueAt(data, walk.at, n) /\ place[1] + place[2] <= Len(data)
  BY <1>2
<1> HIDE DEF place, fits
<1>6. place \in Nat \X Nat
  BY <1>4, <1>5, ValueAtIs
<1>7. Append(walk.found, place) \in Seq(Nat \X Nat) /\ place[1] + place[2] \in Nat
  BY <1>4, <1>6
<1>8. new \in Found
  BY <1>7 DEF Found
<1>9. new.found = Append(walk.found, place) /\ new.at = place[1] + place[2]
  OBVIOUS
<1> QED BY <1>1, <1>3, <1>5, <1>6, <1>8, <1>9

WalkEq(f, data, numbers) ==
    f = [k \in 0..Len(numbers) |-> IF k = 0 THEN NotYet ELSE Walked(data, f[k - 1], numbers[k])]

\* The walk goes on by one value at a time.
LEMMA WalkIs ==
    ASSUME NEW data \in Seq(Nat), NEW numbers \in Seq(Registry)
    PROVE  /\ WalkReply(data, numbers) \in [0..Len(numbers) -> Found \union {RanOut}]
           /\ WalkReply(data, numbers)[0] = NotYet
           /\ \A k \in 1..Len(numbers) :
                 WalkReply(data, numbers)[k] = Walked(data, WalkReply(data, numbers)[k - 1], numbers[k])
<1> DEFINE N == Len(numbers)
           S == Found \union {RanOut}
           g == [x \in S \X (1..N) |-> Walked(data, x[1], numbers[x[2]])]
<1>0. N \in Nat /\ \A k \in 1..N : numbers[k] \in Registry
  OBVIOUS
<1>1. NotYet \in S
  BY DEF NotYet, Found
<1>2. \A walk \in S : \A k \in 1..N : Walked(data, walk, numbers[k]) \in S
  <2> SUFFICES ASSUME NEW walk \in S, NEW k \in 1..N, Walked(data, walk, numbers[k]) # RanOut
               PROVE  Walked(data, walk, numbers[k]) \in Found
    OBVIOUS
  <2> HIDE DEF N
  <2>1. numbers[k] \in Registry
    BY <1>0
  <2> QED BY <2>1, WalkedIs, Zenon
<1> HIDE DEF S
<1>3. g \in [S \X (1..N) -> S]
  BY <1>2
<1>4. \A walk \in S : \A k \in 1..N : g[<<walk, k>>] = Walked(data, walk, numbers[k])
  OBVIOUS
<1> HIDE DEF g
<1>5. PICK f : Follows(f, S, N, NotYet, g)
  BY <1>0, <1>1, <1>3, Recursion, Zenon
<1>6. WalkEq(f, data, numbers)
  <2>1. \A k \in 1..N : k - 1 \in 0..N /\ k \in 0..N /\ k # 0
    BY <1>0
  <2>2. \A k \in 1..N : k \in 0..N /\ k # 0 /\ g[<<f[k - 1], k>>] = Walked(data, f[k - 1], numbers[k])
    <3> HIDE DEF N
    <3>1. \A k \in 1..N : f[k - 1] \in S
      BY <2>1, <1>5, Zenon DEF Follows
    <3> QED BY <2>1, <3>1, <1>4, Zenon
  <2>3. \A k \in 0..N : k = 0 \/ k \in 1..N
    OBVIOUS
  <2>4. \A k \in 0..N : f[k] = IF k = 0 THEN NotYet ELSE Walked(data, f[k - 1], numbers[k])
    BY <2>2, <2>3, <1>5 DEF Follows
  <2>5. f = [k \in 0..N |-> f[k]]
    BY <1>5 DEF Follows
  <2> QED BY <2>4, <2>5 DEF WalkEq
<1> DEFINE w == CHOOSE s : WalkEq(s, data, numbers)
<1>7. WalkReply(data, numbers) = w
  BY DEF WalkReply, WalkEq
<1>8. WalkEq(w, data, numbers)
  BY <1>6
<1> HIDE DEF w
<1>9. DOMAIN w = 0..N /\ \A k \in 0..N : w[k] = IF k = 0 THEN NotYet ELSE Walked(data, w[k - 1], numbers[k])
  BY <1>8, Zenon DEF WalkEq
<1>10. w[0] = NotYet /\ \A k \in 1..N : w[k] = Walked(data, w[k - 1], numbers[k])
  <2>1. 0 \in 0..N /\ \A k \in 1..N : k \in 0..N /\ k # 0
    BY <1>0
  <2> QED BY <2>1, <1>9
<1> DEFINE T == {n \in Nat : n <= N => w[n] \in S}
<1>11. 0 \in T /\ T \in SUBSET Nat
  BY <1>1, <1>10
<1>12. \A n \in T : n < N => n + 1 \in T
  <2> SUFFICES ASSUME NEW n \in Nat, n < N, w[n] \in S PROVE w[n + 1] \in S
    BY <1>0
  <2>1. n + 1 \in 1..N /\ (n + 1) - 1 = n
    BY <1>0
  <2>2. w[n + 1] = Walked(data, w[n], numbers[n + 1])
    BY <2>1, <1>10
  <2> QED BY <2>1, <2>2, <1>2
<1>13. \A n \in 0..N : n \in T
  <2> HIDE DEF T
  <2> QED BY <1>0, <1>11, <1>12, UpTo
<1>14. w \in [0..N -> S]
  <2>1. w = [k \in 0..N |-> w[k]]
    BY <1>8, Zenon DEF WalkEq
  <2>2. \A n \in 0..N : w[n] \in S
    BY <1>13
  <2> QED BY <2>1, <2>2
<1> QED BY <1>7, <1>10, <1>14 DEF S

\* What one more value adds to what was found right.
RightSoFar(p, data, numbers, w, k) ==
    w[k] # RanOut =>
        /\ w[k] \in Found /\ Len(w[k].found) = k /\ w[k].at <= Len(data)
        /\ Unshifted(p, numbers) => /\ w[k].at = Len(Replied(p, numbers)[k])
                                    /\ \A j \in 1..k : w[k].found[j] = SentAt(p, numbers, j)

\* How the k-th value follows the ones before it.
FollowedBySent(p, numbers, k) ==
    /\ Len(Replied(p, numbers)[k - 1]) \in Nat
    /\ Len(Replied(p, numbers)[k]) = Len(Replied(p, numbers)[k - 1]) + Len(Sent(p, numbers[k]))
    /\ numbers[k] \in Strings =>
          /\ p.texts[numbers[k]] \in Nat
          /\ Len(Replied(p, numbers)[k - 1]) + 2 <= Len(Replied(p, numbers)[k])
          /\ Replied(p, numbers)[k][Len(Replied(p, numbers)[k - 1]) + 1]
                + 256 * Replied(p, numbers)[k][Len(Replied(p, numbers)[k - 1]) + 2]
             = p.texts[numbers[k]]

\* Each value follows those before it, a string behind its length.
LEMMA SentAtIs ==
    ASSUME NEW p, NEW numbers, CanSend(p, numbers), NEW k \in 1..Len(numbers)
    PROVE  FollowedBySent(p, numbers, k)
<1> DEFINE r == Replied(p, numbers)
           n == numbers[k]
           s == r[k - 1]
           t == Sent(p, n)
<1>0. numbers \in Seq(Registry) /\ Len(numbers) \in Nat /\ n \in Registry
  BY DEF CanSend
<1>1. k - 1 \in 0..Len(numbers) /\ k \in 0..Len(numbers)
  BY <1>0
<1>2. s \in Seq(Nat) /\ r[k] = s \o t
  BY <1>1, RepliedIs
<1>3. n \in Strings => p.texts[n] \in Nat
  BY DEF CanSend
<1>4. /\ t \in Seq(Nat)
      /\ n \in Strings => /\ Len(t) >= 2 + p.texts[n]
                          /\ t[1] + 256 * t[2] = p.texts[n]
  BY <1>0, <1>3, SentIs
<1> HIDE DEF r, n, s, t
<1> DEFINE q == s \o t
<1>5. Joined(s, t, q)
  BY <1>2, <1>4, Concatenated
<1> HIDE DEF q
<1>6. Len(s) \in Nat /\ Len(t) \in Nat /\ Len(q) = Len(s) + Len(t)
  BY <1>2, <1>4, <1>5 DEF Joined
<1>7. n \in Strings => q[Len(s) + 1] = t[1] /\ q[Len(s) + 2] = t[2] /\ Len(s) + 2 <= Len(q)
  <2> SUFFICES ASSUME n \in Strings PROVE q[Len(s) + 1] = t[1] /\ q[Len(s) + 2] = t[2] /\ Len(s) + 2 <= Len(q)
    OBVIOUS
  <2>1. Len(t) >= 2
    BY <1>3, <1>4, <1>6
  <2>2. 1 \in 1..Len(t) /\ 2 \in 1..Len(t)
    BY <2>1, <1>6
  <2> QED BY <2>1, <2>2, <1>5, <1>6 DEF Joined
<1>8. r[k] = q
  BY <1>2 DEF q
<1> QED BY <1>3, <1>4, <1>6, <1>7, <1>8 DEF r, n, s, t, FollowedBySent

\* A walk that found the values before the k-th right finds it right, in any
\* part of the reply that has it.
LEMMA OneFurther ==
    ASSUME NEW p, NEW numbers, CanSend(p, numbers),
           NEW data \in Seq(Nat), Begins(data, Reply(p, numbers)), NEW w,
           NEW k \in 1..Len(numbers), RightSoFar(p, data, numbers, w, k - 1),
           w[k - 1] \in Found \union {RanOut}, w[k] = Walked(data, w[k - 1], numbers[k])
    PROVE  RightSoFar(p, data, numbers, w, k)
<1>2. FollowedBySent(p, numbers, k)
  BY SentAtIs
<1> DEFINE reply == Reply(p, numbers)
           r == Replied(p, numbers)
           n == numbers[k]
           at == w[k - 1].at
<1>0. numbers \in Seq(Registry) /\ Len(numbers) \in Nat /\ n \in Registry
  BY DEF CanSend
<1>1. k - 1 \in 0..Len(numbers) /\ k \in 0..Len(numbers) /\ Len(numbers) \in 0..Len(numbers)
  BY <1>0
<1> DEFINE length == Len(data)
<1>3. length \in Nat /\ \A i \in 1..length : data[i] = reply[i]
  BY DEF Begins
<1> SUFFICES ASSUME w[k] # RanOut
             PROVE  /\ w[k] \in Found /\ Len(w[k].found) = k /\ w[k].at <= Len(data)
                    /\ Unshifted(p, numbers) => /\ w[k].at = Len(r[k])
                                                /\ \A j \in 1..k : w[k].found[j] = SentAt(p, numbers, j)
  BY DEF RightSoFar
<1>4. Walked(data, w[k - 1], n) # RanOut
  OBVIOUS
<1>6. PICK place \in ValueAt(data, at, n) :
         /\ place \in Nat \X Nat
         /\ place[1] + place[2] <= Len(data)
         /\ w[k].found = Append(w[k - 1].found, place)
         /\ w[k].at = place[1] + place[2]
  BY <1>0, <1>4, WalkedIs
<1>7. w[k - 1] \in Found /\ w[k] \in Found
  BY <1>0, <1>4, WalkedIs
<1>8. w[k - 1] # RanOut
  BY <1>7, RanOutIsNot
<1>9. at \in Nat /\ w[k - 1].found \in Seq(Nat \X Nat)
  BY <1>7 DEF Found
<1>10. Len(w[k - 1].found) = k - 1 /\ at <= Len(data)
  BY <1>8 DEF RightSoFar
<1>11. /\ Len(w[k].found) = k /\ w[k].found[k] = place
       /\ \A j \in 1..(k - 1) : w[k].found[j] = w[k - 1].found[j]
  <2> DEFINE was == w[k - 1].found
  <2>1. was \in Seq(Nat \X Nat) /\ Len(was) = k - 1
    BY <1>9, <1>10
  <2> HIDE DEF was
  <2>2. /\ Len(Append(was, place)) = k /\ Append(was, place)[k] = place
        /\ \A j \in 1..(k - 1) : Append(was, place)[j] = was[j]
    BY <2>1, <1>6
  <2> QED BY <2>2, <1>6 DEF was
<1>12. ASSUME Unshifted(p, numbers)
       PROVE  place = SentAt(p, numbers, k) /\ place[1] + place[2] = Len(r[k])
  <2>1. at = Len(r[k - 1])
    BY <1>8, <1>12 DEF RightSoFar
  <2>2. Len(r[k]) = Len(r[k - 1]) + Len(Sent(p, n)) /\ Len(r[k - 1]) \in Nat
    BY <1>2 DEF FollowedBySent
  <2>3. /\ n \notin Strings => place = <<at, Width(n)>>
        /\ n \in Strings => /\ at + 2 <= Len(data)
                            /\ place = <<at + 2, data[at + 1] + 256 * data[at + 2]>>
    <3>1. place \in ValueAt(data, at, n)
      BY <1>6
    <3> HIDE DEF at, n
    <3> QED BY <3>1, <1>0, <1>9, ValueAtIs
  <2>4. CASE n \notin Strings
    <3>1. Len(Sent(p, n)) = Width(n)
      BY <1>0, <2>4, SentIs
    <3> QED BY <2>1, <2>2, <2>3, <2>4, <3>1 DEF SentAt
  <2>5. CASE n \in Strings
    <3>0. /\ p.texts[n] \in Nat /\ Len(r[k - 1]) + 2 <= Len(r[k])
          /\ r[k][Len(r[k - 1]) + 1] + 256 * r[k][Len(r[k - 1]) + 2] = p.texts[n]
      BY <2>5, <1>2 DEF FollowedBySent
    <3>1. p.texts[n] \in Nat /\ ~(p.padded /\ p.texts[n] % 2 = 1)
      BY <3>0, <2>5, <1>12 DEF Unshifted
    <3>2. Len(Sent(p, n)) = 2 + p.texts[n]
      BY <1>0, <2>5, <3>1, SentIs
    <3>3. Begins(r[k], reply)
      BY <1>1, RepliedBegins
    <3>4. data[at + 1] = r[k][at + 1] /\ data[at + 2] = r[k][at + 2]
      <4>1. at + 1 \in 1..length /\ at + 2 \in 1..length
        <5> HIDE DEF at, n
        <5> QED BY <2>3, <2>5, <1>3, <1>9
      <4>2. Len(r[k]) \in Nat
        BY <1>1, RepliedIs
      <4>3. at + 1 \in 1..Len(r[k]) /\ at + 2 \in 1..Len(r[k])
        <5> HIDE DEF at, n, r
        <5> QED BY <2>1, <3>0, <1>9, <4>2, SMTT(60)
      <4> QED BY <4>1, <4>3, <3>3, <1>3 DEF Begins
    <3>5. place = <<at + 2, p.texts[n]>>
      <4>1. place = <<at + 2, data[at + 1] + 256 * data[at + 2]>>
        BY <2>3, <2>5
      <4>2. data[at + 1] + 256 * data[at + 2] = p.texts[n]
        BY <2>1, <3>0, <3>4
      <4> QED BY <4>1, <4>2
    <3>6. SentAt(p, numbers, k) = <<at + 2, p.texts[n]>>
      BY <2>1, <2>5 DEF SentAt, LengthSize
    <3>7. place[1] + place[2] = at + 2 + p.texts[n]
      BY <3>5
    <3>8. place[1] + place[2] = Len(r[k])
      <4> DEFINE before == Len(r[k - 1])
                 all == Len(r[k])
                 text == p.texts[n]
                 sent == Len(Sent(p, n))
      <4>1. all = before + sent /\ before \in Nat /\ text \in Nat /\ sent = 2 + text /\ at = before
        BY <3>1, <3>2, <2>1, <2>2
      <4>2. place[1] + place[2] = at + 2 + text
        BY <3>7
      <4> HIDE DEF before, all, text, sent, at
      <4>3. place[1] + place[2] = all
        BY <4>1, <4>2
      <4> QED BY <4>3 DEF all
    <3> QED BY <3>5, <3>6, <3>8
  <2> QED BY <2>4, <2>5
<1>13. ASSUME Unshifted(p, numbers), NEW j \in 1..k
       PROVE  w[k].found[j] = SentAt(p, numbers, j)
  <2>1. CASE j = k
    BY <2>1, <1>11, <1>12, <1>13
  <2>2. CASE j # k
    <3>1. j \in 1..(k - 1)
      BY <2>2
    <3>2. w[k - 1].found[j] = SentAt(p, numbers, j)
      BY <3>1, <1>8, <1>13 DEF RightSoFar
    <3> QED BY <3>1, <3>2, <1>11
  <2> QED BY <2>1, <2>2
<1>14. Unshifted(p, numbers) => w[k].at = Len(r[k])
  BY <1>6, <1>12
<1> QED BY <1>6, <1>7, <1>11, <1>13, <1>14

\* A walk that comes to its end has found every value, where it was sent if
\* nothing is shifted (walk_reply).
LEMMA WalkRight ==
    ASSUME NEW p, NEW numbers, CanSend(p, numbers),
           NEW data \in Seq(Nat), Begins(data, Reply(p, numbers))
    PROVE  RightSoFar(p, data, numbers, WalkReply(data, numbers), Len(numbers))
<1> DEFINE N == Len(numbers)
           w == WalkReply(data, numbers)
           T == {k \in Nat : k <= N => RightSoFar(p, data, numbers, w, k)}
<1>0. numbers \in Seq(Registry) /\ N \in Nat
  BY DEF CanSend
<1>1. /\ w \in [0..N -> Found \union {RanOut}] /\ w[0] = NotYet
      /\ \A k \in 1..N : w[k] = Walked(data, w[k - 1], numbers[k])
  BY <1>0, WalkIs
<1>2. Len(data) \in Nat
  OBVIOUS
<1> HIDE DEF w
<1>3. RightSoFar(p, data, numbers, w, 0)
  <2>1. w[0] = NotYet
    BY <1>1
  <2>2. NotYet \in Found /\ Len(NotYet.found) = 0 /\ NotYet.at = 0
    BY DEF NotYet, Found
  <2>3. Replied(p, numbers)[0] = <<>>
    BY RepliedIs
  <2>4. \A j \in 1..0 : FALSE
    OBVIOUS
  <2> QED BY <2>1, <2>2, <2>3, <2>4, <1>2 DEF RightSoFar
<1>4. 0 \in T /\ T \in SUBSET Nat
  BY <1>3
<1>5. \A k \in T : k < N => k + 1 \in T
  <2> SUFFICES ASSUME NEW k \in Nat, k < N, RightSoFar(p, data, numbers, w, k)
               PROVE  RightSoFar(p, data, numbers, w, k + 1)
    BY <1>0
  <2>1. k + 1 \in 1..N /\ (k + 1) - 1 = k
    BY <1>0
  <2>2. RightSoFar(p, data, numbers, w, (k + 1) - 1)
    BY <2>1
  <2>3. k \in 0..N
    BY <1>0
  <2>4. w[(k + 1) - 1] \in Found \union {RanOut}
    BY <2>1, <2>3, <1>1
  <2>5. w[k + 1] = Walked(data, w[(k + 1) - 1], numbers[k + 1])
    BY <2>1, <1>1
  <2> HIDE DEF N
  <2> QED BY <2>1, <2>2, <2>4, <2>5, OneFurther DEF N
<1>6. \A k \in 0..N : k \in T
  <2> HIDE DEF T
  <2> QED BY <1>0, <1>4, <1>5, UpTo
<1> QED BY <1>0, <1>6 DEF w

-----------------------------------------------------------------------------
(* The inductive invariant *)

\* what is left of a plan after its first j requests
Left(plan, j) == [i \in 1..(Len(plan) - j) |-> plan[i + j]]

Lists(t) == {SvidsOf(t)} \union {<<n>> : n \in Listed(t)}
Asked == {Ask(cmd) : cmd \in StructCommands} \union {AskSvids(numbers) : numbers \in Lists(task)}

Types ==
    /\ task \in Tasks
    /\ CanSend(pump, SvidsOf(task))
    /\ moved \in BOOLEAN /\ raised \in BOOLEAN
    /\ problems \subseteq Asked \union {Refused}
    /\ leftover \in Nat

\* A reply is late only as long as it is waited for.
Waited ==
    \/ waiting = TRUE /\ late \in Asked /\ todo # <<>>
    \/ waiting = FALSE /\ late = None

\* a struct whose reply was cut to a length, and read before or after the dispense
ParsedAs(cmd, length, m) ==
    [name \in DOMAIN Places[cmd] |->
        IF Places[cmd][name][1] + Places[cmd][name][2] > length THEN None
        ELSE [from |-> Ask(cmd), at |-> Places[cmd][name][1],
              size |-> Places[cmd][name][2], moved |-> m]]

StructsParsed ==
    /\ fields = [cmd \in StructCommands |-> fields[cmd]]
    /\ \A cmd \in StructCommands : fields[cmd] # None =>
          \E length \in Nat, m \in BOOLEAN :
              fields[cmd] = ParsedAs(cmd, length, m) /\ (cmd = DISPENSE_INFO => m = FALSE)

\* v was read as the k-th of numbers
ReadAs(v, numbers, k) ==
    /\ v \in [from : {AskSvids(numbers)}, at : Nat, size : Nat, moved : BOOLEAN]
    /\ v.moved => moved
    /\ Unshifted(pump, numbers) => <<v.at, v.size>> = SentAt(pump, numbers, k)

ValuesRead ==
    \A n \in Numbers : values[n] # None =>
        \E numbers \in Lists(task) : \E k \in 1..Len(numbers) :
            numbers[k] = n /\ ReadAs(values[n], numbers, k)

\* The title and the confirmation are read before the confirmation's time, or
\* with it.
BeforeTime ==
    task = "header" => \A n \in {Title, Pct} :
        values[n] # None /\ values[Time] # None /\ values[n].moved => values[Time].moved

MovedSinceRead == moved => task = "header" /\ fields[DISPENSE_INFO] # None

Planned(j) ==
    /\ todo = Left(Plan(task), j)
    /\ \A k \in 1..j : Told(Plan(task)[k])
    /\ j < Len(Plan(task)) => \A n \in Numbers : values[n] = None
    /\ task = "header" /\ j = 0 => fields[DISPENSE_INFO] = None

OneAtATime(j) ==
    /\ todo = Left(OneByOne, j)
    /\ task # "newest"
    /\ \A k \in DOMAIN Plan(task) : IsSvids(Plan(task)[k]) \/ Told(Plan(task)[k])
    /\ \A k \in 1..j : Told(OneByOne[k])
    /\ task = "header" /\ j < 3 => values[Time] = None

\* The read is over, or is on its way through its plan.
InTurn ==
    \/ raised = TRUE /\ todo = <<>>
    \/ todo = <<>> /\ NoMoreNeeded
    \/ \E j \in 0..Len(Plan(task)) : Planned(j)
    \/ \E j \in 0..Len(SvidsOf(task)) : OneAtATime(j)

IInv ==
    /\ Types /\ Waited /\ StructsParsed /\ ValuesRead /\ BeforeTime /\ MovedSinceRead /\ InTurn

-----------------------------------------------------------------------------
(* What is asked for *)

\* A struct's request is its command, which isn't GET_SVIDS.
LEMMA AskIs ==
    ASSUME NEW cmd \in StructCommands
    PROVE  /\ Ask(cmd) \in Seq(Nat) /\ Ask(cmd) # <<>>
           /\ Ask(cmd)[1] = cmd /\ ~IsSvids(Ask(cmd))
BY DEF Ask, IsSvids, StructCommands, GET_SVIDS, SERIALNUMBERS, VERSION, FIRMWAREINFO, RTSTATUS,
   CS_RTSTATUS, DISPENSE_INFO, LAST_DIS_INFO_2

\* A request for SVIDs is told apart by its command, and lists them in order.
LEMMA AskSvidsIs ==
    ASSUME NEW numbers \in Seq(Registry)
    PROVE  /\ AskSvids(numbers) \in Seq(Nat) /\ AskSvids(numbers) # <<>>
           /\ IsSvids(AskSvids(numbers))
           /\ Tail(AskSvids(numbers)) = numbers
           /\ \A k \in 1..Len(numbers) : AskSvids(numbers)[k + 1] = numbers[k]
<1>1. Registry \subseteq Nat
  BY DEF Registry, Strings, Words, Longs
<1>2. numbers \in Seq(Nat)
  <2>1. Len(numbers) \in Nat /\ numbers \in [1..Len(numbers) -> Registry]
    OBVIOUS
  <2>2. numbers \in [1..Len(numbers) -> Nat]
    BY <2>1, <1>1
  <2> QED BY <2>1, <2>2
<1> DEFINE a == <<21>>
           r == a \o numbers
<1>3. AskSvids(numbers) = r
  BY DEF AskSvids, GET_SVIDS
<1>4. a \in Seq(Nat) /\ Len(a) = 1 /\ a[1] = 21 /\ 1 \in 1..1
  OBVIOUS
<1> HIDE DEF a
<1>5. r \in Seq(Nat) /\ Joined(a, numbers, r)
  BY <1>2, <1>4, Concatenated
<1> HIDE DEF r
<1>6. Len(numbers) \in Nat
  OBVIOUS
<1>7. Len(r) = 1 + Len(numbers) /\ r[1] = 21 /\ \A k \in 1..Len(numbers) : r[1 + k] = numbers[k]
  BY <1>4, <1>5 DEF Joined
<1>8. r # <<>>
  BY <1>5, <1>6, <1>7
<1>9. \A k \in 1..Len(numbers) : r[k + 1] = numbers[k] /\ 1 + k = k + 1
  BY <1>6, <1>7
<1>10. Tail(r) \in Seq(Nat) /\ Len(Tail(r)) = Len(numbers) /\ \A k \in 1..Len(numbers) : Tail(r)[k] = r[k + 1]
  BY <1>5, <1>6, <1>7, <1>8
<1>11. Tail(r) = numbers
  <2> DEFINE t == Tail(r)
  <2>1. t = [k \in 1..Len(t) |-> t[k]] /\ numbers = [k \in 1..Len(numbers) |-> numbers[k]]
    <3>1. t \in Seq(Nat)
      BY <1>10
    <3> HIDE DEF t
    <3> QED BY <3>1, <1>2
  <2> HIDE DEF t
  <2>2. \A k \in 1..Len(numbers) : t[k] = numbers[k]
    BY <1>9, <1>10 DEF t
  <2>3. Len(t) = Len(numbers)
    BY <1>10 DEF t
  <2>4. [k \in 1..Len(t) |-> t[k]] = [k \in 1..Len(numbers) |-> numbers[k]]
    BY <2>2, <2>3
  <2> QED BY <2>1, <2>4 DEF t
<1> QED BY <1>3, <1>5, <1>7, <1>8, <1>9, <1>11 DEF IsSvids, GET_SVIDS

\* Both lists are of known SVIDs, and of more than one.
LEMMA SvidsOfIs ==
    \A t : /\ SvidsOf(t) \in Seq(Registry) /\ Len(SvidsOf(t)) \in Nat /\ Len(SvidsOf(t)) > 1
           /\ t # "info" => SvidsOf(t) = <<20, 849, 1071>>
<1>1. DispenseSvids = <<20, 849, 1071>>
  BY DEF DispenseSvids, Title, Pct, Time
<1>2. <<20, 849, 1071>> \in Seq(Registry) /\ Len(<<20, 849, 1071>>) > 1
  BY DEF Registry, Strings, Words, Longs
<1>3. NameSvids \in Seq(Registry) /\ Len(NameSvids) > 1
  BY ReaderAssumption
<1> QED BY <1>1, <1>2, <1>3 DEF SvidsOf

\* A list asked for is the whole one or has one SVID of it.
LEMMA ListsAre ==
    ASSUME NEW t, NEW numbers \in Lists(t)
    PROVE  /\ numbers \in Seq(Registry)
           /\ \A k \in 1..Len(numbers) : numbers[k] \in Listed(t)
           /\ numbers = SvidsOf(t) \/ \E n \in Listed(t) : numbers = <<n>>
<1>1. SvidsOf(t) \in Seq(Registry)
  BY SvidsOfIs
<1>2. \A k \in 1..Len(SvidsOf(t)) : SvidsOf(t)[k] \in Listed(t) /\ SvidsOf(t)[k] \in Registry
  BY <1>1 DEF Listed
<1>3. \A n \in Listed(t) : n \in Registry
  BY <1>1 DEF Listed
<1>4. CASE numbers = SvidsOf(t)
  BY <1>1, <1>2, <1>4
<1>5. CASE numbers # SvidsOf(t)
  <2>1. PICK n \in Listed(t) : numbers = <<n>>
    BY <1>5 DEF Lists
  <2> QED BY <2>1, <1>3
<1> QED BY <1>4, <1>5

\* The elements of a tail.
LEMMA TailIs ==
    ASSUME NEW S, NEW s \in Seq(S), s # <<>>
    PROVE  /\ Tail(s) \in Seq(S) /\ Len(Tail(s)) = Len(s) - 1
           /\ \A i \in 1..(Len(s) - 1) : Tail(s)[i] = s[i + 1]
OBVIOUS

\* What is left begins with the next request, and is one shorter behind it.
LEMMA LeftIs ==
    ASSUME NEW S, NEW plan \in Seq(S), NEW j \in 0..Len(plan)
    PROVE  /\ Left(plan, j) \in Seq(S)
           /\ j = 0 => Left(plan, j) = plan
           /\ j = Len(plan) <=> Left(plan, j) = <<>>
           /\ j < Len(plan) => /\ j + 1 \in 1..Len(plan)
                               /\ Head(Left(plan, j)) = plan[j + 1]
                               /\ Tail(Left(plan, j)) = Left(plan, j + 1)
<1> DEFINE N == Len(plan)
           l == Left(plan, j)
           m == Left(plan, j + 1)
<1>0. N \in Nat /\ j \in Nat /\ N - j \in Nat
  OBVIOUS
<1>1. l = [i \in 1..(N - j) |-> plan[i + j]]
  BY DEF Left
<1>2. \A i \in 1..(N - j) : plan[i + j] \in S
  BY <1>0
<1>3. l \in Seq(S) /\ Len(l) = N - j /\ \A i \in 1..(N - j) : l[i] = plan[i + j]
  BY <1>0, <1>1, <1>2
<1>4. ASSUME j = 0 PROVE l = plan
  <2>1. \A i \in 1..N : l[i] = plan[i]
    BY <1>0, <1>3, <1>4
  <2> QED BY <1>0, <1>3, <1>4, <2>1
<1>5. j = N <=> l = <<>>
  BY <1>0, <1>3
<1>6. ASSUME j < N
      PROVE  j + 1 \in 1..N /\ Head(l) = plan[j + 1] /\ Tail(l) = m
  <2>1. j + 1 \in 1..N /\ N - (j + 1) \in Nat /\ 1 \in 1..(N - j) /\ N - (j + 1) = (N - j) - 1
    BY <1>0, <1>6
  <2>2. m = [i \in 1..(N - (j + 1)) |-> plan[i + (j + 1)]]
    BY DEF Left
  <2> DEFINE t == Tail(l)
             k == (N - j) - 1
  <2> HIDE DEF l
  <2>3. l # <<>> /\ Head(l) = l[1]
    BY <2>1, <1>3
  <2>4. t \in Seq(S) /\ Len(t) = k /\ k \in Nat /\ \A i \in 1..k : t[i] = l[i + 1]
    <3>1. t \in Seq(S) /\ Len(t) = Len(l) - 1 /\ \A i \in 1..(Len(l) - 1) : t[i] = l[i + 1]
      BY <2>3, <1>3, TailIs
    <3> QED BY <3>1, <2>1, <1>3
  <2>5. t = [i \in 1..k |-> plan[i + (j + 1)]]
    <3>1. \A i \in 1..k : i + 1 \in 1..(N - j) /\ (i + 1) + j = i + (j + 1)
      BY <1>0
    <3>2. \A i \in 1..k : t[i] = plan[i + (j + 1)]
      BY <3>1, <2>4, <1>3
    <3> HIDE DEF t, k
    <3>3. t = [i \in 1..k |-> t[i]]
      BY <2>4
    <3> QED BY <3>2, <3>3
  <2>6. l[1] = plan[1 + j] /\ 1 + j = j + 1
    BY <2>1, <1>0, <1>3
  <2> QED BY <2>1, <2>2, <2>3, <2>5, <2>6
<1> QED BY <1>3, <1>4, <1>5, <1>6

IsPlan(t, plan) ==
    /\ plan \in Seq(Seq(Nat)) /\ Len(plan) \in Nat
    /\ \A k \in 1..Len(plan) :
          \/ \E cmd \in StructCommands : plan[k] = Ask(cmd)
          \/ t # "newest" /\ k = Len(plan) /\ plan[k] = AskSvids(SvidsOf(t))
    /\ \A k \in 1..Len(plan) : plan[k] = Ask(DISPENSE_INFO) => t = "header" /\ k = 1

\* In every plan the list of SVIDs is last, and DISPENSE_INFO is asked for
\* once, first, for a header.
LEMMA PlanIs == \A t \in {"info", "newest", "header"} : IsPlan(t, Plan(t))
<1> DEFINE C == {SERIALNUMBERS, VERSION, FIRMWAREINFO, RTSTATUS, CS_RTSTATUS, DISPENSE_INFO, LAST_DIS_INFO_2}
<1>1. /\ \A cmd \in C : cmd \in StructCommands /\ Ask(cmd) \in Seq(Nat) /\ ~IsSvids(Ask(cmd)) /\ Ask(cmd)[1] = cmd
  <2>1. \A cmd \in C : cmd \in StructCommands
    BY DEF StructCommands
  <2> QED BY <2>1, AskIs
<1>2. \A cmd \in C : cmd # DISPENSE_INFO => Ask(cmd) # Ask(DISPENSE_INFO)
  <2>1. Ask(DISPENSE_INFO)[1] = DISPENSE_INFO
    BY <1>1
  <2> QED BY <2>1, <1>1
<1>3. \A t : /\ AskSvids(SvidsOf(t)) \in Seq(Nat) /\ IsSvids(AskSvids(SvidsOf(t)))
             /\ AskSvids(SvidsOf(t)) # Ask(DISPENSE_INFO)
  <2>1. \A t : AskSvids(SvidsOf(t)) \in Seq(Nat) /\ IsSvids(AskSvids(SvidsOf(t)))
    BY SvidsOfIs, AskSvidsIs
  <2>2. ~IsSvids(Ask(DISPENSE_INFO))
    BY <1>1
  <2> QED BY <2>1, <2>2
<1>4. /\ SERIALNUMBERS # DISPENSE_INFO /\ VERSION # DISPENSE_INFO /\ FIRMWAREINFO # DISPENSE_INFO
      /\ RTSTATUS # DISPENSE_INFO /\ CS_RTSTATUS # DISPENSE_INFO /\ LAST_DIS_INFO_2 # DISPENSE_INFO
  BY DEF SERIALNUMBERS, VERSION, FIRMWAREINFO, RTSTATUS, CS_RTSTATUS, DISPENSE_INFO, LAST_DIS_INFO_2
<1>5. IsPlan("info", Plan("info"))
  <2> DEFINE s == <<Ask(SERIALNUMBERS), Ask(CS_RTSTATUS), Ask(VERSION), Ask(FIRMWAREINFO), AskSvids(SvidsOf("info"))>>
  <2>1. SvidsOf("info") = NameSvids
    BY DEF SvidsOf
  <2>2. Plan("info") = s
    BY <2>1 DEF Plan
  <2>3. s \in Seq(Seq(Nat)) /\ Len(s) = 5
    BY <1>1, <1>3
  <2>4. /\ s[1] = Ask(SERIALNUMBERS) /\ s[2] = Ask(CS_RTSTATUS) /\ s[3] = Ask(VERSION)
        /\ s[4] = Ask(FIRMWAREINFO) /\ s[5] = AskSvids(SvidsOf("info"))
    OBVIOUS
  <2> HIDE DEF s
  <2>5. \A k \in 1..5 : k = 1 \/ k = 2 \/ k = 3 \/ k = 4 \/ k = 5
    OBVIOUS
  <2>6. \A k \in 1..5 : \/ \E cmd \in StructCommands : s[k] = Ask(cmd)
                        \/ "info" # "newest" /\ k = 5 /\ s[k] = AskSvids(SvidsOf("info"))
    BY <2>4, <2>5, <1>1
  <2>7. \A k \in 1..5 : s[k] # Ask(DISPENSE_INFO)
    BY <2>4, <2>5, <1>1, <1>2, <1>3, <1>4
  <2>8. \A k \in 1..Len(s) : \/ \E cmd \in StructCommands : s[k] = Ask(cmd)
                             \/ "info" # "newest" /\ k = Len(s) /\ s[k] = AskSvids(SvidsOf("info"))
    BY <2>3, <2>6
  <2>9. \A k \in 1..Len(s) : s[k] = Ask(DISPENSE_INFO) => "info" = "header" /\ k = 1
    BY <2>3, <2>7
  <2>10. s \in Seq(Seq(Nat)) /\ Len(s) \in Nat
    BY <2>3
  <2>11. IsPlan("info", s)
    BY <2>8, <2>9, <2>10, Zenon DEF IsPlan
  <2> QED BY <2>2, <2>11
<1>6. IsPlan("newest", Plan("newest"))
  <2> DEFINE s == <<Ask(CS_RTSTATUS), Ask(RTSTATUS)>>
  <2>1. Plan("newest") = s
    BY DEF Plan
  <2>2. s \in Seq(Seq(Nat)) /\ Len(s) = 2
    BY <1>1
  <2>3. s[1] = Ask(CS_RTSTATUS) /\ s[2] = Ask(RTSTATUS)
    OBVIOUS
  <2> HIDE DEF s
  <2>4. \A k \in 1..2 : k = 1 \/ k = 2
    OBVIOUS
  <2>5. \A k \in 1..2 : \E cmd \in StructCommands : s[k] = Ask(cmd)
    BY <2>3, <2>4, <1>1
  <2>6. \A k \in 1..2 : s[k] # Ask(DISPENSE_INFO)
    BY <2>3, <2>4, <1>1, <1>2, <1>4
  <2>8. \A k \in 1..Len(s) : \/ \E cmd \in StructCommands : s[k] = Ask(cmd)
                             \/ "newest" # "newest" /\ k = Len(s) /\ s[k] = AskSvids(SvidsOf("newest"))
    BY <2>2, <2>5
  <2>9. \A k \in 1..Len(s) : s[k] = Ask(DISPENSE_INFO) => "newest" = "header" /\ k = 1
    BY <2>2, <2>6
  <2>10. s \in Seq(Seq(Nat)) /\ Len(s) \in Nat
    BY <2>2
  <2>11. IsPlan("newest", s)
    BY <2>8, <2>9, <2>10, Zenon DEF IsPlan
  <2> QED BY <2>1, <2>11
<1>7. IsPlan("header", Plan("header"))
  <2> DEFINE s == <<Ask(DISPENSE_INFO), Ask(LAST_DIS_INFO_2), Ask(RTSTATUS), AskSvids(SvidsOf("header"))>>
  <2>1. SvidsOf("header") = DispenseSvids
    BY DEF SvidsOf
  <2>2. Plan("header") = s
    BY <2>1 DEF Plan
  <2>3. s \in Seq(Seq(Nat)) /\ Len(s) = 4
    BY <1>1, <1>3
  <2>4. /\ s[1] = Ask(DISPENSE_INFO) /\ s[2] = Ask(LAST_DIS_INFO_2) /\ s[3] = Ask(RTSTATUS)
        /\ s[4] = AskSvids(SvidsOf("header"))
    OBVIOUS
  <2> HIDE DEF s
  <2>5. \A k \in 1..4 : k = 1 \/ k = 2 \/ k = 3 \/ k = 4
    OBVIOUS
  <2>6. \A k \in 1..4 : \/ \E cmd \in StructCommands : s[k] = Ask(cmd)
                        \/ "header" # "newest" /\ k = 4 /\ s[k] = AskSvids(SvidsOf("header"))
    BY <2>4, <2>5, <1>1
  <2>7. \A k \in 1..4 : s[k] = Ask(DISPENSE_INFO) => k = 1
    BY <2>4, <2>5, <1>1, <1>2, <1>3, <1>4
  <2>8. \A k \in 1..Len(s) : \/ \E cmd \in StructCommands : s[k] = Ask(cmd)
                             \/ "header" # "newest" /\ k = Len(s) /\ s[k] = AskSvids(SvidsOf("header"))
    BY <2>3, <2>6
  <2>9. \A k \in 1..Len(s) : s[k] = Ask(DISPENSE_INFO) => "header" = "header" /\ k = 1
    BY <2>3, <2>7
  <2>10. s \in Seq(Seq(Nat)) /\ Len(s) \in Nat
    BY <2>3
  <2>11. IsPlan("header", s)
    BY <2>8, <2>9, <2>10, Zenon DEF IsPlan
  <2> QED BY <2>2, <2>11
<1> QED BY <1>5, <1>6, <1>7

\* Where a read is when it asks for something.
PlansNext(j) ==
    /\ j \in 0..(Len(Plan(task)) - 1) /\ Planned(j)
    /\ Request = Plan(task)[j + 1] /\ Tail(todo) = Left(Plan(task), j + 1)
SinglyNext(j) ==
    /\ j \in 0..(Len(SvidsOf(task)) - 1) /\ OneAtATime(j)
    /\ Request = AskSvids(<<SvidsOf(task)[j + 1]>>) /\ Tail(todo) = Left(OneByOne, j + 1)

\* One at a time means every SVID of the list, in order.
LEMMA OneByOneIs ==
    /\ OneByOne \in Seq(Seq(Nat)) /\ Len(OneByOne) = Len(SvidsOf(task))
    /\ \A k \in 1..Len(SvidsOf(task)) :
          /\ OneByOne[k] = AskSvids(<<SvidsOf(task)[k]>>)
          /\ <<SvidsOf(task)[k]>> \in Lists(task)
<1> DEFINE s == SvidsOf(task)
<1>1. s \in Seq(Registry) /\ Len(s) \in Nat /\ \A k \in 1..Len(s) : s[k] \in Registry /\ s[k] \in Listed(task)
  BY SvidsOfIs DEF Listed
<1>2. \A k \in 1..Len(s) : <<s[k]>> \in Lists(task)
  BY <1>1 DEF Lists
<1>3. \A k \in 1..Len(s) : AskSvids(<<s[k]>>) \in Seq(Nat)
  <2> SUFFICES ASSUME NEW k \in 1..Len(s) PROVE AskSvids(<<s[k]>>) \in Seq(Nat)
    OBVIOUS
  <2>1. <<s[k]>> \in Seq(Registry)
    BY <1>1
  <2> QED BY <2>1, AskSvidsIs
<1>4. OneByOne = [k \in 1..Len(s) |-> AskSvids(<<s[k]>>)]
  BY <1>1 DEF OneByOne
<1> HIDE DEF s
<1>5. OneByOne \in Seq(Seq(Nat)) /\ Len(OneByOne) = Len(s) /\ \A k \in 1..Len(s) : OneByOne[k] = AskSvids(<<s[k]>>)
  BY <1>1, <1>3, <1>4
<1> QED BY <1>2, <1>5 DEF s

\* A read that has something to ask for is on its way through its plan or
\* through the list.
LEMMA WhereItIs ==
    ASSUME IInv, todo # <<>>
    PROVE  /\ \/ \E j : PlansNext(j)
              \/ \E j : SinglyNext(j)
           /\ task \in {"info", "newest", "header"} /\ IsPlan(task, Plan(task))
<1>1. task \in {"info", "newest", "header"}
  BY ReaderAssumption DEF IInv, Types
<1>2. IsPlan(task, Plan(task))
  BY <1>1, PlanIs
<1>3. Plan(task) \in Seq(Seq(Nat)) /\ Len(Plan(task)) \in Nat
  BY <1>2 DEF IsPlan
<1>4. CASE \E j \in 0..Len(Plan(task)) : Planned(j)
  <2>1. PICK j \in 0..Len(Plan(task)) : Planned(j)
    BY <1>4
  <2>2. todo = Left(Plan(task), j)
    BY <2>1 DEF Planned
  <2>3. j < Len(Plan(task)) /\ Request = Plan(task)[j + 1] /\ Tail(todo) = Left(Plan(task), j + 1)
    <3> DEFINE plan == Plan(task)
    <3> HIDE DEF plan
    <3>1. plan \in Seq(Seq(Nat)) /\ Len(plan) \in Nat /\ j \in 0..Len(plan) /\ todo = Left(plan, j)
      BY <2>2, <1>3 DEF plan
    <3>2. j < Len(plan)
      BY <3>1, LeftIs
    <3>3. Head(todo) = plan[j + 1] /\ Tail(todo) = Left(plan, j + 1)
      <4>1. Head(Left(plan, j)) = plan[j + 1] /\ Tail(Left(plan, j)) = Left(plan, j + 1)
        <5>1. plan \in Seq(Seq(Nat)) /\ j \in 0..Len(plan)
          BY <3>1
        <5>2. /\ Left(plan, j) \in Seq(Seq(Nat))
              /\ j = 0 => Left(plan, j) = plan
              /\ j = Len(plan) <=> Left(plan, j) = <<>>
              /\ j < Len(plan) => /\ j + 1 \in 1..Len(plan)
                                  /\ Head(Left(plan, j)) = plan[j + 1]
                                  /\ Tail(Left(plan, j)) = Left(plan, j + 1)
          BY <5>1, LeftIs
        <5> QED BY <5>2, <3>2
      <4> QED BY <4>1, <3>1
    <3> QED BY <3>2, <3>3 DEF plan, Request
  <2>4. j \in 0..(Len(Plan(task)) - 1)
    BY <2>3, <1>3
  <2> QED BY <1>1, <1>2, <2>1, <2>3, <2>4 DEF PlansNext
<1>5. CASE \E j \in 0..Len(SvidsOf(task)) : OneAtATime(j)
  <2>1. PICK j \in 0..Len(SvidsOf(task)) : OneAtATime(j)
    BY <1>5
  <2>2. todo = Left(OneByOne, j)
    BY <2>1 DEF OneAtATime
  <2>3. /\ OneByOne \in Seq(Seq(Nat)) /\ Len(OneByOne) = Len(SvidsOf(task)) /\ Len(SvidsOf(task)) \in Nat
        /\ \A k \in 1..Len(SvidsOf(task)) : OneByOne[k] = AskSvids(<<SvidsOf(task)[k]>>)
    BY OneByOneIs, SvidsOfIs
  <2>4. j < Len(OneByOne) /\ j + 1 \in 1..Len(OneByOne) /\ Request = OneByOne[j + 1] /\ Tail(todo) = Left(OneByOne, j + 1)
    <3> DEFINE plan == OneByOne
    <3>1. plan \in Seq(Seq(Nat)) /\ Len(plan) \in Nat /\ j \in 0..Len(plan) /\ todo = Left(plan, j)
      BY <2>2, <2>3
    <3> HIDE DEF plan
    <3>2. /\ Left(plan, j) \in Seq(Seq(Nat))
          /\ j = 0 => Left(plan, j) = plan
          /\ j = Len(plan) <=> Left(plan, j) = <<>>
          /\ j < Len(plan) => /\ j + 1 \in 1..Len(plan)
                              /\ Head(Left(plan, j)) = plan[j + 1]
                              /\ Tail(Left(plan, j)) = Left(plan, j + 1)
      <4>1. plan \in Seq(Seq(Nat)) /\ j \in 0..Len(plan)
        BY <3>1
      <4> QED BY <4>1, LeftIs
    <3>3. j < Len(plan)
      BY <3>1, <3>2
    <3>4. j + 1 \in 1..Len(plan) /\ Head(todo) = plan[j + 1] /\ Tail(todo) = Left(plan, j + 1)
      BY <3>1, <3>2, <3>3
    <3> QED BY <3>3, <3>4 DEF plan, Request
  <2>5. j \in 0..(Len(SvidsOf(task)) - 1) /\ OneByOne[j + 1] = AskSvids(<<SvidsOf(task)[j + 1]>>)
    BY <2>3, <2>4
  <2> QED BY <1>1, <1>2, <2>1, <2>4, <2>5 DEF SinglyNext
<1> QED BY <1>4, <1>5 DEF IInv, InTurn

-----------------------------------------------------------------------------
(* How a read goes on *)

\* The SVIDs of every list are among Numbers.
LEMMA ListedNumbers ==
    /\ \A t : Listed(t) \subseteq Numbers
    /\ \A t : \A k \in 1..Len(SvidsOf(t)) : SvidsOf(t)[k] \in Numbers
<1>1. \A t : SvidsOf(t) = SvidsOf("info") \/ SvidsOf(t) = SvidsOf("header")
  BY DEF SvidsOf
<1>2. \A t : Listed(t) \subseteq Numbers
  BY <1>1 DEF Listed, Numbers
<1>3. \A t : \A k \in 1..Len(SvidsOf(t)) : SvidsOf(t)[k] \in Listed(t)
  BY SvidsOfIs DEF Listed
<1> QED BY <1>2, <1>3

\* A sequence of one element.
LEMMA One == \A x : DOMAIN <<x>> = {1} /\ <<x>>[1] = x /\ Len(<<x>>) = 1
OBVIOUS

\* The confirmation's time comes last in DISPENSE_SVIDS, right behind the
\* confirmation.
LEMMA DispenseSvidsAre ==
    /\ \A t : t # "info" => /\ Len(SvidsOf(t)) = 3
                            /\ SvidsOf(t)[1] = Title /\ SvidsOf(t)[2] = Pct /\ SvidsOf(t)[3] = Time
    /\ {Title, Pct, Time} \subseteq Numbers /\ Pct # Time /\ Title # Pct /\ Title # Time
<1> DEFINE s == <<20, 849, 1071>>
<1>1. Len(s) = 3 /\ s[1] = Title /\ s[2] = Pct /\ s[3] = Time
  BY DEF Title, Pct, Time
<1>2. \A t : t # "info" => SvidsOf(t) = s
  BY SvidsOfIs
<1> HIDE DEF s
<1>3. SvidsOf("header") = s
  BY <1>2
<1>4. 1 \in 1..3 /\ 2 \in 1..3 /\ 3 \in 1..3
  OBVIOUS
<1>5. \A k \in 1..Len(s) : s[k] \in Numbers
  BY <1>3, ListedNumbers
<1>6. {Title, Pct, Time} \subseteq Numbers
  BY <1>1, <1>4, <1>5
<1>7. Pct # Time /\ Title # Pct /\ Title # Time
  BY DEF Title, Pct, Time
<1> QED BY <1>1, <1>2, <1>6, <1>7

\* What is asked for is a struct's command or a list of known SVIDs.
LEMMA AskedIs ==
    ASSUME NEW r \in Asked
    PROVE  /\ r \in Seq(Nat) /\ r # <<>>
           /\ IsSvids(r) => /\ r = AskSvids(Tail(r)) /\ Tail(r) \in Lists(task)
                            /\ Tail(r) \in Seq(Registry)
                            /\ \A i \in 1..Len(Tail(r)) : Tail(r)[i] \in Numbers
           /\ ~IsSvids(r) => r[1] \in StructCommands /\ r = Ask(r[1])
<1>1. CASE \E cmd \in StructCommands : r = Ask(cmd)
  BY <1>1, AskIs
<1>2. CASE \E numbers \in Lists(task) : r = AskSvids(numbers)
  <2>1. PICK numbers \in Lists(task) : r = AskSvids(numbers)
    BY <1>2
  <2>2. numbers \in Seq(Registry) /\ \A i \in 1..Len(numbers) : numbers[i] \in Listed(task)
    BY ListsAre
  <2>3. r \in Seq(Nat) /\ r # <<>> /\ IsSvids(r) /\ Tail(r) = numbers
    BY <2>1, <2>2, AskSvidsIs
  <2>4. \A i \in 1..Len(numbers) : numbers[i] \in Numbers
    BY <2>2, ListedNumbers
  <2> QED BY <2>1, <2>2, <2>3, <2>4
<1> QED BY <1>1, <1>2 DEF Asked

\* Every request of a plan is one that is asked.
LEMMA PlanAsked ==
    ASSUME IsPlan(task, Plan(task)), NEW k \in 1..Len(Plan(task))
    PROVE  Plan(task)[k] \in Asked
<1>1. SvidsOf(task) \in Lists(task)
  BY DEF Lists
<1>2. \/ \E cmd \in StructCommands : Plan(task)[k] = Ask(cmd)
      \/ Plan(task)[k] = AskSvids(SvidsOf(task))
  BY DEF IsPlan
<1> QED BY <1>1, <1>2 DEF Asked

\* What is there stays there, what is noted stays noted.
Kept ==
    /\ task' = task
    /\ \A cmd \in StructCommands : fields[cmd] # None => fields'[cmd] # None
    /\ \A n \in Numbers : values[n] # None => values'[n] # None
    /\ problems \subseteq problems'

\* Told after the step
ToldThen(r) ==
    \/ r \in problems'
    \/ ~IsSvids(r) /\ fields'[r[1]] # None
    \/ /\ IsSvids(r)
       /\ \A n \in {Tail(r)[i] : i \in DOMAIN Tail(r)} :
             values'[n] # None \/ AskSvids(<<n>>) \in problems'

\* A request that is told of stays told of.
LEMMA StillTold ==
    ASSUME Kept, NEW r \in Asked, Told(r)
    PROVE  ToldThen(r)
<1>1. CASE r \in problems
  BY <1>1 DEF Kept, ToldThen
<1>2. CASE r \notin problems /\ IsSvids(r)
  <2>1. Tail(r) \in Seq(Registry) /\ \A i \in 1..Len(Tail(r)) : Tail(r)[i] \in Numbers
    BY <1>2, AskedIs
  <2>2. \A n \in {Tail(r)[i] : i \in DOMAIN Tail(r)} : n \in Numbers
    BY <2>1
  <2>3. \A n \in {Tail(r)[i] : i \in DOMAIN Tail(r)} : values[n] # None \/ AskSvids(<<n>>) \in problems
    BY <1>2 DEF Told
  <2>4. \A n \in {Tail(r)[i] : i \in DOMAIN Tail(r)} : values'[n] # None \/ AskSvids(<<n>>) \in problems'
    BY <2>2, <2>3 DEF Kept
  <2> QED BY <1>2, <2>4 DEF ToldThen
<1>3. CASE r \notin problems /\ ~IsSvids(r)
  <2>1. r[1] \in StructCommands
    BY <1>3, AskedIs
  <2>2. fields[r[1]] # None
    BY <1>3 DEF Told
  <2>3. fields'[r[1]] # None
    BY <2>1, <2>2 DEF Kept
  <2> QED BY <1>3, <2>3 DEF ToldThen
<1> QED BY <1>1, <1>2, <1>3

\* What comes next is one of these.
LEMMA RequestAsked ==
    ASSUME IInv, todo # <<>>
    PROVE  Request \in Asked
<1>1. CASE \E j : PlansNext(j)
  <2>1. PICK j : PlansNext(j)
    BY <1>1
  <2>2. IsPlan(task, Plan(task))
    BY WhereItIs
  <2>3. j \in 0..(Len(Plan(task)) - 1) /\ Request = Plan(task)[j + 1] /\ Len(Plan(task)) \in Nat
    BY <2>1, <2>2 DEF PlansNext, IsPlan
  <2>4. j + 1 \in 1..Len(Plan(task))
    BY <2>3
  <2> QED BY <2>2, <2>3, <2>4, PlanAsked
<1>2. CASE \E j : SinglyNext(j)
  <2>1. PICK j : SinglyNext(j)
    BY <1>2
  <2>2. j \in 0..(Len(SvidsOf(task)) - 1) /\ Request = AskSvids(<<SvidsOf(task)[j + 1]>>)
    BY <2>1 DEF SinglyNext
  <2>3. j + 1 \in 1..Len(SvidsOf(task))
    BY <2>2, SvidsOfIs
  <2>4. <<SvidsOf(task)[j + 1]>> \in Lists(task)
    BY <2>3, OneByOneIs
  <2> QED BY <2>2, <2>4 DEF Asked
<1> QED BY <1>1, <1>2, WhereItIs

\* One request further: it is told of, and no values came in but its own.
LEMMA Onwards ==
    ASSUME IInv, todo # <<>>, Kept, todo' = Tail(todo), ToldThen(Request),
           \A n \in Numbers :
              values'[n] = values[n] \/ (IsSvids(Request) /\ \E i \in DOMAIN Tail(Request) : Tail(Request)[i] = n)
    PROVE  InTurn'
<1>1. task' = task
  BY DEF Kept
<1>2. IsPlan(task, Plan(task))
  BY WhereItIs
<1>3. \A k \in 1..Len(Plan(task)) : Plan(task)[k] \in Asked
  BY <1>2, PlanAsked
<1>4. Plan(task') = Plan(task) /\ SvidsOf(task') = SvidsOf(task)
  BY <1>1
<1>5. Len(Plan(task)) \in Nat /\ Len(SvidsOf(task)) \in Nat
  BY <1>2, SvidsOfIs DEF IsPlan
<1>6. CASE \E j : PlansNext(j)
  <2>1. PICK j : PlansNext(j)
    BY <1>6
  <2>2. /\ j \in 0..(Len(Plan(task)) - 1) /\ Planned(j)
        /\ Request = Plan(task)[j + 1] /\ todo' = Left(Plan(task), j + 1)
    BY <2>1 DEF PlansNext
  <2>3. j + 1 \in 0..Len(Plan(task)) /\ j + 1 \in 1..Len(Plan(task)) /\ j < Len(Plan(task)) /\ j + 1 # 0
    BY <2>2, <1>5
  <2>4. ToldThen(Plan(task)[j + 1])
    BY <2>2
  <2>5. ASSUME NEW k \in 1..(j + 1) PROVE ToldThen(Plan(task)[k])
    <3>1. CASE k = j + 1
      BY <3>1, <2>4
    <3>2. CASE k # j + 1
      <4>1. k \in 1..j /\ k \in 1..Len(Plan(task))
        BY <3>2, <2>2, <2>3, <1>5
      <4> DEFINE r == Plan(task)[k]
      <4>2. Told(r) /\ r \in Asked
        BY <4>1, <2>2, <1>3 DEF Planned
      <4> QED BY <4>2, StillTold
    <3> QED BY <3>1, <3>2
  <2>6. ASSUME j + 1 < Len(Plan(task)), NEW n \in Numbers PROVE values'[n] = None
    <3>1. \E cmd \in StructCommands : Request = Ask(cmd)
      BY <2>2, <2>3, <2>6, <1>2, <1>5 DEF IsPlan
    <3>2. ~IsSvids(Request)
      BY <3>1, AskIs
    <3>3. values[n] = None
      BY <2>2, <2>3 DEF Planned
    <3> QED BY <3>2, <3>3
  <2>7. Planned(j + 1)'
    <3>1. \A k \in 1..(j + 1) : Told(Plan(task)[k])'
      BY <2>5, <1>1 DEF Told, ToldThen, IsSvids
    <3> QED BY <2>2, <2>3, <2>6, <3>1, <1>1, <1>4 DEF Planned
  <2> QED BY <2>3, <2>7, <1>4 DEF InTurn
<1>7. CASE \E j : SinglyNext(j)
  <2>1. PICK j : SinglyNext(j)
    BY <1>7
  <2>2. /\ j \in 0..(Len(SvidsOf(task)) - 1) /\ OneAtATime(j)
        /\ Request = AskSvids(<<SvidsOf(task)[j + 1]>>) /\ todo' = Left(OneByOne, j + 1)
    BY <2>1 DEF SinglyNext
  <2>3. j + 1 \in 0..Len(SvidsOf(task)) /\ j + 1 \in 1..Len(SvidsOf(task))
    BY <2>2, <1>5
  <2>4. \A k \in DOMAIN Plan(task) : IsSvids(Plan(task)[k]) \/ ToldThen(Plan(task)[k])
    <3> SUFFICES ASSUME NEW k \in DOMAIN Plan(task), ~IsSvids(Plan(task)[k]) PROVE ToldThen(Plan(task)[k])
      OBVIOUS
    <3>1. k \in 1..Len(Plan(task))
      BY <1>2 DEF IsPlan
    <3>2. Told(Plan(task)[k]) /\ Plan(task)[k] \in Asked
      BY <3>1, <2>2, <1>3 DEF OneAtATime
    <3> QED BY <3>2, StillTold
  <2>5. ASSUME NEW k \in 1..(j + 1) PROVE ToldThen(OneByOne[k])
    <3>1. k \in 1..Len(SvidsOf(task))
      BY <2>3, <1>5
    <3>2. OneByOne[k] = AskSvids(<<SvidsOf(task)[k]>>) /\ <<SvidsOf(task)[k]>> \in Lists(task)
      BY <3>1, OneByOneIs
    <3>3. CASE k = j + 1
      BY <3>2, <3>3, <2>2
    <3>4. CASE k # j + 1
      <4>1. k \in 1..j
        BY <3>4, <2>2
      <4>2. Told(OneByOne[k])
        BY <4>1, <2>2 DEF OneAtATime
      <4>3. OneByOne[k] \in Asked
        BY <3>2 DEF Asked
      <4> QED BY <4>2, <4>3, StillTold
    <3> QED BY <3>3, <3>4
  <2>6. ASSUME task = "header", j + 1 < 3 PROVE values'[Time] = None
    <3>1. values[Time] = None
      BY <2>2, <2>6 DEF OneAtATime
    <3>2. j = 0 \/ j = 1
      BY <2>2, <2>6
    <3>3. task # "info"
      BY <2>6
    <3>4. SvidsOf(task)[j + 1] # Time
      BY <3>2, <3>3, DispenseSvidsAre
    <3>5. <<SvidsOf(task)[j + 1]>> \in Seq(Registry)
      BY <2>3, SvidsOfIs
    <3>6. Tail(Request) = <<SvidsOf(task)[j + 1]>>
      BY <2>2, <3>5, AskSvidsIs
    <3>7. ~ \E i \in DOMAIN Tail(Request) : Tail(Request)[i] = Time
      <4>2. \A i \in DOMAIN Tail(Request) : Tail(Request)[i] = SvidsOf(task)[j + 1]
        <5> DEFINE n == SvidsOf(task)[j + 1]
        <5> HIDE DEF n
        <5>1. DOMAIN Tail(Request) = {1} /\ Tail(Request)[1] = n
          <6>1. Tail(Request) = <<n>>
            BY <3>6 DEF n
          <6> HIDE DEF Request
          <6> QED BY <6>1, One
        <5> QED BY <5>1 DEF n
      <4> QED BY <3>4, <4>2
    <3>8. Time \in Numbers
      BY DispenseSvidsAre
    <3> QED BY <3>1, <3>7, <3>8
  <2>7. OneByOne' = OneByOne
    BY <1>1 DEF OneByOne
  <2>8. task # "newest"
    BY <2>2 DEF OneAtATime
  <2>9. OneAtATime(j + 1)'
    <3>1. \A k \in DOMAIN Plan(task') : IsSvids(Plan(task)[k]) \/ Told(Plan(task)[k])'
      BY <2>4, <1>1 DEF Told, ToldThen, IsSvids
    <3>2. \A k \in 1..(j + 1) : Told(OneByOne[k])'
      BY <2>5, <2>7 DEF Told, ToldThen, IsSvids
    <3> QED BY <2>2, <3>1, <3>2, <2>6, <2>7, <2>8, <1>1, <1>4 DEF OneAtATime, IsSvids
  <2> QED BY <2>3, <2>9, <1>4 DEF InTurn
<1> QED BY <1>6, <1>7, WhereItIs

-----------------------------------------------------------------------------
(* How long replies are *)

IsPlace(place) ==
    place[1] \in Nat /\ place[2] \in Nat /\ place[2] > 0 /\ place = <<place[1], place[2]>>

\* Every place is an offset and a size that isn't 0.
LEMMA PlacesAre ==
    \A cmd \in StructCommands : \A name \in DOMAIN Places[cmd] : IsPlace(Places[cmd][name])
<1> DEFINE Fine(cmd) == \A name \in DOMAIN PumpPuts[cmd] : IsPlace(PumpPuts[cmd][name])
<1>1. /\ IsPlace(<<0, 24>>) /\ IsPlace(<<32, 24>>) /\ IsPlace(<<56, 48>>) /\ IsPlace(<<6, 2>>)
      /\ IsPlace(<<56, 4>>) /\ IsPlace(<<4, 4>>) /\ IsPlace(<<10, 2>>) /\ IsPlace(<<66, 24>>)
      /\ IsPlace(<<90, 24>>) /\ IsPlace(<<12, 4>>) /\ IsPlace(<<0, 4>>)
  BY DEF IsPlace
<1>2. PumpPuts[SERIALNUMBERS] = [pump |-> <<0, 24>>]
  BY DEF PumpPuts, StructCommands, SERIALNUMBERS, VERSION, FIRMWAREINFO, RTSTATUS, CS_RTSTATUS,
     DISPENSE_INFO, LAST_DIS_INFO_2
<1>3. PumpPuts[VERSION] = [model |-> <<32, 24>>, version |-> <<56, 48>>]
  BY DEF PumpPuts, StructCommands, SERIALNUMBERS, VERSION, FIRMWAREINFO, RTSTATUS, CS_RTSTATUS,
     DISPENSE_INFO, LAST_DIS_INFO_2
<1>4. PumpPuts[FIRMWAREINFO] = [module_type |-> <<6, 2>>]
  BY DEF PumpPuts, StructCommands, SERIALNUMBERS, VERSION, FIRMWAREINFO, RTSTATUS, CS_RTSTATUS,
     DISPENSE_INFO, LAST_DIS_INFO_2
<1>5. PumpPuts[RTSTATUS] = [profile_cycle |-> <<56, 4>>, last_dispense_cycle |-> <<4, 4>>,
                            last_dispense_vol_ul |-> <<10, 2>>]
  BY DEF PumpPuts, StructCommands, SERIALNUMBERS, VERSION, FIRMWAREINFO, RTSTATUS, CS_RTSTATUS,
     DISPENSE_INFO, LAST_DIS_INFO_2
<1>6. PumpPuts[CS_RTSTATUS] = [profile_cycle |-> <<56, 4>>, model |-> <<66, 24>>,
                               pump_serial_number |-> <<90, 24>>]
  BY DEF PumpPuts, StructCommands, SERIALNUMBERS, VERSION, FIRMWAREINFO, RTSTATUS, CS_RTSTATUS,
     DISPENSE_INFO, LAST_DIS_INFO_2
<1>7. PumpPuts[DISPENSE_INFO] = [cycle |-> <<4, 4>>, time |-> <<12, 4>>]
  BY DEF PumpPuts, StructCommands, SERIALNUMBERS, VERSION, FIRMWAREINFO, RTSTATUS, CS_RTSTATUS,
     DISPENSE_INFO, LAST_DIS_INFO_2
<1>8. PumpPuts[LAST_DIS_INFO_2] = [cycle |-> <<0, 4>>, dispense_volume |-> <<4, 4>>]
  BY DEF PumpPuts, StructCommands, SERIALNUMBERS, VERSION, FIRMWAREINFO, RTSTATUS, CS_RTSTATUS,
     DISPENSE_INFO, LAST_DIS_INFO_2
<1>9. Fine(SERIALNUMBERS) /\ Fine(VERSION) /\ Fine(FIRMWAREINFO)
  BY <1>1, <1>2, <1>3, <1>4
<1>10. Fine(RTSTATUS) /\ Fine(CS_RTSTATUS)
  BY <1>1, <1>5, <1>6
<1>11. Fine(DISPENSE_INFO) /\ Fine(LAST_DIS_INFO_2)
  BY <1>1, <1>7, <1>8
<1> HIDE DEF Fine
<1>12. \A cmd \in StructCommands : Fine(cmd)
  BY <1>9, <1>10, <1>11 DEF StructCommands
<1> QED BY <1>12, PlacesAreTheirs DEF Fine

\* The lengths of the layouts are natural numbers.
LEMMA FullLengths == \A cmd \in StructCommands : FullLength[cmd] \in Nat
<1>1. /\ <<SerialNumbers, 296>> \in FixedStructs /\ <<Version, 104>> \in FixedStructs
      /\ <<RtStatus, 76>> \in FixedStructs /\ <<CsRtStatus, 124>> \in FixedStructs
      /\ <<LastDispenseInfo2, 16>> \in FixedStructs
  BY DEF FixedStructs
<1>2. \A layout, n : <<layout, n>> \in FixedStructs => Length(layout) = n
  BY TranscriptionAssumption
<1>3. /\ Length(SerialNumbers) \in Nat /\ Length(Version) \in Nat /\ Length(RtStatus) \in Nat
      /\ Length(CsRtStatus) \in Nat /\ Length(LastDispenseInfo2) \in Nat
  BY <1>1, <1>2
<1>4. Length(FirmwareInfo) \in Nat
  <2>1. FirmwareInfo \in Seq(Codes) /\ Len(FirmwareInfo) = 8
    <3>1. "H" \in Codes
      BY DEF Codes
    <3> QED BY <3>1, Repeated DEF FirmwareInfo
  <2>2. Offset(FirmwareInfo) \in [0..8 -> Nat]
    BY <2>1, OffsetIs
  <2> QED BY <2>1, <2>2 DEF Length
<1> QED BY <1>3, <1>4 DEF FullLength, StructCommands

\* A struct's reply, cut or not, is so many bytes.
LEMMA StructLengths ==
    ASSUME NEW cmd \in StructCommands
    PROVE  DataLengths(Ask(cmd)) \subseteq Nat
<1> DEFINE places == {Places[cmd][name] : name \in DOMAIN Places[cmd]}
           cuts(p) == {p[1], p[1] + p[2] - 1, p[1] + p[2]}
           full == FullLength[cmd]
<1>1. Ask(cmd)[1] = cmd /\ ~IsSvids(Ask(cmd))
  BY AskIs
<1>2. DataLengths(Ask(cmd)) = {full, full + 2} \union UNION {cuts(p) : p \in places}
  BY <1>1 DEF DataLengths
<1>3. full \in Nat /\ full + 2 \in Nat
  BY FullLengths
<1>4. \A p \in places : IsPlace(p)
  BY PlacesAre
<1> HIDE DEF places, full
<1>5. \A p \in places : cuts(p) \subseteq Nat
  BY <1>4 DEF IsPlace
<1> HIDE DEF cuts
<1> QED BY <1>2, <1>3, <1>5

\* A reply to GET_SVIDS is no longer than the whole reply.
LEMMA SvidLengths ==
    ASSUME NEW numbers \in Seq(Registry), CanSend(pump, numbers)
    PROVE  \A length \in DataLengths(AskSvids(numbers)) : length \in 0..Len(Reply(pump, numbers))
<1> DEFINE r == Replied(pump, numbers)
<1>1. IsSvids(AskSvids(numbers)) /\ Tail(AskSvids(numbers)) = numbers
  BY AskSvidsIs
<1>2. DataLengths(AskSvids(numbers)) = {Len(r[k]) : k \in DOMAIN r}
  BY <1>1 DEF DataLengths
<1>3. r \in [0..Len(numbers) -> Seq(Nat)]
  BY RepliedIs
<1>4. \A k \in 0..Len(numbers) : Begins(r[k], Reply(pump, numbers))
  BY RepliedBegins
<1>5. Len(numbers) \in 0..Len(numbers) /\ Reply(pump, numbers) = r[Len(numbers)]
  BY DEF Reply
<1> HIDE DEF r
<1>6. \A k \in 0..Len(numbers) : Len(r[k]) \in Nat
  BY <1>3
<1>7. Len(Reply(pump, numbers)) \in Nat
  BY <1>5, <1>6
<1>8. \A k \in 0..Len(numbers) : Len(r[k]) \in 0..Len(Reply(pump, numbers))
  BY <1>4, <1>6, <1>7 DEF Begins
<1>9. DOMAIN r = 0..Len(numbers)
  BY <1>3
<1> HIDE DEF DataLengths
<1> QED BY <1>2, <1>8, <1>9

\* Whatever is asked for of a list can be sent when the list can.
LEMMA ListsCanBeSent ==
    ASSUME CanSend(pump, SvidsOf(task)), NEW numbers \in Lists(task)
    PROVE  CanSend(pump, numbers)
<1>1. numbers \in Seq(Registry) /\ \A k \in 1..Len(numbers) : numbers[k] \in Listed(task)
  BY ListsAre
<1>2. \A n \in Listed(task) : n \in Strings => pump.texts[n] \in Nat
  BY SvidsOfIs DEF CanSend, Listed
<1> QED BY <1>1, <1>2 DEF CanSend

-----------------------------------------------------------------------------
(* A reply is the reply to what was asked *)

\* None is told apart from everything that is read.
LEMMA NoneIsNot ==
    /\ None \notin BOOLEAN /\ None \notin Seq(Nat)
    /\ \A v : v \in [from : Seq(Nat), at : Nat, size : Nat, moved : BOOLEAN] => v # None
    /\ \A cmd \in StructCommands, length \in Nat, m \in BOOLEAN : ParsedAs(cmd, length, m) # None
<1> DEFINE Values == [from : Seq(Nat), at : Nat, size : Nat, moved : BOOLEAN]
<1>1. /\ None \notin BOOLEAN \union Seq(Nat) \union Values
      /\ \A cmd \in StructCommands : None \notin [DOMAIN Places[cmd] -> Values \union {None}]
  BY NoneAssumption
<1>2. ASSUME NEW cmd \in StructCommands, NEW length \in Nat, NEW m \in BOOLEAN
      PROVE  ParsedAs(cmd, length, m) \in [DOMAIN Places[cmd] -> Values \union {None}]
  <2>1. \A name \in DOMAIN Places[cmd] :
           [from |-> Ask(cmd), at |-> Places[cmd][name][1], size |-> Places[cmd][name][2], moved |-> m] \in Values
    BY PlacesAre, AskIs DEF IsPlace
  <2> HIDE DEF Values
  <2> QED BY <2>1 DEF ParsedAs
<1>3. \A v : v \in Values => v # None
  BY <1>1
<1> HIDE DEF Values
<1>4. \A cmd \in StructCommands, length \in Nat, m \in BOOLEAN : ParsedAs(cmd, length, m) # None
  BY <1>1, <1>2
<1> QED BY <1>1, <1>3, <1>4 DEF Values

\* Whatever is asked, nothing is late by then, so the answer is to that.
LEMMA AskingIs ==
    ASSUME IInv, Asking
    PROVE  /\ todo # <<>> /\ waiting = FALSE /\ late = None
           /\ Request \in Asked /\ Answered = Request
           /\ StaysLate => late' = None
<1>1. todo # <<>> /\ waiting = FALSE /\ late = None
  BY DEF IInv, Waited, Asking
<1>2. Request \in Asked
  BY <1>1, RequestAsked
<1> QED BY <1>1, <1>2 DEF Answered, StaysLate

\* On, or over, by an exception or because no more is needed.
GoesOn ==
    \/ raised' = TRUE /\ todo' = <<>>
    \/ raised' = FALSE /\ todo' = <<>> /\ NoMoreNeeded'
    \/ raised' = FALSE /\ todo' = Tail(todo)

\* The three ways on from a struct.
LEMMA GoOnIs ==
    ASSUME NEW fs, GoOn(fs), task' = task
    PROVE  fields' = fs /\ GoesOn
<1> DEFINE silent == task = "info" /\ Request = Ask(CS_RTSTATUS) /\ ~HasSerial(fs)
<1>1. fields' = fs /\ raised' = silent /\ todo' = IF silent \/ Enough(fs) THEN <<>> ELSE Tail(todo)
  BY DEF GoOn
<1>2. Enough(fs) => NoMoreNeeded'
  BY <1>1 DEF Enough, NoMoreNeeded, NewestCycle, Part
<1>3. silent = TRUE \/ silent = FALSE
  OBVIOUS
<1> HIDE DEF silent
<1> QED BY <1>1, <1>2, <1>3 DEF GoesOn

\* A struct, read or noted.
LEMMA StructInTurn ==
    ASSUME IInv, todo # <<>>, GoesOn, Kept, UNCHANGED values, ToldThen(Request)
    PROVE  InTurn'
<1>1. CASE raised' = TRUE /\ todo' = <<>>
  BY <1>1 DEF InTurn
<1>2. CASE todo' = <<>> /\ NoMoreNeeded'
  BY <1>2 DEF InTurn
<1>3. CASE todo' = Tail(todo)
  BY <1>3, Onwards
<1> QED BY <1>1, <1>2, <1>3 DEF GoesOn

\* read_struct keeps the invariant.
LEMMA ReadStructKeeps ==
    ASSUME IInv, ReadStruct
    PROVE  IInv'
<1>1. /\ todo # <<>> /\ waiting = FALSE /\ late = None
      /\ Request \in Asked /\ Answered = Request /\ late' = None
  BY AskingIs DEF ReadStruct
<1>2. Request[1] \in StructCommands /\ Request = Ask(Request[1])
  BY <1>1, AskedIs DEF ReadStruct
<1> DEFINE cmd == Request[1]
<1>3. /\ pump' = pump /\ moved' = moved /\ task' = task /\ waiting' = waiting /\ values' = values
      /\ leftover' = leftover /\ problems' = problems
  BY DEF ReadStruct, world
<1>4. PICK length \in DataLengths(Answered) : GoOn([fields EXCEPT ![cmd] = Parse(cmd, Answered, length)])
  BY DEF ReadStruct
<1>5. length \in Nat
  BY <1>1, <1>2, StructLengths
<1>6. moved \in BOOLEAN
  BY DEF IInv, Types
<1>7. Parse(cmd, Answered, length) = ParsedAs(cmd, length, moved)
  BY <1>1, <1>2 DEF Parse, ParsedAs, Value
<1> DEFINE new == ParsedAs(cmd, length, moved)
<1>8. fields' = [fields EXCEPT ![cmd] = new] /\ GoesOn
  BY <1>3, <1>4, <1>7, GoOnIs
<1>9. new # None
  BY <1>2, <1>5, <1>6, NoneIsNot
<1>10. fields = [c \in StructCommands |-> fields[c]]
  BY DEF IInv, StructsParsed
<1>11. cmd = DISPENSE_INFO => moved = FALSE
  <2> SUFFICES ASSUME cmd = DISPENSE_INFO PROVE moved = FALSE
    OBVIOUS
  <2>1. Request = Ask(DISPENSE_INFO) /\ ~IsSvids(Request)
    BY <1>2 DEF ReadStruct
  <2>2. IsPlan(task, Plan(task))
    BY <1>1, WhereItIs
  <2>3. ~ \E j : SinglyNext(j)
    <3> SUFFICES ASSUME NEW j, SinglyNext(j) PROVE FALSE
      OBVIOUS
    <3>1. j \in 0..(Len(SvidsOf(task)) - 1) /\ Request = AskSvids(<<SvidsOf(task)[j + 1]>>)
      BY DEF SinglyNext
    <3>2. j + 1 \in 1..Len(SvidsOf(task))
      BY <3>1, SvidsOfIs
    <3>3. <<SvidsOf(task)[j + 1]>> \in Seq(Registry)
      BY <3>2, SvidsOfIs
    <3> QED BY <3>1, <3>3, <2>1, AskSvidsIs
  <2>4. PICK j : PlansNext(j)
    BY <2>3, <1>1, WhereItIs
  <2>5. j \in 0..(Len(Plan(task)) - 1) /\ Plan(task)[j + 1] = Ask(DISPENSE_INFO) /\ Planned(j)
    BY <2>1, <2>4 DEF PlansNext
  <2>6. j + 1 \in 1..Len(Plan(task))
    BY <2>2, <2>5 DEF IsPlan
  <2>7. task = "header" /\ j + 1 = 1
    BY <2>2, <2>5, <2>6 DEF IsPlan
  <2>8. j = 0
    BY <2>5, <2>7
  <2>9. fields[DISPENSE_INFO] = None
    BY <2>5, <2>7, <2>8 DEF Planned
  <2> QED BY <2>9, <1>6 DEF IInv, MovedSinceRead
<1> HIDE DEF cmd, new
<1>12. cmd \in StructCommands
  BY <1>2 DEF cmd
<1>13. fields'[cmd] = new /\ \A c \in StructCommands : c # cmd => fields'[c] = fields[c]
  BY <1>8, <1>10, <1>12
<1>14. Kept
  BY <1>3, <1>9, <1>13 DEF Kept
<1>15. ToldThen(Request)
  <2>1. fields'[Request[1]] # None
    BY <1>9, <1>13 DEF cmd
  <2>2. ~IsSvids(Request)
    BY DEF ReadStruct
  <2> QED BY <2>1, <2>2 DEF ToldThen
<1>16. InTurn'
  BY <1>1, <1>3, <1>8, <1>14, <1>15, StructInTurn
<1>17. StructsParsed'
  <2>1. fields' = [c \in StructCommands |-> fields'[c]]
    BY <1>8, <1>10
  <2>2. \A c \in StructCommands : fields'[c] # None =>
          \E l \in Nat, m \in BOOLEAN : fields'[c] = ParsedAs(c, l, m) /\ (c = DISPENSE_INFO => m = FALSE)
    <3> SUFFICES ASSUME NEW c \in StructCommands, fields'[c] # None
                 PROVE  \E l \in Nat, m \in BOOLEAN : fields'[c] = ParsedAs(c, l, m) /\ (c = DISPENSE_INFO => m = FALSE)
      OBVIOUS
    <3>1. CASE c = cmd
      <4>1. fields'[c] = ParsedAs(c, length, moved)
        BY <3>1, <1>13 DEF new
      <4> QED BY <4>1, <3>1, <1>5, <1>6, <1>11
    <3>2. CASE c # cmd
      BY <3>2, <1>13 DEF IInv, StructsParsed
    <3> QED BY <3>1, <3>2
  <2> QED BY <2>1, <2>2 DEF StructsParsed, ParsedAs
<1>18. Types'
  <2>1. raised' \in BOOLEAN
    BY <1>8 DEF GoesOn
  <2> QED BY <2>1, <1>3 DEF IInv, Types, Asked, CanSend
<1>19. Waited'
  BY <1>1, <1>3 DEF Waited
<1>20. ValuesRead' /\ BeforeTime'
  BY <1>3 DEF IInv, ValuesRead, ReadAs, BeforeTime
<1>21. MovedSinceRead'
  <2>1. DISPENSE_INFO \in StructCommands
    BY DEF StructCommands
  <2> QED BY <2>1, <1>3, <1>14 DEF IInv, MovedSinceRead, Kept
<1> QED BY <1>16, <1>17, <1>18, <1>19, <1>20, <1>21 DEF IInv

\* The values of a list are those that were asked for, and no others change.
SvidsRead(numbers) ==
    \A n \in Numbers :
        \/ /\ values'[n].moved = moved
           /\ \E k \in 1..Len(numbers) : numbers[k] = n /\ ReadAs(values'[n], numbers, k)
        \/ /\ values'[n] = values[n]
           /\ \A k \in 1..Len(numbers) : numbers[k] # n

\* What read_svids takes from a reply.
LEMMA ReadSvidsIs ==
    ASSUME IInv, ReadSvids
    PROVE  /\ Tail(Request) \in Lists(task) /\ Request = AskSvids(Tail(Request))
           /\ SvidsRead(Tail(Request)) /\ leftover' \in Nat
<1> DEFINE numbers == Tail(Request)
           N == Len(numbers)
<1>1. Request \in Asked /\ Answered = Request /\ IsSvids(Request)
  BY AskingIs DEF ReadSvids
<1>2. numbers \in Lists(task) /\ Request = AskSvids(numbers) /\ numbers \in Seq(Registry)
  BY <1>1, AskedIs
<1>3. CanSend(pump, numbers)
  BY <1>2, ListsCanBeSent DEF IInv, Types
<1>4. PICK length \in DataLengths(Answered) :
         /\ Walk(length) # RanOut
         /\ values' = [n \in Numbers |->
                IF \E k \in DOMAIN Walk(length).found : Request[k + 1] = n
                THEN Value(Answered, Walk(length).found[CHOOSE k \in DOMAIN Walk(length).found : Request[k + 1] = n])
                ELSE values[n]]
         /\ leftover' = IF WholeList THEN length - Walk(length).at ELSE leftover
  BY DEF ReadSvids
<1> DEFINE reply == Reply(pump, numbers)
           data == SubSeq(reply, 1, length)
           w == WalkReply(data, numbers)
           walk == Walk(length)
<1>5. length \in 0..Len(reply) /\ length \in Nat
  <2>1. length \in 0..Len(reply)
    BY <1>1, <1>2, <1>3, SvidLengths
  <2> QED BY <2>1
<1>6. reply \in Seq(Nat)
  <2>1. Len(numbers) \in 0..Len(numbers)
    BY <1>2
  <2>2. Replied(pump, numbers) \in [0..Len(numbers) -> Seq(Nat)]
    BY <1>3, RepliedIs
  <2> QED BY <2>1, <2>2 DEF Reply
<1>7. walk = w[N]
  BY <1>1 DEF Walk
<1>8. data \in Seq(Nat) /\ Len(data) = length /\ Begins(data, reply)
  <2> HIDE DEF reply
  <2> QED BY <1>5, <1>6, DataIs DEF Begins
<1>9. RightSoFar(pump, data, numbers, w, N)
  BY <1>3, <1>8, WalkRight
<1> HIDE DEF data, reply, walk, w
<1>10. /\ walk \in Found /\ Len(walk.found) = N /\ walk.at <= length
       /\ Unshifted(pump, numbers) => \A j \in 1..N : walk.found[j] = SentAt(pump, numbers, j)
  BY <1>4, <1>7, <1>8, <1>9 DEF RightSoFar, walk
<1>11. walk.at \in Nat /\ walk.found \in Seq(Nat \X Nat) /\ DOMAIN walk.found = 1..N
  BY <1>10 DEF Found
<1>12. leftover' \in Nat
  <2>1. leftover \in Nat /\ length - walk.at \in Nat
    BY <1>5, <1>10, <1>11 DEF IInv, Types
  <2> QED BY <2>1, <1>4 DEF walk
<1>13. \A k \in 1..N : Request[k + 1] = numbers[k]
  BY <1>2, AskSvidsIs
<1>14. SvidsRead(numbers)
  <2> SUFFICES ASSUME NEW n \in Numbers
               PROVE  \/ /\ values'[n].moved = moved
                         /\ \E k \in 1..N : numbers[k] = n /\ ReadAs(values'[n], numbers, k)
                      \/ /\ values'[n] = values[n]
                         /\ \A k \in 1..N : numbers[k] # n
    BY DEF SvidsRead
  <2>1. CASE \E k \in 1..N : numbers[k] = n
    <3> DEFINE k0 == CHOOSE k \in DOMAIN walk.found : Request[k + 1] = n
    <3>1. \E k \in DOMAIN walk.found : Request[k + 1] = n
      BY <2>1, <1>11, <1>13
    <3>2. k0 \in DOMAIN walk.found /\ Request[k0 + 1] = n
      BY <3>1
    <3>3. values'[n] = Value(Answered, walk.found[k0])
      BY <3>1, <1>4 DEF walk
    <3> HIDE DEF k0
    <3>4. k0 \in 1..N /\ numbers[k0] = n
      BY <3>2, <1>11, <1>13
    <3> DEFINE place == walk.found[k0]
    <3>5. place \in Nat \X Nat
      BY <3>4, <1>11, <1>10
    <3>6. Unshifted(pump, numbers) => place = SentAt(pump, numbers, k0)
      BY <3>4, <1>10
    <3> HIDE DEF place
    <3>7. values'[n] = [from |-> AskSvids(numbers), at |-> place[1], size |-> place[2], moved |-> moved]
      BY <3>3, <1>1, <1>2 DEF Value, place
    <3>8. place[1] \in Nat /\ place[2] \in Nat /\ place = <<place[1], place[2]>>
      BY <3>5
    <3>9. values'[n].moved = moved /\ values'[n].at = place[1] /\ values'[n].size = place[2]
      BY <3>7
    <3>10. moved \in BOOLEAN
      BY DEF IInv, Types
    <3>11. values'[n] \in [from : {AskSvids(numbers)}, at : Nat, size : Nat, moved : BOOLEAN]
      BY <3>7, <3>8, <3>10
    <3>12. ReadAs(values'[n], numbers, k0)
      BY <3>6, <3>8, <3>9, <3>11 DEF ReadAs
    <3> QED BY <3>4, <3>9, <3>12
  <2>2. CASE ~ \E k \in 1..N : numbers[k] = n
    <3>1. ~ \E k \in DOMAIN walk.found : Request[k + 1] = n
      BY <2>2, <1>11, <1>13
    <3>2. values'[n] = values[n]
      BY <3>1, <1>4 DEF walk
    <3> QED BY <2>2, <3>2
  <2> QED BY <2>1, <2>2
<1> QED BY <1>2, <1>12, <1>14

\* A value that was read is there.
LEMMA ReadAsIsNot ==
    ASSUME NEW v, NEW numbers \in Seq(Registry), NEW k, ReadAs(v, numbers, k)
    PROVE  v # None
<1>1. AskSvids(numbers) \in Seq(Nat)
  BY AskSvidsIs
<1>2. v \in [from : Seq(Nat), at : Nat, size : Nat, moved : BOOLEAN]
  BY <1>1 DEF ReadAs
<1> QED BY <1>2, NoneIsNot

\* The time of the confirmation is the last to be read.
LEMMA TimeIsLast ==
    ASSUME IInv, todo # <<>>, task = "header"
    PROVE  values[Time] = None
<1>1. Len(SvidsOf(task)) = 3
  BY DispenseSvidsAre
<1>2. CASE \E j : PlansNext(j)
  <2>1. PICK j : PlansNext(j)
    BY <1>2
  <2>2. IsPlan(task, Plan(task))
    BY WhereItIs
  <2>3. j \in 0..(Len(Plan(task)) - 1) /\ Planned(j) /\ Len(Plan(task)) \in Nat
    BY <2>1, <2>2 DEF PlansNext, IsPlan
  <2>4. j < Len(Plan(task))
    BY <2>3
  <2> QED BY <2>3, <2>4, DispenseSvidsAre DEF Planned
<1>3. CASE \E j : SinglyNext(j)
  <2>1. PICK j : SinglyNext(j)
    BY <1>3
  <2>2. j \in 0..(Len(SvidsOf(task)) - 1) /\ OneAtATime(j)
    BY <2>1 DEF SinglyNext
  <2>3. j \in 0..(3 - 1)
    BY <2>2, <1>1, Zenon
  <2>4. j < 3
    BY <2>3
  <2> QED BY <2>2, <2>4 DEF OneAtATime
<1> QED BY <1>2, <1>3, WhereItIs

\* read_svids keeps the invariant.
LEMMA ReadSvidsKeeps ==
    ASSUME IInv, ReadSvids
    PROVE  IInv'
<1> DEFINE numbers == Tail(Request)
<1>1. /\ todo # <<>> /\ waiting = FALSE /\ late = None
      /\ Request \in Asked /\ Answered = Request /\ late' = None /\ IsSvids(Request)
  BY AskingIs DEF ReadSvids
<1>2. /\ pump' = pump /\ moved' = moved /\ task' = task /\ waiting' = waiting /\ fields' = fields
      /\ raised' = raised /\ problems' = problems /\ todo' = Tail(todo)
  BY DEF ReadSvids, world
<1>3. numbers \in Lists(task) /\ Request = AskSvids(numbers) /\ SvidsRead(numbers) /\ leftover' \in Nat
  BY ReadSvidsIs
<1>4. numbers \in Seq(Registry) /\ DOMAIN numbers = 1..Len(numbers)
  BY <1>1, AskedIs
<1> HIDE DEF numbers
<1>5. \A n \in Numbers : \A k \in 1..Len(numbers) : numbers[k] = n => values'[n] # None
  <2> SUFFICES ASSUME NEW n \in Numbers, NEW k \in 1..Len(numbers), numbers[k] = n PROVE values'[n] # None
    OBVIOUS
  <2>1. PICK i \in 1..Len(numbers) : ReadAs(values'[n], numbers, i)
    BY <1>3 DEF SvidsRead
  <2> QED BY <2>1, <1>4, ReadAsIsNot
<1>6. Kept
  <2>1. \A n \in Numbers : values[n] # None => values'[n] # None
    BY <1>3, <1>5 DEF SvidsRead
  <2> QED BY <2>1, <1>2 DEF Kept
<1>7. ToldThen(Request)
  <2>1. \A i \in 1..Len(numbers) : numbers[i] \in Numbers
    BY <1>1, AskedIs DEF numbers
  <2>2. \A n \in {numbers[i] : i \in DOMAIN numbers} : values'[n] # None
    BY <2>1, <1>4, <1>5
  <2> QED BY <2>2, <1>1 DEF ToldThen, numbers
<1>8. InTurn'
  <2>1. \A n \in Numbers : values'[n] = values[n] \/ \E i \in DOMAIN numbers : numbers[i] = n
    BY <1>3, <1>4 DEF SvidsRead
  <2> QED BY <2>1, <1>1, <1>2, <1>6, <1>7, Onwards DEF numbers
<1>9. ValuesRead'
  <2> SUFFICES ASSUME NEW n \in Numbers, values'[n] # None
               PROVE  \E list \in Lists(task) : \E k \in 1..Len(list) :
                         list[k] = n /\ ReadAs(values'[n], list, k)
    BY <1>2 DEF ValuesRead, ReadAs
  <2>1. CASE values'[n] = values[n]
    BY <2>1 DEF IInv, ValuesRead
  <2>2. CASE \E k \in 1..Len(numbers) : numbers[k] = n /\ ReadAs(values'[n], numbers, k)
    BY <2>2, <1>3
  <2> QED BY <2>1, <2>2, <1>3 DEF SvidsRead
<1>10. BeforeTime'
  <2> SUFFICES ASSUME task = "header", NEW n \in {Title, Pct}, values'[n] # None, values'[Time] # None,
                      values'[n].moved
               PROVE  values'[Time].moved
    BY <1>2 DEF BeforeTime
  <2>1. n \in Numbers /\ Time \in Numbers
    BY DispenseSvidsAre
  <2>2. values[Time] = None
    BY <1>1, TimeIsLast
  <2>3. values'[Time].moved = moved
    BY <2>1, <2>2, <1>3 DEF SvidsRead
  <2>4. PICK list \in Lists(task) : \E k \in 1..Len(list) : ReadAs(values'[n], list, k)
    BY <2>1, <1>2, <1>9 DEF ValuesRead, ReadAs
  <2>5. moved
    BY <2>4 DEF ReadAs
  <2> QED BY <2>3, <2>5
<1>11. Types'
  BY <1>2, <1>3 DEF IInv, Types, Asked, CanSend
<1>12. Waited'
  BY <1>1, <1>2 DEF Waited
<1>13. StructsParsed' /\ MovedSinceRead'
  BY <1>2 DEF IInv, StructsParsed, MovedSinceRead, ParsedAs
<1> QED BY <1>8, <1>9, <1>10, <1>11, <1>12, <1>13 DEF IInv

-----------------------------------------------------------------------------
(* The invariant holds at first and is kept *)

\* It holds at first.
LEMMA InitIs == Init => IInv
<1> SUFFICES ASSUME Init PROVE IInv
  OBVIOUS
<1>1. task \in Tasks /\ task \in {"info", "newest", "header"}
  BY ReaderAssumption DEF Init
<1>2. CanSend(pump, SvidsOf(task))
  <2>1. Lengths \subseteq Nat
    <3>1. LargestLength \in Nat
      BY DEF LargestLength
    <3>2. \A b \in Nat : 0..b \subseteq Nat
      OBVIOUS
    <3> QED BY <3>1, <3>2, ReaderAssumption
  <2>2. pump.texts \in [Strings \intersect Listed(task) -> Lengths]
    BY DEF Init
  <2>3. \A k \in 1..Len(SvidsOf(task)) : SvidsOf(task)[k] \in Listed(task)
    BY SvidsOfIs DEF Listed
  <2>4. \A n \in Listed(task) : n \in Strings => pump.texts[n] \in Nat
    BY <2>1, <2>2
  <2>5. \A k \in 1..Len(SvidsOf(task)) : SvidsOf(task)[k] \in Strings => pump.texts[SvidsOf(task)[k]] \in Nat
    BY <2>3, <2>4
  <2>6. SvidsOf(task) \in Seq(Registry)
    BY SvidsOfIs
  <2> QED BY <2>5, <2>6 DEF CanSend
<1>3. Types
  BY <1>1, <1>2 DEF Init, Types
<1>4. Waited
  BY DEF Init, Waited
<1>5. StructsParsed
  BY DEF Init, StructsParsed
<1>6. \A n \in Numbers : values[n] = None
  BY DEF Init
<1>7. ValuesRead /\ BeforeTime
  BY <1>6, DispenseSvidsAre DEF ValuesRead, BeforeTime
<1>8. MovedSinceRead
  BY DEF Init, MovedSinceRead
<1>9. Planned(0)
  <2>1. IsPlan(task, Plan(task))
    BY <1>1, PlanIs
  <2>2. Plan(task) \in Seq(Seq(Nat)) /\ 0 \in 0..Len(Plan(task))
    BY <2>1 DEF IsPlan
  <2>3. Left(Plan(task), 0) = Plan(task)
    BY <2>2, LeftIs
  <2>4. DISPENSE_INFO \in StructCommands
    BY DEF StructCommands
  <2>5. \A k \in 1..0 : FALSE
    OBVIOUS
  <2>6. todo = Plan(task) /\ fields[DISPENSE_INFO] = None
    BY <2>4 DEF Init
  <2> QED BY <2>3, <2>5, <2>6, <1>6 DEF Planned
<1>10. InTurn
  <2>1. Len(Plan(task)) \in Nat
    BY <1>1, PlanIs DEF IsPlan
  <2> QED BY <2>1, <1>9 DEF InTurn
<1> QED BY <1>3, <1>4, <1>5, <1>7, <1>8, <1>10 DEF IInv

\* What is noted is told of.
LEMMA NotedIs ==
    ASSUME Noted, IInv, Request \in Asked
    PROVE  /\ problems' \subseteq Asked \union {Refused} /\ problems \subseteq problems' /\ Request \in problems'
           /\ ToldThen(Request)
<1>1. problems' = problems \union {Request}
  BY DEF Noted
<1>2. problems' \subseteq Asked \union {Refused} /\ problems \subseteq problems' /\ Request \in problems'
  BY <1>1 DEF IInv, Types
<1> QED BY <1>2 DEF ToldThen

\* So do the errors that are noted.
LEMMA FailsKeeps ==
    ASSUME IInv, todo # <<>>, Fails, waiting' = FALSE, late' = None
    PROVE  IInv'
<1>1. Request \in Asked
  BY RequestAsked
<1>2. /\ pump' = pump /\ moved' = moved /\ task' = task /\ values' = values /\ leftover' = leftover
      /\ Noted
  BY DEF Fails, world
<1>3. problems' \subseteq Asked \union {Refused} /\ problems \subseteq problems' /\ ToldThen(Request)
  BY <1>1, <1>2, NotedIs
<1>4. \/ ~IsSvids(Request) /\ GoOn(fields)
      \/ IsSvids(Request) /\ todo' = Tail(todo) /\ fields' = fields /\ raised' = raised
  BY DEF Fails
<1>5. CASE ~IsSvids(Request) /\ GoOn(fields)
  <2>1. fields' = fields /\ GoesOn
    BY <1>2, <1>5, GoOnIs
  <2>2. Kept
    BY <1>2, <1>3, <2>1 DEF Kept
  <2>3. InTurn'
    BY <1>2, <1>3, <2>1, <2>2, StructInTurn
  <2>4. raised' \in BOOLEAN
    BY <2>1 DEF GoesOn
  <2> QED BY <1>2, <1>3, <2>1, <2>3, <2>4 DEF IInv, Types, Asked, CanSend, Waited, StructsParsed, ParsedAs,
         ValuesRead, ReadAs, BeforeTime, MovedSinceRead
<1>6. CASE IsSvids(Request) /\ todo' = Tail(todo) /\ fields' = fields /\ raised' = raised
  <2>1. Kept
    BY <1>2, <1>3, <1>6 DEF Kept
  <2>2. InTurn'
    BY <1>2, <1>3, <1>6, <2>1, Onwards
  <2> QED BY <1>2, <1>3, <1>6, <2>2 DEF IInv, Types, Asked, CanSend, Waited, StructsParsed, ParsedAs,
         ValuesRead, ReadAs, BeforeTime, MovedSinceRead
<1> QED BY <1>4, <1>5, <1>6

\* So does the change to one SVID at a time.
LEMMA UnknownSvidKeeps ==
    ASSUME IInv, UnknownSvid
    PROVE  IInv'
<1> DEFINE plan == Plan(task)
           whole == AskSvids(SvidsOf(task))
<1>1. /\ todo # <<>> /\ waiting = FALSE /\ Request \in Asked /\ late' = None
  BY AskingIs DEF UnknownSvid
<1>2. /\ pump' = pump /\ moved' = moved /\ task' = task /\ waiting' = waiting /\ fields' = fields
      /\ values' = values /\ leftover' = leftover /\ raised' = raised /\ todo' = OneByOne
      /\ problems' = problems \union {Refused} /\ Request = whole
  BY DEF UnknownSvid, world, WholeList
<1>3. problems' \subseteq Asked \union {Refused} /\ problems \subseteq problems'
  BY <1>2 DEF IInv, Types
<1>4. Kept
  BY <1>2, <1>3 DEF Kept
<1>5. IsPlan(task, plan)
  BY <1>1, WhereItIs
<1>6. /\ whole \notin {Ask(cmd) : cmd \in StructCommands}
      /\ IsSvids(whole) /\ Tail(whole) = SvidsOf(task)
  <2>1. IsSvids(whole) /\ Tail(whole) = SvidsOf(task)
    BY SvidsOfIs, AskSvidsIs
  <2>2. \A cmd \in StructCommands : ~IsSvids(Ask(cmd))
    BY AskIs
  <2> QED BY <2>1, <2>2
<1>7. ~ \E j : SinglyNext(j)
  <2> SUFFICES ASSUME NEW j, SinglyNext(j) PROVE FALSE
    OBVIOUS
  <2> DEFINE n == SvidsOf(task)[j + 1]
  <2>1. j \in 0..(Len(SvidsOf(task)) - 1) /\ Request = AskSvids(<<n>>)
    BY DEF SinglyNext
  <2>2. j + 1 \in 1..Len(SvidsOf(task))
    BY <2>1, SvidsOfIs
  <2>3. <<n>> \in Seq(Registry)
    BY <2>2, SvidsOfIs
  <2> HIDE DEF n
  <2>4. Tail(Request) = <<n>>
    BY <2>1, <2>3, AskSvidsIs
  <2>5. SvidsOf(task) = <<n>>
    BY <2>4, <1>2, <1>6
  <2>6. Len(SvidsOf(task)) = 1
    BY <2>5, One
  <2>7. Len(SvidsOf(task)) > 1
    BY SvidsOfIs
  <2> QED BY <2>6, <2>7
<1>8. PICK j : PlansNext(j)
  BY <1>1, <1>7, WhereItIs
<1>9. j \in 0..(Len(plan) - 1) /\ Planned(j) /\ plan[j + 1] = whole /\ Len(plan) \in Nat /\ plan \in Seq(Seq(Nat))
  BY <1>2, <1>5, <1>8 DEF PlansNext, IsPlan
<1>10. j + 1 \in 1..Len(plan) /\ j < Len(plan)
  BY <1>9
<1>11. task # "newest" /\ j + 1 = Len(plan)
  BY <1>5, <1>6, <1>9, <1>10 DEF IsPlan
<1>12. \A k \in 1..Len(plan) : IsSvids(plan[k]) \/ ToldThen(plan[k])
  <2> SUFFICES ASSUME NEW k \in 1..Len(plan) PROVE IsSvids(plan[k]) \/ ToldThen(plan[k])
    OBVIOUS
  <2>1. CASE k = j + 1
    BY <2>1, <1>6, <1>9
  <2>2. CASE k # j + 1
    <3>1. k \in 1..j
      BY <2>2, <1>9, <1>11
    <3>2. Told(plan[k])
      BY <3>1, <1>9 DEF Planned
    <3>3. plan[k] \in Asked
      BY <1>5, PlanAsked
    <3> QED BY <3>2, <3>3, <1>4, StillTold
  <2> QED BY <2>1, <2>2
<1>13. OneAtATime(0)'
  <2>1. \A k \in DOMAIN Plan(task') : IsSvids(Plan(task)[k]) \/ Told(Plan(task)[k])'
    <3>1. DOMAIN plan = 1..Len(plan)
      BY <1>9
    <3> QED BY <3>1, <1>2, <1>12 DEF Told, ToldThen, IsSvids
  <2>2. OneByOne' = OneByOne /\ Left(OneByOne, 0) = OneByOne
    <3>1. OneByOne \in Seq(Seq(Nat)) /\ 0 \in 0..Len(OneByOne)
      BY OneByOneIs, SvidsOfIs
    <3> QED BY <3>1, <1>2, LeftIs DEF OneByOne
  <2>3. values[Time] = None
    BY <1>9, <1>10, DispenseSvidsAre DEF Planned
  <2>4. \A k \in 1..0 : FALSE
    OBVIOUS
  <2> QED BY <2>1, <2>2, <2>3, <2>4, <1>2, <1>11 DEF OneAtATime, IsSvids
<1>14. InTurn'
  <2>1. Len(SvidsOf(task)) \in Nat /\ SvidsOf(task') = SvidsOf(task)
    BY <1>2, SvidsOfIs
  <2>2. 0 \in 0..Len(SvidsOf(task'))
    BY <2>1
  <2> QED BY <2>2, <1>13 DEF InTurn
<1> QED BY <1>1, <1>2, <1>3, <1>14 DEF IInv, Types, Asked, CanSend, Waited, StructsParsed, ParsedAs,
       ValuesRead, ReadAs, BeforeTime, MovedSinceRead

\* As long as nothing is read or noted, a read is where it was.
LEMMA InTurnStays ==
    ASSUME InTurn, task' = task, todo' = todo, fields' = fields, values' = values, problems' = problems,
           raised' = raised
    PROVE  InTurn'
<1>1. CASE raised = TRUE /\ todo = <<>>
  BY <1>1 DEF InTurn
<1>2. CASE todo = <<>> /\ NoMoreNeeded
  <2>1. NoMoreNeeded'
    BY <1>2 DEF NoMoreNeeded, NewestCycle, Part
  <2> QED BY <1>2, <2>1 DEF InTurn
<1>3. \A r : Told(r) => ToldThen(r)
  BY DEF Told, ToldThen
<1>4. Plan(task') = Plan(task) /\ SvidsOf(task') = SvidsOf(task) /\ OneByOne' = OneByOne
  BY DEF OneByOne
<1>5. CASE \E j \in 0..Len(Plan(task)) : Planned(j)
  <2>1. PICK j \in 0..Len(Plan(task)) : Planned(j)
    BY <1>5
  <2>2. \A k \in 1..j : ToldThen(Plan(task)[k])
    BY <2>1, <1>3 DEF Planned
  <2>3. \A k \in 1..j : Told(Plan(task)[k])'
    BY <2>2 DEF Told, ToldThen, IsSvids
  <2>4. Planned(j)'
    BY <2>1, <2>3, <1>4 DEF Planned
  <2> QED BY <2>1, <2>4, <1>4 DEF InTurn
<1>6. CASE \E j \in 0..Len(SvidsOf(task)) : OneAtATime(j)
  <2>1. PICK j \in 0..Len(SvidsOf(task)) : OneAtATime(j)
    BY <1>6
  <2>2. /\ \A k \in DOMAIN Plan(task) : IsSvids(Plan(task)[k]) \/ ToldThen(Plan(task)[k])
        /\ \A k \in 1..j : ToldThen(OneByOne[k])
    BY <2>1, <1>3 DEF OneAtATime
  <2>3. /\ \A k \in DOMAIN Plan(task) : IsSvids(Plan(task)[k]) \/ Told(Plan(task)[k])'
        /\ \A k \in 1..j : Told(OneByOne[k])'
    BY <2>2, <1>4 DEF Told, ToldThen, IsSvids
  <2>4. OneAtATime(j)'
    BY <2>1, <2>3, <1>4 DEF OneAtATime, IsSvids
  <2> QED BY <2>1, <2>4, <1>4 DEF InTurn
<1> QED BY <1>1, <1>2, <1>5, <1>6 DEF InTurn

\* A timeout keeps the invariant.
LEMMA TimesOutKeeps ==
    ASSUME IInv, TimesOut
    PROVE  IInv'
<1>1. todo # <<>> /\ Request \in Asked
  BY AskingIs DEF TimesOut
<1>2. /\ pump' = pump /\ moved' = moved /\ task' = task /\ todo' = todo /\ fields' = fields
      /\ values' = values /\ leftover' = leftover /\ problems' = problems /\ raised' = raised
      /\ waiting' = TRUE /\ late' = Request
  BY DEF TimesOut, world, results
<1>3. Waited'
  BY <1>1, <1>2 DEF Waited, Asked
<1>4. InTurn'
  BY <1>2, InTurnStays DEF IInv
<1> QED BY <1>2, <1>3, <1>4 DEF IInv, Types, Asked, CanSend, StructsParsed, ParsedAs,
       ValuesRead, ReadAs, BeforeTime, MovedSinceRead

\* An error of the network keeps it.
LEMMA NetworkFailsKeeps ==
    ASSUME IInv, NetworkFails
    PROVE  IInv'
<1>1. waiting = FALSE /\ late = None
  BY AskingIs DEF NetworkFails
<1>2. /\ pump' = pump /\ moved' = moved /\ task' = task /\ todo' = <<>> /\ fields' = fields
      /\ values' = values /\ leftover' = leftover /\ problems' = problems /\ raised' = TRUE
      /\ waiting' = waiting /\ late' = late
  BY DEF NetworkFails, world
<1>3. InTurn'
  BY <1>2 DEF InTurn
<1> QED BY <1>1, <1>2, <1>3 DEF IInv, Types, Asked, CanSend, Waited, StructsParsed, ParsedAs,
       ValuesRead, ReadAs, BeforeTime, MovedSinceRead

\* A dispense keeps it.
LEMMA DispenseKeeps ==
    ASSUME IInv, Dispense
    PROVE  IInv'
<1>1. /\ pump' = pump /\ moved' = TRUE /\ task' = task /\ todo' = todo /\ fields' = fields
      /\ values' = values /\ leftover' = leftover /\ problems' = problems /\ raised' = raised
      /\ waiting' = waiting /\ late' = late
      /\ task = "header" /\ fields[DISPENSE_INFO] # None
  BY DEF Dispense, results
<1>2. InTurn'
  BY <1>1, InTurnStays DEF IInv
<1> QED BY <1>1, <1>2 DEF IInv, Types, Asked, CanSend, Waited, StructsParsed, ParsedAs,
       ValuesRead, ReadAs, BeforeTime, MovedSinceRead

\* What changes nothing keeps it.
LEMMA NothingKeeps ==
    ASSUME IInv, UNCHANGED vars
    PROVE  IInv'
<1>1. /\ pump' = pump /\ moved' = moved /\ task' = task /\ todo' = todo /\ fields' = fields
      /\ values' = values /\ leftover' = leftover /\ problems' = problems /\ raised' = raised
      /\ waiting' = waiting /\ late' = late
  BY DEF vars, world, results
<1>2. InTurn'
  BY <1>1, InTurnStays DEF IInv
<1> QED BY <1>1, <1>2 DEF IInv, Types, Asked, CanSend, Waited, StructsParsed, ParsedAs,
       ValuesRead, ReadAs, BeforeTime, MovedSinceRead

\* Every step keeps it.
LEMMA NextKeeps == IInv /\ [Next]_vars => IInv'
<1> SUFFICES ASSUME IInv, [Next]_vars PROVE IInv'
  OBVIOUS
<1>1. CASE ReadStruct
  BY <1>1, ReadStructKeeps
<1>2. CASE ReadSvids
  BY <1>2, ReadSvidsKeeps
<1>3. CASE ReadFails
  <2>1. todo # <<>> /\ waiting = FALSE /\ late' = None /\ waiting' = waiting
    BY <1>3, AskingIs DEF ReadFails
  <2> QED BY <2>1, <1>3, FailsKeeps DEF ReadFails
<1>4. CASE UnknownSvid
  BY <1>4, UnknownSvidKeeps
<1>5. CASE TimesOut
  BY <1>5, TimesOutKeeps
<1>6. CASE WaitOut
  <2>1. todo # <<>>
    BY <1>6 DEF IInv, Waited, WaitOut
  <2> QED BY <2>1, <1>6, FailsKeeps DEF WaitOut
<1>7. CASE NetworkFails
  BY <1>7, NetworkFailsKeeps
<1>8. CASE Dispense
  BY <1>8, DispenseKeeps
<1>9. CASE Done \/ UNCHANGED vars
  BY <1>9, NothingKeeps DEF Done
<1> QED BY <1>1, <1>2, <1>3, <1>4, <1>5, <1>6, <1>7, <1>8, <1>9 DEF Next, Read

\* It always holds.
LEMMA AlwaysIInv == Spec => []IInv
BY InitIs, NextKeeps, PTL DEF Spec

-----------------------------------------------------------------------------
(* What follows *)

\* What is asked for is a request.
LEMMA AskedRequests == ASSUME task \in Tasks PROVE Asked \subseteq Requests
<1> SUFFICES ASSUME NEW numbers \in Lists(task) PROVE AskSvids(numbers) \in Requests
  BY DEF Asked, Requests
<1>1. numbers = SvidsOf(task) \/ \E n \in Listed(task) : numbers = <<n>>
  BY ListsAre
<1> QED BY <1>1, ListedNumbers DEF Requests

\* So is all that is still to do.
LEMMA TodoAsked ==
    ASSUME IInv
    PROVE  \A k \in DOMAIN todo : todo[k] \in Asked
<1>1. IsPlan(task, Plan(task))
  BY PlanIs, ReaderAssumption DEF IInv, Types
<1>2. CASE \E j \in 0..Len(Plan(task)) : Planned(j)
  <2> DEFINE plan == Plan(task)
  <2>1. \A k \in 1..Len(plan) : plan[k] \in Asked
    BY <1>1, PlanAsked
  <2>2. Len(plan) \in Nat
    BY <1>1 DEF IsPlan
  <2>3. PICK j \in 0..Len(plan) : todo = Left(plan, j)
    BY <1>2 DEF Planned
  <2> HIDE DEF plan
  <2>4. todo = [i \in 1..(Len(plan) - j) |-> plan[i + j]]
    BY <2>3 DEF Left
  <2>5. \A i \in 1..(Len(plan) - j) : i + j \in 1..Len(plan)
    BY <2>2
  <2> QED BY <2>1, <2>4, <2>5
<1>3. CASE \E j \in 0..Len(SvidsOf(task)) : OneAtATime(j)
  <2> DEFINE plan == OneByOne
  <2>1. \A k \in 1..Len(plan) : plan[k] \in Asked
    BY OneByOneIs DEF Asked
  <2>2. Len(plan) \in Nat /\ Len(plan) = Len(SvidsOf(task))
    BY OneByOneIs, SvidsOfIs
  <2>3. PICK j \in 0..Len(plan) : todo = Left(plan, j)
    BY <1>3, <2>2 DEF OneAtATime
  <2> HIDE DEF plan
  <2>4. todo = [i \in 1..(Len(plan) - j) |-> plan[i + j]]
    BY <2>3 DEF Left
  <2>5. \A i \in 1..(Len(plan) - j) : i + j \in 1..Len(plan)
    BY <2>2
  <2> QED BY <2>1, <2>4, <2>5
<1>4. CASE todo = <<>>
  BY <1>4
<1> QED BY <1>2, <1>3, <1>4 DEF IInv, InTurn

\* What a struct's field is, given how much of its reply there was.
IsField(v, cmd, name, length, m) ==
    IF Places[cmd][name][1] + Places[cmd][name][2] > length THEN v = None
    ELSE /\ v # None /\ v.from = Ask(cmd) /\ v.moved = m
         /\ v.at = Places[cmd][name][1] /\ v.size = Places[cmd][name][2]

\* Each field of a struct that was read, by how long the reply was and when it
\* came.
LEMMA FieldsAre ==
    ASSUME IInv, NEW cmd \in StructCommands, fields[cmd] # None
    PROVE  \E length \in Nat, m \in BOOLEAN :
              /\ cmd = DISPENSE_INFO => m = FALSE
              /\ \A name \in DOMAIN Places[cmd] : IsField(fields[cmd][name], cmd, name, length, m)
<1>1. PICK length \in Nat, m \in BOOLEAN :
         fields[cmd] = ParsedAs(cmd, length, m) /\ (cmd = DISPENSE_INFO => m = FALSE)
  BY DEF IInv, StructsParsed
<1>2. \A name \in DOMAIN Places[cmd] : IsField(fields[cmd][name], cmd, name, length, m)
  <2> SUFFICES ASSUME NEW name \in DOMAIN Places[cmd] PROVE IsField(fields[cmd][name], cmd, name, length, m)
    OBVIOUS
  <2> DEFINE read == [from |-> Ask(cmd), at |-> Places[cmd][name][1],
                      size |-> Places[cmd][name][2], moved |-> m]
  <2>1. fields[cmd][name] = IF Places[cmd][name][1] + Places[cmd][name][2] > length THEN None ELSE read
    BY <1>1 DEF ParsedAs
  <2>2. read \in [from : Seq(Nat), at : Nat, size : Nat, moved : BOOLEAN]
    BY PlacesAre, AskIs DEF IsPlace
  <2>3. read # None
    BY <2>2, NoneIsNot
  <2>4. read.from = Ask(cmd) /\ read.moved = m /\ read.at = Places[cmd][name][1] /\ read.size = Places[cmd][name][2]
    OBVIOUS
  <2> HIDE DEF read
  <2> QED BY <2>1, <2>3, <2>4 DEF IsField
<1> QED BY <1>1, <1>2

\* The types follow from the invariant.
LEMMA TypesHold == IInv => TypeOK
<1> SUFFICES ASSUME IInv PROVE TypeOK
  OBVIOUS
<1>1. Asked \subseteq Requests
  BY AskedRequests DEF IInv, Types
<1>2. \A r \in Asked : r # None
  BY AskedIs, NoneIsNot
<1>3. /\ moved \in BOOLEAN /\ raised \in BOOLEAN /\ leftover \in Nat
      /\ problems \subseteq Requests \union {Refused}
  BY <1>1 DEF IInv, Types
<1>4. waiting \in BOOLEAN /\ late \in Requests \union {None} /\ (waiting => late # None)
  BY <1>1, <1>2 DEF IInv, Waited
<1>5. \A k \in DOMAIN todo : todo[k] \in Requests
  BY <1>1, TodoAsked
<1>6. ASSUME NEW cmd \in StructCommands, fields[cmd] # None, NEW name \in DOMAIN Places[cmd]
      PROVE  IsValue(fields[cmd][name])
  <2>1. PICK length \in Nat, m \in BOOLEAN : IsField(fields[cmd][name], cmd, name, length, m)
    BY <1>6, FieldsAre
  <2>2. Ask(cmd) \in Requests
    BY DEF Requests
  <2>3. Places[cmd][name][1] \in Nat /\ Places[cmd][name][2] \in Nat
    BY PlacesAre DEF IsPlace
  <2> QED BY <2>1, <2>2, <2>3 DEF IsField, IsValue
<1>7. ASSUME NEW n \in Numbers PROVE IsValue(values[n])
  <2>1. CASE values[n] = None
    BY <2>1 DEF IsValue
  <2>2. CASE values[n] # None
    <3>1. PICK numbers \in Lists(task) : \E k \in 1..Len(numbers) : ReadAs(values[n], numbers, k)
      BY <2>2 DEF IInv, ValuesRead
    <3>2. AskSvids(numbers) \in Requests
      BY <1>1 DEF Asked
    <3> QED BY <3>1, <3>2 DEF ReadAs, IsValue
  <2> QED BY <2>1, <2>2
<1> QED BY <1>3, <1>4, <1>5, <1>6, <1>7 DEF TypeOK

\* The parts of a header are tied to its dispense.
LEMMA PartsHold == IInv => PartsAreTied
<1> SUFFICES ASSUME IInv, task = "header" PROVE
       /\ Measured # None => ~Measured.moved
       /\ Setpoint # None => ~Setpoint.moved
       /\ Confirmation # None =>
             ~Confirmation.moved \/ (values[Time] = None /\ Part(fields, DISPENSE_INFO, "time") = None)
       /\ RecipeTitle # None =>
             ~RecipeTitle.moved \/ ~Confirmed
             \/ (values[Time] = None /\ Part(fields, DISPENSE_INFO, "time") = None)
  BY DEF PartsAreTied
<1> DEFINE cycle == Part(fields, DISPENSE_INFO, "cycle")
           time == Part(fields, DISPENSE_INFO, "time")
<1>1. /\ DISPENSE_INFO \in StructCommands /\ LAST_DIS_INFO_2 \in StructCommands /\ RTSTATUS \in StructCommands
  BY DEF StructCommands
<1>2. /\ Places[DISPENSE_INFO] = [cycle |-> <<4, 4>>, time |-> <<12, 4>>]
      /\ Places[LAST_DIS_INFO_2] = [cycle |-> <<0, 4>>, dispense_volume |-> <<4, 4>>]
      /\ Places[RTSTATUS] = [profile_cycle |-> <<56, 4>>, last_dispense_cycle |-> <<4, 4>>,
                             last_dispense_vol_ul |-> <<10, 2>>]
  <2>1. PumpPuts[DISPENSE_INFO] = [cycle |-> <<4, 4>>, time |-> <<12, 4>>]
    BY DEF PumpPuts, StructCommands, SERIALNUMBERS, VERSION, FIRMWAREINFO, RTSTATUS, CS_RTSTATUS,
       DISPENSE_INFO, LAST_DIS_INFO_2
  <2>2. PumpPuts[LAST_DIS_INFO_2] = [cycle |-> <<0, 4>>, dispense_volume |-> <<4, 4>>]
    BY DEF PumpPuts, StructCommands, SERIALNUMBERS, VERSION, FIRMWAREINFO, RTSTATUS, CS_RTSTATUS,
       DISPENSE_INFO, LAST_DIS_INFO_2
  <2>3. PumpPuts[RTSTATUS] = [profile_cycle |-> <<56, 4>>, last_dispense_cycle |-> <<4, 4>>,
                              last_dispense_vol_ul |-> <<10, 2>>]
    BY DEF PumpPuts, StructCommands, SERIALNUMBERS, VERSION, FIRMWAREINFO, RTSTATUS, CS_RTSTATUS,
       DISPENSE_INFO, LAST_DIS_INFO_2
  <2> QED BY <2>1, <2>2, <2>3, <1>1, PlacesAreTheirs
<1>3. /\ cycle # None => cycle.moved = FALSE
      /\ time # None => time.moved = FALSE
  <2>1. CASE fields[DISPENSE_INFO] = None
    BY <2>1 DEF Part
  <2>2. CASE fields[DISPENSE_INFO] # None
    <3>1. PICK length \in Nat, m \in BOOLEAN :
             /\ m = FALSE
             /\ \A name \in DOMAIN Places[DISPENSE_INFO] :
                   IsField(fields[DISPENSE_INFO][name], DISPENSE_INFO, name, length, m)
      BY <2>2, <1>1, FieldsAre
    <3>2. "cycle" \in DOMAIN Places[DISPENSE_INFO] /\ "time" \in DOMAIN Places[DISPENSE_INFO]
      BY <1>2
    <3>3. cycle = fields[DISPENSE_INFO]["cycle"] /\ time = fields[DISPENSE_INFO]["time"]
      BY <2>2 DEF Part
    <3> QED BY <3>1, <3>2, <3>3 DEF IsField
  <2> QED BY <2>1, <2>2
<1>4. None # TRUE /\ None # FALSE
  BY NoneIsNot
<1>5. About(cycle) \in {None, FALSE} /\ (time # None => About(time) = FALSE) /\ (time = None => About(time) = None)
  BY <1>3 DEF About
<1> HIDE DEF cycle, time
\* two fields of one reply, the one that says which dispense it is about first
<1>6. ASSUME NEW cmd \in StructCommands, NEW key \in DOMAIN Places[cmd], NEW name \in DOMAIN Places[cmd],
             Places[cmd][key][1] + Places[cmd][key][2] <= Places[cmd][name][1] + Places[cmd][name][2],
             About(Part(fields, cmd, key)) = About(cycle), Part(fields, cmd, name) # None
      PROVE  Part(fields, cmd, name).moved = FALSE
  <2>1. fields[cmd] # None
    BY <1>6 DEF Part
  <2>2. Part(fields, cmd, key) = fields[cmd][key] /\ Part(fields, cmd, name) = fields[cmd][name]
    BY <2>1 DEF Part
  <2>3. PICK length \in Nat, m \in BOOLEAN :
           \A n \in DOMAIN Places[cmd] : IsField(fields[cmd][n], cmd, n, length, m)
    BY <2>1, FieldsAre
  <2>4. IsPlace(Places[cmd][key]) /\ IsPlace(Places[cmd][name])
    BY PlacesAre
  <2>5. IsField(fields[cmd][key], cmd, key, length, m) /\ IsField(fields[cmd][name], cmd, name, length, m)
    BY <2>3
  <2>6. fields[cmd][name] # None /\ ~(Places[cmd][name][1] + Places[cmd][name][2] > length)
    BY <2>2, <2>5, <1>6 DEF IsField
  <2>7. ~(Places[cmd][key][1] + Places[cmd][key][2] > length)
    BY <2>4, <2>6, <1>6 DEF IsPlace
  <2>8. fields[cmd][key] # None /\ fields[cmd][key].moved = m /\ fields[cmd][name].moved = m
    BY <2>5, <2>6, <2>7 DEF IsField
  <2>9. About(Part(fields, cmd, key)) = m
    BY <2>2, <2>8 DEF About
  <2> QED BY <2>2, <2>8, <2>9, <1>4, <1>5, <1>6
<1>7. Measured # None => ~Measured.moved
  <2> SUFFICES ASSUME Measured # None PROVE ~Measured.moved
    OBVIOUS
  <2>1. Measured = Part(fields, LAST_DIS_INFO_2, "dispense_volume")
        /\ About(Part(fields, LAST_DIS_INFO_2, "cycle")) = About(cycle)
    BY DEF Measured, cycle
  <2>2. /\ "cycle" \in DOMAIN Places[LAST_DIS_INFO_2] /\ "dispense_volume" \in DOMAIN Places[LAST_DIS_INFO_2]
        /\ Places[LAST_DIS_INFO_2]["cycle"][1] + Places[LAST_DIS_INFO_2]["cycle"][2]
             <= Places[LAST_DIS_INFO_2]["dispense_volume"][1] + Places[LAST_DIS_INFO_2]["dispense_volume"][2]
    BY <1>2
  <2>3. Measured.moved = FALSE
    BY <2>1, <2>2, <1>1, <1>6
  <2> QED BY <2>3
<1>8. Setpoint # None => ~Setpoint.moved
  <2> SUFFICES ASSUME Setpoint # None PROVE ~Setpoint.moved
    OBVIOUS
  <2>1. Setpoint = Part(fields, RTSTATUS, "last_dispense_vol_ul")
        /\ About(Part(fields, RTSTATUS, "last_dispense_cycle")) = About(cycle)
    BY DEF Setpoint, cycle
  <2>2. /\ "last_dispense_cycle" \in DOMAIN Places[RTSTATUS] /\ "last_dispense_vol_ul" \in DOMAIN Places[RTSTATUS]
        /\ Places[RTSTATUS]["last_dispense_cycle"][1] + Places[RTSTATUS]["last_dispense_cycle"][2]
             <= Places[RTSTATUS]["last_dispense_vol_ul"][1] + Places[RTSTATUS]["last_dispense_vol_ul"][2]
    BY <1>2
  <2>3. Setpoint.moved = FALSE
    BY <2>1, <2>2, <1>1, <1>6
  <2> QED BY <2>3
\* both are read before the time that tells which dispense it is about
<1>9. ASSUME NEW n \in {Title, Pct}, values[n] # None, Confirmed, ~(values[Time] = None /\ time = None)
      PROVE  ~values[n].moved
  <2>1. About(values[Time]) = About(time)
    BY <1>9 DEF Confirmed, time
  <2>2. values[Time] # None => values[Time].moved \in BOOLEAN
    <3> SUFFICES ASSUME values[Time] # None PROVE values[Time].moved \in BOOLEAN
      OBVIOUS
    <3>1. PICK numbers \in Lists(task) : \E k \in 1..Len(numbers) : ReadAs(values[Time], numbers, k)
      BY DispenseSvidsAre DEF IInv, ValuesRead
    <3> QED BY <3>1 DEF ReadAs
  <2>3. values[Time] # None /\ time # None
    BY <2>1, <2>2, <1>4, <1>5, <1>9 DEF About
  <2>4. values[Time].moved = FALSE
    BY <2>1, <2>3, <1>5 DEF About
  <2> QED BY <2>3, <2>4, <1>9 DEF IInv, BeforeTime
<1>10. Confirmation # None => ~Confirmation.moved \/ (values[Time] = None /\ time = None)
  BY <1>9 DEF Confirmation
<1>11. RecipeTitle # None => ~RecipeTitle.moved \/ ~Confirmed \/ (values[Time] = None /\ time = None)
  BY <1>9 DEF RecipeTitle
<1> QED BY <1>7, <1>8, <1>10, <1>11 DEF time

\* What is missing is told.
LEMMA ToldHold == IInv => MissingIsTold
<1> SUFFICES ASSUME IInv, todo = <<>>, ~raised, ~NoMoreNeeded, NEW k \in DOMAIN Plan(task)
             PROVE  Told(Plan(task)[k])
  BY DEF MissingIsTold
<1>1. IsPlan(task, Plan(task))
  BY PlanIs, ReaderAssumption DEF IInv, Types
<1>2. Plan(task) \in Seq(Seq(Nat)) /\ DOMAIN Plan(task) = 1..Len(Plan(task))
  BY <1>1 DEF IsPlan
<1>3. CASE \E j \in 0..Len(Plan(task)) : Planned(j)
  <2>1. PICK j \in 0..Len(Plan(task)) : Planned(j)
    BY <1>3
  <2>2. Left(Plan(task), j) = <<>>
    BY <2>1 DEF Planned
  <2>3. j = Len(Plan(task))
    BY <2>2, <1>2, LeftIs
  <2> QED BY <2>1, <2>3, <1>2 DEF Planned
<1>4. CASE \E j \in 0..Len(SvidsOf(task)) : OneAtATime(j)
  <2> DEFINE s == SvidsOf(task)
             r == Plan(task)[k]
  <2>1. PICK j \in 0..Len(s) : OneAtATime(j)
    BY <1>4
  <2>2. Left(OneByOne, j) = <<>> /\ \A i \in 1..j : Told(OneByOne[i])
    BY <2>1 DEF OneAtATime
  <2>3. j = Len(s)
    <3> DEFINE plan == OneByOne
    <3>1. plan \in Seq(Seq(Nat)) /\ Len(plan) = Len(s) /\ j \in 0..Len(plan) /\ Left(plan, j) = <<>>
      BY <2>1, <2>2, OneByOneIs
    <3> HIDE DEF plan, s
    <3>2. j = Len(plan)
      BY <3>1, LeftIs
    <3> QED BY <3>1, <3>2
  <2>4. CASE ~IsSvids(r)
    BY <2>1, <2>4 DEF OneAtATime
  <2>5. CASE IsSvids(r)
    <3>1. r = AskSvids(s)
      BY <2>5, <1>1, <1>2, AskIs DEF IsPlan
    <3>2. Tail(r) = s /\ s \in Seq(Registry)
      BY <3>1, SvidsOfIs, AskSvidsIs
    <3>3. ASSUME NEW i \in 1..Len(s)
          PROVE  values[s[i]] # None \/ AskSvids(<<s[i]>>) \in problems
      <4> DEFINE n == s[i]
                 one == AskSvids(<<n>>)
      <4>1. Told(one)
        BY <2>2, <2>3, OneByOneIs
      <4>2. <<n>> \in Seq(Registry)
        BY <3>2
      <4> HIDE DEF n
      <4>3. IsSvids(one) /\ Tail(one) = <<n>>
        BY <4>2, AskSvidsIs
      <4>4. n \in {Tail(one)[h] : h \in DOMAIN Tail(one)}
        BY <4>3, One
      <4>5. values[n] # None \/ one \in problems
        <5> HIDE DEF one
        <5> QED BY <4>1, <4>3, <4>4 DEF Told, one
      <4> QED BY <4>5 DEF n
    <3>4. \A n \in {Tail(r)[i] : i \in DOMAIN Tail(r)} : values[n] # None \/ AskSvids(<<n>>) \in problems
      BY <3>2, <3>3
    <3> HIDE DEF r
    <3>5. Told(r)
      BY <2>5, <3>4 DEF Told
    <3> QED BY <3>5 DEF r
  <2> QED BY <2>4, <2>5
<1> QED BY <1>3, <1>4 DEF IInv, InTurn

\* the first half of KeptIsThePumps, which needs no assumption about the pump
StructsKept ==
    \A cmd \in StructCommands : fields[cmd] # None =>
       \A name \in DOMAIN Places[cmd] :
           LET v == fields[cmd][name]
           IN  v # None => v.from = Ask(cmd) /\ <<v.at, v.size>> = PumpPuts[cmd][name]

\* the pump pads none of the strings that the task is about
NoneShifted ==
    \A n \in Strings \intersect Listed(task) : ~(pump.padded /\ pump.texts[n] % 2 = 1)

\* The fields kept are the pump's.
LEMMA StructsHold == IInv => StructsKept
<1> SUFFICES ASSUME IInv, NEW cmd \in StructCommands, fields[cmd] # None, NEW name \in DOMAIN Places[cmd],
                    fields[cmd][name] # None
             PROVE  /\ fields[cmd][name].from = Ask(cmd)
                    /\ <<fields[cmd][name].at, fields[cmd][name].size>> = PumpPuts[cmd][name]
  BY DEF StructsKept
<1>1. PICK length \in Nat, m \in BOOLEAN : IsField(fields[cmd][name], cmd, name, length, m)
  BY FieldsAre
<1>2. /\ fields[cmd][name].from = Ask(cmd)
      /\ fields[cmd][name].at = Places[cmd][name][1] /\ fields[cmd][name].size = Places[cmd][name][2]
  BY <1>1 DEF IsField
<1>3. Places[cmd][name] = <<Places[cmd][name][1], Places[cmd][name][2]>>
  BY PlacesAre DEF IsPlace
<1>4. Places[cmd][name] = PumpPuts[cmd][name]
  BY PlacesAreTheirs
<1> QED BY <1>2, <1>3, <1>4

\* So are the values, when nothing is shifted.
LEMMA KeptHold == IInv /\ NoneShifted => KeptIsThePumps
<1> SUFFICES ASSUME IInv, NoneShifted PROVE KeptIsThePumps
  OBVIOUS
<1>1. ASSUME NEW n \in Numbers, values[n] # None
      PROVE  \E k \in DOMAIN Tail(values[n].from) :
                /\ Tail(values[n].from)[k] = n
                /\ <<values[n].at, values[n].size>> = SentAt(pump, Tail(values[n].from), k)
  <2>0. PICK numbers \in Lists(task) : \E k \in 1..Len(numbers) : numbers[k] = n /\ ReadAs(values[n], numbers, k)
    BY <1>1 DEF IInv, ValuesRead
  <2>1. PICK k \in 1..Len(numbers) : numbers[k] = n /\ ReadAs(values[n], numbers, k)
    BY <2>0
  <2>2. numbers \in Seq(Registry) /\ \A i \in 1..Len(numbers) : numbers[i] \in Listed(task)
    BY ListsAre
  <2>3. Unshifted(pump, numbers)
    BY <2>2 DEF NoneShifted, Unshifted
  <2>4. values[n].from = AskSvids(numbers) /\ <<values[n].at, values[n].size>> = SentAt(pump, numbers, k)
    BY <2>1, <2>3 DEF ReadAs
  <2>5. Tail(values[n].from) = numbers
    BY <2>2, <2>4, AskSvidsIs
  <2>6. k \in DOMAIN numbers
    BY <2>2
  <2> QED BY <2>1, <2>4, <2>5, <2>6
<1>2. StructsKept
  BY StructsHold
<1> QED BY <1>1, <1>2 DEF KeptIsThePumps, StructsKept

\* Every variable has its type, and a wait is for a reply that is late, however
\* the reads of pump_reader.py go.
THEOREM TypeCorrect == Spec => []TypeOK
BY AlwaysIInv, TypesHold, PTL

\* A field of a struct is always the one it is taken for: read from the reply to
\* its own command and from where the pump put it, however short the reply was
\* and whatever was late (read_struct, parse). So is every SVID read, alone or in
\* a list, of a pump that pads none of the strings (walk_reply).
THEOREM KeptIsThePumpsAlways == Spec => [](StructsKept /\ (NoneShifted => KeptIsThePumps))
BY AlwaysIInv, StructsHold, KeptHold, PTL

\* Whenever the pump dispenses between two reads, a header's volumes and its
\* confirmation are never of another dispense than DISPENSE_INFO, and its title is
\* only when problems says that the SVIDs are for a different dispense time
\* (read_dispense_header); of the confirmation and the title this is but for a
\* header when neither time was read.
THEOREM PartsAreTiedAlways == Spec => []PartsAreTied
BY AlwaysIInv, PartsHold, PTL

\* A read that ends without an exception, and not because it needed no more, has
\* an answer or a note for each of its requests, and for each SVID of a list that
\* was refused, whatever failed.
THEOREM MissingIsToldAlways == Spec => []MissingIsTold
BY AlwaysIInv, ToldHold, PTL
=============================================================================
