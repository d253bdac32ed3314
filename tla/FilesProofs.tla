----------------------------- MODULE FilesProofs -----------------------------
(***************************************************************************)
(* Theorems about Files, for any cycles, profile, replies kept for         *)
(* diagnosis, number of requests and number of runs. One inductive         *)
(* invariant, Inv, has them all: Ordered says of each list of files        *)
(* (capture.json, index.json) that the files it lists are whole before it  *)
(* is there and are never written again; Kept, that the capture of what is *)
(* stored is whole, or still to be written before it; Swaps, that one      *)
(* process at a time has the temporary file. What FlattenSeq and SetToSeq  *)
(* put together is found by induction over the natural numbers.            *)
(***************************************************************************)
EXTENDS Files, FiniteSetTheorems, WellFoundedInduction, NaturalsInduction, TLAPS

-----------------------------------------------------------------------------
(* Induction, and the elements of the sequences that the writers put together *)

\* Each set of natural numbers that is not empty has a least.
LEMMA Least ==
    ASSUME NEW T \in SUBSET Nat, T # {}
    PROVE  \E m \in T : \A n \in T : m <= n
<1> DEFINE R == OpToRel(<, Nat)
<1>1. IsWellFoundedOn(R, Nat)
  BY NatLessThanWellFounded
<1> HIDE DEF R
<1>2. PICK m \in T : \A n \in T : ~(<<n, m>> \in R)
  BY <1>1, WFMin, Zenon
<1>3. \A n \in T : n < m => <<n, m>> \in R
  BY DEF R, OpToRel
<1>4. \A n \in T : ~(n < m)
  BY <1>2, <1>3
<1> QED BY <1>4

LEMMA Induction ==
    ASSUME NEW S \in SUBSET Nat, 0 \in S, \A n \in S : n + 1 \in S
    PROVE  S = Nat
<1> SUFFICES ASSUME S # Nat PROVE FALSE
  OBVIOUS
<1>1. Nat \ S \in SUBSET Nat /\ Nat \ S # {}
  OBVIOUS
<1>2. PICK m \in Nat \ S : \A n \in Nat \ S : m <= n
  BY <1>1, Least
<1>3. m # 0 /\ m - 1 \in Nat
  BY <1>2
<1>4. m - 1 \in S
  BY <1>2, <1>3
<1>5. (m - 1) + 1 \in S
  BY <1>4
<1> QED BY <1>2, <1>5

LEMMA SeqOfOne == \A S : \A x \in S : <<x>> \in Seq(S)
OBVIOUS

LEMMA SeqOfTwo == \A S : \A x, y \in S : <<x, y>> \in Seq(S)
OBVIOUS

LEMMA OneAndTwo == \A x, y, z : <<x>> \o <<y, z>> = <<x, y, z>>
<1> SUFFICES ASSUME NEW x, NEW y, NEW z PROVE <<x>> \o <<y, z>> = <<x, y, z>>
  OBVIOUS
<1> DEFINE S == {x, y, z}
           s == <<x>> \o <<y, z>>
<1>1. s \in Seq(S) /\ <<x, y, z>> \in Seq(S)
  OBVIOUS
<1>2. Len(s) = 3 /\ s[1] = x /\ s[2] = y /\ s[3] = z
  OBVIOUS
<1> HIDE DEF s
<1>3. \E n \in Nat : s \in [1..n -> S]
  BY <1>1
<1>4. s \in [1..3 -> S]
  BY <1>2, <1>3
<1> DEFINE t == <<x, y, z>>
<1>5. t \in [1..3 -> S] /\ t[1] = x /\ t[2] = y /\ t[3] = z
  OBVIOUS
<1> HIDE DEF t
<1>6. \A i \in 1..3 : s[i] = t[i]
  <2>1. \A i \in 1..3 : i = 1 \/ i = 2 \/ i = 3
    OBVIOUS
  <2> QED BY <2>1, <1>2, <1>5
<1>7. s = t
  BY <1>4, <1>5, <1>6
<1> QED BY <1>7 DEF s, t

LEMMA SeqSubset == ASSUME NEW S, NEW T \in SUBSET S PROVE \A s \in Seq(T) : s \in Seq(S)
OBVIOUS

LEMMA SeqOfFunction == ASSUME NEW S, NEW n \in Nat, NEW f \in [1..n -> S] PROVE f \in Seq(S)
OBVIOUS

Joined(s, t, st) ==
    /\ \A i \in DOMAIN s : i \in DOMAIN st /\ st[i] = s[i]
    /\ \A j \in 1..Len(t) : Len(s) + j \in DOMAIN st /\ st[Len(s) + j] = t[j]

LEMMA Concatenated ==
    ASSUME NEW S
    PROVE  \A s, t \in Seq(S) : Joined(s, t, s \o t)
BY DEF Joined

\* f holds the first n sequences of seqs one after the other, the first i of
\* them in f[i] (FlattenSeq's recursion)
FlatEq(f, seqs, n) ==
    f = [i \in 1..n |-> IF i = 1 THEN seqs[i] ELSE f[i - 1] \o seqs[i]]

\* There is such a function for each length.
LEMMA FlatExists ==
    ASSUME NEW S, NEW seqs \in Seq(Seq(S))
    PROVE  \A n \in Nat : n <= Len(seqs) => \E f \in [1..n -> Seq(S)] : FlatEq(f, seqs, n)
<1> DEFINE P(n) == n <= Len(seqs) => \E f \in [1..n -> Seq(S)] : FlatEq(f, seqs, n)
           T == {n \in Nat : P(n)}
<1>1. P(0)
  <2> DEFINE f == [i \in 1..0 |-> <<>>]
  <2>1. f \in [1..0 -> Seq(S)] /\ FlatEq(f, seqs, 0)
    BY DEF FlatEq
  <2> QED BY <2>1
<1>2. ASSUME NEW n \in Nat, P(n) PROVE P(n + 1)
  <2> SUFFICES ASSUME n + 1 <= Len(seqs)
               PROVE \E g \in [1..(n + 1) -> Seq(S)] : FlatEq(g, seqs, n + 1)
    OBVIOUS
  <2>1. PICK f \in [1..n -> Seq(S)] : FlatEq(f, seqs, n)
    BY <1>2
  <2>2. \A i \in 1..n : f[i] = IF i = 1 THEN seqs[i] ELSE f[i - 1] \o seqs[i]
    BY <2>1, Zenon DEF FlatEq
  <2> DEFINE last == IF n = 0 THEN seqs[1] ELSE f[n] \o seqs[n + 1]
             g == [i \in 1..(n + 1) |-> IF i = n + 1 THEN last ELSE f[i]]
  <2>3. last \in Seq(S)
    <3>1. seqs[n + 1] \in Seq(S)
      OBVIOUS
    <3>2. CASE n = 0
      BY <3>1, <3>2
    <3>3. CASE n # 0
      <4>1. f[n] \in Seq(S)
        BY <3>3, <2>1
      <4> QED BY <3>1, <3>3, <4>1
    <3> QED BY <3>2, <3>3
  <2> HIDE DEF last
  <2>4. g \in [1..(n + 1) -> Seq(S)]
    BY <2>1, <2>3
  <2>5. ASSUME NEW i \in 1..(n + 1)
        PROVE g[i] = IF i = 1 THEN seqs[i] ELSE g[i - 1] \o seqs[i]
    <3>1. CASE i = n + 1
      <4>1. g[i] = last
        BY <3>1
      <4>2. CASE n = 0
        BY <3>1, <4>1, <4>2 DEF last
      <4>3. CASE n # 0
        <5>1. i - 1 = n /\ i # 1 /\ g[n] = f[n]
          BY <3>1, <4>3
        <5> QED BY <4>1, <4>3, <5>1, <3>1 DEF last
      <4> QED BY <4>2, <4>3
    <3>2. CASE i # n + 1
      <4>1. i \in 1..n /\ g[i] = f[i]
        BY <3>2
      <4>2. CASE i = 1
        BY <4>1, <4>2, <2>2
      <4>3. CASE i # 1
        <5>1. i - 1 \in 1..n /\ g[i - 1] = f[i - 1]
          BY <4>1, <4>3
        <5> QED BY <4>1, <4>3, <5>1, <2>2
      <4> QED BY <4>2, <4>3
    <3> QED BY <3>1, <3>2
  <2>6. FlatEq(g, seqs, n + 1)
    <3>1. g = [i \in 1..(n + 1) |-> g[i]]
      OBVIOUS
    <3> HIDE DEF g
    <3> QED BY <2>5, <3>1 DEF FlatEq
  <2> QED BY <2>4, <2>6
<1> HIDE DEF P
<1>3. T \in SUBSET Nat /\ 0 \in T
  BY <1>1
<1>4. \A n \in T : n + 1 \in T
  BY <1>2
<1>5. T = Nat
  BY <1>3, <1>4, Induction
<1>6. \A n \in Nat : P(n)
  BY <1>5
<1> QED BY <1>6 DEF P

\* What a sequence of sequences is made of is what they are made of.
LEMMA FlattenElements ==
    ASSUME NEW S, NEW seqs \in Seq(Seq(S))
    PROVE  /\ FlattenSeq(seqs) \in Seq(S)
           /\ \A k \in DOMAIN seqs : \A j \in DOMAIN seqs[k] :
                 \E i \in DOMAIN FlattenSeq(seqs) : FlattenSeq(seqs)[i] = seqs[k][j]
<1>1. CASE Len(seqs) = 0
  <2>1. seqs = <<>>
    BY <1>1
  <2> QED BY <2>1, <1>1 DEF FlattenSeq
<1>2. CASE Len(seqs) # 0
  <2> DEFINE N == Len(seqs)
             g == CHOOSE f : FlatEq(f, seqs, Len(seqs))
             P(n) == n \in 1..N =>
                        /\ g[n] \in Seq(S)
                        /\ \A k \in 1..n : \A j \in DOMAIN seqs[k] :
                              \E i \in DOMAIN g[n] : g[n][i] = seqs[k][j]
             T == {n \in Nat : P(n)}
  <2>1. FlattenSeq(seqs) = g[N]
    BY <1>2 DEF FlattenSeq, FlatEq
  <2>2. FlatEq(g, seqs, N)
    BY FlatExists
  <2> HIDE DEF g
  <2>3. \A i \in 1..N : g[i] = IF i = 1 THEN seqs[i] ELSE g[i - 1] \o seqs[i]
    BY <2>2, Zenon DEF FlatEq
  <2>4. P(0)
    OBVIOUS
  <2>5. ASSUME NEW n \in Nat, P(n) PROVE P(n + 1)
    <3> SUFFICES ASSUME n + 1 \in 1..N
                 PROVE /\ g[n + 1] \in Seq(S)
                       /\ \A k \in 1..(n + 1) : \A j \in DOMAIN seqs[k] :
                             \E i \in DOMAIN g[n + 1] : g[n + 1][i] = seqs[k][j]
      OBVIOUS
    <3>1. seqs[n + 1] \in Seq(S)
      OBVIOUS
    <3>2. CASE n = 0
      <4>1. n + 1 = 1 /\ 1 \in 1..N
        BY <3>2
      <4>2. g[1] = seqs[1]
        BY <4>1, <2>3
      <4>3. \A k \in 1..(n + 1) : k = 1
        BY <3>2
      <4> QED BY <4>1, <4>2, <4>3, <3>1
    <3>3. CASE n # 0
      <4>1. n \in 1..N /\ n + 1 # 1 /\ (n + 1) - 1 = n
        BY <3>3
      <4>2. g[n + 1] = g[n] \o seqs[n + 1]
        BY <4>1, <2>3
      <4>3. g[n] \in Seq(S)
        BY <4>1, <2>5
      <4>4. g[n + 1] \in Seq(S)
        BY <4>2, <4>3, <3>1
      <4> DEFINE t == seqs[n + 1]
      <4>6. Joined(g[n], t, g[n + 1])
        <5>1. t \in Seq(S)
          BY <3>1
        <5>2. Joined(g[n], t, g[n] \o t)
          BY <4>3, <5>1, Concatenated, Zenon
        <5> QED BY <5>2, <4>2
      <4>5. ASSUME NEW k \in 1..(n + 1), NEW j \in DOMAIN seqs[k]
            PROVE \E i \in DOMAIN g[n + 1] : g[n + 1][i] = seqs[k][j]
        <5>1. CASE k = n + 1
          <6>1. j \in 1..Len(seqs[n + 1])
            BY <5>1, <3>1
          <6>2. Len(g[n]) + j \in DOMAIN g[n + 1] /\ g[n + 1][Len(g[n]) + j] = seqs[k][j]
            BY <6>1, <5>1, <4>6 DEF Joined
          <6> QED BY <6>2
        <5>2. CASE k # n + 1
          <6>1. k \in 1..n
            BY <5>2
          <6>2. PICK i \in DOMAIN g[n] : g[n][i] = seqs[k][j]
            BY <6>1, <4>1, <2>5
          <6>3. i \in DOMAIN g[n + 1] /\ g[n + 1][i] = g[n][i]
            BY <6>2, <4>6 DEF Joined
          <6> QED BY <6>2, <6>3
        <5> QED BY <5>1, <5>2
      <4> QED BY <4>4, <4>5
    <3> QED BY <3>2, <3>3
  <2> HIDE DEF P
  <2>6. T \in SUBSET Nat /\ 0 \in T
    BY <2>4
  <2>7. \A n \in T : n + 1 \in T
    BY <2>5
  <2>8. T = Nat
    BY <2>6, <2>7, Induction
  <2>9. P(N)
    <3>1. N \in T
      BY <2>8
    <3> QED BY <3>1
  <2>10. N \in 1..N /\ DOMAIN seqs = 1..N
    BY <1>2
  <2> QED BY <2>1, <2>9, <2>10 DEF P
<1> QED BY <1>1, <1>2

\* A finite set laid out as a sequence has all its elements.
LEMMA SetToSeqElements ==
    ASSUME NEW S, IsFiniteSet(S)
    PROVE  /\ SetToSeq(S) \in Seq(S)
           /\ \A x \in S : \E i \in DOMAIN SetToSeq(S) : SetToSeq(S)[i] = x
<1> DEFINE n == Cardinality(S)
           f == SetToSeq(S)
<1>1. n \in Nat /\ ExistsBijection(1..n, S)
  BY FS_CardinalityType
<1>2. PICK b : b \in [1..n -> S] /\ IsInjective(b)
  BY <1>1 DEF ExistsBijection, Bijection, Injection
<1>3. f \in [1..n -> S] /\ IsInjective(f)
  BY <1>2 DEF SetToSeq
<1> HIDE DEF f
<1>4. IsFiniteSet(1..n) /\ Cardinality(1..n) = n
  BY <1>1, FS_Interval
<1>5. f \in Surjection(1..n, S)
  BY <1>3, <1>4, FS_Injection DEF Injection
<1>6. f \in Seq(S)
  BY <1>1, <1>3
<1> QED BY <1>3, <1>5, <1>6 DEF Surjection, f

-----------------------------------------------------------------------------
(* What tells paths apart *)

LEMMA CapturePaths ==
    ASSUME NEW c, NEW run
    PROVE  LET dir == CaptureDir(c, run)
           IN  /\ dir[1] = "captures" /\ dir[2] = c /\ dir[3] = run
               /\ \A path \in {InfoFile(dir), CaptureFile(dir)} :
                     path[1] = "captures" /\ path[2] = c /\ path[3] = run
               /\ InfoFile(dir)[4] = "info" /\ CaptureFile(dir)[4] = "capture"
BY DEF CaptureDir, InfoFile, CaptureFile

LEMMA TracePaths ==
    ASSUME NEW c, NEW run, NEW t
    PROVE  LET path == TraceFile(CaptureDir(c, run), t)
           IN  path[1] = "captures" /\ path[2] = c /\ path[3] = run /\ path[4] = "trace"
BY DEF CaptureDir, TraceFile

LEMMA BadPaths ==
    ASSUME NEW c, NEW run, NEW bad \in Nat \X Nat \X Nat
    PROVE  LET path == BadFile(CaptureDir(c, run), bad)
           IN  path[1] = "captures" /\ path[2] = c /\ path[3] = run /\ path[4] = "bad"
BY DEF CaptureDir, BadFile

LEMMA CommsPaths ==
    ASSUME NEW run, NEW i, NEW part
    PROVE  LET dir == CommsDir(run)
           IN  /\ dir[1] = "comms" /\ dir[2] = run
               /\ IndexFile(dir)[1] = "comms" /\ IndexFile(dir)[2] = run /\ IndexFile(dir)[3] = "index"
               /\ ExchangeFile(dir, i, part)[1] = "comms"
               /\ ExchangeFile(dir, i, part)[2] = run
               /\ ExchangeFile(dir, i, part)[3] = part
               /\ ExchangeFile(dir, i, part)[4] = i
BY DEF CommsDir, IndexFile, ExchangeFile

LEMMA SinglePaths ==
    /\ \A c : RowPath(c)[1] = "row" /\ RowPath(c)[2] = c
    /\ Collected[1] = "collected" /\ Temp[1] = "collected" /\ Temp # Collected
BY DEF RowPath, Collected, Temp

-----------------------------------------------------------------------------
(* A list of files is what says which there are (capture.json, index.json),  *)
(* and the files.                                                            *)

Captures == [cycle : Cycles, run : Nat, bad : SUBSET BadReplies]

Raw(capture) ==
    LET dir == CaptureDir(capture.cycle, capture.run)
    IN  {Write(InfoFile(dir), capture.run)}
        \union {Write(TraceFile(dir, t), capture.run) : t \in ToSet(Traces)}
        \union {Write(BadFile(dir, bad), capture.run) : bad \in capture.bad}

CaptureList(capture) ==
    [files |-> Raw(capture),
     seal |-> Write(CaptureFile(CaptureDir(capture.cycle, capture.run)), capture)]

LogFiles(run) ==
    {Write(ExchangeFile(CommsDir(run), i, part), run) : i \in 1..Exchanges, part \in {"req", "resp"}}

LogList(run) ==
    [files |-> LogFiles(run), seal |-> Write(IndexFile(CommsDir(run)), Exchanges)]

Writes(l) == l.files \union {l.seal}

\* s writes all the files of l, and then its list
Seals(s, l) ==
    /\ s \in Seq(Writes(l)) /\ Len(s) >= 1 /\ s[Len(s)] = l.seal
    /\ \A i \in 1..(Len(s) - 1) : s[i] \in l.files
    /\ \A w \in l.files : \E i \in 1..(Len(s) - 1) : s[i] = w

\* Files and then their list: a sequence that seals.
LEMMA SealedBy ==
    ASSUME NEW l, NEW f \in Seq(l.files), \A w \in l.files : \E i \in DOMAIN f : f[i] = w
    PROVE  Seals(f \o <<l.seal>>, l)
<1> DEFINE s == f \o <<l.seal>>
<1>1. f \in Seq(Writes(l)) /\ <<l.seal>> \in Seq(Writes(l))
  BY DEF Writes
<1>2. s \in Seq(Writes(l)) /\ Len(s) = Len(f) + 1 /\ s[Len(f) + 1] = l.seal
  BY <1>1
<1>3. \A i \in 1..Len(f) : s[i] = f[i] /\ f[i] \in l.files
  BY <1>1
<1>4. DOMAIN f = 1..Len(f) /\ Len(f) \in Nat /\ Len(s) - 1 = Len(f)
  BY <1>2
<1> HIDE DEF s
<1>5. Len(s) >= 1 /\ s[Len(s)] = l.seal
  BY <1>2, <1>4
<1>6. \A i \in 1..(Len(s) - 1) : s[i] \in l.files
  BY <1>3, <1>4
<1>7. \A w \in l.files : \E i \in 1..(Len(s) - 1) : s[i] = w
  BY <1>3, <1>4
<1>8. Seals(s, l)
  BY <1>2, <1>5, <1>6, <1>7 DEF Seals
<1> QED BY <1>8 DEF s

\* Capture.write_raw writes the list of a capture's files last.
LEMMA WriteRawSeals ==
    ASSUME NEW capture \in Captures
    PROVE  Seals(WriteRaw(capture), CaptureList(capture))
<1> DEFINE dir == CaptureDir(capture.cycle, capture.run)
           l == CaptureList(capture)
           kept(k) == {b \in capture.bad : b[1] = Traces[k]}
           bads(k) == {Write(BadFile(dir, bad), capture.run) : bad \in kept(k)}
           trace(k) == Write(TraceFile(dir, Traces[k]), capture.run)
           seqs == [k \in DOMAIN Traces |-> <<trace(k)>> \o SetToSeq(bads(k))]
           info == Write(InfoFile(dir), capture.run)
           flat == FlattenSeq(seqs)
           s == <<info>> \o flat
<1>1. WriteRaw(capture) = <<info>> \o flat \o <<l.seal>>
  BY DEF WriteRaw, CaptureList
<1>2. capture.bad \subseteq BadReplies /\ IsFiniteSet(BadReplies)
  BY FilesAssumption DEF Captures
<1>3. \A k : IsFiniteSet(bads(k))
  <2> SUFFICES ASSUME NEW k PROVE IsFiniteSet(bads(k))
    OBVIOUS
  <2>1. IsFiniteSet(kept(k))
    BY <1>2, FS_Subset
  <2> DEFINE f == [bad \in kept(k) |-> Write(BadFile(dir, bad), capture.run)]
  <2>2. f \in Surjection(kept(k), bads(k))
    BY DEF Surjection
  <2> QED BY <2>1, <2>2, FS_Surjection
<1>4. Traces \in Seq(Nat) /\ DOMAIN Traces = 1..Len(Traces) /\ Len(Traces) \in Nat
  BY FilesAssumption
<1>5. ASSUME NEW k \in DOMAIN Traces
      PROVE  /\ seqs[k] \in Seq(l.files) /\ seqs[k][1] = trace(k) /\ 1 \in DOMAIN seqs[k]
             /\ \A w \in bads(k) : \E j \in DOMAIN seqs[k] : seqs[k][j] = w
  <2>1. trace(k) \in l.files /\ bads(k) \subseteq l.files
    BY <1>4 DEF CaptureList, Raw, ToSet
  <2>2. /\ SetToSeq(bads(k)) \in Seq(bads(k))
        /\ \A w \in bads(k) : \E i \in DOMAIN SetToSeq(bads(k)) : SetToSeq(bads(k))[i] = w
    BY <1>3, SetToSeqElements
  <2> HIDE DEF l, trace, bads
  <2>3. SetToSeq(bads(k)) \in Seq(l.files) /\ <<trace(k)>> \in Seq(l.files)
    BY <2>1, <2>2, SeqSubset, SeqOfOne, Zenon
  <2> DEFINE rest == SetToSeq(bads(k))
  <2> HIDE DEF rest
  <2>4. seqs[k] = <<trace(k)>> \o rest
    BY DEF rest
  <2>5. Joined(<<trace(k)>>, rest, seqs[k]) /\ seqs[k] \in Seq(l.files)
    BY <2>3, <2>4, Concatenated DEF rest
  <2>6. \A i \in DOMAIN rest : 1 + i \in DOMAIN seqs[k] /\ seqs[k][1 + i] = rest[i]
    BY <2>3, <2>5 DEF Joined, rest
  <2>7. 1 \in DOMAIN seqs[k] /\ seqs[k][1] = trace(k)
    BY <2>5 DEF Joined
  <2>8. \A w \in bads(k) : \E i \in DOMAIN rest : rest[i] = w
    BY <2>2 DEF rest
  <2>9. \A w \in bads(k) : \E j \in DOMAIN seqs[k] : seqs[k][j] = w
    BY <2>6, <2>8
  <2> QED BY <2>5, <2>7, <2>9
<1>6. seqs \in Seq(Seq(l.files)) /\ DOMAIN seqs = DOMAIN Traces
  <2> HIDE DEF l
  <2>1. seqs \in [1..Len(Traces) -> Seq(l.files)]
    BY <1>4, <1>5
  <2> HIDE DEF seqs
  <2> QED BY <2>1, <1>4, SeqOfFunction
<1>7. /\ flat \in Seq(l.files)
      /\ \A k \in DOMAIN seqs : \A j \in DOMAIN seqs[k] : \E i \in DOMAIN flat : flat[i] = seqs[k][j]
  <2> HIDE DEF l, seqs
  <2> QED BY <1>6, FlattenElements
<1>8. info \in l.files
  BY DEF CaptureList, Raw
<1>9. s \in Seq(l.files) /\ Joined(<<info>>, flat, s)
  <2> HIDE DEF flat, info, l
  <2>1. <<info>> \in Seq(l.files)
    BY <1>8, SeqOfOne, Zenon
  <2> QED BY <2>1, <1>7, Concatenated
<1>10. \A i \in DOMAIN flat : \E j \in DOMAIN s : s[j] = flat[i]
  <2> HIDE DEF flat, info, l, s
  <2>1. \A i \in DOMAIN flat : i \in 1..Len(flat)
    BY <1>7
  <2> QED BY <2>1, <1>9 DEF Joined
<1>11. ASSUME NEW w \in l.files PROVE \E i \in DOMAIN s : s[i] = w
  <2>1. CASE w = info
    <3> HIDE DEF flat, info, l, s
    <3> QED BY <1>9, <2>1 DEF Joined
  <2>2. ASSUME NEW k \in DOMAIN Traces, w = trace(k) PROVE \E i \in DOMAIN s : s[i] = w
    <3> HIDE DEF flat, l, s, trace, seqs
    <3> QED BY <2>2, <1>5, <1>6, <1>7, <1>10
  <2>3. ASSUME NEW k \in DOMAIN Traces, w \in bads(k) PROVE \E i \in DOMAIN s : s[i] = w
    <3> HIDE DEF flat, l, s, trace, seqs, bads
    <3> QED BY <2>3, <1>5, <1>6, <1>7, <1>10
  <2>4. \/ w = info
        \/ \E k \in DOMAIN Traces : w = trace(k)
        \/ \E k \in DOMAIN Traces : w \in bads(k)
    <3>1. CASE \E t \in ToSet(Traces) : w = Write(TraceFile(dir, t), capture.run)
      BY <3>1 DEF ToSet
    <3>2. ASSUME NEW bad \in capture.bad, w = Write(BadFile(dir, bad), capture.run)
          PROVE  \E k \in DOMAIN Traces : w \in bads(k)
      <4>1. bad[1] \in ToSet(Traces)
        BY <1>2, FilesAssumption
      <4>2. PICK k \in DOMAIN Traces : bad[1] = Traces[k]
        BY <4>1 DEF ToSet
      <4> QED BY <4>2, <3>2
    <3>3. CASE w = info
      BY <3>3
    <3> QED BY <3>1, <3>2, <3>3 DEF CaptureList, Raw
  <2> QED BY <2>1, <2>2, <2>3, <2>4
<1>12. Seals(s \o <<l.seal>>, l)
  <2> HIDE DEF s, l
  <2> QED BY <1>9, <1>11, SealedBy
<1> QED BY <1>1, <1>12

\* CommsLog.write writes the index of the exchanges last.
LEMMA WriteLogSeals ==
    ASSUME NEW run \in Nat
    PROVE  Seals(WriteLog(run), LogList(run))
<1> DEFINE dir == CommsDir(run)
           l == LogList(run)
           req(i) == Write(ExchangeFile(dir, i, "req"), run)
           resp(i) == Write(ExchangeFile(dir, i, "resp"), run)
           seqs == [i \in 1..Exchanges |-> <<req(i), resp(i)>>]
           flat == FlattenSeq(seqs)
<1>1. WriteLog(run) = flat \o <<l.seal>>
  BY DEF WriteLog, LogList
<1>2. Exchanges \in Nat
  BY FilesAssumption
<1>3. \A i \in 1..Exchanges : req(i) \in l.files /\ resp(i) \in l.files
  BY DEF LogList, LogFiles
<1>4. seqs \in Seq(Seq(l.files)) /\ DOMAIN seqs = 1..Exchanges
  <2> HIDE DEF l, req, resp
  <2>1. seqs \in [1..Exchanges -> Seq(l.files)]
    <3>1. \A i \in 1..Exchanges : <<req(i), resp(i)>> \in Seq(l.files)
      BY <1>3, SeqOfTwo, Zenon
    <3> QED BY <3>1
  <2> HIDE DEF seqs
  <2> QED BY <2>1, <1>2, SeqOfFunction
<1>5. \A i \in 1..Exchanges :
         /\ 1 \in DOMAIN seqs[i] /\ seqs[i][1] = req(i)
         /\ 2 \in DOMAIN seqs[i] /\ seqs[i][2] = resp(i)
  OBVIOUS
<1>6. /\ flat \in Seq(l.files)
      /\ \A k \in DOMAIN seqs : \A j \in DOMAIN seqs[k] : \E i \in DOMAIN flat : flat[i] = seqs[k][j]
  <2> HIDE DEF l, seqs
  <2> QED BY <1>4, FlattenElements
<1>7. ASSUME NEW w \in l.files PROVE \E i \in DOMAIN flat : flat[i] = w
  <2>1. PICK i \in 1..Exchanges : w = req(i) \/ w = resp(i)
    BY DEF LogList, LogFiles
  <2> HIDE DEF l, seqs, req, resp, flat
  <2> QED BY <2>1, <1>4, <1>5, <1>6
<1>8. Seals(flat \o <<l.seal>>, l)
  <2> HIDE DEF flat, l
  <2> QED BY <1>6, <1>7, SealedBy
<1> QED BY <1>1, <1>8

-----------------------------------------------------------------------------
(* The invariant *)

Memories == [Cycles -> Nat \union {None}]

RowWrites == {Write(RowPath(capture.cycle), capture) : capture \in Captures}
TempWrites == {Write(Temp, cycles) : cycles \in Memories}
Others == RowWrites \union TempWrites \union {Swap}
OtherPaths == {RowPath(c) : c \in Cycles} \union {Temp, Collected}

\* the lists there are once these captures were taken and n runs begun
ListsOf(captures, n) ==
    {CaptureList(captures[dir]) : dir \in DOMAIN captures} \union {LogList(run) : run \in 1..n}
Lists == ListsOf(taken, runs[Bridge])
ListWrites == UNION {Writes(l) : l \in Lists}

TakenAs(captures, n) ==
    \A dir \in DOMAIN captures :
        /\ captures[dir] \in Captures /\ captures[dir].run \in 1..n
        /\ dir = CaptureDir(captures[dir].cycle, captures[dir].run)

\* Only the bridge writes lists of files, and all that is on disk was written
\* by one of the two.
Entries == /\ DOMAIN todo = Procs
           /\ todo[Bridge] \in Seq(ListWrites \union Others)
           /\ todo[Tool] \in Seq(Others)

Types ==
    /\ runs \in [Procs -> Nat] /\ \A p \in Procs : runs[p] <= MaxRuns[p]
    /\ save \in Seq(0..2) /\ Len(save) = runs[Bridge]
    /\ memory \in [Procs -> Memories \union {None}]
    /\ shared \in BOOLEAN
    /\ TakenAs(taken, runs[Bridge])
    /\ DOMAIN open = Procs
    /\ DOMAIN disk \subseteq {w.path : w \in ListWrites} \union OtherPaths
    /\ \A path \in DOMAIN disk : disk[path].whole \in BOOLEAN

\* What is open is what is being written.
Opened ==
    \A p \in Procs : open[p] # None =>
        /\ Busy(p) /\ Now(p) # Swap /\ Exists(open[p])
        /\ open[p] = Now(p).path \/ (Now(p).path = Temp /\ open[p] = Collected)

Torn == [content |-> None, whole |-> FALSE]
Full(w) == [content |-> w.content, whole |-> TRUE]
Done(w) == Exists(w.path) /\ disk[w.path] = Full(w)

\* Once the list of some files is there, they are there, whole, and nothing
\* is left to write of them.
Ordered(l) ==
    /\ Exists(l.seal.path) =>
          /\ \A w \in l.files : Done(w)
          /\ disk[l.seal.path] \in {Torn, Full(l.seal)}
          /\ \A i \in DOMAIN todo[Bridge] :
                /\ todo[Bridge][i] \notin l.files
                /\ todo[Bridge][i] = l.seal => i = 1 /\ disk[l.seal.path] = Torn
    /\ \A i \in DOMAIN todo[Bridge] : todo[Bridge][i] = l.seal =>
          /\ \A w \in l.files : Done(w) \/ \E j \in 1..(i - 1) : todo[Bridge][j] = w
          /\ \A j \in DOMAIN todo[Bridge] : j > i => todo[Bridge][j] \notin Writes(l)
    /\ open[Bridge] # None /\ Now(Bridge) \in Writes(l) =>
          open[Bridge] = Now(Bridge).path /\ disk[open[Bridge]] = Torn

ListsOrdered == \A l \in Lists : Ordered(l)

\* A run's comms log is written after its end.
Phases ==
    LET log == LogList(runs[Bridge])
    IN  /\ Running(Bridge) =>
              /\ runs[Bridge] >= 1 /\ ~Exists(log.seal.path)
              /\ \A i \in DOMAIN todo[Bridge] : todo[Bridge][i] \notin Writes(log)
        /\ ~Running(Bridge) /\ Busy(Bridge) =>
              /\ runs[Bridge] >= 1 /\ Last(todo[Bridge]) = log.seal
              /\ \A i \in DOMAIN todo[Bridge] : todo[Bridge][i] \in Writes(log)

\* The capture of a cycle that was stored is whole on disk, if it is saved,
\* or is among the first i entries of what the bridge has still to write.
SealOf(c, run) == CaptureList(taken[CaptureDir(c, run)]).seal

KeptBefore(p, i, c, run) ==
    /\ run \in 1..runs[Bridge]
    /\ save[run] >= SAVE_CAPTURE =>
          /\ CaptureDir(c, run) \in DOMAIN taken
          /\ \/ Done(SealOf(c, run))
             \/ p = Bridge /\ \E j \in 1..i : todo[Bridge][j] = SealOf(c, run)

Kept(c, run) == KeptBefore(Tool, 0, c, run)
MemoryKept(cycles) == cycles \in Memories /\ \A c \in Cycles : cycles[c] # None => Kept(c, cycles[c])

MemoriesKept == \A p \in Procs : memory[p] # None => MemoryKept(memory[p])

DiskKept ==
    /\ \A c \in Cycles : Loads(RowPath(c)) =>
          /\ disk[RowPath(c)].content \in Captures
          /\ Kept(c, disk[RowPath(c)].content.run)
    /\ \A path \in {Temp, Collected} : Loads(path) => MemoryKept(disk[path].content)

WritesKept ==
    \A p \in Procs : \A i \in DOMAIN todo[p] :
        LET w == todo[p][i]
        IN  /\ w \in RowWrites => KeptBefore(p, i - 1, w.content.cycle, w.content.run)
            /\ w \in TempWrites => \A c \in Cycles : w.content[c] # None =>
                                      KeptBefore(p, i - 1, c, w.content[c])

Stored == MemoriesKept /\ DiskKept /\ WritesKept

\* The temporary file of the memory file is swapped in by the one that wrote
\* it, whole, as long as it is not shared.
HasTemp(p) == Busy(p) /\ (open[p] = Temp \/ Now(p) = Swap)

Swaps ==
    /\ \A p \in Procs : \A i \in DOMAIN todo[p] :
          todo[p][i] = Swap /\ i > 1 => todo[p][i - 1].path = Temp
    /\ ~shared =>
          /\ \A p, q \in Procs : HasTemp(p) /\ HasTemp(q) => p = q
          /\ Exists(Collected) => disk[Collected].whole
          /\ \A p \in Procs :
                /\ open[p] # Collected
                /\ Busy(p) /\ Now(p) = Swap => Exists(Temp) /\ disk[Temp].whole
                /\ open[p] = Temp => disk[Temp] = Torn

Inv == Entries /\ Types /\ Opened /\ ListsOrdered /\ Phases /\ Stored /\ Swaps

-----------------------------------------------------------------------------
(* No two writes are to one path *)

LEMMA CaptureWrites ==
    ASSUME NEW capture \in Captures, NEW w \in Writes(CaptureList(capture))
    PROVE  /\ w.path[1] = "captures" /\ w.path[2] = capture.cycle /\ w.path[3] = capture.run
           /\ w \in CaptureList(capture).files => w = Write(w.path, capture.run) /\ w.path[4] # "capture"
           /\ w = CaptureList(capture).seal => w.path[4] = "capture"
<1> DEFINE dir == CaptureDir(capture.cycle, capture.run)
<1>1. CASE w = Write(InfoFile(dir), capture.run)
  BY <1>1, CapturePaths DEF CaptureList, Write
<1>2. CASE \E t \in ToSet(Traces) : w = Write(TraceFile(dir, t), capture.run)
  <2>1. PICK t \in ToSet(Traces) : w = Write(TraceFile(dir, t), capture.run)
    BY <1>2
  <2>2. w = Write(w.path, capture.run)
    BY <2>1 DEF Write
  <2> QED BY <2>1, <2>2, TracePaths, CapturePaths DEF CaptureList, Write
<1>3. CASE \E bad \in capture.bad : w = Write(BadFile(dir, bad), capture.run)
  <2>1. PICK bad \in capture.bad : w = Write(BadFile(dir, bad), capture.run)
    BY <1>3
  <2>2. bad \in Nat \X Nat \X Nat
    BY FilesAssumption DEF Captures, ToSet
  <2>3. w = Write(w.path, capture.run)
    BY <2>1 DEF Write
  <2> QED BY <2>1, <2>2, <2>3, BadPaths, CapturePaths DEF CaptureList, Write
<1>4. CASE w = CaptureList(capture).seal
  <2>1. w.path = CaptureFile(dir)
    BY <1>4 DEF CaptureList, Write
  <2>2. w.path[4] = "capture" /\ w.path[1] = "captures" /\ w.path[2] = capture.cycle /\ w.path[3] = capture.run
    BY <2>1, CapturePaths
  <2>3. w \notin CaptureList(capture).files
    <3>1. \A v \in CaptureList(capture).files : v.path[4] # "capture"
      <4>1. \A bad \in capture.bad : bad \in Nat \X Nat \X Nat
        BY FilesAssumption DEF Captures, ToSet
      <4>2. \A bad \in capture.bad : BadFile(dir, bad)[4] = "bad"
        BY <4>1, BadPaths
      <4>3. \A t : TraceFile(dir, t)[4] = "trace"
        BY TracePaths
      <4>4. InfoFile(dir)[4] = "info"
        BY CapturePaths
      <4> QED BY <4>2, <4>3, <4>4 DEF CaptureList, Raw, Write
    <3> QED BY <3>1, <2>2
  <2> QED BY <2>2, <2>3
<1> QED BY <1>1, <1>2, <1>3, <1>4 DEF Writes, CaptureList, Raw

LEMMA LogWrites ==
    ASSUME NEW run \in Nat, NEW w \in Writes(LogList(run))
    PROVE  /\ w.path[1] = "comms" /\ w.path[2] = run
           /\ w \in LogList(run).files => w = Write(w.path, run) /\ w.path[3] # "index"
           /\ w = LogList(run).seal => w.path[3] = "index"
<1>1. ASSUME NEW v \in LogFiles(run)
      PROVE  v = Write(v.path, run) /\ v.path[1] = "comms" /\ v.path[2] = run /\ v.path[3] # "index"
  <2>1. PICK i \in 1..Exchanges, part \in {"req", "resp"} :
               v = Write(ExchangeFile(CommsDir(run), i, part), run)
    BY DEF LogFiles
  <2> QED BY <2>1, CommsPaths DEF Write
<1>2. LogList(run).seal = Write(IndexFile(CommsDir(run)), Exchanges)
  BY DEF LogList
<1>3. LogList(run).seal.path[3] = "index" /\ LogList(run).seal.path[1] = "comms"
      /\ LogList(run).seal.path[2] = run
  BY <1>2, CommsPaths DEF Write
<1> QED BY <1>1, <1>3 DEF Writes, LogList

LEMMA FilesApart ==
    ASSUME NEW tk, NEW n \in Nat, TakenAs(tk, n), NEW l \in ListsOf(tk, n), NEW w \in l.files
    PROVE  w.path # l.seal.path /\ w # l.seal
<1>1. w \in Writes(l) /\ l.seal \in Writes(l)
  BY DEF Writes
<1>2. CASE \E dir \in DOMAIN tk : l = CaptureList(tk[dir])
  BY <1>1, <1>2, CaptureWrites DEF TakenAs
<1>3. CASE \E run \in 1..n : l = LogList(run)
  BY <1>1, <1>3, LogWrites
<1> QED BY <1>2, <1>3 DEF ListsOf

\* A path tells which list of files a write is for, and which write of it.
LEMMA OneWrite ==
    ASSUME NEW tk, NEW n \in Nat, TakenAs(tk, n),
           NEW l \in ListsOf(tk, n), NEW m \in ListsOf(tk, n),
           NEW w \in Writes(l), NEW v \in Writes(m), w.path = v.path
    PROVE  l = m /\ w = v
<1>1. l = m
  <2>1. CASE \E dir \in DOMAIN tk : l = CaptureList(tk[dir])
    <3>1. PICK dir \in DOMAIN tk : l = CaptureList(tk[dir])
      BY <2>1
    <3>2. tk[dir] \in Captures /\ dir = CaptureDir(tk[dir].cycle, tk[dir].run)
      BY DEF TakenAs
    <3>3. w.path[1] = "captures" /\ w.path[2] = tk[dir].cycle /\ w.path[3] = tk[dir].run
      BY <3>1, <3>2, CaptureWrites
    <3>4. CASE \E d \in DOMAIN tk : m = CaptureList(tk[d])
      <4>1. PICK d \in DOMAIN tk : m = CaptureList(tk[d])
        BY <3>4
      <4>2. tk[d] \in Captures /\ d = CaptureDir(tk[d].cycle, tk[d].run)
        BY DEF TakenAs
      <4>3. v.path[2] = tk[d].cycle /\ v.path[3] = tk[d].run
        BY <4>1, <4>2, CaptureWrites
      <4> QED BY <3>1, <3>2, <3>3, <4>1, <4>2, <4>3
    <3>5. CASE \E run \in 1..n : m = LogList(run)
      BY <3>3, <3>5, LogWrites
    <3> QED BY <3>4, <3>5 DEF ListsOf
  <2>2. CASE \E run \in 1..n : l = LogList(run)
    <3>1. PICK run \in 1..n : l = LogList(run)
      BY <2>2
    <3>2. w.path[1] = "comms" /\ w.path[2] = run
      BY <3>1, LogWrites
    <3>3. CASE \E d \in DOMAIN tk : m = CaptureList(tk[d])
      <4>1. v.path[1] = "captures"
        BY <3>3, CaptureWrites DEF TakenAs
      <4> QED BY <4>1, <3>2
    <3>4. CASE \E r \in 1..n : m = LogList(r)
      BY <3>1, <3>2, <3>4, LogWrites
    <3> QED BY <3>3, <3>4 DEF ListsOf
  <2> QED BY <2>1, <2>2 DEF ListsOf
<1>2. w = v
  <2>1. CASE w \in l.files /\ v \in l.files
    <3>1. CASE \E dir \in DOMAIN tk : l = CaptureList(tk[dir])
      <4>1. PICK dir \in DOMAIN tk : l = CaptureList(tk[dir])
        BY <3>1
      <4>2. w = Write(w.path, tk[dir].run) /\ v = Write(v.path, tk[dir].run)
        BY <2>1, <4>1, CaptureWrites DEF TakenAs, Writes
      <4> QED BY <4>2
    <3>2. CASE \E run \in 1..n : l = LogList(run)
      <4>1. PICK run \in 1..n : l = LogList(run)
        BY <3>2
      <4>2. w = Write(w.path, run) /\ v = Write(v.path, run)
        BY <2>1, <4>1, LogWrites DEF Writes
      <4> QED BY <4>2
    <3> QED BY <3>1, <3>2 DEF ListsOf
  <2>2. CASE w = l.seal /\ v = l.seal
    BY <2>2
  <2>3. CASE w \in l.files /\ v = l.seal
    BY <2>3, FilesApart
  <2>4. CASE w = l.seal /\ v \in l.files
    BY <2>4, FilesApart
  <2> QED BY <1>1, <2>1, <2>2, <2>3, <2>4 DEF Writes
<1> QED BY <1>1, <1>2

LEMMA OtherKinds ==
    ASSUME NEW e \in Others
    PROVE  /\ e.path \in OtherPaths
           /\ e \in RowWrites => /\ e.path = RowPath(e.content.cycle) /\ e.content \in Captures
                                 /\ e.path \notin {Temp, Collected} /\ e \notin TempWrites /\ e # Swap
           /\ e \in TempWrites => e.path = Temp /\ e.content \in Memories /\ e # Swap
           /\ e = Swap => e.path = Collected
<1>1. CASE e \in RowWrites
  <2>1. PICK capture \in Captures : e = Write(RowPath(capture.cycle), capture)
    BY <1>1 DEF RowWrites
  <2>2. e.path = RowPath(capture.cycle) /\ e.content = capture /\ capture.cycle \in Cycles
    BY <2>1 DEF Write, Captures
  <2>3. e.path[1] = "row" /\ Collected[1] # "row" /\ Temp[1] # "row"
    BY <2>2, SinglePaths
  <2>4. e \notin TempWrites /\ e # Swap
    BY <2>3 DEF TempWrites, Write, Swap
  <2> QED BY <2>2, <2>3, <2>4 DEF OtherPaths
<1>2. CASE e \in TempWrites
  <2>1. e.path = Temp /\ e.content \in Memories
    BY <1>2 DEF TempWrites, Write
  <2>2. e # Swap /\ e \notin RowWrites
    BY <2>1, SinglePaths DEF Swap, RowWrites, Write
  <2> QED BY <2>1, <2>2 DEF OtherPaths
<1>3. CASE e = Swap
  <2>1. e.path = Collected
    BY <1>3 DEF Swap
  <2>2. e \notin RowWrites /\ e \notin TempWrites
    BY <2>1, SinglePaths DEF RowWrites, TempWrites, Write
  <2> QED BY <2>1, <2>2 DEF OtherPaths
<1> QED BY <1>1, <1>2, <1>3 DEF Others

\* The files of a list are not those of what is stored.
LEMMA ListsApart ==
    ASSUME NEW tk, NEW n \in Nat, TakenAs(tk, n), NEW l \in ListsOf(tk, n), NEW w \in Writes(l)
    PROVE  w.path \notin OtherPaths /\ w \notin Others
<1>1. w.path[1] \in {"captures", "comms"}
  <2>1. CASE \E dir \in DOMAIN tk : l = CaptureList(tk[dir])
    BY <2>1, CaptureWrites DEF TakenAs
  <2>2. CASE \E run \in 1..n : l = LogList(run)
    BY <2>2, LogWrites
  <2> QED BY <2>1, <2>2 DEF ListsOf
<1>2. w.path \notin OtherPaths
  BY <1>1, SinglePaths DEF OtherPaths
<1> QED BY <1>2, OtherKinds

-----------------------------------------------------------------------------
(* Helpers for the steps *)

LEMMA Shortened ==
    ASSUME NEW S, NEW s \in Seq(S), s # <<>>
    PROVE  /\ Head(s) = s[1] /\ 1 \in DOMAIN s /\ Tail(s) \in Seq(S)
           /\ DOMAIN s = 1..Len(s) /\ DOMAIN Tail(s) = 1..(Len(s) - 1) /\ Len(s) \in Nat
           /\ \A i \in DOMAIN Tail(s) : i + 1 \in DOMAIN s /\ Tail(s)[i] = s[i + 1] /\ i \in Nat /\ i >= 1
           /\ Tail(s) # <<>> => Last(Tail(s)) = Last(s)
<1>1. Len(s) \in Nat /\ Len(s) # 0 /\ DOMAIN s = 1..Len(s)
  OBVIOUS
<1>2. Tail(s) \in Seq(S) /\ Len(Tail(s)) = Len(s) - 1 /\ DOMAIN Tail(s) = 1..(Len(s) - 1)
  BY <1>1
<1>3. \A i \in 1..(Len(s) - 1) : Tail(s)[i] = s[i + 1]
  BY <1>1
<1>4. Tail(s) # <<>> => Last(Tail(s)) = Last(s)
  <2> SUFFICES ASSUME Tail(s) # <<>> PROVE Tail(s)[Len(Tail(s))] = s[Len(s)]
    BY DEF Last
  <2>1. Len(Tail(s)) # 0
    BY <1>2
  <2>2. Len(s) - 1 \in 1..(Len(s) - 1) /\ (Len(s) - 1) + 1 = Len(s)
    BY <2>1, <1>1, <1>2
  <2> QED BY <2>2, <1>2, <1>3
<1> QED BY <1>1, <1>2, <1>3, <1>4

\* What is true of the captures that are kept goes on being true.
Grows ==
    /\ runs'[Bridge] >= runs[Bridge]
    /\ \A run \in 1..runs[Bridge] : save'[run] = save[run]
    /\ \A dir \in DOMAIN taken :
          /\ dir \in DOMAIN taken' /\ taken'[dir] = taken[dir]
          /\ LET seal == CaptureList(taken[dir]).seal
             IN  seal.path \in DOMAIN disk /\ disk[seal.path] = Full(seal)
                    => seal.path \in DOMAIN disk' /\ disk'[seal.path] = Full(seal)

\* A capture that is kept stays so.
LEMMA KeptGoesOn ==
    ASSUME Types, Types', Grows, NEW c, NEW run, Kept(c, run)
    PROVE  Kept(c, run)'
<1>0. Bridge # Tool /\ Bridge \in Procs
  BY FilesAssumption DEF Procs
<1>1. run \in 1..runs[Bridge] /\ run \in 1..runs'[Bridge]
  BY <1>0 DEF Kept, KeptBefore, Grows, Types
<1>2. ASSUME save'[run] >= SAVE_CAPTURE
      PROVE  /\ CaptureDir(c, run) \in DOMAIN taken'
             /\ Done(SealOf(c, run))'
  <2>1. save[run] >= SAVE_CAPTURE
    BY <1>1, <1>2 DEF Grows
  <2>2. CaptureDir(c, run) \in DOMAIN taken /\ Done(SealOf(c, run))
    BY <2>1, <1>0 DEF Kept, KeptBefore
  <2> DEFINE dir == CaptureDir(c, run)
             seal == CaptureList(taken[dir]).seal
  <2>3. dir \in DOMAIN taken' /\ taken'[dir] = taken[dir]
    BY <2>2 DEF Grows
  <2>4. seal.path \in DOMAIN disk' /\ disk'[seal.path] = Full(seal)
    BY <2>2 DEF Grows, Done, SealOf, Exists
  <2> QED BY <2>3, <2>4 DEF Done, SealOf, Exists
<1> QED BY <1>1, <1>2 DEF Kept, KeptBefore

LEMMA MemoryGoesOn ==
    ASSUME Types, Types', Grows, NEW cycles, MemoryKept(cycles)
    PROVE  MemoryKept(cycles)'
<1>1. \A c \in Cycles : cycles[c] # None => Kept(c, cycles[c])'
  BY KeptGoesOn DEF MemoryKept
<1> QED BY <1>1 DEF MemoryKept

LEMMA DiskKeptGoesOn ==
    ASSUME Types, Types', Grows, DiskKept,
           \A path \in OtherPaths : path \in DOMAIN disk' /\ disk'[path].whole =>
              Loads(path) /\ disk'[path].content = disk[path].content
    PROVE  DiskKept'
<1>1. \A cycles : MemoryKept(cycles) => MemoryKept(cycles)'
  BY MemoryGoesOn
<1>2. \A c, run : Kept(c, run) => Kept(c, run)'
  BY KeptGoesOn
<1>3. ASSUME NEW path \in OtherPaths, Loads(path)'
      PROVE  Loads(path) /\ disk'[path].content = disk[path].content
  BY <1>3 DEF Loads, Exists
<1>4. ASSUME NEW c \in Cycles, Loads(RowPath(c))'
      PROVE  /\ disk'[RowPath(c)].content \in Captures
             /\ Kept(c, disk[RowPath(c)].content.run)'
  <2>1. RowPath(c) \in OtherPaths
    BY DEF OtherPaths
  <2>2. Loads(RowPath(c)) /\ disk'[RowPath(c)].content = disk[RowPath(c)].content
    BY <1>3, <1>4, <2>1
  <2>3. disk[RowPath(c)].content \in Captures /\ Kept(c, disk[RowPath(c)].content.run)
    BY <2>2 DEF DiskKept
  <2>4. \A run : run = disk[RowPath(c)].content.run => Kept(c, run)'
    BY <1>2, <2>3
  <2> QED BY <2>2, <2>3, <2>4
<1>5. ASSUME NEW path \in {Temp, Collected}, Loads(path)' PROVE MemoryKept(disk[path].content)'
  <2>1. Loads(path) /\ disk'[path].content = disk[path].content
    BY <1>3, <1>5 DEF OtherPaths
  <2>2. MemoryKept(disk[path].content)
    BY <2>1 DEF DiskKept
  <2>3. \A cycles : cycles = disk[path].content => MemoryKept(cycles)'
    BY <1>1, <2>2
  <2> QED BY <2>1, <2>3
<1> QED BY <1>3, <1>4, <1>5 DEF DiskKept

\* To be kept before is to be kept, or to be after its list.
LEMMA KeptOrBefore ==
    ASSUME NEW p, NEW i, NEW c, NEW run
    PROVE  KeptBefore(p, i, c, run) <=>
              \/ Kept(c, run)
              \/ /\ run \in 1..runs[Bridge] /\ CaptureDir(c, run) \in DOMAIN taken
                 /\ p = Bridge /\ \E j \in 1..i : todo[Bridge][j] = SealOf(c, run)
BY FilesAssumption DEF Kept, KeptBefore

LEMMA KeptIsBefore ==
    ASSUME Types, Types', Grows, NEW c, NEW run, Kept(c, run)
    PROVE  \A p, i : KeptBefore(p, i, c, run)'
<1>1. Kept(c, run)'
  BY KeptGoesOn
<1>2. Bridge # Tool
  BY FilesAssumption
<1> QED BY <1>1, <1>2 DEF Kept, KeptBefore

LEMMA OfToolGoesOn ==
    ASSUME Types, Types', Grows, NEW i, NEW c, NEW run, KeptBefore(Tool, i, c, run)
    PROVE  KeptBefore(Tool, i, c, run)'
<1>1. Kept(c, run)
  BY FilesAssumption, KeptOrBefore
<1> QED BY <1>1, KeptIsBefore

-----------------------------------------------------------------------------
(* The process ends a run, fails or dies *)

\* What is written of a run that ends is its comms log or nothing.
LEMMA LeaveInv ==
    ASSUME Inv, NEW p \in Procs, NEW rest, Leave(p, rest),
           \/ rest = <<>>
           \/ p = Bridge /\ Running(Bridge) /\ rest = WriteLog(runs[Bridge])
    PROVE  Inv'
<1> USE DEF Inv
<1> DEFINE log == LogList(runs[Bridge])
<1>0. Bridge # Tool /\ Bridge \in Procs /\ Tool \in Procs /\ Procs = {Bridge, Tool}
  BY FilesAssumption DEF Procs
<1>1. /\ disk' = disk /\ runs' = runs /\ save' = save /\ taken' = taken /\ shared' = shared
      /\ Lists' = Lists /\ ListWrites' = ListWrites
  BY DEF Leave, Lists, ListWrites
<1>2. /\ DOMAIN open' = Procs /\ open'[p] = None /\ \A q \in Procs \ {p} : open'[q] = open[q]
      /\ DOMAIN todo' = Procs /\ todo'[p] = rest /\ \A q \in Procs \ {p} : todo'[q] = todo[q]
      /\ memory' \in [Procs -> Memories \union {None}]
      /\ memory'[p] = None /\ \A q \in Procs \ {p} : memory'[q] = memory[q]
  BY DEF Leave, Types, Entries
<1>3. runs[Bridge] \in Nat /\ TakenAs(taken, runs[Bridge])
  BY <1>0 DEF Types
<1>4. rest # <<>> => /\ p = Bridge /\ Running(Bridge) /\ Seals(rest, log)
                     /\ log \in Lists /\ ~Exists(log.seal.path) /\ runs[Bridge] >= 1
  <2> SUFFICES ASSUME rest # <<>>
               PROVE  /\ p = Bridge /\ Running(Bridge) /\ Seals(rest, log)
                      /\ log \in Lists /\ ~Exists(log.seal.path) /\ runs[Bridge] >= 1
    OBVIOUS
  <2>1. p = Bridge /\ Running(Bridge) /\ rest = WriteLog(runs[Bridge])
    OBVIOUS
  <2>2. runs[Bridge] >= 1 /\ ~Exists(log.seal.path)
    BY <2>1 DEF Phases
  <2>3. log \in Lists
    BY <2>2, <1>3 DEF Lists, ListsOf
  <2> QED BY <2>1, <2>2, <2>3, <1>3, WriteLogSeals
<1>5. \A i \in DOMAIN rest : rest[i] \in Writes(log) /\ rest[i] \notin Others
  <2> SUFFICES ASSUME rest # <<>> PROVE \A i \in DOMAIN rest : rest[i] \in Writes(log) /\ rest[i] \notin Others
    OBVIOUS
  <2>1. rest \in Seq(Writes(log))
    BY <1>4 DEF Seals
  <2>2. \A w \in Writes(log) : w \notin Others
    BY <1>3, <1>4, ListsApart DEF Lists
  <2> QED BY <2>1, <2>2
<1>6. Entries'
  <2>1. CASE p = Tool
    <3>1. rest = <<>>
      BY <2>1, <1>0
    <3> QED BY <2>1, <3>1, <1>0, <1>1, <1>2 DEF Entries
  <2>2. CASE p = Bridge
    <3>1. rest \in Seq(ListWrites \union Others)
      <4>1. CASE rest = <<>>
        BY <4>1
      <4>2. CASE rest # <<>>
        <5>1. Writes(log) \subseteq ListWrites \union Others
          BY <4>2, <1>4 DEF ListWrites
        <5>2. rest \in Seq(Writes(log))
          BY <4>2, <1>4 DEF Seals
        <5> QED BY <5>1, <5>2, SeqSubset
      <4> QED BY <4>1, <4>2
    <3> QED BY <2>2, <3>1, <1>0, <1>1, <1>2 DEF Entries
  <2> QED BY <2>1, <2>2, <1>0
<1>7. Types'
  BY <1>1, <1>2 DEF Types
<1>8. Opened'
  BY <1>1, <1>2 DEF Opened, Busy, Now, Exists
<1>9. ListsOrdered'
  <2> SUFFICES ASSUME NEW l \in Lists PROVE Ordered(l)'
    BY <1>1 DEF ListsOrdered
  <2>1. Ordered(l)
    BY DEF ListsOrdered
  <2>2. CASE p = Tool
    <3>1. open'[Bridge] = open[Bridge] /\ todo'[Bridge] = todo[Bridge]
      BY <2>2, <1>0, <1>2
    <3> QED BY <2>1, <3>1, <1>1 DEF Ordered, Exists, Done, Now
  <2>3. CASE p = Bridge
    <3>1. open'[Bridge] = None /\ todo'[Bridge] = rest
      BY <2>3, <1>2
    <3>2. CASE rest = <<>>
      BY <2>1, <3>1, <3>2, <1>1 DEF Ordered, Exists, Done
    <3>3. CASE rest # <<>> /\ l = log
      <4>1. rest \in Seq(Writes(log)) /\ Len(rest) \in Nat /\ DOMAIN rest = 1..Len(rest)
        BY <3>3, <1>4 DEF Seals
      <4>2. \A i \in DOMAIN rest : rest[i] = log.seal => i = Len(rest)
        <5>1. \A w \in log.files : w # log.seal
          BY <1>3, <1>4, <3>3, FilesApart DEF Lists
        <5> QED BY <5>1, <4>1, <3>3, <1>4 DEF Seals
      <4>3. \A w \in l.files : \E j \in 1..(Len(rest) - 1) : rest[j] = w
        BY <3>3, <1>4 DEF Seals
      <4>4. ~Exists(l.seal.path)'
        BY <3>3, <1>4, <1>1 DEF Exists
      <4>5. \A i, j \in DOMAIN rest : rest[i] = l.seal => ~(j > i)
        BY <4>1, <4>2, <3>3
      <4>6. \A i \in DOMAIN rest : rest[i] = l.seal => \A w \in l.files : \E j \in 1..(i - 1) : rest[j] = w
        BY <4>2, <4>3, <3>3
      <4> QED BY <4>4, <4>5, <4>6, <3>1 DEF Ordered
    <3>4. CASE rest # <<>> /\ l # log
      <4>1. \A w \in Writes(log) : w \notin Writes(l)
        BY <3>4, <1>3, <1>4, OneWrite DEF Lists
      <4>2. \A i \in DOMAIN rest : rest[i] \notin Writes(l)
        BY <4>1, <1>5
      <4>3. \A i \in DOMAIN rest : rest[i] \notin l.files /\ rest[i] # l.seal
        BY <4>2 DEF Writes
      <4> QED BY <2>1, <4>3, <3>1, <1>1 DEF Ordered, Exists, Done
    <3> QED BY <3>2, <3>3, <3>4
  <2> QED BY <2>2, <2>3, <1>0
<1>10. Phases'
  <2>1. CASE p = Tool
    <3>1. memory'[Bridge] = memory[Bridge] /\ todo'[Bridge] = todo[Bridge]
      BY <2>1, <1>0, <1>2
    <3> QED BY <3>1, <1>1 DEF Phases, Running, Busy, Exists
  <2>2. CASE p = Bridge
    <3>1. ~Running(Bridge)' /\ todo'[Bridge] = rest
      BY <2>2, <1>2 DEF Running
    <3>2. rest # <<>> => Last(rest) = log.seal
      BY <1>4 DEF Seals, Last
    <3> QED BY <3>1, <3>2, <1>1, <1>4, <1>5 DEF Phases, Busy
  <2> QED BY <2>1, <2>2, <1>0
<1>11. Stored'
  <2>1. Grows
    BY <1>1, <1>3 DEF Grows
  <2>2. \A q \in Procs : memory'[q] # None => memory'[q] = memory[q] /\ MemoryKept(memory[q])
    BY <1>2 DEF Stored, MemoriesKept
  <2>3. MemoriesKept'
    <3>1. \A q \in Procs : memory'[q] # None => MemoryKept(memory[q])'
      BY <2>2, <2>1, <1>7, MemoryGoesOn
    <3> QED BY <2>2, <3>1 DEF MemoriesKept
  <2>4. DiskKept'
    BY <1>1, <1>7, <2>1, DiskKeptGoesOn DEF Stored, Loads, Exists
  <2>6. ASSUME NEW q \in Procs, NEW i \in DOMAIN todo'[q], NEW w, w = todo'[q][i]
        PROVE  /\ w \in RowWrites => KeptBefore(q, i - 1, w.content.cycle, w.content.run)'
               /\ w \in TempWrites => \A c \in Cycles : w.content[c] # None =>
                                        KeptBefore(q, i - 1, c, w.content[c])'
    <3>1. CASE q = p
      <4>1. w \notin Others
        BY <2>6, <3>1, <1>2, <1>5
      <4> QED BY <4>1 DEF Others
    <3>2. CASE q # p
      <4>1. todo'[q] = todo[q]
        BY <3>2, <1>2
      <4>2. \A c, run : KeptBefore(q, i - 1, c, run) => KeptBefore(q, i - 1, c, run)'
        <5>1. CASE q = Tool
          BY <5>1, <1>0, <1>1 DEF KeptBefore, Done, Exists, SealOf
        <5>2. CASE q = Bridge
          <6>1. todo'[Bridge] = todo[Bridge]
            BY <5>2, <4>1
          <6> QED BY <5>2, <6>1, <1>1 DEF KeptBefore, Done, Exists, SealOf
        <5> QED BY <5>1, <5>2, <1>0
      <4>3. /\ w \in RowWrites => KeptBefore(q, i - 1, w.content.cycle, w.content.run)
            /\ w \in TempWrites => \A c \in Cycles : w.content[c] # None =>
                                        KeptBefore(q, i - 1, c, w.content[c])
        BY <4>1, <2>6 DEF Stored, WritesKept
      <4> QED BY <4>2, <4>3
    <3> QED BY <3>1, <3>2
  <2> QED BY <2>3, <2>4, <2>6 DEF Stored, WritesKept
<1>12. Swaps'
  <2>1. \A q \in Procs : \A i \in DOMAIN todo'[q] :
           todo'[q][i] = Swap /\ i > 1 => todo'[q][i - 1].path = Temp
    BY <1>2, <1>5 DEF Swaps, Others
  <2>2. \A q \in Procs : HasTemp(q)' => q # p /\ HasTemp(q)
    <3>1. ~HasTemp(p)'
      <4>1. rest # <<>> => Head(rest) # Swap
        <5>1. rest # <<>> => 1 \in DOMAIN rest /\ Head(rest) = rest[1]
          BY <1>4, Shortened DEF Seals
        <5> QED BY <5>1, <1>5 DEF Others
      <4>2. open'[p] # Temp
        <5>1. open'[p] = None
          BY <1>2
        <5> QED BY <5>1, NoneAssumption
      <4> QED BY <4>1, <4>2, <1>2 DEF HasTemp, Busy, Now
    <3> QED BY <3>1, <1>2 DEF HasTemp, Busy, Now
  <2>3. \A q \in Procs : open'[q] # None => open'[q] = open[q]
    BY <1>2
  <2>4. \A q \in Procs : Busy(q)' /\ Now(q)' = Swap => HasTemp(q)'
    BY DEF HasTemp
  <2>5. ASSUME ~shared', NEW q \in Procs
        PROVE  /\ open'[q] # Collected
               /\ HasTemp(q)' /\ Now(q)' = Swap => Exists(Temp)' /\ disk'[Temp].whole
               /\ open'[q] = Temp => disk'[Temp] = Torn
    <3>1. open'[q] # Collected
      BY <1>1, <2>3, <2>5, NoneAssumption DEF Swaps
    <3>2. open'[q] = Temp => disk'[Temp] = Torn
      BY <1>1, <2>3, <2>5, NoneAssumption DEF Swaps
    <3>3. ASSUME HasTemp(q)', Now(q)' = Swap PROVE Exists(Temp)' /\ disk'[Temp].whole
      <4>1. todo'[q] = todo[q] /\ HasTemp(q)
        BY <2>2, <3>3, <1>2
      <4> QED BY <4>1, <3>3, <2>5, <1>1 DEF Swaps, HasTemp, Now, Exists
    <3> QED BY <3>1, <3>2, <3>3
  <2>6. ~shared' => /\ \A q, r \in Procs : HasTemp(q)' /\ HasTemp(r)' => q = r
                    /\ Exists(Collected)' => disk'[Collected].whole
    BY <2>2, <1>1 DEF Swaps, Exists
  <2> QED BY <2>1, <2>4, <2>5, <2>6 DEF Swaps
<1> QED BY <1>6, <1>7, <1>8, <1>9, <1>10, <1>11, <1>12

-----------------------------------------------------------------------------
(* A run begins *)

LEMMA MoreLists ==
    ASSUME NEW tk, NEW n \in Nat, NEW tk2, NEW n2 \in Nat, n2 >= n,
           \A dir \in DOMAIN tk : dir \in DOMAIN tk2 /\ tk2[dir] = tk[dir]
    PROVE  ListsOf(tk, n) \subseteq ListsOf(tk2, n2)
BY DEF ListsOf

\* Nothing is on disk of a list that there was not before.
LEMMA NothingOfNew ==
    ASSUME Types, Types', ListsOf(taken, runs[Bridge]) \subseteq ListsOf(taken', runs'[Bridge]),
           NEW l \in ListsOf(taken', runs'[Bridge]), l \notin Lists, NEW w \in Writes(l)
    PROVE  ~Exists(w.path)
<1>0. runs'[Bridge] \in Nat /\ TakenAs(taken', runs'[Bridge])
  BY FilesAssumption DEF Types, Procs
<1> SUFFICES ASSUME w.path \in DOMAIN disk PROVE FALSE
  BY DEF Exists
<1>1. w.path \notin OtherPaths
  BY <1>0, ListsApart
<1>2. PICK v \in ListWrites : v.path = w.path
  BY <1>1 DEF Types
<1>3. PICK m \in Lists : v \in Writes(m)
  BY DEF ListWrites
<1>4. m \in ListsOf(taken', runs'[Bridge])
  BY <1>3 DEF Lists
<1>5. m = l
  BY <1>0, <1>2, <1>3, <1>4, OneWrite
<1> QED BY <1>3, <1>5

LEMMA NewLog ==
    ASSUME NEW tk, NEW n \in Nat, TakenAs(tk, n)
    PROVE  LogList(n + 1) \notin ListsOf(tk, n)
<1> DEFINE log == LogList(n + 1)
<1>1. log.seal.path[1] = "comms" /\ log.seal.path[2] = n + 1
  <2>1. log.seal \in Writes(log) /\ n + 1 \in Nat
    BY DEF Writes
  <2> HIDE DEF log
  <2> QED BY <2>1, LogWrites DEF log
<1>2. \A dir \in DOMAIN tk : CaptureList(tk[dir]).seal.path[1] = "captures"
  <2>1. \A dir \in DOMAIN tk : CaptureList(tk[dir]).seal \in Writes(CaptureList(tk[dir]))
    BY DEF Writes
  <2> QED BY <2>1, CaptureWrites DEF TakenAs
<1>3. \A run \in 1..n : LogList(run).seal.path[2] = run
  <2>1. \A run : LogList(run).seal \in Writes(LogList(run))
    BY DEF Writes
  <2> QED BY <2>1, LogWrites
<1> QED BY <1>1, <1>2, <1>3 DEF ListsOf

LEMMA NewCapture ==
    ASSUME NEW tk, NEW n \in Nat, TakenAs(tk, n), NEW capture \in Captures,
           CaptureDir(capture.cycle, capture.run) \notin DOMAIN tk
    PROVE  CaptureList(capture) \notin ListsOf(tk, n)
<1> DEFINE new == CaptureList(capture)
<1>1. \A cap \in Captures : LET path == CaptureList(cap).seal.path
                            IN  path[1] = "captures" /\ path[2] = cap.cycle /\ path[3] = cap.run
  <2>1. \A cap \in Captures : CaptureList(cap).seal \in Writes(CaptureList(cap))
    BY DEF Writes
  <2> QED BY <2>1, CaptureWrites
<1>2. \A run \in 1..n : LogList(run).seal.path[1] = "comms"
  <2>1. \A run : LogList(run).seal \in Writes(LogList(run))
    BY DEF Writes
  <2> QED BY <2>1, LogWrites
<1>3. ASSUME NEW dir \in DOMAIN tk, new = CaptureList(tk[dir]) PROVE FALSE
  <2>1. tk[dir] \in Captures /\ dir = CaptureDir(tk[dir].cycle, tk[dir].run)
    BY DEF TakenAs
  <2>2. tk[dir].cycle = capture.cycle /\ tk[dir].run = capture.run
    BY <2>1, <1>1, <1>3
  <2> QED BY <2>1, <2>2
<1>4. ASSUME NEW run \in 1..n, new = LogList(run) PROVE FALSE
  BY <1>1, <1>2, <1>4
<1> QED BY <1>3, <1>4 DEF ListsOf

LEMMA LoadedIsKept ==
    ASSUME Types, DiskKept, Loadable
    PROVE  MemoryKept(LoadCollected) /\ LoadCollected # None
<1>1. CASE Exists(Collected)
  <2>1. MemoryKept(disk[Collected].content)
    BY <1>1 DEF DiskKept, Loadable
  <2>2. disk[Collected].content # None
    BY <2>1, NoneAssumption DEF MemoryKept, Memories
  <2> QED BY <2>1, <2>2, <1>1 DEF LoadCollected
<1>2. CASE ~Exists(Collected)
  <2>1. NothingYet \in Memories /\ NothingYet # None /\ \A c \in Cycles : NothingYet[c] = None
    BY NoneAssumption DEF NothingYet, Memories
  <2> QED BY <2>1, <1>2 DEF LoadCollected, MemoryKept
<1> QED BY <1>1, <1>2

\* What a run of the bridge starts from is what the memory file holds.
LEMMA StartRunInv ==
    ASSUME Inv, NEW s \in Saves, StartRun(s)
    PROVE  Inv'
<1> USE DEF Inv
<1> DEFINE r == runs[Bridge]
           log == LogList(r + 1)
<1>0. Bridge # Tool /\ Bridge \in Procs /\ Tool \in Procs /\ Procs = {Bridge, Tool} /\ r \in Nat
  BY FilesAssumption DEF Procs, Types
<1>1. /\ disk' = disk /\ open' = open /\ todo' = todo /\ taken' = taken /\ shared' = shared
      /\ todo[Bridge] = <<>> /\ ~Running(Bridge)
  BY DEF StartRun, work
<1>2. runs' \in [Procs -> Nat] /\ runs'[Bridge] = r + 1 /\ \A p \in Procs : runs'[p] <= MaxRuns[p]
  <2>1. runs' = [runs EXCEPT ![Bridge] = runs[Bridge] + 1] /\ r < MaxRuns[Bridge]
    BY DEF StartRun
  <2>2. MaxRuns[Bridge] \in Nat /\ r + 1 \in Nat
    BY <1>0, FilesAssumption
  <2>3. r + 1 <= MaxRuns[Bridge]
    BY <2>1, <2>2, <1>0
  <2> QED BY <1>0, <2>1, <2>2, <2>3 DEF Types
<1>3. save' \in Seq(0..2) /\ Len(save') = r + 1 /\ \A run \in 1..r : save'[run] = save[run]
  <2>1. save \in Seq(0..2) /\ Len(save) = r /\ s \in 0..2 /\ save' = Append(save, s)
    BY FilesAssumption DEF Types, StartRun
  <2> QED BY <2>1
<1>4. MemoryKept(LoadCollected) /\ LoadCollected # None
  BY LoadedIsKept DEF StartRun, Stored
<1>5. /\ memory' \in [Procs -> Memories \union {None}]
      /\ memory'[Bridge] = LoadCollected /\ memory'[Tool] = memory[Tool]
  <2>1. memory' = [memory EXCEPT ![Bridge] = LoadCollected]
    BY DEF StartRun
  <2>2. LoadCollected \in Memories
    BY <1>4 DEF MemoryKept
  <2> QED BY <2>1, <2>2, <1>0 DEF Types
<1>6. ListsOf(taken, r) \subseteq ListsOf(taken', runs'[Bridge]) /\ Lists \subseteq Lists'
      /\ ListWrites \subseteq ListWrites'
  <2>1. ListsOf(taken, r) \subseteq ListsOf(taken', runs'[Bridge])
    BY <1>0, <1>1, <1>2, MoreLists
  <2> QED BY <2>1 DEF Lists, ListWrites
<1>7. Entries'
  <2>1. todo'[Bridge] \in Seq((ListWrites \union Others)')
    BY <1>1
  <2> QED BY <2>1, <1>1 DEF Entries
<1>8. Types'
  <2>1. TakenAs(taken', runs'[Bridge])
    BY <1>0, <1>1, <1>2 DEF Types, TakenAs
  <2>2. DOMAIN disk' \subseteq {w.path : w \in ListWrites'} \union OtherPaths
    BY <1>1, <1>6 DEF Types
  <2> QED BY <1>1, <1>2, <1>3, <1>5, <2>1, <2>2 DEF Types
<1>9. Opened'
  BY <1>1 DEF Opened, Busy, Now, Exists
<1>10. open[Bridge] = None
  BY <1>0, <1>1 DEF Opened, Busy
<1>11. Lists' = Lists \union {log} /\ log \notin Lists
  <2>1. log \notin Lists
    BY <1>0, NewLog DEF Lists, Types
  <2>2. 1..(r + 1) = 1..r \union {r + 1}
    BY <1>0
  <2> QED BY <2>1, <2>2, <1>1, <1>2 DEF Lists, ListsOf
<1>12. ~Exists(log.seal.path)
  <2>1. log.seal \in Writes(log) /\ log \in ListsOf(taken', runs'[Bridge])
    BY <1>11 DEF Writes, Lists
  <2> QED BY <2>1, <1>6, <1>8, <1>11, NothingOfNew
<1>13. ListsOrdered'
  <2> SUFFICES ASSUME NEW l \in Lists' PROVE Ordered(l)'
    BY DEF ListsOrdered
  <2>1. CASE l \in Lists
    <3>1. Ordered(l)
      BY <2>1 DEF ListsOrdered
    <3> QED BY <3>1, <1>1 DEF Ordered, Exists, Done, Now
  <2>2. CASE l = log
    BY <2>2, <1>1, <1>10, <1>12 DEF Ordered, Exists
  <2> QED BY <2>1, <2>2, <1>11
<1>14. Phases'
  <2>1. Running(Bridge)'
    BY <1>4, <1>5 DEF Running
  <2>2. runs'[Bridge] >= 1 /\ LogList(runs[Bridge])' = log
    BY <1>0, <1>2
  <2> QED BY <2>1, <2>2, <1>1, <1>12 DEF Phases, Exists
<1>15. Grows
  BY <1>0, <1>1, <1>2, <1>3 DEF Grows
<1>16. Stored'
  <2>1. MemoriesKept'
    <3>1. \A cycles : MemoryKept(cycles) => MemoryKept(cycles)'
      BY <1>8, <1>15, MemoryGoesOn
    <3>2. memory'[Tool] # None => MemoryKept(memory[Tool])'
      BY <3>1, <1>0, <1>5 DEF Stored, MemoriesKept
    <3>3. \A cycles : cycles = LoadCollected => MemoryKept(cycles)'
      BY <3>1, <1>4
    <3>4. MemoryKept(memory[Bridge])'
      BY <3>3, <1>5
    <3> QED BY <3>2, <3>4, <1>0 DEF MemoriesKept
  <2>2. DiskKept'
    BY <1>1, <1>8, <1>15, DiskKeptGoesOn DEF Stored, Loads, Exists
  <2>3. WritesKept'
    <3>1. \A i, c, run : KeptBefore(Tool, i, c, run) => KeptBefore(Tool, i, c, run)'
      BY <1>8, <1>15, OfToolGoesOn
    <3> QED BY <3>1, <1>0, <1>1 DEF Stored, WritesKept
  <2> QED BY <2>1, <2>2, <2>3 DEF Stored
<1>17. Swaps'
  BY <1>1 DEF Swaps, HasTemp, Busy, Now, Exists
<1> QED BY <1>7, <1>8, <1>9, <1>13, <1>14, <1>16, <1>17

-----------------------------------------------------------------------------
(* A cycle is rendered again, or collected *)

\* The row, and the memory by way of its temporary file.
IsStored(stored, cycles, capture) ==
    \/ stored = <<>>
    \/ \E m \in Memories :
          /\ m = [cycles EXCEPT ![capture.cycle] = capture.run]
          /\ stored = <<Write(RowPath(capture.cycle), capture), Write(Temp, m), Swap>>

LEMMA RenderStores ==
    ASSUME NEW cycles \in Memories, NEW capture \in Captures,
           NEW stored \in RenderCapture(cycles, capture)
    PROVE  IsStored(stored, cycles, capture)
<1> DEFINE m == [cycles EXCEPT ![capture.cycle] = capture.run]
<1>1. m \in Memories
  BY DEF Memories, Captures
<1> HIDE DEF m
<1>2. CASE stored # <<>>
  <2>1. stored = <<Write(RowPath(capture.cycle), capture)>> \o <<Write(Temp, m), Swap>>
    BY <1>2 DEF RenderCapture, SetCollected, m
  <2>2. stored = <<Write(RowPath(capture.cycle), capture), Write(Temp, m), Swap>>
    BY <2>1, OneAndTwo, Zenon
  <2> QED BY <2>2, <1>1 DEF IsStored, m
<1> QED BY <1>2 DEF IsStored

\* What it writes, and in which order.
LEMMA StoredWrites ==
    ASSUME NEW cycles \in Memories, NEW capture \in Captures, NEW stored,
           IsStored(stored, cycles, capture)
    PROVE  /\ stored \in Seq(Others) /\ DOMAIN stored \subseteq 1..3
           /\ \A i \in DOMAIN stored :
                 /\ stored[i] \in RowWrites => i = 1 /\ stored[i].content = capture
                 /\ stored[i] \in TempWrites =>
                       \A c \in Cycles : stored[i].content[c] = IF c = capture.cycle THEN capture.run
                                                                ELSE cycles[c]
                 /\ stored[i] = Swap => i = 3 /\ 2 \in DOMAIN stored /\ stored[2].path = Temp
<1>1. CASE stored = <<>>
  BY <1>1
<1>2. CASE stored # <<>>
  <2>1. PICK m \in Memories :
          /\ m = [cycles EXCEPT ![capture.cycle] = capture.run]
          /\ stored = <<Write(RowPath(capture.cycle), capture), Write(Temp, m), Swap>>
    BY <1>2 DEF IsStored
  <2> DEFINE row == Write(RowPath(capture.cycle), capture)
             tmp == Write(Temp, m)
  <2>2. row \in RowWrites /\ tmp \in TempWrites
    BY DEF RowWrites, TempWrites
  <2>3. row.content = capture /\ tmp.content = m /\ tmp.path = Temp
    BY DEF Write
  <2> HIDE DEF row, tmp
  <2>4. row \in Others /\ tmp \in Others /\ Swap \in Others
    BY <2>2 DEF Others
  <2>5. row \notin TempWrites /\ row # Swap /\ tmp \notin RowWrites /\ tmp # Swap
        /\ Swap \notin RowWrites /\ Swap \notin TempWrites
    BY <2>2, <2>4, OtherKinds
  <2>6. stored = <<row, tmp, Swap>>
    BY <2>1 DEF row, tmp
  <2>7. stored \in Seq(Others) /\ DOMAIN stored = 1..3
        /\ stored[1] = row /\ stored[2] = tmp /\ stored[3] = Swap
    BY <2>4, <2>6
  <2>8. \A c \in Cycles : m[c] = IF c = capture.cycle THEN capture.run ELSE cycles[c]
    BY <2>1 DEF Memories, Captures
  <2>9. \A i \in 1..3 : i = 1 \/ i = 2 \/ i = 3
    OBVIOUS
  <2> QED BY <2>3, <2>5, <2>7, <2>8, <2>9
<1> QED BY <1>1, <1>2

\* A capture whose list can be read is the one taken, and all is there.
LEMMA ReadCapture ==
    ASSUME Inv, NEW dir \in DOMAIN taken, Loads(CaptureFile(dir))
    PROVE  /\ disk[CaptureFile(dir)].content = taken[dir]
           /\ \A w \in Writes(CaptureList(taken[dir])) : Done(w)
           /\ taken[dir] \in Captures /\ Kept(taken[dir].cycle, taken[dir].run)
<1> DEFINE l == CaptureList(taken[dir])
<1>1. /\ taken[dir] \in Captures /\ taken[dir].run \in 1..runs[Bridge]
      /\ dir = CaptureDir(taken[dir].cycle, taken[dir].run)
  BY DEF Inv, Types, TakenAs
<1>2. l.seal = Write(CaptureFile(dir), taken[dir])
  BY <1>1 DEF CaptureList
<1>3. l.seal.path = CaptureFile(dir) /\ l.seal.content = taken[dir]
  BY <1>2 DEF Write
<1>4. l \in Lists
  BY DEF Lists, ListsOf
<1>5. Exists(l.seal.path) /\ disk[l.seal.path].whole
  BY <1>3 DEF Loads
<1> HIDE DEF l
<1>6. (\A w \in l.files : Done(w)) /\ disk[l.seal.path] \in {Torn, Full(l.seal)}
  BY <1>4, <1>5 DEF Inv, ListsOrdered, Ordered
<1>7. disk[l.seal.path] = Full(l.seal)
  BY <1>5, <1>6 DEF Torn
<1>8. disk[CaptureFile(dir)].content = taken[dir]
  BY <1>3, <1>7 DEF Full
<1>9. \A w \in Writes(l) : Done(w)
  BY <1>5, <1>6, <1>7 DEF Writes, Done
<1>10. Kept(taken[dir].cycle, taken[dir].run)
  <2>1. Done(SealOf(taken[dir].cycle, taken[dir].run))
    BY <1>1, <1>5, <1>7 DEF SealOf, Done, l
  <2> QED BY <2>1, <1>1 DEF Kept, KeptBefore
<1> QED BY <1>1, <1>8, <1>9, <1>10 DEF l

\* render.py stores again what reads back.
LEMMA RerenderInv ==
    ASSUME Inv, NEW dir \in DOMAIN taken, Rerender(dir[2], dir[3])
    PROVE  Inv'
<1> USE DEF Inv
<1> DEFINE capture == taken[dir]
<1>0. Bridge # Tool /\ Bridge \in Procs /\ Tool \in Procs /\ Procs = {Bridge, Tool}
  BY FilesAssumption DEF Procs
<1>1. capture \in Captures /\ dir = CaptureDir(capture.cycle, capture.run)
  BY DEF Types, TakenAs
<1>2. dir[2] = capture.cycle /\ dir[3] = capture.run /\ CaptureDir(dir[2], dir[3]) = dir
  BY <1>1, CapturePaths
<1>3. Loads(CaptureFile(dir))
  BY <1>2 DEF Rerender, Reads
<1>4. disk[CaptureFile(dir)].content = capture /\ Kept(capture.cycle, capture.run)
  BY <1>3, ReadCapture
<1>5. MemoryKept(LoadCollected) /\ LoadCollected \in Memories
  BY LoadedIsKept DEF Rerender, Stored, MemoryKept
<1>6. ReadRaw(dir).listed = capture
  BY <1>4 DEF ReadRaw
<1>7. PICK stored \in RenderCapture(LoadCollected, capture) : todo' = [todo EXCEPT ![Tool] = stored]
  BY <1>2, <1>6 DEF Rerender
<1>8. IsStored(stored, LoadCollected, capture)
  BY <1>1, <1>5, <1>7, RenderStores
<1>9. /\ disk' = disk /\ open' = open /\ taken' = taken /\ shared' = shared /\ save' = save
      /\ ~Running(Tool) /\ todo[Tool] = <<>>
  BY DEF Rerender
<1>10. DOMAIN todo' = Procs /\ todo'[Bridge] = todo[Bridge] /\ todo'[Tool] = stored
  BY <1>0, <1>7 DEF Entries
<1>11. runs' \in [Procs -> Nat] /\ runs'[Bridge] = runs[Bridge] /\ \A p \in Procs : runs'[p] <= MaxRuns[p]
  <2>1. runs' = [runs EXCEPT ![Tool] = runs[Tool] + 1] /\ runs[Tool] < MaxRuns[Tool]
    BY DEF Rerender
  <2>2. MaxRuns[Tool] \in Nat /\ runs[Tool] \in Nat
    BY <1>0, FilesAssumption DEF Types
  <2>3. runs[Tool] + 1 <= MaxRuns[Tool] /\ runs[Tool] + 1 \in Nat
    BY <2>1, <2>2
  <2> QED BY <1>0, <2>1, <2>3 DEF Types
<1>12. /\ memory' \in [Procs -> Memories \union {None}]
       /\ memory'[Tool] = LoadCollected /\ memory'[Bridge] = memory[Bridge]
  <2>1. memory' = [memory EXCEPT ![Tool] = LoadCollected]
    BY DEF Rerender
  <2> QED BY <2>1, <1>5, <1>0 DEF Types
<1>13. Lists' = Lists /\ ListWrites' = ListWrites
  BY <1>9, <1>11 DEF Lists, ListWrites
<1>14. /\ stored \in Seq(Others) /\ DOMAIN stored \subseteq 1..3
       /\ \A i \in DOMAIN stored :
             /\ stored[i] \in RowWrites => i = 1 /\ stored[i].content = capture
             /\ stored[i] \in TempWrites =>
                   \A c \in Cycles : stored[i].content[c] = IF c = capture.cycle THEN capture.run
                                                            ELSE LoadCollected[c]
             /\ stored[i] = Swap => i = 3 /\ 2 \in DOMAIN stored /\ stored[2].path = Temp
  BY <1>1, <1>5, <1>8, StoredWrites
<1>15. Entries'
  BY <1>0, <1>10, <1>13, <1>14 DEF Entries
<1>16. Types'
  BY <1>9, <1>11, <1>12, <1>13 DEF Types
<1>17. open[Tool] = None
  BY <1>0, <1>9 DEF Opened, Busy
<1>18. Opened'
  BY <1>0, <1>9, <1>10, <1>17 DEF Opened, Busy, Now, Exists
<1>19. ListsOrdered'
  BY <1>9, <1>10, <1>13 DEF ListsOrdered, Ordered, Exists, Done, Now
<1>20. Phases'
  BY <1>9, <1>10, <1>11, <1>12 DEF Phases, Running, Busy, Exists
<1>21. Grows
  BY <1>9, <1>11, <1>16 DEF Grows, Types
<1>22. Stored'
  <2>1. MemoriesKept'
    <3>1. \A cycles : MemoryKept(cycles) => MemoryKept(cycles)'
      BY <1>16, <1>21, MemoryGoesOn
    <3>2. memory'[Bridge] # None => MemoryKept(memory[Bridge])'
      BY <3>1, <1>0, <1>12 DEF Stored, MemoriesKept
    <3>3. \A cycles : cycles = LoadCollected => MemoryKept(cycles)'
      BY <3>1, <1>5
    <3>4. MemoryKept(memory[Tool])'
      BY <3>3, <1>12
    <3> QED BY <3>2, <3>4, <1>0 DEF MemoriesKept
  <2>2. DiskKept'
    BY <1>9, <1>16, <1>21, DiskKeptGoesOn DEF Stored, Loads, Exists
  <2>3. WritesKept'
    <3>1. \A i, c, run : KeptBefore(Bridge, i, c, run) => KeptBefore(Bridge, i, c, run)'
      BY <1>9, <1>10, <1>11 DEF KeptBefore, SealOf, Done, Exists
    <3>2. \A c, run : Kept(c, run) => \A i : KeptBefore(Tool, i, c, run)'
      BY <1>16, <1>21, KeptIsBefore
    <3>3. ASSUME NEW i \in DOMAIN stored, NEW w, w = stored[i]
          PROVE  /\ w \in RowWrites => KeptBefore(Tool, i - 1, w.content.cycle, w.content.run)'
                 /\ w \in TempWrites => \A c \in Cycles : w.content[c] # None =>
                                           KeptBefore(Tool, i - 1, c, w.content[c])'
      <4>1. w \in RowWrites => w.content = capture
        BY <1>14, <3>3
      <4>2. w \in TempWrites => \A c \in Cycles : w.content[c] # None => Kept(c, w.content[c])
        BY <1>4, <1>5, <1>14, <3>3 DEF MemoryKept
      <4> QED BY <3>2, <1>4, <4>1, <4>2
    <3> QED BY <3>1, <3>3, <1>0, <1>10 DEF Stored, WritesKept
  <2> QED BY <2>1, <2>2, <2>3 DEF Stored
<1>23. Swaps'
  <2>1. \A i \in DOMAIN stored : stored[i] = Swap /\ i > 1 => stored[i - 1].path = Temp
    BY <1>14
  <2>2. ~HasTemp(Tool)' /\ ~(Busy(Tool)' /\ Now(Tool)' = Swap)
    <3>1. stored # <<>> => Head(stored) = stored[1] /\ 1 \in DOMAIN stored
      BY <1>14
    <3>2. stored # <<>> => Head(stored) # Swap
      BY <3>1, <1>14
    <3>3. open'[Tool] # Temp
      BY <1>9, <1>17, NoneAssumption
    <3> QED BY <3>2, <3>3, <1>10 DEF HasTemp, Busy, Now
  <2>3. HasTemp(Bridge)' => HasTemp(Bridge)
    BY <1>9, <1>10 DEF HasTemp, Busy, Now
  <2>4. Busy(Bridge)' = Busy(Bridge) /\ Now(Bridge)' = Now(Bridge)
    BY <1>10 DEF Busy, Now
  <2>5. ~shared' => \A p, q \in Procs : HasTemp(p)' /\ HasTemp(q)' => p = q
    BY <1>0, <2>2, <2>3
  <2>6. \A p \in Procs : \A i \in DOMAIN todo'[p] :
           todo'[p][i] = Swap /\ i > 1 => todo'[p][i - 1].path = Temp
    BY <2>1, <1>0, <1>10 DEF Swaps
  <2> QED BY <2>2, <2>4, <2>5, <2>6, <1>0, <1>9 DEF Swaps, Exists
<1> QED BY <1>15, <1>16, <1>18, <1>19, <1>20, <1>22, <1>23

LEMMA Parts ==
    ASSUME NEW S, NEW s \in Seq(S), NEW t \in Seq(S)
    PROVE  /\ s \o t \in Seq(S) /\ Len(s) \in Nat /\ DOMAIN s = 1..Len(s)
           /\ \A i \in DOMAIN s : i \in DOMAIN (s \o t) /\ (s \o t)[i] = s[i]
           /\ \A i \in DOMAIN (s \o t) :
                 /\ i \in Nat /\ i >= 1
                 /\ \/ i <= Len(s) /\ i \in DOMAIN s /\ (s \o t)[i] = s[i]
                    \/ i > Len(s) /\ i - Len(s) \in DOMAIN t /\ (s \o t)[i] = t[i - Len(s)]
           /\ \A j \in DOMAIN t : j \in Nat /\ (s \o t)[Len(s) + j] = t[j]
OBVIOUS

\* A capture is saved under a directory that is new, then stored.
LEMMA CollectInv ==
    ASSUME Inv, NEW c \in Cycles, NEW bad \in SUBSET BadReplies, Collect(c, bad)
    PROVE  Inv'
<1> USE DEF Inv
<1>00. PICK r \in Nat : r = runs[Bridge]
  BY FilesAssumption DEF Procs, Types
<1> DEFINE capture == [cycle |-> c, run |-> r, bad |-> bad]
           dir == CaptureDir(c, r)
           new == CaptureList(capture)
           raw == IF save[r] >= SAVE_CAPTURE THEN WriteRaw(capture) ELSE <<>>
           n == Len(raw)
<1>0. Bridge # Tool /\ Bridge \in Procs /\ Tool \in Procs /\ Procs = {Bridge, Tool} /\ r \in Nat
  BY FilesAssumption DEF Procs
<1>1. /\ disk' = disk /\ open' = open /\ memory' = memory /\ runs' = runs /\ save' = save
      /\ shared' = shared /\ Running(Bridge) /\ todo[Bridge] = <<>> /\ r >= 1
      /\ taken' = Put(taken, dir, capture)
  BY <1>00 DEF Collect, Phases
<1>2. capture \in Captures /\ capture.cycle = c /\ capture.run = r
  BY <1>0 DEF Captures
<1>3. dir \notin DOMAIN taken
  <2>1. \A d \in Cycles : <<"captures", d, r>> \in DOMAIN taken => c < d
    BY <1>00 DEF Collect
  <2>2. ~(c < c)
    BY FilesAssumption
  <2> QED BY <2>1, <2>2 DEF CaptureDir
<1>4. PICK stored \in RenderCapture(memory[Bridge], capture) :
         todo' = [todo EXCEPT ![Bridge] = raw \o stored]
  BY <1>00 DEF Collect, SaveThenRender
<1>5. memory[Bridge] \in Memories /\ MemoryKept(memory[Bridge])
  BY <1>00, <1>0, <1>1 DEF Running, Stored, MemoriesKept, MemoryKept
<1> DEFINE s == raw \o stored
<1>6. /\ stored \in Seq(Others) /\ DOMAIN stored \subseteq 1..3
      /\ \A i \in DOMAIN stored :
            /\ stored[i] \in RowWrites => i = 1 /\ stored[i].content = capture
            /\ stored[i] \in TempWrites =>
                  \A d \in Cycles : stored[i].content[d] = IF d = c THEN r ELSE memory[Bridge][d]
            /\ stored[i] = Swap => i = 3 /\ 2 \in DOMAIN stored /\ stored[2].path = Temp
  <2> HIDE DEF capture
  <2>1. IsStored(stored, memory[Bridge], capture)
    BY <1>2, <1>4, <1>5, RenderStores
  <2> QED BY <2>1, <1>2, <1>5, StoredWrites
<1>7. \/ raw = <<>> /\ ~(save[r] >= SAVE_CAPTURE)
      \/ Seals(raw, new)
  BY <1>2, WriteRawSeals
<1>8. DOMAIN todo' = Procs /\ todo'[Bridge] = s /\ todo'[Tool] = todo[Tool]
  BY <1>00, <1>0, <1>4 DEF Entries
<1> HIDE DEF raw, capture
<1>9. /\ \A d \in DOMAIN taken : d \in DOMAIN taken' /\ taken'[d] = taken[d]
      /\ DOMAIN taken' = DOMAIN taken \union {dir} /\ taken'[dir] = capture
  <2> HIDE DEF dir
  <2>1. /\ DOMAIN Put(taken, dir, capture) = DOMAIN taken \union {dir}
        /\ Put(taken, dir, capture)[dir] = capture
        /\ \A z \in DOMAIN taken : z # dir => Put(taken, dir, capture)[z] = taken[z]
    BY DEF Put
  <2>2. taken' = Put(taken, dir, capture)
    BY <1>00, <1>1
  <2> QED BY <2>1, <2>2, <1>3
<1>10. TakenAs(taken', runs'[Bridge])
  BY <1>00, <1>0, <1>1, <1>2, <1>9 DEF Types, TakenAs
<1>11. /\ ListsOf(taken, r) \subseteq ListsOf(taken', runs'[Bridge])
       /\ Lists' = Lists \union {new} /\ Lists \subseteq Lists' /\ ListWrites \subseteq ListWrites'
       /\ new \in ListsOf(taken', runs'[Bridge])
  <2>1. ListsOf(taken, r) \subseteq ListsOf(taken', runs'[Bridge])
    BY <1>00, <1>0, <1>1, <1>9, MoreLists
  <2>2. Lists' = Lists \union {new}
    BY <1>00, <1>1, <1>9 DEF Lists, ListsOf
  <2> QED BY <2>1, <2>2 DEF Lists, ListWrites
<1>12. new \notin Lists
  BY <1>00, <1>0, <1>2, <1>3, NewCapture DEF Lists, Types
<1>13. Types'
  <2>1. DOMAIN disk' \subseteq {w.path : w \in ListWrites'} \union OtherPaths
    BY <1>00, <1>1, <1>11 DEF Types
  <2> QED BY <1>00, <1>1, <1>10, <2>1 DEF Types
<1>14. Grows
  BY <1>00, <1>0, <1>1, <1>9 DEF Grows
<1> HIDE DEF new
<1>15. \A w \in Writes(new) : w \notin Others /\ ~Exists(w.path)
  BY <1>00, <1>0, <1>1, <1>10, <1>11, <1>12, <1>13, ListsApart, NothingOfNew
<1>16. raw \in Seq(Writes(new)) /\ \A i \in DOMAIN raw : raw[i] \in Writes(new) /\ raw[i] \notin Others
  <2>1. raw \in Seq(Writes(new))
    <3>1. CASE raw = <<>>
      BY <3>1
    <3>2. CASE Seals(raw, new)
      BY <3>2 DEF Seals
    <3> QED BY <3>1, <3>2, <1>7
  <2> QED BY <2>1, <1>15
<1>17. /\ s \in Seq(Writes(new) \union Others) /\ n \in Nat /\ DOMAIN raw = 1..n
       /\ \A i \in DOMAIN raw : i \in DOMAIN s /\ s[i] = raw[i]
       /\ \A i \in DOMAIN s :
             /\ i \in Nat /\ i >= 1
             /\ \/ i <= n /\ i \in DOMAIN raw /\ s[i] = raw[i]
                \/ i > n /\ i - n \in DOMAIN stored /\ s[i] = stored[i - n]
       /\ \A j \in DOMAIN stored : j \in Nat /\ s[n + j] = stored[j]
  <2>1. raw \in Seq(Writes(new) \union Others) /\ stored \in Seq(Writes(new) \union Others)
    BY <1>6, <1>16, SeqSubset
  <2> QED BY <2>1, Parts
<1> HIDE DEF s, n
<1>18. \A i \in DOMAIN s : s[i] \in Others => i > n /\ i - n \in DOMAIN stored /\ s[i] = stored[i - n]
  BY <1>16, <1>17
<1>19. \A i \in DOMAIN s : s[i] \in Writes(new) => i <= n /\ i \in DOMAIN raw /\ s[i] = raw[i]
  <2>1. \A j \in DOMAIN stored : stored[j] \in Others
    BY <1>6
  <2> QED BY <2>1, <1>15, <1>17
<1>20. ASSUME NEW l \in Lists PROVE \A i \in DOMAIN s : s[i] \notin Writes(l)
  <2>1. \A w \in Writes(new) : w \notin Writes(l)
    BY <1>00, <1>0, <1>1, <1>10, <1>11, <1>12, OneWrite DEF Lists
  <2>2. \A w \in Others : w \notin Writes(l)
    BY <1>00, <1>0, ListsApart DEF Lists, Types
  <2>3. \A i \in DOMAIN s : s[i] \in Writes(new) \union Others
    BY <1>17
  <2> QED BY <2>1, <2>2, <2>3
<1>21. open[Bridge] = None
  BY <1>00, <1>0, <1>1 DEF Opened, Busy
<1>22. Entries'
  <2>1. Writes(new) \union Others \subseteq (ListWrites \union Others)'
    BY <1>11 DEF ListWrites
  <2>2. s \in Seq((ListWrites \union Others)')
    BY <2>1, <1>17, SeqSubset
  <2> QED BY <2>2, <1>8 DEF Entries
<1>23. Opened'
  BY <1>00, <1>0, <1>1, <1>8, <1>21 DEF Opened, Busy, Now, Exists
<1>24. ListsOrdered'
  <2> SUFFICES ASSUME NEW l \in Lists' PROVE Ordered(l)'
    BY DEF ListsOrdered
  <2>1. CASE l \in Lists
    <3>1. Ordered(l)
      BY <2>1 DEF ListsOrdered
    <3>2. \A i \in DOMAIN s : s[i] \notin Writes(l) /\ s[i] \notin l.files /\ s[i] # l.seal
      BY <2>1, <1>20 DEF Writes
    <3> QED BY <3>1, <3>2, <1>00, <1>1, <1>8, <1>21 DEF Ordered, Exists, Done
  <2>2. CASE l = new
    <3>1. ~Exists(new.seal.path)'
      <4>1. new.seal \in Writes(new)
        BY DEF Writes
      <4>2. ~Exists(new.seal.path)
        BY <4>1, <1>15
      <4>3. ASSUME NEW path, ~Exists(path) PROVE ~Exists(path)'
        BY <4>3, <1>00, <1>1 DEF Exists
      <4>4. ~(new.seal.path \in DOMAIN disk')
        BY <4>2, <1>00, <1>1 DEF Exists
      <4> QED BY <4>4 DEF Exists
    <3>2. \A i \in DOMAIN s : s[i] = new.seal => i = n /\ Seals(raw, new)
      <4>1. ASSUME NEW i \in DOMAIN s, s[i] = new.seal PROVE i = n /\ Seals(raw, new)
        <5>1. i <= n /\ i \in DOMAIN raw /\ raw[i] = new.seal
          BY <4>1, <1>19 DEF Writes
        <5>2. Seals(raw, new)
          BY <5>1, <1>7
        <5>3. \A w \in new.files : w # new.seal
          BY <1>00, <1>0, <1>1, <1>10, <1>11, FilesApart
        <5>4. i \in 1..n /\ ~(i \in 1..(n - 1))
          BY <5>1, <5>2, <5>3, <1>17 DEF Seals, n
        <5> QED BY <5>2, <5>4, <1>17
      <4> QED BY <4>1
    <3>3. Seals(raw, new) => \A w \in new.files : \E j \in 1..(n - 1) : s[j] = w
      <4>1. 1..(n - 1) \subseteq DOMAIN raw
        BY <1>17
      <4> QED BY <4>1, <1>17 DEF Seals, n
    <3>4. \A j \in DOMAIN s : j > n => s[j] \notin Writes(new)
      BY <1>17, <1>19
    <3> QED BY <2>2, <3>1, <3>2, <3>3, <3>4, <1>00, <1>1, <1>8, <1>21 DEF Ordered
  <2> QED BY <2>1, <2>2, <1>11
<1>25. Phases'
  <2>1. LogList(r) \in Lists
    BY <1>00, <1>0, <1>1 DEF Lists, ListsOf
  <2>2. Running(Bridge)'
    BY <1>00, <1>1 DEF Running
  <2>3. ~Exists(LogList(r).seal.path)
    BY <1>00, <1>1 DEF Phases
  <2> QED BY <2>1, <2>2, <2>3, <1>00, <1>1, <1>8, <1>20 DEF Phases, Exists
<1>26. Stored'
  <2>1. MemoriesKept'
    <3>1. \A cycles : MemoryKept(cycles) => MemoryKept(cycles)'
      BY <1>13, <1>14, MemoryGoesOn
    <3>2. \A p \in Procs : memory[p] # None => MemoryKept(memory[p])
      BY DEF Stored, MemoriesKept
    <3>3. \A p \in Procs : memory[p] # None => MemoryKept(memory[p])'
      BY <3>1, <3>2, <1>00, <1>1
    <3> QED BY <3>3, <1>00, <1>1 DEF MemoriesKept
  <2>2. DiskKept'
    BY <1>00, <1>1, <1>13, <1>14, DiskKeptGoesOn DEF Stored, Loads, Exists
  <2>3. \A d, run : Kept(d, run) => \A p, i : KeptBefore(p, i, d, run)'
    BY <1>13, <1>14, KeptIsBefore
  <2>4. ASSUME NEW i \in DOMAIN s, i > n PROVE KeptBefore(Bridge, i - 1, c, r)'
    <3>1. r \in 1..runs'[Bridge] /\ CaptureDir(c, r) \in DOMAIN taken'
      BY <1>00, <1>0, <1>1, <1>9
    <3>2. ASSUME save'[r] >= SAVE_CAPTURE
          PROVE \E j \in 1..(i - 1) : todo'[Bridge][j] = SealOf(c, r)'
      <4>1. Seals(raw, new)
        BY <3>2, <1>00, <1>1, <1>7
      <4>2. n >= 1 /\ raw[n] = new.seal
        BY <4>1 DEF Seals, n
      <4>3. n \in DOMAIN raw /\ n \in 1..(i - 1)
        BY <4>2, <2>4, <1>17
      <4>4. s[n] = new.seal
        BY <4>2, <4>3, <1>17
      <4>5. SealOf(c, r)' = new.seal
        BY <1>00, <1>1, <1>9 DEF SealOf, new
      <4> QED BY <4>3, <4>4, <4>5, <1>8
    <3> QED BY <3>1, <3>2, <1>00, <1>1 DEF KeptBefore
  <2>5. ASSUME NEW i \in DOMAIN s, NEW w, w = s[i]
        PROVE  /\ w \in RowWrites => KeptBefore(Bridge, i - 1, w.content.cycle, w.content.run)'
               /\ w \in TempWrites => \A d \in Cycles : w.content[d] # None =>
                                         KeptBefore(Bridge, i - 1, d, w.content[d])'
    <3>1. w \in Others => i > n /\ i - n \in DOMAIN stored /\ w = stored[i - n]
      BY <2>5, <1>18
    <3>2. ASSUME w \in RowWrites PROVE KeptBefore(Bridge, i - 1, w.content.cycle, w.content.run)'
      <4>1. i > n /\ i - n \in DOMAIN stored /\ w = stored[i - n]
        BY <3>1, <3>2 DEF Others
      <4>2. w.content = capture
        BY <4>1, <3>2, <1>6
      <4>3. w.content.cycle = c /\ w.content.run = r
        BY <4>2, <1>2
      <4> QED BY <4>1, <4>3, <2>4, <1>00, <1>1
    <3>3. ASSUME w \in TempWrites, NEW d \in Cycles, w.content[d] # None
          PROVE  KeptBefore(Bridge, i - 1, d, w.content[d])'
      <4>1. i > n /\ i - n \in DOMAIN stored /\ w = stored[i - n]
        BY <3>1, <3>3 DEF Others
      <4>2. w.content[d] = IF d = c THEN r ELSE memory[Bridge][d]
        BY <4>1, <3>3, <1>6
      <4>3. CASE d = c
        BY <4>1, <4>2, <4>3, <2>4, <1>00, <1>1
      <4>4. CASE d # c
        <5>1. Kept(d, w.content[d])
          BY <4>2, <4>4, <3>3, <1>5 DEF MemoryKept
        <5> QED BY <5>1, <2>3
      <4> QED BY <4>3, <4>4
    <3> QED BY <3>2, <3>3
  <2>6. \A i, d, run : KeptBefore(Tool, i, d, run) => KeptBefore(Tool, i, d, run)'
    BY <1>13, <1>14, OfToolGoesOn
  <2>7. WritesKept'
    BY <2>5, <2>6, <1>0, <1>8 DEF Stored, WritesKept
  <2> QED BY <2>1, <2>2, <2>7 DEF Stored
<1>27. Swaps'
  <2>1. ASSUME NEW i \in DOMAIN s, s[i] = Swap PROVE i = n + 3 /\ s[i - 1].path = Temp
    <3>1. i > n /\ i - n \in DOMAIN stored /\ stored[i - n] = Swap
      BY <2>1, <1>18 DEF Others
    <3>2. i - n = 3 /\ 2 \in DOMAIN stored /\ stored[2].path = Temp
      BY <3>1, <1>6
    <3>3. i = n + 3 /\ i - 1 = n + 2
      BY <3>2, <1>17
    <3>4. s[n + 2] = stored[2]
      BY <3>2, <1>17
    <3> QED BY <3>2, <3>3, <3>4
  <2>2. ~HasTemp(Bridge)' /\ ~(Busy(Bridge)' /\ Now(Bridge)' = Swap)
    <3>1. s # <<>> => Head(s) = s[1] /\ 1 \in DOMAIN s
      BY <1>17, Shortened
    <3>2. 1 # n + 3
      BY <1>17
    <3>3. s # <<>> => Head(s) # Swap
      BY <2>1, <3>1, <3>2
    <3>4. open'[Bridge] # Temp
      BY <1>00, <1>1, <1>21, NoneAssumption
    <3> QED BY <3>3, <3>4, <1>8 DEF HasTemp, Busy, Now
  <2>3. HasTemp(Tool)' => HasTemp(Tool)
    BY <1>00, <1>1, <1>8 DEF HasTemp, Busy, Now
  <2>4. Busy(Tool)' = Busy(Tool) /\ Now(Tool)' = Now(Tool)
    BY <1>8 DEF Busy, Now
  <2>5. ~shared' => \A p, q \in Procs : HasTemp(p)' /\ HasTemp(q)' => p = q
    BY <1>00, <1>0, <2>2, <2>3
  <2>6. \A p \in Procs : \A i \in DOMAIN todo'[p] :
           todo'[p][i] = Swap /\ i > 1 => todo'[p][i - 1].path = Temp
    BY <2>1, <1>0, <1>8 DEF Swaps
  <2> QED BY <2>2, <2>4, <2>5, <2>6, <1>0, <1>00, <1>1 DEF Swaps, Exists
<1> QED BY <1>13, <1>22, <1>23, <1>24, <1>25, <1>26, <1>27

-----------------------------------------------------------------------------
(* What a step does not touch *)

LEMMA WhatIsNow ==
    ASSUME Entries, Types, NEW p \in Procs, Busy(p)
    PROVE  /\ Now(p) = todo[p][1] /\ 1 \in DOMAIN todo[p]
           /\ \/ Now(p) \in Others
              \/ p = Bridge /\ \E l \in Lists : Now(p) \in Writes(l)
           /\ DOMAIN Tail(todo[p]) = 1..(Len(todo[p]) - 1) /\ Len(todo[p]) \in Nat
           /\ DOMAIN todo[p] = 1..Len(todo[p])
           /\ \A i \in DOMAIN Tail(todo[p]) :
                 i + 1 \in DOMAIN todo[p] /\ Tail(todo[p])[i] = todo[p][i + 1] /\ i \in Nat /\ i >= 1
           /\ Tail(todo[p]) # <<>> => Last(Tail(todo[p])) = Last(todo[p])
           /\ p = Bridge => Tail(todo[p]) \in Seq(ListWrites \union Others)
           /\ p = Tool => Tail(todo[p]) \in Seq(Others)
<1>1. CASE p = Bridge
  <2>1. todo[p] \in Seq(ListWrites \union Others) /\ todo[p] # <<>>
    BY <1>1 DEF Entries, Busy
  <2>2. todo[p][1] \in ListWrites \union Others
    BY <2>1
  <2>3. /\ Head(todo[p]) = todo[p][1] /\ 1 \in DOMAIN todo[p] /\ Tail(todo[p]) \in Seq(ListWrites \union Others)
        /\ DOMAIN todo[p] = 1..Len(todo[p]) /\ DOMAIN Tail(todo[p]) = 1..(Len(todo[p]) - 1) /\ Len(todo[p]) \in Nat
        /\ \A i \in DOMAIN Tail(todo[p]) :
              i + 1 \in DOMAIN todo[p] /\ Tail(todo[p])[i] = todo[p][i + 1] /\ i \in Nat /\ i >= 1
        /\ Tail(todo[p]) # <<>> => Last(Tail(todo[p])) = Last(todo[p])
    BY <2>1, Shortened
  <2> QED BY <1>1, <2>2, <2>3, FilesAssumption DEF Now, ListWrites
<1>2. CASE p = Tool
  <2>1. todo[p] \in Seq(Others) /\ todo[p] # <<>>
    BY <1>2 DEF Entries, Busy
  <2>2. todo[p][1] \in Others
    BY <2>1
  <2>3. /\ Head(todo[p]) = todo[p][1] /\ 1 \in DOMAIN todo[p] /\ Tail(todo[p]) \in Seq(Others)
        /\ DOMAIN todo[p] = 1..Len(todo[p]) /\ DOMAIN Tail(todo[p]) = 1..(Len(todo[p]) - 1) /\ Len(todo[p]) \in Nat
        /\ \A i \in DOMAIN Tail(todo[p]) :
              i + 1 \in DOMAIN todo[p] /\ Tail(todo[p])[i] = todo[p][i + 1] /\ i \in Nat /\ i >= 1
        /\ Tail(todo[p]) # <<>> => Last(Tail(todo[p])) = Last(todo[p])
    BY <2>1, Shortened
  <2> QED BY <1>2, <2>2, <2>3, FilesAssumption DEF Now
<1> QED BY <1>1, <1>2 DEF Procs

\* A step that touches none of a list's files.
Elsewhere(l) ==
    \A w \in Writes(l) :
        /\ w.path \in DOMAIN disk' <=> w.path \in DOMAIN disk
        /\ w.path \in DOMAIN disk => disk'[w.path] = disk[w.path]

LEMMA OrderedSame ==
    ASSUME NEW l, Ordered(l), Elsewhere(l), todo'[Bridge] = todo[Bridge],
           open'[Bridge] # None /\ Now(Bridge) \in Writes(l) =>
              open'[Bridge] = open[Bridge] /\ Exists(open[Bridge])
    PROVE  Ordered(l)'
<1>1. \A w \in Writes(l) : Done(w)' <=> Done(w)
  BY DEF Elsewhere, Done, Exists
<1>2. l.seal \in Writes(l) /\ l.files \subseteq Writes(l)
  BY DEF Writes
<1>3. Exists(l.seal.path)' <=> Exists(l.seal.path)
  BY <1>2 DEF Elsewhere, Exists
<1>4. Exists(l.seal.path) => disk'[l.seal.path] = disk[l.seal.path]
  BY <1>2 DEF Elsewhere, Exists
<1>5. open'[Bridge] # None /\ Now(Bridge) \in Writes(l) =>
         open'[Bridge] = Now(Bridge).path /\ disk'[open'[Bridge]] = Torn
  BY DEF Ordered, Elsewhere, Exists
<1>6. Now(Bridge)' = Now(Bridge)
  BY DEF Now
<1> QED BY <1>1, <1>2, <1>3, <1>4, <1>5, <1>6 DEF Ordered

LEMMA OrderedShorter ==
    ASSUME Entries, Types, NEW l, Ordered(l), Elsewhere(l), Busy(Bridge),
           todo'[Bridge] = Tail(todo[Bridge]), open'[Bridge] = None, Now(Bridge) \notin Writes(l)
    PROVE  Ordered(l)'
<1> DEFINE s == todo[Bridge]
           t == Tail(todo[Bridge])
<1>0. Bridge \in Procs
  BY DEF Procs
<1>1. \A w \in Writes(l) : Done(w)' <=> Done(w)
  BY DEF Elsewhere, Done, Exists
<1>2. l.seal \in Writes(l) /\ l.files \subseteq Writes(l)
  BY DEF Writes
<1>3. Exists(l.seal.path)' <=> Exists(l.seal.path)
  BY <1>2 DEF Elsewhere, Exists
<1>4. Exists(l.seal.path) => disk'[l.seal.path] = disk[l.seal.path]
  BY <1>2 DEF Elsewhere, Exists
<1>5. /\ s[1] \notin Writes(l) /\ DOMAIN t = 1..(Len(s) - 1) /\ DOMAIN s = 1..Len(s) /\ Len(s) \in Nat
      /\ \A i \in DOMAIN t : i + 1 \in DOMAIN s /\ t[i] = s[i + 1] /\ i \in Nat /\ i >= 1
  BY <1>0, WhatIsNow
<1> HIDE DEF s, t
<1>6. Exists(l.seal.path) => \A i \in DOMAIN t : t[i] \notin l.files /\ t[i] # l.seal
  <2>1. Exists(l.seal.path) => \A i \in DOMAIN s : s[i] \notin l.files /\ (s[i] = l.seal => i = 1)
    BY DEF Ordered, s
  <2>2. \A i \in DOMAIN t : i + 1 # 1
    BY <1>5
  <2> QED BY <1>5, <2>1, <2>2
<1>7. ASSUME NEW i \in DOMAIN t, t[i] = l.seal
      PROVE  /\ \A w \in l.files : Done(w) \/ \E j \in 1..(i - 1) : t[j] = w
             /\ \A j \in DOMAIN t : j > i => t[j] \notin Writes(l)
  <2>1. i + 1 \in DOMAIN s /\ s[i + 1] = l.seal /\ i \in Nat
    BY <1>5, <1>7
  <2>2. /\ \A w \in l.files : Done(w) \/ \E j \in 1..((i + 1) - 1) : s[j] = w
        /\ \A j \in DOMAIN s : j > i + 1 => s[j] \notin Writes(l)
    BY <2>1 DEF Ordered, s
  <2>3. ASSUME NEW w \in l.files, NEW j \in 1..((i + 1) - 1), s[j] = w
        PROVE  \E k \in 1..(i - 1) : t[k] = w
    <3>1. j # 1
      BY <1>2, <1>5, <2>3
    <3>2. j - 1 \in 1..(i - 1) /\ j - 1 \in DOMAIN t /\ (j - 1) + 1 = j
      BY <2>1, <3>1, <1>5
    <3>3. t[j - 1] = s[(j - 1) + 1]
      BY <3>2, <1>5
    <3>4. t[j - 1] = w
      BY <2>3, <3>2, <3>3
    <3> QED BY <3>2, <3>4
  <2>4. \A j \in DOMAIN t : j > i => j + 1 \in DOMAIN s /\ j + 1 > i + 1 /\ t[j] = s[j + 1]
    BY <1>5, <2>1
  <2>5. \A j \in DOMAIN t : j > i => t[j] \notin Writes(l)
    BY <2>2, <2>4
  <2> QED BY <2>2, <2>3, <2>5
<1>8. todo'[Bridge] = t
  BY DEF t
<1>9. Exists(l.seal.path) => (\A w \in l.files : Done(w)) /\ disk[l.seal.path] \in {Torn, Full(l.seal)}
  BY DEF Ordered
<1>10. Exists(l.seal.path)' =>
          /\ \A w \in l.files : Done(w)'
          /\ disk'[l.seal.path] \in {Torn, Full(l.seal)}
          /\ \A i \in DOMAIN t : t[i] \notin l.files /\ t[i] # l.seal
  BY <1>1, <1>2, <1>3, <1>4, <1>6, <1>9
<1>11. \A i \in DOMAIN t : t[i] = l.seal =>
          /\ \A w \in l.files : Done(w)' \/ \E j \in 1..(i - 1) : t[j] = w
          /\ \A j \in DOMAIN t : j > i => t[j] \notin Writes(l)
  BY <1>1, <1>2, <1>7
<1>12. \A i \in DOMAIN todo'[Bridge] :
          /\ Exists(l.seal.path)' => todo'[Bridge][i] \notin l.files /\ todo'[Bridge][i] # l.seal
          /\ todo'[Bridge][i] = l.seal =>
                /\ \A w \in l.files : Done(w)' \/ \E j \in 1..(i - 1) : todo'[Bridge][j] = w
                /\ \A j \in DOMAIN todo'[Bridge] : j > i => todo'[Bridge][j] \notin Writes(l)
  BY <1>8, <1>10, <1>11
<1>13. Exists(l.seal.path)' => (\A w \in l.files : Done(w)') /\ disk'[l.seal.path] \in {Torn, Full(l.seal)}
  BY <1>10
<1> QED BY <1>12, <1>13, Zenon DEF Ordered

\* What was kept before stays so, whatever the bridge has done of its writes.
LEMMA KeptBeforeSame ==
    ASSUME Types, Types', Grows, taken' = taken, todo'[Bridge] = todo[Bridge],
           NEW p, NEW i, NEW c, NEW run, KeptBefore(p, i, c, run)
    PROVE  KeptBefore(p, i, c, run)'
<1>1. CASE Kept(c, run)
  BY <1>1, KeptIsBefore
<1>2. CASE /\ run \in 1..runs[Bridge] /\ CaptureDir(c, run) \in DOMAIN taken
           /\ p = Bridge /\ \E j \in 1..i : todo[Bridge][j] = SealOf(c, run)
  <2>1. run \in 1..runs'[Bridge]
    BY <1>2 DEF Grows, Types, Procs
  <2>2. \E j \in 1..i : todo'[Bridge][j] = SealOf(c, run)'
    BY <1>2 DEF SealOf
  <2> QED BY <1>2, <2>1, <2>2 DEF KeptBefore
<1> QED BY <1>1, <1>2, KeptOrBefore

LEMMA KeptBeforeShorter ==
    ASSUME Entries, Types, Types', Grows, taken' = taken, Busy(Bridge),
           todo'[Bridge] = Tail(todo[Bridge]),
           NEW i \in DOMAIN Tail(todo[Bridge]), NEW c, NEW run, KeptBefore(Bridge, (i + 1) - 1, c, run),
           Now(Bridge) = SealOf(c, run) => Done(SealOf(c, run))'
    PROVE  KeptBefore(Bridge, i - 1, c, run)'
<1>1. CASE Kept(c, run)
  BY <1>1, KeptIsBefore
<1>2. CASE /\ run \in 1..runs[Bridge] /\ CaptureDir(c, run) \in DOMAIN taken
           /\ \E j \in 1..((i + 1) - 1) : todo[Bridge][j] = SealOf(c, run)
  <2>0. /\ Now(Bridge) = todo[Bridge][1] /\ i \in Nat /\ DOMAIN Tail(todo[Bridge]) = 1..(Len(todo[Bridge]) - 1)
        /\ Len(todo[Bridge]) \in Nat
        /\ \A k \in DOMAIN Tail(todo[Bridge]) : Tail(todo[Bridge])[k] = todo[Bridge][k + 1]
    BY WhatIsNow DEF Procs
  <2>1. run \in 1..runs'[Bridge] /\ CaptureDir(c, run) \in DOMAIN taken'
    BY <1>2 DEF Grows, Types, Procs
  <2>2. PICK j \in 1..((i + 1) - 1) : todo[Bridge][j] = SealOf(c, run)
    BY <1>2
  <2>3. CASE j = 1
    <3>1. Done(SealOf(c, run))'
      BY <2>0, <2>2, <2>3
    <3> QED BY <2>1, <3>1 DEF KeptBefore
  <2>4. CASE j # 1
    <3>1. j - 1 \in 1..(i - 1) /\ j - 1 \in DOMAIN Tail(todo[Bridge]) /\ (j - 1) + 1 = j
      BY <2>0, <2>4
    <3>2. Tail(todo[Bridge])[j - 1] = todo[Bridge][(j - 1) + 1]
      BY <2>0, <3>1
    <3>3. todo'[Bridge][j - 1] = SealOf(c, run)'
      BY <2>2, <3>1, <3>2 DEF SealOf
    <3> QED BY <2>1, <3>1, <3>3 DEF KeptBefore
  <2> QED BY <2>3, <2>4
<1> QED BY <1>1, <1>2, KeptOrBefore

-----------------------------------------------------------------------------
(* A file is opened *)

\* Opening truncates what is no list's, or what is not listed yet.
LEMMA OpenFileInv ==
    ASSUME Inv, NEW p \in Procs, OpenFile(p)
    PROVE  Inv'
<1> USE DEF Inv
<1>0. Bridge # Tool /\ Bridge \in Procs /\ Tool \in Procs /\ Procs = {Bridge, Tool} /\ runs[Bridge] \in Nat
  BY FilesAssumption DEF Procs, Types
<1>1. PICK e : e = Now(p)
  OBVIOUS
<1>2. /\ todo' = todo /\ memory' = memory /\ runs' = runs /\ save' = save /\ taken' = taken
      /\ Busy(p) /\ open[p] = None /\ e # Swap
      /\ disk' = Put(disk, e.path, Torn)
      /\ DOMAIN open' = Procs /\ open'[p] = e.path /\ \A q \in Procs \ {p} : open'[q] = open[q]
  BY <1>1 DEF OpenFile, Types, Torn
<1>3. /\ DOMAIN disk' = DOMAIN disk \union {e.path} /\ disk'[e.path] = Torn
      /\ \A path \in DOMAIN disk : path # e.path => disk'[path] = disk[path]
  BY <1>2 DEF Put
<1>4. /\ todo[p][1] = e /\ 1 \in DOMAIN todo[p]
      /\ \/ e \in Others
         \/ p = Bridge /\ \E l \in Lists : e \in Writes(l)
  BY <1>1, <1>2, WhatIsNow
<1>5. /\ Lists' = Lists /\ ListWrites' = ListWrites /\ TakenAs(taken, runs[Bridge])
  BY <1>2 DEF Lists, ListWrites, Types
<1>6. e \in Others => /\ e.path \in OtherPaths /\ e.path # Collected
                      /\ e.path = Temp => e \in TempWrites
  BY <1>2, OtherKinds, SinglePaths DEF Others
<1>7. \A l \in Lists : e \notin Others /\ e \in Writes(l) => e.path \notin OtherPaths
  BY <1>0, <1>5, ListsApart DEF Lists
<1>8. e.path # Collected
  BY <1>4, <1>6, <1>7 DEF OtherPaths
<1>9. \A l \in Lists : e \notin Writes(l) => \A w \in Writes(l) : w.path # e.path
  <2> SUFFICES ASSUME NEW l \in Lists, e \notin Writes(l), NEW w \in Writes(l), w.path = e.path PROVE FALSE
    OBVIOUS
  <2>1. CASE e \in Others
    BY <2>1, <1>0, <1>5, <1>6, ListsApart DEF Lists
  <2>2. CASE \E m \in Lists : e \in Writes(m)
    BY <2>2, <1>0, <1>5, OneWrite DEF Lists
  <2> QED BY <2>1, <2>2, <1>4
<1>10. \A l \in Lists : e \in Writes(l) => \A w \in Writes(l) : w # e => w.path # e.path
  BY <1>0, <1>5, OneWrite DEF Lists
<1>11. Entries'
  BY <1>2, <1>5 DEF Entries
<1>12. Types'
  <2>1. e.path \in {w.path : w \in ListWrites} \union OtherPaths
    BY <1>4, <1>6 DEF ListWrites
  <2>2. \A path \in DOMAIN disk' : disk'[path].whole \in BOOLEAN
    <3>1. Torn.whole \in BOOLEAN
      BY DEF Torn
    <3>2. disk'[e.path].whole \in BOOLEAN
      BY <3>1, <1>3
    <3>3. \A path \in DOMAIN disk : path # e.path => disk'[path].whole \in BOOLEAN
      BY <1>3 DEF Types
    <3> QED BY <3>2, <3>3, <1>3
  <2>3. shared' \in BOOLEAN
    BY DEF OpenFile, Types
  <2> QED BY <1>2, <1>3, <1>5, <2>1, <2>2, <2>3 DEF Types
<1>13. Opened'
  BY <1>1, <1>2, <1>3 DEF Opened, Busy, Now, Exists
<1>14. ListsOrdered'
  <2> SUFFICES ASSUME NEW l \in Lists PROVE Ordered(l)'
    BY <1>5 DEF ListsOrdered
  <2>1. Ordered(l)
    BY DEF ListsOrdered
  <2>2. CASE e \notin Writes(l)
    <3>1. Elsewhere(l)
      BY <2>2, <1>3, <1>9 DEF Elsewhere
    <3>2. p = Bridge => Now(Bridge) = e
      BY <1>1
    <3>3. p # Bridge => open'[Bridge] = open[Bridge]
      BY <1>0, <1>2
    <3>4. open'[Bridge] # None /\ Now(Bridge) \in Writes(l) =>
             open'[Bridge] = open[Bridge] /\ Exists(open[Bridge])
      BY <2>2, <3>2, <3>3, <1>0 DEF Opened
    <3> QED BY <2>1, <3>1, <3>4, <1>2, OrderedSame
  <2>3. CASE e \in Writes(l)
    <3>1. p = Bridge
      <4>1. e \notin Others
        BY <2>3, <1>0, <1>5, ListsApart DEF Lists
      <4> QED BY <4>1, <1>4
    <3>2. \A w \in Writes(l) : w # e => (Done(w)' <=> Done(w))
      BY <2>3, <1>3, <1>10 DEF Done, Exists
    <3>3. open'[Bridge] = Now(Bridge).path /\ disk'[open'[Bridge]] = Torn
      BY <3>1, <1>1, <1>2, <1>3
    <3>4. Now(Bridge)' = Now(Bridge)
      BY <1>2 DEF Now
    <3>5. l.seal \in Writes(l) /\ l.files \subseteq Writes(l) /\ \A w \in l.files : w # l.seal
      BY <1>0, <1>5, FilesApart DEF Writes, Lists
    <3>6. CASE e # l.seal
      <4>1. e \in l.files
        BY <2>3, <3>6 DEF Writes
      <4>2. ~Exists(l.seal.path)
        BY <2>1, <3>1, <4>1, <1>4 DEF Ordered
      <4>3. ~Exists(l.seal.path)'
        BY <4>2, <3>5, <3>6, <2>3, <1>3, <1>10 DEF Exists
      <4>4. ASSUME NEW i \in DOMAIN todo[Bridge], todo[Bridge][i] = l.seal
            PROVE  /\ \A w \in l.files : Done(w)' \/ \E j \in 1..(i - 1) : todo[Bridge][j] = w
                   /\ \A j \in DOMAIN todo[Bridge] : j > i => todo[Bridge][j] \notin Writes(l)
        <5>1. /\ \A w \in l.files : Done(w) \/ \E j \in 1..(i - 1) : todo[Bridge][j] = w
              /\ \A j \in DOMAIN todo[Bridge] : j > i => todo[Bridge][j] \notin Writes(l)
          BY <2>1, <4>4 DEF Ordered
        <5>2. i # 1 /\ DOMAIN todo[Bridge] = 1..Len(todo[Bridge]) /\ Len(todo[Bridge]) \in Nat
          BY <3>1, <3>6, <4>4, <1>2, <1>4, WhatIsNow
        <5>3. 1 \in 1..(i - 1)
          BY <5>2
        <5>4. todo[Bridge][1] = e
          BY <3>1, <1>4
        <5>5. \A w \in l.files : w = e => \E j \in 1..(i - 1) : todo[Bridge][j] = w
          BY <5>3, <5>4
        <5> QED BY <5>1, <5>5, <3>2, <3>5
      <4> QED BY <4>3, <4>4, <3>3, <3>4, <1>2 DEF Ordered
    <3>7. CASE e = l.seal
      <4>1. todo[Bridge][1] = l.seal /\ 1 \in DOMAIN todo[Bridge]
        BY <3>1, <3>7, <1>4
      <4>2. /\ \A w \in l.files : Done(w) \/ \E j \in 1..(1 - 1) : todo[Bridge][j] = w
            /\ \A j \in DOMAIN todo[Bridge] : j > 1 => todo[Bridge][j] \notin Writes(l)
        BY <2>1, <4>1 DEF Ordered
      <4>3. \A w \in l.files : Done(w)'
        <5>1. 1..(1 - 1) = {}
          OBVIOUS
        <5> QED BY <4>2, <5>1, <3>2, <3>5, <3>7
      <4>4. disk'[l.seal.path] = Torn
        BY <3>7, <1>3
      <4>5. \A i \in DOMAIN todo[Bridge] : i = 1 \/ i > 1
        BY <3>1, <1>2, WhatIsNow
      <4>6. \A i \in DOMAIN todo[Bridge] :
               /\ todo[Bridge][i] \notin l.files
               /\ todo[Bridge][i] = l.seal => i = 1
        BY <4>1, <4>2, <4>5, <3>5
      <4>7. \A i \in DOMAIN todo[Bridge] : todo[Bridge][i] = l.seal =>
               \A j \in DOMAIN todo[Bridge] : j > i => todo[Bridge][j] \notin Writes(l)
        BY <4>2, <4>6
      <4> QED BY <4>3, <4>4, <4>6, <4>7, <3>3, <3>4, <1>2 DEF Ordered
    <3> QED BY <3>6, <3>7
  <2> QED BY <2>2, <2>3
<1>15. Phases'
  <2> DEFINE log == LogList(runs[Bridge])
  <2>1. ASSUME Running(Bridge) PROVE ~Exists(log.seal.path)'
    <3>1. runs[Bridge] >= 1 /\ ~Exists(log.seal.path)
          /\ \A i \in DOMAIN todo[Bridge] : todo[Bridge][i] \notin Writes(log)
      BY <2>1 DEF Phases
    <3>2. log \in Lists
      BY <3>1, <1>0 DEF Lists, ListsOf
    <3>3. e \notin Writes(log)
      <4>1. CASE p = Bridge
        BY <4>1, <3>1, <1>4
      <4>2. CASE p = Tool
        BY <4>2, <3>2, <1>0, <1>4, <1>5, ListsApart DEF Lists
      <4> QED BY <4>1, <4>2, <1>0
    <3>4. log.seal.path # e.path
      BY <3>2, <3>3, <1>9 DEF Writes
    <3> QED BY <3>1, <3>4, <1>2, <1>3 DEF Exists
  <2>2. Running(Bridge)' = Running(Bridge) /\ Busy(Bridge)' = Busy(Bridge)
    BY <1>2 DEF Running, Busy
  <2> QED BY <2>1, <2>2, <1>2 DEF Phases
<1>16. Grows
  <2> SUFFICES ASSUME NEW dir \in DOMAIN taken, NEW seal, seal = CaptureList(taken[dir]).seal,
                      seal.path \in DOMAIN disk, disk[seal.path] = Full(seal)
               PROVE  seal.path \in DOMAIN disk' /\ disk'[seal.path] = Full(seal)
    BY <1>0, <1>2 DEF Grows
  <2> DEFINE l == CaptureList(taken[dir])
  <2>1. l \in Lists /\ l.seal \in Writes(l)
    BY DEF Lists, ListsOf, Writes
  <2> HIDE DEF l
  <2>2. seal = l.seal
    BY DEF l
  <2>3. seal.path # e.path
    <3>1. CASE e \notin Writes(l)
      BY <3>1, <2>1, <2>2, <1>9
    <3>2. CASE e \in Writes(l) /\ seal # e
      BY <3>2, <2>1, <2>2, <1>10
    <3>3. CASE e \in Writes(l) /\ seal = e
      <4>1. p = Bridge
        BY <3>3, <2>1, <1>0, <1>4, <1>5, ListsApart DEF Lists
      <4>2. disk[seal.path] = Torn
        BY <4>1, <3>3, <2>1, <2>2, <1>4 DEF ListsOrdered, Ordered, Exists
      <4> QED BY <4>2 DEF Torn, Full
    <3> QED BY <3>1, <3>2, <3>3
  <2> QED BY <2>3, <1>3
<1>17. Stored'
  <2>1. MemoriesKept'
    <3>1. \A cycles : MemoryKept(cycles) => MemoryKept(cycles)'
      BY <1>12, <1>16, MemoryGoesOn
    <3>2. \A q \in Procs : memory[q] # None => MemoryKept(memory[q])
      BY DEF Stored, MemoriesKept
    <3>3. \A q \in Procs : memory[q] # None => MemoryKept(memory[q])'
      BY <3>1, <3>2, <1>2
    <3> QED BY <3>3, <1>2 DEF MemoriesKept
  <2>2. DiskKept'
    <3>1. \A path : path \in DOMAIN disk' /\ disk'[path].whole =>
             Loads(path) /\ disk'[path].content = disk[path].content
      BY <1>3 DEF Loads, Exists, Torn
    <3> QED BY <3>1, <1>12, <1>16, DiskKeptGoesOn DEF Stored
  <2>3. WritesKept'
    <3>1. \A q, i, c, run : KeptBefore(q, i, c, run) => KeptBefore(q, i, c, run)'
      BY <1>2, <1>12, <1>16, KeptBeforeSame
    <3> QED BY <3>1, <1>2 DEF Stored, WritesKept
  <2> QED BY <2>1, <2>2, <2>3 DEF Stored
<1>18. Swaps'
  <2>1. \A q \in Procs : Busy(q)' = Busy(q) /\ Now(q)' = Now(q)
    BY <1>2 DEF Busy, Now
  <2>2. HasTemp(p)' => e.path = Temp
    BY <1>1, <1>2, <2>1 DEF HasTemp
  <2>3. \A q \in Procs \ {p} : HasTemp(q)' <=> HasTemp(q)
    BY <1>2, <2>1 DEF HasTemp
  <2>4. ~shared' => /\ ~shared
                    /\ e.path = Temp => \A q \in Procs \ {p} : ~HasTemp(q)
    BY <1>1 DEF OpenFile, HasTemp
  <2>5. ~shared' => \A q, r \in Procs : HasTemp(q)' /\ HasTemp(r)' => q = r
    BY <2>2, <2>3, <2>4 DEF Swaps
  <2>6. ~shared' /\ Exists(Collected)' => disk'[Collected].whole
    BY <2>4, <1>3, <1>8 DEF Swaps, Exists
  <2>7. ASSUME ~shared', NEW q \in Procs
        PROVE  /\ open'[q] # Collected
               /\ Busy(q)' /\ Now(q)' = Swap => Exists(Temp)' /\ disk'[Temp].whole
               /\ open'[q] = Temp => disk'[Temp] = Torn
    <3>1. CASE q = p
      <4>1. Now(q)' # Swap
        BY <3>1, <1>1, <1>2, <2>1
      <4> QED BY <4>1, <3>1, <1>2, <1>3, <1>8
    <3>2. CASE q # p
      <4>1. open'[q] = open[q]
        BY <3>2, <1>2
      <4>2. Busy(q) /\ Now(q) = Swap => e.path # Temp /\ Exists(Temp) /\ disk[Temp].whole
        BY <3>2, <2>4, <2>7 DEF Swaps, HasTemp
      <4>3. open[q] = Temp => Busy(q) /\ Exists(Temp)
        BY NoneAssumption DEF Opened
      <4>4. open[q] = Temp => e.path # Temp /\ disk[Temp] = Torn
        BY <3>2, <4>3, <2>4, <2>7 DEF Swaps, HasTemp
      <4>5. open[q] # Collected
        BY <2>4, <2>7 DEF Swaps
      <4> QED BY <4>1, <4>2, <4>3, <4>4, <4>5, <1>3, <2>1 DEF Exists
    <3> QED BY <3>1, <3>2
  <2>8. \A q \in Procs : \A i \in DOMAIN todo[q] :
           todo[q][i] = Swap /\ i > 1 => todo[q][i - 1].path = Temp
    BY DEF Swaps
  <2> QED BY <1>2, <2>5, <2>6, <2>7, <2>8 DEF Swaps
<1> QED BY <1>11, <1>12, <1>13, <1>14, <1>15, <1>17, <1>18

-----------------------------------------------------------------------------
(* A file is closed *)

LEMMA WholeOverTorn ==
    ASSUME NEW file, file = Torn
    PROVE  \A whole \in {TRUE, file.content = None} : whole = TRUE
<1>1. (file.content = None) <=> TRUE
  BY DEF Torn
<1>2. (file.content = None) = TRUE
  BY <1>1, Zenon
<1> QED BY <1>2, Zenon

\* What is closed is whole, unless it was written over another process's.
LEMMA CloseFileInv ==
    ASSUME Inv, NEW p \in Procs, CloseFile(p)
    PROVE  Inv'
<1> USE DEF Inv
<1>0. Bridge # Tool /\ Bridge \in Procs /\ Tool \in Procs /\ Procs = {Bridge, Tool} /\ runs[Bridge] \in Nat
  BY FilesAssumption DEF Procs, Types
<1>1. PICK e : e = Now(p)
  OBVIOUS
<1>2. PICK x : x = open[p]
  OBVIOUS
<1>3. x # None /\ Busy(p) /\ e # Swap /\ Exists(x) /\ (x = e.path \/ (e.path = Temp /\ x = Collected))
  BY <1>1, <1>2 DEF CloseFile, Opened
<1>4. PICK whole \in {TRUE, disk[x].content = None} :
         disk' = Put(disk, x, [content |-> e.content, whole |-> whole])
  BY <1>1, <1>2 DEF CloseFile
<1>5. /\ runs' = runs /\ save' = save /\ taken' = taken /\ shared' = shared
      /\ memory' = IF e.path = Temp THEN [memory EXCEPT ![p] = e.content] ELSE memory
      /\ DOMAIN open' = Procs /\ open'[p] = None /\ \A q \in Procs \ {p} : open'[q] = open[q]
      /\ DOMAIN todo' = Procs /\ todo'[p] = Tail(todo[p]) /\ \A q \in Procs \ {p} : todo'[q] = todo[q]
  BY <1>1 DEF CloseFile, Types, Entries
<1> DEFINE file == [content |-> e.content, whole |-> whole]
<1>6. /\ DOMAIN disk' = DOMAIN disk /\ disk'[x] = file
      /\ \A path \in DOMAIN disk : path # x => disk'[path] = disk[path]
  BY <1>3, <1>4 DEF Put, Exists
<1>7. file.content = e.content /\ file.whole \in BOOLEAN /\ (whole = TRUE => file = Full(e) /\ file.whole)
  BY DEF Full
<1> HIDE DEF file
<1>8. /\ todo[p][1] = e /\ 1 \in DOMAIN todo[p]
      /\ \/ e \in Others
         \/ p = Bridge /\ \E l \in Lists : e \in Writes(l)
      /\ DOMAIN Tail(todo[p]) = 1..(Len(todo[p]) - 1) /\ Len(todo[p]) \in Nat /\ DOMAIN todo[p] = 1..Len(todo[p])
      /\ \A i \in DOMAIN Tail(todo[p]) :
            i + 1 \in DOMAIN todo[p] /\ Tail(todo[p])[i] = todo[p][i + 1] /\ i \in Nat /\ i >= 1
      /\ Tail(todo[p]) # <<>> => Last(Tail(todo[p])) = Last(todo[p])
      /\ p = Bridge => Tail(todo[p]) \in Seq(ListWrites \union Others)
      /\ p = Tool => Tail(todo[p]) \in Seq(Others)
  BY <1>1, <1>3, WhatIsNow
<1>9. /\ Lists' = Lists /\ ListWrites' = ListWrites /\ TakenAs(taken, runs[Bridge])
  BY <1>5 DEF Lists, ListWrites, Types
<1>10. e \in Others => /\ e.path \in OtherPaths /\ e.path # Collected
                       /\ e.path = Temp => e \in TempWrites /\ e.content \in Memories /\ e.content # None
                       /\ e.path # Temp => e \in RowWrites /\ x = e.path
                       /\ e \in RowWrites => e.path = RowPath(e.content.cycle) /\ e.content \in Captures
  BY <1>3, OtherKinds, SinglePaths, NoneAssumption DEF Others, Memories
<1>11. \A l \in Lists : e \in Writes(l) => e.path \notin OtherPaths /\ e \notin Others /\ x = e.path /\ p = Bridge
  <2>1. \A l \in Lists : e \in Writes(l) => e.path \notin OtherPaths /\ e \notin Others
    BY <1>0, <1>9, ListsApart DEF Lists
  <2> QED BY <2>1, <1>3, <1>8 DEF OtherPaths
<1>12. \A l \in Lists : e \notin Writes(l) => \A w \in Writes(l) : w.path # x
  <2> SUFFICES ASSUME NEW l \in Lists, e \notin Writes(l), NEW w \in Writes(l), w.path = x PROVE FALSE
    OBVIOUS
  <2>1. CASE e \in Others
    <3>1. x \in OtherPaths
      BY <2>1, <1>3, <1>10 DEF OtherPaths
    <3> QED BY <3>1, <1>0, <1>9, ListsApart DEF Lists
  <2>2. CASE \E m \in Lists : e \in Writes(m)
    BY <2>2, <1>0, <1>9, <1>11, OneWrite DEF Lists
  <2> QED BY <2>1, <2>2, <1>8
<1>13. \A l \in Lists : e \in Writes(l) => \A w \in Writes(l) : w # e => w.path # x
  BY <1>0, <1>9, <1>11, OneWrite DEF Lists
<1>14. \A l \in Lists : e \in Writes(l) => disk'[x] = Full(e)
  <2> SUFFICES ASSUME NEW l \in Lists, e \in Writes(l) PROVE disk'[x] = Full(e)
    OBVIOUS
  <2>1. disk[x] = Torn
    BY <1>1, <1>2, <1>3, <1>11 DEF ListsOrdered, Ordered
  <2>2. whole = TRUE
    BY <2>1, WholeOverTorn
  <2> QED BY <2>2, <1>6, <1>7
<1>15. Entries'
  BY <1>0, <1>5, <1>8, <1>9 DEF Entries
<1>16. Types'
  <2>1. \A path \in DOMAIN disk' : disk'[path].whole \in BOOLEAN
    <3>1. disk'[x].whole \in BOOLEAN
      BY <1>6, <1>7
    <3>2. \A path \in DOMAIN disk : path # x => disk'[path].whole \in BOOLEAN
      BY <1>6 DEF Types
    <3> QED BY <3>1, <3>2, <1>6
  <2>2. memory' \in [Procs -> Memories \union {None}]
    <3>1. e.path = Temp => e.content \in Memories
      <4>1. \A l \in Lists : e \in Writes(l) => e.path # Temp
        BY <1>11 DEF OtherPaths
      <4> QED BY <4>1, <1>8, <1>10
    <3> QED BY <3>1, <1>5 DEF Types
  <2> QED BY <1>5, <1>6, <1>9, <2>1, <2>2 DEF Types
<1>17. Opened'
  BY <1>5, <1>6 DEF Opened, Busy, Now, Exists
<1>18. ListsOrdered'
  <2> SUFFICES ASSUME NEW l \in Lists PROVE Ordered(l)'
    BY <1>9 DEF ListsOrdered
  <2>1. Ordered(l)
    BY DEF ListsOrdered
  <2>2. CASE e \notin Writes(l)
    <3>1. Elsewhere(l)
      BY <2>2, <1>6, <1>12 DEF Elsewhere
    <3>2. CASE p = Bridge
      BY <3>1, <3>2, <2>1, <2>2, <1>1, <1>3, <1>5, OrderedShorter
    <3>3. CASE p = Tool
      <4>1. open'[Bridge] = open[Bridge] /\ todo'[Bridge] = todo[Bridge]
        BY <3>3, <1>0, <1>5
      <4>2. open[Bridge] # None => Exists(open[Bridge])
        BY <1>0 DEF Opened
      <4> QED BY <3>1, <4>1, <4>2, <2>1, OrderedSame
    <3> QED BY <3>2, <3>3, <1>0
  <2>3. CASE e \in Writes(l)
    <3>1. p = Bridge /\ x = e.path /\ disk'[x] = Full(e)
      BY <2>3, <1>11, <1>14
    <3>2. \A w \in Writes(l) : w # e => (Done(w)' <=> Done(w))
      BY <2>3, <1>6, <1>13 DEF Done, Exists
    <3>3. Done(e)'
      BY <3>1, <1>3, <1>6 DEF Done, Exists
    <3>4. open'[Bridge] = None
      BY <3>1, <1>5
    <3>5. l.seal \in Writes(l) /\ l.files \subseteq Writes(l) /\ \A w \in l.files : w # l.seal
      BY <1>0, <1>9, FilesApart DEF Writes, Lists
    <3> DEFINE s == todo[Bridge]
               t == Tail(todo[Bridge])
    <3>6. /\ todo'[Bridge] = t /\ s[1] = e /\ 1 \in DOMAIN s
          /\ DOMAIN t = 1..(Len(s) - 1) /\ Len(s) \in Nat /\ DOMAIN s = 1..Len(s)
          /\ \A i \in DOMAIN t : i + 1 \in DOMAIN s /\ t[i] = s[i + 1] /\ i \in Nat /\ i >= 1
      BY <3>1, <1>5, <1>8
    <3> HIDE DEF s, t
    <3>7. CASE e # l.seal
      <4>1. e \in l.files
        BY <2>3, <3>7 DEF Writes
      <4>2. ~Exists(l.seal.path)
        BY <2>1, <3>6, <4>1 DEF Ordered, s
      <4>3. ~Exists(l.seal.path)'
        BY <4>2, <1>6 DEF Exists
      <4>4. ASSUME NEW i \in DOMAIN t, t[i] = l.seal
            PROVE  /\ \A w \in l.files : Done(w)' \/ \E j \in 1..(i - 1) : t[j] = w
                   /\ \A j \in DOMAIN t : j > i => t[j] \notin Writes(l)
        <5>1. i + 1 \in DOMAIN s /\ s[i + 1] = l.seal /\ i \in Nat
          BY <3>6, <4>4
        <5>2. /\ \A w \in l.files : Done(w) \/ \E j \in 1..((i + 1) - 1) : s[j] = w
              /\ \A j \in DOMAIN s : j > i + 1 => s[j] \notin Writes(l)
          BY <2>1, <5>1 DEF Ordered, s
        <5>3. ASSUME NEW w \in l.files, NEW j \in 1..((i + 1) - 1), s[j] = w, w # e
              PROVE  \E k \in 1..(i - 1) : t[k] = w
          <6>1. j # 1
            BY <3>6, <5>3
          <6>2. j - 1 \in 1..(i - 1) /\ j - 1 \in DOMAIN t /\ (j - 1) + 1 = j
            BY <5>1, <6>1, <3>6
          <6>3. t[j - 1] = s[(j - 1) + 1]
            BY <6>2, <3>6
          <6>4. t[j - 1] = w
            BY <5>3, <6>2, <6>3
          <6> QED BY <6>2, <6>4
        <5>4. \A j \in DOMAIN t : j > i => j + 1 \in DOMAIN s /\ j + 1 > i + 1 /\ t[j] = s[j + 1]
          BY <3>6, <5>1
        <5>5. \A w \in l.files : w = e => Done(w)'
          BY <3>3
        <5>6. \A w \in l.files : Done(w)' \/ \E j \in 1..(i - 1) : t[j] = w
          BY <3>2, <3>5, <5>2, <5>3, <5>5
        <5>7. \A j \in DOMAIN t : j > i => t[j] \notin Writes(l)
          BY <5>2, <5>4
        <5> QED BY <5>6, <5>7
      <4>5. \A i \in DOMAIN todo'[Bridge] : todo'[Bridge][i] = l.seal =>
               /\ \A w \in l.files : Done(w)' \/ \E j \in 1..(i - 1) : todo'[Bridge][j] = w
               /\ \A j \in DOMAIN todo'[Bridge] : j > i => todo'[Bridge][j] \notin Writes(l)
        BY <3>6, <4>4
      <4> QED BY <3>4, <4>3, <4>5 DEF Ordered
    <3>8. CASE e = l.seal
      <4>1. Exists(l.seal.path) /\ disk'[l.seal.path] = Full(l.seal)
        BY <3>1, <3>8, <1>3
      <4>2. \A w \in l.files : Done(w)'
        BY <2>1, <3>2, <3>5, <3>8, <4>1 DEF Ordered
      <4>3. \A j \in DOMAIN s : j > 1 => s[j] \notin Writes(l)
        BY <2>1, <3>6, <3>8 DEF Ordered, s
      <4>4. \A i \in DOMAIN t : i + 1 > 1 /\ i + 1 \in DOMAIN s /\ t[i] = s[i + 1]
        BY <3>6
      <4>5. \A i \in DOMAIN t : t[i] \notin l.files /\ t[i] # l.seal
        BY <4>3, <4>4, <3>5
      <4>6. \A i \in DOMAIN todo'[Bridge] : todo'[Bridge][i] \notin l.files /\ todo'[Bridge][i] # l.seal
        BY <4>5, <3>6
      <4> QED BY <3>4, <4>1, <4>2, <4>6 DEF Ordered
    <3> QED BY <3>7, <3>8
  <2> QED BY <2>2, <2>3
<1>19. Phases'
  <2>1. CASE p = Tool
    <3>1. todo'[Bridge] = todo[Bridge] /\ memory'[Bridge] = memory[Bridge]
      BY <2>1, <1>0, <1>5
    <3> QED BY <3>1, <1>5, <1>6 DEF Phases, Running, Busy, Exists
  <2>2. CASE p = Bridge
    <3> DEFINE log == LogList(runs[Bridge])
               s == todo[Bridge]
               t == Tail(todo[Bridge])
    <3>1. /\ todo'[Bridge] = t /\ s[1] = e /\ 1 \in DOMAIN s
          /\ \A i \in DOMAIN t : i + 1 \in DOMAIN s /\ t[i] = s[i + 1]
          /\ t # <<>> => Last(t) = Last(s)
      BY <2>2, <1>5, <1>8
    <3>2. Running(Bridge)' <=> Running(Bridge)
      <4>1. CASE e.path # Temp
        BY <4>1, <1>5 DEF Running
      <4>2. CASE e.path = Temp
        <5>1. Temp \in OtherPaths
          BY DEF OtherPaths
        <5>2. e \in Others
          BY <4>2, <5>1, <1>8, <1>11
        <5>3. e.content # None
          BY <4>2, <5>2, <1>10
        <5>4. memory'[Bridge] = e.content
          BY <2>2, <4>2, <1>0, <1>5 DEF Types
        <5>5. Running(Bridge)'
          BY <5>3, <5>4 DEF Running
        <5>6. Running(Bridge)
          <6> SUFFICES ASSUME ~Running(Bridge) PROVE FALSE
            OBVIOUS
          <6>1. runs[Bridge] >= 1 /\ e \in Writes(log)
            BY <3>1, <2>2, <1>3 DEF Phases
          <6>2. log \in Lists
            BY <6>1, <1>0 DEF Lists, ListsOf
          <6> QED BY <5>2, <6>1, <6>2, <1>11
        <5> QED BY <5>5, <5>6
      <4> QED BY <4>1, <4>2
    <3> HIDE DEF t, s
    <3>3. ASSUME Running(Bridge)
          PROVE  /\ runs[Bridge] >= 1 /\ ~Exists(log.seal.path)'
                 /\ \A i \in DOMAIN t : t[i] \notin Writes(log)
      <4>1. /\ runs[Bridge] >= 1 /\ ~Exists(log.seal.path)
            /\ \A i \in DOMAIN s : s[i] \notin Writes(log)
        BY <3>3 DEF Phases, s
      <4> QED BY <4>1, <3>1, <1>5, <1>6 DEF Exists
    <3>4. ASSUME ~Running(Bridge), t # <<>>
          PROVE  /\ runs[Bridge] >= 1 /\ Last(t) = log.seal
                 /\ \A i \in DOMAIN t : t[i] \in Writes(log)
      <4>1. /\ runs[Bridge] >= 1 /\ Last(s) = log.seal
            /\ \A i \in DOMAIN s : s[i] \in Writes(log)
        BY <3>4, <2>2, <1>3 DEF Phases, s
      <4> QED BY <4>1, <3>1, <3>4
    <3>5. Busy(Bridge)' <=> t # <<>>
      BY <3>1 DEF Busy
    <3>6. LogList(runs[Bridge])' = log
      BY <1>5
    <3> QED BY <3>1, <3>2, <3>3, <3>4, <3>5, <3>6, <1>5 DEF Phases
  <2> QED BY <2>1, <2>2, <1>0
<1>20. Grows
  <2> SUFFICES ASSUME NEW dir \in DOMAIN taken, NEW seal, seal = CaptureList(taken[dir]).seal,
                      seal.path \in DOMAIN disk, disk[seal.path] = Full(seal)
               PROVE  seal.path \in DOMAIN disk' /\ disk'[seal.path] = Full(seal)
    BY <1>0, <1>5 DEF Grows
  <2> DEFINE l == CaptureList(taken[dir])
  <2>1. l \in Lists /\ l.seal \in Writes(l)
    BY DEF Lists, ListsOf, Writes
  <2> HIDE DEF l
  <2>2. seal = l.seal
    BY DEF l
  <2>3. CASE seal.path # x
    BY <2>3, <1>6
  <2>4. CASE seal.path = x
    <3>1. e \in Writes(l) /\ seal = e
      BY <2>1, <2>2, <2>4, <1>12, <1>13
    <3> QED BY <3>1, <2>1, <2>4, <1>6, <1>14
  <2> QED BY <2>3, <2>4
<1>21. Stored'
  <2>1. \A cycles : MemoryKept(cycles) => MemoryKept(cycles)'
    BY <1>16, <1>20, MemoryGoesOn
  <2>2. \A c, run : Kept(c, run) => Kept(c, run)'
    BY <1>16, <1>20, KeptGoesOn
  <2>3. \A c, run : KeptBefore(p, 1 - 1, c, run) => Kept(c, run)
    <3>1. \A j \in 1..(1 - 1) : FALSE
      OBVIOUS
    <3> QED BY <3>1, KeptOrBefore
  <2>4. e \in RowWrites => Kept(e.content.cycle, e.content.run)
    BY <2>3, <1>8 DEF Stored, WritesKept
  <2>5. e \in TempWrites => MemoryKept(e.content)
    <3>1. e \in TempWrites => \A c \in Cycles : e.content[c] # None => KeptBefore(p, 1 - 1, c, e.content[c])
      BY <1>8 DEF Stored, WritesKept
    <3>2. e \in TempWrites => e.content \in Memories
      BY DEF TempWrites, Write
    <3> QED BY <2>3, <3>1, <3>2 DEF MemoryKept
  <2>6. MemoriesKept'
    <3>1. \A q \in Procs : memory[q] # None => MemoryKept(memory[q])
      BY DEF Stored, MemoriesKept
    <3>2. ASSUME NEW q \in Procs, NEW m, m = memory'[q], m # None PROVE MemoryKept(m)
      <4>1. CASE e.path = Temp /\ q = p
        <5>1. Temp \in OtherPaths
          BY DEF OtherPaths
        <5>2. e \in TempWrites
          BY <4>1, <5>1, <1>8, <1>10, <1>11
        <5>3. m = e.content
          BY <4>1, <3>2, <1>5 DEF Types
        <5> QED BY <5>2, <5>3, <2>5
      <4>2. CASE ~(e.path = Temp /\ q = p)
        <5>1. m = memory[q]
          BY <4>2, <3>2, <1>5 DEF Types
        <5> QED BY <5>1, <3>1, <3>2
      <4> QED BY <4>1, <4>2
    <3>3. \A q \in Procs : \A m : m = memory'[q] /\ m # None => MemoryKept(m)'
      BY <3>2, <2>1
    <3> QED BY <3>3 DEF MemoriesKept
  <2>7. DiskKept'
    <3>1. ASSUME NEW c \in Cycles, Loads(RowPath(c))'
          PROVE  /\ disk'[RowPath(c)].content \in Captures
                 /\ \A run : run = disk'[RowPath(c)].content.run => Kept(c, run)'
      <4>1. RowPath(c) \in DOMAIN disk /\ disk'[RowPath(c)].whole
        BY <3>1, <1>6 DEF Loads, Exists
      <4>2. CASE RowPath(c) = x
        <5>1. RowPath(c) \in OtherPaths /\ RowPath(c) # Collected /\ RowPath(c) # Temp
          BY SinglePaths DEF OtherPaths
        <5>2. e.path = RowPath(c) /\ e \in Others
          BY <4>2, <5>1, <1>3, <1>8, <1>11
        <5>3. e \in RowWrites
          BY <5>1, <5>2, <1>10
        <5>4. e.content.cycle = c
          BY <5>2, <5>3, <1>10, SinglePaths
        <5>5. disk'[RowPath(c)].content = e.content
          BY <4>2, <1>6, <1>7
        <5>6. e.content \in Captures /\ Kept(c, e.content.run)
          BY <5>2, <5>3, <5>4, <1>10, <2>4
        <5> QED BY <5>5, <5>6, <2>2
      <4>3. CASE RowPath(c) # x
        <5>1. disk'[RowPath(c)] = disk[RowPath(c)]
          BY <4>1, <4>3, <1>6
        <5>2. Loads(RowPath(c))
          BY <4>1, <5>1 DEF Loads, Exists
        <5>3. disk[RowPath(c)].content \in Captures /\ Kept(c, disk[RowPath(c)].content.run)
          BY <5>2 DEF Stored, DiskKept
        <5> QED BY <5>1, <5>3, <2>2
      <4> QED BY <4>2, <4>3
    <3>2. ASSUME NEW path \in {Temp, Collected}, Loads(path)', NEW m, m = disk'[path].content
          PROVE  MemoryKept(m)'
      <4>1. path \in DOMAIN disk /\ disk'[path].whole /\ path \in OtherPaths
        BY <3>2, <1>6 DEF Loads, Exists, OtherPaths
      <4>2. CASE path = x
        <5>1. e \in Others /\ e.path = Temp
          <6>1. \A c : RowPath(c) # path
            BY SinglePaths
          <6>2. e \in Others
            BY <4>1, <4>2, <1>3, <1>8, <1>11
          <6> QED BY <4>2, <6>1, <6>2, <1>10
        <5>2. m = e.content
          BY <3>2, <4>2, <1>6, <1>7
        <5> QED BY <5>1, <5>2, <1>10, <2>1, <2>5
      <4>3. CASE path # x
        <5>1. disk'[path] = disk[path]
          BY <4>1, <4>3, <1>6
        <5>2. Loads(path)
          BY <4>1, <5>1 DEF Loads, Exists
        <5>3. MemoryKept(disk[path].content)
          BY <5>2 DEF Stored, DiskKept
        <5> QED BY <5>1, <5>3, <2>1, <3>2
      <4> QED BY <4>2, <4>3
    <3> QED BY <3>1, <3>2 DEF DiskKept
  <2>8. WritesKept'
    <3>1. ASSUME NEW q \in Procs, NEW i \in DOMAIN todo'[q]
          PROVE  \E k \in DOMAIN todo[q] : /\ todo'[q][i] = todo[q][k]
                                           /\ \A c, run : KeptBefore(q, k - 1, c, run) => KeptBefore(q, i - 1, c, run)'
      <4>1. CASE q # p
        <5>1. todo'[q] = todo[q]
          BY <4>1, <1>5
        <5>2. \A c, run : KeptBefore(q, i - 1, c, run) => KeptBefore(q, i - 1, c, run)'
          <6>1. CASE q = Bridge
            BY <5>1, <6>1, <1>5, <1>16, <1>20, KeptBeforeSame
          <6>2. CASE q = Tool
            BY <6>2, <1>16, <1>20, OfToolGoesOn
          <6> QED BY <6>1, <6>2, <1>0
        <5> QED BY <5>1, <5>2
      <4>2. CASE q = p
        <5>1. i \in DOMAIN Tail(todo[p]) /\ i + 1 \in DOMAIN todo[p] /\ todo'[q][i] = todo[q][i + 1]
          BY <4>2, <1>5, <1>8
        <5>2. CASE p = Tool
          <6>1. \A c, run : KeptBefore(Tool, (i + 1) - 1, c, run) => Kept(c, run)
            BY <1>0, KeptOrBefore
          <6>2. \A c, run : Kept(c, run) => KeptBefore(Tool, i - 1, c, run)'
            BY <1>16, <1>20, KeptIsBefore
          <6> QED BY <4>2, <5>1, <5>2, <6>1, <6>2
        <5>3. CASE p = Bridge
          <6>1. ASSUME NEW c, NEW run, KeptBefore(Bridge, (i + 1) - 1, c, run)
                PROVE  KeptBefore(Bridge, i - 1, c, run)'
            <7>1. CASE Kept(c, run)
              BY <7>1, <1>16, <1>20, KeptIsBefore
            <7>2. CASE CaptureDir(c, run) \in DOMAIN taken
              <8> DEFINE l == CaptureList(taken[CaptureDir(c, run)])
              <8>1. l \in Lists /\ l.seal \in Writes(l) /\ SealOf(c, run) = l.seal /\ SealOf(c, run)' = l.seal
                BY <7>2, <1>5 DEF Lists, ListsOf, Writes, SealOf
              <8> HIDE DEF l
              <8>2. Now(Bridge) = SealOf(c, run) => Done(SealOf(c, run))'
                <9> SUFFICES ASSUME e = l.seal PROVE Done(SealOf(c, run))'
                  BY <5>3, <8>1, <1>1
                <9>1. x = e.path /\ disk'[x] = Full(e)
                  BY <8>1, <1>11, <1>14
                <9>2. e.path \in DOMAIN disk' /\ disk'[e.path] = Full(e)
                  BY <9>1, <1>3, <1>6 DEF Exists
                <9> QED BY <8>1, <9>2 DEF Done, Exists
              <8> QED BY <5>1, <5>3, <6>1, <8>2, <1>3, <1>5, <1>16, <1>20, KeptBeforeShorter
            <7> QED BY <7>1, <7>2, <6>1, KeptOrBefore
          <6> QED BY <4>2, <5>1, <5>3, <6>1
        <5> QED BY <5>2, <5>3, <1>0
      <4> QED BY <4>1, <4>2
    <3>2. ASSUME NEW q \in Procs, NEW i \in DOMAIN todo'[q], NEW w, w = todo'[q][i]
          PROVE  /\ w \in RowWrites => KeptBefore(q, i - 1, w.content.cycle, w.content.run)'
                 /\ w \in TempWrites => \A c \in Cycles : w.content[c] # None =>
                                           KeptBefore(q, i - 1, c, w.content[c])'
      <4>1. PICK k \in DOMAIN todo[q] : /\ todo'[q][i] = todo[q][k]
                                        /\ \A c, run : KeptBefore(q, k - 1, c, run) => KeptBefore(q, i - 1, c, run)'
        BY <3>1
      <4>2. /\ w \in RowWrites => KeptBefore(q, k - 1, w.content.cycle, w.content.run)
            /\ w \in TempWrites => \A c \in Cycles : w.content[c] # None => KeptBefore(q, k - 1, c, w.content[c])
        BY <3>2, <4>1 DEF Stored, WritesKept
      <4> QED BY <4>1, <4>2
    <3> QED BY <3>2 DEF WritesKept
  <2> QED BY <2>6, <2>7, <2>8 DEF Stored
<1>22. Swaps'
  <2>1. ASSUME NEW q \in Procs, NEW i \in DOMAIN todo'[q], todo'[q][i] = Swap, i > 1
        PROVE  todo'[q][i - 1].path = Temp
    <3>1. CASE q # p
      BY <3>1, <2>1, <1>5 DEF Swaps
    <3>2. CASE q = p
      <4> DEFINE t == Tail(todo[p])
      <4>1. todo'[p] = t /\ i \in DOMAIN t /\ i + 1 \in DOMAIN todo[p] /\ todo[p][i + 1] = Swap /\ i \in Nat
        BY <2>1, <3>2, <1>5, <1>8
      <4>2. todo[p][(i + 1) - 1].path = Temp
        <5>1. i + 1 > 1
          BY <4>1, <2>1
        <5> QED BY <4>1, <5>1 DEF Swaps
      <4>3. i - 1 \in DOMAIN t /\ (i - 1) + 1 = i /\ (i + 1) - 1 = i
        BY <4>1, <2>1, <1>8
      <4>4. t[i - 1] = todo[p][(i - 1) + 1]
        BY <4>3, <1>8
      <4> QED BY <3>2, <4>1, <4>2, <4>3, <4>4
    <3> QED BY <3>1, <3>2
  <2>2. \A q \in Procs \ {p} : (HasTemp(q)' <=> HasTemp(q)) /\ Busy(q)' = Busy(q) /\ Now(q)' = Now(q)
    BY <1>5 DEF HasTemp, Busy, Now
  <2>3. Busy(p)' /\ Now(p)' = Swap => e.path = Temp
    <3> SUFFICES ASSUME Tail(todo[p]) # <<>>, Head(Tail(todo[p])) = Swap PROVE e.path = Temp
      BY <1>5 DEF Busy, Now
    <3>1. 1 \in DOMAIN Tail(todo[p]) /\ Head(Tail(todo[p])) = Tail(todo[p])[1]
      BY <1>0, <1>8, Shortened
    <3>2. 1 + 1 \in DOMAIN todo[p] /\ todo[p][1 + 1] = Swap
      BY <3>1, <1>8
    <3>3. todo[p][(1 + 1) - 1].path = Temp
      BY <3>2 DEF Swaps
    <3> QED BY <3>3, <1>8
  <2>4. ~shared => x # Collected
    BY <1>2 DEF Swaps
  <2>5. ~shared /\ x = Temp => HasTemp(p) /\ disk[Temp] = Torn
    BY <1>2, <1>3 DEF Swaps, HasTemp
  <2>6. ~shared /\ e.path = Temp => x = Temp
    BY <2>4, <1>3
  <2>7. ~shared /\ HasTemp(p)' => x = Temp /\ Now(p)' = Swap
    <3>1. open'[p] # Temp
      BY <1>5, NoneAssumption
    <3> QED BY <3>1, <2>3, <2>6 DEF HasTemp
  <2>8. ~shared' => \A q, r \in Procs : HasTemp(q)' /\ HasTemp(r)' => q = r
    BY <2>2, <2>5, <2>7, <1>5 DEF Swaps
  <2>9. ~shared' /\ Exists(Collected)' => disk'[Collected].whole
    BY <2>4, <1>5, <1>6 DEF Swaps, Exists
  <2>10. ASSUME ~shared', NEW q \in Procs
         PROVE  /\ open'[q] # Collected
                /\ Busy(q)' /\ Now(q)' = Swap => Exists(Temp)' /\ disk'[Temp].whole
                /\ open'[q] = Temp => disk'[Temp] = Torn
    <3>1. CASE q = p
      <4>1. open'[p] # Collected /\ open'[p] # Temp
        BY <1>5, NoneAssumption
      <4>2. ASSUME Busy(p)', Now(p)' = Swap PROVE Exists(Temp)' /\ disk'[Temp].whole
        <5>1. x = Temp /\ disk[x] = Torn
          BY <4>2, <2>3, <2>5, <2>6, <2>10, <1>5
        <5>2. whole = TRUE
          BY <5>1, WholeOverTorn
        <5> QED BY <5>1, <5>2, <1>3, <1>6, <1>7 DEF Exists
      <4> QED BY <3>1, <4>1, <4>2
    <3>2. CASE q # p
      <4>1. open'[q] = open[q]
        BY <3>2, <1>5
      <4>2. Busy(q) /\ Now(q) = Swap => x # Temp /\ Exists(Temp) /\ disk[Temp].whole
        BY <3>2, <2>5, <2>10, <1>5 DEF Swaps, HasTemp
      <4>3. open[q] = Temp => Busy(q) /\ Exists(Temp)
        BY NoneAssumption DEF Opened
      <4>4. open[q] = Temp => x # Temp /\ disk[Temp] = Torn
        BY <3>2, <4>3, <2>5, <2>10, <1>5 DEF Swaps, HasTemp
      <4>5. open[q] # Collected
        BY <2>10, <1>5 DEF Swaps
      <4> QED BY <3>2, <4>1, <4>2, <4>3, <4>4, <4>5, <1>6, <2>2 DEF Exists
    <3> QED BY <3>1, <3>2
  <2> QED BY <2>1, <2>8, <2>9, <2>10 DEF Swaps
<1> QED BY <1>15, <1>16, <1>17, <1>18, <1>19, <1>21, <1>22

-----------------------------------------------------------------------------
(* The temporary file is swapped in *)

\* What is swapped in is whole, unless it was shared.
LEMMA SwapInInv ==
    ASSUME Inv, NEW p \in Procs, SwapIn(p)
    PROVE  Inv'
<1> USE DEF Inv
<1>0. Bridge # Tool /\ Bridge \in Procs /\ Tool \in Procs /\ Procs = {Bridge, Tool} /\ runs[Bridge] \in Nat
  BY FilesAssumption DEF Procs, Types
<1>1. /\ Busy(p) /\ Now(p) = Swap /\ Exists(Temp)
      /\ memory' = memory /\ runs' = runs /\ save' = save /\ taken' = taken /\ shared' = shared
      /\ DOMAIN todo' = Procs /\ todo'[p] = Tail(todo[p]) /\ \A q \in Procs \ {p} : todo'[q] = todo[q]
      /\ open' = [q \in Procs |-> IF open[q] = Temp THEN Collected ELSE open[q]]
  BY DEF SwapIn, Entries
<1>2. /\ DOMAIN disk' = (DOMAIN disk \ {Temp}) \union {Collected}
      /\ disk'[Collected] = disk[Temp]
      /\ \A path \in DOMAIN disk : path \notin {Temp, Collected} =>
            path \in DOMAIN disk' /\ disk'[path] = disk[path]
  BY DEF SwapIn
<1>3. open[p] = None /\ open'[p] = None
  <2>1. open[p] = None
    BY <1>1 DEF Opened
  <2> QED BY <2>1, <1>1, NoneAssumption
<1>4. /\ todo[p][1] = Swap /\ 1 \in DOMAIN todo[p]
      /\ DOMAIN Tail(todo[p]) = 1..(Len(todo[p]) - 1) /\ Len(todo[p]) \in Nat /\ DOMAIN todo[p] = 1..Len(todo[p])
      /\ \A i \in DOMAIN Tail(todo[p]) :
            i + 1 \in DOMAIN todo[p] /\ Tail(todo[p])[i] = todo[p][i + 1] /\ i \in Nat /\ i >= 1
      /\ Tail(todo[p]) # <<>> => Last(Tail(todo[p])) = Last(todo[p])
      /\ p = Bridge => Tail(todo[p]) \in Seq(ListWrites \union Others)
      /\ p = Tool => Tail(todo[p]) \in Seq(Others)
  BY <1>1, WhatIsNow
<1>5. Lists' = Lists /\ ListWrites' = ListWrites /\ TakenAs(taken, runs[Bridge])
  BY <1>1 DEF Lists, ListWrites, Types
<1>6. Temp \in OtherPaths /\ Collected \in OtherPaths /\ Temp # Collected /\ Swap \in Others /\ Swap.path = Collected
  BY SinglePaths, OtherKinds DEF OtherPaths, Others
<1>7. \A l \in Lists : Swap \notin Writes(l) /\ \A w \in Writes(l) : w.path \notin {Temp, Collected}
  BY <1>0, <1>5, <1>6, ListsApart DEF Lists
<1>8. Entries'
  BY <1>0, <1>1, <1>4, <1>5 DEF Entries
<1>9. Types'
  <2>1. \A path \in DOMAIN disk' : disk'[path].whole \in BOOLEAN
    <3>1. disk'[Collected].whole \in BOOLEAN
      BY <1>1, <1>2 DEF Types, Exists
    <3>2. \A path \in DOMAIN disk : path \notin {Temp, Collected} => disk'[path].whole \in BOOLEAN
      BY <1>2 DEF Types
    <3> QED BY <3>1, <3>2, <1>2
  <2>2. DOMAIN disk' \subseteq {w.path : w \in ListWrites} \union OtherPaths
    BY <1>2, <1>6 DEF Types
  <2> QED BY <1>1, <1>5, <2>1, <2>2 DEF Types
<1>10. Opened'
  <2>1. ASSUME NEW q \in Procs, NEW m, m = open'[q], m # None
        PROVE  /\ todo'[q] # <<>> /\ Head(todo'[q]) # Swap /\ m \in DOMAIN disk'
               /\ m = Head(todo'[q]).path \/ (Head(todo'[q]).path = Temp /\ m = Collected)
    <3>1. q # p /\ todo'[q] = todo[q]
      BY <2>1, <1>1, <1>3
    <3>2. CASE open[q] = Temp
      <4>1. Busy(q) /\ Now(q) # Swap /\ Now(q).path = Temp
        BY <3>2, <1>6, NoneAssumption DEF Opened
      <4>2. m = Collected /\ Collected \in DOMAIN disk'
        BY <2>1, <3>2, <1>1, <1>2
      <4> QED BY <3>1, <4>1, <4>2 DEF Busy, Now
    <3>3. CASE open[q] # Temp
      <4>1. m = open[q]
        BY <2>1, <3>3, <1>1
      <4>2. Busy(q) /\ Now(q) # Swap /\ m \in DOMAIN disk'
            /\ (m = Now(q).path \/ (Now(q).path = Temp /\ m = Collected))
        BY <2>1, <3>3, <4>1, <1>2 DEF Opened, Exists
      <4> QED BY <3>1, <4>2 DEF Busy, Now
    <3> QED BY <3>2, <3>3
  <2>2. \A q \in Procs : open'[q] # None =>
           /\ todo'[q] # <<>> /\ Head(todo'[q]) # Swap /\ open'[q] \in DOMAIN disk'
           /\ open'[q] = Head(todo'[q]).path \/ (Head(todo'[q]).path = Temp /\ open'[q] = Collected)
    BY <2>1
  <2> QED BY <2>2 DEF Opened, Busy, Now, Exists
<1>11. ListsOrdered'
  <2> SUFFICES ASSUME NEW l \in Lists PROVE Ordered(l)'
    BY <1>5 DEF ListsOrdered
  <2>1. Ordered(l)
    BY DEF ListsOrdered
  <2>2. Elsewhere(l)
    BY <1>2, <1>7 DEF Elsewhere
  <2>3. CASE p = Bridge
    BY <2>1, <2>2, <2>3, <1>1, <1>3, <1>7, OrderedShorter
  <2>4. CASE p = Tool
    <3>1. todo'[Bridge] = todo[Bridge]
      BY <2>4, <1>0, <1>1
    <3>2. ASSUME open'[Bridge] # None, Now(Bridge) \in Writes(l)
          PROVE  open'[Bridge] = open[Bridge] /\ Exists(open[Bridge])
      <4>1. Now(Bridge).path \notin {Temp, Collected}
        BY <3>2, <1>7
      <4>2. open[Bridge] # Temp
        BY <4>1, <1>0, <1>6, NoneAssumption DEF Opened
      <4>3. open'[Bridge] = open[Bridge]
        BY <4>2, <1>0, <1>1
      <4> QED BY <4>3, <3>2, <1>0 DEF Opened
    <3> QED BY <3>1, <3>2, <2>1, <2>2, OrderedSame
  <2> QED BY <2>3, <2>4, <1>0
<1>12. Phases'
  <2> DEFINE log == LogList(runs[Bridge])
  <2>1. log.seal \in Writes(log) /\ log.seal.path = log.seal.path
    BY DEF Writes
  <2>2. runs[Bridge] >= 1 => log \in Lists
    BY <1>0 DEF Lists, ListsOf
  <2>3. Running(Bridge) => runs[Bridge] >= 1 /\ ~Exists(log.seal.path)'
    <3> SUFFICES ASSUME Running(Bridge) PROVE runs[Bridge] >= 1 /\ log.seal.path \notin DOMAIN disk'
      BY <1>1 DEF Exists
    <3>1. runs[Bridge] >= 1 /\ log.seal.path \notin DOMAIN disk
      BY DEF Phases, Exists
    <3>2. log.seal.path \notin {Temp, Collected}
      BY <2>1, <2>2, <3>1, <1>7
    <3> QED BY <3>1, <3>2, <1>2
  <2>4. CASE p = Tool
    <3>1. todo'[Bridge] = todo[Bridge]
      BY <2>4, <1>0, <1>1
    <3> QED BY <3>1, <2>3, <1>1 DEF Phases, Running, Busy
  <2>5. CASE p = Bridge
    <3>1. Running(Bridge)
      <4> SUFFICES ASSUME ~Running(Bridge) PROVE FALSE
        OBVIOUS
      <4>1. runs[Bridge] >= 1 /\ Swap \in Writes(log)
        BY <2>5, <1>1, <1>4 DEF Phases
      <4> QED BY <4>1, <2>2, <1>7
    <3>2. \A i \in DOMAIN todo[Bridge] : todo[Bridge][i] \notin Writes(log)
      BY <3>1 DEF Phases
    <3>3. \A i \in DOMAIN todo'[Bridge] : todo'[Bridge][i] \notin Writes(log)
      BY <2>5, <3>2, <1>1, <1>4
    <3> QED BY <2>3, <3>1, <3>3, <1>1 DEF Phases, Running
  <2> QED BY <2>4, <2>5, <1>0
<1>13. Grows
  <2> SUFFICES ASSUME NEW dir \in DOMAIN taken, NEW seal, seal = CaptureList(taken[dir]).seal,
                      seal.path \in DOMAIN disk, disk[seal.path] = Full(seal)
               PROVE  seal.path \in DOMAIN disk' /\ disk'[seal.path] = Full(seal)
    BY <1>0, <1>1 DEF Grows
  <2>1. CaptureList(taken[dir]) \in Lists /\ CaptureList(taken[dir]).seal \in Writes(CaptureList(taken[dir]))
    BY DEF Lists, ListsOf, Writes
  <2>2. seal.path \notin {Temp, Collected}
    BY <2>1, <1>7
  <2> QED BY <2>2, <1>2
<1>14. Stored'
  <2>1. \A cycles : MemoryKept(cycles) => MemoryKept(cycles)'
    BY <1>9, <1>13, MemoryGoesOn
  <2>2. \A c, run : Kept(c, run) => Kept(c, run)'
    BY <1>9, <1>13, KeptGoesOn
  <2>3. MemoriesKept'
    <3>1. \A q \in Procs : memory[q] # None => MemoryKept(memory[q])
      BY DEF Stored, MemoriesKept
    <3>2. \A q \in Procs : memory[q] # None => MemoryKept(memory[q])'
      BY <2>1, <3>1, <1>1
    <3> QED BY <3>2, <1>1 DEF MemoriesKept
  <2>4. DiskKept'
    <3>1. ASSUME NEW c \in Cycles, Loads(RowPath(c))'
          PROVE  /\ disk'[RowPath(c)].content \in Captures
                 /\ \A run : run = disk'[RowPath(c)].content.run => Kept(c, run)'
      <4>1. RowPath(c) \notin {Temp, Collected}
        BY SinglePaths
      <4>2. RowPath(c) \in DOMAIN disk /\ disk'[RowPath(c)] = disk[RowPath(c)] /\ Loads(RowPath(c))
        BY <3>1, <4>1, <1>2 DEF Loads, Exists
      <4>3. disk[RowPath(c)].content \in Captures /\ Kept(c, disk[RowPath(c)].content.run)
        BY <4>2 DEF Stored, DiskKept
      <4> QED BY <4>2, <4>3, <2>2
    <3>2. ASSUME NEW path \in {Temp, Collected}, Loads(path)', NEW m, m = disk'[path].content
          PROVE  MemoryKept(m)'
      <4>1. path = Collected
        BY <3>2, <1>2, <1>6 DEF Loads, Exists
      <4>2. disk'[path] = disk[Temp] /\ Loads(Temp)
        BY <3>2, <4>1, <1>1, <1>2 DEF Loads
      <4>3. MemoryKept(disk[Temp].content)
        BY <4>2 DEF Stored, DiskKept
      <4> QED BY <3>2, <4>2, <4>3, <2>1
    <3> QED BY <3>1, <3>2 DEF DiskKept
  <2>5. WritesKept'
    <3>1. ASSUME NEW q \in Procs, NEW i \in DOMAIN todo'[q]
          PROVE  \E k \in DOMAIN todo[q] : /\ todo'[q][i] = todo[q][k]
                                           /\ \A c, run : KeptBefore(q, k - 1, c, run) => KeptBefore(q, i - 1, c, run)'
      <4>1. CASE q # p
        <5>1. todo'[q] = todo[q]
          BY <4>1, <1>1
        <5>2. \A c, run : KeptBefore(q, i - 1, c, run) => KeptBefore(q, i - 1, c, run)'
          <6>1. CASE q = Bridge
            BY <5>1, <6>1, <1>1, <1>9, <1>13, KeptBeforeSame
          <6>2. CASE q = Tool
            BY <6>2, <1>9, <1>13, OfToolGoesOn
          <6> QED BY <6>1, <6>2, <1>0
        <5> QED BY <5>1, <5>2
      <4>2. CASE q = p
        <5>1. i \in DOMAIN Tail(todo[p]) /\ i + 1 \in DOMAIN todo[p] /\ todo'[q][i] = todo[q][i + 1]
          BY <4>2, <1>1, <1>4
        <5>2. CASE p = Tool
          <6>1. \A c, run : KeptBefore(Tool, (i + 1) - 1, c, run) => Kept(c, run)
            BY <1>0, KeptOrBefore
          <6>2. \A c, run : Kept(c, run) => KeptBefore(Tool, i - 1, c, run)'
            BY <1>9, <1>13, KeptIsBefore
          <6> QED BY <4>2, <5>1, <5>2, <6>1, <6>2
        <5>3. CASE p = Bridge
          <6>1. ASSUME NEW c, NEW run, KeptBefore(Bridge, (i + 1) - 1, c, run)
                PROVE  KeptBefore(Bridge, i - 1, c, run)'
            <7>1. CASE Kept(c, run)
              BY <7>1, <1>9, <1>13, KeptIsBefore
            <7>2. CASE CaptureDir(c, run) \in DOMAIN taken
              <8> DEFINE l == CaptureList(taken[CaptureDir(c, run)])
              <8>1. l \in Lists /\ l.seal \in Writes(l) /\ SealOf(c, run) = l.seal
                BY <7>2 DEF Lists, ListsOf, Writes, SealOf
              <8> HIDE DEF l
              <8>2. Now(Bridge) # SealOf(c, run)
                BY <5>3, <8>1, <1>1, <1>7
              <8> QED BY <5>1, <5>3, <6>1, <8>2, <1>1, <1>9, <1>13, KeptBeforeShorter
            <7> QED BY <7>1, <7>2, <6>1, KeptOrBefore
          <6> QED BY <4>2, <5>1, <5>3, <6>1
        <5> QED BY <5>2, <5>3, <1>0
      <4> QED BY <4>1, <4>2
    <3>2. ASSUME NEW q \in Procs, NEW i \in DOMAIN todo'[q], NEW w, w = todo'[q][i]
          PROVE  /\ w \in RowWrites => KeptBefore(q, i - 1, w.content.cycle, w.content.run)'
                 /\ w \in TempWrites => \A c \in Cycles : w.content[c] # None =>
                                           KeptBefore(q, i - 1, c, w.content[c])'
      <4>1. PICK k \in DOMAIN todo[q] : /\ todo'[q][i] = todo[q][k]
                                        /\ \A c, run : KeptBefore(q, k - 1, c, run) => KeptBefore(q, i - 1, c, run)'
        BY <3>1
      <4>2. /\ w \in RowWrites => KeptBefore(q, k - 1, w.content.cycle, w.content.run)
            /\ w \in TempWrites => \A c \in Cycles : w.content[c] # None => KeptBefore(q, k - 1, c, w.content[c])
        BY <3>2, <4>1 DEF Stored, WritesKept
      <4> QED BY <4>1, <4>2
    <3> QED BY <3>2 DEF WritesKept
  <2> QED BY <2>3, <2>4, <2>5 DEF Stored
<1>15. Swaps'
  <2>1. ASSUME NEW q \in Procs, NEW i \in DOMAIN todo'[q], todo'[q][i] = Swap, i > 1
        PROVE  todo'[q][i - 1].path = Temp
    <3>1. CASE q # p
      BY <3>1, <2>1, <1>1 DEF Swaps
    <3>2. CASE q = p
      <4> DEFINE t == Tail(todo[p])
      <4>1. todo'[p] = t /\ i \in DOMAIN t /\ i + 1 \in DOMAIN todo[p] /\ todo[p][i + 1] = Swap /\ i \in Nat
        BY <2>1, <3>2, <1>1, <1>4
      <4>2. todo[p][(i + 1) - 1].path = Temp
        <5>1. i + 1 > 1
          BY <4>1, <2>1
        <5> QED BY <4>1, <5>1 DEF Swaps
      <4>3. i - 1 \in DOMAIN t /\ (i - 1) + 1 = i /\ (i + 1) - 1 = i
        BY <4>1, <2>1, <1>4
      <4>4. t[i - 1] = todo[p][(i - 1) + 1]
        BY <4>3, <1>4
      <4> QED BY <3>2, <4>1, <4>2, <4>3, <4>4
    <3> QED BY <3>1, <3>2
  <2>2. ~(Busy(p)' /\ Now(p)' = Swap)
    <3> SUFFICES ASSUME Tail(todo[p]) # <<>>, Head(Tail(todo[p])) = Swap PROVE FALSE
      BY <1>1 DEF Busy, Now
    <3>1. 1 \in DOMAIN Tail(todo[p]) /\ Head(Tail(todo[p])) = Tail(todo[p])[1]
      BY <1>0, <1>4, Shortened
    <3>2. 1 + 1 \in DOMAIN todo[p] /\ todo[p][1 + 1] = Swap
      BY <3>1, <1>4
    <3>3. todo[p][(1 + 1) - 1].path = Temp
      <4>1. 1 + 1 > 1
        OBVIOUS
      <4> QED BY <3>2, <4>1 DEF Swaps
    <3> QED BY <3>3, <1>4, <1>6
  <2>3. ~shared => HasTemp(p)
    BY <1>1 DEF HasTemp
  <2>4. ASSUME ~shared, NEW q \in Procs
        PROVE  /\ open[q] # Temp /\ open'[q] = open[q] /\ open'[q] # Collected
               /\ ~(Busy(q)' /\ Now(q)' = Swap)
    <3>1. open[q] # Temp
      <4> SUFFICES ASSUME open[q] = Temp PROVE FALSE
        OBVIOUS
      <4>1. Busy(q)
        BY NoneAssumption DEF Opened
      <4>2. HasTemp(q)
        BY <4>1 DEF HasTemp
      <4>3. q = p
        BY <2>3, <2>4, <4>2 DEF Swaps
      <4> QED BY <4>3, <1>3, NoneAssumption
    <3>2. open'[q] = open[q] /\ open[q] # Collected
      BY <2>4, <3>1, <1>1 DEF Swaps
    <3>3. q # p => ~(Busy(q)' /\ Now(q)' = Swap)
      <4> SUFFICES ASSUME q # p, Busy(q)', Now(q)' = Swap PROVE FALSE
        OBVIOUS
      <4>1. HasTemp(q)
        BY <1>1 DEF HasTemp, Busy, Now
      <4> QED BY <4>1, <2>3, <2>4 DEF Swaps
    <3> QED BY <3>1, <3>2, <3>3, <2>2
  <2>5. ~shared => \A q \in Procs : ~HasTemp(q)'
    BY <2>4 DEF HasTemp
  <2>6. ~shared => disk'[Collected].whole
    BY <1>1, <1>2 DEF Swaps
  <2> QED BY <2>1, <2>4, <2>5, <2>6, <1>1 DEF Swaps
<1> QED BY <1>8, <1>9, <1>10, <1>11, <1>12, <1>14, <1>15

-----------------------------------------------------------------------------
(* The invariant is inductive *)

\* Nothing was written yet.
LEMMA InitInv == Init => Inv
<1> SUFFICES ASSUME Init PROVE Inv
  OBVIOUS
<1>0. Bridge # Tool /\ Bridge \in Procs /\ Tool \in Procs /\ MaxRuns \in [Procs -> Nat]
  BY FilesAssumption DEF Procs
<1>1. /\ DOMAIN disk = {} /\ DOMAIN taken = {} /\ runs = [p \in Procs |-> 0] /\ save = <<>>
      /\ open = [p \in Procs |-> None] /\ todo = [p \in Procs |-> <<>>]
      /\ memory = [p \in Procs |-> None] /\ shared = FALSE
  BY DEF Init
<1>2. Entries
  BY <1>0, <1>1 DEF Entries
<1>3. Types
  <2>1. runs \in [Procs -> Nat] /\ \A p \in Procs : runs[p] <= MaxRuns[p]
    BY <1>0, <1>1
  <2>2. save \in Seq(0..2) /\ Len(save) = runs[Bridge]
    BY <1>0, <1>1
  <2>3. TakenAs(taken, runs[Bridge])
    BY <1>1 DEF TakenAs
  <2>4. memory \in [Procs -> Memories \union {None}] /\ open = [p \in Procs |-> None]
    BY <1>1
  <2> QED BY <1>0, <1>1, <2>1, <2>2, <2>3, <2>4 DEF Types
<1>4. Opened
  BY <1>1 DEF Opened
<1>5. ListsOrdered
  BY <1>0, <1>1 DEF ListsOrdered, Ordered, Exists
<1>6. Phases
  BY <1>0, <1>1 DEF Phases, Running, Busy
<1>7. Stored
  BY <1>0, <1>1 DEF Stored, MemoriesKept, DiskKept, WritesKept, Loads, Exists
<1>8. Swaps
  BY <1>0, <1>1, NoneAssumption DEF Swaps, HasTemp, Busy, Exists
<1> QED BY <1>2, <1>3, <1>4, <1>5, <1>6, <1>7, <1>8 DEF Inv

\* Each step keeps the invariant.
LEMMA StepInv == Inv /\ [Next]_vars => Inv'
<1> SUFFICES ASSUME Inv, [Next]_vars PROVE Inv'
  OBVIOUS
<1>0. Bridge # Tool /\ Bridge \in Procs
  BY FilesAssumption DEF Procs
<1>1. CASE UNCHANGED vars
  <2>1. /\ disk' = disk /\ open' = open /\ todo' = todo /\ memory' = memory
        /\ runs' = runs /\ save' = save /\ taken' = taken /\ shared' = shared
    BY <1>1 DEF vars, work
  <2>2. Entries'
    BY <2>1 DEF Inv, Entries, ListWrites, Lists
  <2>3. Types'
    BY <2>1 DEF Inv, Types, ListWrites, Lists
  <2>4. Opened'
    BY <2>1 DEF Inv, Opened, Busy, Now, Exists
  <2>5. ListsOrdered'
    BY <2>1 DEF Inv, ListsOrdered, Ordered, Lists, Exists, Done, Now
  <2>6. Phases'
    BY <2>1 DEF Inv, Phases, Running, Busy, Exists
  <2>7. Stored'
    <3>1. \A p, i, c, run : KeptBefore(p, i, c, run)' <=> KeptBefore(p, i, c, run)
      BY <2>1 DEF KeptBefore, SealOf, Done, Exists
    <3>2. \A c, run : Kept(c, run)' <=> Kept(c, run)
      BY <3>1 DEF Kept
    <3>3. \A cycles : MemoryKept(cycles)' <=> MemoryKept(cycles)
      BY <3>2 DEF MemoryKept
    <3>4. MemoriesKept'
      BY <2>1, <3>3 DEF Inv, Stored, MemoriesKept
    <3>5. DiskKept'
      BY <2>1, <3>2, <3>3 DEF Inv, Stored, DiskKept, Loads, Exists
    <3>6. WritesKept'
      BY <2>1, <3>1 DEF Inv, Stored, WritesKept
    <3> QED BY <3>4, <3>5, <3>6 DEF Stored
  <2>8. Swaps'
    BY <2>1 DEF Inv, Swaps, HasTemp, Busy, Now, Exists
  <2> QED BY <2>2, <2>3, <2>4, <2>5, <2>6, <2>7, <2>8 DEF Inv
<1>2. ASSUME NEW s \in Saves, StartRun(s) PROVE Inv'
  BY <1>2, StartRunInv
<1>3. ASSUME NEW c \in Cycles, NEW bad \in SUBSET BadReplies, Collect(c, bad) PROVE Inv'
  BY <1>3, CollectInv
<1>4. ASSUME NEW dir \in DOMAIN taken, Rerender(dir[2], dir[3]) PROVE Inv'
  BY <1>4, RerenderInv
<1>5. ASSUME NEW p \in Procs, OpenFile(p) PROVE Inv'
  BY <1>5, OpenFileInv
<1>6. ASSUME NEW p \in Procs, CloseFile(p) PROVE Inv'
  BY <1>6, CloseFileInv
<1>7. ASSUME NEW p \in Procs, SwapIn(p) PROVE Inv'
  BY <1>7, SwapInInv
<1>8. ASSUME NEW p \in Procs, EndRun(p) PROVE Inv'
  <2>1. PICK rest : Leave(p, rest) /\ rest = IF p = Bridge THEN Log(runs[p]) ELSE <<>>
    BY <1>8 DEF EndRun
  <2>2. rest = <<>> \/ (p = Bridge /\ Running(Bridge) /\ rest = WriteLog(runs[Bridge]))
    BY <1>8, <2>1 DEF EndRun, Log
  <2> QED BY <2>1, <2>2, LeaveInv
<1>9. ASSUME NEW p \in Procs, Fails(p) PROVE Inv'
  <2>1. PICK rest : Leave(p, rest) /\ rest = IF p = Bridge /\ ~InLog THEN Log(runs[p]) ELSE <<>>
    BY <1>9 DEF Fails
  <2>2. p = Bridge /\ ~Running(Bridge) => InLog
    BY <1>9 DEF Fails, Inv, Phases, InLog, Busy, LogList, Write
  <2>3. rest = <<>> \/ (p = Bridge /\ Running(Bridge) /\ rest = WriteLog(runs[Bridge]))
    BY <2>1, <2>2 DEF Log
  <2> QED BY <2>1, <2>3, LeaveInv
<1>10. ASSUME NEW p \in Procs, Crash(p) PROVE Inv'
  BY <1>10, LeaveInv DEF Crash
<1> QED BY <1>1, <1>2, <1>3, <1>4, <1>5, <1>6, <1>7, <1>8, <1>9, <1>10 DEF Next, Step

LEMMA InvAlways == Spec => []Inv
BY InitInv, StepInv, PTL DEF Spec

-----------------------------------------------------------------------------
(* What the invariant says of what reads back *)

LEMMA ListedReadsBack ==
    ASSUME Inv, NEW dir \in DOMAIN taken, Loads(CaptureFile(dir))
    PROVE  InHand(dir)
<1> DEFINE capture == taken[dir]
           full == [content |-> capture.run, whole |-> TRUE]
<1>1. /\ disk[CaptureFile(dir)].content = capture /\ capture \in Captures
      /\ \A w \in CaptureList(capture).files : Done(w)
  BY ReadCapture DEF Writes
<1>2. dir = CaptureDir(capture.cycle, capture.run)
  BY DEF Inv, Types, TakenAs
<1>3. \A path : Write(path, capture.run) \in Raw(capture) => Exists(path) /\ disk[path] = full
  BY <1>1 DEF CaptureList, Done, Full, Write
<1>4. Write(InfoFile(dir), capture.run) \in Raw(capture)
  BY <1>2 DEF Raw
<1>5. \A path \in Named(dir) : Write(path, capture.run) \in Raw(capture)
  <2>1. \A k \in DOMAIN Traces : Traces[k] \in ToSet(Traces)
    BY DEF ToSet
  <2> QED BY <2>1, <1>1, <1>2 DEF Named, Raw
<1>6. \A path \in Named(dir) \union {InfoFile(dir)} : Exists(path) /\ disk[path] = full
  BY <1>3, <1>4, <1>5
<1>7. Reads(dir)
  <2>1. full.whole = TRUE
    OBVIOUS
  <2> QED BY <2>1, <1>6 DEF Reads, Loads
<1>8. {disk[path] : path \in Named(dir) \union {InfoFile(dir)}} = {full}
  <2> HIDE DEF full
  <2> QED BY <1>6
<1> QED BY <1>1, <1>7, <1>8 DEF InHand, ReadRaw, AsTaken

LEMMA KeptReadsBack ==
    ASSUME Inv, NEW c, NEW run, Kept(c, run), save[run] >= SAVE_CAPTURE
    PROVE  InHand(CaptureDir(c, run))
<1> DEFINE dir == CaptureDir(c, run)
<1>1. dir \in DOMAIN taken /\ Done(SealOf(c, run))
  BY FilesAssumption DEF Kept, KeptBefore
<1>2. dir = CaptureDir(taken[dir].cycle, taken[dir].run)
  BY <1>1 DEF Inv, Types, TakenAs
<1>3. SealOf(c, run) = Write(CaptureFile(dir), taken[dir])
  BY <1>2 DEF SealOf, CaptureList
<1>4. Exists(CaptureFile(dir)) /\ disk[CaptureFile(dir)] = [content |-> taken[dir], whole |-> TRUE]
  BY <1>1, <1>3 DEF Done, Full, Write
<1>5. Loads(CaptureFile(dir))
  BY <1>4 DEF Loads
<1> QED BY <1>1, <1>5, ListedReadsBack

LEMMA InvTypes == Inv => TypeOK
<1> SUFFICES ASSUME Inv PROVE TypeOK
  OBVIOUS
<1>0. Bridge \in Procs /\ Tool \in Procs /\ MaxRuns \in [Procs -> Nat]
  BY FilesAssumption DEF Procs
<1>1. \A p \in Procs : runs[p] \in 0..MaxRuns[p]
  BY <1>0 DEF Inv, Types
<1>2. ASSUME NEW p \in Procs, memory[p] # None
      PROVE  memory[p] \in [Cycles -> 1..MaxRuns[Bridge] \union {None}]
  <2>1. memory[p] \in [Cycles -> Nat \union {None}] /\ MemoryKept(memory[p])
    BY <1>2 DEF Inv, Stored, MemoriesKept, MemoryKept, Memories
  <2>2. \A c \in Cycles : memory[p][c] # None => memory[p][c] \in 1..runs[Bridge]
    BY <2>1 DEF MemoryKept, Kept, KeptBefore
  <2>3. \A c \in Cycles : memory[p][c] \in 1..MaxRuns[Bridge] \union {None}
    BY <2>2, <1>0, <1>1
  <2> QED BY <2>1, <2>3
<1>3. memory \in [Procs -> [Cycles -> 1..MaxRuns[Bridge] \union {None}] \union {None}]
  BY <1>2 DEF Inv, Types
<1> QED BY <1>1, <1>3 DEF Inv, Types, Opened, TypeOK

LEMMA InvReadsBack == Inv => ReadBackIsTaken
<1> SUFFICES ASSUME Inv PROVE ReadBackIsTaken
  OBVIOUS
<1>1. \A dir \in DOMAIN taken : Reads(dir) => InHand(dir)
  BY ListedReadsBack DEF Reads
<1>2. ASSUME NEW run \in 1..runs[Bridge], Loads(IndexFile(CommsDir(run))),
             NEW i \in 1..Exchanges, NEW part \in {"req", "resp"}
      PROVE  Loads(ExchangeFile(CommsDir(run), i, part))
  <2> DEFINE l == LogList(run)
             w == Write(ExchangeFile(CommsDir(run), i, part), run)
  <2>1. l \in Lists
    BY DEF Lists, ListsOf
  <2>2. w \in l.files /\ l.seal.path = IndexFile(CommsDir(run))
    BY DEF LogList, LogFiles, Write
  <2>3. Done(w)
    <3> HIDE DEF l, w
    <3>1. Exists(l.seal.path)
      BY <1>2, <2>2 DEF Loads
    <3> QED BY <3>1, <2>1, <2>2 DEF Inv, ListsOrdered, Ordered
  <2> QED BY <2>3 DEF Done, Full, Loads, Write
<1> QED BY <1>1, <1>2 DEF ReadBackIsTaken

LEMMA InvStored == Inv => StoredCanBeRerendered
<1> SUFFICES ASSUME Inv, NEW c \in Cycles
             PROVE  /\ Loads(RowPath(c)) =>
                          LET run == disk[RowPath(c)].content.run
                          IN  save[run] >= SAVE_CAPTURE => InHand(CaptureDir(c, run))
                    /\ Loads(Collected) /\ disk[Collected].content[c] # None =>
                          LET run == disk[Collected].content[c]
                          IN  save[run] >= SAVE_CAPTURE => InHand(CaptureDir(c, run))
  BY DEF StoredCanBeRerendered
<1>1. Loads(RowPath(c)) => Kept(c, disk[RowPath(c)].content.run)
  BY DEF Inv, Stored, DiskKept
<1>2. Loads(Collected) /\ disk[Collected].content[c] # None => Kept(c, disk[Collected].content[c])
  BY DEF Inv, Stored, DiskKept, MemoryKept
<1> QED BY <1>1, <1>2, KeptReadsBack

LEMMA InvMemoryLoads == Inv => MemoryLoads
<1>1. Inv => (~shared => (Exists(Collected) => disk[Collected].whole))
  BY DEF Inv, Swaps
<1> QED BY <1>1 DEF MemoryLoads, Loadable, Loads

\* Types hold, and what a process has open is what it is writing, or the file
\* its temporary one has become.
THEOREM TypeCorrect == Spec => []TypeOK
BY InvTypes, InvAlways, PTL

\* capture.py and comms_log.py: whenever and however often a run fails or dies
\* between two steps, a capture that reads back is the one taken, with all its
\* bad replies, and a log that has its index has all that the index lists.
THEOREM ReadBackIsTakenAlways == Spec => []ReadBackIsTaken
BY InvReadsBack, InvAlways, PTL

\* extract.py saves a capture before what is made of it: with --save, each row
\* and each cycle remembered has its capture, whole.
THEOREM StoredCanBeRerenderedAlways == Spec => []StoredCanBeRerendered
BY InvStored, InvAlways, PTL

\* file_writer.py: the memory file loads, unless the bridge and render.py once
\* had its temporary file between them.
THEOREM MemoryLoadsAlways == Spec => []MemoryLoads
BY InvMemoryLoads, InvAlways, PTL
=============================================================================
