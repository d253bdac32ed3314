-------------------------- MODULE ProfilePullProofs --------------------------
(***************************************************************************)
(* Proofs about ProfilePull, for any traces of any sizes, any chunk size   *)
(* and any number of retries: types, with the bound on the attempts, that  *)
(* the words kept are the pump's own, in their place, and that every trace *)
(* is accounted for.                                                       *)
(***************************************************************************)
EXTENDS ProfilePull, TLAPS

-----------------------------------------------------------------------------
(* Slices of a trace *)

LEMMA SliceType ==
    ASSUME NEW t \in Traces, NEW first \in Nat, NEW n \in Nat
    PROVE  Slice(t, first, n) \in Seq(Words) /\ Len(Slice(t, first, n)) = n
<1>1. \A i \in 1..n : <<t, first + i - 1>> \in Words
  BY DEF Words
<1> QED BY <1>1 DEF Slice

LEMMA SlicesJoin ==
    ASSUME NEW t \in Traces, NEW m \in Nat, NEW n \in Nat
    PROVE  Slice(t, 0, m) \o Slice(t, m, n) = Slice(t, 0, m + n)
<1> DEFINE joined == Slice(t, 0, m) \o Slice(t, m, n)
<1>1. /\ Slice(t, 0, m) \in Seq(Words) /\ Len(Slice(t, 0, m)) = m
      /\ Slice(t, m, n) \in Seq(Words) /\ Len(Slice(t, m, n)) = n
      /\ Slice(t, 0, m + n) \in Seq(Words) /\ Len(Slice(t, 0, m + n)) = m + n
  BY SliceType
<1>2. joined \in Seq(Words) /\ Len(joined) = m + n
  BY <1>1
<1>3. ASSUME NEW i \in 1..(m + n) PROVE joined[i] = Slice(t, 0, m + n)[i]
  <2>1. Slice(t, 0, m + n)[i] = <<t, i - 1>>
    BY DEF Slice
  <2>2. CASE i <= m
    <3>1. i \in 1..m /\ joined[i] = Slice(t, 0, m)[i]
      BY <1>1, <2>2
    <3>2. Slice(t, 0, m)[i] = <<t, i - 1>>
      BY <3>1 DEF Slice
    <3> QED BY <2>1, <3>1, <3>2
  <2>3. CASE i > m
    <3>1. joined[i] = Slice(t, m, n)[i - m]
      BY <1>1, <2>3
    <3>2. i - m \in 1..n /\ m + (i - m) - 1 = i - 1
      BY <2>3
    <3>3. Slice(t, m, n)[i - m] = <<t, m + (i - m) - 1>>
      BY <3>2 DEF Slice
    <3> QED BY <2>1, <3>1, <3>2, <3>3
  <2>4. i <= m \/ i > m
    BY SMT
  <2> QED BY <2>2, <2>3, <2>4
<1> HIDE DEF joined
<1>4. joined = Slice(t, 0, m + n)
  BY <1>1, <1>2, <1>3
<1> QED BY <1>4 DEF joined

-----------------------------------------------------------------------------
(* The invariant *)

Asking == {"request", "recovery", "repair"}

\* A frame that, once its damage is undone, is the pump's answer to the open
\* chunk; only three flipped bits give a repair that isn't.
Answer(f) ==
    /\ f.rc = "GOOD" => f.words = Slice(trace, start, Len(f.words))
    /\ f.fix = "wrong" => 3 \in BusFlips

InPlace(t) ==
    \/ words[t] = Slice(t, 0, Len(words[t]))
    \/ 3 \in BusFlips /\ t \in repaired

\* What makes WordsInPlace inductive: the next word asked for is the one after
\* those kept, the traces still to come have none, a late reply is only on its
\* way during the recovery, and the bad replies answer the open chunk.
IInv ==
    /\ \A t \in Traces : InPlace(t)
    /\ pc \in Asking => cur <= Len(TraceOrder)
    /\ pc = "request" => attempts <= MaxRetries
    /\ pc = "chunk" => attempts = 0 /\ bad = <<>>
    /\ pc \in Asking \union {"chunk"} /\ cur <= Len(TraceOrder) => start = Len(words[trace])
    /\ \A i \in (cur + 1)..Len(TraceOrder) : words[TraceOrder[i]] = <<>>
    /\ late # {} => pc = "recovery"
    /\ \A f \in late : Answer(f)
    /\ \A k \in 1..Len(bad) : Answer(bad[k])

Inv == TypeOK /\ IInv

LEMMA TraceType == ASSUME TypeOK, cur <= Len(TraceOrder) PROVE trace \in Traces
BY TracesAssumption DEF TypeOK, trace

\* No later trace is the one being pulled.
LEMMA LaterTraces ==
    ASSUME TypeOK, cur <= Len(TraceOrder), NEW i \in (cur + 1)..Len(TraceOrder)
    PROVE  TraceOrder[i] \in Traces /\ TraceOrder[i] # trace
BY TracesAssumption DEF TypeOK, trace

LEMMA PumpFramesAnswer ==
    ASSUME TypeOK, cur <= Len(TraceOrder), NEW f \in PumpFrames
    PROVE  f \in Frames /\ Answer(f) /\ f.fix = "none"
<1>1. trace \in Traces /\ start \in Nat /\ count \in Nat
  BY TraceType, SizesAssumption DEF TypeOK
<1>2. CASE f = [rc |-> "refused", words |-> <<>>, fix |-> "none"]
  BY <1>2 DEF Frames, Answer
<1>3. ASSUME NEW n \in 0..(count + 1),
             f = [rc |-> "GOOD", words |-> Slice(trace, start, n), fix |-> "none"]
      PROVE  f \in Frames /\ Answer(f) /\ f.fix = "none"
  <2>1. Slice(trace, start, n) \in Seq(Words) /\ Len(Slice(trace, start, n)) = n
    BY <1>1, SliceType
  <2> QED BY <1>3, <2>1 DEF Frames, Answer
<1> QED BY <1>2, <1>3 DEF PumpFrames

\* While nothing is late, what a request gets back answers the open chunk.
LEMMA AnswersAnswer ==
    ASSUME Inv, pc = "request", NEW f \in Answers
    PROVE  f \in Frames /\ Answer(f)
BY PumpFramesAnswer DEF Inv, IInv, Answers, Asking

-----------------------------------------------------------------------------
(* The steps *)

LEMMA InitInv == Init => Inv
<1> SUFFICES ASSUME Init PROVE Inv
  OBVIOUS
<1>1. TypeOK
  BY TracesAssumption, SizesAssumption DEF Init, TypeOK
<1>2. \A t \in Traces : InPlace(t)
  <2> SUFFICES ASSUME NEW t \in Traces PROVE InPlace(t)
    OBVIOUS
  <2>1. Slice(t, 0, 0) = <<>>
    BY SliceType
  <2>2. words[t] = <<>> /\ Len(words[t]) = 0
    BY DEF Init
  <2> QED BY <2>1, <2>2 DEF InPlace
<1>3. cur <= Len(TraceOrder) => start = Len(words[trace])
  BY <1>1, TraceType DEF Init
<1>4. \A i \in (cur + 1)..Len(TraceOrder) : words[TraceOrder[i]] = <<>>
  BY TracesAssumption DEF Init
<1>5. late = {} /\ Len(bad) = 0 /\ attempts = 0 /\ bad = <<>> /\ pc = "chunk"
  BY DEF Init
<1>6. IInv
  BY <1>2, <1>3, <1>4, <1>5 DEF IInv, Asking
<1> QED BY <1>1, <1>6 DEF Inv

\* The next trace is begun, with nothing of it kept yet.
LEMMA TraceBegins ==
    ASSUME TypeOK, cur <= Len(TraceOrder), cur' = cur + 1, start' = 0,
           \A i \in (cur + 1)..Len(TraceOrder) : words'[TraceOrder[i]] = <<>>
    PROVE  cur' <= Len(TraceOrder) => start' = Len(words[trace])'
<1> SUFFICES ASSUME cur' <= Len(TraceOrder) PROVE start' = Len(words[trace])'
  OBVIOUS
<1>1. cur + 1 \in (cur + 1)..Len(TraceOrder)
  BY DEF TypeOK
<1>2. words'[TraceOrder[cur + 1]] = <<>>
  BY <1>1
<1> QED BY <1>2 DEF trace

\* Words that follow those kept, or that a repair is marked to have put there,
\* leave the trace in place.
LEMMA WordsFollow ==
    ASSUME Inv, cur <= Len(TraceOrder), pc \in Asking, NEW STATE data, data \in Seq(Words),
           words' = [words EXCEPT ![trace] = @ \o data],
           repaired \subseteq repaired',
           data = Slice(trace, start, Len(data)) \/ (3 \in BusFlips /\ trace \in repaired')
    PROVE  /\ words' \in [Traces -> Seq(Words)]
           /\ words'[trace] = words[trace] \o data
           /\ Len(words'[trace]) = start + Len(data)
           /\ (\A t \in Traces : InPlace(t))'
           /\ \A i \in (cur + 1)..Len(TraceOrder) : words'[TraceOrder[i]] = <<>>
<1>1. trace \in Traces /\ words \in [Traces -> Seq(Words)] /\ start \in Nat /\ Len(data) \in Nat
  BY TraceType DEF Inv, TypeOK
<1>2. start = Len(words[trace])
  BY DEF Inv, IInv
<1>3. words[trace] \in Seq(Words)
  BY <1>1
<1>4. words[trace] \o data \in Seq(Words) /\ Len(words[trace] \o data) = start + Len(data)
  BY <1>2, <1>3
<1>5. words' \in [Traces -> Seq(Words)] /\ words'[trace] = words[trace] \o data
  BY <1>1, <1>4
<1>6. ASSUME NEW t \in Traces, t = trace PROVE InPlace(t)'
  <2>1. CASE 3 \in BusFlips /\ (trace \in repaired \/ trace \in repaired')
    BY <1>6, <2>1 DEF InPlace
  <2>2. CASE data = Slice(trace, start, Len(data)) /\ words[trace] = Slice(trace, 0, Len(words[trace]))
    <3>1. Slice(t, 0, start) \o Slice(t, start, Len(data)) = Slice(t, 0, start + Len(data))
      BY <1>1, SlicesJoin
    <3>2. words[t] = Slice(t, 0, start) /\ data = Slice(t, start, Len(data))
      BY <1>2, <1>6, <2>2
    <3>3. words'[t] = words[t] \o data
      BY <1>5, <1>6
    <3>4. words'[t] = Slice(t, 0, start + Len(data))
      BY <3>1, <3>2, <3>3
    <3> QED BY <1>4, <1>5, <1>6, <3>4 DEF InPlace
  <2> QED BY <1>1, <1>6, <2>1, <2>2 DEF Inv, IInv, InPlace
<1>7. ASSUME NEW t \in Traces, t # trace PROVE InPlace(t)'
  <2>1. words'[t] = words[t]
    BY <1>1, <1>7
  <2> QED BY <2>1 DEF Inv, IInv, InPlace
<1>8. ASSUME NEW i \in (cur + 1)..Len(TraceOrder) PROVE words'[TraceOrder[i]] = <<>>
  <2>1. TraceOrder[i] \in Traces /\ TraceOrder[i] # trace
    BY LaterTraces DEF Inv
  <2> QED BY <1>1, <2>1 DEF Inv, IInv
<1> QED BY <1>4, <1>5, <1>6, <1>7, <1>8

LEMMA LaterInterval ==
    ASSUME NEW a \in Int, NEW b \in Int, NEW n \in Int, a <= b
    PROVE  (b + 1)..n \subseteq (a + 1)..n
OBVIOUS

\* pull_trace taking data that answers the open chunk.
LEMMA TakeDataStep ==
    ASSUME Inv, cur <= Len(TraceOrder), pc \in Asking, NEW STATE data, data \in Seq(Words),
           TakeData(data),
           repaired \subseteq repaired', repaired' \subseteq Traces,
           held' = held, late' = {},
           data = Slice(trace, start, Len(data)) \/ (3 \in BusFlips /\ trace \in repaired')
    PROVE  Inv'
<1>1. words' = [words EXCEPT ![trace] = @ \o data]
  BY DEF TakeData
<1>2. /\ words' \in [Traces -> Seq(Words)]
      /\ Len(words'[trace]) = start + Len(data)
      /\ (\A t \in Traces : InPlace(t))'
      /\ \A i \in (cur + 1)..Len(TraceOrder) : words'[TraceOrder[i]] = <<>>
  BY <1>1, WordsFollow
<1>3. trace \in Traces /\ TypeOK /\ Len(data) \in Nat
  BY TraceType DEF Inv
<1>4. /\ pc' = "chunk" /\ count' = 0 /\ attempts' = 0 /\ bad' = <<>>
      /\ failed' \subseteq Traces
      /\ cur' \in 1..(Len(TraceOrder) + 1) /\ start' \in Nat
      /\ \/ cur' = cur + 1 /\ start' = 0
         \/ cur' = cur /\ start' = start + Len(data)
  <2>1. /\ failed \subseteq Traces /\ start \in Nat
        /\ cur \in 1..(Len(TraceOrder) + 1) /\ Len(TraceOrder) \in Nat
    BY <1>3, TracesAssumption DEF TypeOK
  <2>2. CASE data = <<>>
    BY <1>3, <2>1, <2>2 DEF TakeData, GiveUpTrace, CloseChunk
  <2>3. CASE data # <<>>
    BY <1>3, <2>1, <2>3 DEF TakeData, CloseChunk
  <2> QED BY <2>2, <2>3
<1>5. TypeOK'
  BY <1>2, <1>3, <1>4, SizesAssumption DEF TypeOK
<1>6. cur' <= Len(TraceOrder) => start' = Len(words[trace])'
  <2>1. CASE cur' = cur + 1 /\ start' = 0
    BY <1>2, <1>3, <2>1, TraceBegins
  <2>2. CASE cur' = cur /\ start' = start + Len(data)
    BY <1>2, <2>2 DEF trace
  <2> QED BY <1>4, <2>1, <2>2
<1>7. (\A i \in (cur + 1)..Len(TraceOrder) : words[TraceOrder[i]] = <<>>)'
  <2>1. cur \in Int /\ cur' \in Int /\ Len(TraceOrder) \in Int /\ cur' >= cur
    BY <1>3, <1>4, TracesAssumption DEF TypeOK
  <2>2. (cur' + 1)..Len(TraceOrder) \subseteq (cur + 1)..Len(TraceOrder)
    BY <2>1, LaterInterval
  <2> QED BY <1>2, <2>2
<1>8. (\A f \in late : Answer(f))' /\ (\A k \in 1..Len(bad) : Answer(bad[k]))'
  BY <1>4
<1>9. pc' \notin Asking /\ pc' # "request"
  BY <1>4 DEF Asking
<1>10. IInv'
  BY <1>2, <1>4, <1>6, <1>7, <1>8, <1>9 DEF IInv
<1> QED BY <1>5, <1>10 DEF Inv

\* A request that failed: the bad replies and the late ones still answer the
\* open chunk, and it is asked for again only while attempts are left.
LEMMA AttemptStep ==
    ASSUME Inv, Attempt, pc' \in Asking, pc' = "request" => attempts' <= MaxRetries,
           bad' \in Seq(Frames), late' \in SUBSET Frames,
           late' # {} => pc' = "recovery",
           \A f \in late' : Answer(f),
           \A k \in 1..Len(bad') : Answer(bad'[k])
    PROVE  Inv'
<1>1. /\ pc = "request" /\ attempts' = attempts + 1 /\ attempts <= MaxRetries
      /\ cur <= Len(TraceOrder)
      /\ UNCHANGED <<cur, start, count, words, failed, repaired, held>>
  BY DEF Attempt, pulls, Inv, IInv, Asking
<1>2. TypeOK'
  BY <1>1, SizesAssumption DEF TypeOK, Inv, Asking
<1>3. (\A t \in Traces : InPlace(t))'
  BY <1>1 DEF Inv, IInv, InPlace
<1>4. trace' = trace /\ start' = start /\ words' = words
  BY <1>1 DEF trace
<1>5. (\A f \in late : Answer(f))' /\ (\A k \in 1..Len(bad) : Answer(bad[k]))'
  BY <1>4 DEF Answer
<1>6. start' = Len(words[trace])'
  BY <1>1, <1>4 DEF Inv, IInv, Asking
<1>7. IInv'
  BY <1>1, <1>3, <1>4, <1>5, <1>6 DEF Inv, IInv, Asking
<1> QED BY <1>2, <1>7 DEF Inv

\* A reply the pump gave, damaged or not, and what the bus may make of it
LEMMA DamagedFrame ==
    ASSUME Inv, pc = "request", NEW f \in Answers, NEW flips \in BusFlips, NEW fix \in Fixes(flips)
    PROVE  [f EXCEPT !.fix = fix] \in Frames /\ Answer([f EXCEPT !.fix = fix])
<1>1. f \in Frames /\ Answer(f)
  BY AnswersAnswer
<1>2. fix \in {"none", "itself", "wrong"} /\ (fix = "wrong" => 3 \in BusFlips)
  BY SizesAssumption DEF Fixes
<1> QED BY <1>1, <1>2 DEF Frames, Answer

\* The words a repair gives are the pump's answer, but for a miscorrection
LEMMA RepairAnswers ==
    ASSUME Inv, pc = "repair", NEW k \in 1..Len(bad), Repairable(bad[k])
    PROVE  LET data == RepairedWords(bad[k])
           IN  /\ data \in Seq(Words)
               /\ data = Slice(trace, start, Len(data)) \/ 3 \in BusFlips
<1> DEFINE f == bad[k]
           data == RepairedWords(bad[k])
<1>1. f \in Frames /\ Answer(f) /\ f.rc = "GOOD" /\ f.fix # "none"
  BY DEF Inv, TypeOK, IInv, Repairable
<1>2. CASE f.fix = "itself"
  BY <1>1, <1>2 DEF Answer, RepairedWords, Frames
<1>3. CASE f.fix = "wrong"
  <2>1. Len(f.words) \in Nat /\ Junk \in Words
    BY <1>1 DEF Frames, Words
  <2>2. [i \in 1..Len(f.words) |-> Junk] \in Seq(Words)
    BY <2>1
  <2> QED BY <1>1, <1>3, <2>2 DEF Answer, RepairedWords
<1> QED BY <1>1, <1>2, <1>3 DEF Frames

LEMMA GoodReplyStep == ASSUME Inv, GoodReply PROVE Inv'
<1>1. pc = "request" /\ cur <= Len(TraceOrder) /\ TypeOK
  BY DEF GoodReply, Inv, IInv, Asking
<1>2. PICK f \in Answers : f.rc = "GOOD" /\ TakeData(f.words)
  BY DEF GoodReply
<1>3. f.words \in Seq(Words) /\ f.words = Slice(trace, start, Len(f.words))
  BY <1>1, <1>2, AnswersAnswer DEF Answer, Frames
<1>4. repaired' = repaired /\ held' = held /\ late' = {} /\ repaired \subseteq Traces
  BY <1>1 DEF GoodReply, TypeOK
<1> QED BY <1>1, <1>2, <1>3, <1>4, TakeDataStep DEF Asking

LEMMA RefusedStep == ASSUME Inv, Refused PROVE Inv'
<1>1. Attempt /\ pc = "request" /\ late' = {} /\ bad' = bad /\ pc' = "repair"
  BY DEF Refused, Attempt, AfterError
<1>2. bad' \in Seq(Frames) /\ \A k \in 1..Len(bad') : Answer(bad'[k])
  BY <1>1 DEF Inv, TypeOK, IInv
<1> QED BY <1>1, <1>2, AttemptStep DEF Asking

LEMMA DamagedStep == ASSUME Inv, NEW noticed \in BOOLEAN, Damaged(noticed) PROVE Inv'
<1>1. Attempt /\ pc = "request" /\ late' = {} /\ attempts' = attempts + 1
  BY DEF Damaged, Attempt
<1>2. attempts' \in Int /\ MaxRetries \in Int
  BY <1>1, SizesAssumption DEF Inv, TypeOK
<1>3. pc' \in Asking /\ (pc' = "request" => attempts' <= MaxRetries)
  BY <1>2 DEF Damaged, AfterError, Asking
<1>4. PICK f \in Answers, flips \in BusFlips : \E fix \in Fixes(flips) :
          bad' = Append(bad, [f EXCEPT !.fix = fix])
  BY DEF Damaged
<1>5. PICK fix \in Fixes(flips) : bad' = Append(bad, [f EXCEPT !.fix = fix])
  BY <1>4
<1>6. [f EXCEPT !.fix = fix] \in Frames /\ Answer([f EXCEPT !.fix = fix])
  BY <1>1, DamagedFrame
<1>7. bad \in Seq(Frames) /\ \A k \in 1..Len(bad) : Answer(bad[k])
  BY DEF Inv, TypeOK, IInv
<1>8. bad' \in Seq(Frames) /\ \A k \in 1..Len(bad') : Answer(bad'[k])
  BY <1>5, <1>6, <1>7
<1> QED BY <1>1, <1>3, <1>8, AttemptStep

LEMMA ReadTimeoutStep == ASSUME Inv, ReadTimeout PROVE Inv'
<1>1. Attempt /\ pc = "request" /\ pc' = "recovery" /\ bad' = bad
  BY DEF ReadTimeout, Attempt
<1>2. late' \in SUBSET Frames /\ \A f \in late' : Answer(f)
  <2>1. CASE late' = {}
    BY <2>1
  <2>2. CASE \E f \in Answers : late' = {f}
    BY <1>1, <2>2, AnswersAnswer
  <2> QED BY <2>1, <2>2 DEF ReadTimeout
<1>3. bad' \in Seq(Frames) /\ \A k \in 1..Len(bad') : Answer(bad'[k])
  BY <1>1 DEF Inv, TypeOK, IInv
<1> QED BY <1>1, <1>2, <1>3, AttemptStep DEF Asking

LEMMA GatewayErrorStep == ASSUME Inv, GatewayError PROVE Inv'
<1>1. Attempt /\ pc = "request" /\ pc' = "repair" /\ bad' = bad /\ late' = late
  BY DEF GatewayError, Attempt, AfterError
<1>2. late' = {} /\ bad' \in Seq(Frames) /\ \A k \in 1..Len(bad') : Answer(bad'[k])
  BY <1>1 DEF Inv, TypeOK, IInv
<1> QED BY <1>1, <1>2, AttemptStep DEF Asking

LEMMA WaitOutStep == ASSUME Inv, WaitOut PROVE Inv'
<1>1. /\ pc = "recovery" /\ late' = {} /\ pc' = AfterError(attempts, TRUE)
      /\ UNCHANGED <<cur, start, count, attempts, bad, words, failed, repaired, held>>
  BY DEF WaitOut, open, pulls
<1>2. attempts \in Int /\ MaxRetries \in Int
  BY SizesAssumption DEF Inv, TypeOK
<1>3. pc' \in {"request", "repair"} /\ (pc' = "request" => attempts <= MaxRetries)
  BY <1>1, <1>2 DEF AfterError
<1>4. TypeOK'
  BY <1>1, <1>3 DEF Inv, TypeOK
<1>5. (\A t \in Traces : InPlace(t))' /\ trace' = trace
  BY <1>1 DEF Inv, IInv, InPlace, trace
<1>6. (\A k \in 1..Len(bad) : Answer(bad[k]))'
  BY <1>1, <1>5 DEF Inv, IInv, Answer
<1>7. IInv'
  BY <1>1, <1>3, <1>5, <1>6 DEF Inv, IInv, Asking
<1> QED BY <1>4, <1>7 DEF Inv

LEMMA RepairChunkStep == ASSUME Inv, RepairChunk PROVE Inv'
<1>1. pc = "repair" /\ cur <= Len(TraceOrder) /\ TypeOK /\ late = {} /\ trace \in Traces
  BY TraceType DEF RepairChunk, RepairFirst, Inv, IInv, Asking
<1>2. PICK k \in 1..Len(bad) : Repairable(bad[k]) /\ TakeData(RepairedWords(bad[k]))
  BY DEF RepairChunk, RepairFirst
<1> DEFINE data == RepairedWords(bad[k])
<1>3. data \in Seq(Words) /\ (data = Slice(trace, start, Len(data)) \/ 3 \in BusFlips)
  BY <1>1, <1>2, RepairAnswers
<1>4. /\ repaired' = repaired \union {trace} /\ held' = held /\ late' = {}
      /\ repaired \subseteq repaired' /\ repaired' \subseteq Traces /\ trace \in repaired'
  BY <1>1 DEF RepairChunk, RepairFirst, TypeOK
<1>5. TakeData(data)
  BY <1>2
<1> HIDE DEF data
<1> QED BY <1>1, <1>3, <1>4, <1>5, TakeDataStep DEF Asking

LEMMA ChunkFailsStep == ASSUME Inv, ChunkFails PROVE Inv'
<1>1. /\ pc = "repair" /\ cur <= Len(TraceOrder) /\ TypeOK /\ late = {} /\ trace \in Traces
      /\ cur \in Int /\ Len(TraceOrder) \in Int
  BY TraceType, TracesAssumption DEF ChunkFails, Inv, IInv, Asking, TypeOK
<1>2. /\ pc' = "chunk" /\ cur' = cur + 1 /\ start' = 0
      /\ count' = 0 /\ attempts' = 0 /\ bad' = <<>>
      /\ failed' = failed \union {trace}
      /\ UNCHANGED <<words, repaired, held, late>>
  BY DEF ChunkFails, GiveUpTrace, CloseChunk
<1>3. TypeOK'
  BY <1>1, <1>2, SizesAssumption DEF TypeOK
<1>4. (\A t \in Traces : InPlace(t))'
  BY <1>2 DEF Inv, IInv, InPlace
<1>5. \A i \in (cur + 1)..Len(TraceOrder) : words'[TraceOrder[i]] = <<>>
  BY <1>2 DEF Inv, IInv
<1>6. cur' <= Len(TraceOrder) => start' = Len(words[trace])'
  BY <1>1, <1>2, <1>5, TraceBegins
<1>7. (\A i \in (cur + 1)..Len(TraceOrder) : words[TraceOrder[i]] = <<>>)'
  <2>1. cur' \in Int /\ cur <= cur'
    BY <1>1, <1>2
  <2>2. (cur' + 1)..Len(TraceOrder) \subseteq (cur + 1)..Len(TraceOrder)
    BY <1>1, <2>1, LaterInterval
  <2> QED BY <1>5, <2>2
<1>8. IInv'
  BY <1>1, <1>2, <1>4, <1>6, <1>7 DEF IInv, Asking
<1> QED BY <1>3, <1>8 DEF Inv

LEMMA NextTraceStep == ASSUME Inv, NextTrace PROVE Inv'
<1>1. /\ pc = "chunk" /\ cur <= Len(TraceOrder) /\ TypeOK /\ late = {}
      /\ cur \in Int /\ Len(TraceOrder) \in Int
  BY TracesAssumption DEF NextTrace, Inv, IInv, TypeOK
<1>2. /\ cur' = cur + 1 /\ start' = 0
      /\ UNCHANGED <<pc, count, attempts, bad, words, failed, repaired, held, late>>
  BY DEF NextTrace, open, pulls
<1>3. TypeOK'
  BY <1>1, <1>2 DEF TypeOK
<1>4. (\A t \in Traces : InPlace(t))'
  BY <1>2 DEF Inv, IInv, InPlace
<1>5. \A i \in (cur + 1)..Len(TraceOrder) : words'[TraceOrder[i]] = <<>>
  BY <1>2 DEF Inv, IInv
<1>6. cur' <= Len(TraceOrder) => start' = Len(words[trace])'
  BY <1>1, <1>2, <1>5, TraceBegins
<1>7. (\A i \in (cur + 1)..Len(TraceOrder) : words[TraceOrder[i]] = <<>>)'
  <2>1. cur' \in Int /\ cur <= cur'
    BY <1>1, <1>2
  <2>2. (cur' + 1)..Len(TraceOrder) \subseteq (cur + 1)..Len(TraceOrder)
    BY <1>1, <2>1, LaterInterval
  <2> QED BY <1>5, <2>2
<1>8. IInv'
  BY <1>1, <1>2, <1>4, <1>6, <1>7 DEF Inv, IInv, Asking
<1> QED BY <1>3, <1>8 DEF Inv

\* A step that leaves the trace being pulled and its words alone
LEMMA QuietStep ==
    ASSUME Inv, TypeOK', UNCHANGED <<cur, start, attempts, bad, words, failed, repaired, late>>,
           \/ pc' = pc
           \/ pc = "chunk" /\ pc' = "request" /\ cur <= Len(TraceOrder)
           \/ pc \in {"chunk", "request"} /\ pc' \in {"done", "aborted"}
    PROVE  Inv'
<1>1. (\A t \in Traces : InPlace(t))' /\ trace' = trace
  BY DEF Inv, IInv, InPlace, trace
<1>2. (\A f \in late : Answer(f))' /\ (\A k \in 1..Len(bad) : Answer(bad[k]))'
  BY <1>1 DEF Inv, IInv, Answer
<1>3. MaxRetries >= 0
  BY SizesAssumption
<1>4. IInv'
  BY <1>1, <1>2, <1>3 DEF Inv, IInv, Asking
<1> QED BY <1>4 DEF Inv

LEMMA OpenChunkStep == ASSUME Inv, OpenChunk PROVE Inv'
<1>1. /\ pc = "chunk" /\ cur <= Len(TraceOrder) /\ pc' = "request"
      /\ UNCHANGED <<cur, start, attempts, bad, words, failed, repaired, held, late>>
  BY DEF OpenChunk, pulls
<1>2. count' \in 0..MaxTraceWords
  <2>1. trace \in Traces /\ start \in Nat
    BY <1>1, TraceType DEF Inv, TypeOK
  <2>2. EncodedSize[trace] \in Nat
    BY <2>1, SizesAssumption
  <2> QED BY <2>1, <2>2, SizesAssumption DEF OpenChunk
<1>3. TypeOK'
  BY <1>1, <1>2 DEF Inv, TypeOK
<1> QED BY <1>1, <1>3, QuietStep

LEMMA StepInv == ASSUME Inv, [Next]_vars PROVE Inv'
<1>1. CASE Finish \/ NetworkFailure \/ Evict \/ UNCHANGED vars
  <2>1. TypeOK'
    BY <1>1 DEF Inv, TypeOK, Finish, NetworkFailure, Evict, vars, open, pulls
  <2>2. UNCHANGED <<cur, start, attempts, bad, words, failed, repaired, late>>
    BY <1>1 DEF Finish, NetworkFailure, Evict, vars, open, pulls
  <2>3. pc' = pc \/ (pc \in {"chunk", "request"} /\ pc' \in {"done", "aborted"})
    BY <1>1 DEF Finish, NetworkFailure, Evict, vars
  <2> QED BY <2>1, <2>2, <2>3, QuietStep
<1>2. CASE Damaged(TRUE) \/ Damaged(FALSE)
  BY <1>2, DamagedStep
<1> QED BY <1>1, <1>2, OpenChunkStep, NextTraceStep, GoodReplyStep, RefusedStep, ReadTimeoutStep,
           WaitOutStep, GatewayErrorStep, RepairChunkStep, ChunkFailsStep
        DEF Next, Bridge, Stop

-----------------------------------------------------------------------------
LEMMA InvAlways == Spec => []Inv
BY InitInv, StepInv, PTL DEF Spec

\* Types hold, and with them the bounds: a chunk is asked for at most
\* MaxRetries + 1 times (request_chunk), never for more than MaxTraceWords words.
THEOREM TypeCorrect == Spec => []TypeOK
<1>1. Inv => TypeOK
  BY DEF Inv
<1> QED BY <1>1, InvAlways, PTL

\* The words pull_profile keeps of a trace are the pump's own, in their place,
\* for any trace sizes, chunk size and number of retries.
THEOREM WordsInPlaceAlways == Spec => []WordsInPlace
<1>1. Inv => WordsInPlace
  BY DEF Inv, IInv, InPlace, WordsInPlace
<1> QED BY <1>1, InvAlways, PTL
-----------------------------------------------------------------------------
(* Every trace is accounted for *)

Short(t) == Len(words[t]) < EncodedSize[t]

\* A trace that was begun and left has a failed chunk or nothing missing; one
\* with a failed chunk was left, short of its words.
Told(i) ==
    /\ TraceOrder[i] \in failed => i < cur /\ Short(TraceOrder[i])
    /\ i < cur => TraceOrder[i] \in failed \/ ~Short(TraceOrder[i])

\* With it, a chunk is only asked for while words are missing, and the pull is
\* only done past the last trace.
AllTold ==
    /\ \A i \in 1..Len(TraceOrder) : Told(i)
    /\ pc \in Asking => start < EncodedSize[trace]
    /\ pc = "done" => cur > Len(TraceOrder)

LEMMA OrderLen == Len(TraceOrder) \in Nat
BY TracesAssumption

LEMMA PlaceTypes ==
    ASSUME TypeOK, NEW i \in 1..Len(TraceOrder)
    PROVE  /\ TraceOrder[i] \in Traces
           /\ Len(words[TraceOrder[i]]) \in Nat
           /\ EncodedSize[TraceOrder[i]] \in Nat
<1>1. TraceOrder[i] \in Traces
  BY TracesAssumption
<1>2. words[TraceOrder[i]] \in Seq(Words)
  BY <1>1 DEF TypeOK
<1> QED BY <1>1, <1>2, SizesAssumption

\* What is true of a trace stays true while another is being pulled.
LEMMA OthersStayTold ==
    ASSUME Inv, AllTold, cur <= Len(TraceOrder), cur' \in {cur, cur + 1},
           failed \subseteq failed', failed' \subseteq failed \union {trace},
           \A t \in Traces : t # trace => words'[t] = words[t],
           trace \in failed' => cur' = cur + 1 /\ Len(words'[trace]) < EncodedSize[trace],
           cur' = cur + 1 => trace \in failed' \/ ~(Len(words'[trace]) < EncodedSize[trace])
    PROVE  (\A i \in 1..Len(TraceOrder) : Told(i))'
<1> SUFFICES ASSUME NEW i \in 1..Len(TraceOrder) PROVE Told(i)'
  OBVIOUS
<1>1. cur \in Nat /\ cur \in 1..Len(TraceOrder)
  BY OrderLen DEF Inv, TypeOK
<1>2. CASE i = cur
  BY <1>1, <1>2 DEF Told, Short, trace
<1>3. CASE i # cur
  <2>1. TraceOrder[i] # trace /\ TraceOrder[i] \in Traces
    BY <1>1, <1>3, TracesAssumption DEF trace
  <2>2. words'[TraceOrder[i]] = words[TraceOrder[i]]
    BY <2>1
  <2>3. TraceOrder[i] \in failed' <=> TraceOrder[i] \in failed
    BY <2>1
  <2>4. i < cur' <=> i < cur
    BY <1>1, <1>3
  <2> QED BY <2>2, <2>3, <2>4 DEF Told, Short, AllTold
<1> QED BY <1>2, <1>3

\* A trace is given up at a chunk that failed.
LEMMA GiveUpTold ==
    ASSUME Inv, AllTold, pc \in Asking, GiveUpTrace, failed' = failed \union {trace},
           words' = words
    PROVE  AllTold'
<1>1. cur <= Len(TraceOrder) /\ trace \in Traces /\ cur \in Nat /\ cur' = cur + 1
  BY TraceType DEF Inv, IInv, TypeOK, GiveUpTrace
<1>2. Len(words[trace]) < EncodedSize[trace]
  BY <1>1 DEF Inv, IInv, AllTold
<1>3. (\A i \in 1..Len(TraceOrder) : Told(i))'
  BY <1>1, <1>2, OthersStayTold
<1>4. pc' = "chunk"
  BY DEF GiveUpTrace
<1> QED BY <1>3, <1>4 DEF AllTold, Asking

LEMMA TakeDataTold ==
    ASSUME Inv, AllTold, pc \in Asking, NEW STATE data, data \in Seq(Words), TakeData(data)
    PROVE  AllTold'
<1>1. /\ cur <= Len(TraceOrder) /\ trace \in Traces /\ cur \in Nat
      /\ words \in [Traces -> Seq(Words)]
  BY TraceType DEF Inv, IInv, TypeOK
<1>2. words' = [words EXCEPT ![trace] = words[trace] \o data]
  BY DEF TakeData
<1>3. CASE data = <<>>
  <2>1. words[trace] \in Seq(Words)
    BY <1>1
  <2>2. words[trace] \o data = words[trace]
    BY <1>3, <2>1
  <2>3. words' = words
    BY <1>1, <1>2, <2>2
  <2> QED BY <1>3, <2>3, GiveUpTold DEF TakeData
<1>4. CASE data # <<>>
  <2>1. pc' = "chunk" /\ cur' = cur /\ failed' = failed
    BY <1>4 DEF TakeData
  <2>2. cur \in 1..Len(TraceOrder) /\ Told(cur)
    BY <1>1, OrderLen DEF Inv, TypeOK, AllTold
  <2>3. trace \notin failed
    BY <1>1, <2>2 DEF Told, trace
  <2>4. \A t \in Traces : t # trace => words'[t] = words[t]
    BY <1>1, <1>2
  <2>5. (\A i \in 1..Len(TraceOrder) : Told(i))'
    BY <1>1, <2>1, <2>3, <2>4, OthersStayTold
  <2> QED BY <2>1, <2>5 DEF AllTold, Asking
<1> QED BY <1>3, <1>4

LEMMA NextTraceTold == ASSUME Inv, AllTold, NextTrace PROVE AllTold'
<1>1. /\ pc' = "chunk" /\ cur' = cur + 1 /\ cur <= Len(TraceOrder) /\ cur \in Nat
      /\ words' = words /\ failed' = failed /\ start >= EncodedSize[trace]
      /\ start = Len(words[trace])
  BY DEF NextTrace, pulls, Inv, IInv, TypeOK, Asking
<1>2. cur \in 1..Len(TraceOrder)
  BY <1>1, OrderLen DEF Inv, TypeOK
<1>3. trace \in Traces /\ Len(words[trace]) \in Nat /\ EncodedSize[trace] \in Nat
  BY <1>2, PlaceTypes DEF Inv, trace
<1>4. trace \notin failed
  BY <1>1, <1>2 DEF AllTold, Told, trace
<1>5. (\A i \in 1..Len(TraceOrder) : Told(i))'
  BY <1>1, <1>3, <1>4, OthersStayTold
<1> QED BY <1>1, <1>5 DEF AllTold, Asking

\* A step that leaves traces and marks alone
LEMMA QuietTold ==
    ASSUME AllTold, UNCHANGED <<cur, start, words, failed>>,
           pc' \in Asking => pc \in Asking \/ start < EncodedSize[trace],
           pc' = "done" => pc = "done" \/ cur > Len(TraceOrder)
    PROVE  AllTold'
<1>1. (\A i \in 1..Len(TraceOrder) : Told(i))' /\ trace' = trace
  BY DEF AllTold, Told, Short, trace
<1> QED BY <1>1 DEF AllTold

LEMMA InitTold == Init => AllTold
<1> SUFFICES ASSUME Init PROVE AllTold
  OBVIOUS
<1>1. cur = 1 /\ failed = {} /\ pc = "chunk"
  BY DEF Init
<1>2. \A i \in 1..Len(TraceOrder) : Told(i)
  BY <1>1 DEF Told
<1> QED BY <1>1, <1>2 DEF AllTold, Asking

LEMMA StepTold == ASSUME Inv, AllTold, [Next]_vars PROVE AllTold'
<1>1. CASE GoodReply
  <2>1. pc \in Asking
    BY <1>1 DEF GoodReply, Asking
  <2>2. PICK f \in Answers : TakeData(f.words)
    BY <1>1 DEF GoodReply
  <2>3. f.words \in Seq(Words)
    BY <1>1, <2>2, AnswersAnswer DEF GoodReply, Frames
  <2> QED BY <2>1, <2>2, <2>3, TakeDataTold
<1>2. CASE RepairChunk
  <2>1. pc = "repair"
    BY <1>2 DEF RepairChunk, RepairFirst
  <2>2. PICK k \in 1..Len(bad) : Repairable(bad[k]) /\ TakeData(RepairedWords(bad[k]))
    BY <1>2 DEF RepairChunk, RepairFirst
  <2>3. RepairedWords(bad[k]) \in Seq(Words)
    BY <2>1, <2>2, RepairAnswers
  <2> QED BY <2>1, <2>2, <2>3, TakeDataTold DEF Asking
<1>3. CASE ChunkFails
  BY <1>3, GiveUpTold DEF ChunkFails, Asking
<1>4. CASE OpenChunk
  BY <1>4, QuietTold DEF OpenChunk, pulls, Asking
<1>5. CASE Refused \/ Damaged(TRUE) \/ Damaged(FALSE) \/ ReadTimeout \/ GatewayError
  <2>1. UNCHANGED <<cur, start, words, failed>> /\ pc \in Asking /\ pc' # "done"
    BY <1>5 DEF Refused, Damaged, ReadTimeout, GatewayError, Attempt, AfterError, pulls, Asking
  <2> QED BY <2>1, QuietTold
<1>6. CASE WaitOut
  <2>1. UNCHANGED <<cur, start, words, failed>> /\ pc \in Asking /\ pc' # "done"
    BY <1>6 DEF WaitOut, AfterError, pulls, Asking
  <2> QED BY <2>1, QuietTold
<1>7. CASE Finish \/ NetworkFailure
  <2>1. UNCHANGED <<cur, start, words, failed>> /\ pc' \notin Asking
    BY <1>7 DEF Finish, NetworkFailure, pulls, Asking
  <2>2. pc' = "done" => cur > Len(TraceOrder)
    BY <1>7 DEF Finish, NetworkFailure
  <2> QED BY <2>1, <2>2, QuietTold
<1>8. CASE Evict \/ UNCHANGED vars
  <2>1. UNCHANGED <<cur, start, words, failed, pc>>
    BY <1>8 DEF Evict, vars, pulls
  <2> QED BY <2>1, QuietTold
<1> QED BY <1>1, <1>2, <1>3, <1>4, <1>5, <1>6, <1>7, <1>8, NextTraceTold DEF Next, Bridge, Stop

\* A pull that is done has every trace whole, or with a failed chunk, or longer
\* than it should be; and one with a failed chunk is never taken for whole.
THEOREM TracesAccountedForAlways == Spec => []TracesAccountedFor
<1>1. Inv /\ AllTold => TracesAccountedFor
  <2> SUFFICES ASSUME Inv, AllTold, pc = "done", NEW t \in Traces
               PROVE  /\ t \in failed => ~Complete(t)
                      /\ Complete(t) \/ t \in failed \/ Len(words[t]) > EncodedSize[t]
    BY DEF TracesAccountedFor
  <2>1. PICK i \in 1..Len(TraceOrder) : TraceOrder[i] = t
    BY TracesAssumption
  <2>2. i < cur
    BY <2>1, OrderLen DEF AllTold, Inv, TypeOK
  <2>3. Told(i) /\ Len(words[t]) \in Nat /\ EncodedSize[t] \in Nat
    BY <2>1, PlaceTypes DEF AllTold, Inv
  <2> QED BY <2>1, <2>2, <2>3 DEF Told, Short, Complete
<1> QED BY <1>1, InvAlways, InitTold, StepTold, PTL DEF Spec
=============================================================================
