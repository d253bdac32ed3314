---------------------------- MODULE ExtractProofs ----------------------------
(***************************************************************************)
(* Proofs about Extract, for any number of cycles asked for and held, any  *)
(* traces, and any sources that lag behind: types, that a capture's header *)
(* and its traces are of its cycle, and that a run leaves nothing out.     *)
(***************************************************************************)
EXTENDS Extract, FiniteSetTheorems, TLAPS

-----------------------------------------------------------------------------
(* The invariant *)

Looping == {"cycle", "pull", "store"}
Reading == {"last", "status", "svids", "title", "pct", "time"}

\* The pump has dispensed, and is never behind its own profiles. What a run
\* knows as the newest cycle is one the pump had.
Ahead ==
    /\ recorded \in 1..dispensed
    /\ error => pc \in {"end", "idle"}
    /\ pc \notin {"idle", "newest"} /\ ~error => newest \in 1..recorded
    /\ pc \in Looping => cycle \in Cycles /\ cycle <= newest

\* a part of the header that doesn't say which dispense it describes was read
\* after DISPENSE_INFO
Since(part) == part = None \/ (header.cycle # None /\ header.cycle <= part /\ part <= dispensed)

Parts ==
    /\ pc \in {"newest", "info"} => header = NoHeader
    /\ pc \in Reading => header.cycle # None
    /\ header.cycle = None \/ header.cycle <= dispensed
    /\ header.measured \in {header.cycle, None} /\ header.setpoint \in {header.cycle, None}
    /\ Since(header.title) /\ Since(header.pct)

\* what is in a capture, once a pull has begun
Taken ==
    /\ capture.blank <= Cardinality(capture.pulled)
    /\ pc \in {"pull", "store"} => cycle # 0 /\ capture.from \subseteq {cycle}

\* a cycle that is done with in this run
Settled(c) == collected[c] # None \/ ~Holds(c)

\* the loop has settled all it has come past
Past ==
    pc \in Looping => \A c \in Cycles : cycle < c /\ c <= newest => Settled(c)

IInv == Ahead /\ Parts /\ Taken /\ Past /\ HeaderIsOfItsCycle /\ RunLeavesNothingOut

Inv == TypeOK /\ IInv

-----------------------------------------------------------------------------
(* Operators *)

LEMMA Values ==
    /\ Cycles \subseteq Nat /\ MaxCycle \in Nat /\ 0 \in Cycles
    /\ None \notin Cycles /\ None \notin Flaws
    /\ HeldCycles \in Nat \ {0} /\ Retention \in Nat \ {0}
    /\ IsFiniteSet(Traces) /\ Cardinality(Traces) \in Nat
    /\ Clean \in Flaws
<1>1. IsFiniteSet(Traces) /\ Cardinality(Traces) \in Nat
  BY ExtractAssumption, FS_CardinalityType
<1> QED BY <1>1, ExtractAssumption DEF Cycles, Flaws, Clean

LEMMA NoHeaderType == NoHeader \in Header
BY DEF NoHeader, Header, Found

LEMMA NoCaptureType ==
    /\ NoCapture.pulled = {} /\ NoCapture.from = {} /\ NoCapture.blank = 0
    /\ NoCapture \in [pulled : SUBSET Traces, from : SUBSET Cycles,
                      blank : 0..Cardinality(Traces), repaired : 0..1, header : Header]
    /\ NoCapture.blank <= Cardinality(NoCapture.pulled)
<1>1. Cardinality({}) = 0
  BY FS_EmptySet
<1> QED BY <1>1, NoHeaderType, Values DEF NoCapture

\* A cycle that is not 0 is answered as itself, or not at all.
LEMMA AnsweringItself ==
    ASSUME NEW c \in Cycles, c # 0
    PROVE  Answering(c) \in {c, None}
BY DEF Answering

LEMMA Less ==
    \A a \in Int, b \in Int, c \in Int, n \in Int : a <= b /\ b - n < c => a - n < c
OBVIOUS

\* What was settled stays so: the pump takes no cycle up again.
LEMMA StaysSettled ==
    ASSUME TypeOK, NEW c \in Cycles, c <= recorded, Settled(c),
           recorded' \in Cycles, recorded <= recorded', collected' = collected
    PROVE  Settled(c)'
<1>1. c \in Nat /\ recorded \in Nat /\ recorded' \in Nat /\ Retention \in Nat
  BY Values DEF TypeOK
<1>3. ASSUME Holds(c)' PROVE Holds(c)
  <2>1. recorded' - Retention < c
    BY <1>3 DEF Holds
  <2>2. PICK r \in Int : r = recorded'
    BY <1>1
  <2>3. recorded <= r /\ r - Retention < c
    BY <2>1, <2>2
  <2>4. recorded - Retention < c
    BY <1>1, <2>3, Less
  <2> QED BY <2>4 DEF Holds
<1>2. collected[c] # None => collected'[c] # None
  OBVIOUS
<1> QED BY <1>2, <1>3 DEF Settled

\* and when the loop is over it has settled all it was to
LEMMA ToCycleSettles ==
    ASSUME newest \in Cycles, NEW n \in Int, n <= newest, ToCycle(n),
           \A c \in Cycles : n < c /\ c <= newest => Settled(c)'
    PROVE  /\ pc' \in {"cycle", "end"}
           /\ cycle' \in Found
           /\ pc' = "cycle" => cycle' = n /\ n \in Cycles
           /\ pc' = "end" => \A c \in Cycles :
                newest - HeldCycles < c /\ c <= newest => Settled(c)'
<1>1. newest \in Nat /\ HeldCycles \in Nat
  BY Values
<1>2. CASE n < LastAsked
  <2>1. pc' = "end" /\ cycle' = None
    BY <1>2 DEF ToCycle
  <2>2. ASSUME NEW c \in Cycles, newest - HeldCycles < c PROVE n < c
    <3>1. c \in Nat
      BY Values
    <3> QED BY <1>1, <1>2, <2>2, <3>1 DEF LastAsked
  <2> QED BY <2>1, <2>2 DEF Found
<1>3. CASE ~(n < LastAsked)
  <2>1. pc' = "cycle" /\ cycle' = n
    BY <1>3 DEF ToCycle
  <2>2. n \in Cycles
    BY <1>1, <1>3, Values DEF LastAsked, Cycles
  <2> QED BY <2>1, <2>2 DEF Found
<1> QED BY <1>2, <1>3

-----------------------------------------------------------------------------
(* The reads *)

Asked == {"newest", "info"} \union Reading

\* A read of the newest cycle or of a part of the header
LEMMA ReadKeeps ==
    ASSUME Inv, pc \in Asked, pc' \in {"info", "load"} \union Reading,
           UNCHANGED <<dispensed, recorded, trouble, cycle, capture, collected, error>>,
           newest' \in Cycles, newest' \in 1..recorded,
           header' \in Header, Parts'
    PROVE  Inv'
<1>1. TypeOK'
  BY DEF Inv, TypeOK, Found, Reading
<1>2. Ahead' /\ Taken' /\ Past' /\ HeaderIsOfItsCycle' /\ RunLeavesNothingOut'
  BY DEF Inv, IInv, Ahead, Taken, Past, HeaderIsOfItsCycle, RunLeavesNothingOut,
         Asked, Reading, Looping
<1> QED BY <1>1, <1>2 DEF Inv, IInv

LEMMA ReadNewestStep == ASSUME Inv, ReadNewest PROVE Inv'
<1>1. /\ pc = "newest" /\ pc' = "info" /\ newest' = recorded /\ header' = header
      /\ UNCHANGED <<dispensed, recorded, trouble, cycle, capture, collected, error>>
  BY DEF ReadNewest, Reads
<1>2. newest' \in Cycles /\ newest' \in 1..recorded /\ header' \in Header
  BY <1>1 DEF Inv, TypeOK, IInv, Ahead
<1>3. Parts'
  BY <1>1 DEF Inv, IInv, Parts, Since, Reading
<1> QED BY <1>1, <1>2, <1>3, ReadKeeps DEF Asked

\* what a read gives: a value, or nothing
LEMMA OrNoneValues ==
    ASSUME NEW values, NEW c \in OrNone(values)
    PROVE  c = None \/ c \in values
BY DEF OrNone

LEMMA NewestStays ==
    ASSUME Inv, pc \in {"info"} \union Reading, newest' = newest
    PROVE  newest' \in Cycles /\ newest' \in 1..recorded
<1>1. newest \in 1..recorded
  BY DEF Inv, IInv, Ahead, Reading
<1>2. newest # None
  <2>1. recorded \in Cycles /\ newest \in Found
    BY DEF Inv, TypeOK
  <2> QED BY <1>1, <2>1, Values DEF Cycles
<1> QED BY <1>1, <1>2 DEF Inv, TypeOK, Found

LEMMA ReadDispenseInfoStep == ASSUME Inv, ReadDispenseInfo PROVE Inv'
<1>1. PICK c \in OrNone({dispensed}) :
        /\ Reads("info", IF c = None THEN "load" ELSE "last")
        /\ header' = [header EXCEPT !.cycle = c]
        /\ newest' = newest
  BY DEF ReadDispenseInfo
<1>2. /\ pc = "info" /\ pc' = (IF c = None THEN "load" ELSE "last")
      /\ UNCHANGED <<dispensed, recorded, trouble, cycle, capture, collected, error>>
  BY <1>1 DEF Reads
<1>3. c = None \/ c = dispensed
  BY <1>1, OrNoneValues
<1>4. header' = [NoHeader EXCEPT !.cycle = c] /\ dispensed \in Cycles /\ dispensed \in Nat
  BY <1>1, <1>2, Values DEF Inv, TypeOK, IInv, Parts
<1>5. /\ header'.cycle = c /\ header'.measured = None /\ header'.setpoint = None
      /\ header'.title = None /\ header'.pct = None
  BY <1>4 DEF NoHeader
<1>6. header' \in Header
  BY <1>3, <1>4 DEF NoHeader, Header, Found
<1>7. Parts'
  BY <1>2, <1>3, <1>4, <1>5 DEF Parts, Since, Reading
<1>8. newest' \in Cycles /\ newest' \in 1..recorded
  BY <1>1, <1>2, NewestStays
<1> QED BY <1>2, <1>6, <1>7, <1>8, ReadKeeps DEF Asked, Reading

\* The header as it is read on: its cycle stays, each other part stays or is
\* one that is tied to it.
LEMMA HeaderGrows ==
    ASSUME Inv, pc \in Reading, pc' \in {"load"} \union Reading,
           UNCHANGED <<dispensed, recorded, trouble, cycle, capture, collected, error, newest>>,
           header' \in Header, header'.cycle = header.cycle,
           header'.measured \in {header.measured, header.cycle, None},
           header'.setpoint \in {header.setpoint, header.cycle, None},
           header'.title \in {header.title, dispensed, None},
           header'.pct \in {header.pct, dispensed, None}
    PROVE  Inv'
<1>1. dispensed \in Nat /\ header.cycle \in Cycles
  BY Values DEF Inv, TypeOK, Header, Found, IInv, Parts
<1>2. header.cycle \in Nat /\ header.cycle # None /\ header.cycle <= dispensed
  BY <1>1, Values DEF Inv, IInv, Parts
<1>3. Parts'
  BY <1>1, <1>2 DEF Inv, IInv, Parts, Since, Reading
<1>4. newest' \in Cycles /\ newest' \in 1..recorded
  BY NewestStays
<1> QED BY <1>3, <1>4, ReadKeeps DEF Asked

\* the values a part of the header may have
LEMMA FoundValues ==
    ASSUME Inv
    PROVE  /\ header \in Header /\ dispensed \in Found /\ None \in Found
           /\ header.cycle \in Found /\ header.measured \in Found /\ header.setpoint \in Found
           /\ header.title \in Found /\ header.pct \in Found
BY DEF Inv, TypeOK, Header, Found

LEMMA ReadLastDispenseStep == ASSUME Inv, ReadLastDispense PROVE Inv'
<1>1. PICK c : header' = [header EXCEPT !.measured = IF c = header.cycle THEN c ELSE None]
  BY DEF ReadLastDispense
<1>2. /\ pc = "last" /\ pc' = "status" /\ newest' = newest
      /\ UNCHANGED <<dispensed, recorded, trouble, cycle, capture, collected, error>>
  BY DEF ReadLastDispense, Reads
<1>3. /\ header' \in Header
      /\ header'.measured \in {header.cycle, None} /\ header'.cycle = header.cycle
      /\ header'.setpoint = header.setpoint /\ header'.title = header.title
      /\ header'.pct = header.pct
  BY <1>1, FoundValues DEF Header
<1> QED BY <1>2, <1>3, HeaderGrows DEF Reading

LEMMA ReadRtStatusStep == ASSUME Inv, ReadRtStatus PROVE Inv'
<1>1. PICK c : header' = [header EXCEPT !.setpoint = IF c = header.cycle THEN c ELSE None]
  BY DEF ReadRtStatus
<1>2. /\ pc = "status" /\ pc' = "svids" /\ newest' = newest
      /\ UNCHANGED <<dispensed, recorded, trouble, cycle, capture, collected, error>>
  BY DEF ReadRtStatus, Reads
<1>3. /\ header' \in Header
      /\ header'.setpoint \in {header.cycle, None} /\ header'.cycle = header.cycle
      /\ header'.measured = header.measured /\ header'.title = header.title
      /\ header'.pct = header.pct
  BY <1>1, FoundValues DEF Header
<1> QED BY <1>2, <1>3, HeaderGrows DEF Reading

LEMMA ReadSvidsStep == ASSUME Inv, ReadSvids PROVE Inv'
<1>1. PICK c \in OrNone({dispensed}) :
        header' = [header EXCEPT !.title = c, !.pct = Confirmation(c, c)]
  BY DEF ReadSvids
<1>2. /\ pc = "svids" /\ pc' = "load" /\ newest' = newest
      /\ UNCHANGED <<dispensed, recorded, trouble, cycle, capture, collected, error>>
  BY DEF ReadSvids, Reads
<1>3. c \in {dispensed, None} /\ Confirmation(c, c) \in {c, None}
  BY <1>1, OrNoneValues DEF Confirmation
<1>4. /\ header' \in Header
      /\ header'.title = c /\ header'.pct \in {c, None} /\ header'.cycle = header.cycle
      /\ header'.measured = header.measured /\ header'.setpoint = header.setpoint
  BY <1>1, <1>3, FoundValues DEF Header
<1> QED BY <1>2, <1>3, <1>4, HeaderGrows DEF Reading

LEMMA UnknownSvidStep == ASSUME Inv, UnknownSvid PROVE Inv'
<1>1. /\ pc = "svids" /\ pc' = "title" /\ newest' = newest /\ header' = header
      /\ UNCHANGED <<dispensed, recorded, trouble, cycle, capture, collected, error>>
  BY DEF UnknownSvid, Reads
<1> QED BY <1>1, FoundValues, HeaderGrows DEF Reading

LEMMA ReadTitleStep == ASSUME Inv, ReadTitle PROVE Inv'
<1>1. PICK c \in OrNone({dispensed}) : header' = [header EXCEPT !.title = c]
  BY DEF ReadTitle
<1>2. /\ pc = "title" /\ pc' = "pct" /\ newest' = newest
      /\ UNCHANGED <<dispensed, recorded, trouble, cycle, capture, collected, error>>
  BY DEF ReadTitle, Reads
<1>3. c \in {dispensed, None}
  BY <1>1, OrNoneValues
<1>4. /\ header' \in Header
      /\ header'.title = c /\ header'.cycle = header.cycle
      /\ header'.measured = header.measured /\ header'.setpoint = header.setpoint
      /\ header'.pct = header.pct
  BY <1>1, <1>3, FoundValues DEF Header
<1> QED BY <1>2, <1>3, <1>4, HeaderGrows DEF Reading

LEMMA ReadPctStep == ASSUME Inv, ReadPct PROVE Inv'
<1>1. PICK c \in OrNone({dispensed}) : header' = [header EXCEPT !.pct = c]
  BY DEF ReadPct
<1>2. /\ pc = "pct" /\ pc' = "time" /\ newest' = newest
      /\ UNCHANGED <<dispensed, recorded, trouble, cycle, capture, collected, error>>
  BY DEF ReadPct, Reads
<1>3. c \in {dispensed, None}
  BY <1>1, OrNoneValues
<1>4. /\ header' \in Header
      /\ header'.pct = c /\ header'.cycle = header.cycle
      /\ header'.measured = header.measured /\ header'.setpoint = header.setpoint
      /\ header'.title = header.title
  BY <1>1, <1>3, FoundValues DEF Header
<1> QED BY <1>2, <1>3, <1>4, HeaderGrows DEF Reading

LEMMA ReadTimeStep == ASSUME Inv, ReadTime PROVE Inv'
<1>1. PICK c : header' = [header EXCEPT !.pct = Confirmation(header.pct, c)]
  BY DEF ReadTime
<1>2. /\ pc = "time" /\ pc' = "load" /\ newest' = newest
      /\ UNCHANGED <<dispensed, recorded, trouble, cycle, capture, collected, error>>
  BY DEF ReadTime, Reads
<1>3. Confirmation(header.pct, c) \in {header.pct, None}
  BY DEF Confirmation
<1>4. /\ header' \in Header
      /\ header'.pct \in {header.pct, None} /\ header'.cycle = header.cycle
      /\ header'.measured = header.measured /\ header'.setpoint = header.setpoint
      /\ header'.title = header.title
  BY <1>1, <1>3, FoundValues DEF Header
<1> QED BY <1>2, <1>4, HeaderGrows DEF Reading

-----------------------------------------------------------------------------
(* The loop *)

\* while the loop runs there is no error, and the newest cycle is one of the pump's
LEMMA LoopTypes ==
    ASSUME Inv, pc \in {"load"} \union Looping
    PROVE  /\ ~error /\ newest \in Cycles /\ newest \in 1..recorded /\ recorded \in Cycles
           /\ pc \in Looping => cycle \in Cycles /\ cycle \in Nat /\ cycle <= newest
<1>1. ~error /\ newest \in 1..recorded /\ recorded \in Cycles /\ newest \in Found
  BY DEF Inv, TypeOK, IInv, Ahead, Looping
<1>2. newest \in Cycles
  BY <1>1, Values DEF Found, Cycles
<1>3. pc \in Looping => cycle \in Cycles /\ cycle \in Nat /\ cycle <= newest
  BY Values DEF Inv, IInv, Ahead
<1> QED BY <1>1, <1>2, <1>3

\* On to a cycle, or out of the loop.
LEMMA LoopStep ==
    ASSUME Inv, pc \in {"load"} \union Looping, NEW n \in Int, n <= newest, ToCycle(n), Keeps,
           capture' = capture, error' = error,
           collected' \in [Cycles -> Flaws \union {None}],
           \A c \in Cycles : n < c /\ c <= newest => Settled(c)'
    PROVE  Inv'
<1>1. /\ ~error /\ newest \in Cycles /\ newest \in 1..recorded /\ newest \in Nat
      /\ UNCHANGED <<dispensed, recorded, trouble, newest, header>>
  BY LoopTypes, Values DEF Keeps
<1>2. /\ pc' \in {"cycle", "end"} /\ cycle' \in Found
      /\ pc' = "cycle" => cycle' = n /\ n \in Cycles
      /\ pc' = "end" => \A c \in Cycles :
            newest - HeldCycles < c /\ c <= newest => Settled(c)'
  BY <1>1, ToCycleSettles
<1>3. TypeOK'
  BY <1>1, <1>2 DEF Inv, TypeOK
<1>4. Ahead'
  BY <1>1, <1>2 DEF Inv, IInv, Ahead, Looping
<1>5. Parts' /\ Taken' /\ HeaderIsOfItsCycle'
  BY <1>1, <1>2 DEF Inv, IInv, Parts, Since, Taken, HeaderIsOfItsCycle, Reading
<1>6. Past'
  BY <1>1, <1>2 DEF Past, Looping
<1>7. RunLeavesNothingOut'
  BY <1>1, <1>2 DEF RunLeavesNothingOut, Settled
<1> QED BY <1>3, <1>4, <1>5, <1>6, <1>7 DEF Inv, IInv

LEMMA LoadStep == ASSUME Inv, Load PROVE Inv'
<1>1. /\ pc = "load" /\ ToCycle(newest) /\ Keeps
      /\ capture' = capture /\ error' = error /\ collected' = collected
  BY DEF Load
<1>2. newest \in Nat
  BY <1>1, LoopTypes, Values
<1>3. \A c \in Cycles : newest < c /\ c <= newest => Settled(c)'
  BY <1>2, Values
<1>4. collected' \in [Cycles -> Flaws \union {None}]
  BY <1>1 DEF Inv, TypeOK
<1> QED BY <1>1, <1>2, <1>3, <1>4, LoopStep

\* The cycle the loop is at is settled, and those it has come past stay so.
LEMMA NextCycleStep ==
    ASSUME Inv, pc \in Looping, ToCycle(cycle - 1), Keeps, capture' = capture, error' = error,
           collected' \in [Cycles -> Flaws \union {None}],
           \A c \in Cycles : collected[c] # None => collected'[c] # None,
           collected'[cycle] # None \/ ~Holds(cycle)
    PROVE  Inv'
<1>1. cycle \in Cycles /\ cycle \in Nat /\ cycle <= newest /\ newest \in Nat
  BY LoopTypes, Values
<1>2. cycle - 1 \in Int /\ cycle - 1 <= newest
  BY <1>1
<1>3. ASSUME NEW c \in Cycles, cycle - 1 < c, c <= newest PROVE Settled(c)'
  <2>1. c \in Nat
    BY Values
  <2>2. c = cycle \/ cycle < c
    BY <1>1, <1>3, <2>1
  <2>3. CASE cycle < c
    <3>1. Settled(c)
      BY <1>3, <2>3 DEF Inv, IInv, Past
    <3> QED BY <3>1 DEF Settled, Holds, Keeps
  <2>4. CASE c = cycle
    BY <2>4 DEF Settled, Holds, Keeps
  <2> QED BY <2>2, <2>3, <2>4
<1> QED BY <1>2, <1>3, LoopStep

LEMMA SkipCleanStep == ASSUME Inv, SkipClean PROVE Inv'
<1>1. /\ pc \in Looping /\ ToCycle(cycle - 1) /\ Keeps /\ collected[cycle] = Clean
      /\ capture' = capture /\ error' = error /\ collected' = collected
  BY DEF SkipClean, Looping
<1>2. Clean # None
  BY Values
<1> QED BY <1>1, <1>2, NextCycleStep DEF Inv, TypeOK

LEMMA NotHeldStep == ASSUME Inv, NotHeld PROVE Inv'
<1>1. /\ pc \in Looping /\ ToCycle(cycle - 1) /\ Keeps /\ Answering(cycle) = None
      /\ capture' = capture /\ error' = error /\ collected' = collected
  BY DEF NotHeld, Looping
<1>2. cycle \in Cycles /\ recorded \in Cycles /\ None \notin Cycles
  BY <1>1, LoopTypes, Values
<1>3. ~Holds(cycle)
  BY <1>1, <1>2 DEF Answering
<1> QED BY <1>1, <1>3, NextCycleStep DEF Inv, TypeOK

\* what a capture has
LEMMA CaptureTypes ==
    ASSUME Inv
    PROVE  /\ capture.pulled \subseteq Traces /\ capture.from \subseteq Cycles
           /\ capture.blank \in Nat /\ capture.blank <= Cardinality(Traces)
           /\ capture.repaired \in 0..1 /\ capture.header \in Header
           /\ IsFiniteSet(capture.pulled) /\ Cardinality(capture.pulled) \in Nat
           /\ capture.blank <= Cardinality(capture.pulled)
<1>1. /\ capture.pulled \subseteq Traces /\ capture.from \subseteq Cycles
      /\ capture.blank \in Nat /\ capture.blank <= Cardinality(Traces)
      /\ capture.repaired \in 0..1 /\ capture.header \in Header
  BY Values DEF Inv, TypeOK
<1>2. IsFiniteSet(capture.pulled) /\ Cardinality(capture.pulled) \in Nat
  BY <1>1, Values, FS_Subset, FS_CardinalityType
<1> QED BY <1>1, <1>2 DEF Inv, IInv, Taken

LEMMA StoreStep == ASSUME Inv, Store PROVE Inv'
<1>1. /\ pc \in Looping /\ ToCycle(cycle - 1) /\ Keeps
      /\ capture' = capture /\ error' = error
      /\ \/ collected[cycle] # None /\ collected' = collected
         \/ collected' = [collected EXCEPT ![cycle] = CaptureFlaws]
  BY DEF Store, Looping
<1>2. cycle \in Cycles /\ collected \in [Cycles -> Flaws \union {None}]
  BY <1>1, LoopTypes DEF Inv, TypeOK
<1>3. CaptureFlaws \in Flaws /\ CaptureFlaws # None
  BY CaptureTypes, Values DEF CaptureFlaws, Flaws
<1> QED BY <1>1, <1>2, <1>3, NextCycleStep

\* A step of collecting one cycle: the capture changes, nothing else does.
LEMMA CollectStep ==
    ASSUME Inv, pc \in {"cycle", "pull"}, pc' \in {"pull", "store", "end"}, Keeps,
           cycle' = cycle, collected' = collected,
           error' \in BOOLEAN, error' <=> pc' = "end",
           capture' \in [pulled : SUBSET Traces, from : SUBSET Cycles,
                         blank : 0..Cardinality(Traces), repaired : 0..1, header : Header],
           Taken', HeaderIsOfItsCycle'
    PROVE  Inv'
<1>1. /\ newest \in 1..recorded
      /\ UNCHANGED <<dispensed, recorded, trouble, newest, header>>
  BY LoopTypes DEF Keeps, Looping
<1>2. TypeOK'
  BY <1>1 DEF Inv, TypeOK
<1>3. Ahead'
  BY <1>1 DEF Inv, IInv, Ahead, Looping
<1>4. Parts'
  BY <1>1 DEF Inv, IInv, Parts, Since, Reading
<1>5. Past' /\ RunLeavesNothingOut'
  BY <1>1 DEF Inv, IInv, Past, RunLeavesNothingOut, Looping, Settled, Holds
<1> QED BY <1>2, <1>3, <1>4, <1>5 DEF Inv, IInv

LEMMA WrongInfoStep == ASSUME Inv, WrongInfo PROVE Inv'
<1>1. /\ pc = "cycle" /\ pc' = "end" /\ error' = TRUE /\ Keeps
      /\ cycle' = cycle /\ capture' = capture /\ collected' = collected
  BY DEF WrongInfo
<1>2. Taken' /\ HeaderIsOfItsCycle'
  BY <1>1 DEF Inv, IInv, Taken, HeaderIsOfItsCycle
<1>3. error' \in BOOLEAN /\ (error' <=> pc' = "end")
  BY <1>1
<1> QED BY <1>1, <1>2, <1>3, CollectStep DEF Inv, TypeOK

LEMMA StartPullStep == ASSUME Inv, StartPull PROVE Inv'
<1>1. /\ pc = "cycle" /\ pc' = "pull" /\ error' = error /\ Keeps
      /\ cycle' = cycle /\ capture' = NoCapture /\ collected' = collected
      /\ Answering(cycle) = cycle
  BY DEF StartPull
<1>2. ~error /\ recorded \in Nat /\ recorded >= 1 /\ cycle \in Nat
  <2>1. recorded \in 1..dispensed /\ dispensed \in Nat
    BY Values DEF Inv, TypeOK, IInv, Ahead
  <2> QED BY <1>1, <2>1, LoopTypes DEF Looping
<1>3. cycle # 0
  BY <1>1, <1>2 DEF Answering
<1>4. Taken'
  BY <1>1, <1>3, NoCaptureType DEF Taken
<1>5. HeaderIsOfItsCycle'
  BY <1>1 DEF HeaderIsOfItsCycle
<1>6. error' \in BOOLEAN /\ (error' <=> pc' = "end")
  BY <1>1, <1>2 DEF Inv, TypeOK
<1> QED BY <1>1, <1>4, <1>5, <1>6, NoCaptureType, CollectStep

\* what comes of a trace is added to the capture
LEMMA TraceStep ==
    ASSUME Inv, NEW t, Pulled(t), pc' = pc, Keeps, UNCHANGED <<cycle, collected, error>>,
           NEW from \in SUBSET {cycle}, NEW missed \in 0..1, NEW repaired \in 0..1,
           capture' = [pulled |-> capture.pulled \union {t}, from |-> capture.from \union from,
                       blank |-> capture.blank + missed, repaired |-> repaired,
                       header |-> capture.header]
    PROVE  Inv'
<1>1. pc = "pull" /\ t \in Traces /\ t \notin capture.pulled
  BY DEF Pulled
<1>2. ~error /\ cycle \in Cycles /\ cycle # 0 /\ capture.from \subseteq {cycle}
  BY <1>1, LoopTypes DEF Inv, IInv, Taken, Looping
<1>3. /\ capture.pulled \union {t} \subseteq Traces
      /\ Cardinality(capture.pulled \union {t}) = Cardinality(capture.pulled) + 1
  BY <1>1, CaptureTypes, FS_AddElement
<1>4. Cardinality(capture.pulled \union {t}) <= Cardinality(Traces)
  BY <1>3, Values, FS_Subset
<1>5. capture.blank + missed \in Nat /\ capture.blank + missed <= Cardinality(capture.pulled) + 1
  BY CaptureTypes
<1>6. capture.blank + missed \in 0..Cardinality(Traces)
  BY <1>3, <1>4, <1>5, Values, CaptureTypes
<1>7. capture' \in [pulled : SUBSET Traces, from : SUBSET Cycles,
                    blank : 0..Cardinality(Traces), repaired : 0..1, header : Header]
  BY <1>2, <1>3, <1>6, CaptureTypes
<1>8. Taken'
  <2>1. capture'.pulled = capture.pulled \union {t} /\ capture'.blank = capture.blank + missed
        /\ capture'.from \subseteq {cycle}
    BY <1>2
  <2> QED BY <1>1, <1>2, <1>3, <1>5, <2>1 DEF Taken
<1>9. HeaderIsOfItsCycle'
  BY <1>1 DEF HeaderIsOfItsCycle
<1>10. error' \in BOOLEAN /\ (error' <=> pc' = "end")
  BY <1>1, <1>2 DEF Inv, TypeOK
<1> QED BY <1>1, <1>7, <1>8, <1>9, <1>10, CollectStep

LEMMA PullTraceStep == ASSUME Inv, NEW t \in Traces, PullTrace(t) PROVE Inv'
<1>1. PICK repaired \in {0, 1} :
          capture' = [capture EXCEPT !.pulled = @ \union {t},
                                     !.from = @ \union {Answering(cycle)},
                                     !.repaired = IF repaired = 1 THEN 1 ELSE @]
  BY DEF PullTrace
<1>2. /\ Pulled(t) /\ Answering(cycle) # None /\ pc' = pc /\ Keeps
      /\ UNCHANGED <<cycle, collected, error>>
  BY DEF PullTrace
<1>3. Answering(cycle) = cycle
  <2>1. pc \in Looping /\ pc = "pull"
    BY <1>2 DEF Pulled, Looping
  <2> QED BY <1>2, <2>1, LoopTypes, AnsweringItself DEF Inv, IInv, Taken
<1> DEFINE mended == IF repaired = 1 THEN 1 ELSE capture.repaired
<1>4. mended \in 0..1 /\ capture.blank \in Nat
  BY CaptureTypes
<1>5. capture \in [pulled : SUBSET Traces, from : SUBSET Cycles,
                   blank : 0..Cardinality(Traces), repaired : 0..1, header : Header]
  BY DEF Inv, TypeOK
<1>6. capture' = [pulled |-> capture.pulled \union {t}, from |-> capture.from \union {cycle},
                  blank |-> capture.blank, repaired |-> mended, header |-> capture.header]
  BY <1>1, <1>3, <1>5
<1>7. capture.blank = capture.blank + 0
  BY <1>4
<1> HIDE DEF mended
<1>8. capture' = [pulled |-> capture.pulled \union {t}, from |-> capture.from \union {cycle},
                  blank |-> capture.blank + 0, repaired |-> mended, header |-> capture.header]
  BY <1>6, <1>7
<1>9. {cycle} \in SUBSET {cycle} /\ 0 \in 0..1
  OBVIOUS
<1> QED BY <1>2, <1>4, <1>8, <1>9, TraceStep

LEMMA MissTraceStep == ASSUME Inv, NEW t \in Traces, MissTrace(t) PROVE Inv'
<1>1. /\ Pulled(t) /\ pc' = pc /\ Keeps /\ UNCHANGED <<cycle, collected, error>>
      /\ capture' = [capture EXCEPT !.pulled = @ \union {t}, !.blank = @ + 1]
  BY DEF MissTrace
<1>2. capture \in [pulled : SUBSET Traces, from : SUBSET Cycles,
                   blank : 0..Cardinality(Traces), repaired : 0..1, header : Header]
  BY DEF Inv, TypeOK
<1>3. capture' = [pulled |-> capture.pulled \union {t}, from |-> capture.from \union {},
                  blank |-> capture.blank + 1, repaired |-> capture.repaired,
                  header |-> capture.header]
  BY <1>1, <1>2
<1>4. capture.repaired \in 0..1 /\ {} \in SUBSET {cycle} /\ 1 \in 0..1
  BY CaptureTypes
<1> QED BY <1>1, <1>3, <1>4, TraceStep

\* A header of the cycle of the dispense that is still the newest has only
\* parts of it.
LEMMA HeaderTied ==
    ASSUME Inv, header.cycle = cycle, dispensed = cycle, cycle \in Cycles
    PROVE  Tied(header)
<1>1. /\ header.measured \in {header.cycle, None} /\ header.setpoint \in {header.cycle, None}
      /\ Since(header.title) /\ Since(header.pct) /\ cycle \in Nat
  BY Values DEF Inv, IInv, Parts
<1>2. ASSUME NEW part, part \in Found, Since(part) PROVE part \in {header.cycle, None}
  <2>1. CASE part \in Cycles
    <3>1. part \in Nat /\ None \notin Cycles
      BY <2>1, Values
    <3> QED BY <1>1, <1>2, <2>1, <3>1 DEF Since
  <2>2. CASE part = None
    BY <2>2
  <2> QED BY <1>2, <2>1, <2>2 DEF Found
<1>3. header.title \in {header.cycle, None} /\ header.pct \in {header.cycle, None}
  BY <1>1, <1>2, FoundValues
<1> QED BY <1>1, <1>3 DEF Tied

LEMMA CheckHeaderStep == ASSUME Inv, CheckHeader PROVE Inv'
<1>1. /\ pc = "pull" /\ pc' = "store" /\ Keeps /\ UNCHANGED <<cycle, collected, error>>
  BY DEF CheckHeader
<1>2. PICK after \in OrNone({dispensed}) :
          capture' = [capture EXCEPT !.header =
                        IF header.cycle = cycle /\ after = cycle THEN header ELSE NoHeader]
  BY DEF CheckHeader
<1> DEFINE kept == IF header.cycle = cycle /\ after = cycle THEN header ELSE NoHeader
<1>3. ~error /\ cycle \in Cycles
  BY <1>1, LoopTypes DEF Looping
<1>4. kept \in Header /\ kept.cycle \in {cycle, None} /\ Tied(kept)
  <2>1. CASE header.cycle = cycle /\ after = cycle
    <3>1. dispensed = cycle
      BY <1>3, <2>1, OrNoneValues, Values
    <3> QED BY <1>3, <2>1, <3>1, HeaderTied, FoundValues
  <2>2. CASE ~(header.cycle = cycle /\ after = cycle)
    <3>1. Tied(NoHeader) /\ NoHeader.cycle = None
      BY DEF Tied, NoHeader
    <3> QED BY <2>2, <3>1, NoHeaderType
  <2> QED BY <2>1, <2>2
<1> HIDE DEF kept
<1>5. capture' = [capture EXCEPT !.header = kept]
  BY <1>2 DEF kept
<1>6. /\ capture' \in [pulled : SUBSET Traces, from : SUBSET Cycles,
                       blank : 0..Cardinality(Traces), repaired : 0..1, header : Header]
      /\ capture'.header = kept /\ capture'.pulled = capture.pulled
      /\ capture'.blank = capture.blank /\ capture'.from = capture.from
  BY <1>4, <1>5 DEF Inv, TypeOK
<1>7. Taken'
  BY <1>1, <1>6 DEF Inv, IInv, Taken
<1>8. HeaderIsOfItsCycle'
  BY <1>1, <1>4, <1>6 DEF HeaderIsOfItsCycle, Tied
<1>9. error' \in BOOLEAN /\ (error' <=> pc' = "end")
  BY <1>1, <1>3 DEF Inv, TypeOK
<1> QED BY <1>1, <1>6, <1>7, <1>8, <1>9, CollectStep

-----------------------------------------------------------------------------
(* Begin and end of a run, faults and the pump *)

LEMMA StartStep == ASSUME Inv, Start PROVE Inv'
<1>1. /\ pc' = "newest" /\ newest' = None /\ header' = NoHeader /\ cycle' = None
      /\ capture' = NoCapture /\ error' = FALSE
      /\ UNCHANGED <<dispensed, recorded, trouble, collected>>
  BY DEF Start
<1>2. TypeOK'
  BY <1>1, NoHeaderType, NoCaptureType DEF Inv, TypeOK, Found
<1>3. Ahead' /\ Past' /\ HeaderIsOfItsCycle' /\ RunLeavesNothingOut'
  BY <1>1 DEF Inv, IInv, Ahead, Past, HeaderIsOfItsCycle, RunLeavesNothingOut, Looping
<1>4. Parts'
  BY <1>1 DEF Parts, Since, NoHeader, Reading
<1>5. Taken'
  BY <1>1, NoCaptureType DEF Taken
<1> QED BY <1>2, <1>3, <1>4, <1>5 DEF Inv, IInv

LEMMA EndStep == ASSUME Inv, Fail \/ EndRun PROVE Inv'
<1>1. /\ \/ pc' = "end" /\ error'
         \/ pc = "end" /\ pc' = "idle" /\ error' = error
      /\ error' \in BOOLEAN
      /\ UNCHANGED <<dispensed, recorded, trouble, newest, header, cycle, capture, collected>>
  BY DEF Fail, EndRun, Keeps, Inv, TypeOK
<1>2. TypeOK'
  BY <1>1 DEF Inv, TypeOK
<1>3. Ahead'
  BY <1>1 DEF Inv, IInv, Ahead, Looping
<1>4. Parts' /\ Taken'
  BY <1>1 DEF Inv, IInv, Parts, Since, Taken, Reading
<1>5. Past' /\ HeaderIsOfItsCycle' /\ RunLeavesNothingOut'
  BY <1>1 DEF Past, HeaderIsOfItsCycle, RunLeavesNothingOut, Looping
<1> QED BY <1>2, <1>3, <1>4, <1>5 DEF Inv, IInv

\* The pump goes on, or the trouble ends.
LEMMA PumpStep ==
    ASSUME Inv, Dispense \/ RecordProfile \/ TroubleEnds
    PROVE  Inv'
<1>1. UNCHANGED <<pc, newest, header, cycle, capture, collected, error>>
  BY DEF Dispense, RecordProfile, TroubleEnds
<1>2. /\ dispensed \in Nat /\ recorded \in Nat /\ MaxCycle \in Nat
      /\ dispensed <= MaxCycle /\ recorded <= dispensed /\ recorded >= 1
  BY Values DEF Inv, TypeOK, IInv, Ahead, Cycles
<1>3. /\ dispensed' \in Nat /\ recorded' \in Nat
      /\ dispensed' <= MaxCycle /\ dispensed <= dispensed'
      /\ recorded <= recorded' /\ recorded' <= dispensed'
      /\ trouble' \in BOOLEAN
  <2>1. CASE Dispense
    BY <1>2, <2>1 DEF Dispense, Inv, TypeOK
  <2>2. CASE RecordProfile
    BY <1>2, <2>2 DEF RecordProfile, Inv, TypeOK
  <2>3. CASE TroubleEnds
    <3>1. dispensed' = dispensed /\ recorded' = recorded /\ trouble' = FALSE
      BY <2>3 DEF TroubleEnds
    <3>2. dispensed <= dispensed /\ recorded <= recorded
      BY <1>2
    <3> QED BY <1>2, <3>1, <3>2, Zenon
  <2> QED BY <2>1, <2>2, <2>3
<1>4. TypeOK'
  <2>1. dispensed' \in Cycles /\ recorded' \in Cycles
    BY <1>2, <1>3 DEF Cycles
  <2> QED BY <1>1, <1>3, <2>1 DEF Inv, TypeOK
<1>5. Ahead'
  <2>1. recorded' \in 1..dispensed'
    BY <1>2, <1>3
  <2>2. newest \in 1..recorded => newest \in 1..recorded'
    BY <1>2, <1>3
  <2> QED BY <1>1, <2>1, <2>2 DEF Inv, IInv, Ahead
<1>6. Parts'
  <2>1. ASSUME NEW part \in Found, Since(part) PROVE part = None \/ part <= dispensed'
    <3>1. CASE part \in Cycles
      <4>1. part \in Nat /\ part # None
        BY <3>1, Values
      <4> QED BY <1>2, <1>3, <2>1, <4>1 DEF Since
    <3> QED BY <3>1 DEF Found
  <2>2. header.cycle = None \/ header.cycle <= dispensed'
    <3>1. CASE header.cycle \in Cycles
      <4>1. header.cycle \in Nat /\ header.cycle # None
        BY <3>1, Values
      <4> QED BY <1>2, <1>3, <4>1 DEF Inv, IInv, Parts
    <3> QED BY <3>1, FoundValues DEF Found
  <2>3. /\ header.title = None \/ header.title <= dispensed'
        /\ header.pct = None \/ header.pct <= dispensed'
    BY <2>1, FoundValues DEF Inv, IInv, Parts
  <2> QED BY <1>1, <2>2, <2>3 DEF Inv, IInv, Parts, Since
<1>7. Taken' /\ HeaderIsOfItsCycle'
  BY <1>1 DEF Inv, IInv, Taken, HeaderIsOfItsCycle
<1>8. ASSUME NEW c \in Cycles, newest \in 1..recorded, c <= newest, Settled(c)
      PROVE  Settled(c)'
  <2>1. c \in Nat /\ c <= recorded
    BY <1>2, <1>8, Values
  <2> QED BY <1>1, <1>3, <1>4, <1>8, <2>1, StaysSettled DEF Inv, TypeOK
<1>9. Past'
  <2>1. pc \in Looping => newest \in 1..recorded
    BY LoopTypes
  <2> QED BY <1>1, <1>8, <2>1 DEF Inv, IInv, Past
<1>10. RunLeavesNothingOut'
  <2>1. pc = "end" /\ ~error => newest \in 1..recorded
    BY DEF Inv, IInv, Ahead
  <2>2. pc = "end" /\ ~error =>
          \A c \in Cycles : newest - HeldCycles < c /\ c <= newest => Settled(c)
    BY DEF Inv, IInv, RunLeavesNothingOut, Settled
  <2>3. pc = "end" /\ ~error =>
          \A c \in Cycles : newest - HeldCycles < c /\ c <= newest => Settled(c)'
    BY <1>8, <2>1, <2>2
  <2> QED BY <1>1, <2>3 DEF RunLeavesNothingOut, Settled
<1> QED BY <1>4, <1>5, <1>6, <1>7, <1>9, <1>10 DEF Inv, IInv

-----------------------------------------------------------------------------
LEMMA InitInv == Init => Inv
<1> SUFFICES ASSUME Init PROVE Inv
  OBVIOUS
<1>1. /\ recorded \in FirstCycles /\ dispensed = recorded /\ pc = "idle" /\ newest = None
      /\ header = NoHeader /\ cycle = None /\ capture = NoCapture /\ error = FALSE
      /\ trouble = TRUE /\ collected = [c \in Cycles |-> None]
  BY DEF Init
<1>2. recorded \in Cycles /\ recorded \in Nat /\ recorded # 0
  BY <1>1, Values, ExtractAssumption
<1>3. TypeOK
  BY <1>1, <1>2, NoHeaderType, NoCaptureType DEF TypeOK, Found
<1>4. Ahead
  BY <1>1, <1>2 DEF Ahead, Looping
<1>5. Parts
  BY <1>1 DEF Parts, Since, NoHeader, Reading
<1>6. Taken
  BY <1>1, NoCaptureType DEF Taken
<1>7. Past /\ HeaderIsOfItsCycle /\ RunLeavesNothingOut
  BY <1>1 DEF Past, HeaderIsOfItsCycle, RunLeavesNothingOut, Looping
<1> QED BY <1>3, <1>4, <1>5, <1>6, <1>7 DEF Inv, IInv

LEMMA StepInv == ASSUME Inv, [Next]_vars PROVE Inv'
<1>1. CASE UNCHANGED vars
  BY <1>1 DEF vars, Inv, TypeOK, IInv, Ahead, Parts, Since, Taken, Past, Settled, Holds,
              HeaderIsOfItsCycle, RunLeavesNothingOut
<1>2. CASE \E t \in Traces : PullTrace(t) \/ MissTrace(t)
  BY <1>2, PullTraceStep, MissTraceStep
<1> QED BY <1>1, <1>2, StartStep, ReadNewestStep, ReadDispenseInfoStep, ReadLastDispenseStep,
           ReadRtStatusStep, ReadSvidsStep, UnknownSvidStep, ReadTitleStep, ReadPctStep,
           ReadTimeStep, LoadStep, SkipCleanStep, NotHeldStep, WrongInfoStep, StartPullStep,
           CheckHeaderStep, StoreStep, EndStep, PumpStep
        DEF Next, Run

LEMMA InvAlways == Spec => []Inv
BY InitInv, StepInv, PTL DEF Spec

\* Types hold; in particular no trace of a capture is counted as blank twice.
THEOREM TypeCorrect == Spec => []TypeOK
<1>1. Inv => TypeOK
  BY DEF Inv
<1> QED BY <1>1, InvAlways, PTL

\* However far behind its sources are, and whenever the pump dispenses, a
\* capture is only given a header of its own cycle.
THEOREM HeaderIsOfItsCycleAlways == Spec => []HeaderIsOfItsCycle
<1>1. Inv => HeaderIsOfItsCycle
  BY DEF Inv, IInv
<1> QED BY <1>1, InvAlways, PTL

\* The traces of a capture are of the cycle asked for, cycle 0 and its alias
\* included.
THEOREM TracesAreOfTheirCycleAlways == Spec => []TracesAreOfTheirCycle
<1>1. Inv => TracesAreOfTheirCycle
  BY DEF Inv, IInv, Taken, TracesAreOfTheirCycle
<1> QED BY <1>1, InvAlways, PTL

\* A run without an error leaves none of the cycles it is to look at out, for
\* any window and any retention.
THEOREM RunLeavesNothingOutAlways == Spec => []RunLeavesNothingOut
<1>1. Inv => RunLeavesNothingOut
  BY DEF Inv, IInv
<1> QED BY <1>1, InvAlways, PTL
=============================================================================
