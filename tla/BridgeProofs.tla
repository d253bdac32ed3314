----------------------------- MODULE BridgeProofs -----------------------------
(***************************************************************************)
(* Theorems about Bridge, for any table of pumps.                            *)
(***************************************************************************)
EXTENDS Bridge, TLAPS

USE TableAssumption

-----------------------------------------------------------------------------
(* Types *)

\* A round's pumps are only there while it lasts, and what is left of them only
\* until it is through.
Rounds ==
    /\ pc \in {"loop", "schedule", "asleep"} => todo = {}
    /\ pc \in {"loop", "asleep"} => due = {}

LEMMA PumpsType == \A p \in Pumps : Frequency[p] \in Nat /\ Frequency[p] <= Longest
BY DEF Pumps

\* What each step keeps of the types.
LEMMA TypeStep == ASSUME TypeOK, Rounds, [Next]_vars PROVE TypeOK'
<1> USE DEF TypeOK, Times, Larger, Smaller
<1>1. CASE UNCHANGED vars
  BY <1>1 DEF vars, timing, history
<1>2. CASE StartRound
  <2>1. UNION {Group(b) \intersect due' : b \in Buses} \subseteq due'
    OBVIOUS
  <2>2. due' \subseteq Pumps
    BY <1>2 DEF StartRound
  <2> QED BY <1>2, <2>1, <2>2 DEF StartRound
<1>3. ASSUME NEW p \in Pumps, StartPump(p) PROVE TypeOK'
  <2>1. overtaken' \in [Pumps -> [Pumps -> 0..3]]
    BY <1>3 DEF StartPump
  <2>2. sinceStart' \in [Pumps -> 0..Longest]
    BY <1>3 DEF StartPump
  <2> QED BY <1>3, <2>1, <2>2 DEF StartPump, timing
<1>4. CASE PumpDone
  BY <1>4 DEF PumpDone, timing, history
<1>5. CASE Record
  BY <1>5 DEF Record, timing, history
<1>6. CASE Schedule
  <2>1. ASSUME NEW p \in Pumps PROVE NextDue(p) \in 0..Longest
    BY PumpsType DEF NextDue
  <2>2. dueIn' \in [Pumps -> 0..Longest]
    BY <1>6, <2>1 DEF Schedule
  <2>3. wait' \in 0..Longest
    BY <1>6, <2>2 DEF Schedule
  <2> QED BY <1>6, <2>2, <2>3 DEF Schedule, history, Rounds
<1>7. CASE Wake
  BY <1>7 DEF Wake, timing, history
<1>8. CASE LogFails
  BY <1>8 DEF LogFails, timing, history
<1>9. CASE RecordFails
  BY <1>9 DEF RecordFails, timing, history
<1>10. CASE Interrupt
  BY <1>10 DEF Interrupt, timing, history
<1>11. CASE Tick
  BY <1>11 DEF Tick
<1> QED BY <1>1, <1>2, <1>3, <1>4, <1>5, <1>6, <1>7, <1>8, <1>9, <1>10, <1>11 DEF Next, Loop

LEMMA RoundsStep == ASSUME TypeOK, Rounds, [Next]_vars PROVE Rounds'
BY DEF TypeOK, Rounds, Next, Loop, vars, timing, history, StartRound, StartPump, PumpDone,
       Record, Schedule, Wake, LogFails, RecordFails, Interrupt, Tick

LEMMA Start == Init => TypeOK /\ Rounds
BY DEF Init, TypeOK, Times, Rounds

\* Types, for any table, buses and frequencies; a round only takes in pumps of
\* the table, and what is left of it is part of it (bridge.py, main, run_pumps).
THEOREM TypeCorrect == Spec => []TypeOK
<1> QED BY Start, TypeStep, RoundsStep, PTL DEF Spec

-----------------------------------------------------------------------------
(* A pump that is not in the round is due when its frequency has passed, and   *)
(* one that is in it has been in it since it began.                            *)

DueInTime ==
    \A p \in Pumps :
        IF p \in due THEN sinceRound[p] >= elapsed
        ELSE dueIn[p] + sinceRound[p] >= Frequency[p]

LEMMA DueInTimeStep ==
    ASSUME TypeOK, Rounds, DueInTime, [Next]_vars PROVE DueInTime'
<1> SUFFICES ASSUME NEW p \in Pumps
             PROVE  IF p \in due' THEN sinceRound'[p] >= elapsed'
                    ELSE dueIn'[p] + sinceRound'[p] >= Frequency[p]
  BY DEF DueInTime
<1>t. /\ Frequency[p] \in Nat /\ Frequency[p] <= Longest /\ Longest \in Nat
      /\ dueIn[p] \in 0..Longest /\ sinceRound[p] \in 0..Longest /\ elapsed \in 0..Longest
  BY PumpsType DEF TypeOK, Times
<1>d. IF p \in due THEN sinceRound[p] >= elapsed ELSE dueIn[p] + sinceRound[p] >= Frequency[p]
  BY DEF DueInTime
<1>1. CASE UNCHANGED <<due, dueIn, elapsed, sinceRound>>
  BY <1>1, <1>d
<1>2. CASE StartRound
  <2>1. elapsed' = 0 /\ dueIn' = dueIn /\ p \notin due
    BY <1>2 DEF StartRound, Rounds
  <2>2. sinceRound'[p] = IF p \in due' THEN 0 ELSE sinceRound[p]
    BY <1>2 DEF StartRound
  <2> QED BY <2>1, <2>2, <1>d, <1>t
<1>3. CASE Schedule
  <2>1. dueIn'[p] = IF p \in due THEN NextDue(p) ELSE dueIn[p]
    BY <1>3 DEF Schedule
  <2>2. due' = {} /\ sinceRound' = sinceRound
    BY <1>3 DEF Schedule, history
  <2> QED BY <2>1, <2>2, <1>d, <1>t DEF NextDue, Larger
<1>4. CASE Tick
  <2>1. /\ due' = due
        /\ dueIn'[p] = Larger(dueIn[p] - 1, 0)
        /\ sinceRound'[p] = Smaller(sinceRound[p] + 1, Longest)
        /\ elapsed' = Smaller(elapsed + 1, Longest)
    BY <1>4 DEF Tick
  <2> QED BY <2>1, <1>d, <1>t DEF Larger, Smaller
<1> QED BY <1>1, <1>2, <1>3, <1>4 DEF Next, Loop, vars, timing, history, StartPump, PumpDone,
           Record, Wake, LogFails, RecordFails, Interrupt

LEMMA DueInTimeStart == Init => DueInTime
BY PumpsType DEF Init, DueInTime

LEMMA NoRoundTooSoon ==
    ASSUME TypeOK, Rounds, DueInTime, [Next]_vars, NEW p \in due' \ due
    PROVE  sinceRound[p] >= Frequency[p]
<1>1. StartRound
  BY DEF Next, Loop, vars, timing, history, StartPump, PumpDone,
         Record, Wake, LogFails, RecordFails, Interrupt, Schedule, Tick
<1>2. p \in Pumps /\ dueIn[p] = 0
  BY <1>1 DEF StartRound
<1> QED BY <1>2, PumpsType DEF DueInTime, TypeOK, Times

\* No pump is collected from more often than its frequency, whatever the table
\* and however long the rounds are: one is only taken in if its frequency has
\* passed since the last round it was in began (bridge.py, main).
THEOREM NotTooOftenAlways == Spec => NotTooOften
<1> DEFINE Soon == \A p \in due' \ due : sinceRound[p] >= Frequency[p]
<1>1. TypeOK /\ Rounds /\ DueInTime /\ [Next]_vars => [Soon]_vars
  BY NoRoundTooSoon
<1>2. Spec => [](TypeOK /\ Rounds /\ DueInTime)
  BY Start, DueInTimeStart, TypeStep, RoundsStep, DueInTimeStep, PTL DEF Spec
<1> QED BY <1>1, <1>2, PTL DEF Spec, NotTooOften

-----------------------------------------------------------------------------
(* A pump that is due is overtaken by another one once in the round during     *)
(* which it became due, and once in the next, in which it is started.          *)

InTurn(q, p) ==
    /\ overtaken[q][p] > 0 => dueIn[q] = 0
    /\ q \in due \ todo => overtaken[q][p] = 0
    /\ q \notin due => overtaken[q][p] <= 1 /\ (p \in todo => overtaken[q][p] = 0)
    /\ q \in todo /\ p \in todo => overtaken[q][p] <= 1
    /\ overtaken[q][p] <= 2

AllInTurn == \A q, p \in Pumps : InTurn(q, p)

LEMMA InTurnStep ==
    ASSUME TypeOK, Rounds, AllInTurn, [Next]_vars PROVE AllInTurn'
<1> SUFFICES ASSUME NEW q \in Pumps, NEW p \in Pumps PROVE InTurn(q, p)'
  BY DEF AllInTurn
<1>t. /\ overtaken[q][p] \in 0..3 /\ dueIn[q] \in Nat /\ todo \subseteq due
      /\ InTurn(q, p)
  BY TableAssumption DEF TypeOK, Times, AllInTurn
<1>1. CASE UNCHANGED <<due, todo, dueIn, overtaken>>
  BY <1>1, <1>t DEF InTurn
<1>2. CASE StartRound
  <2>1. due = {} /\ todo = {}
    BY <1>2 DEF StartRound, Rounds
  <2>2. todo' = due'
    BY <1>2, TableAssumption DEF StartRound, Group
  <2>3. q \notin due' => overtaken[q][p] = 0
    BY <1>2, <1>t DEF StartRound, InTurn
  <2>4. UNCHANGED <<dueIn, overtaken>>
    BY <1>2 DEF StartRound
  <2> QED BY <1>t, <2>1, <2>2, <2>3, <2>4 DEF InTurn
<1>3. ASSUME NEW r \in Pumps, StartPump(r) PROVE InTurn(q, p)'
  <2>1. /\ r \in todo /\ todo' = todo \ {r} /\ UNCHANGED <<due, dueIn>>
        /\ overtaken'[q][p] = IF q = r THEN 0
                              ELSE IF p = r /\ Waiting(q) THEN Smaller(overtaken[q][p] + 1, 3)
                              ELSE overtaken[q][p]
    BY <1>3 DEF StartPump, timing
  <2>2. CASE q = r
    BY <2>1, <2>2, <1>t DEF InTurn
  <2>3. CASE q # r /\ p = r /\ Waiting(q)
    <3>1. overtaken[q][p] <= 1 /\ (q \notin due => overtaken[q][p] = 0)
      BY <1>t, <2>1, <2>3 DEF InTurn, Waiting
    <3>2. overtaken'[q][p] = overtaken[q][p] + 1
      BY <1>t, <2>1, <2>3, <3>1 DEF Smaller
    <3> QED BY <1>t, <2>1, <2>3, <3>1, <3>2 DEF InTurn, Waiting
  <2>4. CASE q # r /\ ~(p = r /\ Waiting(q))
    BY <1>t, <2>1, <2>4 DEF InTurn
  <2> QED BY <2>2, <2>3, <2>4
<1>4. CASE Schedule
  <2>1. todo = {} /\ todo' = {} /\ due' = {} /\ overtaken' = overtaken
    BY <1>4 DEF Schedule, Rounds, history
  <2>2. q \notin due => dueIn'[q] = dueIn[q]
    BY <1>4 DEF Schedule
  <2> QED BY <1>t, <2>1, <2>2 DEF InTurn
<1>5. CASE Tick
  <2>1. dueIn[q] = 0 => dueIn'[q] = 0
    BY <1>5 DEF Tick, Larger
  <2> QED BY <1>5, <1>t, <2>1 DEF Tick, InTurn
<1> QED BY <1>1, <1>2, <1>3, <1>4, <1>5 DEF Next, Loop, vars, timing, history, PumpDone,
           Record, Wake, LogFails, RecordFails, Interrupt

\* While a pump is due no other one is started more than twice, whatever the
\* table and however long collecting takes (bridge.py, main, run_pumps).
THEOREM NoneStarvedAlways == Spec => []NoneStarved
<1>1. Init => AllInTurn
  BY DEF Init, AllInTurn, InTurn
<1>2. AllInTurn => NoneStarved
  BY DEF AllInTurn, InTurn, NoneStarved
<1> QED BY <1>1, <1>2, Start, TypeStep, RoundsStep, InTurnStep, PTL DEF Spec
=============================================================================
