-------------------------------- MODULE Bridge --------------------------------
(***************************************************************************)
(* bridge.py's main loop over the pumps of the table (pump_config.py):      *)
(* which are due, in which order they are collected from, how long to sleep *)
(* and what ends it. Times are kept relative to the clock and only as far   *)
(* as the longest frequency, beyond which they make no difference, so that  *)
(* the clock itself needs no bound.                                         *)
(***************************************************************************)
EXTENDS Integers, FiniteSets

CONSTANTS
    NPumps,     \* how many pumps the table has
    Buses,      \* serial buses
    Bus,        \* the bus of each pump: host, port and com of its address
    Frequency,  \* frequency_s of each pump, in ticks of the clock
    Longest,    \* the longest of them, or longer
    SaveComms   \* whether --save is 2

Pumps == 1..NPumps  \* in the order of the table

ASSUME TableAssumption ==
    /\ NPumps \in Nat \ {0}
    /\ Bus \in [Pumps -> Buses]
    /\ Frequency \in [Pumps -> Nat]
    /\ Longest \in Nat /\ \A p \in Pumps : Frequency[p] <= Longest
    /\ SaveComms \in BOOLEAN

VARIABLES
    pc,         \* where the loop is
    once,       \* --once
    due,        \* the pumps of this round, while it lasts
    todo,       \* those of them it hasn't come to yet
    dueIn,      \* next_due of each pump, less the clock; 0 if it is past
    elapsed,    \* the clock, less now
    wait        \* what is left of the sleep

\* What has been, for the properties alone.
VARIABLES
    sinceRound, \* time since the round each pump was last in began
    sinceStart, \* time since each pump was last started
    overtaken   \* how often each pump, while due, saw each other one started

history == <<sinceRound, sinceStart, overtaken>>
timing == <<dueIn, elapsed, wait>>
vars == <<pc, once, due, todo, timing, history>>

Larger(a, b) == IF a > b THEN a ELSE b
Smaller(a, b) == IF a < b THEN a ELSE b

-----------------------------------------------------------------------------
Init ==
    /\ pc = "loop"
    /\ once \in BOOLEAN
    /\ due = {} /\ todo = {}
    /\ dueIn = [p \in Pumps |-> 0]
    /\ elapsed = 0 /\ wait = 0
    /\ sinceRound = [p \in Pumps |-> Longest]
    /\ sinceStart = [p \in Pumps |-> Longest]
    /\ overtaken = [p \in Pumps |-> [q \in Pumps |-> 0]]

\* (mutant of Group: a bus keeps the last of its pumps)
LastOfGroup(b) == {p \in Pumps : Bus[p] = b /\ \A q \in Pumps : Bus[q] = b => q <= p}

\* bus_groups, in the order of their first pump
Group(b) == {p \in Pumps : Bus[p] = b}
FirstOf(b) == CHOOSE p \in Group(b) : \A q \in Group(b) : p <= q
Before(p, q) == \/ FirstOf(Bus[p]) < FirstOf(Bus[q])
                \/ FirstOf(Bus[p]) = FirstOf(Bus[q]) /\ p < q

StartRound ==
    /\ pc = "loop"
    /\ pc' = "round"
    /\ due' = {p \in Pumps : dueIn[p] = 0}
    /\ todo' = UNION {Group(b) \intersect due' : b \in Buses}
    /\ elapsed' = 0
    /\ sinceRound' = [p \in Pumps |-> IF p \in due' THEN 0 ELSE sinceRound[p]]
    /\ UNCHANGED <<once, dueIn, wait, sinceStart, overtaken>>

\* due, and not collected from since
Waiting(p) == dueIn[p] = 0 /\ (p \in due => p \in todo)

StartPump(p) ==
    /\ pc = "round"
    /\ p \in todo /\ \A q \in todo \ {p} : Before(p, q)
    /\ todo' = todo \ {p}
    /\ pc' = "pump"
    /\ sinceStart' = [sinceStart EXCEPT ![p] = 0]
    /\ overtaken' = [q \in Pumps |-> [r \in Pumps |->
            IF q = p THEN 0
            ELSE IF r = p /\ Waiting(q) THEN Smaller(overtaken[q][p] + 1, 3)
            ELSE overtaken[q][r]]]
    /\ UNCHANGED <<once, due, timing, sinceRound>>

\* extract_pump returns; any Exception is caught and told in the result ...
PumpDone ==
    /\ pc = "pump"
    /\ pc' = "round"
    /\ UNCHANGED <<once, due, todo, timing, history>>

\* ... but one from writing the log, in extract_pump's finally
LogFails ==
    /\ SaveComms
    /\ pc = "pump"
    /\ pc' = "dead"
    /\ UNCHANGED <<once, due, todo, timing, history>>

\* run.json
Record ==
    /\ pc = "round" /\ todo = {}
    /\ pc' = IF once THEN "stopped" ELSE "schedule"
    /\ UNCHANGED <<once, due, todo, timing, history>>

RecordFails ==
    /\ pc = "round" /\ todo = {}
    /\ pc' = "dead"
    /\ UNCHANGED <<once, due, todo, timing, history>>

\* (mutant of NextDue: the earlier of the two)
EarlierDue(p) == Smaller(Frequency[p] - elapsed, 0)

\* (mutant of NextDue: left in the past)
PastDue(p) == Frequency[p] - elapsed

\* a frequency after this round began, or now if that is past
NextDue(p) == Larger(Frequency[p] - elapsed, 0)

Schedule ==
    /\ pc = "schedule"
    /\ pc' = "asleep"
    /\ dueIn' = [p \in Pumps |-> IF p \in due THEN NextDue(p) ELSE dueIn[p]]
    /\ \E p \in Pumps : (\A q \in Pumps : dueIn'[p] <= dueIn'[q]) /\ wait' = dueIn'[p]
    /\ due' = {}
    /\ UNCHANGED <<once, todo, elapsed, history>>

Wake ==
    /\ pc = "asleep" /\ wait = 0
    /\ pc' = "loop"
    /\ UNCHANGED <<once, due, todo, timing, history>>

Interrupt ==
    /\ pc \notin {"stopped", "dead"}
    /\ pc' = "stopped"
    /\ UNCHANGED <<once, due, todo, timing, history>>

\* time passes, wherever the bridge is; a sleep may last longer than asked
Tick ==
    /\ pc \notin {"stopped", "dead"}
    /\ dueIn' = [p \in Pumps |-> Larger(dueIn[p] - 1, 0)]
    /\ elapsed' = Smaller(elapsed + 1, Longest)
    /\ wait' = Larger(wait - 1, 0)
    /\ sinceRound' = [p \in Pumps |-> Smaller(sinceRound[p] + 1, Longest)]
    /\ sinceStart' = [p \in Pumps |-> Smaller(sinceStart[p] + 1, Longest)]
    /\ UNCHANGED <<pc, once, due, todo, overtaken>>

Loop ==
    \/ StartRound \/ (\E p \in Pumps : StartPump(p)) \/ PumpDone
    \/ Record \/ Schedule \/ Wake

Next == Loop \/ LogFails \/ RecordFails \/ Interrupt \/ Tick

\* a pump's collection ends, its requests all having timeouts, and so do sleeps
Fairness == WF_vars(Loop) /\ WF_vars(Tick)

Spec == Init /\ [][Next]_vars
FairSpec == Spec /\ Fairness

-----------------------------------------------------------------------------
(* Properties *)

Times == 0..Longest

\* Every variable has its type.
TypeOK ==
    /\ pc \in {"loop", "round", "pump", "schedule", "asleep", "stopped", "dead"}
    /\ once \in BOOLEAN
    /\ due \subseteq Pumps /\ todo \subseteq due
    /\ dueIn \in [Pumps -> Times]
    /\ elapsed \in Times /\ wait \in Times
    /\ sinceRound \in [Pumps -> Times] /\ sinceStart \in [Pumps -> Times]
    /\ overtaken \in [Pumps -> [Pumps -> 0..3]]

\* Each pump is collected from as often as its frequency says and no more often
\* (bridge.py, header and main): a round takes it in only if its frequency has
\* passed since the last round it was in began.
NotTooOften ==
    [][\A p \in due' \ due : sinceRound[p] >= Frequency[p]]_vars

\* Collecting that takes longer than the frequencies starves no pump: while one
\* is due, no other is started more than twice, the first time in the round
\* during which it became due.
NoneStarved == \A p, q \in Pumps : overtaken[p][q] <= 2

\* Each pump is collected from again and again, until the bridge stops.
CollectedAgain ==
    \A p \in Pumps : []<>(pc \in {"stopped", "dead"} \/ sinceStart[p] = 0)

\* "One pump going wrong must never stop the pumps after it" (extract.py): the
\* bridge dies of an error only when the round is through its pumps.
NoneCutOff == pc = "dead" => todo = {}
=============================================================================
