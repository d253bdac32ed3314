------------------------------- MODULE Extract ------------------------------
(***************************************************************************)
(* extract.py and pump_reader.py: the runs of extract_pump for one pump,   *)
(* which goes on dispensing while it is read. Every value the pump gives   *)
(* is modelled by the cycle it describes. What ProfilePull does with one   *)
(* trace and what Render does with one capture are single steps here.      *)
(***************************************************************************)
EXTENDS Integers, FiniteSets

CONSTANTS
    HeldCycles,     \* HELD_CYCLES: how many cycles a run asks for
    Retention,      \* how many profiles the pump holds
    Traces,         \* the trace numbers
    Lagging,        \* sources that may still describe the dispense before
    FirstCycles,    \* cycles the pump may be at when the bridge first runs
    MaxCycle,       \* bound: the pump dispenses up to this cycle
    None

Cycles == 0..MaxCycle
Flaws == (0..Cardinality(Traces)) \X (0..1)
Clean == <<0, 0>>

ASSUME ExtractAssumption ==
    /\ HeldCycles \in Nat \ {0} /\ Retention \in Nat \ {0}
    /\ MaxCycle \in Nat
    /\ FirstCycles \subseteq Cycles \ {0}
    /\ IsFiniteSet(Traces)
    /\ Lagging \subseteq {"last", "status"}
    /\ None \notin Cycles /\ None \notin Flaws

VARIABLES
    dispensed,  \* the dispense DISPENSE_INFO describes
    recorded,   \* the newest cycle the pump has a profile of
    trouble,    \* whether the bus and the writers may still fail
    pc,         \* where extract_pump is
    newest,     \* read_newest_cycle's answer in this run
    header,     \* the DispenseHeader, each part by the dispense it describes
    cycle,      \* the cycle the loop is at
    capture,    \* the Capture being made
    collected,  \* CollectedCycles: cycle -> flaws remembered
    error       \* result.error is not None

pump == <<dispensed, recorded>>
vars == <<dispensed, recorded, trouble, pc, newest, header, cycle, capture,
          collected, error>>

NoHeader == [cycle |-> None, measured |-> None, setpoint |-> None,
             title |-> None, pct |-> None]
NoCapture == [pulled |-> {}, from |-> {}, blank |-> 0, repaired |-> 0,
              header |-> NoHeader]

Init ==
    /\ recorded \in FirstCycles
    /\ dispensed = recorded
    /\ trouble = TRUE
    /\ pc = "idle"
    /\ newest = None
    /\ header = NoHeader
    /\ cycle = None
    /\ capture = NoCapture
    /\ collected = [c \in Cycles |-> None]
    /\ error = FALSE

-----------------------------------------------------------------------------
(* The pump, external to src/py. *)

Dispense ==
    /\ dispensed = recorded
    /\ dispensed < MaxCycle
    /\ dispensed' = dispensed + 1
    /\ UNCHANGED <<recorded, trouble, pc, newest, header, cycle, capture, collected, error>>

\* the profile of a dispense is there once its cycle is over
RecordProfile ==
    /\ recorded < dispensed
    /\ recorded' = dispensed
    /\ UNCHANGED <<dispensed, trouble, pc, newest, header, cycle, capture, collected, error>>

Holds(c) == recorded - Retention < c /\ c <= recorded

\* The cycle whose profile answers a request for cycle c: cycle 0 answers as
\* the newest, one no longer held is refused.
Answering(c) == IF c = 0 THEN recorded ELSE IF Holds(c) THEN c ELSE None

\* the dispense a source describes when it is read
Describes(source) ==
    IF source \in Lagging THEN {dispensed, dispensed - 1} \intersect Cycles
                          ELSE {dispensed}

-----------------------------------------------------------------------------
(* Faults. Once trouble is over they stop, for good. *)

TroubleEnds ==
    /\ trouble
    /\ trouble' = FALSE
    /\ UNCHANGED <<dispensed, recorded, pc, newest, header, cycle, capture, collected, error>>

\* NCSError, PumpError, WriteError or anything else: the pump is given up for
\* this run, with the cycles remembered so far
Fail ==
    /\ trouble
    /\ pc \notin {"idle", "end"}
    /\ pc' = "end"
    /\ error' = TRUE
    /\ UNCHANGED <<dispensed, recorded, trouble, newest, header, cycle, capture, collected>>

-----------------------------------------------------------------------------
(* read_newest_cycle and read_dispense_header *)

Reads(from, to) ==
    /\ pc = from
    /\ pc' = to
    /\ UNCHANGED <<dispensed, recorded, trouble, cycle, capture, collected, error>>

\* a read that may fail and then leaves its part out
OrNone(values) == values \union (IF trouble THEN {None} ELSE {})

Start ==
    /\ pc = "idle"
    /\ pc' = "newest"
    /\ newest' = None
    /\ header' = NoHeader
    /\ cycle' = None
    /\ capture' = NoCapture
    /\ error' = FALSE
    /\ UNCHANGED <<dispensed, recorded, trouble, collected>>

ReadNewest ==
    /\ Reads("newest", "info")
    /\ newest' = recorded
    /\ UNCHANGED header

\* DISPENSE_INFO; without it nothing else is read
ReadDispenseInfo ==
    \E c \in OrNone({dispensed}) :
        /\ Reads("info", IF c = None THEN "load" ELSE "last")
        /\ header' = [header EXCEPT !.cycle = c]
        /\ UNCHANGED newest

\* LAST_DIS_INFO_2 says which dispense it describes
ReadLastDispense ==
    /\ Reads("last", "status")
    /\ \E c \in OrNone(Describes("last")) :
          header' = [header EXCEPT !.measured = IF c = header.cycle THEN c ELSE None]
    /\ UNCHANGED newest

\* and so does RTSTATUS
ReadRtStatus ==
    /\ Reads("status", "svids")
    /\ \E c \in OrNone(Describes("status")) :
          header' = [header EXCEPT !.setpoint = IF c = header.cycle THEN c ELSE None]
    /\ UNCHANGED newest

\* the confirmation percent is only for this dispense if its time is
Confirmation(pct, time) == IF time = header.cycle THEN pct ELSE None

\* all three SVIDs in one reply, or none of them
ReadSvids ==
    /\ Reads("svids", "load")
    /\ \E c \in OrNone({dispensed}) :
          header' = [header EXCEPT !.title = c, !.pct = Confirmation(c, c)]
    /\ UNCHANGED newest

\* UNKNOWN_SVID: they are read one at a time, in the order of DISPENSE_SVIDS
UnknownSvid ==
    /\ Reads("svids", "title")
    /\ UNCHANGED <<newest, header>>

ReadTitle ==
    /\ Reads("title", "pct")
    /\ \E c \in OrNone({dispensed}) : header' = [header EXCEPT !.title = c]
    /\ UNCHANGED newest

ReadPct ==
    /\ Reads("pct", "time")
    /\ \E c \in OrNone({dispensed}) : header' = [header EXCEPT !.pct = c]
    /\ UNCHANGED newest

ReadTime ==
    /\ Reads("time", "load")
    /\ \E c \in OrNone({dispensed}) :
          header' = [header EXCEPT !.pct = Confirmation(@, c)]
    /\ UNCHANGED newest

-----------------------------------------------------------------------------
(* extract_pump's loop and collect_cycle *)

Keeps == UNCHANGED <<dispensed, recorded, trouble, newest, header>>

\* (mutant of LastAsked: one cycle short)
LastAskedShort == IF newest - HeldCycles < -1 THEN 0 ELSE newest - HeldCycles + 2

\* range(newest, max(newest - HELD_CYCLES, -1), -1)
LastAsked == IF newest - HeldCycles < -1 THEN 0 ELSE newest - HeldCycles + 1

ToCycle(c) ==
    IF c < LastAsked
    THEN pc' = "end" /\ cycle' = None
    ELSE pc' = "cycle" /\ cycle' = c

Load ==
    /\ pc = "load"
    /\ ToCycle(newest)
    /\ Keeps /\ UNCHANGED <<capture, collected, error>>

\* already_clean
SkipClean ==
    /\ pc = "cycle"
    /\ collected[cycle] = Clean
    /\ ToCycle(cycle - 1)
    /\ Keeps /\ UNCHANGED <<capture, collected, error>>

\* read_profile_info
NotHeld ==
    /\ pc = "cycle"
    /\ collected[cycle] # Clean
    /\ Answering(cycle) = None
    /\ ToCycle(cycle - 1)
    /\ Keeps /\ UNCHANGED <<capture, collected, error>>

\* the profile info has to be for the cycle asked for
WrongInfo ==
    /\ pc = "cycle"
    /\ collected[cycle] # Clean
    /\ Answering(cycle) \notin {None, cycle}
    /\ pc' = "end"
    /\ error' = TRUE
    /\ Keeps /\ UNCHANGED <<cycle, capture, collected>>

\* (mutant of StartPull: the info's cycle isn't compared)
StartAnyPull ==
    /\ pc = "cycle"
    /\ collected[cycle] # Clean
    /\ Answering(cycle) # None
    /\ pc' = "pull"
    /\ capture' = NoCapture
    /\ Keeps /\ UNCHANGED <<cycle, collected, error>>

StartPull ==
    /\ pc = "cycle"
    /\ collected[cycle] # Clean
    /\ Answering(cycle) = cycle
    /\ pc' = "pull"
    /\ capture' = NoCapture
    /\ Keeps /\ UNCHANGED <<cycle, collected, error>>

Pulled(t) == pc = "pull" /\ t \in Traces \ capture.pulled

\* every word of the trace, some of them maybe repaired
PullTrace(t) ==
    /\ Pulled(t)
    /\ Answering(cycle) # None
    /\ \E repaired \in (IF trouble THEN {0, 1} ELSE {0}) :
          capture' = [capture EXCEPT !.pulled = @ \union {t},
                                     !.from = @ \union {Answering(cycle)},
                                     !.repaired = IF repaired = 1 THEN 1 ELSE @]
    /\ Keeps /\ UNCHANGED <<pc, cycle, collected, error>>

\* (mutant of MissTrace: counted for each chunk that couldn't be had)
MissChunk(t) ==
    /\ Pulled(t)
    /\ trouble \/ Answering(cycle) = None
    /\ capture' = [capture EXCEPT !.blank = @ + 1]
    /\ Keeps /\ UNCHANGED <<pc, cycle, collected, error>>

\* a chunk of it couldn't be had, or the pump no longer holds the profile
MissTrace(t) ==
    /\ Pulled(t)
    /\ trouble \/ Answering(cycle) = None
    /\ capture' = [capture EXCEPT !.pulled = @ \union {t}, !.blank = @ + 1]
    /\ Keeps /\ UNCHANGED <<pc, cycle, collected, error>>

\* (mutant of CheckHeader: DISPENSE_INFO isn't read again)
TrustHeader ==
    /\ pc = "pull"
    /\ capture.pulled = Traces
    /\ pc' = "store"
    /\ capture' = [capture EXCEPT !.header = IF header.cycle = cycle THEN header ELSE NoHeader]
    /\ Keeps /\ UNCHANGED <<cycle, collected, error>>

\* DISPENSE_INFO is read again if it was about this cycle, and the header is
\* kept only if it still is
CheckHeader ==
    /\ pc = "pull"
    /\ capture.pulled = Traces
    /\ pc' = "store"
    /\ \E after \in OrNone({dispensed}) :
          capture' = [capture EXCEPT !.header =
                        IF header.cycle = cycle /\ after = cycle
                        THEN header ELSE NoHeader]
    /\ Keeps /\ UNCHANGED <<cycle, collected, error>>

Better(a, b) == a[1] < b[1] \/ (a[1] = b[1] /\ a[2] < b[2])

\* dispense_record: a repair only counts in a trace that isn't blank
CaptureFlaws == <<capture.blank, capture.repaired>>

\* (mutant of Store: the comparison the wrong way round)
StoreWorse ==
    /\ pc = "store"
    /\ collected' =
          IF collected[cycle] # None /\ Better(CaptureFlaws, collected[cycle])
          THEN collected
          ELSE [collected EXCEPT ![cycle] = CaptureFlaws]
    /\ ToCycle(cycle - 1)
    /\ Keeps /\ UNCHANGED <<capture, error>>

\* render: stored and remembered, unless what is remembered is cleaner
Store ==
    /\ pc = "store"
    /\ collected' =
          IF collected[cycle] # None /\ Better(collected[cycle], CaptureFlaws)
          THEN collected
          ELSE [collected EXCEPT ![cycle] = CaptureFlaws]
    /\ ToCycle(cycle - 1)
    /\ Keeps /\ UNCHANGED <<capture, error>>

\* the run is over; the bridge comes back to the pump after its frequency
EndRun ==
    /\ pc = "end"
    /\ pc' = "idle"
    /\ Keeps /\ UNCHANGED <<cycle, capture, collected, error>>

-----------------------------------------------------------------------------
Run ==
    \/ Start \/ ReadNewest \/ ReadDispenseInfo \/ ReadLastDispense \/ ReadRtStatus
    \/ ReadSvids \/ UnknownSvid \/ ReadTitle \/ ReadPct \/ ReadTime
    \/ Load \/ SkipClean \/ NotHeld \/ WrongInfo \/ StartPull
    \/ (\E t \in Traces : PullTrace(t) \/ MissTrace(t))
    \/ CheckHeader \/ Store \/ EndRun

Next == Run \/ Fail \/ Dispense \/ RecordProfile \/ TroubleEnds

\* the bridge keeps running the pump, and every read ends
Fairness == WF_vars(Run)

Spec == Init /\ [][Next]_vars
FairSpec == Spec /\ Fairness

-----------------------------------------------------------------------------
(* Properties *)

Found == Cycles \union {None}
Header == [cycle : Found, measured : Found, setpoint : Found, title : Found, pct : Found]

\* Every variable has its type.
TypeOK ==
    /\ dispensed \in Cycles /\ recorded \in Cycles
    /\ trouble \in BOOLEAN /\ error \in BOOLEAN
    /\ pc \in {"idle", "newest", "info", "last", "status", "svids", "title", "pct",
               "time", "load", "cycle", "pull", "store", "end"}
    /\ newest \in Found /\ cycle \in Found
    /\ header \in Header
    /\ capture \in [pulled : SUBSET Traces, from : SUBSET Cycles,
                    blank : 0..Cardinality(Traces), repaired : 0..1, header : Header]
    /\ collected \in [Cycles -> Flaws \union {None}]

\* every part of a header that is there describes the header's cycle
Tied(h) ==
    \A part \in {"measured", "setpoint", "title", "pct"} : h[part] \in {h.cycle, None}

\* A capture is only ever given a header of its own cycle, every part of it:
\* the ones that don't say which dispense they describe, and those read one at
\* a time, too, whenever the pump dispenses between the first read and the last.
HeaderIsOfItsCycle ==
    pc = "store" =>
        /\ capture.header.cycle \in {cycle, None}
        /\ Tied(capture.header)

\* Whatever is dispensed during the pull, the traces of a capture that are not
\* blank are all of the cycle asked for.
TracesAreOfTheirCycle == pc = "store" => capture.from \subseteq {cycle}

\* A run that ends without an error has left out none of the newest cycles:
\* each is remembered, or the pump no longer holds it.
RunLeavesNothingOut ==
    pc = "end" /\ ~error =>
        \A c \in Cycles : newest - HeldCycles < c /\ c <= newest =>
            collected[c] # None \/ ~Holds(c)

\* Once the bus and the writers work and the pump is at rest, every cycle it
\* holds is in the end remembered clean, whatever the runs before made of it:
\* damaged, half stored, or given up.
Heals ==
    <>[](~trouble /\ dispensed = recorded)
        => <>[](\A c \in Cycles \ {0} :
                   Holds(c) /\ c > recorded - HeldCycles => collected[c] = Clean)
=============================================================================
