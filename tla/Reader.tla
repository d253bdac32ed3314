------------------------------- MODULE Reader -------------------------------
(***************************************************************************)
(* pump_reader.py over pump_client.py: who the pump is, its newest cycle,  *)
(* and the header of its newest dispense, each put together from several   *)
(* replies. A reply may be of fewer bytes than its layout (other firmware),*)
(* a read may fail in every way the client tells apart, and one that timed *)
(* out may still be answered. Values are modelled by where they were read. *)
(***************************************************************************)
EXTENDS Layouts, Svids

CONSTANTS
    NameSvids,      \* NAME_SVIDS, in order
    Tasks,          \* which of "info", "newest" and "header" are read
    Lengths,        \* the lengths strings may have
    SerialTexts,    \* what the two serial number fields may say, or:
    Empty,          \* no text
    None

Title == 20         \* recipe_title
Pct == 849          \* confirmation_pct
Time == 1071        \* confirmation_time

\* (mutant of DispenseSvids: the title is asked for last)
DispenseSvidsTitleLast == <<Pct, Time, Title>>

DispenseSvids == <<Title, Pct, Time>>

SvidsOf(t) == IF t = "info" THEN NameSvids ELSE DispenseSvids
Listed(t) == {SvidsOf(t)[k] : k \in DOMAIN SvidsOf(t)}
Numbers == Listed("info") \union Listed("header")

ASSUME ReaderAssumption ==
    /\ Tasks \subseteq {"info", "newest", "header"}
    /\ NameSvids \in Seq(Registry) /\ Len(NameSvids) > 1
    /\ Lengths \subseteq 0..LargestLength
    /\ Empty \in SerialTexts

\* None is no boolean, request, value or struct that was read
ASSUME NoneAssumption ==
    LET Values == [from : Seq(Nat), at : Nat, size : Nat, moved : BOOLEAN]
    IN  /\ None \notin BOOLEAN \union Seq(Nat) \union Values
        /\ \A cmd \in StructCommands : None \notin [DOMAIN Places[cmd] -> Values \union {None}]

VARIABLES
    pump,       \* what the pump holds, see Svids, and its serial numbers
    moved,      \* whether it has dispensed since DISPENSE_INFO was read
    task,       \* what is being read
    todo,       \* the requests still to send; the first one is being asked
    waiting,    \* whether a timeout is being waited out
    late,       \* the request whose reply is still to come, or None
    fields,     \* each struct read: its fields, or None
    values,     \* each SVID read: where its value was, or None
    leftover,   \* what the walk over a whole list left over
    problems,   \* what is noted in problems: the requests that failed, Refused
    raised      \* whether the read was given up by an exception

world == <<pump, moved, task>>
results == <<fields, values, leftover, problems, raised>>
vars == <<world, todo, waiting, late, results>>

-----------------------------------------------------------------------------
(* What is asked for. *)

Ask(cmd) == <<cmd>>
AskSvids(numbers) == <<GET_SVIDS>> \o numbers       \* build_request
IsSvids(request) == request[1] = GET_SVIDS

\* the note that a list was refused and is read one at a time, not itself a request
Refused == Ask(GET_SVIDS)

Plan(t) ==
    CASE t = "info" -> <<Ask(SERIALNUMBERS), Ask(CS_RTSTATUS), Ask(VERSION),
                         Ask(FIRMWAREINFO), AskSvids(NameSvids)>>
      [] t = "newest" -> <<Ask(CS_RTSTATUS), Ask(RTSTATUS)>>
      [] t = "header" -> <<Ask(DISPENSE_INFO), Ask(LAST_DIS_INFO_2), Ask(RTSTATUS),
                           AskSvids(DispenseSvids)>>

Request == Head(todo)
WholeList == Request = AskSvids(SvidsOf(task))
OneByOne == [k \in DOMAIN SvidsOf(task) |-> AskSvids(<<SvidsOf(task)[k]>>)]

Init ==
    /\ task \in Tasks
    /\ pump \in [texts : [Strings \intersect Listed(task) -> Lengths], padded : BOOLEAN,
                 serial : SerialTexts, statusSerial : SerialTexts]
    /\ moved = FALSE
    /\ todo = Plan(task)
    /\ waiting = FALSE
    /\ late = None
    /\ fields = [cmd \in StructCommands |-> None]
    /\ values = [n \in Numbers |-> None]
    /\ leftover = 0
    /\ problems = {}
    /\ raised = FALSE

-----------------------------------------------------------------------------
(* The pump and the bus, external to src/py. *)

Dispense ==
    /\ task = "header" /\ ~moved
    /\ fields[DISPENSE_INFO] # None
    /\ moved' = TRUE
    /\ UNCHANGED <<pump, task, todo, waiting, late, results>>

\* a reply that is late comes in instead of the one asked for, which is late then
Answered == IF late = None THEN Request ELSE late
StaysLate == late' = IF late = None THEN None ELSE Request

\* How many bytes of data it has: all of its layout, or some more, or only up
\* to the end of a field or into it; of SVIDs, as many whole values as it has.
DataLengths(request) ==
    IF IsSvids(request)
    THEN LET replied == Replied(pump, Tail(request))
         IN  {Len(replied[k]) : k \in DOMAIN replied}
    ELSE LET places == {Places[request[1]][name] : name \in DOMAIN Places[request[1]]}
         IN  {FullLength[request[1]], FullLength[request[1]] + 2}
                \union UNION {{p[1], p[1] + p[2] - 1, p[1] + p[2]} : p \in places}

Value(request, place) ==
    [from |-> request, at |-> place[1], size |-> place[2], moved |-> moved]

-----------------------------------------------------------------------------
(* What the reads so far give. *)

Part(fs, cmd, name) == IF fs[cmd] = None THEN None ELSE fs[cmd][name]

\* a serial number is text, and an empty one as good as none
Says(value) ==
    IF value = None THEN None
    ELSE IF value.from = Ask(SERIALNUMBERS) THEN pump.serial ELSE pump.statusSerial
HasSerial(fs) ==
    \/ Says(Part(fs, SERIALNUMBERS, "pump")) \notin {None, Empty}
    \/ Says(Part(fs, CS_RTSTATUS, "pump_serial_number")) \notin {None, Empty}

\* (mutant of Enough: the first status is enough, whatever it held)
EnoughIfRead(fs) ==
    \/ task = "newest" /\ fs[CS_RTSTATUS] # None
    \/ task = "header" /\ fs[DISPENSE_INFO] = None

\* read_newest_cycle has its answer, read_dispense_header has nothing to go on
Enough(fs) ==
    \/ task = "newest" /\ Part(fs, CS_RTSTATUS, "profile_cycle") # None
    \/ task = "header" /\ fs[DISPENSE_INFO] = None

\* read_newest_cycle
NewestCycle(fs) ==
    IF Part(fs, CS_RTSTATUS, "profile_cycle") # None
    THEN Part(fs, CS_RTSTATUS, "profile_cycle")
    ELSE Part(fs, RTSTATUS, "profile_cycle")

\* which dispense a part of the header is about, for those that say
About(value) == IF value = None THEN None ELSE value.moved

\* read_dispense_header: what the other sources say, when they describe the
\* same dispense as DISPENSE_INFO
Measured ==
    IF About(Part(fields, LAST_DIS_INFO_2, "cycle")) = About(Part(fields, DISPENSE_INFO, "cycle"))
    THEN Part(fields, LAST_DIS_INFO_2, "dispense_volume") ELSE None
Setpoint ==
    IF About(Part(fields, RTSTATUS, "last_dispense_cycle")) = About(Part(fields, DISPENSE_INFO, "cycle"))
    THEN Part(fields, RTSTATUS, "last_dispense_vol_ul") ELSE None

\* (mutant of Confirmation: kept without its time)
ConfirmationUntimed == values[Pct]

\* where not, and SVIDs were read, problems says that they are for a different
\* dispense time
Confirmed == About(values[Time]) = About(Part(fields, DISPENSE_INFO, "time"))
Confirmation == IF Confirmed THEN values[Pct] ELSE None

\* tied to nothing
RecipeTitle == values[Title]

-----------------------------------------------------------------------------
(* read_struct and read_svids, one request at a time *)

\* On from a struct, read or not. read_pump_info raises when both serial
\* numbers have been asked for and neither is there.
GoOn(fs) ==
    LET silent == task = "info" /\ Request = Ask(CS_RTSTATUS) /\ ~HasSerial(fs)
    IN  /\ fields' = fs
        /\ raised' = silent
        /\ todo' = IF silent \/ Enough(fs) THEN <<>> ELSE Tail(todo)

Asking == todo # <<>> /\ ~waiting

\* PumpStruct.parse: a field the data ends before, or in, is None
Parse(cmd, reply, length) ==
    [name \in DOMAIN Places[cmd] |->
        IF Places[cmd][name][1] + Places[cmd][name][2] > length THEN None
        ELSE Value(reply, Places[cmd][name])]

ReadStruct ==
    /\ Asking /\ ~IsSvids(Request)
    /\ \E length \in DataLengths(Answered) :
          /\ Request = Ask(FIRMWAREINFO) => length = FullLength[FIRMWAREINFO]
          /\ GoOn([fields EXCEPT ![Request[1]] = Parse(Request[1], Answered, length)])
    /\ StaysLate
    /\ UNCHANGED <<world, waiting, values, leftover, problems>>

\* a reply to something else has no lengths where lengths should be
Walk(length) ==
    IF ~IsSvids(Answered) THEN RanOut
    ELSE LET data == SubSeq(Reply(pump, Tail(Answered)), 1, length)
         IN  WalkReply(data, Tail(Request))[Len(Tail(Request))]

ReadSvids ==
    /\ Asking /\ IsSvids(Request)
    /\ \E length \in DataLengths(Answered) : \E walk \in {Walk(length)} :
          /\ walk # RanOut
          /\ values' = [n \in Numbers |->
                IF \E k \in DOMAIN walk.found : Request[k + 1] = n
                THEN Value(Answered, walk.found[CHOOSE k \in DOMAIN walk.found : Request[k + 1] = n])
                ELSE values[n]]
          /\ leftover' = IF WholeList THEN length - walk.at ELSE leftover
    /\ todo' = Tail(todo)
    /\ StaysLate
    /\ UNCHANGED <<world, waiting, fields, problems, raised>>

\* (mutant of Noted: nothing is noted)
Unnoted == UNCHANGED problems

\* (mutant of Noted: not for an SVID read by itself)
NotedIfPlanned == problems' = problems \union ({Request} \ {AskSvids(<<n>>) : n \in Numbers})

Noted == problems' = problems \union {Request}

\* A PumpError: noted, its part stays None, and the next one is asked for. A
\* list of SVIDs is given up as a whole; it is the last of the plan.
Fails ==
    /\ Noted
    /\ \/ ~IsSvids(Request) /\ GoOn(fields)
       \/ IsSvids(Request) /\ todo' = Tail(todo) /\ UNCHANGED <<fields, raised>>
    /\ UNCHANGED <<world, values, leftover>>

\* PumpReturnCodeError, PumpProtocolError, or PumpTransportError other than a
\* timeout; a reply that doesn't parse is one of them
ReadFails ==
    /\ Asking
    /\ Fails
    /\ StaysLate
    /\ UNCHANGED waiting

\* UNKNOWN_SVID for the whole list: they are read one at a time
UnknownSvid ==
    /\ Asking /\ IsSvids(Request)
    /\ WholeList
    /\ problems' = problems \union {Refused}
    /\ todo' = OneByOne
    /\ StaysLate
    /\ UNCHANGED <<world, waiting, fields, values, leftover, raised>>

\* (mutant of TimesOut: the next one is asked for at once)
TimesOutUnwaited ==
    /\ Asking
    /\ late' = Request
    /\ Fails
    /\ UNCHANGED waiting

\* SERIAL_READ_TIMEOUT: the pump may yet answer
TimesOut ==
    /\ Asking
    /\ late' = Request
    /\ waiting' = TRUE
    /\ UNCHANGED <<world, todo, results>>

\* paced sleeps until no reply can be late any more, and passes the error on
WaitOut ==
    /\ waiting
    /\ waiting' = FALSE
    /\ late' = None
    /\ Fails

\* NCSError is none of the pump's: nothing catches it here
NetworkFails ==
    /\ Asking
    /\ todo' = <<>>
    /\ raised' = TRUE
    /\ UNCHANGED <<world, waiting, late, fields, values, leftover, problems>>

Done == todo = <<>> /\ UNCHANGED vars

Read == ReadStruct \/ ReadSvids \/ ReadFails \/ UnknownSvid \/ TimesOut \/ WaitOut \/ NetworkFails

Next == Read \/ Dispense \/ Done

Spec == Init /\ [][Next]_vars

-----------------------------------------------------------------------------
(* Properties *)

Requests == {Ask(cmd) : cmd \in StructCommands} \union
            {AskSvids(SvidsOf(t)) : t \in Tasks} \union {AskSvids(<<n>>) : n \in Numbers}
IsValue(v) == v = None \/ (v.from \in Requests /\ v.at \in Nat /\ v.size \in Nat)

\* Every variable has its type, and a wait is for a reply that is late.
TypeOK ==
    /\ moved \in BOOLEAN /\ waiting \in BOOLEAN /\ raised \in BOOLEAN
    /\ \A k \in DOMAIN todo : todo[k] \in Requests
    /\ late \in Requests \union {None} /\ (waiting => late # None)
    /\ problems \subseteq Requests \union {Refused}
    /\ \A cmd \in StructCommands : fields[cmd] # None =>
          \A name \in DOMAIN Places[cmd] : IsValue(fields[cmd][name])
    /\ \A n \in Numbers : IsValue(values[n])
    /\ leftover \in Nat

\* Every value kept is the one it is taken for: read from the reply to its own
\* request and from where the pump put it, however short the reply was and
\* whatever was late. Where the pump pads a string of odd length this fails for
\* a list of SVIDs, and then bytes are left over (svid.py, walk_reply), which
\* read_svids doesn't look at.
KeptIsThePumps ==
    /\ \A cmd \in StructCommands : fields[cmd] # None =>
          \A name \in DOMAIN Places[cmd] :
              LET v == fields[cmd][name]
              IN  v # None => v.from = Ask(cmd) /\ <<v.at, v.size>> = PumpPuts[cmd][name]
    /\ leftover = 0 =>
          \A n \in Numbers : values[n] # None =>
              \E k \in DOMAIN Tail(values[n].from) :
                  /\ Tail(values[n].from)[k] = n
                  /\ <<values[n].at, values[n].size>> = SentAt(pump, Tail(values[n].from), k)

\* What of a header may be of another dispense than DISPENSE_INFO, whenever the
\* pump dispenses between two reads. "Each part that can't be tied to that same
\* cycle is left out" (read_dispense_header) holds of the volumes, and of the
\* confirmation but for one case: neither its time nor DISPENSE_INFO's was read,
\* and the two are equal, as None is to None. It does not hold of the recipe's
\* title, which is kept whatever dispense it is of. As it is asked for before
\* the confirmation's time, a title of a later dispense is at least told: problems
\* says that the SVIDs are for a different dispense time, but for the same case.
PartsAreTied ==
    LET timeless == values[Time] = None /\ Part(fields, DISPENSE_INFO, "time") = None
    IN  task = "header" =>
            /\ Measured # None => ~Measured.moved
            /\ Setpoint # None => ~Setpoint.moved
            /\ Confirmation # None => ~Confirmation.moved \/ timeless
            /\ RecipeTitle # None => ~RecipeTitle.moved \/ ~Confirmed \/ timeless

\* what a read needs no more, or has nothing to go on without
NoMoreNeeded ==
    \/ task = "newest" /\ NewestCycle(fields) # None
    \/ task = "header" /\ fields[DISPENSE_INFO] = None

\* a request has its answer, or is noted; a list read one at a time has or is SVID
\* by SVID
Told(r) ==
    \/ r \in problems
    \/ ~IsSvids(r) /\ fields[r[1]] # None
    \/ /\ IsSvids(r)
       /\ \A n \in {Tail(r)[i] : i \in DOMAIN Tail(r)} :
             values[n] # None \/ AskSvids(<<n>>) \in problems

\* When a read is over without an exception, each of the requests planned has
\* its answer or is noted in problems, unless no more was needed; and where a
\* list of SVIDs was refused, each SVID of it has. For the newest cycle that is
\* once it is known: a first status without it, of other firmware or cut short,
\* must be followed by the second (read_newest_cycle).
MissingIsTold ==
    todo = <<>> /\ ~raised /\ ~NoMoreNeeded =>
        \A k \in DOMAIN Plan(task) : Told(Plan(task)[k])
=============================================================================
