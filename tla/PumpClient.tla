------------------------------ MODULE PumpClient ------------------------------
(***************************************************************************)
(* One command to a pump: PumpClient.command (pump_client.py) over          *)
(* NCSClient.transact (ncs_client.py). The request goes to the gateway on a *)
(* connection of its own, the gateway puts it on the serial bus and answers *)
(* with what came of that, and its answer arrives in pieces. Lengths are in *)
(* units of a few bytes, times in ticks.                                    *)
(***************************************************************************)
EXTENDS Integers

CONSTANTS
    HeaderLen,  \* HEADER_LEN of the gateway's answers
    FrameLen,   \* the length of the pump's reply frame
    MaxPacket,  \* MAX_PACKET_SIZE
    Timeout,    \* timeout_ms: how long the gateway waits for the pump
    Margin,     \* SOCKET_MARGIN_MS
    None

ASSUME LengthsAssumption ==
    /\ {HeaderLen, FrameLen, Timeout, Margin} \subseteq Nat \ {0}
    /\ MaxPacket \in Nat /\ HeaderLen + FrameLen <= MaxPacket

VARIABLES
    pc,         \* where transact is
    received,   \* how much it has of the answer
    age,        \* time since its socket call began
    outcome,    \* what command returned or raised, and the code with it
    gateway,    \* what the gateway is doing with the request
    since,      \* time since the request is on the bus
    event,      \* what happened on the bus
    answer,     \* the gateway's answer
    arrived,    \* how much of it has arrived
    prompt,     \* whether nothing between us and the gateway is slow or broken
    spent       \* time spent on the way, there and back

client == <<pc, received, age, outcome>>
box == <<gateway, since, event, answer>>
vars == <<client, box, arrived, prompt, spent>>

-----------------------------------------------------------------------------
(* The bus and the gateway, external to src/py. *)

Frames == [kind : {"frame"}, intact : BOOLEAN, addr : {"own", "other"}, rc : {"GOOD", "error"}]
Silence == [kind |-> "silence"]
Refusal == [kind |-> "refusal"]     \* the port is locked, disabled or unknown
Garbage == [kind |-> "garbage"]     \* not an answer at all
Events == Frames \union {Silence, Refusal, Garbage}

ASSUME NoneAssumption == None \notin Events

Answer(rc, len) == [rc |-> rc, size |-> len, len |-> len]

\* A pump's error code is copied into the gateway's; a damaged frame comes behind
\* the gateway's own, if it checks; garbage is of any length, whatever it says.
Answers(e) ==
    CASE e.kind = "frame" /\ e.intact ->
            {Answer(IF e.rc = "GOOD" THEN "NO_ERR" ELSE "copied", HeaderLen + FrameLen)}
      [] e.kind = "frame" /\ ~e.intact ->
            {Answer(rc, HeaderLen + FrameLen) : rc \in {"NO_ERR", "SERIAL_OUTPUT_INVALID_CRC"}}
      [] e.kind = "silence" -> {Answer("SERIAL_READ_TIMEOUT", HeaderLen)}
      [] e.kind = "refusal" -> {Answer("other", HeaderLen)}
      [] e.kind = "garbage" ->
            [rc : {"NO_ERR", "other"}, size : {HeaderLen, MaxPacket + 2}, len : 0..(MaxPacket + 2)]

Reaches ==
    /\ pc = "recv" /\ gateway = "waiting"
    /\ gateway' = "bus"
    /\ UNCHANGED <<client, since, event, answer, arrived, prompt, spent>>

\* the gateway gives up on the pump after timeout_ms, and not before
Responds ==
    /\ pc = "recv" /\ gateway = "bus"
    /\ \E e \in Events :
          /\ e = Silence => since >= Timeout
          /\ event' = e
          /\ answer' \in Answers(e)
    /\ gateway' = "answered"
    /\ UNCHANGED <<client, since, arrived, prompt, spent>>

Deliver ==
    /\ pc = "recv" /\ gateway = "answered"
    /\ arrived' \in (arrived + 1)..answer.len
    /\ UNCHANGED <<client, box, prompt, spent>>

\* the gateway may close the connection or leave that to us; one that breaks
\* may do so anywhere
Close ==
    /\ pc = "recv" /\ gateway # "closed"
    /\ prompt => gateway = "answered" /\ arrived = answer.len
    /\ gateway' = "closed"
    /\ UNCHANGED <<client, since, event, answer, arrived, prompt, spent>>

-----------------------------------------------------------------------------
(* NCSClient.transact *)

Init ==
    /\ pc = "start"
    /\ received = 0 /\ age = 0
    /\ outcome = None
    /\ gateway = "waiting" /\ since = 0
    /\ event = None /\ answer = None
    /\ arrived = 0
    /\ prompt \in BOOLEAN /\ spent = 0

Raise(kind) == pc' = "done" /\ outcome' = <<kind, None>>

Connect ==
    /\ pc = "start"
    /\ pc' = "recv"
    /\ UNCHANGED <<received, age, outcome, box, arrived, prompt, spent>>

ConnectFails ==
    /\ pc = "start" /\ ~prompt
    /\ Raise("ConnectError")
    /\ UNCHANGED <<received, age, box, arrived, prompt, spent>>

\* OSError in sendall or recv
Breaks ==
    /\ pc = "recv" /\ ~prompt
    /\ Raise("NetworkError")
    /\ UNCHANGED <<received, age, box, arrived, prompt, spent>>

\* (mutant of Room: no end to it)
RoomForAll == arrived

\* one past the most there may be, so that too long an answer shows
Room == IF arrived > MaxPacket THEN MaxPacket + 1 ELSE arrived

Recv ==
    /\ pc = "recv"
    /\ received' \in (received + 1)..Room
    /\ age' = 0
    /\ UNCHANGED <<pc, outcome, box, arrived, prompt, spent>>

\* the peer closed, or there is more than an answer can have
RecvEnds ==
    /\ pc = "recv"
    /\ received > MaxPacket \/ (gateway = "closed" /\ received = arrived)
    /\ pc' = "parse"
    /\ UNCHANGED <<received, age, outcome, box, arrived, prompt, spent>>

\* (mutant of SocketTimeout: the header's own)
HeaderTimeout == Timeout

\* to outlast the gateway's
SocketTimeout == Timeout + Margin

\* (mutant of RecvTimeout: waits for the peer to close)
RecvTimeoutGoesOn ==
    /\ pc = "recv"
    /\ age = SocketTimeout /\ received = arrived
    /\ IF received > 0 THEN age' = 0 /\ UNCHANGED <<pc, outcome>>
       ELSE Raise("NetworkError") /\ UNCHANGED age
    /\ UNCHANGED <<received, box, arrived, prompt, spent>>

\* what came before it is taken for the answer: the peer may be waiting for us
RecvTimeout ==
    /\ pc = "recv"
    /\ age = SocketTimeout /\ received = arrived
    /\ IF received > 0 THEN pc' = "parse" /\ UNCHANGED outcome ELSE Raise("NetworkError")
    /\ UNCHANGED <<received, age, box, arrived, prompt, spent>>

-----------------------------------------------------------------------------
(* parse_response, and PumpClient.command with parse_frame *)

Parses == received >= HeaderLen /\ received <= MaxPacket /\ answer.size = received

\* (mutant of FrameParses: whoever it is from)
FrameParsesFromAny == event \in Frames /\ event.intact /\ received = HeaderLen + FrameLen

\* whole, its CRC right and from the pump that was asked
FrameParses ==
    event \in Frames /\ event.intact /\ event.addr = "own" /\ received = HeaderLen + FrameLen

\* (mutant of CommandOutcome: the gateway's code is looked at first)
CodeFirstOutcome ==
    IF answer.rc # "NO_ERR" THEN <<"PumpTransportError", answer.rc>>
    ELSE IF FrameParses THEN <<"reply", event.rc>>
    ELSE <<"PumpProtocolError", None>>

\* a frame that parses is the pump's reply, whatever the gateway's code
CommandOutcome ==
    IF FrameParses THEN <<"reply", event.rc>>
    ELSE IF answer.rc # "NO_ERR" THEN <<"PumpTransportError", answer.rc>>
    ELSE <<"PumpProtocolError", None>>

Parse ==
    /\ pc = "parse"
    /\ IF received > 0 /\ Parses THEN outcome' = CommandOutcome
       ELSE outcome' = <<"ProtocolError", None>>
    /\ pc' = "done"
    /\ UNCHANGED <<received, age, box, arrived, prompt, spent>>

-----------------------------------------------------------------------------
OnTheWay == gateway = "waiting" \/ (gateway = "answered" /\ arrived < answer.len)

\* Time passes. A socket call ends with its timeout; where all is prompt the way
\* takes less than the margin and the gateway keeps its own timeout.
Tick ==
    /\ pc = "recv"
    /\ age < SocketTimeout
    /\ prompt => /\ OnTheWay => spent < Margin - 1
                 /\ gateway = "bus" => since < Timeout
                 /\ received = arrived
    /\ age' = age + 1
    /\ since' = IF gateway = "bus" /\ since < Timeout THEN since + 1 ELSE since
    /\ spent' = IF prompt /\ OnTheWay THEN spent + 1 ELSE spent
    /\ UNCHANGED <<pc, received, outcome, gateway, event, answer, arrived, prompt>>

Client ==
    \/ Connect \/ ConnectFails \/ Breaks
    \/ Recv \/ RecvEnds \/ RecvTimeout \/ Parse

Elsewhere == Reaches \/ Responds \/ Deliver

\* the answer has been dealt with
Stop == pc = "done" /\ UNCHANGED vars

Next == Client \/ Elsewhere \/ Close \/ Tick \/ Stop

\* the process runs and time passes; the rest only where it is prompt
Fairness == WF_vars(Client) /\ WF_vars(Tick) /\ WF_vars(prompt /\ Elsewhere)

Spec == Init /\ [][Next]_vars
FairSpec == Spec /\ Fairness

-----------------------------------------------------------------------------
(* Properties *)

Codes == {None, "GOOD", "error", "NO_ERR", "copied", "other",
          "SERIAL_OUTPUT_INVALID_CRC", "SERIAL_READ_TIMEOUT"}
Outcomes == {"ConnectError", "NetworkError", "ProtocolError",
             "PumpTransportError", "PumpProtocolError", "reply"} \X Codes

\* Every variable has its type; an answer is never read further than one past
\* MAX_PACKET_SIZE.
TypeOK ==
    /\ pc \in {"start", "recv", "parse", "done"}
    /\ received \in 0..(MaxPacket + 1) /\ arrived \in 0..(MaxPacket + 2)
    /\ age \in 0..SocketTimeout /\ since \in 0..Timeout /\ spent \in 0..Margin
    /\ outcome \in Outcomes \union {None}
    /\ gateway \in {"waiting", "bus", "answered", "closed"}
    /\ event \in Events \union {None}
    /\ answer \in (UNION {Answers(e) : e \in Events}) \union {None}
    /\ prompt \in BOOLEAN

\* What command returns is a reply of the very pump it asked, whole and intact,
\* whatever was cut off, delayed, damaged or answered by another pump.
RepliesAreThePumps ==
    outcome # None /\ outcome[1] = "reply" =>
        /\ event.kind = "frame" /\ event.intact /\ event.addr = "own"
        /\ received = answer.len /\ outcome[2] = event.rc

\* How a command ended, as its callers are to tell it from what it raises: the
\* pump's own word, error codes included; a damaged reply; a pump that was
\* silent, after which paced waits out a late reply; a refusal of the gateway.
Heard(e) ==
    CASE e.kind = "frame" /\ e.intact /\ e.addr = "own" -> {<<"reply", e.rc>>}
      [] e.kind = "frame" /\ e.intact /\ e.addr # "own" ->
            {<<"PumpProtocolError", None>>, <<"PumpTransportError", "copied">>}
      [] e.kind = "frame" /\ ~e.intact ->
            {<<"PumpProtocolError", None>>, <<"PumpTransportError", "SERIAL_OUTPUT_INVALID_CRC">>}
      [] e.kind = "silence" -> {<<"PumpTransportError", "SERIAL_READ_TIMEOUT">>}
      [] e.kind = "refusal" -> {<<"PumpTransportError", "other">>}
      [] e.kind = "garbage" -> Outcomes

\* "Socket timeout has to outlast the header's timeout field, or we give up
\* before the NCS can tell us it timed out" (ncs_client.py): where nothing on the
\* way is slow or broken, a command ends with what happened on the bus.
HeardAsItHappened == pc = "done" /\ prompt => event # None /\ outcome \in Heard(event)

\* Every command ends, though the peer never closes, sends without end or stops
\* half way.
CommandEnds == pc = "recv" ~> pc = "done"
=============================================================================
