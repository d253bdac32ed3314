------------------------------ MODULE Layouts -------------------------------
(***************************************************************************)
(* pump_structs.py: the fixed layouts of the pump's replies, as sequences  *)
(* of struct codes, and where parsing by them finds the fields the reader  *)
(* uses. A place is <<offset, size>> in the data of a reply.               *)
(***************************************************************************)
EXTENDS Integers, Sequences

\* PumpCommand, the reads of pump_reader.py
GET_SVIDS == 21
SERIALNUMBERS == 30
VERSION == 52
FIRMWAREINFO == 54
RTSTATUS == 100
CS_RTSTATUS == 110
DISPENSE_INFO == 155
LAST_DIS_INFO_2 == 167

StructCommands == {SERIALNUMBERS, VERSION, FIRMWAREINFO, RTSTATUS, CS_RTSTATUS,
                   DISPENSE_INFO, LAST_DIS_INFO_2}

\* struct.calcsize of a code; "<" packs fields without gaps
Size(code) ==
    CASE code \in {"h", "H"} -> 2
      [] code \in {"l", "L", "f"} -> 4
      [] code = "16s" -> 16
      [] code = "24s" -> 24
      [] code = "48s" -> 48
      [] code = "10L" -> 40

Times(n, code) == [i \in 1..n |-> code]

\* how many bytes the first i fields take up, for each i
Offset(layout) ==
    LET sum[i \in 0..Len(layout)] == IF i = 0 THEN 0 ELSE sum[i - 1] + Size(layout[i])
    IN  sum

Length(layout) == Offset(layout)[Len(layout)]

VolumeCounters == Times(6, "L")
CycleCounters == Times(27, "L") \o Times(2, "H")

\* (mutant of RtStatusCommon: two neighbours of the same size and sum swapped)
RtStatusSwapped ==
    <<"h", "H">> \o Times(2, "H") \o <<"L">> \o Times(2, "H") \o Times(3, "L")
        \o Times(6, "H") \o Times(5, "L") \o <<"h", "h", "H">>

RtStatusCommon ==
    <<"h", "H", "L">> \o Times(4, "H") \o Times(3, "L") \o Times(6, "H")
        \o Times(5, "L") \o <<"h", "h", "H">>

RtStatus == RtStatusCommon \o <<"H", "l", "l">>
CsRtStatus == RtStatusCommon \o <<"24s", "24s", "H", "l", "l">>
PressureStatus ==
    <<"h", "H", "f", "l", "l", "l", "f", "l", "h",
      "H", "f", "l", "l", "l", "f", "l", "h", "h", "L", "L">>
Version == <<"16s", "16s", "24s", "48s">>
SerialNumbers == Times(12, "24s") \o Times(2, "L")
LastDispenseInfo2 == Times(4, "L")
SkipStepInfo == <<"L", "h", "h", "L", "L">>
ProfileTraceInfo == <<"L", "H", "H">> \o Times(7, "L") \o <<"10L">>
AlarmRecord == <<"H", "H", "L", "L", "L", "L", "H", "H", "L">>
FirmwareInfo == Times(8, "H")

\* each layout with its EXPECTED_LEN
FixedStructs ==
    {<<VolumeCounters, 24>>, <<CycleCounters, 112>>, <<RtStatus, 76>>,
     <<CsRtStatus, 124>>, <<PressureStatus, 68>>, <<Version, 104>>,
     <<SerialNumbers, 296>>, <<LastDispenseInfo2, 16>>, <<SkipStepInfo, 16>>,
     <<ProfileTraceInfo, 76>>, <<AlarmRecord, 28>>}

\* the loop over FIXED_STRUCTS at import
ASSUME TranscriptionAssumption ==
    \A struct \in FixedStructs : Length(struct[1]) = struct[2]

\* where field i of a layout is
PlaceOf(layout, i) == <<Offset(layout)[i - 1], Size(layout[i])>>

\* DISPENSE_INFO_KNOWN, each field at an offset of its own
DispenseInfoKnown == [cycle |-> <<4, 4>>, time |-> <<12, 4>>]

\* the fields that are used of each reply
Places == [cmd \in StructCommands |->
    CASE cmd = SERIALNUMBERS -> [pump |-> PlaceOf(SerialNumbers, 1)]
      [] cmd = VERSION -> [model |-> PlaceOf(Version, 3), version |-> PlaceOf(Version, 4)]
      [] cmd = FIRMWAREINFO -> [module_type |-> PlaceOf(FirmwareInfo, 4)]
      [] cmd = RTSTATUS ->
            [profile_cycle |-> PlaceOf(RtStatus, 21), last_dispense_cycle |-> PlaceOf(RtStatus, 3),
             last_dispense_vol_ul |-> PlaceOf(RtStatus, 5)]
      [] cmd = CS_RTSTATUS ->
            [profile_cycle |-> PlaceOf(CsRtStatus, 21), model |-> PlaceOf(CsRtStatus, 25),
             pump_serial_number |-> PlaceOf(CsRtStatus, 26)]
      [] cmd = DISPENSE_INFO -> DispenseInfoKnown
      [] cmd = LAST_DIS_INFO_2 ->
            [cycle |-> PlaceOf(LastDispenseInfo2, 1), dispense_volume |-> PlaceOf(LastDispenseInfo2, 2)]]

\* length() of each, and DISPENSE_INFO_LEN
FullLength == [cmd \in StructCommands |->
    CASE cmd = SERIALNUMBERS -> Length(SerialNumbers)
      [] cmd = VERSION -> Length(Version)
      [] cmd = FIRMWAREINFO -> Length(FirmwareInfo)
      [] cmd = RTSTATUS -> Length(RtStatus)
      [] cmd = CS_RTSTATUS -> Length(CsRtStatus)
      [] cmd = DISPENSE_INFO -> 164
      [] cmd = LAST_DIS_INFO_2 -> Length(LastDispenseInfo2)]

\* Where the pump puts them: the formats its replies are built from in
\* mock_ncs.py, counted in bytes.
PumpPuts == [cmd \in StructCommands |->
    CASE cmd = SERIALNUMBERS -> [pump |-> <<0, 24>>]
      [] cmd = VERSION -> [model |-> <<32, 24>>, version |-> <<56, 48>>]
      [] cmd = FIRMWAREINFO -> [module_type |-> <<6, 2>>]
      [] cmd = RTSTATUS ->
            [profile_cycle |-> <<56, 4>>, last_dispense_cycle |-> <<4, 4>>,
             last_dispense_vol_ul |-> <<10, 2>>]
      [] cmd = CS_RTSTATUS ->
            [profile_cycle |-> <<56, 4>>, model |-> <<66, 24>>,
             pump_serial_number |-> <<90, 24>>]
      [] cmd = DISPENSE_INFO -> [cycle |-> <<4, 4>>, time |-> <<12, 4>>]
      [] cmd = LAST_DIS_INFO_2 -> [cycle |-> <<0, 4>>, dispense_volume |-> <<4, 4>>]]
=============================================================================
