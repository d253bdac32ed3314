-------------------------------- MODULE Table --------------------------------
(***************************************************************************)
(* What becomes of a decoded trace: its column of the profile               *)
(* (profile_decode.py, profile_frame), and what the dispense row says of it *)
(* (render.py, the end of dispense_record). A value of a column is counted  *)
(* in its last decimal, and times are in milliseconds.                      *)
(***************************************************************************)
EXTENDS Integers, Sequences

Column(signed, scale, decimals) == [signed |-> signed, scale |-> scale, decimals |-> decimals]

\* (mutant of TraceColumns: one scaled by thousands and shown in hundredths)
TraceColumnsCoarse ==
    <<Column(TRUE, 1000, 2), Column(TRUE, 100, 2), Column(FALSE, 1000, 3),
      Column(FALSE, 1000, 3), Column(TRUE, 1, 0), Column(FALSE, 1, 0),
      Column(FALSE, 1, 0), Column(FALSE, 1000, 3), Column(TRUE, 100, 2), Column(TRUE, 100, 2)>>

\* TRACE_COLUMNS: pressures, positions, current, status, valves, flow, supplies
TraceColumns ==
    <<Column(TRUE, 100, 2), Column(TRUE, 100, 2), Column(FALSE, 1000, 3),
      Column(FALSE, 1000, 3), Column(TRUE, 1, 0), Column(FALSE, 1, 0),
      Column(FALSE, 1, 0), Column(FALSE, 1000, 3), Column(TRUE, 100, 2), Column(TRUE, 100, 2)>>

\* (mutant of ToSigned: one off at the lowest)
ToSignedOneOff(word) == IF word > 2^15 THEN word - 2^16 ELSE word

ToSigned(word) == IF word >= 2^15 THEN word - 2^16 ELSE word

Rounded(a, b) == (2*a + b) \div (2*b)

ScaledValue(raw, column) ==
    LET value == IF column.signed THEN ToSigned(raw) ELSE raw
    IN  Rounded(value * 10^column.decimals, column.scale)

\* (mutant of SecondsValue: samples counted from one)
SecondsFromOne(sample, info) == (sample + 1 - info.start_cycle) * info.sample_interval

SecondsValue(sample, info) == (sample - info.start_cycle) * info.sample_interval

\* one trace's column next to the time's; decoded is its samples, or none
ProfileFrame(trace, info, decoded, none) ==
    [trace |-> trace,
     times |-> [i \in 1..info.unencoded_size |-> SecondsValue(i - 1, info)],
     values |-> IF decoded = none THEN [i \in 1..info.unencoded_size |-> none]
                ELSE [i \in DOMAIN decoded |-> ScaledValue(decoded[i], TraceColumns[trace + 1])]]

\* (mutant of DispenseRecord: a repair always counts)
DispenseRecordAnyRepair(decoded, repair, failed, none) ==
    [blank |-> decoded = none, reconstructed |-> repair # none, failed |-> failed]

\* (mutant of DispenseRecord: a repair isn't told)
DispenseRecordNoRepair(decoded, repair, failed, none) ==
    [blank |-> decoded = none, reconstructed |-> FALSE, failed |-> failed]

\* of a trace of one chunk; a repair only counts once its trace is in the CSV
DispenseRecord(decoded, repair, failed, none) ==
    [blank |-> decoded = none, reconstructed |-> repair # none /\ decoded # none,
     failed |-> failed]
=============================================================================
