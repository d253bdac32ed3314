SPECIFICATION TraceSpec
CONSTANTS
    Nothing = Nothing
    Recordings <- MCRecordings
    Addr = 3
    Numbers = {0, 3, 4}
    StartCycle = 2
    Interval = 10
    Burst = 14
    MaxLen = 20
INVARIANTS TraceTypeOK ColumnsAreRecorded CsvIsRecorded RowIsHonest OneFlipMended CrcAsDefined
