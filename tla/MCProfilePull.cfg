SPECIFICATION FairSpec
CONSTANTS
    Traces <- MCTraces
    TraceOrder <- MCTraceOrder
    EncodedSize <- MCSizes
    MaxTraceWords = 2
    MaxRetries = 2
    BusFlips = {1, 2, 3}
INVARIANTS TypeOK WordsInPlace TracesAccountedFor
PROPERTY PullEnds
