SPECIFICATION Spec
CONSTANTS
    Bridge = Bridge
    Tool = Tool
    None = None
    Cycles = {1}
    Traces <- MCTraces
    BadReplies <- MCBadReplies
    Exchanges = 1
    Saves = {0, 2}
    MaxRuns <- MCMaxRuns
INVARIANTS TypeOK ReadBackIsTaken StoredCanBeRerendered MemoryLoads
CHECK_DEADLOCK FALSE
