SPECIFICATION FairSpec
CONSTANTS
    Bridge = Bridge
    Tool = Tool
    None = None
    Torn = Torn
    Procs = {Bridge, Tool}
    Bridges = {Bridge}
    Writers = 1
    Overwriting = {}
    Cycles = {1}
    KeptCycles = 1
    Traces = 1
    Captures <- MCCaptures
PROPERTY CleanNeverReplaced
