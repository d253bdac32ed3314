SPECIFICATION Spec
CONSTANTS
    Bridge = Bridge
    Tool = Tool
    None = None
    Torn = Torn
    Procs = {Bridge}
    Bridges = {Bridge}
    Writers = 2
    Overwriting = {1}
    Cycles = {1, 2}
    KeptCycles = 1
    Traces = 1
    Captures <- MCCaptures
INVARIANTS TypeOK RememberedIsStored RowHasProfile
PROPERTIES KeepsRowPromise KeepsObjPromise
