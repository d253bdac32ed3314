SPECIFICATION FairSpec
CONSTANTS
    t0 = t0
    None = None
    HeldCycles = 3
    Retention = 3
    Traces = {t0}
    Lagging = {"last", "status"}
    FirstCycles = {1}
    MaxCycle = 4
INVARIANTS TypeOK HeaderIsOfItsCycle RunLeavesNothingOut TracesAreOfTheirCycle
PROPERTY Heals
