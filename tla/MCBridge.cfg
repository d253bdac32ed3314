SPECIFICATION FairSpec
CONSTANTS
    b1 = b1
    b2 = b2
    NPumps = 3
    Buses = {b1, b2}
    Bus <- MCBus3
    Frequency <- MCFrequency3
    Longest = 3
    SaveComms = TRUE
CHECK_DEADLOCK FALSE
INVARIANTS TypeOK NoneStarved
PROPERTIES NotTooOften CollectedAgain
