SPECIFICATION FairSpec
CONSTANTS
    None = None
    v1 = v1
    v2 = v2
    Cycles = {1}
    Values = {v1, v2}
    MaxId = 2
    Retries = 2
    Databases <- MCUnsafe
INVARIANT OneRow
