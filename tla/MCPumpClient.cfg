SPECIFICATION FairSpec
CONSTANTS
    None = None
    HeaderLen = 2
    FrameLen = 2
    MaxPacket = 5
    Timeout = 2
    Margin = 2
INVARIANTS TypeOK RepliesAreThePumps HeardAsItHappened
PROPERTY CommandEnds
