SPECIFICATION FairSpec
CONSTANTS
    RingSize = 3
    ValueRing = 4
    MaxValues = 2
    MaxBatch = 2
    Timeout = TRUE
    InitTimer = 2
    MaxCalls = 5
INVARIANTS ChannelInv ReturnMeansExecuted ArgumentsIntact
PROPERTIES CallsReturn ImplementsChannel
