SPECIFICATION FairSpec
CONSTANTS
    None = None
    a = a
    Relays = {a}
    StagingOwner = a
    NumWrappers = 1
    Histories <- Empty
    Kind <- AllGood
    PageItems = 1
    StagePageItems = 1
    BufferItems = 0
    StagingItems = 2
    QuarantineItems = 2
    MillisPerSecond = 1
    TimestampRange = 1
    OverlapSafety = 1
    PublishLag = 0
    Delays = {1}
    MaxClock = 2
    MaxAttempts = 2
    MaxGeneration = 2
    MaxAhead = 2
    MaxFaults = 1
PROPERTIES
    EventuallyClaimed
