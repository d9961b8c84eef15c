SPECIFICATION Spec
CONSTANTS
    None = None
    a = a
    Relays = {a}
    StagingOwner = a
    NumWrappers = 3
    Histories <- Starts
    Kind <- OneInvalid
    PageItems = 2
    StagePageItems = 1
    BufferItems = 1
    StagingItems = 2
    QuarantineItems = 1
    MillisPerSecond = 2
    TimestampRange = 1
    OverlapSafety = 2
    PublishLag = 1
    Delays = {1}
    MaxClock = 11
    MaxAttempts = 2
    MaxGeneration = 2
    MaxAhead = 1
    MaxFaults = 1
INVARIANTS
    CoverageIsTrue
    ClaimsAreIngested
PROPERTIES
    SecuredNeverLost
\* A scan may not run further ahead of the clock than MaxAhead.
CHECK_DEADLOCK FALSE
