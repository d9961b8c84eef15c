SPECIFICATION Spec
CONSTANTS
    None = None
    r1 = r1
    r2 = r2
    w1 = w1
    w2 = w2
    Relays = {r1, r2}
    NumLineages = 1
    Wrappers = {w1, w2}
    PageItems = 2
    MaxAttempts = 2
    MaxClock = 1
    Delays = {1}
    MaxFaults = 1
    ClockSteps = FALSE
SYMMETRY Symmetry
INVARIANTS
    TypeOK
    OneWrapperPerLineage
    EverySendIsRecorded
    AcceptedIsRetained
    PublishNeverConflicts
PROPERTIES
    AttemptsOnlyAdvance
    AcceptedNeverResent
CHECK_DEADLOCK FALSE
