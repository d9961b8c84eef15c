SPECIFICATION FairSpec
CONSTANTS
    None = None
    r1 = r1
    r2 = r2
    w1 = w1
    w2 = w2
    Relays = {r1}
    NumLineages = 2
    Wrappers = {w1, w2}
    PageItems = 3
    MaxAttempts = 2
    MaxClock = 1
    Delays = {1}
    MaxFaults = 1
    ClockSteps = TRUE
PROPERTIES
    RoutedIntentsSettle
CHECK_DEADLOCK FALSE
