\* One shell; the device joins and asks for two projects.
CONSTANTS
    Creator = creator
    Device = device
    None = None
    Shells = {s1}
    Labels = {l1}
    MaxInvites = 1
    MaxRevokes = 1
    MaxJoins = 1
    MaxRequests = 2
    Budget <- MaxStarts
SPECIFICATION FairSpec
CHECK_DEADLOCK FALSE
PROPERTY
    RequestsAreReceived
