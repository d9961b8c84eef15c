\* One device, two shells on the creator's machine.
CONSTANTS
    Creator = creator
    Device = device
    None = None
    Shells = {s1, s2}
    Labels = {l1, l2}
    MaxInvites = 2
    MaxRevokes = 2
    MaxJoins = 2
    MaxRequests = 1
    Budget <- MaxStarts
SYMMETRY Symmetric
SPECIFICATION Spec
CHECK_DEADLOCK FALSE
INVARIANTS
    RevokeBarsAll
    HomeServesMembers
    SelectedMeansMember
    ViewsAgree
