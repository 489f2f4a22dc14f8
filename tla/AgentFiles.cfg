SPECIFICATION Spec
CONSTANTS
    Files = {soul, agents}
    Shipped = {soul}
    Texts = {mine, role}
    RoleText = role
    Settings = {plain, reserved}
    Reserved = {reserved}
    Absent = Absent
    Default = Default
    Edited = Edited
    Providers <- BothProviders
    FaultKinds <- EveryFault
    MaxCalls = 5
    MaxEdits = 1
    MaxFaults = 1
CHECK_DEADLOCK FALSE
INVARIANTS TypeOK AppliedWhenDone
PROPERTIES TokenKept AdminKept
