SPECIFICATION Spec
CONSTANTS
    Files = {soul, agents}
    Shipped = {soul}
    Texts = {mine, role}
    RoleText = role
    Settings = {plain, reserved}
    Reserved = {reserved}
    Absent = Absent
    Default = Default
    Edited = Edited
    Providers <- OnlyRemote
    FaultKinds <- OnlyLostReads
    MaxCalls = 2
    MaxEdits = 0
    MaxFaults = 1
CHECK_DEADLOCK FALSE
INVARIANT GatewayHasToken
