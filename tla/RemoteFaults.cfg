CONSTANTS
    Agents = {1, 2}
    IDs = {u1}
    NoID = gateway_only
    NoRec = no_record
    Torn = torn_record
    MaxPort = 2
    Named <- PortInUse
    Faults <- FaultKinds
    MaxFaults = 1
SPECIFICATION Spec
INVARIANTS TypeOK ServingOnSuccess RefreshRepairs RemovalComplete RouterCurrent
PROPERTIES ProxyBeforeAgent
