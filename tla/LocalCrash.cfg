CONSTANTS
    Agents = {1, 2}
    Callers = {cli}
    IDs = {}
    NoID = gateway_only
    NoRec = no_record
    Torn = torn_record
    MaxPort = 2
    Named <- PortInUse
    Faults <- AllFaults
    MaxFaults = 2
SPECIFICATION Spec
INVARIANTS ServingOnSuccess PortsDistinct
PROPERTIES ProxyBeforeAgent RecordsRefineRegistry
