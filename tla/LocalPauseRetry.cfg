CONSTANTS
    Agents = {1, 2}
    Callers = {cli}
    IDs = {}
    NoID = gateway_only
    NoRec = no_record
    Torn = torn_record
    MaxPort = 2
    Named <- PortInUse
    Faults <- CrashOnly
    MaxFaults = 1
SPECIFICATION Spec
INVARIANT PauseTruthful
