CONSTANTS
    Agents = {1, 2}
    Callers = {cli}
    IDs = {u1}
    NoID = gateway_only
    NoRec = no_record
    Torn = torn_record
    MaxPort = 2
    Named <- PortInUse
    Faults <- HostFaults
    MaxFaults = 2
SPECIFICATION Spec
INVARIANTS TypeOK PortsHeld NoMisdelivery NoRouteToDeparted
