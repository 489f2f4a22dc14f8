CONSTANTS
    Agents = {a1}
    Callers = {cli}
    Requests <- AllMethods
    Faults <- AllFaults
    MaxFaults = 2
SPECIFICATION Spec
INVARIANTS TypeOK RefreshRepairs
PROPERTIES MigratedProxy GhostSafe
