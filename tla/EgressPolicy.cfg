SPECIFICATION Spec
CONSTANTS
    Agents = {a1, a2}
    Callers = {c1}
    Domains = {d}
    Inputs <- SomeSections
    Providers <- AllProviders
    Nothing = Nothing
    Torn = Torn
    Broken = Broken
    Keep = Keep
    MaxCalls = 3
    MaxFaults = 2
SYMMETRY AgentSymmetry
CHECK_DEADLOCK FALSE
INVARIANTS TypeOK FileNeverTorn DeployedIsEnforced DriftIsHonest
PROPERTIES StartsFromTheFile
