SPECIFICATION Spec
CONSTANTS
    Agents = {a1, a2}
    Nobody = Nobody
    Providers <- AllProviders
    Launches <- SomeLaunches
    MaxFaults = 1
SYMMETRY AgentSymmetry
INVARIANTS TypeOK AddRepairs BindingTakesEffect RemovalComplete
PROPERTIES CredentialsOutliveBindings
