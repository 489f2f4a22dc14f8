CONSTANTS
    Callers = {c1, c2}
    Nobody = nobody
    MaxFaults = 2
    MaxDials = 4
SPECIFICATION Spec
INVARIANTS TypeOK StaleIsTransparent
PROPERTIES ImplementsCommand RequestsReturn
