SPECIFICATION Spec
CONSTANTS
    j1 = j1
    j2 = j2
    d1 = d1
    d2 = d2
    h1 = h1
    h2 = h2
    Jobs <- TwoJobs
    Datasources <- TwoDatasources
    Linked <- TwoKbs
    Handlers <- TwoHandlers
    MaxFaults = 1
    MaxSyncs = 0
SYMMETRY Symmetric
INVARIANTS FiredAfterAll FiredOnce
CHECK_DEADLOCK FALSE
