SPECIFICATION Spec
CONSTANTS
    Chatbots = {c1}
    Datasources = {d1, d2, d3}
    Files = {f1, f2}
    Images = {i1, i2}
    Requests = {r1, r2}
    None = None
    MaxRequests = 3
    MaxFaults = 1
SYMMETRY Symmetry
INVARIANTS
    ServedObjectsExist
    SelectionsHaveRows
    
CHECK_DEADLOCK FALSE
