SPECIFICATION Spec
CONSTANTS
    r1 = r1
    r2 = r2
    w1 = w1
    w2 = w2
    MaxJobs = 2
    MaxFaults = 2
    Requests <- TwoRequests
    Workers <- TwoWorkers
SYMMETRY Symmetric
INVARIANTS TypeOK   ProcessingIsAccountedFor
 
CHECK_DEADLOCK FALSE
