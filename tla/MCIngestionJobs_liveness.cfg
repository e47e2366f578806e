SPECIFICATION FairSpec
CONSTANTS
    r1 = r1
    r2 = r2
    w1 = w1
    w2 = w2
    MaxJobs = 2
    MaxFaults = 1
    Requests <- OneRequest
    Workers <- OneWorker
PROPERTIES EveryJobEnds ProcessingEnds
CHECK_DEADLOCK FALSE
