SPECIFICATION Spec
CONSTANTS
    StaleTimeout = 2
    AbsoluteTimeout = 10
    MaxPollFailures = 2
    MaxStage = 2
    JobTtl <- ShortestTtl
INVARIANTS TypeOK NeverMissed
PROPERTIES WaitEnds KeepsPromise
CHECK_DEADLOCK FALSE
