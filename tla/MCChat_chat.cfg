SPECIFICATION ChatSpec
CONSTANTS
    ann = ann
    bob = bob
    Names <- TwoNames
    Digits <- TwoDigits
    Questions <- AnnOrBob
    Permits = 1
    MaxDeployed = 2
    MaxAhead = 1
    MaxTurns = 2
    Chars = {"[", "N", "1", "]"}
    MaxChunk = 2
    MaxSteps = 5
INVARIANTS
    AnswerIsRestored
    
    
PROPERTY
    ChatEnds
CHECK_DEADLOCK FALSE
