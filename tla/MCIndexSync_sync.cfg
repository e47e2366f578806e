SPECIFICATION FairSpec
CONSTANTS
    f1 = f1
    f2 = f2
    k1 = k1
    k2 = k2
    Files <- TwoFiles
    Keys <- TwoKeys
    Key <- DistinctKeys
    MaxVersion = 2
    MaxConfig = 2
    MaxFaults = 2
    MaxEdits = 2
INVARIANTS ReportedIsIndexed CompletedServesOnlySelection 
PROPERTIES IndexConverges 
CHECK_DEADLOCK FALSE
