SPECIFICATION FairSpec
CONSTANTS
    j1 = j1
    j2 = j2
    d1 = d1
    d2 = d2
    h1 = h1
    h2 = h2
    Jobs <- OneJob
    Datasources <- TwoDatasources
    Linked <- OneKb
    Handlers <- TwoHandlers
    MaxFaults = 2
    MaxSyncs = 2
PROPERTIES ParkedIsFired
CHECK_DEADLOCK FALSE
