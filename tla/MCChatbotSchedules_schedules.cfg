SPECIFICATION Spec
CONSTANTS
    Chatbots = {c1}
    Processes = {p1, p2}
    Period = 2
    None = None
    MaxTicks = 2
    MaxEdits = 2
    MaxDeaths = 1
INVARIANTS
    OneRunAtATime
    OnlyWantedRunsTrigger
PROPERTIES
    RegistriesSettle
CHECK_DEADLOCK FALSE
