SPECIFICATION EstablishedSpec
CONSTANTS
    a = a
    b = b
    c = c
    Member = {a, b, c}
    None = None
    MaxEntries = 2
    MaxTerm = 2
    MaxLog = 2
    MaxInFlight = 0
    Candidates = {c}
    Restarting = {a, b}
    MaxIncarnation = 2
    MaxForgotten = 2
    MaxResends = 0
    MaxDrops = 0
    MaxSaveFailures = 0
INVARIANTS
    SurvivorsVeto
CHECK_DEADLOCK FALSE
