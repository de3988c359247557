SPECIFICATION StableSpec
CONSTANTS
    a = a
    b = b
    c = c
    Member = {a, b, c}
    None = None
    MaxEntries = 1
    MaxTerm = 1
    MaxLog = 4
    MaxInFlight = 0
    Candidates = {}
    Restarting = {b}
    MaxIncarnation = 2
    MaxForgotten = 1
    MaxResends = 0
    MaxDrops = 2
    MaxSaveFailures = 0
PROPERTIES
    CatchingUpNeverCounted
CHECK_DEADLOCK FALSE
