SPECIFICATION StableSpec
CONSTANTS
    a = a
    b = b
    c = c
    Member = {a, b, c}
    None = None
    MaxEntries = 2
    MaxTerm = 1
    MaxLog = 3
    MaxInFlight = 0
    Candidates = {}
    Restarting = {b}
    MaxIncarnation = 2
    MaxForgotten = 1
    MaxResends = 1
    MaxDrops = 1
    MaxSaveFailures = 0
INVARIANTS
    MatchIsHeld
PROPERTIES
    Converges
CHECK_DEADLOCK FALSE
