SPECIFICATION EstablishedSpec
CONSTANTS
    a = a
    b = b
    c = c
    Member = {a, b, c}
    None = None
    MaxEntries = 2
    MaxTerm = 2
    MaxLog = 3
    MaxInFlight = 1
    Candidates = {c}
    Restarting = {}
    MaxIncarnation = 1
    MaxForgotten = 0
    MaxResends = 0
    MaxDrops = 0
    MaxSaveFailures = 0
INVARIANTS
    LogMatching
    LeaderCompleteness
PROPERTIES
    CommittedStays
CHECK_DEADLOCK FALSE
