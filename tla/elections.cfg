SPECIFICATION Spec
CONSTANTS
    a = a
    b = b
    c = c
    Member = {a, b, c}
    None = None
    MaxEntries = 2
    MaxTerm = 1
    MaxLog = 0
    MaxInFlight = 1
    Candidates = {a, b}
    Restarting = {c}
    MaxIncarnation = 2
    MaxForgotten = 1
    MaxResends = 0
    MaxDrops = 0
    MaxSaveFailures = 1
INVARIANTS
    TypeOK
    ElectionSafety
    VoteIsDurable
PROPERTIES
    VoteOnce
    ImplementsBallot
SYMMETRY CandidateSymmetry
CHECK_DEADLOCK FALSE
