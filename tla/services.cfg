SPECIFICATION ServicesSpec
CONSTANTS
    m1 = m1
    m2 = m2
    m3 = m3
    NoOne = NoOne
    Member = {0, 5}
    Type = {node}
    NanosPerSecond = 16
    Instants <- MCInstants
    Installs = TRUE
    MaxHanded = 2
    MaxFailures = 1
    MaxRestarts = 2
INVARIANTS
    ServicesTypeOK
    CursorsUnique
    TransferIsSound
    LogStandsForHistory
PROPERTIES
    ReadsAreLinearizable
    FollowerNeverGoesBack
CHECK_DEADLOCK FALSE
