SPECIFICATION RegistrySpec
CONSTANTS
    m1 = m1
    m2 = m2
    m3 = m3
    a = a
    b = b
    c1 = c1
    c2 = c2
    Ids = {1, 2, 3}
    Depth = 2
    Replicated = FALSE
    GcInterval = 0
    ForgetInterval = 0
    MaxVersion = 0
    MaxCursor = 3
    MaxNow = 1
    None = None
INVARIANTS
    RegistryTypeOK
    TreeIsSound
    NotFoundIsTrue
    NothingIsLost
    PagesAreWhole
    CallsAreAnswered
PROPERTIES
    StoreTellsTheChange
    ReadsItsWrites
CHECK_DEADLOCK FALSE
