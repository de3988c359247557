SPECIFICATION Spec
CONSTANTS
    Leader = {m1}
    m1 = m1
    First = m1
    Chunks = 1
    MaxIndex = 2
    MaxTerm = 1
    MaxDrops = 1
    MaxRestarts = 0
INVARIANTS
    CreditIsHeld
CHECK_DEADLOCK FALSE
