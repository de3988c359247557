SPECIFICATION BackendSpec
CONSTANTS
    Members = {m1, m2}
    Node = node
    Device = device
    Leaves = {sender}
    Sender = sender
    Requests <- AnyRequest
    Slots = {s1, s2}
    OneSlot = s0
    FastPath = TRUE
    MaxVersion = 2
    MaxRequests = 4
    MaxLeases = 2
    MaxExpiries = 1
    MaxFaults = 1
    MayCompact = TRUE
SYMMETRY SlotSymmetry
INVARIANTS
    StoresAreReplicas
    RefusalsAreTrue
CHECK_DEADLOCK FALSE
