SPECIFICATION NodesSpec
CONSTANTS
    Root = root
    Child = {c, d}
    Task = {t, u}
    Outsider = {main}
    None = None
    MayCloseInside = FALSE
    MayWatch = FALSE
    Fatal = {}
    Recoverable = {e}
    Unrecoverable = f
INVARIANTS
    NodesTypeOK
    GroupsAreClosed
    ActivationsAreKept
    StatusIsTrue
    CycleRegistersAll
    FollowersAreFilled
    ReservationsAreKept
PROPERTIES
    TimersKeepPromises
CHECK_DEADLOCK FALSE
