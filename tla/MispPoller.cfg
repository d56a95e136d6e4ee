CONSTANTS
    MaxTime = 2
    QueueCap = 1
    Event = {1, 2, 9}
    MispId = {1, 2}
    Source = {"misp"}
    PageSize = 1
    MaxPages = 1
    ColdWindow = 2
    ByTime = TRUE
    Quiet = TRUE
    DbFaults = TRUE
SPECIFICATION PollerSpec
INVARIANTS PollerTypeOK NothingSkipped
PROPERTY CursorKept
