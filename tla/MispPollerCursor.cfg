CONSTANTS
    MaxTime = 3
    QueueCap = 1
    Event = {1, 2, 9}
    MispId = {1, 2}
    Source = {"misp"}
    PageSize = 1
    MaxPages = 1
    ColdWindow = 3
    ByTime = TRUE
    Quiet = FALSE
    DbFaults = FALSE
SPECIFICATION PollerSpec
INVARIANT NothingSkipped
