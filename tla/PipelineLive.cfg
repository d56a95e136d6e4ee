CONSTANTS
    plain = plain
    changed = changed
    Hash <- MCHash
    EventOf <- MCEventOf
    CveOf <- MCCveOf
    DedupKey <- MCDedupKey
    Event = {1, 9}
    MispId = {1}
    KevId = {9}
    Relevant = {1}
    Source = {"misp"}
    MaxTime = 0
    TTL = 1
    QueueCap = 1
    AckStatus = {"acked"}
    PageSize = 2
    MaxPages = 1
    ColdWindow = 2
    ByTime = TRUE
    Quiet = TRUE
    DbFaults = FALSE
SPECIFICATION FairSpec

INVARIANT TypeOK
PROPERTY BlockedSendReleased
