CONSTANTS
    plain = plain
    changed = changed
    Hash <- MCHash
    EventOf <- MCEventOf
    CveOf <- MCCveOf
    DedupKey <- MCDedupKey
    Event = {1}
    MispId = {1}
    KevId = {}
    Relevant = {1}
    Source = {"misp"}
    MaxTime = 1
    TTL = 1
    QueueCap = 2
    AckStatus = {"new"}
    PageSize = 2
    MaxPages = 1
    ColdWindow = 2
    ByTime = TRUE
    Quiet = TRUE
    DbFaults = FALSE
SPECIFICATION Spec
INVARIANTS VersionsInOrder SuppressionSticks
PROPERTIES PollerSpec StoreSpec
