CONSTANTS
    h1 = h1
    h2 = h2
    e1 = e1
    e2 = e2
    Hash <- MCHash
    Event <- MCEvent
    EventOf <- MCEventOf
    TTL = 2
    MaxTime = 5
    AckStatus = {"false_pos", "new", "closed"}
SPECIFICATION StoreSpec
INVARIANTS StoreTypeOK RowHasHash
PROPERTY OneRowPerTtl
