CONSTANTS
    ip1 = ip1
    ip2 = ip2
    domain = domain
    Rejected = Rejected
    Ioc <- MCIoc
    Spelling <- MCSpelling
    Clean <- MCClean
    PendingLimit = 1
    SentLimit = 2
SPECIFICATION CrowdstrikeSpec
INVARIANT KeysAreInFlight
CHECK_DEADLOCK FALSE
