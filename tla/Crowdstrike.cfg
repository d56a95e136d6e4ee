CONSTANTS
    ip1 = ip1
    ip2 = ip2
    domain = domain
    Rejected = Rejected
    Ioc <- MCIoc
    Spelling <- MCSpelling
    Clean <- MCClean
    PendingLimit = 2
    SentLimit = 1
SPECIFICATION FairCrowdstrikeSpec
INVARIANTS CrowdstrikeTypeOK NeverResent SentWasDelivered
PROPERTY Exported
CHECK_DEADLOCK FALSE
