CONSTANTS
    c1 = c1
    warned = warned
    httpd = httpd
    postgres = postgres
    web = web
    db = db
    None = None
    Cve <- MCCve
    WarnedCve <- MCWarned
    App <- MCApp
    Product <- MCProduct
    Alike <- MCAlike
    Tag <- MCTag
    Sectoral = {"nis2:energy"}
    Phishing = {"phishing"}
    Matchers = {"CVEMatcher", "SectorMatcher", "KEVMatcher"}
    Inventory <- MCInventory
    AttributeChoice <- MCOther
    MaxTags = 2
    MaxAttributes = 2
    MaxEdits = 1
    ExportFloor = "medium"
SPECIFICATION AssessmentSpec
INVARIANTS AlertHasReason
