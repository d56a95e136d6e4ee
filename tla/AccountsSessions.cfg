CONSTANTS
    root = root
    ann = ann
    ip = ip
    r1 = r1
    r2 = r2
    User <- MCUser
    DefaultUser = root
    Password <- MCPassword
    NoPassword = nopw
    p1 = p1
    p2 = p2
    Token = {1}
    Request <- MCRequest
    Ip = ip
    Key <- MCKey
    Limit <- MCLimit
    Window = 2
    ApiKey = TRUE
    DbFaults = FALSE
SPECIFICATION AccountsSpec
SYMMETRY Symmetry
INVARIANT SessionsEndWithPassword

