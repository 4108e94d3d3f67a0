CONSTANTS
    u1 = u1
    u2 = u2
    q1 = q1
    q2 = q2
    Users <- MCUsers
    NoUser = NoUser
    Tokens = {1, 2, 3}
    NoToken = NoToken
    b1 = b1
    b2 = b2
    Browsers <- MCBrowsers
    NoBrowser = NoBrowser
    Requests <- MCRequests
    NewRoles = {"viewer"}
    Mortal = {1}
    MaxPassword = 2
    Faults = TRUE
SYMMETRY MCSymmetry
SPECIFICATION Spec
INVARIANTS OneOwner PasswordChangeEndsSessions  
CHECK_DEADLOCK FALSE
