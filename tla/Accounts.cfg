SPECIFICATION Spec
SYMMETRY Symmetry
CONSTANTS
    Users = {u1, u2}
    Browsers = {b1, b2}
    Requests = {r1, r2}
    Passwords = {p1, p2}
    Blank = Blank
    Values = {v1, v2}
    Nobody = Nobody
    Keep = Keep
    None = None
    Never = Never
    Deleted = Deleted
    MaxRequests = 4
    MaxFaults = 1
INVARIANTS OneSettings
PROPERTIES PasswordsAsAsked DeletedUsersStay SessionsFollowLogins
CHECK_DEADLOCK FALSE
