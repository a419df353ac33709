CONSTANTS
    u1 = u1
    u2 = u2
    Users = {u1, u2}
    NoUser = NoUser
    Inviter <- MCInviter
    Operated = {u1}
    Sids = {s1, s2}
    NoSid = NoSid
    Reqs = {r1, r2}
    SessionExpiry = 1
    SessionCacheTTL = 1
    ZoneOffset = 0
    MaxRequestTime = 1
    MaxTime = 3
SPECIFICATION SessionsSpec
SYMMETRY MCSymmetry
INVARIANTS
    RightsExpire
    RightAccount
