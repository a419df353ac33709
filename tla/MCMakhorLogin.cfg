CONSTANTS
    Users = {u1, u2}
    Emails = {e1, e2, e3}
    Tokens = {t1}
    ChangeTokens = {c1, c2}
    Sids = {s1, s2}
    Reqs = {r1, r2}
    None = None
    LoginTokenExpiry = 1
    EmailChangeTokenExpiry = 1
    ZoneOffset <- MCZoneOffset
    MaxRequestTime = 1
    MaxTime = 2
    IPs = {e1, e2, e3}
    Limit = 2
    Window = 2
    MaxTrackedIPs = 2
    MaxClock = 5
SPECIFICATION LoginSpec
SYMMETRY MCSymmetry
INVARIANTS
    LinksSafe
    LimiterHolds
