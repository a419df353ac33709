CONSTANTS
    Names = {n1, n2, n3}
    Emails = {e1, e2, e3}
    Codes = {c1, c2, c3}
    Reqs = {r1, r2}
    None = None
    PendingLimit = 1
    MaxUsers = 3
SPECIFICATION Spec
SYMMETRY MCSymmetry
INVARIANTS
    AccountsConsistent
    PendingBounded
PROPERTY
    UsedInviteIsFinal
