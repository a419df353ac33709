CONSTANTS
    Names = {n1, n2, n3}
    Emails = {e1, e2, e3}
    Codes = {c1, c2}
    Reqs = {r1, r2}
    None = None
    PendingLimit = 2
    MaxUsers = 3
SPECIFICATION Spec
SYMMETRY MCSymmetry
INVARIANT
    OneUserPerInvite
