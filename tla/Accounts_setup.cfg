SPECIFICATION AccountsSpec
CONSTANTS
    Users = {u1, u2, u3}
    Bound = {}
    Sessions = {s1, s2}
    Logins = {l1, l2}
    AdminRequests = {r1, r2}
    MaxResets = 0
    Nobody = Nobody
INVARIANT SetupOnce
