SPECIFICATION MCSpec
CONSTANTS
    d1 = d1  d2 = d2  d3 = d3  t1 = t1  t2 = t2  o1 = o1  o2 = o2
    Users = {u1, u2}
    Bound = {}
    Sessions = {s1, s2}
    Logins = {l1}
    AdminRequests = {r1, r2}
    MaxResets = 1
    Nobody = Nobody
    Ports = {p1, p2, p3}
    Intervals = {short, long}
    FileInterval = short
    Requests = {q1, q2}
    None = None
    Devices = {d1, d2, d3}
    Tokens = {t1, t2}
    Owners = {o1, o2}
    Owner <- MCOwner
    MaxUses <- MCMaxUses
    NetworkIP = 9
    NetSize = 6
    ConfiguredIP = 9
    ServerIP = 10
    OctetSize = 3
    MaxScan = 20
    Unset = Unset
SYMMETRY Symmetry
CHECK_DEADLOCK FALSE
INVARIANTS OneSetupAccount SessionsHaveUsers ResetSparesLoginsUnderWay
           FileLoadable PortsShownAreSaved PingSurvivesRestart
           UniqueAddresses TokenLimit DevicesHaveOwners AddressesLegal ExhaustedMeansFull
PROPERTIES AdminRemains OverridesNotSaved
