CONSTANTS
    Devices = {d1, d2}
    Streams = {s1, s2, s3}
    Addresses = {a0, a1, a2}
    ServerIP = a0
    Movable = {d1, d2}
    None = None
    Adapter = Adapter
SYMMETRY StreamSymmetry
SPECIFICATION Spec
INVARIANTS SettledSessionsReachable
