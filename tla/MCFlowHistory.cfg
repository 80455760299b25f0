SPECIFICATION Spec
CONSTANTS
    p2 = p2
    Keys = {k1, k2}
    Patches = {p1, p2}
    Limits = {1, 2}
    Window = 2
    MaxTracked = 1
    MaxSecond = 2
    MaxPackets = 1
    None = None
SYMMETRY Symmetry
CONSTRAINT OverlapBound
INVARIANTS KeyCountsExact ExactlyOnce NothingFromDisabledSeconds SettingsAgree
PROPERTY OldestGoFirst
