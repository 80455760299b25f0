CONSTANTS
    Devices = {d1, d2}
    Streams = {s1, s2}
    Addresses = {a0, a1, a2, a3}
    ServerIP = a0
    Movable = {d1}
    None = None
    Adapter = Adapter
SPECIFICATION FairSpec
INVARIANTS RoutesLeadToSessions NoOrphanSession PresenceExact SessionsReachable
PROPERTIES OnlyOwnerGivesUpSession RevocationTakesEffect
