CONSTANTS
    d1 = d1
    d2 = d2
    p1 = p1
    p2 = p2
    p3 = p3
    Devices = {d1, d2}
    Server = Server
    Endpoints = {p1, p2, p3}
    Home <- MCHome
    Traffic <- MCTraffic
    Keepalive = Keepalive
    None = None
    MaxGen <- MCMaxGen
    MaxPackets = 3
SPECIFICATION Spec
INVARIANT DeliveredAsAddressed
PROPERTIES DeliveredAtMostOnce EndpointFollowsFreshPackets
