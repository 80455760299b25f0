------------------------------ MODULE DataPlane ------------------------------
(***************************************************************************)
(* The life of data-plane sessions on the server: the control-stream       *)
(* handler deviceConnect (internal/control/server.go), the session         *)
(* registry and the router it drives (internal/dataplane/server.go,        *)
(* internal/routing/router.go), the presence counter, and the device rows  *)
(* an administrator changes meanwhile (internal/storage/store.go).         *)
(*                                                                         *)
(* Every request to /control/v1/connect runs in a goroutine of its own.    *)
(* A Stream is such a handler together with the random session ID it       *)
(* registers; a finished handler's name is used again only when nothing    *)
(* refers to it, which is what a fresh random 64-bit ID amounts to.  The   *)
(* handlers interleave at the points where they release a mutex or wait    *)
(* for the database.                                                       *)
(*                                                                         *)
(* The challenge proof is abstracted to "the device is enrolled and not    *)
(* revoked when DevicePublicKey is read"; CommandDelivery.tla models the   *)
(* challenges.  Definitions named Mutant... are plausible defects of the   *)
(* definition that follows them.                                           *)
(***************************************************************************)
EXTENDS Naturals, FiniteSets

CONSTANTS Devices,       \* enrolled devices
          Streams,       \* control-stream handlers and their session IDs
          Addresses,     \* virtual IPv4 addresses a device may hold
          ServerIP,      \* the server's own tunnel address
          Movable,       \* devices an administrator gives other addresses
          None,          \* a map without an entry
          Adapter        \* the router's peer for ServerIP

ASSUME ServerIPAssumption == ServerIP \in Addresses
ASSUME NoneAssumption == None \notin Streams \cup Devices \cup Addresses
ASSUME AdapterAssumption == Adapter \notin Streams /\ Adapter # None
ASSUME MovableAssumption == Movable \subseteq Devices

VARIABLES virtualIP,     \* devices.virtual_ip (UNIQUE)
          revoked,       \* devices with devices.revoked = 1
          pc,            \* where each deviceConnect handler stands
          device,        \* in.DeviceID of the handler
          ip,            \* device.VirtualIP as the handler read it
          secure,        \* handlers that have a data-plane bootstrap
          expired,       \* handlers whose bootstrap.ExpiresAt has passed
          sessions,      \* dataplane.Server.sessions, as a set of IDs
          byDevice,      \* dataplane.Server.byDevice
          peers,         \* routing.Router.peers
          connections    \* control.Server.connections

storeVars == <<virtualIP, revoked>>
handlerVars == <<pc, device, ip, secure, expired>>
registryVars == <<sessions, byDevice, peers>>
vars == <<storeVars, handlerVars, registryVars, connections>>

Locations == {"free", "verified", "loaded", "registered",
              "open", "closing", "removing"}

TypeOK ==
    /\ virtualIP \in [Devices -> Addresses]
    /\ revoked \in SUBSET Devices
    /\ pc \in [Streams -> Locations]
    /\ device \in [Streams -> Devices \cup {None}]
    /\ ip \in [Streams -> Addresses \cup {None}]
    /\ secure \in SUBSET Streams
    /\ expired \in SUBSET Streams
    /\ sessions \in SUBSET Streams
    /\ byDevice \in [Devices -> Streams \cup {None}]
    /\ peers \in [Addresses -> Streams \cup {None, Adapter}]
    /\ connections \in [Devices -> Nat]

(* Enrolled devices have distinct addresses.  One of them may hold the     *)
(* server's address: nextIP can hand it out when it is not network + 1.    *)
Init ==
    /\ virtualIP \in [Devices -> Addresses]
    /\ \A d, e \in Devices : d # e => virtualIP[d] # virtualIP[e]
    /\ revoked = {}
    /\ pc = [s \in Streams |-> "free"]
    /\ device = [s \in Streams |-> None]
    /\ ip = [s \in Streams |-> None]
    /\ secure = {}
    /\ expired = {}
    /\ sessions = {}
    /\ byDevice = [d \in Devices |-> None]
    /\ peers = [a \in Addresses |-> IF a = ServerIP THEN Adapter ELSE None]
    /\ connections = [d \in Devices |-> 0]

Goto(s, l) == pc' = [pc EXCEPT ![s] = l]

\* The handler returns; its local variables are gone.
Return(s) ==
    /\ Goto(s, "free")
    /\ device' = [device EXCEPT ![s] = None]
    /\ ip' = [ip EXCEPT ![s] = None]
    /\ secure' = secure \ {s}
    /\ expired' = expired \ {s}

-----------------------------------------------------------------------------
(* The administrator: PATCH and DELETE /api/v1/devices/{id}.               *)

\* SetDeviceVirtualIP: refused for the server's address and, by the UNIQUE
\* column, for an address of another device.
SetDeviceVirtualIP(d, a) ==
    /\ d \in Movable
    /\ a # ServerIP
    /\ \A e \in Devices \ {d} : virtualIP[e] # a
    /\ virtualIP' = [virtualIP EXCEPT ![d] = a]
    /\ UNCHANGED <<revoked, handlerVars, registryVars, connections>>

\* RevokeDevice marks the row; open streams and sessions are not told.
RevokeDevice(d) ==
    /\ revoked' = revoked \cup {d}
    /\ UNCHANGED <<virtualIP, handlerVars, registryVars, connections>>

-----------------------------------------------------------------------------
(* deviceConnect, one action per step that other handlers can observe.     *)

\* Mutant: revocation is not looked at.
MutantVerifyRevoked(s, d) ==
    /\ pc[s] = "free"
    /\ device' = [device EXCEPT ![s] = d]
    /\ Goto(s, "verified")
    /\ UNCHANGED <<storeVars, ip, secure, expired, registryVars, connections>>

\* The proof is checked against the public key of a device that is not
\* revoked at that moment.
Verify(s, d) ==
    /\ pc[s] = "free"
    /\ d \notin revoked
    /\ device' = [device EXCEPT ![s] = d]
    /\ Goto(s, "verified")
    /\ UNCHANGED <<storeVars, ip, secure, expired, registryVars, connections>>

\* store.Device: the address is read once, revocation is not looked at.
LoadDevice(s) ==
    /\ pc[s] = "verified"
    /\ ip' = [ip EXCEPT ![s] = virtualIP[device[s]]]
    /\ Goto(s, "loaded")
    /\ UNCHANGED <<storeVars, device, secure, expired, registryVars, connections>>

\* The maps after the critical section of Register: the device's previous
\* session and the route of its address go, the new ones come.
RegisteredSessions(s) == (sessions \ {byDevice[device[s]]}) \cup {s}

\* Mutant: the new route is added first, the old one removed after it.
MutantPeersAddFirst(s) ==
    LET old == byDevice[device[s]]
        oldIP == IF old = None THEN None ELSE ip[old]
    IN [a \in Addresses |-> IF a = oldIP THEN None
                            ELSE IF a = ip[s] THEN s ELSE peers[a]]

RegisteredPeers(s) ==
    LET old == byDevice[device[s]]
        oldIP == IF old = None THEN None ELSE ip[old]
    IN [a \in Addresses |-> IF a = ip[s] THEN s
                            ELSE IF a = oldIP THEN None ELSE peers[a]]

\* dataplane.Server.Register for a request that came over HTTPS.
Register(s) ==
    /\ pc[s] = "loaded"
    /\ ip[s] # ServerIP
    /\ sessions' = RegisteredSessions(s)
    /\ byDevice' = [byDevice EXCEPT ![device[s]] = s]
    /\ peers' = RegisteredPeers(s)
    /\ secure' = secure \cup {s}
    /\ Goto(s, "registered")
    /\ UNCHANGED <<storeVars, device, ip, expired, connections>>

\* Register refuses the server's own address: the handler answers 500.
RegisterRefused(s) ==
    /\ pc[s] = "loaded"
    /\ ip[s] = ServerIP
    /\ Return(s)
    /\ UNCHANGED <<storeVars, registryVars, connections>>

\* store.Device or newBootstrap fails: the handler answers 500.
ConnectFailed(s) ==
    /\ pc[s] \in {"verified", "loaded"}
    /\ Return(s)
    /\ UNCHANGED <<storeVars, registryVars, connections>>

\* deviceConnected, then the connected event and the pending commands.
\* A request over plain HTTP comes here without a data-plane session.
Connected(s) ==
    /\ pc[s] \in {"loaded", "registered"}
    /\ connections' = [connections EXCEPT ![device[s]] = @ + 1]
    /\ Goto(s, "open")
    /\ UNCHANGED <<storeVars, device, ip, secure, expired, registryVars>>

\* The ping timer: the stream ends when the device's address has changed.
Ping(s) ==
    /\ pc[s] = "open"
    /\ virtualIP[device[s]] # ip[s]
    /\ Goto(s, "closing")
    /\ UNCHANGED <<storeVars, device, ip, secure, expired, registryVars, connections>>

\* Time passes the 15-minute life of the session.
Expire(s) ==
    /\ pc[s] \in {"registered", "open", "closing", "removing"}
    /\ s \in secure \ expired
    /\ expired' = expired \cup {s}
    /\ UNCHANGED <<storeVars, pc, device, ip, secure, registryVars, connections>>

\* The dataExpiry timer ends the stream.
DataExpiry(s) ==
    /\ pc[s] = "open"
    /\ s \in expired
    /\ Goto(s, "closing")
    /\ UNCHANGED <<storeVars, device, ip, secure, expired, registryVars, connections>>

\* The client is gone (r.Context().Done()) or a write or query failed.
StreamLost(s) ==
    /\ pc[s] = "open"
    /\ Goto(s, "closing")
    /\ UNCHANGED <<storeVars, device, ip, secure, expired, registryVars, connections>>

\* Mutant: the first of several streams of a device to end deletes the entry.
MutantDisconnectDeletes(s) == [connections EXCEPT ![device[s]] = 0]

\* deviceDisconnected: the last stream of the device deletes its entry.
ConnectionsWithout(s) ==
    [connections EXCEPT ![device[s]] = IF @ <= 1 THEN 0 ELSE @ - 1]

\* The deferred calls run last in, first out: deviceDisconnected, then Remove.
DeviceDisconnected(s) ==
    /\ pc[s] = "closing"
    /\ connections' = ConnectionsWithout(s)
    /\ IF s \in secure
       THEN Goto(s, "removing") /\ UNCHANGED <<device, ip, secure, expired>>
       ELSE Return(s)
    /\ UNCHANGED <<storeVars, registryVars>>

\* Mutant: the session of the device is removed without comparing its ID.
MutantOwnsAny(s) == byDevice[device[s]] # None

\* Mutant: the deferred Remove never runs.
MutantOwnsNone(s) == FALSE

\* Remove acts only when the device's current session is the handler's own.
OwnsCurrentSession(s) == byDevice[device[s]] = s

\* Mutant: the route stays when its session is removed.
MutantPeersUntouched(s) == peers

\* The router after router.Remove(session.assignedIP).
PeersWithout(s) == [peers EXCEPT ![ip[s]] = None]

\* dataplane.Server.Remove, the handler's last act.
Remove(s) ==
    /\ pc[s] = "removing"
    /\ IF OwnsCurrentSession(s)
       THEN /\ sessions' = sessions \ {byDevice[device[s]]}
            /\ byDevice' = [byDevice EXCEPT ![device[s]] = None]
            /\ peers' = PeersWithout(s)
       ELSE UNCHANGED registryVars
    /\ Return(s)
    /\ UNCHANGED <<storeVars, connections>>

HandlerStep(s) ==
    \/ LoadDevice(s) \/ Register(s) \/ RegisterRefused(s) \/ Connected(s)
    \/ Ping(s) \/ DataExpiry(s) \/ DeviceDisconnected(s) \/ Remove(s)

Next ==
    \/ \E d \in Devices, a \in Addresses : SetDeviceVirtualIP(d, a)
    \/ \E d \in Devices : RevokeDevice(d)
    \/ \E s \in Streams, d \in Devices : Verify(s, d)
    \/ \E s \in Streams : HandlerStep(s)
    \/ \E s \in Streams : ConnectFailed(s) \/ Expire(s) \/ StreamLost(s)

Spec == Init /\ [][Next]_vars

\* Go schedules every runnable goroutine and fires every timer: a handler
\* that can go on goes on, and the clock reaches every expiry.
Fairness == \A s \in Streams : WF_vars(HandlerStep(s)) /\ WF_vars(Expire(s))

FairSpec == Spec /\ Fairness

-----------------------------------------------------------------------------
(* Properties.                                                             *)

\* The two maps of the registry agree: a device has at most one session, it
\* is that device's, and every session in the map is its device's current
\* one, although several streams of one device open and close in any order.
RegistryConsistent ==
    /\ \A d \in Devices :
          byDevice[d] # None => /\ byDevice[d] \in sessions
                                /\ device[byDevice[d]] = d
    /\ \A s \in sessions : byDevice[device[s]] = s

\* A route always leads to a registered session that has exactly this
\* address; the server's address always leads to its adapter.
RoutesLeadToSessions ==
    /\ peers[ServerIP] = Adapter
    /\ \A a \in Addresses \ {ServerIP} :
          peers[a] # None => peers[a] \in sessions /\ ip[peers[a]] = a

\* Every registered session belongs to a handler that has still to run its
\* deferred Remove: no session outlives its control stream.
NoOrphanSession ==
    \A s \in sessions :
        s \in secure /\ pc[s] \in {"registered", "open", "closing", "removing"}

\* The presence counter of a device is the number of its open streams, so
\* the device is shown online exactly as long as one of them is open.
PresenceExact ==
    \A d \in Devices :
        connections[d] = Cardinality({s \in Streams :
            device[s] = d /\ pc[s] \in {"open", "closing"}})

\* A device's current session is given up only by its own handler's Remove or
\* for a newer registration of the same device; the late end of an older
\* stream never takes it.
GiveUpStep ==
    \A d \in Devices :
        LET cur == byDevice[d] IN
        (cur # None /\ byDevice'[d] # cur) =>
            \/ pc[cur] = "removing" /\ pc'[cur] = "free"
            \/ \E s \in Streams : /\ s # cur /\ device[s] = d
                                  /\ pc[s] = "loaded" /\ byDevice'[d] = s

OnlyOwnerGivesUpSession == [][GiveUpStep]_vars

\* Every registered session can be reached at its address, through reconnects
\* and changes of address.  Holds as long as one device at most changes its
\* address, so that none moves from one device to another.
SessionsReachable == \A s \in sessions : peers[ip[s]] = s

\* README.md: with the server reachable, traffic for a device's address
\* "crosses the central encrypted data plane".  When no handler works with an
\* address other than the one in its device's row, the route of an address
\* leads to the session of the device that has it.
SettledSessionsReachable ==
    (\A s \in Streams : ip[s] # None => ip[s] = virtualIP[device[s]])
        => SessionsReachable

\* A revoked device is cut off for good once its sessions have run out, also
\* when a handler had already verified it at the moment of the revocation.
RevocationTakesEffect ==
    \A d \in Devices :
        d \in revoked ~> [](\A s \in sessions : device[s] # d)
=============================================================================
