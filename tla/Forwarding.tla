----------------------------- MODULE Forwarding -----------------------------
(***************************************************************************)
(* The path of an IPv4 packet: a client's adapter, its data plane          *)
(* (internal/dataplane/client.go), the datagram network, readUDP and the   *)
(* router of the server (internal/dataplane/server.go,                     *)
(* internal/routing/router.go), and down again to another client or to the *)
(* server's own adapter.                                                   *)
(*                                                                         *)
(* Sessions are <<d, g>>: the g-th session of device d.  An address is     *)
(* named by the device that holds it; addresses that move are the subject  *)
(* of DataPlane.tla.  A packet is known by its position in log, the        *)
(* history of everything that was read from an adapter or made as a        *)
(* keepalive.  The network may lose, delay, reorder and repeat datagrams:  *)
(* any entry of a log may arrive at any time, any number of times.  Fewer  *)
(* packets than the replay window is wide are sent, so Cipher.Open refuses *)
(* exactly repeated and damaged ones; ReplayWindow.tla has the window.     *)
(* A datagram that readUDP drops because its source is blocked is a lost   *)
(* one; Intake.tla has the limiter.                                        *)
(*                                                                         *)
(* Definitions named Mutant... are plausible defects of the definition     *)
(* that follows them.                                                      *)
(***************************************************************************)
EXTENDS Naturals, Sequences, FiniteSets

CONSTANTS Devices,       \* enrolled devices, and the addresses they hold
          Server,        \* the server's own tunnel address
          Endpoints,     \* public UDP endpoints: IP address and port
          Home,          \* the endpoints each device may be seen at
          Traffic,       \* packets the adapters emit: [by, src, dst]
          Keepalive,     \* the body of a keepalive
          None,          \* no endpoint, no session, no datagram
          MaxGen,        \* bound on the sessions of each device
          MaxPackets     \* bound on the packets that enter the system

ASSUME ServerAssumption == Server \notin Devices
ASSUME MaxGenAssumption == MaxGen \in [Devices -> Nat]
ASSUME MaxPacketsAssumption == MaxPackets \in Nat

\* Every packet is for one of the addresses; what the server's host sends to
\* its own address stays on the host.
ASSUME TrafficAssumption ==
    /\ Traffic \subseteq [by : Devices \cup {Server}, src : Devices \cup {Server},
                          dst : Devices \cup {Server}]
    /\ \A t \in Traffic : [src |-> t.src, dst |-> t.dst] # Keepalive
    /\ \A t \in Traffic : t.by = Server => t.dst # Server

Generations == UNION {1..MaxGen[d] : d \in Devices}
Sessions == {s \in Devices \X Generations : s[2] <= MaxGen[s[1]]}

VARIABLES registered,    \* byDevice: the generation of the session, 0 for none
          created,       \* sessions registered so far, per device
          expired,       \* sessions whose expiresAt has passed
          address,       \* serverSession.address
          opened,        \* packets that the server's ciphers have opened
          reader,        \* the datagram readUDP has looked a session up for
          configured,    \* dataplane.Client.session, 0 for nil
          location,      \* the endpoint the network shows for a device
          log,           \* packets that entered: [by, gen, from, body]
          down,          \* datagrams sent by the server: [to, gen, at, packet]
          taken,         \* of down: opened by the cipher of the client
          delivered      \* how often each packet was written to an adapter

sessionVars == <<registered, created, expired>>
clientVars == <<configured, location>>
networkVars == <<log, down>>
deliveredVars == <<taken, delivered>>
vars == <<sessionVars, address, opened, reader, clientVars, networkVars,
          deliveredVars>>

\* Packets that enter the system, and datagrams of the server.
Packets == [by : Devices \cup {Server}, gen : Nat, from : Endpoints \cup {None},
            body : [src : Devices \cup {Server}, dst : Devices \cup {Server}]
                   \cup {Keepalive}]
Datagrams == [to : Devices, gen : Nat, at : Endpoints, packet : 1..MaxPackets]

TypeOK ==
    /\ registered \in [Devices -> Nat]
    /\ created \in [Devices -> Nat]
    /\ configured \in [Devices -> Nat]
    /\ \A d \in Devices : registered[d] <= created[d] /\ created[d] <= MaxGen[d]
    /\ expired \subseteq Sessions
    /\ address \in [Sessions -> Endpoints \cup {None}]
    /\ location \in [Devices -> Endpoints]
    /\ log \in Seq(Packets) /\ Len(log) <= MaxPackets
    /\ down \in Seq(Datagrams)
    /\ opened \subseteq DOMAIN log
    /\ taken \subseteq DOMAIN down
    /\ delivered \in [1..MaxPackets -> Nat]

Init ==
    /\ registered = [d \in Devices |-> 0]
    /\ created = [d \in Devices |-> 0]
    /\ expired = {}
    /\ address = [s \in Sessions |-> None]
    /\ opened = {}
    /\ reader = None
    /\ configured = [d \in Devices |-> 0]
    /\ location \in [Devices -> Endpoints]
    /\ \A d \in Devices : location[d] \in Home[d]
    /\ log = <<>>
    /\ down = <<>>
    /\ taken = {}
    /\ delivered = [i \in 1..MaxPackets |-> 0]

-----------------------------------------------------------------------------
(* Sessions come and go with the control streams.                          *)

\* Server.Register: the new session replaces the device's old one; its
\* endpoint is unknown.
Register(d) ==
    /\ created[d] < MaxGen[d]
    /\ created' = [created EXCEPT ![d] = @ + 1]
    /\ registered' = [registered EXCEPT ![d] = created[d] + 1]
    /\ UNCHANGED <<expired, address, opened, reader, clientVars, networkVars,
                   deliveredVars>>

\* Server.Remove when the stream of the current session ends.
Remove(d) ==
    /\ registered[d] # 0
    /\ registered' = [registered EXCEPT ![d] = 0]
    /\ UNCHANGED <<created, expired, address, opened, reader, clientVars,
                   networkVars, deliveredVars>>

\* The 15 minutes of a session are over.
Expire(d) ==
    /\ registered[d] # 0
    /\ expired' = expired \cup {<<d, registered[d]>>}
    /\ UNCHANGED <<registered, created, address, opened, reader, clientVars,
                   networkVars, deliveredVars>>

-----------------------------------------------------------------------------
(* The client's data plane.                                                *)

\* The packet of an item of Traffic, without its sender.
BodyOf(t) == [src |-> t.src, dst |-> t.dst]

\* A packet enters the system; one beyond the bound is lost.
Logged(by, gen, from, body) ==
    IF Len(log) < MaxPackets
    THEN Append(log, [by |-> by, gen |-> gen, from |-> from, body |-> body])
    ELSE log

\* Client.send with the session the client has.
Send(d, gen, body) == Logged(d, gen, location[d], body)

\* Client.Configure: a newer bootstrap that has not expired is used from now
\* on, and a keepalive tells the server where the client is.
Configure(d, g) ==
    /\ g \in (configured[d] + 1)..created[d]
    /\ <<d, g>> \notin expired
    /\ configured' = [configured EXCEPT ![d] = g]
    /\ log' = Send(d, g, Keepalive)
    /\ UNCHANGED <<sessionVars, address, opened, reader, location, down,
                   deliveredVars>>

\* Client.readAdapter and Client.keepalive: a packet of the adapter, or a
\* keepalive, goes out in the current session; the client does not look at
\* the addresses in it.
Emit(d, body) ==
    /\ configured[d] # 0
    /\ <<d, configured[d]>> \notin expired
    /\ Len(log) < MaxPackets
    /\ log' = Send(d, configured[d], body)
    /\ UNCHANGED <<sessionVars, address, opened, reader, clientVars, down,
                   deliveredVars>>

\* The network or a NAT gives the client another public endpoint.
Roam(d, e) ==
    /\ e \in Home[d] \ {location[d]}
    /\ location' = [location EXCEPT ![d] = e]
    /\ UNCHANGED <<sessionVars, address, opened, reader, configured,
                   networkVars, deliveredVars>>

\* Client.readUDP: the datagram is of the session the client uses now, its
\* sequence number is new and the packet is for the client's own address.
Opens(k) ==
    /\ k \notin taken
    /\ down[k].gen = configured[down[k].to]
    /\ log[down[k].packet].body.dst = down[k].to

\* A datagram of the server reaches the endpoint it was sent to while the
\* client is there, and its packet is written to the adapter.
Receive(k) ==
    /\ location[down[k].to] = down[k].at
    /\ Opens(k)
    /\ taken' = taken \cup {k}
    /\ delivered' = [delivered EXCEPT ![down[k].packet] = @ + 1]
    /\ UNCHANGED <<sessionVars, address, opened, reader, clientVars,
                   networkVars>>

-----------------------------------------------------------------------------
(* The server's data plane.                                                *)

\* What the lookup in readUDP finds: the session is registered and alive.
Known(d, g) == registered[d] = g /\ <<d, g>> \notin expired

\* readUDP takes an intact datagram, or a repetition of it, from the network.
\* One without a known session, like one that cannot be parsed, is dropped.
ReadDatagram(i) ==
    LET p == log[i]
    IN  /\ reader = None
        /\ p.by # Server
        /\ Known(p.by, p.gen)
        /\ reader' = [session |-> <<p.by, p.gen>>, from |-> p.from,
                      packet |-> i]
        /\ UNCHANGED <<sessionVars, address, opened, clientVars, networkVars,
                       deliveredVars>>

\* Mutant: a repeated datagram is opened again.
MutantOpensAgain(i) == TRUE

\* openPacket refuses a packet that the session's cipher has seen.
Fresh(i) == i \notin opened

\* Mutant: the endpoint is set before the datagram is opened.
MutantAddressFirst(r, authentic) == [address EXCEPT ![r.session] = r.from]

\* The endpoint of a session follows the datagrams that its cipher opened.
AddressAfter(r, authentic) ==
    IF authentic THEN [address EXCEPT ![r.session] = r.from] ELSE address

\* readUDP drops a datagram that was repeated, or damaged on the way.
OpenFails ==
    /\ reader # None
    /\ address' = AddressAfter(reader, FALSE)
    /\ reader' = None
    /\ UNCHANGED <<sessionVars, opened, clientVars, networkVars,
                   deliveredVars>>

\* Mutant: any source address is routed.
MutantAnySource(by, body) == TRUE

\* Router.Route compares the packet's source with the assigned address.
SourceAllowed(by, body) == body.src = by

\* serverSession.Send to the session registered for the destination, if its
\* endpoint is known; the packet is lost otherwise.  The peer is looked up
\* under the router's lock and used after it; since a session's endpoint
\* does not depend on its registration, the two are one step.
SentDown(i, dst, addr) ==
    LET s == <<dst, registered[dst]>>
    IN  IF registered[dst] # 0 /\ addr[s] # None
        THEN Append(down, [to |-> dst, gen |-> registered[dst],
                           at |-> addr[s], packet |-> i])
        ELSE down

\* Router.Route of packet i with this body from the holder of address by.
Route(i, by, body, addr) ==
    IF ~SourceAllowed(by, body)
    THEN UNCHANGED <<down, delivered>>
    ELSE IF body.dst = Server
         THEN delivered' = [delivered EXCEPT ![i] = @ + 1] /\ UNCHANGED down
         ELSE down' = SentDown(i, body.dst, addr) /\ UNCHANGED delivered

\* readUDP goes on with a datagram whose packet the cipher opens: the
\* endpoint moves, a data packet is routed.
HandlePacket ==
    /\ reader # None
    /\ Fresh(reader.packet)
    /\ opened' = opened \cup {reader.packet}
    /\ address' = AddressAfter(reader, TRUE)
    /\ LET p == log[reader.packet]
       IN  IF p.body = Keepalive THEN UNCHANGED <<down, delivered>>
           ELSE Route(reader.packet, p.by, p.body, address')
    /\ reader' = None
    /\ UNCHANGED <<sessionVars, clientVars, log, taken>>

\* Server.readAdapter: the host of the server sends a packet.
ReadAdapter(body) ==
    /\ Len(log) < MaxPackets
    /\ log' = Logged(Server, 0, None, body)
    /\ Route(Len(log) + 1, Server, body, address)
    /\ UNCHANGED <<sessionVars, address, opened, reader, clientVars, taken>>

ServerStep ==
    \/ \E i \in DOMAIN log : ReadDatagram(i)
    \/ OpenFails
    \/ HandlePacket
    \/ \E t \in Traffic : t.by = Server /\ ReadAdapter(BodyOf(t))

ClientStep(d) ==
    \/ \E g \in Generations : Configure(d, g)
    \/ \E t \in Traffic : t.by = d /\ Emit(d, BodyOf(t))
    \/ Emit(d, Keepalive)
    \/ \E e \in Endpoints : Roam(d, e)

Next ==
    \/ \E d \in Devices : Register(d) \/ Remove(d) \/ Expire(d)
    \/ \E d \in Devices : ClientStep(d)
    \/ \E k \in DOMAIN down : Receive(k)
    \/ ServerStep

Spec == Init /\ [][Next]_vars

-----------------------------------------------------------------------------
(* Properties.                                                             *)

\* From adapter to adapter, through two ciphers with windows of their own and
\* a router between them, a packet arrives at most once, although both ways
\* repeat and reorder datagrams and sessions are replaced in the middle.
EndToEnd == INSTANCE AtMostOnceChannel
            WITH MaxSeq <- MaxPackets,
                 sent <- Len(log),
                 deliveries <- delivered
DeliveredAtMostOnce == EndToEnd!Spec

\* A packet that reaches an adapter reaches the one of its destination
\* address and carries the address of the device that sent it, whatever its
\* sender wrote into it.
DeliveredAsAddressed ==
    /\ \A i \in DOMAIN log : delivered[i] > 0 =>
          /\ log[i].body # Keepalive
          /\ log[i].body.src = log[i].by
    /\ \A k \in taken : log[down[k].packet].body.dst = down[k].to

\* The endpoint of a session moves only to where its own client sent a packet
\* from, and only the first time that packet arrives: neither damaged nor
\* repeated datagrams divert the traffic of a session.
EndpointStep ==
    \A s \in Sessions : address'[s] # address[s] =>
        \E i \in opened' \ opened :
            /\ <<log[i].by, log[i].gen>> = s
            /\ log[i].from = address'[s]

EndpointFollowsFreshPackets == [][EndpointStep]_vars
=============================================================================
