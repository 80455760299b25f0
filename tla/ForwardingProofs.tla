-------------------------- MODULE ForwardingProofs --------------------------
(***************************************************************************)
(* Proofs about Forwarding for any number of devices, sessions, endpoints  *)
(* and packets.                                                            *)
(*                                                                         *)
(* That no packet is written to an adapter twice rests on the two ciphers  *)
(* together: the server's opens a packet once, so one packet becomes at    *)
(* most one datagram down, and the client's opens that datagram once.  The *)
(* inductive invariant therefore follows a packet along its path: what the *)
(* reader holds, what was sent down and what was delivered each have their *)
(* origin in the log, and no two datagrams down carry the same packet.     *)
(***************************************************************************)
EXTENDS Forwarding, TLAPS

\* The datagram readUDP works on is one that a client sent in that session.
ReaderInv ==
    reader # None =>
        /\ reader.packet \in DOMAIN log
        /\ log[reader.packet].by # Server
        /\ reader.session = <<log[reader.packet].by, log[reader.packet].gen>>
        /\ reader.from = log[reader.packet].from

\* Packet i was let through by the router.
Routed(i) ==
    /\ i \in DOMAIN log
    /\ log[i].body # Keepalive
    /\ log[i].body.src = log[i].by
    /\ i \in opened \/ log[i].by = Server

\* What is sent down was routed, and is not for the server itself.
DownInv ==
    \A k \in DOMAIN down : /\ Routed(down[k].packet)
                           /\ log[down[k].packet].body.dst # Server

\* No packet is sent down twice.
DownOnce ==
    \A j, k \in DOMAIN down : down[j].packet = down[k].packet => j = k

\* What was delivered was routed, and went to the server's adapter or was
\* taken by a client.
DeliveredInv ==
    \A i \in 1..MaxPackets : delivered[i] # 0 =>
        /\ Routed(i)
        /\ \/ log[i].body.dst = Server
           \/ \E k \in taken : down[k].packet = i

\* A client takes what is addressed to it.
TakenInv == \A k \in taken : log[down[k].packet].body.dst = down[k].to

PathInv == ReaderInv /\ DownInv /\ DownOnce /\ DeliveredInv /\ TakenInv

IInv == TypeOK /\ PathInv

pathVars == <<opened, reader, log, down, taken, delivered>>

\* Nothing has been sent yet.
LEMMA InitInv == Init => IInv
  BY MaxGenAssumption, MaxPacketsAssumption
  DEF Init, IInv, TypeOK, PathInv, ReaderInv, DownInv, DownOnce, DeliveredInv,
      TakenInv

\* A step that does not touch packets keeps them on their paths.
LEMMA PathUnchanged == ASSUME PathInv, UNCHANGED pathVars PROVE PathInv'
  BY DEF pathVars, PathInv, ReaderInv, Routed, DownInv, DownOnce, DeliveredInv,
     TakenInv

\* A packet that enters is the last of the log; the others stay in place.
LEMMA LogGrows ==
    ASSUME TypeOK, NEW by, NEW gen, NEW from, NEW body,
           [by |-> by, gen |-> gen, from |-> from, body |-> body] \in Packets,
           log' = Logged(by, gen, from, body)
    PROVE  /\ log' \in Seq(Packets) /\ Len(log') <= MaxPackets
           /\ DOMAIN log \subseteq DOMAIN log'
           /\ \A i \in DOMAIN log : log'[i] = log[i]
           /\ Len(log) < MaxPackets =>
                 /\ Len(log') = Len(log) + 1
                 /\ log'[Len(log) + 1] =
                       [by |-> by, gen |-> gen, from |-> from, body |-> body]
           /\ ~(Len(log) < MaxPackets) => log' = log
  <1> DEFINE p == [by |-> by, gen |-> gen, from |-> from, body |-> body]
  <1>1. p \in Packets /\ log \in Seq(Packets) /\ Len(log) <= MaxPackets
    BY DEF TypeOK
  <1>2. log' = IF Len(log) < MaxPackets THEN Append(log, p) ELSE log
    BY DEF Logged
  <1> HIDE DEF p
  <1>3. CASE Len(log) < MaxPackets
    <2>1. log' = Append(log, p)
      BY <1>2, <1>3
    <2>2. /\ log' \in Seq(Packets) /\ Len(log') = Len(log) + 1
          /\ log'[Len(log) + 1] = p
          /\ \A i \in 1..Len(log) : log'[i] = log[i]
      BY <1>1, <2>1
    <2> QED BY <1>1, <1>3, <2>2, MaxPacketsAssumption DEF p
  <1>4. CASE ~(Len(log) < MaxPackets)
    BY <1>1, <1>2, <1>4
  <1> QED BY <1>3, <1>4

\* A packet that a client sends disturbs no other packet.
LEMMA PathExtends ==
    ASSUME TypeOK, PathInv, DOMAIN log \subseteq DOMAIN log',
           \A i \in DOMAIN log : log'[i] = log[i],
           UNCHANGED <<opened, reader, down, taken, delivered>>
    PROVE  PathInv'
  <1>1. \A i : Routed(i) => Routed(i)' /\ log'[i] = log[i]
    BY DEF Routed
  <1>2. ReaderInv'
    BY DEF PathInv, ReaderInv
  <1>3. DownInv' /\ DownOnce'
    BY <1>1 DEF PathInv, DownInv, DownOnce
  <1>4. DeliveredInv'
    BY <1>1 DEF PathInv, DeliveredInv
  <1>5. TakenInv'
    <2> SUFFICES ASSUME NEW k \in taken
                 PROVE  log'[down[k].packet].body.dst = down[k].to
      BY DEF TakenInv
    <2>1. Routed(down[k].packet)
      BY DEF PathInv, DownInv, TypeOK
    <2> QED BY <1>1, <2>1 DEF PathInv, TakenInv
  <1> QED BY <1>2, <1>3, <1>4, <1>5 DEF PathInv

\* A datagram goes down to the session registered for its destination.
LEMMA SentDownFact ==
    ASSUME TypeOK, NEW i \in 1..MaxPackets, NEW dst \in Devices,
           NEW addr \in [Sessions -> Endpoints \cup {None}]
    PROVE  \/ SentDown(i, dst, addr) = down
           \/ \E g \in Datagrams : /\ SentDown(i, dst, addr) = Append(down, g)
                                   /\ g.packet = i
  <1> DEFINE s == <<dst, registered[dst]>>
             g == [to |-> dst, gen |-> registered[dst], at |-> addr[s],
                   packet |-> i]
  <1>1. CASE registered[dst] # 0 /\ addr[s] # None
    <2>1. /\ registered[dst] \in Nat /\ registered[dst] <= MaxGen[dst]
          /\ MaxGen[dst] \in Nat
      BY MaxGenAssumption DEF TypeOK
    <2>2. registered[dst] \in 1..MaxGen[dst]
      BY <1>1, <2>1
    <2>3. registered[dst] \in Generations
      BY <2>2 DEF Generations
    <2>4. s \in Sessions
      BY <2>1, <2>3 DEF Sessions
    <2>5. g \in Datagrams
      BY <1>1, <2>1, <2>4 DEF Datagrams
    <2>6. SentDown(i, dst, addr) = Append(down, g) /\ g.packet = i
      BY <1>1 DEF SentDown
    <2> QED BY <2>5, <2>6
  <1>2. CASE ~(registered[dst] # 0 /\ addr[s] # None)
    BY <1>2 DEF SentDown
  <1> QED BY <1>1, <1>2

\* One more datagram down, with a packet that none carries yet, keeps the
\* datagrams apart.
LEMMA DownGrows ==
    ASSUME TypeOK, PathInv, NEW g \in Datagrams,
           \A k \in DOMAIN down : down[k].packet # g.packet,
           down' = Append(down, g), taken' = taken
    PROVE  /\ down' \in Seq(Datagrams) /\ DOMAIN down' = DOMAIN down \cup {Len(down) + 1}
           /\ down'[Len(down) + 1] = g
           /\ \A k \in DOMAIN down : down'[k] = down[k]
           /\ DownOnce'
           /\ taken' \subseteq DOMAIN down
  <1>1. down \in Seq(Datagrams) /\ taken' \subseteq DOMAIN down
    BY DEF TypeOK
  <1>2. /\ down' \in Seq(Datagrams) /\ Len(down') = Len(down) + 1
        /\ down'[Len(down) + 1] = g
        /\ \A k \in 1..Len(down) : down'[k] = down[k]
    BY <1>1
  <1>3. DOMAIN down' = DOMAIN down \cup {Len(down) + 1}
    BY <1>1, <1>2
  <1>4. \A k \in DOMAIN down : down'[k] = down[k]
    BY <1>1, <1>2
  <1>5. DownOnce'
    BY <1>2, <1>3, <1>4 DEF PathInv, DownOnce
  <1> QED BY <1>1, <1>2, <1>3, <1>4, <1>5

\* Router.Route of packet i, which nothing downstream has seen: it goes down
\* once or to the server's adapter once, or nowhere.  The log may have grown
\* by i in the same step.
LEMMA RouteKeepsPaths ==
    ASSUME TypeOK, PathInv, NEW i \in 1..MaxPackets, NEW by, NEW body,
           NEW addr \in [Sessions -> Endpoints \cup {None}],
           body \in [src : Devices \cup {Server}, dst : Devices \cup {Server}],
           body # Keepalive,
           Route(i, by, body, addr), taken' = taken,
           log' \in Seq(Packets), DOMAIN log \subseteq DOMAIN log',
           \A j \in DOMAIN log : log'[j] = log[j],
           opened \subseteq opened',
           i \in DOMAIN log', log'[i].by = by, log'[i].body = body,
           i \in opened' \/ by = Server,
           i \notin opened, i \in DOMAIN log => log[i].by # Server
    PROVE  /\ down' \in Seq(Datagrams) /\ taken' \subseteq DOMAIN down'
           /\ delivered' \in [1..MaxPackets -> Nat]
           /\ DownInv' /\ DownOnce' /\ DeliveredInv' /\ TakenInv'
           /\ delivered[i] = 0
           /\ \/ delivered' = delivered
              \/ body.dst = Server /\ delivered' = [delivered EXCEPT ![i] = 1]
  <1>1. ~Routed(i)
    BY DEF Routed
  <1>2. \A k \in DOMAIN down : down[k].packet # i
    BY <1>1 DEF PathInv, DownInv
  <1>3. delivered[i] = 0 /\ delivered \in [1..MaxPackets -> Nat]
    BY <1>1 DEF PathInv, DeliveredInv, TypeOK
  <1>4. \A j : Routed(j) => Routed(j)' /\ log'[j] = log[j]
    BY DEF Routed
  <1>5. down \in Seq(Datagrams) /\ taken \subseteq DOMAIN down
    BY DEF TypeOK
  <1>6. \A k \in DOMAIN down : \A j : j = down[k].packet =>
            Routed(j)' /\ log'[j] = log[j] /\ log[j].body.dst # Server
    BY <1>4 DEF PathInv, DownInv
  <1>7. CASE body.src # by
    <2>1. down' = down /\ delivered' = delivered
      BY <1>7 DEF Route, SourceAllowed
    <2>2. DownInv' /\ DownOnce'
      BY <1>6, <2>1 DEF PathInv, DownInv, DownOnce
    <2>3. DeliveredInv'
      BY <1>4, <2>1 DEF PathInv, DeliveredInv
    <2>4. TakenInv'
      BY <1>5, <1>6, <2>1 DEF PathInv, TakenInv
    <2> QED BY <1>3, <1>5, <2>1, <2>2, <2>3, <2>4
  <1>8. CASE body.src = by /\ body.dst = Server
    <2>1. down' = down /\ delivered' = [delivered EXCEPT ![i] = 1]
      BY <1>3, <1>8 DEF Route, SourceAllowed
    <2>2. DownInv' /\ DownOnce'
      BY <1>6, <2>1 DEF PathInv, DownInv, DownOnce
    <2>3. Routed(i)' /\ log'[i].body.dst = Server
      BY <1>8 DEF Routed
    <2>4. \A j \in 1..MaxPackets : j # i => delivered'[j] = delivered[j]
      BY <1>3, <2>1
    <2>5. DeliveredInv'
      BY <1>4, <2>1, <2>3, <2>4 DEF PathInv, DeliveredInv
    <2>6. TakenInv'
      BY <1>5, <1>6, <2>1 DEF PathInv, TakenInv
    <2>7. delivered' \in [1..MaxPackets -> Nat]
      BY <1>3, <2>1
    <2> QED BY <1>3, <1>5, <1>8, <2>1, <2>2, <2>5, <2>6, <2>7
  <1>9. CASE body.src = by /\ body.dst # Server
    <2>1. down' = SentDown(i, body.dst, addr) /\ delivered' = delivered
      BY <1>9 DEF Route, SourceAllowed
    <2>2. body.dst \in Devices
      BY <1>9
    <2>3. Routed(i)' /\ log'[i].body.dst # Server
      BY <1>9 DEF Routed
    <2>4. CASE down' = down
      <3>1. DownInv' /\ DownOnce'
        BY <1>6, <2>4 DEF PathInv, DownInv, DownOnce
      <3>2. DeliveredInv'
        BY <1>4, <2>1, <2>4 DEF PathInv, DeliveredInv
      <3>3. TakenInv'
        BY <1>5, <1>6, <2>4 DEF PathInv, TakenInv
      <3> QED BY <1>3, <1>5, <2>1, <2>4, <3>1, <3>2, <3>3
    <2>5. ASSUME NEW g \in Datagrams, down' = Append(down, g), g.packet = i
          PROVE  /\ down' \in Seq(Datagrams) /\ taken' \subseteq DOMAIN down'
                 /\ DownInv' /\ DownOnce' /\ DeliveredInv' /\ TakenInv'
      <3>1. /\ down' \in Seq(Datagrams)
            /\ DOMAIN down' = DOMAIN down \cup {Len(down) + 1}
            /\ down'[Len(down) + 1] = g
            /\ \A k \in DOMAIN down : down'[k] = down[k]
            /\ DownOnce'
        BY <1>2, <2>5, DownGrows
      <3>2. DownInv'
        BY <1>6, <2>3, <2>5, <3>1 DEF DownInv
      <3>3. DeliveredInv'
        BY <1>4, <1>5, <2>1, <3>1 DEF PathInv, DeliveredInv
      <3>4. TakenInv'
        BY <1>5, <1>6, <3>1 DEF PathInv, TakenInv
      <3> QED BY <1>5, <3>1, <3>2, <3>3, <3>4
    <2> QED BY <1>3, <2>1, <2>2, <2>4, <2>5, SentDownFact
  <1> QED BY <1>7, <1>8, <1>9

\* readUDP with a datagram whose packet it opens.
LEMMA HandlePacketFact ==
    ASSUME IInv, HandlePacket
    PROVE  /\ IInv'
           /\ reader.packet \in opened' \ opened
           /\ \/ delivered' = delivered
              \/ /\ delivered[reader.packet] = 0
                 /\ delivered' = [delivered EXCEPT ![reader.packet] = 1]
  <1> DEFINE i == reader.packet
  <1>1. /\ i \in DOMAIN log /\ log[i].by # Server /\ i \notin opened
        /\ reader.from = log[i].from
        /\ log \in Seq(Packets) /\ Len(log) <= MaxPackets
        /\ log' = log /\ opened' = opened \cup {i} /\ taken' = taken
        /\ address' = [address EXCEPT ![reader.session] = reader.from]
        /\ address \in [Sessions -> Endpoints \cup {None}]
        /\ reader' = None
    BY DEF HandlePacket, IInv, PathInv, ReaderInv, TypeOK, Fresh, AddressAfter
  <1>2. i \in 1..MaxPackets /\ log[i] \in Packets
    BY <1>1, MaxPacketsAssumption
  <1>3. address' \in [Sessions -> Endpoints \cup {None}]
    BY <1>1, <1>2 DEF Packets
  <1>4. /\ down' \in Seq(Datagrams) /\ taken' \subseteq DOMAIN down'
        /\ delivered' \in [1..MaxPackets -> Nat]
        /\ DownInv' /\ DownOnce' /\ DeliveredInv' /\ TakenInv'
        /\ \/ delivered' = delivered
           \/ /\ delivered[i] = 0
              /\ delivered' = [delivered EXCEPT ![i] = 1]
    <2>1. CASE log[i].body = Keepalive
      <3>1. UNCHANGED <<down, delivered>>
        BY <2>1 DEF HandlePacket
      <3>2. \A j : Routed(j) => Routed(j)'
        BY <1>1 DEF Routed
      <3>3. DownInv' /\ DownOnce' /\ DeliveredInv' /\ TakenInv'
        BY <1>1, <3>1, <3>2
        DEF IInv, PathInv, DownInv, DownOnce, DeliveredInv, TakenInv
      <3> QED BY <1>1, <3>1, <3>3 DEF IInv, TypeOK
    <2>2. CASE log[i].body # Keepalive
      <3>1. Route(i, log[i].by, log[i].body, address')
        BY <2>2 DEF HandlePacket
      <3>2. log[i].body \in [src : Devices \cup {Server}, dst : Devices \cup {Server}]
        BY <1>2, <2>2 DEF Packets
      <3> QED BY <1>1, <1>2, <1>3, <2>2, <3>1, <3>2, RouteKeepsPaths DEF IInv
    <2> QED BY <2>1, <2>2
  <1>5. TypeOK'
    BY <1>1, <1>3, <1>4
    DEF IInv, TypeOK, HandlePacket, sessionVars, clientVars
  <1>6. ReaderInv'
    BY <1>1 DEF ReaderInv
  <1> QED BY <1>1, <1>4, <1>5, <1>6 DEF IInv, PathInv

\* The server's host sends a packet.
LEMMA ReadAdapterFact ==
    ASSUME IInv, NEW t \in Traffic, t.by = Server, ReadAdapter(BodyOf(t))
    PROVE  /\ IInv'
           /\ delivered' = delivered
           /\ Len(log') = Len(log) + 1
  <1> DEFINE body == BodyOf(t)
             i == Len(log) + 1
  <1>1. /\ body \in [src : Devices \cup {Server}, dst : Devices \cup {Server}]
        /\ body # Keepalive /\ body.dst # Server
    BY TrafficAssumption DEF BodyOf
  <1> HIDE DEF body
  <1>2. [by |-> Server, gen |-> 0, from |-> None, body |-> body] \in Packets
    BY <1>1 DEF Packets
  <1>3. /\ Len(log) < MaxPackets /\ log' = Logged(Server, 0, None, body)
        /\ Route(i, Server, body, address)
        /\ UNCHANGED <<registered, created, expired, address, opened, reader,
                       configured, location, taken>>
    BY DEF ReadAdapter, body, sessionVars, clientVars
  <1>4. /\ log' \in Seq(Packets) /\ Len(log') <= MaxPackets
        /\ DOMAIN log \subseteq DOMAIN log'
        /\ \A j \in DOMAIN log : log'[j] = log[j]
        /\ Len(log') = i
        /\ log'[i] = [by |-> Server, gen |-> 0, from |-> None, body |-> body]
    BY <1>2, <1>3, LogGrows DEF IInv
  <1>5. /\ log \in Seq(Packets) /\ opened \subseteq DOMAIN log
        /\ address \in [Sessions -> Endpoints \cup {None}]
    BY DEF IInv, TypeOK
  <1>6. i \in 1..MaxPackets /\ i \in DOMAIN log' /\ i \notin DOMAIN log
    BY <1>3, <1>4, <1>5, MaxPacketsAssumption
  <1>7. log'[i].by = Server /\ log'[i].body = body
    BY <1>4
  <1> HIDE DEF i
  <1>8. /\ down' \in Seq(Datagrams) /\ taken' \subseteq DOMAIN down'
        /\ delivered' \in [1..MaxPackets -> Nat]
        /\ DownInv' /\ DownOnce' /\ DeliveredInv' /\ TakenInv'
        /\ delivered' = delivered
    BY <1>1, <1>3, <1>4, <1>5, <1>6, <1>7, RouteKeepsPaths DEF IInv
  <1>9. TypeOK'
    BY <1>3, <1>4, <1>5, <1>8 DEF IInv, TypeOK
  <1>10. ReaderInv'
    BY <1>3, <1>4 DEF IInv, PathInv, ReaderInv
  <1> QED BY <1>4, <1>8, <1>9, <1>10 DEF IInv, PathInv, i

\* Client.readUDP with a datagram that its cipher opens.
LEMMA ReceiveFact ==
    ASSUME IInv, NEW k \in DOMAIN down, Receive(k)
    PROVE  /\ IInv'
           /\ down[k].packet \in DOMAIN log /\ delivered[down[k].packet] = 0
           /\ delivered' = [delivered EXCEPT ![down[k].packet] = 1]
  <1> DEFINE i == down[k].packet
  <1>1. /\ k \notin taken /\ log[i].body.dst = down[k].to
        /\ taken' = taken \cup {k}
        /\ delivered' = [delivered EXCEPT ![i] = @ + 1]
        /\ UNCHANGED <<registered, created, expired, address, opened, reader,
                       configured, location, log, down>>
    BY DEF Receive, Opens, sessionVars, clientVars, networkVars
  <1>2. /\ log \in Seq(Packets) /\ down \in Seq(Datagrams)
        /\ taken \subseteq DOMAIN down
        /\ delivered \in [1..MaxPackets -> Nat]
    BY DEF IInv, TypeOK
  <1>3. Routed(i) /\ log[i].body.dst # Server /\ i \in DOMAIN log
    BY DEF IInv, PathInv, DownInv, Routed
  <1>4. i \in 1..MaxPackets
    BY <1>2, <1>3, MaxPacketsAssumption DEF IInv, TypeOK
  <1>5. delivered[i] = 0
    BY <1>1, <1>2, <1>3, <1>4 DEF IInv, PathInv, DeliveredInv, DownOnce
  <1> HIDE DEF i
  <1>6. delivered' = [delivered EXCEPT ![i] = 1]
    BY <1>1, <1>2, <1>4, <1>5
  <1>7. TypeOK'
    BY <1>1, <1>2, <1>4, <1>6 DEF IInv, TypeOK
  <1>8. ReaderInv' /\ DownInv' /\ DownOnce'
    BY <1>1 DEF IInv, PathInv, ReaderInv, DownInv, DownOnce, Routed
  <1>9. DeliveredInv'
    <2> SUFFICES ASSUME NEW j \in 1..MaxPackets, delivered'[j] # 0
                 PROVE  /\ Routed(j)
                        /\ \/ log[j].body.dst = Server
                           \/ \E n \in taken' : down[n].packet = j
      BY <1>1 DEF DeliveredInv, Routed
    <2>1. CASE j = i
      BY <1>1, <1>3, <2>1 DEF i
    <2>2. CASE j # i
      <3>1. delivered[j] # 0
        BY <1>2, <1>6, <2>2
      <3> QED BY <1>1, <3>1 DEF IInv, PathInv, DeliveredInv
    <2> QED BY <2>1, <2>2
  <1>10. TakenInv'
    BY <1>1 DEF IInv, PathInv, TakenInv, i
  <1> QED BY <1>3, <1>5, <1>6, <1>7, <1>8, <1>9, <1>10 DEF IInv, PathInv, i

\* A client sends a packet in one of its sessions.
LEMMA SendFact ==
    ASSUME IInv, NEW d \in Devices, NEW gen \in Nat, NEW body,
           body \in [src : Devices \cup {Server}, dst : Devices \cup {Server}]
                    \cup {Keepalive},
           log' = Send(d, gen, body),
           UNCHANGED <<registered, created, expired, address, opened, reader,
                       location, down, taken, delivered>>,
           configured' \in [Devices -> Nat]
    PROVE  /\ IInv'
           /\ log' = log \/ (Len(log) < MaxPackets /\ Len(log') = Len(log) + 1)
  <1>1. [by |-> d, gen |-> gen, from |-> location[d], body |-> body] \in Packets
    BY DEF IInv, TypeOK, Packets
  <1>2. log' = Logged(d, gen, location[d], body)
    BY DEF Send
  <1>3. /\ log' \in Seq(Packets) /\ Len(log') <= MaxPackets
        /\ DOMAIN log \subseteq DOMAIN log'
        /\ \A i \in DOMAIN log : log'[i] = log[i]
        /\ log' = log \/ (Len(log) < MaxPackets /\ Len(log') = Len(log) + 1)
    BY <1>1, <1>2, LogGrows DEF IInv
  <1>4. TypeOK'
    BY <1>3 DEF IInv, TypeOK
  <1>5. PathInv'
    BY <1>3, PathExtends DEF IInv
  <1> QED BY <1>3, <1>4, <1>5 DEF IInv

\* The client's data plane keeps the invariant, and enters at most one packet.
LEMMA ClientStepFact ==
    ASSUME IInv, NEW d \in Devices, ClientStep(d)
    PROVE  /\ IInv'
           /\ UNCHANGED <<delivered, address>>
           /\ log' = log \/ (Len(log) < MaxPackets /\ Len(log') = Len(log) + 1)
  <1>1. ASSUME NEW g \in Generations, Configure(d, g)
        PROVE  /\ IInv' /\ UNCHANGED <<delivered, address>>
               /\ log' = log \/ (Len(log) < MaxPackets /\ Len(log') = Len(log) + 1)
    <2>1. g \in Nat
      BY MaxGenAssumption DEF Generations
    <2>2. configured' \in [Devices -> Nat]
      BY <1>1, <2>1 DEF Configure, IInv, TypeOK
    <2>3. log' = Send(d, g, Keepalive)
      BY <1>1 DEF Configure
    <2>4. UNCHANGED <<registered, created, expired, address, opened, reader,
                      location, down, taken, delivered>>
      BY <1>1 DEF Configure, sessionVars, deliveredVars
    <2> QED BY <2>1, <2>2, <2>3, <2>4, SendFact
  <1>2. ASSUME NEW body, Emit(d, body),
               body \in [src : Devices \cup {Server}, dst : Devices \cup {Server}]
                        \cup {Keepalive}
        PROVE  /\ IInv' /\ UNCHANGED <<delivered, address>>
               /\ log' = log \/ (Len(log) < MaxPackets /\ Len(log') = Len(log) + 1)
    <2>1. configured[d] \in Nat /\ configured' \in [Devices -> Nat]
      BY <1>2 DEF Emit, clientVars, IInv, TypeOK
    <2>2. log' = Send(d, configured[d], body)
      BY <1>2 DEF Emit
    <2>3. UNCHANGED <<registered, created, expired, address, opened, reader,
                      location, down, taken, delivered>>
      BY <1>2 DEF Emit, sessionVars, clientVars, deliveredVars
    <2> QED BY <1>2, <2>1, <2>2, <2>3, SendFact
  <1>3. ASSUME NEW t \in Traffic, Emit(d, BodyOf(t))
        PROVE  /\ IInv' /\ UNCHANGED <<delivered, address>>
               /\ log' = log \/ (Len(log) < MaxPackets /\ Len(log') = Len(log) + 1)
    <2>1. BodyOf(t) \in [src : Devices \cup {Server}, dst : Devices \cup {Server}]
      BY TrafficAssumption DEF BodyOf
    <2> QED BY <1>2, <1>3, <2>1
  <1>4. ASSUME NEW e \in Endpoints, Roam(d, e)
        PROVE  IInv' /\ UNCHANGED <<delivered, address, log>>
    <2>1. UNCHANGED <<registered, created, expired, address, opened, reader,
                      configured, log, down, taken, delivered>>
      BY <1>4 DEF Roam, sessionVars, networkVars, deliveredVars
    <2>2. location' \in [Devices -> Endpoints]
      BY <1>4 DEF Roam, IInv, TypeOK
    <2>3. TypeOK'
      BY <2>1, <2>2 DEF IInv, TypeOK
    <2>4. PathInv'
      BY <2>1, PathUnchanged DEF IInv, pathVars
    <2> QED BY <2>1, <2>3, <2>4 DEF IInv
  <1> QED BY <1>1, <1>2, <1>3, <1>4 DEF ClientStep

\* The control streams move no packet.
LEMMA SessionStepFact ==
    ASSUME IInv, NEW d \in Devices, Register(d) \/ Remove(d) \/ Expire(d)
    PROVE  IInv' /\ UNCHANGED <<delivered, address, log>>
  <1>1. UNCHANGED <<configured, address, location, opened, reader, log, down,
                    taken, delivered>>
    BY DEF Register, Remove, Expire, clientVars, networkVars, deliveredVars
  <1>2. /\ registered \in [Devices -> Nat] /\ created \in [Devices -> Nat]
        /\ \A e \in Devices : registered[e] <= created[e] /\ created[e] <= MaxGen[e]
        /\ expired \subseteq Sessions
        /\ \A e \in Devices : MaxGen[e] \in Nat
    BY MaxGenAssumption DEF IInv, TypeOK
  <1>3. /\ registered' \in [Devices -> Nat] /\ created' \in [Devices -> Nat]
        /\ \A e \in Devices : registered'[e] <= created'[e] /\ created'[e] <= MaxGen[e]
        /\ expired' \subseteq Sessions
    <2>1. CASE Register(d)
      BY <1>2, <2>1 DEF Register
    <2>2. CASE Remove(d)
      BY <1>2, <2>2 DEF Remove
    <2>3. CASE Expire(d)
      <3>1. registered[d] \in 1..MaxGen[d]
        BY <1>2, <2>3 DEF Expire
      <3>2. registered[d] \in Generations
        BY <3>1 DEF Generations
      <3>3. <<d, registered[d]>> \in Sessions
        BY <1>2, <3>1, <3>2 DEF Sessions
      <3> QED BY <1>2, <2>3, <3>3 DEF Expire
    <2> QED BY <2>1, <2>2, <2>3
  <1>4. TypeOK'
    BY <1>1, <1>3 DEF IInv, TypeOK
  <1>5. PathInv'
    BY <1>1, PathUnchanged DEF IInv, pathVars
  <1> QED BY <1>1, <1>4, <1>5 DEF IInv

\* readUDP looks a session up, or drops a datagram.
LEMMA ReaderStepFact ==
    ASSUME IInv, OpenFails \/ \E i \in DOMAIN log : ReadDatagram(i)
    PROVE  IInv' /\ UNCHANGED <<delivered, address, log>>
  <1>1. UNCHANGED <<registered, created, expired, address, opened, configured,
                    location, log, down, taken, delivered>>
    BY DEF OpenFails, ReadDatagram, AddressAfter, sessionVars, clientVars,
       networkVars, deliveredVars
  <1>2. TypeOK'
    BY <1>1 DEF IInv, TypeOK
  <1>3. ReaderInv'
    <2>1. CASE OpenFails
      BY <2>1 DEF OpenFails, ReaderInv
    <2>2. ASSUME NEW i \in DOMAIN log, ReadDatagram(i) PROVE ReaderInv'
      BY <1>1, <2>2 DEF ReadDatagram, ReaderInv
    <2> QED BY <2>1, <2>2
  <1>4. DownInv' /\ DownOnce' /\ DeliveredInv' /\ TakenInv'
    BY <1>1 DEF IInv, PathInv, Routed, DownInv, DownOnce, DeliveredInv, TakenInv
  <1> QED BY <1>1, <1>2, <1>3, <1>4 DEF IInv, PathInv

\* Every step keeps the invariant and is a step of the end-to-end channel.
LEMMA NextFact ==
    ASSUME IInv, [Next]_vars
    PROVE  IInv' /\ [EndToEnd!Next]_EndToEnd!vars
  <1>0. log \in Seq(Packets) /\ Len(log) \in Nat
    BY DEF IInv, TypeOK
  <1>1. ASSUME NEW d \in Devices, Register(d) \/ Remove(d) \/ Expire(d)
        PROVE  IInv' /\ UNCHANGED EndToEnd!vars
    BY <1>1, SessionStepFact DEF EndToEnd!vars
  <1>2. ASSUME NEW d \in Devices, ClientStep(d)
        PROVE  IInv' /\ [EndToEnd!Next]_EndToEnd!vars
    BY <1>2, ClientStepFact DEF EndToEnd!vars, EndToEnd!Next, EndToEnd!Send
  <1>3. ASSUME NEW k \in DOMAIN down, Receive(k)
        PROVE  IInv' /\ EndToEnd!Next
    <2>1. /\ IInv' /\ down[k].packet \in DOMAIN log
          /\ delivered[down[k].packet] = 0
          /\ delivered' = [delivered EXCEPT ![down[k].packet] = 1]
      BY <1>3, ReceiveFact
    <2>2. Len(log') = Len(log)
      BY <1>3 DEF Receive, networkVars
    <2>3. /\ down[k].packet <= Len(log)
          /\ down[k].packet \in 1..MaxPackets
      BY <1>0, <2>1, MaxPacketsAssumption DEF IInv, TypeOK
    <2>4. EndToEnd!Deliver(down[k].packet)
      BY <2>1, <2>2, <2>3 DEF EndToEnd!Deliver
    <2> QED BY <2>1, <2>3, <2>4 DEF EndToEnd!Next
  <1>4. ASSUME OpenFails \/ \E i \in DOMAIN log : ReadDatagram(i)
        PROVE  IInv' /\ UNCHANGED EndToEnd!vars
    BY <1>4, ReaderStepFact DEF EndToEnd!vars
  <1>5. CASE HandlePacket
    <2>1. /\ IInv'
          /\ \/ delivered' = delivered
             \/ /\ delivered[reader.packet] = 0
                /\ delivered' = [delivered EXCEPT ![reader.packet] = 1]
      BY <1>5, HandlePacketFact
    <2>2. log' = log /\ reader.packet \in DOMAIN log
      BY <1>5 DEF HandlePacket, IInv, PathInv, ReaderInv
    <2>3. reader.packet <= Len(log) /\ reader.packet \in 1..MaxPackets
      BY <1>0, <2>2, MaxPacketsAssumption DEF IInv, TypeOK
    <2> QED BY <2>1, <2>2, <2>3
            DEF EndToEnd!vars, EndToEnd!Next, EndToEnd!Deliver
  <1>6. ASSUME NEW t \in Traffic, t.by = Server, ReadAdapter(BodyOf(t))
        PROVE  IInv' /\ EndToEnd!Next
    <2>1. IInv' /\ delivered' = delivered /\ Len(log') = Len(log) + 1
      BY <1>6, ReadAdapterFact
    <2>2. Len(log) < MaxPackets
      BY <1>6 DEF ReadAdapter
    <2> QED BY <2>1, <2>2 DEF EndToEnd!Next, EndToEnd!Send
  <1>7. CASE UNCHANGED vars
    <2>1. UNCHANGED <<registered, created, expired, address, opened, reader,
                      configured, location, log, down, taken, delivered>>
      BY <1>7 DEF vars, sessionVars, clientVars, networkVars, deliveredVars
    <2>2. TypeOK'
      BY <2>1 DEF IInv, TypeOK
    <2>3. PathInv'
      BY <2>1, PathUnchanged DEF IInv, pathVars
    <2> QED BY <2>1, <2>2, <2>3 DEF IInv, EndToEnd!vars
  <1> QED BY <1>1, <1>2, <1>3, <1>4, <1>5, <1>6, <1>7 DEF Next, ServerStep

\* Packets stay on their paths in every reachable state.
THEOREM Invariance == Spec => []IInv
  BY InitInv, NextFact, PTL DEF Spec

\* A packet is written to at most one adapter, at most once: the two ciphers
\* and the router implement one at-most-once channel from adapter to adapter,
\* for any number of devices, sessions, roaming clients and packets.
THEOREM EndToEndAtMostOnce == Spec => DeliveredAtMostOnce
  <1>1. Init => EndToEnd!Init
    BY DEF Init, EndToEnd!Init
  <1>2. IInv /\ [Next]_vars => [EndToEnd!Next]_EndToEnd!vars
    BY NextFact
  <1> QED BY <1>1, <1>2, Invariance, PTL
          DEF Spec, DeliveredAtMostOnce, EndToEnd!Spec

\* What reaches an adapter is for its address and comes from the device whose
\* address it carries, whatever the senders write into their packets.
THEOREM PacketsArriveAsAddressed == Spec => []DeliveredAsAddressed
  <1>1. IInv => DeliveredAsAddressed
    <2> SUFFICES ASSUME IInv PROVE DeliveredAsAddressed
      OBVIOUS
    <2>1. \A i \in DOMAIN log : i \in 1..MaxPackets /\ delivered[i] \in Nat
      BY MaxPacketsAssumption DEF IInv, TypeOK
    <2>2. \A i \in DOMAIN log : delivered[i] > 0 => Routed(i)
      BY <2>1 DEF IInv, PathInv, DeliveredInv
    <2> QED BY <2>2 DEF DeliveredAsAddressed, Routed, IInv, PathInv, TakenInv
  <1> QED BY <1>1, Invariance, PTL

\* A session's endpoint moves only to where its own client sent a packet from,
\* on the first arrival of that packet, for any number of sessions.
THEOREM EndpointsFollow == Spec => EndpointFollowsFreshPackets
  <1>1. IInv /\ [Next]_vars => [EndpointStep]_vars
    <2> SUFFICES ASSUME IInv, [Next]_vars PROVE EndpointStep
      OBVIOUS
    <2>1. CASE address' = address
      BY <2>1 DEF EndpointStep
    <2>2. CASE HandlePacket
      <3>1. /\ reader.packet \in opened' \ opened
            /\ address' = [address EXCEPT ![reader.session] = reader.from]
            /\ reader.session = <<log[reader.packet].by, log[reader.packet].gen>>
            /\ reader.from = log[reader.packet].from
            /\ address \in [Sessions -> Endpoints \cup {None}]
        BY <2>2, HandlePacketFact
        DEF HandlePacket, AddressAfter, IInv, PathInv, ReaderInv, TypeOK
      <3> QED BY <3>1 DEF EndpointStep
    <2>3. HandlePacket \/ address' = address
      BY SessionStepFact, ClientStepFact, ReaderStepFact
      DEF Next, ServerStep, Receive, ReadAdapter, vars
    <2> QED BY <2>1, <2>2, <2>3
  <1> QED BY <1>1, Invariance, PTL DEF Spec, EndpointFollowsFreshPackets
=============================================================================
