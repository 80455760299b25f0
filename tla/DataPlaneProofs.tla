--------------------------- MODULE DataPlaneProofs ---------------------------
(***************************************************************************)
(* Proofs about DataPlane for any numbers of devices, streams and          *)
(* addresses.                                                              *)
(*                                                                         *)
(* The registry invariants need each other, and they need to know where    *)
(* the handlers stand: a handler about to register is in no map (so what   *)
(* Register deletes is another handler's), one that holds a session is     *)
(* past its Register and has an address other than the server's.           *)
(***************************************************************************)
EXTENDS DataPlane, FiniteSetTheorems, TLAPS

\* A handler that is past a step has what the step read or stored.
HandlersWellFormed ==
    \A s \in Streams :
        /\ pc[s] # "free" => device[s] \in Devices
        /\ pc[s] \notin {"free", "verified"} => ip[s] \in Addresses
        /\ s \in secure => /\ pc[s] \in {"registered", "open", "closing", "removing"}
                           /\ ip[s] # ServerIP
        /\ pc[s] \in {"registered", "removing"} => s \in secure

IInv ==
    /\ TypeOK
    /\ HandlersWellFormed
    /\ RegistryConsistent
    /\ RoutesLeadToSessions
    /\ NoOrphanSession

\* The empty registry of Listen, with the server's own route, satisfies it.
LEMMA InitInv == Init => IInv
  BY ServerIPAssumption, NoneAssumption, AdapterAssumption
  DEF Init, IInv, TypeOK, HandlersWellFormed, RegistryConsistent,
      RoutesLeadToSessions, NoOrphanSession, Locations

\* The return of a handler that is in no map of the registry changes nothing
\* that the invariant says.
LEMMA ReturnInv ==
    ASSUME IInv, NEW s \in Streams, Return(s), s \notin sessions,
           connections' \in [Devices -> Nat],
           UNCHANGED <<storeVars, registryVars>>
    PROVE  IInv'
  <1>1. TypeOK'
    BY DEF IInv, TypeOK, Return, Goto, storeVars, registryVars, Locations
  <1>2. HandlersWellFormed'
    BY DEF IInv, TypeOK, HandlersWellFormed, Return, Goto
  <1>3. RegistryConsistent'
    BY NoneAssumption DEF IInv, TypeOK, RegistryConsistent, Return, registryVars
  <1>4. RoutesLeadToSessions'
    BY DEF IInv, TypeOK, RoutesLeadToSessions, Return, registryVars
  <1>5. NoOrphanSession'
    BY DEF IInv, TypeOK, NoOrphanSession, Return, Goto, registryVars
  <1> QED BY <1>1, <1>2, <1>3, <1>4, <1>5 DEF IInv

\* A handler that moves on in its loop or towards its deferred calls.
LEMMA AdvanceInv ==
    ASSUME IInv, NEW s \in Streams,
           NEW l \in {"open", "closing", "removing"}, Goto(s, l),
           pc[s] \notin {"free", "verified"},
           l = "removing" => s \in secure,
           connections' \in [Devices -> Nat],
           expired' \in SUBSET Streams,
           UNCHANGED <<storeVars, device, ip, secure, registryVars>>
    PROVE  IInv'
  <1>1. TypeOK'
    BY DEF IInv, TypeOK, Goto, storeVars, registryVars, Locations
  <1>2. HandlersWellFormed'
    BY DEF IInv, TypeOK, HandlersWellFormed, Goto
  <1>3. RegistryConsistent' /\ RoutesLeadToSessions'
    BY DEF IInv, RegistryConsistent, RoutesLeadToSessions, registryVars
  <1>4. NoOrphanSession'
    BY DEF IInv, TypeOK, NoOrphanSession, Goto, registryVars
  <1> QED BY <1>1, <1>2, <1>3, <1>4 DEF IInv

\* Register replaces the session and the route of the device consistently.
LEMMA RegisterInv ==
    ASSUME IInv, NEW s \in Streams, Register(s)
    PROVE  IInv'
  <1>1. /\ pc[s] = "loaded" /\ device[s] \in Devices /\ ip[s] \in Addresses
        /\ ip[s] # ServerIP /\ s \notin sessions /\ s \notin secure
    BY DEF Register, IInv, HandlersWellFormed, NoOrphanSession
  <1> DEFINE old == byDevice[device[s]]
             oldIP == IF old = None THEN None ELSE ip[old]
  <1>2. /\ old \in Streams \cup {None} /\ old # s
        /\ old # None => old \in sessions /\ device[old] = device[s]
    BY <1>1, NoneAssumption DEF IInv, TypeOK, RegistryConsistent
  <1>3. old # None => ip[old] \in Addresses /\ ip[old] # ServerIP
    BY <1>2 DEF IInv, TypeOK, NoOrphanSession, HandlersWellFormed
  <1>4. /\ sessions' = (sessions \ {old}) \cup {s}
        /\ byDevice' = [byDevice EXCEPT ![device[s]] = s]
        /\ peers' = [a \in Addresses |-> IF a = ip[s] THEN s
                                         ELSE IF a = oldIP THEN None ELSE peers[a]]
        /\ secure' = secure \cup {s}
        /\ pc' = [pc EXCEPT ![s] = "registered"]
        /\ UNCHANGED <<storeVars, device, ip, expired, connections>>
    BY DEF Register, RegisteredSessions, RegisteredPeers, Goto
  <1>5. TypeOK'
    BY <1>1, <1>2, <1>4 DEF IInv, TypeOK, storeVars, Locations
  <1>6. HandlersWellFormed'
    BY <1>1, <1>4 DEF IInv, TypeOK, HandlersWellFormed
  <1>7. RegistryConsistent'
    <2>1. ASSUME NEW d \in Devices, byDevice'[d] # None
          PROVE  byDevice'[d] \in sessions' /\ device'[byDevice'[d]] = d
      <3>1. CASE d = device[s]
        BY <1>1, <1>4, <3>1 DEF IInv, TypeOK
      <3>2. CASE d # device[s]
        <4>1. byDevice'[d] = byDevice[d]
          BY <1>4, <3>2 DEF IInv, TypeOK
        <4>2. byDevice[d] \in sessions /\ device[byDevice[d]] = d
          BY <2>1, <4>1 DEF IInv, RegistryConsistent
        <4>3. byDevice[d] # old
          BY <1>2, <3>2, <4>2, NoneAssumption DEF IInv, TypeOK
        <4> QED BY <1>4, <4>1, <4>2, <4>3
      <3> QED BY <3>1, <3>2
    <2>2. ASSUME NEW t \in sessions'
          PROVE  byDevice'[device'[t]] = t
      <3>1. CASE t = s
        BY <1>1, <1>4, <3>1 DEF IInv, TypeOK
      <3>2. CASE t # s
        <4>1. t \in sessions /\ t # old /\ byDevice[device[t]] = t
          BY <1>4, <2>2, <3>2 DEF IInv, RegistryConsistent
        <4>2. device[t] # device[s]
          BY <4>1
        <4> QED BY <1>1, <1>4, <4>1, <4>2 DEF IInv, TypeOK
      <3> QED BY <3>1, <3>2
    <2> QED BY <2>1, <2>2 DEF RegistryConsistent
  <1>8. RoutesLeadToSessions'
    <2>1. peers'[ServerIP] = Adapter
      <3>1. oldIP # ServerIP
        BY <1>3, ServerIPAssumption, NoneAssumption DEF IInv, TypeOK
      <3> QED BY <1>1, <1>4, <3>1, ServerIPAssumption
              DEF IInv, TypeOK, RoutesLeadToSessions
    <2>2. ASSUME NEW a \in Addresses \ {ServerIP}, peers'[a] # None
          PROVE  peers'[a] \in sessions' /\ ip'[peers'[a]] = a
      <3>1. CASE a = ip[s]
        BY <1>1, <1>4, <3>1 DEF IInv, TypeOK
      <3>2. CASE a # ip[s]
        <4>1. peers'[a] = peers[a] /\ a # oldIP
          BY <1>4, <2>2, <3>2
        <4>2. peers[a] \in sessions /\ ip[peers[a]] = a
          BY <2>2, <4>1 DEF IInv, RoutesLeadToSessions
        <4>3. peers[a] # old
          BY <1>2, <4>1, <4>2, NoneAssumption DEF IInv, TypeOK
        <4> QED BY <1>4, <4>1, <4>2, <4>3
      <3> QED BY <3>1, <3>2
    <2> QED BY <2>1, <2>2 DEF RoutesLeadToSessions
  <1>9. NoOrphanSession'
    BY <1>1, <1>4 DEF IInv, TypeOK, NoOrphanSession
  <1> QED BY <1>5, <1>6, <1>7, <1>8, <1>9 DEF IInv

\* The deferred Remove takes the handler's own session and route or nothing.
LEMMA RemoveInv ==
    ASSUME IInv, NEW s \in Streams, Remove(s)
    PROVE  IInv'
  <1>1. /\ pc[s] = "removing" /\ device[s] \in Devices /\ ip[s] \in Addresses
        /\ ip[s] # ServerIP /\ Return(s)
        /\ UNCHANGED <<storeVars, connections>>
    BY DEF Remove, IInv, HandlersWellFormed
  <1>2. CASE ~OwnsCurrentSession(s)
    <2>1. s \notin sessions
      BY <1>2 DEF OwnsCurrentSession, IInv, RegistryConsistent
    <2>2. UNCHANGED registryVars /\ connections' \in [Devices -> Nat]
      BY <1>1, <1>2 DEF Remove, IInv, TypeOK
    <2> QED BY <1>1, <2>1, <2>2, ReturnInv
  <1>3. CASE OwnsCurrentSession(s)
    <2>1. /\ sessions' = sessions \ {s}
          /\ byDevice' = [byDevice EXCEPT ![device[s]] = None]
          /\ peers' = [peers EXCEPT ![ip[s]] = None]
      BY <1>3 DEF Remove, OwnsCurrentSession, PeersWithout
    <2>2. /\ pc' = [pc EXCEPT ![s] = "free"]
          /\ device' = [device EXCEPT ![s] = None]
          /\ ip' = [ip EXCEPT ![s] = None]
          /\ secure' = secure \ {s} /\ expired' = expired \ {s}
      BY <1>1 DEF Return, Goto
    <2>3. TypeOK'
      BY <1>1, <2>1, <2>2 DEF IInv, TypeOK, storeVars, Locations
    <2>4. HandlersWellFormed'
      BY <2>2 DEF IInv, TypeOK, HandlersWellFormed
    <2>5. RegistryConsistent'
      <3>1. ASSUME NEW d \in Devices, byDevice'[d] # None
            PROVE  byDevice'[d] \in sessions' /\ device'[byDevice'[d]] = d
        <4>1. d # device[s] /\ byDevice'[d] = byDevice[d]
          BY <1>1, <2>1, <3>1 DEF IInv, TypeOK
        <4>2. byDevice[d] \in sessions /\ device[byDevice[d]] = d
          BY <3>1, <4>1 DEF IInv, RegistryConsistent
        <4> QED BY <2>1, <2>2, <4>1, <4>2 DEF IInv, TypeOK
      <3>2. ASSUME NEW t \in sessions'
            PROVE  byDevice'[device'[t]] = t
        <4>1. t \in sessions /\ t # s /\ byDevice[device[t]] = t
          BY <2>1 DEF IInv, RegistryConsistent
        <4>2. device[t] # device[s]
          BY <1>3, <4>1 DEF OwnsCurrentSession
        <4>3. device'[t] = device[t] /\ device[t] \in Devices
          BY <2>2, <4>1 DEF IInv, TypeOK, NoOrphanSession, HandlersWellFormed
        <4> QED BY <2>1, <4>1, <4>2, <4>3 DEF IInv, TypeOK
      <3> QED BY <3>1, <3>2 DEF RegistryConsistent
    <2>6. RoutesLeadToSessions'
      <3>1. peers'[ServerIP] = Adapter
        BY <1>1, <2>1, ServerIPAssumption DEF IInv, TypeOK, RoutesLeadToSessions
      <3>2. ASSUME NEW a \in Addresses \ {ServerIP}, peers'[a] # None
            PROVE  peers'[a] \in sessions' /\ ip'[peers'[a]] = a
        <4>1. a # ip[s] /\ peers'[a] = peers[a]
          BY <1>1, <2>1, <3>2 DEF IInv, TypeOK
        <4>2. peers[a] \in sessions /\ ip[peers[a]] = a
          BY <3>2, <4>1 DEF IInv, RoutesLeadToSessions
        <4> QED BY <2>1, <2>2, <4>1, <4>2 DEF IInv, TypeOK
      <3> QED BY <3>1, <3>2 DEF RoutesLeadToSessions
    <2>7. NoOrphanSession'
      BY <2>1, <2>2 DEF IInv, TypeOK, NoOrphanSession
    <2> QED BY <2>3, <2>4, <2>5, <2>6, <2>7 DEF IInv
  <1> QED BY <1>2, <1>3

\* Every step of an administrator, a handler or the clock preserves the
\* invariant.
LEMMA NextInv == IInv /\ [Next]_vars => IInv'
  <1> SUFFICES ASSUME IInv, [Next]_vars PROVE IInv'
    OBVIOUS
  <1>1. ASSUME NEW d \in Devices, NEW a \in Addresses, SetDeviceVirtualIP(d, a)
        PROVE  IInv'
    BY <1>1 DEF SetDeviceVirtualIP, IInv, TypeOK, HandlersWellFormed,
       RegistryConsistent, RoutesLeadToSessions, NoOrphanSession, handlerVars,
       registryVars
  <1>2. ASSUME NEW d \in Devices, RevokeDevice(d) PROVE IInv'
    BY <1>2 DEF RevokeDevice, IInv, TypeOK, HandlersWellFormed,
       RegistryConsistent, RoutesLeadToSessions, NoOrphanSession, handlerVars,
       registryVars
  <1>3. ASSUME NEW s \in Streams, NEW d \in Devices, Verify(s, d) PROVE IInv'
    <2>1. s \notin sessions
      BY <1>3 DEF Verify, IInv, NoOrphanSession
    <2>2. TypeOK' /\ HandlersWellFormed'
      BY <1>3 DEF Verify, Goto, IInv, TypeOK, HandlersWellFormed, storeVars,
         registryVars, Locations
    <2>3. RegistryConsistent'
      BY <1>3, <2>1, NoneAssumption DEF Verify, IInv, TypeOK,
         RegistryConsistent, registryVars
    <2>4. RoutesLeadToSessions' /\ NoOrphanSession'
      BY <1>3, <2>1 DEF Verify, Goto, IInv, TypeOK, RoutesLeadToSessions,
         NoOrphanSession, registryVars
    <2> QED BY <2>2, <2>3, <2>4 DEF IInv
  <1>4. ASSUME NEW s \in Streams, HandlerStep(s) PROVE IInv'
    <2>1. CASE LoadDevice(s)
      <3>1. s \notin sessions /\ device[s] \in Devices
        BY <2>1 DEF LoadDevice, IInv, NoOrphanSession, HandlersWellFormed
      <3>2. TypeOK' /\ HandlersWellFormed'
        BY <2>1, <3>1 DEF LoadDevice, Goto, IInv, TypeOK, HandlersWellFormed,
           storeVars, registryVars, Locations
      <3>3. RegistryConsistent'
        BY <2>1 DEF LoadDevice, IInv, RegistryConsistent, registryVars
      <3>4. RoutesLeadToSessions' /\ NoOrphanSession'
        BY <2>1, <3>1 DEF LoadDevice, Goto, IInv, TypeOK, RoutesLeadToSessions,
           NoOrphanSession, registryVars
      <3> QED BY <3>2, <3>3, <3>4 DEF IInv
    <2>2. CASE Register(s)
      BY <2>2, RegisterInv
    <2>3. CASE RegisterRefused(s)
      <3>1. s \notin sessions /\ connections' \in [Devices -> Nat]
        BY <2>3 DEF RegisterRefused, IInv, TypeOK, NoOrphanSession
      <3> QED BY <2>3, <3>1, ReturnInv DEF RegisterRefused
    <2>4. CASE Connected(s)
      <3>1. connections' \in [Devices -> Nat] /\ expired' \in SUBSET Streams
        <4>1. device[s] \in Devices
          BY <2>4 DEF Connected, IInv, HandlersWellFormed
        <4> QED BY <2>4, <4>1 DEF Connected, IInv, TypeOK
      <3> QED BY <2>4, <3>1, AdvanceInv DEF Connected
    <2>5. CASE Ping(s) \/ DataExpiry(s)
      <3>1. connections' \in [Devices -> Nat] /\ expired' \in SUBSET Streams
        BY <2>5 DEF Ping, DataExpiry, IInv, TypeOK
      <3> QED BY <2>5, <3>1, AdvanceInv DEF Ping, DataExpiry
    <2>6. CASE DeviceDisconnected(s)
      <3>1. connections' \in [Devices -> Nat]
        <4>1. device[s] \in Devices
          BY <2>6 DEF DeviceDisconnected, IInv, HandlersWellFormed
        <4>2. connections[device[s]] \in Nat
          BY <4>1 DEF IInv, TypeOK
        <4>3. (IF connections[device[s]] <= 1 THEN 0
                 ELSE connections[device[s]] - 1) \in Nat
          BY <4>2
        <4> QED BY <2>6, <4>1, <4>3 DEF DeviceDisconnected, ConnectionsWithout,
                IInv, TypeOK
      <3>2. CASE s \in secure
        <4>1. expired' \in SUBSET Streams
          BY <2>6, <3>2 DEF DeviceDisconnected, IInv, TypeOK
        <4> QED BY <2>6, <3>1, <3>2, <4>1, AdvanceInv DEF DeviceDisconnected
      <3>3. CASE s \notin secure
        <4>1. s \notin sessions
          BY <3>3 DEF IInv, NoOrphanSession
        <4> QED BY <2>6, <3>1, <3>3, <4>1, ReturnInv DEF DeviceDisconnected
      <3> QED BY <3>2, <3>3
    <2>7. CASE Remove(s)
      BY <2>7, RemoveInv
    <2> QED BY <1>4, <2>1, <2>2, <2>3, <2>4, <2>5, <2>6, <2>7 DEF HandlerStep
  <1>5. ASSUME NEW s \in Streams, ConnectFailed(s) PROVE IInv'
    <2>1. s \notin sessions /\ connections' \in [Devices -> Nat]
      BY <1>5 DEF ConnectFailed, IInv, TypeOK, NoOrphanSession
    <2> QED BY <1>5, <2>1, ReturnInv DEF ConnectFailed
  <1>6. ASSUME NEW s \in Streams, Expire(s) PROVE IInv'
    BY <1>6 DEF Expire, IInv, TypeOK, HandlersWellFormed, RegistryConsistent,
       RoutesLeadToSessions, NoOrphanSession, storeVars, registryVars
  <1>7. ASSUME NEW s \in Streams, StreamLost(s) PROVE IInv'
    <2>1. connections' \in [Devices -> Nat] /\ expired' \in SUBSET Streams
      BY <1>7 DEF StreamLost, IInv, TypeOK
    <2> QED BY <1>7, <2>1, AdvanceInv DEF StreamLost
  <1>8. CASE UNCHANGED vars
    BY <1>8 DEF vars, storeVars, handlerVars, registryVars, IInv, TypeOK,
       HandlersWellFormed, RegistryConsistent, RoutesLeadToSessions,
       NoOrphanSession
  <1> QED BY <1>1, <1>2, <1>3, <1>4, <1>5, <1>6, <1>7, <1>8 DEF Next

\* The inductive invariant holds in every reachable state.
THEOREM Invariance == Spec => []IInv
  BY InitInv, NextInv, PTL DEF Spec

\* Every variable of the registry and of the handlers keeps its type.
THEOREM TypeCorrect == Spec => []TypeOK
  <1>1. IInv => TypeOK
    BY DEF IInv
  <1> QED BY <1>1, Invariance, PTL

\* The maps sessions and byDevice agree, for any number of concurrent
\* streams of any number of devices.
THEOREM RegistryAgrees == Spec => []RegistryConsistent
  <1>1. IInv => RegistryConsistent
    BY DEF IInv
  <1> QED BY <1>1, Invariance, PTL

\* No route leads to a session that is gone or that has another address,
\* and the server's own route is never lost.
THEOREM RoutesAreLive == Spec => []RoutesLeadToSessions
  <1>1. IInv => RoutesLeadToSessions
    BY DEF IInv
  <1> QED BY <1>1, Invariance, PTL

\* A session is registered only while the handler that will remove it runs.
THEOREM SessionsHaveHandlers == Spec => []NoOrphanSession
  <1>1. IInv => NoOrphanSession
    BY DEF IInv
  <1> QED BY <1>1, Invariance, PTL

\* No step but the owner's Remove or a newer Register of the same device
\* takes a device's current session away.
THEOREM SessionGivenUpByOwner == Spec => OnlyOwnerGivesUpSession
  <1>1. IInv /\ [Next]_vars => [GiveUpStep]_vars
    <2> SUFFICES ASSUME IInv, Next, NEW d \in Devices,
                        byDevice[d] # None, byDevice'[d] # byDevice[d]
                 PROVE  \/ pc[byDevice[d]] = "removing" /\ pc'[byDevice[d]] = "free"
                        \/ \E s \in Streams :
                              /\ s # byDevice[d] /\ device[s] = d
                              /\ pc[s] = "loaded" /\ byDevice'[d] = s
      BY DEF GiveUpStep
    <2>1. PICK s \in Streams : Register(s) \/ Remove(s)
      BY DEF Next, HandlerStep, SetDeviceVirtualIP, RevokeDevice, Verify,
         LoadDevice, RegisterRefused, ConnectFailed, Connected, Ping, Expire,
         DataExpiry, StreamLost, DeviceDisconnected, registryVars
    <2>2. device[s] \in Devices
      BY <2>1 DEF Register, Remove, IInv, HandlersWellFormed
    <2>3. CASE Register(s)
      <3>1. d = device[s] /\ byDevice'[d] = s
        BY <2>2, <2>3 DEF Register, IInv, TypeOK
      <3>2. s # byDevice[d]
        BY <3>1
      <3> QED BY <2>3, <3>1, <3>2 DEF Register
    <2>4. CASE Remove(s)
      <3>1. OwnsCurrentSession(s)
        BY <2>4 DEF Remove, registryVars
      <3>2. d = device[s] /\ byDevice[d] = s
        BY <2>2, <2>4, <3>1 DEF Remove, OwnsCurrentSession, IInv, TypeOK
      <3> QED BY <2>4, <3>2 DEF Remove, Return, Goto, IInv, TypeOK
    <2> QED BY <2>1, <2>3, <2>4
  <1> QED BY <1>1, Invariance, PTL DEF Spec, OnlyOwnerGivesUpSession

-----------------------------------------------------------------------------
(* Presence.                                                               *)

\* The streams of a device that are between deviceConnected and
\* deviceDisconnected.
Present(d) == {s \in Streams : device[s] = d /\ pc[s] \in {"open", "closing"}}

\* The steps that neither open nor close a stream leave these sets alone.
LEMMA PresentUnchanged ==
    ASSUME IInv, [Next]_vars, NEW d \in Devices,
           ~\E s \in Streams : Connected(s) \/ DeviceDisconnected(s)
    PROVE  Present(d)' = Present(d) /\ connections'[d] = connections[d]
  <1>1. ASSUME NEW s \in Streams, Return(s), pc[s] \notin {"open", "closing"}
        PROVE  Present(d)' = Present(d)
    BY <1>1 DEF Return, Goto, Present, IInv, TypeOK
  <1>2. ASSUME NEW s \in Streams,
               RegisterRefused(s) \/ ConnectFailed(s) \/ Remove(s)
        PROVE  Present(d)' = Present(d) /\ connections' = connections
    BY <1>1, <1>2 DEF RegisterRefused, ConnectFailed, Remove
  <1>3. ASSUME NEW s \in Streams,
               LoadDevice(s) \/ Register(s) \/ Ping(s) \/ DataExpiry(s)
               \/ StreamLost(s) \/ Expire(s)
        PROVE  Present(d)' = Present(d) /\ connections' = connections
    BY <1>3 DEF LoadDevice, Register, Ping, DataExpiry, StreamLost, Expire, Goto,
       Present, IInv, TypeOK
  <1>4. ASSUME NEW s \in Streams, NEW e \in Devices, Verify(s, e)
        PROVE  Present(d)' = Present(d) /\ connections' = connections
    BY <1>4 DEF Verify, Goto, Present, IInv, TypeOK
  <1>5. ASSUME NEW e \in Devices,
               RevokeDevice(e) \/ \E a \in Addresses : SetDeviceVirtualIP(e, a)
        PROVE  Present(d)' = Present(d) /\ connections' = connections
    BY <1>5 DEF RevokeDevice, SetDeviceVirtualIP, handlerVars, Present
  <1>6. CASE UNCHANGED vars
    BY <1>6 DEF vars, handlerVars, Present
  <1> QED BY <1>2, <1>3, <1>4, <1>5, <1>6 DEF Next, HandlerStep

\* The presence counter of a device is the number of its open streams: the
\* calls of deviceConnected and deviceDisconnected stay paired however many
\* streams of the device come and go at once.
THEOREM PresenceIsExact ==
    ASSUME IsFiniteSet(Streams)
    PROVE  Spec => []PresenceExact
  <1>1. PresenceExact <=> \A d \in Devices : connections[d] = Cardinality(Present(d))
    BY DEF PresenceExact, Present
  <1>2. Init => PresenceExact
    <2> SUFFICES ASSUME Init, NEW d \in Devices
                 PROVE  connections[d] = Cardinality(Present(d))
      BY <1>1
    <2>1. Present(d) = {}
      BY DEF Init, Present
    <2> QED BY <2>1, FS_EmptySet DEF Init
  <1>3. IInv /\ PresenceExact /\ [Next]_vars => PresenceExact'
    <2> SUFFICES ASSUME IInv, PresenceExact, [Next]_vars, NEW d \in Devices
                 PROVE  connections'[d] = Cardinality(Present(d)')
      BY DEF PresenceExact, Present
    <2>1. /\ connections[d] = Cardinality(Present(d))
          /\ IsFiniteSet(Present(d))
      BY <1>1, FS_Subset DEF Present
    <2>2. CASE \E s \in Streams : Connected(s)
      <3>1. PICK s \in Streams : Connected(s)
        BY <2>2
      <3>2. /\ device[s] \in Devices /\ pc[s] \in {"loaded", "registered"}
            /\ device' = device /\ pc' = [pc EXCEPT ![s] = "open"]
            /\ connections' = [connections EXCEPT ![device[s]] = @ + 1]
        BY <3>1 DEF Connected, Goto, IInv, HandlersWellFormed
      <3>3. CASE d = device[s]
        <4>1. Present(d)' = Present(d) \cup {s} /\ s \notin Present(d)
          BY <3>2, <3>3 DEF Present, IInv, TypeOK
        <4>2. Cardinality(Present(d) \cup {s}) = Cardinality(Present(d)) + 1
          BY <2>1, <4>1, FS_AddElement
        <4>3. connections'[d] = connections[d] + 1
          BY <3>2, <3>3 DEF IInv, TypeOK
        <4> QED BY <2>1, <4>1, <4>2, <4>3
      <3>4. CASE d # device[s]
        <4>1. Present(d)' = Present(d)
          BY <3>2, <3>4 DEF Present, IInv, TypeOK
        <4> QED BY <2>1, <3>2, <3>4, <4>1 DEF IInv, TypeOK
      <3> QED BY <3>3, <3>4
    <2>3. CASE \E s \in Streams : DeviceDisconnected(s)
      <3>1. PICK s \in Streams : DeviceDisconnected(s)
        BY <2>3
      <3>2. /\ device[s] \in Devices /\ pc[s] = "closing"
            /\ \A t \in Streams \ {s} : device'[t] = device[t] /\ pc'[t] = pc[t]
            /\ pc'[s] \notin {"open", "closing"}
            /\ connections' =
                  [connections EXCEPT ![device[s]] = IF @ <= 1 THEN 0 ELSE @ - 1]
        BY <3>1 DEF DeviceDisconnected, ConnectionsWithout, Return, Goto, IInv,
           TypeOK, HandlersWellFormed
      <3>3. CASE d = device[s]
        <4>1. Present(d)' = Present(d) \ {s} /\ s \in Present(d)
          BY <3>2, <3>3 DEF Present
        <4>2. Cardinality(Present(d) \ {s}) = Cardinality(Present(d)) - 1
          BY <2>1, <4>1, FS_RemoveElement
        <4>3. Cardinality(Present(d)) \in Nat /\ Cardinality(Present(d) \ {s}) \in Nat
          BY <2>1, FS_CardinalityType, FS_RemoveElement
        <4>4. connections'[d] = IF connections[d] <= 1 THEN 0 ELSE connections[d] - 1
          BY <3>2, <3>3 DEF IInv, TypeOK
        <4> QED BY <2>1, <4>1, <4>2, <4>3, <4>4
      <3>4. CASE d # device[s]
        <4>1. Present(d)' = Present(d)
          BY <3>2, <3>4 DEF Present
        <4> QED BY <2>1, <3>2, <3>4, <4>1 DEF IInv, TypeOK
      <3> QED BY <3>3, <3>4
    <2> QED BY <2>1, <2>2, <2>3, PresentUnchanged
  <1> QED BY <1>2, <1>3, Invariance, PTL DEF Spec

-----------------------------------------------------------------------------
(* Reachability while no address passes from one device to another.        *)

\* At most one device changes its address, so it can take no other's.
OneMover == \A d, e \in Movable : d = e

\* Devices have distinct addresses; a handler of a device that does not move
\* works with the address of its device's row, and no handler works with the
\* address of another device.
AddressesApart ==
    /\ \A d, e \in Devices : d # e => virtualIP[d] # virtualIP[e]
    /\ \A s \in Streams : pc[s] \notin {"free", "verified"} =>
          /\ device[s] \notin Movable => ip[s] = virtualIP[device[s]]
          /\ \A e \in Devices : e # device[s] => ip[s] # virtualIP[e]

\* In such a state two registered sessions have different addresses.
LEMMA DistinctAddresses ==
    ASSUME OneMover, IInv, AddressesApart, NEW s \in Streams, NEW t \in Streams,
           pc[s] \notin {"free", "verified"}, pc[t] \notin {"free", "verified"},
           device[s] # device[t]
    PROVE  ip[s] # ip[t]
  BY DEF OneMover, IInv, HandlersWellFormed, AddressesApart

\* While at most one device changes its address, every registered session
\* keeps its route.
THEOREM ReachableWithOneMover ==
    ASSUME OneMover
    PROVE  Spec => []SessionsReachable
  <1> DEFINE RInv == AddressesApart /\ SessionsReachable
  <1>1. Init => RInv
    BY DEF Init, AddressesApart, SessionsReachable
  <1>2. IInv /\ RInv /\ [Next]_vars => RInv'
    <2> SUFFICES ASSUME IInv, AddressesApart, SessionsReachable, [Next]_vars
                 PROVE  AddressesApart' /\ SessionsReachable'
      OBVIOUS
    <2>0. CASE \E d \in Devices, a \in Addresses : SetDeviceVirtualIP(d, a)
      <3>1. PICK d \in Devices, a \in Addresses : SetDeviceVirtualIP(d, a)
        BY <2>0
      <3>2. /\ d \in Movable /\ UNCHANGED <<pc, device, ip, sessions, peers>>
            /\ virtualIP' = [virtualIP EXCEPT ![d] = a]
            /\ \A e \in Devices \ {d} : virtualIP[e] # a
        BY <3>1 DEF SetDeviceVirtualIP, handlerVars, registryVars
      <3>3. \A e \in Devices : virtualIP'[e] = IF e = d THEN a ELSE virtualIP[e]
        BY <3>2 DEF IInv, TypeOK
      <3>4. \A e, f \in Devices : e # f => virtualIP'[e] # virtualIP'[f]
        BY <3>2, <3>3 DEF AddressesApart
      <3>5. ASSUME NEW s \in Streams, pc[s] \notin {"free", "verified"}
            PROVE  /\ device[s] \notin Movable => ip[s] = virtualIP'[device[s]]
                   /\ \A e \in Devices : e # device[s] => ip[s] # virtualIP'[e]
        <4>1. device[s] \in Devices
          BY <3>5 DEF IInv, HandlersWellFormed
        <4>2. device[s] # d => device[s] \notin Movable
          BY <3>2 DEF OneMover
        <4> QED BY <3>2, <3>3, <3>5, <4>1, <4>2 DEF AddressesApart
      <3>6. AddressesApart'
        BY <3>2, <3>4, <3>5 DEF AddressesApart
      <3> QED BY <3>2, <3>6 DEF SessionsReachable
    <2>a. SUFFICES ASSUME ~\E d \in Devices, a \in Addresses :
                               SetDeviceVirtualIP(d, a)
                   PROVE  AddressesApart' /\ SessionsReachable'
      BY <2>0
    <2>1. AddressesApart'
      <3>1. virtualIP' = virtualIP
        BY <2>a DEF Next, HandlerStep, RevokeDevice, Verify, LoadDevice,
           Register, RegisterRefused, ConnectFailed, Connected, Ping, Expire,
           DataExpiry, StreamLost, DeviceDisconnected, Remove, vars, storeVars
      <3>2. ASSUME NEW s \in Streams, pc'[s] \notin {"free", "verified"}
            PROVE  /\ device'[s] \notin Movable => ip'[s] = virtualIP[device'[s]]
                   /\ \A e \in Devices : e # device'[s] => ip'[s] # virtualIP[e]
        <4>1. CASE \E t \in Streams : LoadDevice(t)
          <5>1. PICK t \in Streams : LoadDevice(t)
            BY <4>1
          <5>2. device[t] \in Devices
            BY <5>1 DEF LoadDevice, IInv, HandlersWellFormed
          <5>3. CASE s = t
            BY <5>1, <5>2, <5>3 DEF LoadDevice, IInv, TypeOK, AddressesApart
          <5>4. CASE s # t
            BY <5>1, <3>2, <5>4 DEF LoadDevice, Goto, IInv, TypeOK, AddressesApart
          <5> QED BY <5>3, <5>4
        <4>2. CASE \E t \in Streams, d \in Devices : Verify(t, d)
          <5>1. PICK t \in Streams, d \in Devices : Verify(t, d)
            BY <4>2
          <5> QED BY <5>1, <3>2 DEF Verify, Goto, IInv, TypeOK, AddressesApart
        <4>3. CASE \E t \in Streams : /\ Return(t)
          <5>1. PICK t \in Streams : Return(t)
            BY <4>3
          <5> QED BY <5>1, <3>2 DEF Return, Goto, IInv, TypeOK, AddressesApart
        <4>4. CASE /\ UNCHANGED <<device, ip>>
                   /\ \/ UNCHANGED pc
                      \/ \E t \in Streams, l \in Locations :
                            Goto(t, l) /\ pc[t] \notin {"free", "verified"}
          BY <4>4, <3>2 DEF Goto, IInv, TypeOK, AddressesApart
        <4> QED
          <5>1. ASSUME NEW t \in Streams,
                       \/ Register(t) \/ Connected(t) \/ Ping(t) \/ Expire(t)
                       \/ DataExpiry(t) \/ StreamLost(t)
                       \/ DeviceDisconnected(t) /\ t \in secure
                PROVE  /\ UNCHANGED <<device, ip>>
                       /\ \/ UNCHANGED pc
                          \/ \E u \in Streams, l \in Locations :
                                Goto(u, l) /\ pc[u] \notin {"free", "verified"}
            <6>1. UNCHANGED <<device, ip>>
              BY <5>1 DEF Register, Connected, Ping, Expire, DataExpiry,
                 StreamLost, DeviceDisconnected
            <6>2. \/ UNCHANGED pc
                  \/ /\ pc[t] \notin {"free", "verified"}
                     /\ \/ Goto(t, "registered") \/ Goto(t, "open")
                        \/ Goto(t, "closing") \/ Goto(t, "removing")
              BY <5>1 DEF Register, Connected, Ping, Expire, DataExpiry,
                 StreamLost, DeviceDisconnected
            <6> QED BY <6>1, <6>2 DEF Locations
          <5>2. ASSUME NEW t \in Streams,
                       \/ RegisterRefused(t) \/ ConnectFailed(t) \/ Remove(t)
                       \/ DeviceDisconnected(t) /\ t \notin secure
                PROVE  Return(t)
            BY <5>2 DEF RegisterRefused, ConnectFailed, Remove, DeviceDisconnected
          <5>3. ASSUME NEW d \in Devices, RevokeDevice(d)
                PROVE  UNCHANGED <<device, ip, pc>>
            BY <5>3 DEF RevokeDevice, handlerVars
          <5>4. CASE UNCHANGED vars
            BY <4>4, <5>4 DEF vars, handlerVars
          <5> QED BY <2>a, <4>1, <4>2, <4>3, <4>4, <5>1, <5>2, <5>3, <5>4
                  DEF Next, HandlerStep
      <3> QED BY <3>1, <3>2 DEF AddressesApart
    <2>2. SessionsReachable'
      <3>1. CASE \E s \in Streams : Register(s)
        <4>1. PICK s \in Streams : Register(s)
          BY <3>1
        <4>2. /\ pc[s] = "loaded" /\ device[s] \in Devices /\ ip[s] \in Addresses
          BY <4>1 DEF Register, IInv, HandlersWellFormed
        <4> DEFINE old == byDevice[device[s]]
                   oldIP == IF old = None THEN None ELSE ip[old]
        <4>3. /\ sessions' = (sessions \ {old}) \cup {s} /\ ip' = ip
              /\ peers' = [a \in Addresses |-> IF a = ip[s] THEN s
                             ELSE IF a = oldIP THEN None ELSE peers[a]]
          BY <4>1 DEF Register, RegisteredSessions, RegisteredPeers
        <4>4. ASSUME NEW t \in sessions', t # s
              PROVE  peers'[ip[t]] = t
          <5>1. /\ t \in sessions /\ t # old /\ t \in Streams
                /\ byDevice[device[t]] = t
                /\ pc[t] \notin {"free", "verified"} /\ ip[t] \in Addresses
            BY <4>3, <4>4 DEF IInv, TypeOK, RegistryConsistent, NoOrphanSession,
               HandlersWellFormed
          <5>2. device[t] # device[s] /\ ip[t] # ip[s]
            <6>1. device[t] # device[s]
              BY <5>1
            <6> QED BY <4>2, <5>1, <6>1, DistinctAddresses
          <5>3. ip[t] # oldIP
            <6>1. CASE old = None
              BY <5>1, <6>1, NoneAssumption
            <6>2. CASE old # None
              <7>1. old \in sessions /\ device[old] = device[s]
                BY <4>2, <6>2 DEF IInv, RegistryConsistent
              <7>2. old \in Streams /\ pc[old] \notin {"free", "verified"}
                BY <7>1 DEF IInv, TypeOK, NoOrphanSession
              <7> QED BY <5>1, <5>2, <6>2, <7>1, <7>2, DistinctAddresses
            <6> QED BY <6>1, <6>2
          <5> QED BY <4>3, <5>1, <5>2, <5>3 DEF SessionsReachable
        <4> QED BY <4>2, <4>3, <4>4 DEF SessionsReachable
      <3>2. CASE \E s \in Streams : Remove(s)
        <4>1. PICK s \in Streams : Remove(s)
          BY <3>2
        <4>2. /\ pc[s] = "removing" /\ device[s] \in Devices /\ ip[s] \in Addresses
              /\ ip' = [ip EXCEPT ![s] = None]
          BY <4>1 DEF Remove, Return, IInv, HandlersWellFormed
        <4>3. CASE OwnsCurrentSession(s)
          <5>1. /\ sessions' = sessions \ {s}
                /\ peers' = [peers EXCEPT ![ip[s]] = None]
            BY <4>1, <4>3 DEF Remove, OwnsCurrentSession, PeersWithout
          <5>2. ASSUME NEW t \in sessions'
                PROVE  peers'[ip'[t]] = t
            <6>1. /\ t \in sessions /\ t # s /\ t \in Streams
                  /\ byDevice[device[t]] = t
                  /\ pc[t] \notin {"free", "verified"} /\ ip[t] \in Addresses
              BY <5>1 DEF IInv, TypeOK, RegistryConsistent, NoOrphanSession,
                 HandlersWellFormed
            <6>2. device[t] # device[s]
              BY <4>3, <6>1 DEF OwnsCurrentSession
            <6>3. ip[t] # ip[s]
              BY <4>2, <6>1, <6>2, DistinctAddresses
            <6> QED BY <4>2, <5>1, <6>1, <6>3 DEF IInv, TypeOK, SessionsReachable
          <5> QED BY <5>2 DEF SessionsReachable
        <4>4. CASE ~OwnsCurrentSession(s)
          <5>1. s \notin sessions /\ UNCHANGED registryVars
            BY <4>1, <4>4 DEF Remove, OwnsCurrentSession, IInv, RegistryConsistent
          <5> QED BY <4>2, <5>1 DEF registryVars, SessionsReachable, IInv, TypeOK
        <4> QED BY <4>3, <4>4
      <3>3. CASE /\ UNCHANGED registryVars
                 /\ \A t \in sessions : ip'[t] = ip[t]
        BY <3>3 DEF registryVars, SessionsReachable
      <3>4. ASSUME NEW s \in Streams,
                   \/ LoadDevice(s) \/ RegisterRefused(s) \/ ConnectFailed(s)
                   \/ Connected(s) \/ Ping(s) \/ Expire(s) \/ DataExpiry(s)
                   \/ StreamLost(s) \/ DeviceDisconnected(s)
            PROVE  /\ UNCHANGED registryVars
                   /\ \A t \in sessions : ip'[t] = ip[t]
        <4>1. CASE LoadDevice(s) \/ RegisterRefused(s) \/ ConnectFailed(s)
          <5>1. s \notin sessions
            BY <4>1 DEF LoadDevice, RegisterRefused, ConnectFailed, IInv,
               NoOrphanSession
          <5> QED BY <4>1, <5>1 DEF LoadDevice, RegisterRefused, ConnectFailed,
                  Return, IInv, TypeOK
        <4>2. CASE Connected(s) \/ Ping(s) \/ Expire(s) \/ DataExpiry(s) \/ StreamLost(s)
          BY <4>2 DEF Connected, Ping, Expire, DataExpiry, StreamLost
        <4>3. CASE DeviceDisconnected(s)
          <5>1. s \notin secure => s \notin sessions
            BY DEF IInv, NoOrphanSession
          <5> QED BY <4>3, <5>1 DEF DeviceDisconnected, Return, IInv, TypeOK
        <4> QED BY <3>4, <4>1, <4>2, <4>3
      <3>5. ASSUME NEW d \in Devices,
                   RevokeDevice(d) \/ \E s \in Streams : Verify(s, d)
            PROVE  UNCHANGED <<registryVars, ip>>
        BY <3>5 DEF RevokeDevice, Verify, handlerVars
      <3>6. CASE UNCHANGED vars
        BY <3>3, <3>6 DEF vars, handlerVars
      <3> QED BY <2>a, <3>1, <3>2, <3>3, <3>4, <3>5, <3>6 DEF Next, HandlerStep
    <2> QED BY <2>1, <2>2
  <1>3. RInv => SessionsReachable
    OBVIOUS
  <1> QED BY <1>1, <1>2, <1>3, Invariance, PTL DEF Spec
==============================================================================
