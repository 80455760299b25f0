----------------------- MODULE ClientLifecycleProofs -----------------------
(***************************************************************************)
(* Proofs about ClientLifecycle, for any set of addresses and any number   *)
(* of devices, restarts included.                                          *)
(*                                                                         *)
(* What a setup or a reset does meets Run at every point, so none of the   *)
(* three invariants is inductive.  WaitingIsClean needs what Run has done  *)
(* by the time it waits.  The other two need, for every phase of a setup   *)
(* or reset, what is on disk and in memory by then, and that an update     *)
(* starts only for a client that has a device: a stream that may still     *)
(* deliver one was opened with a server's URL (ConnectedHasDevice), and a  *)
(* reset removes the URL and cancels the stream before it clears the       *)
(* State.                                                                  *)
(***************************************************************************)
EXTENDS ClientLifecycle, TLAPS

\* The phases in which Run applies an update: from the State it has changed on,
\* and until it has read the State again.
Updating == {"write", "adapter", "release", "reopen", "plane", "read", "bind"}

\* What Run has closed by the time it waits.
ClosedBeforeWait ==
    /\ run.at \in {"start", "closeAdapter", "wait"} => plane = None /\ ~state.planeReady
    /\ run.at \in {"start", "wait"} => adapter = None /\ ~state.adapterReady

\* A client that knows its device is configured; whatever names a device names
\* an address as well.  An update that a reset has overtaken may leave an
\* identity without a device.
DeviceIsConfigured ==
    /\ state.dev # NoDevice => state.configured /\ state.ip # None
    /\ identity # None => identity.ip # None
    /\ ui.at \in {"save", "publish"} => ui.dev # NoDevice /\ ui.ip # None
    /\ run.at \in {"apply"} \union (Updating \ {"bind"}) => run.ip # None
    /\ run.at \in {"read", "bind"} => run.adapter # 0
    /\ run.at \notin {"read", "bind"} => run.adapter = 0
    /\ run.at = "bind" => (run.dev # NoDevice => run.ip # None)

\* A stream that may deliver an update belongs to a device that is configured;
\* a reset takes the URL away before it clears the State.
ConnectedHasDevice ==
    /\ run.at \in Busy \union {"stream"} /\ conn = "armed" => url /\ state.dev # NoDevice
    /\ ui.at \in {"closePlane", "closeAdapter", "clear", "forget"} => ~url

\* Without an identity the client is not configured, except while a reset has
\* removed the one and not yet cleared the other.
ConfiguredHasIdentity ==
    /\ ui.at \in {"idle", "notify", "remove"} \union (Enrolling \ {"publish"}) =>
         (identity = None => ~state.configured)
    /\ ui.at = "publish" => identity # None
    /\ ui.at = "forget" => ~state.configured
    /\ run.at = "start" /\ ui.at \in Leaving \ {"remove"} => identity = None

Invariant ==
    /\ TypeOK /\ ClosedBeforeWait /\ DeviceIsConfigured /\ ConnectedHasDevice
    /\ ConfiguredHasIdentity

\* What identity.json holds in every phase of a setup or reset.
IdentityByPhase ==
    /\ ui.at \in {"idle", "notify", "remove"} =>
         /\ state.configured =>
              identity # None /\ identity.dev = state.dev /\ identity.key = key
         /\ ~state.configured /\ run.at # "start" => identity = None
    /\ ui.at \in {"config", "join", "enroll", "save"} => identity = None /\ ~state.configured
    /\ ui.at = "publish" =>
         /\ identity # None /\ identity.dev = ui.dev /\ identity.key = ui.dev
         /\ state.configured => state.dev = ui.dev /\ key = ui.dev
    /\ ui.at \in {"cancel", "closePlane", "closeAdapter", "clear", "forget"} => identity = None
    /\ ui.at = "forget" => ~state.configured

\* An update runs undisturbed: no setup has begun, and no reset has removed
\* anything yet.
UpdateUndisturbed ==
    /\ run.at \in {"apply"} \union Updating =>
         ui.at \in {"idle", "remove"} /\ state.configured /\ state.dev # NoDevice
    /\ run.at \in Updating => run.dev = state.dev /\ run.ip = state.ip

\* The data plane and the adapter in every phase of an update and of a setup
\* or reset.
PlaneByPhase ==
    /\ plane # None =>
         /\ state.configured /\ plane.dev = state.dev
         /\ adapter # None /\ plane.adapter = adapter.no /\ plane.ip = adapter.ip
    /\ run.at = "reopen" => plane = None
    /\ run.at \in {"plane", "read", "bind"} => adapter # None /\ adapter.ip = run.ip
    /\ run.at \in {"read", "bind"} => run.adapter = adapter.no
    /\ ui.at \in (Enrolling \ {"notify"}) \union {"closeAdapter", "clear", "forget"} => plane = None

\* An overlap spoils both files and tunnel; the first reset to begin undisturbed
\* and the next wait of Run each make good one of them.
PhaseInv ==
    /\ overtaken # Overlap => UpdateUndisturbed
    /\ "identity" \notin overtaken => IdentityByPhase
    /\ "tunnel" \notin overtaken => PlaneByPhase

-----------------------------------------------------------------------------
(* Types.                                                                  *)

\* The updates of the State keep it a State.
LEMMA StateUpdates ==
    ASSUME NEW s \in States
    PROVE  /\ [s EXCEPT !.planeReady = FALSE] \in States
           /\ [s EXCEPT !.adapterReady = FALSE] \in States
           /\ [s EXCEPT !.planeReady = TRUE] \in States
           /\ [s EXCEPT !.adapterReady = TRUE] \in States
           /\ [s EXCEPT !.connected = TRUE] \in States
           /\ [s EXCEPT !.connected = FALSE] \in States
           /\ \A i \in IPs \union {None} : [s EXCEPT !.ip = i] \in States
           /\ \A d \in Devices \union {NoDevice}, i \in IPs \union {None} :
                 [s EXCEPT !.dev = d, !.ip = i, !.configured = TRUE] \in States
           /\ NoState \in States
BY DEF States, NoState

\* The moves of Run keep its local variables typed.
LEMMA RunUpdates ==
    /\ \A pc \in RunPhases : At(pc) \in Runs
    /\ \A r \in Runs, pc \in RunPhases : [r EXCEPT !.at = pc] \in Runs
    /\ \A b \in BOOLEAN : [At("ended") EXCEPT !.err = b] \in Runs
    /\ \A i \in IPs : [At("apply") EXCEPT !.ip = i] \in Runs
    /\ \A r \in Runs, pc \in RunPhases, d \in Devices \union {NoDevice} :
          [r EXCEPT !.at = pc, !.dev = d] \in Runs
    /\ \A r \in Runs, pc \in RunPhases, a \in Adapters : [r EXCEPT !.at = pc, !.adapter = a] \in Runs
    /\ \A r \in Runs, pc \in RunPhases, d \in Devices \union {NoDevice}, i \in IPs \union {None} :
          [r EXCEPT !.at = pc, !.dev = d, !.ip = i] \in Runs
<1>1. /\ \A pc \in RunPhases : At(pc) \in Runs
      /\ "ended" \in RunPhases /\ "apply" \in RunPhases
  BY DEF Runs, At, RunPhases, Busy
<1>2. \A r \in Runs, pc \in RunPhases : [r EXCEPT !.at = pc] \in Runs
  BY DEF Runs
<1>3. \A b \in BOOLEAN : [At("ended") EXCEPT !.err = b] \in Runs
  BY <1>1 DEF Runs
<1>4. \A i \in IPs : [At("apply") EXCEPT !.ip = i] \in Runs
  BY <1>1 DEF Runs
<1>5. \A r \in Runs, pc \in RunPhases, d \in Devices \union {NoDevice} :
        [r EXCEPT !.at = pc, !.dev = d] \in Runs
  BY DEF Runs
<1>6. \A r \in Runs, pc \in RunPhases, a \in Adapters :
        [r EXCEPT !.at = pc, !.adapter = a] \in Runs
  BY DEF Runs
<1>7. \A r \in Runs, pc \in RunPhases, d \in Devices \union {NoDevice}, i \in IPs \union {None} :
        [r EXCEPT !.at = pc, !.dev = d, !.ip = i] \in Runs
  BY DEF Runs
<1> QED BY <1>1, <1>2, <1>3, <1>4, <1>5, <1>6, <1>7

\* The moves of a setup or reset keep its local variables typed.
LEMMA HandlerUpdates ==
    /\ Idle \in Handlers
    /\ \A u \in Handlers, pc \in HandlerPhases : [u EXCEPT !.at = pc] \in Handlers
    /\ \A pc \in HandlerPhases, d \in Devices, i \in IPs :
          [at |-> pc, dev |-> d, ip |-> i] \in Handlers
BY DEF Handlers, HandlerPhases, Idle, Leaving, Enrolling

\* The types of the fields that the steps copy.
LEMMA Fields ==
    ASSUME TypeOK
    PROVE  /\ identity # None => /\ identity.dev \in Devices \union {NoDevice}
                                 /\ identity.ip \in IPs \union {None}
                                 /\ identity.key \in Devices \union {NoDevice}
           /\ state.dev \in Devices \union {NoDevice} /\ state.ip \in IPs \union {None}
           /\ run.dev \in Devices \union {NoDevice} /\ run.ip \in IPs \union {None}
           /\ run.adapter \in Adapters \union {0}
           /\ ui.dev \in Devices \union {NoDevice} /\ ui.ip \in IPs \union {None}
           /\ adapter # None => adapter.no \in Adapters
BY DEF TypeOK, Identities, States, Runs, Handlers, OpenAdapters

\* What the steps put together is well typed.
LEMMA Built ==
    /\ \A d, k \in Devices \union {NoDevice}, i \in IPs \union {None} : Identity(d, i, k) \in Identities
    /\ \A n \in Adapters, i \in IPs : [no |-> n, ip |-> i] \in OpenAdapters
    /\ \A n \in Adapters, d \in Devices, i \in IPs : [adapter |-> n, dev |-> d, ip |-> i] \in Planes
BY DEF Identity, Identities, OpenAdapters, Planes

\* Three numbers are enough to name a new adapter.
LEMMA FreshIsNew ==
    ASSUME run.adapter = 0
    PROVE  Fresh \in Adapters
<1>1. 1 \in Adapters /\ 2 \in Adapters /\ 3 \in Adapters /\ 0 \notin Adapters
  BY DEF Adapters
<1> QED BY <1>1 DEF Fresh

\* Every step keeps the types.
LEMMA TypeNext ==
    ASSUME Invariant, [Next]_vars
    PROVE  TypeOK'
<1> USE StateUpdates, RunUpdates, HandlerUpdates DEF Invariant, TypeOK, disk, tunnel
<1>0. /\ RunPhases = {"start", "top", "closePlane", "closeAdapter", "wait", "arm", "dial",
                      "stream", "ended", "backoff", "accepted", "apply", "write", "adapter",
                      "release", "reopen", "plane", "read", "bind"}
      /\ HandlerPhases = {"idle", "config", "join", "enroll", "save", "publish", "notify",
                          "remove", "cancel", "closePlane", "closeAdapter", "clear", "forget"}
  BY DEF RunPhases, Busy, HandlerPhases, Enrolling, Leaving
<1>1. CASE Load
  <2>1. state' \in States /\ key' \in Devices \union {NoDevice}
    <3>1. CASE identity = None
      BY <1>1, <3>1 DEF Load
    <3>2. CASE identity # None
      <4>1. key' = identity.key /\ identity.key \in Devices \union {NoDevice}
        BY <1>1, <3>2, Fields DEF Load
      <4>2. state' = [state EXCEPT !.dev = identity.dev, !.ip = identity.ip,
                                   !.configured = TRUE]
        BY <1>1, <3>2 DEF Load
      <4>3. /\ state \in States
            /\ identity.dev \in Devices \union {NoDevice} /\ identity.ip \in IPs \union {None}
        BY <3>2, Fields
      <4>4. state' \in States
        BY ONLY <4>2, <4>3, StateUpdates
      <4> QED BY <4>1, <4>4
    <3> QED BY <3>1, <3>2
  <2> QED BY <1>1, <1>0, <2>1 DEF Load
<1>2. CASE Top
  BY <1>2, <1>0 DEF Top
<1>3. CASE RunClosesPlane
  BY <1>3, <1>0 DEF RunClosesPlane, ClosePlane
<1>4. CASE RunClosesAdapter
  BY <1>4, <1>0 DEF RunClosesAdapter, CloseAdapter
<1>5. CASE Wake
  BY <1>5, <1>0 DEF Wake
<1>6. CASE Arm
  BY <1>6, <1>0 DEF Arm
<1>7. CASE Dial
  BY <1>7, <1>0 DEF Dial
<1>8. CASE DialFails
  BY <1>8, <1>0 DEF DialFails, Ends
<1>9. CASE Accepted
  BY <1>9, <1>0 DEF Accepted
<1>10. CASE Ended
  BY <1>10, <1>0 DEF Ended
<1>11. CASE Backoff
  BY <1>11, <1>0 DEF Backoff
<1>12. CASE SaveIdentity
  BY <1>12, <1>0, Fields, Built DEF SaveIdentity
<1>13. CASE CheckAdapter
  BY <1>13, <1>0 DEF CheckAdapter
<1>14. CASE OpenAdapter
  <2>1. run.ip \in IPs /\ run.adapter = 0
    BY <1>14, Fields DEF OpenAdapter, DeviceIsConfigured, Updating
  <2> QED BY <1>14, <1>0, <2>1, FreshIsNew, Built DEF OpenAdapter
<1>15. CASE OpenAdapterFails
  BY <1>15, <1>0 DEF OpenAdapterFails, Ends
<1>16. CASE NoBootstrap
  BY <1>16, <1>0 DEF NoBootstrap
<1>17. CASE TakeAdapter
  <2>1. adapter.no \in Adapters /\ "read" \in RunPhases
    BY <1>17, <1>0, Fields DEF TakeAdapter
  <2>2. run' \in Runs
    BY <1>17, <2>1, Fields DEF TakeAdapter
  <2> QED BY <1>17, <2>2 DEF TakeAdapter
<1>18. CASE Bind
  <2>1. plane' \in Planes \union {None}
    BY <1>18, Fields, Built DEF Bind, DeviceIsConfigured, NoDevice
  <2> QED BY <1>18, <1>0, <2>1 DEF Bind, Ends
<1>19. CASE UpdateFails
  BY <1>19, <1>0 DEF UpdateFails, Ends
<1>20. CASE StreamEnds
  BY <1>20, <1>0 DEF StreamEnds, Ends
<1>21. ASSUME NEW i \in IPs, Receive(i) PROVE TypeOK'
  BY <1>21, <1>0, Fields DEF Receive
<1>22. CASE Setup
  BY <1>22, <1>0 DEF Setup, UI
<1>23. CASE JoinChecks
  BY <1>23, <1>0 DEF JoinChecks, UI
<1>24. ASSUME NEW i \in IPs, Enroll(i) PROVE TypeOK'
  <2>1. enrolled \in 0..MaxDevices /\ enrolled < MaxDevices /\ enrolled' = enrolled + 1
    BY <1>24 DEF Enroll
  <2>2. enrolled' \in Devices /\ enrolled' \in 0..MaxDevices
    BY ONLY <2>1, ClientAssumption DEF Devices
  <2> QED BY <1>24, <1>0, <2>2 DEF Enroll
<1>25. CASE JoinFails
  BY <1>25, <1>0 DEF JoinFails
<1>26. CASE JoinSaves
  BY <1>26, <1>0, Fields, Built DEF JoinSaves, UI, Overtakes
<1>27. CASE Publish
  BY <1>27, <1>0, Fields DEF Publish, UI, Overtakes
<1>28. CASE Notify
  BY <1>28, <1>0 DEF Notify
<1>29. CASE Leave
  BY <1>29, <1>0 DEF Leave, UI
<1>30. CASE RemoveIdentity
  BY <1>30, <1>0 DEF RemoveIdentity, UI
<1>31. CASE RemoveFails
  BY <1>31, <1>0 DEF RemoveFails
<1>32. CASE CancelConnection
  BY <1>32, <1>0 DEF CancelConnection, UI, Overtakes
<1>33. CASE LeaveClosesPlane
  BY <1>33, <1>0 DEF LeaveClosesPlane, UI, Overtakes, ClosePlane
<1>34. CASE LeaveClosesAdapter
  BY <1>34, <1>0 DEF LeaveClosesAdapter, UI, Overtakes, CloseAdapter
<1>35. CASE ClearState
  BY <1>35, <1>0 DEF ClearState, UI, Overtakes, NoState
<1>36. CASE SaveForgotten
  BY <1>36, <1>0 DEF SaveForgotten
<1>37. CASE Restart
  BY <1>37, <1>0 DEF Restart, NoState
<1>38. CASE UNCHANGED vars
  BY <1>38 DEF vars
<1>39. CASE Update
  BY <1>39, <1>0, Fields DEF Update
<1>40. CASE ReleasePlane
  BY <1>40, <1>0 DEF ReleasePlane, ClosePlane
<1>41. CASE ReadState
  <2>1. run' \in Runs
    <3>1. run' = [run EXCEPT !.at = "bind", !.dev = state.dev, !.ip = state.ip]
      BY <1>41 DEF ReadState
    <3>2. /\ run \in Runs /\ "bind" \in RunPhases
          /\ state.dev \in Devices \union {NoDevice} /\ state.ip \in IPs \union {None}
      BY <1>0, Fields
    <3> QED BY ONLY <3>1, <3>2, RunUpdates
  <2> QED BY <1>41, <2>1 DEF ReadState
<1>42. CASE SaveConfiguration
  BY <1>42, <1>0 DEF SaveConfiguration, UI
<1> QED
  BY <1>1, <1>2, <1>3, <1>4, <1>5, <1>6, <1>7, <1>8, <1>9, <1>10, <1>11, <1>12,
     <1>13, <1>14, <1>15, <1>16, <1>17, <1>18, <1>19, <1>20, <1>21, <1>22, <1>23,
     <1>24, <1>25, <1>26, <1>27, <1>28, <1>29, <1>30, <1>31, <1>32, <1>33, <1>34,
     <1>35, <1>36, <1>37, <1>38, <1>39, <1>40, <1>41, <1>42
  DEF Next, Running, Applying, Joining, Forgetting

-----------------------------------------------------------------------------
(* What holds however setup, reset and Run overlap.                        *)

\* Nobody but Run opens an adapter or a data plane.
LEMMA ClosedNext ==
    ASSUME Invariant, [Next]_vars
    PROVE  ClosedBeforeWait'
<1> USE DEF Invariant, TypeOK, States, Runs, ClosedBeforeWait, At, disk, tunnel
<1>1. CASE Load
  BY <1>1 DEF Load
<1>2. CASE Top
  BY <1>2 DEF Top
<1>3. CASE RunClosesPlane
  BY <1>3 DEF RunClosesPlane, ClosePlane
<1>4. CASE RunClosesAdapter
  BY <1>4 DEF RunClosesAdapter, CloseAdapter
<1>5. CASE Wake
  BY <1>5 DEF Wake
<1>6. CASE Arm
  BY <1>6 DEF Arm
<1>7. CASE Dial
  BY <1>7 DEF Dial
<1>8. CASE DialFails
  BY <1>8 DEF DialFails, Ends
<1>9. CASE Accepted
  BY <1>9 DEF Accepted
<1>10. CASE Ended
  BY <1>10 DEF Ended
<1>11. CASE Backoff
  BY <1>11 DEF Backoff
<1>12. CASE SaveIdentity
  BY <1>12 DEF SaveIdentity, Identity
<1>13. CASE CheckAdapter
  BY <1>13 DEF CheckAdapter
<1>14. CASE OpenAdapter
  BY <1>14 DEF OpenAdapter
<1>15. CASE OpenAdapterFails
  BY <1>15 DEF OpenAdapterFails, Ends
<1>16. CASE NoBootstrap
  BY <1>16 DEF NoBootstrap
<1>17. CASE TakeAdapter
  BY <1>17 DEF TakeAdapter
<1>18. CASE Bind
  BY <1>18 DEF Bind, Ends
<1>19. CASE UpdateFails
  BY <1>19 DEF UpdateFails, Ends
<1>20. CASE StreamEnds
  BY <1>20 DEF StreamEnds, Ends
<1>21. ASSUME NEW i \in IPs, Receive(i) PROVE ClosedBeforeWait'
  BY <1>21 DEF Receive
<1>22. CASE Setup
  BY <1>22 DEF Setup, UI
<1>23. CASE JoinChecks
  BY <1>23 DEF JoinChecks, UI
<1>24. ASSUME NEW i \in IPs, Enroll(i) PROVE ClosedBeforeWait'
  BY <1>24 DEF Enroll
<1>25. CASE JoinFails
  BY <1>25 DEF JoinFails
<1>26. CASE JoinSaves
  BY <1>26 DEF JoinSaves, UI, Overtakes, Identity
<1>27. CASE Publish
  BY <1>27 DEF Publish, UI, Overtakes
<1>28. CASE Notify
  BY <1>28 DEF Notify
<1>29. CASE Leave
  BY <1>29 DEF Leave, UI
<1>30. CASE RemoveIdentity
  BY <1>30 DEF RemoveIdentity, UI, Overtakes
<1>31. CASE RemoveFails
  BY <1>31 DEF RemoveFails
<1>32. CASE CancelConnection
  BY <1>32 DEF CancelConnection, UI, Overtakes
<1>33. CASE LeaveClosesPlane
  BY <1>33 DEF LeaveClosesPlane, UI, Overtakes, ClosePlane
<1>34. CASE LeaveClosesAdapter
  BY <1>34 DEF LeaveClosesAdapter, UI, Overtakes, CloseAdapter
<1>35. CASE ClearState
  BY <1>35 DEF ClearState, UI, Overtakes, NoState
<1>36. CASE SaveForgotten
  BY <1>36 DEF SaveForgotten
<1>37. CASE Restart
  BY <1>37 DEF Restart, NoState
<1>38. CASE UNCHANGED vars
  BY <1>38 DEF vars
<1>39. CASE Update
  BY <1>39 DEF Update
<1>40. CASE ReleasePlane
  BY <1>40 DEF ReleasePlane, ClosePlane
<1>41. CASE ReadState
  BY <1>41 DEF ReadState
<1>42. CASE SaveConfiguration
  BY <1>42 DEF SaveConfiguration, UI
<1> QED
  BY <1>1, <1>2, <1>3, <1>4, <1>5, <1>6, <1>7, <1>8, <1>9, <1>10, <1>11, <1>12,
     <1>13, <1>14, <1>15, <1>16, <1>17, <1>18, <1>19, <1>20, <1>21, <1>22, <1>23,
     <1>24, <1>25, <1>26, <1>27, <1>28, <1>29, <1>30, <1>31, <1>32, <1>33, <1>34,
     <1>35, <1>36, <1>37, <1>38, <1>39, <1>40, <1>41, <1>42
  DEF Next, Running, Applying, Joining, Forgetting

\* A device is named with its address, or not at all.
LEMMA DeviceNext ==
    ASSUME Invariant, [Next]_vars
    PROVE  DeviceIsConfigured'
<1> USE ClientAssumption
    DEF Invariant, TypeOK, States, Runs, Handlers, DeviceIsConfigured, Updating, At, Idle,
        disk, tunnel
<1>1. CASE Load
  <2>1. CASE identity = None
    BY <1>1, <2>1 DEF Load
  <2>2. CASE identity # None
    <3>1. state' = [state EXCEPT !.dev = identity.dev, !.ip = identity.ip, !.configured = TRUE]
      BY <1>1, <2>2 DEF Load
    <3>2. state'.dev = identity.dev /\ state'.ip = identity.ip /\ state'.configured
      BY <3>1
    <3>3. state'.ip # None
      BY <2>2, <3>2
    <3> QED BY <1>1, <3>2, <3>3 DEF Load
  <2> QED BY <2>1, <2>2
<1>2. CASE Top
  BY <1>2 DEF Top
<1>3. CASE RunClosesPlane
  BY <1>3 DEF RunClosesPlane, ClosePlane
<1>4. CASE RunClosesAdapter
  BY <1>4 DEF RunClosesAdapter, CloseAdapter
<1>5. CASE Wake
  BY <1>5 DEF Wake
<1>6. CASE Arm
  BY <1>6 DEF Arm
<1>7. CASE Dial
  BY <1>7 DEF Dial
<1>8. CASE DialFails
  BY <1>8 DEF DialFails, Ends
<1>9. CASE Accepted
  BY <1>9 DEF Accepted
<1>10. CASE Ended
  BY <1>10 DEF Ended
<1>11. CASE Backoff
  BY <1>11 DEF Backoff
<1>12. CASE SaveIdentity
  BY <1>12 DEF SaveIdentity, Identity
<1>13. CASE CheckAdapter
  BY <1>13 DEF CheckAdapter
<1>14. CASE OpenAdapter
  BY <1>14 DEF OpenAdapter
<1>15. CASE OpenAdapterFails
  BY <1>15 DEF OpenAdapterFails, Ends
<1>16. CASE NoBootstrap
  BY <1>16 DEF NoBootstrap
<1>17. CASE TakeAdapter
  <2>1. adapter.no # 0
    BY <1>17, Fields DEF TakeAdapter, Adapters
  <2> QED BY <1>17, <2>1 DEF TakeAdapter
<1>18. CASE Bind
  BY <1>18 DEF Bind, Ends
<1>19. CASE UpdateFails
  BY <1>19 DEF UpdateFails, Ends
<1>20. CASE StreamEnds
  BY <1>20 DEF StreamEnds, Ends
<1>21. ASSUME NEW i \in IPs, Receive(i) PROVE DeviceIsConfigured'
  BY <1>21 DEF Receive, ConnectedHasDevice
<1>22. CASE Setup
  BY <1>22 DEF Setup, UI
<1>23. CASE JoinChecks
  BY <1>23 DEF JoinChecks, UI
<1>24. ASSUME NEW i \in IPs, Enroll(i) PROVE DeviceIsConfigured'
  <2>1. enrolled' # NoDevice /\ i # None
    BY <1>24 DEF Enroll, NoDevice
  <2> QED BY <1>24, <2>1 DEF Enroll
<1>25. CASE JoinFails
  BY <1>25 DEF JoinFails
<1>26. CASE JoinSaves
  BY <1>26 DEF JoinSaves, UI, Overtakes, Identity
<1>27. CASE Publish
  BY <1>27 DEF Publish, UI, Overtakes
<1>28. CASE Notify
  BY <1>28 DEF Notify
<1>29. CASE Leave
  BY <1>29 DEF Leave, UI
<1>30. CASE RemoveIdentity
  BY <1>30 DEF RemoveIdentity, UI, Overtakes
<1>31. CASE RemoveFails
  BY <1>31 DEF RemoveFails
<1>32. CASE CancelConnection
  BY <1>32 DEF CancelConnection, UI, Overtakes
<1>33. CASE LeaveClosesPlane
  BY <1>33 DEF LeaveClosesPlane, UI, Overtakes, ClosePlane
<1>34. CASE LeaveClosesAdapter
  BY <1>34 DEF LeaveClosesAdapter, UI, Overtakes, CloseAdapter
<1>35. CASE ClearState
  BY <1>35 DEF ClearState, UI, Overtakes, NoState
<1>36. CASE SaveForgotten
  BY <1>36 DEF SaveForgotten
<1>37. CASE Restart
  BY <1>37 DEF Restart, NoState
<1>38. CASE UNCHANGED vars
  BY <1>38 DEF vars
<1>39. CASE Update
  BY <1>39 DEF Update
<1>40. CASE ReleasePlane
  BY <1>40 DEF ReleasePlane, ClosePlane
<1>41. CASE ReadState
  BY <1>41 DEF ReadState
<1>42. CASE SaveConfiguration
  BY <1>42 DEF SaveConfiguration, UI
<1> QED
  BY <1>1, <1>2, <1>3, <1>4, <1>5, <1>6, <1>7, <1>8, <1>9, <1>10, <1>11, <1>12,
     <1>13, <1>14, <1>15, <1>16, <1>17, <1>18, <1>19, <1>20, <1>21, <1>22, <1>23,
     <1>24, <1>25, <1>26, <1>27, <1>28, <1>29, <1>30, <1>31, <1>32, <1>33, <1>34,
     <1>35, <1>36, <1>37, <1>38, <1>39, <1>40, <1>41, <1>42
  DEF Next, Running, Applying, Joining, Forgetting

\* A reset takes the URL and the stream away before it clears the State.
LEMMA ConnectedNext ==
    ASSUME Invariant, [Next]_vars
    PROVE  ConnectedHasDevice'
<1> USE ClientAssumption
    DEF Invariant, TypeOK, States, Runs, Handlers, ConnectedHasDevice, Busy, At, Idle,
        disk, tunnel
<1>1. CASE Load
  BY <1>1 DEF Load
<1>2. CASE Top
  BY <1>2 DEF Top
<1>3. CASE RunClosesPlane
  BY <1>3 DEF RunClosesPlane, ClosePlane
<1>4. CASE RunClosesAdapter
  BY <1>4 DEF RunClosesAdapter, CloseAdapter
<1>5. CASE Wake
  BY <1>5 DEF Wake
<1>6. CASE Arm
  BY <1>6 DEF Arm
<1>7. CASE Dial
  BY <1>7 DEF Dial, DeviceIsConfigured
<1>8. CASE DialFails
  BY <1>8 DEF DialFails, Ends
<1>9. CASE Accepted
  BY <1>9 DEF Accepted
<1>10. CASE Ended
  BY <1>10 DEF Ended
<1>11. CASE Backoff
  BY <1>11 DEF Backoff
<1>12. CASE SaveIdentity
  BY <1>12 DEF SaveIdentity, Identity
<1>13. CASE CheckAdapter
  BY <1>13 DEF CheckAdapter
<1>14. CASE OpenAdapter
  BY <1>14 DEF OpenAdapter
<1>15. CASE OpenAdapterFails
  BY <1>15 DEF OpenAdapterFails, Ends
<1>16. CASE NoBootstrap
  BY <1>16 DEF NoBootstrap
<1>17. CASE TakeAdapter
  BY <1>17 DEF TakeAdapter
<1>18. CASE Bind
  BY <1>18 DEF Bind, Ends
<1>19. CASE UpdateFails
  BY <1>19 DEF UpdateFails, Ends
<1>20. CASE StreamEnds
  BY <1>20 DEF StreamEnds, Ends
<1>21. ASSUME NEW i \in IPs, Receive(i) PROVE ConnectedHasDevice'
  BY <1>21 DEF Receive
<1>22. CASE Setup
  BY <1>22 DEF Setup, UI
<1>23. CASE JoinChecks
  BY <1>23 DEF JoinChecks, UI
<1>24. ASSUME NEW i \in IPs, Enroll(i) PROVE ConnectedHasDevice'
  BY <1>24 DEF Enroll
<1>25. CASE JoinFails
  BY <1>25 DEF JoinFails
<1>26. CASE JoinSaves
  BY <1>26 DEF JoinSaves, UI, Overtakes, Identity
<1>27. CASE Publish
  BY <1>27 DEF Publish, UI, Overtakes, DeviceIsConfigured
<1>28. CASE Notify
  BY <1>28 DEF Notify
<1>29. CASE Leave
  BY <1>29 DEF Leave, UI
<1>30. CASE RemoveIdentity
  BY <1>30 DEF RemoveIdentity, UI, Overtakes
<1>31. CASE RemoveFails
  BY <1>31 DEF RemoveFails
<1>32. CASE CancelConnection
  BY <1>32 DEF CancelConnection, UI, Overtakes
<1>33. CASE LeaveClosesPlane
  BY <1>33 DEF LeaveClosesPlane, UI, Overtakes, ClosePlane
<1>34. CASE LeaveClosesAdapter
  BY <1>34 DEF LeaveClosesAdapter, UI, Overtakes, CloseAdapter
<1>35. CASE ClearState
  BY <1>35 DEF ClearState, UI, Overtakes, NoState
<1>36. CASE SaveForgotten
  BY <1>36 DEF SaveForgotten
<1>37. CASE Restart
  BY <1>37 DEF Restart, NoState
<1>38. CASE UNCHANGED vars
  BY <1>38 DEF vars
<1>39. CASE Update
  BY <1>39 DEF Update
<1>40. CASE ReleasePlane
  BY <1>40 DEF ReleasePlane, ClosePlane
<1>41. CASE ReadState
  BY <1>41 DEF ReadState
<1>42. CASE SaveConfiguration
  BY <1>42 DEF SaveConfiguration, UI
<1> QED
  BY <1>1, <1>2, <1>3, <1>4, <1>5, <1>6, <1>7, <1>8, <1>9, <1>10, <1>11, <1>12,
     <1>13, <1>14, <1>15, <1>16, <1>17, <1>18, <1>19, <1>20, <1>21, <1>22, <1>23,
     <1>24, <1>25, <1>26, <1>27, <1>28, <1>29, <1>30, <1>31, <1>32, <1>33, <1>34,
     <1>35, <1>36, <1>37, <1>38, <1>39, <1>40, <1>41, <1>42
  DEF Next, Running, Applying, Joining, Forgetting

\* A setup writes the identity before it configures the client, and a reset
\* that removes it goes on to clear the State.
LEMMA ConfiguredNext ==
    ASSUME Invariant, [Next]_vars
    PROVE  ConfiguredHasIdentity'
<1> USE ClientAssumption
    DEF Invariant, TypeOK, States, Runs, Handlers, ConfiguredHasIdentity, Enrolling, Leaving,
        At, Idle, disk, tunnel
<1>1. CASE Load
  BY <1>1 DEF Load
<1>2. CASE Top
  BY <1>2 DEF Top
<1>3. CASE RunClosesPlane
  BY <1>3 DEF RunClosesPlane, ClosePlane
<1>4. CASE RunClosesAdapter
  BY <1>4 DEF RunClosesAdapter, CloseAdapter
<1>5. CASE Wake
  BY <1>5 DEF Wake
<1>6. CASE Arm
  BY <1>6 DEF Arm
<1>7. CASE Dial
  BY <1>7 DEF Dial
<1>8. CASE DialFails
  BY <1>8 DEF DialFails, Ends
<1>9. CASE Accepted
  BY <1>9 DEF Accepted
<1>10. CASE Ended
  BY <1>10 DEF Ended
<1>11. CASE Backoff
  BY <1>11 DEF Backoff
<1>12. CASE SaveIdentity
  <2>1. identity' \in Identities
    BY <1>12, Fields, Built DEF SaveIdentity
  <2>2. identity' # None
    BY <2>1
  <2> QED BY <1>12, <2>2 DEF SaveIdentity
<1>13. CASE CheckAdapter
  BY <1>13 DEF CheckAdapter
<1>14. CASE OpenAdapter
  BY <1>14 DEF OpenAdapter
<1>15. CASE OpenAdapterFails
  BY <1>15 DEF OpenAdapterFails, Ends
<1>16. CASE NoBootstrap
  BY <1>16 DEF NoBootstrap
<1>17. CASE TakeAdapter
  BY <1>17 DEF TakeAdapter
<1>18. CASE Bind
  BY <1>18 DEF Bind, Ends
<1>19. CASE UpdateFails
  BY <1>19 DEF UpdateFails, Ends
<1>20. CASE StreamEnds
  BY <1>20 DEF StreamEnds, Ends
<1>21. ASSUME NEW i \in IPs, Receive(i) PROVE ConfiguredHasIdentity'
  BY <1>21 DEF Receive
<1>22. CASE Setup
  BY <1>22 DEF Setup, UI
<1>23. CASE JoinChecks
  BY <1>23 DEF JoinChecks, UI
<1>24. ASSUME NEW i \in IPs, Enroll(i) PROVE ConfiguredHasIdentity'
  BY <1>24 DEF Enroll
<1>25. CASE JoinFails
  BY <1>25 DEF JoinFails
<1>26. CASE JoinSaves
  <2>1. identity' \in Identities
    BY <1>26, Fields, Built DEF JoinSaves
  <2>2. identity' # None
    BY <2>1
  <2> QED BY <1>26, <2>2 DEF JoinSaves, UI, Overtakes
<1>27. CASE Publish
  BY <1>27 DEF Publish, UI, Overtakes
<1>28. CASE Notify
  BY <1>28 DEF Notify
<1>29. CASE Leave
  BY <1>29 DEF Leave, UI
<1>30. CASE RemoveIdentity
  BY <1>30 DEF RemoveIdentity, UI, Overtakes
<1>31. CASE RemoveFails
  BY <1>31 DEF RemoveFails
<1>32. CASE CancelConnection
  BY <1>32 DEF CancelConnection, UI, Overtakes
<1>33. CASE LeaveClosesPlane
  BY <1>33 DEF LeaveClosesPlane, UI, Overtakes, ClosePlane
<1>34. CASE LeaveClosesAdapter
  BY <1>34 DEF LeaveClosesAdapter, UI, Overtakes, CloseAdapter
<1>35. CASE ClearState
  BY <1>35 DEF ClearState, UI, Overtakes, NoState
<1>36. CASE SaveForgotten
  BY <1>36 DEF SaveForgotten
<1>37. CASE Restart
  BY <1>37 DEF Restart, NoState
<1>38. CASE UNCHANGED vars
  BY <1>38 DEF vars
<1>39. CASE Update
  BY <1>39 DEF Update
<1>40. CASE ReleasePlane
  BY <1>40 DEF ReleasePlane, ClosePlane
<1>41. CASE ReadState
  BY <1>41 DEF ReadState
<1>42. CASE SaveConfiguration
  BY <1>42 DEF SaveConfiguration, UI
<1> QED
  BY <1>1, <1>2, <1>3, <1>4, <1>5, <1>6, <1>7, <1>8, <1>9, <1>10, <1>11, <1>12,
     <1>13, <1>14, <1>15, <1>16, <1>17, <1>18, <1>19, <1>20, <1>21, <1>22, <1>23,
     <1>24, <1>25, <1>26, <1>27, <1>28, <1>29, <1>30, <1>31, <1>32, <1>33, <1>34,
     <1>35, <1>36, <1>37, <1>38, <1>39, <1>40, <1>41, <1>42
  DEF Next, Running, Applying, Joining, Forgetting

-----------------------------------------------------------------------------
(* What holds until a setup or reset has overlapped with an update.        *)

\* What an overlap has spoiled, no other step makes good.
Spoiled ==
    /\ "identity" \in overtaken /\ ~Restart /\ ~RemoveIdentity => "identity" \in overtaken'
    /\ "tunnel" \in overtaken /\ ~Restart /\ ~RunClosesAdapter => "tunnel" \in overtaken'

LEMMA OverlapStays ==
    ASSUME [Next]_vars
    PROVE  Spoiled
<1> USE DEF Spoiled, Overlap, disk, tunnel
<1>1. CASE Load
  BY <1>1 DEF Load
<1>2. CASE Top
  BY <1>2 DEF Top
<1>3. CASE RunClosesPlane
  BY <1>3 DEF RunClosesPlane, ClosePlane
<1>4. CASE RunClosesAdapter
  BY <1>4 DEF RunClosesAdapter, CloseAdapter
<1>5. CASE Wake
  BY <1>5 DEF Wake
<1>6. CASE Arm
  BY <1>6 DEF Arm
<1>7. CASE Dial
  BY <1>7 DEF Dial
<1>8. CASE DialFails
  BY <1>8 DEF DialFails, Ends
<1>9. CASE Accepted
  BY <1>9 DEF Accepted
<1>10. CASE Ended
  BY <1>10 DEF Ended
<1>11. CASE Backoff
  BY <1>11 DEF Backoff
<1>12. CASE SaveIdentity
  BY <1>12 DEF SaveIdentity, Identity
<1>13. CASE CheckAdapter
  BY <1>13 DEF CheckAdapter
<1>14. CASE OpenAdapter
  BY <1>14 DEF OpenAdapter
<1>15. CASE OpenAdapterFails
  BY <1>15 DEF OpenAdapterFails, Ends
<1>16. CASE NoBootstrap
  BY <1>16 DEF NoBootstrap
<1>17. CASE TakeAdapter
  BY <1>17 DEF TakeAdapter
<1>18. CASE Bind
  BY <1>18 DEF Bind, Ends
<1>19. CASE UpdateFails
  BY <1>19 DEF UpdateFails, Ends
<1>20. CASE StreamEnds
  BY <1>20 DEF StreamEnds, Ends
<1>21. ASSUME NEW i \in IPs, Receive(i) PROVE Spoiled
  BY <1>21 DEF Receive
<1>22. CASE Setup
  BY <1>22 DEF Setup, UI
<1>23. CASE JoinChecks
  BY <1>23 DEF JoinChecks, UI
<1>24. ASSUME NEW i \in IPs, Enroll(i) PROVE Spoiled
  BY <1>24 DEF Enroll
<1>25. CASE JoinFails
  BY <1>25 DEF JoinFails
<1>26. CASE JoinSaves
  BY <1>26 DEF JoinSaves, UI, Overtakes, Identity
<1>27. CASE Publish
  BY <1>27 DEF Publish, UI, Overtakes
<1>28. CASE Notify
  BY <1>28 DEF Notify
<1>29. CASE Leave
  BY <1>29 DEF Leave, UI
<1>30. CASE RemoveIdentity
  BY <1>30 DEF RemoveIdentity, UI, Overtakes
<1>31. CASE RemoveFails
  BY <1>31 DEF RemoveFails
<1>32. CASE CancelConnection
  BY <1>32 DEF CancelConnection, UI, Overtakes
<1>33. CASE LeaveClosesPlane
  BY <1>33 DEF LeaveClosesPlane, UI, Overtakes, ClosePlane
<1>34. CASE LeaveClosesAdapter
  BY <1>34 DEF LeaveClosesAdapter, UI, Overtakes, CloseAdapter
<1>35. CASE ClearState
  BY <1>35 DEF ClearState, UI, Overtakes, NoState
<1>36. CASE SaveForgotten
  BY <1>36 DEF SaveForgotten
<1>37. CASE Restart
  BY <1>37 DEF Restart, NoState
<1>38. CASE UNCHANGED vars
  BY <1>38 DEF vars
<1>39. CASE Update
  BY <1>39 DEF Update
<1>40. CASE ReleasePlane
  BY <1>40 DEF ReleasePlane, ClosePlane
<1>41. CASE ReadState
  BY <1>41 DEF ReadState
<1>42. CASE SaveConfiguration
  BY <1>42 DEF SaveConfiguration, UI
<1> QED
  BY <1>1, <1>2, <1>3, <1>4, <1>5, <1>6, <1>7, <1>8, <1>9, <1>10, <1>11, <1>12,
     <1>13, <1>14, <1>15, <1>16, <1>17, <1>18, <1>19, <1>20, <1>21, <1>22, <1>23,
     <1>24, <1>25, <1>26, <1>27, <1>28, <1>29, <1>30, <1>31, <1>32, <1>33, <1>34,
     <1>35, <1>36, <1>37, <1>38, <1>39, <1>40, <1>41, <1>42
  DEF Next, Running, Applying, Joining, Forgetting

\* Each phase of a setup or reset leaves identity.json as the next one expects it.
LEMMA IdentityNext ==
    ASSUME Invariant, PhaseInv, [Next]_vars, "identity" \notin overtaken'
    PROVE  IdentityByPhase'
<1> USE DEF Invariant, TypeOK, States, Runs, Handlers, IdentityByPhase,
            Updating, Busy, At, Idle, disk, tunnel
<1>0. CASE Restart
  BY <1>0, ClientAssumption DEF Restart, NoState
<1>30. CASE RemoveIdentity
  BY <1>30 DEF RemoveIdentity, UI
<1> SUFFICES ASSUME ~Restart, ~RemoveIdentity, IdentityByPhase, UpdateUndisturbed
             PROVE  IdentityByPhase'
  BY <1>0, <1>30, OverlapStays DEF PhaseInv, Spoiled, Overlap
<1>1. CASE Load
  BY <1>1 DEF Load
<1>2. CASE Top
  BY <1>2 DEF Top
<1>3. CASE RunClosesPlane
  BY <1>3 DEF RunClosesPlane, ClosePlane
<1>4. CASE RunClosesAdapter
  BY <1>4 DEF RunClosesAdapter, CloseAdapter
<1>5. CASE Wake
  BY <1>5 DEF Wake
<1>6. CASE Arm
  BY <1>6 DEF Arm
<1>7. CASE Dial
  BY <1>7 DEF Dial
<1>8. CASE DialFails
  BY <1>8 DEF DialFails, Ends
<1>9. CASE Accepted
  BY <1>9 DEF Accepted
<1>10. CASE Ended
  BY <1>10 DEF Ended
<1>11. CASE Backoff
  BY <1>11 DEF Backoff
<1>12. CASE SaveIdentity
  <2>1. identity' \in Identities
    BY <1>12, Fields, Built DEF SaveIdentity
  <2>2. identity' # None
    BY <2>1, ClientAssumption
  <2> QED BY <1>12, <2>2 DEF SaveIdentity, Identity, UpdateUndisturbed
<1>13. CASE CheckAdapter
  BY <1>13 DEF CheckAdapter
<1>14. CASE OpenAdapter
  BY <1>14 DEF OpenAdapter
<1>15. CASE OpenAdapterFails
  BY <1>15 DEF OpenAdapterFails, Ends
<1>16. CASE NoBootstrap
  BY <1>16 DEF NoBootstrap
<1>17. CASE TakeAdapter
  BY <1>17 DEF TakeAdapter
<1>18. CASE Bind
  BY <1>18 DEF Bind, Ends
<1>19. CASE UpdateFails
  BY <1>19 DEF UpdateFails, Ends
<1>20. CASE StreamEnds
  BY <1>20 DEF StreamEnds, Ends
<1>21. ASSUME NEW i \in IPs, Receive(i) PROVE IdentityByPhase'
  BY <1>21 DEF Receive
<1>22. CASE Setup
  BY <1>22 DEF Setup, UI
<1>23. CASE JoinChecks
  BY <1>23 DEF JoinChecks, UI
<1>24. ASSUME NEW i \in IPs, Enroll(i) PROVE IdentityByPhase'
  BY <1>24 DEF Enroll
<1>25. CASE JoinFails
  BY <1>25 DEF JoinFails
<1>26. CASE JoinSaves
  <2>1. identity' \in Identities
    BY <1>26, Fields, Built DEF JoinSaves
  <2>2. identity' # None
    BY <2>1, ClientAssumption
  <2> QED BY <1>26, <2>2 DEF JoinSaves, UI, Overtakes, Overlap, Identity, UpdateUndisturbed
<1>27. CASE Publish
  BY <1>27 DEF Publish, UI, Overtakes, Overlap, UpdateUndisturbed
<1>28. CASE Notify
  BY <1>28 DEF Notify
<1>29. CASE Leave
  BY <1>29 DEF Leave, UI
<1>31. CASE RemoveFails
  BY <1>31 DEF RemoveFails
<1>32. CASE CancelConnection
  BY <1>32 DEF CancelConnection, UI, Overtakes
<1>33. CASE LeaveClosesPlane
  BY <1>33 DEF LeaveClosesPlane, UI, Overtakes, ClosePlane
<1>34. CASE LeaveClosesAdapter
  BY <1>34 DEF LeaveClosesAdapter, UI, Overtakes, CloseAdapter
<1>35. CASE ClearState
  BY <1>35 DEF ClearState, UI, Overtakes, NoState
<1>36. CASE SaveForgotten
  BY <1>36 DEF SaveForgotten
<1>38. CASE UNCHANGED vars
  BY <1>38 DEF vars
<1>39. CASE Update
  BY <1>39 DEF Update
<1>40. CASE ReleasePlane
  BY <1>40 DEF ReleasePlane, ClosePlane
<1>41. CASE ReadState
  BY <1>41 DEF ReadState
<1>42. CASE SaveConfiguration
  BY <1>42 DEF SaveConfiguration, UI
<1> QED
  BY <1>1, <1>2, <1>3, <1>4, <1>5, <1>6, <1>7, <1>8, <1>9, <1>10, <1>11, <1>12,
     <1>13, <1>14, <1>15, <1>16, <1>17, <1>18, <1>19, <1>20, <1>21, <1>22, <1>23,
     <1>24, <1>25, <1>26, <1>27, <1>28, <1>29, <1>30, <1>31, <1>32, <1>33, <1>34,
     <1>35, <1>36, <1>38, <1>39, <1>40, <1>41, <1>42
  DEF Next, Running, Applying, Joining, Forgetting

\* An update starts with nobody else at work, and who disturbs it is noticed.
LEMMA UpdateNext ==
    ASSUME Invariant, PhaseInv, [Next]_vars, overtaken' # Overlap
    PROVE  UpdateUndisturbed'
<1> USE DEF Invariant, TypeOK, States, Runs, Handlers, UpdateUndisturbed,
            Updating, Busy, At, Idle, disk, tunnel
<1>0. CASE Restart
  BY <1>0, ClientAssumption DEF Restart, NoState
<1>4. CASE RunClosesAdapter
  BY <1>4 DEF RunClosesAdapter, CloseAdapter
<1>30. CASE RemoveIdentity
  BY <1>30 DEF RemoveIdentity, UI
<1>s. overtaken \subseteq Overlap /\ overtaken' \subseteq Overlap
  BY TypeNext
<1> SUFFICES ASSUME ~Restart, ~RemoveIdentity, ~RunClosesAdapter, UpdateUndisturbed
             PROVE  UpdateUndisturbed'
  BY <1>0, <1>4, <1>30, <1>s, OverlapStays DEF PhaseInv, Spoiled, Overlap
<1>1. CASE Load
  BY <1>1 DEF Load
<1>2. CASE Top
  BY <1>2 DEF Top
<1>3. CASE RunClosesPlane
  BY <1>3 DEF RunClosesPlane, ClosePlane
<1>5. CASE Wake
  BY <1>5 DEF Wake
<1>6. CASE Arm
  BY <1>6 DEF Arm
<1>7. CASE Dial
  BY <1>7 DEF Dial
<1>8. CASE DialFails
  BY <1>8 DEF DialFails, Ends
<1>9. CASE Accepted
  BY <1>9 DEF Accepted
<1>10. CASE Ended
  BY <1>10 DEF Ended
<1>11. CASE Backoff
  BY <1>11 DEF Backoff
<1>12. CASE SaveIdentity
  BY <1>12 DEF SaveIdentity, Identity
<1>13. CASE CheckAdapter
  BY <1>13 DEF CheckAdapter
<1>14. CASE OpenAdapter
  BY <1>14 DEF OpenAdapter
<1>15. CASE OpenAdapterFails
  BY <1>15 DEF OpenAdapterFails, Ends
<1>16. CASE NoBootstrap
  BY <1>16 DEF NoBootstrap
<1>17. CASE TakeAdapter
  BY <1>17 DEF TakeAdapter
<1>18. CASE Bind
  BY <1>18 DEF Bind, Ends
<1>19. CASE UpdateFails
  BY <1>19 DEF UpdateFails, Ends
<1>20. CASE StreamEnds
  BY <1>20 DEF StreamEnds, Ends
<1>21. ASSUME NEW i \in IPs, Receive(i) PROVE UpdateUndisturbed'
  <2>1. ui = Idle /\ ui' = ui /\ state' = state /\ run'.at = "apply"
    BY <1>21 DEF Receive
  <2>2. state.dev # NoDevice /\ state.configured
    BY <1>21 DEF Receive, ConnectedHasDevice, DeviceIsConfigured
  <2> QED BY <2>1, <2>2
<1>22. CASE Setup
  BY <1>22 DEF Setup, UI, ConfiguredHasIdentity
<1>23. CASE JoinChecks
  BY <1>23 DEF JoinChecks, UI
<1>24. ASSUME NEW i \in IPs, Enroll(i) PROVE UpdateUndisturbed'
  BY <1>24 DEF Enroll
<1>25. CASE JoinFails
  BY <1>25 DEF JoinFails
<1>26. CASE JoinSaves
  BY <1>26 DEF JoinSaves, UI, Overtakes, Identity
<1>27. CASE Publish
  BY <1>27 DEF Publish, UI, Overtakes
<1>28. CASE Notify
  BY <1>28 DEF Notify
<1>29. CASE Leave
  BY <1>29 DEF Leave, UI
<1>31. CASE RemoveFails
  BY <1>31 DEF RemoveFails
<1>32. CASE CancelConnection
  BY <1>32 DEF CancelConnection, UI, Overtakes
<1>33. CASE LeaveClosesPlane
  BY <1>33 DEF LeaveClosesPlane, UI, Overtakes, ClosePlane
<1>34. CASE LeaveClosesAdapter
  BY <1>34 DEF LeaveClosesAdapter, UI, Overtakes, CloseAdapter
<1>35. CASE ClearState
  BY <1>35 DEF ClearState, UI, Overtakes, NoState
<1>36. CASE SaveForgotten
  BY <1>36 DEF SaveForgotten
<1>38. CASE UNCHANGED vars
  BY <1>38 DEF vars
<1>39. CASE Update
  BY <1>39 DEF Update
<1>40. CASE ReleasePlane
  BY <1>40 DEF ReleasePlane, ClosePlane
<1>41. CASE ReadState
  BY <1>41 DEF ReadState
<1>42. CASE SaveConfiguration
  BY <1>42 DEF SaveConfiguration, UI
<1> QED
  BY <1>1, <1>2, <1>3, <1>4, <1>5, <1>6, <1>7, <1>8, <1>9, <1>10, <1>11, <1>12,
     <1>13, <1>14, <1>15, <1>16, <1>17, <1>18, <1>19, <1>20, <1>21, <1>22, <1>23,
     <1>24, <1>25, <1>26, <1>27, <1>28, <1>29, <1>30, <1>31, <1>32, <1>33, <1>34,
     <1>35, <1>36, <1>38, <1>39, <1>40, <1>41, <1>42
  DEF Next, Running, Applying, Joining, Forgetting

\* The data plane goes before its adapter does, and comes back on the new one.
LEMMA PlaneNext ==
    ASSUME Invariant, PhaseInv, [Next]_vars, "tunnel" \notin overtaken'
    PROVE  PlaneByPhase'
<1> USE DEF Invariant, TypeOK, States, Runs, Handlers, PlaneByPhase,
            UpdateUndisturbed, Enrolling,
            Updating, Busy, At, Idle, disk, tunnel
<1>0. CASE Restart
  BY <1>0, ClientAssumption DEF Restart, NoState
<1>4. CASE RunClosesAdapter
  BY <1>4 DEF RunClosesAdapter, CloseAdapter, ClosedBeforeWait
<1> SUFFICES ASSUME ~Restart, ~RunClosesAdapter, UpdateUndisturbed, PlaneByPhase
             PROVE  PlaneByPhase'
  BY <1>0, <1>4, OverlapStays DEF PhaseInv, Spoiled, Overlap
<1>1. CASE Load
  BY <1>1 DEF Load, ClosedBeforeWait
<1>2. CASE Top
  BY <1>2 DEF Top
<1>3. CASE RunClosesPlane
  BY <1>3 DEF RunClosesPlane, ClosePlane
<1>5. CASE Wake
  BY <1>5 DEF Wake
<1>6. CASE Arm
  BY <1>6 DEF Arm
<1>7. CASE Dial
  BY <1>7 DEF Dial
<1>8. CASE DialFails
  BY <1>8 DEF DialFails, Ends
<1>9. CASE Accepted
  BY <1>9 DEF Accepted
<1>10. CASE Ended
  BY <1>10 DEF Ended
<1>11. CASE Backoff
  BY <1>11 DEF Backoff
<1>12. CASE SaveIdentity
  BY <1>12 DEF SaveIdentity, Identity
<1>13. CASE CheckAdapter
  BY <1>13 DEF CheckAdapter
<1>14. CASE OpenAdapter
  <2>1. adapter' \in OpenAdapters
    BY <1>14, FreshIsNew, Fields, Built DEF OpenAdapter, DeviceIsConfigured
  <2> QED BY <1>14, <2>1, ClientAssumption DEF OpenAdapter
<1>15. CASE OpenAdapterFails
  BY <1>15 DEF OpenAdapterFails, Ends
<1>16. CASE NoBootstrap
  BY <1>16 DEF NoBootstrap
<1>17. CASE TakeAdapter
  BY <1>17 DEF TakeAdapter
<1>18. CASE Bind
  BY <1>18 DEF Bind, Ends
<1>19. CASE UpdateFails
  BY <1>19 DEF UpdateFails, Ends
<1>20. CASE StreamEnds
  BY <1>20 DEF StreamEnds, Ends
<1>21. ASSUME NEW i \in IPs, Receive(i) PROVE PlaneByPhase'
  BY <1>21 DEF Receive
<1>22. CASE Setup
  BY <1>22 DEF Setup, UI, ConfiguredHasIdentity
<1>23. CASE JoinChecks
  BY <1>23 DEF JoinChecks, UI
<1>24. ASSUME NEW i \in IPs, Enroll(i) PROVE PlaneByPhase'
  BY <1>24 DEF Enroll
<1>25. CASE JoinFails
  BY <1>25 DEF JoinFails
<1>26. CASE JoinSaves
  BY <1>26 DEF JoinSaves, UI, Overtakes, Identity
<1>27. CASE Publish
  BY <1>27 DEF Publish, UI, Overtakes
<1>28. CASE Notify
  BY <1>28 DEF Notify
<1>29. CASE Leave
  BY <1>29 DEF Leave, UI
<1>30. CASE RemoveIdentity
  BY <1>30 DEF RemoveIdentity, UI, Overtakes
<1>31. CASE RemoveFails
  BY <1>31 DEF RemoveFails
<1>32. CASE CancelConnection
  BY <1>32 DEF CancelConnection, UI, Overtakes
<1>33. CASE LeaveClosesPlane
  BY <1>33 DEF LeaveClosesPlane, UI, Overtakes, ClosePlane
<1>34. CASE LeaveClosesAdapter
  BY <1>34 DEF LeaveClosesAdapter, UI, Overtakes, CloseAdapter
<1>35. CASE ClearState
  BY <1>35 DEF ClearState, UI, Overtakes, NoState
<1>36. CASE SaveForgotten
  BY <1>36 DEF SaveForgotten
<1>38. CASE UNCHANGED vars
  BY <1>38 DEF vars
<1>39. CASE Update
  BY <1>39 DEF Update
<1>40. CASE ReleasePlane
  BY <1>40 DEF ReleasePlane, ClosePlane
<1>41. CASE ReadState
  BY <1>41 DEF ReadState
<1>42. CASE SaveConfiguration
  BY <1>42 DEF SaveConfiguration, UI
<1> QED
  BY <1>1, <1>2, <1>3, <1>4, <1>5, <1>6, <1>7, <1>8, <1>9, <1>10, <1>11, <1>12,
     <1>13, <1>14, <1>15, <1>16, <1>17, <1>18, <1>19, <1>20, <1>21, <1>22, <1>23,
     <1>24, <1>25, <1>26, <1>27, <1>28, <1>29, <1>30, <1>31, <1>32, <1>33, <1>34,
     <1>35, <1>36, <1>38, <1>39, <1>40, <1>41, <1>42
  DEF Next, Running, Applying, Joining, Forgetting

-----------------------------------------------------------------------------
\* The invariants hold of every behaviour.
LEMMA Invariance == Spec => [](Invariant /\ PhaseInv)
<1>1. Init => Invariant /\ PhaseInv
  <2> SUFFICES ASSUME Init PROVE Invariant /\ PhaseInv
    OBVIOUS
  <2>1. TypeOK
    <3>1. \A i \in IPs : Identity(1, i, 1) \in Identities
      BY Built, ClientAssumption DEF Devices
    <3>2. NoState \in States /\ At("start") \in Runs /\ Idle \in Handlers
      BY RunUpdates, HandlerUpdates DEF States, NoState, RunPhases
    <3>3. identity \in Identities \union {None} /\ enrolled \in 0..MaxDevices
      BY <3>1, ClientAssumption DEF Init
    <3> QED BY <3>2, <3>3 DEF Init, TypeOK
  <2>2. ClosedBeforeWait
    BY DEF Init, ClosedBeforeWait, NoState, At
  <2>3. DeviceIsConfigured
    BY ClientAssumption
    DEF Init, DeviceIsConfigured, NoState, At, Idle, NoDevice, Updating, Identity
  <2>4. ConnectedHasDevice
    BY DEF Init, ConnectedHasDevice, At, Idle, Busy
  <2>6. ConfiguredHasIdentity
    BY DEF Init, ConfiguredHasIdentity, At, Idle, NoState, Enrolling, Leaving
  <2>5. IdentityByPhase /\ UpdateUndisturbed /\ PlaneByPhase
    BY DEF Init, IdentityByPhase, UpdateUndisturbed, PlaneByPhase, NoState, At, Idle,
           Updating, Enrolling
  <2> QED BY <2>1, <2>2, <2>3, <2>4, <2>5, <2>6 DEF Invariant, PhaseInv
<1>2. Invariant /\ PhaseInv /\ [Next]_vars => (Invariant /\ PhaseInv)'
  BY TypeNext, ClosedNext, DeviceNext, ConnectedNext, ConfiguredNext, IdentityNext, UpdateNext,
     PlaneNext
  DEF Invariant, PhaseInv
<1> QED BY <1>1, <1>2, PTL DEF Spec

\* Files, State, adapter, data plane and the phases of Run and the handlers keep
\* their types across crashes and restarts.
THEOREM TypeCorrect == Spec => []TypeOK
<1>1. Invariant => TypeOK BY DEF Invariant
<1> QED BY <1>1, Invariance, PTL

\* Run waits for an enrolment only with the adapter and the data plane closed,
\* whatever overlapped before (Client.Run, closeAdapter).
THEOREM WaitsClean == Spec => []WaitingIsClean
<1>1. Invariant => WaitingIsClean
  BY DEF Invariant, ClosedBeforeWait, WaitingIsClean
<1> QED BY <1>1, Invariance, PTL

\* identity.json and the State name the same device and key, or neither names
\* one, between setups and resets, from the first reset on that began while no
\* update was being applied (Join, forgetServer, applyServerState).
THEOREM IdentityAgrees == Spec => []IdentityMatchesState
<1>1. PhaseInv => IdentityMatchesState
  BY DEF PhaseInv, IdentityByPhase, IdentityMatchesState, Idle
<1> QED BY <1>1, Invariance, PTL

\* A data plane reads from the open adapter, for its address and the device of
\* the State, unless a setup or reset has met an update since Run last waited
\* (ensureClientAdapter, configureDataPlane).
THEOREM PlaneFollowsAdapter == Spec => []PlaneOnCurrentAdapter
<1>1. PhaseInv => PlaneOnCurrentAdapter
  BY DEF PhaseInv, PlaneByPhase, PlaneOnCurrentAdapter
<1> QED BY <1>1, Invariance, PTL

=============================================================================
