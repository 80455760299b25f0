-------------------------- MODULE ClientLifecycle --------------------------
(***************************************************************************)
(* The client's life: enrolment, the connection loop and leaving the       *)
(* server (client/client.go).                                              *)
(*                                                                         *)
(* Run is one goroutine: it waits until the client is configured, connects,*)
(* applies what the server sends and, when the stream ends, starts again.  *)
(* The local web interface runs beside it: POST setup enrols and DELETE    *)
(* configuration leaves the server; setupMu admits one of them at a time,  *)
(* but neither excludes Run.  They share identity.json, the State, the     *)
(* adapter and the data plane, each under a lock of its own that is        *)
(* released between the steps below.                                       *)
(*                                                                         *)
(* Abstractions: a device is a number and has the key of that number; the  *)
(* virtual IP stands for address and network together; adapters are told   *)
(* apart by numbers that are used again; closing something and clearing    *)
(* its flag in State is one step; a file is written whole or not at all;   *)
(* the tunnel is enabled; commands and the management session are left     *)
(* out.  The unsynchronised reads of c.key and State.DeviceID return one   *)
(* of the values written.  The operators named Mutant... are deliberate    *)
(* mistakes that no action refers to.                                      *)
(***************************************************************************)
EXTENDS Naturals

CONSTANTS
    IPs,         \* virtual addresses
    MaxDevices,  \* bound: devices enrolled
    None

Devices  == 1..MaxDevices
NoDevice == 0
Adapters == 1..3   \* one in use, one held by a data plane, one by a local variable

Identities   == [dev : Devices \union {NoDevice}, ip : IPs \union {None},
                 key : Devices \union {NoDevice}]
OpenAdapters == [no : Adapters, ip : IPs]
Planes       == [adapter : Adapters, dev : Devices, ip : IPs]

ASSUME ClientAssumption ==
    /\ MaxDevices \in Nat \ {0}
    /\ None \notin IPs \union Identities \union OpenAdapters \union Planes

VARIABLES
    identity,  \* identity.json
    url,       \* whether the configuration in memory names a server
    saved,     \* whether the configuration file does
    state,     \* Client.State
    key,       \* Client.key
    adapter,   \* Client.adapter and adapterAddress
    plane,     \* Client.dataPlane
    run,       \* the goroutine of Run, with the local variables in use
    conn,      \* connectionStop: "none", "armed", or its context "cancelled"
    signal,    \* configurationCh, a channel of capacity one
    ui,        \* the setup or reset that holds setupMu
    enrolled,  \* devices the server has enrolled
    overtaken  \* history: what the overlap of a setup or reset with an update from
               \* the server may have left out of step

disk   == <<identity, saved, enrolled>>
tunnel == <<adapter, plane>>
vars == <<disk, url, state, key, tunnel, run, conn, signal, ui, overtaken>>

NoState == [dev |-> NoDevice, ip |-> None, configured |-> FALSE, connected |-> FALSE,
            adapterReady |-> FALSE, planeReady |-> FALSE]
Identity(d, i, k) == [dev |-> d, ip |-> i, key |-> k]
At(pc) == [at |-> pc, dev |-> NoDevice, ip |-> None, adapter |-> 0, err |-> FALSE]
Idle == [at |-> "idle", dev |-> NoDevice, ip |-> None]

Overlap == {"identity", "tunnel"}

Busy      == {"accepted", "apply", "write", "adapter", "release", "reopen", "plane", "read",
              "bind"}
Leaving   == {"remove", "cancel", "closePlane", "closeAdapter", "clear", "forget"}
Enrolling == {"config", "join", "enroll", "save", "publish", "notify"}

RunPhases     == {"start", "top", "closePlane", "closeAdapter", "wait", "arm", "dial",
                  "stream", "ended", "backoff"} \union Busy
HandlerPhases == {"idle"} \union Enrolling \union Leaving

States   == [dev : Devices \union {NoDevice}, ip : IPs \union {None},
             configured : BOOLEAN, connected : BOOLEAN,
             adapterReady : BOOLEAN, planeReady : BOOLEAN]
Runs     == [at : RunPhases,
             dev : Devices \union {NoDevice}, ip : IPs \union {None},
             adapter : Adapters \union {0}, err : BOOLEAN]
Handlers == [at : HandlerPhases,
             dev : Devices \union {NoDevice}, ip : IPs \union {None}]

\* The types of the variables.
TypeOK ==
    /\ identity \in Identities \union {None}
    /\ state \in States
    /\ key \in Devices \union {NoDevice} /\ url \in BOOLEAN /\ saved \in BOOLEAN
    /\ adapter \in OpenAdapters \union {None}
    /\ plane \in Planes \union {None}
    /\ run \in Runs
    /\ conn \in {"none", "armed", "cancelled"}
    /\ signal \in BOOLEAN
    /\ ui \in Handlers
    /\ enrolled \in 0..MaxDevices
    /\ overtaken \subseteq Overlap

\* The process starts, never configured or joined before (tyxnet-client join).
Init ==
    /\ \/ identity = None /\ enrolled = 0
       \/ \E i \in IPs : identity = Identity(1, i, 1) /\ enrolled = 1
    /\ saved = (identity # None) /\ url = saved
    /\ state = NoState /\ key = NoDevice
    /\ adapter = None /\ plane = None
    /\ run = At("start") /\ conn = "none" /\ signal = FALSE
    /\ ui = Idle /\ overtaken = {}

-----------------------------------------------------------------------------
(***************************************************************************)
(* Run.                                                                    *)
(***************************************************************************)
Load ==
    /\ run.at = "start"
    /\ run' = At("top")
    /\ IF identity = None THEN UNCHANGED <<state, key>>
       ELSE /\ key' = identity.key
            /\ state' = [state EXCEPT !.dev = identity.dev, !.ip = identity.ip, !.configured = TRUE]
    /\ UNCHANGED <<disk, url, tunnel, conn, signal, ui, overtaken>>

Top ==
    /\ run.at = "top"
    /\ run' = At(IF state.configured THEN "arm" ELSE "closePlane")
    /\ UNCHANGED <<disk, url, state, key, tunnel, conn, signal, ui, overtaken>>

ClosePlane  == plane' = None /\ state' = [state EXCEPT !.planeReady = FALSE]

MutantCloseAdapter == UNCHANGED <<adapter, state>>
CloseAdapter == adapter' = None /\ state' = [state EXCEPT !.adapterReady = FALSE]

\* Unconfigured: closeAdapter, then wait for a signal.
RunClosesPlane ==
    /\ run.at = "closePlane"
    /\ ClosePlane
    /\ run' = At("closeAdapter")
    /\ UNCHANGED <<disk, url, key, adapter, conn, signal, ui, overtaken>>

RunClosesAdapter ==
    /\ run.at = "closeAdapter"
    /\ CloseAdapter
    /\ run' = At("wait") /\ overtaken' = overtaken \ {"tunnel"}
    /\ UNCHANGED <<disk, url, key, plane, conn, signal, ui>>

Wake ==
    /\ run.at = "wait" /\ signal
    /\ signal' = FALSE
    /\ run' = At("top")
    /\ UNCHANGED <<disk, url, state, key, tunnel, conn, ui, overtaken>>

Arm ==
    /\ run.at = "arm"
    /\ conn' = "armed"
    /\ run' = At("dial")
    /\ UNCHANGED <<disk, url, state, key, tunnel, signal, ui, overtaken>>

\* connect returns.
Ends(err) == run' = [At("ended") EXCEPT !.err = err]

\* Challenge and connect requests: the server answers 200 only to a device
\* that signs with its own key.
Dial ==
    /\ run.at = "dial" /\ conn = "armed"
    /\ url /\ state.dev # NoDevice /\ key = state.dev
    /\ run' = At("accepted")
    /\ UNCHANGED <<disk, url, state, key, tunnel, conn, signal, ui, overtaken>>

DialFails ==
    /\ run.at = "dial"
    /\ Ends(TRUE)
    /\ UNCHANGED <<disk, url, state, key, tunnel, conn, signal, ui, overtaken>>

Accepted ==
    /\ run.at = "accepted"
    /\ state' = [state EXCEPT !.connected = TRUE]
    /\ run' = At("stream")
    /\ UNCHANGED <<disk, url, key, tunnel, conn, signal, ui, overtaken>>

\* The stream ends: with an error, cleanly, or because it was cancelled.
StreamEnds ==
    /\ run.at = "stream"
    /\ \E err \in BOOLEAN : Ends(err)
    /\ UNCHANGED <<disk, url, state, key, tunnel, conn, signal, ui, overtaken>>

Ended ==
    /\ run.at = "ended"
    /\ conn' = "none"
    /\ run' = At(IF state.configured THEN "backoff" ELSE "top")
    /\ state' = IF state.configured /\ run.err THEN [state EXCEPT !.connected = FALSE] ELSE state
    /\ UNCHANGED <<disk, url, key, tunnel, signal, ui, overtaken>>

Backoff ==
    /\ run.at = "backoff"
    /\ run' = At("top")
    /\ UNCHANGED <<disk, url, state, key, tunnel, conn, signal, ui, overtaken>>

-----------------------------------------------------------------------------
(***************************************************************************)
(* An update from the server: applyServerState, ensureClientAdapter and    *)
(* configureDataPlane.                                                     *)
(***************************************************************************)
\* An event is read from a stream that is not cancelled.
Receive(i) ==
    /\ run.at = "stream" /\ conn = "armed"
    /\ run' = [At("apply") EXCEPT !.ip = i]
    /\ overtaken' = IF ui = Idle THEN overtaken ELSE Overlap
    /\ UNCHANGED <<disk, url, state, key, tunnel, conn, signal, ui>>

\* The locked section of applyServerState.
Update ==
    /\ run.at = "apply"
    /\ state' = [state EXCEPT !.ip = run.ip]
    /\ run' = [run EXCEPT !.at = IF run.ip # state.ip THEN "write" ELSE "adapter",
                          !.dev = state.dev]
    /\ UNCHANGED <<disk, url, key, tunnel, conn, signal, ui, overtaken>>

MutantSaveIdentity ==
    /\ run.at = "write"
    /\ identity' = Identity(run.dev, run.ip, NoDevice)
    /\ run' = [run EXCEPT !.at = "adapter"]
    /\ UNCHANGED <<enrolled, saved, url, state, key, tunnel, conn, signal, ui, overtaken>>

SaveIdentity ==
    /\ run.at = "write"
    /\ identity' = Identity(run.dev, run.ip, key)
    /\ run' = [run EXCEPT !.at = "adapter"]
    /\ UNCHANGED <<enrolled, saved, url, state, key, tunnel, conn, signal, ui, overtaken>>

\* An adapter with the right address stays; any other goes, after the data
\* plane that uses it.
MutantCheckAdapter ==
    /\ run.at = "adapter"
    /\ run' = [run EXCEPT !.at = IF adapter # None /\ adapter.ip = run.ip THEN "plane" ELSE "reopen"]
    /\ UNCHANGED <<disk, url, key, state, tunnel, conn, signal, ui, overtaken>>

CheckAdapter ==
    /\ run.at = "adapter"
    /\ run' = [run EXCEPT !.at = IF adapter = None THEN "reopen"
                                 ELSE IF adapter.ip = run.ip THEN "plane" ELSE "release"]
    /\ UNCHANGED <<disk, url, key, state, tunnel, conn, signal, ui, overtaken>>

ReleasePlane ==
    /\ run.at = "release"
    /\ ClosePlane
    /\ run' = [run EXCEPT !.at = "reopen"]
    /\ UNCHANGED <<disk, url, key, adapter, conn, signal, ui, overtaken>>

\* A number for the handle that ensureTunnel returns.
Fresh == CHOOSE n \in Adapters :
             /\ adapter # None => n # adapter.no
             /\ plane # None => n # plane.adapter
             /\ n # run.adapter

OpenAdapter ==
    /\ run.at = "reopen"
    /\ adapter' = [no |-> Fresh, ip |-> run.ip]
    /\ state' = [state EXCEPT !.adapterReady = TRUE]
    /\ run' = [run EXCEPT !.at = "plane"]
    /\ UNCHANGED <<disk, url, key, plane, conn, signal, ui, overtaken>>

\* The old adapter has been closed, the flag in State stays.
OpenAdapterFails ==
    /\ run.at = "reopen"
    /\ adapter' = None
    /\ Ends(TRUE)
    /\ UNCHANGED <<disk, url, state, key, plane, conn, signal, ui, overtaken>>

\* The update carries no data-plane bootstrap.
NoBootstrap ==
    /\ run.at = "plane"
    /\ run' = At("stream")
    /\ UNCHANGED <<disk, url, state, key, tunnel, conn, signal, ui, overtaken>>

\* configureDataPlane reads the adapter, then the State, and uses them later.
TakeAdapter ==
    /\ run.at = "plane" /\ adapter # None
    /\ run' = [run EXCEPT !.at = "read", !.adapter = adapter.no]
    /\ UNCHANGED <<disk, url, state, key, tunnel, conn, signal, ui, overtaken>>

ReadState ==
    /\ run.at = "read"
    /\ run' = [run EXCEPT !.at = "bind", !.dev = state.dev, !.ip = state.ip]
    /\ UNCHANGED <<disk, url, state, key, tunnel, conn, signal, ui, overtaken>>

Bind ==
    /\ run.at = "bind"
    /\ plane # None \/ run.dev # NoDevice
    /\ plane' = IF plane # None THEN plane
                ELSE [adapter |-> run.adapter, dev |-> run.dev, ip |-> run.ip]
    /\ \/ state' = [state EXCEPT !.planeReady = TRUE] /\ run' = At("stream")
       \/ UNCHANGED state /\ Ends(TRUE)   \* Configure fails
    /\ UNCHANGED <<disk, url, key, adapter, conn, signal, ui, overtaken>>

\* The file cannot be written, the assignment is no address of its network,
\* there is no adapter, or NewClient fails.
UpdateFails ==
    /\ \/ run.at \in {"write", "adapter", "bind"}
       \/ run.at = "plane" /\ adapter = None
    /\ Ends(TRUE)
    /\ UNCHANGED <<disk, url, state, key, tunnel, conn, signal, ui, overtaken>>

-----------------------------------------------------------------------------
(***************************************************************************)
(* POST setup and Join.                                                    *)
(***************************************************************************)
\* A handler changes what Run may be using.
Overtakes == overtaken' = IF run.at \in Busy THEN Overlap ELSE overtaken

UI(pc) == ui' = [ui EXCEPT !.at = pc]

Setup ==
    /\ ui = Idle /\ identity = None
    /\ url' = TRUE
    /\ UI("config")
    /\ UNCHANGED <<disk, state, key, tunnel, run, conn, signal, overtaken>>

\* SaveClient; when it fails only the configuration in memory names the server.
SaveConfiguration ==
    /\ ui.at = "config"
    /\ \/ saved' = TRUE /\ UI("join")
       \/ UNCHANGED saved /\ ui' = Idle
    /\ UNCHANGED <<identity, enrolled, url, state, key, tunnel, run, conn, signal, overtaken>>

JoinChecks ==
    /\ ui.at = "join"
    /\ IF identity = None THEN UI("enroll") ELSE ui' = Idle
    /\ UNCHANGED <<disk, url, state, key, tunnel, run, conn, signal, overtaken>>

Enroll(i) ==
    /\ ui.at = "enroll" /\ enrolled < MaxDevices
    /\ enrolled' = enrolled + 1
    /\ ui' = [at |-> "save", dev |-> enrolled', ip |-> i]
    /\ UNCHANGED <<identity, saved, url, state, key, tunnel, run, conn, signal, overtaken>>

JoinFails ==
    /\ ui.at \in {"enroll", "save"}
    /\ ui' = Idle
    /\ UNCHANGED <<disk, url, state, key, tunnel, run, conn, signal, overtaken>>

JoinSaves ==
    /\ ui.at = "save"
    /\ identity' = Identity(ui.dev, ui.ip, ui.dev)
    /\ UI("publish") /\ Overtakes
    /\ UNCHANGED <<enrolled, saved, url, state, key, tunnel, run, conn, signal>>

Publish ==
    /\ ui.at = "publish"
    /\ key' = ui.dev
    /\ state' = [state EXCEPT !.dev = ui.dev, !.ip = ui.ip, !.configured = TRUE]
    /\ UI("notify") /\ Overtakes
    /\ UNCHANGED <<disk, url, tunnel, run, conn, signal>>

MutantNotify ==
    /\ ui.at = "notify"
    /\ signal' = (signal \/ run.at = "wait")
    /\ ui' = Idle
    /\ UNCHANGED <<disk, url, state, key, tunnel, run, conn, overtaken>>

Notify ==
    /\ ui.at = "notify"
    /\ signal' = TRUE
    /\ ui' = Idle
    /\ UNCHANGED <<disk, url, state, key, tunnel, run, conn, overtaken>>

(***************************************************************************)
(* DELETE configuration and forgetServer.                                  *)
(***************************************************************************)
Leave ==
    /\ ui = Idle /\ state.configured
    /\ UI("remove")
    /\ UNCHANGED <<disk, url, state, key, tunnel, run, conn, signal, overtaken>>

RemoveIdentity ==
    /\ ui.at = "remove"
    /\ identity' = None
    /\ UI("cancel")
    /\ overtaken' = IF run.at \in Busy THEN Overlap ELSE overtaken \ {"identity"}
    /\ UNCHANGED <<enrolled, saved, url, state, key, tunnel, run, conn, signal>>

RemoveFails ==
    /\ ui.at = "remove"
    /\ ui' = Idle
    /\ UNCHANGED <<disk, url, state, key, tunnel, run, conn, signal, overtaken>>

MutantCancelConnection ==
    /\ ui.at = "cancel"
    /\ url' = FALSE
    /\ UI("closePlane") /\ Overtakes
    /\ UNCHANGED <<disk, state, key, tunnel, run, conn, signal>>

CancelConnection ==
    /\ ui.at = "cancel"
    /\ url' = FALSE
    /\ conn' = IF conn = "armed" THEN "cancelled" ELSE conn
    /\ UI("closePlane") /\ Overtakes
    /\ UNCHANGED <<disk, state, key, tunnel, run, signal>>

LeaveClosesPlane ==
    /\ ui.at = "closePlane"
    /\ ClosePlane
    /\ UI("closeAdapter") /\ Overtakes
    /\ UNCHANGED <<disk, url, key, adapter, run, conn, signal>>

LeaveClosesAdapter ==
    /\ ui.at = "closeAdapter"
    /\ CloseAdapter
    /\ UI("clear") /\ Overtakes
    /\ UNCHANGED <<disk, url, key, plane, run, conn, signal>>

ClearState ==
    /\ ui.at = "clear"
    /\ state' = NoState
    /\ UI("forget") /\ Overtakes
    /\ UNCHANGED <<disk, url, key, tunnel, run, conn, signal>>

\* SaveClient, last; when it fails the file still names the server.
SaveForgotten ==
    /\ ui.at = "forget"
    /\ saved' \in {FALSE, saved}
    /\ ui' = Idle
    /\ UNCHANGED <<identity, enrolled, url, state, key, tunnel, run, conn, signal, overtaken>>

\* The process ends at any point and starts again.
Restart ==
    /\ state' = NoState /\ key' = NoDevice
    /\ adapter' = None /\ plane' = None
    /\ run' = At("start") /\ conn' = "none" /\ signal' = FALSE
    /\ ui' = Idle /\ overtaken' = {}
    /\ url' = saved
    /\ UNCHANGED disk

-----------------------------------------------------------------------------
Applying ==
    \/ Update \/ SaveIdentity \/ CheckAdapter \/ ReleasePlane
    \/ OpenAdapter \/ OpenAdapterFails
    \/ NoBootstrap \/ TakeAdapter \/ ReadState \/ Bind \/ UpdateFails

Running ==
    \/ Load \/ Top \/ RunClosesPlane \/ RunClosesAdapter \/ Wake \/ Arm
    \/ Dial \/ DialFails \/ Accepted \/ Ended \/ Backoff
    \/ Applying

EndCancelled == conn = "cancelled" /\ StreamEnds

Joining ==
    \/ SaveConfiguration \/ JoinChecks \/ (\E i \in IPs : Enroll(i)) \/ JoinFails
    \/ JoinSaves \/ Publish \/ Notify

Forgetting ==
    \/ RemoveIdentity \/ RemoveFails \/ CancelConnection
    \/ LeaveClosesPlane \/ LeaveClosesAdapter \/ ClearState
    \/ SaveForgotten

Next ==
    \/ Running \/ StreamEnds \/ (\E i \in IPs : Receive(i))
    \/ Setup \/ Joining \/ Leave \/ Forgetting
    \/ Restart

Spec == Init /\ [][Next]_vars

\* Run and the handlers go on once they have begun (goroutines are scheduled,
\* requests time out) and a cancelled stream ends.  Nothing obliges the server
\* to send, a live stream to end or a user to act.
FairSpec ==
    /\ Spec
    /\ WF_vars(Running) /\ WF_vars(EndCancelled)
    /\ WF_vars(Joining) /\ WF_vars(Forgetting)

-----------------------------------------------------------------------------
(***************************************************************************)
(* Properties.                                                             *)
(***************************************************************************)

\* A client that waits to be enrolled holds neither an adapter nor a data
\* plane, however setup, reset and a connection overlapped before (Run's
\* closeAdapter after an update that ran on past a reset).
WaitingIsClean ==
    run.at = "wait" => /\ adapter = None /\ plane = None
                       /\ ~state.adapterReady /\ ~state.planeReady

\* identity.json holds the device and the key of a configured client, and is
\* absent for one that is not, unless a setup or reset has overlapped with an
\* update and no reset has begun undisturbed since (Join, applyServerState,
\* forgetServer).
IdentityMatchesState ==
    "identity" \notin overtaken /\ ui = Idle /\ run.at # "start" =>
        IF state.configured
        THEN identity # None /\ identity.dev = state.dev /\ identity.key = key
        ELSE identity = None

\* The data plane reads from the adapter that is open, for the device and the
\* address in use, across address changes, failed adapters and reconnections
\* (ensureClientAdapter, configureDataPlane), unless a setup or reset has
\* overlapped with an update since Run last waited to be enrolled.
PlaneOnCurrentAdapter ==
    "tunnel" \notin overtaken /\ plane # None =>
        /\ adapter # None /\ plane.adapter = adapter.no
        /\ plane.ip = adapter.ip /\ plane.dev = state.dev

\* An enrolment wakes the waiting Run: the signal is neither lost before Run
\* waits nor spent on an earlier wait (notifyConfigurationChanged).
EnrolmentWakesRun ==
    run.at = "wait" /\ state.configured ~> run.at # "wait"

\* After leaving the server Run comes to wait for the next enrolment, unless
\* that is there before (cancelConnection, Run).
LeavingStopsTheConnection ==
    run.at # "start" /\ ~state.configured ~> run.at \in {"wait", "start"} \/ state.configured

\* Leaving the server removes the identity "so the client can enroll again"
\* (README.md): setup refuses a client whose identity.json exists.
CanEnrollAgain ==
    ui = Idle /\ run.at = "wait" /\ ~state.configured => identity = None

=============================================================================
