--------------------------- MODULE ServerSettings ---------------------------
(***************************************************************************)
(* The server's configuration file and the settings an administrator       *)
(* changes while it runs: LoadServer, SaveServer and Validate of           *)
(* internal/config/config.go, runServer of cmd/tyxnet-server/main.go, and  *)
(* the ports and ping interval of PATCH /api/v1/server/settings in         *)
(* internal/control/server.go.  The flow-history part of that request is   *)
(* in FlowHistory.tla.                                                     *)
(*                                                                         *)
(* A request runs in a goroutine of its own and may be overtaken wherever  *)
(* it holds no lock; the process may end anywhere.  Of the fields of the   *)
(* file the model keeps the ports and those that the flags --local-web and *)
(* --lan-web override; the rest is valid and never changed.  There is no   *)
(* TLS certificate.                                                        *)
(*                                                                         *)
(* Definitions named Mutant... are plausible defects of the definition     *)
(* that follows them.                                                      *)
(***************************************************************************)
EXTENDS Naturals

CONSTANTS Ports,         \* port numbers between 1 and 65535
          Intervals,     \* ping intervals between 5 seconds and an hour
          FileInterval,  \* ping_interval of the configuration file
          Requests,      \* PATCH requests that may run at the same time
          None           \* a field that is absent, a lock that is free

ASSUME NoneAssumption == None \notin Ports \cup Intervals \cup Requests
ASSUME FileIntervalAssumption == FileInterval \in Intervals

\* The fields of config.Server that matter here.
Configs == [api : Ports, tunnel : Ports, listen : {"loopback", "any"},
            insecure : BOOLEAN, remoteSetup : BOOLEAN]

\* Server.Validate: ports differ, and the console is not offered to the
\* network without TLS unless the file says so.
Valid(c) ==
    /\ c.api \in Ports /\ c.tunnel \in Ports
    /\ c.api # c.tunnel
    /\ c.listen = "any" => c.insecure

VARIABLES file,          \* server.yaml
          storedPing,    \* server_settings.ping_interval, None for no row
          up,            \* the process runs
          persisted,     \* runServer: persistedConfig
          ports,         \* control.Server: apiPort and tunnelPort
          ping,          \* control.Server: pingIntervalNS
          portsMu,       \* the request that holds portsMu
          pc,            \* where each request stands
          want,          \* its body: ports and interval, None where absent
          pair,          \* the ports it has validated
          crossed,       \* history: the requests whose interval overlaps another's
          clash          \* history: the last interval applied had overlapped

diskVars == <<file, storedPing>>
processVars == <<up, persisted, ports, ping>>
requestVars == <<portsMu, pc, want, pair>>
pingHistory == <<crossed, clash>>
vars == <<diskVars, processVars, requestVars, pingHistory>>

PortFields == Ports \cup {None}
Bodies == [api : PortFields, tunnel : PortFields, ping : Intervals \cup {None}]
NoBody == [api |-> None, tunnel |-> None, ping |-> None]
NoPair == [api |-> None, tunnel |-> None]
Pairs == [api : Ports, tunnel : Ports]
PortsOf(c) == [api |-> c.api, tunnel |-> c.tunnel]

TypeOK ==
    /\ file \in Configs
    /\ storedPing \in Intervals \cup {None}
    /\ up \in BOOLEAN
    /\ persisted \in Configs
    /\ ports \in Pairs
    /\ ping \in Intervals
    /\ portsMu \in Requests \cup {None}
    /\ pc \in [Requests -> {"idle", "validated", "saving", "settings", "stored"}]
    /\ want \in [Requests -> Bodies]
    /\ pair \in [Requests -> Pairs \cup {NoPair}]
    /\ crossed \subseteq Requests /\ clash \in BOOLEAN

\* A valid file; the server has not been started.
Init ==
    /\ file \in {c \in Configs : Valid(c)}
    /\ storedPing = None
    /\ up = FALSE
    /\ persisted = file
    /\ ports = PortsOf(file)
    /\ ping = FileInterval
    /\ portsMu = None
    /\ pc = [r \in Requests |-> "idle"]
    /\ want = [r \in Requests |-> NoBody]
    /\ pair = [r \in Requests |-> NoPair]
    /\ crossed = {} /\ clash = FALSE

-----------------------------------------------------------------------------
(* The process.                                                            *)

\* The configuration with the overrides of a flag; "config" is no flag.
Overridden(c, mode) ==
    CASE mode = "config" -> c
      [] mode = "local" -> [c EXCEPT !.listen = "loopback", !.remoteSetup = FALSE]
      [] mode = "lan" -> [c EXCEPT !.listen = "any", !.insecure = TRUE,
                                   !.remoteSetup = TRUE]

\* Mutant: what a flag overrides becomes part of what is saved.
MutantPersistsOverrides(mode) == Overridden(file, mode)

\* persistedConfig is the file as it was read, without the overrides.
Persisted(mode) == file

\* Mutant: the file's interval wins over the store's.
MutantFileFirst == FileInterval

\* New and SetDefaultPingInterval: an interval in the store wins over the
\* one in the file.
LoadedPing == IF storedPing = None THEN FileInterval ELSE storedPing

\* runServer: a file that is not valid, with or without the overrides, ends
\* the program.
Start(mode) ==
    /\ ~up
    /\ Valid(file) /\ Valid(Overridden(file, mode))
    /\ up' = TRUE
    /\ persisted' = Persisted(mode)
    /\ ports' = PortsOf(file)
    /\ ping' = LoadedPing
    /\ UNCHANGED <<diskVars, requestVars, pingHistory>>

\* The process ends and leaves the file c; requests and memory are gone.
Ends(c) ==
    /\ up' = FALSE
    /\ file' = c
    /\ persisted' = c
    /\ ports' = PortsOf(c)
    /\ ping' = FileInterval
    /\ portsMu' = None
    /\ pc' = [r \in Requests |-> "idle"]
    /\ want' = [r \in Requests |-> NoBody]
    /\ pair' = [r \in Requests |-> NoPair]
    /\ crossed' = {} /\ clash' = FALSE
    /\ UNCHANGED storedPing

\* Mutant: the file is written in place, so that the end of the process during
\* a save cuts it off.
MutantWrittenInPlace == IF portsMu = None THEN file ELSE [file EXCEPT !.api = None]

\* SaveServer writes a temporary file, which nobody reads, until the rename.
\* This is about a process that ends, not about a loss of power: SaveServer
\* does not sync the temporary file, so a machine that fails may be left with
\* a renamed file without its contents.
LeftOnDisk == file

\* A signal, the tray's Quit, or a crash, at any moment.
Stop == up /\ Ends(LeftOnDisk)

-----------------------------------------------------------------------------
(* PATCH /api/v1/server/settings.                                          *)

Goto(r, l) == pc' = [pc EXCEPT ![r] = l]

\* The answer is written, with or without success.
Answer(r) ==
    /\ Goto(r, "idle")
    /\ want' = [want EXCEPT ![r] = NoBody]
    /\ pair' = [pair EXCEPT ![r] = NoPair]

\* The ports a request asks for; a field that is absent keeps its value.
Merged(body) ==
    [api |-> IF body.api = None THEN ports.api ELSE body.api,
     tunnel |-> IF body.tunnel = None THEN ports.tunnel ELSE body.tunnel]

\* validatePorts.
ValidPair(p) == p.api \in Ports /\ p.tunnel \in Ports /\ p.api # p.tunnel

\* A request that changes a port reads the current pair under the read lock
\* and validates the result; one that is not valid is answered 400.
BeginPorts(r, body) ==
    /\ up
    /\ pc[r] = "idle"
    /\ portsMu = None
    /\ body.api # None \/ body.tunnel # None
    /\ ValidPair(Merged(body))
    /\ want' = [want EXCEPT ![r] = body]
    /\ pair' = [pair EXCEPT ![r] = Merged(body)]
    /\ Goto(r, "validated")
    /\ UNCHANGED <<diskVars, processVars, portsMu, pingHistory>>

\* A request that changes the interval only.
BeginPing(r, interval) ==
    /\ up
    /\ pc[r] = "idle"
    /\ want' = [want EXCEPT ![r] = [NoBody EXCEPT !.ping = interval]]
    /\ Goto(r, "settings")
    /\ UNCHANGED <<diskVars, processVars, portsMu, pair, pingHistory>>

\* savePorts: the configuration with the pair that was validated.
Updated(r) == [persisted EXCEPT !.api = pair[r].api, !.tunnel = pair[r].tunnel]

\* updatePorts takes the lock; SaveServer writes a temporary file.
SaveBegins(r) ==
    /\ pc[r] = "validated"
    /\ portsMu = None
    /\ portsMu' = r
    /\ Goto(r, "saving")
    /\ UNCHANGED <<diskVars, processVars, want, pair, pingHistory>>

\* The temporary file is renamed over the old one, persistedConfig and the
\* pair in memory follow, and the lock is released.
SaveRenames(r) ==
    /\ pc[r] = "saving"
    /\ Valid(Updated(r))
    /\ file' = Updated(r)
    /\ persisted' = Updated(r)
    /\ ports' = PortsOf(Updated(r))
    /\ portsMu' = None
    /\ Goto(r, "settings")
    /\ UNCHANGED <<storedPing, up, ping, want, pair, pingHistory>>

\* The process ends after the rename and before memory follows.
StopAfterRename(r) == pc[r] = "saving" /\ Valid(Updated(r)) /\ Ends(Updated(r))

\* Mutant: memory follows although the file could not be written.
MutantMemoryAnyway(r) == pair[r]

\* The pair in memory after a save that failed.
PortsAfterFailure(r) == ports

\* The configuration is not valid, or the temporary file cannot be written or
\* renamed: answered 500.
SaveFails(r) ==
    /\ pc[r] = "saving"
    /\ ports' = PortsAfterFailure(r)
    /\ portsMu' = None
    /\ Answer(r)
    /\ UNCHANGED <<diskVars, up, persisted, ping, pingHistory>>

\* The requests whose interval is in the store and not yet in use.
Applying == {r \in Requests : pc[r] = "stored" /\ want[r].ping # None}

\* SetSettings commits the values of the request in one transaction.
StoreSettings(r) ==
    /\ pc[r] = "settings"
    /\ IF want[r].ping = None THEN UNCHANGED <<storedPing, crossed>>
       ELSE /\ storedPing' = want[r].ping
            /\ crossed' = IF Applying = {} THEN crossed ELSE crossed \cup Applying \cup {r}
    /\ Goto(r, "stored")
    /\ UNCHANGED <<file, processVars, portsMu, want, pair, clash>>

\* SetSettings fails: answered 500, although the ports are saved.
StoreFails(r) ==
    /\ pc[r] = "settings"
    /\ Answer(r)
    /\ UNCHANGED <<diskVars, processVars, portsMu, pingHistory>>

\* The interval in use follows the store.
ApplySettings(r) ==
    /\ pc[r] = "stored"
    /\ IF want[r].ping = None THEN UNCHANGED <<ping, pingHistory>>
       ELSE /\ ping' = want[r].ping
            /\ clash' = (r \in crossed) /\ crossed' = crossed \ {r}
    /\ Answer(r)
    /\ UNCHANGED <<diskVars, up, persisted, ports, portsMu>>

RequestStep(r) ==
    \/ SaveBegins(r) \/ SaveRenames(r) \/ SaveFails(r)
    \/ StoreSettings(r) \/ StoreFails(r) \/ ApplySettings(r)

Next ==
    \/ \E mode \in {"config", "local", "lan"} : Start(mode)
    \/ Stop
    \/ \E r \in Requests : StopAfterRename(r)
    \/ \E r \in Requests, body \in Bodies : BeginPorts(r, body)
    \/ \E r \in Requests, interval \in Intervals : BeginPing(r, interval)
    \/ \E r \in Requests : RequestStep(r)

Spec == Init /\ [][Next]_vars

-----------------------------------------------------------------------------
(* Properties.                                                             *)

\* The file can always be loaded again: whatever ends the process, and however
\* two requests for different ports overlap, the next start finds a complete
\* and valid file (SaveServer, LoadServer).
FileLoadable == Valid(file)

\* While no save is under way the ports that the settings page shows are those
\* the next start will use, so restart_required is reported exactly when the
\* file and the listeners differ; also after a save that failed.
PortsShownAreSaved ==
    up /\ portsMu = None => ports = PortsOf(file) /\ persisted = file

\* Flags are for one run: saving ports while the server runs with --local-web
\* or --lan-web changes nothing else in the file.
OverridesNotSaved ==
    [][\A field \in {"listen", "insecure", "remoteSetup"} :
          file'[field] = file[field]]_vars

\* The interval in use is the one a restart would bring, unless a request is
\* between its transaction and its assignment to pingIntervalNS at this moment
\* or two requests were there together and none has come alone since: nothing
\* orders the two writes of two requests, and only a request of its own or a
\* restart makes them agree again (PATCH server/settings,
\* SetDefaultPingInterval).
PingSurvivesRestart == up /\ Applying = {} /\ ~clash => ping = LoadedPing
=============================================================================
