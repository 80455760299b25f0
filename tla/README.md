# TyxNet: a TLA+ verification project

TyxNet is a small virtual private network: a central server with an SQLite store and a
web API, and clients that hold an authenticated control stream to it and exchange
encrypted UDP packets through it. This directory holds TLA+ models of the parts of TyxNet
whose correctness depends on interleavings, restarts, lost messages and limits; TLC
configurations that check them on small instances; and TLAPS proofs of the results that
hold for every value of the constants. `PROJECT.json` is the index: components, runs,
mutants, the map from each definition to source lines, hazards, findings and theorems.

To check one run: `tlc -workers 2 -config MCDataPlane.cfg MCDataPlane`.
To check one proof module: `tlapm DataPlaneProofs.tla`.

## 1. The system

| Part | State | Operations | Shares state with |
|---|---|---|---|
| Cipher and replay window (`internal/crypto/session.go`) | highest number and 64-bit word per direction | Seal, Open (Accept, Rollback) | the data plane's reader goroutines |
| Session registry and router (`internal/dataplane/server.go`, `internal/routing/router.go`) | `sessions`, `byDevice`, `peers` | Listen, Register, Remove | one `deviceConnect` goroutine per control stream |
| Forwarding and intake (`internal/dataplane`, `Router.Route`) | endpoint per session, the client's current session, table of sources of invalid datagrams | readUDP, readAdapter, Send, Route | registry, cipher, traffic monitor |
| Control stream and commands (`internal/control/server.go`, `internal/storage/store.go`, `internal/client/client.go`) | command rows, one challenge and one wake-up slot per device, the client's record of handled commands | queue, deliver, challenge, report, execute, expire | store, HTTP, both clocks |
| Enrolment (`store.go` JoinDevice, nextIP) | tokens, users, devices | create, consume, choose an address, insert, assign, delete | store |
| Traffic monitor and flow history (`internal/routing/traffic.go`, the sink and the settings PATCH in `server.go`) | buckets, reference counts, marks; switch and budget in memory and in the store; history rows | observe, prune, flush, insert, trim, PATCH | data plane, store |
| Server settings (`runServer`, `internal/config/config.go`, the settings PATCH) | `server.yaml`, its copy in memory, the ports, the ping interval in memory and store | load, override, validate, save, PATCH, end | concurrent requests, disk, store |
| Accounts (`server.go` api, `store.go`) | users, roles, sessions | setup, login, authorise, create, change, delete, reset | store, concurrent requests, command line tool |
| Client lifecycle (`client.go`) | identity file, configuration, State, adapter, data plane | Run, connect, applyServerState, Join, forgetServer | Run goroutine, local web handlers, disk |
| HTTP rate limiting, client management proxy, adapters, trays, installers, web pages | see `PROJECT.json` | | |

What is hard here, and what the properties are aimed at:

- *Goroutines per request.* HTTP handlers are not serialised. The store serialises single
  statements or transactions (`SetMaxOpenConns(1)`), but a handler is a sequence of them.
- *Streams that overlap.* A device reconnects before the server has noticed that the old
  connection is gone; the old handler's deferred calls come late.
- *UDP and HTTP.* Datagrams are lost, repeated and reordered; an HTTP request given up by
  the client may still be processed.
- *Restarts.* Challenges, signals, handled commands and traffic buckets live in memory;
  commands, accounts, settings and the identity file survive.
- *Limits.* A 64-bit word, an address pool, 4096 flow keys, a history budget, token uses.

The complete list, with source lines and the properties that cover each item, is under
`hazards` in `PROJECT.json`.

## 2. The modules

Each module's header states what it abstracts. Operators named `Mutant...` are deliberate
mistakes: no action refers to them, and `PROJECT.json` says which definition each one would
replace and which property then fails. Every property of a passing run has one. Proofs are
in modules of their own, `...Proofs`, one for each component, with two exceptions:
`IntakeProofs` covers `ReplayWindow` as well, and `AdministrationProofs` covers `Accounts`
and `ServerSettings`.

The components meet in this way. `Intake` composes the limiter with the cipher
(`ReplayWindow`), and both implement `AtMostOnceChannel`; `Forwarding` puts two ciphers and
the router in a row and implements the same channel from adapter to adapter. `DataPlane` has
the registry and routes that `Forwarding` takes as given, with addresses that move.
`CommandDelivery` runs over the control streams and implements `CommandContract`.

### ReplayWindow, AtMostOnceChannel

One direction of a session. `Seal` takes the next number; `OpenAuthentic`, `OpenDamaged`
and `OpenRejected` are the three outcomes of `Cipher.Open`. Any number ever sent can arrive
at any time and any number of times; any number, sent or not, can arrive damaged. The word
is the set of its 1 bits, `ShiftLeft` and the age test keep the width, so the edges at
`Width - 1`, `Width` and a jump of `Width` are those of the code. `AtMostOnceChannel` is the
promise: a packet that was sent is delivered at most once. `ImplementsChannel` is the
refinement, with `sent` and `deliveries` mapped to themselves.

### Intake

The first half of `readUDP`, which extends `ReplayWindow` by the table of sources of invalid
datagrams: `Blocked` and `CountRead` are `invalidBlocked`, `RecordInvalid` with `Survivors`
is `recordInvalid`, whose cut of a full table takes expired entries first and then any, in
the order of a Go map. `TakeAuthentic`, `TakeMisshapen`, `TakeRefused` and `TakeUnknown` are
the exits of the loop body; `MinutePasses` is the clock.

### Forwarding

A packet from one adapter to another. The client: `Configure`, `Emit` (`readAdapter` and
`keepalive`), `Receive` (`readUDP`), `Roam` (the network moves its endpoint). The server:
`Register`, `Remove`, `Expire` for sessions; `ReadDatagram` looks the session up and releases
the lock, `HandlePacket` or `OpenFails` goes on with what may be a replaced session by then;
`Route` and `SentDown` are `Router.Route` and `serverSession.Send`; `ReadAdapter` is the
server's host. Everything that was ever sent can arrive again at any time, both ways.

### DataPlane

The `deviceConnect` handler from the check of its proof to its deferred calls, one action
for each point where it releases a lock or waits for the store: `Verify`, `LoadDevice`,
`Register` (or `RegisterRefused`, `ConnectFailed`), `Connected`, `Ping`, `DataExpiry`,
`StreamLost`, `DeviceDisconnected`, `Remove`. The maps `sessions`, `byDevice` and `peers`
and the presence counter are the code's. An administrator moves addresses and revokes
devices meanwhile. A stream and the random session ID it registers are one name.

### CommandDelivery, CommandContract

One device. Server side: queueing in two steps (`CommandBegins` reads the
revocation and takes the time, `Command` inserts and signals), batches read on connect, tick and signal,
`WriteCommand`, the two clocks (`Deadline`), the check of a challenge and the transition
check of `UpdateCommandResult`, restart. Client side: the loop of `connect`,
`handleControlCommand` with its check of expiry, allowlist and duplicates, the retries of
`reportCommandResult`, execution, crash. A stream whose client is gone continues as a
*zombie*, which can take wake-up signals and mark commands delivered; a request given up by
the client is a *ghost*, which may arrive later or never, and may have used its challenge long
before its transaction. `CommandContract` is what all of it promises: five actions (queue,
accept, run, finish, lapse) over what becomes of a command and what the device does. As
`docs/protocol.md` has it, only pending commands lapse. The refinement maps queued and delivered
to "pending". The store also writes "expired" over accepted commands, which is finding 3; the
refinement takes these as still accepted (history variable `taken`), since their device may
still execute them.

### Enrollment

`JoinDevice` as the code has it: `ConsumeToken` in a transaction, the SELECT of `nextIP`, the
INSERT under the UNIQUE and foreign-key constraints; between them any other join, static
assignment, token revocation or user deletion, or the end of the request. Addresses are
numbers; the loop of `nextIP` is `Candidates`, of which it takes the least.

### FlowHistory

Buckets per second and key with the cap on keys; `FlushBegin`, the sink's three steps and
`Mark`, since the monitor's lock is not held while the sink runs; failing inserts; trimming
by budget; several PATCH requests of switch and budget as the handler's sequence of steps;
shutdown and restart. A packet counts 1 and a row has size 1. The history variables `seen` and `saved`
follow the traffic of each second and key since the server started, which is what exactly-once
is stated with; `crossed` and `clash` remember which requests met another one while they
changed a setting, and which settings were last changed by such requests.

### ServerSettings

`runServer` from loading `server.yaml` (`Start`, with the flags that override it for one run)
to its end anywhere (`Ends`, `Stop`, `StopAfterRename`), and the settings PATCH as the handler
takes its steps: `BeginPorts` or `BeginPing`, the save of ports under its mutex in two steps
(`SaveBegins`, `SaveRenames` or `SaveFails`), the transaction of the other settings
(`StoreSettings`, `StoreFails`) and their use in memory (`ApplySettings`). `Valid` is
`Server.Validate` for the fields that are kept. The process may end anywhere; a loss of power,
after which a file that was never synced may be empty, is left out.

### Accounts

Setup, login (read the account, later insert the session), logout, authorisation (read the
role, later act), creation, change and deletion of users, password resets, and the
command line's `CreateAdmin`. A password is a version number, which a login takes when it
verifies the password and its session keeps (history variables `knew` and `born`).

### ClientLifecycle

The goroutine of `Run` with `connect`, `applyServerState`, `ensureClientAdapter` and
`configureDataPlane`, beside the local handlers for setup and for leaving the server, which
exclude one another and not `Run`. An update is applied in the steps between which the code
holds no lock: `Receive` (an event of a stream that is not cancelled), `Update`, `SaveIdentity`,
`CheckAdapter`, `ReleasePlane`, `OpenAdapter`, `TakeAdapter`, `ReadState`, `Bind`. Files may fail
to be written, assignments may be invalid, adapters may fail to open, the process may end
anywhere and start again. The history variable `overtaken` tells whether a setup or reset has
overlapped with an update, which may leave a wrong identity behind (until a reset begins
undisturbed or the process restarts) or a data plane on a closed adapter (until Run waits for
the next enrolment).

## 3. The runs

| Run | Instance | States | Shows |
|---|---|---|---|
| `intake` | width 3, 7 packets, 3 hosts, limit 3, table of 2, fair | 95 k | `NoLossInsideWindow`, `LimiterBounded`, `BlockEnds`, refinement `ImplementsChannel` |
| `forwarding` | 2 devices, 3 sessions, 3 endpoints, 3 packets | 2.75 M | `DeliveredAsAddressed`, `EndpointFollowsFreshPackets`, refinement `DeliveredAtMostOnce` |
| `data_plane` | 2 devices, 2 streams, 3 client addresses, one device moves, fair | 111 k | `RoutesLeadToSessions`, `NoOrphanSession`, `PresenceExact`, `SessionsReachable`, `OnlyOwnerGivesUpSession`, `RevocationTakesEffect` |
| `data_plane_moved` | both devices move | – | finding 1 |
| `command_delivery` | 1 command, 2 attempts, 1 ghost, fair | 289 k | `ExecutedAtMostOnce`, `PendingSettles`, refinement `ImplementsContract` |
| `command_order` | a system command and a reconnect | 2.63 M | `AcceptedInOrder` |
| `command_expired` | 1 command | – | finding 3 |
| `administration` | accounts: 2 accounts, 2 sessions, 1 login, 2 requests, 1 reset | 757 k | `AdminRemains`, `OneSetupAccount`, `SessionsHaveUsers`, `ResetSparesLoginsUnderWay` |
| | settings: 2 requests, 3 ports, 2 intervals | | `FileLoadable`, `PortsShownAreSaved`, `PingSurvivesRestart`, `OverridesNotSaved` |
| | enrolment: 3 joins, 2 tokens, 2 users, 6 addresses | | `UniqueAddresses`, `TokenLimit`, `DevicesHaveOwners`, `AddressesLegal`, `ExhaustedMeansFull` |
| `setup` | 3 accounts, 2 sessions, 2 logins, 2 requests | – | finding 4 |
| `flow_history` | 2 keys under a cap of 1, 3 seconds, window 2, 2 PATCH requests | 1.0 M | `KeyCountsExact`, `ExactlyOnce`, `NothingFromDisabledSeconds`, `SettingsAgree`, `OldestGoFirst` |
| `client_lifecycle` | 2 addresses, 2 enrolments, fair | 225 k | `WaitingIsClean`, `IdentityMatchesState`, `PlaneOnCurrentAdapter`, `EnrolmentWakesRun`, `LeavingStopsTheConnection` |
| `client_leave` | the same | – | finding 2 |

Why the bounds are enough to meet the cases that matter:

- A word of 3 bits with 7 numbers has jumps shorter than, equal to and longer than the word,
  and several shifts of every bit. Three hosts before a table of two force the cut, with
  expired and with recent entries. The proofs cover every width, limit and number of hosts.
- Three packets are one from device to device, one with a foreign source address or a
  keepalive from a new endpoint, and one from the server's host; the device that roams has a
  second session that replaces the first while datagrams of it are under way. The proofs
  cover any number of each.
- Two streams are two overlapping streams of one device, or one of each, which is what
  replacing a session, a late end and a moved address need; the proofs cover any number.
- One command is enough for at-most-once and the contract, which concern each command
  alone; order needs two, whose requests and reports may overlap. Two attempts show a retry after a lost
  answer and giving up; one ghost is a report or a challenge that comes late.
- Three joins meet a full pool (two free addresses) and a token at its limit; the network
  spans two octets, so the octet edge is inside it.
- With a window of two seconds out of three a bucket is pruned while a flush that copied it
  is under way; with a cap of one the second key is refused and admitted after the prune.
- Two accounts and two requests are two administrators who demote or delete each other; one
  login is one that a deletion or reset overtakes. The proofs cover any number.
- Two PATCH requests of the history settings meet each other, and what they leave behind, before
  there is any traffic (`OverlapBound` of `MCFlowHistory`); one request meets all the traffic and
  time that the bounds allow. The proofs cover any number of requests at any time.
- Three ports are two in use and one to change to, so that requests overlap, collide with the
  other port and undo each other.
- Two enrolments of the client are one life before and one after leaving the server.

`MCAdministration` puts three modules that share no variable into one run: each of them moves
only while the other two are at rest in an initial state, so the run has the union of their
state spaces and not the product, and every behaviour of each. It does not check for deadlock,
since joins, tokens and accounts are used up. It has symmetry of the ports and of the settings
requests, and `flow_history` of the flow keys; both check safety properties only.

### Fairness

- `DataPlane`: weak fairness of each handler's next step and of the passing of each
  expiry: Go runs every runnable goroutine and fires every timer. Nothing else is fair: a
  client need not connect or leave.
- `CommandDelivery`: weak fairness of the ticker, the writes of a live stream, the server's
  clock and the client's own steps; strong fairness of the two requests that begin a
  connection: the client retries for ever with a bounded delay, and a network
  that fails every time is excluded only for these two.
- `Intake`: weak fairness of the passing of each host's minute, which is the clock. Any
  datagram may be lost, and invalid ones may arrive without end.
- `ClientLifecycle`: weak fairness of Run, of a setup or reset once begun, and of the end of
  a cancelled stream. The server need not answer, a stream need not end, a user need not act.

## 4. The proofs

For every value of the constants allowed by the named assumptions in the modules.

**IntakeProofs.** *The cipher.* `IInv` adds to the type invariant and `AtMostOnce` that the
word is exact (`BitmapExact`), that nothing above `highest` was delivered and that only sent
packets were. The exactness is what makes it inductive: without it, an acceptable number need
not be undelivered. `AcceptFact` says that an accepted number was not delivered,
`AcceptedBits` that the shifted word with the new bit is exact again. Results:
`NoPacketTwice`, `BitmapIsExact`, `WindowLosesNothing` and the refinement `ChannelRefinement`.
*The limiter.* Every step of the intake is a step of `ReplayWindow` or changes nothing of it
(`IntakeStep`), so the limiter takes nothing away from what is proved of the cipher:
`IntakeIsReplayWindow`, and from it `IntakeLosesNothing` and `IntakeImplementsChannel`.
`TableIsBounded` is by cardinalities of subsets of the finite set of hosts; what makes it
inductive is that every recent entry has a counter, so that the cut always finds enough.

**ForwardingProofs.** That nothing is delivered twice needs both ciphers. The invariant follows
a packet: what the reader holds is in the log and of a client (`ReaderInv`); what was sent down
was routed, hence opened by the server's cipher or sent by its host (`DownInv`), and no two
datagrams carry one packet (`DownOnce`); what was delivered went to the server's adapter or was
taken by a client (`DeliveredInv`). `RouteKeepsPaths` is the central lemma: a packet that is
routed was not seen downstream. Results: `EndToEndAtMostOnce` (a refinement),
`PacketsArriveAsAddressed`, `EndpointsFollow`. `TrafficAssumption` excludes packets of the
server's host to its own address, which the operating system keeps.

**CommandProofs.** For any number of commands, attempts, delayed requests and buffered events.
`ExecutedAtMostOnce` is not inductive: the server answers 200 again to a repeated "accepted",
and it is the client's order of work that prevents a second execution. `BufferInv` says it: an
event still buffered for an executed command is of a command that is final in the store, or
whose result is being reported now, and giving up that report closes the stream. With it go
`StoreInv` (executed implies accepted once, a result implies executed), `JobInv` and
`GhostInv` (a delayed report, verified or not, is one the client was entitled to). Each step is shown to keep
them and to be a step of the contract or none, `ResultFact` being the case of
`deviceCommandResult`. Results: `NoCommandTwice`, `ContractRefinement`.

`CommandsInOrder` (the action property `AcceptedInOrder`) needs a second invariant, `OrderInv`,
which follows a command from the store to the report that accepts it. The order is that of
commands of which one was stored before the other's request began (`earlier`): requests that
overlap may be stored in either order, whatever their times say. A command is *passed*
when it is accepted, final or past its deadline. Every command older than one in the live
handler's batch is passed, in the batch too, or already with the client (`BatchInOrder`);
every command older than a buffered one is passed or in the buffer before it
(`InboxInOrder`); and the client reports a command accepted, on time or late, only when all
older ones are passed (`ReportsInOrder`). Passed is for ever (`ForwardFact`), which is why a
delayed report does no harm. A batch that is cut by `BatchLimit` is still an initial part of
the pending commands (`PendingInOrder`), a command the client skips because it remembers it
is passed (`HandledPassed`), and whatever else makes the client turn from a command that is
not passed closes the stream, which empties batch and buffer (`StreamClosed`). Only the
batch of the live stream is ordered: a zombie may mark commands delivered in any order, and
the invariant does not depend on it. `TypeCorrect` includes that `deviceChallenge` always
finds a challenge that neither side and no delayed request holds (`FreshFact`), by counting
the delayed requests.

**FlowHistoryProofs.** For any finite set of keys, any window, cap, number of seconds, packets
and concurrent PATCH requests. `KeyCountsExact` is inductive with the types; its proof follows
the cardinalities through `observe` and `prune`. `ExactlyOnce` is not: while the sink runs
without the monitor's lock, the buckets that a flush copied grow, age and are pruned.
`TrafficInv` says that a bucket holds all the traffic of its second until it is pruned (`BucketsWhole`), that
the records in flight and what was saved are whole seconds (`RecordsWhole`, `SavedWhole`), and
that a saved second is marked, too old to be flushed or about to be marked, while records in
flight are neither saved nor marked (`SavedOnce`). `NothingFromDisabledSeconds` needs
`UnwantedSettled`: whenever recording is on, or some PATCH may still switch it on, by its
request or by undoing a failed one, no flush can save a second that ended with recording off
any more. `PatchWaits` ties a PATCH to the flush it waits for. Results: `CountsAreExact`,
`SavedExactlyOnce`, `DisabledStaysOut`, the action property `TrimsOldest`, and
`SettingsFollowStore`. The last one's invariant says of every request between its steps, if it
has met no other one, in which way memory and store differ because of it, and that two requests
which change settings at the same time have met. What two requests that met leave behind is
outside the claim until a request that meets none has written the setting again.

**AdministrationProofs.** For any number of requests and logins under way at once. *Accounts.*
`NoOrphanSessions` is inductive with the type invariant. `ResetLeavesLoginsUnderWay` counts: the
sessions opened with an older password and the logins that still hold one are together no more
than the logins under way at the last reset. `LastAdminStays` is an action property that each
action keeps: whoever acts and is still an administrator remains, so a step that removes the
last one is that of a request whose requester has been overtaken. `SetupAccountAlone` says what
the transaction of the initial setup guarantees; that setup works once in the server's life is
false (finding 4). *Settings.* The invariant ties the copy in memory, the ports and the
file while the mutex is free and while a save is under way, and says that nothing runs while
the process is down. Results: `FileAlwaysLoadable`, `ShownPortsAreSaved`, the action property
`FlagsAreNotSaved`, and `PingIsStored`, by the same argument about requests that meet as for the
history settings.

**DataPlaneProofs.** `IInv` is the type invariant, `HandlersWellFormed` (a handler past a
step has what it read, one with a session has an address other than the server's) and the
three registry invariants, which are inductive only together: that `Register` deletes no one
else's session needs `RegistryConsistent`, and that no route dangles after `Remove` needs
`RoutesLeadToSessions`. Results: `RegistryAgrees`, `RoutesAreLive`, `SessionsHaveHandlers`,
the action property `SessionGivenUpByOwner`; `PresenceIsExact`, by the cardinality of the set
of running streams; and `ReachableWithOneMover`: if at most one device changes its address,
every session is reachable, because the addresses of two devices never meet.

**EnrollmentProofs.** `IInv` adds `JoinsProgress` (a join has the token and the address its
phase says) and `UsesCounted`: the counter of a token equals the number of joins that
consumed it, which bounds the devices by `MaxUses`. `AddressesLegal` is proved for networks
of the form the installer writes (`InstalledNetwork`) of any size, `NoAddressWithheld` for
those that the 2^20 steps of the loop of `nextIP` reach the end of.

**ClientLifecycleProofs.** For any set of addresses and any number of enrolments, restarts
included. `Invariant` holds whatever overlaps: what Run has closed by the time it waits
(`ClosedBeforeWait`, hence `WaitsClean`), that only a configured client has a device
(`DeviceIsConfigured`), that a client without an identity on disk is not configured, except
while a reset is between the two (`ConfiguredHasIdentity`), and that a stream which may still deliver an update belongs to
a client with a device (`ConnectedHasDevice`), because a reset removes the URL and cancels the
stream before it clears the State. `PhaseInv` is for clients whose setups and resets met no
update being applied, separately for the identity and for the tunnel (`overtaken`; finding 2
shows what happens otherwise): for each phase of a setup or reset, what is on disk and in memory
by then. Results: `IdentityAgrees`, `PlaneFollowsAdapter`. The exception for the identity ends
with a reset that begins undisturbed, that for the tunnel when Run waits, both with a restart.

Every safety property that a passing run checks is also proved, three of them under the
assumptions named above (one mover, `InstalledNetwork`, the reach of the loop of `nextIP`). Only model-checked is what
holds by fairness (`RevocationTakesEffect`, `PendingSettles`, `EnrolmentWakesRun`,
`LeavingStopsTheConnection`, `BlockEnds`), which is beyond the prover. The four properties that
the findings refute are neither.

## 5. Findings

1. **A late end takes another device's route** (`data_plane_moved`,
   `internal/dataplane/server.go:118`). `Remove` deletes the route of the address without
   looking at whose it is. When an address has moved to another device, that device is
   unreachable until it reconnects.
2. **Leaving the server can leave the identity behind** (`client_leave`,
   `internal/client/client.go:416`). An update that is being applied writes `identity.json`
   after `forgetServer` removed it; the client can then neither enrol nor leave until it is
   restarted.
3. **Accepted commands expire** (`command_expired`, `internal/storage/store.go:873` and 905).
   `docs/protocol.md:49-51` has `succeeded` and `failed` as the ends of accepted commands and
   reserves `expired` for those not accepted in time. `UpdateCommandResult` and `listCommands`
   expire accepted ones too: a command that was executed can be shown as expired, and its final
   report is refused.
4. **Setup can succeed again** (`setup`, `internal/storage/store.go:178` and 732).
   `docs/security-model.md:41-42` says that setup "can create only the first user and becomes
   ineffective immediately afterward". Two administrators whose requests were both authorised can
   delete each other, since each is only kept from deleting their own account; the table is empty
   and setup is open again.

### Properties that are not claimed

Met while modelling; most are recorded with a hazard, and none is asserted by a run:

- `Open` accepts a number before it authenticates the packet and `Rollback` restores only the
  bit (`internal/crypto/session.go:95`): a damaged datagram with a number far ahead makes
  earlier intact packets stale;
- the window reaches back 63 numbers behind the newest, `docs/protocol.md:67` says 64;
- a delayed datagram from an endpoint the client has left, arriving for the first time, sends
  the answers there until the next packet or keepalive, at most 15 seconds later;
- of two overlapping settings requests for different ports the first is undone by the second,
  and a request whose transaction fails is answered 500 although its ports stay saved;
- a `server.yaml` edited by hand while the server runs is overwritten by the copy in memory at
  the next save of ports, and the companion's URL keeps the old port until the restart;
- two PATCH requests of the settings at once can leave memory and store different;
  `SettingsAgree` and `PingSurvivesRestart` say that nothing else does, and that a request which
  comes alone, or a restart, repairs it;
- two administrators whose requests were both authorised can demote each other, so an enabled
  administrator need not remain; `AdminRemains` says that only such an overtaken request can
  remove the last one;
- a login verified with the old password can insert its session after a reset;
  `ResetSparesLoginsUnderWay` bounds these sessions by the logins under way at the reset;
- a command can be created for a device that was revoked after `CreateCommand` looked;
- the sink can insert with a budget that a PATCH has just lowered, until the next insert;
- a failed join does not give its token use back (`docs/architecture.md:13` calls the two
  steps atomic);
- with a `tunnel_address` other than network + 1, `nextIP` can hand out the server's address;
- `Connected` in the client's State stays true after a clean end of the stream
  (`client.go:224`), the backoff index never returns to zero (`client.go:234`), and
  `AdapterReady` stays true after an adapter failed to open (`client.go:454`);
- `identity.json` and `client.yaml` are rewritten in place, so a crash in the middle of the
  write damages them: the model writes the client's files whole;
- `SaveServer` does not sync the temporary file before the rename (`config.go:105`), so
  `FileLoadable` is about the end of the process and not about a loss of power;
- an update read before a whole reset writes an identity without a device, with which the client
  starts as configured and cannot connect until its user leaves the server again;
- after a setup or reset that overlapped with an update, a data plane bound to a closed adapter
  can be used again by the next enrolment (`client.go:516`);
- the client's management token: a tray snapshot that fails clears a newer login, a login
  answered after the client has left is stored, the token of `managementDevices` comes without
  its user, and a logout ignores that the server did not hear of it;
- `created_at` and `expires_at` are compared as RFC 3339 strings, whose order is not that of
  time when one has no fraction of a second;
- the map of the HTTP rate limiter (`internal/control/server.go:434`) is never pruned;
- `PRAGMA foreign_keys` is set on the pool's first connection: the models assume that
  connection is the only one there ever is.

## 6. Not modelled

HTTP rate limiting, the client's configuration file, its management proxy and tray interface,
migrations, device names, last-seen times and the audit log, adapters and platform code,
listeners and service management, installers and web pages; the aggregation of traffic
snapshots and the queries of the history pages, which only read. `PROJECT.json` gives the
reason for each under `components`. Cryptographic primitives, password hashing and wire
formats are taken as correct.

## 7. Plan

1. What `DataPlane` and `Forwarding` share as a theorem: the registry of the first is one the
   second takes as given.
2. The client's management proxy, composed with `ClientLifecycle` through the token that
   leaving the server clears.
