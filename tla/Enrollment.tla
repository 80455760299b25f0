----------------------------- MODULE Enrollment ------------------------------
(***************************************************************************)
(* Enrollment of devices: tokens, users and virtual addresses in the store.*)
(*                                                                         *)
(* JoinDevice is three database steps, not one transaction: ConsumeToken   *)
(* (a transaction of its own), the SELECT of nextIP, and the INSERT of the *)
(* device.  The store has one connection (SetMaxOpenConns(1)), so each     *)
(* step is atomic, but steps of concurrent joins, of static address        *)
(* assignments and of user deletions (a SELECT COUNT, then a transaction)  *)
(* interleave, and a request may end between two of them.                  *)
(*                                                                         *)
(* Addresses are natural numbers.  The device identifier is drawn afresh   *)
(* for every join, so a join and the device it creates are the same d.     *)
(* Names, keys, platform strings and audit rows are left out; a revoked    *)
(* device keeps its row and its address.  The operators named Mutant...    *)
(* are deliberate mistakes that no action refers to.                       *)
(***************************************************************************)
EXTENDS Naturals, FiniteSets

CONSTANTS
    Devices,     \* joins, and the devices they create
    Tokens,      \* enrollment tokens that may be created
    Owners,      \* the users they are created for
    Owner,       \* enrollment_tokens.user_id
    MaxUses,     \* enrollment_tokens.max_uses
    NetworkIP,   \* first address of the configured network
    NetSize,     \* number of addresses of the network
    ConfiguredIP,\* the address as written in the network setting, host bits kept
    ServerIP,    \* the server's tunnel address
    OctetSize,   \* values of an octet (256 in the code)
    MaxScan,     \* iterations of nextIP's loop (2^20 in the code)
    Unset        \* no token, no address

Broadcast == NetworkIP + NetSize - 1
Net == NetworkIP..Broadcast

ASSUME EnrollmentAssumption ==
    /\ IsFiniteSet(Devices) /\ Owner \in [Tokens -> Owners]
    /\ MaxUses \in [Tokens -> Nat \ {0}]
    /\ NetworkIP \in Nat /\ NetSize \in Nat \ {0, 1, 2, 3}
    /\ ConfiguredIP \in Net /\ ServerIP \in Net \ {NetworkIP, Broadcast}
    /\ OctetSize \in Nat \ {0, 1} /\ MaxScan \in Nat
    /\ Unset \notin Tokens /\ Unset \notin Nat

VARIABLES
    owners,     \* rows of users
    counted,    \* DeleteUser calls that found no device and will now delete
    usable,     \* tokens that exist, unrevoked and unexpired
    created,    \* tokens that were ever created
    uses,       \* enrollment_tokens.uses
    phase,      \* where the join is
    token,      \* the token a join consumed
    vip,        \* the address a join chose
    ip          \* devices.virtual_ip

enrollmentVars == <<owners, counted, usable, created, uses, phase, token, vip, ip>>

Phases == {"idle", "consumed", "chosen", "enrolled", "failed"}

\* The types of the variables.
EnrollmentTypeOK ==
    /\ owners \subseteq Owners /\ counted \subseteq Owners
    /\ usable \subseteq created /\ created \subseteq Tokens
    /\ uses \in [Tokens -> Nat]
    /\ phase \in [Devices -> Phases]
    /\ token \in [Devices -> Tokens \union {Unset}]
    /\ vip \in [Devices -> Net \union {Unset}]
    /\ ip \in [Devices -> Net \union {Unset}]

EnrollmentInit ==
    /\ owners = Owners /\ counted = {}
    /\ usable = {} /\ created = {} /\ uses = [t \in Tokens |-> 0]
    /\ phase = [d \in Devices |-> "idle"]
    /\ token = [d \in Devices |-> Unset]
    /\ vip = [d \in Devices |-> Unset]
    /\ ip = [d \in Devices |-> Unset]

Enrolled == {d \in Devices : phase[d] = "enrolled"}
UsedIPs  == {ip[d] : d \in Enrolled}
DevicesOf(u) == {d \in Enrolled : Owner[token[d]] = u}

-----------------------------------------------------------------------------
(***************************************************************************)
(* Tokens and users.                                                       *)
(***************************************************************************)
CreateEnrollmentToken(t) ==
    /\ t \notin created /\ Owner[t] \in owners
    /\ created' = created \union {t} /\ usable' = usable \union {t}
    /\ UNCHANGED <<owners, counted, uses, phase, token, vip, ip>>

\* RevokeToken, or the token's deadline passes.
RevokeToken(t) ==
    /\ t \in usable
    /\ usable' = usable \ {t}
    /\ UNCHANGED <<owners, counted, created, uses, phase, token, vip, ip>>

\* The first statement of DeleteUser.
CountDevices(u) ==
    /\ u \in owners /\ DevicesOf(u) = {}
    /\ counted' = counted \union {u}
    /\ UNCHANGED <<owners, usable, created, uses, phase, token, vip, ip>>

\* Its transaction: the foreign key of devices.user_id makes the deletion
\* fail, and everything roll back, when a device has appeared meanwhile.
MutantDeleteOwnerNoKey(u) ==
    /\ u \in counted
    /\ counted' = counted \ {u}
    /\ owners' = owners \ {u} /\ usable' = {t \in usable : Owner[t] # u}
    /\ UNCHANGED <<created, uses, phase, token, vip, ip>>

DeleteOwner(u) ==
    /\ u \in counted
    /\ counted' = counted \ {u}
    /\ IF DevicesOf(u) = {}
       THEN owners' = owners \ {u} /\ usable' = {t \in usable : Owner[t] # u}
       ELSE UNCHANGED <<owners, usable>>
    /\ UNCHANGED <<created, uses, phase, token, vip, ip>>

-----------------------------------------------------------------------------
(***************************************************************************)
(* JoinDevice.                                                             *)
(***************************************************************************)
MutantConsumeOffByOne(d, t) ==
    /\ phase[d] = "idle"
    /\ t \in usable /\ uses[t] <= MaxUses[t]
    /\ uses' = [uses EXCEPT ![t] = @ + 1]
    /\ token' = [token EXCEPT ![d] = t]
    /\ phase' = [phase EXCEPT ![d] = "consumed"]
    /\ UNCHANGED <<owners, counted, usable, created, vip, ip>>

ConsumeToken(d, t) ==
    /\ phase[d] = "idle"
    /\ t \in usable /\ uses[t] < MaxUses[t]
    /\ uses' = [uses EXCEPT ![t] = @ + 1]
    /\ token' = [token EXCEPT ![d] = t]
    /\ phase' = [phase EXCEPT ![d] = "consumed"]
    /\ UNCHANGED <<owners, counted, usable, created, vip, ip>>

\* The addresses the loop of nextIP would return: two above the configured
\* one, inside the network, not ending in the last octet value, not taken.
MutantOneBelow(used) ==
    {a \in Net : /\ a >= ConfiguredIP + 1 /\ a < ConfiguredIP + 2 + MaxScan
                 /\ a % OctetSize # OctetSize - 1
                 /\ a \notin used}

MutantSkipsZero(used) ==
    {a \in Net : /\ a >= ConfiguredIP + 2 /\ a < ConfiguredIP + 2 + MaxScan
                 /\ a % OctetSize \notin {0, OctetSize - 1}
                 /\ a \notin used}

Candidates(used) ==
    {a \in Net : /\ a >= ConfiguredIP + 2 /\ a < ConfiguredIP + 2 + MaxScan
                 /\ a % OctetSize # OctetSize - 1
                 /\ a \notin used}

\* The loop returns the first, hence the lowest, of them.
NextIP(d) ==
    /\ phase[d] = "consumed"
    /\ \E a \in Candidates(UsedIPs) :
         /\ \A b \in Candidates(UsedIPs) : a <= b
         /\ vip' = [vip EXCEPT ![d] = a]
    /\ phase' = [phase EXCEPT ![d] = "chosen"]
    /\ UNCHANGED <<owners, counted, usable, created, uses, token, ip>>

Exhausted(d) ==
    /\ phase[d] = "consumed" /\ Candidates(UsedIPs) = {}
    /\ phase' = [phase EXCEPT ![d] = "failed"]
    /\ UNCHANGED <<owners, counted, usable, created, uses, token, vip, ip>>

\* The INSERT, subject to the UNIQUE constraint of virtual_ip and to the
\* foreign key of user_id.
Insertable(d) == vip[d] \notin UsedIPs /\ Owner[token[d]] \in owners

MutantInsertNotUnique(d) ==
    /\ phase[d] = "chosen" /\ Owner[token[d]] \in owners
    /\ ip' = [ip EXCEPT ![d] = vip[d]]
    /\ phase' = [phase EXCEPT ![d] = "enrolled"]
    /\ UNCHANGED <<owners, counted, usable, created, uses, token, vip>>

Insert(d) ==
    /\ phase[d] = "chosen" /\ Insertable(d)
    /\ ip' = [ip EXCEPT ![d] = vip[d]]
    /\ phase' = [phase EXCEPT ![d] = "enrolled"]
    /\ UNCHANGED <<owners, counted, usable, created, uses, token, vip>>

InsertRejected(d) ==
    /\ phase[d] = "chosen" /\ ~Insertable(d)
    /\ phase' = [phase EXCEPT ![d] = "failed"]
    /\ UNCHANGED <<owners, counted, usable, created, uses, token, vip, ip>>

\* The request's context ends, or the server stops, between two steps.
Abandoned(d) ==
    /\ phase[d] \in {"consumed", "chosen"}
    /\ phase' = [phase EXCEPT ![d] = "failed"]
    /\ UNCHANGED <<owners, counted, usable, created, uses, token, vip, ip>>

\* An administrator assigns a static address.
SetDeviceVirtualIP(d, a) ==
    /\ phase[d] = "enrolled"
    /\ a \in Net \ {NetworkIP, ServerIP, Broadcast}
    /\ \A e \in Enrolled \ {d} : ip[e] # a
    /\ ip' = [ip EXCEPT ![d] = a]
    /\ UNCHANGED <<owners, counted, usable, created, uses, phase, token, vip>>

EnrollmentNext ==
    \/ \E t \in Tokens : CreateEnrollmentToken(t) \/ RevokeToken(t)
    \/ \E u \in Owners : CountDevices(u) \/ DeleteOwner(u)
    \/ \E d \in Devices :
         \/ \E t \in Tokens : ConsumeToken(d, t)
         \/ NextIP(d) \/ Exhausted(d) \/ Insert(d) \/ InsertRejected(d) \/ Abandoned(d)
         \/ \E a \in Net : SetDeviceVirtualIP(d, a)

EnrollmentSpec == EnrollmentInit /\ [][EnrollmentNext]_enrollmentVars

-----------------------------------------------------------------------------
(***************************************************************************)
(* No two devices ever have the same address, although each join chooses   *)
(* its address before it inserts it and administrators move devices in     *)
(* between (nextIP, the INSERT of JoinDevice, SetDeviceVirtualIP).         *)
(***************************************************************************)
UniqueAddresses ==
    \A d, e \in Enrolled : ip[d] = ip[e] => d = e

(***************************************************************************)
(* A token admits at most max_uses devices, however its joins interleave.  *)
(***************************************************************************)
TokenLimit ==
    \A t \in Tokens :
      Cardinality({d \in Enrolled : token[d] = t}) <= MaxUses[t]

(***************************************************************************)
(* Every device belongs to a user that exists, although DeleteUser counts  *)
(* devices before its transaction and a join resolves its user before it   *)
(* inserts the device.                                                     *)
(***************************************************************************)
DevicesHaveOwners ==
    \A d \in Enrolled : Owner[token[d]] \in owners

(***************************************************************************)
(* The configurations the installer writes: no host bits, the server at    *)
(* network + 1, and a prefix of at most 24 bits, so that the broadcast     *)
(* address ends in 255.                                                    *)
(***************************************************************************)
InstalledNetwork ==
    /\ ConfiguredIP = NetworkIP /\ ServerIP = NetworkIP + 1
    /\ Broadcast % OctetSize = OctetSize - 1

(***************************************************************************)
(* No device has the address of the network, of the server or of the       *)
(* broadcast, whether it was given by nextIP or by an administrator.       *)
(***************************************************************************)
AddressesLegal ==
    \A d \in Enrolled : ip[d] \in Net \ {NetworkIP, ServerIP, Broadcast}

(***************************************************************************)
(* A join is refused for lack of addresses only when every address that    *)
(* may be given to a device is taken, except those ending in the last      *)
(* octet value.                                                            *)
(***************************************************************************)
ExhaustedMeansFull ==
    Candidates(UsedIPs) = {} =>
      \A a \in Net \ {NetworkIP, ServerIP, Broadcast} :
        a \in UsedIPs \/ a % OctetSize = OctetSize - 1

=============================================================================
