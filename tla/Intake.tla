------------------------------- MODULE Intake -------------------------------
(***************************************************************************)
(* The server's intake of datagrams, the first half of readUDP in          *)
(* internal/dataplane/server.go: the limiter of sources of invalid         *)
(* datagrams in front of the cipher of a session, ReplayWindow.tla.        *)
(*                                                                         *)
(* Every datagram comes from a host (an IP address, often a NAT that many  *)
(* devices share).  What the cipher refuses, repeated and stale datagrams  *)
(* included, counts against the host as much as garbage does, and so do    *)
(* datagrams of a session that has just been replaced.  A host at the      *)
(* limit is not listened to until its minute is over.                      *)
(*                                                                         *)
(* The table is in memory and one goroutine uses it.  Definitions named    *)
(* Mutant... are plausible defects of the definition that follows them.    *)
(***************************************************************************)
EXTENDS ReplayWindow, FiniteSets

CONSTANTS Hosts,         \* IP addresses that datagrams come from
          Limit,         \* invalid datagrams a minute, 120 in the code
          MaxSources     \* entries of the table, 4096 in the code

ASSUME LimitAssumption == Limit \in Nat \ {0}
ASSUME MaxSourcesAssumption == MaxSources \in Nat \ {0}
ASSUME HostsAssumption == IsFiniteSet(Hosts)

VARIABLES count,         \* invalidSource.count, 0 for no entry
          recent         \* entries whose window is less than a minute old

limiterVars == <<count, recent>>
intakeVars == <<vars, limiterVars>>

IntakeTypeOK ==
    /\ TypeOK
    /\ count \in [Hosts -> 0..Limit]
    /\ recent \subseteq Hosts

IntakeInit ==
    /\ Init
    /\ count = [h \in Hosts |-> 0]
    /\ recent = {}

-----------------------------------------------------------------------------
(* invalidBlocked and recordInvalid.                                       *)

\* Mutant: the age of the entry is not looked at.
MutantBlockedForGood(h) == count[h] >= Limit

\* invalidBlocked: as many as the limit in the minute since the first.
Blocked(h) == h \in recent /\ count[h] >= Limit

\* invalidBlocked deletes an entry whose minute is over.
CountRead(h) == IF h \in recent THEN count ELSE [count EXCEPT ![h] = 0]

\* The sources in a table.
Entries(table) == {h \in Hosts : table[h] # 0}

\* Mutant: only expired entries are cut.
MutantKeepsRecent(table, now) ==
    {IF Cardinality(Entries(table)) <= MaxSources
     THEN Entries(table) ELSE Entries(table) \cap now}

\* What recordInvalid may leave of a table that is too large: expired entries
\* go first, then any others, in the order of a Go map.
Survivors(table, now) ==
    LET live == Entries(table) \cap now
    IN  IF Cardinality(Entries(table)) <= MaxSources THEN {Entries(table)}
        ELSE IF Cardinality(live) <= MaxSources THEN {live}
        ELSE {kept \in SUBSET live : Cardinality(kept) = MaxSources}

\* recordInvalid for a datagram from host h; a new window begins at one.
RecordInvalid(h) ==
    LET now == recent \cup {h}
        table == [CountRead(h) EXCEPT ![h] = @ + 1]
    IN  \E kept \in Survivors(table, now) :
            /\ count' = [g \in Hosts |-> IF g \in kept THEN table[g] ELSE 0]
            /\ recent' = now \cap kept

-----------------------------------------------------------------------------
(* readUDP; a datagram of a blocked host is dropped and changes nothing.   *)

\* The cipher opens the packet.
TakeAuthentic(h, seq) ==
    /\ ~Blocked(h)
    /\ OpenAuthentic(seq)
    /\ count' = CountRead(h)
    /\ UNCHANGED recent

\* The cipher opens it, but a keepalive is not empty or a packet is shorter
\* than an IPv4 header or longer than the server's MTU.
TakeMisshapen(h, seq) ==
    /\ ~Blocked(h)
    /\ OpenAuthentic(seq)
    /\ RecordInvalid(h)

\* The cipher refuses it: damaged, or zero, stale or repeated.
TakeRefused(h, seq) ==
    /\ ~Blocked(h)
    /\ OpenDamaged(seq) \/ OpenRejected(seq)
    /\ RecordInvalid(h)

\* The datagram cannot be parsed, is of another type, or its session is
\* unknown, expired or another device's: the cipher is not asked.
TakeUnknown(h) ==
    /\ ~Blocked(h)
    /\ RecordInvalid(h)
    /\ UNCHANGED vars

\* The client sends; it knows nothing of the limiter.
ClientSeals == Seal /\ UNCHANGED limiterVars

\* A minute has passed since the window of an entry began.
MinutePasses(h) ==
    /\ h \in recent
    /\ recent' = recent \ {h}
    /\ UNCHANGED <<vars, count>>

IntakeNext ==
    \/ ClientSeals
    \/ \E h \in Hosts, seq \in Seqs : TakeAuthentic(h, seq)
    \/ \E h \in Hosts, seq \in Seqs : TakeMisshapen(h, seq) \/ TakeRefused(h, seq)
    \/ \E h \in Hosts : TakeUnknown(h)
    \/ \E h \in Hosts : MinutePasses(h)

IntakeSpec == IntakeInit /\ [][IntakeNext]_intakeVars

\* Time passes.  Nothing else is fair: any datagram may be lost, and invalid
\* ones may arrive without end.
IntakeFairSpec ==
    IntakeSpec /\ \A h \in Hosts : WF_intakeVars(MinutePasses(h))

-----------------------------------------------------------------------------
(* Properties.                                                             *)

\* The table of bad sources never holds more than its bound, and a host that
\* is cut out while it is blocked begins again at nothing: no counter without
\* a window, no window without a counter, none beyond the limit.
LimiterBounded ==
    /\ Cardinality(Entries(count)) <= MaxSources
    /\ recent \subseteq Entries(count)
    /\ \A h \in Hosts : count[h] <= Limit

\* No host is shut out for good: the minute runs from the first invalid
\* datagram, and those that arrive while the host is blocked do not prolong
\* it, so the devices behind a NAT that repeats datagrams are heard again.
BlockEnds == \A h \in Hosts : []<>(~Blocked(h))
=============================================================================
