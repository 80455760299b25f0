----------------------------- MODULE FlowHistory -----------------------------
(***************************************************************************)
(* The traffic monitor, the persistent flow history and the settings that  *)
(* govern it.                                                              *)
(*                                                                         *)
(* TrafficMonitor (routing/traffic.go) counts routed packets per second    *)
(* and flow key in buckets that live for Window seconds.  Once per second, *)
(* on enabling the history and on shutdown, flushHistory hands the         *)
(* completed buckets to the sink and then marks them flushed; flushMu      *)
(* admits one flush at a time, but the monitor's own lock is not held while*)
(* the sink runs.  The sink (control persistFlowHistory) reads the switch  *)
(* and the budget from memory and inserts and trims in one transaction.    *)
(* A PATCH of the settings (control api) flushes, changes memory and the   *)
(* store in several steps and trims.                                       *)
(*                                                                         *)
(* Abstractions: a packet adds 1 to its bucket, the byte counts being      *)
(* handled alike; every row of the history has size 1; the ping interval   *)
(* and the ports, which the same PATCH may change, are left out; the clock *)
(* does not go back.  The operators named Mutant... are deliberate         *)
(* mistakes that no action refers to.                                      *)
(***************************************************************************)
EXTENDS Naturals, FiniteSets

CONSTANTS
    Keys,        \* flow keys: addresses, protocol and ports
    Patches,     \* PATCH requests that may be under way at once
    Limits,      \* values of flow_history_limit_mb, in rows
    Window,      \* trafficWindowSeconds (60 in the code)
    MaxTracked,  \* maxTrackedFlows (4096 in the code)
    MaxSecond,   \* bound: the last second
    MaxPackets,  \* bound: packets per key and second
    None

Seconds == 0..MaxSecond

ASSUME FlowAssumption ==
    /\ IsFiniteSet(Keys) /\ Limits \subseteq Nat \ {0} /\ Limits # {}
    /\ Window \in Nat \ {0} /\ MaxTracked \in Nat \ {0}
    /\ MaxSecond \in Nat /\ MaxPackets \in Nat
    /\ "ticker" \notin Patches /\ "close" \notin Patches
    /\ None \notin BOOLEAN /\ None \notin Limits

VARIABLES
    now,       \* the clock, in seconds
    buckets,   \* TrafficMonitor.buckets: packets per second and key
    keys,      \* TrafficMonitor.keys: in how many buckets a key is
    flushed,   \* TrafficMonitor.historyFlushed
    flush,     \* the flushHistory call that holds flushMu
    closing,   \* the data plane is shutting down
    on, limit,       \* Server.flowHistoryOn and flowHistoryMB
    dbOn, dbLimit,   \* the same settings in the store
    patch,     \* the PATCH requests
    crossed,   \* history: the requests that change settings and have met another one
    clash,     \* history: the settings last changed by a request that met another one
    unwanted,  \* history: seconds that ended while recording was switched off
    rows,      \* rows of flow_history per recorded_at
    seen,      \* history: packets counted per second and key since the server started
    saved      \* history: packets written to flow_history, likewise

monitor  == <<buckets, keys, flushed>>
settings == <<on, limit, dbOn, dbLimit>>
history  == <<rows, saved>>
overlap  == <<crossed, clash>>
vars == <<now, monitor, flush, closing, settings, patch, overlap, history, seen, unwanted>>

Empty    == [s \in Seconds |-> [k \in Keys |-> 0]]
NoFlush  == [by |-> None, at |-> "free", records |-> Empty, limit |-> None]
NoPatch  == [at |-> "idle", enabled |-> None, limit |-> None, was |-> None]
Flushers == Patches \union {"ticker", "close"}

Counters  == [Seconds -> [Keys -> 0..MaxPackets]]
Flushes   == [by : Flushers \union {None}, at : {"free", "sink", "budget", "insert", "mark"},
              records : Counters, limit : Limits \union {None}]
PatchRuns == [at : {"idle", "flush", "flushing", "memory", "store", "apply", "budget", "trim"},
              enabled : BOOLEAN \union {None}, limit : Limits \union {None},
              was : BOOLEAN \union {None}]

\* The settings a request may change.
Fields == {"switch", "budget"}

\* The types of the variables.
TypeOK ==
    /\ now \in Seconds
    /\ buckets \in Counters
    /\ keys \in [Keys -> Nat]
    /\ flushed \subseteq Seconds
    /\ flush \in Flushes
    /\ closing \in BOOLEAN /\ on \in BOOLEAN /\ dbOn \in BOOLEAN
    /\ limit \in Limits /\ dbLimit \in Limits
    /\ patch \in [Patches -> PatchRuns]
    /\ crossed \subseteq Patches /\ clash \subseteq Fields
    /\ unwanted \subseteq Seconds
    /\ rows \in [Seconds -> Nat]
    /\ seen \in [Seconds -> [Keys -> Nat]] /\ saved \in [Seconds -> [Keys -> Nat]]

Init ==
    /\ now = 0
    /\ buckets = Empty
    /\ keys = [k \in Keys |-> 0] /\ flushed = {}
    /\ flush = NoFlush /\ closing = FALSE
    /\ on = FALSE /\ dbOn = FALSE
    /\ limit \in Limits /\ dbLimit = limit
    /\ patch = [p \in Patches |-> NoPatch] /\ crossed = {} /\ clash = {}
    /\ rows = [s \in Seconds |-> 0] /\ unwanted = {}
    /\ seen = Empty /\ saved = Empty

-----------------------------------------------------------------------------
(***************************************************************************)
(* The traffic monitor.                                                    *)
(***************************************************************************)
KeysOf(s) == {k \in Keys : buckets[s][k] > 0}

\* prune: buckets that left the window go, with their marks, and every key
\* loses one reference for each of them.
Stale == {s \in Seconds : s + Window <= now}
PrunedBuckets == [s \in Seconds |-> IF s \in Stale THEN [k \in Keys |-> 0] ELSE buckets[s]]

PrunedKeys == [k \in Keys |-> keys[k] - Cardinality({s \in Stale : k \in KeysOf(s)})]

\* ObservePacket of a packet with key k; a new key beyond the cap is not
\* counted.
MutantObserveUncapped(k) ==
    LET fresh == PrunedBuckets[now][k] = 0
    IN  /\ PrunedBuckets[now][k] < MaxPackets
        /\ buckets' = [PrunedBuckets EXCEPT ![now][k] = @ + 1]
        /\ keys' = IF fresh THEN [PrunedKeys EXCEPT ![k] = @ + 1] ELSE PrunedKeys
        /\ seen' = [seen EXCEPT ![now][k] = @ + 1]
        /\ flushed' = flushed \ Stale
        /\ UNCHANGED <<now, flush, closing, settings, patch, overlap, history, unwanted>>

Observe(k) ==
    LET fresh == PrunedBuckets[now][k] = 0
        full  == /\ fresh /\ PrunedKeys[k] = 0
                 /\ Cardinality({j \in Keys : PrunedKeys[j] > 0}) >= MaxTracked
    IN  /\ PrunedBuckets[now][k] < MaxPackets
        /\ IF full
           THEN buckets' = PrunedBuckets /\ keys' = PrunedKeys /\ UNCHANGED seen
           ELSE /\ buckets' = [PrunedBuckets EXCEPT ![now][k] = @ + 1]
                /\ keys' = IF fresh THEN [PrunedKeys EXCEPT ![k] = @ + 1] ELSE PrunedKeys
                /\ seen' = [seen EXCEPT ![now][k] = @ + 1]
        /\ flushed' = flushed \ Stale
        /\ UNCHANGED <<now, flush, closing, settings, patch, overlap, history, unwanted>>

\* Snapshot changes nothing but what it prunes.
Snapshot ==
    /\ \E s \in Stale : KeysOf(s) # {}
    /\ buckets' = PrunedBuckets /\ keys' = PrunedKeys /\ flushed' = flushed \ Stale
    /\ UNCHANGED <<now, flush, closing, settings, patch, overlap, history, seen, unwanted>>

\* A second ends.  Its traffic is not wanted in the history when recording
\* is off, nobody is changing that and the data plane is not closing.
ClockTick ==
    /\ now < MaxSecond
    /\ now' = now + 1
    /\ unwanted' = IF ~on /\ ~closing /\ \A p \in Patches : patch[p] = NoPatch
                   THEN unwanted \union {now} ELSE unwanted
    /\ UNCHANGED <<monitor, flush, closing, settings, patch, overlap, history, seen>>

(***************************************************************************)
(* flushHistory, first critical section: the buckets to hand to the sink.  *)
(* A flush without records ends here.                                      *)
(***************************************************************************)
Unflushed(all) ==
    {s \in Seconds : /\ s \notin Stale /\ KeysOf(s) # {} /\ s \notin flushed
                     /\ (all \/ s < now)}

FlushBegin(f, all) ==
    /\ flush = NoFlush
    /\ flush' = IF Unflushed(all) = {} THEN NoFlush
                ELSE [by |-> f, at |-> "sink", limit |-> None,
                      records |-> [s \in Seconds |-> IF s \in Unflushed(all) THEN buckets[s] ELSE Empty[s]]]
    /\ buckets' = PrunedBuckets /\ keys' = PrunedKeys /\ flushed' = flushed \ Stale

\* flushTrafficHistory, once per second; its select may still choose a tick
\* when the data plane has been closed.
FlushTicker ==
    /\ FlushBegin("ticker", FALSE)
    /\ UNCHANGED <<now, closing, settings, patch, overlap, history, seen, unwanted>>

\* Close of the data plane: FlushHistoryNow, once.
Close ==
    /\ ~closing
    /\ closing' = TRUE
    /\ FlushBegin("close", TRUE)
    /\ UNCHANGED <<now, settings, patch, overlap, history, seen, unwanted>>

\* A PATCH whose flush ends, with or without an error, goes on or returns.
FlushReturns(ok) ==
    /\ flush' = NoFlush
    /\ patch' = IF flush.by \notin Patches THEN patch
                ELSE [patch EXCEPT ![flush.by] = IF ok THEN [@ EXCEPT !.at = "memory"] ELSE NoPatch]

(***************************************************************************)
(* persistFlowHistory: the switch, the budget, and the transaction of      *)
(* InsertFlowHistory, which inserts every record and trims.                *)
(***************************************************************************)
SinkSwitch ==
    /\ flush.at = "sink"
    /\ flush' = [flush EXCEPT !.at = IF on THEN "budget" ELSE "mark"]
    /\ UNCHANGED <<now, monitor, closing, settings, patch, overlap, history, seen, unwanted>>

SinkBudget ==
    /\ flush.at = "budget"
    /\ flush' = [flush EXCEPT !.at = "insert", !.limit = limit]
    /\ UNCHANGED <<now, monitor, closing, settings, patch, overlap, history, seen, unwanted>>

\* The rows of some seconds, told apart by second and number.
RowsOf(r, S) == UNION {{s} \X (1..r[s]) : s \in S}

\* trimFlowHistory: the oldest rows go until at most max are left.
MutantTrimmed(r, max) ==
    [s \in Seconds |->
       LET older == Cardinality(RowsOf(r, {x \in Seconds : x < s}))
       IN  IF older >= max THEN 0 ELSE IF r[s] < max - older THEN r[s] ELSE max - older]

Trimmed(r, max) ==
    [s \in Seconds |->
       LET newer == Cardinality(RowsOf(r, {x \in Seconds : x > s}))
       IN  IF newer >= max THEN 0 ELSE IF r[s] < max - newer THEN r[s] ELSE max - newer]

Rows(s) == Cardinality({k \in Keys : flush.records[s][k] > 0})

Insert ==
    /\ flush.at = "insert"
    /\ rows' = Trimmed([s \in Seconds |-> rows[s] + Rows(s)], flush.limit)
    /\ saved' = [s \in Seconds |-> [k \in Keys |-> saved[s][k] + flush.records[s][k]]]
    /\ flush' = [flush EXCEPT !.at = "mark"]
    /\ UNCHANGED <<now, monitor, closing, settings, patch, overlap, seen, unwanted>>

\* The transaction fails or times out: nothing is marked, the next flush
\* tries again.
InsertFails ==
    /\ flush.at = "insert"
    /\ FlushReturns(FALSE)
    /\ UNCHANGED <<now, monitor, closing, settings, overlap, history, seen, unwanted>>

\* Second critical section: what was handed over, written or dropped, is
\* marked.
MutantMark ==
    /\ flush.at = "mark"
    /\ FlushReturns(TRUE)
    /\ UNCHANGED <<now, monitor, closing, settings, overlap, history, seen, unwanted>>

Mark ==
    /\ flush.at = "mark"
    /\ flushed' = flushed \union {s \in Seconds : Rows(s) > 0}
    /\ FlushReturns(TRUE)
    /\ UNCHANGED <<now, buckets, keys, closing, settings, overlap, history, seen, unwanted>>

-----------------------------------------------------------------------------
(***************************************************************************)
(* PATCH server/settings.  A request names a new switch position, a new    *)
(* budget or both.  Switching on first flushes what was counted before.    *)
(***************************************************************************)
MutantPatchBegin(p, e, l) ==
    /\ patch[p] = NoPatch
    /\ e # None \/ l # None
    /\ patch' = [patch EXCEPT ![p] = [at |-> "memory", enabled |-> e, limit |-> l, was |-> None]]
    /\ UNCHANGED <<now, monitor, flush, closing, settings, overlap, history, seen, unwanted>>

PatchBegin(p, e, l) ==
    /\ patch[p] = NoPatch
    /\ e # None \/ l # None
    /\ patch' = [patch EXCEPT ![p] = [at |-> IF e = TRUE /\ ~on THEN "flush" ELSE "memory",
                                      enabled |-> e, limit |-> l, was |-> None]]
    /\ UNCHANGED <<now, monitor, flush, closing, settings, overlap, history, seen, unwanted>>

PatchFlush(p) ==
    /\ patch[p].at = "flush"
    /\ FlushBegin(p, FALSE)
    /\ patch' = [patch EXCEPT ![p].at = IF Unflushed(FALSE) = {} THEN "memory" ELSE "flushing"]
    /\ UNCHANGED <<now, closing, settings, overlap, history, seen, unwanted>>

\* The requests between their first look at the switch and their last write
\* of a setting to memory.
Changing == {p \in Patches : patch[p].at \in {"store", "apply", "budget"}}

\* The settings a request changes.
Named(p) == {f \in Fields : \/ f = "switch" /\ patch[p].enabled # None
                            \/ f = "budget" /\ patch[p].limit # None}

\* The request's last write, after which memory and store agree on done unless
\* it has met another one on its way.
Changed(p, done) ==
    /\ crossed' = crossed \ {p}
    /\ clash' = IF p \in crossed THEN Fields ELSE clash \ done

\* Switching off takes effect before it is stored.
PatchMemory(p) ==
    /\ patch[p].at = "memory"
    /\ patch' = [patch EXCEPT ![p].at = "store", ![p].was = on]
    /\ on' = IF patch[p].enabled = FALSE THEN FALSE ELSE on
    /\ crossed' = IF Changing = {} THEN crossed ELSE crossed \union Changing \union {p}
    /\ UNCHANGED <<now, monitor, flush, closing, limit, dbOn, dbLimit, clash, history, seen, unwanted>>

\* SetSettings, one transaction.
PatchStore(p) ==
    /\ patch[p].at = "store"
    /\ dbOn' = IF patch[p].enabled = None THEN dbOn ELSE patch[p].enabled
    /\ dbLimit' = IF patch[p].limit = None THEN dbLimit ELSE patch[p].limit
    /\ patch' = [patch EXCEPT ![p].at = "apply"]
    /\ UNCHANGED <<now, monitor, flush, closing, on, limit, overlap, history, seen, unwanted>>

MutantPatchStoreFails(p) ==
    /\ patch[p].at = "store"
    /\ patch' = [patch EXCEPT ![p] = NoPatch]
    /\ Changed(p, {})
    /\ UNCHANGED <<now, monitor, flush, closing, settings, history, seen, unwanted>>

\* The position of the switch is put back, also by a request that did not
\* change it.
PatchStoreFails(p) ==
    /\ patch[p].at = "store"
    /\ on' = patch[p].was
    /\ patch' = [patch EXCEPT ![p] = NoPatch]
    /\ Changed(p, {})
    /\ UNCHANGED <<now, monitor, flush, closing, limit, dbOn, dbLimit, history, seen, unwanted>>

\* The stored values go to memory, first the switch, then the budget.
PatchApply(p) ==
    /\ patch[p].at = "apply"
    /\ on' = IF patch[p].enabled = None THEN on ELSE patch[p].enabled
    /\ IF patch[p].limit = None
       THEN patch' = [patch EXCEPT ![p] = NoPatch] /\ Changed(p, Named(p))
       ELSE patch' = [patch EXCEPT ![p].at = "budget"] /\ UNCHANGED overlap
    /\ UNCHANGED <<now, monitor, flush, closing, limit, dbOn, dbLimit, history, seen, unwanted>>

PatchBudget(p) ==
    /\ patch[p].at = "budget"
    /\ limit' = patch[p].limit
    /\ patch' = [patch EXCEPT ![p].at = "trim"]
    /\ Changed(p, Named(p))
    /\ UNCHANGED <<now, monitor, flush, closing, on, dbOn, dbLimit, history, seen, unwanted>>

\* TrimFlowHistory to the requested budget, or its failure.
PatchTrim(p) ==
    /\ patch[p].at = "trim"
    /\ rows' \in {Trimmed(rows, patch[p].limit), rows}
    /\ patch' = [patch EXCEPT ![p] = NoPatch]
    /\ UNCHANGED <<now, monitor, flush, closing, settings, overlap, saved, seen, unwanted>>

\* DELETE network/flows/history.
DeleteFlowHistory ==
    /\ \E s \in Seconds : rows[s] > 0
    /\ rows' = [s \in Seconds |-> 0]
    /\ UNCHANGED <<now, monitor, flush, closing, settings, patch, overlap, saved, seen, unwanted>>

\* The process ends, by a crash or after Close, and New starts from the store.
Restart ==
    /\ buckets' = Empty /\ keys' = [k \in Keys |-> 0] /\ flushed' = {}
    /\ flush' = NoFlush /\ closing' = FALSE
    /\ patch' = [p \in Patches |-> NoPatch] /\ crossed' = {} /\ clash' = {}
    /\ on' = dbOn /\ limit' = dbLimit
    /\ seen' = Empty /\ saved' = Empty
    /\ unwanted' = {}
    /\ UNCHANGED <<now, dbOn, dbLimit, rows>>

Patch(p) ==
    \/ \E e \in BOOLEAN \union {None}, l \in Limits \union {None} : PatchBegin(p, e, l)
    \/ PatchFlush(p) \/ PatchMemory(p) \/ PatchStore(p) \/ PatchStoreFails(p)
    \/ PatchApply(p) \/ PatchBudget(p) \/ PatchTrim(p)

Next ==
    \/ \E k \in Keys : Observe(k)
    \/ Snapshot \/ ClockTick \/ FlushTicker \/ Close
    \/ SinkSwitch \/ SinkBudget \/ Insert \/ InsertFails \/ Mark
    \/ \E p \in Patches : Patch(p)
    \/ DeleteFlowHistory \/ Restart

Spec == Init /\ [][Next]_vars

-----------------------------------------------------------------------------
(***************************************************************************)
(* Properties.                                                             *)
(***************************************************************************)

\* The reference counts of the flow keys stay exact through counting and
\* pruning (observe, prune), so that the cap neither admits more than
\* maxTrackedFlows keys nor locks keys out for good.
KeyCountsExact ==
    /\ \A k \in Keys : keys[k] = Cardinality({s \in Seconds : k \in KeysOf(s)})
    /\ Cardinality({k \in Keys : keys[k] > 0}) <= MaxTracked

\* A second's traffic enters the history once and whole, or not at all,
\* whatever flushes from the ticker, from PATCH requests and from Close
\* interleave, fail and are tried again (flushHistory).  Only the second in
\* which the data plane closes may be saved in part.
ExactlyOnce ==
    \A s \in Seconds :
        /\ \A k \in Keys : saved[s][k] <= seen[s][k]
        /\ ~closing => saved[s] \in {Empty[s], seen[s]} /\ (s = now => saved[s] = Empty[s])

\* Traffic of a second that ended while recording was off is never saved,
\* however late its flush and however soon recording is switched on (the
\* flush that PATCH makes before it switches on).
NothingFromDisabledSeconds ==
    \A s \in unwanted : saved[s] = Empty[s]

\* The switch and the budget in memory are the ones a restart would load,
\* failed writes included, whenever no request is changing them (PATCH
\* server/settings).  Two requests that meet may leave memory and store with
\* different values, since nothing orders their writes; a setting that did not
\* meet that fate, or that a request has changed alone since, agrees.
SettingsAgree ==
    Changing = {} => /\ "switch" \notin clash => on = dbOn
                     /\ "budget" \notin clash => limit = dbLimit

\* Whatever removes rows for the budget removes the oldest ones
\* (trimFlowHistory), also when a late flush inserts seconds older than the
\* ones already saved.
OldestGoFirst ==
    [][\A s, t \in Seconds : s < t /\ rows'[t] < rows[t] => rows'[s] = 0]_vars

=============================================================================
