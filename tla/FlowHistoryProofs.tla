------------------------- MODULE FlowHistoryProofs -------------------------
(***************************************************************************)
(* Proofs about FlowHistory for any finite set of keys, any window, any    *)
(* cap and any number of seconds, packets and concurrent PATCH requests.   *)
(*                                                                         *)
(* That a second is saved once and whole is not inductive: between the     *)
(* copy of the records and their mark, buckets change, age and are pruned  *)
(* and the clock moves on.  The inductive invariant relates the records in *)
(* flight to the traffic seen, says that what was saved is marked, too old *)
(* to be flushed again or about to be marked, and that records in flight   *)
(* were never saved.                                                       *)
(*                                                                         *)
(* That nothing of a second with recording off is saved rests on such      *)
(* seconds being settled (marked, too old or without traffic, and not in   *)
(* flight) wherever recording is on or a PATCH may still switch it on.     *)
(*                                                                         *)
(* That memory and store agree rests on what a request that has met no     *)
(* other one is sure of in each of its phases.                             *)
(***************************************************************************)
EXTENDS FlowHistory, FiniteSetTheorems, TLAPS

Zero == [k \in Keys |-> 0]
InFlight == {"sink", "budget", "insert"}

\* Seconds that have not begun have no traffic.
FutureEmpty ==
    \A s \in Seconds : s > now => buckets[s] = Zero /\ seen[s] = Zero /\ saved[s] = Zero

\* A bucket holds all the traffic of its second, until it is pruned.
BucketsWhole ==
    \A s \in Seconds : buckets[s] = seen[s] \/ (buckets[s] = Zero /\ s \in Stale)

\* Counters c of second s hold traffic that was seen, and all of it unless
\* the data plane is closing.
Whole(c, s) ==
    c # Zero => /\ s <= now /\ \A k \in Keys : c[k] <= seen[s][k]
                /\ ~closing => s < now /\ c = seen[s]

RecordsWhole == flush.at # "free" => \A s \in Seconds : Whole(flush.records[s], s)

SavedWhole == \A s \in Seconds : Whole(saved[s], s)

\* What was saved will not be taken again, and what was taken is not saved yet.
SavedOnce ==
    \A s \in Seconds :
        /\ saved[s] # Zero =>
             \/ s \in flushed \/ s \in Stale
             \/ flush.at = "mark" /\ flush.records[s] # Zero
        /\ flush.at \in InFlight /\ flush.records[s] # Zero =>
             saved[s] = Zero /\ s \notin flushed

TrafficInv == FutureEmpty /\ BucketsWhole /\ RecordsWhole /\ SavedWhole /\ SavedOnce

\* A PATCH waits for the flush it has begun, and has the values it goes on to
\* use.
PatchWaits ==
    /\ flush.at # "free" /\ flush.by \in Patches => patch[flush.by].at = "flushing"
    /\ \A p \in Patches : patch[p].at = "flushing" => flush.at # "free" /\ flush.by = p
    /\ flush.at = "insert" => flush.limit \in Limits
    /\ \A p \in Patches : patch[p].at \in {"budget", "trim"} => patch[p].limit \in Limits
    /\ \A p \in Patches : patch[p].at = "store" => patch[p].was \in BOOLEAN

\* No flush can save second s any more.
Settled(s) ==
    /\ s \in flushed \/ s \in Stale \/ buckets[s] = Zero
    /\ flush.at \in InFlight => flush.records[s] = Zero

\* A PATCH that may switch recording on, by its request or by undoing it.
MaySwitchOn(p) ==
    \/ patch[p].at \in {"memory", "store", "apply"} /\ patch[p].enabled = TRUE
    \/ patch[p].at = "store" /\ patch[p].was = TRUE

UnwantedSettled ==
    /\ \A s \in unwanted : s < now
    /\ on \/ (\E p \in Patches : MaySwitchOn(p)) => \A s \in unwanted : Settled(s)
    /\ \A p \in Patches : patch[p].at = "flushing" =>
         \A s \in unwanted : Settled(s) \/ flush.records[s] # Zero
    /\ flush.at \in {"budget", "insert"} => \A s \in unwanted : flush.records[s] = Zero

\* The switch and the budget, in memory and in the store, in every phase of a
\* PATCH that has met no other one.
AloneByPhase(p) ==
    /\ patch[p].at = "store" =>
         /\ "switch" \notin clash => patch[p].was = dbOn
         /\ patch[p].enabled # FALSE => on = patch[p].was
         /\ "budget" \notin clash => limit = dbLimit
    /\ patch[p].at = "apply" =>
         /\ IF patch[p].enabled = None THEN "switch" \notin clash => on = dbOn
            ELSE dbOn = patch[p].enabled
         /\ IF patch[p].limit = None THEN "budget" \notin clash => limit = dbLimit
            ELSE dbLimit = patch[p].limit
    /\ patch[p].at = "budget" =>
         /\ "switch" \notin clash \/ patch[p].enabled # None => on = dbOn
         /\ dbLimit = patch[p].limit

\* Requests meet only while they change settings, and one that has met none
\* is alone.
Memory ==
    /\ crossed \subseteq Changing
    /\ \A p \in Changing \ crossed : Changing = {p} /\ AloneByPhase(p)
    /\ SettingsAgree

\* The rows of some seconds are finitely many.
LEMMA RowsFinite ==
    ASSUME NEW r \in [Seconds -> Nat], NEW S \in SUBSET Seconds
    PROVE  IsFiniteSet(RowsOf(r, S)) /\ Cardinality(RowsOf(r, S)) \in Nat
<1> DEFINE Row(s) == {s} \X (1..r[s])
           f == [s \in S |-> Row(s)]
           T == {Row(s) : s \in S}
<1>1. IsFiniteSet(S)
  <2>1. IsFiniteSet(Seconds)
    BY FS_Interval, FlowAssumption DEF Seconds
  <2> QED BY <2>1, FS_Subset
<1>2. f \in Surjection(S, T)
  BY DEF Surjection
<1>3. IsFiniteSet(T)
  BY <1>1, <1>2, FS_Surjection
<1>4. \A R \in T : IsFiniteSet(R)
  <2> SUFFICES ASSUME NEW s \in S PROVE IsFiniteSet(Row(s))
    OBVIOUS
  <2>1. IsFiniteSet(1..r[s])
    BY FS_Interval
  <2> QED BY <2>1, FS_Singleton, FS_Product
<1>5. IsFiniteSet(UNION T)
  BY <1>3, <1>4, FS_UNION
<1> QED BY <1>5, FS_CardinalityType DEF RowsOf

\* A second's rows are among those newer than any earlier second.
LEMMA NewerRows ==
    ASSUME NEW r \in [Seconds -> Nat], NEW s \in Seconds, NEW t \in Seconds, s < t
    PROVE  Cardinality(RowsOf(r, {x \in Seconds : x > s})) >=
              Cardinality(RowsOf(r, {x \in Seconds : x > t})) + r[t]
<1> DEFINE Old == RowsOf(r, {x \in Seconds : x > s})
           New == RowsOf(r, {x \in Seconds : x > t})
           Row == {t} \X (1..r[t])
<1>1. /\ IsFiniteSet(Old) /\ IsFiniteSet(New) /\ Cardinality(Old) \in Nat
      /\ Cardinality(New) \in Nat
  BY RowsFinite
<1>2. IsFiniteSet(Row) /\ Cardinality(Row) = r[t]
  <2>1. IsFiniteSet(1..r[t]) /\ Cardinality(1..r[t]) = r[t]
    BY FS_Interval
  <2>2. IsFiniteSet({t}) /\ Cardinality({t}) = 1
    BY FS_Singleton
  <2>3. IsFiniteSet(Row) /\ Cardinality(Row) = Cardinality({t}) * Cardinality(1..r[t])
    BY <2>1, <2>2, FS_Product
  <2> QED BY <2>1, <2>2, <2>3
<1>3. New \cap Row = {}
  <2> SUFFICES ASSUME NEW x \in New, x \in Row PROVE FALSE
    OBVIOUS
  <2>1. PICK u \in Seconds : u > t /\ x \in {u} \X (1..r[u])
    BY DEF RowsOf
  <2>2. x[1] = u /\ x[1] = t
    BY <2>1
  <2> QED BY <2>1, <2>2 DEF Seconds
<1>4. New \union Row \subseteq Old
  <2>1. \A x \in Seconds : x > t => x > s
    BY DEF Seconds
  <2> QED BY <2>1 DEF RowsOf
<1>5. Cardinality(New \union Row) = Cardinality(New) + Cardinality(Row) - Cardinality({})
  BY <1>1, <1>2, <1>3, FS_Union
<1>6. Cardinality(New \union Row) = Cardinality(New) + r[t]
  BY <1>1, <1>2, <1>5, FS_EmptySet
<1>7. Cardinality(New \union Row) <= Cardinality(Old)
  BY <1>1, <1>4, FS_Subset
<1> QED BY <1>1, <1>6, <1>7

\* Trimming never adds rows, and a second that loses some leaves none of the
\* older ones.
LEMMA TrimmedFacts ==
    ASSUME NEW r \in [Seconds -> Nat], NEW max \in Nat
    PROVE  /\ Trimmed(r, max) \in [Seconds -> Nat]
           /\ \A s \in Seconds : Trimmed(r, max)[s] <= r[s]
           /\ \A s, t \in Seconds : s < t /\ Trimmed(r, max)[t] < r[t] => Trimmed(r, max)[s] = 0
<1> DEFINE newer(s) == Cardinality(RowsOf(r, {x \in Seconds : x > s}))
<1>1. \A s \in Seconds : newer(s) \in Nat
  BY RowsFinite
<1>2. \A s, t \in Seconds : s < t => newer(s) >= newer(t) + r[t]
  BY NewerRows
<1>3. Trimmed(r, max) =
        [s \in Seconds |-> IF newer(s) >= max THEN 0
                           ELSE IF r[s] < max - newer(s) THEN r[s] ELSE max - newer(s)]
  BY DEF Trimmed
<1> HIDE DEF newer
<1>4. \A s \in Seconds : Trimmed(r, max)[s] \in Nat /\ Trimmed(r, max)[s] <= r[s]
  BY <1>1, <1>3
<1>5. ASSUME NEW s \in Seconds, NEW t \in Seconds, s < t, Trimmed(r, max)[t] < r[t]
      PROVE  Trimmed(r, max)[s] = 0
  <2>1. newer(t) + r[t] >= max
    BY <1>1, <1>3, <1>5
  <2>2. newer(s) >= max
    BY <1>1, <1>2, <1>5, <2>1
  <2> QED BY <1>3, <2>2
<1> QED BY <1>3, <1>4, <1>5
\* The present is not stale.
LEMMA NowIsFresh ==
    ASSUME TypeOK
    PROVE  now \notin Stale
BY FlowAssumption DEF TypeOK, Stale, Seconds

\* What prune leaves.
LEMMA Pruned ==
    ASSUME TypeOK
    PROVE  /\ PrunedBuckets \in Counters
           /\ \A s \in Seconds : PrunedBuckets[s] = IF s \in Stale THEN Zero ELSE buckets[s]
           /\ PrunedBuckets[now] = buckets[now]
<1>1. 0 \in 0..MaxPackets
  BY FlowAssumption
<1> QED BY <1>1, NowIsFresh DEF TypeOK, PrunedBuckets, Counters, Zero

\* In how many seconds of b key k has traffic.
CountIn(b, k) == Cardinality({s \in Seconds : b[s][k] > 0})

\* The seconds with a key are finitely many.
LEMMA CountType ==
    ASSUME NEW b, NEW k
    PROVE  /\ IsFiniteSet({s \in Seconds : b[s][k] > 0})
           /\ CountIn(b, k) \in Nat
<1>1. IsFiniteSet(Seconds)
  BY FS_Interval, FlowAssumption DEF Seconds
<1>2. {s \in Seconds : b[s][k] > 0} \in SUBSET Seconds
  OBVIOUS
<1> QED BY <1>1, <1>2, FS_Subset, FS_CardinalityType DEF CountIn

\* prune takes from every key the buckets it takes away.
LEMMA PrunedCounts ==
    ASSUME TypeOK, NEW k \in Keys, keys[k] = CountIn(buckets, k)
    PROVE  /\ PrunedKeys[k] = CountIn(PrunedBuckets, k)
           /\ PrunedKeys[k] \in Nat /\ PrunedKeys[k] <= keys[k]
<1> DEFINE Before == {s \in Seconds : buckets[s][k] > 0}
           Gone   == {s \in Stale : k \in KeysOf(s)}
           After  == {s \in Seconds : PrunedBuckets[s][k] > 0}
<1>1. IsFiniteSet(Before) /\ Cardinality(Before) \in Nat
  BY CountType DEF CountIn
<1>2. After = Before \ Gone /\ Before \cap Gone = Gone
  BY Pruned DEF Zero, KeysOf, Stale
<1>3. /\ PrunedKeys[k] = Cardinality(Before) - Cardinality(Gone)
      /\ CountIn(PrunedBuckets, k) = Cardinality(After)
      /\ keys[k] = Cardinality(Before)
  BY DEF PrunedKeys, CountIn
<1> HIDE DEF Before, Gone, After
<1>4. Cardinality(After) = Cardinality(Before) - Cardinality(Gone)
  BY <1>1, <1>2, FS_Difference
<1>5. Cardinality(Gone) \in Nat /\ Cardinality(After) \in Nat
  BY <1>1, <1>2, FS_Intersection, FS_Difference, FS_CardinalityType
<1> QED BY <1>1, <1>3, <1>4, <1>5

\* One more packet of key k at time t adds t to the seconds of k, if it is new
\* there.
LEMMA AddedCount ==
    ASSUME NEW b \in Counters, NEW t \in Seconds, NEW k \in Keys,
           NEW c \in Counters,
           \A s \in Seconds, j \in Keys :
              c[s][j] = IF s = t /\ j = k THEN b[s][j] + 1 ELSE b[s][j]
    PROVE  /\ \A j \in Keys : j # k => CountIn(c, j) = CountIn(b, j)
           /\ CountIn(c, k) = IF b[t][k] = 0 THEN CountIn(b, k) + 1 ELSE CountIn(b, k)
<1>1. ASSUME NEW j \in Keys, j # k PROVE CountIn(c, j) = CountIn(b, j)
  <2>1. \A s \in Seconds : c[s][j] = b[s][j]
    BY <1>1
  <2> QED BY <2>1 DEF CountIn
<1> DEFINE B == {s \in Seconds : b[s][k] > 0}
           C == {s \in Seconds : c[s][k] > 0}
<1>2. IsFiniteSet(B)
  BY CountType
<1>3. /\ \A s \in Seconds : b[s][k] \in Nat
      /\ \A s \in Seconds : s # t => c[s][k] = b[s][k]
      /\ c[t][k] = b[t][k] + 1
  BY FlowAssumption DEF Counters
<1>4. C = B \union {t}
  BY <1>3
<1>5. t \in B <=> b[t][k] # 0
  BY <1>3
<1>6. CountIn(c, k) = IF t \in B THEN Cardinality(B) ELSE Cardinality(B) + 1
  BY <1>2, <1>4, FS_AddElement DEF CountIn
<1> QED BY <1>1, <1>5, <1>6 DEF CountIn

\* The two halves of KeyCountsExact, for any counts and any references.
Exact(b, r) ==
    /\ \A k \in Keys : r[k] = CountIn(b, k)
    /\ Cardinality({k \in Keys : r[k] > 0}) <= MaxTracked

\* KeyCountsExact says that the reference counts are exact for the buckets.
LEMMA ExactMeaning == KeyCountsExact <=> Exact(buckets, keys)
<1>1. \A k \in Keys : {s \in Seconds : k \in KeysOf(s)} = {s \in Seconds : buckets[s][k] > 0}
  BY DEF KeysOf
<1> QED BY <1>1 DEF KeyCountsExact, Exact, CountIn

\* Fewer referenced keys stay within the cap.
LEMMA Tracked ==
    ASSUME NEW r, NEW q, \A k \in Keys : r[k] > 0 => q[k] > 0
    PROVE  Cardinality({k \in Keys : q[k] > 0}) <= MaxTracked =>
             Cardinality({k \in Keys : r[k] > 0}) <= MaxTracked
<1> DEFINE R == {k \in Keys : r[k] > 0}
           Q == {k \in Keys : q[k] > 0}
<1>1. R \in SUBSET Q /\ IsFiniteSet(Q)
  BY FlowAssumption, FS_Subset
<1>2. Cardinality(R) <= Cardinality(Q) /\ Cardinality(R) \in Nat /\ Cardinality(Q) \in Nat
  BY <1>1, FS_Subset, FS_CardinalityType
<1> HIDE DEF R, Q
<1>3. Cardinality(Q) <= MaxTracked => Cardinality(R) <= MaxTracked
  BY <1>2, FlowAssumption
<1> QED BY <1>3 DEF R, Q

\* Pruning keeps the counts exact.
LEMMA PruneExact ==
    ASSUME TypeOK, KeyCountsExact
    PROVE  Exact(PrunedBuckets, PrunedKeys) /\ PrunedKeys \in [Keys -> Nat]
<1>1. \A k \in Keys : keys[k] = CountIn(buckets, k)
  BY ExactMeaning DEF Exact
<1>2. \A k \in Keys : /\ PrunedKeys[k] = CountIn(PrunedBuckets, k)
                      /\ PrunedKeys[k] \in Nat /\ PrunedKeys[k] <= keys[k]
  BY <1>1, PrunedCounts
<1>3. \A k \in Keys : PrunedKeys[k] > 0 => keys[k] > 0
  BY <1>2 DEF TypeOK
<1>4. Cardinality({k \in Keys : PrunedKeys[k] > 0}) <= MaxTracked
  BY <1>3, Tracked, ExactMeaning DEF Exact
<1>5. PrunedKeys \in [Keys -> Nat]
  BY <1>2 DEF PrunedKeys
<1> QED BY <1>2, <1>4, <1>5 DEF Exact

\* ObservePacket keeps the counts exact.
LEMMA ObserveExact ==
    ASSUME TypeOK, KeyCountsExact, NEW k \in Keys, Observe(k)
    PROVE  Exact(buckets', keys') /\ buckets' \in Counters /\ keys' \in [Keys -> Nat]
<1> DEFINE fresh == PrunedBuckets[now][k] = 0
           full  == /\ fresh /\ PrunedKeys[k] = 0
                    /\ Cardinality({j \in Keys : PrunedKeys[j] > 0}) >= MaxTracked
<1>1. /\ Exact(PrunedBuckets, PrunedKeys) /\ PrunedKeys \in [Keys -> Nat]
      /\ PrunedBuckets \in Counters
  BY PruneExact, Pruned
<1>2. CASE full
  BY <1>1, <1>2 DEF Observe
<1>3. CASE ~full
  <2>1. /\ PrunedBuckets[now][k] < MaxPackets
        /\ buckets' = [PrunedBuckets EXCEPT ![now][k] = @ + 1]
        /\ keys' = IF fresh THEN [PrunedKeys EXCEPT ![k] = @ + 1] ELSE PrunedKeys
    BY <1>3 DEF Observe
  <2>2. now \in Seconds
    BY DEF TypeOK
  <2>3. /\ buckets' \in Counters
        /\ \A s \in Seconds, j \in Keys :
              buckets'[s][j] = IF s = now /\ j = k THEN PrunedBuckets[s][j] + 1
                               ELSE PrunedBuckets[s][j]
    BY <1>1, <2>1, <2>2, FlowAssumption DEF Counters
  <2>4. /\ \A j \in Keys : j # k => CountIn(buckets', j) = CountIn(PrunedBuckets, j)
        /\ CountIn(buckets', k) = IF fresh THEN CountIn(PrunedBuckets, k) + 1
                                  ELSE CountIn(PrunedBuckets, k)
    BY <1>1, <2>2, <2>3, AddedCount
  <2>5. /\ keys' \in [Keys -> Nat]
        /\ \A j \in Keys : keys'[j] = CountIn(buckets', j)
    <3> USE DEF Exact
    <3> HIDE DEF fresh
    <3>1. CASE fresh
      <4>1. keys' = [PrunedKeys EXCEPT ![k] = @ + 1]
        BY <2>1, <3>1
      <4>2. \A j \in Keys : keys'[j] = IF j = k THEN PrunedKeys[j] + 1 ELSE PrunedKeys[j]
        BY <1>1, <4>1
      <4> QED BY <1>1, <2>4, <3>1, <4>1, <4>2
    <3>2. CASE ~fresh
      BY <1>1, <2>1, <2>4, <3>2
    <3> QED BY <3>1, <3>2
  <2>6. Cardinality({j \in Keys : keys'[j] > 0}) <= MaxTracked
    <3>1. CASE ~fresh \/ PrunedKeys[k] # 0
      <4>1. \A j \in Keys : keys'[j] > 0 => PrunedKeys[j] > 0
        BY <1>1, <2>1, <3>1
      <4> QED BY <1>1, <4>1, Tracked DEF Exact
    <3>2. CASE fresh /\ PrunedKeys[k] = 0
      <4> DEFINE Q == {j \in Keys : PrunedKeys[j] > 0}
                 R == {j \in Keys : keys'[j] > 0}
      <4>1. R = Q \union {k} /\ k \notin Q
        BY <1>1, <2>1, <3>2
      <4>2. IsFiniteSet(Q) /\ Cardinality(Q) \in Nat
        BY FlowAssumption, FS_Subset, FS_CardinalityType
      <4>3. ~(Cardinality(Q) >= MaxTracked)
        BY <1>3, <3>2
      <4> HIDE DEF Q, R
      <4>4. Cardinality(R) = Cardinality(Q) + 1
        BY <4>1, <4>2, FS_AddElement
      <4>5. Cardinality(R) <= MaxTracked
        BY <4>2, <4>3, <4>4, FlowAssumption
      <4> QED BY <4>5 DEF R
    <3> QED BY <3>1, <3>2
  <2> QED BY <2>3, <2>5, <2>6 DEF Exact
<1> QED BY <1>2, <1>3

\* The moves of a flush keep its local variables typed.
LEMMA FlushUpdates ==
    /\ NoFlush \in Flushes
    /\ \A f \in Flushes : /\ [f EXCEPT !.at = "budget"] \in Flushes
                          /\ [f EXCEPT !.at = "mark"] \in Flushes
    /\ \A f \in Flushes, l \in Limits : [f EXCEPT !.at = "insert", !.limit = l] \in Flushes
    /\ \A f \in Flushers, r \in Counters :
          [by |-> f, at |-> "sink", limit |-> None, records |-> r] \in Flushes
<1>1. Empty \in Counters
  BY FlowAssumption DEF Empty, Counters
<1> QED BY <1>1 DEF Flushes, NoFlush

\* The moves of a PATCH keep its local variables typed.
LEMMA PatchUpdates ==
    /\ NoPatch \in PatchRuns
    /\ \A x \in PatchRuns, pc \in {"flushing", "memory", "store", "apply", "budget", "trim"} :
          [x EXCEPT !.at = pc] \in PatchRuns
    /\ \A x \in PatchRuns, b \in BOOLEAN : [x EXCEPT !.at = "store", !.was = b] \in PatchRuns
    /\ \A e \in BOOLEAN \union {None}, l \in Limits \union {None}, pc \in {"flush", "memory"} :
          [at |-> pc, enabled |-> e, limit |-> l, was |-> None] \in PatchRuns
BY DEF PatchRuns, NoPatch

\* The values of a PATCH are of the request or None.
LEMMA PatchFields ==
    ASSUME NEW x \in PatchRuns
    PROVE  /\ x.enabled \in BOOLEAN \union {None} /\ x.was \in BOOLEAN \union {None}
           /\ x.limit \in Limits \union {None}
BY DEF PatchRuns

\* One PATCH moves.
LEMMA PatchMoves ==
    ASSUME TypeOK, NEW p \in Patches, NEW x \in PatchRuns, patch' = [patch EXCEPT ![p] = x]
    PROVE  patch' \in [Patches -> PatchRuns]
BY DEF TypeOK

\* The records that a flush takes are counters.
LEMMA FlushBeginType ==
    ASSUME TypeOK, KeyCountsExact, NEW f \in Flushers, NEW all \in BOOLEAN, FlushBegin(f, all)
    PROVE  /\ flush' \in Flushes /\ flushed' \subseteq Seconds
           /\ buckets' \in Counters /\ keys' \in [Keys -> Nat] /\ Exact(buckets', keys')
<1>1. buckets' \in Counters /\ keys' \in [Keys -> Nat] /\ Exact(buckets', keys')
  BY Pruned, PruneExact DEF FlushBegin
<1>2. [s \in Seconds |-> IF s \in Unflushed(all) THEN buckets[s] ELSE Empty[s]] \in Counters
  BY FlowAssumption DEF TypeOK, Counters, Empty
<1>3. flush' \in Flushes
  BY <1>2, FlushUpdates DEF FlushBegin
<1> QED BY <1>1, <1>3 DEF FlushBegin, TypeOK

\* The end of a flush keeps the types.
LEMMA FlushReturnsType ==
    ASSUME TypeOK, NEW ok \in BOOLEAN, FlushReturns(ok)
    PROVE  flush' \in Flushes /\ patch' \in [Patches -> PatchRuns]
<1>1. CASE flush.by \notin Patches
  BY <1>1, FlushUpdates DEF FlushReturns, TypeOK
<1>2. CASE flush.by \in Patches
  BY <1>2, FlushUpdates, PatchUpdates DEF FlushReturns, TypeOK
<1> QED BY <1>1, <1>2

\* Every step keeps the types of the two histories of overlapping requests.
LEMMA OverlapType ==
    ASSUME TypeOK, [Next]_vars
    PROVE  crossed' \subseteq Patches /\ clash' \subseteq Fields
<1> USE DEF overlap
<1>t. crossed \subseteq Patches /\ clash \subseteq Fields /\ Changing \subseteq Patches
  BY DEF TypeOK, Changing
<1>1. ASSUME UNCHANGED <<crossed, clash>>
      PROVE  crossed' \subseteq Patches /\ clash' \subseteq Fields
  BY <1>t, <1>1
<1>2. CASE \/ UNCHANGED vars \/ \E k \in Keys : Observe(k)
           \/ Snapshot \/ ClockTick \/ FlushTicker \/ Close \/ SinkSwitch \/ SinkBudget
           \/ Insert \/ InsertFails \/ Mark \/ DeleteFlowHistory
  BY <1>1, <1>2 DEF Observe, Snapshot, ClockTick, FlushTicker, Close, SinkSwitch, SinkBudget,
                    Insert, InsertFails, Mark, DeleteFlowHistory, vars
<1>3. ASSUME NEW p \in Patches, Patch(p)
      PROVE  crossed' \subseteq Patches /\ clash' \subseteq Fields
  BY <1>t, <1>3 DEF Patch, PatchBegin, PatchFlush, PatchMemory, PatchStore, PatchStoreFails,
                    PatchApply, PatchBudget, PatchTrim, Changed
<1>4. CASE Restart
  BY <1>4 DEF Restart
<1> QED BY <1>2, <1>3, <1>4 DEF Next

\* Every step keeps the types and the counts.
LEMMA BaseNext ==
    ASSUME TypeOK, KeyCountsExact, PatchWaits, [Next]_vars
    PROVE  TypeOK' /\ Exact(buckets, keys)'
<1> USE DEF monitor, settings, history
<1>0. Exact(buckets, keys)
  BY ExactMeaning
<1>o. crossed' \subseteq Patches /\ clash' \subseteq Fields
  BY OverlapType
<1> USE <1>o
<1>1. ASSUME NEW k \in Keys, Observe(k)
      PROVE  TypeOK' /\ Exact(buckets, keys)'
  <2>1. Exact(buckets', keys') /\ buckets' \in Counters /\ keys' \in [Keys -> Nat]
    BY <1>1, ObserveExact
  <2>2. seen' \in [Seconds -> [Keys -> Nat]]
    <3>1. seen' = seen \/ seen' = [seen EXCEPT ![now][k] = @ + 1]
      BY <1>1 DEF Observe
    <3>2. [seen[now] EXCEPT ![k] = @ + 1] \in [Keys -> Nat] /\ now \in Seconds
      BY DEF TypeOK
    <3> QED BY <3>1, <3>2 DEF TypeOK
  <2> QED BY <1>1, <2>1, <2>2 DEF Observe, TypeOK
<1>2. CASE Snapshot
  BY <1>2, Pruned, PruneExact DEF Snapshot, TypeOK
<1>3. CASE ClockTick
  <2>1. now' \in Seconds /\ unwanted' \subseteq Seconds
    BY <1>3, FlowAssumption DEF ClockTick, TypeOK, Seconds
  <2>2. UNCHANGED <<buckets, keys, flushed, flush, closing, on, limit, dbOn, dbLimit, patch,
                    rows, seen, saved>>
    BY <1>3 DEF ClockTick
  <2> QED BY <1>0, <2>1, <2>2 DEF TypeOK
<1>4. CASE FlushTicker
  BY <1>4, FlushBeginType DEF FlushTicker, Flushers, TypeOK
<1>5. CASE Close
  BY <1>5, FlushBeginType DEF Close, Flushers, TypeOK
<1>6. CASE SinkSwitch
  BY <1>0, <1>6, FlushUpdates DEF SinkSwitch, TypeOK
<1>7. CASE SinkBudget
  BY <1>0, <1>7, FlushUpdates DEF SinkBudget, TypeOK
<1>8. CASE Insert
  <2>1. \A s \in Seconds : Rows(s) \in Nat
    BY FlowAssumption, FS_Subset, FS_CardinalityType DEF Rows
  <2>2. [s \in Seconds |-> rows[s] + Rows(s)] \in [Seconds -> Nat]
    BY <2>1 DEF TypeOK
  <2>3. rows' \in [Seconds -> Nat]
    BY <1>8, <2>2, TrimmedFacts, FlowAssumption DEF Insert, PatchWaits
  <2>4. saved' \in [Seconds -> [Keys -> Nat]]
    BY <1>8, FlowAssumption DEF Insert, TypeOK, Flushes, Counters
  <2> QED BY <1>0, <1>8, <2>3, <2>4, FlushUpdates DEF Insert, TypeOK
<1>9. CASE InsertFails
  BY <1>0, <1>9, FlushReturnsType DEF InsertFails, TypeOK
<1>10. CASE Mark
  BY <1>0, <1>10, FlushReturnsType DEF Mark, TypeOK
<1>11. ASSUME NEW p \in Patches, NEW e \in BOOLEAN \union {None}, NEW l \in Limits \union {None},
              PatchBegin(p, e, l)
       PROVE  TypeOK' /\ Exact(buckets, keys)'
  <2>1. patch' \in [Patches -> PatchRuns]
    BY <1>11, PatchMoves, PatchUpdates DEF PatchBegin
  <2> QED BY <1>0, <1>11, <2>1 DEF PatchBegin, TypeOK
<1>12. ASSUME NEW p \in Patches, PatchFlush(p)
       PROVE  TypeOK' /\ Exact(buckets, keys)'
  <2>1. patch' \in [Patches -> PatchRuns]
    BY <1>12, PatchUpdates DEF PatchFlush, TypeOK
  <2> QED BY <1>12, <2>1, FlushBeginType DEF PatchFlush, Flushers, TypeOK
<1>13. ASSUME NEW p \in Patches, PatchMemory(p)
       PROVE  TypeOK' /\ Exact(buckets, keys)'
  <2>1. patch' \in [Patches -> PatchRuns]
    BY <1>13, PatchUpdates DEF PatchMemory, TypeOK
  <2> QED BY <1>0, <1>13, <2>1 DEF PatchMemory, TypeOK
<1>14. ASSUME NEW p \in Patches, PatchStore(p)
       PROVE  TypeOK' /\ Exact(buckets, keys)'
  <2>1. patch' \in [Patches -> PatchRuns]
    BY <1>14, PatchUpdates DEF PatchStore, TypeOK
  <2>2. dbOn' \in BOOLEAN /\ dbLimit' \in Limits
    BY <1>14, PatchFields DEF PatchStore, TypeOK
  <2> QED BY <1>0, <1>14, <2>1, <2>2 DEF PatchStore, TypeOK
<1>15. ASSUME NEW p \in Patches, PatchStoreFails(p)
       PROVE  TypeOK' /\ Exact(buckets, keys)'
  <2>1. patch' \in [Patches -> PatchRuns]
    BY <1>15, PatchMoves, PatchUpdates DEF PatchStoreFails
  <2>2. on' \in BOOLEAN
    BY <1>15 DEF PatchStoreFails, PatchWaits
  <2> QED BY <1>0, <1>15, <2>1, <2>2 DEF PatchStoreFails, TypeOK
<1>16. ASSUME NEW p \in Patches, PatchApply(p)
       PROVE  TypeOK' /\ Exact(buckets, keys)'
  <2>1. patch' \in [Patches -> PatchRuns]
    <3>1. patch[p] \in PatchRuns /\ NoPatch \in PatchRuns
      BY PatchUpdates DEF TypeOK
    <3>2. [patch[p] EXCEPT !.at = "budget"] \in PatchRuns
      BY <3>1, PatchUpdates
    <3>3. \E x \in PatchRuns : patch' = [patch EXCEPT ![p] = x]
      BY <1>16, <3>1, <3>2 DEF PatchApply
    <3> QED BY <3>3, PatchMoves
  <2>2. on' \in BOOLEAN
    BY <1>16, PatchFields DEF PatchApply, TypeOK
  <2> QED BY <1>0, <1>16, <2>1, <2>2 DEF PatchApply, TypeOK
<1>17. ASSUME NEW p \in Patches, PatchBudget(p)
       PROVE  TypeOK' /\ Exact(buckets, keys)'
  <2>1. patch' \in [Patches -> PatchRuns]
    BY <1>17, PatchUpdates DEF PatchBudget, TypeOK
  <2> QED BY <1>0, <1>17, <2>1 DEF PatchBudget, TypeOK, PatchWaits
<1>18. ASSUME NEW p \in Patches, PatchTrim(p)
       PROVE  TypeOK' /\ Exact(buckets, keys)'
  <2>1. patch' \in [Patches -> PatchRuns]
    BY <1>18, PatchMoves, PatchUpdates DEF PatchTrim
  <2>2. rows' \in [Seconds -> Nat]
    <3>1. patch[p].limit \in Nat /\ rows \in [Seconds -> Nat]
      BY <1>18, FlowAssumption DEF PatchTrim, PatchWaits, TypeOK
    <3>2. rows' \in {Trimmed(rows, patch[p].limit), rows}
      BY <1>18 DEF PatchTrim
    <3> QED BY ONLY <3>1, <3>2, TrimmedFacts
  <2> QED BY <1>0, <1>18, <2>1, <2>2 DEF PatchTrim, TypeOK
<1>19. CASE DeleteFlowHistory
  BY <1>0, <1>19 DEF DeleteFlowHistory, TypeOK
<1>20. CASE Restart
  <2>1. Exact(buckets, keys)'
    <3>1. \A k \in Keys : {s \in Seconds : Empty[s][k] > 0} = {}
      BY DEF Empty
    <3>2. {k \in Keys : [j \in Keys |-> 0][k] > 0} = {}
      OBVIOUS
    <3> QED BY <1>20, <3>1, <3>2, FS_EmptySet, FlowAssumption DEF Restart, Exact, CountIn
  <2>2. Empty \in Counters /\ Empty \in [Seconds -> [Keys -> Nat]]
    BY FlowAssumption DEF Empty, Counters
  <2> QED BY <1>20, <2>1, <2>2, FlushUpdates, PatchUpdates DEF Restart, TypeOK
<1>21. CASE UNCHANGED vars
  BY <1>0, <1>21 DEF vars, TypeOK
<1> QED
  BY <1>1, <1>2, <1>3, <1>4, <1>5, <1>6, <1>7, <1>8, <1>9, <1>10, <1>11, <1>12, <1>13,
     <1>14, <1>15, <1>16, <1>17, <1>18, <1>19, <1>20, <1>21
  DEF Next, Patch

\* Empty has the zero counters in every second.
LEMMA EmptyIsZero == \A s \in Seconds : Empty[s] = Zero
BY DEF Empty, Zero

\* A bucket without keys is empty.
LEMMA NoKeys ==
    ASSUME TypeOK, NEW s \in Seconds
    PROVE  KeysOf(s) = {} <=> buckets[s] = Zero
<1>1. \A k \in Keys : buckets[s][k] \in Nat
  BY FlowAssumption DEF TypeOK, Counters
<1>2. buckets[s] = [k \in Keys |-> buckets[s][k]]
  BY DEF TypeOK, Counters
<1> QED BY <1>1, <1>2 DEF KeysOf, Zero

\* A second has rows in a flush exactly if it has traffic there.
LEMMA RowsPositive ==
    ASSUME TypeOK, NEW s \in Seconds
    PROVE  Rows(s) > 0 <=> flush.records[s] # Zero
<1> DEFINE K == {k \in Keys : flush.records[s][k] > 0}
<1>1. flush.records[s] \in [Keys -> 0..MaxPackets]
  BY DEF TypeOK, Flushes, Counters
<1>2. flush.records[s] = Zero <=> K = {}
  <2>1. \A k \in Keys : flush.records[s][k] \in Nat
    BY <1>1, FlowAssumption
  <2>2. flush.records[s] = [k \in Keys |-> flush.records[s][k]]
    BY <1>1
  <2> QED BY <2>1, <2>2 DEF Zero
<1>3. IsFiniteSet(K) /\ Cardinality(K) \in Nat
  BY FlowAssumption, FS_Subset, FS_CardinalityType
<1>4. Cardinality(K) = 0 <=> K = {}
  BY <1>3, FS_EmptySet
<1>5. Rows(s) = Cardinality(K)
  BY DEF Rows
<1> HIDE DEF K
<1> QED BY <1>2, <1>3, <1>4, <1>5

\* The first critical section of a flush keeps the invariant.
LEMMA FlushBeginTraffic ==
    ASSUME TypeOK, TrafficInv, NEW f \in Flushers, NEW all \in BOOLEAN, FlushBegin(f, all),
           UNCHANGED <<now, seen, saved>>, closing => closing', all => closing'
    PROVE  TrafficInv'
<1> USE DEF TrafficInv
<1>0. /\ Stale' = Stale /\ flushed' = flushed \ Stale
      /\ \A s \in Seconds : buckets'[s] = IF s \in Stale THEN Zero ELSE buckets[s]
  BY Pruned DEF FlushBegin, Stale
<1>1. FutureEmpty'
  BY <1>0 DEF FutureEmpty
<1>2. BucketsWhole'
  BY <1>0 DEF BucketsWhole
<1>3. SavedWhole'
  BY DEF SavedWhole, Whole
<1>4. CASE Unflushed(all) = {}
  <2>1. flush.at = "free" /\ flush'.at = "free"
    BY <1>4 DEF FlushBegin, NoFlush
  <2>2. RecordsWhole'
    BY <2>1 DEF RecordsWhole
  <2>3. SavedOnce'
    BY <1>0, <2>1 DEF SavedOnce, InFlight
  <2> QED BY <1>1, <1>2, <1>3, <2>2, <2>3
<1>5. CASE Unflushed(all) # {}
  <2>1. /\ flush.at = "free" /\ flush'.at = "sink"
        /\ flush'.records = [s \in Seconds |-> IF s \in Unflushed(all) THEN buckets[s]
                                               ELSE Empty[s]]
    BY <1>5 DEF FlushBegin, NoFlush
  <2>2. \A s \in Seconds : flush'.records[s] # Zero =>
           /\ s \in Unflushed(all) /\ flush'.records[s] = buckets[s]
           /\ buckets[s] # Zero /\ s \notin Stale /\ s \notin flushed
           /\ all \/ s < now
    BY <2>1, NoKeys, EmptyIsZero DEF Unflushed
  <2>3. ASSUME NEW s \in Seconds, flush'.records[s] # Zero
        PROVE  flush'.records[s] = seen[s] /\ s <= now /\ saved[s] = Zero
    <3>1. flush'.records[s] = seen[s]
      BY <2>2, <2>3 DEF BucketsWhole
    <3>2. s <= now
      <4>1. s <= now \/ s > now
        BY FlowAssumption DEF TypeOK, Seconds
      <4> QED BY <2>2, <2>3, <4>1 DEF FutureEmpty
    <3>3. saved[s] = Zero
      BY <2>1, <2>2, <2>3 DEF SavedOnce
    <3> QED BY <3>1, <3>2, <3>3
  <2>4. \A s \in Seconds, k \in Keys : seen[s][k] <= seen[s][k]
    BY DEF TypeOK
  <2>5. RecordsWhole'
    BY <2>2, <2>3, <2>4 DEF RecordsWhole, Whole
  <2>6. SavedOnce'
    BY <1>0, <2>1, <2>2, <2>3 DEF SavedOnce, InFlight
  <2> QED BY <1>1, <1>2, <1>3, <2>5, <2>6
<1> QED BY <1>4, <1>5

\* Counting a packet keeps the invariant.
LEMMA ObserveTraffic ==
    ASSUME TypeOK, TypeOK', TrafficInv, NEW k \in Keys, Observe(k)
    PROVE  TrafficInv'
<1> USE DEF TrafficInv
<1>0. /\ now' = now /\ Stale' = Stale /\ flushed' = flushed \ Stale /\ flush' = flush
      /\ saved' = saved /\ closing' = closing
  BY DEF Observe, Stale, history
<1>1. now \in Seconds /\ now \notin Stale /\ buckets[now] = seen[now]
  BY NowIsFresh DEF TypeOK, BucketsWhole
<1>2. \A s \in Seconds : s # now =>
         seen'[s] = seen[s] /\ buckets'[s] = (IF s \in Stale THEN Zero ELSE buckets[s])
  BY Pruned DEF Observe, TypeOK, Counters
<1>3. buckets'[now] = seen'[now] /\ \A j \in Keys : seen[now][j] <= seen'[now][j]
  <2>1. /\ PrunedBuckets[now] = seen[now] /\ seen[now] \in [Keys -> Nat]
        /\ PrunedBuckets \in Counters
    BY <1>1, Pruned DEF TypeOK
  <2>2. CASE buckets' = PrunedBuckets /\ seen' = seen
    BY <2>1, <2>2
  <2>3. CASE /\ buckets' = [PrunedBuckets EXCEPT ![now][k] = @ + 1]
             /\ seen' = [seen EXCEPT ![now][k] = @ + 1]
    <3>1. buckets'[now] = [seen[now] EXCEPT ![k] = @ + 1]
      BY <1>1, <2>1, <2>3 DEF Counters
    <3>2. seen'[now] = [seen[now] EXCEPT ![k] = @ + 1]
      BY <1>1, <2>3 DEF TypeOK
    <3> QED BY <2>1, <3>1, <3>2
  <2> QED BY <2>2, <2>3 DEF Observe
<1>4. FutureEmpty'
  BY <1>0, <1>1, <1>2 DEF FutureEmpty, Seconds
<1>5. BucketsWhole'
  BY <1>0, <1>2, <1>3 DEF BucketsWhole
<1>6. ASSUME NEW c \in [Keys -> Nat], NEW s \in Seconds, Whole(c, s)
      PROVE  c # Zero => /\ s <= now' /\ \A j \in Keys : c[j] <= seen'[s][j]
                         /\ ~closing' => s < now' /\ c = seen'[s]
  <2>1. CASE s = now
    <3>1. \A j \in Keys : c[j] \in Nat /\ seen[now][j] \in Nat /\ seen'[now][j] \in Nat
      BY <1>1 DEF TypeOK
    <3> QED BY <1>0, <1>1, <1>3, <1>6, <2>1, <3>1 DEF Whole, Seconds
  <2>2. CASE s # now
    BY <1>0, <1>2, <1>6, <2>2 DEF Whole
  <2> QED BY <2>1, <2>2
<1>7. \A s \in Seconds : flush.records[s] \in [Keys -> Nat] /\ saved[s] \in [Keys -> Nat]
  BY FlowAssumption DEF TypeOK, Flushes, Counters
<1>8. RecordsWhole'
  BY <1>0, <1>6, <1>7 DEF RecordsWhole, Whole
<1>9. SavedWhole'
  BY <1>0, <1>6, <1>7 DEF SavedWhole, Whole
<1>10. SavedOnce'
  BY <1>0 DEF SavedOnce
<1> QED BY <1>4, <1>5, <1>8, <1>9, <1>10

\* Every step keeps the invariant of the traffic.
LEMMA TrafficNext ==
    ASSUME TypeOK, TypeOK', TrafficInv, [Next]_vars
    PROVE  TrafficInv'
<1> USE DEF monitor, settings, history
<1>0. ASSUME UNCHANGED <<now, buckets, flushed, flush, closing, seen, saved>>
      PROVE  TrafficInv'
  BY <1>0 DEF TrafficInv, FutureEmpty, BucketsWhole, RecordsWhole, SavedWhole, SavedOnce, Whole,
              Stale
<1>1. ASSUME NEW k \in Keys, Observe(k) PROVE TrafficInv'
  BY <1>1, ObserveTraffic
<1>2. CASE Snapshot
  <2>1. /\ Stale' = Stale /\ flushed' = flushed \ Stale
        /\ \A s \in Seconds : buckets'[s] = IF s \in Stale THEN Zero ELSE buckets[s]
    BY <1>2, Pruned DEF Snapshot, Stale
  <2> QED BY <1>2, <2>1
          DEF Snapshot, TrafficInv, FutureEmpty, BucketsWhole, RecordsWhole, SavedWhole,
              SavedOnce, Whole
<1>3. CASE ClockTick
  <2>1. now' = now + 1 /\ now \in Nat /\ \A s \in Seconds : s \in Nat
    BY <1>3, FlowAssumption DEF ClockTick, TypeOK, Seconds
  <2>2. \A s \in Seconds :
           /\ s > now' => s > now
           /\ s <= now => s <= now' /\ s < now'
           /\ s < now => s < now'
           /\ s \in Stale => s \in Stale'
    BY <2>1, FlowAssumption DEF Stale
  <2> QED BY <1>3, <2>2
          DEF ClockTick, TrafficInv, FutureEmpty, BucketsWhole, RecordsWhole, SavedWhole,
              SavedOnce, Whole
<1>4. CASE FlushTicker
  BY <1>4, FlushBeginTraffic DEF FlushTicker, Flushers
<1>5. CASE Close
  BY <1>5, FlushBeginTraffic DEF Close, Flushers
<1>6. CASE SinkSwitch
  <2>1. flush.at = "sink" /\ flush'.at \in {"budget", "mark"} /\ flush'.records = flush.records
    BY <1>6 DEF SinkSwitch, TypeOK, Flushes
  <2> QED BY <1>6, <2>1
          DEF SinkSwitch, TrafficInv, FutureEmpty, BucketsWhole, RecordsWhole, SavedWhole,
              SavedOnce, Whole, Stale, InFlight
<1>7. CASE SinkBudget
  <2>1. flush.at = "budget" /\ flush'.at = "insert" /\ flush'.records = flush.records
    BY <1>7 DEF SinkBudget, TypeOK, Flushes
  <2> QED BY <1>7, <2>1
          DEF SinkBudget, TrafficInv, FutureEmpty, BucketsWhole, RecordsWhole, SavedWhole,
              SavedOnce, Whole, Stale, InFlight
<1>8. CASE Insert
  <2>1. flush.at = "insert" /\ flush'.at = "mark" /\ flush'.records = flush.records
    BY <1>8 DEF Insert, TypeOK, Flushes
  <2>2. \A s \in Seconds : flush.records[s] \in [Keys -> Nat] /\ saved[s] \in [Keys -> Nat]
    BY FlowAssumption DEF TypeOK, Flushes, Counters
  <2>3. ASSUME NEW s \in Seconds
        PROVE  saved'[s] = IF flush.records[s] = Zero THEN saved[s] ELSE flush.records[s]
    <3>1. saved'[s] = [k \in Keys |-> saved[s][k] + flush.records[s][k]]
      BY <1>8 DEF Insert
    <3>2. CASE flush.records[s] = Zero
      <4>1. \A k \in Keys : saved[s][k] + flush.records[s][k] = saved[s][k]
        BY <2>2, <3>2 DEF Zero
      <4> QED BY <2>2, <3>1, <3>2, <4>1
    <3>3. CASE flush.records[s] # Zero
      <4>1. saved[s] = Zero
        BY <2>1, <3>3 DEF TrafficInv, SavedOnce, InFlight
      <4>2. \A k \in Keys : saved[s][k] + flush.records[s][k] = flush.records[s][k]
        BY <2>2, <4>1 DEF Zero
      <4> QED BY <2>2, <3>1, <3>3, <4>2
    <3> QED BY <3>2, <3>3
  <2>4. UNCHANGED <<now, buckets, flushed, closing, seen>> /\ Stale' = Stale
    BY <1>8 DEF Insert, Stale
  <2>5. FutureEmpty'
    <3>1. \A s \in Seconds : ~(s > now /\ s <= now)
      BY FlowAssumption DEF TypeOK, Seconds
    <3> QED BY <2>1, <2>3, <2>4, <3>1 DEF TrafficInv, FutureEmpty, RecordsWhole, Whole
  <2>6. RecordsWhole' /\ SavedWhole'
    BY <2>1, <2>3, <2>4 DEF TrafficInv, RecordsWhole, SavedWhole, Whole
  <2>7. SavedOnce'
    BY <2>1, <2>3, <2>4 DEF TrafficInv, SavedOnce, InFlight
  <2> QED BY <2>4, <2>5, <2>6, <2>7 DEF TrafficInv, BucketsWhole
<1>9. CASE InsertFails
  <2>1. flush.at = "insert" /\ flush'.at = "free"
    BY <1>9 DEF InsertFails, FlushReturns, NoFlush
  <2> QED BY <1>9, <2>1
          DEF InsertFails, TrafficInv, FutureEmpty, BucketsWhole, RecordsWhole, SavedWhole,
              SavedOnce, Whole, Stale, InFlight
<1>10. CASE Mark
  <2>1. flush.at = "mark" /\ flush'.at = "free"
    BY <1>10 DEF Mark, FlushReturns, NoFlush
  <2>2. \A s \in Seconds : s \in flushed' <=> s \in flushed \/ flush.records[s] # Zero
    BY <1>10, RowsPositive DEF Mark
  <2> QED BY <1>10, <2>1, <2>2
          DEF Mark, TrafficInv, FutureEmpty, BucketsWhole, RecordsWhole, SavedWhole, SavedOnce,
              Whole, Stale, InFlight
<1>11. ASSUME NEW p \in Patches, PatchFlush(p) PROVE TrafficInv'
  BY <1>11, FlushBeginTraffic DEF PatchFlush, Flushers
<1>12. ASSUME NEW p \in Patches, Patch(p), ~PatchFlush(p) PROVE TrafficInv'
  BY <1>0, <1>12 DEF Patch, PatchBegin, PatchMemory, PatchStore, PatchStoreFails, PatchApply,
                     PatchBudget, PatchTrim
<1>13. CASE DeleteFlowHistory
  BY <1>0, <1>13 DEF DeleteFlowHistory
<1>14. CASE Restart
  BY <1>14, EmptyIsZero
  DEF Restart, NoFlush, TrafficInv, FutureEmpty, BucketsWhole, RecordsWhole, SavedWhole,
      SavedOnce, Whole, InFlight
<1>15. CASE UNCHANGED vars
  BY <1>0, <1>15 DEF vars
<1> QED
  BY <1>1, <1>2, <1>3, <1>4, <1>5, <1>6, <1>7, <1>8, <1>9, <1>10, <1>11, <1>12, <1>13,
     <1>14, <1>15
  DEF Next

\* PATCH p moves to phase pc with the values of its request.
Moved(p, pc) ==
    /\ patch'[p].at = pc /\ patch'[p].enabled = patch[p].enabled
    /\ patch'[p].limit = patch[p].limit

\* PATCH p is over.
Ended(p) == patch'[p].at = "idle"

\* What each step of a PATCH does to the requests.
LEMMA PatchSteps ==
    ASSUME TypeOK, NEW p \in Patches
    PROVE  /\ Patch(p) => \A q \in Patches : q # p => patch'[q] = patch[q]
           /\ \A e \in BOOLEAN \union {None}, l \in Limits \union {None} :
                PatchBegin(p, e, l) =>
                  /\ patch[p].at = "idle"
                  /\ patch'[p].at = IF e = TRUE /\ ~on THEN "flush" ELSE "memory"
                  /\ patch'[p].enabled = e
           /\ PatchFlush(p) => Moved(p, IF Unflushed(FALSE) = {} THEN "memory" ELSE "flushing")
           /\ PatchMemory(p) => Moved(p, "store") /\ patch'[p].was = on
           /\ PatchStore(p) => Moved(p, "apply")
           /\ PatchStoreFails(p) => Ended(p)
           /\ PatchApply(p) => IF patch[p].limit = None THEN Ended(p) ELSE Moved(p, "budget")
           /\ PatchBudget(p) => Moved(p, "trim")
           /\ PatchTrim(p) => Ended(p)
<1> USE DEF Moved, Ended
<1>0. patch \in [Patches -> PatchRuns] /\ patch[p] \in PatchRuns /\ NoPatch.at = "idle"
  BY DEF TypeOK, NoPatch
<1>1. Patch(p) => \A q \in Patches : q # p => patch'[q] = patch[q]
  BY <1>0 DEF Patch, PatchBegin, PatchFlush, PatchMemory, PatchStore, PatchStoreFails,
              PatchApply,
              PatchBudget, PatchTrim
<1>2. ASSUME NEW e \in BOOLEAN \union {None}, NEW l \in Limits \union {None}, PatchBegin(p, e, l)
      PROVE  /\ patch[p].at = "idle"
             /\ patch'[p].at = IF e = TRUE /\ ~on THEN "flush" ELSE "memory"
             /\ patch'[p].enabled = e
  <2>1. patch'[p] = [at |-> IF e = TRUE /\ ~on THEN "flush" ELSE "memory",
                     enabled |-> e, limit |-> l, was |-> None]
    BY <1>0, <1>2 DEF PatchBegin
  <2> QED BY <1>0, <1>2, <2>1 DEF PatchBegin
<1>e. ASSUME NEW pc, patch' = [patch EXCEPT ![p].at = pc]
      PROVE  Moved(p, pc)
  BY <1>0, <1>e DEF PatchRuns
<1>3. PatchFlush(p) => Moved(p, IF Unflushed(FALSE) = {} THEN "memory" ELSE "flushing")
  <2> DEFINE pc == IF Unflushed(FALSE) = {} THEN "memory" ELSE "flushing"
  <2>1. PatchFlush(p) => patch' = [patch EXCEPT ![p].at = pc]
    BY DEF PatchFlush
  <2> HIDE DEF pc
  <2>2. PatchFlush(p) => Moved(p, pc)
    BY <1>0, <1>e, <2>1
  <2> QED BY <2>2 DEF pc
<1>4. PatchMemory(p) => Moved(p, "store") /\ patch'[p].was = on
  BY <1>0 DEF PatchMemory, PatchRuns
<1>5. PatchStore(p) => Moved(p, "apply")
  BY <1>0, <1>e DEF PatchStore
<1>6. PatchStoreFails(p) => Ended(p)
  BY <1>0 DEF PatchStoreFails
<1>7. PatchApply(p) => IF patch[p].limit = None THEN Ended(p) ELSE Moved(p, "budget")
  BY <1>0 DEF PatchApply, PatchRuns
<1>8. PatchBudget(p) => Moved(p, "trim")
  BY <1>0, <1>e DEF PatchBudget
<1>9. PatchTrim(p) => Ended(p)
  BY <1>0 DEF PatchTrim
<1> QED BY <1>1, <1>2, <1>3, <1>4, <1>5, <1>6, <1>7, <1>8, <1>9

\* What the end of a flush does to the requests.
LEMMA FlushReturnsSteps ==
    ASSUME TypeOK, NEW ok \in BOOLEAN, FlushReturns(ok)
    PROVE  /\ flush'.at = "free"
           /\ \A q \in Patches :
                /\ q # flush.by => patch'[q] = patch[q]
                /\ q = flush.by => IF ok THEN Moved(q, "memory") ELSE Ended(q)
<1>1. CASE flush.by \notin Patches
  BY <1>1 DEF FlushReturns, NoFlush, TypeOK
<1>2. CASE flush.by \in Patches
  <2>1. patch \in [Patches -> PatchRuns] /\ patch[flush.by] \in PatchRuns
    BY <1>2 DEF TypeOK
  <2>2. patch'[flush.by] = IF ok THEN [patch[flush.by] EXCEPT !.at = "memory"] ELSE NoPatch
    BY <1>2, <2>1 DEF FlushReturns
  <2>3. IF ok THEN Moved(flush.by, "memory") ELSE Ended(flush.by)
    BY <2>1, <2>2 DEF Moved, Ended, PatchRuns, NoPatch
  <2> QED BY <1>2, <2>1, <2>3 DEF FlushReturns, NoFlush
<1> QED BY <1>1, <1>2

\* What the beginning of a flush does to the flush.
LEMMA FlushBeginSteps ==
    ASSUME NEW f, NEW all \in BOOLEAN, FlushBegin(f, all)
    PROVE  /\ flush.at = "free"
           /\ Unflushed(all) = {} => flush'.at = "free"
           /\ Unflushed(all) # {} => flush'.at = "sink" /\ flush'.by = f
BY DEF FlushBegin, NoFlush

\* Every step keeps the flushes and the PATCH requests in step.
LEMMA PatchWaitsNext ==
    ASSUME TypeOK, PatchWaits, [Next]_vars
    PROVE  PatchWaits'
<1> USE DEF monitor, settings, history, Moved, Ended
<1>0. ASSUME UNCHANGED <<flush, patch>> PROVE PatchWaits'
  BY <1>0 DEF PatchWaits
<1>p. patch \in [Patches -> PatchRuns] /\ limit \in Limits /\ on \in BOOLEAN
  BY DEF TypeOK
<1>1. CASE FlushTicker \/ Close
  <2>1. UNCHANGED patch /\ flush.at = "free"
        /\ flush'.at \in {"free", "sink"} /\ (flush'.at = "sink" => flush'.by \notin Patches)
    BY <1>1, FlushBeginSteps, FlowAssumption DEF FlushTicker, Close
  <2> QED BY <2>1 DEF PatchWaits
<1>2. CASE SinkSwitch
  <2>1. /\ flush.at = "sink" /\ flush'.at \in {"budget", "mark"} /\ flush'.by = flush.by
        /\ patch' = patch
    BY <1>2 DEF SinkSwitch, TypeOK, Flushes
  <2> QED BY <2>1 DEF PatchWaits
<1>3. CASE SinkBudget
  <2>1. /\ flush.at = "budget" /\ flush'.at = "insert" /\ flush'.by = flush.by
        /\ flush'.limit = limit /\ patch' = patch
    BY <1>3 DEF SinkBudget, TypeOK, Flushes
  <2> QED BY <1>p, <2>1 DEF PatchWaits
<1>4. CASE Insert
  <2>1. flush.at = "insert" /\ flush'.at = "mark" /\ flush'.by = flush.by /\ patch' = patch
    BY <1>4 DEF Insert, TypeOK, Flushes
  <2> QED BY <2>1 DEF PatchWaits
<1>5. CASE InsertFails \/ Mark
  <2>1. flush'.at = "free" /\ \A q \in Patches :
           /\ q # flush.by => patch'[q] = patch[q]
           /\ q = flush.by => patch'[q].at \in {"idle", "memory"}
    BY <1>p, <1>5, FlushReturnsSteps DEF InsertFails, Mark
  <2> QED BY <2>1 DEF PatchWaits
<1>6. ASSUME NEW p \in Patches, Patch(p) PROVE PatchWaits'
  <2>0. \A q \in Patches : q # p => patch'[q] = patch[q]
    BY <1>6, PatchSteps
  <2>1. CASE PatchFlush(p)
    <3>1. /\ patch[p].at = "flush" /\ flush.at = "free"
          /\ \/ flush'.at = "free" /\ patch'[p].at = "memory"
             \/ flush'.at = "sink" /\ flush'.by = p /\ patch'[p].at = "flushing"
      <4>1. FlushBegin(p, FALSE) /\ patch[p].at = "flush"
        BY <2>1 DEF PatchFlush
      <4>2. /\ flush.at = "free"
            /\ Unflushed(FALSE) = {} => flush'.at = "free"
            /\ Unflushed(FALSE) # {} => flush'.at = "sink" /\ flush'.by = p
        BY <4>1, FlushBeginSteps
      <4>3. patch'[p].at = IF Unflushed(FALSE) = {} THEN "memory" ELSE "flushing"
        BY <2>1, PatchSteps
      <4> QED BY <4>1, <4>2, <4>3
    <3> QED BY <2>0, <3>1 DEF PatchWaits
  <2>2. ASSUME UNCHANGED flush, patch[p].at # "flushing", patch'[p].at # "flushing",
               patch'[p].at \in {"budget", "trim"} => patch'[p].limit \in Limits,
               patch'[p].at = "store" => patch'[p].was \in BOOLEAN
        PROVE  PatchWaits'
    BY <2>0, <2>2 DEF PatchWaits
  <2>3. CASE \E e \in BOOLEAN \union {None}, l \in Limits \union {None} : PatchBegin(p, e, l)
    <3>1. UNCHANGED flush
      BY <2>3 DEF PatchBegin
    <3>2. patch[p].at = "idle" /\ patch'[p].at \in {"flush", "memory"}
      BY <2>3, PatchSteps
    <3> QED BY <2>2, <3>1, <3>2
  <2>4. CASE PatchMemory(p)
    <3>1. /\ UNCHANGED flush /\ patch[p].at = "memory" /\ patch'[p].at = "store"
          /\ patch'[p].was \in BOOLEAN
      BY <1>p, <2>4, PatchSteps DEF PatchMemory
    <3> QED BY <2>2, <3>1
  <2>5. CASE PatchStore(p)
    <3>1. UNCHANGED flush /\ patch[p].at = "store" /\ patch'[p].at = "apply"
      BY <1>p, <2>5, PatchSteps DEF PatchStore
    <3> QED BY <2>2, <3>1
  <2>6. CASE PatchStoreFails(p) \/ PatchTrim(p)
    <3>1. UNCHANGED flush /\ patch[p].at \in {"store", "trim"} /\ patch'[p].at = "idle"
      BY <2>6, PatchSteps DEF PatchStoreFails, PatchTrim
    <3> QED BY <2>2, <3>1
  <2>7. CASE PatchApply(p)
    <3>1. UNCHANGED flush /\ patch[p].at = "apply"
      BY <2>7 DEF PatchApply
    <3>2. patch'[p].at = "idle" \/ (patch'[p].at = "budget" /\ patch'[p].limit \in Limits)
      BY <1>p, <2>7, PatchSteps, PatchFields
    <3> QED BY <2>2, <3>1, <3>2
  <2>8. CASE PatchBudget(p)
    <3>1. /\ UNCHANGED flush /\ patch[p].at = "budget" /\ patch'[p].at = "trim"
          /\ patch'[p].limit = patch[p].limit
      BY <1>p, <2>8, PatchSteps DEF PatchBudget
    <3>2. patch[p].limit \in Limits
      BY <3>1 DEF PatchWaits
    <3> QED BY <2>2, <3>1, <3>2
  <2> QED BY <1>6, <2>1, <2>3, <2>4, <2>5, <2>6, <2>7, <2>8 DEF Patch
<1>7. CASE Restart
  BY <1>7 DEF Restart, NoFlush, NoPatch, PatchWaits
<1>8. CASE \/ \E k \in Keys : Observe(k)
           \/ Snapshot \/ ClockTick \/ DeleteFlowHistory \/ UNCHANGED vars
  BY <1>0, <1>8 DEF Observe, Snapshot, ClockTick, DeleteFlowHistory, vars
<1> QED
  BY <1>1, <1>2, <1>3, <1>4, <1>5, <1>6, <1>7, <1>8 DEF Next

\* A step that leaves the flush and the switch alone, lets no request switch
\* recording on that could not before and unsettles nothing keeps the
\* invariant.
LEMMA StaysSettled ==
    ASSUME TypeOK, UnwantedSettled, UNCHANGED <<now, unwanted, flush>>,
           \A s \in unwanted : Settled(s) => Settled(s)',
           on' \/ (\E p \in Patches : MaySwitchOn(p)') => on \/ \E p \in Patches : MaySwitchOn(p),
           \A p \in Patches : patch'[p].at = "flushing" => patch[p].at = "flushing"
    PROVE  UnwantedSettled'
<1>1. \A s \in unwanted' : s < now'
  BY DEF UnwantedSettled
<1>2. (on \/ (\E p \in Patches : MaySwitchOn(p)))' => \A s \in unwanted' : Settled(s)'
  BY DEF UnwantedSettled
<1>3. \A p \in Patches : patch'[p].at = "flushing" =>
         \A s \in unwanted' : Settled(s)' \/ flush'.records[s] # Zero
  BY DEF UnwantedSettled
<1>4. flush'.at \in {"budget", "insert"} => \A s \in unwanted' : flush'.records[s] = Zero
  BY DEF UnwantedSettled
<1> QED BY <1>1, <1>2, <1>3, <1>4 DEF UnwantedSettled

\* The first critical section of a flush takes nothing that is settled.
LEMMA FlushBeginSettled ==
    ASSUME TypeOK, NEW f, NEW all \in BOOLEAN, FlushBegin(f, all), now' = now,
           NEW s \in Seconds
    PROVE  /\ Settled(s) => Settled(s)'
           /\ Unflushed(all) # {} /\ s < now => Settled(s)' \/ flush'.records[s] # Zero
           /\ Unflushed(all) = {} /\ s < now => Settled(s)'
<1>0. /\ Stale' = Stale /\ flushed' = flushed \ Stale
      /\ buckets'[s] = IF s \in Stale THEN Zero ELSE buckets[s]
  BY Pruned DEF FlushBegin, Stale
<1>1. flush.at = "free"
  BY FlushBeginSteps
<1>2. s \in Unflushed(all) <=>
        s \notin Stale /\ buckets[s] # Zero /\ s \notin flushed /\ (all \/ s < now)
  BY NoKeys DEF Unflushed
<1>3. CASE Unflushed(all) = {}
  <2>1. flush'.at = "free"
    BY <1>3, FlushBeginSteps
  <2> QED BY <1>0, <1>2, <1>3, <2>1 DEF Settled, InFlight
<1>4. CASE Unflushed(all) # {}
  <2>1. flush'.records[s] = IF s \in Unflushed(all) THEN buckets[s] ELSE Zero
    BY <1>4, EmptyIsZero DEF FlushBegin
  <2> QED BY <1>0, <1>2, <1>4, <2>1 DEF Settled
<1> QED BY <1>3, <1>4

\* Every step keeps the seconds without recording settled where recording is
\* or may be switched on.
LEMMA UnwantedNext ==
    ASSUME TypeOK, TypeOK', TrafficInv, PatchWaits, PatchWaits', UnwantedSettled, [Next]_vars
    PROVE  UnwantedSettled'
<1> USE DEF monitor, settings, history
<1>t. /\ unwanted \subseteq Seconds /\ now \in Seconds /\ patch \in [Patches -> PatchRuns]
      /\ on \in BOOLEAN
  BY DEF TypeOK
<1>0. ASSUME UNCHANGED <<now, buckets, flushed, flush, on, patch, unwanted>>
      PROVE  UnwantedSettled'
  BY <1>0 DEF UnwantedSettled, Settled, MaySwitchOn, Stale
<1>1. CASE (\E k \in Keys : Observe(k)) \/ Snapshot
  <2>1. /\ UNCHANGED <<now, unwanted, flush, patch, on>> /\ Stale' = Stale
        /\ flushed' = flushed \ Stale
    BY <1>1 DEF Observe, Snapshot, Stale
  <2>2. \A s \in unwanted : buckets'[s] = IF s \in Stale THEN Zero ELSE buckets[s]
    <3>1. \A s \in unwanted : s \in Seconds /\ s # now
      BY <1>t DEF UnwantedSettled, Seconds
    <3>2. PrunedBuckets \in Counters
          /\ \A s \in Seconds : PrunedBuckets[s] = IF s \in Stale THEN Zero ELSE buckets[s]
      BY Pruned
    <3>3. \A s \in Seconds : s # now => buckets'[s] = PrunedBuckets[s]
      BY <1>1, <3>2 DEF Observe, Snapshot, Counters
    <3> QED BY <3>1, <3>2, <3>3
  <2>3. \A s \in unwanted : Settled(s) => Settled(s)'
    BY <2>1, <2>2 DEF Settled
  <2>4. \A p \in Patches : MaySwitchOn(p)' <=> MaySwitchOn(p)
    BY <2>1 DEF MaySwitchOn
  <2> QED BY <2>1, <2>3, <2>4, StaysSettled
<1>2. CASE ClockTick
  <2>1. now' = now + 1 /\ now \in Nat /\ \A s \in Seconds : s \in Nat
    BY <1>2, FlowAssumption DEF ClockTick, TypeOK, Seconds
  <2>2. \A s \in Seconds : /\ s < now => s < now'
                           /\ s \in Stale => s \in Stale'
    BY <2>1, FlowAssumption DEF Stale
  <2>3. now < now'
    BY <2>1
  <2>4. UNCHANGED <<buckets, flushed, flush, on, patch>>
    BY <1>2 DEF ClockTick
  <2>5. \A s \in Seconds : Settled(s) => Settled(s)'
    BY <2>2, <2>4 DEF Settled
  <2>6. CASE unwanted' = unwanted
    BY <1>t, <2>2, <2>4, <2>5, <2>6 DEF UnwantedSettled, MaySwitchOn
  <2>7. CASE /\ ~on /\ ~closing /\ \A p \in Patches : patch[p] = NoPatch
             /\ unwanted' = unwanted \union {now}
    <3>1. \A s \in unwanted' : s < now'
      BY <1>t, <2>2, <2>3, <2>7 DEF UnwantedSettled
    <3>2. \A p \in Patches : ~MaySwitchOn(p)' /\ patch'[p].at # "flushing"
      BY <2>4, <2>7 DEF MaySwitchOn, NoPatch
    <3>3. flush.at # "free" => flush.records[now] = Zero
      <4>1. ~(now < now)
        BY <2>1
      <4> QED BY <1>t, <2>7, <4>1 DEF TrafficInv, RecordsWhole, Whole
    <3>4. flush'.at \in {"budget", "insert"} => \A s \in unwanted' : flush'.records[s] = Zero
      BY <2>4, <2>7, <3>3 DEF UnwantedSettled
    <3> QED BY <2>4, <2>7, <3>1, <3>2, <3>4 DEF UnwantedSettled
  <2> QED BY <1>2, <2>6, <2>7 DEF ClockTick
<1>3. CASE FlushTicker \/ Close
  <2>1. /\ UNCHANGED <<now, on, patch, unwanted>> /\ flush.at = "free"
        /\ flush'.at \in {"free", "sink"}
    BY <1>3, FlushBeginSteps DEF FlushTicker, Close
  <2>2. \A s \in Seconds : Settled(s) => Settled(s)'
    BY <1>3, <2>1, FlushBeginSettled DEF FlushTicker, Close
  <2>3. \A p \in Patches : patch'[p].at # "flushing"
    BY <2>1 DEF PatchWaits
  <2> QED BY <1>t, <2>1, <2>2, <2>3 DEF UnwantedSettled, MaySwitchOn
<1>4. CASE SinkSwitch
  <2>1. /\ flush.at = "sink" /\ flush'.at = (IF on THEN "budget" ELSE "mark")
        /\ flush'.records = flush.records
        /\ UNCHANGED <<now, buckets, flushed, on, patch, unwanted>>
    BY <1>4 DEF SinkSwitch, TypeOK, Flushes
  <2>2. \A s \in Seconds : Settled(s) => Settled(s)'
    BY <2>1 DEF Settled, InFlight, Stale
  <2>3. on => \A s \in unwanted : flush.records[s] = Zero
    BY <2>1 DEF UnwantedSettled, Settled, InFlight
  <2> QED BY <1>t, <2>1, <2>2, <2>3 DEF UnwantedSettled, MaySwitchOn
<1>5. CASE SinkBudget \/ Insert
  <2>1. /\ \/ flush.at = "budget" /\ flush'.at = "insert"
           \/ flush.at = "insert" /\ flush'.at = "mark"
        /\ flush'.records = flush.records
        /\ UNCHANGED <<now, buckets, flushed, on, patch, unwanted>>
    BY <1>5 DEF SinkBudget, Insert, TypeOK, Flushes
  <2>2. \A s \in Seconds : Settled(s) => Settled(s)'
    BY <2>1 DEF Settled, InFlight, Stale
  <2> QED BY <1>t, <2>1, <2>2 DEF UnwantedSettled, MaySwitchOn
<1>6. CASE InsertFails \/ Mark
  <2>1. /\ flush.at # "free" /\ flush'.at = "free"
        /\ UNCHANGED <<now, buckets, on, unwanted>> /\ flushed \subseteq flushed'
        /\ \A q \in Patches : q # flush.by => patch'[q] = patch[q]
    BY <1>6, FlushReturnsSteps DEF InsertFails, Mark
  <2>2. \A s \in Seconds : Settled(s) => Settled(s)'
    BY <2>1 DEF Settled, InFlight, Stale
  <2>3. \A q \in Patches : patch'[q].at # "flushing"
    BY <2>1 DEF PatchWaits
  <2>4. ASSUME NEW q \in Patches, MaySwitchOn(q)', NEW s \in unwanted
        PROVE  Settled(s)'
    <3>1. CASE q # flush.by
      <4>1. MaySwitchOn(q)
        BY <2>1, <2>4, <3>1 DEF MaySwitchOn
      <4> QED BY <1>t, <2>2, <4>1 DEF UnwantedSettled
    <3>2. CASE q = flush.by
      <4>1. patch[q].at = "flushing"
        BY <2>1, <3>2 DEF PatchWaits
      <4>2. Settled(s) \/ flush.records[s] # Zero
        BY <4>1 DEF UnwantedSettled
      <4>3. CASE InsertFails
        BY <2>4, <3>2, <4>3, FlushReturnsSteps DEF InsertFails, Ended, MaySwitchOn
      <4>4. CASE Mark
        <5>1. flush.records[s] # Zero => s \in flushed'
          BY <1>t, <4>4, RowsPositive DEF Mark
        <5> QED BY <1>t, <2>1, <2>2, <4>2, <5>1 DEF Settled, InFlight
      <4> QED BY <1>6, <4>3, <4>4
    <3> QED BY <3>1, <3>2
  <2> QED BY <1>t, <2>1, <2>2, <2>3, <2>4 DEF UnwantedSettled
<1>7. ASSUME NEW p \in Patches, PatchFlush(p) PROVE UnwantedSettled'
  <2>1. /\ UNCHANGED <<now, on, unwanted>> /\ FlushBegin(p, FALSE)
        /\ patch[p].at = "flush" /\ \A q \in Patches : q # p => patch'[q] = patch[q]
        /\ patch'[p].at = IF Unflushed(FALSE) = {} THEN "memory" ELSE "flushing"
    BY <1>7, PatchSteps DEF PatchFlush, Patch, Moved
  <2>2. flush.at = "free" /\ flush'.at \in {"free", "sink"}
    BY <2>1, FlushBeginSteps
  <2>3. \A s \in unwanted : /\ Settled(s) => Settled(s)'
                            /\ Settled(s)' \/ flush'.records[s] # Zero
                            /\ Unflushed(FALSE) = {} => Settled(s)'
    <3>1. ASSUME NEW s \in unwanted
          PROVE  /\ Settled(s) => Settled(s)'
                 /\ Settled(s)' \/ flush'.records[s] # Zero
                 /\ Unflushed(FALSE) = {} => Settled(s)'
      <4>1. s \in Seconds /\ s < now
        BY <1>t DEF UnwantedSettled
      <4> QED BY <2>1, <4>1, FlushBeginSettled
    <3> QED BY <3>1
  <2>4. \A q \in Patches : patch[q].at # "flushing"
    BY <2>2 DEF PatchWaits
  <2>5. ASSUME NEW q \in Patches, MaySwitchOn(q)', NEW s \in unwanted
        PROVE  Settled(s)'
    BY <2>1, <2>3, <2>5 DEF MaySwitchOn, UnwantedSettled
  <2>6. ASSUME on', NEW s \in unwanted PROVE Settled(s)'
    BY <2>1, <2>3, <2>6 DEF UnwantedSettled
  <2> QED BY <1>t, <2>1, <2>2, <2>3, <2>5, <2>6 DEF UnwantedSettled
<1>8. ASSUME NEW p \in Patches, Patch(p), ~PatchFlush(p) PROVE UnwantedSettled'
  <2>0. \A q \in Patches : q # p => patch'[q] = patch[q]
    BY <1>8, PatchSteps
  <2>1. UNCHANGED <<now, buckets, flushed, flush, unwanted>>
    BY <1>8 DEF Patch, PatchBegin, PatchMemory, PatchStore, PatchStoreFails, PatchApply,
                PatchBudget, PatchTrim
  <2>2. \A s \in unwanted : Settled(s) => Settled(s)'
    BY <2>1 DEF Settled, Stale
  <2>3. ASSUME on' => on \/ MaySwitchOn(p), MaySwitchOn(p)' => on \/ MaySwitchOn(p),
               patch'[p].at # "flushing"
        PROVE  UnwantedSettled'
    <3>1. \A q \in Patches : q # p => (MaySwitchOn(q)' <=> MaySwitchOn(q))
      BY <2>0 DEF MaySwitchOn
    <3>2. on' \/ (\E q \in Patches : MaySwitchOn(q)') => on \/ \E q \in Patches : MaySwitchOn(q)
      BY <2>3, <3>1
    <3> QED BY <2>0, <2>1, <2>2, <2>3, <3>2, StaysSettled
  <2>4. CASE \E e \in BOOLEAN \union {None}, l \in Limits \union {None} : PatchBegin(p, e, l)
    <3>1. PICK e \in BOOLEAN \union {None}, l \in Limits \union {None} : PatchBegin(p, e, l)
      BY <2>4
    <3>2. /\ patch'[p].at = IF e = TRUE /\ ~on THEN "flush" ELSE "memory"
          /\ patch'[p].enabled = e /\ on' = on
      BY <3>1, PatchSteps DEF PatchBegin
    <3>3. MaySwitchOn(p)' => on
      BY <3>2 DEF MaySwitchOn
    <3> QED BY <2>3, <3>2, <3>3
  <2>5. CASE PatchMemory(p)
    <3>1. /\ patch[p].at = "memory" /\ on' = (IF patch[p].enabled = FALSE THEN FALSE ELSE on)
          /\ patch'[p].at = "store" /\ patch'[p].enabled = patch[p].enabled /\ patch'[p].was = on
      BY <2>5, PatchSteps DEF PatchMemory, Moved
    <3>2. (on' => on) /\ (MaySwitchOn(p)' => on \/ MaySwitchOn(p))
      BY <1>t, <3>1 DEF MaySwitchOn
    <3> QED BY <2>3, <3>1, <3>2
  <2>6. CASE PatchStore(p)
    <3>1. /\ patch[p].at = "store" /\ on' = on
          /\ patch'[p].at = "apply" /\ patch'[p].enabled = patch[p].enabled
      BY <2>6, PatchSteps DEF PatchStore, Moved
    <3> QED BY <2>3, <3>1 DEF MaySwitchOn
  <2>7. CASE PatchStoreFails(p)
    <3>1. patch[p].at = "store" /\ on' = patch[p].was /\ patch'[p].at = "idle"
      BY <2>7, PatchSteps DEF PatchStoreFails, Ended
    <3>2. patch[p].was \in BOOLEAN
      BY <3>1 DEF PatchWaits
    <3> QED BY <2>3, <3>1, <3>2 DEF MaySwitchOn
  <2>8. CASE PatchApply(p)
    <3>1. /\ patch[p].at = "apply"
          /\ on' = (IF patch[p].enabled = None THEN on ELSE patch[p].enabled)
          /\ patch'[p].at \in {"idle", "budget"}
      BY <2>8, PatchSteps DEF PatchApply, Moved, Ended
    <3>2. patch[p].enabled \in BOOLEAN \union {None}
      BY <1>t, PatchFields
    <3> QED BY <2>3, <3>1, <3>2 DEF MaySwitchOn
  <2>9. CASE PatchBudget(p) \/ PatchTrim(p)
    <3>1. on' = on /\ patch'[p].at \in {"idle", "trim"}
      BY <2>9, PatchSteps DEF PatchBudget, PatchTrim, Moved, Ended
    <3> QED BY <2>3, <3>1 DEF MaySwitchOn
  <2> QED BY <1>8, <2>4, <2>5, <2>6, <2>7, <2>8, <2>9 DEF Patch
<1>9. CASE Restart
  BY <1>9 DEF Restart, NoFlush, NoPatch, UnwantedSettled
<1>10. CASE DeleteFlowHistory \/ UNCHANGED vars
  BY <1>0, <1>10 DEF DeleteFlowHistory, vars
<1> QED
  BY <1>1, <1>2, <1>3, <1>4, <1>5, <1>6, <1>7, <1>8, <1>9, <1>10 DEF Next

\* Every step keeps unwanted seconds out of the history.
LEMMA UnwantedUnsaved ==
    ASSUME TypeOK, TrafficInv, UnwantedSettled, NothingFromDisabledSeconds, [Next]_vars
    PROVE  NothingFromDisabledSeconds'
<1> USE DEF monitor, settings, history
<1>t. unwanted \subseteq Seconds /\ now \in Seconds
  BY DEF TypeOK
<1>1. CASE Insert
  <2>1. unwanted' = unwanted /\ flush.at = "insert"
        /\ saved' = [s \in Seconds |-> [k \in Keys |-> saved[s][k] + flush.records[s][k]]]
    BY <1>1 DEF Insert
  <2>2. ASSUME NEW s \in unwanted PROVE saved'[s] = Empty[s]
    <3>1. flush.records[s] = Zero /\ saved[s] = Zero
      BY <1>t, <2>1, EmptyIsZero DEF UnwantedSettled, NothingFromDisabledSeconds
    <3>2. saved'[s] = [k \in Keys |-> 0]
      <4>1. saved'[s] = [k \in Keys |-> saved[s][k] + flush.records[s][k]]
        BY <1>t, <2>1
      <4>2. \A k \in Keys : saved[s][k] = 0 /\ flush.records[s][k] = 0
        BY <3>1 DEF Zero
      <4> QED BY <4>1, <4>2
    <3> QED BY <1>t, <3>2, EmptyIsZero DEF Zero
  <2> QED BY <2>1, <2>2 DEF NothingFromDisabledSeconds
<1>2. CASE ClockTick
  <2>1. ~closing => saved[now] = Empty[now]
    <3>1. ~(now < now)
      BY <1>t, FlowAssumption DEF Seconds
    <3> QED BY <1>t, <3>1, EmptyIsZero DEF TrafficInv, SavedWhole, Whole
  <2> QED BY <1>2, <2>1 DEF ClockTick, NothingFromDisabledSeconds
<1>3. CASE Restart
  BY <1>3 DEF Restart, NothingFromDisabledSeconds
<1>4. CASE \/ UNCHANGED vars \/ \E k \in Keys : Observe(k)
           \/ Snapshot \/ FlushTicker \/ Close \/ SinkSwitch \/ SinkBudget \/ InsertFails
           \/ Mark \/ DeleteFlowHistory
  BY <1>4 DEF NothingFromDisabledSeconds, Observe, Snapshot, FlushTicker, Close, SinkSwitch,
              SinkBudget, InsertFails, Mark, DeleteFlowHistory, vars
<1>5. ASSUME NEW p \in Patches, Patch(p) PROVE NothingFromDisabledSeconds'
  BY <1>5 DEF NothingFromDisabledSeconds, Patch, PatchBegin, PatchFlush, PatchMemory,
              PatchStore, PatchStoreFails, PatchApply, PatchBudget, PatchTrim
<1> QED BY <1>1, <1>2, <1>3, <1>4, <1>5 DEF Next

\* What a step of a PATCH does to the set of requests that change settings.
LEMMA ChangingSteps ==
    ASSUME TypeOK, NEW p \in Patches, Patch(p)
    PROVE  Changing' = IF patch'[p].at \in {"store", "apply", "budget"}
                       THEN Changing \union {p} ELSE Changing \ {p}
<1>1. \A q \in Patches : q # p => patch'[q] = patch[q]
  BY PatchSteps
<1> QED BY <1>1 DEF Changing

\* The last write of a request that was changing settings keeps the relation
\* when, for a request that was alone, the values agree afterwards.
LEMMA LastWrite ==
    ASSUME TypeOK, Memory, NEW p \in Changing, NEW done, Changed(p, done), Changing' = Changing \ {p},
           p \notin crossed => /\ "switch" \notin clash' => on' = dbOn'
                               /\ "budget" \notin clash' => limit' = dbLimit'
    PROVE  Memory'
<1>1. crossed' = crossed \ {p} /\ (p \in crossed => clash' = Fields)
  BY DEF Changed
<1>2. CASE p \in crossed
  <2>1. \A q \in Changing : q \in crossed
    BY <1>2 DEF Memory
  <2> QED BY <1>1, <1>2, <2>1 DEF Memory, SettingsAgree, Fields
<1>3. CASE p \notin crossed
  <2>1. Changing' = {}
    BY <1>3 DEF Memory
  <2>2. crossed' = {}
    BY <1>1, <1>3, <2>1 DEF Memory
  <2>3. Changing' \ crossed' = {}
    BY <2>1
  <2>4. SettingsAgree'
    BY <1>3 DEF SettingsAgree
  <2> QED BY <2>2, <2>3, <2>4 DEF Memory
<1> QED BY <1>2, <1>3

\* Every step keeps memory and store in the relation that the phases of the
\* requests ask for.
LEMMA MemoryNext ==
    ASSUME TypeOK, PatchWaits, Memory, [Next]_vars
    PROVE  Memory'
<1> USE DEF monitor, settings, history, overlap
<1>t. patch \in [Patches -> PatchRuns] /\ on \in BOOLEAN /\ None \notin BOOLEAN
  BY FlowAssumption DEF TypeOK
<1>0. ASSUME UNCHANGED <<on, limit, dbOn, dbLimit, crossed, clash>>,
             \A q \in Patches : patch'[q] = patch[q] \/ (q \notin Changing /\ q \notin Changing')
      PROVE  Memory'
  <2>1. Changing' = Changing
    BY <1>0 DEF Changing
  <2>2. \A q \in Changing : AloneByPhase(q) => AloneByPhase(q)'
    BY <1>0 DEF Changing, AloneByPhase
  <2> QED BY <1>0, <2>1, <2>2 DEF Memory, SettingsAgree
<1>1. CASE \/ UNCHANGED vars \/ \E k \in Keys : Observe(k)
           \/ Snapshot \/ ClockTick \/ FlushTicker \/ Close \/ SinkSwitch \/ SinkBudget
           \/ Insert \/ DeleteFlowHistory
  BY <1>0, <1>1 DEF Observe, Snapshot, ClockTick, FlushTicker, Close, SinkSwitch, SinkBudget,
                    Insert, DeleteFlowHistory, vars
<1>2. CASE InsertFails \/ Mark
  <2>1. /\ UNCHANGED <<on, limit, dbOn, dbLimit, crossed, clash>> /\ flush.at # "free"
        /\ \A q \in Patches : /\ q # flush.by => patch'[q] = patch[q]
                              /\ q = flush.by => patch'[q].at \in {"idle", "memory"}
    BY <1>2, FlushReturnsSteps DEF InsertFails, Mark, Moved, Ended
  <2>2. \A q \in Patches : q = flush.by => patch[q].at = "flushing"
    BY <2>1 DEF PatchWaits
  <2> QED BY <1>0, <2>1, <2>2 DEF Changing
<1>3. ASSUME NEW p \in Patches, Patch(p) PROVE Memory'
  <2>o. \A q \in Patches : q # p => patch'[q] = patch[q]
    BY <1>3, PatchSteps
  <2>c. Changing' = IF patch'[p].at \in {"store", "apply", "budget"}
                    THEN Changing \union {p} ELSE Changing \ {p}
    BY <1>3, ChangingSteps
  <2>f. patch[p].enabled \in BOOLEAN \union {None} /\ patch[p].limit \in Limits \union {None}
    BY <1>t, PatchFields
  <2>a. p \in Changing \ crossed => Changing = {p} /\ AloneByPhase(p) /\ crossed = {}
    BY DEF Memory
  <2>2. CASE \E e \in BOOLEAN \union {None}, l \in Limits \union {None} : PatchBegin(p, e, l)
    <3>1. UNCHANGED <<on, limit, dbOn, dbLimit, crossed, clash>>
      BY <2>2 DEF PatchBegin
    <3>2. patch[p].at = "idle" /\ patch'[p].at \in {"flush", "memory"}
      BY <2>2, PatchSteps
    <3> QED BY <1>0, <2>o, <3>1, <3>2 DEF Changing
  <2>3. CASE PatchFlush(p)
    <3>1. UNCHANGED <<on, limit, dbOn, dbLimit, crossed, clash>> /\ patch[p].at = "flush"
      BY <2>3 DEF PatchFlush
    <3>2. patch'[p].at \in {"flushing", "memory"}
      BY <2>3, PatchSteps DEF Moved
    <3> QED BY <1>0, <2>o, <3>1, <3>2 DEF Changing
  <2>4. CASE PatchMemory(p)
    <3>1. /\ patch[p].at = "memory" /\ on' = (IF patch[p].enabled = FALSE THEN FALSE ELSE on)
          /\ UNCHANGED <<limit, dbOn, dbLimit, clash>>
          /\ crossed' = (IF Changing = {} THEN crossed ELSE crossed \union Changing \union {p})
          /\ patch'[p].at = "store" /\ patch'[p].enabled = patch[p].enabled /\ patch'[p].was = on
      BY <2>4, PatchSteps DEF PatchMemory, Moved
    <3>2. Changing' = Changing \union {p}
      BY <2>c, <3>1
    <3>3. CASE Changing = {}
      <4>1. AloneByPhase(p)'
        BY <3>1, <3>3 DEF AloneByPhase, Memory, SettingsAgree
      <4> QED BY <3>1, <3>2, <3>3, <4>1 DEF Memory, SettingsAgree
    <3>4. CASE Changing # {}
      BY <3>1, <3>2, <3>4 DEF Memory, SettingsAgree
    <3> QED BY <3>3, <3>4
  <2>5. CASE PatchStore(p)
    <3>1. /\ patch[p].at = "store" /\ UNCHANGED <<on, limit, crossed, clash>>
          /\ dbOn' = (IF patch[p].enabled = None THEN dbOn ELSE patch[p].enabled)
          /\ dbLimit' = (IF patch[p].limit = None THEN dbLimit ELSE patch[p].limit)
          /\ patch'[p].at = "apply" /\ patch'[p].enabled = patch[p].enabled
          /\ patch'[p].limit = patch[p].limit
      BY <2>5, PatchSteps DEF PatchStore, Moved
    <3>2. p \in Changing /\ Changing' = Changing
      BY <2>c, <3>1 DEF Changing
    <3>3. CASE p \notin crossed
      <4>1. AloneByPhase(p)'
        BY <1>t, <2>a, <2>f, <3>1, <3>2, <3>3 DEF AloneByPhase
      <4> QED BY <2>a, <3>1, <3>2, <3>3, <4>1 DEF Memory, SettingsAgree
    <3>4. CASE p \in crossed
      <4>1. Changing \ crossed = {}
        BY <3>2, <3>4 DEF Memory
      <4> QED BY <3>1, <3>2, <3>4, <4>1 DEF Memory, SettingsAgree
    <3> QED BY <3>3, <3>4
  <2>6. CASE PatchStoreFails(p)
    <3>1. /\ patch[p].at = "store" /\ on' = patch[p].was /\ UNCHANGED <<limit, dbOn, dbLimit>>
          /\ patch'[p].at = "idle" /\ Changed(p, {})
      BY <2>6, PatchSteps DEF PatchStoreFails, Ended
    <3>2. p \in Changing /\ Changing' = Changing \ {p}
      BY <2>c, <3>1 DEF Changing
    <3>3. p \notin crossed => /\ "switch" \notin clash' => on' = dbOn'
                              /\ "budget" \notin clash' => limit' = dbLimit'
      BY <2>a, <3>1, <3>2 DEF Changed, AloneByPhase
    <3> QED BY <3>1, <3>2, <3>3, LastWrite
  <2>7. CASE PatchApply(p)
    <3>1. /\ patch[p].at = "apply" /\ UNCHANGED <<limit, dbOn, dbLimit>>
          /\ on' = (IF patch[p].enabled = None THEN on ELSE patch[p].enabled)
      BY <2>7 DEF PatchApply
    <3>2. CASE patch[p].limit = None
      <4>1. patch'[p].at = "idle" /\ Changed(p, Named(p))
        BY <2>7, <3>2, PatchSteps DEF PatchApply, Ended
      <4>2. p \in Changing /\ Changing' = Changing \ {p}
        BY <2>c, <3>1, <4>1 DEF Changing
      <4>3. p \notin crossed => /\ "switch" \notin clash' => on' = dbOn'
                                /\ "budget" \notin clash' => limit' = dbLimit'
        BY <2>a, <3>1, <3>2, <4>1, <4>2 DEF Changed, Named, AloneByPhase
      <4> QED BY <4>1, <4>2, <4>3, LastWrite
    <3>3. CASE patch[p].limit # None
      <4>1. /\ patch'[p].at = "budget" /\ patch'[p].limit = patch[p].limit
            /\ patch'[p].enabled = patch[p].enabled /\ UNCHANGED <<crossed, clash>>
        BY <2>7, <3>3, PatchSteps DEF PatchApply, Moved
      <4>2. p \in Changing /\ Changing' = Changing
        BY <2>c, <3>1, <4>1 DEF Changing
      <4>3. CASE p \notin crossed
        <5>1. AloneByPhase(p)'
          BY <2>a, <3>1, <3>3, <4>1, <4>2, <4>3 DEF AloneByPhase
        <5> QED BY <2>a, <4>1, <4>2, <4>3, <5>1 DEF Memory, SettingsAgree
      <4>4. CASE p \in crossed
        <5>1. Changing \ crossed = {}
          BY <4>2, <4>4 DEF Memory
        <5> QED BY <4>1, <4>2, <4>4, <5>1 DEF Memory, SettingsAgree
      <4> QED BY <4>3, <4>4
    <3> QED BY <3>2, <3>3
  <2>8. CASE PatchBudget(p)
    <3>1. /\ patch[p].at = "budget" /\ UNCHANGED <<on, dbOn, dbLimit>>
          /\ limit' = patch[p].limit
          /\ patch'[p].at = "trim" /\ Changed(p, Named(p))
      BY <2>8, PatchSteps DEF PatchBudget, Moved
    <3>2. p \in Changing /\ Changing' = Changing \ {p}
      BY <2>c, <3>1 DEF Changing
    <3>3. p \notin crossed => /\ "switch" \notin clash' => on' = dbOn'
                              /\ "budget" \notin clash' => limit' = dbLimit'
      BY <2>a, <3>1, <3>2 DEF Changed, Named, AloneByPhase
    <3> QED BY <3>1, <3>2, <3>3, LastWrite
  <2>9. CASE PatchTrim(p)
    <3>1. /\ patch[p].at = "trim" /\ UNCHANGED <<on, limit, dbOn, dbLimit, crossed, clash>>
          /\ patch'[p].at = "idle"
      BY <2>9, PatchSteps DEF PatchTrim, Ended
    <3> QED BY <1>0, <2>o, <3>1 DEF Changing
  <2> QED BY <1>3, <2>2, <2>3, <2>4, <2>5, <2>6, <2>7, <2>8, <2>9 DEF Patch
<1>4. CASE Restart
  <2>1. Changing' = {} /\ crossed' = {}
    BY <1>4 DEF Restart, NoPatch, Changing
  <2> QED BY <1>4, <2>1 DEF Restart, Memory, SettingsAgree
<1> QED BY <1>1, <1>2, <1>3, <1>4 DEF Next

\* The inductive invariant.
Invariant ==
    /\ TypeOK /\ KeyCountsExact /\ PatchWaits
    /\ TrafficInv /\ UnwantedSettled /\ NothingFromDisabledSeconds

\* The initial states satisfy the inductive invariant.
LEMMA InitInvariant ==
    ASSUME Init
    PROVE  Invariant /\ Memory
<1>1. 0 \in Seconds /\ 0 \in 0..MaxPackets
  BY FlowAssumption DEF Seconds
<1>2. TypeOK
  <2>1. Empty \in Counters /\ Empty \in [Seconds -> [Keys -> Nat]]
    BY <1>1 DEF Empty, Counters
  <2>2. NoFlush \in Flushes /\ NoPatch \in PatchRuns
    BY FlushUpdates, PatchUpdates
  <2> QED BY <1>1, <2>1, <2>2 DEF Init, TypeOK
<1>3. KeyCountsExact
  <2>1. \A k \in Keys : {s \in Seconds : k \in KeysOf(s)} = {}
    BY DEF Init, KeysOf, Empty
  <2>2. {k \in Keys : keys[k] > 0} = {}
    BY DEF Init
  <2>3. Cardinality({}) = 0 /\ 0 <= MaxTracked
    BY FS_EmptySet, FlowAssumption
  <2>4. \A k \in Keys : keys[k] = 0
    BY DEF Init
  <2> QED BY <2>1, <2>2, <2>3, <2>4 DEF KeyCountsExact
<1>4. PatchWaits
  BY DEF Init, PatchWaits, NoFlush, NoPatch
<1>5. TrafficInv
  BY EmptyIsZero DEF Init, NoFlush, TrafficInv, FutureEmpty, BucketsWhole, RecordsWhole,
                     SavedWhole, SavedOnce, Whole, InFlight
<1>6. UnwantedSettled /\ NothingFromDisabledSeconds
  BY DEF Init, UnwantedSettled, NothingFromDisabledSeconds, NoFlush, NoPatch
<1>7. Memory
  BY DEF Init, Memory, Changing, SettingsAgree, NoPatch
<1> QED BY <1>2, <1>3, <1>4, <1>5, <1>6, <1>7 DEF Invariant

\* Every step keeps the inductive invariant.
LEMMA NextInvariant ==
    ASSUME Invariant, [Next]_vars
    PROVE  Invariant'
<1> USE DEF Invariant
<1>1. TypeOK' /\ Exact(buckets, keys)'
  BY BaseNext
<1>2. KeyCountsExact'
  <2>1. \A k \in Keys : {s \in Seconds : k \in KeysOf(s)'} = {s \in Seconds : buckets'[s][k] > 0}
    BY DEF KeysOf
  <2> QED BY <1>1, <2>1 DEF KeyCountsExact, Exact, CountIn
<1>3. PatchWaits'
  BY PatchWaitsNext
<1>4. TrafficInv'
  BY <1>1, TrafficNext
<1>5. UnwantedSettled' /\ NothingFromDisabledSeconds'
  BY <1>1, <1>3, UnwantedNext, UnwantedUnsaved
<1> QED BY <1>1, <1>2, <1>3, <1>4, <1>5

\* The inductive invariant holds in every reachable state.
THEOREM Invariance == Spec => []Invariant
<1>1. Init => Invariant
  BY InitInvariant
<1>2. Invariant /\ [Next]_vars => Invariant'
  BY NextInvariant
<1> QED BY <1>1, <1>2, PTL DEF Spec

\* The variables of the monitor, of the flush and of the settings keep their
\* types; in particular prune never takes a reference count below zero.
THEOREM TypeCorrect == Spec => []TypeOK
<1>1. Invariant => TypeOK
  BY DEF Invariant
<1> QED BY <1>1, Invariance, PTL

\* The reference counts of the flow keys are exact and the keys with one are
\* at most maxTrackedFlows (observe, prune).
THEOREM CountsAreExact == Spec => []KeyCountsExact
<1>1. Invariant => KeyCountsExact
  BY DEF Invariant
<1> QED BY <1>1, Invariance, PTL

\* A second's traffic is saved once and whole or not at all (flushHistory),
\* whatever flushes interleave, fail and are tried again.
THEOREM SavedExactlyOnce == Spec => []ExactlyOnce
<1>1. Invariant => ExactlyOnce
  <2> SUFFICES ASSUME Invariant, NEW s \in Seconds
               PROVE  /\ \A k \in Keys : saved[s][k] <= seen[s][k]
                      /\ ~closing => /\ saved[s] \in {Empty[s], seen[s]}
                                     /\ s = now => saved[s] = Empty[s]
    BY DEF ExactlyOnce
  <2>1. Whole(saved[s], s) /\ Empty[s] = Zero
    BY EmptyIsZero DEF Invariant, TrafficInv, SavedWhole
  <2>2. saved[s] = Zero => \A k \in Keys : saved[s][k] <= seen[s][k]
    BY DEF Invariant, TypeOK, Zero
  <2>3. ~(s < now /\ s = now)
    BY FlowAssumption DEF Seconds
  <2> QED BY <2>1, <2>2, <2>3 DEF Whole
<1> QED BY <1>1, Invariance, PTL

\* Traffic of a second that ended while recording was off is never saved,
\* also when recording is switched on at once (the flush that PATCH makes
\* before it switches on).
THEOREM DisabledStaysOut == Spec => []NothingFromDisabledSeconds
<1>1. Invariant => NothingFromDisabledSeconds
  BY DEF Invariant
<1> QED BY <1>1, Invariance, PTL

\* Memory and store agree on a setting whenever no request is changing any,
\* after failed writes too, unless the last one to change it met another
\* request on its way (PATCH server/settings).
THEOREM SettingsFollowStore == Spec => []SettingsAgree
<1>1. Init => Invariant /\ Memory
  BY InitInvariant
<1>2. Invariant /\ Memory /\ [Next]_vars => Invariant' /\ Memory'
  <2> SUFFICES ASSUME Invariant, Memory, [Next]_vars PROVE Invariant' /\ Memory'
    OBVIOUS
  <2>1. Invariant'
    BY NextInvariant
  <2>2. Memory'
    BY MemoryNext DEF Invariant
  <2> QED BY <2>1, <2>2
<1>3. Memory => SettingsAgree
  BY DEF Memory
<1> QED BY <1>1, <1>2, <1>3, PTL DEF Spec

\* The oldest rows go first, whatever removes them (trimFlowHistory).
THEOREM TrimsOldest == Spec => OldestGoFirst
<1> DEFINE Oldest == \A s, t \in Seconds : s < t /\ rows'[t] < rows[t] => rows'[s] = 0
<1>1. ASSUME Invariant, [Next]_vars PROVE [Oldest]_vars
  <2> USE DEF monitor, settings, history
  <2>t. rows \in [Seconds -> Nat]
    BY <1>1 DEF Invariant, TypeOK
  <2>0. ASSUME rows' = rows PROVE Oldest
    <3>1. \A t \in Seconds : ~(rows[t] < rows[t])
      BY <2>t
    <3> QED BY <2>0, <3>1
  <2>1. ASSUME NEW r \in [Seconds -> Nat], NEW max \in Limits, rows' = Trimmed(r, max),
               \A s \in Seconds : rows[s] <= r[s]
        PROVE  Oldest
    <3>1. max \in Nat
      BY FlowAssumption
    <3>2. /\ Trimmed(r, max) \in [Seconds -> Nat]
          /\ \A s, t \in Seconds : s < t /\ Trimmed(r, max)[t] < r[t] => Trimmed(r, max)[s] = 0
      BY <3>1, TrimmedFacts
    <3>3. \A t \in Seconds : rows'[t] < rows[t] => rows'[t] < r[t]
      BY <2>t, <2>1, <3>2
    <3> QED BY <2>1, <3>2, <3>3
  <2>2. CASE Insert
    <3> DEFINE r == [s \in Seconds |-> rows[s] + Rows(s)]
    <3>1. \A s \in Seconds : Rows(s) \in Nat
      BY FlowAssumption, FS_Subset, FS_CardinalityType DEF Rows
    <3>2. r \in [Seconds -> Nat] /\ \A s \in Seconds : rows[s] <= r[s]
      BY <2>t, <3>1
    <3>3. rows' = Trimmed(r, flush.limit) /\ flush.limit \in Limits
      BY <1>1, <2>2 DEF Insert, Invariant, PatchWaits
    <3> HIDE DEF r
    <3> QED BY <2>1, <3>2, <3>3
  <2>3. ASSUME NEW p \in Patches, PatchTrim(p) PROVE Oldest
    <3>1. rows' = Trimmed(rows, patch[p].limit) \/ rows' = rows
      BY <2>3 DEF PatchTrim
    <3>2. patch[p].limit \in Limits
      BY <1>1, <2>3 DEF PatchTrim, Invariant, PatchWaits
    <3>3. \A s \in Seconds : rows[s] <= rows[s]
      BY <2>t
    <3> QED BY <2>t, <2>0, <2>1, <3>1, <3>2, <3>3
  <2>4. CASE DeleteFlowHistory
    BY <2>4 DEF DeleteFlowHistory
  <2>5. ASSUME NEW p \in Patches, Patch(p), ~PatchTrim(p) PROVE Oldest
    <3>1. rows' = rows
      BY <2>5 DEF Patch, PatchBegin, PatchFlush, PatchMemory, PatchStore, PatchStoreFails,
                  PatchApply, PatchBudget
    <3> QED BY <2>0, <3>1
  <2>6. CASE \/ \E k \in Keys : Observe(k)
             \/ Snapshot \/ ClockTick \/ FlushTicker \/ Close \/ SinkSwitch \/ SinkBudget
             \/ InsertFails \/ Mark \/ Restart
    <3>1. rows' = rows
      BY <2>6 DEF Observe, Snapshot, ClockTick, FlushTicker, Close, SinkSwitch, SinkBudget,
                  InsertFails, Mark, Restart
    <3> QED BY <2>0, <3>1
  <2>7. CASE UNCHANGED vars
    BY <2>7
  <2> QED BY <1>1, <2>2, <2>3, <2>4, <2>5, <2>6, <2>7 DEF Next
<1>2. Spec => [][Oldest]_vars
  BY <1>1, Invariance, PTL DEF Spec
<1> QED BY <1>2 DEF OldestGoFirst

=============================================================================
