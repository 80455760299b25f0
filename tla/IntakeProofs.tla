---------------------------- MODULE IntakeProofs ----------------------------
(***************************************************************************)
(* Proofs about ReplayWindow, for every Width and every MaxSeq, and about  *)
(* Intake, for any finite set of hosts, any limit and any size of the      *)
(* table.                                                                  *)
(*                                                                         *)
(* That a packet is not opened twice is not inductive: it depends on the   *)
(* bitmap still holding the packet's bit, or on its being older than the   *)
(* window.  The inductive invariant adds BitmapExact (a bit is set exactly *)
(* for a delivered packet), and that nothing above highest and nothing     *)
(* above sent was delivered.                                               *)
(*                                                                         *)
(* The limiter never changes what the cipher does with a datagram that it  *)
(* lets through: every step of the intake is a step of the cipher, so what *)
(* is proved of ReplayWindow holds behind the limiter too.  The bound of   *)
(* the table is inductive together with the types.                         *)
(***************************************************************************)
EXTENDS Intake, FiniteSetTheorems, TLAPS

-----------------------------------------------------------------------------
(* The cipher and its window.                                              *)

\* Nothing above the window's highest number was delivered.
NoDeliveryAboveHighest ==
    \A s \in 1..MaxSeq : s > highest => deliveries[s] = 0

\* Only packets that were sealed are delivered.
OnlySent == \A s \in 1..MaxSeq : deliveries[s] > 0 => s <= sent

IInv ==
    /\ TypeOK
    /\ BitmapExact
    /\ NoDeliveryAboveHighest
    /\ AtMostOnce
    /\ OnlySent

\* Sequence numbers are linearly ordered.
LEMMA Linear == \A a, b \in Nat : a > b \/ a <= b
  OBVIOUS

\* The initial window satisfies the invariant.
LEMMA InitInv == Init => IInv
  BY WidthAssumption, MaxSeqAssumption
  DEF Init, IInv, TypeOK, BitmapExact, NoDeliveryAboveHighest, AtMostOnce,
      OnlySent, Seqs, Bits

\* Accept keeps the window well formed and never returns a delivered packet.
LEMMA AcceptFact ==
    ASSUME IInv, NEW seq \in Seqs, Accepts(seq)
    PROVE  /\ seq \in 1..MaxSeq
           /\ AcceptedHighest(seq) \in Seqs
           /\ AcceptedBitmap(seq) \in SUBSET Bits
           /\ deliveries[seq] = 0
  <1>1. seq \in 1..MaxSeq
    BY MaxSeqAssumption DEF Accepts, Seqs
  <1>2. AcceptedHighest(seq) \in Seqs
    BY MaxSeqAssumption DEF AcceptedHighest, IInv, TypeOK, Seqs
  <1>3. AcceptedBitmap(seq) \in SUBSET Bits
    BY <1>1, WidthAssumption, MaxSeqAssumption
    DEF AcceptedBitmap, ShiftLeft, Accepts, IInv, TypeOK, Bits, Seqs
  <1>4. deliveries[seq] = 0
    <2>1. CASE seq > highest
      BY <1>1, <2>1 DEF IInv, NoDeliveryAboveHighest
    <2>2. CASE seq <= highest
      <3>1. highest - seq \in Bits /\ highest - seq \notin bitmap
        BY <1>1, <2>2, WidthAssumption, MaxSeqAssumption
        DEF Accepts, IInv, TypeOK, Bits, Seqs
      <3>2. ~(highest - seq < highest /\ deliveries[highest - (highest - seq)] > 0)
        BY <3>1 DEF IInv, BitmapExact
      <3>3. deliveries[seq] \in Nat
        BY <1>1 DEF IInv, TypeOK
      <3>4. highest - (highest - seq) = seq /\ highest - seq < highest
        BY <1>1, <2>2, MaxSeqAssumption DEF IInv, TypeOK, Seqs
      <3> QED BY <3>2, <3>3, <3>4
    <2> QED BY <1>1, <2>1, <2>2, MaxSeqAssumption DEF IInv, TypeOK, Seqs
  <1> QED BY <1>1, <1>2, <1>3, <1>4

\* The accepted window says the same of every other packet as before, and
\* has the bit of the accepted one.
LEMMA AcceptedBits ==
    ASSUME IInv, NEW seq \in Seqs, Accepts(seq), NEW d \in Bits
    PROVE  d \in AcceptedBitmap(seq)
             <=> \/ d = AcceptedHighest(seq) - seq
                 \/ /\ d < AcceptedHighest(seq)
                    /\ AcceptedHighest(seq) - d # seq
                    /\ AcceptedHighest(seq) - d <= highest
                    /\ deliveries[AcceptedHighest(seq) - d] > 0
  <1>0. /\ seq \in 1..MaxSeq /\ highest \in Nat /\ d \in Nat /\ seq \in Nat
        /\ highest <= MaxSeq /\ MaxSeq \in Nat
    BY AcceptFact, MaxSeqAssumption, WidthAssumption DEF IInv, TypeOK, Seqs, Bits
  <1>1. CASE seq > highest
    <2>1. /\ AcceptedHighest(seq) = seq
          /\ AcceptedBitmap(seq) = ShiftLeft(bitmap, seq - highest) \cup {0}
      BY <1>1 DEF AcceptedHighest, AcceptedBitmap
    <2>2. CASE d = 0
      BY <1>0, <2>1, <2>2
    <2>3. CASE d # 0 /\ d < seq - highest
      BY <1>0, <1>1, <2>1, <2>3 DEF ShiftLeft
    <2>4. CASE d # 0 /\ d >= seq - highest
      <3>1. d - (seq - highest) \in Bits
        BY <1>0, <1>1, <2>4, WidthAssumption DEF Bits
      <3>2. d \in AcceptedBitmap(seq) <=> d - (seq - highest) \in bitmap
        BY <1>0, <1>1, <2>1, <2>4 DEF ShiftLeft
      <3>3. highest - (d - (seq - highest)) = seq - d
        BY <1>0
      <3>4. d - (seq - highest) < highest <=> d < seq
        BY <1>0
      <3>5. d \in AcceptedBitmap(seq) <=> d < seq /\ deliveries[seq - d] > 0
        BY <3>1, <3>2, <3>3, <3>4 DEF IInv, BitmapExact
      <3> QED BY <1>0, <1>1, <2>1, <2>4, <3>5
    <2> QED BY <1>0, <2>2, <2>3, <2>4
  <1>2. CASE ~(seq > highest)
    <2>1. /\ AcceptedHighest(seq) = highest
          /\ AcceptedBitmap(seq) = bitmap \cup {highest - seq}
      BY <1>2 DEF AcceptedHighest, AcceptedBitmap
    <2>2. d \in bitmap <=> d < highest /\ deliveries[highest - d] > 0
      BY DEF IInv, BitmapExact
    <2>3. highest - d = seq <=> d = highest - seq
      BY <1>0
    <2> QED BY <1>0, <1>2, <2>1, <2>2, <2>3
  <1> QED BY <1>1, <1>2

\* Every step of the sender, of the network and of Cipher.Open preserves the
\* invariant.
LEMMA NextInv == IInv /\ [Next]_vars => IInv'
  <1> SUFFICES ASSUME IInv, [Next]_vars PROVE IInv'
    OBVIOUS
  <1>1. CASE Seal
    BY <1>1, MaxSeqAssumption
    DEF Seal, IInv, TypeOK, BitmapExact, NoDeliveryAboveHighest, AtMostOnce,
        OnlySent, Seqs
  <1>2. ASSUME NEW seq \in Seqs, OpenAuthentic(seq) PROVE IInv'
    <2>0. /\ Accepts(seq) /\ seq \in 1..MaxSeq /\ deliveries[seq] = 0
          /\ highest' = AcceptedHighest(seq) /\ bitmap' = AcceptedBitmap(seq)
          /\ deliveries' = [deliveries EXCEPT ![seq] = @ + 1]
          /\ sent' = sent /\ seq <= sent
      BY <1>2, AcceptFact DEF OpenAuthentic, IInv, TypeOK, Seqs
    <2>1. TypeOK'
      BY <2>0, <1>2, AcceptFact DEF IInv, TypeOK
    <2>2. /\ highest \in Nat /\ highest' \in Nat /\ highest' <= MaxSeq
          /\ seq <= highest' /\ highest <= highest' /\ MaxSeq \in Nat
      BY <2>0, <2>1, MaxSeqAssumption DEF IInv, TypeOK, Seqs, AcceptedHighest
    <2>3. BitmapExact'
      <3> SUFFICES ASSUME NEW d \in Bits
                   PROVE  d \in bitmap' <=> /\ d < highest'
                                            /\ deliveries'[highest' - d] > 0
        BY DEF BitmapExact
      <3>1. d \in Nat
        BY WidthAssumption DEF Bits
      <3>2. d \in bitmap' <=> \/ d = highest' - seq
                              \/ /\ d < highest' /\ highest' - d # seq
                                 /\ highest' - d <= highest
                                 /\ deliveries[highest' - d] > 0
        BY <2>0, <1>2, AcceptedBits
      <3>3. CASE d = highest' - seq
        <4>1. highest' - d = seq /\ d < highest'
          BY <2>0, <2>2, <3>1, <3>3
        <4>2. deliveries'[seq] = 1
          BY <2>0 DEF IInv, TypeOK
        <4> QED BY <3>2, <3>3, <4>1, <4>2
      <3>4. CASE d # highest' - seq /\ d < highest'
        <4>1. highest' - d \in 1..MaxSeq /\ highest' - d # seq
          BY <2>0, <2>2, <3>1, <3>4
        <4>2. deliveries'[highest' - d] = deliveries[highest' - d]
          BY <2>0, <4>1 DEF IInv, TypeOK
        <4>3. highest' - d > highest \/ highest' - d <= highest
          BY <2>2, <4>1, Linear
        <4>4. deliveries[highest' - d] > 0 => highest' - d <= highest
          <5>1. CASE highest' - d > highest
            <6>1. deliveries[highest' - d] = 0
              BY <4>1, <5>1 DEF IInv, NoDeliveryAboveHighest
            <6> QED BY <6>1
          <5> QED BY <4>3, <5>1
        <4> QED BY <3>2, <3>4, <4>1, <4>2, <4>4
      <3>5. CASE d # highest' - seq /\ ~(d < highest')
        BY <3>2, <3>5
      <3> QED BY <3>3, <3>4, <3>5
    <2>4. NoDeliveryAboveHighest'
      BY <2>0, <2>2 DEF IInv, TypeOK, NoDeliveryAboveHighest
    <2>5. AtMostOnce' /\ OnlySent'
      BY <2>0 DEF IInv, TypeOK, AtMostOnce, OnlySent
    <2> QED BY <2>1, <2>3, <2>4, <2>5 DEF IInv
  <1>3. ASSUME NEW seq \in Seqs, OpenDamaged(seq) PROVE IInv'
    <2>0. /\ Accepts(seq) /\ seq \in 1..MaxSeq /\ deliveries[seq] = 0
          /\ highest' = AcceptedHighest(seq)
          /\ bitmap' = Rollback(AcceptedHighest(seq), AcceptedBitmap(seq), seq)
          /\ UNCHANGED <<sent, deliveries>>
      BY <1>3, AcceptFact DEF OpenDamaged
    <2>1. /\ highest \in Nat /\ highest' \in Seqs /\ highest' \in Nat
          /\ seq <= highest' /\ highest <= highest'
      BY <2>0, <1>3, AcceptFact, MaxSeqAssumption
      DEF IInv, TypeOK, Seqs, AcceptedHighest
    <2>2. bitmap' = AcceptedBitmap(seq) \ {highest' - seq}
      BY <2>0, <2>1 DEF Rollback
    <2>3. TypeOK'
      BY <2>0, <2>1, <2>2, <1>3, AcceptFact DEF IInv, TypeOK
    <2>4. BitmapExact'
      <3> SUFFICES ASSUME NEW d \in Bits
                   PROVE  d \in bitmap' <=> /\ d < highest'
                                            /\ deliveries[highest' - d] > 0
        BY <2>0 DEF BitmapExact
      <3>1. d \in Nat
        BY WidthAssumption DEF Bits
      <3>2. d \in AcceptedBitmap(seq)
              <=> \/ d = highest' - seq
                  \/ /\ d < highest' /\ highest' - d # seq
                     /\ highest' - d <= highest
                     /\ deliveries[highest' - d] > 0
        BY <2>0, <1>3, AcceptedBits
      <3>3. CASE d = highest' - seq
        <4>1. highest' - d = seq
          BY <2>0, <2>1, <3>1, <3>3
        <4> QED BY <2>0, <2>2, <3>3, <4>1
      <3>4. CASE d # highest' - seq /\ d < highest'
        <4>1. highest' - d \in 1..MaxSeq /\ highest' - d # seq
          BY <2>0, <2>1, <3>1, <3>4, MaxSeqAssumption DEF Seqs
        <4>2. highest' - d > highest \/ highest' - d <= highest
          BY <2>1, <4>1, MaxSeqAssumption, Linear
        <4>3. deliveries[highest' - d] > 0 => highest' - d <= highest
          <5>1. CASE highest' - d > highest
            <6>1. deliveries[highest' - d] = 0
              BY <4>1, <5>1 DEF IInv, NoDeliveryAboveHighest
            <6> QED BY <6>1
          <5> QED BY <4>2, <5>1
        <4> QED BY <2>2, <3>2, <3>4, <4>1, <4>3
      <3>5. CASE d # highest' - seq /\ ~(d < highest')
        BY <2>2, <3>2, <3>5
      <3> QED BY <3>3, <3>4, <3>5
    <2>5. NoDeliveryAboveHighest' /\ AtMostOnce' /\ OnlySent'
      BY <2>0, <2>1 DEF IInv, TypeOK, NoDeliveryAboveHighest, AtMostOnce, OnlySent
    <2> QED BY <2>3, <2>4, <2>5 DEF IInv
  <1>4. ASSUME NEW seq \in Seqs, OpenRejected(seq) PROVE IInv'
    BY <1>4 DEF OpenRejected, vars, IInv, TypeOK, BitmapExact,
       NoDeliveryAboveHighest, AtMostOnce, OnlySent
  <1>5. CASE UNCHANGED vars
    BY <1>5 DEF vars, IInv, TypeOK, BitmapExact, NoDeliveryAboveHighest,
       AtMostOnce, OnlySent
  <1> QED BY <1>1, <1>2, <1>3, <1>4, <1>5 DEF Next

\* The inductive invariant holds in every reachable state.
THEOREM Invariance == Spec => []IInv
  BY InitInv, NextInv, PTL DEF Spec

\* The window is always a Width-bit word next to a number of the session.
THEOREM TypeCorrect == Spec => []TypeOK
  <1>1. IInv => TypeOK
    BY DEF IInv
  <1> QED BY <1>1, Invariance, PTL

\* Cipher.Open returns no packet twice, for every window width and every
\* session length, whatever the network duplicates, reorders or damages.
THEOREM NoPacketTwice == Spec => []AtMostOnce
  <1>1. IInv => AtMostOnce
    BY DEF IInv
  <1> QED BY <1>1, Invariance, PTL

\* The bits tell exactly which of the last Width packets were delivered.
THEOREM BitmapIsExact == Spec => []BitmapExact
  <1>1. IInv => BitmapExact
    BY DEF IInv
  <1> QED BY <1>1, Invariance, PTL

\* A packet overtaken by fewer than Width numbers is never lost to the window.
THEOREM WindowLosesNothing == Spec => []NoLossInsideWindow
  <1>1. IInv => NoLossInsideWindow
    <2> SUFFICES ASSUME IInv, NEW s \in 1..sent,
                        deliveries[s] = 0, s + Width > highest
                 PROVE  Accepts(s)
      BY DEF NoLossInsideWindow
    <2>1. /\ s \in Nat /\ s # 0 /\ highest \in Nat /\ Width \in Nat
      BY WidthAssumption, MaxSeqAssumption DEF IInv, TypeOK, Seqs
    <2>2. CASE s > highest
      BY <2>1, <2>2 DEF Accepts
    <2>3. CASE s <= highest
      <3>1. highest - s \in Bits /\ highest - (highest - s) = s
        BY <2>1, <2>3, WidthAssumption DEF Bits
      <3>2. highest - s \notin bitmap
        BY <3>1 DEF IInv, BitmapExact
      <3> QED BY <2>1, <2>3, <3>1, <3>2 DEF Accepts, Bits
    <2> QED BY <2>1, <2>2, <2>3
  <1> QED BY <1>1, Invariance, PTL

\* The cipher on top of the datagram network implements the channel that
\* delivers each packet at most once.
THEOREM ChannelRefinement == Spec => ImplementsChannel
  <1>1. Init => Channel!Init
    BY DEF Init, Channel!Init
  <1>2. IInv /\ [Next]_vars => [Channel!Next]_Channel!vars
    <2> SUFFICES ASSUME IInv, [Next]_vars PROVE [Channel!Next]_Channel!vars
      OBVIOUS
    <2>1. CASE Seal
      BY <2>1 DEF Seal, Channel!Next, Channel!Send
    <2>2. ASSUME NEW seq \in Seqs, OpenAuthentic(seq)
          PROVE  Channel!Next
      <3>1. Accepts(seq) /\ seq \in 1..MaxSeq /\ deliveries[seq] = 0
        BY <2>2, AcceptFact DEF OpenAuthentic
      <3>2. Channel!Deliver(seq)
        BY <2>2, <3>1, MaxSeqAssumption
        DEF OpenAuthentic, Channel!Deliver, IInv, TypeOK, Seqs
      <3> QED BY <3>1, <3>2 DEF Channel!Next
    <2>3. ASSUME NEW seq \in Seqs, OpenDamaged(seq)
          PROVE  UNCHANGED Channel!vars
      BY <2>3 DEF OpenDamaged, Channel!vars
    <2>4. ASSUME NEW seq \in Seqs, OpenRejected(seq)
          PROVE  UNCHANGED Channel!vars
      BY <2>4 DEF OpenRejected, vars, Channel!vars
    <2>5. CASE UNCHANGED vars
      BY <2>5 DEF vars, Channel!vars
    <2> QED BY <2>1, <2>2, <2>3, <2>4, <2>5 DEF Next
  <1> QED BY <1>1, <1>2, Invariance, PTL DEF Spec, ImplementsChannel, Channel!Spec

-----------------------------------------------------------------------------
(* The limiter in front of the cipher.                                     *)

\* The invariant of the limiter.
LimiterInv ==
    /\ count \in [Hosts -> 0..Limit]
    /\ recent \subseteq Hosts
    /\ LimiterBounded

\* The limiter in front of the cipher only withholds datagrams from it.
LEMMA IntakeStep == [IntakeNext]_intakeVars => [Next]_vars
  <1> SUFFICES ASSUME [IntakeNext]_intakeVars PROVE [Next]_vars
    OBVIOUS
  <1>1. CASE ClientSeals
    BY <1>1 DEF ClientSeals, Next
  <1>2. ASSUME NEW h \in Hosts, NEW seq \in Seqs, TakeAuthentic(h, seq)
        PROVE  Next
    BY <1>2 DEF TakeAuthentic, Next
  <1>3. ASSUME NEW h \in Hosts, NEW seq \in Seqs, TakeMisshapen(h, seq)
        PROVE  Next
    BY <1>3 DEF TakeMisshapen, Next
  <1>4. ASSUME NEW h \in Hosts, NEW seq \in Seqs, TakeRefused(h, seq)
        PROVE  Next
    BY <1>4 DEF TakeRefused, Next
  <1>5. ASSUME NEW h \in Hosts, TakeUnknown(h)
        PROVE  UNCHANGED vars
    BY <1>5 DEF TakeUnknown
  <1>6. ASSUME NEW h \in Hosts, MinutePasses(h)
        PROVE  UNCHANGED vars
    BY <1>6 DEF MinutePasses, vars
  <1>7. CASE UNCHANGED intakeVars
    BY <1>7 DEF intakeVars
  <1> QED BY <1>1, <1>2, <1>3, <1>4, <1>5, <1>6, <1>7 DEF IntakeNext

\* The cipher behind the limiter behaves as the cipher of ReplayWindow.
THEOREM IntakeIsReplayWindow == IntakeSpec => Spec
  BY IntakeStep, PTL DEF IntakeSpec, IntakeInit, Spec

\* A packet overtaken inside the window is not lost to it by what the limiter
\* lets through or holds back.
THEOREM IntakeLosesNothing == IntakeSpec => []NoLossInsideWindow
  BY IntakeIsReplayWindow, WindowLosesNothing, PTL

\* readUDP and the cipher implement the at-most-once channel.
THEOREM IntakeImplementsChannel == IntakeSpec => ImplementsChannel
  BY IntakeIsReplayWindow, ChannelRefinement, PTL

-----------------------------------------------------------------------------
(* The bound of the table.                                                 *)

\* An entry left alone or expired keeps a table within its bound.
LEMMA SmallerTable ==
    ASSUME NEW table \in [Hosts -> 0..Limit], NEW g \in [Hosts -> 0..Limit],
           \A h \in Hosts : g[h] # 0 => table[h] # 0,
           Cardinality(Entries(table)) <= MaxSources
    PROVE  Cardinality(Entries(g)) <= MaxSources
  <1>1. IsFiniteSet(Entries(table))
    BY HostsAssumption, FS_Subset DEF Entries
  <1>2. Entries(g) \subseteq Entries(table)
    BY DEF Entries
  <1>3. /\ Cardinality(Entries(g)) <= Cardinality(Entries(table))
        /\ Cardinality(Entries(g)) \in Nat
        /\ Cardinality(Entries(table)) \in Nat
    BY <1>1, <1>2, FS_Subset, FS_CardinalityType
  <1> QED BY <1>3, MaxSourcesAssumption

\* What survives the cut is in the table and within the bound.
LEMMA SurvivorsFit ==
    ASSUME NEW table \in [Hosts -> Nat], NEW now \in SUBSET Hosts,
           NEW kept \in Survivors(table, now)
    PROVE  kept \subseteq Entries(table) /\ Cardinality(kept) <= MaxSources
  <1>1. IsFiniteSet(Entries(table)) /\ IsFiniteSet(Entries(table) \cap now)
    BY HostsAssumption, FS_Subset DEF Entries
  <1>2. /\ Cardinality(Entries(table)) \in Nat
        /\ Cardinality(Entries(table) \cap now) \in Nat
    BY <1>1, FS_CardinalityType
  <1> QED BY <1>2, MaxSourcesAssumption DEF Survivors

\* recordInvalid for a host that is not blocked keeps the table in bounds.
LEMMA RecordKeepsBound ==
    ASSUME LimiterInv, NEW h \in Hosts, ~Blocked(h), RecordInvalid(h)
    PROVE  LimiterInv'
  <1> DEFINE now == recent \cup {h}
             table == [CountRead(h) EXCEPT ![h] = @ + 1]
  <1>1. /\ count \in [Hosts -> 0..Limit] /\ recent \subseteq Hosts
        /\ recent \subseteq Entries(count) /\ Limit \in Nat /\ Limit > 0
    BY LimitAssumption DEF LimiterInv, LimiterBounded
  <1>2. CountRead(h) \in [Hosts -> 0..Limit] /\ CountRead(h)[h] < Limit
    BY <1>1 DEF CountRead, Blocked
  <1>3. table \in [Hosts -> 0..Limit] /\ table[h] # 0
    BY <1>1, <1>2
  <1>4. \A g \in recent : table[g] # 0
    BY <1>1, <1>2, <1>3 DEF CountRead, Entries
  <1>5. now \subseteq Entries(table)
    BY <1>1, <1>3, <1>4 DEF Entries
  <1> HIDE DEF table, now
  <1>6. PICK kept \in Survivors(table, now) :
            /\ count' = [g \in Hosts |-> IF g \in kept THEN table[g] ELSE 0]
            /\ recent' = now \cap kept
    BY DEF RecordInvalid, table, now
  <1>7. table \in [Hosts -> Nat] /\ now \in SUBSET Hosts
    BY <1>1, <1>3 DEF now
  <1>8. kept \subseteq Entries(table) /\ Cardinality(kept) <= MaxSources
    BY <1>6, <1>7, SurvivorsFit
  <1>9. Entries(count') = kept
    BY <1>6, <1>8, <1>3 DEF Entries
  <1>10. count' \in [Hosts -> 0..Limit]
    BY <1>1, <1>3, <1>6
  <1>11. recent' \subseteq Entries(count') /\ recent' \subseteq Hosts
    BY <1>6, <1>7, <1>9
  <1>12. \A g \in Hosts : count'[g] <= Limit
    BY <1>1, <1>10
  <1> QED BY <1>8, <1>9, <1>10, <1>11, <1>12 DEF LimiterInv, LimiterBounded

\* An empty table is within its bound.
LEMMA LimiterInitInv == IntakeInit => LimiterInv
  <1> SUFFICES ASSUME IntakeInit PROVE LimiterInv
    OBVIOUS
  <1>1. Entries(count) = {}
    BY DEF IntakeInit, Entries
  <1>2. Cardinality({}) = 0
    BY FS_EmptySet
  <1> QED BY <1>1, <1>2, LimitAssumption, MaxSourcesAssumption
          DEF IntakeInit, LimiterInv, LimiterBounded

\* Every step of readUDP, and of time, keeps the table in bounds.
LEMMA LimiterNextInv == LimiterInv /\ [IntakeNext]_intakeVars => LimiterInv'
  <1> SUFFICES ASSUME LimiterInv, [IntakeNext]_intakeVars PROVE LimiterInv'
    OBVIOUS
  <1>1. ASSUME UNCHANGED limiterVars PROVE LimiterInv'
    BY <1>1 DEF limiterVars, LimiterInv, LimiterBounded, Entries
  <1>2. CASE ClientSeals
    BY <1>1, <1>2 DEF ClientSeals
  <1>3. ASSUME NEW h \in Hosts, NEW seq \in Seqs, TakeAuthentic(h, seq)
        PROVE  LimiterInv'
    <2>1. count' = CountRead(h) /\ recent' = recent
      BY <1>3 DEF TakeAuthentic
    <2>2. /\ count' \in [Hosts -> 0..Limit]
          /\ \A g \in Hosts : count'[g] # 0 => count[g] # 0
          /\ \A g \in recent : count'[g] = count[g]
      BY <2>1, LimitAssumption DEF CountRead, LimiterInv
    <2>3. Cardinality(Entries(count')) <= MaxSources
      BY <2>2, SmallerTable DEF LimiterInv, LimiterBounded
    <2>4. recent' \subseteq Entries(count')
      BY <2>1, <2>2 DEF Entries, LimiterInv, LimiterBounded
    <2>5. \A g \in Hosts : count'[g] <= Limit
      BY <2>2, LimitAssumption
    <2> QED BY <2>1, <2>2, <2>3, <2>4, <2>5 DEF LimiterInv, LimiterBounded
  <1>4. ASSUME NEW h \in Hosts, ~Blocked(h), RecordInvalid(h)
        PROVE  LimiterInv'
    BY <1>4, RecordKeepsBound
  <1>5. ASSUME NEW h \in Hosts, NEW seq \in Seqs,
               TakeMisshapen(h, seq) \/ TakeRefused(h, seq)
        PROVE  LimiterInv'
    BY <1>4, <1>5 DEF TakeMisshapen, TakeRefused
  <1>6. ASSUME NEW h \in Hosts, TakeUnknown(h) PROVE LimiterInv'
    BY <1>4, <1>6 DEF TakeUnknown
  <1>7. ASSUME NEW h \in Hosts, MinutePasses(h) PROVE LimiterInv'
    BY <1>7 DEF MinutePasses, LimiterInv, LimiterBounded, Entries
  <1>8. CASE UNCHANGED intakeVars
    BY <1>1, <1>8 DEF intakeVars
  <1> QED BY <1>2, <1>3, <1>5, <1>6, <1>7, <1>8 DEF IntakeNext

\* The table of bad sources stays within its bound whatever arrives, for any
\* number of hosts: recordInvalid always finds enough entries to cut.
THEOREM TableIsBounded == IntakeSpec => []LimiterBounded
  <1>1. LimiterInv => LimiterBounded
    BY DEF LimiterInv
  <1> QED BY <1>1, LimiterInitInv, LimiterNextInv, PTL DEF IntakeSpec
=============================================================================
