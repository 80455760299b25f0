-------------------------- MODULE EnrollmentProofs ---------------------------
(***************************************************************************)
(* Proofs that the invariants of Enrollment hold for any number of joins,  *)
(* tokens and users and for any network.                                   *)
(***************************************************************************)
EXTENDS Enrollment, FiniteSetTheorems, TLAPS

\* A join past ConsumeToken has a token, one past nextIP an address.
JoinsProgress ==
    \A d \in Devices :
      /\ phase[d] = "idle" <=> token[d] = Unset
      /\ phase[d] = "chosen" => vip[d] \in Net
      /\ phase[d] = "enrolled" => ip[d] \in Net

\* The joins that consumed t; their number is the counter of t.
Joins(t) == {d \in Devices : token[d] = t}

UsesCounted ==
    \A t \in Tokens : uses[t] = Cardinality(Joins(t)) /\ uses[t] <= MaxUses[t]

\* What nextIP chose is legal when it is inserted.
Legal == Net \ {NetworkIP, ServerIP, Broadcast}

ChoicesLegal ==
    InstalledNetwork =>
      \A d \in Devices : /\ phase[d] = "chosen" => vip[d] \in Legal
                         /\ phase[d] = "enrolled" => ip[d] \in Legal

IInv ==
    /\ EnrollmentTypeOK /\ JoinsProgress /\ UsesCounted
    /\ UniqueAddresses /\ DevicesHaveOwners /\ ChoicesLegal

-----------------------------------------------------------------------------
\* Every candidate of nextIP is legal in an installed network: the loop starts
\* above the server's address and skips the broadcast address.
LEMMA CandidatesLegal ==
    ASSUME NEW used, NEW a \in Candidates(used), InstalledNetwork
    PROVE  a \in Legal
  BY EnrollmentAssumption DEF Candidates, InstalledNetwork, Legal, Net, Broadcast

\* The initial state satisfies the inductive invariant.
LEMMA InitIInv == EnrollmentInit => IInv
<1> SUFFICES ASSUME EnrollmentInit PROVE IInv
    OBVIOUS
<1>1. EnrollmentTypeOK
    BY EnrollmentAssumption DEF EnrollmentInit, EnrollmentTypeOK, Phases
<1>2. JoinsProgress
    BY DEF EnrollmentInit, JoinsProgress
<1>3. UsesCounted
  <2> SUFFICES ASSUME NEW t \in Tokens
               PROVE  uses[t] = Cardinality(Joins(t)) /\ uses[t] <= MaxUses[t]
      BY DEF UsesCounted
  <2>1. Joins(t) = {}
      BY EnrollmentAssumption DEF EnrollmentInit, Joins
  <2>2. Cardinality(Joins(t)) = 0
      BY <2>1, FS_EmptySet
  <2> QED
      BY <2>2, EnrollmentAssumption DEF EnrollmentInit
<1>4. UniqueAddresses /\ DevicesHaveOwners /\ ChoicesLegal
    BY DEF EnrollmentInit, UniqueAddresses, DevicesHaveOwners, ChoicesLegal, Enrolled
<1> QED
    BY <1>1, <1>2, <1>3, <1>4 DEF IInv

\* ConsumeToken keeps the counters exact: the join adds itself, once, to the
\* joins of its token, and the guard keeps the counter below max_uses.
LEMMA ConsumeCounts ==
    ASSUME IInv, NEW d \in Devices, NEW t \in Tokens, ConsumeToken(d, t)
    PROVE  UsesCounted'
<1> SUFFICES ASSUME NEW s \in Tokens
             PROVE  uses'[s] = Cardinality(Joins(s)') /\ uses'[s] <= MaxUses[s]
    BY DEF UsesCounted
<1>0. /\ uses \in [Tokens -> Nat] /\ token \in [Devices -> Tokens \union {Unset}]
      /\ token[d] = Unset
      /\ uses[s] = Cardinality(Joins(s)) /\ uses[s] <= MaxUses[s]
      /\ MaxUses[s] \in Nat /\ Unset \notin Tokens
    BY EnrollmentAssumption DEF IInv, EnrollmentTypeOK, JoinsProgress, UsesCounted, ConsumeToken
<1>1. CASE s = t
  <2>1. Joins(s)' = Joins(s) \union {d}
      BY <1>0, <1>1 DEF ConsumeToken, Joins
  <2>2. d \notin Joins(s)
      BY <1>0 DEF Joins
  <2>3. IsFiniteSet(Joins(s))
      BY FS_Subset, EnrollmentAssumption DEF Joins
  <2>4. Cardinality(Joins(s) \union {d}) = Cardinality(Joins(s)) + 1
    <3>1. Cardinality(Joins(s) \union {d}) =
            IF d \in Joins(s) THEN Cardinality(Joins(s)) ELSE Cardinality(Joins(s)) + 1
        BY <2>3, FS_AddElement, Zenon
    <3> QED
        BY <3>1, <2>2, Zenon
  <2>5. Cardinality(Joins(s)') = uses[s] + 1
      BY <2>1, <2>4, <1>0, Zenon
  <2> QED
      BY <2>5, <1>0, <1>1 DEF ConsumeToken
<1>2. CASE s # t
  <2>1. Joins(s)' = Joins(s)
      BY <1>0, <1>2 DEF ConsumeToken, Joins
  <2> QED
      BY <2>1, <1>0, <1>2 DEF ConsumeToken
<1> QED
    BY <1>1, <1>2

\* A step that leaves counters and tokens of joins alone keeps them exact.
LEMMA OthersCount ==
    ASSUME IInv, UNCHANGED <<uses, token>>
    PROVE  UsesCounted'
  BY DEF IInv, UsesCounted, Joins

\* Every step preserves the inductive invariant.
LEMMA NextIInv == IInv /\ [EnrollmentNext]_enrollmentVars => IInv'
<1> SUFFICES ASSUME IInv, [EnrollmentNext]_enrollmentVars PROVE IInv'
    OBVIOUS
<1> USE EnrollmentAssumption
<1>1. ASSUME NEW t \in Tokens, CreateEnrollmentToken(t) PROVE IInv'
  <2>1. UsesCounted'
      BY <1>1, OthersCount DEF CreateEnrollmentToken
  <2>2. EnrollmentTypeOK' /\ JoinsProgress' /\ UniqueAddresses' /\ DevicesHaveOwners' /\ ChoicesLegal'
      BY <1>1 DEF IInv, CreateEnrollmentToken, EnrollmentTypeOK, JoinsProgress, UniqueAddresses,
                  DevicesHaveOwners, ChoicesLegal, Enrolled
  <2> QED
      BY <2>1, <2>2 DEF IInv
<1>2. ASSUME NEW t \in Tokens, RevokeToken(t) PROVE IInv'
  <2>1. UsesCounted'
      BY <1>2, OthersCount DEF RevokeToken
  <2>2. EnrollmentTypeOK' /\ JoinsProgress' /\ UniqueAddresses' /\ DevicesHaveOwners' /\ ChoicesLegal'
      BY <1>2 DEF IInv, RevokeToken, EnrollmentTypeOK, JoinsProgress, UniqueAddresses,
                  DevicesHaveOwners, ChoicesLegal, Enrolled
  <2> QED
      BY <2>1, <2>2 DEF IInv
<1>3. ASSUME NEW u \in Owners, CountDevices(u) PROVE IInv'
  <2>1. UsesCounted'
      BY <1>3, OthersCount DEF CountDevices
  <2>2. EnrollmentTypeOK' /\ JoinsProgress' /\ UniqueAddresses' /\ DevicesHaveOwners' /\ ChoicesLegal'
      BY <1>3 DEF IInv, CountDevices, EnrollmentTypeOK, JoinsProgress, UniqueAddresses,
                  DevicesHaveOwners, ChoicesLegal, Enrolled
  <2> QED
      BY <2>1, <2>2 DEF IInv
<1>4. ASSUME NEW u \in Owners, DeleteOwner(u) PROVE IInv'
  <2>1. UsesCounted'
      BY <1>4, OthersCount DEF DeleteOwner
  <2>2. EnrollmentTypeOK' /\ JoinsProgress' /\ UniqueAddresses' /\ ChoicesLegal'
      BY <1>4 DEF IInv, DeleteOwner, EnrollmentTypeOK, JoinsProgress, UniqueAddresses, ChoicesLegal,
                  Enrolled
  \* the foreign key: a user with a device is not deleted
  <2>3. DevicesHaveOwners'
      BY <1>4 DEF IInv, DeleteOwner, DevicesHaveOwners, DevicesOf, Enrolled
  <2> QED
      BY <2>1, <2>2, <2>3 DEF IInv
<1>5. ASSUME NEW d \in Devices, NEW t \in Tokens, ConsumeToken(d, t) PROVE IInv'
  <2>1. UsesCounted'
      BY <1>5, ConsumeCounts
  <2>2. EnrollmentTypeOK' /\ JoinsProgress'
      BY <1>5 DEF IInv, ConsumeToken, EnrollmentTypeOK, Phases, JoinsProgress
  <2>3. UniqueAddresses' /\ DevicesHaveOwners' /\ ChoicesLegal'
      BY <1>5 DEF IInv, ConsumeToken, EnrollmentTypeOK, UniqueAddresses, DevicesHaveOwners,
                  ChoicesLegal, Enrolled
  <2> QED
      BY <2>1, <2>2, <2>3 DEF IInv
<1>6. ASSUME NEW d \in Devices, NextIP(d) PROVE IInv'
  <2> PICK a \in Candidates(UsedIPs) : vip' = [vip EXCEPT ![d] = a]
      BY <1>6 DEF NextIP
  <2>0. a \in Net /\ (InstalledNetwork => a \in Legal)
      BY CandidatesLegal DEF Candidates
  <2>1. UsesCounted'
      BY <1>6, OthersCount DEF NextIP
  <2>2. EnrollmentTypeOK' /\ JoinsProgress'
      BY <1>6, <2>0 DEF IInv, NextIP, EnrollmentTypeOK, Phases, JoinsProgress
  <2>3. UniqueAddresses' /\ DevicesHaveOwners'
      BY <1>6 DEF IInv, NextIP, EnrollmentTypeOK, UniqueAddresses, DevicesHaveOwners, Enrolled
  <2>4. ChoicesLegal'
      BY <1>6, <2>0 DEF IInv, NextIP, EnrollmentTypeOK, ChoicesLegal
  <2> QED
      BY <2>1, <2>2, <2>3, <2>4 DEF IInv
<1>7. ASSUME NEW d \in Devices, Exhausted(d) \/ InsertRejected(d) \/ Abandoned(d)
      PROVE  IInv'
  <2>1. UsesCounted'
      BY <1>7, OthersCount DEF Exhausted, InsertRejected, Abandoned
  <2>2. EnrollmentTypeOK' /\ JoinsProgress'
      BY <1>7 DEF IInv, Exhausted, InsertRejected, Abandoned, EnrollmentTypeOK, Phases, JoinsProgress
  <2>3. UniqueAddresses' /\ DevicesHaveOwners' /\ ChoicesLegal'
      BY <1>7 DEF IInv, Exhausted, InsertRejected, Abandoned, EnrollmentTypeOK, UniqueAddresses,
                  DevicesHaveOwners, ChoicesLegal, Enrolled
  <2> QED
      BY <2>1, <2>2, <2>3 DEF IInv
<1>8. ASSUME NEW d \in Devices, Insert(d) PROVE IInv'
  <2>0. vip[d] \in Net /\ phase[d] = "chosen"
      BY <1>8 DEF IInv, Insert, JoinsProgress
  <2>1. UsesCounted'
      BY <1>8, OthersCount DEF Insert
  <2>2. EnrollmentTypeOK' /\ JoinsProgress'
      BY <1>8, <2>0 DEF IInv, Insert, EnrollmentTypeOK, Phases, JoinsProgress
  \* the UNIQUE constraint
  <2>3. UniqueAddresses'
    <3>1. \A e \in Enrolled : ip[e] # vip[d]
        BY <1>8 DEF Insert, Insertable, UsedIPs
    <3> QED
        BY <1>8, <3>1, <2>0 DEF IInv, Insert, EnrollmentTypeOK, UniqueAddresses, Enrolled
  <2>4. DevicesHaveOwners'
      BY <1>8, <2>0 DEF IInv, Insert, Insertable, EnrollmentTypeOK, DevicesHaveOwners, Enrolled
  <2>5. ChoicesLegal'
      BY <1>8, <2>0 DEF IInv, Insert, EnrollmentTypeOK, ChoicesLegal
  <2> QED
      BY <2>1, <2>2, <2>3, <2>4, <2>5 DEF IInv
<1>9. ASSUME NEW d \in Devices, NEW a \in Net, SetDeviceVirtualIP(d, a) PROVE IInv'
  <2>1. UsesCounted'
      BY <1>9, OthersCount DEF SetDeviceVirtualIP
  <2>2. EnrollmentTypeOK' /\ JoinsProgress'
      BY <1>9 DEF IInv, SetDeviceVirtualIP, EnrollmentTypeOK, JoinsProgress
  <2>3. UniqueAddresses'
      BY <1>9 DEF IInv, SetDeviceVirtualIP, EnrollmentTypeOK, UniqueAddresses, Enrolled
  <2>4. DevicesHaveOwners' /\ ChoicesLegal'
      BY <1>9 DEF IInv, SetDeviceVirtualIP, EnrollmentTypeOK, DevicesHaveOwners, ChoicesLegal, Legal,
                  Enrolled
  <2> QED
      BY <2>1, <2>2, <2>3, <2>4 DEF IInv
<1>10. CASE UNCHANGED enrollmentVars
  <2>1. UsesCounted'
      BY <1>10, OthersCount DEF enrollmentVars
  <2>2. EnrollmentTypeOK' /\ JoinsProgress' /\ UniqueAddresses' /\ DevicesHaveOwners' /\ ChoicesLegal'
      BY <1>10 DEF IInv, enrollmentVars, EnrollmentTypeOK, JoinsProgress, UniqueAddresses, DevicesHaveOwners,
                   ChoicesLegal, Enrolled
  <2> QED
      BY <2>1, <2>2 DEF IInv
<1> QED
    BY <1>1, <1>2, <1>3, <1>4, <1>5, <1>6, <1>7, <1>8, <1>9, <1>10 DEF EnrollmentNext

-----------------------------------------------------------------------------
\* The inductive invariant holds in every reachable state.
THEOREM Invariance == EnrollmentSpec => []IInv
  BY InitIInv, NextIInv, PTL DEF EnrollmentSpec

\* Type correctness of the store's tables and of every join.
THEOREM TypeCorrect == EnrollmentSpec => []EnrollmentTypeOK
<1>1. IInv => EnrollmentTypeOK
    BY DEF IInv
<1> QED
    BY <1>1, Invariance, PTL

\* Two devices never share an address, whatever interleaves between nextIP
\* and the INSERT of JoinDevice.
THEOREM AddressesUnique == EnrollmentSpec => []UniqueAddresses
<1>1. IInv => UniqueAddresses
    BY DEF IInv
<1> QED
    BY <1>1, Invariance, PTL

\* A device's user exists, whatever interleaves between the count and the
\* transaction of DeleteUser.
THEOREM OwnersExist == EnrollmentSpec => []DevicesHaveOwners
<1>1. IInv => DevicesHaveOwners
    BY DEF IInv
<1> QED
    BY <1>1, Invariance, PTL

\* ConsumeToken admits no more than max_uses devices with one token.
THEOREM TokenAdmitsNoMore == EnrollmentSpec => []TokenLimit
<1>1. IInv => TokenLimit
  <2> SUFFICES ASSUME IInv, NEW t \in Tokens
               PROVE  Cardinality({d \in Enrolled : token[d] = t}) <= MaxUses[t]
      BY DEF TokenLimit
  <2> DEFINE S == {d \in Enrolled : token[d] = t}
  <2>1. S \subseteq Joins(t) /\ Joins(t) \subseteq Devices
      BY DEF Joins, Enrolled
  <2>2. IsFiniteSet(Joins(t))
      BY <2>1, FS_Subset, EnrollmentAssumption
  <2>3. /\ Cardinality(S) <= Cardinality(Joins(t)) /\ IsFiniteSet(S)
      BY <2>1, <2>2, FS_Subset
  <2>4. Cardinality(S) \in Nat /\ Cardinality(Joins(t)) \in Nat
      BY <2>2, <2>3, FS_CardinalityType
  <2>5. Cardinality(Joins(t)) <= MaxUses[t] /\ MaxUses[t] \in Nat
      BY EnrollmentAssumption DEF IInv, UsesCounted
  <2> QED
      BY <2>3, <2>4, <2>5
<1> QED
    BY <1>1, Invariance, PTL

\* In the networks the installer writes no device has the network's, the
\* server's or the broadcast address.
THEOREM InstalledAddressesLegal == EnrollmentSpec => [](InstalledNetwork => AddressesLegal)
<1>1. IInv => (InstalledNetwork => AddressesLegal)
    BY DEF IInv, ChoicesLegal, AddressesLegal, Legal, Enrolled
<1> QED
    BY <1>1, Invariance, PTL

\* nextIP withholds no address: in an installed network that its loop can scan
\* to the end, a join fails for lack of addresses only when all are taken.
THEOREM NoAddressWithheld ==
    EnrollmentSpec => [](InstalledNetwork /\ NetSize <= MaxScan + 2 => ExhaustedMeansFull)
<1>1. InstalledNetwork /\ NetSize <= MaxScan + 2 => ExhaustedMeansFull
  <2> SUFFICES ASSUME InstalledNetwork, NetSize <= MaxScan + 2,
                      NEW a \in Net \ {NetworkIP, ServerIP, Broadcast},
                      a \notin UsedIPs, a % OctetSize # OctetSize - 1
               PROVE  a \in Candidates(UsedIPs)
      BY DEF ExhaustedMeansFull
  <2>1. /\ a \in Nat /\ a >= NetworkIP + 2 /\ a < NetworkIP + NetSize
        /\ ConfiguredIP = NetworkIP
      BY EnrollmentAssumption DEF InstalledNetwork, Net, Broadcast
  <2>2. a >= ConfiguredIP + 2 /\ a < ConfiguredIP + 2 + MaxScan
      BY <2>1, EnrollmentAssumption
  <2> QED
      BY <2>2 DEF Candidates
<1> QED
    BY <1>1, PTL
=============================================================================
