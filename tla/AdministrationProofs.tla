------------------------ MODULE AdministrationProofs ------------------------
(***************************************************************************)
(* Proofs about what administrators do: the accounts (Accounts, for any    *)
(* number of accounts, sessions, logins and password resets) and the       *)
(* server's settings (ServerSettings, for any numbers of ports, intervals  *)
(* and concurrent requests).  The two share no state.                      *)
(*                                                                         *)
(* Accounts: everything holds for any number of requests.  What a password *)
(* reset spares is counted twice, as logins that will insert their session *)
(* and as sessions: a login moves from one count to the other, and a reset *)
(* starts both anew.                                                       *)
(*                                                                         *)
(* ServerSettings: the file stays loadable because every pair a request    *)
(* carries from its validation to its save is valid as a whole, and        *)
(* because what is saved beside it is the file itself: persistedConfig     *)
(* never drifts from the file while the process runs.  The ping interval   *)
(* is followed through the two writes of each request.                     *)
(***************************************************************************)
EXTENDS Accounts, ServerSettings, FiniteSetTheorems, TLAPS

-----------------------------------------------------------------------------
(* Accounts.                                                               *)

SessionInv == AccountsTypeOK /\ SessionsHaveUsers

\* The logins of u under way that verified an older password.
OldLogins(u) == {l \in Logins : login[l] = u /\ knew[l] # pw[u]}

\* Those that the last reset has overtaken either have their session already
\* or are still to insert it.
SparedInv ==
    \A u \in Users : Cardinality(Outdated(u)) + Cardinality(OldLogins(u)) <= spared[u]

SetupInv == OneSetupAccount /\ \A u \in installed : account[u].state # "none"

-----------------------------------------------------------------------------
\* A new account is well typed and touches no other one.
LEMMA NewAccountType ==
    ASSUME AccountsTypeOK, NEW u \in Users, NEW role \in Roles, NewAccount(u, role)
    PROVE  /\ account' \in [Users -> [state : {"none", "live", "gone"}, role : Roles, disabled : BOOLEAN]]
           /\ Existing' = Existing \union {u}
           /\ role = "admin" => u \in Admins'
           /\ \A a \in Admins : a \in Admins'
BY DEF AccountsTypeOK, NewAccount, Existing, Enabled, Admins, Roles

\* Ending sessions leaves the other ones alone.
LEMMA EndSessionsType ==
    ASSUME AccountsTypeOK, NEW ended, EndSessions(ended)
    PROVE  /\ owner' \in [Sessions -> Users \union {Nobody}]
           /\ born' \in [Sessions -> Nat]
           /\ \A s \in Sessions : owner'[s] # Nobody => /\ owner'[s] = owner[s] /\ s \notin ended
                                                       /\ born'[s] = born[s]
BY AccountsAssumption DEF AccountsTypeOK, EndSessions

\* Logins stay typed when one has verified its account or is over.
LEMMA LoginType ==
    ASSUME AccountsTypeOK, NEW l \in Logins,
           LoginEnds(l) \/ \E u \in Users : Verified(l, u)
    PROVE  login' \in [Logins -> Users \union {Nobody}] /\ knew' \in [Logins -> Nat]
BY DEF AccountsTypeOK, LoginEnds, Verified

\* Every step keeps the sessions' invariant.
LEMMA SessionStep == SessionInv /\ [AccountsNext]_accountVars => SessionInv'
<1> SUFFICES ASSUME SessionInv, [AccountsNext]_accountVars PROVE SessionInv'
    OBVIOUS
<1> USE AccountsAssumption DEF SessionInv, signInHistory
<1> "admin" \in Roles BY DEF Roles
<1>1. ASSUME NEW u \in Users, CreateAdmin(u) PROVE SessionInv'
    BY <1>1, NewAccountType DEF CreateAdmin, AccountsTypeOK, SessionsHaveUsers
<1>2. ASSUME NEW l \in Logins, NEW u \in Users, CreateInitialAdmin(l, u) PROVE SessionInv'
    <2>1. AccountsTypeOK'
        BY <1>2, NewAccountType, LoginType DEF CreateInitialAdmin, AccountsTypeOK
    <2>2. SessionsHaveUsers' BY <1>2, NewAccountType DEF CreateInitialAdmin, SessionsHaveUsers
    <2> QED BY <2>1, <2>2
<1>3. ASSUME NEW l \in Logins, NEW u \in Users, Authenticate(l, u) PROVE SessionInv'
    BY <1>3, LoginType DEF Authenticate, AccountsTypeOK, SessionsHaveUsers, Existing
<1>4. ASSUME NEW l \in Logins, NEW s \in Sessions, CreateSession(l, s) PROVE SessionInv'
    <2>1. AccountsTypeOK' BY <1>4, LoginType DEF CreateSession, AccountsTypeOK, Existing
    <2>2. SessionsHaveUsers' BY <1>4 DEF CreateSession, SessionsHaveUsers, Existing, AccountsTypeOK
    <2> QED BY <2>1, <2>2
<1>5. ASSUME NEW l \in Logins, LoginFails(l) PROVE SessionInv'
    BY <1>5, LoginType DEF LoginFails, AccountsTypeOK, SessionsHaveUsers, Existing
<1>6. ASSUME NEW s \in Sessions, DeleteSession(s) PROVE SessionInv'
    <2>1. AccountsTypeOK' BY <1>6, EndSessionsType DEF DeleteSession, AccountsTypeOK
    <2>2. SessionsHaveUsers'
        BY <1>6, EndSessionsType DEF DeleteSession, SessionsHaveUsers, Existing
    <2> QED BY <2>1, <2>2
<1>7. ASSUME NEW r \in AdminRequests, NEW s \in Sessions, Authorize(r, s) PROVE SessionInv'
    BY <1>7 DEF Authorize, AccountsTypeOK, SessionsHaveUsers, Existing, Admins, Enabled
<1>8. ASSUME NEW r \in AdminRequests, NEW u \in Users, NEW role \in Roles, CreateUser(r, u, role)
      PROVE SessionInv'
    <2>1. AccountsTypeOK' BY <1>8, NewAccountType DEF CreateUser, Returns, AccountsTypeOK
    <2>2. SessionsHaveUsers' BY <1>8, NewAccountType DEF CreateUser, SessionsHaveUsers
    <2> QED BY <2>1, <2>2
<1>9. ASSUME NEW r \in AdminRequests, NEW u \in Users, DeleteUser(r, u) PROVE SessionInv'
    <2>1. EndSessions({s \in Sessions : owner[s] = u}) BY <1>9 DEF DeleteUser, SignOut
    <2>2. AccountsTypeOK'
        BY <1>9, <2>1, EndSessionsType DEF DeleteUser, Returns, AccountsTypeOK, Gone, Roles
    <2>3. SessionsHaveUsers'
        BY <1>9, <2>1, EndSessionsType DEF DeleteUser, SessionsHaveUsers, Existing, AccountsTypeOK
    <2> QED BY <2>2, <2>3
<1>10. ASSUME NEW r \in AdminRequests, NEW u \in Users, NEW d \in BOOLEAN, NEW role \in Roles,
              UpdateUser(r, u, d, role)
       PROVE SessionInv'
    <2>0. account' \in [Users -> [state : {"none", "live", "gone"}, role : Roles, disabled : BOOLEAN]]
        <3> DEFINE Rows == [state : {"none", "live", "gone"}, role : Roles, disabled : BOOLEAN]
        <3>1. account[u] \in Rows BY DEF AccountsTypeOK
        <3>2. [account[u] EXCEPT !.disabled = d, !.role = role] \in Rows BY <3>1
        <3>3. account' = [account EXCEPT ![u] = [account[u] EXCEPT !.disabled = d, !.role = role]]
            BY <1>10 DEF UpdateUser, AccountsTypeOK
        <3> QED BY <3>2, <3>3 DEF AccountsTypeOK
    <2>1. AccountsTypeOK' BY <1>10, <2>0 DEF UpdateUser, Returns, AccountsTypeOK
    <2>2. SessionsHaveUsers' BY <1>10 DEF UpdateUser, SessionsHaveUsers, Existing, AccountsTypeOK
    <2> QED BY <2>1, <2>2
<1>11. ASSUME NEW r \in AdminRequests, NEW u \in Users, UpdateUserPassword(r, u) PROVE SessionInv'
    <2>1. EndSessions({s \in Sessions : owner[s] = u}) BY <1>11 DEF UpdateUserPassword, SignOut
    <2>2. Cardinality(UnderWay(u)) \in Nat
        BY FS_Subset, FS_CardinalityType DEF UnderWay
    <2>3. AccountsTypeOK'
        BY <1>11, <2>1, <2>2, EndSessionsType DEF UpdateUserPassword, Returns, AccountsTypeOK
    <2>4. SessionsHaveUsers'
        BY <1>11, <2>1, EndSessionsType DEF UpdateUserPassword, SessionsHaveUsers, Existing
    <2> QED BY <2>3, <2>4
<1>12. ASSUME NEW r \in AdminRequests, Refused(r) PROVE SessionInv'
    BY <1>12 DEF Refused, Returns, AccountsTypeOK, SessionsHaveUsers, Existing
<1>13. CASE UNCHANGED accountVars
    BY <1>13 DEF accountVars, AccountsTypeOK, SessionsHaveUsers, Existing
<1> QED
    BY <1>1, <1>2, <1>3, <1>4, <1>5, <1>6, <1>7, <1>8, <1>9, <1>10, <1>11, <1>12, <1>13
    DEF AccountsNext, SetUp, LogIn, Administer

LEMMA SessionInvariance == AccountsSpec => []SessionInv
<1>1. AccountsInit => SessionInv
    BY AccountsAssumption
    DEF AccountsInit, SessionInv, AccountsTypeOK, SessionsHaveUsers, NoAccount, Roles
<1> QED BY <1>1, SessionStep, PTL DEF AccountsSpec

\* The tables, logins and requests keep their types.
THEOREM TypeCorrect == AccountsSpec => []AccountsTypeOK
<1>1. SessionInv => AccountsTypeOK BY DEF SessionInv
<1> QED BY <1>1, SessionInvariance, PTL

\* Whatever logins, deletions and requests interleave, in any number, no
\* session is left without its account (CreateSession, DeleteUser).
THEOREM NoOrphanSessions == AccountsSpec => []SessionsHaveUsers
<1>1. SessionInv => SessionsHaveUsers BY DEF SessionInv
<1> QED BY <1>1, SessionInvariance, PTL

-----------------------------------------------------------------------------
(* Password resets.                                                        *)

\* The two sets that SparedInv counts are finite.
LEMMA CountsFinite ==
    ASSUME NEW u
    PROVE  /\ IsFiniteSet(Outdated(u)) /\ Cardinality(Outdated(u)) \in Nat
           /\ IsFiniteSet(OldLogins(u)) /\ Cardinality(OldLogins(u)) \in Nat
BY AccountsAssumption, FS_Subset, FS_CardinalityType DEF Outdated, OldLogins

\* Nothing to count was added.
LEMMA SparedKept ==
    ASSUME AccountsTypeOK, SparedInv, spared' = spared,
           \A u \in Users : Outdated(u)' \subseteq Outdated(u) /\ OldLogins(u)' \subseteq OldLogins(u)
    PROVE  SparedInv'
<1> SUFFICES ASSUME NEW u \in Users
             PROVE  Cardinality(Outdated(u)') + Cardinality(OldLogins(u)') <= spared'[u]
    BY DEF SparedInv
<1>1. /\ Cardinality(Outdated(u)') \in Nat
      /\ Cardinality(Outdated(u)') <= Cardinality(Outdated(u))
    BY CountsFinite, FS_Subset, FS_CardinalityType
<1>2. /\ Cardinality(OldLogins(u)') \in Nat
      /\ Cardinality(OldLogins(u)') <= Cardinality(OldLogins(u))
    BY CountsFinite, FS_Subset, FS_CardinalityType
<1>3. Cardinality(Outdated(u)) + Cardinality(OldLogins(u)) <= spared[u]
    BY DEF SparedInv
<1> QED BY <1>1, <1>2, <1>3, CountsFinite DEF AccountsTypeOK

\* A login that inserts its session moves from one count to the other.
LEMMA SparedMoves ==
    ASSUME AccountsTypeOK, SparedInv, NEW l \in Logins, NEW s \in Sessions, CreateSession(l, s)
    PROVE  SparedInv'
<1> DEFINE v == login[l]
<1>0. v \in Users /\ owner[s] = Nobody /\ Nobody \notin Users
    BY AccountsAssumption DEF CreateSession, Existing
<1>1. CASE knew[l] = pw[v]
    <2>1. \A u \in Users : /\ Outdated(u)' \subseteq Outdated(u)
                           /\ OldLogins(u)' \subseteq OldLogins(u)
        BY <1>0, <1>1 DEF CreateSession, LoginEnds, AccountsTypeOK, Outdated, OldLogins
    <2> QED BY <2>1, SparedKept DEF CreateSession
<1>2. CASE knew[l] # pw[v]
    <2> SUFFICES ASSUME NEW u \in Users
                 PROVE  Cardinality(Outdated(u)') + Cardinality(OldLogins(u)') <= spared'[u]
        BY DEF SparedInv
    <2>1. CASE u = v
        <3>1. Outdated(u)' = Outdated(u) \union {s} /\ s \notin Outdated(u)
            BY <1>0, <1>2, <2>1 DEF CreateSession, AccountsTypeOK, Outdated
        <3>2. OldLogins(u)' = OldLogins(u) \ {l} /\ l \in OldLogins(u)
            BY <1>0, <1>2, <2>1 DEF CreateSession, LoginEnds, AccountsTypeOK, OldLogins
        <3>3. Cardinality(Outdated(u)') = Cardinality(Outdated(u)) + 1
            BY <3>1, CountsFinite, FS_AddElement
        <3>4. Cardinality(OldLogins(u)') = Cardinality(OldLogins(u)) - 1
            BY <3>2, CountsFinite, FS_RemoveElement
        <3> QED BY <3>3, <3>4, CountsFinite DEF SparedInv, CreateSession, AccountsTypeOK
    <2>2. CASE u # v
        <3>1. Outdated(u)' = Outdated(u) /\ OldLogins(u)' = OldLogins(u)
            BY <1>0, <2>2 DEF CreateSession, LoginEnds, AccountsTypeOK, Outdated, OldLogins
        <3> QED BY <3>1 DEF SparedInv, CreateSession
    <2> QED BY <2>1, <2>2
<1> QED BY <1>1, <1>2

\* A reset starts the counts anew: no session is left, and the logins under
\* way are the ones it spares.
LEMMA SparedReset ==
    ASSUME AccountsTypeOK, SparedInv, NEW r \in AdminRequests, NEW v \in Users,
           UpdateUserPassword(r, v)
    PROVE  SparedInv'
<1> SUFFICES ASSUME NEW u \in Users
             PROVE  Cardinality(Outdated(u)') + Cardinality(OldLogins(u)') <= spared'[u]
    BY DEF SparedInv
<1>1. EndSessions({s \in Sessions : owner[s] = v}) BY DEF UpdateUserPassword, SignOut
<1>2. CASE u = v
    <2>1. Outdated(u)' = {}
        BY <1>1, <1>2, AccountsAssumption, EndSessionsType DEF Outdated
    <2>2. OldLogins(u)' \subseteq UnderWay(u)
        BY <1>2 DEF UpdateUserPassword, OldLogins, UnderWay
    <2>3. IsFiniteSet(UnderWay(u)) /\ Cardinality(UnderWay(u)) \in Nat
        BY AccountsAssumption, FS_Subset, FS_CardinalityType DEF UnderWay
    <2>4. /\ Cardinality(OldLogins(u)') \in Nat
          /\ Cardinality(OldLogins(u)') <= Cardinality(UnderWay(u))
        BY <2>2, <2>3, FS_Subset, FS_CardinalityType
    <2>5. spared'[u] = Cardinality(UnderWay(u))
        BY <1>2 DEF UpdateUserPassword, AccountsTypeOK
    <2> QED BY <2>1, <2>3, <2>4, <2>5, FS_EmptySet
<1>3. CASE u # v
    <2>0. pw'[u] = pw[u]
        BY <1>3 DEF AccountsTypeOK, UpdateUserPassword
    <2>1. Outdated(u)' = Outdated(u)
        BY <1>1, <1>3, <2>0, AccountsAssumption DEF EndSessions, AccountsTypeOK, Outdated
    <2>2. OldLogins(u)' = OldLogins(u)
        BY <2>0 DEF OldLogins, UpdateUserPassword
    <2> QED BY <1>3, <2>1, <2>2 DEF SparedInv, UpdateUserPassword, AccountsTypeOK
<1> QED BY <1>2, <1>3

\* Every step keeps the counts.
LEMMA SparedStep ==
    AccountsTypeOK /\ SparedInv /\ [AccountsNext]_accountVars => SparedInv'
<1> SUFFICES ASSUME AccountsTypeOK, SparedInv, [AccountsNext]_accountVars PROVE SparedInv'
    OBVIOUS
<1> USE AccountsAssumption DEF signInHistory
<1>1. ASSUME UNCHANGED <<pw, owner, login, signInHistory>> PROVE SparedInv'
    BY <1>1, SparedKept DEF Outdated, OldLogins
<1>2. ASSUME NEW l \in Logins, NEW u \in Users,
             CreateInitialAdmin(l, u) \/ Authenticate(l, u)
      PROVE SparedInv'
    BY <1>2, SparedKept
    DEF CreateInitialAdmin, Authenticate, Verified, AccountsTypeOK, Outdated, OldLogins
<1>3. ASSUME NEW l \in Logins, LoginFails(l) PROVE SparedInv'
    BY <1>3, SparedKept DEF LoginFails, LoginEnds, AccountsTypeOK, Outdated, OldLogins
<1>4. ASSUME NEW ended, EndSessions(ended), UNCHANGED <<pw, login, knew, spared>>
      PROVE SparedInv'
    BY <1>4, SparedKept, EndSessionsType DEF Outdated, OldLogins
<1>5. ASSUME NEW s \in Sessions, DeleteSession(s) PROVE SparedInv'
    BY <1>4, <1>5 DEF DeleteSession
<1>6. ASSUME NEW r \in AdminRequests, NEW u \in Users, DeleteUser(r, u) PROVE SparedInv'
    BY <1>4, <1>6 DEF DeleteUser, SignOut
<1>7. ASSUME NEW u \in Users, CreateAdmin(u) PROVE SparedInv'
    BY <1>1, <1>7 DEF CreateAdmin
<1>8. ASSUME NEW r \in AdminRequests,
             \/ \E s \in Sessions : Authorize(r, s)
             \/ \E u \in Users, role \in Roles : CreateUser(r, u, role)
             \/ \E u \in Users, d \in BOOLEAN, role \in Roles : UpdateUser(r, u, d, role)
             \/ Refused(r)
      PROVE SparedInv'
    BY <1>1, <1>8 DEF Authorize, CreateUser, UpdateUser, Refused
<1>9. CASE UNCHANGED accountVars
    BY <1>1, <1>9 DEF accountVars
<1> QED
    BY <1>2, <1>3, <1>5, <1>6, <1>7, <1>8, <1>9, SparedMoves, SparedReset
    DEF AccountsNext, SetUp, LogIn, Administer

\* A password reset leaves no session but those of logins that had verified
\* the old password when it was committed, each at most one, for any number
\* of concurrent logins and resets (UpdateUserPassword, CreateSession).
THEOREM ResetLeavesLoginsUnderWay == AccountsSpec => []ResetSparesLoginsUnderWay
<1>1. AccountsInit => SparedInv
    <2> SUFFICES ASSUME AccountsInit, NEW u \in Users
                 PROVE  Cardinality(Outdated(u)) + Cardinality(OldLogins(u)) <= spared[u]
        BY DEF SparedInv
    <2>1. Outdated(u) = {} /\ OldLogins(u) = {}
        BY AccountsAssumption DEF AccountsInit, Outdated, OldLogins
    <2> QED BY <2>1, FS_EmptySet DEF AccountsInit
<1>2. AccountsTypeOK /\ SparedInv => ResetSparesLoginsUnderWay
    BY CountsFinite DEF SparedInv, ResetSparesLoginsUnderWay, AccountsTypeOK
<1> QED BY <1>1, <1>2, SparedStep, TypeCorrect, PTL DEF AccountsSpec

-----------------------------------------------------------------------------
(* Administrators and the initial setup.                                   *)

\* A request whose requester is still an administrator leaves one: the
\* requester.
LEMMA RequesterStays ==
    ASSUME AccountsTypeOK, NEW r \in AdminRequests, NEW u \in Users, u # req[r],
           req[r] \in Admins, \A v \in Users : v # u => account'[v] = account[v]
    PROVE  Admins' # {}
BY DEF Admins, Enabled, Existing

\* Only a request that outlived its requester's role can remove the last
\* administrator, for any number of concurrent requests (api, self_delete and
\* self_update).
THEOREM LastAdminStays == AccountsSpec => AdminRemains
<1>1. AccountsTypeOK /\ [AccountsNext]_accountVars => [LosesNoAdmin]_accountVars
    <2> SUFFICES ASSUME AccountsTypeOK, AccountsNext, Admins # {} PROVE LosesNoAdmin
        BY DEF LosesNoAdmin
    <2> USE AccountsAssumption DEF LosesNoAdmin
    <2> "admin" \in Roles BY DEF Roles
    <2>1. ASSUME account' = account PROVE LosesNoAdmin
        BY <2>1 DEF Admins, Enabled, Existing
    <2>2. ASSUME NEW u \in Users, NEW role \in Roles, NewAccount(u, role) PROVE LosesNoAdmin
        BY <2>2, NewAccountType
    <2>3. ASSUME NEW r \in AdminRequests, NEW u \in Users, Returns(r), u # req[r],
                 \A v \in Users : v # u => account'[v] = account[v]
          PROVE LosesNoAdmin
        <3>1. req[r] \in Users /\ req'[r] = Nobody
            BY <2>3 DEF Returns, AccountsTypeOK
        <3> QED BY <2>3, <3>1, RequesterStays
    <2>4. ASSUME NEW r \in AdminRequests, NEW u \in Users, DeleteUser(r, u) PROVE LosesNoAdmin
        BY <2>3, <2>4 DEF DeleteUser, AccountsTypeOK
    <2>5. ASSUME NEW r \in AdminRequests, NEW u \in Users, NEW d \in BOOLEAN, NEW role \in Roles,
                 UpdateUser(r, u, d, role)
          PROVE LosesNoAdmin
        BY <2>3, <2>5 DEF UpdateUser, AccountsTypeOK
    <2>6. ASSUME NEW l \in Logins,
                 \/ \E u \in Users : Authenticate(l, u)
                 \/ \E s \in Sessions : CreateSession(l, s)
                 \/ LoginFails(l)
          PROVE LosesNoAdmin
        BY <2>1, <2>6 DEF Authenticate, CreateSession, LoginFails
    <2> QED
        BY <2>1, <2>2, <2>4, <2>5, <2>6
        DEF AccountsNext, SetUp, LogIn, Administer, CreateAdmin, CreateInitialAdmin, DeleteSession,
            Authorize, CreateUser, UpdateUserPassword, Refused
<1> QED BY <1>1, TypeCorrect, PTL DEF AccountsSpec, AdminRemains

\* Every step keeps the accounts of the initial setup apart.
LEMMA SetupStep == AccountsTypeOK /\ SetupInv /\ [AccountsNext]_accountVars => SetupInv'
<1> SUFFICES ASSUME AccountsTypeOK, SetupInv, [AccountsNext]_accountVars PROVE SetupInv'
    OBVIOUS
<1> USE DEF SetupInv, OneSetupAccount, signInHistory
<1> "admin" \in Roles BY DEF Roles
<1>1. ASSUME account' = account, installed' = installed PROVE SetupInv'
    BY <1>1 DEF Existing
<1>2. ASSUME NEW u \in Users, NEW role \in Roles, NewAccount(u, role), installed' = installed
      PROVE SetupInv'
    <2>1. Existing' = Existing \union {u} BY <1>2, NewAccountType
    <2>2. u \notin installed BY <1>2 DEF NewAccount
    <2>3. \A v \in installed : account'[v] = account[v]
        BY <1>2, <2>2 DEF NewAccount, AccountsTypeOK
    <2> QED BY <1>2, <2>1, <2>2, <2>3
<1>3. ASSUME NEW l \in Logins, NEW u \in Users, CreateInitialAdmin(l, u) PROVE SetupInv'
    <2>1. Existing = {} /\ NewAccount(u, "admin") /\ installed' = installed \union {u}
        BY <1>3 DEF CreateInitialAdmin
    <2>2. Existing' = {u} BY <2>1, NewAccountType
    <2>3. \A v \in installed' : account'[v].state # "none"
        BY <2>1 DEF NewAccount, AccountsTypeOK
    <2> QED BY <2>2, <2>3
<1>4. ASSUME NEW r \in AdminRequests, NEW u \in Users, DeleteUser(r, u) PROVE SetupInv'
    <2>1. account' = [account EXCEPT ![u] = Gone] /\ installed' = installed
        BY <1>4 DEF DeleteUser
    <2>2. Existing' \subseteq Existing BY <2>1 DEF Existing, Gone, AccountsTypeOK
    <2>3. \A v \in installed : account'[v].state # "none"
        BY <2>1 DEF Gone, AccountsTypeOK
    <2> QED BY <2>1, <2>2, <2>3
<1>5. ASSUME NEW r \in AdminRequests, NEW u \in Users, NEW d \in BOOLEAN, NEW role \in Roles,
             UpdateUser(r, u, d, role)
      PROVE SetupInv'
    BY <1>5 DEF UpdateUser, Existing, AccountsTypeOK
<1>6. ASSUME NEW l \in Logins,
             \/ \E u \in Users : Authenticate(l, u)
             \/ \E s \in Sessions : CreateSession(l, s)
             \/ LoginFails(l)
      PROVE SetupInv'
    BY <1>1, <1>6 DEF Authenticate, CreateSession, LoginFails
<1>7. ASSUME NEW r \in AdminRequests,
             \/ \E s \in Sessions : Authorize(r, s)
             \/ \E u \in Users : UpdateUserPassword(r, u)
             \/ Refused(r)
      PROVE SetupInv'
    BY <1>1, <1>7 DEF Authorize, UpdateUserPassword, Refused
<1>8. ASSUME NEW s \in Sessions, DeleteSession(s) PROVE SetupInv'
    BY <1>1, <1>8 DEF DeleteSession
<1>9. CASE UNCHANGED accountVars
    BY <1>1, <1>9 DEF accountVars
<1> QED
    BY <1>2, <1>3, <1>4, <1>5, <1>6, <1>7, <1>8, <1>9
    DEF AccountsNext, SetUp, LogIn, Administer, CreateAdmin, CreateUser

\* No two accounts of the initial setup exist together, for any number of
\* concurrent setups and requests (CreateInitialAdmin).
THEOREM SetupAccountAlone == AccountsSpec => []OneSetupAccount
<1>1. AccountsInit => SetupInv
    BY DEF AccountsInit, SetupInv, OneSetupAccount
<1>2. SetupInv => OneSetupAccount
    BY DEF SetupInv
<1> QED BY <1>1, <1>2, SetupStep, TypeCorrect, PTL DEF AccountsSpec

-----------------------------------------------------------------------------
(* ServerSettings.                                                         *)

\* A pair that was validated is still valid when it is saved.
PairsValid ==
    \A r \in Requests :
        pc[r] \in {"validated", "saving"} => pair[r] \in Pairs /\ ValidPair(pair[r])

\* Memory and file agree in every state of the running process.
MemoryIsFile == up => ports = PortsOf(file) /\ persisted = file

IInv == TypeOK /\ FileLoadable /\ PairsValid /\ MemoryIsFile

\* The ports of a configuration are a pair.
LEMMA PortsOfConfig == \A c \in Configs : PortsOf(c) \in Pairs
  BY DEF Configs, PortsOf, Pairs

\* A configuration with other ports is a configuration with the same rest; it
\* is valid when the old one was and the pair is.
LEMMA UpdatedFacts ==
    ASSUME IInv, NEW r \in Requests, pc[r] = "saving", up
    PROVE  /\ Updated(r) \in Configs
           /\ Valid(Updated(r))
           /\ \A field \in {"listen", "insecure", "remoteSetup"} :
                 Updated(r)[field] = file[field]
  <1>1. persisted = file /\ file \in Configs /\ Valid(file)
    BY DEF IInv, TypeOK, FileLoadable, MemoryIsFile
  <1>2. pair[r] \in Pairs /\ ValidPair(pair[r])
    BY DEF IInv, PairsValid
  <1> QED BY <1>1, <1>2 DEF Updated, Configs, Valid, ValidPair, Pairs

\* The server before its first start satisfies the invariant.
LEMMA InitInv == Init => IInv
  <1> SUFFICES ASSUME Init PROVE IInv
    OBVIOUS
  <1>1. TypeOK
    BY PortsOfConfig, FileIntervalAssumption
    DEF Init, TypeOK, Bodies, NoBody, PortFields
  <1> QED BY <1>1 DEF Init, IInv, FileLoadable, PairsValid, MemoryIsFile

\* The end of the process leaves what is on disk and nothing else.
LEMMA EndsInv ==
    ASSUME IInv, NEW c \in Configs, Valid(c), Ends(c)
    PROVE  IInv'
  <1>1. TypeOK'
    BY PortsOfConfig, FileIntervalAssumption
    DEF IInv, TypeOK, Ends, Bodies, NoBody, PortFields
  <1> QED BY <1>1 DEF IInv, Ends, FileLoadable, PairsValid, MemoryIsFile

\* An answer ends a request and touches no other.
LEMMA AnswerInv ==
    ASSUME IInv, NEW r \in Requests, Answer(r),
           UNCHANGED <<file, storedPing, up, persisted, ports>>,
           ping' \in Intervals, portsMu' \in Requests \cup {None},
           crossed' \subseteq Requests, clash' \in BOOLEAN
    PROVE  IInv'
  <1>1. TypeOK'
    BY DEF IInv, TypeOK, Answer, Goto, Bodies, NoBody, PortFields
  <1>2. PairsValid'
    BY DEF IInv, TypeOK, PairsValid, Answer, Goto, ValidPair
  <1> QED BY <1>1, <1>2 DEF IInv, FileLoadable, MemoryIsFile, Valid

\* A process that is down has no request under way.
Quiet == ~up => \A r \in Requests : pc[r] = "idle"

\* Requests end with the process.
LEMMA QuietInv ==
    ASSUME TypeOK, Quiet, [Next]_vars
    PROVE  Quiet'
  <1>1. CASE UNCHANGED vars
    BY <1>1 DEF Quiet, vars, processVars, requestVars
  <1>2. CASE \E mode \in {"config", "local", "lan"} : Start(mode)
    BY <1>2 DEF Start, Quiet
  <1>3. CASE Stop
    BY <1>3 DEF Stop, Ends, Quiet
  <1>4. ASSUME NEW r \in Requests, StopAfterRename(r)
        PROVE  Quiet'
    BY <1>4 DEF StopAfterRename, Ends, Quiet
  <1>5. ASSUME NEW r \in Requests, NEW body \in Bodies, BeginPorts(r, body)
        PROVE  Quiet'
    BY <1>5 DEF BeginPorts, processVars, Quiet
  <1>6. ASSUME NEW r \in Requests, NEW interval \in Intervals, BeginPing(r, interval)
        PROVE  Quiet'
    BY <1>6 DEF BeginPing, processVars, Quiet
  <1>7. ASSUME NEW r \in Requests, RequestStep(r)
        PROVE  Quiet'
    <2>1. pc[r] # "idle"
      BY <1>7 DEF RequestStep, SaveBegins, SaveRenames, SaveFails, StoreSettings,
                  StoreFails, ApplySettings
    <2>2. up' = up
      BY <1>7 DEF RequestStep, SaveBegins, SaveRenames, SaveFails, StoreSettings,
                  StoreFails, ApplySettings, processVars
    <2> QED BY <2>1, <2>2 DEF Quiet
  <1> QED BY <1>1, <1>2, <1>3, <1>4, <1>5, <1>6, <1>7 DEF Next

\* No step of a request or of the process breaks the invariant.
LEMMA NextInv ==
    ASSUME IInv, Quiet, [Next]_vars
    PROVE  IInv'
  <1> USE DEF Goto, pingHistory
  <1>1. CASE UNCHANGED vars
    BY <1>1 DEF vars, diskVars, processVars, requestVars, IInv, TypeOK, FileLoadable,
                Valid, PairsValid, ValidPair, MemoryIsFile, PortsOf
  <1>2. ASSUME NEW mode \in {"config", "local", "lan"}, Start(mode)
        PROVE  IInv'
    <2>1. TypeOK'
      BY <1>2, PortsOfConfig, FileIntervalAssumption
      DEF Start, IInv, TypeOK, LoadedPing, Persisted, diskVars, requestVars
    <2> QED BY <1>2, <2>1
        DEF Start, IInv, FileLoadable, Valid, PairsValid, ValidPair, MemoryIsFile,
            PortsOf, Persisted, diskVars, requestVars
  <1>3. CASE Stop
    BY <1>3, EndsInv DEF Stop, LeftOnDisk, IInv, TypeOK, FileLoadable
  <1>4. ASSUME NEW r \in Requests, StopAfterRename(r)
        PROVE  IInv'
    <2>1. up
      BY <1>4 DEF Quiet, StopAfterRename
    <2> QED BY <1>4, <2>1, UpdatedFacts, EndsInv DEF StopAfterRename
  <1>5. ASSUME NEW r \in Requests, NEW body \in Bodies, BeginPorts(r, body)
        PROVE  IInv'
    <2>1. Merged(body) \in Pairs
      BY <1>5 DEF IInv, TypeOK, Bodies, PortFields, Merged, Pairs
    <2>2. TypeOK'
      BY <1>5, <2>1 DEF BeginPorts, IInv, TypeOK, diskVars, processVars
    <2>3. PairsValid'
      BY <1>5, <2>1 DEF BeginPorts, IInv, TypeOK, PairsValid, ValidPair
    <2> QED BY <1>5, <2>2, <2>3
        DEF BeginPorts, IInv, FileLoadable, Valid, MemoryIsFile, PortsOf, diskVars,
            processVars
  <1>6. ASSUME NEW r \in Requests, NEW interval \in Intervals, BeginPing(r, interval)
        PROVE  IInv'
    <2>1. TypeOK'
      BY <1>6 DEF BeginPing, IInv, TypeOK, Bodies, NoBody, PortFields, diskVars,
                  processVars
    <2>2. PairsValid'
      BY <1>6 DEF BeginPing, IInv, TypeOK, PairsValid, ValidPair
    <2> QED BY <1>6, <2>1, <2>2
        DEF BeginPing, IInv, FileLoadable, Valid, MemoryIsFile, PortsOf, diskVars,
            processVars
  <1>7. ASSUME NEW r \in Requests, SaveBegins(r)
        PROVE  IInv'
    <2>1. TypeOK'
      BY <1>7 DEF SaveBegins, IInv, TypeOK, diskVars, processVars
    <2>2. PairsValid'
      BY <1>7 DEF SaveBegins, IInv, TypeOK, PairsValid, ValidPair
    <2> QED BY <1>7, <2>1, <2>2
        DEF SaveBegins, IInv, FileLoadable, Valid, MemoryIsFile, PortsOf, diskVars,
            processVars
  <1>8. ASSUME NEW r \in Requests, SaveRenames(r)
        PROVE  IInv'
    <2>1. up
      BY <1>8 DEF Quiet, SaveRenames
    <2>2. Updated(r) \in Configs /\ Valid(Updated(r)) /\ PortsOf(Updated(r)) \in Pairs
      BY <1>8, <2>1, UpdatedFacts, PortsOfConfig DEF SaveRenames
    <2>3. TypeOK'
      BY <1>8, <2>2 DEF SaveRenames, IInv, TypeOK
    <2>4. PairsValid'
      BY <1>8 DEF SaveRenames, IInv, TypeOK, PairsValid, ValidPair
    <2>5. FileLoadable' /\ MemoryIsFile'
      BY <1>8, <2>2 DEF SaveRenames, FileLoadable, MemoryIsFile
    <2> QED BY <2>3, <2>4, <2>5 DEF IInv
  <1>9. ASSUME NEW r \in Requests, SaveFails(r)
        PROVE  IInv'
    BY <1>9, AnswerInv, NoneAssumption
    DEF SaveFails, PortsAfterFailure, diskVars, IInv, TypeOK
  <1>10. ASSUME NEW r \in Requests, StoreSettings(r)
        PROVE  IInv'
    <2>1. TypeOK'
      BY <1>10 DEF StoreSettings, IInv, TypeOK, Bodies, processVars, Applying
    <2>2. PairsValid'
      BY <1>10 DEF StoreSettings, IInv, TypeOK, PairsValid, ValidPair
    <2> QED BY <1>10, <2>1, <2>2
        DEF StoreSettings, IInv, FileLoadable, Valid, MemoryIsFile, PortsOf, processVars
  <1>11. ASSUME NEW r \in Requests, StoreFails(r)
        PROVE  IInv'
    BY <1>11, AnswerInv DEF StoreFails, diskVars, processVars, IInv, TypeOK
  <1>12. ASSUME NEW r \in Requests, ApplySettings(r)
        PROVE  IInv'
    <2>1. ping' \in Intervals /\ crossed' \subseteq Requests
      BY <1>12 DEF ApplySettings, IInv, TypeOK, Bodies
    <2>2. clash' = clash \/ clash' = (r \in crossed)
      BY <1>12 DEF ApplySettings
    <2>3. clash' \in BOOLEAN
      <3>1. (r \in crossed) \in BOOLEAN
        OBVIOUS
      <3>2. clash \in BOOLEAN
        BY DEF IInv, TypeOK
      <3> QED BY <2>2, <3>1, <3>2, Zenon
    <2> QED BY <1>12, <2>1, <2>3, AnswerInv DEF ApplySettings, diskVars, IInv, TypeOK
  <1> QED BY <1>1, <1>2, <1>3, <1>4, <1>5, <1>6, <1>7, <1>8, <1>9, <1>10, <1>11, <1>12
      DEF Next, RequestStep

\* The invariant holds in every reachable state.
THEOREM Invariance == Spec => [](IInv /\ Quiet)
  <1>1. Init => IInv /\ Quiet
    BY InitInv DEF Init, Quiet
  <1>2. IInv /\ Quiet /\ [Next]_vars => IInv' /\ Quiet'
    BY NextInv, QuietInv DEF IInv
  <1> QED BY <1>1, <1>2, PTL DEF Spec

\* Whatever ends the process and however requests overlap, server.yaml can be
\* loaded at the next start (SaveServer, updatePorts).
THEOREM FileAlwaysLoadable == Spec => []FileLoadable
  <1>1. IInv => FileLoadable
    BY DEF IInv
  <1> QED BY <1>1, Invariance, PTL

\* The ports the settings page shows are those of the file, also after a save
\* that failed (updatePorts, serverSettings).
THEOREM ShownPortsAreSaved == Spec => []PortsShownAreSaved
  <1>1. IInv => PortsShownAreSaved
    BY DEF IInv, MemoryIsFile, PortsShownAreSaved
  <1> QED BY <1>1, Invariance, PTL

\* Saving ports changes no other field of the file, whatever flags the server
\* was started with (runServer's persistedConfig).
THEOREM FlagsAreNotSaved == Spec => OverridesNotSaved
  <1>1. IInv /\ Quiet /\ [Next]_vars =>
          [\A field \in {"listen", "insecure", "remoteSetup"} :
              file'[field] = file[field]]_vars
    <2> SUFFICES ASSUME IInv, Quiet, Next,
                        NEW field \in {"listen", "insecure", "remoteSetup"}
                 PROVE  file'[field] = file[field]
      OBVIOUS
    <2>1. CASE file' = file
      BY <2>1
    <2>2. ASSUME NEW r \in Requests, pc[r] = "saving", file' = Updated(r)
          PROVE  file'[field] = file[field]
      <3>1. up
        BY <2>2 DEF Quiet
      <3> QED BY <2>2, <3>1, UpdatedFacts
    <2>3. \/ file' = file
          \/ \E r \in Requests : pc[r] = "saving" /\ file' = Updated(r)
      BY DEF Next, Start, Stop, LeftOnDisk, StopAfterRename, Ends, BeginPorts, BeginPing,
             RequestStep, SaveBegins, SaveRenames, SaveFails, StoreSettings, StoreFails,
             ApplySettings, diskVars
    <2> QED BY <2>1, <2>2, <2>3
  <1> QED BY <1>1, Invariance, PTL DEF Spec, OverridesNotSaved

-----------------------------------------------------------------------------
(* The ping interval.                                                      *)

\* A request that has met no other between its two writes is the only one
\* there, and the store holds its interval.
PingInv ==
    /\ crossed \subseteq Applying
    /\ \A r \in Applying \ crossed : Applying = {r} /\ storedPing = want[r].ping
    /\ PingSurvivesRestart

\* Steps that neither write an interval nor begin or end the process.
LEMMA PingKept ==
    ASSUME PingInv, Applying' = Applying, \A r \in Applying : want'[r] = want[r],
           UNCHANGED <<storedPing, up, ping, crossed, clash>>
    PROVE  PingInv'
  BY DEF PingInv, PingSurvivesRestart, LoadedPing

\* Each step of a request keeps track of its interval.
LEMMA PingNext ==
    ASSUME IInv, Quiet, PingInv, [Next]_vars
    PROVE  PingInv'
  <1> USE DEF Goto, pingHistory
  <1>1. CASE UNCHANGED vars
    BY <1>1, PingKept DEF vars, diskVars, processVars, requestVars, Applying
  <1>2. ASSUME NEW mode \in {"config", "local", "lan"}, Start(mode)
        PROVE  PingInv'
    <2>1. Applying = {} /\ Applying' = {}
      BY <1>2 DEF Start, Quiet, Applying, requestVars
    <2>2. ping' = LoadedPing'
      BY <1>2 DEF Start, LoadedPing, diskVars
    <2> QED BY <1>2, <2>1, <2>2 DEF Start, PingInv, PingSurvivesRestart
  <1>3. ASSUME NEW c, Ends(c)
        PROVE  PingInv'
    <2>1. Applying' = {}
      BY <1>3 DEF Ends, Applying
    <2> QED BY <1>3, <2>1 DEF Ends, PingInv, PingSurvivesRestart
  <1>4. ASSUME NEW r \in Requests, NEW l, pc[r] # "stored", l # "stored",
               pc' = [pc EXCEPT ![r] = l], \A q \in Requests : q # r => want'[q] = want[q],
               UNCHANGED <<storedPing, up, ping, crossed, clash>>
        PROVE  PingInv'
    <2>1. Applying' = Applying /\ \A q \in Applying : want'[q] = want[q]
      BY <1>4 DEF Applying, IInv, TypeOK
    <2> QED BY <1>4, <2>1, PingKept
  <1>5. ASSUME NEW r \in Requests, NEW body \in Bodies, BeginPorts(r, body)
        PROVE  PingInv'
    BY <1>4, <1>5 DEF BeginPorts, diskVars, processVars, IInv, TypeOK
  <1>6. ASSUME NEW r \in Requests, NEW interval \in Intervals, BeginPing(r, interval)
        PROVE  PingInv'
    BY <1>4, <1>6 DEF BeginPing, diskVars, processVars, IInv, TypeOK
  <1>7. ASSUME NEW r \in Requests, SaveBegins(r) \/ SaveRenames(r)
        PROVE  PingInv'
    BY <1>4, <1>7 DEF SaveBegins, SaveRenames, diskVars, processVars
  <1>8. ASSUME NEW r \in Requests, SaveFails(r) \/ StoreFails(r)
        PROVE  PingInv'
    BY <1>4, <1>8 DEF SaveFails, StoreFails, Answer, diskVars, processVars, IInv, TypeOK
  <1>9. ASSUME NEW r \in Requests, StoreSettings(r)
        PROVE  PingInv'
    <2>0. /\ pc[r] = "settings" /\ pc' = [pc EXCEPT ![r] = "stored"]
          /\ UNCHANGED <<up, ping, want, clash>>
      BY <1>9 DEF StoreSettings, processVars
    <2>1. CASE want[r].ping = None
      <3>1. Applying' = Applying
        BY <2>0, <2>1 DEF Applying, IInv, TypeOK
      <3> QED BY <1>9, <2>0, <2>1, <3>1, PingKept DEF StoreSettings
    <2>2. CASE want[r].ping # None
      <3>1. Applying' = Applying \cup {r} /\ r \notin Applying
        BY <2>0, <2>2 DEF Applying, IInv, TypeOK
      <3>2. /\ storedPing' = want'[r].ping
            /\ crossed' = IF Applying = {} THEN crossed ELSE crossed \cup Applying \cup {r}
        BY <1>9, <2>0, <2>2 DEF StoreSettings
      <3>3. CASE Applying = {}
        BY <3>1, <3>2, <3>3 DEF PingInv, PingSurvivesRestart
      <3>4. CASE Applying # {}
        <4>1. crossed' = Applying'
          BY <3>1, <3>2, <3>4 DEF PingInv
        <4> QED BY <3>1, <4>1 DEF PingInv, PingSurvivesRestart
      <3> QED BY <3>3, <3>4
    <2> QED BY <2>1, <2>2
  <1>10. ASSUME NEW r \in Requests, ApplySettings(r)
        PROVE  PingInv'
    <2>0. /\ pc[r] = "stored" /\ pc' = [pc EXCEPT ![r] = "idle"]
          /\ want' = [want EXCEPT ![r] = NoBody]
          /\ UNCHANGED <<up, storedPing>>
      BY <1>10 DEF ApplySettings, Answer, diskVars
    <2>1. CASE want[r].ping = None
      <3>1. Applying' = Applying /\ \A q \in Applying : want'[q] = want[q]
        BY <2>0, <2>1 DEF Applying, IInv, TypeOK
      <3> QED BY <1>10, <2>0, <2>1, <3>1, PingKept DEF ApplySettings
    <2>2. CASE want[r].ping # None
      <3>1. /\ Applying' = Applying \ {r} /\ r \in Applying
            /\ \A q \in Applying' : want'[q] = want[q]
        BY <2>0, <2>2 DEF Applying, IInv, TypeOK
      <3>2. ping' = want[r].ping /\ clash' = (r \in crossed) /\ crossed' = crossed \ {r}
        BY <1>10, <2>2 DEF ApplySettings
      <3>3. CASE r \in crossed
        <4>1. crossed' = Applying'
          BY <3>1, <3>2, <3>3 DEF PingInv
        <4> QED BY <3>2, <3>3, <4>1 DEF PingInv, PingSurvivesRestart
      <3>4. CASE r \notin crossed
        <4>1. Applying' = {} /\ crossed' = {} /\ storedPing = want[r].ping
          BY <3>1, <3>2, <3>4 DEF PingInv
        <4>2. ping' = LoadedPing'
          BY <2>0, <2>2, <3>2, <4>1 DEF LoadedPing
        <4> QED BY <4>1, <4>2 DEF PingInv, PingSurvivesRestart
      <3> QED BY <3>3, <3>4
    <2> QED BY <2>1, <2>2
  <1>11. CASE Stop \/ \E r \in Requests : StopAfterRename(r)
    BY <1>3, <1>11 DEF Stop, StopAfterRename
  <1> QED BY <1>1, <1>2, <1>5, <1>6, <1>7, <1>8, <1>9, <1>10, <1>11 DEF Next, RequestStep

\* For any number of concurrent requests, the interval in use is the one a
\* restart would load unless two requests met between their two writes and
\* none has been alone there since (SetDefaultPingInterval, SetSettings).
THEOREM PingIsStored == Spec => []PingSurvivesRestart
  <1>1. Init => PingInv
    BY DEF Init, PingInv, PingSurvivesRestart, Applying
  <1>2. IInv /\ Quiet /\ PingInv /\ [Next]_vars => PingInv'
    BY PingNext
  <1>3. PingInv => PingSurvivesRestart
    BY DEF PingInv
  <1> QED BY <1>1, <1>2, <1>3, Invariance, PTL DEF Spec

=============================================================================
