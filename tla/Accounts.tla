------------------------------ MODULE Accounts ------------------------------
(***************************************************************************)
(* Accounts, sessions and the administration of users.                     *)
(*                                                                         *)
(* The store runs each statement or transaction alone (one connection; the *)
(* command line tool is another process, which SQLite serialises).  The    *)
(* handlers of the control server are not serialised: a login reads the    *)
(* account and later inserts a session, and a request is authorised with   *)
(* the role its user had when it arrived and acts on that afterwards.      *)
(*                                                                         *)
(* Abstractions: an account is its random id, so a deleted account never   *)
(* comes back; a password is its version; a session's expiry shows only as *)
(* requests that do not come.  Only an administrator's requests change     *)
(* accounts, so the other roles are one.  The operators named Mutant...    *)
(* are deliberate mistakes that no action refers to.                       *)
(***************************************************************************)
EXTENDS Naturals, FiniteSets

CONSTANTS
    Users,      \* account ids
    Bound,      \* accounts that own a device or have sent a command
    Sessions,   \* sessions
    Logins,     \* logins and setups that may be under way at once
    AdminRequests, \* an administrator's requests that may be under way at once
    MaxResets,  \* bound: password resets of one account
    Nobody      \* no account

ASSUME AccountsAssumption ==
    /\ Bound \subseteq Users
    /\ IsFiniteSet(Sessions) /\ IsFiniteSet(Logins)
    /\ MaxResets \in Nat
    /\ Nobody \notin Users

Roles == {"admin", "other"}

VARIABLES
    account,  \* the users and user_roles tables
    pw,       \* the version of each account's password_hash
    owner,    \* the sessions table: whose session
    login,    \* the logins and setups: the account they have verified
    req,      \* the requests: the administrator they are authorised for
    born,     \* history: the version of the password a session was opened with
    knew,     \* history: the version of the password a login has verified
    spared,   \* history: logins of an account under way at its last reset
    installed \* history: the accounts created by the initial setup

signInHistory == <<born, knew, spared, installed>>
accountVars == <<account, pw, owner, login, req, signInHistory>>

NoAccount == [state |-> "none", role |-> "other", disabled |-> FALSE]
Gone      == [state |-> "gone", role |-> "other", disabled |-> FALSE]
Existing  == {u \in Users : account[u].state = "live"}
Enabled   == {u \in Existing : ~account[u].disabled}
Admins    == {u \in Enabled : account[u].role = "admin"}

\* The types of the variables.
AccountsTypeOK ==
    /\ account \in [Users -> [state : {"none", "live", "gone"}, role : Roles, disabled : BOOLEAN]]
    /\ pw \in [Users -> Nat]
    /\ owner \in [Sessions -> Users \union {Nobody}]
    /\ login \in [Logins -> Users \union {Nobody}]
    /\ req \in [AdminRequests -> Users \union {Nobody}]
    /\ born \in [Sessions -> Nat]
    /\ knew \in [Logins -> Nat]
    /\ spared \in [Users -> Nat]
    /\ installed \subseteq Users

AccountsInit ==
    /\ account = [u \in Users |-> NoAccount]
    /\ pw = [u \in Users |-> 0]
    /\ owner = [s \in Sessions |-> Nobody]
    /\ login = [l \in Logins |-> Nobody]
    /\ req = [r \in AdminRequests |-> Nobody]
    /\ born = [s \in Sessions |-> 0]
    /\ knew = [l \in Logins |-> 0]
    /\ spared = [u \in Users |-> 0]
    /\ installed = {}

-----------------------------------------------------------------------------
NewAccount(u, role) ==
    /\ account[u].state = "none"
    /\ account' = [account EXCEPT ![u] = [state |-> "live", role |-> role, disabled |-> FALSE]]

\* tyxnet-server admin create, in a process of its own.
CreateAdmin(u) ==
    /\ NewAccount(u, "admin")
    /\ UNCHANGED <<pw, owner, login, req, signInHistory>>

\* A login or setup has its account, with the password of this moment.
Verified(l, u) ==
    /\ login' = [login EXCEPT ![l] = u]
    /\ knew' = [knew EXCEPT ![l] = pw[u]]

\* POST setup: the table is found empty and the account created in one
\* transaction; the session follows as for a login.
MutantCreateInitialAdmin(l, u) ==
    /\ login[l] = Nobody
    /\ NewAccount(u, "admin")
    /\ Verified(l, u)
    /\ installed' = installed \union {u}
    /\ UNCHANGED <<pw, owner, req, born, spared>>

CreateInitialAdmin(l, u) ==
    /\ login[l] = Nobody
    /\ Existing = {}
    /\ NewAccount(u, "admin")
    /\ Verified(l, u)
    /\ installed' = installed \union {u}
    /\ UNCHANGED <<pw, owner, req, born, spared>>

\* POST login: the right password of an enabled account.
Authenticate(l, u) ==
    /\ login[l] = Nobody
    /\ u \in Enabled
    /\ Verified(l, u)
    /\ UNCHANGED <<account, pw, owner, req, born, spared, installed>>

\* The login is over.
LoginEnds(l) ==
    /\ login' = [login EXCEPT ![l] = Nobody]
    /\ knew' = [knew EXCEPT ![l] = 0]

\* CreateSession inserts the session unless the account is gone, which the
\* foreign key reports; it does not look at the account again.
MutantCreateSession(l, s) ==
    /\ login[l] # Nobody
    /\ owner[s] = Nobody
    /\ owner' = [owner EXCEPT ![s] = login[l]]
    /\ born' = [born EXCEPT ![s] = knew[l]]
    /\ LoginEnds(l)
    /\ UNCHANGED <<account, pw, req, spared, installed>>

CreateSession(l, s) ==
    /\ login[l] \in Existing
    /\ owner[s] = Nobody
    /\ owner' = [owner EXCEPT ![s] = login[l]]
    /\ born' = [born EXCEPT ![s] = knew[l]]
    /\ LoginEnds(l)
    /\ UNCHANGED <<account, pw, req, spared, installed>>

\* The insert is refused or fails, or the caller has gone.
LoginFails(l) ==
    /\ login[l] # Nobody
    /\ LoginEnds(l)
    /\ UNCHANGED <<account, pw, owner, req, born, spared, installed>>

\* Sessions that end forget what they were opened with.
EndSessions(ended) ==
    /\ owner' = [s \in Sessions |-> IF s \in ended THEN Nobody ELSE owner[s]]
    /\ born' = [s \in Sessions |-> IF s \in ended THEN 0 ELSE born[s]]

\* POST logout.
DeleteSession(s) ==
    /\ owner[s] # Nobody
    /\ EndSessions({s})
    /\ UNCHANGED <<account, pw, login, req, knew, spared, installed>>

-----------------------------------------------------------------------------
(***************************************************************************)
(* A request: authorized looks the session up, with its user's state and   *)
(* role, and permit lets administrators pass; then the store is changed.   *)
(* What the requester has become in the meantime is not looked at.         *)
(***************************************************************************)
Authorize(r, s) ==
    /\ req[r] = Nobody
    /\ owner[s] \in Admins
    /\ req' = [req EXCEPT ![r] = owner[s]]
    /\ UNCHANGED <<account, pw, owner, login, signInHistory>>

Returns(r) == req[r] # Nobody /\ req' = [req EXCEPT ![r] = Nobody]

\* POST users.
CreateUser(r, u, role) ==
    /\ Returns(r)
    /\ NewAccount(u, role)
    /\ UNCHANGED <<pw, owner, login, signInHistory>>

SignOut(u) == EndSessions({s \in Sessions : owner[s] = u})

\* DELETE users/<id>, not for the requester's own account.  An account with
\* devices or commands stays.
DeleteUser(r, u) ==
    /\ Returns(r)
    /\ u # req[r]
    /\ u \in Existing \ Bound
    /\ account' = [account EXCEPT ![u] = Gone]
    /\ SignOut(u)
    /\ UNCHANGED <<pw, login, knew, spared, installed>>

\* PATCH users/<id>, not for the requester's own account.  Sessions stay:
\* authorized finds out about a disabled account.
MutantUpdateUser(r, u, disabled, role) ==
    /\ Returns(r)
    /\ u \in Existing
    /\ account' = [account EXCEPT ![u].disabled = disabled, ![u].role = role]
    /\ UNCHANGED <<pw, owner, login, signInHistory>>

UpdateUser(r, u, disabled, role) ==
    /\ Returns(r)
    /\ u # req[r]
    /\ u \in Existing
    /\ account' = [account EXCEPT ![u].disabled = disabled, ![u].role = role]
    /\ UNCHANGED <<pw, owner, login, signInHistory>>

\* The logins of u that have verified its password and not yet ended.
UnderWay(u) == {l \in Logins : login[l] = u}

\* PUT users/<id>/password: the hash and the account's sessions in one
\* transaction.
MutantUpdateUserPassword(r, u) ==
    /\ Returns(r)
    /\ u \in Existing
    /\ pw[u] < MaxResets
    /\ pw' = [pw EXCEPT ![u] = @ + 1]
    /\ spared' = [spared EXCEPT ![u] = Cardinality(UnderWay(u))]
    /\ UNCHANGED <<account, owner, login, born, knew, installed>>

UpdateUserPassword(r, u) ==
    /\ Returns(r)
    /\ u \in Existing
    /\ pw[u] < MaxResets
    /\ pw' = [pw EXCEPT ![u] = @ + 1]
    /\ spared' = [spared EXCEPT ![u] = Cardinality(UnderWay(u))]
    /\ SignOut(u)
    /\ UNCHANGED <<account, login, knew, installed>>

\* A request that is refused, that names an account that is not there, or
\* whose transaction fails changes nothing.
Refused(r) ==
    /\ Returns(r)
    /\ UNCHANGED <<account, pw, owner, login, signInHistory>>

Administer(r) ==
    \/ \E s \in Sessions : Authorize(r, s)
    \/ \E u \in Users, role \in Roles : CreateUser(r, u, role)
    \/ \E u \in Users : DeleteUser(r, u)
    \/ \E u \in Users, d \in BOOLEAN, role \in Roles : UpdateUser(r, u, d, role)
    \/ \E u \in Users : UpdateUserPassword(r, u)
    \/ Refused(r)

SetUp(l) == \E u \in Users : CreateInitialAdmin(l, u)

LogIn(l) ==
    \/ \E u \in Users : Authenticate(l, u)
    \/ \E s \in Sessions : CreateSession(l, s)
    \/ LoginFails(l)

AccountsNext ==
    \/ \E u \in Users : CreateAdmin(u)
    \/ \E l \in Logins : SetUp(l) \/ LogIn(l)
    \/ \E s \in Sessions : DeleteSession(s)
    \/ \E r \in AdminRequests : Administer(r)

AccountsSpec == AccountsInit /\ [][AccountsNext]_accountVars

-----------------------------------------------------------------------------
(***************************************************************************)
(* Properties.                                                             *)
(***************************************************************************)

\* Only a request that its own requester's demotion, disabling or deletion
\* has overtaken can remove the last administrator who can sign in: a step that
\* leaves none is the action of a request whose requester was one when it was
\* authorised and no longer is.  Every other request meets the rules against
\* deleting and changing one's own account (server.go api, self_delete and
\* self_update), which keep its requester.
LosesNoAdmin ==
    Admins # {} => \/ Admins' # {}
                   \/ \E r \in AdminRequests : req[r] \in Users \ Admins /\ req'[r] = Nobody

AdminRemains == [][LosesNoAdmin]_accountVars

\* However setups race with one another, with deletions and with the command
\* line tool, no two accounts created by the initial setup exist together
\* (CreateInitialAdmin).
OneSetupAccount == \A u, v \in installed \intersect Existing : u = v

\* The initial setup creates one account in the server's life ("Setup can
\* create only the first user and becomes ineffective immediately afterward",
\* docs/security-model.md).  The code does not keep this: two administrators
\* can delete each other, after which the table is empty again.
SetupOnce == \A u, v \in installed : u = v

\* A session's account exists: a login that is overtaken by the deletion of
\* its account leaves no session behind (CreateSession, DeleteUser).
SessionsHaveUsers ==
    \A s \in Sessions : owner[s] # Nobody => owner[s] \in Existing

\* The sessions of u that were opened with an older password.
Outdated(u) == {s \in Sessions : owner[s] = u /\ born[s] # pw[u]}

\* A password reset ends every session of the account, and what can still
\* open one with the old password are the logins that had verified it when
\* the reset was committed: there are never more outdated sessions than there
\* were such logins (UpdateUserPassword, login, CreateSession).  That there are
\* none does not hold: CreateSession does not look at the password again.
ResetSparesLoginsUnderWay == \A u \in Users : Cardinality(Outdated(u)) <= spared[u]

=============================================================================
