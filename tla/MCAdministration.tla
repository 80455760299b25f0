-------------------------- MODULE MCAdministration ---------------------------
(***************************************************************************)
(* Instances for TLC of what administrators do: accounts, enrollment and   *)
(* the server's settings.  The three share no variable, so the run takes   *)
(* the union of their state spaces and not the product: each part runs     *)
(* while the other two are at rest in an initial state, and every          *)
(* behaviour of each part occurs.                                          *)
(*                                                                         *)
(* With octets of 3 values the network 9..14 has two octets and two        *)
(* addresses for devices, 12 and 13, beside 11, which ends in the last     *)
(* octet value and is only given statically.                               *)
(***************************************************************************)
EXTENDS Accounts, ServerSettings, Enrollment, TLC

CONSTANTS d1, d2, d3, t1, t2, o1, o2

\* Token t1 admits two devices of o1, token t2 one device of o2.
MCOwner   == t1 :> o1 @@ t2 :> o2
MCMaxUses == t1 :> 2 @@ t2 :> 1

Administration == <<accountVars, vars, enrollmentVars>>

MCInit == AccountsInit /\ Init /\ EnrollmentInit

SettingsAtRest ==
    Init /\ file.listen = "loopback" /\ ~file.insecure /\ ~file.remoteSetup

MCNext ==
    \/ /\ AccountsNext
       /\ SettingsAtRest /\ EnrollmentInit /\ UNCHANGED <<vars, enrollmentVars>>
    \/ /\ Next
       /\ AccountsInit /\ EnrollmentInit /\ UNCHANGED <<accountVars, enrollmentVars>>
    \/ /\ EnrollmentNext
       /\ AccountsInit /\ SettingsAtRest /\ UNCHANGED <<accountVars, vars>>

MCSpec == MCInit /\ [][MCNext]_Administration

\* Ports are interchangeable, and so are requests for settings.
Symmetry == Permutations(Ports) \union Permutations(Requests)
=============================================================================
