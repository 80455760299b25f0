-------------------------- MODULE AtMostOnceChannel --------------------------
(***************************************************************************)
(* What one direction of a data-plane session promises its user.           *)
(*                                                                         *)
(* A sender numbers its packets 1, 2, 3, ...; the receiver hands some of   *)
(* them to the tunnel adapter or to the router, in any order, each at most *)
(* once, and never one that was not sent.  Packets may be lost: nothing    *)
(* says that a packet is ever delivered.                                   *)
(*                                                                         *)
(* ReplayWindow.tla (the cipher of internal/crypto/session.go on top of an *)
(* unreliable datagram network) implements this specification.             *)
(***************************************************************************)
EXTENDS Naturals

CONSTANT MaxSeq          \* bound on the sequence numbers of one session

VARIABLES sent,          \* highest sequence number used by the sender
          deliveries     \* how often each sequence number was delivered

vars == <<sent, deliveries>>

Init ==
    /\ sent = 0
    /\ deliveries = [s \in 1..MaxSeq |-> 0]

\* The sender uses the next sequence number.
Send ==
    /\ sent < MaxSeq
    /\ sent' = sent + 1
    /\ UNCHANGED deliveries

\* A packet that was sent and not delivered yet is delivered.
Deliver(s) ==
    /\ s <= sent
    /\ deliveries[s] = 0
    /\ deliveries' = [deliveries EXCEPT ![s] = 1]
    /\ UNCHANGED sent

Next == Send \/ \E s \in 1..MaxSeq : Deliver(s)

Spec == Init /\ [][Next]_vars
==============================================================================
