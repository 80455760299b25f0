---------------------------- MODULE MCForwarding -----------------------------
(* Forwarding for TLC: d1 roams between two endpoints, d2 stays.            *)
EXTENDS Forwarding, TLC

CONSTANTS d1, d2, p1, p2, p3

MCMaxGen == d1 :> 2 @@ d2 :> 1
MCHome == d1 :> {p1, p3} @@ d2 :> {p2}

\* A packet to the other device, one with a foreign source address, and the
\* answers of d2 and of the server's host.
MCTraffic == {[by |-> d1, src |-> d1, dst |-> d2],
              [by |-> d1, src |-> d2, dst |-> Server],
              [by |-> Server, src |-> Server, dst |-> d1]}
==============================================================================
