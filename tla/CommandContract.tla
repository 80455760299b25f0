--------------------------- MODULE CommandContract ---------------------------
(***************************************************************************)
(* What the delivery of administrative commands promises, whatever carries *)
(* it: a command that is queued is pending until the device accepts it or  *)
(* its deadline passes; an expired command never runs; an accepted one     *)
(* runs at most once, and it ends as succeeded or failed only after it ran *)
(* (a reconnect runs by being reported).                                   *)
(* There is no stream, request, retry or clock here.                       *)
(***************************************************************************)
EXTENDS Naturals

CONSTANTS
    Cmds,          \* the commands
    Reconnects     \* those that consist in reporting their result

VARIABLES
    stage,         \* what has become of each command
    runs           \* how often each command ran

cvars == <<stage, runs>>

Results == {"succeeded", "failed"}

Init ==
    /\ stage = [c \in Cmds |-> "none"]
    /\ runs = [c \in Cmds |-> 0]

Queue(c) ==
    /\ stage[c] = "none"
    /\ stage' = [stage EXCEPT ![c] = "pending"]
    /\ UNCHANGED runs

Accept(c) ==
    /\ stage[c] = "pending"
    /\ stage' = [stage EXCEPT ![c] = "accepted"]
    /\ UNCHANGED runs

Run(c) ==
    /\ stage[c] = "accepted" /\ runs[c] = 0
    /\ runs' = [runs EXCEPT ![c] = 1]
    /\ UNCHANGED stage

Finish(c, r) ==
    /\ stage[c] = "accepted" /\ (runs[c] = 1 \/ c \in Reconnects)
    /\ stage' = [stage EXCEPT ![c] = r]
    /\ UNCHANGED runs

\* One UPDATE expires every pending command it finds late.
Lapse ==
    \E C \in SUBSET {c \in Cmds : stage[c] = "pending"} :
      /\ stage' = [c \in Cmds |-> IF c \in C THEN "expired" ELSE stage[c]]
      /\ UNCHANGED runs

Next ==
    \/ \E c \in Cmds : Queue(c) \/ Accept(c) \/ Run(c) \/ \E r \in Results : Finish(c, r)
    \/ Lapse

Spec == Init /\ [][Next]_cvars

=============================================================================
