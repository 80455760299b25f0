--------------------------- MODULE CommandDelivery ---------------------------
(***************************************************************************)
(* Delivery of administrative commands to one device.                      *)
(*                                                                         *)
(* The API queues a command in the store (control/server.go command,       *)
(* storage CreateCommand).  The handler of the device's event stream       *)
(* (deviceConnect) reads the pending commands into a batch when it starts, *)
(* on every tick of a timer and on every wake-up signal, marks each one    *)
(* delivered and writes it to the stream (writePendingCommands).  A command*)
(* stays pending until the client reports it accepted, so it is written    *)
(* again and again.  The client (client.go handleControlCommand) reports   *)
(* "accepted", executes, and reports "succeeded" or "failed"; each report  *)
(* is a challenge request followed by a signed result request, tried up to *)
(* MaxAttempts times (reportCommandResult).                                *)
(*                                                                         *)
(* What can go wrong: a request or its answer is lost, or the request is   *)
(* given up by the client and processed later (ghosts); the stream breaks  *)
(* while its handler on the server lives on as a zombie; either process    *)
(* restarts; the two clocks pass a command's deadline at different moments;*)
(* the only challenge a device has is overwritten by any later request.    *)
(*                                                                         *)
(* Abstractions: a signature verifies iff its nonce is the stored          *)
(* challenge; result texts, audit rows and TouchDevice are left out; the   *)
(* previous zombie is over when a second one appears.  The operators named *)
(* Mutant... are deliberate mistakes, used only to see that a property     *)
(* notices them; no action refers to them.                                 *)
(***************************************************************************)
EXTENDS Naturals, Sequences, FiniteSets

CONSTANTS
    NumCmds,       \* bound: commands are 1..NumCmds, in the order of created_at
    Reconnects,    \* the commands of type client.reconnect
    BatchLimit,    \* limit of PendingCommandsForDevice (20 in the code)
    MaxAttempts,   \* attempts of reportCommandResult (3 in the code)
    MaxInbox,      \* bound: events the stream buffers before a write blocks
    MaxGhosts,     \* bound: given-up requests that are still under way
    None

Cmds == 1..NumCmds
\* enough challenges for the stored one, the client's and every ghost's
Nonces == 1..(MaxGhosts + 3)

ASSUME CommandAssumption ==
    /\ NumCmds \in Nat /\ Reconnects \subseteq Cmds
    /\ BatchLimit \in Nat \ {0} /\ MaxAttempts \in Nat \ {0}
    /\ MaxInbox \in Nat \ {0} /\ MaxGhosts \in Nat
    /\ None \notin Nat /\ None \notin {"accepted", "succeeded", "failed"}

VARIABLES
    creating,   \* the commands whose API request has not inserted them yet
    status,     \* commands.status in the store
    late,       \* late[c]: the clocks ("server", "client") past expires_at
    challenge,  \* Server.challenges[device]
    revoked,    \* devices.revoked
    signal,     \* Server.commandSignals[device], a channel of capacity 1
    open,       \* the stream handlers (deviceConnect) that are running
    batch,      \* batch[h]: the commands the loop of handler h has still to write,
                \* oldest first
    inbox,      \* command events of the client's stream not yet read
    pc,         \* where the client is
    nonce,      \* the challenge the client is about to sign
    job,        \* the command being handled and the status to report for it
    attempt,    \* the loop variable of reportCommandResult
    handled,    \* Client.handledCommands
    ghosts,     \* requests the client gave up that the server will still see
    executed,   \* history: how often each command was executed
    taken,      \* history: the commands the store once held accepted
    earlier     \* history: the commands stored when each one's request began

vars == <<creating, status, late, challenge, revoked, signal, open, batch, inbox, pc, nonce,
          job, attempt, handled, ghosts, executed, taken, earlier>>

requests  == <<creating, earlier>>
store     == <<status, late, revoked, taken>>
streams   == <<open, batch>>
clientMem == <<pc, nonce, job, attempt, handled>>

Active   == {"queued", "delivered"}
Terminal == {"succeeded", "failed", "expired"}
Statuses == {"none", "accepted"} \union Active \union Terminal
Handlers == {"live", "zombie"}
Handling == {"dedup", "ask", "send", "execute"}
ClientAt == {"down", "idle", "prove", "reading"} \union Handling
Reports  == {"accepted", "succeeded", "failed"}
NoJob    == [cmd |-> None, want |-> None]
Jobs     == {NoJob} \union [cmd : Cmds, want : Reports]
Ghosts   == [kind : {"challenge"}, nonce : {None}, job : {NoJob}]
            \union [kind : {"result"}, nonce : Nonces, job : Jobs \ {NoJob}]
            \union [kind : {"verified"}, nonce : {None}, job : Jobs \ {NoJob}]

\* The types of the variables.
TypeOK ==
    /\ creating \subseteq Cmds
    /\ status \in [Cmds -> Statuses]
    /\ late \in [Cmds -> SUBSET {"server", "client"}]
    /\ challenge \in Nonces \union {None}
    /\ revoked \in BOOLEAN /\ signal \in BOOLEAN
    /\ open \subseteq Handlers
    /\ batch \in [Handlers -> SUBSET Cmds]
    /\ inbox \in Seq(Cmds) /\ Len(inbox) <= MaxInbox
    /\ pc \in ClientAt
    /\ nonce \in Nonces \union {None}
    /\ job \in Jobs
    /\ attempt \in 0..(MaxAttempts - 1)
    /\ handled \subseteq Cmds
    /\ ghosts \subseteq Ghosts
    /\ executed \in [Cmds -> Nat]
    /\ taken \subseteq Cmds
    /\ earlier \in [Cmds -> SUBSET Cmds]

Init ==
    /\ creating = {}
    /\ status = [c \in Cmds |-> "none"]
    /\ late = [c \in Cmds |-> {}]
    /\ challenge = None /\ revoked = FALSE /\ signal = FALSE
    /\ open = {} /\ batch = [h \in Handlers |-> {}]
    /\ inbox = << >>
    /\ pc = "idle" /\ nonce = None /\ job = NoJob /\ attempt = 0
    /\ handled = {} /\ ghosts = {}
    /\ executed = [c \in Cmds |-> 0]
    /\ taken = {} /\ earlier = [c \in Cmds |-> {}]

-----------------------------------------------------------------------------
(***************************************************************************)
(* The store.                                                              *)
(***************************************************************************)
\* UPDATE commands SET status='expired' WHERE status IN from AND expires_at<=now
Expire(from) ==
    [c \in Cmds |-> IF status[c] \in from /\ "server" \in late[c]
                    THEN "expired" ELSE status[c]]

\* The WHERE clause of MarkCommandDelivered, and of the SELECT below.
Deliverable(c) == status[c] \in Active /\ "server" \notin late[c]

\* The SELECT of PendingCommandsForDevice, which follows its expiry UPDATE:
\* the oldest BatchLimit commands of the device that are queued or delivered.
PendingCommandsForDevice ==
    LET pending == {c \in Cmds : Deliverable(c)}
    IN  {c \in pending : Cardinality({d \in pending : d < c}) < BatchLimit}

\* The first half of CreateCommand: the device is not revoked, and the command
\* gets its created_at.  A request that fails leaves a number unused.
CommandBegins(c) ==
    /\ \A d \in Cmds : c <= d => status[d] = "none" /\ d \notin creating
    /\ ~revoked
    /\ creating' = creating \union {c}
    /\ earlier' = [earlier EXCEPT ![c] = {d \in Cmds : status[d] # "none"}]
    /\ UNCHANGED <<store, challenge, signal, streams, inbox, clientMem, ghosts, executed>>

\* The second half, the INSERT; other requests may have come in between.
CreateCommand(c) ==
    /\ c \in creating
    /\ creating' = creating \ {c}
    /\ status' = [status EXCEPT ![c] = "queued"]

\* A send on the channel, dropped when it is full.
notifyCommand == signal' = TRUE

\* The API's command handler goes on.
Command(c) ==
    /\ CreateCommand(c)
    /\ notifyCommand
    /\ UNCHANGED <<earlier, taken, late, challenge, revoked, streams, inbox, clientMem, ghosts,
                   executed>>

\* The INSERT fails, or the request's context is done.
CommandFails(c) ==
    /\ c \in creating
    /\ creating' = creating \ {c}
    /\ UNCHANGED <<earlier, store, challenge, signal, streams, inbox, clientMem, ghosts,
                  executed>>

\* An administrator or a user reads the command list.
ListCommands ==
    /\ Expire(Active \union {"accepted"}) # status
    /\ status' = Expire(Active \union {"accepted"})
    /\ UNCHANGED <<requests, taken, late, challenge, revoked, signal, streams, inbox, clientMem,
                  ghosts, executed>>

\* The outcome of UpdateCommandResult: the new status and whether it answers 200.
MutantUpdateNoTransitionCheck(j) ==
    LET c == j.cmd IN
    IF status[c] \in Active \union {"accepted"} /\ "server" \in late[c]
    THEN [to |-> "expired", ok |-> FALSE]
    ELSE [to |-> j.want, ok |-> TRUE]

UpdateCommandResult(j) ==
    LET c == j.cmd
        valid == \/ j.want = "accepted" /\ status[c] \in Active
                 \/ j.want \in {"succeeded", "failed"} /\ status[c] = "accepted"
    IN  IF status[c] \in Active \union {"accepted"} /\ "server" \in late[c]
        THEN [to |-> "expired", ok |-> FALSE]
        ELSE IF status[c] = j.want \/ valid THEN [to |-> j.want, ok |-> TRUE]
        ELSE [to |-> status[c], ok |-> FALSE]

Deadline(c, clock) ==
    /\ status[c] # "none" /\ clock \notin late[c]
    /\ late' = [late EXCEPT ![c] = @ \union {clock}]
    /\ UNCHANGED <<requests, taken, status, challenge, revoked, signal, streams, inbox,
                  clientMem, ghosts, executed>>

RevokeDevice ==
    /\ ~revoked
    /\ revoked' = TRUE
    /\ UNCHANGED <<requests, taken, status, late, challenge, signal, streams, inbox, clientMem,
                  ghosts, executed>>

-----------------------------------------------------------------------------
(***************************************************************************)
(* The event stream's handler.                                             *)
(***************************************************************************)
\* The first half of writePendingCommands: expire, then take the batch.
ReadPending(h) ==
    /\ status' = Expire(Active)
    /\ batch' = [batch EXCEPT ![h] = PendingCommandsForDevice]

MutantNoTicker(h) ==
    /\ h \in open /\ batch[h] = {} /\ signal
    /\ ReadPending(h)
    /\ UNCHANGED <<requests, taken, open, late, challenge, revoked, signal, inbox, clientMem,
                  ghosts, executed>>

\* The two-second ticker fires.
Tick(h) ==
    /\ h \in open /\ batch[h] = {}
    /\ ReadPending(h)
    /\ UNCHANGED <<requests, taken, open, late, challenge, revoked, signal, inbox, clientMem,
                  ghosts, executed>>

Wake(h) ==
    /\ h \in open /\ batch[h] = {} /\ signal
    /\ signal' = FALSE
    /\ ReadPending(h)
    /\ UNCHANGED <<requests, taken, open, late, challenge, revoked, inbox, clientMem, ghosts,
                  executed>>

\* One iteration of the loop: MarkCommandDelivered fails, and the command is
\* skipped, when it is no longer pending; what a zombie writes is lost.
MutantWriteAnyOrder(h) ==
    \E c \in batch[h] :
      /\ Deliverable(c)
      /\ h = "live" => Len(inbox) < MaxInbox
      /\ status' = [status EXCEPT ![c] = "delivered"]
      /\ inbox' = IF h = "live" THEN Append(inbox, c) ELSE inbox
      /\ batch' = [batch EXCEPT ![h] = @ \ {c}]
      /\ UNCHANGED <<requests, taken, late, challenge, revoked, signal, open, clientMem, ghosts,
                    executed>>

WriteCommand(h) ==
    \E c \in batch[h] :
      /\ \A d \in batch[h] : c <= d
      /\ IF Deliverable(c)
         THEN /\ status' = [status EXCEPT ![c] = "delivered"]
              /\ IF h = "live" THEN Len(inbox) < MaxInbox /\ inbox' = Append(inbox, c)
                 ELSE UNCHANGED inbox
         ELSE UNCHANGED <<status, inbox>>
      /\ batch' = [batch EXCEPT ![h] = @ \ {c}]
      /\ UNCHANGED <<requests, taken, late, challenge, revoked, signal, open, clientMem, ghosts,
                    executed>>

\* The handler returns in its select: the session expired, or the address moved.
\* What it wrote before stays readable.
HandlerReturns ==
    /\ "live" \in open /\ batch["live"] = {}
    /\ open' = open \ {"live"}
    /\ UNCHANGED <<requests, store, challenge, signal, batch, inbox, clientMem, ghosts, executed>>

\* The client's side of the stream is gone; its handler does not know yet.
Abandon ==
    IF "live" \in open
    THEN /\ open' = {"zombie"}
         /\ batch' = [h \in Handlers |-> IF h = "zombie" THEN batch["live"] ELSE {}]
    ELSE UNCHANGED streams

\* The connection breaks: the client may still read a prefix of what was sent,
\* and the handler runs on until it notices.
StreamLost ==
    /\ "live" \in open
    /\ Abandon
    /\ \E n \in 0..Len(inbox) : inbox' = SubSeq(inbox, 1, n)
    /\ UNCHANGED <<requests, store, challenge, signal, clientMem, ghosts, executed>>

\* The write to a broken connection fails, or its context is done.
ZombieEnds ==
    /\ "zombie" \in open
    /\ open' = open \ {"zombie"} /\ batch' = [batch EXCEPT !["zombie"] = {}]
    /\ UNCHANGED <<requests, store, challenge, signal, inbox, clientMem, ghosts, executed>>

\* Challenges, signals, handlers and requests being served are in memory; the
\* commands are not.
ServerRestart ==
    /\ challenge' = None /\ signal' = FALSE
    /\ open' = {} /\ batch' = [h \in Handlers |-> {}]
    /\ \E n \in 0..Len(inbox) : inbox' = SubSeq(inbox, 1, n)
    /\ creating' = {} /\ ghosts' = {g \in ghosts : g.kind # "verified"}
    /\ UNCHANGED <<earlier, store, clientMem, executed>>

-----------------------------------------------------------------------------
(***************************************************************************)
(* The server's answers to challenge, connect and result requests.         *)
(***************************************************************************)
Fresh == CHOOSE n \in Nonces :
            n \notin {challenge, nonce} \union {g.nonce : g \in ghosts}

\* deviceChallenge replaces whatever challenge the device had.
deviceChallenge == IF revoked THEN UNCHANGED challenge ELSE challenge' = Fresh

\* deviceCommandResult: the challenge is used up whether or not it verifies.
Verified(n) == ~revoked /\ challenge = n

\* The transaction of UpdateCommandResult.
StoreResult(j) ==
    /\ status' = [status EXCEPT ![j.cmd] = UpdateCommandResult(j).to]
    /\ taken' = IF status'[j.cmd] = "accepted" THEN taken \union {j.cmd} ELSE taken

deviceCommandResult(j, n) ==
    /\ challenge' = None
    /\ IF Verified(n) THEN StoreResult(j) ELSE UNCHANGED <<status, taken>>

ChallengeExpires ==
    /\ challenge # None
    /\ challenge' = None
    /\ UNCHANGED <<requests, store, signal, streams, inbox, clientMem, ghosts, executed>>

\* A request the client gave up long ago reaches the server.
GhostArrives(g) ==
    /\ ghosts' = ghosts \ {g}
    /\ \/ g.kind = "challenge" /\ deviceChallenge /\ UNCHANGED <<status, taken>>
       \/ g.kind = "result" /\ deviceCommandResult(g.job, g.nonce)
       \/ g.kind = "verified" /\ StoreResult(g.job) /\ UNCHANGED challenge
    /\ UNCHANGED <<requests, late, revoked, signal, streams, inbox, clientMem, executed>>

\* A report has used its challenge and is verified, but its transaction waits.
GhostVerified(g) ==
    /\ g.kind = "result" /\ Verified(g.nonce)
    /\ challenge' = None
    /\ ghosts' = (ghosts \ {g}) \union {[kind |-> "verified", nonce |-> None, job |-> g.job]}
    /\ UNCHANGED <<requests, store, signal, streams, inbox, clientMem, executed>>

GhostLost(g) ==
    /\ ghosts' = ghosts \ {g}
    /\ UNCHANGED <<requests, store, challenge, signal, streams, inbox, clientMem, executed>>

-----------------------------------------------------------------------------
(***************************************************************************)
(* The client: connect.                                                    *)
(***************************************************************************)
\* Run calls connect, whose first request is answered.
AskConnect ==
    /\ pc = "idle" /\ ~revoked
    /\ deviceChallenge
    /\ nonce' = Fresh /\ pc' = "prove"
    /\ UNCHANGED <<requests, store, signal, streams, inbox, job, attempt, handled, ghosts,
                  executed>>

\* The challenge request times out but is still under way.
AskConnectDelayed ==
    /\ pc = "idle" /\ Cardinality(ghosts) < MaxGhosts
    /\ ghosts' = ghosts \union {[kind |-> "challenge", nonce |-> None, job |-> NoJob]}
    /\ UNCHANGED <<requests, store, challenge, signal, streams, inbox, clientMem, executed>>

\* deviceConnect verifies and starts a handler, which takes its first batch.
Connect ==
    /\ pc = "prove" /\ Verified(nonce)
    /\ challenge' = None
    /\ ReadPending("live") /\ open' = open \union {"live"}
    /\ inbox' = << >>
    /\ pc' = "reading" /\ nonce' = None
    /\ UNCHANGED <<requests, taken, late, revoked, signal, job, attempt, handled, ghosts,
                  executed>>

\* The handler starts, but its answer never reaches the client.
ConnectAnswerLost ==
    /\ pc = "prove" /\ Verified(nonce)
    /\ challenge' = None
    /\ ReadPending("zombie") /\ open' = open \union {"zombie"}
    /\ pc' = "idle" /\ nonce' = None
    /\ UNCHANGED <<requests, taken, late, revoked, signal, inbox, job, attempt, handled, ghosts,
                  executed>>

\* The request is lost, or refused (which uses the challenge up).
ConnectFails ==
    /\ pc = "prove"
    /\ \/ UNCHANGED challenge
       \/ ~Verified(nonce) /\ challenge' = None
    /\ pc' = "idle" /\ nonce' = None
    /\ UNCHANGED <<requests, store, signal, streams, inbox, job, attempt, handled, ghosts,
                  executed>>

(***************************************************************************)
(* The client: the event loop and handleControlCommand.                    *)
(***************************************************************************)
\* connect returns: the body is closed and what it still held is gone.
CloseStream ==
    /\ inbox' = << >>
    /\ Abandon
    /\ pc' = "idle" /\ job' = NoJob /\ attempt' = 0 /\ nonce' = None

EndOfStream ==
    /\ pc = "reading" /\ inbox = << >> /\ "live" \notin open
    /\ pc' = "idle"
    /\ UNCHANGED <<requests, store, challenge, signal, streams, inbox, nonce, job, attempt,
                  handled, ghosts, executed>>

\* An event is read and passes the check of expiry, or ends the stream; the
\* allowlist, the same as the server's, refuses nothing that was stored.
ReadCommand ==
    /\ pc = "reading" /\ inbox # << >>
    /\ LET c == Head(inbox) IN
         IF "client" \in late[c]
         THEN CloseStream
         ELSE /\ pc' = "dedup" /\ job' = [cmd |-> c, want |-> "accepted"]
              /\ inbox' = Tail(inbox)
              /\ UNCHANGED <<streams, nonce, attempt>>
    /\ UNCHANGED <<requests, store, challenge, signal, handled, ghosts, executed>>

\* Old entries are forgotten; a remembered command is skipped.
Dedup ==
    /\ pc = "dedup"
    /\ handled' = {c \in handled : "client" \notin late[c]}
    /\ IF job.cmd \in handled'
       THEN pc' = "reading" /\ job' = NoJob
       ELSE pc' = "ask" /\ UNCHANGED job
    /\ UNCHANGED <<requests, store, challenge, signal, streams, inbox, nonce, attempt, ghosts,
                  executed>>

\* An attempt of reportCommandResult fails: try again, or give up and return
\* the error, which ends the stream.
MutantExecuteAnyway ==
    IF attempt + 1 < MaxAttempts
    THEN /\ attempt' = attempt + 1 /\ pc' = "ask" /\ nonce' = None
         /\ UNCHANGED <<job, inbox, streams>>
    ELSE IF job.want = "accepted"
    THEN /\ attempt' = 0 /\ pc' = "execute" /\ nonce' = None
         /\ UNCHANGED <<job, inbox, streams>>
    ELSE CloseStream

NextAttempt ==
    IF attempt + 1 < MaxAttempts
    THEN /\ attempt' = attempt + 1 /\ pc' = "ask" /\ nonce' = None
         /\ UNCHANGED <<job, inbox, streams>>
    ELSE CloseStream

AskReport ==
    /\ pc = "ask" /\ ~revoked
    /\ deviceChallenge
    /\ nonce' = Fresh /\ pc' = "send"
    /\ UNCHANGED <<requests, store, signal, streams, inbox, job, attempt, handled, ghosts,
                  executed>>

\* The challenge request fails; it may still arrive later.
AskReportFails ==
    /\ pc = "ask"
    /\ NextAttempt
    /\ \/ UNCHANGED ghosts
       \/ /\ Cardinality(ghosts) < MaxGhosts
          /\ ghosts' = ghosts \union {[kind |-> "challenge", nonce |-> None, job |-> NoJob]}
    /\ UNCHANGED <<requests, store, challenge, signal, handled, executed>>

\* The report is answered 200: what handleControlCommand does next.
Reported ==
    /\ IF job.want = "accepted"
       THEN /\ handled' = handled \union {job.cmd}
            /\ attempt' = 0 /\ nonce' = None
            /\ IF job.cmd \in Reconnects
               THEN pc' = "ask" /\ job' = [job EXCEPT !.want = "succeeded"]
               ELSE pc' = "execute" /\ UNCHANGED job
            /\ UNCHANGED <<inbox, streams>>
       ELSE /\ UNCHANGED handled
            /\ IF job.cmd \in Reconnects
               THEN CloseStream      \* errReconnectRequested
               ELSE /\ pc' = "reading" /\ job' = NoJob /\ attempt' = 0 /\ nonce' = None
                    /\ UNCHANGED <<inbox, streams>>

SendReport ==
    /\ pc = "send" /\ Verified(nonce) /\ UpdateCommandResult(job).ok
    /\ deviceCommandResult(job, nonce)
    /\ Reported
    /\ UNCHANGED <<requests, late, revoked, signal, ghosts, executed>>

\* The server refuses the report, or takes it and the answer is lost.
SendReportUnanswered ==
    /\ pc = "send"
    /\ deviceCommandResult(job, nonce)
    /\ NextAttempt
    /\ UNCHANGED <<requests, late, revoked, signal, handled, ghosts, executed>>

\* The report times out; it is lost, or reaches the server later.
SendReportTimesOut ==
    /\ pc = "send"
    /\ NextAttempt
    /\ \/ UNCHANGED ghosts
       \/ /\ Cardinality(ghosts) < MaxGhosts
          /\ ghosts' = ghosts \union {[kind |-> "result", nonce |-> nonce, job |-> job]}
    /\ UNCHANGED <<requests, store, challenge, signal, handled, executed>>

\* executeCommand schedules the system action, or fails.
Execute ==
    /\ pc = "execute"
    /\ executed' = [executed EXCEPT ![job.cmd] = @ + 1]
    /\ \E r \in {"succeeded", "failed"} : job' = [job EXCEPT !.want = r]
    /\ pc' = "ask"
    /\ UNCHANGED <<requests, store, challenge, signal, streams, inbox, nonce, attempt, handled,
                  ghosts>>

\* The client's memory, its stream and the record of handled commands are lost.
ClientCrash ==
    /\ pc # "down"
    /\ pc' = "down" /\ handled' = {} /\ nonce' = None /\ job' = NoJob /\ attempt' = 0
    /\ inbox' = << >>
    /\ Abandon
    /\ UNCHANGED <<requests, store, challenge, signal, ghosts, executed>>

ClientStart ==
    /\ pc = "down"
    /\ pc' = "idle"
    /\ UNCHANGED <<requests, store, challenge, signal, streams, inbox, nonce, job, attempt,
                  handled, ghosts, executed>>

-----------------------------------------------------------------------------
ServerStep ==
    \/ \E c \in Cmds : \/ CommandBegins(c) \/ Command(c) \/ CommandFails(c)
                      \/ \E k \in {"server", "client"} : Deadline(c, k)
    \/ ListCommands \/ RevokeDevice \/ ChallengeExpires \/ ServerRestart
    \/ StreamLost \/ ZombieEnds
    \/ \E h \in Handlers : Tick(h) \/ Wake(h) \/ WriteCommand(h)
    \/ HandlerReturns
    \/ \E g \in ghosts : GhostArrives(g) \/ GhostVerified(g) \/ GhostLost(g)

ClientStep ==
    \/ AskConnect \/ AskConnectDelayed \/ Connect \/ ConnectAnswerLost \/ ConnectFails
    \/ EndOfStream \/ ReadCommand \/ Dedup
    \/ AskReport \/ AskReportFails
    \/ SendReport \/ SendReportUnanswered \/ SendReportTimesOut
    \/ Execute \/ ClientCrash \/ ClientStart

Next == ServerStep \/ ClientStep

Spec == Init /\ [][Next]_vars

(***************************************************************************)
(* Fairness.  The ticker of a live stream and its writes run on; clocks    *)
(* advance; the client retries for ever, and what it retries is answered   *)
(* infinitely often unless it stops retrying.                              *)
(***************************************************************************)
Fairness ==
    /\ \A c \in 1..NumCmds : WF_vars(Deadline(c, "server"))
    /\ WF_vars(Tick("live")) /\ WF_vars(WriteCommand("live"))
    /\ WF_vars(ClientStart) /\ WF_vars(EndOfStream)
    /\ WF_vars(ReadCommand) /\ WF_vars(Dedup) /\ WF_vars(Execute)
    /\ WF_vars(AskReport) /\ WF_vars(SendReportUnanswered)
    /\ WF_vars(ConnectFails) /\ SF_vars(AskConnect) /\ SF_vars(Connect)

FairSpec == Spec /\ Fairness

-----------------------------------------------------------------------------
(***************************************************************************)
(* A command is executed at most once, whatever is lost, repeated or       *)
(* delayed and however often the client forgets what it handled: the       *)
(* server's transition check and the client's record together make         *)
(* "accepted" the at-most-once boundary (handleControlCommand,             *)
(* UpdateCommandResult).                                                   *)
(***************************************************************************)
ExecutedAtMostOnce == \A c \in Cmds : executed[c] <= 1

(***************************************************************************)
(* The whole exchange keeps the contract of CommandContract: from what     *)
(* becomes of a command and what the client executes, nobody can tell that *)
(* streams break, reports are repeated or delayed and memories are lost.   *)
(* In particular a stage never goes back, a final one is final, a command  *)
(* that expired before the server saw it accepted is never executed, and   *)
(* one that is said to have succeeded was (UpdateCommandResult,            *)
(* handleControlCommand).  The store also writes "expired" over commands   *)
(* that were accepted; here these stay accepted, since their device may    *)
(* still execute them.                                                     *)
(***************************************************************************)
Stage == [c \in Cmds |-> IF status[c] \in Active THEN "pending"
                        ELSE IF status[c] = "expired" /\ c \in taken THEN "accepted"
                        ELSE status[c]]

Contract ==
    INSTANCE CommandContract WITH
        Cmds <- Cmds, Reconnects <- Reconnects, stage <- Stage, runs <- executed

ImplementsContract == Contract!Spec

(***************************************************************************)
(* docs/protocol.md reserves "expired" for commands that are not accepted  *)
(* before their deadline, and makes "succeeded" and "failed" the ends of   *)
(* the others.  UpdateCommandResult and listCommands do not: they expire   *)
(* accepted commands too.                                                  *)
(***************************************************************************)
ExpiredNeverAccepted == \A c \in Cmds : status[c] = "expired" => c \notin taken

(***************************************************************************)
(* Commands take effect in the order they were created: one is accepted    *)
(* only when every command that was stored before its request began is     *)
(* accepted, final or past its deadline.  Requests that overlap in time    *)
(* have no order to keep.                                                  *)
(***************************************************************************)
AcceptedInOrder ==
    [][\A c, d \in Cmds :
         c \in earlier[d] /\ status[d] \in Active /\ status'[d] = "accepted"
           => status[c] \notin Active \/ "server" \in late[c]]_vars

(***************************************************************************)
(* Every pending command is settled (accepted, or expired after its        *)
(* deadline) unless its device is revoked: connecting and the ticker see   *)
(* to it even when a zombie handler takes the wake-up signal.              *)
(***************************************************************************)
PendingSettles ==
    \A c \in 1..NumCmds : status[c] \in Active ~> (status[c] \notin Active \/ revoked)

=============================================================================
