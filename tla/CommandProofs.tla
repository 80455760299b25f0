--------------------------- MODULE CommandProofs ---------------------------
(***************************************************************************)
(* Proofs about CommandDelivery for any number of commands, attempts,      *)
(* delayed requests and buffered events.                                   *)
(*                                                                         *)
(* That no command is executed twice is not inductive.  The client starts  *)
(* to execute when the server answers 200 to "accepted", and it answers so *)
(* again to a command that is already accepted; what saves the second      *)
(* execution is that a command which was executed is final in the store    *)
(* before the client can report it accepted once more: an event for it     *)
(* that is still buffered is read only after the final report succeeded,   *)
(* and a failed report throws the buffer away.  This is BufferInv.         *)
(*                                                                         *)
(* That commands are accepted in order rests on a second invariant: from   *)
(* the batch of the live handler over the client's buffer to the report it *)
(* is about to send, every older command is passed or comes first; what    *)
(* would break the order closes the stream.  This is OrderInv.             *)
(***************************************************************************)
EXTENDS CommandDelivery, SequenceTheorems, FiniteSetTheorems, TLAPS

\* The result of c may be reported.
Done(c) == executed[c] = 1 \/ c \in Reconnects

\* The store, the history of executions and the commands once accepted.
StoreInv ==
    /\ status \in [Cmds -> Statuses]
    /\ executed \in [Cmds -> Nat]
    /\ taken \subseteq Cmds
    /\ \A c \in Cmds :
        /\ executed[c] <= 1
        /\ executed[c] = 1 => c \in taken
        /\ c \in taken => status[c] \in Terminal \union {"accepted"}
        /\ status[c] \in {"accepted", "succeeded", "failed"} => c \in taken
        /\ status[c] \in {"succeeded", "failed"} => Done(c)

\* What the client is doing.
JobInv ==
    /\ pc \in Handling => job \in [cmd : Cmds, want : Reports]
    /\ pc \in {"dedup", "execute"} => job.want = "accepted"
    /\ pc = "execute" => /\ job.cmd \in taken /\ executed[job.cmd] = 0
                         /\ job.cmd \notin Reconnects
    /\ pc \in {"ask", "send"} /\ job.want # "accepted" => Done(job.cmd)
    /\ pc \in {"dedup", "ask", "send"} /\ job.want = "accepted"
         => (executed[job.cmd] = 1 => status[job.cmd] \in Terminal)

\* The client is reporting the result of c.
Reporting(c) == pc \in {"ask", "send"} /\ job.want # "accepted" /\ job.cmd = c

\* An event for an executed command is not read before the result is stored.
BufferInv ==
    /\ inbox \in Seq(Cmds)
    /\ \A i \in DOMAIN inbox :
          executed[inbox[i]] = 1 => status[inbox[i]] \in Terminal \/ Reporting(inbox[i])

\* A delayed report is one the client was entitled to.
GhostInv ==
    \A g \in ghosts : g.kind # "challenge" =>
        /\ g.job \in [cmd : Cmds, want : Reports]
        /\ g.job.want # "accepted" => Done(g.job.cmd)

BatchInv == batch \in [Handlers -> SUBSET Cmds]

IInv == StoreInv /\ JobInv /\ BufferInv /\ GhostInv /\ BatchInv

\* A command whose request has not inserted it is not in the store.
RequestInv == creating \subseteq Cmds /\ \A c \in creating : status[c] = "none"

USE DEF Active, Terminal, Statuses, Handlers, Handling, Reports

-----------------------------------------------------------------------------
(* The store.                                                              *)

\* What a step of the store leaves to the client: final states stay, nothing
\* is un-accepted, nothing is executed.
StoreKept ==
    /\ StoreInv' /\ executed' = executed
    /\ taken \subseteq taken'
    /\ \A c \in Cmds : status[c] \in Terminal => status'[c] \in Terminal

\* Nothing has been queued.
LEMMA InitInv == Init => IInv
  BY DEF Init, IInv, StoreInv, JobInv, BufferInv, GhostInv, BatchInv, Done

\* The expiry UPDATE ends pending and accepted commands only.
LEMMA ExpireFact ==
    ASSUME StoreInv, NEW from, from \subseteq Active \union {"accepted"},
           status' = Expire(from), UNCHANGED <<taken, executed>>
    PROVE  StoreKept /\ Contract!Lapse
  <1>1. StoreKept
    BY DEF StoreKept, StoreInv, Expire, Done
  <1>2. Contract!Lapse
    <2> DEFINE C == {c \in Cmds : status[c] \in from \ {"accepted"} /\ "server" \in late[c]}
    <2>1. C \in SUBSET {c \in Cmds : Stage[c] = "pending"}
      BY DEF StoreInv, Stage
    <2>2. Stage' = [c \in Cmds |-> IF c \in C THEN "expired" ELSE Stage[c]]
      BY DEF StoreInv, Stage, Expire
    <2> QED BY <2>1, <2>2 DEF Contract!Lapse
  <1> QED BY <1>1, <1>2

\* The transaction of a report runs, or the report is refused before.
ResultStep(j) == StoreResult(j) \/ UNCHANGED <<status, taken>>

LEMMA ResultSteps ==
    ASSUME NEW j, NEW n, deviceCommandResult(j, n)
    PROVE  ResultStep(j)
  BY DEF ResultStep, deviceCommandResult

\* What a report does to the status of the command it is about.
LEMMA ResultMoves ==
    ASSUME status \in [Cmds -> Statuses], NEW j \in [cmd : Cmds, want : Reports], ResultStep(j)
    PROVE  \E to \in Statuses :
             /\ status' = [status EXCEPT ![j.cmd] = to]
             /\ \/ to = status[j.cmd]
                \/ to = "expired" /\ status[j.cmd] \in Active \union {"accepted"}
                \/ to = "accepted" /\ status[j.cmd] \in Active /\ j.want = "accepted"
                \/ to \in {"succeeded", "failed"} /\ status[j.cmd] = "accepted" /\ to = j.want
  <1> DEFINE c == j.cmd
  <1>1. CASE StoreResult(j)
    <2>1. status' = [status EXCEPT ![c] = UpdateCommandResult(j).to]
      BY <1>1 DEF StoreResult
    <2>2. \/ UpdateCommandResult(j).to = status[c]
          \/ /\ UpdateCommandResult(j).to = "expired"
             /\ status[c] \in Active \union {"accepted"}
          \/ /\ UpdateCommandResult(j).to = "accepted"
             /\ status[c] \in Active /\ j.want = "accepted"
          \/ /\ UpdateCommandResult(j).to \in {"succeeded", "failed"}
             /\ status[c] = "accepted" /\ UpdateCommandResult(j).to = j.want
      BY DEF UpdateCommandResult
    <2>3. UpdateCommandResult(j).to \in Statuses
      BY <2>2
    <2> QED BY <2>1, <2>2, <2>3
  <1>2. CASE UNCHANGED <<status, taken>>
    <2>1. status' = [status EXCEPT ![c] = status[c]]
      BY <1>2
    <2> QED BY <2>1
  <1> QED BY <1>1, <1>2 DEF ResultStep

\* A report the client was entitled to is one step of the contract, or none.
LEMMA ResultFact ==
    ASSUME StoreInv, NEW j \in [cmd : Cmds, want : Reports],
           j.want # "accepted" => Done(j.cmd), ResultStep(j), executed' = executed
    PROVE  StoreKept /\ [Contract!Next]_Contract!cvars
  <1> DEFINE c == j.cmd
  <1>1. c \in Cmds /\ status \in [Cmds -> Statuses] /\ taken \subseteq Cmds
    BY DEF StoreInv
  <1>2. PICK to \in Statuses :
          /\ status' = [status EXCEPT ![c] = to]
          /\ \/ to = status[c]
             \/ to = "expired" /\ status[c] \in Active \union {"accepted"}
             \/ to = "accepted" /\ status[c] \in Active /\ j.want = "accepted"
             \/ to \in {"succeeded", "failed"} /\ status[c] = "accepted" /\ to = j.want
    BY <1>1, ResultMoves
  <1>3. /\ status'[c] = to /\ status' \in [Cmds -> Statuses]
        /\ \A d \in Cmds : d # c => status'[d] = status[d]
    BY <1>1, <1>2
  <1>4. taken' = IF to = "accepted" THEN taken \union {c} ELSE taken
    <2>1. CASE StoreResult(j)
      BY <1>3, <2>1 DEF StoreResult
    <2>2. CASE UNCHANGED <<status, taken>>
      BY <1>1, <1>3, <2>2 DEF StoreInv
    <2> QED BY <2>1, <2>2 DEF ResultStep
  <1> HIDE DEF c
  <1>5. StoreKept
    BY <1>1, <1>2, <1>3, <1>4 DEF StoreKept, StoreInv, Done, c
  <1>6. [Contract!Next]_Contract!cvars
    <2>1. CASE to = status[c]
      <3>1. status' = status
        BY <1>1, <1>2, <2>1
      <3>2. taken' = taken
        BY <1>1, <1>4, <2>1 DEF StoreInv
      <3> QED BY <3>1, <3>2 DEF Contract!cvars, Stage
    <2>2. CASE to = "expired" /\ status[c] \in Active
      <3>1. {c} \in SUBSET {d \in Cmds : Stage[d] = "pending"}
        BY <1>1, <2>2 DEF Stage
      <3>2. Stage' = [d \in Cmds |-> IF d \in {c} THEN "expired" ELSE Stage[d]]
        BY <1>1, <1>3, <1>4, <2>2 DEF Stage, StoreInv
      <3>3. Contract!Lapse
        BY <1>4, <2>2, <3>1, <3>2 DEF Contract!Lapse
      <3> QED BY <3>3 DEF Contract!Next
    <2>5. CASE to = "expired" /\ status[c] = "accepted"
      <3>1. c \in taken /\ taken' = taken
        BY <1>1, <1>4, <2>5 DEF StoreInv
      <3>2. Stage' = Stage
        BY <1>1, <1>3, <2>5, <3>1 DEF Stage
      <3> QED BY <3>2 DEF Contract!cvars
    <2>3. CASE to = "accepted" /\ status[c] \in Active
      <3>1. Stage[c] = "pending" /\ Stage' = [Stage EXCEPT ![c] = "accepted"]
        <4>1. Stage[c] = "pending" /\ DOMAIN Stage = Cmds
          BY <1>1, <2>3 DEF Stage, c
        <4>2. Stage' = [d \in Cmds |-> IF d = c THEN "accepted" ELSE Stage[d]]
          BY <1>1, <1>3, <1>4, <2>3 DEF Stage
        <4> QED BY <4>1, <4>2 DEF Stage
      <3>2. Contract!Accept(c)
        BY <1>4, <2>3, <3>1 DEF Contract!Accept
      <3> QED BY <1>1, <3>2 DEF Contract!Next
    <2>4. CASE to \in {"succeeded", "failed"} /\ status[c] = "accepted" /\ to = j.want
      <3>1. Stage[c] = "accepted" /\ Stage' = [Stage EXCEPT ![c] = to]
        BY <1>1, <1>3, <1>4, <2>4 DEF Stage
      <3>2. executed[c] = 1 \/ c \in Reconnects
        BY <2>4 DEF Done, c
      <3>3. Contract!Finish(c, to)
        BY <1>4, <2>4, <3>1, <3>2 DEF Contract!Finish
      <3> QED BY <1>1, <2>4, <3>3 DEF Contract!Next, Contract!Results
    <2> QED BY <1>2, <2>1, <2>2, <2>3, <2>4, <2>5 DEF c
  <1> QED BY <1>5, <1>6

\* A report that is answered 200 is stored.
LEMMA AnsweredFact ==
    ASSUME StoreInv, NEW j \in [cmd : Cmds, want : Reports], NEW n,
           Verified(n), UpdateCommandResult(j).ok, deviceCommandResult(j, n)
    PROVE  /\ status'[j.cmd] = j.want
           /\ j.want = "accepted" => /\ j.cmd \in taken'
                                     /\ status[j.cmd] \in Active \union {"accepted"}
  <1>1. j.cmd \in Cmds /\ status \in [Cmds -> Statuses]
    BY DEF StoreInv
  <1>2. /\ UpdateCommandResult(j).to = j.want
        /\ status[j.cmd] = j.want \/ status[j.cmd] \in Active \union {"accepted"}
    BY DEF UpdateCommandResult
  <1>3. StoreResult(j)
    BY DEF deviceCommandResult
  <1>4. status'[j.cmd] = j.want
    BY <1>1, <1>2, <1>3 DEF StoreResult
  <1> QED BY <1>2, <1>3, <1>4 DEF StoreResult

-----------------------------------------------------------------------------
(* The client and the streams.                                             *)

\* A step of the store while the client stands still and no event for an
\* executed command is added.
LEMMA ClientKept ==
    ASSUME IInv, StoreKept, UNCHANGED <<pc, job>>, inbox' \in Seq(Cmds),
           \A i \in DOMAIN inbox' : \/ \E k \in DOMAIN inbox : inbox'[i] = inbox[k]
                                    \/ executed[inbox'[i]] # 1
    PROVE  JobInv' /\ BufferInv'
  <1>1. JobInv'
    BY DEF IInv, JobInv, StoreKept, Done
  <1>2. BufferInv'
    <2> SUFFICES ASSUME NEW i \in DOMAIN inbox', executed[inbox'[i]] = 1
                 PROVE  (status[inbox[i]] \in Terminal \/ Reporting(inbox[i]))'
      BY DEF BufferInv, StoreKept
    <2>1. PICK k \in DOMAIN inbox : inbox'[i] = inbox[k]
      OBVIOUS
    <2>2. inbox[k] \in Cmds
      BY DEF IInv, BufferInv
    <2>3. status[inbox[k]] \in Terminal \/ Reporting(inbox[k])
      BY <2>1 DEF IInv, BufferInv
    <2> QED BY <2>1, <2>2, <2>3 DEF StoreKept, Reporting
  <1> QED BY <1>1, <1>2

\* Nothing happens in the store.
LEMMA StoreStill ==
    ASSUME StoreInv, UNCHANGED <<status, taken, executed>>
    PROVE  StoreKept /\ UNCHANGED Contract!cvars
  BY DEF StoreInv, StoreKept, Done, Contract!cvars, Stage

\* Delayed requests stay justified.
LEMMA GhostsKept ==
    ASSUME GhostInv, executed' = executed, ghosts' \subseteq ghosts
    PROVE  GhostInv'
  BY DEF GhostInv, Done

\* The client closes its stream, or crashes: nothing buffered is left.
LEMMA ClosedFact ==
    ASSUME StoreKept, BatchInv, inbox' = << >>, Abandon, pc' \in {"idle", "down"}
    PROVE  JobInv' /\ BufferInv' /\ BatchInv'
  <1>1. JobInv'
    BY DEF JobInv
  <1>2. BufferInv'
    BY DEF BufferInv
  <1>3. BatchInv'
    BY DEF BatchInv, Abandon, streams
  <1> QED BY <1>1, <1>2, <1>3

\* A prefix of what was buffered.
LEMMA PrefixFact ==
    ASSUME inbox \in Seq(Cmds), NEW n \in 0..Len(inbox),
           inbox' = SubSeq(inbox, 1, n)
    PROVE  /\ inbox' \in Seq(Cmds)
           /\ \A i \in DOMAIN inbox' : \E k \in DOMAIN inbox : inbox'[i] = inbox[k]
  <1>1. /\ inbox' \in Seq(Cmds) /\ Len(inbox') = n
        /\ \A i \in 1..n : inbox'[i] = inbox[i]
    BY SubSeqProperties
  <1> QED BY <1>1

\* Steps of clocks, of the network and of the server's memory.
LEMMA BackgroundFact ==
    ASSUME IInv,
           \/ \E c \in Cmds, k \in {"server", "client"} : Deadline(c, k)
           \/ \E c \in Cmds : CommandBegins(c) \/ CommandFails(c)
           \/ RevokeDevice \/ ChallengeExpires \/ ServerRestart \/ StreamLost
           \/ ZombieEnds \/ HandlerReturns
           \/ \E g \in ghosts : GhostLost(g)
    PROVE  IInv' /\ UNCHANGED Contract!cvars
  <1> USE DEF store, streams, clientMem, CommandBegins, CommandFails
  <1>1. UNCHANGED <<status, taken, executed, pc, job>> /\ ghosts' \subseteq ghosts
    BY DEF Deadline, RevokeDevice, ChallengeExpires, ServerRestart, StreamLost,
       ZombieEnds, HandlerReturns, GhostLost
  <1>2. inbox' = inbox \/ \E n \in 0..Len(inbox) : inbox' = SubSeq(inbox, 1, n)
    BY DEF Deadline, RevokeDevice, ChallengeExpires, ServerRestart, StreamLost,
       ZombieEnds, HandlerReturns, GhostLost
  <1>3. BatchInv'
    BY DEF IInv, BatchInv, Deadline, RevokeDevice, ChallengeExpires, ServerRestart,
       StreamLost, ZombieEnds, HandlerReturns, GhostLost, Abandon
  <1>4. /\ inbox' \in Seq(Cmds)
        /\ \A i \in DOMAIN inbox' : \E k \in DOMAIN inbox : inbox'[i] = inbox[k]
    BY <1>2, PrefixFact DEF IInv, BufferInv
  <1>5. StoreKept /\ UNCHANGED Contract!cvars
    BY <1>1, StoreStill DEF IInv
  <1>6. JobInv' /\ BufferInv'
    BY <1>1, <1>4, <1>5, ClientKept
  <1> QED BY <1>1, <1>3, <1>5, <1>6, GhostsKept DEF IInv, StoreKept

\* The API queues a command.
LEMMA CommandFact ==
    ASSUME IInv, RequestInv, NEW c \in Cmds, Command(c)
    PROVE  IInv' /\ Contract!Next
  <1>1. /\ status[c] = "none" /\ status' = [status EXCEPT ![c] = "queued"]
        /\ UNCHANGED <<taken, executed, inbox, pc, job, batch, ghosts>>
    BY DEF Command, CreateCommand, streams, clientMem, RequestInv
  <1>2. status \in [Cmds -> Statuses]
    BY DEF IInv, StoreInv
  <1>3. StoreKept
    BY <1>1 DEF IInv, StoreInv, StoreKept, Done
  <1>4. Contract!Queue(c)
    <2>1. Stage[c] = "none" /\ Stage' = [Stage EXCEPT ![c] = "pending"]
      BY <1>1, <1>2 DEF Stage
    <2> QED BY <1>1, <2>1 DEF Contract!Queue
  <1>5. JobInv' /\ BufferInv'
    BY <1>1, <1>3, ClientKept DEF IInv, BufferInv
  <1> QED BY <1>1, <1>3, <1>4, <1>5, GhostsKept
          DEF IInv, StoreKept, BatchInv, Contract!Next

\* The command list, the ticker and the wake-up signal.
LEMMA ExpiryFact ==
    ASSUME IInv, ListCommands \/ \E h \in Handlers : Tick(h) \/ Wake(h)
    PROVE  IInv' /\ Contract!Next
  <1>1. UNCHANGED <<taken, executed, inbox, pc, job, ghosts>>
    BY DEF ListCommands, Tick, Wake, clientMem
  <1>2. status' = Expire(Active) \/ status' = Expire(Active \union {"accepted"})
    BY DEF ListCommands, Tick, Wake, ReadPending
  <1>3. StoreKept /\ Contract!Lapse
    BY <1>1, <1>2, ExpireFact DEF IInv
  <1>4. BatchInv'
    BY DEF IInv, BatchInv, ListCommands, Tick, Wake, ReadPending,
       PendingCommandsForDevice, streams
  <1>5. JobInv' /\ BufferInv'
    BY <1>1, <1>3, ClientKept DEF IInv, BufferInv
  <1> QED BY <1>1, <1>3, <1>4, <1>5, GhostsKept DEF IInv, StoreKept, Contract!Next

\* A command that is written is pending, so it was never executed.
LEMMA WriteFact ==
    ASSUME IInv, NEW h \in Handlers, WriteCommand(h)
    PROVE  IInv' /\ UNCHANGED Contract!cvars
  <1>1. UNCHANGED <<taken, executed, pc, job, ghosts>>
    BY DEF WriteCommand, clientMem
  <1>2. PICK c \in batch[h] :
          /\ \/ /\ status[c] \in Active /\ status' = [status EXCEPT ![c] = "delivered"]
                /\ inbox' = inbox \/ inbox' = Append(inbox, c)
             \/ UNCHANGED <<status, inbox>>
          /\ batch' = [batch EXCEPT ![h] = @ \ {c}]
    BY DEF WriteCommand, Deliverable
  <1>3. c \in Cmds /\ status \in [Cmds -> Statuses] /\ inbox \in Seq(Cmds)
    BY DEF IInv, BatchInv, StoreInv, BufferInv
  <1>4. StoreKept /\ UNCHANGED Contract!cvars
    <2>1. CASE UNCHANGED status
      BY <1>1, <2>1, StoreStill DEF IInv
    <2>2. CASE status[c] \in Active /\ status' = [status EXCEPT ![c] = "delivered"]
      <3>1. Stage' = Stage
        <4>1. \A d \in Cmds : Stage'[d] = Stage[d]
          BY <1>1, <1>3, <2>2 DEF Stage
        <4> QED BY <4>1, Zenon DEF Stage
      <3>2. StoreKept
        BY <1>1, <1>3, <2>2 DEF IInv, StoreInv, StoreKept, Done
      <3> QED BY <1>1, <3>1, <3>2 DEF Contract!cvars
    <2> QED BY <1>2, <2>1, <2>2
  <1>5. /\ inbox' \in Seq(Cmds)
        /\ \A i \in DOMAIN inbox' : \/ \E k \in DOMAIN inbox : inbox'[i] = inbox[k]
                                    \/ executed[inbox'[i]] # 1
    <2>1. CASE inbox' = inbox
      BY <1>3, <2>1
    <2>2. CASE status[c] \in Active /\ inbox' = Append(inbox, c)
      <3>1. executed[c] # 1
        BY <1>3, <2>2 DEF IInv, StoreInv
      <3>2. /\ inbox' \in Seq(Cmds) /\ Len(inbox') = Len(inbox) + 1
            /\ inbox'[Len(inbox) + 1] = c
            /\ \A k \in 1..Len(inbox) : inbox'[k] = inbox[k]
        BY <1>3, <2>2
      <3> QED BY <1>3, <3>1, <3>2
    <2> QED BY <1>2, <2>1, <2>2
  <1>6. BatchInv'
    BY <1>2 DEF IInv, BatchInv
  <1> QED BY <1>1, <1>4, <1>5, <1>6, ClientKept, GhostsKept DEF IInv, StoreKept

\* A delayed request reaches the server.
LEMMA GhostFact ==
    ASSUME IInv, NEW g \in ghosts, GhostArrives(g)
    PROVE  IInv' /\ [Contract!Next]_Contract!cvars
  <1>1. UNCHANGED <<executed, inbox, pc, job, batch>> /\ ghosts' \subseteq ghosts
    BY DEF GhostArrives, streams, clientMem
  <1>2. StoreKept /\ [Contract!Next]_Contract!cvars
    <2>1. CASE g.kind = "challenge"
      BY <1>1, <2>1, StoreStill DEF GhostArrives, IInv
    <2>2. CASE g.kind # "challenge"
      <3>1. ResultStep(g.job)
        BY <2>2, ResultSteps DEF GhostArrives, ResultStep
      <3> QED BY <1>1, <2>2, <3>1, ResultFact DEF IInv, GhostInv
    <2> QED BY <2>1, <2>2
  <1>3. JobInv' /\ BufferInv'
    BY <1>1, <1>2, ClientKept DEF IInv, BufferInv
  <1> QED BY <1>1, <1>2, <1>3, GhostsKept DEF IInv, StoreKept, BatchInv

\* A delayed report is verified.
LEMMA VerifiedFact ==
    ASSUME IInv, NEW g \in ghosts, GhostVerified(g)
    PROVE  IInv' /\ UNCHANGED Contract!cvars
  <1>1. /\ UNCHANGED <<status, taken, executed, inbox, pc, job, batch>> /\ g.kind = "result"
        /\ ghosts' = (ghosts \ {g}) \union {[kind |-> "verified", nonce |-> None, job |-> g.job]}
    BY DEF GhostVerified, store, streams, clientMem
  <1>2. StoreKept /\ UNCHANGED Contract!cvars
    BY <1>1, StoreStill DEF IInv
  <1>3. JobInv' /\ BufferInv'
    BY <1>1, <1>2, ClientKept DEF IInv, BufferInv
  <1>4. GhostInv'
    BY <1>1 DEF IInv, GhostInv, Done
  <1> QED BY <1>1, <1>2, <1>3, <1>4 DEF IInv, StoreKept, BatchInv

\* While no result is being reported, every buffered event of an executed
\* command is of a final one, whatever the client does next.
LEMMA BufferSettled ==
    ASSUME IInv, StoreKept, inbox' \in Seq(Cmds),
           \A i \in DOMAIN inbox' : \E k \in DOMAIN inbox : inbox'[i] = inbox[k],
           \A c \in Cmds : Reporting(c) => status'[c] \in Terminal
    PROVE  BufferInv'
  <1> SUFFICES ASSUME NEW i \in DOMAIN inbox', executed[inbox'[i]] = 1
               PROVE  status'[inbox'[i]] \in Terminal
    BY DEF BufferInv, StoreKept
  <1>1. PICK k \in DOMAIN inbox : inbox'[i] = inbox[k]
    OBVIOUS
  <1>2. inbox[k] \in Cmds
    BY DEF IInv, BufferInv
  <1>3. status[inbox[k]] \in Terminal \/ Reporting(inbox[k])
    BY <1>1 DEF IInv, BufferInv
  <1> QED BY <1>1, <1>2, <1>3 DEF StoreKept

\* A challenge request that is given up brings no report.
LEMMA ChallengeGhost ==
    ASSUME GhostInv, executed' = executed,
           ghosts' = ghosts \/ ghosts' = ghosts \union
               {[kind |-> "challenge", nonce |-> None, job |-> NoJob]}
    PROVE  GhostInv'
  BY DEF GhostInv, Done

\* connect, up to the request that opens the stream, and the end of a stream.
LEMMA IdleFact ==
    ASSUME IInv, \/ AskConnect \/ AskConnectDelayed \/ ConnectFails
                 \/ EndOfStream \/ ClientStart
    PROVE  IInv' /\ UNCHANGED Contract!cvars
  <1> USE DEF AskConnect, AskConnectDelayed, ConnectFails, EndOfStream,
              ClientStart, store, streams, clientMem
  <1>1. UNCHANGED <<status, taken, executed, inbox, batch>>
    OBVIOUS
  <1>2. pc \notin Handling /\ pc' \notin Handling
    OBVIOUS
  <1>3. ghosts' = ghosts \/ ghosts' = ghosts \union
            {[kind |-> "challenge", nonce |-> None, job |-> NoJob]}
    OBVIOUS
  <1>4. StoreKept /\ UNCHANGED Contract!cvars
    BY <1>1, StoreStill DEF IInv
  <1>5. JobInv'
    BY <1>2 DEF JobInv
  <1>6. BufferInv'
    BY <1>1, <1>2, <1>4, BufferSettled DEF IInv, BufferInv, Reporting
  <1>7. GhostInv'
    BY <1>1, <1>3, ChallengeGhost DEF IInv
  <1> QED BY <1>1, <1>4, <1>5, <1>6, <1>7 DEF IInv, StoreKept, BatchInv

\* The request that opens the stream is verified.
LEMMA ConnectFact ==
    ASSUME IInv, Connect \/ ConnectAnswerLost
    PROVE  IInv' /\ Contract!Next
  <1> USE DEF Connect, ConnectAnswerLost
  <1>1. /\ UNCHANGED <<taken, executed, ghosts>> /\ status' = Expire(Active)
        /\ pc = "prove" /\ pc' \in {"reading", "idle"}
        /\ inbox' = inbox \/ inbox' = << >>
    BY DEF ReadPending
  <1>2. StoreKept /\ Contract!Lapse
    BY <1>1, ExpireFact DEF IInv
  <1>3. JobInv'
    BY <1>1 DEF JobInv
  <1>4. BufferInv'
    <2>1. CASE inbox' = << >>
      BY <2>1 DEF BufferInv
    <2>2. CASE inbox' = inbox
      BY <1>1, <1>2, <2>2, BufferSettled DEF IInv, BufferInv, Reporting
    <2> QED BY <1>1, <2>1, <2>2
  <1>5. BatchInv'
    BY DEF IInv, BatchInv, ReadPending, PendingCommandsForDevice
  <1> QED BY <1>1, <1>2, <1>3, <1>4, <1>5, GhostsKept
          DEF IInv, StoreKept, Contract!Next

\* An event is read: it begins to be handled, or ends the stream.
LEMMA ReadFact ==
    ASSUME IInv, ReadCommand
    PROVE  IInv' /\ UNCHANGED Contract!cvars
  <1>1. /\ UNCHANGED <<status, taken, executed, ghosts>>
        /\ pc = "reading" /\ inbox # << >>
    BY DEF ReadCommand, store
  <1>2. StoreKept /\ UNCHANGED Contract!cvars
    BY <1>1, StoreStill DEF IInv
  <1>3. CASE CloseStream
    <2>1. JobInv' /\ BufferInv' /\ BatchInv'
      BY <1>2, <1>3, ClosedFact DEF CloseStream, IInv
    <2> QED BY <1>1, <1>2, <2>1, GhostsKept DEF IInv, StoreKept
  <1>4. CASE ~CloseStream
    <2> DEFINE c == Head(inbox)
    <2>1. /\ pc' = "dedup" /\ job' = [cmd |-> c, want |-> "accepted"]
          /\ inbox' = Tail(inbox) /\ batch' = batch
      BY <1>4 DEF ReadCommand, streams
    <2>2. /\ inbox \in Seq(Cmds) /\ c = inbox[1] /\ 1 \in DOMAIN inbox
          /\ c \in Cmds
      BY <1>1 DEF IInv, BufferInv
    <2>3. executed[c] = 1 => status[c] \in Terminal
      BY <1>1, <2>2 DEF IInv, BufferInv, Reporting
    <2> HIDE DEF c
    <2>4. JobInv'
      BY <1>1, <2>1, <2>2, <2>3 DEF JobInv
    <2>5. /\ inbox' \in Seq(Cmds)
          /\ \A i \in DOMAIN inbox' : \E k \in DOMAIN inbox : inbox'[i] = inbox[k]
      <3>1. /\ Tail(inbox) \in Seq(Cmds) /\ Len(Tail(inbox)) = Len(inbox) - 1
            /\ \A i \in 1..Len(Tail(inbox)) : Tail(inbox)[i] = inbox[i + 1]
        BY <1>1, <2>2, HeadTailProperties
      <3> QED BY <2>1, <2>2, <3>1
    <2>6. BufferInv'
      BY <1>1, <1>2, <2>5, BufferSettled DEF Reporting
    <2> QED BY <1>1, <1>2, <2>1, <2>4, <2>6, GhostsKept
            DEF IInv, StoreKept, BatchInv
  <1> QED BY <1>3, <1>4

\* A remembered command is skipped, a challenge is answered.
LEMMA HandleFact ==
    ASSUME IInv, Dedup \/ AskReport
    PROVE  IInv' /\ UNCHANGED Contract!cvars
  <1>1. /\ UNCHANGED <<status, taken, executed, inbox, batch, ghosts>>
        /\ \/ pc = "dedup" /\ pc' = "reading"
           \/ pc = "dedup" /\ pc' = "ask" /\ job' = job
           \/ pc = "ask" /\ pc' = "send" /\ job' = job
    BY DEF Dedup, AskReport, store, streams
  <1>2. StoreKept /\ UNCHANGED Contract!cvars
    BY <1>1, StoreStill DEF IInv
  <1>3. JobInv'
    BY <1>1 DEF IInv, JobInv, Done
  <1>4. BufferInv'
    <2>1. CASE pc = "dedup"
      BY <1>1, <1>2, <2>1, BufferSettled DEF IInv, BufferInv, Reporting
    <2>2. CASE pc = "ask"
      BY <1>1, <2>2 DEF IInv, BufferInv, Reporting
    <2> QED BY <1>1, <2>1, <2>2
  <1> QED BY <1>1, <1>2, <1>3, <1>4, GhostsKept DEF IInv, StoreKept, BatchInv

\* An attempt to report fails: the same job again, or a closed stream.
LEMMA NextAttemptFact ==
    ASSUME IInv, StoreKept, NextAttempt, pc \in {"ask", "send"}
    PROVE  JobInv' /\ BufferInv' /\ BatchInv'
  <1>1. CASE CloseStream
    BY <1>1, ClosedFact DEF CloseStream, IInv
  <1>2. CASE ~CloseStream
    <2>1. pc' = "ask" /\ UNCHANGED <<job, inbox, batch>>
      BY <1>2 DEF NextAttempt, streams
    <2>2. JobInv'
      BY <2>1 DEF IInv, JobInv, StoreKept, Done
    <2>3. BufferInv'
      <3>1. \A i \in DOMAIN inbox : inbox[i] \in Cmds
        BY DEF IInv, BufferInv
      <3> QED BY <2>1, <3>1 DEF IInv, BufferInv, Reporting, StoreKept
    <2> QED BY <2>1, <2>2, <2>3 DEF IInv, BatchInv
  <1> QED BY <1>1, <1>2

\* Requests of a report that fail, arrive unanswered, or late.
LEMMA FailedReportFact ==
    ASSUME IInv, AskReportFails \/ SendReportUnanswered \/ SendReportTimesOut
    PROVE  IInv' /\ [Contract!Next]_Contract!cvars
  <1>1. executed' = executed /\ NextAttempt /\ pc \in {"ask", "send"}
    BY DEF AskReportFails, SendReportUnanswered, SendReportTimesOut
  <1>2. /\ job \in [cmd : Cmds, want : Reports]
        /\ job.want # "accepted" => Done(job.cmd)
    BY <1>1 DEF IInv, JobInv
  <1>3. StoreKept /\ [Contract!Next]_Contract!cvars
    <2>1. CASE SendReportUnanswered
      BY <1>1, <1>2, <2>1, ResultFact, ResultSteps DEF SendReportUnanswered, IInv
    <2>2. CASE AskReportFails \/ SendReportTimesOut
      BY <1>1, <2>2, StoreStill DEF AskReportFails, SendReportTimesOut, store, IInv
    <2> QED BY <2>1, <2>2
  <1>4. GhostInv'
    <2>1. CASE SendReportUnanswered
      BY <1>1, <2>1, GhostsKept DEF SendReportUnanswered, IInv
    <2>2. CASE AskReportFails
      BY <1>1, <2>2, ChallengeGhost DEF AskReportFails, IInv
    <2>3. CASE SendReportTimesOut
      <3>1. ghosts' \subseteq
                ghosts \union {[kind |-> "result", nonce |-> nonce, job |-> job]}
        BY <2>3 DEF SendReportTimesOut
      <3> QED BY <1>1, <1>2, <3>1 DEF GhostInv, Done, IInv
    <2> QED BY <2>1, <2>2, <2>3
  <1> QED BY <1>1, <1>3, <1>4, NextAttemptFact DEF IInv, StoreKept

\* A report is answered 200: the command is executed next only if it never
\* was, and a reported result is final in the store.
LEMMA ReportFact ==
    ASSUME IInv, SendReport
    PROVE  IInv' /\ [Contract!Next]_Contract!cvars
  <1>1. /\ executed' = executed /\ ghosts' = ghosts /\ pc = "send"
        /\ Verified(nonce) /\ UpdateCommandResult(job).ok
        /\ deviceCommandResult(job, nonce) /\ Reported
    BY DEF SendReport
  <1>2. /\ job \in [cmd : Cmds, want : Reports]
        /\ job.want # "accepted" => Done(job.cmd)
    BY <1>1 DEF IInv, JobInv
  <1>3. StoreKept /\ [Contract!Next]_Contract!cvars
    BY <1>1, <1>2, ResultFact, ResultSteps DEF IInv
  <1>4. /\ status'[job.cmd] = job.want
        /\ job.want = "accepted" => /\ job.cmd \in taken'
                                    /\ status[job.cmd] \in Active \union {"accepted"}
    BY <1>1, <1>2, AnsweredFact DEF IInv
  <1>5. CASE job.want = "accepted"
    <2>1. executed[job.cmd] = 0
      BY <1>1, <1>2, <1>4, <1>5 DEF IInv, JobInv, StoreInv
    <2>2. /\ UNCHANGED <<inbox, batch>>
          /\ \/ /\ job.cmd \in Reconnects /\ pc' = "ask"
                /\ job' = [job EXCEPT !.want = "succeeded"]
             \/ job.cmd \notin Reconnects /\ pc' = "execute" /\ job' = job
      BY <1>1, <1>5 DEF Reported, streams
    <2>3. JobInv'
      <3>1. CASE job.cmd \in Reconnects
        BY <1>2, <2>2, <3>1 DEF JobInv, Done
      <3>2. CASE job.cmd \notin Reconnects
        BY <1>1, <1>2, <1>4, <1>5, <2>1, <2>2, <3>2 DEF JobInv
      <3> QED BY <3>1, <3>2
    <2>4. BufferInv'
      BY <1>3, <1>5, <2>2, BufferSettled DEF IInv, BufferInv, Reporting
    <2> QED BY <1>1, <1>3, <2>2, <2>3, <2>4, GhostsKept
            DEF IInv, StoreKept, BatchInv
  <1>6. CASE job.want # "accepted"
    <2>1. \A c \in Cmds : Reporting(c) => status'[c] \in Terminal
      BY <1>2, <1>4, <1>6 DEF Reporting
    <2>2. CASE CloseStream
      <3>1. JobInv' /\ BufferInv' /\ BatchInv'
        BY <1>3, <2>2, ClosedFact DEF CloseStream, IInv
      <3> QED BY <1>1, <1>3, <3>1, GhostsKept DEF IInv, StoreKept
    <2>3. CASE ~CloseStream
      <3>1. pc' = "reading" /\ UNCHANGED <<inbox, batch>>
        BY <1>1, <1>6, <2>3 DEF Reported, streams
      <3>2. JobInv'
        BY <3>1 DEF JobInv
      <3>3. BufferInv'
        BY <1>3, <2>1, <3>1, BufferSettled DEF IInv, BufferInv
      <3> QED BY <1>1, <1>3, <3>1, <3>2, <3>3, GhostsKept
              DEF IInv, StoreKept, BatchInv
    <2> QED BY <2>2, <2>3
  <1> QED BY <1>5, <1>6

\* executeCommand runs a command that the store once held accepted, that is
\* not final and that was not executed before.
LEMMA ExecuteFact ==
    ASSUME IInv, Execute
    PROVE  IInv' /\ Contract!Next
  <1> DEFINE c == job.cmd
  <1>1. /\ pc = "execute" /\ pc' = "ask"
        /\ executed' = [executed EXCEPT ![c] = @ + 1]
        /\ job'.cmd = c /\ job'.want \in {"succeeded", "failed"}
        /\ job' \in [cmd : Cmds, want : Reports]
        /\ UNCHANGED <<status, taken, inbox, batch, ghosts>>
    BY DEF Execute, store, streams, IInv, JobInv
  <1>2. /\ c \in Cmds /\ c \in taken /\ executed[c] = 0 /\ c \notin Reconnects
        /\ executed \in [Cmds -> Nat] /\ status \in [Cmds -> Statuses]
    BY <1>1 DEF IInv, JobInv, StoreInv
  <1>3. status[c] \in {"accepted", "expired"}
    BY <1>2 DEF IInv, StoreInv, Done
  <1> HIDE DEF c
  <1>4. executed' = [executed EXCEPT ![c] = 1]
    BY <1>1, <1>2
  <1>5. StoreInv'
    BY <1>1, <1>2, <1>4 DEF IInv, StoreInv, Done
  <1>6. JobInv'
    BY <1>1, <1>2, <1>4 DEF JobInv, Done
  <1>7. BufferInv'
    <2>1. \A i \in DOMAIN inbox : inbox[i] \in Cmds
      BY DEF IInv, BufferInv
    <2>2. \A i \in DOMAIN inbox : executed[inbox[i]] = 1 => status[inbox[i]] \in Terminal
      BY <1>1 DEF IInv, BufferInv, Reporting
    <2>3. \A d \in Cmds : d # c => executed'[d] = executed[d]
      BY <1>2, <1>4
    <2> QED BY <1>1, <2>1, <2>2, <2>3 DEF IInv, BufferInv, Reporting
  <1>8. \A d \in Cmds : Done(d) => Done(d)'
    BY <1>2, <1>4 DEF Done
  <1>9. GhostInv'
    BY <1>1, <1>8 DEF IInv, GhostInv
  <1>10. Contract!Run(c)
    <2>1. Stage' = Stage /\ Stage[c] = "accepted"
      BY <1>1, <1>2, <1>3 DEF Stage
    <2> QED BY <1>1, <1>2, <1>4, <2>1 DEF Contract!Run
  <1> QED BY <1>1, <1>2, <1>5, <1>6, <1>7, <1>9, <1>10
          DEF IInv, BatchInv, Contract!Next

\* The client process dies.
LEMMA CrashFact ==
    ASSUME IInv, ClientCrash
    PROVE  IInv' /\ UNCHANGED Contract!cvars
  <1>1. /\ UNCHANGED <<status, taken, executed, ghosts>>
        /\ pc' = "down" /\ inbox' = << >> /\ Abandon
    BY DEF ClientCrash, store
  <1>2. StoreKept /\ UNCHANGED Contract!cvars
    BY <1>1, StoreStill DEF IInv
  <1>3. JobInv' /\ BufferInv' /\ BatchInv'
    BY <1>1, <1>2, ClosedFact DEF IInv
  <1> QED BY <1>1, <1>2, <1>3, GhostsKept DEF IInv, StoreKept

\* Every step keeps the invariant and is a step of the contract, or none.
LEMMA NextFact ==
    ASSUME IInv, RequestInv, [Next]_vars
    PROVE  IInv' /\ [Contract!Next]_Contract!cvars
  <1>1. CASE ServerStep
    BY <1>1, BackgroundFact, CommandFact, ExpiryFact, WriteFact, GhostFact, VerifiedFact
    DEF ServerStep
  <1>2. CASE ClientStep
    BY <1>2, IdleFact, ConnectFact, ReadFact, HandleFact, FailedReportFact,
       ReportFact, ExecuteFact, CrashFact
    DEF ClientStep
  <1>3. CASE UNCHANGED vars
    <2>1. UNCHANGED <<status, taken, executed, pc, job, inbox, ghosts, batch>>
      BY <1>3 DEF vars
    <2>2. StoreKept /\ UNCHANGED Contract!cvars
      BY <2>1, StoreStill DEF IInv
    <2>3. JobInv' /\ BufferInv'
      BY <2>1, <2>2, ClientKept DEF IInv, BufferInv
    <2> QED BY <2>1, <2>2, <2>3, GhostsKept DEF IInv, StoreKept, BatchInv
  <1> QED BY <1>1, <1>2, <1>3 DEF Next

\* Only its own request puts a command into the store.
LEMMA NoneKept ==
    ASSUME IInv, [Next]_vars, NEW c \in Cmds, status[c] = "none", ~Command(c)
    PROVE  status'[c] = "none"
  <1> USE DEF store
  <1>t. status \in [Cmds -> Statuses]
    BY DEF IInv, StoreInv
  <1>1. ASSUME NEW j \in [cmd : Cmds, want : Reports], ResultStep(j) PROVE status'[c] = "none"
    <2>1. PICK to \in Statuses :
            /\ status' = [status EXCEPT ![j.cmd] = to]
            /\ \/ to = status[j.cmd]
               \/ to = "expired" /\ status[j.cmd] \in Active \union {"accepted"}
               \/ to = "accepted" /\ status[j.cmd] \in Active /\ j.want = "accepted"
               \/ to \in {"succeeded", "failed"} /\ status[j.cmd] = "accepted" /\ to = j.want
      BY <1>t, <1>1, ResultMoves
    <2> QED BY <1>t, <2>1
  <1>2. CASE SendReport \/ SendReportUnanswered
    <2>1. job \in [cmd : Cmds, want : Reports] /\ deviceCommandResult(job, nonce)
      BY <1>2 DEF SendReport, SendReportUnanswered, IInv, JobInv
    <2> QED BY <1>1, <2>1, ResultSteps
  <1>3. ASSUME NEW g \in ghosts, GhostArrives(g) PROVE status'[c] = "none"
    <2>1. CASE g.kind = "challenge"
      BY <1>3, <2>1 DEF GhostArrives
    <2>2. CASE g.kind # "challenge"
      <3>1. ResultStep(g.job) /\ g.job \in [cmd : Cmds, want : Reports]
        BY <1>3, <2>2, ResultSteps DEF GhostArrives, ResultStep, IInv, GhostInv
      <3> QED BY <1>1, <3>1
    <2> QED BY <2>1, <2>2
  <1>4. CASE \/ ListCommands \/ Connect \/ ConnectAnswerLost
             \/ \E h \in Handlers : Tick(h) \/ Wake(h)
    <2>1. status' = Expire(Active) \/ status' = Expire(Active \union {"accepted"})
      BY <1>4 DEF ListCommands, Tick, Wake, Connect, ConnectAnswerLost, ReadPending
    <2> QED BY <2>1 DEF Expire
  <1>5. ASSUME NEW h \in Handlers, WriteCommand(h) PROVE status'[c] = "none"
    <2>1. \/ status' = status
          \/ \E d \in Cmds : status[d] \in Active /\ status' = [status EXCEPT ![d] = "delivered"]
      BY <1>5 DEF WriteCommand, Deliverable, IInv, BatchInv
    <2> QED BY <1>t, <2>1
  <1>6. ASSUME NEW d \in Cmds, Command(d) PROVE status'[c] = "none"
    BY <1>t, <1>6 DEF Command, CreateCommand
  <1>7. CASE \/ (\E d \in Cmds : CommandBegins(d) \/ CommandFails(d))
             \/ (\E d \in Cmds, k \in {"server", "client"} : Deadline(d, k))
             \/ RevokeDevice \/ ChallengeExpires \/ ServerRestart \/ StreamLost \/ ZombieEnds
             \/ HandlerReturns \/ (\E g \in ghosts : GhostVerified(g) \/ GhostLost(g))
             \/ AskConnect \/ AskConnectDelayed \/ ConnectFails \/ EndOfStream \/ ReadCommand
             \/ Dedup \/ AskReport \/ AskReportFails \/ SendReportTimesOut \/ Execute
             \/ ClientCrash \/ ClientStart \/ UNCHANGED vars
    BY <1>7 DEF CommandBegins, CommandFails, Deadline, RevokeDevice, ChallengeExpires,
         ServerRestart, StreamLost, ZombieEnds, HandlerReturns, GhostVerified, GhostLost,
         AskConnect, AskConnectDelayed, ConnectFails, EndOfStream, ReadCommand, Dedup, AskReport,
         AskReportFails, SendReportTimesOut, Execute, ClientCrash, ClientStart, vars
  <1> QED BY <1>2, <1>3, <1>4, <1>5, <1>6, <1>7 DEF Next, ServerStep, ClientStep

\* What a step does to the requests that are being served.
LEMMA RequestSteps ==
    ASSUME [Next]_vars
    PROVE  \/ requests' = requests
           \/ creating' = {} /\ earlier' = earlier
           \/ \E c \in Cmds : CommandBegins(c) \/ Command(c) \/ CommandFails(c)
  BY DEF Next, ServerStep, ClientStep, Deadline, ListCommands, RevokeDevice, requests,
     ChallengeExpires, ServerRestart, StreamLost, ZombieEnds, Tick, Wake, WriteCommand,
     HandlerReturns, GhostArrives, GhostVerified, GhostLost, AskConnect, AskConnectDelayed,
     Connect, ConnectAnswerLost, ConnectFails, EndOfStream, ReadCommand, Dedup, AskReport,
     AskReportFails, SendReport, SendReportUnanswered, SendReportTimesOut, Execute,
     ClientCrash, ClientStart, vars

\* Every step keeps the requests' commands out of the store.
LEMMA RequestNext ==
    ASSUME IInv, RequestInv, [Next]_vars
    PROVE  RequestInv'
  <1> USE DEF requests
  <1>1. CASE \E c \in Cmds : Command(c)
    <2>1. PICK c \in Cmds : creating' = creating \ {c} /\ status' = [status EXCEPT ![c] = "queued"]
      BY <1>1 DEF Command, CreateCommand
    <2> QED BY <2>1 DEF RequestInv, IInv, StoreInv
  <1>2. CASE ~\E c \in Cmds : Command(c)
    <2>1. \A c \in Cmds : status[c] = "none" => status'[c] = "none"
      BY <1>2, NoneKept
    <2>2. \A c \in creating' : c \in Cmds /\ status[c] = "none"
      <3>1. CASE requests' = requests \/ creating' = {}
        BY <3>1 DEF RequestInv
      <3>2. ASSUME NEW c \in Cmds, CommandBegins(c) \/ CommandFails(c)
            PROVE  \A d \in creating' : d \in Cmds /\ status[d] = "none"
        <4>1. c <= c
          BY CommandAssumption DEF Cmds
        <4> QED BY <3>2, <4>1 DEF CommandBegins, CommandFails, RequestInv
      <3> QED BY <1>2, <3>1, <3>2, RequestSteps
    <2> QED BY <2>1, <2>2 DEF RequestInv
  <1> QED BY <1>1, <1>2

-----------------------------------------------------------------------------
\* The inductive invariant holds in every reachable state.
THEOREM Invariance == Spec => [](IInv /\ RequestInv)
  <1>1. Init => IInv /\ RequestInv
    BY InitInv DEF Init, RequestInv
  <1>2. IInv /\ RequestInv /\ [Next]_vars => IInv' /\ RequestInv'
    BY NextFact, RequestNext
  <1> QED BY <1>1, <1>2, PTL DEF Spec

\* No command is executed twice, whatever is lost, repeated or delayed and
\* however often either process restarts, for any number of commands,
\* attempts and delayed requests.
THEOREM NoCommandTwice == Spec => []ExecutedAtMostOnce
  <1>1. IInv => ExecutedAtMostOnce
    BY DEF IInv, StoreInv, ExecutedAtMostOnce
  <1> QED BY <1>1, Invariance, PTL

\* Streams, challenges, reports, retries and restarts implement the contract
\* between the command list and the device.
THEOREM ContractRefinement == Spec => ImplementsContract
  <1>1. Init => Contract!Init
    BY DEF Init, Contract!Init, Stage
  <1>2. IInv /\ RequestInv /\ [Next]_vars => [Contract!Next]_Contract!cvars
    BY NextFact
  <1> QED BY <1>1, <1>2, Invariance, PTL
          DEF Spec, ImplementsContract, Contract!Spec

-----------------------------------------------------------------------------
(* The order of the commands.                                              *)

\* Command c was created and needs no attention any more: it is accepted,
\* final or past its deadline.
Passed(c) == status[c] \notin Active \union {"none"} \/ "server" \in late[c]

\* The client is about to report c accepted.
Taking(c) == pc \in {"dedup", "ask", "send"} /\ job.want = "accepted" /\ job.cmd = c

\* What was stored when a request began has an earlier created_at and stays
\* stored.
CreatedInOrder ==
    /\ earlier \in [Cmds -> SUBSET Cmds]
    /\ \A d \in Cmds : \A c \in earlier[d] : c < d /\ status[c] # "none"

\* Every command older than one the handler has still to write is passed, or
\* the client gets it first.
BatchInOrder ==
    /\ batch["live"] # {} => "live" \in open
    /\ \A d \in batch["live"] :
         /\ status[d] # "none"
         /\ \A c \in earlier[d] :
              \/ Passed(c) \/ Taking(c) \/ c \in batch["live"]
              \/ \E i \in DOMAIN inbox : inbox[i] = c

\* Every command older than a buffered one is passed, or before it.
InboxInOrder ==
    \A i \in DOMAIN inbox :
         /\ status[inbox[i]] # "none"
         /\ \A c \in earlier[inbox[i]] :
              \/ Passed(c) \/ Taking(c)
              \/ \E k \in DOMAIN inbox : k < i /\ inbox[k] = c

\* Every command older than d is passed.
ClearTo(d) == status[d] # "none" /\ \A c \in earlier[d] : Passed(c)

\* Only such commands are reported accepted, by the client or late.
ReportsInOrder ==
    /\ \A d \in Cmds : Taking(d) => ClearTo(d)
    /\ \A g \in ghosts : g.kind # "challenge" /\ g.job.want = "accepted" => ClearTo(g.job.cmd)

\* The invariant of the order.
OrderInv ==
    /\ late \in [Cmds -> SUBSET {"server", "client"}]
    /\ CreatedInOrder /\ BatchInOrder /\ InboxInOrder /\ ReportsInOrder
    /\ handled \subseteq taken

\* What every step does to the store: no command is un-created, revived or
\* given more time.
Forward ==
    /\ late' \in [Cmds -> SUBSET {"server", "client"}]
    /\ \A c \in Cmds : /\ late[c] \subseteq late'[c]
                       /\ status[c] # "none" => status'[c] # "none"
                       /\ Passed(c) => Passed(c)'
                       /\ status[c] # "none" => earlier'[c] = earlier[c]

\* A step that leaves the deadlines alone and moves every status forward.
LEMMA ForwardStatus ==
    ASSUME OrderInv, late' = late, earlier' = earlier,
           \A c \in Cmds : \/ status'[c] = status[c]
                           \/ /\ status[c] # "none"
                              /\ status'[c] \in {"accepted", "expired", "succeeded", "failed"}
                           \/ status[c] \in Active /\ status'[c] = "delivered"
    PROVE  Forward /\ CreatedInOrder'
  <1>1. \A c \in Cmds : /\ status[c] # "none" <=> status'[c] # "none"
                        /\ Passed(c) => Passed(c)'
    BY DEF Passed
  <1>2. CreatedInOrder'
    BY <1>1 DEF CreatedInOrder, OrderInv
  <1> QED BY <1>1, <1>2 DEF Forward, OrderInv

\* The report of a result.
LEMMA ForwardResult ==
    ASSUME IInv, OrderInv, UNCHANGED <<late, earlier>>,
           NEW j \in [cmd : Cmds, want : Reports], ResultStep(j)
    PROVE  Forward /\ CreatedInOrder'
  <1>1. status \in [Cmds -> Statuses]
    BY DEF IInv, StoreInv
  <1>2. PICK to \in Statuses :
          /\ status' = [status EXCEPT ![j.cmd] = to]
          /\ \/ to = status[j.cmd]
             \/ to = "expired" /\ status[j.cmd] \in Active \union {"accepted"}
             \/ to = "accepted" /\ status[j.cmd] \in Active /\ j.want = "accepted"
             \/ to \in {"succeeded", "failed"} /\ status[j.cmd] = "accepted" /\ to = j.want
    BY <1>1, ResultMoves
  <1>3. \A c \in Cmds : \/ status'[c] = status[c]
                        \/ /\ status[c] # "none"
                           /\ status'[c] \in {"accepted", "expired", "succeeded", "failed"}
    BY <1>1, <1>2
  <1> QED BY <1>3, ForwardStatus

\* Every step moves the store forward, and commands are created in order.
LEMMA ForwardFact ==
    ASSUME IInv, RequestInv, OrderInv, [Next]_vars
    PROVE  Forward /\ CreatedInOrder'
  <1> USE DEF store, streams, clientMem, requests
  <1>t. status \in [Cmds -> Statuses] /\ late \in [Cmds -> SUBSET {"server", "client"}]
    BY DEF IInv, StoreInv, OrderInv
  <1>e. earlier \in [Cmds -> SUBSET Cmds]
    BY DEF OrderInv, CreatedInOrder
  <1>0. ASSUME UNCHANGED <<status, late, earlier>> PROVE Forward /\ CreatedInOrder'
    BY <1>0, ForwardStatus
  <1>1. ASSUME NEW c \in Cmds, Command(c) PROVE Forward /\ CreatedInOrder'
    <2>1. /\ status[c] = "none" /\ earlier' = earlier
          /\ status' = [status EXCEPT ![c] = "queued"] /\ late' = late
      BY <1>1 DEF Command, CreateCommand, RequestInv
    <2>2. \A d \in Cmds : /\ d # c => status'[d] = status[d]
                          /\ status[d] # "none" => status'[d] # "none"
                          /\ Passed(d) => Passed(d)'
      BY <1>t, <2>1 DEF Passed
    <2>3. Forward
      BY <1>t, <2>1, <2>2 DEF Forward
    <2>4. CreatedInOrder'
      BY <1>e, <2>1, <2>2 DEF CreatedInOrder, OrderInv
    <2> QED BY <2>3, <2>4
  <1>9. ASSUME NEW c \in Cmds, CommandBegins(c) PROVE Forward /\ CreatedInOrder'
    <2>1. /\ \A d \in Cmds : c <= d => status[d] = "none"
          /\ earlier' = [earlier EXCEPT ![c] = {d \in Cmds : status[d] # "none"}]
          /\ UNCHANGED <<status, late>>
      BY <1>9 DEF CommandBegins
    <2>2. status[c] = "none" /\ \A d \in Cmds : status[d] # "none" => d < c
      BY <2>1, CommandAssumption DEF Cmds
    <2>3. Forward
      BY <1>t, <1>e, <2>1, <2>2 DEF Forward, Passed
    <2>4. CreatedInOrder'
      <3>1. earlier' \in [Cmds -> SUBSET Cmds]
        BY <1>e, <2>1
      <3>2. ASSUME NEW d \in Cmds, NEW b \in earlier'[d] PROVE b < d /\ status'[b] # "none"
        <4>1. CASE d = c
          BY <1>e, <2>1, <2>2, <3>2, <4>1
        <4>2. CASE d # c
          <5>1. b \in earlier[d]
            BY <1>e, <2>1, <3>2, <4>2
          <5> QED BY <2>1, <5>1 DEF OrderInv, CreatedInOrder
        <4> QED BY <4>1, <4>2
      <3> QED BY <3>1, <3>2 DEF CreatedInOrder
    <2> QED BY <2>3, <2>4
  <1>2. ASSUME NEW c \in Cmds, NEW k \in {"server", "client"}, Deadline(c, k)
        PROVE  Forward /\ CreatedInOrder'
    <2>1. /\ late' = [late EXCEPT ![c] = @ \union {k}] /\ status' = status /\ earlier' = earlier
      BY <1>2 DEF Deadline
    <2>2. /\ late' \in [Cmds -> SUBSET {"server", "client"}]
          /\ \A d \in Cmds : late[d] \subseteq late'[d]
      BY <1>t, <2>1
    <2> QED BY <2>1, <2>2 DEF Forward, Passed, CreatedInOrder, OrderInv
  <1>3. ASSUME NEW from \in SUBSET (Active \union {"accepted"}), status' = Expire(from),
               late' = late, earlier' = earlier
        PROVE  Forward /\ CreatedInOrder'
    <2>1. \A c \in Cmds : \/ status'[c] = status[c]
                          \/ status[c] # "none" /\ status'[c] = "expired"
      BY <1>3 DEF Expire
    <2> QED BY <1>3, <2>1, ForwardStatus
  <1>4. CASE \/ ListCommands \/ Connect \/ ConnectAnswerLost
             \/ \E h \in Handlers : Tick(h) \/ Wake(h)
    <2>1. /\ late' = late /\ earlier' = earlier
          /\ status' = Expire(Active) \/ status' = Expire(Active \union {"accepted"})
      BY <1>4 DEF ListCommands, Tick, Wake, Connect, ConnectAnswerLost, ReadPending
    <2> QED BY <1>3, <2>1
  <1>5. ASSUME NEW h \in Handlers, WriteCommand(h) PROVE Forward /\ CreatedInOrder'
    <2>1. late' = late /\ earlier' = earlier
      BY <1>5 DEF WriteCommand
    <2>2. PICK c \in batch[h] :
             \/ status' = status
             \/ status[c] \in Active /\ status' = [status EXCEPT ![c] = "delivered"]
      BY <1>5 DEF WriteCommand, Deliverable
    <2>3. \A d \in Cmds : \/ status'[d] = status[d]
                          \/ status[d] \in Active /\ status'[d] = "delivered"
      BY <1>t, <2>2
    <2> QED BY <2>1, <2>3, ForwardStatus
  <1>6. ASSUME NEW g \in ghosts, GhostArrives(g) PROVE Forward /\ CreatedInOrder'
    <2>1. CASE g.kind = "challenge"
      BY <1>0, <1>6, <2>1 DEF GhostArrives
    <2>2. CASE g.kind # "challenge"
      <3>1. ResultStep(g.job) /\ UNCHANGED <<late, earlier>>
        BY <1>6, <2>2, ResultSteps DEF GhostArrives, ResultStep
      <3> QED BY <2>2, <3>1, ForwardResult DEF IInv, GhostInv
    <2> QED BY <2>1, <2>2
  <1>7. CASE SendReport \/ SendReportUnanswered
    <2>1. /\ UNCHANGED <<late, earlier>> /\ deviceCommandResult(job, nonce)
          /\ job \in [cmd : Cmds, want : Reports]
      BY <1>7 DEF SendReport, SendReportUnanswered, IInv, JobInv
    <2> QED BY <2>1, ForwardResult, ResultSteps
  <1>8. CASE \/ (\E c \in Cmds : CommandFails(c))
             \/ RevokeDevice \/ ChallengeExpires \/ ServerRestart \/ StreamLost \/ ZombieEnds
             \/ HandlerReturns \/ (\E g \in ghosts : GhostVerified(g) \/ GhostLost(g))
             \/ AskConnect \/ AskConnectDelayed \/ ConnectFails \/ EndOfStream \/ ReadCommand
             \/ Dedup \/ AskReport \/ AskReportFails \/ SendReportTimesOut \/ Execute
             \/ ClientCrash \/ ClientStart \/ UNCHANGED vars
    <2>1. UNCHANGED <<status, late, earlier>>
      BY <1>8 DEF CommandFails, RevokeDevice, ChallengeExpires, ServerRestart, StreamLost,
           ZombieEnds, HandlerReturns, GhostVerified, GhostLost, AskConnect, AskConnectDelayed,
           ConnectFails, EndOfStream, ReadCommand, Dedup, AskReport, AskReportFails,
           SendReportTimesOut, Execute, ClientCrash, ClientStart, vars
    <2> QED BY <1>0, <2>1
  <1> QED BY <1>1, <1>2, <1>4, <1>5, <1>6, <1>7, <1>8, <1>9 DEF Next, ServerStep, ClientStep

\* A stored command keeps its record of what was stored before it.
LEMMA EarlierFact ==
    ASSUME OrderInv, Forward
    PROVE  \A d \in Cmds : status[d] # "none" =>
             /\ earlier'[d] = earlier[d]
             /\ \A c \in earlier[d] : c \in Cmds /\ c < d /\ (Passed(c) => Passed(c)')
  BY DEF OrderInv, CreatedInOrder, Forward

\* What may be reported accepted stays so.
LEMMA ClearKept ==
    ASSUME OrderInv, Forward, NEW d \in Cmds, ClearTo(d)
    PROVE  ClearTo(d)'
  BY DEF OrderInv, CreatedInOrder, Forward, ClearTo

\* A step after which the client takes nothing it did not take before, and no
\* report is under way that it was not about to send.
LEMMA ReportsKept ==
    ASSUME IInv, OrderInv, Forward,
           \A d \in Cmds : Taking(d)' => Taking(d),
           \A g \in ghosts' : \/ g \in ghosts \/ g.kind = "challenge"
                              \/ pc = "send" /\ g.job = job
                              \/ \E f \in ghosts : f.kind # "challenge" /\ g.job = f.job
    PROVE  ReportsInOrder'
  <1>1. \A d \in Cmds : Taking(d)' => ClearTo(d)'
    BY ClearKept DEF OrderInv, ReportsInOrder
  <1>2. ASSUME NEW g \in ghosts', g.kind # "challenge", g.job.want = "accepted"
        PROVE  ClearTo(g.job.cmd)'
    <2>1. CASE g \in ghosts
      <3>1. g.job.cmd \in Cmds
        BY <1>2, <2>1 DEF IInv, GhostInv
      <3> QED BY <1>2, <2>1, <3>1, ClearKept DEF OrderInv, ReportsInOrder
    <2>2. CASE pc = "send" /\ g.job = job
      <3>1. job.cmd \in Cmds
        BY <2>2 DEF IInv, JobInv
      <3>2. Taking(job.cmd)
        BY <1>2, <2>2 DEF Taking
      <3>3. ClearTo(job.cmd)
        BY <3>1, <3>2 DEF OrderInv, ReportsInOrder
      <3> QED BY <2>2, <3>1, <3>3, ClearKept
    <2>3. ASSUME NEW f \in ghosts, f.kind # "challenge", g.job = f.job PROVE ClearTo(g.job.cmd)'
      <3>1. f.job.cmd \in Cmds
        BY <2>3 DEF IInv, GhostInv
      <3> QED BY <1>2, <2>3, <3>1, ClearKept DEF OrderInv, ReportsInOrder
    <2> QED BY <1>2, <2>1, <2>2, <2>3
  <1> QED BY <1>1, <1>2 DEF ReportsInOrder

\* A step that leaves buffer and batch alone, after which what the client was
\* taking it still takes, or is passed.
LEMMA QueuesKept ==
    ASSUME IInv, OrderInv, Forward, inbox' = inbox, batch'["live"] = batch["live"],
           batch["live"] # {} => "live" \in open',
           \A c \in Cmds : Taking(c) => Taking(c)' \/ Passed(c)'
    PROVE  BatchInOrder' /\ InboxInOrder'
  <1>1. batch["live"] \subseteq Cmds /\ \A i \in DOMAIN inbox : inbox[i] \in Cmds
    BY DEF IInv, BatchInv, BufferInv
  <1>2. BatchInOrder'
    BY EarlierFact, <1>1 DEF OrderInv, BatchInOrder, Forward
  <1>3. InboxInOrder'
    BY EarlierFact, <1>1 DEF OrderInv, InboxInOrder, Forward
  <1> QED BY <1>2, <1>3

\* The stream is closed, or breaks and leaves a prefix to read.
LEMMA QueuesCut ==
    ASSUME IInv, OrderInv, Forward, batch'["live"] = {}, NEW n \in 0..Len(inbox),
           inbox' = SubSeq(inbox, 1, n),
           n = 0 \/ \A c \in Cmds : Taking(c) => Taking(c)'
    PROVE  BatchInOrder' /\ InboxInOrder'
  <1>1. BatchInOrder'
    BY DEF BatchInOrder
  <1>2. inbox \in Seq(Cmds) /\ \A i \in DOMAIN inbox : inbox[i] \in Cmds
    BY DEF IInv, BufferInv
  <1>3. /\ DOMAIN inbox' = 1..n /\ \A i \in 1..n : i \in DOMAIN inbox /\ inbox'[i] = inbox[i]
    BY <1>2, SubSeqProperties
  <1>4. ASSUME NEW i \in DOMAIN inbox'
        PROVE  /\ status'[inbox'[i]] # "none"
               /\ \A c \in earlier'[inbox'[i]] :
                    \/ Passed(c)' \/ Taking(c)'
                    \/ \E k \in DOMAIN inbox' : k < i /\ inbox'[k] = c
    <2>1. i \in 1..n /\ i \in DOMAIN inbox /\ inbox'[i] = inbox[i] /\ n # 0
      BY <1>3
    <2>2. status'[inbox'[i]] # "none"
      BY <1>2, <2>1 DEF OrderInv, InboxInOrder, Forward
    <2>3. ASSUME NEW c \in earlier'[inbox'[i]], ~Passed(c)', ~Taking(c)'
          PROVE  \E k \in DOMAIN inbox' : k < i /\ inbox'[k] = c
      <3>0. c \in Cmds /\ c \in earlier[inbox[i]] /\ (Passed(c) => Passed(c)')
        BY EarlierFact, <1>2, <2>1, <2>3 DEF OrderInv, InboxInOrder
      <3>1. ~Passed(c) /\ ~Taking(c)
        BY <2>1, <2>3, <3>0
      <3>2. PICK k \in DOMAIN inbox : k < i /\ inbox[k] = c
        BY <2>1, <3>0, <3>1 DEF OrderInv, InboxInOrder
      <3>3. k \in 1..n
        BY <1>2, <2>1, <3>2
      <3> QED BY <1>3, <3>2, <3>3
    <2> QED BY <2>2, <2>3
  <1>5. InboxInOrder'
    BY <1>4 DEF InboxInOrder
  <1> QED BY <1>1, <1>5

\* A batch holds the oldest commands: whatever is older than one of them and
\* not in it is passed.
LEMMA PendingInOrder ==
    ASSUME CreatedInOrder, NEW d \in PendingCommandsForDevice
    PROVE  /\ d \in Cmds /\ status[d] # "none"
           /\ \A c \in earlier[d] : Passed(c) \/ c \in PendingCommandsForDevice
  <1> DEFINE pending == {c \in Cmds : Deliverable(c)}
             before(c) == {x \in pending : x < c}
  <1>1. d \in pending /\ Cardinality(before(d)) < BatchLimit
    BY DEF PendingCommandsForDevice
  <1>2. d \in Cmds /\ status[d] # "none"
    BY <1>1 DEF Deliverable
  <1>3. ASSUME NEW c \in earlier[d], ~Passed(c)
        PROVE  c \in PendingCommandsForDevice
    <2>0. c \in Cmds /\ c < d /\ status[c] # "none"
      BY <1>2 DEF CreatedInOrder
    <2>1. c \in pending
      BY <1>3, <2>0 DEF Passed, Deliverable
    <2>2. before(c) \subseteq before(d) /\ IsFiniteSet(before(d))
      <3>1. \A x \in Cmds : x < c => x < d
        BY <1>2, <2>0, CommandAssumption DEF Cmds
      <3>2. before(d) \subseteq 1..NumCmds /\ IsFiniteSet(1..NumCmds)
        BY FS_Interval, CommandAssumption DEF Cmds
      <3> QED BY <3>1, <3>2, FS_Subset
    <2> HIDE DEF pending
    <2>3. Cardinality(before(c)) <= Cardinality(before(d))
      BY <2>2, FS_Subset
    <2>4. Cardinality(before(c)) \in Nat /\ Cardinality(before(d)) \in Nat
      BY <2>2, FS_Subset, FS_CardinalityType
    <2> HIDE DEF before
    <2>5. Cardinality(before(c)) < BatchLimit
      BY <1>1, <2>3, <2>4, CommandAssumption
    <2> QED BY <2>1, <2>5 DEF PendingCommandsForDevice, pending, before
  <1> QED BY <1>2, <1>3

\* The live handler takes a new batch.
LEMMA QueuesFilled ==
    ASSUME IInv, OrderInv, Forward, ReadPending("live"), "live" \in open',
           \/ inbox' = << >>
           \/ inbox' = inbox /\ \A c \in Cmds : Taking(c) => Taking(c)'
    PROVE  BatchInOrder' /\ InboxInOrder'
  <1>1. batch'["live"] = PendingCommandsForDevice
    BY DEF ReadPending, IInv, BatchInv
  <1>2. ASSUME NEW d \in batch'["live"]
        PROVE  /\ status'[d] # "none"
               /\ \A c \in earlier'[d] : Passed(c)' \/ c \in batch'["live"]
    BY <1>1, PendingInOrder DEF OrderInv, CreatedInOrder, Forward
  <1>3. BatchInOrder'
    BY <1>2 DEF BatchInOrder
  <1>4. \A i \in DOMAIN inbox : inbox[i] \in Cmds
    BY DEF IInv, BufferInv
  <1>5. InboxInOrder'
    BY EarlierFact, <1>4 DEF OrderInv, InboxInOrder, Forward
  <1> QED BY <1>3, <1>5

\* The live handler writes the oldest command of its batch, or skips it
\* because it is passed.
LEMMA QueuesWritten ==
    ASSUME IInv, OrderInv, Forward, WriteCommand("live")
    PROVE  BatchInOrder' /\ InboxInOrder'
  <1>1. PICK c \in batch["live"] :
          /\ \A d \in batch["live"] : c <= d
          /\ \/ Deliverable(c) /\ inbox' = Append(inbox, c)
             \/ ~Deliverable(c) /\ inbox' = inbox
          /\ batch' = [batch EXCEPT !["live"] = @ \ {c}]
    BY DEF WriteCommand
  <1>2. /\ c \in Cmds /\ inbox \in Seq(Cmds) /\ batch["live"] \subseteq Cmds
        /\ batch'["live"] = batch["live"] \ {c}
        /\ \A i \in DOMAIN inbox : inbox[i] \in Cmds
    BY <1>1 DEF IInv, BatchInv, BufferInv
  <1>3. open' = open /\ \A d \in Cmds : Taking(d)' <=> Taking(d)
    BY DEF WriteCommand, clientMem, Taking
  <1>4. \A b \in Cmds : b < c => b \notin batch["live"]
    BY <1>1, <1>2, CommandAssumption DEF Cmds
  <1>5. CASE ~Deliverable(c) /\ inbox' = inbox
    <2>1. Passed(c)'
      BY <1>1, <1>2, <1>5 DEF Deliverable, Passed, OrderInv, BatchInOrder, Forward
    <2>2. BatchInOrder'
      <3>1. ASSUME NEW d \in batch'["live"]
            PROVE  /\ status'[d] # "none"
                   /\ \A b \in earlier'[d] :
                        \/ Passed(b)' \/ Taking(b)' \/ b \in batch'["live"]
                        \/ \E i \in DOMAIN inbox' : inbox'[i] = b
        <4>1. d \in batch["live"] /\ d \in Cmds
          BY <1>2
        <4> QED BY EarlierFact, <1>2, <1>3, <1>5, <2>1, <4>1 DEF OrderInv, BatchInOrder, Forward
      <3> QED BY <1>2, <1>3, <3>1 DEF OrderInv, BatchInOrder
    <2>3. InboxInOrder'
      BY EarlierFact, <1>2, <1>3, <1>5 DEF OrderInv, InboxInOrder, Forward
    <2> QED BY <2>2, <2>3
  <1>6. CASE Deliverable(c) /\ inbox' = Append(inbox, c)
    <2> DEFINE m == Len(inbox)
    <2>1. /\ m \in Nat /\ DOMAIN inbox = 1..m
          /\ DOMAIN inbox' = 1..(m + 1) /\ inbox'[m + 1] = c
          /\ \A i \in 1..m : inbox'[i] = inbox[i]
      BY <1>2, <1>6
    <2> HIDE DEF m
    <2>2. \A i \in DOMAIN inbox : i \in DOMAIN inbox' /\ inbox'[i] = inbox[i] /\ i < m + 1
      BY <2>1
    <2>3. m + 1 \in DOMAIN inbox' /\ \A i \in DOMAIN inbox' : i = m + 1 \/ i \in DOMAIN inbox
      BY <2>1
    <2>4. BatchInOrder'
      <3>1. ASSUME NEW d \in batch'["live"]
            PROVE  /\ status'[d] # "none"
                   /\ \A b \in earlier'[d] :
                        \/ Passed(b)' \/ Taking(b)' \/ b \in batch'["live"]
                        \/ \E i \in DOMAIN inbox' : inbox'[i] = b
        <4>1. d \in batch["live"] /\ d \in Cmds
          BY <1>2
        <4>2. status'[d] # "none"
          BY <4>1 DEF OrderInv, BatchInOrder, Forward
        <4>3. ASSUME NEW b \in earlier'[d], ~Passed(b)', ~Taking(b)', b \notin batch'["live"]
              PROVE  \E i \in DOMAIN inbox' : inbox'[i] = b
          <5>1. CASE b = c
            BY <2>1, <2>3, <5>1
          <5>2. CASE b # c
            <6>1. \E i \in DOMAIN inbox : inbox[i] = b
              BY EarlierFact, <1>2, <1>3, <4>1, <4>3, <5>2 DEF OrderInv, BatchInOrder, Forward
            <6> QED BY <2>2, <6>1
          <5> QED BY <5>1, <5>2
        <4> QED BY <4>2, <4>3
      <3> QED BY <1>2, <1>3, <3>1 DEF OrderInv, BatchInOrder
    <2>5. InboxInOrder'
      <3>1. ASSUME NEW i \in DOMAIN inbox'
            PROVE  /\ status'[inbox'[i]] # "none"
                   /\ \A b \in earlier'[inbox'[i]] :
                        \/ Passed(b)' \/ Taking(b)'
                        \/ \E k \in DOMAIN inbox' : k < i /\ inbox'[k] = b
        <4>1. CASE i = m + 1
          <5>1. inbox'[i] = c /\ status'[c] # "none"
            BY <1>1, <1>2, <2>1, <4>1 DEF OrderInv, BatchInOrder, Forward
          <5>2. ASSUME NEW b \in earlier'[c], ~Passed(b)', ~Taking(b)'
                PROVE  \E k \in DOMAIN inbox' : k < i /\ inbox'[k] = b
            <6>0. /\ b \in Cmds /\ b \in earlier[c] /\ b < c
                  /\ ~Passed(b) /\ ~Taking(b)
              BY EarlierFact, <1>1, <1>2, <1>3, <5>2 DEF OrderInv, BatchInOrder
            <6>1. \E k \in DOMAIN inbox : inbox[k] = b
              BY <1>1, <1>4, <6>0 DEF OrderInv, BatchInOrder
            <6> QED BY <2>2, <4>1, <6>1
          <5> QED BY <5>1, <5>2
        <4>2. CASE i \in DOMAIN inbox
          <5>1. inbox'[i] = inbox[i] /\ inbox[i] \in Cmds
            BY <1>2, <2>2, <4>2
          <5> QED BY EarlierFact, <1>3, <2>2, <4>2, <5>1 DEF OrderInv, InboxInOrder, Forward
        <4> QED BY <2>3, <4>1, <4>2
      <3> QED BY <3>1 DEF InboxInOrder
    <2> QED BY <2>4, <2>5
  <1> QED BY <1>1, <1>5, <1>6

\* The client reads the next event and begins to take its command.
LEMMA QueuesRead ==
    ASSUME IInv, OrderInv, Forward, pc = "reading", inbox # << >>, pc' = "dedup",
           job' = [cmd |-> Head(inbox), want |-> "accepted"], inbox' = Tail(inbox),
           UNCHANGED streams, ghosts' = ghosts
    PROVE  BatchInOrder' /\ InboxInOrder' /\ ReportsInOrder'
  <1>0. PICK h \in Cmds : h = Head(inbox)
    BY DEF IInv, BufferInv
  <1>1. /\ inbox \in Seq(Cmds) /\ 1 \in DOMAIN inbox /\ h = inbox[1] /\ h \in Cmds
        /\ \A i \in DOMAIN inbox : inbox[i] \in Cmds /\ i \in Nat
        /\ batch["live"] \subseteq Cmds
    BY <1>0 DEF IInv, BufferInv, BatchInv
  <1>2. /\ Len(inbox) \in Nat /\ Len(inbox') = Len(inbox) - 1
        /\ DOMAIN inbox = 1..Len(inbox) /\ DOMAIN inbox' = 1..Len(inbox')
        /\ \A i \in 1..Len(inbox') : inbox'[i] = inbox[i + 1]
    BY <1>1, HeadTailProperties
  <1>3. \A i \in DOMAIN inbox' : i + 1 \in DOMAIN inbox /\ inbox'[i] = inbox[i + 1]
    BY <1>2
  <1>4. \A k \in DOMAIN inbox : k = 1 \/ (k - 1 \in DOMAIN inbox' /\ inbox'[k - 1] = inbox[k])
    BY <1>2
  <1>5. Taking(h)' /\ \A c \in Cmds : ~Taking(c) /\ (Taking(c)' => c = h)
    BY <1>0 DEF Taking
  <1>6. ClearTo(h)
    <2>1. \A k \in DOMAIN inbox : ~(k < 1)
      BY <1>2
    <2> QED BY EarlierFact, <1>1, <1>5, <2>1 DEF OrderInv, InboxInOrder, ClearTo
  <1>7. ReportsInOrder'
    <2>1. \A d \in Cmds : Taking(d)' => ClearTo(d)'
      BY <1>1, <1>5, <1>6, ClearKept
    <2>2. ASSUME NEW g \in ghosts', g.kind # "challenge", g.job.want = "accepted"
          PROVE  ClearTo(g.job.cmd)'
      <3>1. g.job.cmd \in Cmds /\ ClearTo(g.job.cmd)
        BY <2>2 DEF IInv, GhostInv, OrderInv, ReportsInOrder
      <3> QED BY <3>1, ClearKept
    <2> QED BY <2>1, <2>2 DEF ReportsInOrder
  <1>8. BatchInOrder'
    <2>0. batch' = batch /\ open' = open
      BY DEF streams
    <2>1. ASSUME NEW d \in batch["live"], NEW c \in earlier'[d]
          PROVE  \/ Passed(c)' \/ Taking(c)' \/ c \in batch["live"]
                 \/ \E i \in DOMAIN inbox' : inbox'[i] = c
      <3>0. c \in Cmds /\ c \in earlier[d] /\ (Passed(c) => Passed(c)')
        BY EarlierFact, <1>1, <2>1 DEF OrderInv, BatchInOrder
      <3>1. \/ Passed(c) \/ c \in batch["live"] \/ \E i \in DOMAIN inbox : inbox[i] = c
        BY <1>5, <2>1, <3>0 DEF OrderInv, BatchInOrder
      <3>2. ASSUME NEW i \in DOMAIN inbox, inbox[i] = c
            PROVE  Taking(c)' \/ \E k \in DOMAIN inbox' : inbox'[k] = c
        BY <1>1, <1>4, <1>5, <3>2
      <3> QED BY <3>0, <3>1, <3>2
    <2> QED BY <1>1, <2>0, <2>1 DEF OrderInv, BatchInOrder, Forward
  <1>9. InboxInOrder'
    <2>1. ASSUME NEW i \in DOMAIN inbox', NEW c \in earlier'[inbox'[i]]
          PROVE  \/ Passed(c)' \/ Taking(c)'
                 \/ \E k \in DOMAIN inbox' : k < i /\ inbox'[k] = c
      <3>1. i + 1 \in DOMAIN inbox /\ inbox'[i] = inbox[i + 1] /\ i \in Nat
        BY <1>2, <1>3
      <3>0. c \in Cmds /\ c \in earlier[inbox[i + 1]] /\ (Passed(c) => Passed(c)')
        BY EarlierFact, <1>1, <2>1, <3>1 DEF OrderInv, InboxInOrder
      <3>2. Passed(c) \/ \E k \in DOMAIN inbox : k < i + 1 /\ inbox[k] = c
        BY <1>5, <3>0, <3>1 DEF OrderInv, InboxInOrder
      <3>3. ASSUME NEW k \in DOMAIN inbox, k < i + 1, inbox[k] = c
            PROVE  Taking(c)' \/ \E l \in DOMAIN inbox' : l < i /\ inbox'[l] = c
        <4>1. CASE k = 1
          BY <1>1, <1>5, <3>3, <4>1
        <4>2. CASE k # 1
          <5>1. k - 1 \in DOMAIN inbox' /\ inbox'[k - 1] = c
            BY <1>4, <3>3, <4>2
          <5>2. k - 1 < i
            BY <1>1, <3>1, <3>3
          <5> QED BY <5>1, <5>2
        <4> QED BY <4>1, <4>2
      <3> QED BY <3>0, <3>2, <3>3
    <2>2. \A i \in DOMAIN inbox' : status'[inbox'[i]] # "none"
      BY <1>1, <1>3 DEF OrderInv, InboxInOrder, Forward
    <2> QED BY <2>1, <2>2 DEF InboxInOrder
  <1> QED BY <1>7, <1>8, <1>9

\* The store forgets no command that it once held accepted.
LEMMA TakenKept ==
    ASSUME IInv, [Next]_vars
    PROVE  taken \subseteq taken'
  <1> USE DEF store
  <1>1. taken' = taken \/ \E j : StoreResult(j)
    BY DEF deviceCommandResult, Next, ServerStep, ClientStep, CommandBegins, Command,
       CommandFails, Deadline, ListCommands, RevokeDevice, ChallengeExpires, ServerRestart,
       StreamLost, ZombieEnds, Tick, Wake, WriteCommand, HandlerReturns, GhostArrives,
       GhostVerified, GhostLost, AskConnect, AskConnectDelayed, Connect, ConnectAnswerLost,
       ConnectFails, EndOfStream, ReadCommand, Dedup, AskReport, AskReportFails, SendReport,
       SendReportUnanswered, SendReportTimesOut, Execute, ClientCrash, ClientStart, vars
  <1> QED BY <1>1 DEF StoreResult

\* A remembered command is passed.
LEMMA HandledPassed ==
    ASSUME IInv, OrderInv, NEW c \in handled
    PROVE  Passed(c)
  BY DEF IInv, StoreInv, OrderInv, Passed

\* The client closes its stream or crashes.
LEMMA StreamClosed ==
    ASSUME IInv, OrderInv, Forward, inbox' = << >>, Abandon
    PROVE  BatchInOrder' /\ InboxInOrder'
  <1>1. batch'["live"] = {}
    BY DEF Abandon, streams, IInv, BatchInv, OrderInv, BatchInOrder
  <1>2. inbox' = SubSeq(inbox, 1, 0) /\ 0 \in 0..Len(inbox)
    BY DEF IInv, BufferInv
  <1> QED BY <1>1, <1>2, QueuesCut

\* An attempt to report fails.
LEMMA AttemptInOrder ==
    ASSUME IInv, OrderInv, Forward, NextAttempt, pc \in {"ask", "send"}
    PROVE  /\ BatchInOrder' /\ InboxInOrder'
           /\ \A d \in Cmds : Taking(d)' => Taking(d)
  <1>1. CASE CloseStream
    BY <1>1, StreamClosed DEF CloseStream, Taking
  <1>2. CASE ~CloseStream
    <2>1. pc' = "ask" /\ UNCHANGED <<job, inbox, batch, open>>
      BY <1>2 DEF NextAttempt, streams
    <2>2. \A d \in Cmds : Taking(d)' <=> Taking(d)
      BY <2>1 DEF Taking
    <2> QED BY <2>1, <2>2, QueuesKept DEF OrderInv, BatchInOrder
  <1> QED BY <1>1, <1>2

\* Every step keeps the order.
LEMMA OrderNext ==
    ASSUME IInv, IInv', RequestInv, OrderInv, [Next]_vars
    PROVE  OrderInv'
  <1> USE DEF store, streams, clientMem
  <1>f. Forward /\ CreatedInOrder' /\ taken \subseteq taken'
    BY ForwardFact, TakenKept
  <1>b. batch["live"] # {} => "live" \in open
    BY DEF OrderInv, BatchInOrder
  <1>d. ASSUME BatchInOrder', InboxInOrder', ReportsInOrder',
               handled' \subseteq handled \union taken'
        PROVE  OrderInv'
    BY <1>f, <1>d DEF OrderInv, Forward
  \* nothing moves but the store, the clocks, challenges and the zombie
  <1>k. ASSUME UNCHANGED <<inbox, pc, job, handled>>, batch'["live"] = batch["live"],
               batch["live"] # {} => "live" \in open',
               \A g \in ghosts' : \/ g \in ghosts \/ g.kind = "challenge"
                                  \/ \E f \in ghosts : f.kind # "challenge" /\ g.job = f.job
        PROVE  OrderInv'
    <2>1. \A d \in Cmds : Taking(d)' <=> Taking(d)
      BY <1>k DEF Taking
    <2>2. BatchInOrder' /\ InboxInOrder'
      BY <1>f, <1>k, <2>1, QueuesKept
    <2>3. ReportsInOrder'
      BY <1>f, <1>k, <2>1, ReportsKept
    <2> QED BY <1>d, <1>k, <2>2, <2>3
  <1>1. ASSUME NEW c \in Cmds, \/ CommandBegins(c) \/ Command(c) \/ CommandFails(c)
                              \/ \E k \in {"server", "client"} : Deadline(c, k)
        PROVE  OrderInv'
    BY <1>b, <1>k, <1>1 DEF CommandBegins, Command, CommandFails, Deadline
  <1>2. CASE ListCommands \/ RevokeDevice \/ ChallengeExpires
    BY <1>b, <1>k, <1>2 DEF ListCommands, RevokeDevice, ChallengeExpires
  <1>3. CASE ServerRestart \/ StreamLost
    <2>1. UNCHANGED <<pc, job, handled>> /\ ghosts' \subseteq ghosts
      BY <1>3 DEF ServerRestart, StreamLost
    <2>2. batch'["live"] = {}
      BY <1>3 DEF ServerRestart, StreamLost, Abandon
    <2>3. PICK n \in 0..Len(inbox) : inbox' = SubSeq(inbox, 1, n)
      BY <1>3 DEF ServerRestart, StreamLost
    <2>4. \A d \in Cmds : Taking(d)' <=> Taking(d)
      BY <2>1 DEF Taking
    <2>5. BatchInOrder' /\ InboxInOrder'
      BY <1>f, <2>2, <2>3, <2>4, QueuesCut
    <2>6. ReportsInOrder'
      BY <1>f, <2>1, <2>4, ReportsKept
    <2> QED BY <1>d, <2>1, <2>5, <2>6
  <1>4. CASE ZombieEnds
    <2>1. batch'["live"] = batch["live"]
      BY <1>4 DEF ZombieEnds, IInv, BatchInv
    <2> QED BY <1>b, <1>k, <1>4, <2>1 DEF ZombieEnds
  <1>5. ASSUME NEW h \in Handlers, Tick(h) \/ Wake(h) PROVE OrderInv'
    <2>1. UNCHANGED <<inbox, pc, job, handled, ghosts, open>> /\ ReadPending(h) /\ h \in open
      BY <1>5 DEF Tick, Wake
    <2>2. CASE h = "zombie"
      <3>1. batch'["live"] = batch["live"]
        BY <2>1, <2>2 DEF ReadPending, IInv, BatchInv
      <3> QED BY <1>b, <1>k, <2>1, <3>1
    <2>3. CASE h = "live"
      <3>1. \A d \in Cmds : Taking(d)' <=> Taking(d)
        BY <2>1 DEF Taking
      <3>2. BatchInOrder' /\ InboxInOrder'
        BY <1>f, <2>1, <2>3, <3>1, QueuesFilled
      <3>3. ReportsInOrder'
        BY <1>f, <2>1, <3>1, ReportsKept
      <3> QED BY <1>d, <2>1, <3>2, <3>3
    <2> QED BY <2>2, <2>3
  <1>6. ASSUME NEW h \in Handlers, WriteCommand(h) PROVE OrderInv'
    <2>1. UNCHANGED <<pc, job, handled, ghosts, open>>
      BY <1>6 DEF WriteCommand
    <2>2. CASE h = "zombie"
      <3>1. inbox' = inbox /\ batch'["live"] = batch["live"]
        BY <1>6, <2>2 DEF WriteCommand, IInv, BatchInv
      <3> QED BY <1>b, <1>k, <2>1, <3>1
    <2>3. CASE h = "live"
      <3>1. BatchInOrder' /\ InboxInOrder'
        BY <1>f, <1>6, <2>3, QueuesWritten
      <3>2. ReportsInOrder'
        BY <1>f, <2>1, ReportsKept DEF Taking
      <3> QED BY <1>d, <2>1, <3>1, <3>2
    <2> QED BY <2>2, <2>3
  <1>7. CASE HandlerReturns
    BY <1>k, <1>7 DEF HandlerReturns
  <1>8. ASSUME NEW g \in ghosts, GhostArrives(g) \/ GhostLost(g) PROVE OrderInv'
    BY <1>b, <1>k, <1>8 DEF GhostArrives, GhostLost
  <1>18. ASSUME NEW g \in ghosts, GhostVerified(g) PROVE OrderInv'
    <2>1. \A f \in ghosts' : \/ f \in ghosts
                             \/ \E e \in ghosts : e.kind # "challenge" /\ f.job = e.job
      BY <1>18 DEF GhostVerified
    <2> QED BY <1>b, <1>k, <1>18, <2>1 DEF GhostVerified
  \* the client's steps outside its handling of commands
  <1>9. CASE \/ AskConnect \/ AskConnectDelayed \/ ConnectFails
             \/ EndOfStream \/ ClientStart \/ Execute
    <2>1. /\ UNCHANGED <<inbox, batch, open, handled>>
          /\ \A d \in Cmds : ~Taking(d) /\ ~Taking(d)'
      BY <1>9 DEF AskConnect, AskConnectDelayed, ConnectFails, EndOfStream, ClientStart, Execute,
         Taking, IInv, JobInv
    <2>2. \A g \in ghosts' : g \in ghosts \/ g.kind = "challenge"
      BY <1>9 DEF AskConnect, AskConnectDelayed, ConnectFails, EndOfStream, ClientStart, Execute
    <2>3. BatchInOrder' /\ InboxInOrder'
      BY <1>b, <1>f, <2>1, QueuesKept
    <2>4. ReportsInOrder'
      BY <1>f, <2>1, <2>2, ReportsKept
    <2> QED BY <1>d, <2>1, <2>3, <2>4
  <1>10. CASE Connect \/ ConnectAnswerLost
    <2>1. UNCHANGED <<handled, ghosts>> /\ \A d \in Cmds : ~Taking(d) /\ ~Taking(d)'
      BY <1>10 DEF Connect, ConnectAnswerLost, Taking
    <2>2. ASSUME Connect PROVE BatchInOrder' /\ InboxInOrder'
      BY <1>f, <2>2, QueuesFilled DEF Connect
    <2>3. ASSUME ConnectAnswerLost PROVE BatchInOrder' /\ InboxInOrder'
      <3>1. batch'["live"] = batch["live"] /\ inbox' = inbox /\ open \subseteq open'
        BY <2>3 DEF ConnectAnswerLost, ReadPending, IInv, BatchInv
      <3> QED BY <1>b, <1>f, <2>1, <3>1, QueuesKept
    <2>4. BatchInOrder' /\ InboxInOrder'
      BY <1>10, <2>2, <2>3
    <2>5. ReportsInOrder'
      BY <1>f, <2>1, ReportsKept
    <2> QED BY <1>d, <2>1, <2>4, <2>5
  <1>11. CASE ReadCommand
    <2>1. UNCHANGED <<handled, ghosts>> /\ pc = "reading" /\ inbox # << >>
      BY <1>11 DEF ReadCommand
    <2>2. CASE CloseStream
      <3>1. BatchInOrder' /\ InboxInOrder'
        BY <1>f, <2>2, StreamClosed DEF CloseStream
      <3>2. ReportsInOrder'
        BY <1>f, <2>1, <2>2, ReportsKept DEF CloseStream, Taking
      <3> QED BY <1>d, <2>1, <3>1, <3>2
    <2>3. CASE ~CloseStream
      <3>1. /\ pc' = "dedup" /\ job' = [cmd |-> Head(inbox), want |-> "accepted"]
            /\ inbox' = Tail(inbox) /\ UNCHANGED streams
        BY <1>11, <2>3 DEF ReadCommand
      <3> QED BY <1>d, <1>f, <2>1, <3>1, QueuesRead
    <2> QED BY <2>2, <2>3
  <1>12. CASE Dedup
    <2>1. /\ UNCHANGED <<inbox, batch, open, ghosts>> /\ handled' \subseteq handled
          /\ pc = "dedup"
          /\ \/ pc' = "reading" /\ job.cmd \in handled
             \/ pc' = "ask" /\ job' = job
      BY <1>12 DEF Dedup
    <2>2. \A d \in Cmds : /\ Taking(d)' => Taking(d)
                          /\ Taking(d) => Taking(d)' \/ Passed(d)'
      BY <1>f, <2>1, HandledPassed DEF Taking, Forward
    <2>3. BatchInOrder' /\ InboxInOrder'
      BY <1>b, <1>f, <2>1, <2>2, QueuesKept
    <2>4. ReportsInOrder'
      BY <1>f, <2>1, <2>2, ReportsKept
    <2> QED BY <1>d, <2>1, <2>3, <2>4
  <1>13. CASE AskReport
    <2>1. UNCHANGED <<inbox, batch, open, ghosts, handled, job>> /\ pc = "ask" /\ pc' = "send"
      BY <1>13 DEF AskReport
    <2>2. \A d \in Cmds : Taking(d)' <=> Taking(d)
      BY <2>1 DEF Taking
    <2>3. BatchInOrder' /\ InboxInOrder'
      BY <1>b, <1>f, <2>1, <2>2, QueuesKept
    <2>4. ReportsInOrder'
      BY <1>f, <2>1, <2>2, ReportsKept
    <2> QED BY <1>d, <2>1, <2>3, <2>4
  <1>14. CASE AskReportFails \/ SendReportUnanswered \/ SendReportTimesOut
    <2>1. /\ handled' = handled /\ NextAttempt /\ pc \in {"ask", "send"}
          /\ \A g \in ghosts' : \/ g \in ghosts \/ g.kind = "challenge"
                                \/ pc = "send" /\ g.job = job
      BY <1>14 DEF AskReportFails, SendReportUnanswered, SendReportTimesOut
    <2>2. /\ BatchInOrder' /\ InboxInOrder'
          /\ \A d \in Cmds : Taking(d)' => Taking(d)
      BY <1>f, <2>1, AttemptInOrder
    <2>3. ReportsInOrder'
      BY <1>f, <2>1, <2>2, ReportsKept
    <2> QED BY <1>d, <2>1, <2>2, <2>3
  <1>15. CASE SendReport
    <2>1. /\ ghosts' = ghosts /\ pc = "send" /\ Verified(nonce) /\ UpdateCommandResult(job).ok
          /\ deviceCommandResult(job, nonce) /\ Reported
      BY <1>15 DEF SendReport
    <2>2. job \in [cmd : Cmds, want : Reports]
      BY <2>1 DEF IInv, JobInv
    <2>3. job.want = "accepted" => job.cmd \in taken'
      BY <2>1, <2>2, AnsweredFact DEF IInv
    <2>4. \A d \in Cmds : ~Taking(d)'
      BY <2>1, <2>2 DEF Reported, Taking, CloseStream
    <2>5. handled' \subseteq handled \union taken'
      BY <2>1, <2>3 DEF Reported
    <2>6. ReportsInOrder'
      BY <1>f, <2>1, <2>4, ReportsKept
    <2>7. CASE CloseStream
      <3>1. BatchInOrder' /\ InboxInOrder'
        BY <1>f, <2>7, StreamClosed DEF CloseStream
      <3> QED BY <1>d, <2>5, <2>6, <3>1
    <2>8. CASE ~CloseStream
      <3>1. UNCHANGED <<inbox, batch, open>>
        BY <2>1, <2>8 DEF Reported
      <3>2. \A d \in Cmds : Taking(d) => Passed(d)'
        BY <2>3 DEF Taking, Passed, IInv, StoreInv
      <3>3. BatchInOrder' /\ InboxInOrder'
        BY <1>b, <1>f, <3>1, <3>2, QueuesKept
      <3> QED BY <1>d, <2>5, <2>6, <3>3
    <2> QED BY <2>7, <2>8
  <1>16. CASE ClientCrash
    <2>1. ghosts' = ghosts /\ handled' = {} /\ inbox' = << >> /\ Abandon /\ pc' = "down"
      BY <1>16 DEF ClientCrash
    <2>2. BatchInOrder' /\ InboxInOrder'
      BY <1>f, <2>1, StreamClosed
    <2>3. ReportsInOrder'
      BY <1>f, <2>1, ReportsKept DEF Taking
    <2> QED BY <1>d, <2>1, <2>2, <2>3
  <1>17. CASE UNCHANGED vars
    BY <1>b, <1>k, <1>17 DEF vars
  <1> QED BY <1>1, <1>2, <1>3, <1>4, <1>5, <1>6, <1>7, <1>8, <1>9, <1>10, <1>11, <1>12, <1>13,
             <1>14, <1>15, <1>16, <1>17, <1>18
          DEF Next, ServerStep, ClientStep

\* A command is accepted only by a report for it that was entitled to come.
LEMMA AcceptedByReport ==
    ASSUME IInv, OrderInv, [Next]_vars, NEW d \in Cmds,
           status[d] \in Active, status'[d] = "accepted"
    PROVE  ClearTo(d)
  <1> USE DEF store
  <1>t. status \in [Cmds -> Statuses]
    BY DEF IInv, StoreInv
  <1>0. status'[d] # status[d]
    OBVIOUS
  <1>1. ASSUME NEW j \in [cmd : Cmds, want : Reports], ResultStep(j)
        PROVE  j.cmd = d /\ j.want = "accepted"
    <2>1. PICK to \in Statuses :
            /\ status' = [status EXCEPT ![j.cmd] = to]
            /\ \/ to = status[j.cmd]
               \/ to = "expired" /\ status[j.cmd] \in Active \union {"accepted"}
               \/ to = "accepted" /\ status[j.cmd] \in Active /\ j.want = "accepted"
               \/ to \in {"succeeded", "failed"} /\ status[j.cmd] = "accepted" /\ to = j.want
      BY <1>t, <1>1, ResultMoves
    <2> QED BY <1>t, <1>0, <2>1
  <1>2. ASSUME NEW g \in ghosts, GhostArrives(g) PROVE ClearTo(d)
    <2>1. g.kind # "challenge" /\ ResultStep(g.job)
      BY <1>0, <1>2, ResultSteps DEF GhostArrives, ResultStep
    <2>2. g.job \in [cmd : Cmds, want : Reports]
      BY <2>1 DEF IInv, GhostInv
    <2>3. g.job.cmd = d /\ g.job.want = "accepted"
      BY <1>1, <2>1, <2>2
    <2> QED BY <2>1, <2>3 DEF OrderInv, ReportsInOrder
  <1>3. CASE SendReport \/ SendReportUnanswered
    <2>1. pc = "send" /\ deviceCommandResult(job, nonce)
      BY <1>3 DEF SendReport, SendReportUnanswered
    <2>2. job \in [cmd : Cmds, want : Reports]
      BY <2>1 DEF IInv, JobInv
    <2>3. Taking(d)
      BY <1>1, <2>1, <2>2, ResultSteps DEF Taking
    <2> QED BY <2>3 DEF OrderInv, ReportsInOrder
  <1>4. ASSUME NEW from, status' = Expire(from) PROVE FALSE
    BY <1>0, <1>4 DEF Expire
  <1>5. CASE \/ ListCommands \/ Connect \/ ConnectAnswerLost
             \/ \E h \in Handlers : Tick(h) \/ Wake(h)
    BY <1>4, <1>5 DEF ListCommands, Tick, Wake, Connect, ConnectAnswerLost, ReadPending
  <1>6. CASE (\E c \in Cmds : Command(c)) \/ \E h \in Handlers : WriteCommand(h)
    <2>1. \/ status' = status
          \/ \E c, x : x \in {"queued", "delivered"} /\ status' = [status EXCEPT ![c] = x]
      BY <1>6 DEF Command, CreateCommand, WriteCommand
    <2> QED BY <1>t, <1>0, <2>1
  <1>7. CASE \/ (\E c \in Cmds : CommandBegins(c) \/ CommandFails(c))
             \/ (\E c \in Cmds, k \in {"server", "client"} : Deadline(c, k))
             \/ RevokeDevice \/ ChallengeExpires \/ ServerRestart \/ StreamLost \/ ZombieEnds
             \/ HandlerReturns \/ (\E g \in ghosts : GhostVerified(g) \/ GhostLost(g))
             \/ AskConnect \/ AskConnectDelayed \/ ConnectFails \/ EndOfStream \/ ReadCommand \/ Dedup
             \/ AskReport \/ AskReportFails \/ SendReportTimesOut \/ Execute \/ ClientCrash
             \/ ClientStart \/ UNCHANGED vars
    BY <1>0, <1>7 DEF CommandBegins, CommandFails, GhostVerified, Deadline, RevokeDevice,
       ChallengeExpires, ServerRestart, StreamLost, ZombieEnds, HandlerReturns, GhostLost,
       AskConnect, AskConnectDelayed, ConnectFails, EndOfStream, ReadCommand, Dedup, AskReport,
       AskReportFails, SendReportTimesOut, Execute, ClientCrash, ClientStart, vars
  <1> QED BY <1>2, <1>3, <1>5, <1>6, <1>7 DEF Next, ServerStep, ClientStep

\* Commands take effect in the order they were created: none is accepted while
\* one that was stored before its request began is pending and within its
\* deadline, whatever streams break, batches end and reports are repeated or
\* arrive late.
THEOREM CommandsInOrder == Spec => AcceptedInOrder
  <1> DEFINE A == \A c, d \in Cmds :
                    c \in earlier[d] /\ status[d] \in Active /\ status'[d] = "accepted"
                      => status[c] \notin Active \/ "server" \in late[c]
  <1>1. Init => OrderInv
    BY DEF Init, OrderInv, CreatedInOrder, BatchInOrder, InboxInOrder, ReportsInOrder, Taking
  <1>2. IInv /\ IInv' /\ RequestInv /\ OrderInv /\ [Next]_vars => OrderInv'
    BY OrderNext
  <1>3. IInv /\ OrderInv /\ [Next]_vars => [A]_vars
    BY AcceptedByReport DEF ClearTo, Passed
  <1>4. Spec => [][A]_vars
    BY <1>1, <1>2, <1>3, Invariance, PTL DEF Spec
  <1> QED BY <1>4 DEF AcceptedInOrder

-----------------------------------------------------------------------------
(* Types and challenges.                                                   *)

\* The delayed requests are bounded, and the client has a challenge to sign.
TypeInv ==
    /\ TypeOK
    /\ IsFiniteSet(ghosts) /\ Cardinality(ghosts) <= MaxGhosts
    /\ pc = "send" => nonce \in Nonces

\* There is always a challenge that nobody holds: neither the server, nor the
\* client, nor a delayed request.
LEMMA FreshFact ==
    ASSUME TypeInv
    PROVE  /\ Fresh \in Nonces
           /\ Fresh \notin {challenge, nonce} \union {g.nonce : g \in ghosts}
  <1> DEFINE held == {g.nonce : g \in ghosts}
             used == {challenge, nonce} \union held
             f == [g \in ghosts |-> g.nonce]
  <1>1. IsFiniteSet(ghosts) /\ Cardinality(ghosts) \in Nat /\ Cardinality(ghosts) <= MaxGhosts
    BY FS_CardinalityType DEF TypeInv
  <1>2. f \in Surjection(ghosts, held)
    BY DEF Surjection
  <1>3. IsFiniteSet(held) /\ Cardinality(held) <= Cardinality(ghosts)
    BY <1>1, <1>2, FS_Surjection
  <1>4. /\ IsFiniteSet(used) /\ Cardinality(used) \in Nat
        /\ Cardinality(used) <= Cardinality(held) + 2
    <2>1. Cardinality(held) \in Nat
      BY <1>3, FS_CardinalityType
    <2>2. used = (held \union {challenge}) \union {nonce}
      OBVIOUS
    <2> HIDE DEF held, used
    <2>3. ASSUME NEW S, IsFiniteSet(S), NEW x
          PROVE  /\ IsFiniteSet(S \union {x}) /\ Cardinality(S \union {x}) \in Nat
                 /\ Cardinality(S \union {x}) <= Cardinality(S) + 1
      <3>1. /\ IsFiniteSet(S \union {x})
            /\ Cardinality(S \union {x}) = IF x \in S THEN Cardinality(S) ELSE Cardinality(S) + 1
        BY <2>3, FS_AddElement
      <3>2. Cardinality(S) \in Nat
        BY <2>3, FS_CardinalityType
      <3> QED BY <3>1, <3>2
    <2>4. /\ IsFiniteSet(held \union {challenge}) /\ Cardinality(held \union {challenge}) \in Nat
          /\ Cardinality(held \union {challenge}) <= Cardinality(held) + 1
      BY <1>3, <2>3
    <2>5. /\ IsFiniteSet(used) /\ Cardinality(used) \in Nat
          /\ Cardinality(used) <= Cardinality(held \union {challenge}) + 1
      BY <2>2, <2>3, <2>4
    <2> QED BY <2>1, <2>4, <2>5
  <1>5. IsFiniteSet(Nonces) /\ Cardinality(Nonces) = MaxGhosts + 3
    BY FS_Interval, CommandAssumption DEF Nonces
  <1>6. Cardinality(held) \in Nat
    BY <1>3, FS_CardinalityType
  <1>7. ~(Nonces \subseteq used)
    <2> HIDE DEF held, used
    <2> SUFFICES ASSUME Nonces \subseteq used PROVE FALSE
      OBVIOUS
    <2>1. Cardinality(Nonces) <= Cardinality(used)
      BY <1>4, FS_Subset
    <2> QED BY <1>1, <1>3, <1>4, <1>5, <1>6, <2>1, CommandAssumption
  <1>8. \E n \in Nonces : n \notin {challenge, nonce} \union {g.nonce : g \in ghosts}
    BY <1>7
  <1> QED BY <1>8 DEF Fresh

\* A request more is under way.
LEMMA GhostAdded ==
    ASSUME TypeInv, NEW g \in Ghosts,
           ghosts' = ghosts \/ (Cardinality(ghosts) < MaxGhosts /\ ghosts' = ghosts \union {g})
    PROVE  ghosts' \subseteq Ghosts /\ IsFiniteSet(ghosts') /\ Cardinality(ghosts') <= MaxGhosts
  <1>1. IsFiniteSet(ghosts) /\ Cardinality(ghosts) \in Nat
    BY FS_CardinalityType DEF TypeInv
  <1>2. CASE ghosts' = ghosts
    BY <1>2 DEF TypeInv, TypeOK
  <1>3. CASE Cardinality(ghosts) < MaxGhosts /\ ghosts' = ghosts \union {g}
    <2>1. IsFiniteSet(ghosts') /\ Cardinality(ghosts') <= Cardinality(ghosts) + 1
      BY <1>1, <1>3, FS_AddElement
    <2>2. Cardinality(ghosts') \in Nat
      BY <2>1, FS_CardinalityType
    <2> QED BY <1>1, <1>3, <2>1, <2>2, CommandAssumption DEF TypeInv, TypeOK
  <1> QED BY <1>2, <1>3

\* The requests under way stay bounded.
LEMMA GhostsTyped ==
    ASSUME IInv, TypeInv, [Next]_vars
    PROVE  ghosts' \subseteq Ghosts /\ IsFiniteSet(ghosts') /\ Cardinality(ghosts') <= MaxGhosts
  <1>1. ASSUME ghosts' \subseteq ghosts
        PROVE  /\ ghosts' \subseteq Ghosts /\ IsFiniteSet(ghosts')
               /\ Cardinality(ghosts') <= MaxGhosts
    <2>1. IsFiniteSet(ghosts) /\ Cardinality(ghosts) \in Nat /\ Cardinality(ghosts) <= MaxGhosts
      BY FS_CardinalityType DEF TypeInv
    <2>2. IsFiniteSet(ghosts') /\ Cardinality(ghosts') <= Cardinality(ghosts)
      BY <1>1, <2>1, FS_Subset
    <2>3. Cardinality(ghosts') \in Nat
      BY <2>2, FS_CardinalityType
    <2> QED BY <1>1, <2>1, <2>2, <2>3, CommandAssumption DEF TypeInv, TypeOK
  <1> DEFINE ask == [kind |-> "challenge", nonce |-> None, job |-> NoJob]
             send == [kind |-> "result", nonce |-> nonce, job |-> job]
  <1>2. ask \in Ghosts
    BY DEF Ghosts
  <1>3. pc = "send" => send \in Ghosts
    <2>1. pc = "send" => job \in [cmd : Cmds, want : Reports] /\ nonce \in Nonces
      BY DEF IInv, JobInv, TypeInv
    <2>2. NoJob \notin [cmd : Cmds, want : Reports]
      BY CommandAssumption DEF NoJob
    <2> QED BY <2>1, <2>2 DEF Ghosts, Jobs
  <1>4. \/ ghosts' \subseteq ghosts
        \/ \E g \in ghosts : GhostVerified(g)
        \/ Cardinality(ghosts) < MaxGhosts /\ ghosts' = ghosts \union {ask}
        \/ pc = "send" /\ Cardinality(ghosts) < MaxGhosts /\ ghosts' = ghosts \union {send}
    BY DEF Next, ServerStep, ClientStep, CommandBegins, Command, CommandFails, Deadline,
       ListCommands, RevokeDevice, ChallengeExpires, ServerRestart, StreamLost, ZombieEnds,
       Tick, Wake, WriteCommand, HandlerReturns, GhostArrives, GhostLost, AskConnect,
       AskConnectDelayed, Connect, ConnectAnswerLost, ConnectFails, EndOfStream, ReadCommand,
       Dedup, AskReport, AskReportFails, SendReport, SendReportUnanswered, SendReportTimesOut,
       Execute, ClientCrash, ClientStart, vars, store, streams, clientMem, requests
  <1>5. ASSUME NEW g \in ghosts, GhostVerified(g)
        PROVE  /\ ghosts' \subseteq Ghosts /\ IsFiniteSet(ghosts')
               /\ Cardinality(ghosts') <= MaxGhosts
    <2> DEFINE v == [kind |-> "verified", nonce |-> None, job |-> g.job]
               rest == ghosts \ {g}
    <2>1. ghosts' = rest \union {v} /\ g.kind = "result"
      BY <1>5 DEF GhostVerified
    <2>2. v \in Ghosts
      BY <2>1 DEF TypeInv, TypeOK, Ghosts
    <2>3. IsFiniteSet(ghosts) /\ Cardinality(ghosts) \in Nat /\ Cardinality(ghosts) <= MaxGhosts
      BY FS_CardinalityType DEF TypeInv
    <2>4. IsFiniteSet(rest) /\ Cardinality(rest) = Cardinality(ghosts) - 1
      BY <2>3, FS_RemoveElement
    <2>5. ghosts' \subseteq Ghosts
      BY <2>1, <2>2 DEF TypeInv, TypeOK
    <2> HIDE DEF v, rest
    <2>6. /\ IsFiniteSet(ghosts')
          /\ Cardinality(ghosts') \in {Cardinality(rest), Cardinality(rest) + 1}
      BY <2>1, <2>4, FS_AddElement
    <2> QED BY <2>3, <2>4, <2>5, <2>6, CommandAssumption
  <1> HIDE DEF ask, send
  <1> QED BY <1>1, <1>2, <1>3, <1>4, <1>5, GhostAdded

\* The server's memory and the clocks.
LEMMA ServerTyped ==
    ASSUME IInv, TypeInv, [Next]_vars
    PROVE  /\ late' \in [Cmds -> SUBSET {"server", "client"}]
           /\ challenge' \in Nonces \union {None}
           /\ revoked' \in BOOLEAN /\ signal' \in BOOLEAN /\ open' \subseteq Handlers
  <1> USE DEF store, streams
  <1>1. late' \in [Cmds -> SUBSET {"server", "client"}]
    <2>1. late' = late \/ \E c \in Cmds, k \in {"server", "client"} : Deadline(c, k)
      BY DEF Next, ServerStep, ClientStep, CommandBegins, Command, CommandFails, ListCommands,
         RevokeDevice, ChallengeExpires, ServerRestart, StreamLost, ZombieEnds, Tick, Wake,
         WriteCommand, HandlerReturns, GhostArrives, GhostVerified, GhostLost, AskConnect,
         AskConnectDelayed, Connect, ConnectAnswerLost, ConnectFails, EndOfStream, ReadCommand,
         Dedup, AskReport, AskReportFails, SendReport, SendReportUnanswered, SendReportTimesOut,
         Execute, ClientCrash, ClientStart, vars
    <2>2. ASSUME NEW c \in Cmds, NEW k \in {"server", "client"}, Deadline(c, k)
          PROVE  late' \in [Cmds -> SUBSET {"server", "client"}]
      <3>1. late[c] \union {k} \in SUBSET {"server", "client"}
        BY DEF TypeInv, TypeOK
      <3> QED BY <2>2, <3>1 DEF Deadline, TypeInv, TypeOK
    <2> QED BY <2>1, <2>2 DEF TypeInv, TypeOK
  <1>2. challenge' \in Nonces \union {None}
    <2>1. challenge' \in {challenge, None, Fresh}
      BY DEF Next, ServerStep, ClientStep, CommandBegins, Command, CommandFails, Deadline,
         ListCommands, RevokeDevice, ChallengeExpires, ServerRestart, StreamLost, ZombieEnds,
         Tick, Wake, WriteCommand, HandlerReturns, GhostArrives, GhostVerified, GhostLost,
         AskConnect, AskConnectDelayed, Connect, ConnectAnswerLost, ConnectFails, EndOfStream,
         ReadCommand, Dedup, AskReport, AskReportFails, SendReport, SendReportUnanswered,
         SendReportTimesOut, Execute, ClientCrash, ClientStart, vars, deviceChallenge,
         deviceCommandResult
    <2> QED BY <2>1, FreshFact DEF TypeInv, TypeOK
  <1>3. revoked' \in BOOLEAN /\ signal' \in BOOLEAN
    <2>1. revoked' \in {revoked, TRUE} /\ signal' \in {signal, TRUE, FALSE}
      BY DEF Next, ServerStep, ClientStep, CommandBegins, Command, CommandFails, Deadline,
         ListCommands, RevokeDevice, ChallengeExpires, ServerRestart, StreamLost, ZombieEnds,
         Tick, Wake, WriteCommand, HandlerReturns, GhostArrives, GhostVerified, GhostLost,
         AskConnect, AskConnectDelayed, Connect, ConnectAnswerLost, ConnectFails, EndOfStream,
         ReadCommand, Dedup, AskReport, AskReportFails, SendReport, SendReportUnanswered,
         SendReportTimesOut, Execute, ClientCrash, ClientStart, vars, notifyCommand
    <2> QED BY <2>1 DEF TypeInv, TypeOK
  <1>4. open' \subseteq Handlers
    <2>1. open' \subseteq open \union {"live", "zombie"}
      BY DEF Next, ServerStep, ClientStep, CommandBegins, Command, CommandFails, Deadline,
         ListCommands, RevokeDevice, ChallengeExpires, ServerRestart, StreamLost, ZombieEnds,
         Tick, Wake, WriteCommand, HandlerReturns, GhostArrives, GhostVerified, GhostLost,
         AskConnect, AskConnectDelayed, Connect, ConnectAnswerLost, ConnectFails, EndOfStream,
         ReadCommand, Dedup, AskReport, AskReportFails, SendReport, SendReportUnanswered,
         SendReportTimesOut, Execute, ClientCrash, ClientStart, vars, Abandon, CloseStream,
         NextAttempt, Reported
    <2> QED BY <2>1 DEF TypeInv, TypeOK
  <1> QED BY <1>1, <1>2, <1>3, <1>4

\* What the client closes or restarts is typed.
LEMMA AttemptTyped ==
    ASSUME IInv, TypeInv, NextAttempt, pc \in {"ask", "send"}
    PROVE  /\ pc' \in {"ask", "idle"} /\ nonce' = None /\ job' \in Jobs
           /\ attempt' \in 0..(MaxAttempts - 1) /\ Len(inbox') <= MaxInbox
  <1>1. attempt \in 0..(MaxAttempts - 1) /\ job \in Jobs /\ Len(inbox) <= MaxInbox
    BY DEF TypeInv, TypeOK
  <1>2. CASE CloseStream
    BY <1>2, CommandAssumption DEF CloseStream, Jobs
  <1>3. CASE ~CloseStream
    BY <1>1, <1>3, CommandAssumption DEF NextAttempt
  <1> QED BY <1>2, <1>3

\* The client's variables and its buffer.
LEMMA ClientTyped ==
    ASSUME IInv, TypeInv, [Next]_vars
    PROVE  /\ Len(inbox') <= MaxInbox /\ pc' \in ClientAt /\ job' \in Jobs
           /\ nonce' \in Nonces \union {None} /\ (pc' = "send" => nonce' \in Nonces)
           /\ attempt' \in 0..(MaxAttempts - 1) /\ handled' \subseteq Cmds
  <1> USE DEF store, streams, clientMem, ClientAt
  <1> DEFINE Typed == /\ Len(inbox') <= MaxInbox /\ pc' \in ClientAt /\ job' \in Jobs
                      /\ nonce' \in Nonces \union {None} /\ (pc' = "send" => nonce' \in Nonces)
                      /\ attempt' \in 0..(MaxAttempts - 1) /\ handled' \subseteq Cmds
  <1>t. /\ Len(inbox) <= MaxInbox /\ pc \in ClientAt /\ job \in Jobs
        /\ nonce \in Nonces \union {None} /\ (pc = "send" => nonce \in Nonces)
        /\ attempt \in 0..(MaxAttempts - 1) /\ handled \subseteq Cmds
        /\ inbox \in Seq(Cmds) /\ Len(inbox) \in Nat
    BY DEF TypeInv, TypeOK
  <1>c. NoJob \in Jobs /\ 0 \in 0..(MaxAttempts - 1) /\ Len(<< >>) = 0 /\ 0 <= MaxInbox
    BY CommandAssumption DEF Jobs
  <1>1. CASE UNCHANGED clientMem /\ inbox' = inbox
    BY <1>t, <1>1
  <1>2. CASE ServerRestart \/ StreamLost
    <2>1. PICK n \in 0..Len(inbox) : inbox' = SubSeq(inbox, 1, n)
      BY <1>2 DEF ServerRestart, StreamLost
    <2>2. Len(inbox') = n /\ n <= MaxInbox
      BY <1>t, <2>1, CommandAssumption, SubSeqProperties
    <2> QED BY <1>t, <1>2, <2>2 DEF ServerRestart, StreamLost
  <1>3. ASSUME NEW h \in Handlers, WriteCommand(h) PROVE Typed
    <2>1. UNCHANGED clientMem
      BY <1>3 DEF WriteCommand
    <2>2. inbox' = inbox \/ \E c \in Cmds : Len(inbox) < MaxInbox /\ inbox' = Append(inbox, c)
      BY <1>3 DEF WriteCommand, IInv, BatchInv
    <2>3. Len(inbox') <= MaxInbox
      BY <1>t, <2>2, CommandAssumption
    <2> QED BY <1>t, <2>1, <2>3
  <1>4. CASE AskConnect \/ AskReport
    <2>1. Fresh \in Nonces
      BY FreshFact
    <2> QED BY <1>t, <1>4, <2>1 DEF AskConnect, AskReport
  <1>5. CASE Connect \/ ConnectAnswerLost \/ ConnectFails \/ EndOfStream \/ ClientStart
    BY <1>t, <1>c, <1>5 DEF Connect, ConnectAnswerLost, ConnectFails, EndOfStream, ClientStart
  <1>6. CASE ReadCommand
    <2>1. CASE CloseStream
      BY <1>t, <1>c, <1>6, <2>1 DEF ReadCommand, CloseStream
    <2>2. CASE ~CloseStream
      <3>1. /\ pc' = "dedup" /\ job' = [cmd |-> Head(inbox), want |-> "accepted"]
            /\ inbox' = Tail(inbox) /\ inbox # << >> /\ UNCHANGED <<nonce, attempt, handled>>
        BY <1>6, <2>2 DEF ReadCommand
      <3>2. Head(inbox) \in Cmds /\ Len(Tail(inbox)) = Len(inbox) - 1
        BY <1>t, <3>1, HeadTailProperties
      <3>3. Len(inbox') <= MaxInbox
        BY <1>t, <3>1, <3>2, CommandAssumption
      <3> QED BY <1>t, <3>1, <3>2, <3>3 DEF Jobs
    <2> QED BY <2>1, <2>2
  <1>7. CASE Dedup
    BY <1>t, <1>c, <1>7 DEF Dedup
  <1>8. CASE AskReportFails \/ SendReportUnanswered \/ SendReportTimesOut
    <2>1. NextAttempt /\ pc \in {"ask", "send"} /\ handled' = handled
      BY <1>8 DEF AskReportFails, SendReportUnanswered, SendReportTimesOut
    <2> QED BY <1>t, <2>1, AttemptTyped
  <1>9. CASE SendReport
    <2>1. Reported /\ job \in [cmd : Cmds, want : Reports]
      BY <1>9 DEF SendReport, IInv, JobInv
    <2>2. CASE job.want = "accepted"
      <3>1. [job EXCEPT !.want = "succeeded"] \in Jobs
        BY <2>1 DEF Jobs
      <3> QED BY <1>t, <1>c, <2>1, <2>2, <3>1 DEF Reported
    <2>3. CASE job.want # "accepted"
      BY <1>t, <1>c, <2>1, <2>3 DEF Reported, CloseStream
    <2> QED BY <2>2, <2>3
  <1>10. CASE Execute
    <2>1. job' \in Jobs
      BY <1>10 DEF Execute, IInv, JobInv, Jobs
    <2> QED BY <1>t, <1>10, <2>1 DEF Execute
  <1>11. CASE ClientCrash
    BY <1>t, <1>c, <1>11 DEF ClientCrash
  <1>12. CASE \/ \E c \in Cmds : \/ CommandBegins(c) \/ Command(c) \/ CommandFails(c)
                              \/ \E k \in {"server", "client"} : Deadline(c, k)
              \/ ListCommands \/ RevokeDevice \/ ChallengeExpires \/ ZombieEnds \/ HandlerReturns
              \/ \E h \in Handlers : Tick(h) \/ Wake(h)
              \/ \E g \in ghosts : GhostArrives(g) \/ GhostVerified(g) \/ GhostLost(g)
              \/ AskConnectDelayed \/ UNCHANGED vars
    <2>1. UNCHANGED clientMem /\ inbox' = inbox
      BY <1>12 DEF CommandBegins, Command, CommandFails, Deadline, ListCommands, RevokeDevice,
           ChallengeExpires, ZombieEnds, HandlerReturns, Tick, Wake, GhostArrives, GhostVerified,
           GhostLost, AskConnectDelayed, vars
    <2> QED BY <1>1, <2>1
  <1> HIDE DEF Typed
  <1>13. Typed
    BY <1>1, <1>2, <1>3, <1>4, <1>5, <1>6, <1>7, <1>8, <1>9, <1>10, <1>11, <1>12
    DEF Next, ServerStep, ClientStep, Typed
  <1> QED BY <1>13 DEF Typed

\* The requests being served and the history of their order.
LEMMA RequestsTyped ==
    ASSUME TypeInv, [Next]_vars
    PROVE  creating' \subseteq Cmds /\ earlier' \in [Cmds -> SUBSET Cmds]
  <1>1. \/ creating' \subseteq creating /\ earlier' = earlier
        \/ \E c \in Cmds : CommandBegins(c)
    BY DEF Next, ServerStep, ClientStep, Command, CreateCommand, CommandFails, Deadline,
       ListCommands, RevokeDevice, ChallengeExpires, ServerRestart, StreamLost, ZombieEnds, Tick,
       Wake, WriteCommand, HandlerReturns, GhostArrives, GhostVerified, GhostLost, AskConnect,
       AskConnectDelayed, Connect, ConnectAnswerLost, ConnectFails, EndOfStream, ReadCommand,
       Dedup, AskReport, AskReportFails, SendReport, SendReportUnanswered, SendReportTimesOut,
       Execute, ClientCrash, ClientStart, vars, requests
  <1>2. ASSUME NEW c \in Cmds, CommandBegins(c)
        PROVE  creating' \subseteq Cmds /\ earlier' \in [Cmds -> SUBSET Cmds]
    <2>1. {d \in Cmds : status[d] # "none"} \in SUBSET Cmds
      OBVIOUS
    <2> QED BY <1>2, <2>1 DEF CommandBegins, TypeInv, TypeOK
  <1> QED BY <1>1, <1>2 DEF TypeInv, TypeOK

\* Store, streams, client and delayed requests keep their types; in
\* particular the stream's buffer and the attempts keep their bounds, and
\* deviceChallenge always finds a challenge that nobody holds.
THEOREM TypeCorrect == Spec => []TypeOK
  <1>1. Init => TypeInv
    <2> SUFFICES ASSUME Init PROVE TypeInv
      OBVIOUS
    <2>1. Cardinality(ghosts) <= MaxGhosts /\ IsFiniteSet(ghosts)
      BY FS_EmptySet, CommandAssumption DEF Init
    <2>2. /\ attempt \in 0..(MaxAttempts - 1) /\ Len(inbox) <= MaxInbox /\ inbox \in Seq(Cmds)
          /\ job \in Jobs /\ executed \in [Cmds -> Nat] /\ pc \in ClientAt
      BY CommandAssumption DEF Init, Jobs, ClientAt
    <2> QED BY <2>1, <2>2 DEF Init, TypeInv, TypeOK
  <1>2. IInv /\ IInv' /\ TypeInv /\ [Next]_vars => TypeInv'
    <2> SUFFICES ASSUME IInv, IInv', TypeInv, [Next]_vars PROVE TypeInv'
      OBVIOUS
    <2>1. /\ status' \in [Cmds -> Statuses] /\ executed' \in [Cmds -> Nat]
          /\ taken' \subseteq Cmds
          /\ inbox' \in Seq(Cmds) /\ batch' \in [Handlers -> SUBSET Cmds]
      BY DEF IInv, StoreInv, BufferInv, BatchInv
    <2> QED BY <2>1, GhostsTyped, ServerTyped, ClientTyped, RequestsTyped DEF TypeInv, TypeOK
  <1>3. TypeInv => TypeOK
    BY DEF TypeInv
  <1> QED BY <1>1, <1>2, <1>3, Invariance, PTL DEF Spec

=============================================================================
