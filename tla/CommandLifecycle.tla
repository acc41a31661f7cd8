------------------------- MODULE CommandLifecycle -------------------------
(***************************************************************************)
(* The life of one device's commands: the rows of device_commands on the   *)
(* server, the HTTP handlers that move them, and the agent daemon that     *)
(* polls, acknowledges, executes and reports them over a network that      *)
(* loses requests and answers.                                             *)
(*                                                                         *)
(* Every handler is split where another transaction can run between its    *)
(* steps: POST .../result reads the row in one step (no row lock is taken) *)
(* and writes it in a later one, exactly as SQLAlchemy does: the column    *)
(* "status" is written only when its value changed with respect to what    *)
(* the handler had read.  Claiming, requeueing and expiring lock the rows  *)
(* they change and are atomic.                                             *)
(*                                                                         *)
(* Commands are numbered in the order of created_at, which is taken before *)
(* the commit: they need not appear in that order.  Time is counted in     *)
(* ticks: age[c] since created_at, capped at the tick at which expires_at  *)
(* has passed, and idle[c] since updated_at while the row is "sent" or     *)
(* "running", capped at the tick at which the delivery lease has passed.   *)
(***************************************************************************)
EXTENDS Integers, FiniteSets

CONSTANTS
  NumCommands,    \* number of commands the controller creates (bound)
  BatchLimit,     \* commands handed out by one claim (the LIMIT 5)
  MaxDeliveries,  \* reliability.delivery.max_deliveries
  LeaseTicks,     \* ticks after which COMMAND_DELIVERY_LEASE has passed
  TtlTicks,       \* ticks after which expires_at has passed
  Slots,          \* server threads that can hold a result request (bound)
  MaxOrphans,     \* long polls still served after their client left (bound)
  MaxVerifiers,   \* background verifiers of one transaction (bound)
  Transactional,  \* commands with a configuration transaction
  Transient,      \* commands whose result is never stored (wifi.get_qr)
  Unsupported     \* commands of a contract version that some agents do not speak

Commands == 1..NumCommands

ASSUME LifecycleAssumption ==
  /\ NumCommands \in Nat
  /\ BatchLimit \in Nat \ {0}
  /\ MaxDeliveries \in Nat \ {0}
  /\ LeaseTicks \in Nat \ {0}
  /\ TtlTicks \in Nat \ {0}
  /\ MaxOrphans \in Nat
  /\ MaxVerifiers \in Nat \ {0}
  /\ Transactional \subseteq Commands
  /\ Transient \subseteq Commands \ Transactional
  /\ Unsupported \subseteq Commands

VARIABLES
  \* server: the rows of device_commands
  status, retryCount, age, idle,
  \* server: result requests being served, and polls without a client
  handler, orphans,
  \* agent daemon: control state, command in hand, rest of the batch, and the
  \* status in the body of the last 2xx answer to an acknowledgement
  pc, cur, batch, reply,
  \* agent: background processes that verify a command's transaction
  verifiers,
  \* agent storage, kept across restarts: the result journal, the results no
  \* 2xx answer has confirmed, and the state of each command's transaction
  results, unconfirmed, tx,
  \* history: how often execute_command got past its admission checks, and the
  \* commands that appeared when a later one had been handed out
  executions, belated

serverVars == <<status, retryCount, age, idle, belated>>
diskVars == <<results, unconfirmed, tx>>
vars == <<status, retryCount, age, idle, handler, orphans, pc, cur, batch,
          reply, verifiers, results, unconfirmed, tx, executions, belated>>

-----------------------------------------------------------------------------
Terminal == {"success", "failed", "expired"}
Active   == {"queued", "sent", "running"}
Statuses == {"none"} \cup Active \cup Terminal
Outcomes == {"done", "failed"}

\* The daemon waits for the answer to a POST in these control states.
Waiting  == {"acking", "announcing", "reporting"}
Controls == Waiting \cup {"idle", "polling", "handling", "granted",
                          "executing", "down"}

\* A result request; cmd = 0 marks a free thread.
Requests == [cmd : 0..NumCommands, kind : {"running"} \cup Outcomes,
             seen : Statuses \cup {"unread"},
             waiter : {"daemon", "verifier", "nobody"}]
Free == [cmd |-> 0, kind |-> "running", seen |-> "unread",
         waiter |-> "nobody"]

\* Type invariant: the rows, requests, agent state and journals have the
\* shapes their tables, files and shell variables have.
TypeOK ==
  /\ status \in [Commands -> Statuses]
  /\ retryCount \in [Commands -> Nat]
  /\ age \in [Commands -> 0..TtlTicks]
  /\ idle \in [Commands -> 0..LeaseTicks]
  /\ handler \in [Slots -> Requests]
  /\ orphans \in 0..MaxOrphans
  /\ pc \in Controls
  /\ cur \in 0..NumCommands
  /\ batch \in SUBSET Commands
  /\ reply \in Statuses
  /\ verifiers \in [Commands -> 0..MaxVerifiers]
  /\ results \in [Commands -> Outcomes \cup {"none"}]
  /\ unconfirmed \in SUBSET Commands
  /\ tx \in [Commands -> {"none", "prepared", "verifying", "closed"}]
  /\ executions \in [Commands -> Nat]
  /\ belated \in SUBSET Commands

Init ==
  /\ status = [c \in Commands |-> "none"]
  /\ retryCount = [c \in Commands |-> 0]
  /\ age = [c \in Commands |-> 0]
  /\ idle = [c \in Commands |-> 0]
  /\ handler = [s \in Slots |-> Free]
  /\ orphans = 0
  /\ pc = "idle"
  /\ cur = 0
  /\ batch = {}
  /\ reply = "none"
  /\ verifiers = [c \in Commands |-> 0]
  /\ results = [c \in Commands |-> "none"]
  /\ unconfirmed = {}
  /\ tx = [c \in Commands |-> "none"]
  /\ executions = [c \in Commands |-> 0]
  /\ belated = {}

-----------------------------------------------------------------------------
(* Server: time, creation and the sweeps over the command table. *)

\* Time passes for every command that exists.
Tick ==
  /\ age' = [c \in Commands |->
               IF status[c] = "none" \/ age[c] = TtlTicks
                 THEN age[c] ELSE age[c] + 1]
  /\ idle' = [c \in Commands |->
                IF status[c] \in {"sent", "running"} /\ idle[c] < LeaseTicks
                  THEN idle[c] + 1 ELSE idle[c]]
  /\ UNCHANGED <<status, retryCount, handler, orphans, pc, cur, batch, reply,
                 verifiers, diskVars, executions, belated>>

\* create_device_command: a command enters the queue.
Create(c) ==
  /\ status[c] = "none"
  /\ status' = [status EXCEPT ![c] = "queued"]
  /\ belated' = IF \E d \in Commands : c < d /\ retryCount[d] > 0
                THEN belated \cup {c} ELSE belated
  /\ UNCHANGED <<retryCount, age, idle, handler, orphans, pc, cur, batch,
                 reply, verifiers, diskVars, executions>>

\* Mutant: a running command is not expired.
AfterExpireSparesRunning(c) ==
  IF status[c] \in {"queued", "sent"} /\ age[c] = TtlTicks
    THEN "expired" ELSE status[c]

\* expire_old_commands: every active row past its TTL becomes "expired".
AfterExpire(c) ==
  IF status[c] \in Active /\ age[c] = TtlTicks THEN "expired" ELSE status[c]

\* Mutant: a running command whose lease has passed is delivered again.
StaleRunning(c) ==
  AfterExpire(c) \in {"sent", "running"} /\ idle[c] = LeaseTicks

\* requeue_stale_sent_commands, run after the expiry in the same transaction.
Stale(c) == AfterExpire(c) = "sent" /\ idle[c] = LeaseTicks

\* Mutants: one delivery too many; the expiry is not looked at.
AfterRequeueOnceMore(c) ==
  IF ~Stale(c) THEN AfterExpire(c)
  ELSE IF retryCount[c] > MaxDeliveries THEN "failed" ELSE "queued"
AfterRequeueUnexpired(c) ==
  IF status[c] # "sent" \/ idle[c] < LeaseTicks THEN status[c]
  ELSE IF retryCount[c] >= MaxDeliveries THEN "failed" ELSE "queued"

AfterRequeue(c) ==
  IF ~Stale(c) THEN AfterExpire(c)
  ELSE IF retryCount[c] >= MaxDeliveries THEN "failed" ELSE "queued"

\* The oldest queued rows, at most BatchLimit of them.
Claimable ==
  LET queued == {c \in Commands : AfterRequeue(c) = "queued"}
  IN  {c \in queued : Cardinality({d \in queued : d < c}) < BatchLimit}

\* The housekeeping loop and the command list of the UI expire commands.
Expire ==
  /\ \E c \in Commands : AfterExpire(c) # status[c]
  /\ status' = [c \in Commands |-> AfterExpire(c)]
  /\ UNCHANGED <<retryCount, age, idle, handler, orphans, pc, cur, batch,
                 reply, verifiers, diskVars, executions, belated>>

\* The poll of another device requeues stale commands of every device.
RequeueByOtherDevice ==
  /\ \E c \in Commands : AfterRequeue(c) # status[c]
  /\ status' = [c \in Commands |-> AfterRequeue(c)]
  /\ UNCHANGED <<retryCount, age, idle, handler, orphans, pc, cur, batch,
                 reply, verifiers, diskVars, executions, belated>>

\* _claim_commands: expire, requeue, then mark the claimed rows "sent".
ClaimRows(claimed) ==
  /\ status' = [c \in Commands |->
                  IF c \in claimed THEN "sent" ELSE AfterRequeue(c)]
  /\ retryCount' = [c \in Commands |->
                      IF c \in claimed THEN retryCount[c] + 1
                                       ELSE retryCount[c]]
  /\ idle' = [c \in Commands |-> IF c \in claimed THEN 0 ELSE idle[c]]
  /\ UNCHANGED <<age, handler, verifiers, diskVars, executions, belated, cur, reply>>

\* The agent's own poll: the answer carries the claimed commands.
ClaimAndDeliver ==
  /\ pc = "polling"
  /\ ClaimRows(Claimable)
  /\ batch' = Claimable
  /\ pc' = IF Claimable = {} THEN "polling" ELSE "handling"
  /\ UNCHANGED orphans

\* A poll whose client is gone claims commands all the same, for nobody.
ClaimForNobody ==
  /\ orphans > 0
  /\ ClaimRows(Claimable)
  /\ orphans' = orphans - 1
  /\ UNCHANGED <<pc, batch>>

-----------------------------------------------------------------------------
(* Result requests: what the client sees, then the handler's transactions. *)

\* A client sends a request: it takes a thread, or is lost on the way.
Send(c, kind, who) ==
  \/ \E s \in Slots :
       /\ handler[s] = Free
       /\ handler' = [handler EXCEPT ![s] =
            [cmd |-> c, kind |-> kind, seen |-> "unread", waiter |-> who]]
  \/ UNCHANGED handler

\* The daemon goes on after the POST it waited for; ok is a 2xx answer.
DaemonGoesOn(ok, body) ==
  /\ pc' = IF pc = "acking" /\ ok THEN "granted" ELSE "handling"
  /\ reply' = IF pc = "acking" /\ ok THEN body ELSE reply
  /\ IF pc = "announcing"
       THEN /\ tx' = [tx EXCEPT ![cur] = "verifying"]
            /\ verifiers' = [verifiers EXCEPT ![cur] = 1]
       ELSE UNCHANGED <<tx, verifiers>>

\* A 2xx answer to a terminal report replaces what the journal holds by a stub
\* with the status that was reported.
ResultConfirmed(request, ok) ==
  IF ok /\ request.kind \in Outcomes /\ request.cmd \notin Transient
    THEN /\ unconfirmed' = unconfirmed \ {request.cmd}
         /\ results' = [results EXCEPT ![request.cmd] = request.kind]
    ELSE UNCHANGED <<unconfirmed, results>>

\* Thread s answers and is free again.
Answer(s, ok, body) ==
  /\ handler' = [handler EXCEPT ![s] = Free]
  /\ \/ /\ handler[s].waiter = "daemon"
        /\ DaemonGoesOn(ok, body)
        /\ ResultConfirmed(handler[s], ok)
     \/ /\ handler[s].waiter = "verifier"
        /\ ResultConfirmed(handler[s], ok)
        /\ UNCHANGED <<pc, reply, tx, verifiers>>
     \/ /\ handler[s].waiter = "nobody"
        /\ UNCHANGED <<pc, reply, tx, verifiers, unconfirmed, results>>

Reads(s) == handler[s].cmd # 0 /\ handler[s].seen = "unread"

\* command_result on a finished command: 200 with the stored status.
LoadFinished(s) ==
  /\ Reads(s)
  /\ status[handler[s].cmd] \in Terminal
  /\ Answer(s, TRUE, status[handler[s].cmd])
  /\ UNCHANGED <<serverVars, orphans, cur, batch, executions>>

\* "running" is accepted from "sent" and "running" only: 409 otherwise.
LoadRefused(s) ==
  /\ Reads(s)
  /\ handler[s].kind = "running"
  /\ status[handler[s].cmd] = "queued"
  /\ Answer(s, FALSE, "queued")
  /\ UNCHANGED <<serverVars, orphans, cur, batch, executions>>

\* The row is loaded without a lock; the handler works on that copy.
LoadAccepted(s) ==
  /\ Reads(s)
  /\ LET seen == status[handler[s].cmd]
     IN  /\ seen \in Active
         /\ handler[s].kind = "running" => seen # "queued"
         /\ handler' = [handler EXCEPT ![s].seen = seen]
  /\ UNCHANGED <<serverVars, orphans, pc, cur, batch, reply, verifiers,
                 diskVars, executions>>

\* Mutants: the reported status is stored as it came; any report succeeds.
WrittenVerbatim(kind) == kind
WrittenSuccess(kind) == IF kind = "running" THEN "running" ELSE "success"

Written(kind) == CASE kind = "running" -> "running"
                   [] kind = "done"    -> "success"
                   [] kind = "failed"  -> "failed"

\* The commit writes "status" only if the copy changed it.
Commit(s) ==
  /\ handler[s].seen # "unread"
  /\ LET c == handler[s].cmd
         new == Written(handler[s].kind)
     IN  /\ status' = IF new = handler[s].seen
                        THEN status ELSE [status EXCEPT ![c] = new]
         /\ idle' = [idle EXCEPT ![c] = 0]
         /\ Answer(s, TRUE, new)
  /\ UNCHANGED <<retryCount, age, orphans, cur, batch, executions, belated>>

\* The client stops waiting (curl --max-time, a broken connection): the
\* request, if it arrived, is served for nobody.
Forsake(who) ==
  handler' = [s \in Slots |-> IF handler[s].waiter \in who
                               THEN [handler[s] EXCEPT !.waiter = "nobody"]
                               ELSE handler[s]]

-----------------------------------------------------------------------------
(* The agent daemon. *)

Poll ==
  /\ pc = "idle"
  /\ pc' = "polling"
  /\ UNCHANGED <<serverVars, handler, orphans, cur, batch, reply, verifiers,
                 diskVars, executions>>

\* The long poll ends with an empty list.
PollEmpty ==
  /\ pc = "polling"
  /\ pc' = "idle"
  /\ UNCHANGED <<serverVars, handler, orphans, cur, batch, reply, verifiers,
                 diskVars, executions>>

\* The poll fails while the server may still be serving it.
PollFails ==
  /\ pc = "polling"
  /\ pc' = "idle"
  /\ orphans' \in {orphans, orphans + 1} \cap 0..MaxOrphans
  /\ UNCHANGED <<serverVars, handler, cur, batch, reply, verifiers, diskVars,
                 executions>>

\* Mutant: the commands of a batch are handled in any order.
Next1Any(c) ==
  /\ pc = "handling"
  /\ c \in batch
  /\ batch' = batch \ {c}
  /\ cur' = c

\* Commands are handled in the order the server listed them.
Next1(c) ==
  /\ pc = "handling"
  /\ c \in batch
  /\ \A d \in batch : c <= d
  /\ batch' = batch \ {c}
  /\ cur' = c

\* A journalled result is sent again instead of executing the command.
ResendResult(c) ==
  /\ Next1(c)
  /\ results[c] # "none"
  /\ pc' = "reporting"
  /\ Send(c, results[c], "daemon")
  /\ UNCHANGED <<serverVars, orphans, reply, verifiers, diskVars, executions>>

\* report_command_result: journal the terminal result, then send it.
Report(c, outcome, who) ==
  /\ results' = IF c \in Transient THEN results
                                    ELSE [results EXCEPT ![c] = outcome]
  /\ unconfirmed' = IF c \in Transient THEN unconfirmed
                                        ELSE unconfirmed \cup {c}
  /\ Send(c, outcome, who)

\* An unknown contract version is reported as failed, unacknowledged.  Whether
\* the daemon that is up knows it may change with every delivery: an update or a
\* roll-back replaces the daemon in between.
RejectContract(c) ==
  /\ Next1(c)
  /\ results[c] = "none"
  /\ c \in Unsupported
  /\ pc' = "reporting"
  /\ Report(c, "failed", "daemon")
  /\ UNCHANGED <<serverVars, orphans, reply, verifiers, tx, executions>>

Acknowledge(c) ==
  /\ Next1(c)
  /\ results[c] = "none"
  /\ pc' = "acking"
  /\ Send(c, "running", "daemon")
  /\ UNCHANGED <<serverVars, orphans, reply, verifiers, diskVars, executions>>

\* The POST the daemon waits for fails; after a failed acknowledgement the
\* command is skipped, after a failed report the batch goes on.
PostFails ==
  /\ pc \in Waiting
  /\ Forsake({"daemon"})
  /\ DaemonGoesOn(FALSE, "none")
  /\ UNCHANGED <<serverVars, orphans, cur, batch, results, unconfirmed,
                 executions>>

\* execute_command refuses: recovery mode, or no transaction backup.
Refuse ==
  /\ pc = "granted"
  /\ pc' = "reporting"
  /\ Report(cur, "failed", "daemon")
  /\ UNCHANGED <<serverVars, orphans, cur, batch, reply, verifiers, tx,
                 executions>>

\* execute_command begins the transaction, if any, and runs the handler.
Execute ==
  /\ pc = "granted"
  /\ pc' = "executing"
  /\ executions' = [executions EXCEPT ![cur] = @ + 1]
  /\ tx' = IF cur \in Transactional THEN [tx EXCEPT ![cur] = "prepared"]
                                     ELSE tx
  /\ UNCHANGED <<serverVars, handler, orphans, cur, batch, reply, verifiers,
                 results, unconfirmed>>

\* The handler and the post-condition are done: the outcome is reported.
Finish(outcome) ==
  /\ pc = "executing"
  /\ pc' = "reporting"
  /\ Report(cur, outcome, "daemon")
  /\ tx' = IF cur \in Transactional THEN [tx EXCEPT ![cur] = "closed"] ELSE tx
  /\ UNCHANGED <<serverVars, orphans, cur, batch, reply, verifiers, executions>>

\* A change that may cut the connection is announced as "running" and left
\* to a background verifier.
DeferToVerifier ==
  /\ pc = "executing"
  /\ cur \in Transactional
  /\ pc' = "announcing"
  /\ Send(cur, "running", "daemon")
  /\ UNCHANGED <<serverVars, orphans, cur, batch, reply, verifiers, diskVars,
                 executions>>

\* The batch is exhausted.
BatchDone ==
  /\ pc = "handling"
  /\ batch = {}
  /\ pc' = "idle"
  /\ UNCHANGED <<serverVars, handler, orphans, cur, batch, reply, verifiers,
                 diskVars, executions>>

\* A background verifier settles its transaction and reports.
VerifierReports(c, outcome) ==
  /\ verifiers[c] > 0
  /\ verifiers' = [verifiers EXCEPT ![c] = @ - 1]
  /\ tx' = [tx EXCEPT ![c] = "closed"]
  /\ Report(c, outcome, "verifier")
  /\ UNCHANGED <<serverVars, orphans, pc, cur, batch, reply, executions>>

\* The verifier's POST fails.
VerifierPostFails ==
  /\ \E s \in Slots : handler[s].waiter = "verifier"
  /\ Forsake({"verifier"})
  /\ UNCHANGED <<serverVars, orphans, pc, cur, batch, reply, verifiers,
                 diskVars, executions>>

\* The daemon is killed, restarted or replaced by an updated one: files and
\* background verifiers survive, nothing else.
DaemonExits ==
  /\ pc # "down"
  /\ pc' = "down"
  /\ batch' = {}
  /\ Forsake({"daemon"})
  /\ UNCHANGED <<serverVars, orphans, cur, reply, verifiers, diskVars,
                 executions>>

\* The router reboots: only files survive.
Crash ==
  /\ pc # "down"
  /\ pc' = "down"
  /\ batch' = {}
  /\ verifiers' = [c \in Commands |-> 0]
  /\ Forsake({"daemon", "verifier"})
  /\ UNCHANGED <<serverVars, orphans, cur, reply, diskVars, executions>>

\* transaction_recover_pending: unfinished transactions get a verifier, also
\* those that still have one.  Recovery that gives up at once is a verifier
\* that reports "failed".
Unfinished(c) == tx[c] \in {"prepared", "verifying"}
Restart ==
  /\ pc = "down"
  /\ \A c \in Commands : Unfinished(c) => verifiers[c] < MaxVerifiers
  /\ pc' = "idle"
  /\ tx' = [c \in Commands |-> IF Unfinished(c) THEN "verifying" ELSE tx[c]]
  /\ verifiers' = [c \in Commands |->
                     IF Unfinished(c) THEN verifiers[c] + 1 ELSE verifiers[c]]
  /\ UNCHANGED <<serverVars, handler, orphans, cur, batch, reply, results,
                 unconfirmed, executions>>

-----------------------------------------------------------------------------
ServerStep ==
  \/ \E c \in Commands : Create(c)
  \/ Expire \/ RequeueByOtherDevice \/ ClaimAndDeliver \/ ClaimForNobody
  \/ \E s \in Slots :
       LoadFinished(s) \/ LoadRefused(s) \/ LoadAccepted(s) \/ Commit(s)

AgentStep ==
  \/ Poll \/ PollEmpty \/ PollFails \/ PostFails \/ BatchDone
  \/ \E c \in Commands : ResendResult(c) \/ RejectContract(c) \/ Acknowledge(c)
  \/ Refuse \/ Execute \/ DeferToVerifier \/ \E o \in Outcomes : Finish(o)
  \/ \E c \in Commands, o \in Outcomes : VerifierReports(c, o)
  \/ VerifierPostFails \/ DaemonExits \/ Crash \/ Restart

Next == Tick \/ ServerStep \/ AgentStep

Spec == Init /\ [][Next]_vars

\* The server serves what it has accepted, time passes, and the housekeeping
\* loop runs: nothing is asked of the agent or of the network.
ServerFairness ==
  /\ WF_vars(Tick)
  /\ WF_vars(Expire)
  /\ \A s \in Slots :
       WF_vars(LoadFinished(s) \/ LoadRefused(s) \/ LoadAccepted(s) \/ Commit(s))

\* The daemon and its verifiers are scheduled and give up late POSTs.
AgentFairness ==
  /\ WF_vars(Poll) /\ WF_vars(PostFails) /\ WF_vars(BatchDone)
  /\ WF_vars(PollEmpty \/ PollFails) /\ SF_vars(ClaimAndDeliver)
  /\ WF_vars(\E c \in Commands :
               ResendResult(c) \/ RejectContract(c) \/ Acknowledge(c))
  /\ WF_vars(Execute \/ Refuse)
  /\ WF_vars(DeferToVerifier \/ \E o \in Outcomes : Finish(o))
  /\ WF_vars(\E c \in Commands, o \in Outcomes : VerifierReports(c, o))
  /\ WF_vars(Restart)

FairSpec == Spec /\ ServerFairness
FairAgentSpec == FairSpec /\ AgentFairness

-----------------------------------------------------------------------------
(* What the protocol guarantees. *)

\* Whatever is lost, late, requeued or restarted, execute_command runs a
\* command at most once: the result journal alone would not be enough, since a
\* crash can leave it empty; it takes the "running" status as well.
AtMostOnce == \A c \in Commands : executions[c] <= 1

\* Commands are executed in the order they were created in: one that the daemon
\* has yet to run, in its batch or in hand, is overtaken by a later one only if
\* its first delivery was lost, or if it appeared when the later one had been
\* handed out.  It takes the claim, the queue, the batch and every way a batch is
\* given up or repeated.
Ahead == batch \cup (IF pc \in {"acking", "granted"} THEN {cur} ELSE {})
KeepsOrder ==
  \A c \in Ahead, d \in Commands :
    c < d /\ executions[d] > 0 => retryCount[c] > 1 \/ c \in belated

\* The server shows "success" only for a command the agent executed and has
\* closed: its journal holds a result (a transient one is not journalled) and
\* no transaction of it is pending.
SuccessWasExecuted ==
  \A c \in Commands : status[c] = "success" =>
    /\ executions[c] = 1
    /\ ~Unfinished(c)
    /\ c \notin Transient => results[c] # "none"

\* No interleaving of polls of any device, abandoned polls included, hands a
\* command out more often than its contract allows.
DeliveryBound == \A c \in Commands : retryCount[c] <= MaxDeliveries

\* A claim never hands out a command that was executed, has a verdict, or is
\* past its TTL, even when the sweeps and the claim share a transaction.
OnlyFreshDelivered ==
  [][\A c \in Commands : retryCount'[c] > retryCount[c] =>
       /\ executions[c] = 0
       /\ status[c] \in {"queued", "sent"}
       /\ age[c] < TtlTicks]_vars

\* Every command gets a verdict for good, with no help from the agent or the
\* network: a late result may revive an expired command, but not for ever.
EventuallySettled ==
  \A c \in Commands : status[c] # "none" ~> [](status[c] \in Terminal)

\* How the rows and the agent's history appear to whoever queued a command.
JobView ==
  [c \in Commands |->
     [stage      |-> IF executions[c] > 0 THEN "started"
                     ELSE IF status[c] # "none" THEN "submitted" ELSE "none",
      deliveries |-> retryCount[c],
      verdict    |-> IF status[c] \in Terminal THEN status[c] ELSE "open"]]

Contract == INSTANCE CommandContract WITH Jobs <- Commands, job <- JobView

\* The lifecycle implements the contract of CommandContract.
ContractKept == Contract!Spec

-----------------------------------------------------------------------------
(* Why it does: the inductive invariant. *)

\* A row that was acknowledged or decided is never queued or sent again.
Past(c) == status[c] \in {"running"} \cup Terminal

\* Only a row that can still be delivered has deliveries left to make.
DeliveriesLeft ==
  \A c \in Commands :
    /\ retryCount[c] <= MaxDeliveries
    /\ status[c] \in {"none", "queued"} => retryCount[c] < MaxDeliveries
    /\ status[c] = "none" => retryCount[c] = 0

\* The journal and the transaction of a command agree with its executions.
JournalOK ==
  \A c \in Commands :
    /\ executions[c] \in {0, 1}
    /\ executions[c] = 1 => Past(c) /\ retryCount[c] > 0
    /\ executions[c] = 0 => tx[c] = "none" /\ results[c] # "done"
    /\ Unfinished(c) => results[c] = "none"
    /\ verifiers[c] > 0 => tx[c] \in {"verifying", "closed"}
    /\ c \notin Transactional => tx[c] = "none"

\* What the daemon holds: the batch is fresh, and so is the command in hand
\* until it is executed; its result is not journalled before it ends.
DaemonOK ==
  /\ \A c \in batch : executions[c] = 0 /\ retryCount[c] > 0
  /\ pc \in Waiting \cup {"granted", "executing"} => cur \in Commands \ batch
  /\ pc \in {"acking", "granted"} =>
       /\ executions[cur] = 0
       /\ retryCount[cur] > 0
       /\ results[cur] = "none"
  /\ pc = "granted" => Past(cur)
  /\ pc \in {"executing", "announcing"} =>
       executions[cur] = 1 /\ results[cur] = "none"
  /\ pc = "executing" /\ cur \in Transactional => tx[cur] = "prepared"
  /\ pc = "announcing" => tx[cur] = "prepared"

\* What a request in a server thread can still cause.
RequestOK(r) ==
  /\ r.waiter = "daemon" =>
       /\ pc \in Waiting
       /\ r.cmd = cur
       /\ pc = "acking" => r.kind = "running"
  /\ r.seen # "unread" => r.cmd \in Commands
  /\ r.cmd \in Commands => retryCount[r.cmd] > 0
  /\ r.seen = "running" => Past(r.cmd)
  /\ r.kind \in Outcomes =>
       /\ r.cmd \in Commands
       /\ ~Unfinished(r.cmd)
       /\ r.cmd \notin Transient => results[r.cmd] # "none"
       /\ r.kind = "done" => executions[r.cmd] = 1

RequestsOK ==
  /\ \A s \in Slots : RequestOK(handler[s])
  /\ \A s, t \in Slots :
       handler[s].waiter = "daemon" /\ handler[t].waiter = "daemon" => s = t

\* The inductive invariant: at-most-once execution, bounded delivery and honest
\* successes follow from what daemon, journal, rows and requests know of each
\* other, however polls, sweeps, results, crashes and restarts interleave.
Inductive ==
  /\ TypeOK
  /\ DeliveriesLeft
  /\ JournalOK
  /\ DaemonOK
  /\ RequestsOK
  /\ SuccessWasExecuted

-----------------------------------------------------------------------------
(* Why commands keep their order. *)

\* What waits for its first delivery is handed out before anything later, a
\* daemon without a batch holds none, and the command in hand is the oldest.
OrderOK ==
  /\ \A c \in Commands : status[c] = "sent" => retryCount[c] > 0
  /\ \A c, d \in Commands :
       c < d /\ status[c] = "queued" /\ retryCount[c] = 0 /\ c \notin belated =>
         retryCount[d] = 0
  /\ pc \in {"idle", "polling", "down"} => batch = {}
  /\ pc \in {"acking", "granted"} => \A c \in batch : cur < c
  /\ KeepsOrder

-----------------------------------------------------------------------------
(* What the documents promise and the code does not keep. *)

\* docs/command-lifecycle.md: before executing, the agent has the status
\* "running" confirmed.  The daemon looks at the HTTP code only.
RunsOnlyConfirmed == pc = "granted" => reply = "running"

\* idempotency.sh keeps the complete result until the server confirms it, so
\* that it can be sent again: once the agent stays up, a result it keeps for a
\* running command becomes the server's verdict.
ResultReachesServer ==
  <>[](pc # "down") =>
    \A c \in Commands :
      c \in unconfirmed /\ status[c] = "running" ~>
        \E o \in Outcomes : results[c] = o /\ status[c] = Written(o)
=============================================================================
