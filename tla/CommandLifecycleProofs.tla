---------------------- MODULE CommandLifecycleProofs ----------------------
(***************************************************************************)
(* Proofs about CommandLifecycle for any number of commands, server        *)
(* threads, deliveries and abandoned polls: the inductive invariant, the   *)
(* safety properties that follow from it, and the refinement of            *)
(* CommandContract.                                                        *)
(***************************************************************************)
EXTENDS CommandLifecycle, FiniteSetTheorems, TLAPS

USE DEF Unfinished

-----------------------------------------------------------------------------
(* The sweeps: what expiry and requeueing do to one row. *)

\* The sweeps keep a row within the table's statuses, never touch a row that
\* does not exist, and never give a decided or running row a delivery.
LEMMA SweepFacts ==
  ASSUME TypeOK, NEW c \in Commands
  PROVE  /\ AfterExpire(c) \in Statuses
         /\ AfterRequeue(c) \in Statuses
         /\ \/ AfterExpire(c) = status[c]
            \/ status[c] \in Active /\ AfterExpire(c) = "expired"
         /\ AfterRequeue(c) = "none" <=> status[c] = "none"
         /\ AfterRequeue(c) = "success" <=> status[c] = "success"
         /\ status[c] \in Terminal => AfterRequeue(c) = status[c]
         /\ Past(c) => AfterRequeue(c) \in {"running"} \cup Terminal
         /\ AfterRequeue(c) = "queued" =>
              /\ status[c] \in {"queued", "sent"}
              /\ status[c] = "queued" \/ retryCount[c] < MaxDeliveries
BY LifecycleAssumption DEF TypeOK, AfterExpire, AfterRequeue, Stale, Past,
   Statuses, Active, Terminal

-----------------------------------------------------------------------------
(* Initial states, time, creation and sweeps. *)

LEMMA InitInductive == Init => Inductive
BY LifecycleAssumption
DEF Init, Inductive, TypeOK, DeliveriesLeft, JournalOK, DaemonOK, RequestsOK,
    RequestOK, SuccessWasExecuted, Statuses, Outcomes, Waiting, Controls,
    Requests, Free, Commands

LEMMA TickInductive == Inductive /\ Tick => Inductive'
BY LifecycleAssumption
DEF Tick, Inductive, TypeOK, DeliveriesLeft, JournalOK, DaemonOK, RequestsOK,
    RequestOK, SuccessWasExecuted, diskVars, Past

LEMMA CreateInductive ==
  ASSUME NEW c \in Commands, Inductive, Create(c)
  PROVE  Inductive'
BY DEF Create, Inductive, TypeOK, DeliveriesLeft, JournalOK, DaemonOK,
       RequestsOK, RequestOK, SuccessWasExecuted, diskVars, Past, Statuses,
       Active, Terminal

LEMMA ExpireInductive == Inductive /\ Expire => Inductive'
BY SweepFacts
DEF Expire, Inductive, TypeOK, DeliveriesLeft, JournalOK, DaemonOK, RequestsOK,
    RequestOK, SuccessWasExecuted, diskVars, Past, Active, Terminal

LEMMA RequeueInductive == Inductive /\ RequeueByOtherDevice => Inductive'
BY SweepFacts
DEF RequeueByOtherDevice, Inductive, TypeOK, DeliveriesLeft, JournalOK,
    DaemonOK, RequestsOK, RequestOK, SuccessWasExecuted, diskVars, Past,
    Active, Terminal

-----------------------------------------------------------------------------
(* Claims. *)

\* A claim hands out queued rows only, none of which was ever executed.
LEMMA ClaimableFacts ==
  ASSUME Inductive, NEW c \in Claimable
  PROVE  /\ c \in Commands
         /\ AfterRequeue(c) = "queued"
         /\ executions[c] = 0
         /\ retryCount[c] < MaxDeliveries
         /\ status[c] \in {"queued", "sent"}
BY SweepFacts
DEF Claimable, Inductive, TypeOK, DeliveriesLeft, JournalOK, Past, Terminal

\* The part of the invariant about rows and journals survives a claim,
\* whoever asked for it.
LEMMA ClaimRowsFacts ==
  ASSUME Inductive, ClaimRows(Claimable)
  PROVE  /\ status' \in [Commands -> Statuses]
         /\ retryCount' \in [Commands -> Nat]
         /\ idle' \in [Commands -> 0..LeaseTicks]
         /\ \A c \in Commands : Past(c) => Past(c)'
         /\ \A c \in Commands : retryCount[c] > 0 => retryCount'[c] > 0
         /\ \A c \in Claimable : retryCount'[c] > 0
         /\ \A c \in Commands : status'[c] = "success" => status[c] = "success"
         /\ DeliveriesLeft'
<1> USE LifecycleAssumption, SweepFacts, ClaimableFacts
<1>1. /\ status' \in [Commands -> Statuses]
      /\ retryCount' \in [Commands -> Nat]
      /\ idle' \in [Commands -> 0..LeaseTicks]
  BY DEF ClaimRows, Inductive, TypeOK, Statuses, Active
<1>2. \A c \in Commands : Past(c) => Past(c)'
  BY DEF ClaimRows, Inductive, Past, Terminal
<1>3. /\ \A c \in Commands : retryCount[c] > 0 => retryCount'[c] > 0
      /\ \A c \in Claimable : retryCount'[c] > 0
      /\ \A c \in Commands : status'[c] = "success" => status[c] = "success"
  BY DEF ClaimRows, Inductive, TypeOK
<1>4. DeliveriesLeft'
  BY DEF ClaimRows, Inductive, TypeOK, DeliveriesLeft
<1> QED BY <1>1, <1>2, <1>3, <1>4

LEMMA ClaimAndDeliverInductive == Inductive /\ ClaimAndDeliver => Inductive'
<1> SUFFICES ASSUME Inductive, ClaimAndDeliver PROVE Inductive'
  OBVIOUS
<1>1. ClaimRows(Claimable) /\ batch' = Claimable /\ Claimable \subseteq Commands
  BY ClaimableFacts DEF ClaimAndDeliver
<1>2. TypeOK'
  BY <1>1, ClaimRowsFacts
  DEF ClaimAndDeliver, ClaimRows, diskVars, Inductive, TypeOK, Controls
<1>3. JournalOK' /\ SuccessWasExecuted'
  BY <1>1, ClaimRowsFacts
  DEF ClaimRows, diskVars, Inductive, JournalOK, SuccessWasExecuted
<1>4. DaemonOK' /\ RequestsOK'
  BY <1>1, ClaimRowsFacts, ClaimableFacts
  DEF ClaimAndDeliver, ClaimRows, diskVars, Inductive, TypeOK, DaemonOK,
      RequestsOK, RequestOK, Waiting
<1> QED BY <1>1, <1>2, <1>3, <1>4, ClaimRowsFacts DEF Inductive

LEMMA ClaimForNobodyInductive == Inductive /\ ClaimForNobody => Inductive'
<1> SUFFICES ASSUME Inductive, ClaimForNobody PROVE Inductive'
  OBVIOUS
<1>1. ClaimRows(Claimable)
  BY DEF ClaimForNobody
<1>2. TypeOK'
  BY <1>1, ClaimRowsFacts, LifecycleAssumption
  DEF ClaimForNobody, ClaimRows, diskVars, Inductive, TypeOK
<1>3. JournalOK' /\ SuccessWasExecuted'
  BY <1>1, ClaimRowsFacts
  DEF ClaimRows, diskVars, Inductive, JournalOK, SuccessWasExecuted
<1>4. DaemonOK' /\ RequestsOK'
  BY <1>1, ClaimRowsFacts
  DEF ClaimForNobody, ClaimRows, diskVars, Inductive, TypeOK, DaemonOK,
      RequestsOK, RequestOK, Waiting
<1> QED BY <1>1, <1>2, <1>3, <1>4, ClaimRowsFacts DEF Inductive

-----------------------------------------------------------------------------
(* Result requests. *)

\* The daemon goes on in a legal control state, only the transaction it
\* announced changes, and only a result that was journalled is confirmed.
LEMMA AnswerFacts ==
  ASSUME Inductive, NEW s \in Slots, handler[s].cmd # 0,
         NEW ok \in BOOLEAN, NEW body \in Statuses, Answer(s, ok, body)
  PROVE  /\ handler' \in [Slots -> Requests]
         /\ pc' \in Controls
         /\ reply' \in Statuses
         /\ unconfirmed' \in SUBSET Commands
         /\ results' \in [Commands -> Outcomes \cup {"none"}]
         /\ tx' \in [Commands -> {"none", "prepared", "verifying", "closed"}]
         /\ verifiers' \in [Commands -> 0..MaxVerifiers]
         /\ \A c \in Commands :
              \/ tx'[c] = tx[c] /\ verifiers'[c] = verifiers[c]
              \/ tx[c] = "prepared" /\ tx'[c] = "verifying"
         /\ \A c \in Commands :
              \/ results'[c] = results[c]
              \/ /\ results[c] # "none" /\ results'[c] # "none"
                 /\ ~Unfinished(c)
                 /\ results'[c] = "done" => executions[c] = 1
         /\ \A t \in Slots : handler'[t] = IF t = s THEN Free ELSE handler[t]
         /\ \/ pc' = pc /\ tx' = tx /\ handler[s].waiter # "daemon"
            \/ /\ handler[s].waiter = "daemon"
               /\ handler[s].cmd = cur
               /\ pc' = "handling" \/ (pc = "acking" /\ pc' = "granted" /\ ok)
<1>1. Free \in Requests
  BY LifecycleAssumption DEF Free, Requests, Statuses
<1>2. /\ handler' \in [Slots -> Requests]
      /\ \A t \in Slots : handler'[t] = IF t = s THEN Free ELSE handler[t]
  BY <1>1 DEF Answer, Inductive, TypeOK
<1>3. /\ unconfirmed' \in SUBSET Commands
      /\ results' \in [Commands -> Outcomes \cup {"none"}]
      /\ \A c \in Commands :
           \/ results'[c] = results[c]
           \/ /\ results[c] # "none" /\ results'[c] # "none"
              /\ ~Unfinished(c)
              /\ results'[c] = "done" => executions[c] = 1
  <2>1. CASE ResultConfirmed(handler[s], ok)
    <3>1. RequestOK(handler[s])
      BY DEF Inductive, RequestsOK
    <3> QED
      BY <2>1, <3>1
      DEF ResultConfirmed, RequestOK, Inductive, TypeOK, Outcomes
  <2>2. CASE UNCHANGED <<unconfirmed, results>>
    BY <2>2 DEF Inductive, TypeOK
  <2> QED BY <2>1, <2>2 DEF Answer
<1>4. CASE handler[s].waiter = "daemon"
  <2>1. pc \in Waiting /\ handler[s].cmd = cur /\ cur \in Commands
    BY <1>4 DEF Inductive, RequestsOK, RequestOK, DaemonOK
  <2>2. DaemonGoesOn(ok, body)
    BY <1>4 DEF Answer
  <2>3. /\ pc' \in Controls
        /\ pc' = "handling" \/ (pc = "acking" /\ pc' = "granted" /\ ok)
    BY <2>2 DEF DaemonGoesOn, Controls
  <2>4. reply' \in Statuses
    BY <2>2 DEF DaemonGoesOn, Inductive, TypeOK
  <2>5. /\ tx' \in [Commands -> {"none", "prepared", "verifying", "closed"}]
        /\ verifiers' \in [Commands -> 0..MaxVerifiers]
        /\ \A c \in Commands :
             \/ tx'[c] = tx[c] /\ verifiers'[c] = verifiers[c]
             \/ tx[c] = "prepared" /\ tx'[c] = "verifying"
    BY <2>1, <2>2, LifecycleAssumption
    DEF DaemonGoesOn, Inductive, TypeOK, DaemonOK
  <2> QED BY <1>2, <1>3, <1>4, <2>1, <2>3, <2>4, <2>5
<1>5. CASE handler[s].waiter # "daemon"
  BY <1>2, <1>3, <1>5 DEF Answer, Inductive, TypeOK
<1> QED BY <1>4, <1>5

\* An answer leaves the journals, the daemon and the requests consistent: the
\* command in hand is granted only when its row is past delivery.
LEMMA AnswerInductive ==
  ASSUME Inductive, NEW s \in Slots, handler[s].cmd # 0,
         NEW ok \in BOOLEAN, NEW body \in Statuses, Answer(s, ok, body),
         \A c \in Commands : Past(c) => Past(c)',
         NEW cmd \in Commands, cmd = handler[s].cmd,
         handler[s].kind = "running" /\ ok => Past(cmd)',
         UNCHANGED <<retryCount, cur, batch, executions>>
  PROVE  JournalOK' /\ DaemonOK' /\ RequestsOK'
<1>1. JournalOK'
  BY AnswerFacts DEF Inductive, TypeOK, JournalOK
<1>2. DaemonOK'
  BY AnswerFacts
  DEF Inductive, TypeOK, DaemonOK, RequestsOK, RequestOK, Waiting, Past
<1>3. RequestsOK'
  <2>1. \A t \in Slots : RequestOK(handler[t])'
    <3> SUFFICES ASSUME NEW t \in Slots, t # s
                 PROVE  RequestOK(handler[t])'
      BY AnswerFacts, LifecycleAssumption
      DEF RequestOK, Free, Commands, Outcomes
    <3>1. handler'[t] = handler[t] /\ RequestOK(handler[t])
      BY AnswerFacts DEF Inductive, RequestsOK
    <3>2. handler[t].waiter = "daemon" => pc' = pc
      BY AnswerFacts DEF Inductive, RequestsOK
    <3>3. \A c \in Commands :
            /\ ~Unfinished(c) => ~Unfinished(c)'
            /\ results[c] # "none" => results'[c] # "none"
      BY AnswerFacts
    <3> QED
      BY <3>1, <3>2, <3>3 DEF Inductive, TypeOK, RequestOK, Past
  <2>2. \A t, u \in Slots :
          handler'[t].waiter = "daemon" /\ handler'[u].waiter = "daemon" => t = u
    BY AnswerFacts DEF Inductive, RequestsOK, Free
  <2> QED BY <2>1, <2>2 DEF RequestsOK
<1> QED BY <1>1, <1>2, <1>3

\* Nor does it take away what makes a success honest.
LEMMA AnswerKeepsHonesty ==
  ASSUME Inductive, NEW s \in Slots, handler[s].cmd # 0,
         NEW ok \in BOOLEAN, NEW body \in Statuses, Answer(s, ok, body),
         UNCHANGED executions,
         \A c \in Commands : status'[c] = "success" =>
           \/ status[c] = "success"
           \/ /\ executions[c] = 1
              /\ ~Unfinished(c)
              /\ c \notin Transient => results[c] # "none"
  PROVE  SuccessWasExecuted'
<1> SUFFICES ASSUME NEW c \in Commands, status'[c] = "success"
             PROVE  /\ executions[c] = 1
                    /\ ~Unfinished(c)'
                    /\ c \notin Transient => results'[c] # "none"
  BY DEF SuccessWasExecuted
<1>1. /\ executions[c] = 1
      /\ ~Unfinished(c)
      /\ c \notin Transient => results[c] # "none"
  BY DEF Inductive, SuccessWasExecuted
<1>2. /\ tx'[c] = tx[c] \/ tx[c] = "prepared"
      /\ results[c] # "none" => results'[c] # "none"
  BY AnswerFacts
<1> QED BY <1>1, <1>2

LEMMA LoadFinishedInductive ==
  ASSUME NEW s \in Slots, Inductive, LoadFinished(s)
  PROVE  Inductive'
<1>0. PICK cmd \in Commands : cmd = handler[s].cmd
  BY LifecycleAssumption
  DEF LoadFinished, Reads, Inductive, TypeOK, Requests, Commands
<1>1. handler[s].cmd # 0 /\ Answer(s, TRUE, status[handler[s].cmd])
  BY DEF LoadFinished, Reads
<1>2. status[handler[s].cmd] \in Statuses
  BY <1>0 DEF Inductive, TypeOK
<1>3. /\ \A c \in Commands : Past(c) => Past(c)'
      /\ Past(cmd)'
  BY <1>0 DEF LoadFinished, serverVars, Past
<1>4. JournalOK' /\ DaemonOK' /\ RequestsOK'
  BY <1>0, <1>1, <1>2, <1>3, AnswerInductive DEF LoadFinished, serverVars
<1>5. SuccessWasExecuted'
  BY <1>1, <1>2, AnswerKeepsHonesty DEF LoadFinished, serverVars
<1> QED
  BY <1>1, <1>2, <1>4, <1>5, AnswerFacts
  DEF LoadFinished, serverVars, Inductive, TypeOK, DeliveriesLeft

LEMMA LoadRefusedInductive ==
  ASSUME NEW s \in Slots, Inductive, LoadRefused(s)
  PROVE  Inductive'
<1>0. PICK cmd \in Commands : cmd = handler[s].cmd
  BY LifecycleAssumption
  DEF LoadRefused, Reads, Inductive, TypeOK, Requests, Commands
<1>1. handler[s].cmd # 0 /\ Answer(s, FALSE, "queued") /\ "queued" \in Statuses
  BY DEF LoadRefused, Reads, Statuses, Active
<1>2. \A c \in Commands : Past(c) => Past(c)'
  BY DEF LoadRefused, serverVars, Past
<1>3. JournalOK' /\ DaemonOK' /\ RequestsOK'
  BY <1>0, <1>1, <1>2, AnswerInductive DEF LoadRefused, serverVars
<1>4. SuccessWasExecuted'
  BY <1>1, AnswerKeepsHonesty DEF LoadRefused, serverVars
<1> QED
  BY <1>1, <1>3, <1>4, AnswerFacts
  DEF LoadRefused, serverVars, Inductive, TypeOK, DeliveriesLeft

LEMMA LoadAcceptedInductive ==
  ASSUME NEW s \in Slots, Inductive, LoadAccepted(s)
  PROVE  Inductive'
<1>0. PICK cmd \in Commands : cmd = handler[s].cmd
  BY LifecycleAssumption
  DEF LoadAccepted, Reads, Inductive, TypeOK, Requests, Commands
<1>1. /\ status[cmd] \in Active
      /\ handler' = [handler EXCEPT ![s].seen = status[cmd]]
  BY <1>0 DEF LoadAccepted
<1>2. TypeOK'
  BY <1>1 DEF LoadAccepted, serverVars, diskVars, Inductive, TypeOK, Requests,
              Statuses
<1>3. RequestsOK'
  BY <1>0, <1>1
  DEF LoadAccepted, serverVars, diskVars, Inductive, TypeOK, Requests,
      RequestsOK, RequestOK, Past
<1> QED
  BY <1>2, <1>3
  DEF LoadAccepted, serverVars, diskVars, Inductive, DeliveriesLeft, JournalOK,
      DaemonOK, SuccessWasExecuted, Past

\* The commit can only bring a row to "running" or to a verdict, and to
\* "success" only on the report of an execution.
LEMMA CommitInductive ==
  ASSUME NEW s \in Slots, Inductive, Commit(s)
  PROVE  Inductive'
<1>0. PICK c \in Commands, new \in {Written(handler[s].kind)} : c = handler[s].cmd
  BY DEF Commit, Inductive, RequestsOK, RequestOK
<1>1. /\ c # 0 /\ handler[s].cmd # 0
      /\ Answer(s, TRUE, Written(handler[s].kind))
  <2>1. c # 0 /\ handler[s].cmd # 0
    BY <1>0, LifecycleAssumption DEF Commands
  <2>2. Answer(s, TRUE, Written(handler[s].kind))
    BY DEF Commit
  <2> QED BY <2>1, <2>2
<1>2. new \in {"running", "success", "failed"} /\ Written(handler[s].kind) \in Statuses
  BY <1>0
  DEF Inductive, TypeOK, Requests, Written, Outcomes, Statuses, Active, Terminal
<1>3. /\ status' \in [Commands -> Statuses]
      /\ idle' \in [Commands -> 0..LeaseTicks]
      /\ \A d \in Commands \ {c} : status'[d] = status[d]
      /\ status'[c] = status[c] \/ status'[c] = new
      /\ new = handler[s].seen \/ status'[c] = new
  BY <1>0, <1>1, <1>2, LifecycleAssumption DEF Commit, Inductive, TypeOK
<1>4. /\ \A d \in Commands : Past(d) => Past(d)'
      /\ handler[s].kind = "running" => Past(c)'
  BY <1>0, <1>1, <1>2, <1>3
  DEF Inductive, TypeOK, RequestsOK, RequestOK, Past, Terminal, Written
<1>5. JournalOK' /\ DaemonOK' /\ RequestsOK'
  BY <1>0, <1>1, <1>2, <1>4, AnswerInductive DEF Commit
<1>6. DeliveriesLeft'
  BY <1>0, <1>1, <1>2, <1>3 DEF Commit, Inductive, TypeOK, DeliveriesLeft
<1>7. SuccessWasExecuted'
  <2>1. RequestOK(handler[s]) /\ handler[s].kind \in {"running"} \cup Outcomes
    BY DEF Inductive, TypeOK, RequestsOK, Requests
  <2>2. new = "success" => handler[s].kind = "done"
    BY <1>0, <2>1 DEF Written, Outcomes
  <2>3. \A d \in Commands : status'[d] = "success" =>
          \/ status[d] = "success"
          \/ /\ executions[d] = 1
             /\ ~Unfinished(d)
             /\ d \notin Transient => results[d] # "none"
    BY <1>0, <1>3, <2>1, <2>2 DEF RequestOK, Outcomes
  <2> QED
    BY <1>1, <1>2, <2>3, AnswerKeepsHonesty DEF Commit
<1>8. TypeOK'
  BY <1>0, <1>1, <1>2, <1>3, AnswerFacts DEF Commit, Inductive, TypeOK
<1> QED BY <1>5, <1>6, <1>7, <1>8 DEF Inductive

-----------------------------------------------------------------------------
(* The agent: polling and the order of the batch. *)

LEMMA IdleInductive ==
  ASSUME Inductive, Poll \/ PollEmpty \/ PollFails \/ BatchDone
  PROVE  Inductive'
BY LifecycleAssumption
DEF Poll, PollEmpty, PollFails, BatchDone, Inductive, TypeOK, DeliveriesLeft,
    JournalOK, DaemonOK, RequestsOK, RequestOK, SuccessWasExecuted, serverVars,
    diskVars, Past, Waiting, Controls

\* A request that is sent is a fresh one, and the only new one.
LEMMA SendFacts ==
  ASSUME Inductive, NEW c \in Commands, NEW kind \in {"running"} \cup Outcomes,
         NEW who \in {"daemon", "verifier"}, Send(c, kind, who)
  PROVE  /\ handler' \in [Slots -> Requests]
         /\ \/ handler' = handler
            \/ \E s \in Slots :
                 /\ \A t \in Slots \ {s} : handler'[t] = handler[t]
                 /\ handler'[s] = [cmd |-> c, kind |-> kind,
                                   seen |-> "unread", waiter |-> who]
<1>1. CASE handler' = handler
  BY <1>1 DEF Inductive, TypeOK
<1>2. CASE handler' # handler
  <2> DEFINE request ==
        [cmd |-> c, kind |-> kind, seen |-> "unread", waiter |-> who]
  <2>1. PICK s \in Slots : handler' = [handler EXCEPT ![s] = request]
    BY <1>2 DEF Send
  <2>2. request \in Requests
    BY LifecycleAssumption DEF Requests, Commands
  <2> QED BY <2>1, <2>2 DEF Inductive, TypeOK
<1> QED BY <1>1, <1>2

\* Sending keeps the requests consistent when nobody else waits as "daemon"
\* and a verdict that is sent is already journalled.
LEMMA SendRequestsOK ==
  ASSUME Inductive, NEW c \in Commands, NEW kind \in {"running"} \cup Outcomes,
         NEW who \in {"daemon", "verifier"}, Send(c, kind, who),
         status' = status, retryCount' = retryCount, retryCount[c] > 0,
         who = "daemon" => /\ pc \notin Waiting
                           /\ pc' \in Waiting
                           /\ cur' = c
                           /\ pc' = "acking" => kind = "running",
         who = "verifier" => pc' = pc /\ cur' = cur,
         \A d \in Commands : executions'[d] = executions[d],
         \A d \in Commands : ~Unfinished(d) => ~Unfinished(d)',
         \A d \in Commands : results[d] # "none" => results'[d] # "none",
         kind \in Outcomes =>
           /\ ~Unfinished(c)'
           /\ c \notin Transient => results'[c] # "none"
           /\ kind = "done" => executions[c] = 1
  PROVE  RequestsOK'
<1>1. who = "daemon" => \A t \in Slots : handler[t].waiter # "daemon"
  BY DEF Inductive, RequestsOK, RequestOK
<1>2. CASE handler' = handler
  <2>1. \A t \in Slots : RequestOK(handler[t])'
    BY <1>1, <1>2 DEF Inductive, RequestsOK, RequestOK, Past
  <2> QED BY <1>2, <2>1 DEF Inductive, RequestsOK
<1>3. CASE handler' # handler
  <2>1. PICK s \in Slots :
          /\ \A t \in Slots \ {s} : handler'[t] = handler[t]
          /\ handler'[s] = [cmd |-> c, kind |-> kind,
                            seen |-> "unread", waiter |-> who]
    BY <1>3, SendFacts
  <2>2. RequestOK(handler[s])'
    <3>1. /\ handler'[s].cmd = c /\ handler'[s].kind = kind
          /\ handler'[s].seen = "unread" /\ handler'[s].waiter = who
      BY <2>1
    <3> QED BY <3>1 DEF RequestOK
  <2>3. \A t \in Slots \ {s} : RequestOK(handler[t])'
    BY <1>1, <2>1 DEF Inductive, RequestsOK, RequestOK, Past
  <2>4. \A t, u \in Slots :
          handler'[t].waiter = "daemon" /\ handler'[u].waiter = "daemon" => t = u
    BY <1>1, <2>1 DEF Inductive, RequestsOK
  <2> QED BY <2>2, <2>3, <2>4 DEF RequestsOK
<1> QED BY <1>2, <1>3

LEMMA ResendInductive ==
  ASSUME NEW c \in Commands, Inductive, ResendResult(c)
  PROVE  Inductive'
<1>1. /\ results[c] \in Outcomes
      /\ Send(c, results[c], "daemon")
      /\ results[c] = "done" => executions[c] = 1
      /\ retryCount[c] > 0
  BY DEF ResendResult, Next1, Inductive, TypeOK, JournalOK, DaemonOK
<1>2. RequestsOK'
  <2>1. /\ ~Unfinished(c)' /\ results'[c] # "none"
        /\ results[c] = "done" => executions[c] = 1
    BY DEF ResendResult, diskVars, Inductive, TypeOK, JournalOK
  <2> QED
    BY <1>1, <2>1, SendRequestsOK
    DEF ResendResult, Next1, serverVars, diskVars, Waiting, Outcomes
<1>3. TypeOK'
  <2>1. handler' \in [Slots -> Requests]
    BY <1>1, SendFacts
  <2>2. cur' \in 0..NumCommands
    BY LifecycleAssumption DEF ResendResult, Next1, Commands
  <2> QED
    BY <2>1, <2>2
    DEF ResendResult, Next1, serverVars, diskVars, Inductive, TypeOK, Controls,
        Waiting
<1>4. DaemonOK'
  BY DEF ResendResult, Next1, serverVars, diskVars, Inductive, TypeOK, DaemonOK
<1> QED
  BY <1>2, <1>3, <1>4
  DEF ResendResult, Next1, serverVars, diskVars, Inductive, DeliveriesLeft,
      JournalOK, SuccessWasExecuted, Past

LEMMA AcknowledgeInductive ==
  ASSUME NEW c \in Commands, Inductive, Acknowledge(c)
  PROVE  Inductive'
<1>1. Send(c, "running", "daemon") /\ retryCount[c] > 0
  BY DEF Acknowledge, Next1, Inductive, DaemonOK
<1>2. RequestsOK'
  BY <1>1, SendRequestsOK
  DEF Acknowledge, Next1, serverVars, diskVars, Waiting, Outcomes
<1>3. TypeOK'
  <2>1. handler' \in [Slots -> Requests]
    BY <1>1, SendFacts
  <2>2. cur' \in 0..NumCommands
    BY LifecycleAssumption DEF Acknowledge, Next1, Commands
  <2> QED
    BY <2>1, <2>2
    DEF Acknowledge, Next1, serverVars, diskVars, Inductive, TypeOK, Controls,
        Waiting
<1>4. DaemonOK'
  BY DEF Acknowledge, Next1, serverVars, diskVars, Inductive, TypeOK, DaemonOK
<1> QED
  BY <1>2, <1>3, <1>4
  DEF Acknowledge, Next1, serverVars, diskVars, Inductive, DeliveriesLeft,
      JournalOK, SuccessWasExecuted, Past

-----------------------------------------------------------------------------
(* The agent: reports. *)

\* A report journals one outcome, unless the command is a transient one.
LEMMA ReportFacts ==
  ASSUME Inductive, NEW c \in Commands, NEW outcome \in Outcomes,
         NEW who \in {"daemon", "verifier"}, Report(c, outcome, who)
  PROVE  /\ results' \in [Commands -> Outcomes \cup {"none"}]
         /\ unconfirmed' \in SUBSET Commands
         /\ \A d \in Commands \ {c} : results'[d] = results[d]
         /\ results'[c] = IF c \in Transient THEN results[c] ELSE outcome
BY DEF Report, Inductive, TypeOK

\* Reporting a command keeps rows, journals and requests consistent, when the
\* step leaves no unfinished transaction of it behind.
LEMMA ReportInductive ==
  ASSUME Inductive, NEW c \in Commands, NEW outcome \in Outcomes,
         NEW who \in {"daemon", "verifier"}, Report(c, outcome, who),
         retryCount[c] > 0,
         outcome = "done" => executions[c] = 1,
         who = "daemon" => /\ pc \notin Waiting
                           /\ pc' = "reporting"
                           /\ cur' = c,
         who = "verifier" => pc' = pc /\ cur' = cur,
         tx' \in [Commands -> {"none", "prepared", "verifying", "closed"}],
         \A d \in Commands \ {c} : tx'[d] = tx[d],
         tx'[c] \in {"none", "closed"},
         tx'[c] = "closed" => c \in Transactional /\ executions[c] = 1,
         verifiers' \in [Commands -> 0..MaxVerifiers],
         \A d \in Commands \ {c} : verifiers'[d] = verifiers[d],
         verifiers'[c] > 0 => tx'[c] = "closed",
         UNCHANGED <<serverVars, orphans, reply, executions>>,
         pc' \in Controls, cur' \in 0..NumCommands, batch' \in SUBSET Commands
  PROVE  TypeOK' /\ DeliveriesLeft' /\ JournalOK' /\ RequestsOK' /\ SuccessWasExecuted'
<1>1. Send(c, outcome, who)
  BY DEF Report
<1>2. TypeOK'
  <2>1. handler' \in [Slots -> Requests]
    BY <1>1, SendFacts
  <2> QED
    BY <2>1, ReportFacts DEF serverVars, Inductive, TypeOK
<1>3. DeliveriesLeft' /\ SuccessWasExecuted'
  <2>1. DeliveriesLeft'
    BY DEF serverVars, Inductive, DeliveriesLeft
  <2>2. \A d \in Commands :
          /\ ~Unfinished(d) => ~Unfinished(d)'
          /\ results[d] # "none" => results'[d] # "none"
    BY ReportFacts DEF Outcomes
  <2>3. SuccessWasExecuted'
    BY <2>2 DEF serverVars, Inductive, SuccessWasExecuted
  <2> QED BY <2>1, <2>3
<1>4. JournalOK'
  BY ReportFacts DEF serverVars, Inductive, TypeOK, JournalOK, Past, Outcomes
<1>5. RequestsOK'
  <2>1. /\ status' = status /\ retryCount' = retryCount
        /\ \A d \in Commands : executions'[d] = executions[d]
        /\ \A d \in Commands : ~Unfinished(d) => ~Unfinished(d)'
        /\ \A d \in Commands : results[d] # "none" => results'[d] # "none"
        /\ ~Unfinished(c)'
        /\ c \notin Transient => results'[c] # "none"
    BY ReportFacts DEF serverVars, Outcomes
  <2> QED
    BY <1>1, <2>1, SendRequestsOK DEF Waiting
<1> QED BY <1>2, <1>3, <1>4, <1>5

LEMMA RejectInductive ==
  ASSUME NEW c \in Commands, Inductive, RejectContract(c)
  PROVE  Inductive'
<1>1. Report(c, "failed", "daemon") /\ results[c] = "none"
  BY DEF RejectContract
<1>2. /\ pc' \in Controls /\ cur' \in 0..NumCommands
      /\ batch' \in SUBSET Commands
  BY LifecycleAssumption
  DEF RejectContract, Next1, Commands, Controls, Waiting, Inductive, TypeOK
<1>3. /\ tx[c] = "none" /\ verifiers[c] = 0
      /\ executions[c] = 0 /\ retryCount[c] > 0
  BY DEF RejectContract, Next1, Inductive, TypeOK, DaemonOK, JournalOK
<1>4. TypeOK' /\ DeliveriesLeft' /\ JournalOK' /\ RequestsOK' /\ SuccessWasExecuted'
  <2>1. /\ tx' \in [Commands -> {"none", "prepared", "verifying", "closed"}]
        /\ verifiers' \in [Commands -> 0..MaxVerifiers]
        /\ \A d \in Commands \ {c} : tx'[d] = tx[d]
        /\ \A d \in Commands \ {c} : verifiers'[d] = verifiers[d]
        /\ tx'[c] \in {"none", "closed"} /\ tx'[c] # "closed"
        /\ ~(verifiers'[c] > 0)
    BY <1>3 DEF RejectContract, Inductive, TypeOK
  <2>2. /\ pc \notin Waiting /\ pc' = "reporting" /\ cur' = c
        /\ UNCHANGED <<serverVars, orphans, reply, executions>>
    BY DEF RejectContract, Next1, Waiting
  <2>3. "failed" \in Outcomes
    BY DEF Outcomes
  <2> QED
    BY <1>1, <1>2, <1>3, <2>1, <2>2, <2>3, ReportInductive
<1>5. DaemonOK'
  BY <1>1, ReportFacts
  DEF RejectContract, Next1, serverVars, Inductive, TypeOK, DaemonOK, Outcomes
<1> QED BY <1>4, <1>5 DEF Inductive

LEMMA RefuseInductive == Inductive /\ Refuse => Inductive'
<1> SUFFICES ASSUME Inductive, Refuse PROVE Inductive'
  OBVIOUS
<1>1. /\ cur \in Commands /\ cur \notin batch
      /\ executions[cur] = 0 /\ results[cur] = "none" /\ tx[cur] = "none"
      /\ retryCount[cur] > 0 /\ verifiers[cur] = 0
  BY DEF Refuse, Inductive, TypeOK, DaemonOK, JournalOK
<1>2. Report(cur, "failed", "daemon")
  BY DEF Refuse
<1>3. pc' \in Controls
  BY DEF Refuse, Controls, Waiting
<1>4. TypeOK' /\ DeliveriesLeft' /\ JournalOK' /\ RequestsOK' /\ SuccessWasExecuted'
  <2>1. /\ tx' \in [Commands -> {"none", "prepared", "verifying", "closed"}]
        /\ verifiers' \in [Commands -> 0..MaxVerifiers]
        /\ \A d \in Commands \ {cur} : tx'[d] = tx[d]
        /\ \A d \in Commands \ {cur} : verifiers'[d] = verifiers[d]
        /\ tx'[cur] \in {"none", "closed"} /\ tx'[cur] # "closed"
        /\ ~(verifiers'[cur] > 0)
    BY <1>1 DEF Refuse, Inductive, TypeOK
  <2>2. /\ pc \notin Waiting /\ pc' = "reporting" /\ cur' = cur
        /\ cur' \in 0..NumCommands /\ batch' \in SUBSET Commands
        /\ UNCHANGED <<serverVars, orphans, reply, executions>>
    BY DEF Refuse, Inductive, TypeOK, Waiting
  <2>3. "failed" \in Outcomes
    BY DEF Outcomes
  <2> QED
    BY <1>1, <1>2, <1>3, <2>1, <2>2, <2>3, ReportInductive
<1>5. DaemonOK'
  BY <1>1, <1>2, ReportFacts
  DEF Refuse, serverVars, Inductive, TypeOK, DaemonOK, Outcomes
<1> QED BY <1>4, <1>5 DEF Inductive

LEMMA ExecuteInductive == Inductive /\ Execute => Inductive'
<1> SUFFICES ASSUME Inductive, Execute PROVE Inductive'
  OBVIOUS
<1>1. cur \in Commands /\ executions[cur] = 0 /\ Past(cur) /\ cur \notin batch
  BY DEF Execute, Inductive, DaemonOK
<1>2. TypeOK'
  BY <1>1 DEF Execute, serverVars, Inductive, TypeOK, Controls
<1>3. JournalOK' /\ DaemonOK'
  BY <1>1
  DEF Execute, serverVars, Inductive, TypeOK, JournalOK, DaemonOK, Past, Waiting
<1>4. RequestsOK'
  <2>1. \A s \in Slots : handler[s].kind \in Outcomes /\ handler[s].cmd = cur =>
                          cur \notin Transactional
    BY LifecycleAssumption
    DEF Execute, Inductive, DaemonOK, RequestsOK, RequestOK
  <2>2. \A s \in Slots : RequestOK(handler[s])'
    BY <1>1, <2>1
    DEF Execute, serverVars, Inductive, TypeOK, RequestsOK, RequestOK, Past,
        Waiting
  <2> QED BY <2>2 DEF Execute, Inductive, RequestsOK
<1>5. DeliveriesLeft' /\ SuccessWasExecuted'
  BY <1>1
  DEF Execute, serverVars, Inductive, TypeOK, DeliveriesLeft, SuccessWasExecuted
<1> QED BY <1>2, <1>3, <1>4, <1>5 DEF Inductive

LEMMA FinishInductive ==
  ASSUME NEW outcome \in Outcomes, Inductive, Finish(outcome)
  PROVE  Inductive'
<1>1. /\ cur \in Commands /\ cur \notin batch
      /\ executions[cur] = 1 /\ results[cur] = "none" /\ retryCount[cur] > 0
      /\ cur \notin Transactional => tx[cur] = "none" /\ verifiers[cur] = 0
  BY DEF Finish, Inductive, TypeOK, DaemonOK, JournalOK
<1>2. Report(cur, outcome, "daemon")
  BY DEF Finish
<1>3. /\ pc' \in Controls
      /\ tx' \in [Commands -> {"none", "prepared", "verifying", "closed"}]
      /\ \A d \in Commands \ {cur} : tx'[d] = tx[d]
      /\ tx'[cur] = IF cur \in Transactional THEN "closed" ELSE "none"
  BY <1>1 DEF Finish, Controls, Waiting, Inductive, TypeOK
<1>4. TypeOK' /\ DeliveriesLeft' /\ JournalOK' /\ RequestsOK' /\ SuccessWasExecuted'
  <2>1. /\ verifiers' \in [Commands -> 0..MaxVerifiers]
        /\ \A d \in Commands \ {cur} : verifiers'[d] = verifiers[d]
        /\ verifiers'[cur] > 0 => tx'[cur] = "closed"
    BY <1>1, <1>3 DEF Finish, Inductive, TypeOK
  <2>2. /\ pc \notin Waiting /\ pc' = "reporting" /\ cur' = cur
        /\ cur' \in 0..NumCommands /\ batch' \in SUBSET Commands
        /\ UNCHANGED <<serverVars, orphans, reply, executions>>
    BY DEF Finish, Inductive, TypeOK, Waiting
  <2> QED BY <1>1, <1>2, <1>3, <2>1, <2>2, ReportInductive
<1>5. DaemonOK'
  BY <1>1, <1>2, ReportFacts
  DEF Finish, serverVars, Inductive, TypeOK, DaemonOK
<1> QED BY <1>4, <1>5 DEF Inductive

LEMMA DeferInductive == Inductive /\ DeferToVerifier => Inductive'
<1> SUFFICES ASSUME Inductive, DeferToVerifier PROVE Inductive'
  OBVIOUS
<1>1. cur \in Commands /\ Send(cur, "running", "daemon") /\ retryCount[cur] > 0
  BY DEF DeferToVerifier, Inductive, DaemonOK, JournalOK
<1>2. handler' \in [Slots -> Requests]
  BY <1>1, SendFacts
<1>3. RequestsOK'
  BY <1>1, SendRequestsOK
  DEF DeferToVerifier, serverVars, diskVars, Waiting, Outcomes
<1>4. TypeOK'
  BY <1>2
  DEF DeferToVerifier, serverVars, diskVars, Inductive, TypeOK, Controls,
      Waiting
<1> QED
  BY <1>3, <1>4
  DEF DeferToVerifier, serverVars, diskVars, Inductive, DeliveriesLeft,
      JournalOK, DaemonOK, SuccessWasExecuted, Past, Waiting

LEMMA VerifierReportsInductive ==
  ASSUME NEW c \in Commands, NEW outcome \in Outcomes, Inductive,
         VerifierReports(c, outcome)
  PROVE  Inductive'
<1>1. /\ executions[c] = 1 /\ c \in Transactional /\ retryCount[c] > 0
      /\ tx[c] \in {"verifying", "closed"}
  BY DEF VerifierReports, Inductive, TypeOK, JournalOK
<1>2. Report(c, outcome, "verifier")
  BY DEF VerifierReports
<1>3. /\ tx' \in [Commands -> {"none", "prepared", "verifying", "closed"}]
      /\ \A d \in Commands \ {c} : tx'[d] = tx[d]
      /\ tx'[c] = "closed"
      /\ verifiers' \in [Commands -> 0..MaxVerifiers]
      /\ \A d \in Commands \ {c} : verifiers'[d] = verifiers[d]
  <2>1. verifiers[c] - 1 \in 0..MaxVerifiers
    BY LifecycleAssumption DEF VerifierReports, Inductive, TypeOK
  <2> QED BY <2>1 DEF VerifierReports, Inductive, TypeOK
<1>4. TypeOK' /\ DeliveriesLeft' /\ JournalOK' /\ RequestsOK' /\ SuccessWasExecuted'
  <2>1. /\ pc' = pc /\ cur' = cur /\ pc' \in Controls
        /\ cur' \in 0..NumCommands /\ batch' \in SUBSET Commands
        /\ UNCHANGED <<serverVars, orphans, reply, executions>>
    BY DEF VerifierReports, Inductive, TypeOK
  <2> QED BY <1>1, <1>2, <1>3, <2>1, ReportInductive
<1>5. DaemonOK'
  <2>1. pc \in {"acking", "granted", "executing", "announcing"} => cur # c
    BY <1>1 DEF Inductive, DaemonOK
  <2>2. \A d \in Commands \ {c} : results'[d] = results[d] /\ tx'[d] = tx[d]
    BY <1>2, <1>3, ReportFacts
  <2> QED
    BY <2>1, <2>2
    DEF VerifierReports, serverVars, Inductive, DaemonOK, Past, Waiting
<1> QED BY <1>4, <1>5 DEF Inductive

-----------------------------------------------------------------------------
(* The agent: failed requests, crashes and restarts. *)

\* A client that stops waiting leaves its requests as they are.
LEMMA ForsakeFacts ==
  ASSUME Inductive, NEW who, Forsake(who)
  PROVE  /\ handler' \in [Slots -> Requests]
         /\ \A s \in Slots :
              /\ handler'[s].cmd = handler[s].cmd
              /\ handler'[s].kind = handler[s].kind
              /\ handler'[s].seen = handler[s].seen
              /\ handler'[s].waiter = IF handler[s].waiter \in who
                                         THEN "nobody" ELSE handler[s].waiter
BY DEF Forsake, Inductive, TypeOK, Requests

\* So it keeps the requests consistent when no daemon waits any longer.
LEMMA ForsakeRequestsOK ==
  ASSUME Inductive, NEW who, Forsake(who),
         "daemon" \in who \/ (pc' = pc /\ cur' = cur),
         \A c \in Commands : ~Unfinished(c) => ~Unfinished(c)',
         UNCHANGED <<status, retryCount, executions, results>>
  PROVE  RequestsOK'
<1>1. \A s \in Slots : RequestOK(handler[s])'
  BY ForsakeFacts DEF Inductive, RequestsOK, RequestOK, Past
<1>2. \A s, t \in Slots :
        handler'[s].waiter = "daemon" /\ handler'[t].waiter = "daemon" => s = t
  BY ForsakeFacts DEF Inductive, RequestsOK
<1> QED BY <1>1, <1>2 DEF RequestsOK

LEMMA PostFailsInductive == Inductive /\ PostFails => Inductive'
<1> SUFFICES ASSUME Inductive, PostFails PROVE Inductive'
  OBVIOUS
<1>1. Forsake({"daemon"}) /\ DaemonGoesOn(FALSE, "none") /\ cur \in Commands
  BY DEF PostFails, Inductive, DaemonOK
<1>2. handler' \in [Slots -> Requests]
  BY <1>1, ForsakeFacts
<1>4. /\ pc' = "handling" /\ reply' = reply
      /\ tx' \in [Commands -> {"none", "prepared", "verifying", "closed"}]
      /\ verifiers' \in [Commands -> 0..MaxVerifiers]
      /\ \A c \in Commands :
           \/ tx'[c] = tx[c] /\ verifiers'[c] = verifiers[c]
           \/ tx[c] = "prepared" /\ tx'[c] = "verifying"
  BY <1>1, LifecycleAssumption DEF DaemonGoesOn, Inductive, TypeOK, DaemonOK
<1>3. RequestsOK'
  BY <1>1, <1>4, ForsakeRequestsOK DEF PostFails, serverVars
<1>5. TypeOK'
  BY <1>1, <1>2, <1>4 DEF PostFails, serverVars, Inductive, TypeOK, Controls
<1>6. JournalOK' /\ DaemonOK'
  BY <1>1, <1>4
  DEF PostFails, serverVars, Inductive, TypeOK, JournalOK, DaemonOK, Past,
      Waiting
<1> QED
  BY <1>3, <1>4, <1>5, <1>6
  DEF PostFails, serverVars, Inductive, DeliveriesLeft, SuccessWasExecuted

LEMMA VerifierPostFailsInductive == Inductive /\ VerifierPostFails => Inductive'
<1> SUFFICES ASSUME Inductive, VerifierPostFails PROVE Inductive'
  OBVIOUS
<1>1. Forsake({"verifier"})
  BY DEF VerifierPostFails
<1>2. handler' \in [Slots -> Requests]
  BY <1>1, ForsakeFacts
<1>3. RequestsOK'
  BY <1>1, ForsakeRequestsOK DEF VerifierPostFails, serverVars, diskVars
<1> QED
  BY <1>2, <1>3
  DEF VerifierPostFails, serverVars, diskVars, Inductive, TypeOK,
      DeliveriesLeft, JournalOK, DaemonOK, SuccessWasExecuted, Past

LEMMA DaemonExitsInductive == Inductive /\ DaemonExits => Inductive'
<1> SUFFICES ASSUME Inductive, DaemonExits PROVE Inductive'
  OBVIOUS
<1>1. Forsake({"daemon"})
  BY DEF DaemonExits
<1>2. handler' \in [Slots -> Requests]
  BY <1>1, ForsakeFacts
<1>3. RequestsOK'
  BY <1>1, ForsakeRequestsOK DEF DaemonExits, serverVars, diskVars
<1> QED
  BY <1>2, <1>3
  DEF DaemonExits, serverVars, diskVars, Inductive, TypeOK, Controls, Waiting,
      DeliveriesLeft, JournalOK, DaemonOK, SuccessWasExecuted, Past

LEMMA CrashInductive == Inductive /\ Crash => Inductive'
<1> SUFFICES ASSUME Inductive, Crash PROVE Inductive'
  OBVIOUS
<1>1. Forsake({"daemon", "verifier"})
  BY DEF Crash
<1>2. handler' \in [Slots -> Requests]
  BY <1>1, ForsakeFacts
<1>3. RequestsOK'
  BY <1>1, ForsakeRequestsOK DEF Crash, serverVars, diskVars
<1> QED
  BY <1>2, <1>3, LifecycleAssumption
  DEF Crash, serverVars, diskVars, Inductive, TypeOK, Controls, Waiting,
      DeliveriesLeft, JournalOK, DaemonOK, SuccessWasExecuted, Past

LEMMA RestartInductive == Inductive /\ Restart => Inductive'
<1> SUFFICES ASSUME Inductive, Restart PROVE Inductive'
  OBVIOUS
<1>1. verifiers' \in [Commands -> 0..MaxVerifiers]
  BY LifecycleAssumption DEF Restart, Inductive, TypeOK
<1>2. TypeOK'
  BY <1>1 DEF Restart, serverVars, Inductive, TypeOK, Controls
<1>3. \A c \in Commands : Unfinished(c)' <=> Unfinished(c)
  BY DEF Restart, Inductive, TypeOK
<1>4. RequestsOK'
  <2>1. \A s \in Slots : RequestOK(handler[s])'
    BY <1>3
    DEF Restart, serverVars, Inductive, RequestsOK, RequestOK, Past, Waiting
  <2> QED BY <2>1 DEF Restart, Inductive, RequestsOK
<1>5. JournalOK'
  BY DEF Restart, serverVars, Inductive, TypeOK, JournalOK, Past
<1> QED
  BY <1>2, <1>3, <1>4, <1>5
  DEF Restart, serverVars, Inductive, DeliveriesLeft, DaemonOK, Waiting,
      SuccessWasExecuted

LEMMA StutterInductive == Inductive /\ UNCHANGED vars => Inductive'
BY DEF vars, Inductive, TypeOK, DeliveriesLeft, JournalOK, DaemonOK,
       RequestsOK, RequestOK, SuccessWasExecuted, Past

-----------------------------------------------------------------------------
(* The theorems. *)

LEMMA NextInductive == Inductive /\ [Next]_vars => Inductive'
<1> SUFFICES ASSUME Inductive, [Next]_vars PROVE Inductive'
  OBVIOUS
<1>1. CASE Tick
  BY <1>1, TickInductive
<1>2. CASE ServerStep
  <2>1. ASSUME NEW c \in Commands, Create(c) PROVE Inductive'
    BY <2>1, CreateInductive
  <2>2. CASE Expire \/ RequeueByOtherDevice
    BY <2>2, ExpireInductive, RequeueInductive
  <2>3. CASE ClaimAndDeliver \/ ClaimForNobody
    BY <2>3, ClaimAndDeliverInductive, ClaimForNobodyInductive
  <2>4. ASSUME NEW s \in Slots,
               LoadFinished(s) \/ LoadRefused(s) \/ LoadAccepted(s) \/ Commit(s)
        PROVE  Inductive'
    BY <2>4, LoadFinishedInductive, LoadRefusedInductive,
       LoadAcceptedInductive, CommitInductive
  <2> QED BY <1>2, <2>1, <2>2, <2>3, <2>4 DEF ServerStep
<1>3. CASE AgentStep
  <2>1. CASE Poll \/ PollEmpty \/ PollFails \/ BatchDone
    BY <2>1, IdleInductive
  <2>2. ASSUME NEW c \in Commands,
               ResendResult(c) \/ RejectContract(c) \/ Acknowledge(c)
        PROVE  Inductive'
    BY <2>2, ResendInductive, RejectInductive, AcknowledgeInductive
  <2>3. CASE Refuse \/ Execute \/ DeferToVerifier
    BY <2>3, RefuseInductive, ExecuteInductive, DeferInductive
  <2>4. ASSUME NEW o \in Outcomes, Finish(o) PROVE Inductive'
    BY <2>4, FinishInductive
  <2>5. ASSUME NEW c \in Commands, NEW o \in Outcomes, VerifierReports(c, o)
        PROVE  Inductive'
    BY <2>5, VerifierReportsInductive
  <2>6. CASE PostFails \/ VerifierPostFails
    BY <2>6, PostFailsInductive, VerifierPostFailsInductive
  <2>7. CASE DaemonExits \/ Crash \/ Restart
    BY <2>7, DaemonExitsInductive, CrashInductive, RestartInductive
  <2> QED BY <1>3, <2>1, <2>2, <2>3, <2>4, <2>5, <2>6, <2>7 DEF AgentStep
<1>4. CASE UNCHANGED vars
  BY <1>4, StutterInductive
<1> QED BY <1>1, <1>2, <1>3, <1>4 DEF Next

\* The inductive invariant holds in every reachable state.
THEOREM InductiveInvariant == Spec => []Inductive
BY InitInductive, NextInductive, PTL DEF Spec

\* Every variable keeps its type.
THEOREM TypeCorrect == Spec => []TypeOK
<1>1. Inductive => TypeOK
  BY DEF Inductive
<1> QED BY <1>1, InductiveInvariant, PTL

\* No command is executed twice, whatever is lost, requeued or restarted.
THEOREM AtMostOnceExecution == Spec => []AtMostOnce
<1>1. Inductive => AtMostOnce
  BY DEF Inductive, JournalOK, AtMostOnce
<1> QED BY <1>1, InductiveInvariant, PTL

\* A success on the server is a command the agent executed and journalled.
THEOREM HonestSuccess == Spec => []SuccessWasExecuted
<1>1. Inductive => SuccessWasExecuted
  BY DEF Inductive
<1> QED BY <1>1, InductiveInvariant, PTL

\* No command is handed out more often than its contract allows.
THEOREM BoundedDelivery == Spec => []DeliveryBound
<1>1. Inductive => DeliveryBound
  BY DEF Inductive, DeliveriesLeft, DeliveryBound
<1> QED BY <1>1, InductiveInvariant, PTL

-----------------------------------------------------------------------------
(* What a step does to one row: the basis of the refinement. *)

Kept(c) == status'[c] = status[c] /\ retryCount'[c] = retryCount[c]
           /\ executions'[c] = executions[c]
Submitted(c) == status[c] = "none" /\ status'[c] = "queued"
                /\ retryCount'[c] = retryCount[c] /\ executions'[c] = executions[c]
Delivered(c) == /\ status[c] \in {"queued", "sent"} /\ status'[c] = "sent"
                /\ retryCount[c] < MaxDeliveries
                /\ retryCount'[c] = retryCount[c] + 1
                /\ executions[c] = 0 /\ executions'[c] = 0
                /\ age[c] < TtlTicks
Started(c) == /\ executions[c] = 0 /\ executions'[c] = 1
              /\ retryCount[c] > 0 /\ retryCount'[c] = retryCount[c]
              /\ status'[c] = status[c] /\ status[c] # "none"
Moved(c) == /\ status[c] # "none" /\ status'[c] \in Statuses \ {"none"}
            /\ retryCount'[c] = retryCount[c] /\ executions'[c] = executions[c]
RowStep(c) == Kept(c) \/ Submitted(c) \/ Delivered(c) \/ Started(c) \/ Moved(c)

\* A claim delivers some rows and at most sweeps the others.
LEMMA ClaimRowSteps ==
  ASSUME Inductive, ClaimRows(Claimable), NEW c \in Commands
  PROVE  RowStep(c)
<1>1. CASE c \in Claimable
  <2>1. age[c] < TtlTicks
    BY <1>1, ClaimableFacts, LifecycleAssumption
    DEF AfterRequeue, Stale, AfterExpire, Active, Inductive, TypeOK
  <2>2. Delivered(c)
    BY <1>1, <2>1, ClaimableFacts DEF ClaimRows, Delivered, Inductive, TypeOK
  <2> QED BY <2>2 DEF RowStep
<1>2. CASE c \notin Claimable
  BY <1>2, SweepFacts
  DEF ClaimRows, RowStep, Kept, Moved, Inductive, TypeOK
<1> QED BY <1>1, <1>2

\* Every step moves each row by one of the five row steps.
LEMMA EveryRowSteps ==
  ASSUME Inductive, [Next]_vars, NEW c \in Commands
  PROVE  RowStep(c)
<1>1. CASE Tick
  BY <1>1 DEF Tick, RowStep, Kept
<1>2. CASE ServerStep
  <2>1. ASSUME NEW d \in Commands, Create(d) PROVE RowStep(c)
    BY <2>1 DEF Create, RowStep, Kept, Submitted, Inductive, TypeOK
  <2>2. CASE Expire \/ RequeueByOtherDevice
    BY <2>2, SweepFacts
    DEF Expire, RequeueByOtherDevice, RowStep, Kept, Moved, Inductive, Active,
        Statuses, Terminal
  <2>3. CASE ClaimAndDeliver \/ ClaimForNobody
    BY <2>3, ClaimRowSteps DEF ClaimAndDeliver, ClaimForNobody
  <2>4. ASSUME NEW s \in Slots,
               LoadFinished(s) \/ LoadRefused(s) \/ LoadAccepted(s)
        PROVE  RowStep(c)
    BY <2>4
    DEF LoadFinished, LoadRefused, LoadAccepted, serverVars, RowStep, Kept
  <2>5. ASSUME NEW s \in Slots, Commit(s) PROVE RowStep(c)
    <3> DEFINE new == Written(handler[s].kind)
    <3>1. /\ new \in Statuses \ {"none"}
          /\ status' = IF new = handler[s].seen THEN status
                       ELSE [status EXCEPT ![handler[s].cmd] = new]
      BY <2>5
      DEF Commit, Inductive, TypeOK, Requests, Written, Outcomes, Statuses,
          Active, Terminal
    <3>2. status[handler[s].cmd] # "none"
      BY <2>5
      DEF Commit, Inductive, TypeOK, DeliveriesLeft, RequestsOK, RequestOK
    <3> QED
      BY <2>5, <3>1, <3>2
      DEF Commit, RowStep, Kept, Moved, Inductive, TypeOK
  <2> QED BY <1>2, <2>1, <2>2, <2>3, <2>4, <2>5 DEF ServerStep
<1>3. CASE AgentStep /\ ~Execute
  BY <1>3
  DEF AgentStep, Poll, PollEmpty, PollFails, PostFails, BatchDone, ResendResult,
      RejectContract, Acknowledge, Refuse, DeferToVerifier, Finish,
      VerifierReports, VerifierPostFails, DaemonExits, Crash, Restart, serverVars, RowStep,
      Kept
<1>4. CASE Execute
  BY <1>4
  DEF Execute, serverVars, Inductive, TypeOK, DaemonOK, RowStep, Kept, Started,
      Past, Terminal
<1>5. CASE UNCHANGED vars
  BY <1>5 DEF vars, RowStep, Kept
<1> QED BY <1>1, <1>2, <1>3, <1>4, <1>5 DEF Next

\* A claim hands out only what was never executed, undecided and in time.
THEOREM FreshDelivery == Spec => OnlyFreshDelivered
<1>1. Inductive /\ [Next]_vars =>
        [\A c \in Commands : retryCount'[c] > retryCount[c] =>
           /\ executions[c] = 0
           /\ status[c] \in {"queued", "sent"}
           /\ age[c] < TtlTicks]_vars
  <2> SUFFICES ASSUME Inductive, [Next]_vars, NEW c \in Commands,
                      retryCount'[c] > retryCount[c]
               PROVE  /\ executions[c] = 0
                      /\ status[c] \in {"queued", "sent"}
                      /\ age[c] < TtlTicks
    OBVIOUS
  <2>1. RowStep(c) /\ retryCount[c] \in Nat
    BY EveryRowSteps DEF Inductive, TypeOK
  <2> QED
    BY <2>1 DEF RowStep, Kept, Submitted, Delivered, Started, Moved
<1> QED BY <1>1, InductiveInvariant, PTL DEF Spec, OnlyFreshDelivered

-----------------------------------------------------------------------------
(* Commands keep their order. *)

\* A claim that hands out a command hands out every older queued one.
LEMMA OldestFirst ==
  ASSUME NEW c \in Commands, NEW d \in Claimable, c < d, AfterRequeue(c) = "queued"
  PROVE  c \in Claimable
<1> DEFINE queued == {x \in Commands : AfterRequeue(x) = "queued"}
           before(x) == {y \in queued : y < x}
<1>1. /\ d \in queued /\ Cardinality(before(d)) < BatchLimit
      /\ c \in Int /\ d \in Int /\ Commands \subseteq Int
  BY LifecycleAssumption DEF Claimable, Commands
<1>2. IsFiniteSet(before(d))
  <2>1. IsFiniteSet(Commands)
    BY LifecycleAssumption, FS_Interval DEF Commands
  <2> QED
    BY <2>1, FS_Subset
<1>3. before(c) \subseteq before(d)
  <2>1. ASSUME NEW y \in queued, y < c PROVE y < d
    BY <1>1, <2>1
  <2> QED
    BY <2>1
<1>4. Cardinality(before(c)) <= Cardinality(before(d))
  BY <1>2, <1>3, FS_Subset
<1>5. /\ Cardinality(before(c)) \in Nat /\ Cardinality(before(d)) \in Nat
  BY <1>2, <1>3, FS_Subset, FS_CardinalityType
<1>6. Cardinality(before(c)) < BatchLimit
  BY <1>1, <1>4, <1>5, LifecycleAssumption
<1> QED
  BY <1>6 DEF Claimable

\* What waits for its first delivery: a step that hands nothing out, ...
LEMMA QueueKept ==
  ASSUME Inductive, OrderOK, UNCHANGED <<retryCount, belated>>,
         \A c \in Commands : status'[c] \in {"queued", "sent"} =>
           status[c] = status'[c] \/ (status[c] = "sent" /\ status'[c] = "queued")
  PROVE  /\ \A c \in Commands : status'[c] = "sent" => retryCount'[c] > 0
         /\ \A c, d \in Commands :
              c < d /\ status'[c] = "queued" /\ retryCount'[c] = 0 /\ c \notin belated' =>
                retryCount'[d] = 0
BY DEF OrderOK

\* ... and a claim.
LEMMA QueueClaimed ==
  ASSUME Inductive, OrderOK, ClaimRows(Claimable)
  PROVE  /\ \A c \in Commands : status'[c] = "sent" => retryCount'[c] > 0
         /\ \A c, d \in Commands :
              c < d /\ status'[c] = "queued" /\ retryCount'[c] = 0 /\ c \notin belated' =>
                retryCount'[d] = 0
<1>1. ASSUME NEW c \in Commands, status'[c] = "sent"
      PROVE  retryCount'[c] > 0
  <2>1. CASE c \in Claimable
    BY <2>1, ClaimRowsFacts
  <2>2. CASE c \notin Claimable
    <3>1. AfterRequeue(c) = "sent"
      BY <1>1, <2>2 DEF ClaimRows, Inductive, TypeOK
    <3>2. status[c] = "sent"
      BY <3>1 DEF AfterRequeue, AfterExpire, Stale
    <3> QED
      BY <3>2, ClaimRowsFacts DEF OrderOK
  <2> QED
    BY <2>1, <2>2
<1>2. ASSUME NEW c \in Commands, NEW d \in Commands, c < d,
             status'[c] = "queued", retryCount'[c] = 0, c \notin belated'
      PROVE  retryCount'[d] = 0
  <2>1. c \notin Claimable /\ AfterRequeue(c) = "queued" /\ retryCount[c] = 0
    BY <1>2 DEF ClaimRows, Inductive, TypeOK
  <2>2. status[c] = "queued"
    BY <2>1, SweepFacts DEF OrderOK, Inductive
  <2>3. retryCount[d] = 0
    BY <1>2, <2>1, <2>2 DEF OrderOK, ClaimRows
  <2>4. d \notin Claimable
    BY <1>2, <2>1, OldestFirst
  <2> QED
    BY <2>3, <2>4 DEF ClaimRows, Inductive, TypeOK
<1> QED
  BY <1>1, <1>2

\* As long as nothing is executed and the daemon only puts commands away, what it
\* has yet to run keeps its place.
LEMMA OrderKept ==
  ASSUME Inductive, OrderOK, batch' \subseteq batch, executions' = executions,
         belated \subseteq belated',
         \A c \in Commands : retryCount[c] > 1 => retryCount'[c] > 1,
         pc' \in {"acking", "granted"} =>
           \/ pc \in {"acking", "granted"} /\ cur' = cur
           \/ cur' \in batch \ batch'
  PROVE  KeepsOrder'
<1>1. Ahead' \subseteq Ahead
  BY DEF Ahead
<1>2. batch \subseteq Commands
  BY DEF Inductive, TypeOK
<1>3. pc \in {"acking", "granted"} => cur \in Commands
  BY DEF Inductive, DaemonOK, Waiting
<1>4. Ahead \subseteq Commands
  BY <1>2, <1>3 DEF Ahead
<1> QED
  BY <1>1, <1>4 DEF OrderOK, KeepsOrder

LEMMA OrderInit == Init => OrderOK
BY DEF Init, OrderOK, KeepsOrder, Ahead

\* A step of the server.
LEMMA ServerKeepsOrder ==
  ASSUME Inductive, OrderOK, Tick \/ ServerStep
  PROVE  OrderOK'
<1>1. CASE Tick
  <2>1. KeepsOrder'
    BY <1>1, OrderKept DEF Tick, diskVars
  <2> QED
    BY <1>1, <2>1, QueueKept DEF Tick, OrderOK
<1>2. ASSUME NEW c \in Commands, Create(c)
      PROVE  OrderOK'
  <2>1. KeepsOrder'
    BY <1>2, OrderKept DEF Create, diskVars
  <2>2. \A e \in Commands : status'[e] = "sent" => retryCount'[e] > 0
    BY <1>2 DEF Create, OrderOK, Inductive, TypeOK
  <2>3. ASSUME NEW e \in Commands, NEW d \in Commands, e < d,
               status'[e] = "queued", retryCount'[e] = 0, e \notin belated'
        PROVE  retryCount'[d] = 0
    BY <1>2, <2>3 DEF Create, OrderOK, Inductive, TypeOK
  <2> QED
    BY <1>2, <2>1, <2>2, <2>3 DEF Create, OrderOK
<1>3. CASE Expire \/ RequeueByOtherDevice
  <2>1. KeepsOrder'
    BY <1>3, OrderKept DEF Expire, RequeueByOtherDevice, diskVars
  <2>2. \A c \in Commands : status'[c] \in {"queued", "sent"} =>
          status[c] = status'[c] \/ (status[c] = "sent" /\ status'[c] = "queued")
    BY <1>3 DEF Expire, RequeueByOtherDevice, AfterRequeue, AfterExpire, Stale
  <2> QED
    BY <1>3, <2>1, <2>2, QueueKept DEF Expire, RequeueByOtherDevice, OrderOK
<1>4. CASE ClaimForNobody
  <2>1. ClaimRows(Claimable) /\ UNCHANGED <<pc, cur, batch, executions, belated>>
    BY <1>4 DEF ClaimForNobody, ClaimRows
  <2>2. \A c \in Commands : retryCount[c] > 1 => retryCount'[c] > 1
    BY <2>1 DEF ClaimRows, Inductive, TypeOK
  <2>3. KeepsOrder'
    BY <2>1, <2>2, OrderKept
  <2> QED
    BY <2>1, <2>3, QueueClaimed DEF OrderOK
<1>5. CASE ClaimAndDeliver
  <2>1. /\ ClaimRows(Claimable) /\ UNCHANGED <<executions, belated>>
        /\ batch' = Claimable /\ pc' \in {"polling", "handling"}
        /\ pc' = "polling" => batch' = {}
    BY <1>5 DEF ClaimAndDeliver, ClaimRows
  <2>2. ASSUME NEW c \in Ahead', NEW d \in Commands, c < d, executions'[d] > 0,
               c \notin belated'
        PROVE  retryCount'[c] > 1
    <3>1. c \in Claimable /\ c \in Commands /\ AfterRequeue(c) = "queued"
      BY <2>1, ClaimableFacts DEF Ahead
    <3>2. retryCount'[c] = retryCount[c] + 1 /\ retryCount[c] \in Nat
      BY <2>1, <3>1 DEF ClaimRows, Inductive, TypeOK
    <3>3. retryCount[d] > 0
      BY <2>1, <2>2 DEF Inductive, TypeOK, JournalOK
    <3>4. retryCount[c] # 0
      <4>1. SUFFICES ASSUME retryCount[c] = 0 PROVE FALSE
        OBVIOUS
      <4>2. status[c] = "queued"
        BY <3>1, <4>1, SweepFacts DEF OrderOK, Inductive
      <4> QED
        BY <2>1, <2>2, <3>1, <3>3, <4>1, <4>2 DEF OrderOK
    <3> QED
      BY <3>2, <3>4
  <2>3. KeepsOrder'
    BY <2>2 DEF KeepsOrder
  <2> QED
    BY <2>1, <2>3, QueueClaimed DEF OrderOK
<1>6. ASSUME NEW s \in Slots, LoadFinished(s) \/ LoadRefused(s) \/ LoadAccepted(s)
      PROVE  OrderOK'
  <2>1. UNCHANGED <<serverVars, cur, batch, executions>>
    BY <1>6 DEF LoadFinished, LoadRefused, LoadAccepted
  <2>2. pc' = pc \/ pc' = "handling" \/ (pc = "acking" /\ pc' = "granted")
    BY <1>6 DEF LoadFinished, LoadRefused, LoadAccepted, Answer, DaemonGoesOn
  <2>3. KeepsOrder'
    BY <2>1, <2>2, OrderKept DEF serverVars
  <2> QED
    BY <2>1, <2>2, <2>3, QueueKept DEF serverVars, OrderOK
<1>7. ASSUME NEW s \in Slots, Commit(s)
      PROVE  OrderOK'
  <2>1. UNCHANGED <<retryCount, cur, batch, executions, belated>>
    BY <1>7 DEF Commit
  <2>2. pc' = pc \/ pc' = "handling" \/ (pc = "acking" /\ pc' = "granted")
    BY <1>7 DEF Commit, Answer, DaemonGoesOn
  <2>3. \A c \in Commands : status'[c] = status[c] \/ status'[c] \notin {"queued", "sent"}
    <3>1. Written(handler[s].kind) \in {"running", "success", "failed"}
      BY <1>7 DEF Inductive, TypeOK, Requests, Written, Outcomes
    <3> QED
      BY <1>7, <3>1 DEF Commit, Inductive, TypeOK
  <2>4. KeepsOrder'
    BY <2>1, <2>2, OrderKept
  <2> QED
    BY <2>1, <2>2, <2>3, <2>4, QueueKept DEF OrderOK
<1> QED
  BY <1>1, <1>2, <1>3, <1>4, <1>5, <1>6, <1>7 DEF ServerStep

\* A step of the agent.
LEMMA AgentKeepsOrder ==
  ASSUME Inductive, OrderOK, AgentStep
  PROVE  OrderOK'
<1>1. UNCHANGED serverVars
  BY DEF AgentStep, Poll, PollEmpty, PollFails, PostFails, BatchDone, ResendResult,
     RejectContract, Acknowledge, Refuse, Execute, Finish, DeferToVerifier, VerifierReports,
     VerifierPostFails, DaemonExits, Crash, Restart
<1>2. /\ \A c \in Commands : status'[c] = "sent" => retryCount'[c] > 0
      /\ \A c, d \in Commands :
           c < d /\ status'[c] = "queued" /\ retryCount'[c] = 0 /\ c \notin belated' =>
             retryCount'[d] = 0
  BY <1>1 DEF serverVars, OrderOK
<1>3. CASE Poll \/ PollEmpty \/ PollFails \/ PostFails \/ BatchDone \/ DaemonExits
           \/ Crash \/ Restart
  <2>1. /\ batch' \subseteq batch /\ executions' = executions
        /\ pc' \in {"idle", "polling", "handling", "down"}
        /\ pc' \in {"idle", "polling", "down"} => batch' = {}
    BY <1>3
    DEF Poll, PollEmpty, PollFails, PostFails, DaemonGoesOn, BatchDone, DaemonExits, Crash,
        Restart, OrderOK
  <2>2. KeepsOrder'
    BY <1>1, <2>1, OrderKept DEF serverVars
  <2> QED
    BY <1>2, <2>1, <2>2 DEF OrderOK
<1>4. ASSUME NEW c \in Commands, ResendResult(c) \/ RejectContract(c) \/ Acknowledge(c)
      PROVE  OrderOK'
  <2>0. /\ Next1(c) /\ executions' = executions /\ pc' \in {"reporting", "acking"}
    BY <1>4 DEF ResendResult, RejectContract, Acknowledge
  <2>1. /\ c \in batch /\ batch' = batch \ {c} /\ cur' = c
        /\ \A d \in batch' : c < d
    <3>1. batch \subseteq Int /\ c \in Int
      BY LifecycleAssumption DEF Inductive, TypeOK, Commands
    <3> QED
      BY <2>0, <3>1 DEF Next1
  <2>2. KeepsOrder'
    BY <1>1, <2>0, <2>1, OrderKept DEF serverVars
  <2> QED
    BY <1>2, <2>0, <2>1, <2>2 DEF OrderOK
<1>5. CASE Execute
  <2>1. /\ pc = "granted" /\ pc' = "executing" /\ batch' = batch
        /\ executions' = [executions EXCEPT ![cur] = @ + 1]
    BY <1>5 DEF Execute
  <2>2. ASSUME NEW c \in Ahead', NEW d \in Commands, c < d, executions'[d] > 0
        PROVE  retryCount[c] > 1 \/ c \in belated
    <3>1. c \in batch /\ cur < c /\ c \in Commands /\ cur \in Commands
      BY <2>1, <2>2 DEF Ahead, OrderOK, Inductive, TypeOK, DaemonOK
    <3>2. d # cur
      BY <2>2, <3>1, LifecycleAssumption DEF Commands
    <3>3. executions[d] > 0
      BY <2>1, <2>2, <3>2 DEF Inductive, TypeOK
    <3> QED
      BY <2>2, <3>1, <3>3 DEF OrderOK, KeepsOrder, Ahead
  <2>3. KeepsOrder'
    BY <1>1, <2>2 DEF KeepsOrder, serverVars
  <2> QED
    BY <1>2, <2>1, <2>3 DEF OrderOK
<1>6. CASE Refuse \/ DeferToVerifier \/ \E o \in Outcomes : Finish(o)
  <2>1. /\ batch' = batch /\ executions' = executions
        /\ pc' \in {"reporting", "announcing"}
    BY <1>6 DEF Refuse, DeferToVerifier, Finish
  <2>2. KeepsOrder'
    BY <1>1, <2>1, OrderKept DEF serverVars
  <2> QED
    BY <1>2, <2>1, <2>2 DEF OrderOK
<1>7. CASE VerifierPostFails \/ \E c \in Commands, o \in Outcomes : VerifierReports(c, o)
  <2>1. UNCHANGED <<pc, cur, batch, executions>>
    BY <1>7 DEF VerifierPostFails, VerifierReports
  <2>2. KeepsOrder'
    BY <1>1, <2>1, OrderKept DEF serverVars
  <2> QED
    BY <1>2, <2>1, <2>2 DEF OrderOK
<1> QED
  BY <1>3, <1>4, <1>5, <1>6, <1>7 DEF AgentStep

LEMMA NextKeepsOrder == Inductive /\ OrderOK /\ [Next]_vars => OrderOK'
<1>1. ASSUME OrderOK, UNCHANGED vars PROVE OrderOK'
  BY <1>1 DEF vars, OrderOK, KeepsOrder, Ahead
<1> QED
  BY <1>1, ServerKeepsOrder, AgentKeepsOrder DEF Next

\* A command is overtaken by a later one only if its first delivery was lost or if
\* it appeared after that one had been handed out.
THEOREM OrderOfCommands == Spec => []KeepsOrder
<1>1. OrderOK => KeepsOrder
  BY DEF OrderOK
<1>2. Inductive /\ OrderOK /\ [Next]_vars => OrderOK'
  BY NextKeepsOrder
<1> QED BY <1>1, <1>2, OrderInit, InductiveInvariant, PTL DEF Spec

-----------------------------------------------------------------------------
(* The refinement of CommandContract. *)

LEMMA ContractInit == Init => Contract!Init
BY DEF Init, Contract!Init, JobView, Contract!NewJob, Terminal

\* The view of a well-typed state is a well-typed state of the contract.
LEMMA ViewTyped ==
  Inductive' => JobView' \in [Commands -> Contract!JobStates]
BY DEF Inductive, TypeOK, JobView, Contract!JobStates, Contract!Verdicts,
       Contract!Stages, Statuses, Terminal

\* A row step is a step of the contract for that job, or leaves it alone.
LEMMA RowRefines ==
  ASSUME Inductive, Inductive', NEW c \in Commands, RowStep(c)
  PROVE  \/ JobView'[c] = JobView[c]
         \/ Contract!Submit(c) \/ Contract!Deliver(c)
         \/ Contract!Start(c) \/ Contract!Decide(c)
<1>0. /\ JobView[c] =
           [stage |-> IF executions[c] > 0 THEN "started"
                      ELSE IF status[c] # "none" THEN "submitted" ELSE "none",
            deliveries |-> retryCount[c],
            verdict |-> IF status[c] \in Terminal THEN status[c] ELSE "open"]
      /\ JobView'[c] =
           [stage |-> IF executions'[c] > 0 THEN "started"
                      ELSE IF status'[c] # "none" THEN "submitted" ELSE "none",
            deliveries |-> retryCount'[c],
            verdict |-> IF status'[c] \in Terminal THEN status'[c] ELSE "open"]
      /\ retryCount[c] \in Nat /\ executions[c] \in Nat
      /\ executions[c] > 0 => status[c] # "none" /\ retryCount[c] > 0
  BY DEF JobView, Inductive, TypeOK, JournalOK, Past, Terminal
<1>1. CASE Kept(c)
  BY <1>0, <1>1 DEF Kept
<1>2. CASE Submitted(c)
  <2>1. Contract!Submit(c)
    BY <1>0, <1>2 DEF Submitted, Contract!Submit, Terminal
  <2> QED BY <2>1
<1>3. CASE Delivered(c)
  <2>1. Contract!Deliver(c)
    BY <1>0, <1>3 DEF Delivered, Contract!Deliver, Terminal
  <2> QED BY <2>1
<1>4. CASE Started(c)
  <2>1. Contract!Start(c)
    BY <1>0, <1>4 DEF Started, Contract!Start
  <2> QED BY <2>1
<1>5. CASE Moved(c)
  <2> DEFINE v == IF status'[c] \in Terminal THEN status'[c] ELSE "open"
  <2>1. v \in Contract!Verdicts
    BY DEF Contract!Verdicts, Terminal
  <2>2. v = "success" => executions[c] > 0
    BY <1>5 DEF Moved, Inductive, SuccessWasExecuted, Terminal
  <2>3. JobView'[c] = [JobView[c] EXCEPT !.verdict = v]
    BY <1>0, <1>5 DEF Moved
  <2>4. /\ JobView[c].stage # "none"
        /\ executions[c] > 0 => JobView[c].stage = "started"
    BY <1>0, <1>5 DEF Moved
  <2>5. Contract!Decide(c)
    <3> HIDE DEF v
    <3> QED BY <2>1, <2>2, <2>3, <2>4 DEF Contract!Decide
  <2> QED BY <2>5
<1> QED BY <1>1, <1>2, <1>3, <1>4, <1>5 DEF RowStep

\* The lifecycle implements the contract: a command is delivered a bounded
\* number of times and only while undecided and not started, starts at most
\* once, and is declared a success only if it started.
THEOREM ContractImplemented == Spec => ContractKept
<1>1. Inductive /\ Inductive' /\ [Next]_vars => [Contract!Next]_JobView
  <2> SUFFICES ASSUME Inductive, Inductive', [Next]_vars
               PROVE  Contract!Next
    OBVIOUS
  <2>1. JobView' \in [Commands -> Contract!JobStates]
    BY ViewTyped
  <2>2. ASSUME NEW c \in Commands
        PROVE  \/ JobView'[c] = JobView[c]
               \/ Contract!Submit(c) \/ Contract!Deliver(c)
               \/ Contract!Start(c) \/ Contract!Decide(c)
    BY EveryRowSteps, RowRefines
  <2> QED BY <2>1, <2>2 DEF Contract!Next
<1> QED
  BY <1>1, ContractInit, InductiveInvariant, PTL
  DEF Spec, ContractKept, Contract!Spec
=============================================================================
