----------------------------- MODULE BrokerProofs ---------------------------
(***************************************************************************)
(* Proofs about what the server keeps open.  Of LongPoll, for any number   *)
(* of commands, polls, pages, lost connections and any size of the queues: *)
(* no wake-up is missed, and no page is left with old telemetry.  Of       *)
(* Terminal, for any number of keys, chunks, kept frames and losses: the   *)
(* result of the command is true, output keeps its order, and the terminal *)
(* implements the channel of its keys.                                     *)
(***************************************************************************)
EXTENDS LongPoll, Terminal, FiniteSetTheorems, TLAPS

Queuing(c) == [type |-> "command.queued", command |-> c]
Announcement == [type |-> "telemetry.updated", command |-> "none"]

LEMMA EventTypes ==
  /\ StatusChanged \in Events /\ Resync \in Events /\ Announcement \in Events
  /\ \A c \in Commands : Queuing(c) \in Events
BY DEF StatusChanged, Resync, Announcement, Queuing, Events, Types

LEMMA PaneTypes ==
  /\ \A e \in Events : Outdates(e) \subseteq Panes
  /\ \A t \in Types \cup {"snapshot"} : Loads(t) \subseteq Panes
BY DEF Events, Types, Outdates, Loads, Panes

LEMMA StatusesType ==
  ASSUME NEW S \in SUBSET Commands
  PROVE  [i \in 1..Cardinality(S) |-> StatusChanged] \in Seq(Events)
<1>1. Cardinality(S) \in Nat
  BY LongPollAssumption, FS_Subset, FS_CardinalityType
<1> QED
  BY <1>1, EventTypes

LEMMA PutType ==
  ASSUME NEW q \in Seq(Events), Len(q) <= QueueSize, NEW e \in Events
  PROVE  Put(q, e) \in Seq(Events) /\ Len(Put(q, e)) <= QueueSize
BY EventTypes, LongPollAssumption DEF Put

\* What an announcement touches keeps its type.
LEMMA CommitType ==
  ASSUME TypeOK, NEW es \in Seq(Events), Commit(es)
  PROVE  /\ wire' \in Seq(Events)
         /\ stale' \in [Pages -> SUBSET Panes]
         /\ missed' \in [Pages -> SUBSET Panes]
         /\ unheard' \subseteq Commands
<1> DEFINE panes == UNION {Outdates(e) : e \in ToSet(es)}
<1>1. ToSet(es) \subseteq Events
  BY DEF ToSet
<1>2. panes \subseteq Panes
  BY <1>1, PaneTypes
<1>3. stale' = [s \in Pages |-> stale[s] \cup panes]
  BY DEF Commit
<1>4. CASE listening
  <2>1. wire' = wire \o es /\ missed' = missed /\ unheard' = unheard
    BY <1>4 DEF Commit
  <2> QED
    BY <1>2, <1>3, <2>1 DEF TypeOK
<1>5. CASE ~listening
  <2>1. /\ wire' = wire
        /\ missed' = [s \in Pages |-> missed[s] \cup panes]
        /\ unheard' = unheard \cup {e.command : e \in
                             {x \in ToSet(es) : x.type = "command.queued"}}
    BY <1>5 DEF Commit
  <2>2. \A e \in Events : e.type = "command.queued" => e.command \in Commands
    BY DEF Events
  <2> QED
    BY <1>1, <1>2, <1>3, <2>1, <2>2 DEF TypeOK
<1> QED
  BY <1>4, <1>5

LEMMA TypeInit == Init => TypeOK
<1> SUFFICES ASSUME Init PROVE TypeOK
  OBVIOUS
<1>1. queue \in [Pages -> Seq(Events)] /\ \A s \in Pages : Len(queue[s]) <= QueueSize
  BY LongPollAssumption DEF Init
<1>2. /\ due \in [Pages -> SUBSET Panes] /\ stale \in [Pages -> SUBSET Panes]
      /\ missed \in [Pages -> SUBSET Panes]
  BY DEF Init
<1>3. poll \in [Polls -> [pc : {"idle", "first", "reading", "second", "waiting", "last"},
                         seen : 0..generation]]
  BY DEF Init
<1> QED
  BY <1>1, <1>2, <1>3, LongPollAssumption DEF Init, TypeOK

LEMMA TransactionsType ==
  ASSUME TypeOK, NEW e \in Events, Commit(<<e>>),
         UNCHANGED <<listening, tasks, generation, poll, stream, queue, due>>,
         \/ DeviceTelemetry
         \/ \E c \in Commands : CreateDeviceCommand(c) \/ CommandResult(c)
  PROVE  TypeOK'
<1>1. <<e>> \in Seq(Events)
  OBVIOUS
<1>2. /\ wire' \in Seq(Events)
      /\ stale' \in [Pages -> SUBSET Panes]
      /\ missed' \in [Pages -> SUBSET Panes]
      /\ unheard' \subseteq Commands
  BY <1>1, CommitType
<1>3. command' \in [Commands -> {"none", "queued", "sent", "done"}]
  BY DEF DeviceTelemetry, CreateDeviceCommand, CommandResult, TypeOK
<1>4. /\ telemetry' \in 0..MaxTelemetry /\ requeues' \in 0..MaxRequeues
      /\ outages' \in 0..MaxOutages /\ streams' \in 0..MaxStreams
  <2>1. CASE DeviceTelemetry
    BY <2>1, LongPollAssumption DEF DeviceTelemetry, TypeOK
  <2>2. CASE UNCHANGED counters
    BY <2>2 DEF counters, TypeOK
  <2> QED
    BY <2>1, <2>2 DEF CreateDeviceCommand, CommandResult
<1> QED
  BY <1>2, <1>3, <1>4 DEF TypeOK

LEMMA ClaimType ==
  ASSUME TypeOK, NEW p \in Polls, NEW from, Claim(p, from)
  PROVE  TypeOK'
<1>1. [i \in 1..Cardinality(Queued) |-> StatusChanged] \in Seq(Events)
  BY StatusesType DEF Queued
<1>2. /\ wire' \in Seq(Events)
      /\ stale' \in [Pages -> SUBSET Panes]
      /\ missed' \in [Pages -> SUBSET Panes]
      /\ unheard' \subseteq Commands
  BY <1>1, CommitType DEF Claim
<1>3. command' \in [Commands -> {"none", "queued", "sent", "done"}]
  BY DEF Claim, TypeOK
<1>4. /\ UNCHANGED <<listening, tasks, generation, stream, queue, due, counters>>
      /\ poll' = [poll EXCEPT ![p].pc = "idle"]
  BY DEF Claim, Moves
<1> QED
  BY <1>2, <1>3, <1>4 DEF counters, TypeOK

LEMMA PollType ==
  ASSUME TypeOK, NEW p \in Polls, PollStep(p)
  PROVE  TypeOK'
<1>1. CASE \E from \in {"first", "second", "last"} : Claim(p, from)
  BY <1>1, ClaimType
<1>2. CASE ReadGeneration(p)
  BY <1>2 DEF ReadGeneration, pages, counters, TypeOK
<1>3. CASE /\ \E from, to \in {"idle", "first", "reading", "second", "waiting", "last"} :
                Moves(p, from, to)
           /\ UNCHANGED <<command, listening, wire, tasks, generation, pages, counters, unheard>>
  BY <1>3 DEF Moves, pages, counters, TypeOK
<1> QED
  BY <1>1, <1>2, <1>3
  DEF PollStep, BeginPoll, FirstClaim, SecondClaim, LastClaim, 
     ClaimNothing, Wake, TimeOut

LEMMA PageType ==
  ASSUME TypeOK, NEW s \in Pages, PageStep(s)
  PROVE  TypeOK'
<1> USE DEF server, counters
<1>1. CASE Connect(s)
  BY <1>1, PaneTypes, LongPollAssumption DEF Connect, TypeOK
<1>2. CASE Disconnect(s)
  BY <1>2, LongPollAssumption DEF Disconnect, TypeOK
<1>3. CASE Deliver(s)
  <2>1. queue[s] \in Seq(Events) /\ queue[s] # <<>> /\ Len(queue[s]) <= QueueSize
    BY <1>3 DEF Deliver, TypeOK
  <2>2. Head(queue[s]) \in Events /\ Tail(queue[s]) \in Seq(Events)
        /\ Len(Tail(queue[s])) <= QueueSize
    BY <2>1, LongPollAssumption
  <2>3. Loads(Head(queue[s]).type) \subseteq Panes
    BY <2>2, PaneTypes DEF Events, Types
  <2>4. queue' \in [Pages -> Seq(Events)] /\ \A r \in Pages : Len(queue'[r]) <= QueueSize
    BY <1>3, <2>2 DEF Deliver, TypeOK
  <2>5. due' \in [Pages -> SUBSET Panes]
    BY <1>3, <2>3 DEF Deliver, TypeOK
  <2> QED
    BY <1>3, <2>4, <2>5 DEF Deliver, TypeOK
<1>4. CASE Load(s)
  BY <1>4 DEF Load, TypeOK
<1> QED
  BY <1>1, <1>2, <1>3, <1>4 DEF PageStep

LEMMA ListenerType ==
  ASSUME TypeOK, Receive \/ ListenerFails \/ ListenAgain \/ Publish
  PROVE  TypeOK'
<1> USE DEF pages, counters
<1>1. CASE Receive
  BY <1>1 DEF Receive, TypeOK
<1>2. CASE ListenerFails
  <2> DEFINE panes == UNION {Outdates(e) : e \in ToSet(wire)}
  <2>1. ToSet(wire) \subseteq Events
    BY DEF ToSet, TypeOK
  <2>2. panes \subseteq Panes
    BY <2>1, PaneTypes
  <2>3. missed' = [s \in Pages |-> missed[s] \cup panes]
    BY <1>2 DEF ListenerFails
  <2>4. unheard' = unheard \cup {e.command : e \in
                             {x \in ToSet(wire) : x.type = "command.queued"}}
    BY <1>2 DEF ListenerFails
  <2>5. \A e \in Events : e.type = "command.queued" => e.command \in Commands
    BY DEF Events
  <2>6. missed' \in [Pages -> SUBSET Panes] /\ unheard' \subseteq Commands
    BY <2>1, <2>2, <2>3, <2>4, <2>5 DEF TypeOK
  <2>7. wire' \in Seq(Events) /\ outages' \in 0..MaxOutages
    BY <1>2, LongPollAssumption DEF ListenerFails, TypeOK
  <2>8. /\ listening' \in BOOLEAN
        /\ UNCHANGED <<command, tasks, generation, poll, stream, queue, due, stale,
                       telemetry, requeues, streams>>
    BY <1>2 DEF ListenerFails
  <2> QED
    BY <2>6, <2>7, <2>8 DEF TypeOK
<1>3. CASE ListenAgain
  BY <1>3 DEF ListenAgain, TypeOK
<1>4. CASE Publish
  <2>1. Head(tasks) \in Events /\ Tail(tasks) \in Seq(Events)
    BY <1>4 DEF Publish, TypeOK
  <2>2. queue' \in [Pages -> Seq(Events)] /\ \A s \in Pages : Len(queue'[s]) <= QueueSize
    BY <1>4, <2>1, PutType DEF Publish, TypeOK
  <2>3. 0..generation \subseteq 0..(generation + 1)
    BY DEF TypeOK
  <2> QED
    BY <1>4, <2>1, <2>2, <2>3 DEF Publish, TypeOK
<1> QED
  BY <1>1, <1>2, <1>3, <1>4

LEMMA TypeStep == TypeOK /\ [Next]_vars => TypeOK'
<1> SUFFICES ASSUME TypeOK, [Next]_vars PROVE TypeOK'
  OBVIOUS
<1>1. CASE DeviceTelemetry
  <2>1. Commit(<<Announcement>>)
    BY <1>1 DEF DeviceTelemetry, Announcement
  <2>2. UNCHANGED <<listening, tasks, generation, poll, stream, queue, due>>
    BY <1>1 DEF DeviceTelemetry
  <2> QED
    BY <1>1, <2>1, <2>2, EventTypes, TransactionsType
<1>2. ASSUME NEW c \in Commands, CreateDeviceCommand(c) \/ CommandResult(c) PROVE TypeOK'
  <2>1. CASE CreateDeviceCommand(c)
    <3>1. Commit(<<Queuing(c)>>)
      BY <2>1 DEF CreateDeviceCommand, Queuing
    <3>2. UNCHANGED <<listening, tasks, generation, poll, stream, queue, due>>
      BY <2>1 DEF CreateDeviceCommand
    <3> QED
      BY <2>1, <3>1, <3>2, EventTypes, TransactionsType
  <2>2. CASE CommandResult(c)
    <3>1. Commit(<<StatusChanged>>)
      BY <2>2 DEF CommandResult
    <3>2. UNCHANGED <<listening, tasks, generation, poll, stream, queue, due>>
      BY <2>2 DEF CommandResult
    <3> QED
      BY <2>2, <3>1, <3>2, EventTypes, TransactionsType
  <2> QED
    BY <1>2, <2>1, <2>2
<1>3. ASSUME NEW c \in Commands, RequeueByOtherDevice(c) PROVE TypeOK'
  BY <1>3, LongPollAssumption DEF RequeueByOtherDevice, pages, TypeOK
<1>4. CASE Receive \/ ListenerFails \/ ListenAgain \/ Publish
  BY <1>4, ListenerType
<1>5. ASSUME NEW p \in Polls, PollStep(p) PROVE TypeOK'
  BY <1>5, PollType
<1>6. ASSUME NEW s \in Pages, PageStep(s) PROVE TypeOK'
  BY <1>6, PageType
<1>7. CASE UNCHANGED vars
  BY <1>7 DEF vars, server, pages, counters, TypeOK
<1> QED
  BY <1>1, <1>2, <1>3, <1>4, <1>5, <1>6, <1>7 DEF Next

\* Commands, announcements, polls and pages are well typed, and no queue of a
\* subscriber is longer than its limit (realtime.py).
THEOREM TypeCorrect == Spec => []TypeOK
BY TypeInit, TypeStep, PTL DEF Spec

-----------------------------------------------------------------------------
(* No wake-up is missed. *)

\* A command is queued by its creation, or returned to the queue unannounced.
LEMMA StillQueued ==
  ASSUME TypeOK, [Next]_vars, NEW c \in Commands, command'[c] = "queued", c \notin unheard'
  PROVE  command[c] = "queued" \/ CreateDeviceCommand(c)
<1>1. CASE \E d \in Commands :
             CreateDeviceCommand(d) \/ CommandResult(d) \/ RequeueByOtherDevice(d)
  BY <1>1 DEF CreateDeviceCommand, CommandResult, RequeueByOtherDevice, TypeOK
<1>2. CASE \E p \in Polls, from \in {"first", "second", "last"} : Claim(p, from)
  BY <1>2 DEF Claim, Queued
<1>3. CASE UNCHANGED command
  BY <1>3
<1> QED
  BY <1>1, <1>2, <1>3
  DEF Next, DeviceTelemetry, Receive, ListenerFails, ListenAgain, 
     Publish, PollStep, BeginPoll, FirstClaim, ReadGeneration, SecondClaim, Wake, TimeOut,
     LastClaim, ClaimNothing, PageStep, Connect, Disconnect, Deliver, Load, server, vars

\* What was announced leaves its way only by being published, or unheard.
LEMMA CommitKeeps ==
  ASSUME TypeOK, NEW es \in Seq(Events), Commit(es), tasks' = tasks
  PROVE  OnItsWay \subseteq OnItsWay' /\ unheard \subseteq unheard'
<1>1. wire' = wire \/ wire' = wire \o es
  BY DEF Commit
<1>2. ASSUME NEW i \in DOMAIN wire PROVE wire[i] \in ToSet(wire')
  <2>1. wire \in Seq(Events)
    BY DEF TypeOK
  <2>2. i \in DOMAIN (wire \o es) /\ (wire \o es)[i] = wire[i]
    BY <2>1
  <2> QED
    BY <1>1, <2>2 DEF ToSet
<1>3. ToSet(wire) \subseteq ToSet(wire')
  BY <1>2 DEF ToSet
<1> QED
  BY <1>3 DEF OnItsWay, Commit

LEMMA CommitOneKeeps ==
  ASSUME TypeOK, NEW e \in Events, Commit(<<e>>), tasks' = tasks
  PROVE  OnItsWay \subseteq OnItsWay' /\ unheard \subseteq unheard'
<1>1. <<e>> \in Seq(Events)
  OBVIOUS
<1> QED
  BY <1>1, CommitKeeps

LEMMA StillOnItsWay ==
  ASSUME TypeOK, [Next]_vars, generation' = generation, NEW c \in Commands, c \notin unheard'
  PROVE  c \notin unheard /\ (Queuing(c) \in OnItsWay => Queuing(c) \in OnItsWay')
<1>1. CASE \E d \in Commands : CreateDeviceCommand(d)
  BY <1>1, CommitOneKeeps, EventTypes DEF CreateDeviceCommand, Queuing
<1>2. CASE \E d \in Commands : CommandResult(d)
  BY <1>2, CommitOneKeeps, EventTypes DEF CommandResult
<1>3. CASE DeviceTelemetry
  BY <1>3, CommitOneKeeps, EventTypes DEF DeviceTelemetry, Announcement
<1>4. CASE \E p \in Polls, from \in {"first", "second", "last"} : Claim(p, from)
  <2>1. [i \in 1..Cardinality(Queued) |-> StatusChanged] \in Seq(Events)
    BY StatusesType DEF Queued
  <2> QED
    BY <1>4, <2>1, CommitKeeps DEF Claim
<1>5. CASE Receive
  <2>1. ToSet(wire) \cup ToSet(tasks) \subseteq ToSet(wire') \cup ToSet(tasks')
    <3>1. wire \in Seq(Events) /\ wire # <<>> /\ tasks \in Seq(Events)
      BY <1>5 DEF Receive, TypeOK
    <3>2. wire' = Tail(wire) /\ tasks' = Append(tasks, Head(wire))
      BY <1>5 DEF Receive
    <3>3. ASSUME NEW i \in DOMAIN wire PROVE wire[i] \in ToSet(wire') \cup ToSet(tasks')
      <4>1. CASE i = 1
        <5>1. Len(tasks) + 1 \in DOMAIN tasks' /\ tasks'[Len(tasks) + 1] = wire[i]
          BY <3>1, <3>2, <4>1
        <5> QED
          BY <5>1 DEF ToSet
      <4>2. CASE i # 1
        <5>1. i - 1 \in DOMAIN wire' /\ wire'[i - 1] = wire[i]
          BY <3>1, <3>2, <4>2
        <5> QED
          BY <5>1 DEF ToSet
      <4> QED
        BY <4>1, <4>2
    <3>4. ASSUME NEW i \in DOMAIN tasks PROVE tasks[i] \in ToSet(tasks')
      <4>1. i \in DOMAIN tasks' /\ tasks'[i] = tasks[i]
        BY <3>1, <3>2
      <4> QED
        BY <4>1 DEF ToSet
    <3> QED
      BY <3>3, <3>4 DEF ToSet
  <2> QED
    BY <1>5, <2>1 DEF Receive, OnItsWay
<1>6. CASE ListenerFails
  <2>1. unheard' = unheard \cup {e.command : e \in
                             {x \in ToSet(wire) : x.type = "command.queued"}}
    BY <1>6 DEF ListenerFails
  <2>2. Queuing(c) \notin ToSet(wire)
    BY <2>1 DEF Queuing
  <2> QED
    BY <1>6, <2>1, <2>2 DEF ListenerFails, OnItsWay
<1>7. CASE Publish
  BY <1>7 DEF Publish, TypeOK
<1>8. CASE UNCHANGED <<wire, tasks>> /\ unheard \subseteq unheard'
  BY <1>8 DEF OnItsWay
<1> QED
  BY <1>1, <1>2, <1>3, <1>4, <1>5, <1>6, <1>7, <1>8
     DEF Next, RequeueByOtherDevice, ListenAgain, PollStep, BeginPoll,
         FirstClaim, 
     ReadGeneration, SecondClaim, Wake, TimeOut, LastClaim, ClaimNothing, PageStep,
     Connect, Disconnect, Deliver, Load, server, vars

\* A poll begins to wait only when nothing is queued, and sees no generation
\* that is still to come.
LEMMA StillWaiting ==
  ASSUME TypeOK, [Next]_vars, NEW p \in Polls,
         poll'[p].pc = "waiting", poll'[p].seen = generation', Queued # {}
  PROVE  poll[p].pc = "waiting" /\ poll[p].seen = generation /\ generation' = generation
<1>1. CASE Publish
  <2>1. poll' = poll /\ generation' = generation + 1 /\ poll[p].seen \in 0..generation
    BY <1>1 DEF Publish, TypeOK
  <2> QED
    BY <2>1 DEF TypeOK
<1>2. ASSUME NEW r \in Polls, PollStep(r)
      PROVE  poll'[p] = poll[p] /\ generation' = generation
  <2>1. CASE \E to \in {"idle", "first", "reading", "last"}, from \in
               {"idle", "first", "second", "waiting", "last"} : Moves(r, from, to)
    <3>1. r # p
      BY <2>1 DEF Moves, TypeOK
    <3> QED
      BY <1>2, <2>1, <3>1
      DEF PollStep, BeginPoll, FirstClaim, ReadGeneration, SecondClaim, 
         Wake, TimeOut, LastClaim, Claim, ClaimNothing, Moves, TypeOK
  <2>2. CASE ReadGeneration(r)
    BY <2>2 DEF ReadGeneration, TypeOK
  <2> QED
    BY <1>2, <2>1, <2>2
    DEF PollStep, BeginPoll, FirstClaim, SecondClaim, Wake, TimeOut, 
       LastClaim, Claim, ClaimNothing
<1>3. CASE UNCHANGED <<poll, generation>>
  BY <1>3
<1> QED
  BY <1>1, <1>2, <1>3
  DEF Next, CreateDeviceCommand, CommandResult, DeviceTelemetry, 
     RequeueByOtherDevice, Receive, ListenerFails, ListenAgain, PageStep, Connect,
     Disconnect, Deliver, Load, server, vars

LEMMA WakeupStep ==
  ASSUME TypeOK, NoMissedWakeup, [Next]_vars
  PROVE  NoMissedWakeup'
<1> SUFFICES ASSUME NEW p \in Polls, poll'[p].pc = "waiting", poll'[p].seen = generation',
                    NEW c \in Commands, command'[c] = "queued", c \notin unheard'
             PROVE  Queuing(c) \in OnItsWay'
  BY DEF NoMissedWakeup, Queued, Queuing
<1>1. CASE CreateDeviceCommand(c)
  <2>1. Commit(<<Queuing(c)>>) /\ tasks' = tasks
    BY <1>1 DEF CreateDeviceCommand, Queuing
  <2>2. ToSet(<<Queuing(c)>>) = {Queuing(c)}
    BY DEF ToSet
  <2>3. listening
    BY <2>1, <2>2 DEF Commit, Queuing
  <2>4. wire' = Append(wire, Queuing(c))
    BY <2>1, <2>3 DEF Commit, TypeOK
  <2>5. Len(wire) + 1 \in DOMAIN wire' /\ wire'[Len(wire) + 1] = Queuing(c)
    BY <2>4, EventTypes DEF TypeOK
  <2> QED
    BY <2>5 DEF OnItsWay, ToSet
<1>2. CASE command[c] = "queued"
  <2>1. poll[p].pc = "waiting" /\ poll[p].seen = generation /\ generation' = generation
    BY <1>2, StillWaiting DEF Queued
  <2>2. c \notin unheard /\ (Queuing(c) \in OnItsWay => Queuing(c) \in OnItsWay')
    BY <2>1, StillOnItsWay
  <2>3. Queuing(c) \in OnItsWay
    BY <1>2, <2>1, <2>2 DEF NoMissedWakeup, Queued, Queuing
  <2> QED
    BY <2>2, <2>3
<1> QED
  BY <1>1, <1>2, StillQueued

\* While a poll waits, every queued command that the listener was told of still
\* has its wake-up on the way (agent.py, poll_commands).
THEOREM NoWakeupIsMissed == Spec => []NoMissedWakeup
<1>1. Init => NoMissedWakeup
  BY DEF Init, NoMissedWakeup
<1> QED
  BY <1>1, TypeInit, TypeStep, WakeupStep, PTL DEF Spec

-----------------------------------------------------------------------------
(* No page is left with old telemetry. *)

LEMMA ConcatSet ==
  ASSUME NEW s \in Seq(Events), NEW t \in Seq(Events)
  PROVE  ToSet(s \o t) = ToSet(s) \cup ToSet(t)
<1>1. ASSUME NEW i \in DOMAIN s PROVE s[i] \in ToSet(s \o t)
  <2>1. i \in DOMAIN (s \o t) /\ (s \o t)[i] = s[i]
    OBVIOUS
  <2> QED
    BY <2>1 DEF ToSet
<1>2. ASSUME NEW i \in DOMAIN t PROVE t[i] \in ToSet(s \o t)
  <2>1. Len(s) + i \in DOMAIN (s \o t) /\ (s \o t)[Len(s) + i] = t[i]
    OBVIOUS
  <2> QED
    BY <2>1 DEF ToSet
<1>3. ASSUME NEW i \in DOMAIN (s \o t) PROVE (s \o t)[i] \in ToSet(s) \cup ToSet(t)
  <2>1. CASE i <= Len(s)
    <3>1. i \in DOMAIN s /\ (s \o t)[i] = s[i]
      BY <2>1
    <3> QED
      BY <3>1 DEF ToSet
  <2>2. CASE i > Len(s)
    <3>1. i - Len(s) \in DOMAIN t /\ (s \o t)[i] = t[i - Len(s)]
      BY <2>2
    <3> QED
      BY <3>1 DEF ToSet
  <2> QED
    BY <2>1, <2>2
<1> QED
  BY <1>1, <1>2, <1>3 DEF ToSet

LEMMA AppendSet ==
  ASSUME NEW s \in Seq(Events), NEW e \in Events
  PROVE  ToSet(Append(s, e)) = ToSet(s) \cup {e}
<1>1. <<e>> \in Seq(Events) /\ Append(s, e) = s \o <<e>> /\ ToSet(<<e>>) = {e}
  BY DEF ToSet
<1> QED
  BY <1>1, ConcatSet

LEMMA HeadSet ==
  ASSUME NEW s \in Seq(Events), s # <<>>
  PROVE  /\ Head(s) \in Events /\ Tail(s) \in Seq(Events)
         /\ ToSet(s) = {Head(s)} \cup ToSet(Tail(s))
<1>1. Head(s) \in Events /\ Tail(s) \in Seq(Events) /\ s = <<Head(s)>> \o Tail(s)
  OBVIOUS
<1>2. <<Head(s)>> \in Seq(Events) /\ ToSet(<<Head(s)>>) = {Head(s)}
  BY <1>1 DEF ToSet
<1> QED
  BY <1>1, <1>2, ConcatSet

\* What outdates telemetry makes the page load it, and a notice does.
LEMMA TellingEvents ==
  ASSUME NEW e \in Events
  PROVE  /\ "telemetry" \in Outdates(e) => "telemetry" \in Loads(e.type)
         /\ "telemetry" \in Loads(e.type) /\ e.type # Resync.type
              => "telemetry" \in Outdates(e)
         /\ "telemetry" \in Loads(Resync.type) /\ "telemetry" \in Loads("snapshot")
BY DEF Events, Types, Outdates, Loads, Resync

LEMMA TransactionTells ==
  ASSUME PageInv, NEW es \in Seq(Events), \A e \in ToSet(es) : e.type # Resync.type,
         Commit(es), UNCHANGED <<tasks, stream, queue, due>>
  PROVE  NoticesAreLocal' /\ TelemetryTold'
<1>1. wire \in Seq(Events) /\ ToSet(es) \subseteq Events
  BY DEF PageInv, TypeOK, ToSet
<1>2. OnItsWay \subseteq OnItsWay' /\ OnItsWay' \subseteq OnItsWay \cup ToSet(es)
  <2>1. wire' = wire \/ wire' = wire \o es
    BY DEF Commit
  <2>2. ToSet(wire') = ToSet(wire) \/ ToSet(wire') = ToSet(wire) \cup ToSet(es)
    BY <1>1, <2>1, ConcatSet
  <2>3. ToSet(wire) \subseteq ToSet(wire')
    BY <1>1, <2>1, ConcatSet
  <2>4. tasks' = tasks
    OBVIOUS
  <2> QED
    BY <2>2, <2>3, <2>4 DEF OnItsWay
<1>3. NoticesAreLocal'
  BY <1>2 DEF PageInv, NoticesAreLocal, Resync
<1>4. ASSUME NEW s \in Pages, stream[s] = "connected", "telemetry" \in stale'[s],
             "telemetry" \notin missed'[s]
      PROVE  Told(s, "telemetry")'
  <2> DEFINE panes == UNION {Outdates(e) : e \in ToSet(es)}
  <2>1. stale'[s] = stale[s] \cup panes
    BY DEF Commit
  <2>2. /\ missed[s] \subseteq missed'[s]
        /\ ~listening => panes \subseteq missed'[s]
        /\ listening => wire' = wire \o es
    BY DEF Commit, PageInv, TypeOK
  <2>3. CASE "telemetry" \in stale[s]
    <3>1. Told(s, "telemetry")
      BY <1>4, <2>2, <2>3 DEF PageInv, TelemetryTold
    <3> QED
      BY <1>2, <3>1 DEF Told
  <2>4. CASE "telemetry" \in panes
    <3>1. PICK e \in ToSet(es) : "telemetry" \in Outdates(e)
      BY <2>4
    <3>2. e \in ToSet(wire')
      BY <1>1, <1>4, <2>2, <2>4, <3>1, ConcatSet
    <3> QED
      BY <1>1, <3>1, <3>2, TellingEvents DEF Told, OnItsWay
  <2> QED
    BY <1>4, <2>1, <2>3, <2>4
<1> QED
  BY <1>3, <1>4 DEF TelemetryTold

LEMMA QuietTells ==
  ASSUME PageInv, OnItsWay' = OnItsWay, UNCHANGED pages
  PROVE  NoticesAreLocal' /\ TelemetryTold'
BY DEF PageInv, pages, NoticesAreLocal, Resync, TelemetryTold, Told

LEMMA ReceiveTells ==
  ASSUME PageInv, Receive
  PROVE  NoticesAreLocal' /\ TelemetryTold'
<1>1. wire \in Seq(Events) /\ tasks \in Seq(Events) /\ wire # <<>>
  BY DEF Receive, PageInv, TypeOK
<1>2. tasks' = Append(tasks, Head(wire)) /\ wire' = Tail(wire)
  BY DEF Receive
<1>3. Head(wire) \in Events /\ ToSet(wire) = {Head(wire)} \cup ToSet(wire')
  BY <1>1, <1>2, HeadSet
<1>4. ToSet(tasks') = ToSet(tasks) \cup {Head(wire)}
  BY <1>1, <1>2, <1>3, AppendSet
<1>5. OnItsWay' = OnItsWay
  BY <1>3, <1>4 DEF OnItsWay
<1> QED
  BY <1>5, QuietTells DEF Receive

LEMMA FailureTells ==
  ASSUME PageInv, ListenerFails
  PROVE  NoticesAreLocal' /\ TelemetryTold'
<1>1. ToSet(wire') = {} /\ UNCHANGED <<tasks, stream, queue, due, stale>>
  BY DEF ListenerFails, ToSet
<1>2. ToSet(wire) \subseteq Events
  BY DEF PageInv, TypeOK, ToSet
<1>3. NoticesAreLocal'
  BY <1>1 DEF PageInv, NoticesAreLocal, OnItsWay, Resync
<1>4. ASSUME NEW s \in Pages, stream[s] = "connected", "telemetry" \in stale[s],
             "telemetry" \notin missed'[s]
      PROVE  Told(s, "telemetry")'
  <2>1. missed'[s] = missed[s] \cup UNION {Outdates(e) : e \in ToSet(wire)}
    BY DEF ListenerFails
  <2>2. \A e \in ToSet(wire) : "telemetry" \notin Loads(e.type)
    BY <1>2, <1>4, <2>1, TellingEvents DEF PageInv, NoticesAreLocal, OnItsWay
  <2>3. Told(s, "telemetry")
    BY <1>4, <2>1 DEF PageInv, TelemetryTold
  <2> QED
    BY <1>1, <2>2, <2>3 DEF Told, OnItsWay
<1> QED
  BY <1>1, <1>3, <1>4 DEF TelemetryTold

\* An event goes over into the queue of each page, or into the notice of one that
\* is too far behind.
LEMMA PublishTells ==
  ASSUME PageInv, Publish
  PROVE  NoticesAreLocal' /\ TelemetryTold'
<1> DEFINE e == Head(tasks)
<1>1. /\ tasks \in Seq(Events) /\ tasks # <<>> /\ tasks' = Tail(tasks)
      /\ queue \in [Pages -> Seq(Events)]
      /\ UNCHANGED <<wire, stream, due, stale, missed>>
  BY DEF Publish, PageInv, TypeOK
<1>2. e \in Events /\ ToSet(tasks) = {e} \cup ToSet(tasks')
  BY <1>1, HeadSet
<1>3. NoticesAreLocal'
  BY <1>1, <1>2 DEF PageInv, NoticesAreLocal, OnItsWay, Resync
<1>4. ASSUME NEW s \in Pages, stream[s] = "connected", "telemetry" \in stale[s] \ missed[s]
      PROVE  Told(s, "telemetry")'
  <2>1. queue'[s] = Put(queue[s], e) /\ queue[s] \in Seq(Events)
    BY <1>1, <1>4 DEF Publish
  <2>2. Told(s, "telemetry")
    BY <1>4 DEF PageInv, TelemetryTold
  <2>3. CASE Len(queue[s]) = QueueSize
    <3>1. queue'[s] = <<Resync>> /\ Resync \in ToSet(<<Resync>>)
      BY <2>1, <2>3 DEF Put, ToSet
    <3> QED
      BY <1>2, <3>1, TellingEvents DEF Told
  <2>4. CASE Len(queue[s]) # QueueSize
    <3>1. ToSet(queue'[s]) = ToSet(queue[s]) \cup {e}
      BY <1>2, <2>1, <2>4, AppendSet DEF Put
    <3> QED
      BY <1>1, <1>2, <2>2, <3>1 DEF Told, OnItsWay
  <2> QED
    BY <2>3, <2>4
<1> QED
  BY <1>1, <1>3, <1>4 DEF TelemetryTold

LEMMA PageTells ==
  ASSUME PageInv, NEW p \in Pages, PageStep(p)
  PROVE  NoticesAreLocal' /\ TelemetryTold'
<1>1. OnItsWay' = OnItsWay
  BY DEF PageStep, Connect, Disconnect, Deliver, Load, server, OnItsWay
<1>2. NoticesAreLocal'
  BY <1>1 DEF PageInv, NoticesAreLocal, Resync
<1>3. ASSUME NEW s \in Pages, stream'[s] = "connected", "telemetry" \in stale'[s] \ missed'[s]
      PROVE  Told(s, "telemetry")'
  <2>1. CASE UNCHANGED <<stream[s], queue[s], due[s], stale[s], missed[s]>>
    BY <1>1, <1>3, <2>1 DEF PageInv, TelemetryTold, Told
  <2>2. CASE p = s /\ Connect(s)
    <3>1. due'[s] = due[s] \cup Loads("snapshot")
      BY <2>2 DEF Connect, PageInv, TypeOK
    <3>2. "telemetry" \in Loads("snapshot")
      BY DEF Loads
    <3> QED
      BY <3>1, <3>2 DEF Told
  <2>3. CASE p = s /\ Deliver(s)
    <3>1. queue[s] \in Seq(Events) /\ queue[s] # <<>> /\ queue'[s] = Tail(queue[s])
      BY <2>3 DEF Deliver, PageInv, TypeOK
    <3>2. ToSet(queue[s]) = {Head(queue[s])} \cup ToSet(queue'[s])
      BY <3>1, HeadSet
    <3>3. due'[s] = due[s] \cup Loads(Head(queue[s]).type)
      BY <2>3 DEF Deliver, PageInv, TypeOK
    <3>4. Told(s, "telemetry")
      BY <1>3, <2>3 DEF Deliver, PageInv, TelemetryTold
    <3> QED
      BY <1>1, <3>2, <3>3, <3>4 DEF Told
  <2>4. CASE p = s /\ Load(s)
    <3>1. PICK pane \in due[s] : /\ due' = [due EXCEPT ![s] = due[s] \ {pane}]
                                /\ stale' = [stale EXCEPT ![s] = stale[s] \ {pane}]
                                /\ missed' = [missed EXCEPT ![s] = missed[s] \ {pane}]
                                /\ UNCHANGED <<stream, queue>>
      BY <2>4 DEF Load
    <3>2. /\ due'[s] = due[s] \ {pane} /\ stale'[s] = stale[s] \ {pane}
          /\ missed'[s] = missed[s] \ {pane}
      BY <3>1 DEF PageInv, TypeOK
    <3>3. pane # "telemetry" /\ "telemetry" \in stale[s] \ missed[s]
      BY <1>3, <3>2
    <3>4. Told(s, "telemetry")
      BY <1>3, <3>1, <3>3 DEF PageInv, TelemetryTold
    <3> QED
      BY <1>1, <3>1, <3>2, <3>3, <3>4 DEF Told
  <2>5. CASE p = s /\ Disconnect(s)
    BY <1>3, <2>5 DEF Disconnect, PageInv, TypeOK
  <2>6. CASE p # s
    BY <2>1, <2>6 DEF PageStep, Connect, Disconnect, Deliver, Load, PageInv, TypeOK
  <2> QED
    BY <2>2, <2>3, <2>4, <2>5, <2>6 DEF PageStep
<1> QED
  BY <1>2, <1>3 DEF TelemetryTold

LEMMA PageBase == Init => PageInv
<1> SUFFICES ASSUME Init PROVE NoticesAreLocal /\ TelemetryTold
  BY TypeInit DEF PageInv
<1>1. ToSet(<<>>) = {}
  BY DEF ToSet
<1> QED
  BY <1>1 DEF Init, NoticesAreLocal, TelemetryTold, OnItsWay

LEMMA PageInductive == PageInv /\ [Next]_vars => PageInv'
<1> SUFFICES ASSUME PageInv, [Next]_vars PROVE NoticesAreLocal' /\ TelemetryTold'
  BY TypeStep DEF PageInv
<1>1. ASSUME NEW c \in Commands, CreateDeviceCommand(c)
      PROVE  NoticesAreLocal' /\ TelemetryTold'
  <2>1. <<Queuing(c)>> \in Seq(Events) /\ ToSet(<<Queuing(c)>>) = {Queuing(c)}
    BY EventTypes DEF ToSet
  <2>2. Commit(<<Queuing(c)>>) /\ UNCHANGED <<tasks, stream, queue, due>>
    BY <1>1 DEF CreateDeviceCommand, Queuing
  <2>3. \A e \in ToSet(<<Queuing(c)>>) : e.type # Resync.type
    BY <2>1 DEF Queuing, Resync
  <2> QED
    BY <2>1, <2>2, <2>3, TransactionTells
<1>2. ASSUME NEW c \in Commands, CommandResult(c)
      PROVE  NoticesAreLocal' /\ TelemetryTold'
  <2>1. <<StatusChanged>> \in Seq(Events) /\ ToSet(<<StatusChanged>>) = {StatusChanged}
    BY EventTypes DEF ToSet
  <2>2. Commit(<<StatusChanged>>) /\ UNCHANGED <<tasks, stream, queue, due>>
    BY <1>2 DEF CommandResult
  <2>3. \A e \in ToSet(<<StatusChanged>>) : e.type # Resync.type
    BY <2>1 DEF StatusChanged, Resync
  <2> QED
    BY <2>1, <2>2, <2>3, TransactionTells
<1>3. CASE DeviceTelemetry
  <2>1. <<Announcement>> \in Seq(Events) /\ ToSet(<<Announcement>>) = {Announcement}
    BY EventTypes DEF ToSet
  <2>2. Commit(<<Announcement>>) /\ UNCHANGED <<tasks, stream, queue, due>>
    BY <1>3 DEF DeviceTelemetry, Announcement
  <2>3. \A e \in ToSet(<<Announcement>>) : e.type # Resync.type
    BY <2>1 DEF Announcement, Resync
  <2> QED
    BY <2>1, <2>2, <2>3, TransactionTells
<1>4. ASSUME NEW p \in Polls, NEW from, Claim(p, from)
      PROVE  NoticesAreLocal' /\ TelemetryTold'
  <2> DEFINE es == [i \in 1..Cardinality(Queued) |-> StatusChanged]
  <2>1. es \in Seq(Events)
    BY StatusesType DEF Queued
  <2>2. \A e \in ToSet(es) : e.type # Resync.type
    BY DEF ToSet, StatusChanged, Resync
  <2>3. Commit(es) /\ UNCHANGED <<tasks, stream, queue, due>>
    BY <1>4 DEF Claim
  <2> HIDE DEF es
  <2> QED
    BY <2>1, <2>2, <2>3, TransactionTells
<1>5. CASE \E p \in Pages : PageStep(p)
  BY <1>5, PageTells
<1>6. CASE UNCHANGED <<wire, tasks, pages>>
  BY <1>6, QuietTells DEF OnItsWay
<1> QED
  BY <1>1, <1>2, <1>3, <1>4, <1>5, <1>6, ReceiveTells, FailureTells, PublishTells
  DEF Next, RequeueByOtherDevice, ListenAgain, PollStep, BeginPoll, FirstClaim,
      ReadGeneration, SecondClaim, Wake, TimeOut, LastClaim, ClaimNothing, vars, server

\* A connected page whose telemetry is out of date is going to load it, however far
\* it is behind and however often it reconnects (realtime.py, realtime.js).
THEOREM TelemetryIsTold == Spec => []TelemetryTold
<1>1. PageInv => TelemetryTold
  BY DEF PageInv
<1> QED
  BY <1>1, PageBase, PageInductive, PTL DEF Spec

-----------------------------------------------------------------------------
(* Elements of a finite set of numbers in their order. *)

LEMMA RankType ==
  ASSUME NEW S \in SUBSET Nat, IsFiniteSet(S), NEW i \in Nat
  PROVE  /\ IsFiniteSet({j \in S : j <= i})
         /\ Rank(S, i) \in 0..Cardinality(S)
         /\ Cardinality(S) \in Nat
<1>1. {j \in S : j <= i} \in SUBSET S
  OBVIOUS
<1> QED
  BY <1>1, FS_Subset, FS_CardinalityType DEF Rank

LEMMA RankGrows ==
  ASSUME NEW S \in SUBSET Nat, IsFiniteSet(S), NEW i \in Nat, NEW k \in S, i < k
  PROVE  Rank(S, i) < Rank(S, k)
<1> DEFINE A == {j \in S : j <= i}
           B == {j \in S : j <= k}
<1>1. A \in SUBSET B /\ A # B
  <2>1. k \in B /\ k \notin A
    OBVIOUS
  <2>2. ASSUME NEW j \in A PROVE j \in B
    <3>1. j \in Nat /\ k \in Nat /\ j <= i
      OBVIOUS
    <3> QED
      BY <3>1
  <2> QED
    BY <2>1, <2>2
<1>2. IsFiniteSet(B) /\ IsFiniteSet(A)
  BY RankType
<1>3. Cardinality(A) <= Cardinality(B) /\ Cardinality(A) # Cardinality(B)
  BY <1>1, <1>2, FS_Subset
<1>4. Cardinality(A) \in Nat /\ Cardinality(B) \in Nat
  BY <1>2, FS_CardinalityType
<1> QED
  BY <1>3, <1>4 DEF Rank

LEMMA RankOf ==
  ASSUME NEW S \in SUBSET Nat, IsFiniteSet(S), NEW i \in S
  PROVE  Rank(S, i) \in 1..Cardinality(S)
<1>1. i \in {j \in S : j <= i}
  OBVIOUS
<1>2. i \in Nat
  OBVIOUS
<1>3. Rank(S, i) \in 0..Cardinality(S) /\ Cardinality(S) \in Nat
  BY <1>2, RankType
<1>4. IsFiniteSet({j \in S : j <= i})
  BY <1>2, RankType
<1>5. Rank(S, i) # 0
  BY <1>1, <1>4, FS_EmptySet DEF Rank
<1> QED
  BY <1>3, <1>5

\* Of two elements the lesser one has the lesser rank.
LEMMA RanksDiffer ==
  ASSUME NEW S \in SUBSET Nat, IsFiniteSet(S), NEW i \in S, NEW k \in S,
         Rank(S, i) = Rank(S, k)
  PROVE  i = k
<1>1. i \in Nat /\ k \in Nat
  OBVIOUS
<1>2. Rank(S, i) \in Nat /\ Rank(S, k) \in Nat
  BY RankOf, FS_CardinalityType
<1>3. ~(i < k)
  <2> SUFFICES ASSUME i < k PROVE FALSE
    OBVIOUS
  <2>1. Rank(S, i) < Rank(S, k)
    BY <1>1, RankGrows
  <2> QED
    BY <1>2, <2>1
<1>4. ~(k < i)
  <2> SUFFICES ASSUME k < i PROVE FALSE
    OBVIOUS
  <2>1. Rank(S, k) < Rank(S, i)
    BY <1>1, RankGrows
  <2> QED
    BY <1>2, <2>1
<1> QED
  BY <1>1, <1>3, <1>4

\* Ranks are all the numbers up to the cardinality: they differ, and there are
\* as many of them.
LEMMA NthOf ==
  ASSUME NEW S \in SUBSET Nat, IsFiniteSet(S), NEW n \in 1..Cardinality(S)
  PROVE  Nth(S, n) \in S /\ Rank(S, Nth(S, n)) = n
<1> DEFINE T == 1..Cardinality(S)
           f == [i \in S |-> Rank(S, i)]
<1>1. Cardinality(S) \in Nat
  BY FS_CardinalityType
<1>2. IsFiniteSet(T) /\ Cardinality(T) = Cardinality(S)
  BY <1>1, FS_Interval
<1>3. f \in [S -> T]
  BY RankOf
<1>4. \A i, k \in S : f[i] = f[k] => i = k
  BY RanksDiffer
<1>5. f \in Injection(S, T)
  BY <1>3, <1>4 DEF Injection, IsInjective
<1> HIDE DEF f, T
<1>6. f \in Surjection(S, T)
  BY <1>2, <1>5, FS_Injection
<1>7. \E i \in S : f[i] = n
  BY <1>6 DEF Surjection, T
<1> QED
  BY <1>7 DEF f, Nth

LEMMA NthOfRank ==
  ASSUME NEW S \in SUBSET Nat, IsFiniteSet(S), NEW i \in S
  PROVE  Nth(S, Rank(S, i)) = i
<1> DEFINE k == Nth(S, Rank(S, i))
<1>1. k \in S /\ Rank(S, k) = Rank(S, i)
  BY RankOf, NthOf
<1> HIDE DEF k
<1>2. k = i
  BY <1>1, RanksDiffer
<1> QED
  BY <1>2 DEF k

LEMMA MaxOf ==
  ASSUME NEW S \in SUBSET Nat, IsFiniteSet(S), S # {}
  PROVE  Max(S) \in S /\ \A j \in S : j <= Max(S)
<1>1. Cardinality(S) \in Nat \ {0}
  BY FS_CardinalityType, FS_EmptySet
<1> DEFINE m == Nth(S, Cardinality(S))
<1>2. m \in S /\ Rank(S, m) = Cardinality(S)
  BY <1>1, NthOf
<1>3. \A j \in S : j <= m
  <2> SUFFICES ASSUME NEW j \in S, ~(j <= m) PROVE FALSE
    OBVIOUS
  <2> HIDE DEF m
  <2>1. j \in Nat /\ m \in Nat /\ m < j
    BY <1>2
  <2>2. Rank(S, m) < Rank(S, j)
    BY <2>1, RankGrows
  <2>3. Rank(S, j) <= Cardinality(S)
    BY <1>1, RankOf
  <2>4. Rank(S, j) \in Nat
    BY <1>1, RankOf
  <2> QED
    BY <1>1, <1>2, <2>2, <2>3, <2>4
<1> HIDE DEF m
<1> QED
  BY <1>2, <1>3 DEF Max

-----------------------------------------------------------------------------
(* Type correctness. *)

\* What the frames in S carry is read from frames of S, in the order of S.
LEMMA ContentsOf ==
  ASSUME NEW S \in SUBSET Nat, IsFiniteSet(S), NEW V,
         \A i \in S : log[i].number \in V
  PROVE  /\ Contents(S) \in Seq(V)
         /\ Len(Contents(S)) = Cardinality(S) /\ Cardinality(S) \in Nat
         /\ \A n \in 1..Cardinality(S) : Contents(S)[n] = log[Nth(S, n)].number
<1>1. Cardinality(S) \in Nat
  BY FS_CardinalityType
<1>2. \A n \in 1..Cardinality(S) : log[Nth(S, n)].number \in V
  BY NthOf
<1> QED
  BY <1>1, <1>2 DEF Contents

LEMMA StoredFrames ==
  ASSUME TerminalTypeOK, Bounds, NEW direction, NEW n \in Nat
  PROVE  /\ After(direction, n) \in SUBSET (1..Len(log)) /\ IsFiniteSet(After(direction, n))
         /\ Served \in SUBSET (1..Len(log)) /\ IsFiniteSet(Served)
         /\ Keys \in SUBSET (1..Len(log)) /\ IsFiniteSet(Keys)
         /\ 1..Len(log) \in SUBSET Nat
         /\ Served \cap Keys \in SUBSET Served /\ IsFiniteSet(Served \cap Keys)
         /\ TypedKeys \in Nat
<1>0. Len(log) \in Nat
  BY DEF TerminalTypeOK
<1>1. IsFiniteSet(1..Len(log)) /\ 1..Len(log) \in SUBSET Nat
  BY <1>0, FS_Interval
<1>2. After(direction, n) \in SUBSET (1..Len(log))
  BY DEF After, TerminalTypeOK
<1>3. Served \in SUBSET (1..Len(log))
  BY DEF Served, After, TerminalTypeOK
<1>4. Keys \in SUBSET (1..Len(log))
  BY DEF Keys, TerminalTypeOK
<1>5. IsFiniteSet(After(direction, n)) /\ IsFiniteSet(Served) /\ IsFiniteSet(Keys)
  BY <1>1, <1>2, <1>3, <1>4, FS_Subset
<1>6. IsFiniteSet(Served \cap Keys)
  BY <1>5, FS_Subset
<1> QED
  BY <1>1, <1>2, <1>3, <1>4, <1>5, <1>6, FS_CardinalityType DEF TypedKeys

LEMMA TypedType == ASSUME TerminalTypeOK, Bounds PROVE TypedKeys \in Nat
BY StoredFrames

LEMMA FrameTypes ==
  /\ Close \in Frames
  /\ \A k \in 1..MaxKeys : Key(k) \in Frames
  /\ \A n \in 1..MaxOutput : Output(n) \in Frames
  /\ \A f \in Frames : f.direction = "up" => f.number \in 1..MaxOutput /\ f = Output(f.number)
  /\ \A f \in Frames : IsKey(f) => f.number \in 1..MaxKeys /\ f.direction = "down"
<1>1. /\ Close \in Frames
      /\ \A k \in 1..MaxKeys : Key(k) \in Frames
      /\ \A n \in 1..MaxOutput : Output(n) \in Frames
  BY DEF Frames
<1>2. ASSUME NEW f \in Frames
      PROVE  /\ f.direction = "up" => f.number \in 1..MaxOutput /\ f = Output(f.number)
             /\ IsKey(f) => f.number \in 1..MaxKeys /\ f.direction = "down"
  <2>1. CASE f = Close
    BY <2>1 DEF Close, IsKey
  <2>2. ASSUME NEW k \in 1..MaxKeys, f = Key(k) PROVE f.direction = "down" /\ f.number = k
    BY <2>2 DEF Key
  <2>3. ASSUME NEW n \in 1..MaxOutput, f = Output(n)
        PROVE  f.direction = "up" /\ f.number = n
    BY <2>3 DEF Output
  <2> QED
    BY <2>1, <2>2, <2>3 DEF Frames, Close, IsKey, IsDown
<1> QED
  BY <1>1, <1>2

LEMMA TerminalTypeInit == ASSUME Bounds, NEW status \in Active \cup Final, New(status) PROVE TerminalTypeOK
<1>1. request \in [{"put", "late"} -> [step : Steps, chunk : Chunks]]
  BY DEF New, NoRequest, Steps, Chunks, Bounds
<1>2. log \in Seq(Frames) /\ shown \in Seq(1..MaxOutput) /\ received \in Seq(1..MaxKeys)
      /\ Len(log) = 0
  BY DEF New
<1>3. writing \in [Handlers -> Active \cup Final \cup {"none", "same"}]
  BY DEF New
<1>4. /\ kept = 1 /\ seen = 0 /\ cursor = 0 /\ produced = 0 /\ losses = 0
      /\ session \in Active \cup Final /\ socket = "open" /\ supervisor = "none"
      /\ active = FALSE /\ downReady = FALSE /\ upReady = FALSE /\ idle = FALSE /\ silent = FALSE
      /\ launch = "none" /\ outcome = "running"
  BY DEF New
<1>5. 0 \in 0..MaxOutput /\ 0 \in 0..MaxLosses
  BY DEF Bounds
<1>6. kept \in 1..(Len(log) + 1) /\ seen \in 0..Len(log) /\ cursor \in 0..Len(log)
  BY <1>2, <1>4
<1>7. produced \in Chunks /\ losses \in 0..MaxLosses
  BY <1>4, <1>5 DEF Chunks
<1> QED
  BY <1>1, <1>2, <1>3, <1>4, <1>6, <1>7 DEF TerminalTypeOK

\* A frame is stored behind the others.
LEMMA StoreType ==
  ASSUME TerminalTypeOK, NEW f \in Frames, Store(f), UNCHANGED kept \/ Trim, Bounds
  PROVE  /\ log' \in Seq(Frames) /\ Len(log') = Len(log) + 1 /\ idle' = FALSE
         /\ \A i \in 1..Len(log) : log'[i] = log[i]
         /\ log'[Len(log) + 1] = f
         /\ kept' \in 1..(Len(log') + 1) /\ kept <= kept'
         /\ seen \in 0..Len(log') /\ cursor \in 0..Len(log')
<1>1. log \in Seq(Frames) /\ log' = Append(log, f)
  BY DEF TerminalTypeOK, Store
<1>2. /\ log' \in Seq(Frames) /\ Len(log') = Len(log) + 1
      /\ \A i \in 1..Len(log) : log'[i] = log[i]
      /\ log'[Len(log) + 1] = f
  BY <1>1
<1>3. Len(log) \in Nat /\ kept \in 1..(Len(log) + 1) /\ MaxFrames \in Nat
      /\ seen \in 0..Len(log) /\ cursor \in 0..Len(log)
  BY DEF TerminalTypeOK, Bounds
<1>4. kept' \in 1..(Len(log') + 1) /\ kept <= kept'
  BY <1>2, <1>3 DEF Trim
<1>5. seen \in 0..Len(log') /\ cursor \in 0..Len(log')
  BY <1>2, <1>3
<1> QED
  BY <1>2, <1>4, <1>5 DEF Store

LEMMA BrowserType ==
  ASSUME TerminalTypeOK, Bounds,
         TypeKey \/ ShowOutput \/ LeaveTerminal \/ ServerStops \/ BrowserEnds
  PROVE  TerminalTypeOK'
<1> USE DEF row, frames, browser, down, up, start
<1>1. CASE TypeKey
  <2>1. CASE session \in Final
    BY <1>1, <2>1 DEF TypeKey, TerminalTypeOK
  <2>2. CASE session \notin Final
    <3>1. TypedKeys + 1 \in 1..MaxKeys
      BY <1>1, TypedType DEF TypeKey, Bounds
    <3>2. Store(Key(TypedKeys + 1)) /\ UNCHANGED kept
      BY <1>1, <2>2 DEF TypeKey
    <3>3. /\ log' \in Seq(Frames) /\ kept' \in 1..(Len(log') + 1) /\ idle' = FALSE
          /\ seen \in 0..Len(log') /\ cursor \in 0..Len(log')
      BY <3>1, <3>2, StoreType, FrameTypes
    <3> QED
      BY <1>1, <2>2, <3>3 DEF TypeKey, TerminalTypeOK
  <2> QED
    BY <2>1, <2>2
<1>2. CASE ShowOutput
  <2> DEFINE new == After("up", seen)
  <2>1. CASE new = {}
    BY <1>2, <2>1 DEF ShowOutput, TerminalTypeOK
  <2>2. CASE new # {}
    <3>1. new \in SUBSET (1..Len(log)) /\ IsFiniteSet(new) /\ new \in SUBSET Nat
      BY StoredFrames DEF TerminalTypeOK
    <3>2. Max(new) \in 0..Len(log)
      BY <2>2, <3>1, MaxOf DEF TerminalTypeOK
    <3>3. \A i \in new : log[i].number \in 1..MaxOutput
      BY <3>1, FrameTypes DEF TerminalTypeOK, After
    <3>4. Contents(new) \in Seq(1..MaxOutput)
      BY <3>1, <3>3, ContentsOf
    <3>5. seen' = Max(new) /\ shown' = shown \o Contents(new)
          /\ UNCHANGED <<socket, row, frames, down, up, start, active, losses>>
      BY <1>2, <2>2 DEF ShowOutput
    <3>6. shown' \in Seq(1..MaxOutput)
      BY <3>4, <3>5 DEF TerminalTypeOK
    <3> QED
      BY <3>2, <3>5, <3>6 DEF TerminalTypeOK
  <2> QED
    BY <2>1, <2>2
<1>3. CASE LeaveTerminal
  BY <1>3 DEF LeaveTerminal, TerminalTypeOK
<1>4. CASE ServerStops
  <2>0. NoRequest \in [step : Steps, chunk : Chunks]
    BY DEF NoRequest, Steps, Chunks, Bounds
  <2>1. [request["put"] EXCEPT !.step = "refused"] \in [step : Steps, chunk : Chunks]
    BY DEF TerminalTypeOK, Steps
  <2>3. request' \in [{"put", "late"} -> [step : Steps, chunk : Chunks]]
    BY <1>4, <2>0, <2>1 DEF ServerStops
  <2>2. losses' \in 0..MaxLosses /\ writing' \in [Handlers -> Active \cup Final \cup {"none", "same"}]
    BY <1>4 DEF ServerStops, TerminalTypeOK, Bounds
  <2> QED
    BY <1>4, <2>3, <2>2 DEF ServerStops, TerminalTypeOK
<1>5. CASE CloseRead
  BY <1>5 DEF CloseRead, ReadStatus, TerminalTypeOK, Handlers, Final
<1>6. CASE CloseWrite
  <2>1. Store(Close) /\ UNCHANGED kept
    BY <1>6 DEF CloseWrite
  <2>2. /\ log' \in Seq(Frames) /\ kept' \in 1..(Len(log') + 1) /\ idle' = FALSE
        /\ seen \in 0..Len(log') /\ cursor \in 0..Len(log')
    BY <2>1, StoreType, FrameTypes
  <2>3. /\ session' \in Active \cup Final
        /\ writing' \in [Handlers -> Active \cup Final \cup {"none", "same"}]
    BY <1>6 DEF CloseWrite, WriteStatus, TerminalTypeOK, Handlers
  <2> QED
    BY <1>6, <2>2, <2>3 DEF CloseWrite, TerminalTypeOK
<1> QED
  BY <1>1, <1>2, <1>3, <1>4, <1>5, <1>6 DEF BrowserEnds

LEMMA SupervisorType ==
  ASSUME TerminalTypeOK, Bounds,
         \/ Cleanup \/ HandleCommand \/ Post \/ PostLost \/ TransportReady \/ StartFails
         \/ ShellExits \/ CommandEnds \/ CommandTimesOut
  PROVE  TerminalTypeOK'
<1> USE DEF row, frames, browser, down, up, start
<1>0. CASE HalfHour
  BY <1>0 DEF HalfHour, TerminalTypeOK
<1>1. CASE CleanupRead
  BY <1>1 DEF CleanupRead, ReadStatus, TerminalTypeOK, Handlers, Final
<1>2. CASE CleanupWrite
  BY <1>2 DEF CleanupWrite, WriteStatus, TerminalTypeOK, Handlers
<1>3. CASE HandleCommand
  BY <1>3 DEF HandleCommand, TerminalTypeOK
<1>4. CASE PostStatus
  BY <1>4 DEF PostStatus, ReadStatus, TerminalTypeOK, Handlers, Final, Active
<1>5. CASE PostIsWritten
  <2>1. /\ session' \in Active \cup Final
        /\ writing' \in [Handlers -> Active \cup Final \cup {"none", "same"}]
    BY <1>5 DEF PostIsWritten, WriteStatus, TerminalTypeOK, Handlers
  <2>2. supervisor' \in {"none", "announcing", "starting", "ready", "failing", "stopping", "ended"}
    BY <1>5 DEF PostIsWritten, TerminalTypeOK
  <2>3. active' \in BOOLEAN
    BY <1>5 DEF PostIsWritten, TerminalTypeOK
  <2> QED
    BY <1>5, <2>1, <2>2, <2>3 DEF PostIsWritten, TerminalTypeOK
<1>6. CASE PostLost
  <2>1. losses' \in 0..MaxLosses
    BY <1>6 DEF PostLost, TerminalTypeOK, Bounds
  <2>2. active' = FALSE /\ supervisor' = "ended"
        /\ UNCHANGED <<row, frames, browser, down, up, launch, outcome>>
    BY <1>6 DEF PostLost
  <2> QED
    BY <2>1, <2>2 DEF TerminalTypeOK
<1>7. CASE PostRefused \/ TransportReady \/ StartFails
  BY <1>7 DEF PostRefused, TransportReady, StartFails, TerminalTypeOK
<1>8. CASE ShellExits \/ CommandEnds \/ CommandTimesOut
  BY <1>8 DEF ShellExits, CommandEnds, CommandTimesOut, TerminalTypeOK
<1> QED
  BY <1>0, <1>1, <1>2, <1>3, <1>4, <1>5, <1>6, <1>7, <1>8 DEF Cleanup, Post

LEMMA DownType ==
  ASSUME TerminalTypeOK, Bounds, AgentTerminalDown
  PROVE  TerminalTypeOK'
<1> USE DEF row, frames, browser, down, up, start
<1>1. /\ Served \in SUBSET Nat /\ IsFiniteSet(Served) /\ Served \in SUBSET (1..Len(log))
      /\ Served \cap Keys \in SUBSET Nat /\ IsFiniteSet(Served \cap Keys)
  BY StoredFrames
<1>2. cursor' \in 0..Len(log)
  BY <1>1, MaxOf, SMTT(20) DEF AgentTerminalDown, TerminalTypeOK
<1>3. \A i \in Served \cap Keys : log[i].number \in 1..MaxKeys
  BY <1>1, FrameTypes DEF TerminalTypeOK, Keys
<1>4. Contents(Served \cap Keys) \in Seq(1..MaxKeys)
  BY <1>1, <1>3, ContentsOf
<1>5. received' \in Seq(1..MaxKeys)
  <2>1. received' = received \o Contents(Served \cap Keys) /\ received \in Seq(1..MaxKeys)
    BY DEF AgentTerminalDown, TerminalTypeOK
  <2> QED
    BY <1>4, <2>1
<1>6. active' \in BOOLEAN /\ downReady' \in BOOLEAN
  BY DEF AgentTerminalDown
<1>7. UNCHANGED <<row, frames, browser, up, start, losses>>
  BY DEF AgentTerminalDown
<1> QED
  BY <1>2, <1>5, <1>6, <1>7 DEF TerminalTypeOK

\* A request that moves on keeps its chunk; a status that is read or written is one.
LEMMA MovedType ==
  ASSUME TerminalTypeOK, NEW h \in {"put", "late"}, NEW step \in Steps, Moved(h, step)
  PROVE  request' \in [{"put", "late"} -> [step : Steps, chunk : Chunks]]
<1>1. /\ request \in [{"put", "late"} -> [step : Steps, chunk : Chunks]]
      /\ request' = [request EXCEPT ![h].step = step]
  BY DEF TerminalTypeOK, Moved
<1> QED
  BY <1>1

LEMMA ReadType ==
  ASSUME TerminalTypeOK, NEW h \in Handlers, NEW new \in Active \cup Final, ReadStatus(h, new)
  PROVE  writing' \in [Handlers -> Active \cup Final \cup {"none", "same"}]
<1>1. /\ writing \in [Handlers -> Active \cup Final \cup {"none", "same"}]
      /\ writing' = [writing EXCEPT ![h] = IF new = session THEN "same" ELSE new]
  BY DEF TerminalTypeOK, ReadStatus
<1> QED
  BY <1>1

LEMMA WriteType ==
  ASSUME TerminalTypeOK, NEW h \in Handlers, WriteStatus(h)
  PROVE  /\ session' \in Active \cup Final
         /\ writing' \in [Handlers -> Active \cup Final \cup {"none", "same"}]
<1>1. /\ session \in Active \cup Final
      /\ writing \in [Handlers -> Active \cup Final \cup {"none", "same"}]
  BY DEF TerminalTypeOK
<1>2. /\ writing[h] # "none"
      /\ session' = IF writing[h] = "same" THEN session ELSE writing[h]
      /\ writing' = [writing EXCEPT ![h] = "none"]
  BY DEF WriteStatus
<1>3. writing[h] \in Active \cup Final \cup {"same"}
  BY <1>1, <1>2
<1> QED
  BY <1>1, <1>2, <1>3

LEMMA UploadType ==
  ASSUME TerminalTypeOK, Bounds, NEW h \in {"put", "late"}, Upload(h),
         request[h].step = "append" => request[h].chunk # 0
  PROVE  TerminalTypeOK'
<1> USE DEF row, frames, browser, down, up, start
<1>0. h \in Handlers /\ "connected" \in Active \cup Final
  BY DEF Handlers, Active
<1>1. CASE UpCheck(h)
  <2>1. request' \in [{"put", "late"} -> [step : Steps, chunk : Chunks]]
    <3>1. \E step \in Steps : Moved(h, step)
      BY <1>1 DEF UpCheck, Steps
    <3> QED
      BY <3>1, MovedType
  <2>2. writing' \in [Handlers -> Active \cup Final \cup {"none", "same"}]
    <3>1. UNCHANGED writing \/ ReadStatus(h, "connected")
      BY <1>1 DEF UpCheck
    <3>2. CASE UNCHANGED writing
      BY <3>2 DEF TerminalTypeOK
    <3> QED
      BY <1>0, <3>1, <3>2, ReadType
  <2>3. UNCHANGED <<session, frames, browser, down, upReady, produced, silent, start, active, losses>>
    BY <1>1 DEF UpCheck
  <2> QED
    BY <2>1, <2>2, <2>3 DEF TerminalTypeOK
<1>2. CASE UpConnect(h)
  <2>1. request' \in [{"put", "late"} -> [step : Steps, chunk : Chunks]]
    <3>1. \E step \in Steps : Moved(h, step)
      BY <1>2 DEF UpConnect, Steps
    <3> QED
      BY <3>1, MovedType
  <2>2. /\ session' \in Active \cup Final
        /\ writing' \in [Handlers -> Active \cup Final \cup {"none", "same"}]
    BY <1>0, <1>2, WriteType DEF UpConnect
  <2>3. UNCHANGED <<frames, browser, down, upReady, produced, silent, start, active, losses>>
    BY <1>2 DEF UpConnect
  <2> QED
    BY <2>1, <2>2, <2>3 DEF TerminalTypeOK
<1>3. CASE UpStore(h)
  <2>1. CASE session \in Final
    <3>1. request' \in [{"put", "late"} -> [step : Steps, chunk : Chunks]]
      <4>1. Moved(h, "refused") /\ "refused" \in Steps
        BY <1>3, <2>1 DEF UpStore, Steps
      <4> QED
        BY <4>1, MovedType
    <3>2. UNCHANGED <<row, frames, browser, down, upReady, produced, silent, start, active, losses>>
      BY <1>3, <2>1 DEF UpStore
    <3> QED
      BY <3>1, <3>2 DEF TerminalTypeOK
  <2>2. CASE session \notin Final
    <3>1. request[h].chunk \in 1..MaxOutput
      BY <1>3, SMTT(20) DEF UpStore, TerminalTypeOK, Chunks, Bounds
    <3>2. Store(Output(request[h].chunk)) /\ Trim
      BY <1>3, <2>2 DEF UpStore
    <3>3. /\ log' \in Seq(Frames) /\ kept' \in 1..(Len(log') + 1) /\ idle' = FALSE
          /\ seen \in 0..Len(log') /\ cursor \in 0..Len(log')
      BY <3>1, <3>2, StoreType, FrameTypes
    <3>4. request' \in [{"put", "late"} -> [step : Steps, chunk : Chunks]]
      <4>1. Moved(h, "answer") /\ "answer" \in Steps
        BY <1>3, <2>2 DEF UpStore, Steps
      <4> QED
        BY <4>1, MovedType
    <3>5. UNCHANGED <<row, browser, down, upReady, produced, silent, start, active, losses>>
      BY <1>3 DEF UpStore
    <3> QED
      BY <3>3, <3>4, <3>5 DEF TerminalTypeOK
  <2> QED
    BY <2>1, <2>2
<1> QED
  BY <1>1, <1>2, <1>3 DEF Upload

LEMMA AgentUpType ==
  ASSUME TerminalTypeOK, Bounds, SendUp \/ UpEnds \/ UpTimesOut \/ LateEnds
  PROVE  TerminalTypeOK'
<1> USE DEF row, frames, browser, down, up, start
<1>1. CASE SendUp
  <2>1. produced' \in Chunks
    BY <1>1, SMTT(20) DEF SendUp, TerminalTypeOK, Chunks, Bounds
  <2>2. Request(produced') \in [step : Steps, chunk : Chunks]
    BY <2>1 DEF Request, Steps
  <2>3. request' = [request EXCEPT !["put"] = Request(produced')]
        /\ request \in [{"put", "late"} -> [step : Steps, chunk : Chunks]]
    BY <1>1 DEF SendUp, TerminalTypeOK
  <2>4. request' \in [{"put", "late"} -> [step : Steps, chunk : Chunks]]
    BY <2>2, <2>3
  <2>5. UNCHANGED <<row, frames, browser, down, upReady, silent, start, active, losses>>
    BY <1>1 DEF SendUp
  <2> QED
    BY <2>1, <2>4, <2>5 DEF TerminalTypeOK
<1>2. NoRequest \in [step : Steps, chunk : Chunks] /\ Again \in [step : Steps, chunk : Chunks]
  BY DEF NoRequest, Again, Request, TerminalTypeOK, Chunks, Steps, Bounds
<1>3. CASE UpAnswered
  BY <1>2, <1>3 DEF UpAnswered, TerminalTypeOK
<1>4. CASE UpFails
  BY <1>2, <1>4 DEF UpFails, TerminalTypeOK, Bounds
<1>5. CASE UpTimesOut
  <2>1. writing' \in [Handlers -> Active \cup Final \cup {"none", "same"}]
    BY <1>5 DEF UpTimesOut, TerminalTypeOK, Handlers
  <2>2. request' \in [{"put", "late"} -> [step : Steps, chunk : Chunks]]
    BY <1>2, <1>5 DEF UpTimesOut, TerminalTypeOK
  <2>3. losses' \in 0..MaxLosses
    BY <1>5 DEF UpTimesOut, TerminalTypeOK, Bounds
  <2>4. UNCHANGED <<session, frames, browser, down, upReady, produced, silent, start, active>>
    BY <1>5 DEF UpTimesOut
  <2> QED
    BY <2>1, <2>2, <2>3, <2>4 DEF TerminalTypeOK
<1>6. CASE LateEnds
  BY <1>2, <1>6 DEF LateEnds, TerminalTypeOK
<1> QED
  BY <1>1, <1>3, <1>4, <1>5, <1>6 DEF UpEnds

LEMMA TerminalTypeStep ==
  ASSUME TerminalTypeOK, Bounds, RequestsInOrder, [TerminalNext]_terminalVars
  PROVE  TerminalTypeOK'
<1>1. ASSUME NEW h \in {"put", "late"}, Upload(h) PROVE TerminalTypeOK'
  <2>1. request[h].step = "append" => request[h].chunk # 0
    BY DEF RequestsInOrder
  <2> QED
    BY <1>1, <2>1, UploadType
<1>2. CASE UNCHANGED terminalVars
  BY <1>2 DEF terminalVars, row, frames, browser, down, up, start, TerminalTypeOK
<1>3. CASE PrintsOn \/ FallSilent
  BY <1>3 DEF PrintsOn, FallSilent, row, frames, browser, down, up, start, TerminalTypeOK
<1> QED
  BY <1>1, <1>2, <1>3, BrowserType, SupervisorType, DownType, AgentUpType DEF TerminalNext

-----------------------------------------------------------------------------
(* The result of the command is true. *)

LEMMA OutcomeInit == ASSUME NEW status, New(status) PROVE Decisions /\ AnnouncedFirst /\ Supervised
BY DEF New, Decisions, AnnouncedFirst, Supervised, Quiet, NoRequest, Handlers

\* A status that no handler is about to take back to "connecting" stays settled.
LEMMA SettledStays ==
  ASSUME OutcomeInv, NEW h \in Handlers, WriteStatus(h), Settled, writing[h] # "connecting"
  PROVE  Settled'
BY DEF OutcomeInv, Decisions, WriteStatus, Settled, Final, Handlers

\* Steps that leave the row, the requests and the supervisor alone.
LEMMA RestOutcome ==
  ASSUME OutcomeInv, UNCHANGED <<row, request, upReady, start, active>>
  PROVE  Decisions' /\ AnnouncedFirst' /\ Supervised'
BY DEF OutcomeInv, row, start, Decisions, AnnouncedFirst, Supervised, Quiet, Settled

\* A handler decides what it is going to write.
LEMMA ReadOutcome ==
  ASSUME OutcomeInv, CleanupRead \/ CloseRead \/ PostStatus
  PROVE  Decisions' /\ AnnouncedFirst' /\ Supervised'
<1> USE DEF row, frames, browser, down, up, start, Final, Handlers
<1>1. /\ UNCHANGED <<session, up, start, active>>
      /\ writing' = writing
         \/ \E h \in {"cleanup", "browser", "supervisor"}, w \in {"closed", "expired", "failed", "connecting", "same"} :
              /\ writing' = [writing EXCEPT ![h] = w]
              /\ h = "cleanup" => w \in {"expired", "same"}
              /\ h = "browser" => w \in {"closed", "same"}
              /\ h = "supervisor" /\ w = "connecting" => supervisor = "announcing"
              /\ h = "supervisor" => w # "expired"
  BY DEF CleanupRead, CloseRead, PostStatus, ReadStatus
<1>2. writing \in [Handlers -> Active \cup Final \cup {"none", "same"}]
  BY DEF OutcomeInv, TerminalTypeOK
<1>3. writing'["put"] = writing["put"] /\ writing'["late"] = writing["late"]
  BY <1>1, <1>2
<1>4. writing'["supervisor"] = "connecting" =>
        writing["supervisor"] = "connecting" \/ supervisor = "announcing"
  BY <1>1, <1>2
<1>5. Decisions'
  BY <1>1, <1>2 DEF OutcomeInv, Decisions
<1>6. AnnouncedFirst'
  BY <1>1, <1>3, <1>4 DEF OutcomeInv, AnnouncedFirst, Quiet, Settled
<1> QED
  BY <1>1, <1>5, <1>6 DEF OutcomeInv, Supervised

\* What a handler writes lets what was found stay as it is.
LEMMA WriteOutcome ==
  ASSUME OutcomeInv, CleanupWrite \/ CloseWrite \/ PostIsWritten
  PROVE  Decisions' /\ AnnouncedFirst' /\ Supervised'
<1> USE DEF row, frames, browser, down, up, start
<1>1. PICK h \in {"cleanup", "browser", "supervisor"} :
        WriteStatus(h) /\ (h # "supervisor" => UNCHANGED <<start, active>>)
        /\ (h = "supervisor" => PostIsWritten)
  BY DEF CleanupWrite, CloseWrite, PostIsWritten
<1>2. UNCHANGED <<up, launch, outcome>>
  BY DEF CleanupWrite, CloseWrite, PostIsWritten
<1>3. writing' = [writing EXCEPT ![h] = "none"] /\ h \in Handlers
  BY <1>1 DEF WriteStatus, Handlers
<1>4. writing \in [Handlers -> Active \cup Final \cup {"none", "same"}]
  BY DEF OutcomeInv, TerminalTypeOK
<1>5. Decisions'
  BY <1>3, <1>4 DEF OutcomeInv, Decisions, Handlers
<1>6. writing'["put"] = writing["put"] /\ writing'["late"] = writing["late"]
      /\ (writing'["supervisor"] = "connecting" => writing["supervisor"] = "connecting" /\ h # "supervisor")
  BY <1>1, <1>3, <1>4 DEF Handlers
<1>7. supervisor' # supervisor \/ active' # active => h = "supervisor"
  BY <1>1
<1>8. AnnouncedFirst'
  <2>1. CASE writing[h] = "connecting"
    <3>1. Quiet /\ h = "supervisor"
      BY <1>1, <2>1 DEF OutcomeInv, Decisions, AnnouncedFirst
    <3>2. writing'["supervisor"] = "none"
      BY <1>3, <1>4, <3>1 DEF Handlers
    <3> QED
      BY <1>2, <1>6, <3>1, <3>2 DEF AnnouncedFirst, Quiet, NoRequest
  <2>2. CASE writing[h] # "connecting"
    <3>1. Settled => Settled'
      BY <1>1, <1>3, <2>2, SettledStays
    <3>2. supervisor' \in {"none", "announcing"} => supervisor' = supervisor
      BY <1>1 DEF PostIsWritten
    <3>3. writing'["supervisor"] = "connecting" => supervisor' = supervisor
      BY <1>1, <1>6
    <3> QED
      BY <1>2, <1>6, <3>1, <3>2, <3>3 DEF OutcomeInv, AnnouncedFirst, Quiet
  <2> QED
    BY <2>1, <2>2
<1>9. Supervised'
  <2>1. CASE h = "supervisor"
    <3>1. /\ supervisor = "announcing" => supervisor' = "starting"
          /\ supervisor \in {"failing", "stopping"} => supervisor' = "ended"
          /\ supervisor \notin {"announcing", "failing", "stopping"} => supervisor' = supervisor
          /\ active' = (active /\ supervisor # "failing")
      BY <1>1, <2>1 DEF PostIsWritten
    <3>2. active \in BOOLEAN
      BY DEF OutcomeInv, TerminalTypeOK
    <3>3. active' => active /\ supervisor # "failing"
      BY <3>1
    <3> QED
      BY <1>2, <3>1, <3>3 DEF OutcomeInv, Supervised
  <2>2. CASE h # "supervisor"
    BY <1>1, <1>2, <2>2 DEF OutcomeInv, Supervised
  <2> QED
    BY <2>1, <2>2
<1> QED
  BY <1>5, <1>8, <1>9

\* Steps of the supervisor and of the handler of its command.
LEMMA SupervisorOutcome ==
  ASSUME OutcomeInv,
         \/ HandleCommand \/ PostLost \/ PostRefused \/ TransportReady \/ StartFails
         \/ ShellExits \/ CommandEnds \/ CommandTimesOut
  PROVE  Decisions' /\ AnnouncedFirst' /\ Supervised'
<1> USE DEF row, frames, browser, down, up, start
<1>1. UNCHANGED <<row, up>>
  BY DEF HandleCommand, PostLost, PostRefused, TransportReady, StartFails, ShellExits,
         CommandEnds, CommandTimesOut
<1>2. /\ supervisor' \in {"none", "announcing"} => supervisor \in {"none", "announcing"}
      /\ supervisor = "ended" => supervisor' = "ended"
      /\ supervisor' # supervisor /\ supervisor = "announcing" => supervisor' = "ended"
  BY DEF HandleCommand, PostLost, PostRefused, TransportReady, StartFails, ShellExits,
         CommandEnds, CommandTimesOut
<1>3. Decisions'
  BY <1>1 DEF OutcomeInv, Decisions
<1>4. AnnouncedFirst'
  BY <1>1, <1>2 DEF OutcomeInv, AnnouncedFirst, Quiet, Settled
<1>5. Supervised'
  BY <1>1 DEF OutcomeInv, Supervised, HandleCommand, PostLost, PostRefused, TransportReady,
         StartFails, ShellExits, CommandEnds, CommandTimesOut
<1> QED
  BY <1>3, <1>4, <1>5

\* Steps of a request on the server.
LEMMA UploadOutcome ==
  ASSUME OutcomeInv, NEW h \in {"put", "late"}, Upload(h)
  PROVE  Decisions' /\ AnnouncedFirst' /\ Supervised'
<1> USE DEF row, frames, browser, down, up, start
<1>1. /\ request \in [{"put", "late"} -> [step : Steps, chunk : Chunks]]
      /\ writing \in [Handlers -> Active \cup Final \cup {"none", "same"}]
  BY DEF OutcomeInv, TerminalTypeOK
<1>2. UNCHANGED <<start, active, upReady>>
  BY DEF Upload, UpCheck, UpConnect, UpStore
<1>3. request[h].step # "none" /\ supervisor \notin {"none", "announcing"}
      /\ writing["supervisor"] # "connecting"
  <2>1. request[h].step # "none"
    BY DEF Upload, UpCheck, UpConnect, UpStore
  <2> QED
    BY <2>1 DEF OutcomeInv, AnnouncedFirst, Quiet, NoRequest
<1>4. CASE UpCheck(h)
  <2>1. session' = session /\ writing'["supervisor"] = writing["supervisor"]
    BY <1>1, <1>4 DEF UpCheck, ReadStatus, Handlers
  <2>2. ASSUME NEW g \in {"put", "late"}
        PROVE  /\ request'[g].step \in {"append", "answer"} => request[g].step \in {"append", "answer"}
               /\ writing'[g] = "same" => writing[g] = "same" \/ session = "connected"
    BY <1>1, <1>4 DEF UpCheck, Moved, ReadStatus, Handlers, Steps
  <2>3. ASSUME NEW g \in {"put", "late"},
               writing'[g] = "same" \/ request'[g].step \in {"append", "answer"}
        PROVE  Settled
    <3>1. writing[g] = "same" \/ request[g].step \in {"append", "answer"} \/ session = "connected"
      BY <2>2, <2>3
    <3> QED
      BY <3>1 DEF OutcomeInv, AnnouncedFirst, Settled
  <2>4. supervisor' = supervisor /\ upReady' = upReady
    BY <1>2
  <2>5. AnnouncedFirst'
    BY <1>3, <2>1, <2>3, <2>4 DEF OutcomeInv, AnnouncedFirst, Settled
  <2>6. Decisions'
    BY <1>1, <1>4 DEF UpCheck, ReadStatus, OutcomeInv, Decisions, Handlers
  <2> QED
    BY <1>2, <2>5, <2>6 DEF OutcomeInv, Supervised
<1>5. CASE UpConnect(h)
  <2>1. writing[h] \in {"same", "connected"} /\ WriteStatus(h) /\ h \in Handlers
    BY <1>5 DEF UpConnect, WriteStatus, OutcomeInv, Decisions, Handlers
  <2>2. Settled'
    BY <2>1 DEF WriteStatus, OutcomeInv, AnnouncedFirst, Settled, Final
  <2>3. Decisions' /\ writing'["supervisor"] = writing["supervisor"]
    BY <1>1, <2>1 DEF WriteStatus, OutcomeInv, Decisions, Handlers
  <2> QED
    BY <1>2, <1>3, <2>2, <2>3 DEF OutcomeInv, AnnouncedFirst, Supervised
<1>6. CASE UpStore(h)
  <2>1. Settled /\ UNCHANGED row
    BY <1>6 DEF UpStore, OutcomeInv, AnnouncedFirst
  <2>2. Settled' /\ Decisions'
    BY <2>1 DEF OutcomeInv, Settled, Decisions
  <2> QED
    BY <1>2, <1>3, <2>1, <2>2 DEF OutcomeInv, AnnouncedFirst, Supervised
<1> QED
  BY <1>4, <1>5, <1>6 DEF Upload

\* Steps of the loops.
LEMMA LoopOutcome ==
  ASSUME OutcomeInv, AgentTerminalDown \/ SendUp \/ UpEnds \/ UpTimesOut \/ LateEnds
  PROVE  Decisions' /\ AnnouncedFirst' /\ Supervised'
<1> USE DEF row, frames, browser, down, up, start
<1>1. /\ request \in [{"put", "late"} -> [step : Steps, chunk : Chunks]]
      /\ writing \in [Handlers -> Active \cup Final \cup {"none", "same"}]
  BY DEF OutcomeInv, TerminalTypeOK
<1>2. CASE AgentTerminalDown
  <2>1. active /\ UNCHANGED <<row, up, start>>
    BY <1>2 DEF AgentTerminalDown, LoopsRun
  <2> QED
    BY <2>1 DEF OutcomeInv, Decisions, AnnouncedFirst, Supervised, Quiet, Settled
<1>3. CASE SendUp
  <2>1. /\ supervisor \in {"starting", "ready", "failing"}
        /\ UNCHANGED <<row, upReady, start, active>>
        /\ request' = [request EXCEPT !["put"] = Request(produced')]
    BY <1>3 DEF SendUp, LoopsRun
  <2>2. \A g \in {"put", "late"} :
          request'[g].step \in {"append", "answer"} => request[g].step = request'[g].step
    BY <1>1, <2>1 DEF Request
  <2>3. writing["supervisor"] # "connecting"
    BY <2>1 DEF OutcomeInv, AnnouncedFirst
  <2> QED
    BY <2>1, <2>2, <2>3 DEF OutcomeInv, Decisions, AnnouncedFirst, Supervised, Settled
<1>4. CASE UpEnds \/ UpTimesOut \/ LateEnds
  <2>1. ~Quiet
    BY <1>4 DEF UpEnds, UpAnswered, UpFails, UpTimesOut, LateEnds, Quiet, NoRequest
  <2>2. supervisor \notin {"none", "announcing"} /\ writing["supervisor"] # "connecting"
    BY <2>1 DEF OutcomeInv, AnnouncedFirst
  <2>3. UNCHANGED <<session, start, active>> /\ writing'["supervisor"] = writing["supervisor"]
    BY <1>1, <1>4 DEF UpEnds, UpAnswered, UpFails, UpTimesOut, LateEnds, Handlers
  <2>4. upReady' => Settled
    BY <1>4 DEF UpEnds, UpAnswered, UpFails, UpTimesOut, LateEnds, OutcomeInv, AnnouncedFirst
  <2>5. upReady => upReady'
    BY <1>4 DEF UpEnds, UpAnswered, UpFails, UpTimesOut, LateEnds
  <2>6. Again.step \notin {"append", "answer"} /\ NoRequest.step \notin {"append", "answer"}
    BY DEF Again, Request, NoRequest
  <2>7. \A g \in {"put", "late"} :
          writing'[g] = "same" \/ request'[g].step \in {"append", "answer"} => Settled
    BY <1>1, <1>4, <2>6 DEF UpEnds, UpAnswered, UpFails, UpTimesOut, LateEnds,
                            OutcomeInv, AnnouncedFirst, Handlers
  <2>8. Decisions'
    BY <1>1, <1>4 DEF UpEnds, UpAnswered, UpFails, UpTimesOut, LateEnds,
                      OutcomeInv, Decisions, Handlers
  <2>9. Supervised'
    BY <2>3, <2>5 DEF OutcomeInv, Supervised
  <2> QED
    BY <2>2, <2>3, <2>4, <2>7, <2>8, <2>9 DEF AnnouncedFirst, Settled
<1> QED
  BY <1>2, <1>3, <1>4

LEMMA OutcomeStep ==
  ASSUME OutcomeInv, [TerminalNext]_terminalVars
  PROVE  Decisions' /\ AnnouncedFirst' /\ Supervised'
<1>1. CASE ServerStops
  <2>1. /\ \A h \in Handlers : writing'[h] = "none"
        /\ \A h \in {"put", "late"} : request'[h].step \notin {"append", "answer"}
        /\ request["put"] = NoRequest => request'["put"] = NoRequest
        /\ request'["late"] = NoRequest
        /\ UNCHANGED <<session, upReady, start, active>>
    BY <1>1 DEF ServerStops, NoRequest, OutcomeInv, TerminalTypeOK, Handlers
  <2> QED
    BY <2>1 DEF OutcomeInv, Decisions, AnnouncedFirst, Supervised, Quiet, Settled, start, Handlers
<1>2. CASE UNCHANGED <<row, request, upReady, start, active>>
  BY <1>2, RestOutcome
<1>3. CASE \/ TypeKey \/ ShowOutput \/ LeaveTerminal \/ HalfHour \/ PrintsOn \/ FallSilent
           \/ UNCHANGED terminalVars
  BY <1>2, <1>3
  DEF TypeKey, ShowOutput, LeaveTerminal, HalfHour, PrintsOn, FallSilent, terminalVars, row, up
<1> QED
  BY <1>1, <1>3, ReadOutcome, WriteOutcome, SupervisorOutcome, UploadOutcome, LoopOutcome
  DEF TerminalNext, Cleanup, BrowserEnds, Post

LEMMA OutcomeFollows == OutcomeInv => OutcomeIsTrue
BY DEF OutcomeInv, AnnouncedFirst, Supervised, OutcomeIsTrue, SuccessIsConnected,
       FailedLeavesNothing, Settled

-----------------------------------------------------------------------------
(* Output keeps its order. *)

LEMMA OutputInit ==
  ASSUME NEW status, New(status)
  PROVE  LogInOrder /\ RequestsInOrder /\ SeenIsShown /\ OutputInOrder
<1>1. DOMAIN log = {} /\ DOMAIN shown = {}
  BY DEF New
<1>2. \A h \in {"put", "late"} : request[h] = NoRequest
  BY DEF New
<1> QED
  BY <1>1, <1>2 DEF New, LogInOrder, RequestsInOrder, SeenIsShown, OutputInOrder, NoRequest

LEMMA EarlierFrame ==
  ASSUME NEW k \in Nat, NEW m \in Nat, NEW l \in Nat, k <= m, k <= l + 1, NEW j \in 1..(k - 1)
  PROVE  j \in 1..l /\ j \in 1..(m - 1)
OBVIOUS

\* A stored frame leaves what was stored, seen and shown as it was.
LEMMA StoreOutput ==
  ASSUME OutputInv, Bounds, NEW f \in Frames, Store(f), UNCHANGED kept \/ Trim,
         UNCHANGED <<seen, shown>>,
         f.direction = "up" => \A n \in 1..(f.number - 1) : Stored(n)
  PROVE  /\ \A n \in Int : Stored(n) => Stored(n)'
         /\ f.direction = "up" => Stored(f.number)'
         /\ LogInOrder' /\ SeenIsShown' /\ OutputInOrder'
<1>1. /\ log' \in Seq(Frames) /\ Len(log') = Len(log) + 1
      /\ \A i \in 1..Len(log) : log'[i] = log[i]
      /\ log'[Len(log) + 1] = f
      /\ kept <= kept'
  BY StoreType DEF OutputInv
<1>2. /\ log \in Seq(Frames) /\ kept \in 1..(Len(log) + 1) /\ kept' \in 1..(Len(log') + 1)
      /\ seen \in 0..Len(log)
  BY StoreType DEF OutputInv, TerminalTypeOK
<1>3. Len(log) \in Nat /\ DOMAIN log = 1..Len(log) /\ DOMAIN log' = 1..(Len(log) + 1)
  BY <1>1, <1>2
<1>4. \A n \in Int : Stored(n) => Stored(n)'
  BY <1>1, <1>3 DEF Stored
<1>5. f.direction = "up" => Stored(f.number)'
  BY <1>1, <1>3, FrameTypes DEF Stored
<1>6. ASSUME NEW i \in DOMAIN log', NEW n \in 1..(log'[i].number - 1), log'[i].direction = "up"
      PROVE  \E j \in 1..(i - 1) : log'[j] = Output(n)
  <2>1. CASE i \in DOMAIN log
    <3>1. \E j \in 1..(i - 1) : log[j] = Output(n)
      BY <1>1, <1>3, <1>6, <2>1 DEF OutputInv, LogInOrder
    <3> QED
      BY <1>1, <1>3, <2>1, <3>1
  <2>2. CASE i = Len(log) + 1
    <3>1. Stored(n)
      BY <1>1, <1>6, <2>2
    <3> QED
      BY <1>1, <1>3, <2>2, <3>1 DEF Stored
  <2> QED
    BY <1>3, <2>1, <2>2
<1>7. SeenIsShown'
  <2> SUFFICES ASSUME NEW i \in DOMAIN log', i <= seen, log'[i].direction = "up", ~(i < kept')
               PROVE  \E k \in DOMAIN shown : shown[k] = log'[i].number
    BY DEF SeenIsShown
  <2>1. i \in DOMAIN log /\ log'[i] = log[i] /\ ~(i < kept)
    BY <1>1, <1>2, <1>3
  <2> QED
    BY <2>1 DEF OutputInv, SeenIsShown
<1>8. OutputInOrder'
  <2> SUFFICES ASSUME NEW i \in DOMAIN shown, NEW n \in 1..(shown[i] - 1),
                      ~(\E j \in 1..(i - 1) : shown[j] = n)
               PROVE  \E j \in 1..(kept' - 1) : log'[j] = Output(n)
    BY DEF OutputInOrder
  <2>1. PICK j \in 1..(kept - 1) : log[j] = Output(n)
    BY DEF OutputInv, OutputInOrder
  <2>2. j \in 1..Len(log) /\ j \in 1..(kept' - 1)
    <3>1. kept \in Nat /\ kept' \in Nat /\ kept <= kept' /\ kept <= Len(log) + 1 /\ Len(log) \in Nat
      BY <1>1, <1>2, <1>3
    <3> QED
      BY <2>1, <3>1, EarlierFrame
  <2>3. log'[j] = Output(n)
    BY <1>1, <2>1, <2>2
  <2> QED
    BY <2>2, <2>3
<1>9. LogInOrder'
  BY <1>6 DEF LogInOrder
<1> QED
  BY <1>4, <1>5, <1>7, <1>8, <1>9

\* What the browser is shown next follows what it has been shown.
LEMMA ShowOutputOrder ==
  ASSUME OutputInv, Bounds, ShowOutput
  PROVE  SeenIsShown' /\ OutputInOrder'
<1> DEFINE new == After("up", seen)
<1>1. UNCHANGED <<log, kept>>
  BY DEF ShowOutput, frames
<1>2. CASE new = {}
  <2>1. UNCHANGED <<seen, shown>>
    BY <1>2 DEF ShowOutput
  <2> QED
    BY <1>1, <2>1 DEF OutputInv, SeenIsShown, OutputInOrder
<1>3. CASE new # {}
  <2>1. seen' = Max(new) /\ shown' = shown \o Contents(new)
    BY <1>3 DEF ShowOutput
  <2>2. new \in SUBSET (1..Len(log)) /\ IsFiniteSet(new) /\ new \in SUBSET Nat
        /\ shown \in Seq(1..MaxOutput) /\ log \in Seq(Frames) /\ seen \in Nat /\ kept \in Nat
    BY StoredFrames DEF OutputInv, TerminalTypeOK
  <2>3. \A i \in new : log[i].number \in 1..MaxOutput /\ log[i] = Output(log[i].number)
    BY <2>2, FrameTypes DEF After
  <2> HIDE DEF new
  <2> DEFINE c == Cardinality(new)
             m == Len(shown)
  <2>4. /\ Contents(new) \in Seq(1..MaxOutput) /\ Len(Contents(new)) = c /\ c \in Nat
        /\ \A n \in 1..c : Contents(new)[n] = log[Nth(new, n)].number
    BY <2>2, <2>3, ContentsOf
  <2>5. /\ m \in Nat /\ Len(shown') = m + c /\ DOMAIN shown' = 1..(m + c)
        /\ \A k \in 1..m : shown'[k] = shown[k]
        /\ \A n \in 1..c : shown'[m + n] = log[Nth(new, n)].number
    <3> DEFINE t == Contents(new)
    <3>1. shown \in Seq(1..MaxOutput) /\ t \in Seq(1..MaxOutput) /\ Len(t) = c
      BY <2>2, <2>4
    <3>2. \A n \in 1..c : t[n] = log[Nth(new, n)].number
      BY <2>4
    <3>3. shown' = shown \o t
      BY <2>1
    <3> HIDE DEF t, c
    <3>4. /\ m \in Nat /\ Len(shown') = m + c /\ DOMAIN shown' = 1..(m + c)
          /\ \A k \in 1..m : shown'[k] = shown[k]
          /\ \A k \in 1..c : shown'[m + k] = t[k]
      <4>1. /\ m \in Nat /\ Len(shown \o t) = m + Len(t)
            /\ DOMAIN (shown \o t) = 1..(m + Len(t))
            /\ \A k \in 1..m : (shown \o t)[k] = shown[k]
            /\ \A k \in 1..Len(t) : (shown \o t)[m + k] = t[k]
        BY <3>1
      <4> HIDE DEF m
      <4> QED
        BY <3>1, <3>3, <4>1
    <3> QED
      BY <3>2, <3>4
  <2>6. \A i \in new : /\ Rank(new, i) \in 1..c
                      /\ shown'[m + Rank(new, i)] = log[i].number
    BY <2>2, <2>5, RankOf, NthOfRank
  <2>7. SeenIsShown'
    <3> SUFFICES ASSUME NEW i \in DOMAIN log, i <= seen', log[i].direction = "up", ~(i < kept)
                 PROVE  \E k \in DOMAIN shown' : shown'[k] = log[i].number
      BY <1>1 DEF SeenIsShown
    <3>1. i \in 1..Len(log) /\ i \in Nat
      BY <2>2
    <3>2. CASE i <= seen
      <4>1. PICK k \in DOMAIN shown : shown[k] = log[i].number
        BY <3>2 DEF OutputInv, SeenIsShown
      <4>2. k \in 1..m
        BY <2>2, <4>1
      <4>3. k \in DOMAIN shown' /\ shown'[k] = shown[k]
        BY <2>4, <2>5, <4>2
      <4> QED
        BY <4>1, <4>3
    <3>3. CASE i > seen
      <4>1. i \in new
        BY <2>2, <3>1, <3>3 DEF After, new
      <4>2. Rank(new, i) \in 1..c /\ shown'[m + Rank(new, i)] = log[i].number
        BY <2>6, <4>1
      <4>3. m + Rank(new, i) \in DOMAIN shown'
        BY <2>4, <2>5, <4>2
      <4> QED
        BY <4>2, <4>3
    <3> QED
      BY <2>2, <3>1, <3>2, <3>3
  <2>8. OutputInOrder'
    <3> SUFFICES ASSUME NEW k \in DOMAIN shown', NEW n \in 1..(shown'[k] - 1),
                        ~(\E j \in 1..(kept - 1) : log[j] = Output(n))
                 PROVE  \E j \in 1..(k - 1) : shown'[j] = n
      BY <1>1 DEF OutputInOrder
    <3>1. CASE k \in 1..m
      <4>1. shown'[k] = shown[k] /\ k \in DOMAIN shown
        BY <2>2, <2>5, <3>1
      <4>2. PICK j \in 1..(k - 1) : shown[j] = n
        BY <4>1 DEF OutputInv, OutputInOrder
      <4>3. j \in 1..m
        BY <2>5, <3>1
      <4> QED
        BY <2>5, <4>2, <4>3
    <3>2. CASE k \notin 1..m
      <4>1. PICK r \in 1..c : k = m + r
        <5>1. k - m \in 1..c /\ k = m + (k - m)
          BY <2>4, <2>5, <3>2
        <5> QED
          BY <5>1
      <4> DEFINE i == Nth(new, r)
      <4>2. i \in new /\ Rank(new, i) = r
        BY <2>2, NthOf
      <4>3. shown'[k] = log[i].number
        BY <2>5, <4>1
      <4> HIDE DEF i
      <4>4. i \in DOMAIN log /\ log[i].direction = "up" /\ i \in Nat
        BY <2>2, <4>2 DEF new, After
      <4>5. PICK j \in 1..(i - 1) : log[j] = Output(n)
        BY <4>3, <4>4 DEF OutputInv, LogInOrder
      <4>6. log[j].direction = "up" /\ log[j].number = n /\ j \in 1..Len(log) /\ j \in Nat
            /\ ~(j < kept)
        BY <2>2, <4>4, <4>5 DEF Output
      <4>7. CASE j <= seen
        <5>1. PICK l \in DOMAIN shown : shown[l] = n
          BY <2>2, <4>6, <4>7 DEF OutputInv, SeenIsShown
        <5>2. l \in 1..m /\ l \in 1..(k - 1)
          BY <2>2, <2>5, <4>1
        <5> QED
          BY <2>5, <5>1, <5>2
      <4>8. CASE j > seen
        <5>1. j \in new
          BY <2>2, <4>6, <4>8 DEF new, After
        <5>2. Rank(new, j) < r /\ Rank(new, j) \in 1..c /\ shown'[m + Rank(new, j)] = n
          <6>1. j \in Nat /\ i \in new /\ j < i
            BY <4>2, <4>4, <4>5
          <6>2. Rank(new, j) < Rank(new, i)
            <7> new \in SUBSET Nat /\ IsFiniteSet(new)
              BY <2>2
            <7> QED
              BY <6>1, RankGrows
          <6>3. Rank(new, j) \in 1..c /\ shown'[m + Rank(new, j)] = log[j].number
            BY <2>6, <5>1
          <6> QED
            BY <4>2, <4>6, <6>2, <6>3
        <5>3. m + Rank(new, j) \in 1..(k - 1)
          BY <2>4, <2>5, <4>1, <5>2
        <5> QED
          BY <5>2, <5>3
      <4> QED
        BY <2>2, <4>6, <4>7, <4>8
    <3> QED
      BY <3>1, <3>2
  <2> QED
    BY <2>7, <2>8
<1> QED
  BY <1>2, <1>3

LEMMA QuietOutput ==
  ASSUME OutputInv, UNCHANGED <<log, kept, seen, shown>>
  PROVE  /\ LogInOrder' /\ SeenIsShown' /\ OutputInOrder'
         /\ \A n \in Int : Stored(n) => Stored(n)'
BY DEF OutputInv, LogInOrder, SeenIsShown, OutputInOrder, Stored

\* Steps that send nothing: what was stored stays so.
LEMMA QuietRequests ==
  ASSUME OutputInv, UNCHANGED <<request, upReady, produced>>, \A n \in Int : Stored(n) => Stored(n)',
         active' => active \/ ~upReady, supervisor' = "none" => supervisor = "none"
  PROVE  RequestsInOrder'
<1>1. /\ produced \in Int /\ \A h \in {"put", "late"} : request[h].chunk \in Int
      /\ UNCHANGED <<request, upReady, produced>>
  BY DEF OutputInv, TerminalTypeOK, Chunks
<1>2. ASSUME NEW h \in {"put", "late"}
      PROVE  /\ request[h].chunk <= produced
             /\ \A n \in 1..(request[h].chunk - 1) : Stored(n)'
             /\ request[h].step = "append" => request[h].chunk # 0
  BY <1>1 DEF OutputInv, RequestsInOrder
<1>3. request["put"].step = "answer" => \A n \in 1..request["put"].chunk : Stored(n)'
  BY <1>1 DEF OutputInv, RequestsInOrder
<1>4. active' /\ request["put"] = NoRequest => \A n \in 1..produced : Stored(n)'
  BY <1>1 DEF OutputInv, RequestsInOrder
<1>5. /\ request["put"] # NoRequest => request["put"].chunk = produced
      /\ supervisor' = "none" => ~upReady /\ request["put"] = NoRequest
      /\ ~upReady => produced = 0
  BY DEF OutputInv, RequestsInOrder
<1> QED
  BY <1>1, <1>2, <1>3, <1>4, <1>5 DEF RequestsInOrder

LEMMA BrowserOutput ==
  ASSUME OutputInv, Bounds, TypeKey \/ CloseWrite
  PROVE  LogInOrder' /\ RequestsInOrder' /\ SeenIsShown' /\ OutputInOrder'
<1>1. UNCHANGED <<request, upReady, produced, start, active, seen, shown, kept>>
  BY DEF TypeKey, CloseWrite, up
<1>2. supervisor' = supervisor /\ active' = active
  BY <1>1 DEF start
<1>3. CASE UNCHANGED log
  BY <1>1, <1>2, <1>3, QuietOutput, QuietRequests
<1>4. ASSUME NEW f \in Frames, Store(f), f.direction = "down"
      PROVE  LogInOrder' /\ RequestsInOrder' /\ SeenIsShown' /\ OutputInOrder'
  <2>1. /\ LogInOrder' /\ SeenIsShown' /\ OutputInOrder'
        /\ \A n \in Int : Stored(n) => Stored(n)'
    BY <1>1, <1>4, StoreOutput
  <2> QED
    BY <1>1, <1>2, <2>1, QuietRequests
<1>5. CASE CloseWrite
  BY <1>4, <1>5, FrameTypes DEF CloseWrite, Close
<1>6. CASE TypeKey /\ session \notin Final
  <2>1. TypedKeys + 1 \in 1..MaxKeys
    BY <1>6, TypedType DEF TypeKey, Bounds, OutputInv
  <2>2. Key(TypedKeys + 1) \in Frames /\ Key(TypedKeys + 1).direction = "down"
    BY <2>1, FrameTypes DEF Key
  <2> QED
    BY <1>4, <1>6, <2>2 DEF TypeKey
<1> QED
  BY <1>3, <1>5, <1>6 DEF TypeKey

\* Steps of a request on the server: a chunk is stored when the earlier ones are.
LEMMA UploadOutput ==
  ASSUME OutputInv, Bounds, NEW h \in {"put", "late"}, Upload(h)
  PROVE  LogInOrder' /\ RequestsInOrder' /\ SeenIsShown' /\ OutputInOrder'
<1>1. request \in [{"put", "late"} -> [step : Steps, chunk : Chunks]] /\ produced \in Int
      /\ \A c \in Chunks : c \in Nat
  BY DEF OutputInv, TerminalTypeOK, Chunks, Bounds
<1>2. UNCHANGED <<upReady, produced, active, seen, shown>> /\ supervisor' = supervisor
  BY DEF Upload, UpCheck, UpConnect, UpStore, browser, start
<1>3. PICK step \in {"refused", "connect", "append", "answer"}, c \in Chunks :
        c = request[h].chunk /\ request' = [request EXCEPT ![h] = [step |-> step, chunk |-> c]]
  BY <1>1 DEF Upload, UpCheck, UpConnect, UpStore, Moved
<1>4. /\ c \in Nat /\ c <= produced /\ request[h].step # "none"
      /\ \A n \in 1..(c - 1) : Stored(n)
  BY <1>1, <1>3 DEF OutputInv, RequestsInOrder, Upload, UpCheck, UpConnect, UpStore
\* The requests keep their order if the log keeps what it has and the chunk is stored.
<1>5. ASSUME \A n \in Int : Stored(n) => Stored(n)',
             step = "append" => c # 0,
             step = "answer" => \A n \in 1..c : Stored(n)'
      PROVE  RequestsInOrder'
  <2>1. /\ request'[h] = [step |-> step, chunk |-> c]
        /\ \A g \in {"put", "late"} : g # h => request'[g] = request[g]
    BY <1>1, <1>3
  <2>2. ASSUME NEW g \in {"put", "late"}
        PROVE  /\ request'[g].chunk <= produced
               /\ \A n \in 1..(request'[g].chunk - 1) : Stored(n)'
               /\ request'[g].step = "append" => request'[g].chunk # 0
    <3>1. CASE g = h
      BY <1>4, <1>5, <2>1, <3>1
    <3>2. CASE g # h
      BY <1>1, <1>5, <2>1, <3>2 DEF OutputInv, RequestsInOrder
    <3> QED
      BY <3>1, <3>2
  <2>3. request'["put"].step = "answer" => \A n \in 1..request'["put"].chunk : Stored(n)'
    <3>1. CASE h = "put"
      BY <1>5, <2>1, <3>1
    <3>2. CASE h # "put"
      BY <1>1, <1>5, <2>1, <3>2 DEF OutputInv, RequestsInOrder
    <3> QED
      BY <3>1, <3>2
  <2>4. /\ request'["put"] # NoRequest => request'["put"].chunk = produced
        /\ request'["put"] = NoRequest => request["put"] = NoRequest
    <3>1. CASE h = "put"
      BY <1>3, <1>4, <2>1, <3>1 DEF OutputInv, RequestsInOrder, NoRequest
    <3>2. CASE h # "put"
      BY <2>1, <3>2 DEF OutputInv, RequestsInOrder
    <3> QED
      BY <3>1, <3>2
  <2>5. request["put"] = NoRequest => request'["put"] = NoRequest
    BY <1>4, <2>1 DEF NoRequest
  <2>6. active' /\ request'["put"] = NoRequest => \A n \in 1..produced : Stored(n)'
    BY <1>1, <1>2, <1>5, <2>4 DEF OutputInv, RequestsInOrder
  <2>7. /\ supervisor' = "none" => ~upReady' /\ request'["put"] = NoRequest
        /\ ~upReady' => produced' = 0
    BY <1>2, <2>5 DEF OutputInv, RequestsInOrder
  <2> QED
    BY <1>2, <2>2, <2>3, <2>4, <2>6, <2>7 DEF RequestsInOrder
<1>6. CASE UpStore(h) /\ session \notin Final
  <2>1. c \in 1..MaxOutput
    BY <1>1, <1>3, <1>6 DEF UpStore, OutputInv, RequestsInOrder, Chunks, Bounds
  <2>2. PICK f \in Frames : f = Output(c)
    BY <2>1, FrameTypes
  <2>3. f.direction = "up" /\ f.number = c
    BY <2>2 DEF Output
  <2>4. Store(f) /\ Trim
    BY <1>3, <1>6, <2>2 DEF UpStore
  <2>5. \A n \in 1..(f.number - 1) : Stored(n)
    BY <1>4, <2>3
  <2>6. /\ LogInOrder' /\ SeenIsShown' /\ OutputInOrder'
        /\ \A n \in Int : Stored(n) => Stored(n)'
        /\ f.direction = "up" => Stored(f.number)'
    BY <1>2, <2>4, <2>5, StoreOutput
  <2>7. \A n \in 1..c : Stored(n)'
    <3> SUFFICES ASSUME NEW n \in 1..c PROVE Stored(n)'
      OBVIOUS
    <3>1. n = c \/ n \in 1..(c - 1)
      BY <1>4
    <3> QED
      BY <1>4, <2>3, <2>6, <3>1
  <2>8. step # "append"
    BY <1>1, <1>3, <1>6 DEF UpStore, Moved
  <2> QED
    BY <1>5, <2>6, <2>7, <2>8
<1>7. CASE UNCHANGED frames
  <2>1. /\ LogInOrder' /\ SeenIsShown' /\ OutputInOrder'
        /\ \A n \in Int : Stored(n) => Stored(n)'
    BY <1>2, <1>7, QuietOutput DEF frames
  <2>2. /\ step = "append" => c # 0
        /\ step = "answer" => c = 0
    BY <1>1, <1>3, <1>7 DEF Upload, UpCheck, UpConnect, UpStore, Moved, Store, frames, OutputInv, TerminalTypeOK
  <2> QED
    BY <1>5, <2>1, <2>2
<1> QED
  BY <1>6, <1>7 DEF Upload, UpCheck, UpConnect, UpStore

\* Steps of the upload loop.
LEMMA LoopOutput ==
  ASSUME OutputInv, Bounds, SendUp \/ UpEnds \/ UpTimesOut \/ LateEnds \/ ServerStops
  PROVE  LogInOrder' /\ RequestsInOrder' /\ SeenIsShown' /\ OutputInOrder'
<1>1. request \in [{"put", "late"} -> [step : Steps, chunk : Chunks]] /\ produced \in Nat
      /\ \A c \in Chunks : c \in Nat
  BY DEF OutputInv, TerminalTypeOK, Chunks, Bounds
<1>2. UNCHANGED <<log, kept, seen, shown, active, supervisor>>
  BY DEF SendUp, UpEnds, UpAnswered, UpFails, UpTimesOut, LateEnds, ServerStops, frames, browser, start
<1>3. /\ LogInOrder' /\ SeenIsShown' /\ OutputInOrder'
      /\ \A n \in Int : Stored(n) => Stored(n)'
  BY <1>2, QuietOutput
<1>4. CASE SendUp
  <2>1. /\ request' = [request EXCEPT !["put"] = Request(produced')] /\ upReady' = upReady
        /\ IF upReady THEN produced' = produced + 1 ELSE produced' = produced
        /\ \A n \in 1..produced : Stored(n)
        /\ supervisor # "none" /\ (~upReady => produced = 0)
    BY <1>4 DEF SendUp, LoopsRun, OutputInv, RequestsInOrder
  <2>2. \A n \in 1..(produced' - 1) : Stored(n)'
    BY <1>1, <1>3, <2>1
  <2>3. RequestsInOrder'
    BY <1>1, <1>2, <1>3, <2>1, <2>2 DEF OutputInv, RequestsInOrder, NoRequest, Request
  <2> QED
    BY <1>3, <2>3
<1>5. CASE UpAnswered
  <2>1. /\ request["put"].step = "answer" /\ request["put"] # NoRequest
        /\ request' = [request EXCEPT !["put"] = NoRequest] /\ upReady' = TRUE
        /\ produced' = produced
    BY <1>5 DEF UpAnswered, NoRequest
  <2>2. RequestsInOrder'
    BY <1>1, <1>2, <1>3, <2>1 DEF OutputInv, RequestsInOrder, NoRequest
  <2> QED
    BY <1>3, <2>2
<1>6. CASE UpFails \/ UpTimesOut
  <2>1. /\ request["put"] # NoRequest /\ request'["put"] = Again
        /\ request'["late"] \in {request["late"], request["put"]}
        /\ UNCHANGED <<upReady, produced>>
    BY <1>1, <1>6 DEF UpFails, UpTimesOut, NoRequest
  <2>2. supervisor # "none" /\ request["put"].chunk = produced
    BY <2>1 DEF OutputInv, RequestsInOrder
  <2>3. Again = IF active THEN Request(produced) ELSE NoRequest
    BY <2>2 DEF Again
  <2>4. RequestsInOrder'
    BY <1>1, <1>2, <1>3, <2>1, <2>2, <2>3 DEF OutputInv, RequestsInOrder, NoRequest, Request
  <2> QED
    BY <1>3, <2>4
<1>7. CASE LateEnds \/ ServerStops
  <2>1. /\ request'["late"] = NoRequest /\ UNCHANGED <<upReady, produced>>
        /\ request["put"] = NoRequest => request'["put"] = NoRequest
        /\ request["put"] # NoRequest =>
             \/ request'["put"] = request["put"]
             \/ request'["put"] = [step |-> "refused", chunk |-> request["put"].chunk]
    BY <1>1, <1>7 DEF LateEnds, ServerStops
  <2>2. RequestsInOrder'
    BY <1>1, <1>2, <1>3, <2>1 DEF OutputInv, RequestsInOrder, NoRequest
  <2> QED
    BY <1>3, <2>2
<1> QED
  BY <1>4, <1>5, <1>6, <1>7 DEF UpEnds

LEMMA OutputStep ==
  ASSUME OutputInv, Bounds, [TerminalNext]_terminalVars
  PROVE  LogInOrder' /\ RequestsInOrder' /\ SeenIsShown' /\ OutputInOrder'
<1>1. CASE ShowOutput
  <2>1. UNCHANGED <<log, request, upReady, produced, supervisor, active>>
    BY <1>1 DEF ShowOutput, frames, up, start
  <2>2. LogInOrder' /\ \A n \in Int : Stored(n) => Stored(n)'
    BY <2>1 DEF OutputInv, LogInOrder, Stored
  <2> QED
    BY <1>1, <2>1, <2>2, ShowOutputOrder, QuietRequests
<1>2. CASE /\ UNCHANGED <<log, kept, seen, shown, request, upReady, produced>>
           /\ active' => active \/ ~upReady
           /\ supervisor' = "none" => supervisor = "none"
  BY <1>2, QuietOutput, QuietRequests
<1>3. CASE \/ Cleanup \/ LeaveTerminal \/ CloseRead \/ PostStatus \/ PostRefused
           \/ PostLost \/ TransportReady \/ StartFails \/ ShellExits \/ CommandEnds
           \/ CommandTimesOut \/ PrintsOn \/ FallSilent \/ UNCHANGED terminalVars
  BY <1>2, <1>3 DEF Cleanup, HalfHour, CleanupRead, CleanupWrite, PrintsOn, FallSilent, LeaveTerminal, CloseRead, PostStatus,
         PostRefused, PostLost, TransportReady, StartFails, ShellExits, CommandEnds,
         CommandTimesOut, terminalVars, browser, start, frames, up
<1>4. CASE HandleCommand \/ PostIsWritten \/ AgentTerminalDown
  BY <1>2, <1>4 DEF HandleCommand, PostIsWritten, AgentTerminalDown, LoopsRun, browser, start, frames, up,
         OutputInv, RequestsInOrder
<1> QED
  BY <1>1, <1>3, <1>4, BrowserOutput, UploadOutput, LoopOutput
  DEF TerminalNext, BrowserEnds, Post

-----------------------------------------------------------------------------
(* Keys keep their order: the terminal implements the channel. *)

LEMMA RankSplit ==
  ASSUME NEW S \in SUBSET Nat, IsFiniteSet(S), NEW g \in Nat, NEW m \in Nat, g <= m
  PROVE  /\ Rank(S, m) = Rank(S, g) + Cardinality({j \in S : g < j /\ j <= m})
         /\ IsFiniteSet({j \in S : g < j /\ j <= m})
<1> DEFINE A == {j \in S : j <= g}
           B == {j \in S : g < j /\ j <= m}
           C == {j \in S : j <= m}
<1>1. IsFiniteSet(A) /\ IsFiniteSet(B)
  <2>1. A \in SUBSET S /\ B \in SUBSET S
    OBVIOUS
  <2> QED
    BY <2>1, FS_Subset
<1>2. C = A \cup B /\ A \cap B = {}
  <2>1. ASSUME NEW j \in S PROVE (j \in C <=> j \in A \cup B) /\ ~(j \in A /\ j \in B)
    <3>1. j \in Nat
      OBVIOUS
    <3> QED
      BY <3>1
  <2> QED
    BY <2>1
<1> HIDE DEF A, B, C
<1>3. Cardinality(A) \in Nat /\ Cardinality(B) \in Nat
  BY <1>1, FS_CardinalityType
<1>4. Cardinality(C) = Cardinality(A) + Cardinality(B)
  BY <1>1, <1>2, <1>3, FS_Union, FS_EmptySet
<1> QED
  BY <1>1, <1>4 DEF A, B, C, Rank

\* The frames that the agent has passed, or that were deleted before it could.
Gone == IF cursor < kept THEN kept - 1 ELSE cursor

LEMMA KeyCounts ==
  ASSUME TerminalTypeOK, Bounds
  PROVE  /\ Keys \in SUBSET (1..Len(log)) /\ Keys \in SUBSET Nat /\ IsFiniteSet(Keys)
         /\ Len(log) \in Nat /\ Gone \in 0..Len(log) /\ Gone \in Nat
         /\ DroppedKeys = Rank(Keys, Gone)
         /\ TypedKeys \in Nat /\ DroppedKeys \in 0..TypedKeys
<1>1. /\ Keys \in SUBSET (1..Len(log)) /\ Keys \in SUBSET Nat /\ IsFiniteSet(Keys)
      /\ TypedKeys \in Nat
  BY StoredFrames
<1>2. Len(log) \in Nat /\ kept \in 1..(Len(log) + 1) /\ cursor \in 0..Len(log)
  BY DEF TerminalTypeOK
<1>3. Gone \in 0..Len(log) /\ Gone \in Nat
  BY <1>2 DEF Gone
<1>4. {i \in Keys : i < kept \/ i <= cursor} = {i \in Keys : i <= Gone}
  <2>1. ASSUME NEW i \in Keys PROVE (i < kept \/ i <= cursor) <=> i <= Gone
    <3>1. i \in Nat
      BY <1>1
    <3> QED
      BY <1>2, <3>1 DEF Gone
  <2> QED
    BY <2>1
<1>5. DroppedKeys = Rank(Keys, Gone)
  BY <1>4 DEF DroppedKeys, Rank
<1> QED
  BY <1>1, <1>2, <1>3, <1>5, RankType DEF TypedKeys

\* A stored frame is a key or it is not; the keys before it keep their numbers.
LEMMA StoreKeys ==
  ASSUME KeyInv, Bounds, NEW f \in Frames, Store(f), UNCHANGED kept \/ Trim
  PROVE  /\ IsKey(f) => Keys' = Keys \cup {Len(log) + 1}
         /\ ~IsKey(f) => Keys' = Keys
         /\ \A i \in Keys : log'[i] = log[i]
         /\ log'[Len(log) + 1] = f
<1>1. /\ log' \in Seq(Frames) /\ Len(log') = Len(log) + 1
      /\ \A i \in 1..Len(log) : log'[i] = log[i]
      /\ log'[Len(log) + 1] = f
  BY StoreType DEF KeyInv
<1>2. log \in Seq(Frames) /\ Len(log) \in Nat
  BY DEF KeyInv, TerminalTypeOK
<1>3. DOMAIN log = 1..Len(log) /\ DOMAIN log' = 1..(Len(log) + 1)
  BY <1>1, <1>2
<1>4. 1..(Len(log) + 1) = 1..Len(log) \cup {Len(log) + 1}
  BY <1>2
<1> QED
  BY <1>1, <1>3, <1>4 DEF Keys

LEMMA KeyInit ==
  ASSUME NEW status, New(status)
  PROVE  KeysNumbered /\ Channel!Init
<1>1. Keys = {} /\ {i \in Keys : i < kept \/ i <= cursor} = {} /\ received = <<>>
  BY DEF New, Keys
<1> QED
  BY <1>1, FS_EmptySet DEF KeysNumbered, Channel!Init, TypedKeys, DroppedKeys

\* A key is typed.
LEMMA TypeKeyStep ==
  ASSUME KeyInv, Bounds, TypeKey, session \notin Final
  PROVE  KeysNumbered' /\ Channel!Type
<1>1. PICK f \in Frames : f = Key(TypedKeys + 1)
  <2>1. TypedKeys + 1 \in 1..MaxKeys
    BY TypedType DEF KeyInv, TypeKey, Bounds
  <2> QED
    BY <2>1, FrameTypes
<1>2. Store(f) /\ UNCHANGED <<kept, cursor, received>>
  BY <1>1 DEF TypeKey, down
<1>3. IsKey(f) /\ f.number = TypedKeys + 1
  BY <1>1 DEF Key, IsKey, IsDown
<1>4. PICK l \in Nat : l = Len(log) + 1
  BY KeyCounts DEF KeyInv
<1>5. /\ Keys' = Keys \cup {l} /\ log'[l] = f
      /\ \A i \in Keys : log'[i] = log[i]
  BY <1>2, <1>3, <1>4, StoreKeys
<1>6. /\ Keys \in SUBSET Nat /\ IsFiniteSet(Keys) /\ \A i \in Keys : i < l
      /\ TypedKeys \in Nat /\ Gone < l /\ Gone \in Nat
  BY <1>4, KeyCounts DEF KeyInv
<1>7. Cardinality(Keys') = TypedKeys + 1
  <2>1. l \notin Keys
    BY <1>4, <1>6
  <2> QED
    BY <1>5, <1>6, <2>1, FS_AddElement DEF TypedKeys
<1>8. ASSUME NEW i \in Nat, i < l PROVE Rank(Keys', i) = Rank(Keys, i)
  <2>1. {j \in Keys' : j <= i} = {j \in Keys : j <= i}
    BY <1>5, <1>8
  <2> QED
    BY <2>1 DEF Rank
<1>9. Rank(Keys', l) = TypedKeys + 1
  <2>1. {j \in Keys' : j <= l} = Keys'
    <3>1. \A j \in Keys' : j <= l
      BY <1>4, <1>5, <1>6
    <3> QED
      BY <3>1
  <2> QED
    BY <1>7, <2>1 DEF Rank
<1>10. KeysNumbered'
  <2> SUFFICES ASSUME NEW i \in Keys' PROVE log'[i].number = Rank(Keys', i)
    BY DEF KeysNumbered, Rank
  <2>1. CASE i = l
    BY <1>3, <1>5, <1>9, <2>1
  <2>2. CASE i # l
    <3>1. i \in Keys /\ i \in Nat /\ i < l
      BY <1>5, <1>6, <2>2
    <3> QED
      BY <1>5, <1>8, <3>1 DEF KeyInv, KeysNumbered
  <2> QED
    BY <2>1, <2>2
<1>11. DroppedKeys' = DroppedKeys
  <2>1. {i \in Keys' : i < kept \/ i <= cursor} = {i \in Keys : i < kept \/ i <= cursor}
    <3>1. ~(l < kept \/ l <= cursor)
      BY <1>4 DEF KeyInv, TerminalTypeOK
    <3> QED
      BY <1>5, <3>1
  <2> QED
    BY <1>2, <2>1 DEF DroppedKeys
<1> QED
  BY <1>2, <1>7, <1>10, <1>11 DEF Channel!Type, TypedKeys

\* What is gone, as a bound on numbers.
LEMMA GoneOf ==
  ASSUME NEW k \in Nat \ {0}, NEW c \in Nat
  PROVE  /\ (IF c < k THEN k - 1 ELSE c) \in Nat
         /\ \A i \in Nat : (i < k \/ i <= c) <=> i <= (IF c < k THEN k - 1 ELSE c)
         /\ \A k0 \in Nat \ {0} : k0 <= k =>
              (IF c < k0 THEN k0 - 1 ELSE c) <= (IF c < k THEN k - 1 ELSE c)
OBVIOUS

\* A frame that is no key is stored, and trimming may drop keys.
LEMMA OtherFrameStep ==
  ASSUME KeyInv, Bounds, NEW f \in Frames, ~IsKey(f), Store(f), UNCHANGED kept \/ Trim,
         UNCHANGED <<cursor, received>>, TerminalTypeOK'
  PROVE  KeysNumbered' /\ [Channel!Next]_(Channel!channel)
<1>1. Keys' = Keys /\ \A i \in Keys : log'[i] = log[i]
  BY StoreKeys
<1>2. KeysNumbered'
  BY <1>1 DEF KeyInv, KeysNumbered, Rank
<1>3. TypedKeys' = TypedKeys /\ TypedKeys \in Nat /\ DroppedKeys \in 0..TypedKeys
  BY <1>1, KeyCounts DEF KeyInv, TypedKeys
<1>4. PICK k \in Nat \ {0} : k = kept'
  BY DEF TerminalTypeOK
<1>5. PICK k0 \in Nat \ {0} : k0 = kept /\ k0 <= k
  <2>1. kept \in Nat \ {0}
    BY DEF KeyInv, TerminalTypeOK
  <2>2. kept <= kept'
    BY StoreType DEF KeyInv
  <2> QED
    BY <1>4, <2>1, <2>2
<1>6. PICK c \in Nat : c = cursor /\ c = cursor'
  <2>1. cursor \in Nat
    BY DEF KeyInv, TerminalTypeOK
  <2> QED
    BY <2>1
<1>7. PICK g \in Nat : g = IF c < k THEN k - 1 ELSE c
  BY GoneOf
<1>8. \A i \in Nat : (i < k \/ i <= c) <=> i <= g
  BY <1>7, GoneOf
<1>9. DroppedKeys' = Rank(Keys, g)
  <2>1. {i \in Keys : i < k \/ i <= c} = {i \in Keys : i <= g}
    <3>1. Keys \in SUBSET Nat
      BY KeyCounts DEF KeyInv
    <3> QED
      BY <1>8, <3>1
  <2>2. DroppedKeys' = Cardinality({i \in Keys' : i < kept' \/ i <= cursor'})
    BY DEF DroppedKeys
  <2>3. DroppedKeys' = Cardinality({i \in Keys : i < k \/ i <= c})
    BY <1>1, <1>4, <1>6, <2>2
  <2> QED
    BY <2>1, <2>3 DEF Rank
<1>10. PICK g0 \in Nat : g0 = Gone /\ g0 <= g
  <2>1. Gone = IF c < k0 THEN k0 - 1 ELSE c
    BY <1>5, <1>6 DEF Gone
  <2>2. Gone <= g /\ Gone \in Nat
    BY <1>5, <1>7, <2>1, GoneOf
  <2> QED
    BY <2>2
<1>11. DroppedKeys = Rank(Keys, g0) /\ Keys \in SUBSET Nat /\ IsFiniteSet(Keys)
  BY <1>10, KeyCounts DEF KeyInv
<1> DEFINE B == {j \in Keys : g0 < j /\ j <= g}
<1>12. DroppedKeys' = DroppedKeys + Cardinality(B) /\ IsFiniteSet(B)
  BY <1>9, <1>10, <1>11, RankSplit
<1>13. Cardinality(B) \in Nat /\ DroppedKeys' <= TypedKeys
  <2>1. Cardinality(B) \in Nat
    BY <1>12, FS_CardinalityType
  <2>2. Rank(Keys, g) \in 0..TypedKeys
    BY <1>11, RankType DEF TypedKeys
  <2> QED
    BY <1>3, <1>9, <2>1, <2>2
<1> HIDE DEF B
<1>14. CASE DroppedKeys' = DroppedKeys
  <2>1. received' = received
    OBVIOUS
  <2> QED
    BY <1>2, <1>3, <1>14, <2>1 DEF Channel!channel
<1>15. CASE DroppedKeys' # DroppedKeys
  <2>1. DroppedKeys' \in DroppedKeys + 1 .. TypedKeys /\ DroppedKeys' \in 1..TypedKeys
    BY <1>3, <1>12, <1>13, <1>15
  <2>2. Channel!Drop(DroppedKeys')
    BY <1>3, <2>1 DEF Channel!Drop
  <2>3. Channel!Next
    BY <2>1, <2>2 DEF Channel!Next
  <2> QED
    BY <1>2, <2>3
<1> QED
  BY <1>14, <1>15

\* The agent is given the keys after the last one that is gone.
LEMMA DownStep ==
  ASSUME KeyInv, Bounds, AgentTerminalDown
  PROVE  KeysNumbered' /\ [Channel!Next]_(Channel!channel)
<1> DEFINE keys == Served \cap Keys
<1>1. UNCHANGED <<log, kept>> /\ received' = received \o Contents(keys)
      /\ cursor' = IF Served = {} THEN cursor ELSE Max(Served)
  BY DEF AgentTerminalDown, frames
<1>2. Keys' = Keys /\ TypedKeys' = TypedKeys /\ KeysNumbered'
  BY <1>1 DEF KeyInv, Keys, TypedKeys, KeysNumbered, Rank
<1>3. /\ Keys \in SUBSET (1..Len(log)) /\ Keys \in SUBSET Nat /\ IsFiniteSet(Keys)
      /\ Gone \in Nat /\ DroppedKeys = Rank(Keys, Gone)
      /\ TypedKeys \in Nat /\ DroppedKeys \in 0..TypedKeys
      /\ received \in Seq(1..MaxKeys) /\ kept \in Nat /\ cursor \in Nat /\ Len(log) \in Nat
  BY KeyCounts DEF KeyInv, TerminalTypeOK
<1>4. CASE Served = {}
  <2>1. keys = {} /\ cursor' = cursor
    BY <1>1, <1>4
  <2> HIDE DEF keys
  <2>2. Contents(keys) = <<>>
    <3>1. Cardinality(keys) = 0
      BY <2>1, FS_EmptySet
    <3> QED
      BY <3>1 DEF Contents
  <2>3. received' = received
    <3>1. received \o <<>> = received
      BY <1>3
    <3> QED
      BY <1>1, <2>2, <3>1
  <2>4. DroppedKeys' = DroppedKeys
    BY <1>1, <1>2, <2>1 DEF DroppedKeys
  <2> QED
    BY <1>2, <2>3, <2>4 DEF Channel!channel
<1>5. CASE Served # {}
  <2>1. Served \in SUBSET Nat /\ IsFiniteSet(Served)
    BY StoredFrames DEF KeyInv
  <2>2. PICK top \in Nat : top = Max(Served)
    BY <1>5, <2>1, MaxOf
  <2>3. top \in Served /\ \A j \in Served : j <= top
    BY <1>5, <2>1, <2>2, MaxOf
  <2>4. top >= kept /\ top > cursor /\ top <= Len(log)
    BY <1>3, <2>3 DEF Served, After
  <2>5. Gone < top /\ cursor' = top
    BY <1>1, <1>3, <1>5, <2>2, <2>4 DEF Gone
  <2>6. keys = {i \in Keys : Gone < i /\ i <= top}
    <3>1. ASSUME NEW i \in keys PROVE Gone < i /\ i <= top
      BY <1>3, <2>3 DEF Served, After, Gone
    <3>2. ASSUME NEW i \in Keys, Gone < i, i <= top PROVE i \in Served
      <4>1. i \in Nat /\ i \in 1..Len(log) /\ log[i].direction = "down"
        BY <1>3 DEF Keys, IsKey, IsDown
      <4>2. i >= kept /\ i > cursor
        BY <1>3, <3>2, <4>1 DEF Gone
      <4>3. i \in After("down", cursor)
        BY <1>3, <4>1, <4>2 DEF After
      <4>4. \A c \in After("down", cursor) : log[c] = Close => top <= c
        BY <2>3 DEF Served
      <4>5. \A c \in After("down", cursor) : c \in Nat
        BY <1>3 DEF After
      <4>6. \A c \in After("down", cursor) : log[c] = Close => i <= c
        BY <2>2, <3>2, <4>1, <4>4, <4>5
      <4> QED
        BY <4>3, <4>6 DEF Served
    <3> QED
      BY <3>1, <3>2
  <2> HIDE DEF keys
  <2>7. PICK g \in Nat : g = Gone
    BY <1>3
  <2>8. keys = {j \in Keys : g < j /\ j <= top} /\ g <= top
    BY <2>5, <2>6, <2>7
  <2>9. Rank(Keys, top) = Rank(Keys, g) + Cardinality(keys) /\ IsFiniteSet(keys)
    BY <1>3, <2>8, RankSplit
  <2>10. PICK d \in Nat : d = DroppedKeys
    BY <1>3
  <2>11. PICK n \in Nat : n = Cardinality(keys)
    BY <2>9, FS_CardinalityType
  <2>12. DroppedKeys' = d + n
    <3>1. {i \in Keys : i < kept \/ i <= top} = {i \in Keys : i <= top}
      <4>1. ASSUME NEW i \in Keys PROVE (i < kept \/ i <= top) <=> i <= top
        <5>1. i \in Nat /\ kept \in Nat /\ kept <= top
          BY <1>3, <2>4
        <5> QED
          BY <5>1
      <4> QED
        BY <4>1
    <3>2. DroppedKeys' = Rank(Keys, top)
      BY <1>1, <1>2, <2>5, <3>1 DEF DroppedKeys, Rank
    <3> QED
      BY <1>3, <2>10, <2>11, <2>7, <2>9, <3>2
  <2>13. d + n <= TypedKeys
    <3>1. Rank(Keys, top) \in 0..TypedKeys
      BY <1>3, RankType DEF TypedKeys
    <3> QED
      BY <1>3, <2>10, <2>11, <2>7, <2>9, <3>1
  <2>14. keys \in SUBSET Nat /\ IsFiniteSet(keys)
    BY <1>3, <2>8, <2>9
  <2>15. ASSUME NEW i \in keys PROVE log[i].number = d + Rank(keys, i)
    <3>1. i \in Keys /\ i \in Nat /\ g < i /\ i <= top
      BY <1>3, <2>8
    <3>2. log[i].number = Rank(Keys, i)
      BY <3>1 DEF KeyInv, KeysNumbered
    <3>3. {j \in Keys : g < j /\ j <= i} = {j \in keys : j <= i}
      <4>1. ASSUME NEW j \in Keys PROVE g < j /\ j <= i <=> j \in keys /\ j <= i
        <5>1. j \in Nat
          BY <1>3
        <5> QED
          BY <2>8, <3>1, <5>1
      <4>2. keys \subseteq Keys
        BY <2>8
      <4> QED
        BY <4>1, <4>2
    <3>4. g <= i
      BY <3>1
    <3>5. Rank(Keys, i) = Rank(Keys, g) + Cardinality({j \in Keys : g < j /\ j <= i})
      BY <1>3, <3>1, <3>4, RankSplit
    <3>6. Rank(keys, i) = Cardinality({j \in Keys : g < j /\ j <= i})
      BY <3>3 DEF Rank
    <3> QED
      BY <1>3, <2>10, <2>7, <3>2, <3>5, <3>6
  <2>16. Contents(keys) = [k \in 1..n |-> d + k]
    <3>1. \A k \in 1..n : log[Nth(keys, k)].number = d + k
      BY <2>11, <2>14, <2>15, NthOf
    <3> QED
      BY <2>11, <3>1 DEF Contents
  <2>17. CASE n = 0
    <3>1. Contents(keys) = <<>>
      BY <2>16, <2>17
    <3>2. received' = received /\ DroppedKeys' = DroppedKeys
      BY <1>1, <1>3, <2>10, <2>12, <2>17, <3>1
    <3> QED
      BY <1>2, <3>2 DEF Channel!channel
  <2>18. CASE n # 0
    <3>1. PICK k \in Nat : k = d + n
      OBVIOUS
    <3>2. k - d = n /\ k \in 1..TypedKeys /\ k \in d + 1 .. TypedKeys
      BY <1>3, <2>13, <2>18, <3>1
    <3>3. received' = received \o [i \in 1..n |-> d + i]
      BY <1>1, <2>16
    <3>4. Channel!Arrive(k)
      BY <1>2, <2>10, <2>12, <3>1, <3>2, <3>3 DEF Channel!Arrive
    <3> QED
      BY <1>2, <3>2, <3>4 DEF Channel!Next
  <2> QED
    BY <2>17, <2>18
<1> QED
  BY <1>4, <1>5

LEMMA KeyStep ==
  ASSUME KeyInv, Bounds, [TerminalNext]_terminalVars, TerminalTypeOK'
  PROVE  KeysNumbered' /\ [Channel!Next]_(Channel!channel)
<1>1. CASE TypeKey /\ session \notin Final
  BY <1>1, TypeKeyStep DEF Channel!Next
<1>2. CASE CloseWrite
  <2>1. Store(Close) /\ UNCHANGED <<kept, cursor, received>> /\ ~IsKey(Close)
    BY <1>2 DEF CloseWrite, down, Close, IsKey
  <2> QED
    BY <2>1, FrameTypes, OtherFrameStep
<1>3. ASSUME NEW h \in {"put", "late"}, UpStore(h), session \notin Final
      PROVE  KeysNumbered' /\ [Channel!Next]_(Channel!channel)
  <2> DEFINE f == Output(request[h].chunk)
  <2>1. Store(f) /\ Trim /\ UNCHANGED <<cursor, received>>
    BY <1>3 DEF UpStore, down
  <2>2. f \in Frames
    <3>1. log' = Append(log, f) /\ log' \in Seq(Frames) /\ log \in Seq(Frames)
      BY <2>1 DEF Store, KeyInv, TerminalTypeOK
    <3>2. log'[Len(log) + 1] = f /\ log'[Len(log) + 1] \in Frames
      BY <3>1
    <3> QED
      BY <3>2
  <2>3. ~IsKey(f)
    BY DEF Output, IsKey, IsDown
  <2> HIDE DEF f
  <2> QED
    BY <2>1, <2>2, <2>3, OtherFrameStep
<1>4. CASE UNCHANGED <<log, kept, cursor, received>>
  BY <1>4 DEF KeyInv, KeysNumbered, Keys, Rank, Channel!channel, TypedKeys, DroppedKeys
<1>5. CASE \E h \in {"put", "late"} : Upload(h)
  BY <1>3, <1>4, <1>5 DEF Upload, UpCheck, UpConnect, UpStore, down, frames
<1>6. CASE \/ Cleanup \/ LeaveTerminal \/ CloseRead \/ Post \/ HandleCommand \/ ServerStops
           \/ PostLost \/ TransportReady \/ StartFails \/ ShellExits \/ CommandEnds
           \/ CommandTimesOut \/ SendUp \/ UpEnds \/ UpTimesOut \/ LateEnds
           \/ PrintsOn \/ FallSilent
           \/ ShowOutput \/ (TypeKey /\ session \in Final) \/ UNCHANGED terminalVars
  BY <1>4, <1>6 DEF Cleanup, HalfHour, PrintsOn, FallSilent, CleanupRead, CleanupWrite, LeaveTerminal, CloseRead, PostStatus,
         Post, PostIsWritten, HandleCommand, ServerStops, SendUp, UpEnds, UpAnswered, UpFails,
         UpTimesOut, LateEnds, ShowOutput, TypeKey,
         PostRefused, PostLost, TransportReady, StartFails, ShellExits, CommandEnds,
         CommandTimesOut, terminalVars, down, frames
<1> QED
  BY <1>1, <1>2, <1>5, <1>6, DownStep DEF TerminalNext, BrowserEnds

-----------------------------------------------------------------------------
(* The theorems. *)

TerminalInv ==
  /\ TerminalTypeOK /\ Decisions /\ AnnouncedFirst /\ Supervised
  /\ LogInOrder /\ RequestsInOrder /\ SeenIsShown /\ OutputInOrder
  /\ KeysNumbered

LEMMA InvInit ==
  ASSUME Bounds, NEW status \in Active \cup Final, New(status)
  PROVE  TerminalInv /\ Channel!Init
BY TerminalTypeInit, OutcomeInit, OutputInit, KeyInit DEF TerminalInv

LEMMA InvStep ==
  ASSUME Bounds, TerminalInv, [TerminalNext]_terminalVars
  PROVE  TerminalInv' /\ [Channel!Next]_(Channel!channel)
<1>1. TerminalTypeOK'
  BY TerminalTypeStep DEF TerminalInv
<1>2. OutcomeInv /\ OutputInv /\ KeyInv
  BY DEF TerminalInv, OutcomeInv, OutputInv, KeyInv
<1>3. Decisions' /\ AnnouncedFirst' /\ Supervised'
  BY <1>1, <1>2, OutcomeStep
<1>4. LogInOrder' /\ RequestsInOrder' /\ SeenIsShown' /\ OutputInOrder'
  BY <1>1, <1>2, OutputStep
<1>5. KeysNumbered' /\ [Channel!Next]_(Channel!channel)
  BY <1>1, <1>2, KeyStep
<1> QED
  BY <1>1, <1>3, <1>4, <1>5 DEF TerminalInv

LEMMA InvFollows == TerminalInv => TerminalTypeOK /\ OutcomeIsTrue /\ OutputInOrder
BY OutcomeFollows DEF TerminalInv, OutcomeInv

\* Through every interleaving of the browser's handler, the agent's requests and
\* the supervisor, with lost answers, time-outs and restarts of the server: a
\* terminal command that reports success leaves a session that is connected or
\* has ended, one that reports failure leaves no loops on the router
\* (terminal_session_supervisor, set_terminal_status), and output is shown in
\* the order the shell wrote it (terminal_up_loop, append_terminal_frame).
THEOREM TerminalKeepsItsWord ==
  ASSUME Bounds
  PROVE  TerminalSpec => [](TerminalTypeOK /\ OutcomeIsTrue /\ OutputInOrder)
<1>1. TerminalInit => TerminalInv
  BY InvInit DEF TerminalInit, Active
<1>2. TerminalInv /\ [TerminalNext]_terminalVars => TerminalInv'
  BY InvStep
<1> QED
  BY <1>1, <1>2, InvFollows, PTL DEF TerminalSpec

\* The frames, the cursors and the trimming implement the channel of keys: they
\* reach the shell in the order they were typed and each at most once
\* (terminal_frames_after, trim_terminal_frames, terminal_down_loop).
THEOREM TerminalIsAChannel ==
  ASSUME Bounds
  PROVE  TerminalSpec => KeysInOrder
<1>1. TerminalInit => TerminalInv /\ Channel!Init
  BY InvInit DEF TerminalInit, Active
<1>2. TerminalInv /\ [TerminalNext]_terminalVars
      => TerminalInv' /\ [Channel!Next]_(Channel!channel)
  BY InvStep
<1> QED
  BY <1>1, <1>2, PTL DEF TerminalSpec, KeysInOrder, Channel!Spec

=============================================================================
