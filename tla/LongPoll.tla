------------------------------ MODULE LongPoll ------------------------------
(***************************************************************************)
(* How one process of the server wakes the waiting poll of an agent and    *)
(* tells the open pages of a device what has changed.                      *)
(*                                                                         *)
(* A transaction announces its changes with NOTIFY; the database passes    *)
(* them on at commit, to those who listen then.  The listener hands each   *)
(* one to the event loop, which counts it in the generation of the device, *)
(* puts it in the queue of each subscriber and wakes the waiting polls.    *)
(* A page is a set of panes that it loads from the database: an event only *)
(* says that a pane is out of date.                                        *)
(***************************************************************************)
EXTENDS Integers, Sequences, FiniteSets, SequencesExt

CONSTANTS
  Commands,      \* commands of the device
  Polls,         \* requests of its agent, abandoned ones included
  Pages,         \* open pages with an event stream
  QueueSize,     \* events a subscriber can be behind (64)
  MaxTelemetry,  \* reports of the agent (bound)
  MaxRequeues,   \* expired delivery leases (bound)
  MaxOutages,    \* lost connections of the listener (bound)
  MaxStreams     \* lost connections of pages (bound)

ASSUME LongPollAssumption ==
  /\ QueueSize \in Nat \ {0}
  /\ MaxTelemetry \in Nat /\ MaxRequeues \in Nat
  /\ MaxOutages \in Nat /\ MaxStreams \in Nat
  /\ "none" \notin Commands /\ IsFiniteSet(Commands)

VARIABLES
  command,      \* status of each command
  listening,    \* the listener is connected
  wire,         \* announcements on their way to the listener
  tasks,        \* announcements the event loop has not published yet
  generation,   \* of the device
  poll,         \* step of each poll, and the generation it has seen
  stream, queue,  \* of each page
  due,          \* panes a page is about to load
  stale,        \* panes outdated by an announced change
  telemetry, requeues, outages, streams,
  unheard,      \* commands announced while nobody listened, or not at all
  missed        \* panes whose announcement was lost while nobody listened

server == <<command, listening, wire, tasks, generation, poll>>
pages == <<stream, queue, due, stale, missed>>
counters == <<telemetry, requeues, outages, streams>>
vars == <<server, pages, counters, unheard>>

-----------------------------------------------------------------------------
Types == {"command.queued", "command.status", "telemetry.updated", "resync_required"}
Events == [type : {"command.queued"}, command : Commands]
          \cup [type : Types \ {"command.queued"}, command : {"none"}]
Panes == {"telemetry", "journal"}

Outdates(e) == IF e.type = "telemetry.updated" THEN {"telemetry"} ELSE {"journal"}

\* Only of a new command it matters which one it is.
StatusChanged == [type |-> "command.status", command |-> "none"]

\* What a page loads when an event arrives.
Loads(type) ==
  CASE type \in {"snapshot", "telemetry.updated", "resync_required"} -> {"telemetry"}
    [] type \in {"command.queued", "command.status"} -> {"journal"}

\* Type invariant: commands, announcements, polls and pages.
TypeOK ==
  /\ command \in [Commands -> {"none", "queued", "sent", "done"}]
  /\ listening \in BOOLEAN
  /\ wire \in Seq(Events)
  /\ tasks \in Seq(Events)
  /\ generation \in Nat
  /\ poll \in [Polls -> [pc : {"idle", "first", "reading", "second", "waiting", "last"},
                         seen : 0..generation]]
  /\ stream \in [Pages -> {"connecting", "connected"}]
  /\ queue \in [Pages -> Seq(Events)]
  /\ \A s \in Pages : Len(queue[s]) <= QueueSize
  /\ due \in [Pages -> SUBSET Panes]
  /\ stale \in [Pages -> SUBSET Panes]
  /\ missed \in [Pages -> SUBSET Panes]
  /\ telemetry \in 0..MaxTelemetry /\ requeues \in 0..MaxRequeues
  /\ outages \in 0..MaxOutages /\ streams \in 0..MaxStreams
  /\ unheard \subseteq Commands

Init ==
  /\ command = [c \in Commands |-> "none"]
  /\ listening = TRUE
  /\ wire = <<>> /\ tasks = <<>>
  /\ generation = 0
  /\ poll = [p \in Polls |-> [pc |-> "idle", seen |-> 0]]
  /\ stream = [s \in Pages |-> "connecting"]
  /\ queue = [s \in Pages |-> <<>>]
  /\ due = [s \in Pages |-> {}]
  /\ stale = [s \in Pages |-> {}]
  /\ missed = [s \in Pages |-> {}]
  /\ telemetry = 0 /\ requeues = 0 /\ outages = 0 /\ streams = 0
  /\ unheard = {}

-----------------------------------------------------------------------------
(* Transactions of other handlers, and the listener. *)

\* At commit the announcements es reach the listener, if it listens; pages that
\* are open are out of date until they load again.
Commit(es) ==
  LET panes == UNION {Outdates(e) : e \in ToSet(es)} IN
  /\ stale' = [s \in Pages |-> stale[s] \cup panes]
  /\ IF listening
       THEN wire' = wire \o es /\ UNCHANGED <<missed, unheard>>
       ELSE /\ missed' = [s \in Pages |-> missed[s] \cup panes]
            /\ unheard' = unheard \cup {e.command : e \in
                             {x \in ToSet(es) : x.type = "command.queued"}}
            /\ UNCHANGED wire

\* Mutant: the new command is not announced.
CreateSilently(c) ==
  /\ command[c] = "none"
  /\ command' = [command EXCEPT ![c] = "queued"]
  /\ Commit(<<>>)
  /\ UNCHANGED <<listening, tasks, generation, poll, stream, queue, due, counters>>

CreateDeviceCommand(c) ==
  /\ command[c] = "none"
  /\ command' = [command EXCEPT ![c] = "queued"]
  /\ Commit(<<[type |-> "command.queued", command |-> c]>>)
  /\ UNCHANGED <<listening, tasks, generation, poll, stream, queue, due, counters>>

CommandResult(c) ==
  /\ command[c] = "sent"
  /\ command' = [command EXCEPT ![c] = "done"]
  /\ Commit(<<StatusChanged>>)
  /\ UNCHANGED <<listening, tasks, generation, poll, stream, queue, due, counters>>

DeviceTelemetry ==
  /\ telemetry < MaxTelemetry
  /\ telemetry' = telemetry + 1
  /\ Commit(<<[type |-> "telemetry.updated", command |-> "none"]>>)
  /\ UNCHANGED <<command, listening, tasks, generation, poll, stream, queue, due,
                 requeues, outages, streams>>

\* The poll of another device returns an expired delivery to the queue, and
\* announces nothing.
RequeueByOtherDevice(c) ==
  /\ requeues < MaxRequeues
  /\ command[c] = "sent"
  /\ command' = [command EXCEPT ![c] = "queued"]
  /\ requeues' = requeues + 1
  /\ unheard' = unheard \cup {c}
  /\ UNCHANGED <<listening, wire, tasks, generation, poll, pages,
                 telemetry, outages, streams>>

\* publish_local
Receive ==
  /\ listening
  /\ wire # <<>>
  /\ tasks' = Append(tasks, Head(wire))
  /\ wire' = Tail(wire)
  /\ UNCHANGED <<command, listening, generation, poll, pages, counters, unheard>>

\* What is on its way is lost with the connection.
ListenerFails ==
  /\ listening
  /\ outages < MaxOutages
  /\ outages' = outages + 1
  /\ listening' = FALSE
  /\ wire' = <<>>
  /\ missed' = [s \in Pages |-> missed[s] \cup UNION {Outdates(e) : e \in ToSet(wire)}]
  /\ unheard' = unheard \cup {e.command : e \in {x \in ToSet(wire) : x.type = "command.queued"}}
  /\ UNCHANGED <<command, tasks, generation, poll, stream, queue, due, stale,
                 telemetry, requeues, streams>>

ListenAgain ==
  /\ ~listening
  /\ listening' = TRUE
  /\ UNCHANGED <<command, wire, tasks, generation, poll, pages, counters, unheard>>

-----------------------------------------------------------------------------
(* RealtimeBroker._publish *)

Resync == [type |-> "resync_required", command |-> "none"]

\* Mutant: a full queue drops its oldest event.
PutDroppingOldest(q, e) ==
  IF Len(q) = QueueSize THEN Append(Tail(q), e) ELSE Append(q, e)

\* Mutant: the event is put behind the notice, over the limit.
PutOverLimit(q, e) == IF Len(q) = QueueSize THEN Append(q, Resync) ELSE Append(q, e)

\* A full queue is emptied and says that something is missing.
Put(q, e) == IF Len(q) = QueueSize THEN <<Resync>> ELSE Append(q, e)

Publish ==
  /\ tasks # <<>>
  /\ tasks' = Tail(tasks)
  /\ generation' = generation + 1
  /\ queue' = [s \in Pages |-> IF stream[s] = "connected"
                                 THEN Put(queue[s], Head(tasks)) ELSE queue[s]]
  /\ UNCHANGED <<command, listening, wire, poll, stream, due, stale, missed,
                 counters, unheard>>

-----------------------------------------------------------------------------
(* poll_commands: each claim is a transaction, the other steps run in the   *)
(* event loop.                                                              *)

Queued == {c \in Commands : command[c] = "queued"}
Moves(p, from, to) ==
  /\ poll[p].pc = from
  /\ poll' = [poll EXCEPT ![p].pc = to]

BeginPoll(p) ==
  /\ Moves(p, "idle", "first")
  /\ UNCHANGED <<command, listening, wire, tasks, generation, pages, counters, unheard>>

\* _claim_commands: all that is queued is sent, or nothing is.
Claim(p, from) ==
  /\ Queued # {}
  /\ Moves(p, from, "idle")
  /\ command' = [c \in Commands |-> IF c \in Queued THEN "sent" ELSE command[c]]
  /\ Commit([i \in 1..Cardinality(Queued) |-> StatusChanged])
  /\ UNCHANGED <<listening, tasks, generation, stream, queue, due, counters>>

ClaimNothing(p, from, to) ==
  /\ Queued = {}
  /\ Moves(p, from, to)
  /\ UNCHANGED <<command, listening, wire, tasks, generation, pages, counters, unheard>>

\* wait = 0 ends the poll here.
FirstClaim(p) ==
  \/ Claim(p, "first")
  \/ \E to \in {"idle", "reading"} : ClaimNothing(p, "first", to)

ReadGeneration(p) ==
  /\ poll[p].pc = "reading"
  /\ poll' = [poll EXCEPT ![p] = [pc |-> "second", seen |-> generation]]
  /\ UNCHANGED <<command, listening, wire, tasks, generation, pages, counters, unheard>>

\* Mutant: the poll waits without a second claim.
WaitAtOnce(p) ==
  /\ Moves(p, "second", "waiting")
  /\ UNCHANGED <<command, listening, wire, tasks, generation, pages, counters, unheard>>

\* Close the commit-to-wait race before suspending the request.
SecondClaim(p) == Claim(p, "second") \/ ClaimNothing(p, "second", "waiting")

\* wait_for_change returns when the generation is another one...
Wake(p) ==
  /\ generation # poll[p].seen
  /\ Moves(p, "waiting", "last")
  /\ UNCHANGED <<command, listening, wire, tasks, generation, pages, counters, unheard>>

\* ... or after the time the agent asked for.
TimeOut(p) ==
  /\ Moves(p, "waiting", "last")
  /\ UNCHANGED <<command, listening, wire, tasks, generation, pages, counters, unheard>>

LastClaim(p) == Claim(p, "last") \/ ClaimNothing(p, "last", "idle")

-----------------------------------------------------------------------------
(* device_events and the script of a page. *)

\* The stream begins with a snapshot event.  The queue is there before the page
\* can have loaded anything because of it.
Connect(s) ==
  /\ stream[s] = "connecting"
  /\ stream' = [stream EXCEPT ![s] = "connected"]
  /\ queue' = [queue EXCEPT ![s] = <<>>]
  /\ due' = [due EXCEPT ![s] = @ \cup Loads("snapshot")]
  /\ UNCHANGED <<server, stale, missed, counters, unheard>>

Disconnect(s) ==
  /\ stream[s] = "connected"
  /\ streams < MaxStreams
  /\ streams' = streams + 1
  /\ stream' = [stream EXCEPT ![s] = "connecting"]
  /\ queue' = [queue EXCEPT ![s] = <<>>]
  /\ UNCHANGED <<server, due, stale, missed, telemetry, requeues, outages, unheard>>

Deliver(s) ==
  /\ queue[s] # <<>>
  /\ due' = [due EXCEPT ![s] = @ \cup Loads(Head(queue[s]).type)]
  /\ queue' = [queue EXCEPT ![s] = Tail(@)]
  /\ UNCHANGED <<server, stream, stale, missed, counters, unheard>>

Load(s) ==
  \E pane \in due[s] :
    /\ due' = [due EXCEPT ![s] = @ \ {pane}]
    /\ stale' = [stale EXCEPT ![s] = @ \ {pane}]
    /\ missed' = [missed EXCEPT ![s] = @ \ {pane}]
    /\ UNCHANGED <<server, stream, queue, counters, unheard>>

-----------------------------------------------------------------------------
PollStep(p) ==
  \/ BeginPoll(p) \/ FirstClaim(p) \/ ReadGeneration(p) \/ SecondClaim(p)
  \/ Wake(p) \/ TimeOut(p) \/ LastClaim(p)
PageStep(s) == Connect(s) \/ Disconnect(s) \/ Deliver(s) \/ Load(s)

Next ==
  \/ \E c \in Commands :
       CreateDeviceCommand(c) \/ CommandResult(c) \/ RequeueByOtherDevice(c)
  \/ DeviceTelemetry
  \/ Receive \/ ListenerFails \/ ListenAgain \/ Publish
  \/ \E p \in Polls : PollStep(p)
  \/ \E s \in Pages : PageStep(s)

Spec == Init /\ [][Next]_vars

\* The listener reads, the event loop runs what is scheduled, a woken poll is
\* resumed and its thread claims.  No time-out is needed.
Fairness ==
  /\ WF_vars(Receive) /\ WF_vars(Publish)
  /\ \A p \in Polls : WF_vars(FirstClaim(p) \/ ReadGeneration(p) \/ SecondClaim(p)
                              \/ Wake(p) \/ LastClaim(p))
FairSpec == Spec /\ Fairness

-----------------------------------------------------------------------------
(* Properties. *)

OnItsWay == ToSet(wire) \cup ToSet(tasks)

\* While a poll waits and has slept through nothing, every queued command that
\* was announced to the listener still has its wake-up on the way: no command is
\* created between the claim and the wait and left to the time-out
\* (agent.py: close the commit-to-wait race).
NoMissedWakeup ==
  \A p \in Polls : poll[p].pc = "waiting" /\ poll[p].seen = generation =>
    \A c \in Queued \ unheard :
      [type |-> "command.queued", command |-> c] \in OnItsWay

\* What will make page s load pane.
Told(s, pane) ==
  \/ pane \in due[s]
  \/ \E e \in ToSet(queue[s]) \cup OnItsWay : pane \in Loads(e.type)

\* A connected page whose telemetry is out of date is going to load it, however
\* far it is behind and however often it reconnects (realtime.py:
\* resync_required), unless the announcement was lost with the listener's
\* connection.
TelemetryTold ==
  \A s \in Pages :
    stream[s] = "connected" /\ "telemetry" \in stale[s] \ missed[s] =>
      Told(s, "telemetry")

\* A command that was announced is delivered to a waiting poll without its
\* time-out (docs/openwrt-agent.md: a new command wakes the request at once).
PromptDelivery ==
  \A c \in Commands :
    (c \in Queued \ unheard /\ \E p \in Polls : poll[p].pc = "waiting")
      ~> c \notin Queued \ unheard

-----------------------------------------------------------------------------
(* Why pages are told: the inductive invariant. *)

\* A notice is made for one subscriber, so what the listener loses is a change.
NoticesAreLocal == \A e \in OnItsWay : e.type # Resync.type

PageInv == TypeOK /\ NoticesAreLocal /\ TelemetryTold
=============================================================================
