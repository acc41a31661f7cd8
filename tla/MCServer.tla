------------------------------ MODULE MCServer ------------------------------
(***************************************************************************)
(* ServerRecords, and the parts of the server that let a form or a network *)
(* through to the router and show what it reports: TLC looks at one part   *)
(* at a time, and the others have no state or rest.                        *)
(***************************************************************************)
EXTENDS ServerRecords

CONSTANTS
  MaxEdits,                                                       \* CommandForms
  OnlineTtl, RecentTtl, Retention, MaxTime, MaxBytes,             \* ClientPresence
  Traffic, BufferLimit, Keep, KeepFor, Window, Target,            \* TelemetryHistory
  ReportTime, MaxReports, MaxRestarts,
  Segments, Addresses, Sizes, Starts, Counts, Ports, VlanIds, PlanCommands  \* NetworkPlan

\* The bounds and times to live are numbers, some entries of the log are kept; a segment has a
\* name of its own, a block has addresses, and a pool begins after the first one; a chart has
\* a point.
ASSUME PageAssumption ==
  /\ {MaxEdits, OnlineTtl, RecentTtl} \subseteq Nat /\ Retention \in Nat \ {0}
  /\ Segments \cap {"lan", ""} = {} /\ Addresses \subseteq Nat /\ Sizes \subseteq Nat \ {0}
  /\ Starts \subseteq Nat \ {0} /\ Counts \subseteq Nat
  /\ Traffic \subseteq Nat /\ {BufferLimit, Keep, KeepFor, Window} \subseteq Nat
  /\ Target \in Nat \ {0}

VARIABLES
  command, form, edits, page, held, preview, sent,
  now, client, sample, log,
  minute, carried, boot, base, taken, kept, sending, waiting, handling, metrics, raw,
  plan, reported, queue, accepted, blind

forms == <<command, form, edits, page, held, preview, sent>>
presence == <<now, client, sample, log>>
history == <<minute, carried, boot, base, taken, kept, sending, waiting, handling, metrics, raw>>
networks == <<plan, reported, queue, accepted, blind>>
records == <<earlier, later>>
others == <<forms, presence, history, networks>>

Written == INSTANCE CommandForms WITH Commands <- {}
F == INSTANCE CommandForms WITH Commands <- Written!FormCommands
P == INSTANCE ClientPresence WITH clock <- now
T == INSTANCE TelemetryHistory WITH
       clock <- minute, nr <- taken, MaxClock <- ReportTime
N == INSTANCE NetworkPlan WITH nr <- accepted, MaxCommands <- PlanCommands

MCInit ==
  /\ part \in {"token", "forms", "presence", "events", "codes", "renewals",
               "creation", "automation", "history", "health", "networks",
               "updates", "backups"}
  /\ RecordInit
  /\ IF part = "forms" THEN F!FormInit
     ELSE command = "none" /\ form = "none" /\ edits = "none" /\ page = "none"
          /\ held = "none" /\ preview = "none" /\ sent = "none"
  /\ IF part = "presence" THEN P!PresenceInit
     ELSE now = "none" /\ client = "none" /\ sample = "none" /\ log = "none"
  /\ IF part = "history" THEN T!HistoryInit
     ELSE minute = "none" /\ carried = "none" /\ boot = "none" /\ base = "none"
          /\ taken = "none" /\ kept = "none" /\ sending = "none" /\ waiting = "none"
          /\ handling = "none" /\ metrics = "none" /\ raw = "none"
  /\ IF part = "networks" THEN N!PlanInit
     ELSE plan = "none" /\ reported = "none" /\ queue = "none" /\ accepted = "none"
          /\ blind = "none"

MCNext ==
  \/ RecordNext /\ UNCHANGED others
  \/ /\ UNCHANGED <<part, records>>
     /\ \/ part = "forms" /\ F!FormNext /\ UNCHANGED <<presence, history, networks>>
        \/ part = "presence" /\ P!PresenceNext /\ UNCHANGED <<forms, history, networks>>
        \/ part = "history" /\ T!HistoryNext /\ UNCHANGED <<forms, presence, networks>>
        \/ part = "networks" /\ N!PlanNext /\ UNCHANGED <<forms, presence, history>>

MCSpec == MCInit /\ [][MCNext]_<<part, records, others>>

\* Type invariant of the parts that have one.
Typed ==
  /\ TypeOK
  /\ part = "forms" => F!FormTypeOK
  /\ part = "presence" => P!PresenceTypeOK
  /\ part = "history" => T!HistoryTypeOK
  /\ part = "networks" => N!PlanTypeOK

\* What the owner agrees to in a preview is what is sent, for every form but the three that
\* the preview reads in part (CommandForms, ToldTruly); no preview shows a secret; the
\* server and the agent accept what is sent, whatever the form; and what the preflight
\* lets through leaves no conflict of networks.
SentIsSound ==
  /\ part = "forms" => F!SentIsAcceptable /\ F!PreviewTells
  /\ part = "networks" => N!PlanIsSound
\* A client is shown online or offline on evidence.
ShownIsTrue == part = "presence" => P!PresenceIsEvident
\* A rate is shown as what was carried.
RatesAreTrue == part = "history" => T!RatesAreTrue
=============================================================================
