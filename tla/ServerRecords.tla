---------------------------- MODULE ServerRecords ----------------------------
(***************************************************************************)
(* The parts of the server that keep a record for the router or its owner  *)
(* and share nothing with each other, one of them at work at a time.  The  *)
(* others have no state meanwhile, except for the device token, which this *)
(* module extends and which then rests.  Sessions are looked at twice:     *)
(* those that begin with a code, and those that are renewed by requests    *)
(* under way at the same time.                                             *)
(***************************************************************************)
EXTENDS TokenRotation, FiniteSets

CONSTANTS
  Reporting, Records, StaleAfter, OfflineDedupe, AlertDedupe, SnoozeFor,  \* Incidents
  SessionIds, SomeCodes, CodeCalls, CodeAccess,                   \* Sessions
  RenewalCodes, SomeCalls, CallAccess,
  Clients, Keys, Types, Routers, MaxCommands, MaxAsked,           \* CommandRequests
  Cooldowns, Limits, Hour, Reporters, RuleTime, MaxEvents, MaxChanges, \* Automations
  Cpus, MaxOdd,                                                   \* RouterHealth
  MaxVersion, Legacy, MaxHour, MaxMoves,                          \* UpdateOffers
  Paths, BackupRuns, MaxRows, MaxKills, MaxCopies                 \* DatabaseBackups

\* A server has finitely many routers, a database may have rows, 0 is no session, the
\* times are numbers, and a rule allows at least one run an hour.
ASSUME ServerAssumption ==
  /\ IsFiniteSet(Routers) /\ MaxRows \in Nat /\ 0 \notin SessionIds
  /\ {StaleAfter, OfflineDedupe, AlertDedupe, SnoozeFor, Hour, MaxVersion} \subseteq Nat
  /\ Cooldowns \subseteq Nat /\ Limits \subseteq Nat \ {0}

VARIABLES
  part,  \* which of them is at work
  kind, status, silence, keeper, reports, owner, incidents, alarming, revived,
  sessions, codes, access, expired, store, calls, leaving, ousted, astray,
  rows, requests, asked, answers, errors, removed,
  time, rule, ran, running, nr, changes, mingled,
  payload, age, open,
  hour, app, daemon, older, postponed, heard, offers, moves, been, lowered,
  lines, serving, files, utility, litter, kills, copies, restored

events == <<kind, status, silence, keeper, reports, owner, incidents, alarming, revived>>
phone == <<sessions, codes, access, expired, store, calls, leaving, ousted, astray>>
creation == <<rows, requests, asked, answers, errors, removed>>
automation == <<time, rule, ran, running, nr, changes, mingled>>
health == <<payload, age, open>>
updates == <<hour, app, daemon, older, postponed, heard, offers, moves, been, lowered>>
backups == <<lines, serving, files, utility, litter, kills, copies, restored>>
earlier == <<vars, events, phone, creation, automation>>
later == <<health, updates, backups>>

I == INSTANCE Incidents WITH watched <- kind, Requests <- Reporting
S == INSTANCE Sessions WITH
       issued <- access, Codes <- SomeCodes, Calls <- CodeCalls, MaxAccess <- CodeAccess
R == INSTANCE Sessions WITH
       issued <- access, Codes <- RenewalCodes, Calls <- SomeCalls, MaxAccess <- CallAccess
K == INSTANCE CommandRequests
A == INSTANCE Automations WITH
       reports <- running, edits <- changes, MaxTime <- RuleTime, MaxEdits <- MaxChanges
H == INSTANCE RouterHealth
U == INSTANCE UpdateOffers WITH
       agent <- daemon, backup <- older, kept <- postponed, told <- heard,
       changes <- moves, MaxChanges <- MaxMoves
B == INSTANCE DatabaseBackups WITH rows <- lines

\* A part that is not among these leaves all of them at rest.
RecordInit ==
  /\ Init
  /\ IF part = "events" THEN I!IncidentInit
     ELSE kind = "none" /\ status = "none" /\ silence = "none" /\ keeper = "none"
          /\ reports = "none" /\ owner = "none" /\ incidents = "none"
          /\ alarming = "none" /\ revived = "none"
  /\ IF part = "codes" THEN S!SessionInit
     ELSE IF part = "renewals" THEN R!SessionInit
     ELSE sessions = "none" /\ codes = "none" /\ access = "none" /\ expired = "none"
          /\ store = "none" /\ calls = "none" /\ leaving = "none" /\ ousted = "none"
          /\ astray = "none"
  /\ IF part = "creation" THEN K!RequestInit
     ELSE rows = "none" /\ requests = "none" /\ asked = "none" /\ answers = "none"
          /\ errors = "none" /\ removed = "none"
  /\ IF part = "automation" THEN A!AutomationInit
     ELSE time = "none" /\ rule = "none" /\ ran = "none" /\ running = "none"
          /\ nr = "none" /\ changes = "none" /\ mingled = "none"
  /\ IF part = "health" THEN H!HealthInit
     ELSE payload = "none" /\ age = "none" /\ open = "none"
  /\ IF part = "updates" THEN U!OfferInit
     ELSE hour = "none" /\ app = "none" /\ daemon = "none" /\ older = "none"
          /\ postponed = "none" /\ heard = "none" /\ offers = "none" /\ moves = "none"
          /\ been = "none" /\ lowered = "none"
  /\ IF part = "backups" THEN B!BackupInit
     ELSE lines = "none" /\ serving = "none" /\ files = "none" /\ utility = "none"
          /\ litter = "none" /\ kills = "none" /\ copies = "none" /\ restored = "none"

RecordNext ==
  /\ UNCHANGED part
  /\ \/ part = "token" /\ Next /\ UNCHANGED <<events, phone, creation, automation, later>>
     \/ part = "events" /\ I!IncidentNext
        /\ UNCHANGED <<vars, phone, creation, automation, later>>
     \/ part = "codes" /\ S!SessionNext
        /\ UNCHANGED <<vars, events, creation, automation, later>>
     \/ part = "renewals" /\ R!SessionNext
        /\ UNCHANGED <<vars, events, creation, automation, later>>
     \/ part = "creation" /\ K!RequestNext
        /\ UNCHANGED <<vars, events, phone, automation, later>>
     \/ part = "automation" /\ A!AutomationNext
        /\ UNCHANGED <<vars, events, phone, creation, later>>
     \/ part = "health" /\ H!HealthNext /\ UNCHANGED <<earlier, updates, backups>>
     \/ part = "updates" /\ U!OfferNext /\ UNCHANGED <<earlier, health, backups>>
     \/ part = "backups" /\ B!BackupNext /\ UNCHANGED <<earlier, health, updates>>

RecordSpec == RecordInit /\ [][RecordNext]_<<part, earlier, later>>

\* The outage of a router is told exactly as long as it is shown as offline.
OutageTold == part = "events" => I!OutageTold
\* An alert becomes an incident, and the four places that tell of one agree.
AlertTold ==
  /\ part = "events" => I!AlertTold
  /\ part = "health" => H!HealthIsTold
\* A pairing code opens one session, and only the newest code one.
CodesAreOneTime == part = "codes" => S!CodesAreOneTime
\* Renewals under way at the same time do not end a session.
StaysIn == part = "renewals" => R!StaysIn
\* A key stays one command, and a file of the backup utility one moment of the database.
RecordIsOne ==
  /\ part = "creation" => K!KeyIsOneCommand
  /\ part = "backups" => B!BackupIsWhole
\* What the server starts by itself keeps to its limits.
LimitsKept ==
  /\ part = "automation" => A!LimitsKept
  /\ part = "updates" => U!OffersAreDue
=============================================================================
