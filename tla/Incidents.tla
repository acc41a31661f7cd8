----------------------------- MODULE Incidents -----------------------------
(***************************************************************************)
(* The incidents of one router: "offline", which housekeeping opens when   *)
(* the router has been silent for too long, and "alert", which a report of *)
(* the router opens and the next one without it ends.  Reports, house-     *)
(* keeping and the owner are transactions that read the row of the router  *)
(* or of an incident, and write later the columns they have changed: what  *)
(* another has written in between is overwritten only there.  The row of   *)
(* the router is locked from its first write, so that the ends of two      *)
(* transactions on it come one after the other.                            *)
(*                                                                         *)
(* Times are ages, counted to the first tick at which they no longer       *)
(* matter.  A record that is resolved and that nobody has read no longer   *)
(* matters either, and gives its place to a new one.                       *)
(***************************************************************************)
EXTENDS Naturals, FiniteSets

CONSTANTS
  Requests,                   \* reports that are served at the same time
  Records,                    \* places for incidents (bound)
  StaleAfter,                 \* silence before the router counts as offline
  OfflineDedupe, AlertDedupe, \* dedupe_seconds of the two
  SnoozeFor                   \* the retention of 90 days is not reached

VARIABLES
  watched,          \* the type of the incidents looked at: no record is of both
  status, silence,  \* the columns of the device: its status and the age of last_seen_at
  keeper,           \* housekeeping: what it has read, or Idle
  reports,          \* requests: what they have read and bring, or Idle
  owner,            \* acknowledge_event: what it has read, or Idle
  incidents,        \* Records -> status, age of last_occurred_at, rest of the snooze,
                    \* and (history) the rest of what the owner was promised
  alarming,         \* history: the last report had the alert
  revived           \* history: the end of an incident was overtaken (see below)

incidentVars == <<watched, status, silence, keeper, reports, owner, incidents, alarming, revived>>

Dedupe == IF watched = "offline" THEN OfflineDedupe ELSE AlertDedupe
Idle == [busy |-> FALSE]
NoRecord == [status |-> "resolved", age |-> 0, snoozed |-> 0, promised |-> 0]

\* "provisioned", "disconnecting" and "disabled" are one status, "other".
IncidentInit ==
  /\ watched \in {"offline", "alert"}
  /\ status = "other" /\ silence = StaleAfter + 1
  /\ keeper = Idle /\ reports = [r \in Requests |-> Idle] /\ owner = Idle
  /\ incidents = [i \in Records |-> NoRecord] /\ alarming = FALSE /\ revived = FALSE

Older(age, limit) == IF age <= limit THEN age + 1 ELSE age
Less(rest) == IF rest > 0 THEN rest - 1 ELSE 0
Tick ==
  /\ silence' = Older(silence, StaleAfter)
  /\ reports' = [r \in Requests |->
                   IF reports[r].busy THEN [reports[r] EXCEPT !.age = Older(@, StaleAfter)]
                   ELSE Idle]
  /\ incidents' = [i \in Records |->
                     IF incidents[i] = NoRecord THEN NoRecord
                     ELSE [incidents[i] EXCEPT !.age = Older(@, Dedupe),
                                               !.snoozed = Less(@), !.promised = Less(@)]]
  /\ UNCHANGED <<watched, status, keeper, owner, alarming, revived>>

-----------------------------------------------------------------------------
(* Event records. *)

Unresolved(records) == {i \in Records : records[i].status # "resolved"}
Repeated(records) == {i \in Unresolved(records) : records[i].age <= Dedupe}
Held(i) == owner.busy /\ owner.record = i
Free(records) == {i \in Records \ Unresolved(records) : ~Held(i)}
Youngest(candidates, records) ==
  CHOOSE i \in candidates : \A j \in candidates : records[i].age <= records[j].age
\* The record counts the event, and the snooze is over; what was promised stays.
Opened(record) == [record EXCEPT !.status = "open", !.age = 0, !.snoozed = 0]

\* Mutant: the repetition at the end of the interval is a new record.
EmitStrictly(records) ==
  LET candidates == {i \in Unresolved(records) : records[i].age < Dedupe} IN
  IF candidates # {} THEN {[records EXCEPT ![Youngest(candidates, records)] = Opened(@)]}
  ELSE {[records EXCEPT ![i] = Opened(NoRecord)] : i \in {CHOOSE i \in Free(records) : TRUE}}
\* Mutant: a repetition is counted in the youngest record, resolved or not.
EmitInAny(records) ==
  LET candidates == {i \in Records : records[i] # NoRecord /\ records[i].age <= Dedupe} IN
  IF candidates # {}
  THEN {[records EXCEPT ![Youngest(candidates, records)].age = 0]}
  ELSE {[records EXCEPT ![i] = Opened(NoRecord)] : i \in {CHOOSE i \in Free(records) : TRUE}}
\* emit_event: no result when there is no place.
Emit(records) ==
  IF Repeated(records) # {}
  THEN {[records EXCEPT ![Youngest(Repeated(records), records)] = Opened(@)]}
  ELSE IF Free(records) = {} THEN {}
  ELSE {[records EXCEPT ![CHOOSE i \in Free(records) : TRUE] = Opened(NoRecord)]}

\* resolve_events.
Resolve(records) ==
  [i \in Records |-> IF Held(i) THEN [records[i] EXCEPT !.status = "resolved"] ELSE NoRecord]

-----------------------------------------------------------------------------
(* The router reports: agent_telemetry. *)

BeginReport(r, alert) ==
  /\ ~reports[r].busy /\ \A q \in Requests : q < r => reports[q].busy
  /\ alert => watched = "alert"
  /\ reports' = [reports EXCEPT ![r] =
                   [busy |-> TRUE, prior |-> status, age |-> 0, alert |-> alert]]
  /\ UNCHANGED <<watched, status, silence, keeper, owner, incidents, alarming, revived>>

\* What the report does to the records that are watched.
Reported(r, returns) ==
  IF watched = "alert"
  THEN IF reports[r].alert THEN Emit(incidents) ELSE {Resolve(incidents)}
  ELSE {IF returns THEN Resolve(incidents) ELSE incidents}

\* Mutant: every report ends the incident.
EndReportAlways(r) ==
  /\ reports[r].busy
  /\ silence' = reports[r].age
  /\ status' = IF reports[r].prior # "online" THEN "online" ELSE status
  /\ incidents' \in Reported(r, TRUE)
  /\ revived' = FALSE
  /\ alarming' = reports[r].alert
  /\ reports' = [reports EXCEPT ![r] = Idle]
  /\ UNCHANGED <<watched, keeper, owner>>
\* Mutant: only a router that was shown as offline comes back.
EndReportOfOffline(r) ==
  /\ reports[r].busy
  /\ silence' = reports[r].age
  /\ status' = IF reports[r].prior # "online" THEN "online" ELSE status
  /\ incidents' \in Reported(r, reports[r].prior = "offline")
  /\ revived' = (revived /\ Unresolved(incidents') # {})
  /\ alarming' = reports[r].alert
  /\ reports' = [reports EXCEPT ![r] = Idle]
  /\ UNCHANGED <<watched, keeper, owner>>
\* The status is written only when it was not "online" when the row was read,
\* and only then are the incidents "offline" ended.
EndReport(r) ==
  /\ reports[r].busy
  /\ LET returns == reports[r].prior # "online" IN
     /\ silence' = reports[r].age
     /\ status' = IF returns THEN "online" ELSE status
     /\ incidents' \in Reported(r, returns)
     /\ revived' = (revived /\ Unresolved(incidents') # {})
  /\ alarming' = reports[r].alert
  /\ reports' = [reports EXCEPT ![r] = Idle]
  /\ UNCHANGED <<watched, keeper, owner>>

-----------------------------------------------------------------------------
(* Housekeeping: run_housekeeping. *)

BeginKeeping ==
  /\ watched = "offline" /\ ~keeper.busy
  /\ keeper' = [busy |-> TRUE, status |-> status,
                desired |-> IF silence <= StaleAfter THEN "online" ELSE "offline"]
  /\ UNCHANGED <<watched, status, silence, reports, owner, incidents, alarming, revived>>

\* What it brings back to "online" keeps its incidents.
EndKeeping ==
  /\ keeper.busy
  /\ LET changes == keeper.status # keeper.desired IN
     /\ status' = IF changes THEN keeper.desired ELSE status
     /\ incidents' \in IF changes /\ keeper.desired = "offline" THEN Emit(incidents)
                       ELSE {incidents}
     /\ revived' = (revived \/ (changes /\ keeper.desired = "online"
                                /\ Unresolved(incidents) # {}))
  /\ keeper' = Idle
  /\ UNCHANGED <<watched, silence, reports, owner, alarming>>

-----------------------------------------------------------------------------
(* The owner. *)

OtherStatus ==
  /\ watched = "offline"
  /\ status' = "other"
  /\ UNCHANGED <<watched, silence, keeper, reports, owner, incidents, alarming, revived>>
Disconnect == OtherStatus    \* disconnect_device_page
Disconnected == OtherStatus  \* the result of agent.disconnect
Provision == OtherStatus     \* provision_device

BeginAcknowledge(i) ==
  /\ ~owner.busy
  /\ owner' = [busy |-> TRUE, record |-> i, status |-> incidents[i].status]
  /\ UNCHANGED <<watched, status, silence, keeper, reports, incidents, alarming, revived>>
\* The status is written when it was "open" when the record was read.
EndAcknowledge ==
  /\ owner.busy
  /\ LET i == owner.record IN
     /\ incidents' = IF owner.status = "open"
                     THEN [incidents EXCEPT ![i].status = "acknowledged"] ELSE incidents
     /\ revived' = (revived \/ (owner.status = "open" /\ incidents[i].status = "resolved"))
  /\ owner' = Idle
  /\ UNCHANGED <<watched, status, silence, keeper, reports, alarming>>

Snooze(i) ==
  /\ i \in Unresolved(incidents)
  /\ incidents' = [incidents EXCEPT ![i].snoozed = SnoozeFor, ![i].promised = SnoozeFor]
  /\ UNCHANGED <<watched, status, silence, keeper, reports, owner, alarming, revived>>

IncidentNext ==
  \/ Tick
  \/ \E r \in Requests, alert \in BOOLEAN : BeginReport(r, alert)
  \/ \E r \in Requests : EndReport(r)
  \/ BeginKeeping
  \/ EndKeeping
  \/ Disconnect
  \/ Disconnected
  \/ Provision
  \/ \E i \in Unresolved(incidents) : BeginAcknowledge(i)
  \/ EndAcknowledge
  \/ \E i \in Records : Snooze(i)

IncidentSpec == IncidentInit /\ [][IncidentNext]_incidentVars

-----------------------------------------------------------------------------
(* What the pages show, and the properties. *)

\* operational_notifications.
Shown == {i \in Records : incidents[i].status = "open" /\ incidents[i].snoozed = 0}

\* A router that is shown as offline has an incident that says so, however
\* reports and housekeeping overtake each other.
OfflineTold == watched = "offline" /\ status = "offline" => Unresolved(incidents) # {}

\* A router that is online has no incident "offline" left.  There are two ways
\* around it: housekeeping that wrote over a report, or was overtaken by one,
\* brings the router back without ending the incident; and an acknowledgement
\* that had read the record before it was resolved takes it up again.  Only
\* the next outage ends such an incident.
IncidentEnds ==
  watched = "offline" /\ status = "online" /\ ~revived => Unresolved(incidents) = {}

\* The outage of a router is told exactly as long as it is shown as offline.
OutageTold == OfflineTold /\ IncidentEnds

\* There is an unresolved alert exactly when the last report had one, unless an
\* acknowledgement has taken up a resolved one.
AlertOpen ==
  watched = "alert" /\ ~revived => (alarming <=> Unresolved(incidents) # {})

\* A repetition within the interval is counted in the record there is.
NoCopies ==
  ~revived => Cardinality(Repeated(incidents)) <= 1

\* An alert is told as long as it lasts, and once.
AlertTold == AlertOpen /\ NoCopies

\* What the owner has put off for a time is not shown before, as long as it is
\* the same incident.
SnoozeHolds == \A i \in Records : incidents[i].promised > 0 => i \notin Shown


-----------------------------------------------------------------------------
(* Why outages and alerts are told: the inductive invariant. *)

Statuses == {"online", "offline", "other"}
Incident == [status : {"open", "acknowledged", "resolved"}, age : Nat, snoozed : Nat,
             promised : Nat]
IncidentTypeOK ==
  /\ watched \in {"offline", "alert"} /\ status \in Statuses /\ silence \in Nat
  /\ keeper \in {Idle} \cup [busy : {TRUE}, status : Statuses, desired : {"online", "offline"}]
  /\ reports \in [Requests -> {Idle} \cup
                    [busy : {TRUE}, prior : Statuses, age : Nat, alert : BOOLEAN]]
  /\ owner \in {Idle} \cup [busy : {TRUE}, record : Records, status : {"open", "acknowledged"}]
  /\ incidents \in [Records -> Incident]
  /\ alarming \in BOOLEAN /\ revived \in BOOLEAN

\* Of the records a repetition is counted in there is one.
OneRepeated(records) == \A i, j \in Repeated(records) : i = j

IncidentInv ==
  /\ IncidentTypeOK
  /\ keeper.busy => watched = "offline"
  /\ OfflineTold /\ IncidentEnds /\ AlertOpen
  /\ ~revived => OneRepeated(incidents)
=============================================================================
