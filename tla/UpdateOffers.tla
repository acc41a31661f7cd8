---------------------------- MODULE UpdateOffers ----------------------------
(***************************************************************************)
(* Who updates the agent of a router, and what its owner is told.  The     *)
(* server asks an agent that reports an older version than its own to      *)
(* update, once an hour; the agent also looks by itself; the owner may     *)
(* roll back or install another version.  Reports can be sent again after  *)
(* later ones (TelemetryHistory), commands be run long after they were     *)
(* created, and the result of the last check be much older than the agent. *)
(*                                                                         *)
(* How the files are replaced is in AgentUpdate.  The files come from the  *)
(* server, which serves those of its own version.                          *)
(***************************************************************************)
EXTENDS Integers, Sequences

CONSTANTS
  MaxVersion,
  Legacy,               \* "0.9.0", a version that may be replaced by a lower one
  MaxHour, MaxChanges   \* bounds: hours, and changes by people

VARIABLES
  hour, app,  \* app: the version of the server
  agent,      \* version and result of the last check
  backup,     \* the version a rollback returns to, 0 for none
  kept,       \* a report to be sent again
  told,       \* the report the server received last, when, and by which version
  offers,     \* automatic agent.update commands, in the order of their creation
  changes,
  been, lowered \* history: whether the agent was the legacy version; whether one that
                \* never was has been updated to a lower version

offerVars == <<hour, app, agent, backup, kept, told, offers, changes, been, lowered>>

-----------------------------------------------------------------------------
Versions == 1..MaxVersion
None == [none |-> TRUE]

Unchecked == [version : Versions, auto : BOOLEAN, status : {""}, error : {""}, available : {0}]

OfferInit ==
  /\ hour = 0 /\ app \in Versions /\ agent \in Unchecked
  /\ backup = 0 /\ kept = None /\ told = None /\ offers = <<>> /\ changes = 0
  /\ been = (agent.version = Legacy) /\ lowered = FALSE

Tick ==
  /\ hour < MaxHour /\ hour' = hour + 1
  /\ UNCHANGED <<app, agent, backup, kept, told, offers, changes, been, lowered>>

\* remember_update_result
Result(status, error, available) ==
  [agent EXCEPT !.status = status, !.error = error, !.available = available]

\* check_for_update: the results that leave the version; what failed is not told apart.
Remembered(allow) ==
  {Result("failed", "failed", 0)}
  \cup (IF app = agent.version THEN {Result("skipped", "", app)}
        ELSE IF app < agent.version /\ ~allow THEN {Result("skipped", "downgrade blocked", app)}
        ELSE {})
Check(allow) ==
  \/ agent' \in Remembered(allow) /\ UNCHANGED <<backup, been, lowered>>
  \/ /\ app # agent.version /\ (app > agent.version \/ allow)
     /\ backup' = agent.version
     /\ \/ /\ agent' = Result("rollback", "install failed", agent.version)
           /\ UNCHANGED <<been, lowered>>
        \/ /\ agent' = [Result("success", "", app) EXCEPT !.version = app]
           /\ been' = (been \/ app = Legacy)
           /\ lowered' = (lowered \/ (app < agent.version /\ ~been))

\* The agent looks at its start and every hour.  allow_downgrade is not set in its
\* configuration.
Scheduled ==
  /\ agent.auto /\ Check(FALSE)
  /\ UNCHANGED <<hour, app, kept, told, offers, changes>>

-----------------------------------------------------------------------------
\* Mutant: an agent of the same version is asked too.
RequiredOrSame(installed) == installed <= app
\* agent_update_required
Required(installed) == installed < app

\* The key of the command is the version of the server and the hour.
\* Mutant: the key has no hour, and a failed update is not tried again.
OfferedBefore(o) == o.app = app
Offered(o) == o.app = app /\ o.hour = hour

\* agent_telemetry: the report is stored, then queue_automatic_agent_update.
Receive(body) ==
  /\ told' = [report |-> body, at |-> hour, server |-> app]
  /\ offers' = IF body.auto /\ Required(body.version) /\ \A i \in DOMAIN offers : ~Offered(offers[i])
               THEN Append(offers, [hour |-> hour, app |-> app, status |-> "queued",
                                    allow |-> body.version = Legacy,
                                    due |-> agent.version < app \/ body = kept])
               ELSE offers

Report ==
  /\ \/ Receive(agent) /\ UNCHANGED kept
     \/ kept' = agent /\ UNCHANGED <<told, offers>>
  /\ UNCHANGED <<hour, app, agent, backup, changes, been, lowered>>
ReportAgain ==
  /\ kept # None /\ Receive(kept) /\ kept' = None
  /\ UNCHANGED <<hour, app, agent, backup, changes, been, lowered>>

\* agent.update: the command is run, perhaps much later.
Run(i) ==
  /\ offers[i].status = "queued"
  /\ offers' = [offers EXCEPT ![i].status = "ended"]
  /\ Check(offers[i].allow)
  /\ UNCHANGED <<hour, app, kept, told, changes>>

Change == changes < MaxChanges /\ changes' = changes + 1
\* Another version of the server.
Deploy ==
  /\ Change /\ app' \in Versions \ {app}
  /\ UNCHANGED <<hour, agent, backup, kept, told, offers, been, lowered>>
\* perform_rollback: the version that ran is remembered as the available one.
Rollback ==
  /\ Change /\ backup # 0
  /\ agent' = [Result("rollback", "rollback requested", agent.version) EXCEPT !.version = backup]
  /\ been' = (been \/ backup = Legacy)
  /\ UNCHANGED <<hour, app, backup, kept, told, offers, lowered>>
\* The installer: the result of the last check stays.
Install ==
  /\ Change /\ \E v \in Versions : agent' = [agent EXCEPT !.version = v] /\ been' = (been \/ v = Legacy)
  /\ UNCHANGED <<hour, app, backup, kept, told, offers, lowered>>
SetAuto ==
  /\ Change /\ agent' = [agent EXCEPT !.auto = ~@]
  /\ UNCHANGED <<hour, app, backup, kept, told, offers, been, lowered>>

OfferNext ==
  \/ Tick
  \/ Scheduled
  \/ Report
  \/ ReportAgain
  \/ \E i \in DOMAIN offers : Run(i)
  \/ Deploy
  \/ Rollback
  \/ Install
  \/ SetAuto

OfferSpec == OfferInit /\ [][OfferNext]_offerVars

-----------------------------------------------------------------------------
(* agent_update_view: what the page says. *)

Harmless(a) == a.error = "downgrade blocked" /\ a.status = "skipped" /\ a.available < a.version
\* Mutant: what is not an update is an error.
StateOfError(a) ==
  IF a.status = "failed" \/ a.error # "" THEN "error"
  ELSE IF a.available = 0 THEN "unknown"
  ELSE IF a.available > a.version THEN "available"
  ELSE IF a.available = a.version THEN "current" ELSE "source_older"
State(a) ==
  IF a.status = "failed" \/ (a.error # "" /\ ~Harmless(a)) THEN "error"
  ELSE IF a.available = 0 THEN "unknown"
  ELSE IF a.available > a.version THEN "available"
  ELSE IF a.available = a.version THEN "current" ELSE "source_older"

\* An automatic update is asked for at most once an hour (agent_updates.py:
\* queue_automatic_agent_update), again in the next if the agent is not there yet;
\* unless a report was sent again, only of an agent that is older than the server.
\* Through checks and commands, however late they run, an agent only becomes older
\* if it has been the legacy version.  A result of a check is shown as
\* an error when it was one, and a version as available only if it is newer
\* (agent_versions.py: agent_update_view; docs/agent-update-status-1.0.1.md:11: only a
\* blocked downgrade to a source that is older is harmless, other errors are not hidden).
OffersAreDue ==
  /\ \A i, j \in DOMAIN offers :
       i < j => offers[i].app # offers[j].app \/ offers[i].hour # offers[j].hour
  /\ \A i \in DOMAIN offers : offers[i].due
  /\ (told # None /\ told.report.auto /\ told.report.version < told.server) =>
       \E i \in DOMAIN offers : offers[i].app = told.server /\ offers[i].hour = told.at
  /\ ~lowered
  /\ told # None =>
       LET a == told.report
       IN /\ a.status \in {"failed", "rollback"} => State(a) = "error"
          /\ State(a) = "available" => a.version < a.available
          /\ (a.status = "skipped" /\ a.available < a.version) => State(a) # "error"


-----------------------------------------------------------------------------
(* Why they are: the inductive invariant. *)

Agents ==
  [version : Nat, auto : BOOLEAN, status : {"", "failed", "skipped", "rollback", "success"},
   error : {"", "failed", "downgrade blocked", "install failed", "rollback requested"},
   available : Nat]
Offer == [hour : Nat, app : Nat, status : {"queued", "ended"}, allow : BOOLEAN, due : BOOLEAN]
OfferTypeOK ==
  /\ hour \in Nat /\ app \in Nat /\ backup \in Nat
  /\ agent \in Agents /\ kept \in Agents \cup {None}
  /\ told \in [report : Agents, at : Nat, server : Nat] \cup {None}
  /\ offers \in Seq(Offer) /\ been \in BOOLEAN /\ lowered \in BOOLEAN

\* The result of a check is told apart from its errors.
ResultOK(a) ==
  /\ a.status \in {"failed", "rollback"} => a.status = "failed" \/ a.error # ""
  /\ a.status = "skipped" => a.error \in {"", "downgrade blocked"}
ResultsOK ==
  /\ ResultOK(agent) /\ (kept # None => ResultOK(kept))
  /\ told # None => ResultOK(told.report)

\* Only of an agent that has been the legacy version it is asked to go back.
LegacyOK ==
  /\ agent.version = Legacy => been
  /\ kept # None /\ kept.version = Legacy => been
  /\ \A i \in DOMAIN offers : offers[i].allow => been

OfferInv == OfferTypeOK /\ ResultsOK /\ LegacyOK /\ OffersAreDue
=============================================================================
