--------------------------- MODULE ClientPresence ---------------------------
(***************************************************************************)
(* Whether a client of a router is online.  Each telemetry report tells    *)
(* what the router knows of the client: leases, entries of the neighbour   *)
(* table, Wi-Fi association, traffic counters.  The server turns it into   *)
(* evidence (normalize_clients_summary), moves the client's presence       *)
(* (sync_client_inventory, apply_client_presence) and logs the changes.    *)
(* What is shown also depends on the time that has passed since            *)
(* (effective_client_presence).                                            *)
(***************************************************************************)
EXTENDS Integers, Sequences, SequencesExt

CONSTANTS
  OnlineTtl, RecentTtl,  \* client_presence_ttl, client_recent_ttl
  Retention,             \* CLIENT_ACTIVITY_RETENTION
  MaxTime, MaxBytes      \* bounds

VARIABLES
  clock,
  client,  \* the NetworkClient, or Unknown
  sample,  \* the newest traffic sample, 0 for none
  log      \* the activity of the client, oldest first

presenceVars == <<clock, client, sample, log>>

Never == -1
Unknown == [known |-> FALSE]
\* The NetworkClient.
Client(state, source, observed, confirmed, until, expires) ==
  [known |-> TRUE, state |-> state, online |-> state = "online", source |-> source,
   observed |-> observed, confirmed |-> confirmed, until |-> until, expires |-> expires]
New == Client("offline", "none", Never, Never, Never, Never)

-----------------------------------------------------------------------------
(* What one report says of the client. *)

Confirmed == {"REACHABLE"}
Preferred == Confirmed \cup {"STALE"}

\* One MAC has an entry per address: a later entry replaces an earlier one,
\* but a failed one does not replace one that answered.
Merged(neighbours) ==
  FoldLeft(LAMBDA state, entry :
             IF entry \in Preferred \/ state \notin Preferred THEN entry ELSE state,
           "none", neighbours)
Evidence(report) ==
  LET state == IF report.wifi THEN "REACHABLE" ELSE Merged(report.neighbours) IN
  CASE state \in Confirmed -> "confirmed"
    [] state = "STALE" -> "recent"
    [] state = "FAILED" -> "offline"
    [] OTHER -> "unknown"

NeighbourStates == {"REACHABLE", "STALE", "FAILED"}
\* A lease names the client without evidence; bytes is 0 without counters.
Reports == [lease : BOOLEAN, wifi : BOOLEAN,
            neighbours : BoundedSeq(NeighbourStates, 2), bytes : 0..MaxBytes]
Names(report) == report.lease \/ report.wifi \/ report.neighbours # <<>>

-----------------------------------------------------------------------------
(* Presence. *)

Effective(c, now) ==
  IF c.state = "offline" \/ c.expires = Never \/ now > c.expires THEN "offline"
  ELSE IF c.online /\ c.until # Never /\ now <= c.until THEN "online"
  ELSE "recent"

\* Mutant: any evidence renews what was confirmed.
ApplyAndRenew(c, evidence, source, now) ==
  CASE evidence = "confirmed" \/ (evidence = "recent" /\ c.until # Never /\ now <= c.until) ->
         Client("online", source, now, IF evidence = "confirmed" THEN now ELSE c.confirmed,
                now + OnlineTtl, now + RecentTtl)
    [] evidence = "recent" ->
         Client("recent", source, now, c.confirmed, c.until, now + RecentTtl)
    [] evidence = "offline" -> Client("offline", source, now, c.confirmed, Never, now)
    [] OTHER -> c
\* Mutant: an entry that stays stale is an observation each time.
ApplyRepeatedly(c, evidence, source, now) ==
  CASE evidence = "confirmed" ->
         Client("online", source, now, now, now + OnlineTtl, now + RecentTtl)
    [] evidence = "recent" ->
         Client("recent", source, c.observed, c.confirmed, c.until, now + RecentTtl)
    [] evidence = "offline" -> Client("offline", source, now, c.confirmed, Never, now)
    [] OTHER -> c
\* apply_client_presence.
Apply(c, evidence, source, now) ==
  CASE evidence = "confirmed" ->
         Client("online", source, now, now, now + OnlineTtl, now + RecentTtl)
    [] evidence = "recent" ->
         LET still == c.until # Never /\ now <= c.until
             repeated == c.source = "stale"
         IN Client(IF still THEN "online" ELSE "recent", source,
                   IF repeated THEN c.observed ELSE now, c.confirmed, c.until,
                   IF repeated THEN c.expires ELSE now + RecentTtl)
    [] evidence = "offline" -> Client("offline", source, now, c.confirmed, Never, now)
    [] OTHER -> c

\* Mutant: the log keeps the oldest entries.
KeptOldest(entries) == SubSeq(entries, 1, IF Len(entries) < Retention THEN Len(entries) ELSE Retention)
Kept(entries) == SubSeq(entries, IF Len(entries) > Retention THEN Len(entries) - Retention + 1
                                 ELSE 1, Len(entries))

-----------------------------------------------------------------------------
PresenceInit == clock = 0 /\ client = Unknown /\ sample = 0 /\ log = <<>>

Tick == clock < MaxTime /\ clock' = clock + 1 /\ UNCHANGED <<client, sample, log>>

\* sync_client_inventory for a client that the report names.
Seen(report) ==
  LET before == IF client.known THEN Effective(client, clock) ELSE "none"
      grew == report.bytes > 0 /\ sample > 0 /\ report.bytes > sample
      evidence == IF grew THEN "confirmed" ELSE Evidence(report)
      source == IF evidence = "recent" THEN "stale" ELSE "other"
      after == Apply(IF client.known THEN client ELSE New, evidence, source, clock)
      now == Effective(after, clock)
  IN /\ Names(report)
     /\ client' = after
     /\ log' = IF now # before THEN Kept(Append(log, now)) ELSE log
     /\ sample' = IF report.bytes > 0 THEN report.bytes ELSE sample
     /\ UNCHANGED clock

\* sync_client_inventory for a client that it does not name.
Missing ==
  /\ client.known /\ client.state # "offline"
  /\ client.expires # Never /\ clock > client.expires
  /\ client' = Apply(client, "offline", "other", clock)
  /\ log' = Kept(Append(log, "offline"))
  /\ UNCHANGED <<clock, sample>>

\* delete_client: the record and its history.
Forget ==
  /\ client.known
  /\ client' = Unknown /\ sample' = 0 /\ log' = <<>>
  /\ UNCHANGED clock

PresenceNext ==
  \/ Tick
  \/ \E report \in Reports : Seen(report)
  \/ Missing
  \/ Forget

PresenceSpec == PresenceInit /\ [][PresenceNext]_presenceVars

-----------------------------------------------------------------------------
(* Properties. *)

Shown == IF client.known THEN Effective(client, clock) ELSE "none"

\* A client is shown online only within the time to live of its last
\* confirmation, whatever reports came since: stale entries, reports without
\* evidence or none at all.
OnlineIsConfirmed ==
  Shown = "online" => client.confirmed # Never /\ clock - client.confirmed <= OnlineTtl

\* A client that is shown at all was observed within the longer time to live.
\* An entry that merely stays stale in the neighbour table is one observation,
\* however often it is reported: without that a client that left would be
\* recent for ever.
PresentIsObserved ==
  Shown \in {"online", "recent"} => clock - client.observed <= RecentTtl

\* The log agrees with what is shown: the last entry of a client that is online
\* says so, and that of a client that is recent does not say offline.  (Of a
\* client that is offline it may say anything: a state that ends by time alone
\* is logged only when the client is missing from a report.)
LogAgrees ==
  /\ Shown = "online" => log # <<>> /\ Last(log) = "online"
  /\ Shown = "recent" => log # <<>> /\ Last(log) \in {"online", "recent"}
  /\ Len(log) <= Retention

\* What is shown of a client rests on evidence, and the log says the same.
PresenceIsEvident == OnlineIsConfirmed /\ PresentIsObserved /\ LogAgrees

-----------------------------------------------------------------------------
(* Why it does: the inductive invariant. *)

States == {"offline", "recent", "online"}
Times == Nat \cup {Never}
KnownClients ==
  [known : {TRUE}, state : States, online : BOOLEAN, source : {"none", "stale", "other"},
   observed : Times, confirmed : Times, until : Times, expires : Times]
PresenceTypeOK ==
  /\ clock \in Nat /\ sample \in Nat /\ client \in KnownClients \cup {Unknown}
  /\ log \in Seq(States)

\* A state ends with the evidence it rests on.
EndsInTime(c) ==
  /\ c.until # Never => c.confirmed # Never /\ c.until <= c.confirmed + OnlineTtl
  /\ c.expires # Never => c.expires <= c.observed + RecentTtl

PresenceInv == PresenceTypeOK /\ (client.known => EndsInTime(client)) /\ LogAgrees
=============================================================================
