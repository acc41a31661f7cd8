---------------------------- MODULE RouterHealth ----------------------------
(***************************************************************************)
(* What the server says of the health of a router, in four places: the     *)
(* items of the page and their sum, the list of alerts, the incidents that *)
(* reports open and end, and the state of the data.  Each has conditions   *)
(* of its own, and the page is also looked at long after the report.       *)
(*                                                                         *)
(* A value is represented by where it lies between the thresholds.         *)
(***************************************************************************)
EXTENDS Integers, FiniteSets

CONSTANTS
  StaleAfter,  \* TELEMETRY_STALE_SECONDS, in ticks
  Cpus,        \* numbers of processors
  MaxOdd       \* bound: fields of a report that are not as those of a quiet router

VARIABLES
  payload,   \* the newest report, or None
  age,       \* its age, to StaleAfter + 1
  open       \* codes of the open incidents "telemetry.<code>"

healthVars == <<payload, age, open>>

None == [none |-> TRUE]
Absent == -1

\* Memory and storage in percent; temperature and its thresholds, 0 for none;
\* load in tenths.
Values ==
  [wan |-> {"up", "down", "absent"}, dns |-> BOOLEAN,
   dnsmasq |-> {"running", "active", "started", "stopped", "failed", "inactive", ""},
   radios |-> {"absent", "none", "off", "on"},
   memory |-> {Absent, 79, 80, 89, 90}, storage |-> {Absent, 84, 85, 94, 95},
   heat |-> {Absent, 69, 70, 84, 85}, warm |-> {0, 70}, hot |-> {0, 85},
   load |-> {14, 15, 29, 30}, cpus |-> Cpus, errors |-> BOOLEAN,
   status |-> {"running", "ok", "degraded"}]
Quiet == [wan |-> "up", dns |-> TRUE, dnsmasq |-> "running", radios |-> "on",
          memory |-> 79, storage |-> 84, heat |-> 69, warm |-> 70, hot |-> 85,
          load |-> 14, cpus |-> 1, errors |-> FALSE, status |-> "running"]

-----------------------------------------------------------------------------
(* build_health_snapshot: the state of each item, and the alerts, each a level *)
(* and a code.                                                                 *)

Alert(level, code) == [level |-> level, code |-> code]

Stale(a) == a > StaleAfter
Link(p, a) == IF p.status \notin {"running", "online", "ok"} THEN "warning"
              ELSE IF Stale(a) THEN "critical" ELSE "ok"
Wan(p) == [up |-> "ok", down |-> "critical", absent |-> "unsupported"][p.wan]

Servers(p) == p.wan # "absent" /\ p.dns
Dns(p) == IF Servers(p) /\ p.dnsmasq \in {"running", "active", "started"} THEN "ok"
          ELSE IF p.dnsmasq \in {"stopped", "failed", "inactive"} THEN "critical"
          ELSE IF Servers(p) THEN "ok" ELSE "unknown"
Wifi(p) == [absent |-> "unsupported", on |-> "ok", off |-> "warning", none |-> "unknown"][p.radios]

Level(value, high, critical) ==
  IF value = Absent THEN "unknown"
  ELSE IF value >= critical THEN "critical" ELSE IF value >= high THEN "warning" ELSE "ok"
Memory(p) == Level(p.memory, 80, 90)
Storage(p) == Level(p.storage, 85, 95)
Temperature(p) ==
  IF p.heat = Absent THEN "unsupported"
  ELSE IF p.hot # 0 /\ p.heat >= p.hot THEN "critical"
  ELSE IF p.warm # 0 /\ p.heat >= p.warm THEN "warning" ELSE "ok"
Loaded(p) == 2 * p.load >= 30 * p.cpus

Items(p, a) ==
  IF p = None THEN [item \in {"agent", "wan", "dns", "wifi", "temperature", "memory", "storage"} |->
                      "unknown"]
  ELSE [agent |-> Link(p, a), wan |-> Wan(p), dns |-> Dns(p), wifi |-> Wifi(p),
        temperature |-> Temperature(p), memory |-> Memory(p), storage |-> Storage(p)]

Levels(level, code) == IF level \in {"warning", "critical"} THEN {Alert(level, code)} ELSE {}
Heat(p) == CASE Temperature(p) = "critical" -> {Alert("critical", "temperature.critical")}
             [] Temperature(p) = "warning" -> {Alert("warning", "temperature.warning")}
             [] OTHER -> {}
Alerts(p, a) ==
  IF p = None THEN {Alert("warning", "no_data")}
  ELSE (IF Stale(a) THEN {Alert("critical", "stale")} ELSE {})
       \cup Levels(Wan(p), "wan") \cup Levels(Dns(p), "dns")
       \cup Levels(Memory(p), "memory") \cup Levels(Storage(p), "storage")
       \cup Heat(p)
       \cup (IF Loaded(p) THEN {Alert("warning", "load.high")} ELSE {})

Is(state, p, a) == \E item \in DOMAIN Items(p, a) : Items(p, a)[item] = state
\* Mutant: only the alerts of the highest level are looked at.
OverallLast(p, a) == IF p = None THEN "warning" ELSE IF Is("warning", p, a) THEN "warning"
                     ELSE IF Is("critical", p, a) THEN "critical" ELSE "ok"
Overall(p, a) ==
  IF p = None THEN "warning"
  ELSE IF Is("critical", p, a) THEN "critical" ELSE IF Is("warning", p, a) THEN "warning" ELSE "ok"

-----------------------------------------------------------------------------
(* telemetry_data_state, and subsystem_data_state of a block. *)

DataState(p, a) == IF p = None \/ Stale(a) THEN "stale"
                   ELSE IF p.errors THEN "error" ELSE "observed"
\* The block "wifi", which is absent where there is no radio.
WifiState(p, a) == IF DataState(p, a) = "stale" THEN "stale"
                   ELSE IF p.radios = "absent" THEN "unsupported" ELSE "observed"

-----------------------------------------------------------------------------
HealthInit == payload = None /\ age = StaleAfter + 1 /\ open = {}

Codes(alerts) == {alert.code : alert \in alerts}
\* Mutant: the end of one alert is forgotten.
EndedNotDns == {"memory", "storage", "wan", "stale", "load.high", "temperature.warning",
                "temperature.critical"}
\* The incidents that a report without their alert ends.
Ended == {"memory", "storage", "wan", "dns", "stale", "load.high", "temperature.warning",
          "temperature.critical"}

\* agent_telemetry: the alerts are those of the report at the age of 0.
Report(new) ==
  /\ payload' = new /\ age' = 0
  /\ open' = (open \cup Codes(Alerts(new, 0))) \ (Ended \ Codes(Alerts(new, 0)))

Tick == payload # None /\ age <= StaleAfter /\ age' = age + 1 /\ UNCHANGED <<payload, open>>

HealthNext ==
  \/ payload = None /\ Report(Quiet)
  \/ payload # None /\ \E field \in DOMAIN Values : \E value \in Values[field] :
       LET new == [payload EXCEPT ![field] = value]
       IN Cardinality({f \in DOMAIN Values : new[f] # Quiet[f]}) <= MaxOdd /\ Report(new)
  \/ Tick

HealthSpec == HealthInit /\ [][HealthNext]_healthVars

-----------------------------------------------------------------------------
\* The four agree (health_monitoring.py: build_health_snapshot, api/telemetry.py:
\* agent_telemetry, data_state.py): the open incidents are the alerts of the last
\* report, whatever the earlier ones were; the sum is critical when an alert is, and
\* never "ok" when there is one - except that a high load has no item, and that a
\* status of the agent other than "running" hides a lost connection; data that is
\* stale is shown as stale everywhere.
HealthIsTold ==
  LET alerts == Alerts(payload, age)
      hidden == payload # None /\ payload.status = "degraded"
  IN /\ open = IF payload = None THEN {} ELSE Codes(Alerts(payload, 0))
     /\ Overall(payload, age) = "critical" <=>
          \E alert \in alerts : alert.level = "critical" /\ ~(hidden /\ alert.code = "stale")
     /\ Overall(payload, age) = "ok" => Codes(alerts) \subseteq {"load.high"}
     /\ DataState(payload, age) = "stale" <=> Codes(alerts) \cap {"stale", "no_data"} # {}
     /\ DataState(payload, age) = "stale" => WifiState(payload, age) = "stale"


-----------------------------------------------------------------------------
(* Why they agree: the inductive invariant. *)

Payloads ==
  [wan : Values.wan, dns : Values.dns, dnsmasq : Values.dnsmasq, radios : Values.radios,
   memory : Values.memory, storage : Values.storage, heat : Values.heat, warm : Values.warm,
   hot : Values.hot, load : Values.load, cpus : Cpus \cup {1}, errors : Values.errors,
   status : Values.status]
HealthInv ==
  \/ payload = None /\ age = StaleAfter + 1 /\ open = {}
  \/ payload \in Payloads /\ age \in Nat /\ open = Codes(Alerts(payload, 0))
=============================================================================
