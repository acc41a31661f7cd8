---------------------------- MODULE Automations ----------------------------
(***************************************************************************)
(* The limits of one automation rule.  A report of a router is a           *)
(* transaction that may emit several events of the kind the rule waits     *)
(* for; each event starts a run of the rule or is skipped.                 *)
(* Reports of different routers run at the same time.  The rule is an      *)
(* object that a report loads once; the runs and whether the rule is       *)
(* enabled are read for every event.                                       *)
(*                                                                         *)
(* Left out: what a rule may do (checked when it is written and again,     *)
(* with the same outcome, when it runs), its conditions on the event, the  *)
(* rows that only tell of a skipped event, and dry runs (which count like  *)
(* runs that are never answered).                                          *)
(***************************************************************************)
EXTENDS Integers, Sequences, FiniteSets

CONSTANTS
  Reporters,    \* reports at the same time
  Cooldowns, Limits,   \* values of cooldown_seconds and max_runs_per_hour
  Hour,
  MaxTime, MaxEvents, MaxEdits  \* bounds

VARIABLES
  time,
  rule,     \* the row, or Gone
  ran,      \* rows of automation_runs, in the order of their commit
  reports,  \* what each report holds; its number is that of its first event
  nr, edits,  \* number of events and of edits so far
  mingled   \* history: reports under way at the same time as another one, from its
            \* first look at the rule to its commit

automationVars == <<time, rule, ran, reports, nr, edits, mingled>>

-----------------------------------------------------------------------------
Gone == [enabled |-> FALSE, cooldown |-> 0, limit |-> 0, last |-> 0]
Unread == Gone
Rules == [enabled : BOOLEAN, cooldown : Cooldowns, limit : Limits, last : {-1}]
Idle == [nr |-> 0, at |-> -1, seen |-> Unread, own |-> <<>>]
Looking == {r \in Reporters : reports[r].seen # Unread}

AutomationInit ==
  /\ time = 0 /\ rule \in {r \in Rules : r.enabled}
  /\ ran = <<>> /\ nr = 0 /\ edits = 0 /\ mingled = {}
  /\ reports = [r \in Reporters |-> Idle]

Tick ==
  /\ time < MaxTime /\ time' = time + 1
  /\ UNCHANGED <<rule, ran, reports, nr, edits, mingled>>

\* emit_event takes the time, and run_automations looks at the rule later.
Emit(r) ==
  /\ reports[r].at = -1
  /\ nr < MaxEvents /\ nr' = nr + 1
  /\ reports' = [reports EXCEPT ![r].nr = IF @ = 0 THEN nr + 1 ELSE @, ![r].at = time]
  /\ UNCHANGED <<time, rule, ran, edits, mingled>>

Seen(r) == IF reports[r].seen = Unread THEN rule ELSE reports[r].seen

Cool(r) == Seen(r).last = -1 \/ Seen(r).last <= reports[r].at - Seen(r).cooldown

\* The runs a report can see: those committed and its own.
Visible(r) == ran \o reports[r].own
Since(runs, t) == {i \in DOMAIN runs : runs[i].status = "queued" /\ runs[i].at >= t - Hour}
\* Mutant: the limit is compared with the runs the report itself has made.
AllowedByOwn(r) ==
  rule.enabled /\ Cool(r) /\ Cardinality(Since(reports[r].own, reports[r].at)) < Seen(r).limit
Allowed(r) == rule.enabled /\ Cool(r) /\ Cardinality(Since(Visible(r), reports[r].at)) < Seen(r).limit

Run(r, status) == [at |-> reports[r].at, report |-> reports[r].nr, status |-> status,
                   cooldown |-> Seen(r).cooldown, limit |-> Seen(r).limit]
Mingle(r) == mingled' = IF Looking \ {r} = {} THEN mingled
                        ELSE mingled \cup {reports[x].nr : x \in Looking \cup {r}}

\* Mutant: the time of the run is not noted.
StartUnnoted(r) ==
  /\ reports[r].at # -1 /\ Allowed(r)
  /\ \E status \in {"queued", "ended"} :
       reports' = [reports EXCEPT ![r].at = -1, ![r].seen = Seen(r),
                                  ![r].own = Append(@, Run(r, status))]
  /\ Mingle(r)
  /\ UNCHANGED <<time, rule, ran, nr, edits>>

\* run_automations: a run starts; its command may be refused at once.
Start(r) ==
  /\ reports[r].at # -1 /\ Allowed(r)
  /\ \E status \in {"queued", "ended"} :
       reports' = [reports EXCEPT ![r].at = -1,
                                  ![r].seen = [Seen(r) EXCEPT !.last = reports[r].at],
                                  ![r].own = Append(@, Run(r, status))]
  /\ Mingle(r)
  /\ UNCHANGED <<time, rule, ran, nr, edits>>
\* Nothing starts: for an enabled rule that was looked at the event is skipped.
Skip(r) ==
  /\ reports[r].at # -1 /\ ~Allowed(r)
  /\ reports' = [reports EXCEPT ![r].at = -1,
                                ![r].seen = IF rule.enabled THEN Seen(r) ELSE @]
  /\ IF rule.enabled THEN Mingle(r) ELSE UNCHANGED mingled
  /\ UNCHANGED <<time, rule, ran, nr, edits>>

\* The time of the last run is written if the report has changed it.  A report
\* whose rule was deleted meanwhile cannot store its runs and is rolled back.
Commit(r) ==
  /\ reports[r].nr # 0 /\ reports[r].at = -1
  /\ IF rule = Gone THEN UNCHANGED <<ran, rule>>
     ELSE /\ ran' = ran \o reports[r].own
          /\ rule' = IF reports[r].own = <<>> THEN rule
                     ELSE [rule EXCEPT !.last = reports[r].seen.last]
  /\ reports' = [reports EXCEPT ![r] = Idle]
  /\ UNCHANGED <<time, nr, edits, mingled>>

\* command_result: the router has answered.
Complete(i) ==
  /\ ran[i].status = "queued"
  /\ ran' = [ran EXCEPT ![i].status = "ended"]
  /\ UNCHANGED <<time, rule, reports, nr, edits, mingled>>

\* update_automation_rule and web_toggle_automation.
Update ==
  /\ rule # Gone /\ edits < MaxEdits /\ edits' = edits + 1
  /\ \E new \in Rules : rule' = [new EXCEPT !.last = rule.last]
  /\ UNCHANGED <<time, ran, reports, nr, mingled>>
\* The runs of a rule are deleted with it.
Delete ==
  /\ rule # Gone
  /\ rule' = Gone /\ ran' = <<>>
  /\ UNCHANGED <<time, reports, nr, edits, mingled>>

AutomationNext ==
  \/ Tick
  \/ \E r \in Reporters : Emit(r)
  \/ \E r \in Reporters : Start(r)
  \/ \E r \in Reporters : Skip(r)
  \/ \E r \in Reporters : Commit(r)
  \/ \E i \in DOMAIN ran : Complete(i)
  \/ Update
  \/ Delete

AutomationSpec == AutomationInit /\ [][AutomationNext]_automationVars

-----------------------------------------------------------------------------
Alone(run) == run.report \notin mingled

\* Only reports under way at the same time can break the limits of a rule
\* (events.py: run_automations): a run that starts after one of a report that was
\* alone keeps its cooldown, also within one report and after the rule was
\* changed; and the runs that started in an hour and have not been answered are
\* no more than the limit of the last one.
Hourly(runs, j) ==
  {i \in 1..j : runs[i].status = "queued" /\ runs[i].at >= runs[j].at - Hour}
KeptIn(runs) ==
  \A j \in DOMAIN runs :
    /\ \A i \in 1..(j - 1) : Alone(runs[i]) => runs[j].at >= runs[i].at + runs[j].cooldown
    /\ Alone(runs[j]) => Cardinality(Hourly(runs, j)) <= runs[j].limit
LimitsKept == KeptIn(ran)


-----------------------------------------------------------------------------
(* Why they are kept: the inductive invariant. *)

Loaded == [enabled : BOOLEAN, cooldown : Cooldowns, limit : Limits, last : Nat \cup {-1}]
Runs == [at : Nat, report : Nat, status : {"queued", "ended"}, cooldown : Cooldowns, limit : Limits]
AutomationTypeOK ==
  /\ time \in Nat /\ nr \in Nat /\ rule \in Loaded \cup {Gone} /\ ran \in Seq(Runs)
  /\ reports \in [Reporters -> [nr : Nat, at : Nat \cup {-1}, seen : Loaded \cup {Unread},
                                own : Seq(Runs)]]

\* A report has a number from its first event on; it has loaded the rule when
\* it has runs, and the runs are its own.
ReportsOK ==
  \A r \in Reporters :
    /\ r \in Looking => reports[r].seen.enabled
    /\ r \in Looking \/ reports[r].at # -1 => reports[r].nr # 0
    /\ r \notin Looking => reports[r].own = <<>>
    /\ \A k \in DOMAIN reports[r].own : reports[r].own[k].report = reports[r].nr

\* Reports that look at the same time know of each other.
MingledOK == \A r, q \in Looking : r # q => reports[r].nr \in mingled

\* Whoever looks at the rule knows of the runs that count.
Known(runs, last) == \A i \in DOMAIN runs : Alone(runs[i]) => last >= runs[i].at
LastIsKnown ==
  rule # Gone => /\ Known(ran, rule.last)
                 /\ \A r \in Looking : Known(Visible(r), reports[r].seen.last)

AutomationInv ==
  /\ AutomationTypeOK /\ ReportsOK /\ MingledOK /\ LastIsKnown
  /\ rule = Gone => ran = <<>>
  /\ LimitsKept
  /\ rule # Gone => \A r \in Reporters : KeptIn(Visible(r))
=============================================================================
