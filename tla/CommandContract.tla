-------------------------- MODULE CommandContract --------------------------
(***************************************************************************)
(* What command delivery promises to whoever queued a command, without     *)
(* polls, leases, handlers or journals: a job is delivered a bounded       *)
(* number of times, and only while it is undecided and has not started; it *)
(* starts at most once, and only after a delivery; it is declared a        *)
(* success only if it started.  A verdict may come at any moment and may   *)
(* be revised.                                                             *)
(***************************************************************************)
EXTENDS Integers

CONSTANTS Jobs, MaxDeliveries

VARIABLE job

Verdicts == {"open", "success", "failed", "expired"}
Stages == {"none", "submitted", "started"}
JobStates == [stage : Stages, deliveries : Nat, verdict : Verdicts]
NewJob == [stage |-> "none", deliveries |-> 0, verdict |-> "open"]

Init == job = [j \in Jobs |-> NewJob]

Submit(j) ==
  /\ job[j].stage = "none"
  /\ job'[j] = [job[j] EXCEPT !.stage = "submitted"]

Deliver(j) ==
  /\ job[j].stage = "submitted"
  /\ job[j].verdict = "open"
  /\ job[j].deliveries < MaxDeliveries
  /\ job'[j] = [job[j] EXCEPT !.deliveries = @ + 1]

Start(j) ==
  /\ job[j].stage = "submitted"
  /\ job[j].deliveries > 0
  /\ job'[j] = [job[j] EXCEPT !.stage = "started"]

Decide(j) ==
  /\ job[j].stage # "none"
  /\ \E v \in Verdicts :
       /\ v = "success" => job[j].stage = "started"
       /\ job'[j] = [job[j] EXCEPT !.verdict = v]

\* One transaction may move several jobs, each by a step of its own.
Next ==
  /\ job' \in [Jobs -> JobStates]
  /\ \A j \in Jobs :
       \/ job'[j] = job[j]
       \/ Submit(j) \/ Deliver(j) \/ Start(j) \/ Decide(j)

Spec == Init /\ [][Next]_job
=============================================================================
