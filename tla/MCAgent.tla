------------------------------ MODULE MCAgent -------------------------------
(***************************************************************************)
(* What the agent of a router works through, each looked at alone:         *)
(* installations that may fail at any step; on a second router (the        *)
(* variables in "two") upgrades that the power interrupts; a certification *)
(* of the router by the hardware tests; batches of commands of different   *)
(* kinds (CommandLifecycle); and the policies of clients, from what is     *)
(* wanted to what it has put in force.  The parts that rest have no state, *)
(* or stay where they begin.                                               *)
(***************************************************************************)
EXTENDS AgentUpdate
LOCAL INSTANCE TLC

CONSTANTS
  Capable, Selections, MaxBuild, MaxRuns, Gaps,        \* Certification
  NumCommands, BatchLimit, MaxDeliveries, LeaseTicks, TtlTicks, Slots, MaxOrphans,
  MaxVerifiers, Transactional, Transient, Unsupported, \* CommandLifecycle
  Policies, Owned, Requesters, MaxJobs, MaxTries       \* ClientPolicies

\* Those of CommandLifecycle; a worktree has a version, a profile a policy, and no
\* policy is called like the marks of a request.
ASSUME AgentAssumption ==
  /\ {NumCommands, MaxOrphans} \subseteq Nat
  /\ {BatchLimit, MaxDeliveries, LeaseTicks, TtlTicks, MaxVerifiers} \subseteq Nat \ {0}
  /\ Transactional \subseteq 1..NumCommands /\ Unsupported \subseteq 1..NumCommands
  /\ Transient \subseteq (1..NumCommands) \ Transactional
  /\ MaxBuild \in Nat \ {0} /\ MaxRuns \in Nat
  /\ Policies # {} /\ {"kept", "same", "gone", "nothing"} \cap (Policies \cup Owned) = {}

VARIABLES
  part,  \* which of them is at work
  entry2, gen2, current2, alias2, legacy2, backup2, running2, pc2, target2, undoing2,
  restores2, cuts2,
  worktree, tested, token, late, run, report, saved, ranOn, runs, gaps,
  status, retryCount, age, idle, handler, orphans, step, cur, batch, reply, verifiers,
  results, unconfirmed, tx, executions, belated,
  watched, profile, member, own, drafts, jobs, inbox, router, told, loose

two == <<entry2, gen2, current2, alias2, legacy2, backup2, running2, pc2, target2, undoing2,
         restores2, cuts2>>
certification == <<worktree, tested, token, late, run, report, saved, ranOn, runs, gaps>>
commands == <<status, retryCount, age, idle, handler, orphans, step, cur, batch, reply,
              verifiers, results, unconfirmed, tx, executions, belated>>
policies == <<watched, profile, member, own, drafts, jobs, inbox, router, told, loose>>

U == INSTANCE AgentUpdate
       WITH MaxRestores <- 1, MaxCuts <- 2, Mishaps <- {"cut", "install", "backup"},
            Downgrades <- FALSE,
            entry <- entry2, gen <- gen2, current <- current2, alias <- alias2,
            legacy <- legacy2, backup <- backup2, running <- running2, pc <- pc2,
            target <- target2, undoing <- undoing2, restores <- restores2, cuts <- cuts2
H == INSTANCE Certification WITH router <- tested
B == INSTANCE CommandLifecycle WITH pc <- step
C == INSTANCE ClientPolicies

\* Requests that are served at the same time are alike.
Alike == Permutations(Requesters)

MCInit ==
  /\ Init /\ B!Init
  /\ part \in {"errors", "cuts", "certification", "batch", "policies"}
  /\ IF part = "cuts" THEN U!Init
     ELSE entry2 = "none" /\ gen2 = "none" /\ current2 = "none" /\ alias2 = "none"
          /\ legacy2 = "none" /\ backup2 = "none" /\ running2 = "none" /\ pc2 = "none"
          /\ target2 = "none" /\ undoing2 = "none" /\ restores2 = "none" /\ cuts2 = "none"
  /\ IF part = "certification" THEN H!CertInit
     ELSE worktree = "none" /\ tested = "none" /\ token = "none" /\ late = "none"
          /\ run = "none" /\ report = "none" /\ saved = "none" /\ ranOn = "none"
          /\ runs = "none" /\ gaps = "none"
  /\ IF part = "policies" THEN C!PolicyInit
     ELSE watched = "none" /\ profile = "none" /\ member = "none" /\ own = "none"
          /\ drafts = "none" /\ jobs = "none" /\ inbox = "none" /\ router = "none"
          /\ told = "none" /\ loose = "none"

MCNext ==
  /\ UNCHANGED part
  /\ \/ part = "errors" /\ Next /\ UNCHANGED <<two, certification, commands, policies>>
     \/ part = "cuts" /\ U!Next /\ UNCHANGED <<vars, certification, commands, policies>>
     \/ part = "certification" /\ H!CertNext /\ UNCHANGED <<vars, two, commands, policies>>
     \/ part = "batch" /\ B!Next /\ UNCHANGED <<vars, two, certification, policies>>
     \/ part = "policies" /\ C!PolicyNext /\ UNCHANGED <<vars, two, certification, commands>>

MCSpec == MCInit /\ [][MCNext]_<<part, vars, two, certification, commands, policies>>

\* Type invariant.
Typed ==
  /\ part = "errors" => TypeOK
  /\ part = "cuts" => U!TypeOK
  /\ part = "certification" => H!CertTypeOK

\* After a power cut no agent runs with the libraries of a later version.
NeverLaterLibraries == part = "cuts" => U!NoLaterLibraries
\* A certification leaves the router as it found it, and certifies what it tested.
RouterIsGivenBack == part = "certification" => H!RouterIsGivenBack /\ H!CertifiedUnlessMerged
\* A resumed certification keeps the results of the earlier run.
ResumeKeepsOthers == [][part = "certification" => H!KeepsOthers]_certification
\* What the daemon has yet to run is overtaken by a later command only if its first
\* delivery was lost, or if it appeared after that one had been handed out.
BatchKeepsOrder == B!KeepsOrder
\* A policy that is shown as applied is in force on the router.
AppliedIsInForce == part = "policies" => C!AppliedIsInForce
\* The newest command of a client asks for what is wanted now.
WantedIsAsked == part = "policies" => C!WantedIsAsked
=============================================================================
