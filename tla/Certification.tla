---------------------------- MODULE Certification ---------------------------
(***************************************************************************)
(* Hardware certification (scripts/hardware_certify.py): one run sends the *)
(* commands of the contract through the server to a real router, writes    *)
(* what it saw into a report, and puts the router back as it was.  A run   *)
(* may resume the report of an earlier one, may fail, and may be killed.   *)
(* The release gate reads the report (verify_release_readiness.py).        *)
(*                                                                         *)
(* Of the contract four commands stand for the rest: one that installs an  *)
(* agent, one that exchanges the device token, one that changes the        *)
(* configuration and one that stops the agent.                             *)
(***************************************************************************)
EXTENDS Integers, Sequences, SequencesExt

CONSTANTS
  Capable,     \* commands the router is able to execute
  Selections,  \* sets of commands a run may be asked for
  MaxBuild,    \* states of the worktree (bound)
  MaxRuns,     \* runs (bound)
  Gaps         \* what goes wrong beside failing commands: "late", "cut", "killed"

VARIABLES
  worktree,    \* its version and the fingerprint of its agent
  router,      \* what sysupgrade keeps, and the installed agent
  token,       \* device token that the server accepts
  late,        \* commands that timed out and are still to be executed
  run,         \* the current run
  report, saved,  \* in memory and on disk
  ranOn,       \* agent on which the result of each command was seen
  runs, gaps   \* runs started, gaps that have occurred

certVars == <<worktree, router, token, late, run, report, saved, ranOn, runs, gaps>>

-----------------------------------------------------------------------------
Order == <<"agent.update", "agent.rotate_token", "system.set_ntp", "agent.disconnect">>
Contract == ToSet(Order)
Statuses == {"not_run", "pass", "fail", "not_applicable"}

Found == [settings |-> "found", token |-> 0, enabled |-> TRUE, source |-> "release"]
NoRun == [step |-> "none", next |-> 1, selected |-> {}, resume |-> FALSE, start |-> Found,
          baseline |-> Found, source |-> "release", identity |-> 0]
FreshReport == [version |-> worktree.version, fingerprint |-> 0,
                merged |-> FALSE, commands |-> [c \in Contract |-> "not_run"]]
Steps == {"none", "facts", "loop", "execute", "reconnect", "restore", "unpacked", "done"}

\* Between runs: "done" after a complete restoration.
Idle == run.step \in {"none", "done"}

\* Type invariant.
CertTypeOK ==
  /\ worktree \in [version : 1..MaxBuild, fingerprint : 1..MaxBuild]
  /\ router.kept \in [settings : {"found", "changed"}, token : 0..token,
                      enabled : BOOLEAN, source : {"release", "candidate"}]
  /\ router.agent \in 1..MaxBuild
  /\ late \subseteq Contract /\ gaps \subseteq Gaps
  /\ run.step \in Steps /\ run.next \in 1..(Len(Order) + 1)
  /\ run.step # "execute" \/ run.next <= Len(Order)
  /\ {report, saved} \subseteq [version : 1..MaxBuild, fingerprint : 0..MaxBuild,
                                merged : BOOLEAN, commands : [Contract -> Statuses]]
  /\ ranOn \in [Contract -> 0..MaxBuild]
  /\ runs \in 0..MaxRuns

CertInit ==
  /\ worktree = [version |-> 1, fingerprint |-> 1]
  /\ router = [kept |-> Found, agent |-> 1]
  /\ token = 0 /\ late = {}
  /\ run = NoRun
  /\ report = FreshReport /\ saved = FreshReport
  /\ ranOn = [c \in Contract |-> 0]
  /\ runs = 0 /\ gaps = {}

Command == Order[run.next]
Goes(step) == run' = [run EXCEPT !.step = step]
RunEnds(step) == run' = [NoRun EXCEPT !.step = step, !.start = run.start] /\ report' = saved
\* One kind of gap in a behaviour (bound).
Gap(g) == g \in Gaps /\ gaps \subseteq {g} /\ gaps' = gaps \cup {g}

-----------------------------------------------------------------------------
\* The agent is edited, or the version is raised, between runs.
Edit ==
  /\ Idle
  /\ worktree.version + worktree.fingerprint <= MaxBuild
  /\ \/ worktree' = [worktree EXCEPT !.version = @ + 1]
     \/ worktree' = [worktree EXCEPT !.fingerprint = @ + 1]
  /\ UNCHANGED <<router, token, late, run, report, saved, ranOn, runs, gaps>>

\* deploy_worktree_agent, and load_report.
Deployed == [router EXCEPT !.agent = worktree.fingerprint]
Loaded(resume) == IF resume THEN saved ELSE FreshReport

\* Mutant: a resumed report is begun anew.
StartAfresh(selected, resume, deploy) ==
  /\ Idle /\ runs < MaxRuns
  /\ runs' = runs + 1
  /\ router' = IF deploy THEN Deployed ELSE router
  /\ report' = FreshReport
  /\ run' = [run EXCEPT !.step = "facts", !.selected = selected,
                        !.resume = resume, !.next = 1, !.start = router.kept]
  /\ UNCHANGED <<worktree, token, late, saved, ranOn, gaps>>

\* Mutant: the agent of the worktree is named in the report but not installed.
StartInstalled(selected, resume, deploy) ==
  /\ Idle /\ runs < MaxRuns
  /\ runs' = runs + 1
  /\ report' = IF deploy THEN [Loaded(resume) EXCEPT !.fingerprint = worktree.fingerprint]
               ELSE Loaded(resume)
  /\ run' = [run EXCEPT !.step = "facts", !.selected = selected,
                        !.resume = resume, !.next = 1, !.start = router.kept]
  /\ UNCHANGED <<worktree, router, token, late, saved, ranOn, gaps>>

\* certify begins: the agent of the worktree is installed if asked for, and the
\* report is loaded or begun anew.  A resumed report keeps its version and takes
\* the fingerprint of today.
Start(selected, resume, deploy) ==
  /\ Idle /\ runs < MaxRuns
  /\ runs' = runs + 1
  /\ router' = IF deploy THEN Deployed ELSE router
  /\ report' = IF deploy THEN [Loaded(resume) EXCEPT !.fingerprint = worktree.fingerprint,
                                                     !.merged = @ \/ resume]
               ELSE Loaded(resume)
  /\ run' = [run EXCEPT !.step = "facts", !.selected = selected,
                        !.resume = resume, !.next = 1, !.start = router.kept]
  /\ UNCHANGED <<worktree, token, late, saved, ranOn, gaps>>

\* Mutant: the archive of an earlier run is used.
KeepBaseline ==
  /\ run.step = "facts"
  /\ run' = [run EXCEPT !.step = "loop", !.baseline = Found]
  /\ UNCHANGED <<worktree, router, token, late, report, saved, ranOn, runs, gaps>>

\* The configuration is archived before the first command is sent.
TakeBaseline ==
  /\ run.step = "facts"
  /\ run' = [run EXCEPT !.step = "loop", !.baseline = router.kept]
  /\ UNCHANGED <<worktree, router, token, late, report, saved, ranOn, runs, gaps>>

\* An exception before that ends the run and leaves the router alone.
GiveUp ==
  /\ run.step = "facts"
  /\ RunEnds("none")
  /\ UNCHANGED <<worktree, router, token, late, saved, ranOn, runs, gaps>>

-----------------------------------------------------------------------------
\* The next command is not selected, or its capability is missing: that result
\* is noted, and written with the next one.
Pass ==
  /\ run.step = "loop" /\ run.next <= Len(Order)
  /\ Command \notin run.selected \cap Capable
  /\ run' = [run EXCEPT !.next = @ + 1]
  /\ report' = IF Command \in run.selected
                 THEN [report EXCEPT !.commands[Command] = "not_applicable"] ELSE report
  /\ UNCHANGED <<worktree, router, token, late, saved, ranOn, runs, gaps>>

\* What precedes a command is outside its try: for an update the source of the
\* candidate is set.
Prepare ==
  /\ run.step = "loop" /\ run.next <= Len(Order)
  /\ Command \in run.selected \cap Capable
  /\ run' = [run EXCEPT !.step = "execute", !.source = router.kept.source]
  /\ IF Command = "agent.update" THEN router' = [router EXCEPT !.kept.source = "candidate"] ELSE UNCHANGED router
  /\ UNCHANGED <<worktree, token, late, report, saved, ranOn, runs, gaps>>

\* What a command does to the router and to the server's token.
Executed(c) ==
  CASE c = "agent.update" -> [router EXCEPT !.agent = worktree.fingerprint]
    [] c = "agent.rotate_token" -> [router EXCEPT !.kept.token = token + 1]
    [] c = "system.set_ntp" -> [router EXCEPT !.kept.settings = "changed"]
    [] c = "agent.disconnect" -> [router EXCEPT !.kept.enabled = FALSE]
TokenAfter(c) == IF c = "agent.rotate_token" THEN token + 1 ELSE token

\* The result is put into the report, which is written; a source of updates that
\* was set for the command is set back.
Recorded(status, after) ==
  /\ report' = [report EXCEPT !.commands[Command] = status]
  /\ saved' = report'
  /\ ranOn' = [ranOn EXCEPT ![Command] = after.agent]
  /\ router' = IF Command = "agent.update"
                 THEN [after EXCEPT !.kept.source = run.source] ELSE after
  /\ run' = [run EXCEPT !.step = "loop", !.next = @ + 1]

\* The command is executed, and passes unless a condition checked afterwards fails.
Execute ==
  /\ run.step = "execute" /\ Command # "agent.disconnect"
  /\ token' = TokenAfter(Command)
  /\ \E status \in {"pass", "fail"} : Recorded(status, Executed(Command))
  /\ UNCHANGED <<worktree, late, runs, gaps>>

\* The router refuses it, or has not answered in time and executes it later.
Fail ==
  /\ run.step = "execute"
  /\ Recorded("fail", router)
  /\ \/ UNCHANGED <<late, gaps>>
     \/ Gap("late") /\ late' = late \cup {Command}
  /\ UNCHANGED <<worktree, token, runs>>

ExecuteLate(c) ==
  /\ c \in late /\ router.kept.enabled /\ router.kept.token = token
  /\ late' = late \ {c}
  /\ router' = Executed(c) /\ token' = TokenAfter(c)
  /\ UNCHANGED <<worktree, run, report, saved, ranOn, runs, gaps>>

\* After agent.disconnect the script starts the agent again over SSH.
Disconnect ==
  /\ run.step = "execute" /\ Command = "agent.disconnect"
  /\ router' = Executed(Command)
  /\ Goes("reconnect")
  /\ UNCHANGED <<worktree, token, late, report, saved, ranOn, runs, gaps>>

Reconnect ==
  /\ run.step = "reconnect"
  /\ \/ Recorded("pass", [router EXCEPT !.kept.enabled = TRUE])
     \/ Recorded("fail", router)
  /\ UNCHANGED <<worktree, token, late, runs, gaps>>

-----------------------------------------------------------------------------
\* The commands are done, or an exception leaves the loop: what follows is
\* restore_baseline, which first reads the identity of the router.
ReadIdentity ==
  /\ run.step \in {"loop", "execute", "reconnect"}
  /\ run' = [run EXCEPT !.step = "restore", !.identity = router.kept.token]
  /\ UNCHANGED <<worktree, router, token, late, report, saved, ranOn, runs, gaps>>

Unpack ==
  /\ run.step = "restore"
  /\ router' = [router EXCEPT !.kept = run.baseline]
  /\ Goes("unpacked")
  /\ UNCHANGED <<worktree, token, late, report, saved, ranOn, runs, gaps>>

\* Mutant: the identity in the archive is kept.
KeepArchived ==
  /\ run.step = "unpacked"
  /\ router' = [router EXCEPT !.kept.enabled = TRUE]
  /\ RunEnds("done")
  /\ UNCHANGED <<worktree, token, late, saved, ranOn, runs, gaps>>

WriteIdentity ==
  /\ run.step = "unpacked"
  /\ router' = [router EXCEPT !.kept.token = run.identity, !.kept.enabled = TRUE]
  /\ RunEnds("done")
  /\ UNCHANGED <<worktree, token, late, saved, ranOn, runs, gaps>>

\* The connection breaks when the archive has been unpacked and removed: the
\* command is sent again, fails at the missing archive, and nobody looks.
CutOff ==
  /\ Gap("cut") /\ run.step = "unpacked"
  /\ RunEnds("none")
  /\ UNCHANGED <<worktree, router, token, late, saved, ranOn, runs>>

\* The script is killed: nothing is restored.
Killed ==
  /\ Gap("killed") /\ ~Idle
  /\ RunEnds("none")
  /\ UNCHANGED <<worktree, router, token, late, saved, ranOn, runs>>

-----------------------------------------------------------------------------
CertNext ==
  \/ Edit \/ TakeBaseline \/ GiveUp \/ Pass \/ Prepare \/ Execute \/ Fail
  \/ \E selected \in Selections : \E resume, deploy \in BOOLEAN :
       Start(selected, resume, deploy)
  \/ \E c \in late : ExecuteLate(c)
  \/ Disconnect \/ Reconnect \/ ReadIdentity \/ Unpack \/ WriteIdentity
  \/ CutOff \/ Killed

CertSpec == CertInit /\ [][CertNext]_certVars

-----------------------------------------------------------------------------
\* Between runs the router holds the token that the server accepts, although the
\* archive that was unpacked holds an older one, unless the restoration was cut
\* off or killed, or a command that timed out came in between (restore_baseline).
IdentitySurvives == Idle /\ gaps = {} => router.kept.token = token

\* A run whose restoration is complete leaves the configuration it found, with the
\* agent enabled, whichever commands failed and also after runs that were killed
\* (docs/real-router-testing.md: the runner restores the initial configuration).
RestoresWhatItFound ==
  run.step = "done" /\ "late" \notin gaps =>
    /\ router.kept.settings = run.start.settings
    /\ router.kept.source = run.start.source
    /\ router.kept.enabled

\* The router is given back as it was found.
RouterIsGivenBack == IdentitySurvives /\ RestoresWhatItFound

\* A resumed run writes no result but those of the commands it was asked for
\* (--resume: merge selected results into the existing report).
KeepsOthers ==
  run'.resume => \A c \in Contract \ run.selected : saved'.commands[c] = saved.commands[c]
ResumeKeepsOthers == [][KeepsOthers]_certVars

\* What verify_stable and validate_report accept for the present worktree: a report
\* of this version and agent, in which every command has passed or is not applicable,
\* and those with conditions at run time have passed.
Covers == saved.version = worktree.version /\ saved.fingerprint = worktree.fingerprint
Passed ==
  /\ \A c \in Contract : saved.commands[c] \in {"pass", "not_applicable"}
  /\ \A c \in {"agent.update", "agent.disconnect"} : saved.commands[c] = "pass"
StableGate == Idle /\ Covers /\ Passed

\* Stable hardware evidence covers the exact candidate: the gate accepts a report
\* only if every command passed on this agent (verify_release_readiness.py:84).
CertifiedOnThisAgent ==
  StableGate => \A c \in Contract : saved.commands[c] = "pass" =>
                                     ranOn[c] = worktree.fingerprint

\* The same of reports that no later run with a worktree agent was merged into.
CertifiedUnlessMerged == ~saved.merged => CertifiedOnThisAgent

-----------------------------------------------------------------------------
(* Why they hold: the inductive invariant. *)

Configurations == [settings : {"found", "changed"}, token : Nat, enabled : BOOLEAN,
                   source : {"release", "candidate"}]
Routers == [kept : Configurations, agent : 1..MaxBuild]
Reports == [version : 1..MaxBuild, fingerprint : 0..MaxBuild,
            merged : BOOLEAN, commands : [Contract -> Statuses]]
Certifications ==
  [step : Steps, next : 1..(Len(Order) + 1), selected : Selections \cup {{}},
   resume : BOOLEAN, start : Configurations, baseline : Configurations,
   source : {"release", "candidate"}, identity : Nat]

RecordsOK ==
  /\ worktree \in [version : 1..MaxBuild, fingerprint : 1..MaxBuild]
  /\ router \in Routers /\ token \in Nat /\ run \in Certifications
  /\ report \in Reports /\ saved \in Reports
  /\ ranOn \in [Contract -> 0..MaxBuild]
  /\ late \subseteq Contract /\ gaps \subseteq Gaps /\ runs \in 0..MaxRuns

\* No configuration holds a token that the server has not yet given.
TokensOK ==
  /\ router.kept.token <= token /\ run.identity <= token
  /\ run.start.token <= token /\ run.baseline.token <= token

\* A run at a command, and what it may still do to the results of others.
ResultsOK ==
  /\ run.step \in {"execute", "reconnect"} =>
       run.next <= Len(Order) /\ Command \in run.selected
  /\ run.resume => \A c \in Contract \ run.selected : report.commands[c] = saved.commands[c]

\* The token of the server is on the router, or kept in memory while the archive is
\* unpacked.
IdentityKept ==
  gaps = {} =>
    /\ run.step # "unpacked" => router.kept.token = token
    /\ run.step \in {"restore", "unpacked"} => run.identity = token

\* The archive is what the run found.
BaselineKept ==
  "late" \notin gaps =>
    /\ late = {}
    /\ run.step = "facts" => router.kept = run.start
    /\ run.step \in {"loop", "execute", "reconnect", "restore", "unpacked"} =>
         run.baseline = run.start
    /\ run.step = "unpacked" => router.kept = run.baseline
    /\ run.step = "done" => /\ router.kept.settings = run.start.settings
                             /\ router.kept.source = run.start.source
                             /\ router.kept.enabled

\* A report that names the agent of the worktree was made with that agent on the
\* router, and, when it was not merged, so were all results it calls passed.
AgentTested(r) ==
  /\ r.fingerprint <= worktree.fingerprint
  /\ r.fingerprint = worktree.fingerprint =>
       /\ router.agent = worktree.fingerprint
       /\ ~r.merged => \A c \in Contract : r.commands[c] = "pass" =>
                                           ranOn[c] = worktree.fingerprint

CertInv ==
  /\ RecordsOK /\ TokensOK /\ ResultsOK /\ IdentityKept /\ BaselineKept
  /\ AgentTested(report) /\ AgentTested(saved)
=============================================================================
