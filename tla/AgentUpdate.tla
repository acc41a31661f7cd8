---------------------------- MODULE AgentUpdate ----------------------------
(***************************************************************************)
(* How the agent replaces itself.  Libraries are installed as generations, *)
(* complete directories under releases/ labelled with their version; the   *)
(* pointer "current" names the one in use and "version-V" the last one of  *)
(* version V.  The entry point loads the generation that "current" names   *)
(* if its label is the version of the entry point, and the libraries of    *)
(* the time before generations, /usr/lib/wrtmonitor, otherwise.  Before an *)
(* update the running agent is copied to a backup, which is restored when  *)
(* a step fails or a rollback is asked for.                                *)
(*                                                                         *)
(* Versions are numbers.  A directory is what a start can tell of it: its  *)
(* label (agent-version.txt, 0 if it is missing), the version of its       *)
(* libraries, and how many of them it has.  Operations on many files are   *)
(* two steps, since the power can fail in between; renames are atomic.     *)
(***************************************************************************)
EXTENDS Integers

CONSTANTS
  MaxVersion,   \* versions the server has offered
  MaxRestores,  \* backups restored (bound)
  MaxCuts,      \* times the power fails or the agent is killed (bound)
  Mishaps,      \* "install", "backup": steps that can fail; "cut"
  Downgrades    \* allow_downgrade, of the router or of the command

ASSUME UpdateAssumption ==
  /\ MaxVersion \in Nat \ {0}
  /\ MaxRestores \in Nat
  /\ MaxCuts \in Nat
  /\ Mishaps \subseteq {"install", "backup", "cut"}
  /\ Downgrades \in BOOLEAN

VARIABLES
  entry,      \* version of /usr/bin/wrtmonitor-agent
  gen,        \* the generations
  current, alias,   \* the pointers
  legacy,     \* the libraries outside of the generations
  backup,     \* entry point, libraries and VERSION.previous
  running,    \* version of the agent in memory, 0 when there is none
  pc, target, undoing,  \* step under way, version to install, after an error
  restores, cuts

disk == <<entry, gen, current, alias, legacy, backup>>
control == <<running, pc, target, undoing, restores, cuts>>
vars == <<disk, control>>

-----------------------------------------------------------------------------
Versions == 1..MaxVersion
NoVersion == 0..MaxVersion

\* The manifest of a version names its generation; each restore makes one more.
Generations == 1..(MaxVersion + MaxRestores)

\* Mutant: the generation of a restore has the next name.
RestoredNext == MaxVersion + restores + 1
Restored == MaxVersion + restores

\* "none": not even common.sh, "some": common.sh but not all.
Parts == {"absent", "none", "some", "all"}
Directories == [label : NoVersion, libs : NoVersion, part : Parts]
Absent == [label |-> 0, libs |-> 0, part |-> "absent"]
Release(v) == [label |-> v, libs |-> v, part |-> "all"]

UpdateSteps == {"clearing", "keeping", "copying", "labelling", "staging",
                "aliasing", "switching", "entering", "verifying", "pruning"}
RestoreSteps == {"restoring", "filling", "realiasing", "emptying", "refilling",
                 "returning", "repointing"}

\* Type invariant: directories, pointers, backup and control state.
TypeOK ==
  /\ entry \in Versions
  /\ gen \in [Generations -> Directories]
  /\ current \in Generations
  /\ alias \in [Versions -> {0} \cup Generations]
  /\ legacy \in Directories
  /\ backup \in [entry : NoVersion, label : NoVersion, libs : NoVersion, part : Parts]
  /\ running \in NoVersion
  /\ pc \in {"idle", "handoff"} \cup UpdateSteps \cup RestoreSteps
  /\ target \in Versions
  /\ undoing \in BOOLEAN
  /\ restores \in 0..MaxRestores
  /\ cuts \in 0..MaxCuts

\* A router on which the installer has just finished.
Init ==
  /\ entry = 1
  /\ gen = [g \in Generations |-> IF g = 1 THEN Release(1) ELSE Absent]
  /\ current = 1
  /\ alias = [v \in Versions |-> IF v = 1 THEN 1 ELSE 0]
  /\ legacy = Absent
  /\ backup = [entry |-> 0, label |-> 0, libs |-> 0, part |-> "absent"]
  /\ running = 1
  /\ pc = "idle" /\ target = 1 /\ undoing = FALSE
  /\ restores = 0 /\ cuts = 0

-----------------------------------------------------------------------------
(* What an entry point finds when it starts. *)

\* Mutant: the label is not compared with the version of the entry point.
LibrariesUnlabelled == gen[current]

\* The alias is looked at only when there is no "current" pointer, and there
\* is one from the installation on.
Libraries == IF gen[current].label = entry THEN gen[current] ELSE legacy

\* load_lib ends the agent when one library is missing.
Starts == Libraries.part = "all"
OwnLibraries == Starts /\ Libraries.libs = entry

-----------------------------------------------------------------------------
(* check_for_update *)

Goes(from, to) == pc = from /\ pc' = to

BeginUpdate(v) ==
  /\ Goes("idle", "clearing")
  /\ running # 0
  /\ v >= running \/ Downgrades   \* the same version with --force
  /\ target' = v
  /\ undoing' = FALSE
  /\ UNCHANGED <<disk, running, restores, cuts>>

\* prepare_backup: rm -rf lib.previous...
ClearBackup ==
  /\ Goes("clearing", "keeping")
  /\ \E p \in {"none", "some"} :
       backup' = [backup EXCEPT !.part = IF @ = "absent" THEN "none" ELSE p]
  /\ UNCHANGED <<entry, gen, current, alias, legacy,
                 running, target, undoing, restores, cuts>>

Active == IF gen[current].part # "absent" /\ gen[current].label = running
            THEN gen[current] ELSE legacy

\* ... the entry point, the first libraries...
KeepEntry ==
  /\ Goes("keeping", "copying")
  /\ \E p \in {"none", "some"} :
       backup' = [backup EXCEPT !.entry = entry, !.libs = Active.libs, !.part = p]
  /\ UNCHANGED <<entry, gen, current, alias, legacy,
                 running, target, undoing, restores, cuts>>

\* ... the rest of them...
CopyLibraries ==
  /\ Goes("copying", "labelling")
  /\ Active.part \in {"some", "all"}
  /\ backup' = [backup EXCEPT !.part = Active.part]
  /\ UNCHANGED <<entry, gen, current, alias, legacy,
                 running, target, undoing, restores, cuts>>

\* ... and its version.
LabelBackup ==
  /\ Goes("labelling", "staging")
  /\ backup' = [backup EXCEPT !.label = running]
  /\ UNCHANGED <<entry, gen, current, alias, legacy,
                 running, target, undoing, restores, cuts>>

\* "backup failed": nothing is installed, the half of the backup stays.
BackupFails ==
  /\ pc \in {"clearing", "keeping", "copying", "labelling"}
  /\ "backup" \in Mishaps \/ (pc = "copying" /\ Active.part \in {"none", "absent"})
  /\ pc' = "idle"
  /\ UNCHANGED <<disk, running, target, undoing, restores, cuts>>

\* apply_downloaded_files: a directory of that name is used as it is...
PublishGeneration ==
  /\ Goes("staging", "aliasing")
  /\ gen' = IF gen[target].part = "absent"
              THEN [gen EXCEPT ![target] = Release(target)] ELSE gen
  /\ UNCHANGED <<entry, current, alias, legacy, backup,
                 running, target, undoing, restores, cuts>>

SetAlias ==
  /\ Goes("aliasing", "switching")
  /\ alias' = [alias EXCEPT ![target] = target]
  /\ UNCHANGED <<entry, gen, current, legacy, backup,
                 running, target, undoing, restores, cuts>>

SwitchCurrent ==
  /\ Goes("switching", "entering")
  /\ current' = target
  /\ UNCHANGED <<entry, gen, alias, legacy, backup,
                 running, target, undoing, restores, cuts>>

\* ... and the executable is switched last.
SwitchEntry ==
  /\ Goes("entering", "verifying")
  /\ entry' = target
  /\ UNCHANGED <<gen, current, alias, legacy, backup,
                 running, target, undoing, restores, cuts>>

\* ensure-dependencies and verify_installed_agent run the new entry point.
Verifies == Starts /\ entry = target /\ gen[current].label = target

Verify ==
  /\ Goes("verifying", "pruning")
  /\ Verifies
  /\ UNCHANGED <<disk, running, target, undoing, restores, cuts>>

\* Mutant: only the generation of the version before is kept.
KeptPrevious == {alias[running]}

\* prune_release_generations: the new generation and the one before it stay.
Kept == {current, alias[running]}

Prune(g) ==
  /\ pc = "pruning"
  /\ g \notin Kept
  /\ gen[g].part # "absent"
  /\ \/ gen' = [gen EXCEPT ![g] = Absent]
     \/ \E p \in {"none", "some"}, l \in {0, gen[g].label} :
          gen' = [gen EXCEPT ![g].part = p, ![g].label = l]
  /\ UNCHANGED <<entry, current, alias, legacy, backup, control>>

Pruned ==
  /\ Goes("pruning", "handoff")
  /\ \A g \in Generations \ Kept : gen[g].part = "absent"
  /\ UNCHANGED <<disk, running, target, undoing, restores, cuts>>

-----------------------------------------------------------------------------
(* perform_rollback *)

BackupAvailable ==
  /\ backup.entry # 0 /\ backup.label # 0
  /\ backup.part \in {"some", "all"}

BeginRestore ==
  /\ restores < MaxRestores
  /\ IF BackupAvailable
       THEN restores' = restores + 1 /\ pc' = "restoring"
       ELSE restores' = restores /\ pc' = "idle"
  /\ UNCHANGED <<disk, running, target, cuts>>

\* A step of the installation fails, or the new agent does not start.
InstallFails ==
  /\ pc \in {"staging", "aliasing", "switching", "entering", "verifying"}
  /\ "install" \in Mishaps \/ (pc = "verifying" /\ ~Verifies)
  /\ BeginRestore
  /\ undoing' = TRUE

RollbackRequested ==
  /\ pc = "idle"
  /\ running # 0
  /\ BeginRestore
  /\ undoing' = FALSE

\* restore_backup_files: a generation of its own, filled in place...
MakeGeneration ==
  /\ Goes("restoring", "filling")
  /\ \E p \in {"none", "some"} :
       gen' = [gen EXCEPT ![Restored] =
                 [label |-> 0, libs |-> backup.libs, part |-> p]]
  /\ UNCHANGED <<entry, current, alias, legacy, backup,
                 running, target, undoing, restores, cuts>>

FillGeneration ==
  /\ Goes("filling", "realiasing")
  /\ gen' = [gen EXCEPT ![Restored] =
               [label |-> backup.label, libs |-> backup.libs, part |-> backup.part]]
  /\ UNCHANGED <<entry, current, alias, legacy, backup,
                 running, target, undoing, restores, cuts>>

RestoreAlias ==
  /\ Goes("realiasing", "emptying")
  /\ alias' = [alias EXCEPT ![backup.label] = Restored]
  /\ UNCHANGED <<entry, gen, current, legacy, backup,
                 running, target, undoing, restores, cuts>>

\* ... the libraries outside of the generations are removed and copied...
EmptyLegacy ==
  /\ Goes("emptying", "refilling")
  /\ legacy' \in [label : {0}, libs : {legacy.libs, backup.libs},
                  part : {"none", "some"}]
  /\ UNCHANGED <<entry, gen, current, alias, backup,
                 running, target, undoing, restores, cuts>>

RefillLegacy ==
  /\ Goes("refilling", "returning")
  /\ legacy' = [label |-> 0, libs |-> backup.libs, part |-> backup.part]
  /\ UNCHANGED <<entry, gen, current, alias, backup,
                 running, target, undoing, restores, cuts>>

\* ... and the pointer is switched last.
\* Mutant: the new entry point stays.
ReturnNothing ==
  /\ Goes("returning", "repointing")
  /\ UNCHANGED <<disk, running, target, undoing, restores, cuts>>

ReturnEntry ==
  /\ Goes("returning", "repointing")
  /\ entry' = backup.entry
  /\ UNCHANGED <<gen, current, alias, legacy, backup,
                 running, target, undoing, restores, cuts>>

Repoint ==
  /\ Goes("repointing", "handoff")
  /\ current' = Restored
  /\ UNCHANGED <<entry, gen, alias, legacy, backup,
                 running, target, undoing, restores, cuts>>

-----------------------------------------------------------------------------
\* handoff_to_updated_agent: exec the entry point that is installed.
Handoff ==
  /\ Goes("handoff", "idle")
  /\ running' = IF Starts THEN entry ELSE 0
  /\ UNCHANGED <<disk, target, undoing, restores, cuts>>

\* The power fails, or the agent is killed, at any step.
Cut ==
  /\ "cut" \in Mishaps
  /\ cuts < MaxCuts
  /\ cuts' = cuts + 1
  /\ running' = 0
  /\ pc' = "idle"
  /\ UNCHANGED <<disk, target, undoing, restores>>

Boot ==
  /\ pc = "idle"
  /\ running = 0
  /\ Starts
  /\ running' = entry
  /\ UNCHANGED <<disk, pc, target, undoing, restores, cuts>>

BacksUp == ClearBackup \/ KeepEntry \/ CopyLibraries \/ LabelBackup \/ BackupFails
Installs ==
  \/ PublishGeneration \/ SetAlias \/ SwitchCurrent \/ SwitchEntry \/ Verify
  \/ \E g \in Generations : Prune(g)
  \/ Pruned \/ InstallFails
Restores ==
  \/ MakeGeneration \/ FillGeneration \/ RestoreAlias \/ EmptyLegacy
  \/ RefillLegacy \/ ReturnEntry \/ Repoint

Next ==
  \/ \E v \in Versions : BeginUpdate(v)
  \/ BacksUp \/ Installs \/ RollbackRequested \/ Restores
  \/ Handoff \/ Cut \/ Boot

Spec == Init /\ [][Next]_vars

-----------------------------------------------------------------------------
(* Properties. *)

\* Whenever no update is under way, the entry point finds all libraries of its
\* own version: the router starts a working agent (update_storage.sh: the old
\* entry point falls back to its own version alias).
AgentStarts == pc = "idle" => OwnLibraries

\* After an error in the installation the agent before it is back, entry point
\* and libraries (docs/openwrt-agent.md: any error restores the previous
\* generation and entry point).
ErrorUndone ==
  pc = "handoff" /\ undoing => entry = running /\ OwnLibraries

\* However an update or a rollback is interrupted, an entry point never loads
\* libraries of a later version than its own, unless downgrades are allowed
\* (docs/openwrt-agent.md: an interrupted update cannot make the old entry point
\* load the libraries of the new version).
NoLaterLibraries == Starts => Libraries.libs <= entry

\* What a rollback would restore is one agent: entry point, label and libraries
\* of one version, and all of them.
BackupUsable ==
  pc = "idle" /\ BackupAvailable =>
    /\ backup.entry = backup.label
    /\ backup.libs = backup.label
    /\ backup.part = "all"

-----------------------------------------------------------------------------
(* The inductive invariant, when steps of the installation may fail but the *)
(* power and the backup do not.                                             *)

Whole(g, v) == gen[g] = Release(v)

\* Named for a version: complete or not there; pruning takes others apart.
NamedInv ==
  \A v \in Versions : pc # "pruning" \/ v \in Kept => gen[v].part = "absent" \/ Whole(v, v)

\* Before the pointer moves the running agent is installed and its generation
\* is whole, after it the new one is, and after a restore the one restored.
InstalledInv ==
  /\ pc \in UpdateSteps => ~undoing
  /\ pc \in {"idle", "clearing", "keeping", "copying", "labelling", "staging",
            "aliasing", "switching"} => entry = running /\ Whole(current, entry)
  /\ pc \in {"aliasing", "switching", "entering", "verifying", "pruning"} =>
       Whole(target, target)
  /\ pc \in {"entering", "verifying", "pruning"} => current = target
  /\ pc \in {"verifying", "pruning"} => entry = target
  /\ pc = "handoff" => Whole(current, entry) /\ (undoing => entry = running)

BackupOf(v) ==
  backup.entry = v /\ backup.label = v /\ backup.libs = v /\ backup.part = "all"

\* The backup is one agent as soon as it is labelled, the running one until it
\* is restored.
BackupInv ==
  /\ pc \in {"idle", "clearing", "handoff"} => backup.entry = 0 \/ BackupOf(backup.label)
  /\ pc \in {"copying", "labelling"} => backup.entry = running /\ backup.libs = running
  /\ pc = "labelling" => backup.part = "all"
  /\ pc \in {"staging", "aliasing", "switching", "entering", "verifying", "pruning"} =>
       BackupOf(running)
  /\ pc \in RestoreSteps => BackupOf(backup.label) /\ backup.label # 0

\* What is restored after an error is the running agent.
RestoreInv ==
  /\ pc \in RestoreSteps => restores > 0 /\ (undoing => backup.label = running)
  /\ pc \in {"realiasing", "emptying", "refilling", "returning", "repointing"} =>
       Whole(Restored, backup.label)
  /\ pc = "repointing" => entry = backup.label

\* Pointers, generations and backup agree at every step of an update and of a
\* rollback whose installation may fail anywhere (update_storage.sh, update.sh).
UpdateInv == running # 0 /\ NamedInv /\ InstalledInv /\ BackupInv /\ RestoreInv

-----------------------------------------------------------------------------
(* The inductive invariant, when anything may fail but nobody goes back to an *)
(* earlier version.                                                           *)

\* An entry point that was backed up is older than the installed one, and all
\* libraries of a backup, also of one that is half of two, are older than that.
BackupIsOlder ==
  /\ backup.entry <= entry
  /\ backup.libs <= backup.entry /\ legacy.libs <= backup.entry

\* A generation restored from such a backup may have a label of an earlier version
\* than its libraries, but none that an entry point can have again.
LabelsOK ==
  \A g \in Generations :
    gen[g].label # 0 /\ gen[g].libs > gen[g].label => gen[g].label < backup.entry

\* The agent at work is the installed one until the entry point is switched; the
\* backup it has made can be restored.
AtWork ==
  /\ pc = "idle" => running \in {0, entry}
  /\ pc \in {"clearing", "keeping", "copying", "labelling", "staging", "aliasing",
            "switching", "entering"} => running = entry /\ running <= target
  /\ pc \in {"copying", "labelling"} => backup.entry # 0
  /\ pc = "labelling" => backup.part \in {"some", "all"}
  /\ pc \in {"staging", "aliasing", "switching", "entering", "verifying"} => BackupAvailable

NoLaterInv == BackupIsOlder /\ LabelsOK /\ AtWork
=============================================================================
