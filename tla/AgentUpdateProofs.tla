------------------------- MODULE AgentUpdateProofs -------------------------
(* Proofs about AgentUpdate, for any number of versions, restores and cuts. *)
EXTENDS AgentUpdate, TLAPS

-----------------------------------------------------------------------------
(* Types. *)

\* The records that the actions build are directories.
LEMMA DirectoryTypes ==
  /\ Absent \in Directories
  /\ \A v \in NoVersion : Release(v) \in Directories
  /\ Versions \subseteq NoVersion /\ 0 \in NoVersion
BY UpdateAssumption DEF Absent, Release, Directories, Parts, NoVersion, Versions

\* Every state of an update is well typed (update.sh, update_storage.sh).
LEMMA TypeInit == Init => TypeOK
<1> SUFFICES ASSUME Init PROVE TypeOK
  OBVIOUS
<1>1. 1 \in Versions /\ 1 \in Generations
  BY UpdateAssumption DEF Versions, Generations
<1>2. gen \in [Generations -> Directories] /\ legacy \in Directories
  BY <1>1, DirectoryTypes DEF Init
<1>3. alias \in [Versions -> {0} \cup Generations]
  BY <1>1 DEF Init
<1>4. backup \in [entry : NoVersion, label : NoVersion, libs : NoVersion, part : Parts]
  BY DirectoryTypes DEF Init, Parts
<1>5. entry \in Versions /\ current \in Generations /\ running \in NoVersion
      /\ target \in Versions
  BY <1>1, DirectoryTypes DEF Init
<1>6. pc = "idle" /\ undoing = FALSE /\ restores \in 0..MaxRestores /\ cuts \in 0..MaxCuts
  BY UpdateAssumption DEF Init
<1> QED
  BY <1>2, <1>3, <1>4, <1>5, <1>6 DEF TypeOK

\* The backup that is being restored has an entry point.
RestoreBegan == pc \in RestoreSteps => backup.entry # 0

\* The generation of a restore is one of the bounded set.
LEMMA RestoredType == restores \in 0..MaxRestores => Restored \in Generations
BY UpdateAssumption DEF Restored, Generations

LEMMA BeginRestoreType ==
  ASSUME TypeOK, BeginRestore
  PROVE  /\ restores' \in 0..MaxRestores
         /\ pc' \in {"idle", "restoring"}
         /\ pc' = "restoring" => backup.entry # 0
BY UpdateAssumption DEF TypeOK, BeginRestore, BackupAvailable

\* The steps that leave the directories, the pointers and the backup alone.
LEMMA ControlStep ==
  ASSUME TypeOK, RestoreBegan, UNCHANGED disk,
         running' \in NoVersion, target' \in Versions, undoing' \in BOOLEAN,
         restores' \in 0..MaxRestores, cuts' \in 0..MaxCuts,
         pc' \in {"idle", "handoff"} \cup UpdateSteps \cup {"restoring"},
         pc' = "restoring" => backup.entry # 0
  PROVE  TypeOK' /\ RestoreBegan'
<1>1. TypeOK'
  BY DEF TypeOK, disk, RestoreSteps
<1>2. RestoreBegan'
  BY DEF RestoreBegan, RestoreSteps, UpdateSteps, disk
<1> QED
  BY <1>1, <1>2

LEMMA TypeStep ==
  ASSUME TypeOK, RestoreBegan, [Next]_vars
  PROVE  TypeOK' /\ RestoreBegan'
<1> USE DirectoryTypes DEF Goes
<1>1. CASE \E v \in Versions : BeginUpdate(v)
  BY <1>1, ControlStep DEF BeginUpdate, TypeOK, UpdateSteps
<1>2. CASE BacksUp
  <2>1. CASE ClearBackup
    BY <2>1 DEF ClearBackup, TypeOK, RestoreBegan, RestoreSteps, UpdateSteps,
       Parts
  <2>2. CASE KeepEntry
    <3>1. Active \in Directories
      BY DEF Active, TypeOK
    <3>2. Active.libs \in NoVersion
      BY <3>1 DEF Directories
    <3> QED
      BY <2>2, <3>2 DEF KeepEntry, TypeOK, RestoreBegan, RestoreSteps,
         UpdateSteps, Parts
  <2>3. CASE CopyLibraries
    BY <2>3 DEF CopyLibraries, TypeOK, RestoreBegan, RestoreSteps, UpdateSteps,
       Parts
  <2>4. CASE LabelBackup
    BY <2>4 DEF LabelBackup, TypeOK, RestoreBegan, RestoreSteps, UpdateSteps
  <2>5. CASE BackupFails
    BY <2>5, ControlStep DEF BackupFails, TypeOK
  <2> QED
    BY <1>2, <2>1, <2>2, <2>3, <2>4, <2>5 DEF BacksUp
<1>3. CASE Installs
  <2>1. CASE PublishGeneration
    BY <2>1 DEF PublishGeneration, TypeOK, RestoreBegan, RestoreSteps, UpdateSteps
  <2>2. CASE SetAlias
    <3>1. target \in Generations
      BY UpdateAssumption DEF TypeOK, Versions, Generations
    <3> QED
      BY <2>2, <3>1 DEF SetAlias, TypeOK, RestoreBegan, RestoreSteps, UpdateSteps
  <2>3. CASE SwitchCurrent
    <3>1. target \in Generations
      BY UpdateAssumption DEF TypeOK, Versions, Generations
    <3> QED
      BY <2>3, <3>1 DEF SwitchCurrent, TypeOK, RestoreBegan, RestoreSteps,
         UpdateSteps
  <2>4. CASE SwitchEntry
    BY <2>4 DEF SwitchEntry, TypeOK, RestoreBegan, RestoreSteps, UpdateSteps
  <2>5. CASE Verify
    BY <2>5, ControlStep DEF Verify, TypeOK, UpdateSteps
  <2>6. ASSUME NEW g \in Generations, Prune(g) PROVE TypeOK' /\ RestoreBegan'
    <3>1. gen' \in [Generations -> Directories]
      <4>1. gen[g].label \in NoVersion
        BY DEF TypeOK, Directories
      <4>2. ASSUME NEW p \in {"none", "some"}, NEW l \in {0, gen[g].label}
            PROVE  [gen EXCEPT ![g].part = p, ![g].label = l]
                      \in [Generations -> Directories]
        BY <4>1 DEF TypeOK, Directories, Parts
      <4>3. [gen EXCEPT ![g] = Absent] \in [Generations -> Directories]
        BY DEF TypeOK
      <4>4. \/ gen' = [gen EXCEPT ![g] = Absent]
            \/ \E p \in {"none", "some"}, l \in {0, gen[g].label} :
                 gen' = [gen EXCEPT ![g].part = p, ![g].label = l]
        BY <2>6, Zenon DEF Prune
      <4>5. ASSUME NEW p \in {"none", "some"}, NEW l \in {0, gen[g].label},
                   gen' = [gen EXCEPT ![g].part = p, ![g].label = l]
            PROVE  gen' \in [Generations -> Directories]
        BY <4>2, <4>5
      <4> QED
        BY <4>3, <4>4, <4>5
    <3> QED
      BY <2>6, <3>1 DEF Prune, control, TypeOK, RestoreBegan
  <2>7. CASE Pruned
    BY <2>7, ControlStep DEF Pruned, TypeOK
  <2>8. CASE InstallFails
    BY <2>8, ControlStep, BeginRestoreType DEF InstallFails, BeginRestore, TypeOK
  <2> QED
    BY <1>3, <2>1, <2>2, <2>3, <2>4, <2>5, <2>6, <2>7, <2>8 DEF Installs
<1>4. CASE RollbackRequested
  BY <1>4, ControlStep, BeginRestoreType DEF RollbackRequested, BeginRestore,
     TypeOK
<1>5. CASE Restores
  <2> USE RestoredType
  <2>1. CASE MakeGeneration
    BY <2>1 DEF MakeGeneration, TypeOK, RestoreBegan, RestoreSteps, Directories,
       Parts
  <2>2. CASE FillGeneration
    BY <2>2 DEF FillGeneration, TypeOK, RestoreBegan, RestoreSteps, Directories
  <2>3. CASE RestoreAlias
    BY <2>3 DEF RestoreAlias, TypeOK, RestoreBegan, RestoreSteps
  <2>4. CASE EmptyLegacy
    BY <2>4 DEF EmptyLegacy, TypeOK, RestoreBegan, RestoreSteps, Directories,
       Parts
  <2>5. CASE RefillLegacy
    BY <2>5 DEF RefillLegacy, TypeOK, RestoreBegan, RestoreSteps, Directories
  <2>6. CASE ReturnEntry
    <3>1. backup.entry \in Versions
      BY <2>6 DEF ReturnEntry, TypeOK, RestoreBegan, RestoreSteps, NoVersion,
         Versions
    <3> QED
      BY <2>6, <3>1 DEF ReturnEntry, TypeOK, RestoreBegan, RestoreSteps
  <2>7. CASE Repoint
    BY <2>7 DEF Repoint, TypeOK, RestoreBegan, RestoreSteps
  <2> QED
    BY <1>5, <2>1, <2>2, <2>3, <2>4, <2>5, <2>6, <2>7 DEF Restores
<1>6. CASE Handoff
  BY <1>6, ControlStep DEF Handoff, TypeOK
<1>7. CASE Cut
  BY <1>7, ControlStep, UpdateAssumption DEF Cut, TypeOK
<1>8. CASE Boot
  BY <1>8, ControlStep DEF Boot, TypeOK
<1>9. CASE UNCHANGED vars
  BY <1>9 DEF vars, disk, control, TypeOK, RestoreBegan
<1> QED
  BY <1>1, <1>2, <1>3, <1>4, <1>5, <1>6, <1>7, <1>8, <1>9 DEF Next

\* Every state is well typed, whatever fails and whenever the power is cut
\* (update.sh, update_storage.sh, update_validation.sh).
THEOREM TypeCorrect == Spec => []TypeOK
<1>1. Init => TypeOK /\ RestoreBegan
  BY TypeInit DEF Init, RestoreBegan, RestoreSteps
<1>2. TypeOK /\ RestoreBegan /\ [Next]_vars => TypeOK' /\ RestoreBegan'
  BY TypeStep
<1> QED
  BY <1>1, <1>2, PTL DEF Spec

-----------------------------------------------------------------------------
(* The inductive invariant, when only steps of the installation fail. *)

LEMMA ReleaseFacts ==
  /\ Absent.part = "absent"
  /\ \A v : Release(v).label = v /\ Release(v).libs = v /\ Release(v).part = "all"
BY DEF Absent, Release

LEMMA UpdateInit == Init => UpdateInv
<1> SUFFICES ASSUME Init PROVE UpdateInv
  OBVIOUS
<1> USE ReleaseFacts DEF Init
<1>1. 1 \in Generations /\ \A v \in Versions : v \in Generations
  BY UpdateAssumption DEF Versions, Generations
<1>2. NamedInv
  BY <1>1 DEF NamedInv, Whole
<1>3. InstalledInv
  BY <1>1 DEF InstalledInv, UpdateSteps, Whole
<1>4. BackupInv /\ RestoreInv
  BY DEF BackupInv, RestoreInv, RestoreSteps
<1> QED
  BY <1>2, <1>3, <1>4 DEF UpdateInv

\* An entry point whose generation is whole starts with its own libraries.
LEMMA WholeStarts ==
  ASSUME Whole(current, entry)
  PROVE  Libraries = gen[current] /\ OwnLibraries
BY ReleaseFacts DEF Whole, Libraries, Starts, OwnLibraries

\* The running agent is what a backup copies.
LEMMA WholeActive ==
  ASSUME Whole(current, entry), entry = running
  PROVE  Active.part = "all" /\ Active.libs = running
BY ReleaseFacts DEF Whole, Active

LEMMA BacksUpStep ==
  ASSUME Mishaps \subseteq {"install"}, TypeOK, UpdateInv, BacksUp
  PROVE  UpdateInv'
<1> USE DEF Goes, UpdateInv
<1>1. pc \in {"clearing", "keeping", "copying", "labelling"}
  BY DEF BacksUp, ClearBackup, KeepEntry, CopyLibraries, LabelBackup, BackupFails
<1>2. Active.part = "all" /\ Active.libs = running /\ entry = running
  BY <1>1, WholeActive DEF InstalledInv, UpdateSteps
<1>3. ~BackupFails
  BY <1>2 DEF BackupFails
<1>4. UNCHANGED <<entry, gen, current, alias, legacy, running, target, undoing, restores>>
      /\ pc' \in {"keeping", "copying", "labelling", "staging"}
  BY <1>3 DEF BacksUp, ClearBackup, KeepEntry, CopyLibraries, LabelBackup
<1>5. NamedInv' /\ InstalledInv' /\ RestoreInv'
  <2>1. NamedInv'
    BY <1>1, <1>4 DEF NamedInv, Whole, Kept
  <2>2. InstalledInv'
    BY <1>1, <1>4 DEF InstalledInv, UpdateSteps, Whole
  <2>3. RestoreInv'
    BY <1>4 DEF RestoreInv, RestoreSteps
  <2> QED
    BY <2>1, <2>2, <2>3
<1>6. BackupInv'
  <2>1. CASE ClearBackup
    BY <2>1 DEF ClearBackup, BackupInv, RestoreSteps
  <2>2. CASE KeepEntry
    BY <2>2, <1>2 DEF KeepEntry, BackupInv, RestoreSteps, TypeOK
  <2>3. CASE CopyLibraries
    BY <2>3, <1>2 DEF CopyLibraries, BackupInv, RestoreSteps, TypeOK
  <2>4. CASE LabelBackup
    BY <2>4 DEF LabelBackup, BackupInv, BackupOf, RestoreSteps, TypeOK
  <2> QED
    BY <1>3, <2>1, <2>2, <2>3, <2>4 DEF BacksUp
<1> QED
  BY <1>4, <1>5, <1>6

\* A backup of the running agent that is there starts its restore.
LEMMA BeginRestoreStep ==
  ASSUME TypeOK, UpdateInv, BeginRestore,
         \/ pc = "idle" /\ undoing' = FALSE
         \/ pc \in {"staging", "aliasing", "switching", "entering", "verifying"}
  PROVE  UpdateInv'
<1> USE DEF UpdateInv
<1>1. UNCHANGED disk /\ running' = running /\ target' = target /\ pc # "pruning"
      /\ pc' \in {"idle", "restoring"}
  BY DEF BeginRestore
<1>2. pc # "idle" => BackupOf(running) /\ BackupAvailable
  BY DEF BackupInv, BackupOf, BackupAvailable
<1>3. BackupAvailable => BackupOf(backup.label) /\ backup.label # 0
  BY DEF BackupInv, BackupOf, BackupAvailable
<1>4. /\ pc' = "restoring" => BackupAvailable /\ restores' = restores + 1
      /\ pc' = "idle" => pc = "idle"
  BY <1>2 DEF BeginRestore
<1>5. NamedInv'
  BY <1>1 DEF NamedInv, Whole, Kept, disk
<1>6. InstalledInv'
  BY <1>1, <1>4 DEF InstalledInv, UpdateSteps, Whole, disk
<1>7. BackupInv'
  BY <1>1, <1>3, <1>4 DEF BackupInv, BackupOf, RestoreSteps, disk
<1>8. RestoreInv'
  <2>1. pc' = "restoring" => restores' > 0
    BY <1>4 DEF TypeOK
  <2>2. pc' = "restoring" /\ undoing' => backup'.label = running'
    BY <1>1, <1>2 DEF BackupOf, disk
  <2> QED
    BY <1>1, <2>1, <2>2 DEF RestoreInv, RestoreSteps
<1> QED
  BY <1>1, <1>5, <1>6, <1>7, <1>8

LEMMA InstallsStep ==
  ASSUME Mishaps \subseteq {"install"}, TypeOK, UpdateInv, Installs
  PROVE  UpdateInv'
<1> USE ReleaseFacts DEF Goes, UpdateInv
<1>1. target \in Versions /\ target \in Generations /\ current \in Generations
  BY UpdateAssumption DEF TypeOK, Versions, Generations
<1>2. CASE PublishGeneration
  <2>1. Whole(target, target)'
    BY <1>1, <1>2 DEF PublishGeneration, NamedInv, Whole, TypeOK
  <2>2. Whole(current, entry)'
    BY <1>1, <1>2, <2>1 DEF PublishGeneration, InstalledInv, UpdateSteps, Whole,
       TypeOK
  <2>3. NamedInv'
    BY <1>2, <2>1 DEF PublishGeneration, NamedInv, Whole, TypeOK
  <2>4. InstalledInv' /\ BackupInv' /\ RestoreInv'
    BY <1>2, <2>1, <2>2 DEF PublishGeneration, InstalledInv, UpdateSteps,
       BackupInv, BackupOf, RestoreInv, RestoreSteps
  <2> QED
    BY <1>2, <2>3, <2>4 DEF PublishGeneration
<1>3. CASE SetAlias \/ SwitchCurrent \/ SwitchEntry \/ Verify
  <2>1. UNCHANGED <<gen, backup, running, target, undoing, restores>> /\ pc # "pruning"
    BY <1>3 DEF SetAlias, SwitchCurrent, SwitchEntry, Verify, disk
  <2>2. NamedInv'
    BY <2>1 DEF NamedInv, Whole
  <2>3. InstalledInv'
    BY <1>3 DEF SetAlias, SwitchCurrent, SwitchEntry, Verify, disk, InstalledInv,
       UpdateSteps, Whole
  <2>4. BackupInv' /\ RestoreInv'
    BY <1>3 DEF SetAlias, SwitchCurrent, SwitchEntry, Verify, disk, BackupInv,
       BackupOf, RestoreInv, RestoreSteps
  <2> QED
    BY <2>1, <2>2, <2>3, <2>4
<1>4. ASSUME NEW g \in Generations, Prune(g) PROVE UpdateInv'
  <2>1. UNCHANGED <<entry, current, alias, legacy, backup, control>> /\ pc = "pruning"
        /\ g \notin Kept /\ \A h \in Generations \ {g} : gen'[h] = gen[h]
    BY <1>4, Zenon DEF Prune, TypeOK
  <2>2. \A h \in Generations : h \in Kept => gen'[h] = gen[h]
    BY <2>1
  <2>3. NamedInv'
    BY <2>1, <2>2, UpdateAssumption DEF NamedInv, Whole, Kept, control, Versions,
       Generations
  <2>4. InstalledInv'
    BY <1>1, <2>1, <2>2 DEF InstalledInv, UpdateSteps, Whole, Kept, control
  <2>5. BackupInv' /\ RestoreInv'
    BY <2>1 DEF BackupInv, BackupOf, RestoreInv, RestoreSteps, control
  <2> QED
    BY <2>1, <2>3, <2>4, <2>5 DEF control
<1>5. CASE Pruned
  <2>1. UNCHANGED disk /\ running' = running /\ pc = "pruning" /\ pc' = "handoff"
    BY <1>5 DEF Pruned
  <2>2. NamedInv'
    BY <1>5, <2>1, UpdateAssumption DEF Pruned, NamedInv, Whole, disk, Versions,
       Generations
  <2>3. InstalledInv' /\ BackupInv' /\ RestoreInv'
    BY <1>5 DEF Pruned, InstalledInv, UpdateSteps, BackupInv, BackupOf,
       RestoreInv, RestoreSteps, Whole, disk
  <2> QED
    BY <2>1, <2>2, <2>3
<1>6. CASE InstallFails
  BY <1>6, BeginRestoreStep DEF InstallFails
<1> QED
  BY <1>2, <1>3, <1>4, <1>5, <1>6 DEF Installs

LEMMA RestoresStep ==
  ASSUME Mishaps \subseteq {"install"}, TypeOK, UpdateInv, Restores
  PROVE  UpdateInv'
<1> USE ReleaseFacts DEF Goes, UpdateInv
<1>1. /\ pc \in RestoreSteps /\ pc' \in RestoreSteps \cup {"handoff"}
      /\ UNCHANGED <<backup, running, target, undoing, restores>>
  BY DEF Restores, MakeGeneration, FillGeneration, RestoreAlias, EmptyLegacy,
         RefillLegacy, ReturnEntry, Repoint, RestoreSteps
<1>2. /\ restores > 0 /\ (undoing => backup.label = running)
      /\ BackupOf(backup.label) /\ backup.label # 0
  BY <1>1 DEF RestoreInv, BackupInv
<1>3. Restored' = Restored /\ Restored \in Generations /\ Restored \notin Versions
  BY <1>1, <1>2, UpdateAssumption DEF Restored, Generations, Versions, TypeOK
<1>4. BackupInv'
  BY <1>1, <1>2 DEF BackupInv, BackupOf, RestoreSteps
<1>5. NamedInv'
  <2>1. \A v \in Versions : v \in Generations /\ v # Restored
    BY <1>3, UpdateAssumption DEF Versions, Generations
  <2>2. CASE MakeGeneration \/ FillGeneration
    <3>1. \A v \in Versions : gen'[v] = gen[v]
      BY <2>1, <2>2 DEF MakeGeneration, FillGeneration, TypeOK
    <3> QED
      BY <1>1, <3>1 DEF NamedInv, Whole, RestoreSteps
  <2>3. CASE ~(MakeGeneration \/ FillGeneration)
    <3>1. gen' = gen
      BY <2>3 DEF Restores, RestoreAlias, EmptyLegacy, RefillLegacy, ReturnEntry,
         Repoint
    <3> QED
      BY <1>1, <3>1 DEF NamedInv, Whole, RestoreSteps
  <2> QED
    BY <2>2, <2>3
<1>6. RestoreInv'
  <2>1. CASE MakeGeneration
    BY <1>1, <1>2, <2>1 DEF MakeGeneration, RestoreInv, RestoreSteps
  <2>2. CASE FillGeneration
    <3>1. Whole(Restored, backup.label)'
      BY <1>1, <1>2, <1>3, <2>2 DEF FillGeneration, Whole, BackupOf, Release,
         TypeOK
    <3> QED
      BY <1>1, <1>2, <2>2, <3>1 DEF FillGeneration, RestoreInv, RestoreSteps
  <2>3. CASE RestoreAlias \/ EmptyLegacy \/ RefillLegacy \/ ReturnEntry
    BY <1>1, <1>2, <1>3, <2>3 DEF RestoreAlias, EmptyLegacy, RefillLegacy,
       ReturnEntry,
       RestoreInv, RestoreSteps, Whole, BackupOf
  <2>4. CASE Repoint
    BY <1>1, <2>4 DEF Repoint, RestoreInv, RestoreSteps
  <2> QED
    BY <2>1, <2>2, <2>3, <2>4 DEF Restores
<1>7. InstalledInv'
  <2>1. CASE Repoint
    BY <1>1, <1>2, <2>1 DEF Repoint, RestoreInv, InstalledInv, UpdateSteps, Whole
  <2>2. CASE ~Repoint
    BY <1>1, <2>2 DEF Restores, MakeGeneration, FillGeneration, RestoreAlias,
       EmptyLegacy,
       RefillLegacy, ReturnEntry, InstalledInv, UpdateSteps
  <2> QED
    BY <2>1, <2>2
<1> QED
  BY <1>1, <1>4, <1>5, <1>6, <1>7

LEMMA UpdateStep ==
  ASSUME Mishaps \subseteq {"install"}, TypeOK, UpdateInv, [Next]_vars
  PROVE  UpdateInv'
<1> USE DEF Goes
<1>1. CASE \E v \in Versions : BeginUpdate(v)
  BY <1>1 DEF BeginUpdate, disk, UpdateInv, NamedInv, InstalledInv, UpdateSteps,
     BackupInv, BackupOf, RestoreInv, RestoreSteps, Whole, Kept
<1>2. CASE BacksUp
  BY <1>2, BacksUpStep
<1>3. CASE Installs
  BY <1>3, InstallsStep
<1>4. CASE RollbackRequested
  BY <1>4, BeginRestoreStep DEF RollbackRequested
<1>5. CASE Restores
  BY <1>5, RestoresStep
<1>6. CASE Handoff
  <2>1. Whole(current, entry) /\ Starts /\ entry # 0
    BY <1>6, WholeStarts DEF Handoff, UpdateInv, InstalledInv, OwnLibraries,
       TypeOK, Versions
  <2> QED
    BY <1>6, <2>1 DEF Handoff, disk, UpdateInv, NamedInv, InstalledInv,
       UpdateSteps,
       BackupInv, BackupOf, RestoreInv, RestoreSteps, Whole, Kept
<1>7. ~Cut /\ ~Boot
  BY DEF Cut, Boot, UpdateInv
<1>8. CASE UNCHANGED vars
  BY <1>8 DEF vars, disk, control, UpdateInv, NamedInv, InstalledInv, BackupInv,
     BackupOf,
     RestoreInv, Whole, Kept, Restored
<1> QED
  BY <1>1, <1>2, <1>3, <1>4, <1>5, <1>6, <1>7, <1>8 DEF Next

\* While the power holds and backups succeed, pointers, generations and backup
\* agree at every step, wherever the installation fails.
THEOREM ErrorsOnly == ASSUME Mishaps \subseteq {"install"} PROVE Spec => []UpdateInv
<1>1. Init => TypeOK /\ RestoreBegan /\ UpdateInv
  BY TypeInit, UpdateInit DEF Init, RestoreBegan, RestoreSteps
<1>2. TypeOK /\ RestoreBegan /\ UpdateInv /\ [Next]_vars
        => TypeOK' /\ RestoreBegan' /\ UpdateInv'
  BY TypeStep, UpdateStep
<1> QED
  BY <1>1, <1>2, PTL DEF Spec

\* Whatever step of an update fails, the router has an agent that starts with
\* its own libraries (update.sh, wrtmonitor-agent).
THEOREM Starting == ASSUME Mishaps \subseteq {"install"} PROVE Spec => []AgentStarts
<1>1. UpdateInv => AgentStarts
  BY WholeStarts DEF UpdateInv, InstalledInv, AgentStarts
<1> QED
  BY <1>1, ErrorsOnly, PTL

\* An update that fails at any step leaves the agent it was started by
\* (update_validation.sh, perform_rollback).
THEOREM Undone == ASSUME Mishaps \subseteq {"install"} PROVE Spec => []ErrorUndone
<1>1. UpdateInv => ErrorUndone
  BY WholeStarts DEF UpdateInv, InstalledInv, ErrorUndone
<1> QED
  BY <1>1, ErrorsOnly, PTL

\* A backup that a rollback accepts is one whole agent (status.sh,
\* backup_available), as long as no backup fails half-way.
THEOREM Usable == ASSUME Mishaps \subseteq {"install"} PROVE Spec => []BackupUsable
<1>1. UpdateInv => BackupUsable
  BY DEF UpdateInv, BackupInv, BackupOf, BackupUsable, BackupAvailable
<1> QED
  BY <1>1, ErrorsOnly, PTL

-----------------------------------------------------------------------------
(* The inductive invariant, when anything fails and nobody goes back. *)

LEMMA NumberTypes ==
  ASSUME TypeOK
  PROVE  /\ entry \in Nat /\ running \in Nat /\ target \in Nat /\ entry # 0
         /\ backup.entry \in Nat /\ backup.label \in Nat /\ backup.libs \in Nat
         /\ legacy.libs \in Nat
         /\ \A g \in Generations : gen[g].label \in Nat /\ gen[g].libs \in Nat
BY UpdateAssumption DEF TypeOK, NoVersion, Versions, Directories

\* What may become of a generation.
Labelled(g) ==
  \/ gen'[g].label \in {0, gen[g].label} /\ gen'[g].libs = gen[g].libs
  \/ gen'[g].label = 0
  \/ gen'[g].libs <= gen'[g].label /\ gen'[g].label \in Nat /\ gen'[g].libs \in Nat
  \/ gen'[g].libs <= backup.entry /\ gen'[g].label \in Nat /\ gen'[g].libs \in Nat

LEMMA LabelsKept ==
  ASSUME TypeOK, LabelsOK, backup'.entry \in Nat, backup.entry <= backup'.entry,
         \A g \in Generations : Labelled(g)
  PROVE  LabelsOK'
<1> SUFFICES ASSUME NEW g \in Generations, gen'[g].label # 0, gen'[g].libs > gen'[g].label
             PROVE  gen'[g].label < backup'.entry
  BY DEF LabelsOK
<1>1. gen[g].label \in Nat /\ gen[g].libs \in Nat /\ backup.entry \in Nat
  BY NumberTypes
<1>2. CASE gen'[g].label = gen[g].label /\ gen'[g].libs = gen[g].libs
  BY <1>1, <1>2 DEF LabelsOK
<1>3. CASE gen'[g].libs <= gen'[g].label /\ gen'[g].label \in Nat /\ gen'[g].libs \in Nat
  BY <1>3
<1>4. CASE gen'[g].libs <= backup.entry /\ gen'[g].label \in Nat /\ gen'[g].libs \in Nat
  BY <1>1, <1>4
<1> QED
  BY <1>1, <1>2, <1>3, <1>4 DEF Labelled

\* The steps that leave the generations alone.
LEMMA LabelsRest ==
  ASSUME TypeOK, LabelsOK, gen' = gen, backup'.entry \in Nat, backup.entry <= backup'.entry
  PROVE  LabelsOK'
BY LabelsKept DEF Labelled

\* The steps that leave everything alone but the control state.
LEMMA OnlyControl ==
  ASSUME TypeOK, NoLaterInv, UNCHANGED disk, AtWork'
  PROVE  NoLaterInv'
<1>1. LabelsOK'
  BY LabelsRest, NumberTypes DEF NoLaterInv, disk
<1> QED
  BY <1>1 DEF NoLaterInv, BackupIsOlder, disk

LEMMA BeginsRestore ==
  ASSUME TypeOK, BeginRestore, BackupAvailable \/ pc = "idle", AtWork
  PROVE  AtWork' /\ UNCHANGED disk
BY DEF BeginRestore, AtWork, disk

LEMMA BacksUpNoLater ==
  ASSUME TypeOK, NoLaterInv, BacksUp
  PROVE  NoLaterInv'
<1> USE NumberTypes DEF Goes
<1>1. CASE ClearBackup
  <2>1. backup'.entry = backup.entry /\ backup'.libs = backup.libs
    BY <1>1 DEF ClearBackup, TypeOK
  <2>2. LabelsOK'
    BY <1>1, <2>1, LabelsRest DEF ClearBackup, NoLaterInv
  <2>3. BackupIsOlder' /\ AtWork'
    BY <1>1, <2>1 DEF ClearBackup, NoLaterInv, BackupIsOlder, AtWork
  <2> QED
    BY <2>2, <2>3 DEF NoLaterInv
<1>2. CASE KeepEntry
  <2>1. entry = running /\ running <= target
    BY <1>2 DEF KeepEntry, NoLaterInv, AtWork
  <2>2. Active.libs \in Nat /\ Active.libs <= entry
    <3>1. legacy.libs <= entry
      BY DEF NoLaterInv, BackupIsOlder
    <3>2. gen[current].label = running => gen[current].libs <= entry
      BY <2>1 DEF NoLaterInv, BackupIsOlder, LabelsOK, TypeOK
    <3> QED
      BY <3>1, <3>2 DEF Active, TypeOK
  <2>3. backup'.entry = entry /\ backup'.libs = Active.libs
    BY <1>2 DEF KeepEntry, TypeOK
  <2>4. LabelsOK'
    BY <1>2, <2>3, LabelsRest DEF KeepEntry, NoLaterInv, BackupIsOlder
  <2>5. BackupIsOlder' /\ AtWork'
    BY <1>2, <2>1, <2>2, <2>3 DEF KeepEntry, NoLaterInv, BackupIsOlder, AtWork
  <2> QED
    BY <2>4, <2>5 DEF NoLaterInv
<1>3. CASE CopyLibraries
  <2>1. backup'.entry = backup.entry /\ backup'.libs = backup.libs
        /\ backup'.part \in {"some", "all"}
    BY <1>3 DEF CopyLibraries, TypeOK
  <2>2. LabelsOK'
    BY <1>3, <2>1, LabelsRest DEF CopyLibraries, NoLaterInv
  <2>3. BackupIsOlder' /\ AtWork'
    BY <1>3, <2>1 DEF CopyLibraries, NoLaterInv, BackupIsOlder, AtWork
  <2> QED
    BY <2>2, <2>3 DEF NoLaterInv
<1>4. CASE LabelBackup
  <2>1. backup'.entry = backup.entry /\ backup'.libs = backup.libs
        /\ backup'.part = backup.part /\ backup'.label = running
    BY <1>4 DEF LabelBackup, TypeOK
  <2>2. LabelsOK'
    BY <1>4, <2>1, LabelsRest DEF LabelBackup, NoLaterInv
  <2>3. BackupIsOlder' /\ AtWork'
    BY <1>4, <2>1 DEF LabelBackup, NoLaterInv, BackupIsOlder, AtWork, BackupAvailable
  <2> QED
    BY <2>2, <2>3 DEF NoLaterInv
<1>5. CASE BackupFails
  <2>1. AtWork'
    BY <1>5 DEF BackupFails, NoLaterInv, AtWork, disk
  <2> QED
    BY <1>5, <2>1, OnlyControl DEF BackupFails
<1> QED
  BY <1>1, <1>2, <1>3, <1>4, <1>5 DEF BacksUp

LEMMA InstallsNoLater ==
  ASSUME TypeOK, NoLaterInv, Installs
  PROVE  NoLaterInv'
<1> USE NumberTypes DEF Goes
<1>1. CASE PublishGeneration
  <2>1. \A g \in Generations : Labelled(g)
    BY <1>1 DEF PublishGeneration, Labelled, Release, TypeOK
  <2>2. LabelsOK'
    BY <1>1, <2>1, LabelsKept DEF PublishGeneration, NoLaterInv
  <2> QED
    BY <1>1, <2>2 DEF PublishGeneration, NoLaterInv, BackupIsOlder, AtWork, BackupAvailable
<1>2. CASE SetAlias
  <2>1. LabelsOK'
    BY <1>2, LabelsRest DEF SetAlias, NoLaterInv
  <2> QED
    BY <1>2, <2>1 DEF SetAlias, NoLaterInv, BackupIsOlder, AtWork, BackupAvailable
<1>3. CASE SwitchCurrent
  <2>1. LabelsOK'
    BY <1>3, LabelsRest DEF SwitchCurrent, NoLaterInv
  <2> QED
    BY <1>3, <2>1 DEF SwitchCurrent, NoLaterInv, BackupIsOlder, AtWork, BackupAvailable
<1>4. CASE SwitchEntry
  <2>1. LabelsOK'
    BY <1>4, LabelsRest DEF SwitchEntry, NoLaterInv
  <2>2. entry <= target
    BY <1>4 DEF SwitchEntry, NoLaterInv, AtWork
  <2> QED
    BY <1>4, <2>1, <2>2 DEF SwitchEntry, NoLaterInv, BackupIsOlder, AtWork, BackupAvailable
<1>5. CASE Verify
  <2>1. AtWork'
    BY <1>5 DEF Verify, AtWork
  <2> QED
    BY <1>5, <2>1, OnlyControl DEF Verify
<1>6. ASSUME NEW g \in Generations, Prune(g) PROVE NoLaterInv'
  <2>1. \/ gen' = [gen EXCEPT ![g] = Absent]
        \/ \E p \in {"none", "some"}, l \in {0, gen[g].label} :
             gen' = [gen EXCEPT ![g].part = p, ![g].label = l]
    BY <1>6, Zenon DEF Prune
  <2>2. \A h \in Generations : Labelled(h)
    <3>1. CASE gen' = [gen EXCEPT ![g] = Absent]
      BY <3>1 DEF Labelled, Absent, TypeOK
    <3>2. ASSUME NEW p \in {"none", "some"}, NEW l \in {0, gen[g].label},
                 gen' = [gen EXCEPT ![g].part = p, ![g].label = l]
          PROVE  \A h \in Generations : Labelled(h)
      BY <3>2 DEF Labelled, TypeOK, Directories
    <3> QED
      BY <2>1, <3>1, <3>2
  <2>3. LabelsOK'
    BY <1>6, <2>2, LabelsKept DEF Prune, NoLaterInv
  <2> QED
    BY <1>6, <2>3 DEF Prune, NoLaterInv, BackupIsOlder, AtWork, BackupAvailable, control
<1>7. CASE Pruned
  <2>1. AtWork'
    BY <1>7 DEF Pruned, AtWork
  <2> QED
    BY <1>7, <2>1, OnlyControl DEF Pruned
<1>8. CASE InstallFails
  <2>1. BackupAvailable /\ BeginRestore
    BY <1>8 DEF InstallFails, NoLaterInv, AtWork
  <2> QED
    BY <2>1, BeginsRestore, OnlyControl DEF NoLaterInv
<1> QED
  BY <1>1, <1>2, <1>3, <1>4, <1>5, <1>6, <1>7, <1>8 DEF Installs

LEMMA RestoresNoLater ==
  ASSUME TypeOK, RestoreBegan, NoLaterInv, Restores
  PROVE  NoLaterInv'
<1> USE NumberTypes DEF Goes
<1>1. CASE MakeGeneration
  <2>1. \A g \in Generations : Labelled(g)
    BY <1>1 DEF MakeGeneration, Labelled, TypeOK
  <2>2. LabelsOK'
    BY <1>1, <2>1, LabelsKept DEF MakeGeneration, NoLaterInv
  <2> QED
    BY <1>1, <2>2 DEF MakeGeneration, NoLaterInv, BackupIsOlder, AtWork
<1>2. CASE FillGeneration
  <2>1. \A g \in Generations : Labelled(g)
    BY <1>2 DEF FillGeneration, Labelled, TypeOK, NoLaterInv, BackupIsOlder
  <2>2. LabelsOK'
    BY <1>2, <2>1, LabelsKept DEF FillGeneration, NoLaterInv
  <2> QED
    BY <1>2, <2>2 DEF FillGeneration, NoLaterInv, BackupIsOlder, AtWork
<1>3. CASE RestoreAlias
  <2>1. LabelsOK'
    BY <1>3, LabelsRest DEF RestoreAlias, NoLaterInv
  <2> QED
    BY <1>3, <2>1 DEF RestoreAlias, NoLaterInv, BackupIsOlder, AtWork
<1>4. CASE EmptyLegacy
  <2>1. LabelsOK'
    BY <1>4, LabelsRest DEF EmptyLegacy, NoLaterInv
  <2>2. legacy'.libs \in {legacy.libs, backup.libs}
    BY <1>4 DEF EmptyLegacy
  <2> QED
    BY <1>4, <2>1, <2>2 DEF EmptyLegacy, NoLaterInv, BackupIsOlder, AtWork
<1>5. CASE RefillLegacy
  <2>1. LabelsOK'
    BY <1>5, LabelsRest DEF RefillLegacy, NoLaterInv
  <2> QED
    BY <1>5, <2>1 DEF RefillLegacy, NoLaterInv, BackupIsOlder, AtWork
<1>6. CASE ReturnEntry
  <2>1. LabelsOK'
    BY <1>6, LabelsRest DEF ReturnEntry, NoLaterInv
  <2> QED
    BY <1>6, <2>1 DEF ReturnEntry, NoLaterInv, BackupIsOlder, AtWork
<1>7. CASE Repoint
  <2>1. LabelsOK'
    BY <1>7, LabelsRest DEF Repoint, NoLaterInv
  <2> QED
    BY <1>7, <2>1 DEF Repoint, NoLaterInv, BackupIsOlder, AtWork
<1> QED
  BY <1>1, <1>2, <1>3, <1>4, <1>5, <1>6, <1>7 DEF Restores

LEMMA NoLaterStep ==
  ASSUME ~Downgrades, TypeOK, RestoreBegan, NoLaterInv, [Next]_vars
  PROVE  NoLaterInv'
<1> USE NumberTypes DEF Goes
<1>1. ASSUME NEW v \in Versions, BeginUpdate(v) PROVE NoLaterInv'
  <2>1. running = entry /\ v >= running /\ v \in Nat
    BY <1>1, UpdateAssumption DEF BeginUpdate, NoLaterInv, AtWork, Versions
  <2>2. AtWork' /\ UNCHANGED disk
    BY <1>1, <2>1 DEF BeginUpdate, AtWork, disk
  <2> QED
    BY <2>2, OnlyControl
<1>2. CASE RollbackRequested
  BY <1>2, BeginsRestore, OnlyControl DEF RollbackRequested, NoLaterInv
<1>3. CASE Handoff \/ Cut \/ Boot
  <2>1. AtWork' /\ UNCHANGED disk
    BY <1>3 DEF Handoff, Cut, Boot, AtWork, disk
  <2> QED
    BY <2>1, OnlyControl
<1>4. CASE UNCHANGED vars
  <2>1. AtWork' /\ UNCHANGED disk
    BY <1>4 DEF vars, control, disk, NoLaterInv, AtWork, BackupAvailable
  <2> QED
    BY <2>1, OnlyControl
<1> QED
  BY <1>1, <1>2, <1>3, <1>4, BacksUpNoLater, InstallsNoLater, RestoresNoLater DEF Next

LEMMA NoLaterFollows == ASSUME TypeOK, NoLaterInv PROVE NoLaterLibraries
<1>1. legacy.libs <= entry
  BY NumberTypes DEF NoLaterInv, BackupIsOlder
<1>2. gen[current].label = entry => gen[current].libs <= entry
  BY NumberTypes DEF NoLaterInv, BackupIsOlder, LabelsOK, TypeOK
<1> QED
  BY <1>1, <1>2 DEF NoLaterLibraries, Libraries

\* What is carried from step to step.
NoLaterSafe == TypeOK /\ RestoreBegan /\ NoLaterInv

LEMMA NoLaterBase == Init => NoLaterSafe
<1>1. Init => NoLaterInv
  BY DEF Init, NoLaterInv, BackupIsOlder, LabelsOK, AtWork, Release, Absent
<1> QED
  BY <1>1, TypeInit DEF Init, RestoreBegan, RestoreSteps, NoLaterSafe

LEMMA NoLaterInductive == ASSUME ~Downgrades, NoLaterSafe, [Next]_vars PROVE NoLaterSafe'
BY TypeStep, NoLaterStep DEF NoLaterSafe

\* An entry point never loads libraries of a later version than its own, whatever
\* fails and whenever the power is cut, as long as nobody asks for an earlier version
\* (update_storage.sh, wrtmonitor-agent).
THEOREM NeverLater == ASSUME ~Downgrades PROVE Spec => []NoLaterLibraries
<1>1. NoLaterSafe => NoLaterLibraries
  BY NoLaterFollows DEF NoLaterSafe
<1> QED
  BY <1>1, NoLaterBase, NoLaterInductive, PTL DEF Spec
=============================================================================
