-------------------------- MODULE DatabaseBackups --------------------------
(***************************************************************************)
(* The backup utility: several runs of it may be in progress, by a timer   *)
(* and by hand, while the application writes, and each can be killed.  A   *)
(* file copied elsewhere may have lost its end.                            *)
(*                                                                         *)
(* pg_dump, pg_restore and the drill's database are external: a dump is of *)
(* one moment; the list of a file's contents is at its front, and can be   *)
(* read when the rest is missing; a restore is not one transaction.        *)
(***************************************************************************)
EXTENDS Integers

CONSTANTS
  Paths, BackupRuns,
  MaxRows, MaxKills, MaxCopies \* bounds: writes, killed runs, copies that lost their end

VARIABLES
  rows,      \* the database: what the application has written, or Half
  serving,   \* whether the application runs
  files,     \* [Paths -> content or NoFile]
  utility,   \* the runs
  litter,    \* temporary files and databases no run of the utility will remove
  kills, copies,
  restored   \* history: the content a restore has just reported, or Half

backupVars == <<rows, serving, files, utility, litter, kills, copies, restored>>

-----------------------------------------------------------------------------
Half == -1
NoFile == [rows |-> Half, whole |-> FALSE, exists |-> FALSE]
Content(n) == [rows |-> n, whole |-> TRUE, exists |-> TRUE]
Idle == [job |-> "none", step |-> "none", path |-> "none", file |-> NoFile]
Is(r, job, step) == utility[r].job = job /\ utility[r].step = step

BackupInit ==
  /\ rows = 0 /\ serving = TRUE
  /\ files = [p \in Paths |-> NoFile]
  /\ utility = [r \in BackupRuns |-> Idle]
  /\ litter = 0 /\ kills = 0 /\ copies = 0 /\ restored = Half

\* Of the application.
Write ==
  /\ serving /\ rows \in 0..(MaxRows - 1)
  /\ rows' = rows + 1 /\ restored' = Half
  /\ UNCHANGED <<serving, files, utility, litter, kills, copies>>
Serve(on) ==
  /\ serving # on /\ \A r \in BackupRuns : utility[r].job # "restore"
  /\ serving' = on
  /\ UNCHANGED <<rows, files, utility, litter, kills, copies, restored>>
\* A copy that lost its end.
Damage(p, q) ==
  /\ copies < MaxCopies /\ copies' = copies + 1
  /\ files[p].exists /\ files' = [files EXCEPT ![q] = [files[p] EXCEPT !.whole = FALSE]]
  /\ UNCHANGED <<rows, serving, utility, litter, kills, restored>>

-----------------------------------------------------------------------------
(* The utility. *)

\* main: a restore asks for --confirm and a stopped application, and trusts the
\* answer.  A second restore at a time is not considered.
Run(r, job, p) ==
  /\ utility[r] = Idle
  /\ job = "restore" => ~serving /\ \A s \in BackupRuns : utility[s].job # "restore"
  /\ utility' = [utility EXCEPT ![r] = [Idle EXCEPT !.job = job, !.path = p,
                                                    !.step = IF job = "create" THEN "dump" ELSE "verify"]]
  /\ UNCHANGED <<rows, serving, files, litter, kills, copies, restored>>
\* The run ends, and says what came of it; its temporary file or database is removed.
Ends(r) == utility' = [utility EXCEPT ![r] = Idle]
Goes(r, step, file) == utility' = [utility EXCEPT ![r].step = step, ![r].file = file]

\* create_backup: pg_dump writes to a temporary file; a database that was restored by
\* half may lack the tables the check looks for.
Dump(r) ==
  /\ Is(r, "create", "dump")
  /\ \/ rows # Half /\ Goes(r, "written", [Content(rows) EXCEPT !.whole = FALSE])
     \/ rows = Half /\ Ends(r)
  /\ UNCHANGED <<rows, serving, files, litter, kills, copies, restored>>
\* Mutant: the dump is put in place before it is complete.
DumpedEarly(r) ==
  /\ Is(r, "create", "written")
  /\ files' = [files EXCEPT ![utility[r].path] = utility[r].file]
  /\ Goes(r, "replace", [utility[r].file EXCEPT !.whole = TRUE])
  /\ UNCHANGED <<rows, serving, litter, kills, copies, restored>>
\* pg_dump is done or fails, and verify_backup.
Dumped(r) ==
  /\ Is(r, "create", "written")
  /\ \/ Ends(r)
     \/ Goes(r, "replace", [utility[r].file EXCEPT !.whole = TRUE])
  /\ UNCHANGED <<rows, serving, files, litter, kills, copies, restored>>
Replace(r) ==
  /\ Is(r, "create", "replace")
  /\ files' = [files EXCEPT ![utility[r].path] = utility[r].file]
  /\ Ends(r)
  /\ UNCHANGED <<rows, serving, litter, kills, copies, restored>>

\* verify_backup reads the list of contents.  What follows opens the path again.
Verify(r) ==
  /\ utility[r].step = "verify"
  /\ \/ ~files[utility[r].path].exists /\ Ends(r)
     \/ files[utility[r].path].exists /\ utility[r].job = "verify" /\ Ends(r)
     \/ files[utility[r].path].exists /\ utility[r].job # "verify" /\ Goes(r, "open", NoFile)
  /\ UNCHANGED <<rows, serving, files, litter, kills, copies, restored>>

\* verify_restore_drill: CREATE DATABASE, pg_restore into it, the rows are counted.
DrillStarts(r) ==
  /\ Is(r, "drill", "open") /\ Goes(r, "filled", files[utility[r].path])
  /\ UNCHANGED <<rows, serving, files, litter, kills, copies, restored>>
DrillEnds(r) ==
  /\ Is(r, "drill", "filled") /\ Ends(r)
  /\ UNCHANGED <<rows, serving, files, litter, kills, copies, restored>>

\* restore_backup: the tables are dropped, then filled.
Clean(r) ==
  /\ Is(r, "restore", "open")
  /\ rows' = Half /\ restored' = Half /\ Goes(r, "fill", files[utility[r].path])
  /\ UNCHANGED <<serving, files, litter, kills, copies>>
\* Mutant: the exit status of pg_restore is not looked at.
FillUnchecked(r) ==
  /\ Is(r, "restore", "fill") /\ Ends(r)
  /\ rows' = IF utility[r].file.whole THEN utility[r].file.rows ELSE Half
  /\ restored' = utility[r].file.rows
  /\ UNCHANGED <<serving, files, litter, kills, copies>>
Fill(r) ==
  /\ Is(r, "restore", "fill") /\ Ends(r)
  /\ IF utility[r].file.whole
     THEN rows' = utility[r].file.rows /\ restored' = utility[r].file.rows
     ELSE UNCHANGED <<rows, restored>>
  /\ UNCHANGED <<serving, files, litter, kills, copies>>

\* No `finally` runs.
Kill(r) ==
  /\ utility[r] # Idle /\ kills < MaxKills /\ kills' = kills + 1
  /\ litter' = IF utility[r].job = "create" \/ Is(r, "drill", "filled") THEN litter + 1 ELSE litter
  /\ Ends(r)
  /\ UNCHANGED <<rows, serving, files, copies, restored>>

BackupNext ==
  \/ Write
  \/ \E on \in BOOLEAN : Serve(on)
  \/ \E p, q \in Paths : Damage(p, q)
  \/ \E r \in BackupRuns, p \in Paths, job \in {"create", "verify", "drill", "restore"} :
       Run(r, job, p)
  \/ \E r \in BackupRuns :
       \/ Dump(r)
       \/ Dumped(r)
       \/ Replace(r)
       \/ Verify(r)
       \/ DrillStarts(r)
       \/ DrillEnds(r)
       \/ Clean(r)
       \/ Fill(r)
       \/ Kill(r)

BackupSpec == BackupInit /\ [][BackupNext]_backupVars

-----------------------------------------------------------------------------
(* Why it does: the inductive invariant. *)

Rows == {Half} \cup 0..MaxRows
Contents == [rows : Rows, whole : BOOLEAN, exists : BOOLEAN]
Runs ==
  [job : {"none", "create", "verify", "drill", "restore"},
   step : {"none", "dump", "written", "replace", "verify", "open", "filled", "fill"},
   path : Paths \cup {"none"}, file : Contents]
Sound(file) == file.whole => file.exists /\ file.rows # Half

BackupTypeOK ==
  /\ rows \in Rows /\ restored \in Rows
  /\ files \in [Paths -> Contents]
  /\ utility \in [BackupRuns -> Runs]
  /\ litter \in Nat /\ kills \in Nat /\ copies \in Nat

\* Only a copy makes a file that is not whole.
FilesOK ==
  /\ \A p \in Paths : Sound(files[p])
  /\ copies = 0 => \A p \in Paths : files[p].exists => files[p].whole

\* What a run is about to put in a file's place is whole, what it has found there is
\* still there, and what a restore reads is whole or a copy.
RunsOK ==
  \A r \in BackupRuns :
    /\ utility[r].step # "none" => utility[r].path \in Paths
    /\ Sound(utility[r].file)
    /\ Is(r, "create", "written") => utility[r].file.exists /\ utility[r].file.rows # Half
    /\ Is(r, "create", "replace") => utility[r].file.whole
    /\ utility[r].step = "open" => files[utility[r].path].exists
    /\ Is(r, "restore", "fill") => utility[r].file.whole \/ copies > 0

\* The database is half only while a restore fills it, or after one that was killed
\* or read a copy.
DatabaseOK ==
  /\ (rows = Half /\ \A r \in BackupRuns : ~Is(r, "restore", "fill")) => kills + copies > 0
  /\ restored # Half => rows = restored
  /\ litter <= kills

BackupInv == BackupTypeOK /\ FilesOK /\ RunsOK /\ DatabaseOK

-----------------------------------------------------------------------------
\* Whatever is killed and however runs overlap, a file the utility has put in its
\* place is a whole dump of one moment, and stays so unless a copy over it lost its
\* end; the database is what the application wrote or what a restore has filled in, and is
\* half only after a restore that was killed or read such a copy, and the restore has
\* not said it was OK (database_backups.py: create_backup writes aside and
\* replaces; docs/server-operations.md:15).  A run that was not killed leaves nothing behind.
BackupIsWhole ==
  /\ copies = 0 => \A p \in Paths : files[p].exists => files[p].whole
  /\ \A p \in Paths : files[p].whole => files[p].rows \in 0..MaxRows
  /\ (rows = Half /\ \A r \in BackupRuns : ~Is(r, "restore", "fill")) => kills + copies > 0
  /\ restored # Half => rows = restored
  /\ litter <= kills
=============================================================================
