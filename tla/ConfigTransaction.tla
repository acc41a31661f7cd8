------------------------- MODULE ConfigTransaction -------------------------
(***************************************************************************)
(* Safe configuration changes on the router.  A command that changes UCI   *)
(* files first copies them to a transaction directory; the daemon then     *)
(* applies the change and either settles the transaction itself or leaves  *)
(* it to a background verifier, which confirms it when the server answers  *)
(* and otherwise copies the files back.  A daemon that starts looks for    *)
(* unfinished transactions and settles or resumes them.                    *)
(*                                                                         *)
(* A configuration file is abstracted to the set of changes it contains.   *)
(* Transactions are numbered in the order the daemon begins them; a change *)
(* that was in effect already counts as applied by the transaction that    *)
(* asked for it.  Times are seconds of the router's clock, started[t] is   *)
(* started_epoch of the meta file.                                         *)
(***************************************************************************)
EXTENDS Integers, FiniteSets

CONSTANTS
  NumTxs,        \* transactions the daemon begins (bound)
  Files,         \* UCI configuration files
  FilesOf,       \* files each transaction changes
  Sensitive,     \* transactions that can cut the connection to the server
  Timeout,       \* rollback_timeout
  MaxClock,      \* last value of the clock (bound)
  MaxExits,      \* times the daemon goes down (bound)
  Exits          \* how it does: "reboot" kills the verifiers, "restart" does not

Txs == 1..NumTxs

\* Every start of the daemon schedules at most one verifier more.
Verifiers == 1..(MaxExits + 1)

ASSUME TransactionAssumption ==
  /\ NumTxs \in Nat
  /\ FilesOf \in [Txs -> SUBSET Files]
  /\ Sensitive \subseteq Txs
  /\ Timeout \in Nat
  /\ MaxClock \in Nat
  /\ MaxExits \in Nat
  /\ Exits \subseteq {"reboot", "restart"}

VARIABLES
  files,      \* the changes each live configuration file contains
  backup,     \* the copies of the files a transaction changes
  state, started, recoveries,   \* the meta file of each transaction
  verdict,    \* the last result reported for each transaction
  clock, exits,
  pc,         \* what the daemon is doing
  begun, cur, \* last transaction begun, transaction in hand
  outcome,    \* rollback_state of the daemon
  todo, now,  \* recovery: directories to visit, time it began
  verifier    \* background verifiers: stage, start time they read, outcome

meta == <<state, started, recoveries>>
daemon == <<pc, begun, cur, outcome, todo, now>>
vars == <<files, backup, meta, verdict, clock, exits, daemon, verifier>>

-----------------------------------------------------------------------------
\* Mutant: recovery looks for scheduled verifications only.
OpenVerifying == {"verifying"}

\* Mutant: recovery reopens what it finds confirmed.
OpenConfirmed == {"prepared", "verifying", "confirmed"}

Open == {"prepared", "verifying"}
Settled == {"confirmed", "rolled_back", "superseded"}
States == {"none", "prepared", "verifying"} \cup Settled
Restorations == {"rolled_back", "rollback_failed"}
Verdicts == {"none", "success", "not_applied"} \cup Restorations
Stages == {"off", "probing", "passed", "confirmed", "restored", "failed"}
VerifierStates == [stage : Stages, since : 0..MaxClock,
                   outcome : {"none"} \cup Restorations]
Idle == [stage |-> "off", since |-> 0, outcome |-> "none"]

\* Type invariant: files, meta files, reports, daemon and verifiers.
TypeOK ==
  /\ files \in [Files -> SUBSET Txs]
  /\ backup \in [Txs -> [Files -> SUBSET Txs]]
  /\ state \in [Txs -> States]
  /\ started \in [Txs -> 0..MaxClock]
  /\ recoveries \in [Txs -> 0..1]
  /\ verdict \in [Txs -> Verdicts]
  /\ clock \in 0..MaxClock
  /\ exits \in 0..MaxExits
  /\ pc \in {"idle", "applying", "restored", "down", "recovering", "undone"}
  /\ begun \in 0..NumTxs
  /\ cur \in 0..NumTxs
  /\ pc \in {"applying", "restored", "undone"} => cur \in Txs
  /\ outcome \in {"none", "rolled_back", "rollback_failed"}
  /\ todo \in SUBSET Txs
  /\ now \in 0..MaxClock
  /\ verifier \in [Txs -> [Verifiers -> VerifierStates]]

Init ==
  /\ files = [f \in Files |-> {}]
  /\ backup = [t \in Txs |-> [f \in Files |-> {}]]
  /\ state = [t \in Txs |-> "none"]
  /\ started = [t \in Txs |-> 0]
  /\ recoveries = [t \in Txs |-> 0]
  /\ verdict = [t \in Txs |-> "none"]
  /\ clock = 0 /\ exits = 0
  /\ pc = "idle" /\ begun = 0 /\ cur = 0 /\ outcome = "none"
  /\ todo = {} /\ now = 0
  /\ verifier = [t \in Txs |-> [k \in Verifiers |-> Idle]]

-----------------------------------------------------------------------------
(* Operations on the meta file, the backups and the verifiers. *)

SetState(t, s) == state' = [state EXCEPT ![t] = s]
Reported(t, v) == verdict' = [verdict EXCEPT ![t] = v]

\* Bounds: a window that begins ends before the clock does.
WindowFits == clock + Timeout <= MaxClock

\* Mutant: one copy done counts as a restore.
CopyBackSome(t, result) ==
  \E good \in SUBSET FilesOf[t] :
    /\ result = "rollback_failed" \/ good # {}
    /\ files' = [f \in Files |-> IF f \in good THEN backup[t][f] ELSE files[f]]

\* transaction_restore: the copies replace the files.  A copy can fail, and
\* so can the restart of a service afterwards.
CopyBack(t, result) ==
  \E good \in SUBSET FilesOf[t] :
    /\ result = "rollback_failed" \/ good = FilesOf[t]
    /\ files' = [f \in Files |-> IF f \in good THEN backup[t][f] ELSE files[f]]

\* transaction_schedule_verification: one more verifier.
Schedule(t, since) ==
  /\ SetState(t, "verifying")
  /\ \E k \in Verifiers :
       /\ verifier[t][k] = Idle
       /\ verifier' = [verifier EXCEPT ![t][k] =
                         [Idle EXCEPT !.stage = "probing", !.since = since]]

\* transaction_has_newer_confirmed_overlap.
Superseded(t) ==
  \E u \in Txs \ {t} : /\ state[u] = "confirmed"
                       /\ started[u] > started[t]
                       /\ FilesOf[u] \cap FilesOf[t] # {}

-----------------------------------------------------------------------------
(* execute_command.  Every command is executed at most once: see AtMostOnce *)
(* of CommandLifecycle.                                                     *)

\* transaction_begin: copy the files, write the meta file.
Begin(t) ==
  /\ pc = "idle"
  /\ t = begun + 1
  /\ WindowFits
  /\ backup' = [backup EXCEPT ![t] =
                  [f \in Files |-> IF f \in FilesOf[t] THEN files[f] ELSE {}]]
  /\ SetState(t, "prepared")
  /\ started' = [started EXCEPT ![t] = clock]
  /\ begun' = t
  /\ cur' = t
  /\ pc' = "applying"
  /\ UNCHANGED <<files, recoveries, verdict, clock, exits, outcome, todo, now,
                 verifier>>

\* No space, no readable file: the command fails without a transaction.
CannotBegin(t) ==
  /\ pc = "idle"
  /\ t = begun + 1
  /\ begun' = t
  /\ Reported(t, "not_applied")
  /\ UNCHANGED <<files, backup, meta, clock, exits, pc, cur, outcome, todo, now,
                 verifier>>

\* The handler of the command commits one file after the other.
Write(f) ==
  /\ pc = "applying"
  /\ f \in FilesOf[cur]
  /\ cur \notin files[f]
  /\ files' = [files EXCEPT ![f] = @ \cup {cur}]
  /\ UNCHANGED <<backup, meta, verdict, clock, exits, daemon, verifier>>

\* Mutant: the post-condition is not looked at.
AppliedUnverified == pc = "applying"

\* The handler has returned and its post-condition was verified.
Applied == pc = "applying" /\ \A f \in FilesOf[cur] : cur \in files[f]

Done == /\ pc' = "idle"
        /\ UNCHANGED <<begun, cur, outcome, todo, now>>

\* The change cannot cut the connection to the server.
ConfirmNow ==
  /\ Applied
  /\ cur \notin Sensitive
  /\ SetState(cur, "confirmed")
  /\ Reported(cur, "success")
  /\ Done
  /\ UNCHANGED <<files, backup, started, recoveries, clock, exits, verifier>>

\* transaction_noop: what was asked for is in effect already, which counts as
\* applied by this transaction, and there is nothing to verify.
NothingToChange ==
  /\ pc = "applying"
  /\ cur \in Sensitive
  /\ \A f \in FilesOf[cur] : cur \notin files[f]
  /\ files' = [f \in Files |-> IF f \in FilesOf[cur]
                                THEN files[f] \cup {cur} ELSE files[f]]
  /\ SetState(cur, "confirmed")
  /\ Reported(cur, "success")
  /\ Done
  /\ UNCHANGED <<backup, started, recoveries, clock, exits, verifier>>

\* Otherwise a verifier decides, and the daemon goes on with the next command.
VerifyLater ==
  /\ Applied
  /\ cur \in Sensitive
  /\ Schedule(cur, started[cur])
  /\ Done
  /\ UNCHANGED <<files, backup, started, recoveries, verdict, clock, exits>>

\* The handler or the post-condition failed, possibly half-way: restore.
HandlerFails ==
  /\ pc = "applying"
  /\ outcome' \in Restorations
  /\ CopyBack(cur, outcome')
  /\ pc' = "restored"
  /\ UNCHANGED <<backup, meta, verdict, clock, exits, begun, cur, todo, now,
                 verifier>>

\* Mutant: the state is left as it was.
RestoreReportedOnly ==
  /\ pc \in {"restored", "undone"}
  /\ Reported(cur, outcome)
  /\ pc' = IF pc = "restored" THEN "idle" ELSE "recovering"
  /\ outcome' = "none"
  /\ UNCHANGED <<files, backup, meta, clock, exits, begun, cur, todo, now,
                 verifier>>

\* The end of a restore by the daemon, here or in its recovery.
RestoreReported ==
  /\ pc \in {"restored", "undone"}
  /\ SetState(cur, "rolled_back")
  /\ Reported(cur, outcome)
  /\ pc' = IF pc = "restored" THEN "idle" ELSE "recovering"
  /\ outcome' = "none"
  /\ UNCHANGED <<files, backup, started, recoveries, clock, exits, begun, cur,
                 todo, now, verifier>>

-----------------------------------------------------------------------------
(* verify_transaction, run by a process of its own. *)

Move(t, k, from, to) ==
  /\ verifier[t][k].stage = from
  /\ verifier' = [verifier EXCEPT ![t][k].stage = to]

Ends(t, k, from) ==
  /\ verifier[t][k].stage = from
  /\ verifier' = [verifier EXCEPT ![t][k] = Idle]

\* The server answers, and the interface has the address that was asked for.
Probe(t, k) ==
  /\ Move(t, k, "probing", "passed")
  /\ UNCHANGED <<files, backup, meta, verdict, clock, exits, daemon>>

Confirm(t, k) ==
  /\ Move(t, k, "passed", "confirmed")
  /\ SetState(t, "confirmed")
  /\ UNCHANGED <<files, backup, started, recoveries, verdict, clock, exits,
                 daemon>>

ReportSuccess(t, k) ==
  /\ Ends(t, k, "confirmed")
  /\ Reported(t, "success")
  /\ UNCHANGED <<files, backup, meta, clock, exits, daemon>>

\* The verification window has passed: transaction_restore copies the files...
TimeOut(t, k) ==
  /\ verifier[t][k].stage = "probing"
  /\ clock >= verifier[t][k].since + Timeout
  /\ \E r \in Restorations :
       /\ CopyBack(t, r)
       /\ verifier' = [verifier EXCEPT ![t][k] =
                         [@ EXCEPT !.stage = "restored", !.outcome = r]]
  /\ UNCHANGED <<backup, meta, verdict, clock, exits, daemon>>

\* ... and, after the services were restarted, sets the state.
RollBack(t, k) ==
  /\ Move(t, k, "restored", "failed")
  /\ SetState(t, "rolled_back")
  /\ UNCHANGED <<files, backup, started, recoveries, verdict, clock, exits,
                 daemon>>

ReportFailure(t, k) ==
  /\ Ends(t, k, "failed")
  /\ Reported(t, verifier[t][k].outcome)
  /\ UNCHANGED <<files, backup, meta, clock, exits, daemon>>

-----------------------------------------------------------------------------
(* Time, exits, and transaction_recover_pending. *)

\* Bound: the clock leaves room for the windows that can still begin.
Tick ==
  /\ clock < MaxClock
  /\ pc \in {"idle", "restored"} \/ clock + Timeout < MaxClock
  /\ clock' = clock + 1
  /\ UNCHANGED <<files, backup, meta, verdict, exits, daemon, verifier>>

\* The router reboots, or the daemon is restarted, killed or replaced.
Exit(kind) ==
  /\ pc # "down"
  /\ exits < MaxExits
  /\ WindowFits
  /\ exits' = exits + 1
  /\ pc' = "down"
  /\ outcome' = "none"
  /\ todo' = {}
  /\ verifier' = IF kind = "reboot"
                   THEN [t \in Txs |-> [k \in Verifiers |-> Idle]] ELSE verifier
  /\ UNCHANGED <<files, backup, meta, verdict, clock, begun, cur, now>>

Start ==
  /\ pc = "down"
  /\ pc' = "recovering"
  /\ todo' = Txs
  /\ now' = clock
  /\ UNCHANGED <<files, backup, meta, verdict, clock, exits, begun, cur,
                 outcome, verifier>>

InWindow(t) == now < started[t] + Timeout

\* Transaction directories are visited in the order of the command ids, which
\* are random.
Visit(t) ==
  /\ pc = "recovering"
  /\ t \in todo
  /\ todo' = todo \ {t}
  /\ UNCHANGED <<backup, clock, exits, begun, now>>

SkipSettled(t) ==
  /\ Visit(t)
  /\ state[t] \notin Open
  /\ UNCHANGED <<files, meta, verdict, pc, cur, outcome, verifier>>

Supersede(t) ==
  /\ Visit(t)
  /\ state[t] \in Open
  /\ Superseded(t)
  /\ SetState(t, "superseded")
  /\ Reported(t, "not_applied")
  /\ UNCHANGED <<files, started, recoveries, pc, cur, outcome, verifier>>

\* Still in its window: one more verifier.
Resume(t) ==
  /\ Visit(t)
  /\ state[t] \in Open
  /\ ~Superseded(t)
  /\ InWindow(t)
  /\ Schedule(t, started[t])
  /\ UNCHANGED <<files, started, recoveries, verdict, pc, cur, outcome>>

\* transaction_restart_verification_window: one new window, once.
RestartWindow(t) ==
  /\ Visit(t)
  /\ state[t] \in Open
  /\ ~Superseded(t)
  /\ ~InWindow(t)
  /\ recoveries[t] < 1
  /\ recoveries' = [recoveries EXCEPT ![t] = @ + 1]
  /\ started' = [started EXCEPT ![t] = clock]
  /\ Schedule(t, clock)
  /\ UNCHANGED <<files, verdict, pc, cur, outcome>>

\* Otherwise the daemon restores the files itself; RestoreReported follows.
Undo(t) ==
  /\ Visit(t)
  /\ state[t] \in Open
  /\ ~Superseded(t)
  /\ ~InWindow(t)
  /\ recoveries[t] >= 1
  /\ outcome' \in Restorations
  /\ CopyBack(t, outcome')
  /\ cur' = t
  /\ pc' = "undone"
  /\ UNCHANGED <<meta, verdict, verifier>>

Recovered ==
  /\ pc = "recovering"
  /\ todo = {}
  /\ Done
  /\ UNCHANGED <<files, backup, meta, verdict, clock, exits, verifier>>

-----------------------------------------------------------------------------
Executes ==
  \/ \E t \in Txs : Begin(t) \/ CannotBegin(t)
  \/ \E f \in Files : Write(f)
  \/ ConfirmNow
  \/ NothingToChange
  \/ VerifyLater
  \/ HandlerFails
  \/ RestoreReported

Recovers ==
  \/ Start
  \/ \E t \in Txs : \/ SkipSettled(t) \/ Supersede(t) \/ Resume(t)
                    \/ RestartWindow(t) \/ Undo(t)
  \/ Recovered

Verifies(t, k) ==
  \/ Probe(t, k) \/ Confirm(t, k) \/ ReportSuccess(t, k)
  \/ TimeOut(t, k) \/ RollBack(t, k) \/ ReportFailure(t, k)

Next ==
  \/ Executes
  \/ Recovers
  \/ \E t \in Txs, k \in Verifiers : Verifies(t, k)
  \/ Tick
  \/ \E kind \in Exits : Exit(kind)

Spec == Init /\ [][Next]_vars

\* The handlers return, the init system starts the daemon again, the verifiers
\* are processes of their own, and time passes.
Fairness ==
  /\ WF_vars(Executes)
  /\ WF_vars(Recovers)
  /\ \A t \in Txs, k \in Verifiers : WF_vars(Verifies(t, k))
  /\ WF_vars(Tick)

FairSpec == Spec /\ Fairness

-----------------------------------------------------------------------------
(* Properties. *)

Has(t) == \A f \in FilesOf[t] : t \in files[f]
Lacks(t) == \A f \in FilesOf[t] : t \notin files[f]

\* A change that was reported as rolled back is in no configuration file
\* (docs/safe-configuration.md: the original configuration is restored).
RolledBackIsUndone == \A t \in Txs : verdict[t] = "rolled_back" => Lacks(t)

\* What makes it so for transactions on disjoint files, as an inductive
\* invariant: a copy never holds the change it can undo, nothing of a
\* transaction exists before it begins, and from the restore on, whoever did
\* it, the change is gone.
Disjoint ==
  \A t, u \in Txs : t # u => FilesOf[t] \cap FilesOf[u] = {}

CopiesAreOlder ==
  \A t, u \in Txs, f \in Files :
    /\ t \in files[f] => t <= begun /\ f \in FilesOf[t]
    /\ t \in backup[u][f] => t <= begun /\ f \in FilesOf[t] /\ t # u

OwnerOnly ==
  /\ \A t \in Txs : t > begun => verdict[t] = "none" /\ state[t] = "none"
  /\ \A t \in Txs, k \in Verifiers :
       t > begun \/ (pc = "applying" /\ t = cur) => verifier[t][k] = Idle
  /\ pc = "applying" => cur <= begun /\ verdict[cur] = "none"

RestoredIsUndone ==
  /\ pc \in {"restored", "undone"} =>
       cur <= begun /\ (outcome = "rolled_back" => Lacks(cur))
  /\ \A t \in Txs, k \in Verifiers :
       verifier[t][k].outcome = "rolled_back" => Lacks(t)

RestoreInv ==
  TypeOK /\ CopiesAreOlder /\ OwnerOnly /\ RestoredIsUndone /\ RolledBackIsUndone

\* As long as nothing restarts, a change that was reported as a success is in
\* all of its files: it was applied completely, and the restore of a transaction
\* on other files did not take it away.
SuccessIsApplied ==
  exits = 0 => \A t \in Txs : verdict[t] = "success" => Has(t)

\* The meta file agrees with what the server was told, so a later recovery
\* neither reopens nor contradicts a reported transaction.
VerdictMatchesState ==
  \A t \in Txs :
    /\ verdict[t] = "success" => state[t] = "confirmed"
    /\ verdict[t] \in Restorations => state[t] = "rolled_back"

\* What makes it so when the daemon never leaves a verifier behind: at most one
\* process, the daemon or a verifier, decides a transaction.
Held(t) ==
  \/ pc \in {"applying", "restored", "undone"} /\ cur = t
  \/ pc \in {"recovering", "undone"} /\ t \in todo
  \/ pc = "down"

OneOwner ==
  /\ \A t \in Txs, k \in Verifiers :
       Held(t) \/ t > begun => verifier[t][k].stage = "off"
  /\ \A t \in Txs, j, k \in Verifiers :
       j # k => verifier[t][j].stage = "off" \/ verifier[t][k].stage = "off"

OwnerDecides ==
  /\ \A t \in Txs : /\ t > begun => state[t] = "none"
                    /\ t > begun \/ state[t] \in Open => verdict[t] = "none"
  /\ pc \in {"applying", "restored", "undone"} =>
       cur <= begun /\ state[cur] \in Open
  /\ pc \in {"restored", "undone"} => outcome \in Restorations
  /\ \A t \in Txs, k \in Verifiers :
       LET stage == verifier[t][k].stage
       IN  /\ stage # "off" => verdict[t] = "none"
           /\ stage \in {"probing", "passed", "restored"} => state[t] \in Open
           /\ stage = "confirmed" => state[t] = "confirmed"
           /\ stage = "failed" => state[t] = "rolled_back"
           /\ stage \in {"restored", "failed"} =>
                verifier[t][k].outcome \in Restorations

OwnerInv == TypeOK /\ OneOwner /\ OwnerDecides /\ VerdictMatchesState

\* What makes SuccessIsApplied so for transactions on disjoint files: as long as
\* nothing restarts there is one owner, and a verifier that may still confirm
\* has the whole change before it.
VerifiersSeeAll ==
  \A t \in Txs, k \in Verifiers :
    verifier[t][k].stage \in {"probing", "passed", "confirmed"} => Has(t)

AppliedInv ==
  /\ TypeOK
  /\ exits = 0 => /\ pc \in {"idle", "applying", "restored"}
                  /\ OneOwner /\ OwnerDecides /\ VerifiersSeeAll /\ SuccessIsApplied

\* A transaction is settled once and reported once: neither its state nor its
\* verdict changes any more, whoever runs its recovery.
SettledForGood ==
  [][\A t \in Txs : /\ state[t] \in Settled => state'[t] = state[t]
                    /\ verdict[t] # "none" => verdict'[t] = verdict[t]]_vars

\* A transaction that was begun does not stay open: it is confirmed or undone
\* whatever happens to the daemon, the connection and the verifiers.
EventuallySettled ==
  \A t \in Txs : state[t] # "none" ~> state[t] \in Settled
=============================================================================
