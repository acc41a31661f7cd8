---------------------- MODULE ConfigTransactionProofs ----------------------
(***************************************************************************)
(* Proofs about ConfigTransaction for any number of transactions, files    *)
(* and exits: type correctness; that a change reported as rolled back is   *)
(* gone and one reported as a success is applied, when no two transactions *)
(* share a file; and that a transaction is settled and reported once, when *)
(* the daemon goes down only with the router.                              *)
(***************************************************************************)
EXTENDS ConfigTransaction, TLAPS

USE TransactionAssumption

-----------------------------------------------------------------------------
(* Type correctness. *)

LEMMA InitTypeOK == Init => TypeOK
<1>1. Idle \in VerifierStates
  BY DEF Idle, VerifierStates, Stages
<1>2. "none" \in States /\ "none" \in Verdicts
  BY DEF States, Verdicts
<1> QED
  BY <1>1, <1>2 DEF Init, TypeOK

\* The new values that the actions write have the types of the variables.
LEMMA StateTyped ==
  ASSUME TypeOK, NEW t \in Txs, NEW s \in States, SetState(t, s)
  PROVE  state' \in [Txs -> States]
BY DEF TypeOK, SetState

LEMMA VerdictTyped ==
  ASSUME TypeOK, NEW t \in Txs, NEW v \in Verdicts, Reported(t, v)
  PROVE  verdict' \in [Txs -> Verdicts]
BY DEF TypeOK, Reported

LEMMA FilesTyped ==
  ASSUME TypeOK, NEW t \in Txs, NEW r, CopyBack(t, r)
  PROVE  files' \in [Files -> SUBSET Txs]
BY DEF TypeOK, CopyBack

LEMMA VerifierUpdated ==
  ASSUME TypeOK, NEW t \in Txs, NEW k \in Verifiers, NEW v \in VerifierStates
  PROVE  [verifier EXCEPT ![t][k] = v] \in [Txs -> [Verifiers -> VerifierStates]]
BY DEF TypeOK

LEMMA ScheduleTyped ==
  ASSUME TypeOK, NEW t \in Txs, NEW since \in 0..MaxClock, Schedule(t, since)
  PROVE  /\ state' \in [Txs -> States]
         /\ verifier' \in [Txs -> [Verifiers -> VerifierStates]]
<1>1. state' \in [Txs -> States]
  BY StateTyped DEF Schedule, States
<1> DEFINE v == [Idle EXCEPT !.stage = "probing", !.since = since]
<1>2. v \in VerifierStates
  BY DEF Idle, VerifierStates, Stages
<1>3. PICK k \in Verifiers : verifier' = [verifier EXCEPT ![t][k] = v]
  BY DEF Schedule
<1> QED
  BY <1>1, <1>2, <1>3, VerifierUpdated

LEMMA MoveTyped ==
  ASSUME TypeOK, NEW t \in Txs, NEW k \in Verifiers, NEW from, NEW to \in Stages,
         Move(t, k, from, to)
  PROVE  verifier' \in [Txs -> [Verifiers -> VerifierStates]]
<1>1. verifier[t][k] \in VerifierStates
  BY DEF TypeOK
<1>2. [verifier[t][k] EXCEPT !.stage = to] \in VerifierStates
  BY <1>1 DEF VerifierStates
<1>3. verifier' = [verifier EXCEPT ![t][k] = [verifier[t][k] EXCEPT !.stage = to]]
  BY DEF Move, TypeOK
<1> QED
  BY <1>2, <1>3, VerifierUpdated

LEMMA EndsTyped ==
  ASSUME TypeOK, NEW t \in Txs, NEW k \in Verifiers, NEW from, Ends(t, k, from)
  PROVE  verifier' \in [Txs -> [Verifiers -> VerifierStates]]
<1>1. Idle \in VerifierStates
  BY DEF Idle, VerifierStates, Stages
<1> QED
  BY <1>1, VerifierUpdated DEF Ends


LEMMA StepTypeOK == TypeOK /\ [Next]_vars => TypeOK'
<1> SUFFICES ASSUME TypeOK, [Next]_vars PROVE TypeOK'
  OBVIOUS
<1>Begin. ASSUME NEW t \in Txs, Begin(t) PROVE TypeOK'
  <2>1. backup' \in [Txs -> [Files -> SUBSET Txs]] /\ started' \in [Txs -> 0..MaxClock]
    BY <1>Begin DEF Begin, TypeOK
  <2>2. state' \in [Txs -> States]
    BY <1>Begin, StateTyped DEF Begin, States
  <2>3. begun' \in 0..NumTxs /\ cur' \in Txs /\ cur' \in 0..NumTxs
    BY <1>Begin DEF Begin, TypeOK, Txs
  <2> QED
    BY <1>Begin, <2>1, <2>2, <2>3 DEF Begin, TypeOK
<1>CannotBegin. ASSUME NEW t \in Txs, CannotBegin(t) PROVE TypeOK'
  <2>1. verdict' \in [Txs -> Verdicts]
    BY <1>CannotBegin, VerdictTyped DEF CannotBegin, Verdicts
  <2>2. begun' \in 0..NumTxs
    BY <1>CannotBegin DEF CannotBegin, Txs
  <2> QED
    BY <1>CannotBegin, <2>1, <2>2 DEF CannotBegin, TypeOK, meta
<1>Write. ASSUME NEW f \in Files, Write(f) PROVE TypeOK'
  BY <1>Write DEF Write, TypeOK, meta, daemon
<1>ConfirmNow. ASSUME ConfirmNow PROVE TypeOK'
  BY <1>ConfirmNow, StateTyped, VerdictTyped
  DEF ConfirmNow, TypeOK, Done, Applied, States, Settled, Verdicts
<1>NothingToChange. ASSUME NothingToChange PROVE TypeOK'
  BY <1>NothingToChange, StateTyped, VerdictTyped
  DEF NothingToChange, TypeOK, Done, States, Settled, Verdicts
<1>VerifyLater. ASSUME VerifyLater PROVE TypeOK'
  BY <1>VerifyLater, ScheduleTyped DEF VerifyLater, TypeOK, Done
<1>HandlerFails. ASSUME HandlerFails PROVE TypeOK'
  BY <1>HandlerFails, FilesTyped
  DEF HandlerFails, TypeOK, meta, Restorations
<1>RestoreReported. ASSUME RestoreReported PROVE TypeOK'
  BY <1>RestoreReported, StateTyped, VerdictTyped
  DEF RestoreReported, TypeOK, States, Settled, Verdicts, Restorations
<1>Start. ASSUME Start PROVE TypeOK'
  BY <1>Start DEF Start, TypeOK, meta
<1>SkipSettled. ASSUME NEW t \in Txs, SkipSettled(t) PROVE TypeOK'
  BY <1>SkipSettled DEF SkipSettled, TypeOK, meta, Visit
<1>Supersede. ASSUME NEW t \in Txs, Supersede(t) PROVE TypeOK'
  BY <1>Supersede, StateTyped, VerdictTyped
  DEF Supersede, TypeOK, Visit, States, Settled, Verdicts
<1>Resume. ASSUME NEW t \in Txs, Resume(t) PROVE TypeOK'
  BY <1>Resume, ScheduleTyped DEF Resume, TypeOK, Visit
<1>RestartWindow. ASSUME NEW t \in Txs, RestartWindow(t) PROVE TypeOK'
  <2>0. started' \in [Txs -> 0..MaxClock]
    BY <1>RestartWindow DEF RestartWindow, TypeOK
  <2>1. recoveries' \in [Txs -> 0..1]
    <3>1. recoveries[t] \in 0..1 /\ recoveries[t] < 1
      BY <1>RestartWindow DEF RestartWindow, TypeOK
    <3>2. recoveries' = [recoveries EXCEPT ![t] = recoveries[t] + 1]
      BY <1>RestartWindow DEF RestartWindow
    <3> QED
      BY <3>1, <3>2 DEF TypeOK
  <2>2. state' \in [Txs -> States] /\ verifier' \in [Txs -> [Verifiers -> VerifierStates]]
    BY <1>RestartWindow, ScheduleTyped DEF RestartWindow, TypeOK
  <2>3. todo' \in SUBSET Txs
    BY <1>RestartWindow DEF RestartWindow, Visit, TypeOK
  <2> QED
    BY <1>RestartWindow, <2>0, <2>1, <2>2, <2>3 DEF RestartWindow, Visit, TypeOK
<1>Undo. ASSUME NEW t \in Txs, Undo(t) PROVE TypeOK'
  <2>1. cur' \in Txs /\ cur' \in 0..NumTxs
    BY <1>Undo DEF Undo, Txs
  <2> QED
    BY <1>Undo, <2>1, FilesTyped DEF Undo, Visit, TypeOK, meta, Restorations
<1>Recovered. ASSUME Recovered PROVE TypeOK'
  BY <1>Recovered DEF Recovered, TypeOK, meta, Done
<1>Probe. ASSUME NEW t \in Txs, NEW k \in Verifiers, Probe(t, k) PROVE TypeOK'
  BY <1>Probe, MoveTyped DEF Probe, TypeOK, meta, daemon, Stages
<1>Confirm. ASSUME NEW t \in Txs, NEW k \in Verifiers, Confirm(t, k) PROVE TypeOK'
  BY <1>Confirm, StateTyped, MoveTyped
  DEF Confirm, TypeOK, daemon, States, Settled, Stages
<1>ReportSuccess. ASSUME NEW t \in Txs, NEW k \in Verifiers, ReportSuccess(t, k) PROVE TypeOK'
  BY <1>ReportSuccess, VerdictTyped, EndsTyped
  DEF ReportSuccess, TypeOK, meta, daemon, Verdicts
<1>TimeOut. ASSUME NEW t \in Txs, NEW k \in Verifiers, TimeOut(t, k) PROVE TypeOK'
  <2>1. PICK r \in Restorations :
          /\ CopyBack(t, r)
          /\ verifier' = [verifier EXCEPT ![t][k] =
                            [@ EXCEPT !.stage = "restored", !.outcome = r]]
    BY <1>TimeOut DEF TimeOut
  <2> DEFINE v == [verifier[t][k] EXCEPT !.stage = "restored", !.outcome = r]
  <2>2. verifier[t][k] \in VerifierStates
    BY <1>TimeOut DEF TypeOK
  <2>3. v \in VerifierStates
    BY <2>2 DEF VerifierStates, Stages
  <2>4. verifier' = [verifier EXCEPT ![t][k] = v]
    BY <1>TimeOut, <2>1 DEF TypeOK
  <2> QED
    BY <1>TimeOut, <2>1, <2>3, <2>4, FilesTyped, VerifierUpdated
    DEF TimeOut, TypeOK, meta, daemon
<1>RollBack. ASSUME NEW t \in Txs, NEW k \in Verifiers, RollBack(t, k) PROVE TypeOK'
  BY <1>RollBack, StateTyped, MoveTyped
  DEF RollBack, TypeOK, daemon, States, Settled, Stages
<1>ReportFailure. ASSUME NEW t \in Txs, NEW k \in Verifiers, ReportFailure(t, k) PROVE TypeOK'
  <2>1. verifier[t][k].outcome \in Verdicts
    BY <1>ReportFailure DEF TypeOK, VerifierStates, Verdicts
  <2> QED
    BY <1>ReportFailure, <2>1, VerdictTyped, EndsTyped
    DEF ReportFailure, TypeOK, meta, daemon
<1>Tick. ASSUME Tick PROVE TypeOK'
  BY <1>Tick DEF Tick, TypeOK, meta, daemon
<1>Exit. ASSUME NEW kind \in Exits, Exit(kind) PROVE TypeOK'
  <2>1. Idle \in VerifierStates
    BY DEF Idle, VerifierStates, Stages
  <2> QED
    BY <1>Exit, <2>1 DEF Exit, TypeOK, meta
<1>stutter. CASE UNCHANGED vars
  BY <1>stutter DEF vars, meta, daemon, TypeOK
<1> QED
  BY <1>Begin, <1>CannotBegin, <1>Write, <1>ConfirmNow, <1>NothingToChange,
     <1>VerifyLater, <1>HandlerFails, <1>RestoreReported, <1>Start,
     <1>SkipSettled, <1>Supersede, <1>Resume, <1>RestartWindow, <1>Undo,
     <1>Recovered, <1>Probe, <1>Confirm, <1>ReportSuccess, <1>TimeOut,
     <1>RollBack, <1>ReportFailure, <1>Tick, <1>Exit, <1>stutter
  DEF Next, Executes, Recovers, Verifies

\* Type correctness, for any number of transactions, files and exits.
THEOREM TypeCorrect == Spec => []TypeOK
BY InitTypeOK, StepTypeOK, PTL DEF Spec

-----------------------------------------------------------------------------
(* A change reported as rolled back is gone. *)

\* Copying back the files of t brings no change back that is gone, and undoes
\* that of t when every copy succeeds.
LEMMA CopyBackUndoes ==
  ASSUME TypeOK, Disjoint, CopiesAreOlder, NEW t \in Txs, NEW r, CopyBack(t, r)
  PROVE  /\ \A u \in Txs : Lacks(u) => Lacks(u)'
         /\ r = "rolled_back" => Lacks(t)'
         /\ \A u \in Txs, f \in Files : u \in files'[f] => u <= begun /\ f \in FilesOf[u]
<1>1. PICK good \in SUBSET FilesOf[t] :
        /\ r = "rollback_failed" \/ good = FilesOf[t]
        /\ files' = [f \in Files |-> IF f \in good THEN backup[t][f] ELSE files[f]]
  BY DEF CopyBack
<1>2. \A u \in Txs : FilesOf[u] \subseteq Files
  OBVIOUS
<1>3. ASSUME NEW u \in Txs, NEW f \in FilesOf[u], u \in files'[f]
      PROVE  f \notin good /\ u \in files[f]
  BY <1>1, <1>2, <1>3 DEF CopiesAreOlder, Disjoint
<1>4. \A u \in Txs : Lacks(u) => Lacks(u)'
  BY <1>3 DEF Lacks
<1>5. r = "rolled_back" => Lacks(t)'
  BY <1>1, <1>3 DEF Lacks
<1>6. \A u \in Txs, f \in Files : u \in files'[f] => u <= begun /\ f \in FilesOf[u]
  BY <1>1 DEF CopiesAreOlder
<1> QED
  BY <1>4, <1>5, <1>6

LEMMA CopiesStep ==
  ASSUME TypeOK, Disjoint, CopiesAreOlder, OwnerOnly, TypeOK', [Next]_vars
  PROVE  CopiesAreOlder'
<1>Begin. ASSUME NEW t \in Txs, Begin(t) PROVE CopiesAreOlder'
  BY <1>Begin DEF Begin, CopiesAreOlder, TypeOK
<1>CannotBegin. ASSUME NEW t \in Txs, CannotBegin(t) PROVE CopiesAreOlder'
  BY <1>CannotBegin DEF CannotBegin, CopiesAreOlder, TypeOK, Txs
<1>Write. ASSUME NEW f \in Files, Write(f) PROVE CopiesAreOlder'
  BY <1>Write DEF Write, daemon, CopiesAreOlder, OwnerOnly
<1>ConfirmNow. ASSUME ConfirmNow PROVE CopiesAreOlder'
  BY <1>ConfirmNow DEF ConfirmNow, Done, CopiesAreOlder
<1>NothingToChange. ASSUME NothingToChange PROVE CopiesAreOlder'
  BY <1>NothingToChange DEF NothingToChange, Done, CopiesAreOlder, OwnerOnly
<1>VerifyLater. ASSUME VerifyLater PROVE CopiesAreOlder'
  BY <1>VerifyLater DEF VerifyLater, Done, CopiesAreOlder
<1>HandlerFails. ASSUME HandlerFails PROVE CopiesAreOlder'
  BY <1>HandlerFails, CopyBackUndoes DEF HandlerFails, CopiesAreOlder, TypeOK
<1>RestoreReported. ASSUME RestoreReported PROVE CopiesAreOlder'
  BY <1>RestoreReported DEF RestoreReported, CopiesAreOlder
<1>Start. ASSUME Start PROVE CopiesAreOlder'
  BY <1>Start DEF Start, CopiesAreOlder
<1>SkipSettled. ASSUME NEW t \in Txs, SkipSettled(t) PROVE CopiesAreOlder'
  BY <1>SkipSettled DEF SkipSettled, Visit, CopiesAreOlder
<1>Supersede. ASSUME NEW t \in Txs, Supersede(t) PROVE CopiesAreOlder'
  BY <1>Supersede DEF Supersede, Visit, CopiesAreOlder
<1>Resume. ASSUME NEW t \in Txs, Resume(t) PROVE CopiesAreOlder'
  BY <1>Resume DEF Resume, Visit, CopiesAreOlder
<1>RestartWindow. ASSUME NEW t \in Txs, RestartWindow(t) PROVE CopiesAreOlder'
  BY <1>RestartWindow DEF RestartWindow, Visit, CopiesAreOlder
<1>Undo. ASSUME NEW t \in Txs, Undo(t) PROVE CopiesAreOlder'
  BY <1>Undo, CopyBackUndoes DEF Undo, Visit, CopiesAreOlder
<1>Recovered. ASSUME Recovered PROVE CopiesAreOlder'
  BY <1>Recovered DEF Recovered, Done, CopiesAreOlder
<1>Probe. ASSUME NEW t \in Txs, NEW k \in Verifiers, Probe(t, k) PROVE CopiesAreOlder'
  BY <1>Probe DEF Probe, daemon, CopiesAreOlder
<1>Confirm. ASSUME NEW t \in Txs, NEW k \in Verifiers, Confirm(t, k) PROVE CopiesAreOlder'
  BY <1>Confirm DEF Confirm, daemon, CopiesAreOlder
<1>ReportSuccess. ASSUME NEW t \in Txs, NEW k \in Verifiers, ReportSuccess(t, k) PROVE CopiesAreOlder'
  BY <1>ReportSuccess DEF ReportSuccess, daemon, CopiesAreOlder
<1>TimeOut. ASSUME NEW t \in Txs, NEW k \in Verifiers, TimeOut(t, k) PROVE CopiesAreOlder'
  BY <1>TimeOut, CopyBackUndoes DEF TimeOut, daemon, CopiesAreOlder
<1>RollBack. ASSUME NEW t \in Txs, NEW k \in Verifiers, RollBack(t, k) PROVE CopiesAreOlder'
  BY <1>RollBack DEF RollBack, daemon, CopiesAreOlder
<1>ReportFailure. ASSUME NEW t \in Txs, NEW k \in Verifiers, ReportFailure(t, k) PROVE CopiesAreOlder'
  BY <1>ReportFailure DEF ReportFailure, daemon, CopiesAreOlder
<1>Tick. ASSUME Tick PROVE CopiesAreOlder'
  BY <1>Tick DEF Tick, daemon, CopiesAreOlder
<1>Exit. ASSUME NEW kind \in Exits, Exit(kind) PROVE CopiesAreOlder'
  BY <1>Exit DEF Exit, CopiesAreOlder
<1>stutter. CASE UNCHANGED vars
  BY <1>stutter DEF vars, daemon, CopiesAreOlder
<1> QED
  BY <1>Begin, <1>CannotBegin, <1>Write, <1>ConfirmNow, <1>NothingToChange,
     <1>VerifyLater, <1>HandlerFails, <1>RestoreReported, <1>Start,
     <1>SkipSettled, <1>Supersede, <1>Resume, <1>RestartWindow, <1>Undo,
     <1>Recovered, <1>Probe, <1>Confirm, <1>ReportSuccess, <1>TimeOut,
     <1>RollBack, <1>ReportFailure, <1>Tick, <1>Exit, <1>stutter
  DEF Next, Executes, Recovers, Verifies

LEMMA OwnerStep ==
  ASSUME TypeOK, OwnerOnly, RestoredIsUndone, TypeOK', [Next]_vars
  PROVE  OwnerOnly'
<1>Begin. ASSUME NEW t \in Txs, Begin(t) PROVE OwnerOnly'
  BY <1>Begin DEF Begin, SetState, OwnerOnly, TypeOK
<1>CannotBegin. ASSUME NEW t \in Txs, CannotBegin(t) PROVE OwnerOnly'
  BY <1>CannotBegin DEF CannotBegin, meta, Reported, OwnerOnly, TypeOK
<1>Write. ASSUME NEW f \in Files, Write(f) PROVE OwnerOnly'
  BY <1>Write DEF Write, meta, daemon, OwnerOnly
<1>ConfirmNow. ASSUME ConfirmNow PROVE OwnerOnly'
  BY <1>ConfirmNow
  DEF ConfirmNow, SetState, Reported, Done, Applied, OwnerOnly, TypeOK
<1>NothingToChange. ASSUME NothingToChange PROVE OwnerOnly'
  BY <1>NothingToChange
  DEF NothingToChange, SetState, Reported, Done, OwnerOnly, TypeOK
<1>VerifyLater. ASSUME VerifyLater PROVE OwnerOnly'
  <2>1. cur <= begun
    BY <1>VerifyLater DEF VerifyLater, Applied, OwnerOnly
  <2>2. \A u \in Txs, k \in Verifiers : u # cur => verifier'[u][k] = verifier[u][k]
    BY <1>VerifyLater DEF VerifyLater, Schedule, TypeOK
  <2>3. \A u \in Txs : u > begun => state'[u] = state[u]
    BY <1>VerifyLater, <2>1 DEF VerifyLater, Schedule, SetState, TypeOK, Txs
  <2> QED
    BY <1>VerifyLater, <2>1, <2>2, <2>3
    DEF VerifyLater, Done, OwnerOnly, TypeOK, Txs
<1>HandlerFails. ASSUME HandlerFails PROVE OwnerOnly'
  BY <1>HandlerFails DEF HandlerFails, meta, OwnerOnly
<1>RestoreReported. ASSUME RestoreReported PROVE OwnerOnly'
  BY <1>RestoreReported
  DEF RestoreReported, SetState, Reported, OwnerOnly, RestoredIsUndone, TypeOK,
      Txs
<1>Start. ASSUME Start PROVE OwnerOnly'
  BY <1>Start DEF Start, meta, OwnerOnly
<1>SkipSettled. ASSUME NEW t \in Txs, SkipSettled(t) PROVE OwnerOnly'
  BY <1>SkipSettled DEF SkipSettled, meta, Visit, OwnerOnly
<1>Supersede. ASSUME NEW t \in Txs, Supersede(t) PROVE OwnerOnly'
  BY <1>Supersede
  DEF Supersede, SetState, Reported, Visit, OwnerOnly, TypeOK, Txs, Open
<1>Resume. ASSUME NEW t \in Txs, Resume(t) PROVE OwnerOnly'
  <2>1. t <= begun
    BY <1>Resume DEF Resume, OwnerOnly, TypeOK, Txs, Open
  <2>2. \A u \in Txs, k \in Verifiers : u # t => verifier'[u][k] = verifier[u][k]
    BY <1>Resume DEF Resume, Schedule, TypeOK
  <2>3. \A u \in Txs : u > begun => state'[u] = state[u]
    BY <1>Resume, <2>1 DEF Resume, Schedule, SetState, TypeOK, Txs
  <2> QED
    BY <1>Resume, <2>1, <2>2, <2>3 DEF Resume, Visit, OwnerOnly, TypeOK, Txs
<1>RestartWindow. ASSUME NEW t \in Txs, RestartWindow(t) PROVE OwnerOnly'
  <2>1. t <= begun
    BY <1>RestartWindow DEF RestartWindow, OwnerOnly, TypeOK, Txs, Open
  <2>2. \A u \in Txs, k \in Verifiers : u # t => verifier'[u][k] = verifier[u][k]
    BY <1>RestartWindow DEF RestartWindow, Schedule, TypeOK
  <2>3. \A u \in Txs : u > begun => state'[u] = state[u]
    BY <1>RestartWindow, <2>1 DEF RestartWindow, Schedule, SetState, TypeOK, Txs
  <2> QED
    BY <1>RestartWindow, <2>1, <2>2, <2>3
    DEF RestartWindow, Visit, OwnerOnly, TypeOK, Txs
<1>Undo. ASSUME NEW t \in Txs, Undo(t) PROVE OwnerOnly'
  BY <1>Undo DEF Undo, meta, Visit, OwnerOnly
<1>Recovered. ASSUME Recovered PROVE OwnerOnly'
  BY <1>Recovered DEF Recovered, meta, Done, OwnerOnly
<1>Probe. ASSUME NEW t \in Txs, NEW k \in Verifiers, Probe(t, k) PROVE OwnerOnly'
  BY <1>Probe DEF Probe, meta, daemon, Move, OwnerOnly, Idle
<1>Confirm. ASSUME NEW t \in Txs, NEW k \in Verifiers, Confirm(t, k) PROVE OwnerOnly'
  BY <1>Confirm DEF Confirm, daemon, SetState, Move, OwnerOnly, Idle
<1>ReportSuccess. ASSUME NEW t \in Txs, NEW k \in Verifiers, ReportSuccess(t, k) PROVE OwnerOnly'
  BY <1>ReportSuccess
  DEF ReportSuccess, meta, daemon, Reported, Ends, OwnerOnly, Idle
<1>TimeOut. ASSUME NEW t \in Txs, NEW k \in Verifiers, TimeOut(t, k) PROVE OwnerOnly'
  BY <1>TimeOut DEF TimeOut, meta, daemon, OwnerOnly, Idle
<1>RollBack. ASSUME NEW t \in Txs, NEW k \in Verifiers, RollBack(t, k) PROVE OwnerOnly'
  BY <1>RollBack DEF RollBack, daemon, SetState, Move, OwnerOnly, Idle
<1>ReportFailure. ASSUME NEW t \in Txs, NEW k \in Verifiers, ReportFailure(t, k) PROVE OwnerOnly'
  BY <1>ReportFailure
  DEF ReportFailure, meta, daemon, Reported, Ends, OwnerOnly, Idle
<1>Tick. ASSUME Tick PROVE OwnerOnly'
  BY <1>Tick DEF Tick, meta, daemon, OwnerOnly
<1>Exit. ASSUME NEW kind \in Exits, Exit(kind) PROVE OwnerOnly'
  BY <1>Exit DEF Exit, meta, OwnerOnly
<1>stutter. CASE UNCHANGED vars
  BY <1>stutter DEF vars, meta, daemon, OwnerOnly
<1> QED
  BY <1>Begin, <1>CannotBegin, <1>Write, <1>ConfirmNow, <1>NothingToChange,
     <1>VerifyLater, <1>HandlerFails, <1>RestoreReported, <1>Start,
     <1>SkipSettled, <1>Supersede, <1>Resume, <1>RestartWindow, <1>Undo,
     <1>Recovered, <1>Probe, <1>Confirm, <1>ReportSuccess, <1>TimeOut,
     <1>RollBack, <1>ReportFailure, <1>Tick, <1>Exit, <1>stutter
  DEF Next, Executes, Recovers, Verifies

LEMMA RestoredStep ==
  ASSUME TypeOK, Disjoint, CopiesAreOlder, OwnerOnly, RestoredIsUndone, TypeOK', [Next]_vars
  PROVE  RestoredIsUndone'
<1>Begin. ASSUME NEW t \in Txs, Begin(t) PROVE RestoredIsUndone'
  BY <1>Begin DEF Begin, RestoredIsUndone, Lacks
<1>CannotBegin. ASSUME NEW t \in Txs, CannotBegin(t) PROVE RestoredIsUndone'
  BY <1>CannotBegin DEF CannotBegin, RestoredIsUndone, Lacks
<1>Write. ASSUME NEW f \in Files, Write(f) PROVE RestoredIsUndone'
  BY <1>Write DEF Write, daemon, RestoredIsUndone, OwnerOnly, Idle, Lacks
<1>ConfirmNow. ASSUME ConfirmNow PROVE RestoredIsUndone'
  BY <1>ConfirmNow DEF ConfirmNow, Done, RestoredIsUndone, Lacks
<1>NothingToChange. ASSUME NothingToChange PROVE RestoredIsUndone'
  BY <1>NothingToChange
  DEF NothingToChange, Done, RestoredIsUndone, OwnerOnly, Idle, Lacks
<1>VerifyLater. ASSUME VerifyLater PROVE RestoredIsUndone'
  BY <1>VerifyLater DEF VerifyLater, Schedule, Done, RestoredIsUndone, Lacks
<1>HandlerFails. ASSUME HandlerFails PROVE RestoredIsUndone'
  BY <1>HandlerFails, CopyBackUndoes
  DEF HandlerFails, RestoredIsUndone, OwnerOnly, TypeOK
<1>RestoreReported. ASSUME RestoreReported PROVE RestoredIsUndone'
  BY <1>RestoreReported DEF RestoreReported, RestoredIsUndone, Lacks
<1>Start. ASSUME Start PROVE RestoredIsUndone'
  BY <1>Start DEF Start, RestoredIsUndone, Lacks
<1>SkipSettled. ASSUME NEW t \in Txs, SkipSettled(t) PROVE RestoredIsUndone'
  BY <1>SkipSettled DEF SkipSettled, Visit, RestoredIsUndone, Lacks
<1>Supersede. ASSUME NEW t \in Txs, Supersede(t) PROVE RestoredIsUndone'
  BY <1>Supersede DEF Supersede, Visit, RestoredIsUndone, Lacks
<1>Resume. ASSUME NEW t \in Txs, Resume(t) PROVE RestoredIsUndone'
  BY <1>Resume DEF Resume, Schedule, Visit, RestoredIsUndone, Lacks
<1>RestartWindow. ASSUME NEW t \in Txs, RestartWindow(t) PROVE RestoredIsUndone'
  BY <1>RestartWindow
  DEF RestartWindow, Schedule, Visit, RestoredIsUndone, Lacks
<1>Undo. ASSUME NEW t \in Txs, Undo(t) PROVE RestoredIsUndone'
  <2>1. /\ \A u \in Txs : Lacks(u) => Lacks(u)'
        /\ outcome' = "rolled_back" => Lacks(t)'
    BY <1>Undo, CopyBackUndoes DEF Undo
  <2>2. t <= begun
    <3>1. ~(t > begun)
      BY <1>Undo DEF Undo, OwnerOnly, Open
    <3> QED
      BY <3>1 DEF TypeOK, Txs
  <2> QED
    BY <1>Undo, <2>1, <2>2 DEF Undo, Visit, RestoredIsUndone, Lacks
<1>Recovered. ASSUME Recovered PROVE RestoredIsUndone'
  BY <1>Recovered DEF Recovered, Done, RestoredIsUndone, Lacks
<1>Probe. ASSUME NEW t \in Txs, NEW k \in Verifiers, Probe(t, k) PROVE RestoredIsUndone'
  BY <1>Probe DEF Probe, daemon, Move, RestoredIsUndone, Lacks
<1>Confirm. ASSUME NEW t \in Txs, NEW k \in Verifiers, Confirm(t, k) PROVE RestoredIsUndone'
  BY <1>Confirm DEF Confirm, daemon, Move, RestoredIsUndone, Lacks
<1>ReportSuccess. ASSUME NEW t \in Txs, NEW k \in Verifiers, ReportSuccess(t, k) PROVE RestoredIsUndone'
  BY <1>ReportSuccess
  DEF ReportSuccess, daemon, Ends, RestoredIsUndone, Idle, Lacks
<1>TimeOut. ASSUME NEW t \in Txs, NEW k \in Verifiers, TimeOut(t, k) PROVE RestoredIsUndone'
  <2>1. PICK r \in Restorations :
          /\ CopyBack(t, r)
          /\ verifier' = [verifier EXCEPT ![t][k] =
                            [@ EXCEPT !.stage = "restored", !.outcome = r]]
    BY <1>TimeOut DEF TimeOut
  <2>2. /\ \A u \in Txs : Lacks(u) => Lacks(u)'
        /\ r = "rolled_back" => Lacks(t)'
    BY <2>1, CopyBackUndoes
  <2>3. ASSUME NEW u \in Txs, NEW j \in Verifiers
        PROVE  verifier'[u][j].outcome =
                 IF u = t /\ j = k THEN r ELSE verifier[u][j].outcome
    BY <2>1 DEF TypeOK, VerifierStates
  <2>4. \A u \in Txs, j \in Verifiers : verifier'[u][j].outcome = "rolled_back" => Lacks(u)'
    BY <2>2, <2>3 DEF RestoredIsUndone
  <2> QED
    BY <1>TimeOut, <2>2, <2>4 DEF TimeOut, daemon, TypeOK, RestoredIsUndone
<1>RollBack. ASSUME NEW t \in Txs, NEW k \in Verifiers, RollBack(t, k) PROVE RestoredIsUndone'
  BY <1>RollBack DEF RollBack, daemon, Move, RestoredIsUndone, Lacks
<1>ReportFailure. ASSUME NEW t \in Txs, NEW k \in Verifiers, ReportFailure(t, k) PROVE RestoredIsUndone'
  BY <1>ReportFailure
  DEF ReportFailure, daemon, Ends, RestoredIsUndone, Idle, Lacks
<1>Tick. ASSUME Tick PROVE RestoredIsUndone'
  BY <1>Tick DEF Tick, daemon, RestoredIsUndone, Lacks
<1>Exit. ASSUME NEW kind \in Exits, Exit(kind) PROVE RestoredIsUndone'
  BY <1>Exit DEF Exit, RestoredIsUndone, Idle, Lacks
<1>stutter. CASE UNCHANGED vars
  BY <1>stutter DEF vars, daemon, RestoredIsUndone, Lacks
<1> QED
  BY <1>Begin, <1>CannotBegin, <1>Write, <1>ConfirmNow, <1>NothingToChange,
     <1>VerifyLater, <1>HandlerFails, <1>RestoreReported, <1>Start,
     <1>SkipSettled, <1>Supersede, <1>Resume, <1>RestartWindow, <1>Undo,
     <1>Recovered, <1>Probe, <1>Confirm, <1>ReportSuccess, <1>TimeOut,
     <1>RollBack, <1>ReportFailure, <1>Tick, <1>Exit, <1>stutter
  DEF Next, Executes, Recovers, Verifies

LEMMA RolledBackStep ==
  ASSUME TypeOK, Disjoint, CopiesAreOlder, OwnerOnly, RestoredIsUndone, RolledBackIsUndone, TypeOK', [Next]_vars
  PROVE  RolledBackIsUndone'
<1>Begin. ASSUME NEW t \in Txs, Begin(t) PROVE RolledBackIsUndone'
  BY <1>Begin DEF Begin, RolledBackIsUndone, Lacks
<1>CannotBegin. ASSUME NEW t \in Txs, CannotBegin(t) PROVE RolledBackIsUndone'
  BY <1>CannotBegin DEF CannotBegin, Reported, RolledBackIsUndone, Lacks
<1>Write. ASSUME NEW f \in Files, Write(f) PROVE RolledBackIsUndone'
  BY <1>Write DEF Write, RolledBackIsUndone, OwnerOnly, Lacks
<1>ConfirmNow. ASSUME ConfirmNow PROVE RolledBackIsUndone'
  BY <1>ConfirmNow DEF ConfirmNow, Reported, RolledBackIsUndone, Lacks
<1>NothingToChange. ASSUME NothingToChange PROVE RolledBackIsUndone'
  BY <1>NothingToChange
  DEF NothingToChange, Reported, RolledBackIsUndone, TypeOK, Lacks
<1>VerifyLater. ASSUME VerifyLater PROVE RolledBackIsUndone'
  BY <1>VerifyLater DEF VerifyLater, RolledBackIsUndone, Lacks
<1>HandlerFails. ASSUME HandlerFails PROVE RolledBackIsUndone'
  BY <1>HandlerFails, CopyBackUndoes
  DEF HandlerFails, RolledBackIsUndone, TypeOK
<1>RestoreReported. ASSUME RestoreReported PROVE RolledBackIsUndone'
  BY <1>RestoreReported
  DEF RestoreReported, Reported, RestoredIsUndone, RolledBackIsUndone, Lacks
<1>Start. ASSUME Start PROVE RolledBackIsUndone'
  BY <1>Start DEF Start, RolledBackIsUndone, Lacks
<1>SkipSettled. ASSUME NEW t \in Txs, SkipSettled(t) PROVE RolledBackIsUndone'
  BY <1>SkipSettled DEF SkipSettled, RolledBackIsUndone, Lacks
<1>Supersede. ASSUME NEW t \in Txs, Supersede(t) PROVE RolledBackIsUndone'
  BY <1>Supersede DEF Supersede, Reported, RolledBackIsUndone, Lacks
<1>Resume. ASSUME NEW t \in Txs, Resume(t) PROVE RolledBackIsUndone'
  BY <1>Resume DEF Resume, RolledBackIsUndone, Lacks
<1>RestartWindow. ASSUME NEW t \in Txs, RestartWindow(t) PROVE RolledBackIsUndone'
  BY <1>RestartWindow DEF RestartWindow, RolledBackIsUndone, Lacks
<1>Undo. ASSUME NEW t \in Txs, Undo(t) PROVE RolledBackIsUndone'
  BY <1>Undo, CopyBackUndoes DEF Undo, RolledBackIsUndone
<1>Recovered. ASSUME Recovered PROVE RolledBackIsUndone'
  BY <1>Recovered DEF Recovered, RolledBackIsUndone, Lacks
<1>Probe. ASSUME NEW t \in Txs, NEW k \in Verifiers, Probe(t, k) PROVE RolledBackIsUndone'
  BY <1>Probe DEF Probe, RolledBackIsUndone, Lacks
<1>Confirm. ASSUME NEW t \in Txs, NEW k \in Verifiers, Confirm(t, k) PROVE RolledBackIsUndone'
  BY <1>Confirm DEF Confirm, RolledBackIsUndone, Lacks
<1>ReportSuccess. ASSUME NEW t \in Txs, NEW k \in Verifiers, ReportSuccess(t, k) PROVE RolledBackIsUndone'
  BY <1>ReportSuccess DEF ReportSuccess, Reported, RolledBackIsUndone, Lacks
<1>TimeOut. ASSUME NEW t \in Txs, NEW k \in Verifiers, TimeOut(t, k) PROVE RolledBackIsUndone'
  BY <1>TimeOut, CopyBackUndoes DEF TimeOut, RolledBackIsUndone
<1>RollBack. ASSUME NEW t \in Txs, NEW k \in Verifiers, RollBack(t, k) PROVE RolledBackIsUndone'
  BY <1>RollBack DEF RollBack, RolledBackIsUndone, Lacks
<1>ReportFailure. ASSUME NEW t \in Txs, NEW k \in Verifiers, ReportFailure(t, k) PROVE RolledBackIsUndone'
  BY <1>ReportFailure
  DEF ReportFailure, Reported, RestoredIsUndone, RolledBackIsUndone, Lacks
<1>Tick. ASSUME Tick PROVE RolledBackIsUndone'
  BY <1>Tick DEF Tick, RolledBackIsUndone, Lacks
<1>Exit. ASSUME NEW kind \in Exits, Exit(kind) PROVE RolledBackIsUndone'
  BY <1>Exit DEF Exit, RolledBackIsUndone, Lacks
<1>stutter. CASE UNCHANGED vars
  BY <1>stutter DEF vars, RolledBackIsUndone, Lacks
<1> QED
  BY <1>Begin, <1>CannotBegin, <1>Write, <1>ConfirmNow, <1>NothingToChange,
     <1>VerifyLater, <1>HandlerFails, <1>RestoreReported, <1>Start,
     <1>SkipSettled, <1>Supersede, <1>Resume, <1>RestartWindow, <1>Undo,
     <1>Recovered, <1>Probe, <1>Confirm, <1>ReportSuccess, <1>TimeOut,
     <1>RollBack, <1>ReportFailure, <1>Tick, <1>Exit, <1>stutter
  DEF Next, Executes, Recovers, Verifies

LEMMA InitRestoreInv == Init => RestoreInv
BY InitTypeOK DEF Init, RestoreInv, CopiesAreOlder, OwnerOnly, RestoredIsUndone,
   RolledBackIsUndone, Idle, Txs

\* On disjoint files, a change that was reported as rolled back is in none of
\* its files, for any number of transactions and exits of either kind.
THEOREM RollbackUndoes ==
  ASSUME Disjoint
  PROVE  Spec => [](RestoreInv /\ RolledBackIsUndone)
<1>1. RestoreInv /\ [Next]_vars => RestoreInv'
  BY StepTypeOK, CopiesStep, OwnerStep, RestoredStep, RolledBackStep
  DEF RestoreInv
<1>2. RestoreInv => RolledBackIsUndone
  BY DEF RestoreInv
<1> QED
  BY InitRestoreInv, <1>1, <1>2, PTL DEF Spec

-----------------------------------------------------------------------------
(* A transaction is settled and reported once. *)

\* Scheduling a verification changes one verifier that was idle.
LEMMA ScheduleFacts ==
  ASSUME TypeOK, NEW t \in Txs, NEW since, Schedule(t, since)
  PROVE  /\ state'[t] = "verifying"
         /\ \A u \in Txs : u # t => state'[u] = state[u]
         /\ \E k \in Verifiers :
              /\ verifier[t][k].stage = "off"
              /\ verifier'[t][k].stage = "probing"
              /\ \A u \in Txs, j \in Verifiers :
                   u # t \/ j # k => verifier'[u][j] = verifier[u][j]
<1>1. /\ state'[t] = "verifying"
      /\ \A u \in Txs : u # t => state'[u] = state[u]
  BY DEF TypeOK, Schedule, SetState
<1>2. PICK k \in Verifiers :
        /\ verifier[t][k] = Idle
        /\ verifier' = [verifier EXCEPT ![t][k] =
                          [Idle EXCEPT !.stage = "probing", !.since = since]]
  BY DEF Schedule
<1>3. verifier[t][k].stage = "off" /\ verifier'[t][k].stage = "probing"
  BY <1>2 DEF TypeOK, Idle
<1>4. \A u \in Txs, j \in Verifiers :
        u # t \/ j # k => verifier'[u][j] = verifier[u][j]
  BY <1>2 DEF TypeOK
<1> QED
  BY <1>1, <1>3, <1>4

LEMMA ScheduledOneOwner ==
  ASSUME TypeOK, OneOwner, NEW t \in Txs, NEW since, Schedule(t, since),
         Held(t), t <= begun, begun' = begun,
         \A u \in Txs : Held(u)' => Held(u) /\ u # t
  PROVE  OneOwner'
<1>1. \A k \in Verifiers : verifier[t][k].stage = "off"
  BY DEF OneOwner
<1>2. PICK k \in Verifiers :
        \A u \in Txs, j \in Verifiers :
          u # t \/ j # k => verifier'[u][j] = verifier[u][j]
  BY ScheduleFacts
<1>3. ~(t > begun)
  BY DEF TypeOK, Txs
<1> QED
  BY <1>1, <1>2, <1>3 DEF OneOwner

LEMMA ScheduledDecides ==
  ASSUME TypeOK, OwnerDecides, NEW t \in Txs, NEW since, Schedule(t, since),
         ~(t > begun), verdict[t] = "none", UNCHANGED <<verdict, begun>>,
         \A k \in Verifiers : verifier[t][k].stage = "off",
         pc' = "idle" \/ (pc' = "recovering" /\ UNCHANGED <<cur, outcome>>)
  PROVE  OwnerDecides'
<1>1. /\ state'[t] = "verifying"
      /\ \A u \in Txs : u # t => state'[u] = state[u]
  BY ScheduleFacts
<1>2. PICK k \in Verifiers :
        /\ verifier'[t][k].stage = "probing"
        /\ \A u \in Txs, j \in Verifiers :
             u # t \/ j # k => verifier'[u][j] = verifier[u][j]
  BY ScheduleFacts
<1> QED
  BY <1>1, <1>2 DEF OwnerDecides, Open

LEMMA OneOwnerStep ==
  ASSUME Exits \subseteq {"reboot"} \/ exits' = 0,
         TypeOK, OneOwner, OwnerDecides, TypeOK', [Next]_vars
  PROVE  OneOwner'
<1>Begin. ASSUME NEW t \in Txs, Begin(t) PROVE OneOwner'
  BY <1>Begin DEF Begin, OneOwner, Held, TypeOK
<1>CannotBegin. ASSUME NEW t \in Txs, CannotBegin(t) PROVE OneOwner'
  BY <1>CannotBegin DEF CannotBegin, OneOwner, Held, TypeOK
<1>Write. ASSUME NEW f \in Files, Write(f) PROVE OneOwner'
  BY <1>Write DEF Write, daemon, OneOwner, Held
<1>ConfirmNow. ASSUME ConfirmNow PROVE OneOwner'
  BY <1>ConfirmNow DEF ConfirmNow, Done, OneOwner, Held
<1>NothingToChange. ASSUME NothingToChange PROVE OneOwner'
  BY <1>NothingToChange DEF NothingToChange, Done, OneOwner, Held
<1>VerifyLater. ASSUME VerifyLater PROVE OneOwner'
  <2>1. cur <= begun /\ Held(cur) /\ cur \in Txs
    BY <1>VerifyLater DEF VerifyLater, Applied, Held, OwnerDecides, TypeOK
  <2>2. Schedule(cur, started[cur]) /\ begun' = begun /\ pc' = "idle"
    BY <1>VerifyLater DEF VerifyLater, Done
  <2>3. \A u \in Txs : ~Held(u)'
    BY <2>2 DEF Held
  <2> QED
    BY <2>1, <2>2, <2>3, ScheduledOneOwner
<1>HandlerFails. ASSUME HandlerFails PROVE OneOwner'
  BY <1>HandlerFails DEF HandlerFails, OneOwner, Held
<1>RestoreReported. ASSUME RestoreReported PROVE OneOwner'
  BY <1>RestoreReported DEF RestoreReported, OneOwner, Held
<1>Start. ASSUME Start PROVE OneOwner'
  BY <1>Start DEF Start, OneOwner, Held
<1>SkipSettled. ASSUME NEW t \in Txs, SkipSettled(t) PROVE OneOwner'
  BY <1>SkipSettled DEF SkipSettled, Visit, OneOwner, Held
<1>Supersede. ASSUME NEW t \in Txs, Supersede(t) PROVE OneOwner'
  BY <1>Supersede DEF Supersede, Visit, OneOwner, Held
<1>Resume. ASSUME NEW t \in Txs, Resume(t) PROVE OneOwner'
  <2>1. t <= begun /\ Held(t)
    <3>1. Held(t)
      BY <1>Resume DEF Resume, Visit, Held
    <3>2. ~(t > begun)
      BY <1>Resume DEF Resume, OwnerDecides, Open
    <3> QED
      BY <3>1, <3>2 DEF Txs, TypeOK
  <2>2. Schedule(t, started[t]) /\ pc = "recovering" /\ todo' = todo \ {t}
    BY <1>Resume DEF Resume, Visit
  <2>3. UNCHANGED <<pc, cur, begun>>
    BY <1>Resume DEF Resume, Visit
  <2>4. \A u \in Txs : Held(u)' => Held(u) /\ u # t
    BY <2>2, <2>3 DEF Held
  <2> QED
    BY <2>1, <2>2, <2>3, <2>4, ScheduledOneOwner
<1>RestartWindow. ASSUME NEW t \in Txs, RestartWindow(t) PROVE OneOwner'
  <2>1. t <= begun /\ Held(t)
    BY <1>RestartWindow
    DEF RestartWindow, Visit, Held, OwnerDecides, TypeOK, Txs, Open
  <2>2. Schedule(t, clock) /\ pc = "recovering" /\ todo' = todo \ {t}
    BY <1>RestartWindow DEF RestartWindow, Visit
  <2>3. UNCHANGED <<pc, cur, begun>>
    BY <1>RestartWindow DEF RestartWindow, Visit
  <2>4. \A u \in Txs : Held(u)' => Held(u) /\ u # t
    BY <2>2, <2>3 DEF Held
  <2> QED
    BY <2>1, <2>2, <2>3, <2>4, ScheduledOneOwner
<1>Undo. ASSUME NEW t \in Txs, Undo(t) PROVE OneOwner'
  BY <1>Undo DEF Undo, Visit, OneOwner, Held
<1>Recovered. ASSUME Recovered PROVE OneOwner'
  BY <1>Recovered DEF Recovered, Done, OneOwner, Held
<1>Probe. ASSUME NEW t \in Txs, NEW k \in Verifiers, Probe(t, k) PROVE OneOwner'
  BY <1>Probe DEF Probe, daemon, Move, OneOwner, Held
<1>Confirm. ASSUME NEW t \in Txs, NEW k \in Verifiers, Confirm(t, k) PROVE OneOwner'
  BY <1>Confirm DEF Confirm, daemon, Move, OneOwner, Held
<1>ReportSuccess. ASSUME NEW t \in Txs, NEW k \in Verifiers, ReportSuccess(t, k) PROVE OneOwner'
  BY <1>ReportSuccess DEF ReportSuccess, daemon, Ends, OneOwner, Held
<1>TimeOut. ASSUME NEW t \in Txs, NEW k \in Verifiers, TimeOut(t, k) PROVE OneOwner'
  BY <1>TimeOut DEF TimeOut, daemon, OneOwner, Held
<1>RollBack. ASSUME NEW t \in Txs, NEW k \in Verifiers, RollBack(t, k) PROVE OneOwner'
  BY <1>RollBack DEF RollBack, daemon, Move, OneOwner, Held
<1>ReportFailure. ASSUME NEW t \in Txs, NEW k \in Verifiers, ReportFailure(t, k) PROVE OneOwner'
  BY <1>ReportFailure DEF ReportFailure, daemon, Ends, OneOwner, Held
<1>Tick. ASSUME Tick PROVE OneOwner'
  BY <1>Tick DEF Tick, daemon, OneOwner, Held
<1>Exit. ASSUME NEW kind \in Exits, Exit(kind) PROVE OneOwner'
  BY <1>Exit DEF Exit, OneOwner, Idle, TypeOK
<1>stutter. CASE UNCHANGED vars
  BY <1>stutter DEF vars, daemon, OneOwner, Held
<1> QED
  BY <1>Begin, <1>CannotBegin, <1>Write, <1>ConfirmNow, <1>NothingToChange,
     <1>VerifyLater, <1>HandlerFails, <1>RestoreReported, <1>Start,
     <1>SkipSettled, <1>Supersede, <1>Resume, <1>RestartWindow, <1>Undo,
     <1>Recovered, <1>Probe, <1>Confirm, <1>ReportSuccess, <1>TimeOut,
     <1>RollBack, <1>ReportFailure, <1>Tick, <1>Exit, <1>stutter
  DEF Next, Executes, Recovers, Verifies

LEMMA DecidesStep ==
  ASSUME TypeOK, OneOwner, OwnerDecides, TypeOK', [Next]_vars
  PROVE  OwnerDecides'
<1>Begin. ASSUME NEW t \in Txs, Begin(t) PROVE OwnerDecides'
  <2>1. t = begun + 1 /\ begun' = t /\ cur' = t /\ pc' = "applying"
    BY <1>Begin DEF Begin
  <2>2. state' = [state EXCEPT ![t] = "prepared"] /\ UNCHANGED <<verdict, verifier>>
    BY <1>Begin DEF Begin, SetState
  <2>3. \A u \in Txs : u > t => u > begun
    BY <2>1 DEF Txs, TypeOK
  <2>4. t > begun /\ t <= t
    BY <2>1 DEF Txs, TypeOK
  <2>5. verdict[t] = "none"
    BY <2>4 DEF OwnerDecides
  <2>6. \A k \in Verifiers : verifier[t][k].stage = "off"
    BY <2>4 DEF OneOwner
  <2>7. state'[t] = "prepared" /\ \A u \in Txs \ {t} : state'[u] = state[u]
    BY <2>2 DEF TypeOK
  <2> QED
    BY <2>1, <2>2, <2>3, <2>4, <2>5, <2>6, <2>7 DEF OwnerDecides, Open, TypeOK
<1>CannotBegin. ASSUME NEW t \in Txs, CannotBegin(t) PROVE OwnerDecides'
  BY <1>CannotBegin
  DEF CannotBegin, meta, Reported, OneOwner, OwnerDecides, Open, TypeOK
<1>Write. ASSUME NEW f \in Files, Write(f) PROVE OwnerDecides'
  BY <1>Write DEF Write, meta, daemon, OwnerDecides
<1>ConfirmNow. ASSUME ConfirmNow PROVE OwnerDecides'
  BY <1>ConfirmNow
  DEF ConfirmNow, SetState, Reported, Done, Applied, OneOwner, Held,
      OwnerDecides, Open, TypeOK
<1>NothingToChange. ASSUME NothingToChange PROVE OwnerDecides'
  BY <1>NothingToChange
  DEF NothingToChange, SetState, Reported, Done, OneOwner, Held, OwnerDecides,
      Open, TypeOK
<1>VerifyLater. ASSUME VerifyLater PROVE OwnerDecides'
  <2>1. cur <= begun /\ cur \in Txs /\ verdict[cur] = "none"
    BY <1>VerifyLater DEF VerifyLater, Applied, OwnerDecides, TypeOK
  <2>2. Schedule(cur, started[cur]) /\ pc' = "idle"
    BY <1>VerifyLater DEF VerifyLater, Done
  <2>3. UNCHANGED <<verdict, begun>>
    BY <1>VerifyLater DEF VerifyLater, Done
  <2>4. ~(cur > begun) /\ \A k \in Verifiers : verifier[cur][k].stage = "off"
    BY <1>VerifyLater, <2>1 DEF VerifyLater, Applied, OneOwner, Held, TypeOK
  <2> QED
    BY <2>1, <2>2, <2>3, <2>4, ScheduledDecides
<1>HandlerFails. ASSUME HandlerFails PROVE OwnerDecides'
  BY <1>HandlerFails DEF HandlerFails, meta, OwnerDecides
<1>RestoreReported. ASSUME RestoreReported PROVE OwnerDecides'
  BY <1>RestoreReported
  DEF RestoreReported, SetState, Reported, OneOwner, Held, OwnerDecides, Open,
      TypeOK
<1>Start. ASSUME Start PROVE OwnerDecides'
  BY <1>Start DEF Start, meta, OwnerDecides
<1>SkipSettled. ASSUME NEW t \in Txs, SkipSettled(t) PROVE OwnerDecides'
  BY <1>SkipSettled DEF SkipSettled, meta, Visit, OwnerDecides
<1>Supersede. ASSUME NEW t \in Txs, Supersede(t) PROVE OwnerDecides'
  BY <1>Supersede
  DEF Supersede, SetState, Reported, Visit, OneOwner, Held, OwnerDecides, Open,
      TypeOK
<1>Resume. ASSUME NEW t \in Txs, Resume(t) PROVE OwnerDecides'
  <2>1. ~(t > begun) /\ verdict[t] = "none"
    BY <1>Resume DEF Resume, OwnerDecides, Open
  <2>2. Schedule(t, started[t]) /\ pc = "recovering"
    BY <1>Resume DEF Resume, Visit
  <2>3. UNCHANGED <<verdict, pc, cur, outcome, begun>>
    BY <1>Resume DEF Resume, Visit
  <2>4. \A k \in Verifiers : verifier[t][k].stage = "off"
    BY <1>Resume DEF Resume, Visit, OneOwner, Held
  <2> QED
    BY <2>1, <2>2, <2>3, <2>4, ScheduledDecides
<1>RestartWindow. ASSUME NEW t \in Txs, RestartWindow(t) PROVE OwnerDecides'
  <2>1. ~(t > begun) /\ verdict[t] = "none"
    BY <1>RestartWindow DEF RestartWindow, OwnerDecides, Open
  <2>2. Schedule(t, clock) /\ pc = "recovering"
    BY <1>RestartWindow DEF RestartWindow, Visit
  <2>3. UNCHANGED <<verdict, pc, cur, outcome, begun>>
    BY <1>RestartWindow DEF RestartWindow, Visit
  <2>4. \A k \in Verifiers : verifier[t][k].stage = "off"
    BY <1>RestartWindow DEF RestartWindow, Visit, OneOwner, Held
  <2> QED
    BY <2>1, <2>2, <2>3, <2>4, ScheduledDecides
<1>Undo. ASSUME NEW t \in Txs, Undo(t) PROVE OwnerDecides'
  BY <1>Undo DEF Undo, meta, Visit, OwnerDecides, Open, TypeOK
<1>Recovered. ASSUME Recovered PROVE OwnerDecides'
  BY <1>Recovered DEF Recovered, meta, Done, OwnerDecides
<1>Probe. ASSUME NEW t \in Txs, NEW k \in Verifiers, Probe(t, k) PROVE OwnerDecides'
  BY <1>Probe DEF Probe, meta, daemon, Move, OwnerDecides
<1>Confirm. ASSUME NEW t \in Txs, NEW k \in Verifiers, Confirm(t, k) PROVE OwnerDecides'
  BY <1>Confirm
  DEF Confirm, daemon, SetState, Move, OneOwner, Held, OwnerDecides, TypeOK
<1>ReportSuccess. ASSUME NEW t \in Txs, NEW k \in Verifiers, ReportSuccess(t, k) PROVE OwnerDecides'
  BY <1>ReportSuccess
  DEF ReportSuccess, meta, daemon, Reported, Ends, OneOwner, OwnerDecides, Idle,
      Open, TypeOK
<1>TimeOut. ASSUME NEW t \in Txs, NEW k \in Verifiers, TimeOut(t, k) PROVE OwnerDecides'
  BY <1>TimeOut DEF TimeOut, meta, daemon, OwnerDecides
<1>RollBack. ASSUME NEW t \in Txs, NEW k \in Verifiers, RollBack(t, k) PROVE OwnerDecides'
  BY <1>RollBack
  DEF RollBack, daemon, SetState, Move, OneOwner, Held, OwnerDecides, TypeOK
<1>ReportFailure. ASSUME NEW t \in Txs, NEW k \in Verifiers, ReportFailure(t, k) PROVE OwnerDecides'
  BY <1>ReportFailure
  DEF ReportFailure, meta, daemon, Reported, Ends, OneOwner, Held, OwnerDecides,
      Idle, Open, TypeOK
<1>Tick. ASSUME Tick PROVE OwnerDecides'
  BY <1>Tick DEF Tick, meta, daemon, OwnerDecides
<1>Exit. ASSUME NEW kind \in Exits, Exit(kind) PROVE OwnerDecides'
  BY <1>Exit DEF Exit, meta, OwnerDecides, Idle
<1>stutter. CASE UNCHANGED vars
  BY <1>stutter DEF vars, meta, daemon, OwnerDecides
<1> QED
  BY <1>Begin, <1>CannotBegin, <1>Write, <1>ConfirmNow, <1>NothingToChange,
     <1>VerifyLater, <1>HandlerFails, <1>RestoreReported, <1>Start,
     <1>SkipSettled, <1>Supersede, <1>Resume, <1>RestartWindow, <1>Undo,
     <1>Recovered, <1>Probe, <1>Confirm, <1>ReportSuccess, <1>TimeOut,
     <1>RollBack, <1>ReportFailure, <1>Tick, <1>Exit, <1>stutter
  DEF Next, Executes, Recovers, Verifies

LEMMA MatchStep ==
  ASSUME TypeOK, OneOwner, OwnerDecides, VerdictMatchesState, TypeOK', [Next]_vars
  PROVE  VerdictMatchesState'
<1>Begin. ASSUME NEW t \in Txs, Begin(t) PROVE VerdictMatchesState'
  BY <1>Begin DEF Begin, SetState, OwnerDecides, VerdictMatchesState, TypeOK
<1>CannotBegin. ASSUME NEW t \in Txs, CannotBegin(t) PROVE VerdictMatchesState'
  BY <1>CannotBegin
  DEF CannotBegin, meta, Reported, VerdictMatchesState, Restorations
<1>Write. ASSUME NEW f \in Files, Write(f) PROVE VerdictMatchesState'
  BY <1>Write DEF Write, meta, VerdictMatchesState
<1>ConfirmNow. ASSUME ConfirmNow PROVE VerdictMatchesState'
  BY <1>ConfirmNow
  DEF ConfirmNow, SetState, Reported, VerdictMatchesState, Restorations, TypeOK
<1>NothingToChange. ASSUME NothingToChange PROVE VerdictMatchesState'
  BY <1>NothingToChange
  DEF NothingToChange, SetState, Reported, VerdictMatchesState, Restorations,
      TypeOK
<1>VerifyLater. ASSUME VerifyLater PROVE VerdictMatchesState'
  <2>1. cur \in Txs /\ verdict[cur] = "none"
    BY <1>VerifyLater DEF VerifyLater, Applied, OwnerDecides, TypeOK
  <2> QED
    BY <1>VerifyLater, <2>1, ScheduleFacts
    DEF VerifyLater, VerdictMatchesState, Restorations
<1>HandlerFails. ASSUME HandlerFails PROVE VerdictMatchesState'
  BY <1>HandlerFails DEF HandlerFails, meta, VerdictMatchesState
<1>RestoreReported. ASSUME RestoreReported PROVE VerdictMatchesState'
  BY <1>RestoreReported
  DEF RestoreReported, SetState, Reported, VerdictMatchesState, TypeOK
<1>Start. ASSUME Start PROVE VerdictMatchesState'
  BY <1>Start DEF Start, meta, VerdictMatchesState
<1>SkipSettled. ASSUME NEW t \in Txs, SkipSettled(t) PROVE VerdictMatchesState'
  BY <1>SkipSettled DEF SkipSettled, meta, VerdictMatchesState
<1>Supersede. ASSUME NEW t \in Txs, Supersede(t) PROVE VerdictMatchesState'
  BY <1>Supersede
  DEF Supersede, SetState, Reported, VerdictMatchesState, Open, Restorations
<1>Resume. ASSUME NEW t \in Txs, Resume(t) PROVE VerdictMatchesState'
  BY <1>Resume, ScheduleFacts
  DEF Resume, OwnerDecides, VerdictMatchesState, Open, Restorations
<1>RestartWindow. ASSUME NEW t \in Txs, RestartWindow(t) PROVE VerdictMatchesState'
  BY <1>RestartWindow, ScheduleFacts
  DEF RestartWindow, OwnerDecides, VerdictMatchesState, Open, Restorations
<1>Undo. ASSUME NEW t \in Txs, Undo(t) PROVE VerdictMatchesState'
  BY <1>Undo DEF Undo, meta, VerdictMatchesState
<1>Recovered. ASSUME Recovered PROVE VerdictMatchesState'
  BY <1>Recovered DEF Recovered, meta, VerdictMatchesState
<1>Probe. ASSUME NEW t \in Txs, NEW k \in Verifiers, Probe(t, k) PROVE VerdictMatchesState'
  BY <1>Probe DEF Probe, meta, VerdictMatchesState
<1>Confirm. ASSUME NEW t \in Txs, NEW k \in Verifiers, Confirm(t, k) PROVE VerdictMatchesState'
  BY <1>Confirm
  DEF Confirm, SetState, Move, OwnerDecides, VerdictMatchesState, Restorations
<1>ReportSuccess. ASSUME NEW t \in Txs, NEW k \in Verifiers, ReportSuccess(t, k) PROVE VerdictMatchesState'
  BY <1>ReportSuccess
  DEF ReportSuccess, meta, Reported, Ends, OwnerDecides, VerdictMatchesState,
      Restorations
<1>TimeOut. ASSUME NEW t \in Txs, NEW k \in Verifiers, TimeOut(t, k) PROVE VerdictMatchesState'
  BY <1>TimeOut DEF TimeOut, meta, VerdictMatchesState
<1>RollBack. ASSUME NEW t \in Txs, NEW k \in Verifiers, RollBack(t, k) PROVE VerdictMatchesState'
  BY <1>RollBack DEF RollBack, SetState, Move, OwnerDecides, VerdictMatchesState
<1>ReportFailure. ASSUME NEW t \in Txs, NEW k \in Verifiers, ReportFailure(t, k) PROVE VerdictMatchesState'
  BY <1>ReportFailure
  DEF ReportFailure, meta, Reported, Ends, OwnerDecides, VerdictMatchesState,
      Restorations
<1>Tick. ASSUME Tick PROVE VerdictMatchesState'
  BY <1>Tick DEF Tick, meta, VerdictMatchesState
<1>Exit. ASSUME NEW kind \in Exits, Exit(kind) PROVE VerdictMatchesState'
  BY <1>Exit DEF Exit, meta, VerdictMatchesState
<1>stutter. CASE UNCHANGED vars
  BY <1>stutter DEF vars, meta, VerdictMatchesState
<1> QED
  BY <1>Begin, <1>CannotBegin, <1>Write, <1>ConfirmNow, <1>NothingToChange,
     <1>VerifyLater, <1>HandlerFails, <1>RestoreReported, <1>Start,
     <1>SkipSettled, <1>Supersede, <1>Resume, <1>RestartWindow, <1>Undo,
     <1>Recovered, <1>Probe, <1>Confirm, <1>ReportSuccess, <1>TimeOut,
     <1>RollBack, <1>ReportFailure, <1>Tick, <1>Exit, <1>stutter
  DEF Next, Executes, Recovers, Verifies

LEMMA SettledStep ==
  ASSUME TypeOK, OneOwner, OwnerDecides, TypeOK', [Next]_vars
  PROVE  \A u \in Txs : /\ state[u] \in Settled => state'[u] = state[u]
                        /\ verdict[u] # "none" => verdict'[u] = verdict[u]
<1> DEFINE Kept ==
      \A u \in Txs :
        /\ state[u] \in Settled => state'[u] = state[u]
        /\ verdict[u] # "none" => verdict'[u] = verdict[u]
<1>Begin. ASSUME NEW t \in Txs, Begin(t) PROVE Kept
  BY <1>Begin DEF Begin, SetState, OwnerDecides, Settled, TypeOK
<1>CannotBegin. ASSUME NEW t \in Txs, CannotBegin(t) PROVE Kept
  BY <1>CannotBegin DEF CannotBegin, meta, Reported, OwnerDecides, TypeOK
<1>Write. ASSUME NEW f \in Files, Write(f) PROVE Kept
  BY <1>Write DEF Write, meta
<1>ConfirmNow. ASSUME ConfirmNow PROVE Kept
  BY <1>ConfirmNow
  DEF ConfirmNow, SetState, Reported, Applied, OwnerDecides, Open, Settled
<1>NothingToChange. ASSUME NothingToChange PROVE Kept
  BY <1>NothingToChange
  DEF NothingToChange, SetState, Reported, OwnerDecides, Open, Settled
<1>VerifyLater. ASSUME VerifyLater PROVE Kept
  <2>1. cur \in Txs /\ state[cur] \in Open
    BY <1>VerifyLater DEF VerifyLater, Applied, OwnerDecides, TypeOK
  <2> QED
    BY <1>VerifyLater, <2>1, ScheduleFacts DEF VerifyLater, Open, Settled
<1>HandlerFails. ASSUME HandlerFails PROVE Kept
  BY <1>HandlerFails DEF HandlerFails, meta
<1>RestoreReported. ASSUME RestoreReported PROVE Kept
  BY <1>RestoreReported
  DEF RestoreReported, SetState, Reported, OwnerDecides, Open, Settled
<1>Start. ASSUME Start PROVE Kept
  BY <1>Start DEF Start, meta
<1>SkipSettled. ASSUME NEW t \in Txs, SkipSettled(t) PROVE Kept
  BY <1>SkipSettled DEF SkipSettled, meta
<1>Supersede. ASSUME NEW t \in Txs, Supersede(t) PROVE Kept
  BY <1>Supersede DEF Supersede, SetState, Reported, OwnerDecides, Open, Settled
<1>Resume. ASSUME NEW t \in Txs, Resume(t) PROVE Kept
  BY <1>Resume, ScheduleFacts DEF Resume, Open, Settled
<1>RestartWindow. ASSUME NEW t \in Txs, RestartWindow(t) PROVE Kept
  BY <1>RestartWindow, ScheduleFacts DEF RestartWindow, Open, Settled
<1>Undo. ASSUME NEW t \in Txs, Undo(t) PROVE Kept
  BY <1>Undo DEF Undo, meta
<1>Recovered. ASSUME Recovered PROVE Kept
  BY <1>Recovered DEF Recovered, meta
<1>Probe. ASSUME NEW t \in Txs, NEW k \in Verifiers, Probe(t, k) PROVE Kept
  BY <1>Probe DEF Probe, meta
<1>Confirm. ASSUME NEW t \in Txs, NEW k \in Verifiers, Confirm(t, k) PROVE Kept
  BY <1>Confirm DEF Confirm, SetState, Move, OwnerDecides, Open, Settled, Txs
<1>ReportSuccess. ASSUME NEW t \in Txs, NEW k \in Verifiers, ReportSuccess(t, k) PROVE Kept
  BY <1>ReportSuccess DEF ReportSuccess, meta, Reported, Ends, OwnerDecides
<1>TimeOut. ASSUME NEW t \in Txs, NEW k \in Verifiers, TimeOut(t, k) PROVE Kept
  BY <1>TimeOut DEF TimeOut, meta
<1>RollBack. ASSUME NEW t \in Txs, NEW k \in Verifiers, RollBack(t, k) PROVE Kept
  BY <1>RollBack DEF RollBack, SetState, Move, OwnerDecides, Open, Settled
<1>ReportFailure. ASSUME NEW t \in Txs, NEW k \in Verifiers, ReportFailure(t, k) PROVE Kept
  BY <1>ReportFailure DEF ReportFailure, meta, Reported, Ends, OwnerDecides
<1>Tick. ASSUME Tick PROVE Kept
  BY <1>Tick DEF Tick, meta
<1>Exit. ASSUME NEW kind \in Exits, Exit(kind) PROVE Kept
  BY <1>Exit DEF Exit, meta
<1>stutter. ASSUME UNCHANGED vars PROVE Kept
  BY <1>stutter DEF vars, meta
<1> HIDE DEF Kept
<1>kept. Kept
  BY <1>Begin, <1>CannotBegin, <1>Write, <1>ConfirmNow, <1>NothingToChange,
     <1>VerifyLater, <1>HandlerFails, <1>RestoreReported, <1>Start,
     <1>SkipSettled, <1>Supersede, <1>Resume, <1>RestartWindow, <1>Undo,
     <1>Recovered, <1>Probe, <1>Confirm, <1>ReportSuccess, <1>TimeOut,
     <1>RollBack, <1>ReportFailure, <1>Tick, <1>Exit, <1>stutter
  DEF Next, Executes, Recovers, Verifies
<1> QED
  BY <1>kept DEF Kept

LEMMA InitOwnerInv == Init => OwnerInv
BY InitTypeOK
DEF Init, OwnerInv, OneOwner, OwnerDecides, VerdictMatchesState, Idle, 
   Held, Txs, Open, Restorations

LEMMA OwnerInvStep ==
  ASSUME Exits \subseteq {"reboot"}
  PROVE  OwnerInv /\ [Next]_vars => OwnerInv'
BY StepTypeOK, OneOwnerStep, DecidesStep, MatchStep DEF OwnerInv

\* When the daemon goes down only with the router, what the server was told
\* agrees with the meta file, so recovery never contradicts it.
THEOREM VerdictsMatch ==
  ASSUME Exits \subseteq {"reboot"}
  PROVE  Spec => [](OwnerInv /\ VerdictMatchesState)
<1>1. OwnerInv => VerdictMatchesState
  BY DEF OwnerInv
<1> QED
  BY InitOwnerInv, OwnerInvStep, <1>1, PTL DEF Spec

\* When the daemon goes down only with the router, no transaction is settled or
\* reported twice, however many reboots interrupt it.
THEOREM SettledOnce ==
  ASSUME Exits \subseteq {"reboot"}
  PROVE  Spec => SettledForGood
<1>1. OwnerInv /\ [Next]_vars =>
        [\A t \in Txs :
           /\ state[t] \in Settled => state'[t] = state[t]
           /\ verdict[t] # "none" => verdict'[t] = verdict[t]]_vars
  BY StepTypeOK, SettledStep DEF OwnerInv
<1> QED
  BY InitOwnerInv, OwnerInvStep, <1>1, PTL DEF Spec, SettledForGood

-----------------------------------------------------------------------------
(* Until something restarts, a success is a change that is applied. *)

\* What a step leaves as it was of the change of a transaction.
LEMMA OthersKeep ==
  ASSUME TypeOK, Disjoint, NEW t \in Txs, NEW u \in Txs, u # t,
         NEW result, CopyBack(t, result), Has(u)
  PROVE  Has(u)'
BY DEF CopyBack, Disjoint, Has, TypeOK, Txs

LEMMA FilesOfTxs == ASSUME NEW t \in Txs PROVE FilesOf[t] \in SUBSET Files
BY TransactionAssumption

LEMMA FilesGrow ==
  ASSUME TypeOK, \A f \in Files : files[f] \subseteq files'[f], NEW t \in Txs, Has(t)
  PROVE  Has(t)'
BY FilesOfTxs DEF Has

Applies ==
  pc \in {"idle", "applying", "restored"} /\ VerifiersSeeAll /\ SuccessIsApplied

LEMMA AppliesStep ==
  ASSUME Disjoint, TypeOK, OneOwner, OwnerDecides, Applies, exits = 0, exits' = 0,
         TypeOK', [Next]_vars
  PROVE  Applies'
<1> USE DEF Applies
<1>files. ASSUME UNCHANGED files PROVE \A t \in Txs : Has(t)' <=> Has(t)
  BY <1>files DEF Has
<1>Begin. ASSUME NEW t \in Txs, Begin(t) PROVE Applies'
  BY <1>Begin, <1>files DEF Begin, VerifiersSeeAll, SuccessIsApplied
<1>CannotBegin. ASSUME NEW t \in Txs, CannotBegin(t) PROVE Applies'
  BY <1>CannotBegin, <1>files
  DEF CannotBegin, Reported, VerifiersSeeAll, SuccessIsApplied, TypeOK
<1>Write. ASSUME NEW f \in Files, Write(f) PROVE Applies'
  <2>1. \A g \in Files : files[g] \subseteq files'[g]
    BY <1>Write DEF Write, TypeOK
  <2>2. \A t \in Txs : Has(t) => Has(t)'
    BY <2>1, FilesGrow
  <2> QED
    BY <1>Write, <2>2 DEF Write, daemon, VerifiersSeeAll, SuccessIsApplied
<1>ConfirmNow. ASSUME ConfirmNow PROVE Applies'
  <2>1. Has(cur)
    BY <1>ConfirmNow DEF ConfirmNow, Applied, Has
  <2> QED
    BY <1>ConfirmNow, <1>files, <2>1
    DEF ConfirmNow, Done, Reported, VerifiersSeeAll, SuccessIsApplied, TypeOK
<1>NothingToChange. ASSUME NothingToChange PROVE Applies'
  <2>1. \A g \in Files : files[g] \subseteq files'[g]
    BY <1>NothingToChange DEF NothingToChange, TypeOK
  <2>2. \A t \in Txs : Has(t) => Has(t)'
    BY <2>1, FilesGrow
  <2>3. cur \in Txs
    BY <1>NothingToChange DEF NothingToChange, TypeOK
  <2>4. Has(cur)'
    BY <1>NothingToChange, <2>3, FilesOfTxs
    DEF NothingToChange, Done, Has, TypeOK
  <2> QED
    BY <1>NothingToChange, <2>2, <2>3, <2>4
    DEF NothingToChange, Done, Reported, VerifiersSeeAll, SuccessIsApplied, TypeOK
<1>VerifyLater. ASSUME VerifyLater PROVE Applies'
  <2>1. cur \in Txs /\ Has(cur)
    BY <1>VerifyLater DEF VerifyLater, Applied, Has, TypeOK
  <2>2. Schedule(cur, started[cur]) /\ UNCHANGED <<files, verdict>> /\ pc' = "idle"
    BY <1>VerifyLater DEF VerifyLater, Done
  <2>3. PICK k \in Verifiers :
          \A u \in Txs, j \in Verifiers :
            u # cur \/ j # k => verifier'[u][j] = verifier[u][j]
    BY <2>1, <2>2, ScheduleFacts
  <2> QED
    BY <2>1, <2>2, <2>3, <1>files DEF VerifiersSeeAll, SuccessIsApplied
<1>restore. ASSUME NEW t \in Txs, NEW result, CopyBack(t, result), UNCHANGED verdict,
                   verdict[t] = "none", pc' \in {"idle", "applying", "restored"},
                   \A k \in Verifiers : verifier'[t][k].stage \in {"off", "restored"},
                   \A u \in Txs \ {t} : verifier'[u] = verifier[u]
            PROVE  Applies'
  <2>1. \A u \in Txs : u # t /\ Has(u) => Has(u)'
    BY <1>restore, OthersKeep
  <2> QED
    BY <1>restore, <2>1 DEF VerifiersSeeAll, SuccessIsApplied
<1>HandlerFails. ASSUME HandlerFails PROVE Applies'
  <2>1. /\ cur \in Txs /\ CopyBack(cur, outcome') /\ pc' = "restored"
        /\ UNCHANGED <<verdict, verifier>>
    BY <1>HandlerFails DEF HandlerFails, TypeOK
  <2>2. Held(cur) /\ state[cur] \in Open /\ cur <= begun
    BY <1>HandlerFails DEF HandlerFails, Held, OwnerDecides
  <2>3. \A k \in Verifiers : verifier[cur][k].stage = "off"
    BY <2>1, <2>2 DEF OneOwner
  <2>4. verdict[cur] = "none"
    BY <2>1, <2>2 DEF OwnerDecides
  <2> QED
    BY <2>1, <2>3, <2>4, <1>restore
<1>RestoreReported. ASSUME RestoreReported PROVE Applies'
  BY <1>RestoreReported, <1>files
  DEF RestoreReported, Reported, VerifiersSeeAll, SuccessIsApplied, OwnerDecides,
      Restorations, TypeOK
<1>recovery. pc \notin {"down", "recovering", "undone"}
  OBVIOUS
<1>Probe. ASSUME NEW t \in Txs, NEW k \in Verifiers, Probe(t, k) PROVE Applies'
  BY <1>Probe, <1>files
  DEF Probe, daemon, Move, VerifiersSeeAll, SuccessIsApplied, TypeOK
<1>Confirm. ASSUME NEW t \in Txs, NEW k \in Verifiers, Confirm(t, k) PROVE Applies'
  BY <1>Confirm, <1>files
  DEF Confirm, daemon, Move, VerifiersSeeAll, SuccessIsApplied, TypeOK
<1>ReportSuccess. ASSUME NEW t \in Txs, NEW k \in Verifiers, ReportSuccess(t, k)
                  PROVE  Applies'
  <2>1. Has(t)
    BY <1>ReportSuccess DEF ReportSuccess, Ends, VerifiersSeeAll
  <2> QED
    BY <1>ReportSuccess, <1>files, <2>1
    DEF ReportSuccess, daemon, Ends, Reported, Idle, VerifiersSeeAll, SuccessIsApplied,
        TypeOK
<1>TimeOut. ASSUME NEW t \in Txs, NEW k \in Verifiers, TimeOut(t, k) PROVE Applies'
  <2>1. PICK r \in Restorations :
          /\ CopyBack(t, r)
          /\ verifier' = [verifier EXCEPT ![t][k] =
                            [@ EXCEPT !.stage = "restored", !.outcome = r]]
    BY <1>TimeOut DEF TimeOut
  <2>2. UNCHANGED <<verdict, pc>> /\ verifier[t][k].stage = "probing"
    BY <1>TimeOut DEF TimeOut, daemon
  <2>3. verdict[t] = "none"
    BY <2>2 DEF OwnerDecides
  <2>4. \A j \in Verifiers : j # k => verifier[t][j].stage = "off"
    BY <2>2 DEF OneOwner
  <2>5. /\ verifier'[t][k].stage = "restored"
        /\ \A j \in Verifiers : j # k => verifier'[t][j] = verifier[t][j]
        /\ \A u \in Txs \ {t} : verifier'[u] = verifier[u]
    BY <2>1 DEF TypeOK, VerifierStates
  <2> QED
    BY <2>1, <2>2, <2>3, <2>4, <2>5, <1>restore
<1>RollBack. ASSUME NEW t \in Txs, NEW k \in Verifiers, RollBack(t, k) PROVE Applies'
  BY <1>RollBack, <1>files
  DEF RollBack, daemon, Move, VerifiersSeeAll, SuccessIsApplied, TypeOK
<1>ReportFailure. ASSUME NEW t \in Txs, NEW k \in Verifiers, ReportFailure(t, k)
                  PROVE  Applies'
  <2>1. verifier[t][k].outcome # "success"
    BY <1>ReportFailure DEF ReportFailure, Ends, OwnerDecides, Restorations
  <2> QED
    BY <1>ReportFailure, <1>files, <2>1
    DEF ReportFailure, daemon, Ends, Reported, Idle, VerifiersSeeAll, SuccessIsApplied,
        TypeOK
<1>Tick. ASSUME Tick PROVE Applies'
  BY <1>Tick, <1>files DEF Tick, daemon, VerifiersSeeAll, SuccessIsApplied
<1>Exit. ASSUME NEW kind \in Exits, Exit(kind) PROVE Applies'
  BY <1>Exit DEF Exit, TypeOK
<1>stutter. CASE UNCHANGED vars
  BY <1>stutter, <1>files DEF vars, daemon, VerifiersSeeAll, SuccessIsApplied
<1>others. ~Recovers
  BY <1>recovery
  DEF Recovers, Start, SkipSettled, Supersede, Resume, RestartWindow, Undo, Recovered, Visit
<1> QED
  BY <1>Begin, <1>CannotBegin, <1>Write, <1>ConfirmNow, <1>NothingToChange,
     <1>VerifyLater, <1>HandlerFails, <1>RestoreReported, <1>others,
     <1>Probe, <1>Confirm, <1>ReportSuccess, <1>TimeOut,
     <1>RollBack, <1>ReportFailure, <1>Tick, <1>Exit, <1>stutter
  DEF Next, Executes, Verifies

LEMMA ExitsGrow == ASSUME TypeOK, [Next]_vars, exits' = 0 PROVE exits = 0
<1>1. ASSUME NEW kind \in Exits, Exit(kind) PROVE FALSE
  BY <1>1 DEF Exit, TypeOK
<1>2. CASE Executes
  BY <1>2 DEF Executes, Begin, CannotBegin, Write, ConfirmNow, NothingToChange, VerifyLater,
              HandlerFails, RestoreReported
<1>3. CASE Recovers
  BY <1>3 DEF Recovers, Start, SkipSettled, Supersede, Resume, RestartWindow, Undo,
              Recovered, Visit
<1>4. ASSUME NEW t \in Txs, NEW k \in Verifiers, Verifies(t, k) PROVE exits = 0
  BY <1>4 DEF Verifies, Probe, Confirm, ReportSuccess, TimeOut, RollBack, ReportFailure
<1>5. CASE Tick \/ UNCHANGED vars
  BY <1>5 DEF Tick, vars
<1> QED
  BY <1>1, <1>2, <1>3, <1>4, <1>5 DEF Next

LEMMA InitAppliedInv == Init => AppliedInv
BY InitOwnerInv DEF Init, AppliedInv, OwnerInv, VerifiersSeeAll, SuccessIsApplied, Idle

LEMMA AppliedInvStep ==
  ASSUME Disjoint, AppliedInv, [Next]_vars
  PROVE  AppliedInv'
<1>1. TypeOK /\ TypeOK'
  BY StepTypeOK DEF AppliedInv
<1> SUFFICES ASSUME exits' = 0
             PROVE  OneOwner' /\ OwnerDecides' /\ Applies'
  BY <1>1 DEF AppliedInv, Applies
<1>2. exits = 0
  BY <1>1, ExitsGrow
<1>3. OneOwner /\ OwnerDecides /\ Applies
  BY <1>2 DEF AppliedInv, Applies
<1> QED
  BY <1>1, <1>2, <1>3, OneOwnerStep, DecidesStep, AppliesStep

\* As long as nothing restarts, what was reported as a success is in all files of
\* its transaction, for any transactions on disjoint files: no late restore of
\* another one takes it away (transaction_state.sh).
THEOREM SuccessStays ==
  ASSUME Disjoint
  PROVE  Spec => []SuccessIsApplied
<1>1. AppliedInv /\ [Next]_vars => AppliedInv'
  BY AppliedInvStep
<1>2. AppliedInv => SuccessIsApplied
  BY DEF AppliedInv, SuccessIsApplied
<1> QED
  BY InitAppliedInv, <1>1, <1>2, PTL DEF Spec

=============================================================================
