---------------------------- MODULE ControlProofs ----------------------------
(***************************************************************************)
(* Proofs about the run ledger and the lifecycle claims over it, for every *)
(* set of runs, workers and executors and for every bound.                 *)
(*                                                                         *)
(* First the ledger alone (HostRuns): its rows keep their types, and its   *)
(* inductive invariant.  Then the ledger under pauses, resumes, steers,    *)
(* stops, terminations and compute releases (RunControl): the ledger's     *)
(* invariant, which the finalizing transactions must keep too, and what    *)
(* ties a pending claim to the rows it was made for.                       *)
(***************************************************************************)
EXTENDS RunControl, TLAPS

USE DEF Attempts

-----------------------------------------------------------------------------
\* The row updates keep their types.

\* The constants that the transactions write are members of the column types.
LEMMA Names ==
    /\ 0 \in 0 .. MaxAttempts
    /\ Attempts \subseteq 0 .. MaxAttempts
    /\ NonterminalStates \subseteq RunStates
    /\ TerminalStates \subseteq RunStates
    /\ {"queued", "claimed", "admitted", "running", "settling", "paused", "needs_input"}
           \subseteq RunStates
    /\ {"none", "claimed", "admitted", "running", "settling", "ended"}
           \subseteq AttemptStates
    /\ {"starting", "ready", "running", "needs_input", "terminating",
        "termination_failed", "terminated"} \subseteq WorkerStates
BY BoundsAssumption
   DEF RunStates, NonterminalStates, AttemptStates, WorkerStates, OpenWorkerStates,
       ClosedStates

\* A requeued run row is a run row.
LEMMA RequeuedType ==
    ASSUME NEW row \in RunRow
    PROVE  Requeued(row, TRUE) \in RunRow /\ Requeued(row, FALSE) \in RunRow
<1>1. ReopenWait(row) \in RunRow
  BY DEF ReopenWait, RunRow
<1>2. ASSUME NEW x \in RunRow
      PROVE  /\ [x EXCEPT !.st = "queued", !.att = 0, !.inv = 0, !.due = TRUE] \in RunRow
             /\ [x EXCEPT !.st = "queued", !.att = 0, !.inv = 0, !.due = FALSE] \in RunRow
  BY Names DEF RunRow
<1>q. QED
  BY <1>1, <1>2 DEF Requeued

\* A terminal run row is a run row.
LEMMA TerminatedType ==
    ASSUME NEW row \in RunRow, NEW s \in TerminalStates
    PROVE  Terminated(row, s) \in RunRow
BY Names DEF Terminated, RunRow

\* Ending the current attempts of some runs keeps the attempt table well typed.
LEMMA EndCurrentType ==
    ASSUME NEW R, attempt \in [Runs -> [Attempts -> AttemptRow]]
    PROVE  EndCurrent(R) \in [Runs -> [Attempts -> AttemptRow]]
<1>1. ASSUME NEW row \in AttemptRow PROVE Ended(row) \in AttemptRow
  BY Names DEF Ended, AttemptRow
<1>2. ASSUME NEW q \in Runs
      PROVE  [a \in Attempts |-> IF q \in R /\ a = run[q].att
                                THEN Ended(attempt[q][a]) ELSE attempt[q][a]]
                \in [Attempts -> AttemptRow]
  BY <1>1
<1>q. QED
  BY <1>2 DEF EndCurrent

\* Releasing the leases of some runs keeps the lease table well typed.
LEMMA ReleaseType ==
    ASSUME NEW R, lease \in [Runs -> LeaseRow]
    PROVE  Release(R) \in [Runs -> LeaseRow]
<1>1. ASSUME NEW row \in LeaseRow
      PROVE  [row EXCEPT !.st = "released", !.exec = "none", !.start = "reserved",
                         !.ident = FALSE, !.live = FALSE] \in LeaseRow
  BY DEF LeaseRow
<1>q. QED
  BY <1>1 DEF Release

\* The updates of single attempt and lease rows are rows.
LEMMA AttemptUpdates ==
    ASSUME NEW row \in AttemptRow
    PROVE  /\ [row EXCEPT !.st = "admitted", !.bound = TRUE] \in AttemptRow
           /\ [row EXCEPT !.st = "running", !.inv = TRUE] \in AttemptRow
           /\ [row EXCEPT !.st = "settling"] \in AttemptRow
BY Names DEF AttemptRow

\* The updates of single run rows are rows.
LEMMA RunUpdates ==
    ASSUME NEW row \in RunRow, NEW s \in RunStates
    PROVE  /\ [row EXCEPT !.st = s] \in RunRow
           /\ [row EXCEPT !.st = s, !.due = TRUE] \in RunRow
           /\ [row EXCEPT !.st = s, !.inv = row.att, !.wait = FALSE] \in RunRow
           /\ [row EXCEPT !.due = TRUE] \in RunRow
           /\ [row EXCEPT !.late = TRUE] \in RunRow
BY DEF RunRow

\* The updates of single lease rows are rows.
LEMMA LeaseUpdates ==
    ASSUME NEW row \in LeaseRow
    PROVE  /\ [row EXCEPT !.start = "confirmed", !.ident = TRUE] \in LeaseRow
           /\ [row EXCEPT !.start = "termination_unconfirmed"] \in LeaseRow
           /\ [row EXCEPT !.live = FALSE] \in LeaseRow
BY DEF LeaseRow

\* A heartbeat leaves a lease row.
LEMMA HeartbeatRow ==
    ASSUME NEW row \in LeaseRow, NEW o \in BOOLEAN
    PROVE  [row EXCEPT !.live = TRUE, !.ident = row.ident \/ o] \in LeaseRow
<1>1. CASE o = TRUE
  <2>1. [row EXCEPT !.live = TRUE, !.ident = TRUE] \in LeaseRow
    BY DEF LeaseRow
  <2>q. QED
    BY <1>1, <2>1, Zenon
<1>2. CASE o = FALSE
  <2>1. [row EXCEPT !.live = TRUE, !.ident = row.ident \/ FALSE] \in LeaseRow
    BY DEF LeaseRow
  <2>q. QED
    BY <1>2, <2>1
<1>q. QED
  BY <1>1, <1>2

\* Replacing one attempt row keeps the attempt table well typed.
LEMMA SetAttemptType ==
    ASSUME NEW r \in Runs, NEW a \in Attempts, NEW row \in AttemptRow,
           attempt \in [Runs -> [Attempts -> AttemptRow]]
    PROVE  [attempt EXCEPT ![r][a] = row] \in [Runs -> [Attempts -> AttemptRow]]
OBVIOUS

\* A new run row is a run row.
LEMMA NewRunRowType == NewRunRow \in RunRow
BY Names DEF NewRunRow, RunRow

\* Writing a known state keeps the worker table well typed.
LEMMA SetWorkerType ==
    ASSUME NEW w \in Workers, NEW s \in WorkerStates,
           worker \in [Workers -> WorkerRow], SetWorker(w, s)
    PROVE  worker' \in [Workers -> WorkerRow]
BY DEF SetWorker, WorkerRow

\* The repair of unproven running runs keeps the tables well typed.
LEMMA DowngradeType ==
    ASSUME TypeOK, NEW R, Downgrade(R)
    PROVE  TypeOK'
<1>1. run' \in [Runs -> RunRow]
  BY RequeuedType DEF Downgrade, TypeOK
<1>2. \A w \in Workers : [worker[w] EXCEPT !.st = "starting"] \in WorkerRow
  BY Names DEF TypeOK, WorkerRow
<1>3. worker' \in [Workers -> WorkerRow]
  BY <1>2 DEF Downgrade, TypeOK
<1>q. QED
  BY <1>1, <1>3, EndCurrentType, ReleaseType DEF Downgrade, TypeOK

-----------------------------------------------------------------------------
\* Every transaction keeps the tables well typed.

\* Initially the tables are well typed.
LEMMA TypeInit == Init => TypeOK
BY Names, BoundsAssumption
   DEF Init, TypeOK, RunRow, AttemptRow, LeaseRow, WorkerRow, RunStates, WorkerStates,
       OpenWorkerStates

\* Every step of one run keeps the tables well typed.
LEMMA TypeRunStep ==
    ASSUME TypeOK, NEW r \in Runs, RunStep(r)
    PROVE  TypeOK'
<1> USE DEF TypeOK
<1>w. WorkerOf[r] \in Workers
  BY WorkerOfAssumption
<1>1. CASE CreateRun(r)
  BY <1>1, NewRunRowType DEF CreateRun
<1>2. ASSUME NEW p \in BOOLEAN, CreateRunLegacy(r, p) PROVE TypeOK'
  BY <1>2, <1>w, Names, NewRunRowType, SetWorkerType DEF CreateRunLegacy
<1>3. ASSUME NEW e \in Executors, AcquireLease(r, e) PROVE TypeOK'
  BY <1>3, BoundsAssumption DEF AcquireLease, LeaseRow, RunRow
<1>4. ASSUME NEW e \in Executors, TransferLease(r, e) PROVE TypeOK'
  BY <1>4 DEF TransferLease, LeaseRow
<1>5. ASSUME NEW x \in BOOLEAN, NEW o \in BOOLEAN, Heartbeat(r, x, o) PROVE TypeOK'
  <2>1. [lease[r] EXCEPT !.live = TRUE, !.ident = lease[r].ident \/ o] \in LeaseRow
    BY HeartbeatRow, Zenon
  <2>2. lease' = [lease EXCEPT ![r] = [lease[r] EXCEPT !.live = TRUE, !.ident = lease[r].ident \/ o]]
    BY <1>5, Zenon DEF Heartbeat
  <2>q. QED
    BY <1>5, <2>1, <2>2 DEF Heartbeat
<1>6. CASE ReleaseLease(r)
  BY <1>6, ReleaseType DEF ReleaseLease
<1>7. CASE ReleaseExpiredPreaccept(r)
  BY <1>7, ReleaseType DEF ReleaseExpiredPreaccept
<1>8. CASE AdmitClaimed(r)
  <2>1. run' \in [Runs -> RunRow]
    BY <1>8, RunUpdates, Names DEF AdmitClaimed
  <2>2. attempt' \in [Runs -> [Attempts -> AttemptRow]]
    <3>1. attempt[r][run[r].att] \in AttemptRow
      BY <1>8 DEF AdmitClaimed, CanAdmit, AttemptIs
    <3>q. QED
      BY <1>8, <3>1, AttemptUpdates, SetAttemptType DEF AdmitClaimed, CanAdmit, AttemptIs
  <2>q. QED
    BY <1>8, <2>1, <2>2 DEF AdmitClaimed
<1>9. CASE MarkInvoked(r)
  <2>1. run' \in [Runs -> RunRow]
    BY <1>9, RunUpdates, Names DEF MarkInvoked
  <2>2. attempt' \in [Runs -> [Attempts -> AttemptRow]]
    <3>1. attempt[r][run[r].att] \in AttemptRow
      BY <1>9 DEF MarkInvoked, CanInvoke, AttemptIs
    <3>q. QED
      BY <1>9, <3>1, AttemptUpdates, SetAttemptType DEF MarkInvoked, CanInvoke, AttemptIs
  <2>q. QED
    BY <1>9, <2>1, <2>2 DEF MarkInvoked
<1>10. CASE ConfirmStart(r)
  <2>1. lease' \in [Runs -> LeaseRow]
    BY <1>10, LeaseUpdates DEF ConfirmStart
  <2>q. QED
    BY <1>10, <1>w, <2>1, Names, SetWorkerType DEF ConfirmStart
<1>11. CASE RepairRunning(r)
  BY <1>11, DowngradeType DEF RepairRunning
<1>12. CASE ReconcileDeadLease(r)
  BY <1>12, DowngradeType, ReleaseType DEF ReconcileDeadLease
<1>13. CASE MarkTerminationUnconfirmed(r)
  <2>1. lease' \in [Runs -> LeaseRow]
    BY <1>13, LeaseUpdates DEF MarkTerminationUnconfirmed
  <2>2. CASE UNCHANGED <<run, attempt>>
    BY <1>13, <2>1, <2>2 DEF MarkTerminationUnconfirmed
  <2>3. CASE /\ AttemptIs(r, "running")
             /\ run' = [run EXCEPT ![r].st = "settling"]
             /\ attempt' = [attempt EXCEPT ![r][run[r].att].st = "settling"]
    <3>1. run' \in [Runs -> RunRow]
      BY <2>3, RunUpdates, Names
    <3>2. attempt[r][run[r].att] \in AttemptRow
      BY <2>3 DEF AttemptIs
    <3>3. attempt' \in [Runs -> [Attempts -> AttemptRow]]
      BY <2>3, <3>2, AttemptUpdates, SetAttemptType DEF AttemptIs
    <3>q. QED
      BY <1>13, <2>1, <3>1, <3>3 DEF MarkTerminationUnconfirmed
  <2>q. QED
    BY <1>13, <2>2, <2>3 DEF MarkTerminationUnconfirmed
<1>14. CASE RequeueUnconfirmed(r)
  BY <1>14, <1>w, Names, RequeuedType, EndCurrentType, ReleaseType, SetWorkerType
     DEF RequeueUnconfirmed, W, WorkerRow
<1>15. CASE RequeueForRetry(r)
  BY <1>15, RequeuedType, EndCurrentType, ReleaseType DEF RequeueForRetry
<1>16. CASE SwitchProfileAndRequeue(r)
  BY <1>16, <1>w, Names, RequeuedType, EndCurrentType, ReleaseType, SetWorkerType
     DEF SwitchProfileAndRequeue
<1>17. CASE SettleRun(r)
  BY <1>17, RunUpdates, Names DEF SettleRun
<1>18. ASSUME NEW s \in Outcomes, FinalizeRun(r, s) PROVE TypeOK'
  BY <1>18, OutcomesAssumption, TerminatedType, EndCurrentType, ReleaseType DEF FinalizeRun
<1>19. CASE FinalizePaused(r)
  BY <1>19, RunUpdates, Names, EndCurrentType DEF FinalizePaused
<1>20. CASE TransitionPaused(r)
  BY <1>20, RunUpdates, Names DEF TransitionPaused
<1>21. CASE MarkNeedsInput(r)
  BY <1>21, RunUpdates, Names, EndCurrentType DEF MarkNeedsInput
<1>22. CASE ProviderStalled(r)
  BY <1>22, <1>w, RunUpdates, Names, EndCurrentType, ReleaseType, SetWorkerType
     DEF ProviderStalled
<1>23. CASE TransitionQueued(r)
  BY <1>23, RunUpdates, Names DEF TransitionQueued
<1>24. CASE ResumeNeedsInput(r)
  <2>1. ReopenWait(run[r]) \in RunRow
    BY DEF ReopenWait, RunRow
  <2>2. run' \in [Runs -> RunRow]
    BY <1>24, <2>1, RunUpdates, Names DEF ResumeNeedsInput
  <2>q. QED
    BY <1>24, <1>w, <2>2, Names, SetWorkerType DEF ResumeNeedsInput
<1>25. CASE ReopenDirect(r)
  BY <1>25, NewRunRowType DEF ReopenDirect
<1>26. CASE MissingResponse(r)
  BY <1>26, RunUpdates, Names DEF MissingResponse, TerminalStates
<1>27. CASE ExpireQueued(r)
  BY <1>27, TerminatedType, EndCurrentType, ReleaseType DEF ExpireQueued, TerminalStates
<1>q. QED
  BY <1>1, <1>2, <1>3, <1>4, <1>5, <1>6, <1>7, <1>8, <1>9, <1>10, <1>11, <1>12, <1>13,
     <1>14, <1>15, <1>16, <1>17, <1>18, <1>19, <1>20, <1>21, <1>22, <1>23, <1>24,
     <1>25, <1>26, <1>27
     DEF RunStep

\* Every step of one worker keeps the tables well typed.
LEMMA TypeWorkerStep ==
    ASSUME TypeOK, NEW w \in Workers, WorkerStep(w)
    PROVE  TypeOK'
<1> USE DEF TypeOK
<1>1. ASSUME NEW e \in Executors, NEW s \in BOOLEAN, ClaimNext(w, e, s) PROVE TypeOK'
  <2>1. PICK r \in Claimable(w), a \in Attempts : ClaimWrites(w, r, a)
    BY <1>1 DEF ClaimNext
  <2>r. r \in Runs
    BY DEF Claimable
  <2>2. ASSUME NEW row \in RunRow
        PROVE  [row EXCEPT !.st = "claimed", !.att = a, !.inv = 0, !.due = TRUE] \in RunRow
    <3>1. a \in 0 .. MaxAttempts
      BY Names
    <3>q. QED
      BY <3>1, Names DEF RunRow
  <2>3. [st |-> "claimed", bound |-> lease[r].st = "active", inv |-> FALSE] \in AttemptRow
    BY Names DEF AttemptRow
  <2>4. [lease[r] EXCEPT !.att = a, !.live = TRUE] \in LeaseRow
    BY <2>r, Names DEF LeaseRow
  <2>5. run' \in [Runs -> RunRow]
    BY <2>1, <2>r, <2>2 DEF ClaimWrites
  <2>6. attempt' \in [Runs -> [Attempts -> AttemptRow]]
    BY <2>1, <2>r, <2>3, SetAttemptType DEF ClaimWrites
  <2>7. lease' \in [Runs -> LeaseRow]
    BY <2>1, <2>r, <2>4 DEF ClaimWrites
  <2>q. QED
    BY <2>1, <2>5, <2>6, <2>7, Names, SetWorkerType DEF ClaimWrites
<1>2. ASSUME NEW s \in Outcomes, CancelPending(w, s) PROVE TypeOK'
  <2>1. run' \in [Runs -> RunRow]
    BY <1>2, OutcomesAssumption, TerminatedType DEF CancelPending
  <2>2. \A row \in AttemptRow : Ended(row) \in AttemptRow
    BY Names DEF Ended, AttemptRow
  <2>3. attempt' \in [Runs -> [Attempts -> AttemptRow]]
    BY <1>2, <2>2 DEF CancelPending
  <2>q. QED
    BY <1>2, <2>1, <2>3, ReleaseType DEF CancelPending
<1>3. ASSUME NEW s \in WorkerWrites, UpdateWorkerState(w, s) PROVE TypeOK'
  BY <1>3, WorkerWritesAssumption, SetWorkerType DEF UpdateWorkerState, WorkerStates
<1>4. CASE BeginTermination(w)
  BY <1>4, Names, SetWorkerType DEF BeginTermination
<1>5. CASE FailTermination(w)
  BY <1>5, Names, SetWorkerType DEF FailTermination
<1>6. CASE CompleteTermination(w)
  BY <1>6, Names, SetWorkerType DEF CompleteTermination
<1>q. QED
  BY <1>1, <1>2, <1>3, <1>4, <1>5, <1>6 DEF WorkerStep

\* Every step keeps the tables well typed.
LEMMA TypeNext == TypeOK /\ [Next]_vars => TypeOK'
<1> SUFFICES ASSUME TypeOK, [Next]_vars PROVE TypeOK'
  OBVIOUS
<1>1. ASSUME NEW r \in Runs, RunStep(r) PROVE TypeOK'
  BY <1>1, TypeRunStep
<1>2. ASSUME NEW r \in Runs, ClockStep(r) PROVE TypeOK'
  <2>1. CASE LeaseExpires(r)
    BY <2>1, LeaseUpdates DEF LeaseExpires, TypeOK
  <2>2. CASE RetryDue(r)
    BY <2>2, RunUpdates, Names DEF RetryDue, TypeOK
  <2>3. CASE QueueDeadlinePasses(r)
    BY <2>3, RunUpdates, Names DEF QueueDeadlinePasses, TypeOK
  <2>q. QED
    BY <1>2, <2>1, <2>2, <2>3 DEF ClockStep
<1>3. ASSUME NEW w \in Workers, WorkerStep(w) PROVE TypeOK'
  BY <1>3, TypeWorkerStep
<1>4. CASE ReconcileInvalidRunning
  BY <1>4, DowngradeType DEF ReconcileInvalidRunning
<1>5. CASE UNCHANGED vars
  BY <1>5 DEF vars, TypeOK
<1>q. QED
  BY <1>1, <1>2, <1>3, <1>4, <1>5 DEF Next

\* The ledger is well typed: every column of runs, run_attempts, host_run_leases
\* and workers stays within its values.
THEOREM TypeCorrect == Spec => []TypeOK
BY TypeInit, TypeNext, PTL DEF Spec

HIDE DEF Attempts

-----------------------------------------------------------------------------
(* The inductive invariant.                                                *)

\* The part of the invariant that is about the rows of one run.
AttemptRows(r) ==
    /\ \A a \in Attempts : Open(attempt[r][a]) => a = run[r].att
    /\ run[r].st \in {"none", "queued", "needs_input"} =>
           \A a \in Attempts : ~Open(attempt[r][a])

StepRows(r) ==
    /\ run[r].st = "claimed"  => AttemptIs(r, "claimed") \/ AttemptIs(r, "ended")
    /\ run[r].st = "admitted" => AttemptIs(r, "admitted") \/ AttemptIs(r, "ended")
    /\ run[r].st = "running"  => AttemptIs(r, "running") \/ AttemptIs(r, "ended")
    /\ run[r].st = "settling" => \/ AttemptIs(r, "running")
                                \/ AttemptIs(r, "settling")
                                \/ AttemptIs(r, "ended")

RunRows(r) ==
    /\ run[r].st = "running" => ~run[r].wait /\ run[r].inv = run[r].att
    /\ run[r].inv \in {0, run[r].att}

LeaseRows(r) ==
    /\ lease[r].st = "active" => run[r].st # "none" /\ lease[r].att = run[r].att
    /\ run[r].st \in TerminalStates /\ lease[r].st = "active" => lease[r].att = 0
    /\ lease[r].st = "active" /\ lease[r].start = "confirmed" =>
           lease[r].att \in Attempts /\ attempt[r][lease[r].att].inv

RowInv(r) == AttemptRows(r) /\ StepRows(r) /\ RunRows(r) /\ LeaseRows(r)

\* The invariant is a conjunction over the runs, and exclusion.
LEMMA LedgerByRows ==
    LedgerInv <=> TypeOK /\ WorkerExclusive /\ \A r \in Runs : RowInv(r)
BY DEF LedgerInv, LeaseFencesCurrentAttempt, OneOpenAttempt, WaitingIsQuiet, AttemptInStep,
       RunningLeftQueueWait, TerminalReleasesExecution, ConfirmedWasInvoked,
       RowInv, AttemptRows, StepRows, RunRows, LeaseRows

\* A run whose rows do not change keeps its part of the invariant.
LEMMA Frame ==
    ASSUME NEW q \in Runs, RowInv(q),
           run'[q] = run[q], attempt'[q] = attempt[q], lease'[q] = lease[q]
    PROVE  RowInv(q)'
BY DEF RowInv, AttemptRows, StepRows, RunRows, LeaseRows, AttemptIs, Open

\* A worker gets a second run only by a step into a dispatched state.
LEMMA ExclusiveFrame ==
    ASSUME WorkerExclusive,
           \A q \in Runs : run'[q].st \in DispatchStates => run[q].st \in DispatchStates
    PROVE  WorkerExclusive'
BY DEF WorkerExclusive

\* Ending a row keeps its invocation and leaves it closed.
LEMMA EndedFacts ==
    ASSUME NEW row \in AttemptRow
    PROVE  /\ Ended(row).inv = row.inv
           /\ ~Open(Ended(row))
           /\ Ended(row).st = IF row.st = "none" THEN "none" ELSE "ended"
BY DEF Ended, Open, AttemptRow

\* What EndCurrent does to the rows of one run.
LEMMA EndCurrentFacts ==
    ASSUME TypeOK, NEW R, attempt' = EndCurrent(R), NEW q \in Runs, NEW a \in Attempts
    PROVE  attempt'[q][a] = IF q \in R /\ a = run[q].att
                            THEN Ended(attempt[q][a]) ELSE attempt[q][a]
BY DEF EndCurrent, TypeOK

\* What Release does to the lease of one run.
LEMMA ReleaseFacts ==
    ASSUME TypeOK, NEW R, lease' = Release(R), NEW q \in Runs, lease'[q].st = "active"
    PROVE  q \notin R /\ lease'[q] = lease[q]
BY DEF Release, TypeOK, LeaseRow

\* The fields of a requeued row.
LEMMA RequeuedFields ==
    ASSUME NEW row \in RunRow, NEW x, x = Requeued(row, TRUE) \/ x = Requeued(row, FALSE)
    PROVE  x.st = "queued" /\ x.att = 0 /\ x.inv = 0
BY DEF Requeued, ReopenWait, RunRow

\* The fields of a terminal row.
LEMMA TerminatedFields ==
    ASSUME NEW row \in RunRow, NEW s \in TerminalStates
    PROVE  /\ Terminated(row, s).st = s
           /\ Terminated(row, s).att = row.att
           /\ Terminated(row, s).inv = row.inv
BY DEF Terminated, RunRow

\* A run that is requeued after its current attempt ended and its lease was
\* released has its part of the invariant.
LEMMA RequeuedRow ==
    ASSUME TypeOK, NEW R, NEW q \in R, q \in Runs, RowInv(q), attempt' = EndCurrent(R),
           lease'[q].st # "active",
           \/ run'[q] = Requeued(run[q], TRUE)
           \/ run'[q] = Requeued(run[q], FALSE)
    PROVE  RowInv(q)'
<1>1. run'[q].st = "queued" /\ run'[q].att = 0 /\ run'[q].inv = 0
  BY RequeuedFields DEF TypeOK
<1>2. \A a \in Attempts : ~Open(attempt'[q][a])
  BY EndCurrentFacts, EndedFacts DEF TypeOK, RowInv, AttemptRows
<1>q. QED
  BY <1>1, <1>2 DEF RowInv, AttemptRows, StepRows, RunRows, LeaseRows, TerminalStates

\* A run that becomes terminal while its lease is released has its part of the
\* invariant, whether its attempts end or not.
LEMMA TerminatedRow ==
    ASSUME TypeOK, NEW q \in Runs, RowInv(q), NEW s \in TerminalStates,
           run'[q] = Terminated(run[q], s),
           \A a \in Attempts : Open(attempt'[q][a]) => Open(attempt[q][a]),
           lease'[q].st # "active"
    PROVE  RowInv(q)'
<1>1. run'[q].st = s /\ run'[q].att = run[q].att /\ run'[q].inv = run[q].inv
  BY TerminatedFields DEF TypeOK
<1>q. QED
  BY <1>1 DEF RowInv, AttemptRows, StepRows, RunRows, LeaseRows, TerminalStates

\* A change of the lease alone keeps the attempt and run parts.
LEMMA LeaseOnly ==
    ASSUME NEW q \in Runs, RowInv(q), run'[q] = run[q], attempt'[q] = attempt[q],
           LeaseRows(q)'
    PROVE  RowInv(q)'
BY DEF RowInv, AttemptRows, StepRows, RunRows, AttemptIs, Open

\* The repair of unproven running runs preserves the invariant.
LEMMA DowngradeStep ==
    ASSUME LedgerInv, NEW R, R \subseteq Runs, Downgrade(R)
    PROVE  WorkerExclusive' /\ \A q \in Runs : RowInv(q)'
<1>t. TypeOK /\ WorkerExclusive /\ \A q \in Runs : RowInv(q)
  BY LedgerByRows
<1>1. ASSUME NEW q \in R PROVE RowInv(q)'
  <2>1. lease'[q].st # "active"
    BY <1>t, ReleaseFacts DEF Downgrade
  <2>2. run'[q] = Requeued(run[q], TRUE)
    BY DEF Downgrade
  <2>q. QED
    BY <1>t, <2>1, <2>2, RequeuedRow DEF Downgrade
<1>2. ASSUME NEW q \in Runs \ R PROVE RowInv(q)'
  <2>1. run'[q] = run[q] /\ lease'[q] = lease[q]
    BY <1>t DEF Downgrade, Release
  <2>2. attempt'[q] = attempt[q]
    BY <1>t DEF Downgrade, EndCurrent, TypeOK
  <2>q. QED
    BY <1>t, <2>1, <2>2, Frame
<1>3. ASSUME NEW q \in Runs, run'[q].st \in DispatchStates PROVE run[q].st \in DispatchStates
  <2>1. CASE q \in R
    <3>1. run'[q].st = "queued"
      BY <1>t, <2>1, RequeuedFields DEF Downgrade, TypeOK
    <3>q. QED
      BY <1>3, <3>1 DEF DispatchStates
  <2>2. CASE q \notin R
    BY <1>3, <2>2 DEF Downgrade
  <2>q. QED
    BY <2>1, <2>2
<1>q. QED
  BY <1>t, <1>1, <1>2, <1>3, ExclusiveFrame

-----------------------------------------------------------------------------
\* One step per transaction on the rows of one run.

\* A step that moves the run and its current attempt together, from one matching
\* pair of states to the next.
LEMMA CurrentRow ==
    ASSUME TypeOK, NEW r \in Runs, RowInv(r), run[r].att \in Attempts,
           run'[r].att = run[r].att, run'[r].inv \in {0, run[r].att},
           run'[r].st \in {"admitted", "running", "settling"},
           run'[r].st = "running" => ~run'[r].wait /\ run'[r].inv = run[r].att,
           attempt'[r][run[r].att].st = run'[r].st,
           \A a \in Attempts : a # run[r].att => attempt'[r][a] = attempt[r][a],
           attempt[r][run[r].att].inv => attempt'[r][run[r].att].inv,
           lease'[r].st = lease[r].st, lease'[r].att = lease[r].att,
           lease'[r].start = "confirmed" => lease[r].start = "confirmed"
    PROVE  RowInv(r)'
<1>1. AttemptRows(r)'
  BY DEF RowInv, AttemptRows
<1>2. StepRows(r)' /\ RunRows(r)'
  BY DEF StepRows, AttemptIs, RunRows
<1>3. LeaseRows(r)'
  BY DEF RowInv, LeaseRows, TerminalStates
<1>q. QED
  BY <1>1, <1>2, <1>3 DEF RowInv

\* A step that changes the run row alone keeps the lease part of the invariant.
LEMMA RunOnly ==
    ASSUME TypeOK, NEW r \in Runs, RowInv(r), UNCHANGED <<attempt, lease>>,
           run'[r].att = run[r].att, run'[r].inv = run[r].inv,
           \/ run'[r].st \in {"paused", "settling"} /\ run[r].st \in DispatchStates
           \/ run'[r].st = "queued" /\ run[r].st = "needs_input"
           \/ run'[r].st = "failed" /\ run[r].st = "completed",
           run'[r].st = "settling" => run[r].st = "running"
    PROVE  RowInv(r)'
BY DEF RowInv, AttemptRows, StepRows, RunRows, LeaseRows, AttemptIs, TerminalStates,
       DispatchStates

\* What remains to be shown of a step that changes the rows of run r only.
LEMMA OneRunStep ==
    ASSUME LedgerInv, NEW r \in Runs, RowInv(r)',
           run'[r].st \in DispatchStates => run[r].st \in DispatchStates,
           \A q \in Runs \ {r} :
               run'[q] = run[q] /\ attempt'[q] = attempt[q] /\ lease'[q] = lease[q]
    PROVE  WorkerExclusive' /\ \A q \in Runs : RowInv(q)'
BY LedgerByRows, Frame, ExclusiveFrame

\* A run gets its rows by a step of its own.
LEMMA LedgerRunStep ==
    ASSUME LedgerInv, NEW r \in Runs, RunStep(r)
    PROVE  WorkerExclusive' /\ \A q \in Runs : RowInv(q)'
<1> DEFINE Others == \A q \in Runs \ {r} :
               run'[q] = run[q] /\ attempt'[q] = attempt[q] /\ lease'[q] = lease[q]
<1> DEFINE Goal == WorkerExclusive' /\ \A q \in Runs : RowInv(q)'
<1>t. TypeOK /\ RowInv(r) /\ WorkerExclusive
  BY LedgerByRows
<1>f. ASSUME RowInv(r)', Others, run'[r].st \in DispatchStates => run[r].st \in DispatchStates
      PROVE  Goal
  BY <1>f, OneRunStep
<1>e. ASSUME NEW R, R = {r}, attempt' = EndCurrent(R)
      PROVE  \A q \in Runs \ {r} : attempt'[q] = attempt[q]
  BY <1>e, <1>t DEF EndCurrent, TypeOK
<1>c. ASSUME attempt' = EndCurrent({r}), NEW a \in Attempts
      PROVE  /\ Open(attempt'[r][a]) => Open(attempt[r][a]) /\ a # run[r].att
             /\ attempt'[r][a].inv = attempt[r][a].inv
  <2>1. attempt'[r][a] = IF a = run[r].att THEN Ended(attempt[r][a]) ELSE attempt[r][a]
    BY <1>c, <1>t, EndCurrentFacts
  <2>2. attempt[r][a] \in AttemptRow
    BY <1>t DEF TypeOK
  <2>q. QED
    BY <2>1, <2>2, EndedFacts
<1>l. ASSUME NEW R, R = {r}, lease' = Release(R)
      PROVE  (\A q \in Runs \ {r} : lease'[q] = lease[q]) /\ lease'[r].st # "active"
  BY <1>l, <1>t DEF Release, TypeOK, LeaseRow
<1>1. ASSUME run'[r] = NewRunRow, UNCHANGED <<attempt, lease>>, Others,
             run[r].st \in {"none", "needs_input"}, lease[r].st # "active"
      PROVE  Goal
  <2>1. RowInv(r)'
    BY <1>1, <1>t DEF NewRunRow, RowInv, AttemptRows, StepRows, RunRows, LeaseRows,
                      TerminalStates
  <2>q. QED
    BY <1>1, <2>1, <1>f DEF NewRunRow, DispatchStates
<1>2. CASE CreateRun(r)
  BY <1>2, <1>t, <1>1 DEF CreateRun, IsNextRun, TypeOK, RowInv, LeaseRows
<1>3. ASSUME NEW p \in BOOLEAN, CreateRunLegacy(r, p) PROVE Goal
  BY <1>3, <1>t, <1>1 DEF CreateRunLegacy, IsNextRun, TypeOK, RowInv, LeaseRows
<1>4. CASE ReopenDirect(r)
  BY <1>4, <1>t, <1>1 DEF ReopenDirect, TypeOK
<1>5. ASSUME UNCHANGED <<run, attempt>>, LeaseRows(r)', Others PROVE Goal
  BY <1>5, <1>t, <1>f, LeaseOnly
<1>6. ASSUME NEW e \in Executors, AcquireLease(r, e) PROVE Goal
  <2>1. LeaseRows(r)' /\ Others
    BY <1>6, <1>t DEF AcquireLease, LeaseRows, TypeOK, TerminalStates
  <2>q. QED
    BY <1>5, <1>6, <2>1 DEF AcquireLease
<1>7. ASSUME NEW e \in Executors, TransferLease(r, e) PROVE Goal
  <2>1. LeaseRows(r)' /\ Others
    BY <1>7, <1>t DEF TransferLease, PreacceptOnly, RowInv, LeaseRows, TypeOK, LeaseRow
  <2>q. QED
    BY <1>5, <1>7, <2>1 DEF TransferLease
<1>8. ASSUME NEW x \in BOOLEAN, NEW o \in BOOLEAN, Heartbeat(r, x, o) PROVE Goal
  <2>1. LeaseRows(r)' /\ Others
    BY <1>8, <1>t DEF Heartbeat, RowInv, LeaseRows, TypeOK, LeaseRow
  <2>q. QED
    BY <1>5, <1>8, <2>1 DEF Heartbeat
<1>9. ASSUME lease' = Release({r}), UNCHANGED <<run, attempt>> PROVE Goal
  <2>1. LeaseRows(r)' /\ Others
    BY <1>9, <1>l DEF LeaseRows
  <2>q. QED
    BY <1>5, <1>9, <2>1
<1>10. CASE ReleaseLease(r) \/ ReleaseExpiredPreaccept(r)
  BY <1>9, <1>10 DEF ReleaseLease, ReleaseExpiredPreaccept
<1>11. CASE AdmitClaimed(r)
  <2>1. run[r].att \in Attempts /\ run[r].st = "claimed"
    BY <1>11 DEF AdmitClaimed, CanAdmit, AttemptIs
  <2>2. run'[r] = [run[r] EXCEPT !.st = "admitted"]
    BY <1>11, <1>t DEF AdmitClaimed, CanAdmit, TypeOK
  <2>3. /\ attempt'[r][run[r].att] = [attempt[r][run[r].att] EXCEPT !.st = "admitted", !.bound = TRUE]
        /\ \A a \in Attempts : a # run[r].att => attempt'[r][a] = attempt[r][a]
    BY <1>11, <1>t, <2>1 DEF AdmitClaimed, CanAdmit, TypeOK
  <2>4. /\ run'[r].st = "admitted" /\ run'[r].att = run[r].att /\ run'[r].inv = run[r].inv
        /\ attempt'[r][run[r].att].st = "admitted"
        /\ attempt'[r][run[r].att].inv = attempt[r][run[r].att].inv
    BY <1>t, <2>1, <2>2, <2>3 DEF TypeOK, RunRow, AttemptRow
  <2>5. RowInv(r)'
    BY <1>11, <1>t, <2>1, <2>3, <2>4, CurrentRow DEF AdmitClaimed, CanAdmit, RowInv, RunRows
  <2>6. Others
    BY <1>11, <1>t DEF AdmitClaimed, CanAdmit, TypeOK
  <2>q. QED
    BY <1>f, <2>1, <2>5, <2>6 DEF DispatchStates
<1>12. CASE MarkInvoked(r)
  <2>1. run[r].att \in Attempts /\ run[r].st = "admitted"
    BY <1>12 DEF MarkInvoked, CanInvoke, AttemptIs
  <2>2. /\ run'[r].st = "running" /\ run'[r].att = run[r].att /\ run'[r].inv = run[r].att
        /\ ~run'[r].wait
    BY <1>12, <1>t DEF MarkInvoked, CanInvoke, TypeOK, RunRow
  <2>3. /\ attempt'[r][run[r].att] = [attempt[r][run[r].att] EXCEPT !.st = "running", !.inv = TRUE]
        /\ \A a \in Attempts : a # run[r].att => attempt'[r][a] = attempt[r][a]
    BY <1>12, <1>t, <2>1 DEF MarkInvoked, CanInvoke, TypeOK
  <2>4. attempt'[r][run[r].att].st = "running" /\ attempt'[r][run[r].att].inv
    BY <1>t, <2>1, <2>3 DEF TypeOK, AttemptRow
  <2>5. RowInv(r)'
    BY <1>12, <1>t, <2>1, <2>2, <2>3, <2>4, CurrentRow DEF MarkInvoked, CanInvoke
  <2>6. Others
    BY <1>12, <1>t DEF MarkInvoked, CanInvoke, TypeOK
  <2>q. QED
    BY <1>f, <2>1, <2>5, <2>6 DEF DispatchStates
<1>13. CASE ConfirmStart(r)
  <2>1. LeaseRows(r)' /\ Others
    BY <1>13, <1>t DEF ConfirmStart, CanConfirm, RunningGenerationExact, AttemptIs, LeaseHolds,
                       RowInv, LeaseRows, TypeOK, LeaseRow, TerminalStates
  <2>q. QED
    BY <1>5, <1>13, <2>1 DEF ConfirmStart, CanConfirm
<1>14. CASE RepairRunning(r)
  BY <1>14, DowngradeStep DEF RepairRunning, Unproven
<1>15. CASE ReconcileDeadLease(r)
  BY <1>9, <1>15, DowngradeStep DEF ReconcileDeadLease
<1>16. CASE MarkTerminationUnconfirmed(r)
  <2>1. /\ lease'[r].st = lease[r].st /\ lease'[r].att = lease[r].att
        /\ lease'[r].start = "termination_unconfirmed"
        /\ \A q \in Runs \ {r} : lease'[q] = lease[q]
    BY <1>16, <1>t DEF MarkTerminationUnconfirmed, TypeOK, LeaseRow
  <2>2. CASE UNCHANGED <<run, attempt>>
    <3>1. LeaseRows(r)' /\ Others
      BY <1>t, <2>1, <2>2 DEF RowInv, LeaseRows
    <3>q. QED
      BY <1>5, <2>2, <3>1
  <2>3. CASE /\ AttemptIs(r, "running") /\ run[r].st = "running"
             /\ run' = [run EXCEPT ![r].st = "settling"]
             /\ attempt' = [attempt EXCEPT ![r][run[r].att].st = "settling"]
    <3>1. run[r].att \in Attempts
      BY <2>3 DEF AttemptIs
    <3>2. run'[r].st = "settling" /\ run'[r].att = run[r].att /\ run'[r].inv = run[r].inv
      BY <1>t, <2>3 DEF TypeOK, RunRow
    <3>3. /\ attempt'[r][run[r].att] = [attempt[r][run[r].att] EXCEPT !.st = "settling"]
          /\ \A a \in Attempts : a # run[r].att => attempt'[r][a] = attempt[r][a]
      BY <1>t, <2>3, <3>1 DEF TypeOK
    <3>4. /\ attempt'[r][run[r].att].st = "settling"
          /\ attempt'[r][run[r].att].inv = attempt[r][run[r].att].inv
      BY <1>t, <3>1, <3>3 DEF TypeOK, AttemptRow
    <3>5. RowInv(r)'
      BY <1>t, <2>1, <3>1, <3>2, <3>3, <3>4, CurrentRow DEF RowInv, RunRows
    <3>6. Others
      BY <1>t, <2>1, <2>3 DEF TypeOK
    <3>q. QED
      BY <1>f, <2>3, <3>5, <3>6 DEF DispatchStates
  <2>q. QED
    BY <1>16, <2>2, <2>3 DEF MarkTerminationUnconfirmed
<1>17. ASSUME run'[r] = Requeued(run[r], TRUE) \/ run'[r] = Requeued(run[r], FALSE),
              \A q \in Runs \ {r} : run'[q] = run[q],
              attempt' = EndCurrent({r}), lease' = Release({r})
       PROVE  Goal
  <2>1. RowInv(r)'
    BY <1>17, <1>t, <1>l, RequeuedRow
  <2>2. run'[r].st = "queued"
    BY <1>17, <1>t, RequeuedFields DEF TypeOK
  <2>q. QED
    BY <1>17, <1>e, <1>f, <1>l, <2>1, <2>2 DEF DispatchStates
<1>18. CASE RequeueUnconfirmed(r)
  BY <1>17, <1>18, <1>t DEF RequeueUnconfirmed, TypeOK
<1>19. CASE SwitchProfileAndRequeue(r)
  BY <1>17, <1>19, <1>t DEF SwitchProfileAndRequeue, TypeOK
<1>20. CASE RequeueForRetry(r)
  <2>1. CASE lease[r].att = run[r].att
    BY <1>17, <1>20, <1>t, <2>1 DEF RequeueForRetry, CanRequeue, TypeOK
  <2>2. CASE lease[r].att # run[r].att
    <3>1. lease' = lease /\ lease[r].st # "active"
      BY <1>20, <1>t, <2>2 DEF RequeueForRetry, CanRequeue, RowInv, LeaseRows
    <3>2. lease' = Release({r})
      BY <1>t, <3>1 DEF Release, TypeOK
    <3>q. QED
      BY <1>17, <1>20, <1>t, <3>2 DEF RequeueForRetry, CanRequeue, TypeOK
  <2>q. QED
    BY <2>1, <2>2
<1>21. ASSUME NEW s \in TerminalStates, run' = [run EXCEPT ![r] = Terminated(run[r], s)],
              attempt' = EndCurrent({r}), lease' = Release({r})
       PROVE  Goal
  <2>1. \A a \in Attempts : Open(attempt'[r][a]) => Open(attempt[r][a])
    BY <1>21, <1>c
  <2>2. run'[r] = Terminated(run[r], s) /\ \A q \in Runs \ {r} : run'[q] = run[q]
    BY <1>21, <1>t DEF TypeOK
  <2>3. RowInv(r)'
    BY <1>21, <1>t, <1>l, <2>1, <2>2, TerminatedRow
  <2>4. run'[r].st \notin DispatchStates
    BY <1>t, <2>2, TerminatedFields DEF TypeOK, TerminalStates, DispatchStates
  <2>q. QED
    BY <1>21, <1>e, <1>f, <1>l, <2>2, <2>3, <2>4
<1>22. ASSUME NEW s \in Outcomes, FinalizeRun(r, s) PROVE Goal
  BY <1>21, <1>22, OutcomesAssumption DEF FinalizeRun
<1>23. CASE ExpireQueued(r)
  BY <1>21, <1>23 DEF ExpireQueued, TerminalStates
<1>24. CASE \/ SettleRun(r) \/ TransitionPaused(r) \/ TransitionQueued(r) \/ ResumeNeedsInput(r)
            \/ MissingResponse(r)
  <2>1. /\ run'[r].att = run[r].att /\ run'[r].inv = run[r].inv
        /\ run'[r].st = "settling" => run[r].st = "running"
        /\ \/ run'[r].st \in {"paused", "settling"} /\ run[r].st \in DispatchStates
           \/ run'[r].st = "queued" /\ run[r].st = "needs_input"
           \/ run'[r].st = "failed" /\ run[r].st = "completed"
    <3>1. CASE SettleRun(r)
      BY <1>t, <3>1 DEF SettleRun, DispatchStates, TypeOK, RunRow
    <3>2. CASE TransitionPaused(r)
      BY <1>t, <3>2 DEF TransitionPaused, TypeOK, RunRow
    <3>3. CASE TransitionQueued(r)
      BY <1>t, <3>3 DEF TransitionQueued, TypeOK, RunRow
    <3>4. CASE ResumeNeedsInput(r)
      BY <1>t, <3>4 DEF ResumeNeedsInput, ReopenWait, TypeOK, RunRow
    <3>5. CASE MissingResponse(r)
      BY <1>t, <3>5 DEF MissingResponse, TypeOK, RunRow
    <3>q. QED
      BY <1>24, <3>1, <3>2, <3>3, <3>4, <3>5
  <2>2. Others /\ UNCHANGED <<attempt, lease>>
    BY <1>24, <1>t DEF SettleRun, TransitionPaused, TransitionQueued, ResumeNeedsInput,
                          MissingResponse, TypeOK
  <2>q. QED
    BY <1>f, <1>t, <2>1, <2>2, RunOnly DEF DispatchStates
<1>25. ASSUME run[r].st \in DispatchStates, run'[r].st \in {"paused", "needs_input"},
              run'[r].att = run[r].att, run'[r].inv = run[r].inv,
              \A q \in Runs \ {r} : run'[q] = run[q] /\ lease'[q] = lease[q],
              attempt' = EndCurrent({r}), lease'[r] = lease[r] \/ lease'[r].st # "active"
       PROVE  Goal
  <2>1. \A a \in Attempts : ~Open(attempt'[r][a]) /\ attempt'[r][a].inv = attempt[r][a].inv
    BY <1>25, <1>c, <1>t DEF RowInv, AttemptRows
  <2>2. RowInv(r)'
    BY <1>25, <1>t, <2>1 DEF RowInv, AttemptRows, StepRows, RunRows, LeaseRows, TerminalStates
  <2>q. QED
    BY <1>25, <1>e, <1>f, <2>2
<1>26. CASE FinalizePaused(r)
  BY <1>25, <1>26, <1>t DEF FinalizePaused, TypeOK, RunRow
<1>27. CASE MarkNeedsInput(r)
  BY <1>25, <1>27, <1>t DEF MarkNeedsInput, TypeOK, RunRow, DispatchStates
<1>28. CASE ProviderStalled(r)
  BY <1>25, <1>28, <1>l, <1>t DEF ProviderStalled, TypeOK, RunRow, DispatchStates
<1>q. QED
  BY <1>2, <1>3, <1>4, <1>6, <1>7, <1>8, <1>10, <1>11, <1>12, <1>13, <1>14, <1>15, <1>16,
     <1>18, <1>19, <1>20, <1>22, <1>23, <1>24, <1>26, <1>27, <1>28
     DEF RunStep

\* The steps of one worker.
LEMMA LedgerWorkerStep ==
    ASSUME LedgerInv, NEW w \in Workers, WorkerStep(w)
    PROVE  WorkerExclusive' /\ \A q \in Runs : RowInv(q)'
<1> DEFINE Goal == WorkerExclusive' /\ \A q \in Runs : RowInv(q)'
<1>t. TypeOK /\ WorkerExclusive /\ \A q \in Runs : RowInv(q)
  BY LedgerByRows
<1>f. ASSUME UNCHANGED <<run, attempt, lease>> PROVE Goal
  BY <1>f, <1>t, Frame, ExclusiveFrame
<1>1. ASSUME NEW e \in Executors, NEW s \in BOOLEAN, ClaimNext(w, e, s) PROVE Goal
  <2>1. PICK r \in Claimable(w), a \in Attempts :
            ClaimGuard(w, e, s, r, a) /\ ClaimWrites(w, r, a)
    BY <1>1 DEF ClaimNext
  <2>r. r \in Runs /\ WorkerOf[r] = w /\ run[r].st = "queued" /\ RowInv(r)
    BY <1>t DEF Claimable
  <2>2. \A q \in Runs \ {r} :
            run'[q] = run[q] /\ attempt'[q] = attempt[q] /\ lease'[q] = lease[q]
    BY <1>t, <2>1, <2>r DEF ClaimWrites, TypeOK
  <2>3. run'[r].st = "claimed" /\ run'[r].att = a /\ run'[r].inv = 0
    BY <1>t, <2>1, <2>r DEF ClaimWrites, TypeOK, RunRow
  <2>4. /\ attempt'[r][a].st = "claimed"
        /\ \A b \in Attempts : b # a => attempt'[r][b] = attempt[r][b]
    BY <1>t, <2>1, <2>r DEF ClaimWrites, TypeOK
  <2>5. lease'[r].st = "active" => lease'[r].att = a /\ lease'[r].start = "reserved"
    BY <1>t, <2>1, <2>r DEF ClaimWrites, ClaimGuard, PreacceptOnly, TypeOK, LeaseRow
  <2>6. RowInv(r)'
    BY <2>r, <2>3, <2>4, <2>5
       DEF RowInv, AttemptRows, StepRows, AttemptIs, RunRows, LeaseRows, TerminalStates
  <2>7. \A q \in Runs : WorkerOf[q] = w => run[q].st \notin DispatchStates
    BY <2>1 DEF ClaimGuard, Blocking, StatelessWait, DispatchStates
  <2>8. WorkerExclusive'
    BY <1>t, <2>r, <2>2, <2>7 DEF WorkerExclusive
  <2>q. QED
    BY <1>t, <2>2, <2>6, <2>8, Frame
<1>2. ASSUME NEW s \in Outcomes, CancelPending(w, s) PROVE Goal
  <2> DEFINE Cancelled == {q \in Runs : WorkerOf[q] = w /\ run[q].st \in {"queued", "running"}}
  <2>1. ASSUME NEW q \in Runs, NEW a \in Attempts
        PROVE  /\ Open(attempt'[q][a]) => Open(attempt[q][a])
               /\ attempt'[q][a].inv = attempt[q][a].inv
               /\ attempt'[q][a].st \in {attempt[q][a].st, "ended"}
    <3>1. attempt[q][a] \in AttemptRow
      BY <1>t DEF TypeOK
    <3>2. attempt'[q][a] = attempt[q][a] \/ attempt'[q][a] = Ended(attempt[q][a])
      BY <1>2 DEF CancelPending
    <3>q. QED
      BY <3>1, <3>2, EndedFacts DEF Open
  <2>2. ASSUME NEW q \in Cancelled PROVE RowInv(q)' /\ run'[q].st \notin DispatchStates
    <3>1. lease'[q].st # "active"
      BY <1>2, <1>t, ReleaseFacts DEF CancelPending
    <3>2. run'[q] = Terminated(run[q], s)
      BY <1>2 DEF CancelPending
    <3>3. run'[q].st \notin DispatchStates
      BY <1>t, <3>2, OutcomesAssumption, TerminatedFields DEF TypeOK, TerminalStates, DispatchStates
    <3>q. QED
      BY <1>t, <2>1, <3>1, <3>2, <3>3, OutcomesAssumption, TerminatedRow
  <2>3. ASSUME NEW q \in Runs \ Cancelled PROVE RowInv(q)' /\ run'[q] = run[q]
    <3>1. run'[q] = run[q] /\ lease'[q] = lease[q]
      BY <1>2 DEF CancelPending, Release
    <3>2. AttemptRows(q)' /\ RunRows(q)' /\ LeaseRows(q)'
      BY <1>t, <2>1, <3>1 DEF RowInv, AttemptRows, RunRows, LeaseRows
    <3>3. StepRows(q)'
      BY <1>t, <2>1, <3>1 DEF RowInv, StepRows, AttemptIs
    <3>q. QED
      BY <3>1, <3>2, <3>3 DEF RowInv
  <2>q. QED
    BY <1>t, <2>2, <2>3, ExclusiveFrame
<1>3. CASE \/ \E s \in WorkerWrites : UpdateWorkerState(w, s)
           \/ BeginTermination(w) \/ FailTermination(w) \/ CompleteTermination(w)
  BY <1>f, <1>3 DEF UpdateWorkerState, BeginTermination, FailTermination, CompleteTermination
<1>q. QED
  BY <1>1, <1>2, <1>3 DEF WorkerStep

\* The invariant is inductive.
LEMMA LedgerNext == LedgerInv /\ [Next]_vars => LedgerInv'
<1> SUFFICES ASSUME LedgerInv, [Next]_vars PROVE LedgerInv'
  OBVIOUS
<1> DEFINE Goal == WorkerExclusive' /\ \A q \in Runs : RowInv(q)'
<1>t. TypeOK /\ WorkerExclusive /\ \A q \in Runs : RowInv(q)
  BY LedgerByRows
<1>1. TypeOK'
  BY <1>t, TypeNext
<1>2. ASSUME NEW r \in Runs, RunStep(r) PROVE Goal
  BY <1>2, LedgerRunStep
<1>3. ASSUME NEW r \in Runs, ClockStep(r) PROVE Goal
  <2>1. /\ attempt' = attempt
        /\ \A q \in Runs : /\ run'[q].st = run[q].st /\ run'[q].att = run[q].att
                          /\ run'[q].inv = run[q].inv /\ run'[q].wait = run[q].wait
                          /\ lease'[q].st = lease[q].st /\ lease'[q].att = lease[q].att
                          /\ lease'[q].start = lease[q].start
    <3>1. CASE LeaseExpires(r)
      BY <1>t, <3>1 DEF LeaseExpires, TypeOK, LeaseRow
    <3>2. CASE RetryDue(r)
      BY <1>t, <3>2 DEF RetryDue, TypeOK, RunRow
    <3>3. CASE QueueDeadlinePasses(r)
      BY <1>t, <3>3 DEF QueueDeadlinePasses, TypeOK, RunRow
    <3>q. QED
      BY <1>3, <3>1, <3>2, <3>3 DEF ClockStep
  <2>2. \A q \in Runs : RowInv(q)'
    BY <1>t, <2>1 DEF RowInv, AttemptRows, StepRows, AttemptIs, RunRows, LeaseRows
  <2>q. QED
    BY <1>t, <2>1, <2>2, ExclusiveFrame
<1>4. ASSUME NEW w \in Workers, WorkerStep(w) PROVE Goal
  BY <1>4, LedgerWorkerStep
<1>5. ASSUME ReconcileInvalidRunning PROVE Goal
  BY <1>5, DowngradeStep DEF ReconcileInvalidRunning, Unproven
<1>6. ASSUME UNCHANGED vars PROVE Goal
  BY <1>t, <1>6, Frame, ExclusiveFrame DEF vars
<1>7. Goal
  BY <1>2, <1>3, <1>4, <1>5, <1>6 DEF Next
<1>q. QED
  <2>1. (TypeOK /\ WorkerExclusive /\ \A r \in Runs : RowInv(r))' => LedgerInv'
    BY LedgerByRows, PTL
  <2>q. QED
    BY <1>1, <1>7, <2>1

\* The invariant holds initially.
LEMMA LedgerInit == Init => LedgerInv
BY TypeInit DEF Init, LedgerInv, LeaseFencesCurrentAttempt, OneOpenAttempt, WaitingIsQuiet,
   AttemptInStep, WorkerExclusive, RunningLeftQueueWait, TerminalReleasesExecution,
   ConfirmedWasInvoked, DispatchStates, TerminalStates, Open

\* Whatever the callers do and however their calls interleave, the tables stay
\* consistent.
THEOREM LedgerConsistent == Spec => []LedgerInv
BY LedgerInit, LedgerNext, PTL DEF Spec

\* An active lease fences the current generation of its run (the comparisons of
\* the recovery paths with host_run_leases.attempt_id).
THEOREM LeaseFenced == Spec => []LeaseFencesCurrentAttempt
<1>1. LedgerInv => LeaseFencesCurrentAttempt
  BY DEF LedgerInv
<1>q. QED
  BY <1>1, LedgerConsistent, PTL

\* A run never has two open attempts.
THEOREM AttemptsExclusive == Spec => []OneOpenAttempt
<1>1. LedgerInv => OneOpenAttempt
  BY DEF LedgerInv
<1>q. QED
  BY <1>1, LedgerConsistent, PTL

\* No two dispatched runs share a worker (the guard of the claim is enough).
THEOREM Exclusion == Spec => []WorkerExclusive
<1>1. LedgerInv => WorkerExclusive
  BY DEF LedgerInv
<1>q. QED
  BY <1>1, LedgerConsistent, PTL

\* The queue timeout never ends a run that has started.
THEOREM QueueTimeoutSparesRunning == Spec => []RunningLeftQueueWait
<1>1. LedgerInv => RunningLeftQueueWait
  BY DEF LedgerInv
<1>q. QED
  BY <1>1, LedgerConsistent, PTL

\* A terminal run holds no execution lease (trg_runs_terminal_lifecycle_fence).
THEOREM TerminalReleased == Spec => []TerminalReleasesExecution
<1>1. LedgerInv => TerminalReleasesExecution
  BY DEF LedgerInv
<1>q. QED
  BY <1>1, LedgerConsistent, PTL

-----------------------------------------------------------------------------
\* What no step may do

\* What a transaction may make of a terminal run: nothing, or a failure of a
\* completed one.
Stays(r) ==
    \/ run'[r].st = run[r].st
    \/ run[r].st = "completed" /\ run'[r].st = "failed"

\* No transaction writes the state of a terminal run in any other way.
LEMMA TerminalStep ==
    ASSUME TypeOK, [Next]_vars, NEW r \in Runs, run[r].st \in TerminalStates
    PROVE  Stays(r)
<1> USE DEF TypeOK, TerminalStates, Stays
<1>d. ASSUME NEW R, Downgrade(R), r \notin R PROVE run'[r].st = run[r].st
  BY <1>d DEF Downgrade
<1>1. ASSUME NEW q \in Runs, RunStep(q) PROVE Stays(r)
  <2>1. CASE q # r
    BY <1>1, <1>d, <2>1
       DEF RunStep, CreateRun, CreateRunLegacy, AcquireLease, TransferLease, Heartbeat,
           ReleaseLease, ReleaseExpiredPreaccept, AdmitClaimed, CanAdmit, MarkInvoked, CanInvoke, ConfirmStart, CanConfirm,
           RepairRunning, ReconcileDeadLease, MarkTerminationUnconfirmed, RequeueUnconfirmed,
           RequeueForRetry, CanRequeue, SwitchProfileAndRequeue, SettleRun, FinalizeRun, FinalizePaused,
           TransitionPaused, MarkNeedsInput, ProviderStalled, TransitionQueued,
           ResumeNeedsInput, ReopenDirect, MissingResponse, ExpireQueued
  <2>2. CASE MissingResponse(q)
    BY <2>2 DEF MissingResponse
  <2>3. CASE q = r /\ ~MissingResponse(q)
    BY <1>1, <1>d, <2>3
       DEF RunStep, CreateRun, CreateRunLegacy, IsNextRun, AcquireLease, TransferLease, Heartbeat,
           ReleaseLease, ReleaseExpiredPreaccept, AdmitClaimed, CanAdmit, MarkInvoked, CanInvoke, ConfirmStart, CanConfirm,
           RepairRunning, Unproven, ReconcileDeadLease, MarkTerminationUnconfirmed, RequeueUnconfirmed,
           RequeueForRetry, CanRequeue, SwitchProfileAndRequeue, SettleRun, FinalizeRun, FinalizePaused,
           TransitionPaused, MarkNeedsInput, ProviderStalled, TransitionQueued,
           ResumeNeedsInput, ReopenDirect, ExpireQueued, DispatchStates, NonterminalStates
  <2>q. QED
    BY <2>1, <2>2, <2>3
<1>2. ASSUME NEW q \in Runs, ClockStep(q) PROVE Stays(r)
  <2>1. CASE LeaseExpires(q)
    BY <2>1 DEF LeaseExpires
  <2>2. CASE RetryDue(q)
    BY <2>2 DEF RetryDue, RunRow
  <2>3. CASE QueueDeadlinePasses(q)
    BY <2>3 DEF QueueDeadlinePasses, RunRow
  <2>q. QED
    BY <1>2, <2>1, <2>2, <2>3 DEF ClockStep
<1>3. ASSUME NEW w \in Workers, WorkerStep(w) PROVE Stays(r)
  <2>1. ASSUME NEW e \in Executors, NEW s \in BOOLEAN, ClaimNext(w, e, s)
        PROVE  Stays(r)
    BY <2>1 DEF ClaimNext, ClaimWrites, Claimable
  <2>2. ASSUME NEW s \in Outcomes, CancelPending(w, s) PROVE Stays(r)
    BY <2>2 DEF CancelPending
  <2>q. QED
    BY <1>3, <2>1, <2>2 DEF WorkerStep, UpdateWorkerState, BeginTermination, FailTermination,
                            CompleteTermination
<1>4. CASE ReconcileInvalidRunning
  BY <1>4, <1>d DEF ReconcileInvalidRunning, Unproven
<1>5. CASE UNCHANGED vars
  BY <1>5 DEF vars
<1>q. QED
  BY <1>1, <1>2, <1>3, <1>4, <1>5 DEF Next

\* A terminal run stays what it is, whatever late callback, retry or recovery
\* finds it, but for a completed run without a response.
THEOREM TerminalRunsStay == Spec => TerminalAbsorbing
<1>1. TypeOK /\ [Next]_vars =>
          [\A r \in Runs : run[r].st \in TerminalStates => Stays(r)]_vars
  BY TerminalStep
<1>q. QED
  BY <1>1, TypeCorrect, PTL DEF Spec, TerminalAbsorbing, Stays

\* EndCurrent does not change a row that has ended.
LEMMA EndedStays ==
    ASSUME TypeOK, NEW R, attempt' = EndCurrent(R), NEW r \in Runs, NEW a \in Attempts,
           attempt[r][a].st = "ended"
    PROVE  attempt'[r][a] = attempt[r][a]
<1>1. attempt[r][a] \in AttemptRow
  BY DEF TypeOK
<1>2. Ended(attempt[r][a]) = attempt[r][a]
  BY <1>1 DEF Ended, AttemptRow
<1>q. QED
  BY <1>2, EndCurrentFacts

\* No transaction writes an attempt row that has ended.
LEMMA EndedStep ==
    ASSUME TypeOK, [Next]_vars, NEW r \in Runs, NEW a \in Attempts,
           attempt[r][a].st = "ended"
    PROVE  attempt'[r][a] = attempt[r][a]
<1> DEFINE Goal == attempt'[r][a] = attempt[r][a]
<1>e. ASSUME NEW R, attempt' = EndCurrent(R) PROVE Goal
  BY <1>e, EndedStays
<1>1. ASSUME NEW q \in Runs, RunStep(q) PROVE Goal
  <2>1. CASE AdmitClaimed(q) \/ MarkInvoked(q)
    BY <2>1 DEF AdmitClaimed, CanAdmit, MarkInvoked, CanInvoke, AttemptIs, TypeOK
  <2>2. CASE MarkTerminationUnconfirmed(q)
    BY <2>2 DEF MarkTerminationUnconfirmed, AttemptIs, TypeOK
  <2>q. QED
    BY <1>1, <1>e, <2>1, <2>2
       DEF RunStep, CreateRun, CreateRunLegacy, AcquireLease, TransferLease, Heartbeat,
           ReleaseLease, ReleaseExpiredPreaccept, ConfirmStart, CanConfirm, RepairRunning,
           ReconcileDeadLease, Downgrade, RequeueUnconfirmed, RequeueForRetry, CanRequeue,
           SwitchProfileAndRequeue, SettleRun, FinalizeRun, FinalizePaused, TransitionPaused,
           MarkNeedsInput, ProviderStalled, TransitionQueued, ResumeNeedsInput, ReopenDirect,
           MissingResponse, ExpireQueued
<1>2. ASSUME NEW q \in Runs, ClockStep(q) PROVE Goal
  BY <1>2 DEF ClockStep, LeaseExpires, RetryDue, QueueDeadlinePasses
<1>3. ASSUME NEW w \in Workers, WorkerStep(w) PROVE Goal
  <2>1. ASSUME NEW e \in Executors, NEW s \in BOOLEAN, ClaimNext(w, e, s) PROVE Goal
    <3>1. PICK q \in Claimable(w), b \in Attempts :
              ClaimGuard(w, e, s, q, b) /\ ClaimWrites(w, q, b)
      BY <2>1 DEF ClaimNext
    <3>2. q \in Runs /\ attempt[q][b].st = "none"
      <4>1. ~(b < b)
        BY BoundsAssumption DEF Attempts
      <4>q. QED
        BY <3>1, <4>1 DEF Claimable, ClaimGuard, NextAttempt
    <3>q. QED
      BY <3>1, <3>2 DEF ClaimWrites, TypeOK
  <2>2. ASSUME NEW s \in Outcomes, CancelPending(w, s) PROVE Goal
    BY <2>2 DEF CancelPending, Open
  <2>q. QED
    BY <1>3, <2>1, <2>2 DEF WorkerStep, UpdateWorkerState, BeginTermination, FailTermination,
                            CompleteTermination
<1>4. CASE ReconcileInvalidRunning
  BY <1>4, <1>e DEF ReconcileInvalidRunning, Downgrade
<1>5. CASE UNCHANGED vars
  BY <1>5 DEF vars
<1>q. QED
  BY <1>1, <1>2, <1>3, <1>4, <1>5 DEF Next

\* An attempt that ended is never written again.
THEOREM EndedAttemptsStay == Spec => AttemptNeverReopens
<1>1. TypeOK /\ [Next]_vars =>
          [\A r \in Runs, a \in Attempts :
              attempt[r][a].st = "ended" => attempt'[r][a] = attempt[r][a]]_vars
  BY EndedStep
<1>q. QED
  BY <1>1, TypeCorrect, PTL DEF Spec, AttemptNeverReopens

-----------------------------------------------------------------------------
\* The ledger under lifecycle claims.

\* A run whose generation owns the worker: dispatched, or paused with its process
\* frozen in place, from where a resume goes on without a new claim.
Engaged(r) ==
    \/ run[r].st \in DispatchStates
    \/ run[r].st = "paused" /\ AttemptIs(r, "running")

\* The frozen run counts as well: it will be running again.
EngagedExclusive ==
    \A q, r \in Runs : WorkerOf[q] = WorkerOf[r] /\ Engaged(q) /\ Engaged(r) => q = r

\* A generation that was invoked has left the queue wait, frozen or not.
InvokedLeftWait(r) ==
    /\ run[r].st \in {"running", "settling", "paused"}
    /\ AttemptIs(r, "running")
    => ~run[r].wait

\* What a pending claim of worker w can rely on, and what a settled stop keeps.
ClaimInv(w) ==
    /\ worker[w].kind \in RunClaimKinds \cup {"stop_run"} =>
           worker[w].target \in RunsOf(w) /\ run[worker[w].target].st # "none"
    /\ worker[w].kind = "paused" => worker[w].target \in RunsOf(w) \cup {0}
    /\ worker[w].kind = "steer_run" =>
           /\ worker[w].repl \in RunsOf(w) \ {worker[w].target}
           /\ run[worker[w].repl].st \in {"queued"} \cup TerminalStates
    /\ worker[w].kind \in ComputeKinds => InState(w, {"running", "settling"}) = {}
    /\ worker[w].kind = "idle" => InState(w, DispatchStates) = {}
    /\ worker[w].stop /\ worker[w].kind # "stop_run" => \A r \in RunsOf(w) : ~Engaged(r)

\* The inductive invariant.
ControlInv ==
    /\ LedgerInv
    /\ EngagedExclusive
    /\ \A r \in Runs : InvokedLeftWait(r)
    /\ \A w \in Workers : ClaimInv(w)

-----------------------------------------------------------------------------
\* What a transaction of the ledger may do to a run and to a claim

\* No transaction of the ledger writes a claim.
LEMMA ClaimFrame ==
    ASSUME TypeOK, [Next]_vars, NEW w \in Workers
    PROVE  /\ worker'[w].kind = worker[w].kind
           /\ worker'[w].target = worker[w].target
           /\ worker'[w].repl = worker[w].repl
           /\ worker'[w].stop = worker[w].stop
<1> DEFINE Goal == /\ worker'[w].kind = worker[w].kind
                   /\ worker'[w].target = worker[w].target
                   /\ worker'[w].repl = worker[w].repl
                   /\ worker'[w].stop = worker[w].stop
<1>t. worker \in [Workers -> WorkerRow] /\ worker[w] \in WorkerRow
  BY DEF TypeOK
<1>s. ASSUME NEW v \in Workers, NEW s, SetWorker(v, s) PROVE Goal
  BY <1>s, <1>t DEF SetWorker, WorkerRow
<1>d. ASSUME NEW R, Downgrade(R) PROVE Goal
  BY <1>d, <1>t DEF Downgrade, WorkerRow
<1>u. ASSUME UNCHANGED worker PROVE Goal
  BY <1>u
<1>1. ASSUME NEW q \in Runs, RunStep(q) PROVE Goal
  <2>w. WorkerOf[q] \in Workers
    BY WorkerOfAssumption
  <2>q. QED
    BY <1>1, <1>s, <1>d, <1>u, <2>w
       DEF RunStep, CreateRun, CreateRunLegacy, AcquireLease, TransferLease, Heartbeat,
           ReleaseLease, ReleaseExpiredPreaccept, AdmitClaimed, MarkInvoked, ConfirmStart,
           RepairRunning, ReconcileDeadLease, MarkTerminationUnconfirmed, RequeueUnconfirmed,
           RequeueForRetry, SwitchProfileAndRequeue, SettleRun, FinalizeRun, FinalizePaused,
           TransitionPaused, MarkNeedsInput, ProviderStalled, TransitionQueued,
           ResumeNeedsInput, ReopenDirect, MissingResponse, ExpireQueued
<1>2. ASSUME NEW q \in Runs, ClockStep(q) PROVE Goal
  BY <1>2, <1>u DEF ClockStep, LeaseExpires, RetryDue, QueueDeadlinePasses
<1>3. ASSUME NEW v \in Workers, WorkerStep(v) PROVE Goal
  BY <1>3, <1>s, <1>u DEF WorkerStep, ClaimNext, ClaimWrites, CancelPending, UpdateWorkerState,
                          BeginTermination, FailTermination, CompleteTermination
<1>q. QED
  BY <1>1, <1>2, <1>3, <1>d, <1>u DEF Next, ReconcileInvalidRunning, vars

\* A run is dispatched only from the queue, while no claim is pending on its worker,
\* no stop was settled and no other run is engaged there.
Dispatched(r) ==
    /\ run[r].st = "queued"
    /\ W(r).kind = "none"
    /\ ~W(r).stop
    /\ \A q \in Runs : WorkerOf[q] = WorkerOf[r] => run[q].st \notin DispatchStates \cup {"paused"}

\* How one step may move the rows of run r.
Moves(r) ==
    /\ run[r].st # "none" => run'[r].st # "none"
    /\ run[r].st = "paused" => run'[r].st \in {"paused"} \cup TerminalStates
    /\ run'[r].st = "paused" => run[r].st \in DispatchStates \cup {"paused"}
    /\ run[r].st \in {"queued"} \cup TerminalStates =>
           run'[r].st \in {"queued"} \cup TerminalStates \cup DispatchStates
    /\ run'[r].st \in DispatchStates => run[r].st \in DispatchStates \/ Dispatched(r)
    /\ run'[r].st \in {"running", "settling"} =>
           run[r].st \in {"running", "settling"} \/ W(r).kind = "none"
    /\ run'[r].st \in {"running", "settling", "paused"} /\ AttemptIs(r, "running")' =>
           \/ /\ run[r].st \in {"running", "settling", "paused"}
              /\ AttemptIs(r, "running")
              /\ run'[r].wait = run[r].wait
           \/ run'[r].st = "running" /\ ~run'[r].wait

\* A run that goes nowhere near execution moves as it may.
LEMMA RestMoves ==
    ASSUME NEW r \in Runs,
           run'[r].st \in {"queued", "needs_input"} \cup TerminalStates,
           run[r].st \in {"paused"} \cup TerminalStates => run'[r].st \in TerminalStates,
           run[r].st = "queued" => run'[r].st # "needs_input"
    PROVE  Moves(r)
BY DEF Moves, TerminalStates, DispatchStates

\* A run whose rows are left alone, but for the clock, moves as it may.
LEMMA StillMoves ==
    ASSUME NEW r \in Runs, attempt'[r] = attempt[r], run'[r].st = run[r].st,
           run'[r].att = run[r].att, run'[r].wait = run[r].wait
    PROVE  Moves(r)
BY DEF Moves, AttemptIs, TerminalStates, DispatchStates

\* The fields of the rows that the transactions of one run write.
LEMMA RunStepMoves ==
    ASSUME LedgerInv, NEW r \in Runs, RunStep(r)
    PROVE  Moves(r)
<1>t. TypeOK /\ RowInv(r)
  BY LedgerByRows
<1>r. run \in [Runs -> RunRow] /\ run[r] \in RunRow
  BY <1>t DEF TypeOK
<1>a. attempt \in [Runs -> [Attempts -> AttemptRow]]
  BY <1>t DEF TypeOK
<1>n. ASSUME run'[r] = NewRunRow, run[r].st \in {"none", "needs_input"} PROVE Moves(r)
  BY <1>n, RestMoves DEF NewRunRow, TerminalStates
<1>q. ASSUME run'[r] = Requeued(run[r], TRUE) \/ run'[r] = Requeued(run[r], FALSE),
             run[r].st \notin {"paused"} \cup TerminalStates
      PROVE  Moves(r)
  <2>1. run'[r].st = "queued"
    BY <1>q, <1>r, RequeuedFields
  <2>q. QED
    BY <1>q, <2>1, RestMoves
<1>e. ASSUME NEW s \in TerminalStates, run'[r] = Terminated(run[r], s) PROVE Moves(r)
  <2>1. run'[r].st = s
    BY <1>e, <1>r, TerminatedFields
  <2>q. QED
    BY <2>1, RestMoves DEF TerminalStates
<1>u. ASSUME UNCHANGED <<run, attempt>> PROVE Moves(r)
  BY <1>u, StillMoves
<1>d. ASSUME Downgrade({r}), run[r].st = "running" PROVE Moves(r)
  <2>1. run'[r] = Requeued(run[r], TRUE)
    BY <1>d DEF Downgrade
  <2>q. QED
    BY <1>d, <1>q, <2>1 DEF TerminalStates
<1>1. CASE CreateRun(r) \/ \E p \in BOOLEAN : CreateRunLegacy(r, p)
  BY <1>1, <1>n, <1>r DEF CreateRun, CreateRunLegacy, IsNextRun
<1>2. CASE ReopenDirect(r)
  BY <1>2, <1>n, <1>r DEF ReopenDirect
<1>3. CASE \/ \E e \in Executors : AcquireLease(r, e) \/ TransferLease(r, e)
           \/ \E x, o \in BOOLEAN : Heartbeat(r, x, o)
           \/ ReleaseLease(r) \/ ReleaseExpiredPreaccept(r) \/ ConfirmStart(r)
  BY <1>3, <1>u DEF AcquireLease, TransferLease, Heartbeat, ReleaseLease,
                    ReleaseExpiredPreaccept, ConfirmStart
<1>4. CASE AdmitClaimed(r)
  <2>1. run[r].st = "claimed" /\ run[r].att \in Attempts
    BY <1>4 DEF AdmitClaimed, CanAdmit, AttemptIs
  <2>2. run'[r].st = "admitted"
    BY <1>4, <1>r DEF AdmitClaimed, RunRow
  <2>q. QED
    BY <2>1, <2>2 DEF Moves, DispatchStates, TerminalStates
<1>5. CASE MarkInvoked(r)
  <2>1. run[r].st = "admitted" /\ W(r).kind = "none"
    BY <1>5 DEF MarkInvoked, CanInvoke
  <2>2. run'[r].st = "running" /\ ~run'[r].wait
    BY <1>5, <1>r DEF MarkInvoked, RunRow
  <2>q. QED
    BY <2>1, <2>2 DEF Moves, DispatchStates, TerminalStates
<1>6. CASE RepairRunning(r)
  BY <1>6, <1>d DEF RepairRunning, Unproven
<1>7. CASE ReconcileDeadLease(r)
  BY <1>7, <1>d, <1>u DEF ReconcileDeadLease
<1>8. CASE MarkTerminationUnconfirmed(r)
  <2>1. CASE UNCHANGED <<run, attempt>>
    BY <1>u, <2>1
  <2>2. CASE /\ run[r].st = "running" /\ AttemptIs(r, "running")
             /\ run' = [run EXCEPT ![r].st = "settling"]
             /\ attempt' = [attempt EXCEPT ![r][run[r].att].st = "settling"]
    <3>1. run'[r].st = "settling" /\ run'[r].att = run[r].att /\ run'[r].wait = run[r].wait
      BY <1>r, <2>2 DEF RunRow
    <3>q. QED
      BY <2>2, <3>1 DEF Moves, DispatchStates, TerminalStates
  <2>q. QED
    BY <1>8, <2>1, <2>2 DEF MarkTerminationUnconfirmed
<1>9. CASE RequeueUnconfirmed(r) \/ RequeueForRetry(r) \/ SwitchProfileAndRequeue(r)
  BY <1>9, <1>q, <1>r DEF RequeueUnconfirmed, RequeueForRetry, CanRequeue,
                          SwitchProfileAndRequeue, DispatchStates, TerminalStates
<1>10. CASE ExpireQueued(r) \/ \E s \in Outcomes : FinalizeRun(r, s)
  BY <1>10, <1>e, <1>r, OutcomesAssumption DEF ExpireQueued, FinalizeRun, TerminalStates
<1>11. CASE SettleRun(r) \/ TransitionPaused(r)
  <2>1. /\ run[r].st \in DispatchStates /\ run'[r].st \in {"settling", "paused"}
        /\ run'[r].st = "settling" => run[r].st = "running"
        /\ run'[r].att = run[r].att /\ run'[r].wait = run[r].wait
        /\ attempt' = attempt
    <3>1. CASE SettleRun(r)
      BY <1>r, <3>1 DEF SettleRun, RunRow, DispatchStates
    <3>2. CASE TransitionPaused(r)
      BY <1>r, <3>2 DEF TransitionPaused, RunRow
    <3>q. QED
      BY <1>11, <3>1, <3>2
  <2>2. AttemptIs(r, "running")' => AttemptIs(r, "running")
    BY <2>1 DEF AttemptIs
  <2>3. AttemptIs(r, "running") => run[r].st \in {"running", "settling"}
    <3>1. \A s : AttemptIs(r, s) => attempt[r][run[r].att].st = s
      BY DEF AttemptIs
    <3>q. QED
      BY <1>t, <2>1, <3>1 DEF RowInv, StepRows, DispatchStates
  <2>q. QED
    BY <2>1, <2>2, <2>3 DEF Moves, DispatchStates, TerminalStates
<1>12. CASE FinalizePaused(r)
  <2>1. /\ run[r].st \in DispatchStates /\ run'[r].st = "paused"
        /\ run'[r].att = run[r].att
    BY <1>12, <1>r DEF FinalizePaused, RunRow
  <2>2. ~AttemptIs(r, "running")'
    <3>1. ASSUME run[r].att \in Attempts PROVE attempt'[r][run[r].att].st # "running"
      <4>1. attempt'[r][run[r].att] = Ended(attempt[r][run[r].att])
        BY <1>12, <1>t, <3>1, EndCurrentFacts DEF FinalizePaused
      <4>2. attempt[r][run[r].att] \in AttemptRow
        BY <1>a, <3>1
      <4>q. QED
        BY <4>1, <4>2, EndedFacts
    <3>q. QED
      BY <2>1, <3>1 DEF AttemptIs
  <2>q. QED
    BY <2>1, <2>2 DEF Moves, DispatchStates, TerminalStates
<1>13. CASE MarkNeedsInput(r) \/ ProviderStalled(r)
  <2>1. run[r].st \in {"claimed", "running"} /\ run'[r].st = "needs_input"
    BY <1>13, <1>r DEF MarkNeedsInput, ProviderStalled, RunRow
  <2>q. QED
    BY <2>1, RestMoves DEF TerminalStates
<1>14. CASE TransitionQueued(r) \/ ResumeNeedsInput(r)
  <2>1. run[r].st = "needs_input" /\ run'[r].st = "queued"
    <3>1. CASE TransitionQueued(r)
      BY <1>r, <3>1 DEF TransitionQueued, RunRow
    <3>2. CASE ResumeNeedsInput(r)
      BY <1>r, <3>2 DEF ResumeNeedsInput, ReopenWait, RunRow
    <3>q. QED
      BY <1>14, <3>1, <3>2
  <2>q. QED
    BY <2>1, RestMoves DEF TerminalStates
<1>15. CASE MissingResponse(r)
  <2>1. run[r].st = "completed" /\ run'[r].st = "failed"
    BY <1>15, <1>r DEF MissingResponse, RunRow
  <2>q. QED
    BY <2>1, RestMoves DEF TerminalStates
<1>z. QED
  BY <1>1, <1>2, <1>3, <1>4, <1>5, <1>6, <1>7, <1>8, <1>9, <1>10, <1>11, <1>12, <1>13, <1>14,
     <1>15 DEF RunStep

\* A transaction of one run leaves the rows of the others alone.
LEMMA RunStepOthers ==
    ASSUME TypeOK, NEW q \in Runs, NEW r \in Runs \ {q}, RunStep(q)
    PROVE  run'[r] = run[r] /\ attempt'[r] = attempt[r]
<1> DEFINE Goal == run'[r] = run[r] /\ attempt'[r] = attempt[r]
<1>t. run \in [Runs -> RunRow] /\ attempt \in [Runs -> [Attempts -> AttemptRow]]
  BY DEF TypeOK
<1>e. ASSUME attempt' = EndCurrent({q}) PROVE attempt'[r] = attempt[r]
  BY <1>e, <1>t DEF EndCurrent
<1>d. ASSUME Downgrade({q}) PROVE Goal
  BY <1>d, <1>e, <1>t DEF Downgrade
<1>1. CASE AdmitClaimed(q) \/ MarkInvoked(q) \/ MarkTerminationUnconfirmed(q)
  BY <1>1, <1>t DEF AdmitClaimed, MarkInvoked, MarkTerminationUnconfirmed
<1>2. CASE RepairRunning(q) \/ ReconcileDeadLease(q)
  BY <1>2, <1>d DEF RepairRunning, ReconcileDeadLease
<1>3. CASE \/ RequeueUnconfirmed(q) \/ RequeueForRetry(q) \/ SwitchProfileAndRequeue(q)
           \/ FinalizePaused(q) \/ MarkNeedsInput(q) \/ ProviderStalled(q) \/ ExpireQueued(q)
           \/ \E s \in Outcomes : FinalizeRun(q, s)
  BY <1>3, <1>e, <1>t DEF RequeueUnconfirmed, RequeueForRetry, SwitchProfileAndRequeue,
         FinalizePaused, MarkNeedsInput, ProviderStalled, ExpireQueued, FinalizeRun
<1>q. QED
  BY <1>t, <1>1, <1>2, <1>3
     DEF RunStep, CreateRun, CreateRunLegacy, AcquireLease, TransferLease, Heartbeat,
         ReleaseLease, ReleaseExpiredPreaccept, ConfirmStart, SettleRun, TransitionPaused,
         TransitionQueued, ResumeNeedsInput, ReopenDirect, MissingResponse

\* Every step of the ledger moves every run as it may.
LEMMA NextMoves ==
    ASSUME LedgerInv, [Next]_vars, NEW r \in Runs
    PROVE  Moves(r)
<1>t. TypeOK /\ RowInv(r)
  BY LedgerByRows
<1>r. run \in [Runs -> RunRow] /\ run[r] \in RunRow
  BY <1>t DEF TypeOK
<1>d. ASSUME NEW R, Downgrade(R), \A q \in R : run[q].st = "running" PROVE Moves(r)
  <2>1. CASE r \in R
    <3>1. run'[r] = Requeued(run[r], TRUE)
      BY <1>d, <2>1 DEF Downgrade
    <3>2. run'[r].st = "queued"
      BY <1>r, <3>1, RequeuedFields
    <3>q. QED
      BY <1>d, <2>1, <3>2, RestMoves DEF TerminalStates
  <2>2. CASE r \notin R
    <3>1. run'[r] = run[r] /\ attempt'[r] = attempt[r]
      BY <1>d, <1>t, <2>2 DEF Downgrade, EndCurrent, TypeOK
    <3>q. QED
      BY <3>1, StillMoves
  <2>q. QED
    BY <2>1, <2>2
<1>1. ASSUME NEW q \in Runs, RunStep(q) PROVE Moves(r)
  <2>1. CASE q = r
    BY <1>1, <2>1, RunStepMoves
  <2>2. CASE q # r
    BY <1>1, <1>t, <2>2, RunStepOthers, StillMoves
  <2>q. QED
    BY <2>1, <2>2
<1>2. ASSUME NEW q \in Runs, ClockStep(q) PROVE Moves(r)
  <2>1. /\ attempt' = attempt /\ run'[r].st = run[r].st
        /\ run'[r].att = run[r].att /\ run'[r].wait = run[r].wait
    <3>1. CASE LeaseExpires(q)
      BY <3>1 DEF LeaseExpires
    <3>2. CASE RetryDue(q)
      BY <1>r, <3>2 DEF RetryDue, RunRow
    <3>3. CASE QueueDeadlinePasses(q)
      BY <1>r, <3>3 DEF QueueDeadlinePasses, RunRow
    <3>q. QED
      BY <1>2, <3>1, <3>2, <3>3 DEF ClockStep
  <2>q. QED
    BY <2>1, StillMoves
<1>3. ASSUME NEW w \in Workers, WorkerStep(w) PROVE Moves(r)
  <2>1. ASSUME NEW e \in Executors, NEW s \in BOOLEAN, ClaimNext(w, e, s) PROVE Moves(r)
    <3>1. PICK q \in Claimable(w), a \in Attempts :
              ClaimGuard(w, e, s, q, a) /\ ClaimWrites(w, q, a)
      BY <2>1 DEF ClaimNext
    <3>2. q \in Runs /\ WorkerOf[q] = w /\ run[q].st = "queued"
      BY DEF Claimable
    <3>3. CASE q = r
      <4>1. run'[r].st = "claimed"
        BY <1>r, <3>1, <3>3 DEF ClaimWrites, RunRow
      <4>2. Dispatched(r)
        BY <3>1, <3>2, <3>3 DEF Dispatched, ClaimGuard, AllowsStart, W, Blocking, StatelessWait,
                               DispatchStates
      <4>q. QED
        BY <3>2, <3>3, <4>1, <4>2 DEF Moves, TerminalStates, DispatchStates
    <3>4. CASE q # r
      <4>1. run'[r] = run[r] /\ attempt'[r] = attempt[r]
        BY <1>t, <3>1, <3>2, <3>4 DEF ClaimWrites, TypeOK
      <4>q. QED
        BY <4>1, StillMoves
    <3>q. QED
      BY <3>3, <3>4
  <2>2. ASSUME NEW s \in Outcomes, CancelPending(w, s) PROVE Moves(r)
    <3>1. CASE WorkerOf[r] = w /\ run[r].st \in {"queued", "running"}
      <4>1. run'[r] = Terminated(run[r], s) /\ s \in TerminalStates
        BY <2>2, <3>1, OutcomesAssumption DEF CancelPending
      <4>2. run'[r].st \in TerminalStates
        BY <1>r, <4>1, TerminatedFields
      <4>q. QED
        BY <3>1, <4>2, RestMoves DEF TerminalStates
    <3>2. CASE ~(WorkerOf[r] = w /\ run[r].st \in {"queued", "running"})
      <4>1. run'[r] = run[r]
        BY <2>2, <3>2 DEF CancelPending
      <4>2. ASSUME NEW a \in Attempts, attempt'[r][a].st = "running"
            PROVE  attempt[r][a].st = "running"
        <5>1. attempt[r][a] \in AttemptRow
          BY <1>t DEF TypeOK
        <5>2. attempt'[r][a] = attempt[r][a] \/ attempt'[r][a] = Ended(attempt[r][a])
          BY <2>2 DEF CancelPending
        <5>q. QED
          BY <4>2, <5>1, <5>2, EndedFacts
      <4>q. QED
        BY <4>1, <4>2 DEF Moves, AttemptIs, TerminalStates, DispatchStates
    <3>q. QED
      BY <3>1, <3>2
  <2>3. CASE \/ \E s \in WorkerWrites : UpdateWorkerState(w, s)
             \/ BeginTermination(w) \/ FailTermination(w) \/ CompleteTermination(w)
    BY <2>3, StillMoves DEF UpdateWorkerState, BeginTermination, FailTermination,
                            CompleteTermination
  <2>q. QED
    BY <1>3, <2>1, <2>2, <2>3 DEF WorkerStep
<1>4. CASE ReconcileInvalidRunning
  BY <1>4, <1>d DEF ReconcileInvalidRunning, Unproven
<1>5. CASE UNCHANGED vars
  BY <1>5, StillMoves DEF vars
<1>q. QED
  BY <1>1, <1>2, <1>3, <1>4, <1>5 DEF Next

-----------------------------------------------------------------------------
\* The transactions of the ledger keep what claims rely on.
LEMMA ClaimsUnderNext ==
    ASSUME ControlInv, [Next]_vars
    PROVE  /\ EngagedExclusive'
           /\ \A r \in Runs : InvokedLeftWait(r)'
           /\ \A w \in Workers : ClaimInv(w)'
<1>t. LedgerInv /\ TypeOK
  BY DEF ControlInv, LedgerInv
<1>m. \A r \in Runs : Moves(r)
  BY <1>t, NextMoves
<1>e. ASSUME NEW r \in Runs, Engaged(r)' PROVE Engaged(r) \/ Dispatched(r)
  BY <1>e, <1>m DEF Engaged, Moves, DispatchStates
<1>d. ASSUME NEW r \in Runs, Dispatched(r), NEW q \in Runs, WorkerOf[q] = WorkerOf[r]
      PROVE  ~Engaged(q)
  BY <1>d DEF Dispatched, Engaged
<1>1. EngagedExclusive'
  <2> SUFFICES ASSUME NEW q \in Runs, NEW r \in Runs, WorkerOf[q] = WorkerOf[r],
                      Engaged(q)', Engaged(r)'
               PROVE  q = r
    BY DEF EngagedExclusive
  <2>1. CASE Engaged(q) /\ Engaged(r)
    BY <2>1 DEF ControlInv, EngagedExclusive
  <2>2. CASE Dispatched(q) /\ Engaged(r)
    BY <1>d, <2>2
  <2>3. CASE Dispatched(r) /\ Engaged(q)
    BY <1>d, <2>3
  <2>4. CASE Dispatched(q) /\ Dispatched(r)
    <3>1. run'[q].st \in DispatchStates /\ run'[r].st \in DispatchStates
      BY <1>m, <2>4 DEF Engaged, Dispatched, Moves, DispatchStates
    <3>q. QED
      BY <1>t, <3>1, LedgerNext DEF LedgerInv, WorkerExclusive
  <2>q. QED
    BY <1>e, <2>1, <2>2, <2>3, <2>4
<1>2. ASSUME NEW r \in Runs PROVE InvokedLeftWait(r)'
  BY <1>m DEF InvokedLeftWait, ControlInv, Moves
<1>3. ASSUME NEW w \in Workers PROVE ClaimInv(w)'
  <2>w. /\ worker'[w].kind = worker[w].kind /\ worker'[w].target = worker[w].target
        /\ worker'[w].repl = worker[w].repl /\ worker'[w].stop = worker[w].stop
    BY <1>t, ClaimFrame
  <2>i. ClaimInv(w)
    BY DEF ControlInv
  <2>r. \A r \in RunsOf(w) : r \in Runs /\ WorkerOf[r] = w /\ W(r) = worker[w]
    BY DEF RunsOf, W
  <2>1. worker'[w].kind \in RunClaimKinds \cup {"stop_run"} =>
           worker'[w].target \in RunsOf(w) /\ run'[worker'[w].target].st # "none"
    BY <1>m, <2>w, <2>i, <2>r DEF ClaimInv, Moves
  <2>2. worker'[w].kind = "steer_run" =>
           /\ worker'[w].repl \in RunsOf(w) \ {worker'[w].target}
           /\ run'[worker'[w].repl].st \in {"queued"} \cup TerminalStates
    <3> SUFFICES ASSUME worker[w].kind = "steer_run"
                 PROVE  run'[worker[w].repl].st \in {"queued"} \cup TerminalStates
      BY <2>w, <2>i DEF ClaimInv
    <3>1. /\ worker[w].repl \in RunsOf(w)
          /\ run[worker[w].repl].st \in {"queued"} \cup TerminalStates
      BY <2>i DEF ClaimInv
    <3>q. QED
      BY <1>m, <2>r, <3>1 DEF Moves, Dispatched, DispatchStates, TerminalStates
  <2>3. worker'[w].kind \in ComputeKinds => InState(w, {"running", "settling"})' = {}
    BY <1>m, <2>w, <2>i, <2>r DEF ClaimInv, Moves, InState, ComputeKinds
  <2>4. worker'[w].kind = "idle" => InState(w, DispatchStates)' = {}
    <3>1. ASSUME worker[w].kind = "idle", NEW r \in RunsOf(w) PROVE run'[r].st \notin DispatchStates
      <4>1. run[r].st \notin DispatchStates
        BY <2>i, <3>1 DEF ClaimInv, InState
      <4>2. ~Dispatched(r)
        BY <2>r, <3>1 DEF Dispatched
      <4>q. QED
        BY <1>m, <2>r, <3>1, <4>1, <4>2 DEF Moves
    <3>q. QED
      BY <2>w, <3>1 DEF InState, RunsOf
  <2>5. worker'[w].stop /\ worker'[w].kind # "stop_run" => \A r \in RunsOf(w) : ~Engaged(r)'
    BY <1>e, <2>w, <2>i, <2>r, ZenonT(30) DEF ClaimInv, Dispatched
  <2>6. worker'[w].kind = "paused" => worker'[w].target \in RunsOf(w) \cup {0}
    BY <2>w, <2>i DEF ClaimInv
  <2>q. QED
    BY <2>1, <2>2, <2>3, <2>4, <2>5, <2>6 DEF ClaimInv, RunsOf
<1>q. QED
  BY <1>1, <1>2, <1>3

-----------------------------------------------------------------------------
\* What a step of a control may do

\* A run keeps its part of the invariant, and is engaged only if it was.
Kept(r) == RowInv(r)' /\ InvokedLeftWait(r)' /\ (Engaged(r)' => Engaged(r))

\* A control that keeps the runs of its worker, and leaves the others alone, keeps
\* the invariant if its own claim row is right.
LEMMA ControlFrame ==
    ASSUME ControlInv, NEW w \in Workers, TypeOK',
           \A v \in Workers \ {w} : worker'[v] = worker[v],
           \A r \in Runs \ RunsOf(w) :
               run'[r] = run[r] /\ attempt'[r] = attempt[r] /\ lease'[r] = lease[r],
           \A r \in RunsOf(w) : Kept(r),
           ClaimInv(w)'
    PROVE  ControlInv'
<1>t. TypeOK /\ WorkerExclusive /\ \A r \in Runs : RowInv(r)
  BY LedgerByRows DEF ControlInv
<1>1. ASSUME NEW r \in Runs PROVE Kept(r)
  <2>1. CASE r \in RunsOf(w)
    BY <2>1
  <2>2. CASE r \notin RunsOf(w)
    <3>1. RowInv(r)'
      BY <1>t, <2>2, Frame
    <3>2. InvokedLeftWait(r)' /\ (Engaged(r)' => Engaged(r))
      BY <2>2 DEF ControlInv, InvokedLeftWait, Engaged, AttemptIs
    <3>q. QED
      BY <3>1, <3>2 DEF Kept
  <2>q. QED
    BY <2>1, <2>2
<1>2. EngagedExclusive'
  BY <1>1 DEF Kept, EngagedExclusive, ControlInv
<1>3. WorkerExclusive'
  BY <1>2 DEF WorkerExclusive, EngagedExclusive, Engaged
<1>4. LedgerInv'
  <2>1. (TypeOK /\ WorkerExclusive /\ \A r \in Runs : RowInv(r))' => LedgerInv'
    BY LedgerByRows, PTL
  <2>q. QED
    BY <1>1, <1>3, <2>1 DEF Kept
<1>5. ASSUME NEW v \in Workers \ {w} PROVE ClaimInv(v)'
  <2>1. ClaimInv(v) /\ worker'[v] = worker[v]
    BY DEF ControlInv
  <2>2. \A r \in RunsOf(v) : run'[r] = run[r] /\ attempt'[r] = attempt[r]
    BY DEF RunsOf
  <2>3. \A r \in RunsOf(v) : Engaged(r)' => Engaged(r)
    BY <2>2 DEF Engaged, AttemptIs
  <2>4. RunsOf(v)' = RunsOf(v)
    BY DEF RunsOf
  <2>5. \A S : InState(v, S)' = InState(v, S)
    BY <2>2, <2>4 DEF InState
  <2>q. QED
    BY <2>1, <2>2, <2>3, <2>4, <2>5 DEF ClaimInv
<1>q. QED
  BY <1>1, <1>2, <1>4, <1>5 DEF ControlInv, Kept

\* A run whose run and attempt rows are left alone is kept, whether its lease is
\* released or not.
LEMMA KeptSame ==
    ASSUME ControlInv, NEW r \in Runs, run'[r] = run[r], attempt'[r] = attempt[r],
           lease'[r] = lease[r] \/ lease'[r].st # "active"
    PROVE  Kept(r)
<1>t. RowInv(r) /\ InvokedLeftWait(r)
  BY LedgerByRows DEF ControlInv
<1>1. LeaseRows(r)'
  BY <1>t DEF RowInv, LeaseRows
<1>2. RowInv(r)'
  BY <1>t, <1>1, LeaseOnly
<1>q. QED
  BY <1>t, <1>2 DEF Kept, InvokedLeftWait, Engaged, AttemptIs

\* A run that is ended while its lease is released is kept, whether its attempts
\* are ended with it or not.
LEMMA KeptTerminated ==
    ASSUME ControlInv, NEW r \in Runs, NEW s \in TerminalStates,
           run'[r] = Terminated(run[r], s),
           \A a \in Attempts : Open(attempt'[r][a]) => Open(attempt[r][a]),
           lease'[r].st # "active"
    PROVE  Kept(r) /\ ~Engaged(r)'
<1>t. TypeOK /\ RowInv(r)
  BY LedgerByRows DEF ControlInv
<1>1. RowInv(r)'
  BY <1>t, TerminatedRow
<1>2. run'[r].st \in TerminalStates
  BY <1>t, TerminatedFields DEF TypeOK
<1>q. QED
  BY <1>1, <1>2 DEF Kept, InvokedLeftWait, Engaged, TerminalStates, DispatchStates

\* What Release does to the leases of one worker's runs.
LEMMA ReleasedHere ==
    ASSUME TypeOK, NEW w \in Workers, NEW R, R \subseteq RunsOf(w), lease' = Release(R)
    PROVE  /\ lease' \in [Runs -> LeaseRow]
           /\ \A r \in Runs \ R : lease'[r] = lease[r]
           /\ \A r \in R : lease'[r].st # "active"
<1>1. lease' \in [Runs -> LeaseRow]
  BY ReleaseType DEF TypeOK
<1>2. \A r \in Runs \ R : lease'[r] = lease[r]
  BY DEF Release
<1>3. \A r \in R : r \in Runs => lease'[r].st # "active"
  BY ReleaseFacts
<1>q. QED
  BY <1>1, <1>2, <1>3 DEF RunsOf

\* A finalization clears the claim and leaves a settled stop.
LEMMA Cleared ==
    ASSUME TypeOK, NEW w \in Workers, NEW s \in WorkerStates, ClearClaim(w, s)
    PROVE  /\ worker' \in [Workers -> WorkerRow]
           /\ \A v \in Workers \ {w} : worker'[v] = worker[v]
           /\ worker'[w].kind = "none"
           /\ worker'[w].stop = worker[w].stop
<1>t. worker \in [Workers -> WorkerRow] /\ worker[w] \in WorkerRow
  BY DEF TypeOK
<1>1. [worker[w] EXCEPT !.st = s, !.kind = "none", !.target = 0, !.repl = 0,
                        !.proof = FALSE, !.held = FALSE] \in WorkerRow
  BY <1>t DEF WorkerRow
<1>2. worker'[w] = [worker[w] EXCEPT !.st = s, !.kind = "none", !.target = 0, !.repl = 0,
                                     !.proof = FALSE, !.held = FALSE]
  BY <1>t DEF ClearClaim
<1>3. \A v \in Workers \ {w} : worker'[v] = worker[v]
  BY <1>t DEF ClearClaim
<1>4. worker' \in [Workers -> WorkerRow]
  BY <1>t, <1>1 DEF ClearClaim
<1>q. QED
  BY <1>t, <1>2, <1>3, <1>4 DEF WorkerRow

\* Without a claim the row is right if nothing is engaged after a stop.
LEMMA ClearedInv ==
    ASSUME NEW w \in Workers, worker'[w].kind = "none", worker'[w].stop = worker[w].stop,
           worker[w].stop => \A r \in RunsOf(w) : ~Engaged(r)'
    PROVE  ClaimInv(w)'
BY DEF ClaimInv, RunClaimKinds, ComputeKinds, RunsOf

\* A finalization of a claim that is no Work Stop, and that keeps the runs of its
\* worker, keeps the invariant.
LEMMA ClearedStep ==
    ASSUME ControlInv, NEW w \in Workers, worker[w].kind # "stop_run",
           NEW s \in WorkerStates, ClearClaim(w, s),
           run' \in [Runs -> RunRow], attempt' \in [Runs -> [Attempts -> AttemptRow]],
           lease' \in [Runs -> LeaseRow],
           \A r \in Runs \ RunsOf(w) :
               run'[r] = run[r] /\ attempt'[r] = attempt[r] /\ lease'[r] = lease[r],
           \A r \in RunsOf(w) : Kept(r)
    PROVE  ControlInv'
<1>t. TypeOK /\ ClaimInv(w)
  BY DEF ControlInv, LedgerInv
<1>1. /\ worker' \in [Workers -> WorkerRow]
      /\ \A v \in Workers \ {w} : worker'[v] = worker[v]
      /\ worker'[w].kind = "none"
      /\ worker'[w].stop = worker[w].stop
  BY <1>t, Cleared
<1>2. TypeOK'
  BY <1>1 DEF TypeOK
<1>3. ClaimInv(w)'
  <2>1. worker[w].stop => \A r \in RunsOf(w) : ~Engaged(r)'
    BY <1>t DEF ClaimInv, Kept
  <2>q. QED
    BY <1>1, <2>1, ClearedInv
<1>q. QED
  BY <1>1, <1>2, <1>3, ControlFrame

-----------------------------------------------------------------------------
\* Claiming

\* What the policy of a fresh claim establishes.
LEMMA PolicyFacts ==
    ASSUME TypeOK, NEW w \in Workers, NEW k \in ClaimKinds, NEW r \in Runs \cup {0},
           Policy(w, k, r, TRUE)
    PROVE  /\ k \in RunClaimKinds \cup {"stop_run"} => r \in RunsOf(w) /\ run[r].st # "none"
           /\ k \in ComputeKinds => InState(w, {"running", "settling"}) = {}
           /\ k = "idle" => InState(w, DispatchStates) = {}
           /\ k = "paused" => r \in RunsOf(w) \cup {0}
<1> USE DEF RunClaimKinds, ComputeKinds, StopKinds, ClaimKinds
<1>1. ASSUME k \in RunClaimKinds \cup {"stop_run"} PROVE r \in RunsOf(w) /\ run[r].st # "none"
  BY <1>1 DEF Policy, TargetOk
<1>z. 0 \notin RunsOf(w)
  BY RunsAssumption DEF RunsOf
<1>2. ASSUME k = "idle" PROVE InState(w, DispatchStates) = {}
  <2>1. NonterminalOf(w) \subseteq InState(w, {"queued"})
    BY <1>2 DEF Policy
  <2>q. QED
    BY <2>1 DEF NonterminalOf, InState, NonterminalStates, DispatchStates
<1>3. ASSUME k \in {"pause_worker", "resume_worker"} PROVE InState(w, {"running", "settling"}) = {}
  <2>1. NonterminalOf(w) = {}
    BY <1>3 DEF Policy
  <2>q. QED
    BY <2>1 DEF NonterminalOf, InState, NonterminalStates
<1>4. ASSUME k = "needs_input" PROVE InState(w, {"running", "settling"}) = {}
  <2>1. InState(w, {"needs_input"}) = {r} /\ InState(w, ProcessBearing) \subseteq {r}
    BY <1>4 DEF Policy, NoOtherExecuting
  <2>q. QED
    BY <2>1 DEF InState, ProcessBearing
<1>5. ASSUME k = "paused" PROVE InState(w, {"running", "settling"}) = {}
  <2>1. InState(w, {"running", "settling", "needs_input"}) = {} \/ NonterminalOf(w) = {}
    BY <1>5 DEF Policy
  <2>q. QED
    BY <2>1 DEF NonterminalOf, InState, NonterminalStates
<1>6. k = "idle" => InState(w, {"running", "settling"}) = {}
  BY <1>2 DEF InState, DispatchStates
<1>7. ASSUME k = "paused" PROVE r \in RunsOf(w) \cup {0}
  <2>1. r = 0 \/ InState(w, {"paused"}) = {r}
    BY <1>7 DEF Policy
  <2>q. QED
    BY <2>1 DEF InState
<1>q. QED
  BY <1>1, <1>2, <1>3, <1>4, <1>5, <1>6, <1>7

\* The fields of a claim row.
LEMMA ClaimRowFacts ==
    ASSUME TypeOK, NEW w \in Workers, NEW k \in ClaimKinds, NEW r \in Runs \cup {0},
           NEW q \in Runs \cup {0}
    PROVE  /\ ClaimRow(w, k, r, q) \in WorkerRow
           /\ ClaimRow(w, k, r, q).kind = k
           /\ ClaimRow(w, k, r, q).target = r
           /\ ClaimRow(w, k, r, q).repl = q
           /\ ClaimRow(w, k, r, q).stop <=> worker[w].stop \/ k = "stop_run"
<1>1. worker[w].st \in WorkerStates /\ worker[w].stop \in BOOLEAN
  BY DEF TypeOK, WorkerRow
<1>2. ClaimedState(w, k) \in WorkerStates
  BY <1>1 DEF ClaimedState, WorkerStates, OpenWorkerStates
<1>3. (worker[w].stop \/ k = "stop_run") \in BOOLEAN
  OBVIOUS
<1>q. QED
  BY <1>2, <1>3 DEF ClaimRow, WorkerRow

\* A fresh claim.
LEMMA ClaimHolds ==
    ASSUME ControlInv, NEW w \in Workers, NEW k \in Kinds, NEW r \in Runs \cup {0},
           Claim(w, k, r)
    PROVE  ControlInv'
<1>t. TypeOK /\ ClaimInv(w)
  BY DEF ControlInv, LedgerInv
<1>k. k \in ClaimKinds /\ k # "steer_run" /\ worker[w].kind = "none" /\ Policy(w, k, r, TRUE)
  BY KindsAssumption DEF Claim
<1>u. UNCHANGED <<run, attempt, lease>>
  BY DEF Claim
<1>w. worker' = [worker EXCEPT ![w] = ClaimRow(w, k, r, 0)]
  BY DEF Claim
<1>1. /\ worker'[w] = ClaimRow(w, k, r, 0)
      /\ \A v \in Workers \ {w} : worker'[v] = worker[v]
      /\ worker' \in [Workers -> WorkerRow]
  BY <1>t, <1>k, <1>w, ClaimRowFacts DEF TypeOK
<1>2. TypeOK'
  BY <1>t, <1>u, <1>1 DEF TypeOK
<1>3. /\ worker'[w].kind = k /\ worker'[w].target = r
      /\ worker'[w].stop <=> worker[w].stop \/ k = "stop_run"
  BY <1>t, <1>k, <1>1, ClaimRowFacts
<1>4. \A q \in Runs : Kept(q)
  BY <1>u, KeptSame
<1>5. ClaimInv(w)'
  <2>1. /\ k \in RunClaimKinds \cup {"stop_run"} => r \in RunsOf(w) /\ run[r].st # "none"
        /\ k \in ComputeKinds => InState(w, {"running", "settling"}) = {}
        /\ k = "idle" => InState(w, DispatchStates) = {}
        /\ k = "paused" => r \in RunsOf(w) \cup {0}
    BY <1>t, <1>k, PolicyFacts
  <2>2. worker[w].stop => \A q \in RunsOf(w) : ~Engaged(q)'
    BY <1>t, <1>k, <1>4 DEF ClaimInv, Kept, RunsOf
  <2>q. QED
    BY <1>k, <1>u, <1>3, <2>1, <2>2 DEF ClaimInv, RunsOf, InState
<1>q. QED
  BY <1>1, <1>2, <1>4, <1>5, <1>u, ControlFrame DEF RunsOf

\* The claim of a steer, with the replacement it inserts.
LEMMA ClaimSteerStep ==
    ASSUME ControlInv, NEW w \in Workers, NEW r \in Runs, NEW q \in Runs, ClaimSteer(w, r, q)
    PROVE  ControlInv'
<1>t. TypeOK /\ ClaimInv(w) /\ RowInv(q)
  BY LedgerByRows DEF ControlInv, LedgerInv
<1>k. /\ "steer_run" \in ClaimKinds /\ worker[w].kind = "none"
      /\ Policy(w, "steer_run", r, TRUE) /\ WorkerOf[q] = w /\ run[q].st = "none"
  BY DEF ClaimSteer, IsNextRun, ClaimKinds, RunClaimKinds
<1>u. UNCHANGED <<attempt, lease>>
  BY DEF ClaimSteer
<1>n. /\ run' \in [Runs -> RunRow] /\ run'[q] = NewRunRow
      /\ \A p \in Runs \ {q} : run'[p] = run[p]
  BY <1>t, NewRunRowType DEF ClaimSteer, TypeOK
<1>1. /\ worker'[w] = ClaimRow(w, "steer_run", r, q)
      /\ \A v \in Workers \ {w} : worker'[v] = worker[v]
      /\ worker' \in [Workers -> WorkerRow]
  BY <1>t, <1>k, ClaimRowFacts DEF ClaimSteer, TypeOK
<1>2. TypeOK'
  BY <1>t, <1>n, <1>u, <1>1 DEF TypeOK
<1>3. /\ worker'[w].kind = "steer_run" /\ worker'[w].target = r /\ worker'[w].repl = q
      /\ worker'[w].stop <=> worker[w].stop
  BY <1>t, <1>k, <1>1, ClaimRowFacts
<1>4. Kept(q)
  <2>1. lease[q].st # "active" /\ \A a \in Attempts : ~Open(attempt[q][a])
    BY <1>t, <1>k DEF RowInv, LeaseRows, AttemptRows
  <2>2. run'[q].st = "queued" /\ run'[q].att = 0 /\ run'[q].inv = 0
    BY <1>n DEF NewRunRow
  <2>3. RowInv(q)'
    BY <1>u, <2>1, <2>2
       DEF RowInv, AttemptRows, StepRows, RunRows, LeaseRows, TerminalStates
  <2>q. QED
    BY <2>2, <2>3 DEF Kept, InvokedLeftWait, Engaged, DispatchStates
<1>5. \A p \in Runs : Kept(p)
  BY <1>n, <1>u, <1>4, KeptSame
<1>6. ClaimInv(w)'
  <2>1. r \in RunsOf(w) /\ run[r].st # "none"
    BY <1>t, <1>k, PolicyFacts DEF RunClaimKinds
  <2>2. r # q /\ run'[r].st # "none" /\ run'[q].st = "queued" /\ q \in RunsOf(w)
    BY <1>k, <1>n, <2>1 DEF NewRunRow, RunsOf
  <2>3. worker[w].stop => \A p \in RunsOf(w) : ~Engaged(p)'
    BY <1>t, <1>k, <1>5 DEF ClaimInv, Kept, RunsOf
  <2>q. QED
    BY <1>3, <2>1, <2>2, <2>3 DEF ClaimInv, RunsOf, ComputeKinds
<1>q. QED
  BY <1>1, <1>2, <1>5, <1>6, <1>n, <1>u, <1>k, ControlFrame DEF RunsOf

\* A step that writes only the owner, the proof or the state of worker w.
LEMMA OwnerStep ==
    ASSUME ControlInv, NEW w \in Workers,
           OwnerLost(w) \/ Takeover(w) \/ ConfirmEffect(w) \/ BeginComputeStart(w)
    PROVE  ControlInv'
<1>t. TypeOK /\ ClaimInv(w) /\ worker \in [Workers -> WorkerRow] /\ worker[w] \in WorkerRow
  BY DEF ControlInv, LedgerInv, TypeOK
<1>u. UNCHANGED <<run, attempt, lease>>
  BY DEF OwnerLost, Takeover, ConfirmEffect, BeginComputeStart
<1>s. ASSUME NEW k \in ClaimKinds PROVE ClaimedState(w, k) \in WorkerStates
  BY <1>t DEF ClaimedState, WorkerStates, OpenWorkerStates, WorkerRow
<1>1. /\ worker' \in [Workers -> WorkerRow]
      /\ \A v \in Workers \ {w} : worker'[v] = worker[v]
      /\ worker'[w].kind = worker[w].kind /\ worker'[w].target = worker[w].target
      /\ worker'[w].repl = worker[w].repl /\ worker'[w].stop = worker[w].stop
  <2>1. CASE OwnerLost(w)
    BY <1>t, <2>1 DEF OwnerLost, WorkerRow
  <2>2. CASE Takeover(w)
    <3>1. PICK s \in WorkerStates :
              worker' = [worker EXCEPT ![w].held = TRUE, ![w].st = s]
      <4>1. worker[w].kind \in ClaimKinds
        BY <1>t, <2>2 DEF Takeover, WorkerRow
      <4>q. QED
        BY <1>s, <2>2, <4>1 DEF Takeover
    <3>2. worker' = [worker EXCEPT ![w] = [worker[w] EXCEPT !.held = TRUE, !.st = s]]
      BY <1>t, <3>1
    <3>3. [worker[w] EXCEPT !.held = TRUE, !.st = s] \in WorkerRow
      BY <1>t DEF WorkerRow
    <3>q. QED
      BY <1>t, <3>2, <3>3 DEF WorkerRow
  <2>3. CASE ConfirmEffect(w)
    BY <1>t, <2>3 DEF ConfirmEffect, WorkerRow
  <2>4. CASE BeginComputeStart(w)
    BY <1>t, <2>4, Names DEF BeginComputeStart, SetWorker, WorkerRow
  <2>q. QED
    BY <2>1, <2>2, <2>3, <2>4
<1>2. TypeOK'
  BY <1>t, <1>u, <1>1 DEF TypeOK
<1>3. \A q \in Runs : Kept(q)
  BY <1>u, KeptSame
<1>4. ClaimInv(w)'
  <2>1. worker[w].stop /\ worker[w].kind # "stop_run" => \A q \in RunsOf(w) : ~Engaged(q)'
    BY <1>t, <1>3 DEF ClaimInv, Kept, RunsOf
  <2>q. QED
    BY <1>t, <1>u, <1>1, <2>1 DEF ClaimInv, RunsOf, InState
<1>q. QED
  BY <1>1, <1>2, <1>3, <1>4, <1>u, ControlFrame DEF RunsOf

-----------------------------------------------------------------------------
\* Finalizing

\* A claim is cleared, the runs stay, the lease of one run may be released.
LEMMA ReleaseStep ==
    ASSUME ControlInv, NEW w \in Workers, worker[w].kind # "stop_run",
           NEW s \in WorkerStates, ClearClaim(w, s), UNCHANGED <<run, attempt>>,
           NEW t, lease' = lease \/ lease' = Release({t}), t \in Runs => t \in RunsOf(w)
    PROVE  ControlInv'
<1>t. TypeOK
  BY DEF ControlInv, LedgerInv
<1>1. /\ lease' \in [Runs -> LeaseRow]
      /\ \A r \in Runs : lease'[r] = lease[r] \/ (r = t /\ lease'[r].st # "active")
  <2>1. CASE lease' = lease
    BY <1>t, <2>1 DEF TypeOK
  <2>2. CASE lease' = Release({t})
    <3>1. lease' \in [Runs -> LeaseRow]
      BY <1>t, <2>2, ReleaseType DEF TypeOK
    <3>2. \A r \in Runs \ {t} : lease'[r] = lease[r]
      BY <2>2 DEF Release
    <3>3. t \in Runs => lease'[t].st # "active"
      BY <1>t, <2>2, ReleaseFacts
    <3>q. QED
      BY <3>1, <3>2, <3>3
  <2>q. QED
    BY <2>1, <2>2
<1>2. \A r \in Runs : Kept(r)
  BY <1>1, KeptSame
<1>3. \A r \in Runs \ RunsOf(w) : lease'[r] = lease[r]
  BY <1>1
<1>q. QED
  BY <1>1, <1>2, <1>3, <1>t, ClearedStep DEF TypeOK, RunsOf

\* A claim is cleared and its target t is rewritten, its lease kept or released.
LEMMA TargetStep ==
    ASSUME ControlInv, NEW w \in Workers, worker[w].kind # "stop_run",
           NEW s \in WorkerStates, ClearClaim(w, s), NEW t \in RunsOf(w), Kept(t),
           run' \in [Runs -> RunRow], attempt' \in [Runs -> [Attempts -> AttemptRow]],
           \A r \in Runs \ {t} : run'[r] = run[r] /\ attempt'[r] = attempt[r],
           lease' = lease \/ lease' = Release({t})
    PROVE  ControlInv'
<1>t. TypeOK
  BY DEF ControlInv, LedgerInv
<1>1. lease' \in [Runs -> LeaseRow] /\ \A r \in Runs \ {t} : lease'[r] = lease[r]
  BY <1>t, ReleasedHere DEF TypeOK
<1>2. \A r \in RunsOf(w) : Kept(r)
  BY <1>1, KeptSame DEF RunsOf
<1>q. QED
  BY <1>1, <1>2, ClearedStep DEF RunsOf

\* The state that the run rows suggest is a state.
LEMMA SuggestedState ==
    ASSUME NEW R, NEW idle \in WorkerStates
    PROVE  StateFromRuns(R, idle) \in WorkerStates
BY DEF StateFromRuns, WorkerStates, OpenWorkerStates

\* A target that the finalization ends.
LEMMA TerminatedStep ==
    ASSUME ControlInv, NEW w \in Workers, worker[w].kind # "stop_run",
           NEW s \in WorkerStates, ClearClaim(w, s), NEW t \in RunsOf(w),
           NEW e \in TerminalStates, run' = [run EXCEPT ![t] = Terminated(run[t], e)],
           UNCHANGED attempt, lease' = Release({t})
    PROVE  ControlInv'
<1>t. TypeOK /\ t \in Runs /\ run[t] \in RunRow
  BY DEF ControlInv, LedgerInv, TypeOK, RunsOf
<1>1. /\ run' \in [Runs -> RunRow] /\ run'[t] = Terminated(run[t], e)
      /\ \A r \in Runs \ {t} : run'[r] = run[r]
  BY <1>t, TerminatedType DEF TypeOK
<1>2. lease'[t].st # "active"
  BY <1>t, ReleasedHere
<1>3. Kept(t)
  BY <1>t, <1>1, <1>2, KeptTerminated
<1>q. QED
  BY <1>t, <1>1, <1>3, TargetStep DEF TypeOK

\* The target of a claim that needs one.
LEMMA TargetFacts ==
    ASSUME ControlInv, NEW w \in Workers, worker[w].kind \in RunClaimKinds
    PROVE  /\ TypeOK /\ worker[w].kind # "stop_run"
           /\ worker[w].target \in RunsOf(w) /\ worker[w].target \in Runs
           /\ run[worker[w].target] \in RunRow
           /\ RowInv(worker[w].target) /\ InvokedLeftWait(worker[w].target)
           /\ "ready" \in WorkerStates /\ "paused" \in WorkerStates
           /\ "starting" \in WorkerStates /\ "running" \in WorkerStates
<1>1. ClaimInv(w) /\ TypeOK
  BY DEF ControlInv, LedgerInv
<1>2. worker[w].target \in RunsOf(w) /\ worker[w].target \in Runs
  BY <1>1 DEF ClaimInv, RunsOf
<1>q. QED
  BY <1>1, <1>2, LedgerByRows
     DEF ControlInv, TypeOK, RunClaimKinds, WorkerStates, OpenWorkerStates

\* The states in which a pause and a steer may find their target.
LEMMA PauseTargets ==
    /\ ClaimableTargets("pause_run") = {"queued", "running", "settling"}
    /\ ClaimableTargets("steer_run") = {"queued", "running", "settling"}
BY DEF ClaimableTargets, StopKinds

\* The pause.
LEMMA PauseStep ==
    ASSUME ControlInv, NEW w \in Workers, NEW h \in BOOLEAN, FinalizePause(w, h)
    PROVE  ControlInv'
<1>k. worker[w].kind \in RunClaimKinds
  BY DEF FinalizePause, Owns, RunClaimKinds
<1>p. PICK t \in Runs : t = worker[w].target
  BY <1>k, TargetFacts
<1>t. /\ TypeOK /\ worker[w].kind # "stop_run" /\ t \in RunsOf(w) /\ t \in Runs
      /\ run[t] \in RunRow /\ RowInv(t) /\ InvokedLeftWait(t) /\ "paused" \in WorkerStates
  BY <1>k, <1>p, TargetFacts
<1>f. /\ run[t].st \in {"queued", "running", "settling"}
      /\ run' = [run EXCEPT ![t].st = "paused", ![t].due = TRUE]
      /\ lease' = lease \/ lease' = Release({t})
      /\ ClearClaim(w, "paused") /\ attempt' = attempt
  <2>1. \/ lease' = Release({worker[w].target})
        \/ lease' = lease
    BY DEF FinalizePause
  <2>q. QED
    BY <1>p, <2>1, PauseTargets DEF FinalizePause
<1>1. /\ run' \in [Runs -> RunRow] /\ \A r \in Runs \ {t} : run'[r] = run[r]
      /\ run'[t].st = "paused" /\ run'[t].att = run[t].att /\ run'[t].inv = run[t].inv
      /\ run'[t].wait = run[t].wait
  <2>1. run' = [run EXCEPT ![t] = [run[t] EXCEPT !.st = "paused", !.due = TRUE]]
    BY <1>t, <1>f DEF TypeOK
  <2>2. [run[t] EXCEPT !.st = "paused", !.due = TRUE] \in RunRow
    BY <1>t, Names, RunUpdates
  <2>q. QED
    BY <1>t, <2>1, <2>2 DEF TypeOK, RunRow
<1>2. lease'[t] = lease[t] \/ lease'[t].st # "active"
  BY <1>t, <1>f, ReleasedHere
<1>3. LeaseRows(t)'
  BY <1>t, <1>f, <1>1, <1>2 DEF RowInv, LeaseRows, TerminalStates
<1>4. AttemptRows(t)' /\ StepRows(t)' /\ RunRows(t)'
  BY <1>t, <1>f, <1>1 DEF RowInv, AttemptRows, StepRows, RunRows
<1>5. AttemptIs(t, "running")' => AttemptIs(t, "running") /\ run[t].st \in {"running", "settling"}
  <2>1. AttemptIs(t, "running")' => AttemptIs(t, "running")
    BY <1>f, <1>1 DEF AttemptIs
  <2>2. AttemptIs(t, "running") => run[t].st # "queued"
    BY <1>t DEF RowInv, AttemptRows, AttemptIs, Open
  <2>q. QED
    BY <1>f, <2>1, <2>2
<1>6. Kept(t)
  BY <1>t, <1>1, <1>3, <1>4, <1>5 DEF Kept, RowInv, InvokedLeftWait, Engaged, DispatchStates
<1>q. QED
  BY <1>t, <1>f, <1>1, <1>6, TargetStep DEF TypeOK

\* The resume that restarts the run.
LEMMA ResumeQueuedStep ==
    ASSUME ControlInv, NEW w \in Workers, FinalizeResumeQueued(w)
    PROVE  ControlInv'
<1>k. worker[w].kind \in RunClaimKinds
  BY DEF FinalizeResumeQueued, Owns, RunClaimKinds
<1>p. PICK t \in Runs : t = worker[w].target
  BY <1>k, TargetFacts
<1>t. /\ TypeOK /\ worker[w].kind # "stop_run" /\ t \in RunsOf(w) /\ t \in Runs
      /\ run[t] \in RunRow /\ RowInv(t) /\ "starting" \in WorkerStates
  BY <1>k, <1>p, TargetFacts
<1>f. /\ run[t].st = "paused"
      /\ run' = [run EXCEPT ![t] = Requeued(run[t], TRUE)]
      /\ attempt' = EndCurrent({t})
      /\ lease' = IF run[t].att # 0 THEN Release({t}) ELSE lease
      /\ ClearClaim(w, "starting")
  BY <1>p DEF FinalizeResumeQueued
<1>1. /\ run' \in [Runs -> RunRow] /\ \A r \in Runs \ {t} : run'[r] = run[r]
      /\ run'[t] = Requeued(run[t], TRUE)
  BY <1>t, <1>f, RequeuedType DEF TypeOK
<1>2. run'[t].st = "queued" /\ run'[t].att = 0 /\ run'[t].inv = 0
  BY <1>t, <1>1, RequeuedFields
<1>3. attempt' \in [Runs -> [Attempts -> AttemptRow]] /\ \A r \in Runs \ {t} : attempt'[r] = attempt[r]
  BY <1>t, <1>f, EndCurrentType DEF TypeOK, EndCurrent
<1>4. RowInv(t)'
  <2>1. CASE run[t].att # 0
    <3>1. lease'[t].st # "active"
      BY <1>t, <1>f, <2>1, ReleaseFacts
    <3>q. QED
      BY <1>t, <1>f, <1>1, <3>1, RequeuedRow
  <2>2. CASE run[t].att = 0
    <3>1. lease'[t] = lease[t] /\ 0 \notin Attempts
      BY <1>f, <2>2 DEF Attempts
    <3>2. ASSUME NEW a \in Attempts PROVE ~Open(attempt'[t][a])
      <4>1. attempt'[t][a] = IF a = run[t].att THEN Ended(attempt[t][a]) ELSE attempt[t][a]
        <5>1. attempt' = EndCurrent({t})
          BY <1>f
        <5>q. QED
          BY <1>t, <5>1, EndCurrentFacts
      <4>2. a # run[t].att /\ ~Open(attempt[t][a])
        BY <1>t, <2>2, <3>1 DEF RowInv, AttemptRows
      <4>q. QED
        BY <4>1, <4>2
    <3>3. LeaseRows(t)'
      BY <1>t, <1>2, <2>2, <3>1 DEF RowInv, LeaseRows, TerminalStates
    <3>q. QED
      BY <1>2, <3>2, <3>3 DEF RowInv, AttemptRows, StepRows, RunRows
  <2>q. QED
    BY <2>1, <2>2
<1>5. Kept(t)
  BY <1>2, <1>4 DEF Kept, InvokedLeftWait, Engaged, DispatchStates
<1>q. QED
  BY <1>t, <1>f, <1>1, <1>3, <1>5, TargetStep

\* The resume that goes on in place: the frozen generation was engaged all along.
LEMMA ResumeRunningStep ==
    ASSUME ControlInv, NEW w \in Workers, FinalizeResumeRunning(w)
    PROVE  ControlInv'
<1>k. worker[w].kind \in RunClaimKinds
  BY DEF FinalizeResumeRunning, Owns, RunClaimKinds
<1>p. PICK t \in Runs : t = worker[w].target
  BY <1>k, TargetFacts
<1>t. /\ TypeOK /\ worker[w].kind # "stop_run" /\ t \in RunsOf(w) /\ t \in Runs
      /\ run[t] \in RunRow /\ RowInv(t) /\ InvokedLeftWait(t) /\ "running" \in WorkerStates
  BY <1>k, <1>p, TargetFacts
<1>f. /\ run[t].st = "paused" /\ run[t].inv = run[t].att /\ AttemptIs(t, "running")
      /\ run' = [run EXCEPT ![t].st = "running", ![t].due = TRUE]
      /\ ClearClaim(w, "running") /\ UNCHANGED <<attempt, lease>>
  BY <1>p DEF FinalizeResumeRunning, RunningGenerationExact
<1>1. /\ run' \in [Runs -> RunRow] /\ \A r \in Runs \ {t} : run'[r] = run[r]
      /\ run'[t].st = "running" /\ run'[t].att = run[t].att /\ run'[t].inv = run[t].inv
      /\ run'[t].wait = run[t].wait
  <2>1. run' = [run EXCEPT ![t] = [run[t] EXCEPT !.st = "running", !.due = TRUE]]
    BY <1>t, <1>f DEF TypeOK
  <2>2. [run[t] EXCEPT !.st = "running", !.due = TRUE] \in RunRow
    BY <1>t, Names, RunUpdates
  <2>q. QED
    BY <1>t, <2>1, <2>2 DEF TypeOK, RunRow
<1>2. ~run[t].wait
  BY <1>t, <1>f DEF InvokedLeftWait
<1>3. AttemptIs(t, "running")'
  BY <1>f, <1>1 DEF AttemptIs
<1>4. AttemptRows(t)' /\ StepRows(t)' /\ RunRows(t)' /\ LeaseRows(t)'
  BY <1>t, <1>f, <1>1, <1>2, <1>3
     DEF RowInv, AttemptRows, StepRows, RunRows, LeaseRows, TerminalStates
<1>5. Kept(t)
  BY <1>f, <1>1, <1>2, <1>4 DEF Kept, RowInv, InvokedLeftWait, Engaged
<1>q. QED
  BY <1>t, <1>f, <1>1, <1>5, TargetStep DEF TypeOK

\* Every finalization of a claim on one run.
LEMMA RunClaimStep ==
    ASSUME ControlInv, NEW w \in Workers,
           \/ TerminalWon(w) \/ FinalizeInterrupt(w) \/ FinalizeMaxDuration(w)
           \/ \E h \in BOOLEAN : FinalizePause(w, h)
           \/ FinalizeResumeQueued(w) \/ FinalizeResumeRunning(w)
    PROVE  ControlInv'
<1>1. CASE TerminalWon(w)
  <2>k. worker[w].kind \in RunClaimKinds
    BY <1>1 DEF TerminalWon, Owns, RunClaimKinds
  <2>p. PICK t \in Runs : t = worker[w].target
    BY <2>k, TargetFacts
  <2>t. worker[w].kind # "stop_run" /\ t \in RunsOf(w) /\ "ready" \in WorkerStates
    BY <2>k, <2>p, TargetFacts
  <2>f. lease' = Release({t}) /\ ClearClaim(w, "ready") /\ UNCHANGED <<run, attempt>>
    BY <1>1, <2>p DEF TerminalWon
  <2>q. QED
    BY <2>t, <2>f, ReleaseStep
<1>2. CASE FinalizeInterrupt(w)
  <2>k. worker[w].kind \in RunClaimKinds
    BY <1>2 DEF FinalizeInterrupt, Owns, RunClaimKinds
  <2>p. PICK t \in Runs : t = worker[w].target
    BY <2>k, TargetFacts
  <2>t. /\ worker[w].kind # "stop_run" /\ t \in RunsOf(w) /\ "ready" \in WorkerStates
        /\ "interrupted" \in TerminalStates
    BY <2>k, <2>p, TargetFacts DEF TerminalStates
  <2>f. /\ run' = [run EXCEPT ![t] = Terminated(run[t], "interrupted")]
        /\ lease' = Release({t}) /\ ClearClaim(w, "ready") /\ UNCHANGED attempt
    BY <1>2, <2>p DEF FinalizeInterrupt
  <2>q. QED
    BY <2>t, <2>f, TerminatedStep
<1>3. CASE FinalizeMaxDuration(w)
  <2>k. worker[w].kind \in RunClaimKinds
    BY <1>3 DEF FinalizeMaxDuration, Owns, RunClaimKinds
  <2>p. PICK t \in Runs : t = worker[w].target
    BY <2>k, TargetFacts
  <2>t. /\ worker[w].kind # "stop_run" /\ t \in RunsOf(w) /\ "paused" \in WorkerStates
        /\ "cancelled" \in TerminalStates
    BY <2>k, <2>p, TargetFacts DEF TerminalStates
  <2>s. PICK s \in WorkerStates : ClearClaim(w, s)
    BY <1>3, <2>t, SuggestedState DEF FinalizeMaxDuration
  <2>f. /\ run' = [run EXCEPT ![t] = Terminated(run[t], "cancelled")] \/ run' = run
        /\ lease' = Release({t}) /\ UNCHANGED attempt
    BY <1>3, <2>p DEF FinalizeMaxDuration
  <2>1. CASE run' = run
    BY <2>t, <2>s, <2>f, <2>1, ReleaseStep
  <2>2. CASE run' = [run EXCEPT ![t] = Terminated(run[t], "cancelled")]
    BY <2>t, <2>s, <2>f, <2>2, TerminatedStep
  <2>q. QED
    BY <2>f, <2>1, <2>2
<1>q. QED
  BY <1>1, <1>2, <1>3, PauseStep, ResumeQueuedStep, ResumeRunningStep

\* The steer: the target is ended, or the replacement that nobody needs any more.
LEMMA SteerStep ==
    ASSUME ControlInv, NEW w \in Workers, FinalizeSteer(w)
    PROVE  ControlInv'
<1>k. worker[w].kind \in RunClaimKinds /\ worker[w].kind = "steer_run"
  BY DEF FinalizeSteer, Owns, RunClaimKinds
<1>p. PICK t \in Runs : t = worker[w].target
  BY <1>k, TargetFacts
<1>r. PICK q \in Runs : q = worker[w].repl /\ q \in RunsOf(w) /\ q # t
  BY <1>k, <1>p DEF ControlInv, ClaimInv, RunsOf
<1>t. /\ TypeOK /\ worker[w].kind # "stop_run" /\ t \in RunsOf(w)
      /\ "ready" \in WorkerStates /\ "starting" \in WorkerStates
      /\ "cancelled" \in TerminalStates /\ "interrupted" \in TerminalStates
  BY <1>k, <1>p, TargetFacts DEF TerminalStates
<1>s. PICK s \in WorkerStates : ClearClaim(w, s)
  BY <1>t DEF FinalizeSteer, SteerInterrupted, SteerTerminalWon, SteerConfirmed
<1>1. CASE run' = run /\ lease' = Release({t}) /\ UNCHANGED attempt
  BY <1>t, <1>s, <1>1, ReleaseStep
<1>2. ASSUME NEW e \in TerminalStates, run' = [run EXCEPT ![t] = Terminated(run[t], e)],
             lease' = Release({t}), UNCHANGED attempt
      PROVE  ControlInv'
  BY <1>2, <1>t, <1>s, TerminatedStep
<1>3. CASE /\ run' = [run EXCEPT ![q] = Terminated(run[q], "cancelled")]
           /\ lease' = Release({t, q}) /\ UNCHANGED attempt
  <2>1. /\ run' \in [Runs -> RunRow] /\ run'[q] = Terminated(run[q], "cancelled")
        /\ \A p \in Runs \ {q} : run'[p] = run[p]
    BY <1>t, <1>3, TerminatedType DEF TypeOK
  <2>2. /\ lease' \in [Runs -> LeaseRow]
        /\ \A p \in Runs \ {t, q} : lease'[p] = lease[p]
        /\ \A p \in {t, q} : lease'[p].st # "active"
    BY <1>t, <1>r, <1>3, ReleasedHere
  <2>3. Kept(q)
    BY <1>t, <1>3, <2>1, <2>2, KeptTerminated
  <2>4. \A p \in Runs : Kept(p)
    BY <1>3, <2>1, <2>2, <2>3, KeptSame
  <2>5. \A p \in Runs \ RunsOf(w) :
            run'[p] = run[p] /\ attempt'[p] = attempt[p] /\ lease'[p] = lease[p]
    BY <1>t, <1>r, <1>3, <2>1, <2>2
  <2>q. QED
    BY <1>t, <1>s, <1>3, <2>1, <2>2, <2>4, <2>5, ClearedStep DEF TypeOK, RunsOf
<1>4. \/ run' = run /\ lease' = Release({t})
      \/ /\ run' = [run EXCEPT ![q] = Terminated(run[q], "cancelled")]
         /\ lease' = Release({t, q})
      \/ /\ \/ run' = [run EXCEPT ![t] = Terminated(run[t], "cancelled")]
            \/ run' = [run EXCEPT ![t] = Terminated(run[t], "interrupted")]
         /\ lease' = Release({t})
  BY <1>p, <1>r DEF FinalizeSteer, SteerInterrupted, SteerTerminalWon, SteerConfirmed
<1>5. UNCHANGED attempt
  BY DEF FinalizeSteer
<1>q. QED
  BY <1>t, <1>1, <1>2, <1>3, <1>4, <1>5

\* A stop or a termination ends all the work of the worker.
LEMMA CancelStep ==
    ASSUME ControlInv, NEW w \in Workers, NEW s \in WorkerStates, CancelAll(w), ClearClaim(w, s)
    PROVE  ControlInv'
<1>t. TypeOK /\ \A r \in Runs : RowInv(r) /\ InvokedLeftWait(r)
  BY LedgerByRows DEF ControlInv
<1>c. /\ worker' \in [Workers -> WorkerRow]
      /\ \A v \in Workers \ {w} : worker'[v] = worker[v]
      /\ worker'[w].kind = "none" /\ worker'[w].stop = worker[w].stop
  BY <1>t, Cleared
<1>l. /\ lease' \in [Runs -> LeaseRow]
      /\ \A r \in Runs \ RunsOf(w) : lease'[r] = lease[r]
      /\ \A r \in RunsOf(w) : lease'[r].st # "active"
  <2>1. lease' = Release(RunsOf(w))
    BY DEF CancelAll
  <2>q. QED
    BY <1>t, <2>1, ReleasedHere
<1>a. ASSUME NEW r \in Runs, NEW a \in Attempts
      PROVE  /\ attempt'[r][a] \in AttemptRow
             /\ r \notin RunsOf(w) => attempt'[r][a] = attempt[r][a]
             /\ r \in RunsOf(w) => ~Open(attempt'[r][a])
             /\ attempt'[r][a].st # attempt[r][a].st => attempt'[r][a].st = "ended"
  <2>1. attempt[r][a] \in AttemptRow
    BY <1>t DEF TypeOK
  <2>2. attempt'[r][a] = IF WorkerOf[r] = w THEN Ended(attempt[r][a]) ELSE attempt[r][a]
    BY DEF CancelAll
  <2>3. Ended(attempt[r][a]) \in AttemptRow
    BY <2>1, Names DEF Ended, AttemptRow
  <2>q. QED
    BY <2>1, <2>2, <2>3, EndedFacts DEF RunsOf
<1>b. attempt' \in [Runs -> [Attempts -> AttemptRow]]
  <2>1. attempt' = [r \in Runs |-> [a \in Attempts |-> attempt'[r][a]]]
    BY DEF CancelAll
  <2>q. QED
    BY <1>a, <2>1
<1>r. /\ run' \in [Runs -> RunRow]
      /\ \A r \in Runs \ NonterminalOf(w) : run'[r] = run[r]
      /\ \A r \in NonterminalOf(w) : r \in RunsOf(w) /\ run'[r] = Terminated(run[r], "cancelled")
  <2>1. \A r \in Runs : Terminated(run[r], "cancelled") \in RunRow
    BY <1>t, TerminatedType DEF TypeOK, TerminalStates
  <2>q. QED
    BY <1>t, <2>1 DEF CancelAll, TypeOK, NonterminalOf, RunsOf
<1>1. ASSUME NEW r \in RunsOf(w) PROVE Kept(r) /\ ~Engaged(r)'
  <2>r. r \in Runs
    BY DEF RunsOf
  <2>1. CASE r \in NonterminalOf(w)
    <3>1. "cancelled" \in TerminalStates
      BY DEF TerminalStates
    <3>q. QED
      BY <1>a, <1>l, <1>r, <2>r, <2>1, <3>1, KeptTerminated
  <2>2. CASE r \notin NonterminalOf(w)
    <3>1. run[r].st \in TerminalStates \cup {"none"} /\ run'[r] = run[r]
      <4>1. run[r].st \in RunStates
        BY <1>t, <2>r DEF TypeOK, RunRow
      <4>q. QED
        BY <1>r, <2>r, <2>2, <4>1 DEF NonterminalOf, RunsOf, RunStates
    <3>2. RowInv(r)'
      BY <1>t, <1>a, <1>l, <2>r, <3>1
         DEF RowInv, AttemptRows, StepRows, RunRows, LeaseRows, TerminalStates
    <3>q. QED
      BY <3>1, <3>2 DEF Kept, InvokedLeftWait, Engaged, TerminalStates, DispatchStates
  <2>q. QED
    BY <2>1, <2>2
<1>2. \A r \in Runs \ RunsOf(w) :
          run'[r] = run[r] /\ attempt'[r] = attempt[r] /\ lease'[r] = lease[r]
  <2>1. \A r \in Runs \ RunsOf(w) : attempt'[r] = attempt[r]
    BY <1>a, <1>b, <1>t DEF TypeOK
  <2>q. QED
    BY <1>l, <1>r, <2>1
<1>3. ClaimInv(w)'
  BY <1>c, <1>1, ClearedInv
<1>4. TypeOK'
  BY <1>b, <1>c, <1>l, <1>r DEF TypeOK
<1>q. QED
  BY <1>c, <1>1, <1>2, <1>3, <1>4, ControlFrame

\* The release of the compute, and the claims that are given up.
LEMMA ComputeStep ==
    ASSUME ControlInv, NEW w \in Workers,
           FinalizeCompute(w) \/ AbandonResume(w) \/ AbandonIdle(w)
    PROVE  ControlInv'
<1>t. TypeOK /\ worker[w].st \in WorkerStates /\ "paused" \in WorkerStates /\ ClaimInv(w)
  BY DEF ControlInv, LedgerInv, TypeOK, WorkerRow, WorkerStates, OpenWorkerStates
<1>k. worker[w].kind # "stop_run"
  BY DEF FinalizeCompute, AbandonResume, AbandonIdle, Owns, ComputeKinds
<1>1. CASE AbandonResume(w)
  BY <1>1, <1>t, <1>k, ReleaseStep, RunsAssumption DEF AbandonResume
<1>2. CASE AbandonIdle(w)
  <2>1. PICK s \in WorkerStates : ClearClaim(w, s)
    BY <1>2, <1>t DEF AbandonIdle, WorkerStates, OpenWorkerStates
  <2>2. UNCHANGED <<run, attempt, lease>> /\ 0 \notin Runs
    BY <1>2, RunsAssumption DEF AbandonIdle
  <2>q. QED
    BY <1>k, <2>1, <2>2, ReleaseStep
<1>3. CASE FinalizeCompute(w)
  <2>1. PICK s \in WorkerStates : ClearClaim(w, s)
    <3>1. ComputeState(w) \in WorkerStates
      BY <1>t DEF ComputeState, WorkerStates, OpenWorkerStates
    <3>q. QED
      BY <1>3, <3>1 DEF FinalizeCompute
  <2>2. PICK t \in Runs \cup {0} : t = worker[w].target
    BY <1>t DEF TypeOK, WorkerRow
  <2>3. lease' = lease \/ (worker[w].kind = "paused" /\ lease' = Release({t}))
    BY <1>3, <2>2 DEF FinalizeCompute
  <2>4. UNCHANGED <<run, attempt>>
    BY <1>3 DEF FinalizeCompute
  <2>5. CASE lease' = lease
    <3>1. 0 \notin Runs
      BY RunsAssumption
    <3>q. QED
      BY <1>k, <2>1, <2>4, <2>5, <3>1, ReleaseStep
  <2>6. CASE worker[w].kind = "paused" /\ lease' = Release({t})
    <3>1. t \in Runs => t \in RunsOf(w)
      BY <1>t, <2>2, <2>6, RunsAssumption DEF ClaimInv
    <3>q. QED
      BY <1>k, <2>1, <2>4, <2>6, <3>1, ReleaseStep
  <2>q. QED
    BY <2>3, <2>5, <2>6
<1>q. QED
  BY <1>1, <1>2, <1>3

-----------------------------------------------------------------------------
\* The invariant is inductive under every step of the ledger and of the controls.
LEMMA ControlStepInv ==
    ASSUME ControlInv, NEW w \in Workers, ControlStep(w)
    PROVE  ControlInv'
<1>1. CASE FinalizeStop(w)
  <2>1. CancelAll(w) /\ ClearClaim(w, "ready") /\ "ready" \in WorkerStates
    BY <1>1 DEF FinalizeStop, WorkerStates, OpenWorkerStates
  <2>q. QED
    BY <2>1, CancelStep
<1>2. CASE FinalizeTermination(w)
  <2>1. CancelAll(w) /\ ClearClaim(w, "terminated") /\ "terminated" \in WorkerStates
    BY <1>2 DEF FinalizeTermination, WorkerStates, ClosedStates
  <2>q. QED
    BY <2>1, CancelStep
<1>q. QED
  BY <1>1, <1>2, ClaimHolds, ClaimSteerStep, OwnerStep, RunClaimStep, SteerStep, ComputeStep
     DEF ControlStep, FinalizeClaim

LEMMA ControlNextInv == ControlInv /\ [ControlNext]_vars => ControlInv'
<1> SUFFICES ASSUME ControlInv, [ControlNext]_vars PROVE ControlInv'
  OBVIOUS
<1>1. CASE [Next]_vars
  <2>1. LedgerInv'
    BY <1>1, LedgerNext DEF ControlInv
  <2>q. QED
    BY <1>1, <2>1, ClaimsUnderNext DEF ControlInv
<1>2. ASSUME NEW w \in Workers, ControlStep(w) PROVE ControlInv'
  BY <1>2, ControlStepInv
<1>q. QED
  BY <1>1, <1>2 DEF ControlNext

LEMMA ControlInit == Init => ControlInv
<1> SUFFICES ASSUME Init PROVE ControlInv
  OBVIOUS
<1>1. LedgerInv
  BY LedgerInit
<1>2. \A r \in Runs : run[r].st = "none"
  BY DEF Init
<1>3. \A r \in Runs : ~Engaged(r) /\ InvokedLeftWait(r)
  BY <1>2 DEF Engaged, InvokedLeftWait, DispatchStates
<1>4. \A w \in Workers : worker[w].kind = "none" /\ ~worker[w].stop
  BY DEF Init
<1>5. \A w \in Workers : ClaimInv(w)
  BY <1>4 DEF ClaimInv, RunClaimKinds, ComputeKinds
<1>q. QED
  BY <1>1, <1>3, <1>5 DEF ControlInv, EngagedExclusive

\* Whatever the controls, their recoveries and the ledger's transactions do to one
\* another, the invariant holds.
THEOREM ControlCorrect == ControlSpec => []ControlInv
BY ControlInit, ControlNextInv, PTL DEF ControlSpec

\* The finalizing transactions of the controls leave the tables as consistent as
\* the ledger's own: the invariant the recovery paths rely on survives them.
THEOREM LedgerUnderControl == ControlSpec => []LedgerInv
<1>1. ControlInv => LedgerInv
  BY DEF ControlInv
<1>q. QED
  BY <1>1, ControlCorrect, PTL

\* A resume that goes on in place does not give the worker a second run.
THEOREM ExclusionUnderControl == ControlSpec => []WorkerExclusive
<1>1. ControlInv => WorkerExclusive
  BY DEF ControlInv, LedgerInv
<1>q. QED
  BY <1>1, ControlCorrect, PTL

\* The compute of a worker is released only while nothing executes on it.
THEOREM ReleaseIsIdle == ControlSpec => []ReleaseFindsIdle
<1>1. ControlInv => ReleaseFindsIdle
  BY DEF ControlInv, ClaimInv, ReleaseFindsIdle
<1>q. QED
  BY <1>1, ControlCorrect, PTL

\* A settled Work Stop is final, and a steer keeps its replacement.
THEOREM StopsAndSteers == ControlSpec => []StopAndSteerHold
<1>1. ControlInv => StopAndSteerHold
  BY DEF ControlInv, ClaimInv, StopAndSteerHold, StopIsFinal, ReplacementHeld, Engaged, InState
<1>q. QED
  BY <1>1, ControlCorrect, PTL

\* What a control may make of a paused run.
PausedMoves(r) ==
    run[r].st = "paused" =>
        \/ run'[r].st \in {"paused"} \cup TerminalStates
        \/ W(r).kind = "resume_run" /\ W(r).target = r

\* No control wakes a paused run but the resume that targets it.
LEMMA PausedStep ==
    ASSUME ControlInv, [ControlNext]_vars, NEW r \in Runs
    PROVE  PausedMoves(r)
<1>t. LedgerInv /\ TypeOK /\ run[r] \in RunRow
  BY DEF ControlInv, LedgerInv, TypeOK
<1>1. CASE [Next]_vars
  BY <1>1, <1>t, NextMoves DEF Moves, PausedMoves
<1>u. ASSUME run'[r] = run[r] PROVE PausedMoves(r)
  BY <1>u DEF PausedMoves
<1>e. ASSUME NEW s \in TerminalStates, run'[r] = Terminated(run[r], s) PROVE PausedMoves(r)
  BY <1>e, <1>t, TerminatedFields DEF PausedMoves
<1>2. ASSUME NEW w \in Workers, ControlStep(w) PROVE PausedMoves(r)
  <2>1. CASE FinalizeResumeQueued(w) \/ FinalizeResumeRunning(w)
    <3>1. CASE r = worker[w].target
      <4>1. WorkerOf[r] = w /\ worker[w].kind = "resume_run"
        BY <2>1, <3>1 DEF FinalizeResumeQueued, FinalizeResumeRunning, Owns, ControlInv,
                          ClaimInv, RunClaimKinds, RunsOf
      <4>q. QED
        BY <3>1, <4>1 DEF PausedMoves, W
    <3>2. CASE r # worker[w].target
      BY <1>t, <1>u, <2>1, <3>2 DEF FinalizeResumeQueued, FinalizeResumeRunning, TypeOK
    <3>q. QED
      BY <3>1, <3>2
  <2>2. ASSUME NEW h \in BOOLEAN, FinalizePause(w, h) PROVE PausedMoves(r)
    <3>1. run'[r].st \in {run[r].st, "paused"}
      BY <1>t, <2>2 DEF FinalizePause, TypeOK, RunRow
    <3>q. QED
      BY <3>1 DEF PausedMoves
  <2>3. CASE FinalizeInterrupt(w) \/ FinalizeMaxDuration(w)
    BY <1>e, <1>t, <1>u, <2>3 DEF FinalizeInterrupt, FinalizeMaxDuration, TypeOK, TerminalStates
  <2>4. CASE FinalizeSteer(w)
    <3>1. \/ run'[r] = run[r] \/ run'[r] = Terminated(run[r], "cancelled")
          \/ run'[r] = Terminated(run[r], "interrupted")
      BY <1>t, <2>4 DEF FinalizeSteer, SteerInterrupted, SteerTerminalWon, SteerConfirmed, TypeOK
    <3>q. QED
      BY <1>e, <1>u, <3>1 DEF TerminalStates
  <2>5. CASE FinalizeStop(w) \/ FinalizeTermination(w)
    BY <1>e, <1>u, <2>5 DEF FinalizeStop, FinalizeTermination, CancelAll, TerminalStates
  <2>6. ASSUME NEW p \in Runs, NEW q \in Runs, ClaimSteer(w, p, q) PROVE PausedMoves(r)
    BY <1>t, <1>u, <2>6 DEF ClaimSteer, IsNextRun, TypeOK, PausedMoves
  <2>q. QED
    BY <1>2, <1>u, <2>1, <2>2, <2>3, <2>4, <2>5, <2>6
       DEF ControlStep, FinalizeClaim, Claim, OwnerLost, Takeover, ConfirmEffect, TerminalWon,
           FinalizeCompute, AbandonResume, AbandonIdle, BeginComputeStart
<1>q. QED
  BY <1>1, <1>2 DEF ControlNext

\* A paused run stays paused until the resume that targets it, or its end.
THEOREM PausedRunsStay == ControlSpec => PausedStaysPaused
<1>1. ControlInv /\ [ControlNext]_vars => [\A r \in Runs : PausedMoves(r)]_vars
  BY PausedStep
<1>q. QED
  BY <1>1, ControlCorrect, PTL DEF ControlSpec, PausedStaysPaused, PausedMoves
=============================================================================
