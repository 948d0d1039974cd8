---------------------------- MODULE DispatchProofs ----------------------------
(* Proofs about RunDispatch.  Every step of a processor thread, of a control as its caller runs
   it, of a close and of the lease reconciliation is a transaction of the ledger under
   lifecycle claims or leaves the rows alone; so what ControlProofs shows of the rows holds
   under the threads.  And a closed worker has no process.

   The last part shows that a worker never has two processes.  Its invariant follows a
   process from the guarded steps that start it to the thread that waits for it: the registered
   processor of its worker is that thread.  A step that neither invokes a run nor confirms a
   start is "calm": it moves no executing run to another attempt, confirms no lease and makes
   no claim, so it can only end what the invariant is about.  All but four steps are.        *)
EXTENDS RunDispatch, ControlProofs

(* The steps in which a thread has a run.                                    *)
RunSteps == {"lease", "admit", "unlease", "block", "blocked", "fail", "recover", "guard", "unstart",
             "invoke", "start", "observe", "mark", "work", "returned", "handle", "paused"}

(* What a thread knows at each step: its worker, its run, which is one of that worker, or the
   run that it only looked at.                                               *)
KnowsRun(row) ==
    /\ row \in ThreadRow
    /\ row.pc # "idle" => row.w \in Workers
    /\ row.run # 0 => WorkerOf[row.run] = row.w
    /\ row.pc \in RunSteps => row.run # 0
    /\ row.pc = "reserve" => row.peek # 0
    /\ row.pc = "requeue" => row.run # 0 \/ row.peek # 0

ThreadsKnow == thread \in [Threads -> ThreadRow] /\ \A t \in Threads : KnowsRun(thread[t])

(* A worker whose processes were stopped by its close has none.              *)
StoppedIsQuiet == \A p \in alive : closer[WorkerOf[p[1]]] # "complete"

DispatchInv ==
    /\ ControlInv
    /\ ThreadsKnow
    /\ closer \in [Workers -> CloseSteps]
    /\ \A p \in alive : p[1] \in Runs
    /\ ClosedIsQuiet /\ StoppedIsQuiet

(* No worker becomes terminated.                                             *)
KeepsOpen == \A w \in Workers : worker'[w].st = "terminated" => worker[w].st = "terminated"

(* A step of the rows as ControlProofs knows it, which terminates no worker. *)
RowStep == [ControlNext]_vars /\ KeepsOpen

-----------------------------------------------------------------------------
LEMMA RowsKept == ASSUME UNCHANGED vars PROVE RowStep
BY DEF RowStep, KeepsOpen, vars

LEMMA OpenKept == ASSUME UNCHANGED worker PROVE KeepsOpen
BY DEF KeepsOpen

LEMMA OpenSet ==
    ASSUME TypeOK, NEW w \in Workers, NEW s, SetWorker(w, s), s # "terminated"
    PROVE  KeepsOpen
BY DEF TypeOK, SetWorker, KeepsOpen, WorkerRow

LEMMA RunStepRow == ASSUME NEW r \in Runs, RunStep(r), KeepsOpen PROVE RowStep
BY DEF RowStep, ControlNext, Next

LEMMA WorkerStepRow == ASSUME NEW w \in Workers, WorkerStep(w), KeepsOpen PROVE RowStep
BY DEF RowStep, ControlNext, Next

LEMMA ClaimStepRow == ASSUME NEW w \in Workers, ControlStep(w), KeepsOpen PROVE RowStep
BY DEF RowStep, ControlNext

LEMMA ReleaseForRow == ASSUME NEW r \in Runs, ReleaseFor(r) PROVE RowStep
<1>0. KeepsOpen BY OpenKept DEF ReleaseFor
<1>1. CASE lease[r].st = "active" /\ lease[r].exec = Self /\ ~FencedByClaim(r)
  <2>1. ReleaseLease(r) BY <1>1 DEF ReleaseFor, ReleaseLease
  <2> QED BY <2>1, <1>0, RunStepRow DEF RunStep
<1>2. CASE ~(lease[r].st = "active" /\ lease[r].exec = Self /\ ~FencedByClaim(r))
  BY <1>2, RowsKept DEF ReleaseFor, vars
<1> QED BY <1>1, <1>2

LEMMA WriteWorkerRow ==
    ASSUME TypeOK, NEW w \in Workers, NEW s \in {"ready", "starting", "paused", "needs_input"},
           WriteWorker(w, s)
    PROVE  RowStep
<1>1. CASE worker[w].st \in ClosedStates BY <1>1, RowsKept DEF WriteWorker, vars
<1>2. CASE worker[w].st \notin ClosedStates
  <2>1. SetWorker(w, s) /\ UNCHANGED <<run, attempt, lease>> BY <1>2 DEF WriteWorker, SetWorker
  <2>2. UpdateWorkerState(w, s) /\ s \in WorkerWrites
    BY <1>2, <2>1, CallersAssumption DEF UpdateWorkerState
  <2>3. KeepsOpen BY <2>1, OpenSet
  <2> QED BY <2>2, <2>3, WorkerStepRow DEF WorkerStep
<1> QED BY <1>1, <1>2

LEMMA AcquireRow == ASSUME NEW r \in Runs, AcquireLease(r, Self) PROVE RowStep
BY OpenKept, RunStepRow, DispatchAssumption DEF AcquireLease, RunStep

LEMMA RequeueRow == ASSUME NEW r \in Runs, RequeueForRetry(r) PROVE RowStep
BY OpenKept, RunStepRow DEF RequeueForRetry, RunStep

LEMMA FinalizeRow ==
    ASSUME NEW r \in Runs, NEW s \in {"completed", "failed", "interrupted", "cancelled"},
           FinalizeRun(r, s)
    PROVE  RowStep
<1>1. s \in Outcomes BY CallersAssumption
<1> QED BY <1>1, OpenKept, RunStepRow DEF FinalizeRun, RunStep

LEMMA ClaimWritesRow ==
    ASSUME TypeOK, NEW w \in Workers, NEW r \in Claimable(w), NEW a \in Attempts,
           ClaimGuard(w, Self, FALSE, r, a), ClaimWrites(w, r, a)
    PROVE  RowStep
<1>1. ClaimNext(w, Self, FALSE) BY DEF ClaimNext
<1>2. WorkerStep(w) BY <1>1, DispatchAssumption DEF WorkerStep
<1>3. KeepsOpen BY OpenSet DEF ClaimWrites
<1> QED BY <1>2, <1>3, WorkerStepRow

LEMMA StartRows ==
    ASSUME TypeOK, NEW r \in Runs,
           \/ AdmitClaimed(r) \/ MarkInvoked(r) \/ ConfirmStart(r)
           \/ MarkTerminationUnconfirmed(r) \/ TransitionPaused(r) \/ MarkNeedsInput(r)
    PROVE  RowStep
<1>1. RunStep(r) BY DEF RunStep
<1>2. WorkerOf[r] \in Workers BY WorkerOfAssumption
<1>3. CASE ConfirmStart(r) BY <1>1, <1>2, <1>3, OpenSet, RunStepRow DEF ConfirmStart
<1>4. CASE ~ConfirmStart(r)
  BY <1>1, <1>4, OpenKept, RunStepRow
     DEF AdmitClaimed, MarkInvoked, MarkTerminationUnconfirmed, TransitionPaused, MarkNeedsInput
<1> QED BY <1>3, <1>4

-----------------------------------------------------------------------------
(* A thread's row *)

LEMMA RowSet ==
    ASSUME ThreadsKnow, NEW t \in Threads, NEW row, KnowsRun(row),
           thread' = [thread EXCEPT ![t] = row]
    PROVE  ThreadsKnow'
BY DEF ThreadsKnow, KnowsRun

LEMMA GotoKnows ==
    ASSUME ThreadsKnow, NEW t \in Threads, NEW pc \in Steps, Goto(t, pc),
           pc # "idle", thread[t].pc # "idle",
           pc \in RunSteps => thread[t].run # 0, pc # "reserve",
           pc = "requeue" => thread[t].run # 0 \/ thread[t].peek # 0
    PROVE  ThreadsKnow'
<1> PICK row : row = [thread[t] EXCEPT !.pc = pc] OBVIOUS
<1>1. thread[t] \in ThreadRow /\ KnowsRun(thread[t]) BY DEF ThreadsKnow
<1>2. row \in ThreadRow BY <1>1 DEF ThreadRow
<1>3. row.pc = pc /\ row.w = thread[t].w /\ row.run = thread[t].run /\ row.peek = thread[t].peek
  BY <1>1 DEF ThreadRow
<1>4. KnowsRun(row) BY <1>1, <1>2, <1>3 DEF KnowsRun
<1>5. thread' = [thread EXCEPT ![t] = row] BY DEF Goto
<1> QED BY <1>4, <1>5, RowSet

LEMMA EndsKnows ==
    ASSUME ThreadsKnow, NEW t \in Threads, NEW e \in Endings, Ends(t, e),
           thread[t].pc # "idle", thread[t].run # 0
    PROVE  ThreadsKnow'
<1> PICK row : row = [thread[t] EXCEPT !.pc = "returned", !.end = e] OBVIOUS
<1>1. thread[t] \in ThreadRow /\ KnowsRun(thread[t]) BY DEF ThreadsKnow
<1>2. row \in ThreadRow BY <1>1 DEF ThreadRow, Steps, GuardedSteps
<1>3. row.pc = "returned" /\ row.w = thread[t].w /\ row.run = thread[t].run
  BY <1>1 DEF ThreadRow
<1>4. KnowsRun(row) BY <1>1, <1>2, <1>3 DEF KnowsRun
<1>5. thread' = [thread EXCEPT ![t] = row] BY <1>1 DEF Ends, ThreadsKnow
<1> QED BY <1>4, <1>5, RowSet

-----------------------------------------------------------------------------
(* What a step of a thread that spawns nothing does.                         *)
ThreadOk == RowStep /\ ThreadsKnow' /\ closer' = closer /\ alive' \subseteq alive

LEMMA KnownRun ==
    ASSUME ThreadsKnow, NEW t \in Threads, thread[t].pc # "idle"
    PROVE  /\ thread[t].w \in Workers
           /\ thread[t].run # 0 => thread[t].run \in Runs /\ WorkerOf[thread[t].run] = thread[t].w
           /\ thread[t].peek # 0 => thread[t].peek \in Runs
           /\ thread[t].pc \in RunSteps => thread[t].run # 0
           /\ thread[t].pc = "reserve" => thread[t].peek # 0
           /\ thread[t].pc = "requeue" => thread[t].run # 0 \/ thread[t].peek # 0
BY DEF ThreadsKnow, KnowsRun, ThreadRow

LEMMA NewRowKnows ==
    ASSUME NEW w \in Workers, NEW pc \in {"top", "drop", "claim", "reserve"},
           NEW q \in Runs \cup {0}, NEW a \in 0 .. MaxAttempts, pc = "reserve" => q # 0,
           NEW row, row = [pc |-> pc, w |-> w, peek |-> q, run |-> 0, copy |-> a, att |-> 0,
                           tok |-> 0, guard |-> FALSE, end |-> "none"]
    PROVE  KnowsRun(row)
<1>1. pc \in Steps /\ pc \notin RunSteps /\ pc # "requeue" BY DEF Steps, RunSteps
<1>2. 0 \in 0 .. MaxAttempts /\ 0 \in 0 .. MaxTokens BY BoundsAssumption
<1>3. "none" \in Endings BY DEF Endings
<1>4. row \in ThreadRow BY <1>1, <1>2, <1>3 DEF ThreadRow
<1> QED BY <1>1, <1>4 DEF KnowsRun

LEMMA FreshKnows ==
    ASSUME ThreadsKnow, NEW t \in Threads, NEW w \in Workers, NEW pc \in {"top", "drop", "claim"},
           thread' = [thread EXCEPT ![t] = [NoThread EXCEPT !.w = w, !.pc = pc]]
    PROVE  ThreadsKnow'
<1>r. PICK row : row = [NoThread EXCEPT !.w = w, !.pc = pc] OBVIOUS
<1>1. row = [pc |-> pc, w |-> w, peek |-> 0, run |-> 0, copy |-> 0, att |-> 0,
             tok |-> 0, guard |-> FALSE, end |-> "none"]
  BY <1>r DEF NoThread
<1>2. /\ 0 \in 0 .. MaxAttempts /\ 0 \in Runs \cup {0}
      /\ pc \in {"top", "drop", "claim", "reserve"} /\ (pc = "reserve" => 0 # 0)
  BY BoundsAssumption
<1>3. KnowsRun(row) BY <1>1, <1>2, NewRowKnows
<1> QED BY <1>r, <1>3, RowSet

LEMMA TopOk == ASSUME TypeOK, ThreadsKnow, NEW t \in Threads, Top(t) PROVE ThreadOk
<1>0. thread[t].pc # "idle" BY DEF Top, At
<1>k. thread[t].w \in Workers BY <1>0, KnownRun
<1>1. RowStep /\ closer' = closer /\ alive' = alive BY RowsKept DEF Top, vars
<1>2. CASE thread' = [thread EXCEPT ![t] = [[NoThread EXCEPT !.w = thread[t].w] EXCEPT !.pc = "drop"]]
  <2>1. thread' = [thread EXCEPT ![t] = [NoThread EXCEPT !.w = thread[t].w, !.pc = "drop"]]
    BY <1>2 DEF NoThread
  <2> QED BY <1>1, <1>k, <2>1, FreshKnows DEF ThreadOk
<1>3. CASE thread' = [thread EXCEPT ![t] = [[NoThread EXCEPT !.w = thread[t].w] EXCEPT !.pc = "claim"]]
  <2>1. thread' = [thread EXCEPT ![t] = [NoThread EXCEPT !.w = thread[t].w, !.pc = "claim"]]
    BY <1>3 DEF NoThread
  <2> QED BY <1>1, <1>k, <2>1, FreshKnows DEF ThreadOk
<1>4. ASSUME NEW q \in Claimable(thread[t].w),
             thread' = [thread EXCEPT ![t] = [[NoThread EXCEPT !.w = thread[t].w]
                           EXCEPT !.pc = "reserve", !.peek = q, !.copy = run[q].att]]
      PROVE  ThreadOk
  <2>0. q \in Runs BY DEF Claimable
  <2>r. PICK row : row = [[NoThread EXCEPT !.w = thread[t].w]
                           EXCEPT !.pc = "reserve", !.peek = q, !.copy = run[q].att] OBVIOUS
  <2>1. row = [pc |-> "reserve", w |-> thread[t].w, peek |-> q, run |-> 0, copy |-> run[q].att,
               att |-> 0, tok |-> 0, guard |-> FALSE, end |-> "none"]
    BY <2>r DEF NoThread
  <2>2. run[q].att \in 0 .. MaxAttempts BY <2>0 DEF TypeOK, RunRow
  <2>4. /\ q # 0 /\ q \in Runs \cup {0}
        /\ "reserve" \in {"top", "drop", "claim", "reserve"}
    BY <2>0, RunsAssumption
  <2>5. KnowsRun(row) BY <1>k, <2>1, <2>2, <2>4, NewRowKnows
  <2>6. thread' = [thread EXCEPT ![t] = row] BY <1>4, <2>r
  <2> QED BY <1>1, <2>5, <2>6, RowSet DEF ThreadOk
<1> QED BY <1>2, <1>3, <1>4 DEF Top

(* Reserving, claiming and giving back.                                      *)
LEMMA ClaimingOk ==
    ASSUME TypeOK, ThreadsKnow, NEW t \in Threads,
           \/ Reserve(t) \/ ClaimStep(t) \/ Unclaimed(t) \/ Rest(t) \/ Lease(t)
           \/ Unlease(t) \/ Requeue(t) \/ Recover(t)
    PROVE  ThreadOk
<1>0. thread[t].pc # "idle"
  BY DEF Reserve, ClaimStep, Unclaimed, Rest, Lease, Unlease, Requeue, Recover, At
<1>1. closer' = closer /\ alive' \subseteq alive
  BY DEF Reserve, ClaimStep, Unclaimed, Rest, Lease, Unlease, Requeue, Recover
<1>k. /\ thread[t].w \in Workers
      /\ thread[t].run # 0 => thread[t].run \in Runs /\ WorkerOf[thread[t].run] = thread[t].w
      /\ thread[t].peek # 0 => thread[t].peek \in Runs
      /\ thread[t].pc \in RunSteps => thread[t].run # 0
      /\ thread[t].pc = "reserve" => thread[t].peek # 0
      /\ thread[t].pc = "requeue" => thread[t].run # 0 \/ thread[t].peek # 0
  BY <1>0, KnownRun
<1>g. ASSUME NEW pc \in Steps, Goto(t, pc), pc # "idle", pc \in RunSteps => thread[t].run # 0,
             pc # "reserve", pc = "requeue" => thread[t].run # 0 \/ thread[t].peek # 0
      PROVE  ThreadsKnow'
  BY <1>0, <1>g, GotoKnows
<1>2. CASE Reserve(t)
  <2>1. thread[t].pc = "reserve" /\ thread[t].peek \in Runs BY <1>2, <1>k DEF Reserve, At
  <2>2. RowStep BY <1>2, <2>1, AcquireRow, RowsKept DEF Reserve
  <2>3. \E pc \in {"claim", "drop", "requeue"} : Goto(t, pc) BY <1>2 DEF Reserve
  <2>4. ThreadsKnow' BY <1>g, <1>k, <2>1, <2>3 DEF Steps, RunSteps
  <2> QED BY <1>1, <2>2, <2>4 DEF ThreadOk
<1>3. CASE ClaimStep(t)
  <2>1. ASSUME NEW r \in Claimable(thread[t].w), NEW a \in Attempts,
               ClaimGuard(thread[t].w, Self, FALSE, r, a), ClaimWrites(thread[t].w, r, a),
               thread' = [thread EXCEPT ![t].pc = "lease", ![t].run = r, ![t].copy = a]
        PROVE  ThreadOk
    <3>1. RowStep BY <1>k, <2>1, ClaimWritesRow
    <3>2. r \in Runs /\ WorkerOf[r] = thread[t].w /\ a \in 0 .. MaxAttempts
      BY BoundsAssumption DEF Claimable, Attempts
    <3>r. PICK row : row = [thread[t] EXCEPT !.pc = "lease", !.run = r, !.copy = a] OBVIOUS
    <3>3. thread[t] \in ThreadRow BY DEF ThreadsKnow
    <3>4. row \in ThreadRow BY <3>2, <3>3, <3>r DEF ThreadRow, Steps
    <3>5. row.pc = "lease" /\ row.run = r /\ row.w = thread[t].w BY <3>3, <3>r DEF ThreadRow
    <3>6. r # 0 BY <3>2, RunsAssumption
    <3>7. KnowsRun(row) BY <1>k, <3>2, <3>4, <3>5, <3>6 DEF KnowsRun
    <3>8. thread' = [thread EXCEPT ![t] = row] BY <2>1, <3>r, <3>3 DEF ThreadsKnow
    <3> QED BY <1>1, <3>1, <3>7, <3>8, RowSet DEF ThreadOk
  <2>2. ASSUME Goto(t, "unclaimed"), UNCHANGED vars PROVE ThreadOk
    <3>1. ThreadsKnow' BY <1>g, <2>2 DEF Steps, RunSteps
    <3> QED BY <1>1, <2>2, <3>1, RowsKept DEF ThreadOk
  <2> QED BY <1>3, <2>1, <2>2 DEF ClaimStep
<1>4. CASE Unclaimed(t)
  <2>1. RowStep BY <1>4, <1>k, ReleaseForRow, RowsKept DEF Unclaimed
  <2>2. ThreadsKnow' BY <1>4, <1>g DEF Unclaimed, Steps, RunSteps
  <2> QED BY <1>1, <2>1, <2>2 DEF ThreadOk
<1>5. CASE Rest(t)
  <2>1. RowStep BY <1>5, <1>k, WriteWorkerRow, RowsKept DEF Rest
  <2>2. ThreadsKnow' BY <1>5, <1>g DEF Rest, Steps, RunSteps
  <2> QED BY <1>1, <2>1, <2>2 DEF ThreadOk
<1>6. CASE Lease(t)
  <2>0. thread[t].run \in Runs /\ thread[t].run # 0 BY <1>6, <1>k DEF Lease, At, RunSteps
  <2>1. RowStep BY <1>6, <2>0, AcquireRow, RowsKept DEF Lease
  <2>2. ASSUME NEW k \in 0 .. MaxTokens,
               thread' = [thread EXCEPT ![t].pc = "admit", ![t].att = thread[t].copy, ![t].tok = k]
        PROVE  ThreadsKnow'
    <3>r. PICK row : row = [thread[t] EXCEPT !.pc = "admit", !.att = thread[t].copy, !.tok = k] OBVIOUS
    <3>3. thread[t] \in ThreadRow /\ KnowsRun(thread[t]) BY DEF ThreadsKnow
    <3>4. row \in ThreadRow BY <3>3, <3>r DEF ThreadRow, Steps
    <3>5. row.pc = "admit" /\ row.run = thread[t].run /\ row.w = thread[t].w
      BY <3>3, <3>r DEF ThreadRow
    <3>7. KnowsRun(row) BY <1>k, <2>0, <3>4, <3>5 DEF KnowsRun
    <3>8. thread' = [thread EXCEPT ![t] = row] BY <2>2, <3>r, <3>3 DEF ThreadsKnow
    <3> QED BY <3>7, <3>8, RowSet
  <2>3. /\ lease[thread[t].run].tok \in 0 .. MaxTokens
        /\ lease[thread[t].run].tok < MaxTokens => lease[thread[t].run].tok + 1 \in 0 .. MaxTokens
    BY <2>0, BoundsAssumption DEF TypeOK, LeaseRow
  <2>4. ASSUME Goto(t, "recover") \/ Goto(t, "unlease") PROVE ThreadsKnow'
    BY <1>g, <2>0, <2>4 DEF Steps, RunSteps
  <2>5. ThreadsKnow' BY <1>6, <2>2, <2>3, <2>4 DEF Lease, AcquireLease
  <2> QED BY <1>1, <2>1, <2>5 DEF ThreadOk
<1>7. CASE Unlease(t)
  <2>0. thread[t].run \in Runs /\ thread[t].run # 0 BY <1>7, <1>k DEF Unlease, At, RunSteps
  <2>1. RowStep BY <1>7, <2>0, ReleaseForRow DEF Unlease
  <2>2. \E pc \in {"requeue", "block", "fail"} : Goto(t, pc) BY <1>7 DEF Unlease
  <2>3. ThreadsKnow' BY <1>g, <2>0, <2>2 DEF Steps, RunSteps
  <2> QED BY <1>1, <2>1, <2>3 DEF ThreadOk
<1>8. CASE Requeue(t)
  <2>0. Subject(t) \in Runs BY <1>8, <1>k DEF Requeue, At, Subject
  <2>1. RowStep BY <1>8, <2>0, RequeueRow, RowsKept DEF Requeue
  <2>2. \E pc \in {"ready", "exit"} : Goto(t, pc) BY <1>8 DEF Requeue
  <2>3. ThreadsKnow' BY <1>g, <2>2 DEF Steps, RunSteps
  <2> QED BY <1>1, <2>1, <2>3 DEF ThreadOk
<1>9. CASE Recover(t)
  <2>0. thread[t].run \in Runs /\ thread[t].run # 0 BY <1>9, <1>k DEF Recover, At, RunSteps
  <2>1. RowStep BY <1>9, <2>0, RequeueRow, RowsKept DEF Recover
  <2>2. \E pc \in {"ready", "exit"} : Goto(t, pc) BY <1>9 DEF Recover
  <2>3. ThreadsKnow' BY <1>g, <2>2 DEF Steps, RunSteps
  <2> QED BY <1>1, <2>1, <2>3 DEF ThreadOk
<1> QED BY <1>2, <1>3, <1>4, <1>5, <1>6, <1>7, <1>8, <1>9

(* Blocking, admitting and starting, except for the spawn itself. *)
LEMMA StartingOk ==
    ASSUME TypeOK, ThreadsKnow, NEW t \in Threads,
           \/ Ready(t) \/ Block(t) \/ Blocked(t) \/ Fail(t) \/ Admit(t) \/ Guard(t)
           \/ Unstart(t) \/ Invoke(t) \/ Observe(t) \/ Mark(t)
    PROVE  ThreadOk
<1>0. thread[t].pc # "idle"
  BY DEF Ready, Block, Blocked, Fail, Admit, Guard, Unstart, Invoke, Observe, Mark, At, Handle
<1>1. closer' = closer /\ alive' \subseteq alive
  BY DEF Ready, Block, Blocked, Fail, Admit, Guard, Unstart, Invoke, Observe, Mark
<1>k. /\ thread[t].w \in Workers
      /\ thread[t].run # 0 => thread[t].run \in Runs /\ WorkerOf[thread[t].run] = thread[t].w
      /\ thread[t].pc \in RunSteps => thread[t].run # 0
  BY <1>0, KnownRun
<1>g. ASSUME NEW pc \in Steps, Goto(t, pc), pc # "idle", pc \in RunSteps => thread[t].run # 0,
             pc # "reserve", pc = "requeue" => thread[t].run # 0
      PROVE  ThreadsKnow'
  BY <1>0, <1>g, GotoKnows
<1>2. CASE Ready(t)
  <2>1. RowStep BY <1>2, <1>k, WriteWorkerRow, RowsKept DEF Ready
  <2>2. \E pc \in {"exit"} : Goto(t, pc) BY <1>2 DEF Ready
  <2>3. ThreadsKnow' BY <1>g, <2>2 DEF Steps, RunSteps
  <2> QED BY <1>1, <2>1, <2>3 DEF ThreadOk
<1>3. CASE Block(t)
  <2>0. thread[t].run \in Runs /\ thread[t].run # 0 BY <1>3, <1>k DEF Block, At, RunSteps
  <2>1. RowStep BY <1>3, <2>0, <1>k, StartRows, RowsKept DEF Block
  <2>2. \E pc \in {"blocked"} : Goto(t, pc) BY <1>3 DEF Block
  <2>3. ThreadsKnow' BY <1>g, <2>0, <2>2 DEF Steps, GuardedSteps, RunSteps
  <2> QED BY <1>1, <2>1, <2>3 DEF ThreadOk
<1>4. CASE Blocked(t)
  <2>1. RowStep BY <1>4, <1>k, WriteWorkerRow, RowsKept DEF Blocked
  <2>2. \E pc \in {"exit"} : Goto(t, pc) BY <1>4 DEF Blocked
  <2>3. ThreadsKnow' BY <1>g, <2>2 DEF Steps, RunSteps
  <2> QED BY <1>1, <2>1, <2>3 DEF ThreadOk
<1>5. CASE Fail(t)
  <2>0. thread[t].run \in Runs /\ thread[t].run # 0 BY <1>5, <1>k DEF Fail, At, RunSteps
  <2>1. RowStep BY <1>5, <2>0, <1>k, FinalizeRow, RowsKept DEF Fail
  <2>2. \E pc \in {"ready"} : Goto(t, pc) BY <1>5 DEF Fail
  <2>3. ThreadsKnow' BY <1>g, <2>0, <2>2 DEF Steps, GuardedSteps, RunSteps
  <2> QED BY <1>1, <2>1, <2>3 DEF ThreadOk
<1>6. CASE Admit(t)
  <2>0. thread[t].run \in Runs /\ thread[t].run # 0 BY <1>6, <1>k DEF Admit, At, RunSteps
  <2>1. RowStep BY <1>6, <2>0, <1>k, StartRows, RowsKept DEF Admit
  <2>2. \E pc \in {"guard", "recover", "unlease"} : Goto(t, pc) BY <1>6 DEF Admit
  <2>3. ThreadsKnow' BY <1>g, <2>0, <2>2 DEF Steps, GuardedSteps, RunSteps
  <2> QED BY <1>1, <2>1, <2>3 DEF ThreadOk
<1>7. CASE Guard(t)
  <2>0. thread[t].run \in Runs /\ thread[t].run # 0 BY <1>7, <1>k DEF Guard, At, RunSteps
  <2>1. RowStep BY <1>7, RowsKept DEF Guard, vars
  <2>2. ASSUME thread' = [thread EXCEPT ![t].pc = "invoke", ![t].guard = TRUE] PROVE ThreadsKnow'
    <3>r. PICK row : row = [thread[t] EXCEPT !.pc = "invoke", !.guard = TRUE] OBVIOUS
    <3>3. thread[t] \in ThreadRow BY DEF ThreadsKnow
    <3>4. row \in ThreadRow BY <3>3, <3>r DEF ThreadRow, Steps, GuardedSteps
    <3>5. row.pc = "invoke" /\ row.run = thread[t].run /\ row.w = thread[t].w
      BY <3>3, <3>r DEF ThreadRow
    <3>7. KnowsRun(row) BY <1>k, <2>0, <3>4, <3>5 DEF KnowsRun
    <3>8. thread' = [thread EXCEPT ![t] = row] BY <2>2, <3>r, <3>3 DEF ThreadsKnow
    <3> QED BY <3>7, <3>8, RowSet
  <2>3. ASSUME Goto(t, "unstart") PROVE ThreadsKnow' BY <1>g, <2>0, <2>3 DEF Steps, RunSteps
  <2> QED BY <1>1, <1>7, <2>1, <2>2, <2>3 DEF ThreadOk, Guard
<1>8. CASE Unstart(t)
  <2>0. thread[t].run \in Runs /\ thread[t].run # 0 BY <1>8, <1>k DEF Unstart, At, RunSteps
  <2>1. RowStep BY <1>8, <2>0, <1>k, ReleaseForRow, RowsKept DEF Unstart
  <2>2. \E pc \in {"exit"} : Goto(t, pc) BY <1>8 DEF Unstart
  <2>3. ThreadsKnow' BY <1>g, <2>0, <2>2 DEF Steps, GuardedSteps, RunSteps
  <2> QED BY <1>1, <2>1, <2>3 DEF ThreadOk
<1>9. CASE Invoke(t)
  <2>0. thread[t].run \in Runs /\ thread[t].run # 0 BY <1>9, <1>k DEF Invoke, At, RunSteps
  <2>1. RowStep BY <1>9, <2>0, StartRows, RowsKept DEF Invoke
  <2>2. ASSUME thread' = [thread EXCEPT ![t].pc = "start", ![t].copy = run[thread[t].run].att,
                                       ![t].att = run[thread[t].run].att]
        PROVE  ThreadsKnow'
    <3>0. run[thread[t].run].att \in 0 .. MaxAttempts BY <2>0 DEF TypeOK, RunRow
    <3>r. PICK row : row = [thread[t] EXCEPT !.pc = "start", !.copy = run[thread[t].run].att,
                                             !.att = run[thread[t].run].att] OBVIOUS
    <3>3. thread[t] \in ThreadRow BY DEF ThreadsKnow
    <3>4. row \in ThreadRow BY <3>0, <3>3, <3>r DEF ThreadRow, Steps, GuardedSteps
    <3>5. row.pc = "start" /\ row.run = thread[t].run /\ row.w = thread[t].w
      BY <3>3, <3>r DEF ThreadRow
    <3>7. KnowsRun(row) BY <1>k, <2>0, <3>4, <3>5 DEF KnowsRun
    <3>8. thread' = [thread EXCEPT ![t] = row] BY <2>2, <3>r, <3>3 DEF ThreadsKnow
    <3> QED BY <3>7, <3>8, RowSet
  <2>3. ASSUME Ends(t, "rejected") PROVE ThreadsKnow' BY <1>0, <2>0, <2>3, EndsKnows DEF Endings
  <2> QED BY <1>1, <1>9, <2>1, <2>2, <2>3 DEF ThreadOk, Invoke
<1>10. CASE Observe(t)
  <2>0. thread[t].run \in Runs /\ thread[t].run # 0 BY <1>10, <1>k DEF Observe, At, RunSteps
  <2>1. RowStep BY <1>10, <2>0, StartRows, RowsKept DEF Observe
  <2>2. ASSUME NEW pc \in {"work", "mark"}, NEW g \in BOOLEAN, NEW e \in Endings, NEW row,
               row = [thread[t] EXCEPT !.pc = pc, !.guard = g, !.end = e],
               thread' = [thread EXCEPT ![t] = row]
        PROVE  ThreadsKnow'
    <3>3. thread[t] \in ThreadRow BY DEF ThreadsKnow
    <3>4. row \in ThreadRow BY <2>2, <3>3 DEF ThreadRow, Steps, GuardedSteps
    <3>5. row.pc = pc /\ row.run = thread[t].run /\ row.w = thread[t].w
      BY <2>2, <3>3 DEF ThreadRow
    <3>7. KnowsRun(row) BY <1>k, <2>0, <3>4, <3>5 DEF KnowsRun
    <3> QED BY <2>2, <3>7, RowSet
  <2>t. thread \in [Threads -> ThreadRow] /\ thread[t] \in ThreadRow BY DEF ThreadsKnow
  <2>3. ASSUME thread' = [thread EXCEPT ![t].pc = "work", ![t].guard = FALSE] PROVE ThreadsKnow'
    <3>r. PICK row : row = [thread[t] EXCEPT !.pc = "work", !.guard = FALSE, !.end = thread[t].end] OBVIOUS
    <3>1. thread[t].end \in Endings BY <2>t DEF ThreadRow
    <3>2. thread' = [thread EXCEPT ![t] = row] BY <2>t, <2>3, <3>r DEF ThreadRow
    <3> QED BY <2>2, <3>r, <3>1, <3>2
  <2>4. ASSUME thread' = [thread EXCEPT ![t].pc = "mark", ![t].end = "unconfirmed"] PROVE ThreadsKnow'
    <3>r. PICK row : row = [thread[t] EXCEPT !.pc = "mark", !.guard = thread[t].guard, !.end = "unconfirmed"] OBVIOUS
    <3>1. thread[t].guard \in BOOLEAN /\ "unconfirmed" \in Endings BY <2>t DEF ThreadRow, Endings
    <3>2. thread' = [thread EXCEPT ![t] = row] BY <2>t, <2>4, <3>r DEF ThreadRow
    <3> QED BY <2>2, <3>r, <3>1, <3>2
  <2>5. ASSUME Ends(t, "rejected") PROVE ThreadsKnow' BY <1>0, <2>0, <2>5, EndsKnows DEF Endings
  <2>6. ThreadsKnow' BY <1>10, <2>3, <2>4, <2>5 DEF Observe
  <2> QED BY <1>1, <2>1, <2>6 DEF ThreadOk
<1>11. CASE Mark(t)
  <2>0. thread[t].run \in Runs /\ thread[t].run # 0 BY <1>11, <1>k DEF Mark, At, RunSteps
  <2>1. RowStep BY <1>11, <2>0, <1>k, StartRows, RowsKept DEF Mark
  <2>2. \E pc \in {"returned"} : Goto(t, pc) BY <1>11 DEF Mark
  <2>3. ThreadsKnow' BY <1>g, <2>0, <2>2 DEF Steps, GuardedSteps, RunSteps
  <2> QED BY <1>1, <2>1, <2>3 DEF ThreadOk
<1> QED BY <1>2, <1>3, <1>4, <1>5, <1>6, <1>7, <1>8, <1>9, <1>10, <1>11

(* A terminal report writes an outcome or nothing, and goes on.              *)
LEMMA ReportOk ==
    ASSUME NEW t \in Threads, thread[t].run \in Runs,
           NEW S, NEW o \in {"completed", "failed", "interrupted", "cancelled"}, NEW next, NEW late,
           Report(t, S, o, next, late)
    PROVE  RowStep /\ (Goto(t, next) \/ Goto(t, late))
BY FinalizeRow, RowsKept DEF Report

(* Returning, reporting and leaving.                                         *)
LEMMA ReportingOk ==
    ASSUME TypeOK, ThreadsKnow, NEW t \in Threads,
           \/ Work(t) \/ Returned(t) \/ HandleStale(t) \/ HandleDone(t) \/ HandleError(t)
           \/ HandleTerminated(t) \/ HandleKilled(t) \/ Finish(t) \/ PausedWorker(t)
           \/ Exit(t) \/ Drop(t)
    PROVE  ThreadOk
<1>0. thread[t].pc # "idle"
  BY DEF Work, Returned, HandleStale, HandleDone, HandleError, HandleTerminated, HandleKilled,
         Finish, PausedWorker, Exit, Drop, At, Handle
<1>1. closer' = closer /\ alive' \subseteq alive
  BY DEF Work, Returned, HandleStale, HandleDone, HandleError, HandleTerminated, HandleKilled,
         Finish, PausedWorker, Exit, Drop
<1>k. /\ thread[t].w \in Workers
      /\ thread[t].run # 0 => thread[t].run \in Runs /\ WorkerOf[thread[t].run] = thread[t].w
      /\ thread[t].pc \in RunSteps => thread[t].run # 0
  BY <1>0, KnownRun
<1>h. ASSUME thread[t].pc \in {"work", "returned", "handle", "paused"}
      PROVE  thread[t].run \in Runs /\ thread[t].run # 0
  BY <1>h, <1>k DEF RunSteps
<1>g. ASSUME NEW pc \in Steps, Goto(t, pc), pc # "idle", pc \in RunSteps => thread[t].run # 0,
             pc # "reserve", pc = "requeue" => thread[t].run # 0
      PROVE  ThreadsKnow'
  BY <1>0, <1>g, GotoKnows
<1>2. CASE Work(t)
  <2>0. thread[t].run \in Runs /\ thread[t].run # 0 BY <1>2, <1>h DEF Work, At
  <2>1. RowStep BY <1>2, RowsKept DEF Work, vars
  <2>2. thread[t].end \in Endings BY DEF ThreadsKnow, ThreadRow
  <2>3. \E e \in Endings : Ends(t, e) BY <1>2, <2>2 DEF Work, Endings
  <2>4. ThreadsKnow' BY <1>0, <2>0, <2>3, EndsKnows
  <2> QED BY <1>1, <2>1, <2>4 DEF ThreadOk
<1>3. CASE Returned(t)
  <2>0. thread[t].run \in Runs /\ thread[t].run # 0 BY <1>3, <1>h DEF Returned, At
  <2>1. RowStep BY <1>3, <2>0, ReleaseForRow, RowsKept DEF Returned
  <2>2. run[thread[t].run].att \in 0 .. MaxAttempts BY <2>0 DEF TypeOK, RunRow
  <2>r. PICK row : row = [thread[t] EXCEPT !.pc = "handle", !.guard = FALSE,
                                           !.copy = run[thread[t].run].att] OBVIOUS
  <2>3. thread[t] \in ThreadRow BY DEF ThreadsKnow
  <2>4. row \in ThreadRow BY <2>2, <2>3, <2>r DEF ThreadRow, Steps, GuardedSteps
  <2>5. row.pc = "handle" /\ row.run = thread[t].run /\ row.w = thread[t].w
    BY <2>3, <2>r DEF ThreadRow
  <2>7. KnowsRun(row) BY <1>k, <2>0, <2>4, <2>5 DEF KnowsRun
  <2>8. thread' = [thread EXCEPT ![t] = row] BY <1>3, <2>r, <2>3 DEF ThreadsKnow, Returned
  <2> QED BY <1>1, <2>1, <2>7, <2>8, RowSet DEF ThreadOk
<1>4. CASE HandleStale(t) \/ HandleTerminated(t)
  <2>1. RowStep BY <1>4, RowsKept DEF HandleStale, HandleTerminated, vars
  <2>2. \E pc \in {"drop", "exit"} : Goto(t, pc) BY <1>4 DEF HandleStale, HandleTerminated
  <2>3. ThreadsKnow' BY <1>g, <2>2 DEF Steps, RunSteps
  <2> QED BY <1>1, <2>1, <2>3 DEF ThreadOk
<1>5. CASE HandleDone(t)
  <2>0. thread[t].run \in Runs BY <1>5, <1>h DEF HandleDone, Handle, At
  <2>1. RowStep /\ (Goto(t, "finish") \/ Goto(t, "top")) BY <1>5, <2>0, ReportOk DEF HandleDone
  <2>3. ThreadsKnow' BY <1>g, <2>1 DEF Steps, RunSteps
  <2> QED BY <1>1, <2>1, <2>3 DEF ThreadOk
<1>6. CASE HandleError(t)
  <2>0. thread[t].run \in Runs /\ thread[t].run # 0 BY <1>6, <1>h DEF HandleError, Handle, At
  <2>a. ASSUME Report(t, {"running"}, "interrupted", "exit", "exit")
        PROVE  RowStep /\ \E pc \in {"exit", "finish", "top", "requeue"} : Goto(t, pc)
    BY <2>a, <2>0, ReportOk
  <2>b. ASSUME Report(t, {"running"}, "cancelled", "exit", "exit")
        PROVE  RowStep /\ \E pc \in {"exit", "finish", "top", "requeue"} : Goto(t, pc)
    BY <2>b, <2>0, ReportOk
  <2>c. ASSUME Report(t, {"running"}, "failed", "finish", "top")
        PROVE  RowStep /\ \E pc \in {"exit", "finish", "top", "requeue"} : Goto(t, pc)
    BY <2>c, <2>0, ReportOk
  <2>d. ASSUME Goto(t, "requeue"), UNCHANGED vars
        PROVE  RowStep /\ \E pc \in {"exit", "finish", "top", "requeue"} : Goto(t, pc)
    BY <2>d, RowsKept
  <2>1. RowStep /\ \E pc \in {"exit", "finish", "top", "requeue"} : Goto(t, pc)
    BY <1>6, <2>a, <2>b, <2>c, <2>d DEF HandleError
  <2>3. ThreadsKnow' BY <1>g, <2>0, <2>1 DEF Steps, RunSteps
  <2> QED BY <1>1, <2>1, <2>3 DEF ThreadOk
<1>7. CASE HandleKilled(t)
  <2>0. thread[t].run \in Runs /\ thread[t].run # 0 BY <1>7, <1>h DEF HandleKilled, Handle, At
  <2>1. RowStep BY <1>7, <2>0, StartRows, RowsKept DEF HandleKilled
  <2>2. \E pc \in {"exit", "paused"} : Goto(t, pc) BY <1>7 DEF HandleKilled
  <2>3. ThreadsKnow' BY <1>g, <2>0, <2>2 DEF Steps, RunSteps
  <2> QED BY <1>1, <2>1, <2>3 DEF ThreadOk
<1>8. CASE Finish(t)
  <2>1. RowStep BY <1>8, <1>k, WriteWorkerRow DEF Finish
  <2>3. ThreadsKnow' BY <1>8, <1>g DEF Finish, Steps, RunSteps
  <2> QED BY <1>1, <2>1, <2>3 DEF ThreadOk
<1>9. CASE PausedWorker(t)
  <2>1. \E s \in {"ready", "starting", "paused"} : WriteWorker(thread[t].w, s)
    BY <1>9 DEF PausedWorker
  <2>2. RowStep BY <1>k, <2>1, WriteWorkerRow
  <2>3. ThreadsKnow' BY <1>9, <1>g DEF PausedWorker, Steps, RunSteps
  <2> QED BY <1>1, <2>2, <2>3 DEF ThreadOk
<1>10. CASE Exit(t)
  <2>1. RowStep BY <1>10, <1>k, ReleaseForRow, RowsKept DEF Exit
  <2>3. ThreadsKnow' BY <1>10, <1>g DEF Exit, Steps, RunSteps
  <2> QED BY <1>1, <2>1, <2>3 DEF ThreadOk
<1>11. CASE Drop(t)
  <2>1. RowStep BY <1>11, RowsKept DEF Drop, vars
  <2>2. NoThread \in ThreadRow BY BoundsAssumption DEF NoThread, ThreadRow, Steps, Endings
  <2>3. KnowsRun(NoThread) BY <2>2 DEF KnowsRun, NoThread, RunSteps
  <2>4. ThreadsKnow' BY <1>11, <2>3, RowSet DEF Drop
  <2> QED BY <1>1, <2>1, <2>4 DEF ThreadOk
<1> QED BY <1>2, <1>3, <1>4, <1>5, <1>6, <1>7, <1>8, <1>9, <1>10, <1>11

-----------------------------------------------------------------------------
(* The other actors' row steps.                                              *)

LEMMA RequeueUnconfirmedRow == ASSUME TypeOK, NEW r \in Runs, RequeueUnconfirmed(r) PROVE RowStep
<1>1. RunStep(r) BY DEF RunStep
<1>2. WorkerOf[r] \in Workers BY WorkerOfAssumption
<1>3. PICK s : SetWorker(WorkerOf[r], s) /\ (s = W(r).st \/ s = "starting")
  BY DEF RequeueUnconfirmed
<1>4. KeepsOpen BY <1>2, <1>3 DEF KeepsOpen, SetWorker, W, TypeOK, WorkerRow
<1> QED BY <1>1, <1>4, RunStepRow

LEMMA DowngradeOpen == ASSUME TypeOK, NEW R, Downgrade(R) PROVE KeepsOpen
<1>1. \A w \in Workers : worker[w] \in WorkerRow BY DEF TypeOK
<1>2. ASSUME NEW w \in Workers, worker'[w].st = "terminated" PROVE worker[w].st = "terminated"
  <2>1. worker'[w] = worker[w] \/ worker'[w] = [worker[w] EXCEPT !.st = "starting"]
    BY DEF Downgrade
  <2> QED BY <1>1, <1>2, <2>1 DEF WorkerRow
<1> QED BY <1>2 DEF KeepsOpen

LEMMA ReconcileRow ==
    ASSUME TypeOK, NEW r \in Runs,
           \/ ReconcileDeadLease(r) \/ MarkTerminationUnconfirmed(r) \/ RequeueUnconfirmed(r)
           \/ ReleaseLease(r) \/ ReleaseExpiredPreaccept(r) \/ Heartbeat(r, TRUE, TRUE)
    PROVE  RowStep
<1>1. CASE ReconcileDeadLease(r)
  <2>1. RunStep(r) BY <1>1 DEF RunStep
  <2>2. KeepsOpen BY <1>1, DowngradeOpen, OpenKept DEF ReconcileDeadLease
  <2> QED BY <2>1, <2>2, RunStepRow
<1>2. CASE MarkTerminationUnconfirmed(r) BY <1>2, StartRows
<1>3. CASE RequeueUnconfirmed(r) BY <1>3, RequeueUnconfirmedRow
<1>4. CASE ReleaseLease(r) \/ ReleaseExpiredPreaccept(r) \/ Heartbeat(r, TRUE, TRUE)
  <2>1. RunStep(r) BY <1>4 DEF RunStep
  <2>2. KeepsOpen BY <1>4, OpenKept DEF ReleaseLease, ReleaseExpiredPreaccept, Heartbeat
  <2> QED BY <2>1, <2>2, RunStepRow
<1> QED BY <1>1, <1>2, <1>3, <1>4

LEMMA ReconcileStaleOk ==
    ASSUME TypeOK, NEW r \in Runs, ReconcileStale(r)
    PROVE  RowStep /\ thread' = thread /\ closer' = closer /\ alive' \subseteq alive
<1>1. thread' = thread /\ closer' = closer BY DEF ReconcileStale
<1>2. alive' \subseteq alive
  BY DEF ReconcileStale, ReconcileConfirmed, ReconcileReserved, ReconcileUnconfirmed, Stopped
<1>3. \/ ReconcileDeadLease(r) \/ MarkTerminationUnconfirmed(r) \/ RequeueUnconfirmed(r)
      \/ ReleaseLease(r) \/ ReleaseExpiredPreaccept(r) \/ Heartbeat(r, TRUE, TRUE)
  BY DEF ReconcileStale, ReconcileConfirmed, ReconcileReserved, ReconcileUnconfirmed
<1> QED BY <1>1, <1>2, <1>3, ReconcileRow

LEMMA EnvironmentRow == ASSUME TypeOK, NEW r \in Runs, Environment(r) PROVE RowStep
<1>1. CASE ResumeNeedsInput(r)
  <2>1. WorkerOf[r] \in Workers BY WorkerOfAssumption
  <2>2. KeepsOpen BY <1>1, <2>1, OpenSet DEF ResumeNeedsInput
  <2> QED BY <1>1, <2>2, RunStepRow DEF RunStep
<1>2. CASE CreateRun(r) \/ ExpireQueued(r)
  BY <1>2, OpenKept, RunStepRow DEF RunStep, CreateRun, ExpireQueued
<1>3. CASE RetryDue(r) \/ QueueDeadlinePasses(r) \/ LeaseExpires(r)
  <2>1. KeepsOpen BY <1>3, OpenKept DEF RetryDue, QueueDeadlinePasses, LeaseExpires
  <2>2. ClockStep(r) BY <1>3 DEF ClockStep
  <2> QED BY <2>1, <2>2 DEF RowStep, ControlNext, Next
<1> QED BY <1>1, <1>2, <1>3 DEF Environment

LEMMA ClearOpen ==
    ASSUME TypeOK, NEW w \in Workers, NEW s, ClearClaim(w, s), s # "terminated"
    PROVE  KeepsOpen
BY DEF TypeOK, ClearClaim, KeepsOpen, WorkerRow

LEMMA ControlRow ==
    ASSUME TypeOK, NEW w \in Workers,
           \/ \E k \in Kinds, r \in Runs : Claim(w, k, r)
           \/ Takeover(w) \/ ConfirmEffect(w) \/ OwnerLost(w)
           \/ TerminalWon(w) \/ FinalizePause(w, TRUE) \/ FinalizeResumeQueued(w) \/ AbandonResume(w)
    PROVE  RowStep
<1>1. ControlStep(w) BY DEF ControlStep, FinalizeClaim
<1>2. worker[w] \in WorkerRow BY DEF TypeOK
<1>3. CASE \E k \in Kinds, r \in Runs : Claim(w, k, r)
  <2>1. PICK k \in Kinds, r \in Runs : Claim(w, k, r) BY <1>3
  <2>2. worker' = [worker EXCEPT ![w] = ClaimRow(w, k, r, 0)] BY <2>1 DEF Claim
  <2>3. ClaimRow(w, k, r, 0).st = "terminated" => worker[w].st = "terminated"
    BY DEF ClaimRow, ClaimedState
  <2>4. KeepsOpen BY <2>2, <2>3 DEF KeepsOpen, TypeOK
  <2> QED BY <1>1, <2>4, ClaimStepRow
<1>4. CASE Takeover(w)
  <2>1. worker' = [worker EXCEPT ![w].held = TRUE, ![w].st = ClaimedState(w, worker[w].kind)]
    BY <1>4 DEF Takeover
  <2>2. ClaimedState(w, worker[w].kind) = "terminated" => worker[w].st = "terminated"
    BY DEF ClaimedState
  <2>3. KeepsOpen BY <1>2, <2>1, <2>2 DEF KeepsOpen, TypeOK, WorkerRow
  <2> QED BY <1>1, <2>3, ClaimStepRow
<1>5. CASE ConfirmEffect(w) \/ OwnerLost(w)
  <2>1. KeepsOpen BY <1>2, <1>5 DEF ConfirmEffect, OwnerLost, KeepsOpen, TypeOK, WorkerRow
  <2> QED BY <1>1, <2>1, ClaimStepRow
<1>6. CASE TerminalWon(w) \/ FinalizePause(w, TRUE) \/ FinalizeResumeQueued(w) \/ AbandonResume(w)
  <2>1. \E s \in {"ready", "paused", "starting"} : ClearClaim(w, s)
    BY <1>6 DEF TerminalWon, FinalizePause, FinalizeResumeQueued, AbandonResume
  <2>2. KeepsOpen BY <2>1, ClearOpen
  <2> QED BY <1>1, <2>2, ClaimStepRow
<1> QED BY <1>3, <1>4, <1>5, <1>6

LEMMA StopReasonKnows ==
    ASSUME ThreadsKnow, NEW P, NEW e \in Endings, StopReason(P, e)
    PROVE  ThreadsKnow'
<1>1. ASSUME NEW t \in Threads PROVE thread'[t] \in ThreadRow /\ KnowsRun(thread'[t])
  <2>1. thread[t] \in ThreadRow /\ KnowsRun(thread[t]) BY DEF ThreadsKnow
  <2>2. thread'[t] = thread[t] \/ thread'[t] = [thread[t] EXCEPT !.end = e] BY DEF StopReason
  <2>r. PICK row : row = [thread[t] EXCEPT !.end = e] OBVIOUS
  <2>3. row \in ThreadRow BY <2>1, <2>r DEF ThreadRow
  <2>4. row.pc = thread[t].pc /\ row.w = thread[t].w /\ row.run = thread[t].run
        /\ row.peek = thread[t].peek
    BY <2>1, <2>r DEF ThreadRow
  <2>5. KnowsRun(row) BY <2>1, <2>3, <2>4 DEF KnowsRun
  <2> QED BY <2>1, <2>2, <2>3, <2>5, <2>r
<1>2. thread' \in [Threads -> ThreadRow] BY <1>1 DEF StopReason
<1> QED BY <1>1, <1>2 DEF ThreadsKnow

-----------------------------------------------------------------------------
(* The inductive invariant.                                                  *)

(* A step that spawns nothing, terminates nobody and does not end the killing of a close.     *)
LEMMA QuietStep ==
    ASSUME DispatchInv, RowStep, ThreadsKnow', alive' \subseteq alive,
           closer' \in [Workers -> CloseSteps],
           \A w \in Workers : closer'[w] = "complete" => closer[w] = "complete"
    PROVE  [ControlNext]_vars /\ DispatchInv'
<1>1. [ControlNext]_vars BY DEF RowStep
<1>2. ControlInv' BY <1>1, ControlNextInv DEF DispatchInv
<1>3. \A p \in alive' : p \in alive /\ p[1] \in Runs /\ WorkerOf[p[1]] \in Workers
  BY WorkerOfAssumption DEF DispatchInv
<1>4. ClosedIsQuiet' BY <1>3 DEF ClosedIsQuiet, DispatchInv, RowStep, KeepsOpen
<1>5. StoppedIsQuiet' BY <1>3 DEF StoppedIsQuiet, DispatchInv
<1> QED BY <1>1, <1>2, <1>3, <1>4, <1>5 DEF DispatchInv

LEMMA StartStep ==
    ASSUME DispatchInv, NEW t \in Threads, Start(t)
    PROVE  [ControlNext]_vars /\ DispatchInv'
<1>0. TypeOK BY DEF DispatchInv, ControlInv, LedgerInv
<1>k. /\ ThreadsKnow /\ thread[t].pc # "idle"
      /\ thread[t].run \in Runs /\ thread[t].run # 0 /\ WorkerOf[thread[t].run] = thread[t].w
      /\ thread[t].w \in Workers
  BY KnownRun DEF DispatchInv, Start, At, RunSteps
<1>1. RowStep /\ closer' = closer BY RowsKept DEF Start, vars
<1>2. CASE alive' = alive /\ Ends(t, "terminated")
  <2>1. ThreadsKnow' BY <1>2, <1>k, EndsKnows DEF Endings
  <2> QED BY <1>1, <1>2, <2>1, QuietStep DEF DispatchInv
<1>3. CASE /\ alive' = alive \cup {<<thread[t].run, thread[t].att>>}
           /\ Goto(t, "observe")
           /\ W(thread[t].run).st \notin ClosedStates
  <2>1. ThreadsKnow' BY <1>3, <1>k, GotoKnows DEF Steps, GuardedSteps, RunSteps
  <2>2. [ControlNext]_vars /\ ControlInv' BY <1>1, ControlNextInv DEF RowStep, DispatchInv
  <2>3. worker' = worker BY DEF Start, vars
  <2>4. PICK q : q = <<thread[t].run, thread[t].att>> OBVIOUS
  <2>5. q[1] = thread[t].run BY <2>4
  <2>6. alive' = alive \cup {q} BY <1>3, <2>4
  <2>7. worker[WorkerOf[q[1]]].st # "terminated" BY <1>3, <2>5 DEF W, ClosedStates
  <2>8. closer[WorkerOf[q[1]]] # "complete" BY <1>k, <2>5 DEF Start
  <2>9. ClosedIsQuiet' BY <2>3, <2>6, <2>7 DEF ClosedIsQuiet, DispatchInv
  <2>10. StoppedIsQuiet' BY <1>1, <2>6, <2>8 DEF StoppedIsQuiet, DispatchInv
  <2> QED BY <1>1, <1>k, <2>1, <2>2, <2>5, <2>6, <2>9, <2>10 DEF DispatchInv
<1> QED BY <1>2, <1>3 DEF Start

LEMMA CloseStepInv ==
    ASSUME DispatchInv, NEW w \in Workers, CloseStep(w)
    PROVE  [ControlNext]_vars /\ DispatchInv'
<1>0. TypeOK /\ ThreadsKnow /\ closer \in [Workers -> CloseSteps]
  BY DEF DispatchInv, ControlInv, LedgerInv
<1>c. ASSUME NEW pc \in {"none", "fence", "cancel", "kill"}, CloseTo(w, pc)
      PROVE  /\ closer' \in [Workers -> CloseSteps]
             /\ \A v \in Workers : closer'[v] = "complete" => closer[v] = "complete"
  BY <1>0, <1>c DEF CloseTo, CloseSteps
<1>1. CASE CloseIntent(w)
  <2>1. RowStep /\ thread' = thread /\ alive' = alive BY <1>1, RowsKept DEF CloseIntent, vars
  <2>2. ThreadsKnow' BY <1>0, <2>1 DEF ThreadsKnow
  <2> QED BY <1>1, <1>c, <2>1, <2>2, QuietStep DEF CloseIntent
<1>2. CASE CloseFence(w)
  <2>1. thread' = thread /\ alive' = alive BY <1>2 DEF CloseFence
  <2>2. ThreadsKnow' BY <1>0, <2>1 DEF ThreadsKnow
  <2>3. ASSUME BeginTermination(w) PROVE RowStep
    <3>1. KeepsOpen BY <1>0, <2>3, OpenSet DEF BeginTermination
    <3> QED BY <2>3, <3>1, WorkerStepRow DEF WorkerStep
  <2>4. RowStep BY <1>2, <2>3, RowsKept DEF CloseFence
  <2>5. \E pc \in {"none", "fence", "cancel", "kill"} : CloseTo(w, pc) BY <1>2 DEF CloseFence
  <2> QED BY <1>c, <2>1, <2>2, <2>4, <2>5, QuietStep
<1>3. CASE CloseCancel(w)
  <2>1. thread' = thread /\ alive' = alive /\ worker' = worker /\ CancelPending(w, "cancelled")
    BY <1>3 DEF CloseCancel, CancelPending
  <2>2. ThreadsKnow' BY <1>0, <2>1 DEF ThreadsKnow
  <2>3. "cancelled" \in Outcomes \cap {"cancelled", "failed"} BY CallersAssumption
  <2>4. RowStep BY <2>1, <2>3, OpenKept, WorkerStepRow DEF WorkerStep
  <2> QED BY <1>3, <1>c, <2>1, <2>2, <2>4, QuietStep DEF CloseCancel
<1>4. CASE CloseKill(w)
  <2>1. UNCHANGED vars /\ worker' = worker BY <1>4 DEF CloseKill, vars
  <2>2. [ControlNext]_vars /\ ControlInv' BY <2>1, ControlNextInv DEF DispatchInv
  <2>3. ThreadsKnow' BY <1>0, <1>4, StopReasonKnows DEF CloseKill, Endings
  <2>4. closer' = [closer EXCEPT ![w] = "complete"] BY <1>4 DEF CloseKill, CloseTo
  <2>5. \A p \in alive' : p \in alive /\ WorkerOf[p[1]] # w BY <1>4 DEF CloseKill
  <2>6. ClosedIsQuiet' BY <2>1, <2>5 DEF ClosedIsQuiet, DispatchInv
  <2>7. \A p \in alive : p[1] \in Runs /\ WorkerOf[p[1]] \in Workers
    BY WorkerOfAssumption DEF DispatchInv
  <2>8. StoppedIsQuiet' BY <1>0, <2>4, <2>5, <2>7 DEF StoppedIsQuiet, DispatchInv
  <2>9. closer' \in [Workers -> CloseSteps] BY <1>0, <2>4 DEF CloseSteps
  <2> QED BY <2>2, <2>3, <2>5, <2>6, <2>7, <2>8, <2>9 DEF DispatchInv
<1>5. CASE CloseFails(w)
  <2>1. thread' = thread /\ alive' = alive BY <1>5 DEF CloseFails
  <2>2. ThreadsKnow' BY <1>0, <2>1 DEF ThreadsKnow
  <2>3. ASSUME FailTermination(w) PROVE RowStep
    <3>1. KeepsOpen BY <1>0, <2>3, OpenSet DEF FailTermination
    <3> QED BY <2>3, <3>1, WorkerStepRow DEF WorkerStep
  <2>4. RowStep BY <1>5, <2>3, RowsKept DEF CloseFails
  <2> QED BY <1>5, <1>c, <2>1, <2>2, <2>4, QuietStep DEF CloseFails
<1>6. CASE CloseComplete(w)
  <2>1. thread' = thread /\ alive' = alive /\ CloseTo(w, "none") /\ closer[w] = "complete"
    BY <1>6 DEF CloseComplete
  <2>2. ThreadsKnow' BY <1>0, <2>1 DEF ThreadsKnow
  <2>3. CASE UNCHANGED vars BY <1>c, <2>1, <2>2, <2>3, RowsKept, QuietStep
  <2>4. CASE CompleteTermination(w)
    <3>1. [ControlNext]_vars BY <2>4 DEF ControlNext, Next, WorkerStep
    <3>2. ControlInv' BY <3>1, ControlNextInv DEF DispatchInv
    <3>3. \A p \in alive : p[1] \in Runs /\ WorkerOf[p[1]] \in Workers /\ WorkerOf[p[1]] # w
      BY <2>1, WorkerOfAssumption DEF DispatchInv, StoppedIsQuiet
    <3>4. \A v \in Workers : v # w => worker'[v] = worker[v]
      BY <1>0, <2>4 DEF CompleteTermination, SetWorker, TypeOK
    <3>5. ClosedIsQuiet' BY <2>1, <3>3, <3>4 DEF ClosedIsQuiet, DispatchInv
    <3>6. /\ closer' \in [Workers -> CloseSteps]
          /\ \A v \in Workers : closer'[v] = "complete" => closer[v] = "complete"
      BY <1>c, <2>1
    <3>7. StoppedIsQuiet' BY <2>1, <3>3, <3>6 DEF StoppedIsQuiet, DispatchInv
    <3> QED BY <2>1, <2>2, <3>1, <3>2, <3>3, <3>5, <3>6, <3>7 DEF DispatchInv
  <2> QED BY <1>6, <2>3, <2>4 DEF CloseComplete
<1> QED BY <1>1, <1>2, <1>3, <1>4, <1>5, <1>6 DEF CloseStep

LEMMA DispatchStepInv ==
    ASSUME DispatchInv, [DispatchNext]_dispatchVars
    PROVE  [ControlNext]_vars /\ DispatchInv'
<1>0. TypeOK /\ ThreadsKnow /\ closer \in [Workers -> CloseSteps]
  BY DEF DispatchInv, ControlInv, LedgerInv
<1>q. ASSUME RowStep, ThreadsKnow', closer' = closer, alive' \subseteq alive
      PROVE  [ControlNext]_vars /\ DispatchInv'
  BY <1>0, <1>q, QuietStep
<1>l. ASSUME thread' = thread PROVE ThreadsKnow'
  BY <1>0, <1>l DEF ThreadsKnow
<1>1. ASSUME NEW t \in Threads, ThreadStep(t) PROVE [ControlNext]_vars /\ DispatchInv'
  <2>1. ThreadOk \/ Start(t)
    BY <1>0, <1>1, TopOk, ClaimingOk, StartingOk, ReportingOk DEF ThreadStep
  <2> QED BY <1>q, <2>1, StartStep DEF ThreadOk
<1>2. ASSUME NEW t \in Threads, NEW w \in Workers, Ensure(w, t)
      PROVE  [ControlNext]_vars /\ DispatchInv'
  <2>1. RowStep /\ closer' = closer /\ alive' = alive BY <1>2, RowsKept DEF Ensure, vars
  <2>2. thread' = [thread EXCEPT ![t] = [NoThread EXCEPT !.w = w, !.pc = "top"]]
    BY <1>2 DEF Ensure, NoThread
  <2>3. ThreadsKnow' BY <1>0, <2>2, FreshKnows
  <2> QED BY <1>q, <2>1, <2>3
<1>3. ASSUME NEW w \in Workers, BeginControl(w) \/ FinishControl(w) \/ LoseControl(w)
      PROVE  [ControlNext]_vars /\ DispatchInv'
  <2>1. thread' = thread /\ closer' = closer /\ alive' = alive
    BY <1>3 DEF BeginControl, FinishControl, LoseControl, local
  <2>2. \/ \E k \in Kinds, r \in Runs : Claim(w, k, r)
        \/ Takeover(w) \/ ConfirmEffect(w) \/ OwnerLost(w)
        \/ TerminalWon(w) \/ FinalizePause(w, TRUE) \/ FinalizeResumeQueued(w) \/ AbandonResume(w)
    BY <1>3 DEF BeginControl, FinishControl, LoseControl
  <2> QED BY <1>0, <1>q, <1>l, <2>1, <2>2, ControlRow
<1>4. ASSUME NEW w \in Workers, KillTarget(w) PROVE [ControlNext]_vars /\ DispatchInv'
  <2>1. RowStep /\ closer' = closer /\ alive' \subseteq alive
    BY <1>4, RowsKept DEF KillTarget, vars
  <2>2. ThreadsKnow' BY <1>0, <1>4, StopReasonKnows DEF KillTarget, Endings
  <2> QED BY <1>q, <2>1, <2>2
<1>5. ASSUME NEW w \in Workers, Effect(w) PROVE [ControlNext]_vars /\ DispatchInv'
  <2>1. thread' = thread /\ closer' = closer /\ alive' = alive /\ ConfirmEffect(w)
    BY <1>5 DEF Effect
  <2> QED BY <1>0, <1>q, <1>l, <2>1, ControlRow
<1>6. ASSUME NEW r \in Runs, Environment(r) PROVE [ControlNext]_vars /\ DispatchInv'
  <2>1. thread' = thread /\ closer' = closer /\ alive' = alive BY <1>6 DEF Environment, local
  <2> QED BY <1>0, <1>q, <1>l, <1>6, <2>1, EnvironmentRow
<1>7. ASSUME NEW r \in Runs, ReconcileStale(r) PROVE [ControlNext]_vars /\ DispatchInv'
  BY <1>0, <1>q, <1>l, <1>7, ReconcileStaleOk
<1>8. CASE StrayEnds
  <2>1. thread' = thread /\ closer' = closer /\ alive' \subseteq alive /\ UNCHANGED vars
    BY <1>8 DEF StrayEnds, vars
  <2> QED BY <1>q, <1>l, <2>1, RowsKept
<1>9. CASE Reconcile
  <2>1. thread' = thread /\ closer' = closer /\ alive' = alive /\ ReconcileInvalidRunning
    BY <1>9 DEF Reconcile, local
  <2>2. KeepsOpen BY <1>0, <2>1, DowngradeOpen DEF ReconcileInvalidRunning
  <2>3. RowStep BY <2>1, <2>2 DEF RowStep, ControlNext, Next
  <2> QED BY <1>q, <1>l, <2>1, <2>3
<1>10. CASE UNCHANGED dispatchVars
  <2>1. thread' = thread /\ closer' = closer /\ alive' = alive /\ UNCHANGED vars
    BY <1>10 DEF dispatchVars, vars
  <2> QED BY <1>q, <1>l, <2>1, RowsKept
<1> QED
  BY <1>1, <1>2, <1>3, <1>4, <1>5, <1>6, <1>7, <1>8, <1>9, <1>10, CloseStepInv DEF DispatchNext

LEMMA DispatchInitInv == ASSUME DispatchInit PROVE DispatchInv
<1>1. Init /\ alive = {} BY DEF DispatchInit
<1>2. ControlInv BY <1>1, ControlInit
<1>3. closer \in [Workers -> CloseSteps] BY DEF DispatchInit, CloseSteps
<1>4. NoThread \in ThreadRow BY BoundsAssumption DEF NoThread, ThreadRow, Steps, Endings
<1>5. KnowsRun(NoThread) BY <1>4 DEF KnowsRun, NoThread, RunSteps
<1>6. ThreadsKnow BY <1>4, <1>5 DEF DispatchInit, ThreadsKnow
<1> QED BY <1>1, <1>2, <1>3, <1>6 DEF DispatchInv, ClosedIsQuiet, StoppedIsQuiet

-----------------------------------------------------------------------------
(* Under the threads, the controls and the closes the rows are consistent, a thread acts only on
   a run of its worker, and no process outlives the close of its worker.     *)
THEOREM DispatchCorrect == DispatchSpec => []DispatchInv
<1>1. DispatchInv /\ [DispatchNext]_dispatchVars => DispatchInv' BY DispatchStepInv
<1> QED BY <1>1, DispatchInitInv, PTL DEF DispatchSpec

(* The queue processors, the controls under the flock, the closes and the reconciliation do
   nothing to the rows but transactions of the ledger and of the lifecycle claims: the detailed
   specification implements the one the claims were proved about.            *)
THEOREM DispatchImplementsControl == DispatchSpec => ControlSpec
<1>1. DispatchInv /\ [DispatchNext]_dispatchVars => [ControlNext]_vars BY DispatchStepInv
<1>2. DispatchInit => Init BY DEF DispatchInit
<1> QED BY <1>1, <1>2, DispatchCorrect, PTL DEF DispatchSpec, ControlSpec

(* So one worker never has two dispatched runs, whatever the threads do with what they read. *)
THEOREM ExclusionUnderDispatch == DispatchSpec => []WorkerExclusive
BY DispatchImplementsControl, ExclusionUnderControl, PTL

(* A worker that terminate_worker closed has no process: the close stops the one there is and a
   processor that is under way spawns none after it.                         *)
THEOREM ClosedWorkersAreQuiet == DispatchSpec => []ClosedIsQuiet
<1>1. DispatchInv => ClosedIsQuiet BY DEF DispatchInv
<1> QED BY <1>1, DispatchCorrect, PTL

-----------------------------------------------------------------------------
(* One process: what a calm step does to the rows *)

(* The start of the run's current lease was confirmed: its process was identified.           *)
Confirmed(r) == lease[r].st = "active" /\ lease[r].start = "confirmed"

(* A confirmed lease is the one of an invocation that is under way, or was frozen there.     *)
ConfirmedRuns ==
    \A r \in Runs : Confirmed(r) =>
        run[r].st \in {"running", "settling", "paused"} /\ AttemptIs(r, "running")

(* A step that invokes and confirms nothing, as the rows of one run show it.                 *)
CalmRow(r) ==
    /\ run'[r].st = "running" => run[r].st = "running" /\ run'[r].att = run[r].att
    /\ lease'[r].st = "active" /\ lease'[r].start = "confirmed" =>
           /\ Confirmed(r) /\ lease'[r].att = lease[r].att
           /\ run'[r].st \in {"running", "settling", "paused"}
           /\ run'[r].att \in Attempts /\ attempt'[r][run'[r].att].st = "running"

(* ... and that makes no claim.                                                              *)
SameClaims ==
    \A w \in Workers : worker'[w].kind # "none" =>
        worker'[w].kind = worker[w].kind /\ worker'[w].target = worker[w].target

Calm == SameClaims /\ \A r \in Runs : CalmRow(r)

(* What the rows of the ledger are known to satisfy here.                                    *)
RowsKnown == LedgerInv /\ ConfirmedRuns

-----------------------------------------------------------------------------
LEMMA CalmSame ==
    ASSUME ConfirmedRuns, NEW r \in Runs, attempt'[r] = attempt[r],
           run'[r].st = run[r].st, run'[r].att = run[r].att,
           lease'[r].st = lease[r].st, lease'[r].start = lease[r].start, lease'[r].att = lease[r].att
    PROVE  CalmRow(r)
BY DEF ConfirmedRuns, CalmRow, Confirmed, AttemptIs

LEMMA CalmReleased ==
    ASSUME NEW r \in Runs, run'[r].st = "running" => run'[r] = run[r], lease'[r].st # "active"
    PROVE  CalmRow(r)
BY DEF CalmRow

LEMMA CalmUnconfirmed ==
    ASSUME ConfirmedRuns, NEW r \in Runs, run'[r].st # "running",
           lease'[r].st = "active" /\ lease'[r].start = "confirmed" => lease'[r] = lease[r],
           run[r].st \notin {"running", "settling", "paused"}
    PROVE  CalmRow(r)
BY DEF ConfirmedRuns, CalmRow, Confirmed

(* The rows of a run that a transaction does not name.                                       *)
LEMMA OtherRows ==
    ASSUME TypeOK, NEW R, NEW q \in Runs, q \notin R,
           \/ attempt' = attempt
           \/ attempt' = EndCurrent(R)
    PROVE  attempt'[q] = attempt[q]
BY DEF EndCurrent, TypeOK

LEMMA OtherLeases ==
    ASSUME TypeOK, NEW R, NEW q \in Runs, q \notin R, lease' = lease \/ lease' = Release(R)
    PROVE  lease'[q] = lease[q]
BY DEF Release, TypeOK

LEMMA ReleasedLease ==
    ASSUME TypeOK, NEW R, NEW q \in R, q \in Runs, lease' = Release(R)
    PROVE  lease'[q].st # "active"
BY ReleaseFacts

LEMMA ClaimsKept == ASSUME UNCHANGED worker PROVE SameClaims
BY DEF SameClaims

LEMMA SetKeepsClaims == ASSUME TypeOK, NEW w, NEW s, SetWorker(w, s) PROVE SameClaims
BY DEF SetWorker, SameClaims, TypeOK, WorkerRow

LEMMA VarsCalm == ASSUME ConfirmedRuns, UNCHANGED vars PROVE Calm
BY CalmSame, ClaimsKept DEF Calm, vars

(* A release of leases and nothing else.                                                     *)
LEMMA ReleaseCalm ==
    ASSUME RowsKnown, NEW R, UNCHANGED <<run, attempt, worker>>, lease' = lease \/ lease' = Release(R)
    PROVE  Calm
<1>0. TypeOK /\ ConfirmedRuns BY DEF RowsKnown, LedgerInv
<1>1. ASSUME NEW r \in Runs PROVE CalmRow(r)
  <2>1. CASE lease'[r].st = "active"
    <3>1. lease'[r] = lease[r] BY <1>0, <2>1, ReleaseFacts
    <3> QED BY <1>0, <3>1, CalmSame
  <2>2. CASE lease'[r].st # "active" BY <2>2, CalmReleased
  <2> QED BY <2>1, <2>2
<1> QED BY <1>1, ClaimsKept DEF Calm

LEMMA ReleaseForCalm == ASSUME RowsKnown, NEW r \in Runs, ReleaseFor(r) PROVE Calm
BY ReleaseCalm DEF ReleaseFor

LEMMA WriteWorkerCalm ==
    ASSUME RowsKnown, NEW w \in Workers, NEW s, WriteWorker(w, s)
    PROVE  Calm
<1>0. TypeOK /\ ConfirmedRuns BY DEF RowsKnown, LedgerInv
<1>1. \A r \in Runs : CalmRow(r) BY <1>0, CalmSame DEF WriteWorker
<1>2. SameClaims BY <1>0, SetKeepsClaims, ClaimsKept DEF WriteWorker, SetWorker
<1> QED BY <1>1, <1>2 DEF Calm

LEMMA AcquireCalm == ASSUME RowsKnown, NEW r \in Runs, AcquireLease(r, Self) PROVE Calm
<1>0. TypeOK /\ ConfirmedRuns BY DEF RowsKnown, LedgerInv
<1>1. ASSUME NEW q \in Runs, q # r PROVE CalmRow(q)
  BY <1>0, <1>1, CalmSame DEF AcquireLease, TypeOK
<1>2. CalmRow(r) BY <1>0 DEF AcquireLease, CalmRow, TypeOK
<1> QED BY <1>1, <1>2, ClaimsKept DEF Calm, AcquireLease

(* A lease that keeps its status, its start and its attempt.                                 *)
LEMMA LeaseCalm ==
    ASSUME RowsKnown, NEW r \in Runs, UNCHANGED <<run, attempt, worker>>,
           \/ Heartbeat(r, TRUE, TRUE) \/ LeaseExpires(r)
    PROVE  Calm
<1>0. TypeOK /\ ConfirmedRuns BY DEF RowsKnown, LedgerInv
<1>l. lease \in [Runs -> LeaseRow] /\ lease[r] \in LeaseRow BY <1>0 DEF TypeOK
<1>1. ASSUME NEW q \in Runs, q # r PROVE CalmRow(q)
  BY <1>0, <1>l, <1>1, CalmSame DEF Heartbeat, LeaseExpires
<1>2. /\ lease'[r].st = lease[r].st /\ lease'[r].start = lease[r].start
      /\ lease'[r].att = lease[r].att
  <2>1. CASE LeaseExpires(r) BY <1>l, <2>1 DEF LeaseExpires, LeaseRow
  <2>2. CASE Heartbeat(r, TRUE, TRUE)
    <3>r. PICK row : row = [lease[r] EXCEPT !.live = TRUE, !.ident = lease[r].ident \/ TRUE] OBVIOUS
    <3>1. lease' = [lease EXCEPT ![r] = row] BY <2>2, <3>r, Zenon DEF Heartbeat
    <3>2. row.st = lease[r].st /\ row.start = lease[r].start /\ row.att = lease[r].att
      BY <1>l, <3>r DEF LeaseRow
    <3> QED BY <1>l, <3>1, <3>2
  <2> QED BY <2>1, <2>2
<1>3. CalmRow(r) BY <1>0, <1>2, CalmSame
<1> QED BY <1>1, <1>3, ClaimsKept DEF Calm

(* What a confirmed lease says of the rows.                                  *)
LEMMA KnownRows ==
    ASSUME RowsKnown, NEW r \in Runs
    PROVE  /\ run[r] \in RunRow /\ attempt[r] \in [Attempts -> AttemptRow] /\ lease[r] \in LeaseRow
           /\ Confirmed(r) =>
                  /\ run[r].st \in {"running", "settling", "paused"} /\ AttemptIs(r, "running")
                  /\ run[r].att \in Attempts /\ run[r].att # 0 /\ lease[r].att = run[r].att
BY LedgerByRows DEF RowsKnown, ConfirmedRuns, TypeOK, RowInv, LeaseRows, Confirmed, AttemptIs, Attempts

(* The rows of one run change, the worker's does not.                                        *)
LEMMA OneRunCalm ==
    ASSUME RowsKnown, NEW r \in Runs, CalmRow(r), SameClaims,
           \A q \in Runs : q # r => run'[q] = run[q],
           \/ attempt' = attempt
           \/ attempt' = EndCurrent({r})
           \/ \E a \in Attempts, row \in AttemptRow : attempt' = [attempt EXCEPT ![r][a] = row],
           \/ lease' = lease
           \/ lease' = Release({r})
           \/ \E row : lease' = [lease EXCEPT ![r] = row]
    PROVE  Calm
<1>0. TypeOK /\ ConfirmedRuns BY DEF RowsKnown, LedgerInv
<1>1. ASSUME NEW q \in Runs, q # r PROVE CalmRow(q)
  <2>1. run'[q] = run[q] BY <1>1
  <2>2. attempt'[q] = attempt[q] BY <1>0, <1>1, OtherRows DEF TypeOK
  <2>3. lease'[q] = lease[q] BY <1>0, <1>1, OtherLeases DEF TypeOK
  <2> QED BY <1>0, <2>1, <2>2, <2>3, CalmSame
<1> QED BY <1>1 DEF Calm

LEMMA ClaimWritesCalm ==
    ASSUME RowsKnown, NEW w \in Workers, NEW r \in Claimable(w), NEW a \in Attempts,
           ClaimGuard(w, Self, FALSE, r, a), ClaimWrites(w, r, a)
    PROVE  Calm
<1>0. TypeOK /\ r \in Runs BY DEF RowsKnown, LedgerInv, Claimable
<1>1. run'[r].st = "claimed" BY <1>0 DEF ClaimWrites, TypeOK, RunRow
<1>2. CalmRow(r)
  <2>1. CASE lease[r].st = "active"
    <3>1. lease[r].start = "reserved" BY <2>1 DEF ClaimGuard, PreacceptOnly
    <3>r. PICK row : row = [lease[r] EXCEPT !.att = a, !.live = TRUE] OBVIOUS
    <3>2. lease' = [lease EXCEPT ![r] = row] BY <2>1, <3>r DEF ClaimWrites
    <3>3. lease'[r].start = "reserved" BY <1>0, <3>1, <3>r, <3>2 DEF TypeOK, LeaseRow
    <3> QED BY <1>1, <3>3 DEF CalmRow
  <2>2. CASE lease[r].st # "active"
    <3>1. lease' = lease BY <2>2 DEF ClaimWrites
    <3> QED BY <1>1, <2>2, <3>1 DEF CalmRow
  <2> QED BY <2>1, <2>2
<1>3. \A q \in Runs : q # r => run'[q] = run[q] /\ lease'[q] = lease[q] /\ attempt'[q] = attempt[q]
  BY <1>0 DEF ClaimWrites, TypeOK
<1>4. \A q \in Runs : q # r => CalmRow(q) BY <1>3, CalmSame DEF RowsKnown
<1>5. SameClaims BY <1>0, SetKeepsClaims DEF ClaimWrites
<1> QED BY <1>0, <1>2, <1>4, <1>5 DEF Calm

(* A run that leaves its attempt while its lease goes.                                       *)
LEMMA EndedCalm ==
    ASSUME RowsKnown, NEW r \in Runs, SameClaims, NEW row, row.st # "running",
           run' = [run EXCEPT ![r] = row], attempt' = EndCurrent({r}),
           \/ lease' = Release({r})
           \/ lease' = lease /\ ~Confirmed(r)
    PROVE  Calm
<1>0. TypeOK BY DEF RowsKnown, LedgerInv
<1>1. run'[r].st # "running" /\ \A q \in Runs : q # r => run'[q] = run[q] BY <1>0 DEF TypeOK
<1>2. CASE lease' = Release({r})
  <2>1. lease'[r].st # "active" BY <1>0, <1>2, ReleasedLease
  <2>2. CalmRow(r) BY <1>1, <2>1, CalmReleased
  <2> QED BY <1>1, <1>2, <2>2, OneRunCalm
<1>3. CASE lease' = lease /\ ~Confirmed(r)
  <2>1. CalmRow(r) BY <1>1, <1>3 DEF CalmRow, Confirmed
  <2> QED BY <1>1, <1>3, <2>1, OneRunCalm
<1> QED BY <1>2, <1>3

LEMMA RequeueCalm == ASSUME RowsKnown, NEW r \in Runs, RequeueForRetry(r) PROVE Calm
<1>k. /\ run[r] \in RunRow /\ (Confirmed(r) => lease[r].att = run[r].att) BY KnownRows
<1>1. Requeued(run[r], FALSE).st = "queued" BY <1>k, RequeuedFields
<1>2. lease' = Release({r}) \/ (lease' = lease /\ ~Confirmed(r)) BY <1>k DEF RequeueForRetry
<1>3. SameClaims BY ClaimsKept DEF RequeueForRetry
<1> QED BY <1>1, <1>2, <1>3, EndedCalm DEF RequeueForRetry

LEMMA FinalizeCalm ==
    ASSUME RowsKnown, NEW r \in Runs, NEW s \in TerminalStates, FinalizeRun(r, s) \/ (s = "failed" /\ ExpireQueued(r))
    PROVE  Calm
<1>k. run[r] \in RunRow BY KnownRows
<1>1. Terminated(run[r], s).st = s /\ s # "running" BY <1>k, TerminatedFields DEF TerminalStates
<1>3. SameClaims BY ClaimsKept DEF FinalizeRun, ExpireQueued
<1> QED BY <1>1, <1>3, EndedCalm DEF FinalizeRun, ExpireQueued

LEMMA RequeueUnconfirmedCalm == ASSUME RowsKnown, NEW r \in Runs, RequeueUnconfirmed(r) PROVE Calm
<1>k. run[r] \in RunRow /\ TypeOK BY KnownRows DEF RowsKnown, LedgerInv
<1>1. Requeued(run[r], FALSE).st = "queued" BY <1>k, RequeuedFields
<1>3. SameClaims BY <1>k, SetKeepsClaims DEF RequeueUnconfirmed
<1> QED BY <1>1, <1>3, EndedCalm DEF RequeueUnconfirmed

LEMMA NeedsInputCalm == ASSUME RowsKnown, NEW r \in Runs, MarkNeedsInput(r) PROVE Calm
<1>k. run[r] \in RunRow BY KnownRows
<1>r. PICK row : row = [run[r] EXCEPT !.st = "needs_input", !.due = TRUE] OBVIOUS
<1>1. row.st = "needs_input" BY <1>k, <1>r DEF RunRow
<1>2. ~Confirmed(r) BY KnownRows DEF MarkNeedsInput
<1>3. SameClaims BY ClaimsKept DEF MarkNeedsInput
<1>4. run' = [run EXCEPT ![r] = row] BY <1>r DEF MarkNeedsInput, RowsKnown, LedgerInv, TypeOK
<1> QED BY <1>1, <1>2, <1>3, <1>4, EndedCalm DEF MarkNeedsInput

(* A run that moves on with its attempt and its lease.                                       *)
LEMMA MovedCalm ==
    ASSUME RowsKnown, NEW r \in Runs, SameClaims, NEW row, run' = [run EXCEPT ![r] = row],
           row.st # "running" \/ row = run[r], lease' = lease,
           \/ ~Confirmed(r)
           \/ attempt' = attempt /\ row.st \in {"running", "settling", "paused"} /\ row.att = run[r].att,
           \/ attempt' = attempt
           \/ \E a \in Attempts, b \in AttemptRow : attempt' = [attempt EXCEPT ![r][a] = b]
    PROVE  Calm
<1>0. TypeOK BY DEF RowsKnown, LedgerInv
<1>1. run'[r] = row /\ \A q \in Runs : q # r => run'[q] = run[q] BY <1>0 DEF TypeOK
<1>2. CalmRow(r)
  <2>1. CASE ~Confirmed(r) BY <1>1, <2>1 DEF CalmRow, Confirmed
  <2>2. CASE Confirmed(r) BY <1>1, <2>2, KnownRows DEF CalmRow, AttemptIs
  <2> QED BY <2>1, <2>2
<1> QED BY <1>1, <1>2, OneRunCalm

LEMMA AdmitCalm == ASSUME RowsKnown, NEW r \in Runs, AdmitClaimed(r) PROVE Calm
<1>k. /\ run[r] \in RunRow /\ run \in [Runs -> RunRow] /\ attempt[r] \in [Attempts -> AttemptRow]
      /\ attempt \in [Runs -> [Attempts -> AttemptRow]]
  BY KnownRows DEF RowsKnown, LedgerInv, TypeOK
<1>1. ~Confirmed(r) /\ run[r].att \in Attempts BY KnownRows DEF AdmitClaimed, CanAdmit, AttemptIs
<1>r. PICK row : row = [run[r] EXCEPT !.st = "admitted"] OBVIOUS
<1>b. PICK b : b = [attempt[r][run[r].att] EXCEPT !.st = "admitted", !.bound = TRUE] OBVIOUS
<1>2. row.st = "admitted" /\ run' = [run EXCEPT ![r] = row] BY <1>k, <1>r DEF AdmitClaimed, RunRow
<1>3. b \in AttemptRow BY <1>k, <1>1, <1>b, AttemptUpdates
<1>4. attempt' = [attempt EXCEPT ![r][run[r].att] = b] BY <1>b DEF AdmitClaimed
<1>5. SameClaims /\ lease' = lease BY ClaimsKept DEF AdmitClaimed
<1>6. row.st # "running" BY <1>2
<1> QED BY <1>1, <1>2, <1>3, <1>4, <1>5, <1>6, MovedCalm

LEMMA PausedCalm == ASSUME RowsKnown, NEW r \in Runs, TransitionPaused(r) PROVE Calm
<1>k. run[r] \in RunRow /\ run \in [Runs -> RunRow] BY KnownRows DEF RowsKnown, LedgerInv, TypeOK
<1>r. PICK row : row = [run[r] EXCEPT !.st = "paused"] OBVIOUS
<1>1. row.st = "paused" /\ row.att = run[r].att /\ run' = [run EXCEPT ![r] = row]
  BY <1>k, <1>r DEF TransitionPaused, RunRow
<1>2. SameClaims /\ lease' = lease /\ attempt' = attempt BY ClaimsKept DEF TransitionPaused
<1>3. row.st # "running" /\ row.st \in {"running", "settling", "paused"} BY <1>1
<1> QED BY <1>1, <1>2, <1>3, MovedCalm

(* The clock and new and returning runs.                                                     *)
LEMMA EnvironmentCalm == ASSUME RowsKnown, NEW r \in Runs, Environment(r) PROVE Calm
<1>k. /\ run[r] \in RunRow /\ run \in [Runs -> RunRow] /\ TypeOK
      /\ Confirmed(r) => run[r].st \in {"running", "settling", "paused"}
  BY KnownRows DEF RowsKnown, LedgerInv, TypeOK
<1>1. CASE CreateRun(r)
  <2>1. NewRunRow.st = "queued" BY DEF NewRunRow
  <2>2. SameClaims /\ lease' = lease /\ attempt' = attempt /\ run' = [run EXCEPT ![r] = NewRunRow]
    BY <1>1, ClaimsKept DEF CreateRun
  <2>3. ~Confirmed(r) /\ NewRunRow.st # "running" BY <1>1, <1>k, <2>1 DEF CreateRun, IsNextRun
  <2> QED BY <2>2, <2>3, MovedCalm
<1>2. CASE ExpireQueued(r) BY <1>2, FinalizeCalm DEF TerminalStates
<1>3. CASE RetryDue(r) \/ QueueDeadlinePasses(r)
  <2>1. SameClaims /\ lease' = lease /\ attempt' = attempt BY <1>3, ClaimsKept DEF RetryDue, QueueDeadlinePasses
  <2>2. run'[r].st = run[r].st /\ run'[r].att = run[r].att
    BY <1>3, <1>k DEF RetryDue, QueueDeadlinePasses, RunRow
  <2>3. \A q \in Runs : q # r => run'[q] = run[q]
    BY <1>3, <1>k DEF RetryDue, QueueDeadlinePasses
  <2>4. CalmRow(r) BY <2>1, <2>2, CalmSame DEF RowsKnown
  <2> QED BY <2>1, <2>3, <2>4, OneRunCalm
<1>4. CASE ResumeNeedsInput(r)
  <2>r. PICK row : row = [ReopenWait(run[r]) EXCEPT !.st = "queued", !.due = TRUE] OBVIOUS
  <2>1. row.st = "queued" BY <1>k, <2>r DEF ReopenWait, RunRow
  <2>2. ~Confirmed(r) /\ row.st # "running" BY <1>4, <1>k, <2>1 DEF ResumeNeedsInput
  <2>3. SameClaims BY <1>4, <1>k, SetKeepsClaims DEF ResumeNeedsInput
  <2>4. run' = [run EXCEPT ![r] = row] BY <1>4, <2>r DEF ResumeNeedsInput
  <2>5. lease' = lease /\ attempt' = attempt BY <1>4 DEF ResumeNeedsInput
  <2> QED BY <2>2, <2>3, <2>4, <2>5, MovedCalm
<1>5. CASE LeaseExpires(r) BY <1>5, LeaseCalm DEF LeaseExpires
<1> QED BY <1>1, <1>2, <1>3, <1>4, <1>5 DEF Environment

LEMMA DowngradeCalm == ASSUME RowsKnown, NEW R, Downgrade(R) PROVE Calm
<1>0. TypeOK /\ ConfirmedRuns BY DEF RowsKnown, LedgerInv
<1>1. ASSUME NEW q \in Runs PROVE CalmRow(q)
  <2>1. CASE q \in R
    <3>1. lease'[q].st # "active" BY <1>0, <2>1, ReleasedLease DEF Downgrade
    <3>2. run'[q] = Requeued(run[q], TRUE) BY <2>1 DEF Downgrade
    <3>3. run'[q].st = "queued" BY <3>2, <1>0, RequeuedFields DEF TypeOK
    <3> QED BY <3>1, <3>3, CalmReleased
  <2>2. CASE q \notin R
    <3>1. run'[q] = run[q] BY <2>2 DEF Downgrade
    <3>2. attempt'[q] = attempt[q] /\ lease'[q] = lease[q]
      BY <1>0, <2>2, OtherRows, OtherLeases DEF Downgrade
    <3> QED BY <1>0, <3>1, <3>2, CalmSame
  <2> QED BY <2>1, <2>2
<1>2. SameClaims BY <1>0 DEF SameClaims, Downgrade, TypeOK, WorkerRow
<1> QED BY <1>1, <1>2 DEF Calm

LEMMA UnconfirmedCalm == ASSUME RowsKnown, NEW r \in Runs, MarkTerminationUnconfirmed(r) PROVE Calm
<1>k. /\ run[r] \in RunRow /\ run \in [Runs -> RunRow] /\ lease \in [Runs -> LeaseRow]
      /\ attempt \in [Runs -> [Attempts -> AttemptRow]]
  BY KnownRows DEF RowsKnown, LedgerInv, TypeOK
<1>1. lease'[r].start = "termination_unconfirmed" /\ \A q \in Runs : q # r => lease'[q] = lease[q]
  BY <1>k DEF MarkTerminationUnconfirmed, LeaseRow
<1>2. run'[r] = run[r] \/ run'[r].st = "settling"
  BY <1>k DEF MarkTerminationUnconfirmed, RunRow
<1>3. CalmRow(r) BY <1>1, <1>2 DEF CalmRow
<1>4. \A q \in Runs : q # r => run'[q] = run[q] /\ attempt'[q] = attempt[q]
  BY <1>k DEF MarkTerminationUnconfirmed
<1>5. \A q \in Runs : q # r => CalmRow(q) BY <1>1, <1>4, CalmSame DEF RowsKnown
<1> QED BY <1>3, <1>5, ClaimsKept DEF Calm, MarkTerminationUnconfirmed

LEMMA ReconcileCalm == ASSUME RowsKnown, NEW r \in Runs, ReconcileStale(r) PROVE Calm
<1>1. \/ ReconcileDeadLease(r) \/ MarkTerminationUnconfirmed(r) \/ RequeueUnconfirmed(r)
      \/ ReleaseLease(r) \/ ReleaseExpiredPreaccept(r) \/ Heartbeat(r, TRUE, TRUE)
  BY DEF ReconcileStale, ReconcileConfirmed, ReconcileReserved, ReconcileUnconfirmed
<1>2. CASE ReconcileDeadLease(r) BY <1>2, DowngradeCalm, ReleaseCalm DEF ReconcileDeadLease
<1>3. CASE ReleaseLease(r) \/ ReleaseExpiredPreaccept(r)
  BY <1>3, ReleaseCalm DEF ReleaseLease, ReleaseExpiredPreaccept
<1>4. CASE Heartbeat(r, TRUE, TRUE)
  <2>1. UNCHANGED <<run, attempt, worker>> BY <1>4, Zenon DEF Heartbeat
  <2> QED BY <1>4, <2>1, LeaseCalm
<1> QED BY <1>1, <1>2, <1>3, <1>4, UnconfirmedCalm, RequeueUnconfirmedCalm

LEMMA ClearedClaims == ASSUME TypeOK, NEW w \in Workers, NEW s, ClearClaim(w, s) PROVE SameClaims
BY DEF TypeOK, ClearClaim, SameClaims, WorkerRow

LEMMA FinishCalm ==
    ASSUME RowsKnown, ControlInv, NEW w \in Workers,
           \/ TerminalWon(w) \/ FinalizePause(w, TRUE) \/ FinalizeResumeQueued(w) \/ AbandonResume(w)
    PROVE  Calm
<1>0. TypeOK BY DEF RowsKnown, LedgerInv
<1>s. SameClaims
  BY <1>0, ClearedClaims DEF TerminalWon, FinalizePause, FinalizeResumeQueued, AbandonResume
<1>t. PICK t : t = worker[w].target OBVIOUS
<1>k. ASSUME worker[w].kind \in {"pause_run", "resume_run"}
      PROVE  /\ t \in Runs /\ run[t] \in RunRow
             /\ Confirmed(t) => /\ run[t].st \in {"running", "settling", "paused"}
                                /\ run[t].att # 0
  <2>1. t \in Runs BY <1>k, <1>t DEF ControlInv, ClaimInv, RunClaimKinds, RunsOf
  <2> QED BY <2>1, KnownRows
<1>1. CASE TerminalWon(w)
  <2>1. UNCHANGED <<run, attempt>> /\ lease' = Release({t}) BY <1>1, <1>t DEF TerminalWon
  <2>2. ASSUME NEW r \in Runs PROVE CalmRow(r)
    <3>1. CASE lease'[r].st = "active"
      <4>1. lease'[r] = lease[r] BY <1>0, <2>1, <3>1, ReleaseFacts
      <4> QED BY <2>1, <4>1, CalmSame DEF RowsKnown
    <3>2. CASE lease'[r].st # "active" BY <2>1, <3>2, CalmReleased
    <3> QED BY <3>1, <3>2
  <2> QED BY <1>s, <2>2 DEF Calm
<1>2. CASE FinalizePause(w, TRUE)
  <2>1. t \in Runs /\ run[t] \in RunRow /\ (Confirmed(t) => run[t].st \in {"running", "settling", "paused"})
    BY <1>2, <1>k DEF FinalizePause, Owns
  <2>r. PICK row : row = [run[t] EXCEPT !.st = "paused", !.due = TRUE] OBVIOUS
  <2>2. row.st = "paused" BY <2>1, <2>r DEF RunRow
  <2>3. run' = [run EXCEPT ![t] = row] /\ attempt' = attempt BY <1>2, <1>t, <2>r DEF FinalizePause
  <2>4. lease' = Release({t}) \/ (lease' = lease /\ ~Confirmed(t)) BY <1>2, <1>t, <2>1 DEF FinalizePause
  <2>5. run'[t] = row /\ \A q \in Runs : q # t => run'[q] = run[q] BY <1>0, <2>1, <2>3 DEF TypeOK
  <2>6. CalmRow(t)
    <3>1. CASE lease' = Release({t})
      <4>1. lease'[t].st # "active" BY <1>0, <2>1, <3>1, ReleasedLease
      <4> QED BY <2>1, <2>2, <2>5, <4>1, CalmReleased
    <3>2. CASE lease' = lease /\ ~Confirmed(t) BY <2>2, <2>5, <3>2 DEF CalmRow, Confirmed
    <3> QED BY <2>4, <3>1, <3>2
  <2> QED BY <1>s, <2>1, <2>3, <2>4, <2>5, <2>6, OneRunCalm
<1>3. CASE FinalizeResumeQueued(w)
  <2>1. t \in Runs /\ run[t] \in RunRow /\ (Confirmed(t) => run[t].att # 0)
    BY <1>3, <1>k DEF FinalizeResumeQueued, Owns
  <2>2. Requeued(run[t], TRUE).st = "queued" BY <2>1, RequeuedFields
  <2>3. run' = [run EXCEPT ![t] = Requeued(run[t], TRUE)] /\ attempt' = EndCurrent({t})
    BY <1>3, <1>t DEF FinalizeResumeQueued
  <2>4. lease' = Release({t}) \/ (lease' = lease /\ ~Confirmed(t)) BY <1>3, <1>t, <2>1 DEF FinalizeResumeQueued
  <2>5. Requeued(run[t], TRUE).st # "running" BY <2>2
  <2> QED BY <1>s, <2>1, <2>3, <2>4, <2>5, EndedCalm
<1>4. CASE AbandonResume(w)
  <2>1. \A r \in Runs : CalmRow(r) BY <1>4, CalmSame DEF AbandonResume, RowsKnown
  <2> QED BY <1>s, <2>1 DEF Calm
<1> QED BY <1>1, <1>2, <1>3, <1>4

LEMMA OwnerCalm ==
    ASSUME RowsKnown, NEW w \in Workers, ConfirmEffect(w) \/ OwnerLost(w)
    PROVE  Calm
<1>0. TypeOK BY DEF RowsKnown, LedgerInv
<1>1. \A r \in Runs : CalmRow(r) BY CalmSame DEF ConfirmEffect, OwnerLost, RowsKnown
<1>2. ASSUME NEW v \in Workers
      PROVE  worker'[v].kind = worker[v].kind /\ worker'[v].target = worker[v].target
  <2>0. worker[v] \in WorkerRow /\ worker \in [Workers -> WorkerRow] BY <1>0 DEF TypeOK
  <2>1. CASE ConfirmEffect(w) BY <2>0, <2>1 DEF ConfirmEffect, WorkerRow
  <2>2. CASE OwnerLost(w) BY <2>0, <2>2 DEF OwnerLost, WorkerRow
  <2> QED BY <2>1, <2>2
<1> QED BY <1>1, <1>2 DEF Calm, SameClaims

(* Every step of a thread but the invocation and the confirmation.                           *)
LEMMA ThreadCalm ==
    ASSUME RowsKnown, ThreadsKnow, NEW t \in Threads, ThreadStep(t),
           ~Invoke(t), ~Observe(t)
    PROVE  Calm
<1>0. TypeOK /\ ConfirmedRuns BY DEF RowsKnown, LedgerInv
<1>i. CASE thread[t].pc = "idle"
  BY <1>i DEF ThreadStep, Top, Reserve, ClaimStep, Unclaimed, Rest, Lease, Unlease, Requeue, Recover, Ready,
     Block, Blocked, Fail, Admit, Guard, Unstart, Invoke, Start, Observe, Mark, Work, Returned, HandleStale,
     HandleDone, HandleError, HandleTerminated, HandleKilled, Handle, Finish, PausedWorker, Exit, Drop, At
<1>n. ASSUME thread[t].pc # "idle" PROVE Calm
  <2>k. /\ thread[t].w \in Workers
        /\ thread[t].run # 0 => thread[t].run \in Runs
        /\ thread[t].peek # 0 => thread[t].peek \in Runs
        /\ thread[t].pc \in RunSteps => thread[t].run # 0
        /\ thread[t].pc = "reserve" => thread[t].peek # 0
        /\ thread[t].pc = "requeue" => thread[t].run # 0 \/ thread[t].peek # 0
    BY <1>n, KnownRun
  <2>v. ASSUME UNCHANGED vars PROVE Calm BY <1>0, <2>v, VarsCalm
  <2>1. CASE Top(t) \/ Guard(t) \/ Start(t) \/ Work(t) \/ HandleStale(t) \/ HandleTerminated(t) \/ Drop(t)
    BY <2>v, <2>1 DEF Top, Guard, Start, Work, HandleStale, HandleTerminated, Drop
  <2>2. CASE Reserve(t)
    <3>1. thread[t].peek \in Runs BY <2>2, <2>k DEF Reserve, At
    <3> QED BY <2>v, <2>2, <3>1, AcquireCalm DEF Reserve
  <2>3. CASE ClaimStep(t) BY <2>v, <2>k, <2>3, ClaimWritesCalm DEF ClaimStep
  <2>4. CASE Unclaimed(t) BY <2>v, <2>k, <2>4, ReleaseForCalm DEF Unclaimed
  <2>5. CASE Rest(t) \/ Ready(t) \/ Blocked(t) \/ Finish(t)
    BY <2>v, <2>k, <2>5, WriteWorkerCalm DEF Rest, Ready, Blocked, Finish
  <2>6. CASE PausedWorker(t)
    <3>1. \E s : WriteWorker(thread[t].w, s) BY <2>6 DEF PausedWorker
    <3> QED BY <2>k, <3>1, WriteWorkerCalm
  <2>r. ASSUME thread[t].pc \in RunSteps PROVE thread[t].run \in Runs BY <2>k, <2>r
  <2>7. CASE Lease(t)
    <3>1. thread[t].run \in Runs BY <2>7, <2>r DEF Lease, At, RunSteps
    <3> QED BY <2>v, <2>7, <3>1, AcquireCalm DEF Lease
  <2>8. CASE Unlease(t) \/ Unstart(t) \/ Returned(t)
    <3>1. thread[t].run \in Runs BY <2>8, <2>r DEF Unlease, Unstart, Returned, At, RunSteps
    <3> QED BY <2>v, <2>8, <3>1, ReleaseForCalm DEF Unlease, Unstart, Returned
  <2>9. CASE Requeue(t)
    <3>1. Subject(t) \in Runs BY <2>9, <2>k DEF Requeue, At, Subject
    <3> QED BY <2>v, <2>9, <3>1, RequeueCalm DEF Requeue
  <2>10. CASE Recover(t)
    <3>1. thread[t].run \in Runs BY <2>10, <2>r DEF Recover, At, RunSteps
    <3> QED BY <2>v, <2>10, <3>1, RequeueCalm DEF Recover
  <2>11. CASE Block(t)
    <3>1. thread[t].run \in Runs BY <2>11, <2>r DEF Block, At, RunSteps
    <3> QED BY <2>v, <2>11, <3>1, NeedsInputCalm DEF Block
  <2>12. CASE Fail(t)
    <3>1. thread[t].run \in Runs BY <2>12, <2>r DEF Fail, At, RunSteps
    <3> QED BY <2>v, <2>12, <3>1, FinalizeCalm DEF Fail, TerminalStates
  <2>13. CASE Admit(t)
    <3>1. thread[t].run \in Runs BY <2>13, <2>r DEF Admit, At, RunSteps
    <3> QED BY <2>v, <2>13, <3>1, AdmitCalm DEF Admit
  <2>14. CASE Mark(t)
    <3>1. thread[t].run \in Runs BY <2>14, <2>r DEF Mark, At, RunSteps
    <3> QED BY <2>v, <2>14, <3>1, UnconfirmedCalm DEF Mark
  <2>15. CASE HandleDone(t)
    <3>1. thread[t].run \in Runs BY <2>15, <2>r DEF HandleDone, Handle, At, RunSteps
    <3> QED BY <2>v, <2>15, <3>1, FinalizeCalm DEF HandleDone, Report, TerminalStates
  <2>16. CASE HandleError(t)
    <3>1. thread[t].run \in Runs BY <2>16, <2>r DEF HandleError, Handle, At, RunSteps
    <3>2. UNCHANGED vars \/ \E s \in TerminalStates : FinalizeRun(thread[t].run, s)
      BY <2>16 DEF HandleError, Report, TerminalStates
    <3> QED BY <2>v, <3>1, <3>2, FinalizeCalm
  <2>17. CASE HandleKilled(t)
    <3>1. thread[t].run \in Runs BY <2>17, <2>r DEF HandleKilled, Handle, At, RunSteps
    <3> QED BY <2>v, <2>17, <3>1, PausedCalm DEF HandleKilled
  <2>18. CASE Exit(t) BY <2>v, <2>k, <2>18, ReleaseForCalm DEF Exit
  <2> QED BY <2>1, <2>2, <2>3, <2>4, <2>5, <2>6, <2>7, <2>8, <2>9, <2>10, <2>11, <2>12, <2>13, <2>14,
             <2>15, <2>16, <2>17, <2>18 DEF ThreadStep
<1> QED BY <1>i, <1>n

-----------------------------------------------------------------------------
(* The processes *)

(* Thread t waits for process p.                                             *)
HeldBy(p, t) ==
    /\ t \in Threads
    /\ thread[t].pc \in {"observe", "work"}
    /\ thread[t].run = p[1] /\ thread[t].att = p[2]

(* The registered processor of its worker waits for each process.            *)
Held == \A p \in alive : HeldBy(p, owner[WorkerOf[p[1]]])

(* The flock: one thread of a worker at most is in the guarded steps, and no control then; the
   thread that has spawned a process is still the registered one.            *)
Guarding ==
    \A t \in Threads :
        /\ thread[t].guard => thread[t].pc \in GuardedSteps
        /\ thread[t].pc \in {"invoke", "start", "observe"} => thread[t].guard
        /\ thread[t].pc # "mark"
        /\ thread[t].guard =>
               /\ worker[thread[t].w].kind = "none"
               /\ \A u \in Threads : thread[u].guard /\ thread[u].w = thread[t].w => u = t
        /\ thread[t].pc = "observe" => owner[thread[t].w] = t

(* A run that executes while its start is under way does so in the attempt that is started, and
   until the process is there no lease of the worker is confirmed.           *)
Starting ==
    \A t \in Threads :
        /\ thread[t].pc \in {"start", "observe"} /\ run[thread[t].run].st = "running" =>
               run[thread[t].run].att = thread[t].att
        /\ thread[t].pc \in {"invoke", "start"} =>
               \A r \in Runs : WorkerOf[r] = thread[t].w => ~Confirmed(r)

(* Whatever process a worker with a confirmed lease has, it is the one of that lease.         *)
ConfirmedProcess ==
    \A r \in Runs : Confirmed(r) =>
        \A p \in alive : WorkerOf[p[1]] = WorkerOf[r] => p = <<r, lease[r].att>>

(* Whatever process a worker has that is being paused, it is the one the pause has seen.      *)
CaughtProcess ==
    \A w \in Workers : worker[w].kind = "pause_run" /\ caught[w] # 0 =>
        \A p \in alive : WorkerOf[p[1]] = w => p = <<worker[w].target, caught[w]>>

ProcessTypes ==
    /\ owner \in [Workers -> Threads \cup {"none"}]
    /\ caught \in [Workers -> 0 .. MaxAttempts]
    /\ alive \subseteq Runs \X (0 .. MaxAttempts)

ProcessInv ==
    /\ DispatchInv /\ ProcessTypes
    /\ ConfirmedRuns /\ Held /\ Guarding /\ Starting /\ ConfirmedProcess /\ CaughtProcess

(* The processor of a worker waits for one process.                          *)
LEMMA HeldIsOne == ProcessInv => OneProcess
<1> SUFFICES ASSUME ProcessInv, NEW p \in alive, NEW q \in alive, WorkerOf[p[1]] = WorkerOf[q[1]]
             PROVE  p = q
  BY DEF OneProcess
<1>1. p[1] = q[1] /\ p[2] = q[2] BY DEF ProcessInv, Held, HeldBy
<1>2. p \in Runs \X (0 .. MaxAttempts) /\ q \in Runs \X (0 .. MaxAttempts)
  BY DEF ProcessInv, ProcessTypes
<1> QED BY <1>1, <1>2

LEMMA KnownForm == ASSUME ProcessInv PROVE RowsKnown /\ TypeOK /\ ThreadsKnow /\ ControlInv
BY DEF ProcessInv, DispatchInv, ControlInv, LedgerInv, RowsKnown

(* A thread that stays where it is.                                          *)
Keeps(u) ==
    /\ thread'[u].pc = thread[u].pc /\ thread'[u].w = thread[u].w
    /\ thread'[u].run = thread[u].run /\ thread'[u].att = thread[u].att
    /\ thread'[u].guard = thread[u].guard

(* A thread that does not wait for a process, nor starts one.                *)
Idles(u) ==
    /\ thread'[u].pc \notin {"invoke", "start", "observe", "mark", "work"}
    /\ thread'[u].guard =>
          thread[u].guard /\ thread'[u].w = thread[u].w /\ thread'[u].pc \in GuardedSteps
    /\ \A p \in alive' : owner[WorkerOf[p[1]]] # u

(* A worker that has no process and no start may lose or change its processor.                *)
OwnerFree(w) ==
    /\ \A p \in alive' : WorkerOf[p[1]] # w
    /\ \A u \in Threads : thread'[u].pc = "observe" => thread[u].w # w

(* A calm step of the rows, in which threads keep still or give up, keeps the invariant.     *)
LEMMA CalmStep ==
    ASSUME ProcessInv, DispatchInv', Calm, ProcessTypes', alive' \subseteq alive, caught' = caught,
           \A u \in Threads : Keeps(u) \/ Idles(u),
           \A w \in Workers : owner'[w] = owner[w] \/ OwnerFree(w)
    PROVE  ProcessInv'
<1>k. /\ ThreadsKnow /\ Held /\ Guarding /\ Starting
      /\ \A p \in alive : p[1] \in Runs /\ WorkerOf[p[1]] \in Workers
  BY KnownForm, WorkerOfAssumption DEF ProcessInv, DispatchInv
<1>1. ConfirmedRuns' BY DEF Calm, CalmRow, ConfirmedRuns, Confirmed, AttemptIs
<1>2. Held'
  <2> SUFFICES ASSUME NEW p \in alive' PROVE HeldBy(p, owner[WorkerOf[p[1]]])'
    BY DEF Held
  <2>1. HeldBy(p, owner[WorkerOf[p[1]]]) BY <1>k DEF Held
  <2>2. owner'[WorkerOf[p[1]]] = owner[WorkerOf[p[1]]] BY <1>k DEF OwnerFree
  <2>3. Keeps(owner[WorkerOf[p[1]]]) BY <2>1 DEF Idles, HeldBy
  <2> QED BY <2>1, <2>2, <2>3 DEF HeldBy, Keeps
<1>w. ASSUME NEW t \in Threads, thread[t].pc \in GuardedSteps
      PROVE  thread[t].w \in Workers /\ thread[t].run \in Runs
  BY <1>w, <1>k, KnownRun DEF GuardedSteps, RunSteps
<1>g. ASSUME NEW t \in Threads, thread'[t].guard
      PROVE  thread[t].guard /\ thread'[t].w = thread[t].w /\ thread'[t].pc \in GuardedSteps
  BY <1>g, <1>k DEF Keeps, Idles, Guarding
<1>3. Guarding'
  <2> SUFFICES ASSUME NEW t \in Threads
               PROVE  /\ thread'[t].guard => thread'[t].pc \in GuardedSteps
                      /\ thread'[t].pc \in {"invoke", "start", "observe"} => thread'[t].guard
                      /\ thread'[t].pc # "mark"
                      /\ thread'[t].guard =>
                             /\ worker'[thread'[t].w].kind = "none"
                             /\ \A u \in Threads : thread'[u].guard /\ thread'[u].w = thread'[t].w => u = t
                      /\ thread'[t].pc = "observe" => owner'[thread'[t].w] = t
    BY DEF Guarding
  <2>1. thread'[t].guard => thread'[t].pc \in GuardedSteps BY <1>g
  <2>2. /\ thread'[t].pc \in {"invoke", "start", "observe"} => thread'[t].guard
        /\ thread'[t].pc # "mark"
    BY <1>k DEF Keeps, Idles, Guarding
  <2>3. ASSUME thread'[t].guard
        PROVE  /\ worker'[thread'[t].w].kind = "none"
               /\ \A u \in Threads : thread'[u].guard /\ thread'[u].w = thread'[t].w => u = t
    <3>1. thread[t].guard /\ thread'[t].w = thread[t].w BY <2>3, <1>g
    <3>2. thread[t].w \in Workers BY <3>1, <1>k, <1>w DEF Guarding
    <3>3. worker[thread[t].w].kind = "none" BY <3>1, <1>k DEF Guarding
    <3>4. worker'[thread'[t].w].kind = "none" BY <3>1, <3>2, <3>3 DEF Calm, SameClaims
    <3>5. \A u \in Threads : thread'[u].guard /\ thread'[u].w = thread'[t].w => u = t
      BY <3>1, <1>g, <1>k DEF Guarding
    <3> QED BY <3>4, <3>5
  <2>4. ASSUME thread'[t].pc = "observe" PROVE owner'[thread'[t].w] = t
    <3>1. Keeps(t) BY <2>4 DEF Idles
    <3>2. thread[t].pc = "observe" /\ thread'[t].w = thread[t].w BY <3>1, <2>4 DEF Keeps
    <3>3. owner[thread[t].w] = t /\ thread[t].w \in Workers BY <3>2, <1>k, <1>w DEF Guarding, GuardedSteps
    <3> QED BY <2>4, <3>2, <3>3 DEF OwnerFree
  <2> QED BY <2>1, <2>2, <2>3, <2>4
<1>4. Starting'
  <2>1. ASSUME NEW t \in Threads, thread'[t].pc \in {"start", "observe"}, run'[thread'[t].run].st = "running"
        PROVE  run'[thread'[t].run].att = thread'[t].att
    <3>1. Keeps(t) BY <2>1 DEF Idles
    <3>2. thread[t].run \in Runs BY <2>1, <3>1, <1>w DEF Keeps, GuardedSteps
    <3>3. run[thread[t].run].st = "running" /\ run'[thread[t].run].att = run[thread[t].run].att
      BY <2>1, <3>1, <3>2 DEF Keeps, Calm, CalmRow
    <3> QED BY <2>1, <3>1, <3>3, <1>k DEF Keeps, Starting
  <2>2. ASSUME NEW t \in Threads, thread'[t].pc \in {"invoke", "start"},
               NEW r \in Runs, WorkerOf[r] = thread'[t].w
        PROVE  ~Confirmed(r)'
    <3>1. Keeps(t) BY <2>2 DEF Idles
    <3>2. ~Confirmed(r) BY <2>2, <3>1, <1>k DEF Keeps, Starting
    <3> QED BY <3>2 DEF Calm, CalmRow, Confirmed
  <2> QED BY <2>1, <2>2 DEF Starting
<1>5. ConfirmedProcess'
  <2>1. ASSUME NEW r \in Runs, Confirmed(r)' PROVE Confirmed(r) /\ lease'[r].att = lease[r].att
    BY <2>1 DEF Calm, CalmRow, Confirmed
  <2> QED BY <2>1 DEF ConfirmedProcess, ProcessInv
<1>6. CaughtProcess'
  <2>1. ASSUME NEW w \in Workers, worker'[w].kind = "pause_run"
        PROVE  worker[w].kind = "pause_run" /\ worker'[w].target = worker[w].target
    BY <2>1 DEF Calm, SameClaims
  <2> QED BY <2>1 DEF CaughtProcess, ProcessInv
<1> QED BY <1>1, <1>2, <1>3, <1>4, <1>5, <1>6 DEF ProcessInv

-----------------------------------------------------------------------------
(* The steps of a thread *)

LEMMA NobodyWaits ==
    ASSUME ProcessInv, NEW t \in Threads, thread[t].pc \notin {"observe", "work"}, NEW p \in alive
    PROVE  owner[WorkerOf[p[1]]] # t
BY DEF ProcessInv, Held, HeldBy

(* A thread outside the guarded steps and not at work goes on outside.       *)
LEMMA Outside ==
    ASSUME ProcessInv, NEW t \in Threads, thread[t].pc \notin GuardedSteps \cup {"work"},
           \A u \in Threads : u # t => thread'[u] = thread[u],
           thread'[t].pc \notin {"invoke", "start", "observe", "mark", "work"},
           thread'[t].guard => thread[t].guard, alive' \subseteq alive
    PROVE  \A u \in Threads : Keeps(u) \/ Idles(u)
<1>1. \A u \in Threads : u # t => Keeps(u) BY DEF Keeps
<1>2. ~thread[t].guard BY DEF ProcessInv, Guarding
<1>3. \A p \in alive' : owner[WorkerOf[p[1]]] # t BY NobodyWaits DEF GuardedSteps
<1>4. Idles(t) BY <1>2, <1>3 DEF Idles
<1> QED BY <1>1, <1>4

LEMMA GotoOutside ==
    ASSUME ProcessInv, NEW t \in Threads, thread[t].pc \notin GuardedSteps \cup {"work"},
           NEW pc, Goto(t, pc), pc \notin {"invoke", "start", "observe", "mark", "work"}, alive' \subseteq alive
    PROVE  \A u \in Threads : Keeps(u) \/ Idles(u)
<1>1. thread \in [Threads -> ThreadRow] BY KnownForm DEF ThreadsKnow
<1>2. /\ \A u \in Threads : u # t => thread'[u] = thread[u]
      /\ thread'[t].pc = pc /\ thread'[t].guard = thread[t].guard
  BY <1>1 DEF Goto, ThreadRow
<1> QED BY <1>2, Outside

(* A thread that gives its process up, or finds that it cannot have one, returns.            *)
LEMMA EndsReturns ==
    ASSUME ProcessInv, NEW t \in Threads, thread[t].pc \in {"invoke", "start", "observe", "work"},
           NEW e, Ends(t, e), alive' \subseteq alive,
           thread[t].pc \in {"observe", "work"} => <<thread[t].run, thread[t].att>> \notin alive'
    PROVE  \A u \in Threads : Keeps(u) \/ Idles(u)
<1>1. thread \in [Threads -> ThreadRow] BY KnownForm DEF ThreadsKnow
<1>2. /\ \A u \in Threads : u # t => thread'[u] = thread[u]
      /\ thread'[t].pc = "returned" /\ thread'[t].guard = thread[t].guard /\ thread'[t].w = thread[t].w
  BY <1>1 DEF Ends, ThreadRow
<1>3. \A u \in Threads : u # t => Keeps(u) BY <1>2 DEF Keeps
<1>4. ASSUME NEW p \in alive' PROVE owner[WorkerOf[p[1]]] # t
  <2>1. CASE thread[t].pc \notin {"observe", "work"} BY <1>4, <2>1, NobodyWaits
  <2>2. CASE thread[t].pc \in {"observe", "work"}
    <3>1. p \in Runs \X (0 .. MaxAttempts) BY <1>4 DEF ProcessInv, ProcessTypes
    <3>2. p # <<thread[t].run, thread[t].att>> BY <2>2, <1>4
    <3> QED BY <1>4, <3>1, <3>2 DEF ProcessInv, Held, HeldBy
  <2> QED BY <2>1, <2>2
<1>5. Idles(t) BY <1>2, <1>4 DEF Idles, GuardedSteps
<1> QED BY <1>3, <1>5

(* What is left to show of a thread's step that starts nothing.              *)
LEMMA QuietThread ==
    ASSUME ProcessInv, NEW t \in Threads, ThreadStep(t), ~Invoke(t), ~Observe(t),
           caught' = caught, alive' \subseteq alive,
           owner' = owner, \A u \in Threads : Keeps(u) \/ Idles(u)
    PROVE  ProcessInv'
<1>1. Calm BY KnownForm, ThreadCalm
<1>2. [DispatchNext]_dispatchVars BY DEF DispatchNext
<1>3. DispatchInv' BY <1>2, DispatchStepInv DEF ProcessInv
<1>4. ProcessTypes' BY DEF ProcessInv, ProcessTypes
<1> QED BY <1>1, <1>3, <1>4, CalmStep

LEMMA TopProcess == ASSUME ProcessInv, NEW t \in Threads, Top(t) PROVE ProcessInv'
<1>1. thread \in [Threads -> ThreadRow] /\ thread[t].pc = "top" BY KnownForm DEF ThreadsKnow, Top, At
<1>2. /\ \A u \in Threads : u # t => thread'[u] = thread[u]
      /\ thread'[t].pc \in {"drop", "claim", "reserve"} /\ thread'[t].guard = FALSE
  BY <1>1 DEF Top, NoThread
<1>3. caught' = caught /\ alive' = alive /\ owner' = owner BY DEF Top
<1>4. \A u \in Threads : Keeps(u) \/ Idles(u) BY <1>1, <1>2, <1>3, Outside DEF GuardedSteps
<1>5. ThreadStep(t) /\ ~Invoke(t) /\ ~Observe(t) BY <1>1 DEF ThreadStep, Invoke, Observe, At
<1> QED BY <1>3, <1>4, <1>5, QuietThread

LEMMA ClaimProcess == ASSUME ProcessInv, NEW t \in Threads, ClaimStep(t) \/ Lease(t) PROVE ProcessInv'
<1>1. /\ thread \in [Threads -> ThreadRow] /\ thread[t] \in ThreadRow
      /\ thread[t].pc \in {"claim", "lease"}
  BY KnownForm DEF ThreadsKnow, ClaimStep, Lease, At
<1> DEFINE Moved(row) == /\ thread' = [thread EXCEPT ![t] = row]
                        /\ row.pc \in {"lease", "unclaimed", "admit", "recover", "unlease"}
                        /\ row.guard = thread[t].guard
<1>g. ASSUME NEW pc \in {"unclaimed", "recover", "unlease"}, Goto(t, pc) PROVE \E row : Moved(row)
  <2>r. PICK row : row = [thread[t] EXCEPT !.pc = pc] OBVIOUS
  <2>1. row.pc = pc /\ row.guard = thread[t].guard BY <1>1, <2>r DEF ThreadRow
  <2>2. thread' = [thread EXCEPT ![t] = row] BY <1>g, <2>r DEF Goto
  <2> QED BY <2>1, <2>2
<1>2. ASSUME ClaimStep(t) PROVE \E row : Moved(row)
  <2>1. ASSUME NEW r \in Runs, NEW a \in Attempts,
               thread' = [thread EXCEPT ![t].pc = "lease", ![t].run = r, ![t].copy = a]
        PROVE  \E row : Moved(row)
    <3>r. PICK row : row = [thread[t] EXCEPT !.pc = "lease", !.run = r, !.copy = a] OBVIOUS
    <3>1. row.pc = "lease" /\ row.guard = thread[t].guard BY <1>1, <3>r DEF ThreadRow
    <3>2. thread' = [thread EXCEPT ![t] = row] BY <2>1, <3>r, <1>1
    <3> QED BY <3>1, <3>2
  <2> QED BY <1>2, <1>g, <2>1 DEF ClaimStep, Claimable
<1>3. ASSUME Lease(t) PROVE \E row : Moved(row)
  <2>1. ASSUME NEW k,
               thread' = [thread EXCEPT ![t].pc = "admit", ![t].att = thread[t].copy, ![t].tok = k]
        PROVE  \E row : Moved(row)
    <3>r. PICK row : row = [thread[t] EXCEPT !.pc = "admit", !.att = thread[t].copy, !.tok = k] OBVIOUS
    <3>1. row.pc = "admit" /\ row.guard = thread[t].guard BY <1>1, <3>r DEF ThreadRow
    <3>2. thread' = [thread EXCEPT ![t] = row] BY <2>1, <3>r, <1>1
    <3> QED BY <3>1, <3>2
  <2> QED BY <1>3, <1>g, <2>1 DEF Lease
<1>4. PICK row : Moved(row) BY <1>2, <1>3
<1>5. /\ \A u \in Threads : u # t => thread'[u] = thread[u]
      /\ thread'[t].pc \in {"lease", "unclaimed", "admit", "recover", "unlease"}
      /\ thread'[t].guard = thread[t].guard
  BY <1>1, <1>4
<1>6. caught' = caught /\ alive' = alive /\ owner' = owner BY DEF ClaimStep, Lease
<1>7. \A u \in Threads : Keeps(u) \/ Idles(u) BY <1>1, <1>5, <1>6, Outside DEF GuardedSteps
<1>8. ThreadStep(t) /\ ~Invoke(t) /\ ~Observe(t) BY <1>1 DEF ThreadStep, Invoke, Observe, At
<1> QED BY <1>6, <1>7, <1>8, QuietThread

(* The steps that only go elsewhere.                                         *)
LEMMA GotoProcess ==
    ASSUME ProcessInv, NEW t \in Threads,
           \/ Reserve(t) \/ Unclaimed(t) \/ Rest(t) \/ Unlease(t) \/ Requeue(t) \/ Recover(t) \/ Ready(t)
           \/ Block(t) \/ Blocked(t) \/ Fail(t) \/ Admit(t) \/ Unstart(t) \/ HandleStale(t)
           \/ HandleDone(t) \/ HandleError(t) \/ HandleTerminated(t) \/ HandleKilled(t) \/ Finish(t)
           \/ PausedWorker(t) \/ Exit(t)
    PROVE  ProcessInv'
<1>1. thread[t].pc \in {"reserve", "unclaimed", "rest", "unlease", "requeue", "recover", "handle", "ready",
                       "block", "blocked", "fail", "admit", "unstart", "finish", "paused", "exit"}
  BY DEF Reserve, Unclaimed, Rest, Unlease, Requeue, Recover, Ready, Block, Blocked, Fail, Admit,
     Unstart, HandleStale, HandleDone, HandleError, HandleTerminated, HandleKilled, Handle, Finish,
     PausedWorker, Exit, At
<1>2. caught' = caught /\ alive' = alive /\ owner' = owner
  BY DEF Reserve, Unclaimed, Rest, Unlease, Requeue, Recover, Ready, Block, Blocked, Fail, Admit,
     Unstart, HandleStale, HandleDone, HandleError, HandleTerminated, HandleKilled, Finish,
     PausedWorker, Exit
<1>3. \E pc \in {"claim", "drop", "requeue", "rest", "block", "fail", "ready", "exit", "blocked",
                 "guard", "recover", "unlease", "finish", "top", "paused"} : Goto(t, pc)
  <2>1. CASE Reserve(t) \/ Unclaimed(t) \/ Rest(t) \/ Unlease(t) \/ Requeue(t) \/ Recover(t) \/ Ready(t)
             \/ Block(t) \/ Blocked(t) \/ Fail(t) \/ Admit(t) \/ Unstart(t)
    BY <2>1 DEF Reserve, Unclaimed, Rest, Unlease, Requeue, Recover, Ready, Block, Blocked, Fail, Admit, Unstart
  <2>2. CASE HandleStale(t) \/ HandleDone(t) \/ HandleTerminated(t) \/ HandleKilled(t) \/ Finish(t)
             \/ PausedWorker(t) \/ Exit(t)
    BY <2>2 DEF HandleStale, HandleDone, Report, HandleTerminated, HandleKilled, Finish, PausedWorker, Exit
  <2>3. CASE HandleError(t) BY <2>3 DEF HandleError, Report
  <2> QED BY <2>1, <2>2, <2>3
<1>4. \A u \in Threads : Keeps(u) \/ Idles(u) BY <1>1, <1>2, <1>3, GotoOutside DEF GuardedSteps
<1>5. ThreadStep(t) BY DEF ThreadStep
<1>6. ~Invoke(t) /\ ~Observe(t) BY <1>1 DEF Invoke, Observe, At
<1> QED BY <1>2, <1>4, <1>5, <1>6, QuietThread

LEMMA ReturnedProcess == ASSUME ProcessInv, NEW t \in Threads, Returned(t) PROVE ProcessInv'
<1>1. thread \in [Threads -> ThreadRow] /\ thread[t].pc = "returned"
  BY KnownForm DEF ThreadsKnow, Returned, At
<1>2. /\ \A u \in Threads : u # t => thread'[u] = thread[u]
      /\ thread'[t].pc = "handle" /\ thread'[t].guard = FALSE
  BY <1>1 DEF Returned, ThreadRow
<1>3. caught' = caught /\ alive' = alive /\ owner' = owner BY DEF Returned
<1>4. \A p \in alive' : owner[WorkerOf[p[1]]] # t BY <1>1, <1>3, NobodyWaits
<1>5. \A u \in Threads : Keeps(u) \/ Idles(u) BY <1>2, <1>4 DEF Keeps, Idles
<1>6. ThreadStep(t) /\ ~Invoke(t) /\ ~Observe(t) BY <1>1 DEF ThreadStep, Invoke, Observe, At
<1> QED BY <1>3, <1>5, <1>6, QuietThread

LEMMA WorkProcess == ASSUME ProcessInv, NEW t \in Threads, Work(t) PROVE ProcessInv'
<1>1. thread[t].pc = "work" BY DEF Work, At
<1>2. caught' = caught /\ alive' \subseteq alive /\ owner' = owner /\ <<thread[t].run, thread[t].att>> \notin alive'
  BY DEF Work
<1>3. \E e : Ends(t, e) BY DEF Work
<1>4. \A u \in Threads : Keeps(u) \/ Idles(u) BY <1>1, <1>2, <1>3, EndsReturns
<1>5. ThreadStep(t) /\ ~Invoke(t) /\ ~Observe(t) BY <1>1 DEF ThreadStep, Invoke, Observe, At
<1> QED BY <1>2, <1>4, <1>5, QuietThread

LEMMA DropProcess == ASSUME ProcessInv, NEW t \in Threads, Drop(t) PROVE ProcessInv'
<1>1. thread \in [Threads -> ThreadRow] /\ thread[t].pc = "drop" BY KnownForm DEF ThreadsKnow, Drop, At
<1>2. /\ \A u \in Threads : u # t => thread'[u] = thread[u]
      /\ thread'[t].pc = "idle" /\ thread'[t].guard = FALSE
  BY <1>1 DEF Drop, NoThread
<1>3. caught' = caught /\ alive' = alive BY DEF Drop
<1>4. \A u \in Threads : Keeps(u) \/ Idles(u) BY <1>1, <1>2, <1>3, Outside DEF GuardedSteps
<1>5. ThreadStep(t) /\ ~Invoke(t) /\ ~Observe(t) BY <1>1 DEF ThreadStep, Invoke, Observe, At
<1>6. Calm BY <1>5, KnownForm, ThreadCalm
<1>7. DispatchInv' BY <1>5, DispatchStepInv DEF ProcessInv, DispatchNext
<1>8. ProcessTypes' BY <1>3 DEF ProcessInv, ProcessTypes, Drop
<1>9. ASSUME NEW w \in Workers, owner'[w] # owner[w] PROVE OwnerFree(w)
  <2>1. owner[w] = t BY <1>9 DEF Drop, Current, ProcessInv, ProcessTypes
  <2>2. \A p \in alive' : WorkerOf[p[1]] # w BY <1>1, <1>3, <2>1, NobodyWaits
  <2>3. ASSUME NEW u \in Threads, thread'[u].pc = "observe" PROVE thread[u].w # w
    <3>1. u # t /\ thread[u].pc = "observe" BY <1>2, <2>3
    <3> QED BY <2>1, <3>1 DEF ProcessInv, Guarding
  <2> QED BY <2>2, <2>3 DEF OwnerFree
<1> QED BY <1>3, <1>4, <1>6, <1>7, <1>8, <1>9, CalmStep

LEMMA NeverMarks == ASSUME ProcessInv, NEW t \in Threads PROVE ~Mark(t)
BY DEF ProcessInv, Guarding, Mark, At

(* A start that is validated meets no confirmed lease on its worker.         *)
LEMMA ValidatedIsAlone ==
    ASSUME ProcessInv, NEW t \in Threads, thread[t].run \in Runs, Validated(t),
           NEW q \in Runs, WorkerOf[q] = WorkerOf[thread[t].run]
    PROVE  ~Confirmed(q)
<1> SUFFICES ASSUME Confirmed(q) PROVE FALSE OBVIOUS
<1>1. Engaged(q) BY DEF ProcessInv, ConfirmedRuns, Engaged, DispatchStates
<1>2. run[thread[t].run].st = "admitted" BY DEF Validated
<1>3. Engaged(thread[t].run) BY <1>2 DEF Engaged, DispatchStates
<1>4. q = thread[t].run BY <1>1, <1>3, KnownForm DEF ControlInv, EngagedExclusive
<1>5. run[q].st # "admitted" BY DEF ProcessInv, ConfirmedRuns
<1> QED BY <1>2, <1>4, <1>5

LEMMA GuardProcess == ASSUME ProcessInv, NEW t \in Threads, Guard(t) PROVE ProcessInv'
<1>1. /\ thread \in [Threads -> ThreadRow] /\ thread[t] \in ThreadRow /\ thread[t].pc = "guard"
      /\ ThreadsKnow
  BY KnownForm DEF ThreadsKnow, Guard, At
<1>2. /\ UNCHANGED vars /\ caught' = caught /\ alive' = alive /\ owner' = owner
      /\ UNCHANGED <<run, attempt, lease, worker>>
  BY DEF Guard, vars
<1>3. ThreadStep(t) /\ ~Invoke(t) /\ ~Observe(t) BY <1>1 DEF ThreadStep, Invoke, Observe, At
<1>4. CASE ~Validated(t)
  <2>1. Goto(t, "unstart") BY <1>4 DEF Guard
  <2>2. \A u \in Threads : Keeps(u) \/ Idles(u) BY <1>1, <1>2, <2>1, GotoOutside DEF GuardedSteps
  <2> QED BY <1>2, <1>3, <2>2, QuietThread
<1>5. CASE Validated(t)
  <2>1. /\ thread[t].w \in Workers /\ thread[t].run \in Runs /\ WorkerOf[thread[t].run] = thread[t].w
    BY <1>1, KnownRun DEF RunSteps
  <2>2. /\ \A u \in Threads : u # t => thread'[u] = thread[u]
        /\ thread'[t].pc = "invoke" /\ thread'[t].guard = TRUE /\ thread'[t].w = thread[t].w
        /\ thread'[t].run = thread[t].run /\ thread'[t].att = thread[t].att
    BY <1>1, <1>5 DEF Guard, ThreadRow
  <2>3. \A u \in Threads : ~(thread[u].w = thread[t].w /\ thread[u].guard) BY DEF Guard, LockFree
  <2>4. worker[thread[t].w].kind = "none" BY <1>5, <2>1 DEF Validated, AllowsStart
  <2>5. DispatchInv' BY <1>3, DispatchStepInv DEF ProcessInv, DispatchNext
  <2>6. ProcessTypes' BY <1>2 DEF ProcessInv, ProcessTypes
  <2>7. ConfirmedRuns' BY <1>2 DEF ProcessInv, ConfirmedRuns, Confirmed, AttemptIs
  <2>8. Held'
    <3> SUFFICES ASSUME NEW p \in alive PROVE HeldBy(p, owner[WorkerOf[p[1]]])'
      BY <1>2 DEF Held
    <3>1. HeldBy(p, owner[WorkerOf[p[1]]]) BY DEF ProcessInv, Held
    <3>2. owner[WorkerOf[p[1]]] # t BY <1>1, NobodyWaits
    <3> QED BY <1>2, <2>2, <3>1, <3>2 DEF HeldBy
  <2>9. Guarding'
    <3>1. ASSUME NEW u \in Threads, u # t
          PROVE  /\ thread[u].guard => thread[u].pc \in GuardedSteps
                 /\ thread[u].pc \in {"invoke", "start", "observe"} => thread[u].guard
                 /\ thread[u].pc # "mark"
                 /\ thread[u].guard =>
                        /\ worker[thread[u].w].kind = "none"
                        /\ \A v \in Threads : thread'[v].guard /\ thread'[v].w = thread[u].w => v = u
                 /\ thread[u].pc = "observe" => owner[thread[u].w] = u
      BY <2>2, <2>3, <3>1 DEF ProcessInv, Guarding
    <3>2. \A v \in Threads : thread'[v].guard /\ thread'[v].w = thread[t].w => v = t
      BY <2>2, <2>3
    <3> QED BY <1>2, <2>2, <2>4, <3>1, <3>2 DEF Guarding, GuardedSteps
  <2>10. Starting'
    <3>1. \A r \in Runs : WorkerOf[r] = thread[t].w => ~Confirmed(r) BY <1>5, <2>1, ValidatedIsAlone
    <3> QED BY <1>2, <2>2, <3>1 DEF ProcessInv, Starting, Confirmed
  <2>11. ConfirmedProcess' /\ CaughtProcess'
    BY <1>2 DEF ProcessInv, ConfirmedProcess, CaughtProcess, Confirmed
  <2> QED BY <2>5, <2>6, <2>7, <2>8, <2>9, <2>10, <2>11 DEF ProcessInv
<1> QED BY <1>4, <1>5

(* Two threads in the guarded steps of one worker are the same.              *)
LEMMA OneStarts ==
    ASSUME ProcessInv, NEW t \in Threads, NEW u \in Threads,
           thread[t].pc \in {"invoke", "start", "observe"},
           thread[u].pc \in {"invoke", "start", "observe"}, thread[u].w = thread[t].w
    PROVE  u = t
BY DEF ProcessInv, Guarding

LEMMA InvokeProcess == ASSUME ProcessInv, NEW t \in Threads, Invoke(t) PROVE ProcessInv'
<1> DEFINE r == thread[t].run
<1>1. /\ thread \in [Threads -> ThreadRow] /\ thread[t] \in ThreadRow /\ thread[t].pc = "invoke"
      /\ ThreadsKnow /\ RowsKnown /\ TypeOK
  BY KnownForm DEF ThreadsKnow, Invoke, At
<1>2. caught' = caught /\ alive' = alive /\ owner' = owner BY DEF Invoke
<1>k. /\ thread[t].w \in Workers /\ r \in Runs /\ WorkerOf[r] = thread[t].w
  BY <1>1, KnownRun DEF RunSteps
<1>3. ThreadStep(t) /\ ~Observe(t) BY <1>1 DEF ThreadStep, Observe, At
<1>4. DispatchInv' BY <1>3, DispatchStepInv DEF ProcessInv, DispatchNext
<1>5. ProcessTypes' BY <1>2 DEF ProcessInv, ProcessTypes
<1>6. CASE ~CanInvoke(r)
  <2>1. Ends(t, "rejected") /\ UNCHANGED vars BY <1>6 DEF Invoke
  <2>2. \A u \in Threads : Keeps(u) \/ Idles(u) BY <1>1, <1>2, <2>1, EndsReturns
  <2>3. Calm BY <2>1, VarsCalm DEF ProcessInv
  <2> QED BY <1>2, <1>4, <1>5, <2>2, <2>3, CalmStep
<1>7. CASE CanInvoke(r)
  <2>1. MarkInvoked(r) BY <1>7 DEF Invoke
  <2>2. /\ \A u \in Threads : u # t => thread'[u] = thread[u]
        /\ thread'[t].pc = "start" /\ thread'[t].guard = thread[t].guard /\ thread'[t].w = thread[t].w
        /\ thread'[t].run = r /\ thread'[t].att = run[r].att
    <3>r. PICK row : row = [thread[t] EXCEPT !.pc = "start", !.copy = run[r].att, !.att = run[r].att] OBVIOUS
    <3>1. thread' = [thread EXCEPT ![t] = row] BY <1>1, <1>7, <3>r DEF Invoke
    <3>2. /\ row.pc = "start" /\ row.guard = thread[t].guard /\ row.w = thread[t].w
          /\ row.run = r /\ row.att = run[r].att
      BY <1>1, <3>r DEF ThreadRow
    <3> QED BY <1>1, <3>1, <3>2
  <2>3. /\ run'[r].att = run[r].att
        /\ \A q \in Runs : q # r => run'[q] = run[q] /\ attempt'[q] = attempt[q]
        /\ lease' = lease /\ worker' = worker
    BY <1>1, <1>k, <2>1 DEF MarkInvoked, TypeOK, RunRow
  <2>4. \A q \in Runs : WorkerOf[q] = thread[t].w => ~Confirmed(q)
    BY <1>1 DEF ProcessInv, Starting
  <2>5. ConfirmedRuns'
    <3> SUFFICES ASSUME NEW q \in Runs, Confirmed(q)
                 PROVE  /\ run'[q].st \in {"running", "settling", "paused"}
                        /\ run'[q].att \in Attempts /\ attempt'[q][run'[q].att].st = "running"
      BY <2>3 DEF ConfirmedRuns, Confirmed, AttemptIs
    <3>1. q # r BY <1>k, <2>4
    <3> QED BY <2>3, <3>1 DEF ProcessInv, ConfirmedRuns, AttemptIs
  <2>6. Held'
    <3> SUFFICES ASSUME NEW p \in alive PROVE HeldBy(p, owner[WorkerOf[p[1]]])'
      BY <1>2 DEF Held
    <3>1. HeldBy(p, owner[WorkerOf[p[1]]]) BY DEF ProcessInv, Held
    <3>2. owner[WorkerOf[p[1]]] # t BY <1>1, NobodyWaits
    <3> QED BY <1>2, <2>2, <3>1, <3>2 DEF HeldBy
  <2>7. Guarding' BY <1>1, <1>2, <2>2, <2>3 DEF ProcessInv, Guarding, GuardedSteps
  <2>8. Starting'
    <3>1. ASSUME NEW u \in Threads, u # t, thread[u].pc \in {"start", "observe"}
          PROVE  thread[u].run \in Runs \ {r}
      <4>1. thread[u].run \in Runs /\ WorkerOf[thread[u].run] = thread[u].w
        BY <1>1, <3>1, KnownRun DEF RunSteps
      <4> QED BY <1>1, <1>k, <3>1, <4>1, OneStarts
    <3>2. ASSUME NEW u \in Threads, thread'[u].pc \in {"start", "observe"}, run'[thread'[u].run].st = "running"
          PROVE  run'[thread'[u].run].att = thread'[u].att
      <4>1. CASE u = t BY <2>2, <2>3, <4>1
      <4>2. CASE u # t
        <5>1. thread[u].run \in Runs /\ thread[u].run # r BY <2>2, <3>1, <3>2, <4>2
        <5>2. run'[thread[u].run] = run[thread[u].run] BY <2>3, <5>1
        <5> QED BY <2>2, <3>2, <4>2, <5>2 DEF ProcessInv, Starting
      <4> QED BY <4>1, <4>2
    <3>3. ASSUME NEW u \in Threads, thread'[u].pc \in {"invoke", "start"}
          PROVE  \A q \in Runs : WorkerOf[q] = thread'[u].w => ~Confirmed(q)
      BY <2>2, <2>4, <3>3 DEF ProcessInv, Starting
    <3> QED BY <2>3, <3>2, <3>3 DEF Starting, Confirmed
  <2>9. ConfirmedProcess' /\ CaughtProcess'
    BY <1>2, <2>3 DEF ProcessInv, ConfirmedProcess, CaughtProcess, Confirmed
  <2> QED BY <1>4, <1>5, <2>5, <2>6, <2>7, <2>8, <2>9 DEF ProcessInv
<1> QED BY <1>6, <1>7

LEMMA StartProcess == ASSUME ProcessInv, NEW t \in Threads, Start(t) PROVE ProcessInv'
<1> DEFINE r == thread[t].run
<1> DEFINE p0 == <<r, thread[t].att>>
<1>1. /\ thread \in [Threads -> ThreadRow] /\ thread[t] \in ThreadRow /\ thread[t].pc = "start"
      /\ ThreadsKnow
  BY KnownForm DEF ThreadsKnow, Start, At
<1>2. /\ caught' = caught /\ owner' = owner /\ UNCHANGED vars
      /\ UNCHANGED <<run, attempt, lease, worker>>
  BY DEF Start, vars
<1>k. /\ thread[t].w \in Workers /\ r \in Runs /\ WorkerOf[r] = thread[t].w
      /\ thread[t].att \in 0 .. MaxAttempts
  BY <1>1, KnownRun DEF RunSteps, ThreadRow
<1>3. ThreadStep(t) /\ ~Invoke(t) /\ ~Observe(t) BY <1>1 DEF ThreadStep, Invoke, Observe, At
<1>4. CASE Ends(t, "terminated") /\ UNCHANGED alive
  <2>1. \A u \in Threads : Keeps(u) \/ Idles(u) BY <1>1, <1>4, EndsReturns
  <2> QED BY <1>2, <1>3, <1>4, <2>1, QuietThread
<1>5. CASE Current(t) /\ alive' = alive \cup {p0} /\ Goto(t, "observe")
  <2>1. DispatchInv' BY <1>3, DispatchStepInv DEF ProcessInv, DispatchNext
  <2>2. /\ \A u \in Threads : u # t => thread'[u] = thread[u]
        /\ thread'[t].pc = "observe" /\ thread'[t].guard = thread[t].guard /\ thread'[t].w = thread[t].w
        /\ thread'[t].run = r /\ thread'[t].att = thread[t].att
    BY <1>1, <1>5 DEF Goto, ThreadRow
  <2>3. owner[thread[t].w] = t BY <1>5 DEF Current
  <2>4. p0[1] = r /\ p0[2] = thread[t].att OBVIOUS
  <2>5. ProcessTypes' BY <1>2, <1>5, <1>k DEF ProcessInv, ProcessTypes
  <2>6. ConfirmedRuns' BY <1>2 DEF ProcessInv, ConfirmedRuns, Confirmed, AttemptIs
  <2>7. Held'
    <3> SUFFICES ASSUME NEW p \in alive' PROVE HeldBy(p, owner[WorkerOf[p[1]]])'
      BY <1>2 DEF Held
    <3>1. CASE p = p0 BY <1>2, <1>k, <2>2, <2>3, <2>4, <3>1 DEF HeldBy
    <3>2. CASE p \in alive
      <4>1. HeldBy(p, owner[WorkerOf[p[1]]]) BY <3>2 DEF ProcessInv, Held
      <4>2. owner[WorkerOf[p[1]]] # t BY <1>1, <3>2, NobodyWaits
      <4> QED BY <1>2, <2>2, <4>1, <4>2 DEF HeldBy
    <3> QED BY <1>5, <3>1, <3>2
  <2>8. Guarding' BY <1>1, <1>2, <2>2, <2>3 DEF ProcessInv, Guarding, GuardedSteps
  <2>9. Starting' BY <1>1, <1>2, <2>2 DEF ProcessInv, Starting, Confirmed
  <2>10. ConfirmedProcess'
    <3> SUFFICES ASSUME NEW q \in Runs, Confirmed(q), NEW p \in alive', WorkerOf[p[1]] = WorkerOf[q]
                 PROVE  p = <<q, lease[q].att>>
      BY <1>2 DEF ConfirmedProcess, Confirmed
    <3>1. WorkerOf[q] # thread[t].w BY <1>1 DEF ProcessInv, Starting
    <3>2. p \in alive BY <1>5, <1>k, <2>4, <3>1
    <3> QED BY <3>2 DEF ProcessInv, ConfirmedProcess
  <2>11. CaughtProcess'
    <3> SUFFICES ASSUME NEW w \in Workers, worker[w].kind = "pause_run", caught[w] # 0,
                        NEW p \in alive', WorkerOf[p[1]] = w
                 PROVE  p = <<worker[w].target, caught[w]>>
      BY <1>2 DEF CaughtProcess
    <3>1. worker[thread[t].w].kind = "none" BY <1>1 DEF ProcessInv, Guarding
    <3>2. p \in alive BY <1>5, <1>k, <2>4, <3>1
    <3> QED BY <3>2 DEF ProcessInv, CaughtProcess
  <2> QED BY <2>1, <2>5, <2>6, <2>7, <2>8, <2>9, <2>10, <2>11 DEF ProcessInv
<1> QED BY <1>4, <1>5 DEF Start

(* The start of the run of t is confirmed: its process is the only one of the worker.        *)
LEMMA ConfirmedStart ==
    ASSUME ProcessInv, NEW t \in Threads, thread[t].pc = "observe", CanConfirm(thread[t].run),
           NEW p \in alive, WorkerOf[p[1]] = thread[t].w
    PROVE  p = <<thread[t].run, lease[thread[t].run].att>>
<1>1. owner[thread[t].w] = t BY DEF ProcessInv, Guarding
<1>2. thread[t].run = p[1] /\ thread[t].att = p[2] BY <1>1 DEF ProcessInv, Held, HeldBy
<1>3. run[thread[t].run].att = thread[t].att BY DEF ProcessInv, Starting, CanConfirm
<1>4. lease[thread[t].run].att = run[thread[t].run].att
  BY DEF CanConfirm, RunningGenerationExact, LeaseHolds
<1>5. p \in Runs \X (0 .. MaxAttempts) BY DEF ProcessInv, ProcessTypes
<1> QED BY <1>2, <1>3, <1>4, <1>5

LEMMA ObserveProcess ==
    ASSUME ProcessInv, "unconfirmed" \notin Faults, NEW t \in Threads, Observe(t)
    PROVE  ProcessInv'
<1> DEFINE r == thread[t].run
<1>1. /\ thread \in [Threads -> ThreadRow] /\ thread[t] \in ThreadRow /\ thread[t].pc = "observe"
      /\ ThreadsKnow /\ RowsKnown /\ TypeOK
  BY KnownForm DEF ThreadsKnow, Observe, At
<1>2. caught' = caught /\ owner' = owner BY DEF Observe
<1>k. /\ thread[t].w \in Workers /\ r \in Runs /\ WorkerOf[r] = thread[t].w
  BY <1>1, KnownRun DEF RunSteps
<1>3. DispatchInv'
  <2>1. ThreadStep(t) BY DEF ThreadStep
  <2> QED BY <2>1, DispatchStepInv DEF ProcessInv, DispatchNext
<1>4. CASE Ends(t, "rejected") /\ alive' = alive \ {<<r, thread[t].att>>} /\ UNCHANGED vars
  <2>1. \A u \in Threads : Keeps(u) \/ Idles(u) BY <1>1, <1>4, EndsReturns
  <2>2. Calm BY <1>4, VarsCalm DEF ProcessInv
  <2>3. ProcessTypes' BY <1>2, <1>4 DEF ProcessInv, ProcessTypes
  <2> QED BY <1>2, <1>3, <1>4, <2>1, <2>2, <2>3, CalmStep
<1>5. CASE /\ ConfirmStart(r) /\ alive' = alive
           /\ thread' = [thread EXCEPT ![t].pc = "work", ![t].guard = FALSE]
  <2>1. /\ \A u \in Threads : u # t => thread'[u] = thread[u]
        /\ thread'[t].pc = "work" /\ thread'[t].guard = FALSE /\ thread'[t].w = thread[t].w
        /\ thread'[t].run = r /\ thread'[t].att = thread[t].att
    <3>r. PICK row : row = [thread[t] EXCEPT !.pc = "work", !.guard = FALSE] OBVIOUS
    <3>1. thread' = [thread EXCEPT ![t] = row] BY <1>1, <1>5, <3>r
    <3>2. /\ row.pc = "work" /\ row.guard = FALSE /\ row.w = thread[t].w
          /\ row.run = r /\ row.att = thread[t].att
      BY <1>1, <3>r DEF ThreadRow
    <3> QED BY <1>1, <3>1, <3>2
  <2>2. CanConfirm(r) /\ UNCHANGED <<run, attempt>> BY <1>5 DEF ConfirmStart
  <2>3. \A q \in Runs : q # r => lease'[q] = lease[q] BY <1>1, <1>5 DEF ConfirmStart, TypeOK
  <2>4. lease'[r].att = lease[r].att
    <3>l. lease \in [Runs -> LeaseRow] /\ lease[r] \in LeaseRow BY <1>1, <1>k DEF TypeOK
    <3>r. PICK row : row = [lease[r] EXCEPT !.start = "confirmed", !.ident = TRUE] OBVIOUS
    <3>1. lease' = [lease EXCEPT ![r] = row] BY <1>5, <3>r, Zenon DEF ConfirmStart
    <3>2. row.att = lease[r].att BY <3>l, <3>r DEF LeaseRow
    <3> QED BY <1>k, <3>l, <3>1, <3>2
  <2>5. SameClaims BY <1>1, <1>5, SetKeepsClaims DEF ConfirmStart
  <2>6. ProcessTypes' BY <1>2, <1>5 DEF ProcessInv, ProcessTypes
  <2>7. ConfirmedRuns'
    <3> SUFFICES ASSUME NEW q \in Runs, Confirmed(q)'
                 PROVE  run[q].st \in {"running", "settling", "paused"} /\ AttemptIs(q, "running")
      BY <2>2 DEF ConfirmedRuns, AttemptIs
    <3>1. CASE q = r BY <2>2, <3>1 DEF CanConfirm, RunningGenerationExact
    <3>2. CASE q # r BY <2>3, <3>2 DEF ProcessInv, ConfirmedRuns, Confirmed
    <3> QED BY <3>1, <3>2
  <2>8. Held'
    <3> SUFFICES ASSUME NEW p \in alive PROVE HeldBy(p, owner[WorkerOf[p[1]]])'
      BY <1>5 DEF Held
    <3>1. HeldBy(p, owner[WorkerOf[p[1]]]) BY DEF ProcessInv, Held
    <3> QED BY <1>2, <2>1, <3>1 DEF HeldBy
  <2>9. Guarding'
    <3>1. ASSUME NEW u \in Threads, u # t, thread[u].guard PROVE worker'[thread[u].w].kind = "none"
      <4>1. thread[u].pc \in GuardedSteps /\ worker[thread[u].w].kind = "none"
        BY <3>1 DEF ProcessInv, Guarding
      <4>2. thread[u].w \in Workers BY <1>1, <4>1, KnownRun DEF GuardedSteps
      <4> QED BY <4>1, <4>2, <2>5 DEF SameClaims
    <3> QED BY <1>2, <2>1, <3>1 DEF ProcessInv, Guarding
  <2>10. Starting'
    <3>1. ASSUME NEW u \in Threads, thread[u].pc \in {"invoke", "start"}, u # t,
                 NEW q \in Runs, WorkerOf[q] = thread[u].w
          PROVE  ~Confirmed(q)'
      <4>1. q # r BY <1>1, <1>k, <3>1, OneStarts
      <4> QED BY <2>3, <3>1, <4>1 DEF ProcessInv, Starting, Confirmed
    <3> QED BY <2>1, <2>2, <3>1 DEF ProcessInv, Starting
  <2>11. ConfirmedProcess'
    <3> SUFFICES ASSUME NEW q \in Runs, Confirmed(q)', NEW p \in alive, WorkerOf[p[1]] = WorkerOf[q]
                 PROVE  p = <<q, lease'[q].att>>
      BY <1>5 DEF ConfirmedProcess
    <3>1. CASE q = r BY <1>1, <1>k, <2>2, <2>4, <3>1, ConfirmedStart
    <3>2. CASE q # r BY <2>3, <3>2 DEF ProcessInv, ConfirmedProcess, Confirmed
    <3> QED BY <3>1, <3>2
  <2>12. CaughtProcess' BY <1>2, <1>5, <2>5 DEF ProcessInv, CaughtProcess, SameClaims
  <2> QED BY <1>3, <2>6, <2>7, <2>8, <2>9, <2>10, <2>11, <2>12 DEF ProcessInv
<1> QED BY <1>4, <1>5 DEF Observe

-----------------------------------------------------------------------------
(* The other steps *)

LEMMA EnsureProcess ==
    ASSUME ProcessInv, "none" \notin Threads, NEW t \in Threads, NEW w \in Workers, Ensure(w, t)
    PROVE  ProcessInv'
<1>1. thread \in [Threads -> ThreadRow] /\ thread[t] = NoThread BY KnownForm DEF ThreadsKnow, Ensure
<1>2. /\ \A u \in Threads : u # t => thread'[u] = thread[u]
      /\ thread'[t].pc = "top" /\ thread'[t].guard = FALSE
  BY <1>1 DEF Ensure, NoThread
<1>3. caught' = caught /\ alive' = alive /\ UNCHANGED vars BY DEF Ensure
<1>4. \A u \in Threads : Keeps(u) \/ Idles(u) BY <1>1, <1>2, <1>3, Outside DEF GuardedSteps, NoThread
<1>5. Calm BY <1>3, VarsCalm DEF ProcessInv
<1>6. DispatchInv' BY DispatchStepInv DEF ProcessInv, DispatchNext
<1>7. ProcessTypes' BY <1>3 DEF ProcessInv, ProcessTypes, Ensure
<1>8. \A v \in Workers : v # w => owner'[v] = owner[v] BY DEF Ensure, ProcessInv, ProcessTypes
<1>9. OwnerFree(w)
  <2>1. owner[w] = "none" BY DEF Ensure
  <2>2. \A p \in alive : WorkerOf[p[1]] # w BY <2>1 DEF ProcessInv, Held, HeldBy
  <2>3. ASSUME NEW u \in Threads, thread'[u].pc = "observe" PROVE thread[u].w # w
    BY <1>2, <2>1, <2>3 DEF ProcessInv, Guarding
  <2> QED BY <1>3, <2>2, <2>3 DEF OwnerFree
<1> QED BY <1>3, <1>4, <1>5, <1>6, <1>7, <1>8, <1>9, CalmStep

LEMMA SameThreads == ASSUME UNCHANGED thread PROVE \A u \in Threads : Keeps(u) \/ Idles(u)
BY DEF Keeps

(* A step of the rows alone.                                                 *)
LEMMA CalmRows ==
    ASSUME ProcessInv, DispatchNext, Calm, UNCHANGED <<thread, owner, caught>>, alive' \subseteq alive
    PROVE  ProcessInv'
<1>1. DispatchInv' BY DispatchStepInv DEF ProcessInv
<1>2. ProcessTypes' BY DEF ProcessInv, ProcessTypes
<1> QED BY <1>1, <1>2, SameThreads, CalmStep

LEMMA EffectProcess == ASSUME ProcessInv, NEW w \in Workers, Effect(w) PROVE ProcessInv'
<1>1. /\ UNCHANGED <<thread, alive, caught>> /\ worker[w].kind # "none"
  BY DEF Effect, ConfirmEffect, RunClaimKinds
<1>2. Calm BY KnownForm, OwnerCalm DEF Effect
<1>3. DispatchInv' BY DispatchStepInv DEF ProcessInv, DispatchNext
<1>4. ProcessTypes' BY <1>1 DEF ProcessInv, ProcessTypes, Effect
<1>5. ASSUME NEW v \in Workers, owner'[v] # owner[v] PROVE OwnerFree(v)
  <2>1. v = w /\ worker[w].kind = "pause_run" BY <1>5 DEF Effect, ProcessInv, ProcessTypes
  <2>2. caught[w] # 0 /\ <<worker[w].target, caught[w]>> \notin alive BY <2>1 DEF Effect
  <2>3. \A p \in alive : WorkerOf[p[1]] # w BY <2>1, <2>2 DEF ProcessInv, CaughtProcess
  <2>4. \A u \in Threads : thread[u].pc = "observe" => thread[u].w # w
    BY <1>1 DEF ProcessInv, Guarding
  <2> QED BY <1>1, <2>1, <2>3, <2>4 DEF OwnerFree
<1> QED BY <1>1, <1>2, <1>3, <1>4, <1>5, SameThreads, CalmStep

LEMMA KillProcess == ASSUME ProcessInv, NEW w \in Workers, KillTarget(w) PROVE ProcessInv'
<1>1. caught' = caught /\ owner' = owner /\ alive' \subseteq alive /\ UNCHANGED vars BY DEF KillTarget
<1>2. PICK P : StopReason(P, "killed") BY DEF KillTarget
<1>3. \A u \in Threads : Keeps(u)
  <2>1. ASSUME NEW u \in Threads PROVE Keeps(u)
    <3>1. thread[u] \in ThreadRow BY KnownForm DEF ThreadsKnow
    <3>2. thread'[u] = thread[u] \/ thread'[u] = [thread[u] EXCEPT !.end = "killed"]
      BY <1>2 DEF StopReason
    <3> QED BY <3>1, <3>2 DEF Keeps, ThreadRow
  <2> QED BY <2>1
<1>4. Calm BY <1>1, VarsCalm DEF ProcessInv
<1>5. DispatchInv' BY DispatchStepInv DEF ProcessInv, DispatchNext
<1>6. ProcessTypes' BY <1>1 DEF ProcessInv, ProcessTypes
<1> QED BY <1>1, <1>3, <1>4, <1>5, <1>6, CalmStep

(* A claim changes no row of a run.                                          *)
LEMMA BeginProcess == ASSUME ProcessInv, NEW w \in Workers, BeginControl(w) PROVE ProcessInv'
<1>0. TypeOK /\ worker \in [Workers -> WorkerRow] /\ worker[w] \in WorkerRow BY KnownForm DEF TypeOK
<1>1. PICK k \in {"pause_run", "resume_run"}, r \in Runs :
        /\ \/ Claim(w, k, r)
           \/ Takeover(w) /\ worker[w].kind = k /\ worker[w].target = r
        /\ Identity(k, r) # 0 => lease[r].st = "active" /\ lease[r].start = "confirmed"
        /\ caught' = [caught EXCEPT ![w] = Identity(k, r)]
  BY DEF BeginControl
<1>2. UNCHANGED <<run, attempt, lease, thread, owner, alive, closer>>
  BY <1>1 DEF BeginControl, local, Claim, Takeover
<1>3. /\ \A v \in Workers : v # w => worker'[v] = worker[v]
      /\ worker'[w].kind = k /\ worker'[w].target = r
  <2>1. CASE Claim(w, k, r) BY <1>0, <2>1 DEF Claim, ClaimRow
  <2>2. CASE Takeover(w) /\ worker[w].kind = k /\ worker[w].target = r
    <3>r. PICK row : row = [worker[w] EXCEPT !.held = TRUE, !.st = ClaimedState(w, worker[w].kind)] OBVIOUS
    <3>1. worker' = [worker EXCEPT ![w] = row] BY <1>0, <2>2, <3>r DEF Takeover
    <3>2. row.kind = worker[w].kind /\ row.target = worker[w].target BY <1>0, <3>r DEF WorkerRow
    <3> QED BY <1>0, <2>2, <3>1, <3>2
  <2> QED BY <1>1, <2>1, <2>2
<1>4. WorkerOf[r] = w
  <2>1. CASE Claim(w, k, r) BY <2>1 DEF Claim, Policy, TargetOk, RunsOf, RunClaimKinds, StopKinds, ComputeKinds
  <2>2. CASE worker[w].kind = k /\ worker[w].target = r
    BY <1>1, <2>2, KnownForm DEF ControlInv, ClaimInv, RunClaimKinds, RunsOf
  <2> QED BY <1>1, <2>1, <2>2
<1>5. DispatchInv' BY DispatchStepInv DEF ProcessInv, DispatchNext
<1>i. Identity(k, r) \in 0 .. MaxAttempts
  <2>1. lease[r] \in LeaseRow BY <1>0 DEF TypeOK
  <2> QED BY <2>1, BoundsAssumption DEF Identity, LeaseRow
<1>6. ProcessTypes' BY <1>1, <1>2, <1>i DEF ProcessInv, ProcessTypes
<1>7. ConfirmedRuns' /\ Held' /\ Starting' /\ ConfirmedProcess'
  BY <1>2 DEF ProcessInv, ConfirmedRuns, Held, HeldBy, Starting, ConfirmedProcess, Confirmed, AttemptIs
<1>8. Guarding'
  <2>1. \A t \in Threads : thread[t].guard => thread[t].w # w BY DEF BeginControl, LockFree
  <2>2. \A t \in Threads : thread[t].guard => worker'[thread[t].w].kind = "none"
    <3> SUFFICES ASSUME NEW t \in Threads, thread[t].guard PROVE worker'[thread[t].w].kind = "none"
      OBVIOUS
    <3>1. thread[t].pc \in GuardedSteps /\ worker[thread[t].w].kind = "none" BY DEF ProcessInv, Guarding
    <3>2. thread[t].w \in Workers BY <3>1, KnownForm, KnownRun DEF GuardedSteps
    <3> QED BY <1>3, <2>1, <3>1, <3>2
  <2> QED BY <1>2, <2>2 DEF ProcessInv, Guarding
<1>9. CaughtProcess'
  <2> SUFFICES ASSUME NEW v \in Workers, worker'[v].kind = "pause_run", caught'[v] # 0,
                      NEW p \in alive, WorkerOf[p[1]] = v
               PROVE  p = <<worker'[v].target, caught'[v]>>
    BY <1>2 DEF CaughtProcess
  <2>c. caught \in [Workers -> 0 .. MaxAttempts] BY DEF ProcessInv, ProcessTypes
  <2>1. CASE v # w
    <3>1. worker'[v] = worker[v] /\ caught'[v] = caught[v] BY <1>1, <1>3, <2>1, <2>c
    <3> QED BY <3>1 DEF ProcessInv, CaughtProcess
  <2>2. CASE v = w
    <3>1. caught'[v] = Identity(k, r) BY <1>1, <2>2, <2>c
    <3>2. caught'[v] = lease[r].att /\ Confirmed(r) BY <1>1, <3>1 DEF Identity, Confirmed
    <3>3. p = <<r, lease[r].att>> BY <1>4, <2>2, <3>2 DEF ProcessInv, ConfirmedProcess
    <3> QED BY <1>3, <2>2, <3>2, <3>3
  <2> QED BY <2>1, <2>2
<1> QED BY <1>5, <1>6, <1>7, <1>8, <1>9 DEF ProcessInv

(* No worker is being closed when no close is started.                       *)
NothingCloses == \A w \in Workers : closer[w] = "none"

LEMMA NothingClosesKept ==
    ASSUME NothingCloses, "close" \notin Faults, [DispatchNext]_dispatchVars PROVE NothingCloses'
<1>1. ASSUME NEW w \in Workers, CloseStep(w) PROVE FALSE
  BY <1>1 DEF NothingCloses, CloseStep, CloseIntent, CloseFence, CloseCancel, CloseKill, CloseFails, CloseComplete
<1>2. ASSUME NEW t \in Threads, ThreadStep(t) PROVE closer' = closer
  <2>1. CASE Top(t) \/ Reserve(t) \/ ClaimStep(t) \/ Unclaimed(t) \/ Rest(t) \/ Lease(t)
             \/ Unlease(t) \/ Requeue(t) \/ Recover(t) \/ Ready(t)
             \/ Block(t) \/ Blocked(t) \/ Fail(t)
    BY <2>1 DEF Top, Reserve, ClaimStep, Unclaimed, Rest, Lease, Unlease, Requeue, Recover, Ready, Block,
       Blocked, Fail
  <2>2. CASE Admit(t) \/ Guard(t) \/ Unstart(t) \/ Invoke(t) \/ Start(t) \/ Observe(t) \/ Mark(t)
             \/ Work(t) \/ Returned(t) \/ HandleStale(t)
    BY <2>2 DEF Admit, Guard, Unstart, Invoke, Start, Observe, Mark, Work, Returned, HandleStale
  <2>3. CASE HandleDone(t) \/ HandleError(t) \/ HandleTerminated(t) \/ HandleKilled(t) \/ Finish(t)
             \/ PausedWorker(t) \/ Exit(t) \/ Drop(t)
    BY <2>3 DEF HandleDone, HandleError, HandleTerminated, HandleKilled, Finish, PausedWorker, Exit, Drop
  <2> QED BY <1>2, <2>1, <2>2, <2>3 DEF ThreadStep
<1>3. CASE \E t \in Threads, w \in Workers : Ensure(w, t) BY <1>3 DEF Ensure, NothingCloses
<1>4. CASE \E w \in Workers : BeginControl(w) \/ KillTarget(w) \/ Effect(w) \/ FinishControl(w) \/ LoseControl(w)
  BY <1>4 DEF BeginControl, KillTarget, Effect, FinishControl, LoseControl, local, NothingCloses
<1>5. CASE (\E r \in Runs : Environment(r) \/ ReconcileStale(r)) \/ StrayEnds \/ Reconcile
  BY <1>5 DEF Environment, ReconcileStale, StrayEnds, Reconcile, local, NothingCloses
<1>6. CASE UNCHANGED dispatchVars BY <1>6 DEF dispatchVars, NothingCloses
<1> QED BY <1>1, <1>2, <1>3, <1>4, <1>5, <1>6 DEF DispatchNext, NothingCloses

LEMMA ProcessInit == ASSUME DispatchInit PROVE ProcessInv /\ NothingCloses
<1>1. DispatchInv BY DispatchInitInv
<1>2. /\ alive = {} /\ closer = [w \in Workers |-> "none"] /\ caught = [w \in Workers |-> 0]
      /\ owner = [w \in Workers |-> "none"] /\ thread = [t \in Threads |-> NoThread]
  BY DEF DispatchInit
<1>3. ProcessTypes BY <1>2, BoundsAssumption DEF ProcessTypes
<1>4. \A r \in Runs : ~Confirmed(r) BY DEF DispatchInit, Init, Confirmed
<1>5. Held /\ Guarding /\ Starting /\ CaughtProcess /\ NothingCloses
  BY <1>2 DEF Held, Guarding, Starting, CaughtProcess, NothingCloses, NoThread
<1> QED BY <1>1, <1>3, <1>4, <1>5 DEF ProcessInv, ConfirmedRuns, ConfirmedProcess

LEMMA ProcessStep ==
    ASSUME {"unconfirmed", "close"} \cap Faults = {}, ProcessInv, NothingCloses,
           [DispatchNext]_dispatchVars
    PROVE  ProcessInv'
<1>f. "unconfirmed" \notin Faults /\ "close" \notin Faults OBVIOUS
<1>n. "none" \notin Threads BY DispatchAssumption
<1>k. RowsKnown /\ TypeOK /\ ThreadsKnow /\ ControlInv BY KnownForm
<1>1. ASSUME NEW t \in Threads, ThreadStep(t) PROVE ProcessInv'
  <2>1. ~Mark(t) BY NeverMarks
  <2> QED BY <1>f, <1>1, <2>1, TopProcess, ClaimProcess, GotoProcess, GuardProcess, InvokeProcess, StartProcess,
             ObserveProcess, WorkProcess, ReturnedProcess, DropProcess DEF ThreadStep
<1>2. ASSUME NEW t \in Threads, NEW w \in Workers, Ensure(w, t) PROVE ProcessInv'
  BY <1>n, <1>2, EnsureProcess
<1>3. ASSUME NEW w \in Workers, BeginControl(w) \/ KillTarget(w) \/ Effect(w) PROVE ProcessInv'
  BY <1>3, BeginProcess, KillProcess, EffectProcess
<1>4. ASSUME NEW w \in Workers, FinishControl(w) \/ LoseControl(w) PROVE ProcessInv'
  <2>1. Calm BY <1>k, <1>4, FinishCalm, OwnerCalm DEF FinishControl, LoseControl
  <2>2. DispatchNext BY <1>4 DEF DispatchNext
  <2>3. UNCHANGED <<thread, owner, caught>> /\ alive' \subseteq alive
    BY <1>4 DEF FinishControl, LoseControl, local
  <2> QED BY <2>1, <2>2, <2>3, CalmRows
<1>5. ASSUME NEW w \in Workers, CloseStep(w) PROVE FALSE
  BY <1>f, <1>5 DEF NothingCloses, CloseStep, CloseIntent, CloseFence, CloseCancel, CloseKill, CloseFails, CloseComplete
<1>6. ASSUME NEW r \in Runs, Environment(r) PROVE ProcessInv'
  <2>1. Calm BY <1>k, <1>6, EnvironmentCalm
  <2>2. UNCHANGED <<thread, owner, caught>> /\ alive' \subseteq alive BY <1>6 DEF Environment, local
  <2> QED BY <1>6, <2>1, <2>2, CalmRows DEF DispatchNext
<1>7. ASSUME NEW r \in Runs, ReconcileStale(r) PROVE ProcessInv'
  <2>1. Calm BY <1>k, <1>7, ReconcileCalm
  <2>2. UNCHANGED <<thread, owner, caught>> /\ alive' \subseteq alive
    BY <1>7 DEF ReconcileStale, ReconcileConfirmed, ReconcileReserved, ReconcileUnconfirmed, Stopped
  <2> QED BY <1>7, <2>1, <2>2, CalmRows DEF DispatchNext
<1>8. CASE StrayEnds
  <2>1. Calm BY <1>8, VarsCalm DEF ProcessInv, StrayEnds
  <2>2. UNCHANGED <<thread, owner, caught>> /\ alive' \subseteq alive BY <1>8 DEF StrayEnds
  <2> QED BY <1>8, <2>1, <2>2, CalmRows DEF DispatchNext
<1>9. CASE Reconcile
  <2>1. Calm BY <1>k, <1>9, DowngradeCalm DEF Reconcile, ReconcileInvalidRunning
  <2>2. UNCHANGED <<thread, owner, caught>> /\ alive' \subseteq alive BY <1>9 DEF Reconcile, local
  <2> QED BY <1>9, <2>1, <2>2, CalmRows DEF DispatchNext
<1>10. CASE UNCHANGED dispatchVars
  <2>1. DispatchInv' BY DispatchStepInv DEF ProcessInv
  <2> QED BY <1>10, <2>1
     DEF dispatchVars, ProcessInv, ProcessTypes, ConfirmedRuns, Held, HeldBy, Guarding, Starting,
         ConfirmedProcess, CaughtProcess, Confirmed, AttemptIs
<1> QED BY <1>1, <1>2, <1>3, <1>4, <1>5, <1>6, <1>7, <1>8, <1>9, <1>10 DEF DispatchNext

(* While no start is lost sight of and no worker is closed, a worker never has two processes,
   whatever is claimed, paused, resumed, expires or is reconciled (the registry of processors,
   the flock and the identity that a pause records).                         *)
THEOREM NeverTwoProcesses ==
    ASSUME {"unconfirmed", "close"} \cap Faults = {}
    PROVE  DispatchSpec => []OneProcess
<1>1. DispatchInit => ProcessInv /\ NothingCloses BY ProcessInit
<1>2. ProcessInv /\ NothingCloses /\ [DispatchNext]_dispatchVars => (ProcessInv /\ NothingCloses)'
  BY ProcessStep, NothingClosesKept
<1>3. ProcessInv => OneProcess BY HeldIsOne
<1> QED BY <1>1, <1>2, <1>3, PTL DEF DispatchSpec
=============================================================================
