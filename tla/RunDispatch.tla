---------------------------- MODULE RunDispatch -----------------------------
(***************************************************************************)
(* The queue processors of one service process over the ledger and the     *)
(* lifecycle claims: _process_worker_queue_parallel as a thread with a     *)
(* program counter and the local variables it keeps across store calls,    *)
(* the processor registry, the worker's flock and the external processes.  *)
(*                                                                         *)
(* A step of a thread is one store transaction or one access to the        *)
(* registry; between two steps anything else may happen.  The workers run  *)
(* in host mode: a pause kills the process and a resume restarts the run.  *)
(* Faults names what the environment may do: refuse capacity, ask for an   *)
(* authorization, lose sight of a process, let a lease expire (the machine *)
(* sleeps longer than the TTL), close the worker.                          *)
(***************************************************************************)
EXTENDS RunControl

CONSTANTS
    Threads,    \* processor threads of the pool
    Self,       \* _executor_id of this service process
    Faults      \* what the environment may do, see FaultKinds

FaultKinds == {"capacity", "needs_input", "unconfirmed", "expiry", "close"}
\* No thread is called "none", which is what the registry holds for no processor.
ASSUME DispatchAssumption ==
    Self \in Executors /\ Faults \subseteq FaultKinds /\ "none" \notin Threads

\* The processors report and write what the ledger's callers may.
ASSUME CallersAssumption ==
    /\ {"completed", "failed", "interrupted", "cancelled"} \subseteq Outcomes
    /\ {"ready", "starting", "paused", "needs_input"} \subseteq WorkerWrites

VARIABLES
    thread,     \* [Threads -> ThreadRow]
    owner,      \* the current processor of a worker (_active_processors with
                \* _processor_generations), or "none"
    alive,      \* the external processes: pairs of run and attempt
    closer,     \* the step of terminate_worker for a worker
    caught      \* the attempt whose process the pause of a worker has seen, or 0

local == <<thread, owner, alive, closer>>
dispatchVars == <<run, attempt, lease, worker, thread, owner, alive, closer, caught>>

\* The steps from _acquire_worker_lifecycle_guard to its release.
GuardedSteps == {"invoke", "start", "observe", "mark", "returned"}
Steps ==
    {"idle", "top", "reserve", "claim", "unclaimed", "rest", "lease", "admit",
     "unlease", "block", "blocked", "fail", "requeue", "ready", "recover",
     "guard", "unstart", "work", "handle", "finish", "paused",
     "exit", "drop"} \cup GuardedSteps

\* How run_task ended.
Endings == {"none", "done", "error", "killed", "rejected", "unconfirmed", "terminated"}

ThreadRow ==
    [pc    : Steps,
     w     : Workers \cup {"none"},
     peek  : Runs \cup {0},         \* queued_run
     run   : Runs \cup {0},         \* current_run
     copy  : 0 .. MaxAttempts,      \* active_attempt_id of the local copy of the run
     att   : 0 .. MaxAttempts,      \* expected_attempt_id of terminal_generation
     tok   : 0 .. MaxTokens,        \* startup_token of the local copy of the lease
     guard : BOOLEAN,               \* the flock is held
     end   : Endings]

CloseSteps == {"none", "fence", "cancel", "kill", "complete"}

\* The rows, the threads, the registry and the processes keep their types.
DispatchTypeOK ==
    /\ TypeOK
    /\ thread \in [Threads -> ThreadRow]
    /\ owner \in [Workers -> Threads \cup {"none"}]
    /\ alive \subseteq Runs \X Attempts
    /\ closer \in [Workers -> CloseSteps]
    /\ caught \in [Workers -> 0 .. MaxAttempts]

NoThread == [pc |-> "idle", w |-> "none", peek |-> 0, run |-> 0, copy |-> 0, att |-> 0,
             tok |-> 0, guard |-> FALSE, end |-> "none"]

DispatchInit ==
    /\ Init
    /\ thread = [t \in Threads |-> NoThread]
    /\ owner = [w \in Workers |-> "none"]
    /\ alive = {}
    /\ closer = [w \in Workers |-> "none"]
    /\ caught = [w \in Workers |-> 0]

-----------------------------------------------------------------------------

Current(t) == owner[thread[t].w] = t
Goto(t, pc) == thread' = [thread EXCEPT ![t].pc = pc]
At(t, pc) == thread[t].pc = pc

\* The run a failure is reported for.
Subject(t) == IF thread[t].run # 0 THEN thread[t].run ELSE thread[t].peek

\* The flock of the worker: a control holds it from claim to finalization, a
\* processor from its start validation to the confirmed start.
LockFree(w) ==
    /\ ~worker[w].held
    /\ \A t \in Threads : ~(thread[t].w = w /\ thread[t].guard)

\* _lease_is_fenced_by_lifecycle_claim
FencedByClaim(r) ==
    /\ W(r).kind \in RunClaimKinds \cup StopKinds \cup {"paused"}
    /\ W(r).target = r

\* _release_host_run_lease: whatever lease is active for the run now.
ReleaseFor(r) ==
    /\ lease' = IF lease[r].st = "active" /\ lease[r].exec = Self /\ ~FencedByClaim(r)
                THEN Release({r}) ELSE lease
    /\ UNCHANGED <<run, attempt, worker>>

\* update_worker_state by a thread
WriteWorker(w, s) ==
    /\ worker' = IF worker[w].st \in ClosedStates THEN worker
                 ELSE [worker EXCEPT ![w].st = s]
    /\ UNCHANGED <<run, attempt, lease>>

\* The terminal write of a thread: finalize_run_if_state with the generation that
\* _terminal_generation_for_run captured.
OwnGeneration(t) ==
    LET r == thread[t].run
    IN  /\ run[r].att = thread[t].att
        /\ lease[r].att = thread[t].att
        /\ lease[r].tok = thread[t].tok

-----------------------------------------------------------------------------
\* Registering and leaving

\* Mutant of Ensure: the registry is not looked at.
EnsureUnregistered(w, t) ==
    /\ thread[t] = NoThread
    /\ Claimable(w) # {}
    /\ worker[w].st \notin FencedStates
    /\ worker[w].kind = "none"
    /\ \A q \in ActiveLeases(w) : lease[q].start # "termination_unconfirmed"
    /\ owner' = [owner EXCEPT ![w] = t]
    /\ thread' = [thread EXCEPT ![t] = [NoThread EXCEPT !.pc = "top", !.w = w]]
    /\ UNCHANGED <<vars, alive, closer, caught>>

\* _ensure_worker_processor, called after every enqueue, by the retry scheduler
\* and by a processor that leaves.
Ensure(w, t) ==
    /\ thread[t] = NoThread
    /\ owner[w] = "none"
    /\ Claimable(w) # {}
    /\ worker[w].st \notin FencedStates
    /\ worker[w].kind = "none"
    /\ \A q \in ActiveLeases(w) : lease[q].start # "termination_unconfirmed"
    /\ owner' = [owner EXCEPT ![w] = t]
    /\ thread' = [thread EXCEPT ![t] = [NoThread EXCEPT !.pc = "top", !.w = w]]
    /\ UNCHANGED <<vars, alive, closer, caught>>

\* The outer finally: the run's lease, then the registration.
Exit(t) ==
    /\ At(t, "exit")
    /\ IF thread[t].run # 0 THEN ReleaseFor(thread[t].run) ELSE UNCHANGED vars
    /\ Goto(t, "drop")
    /\ UNCHANGED <<owner, alive, closer, caught>>

Drop(t) ==
    /\ At(t, "drop")
    /\ owner' = IF Current(t) THEN [owner EXCEPT ![thread[t].w] = "none"] ELSE owner
    /\ thread' = [thread EXCEPT ![t] = NoThread]
    /\ UNCHANGED <<vars, alive, closer, caught>>

-----------------------------------------------------------------------------
\* Reserving and claiming

\* The head of the loop, with peek_next_queued_run.
Top(t) ==
    LET w == thread[t].w
        fresh == [NoThread EXCEPT !.w = w]
    IN  /\ At(t, "top")
        /\ \/ /\ ~Current(t) \/ worker[w].st \in FencedStates
              /\ thread' = [thread EXCEPT ![t] = [fresh EXCEPT !.pc = "drop"]]
           \/ /\ Current(t) /\ worker[w].st \notin FencedStates
              /\ Claimable(w) = {}
              /\ thread' = [thread EXCEPT ![t] = [fresh EXCEPT !.pc = "claim"]]
           \/ /\ Current(t) /\ worker[w].st \notin FencedStates
              /\ \E q \in Claimable(w) :
                    /\ \A p \in Claimable(w) : q <= p
                    /\ thread' = [thread EXCEPT ![t] =
                        [fresh EXCEPT !.pc = "reserve", !.peek = q, !.copy = run[q].att]]
        /\ UNCHANGED <<vars, owner, alive, closer, caught>>

\* The store refuses a reservation for a run that names an attempt and is not
\* claimed (WorkAdmissionError).
NotClaimed(r) == lease[r].st # "active" /\ run[r].att # 0 /\ run[r].st # "claimed"

OwnLease(r) == lease[r].st = "active" /\ lease[r].exec = Self

\* _acquire_host_run_lease for the queued run.
Reserve(t) ==
    LET r == thread[t].peek
    IN  /\ At(t, "reserve")
        /\ \/ OwnLease(r) /\ Goto(t, "claim") /\ UNCHANGED vars
           \/ AcquireLease(r, Self) /\ Goto(t, "claim")
           \/ NotClaimed(r) /\ Goto(t, "drop") /\ UNCHANGED vars
           \/ "capacity" \in Faults /\ Goto(t, "requeue") /\ UNCHANGED vars
        /\ UNCHANGED <<owner, alive, closer, caught>>

\* The claim finds a fence, a blocking run or nothing that is due.
NothingToClaim(w) ==
    \/ ~AllowsStart(w)
    \/ Blocking(w) # {}
    \/ Claimable(w) = {}

ClaimStep(t) ==
    LET w == thread[t].w
    IN  /\ At(t, "claim")
        /\ \/ \E r \in Claimable(w), a \in Attempts :
                /\ ClaimGuard(w, Self, FALSE, r, a)
                /\ ClaimWrites(w, r, a)
                /\ thread' = [thread EXCEPT ![t].pc = "lease", ![t].run = r, ![t].copy = a]
           \/ /\ NothingToClaim(w)
              /\ Goto(t, "unclaimed")
              /\ UNCHANGED vars
        /\ UNCHANGED <<owner, alive, closer, caught>>

\* No claim: the reservation goes back and an idle worker is ready.
Unclaimed(t) ==
    /\ At(t, "unclaimed")
    /\ IF thread[t].peek # 0 THEN ReleaseFor(thread[t].peek) ELSE UNCHANGED vars
    /\ Goto(t, "rest")
    /\ UNCHANGED <<owner, alive, closer, caught>>

Rest(t) ==
    LET w == thread[t].w
    IN  /\ At(t, "rest")
        /\ IF /\ Current(t)
              /\ worker[w].st \notin FencedStates \cup {"failed"}
              /\ InState(w, DispatchStates) = {}
           THEN WriteWorker(w, "ready")
           ELSE UNCHANGED vars
        /\ Goto(t, "drop")
        /\ UNCHANGED <<owner, alive, closer, caught>>

\* Mutant of Lease: a replayed reservation is taken for a fresh one.
LeaseFreshToken(t) ==
    LET r == thread[t].run
    IN  /\ At(t, "lease")
        /\ \/ /\ OwnLease(r)
              /\ thread' = [thread EXCEPT ![t].pc = "admit", ![t].att = thread[t].copy, ![t].tok = lease[r].tok + 1]
              /\ UNCHANGED vars
           \/ /\ AcquireLease(r, Self)
              /\ thread' = [thread EXCEPT ![t].pc = "admit", ![t].att = thread[t].copy, ![t].tok = lease[r].tok + 1]
           \/ NotClaimed(r) /\ Goto(t, "recover") /\ UNCHANGED vars
           \/ "capacity" \in Faults /\ Goto(t, "unlease") /\ UNCHANGED vars
        /\ UNCHANGED <<owner, alive, closer, caught>>

\* _acquire_host_run_lease for the claimed run; the raw token stays local.
Lease(t) ==
    LET r == thread[t].run
    IN  /\ At(t, "lease")
        /\ \/ /\ OwnLease(r)
              /\ thread' = [thread EXCEPT ![t].pc = "admit", ![t].att = thread[t].copy, ![t].tok = lease[r].tok]
              /\ UNCHANGED vars
           \/ /\ AcquireLease(r, Self)
              /\ thread' = [thread EXCEPT ![t].pc = "admit", ![t].att = thread[t].copy, ![t].tok = lease[r].tok + 1]
           \/ NotClaimed(r) /\ Goto(t, "recover") /\ UNCHANGED vars
           \/ "capacity" \in Faults /\ Goto(t, "unlease") /\ UNCHANGED vars
        /\ UNCHANGED <<owner, alive, closer, caught>>

-----------------------------------------------------------------------------
\* Giving a run back

\* The reservation or the authorization of the claimed run failed.  The lease goes
\* back first; the run is requeued, blocked or failed after it.
Unlease(t) ==
    /\ At(t, "unlease")
    /\ ReleaseFor(thread[t].run)
    /\ \/ Goto(t, "requeue")
       \/ "needs_input" \in Faults /\ (Goto(t, "block") \/ Goto(t, "fail"))
    /\ UNCHANGED <<owner, alive, closer, caught>>

\* _requeue_retryable_run with the local copy: its attempt must be current.
Requeue(t) ==
    LET r == Subject(t)
    IN  /\ At(t, "requeue")
        /\ IF CanRequeue(r) /\ run[r].att = thread[t].copy
           THEN RequeueForRetry(r) /\ Goto(t, "ready")
           ELSE UNCHANGED vars /\ Goto(t, "exit")
        /\ UNCHANGED <<owner, alive, closer, caught>>

\* The outer except before the runtime was invoked, and a rejected start: the run
\* is read again, so whatever attempt it names now is requeued.
Recover(t) ==
    LET r == thread[t].run
    IN  /\ \/ At(t, "recover")
           \/ At(t, "handle") /\ thread[t].end = "rejected"
        /\ IF CanRequeue(r) /\ (At(t, "recover") => run[r].st # "queued")
           THEN RequeueForRetry(r) /\ Goto(t, "ready")
           ELSE UNCHANGED vars /\ Goto(t, "exit")
        /\ UNCHANGED <<owner, alive, closer, caught>>

Ready(t) ==
    /\ At(t, "ready")
    /\ WriteWorker(thread[t].w, "ready")
    /\ Goto(t, "exit")
    /\ UNCHANGED <<owner, alive, closer, caught>>

\* A missing authorization (BrokerAdmissionError): the run, then the worker.
Block(t) ==
    LET r == thread[t].run
    IN  /\ At(t, "block")
        /\ IF run[r].st = "claimed" /\ TransitionGuard(r)
           THEN MarkNeedsInput(r) ELSE UNCHANGED vars
        /\ Goto(t, "blocked")
        /\ UNCHANGED <<owner, alive, closer, caught>>

Blocked(t) ==
    /\ At(t, "blocked")
    /\ WriteWorker(thread[t].w, "needs_input")
    /\ Goto(t, "exit")
    /\ UNCHANGED <<owner, alive, closer, caught>>

\* A refused authorization: the claimed generation fails.
Fail(t) ==
    LET r == thread[t].run
    IN  /\ At(t, "fail")
        /\ IF OwnGeneration(t) /\ run[r].st = "claimed" /\ GenerationExact(r)
           THEN FinalizeRun(r, "failed") ELSE UNCHANGED vars
        /\ Goto(t, "ready")
        /\ UNCHANGED <<owner, alive, closer, caught>>

-----------------------------------------------------------------------------
\* Starting

\* admit_claimed_run: lease id and executor are compared, the attempt is not.
Admit(t) ==
    LET r == thread[t].run
    IN  /\ At(t, "admit")
        /\ \/ CanAdmit(r) /\ AdmitClaimed(r) /\ Goto(t, "guard")
           \/ ~CanAdmit(r) /\ Goto(t, "recover") /\ UNCHANGED vars
           \/ "needs_input" \in Faults /\ Goto(t, "unlease") /\ UNCHANGED vars
        /\ UNCHANGED <<owner, alive, closer, caught>>

\* validate_host_run_start_reservation under the flock.
Validated(t) ==
    LET r == thread[t].run
    IN  /\ AllowsStart(WorkerOf[r])
        /\ run[r].st = "admitted"
        /\ AttemptIs(r, "admitted")
        /\ OwnLease(r)
        /\ LeaseHolds(r)
        /\ lease[r].tok = thread[t].tok
        /\ lease[r].start = "reserved"

Guard(t) ==
    /\ At(t, "guard")
    /\ LockFree(thread[t].w)
    /\ IF Validated(t)
       THEN thread' = [thread EXCEPT ![t].pc = "invoke", ![t].guard = TRUE]
       ELSE Goto(t, "unstart")
    /\ UNCHANGED <<vars, owner, alive, closer, caught>>

Unstart(t) ==
    /\ At(t, "unstart")
    /\ ReleaseFor(thread[t].run)
    /\ Goto(t, "exit")
    /\ UNCHANGED <<owner, alive, closer, caught>>

Ends(t, e) == thread' = [thread EXCEPT ![t].pc = "returned", ![t].end = e]

Invoke(t) ==
    LET r == thread[t].run
    IN  /\ At(t, "invoke")
        /\ IF CanInvoke(r)
           THEN /\ MarkInvoked(r)
                /\ thread' = [thread EXCEPT ![t].pc = "start", ![t].copy = run[r].att,
                                           ![t].att = run[r].att]
           ELSE Ends(t, "rejected") /\ UNCHANGED vars
        /\ UNCHANGED <<owner, alive, closer, caught>>

\* Mutant of Start: the process is spawned outside the start guard.
StartUnguarded(t) ==
    LET r == thread[t].run
    IN  /\ At(t, "start")
        /\ alive' = alive \cup {<<r, thread[t].att>>}
        /\ Goto(t, "observe")
        /\ UNCHANGED <<vars, owner, closer, caught>>

\* _runtime_execution_start_guard, then the process is spawned, both under the
\* runtime start lock that terminate_worker takes too.
Start(t) ==
    LET r == thread[t].run
    IN  /\ At(t, "start")
        /\ closer[thread[t].w] \in {"none", "fence"}
        /\ IF Current(t) /\ W(r).st \notin ClosedStates /\ run[r].st = "running"
           THEN /\ alive' = alive \cup {<<r, thread[t].att>>}
                /\ Goto(t, "observe")
           ELSE /\ Ends(t, "terminated")
                /\ UNCHANGED alive
        /\ UNCHANGED <<vars, owner, closer, caught>>

\* _observe_run_start: the confirmed start lets the flock go; a start that cannot
\* be confirmed is killed, or its process is lost sight of.
Observe(t) ==
    LET r == thread[t].run
        confirmed == CanConfirm(r) /\ OwnLease(r) /\ lease[r].tok = thread[t].tok
    IN  /\ At(t, "observe")
        /\ \/ /\ confirmed
              /\ ConfirmStart(r)
              /\ thread' = [thread EXCEPT ![t].pc = "work", ![t].guard = FALSE]
              /\ UNCHANGED alive
           \/ /\ ~confirmed
              /\ Ends(t, "rejected")
              /\ alive' = alive \ {<<r, thread[t].att>>}
              /\ UNCHANGED vars
           \/ /\ "unconfirmed" \in Faults
              /\ thread' = [thread EXCEPT ![t].pc = "mark", ![t].end = "unconfirmed"]
              /\ UNCHANGED <<vars, alive>>
        /\ UNCHANGED <<owner, closer, caught>>

\* mark_host_run_start_termination_unconfirmed
Mark(t) ==
    LET r == thread[t].run
    IN  /\ At(t, "mark")
        /\ IF OwnLease(r) /\ lease[r].tok = thread[t].tok /\ lease[r].start = "reserved"
           THEN MarkTerminationUnconfirmed(r) ELSE UNCHANGED vars
        /\ Goto(t, "returned")
        /\ UNCHANGED <<owner, alive, closer, caught>>

\* _note_stop_reason: the thread that waits for a process of P will raise
\* WorkerPausedError ("killed") or WorkerTerminatedError ("terminated").
StopReason(P, e) ==
    thread' = [t \in Threads |->
        IF thread[t].pc \in {"observe", "work"} /\ <<thread[t].run, thread[t].att>> \in P
        THEN [thread[t] EXCEPT !.end = e] ELSE thread[t]]

\* run_task returns or raises: by itself, for the noted reason, or because the
\* process is gone without one.
Work(t) ==
    LET p == <<thread[t].run, thread[t].att>>
    IN  /\ At(t, "work")
        /\ \/ thread[t].end # "none" /\ Ends(t, thread[t].end)
           \/ thread[t].end = "none" /\ p \in alive /\ Ends(t, "done")
           \/ thread[t].end = "none" /\ Ends(t, "error")
        /\ alive' = alive \ {p}
        /\ UNCHANGED <<vars, owner, closer, caught>>

-----------------------------------------------------------------------------
\* Cleaning up and reporting

\* The inner finally: the local copy is refreshed, the flock is let go, and so is
\* the lease of a run that is not executing.
Returned(t) ==
    LET r == thread[t].run
    IN  /\ At(t, "returned")
        /\ IF thread[t].end # "unconfirmed" /\ run[r].st \notin {"running", "settling"}
           THEN ReleaseFor(r) ELSE UNCHANGED vars
        /\ thread' = [thread EXCEPT ![t].pc = "handle", ![t].guard = FALSE,
                                   ![t].copy = run[r].att]
        /\ UNCHANGED <<owner, alive, closer, caught>>

\* Mutant of HandleStale: preserve_start_fence is forgotten.
HandleStaleReleases(t) ==
    /\ At(t, "handle")
    /\ \/ thread[t].end = "unconfirmed" /\ Goto(t, "exit")
       \/ /\ thread[t].end \in {"done", "error", "killed", "terminated"}
          /\ ~Current(t)
          /\ Goto(t, "exit")
    /\ UNCHANGED <<vars, owner, alive, closer, caught>>

\* A start that is still fenced keeps its lease; a stale processor leaves.
HandleStale(t) ==
    /\ At(t, "handle")
    /\ \/ thread[t].end = "unconfirmed" /\ Goto(t, "drop")
       \/ /\ thread[t].end \in {"done", "error", "killed", "terminated"}
          /\ ~Current(t)
          /\ Goto(t, "exit")
    /\ UNCHANGED <<vars, owner, alive, closer, caught>>

Handle(t, e) == At(t, "handle") /\ thread[t].end = e /\ Current(t)

\* The terminal write into s from one of the expected states; a late one is ignored.
Report(t, S, s, next, late) ==
    LET r == thread[t].run
    IN  IF OwnGeneration(t) /\ run[r].st \in S /\ GenerationExact(r)
        THEN FinalizeRun(r, s) /\ Goto(t, next)
        ELSE UNCHANGED vars /\ Goto(t, late)

HandleDone(t) ==
    /\ Handle(t, "done")
    /\ Report(t, {"running", "settling"}, "completed", "finish", "top")
    /\ UNCHANGED <<owner, alive, closer, caught>>

\* A provider error is retried, or final; what is final depends on the worker.
HandleError(t) ==
    /\ Handle(t, "error")
    /\ CASE worker[thread[t].w].st = "paused" ->
                Report(t, {"running"}, "interrupted", "exit", "exit")
         [] worker[thread[t].w].st = "terminated" ->
                Report(t, {"running"}, "cancelled", "exit", "exit")
         [] OTHER ->
                \/ Report(t, {"running"}, "failed", "finish", "top")
                \/ Goto(t, "requeue") /\ UNCHANGED vars
    /\ UNCHANGED <<owner, alive, closer, caught>>

\* WorkerTerminatedError: the close cancelled the run and ended the attempt first,
\* so the terminal write finds no generation of its own (TerminationIsLate).
HandleTerminated(t) ==
    /\ Handle(t, "terminated")
    /\ Goto(t, "exit")
    /\ UNCHANGED <<vars, owner, alive, closer, caught>>

\* WorkerPausedError: the pause may be durable already, or its claim pending.
HandleKilled(t) ==
    LET r == thread[t].run
    IN  /\ Handle(t, "killed")
        /\ IF run[r].st = "running" /\ TransitionGuard(r)
           THEN TransitionPaused(r) /\ Goto(t, "paused")
           ELSE UNCHANGED vars /\ Goto(t, IF W(r).target = r THEN "exit" ELSE "paused")
        /\ UNCHANGED <<owner, alive, closer, caught>>

Finish(t) ==
    /\ At(t, "finish")
    /\ WriteWorker(thread[t].w, "ready")
    /\ Goto(t, "top")
    /\ UNCHANGED <<owner, alive, closer, caught>>

\* The worker follows the state the run has now.
PausedWorker(t) ==
    LET s == run[thread[t].run].st
    IN  /\ At(t, "paused")
        /\ WriteWorker(thread[t].w, CASE s \in TerminalStates -> "ready"
                                      [] s = "queued"         -> "starting"
                                      [] OTHER                -> "paused")
        /\ Goto(t, "exit")
        /\ UNCHANGED <<owner, alive, closer, caught>>

ThreadStep(t) ==
    \/ Top(t) \/ Reserve(t) \/ ClaimStep(t) \/ Unclaimed(t) \/ Rest(t) \/ Lease(t)
    \/ Unlease(t) \/ Requeue(t) \/ Recover(t) \/ Ready(t)
    \/ Block(t) \/ Blocked(t) \/ Fail(t)
    \/ Admit(t) \/ Guard(t) \/ Unstart(t) \/ Invoke(t) \/ Start(t) \/ Observe(t) \/ Mark(t)
    \/ Work(t) \/ Returned(t) \/ HandleStale(t) \/ HandleDone(t) \/ HandleError(t)
    \/ HandleTerminated(t) \/ HandleKilled(t) \/ Finish(t) \/ PausedWorker(t)
    \/ Exit(t) \/ Drop(t)

-----------------------------------------------------------------------------
\* Controls, under the flock

\* The attempt whose process a pause of r has to stop (_require_confirmed_host_control_identity):
\* the one that the run's confirmed lease names, none for a run that waits.
Identity(k, r) ==
    IF k = "pause_run" /\ run[r].st \in {"running", "settling"} THEN lease[r].att ELSE 0

\* The process is identified before the claim, a claim that was taken over starts over.
BeginControl(w) ==
    /\ LockFree(w)
    /\ \E k \in Kinds \cap {"pause_run", "resume_run"}, r \in Runs :
        /\ \/ Claim(w, k, r)
           \/ Takeover(w) /\ worker[w].kind = k /\ worker[w].target = r
        /\ Identity(k, r) # 0 => lease[r].st = "active" /\ lease[r].start = "confirmed"
        /\ caught' = [caught EXCEPT ![w] = Identity(k, r)]
    /\ UNCHANGED local

\* The runtime stops the exact process of the target.
KillTarget(w) ==
    LET p == <<worker[w].target, caught[w]>>
    IN  /\ Owns(w, "pause_run")
        /\ p \in alive
        /\ alive' = alive \ {p}
        /\ StopReason({p}, "killed")
        /\ UNCHANGED <<vars, owner, closer, caught>>

\* The effect is recorded and the pause of a process retires the processor: the two
\* calls follow each other and the second cannot fail.
Effect(w) ==
    /\ ConfirmEffect(w)
    /\ worker[w].kind = "pause_run" =>
          caught[w] # 0 /\ <<worker[w].target, caught[w]>> \notin alive
    /\ owner' = IF worker[w].kind = "pause_run" THEN [owner EXCEPT ![w] = "none"] ELSE owner
    /\ UNCHANGED <<thread, alive, closer, caught>>

\* The target must still be in the state that the pause found: waiting, or executing.
FinishControl(w) ==
    /\ \/ TerminalWon(w)
       \/ FinalizePause(w, TRUE) /\ (caught[w] = 0 <=> run[worker[w].target].st = "queued")
       \/ FinalizeResumeQueued(w)
       \/ AbandonResume(w)
    /\ UNCHANGED <<local, caught>>

LoseControl(w) == OwnerLost(w) /\ UNCHANGED <<local, caught>>

-----------------------------------------------------------------------------
\* terminate_worker: without a lifecycle claim, but under the runtime start lock

CloseTo(w, pc) == closer' = [closer EXCEPT ![w] = pc]

\* The processor is retired before the lock is taken.
CloseIntent(w) ==
    /\ "close" \in Faults
    /\ closer[w] = "none"
    /\ worker[w].st \notin {"terminating", "terminated"}
    /\ owner' = [owner EXCEPT ![w] = "none"]
    /\ CloseTo(w, "fence")
    /\ UNCHANGED <<vars, thread, alive, caught>>

CloseFence(w) ==
    /\ closer[w] = "fence"
    /\ \/ BeginTermination(w) /\ CloseTo(w, "cancel")
       \/ worker[w].st \in {"terminating", "terminated"} /\ CloseTo(w, "none") /\ UNCHANGED vars
    /\ UNCHANGED <<thread, owner, alive, caught>>

\* Mutant of CloseCancel: the rows are left for the completion of the close.
CloseCancelLater(w) ==
    /\ closer[w] = "cancel"
    /\ CloseTo(w, "kill")
    /\ UNCHANGED <<vars, thread, owner, alive, caught>>

CloseCancel(w) ==
    /\ closer[w] = "cancel"
    /\ CancelPending(w, "cancelled")
    /\ CloseTo(w, "kill")
    /\ UNCHANGED <<thread, owner, alive, caught>>

CloseKill(w) ==
    LET mine == {p \in alive : WorkerOf[p[1]] = w}
    IN  /\ closer[w] = "kill"
        /\ alive' = alive \ mine
        /\ StopReason(mine, "terminated")
        /\ CloseTo(w, "complete")
        /\ UNCHANGED <<vars, owner, caught>>

\* The runtime could not be stopped.
CloseFails(w) ==
    /\ closer[w] = "kill"
    /\ IF worker[w].st \in ClosedStates THEN FailTermination(w) ELSE UNCHANGED vars
    /\ CloseTo(w, "none")
    /\ UNCHANGED <<thread, owner, alive, caught>>

\* A worker that left 'terminating' meanwhile stays what it is.
CloseComplete(w) ==
    /\ closer[w] = "complete"
    /\ IF worker[w].st = "terminating" THEN CompleteTermination(w) ELSE UNCHANGED vars
    /\ CloseTo(w, "none")
    /\ UNCHANGED <<thread, owner, alive, caught>>

CloseStep(w) ==
    \/ CloseIntent(w) \/ CloseFence(w) \/ CloseCancel(w)
    \/ CloseKill(w) \/ CloseFails(w) \/ CloseComplete(w)

-----------------------------------------------------------------------------
\* Everything else that touches the rows

\* reconcile_host_run_leases, for a stale lease that no lifecycle claim owns.  The
\* runtime stops the process the lease recorded, or finds it gone.
Stopped(r) == alive' = alive \ {<<r, lease[r].att>>}

\* A confirmed start: a verified process revives the lease, a dead one ends it.
ReconcileConfirmed(r) ==
    /\ lease[r].start = "confirmed"
    /\ \/ /\ <<r, lease[r].att>> \in alive
          /\ Heartbeat(r, TRUE, TRUE)
          /\ UNCHANGED alive
       \/ Stopped(r) /\ ReconcileDeadLease(r)

\* _reconcile_reserved_host_run_start: a claim that was never dispatched goes back;
\* a start whose process is found is stopped; otherwise it stays fenced.
ReconcileReserved(r) ==
    /\ lease[r].start = "reserved" /\ lease[r].att # 0
    /\ LockFree(WorkerOf[r])
    /\ IF run[r].st = "claimed" /\ ~lease[r].ident
       THEN RequeueUnconfirmed(r) /\ UNCHANGED alive
       ELSE \/ <<r, lease[r].att>> \in alive /\ Stopped(r) /\ RequeueUnconfirmed(r)
            \/ MarkTerminationUnconfirmed(r) /\ UNCHANGED alive

\* _reconcile_termination_unconfirmed_host_run_start
ReconcileUnconfirmed(r) ==
    /\ lease[r].start = "termination_unconfirmed"
    /\ LockFree(WorkerOf[r])
    /\ Stopped(r)
    /\ RequeueUnconfirmed(r)

ReconcileStale(r) ==
    /\ OwnLease(r) /\ ~lease[r].live
    /\ ~FencedByClaim(r)
    /\ \/ run[r].st \in TerminalStates /\ ReleaseLease(r) /\ UNCHANGED alive
       \/ ReleaseExpiredPreaccept(r) /\ UNCHANGED alive
       \/ /\ run[r].st \notin TerminalStates
          /\ ReconcileConfirmed(r) \/ ReconcileReserved(r) \/ ReconcileUnconfirmed(r)
    /\ UNCHANGED <<thread, owner, closer, caught>>

Environment(r) ==
    /\ \/ CreateRun(r)
       \/ ExpireQueued(r)
       \/ RetryDue(r)
       \/ QueueDeadlinePasses(r)
       \/ "needs_input" \in Faults /\ ResumeNeedsInput(r)
       \/ "expiry" \in Faults /\ LeaseExpires(r)
    /\ UNCHANGED <<local, caught>>

\* A process that no thread waits for any more exits.
StrayEnds ==
    \E p \in alive :
        /\ \A t \in Threads : ~(thread[t].pc \in {"observe", "mark", "work"}
                                /\ thread[t].run = p[1] /\ thread[t].att = p[2])
        /\ alive' = alive \ {p}
        /\ UNCHANGED <<vars, thread, owner, closer, caught>>

Reconcile == ReconcileInvalidRunning /\ UNCHANGED <<local, caught>>

DispatchNext ==
    \/ \E t \in Threads : ThreadStep(t) \/ \E w \in Workers : Ensure(w, t)
    \/ \E w \in Workers : \/ BeginControl(w) \/ KillTarget(w) \/ Effect(w)
                          \/ FinishControl(w) \/ LoseControl(w) \/ CloseStep(w)
    \/ \E r \in Runs : Environment(r) \/ ReconcileStale(r)
    \/ StrayEnds
    \/ Reconcile

DispatchSpec == DispatchInit /\ [][DispatchNext]_dispatchVars

-----------------------------------------------------------------------------
\* What dispatch promises

\* Every external process is fenced: its run names its attempt and the active
\* lease is that attempt's, so neither a claim nor a control can miss it.
ProcessFenced ==
    \A p \in alive :
        /\ run[p[1]].att = p[2]
        /\ lease[p[1]].st = "active" /\ lease[p[1]].att = p[2]

\* One worker never has two processes, however processors, leases, pauses and
\* recoveries interleave.
OneProcess ==
    \A p, q \in alive : WorkerOf[p[1]] = WorkerOf[q[1]] => p = q

\* A worker that is closed has no process: the close stops the one there is and no
\* processor that is under way spawns another.
ClosedIsQuiet ==
    \A p \in alive : worker[WorkerOf[p[1]]].st # "terminated"

\* A processor whose process was stopped by a close comes too late to report: the
\* close cancelled the run and ended the attempt before the process went, so the
\* processor's own cancellation cannot overwrite what the close decided.
TerminationIsLate ==
    \A t \in Threads :
        Handle(t, "terminated") =>
            ~(OwnGeneration(t) /\ run[thread[t].run].st = "running"
              /\ GenerationExact(thread[t].run))

\* "A stale Stop, timeout, rejected-start cleanup or old process `finally` must not
\* signal, clear or release a replacement generation, including a replacement for
\* the same run": a thread releases no lease of another attempt than its own.
CleanupSparesReplacement ==
    [][\A t \in Threads, r \in Runs :
          /\ thread'[t] # thread[t]
          /\ thread[t].run = r
          /\ lease[r].st = "active" /\ lease'[r].st # "active"
          => lease[r].att \in {0, thread[t].att}]_dispatchVars

\* "absence of that generation is the only release proof": no run is put back into
\* the queue while its process lives.
RequeueNeedsAbsence ==
    [][\A r \in Runs :
          run[r].st \in {"running", "settling"} /\ run'[r].st = "queued"
          => <<r, run[r].att>> \notin alive]_dispatchVars
=============================================================================
