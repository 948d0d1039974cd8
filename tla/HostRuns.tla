------------------------------ MODULE HostRuns ------------------------------
(***************************************************************************)
(* The durable run ledger of the GlassHive control plane: the rows of the  *)
(* SQLite tables runs, run_attempts, host_run_leases and workers, and the  *)
(* transactions of store.py that move them.  Every Store method runs one   *)
(* BEGIN IMMEDIATE transaction, so every method is one action here.        *)
(*                                                                         *)
(* The callers (queue processors, heartbeat and reconciliation loops, API  *)
(* handlers, several service processes over one database) may call any     *)
(* method at any moment and with arguments read long before.  A method     *)
(* re-reads the rows and compares them with its arguments, so an action's  *)
(* guard is that comparison; a call whose comparison fails writes nothing. *)
(*                                                                         *)
(* Time is abstracted to the three comparisons the code makes with the     *)
(* clock: lease.live (expires_at > now), run.due (retry_after <= now) and  *)
(* run.late (queue_deadline_at <= now).  The clock actions flip them.      *)
(***************************************************************************)
EXTENDS Naturals

CONSTANTS
    Runs,          \* run ids, numbered in the order of their queued_at
    Workers,       \* worker (workspace) ids
    WorkerOf,      \* runs.worker_id
    Executors,     \* executor ids: one per service process incarnation
    WorkerWrites,  \* the open states that callers write with update_worker
    Outcomes,      \* the terminal states that callers ask for
    MaxAttempts,   \* bound on the attempts minted for one run
    MaxTokens      \* bound on the startup tokens minted for one run's lease

ASSUME RunsAssumption == Runs \subseteq Nat \ {0}
ASSUME WorkerOfAssumption == WorkerOf \in [Runs -> Workers]
ASSUME BoundsAssumption == MaxAttempts \in Nat \ {0} /\ MaxTokens \in Nat \ {0}

VARIABLES
    run,       \* runs:            [Runs -> RunRow]
    attempt,   \* run_attempts:    [Runs -> [Attempts -> AttemptRow]]
    lease,     \* host_run_leases: [Runs -> LeaseRow]   (UNIQUE run_id)
    worker     \* workers:         [Workers -> WorkerRow]

vars == <<run, attempt, lease, worker>>

-----------------------------------------------------------------------------
\* Row types

Attempts == 1 .. MaxAttempts

TerminalStates == {"completed", "failed", "cancelled", "interrupted"}
ASSUME OutcomesAssumption == Outcomes \subseteq TerminalStates
NonterminalStates ==
    {"queued", "claimed", "admitted", "running", "settling", "paused", "needs_input"}
RunStates == TerminalStates \cup NonterminalStates \cup {"none"}
\* The states in which the run's current attempt owns the worker.
DispatchStates == {"claimed", "admitted", "running", "settling"}

RunRow ==
    [st   : RunStates,
     att  : 0 .. MaxAttempts,   \* active_attempt_id ('' is 0)
     inv  : 0 .. MaxAttempts,   \* runtime_invoked_at, named by the attempt that set it
     wait : BOOLEAN,            \* queue_wait_open
     late : BOOLEAN,            \* queue_deadline_at <= now
     due  : BOOLEAN]            \* retry_after is NULL or <= now

\* An attempt whose ended_at is set is "ended", whatever its closing state.
AttemptStates == {"none", "claimed", "admitted", "running", "settling", "ended"}

AttemptRow ==
    [st    : AttemptStates,
     bound : BOOLEAN,           \* lease_id is the run's lease (else '')
     inv   : BOOLEAN]           \* runtime_invoked_at is set

LeaseRow ==
    [st    : {"none", "active", "released"},
     exec  : Executors \cup {"none"},
     att   : 0 .. MaxAttempts,  \* attempt_id ('' is 0)
     tok   : 0 .. MaxTokens,    \* startup_token
     start : {"reserved", "confirmed", "termination_unconfirmed"},
     ident : BOOLEAN,           \* a process or session identity is recorded
     live  : BOOLEAN]           \* expires_at > now

ClosedStates == {"terminating", "termination_failed", "terminated"}
OpenWorkerStates ==
    {"created", "starting", "ready", "running", "stopping", "paused",
     "needs_input", "failed"}
WorkerStates == OpenWorkerStates \cup ClosedStates
ASSUME WorkerWritesAssumption == WorkerWrites \subseteq OpenWorkerStates
\* The states in which neither a claim nor a start is allowed.
FencedStates == {"paused", "needs_input", "stopping", "terminated"}

\* The lifecycle claims: on one run, on the work or the whole worker, and on the
\* worker's compute alone (COMPUTE_OPERATION_SCOPE_BY_KIND).
RunClaimKinds ==
    {"pause_run", "resume_run", "interrupt_run", "steer_run", "max_duration"}
StopKinds == {"stop_run", "terminate_worker"}
ComputeKinds == {"idle", "needs_input", "paused", "pause_worker", "resume_worker"}
ClaimKinds == RunClaimKinds \cup StopKinds \cup ComputeKinds

\* The compute_release_* columns are the durable claim; held says that a live
\* thread owns its token.  An expired token without an owner may be taken over.
WorkerRow ==
    [st     : WorkerStates,
     kind   : ClaimKinds \cup {"none"},   \* compute_release_kind ("none": no token)
     target : Runs \cup {0},              \* compute_release_target_run_id
     repl   : Runs \cup {0},              \* compute_release_replacement_run_id
     proof  : BOOLEAN,                    \* compute_release_runtime_proof_digest matches
     held   : BOOLEAN,
     stop   : BOOLEAN]                    \* work_stop_id is set

TypeOK ==
    /\ run \in [Runs -> RunRow]
    /\ attempt \in [Runs -> [Attempts -> AttemptRow]]
    /\ lease \in [Runs -> LeaseRow]
    /\ worker \in [Workers -> WorkerRow]

Init ==
    /\ run = [r \in Runs |-> [st |-> "none", att |-> 0, inv |-> 0,
                              wait |-> FALSE, late |-> FALSE, due |-> TRUE]]
    /\ attempt = [r \in Runs |->
                    [a \in Attempts |->
                        [st |-> "none", bound |-> FALSE, inv |-> FALSE]]]
    /\ lease = [r \in Runs |->
                    [st |-> "none", exec |-> "none", att |-> 0, tok |-> 0,
                     start |-> "reserved", ident |-> FALSE, live |-> FALSE]]
    /\ worker = [w \in Workers |->
                    [st |-> "created", kind |-> "none", target |-> 0, repl |-> 0,
                     proof |-> FALSE, held |-> FALSE, stop |-> FALSE]]

-----------------------------------------------------------------------------
\* Predicates that several transactions evaluate

W(r) == worker[WorkerOf[r]]

\* _require_worker_work_admission
WorkAdmission(w) ==
    /\ worker[w].st # "terminated"
    /\ ~worker[w].stop
    /\ worker[w].kind \notin StopKinds

\* _run_is_owned_by_destructive_claim
OwnedByClaim(r) == W(r).kind \in RunClaimKinds \cup StopKinds /\ W(r).target = r

\* Mutant of AllowsStart: the work_stop_id test is missing.
AllowsStartStopped(w) ==
    /\ worker[w].kind = "none"
    /\ worker[w].st \notin FencedStates

\* Mutant of AllowsStart: a pending claim is not looked at.
AllowsStartClaimed(w) ==
    /\ ~worker[w].stop
    /\ worker[w].st \notin FencedStates

\* The worker test of validate_host_run_start_reservation, confirm_host_run_start
\* and of the claim.
AllowsStart(w) ==
    /\ worker[w].kind = "none"
    /\ ~worker[w].stop
    /\ worker[w].st \notin FencedStates

Open(row) == row.st \notin {"none", "ended"}
AttemptIs(r, s) == run[r].att \in Attempts /\ attempt[r][run[r].att].st = s

\* A startup reservation that no attempt and no process is bound to.
PreacceptOnly(r) ==
    /\ lease[r].st = "active"
    /\ lease[r].start = "reserved"
    /\ lease[r].att = 0
    /\ ~lease[r].ident

\* The lease admits the run's current attempt.
LeaseHolds(r) == lease[r].st = "active" /\ lease[r].live /\ lease[r].att = run[r].att

\* _running_generation_is_exact_conn
RunningGenerationExact(r) ==
    /\ run[r].att # 0
    /\ run[r].inv = run[r].att
    /\ AttemptIs(r, "running")
    /\ attempt[r][run[r].att].inv
    /\ attempt[r][run[r].att].bound
    /\ LeaseHolds(r)

\* _run_generation_is_exact_conn for a caller whose arguments are current.
GenerationExact(r) ==
    \/ run[r].att = 0
    \/ /\ run[r].att \in Attempts
       /\ Open(attempt[r][run[r].att])
       /\ attempt[r][run[r].att].inv <=> (run[r].inv = run[r].att)
       /\ \/ /\ lease[r].st # "none"
             /\ lease[r].att = run[r].att
             /\ \/ attempt[r][run[r].att].bound
                \/ AttemptIs(r, "claimed") /\ run[r].inv = 0
          \/ ~attempt[r][run[r].att].bound /\ run[r].inv = 0

\* Mutant of NextAttempt: COALESCE(MAX(attempt_number), 1), without the + 1.
LastAttempt(r, a) ==
    \A b \in Attempts :
        (attempt[r][b].st # "none") <=> (b <= a /\ attempt[r][1].st # "none")

\* COALESCE(MAX(attempt_number), 0) + 1
NextAttempt(r, a) == \A b \in Attempts : (attempt[r][b].st # "none") <=> (b < a)

-----------------------------------------------------------------------------
\* Row updates that several transactions make

\* A closed queue wait reopens with a new generation and deadline; an open one
\* keeps its deadline.
ReopenWait(row) ==
    [row EXCEPT !.wait = TRUE, !.late = row.wait /\ row.late]

\* The run goes back to the queue and forgets its attempt and its invocation.
Requeued(row, isDue) ==
    [ReopenWait(row) EXCEPT !.st = "queued", !.att = 0, !.inv = 0, !.due = isDue]

\* A terminal write, with what trg_runs_terminal_lifecycle_fence adds to the row.
\* The clock comparisons are never made again on a terminal row: late and due
\* are normalised.
Terminated(row, s) ==
    [row EXCEPT !.st = s, !.wait = FALSE, !.late = FALSE, !.due = TRUE]

Ended(row) == IF row.st = "none" THEN row ELSE [row EXCEPT !.st = "ended"]

\* End the current attempt of every run of R.
EndCurrent(R) ==
    [q \in Runs |->
        [a \in Attempts |->
            IF q \in R /\ a = run[q].att THEN Ended(attempt[q][a])
                                         ELSE attempt[q][a]]]

\* Release the active leases of the runs of R.  The identity, the start state and
\* the expiry of a released row are never read; they are normalised.
Release(R) ==
    [q \in Runs |->
        IF q \in R /\ lease[q].st = "active"
        THEN [lease[q] EXCEPT !.st = "released", !.exec = "none",
                              !.start = "reserved", !.ident = FALSE, !.live = FALSE]
        ELSE lease[q]]

SetWorker(w, s) == worker' = [worker EXCEPT ![w].st = s]

-----------------------------------------------------------------------------
\* Creating runs

NewRunRow == [st |-> "queued", att |-> 0, inv |-> 0,
              wait |-> TRUE, late |-> FALSE, due |-> TRUE]

IsNextRun(r) ==
    /\ run[r].st = "none"
    /\ \A q \in Runs : q < r => run[q].st # "none"

\* _create_run_parallel
CreateRun(r) ==
    /\ IsNextRun(r)
    /\ WorkAdmission(WorkerOf[r])
    /\ run' = [run EXCEPT ![r] = NewRunRow]
    /\ UNCHANGED <<attempt, lease, worker>>

\* create_run without run id, trace or contract: only closed workers refuse it,
\* and resume_paused wakes a paused worker.
CreateRunLegacy(r, resumePaused) ==
    /\ IsNextRun(r)
    /\ W(r).st \notin ClosedStates
    /\ run' = [run EXCEPT ![r] = NewRunRow]
    /\ IF resumePaused /\ W(r).st = "paused"
       THEN SetWorker(WorkerOf[r], "starting")
       ELSE UNCHANGED worker
    /\ UNCHANGED <<attempt, lease>>

-----------------------------------------------------------------------------
\* Leases: reservation, hand-over, heartbeat and release

\* acquire_host_run_lease, no active lease: a reserved row with a fresh token.
\* The capacity limits may refuse any call; a refusal writes nothing.
AcquireLease(r, e) ==
    /\ run[r].st # "none"
    /\ lease[r].st # "active"
    /\ run[r].att # 0 => run[r].st = "claimed"
    /\ lease[r].tok < MaxTokens
    /\ lease' = [lease EXCEPT ![r] =
                    [st |-> "active", exec |-> e, att |-> run[r].att,
                     tok |-> lease[r].tok + 1, start |-> "reserved",
                     ident |-> FALSE, live |-> TRUE]]
    /\ UNCHANGED <<run, attempt, worker>>

\* acquire_host_run_lease against another executor's expired, unclaimed
\* reservation: the row moves to the caller and keeps its token.
TransferLease(r, e) ==
    /\ PreacceptOnly(r)
    /\ lease[r].exec # e
    /\ ~lease[r].live
    /\ run[r].st = "queued" /\ run[r].att = 0
    /\ lease' = [lease EXCEPT ![r].exec = e, ![r].live = TRUE]
    /\ UNCHANGED <<run, attempt, worker>>

\* heartbeat_host_run_lease.  An expired lease is revived only by startup
\* reconciliation (allowExpired); the observer also records the identity.  A run
\* that ended as 'interrupted' does not stop the heartbeat.
Heartbeat(r, allowExpired, observed) ==
    /\ lease[r].st = "active"
    /\ allowExpired \/ lease[r].live
    /\ run[r].st \notin {"completed", "failed", "cancelled"}
    /\ lease' = [lease EXCEPT ![r] = [@ EXCEPT !.live = TRUE, !.ident = lease[r].ident \/ observed]]
    /\ UNCHANGED <<run, attempt, worker>>

\* release_host_run_lease: the caller's lease id and executor are compared, the
\* attempt and the token are not.
ReleaseLease(r) ==
    /\ lease[r].st = "active"
    /\ lease' = Release({r})
    /\ UNCHANGED <<run, attempt, worker>>

\* Mutant of ReleaseExpiredPreaccept: a status of its own, which no reader knows.
ReleaseAsExpired(r) ==
    /\ PreacceptOnly(r)
    /\ run[r].st = "queued" /\ run[r].att = 0
    /\ lease' = [lease EXCEPT ![r].st = "expired", ![r].live = FALSE]
    /\ UNCHANGED <<run, attempt, worker>>

\* release_expired_preaccept_host_run_lease
ReleaseExpiredPreaccept(r) ==
    /\ PreacceptOnly(r)
    /\ run[r].st = "queued" /\ run[r].att = 0
    /\ lease' = Release({r})
    /\ UNCHANGED <<run, attempt, worker>>

-----------------------------------------------------------------------------
\* Dispatch: claim, admission, invocation, startup confirmation

\* Mutant of Blocking: only runs whose runtime was invoked block the worker.
BlockingInvoked(w) ==
    {q \in Runs : WorkerOf[q] = w /\ run[q].st \in {"running", "settling", "paused", "needs_input"}}

\* The runs that keep a worker from claiming another one.
Blocking(w) ==
    {q \in Runs : WorkerOf[q] = w /\ run[q].st \in DispatchStates \cup {"paused", "needs_input"}}

\* A stateless conversation request that waits for a grant does not block.
StatelessWait(q) == run[q].st = "needs_input" /\ lease[q].st # "active"

Claimable(w) == {q \in Runs : WorkerOf[q] = w /\ run[q].st = "queued" /\ run[q].due}

\* _claim_next_queued_run_parallel: the oldest due run gets a new attempt, which
\* takes over the caller's own reservation if there is one.
ClaimGuard(w, e, stateless, r, a) ==
    /\ AllowsStart(w)
    /\ \A q \in Blocking(w) : stateless /\ StatelessWait(q)
    /\ \A q \in Claimable(w) : r <= q
    /\ NextAttempt(r, a)
    /\ lease[r].st = "active" => PreacceptOnly(r) /\ lease[r].exec = e

ClaimWrites(w, r, a) ==
    /\ run' = [run EXCEPT ![r] =
                [@ EXCEPT !.st = "claimed", !.att = a, !.inv = 0, !.due = TRUE]]
    /\ attempt' = [attempt EXCEPT ![r][a] =
                    [st |-> "claimed", bound |-> lease[r].st = "active", inv |-> FALSE]]
    /\ lease' = IF lease[r].st = "active"
                THEN [lease EXCEPT ![r] = [@ EXCEPT !.att = a, !.live = TRUE]]
                ELSE lease
    /\ SetWorker(w, "starting")

ClaimNext(w, e, stateless) ==
    \E r \in Claimable(w), a \in Attempts :
        ClaimGuard(w, e, stateless, r, a) /\ ClaimWrites(w, r, a)

\* The guard of admit_claimed_run.
CanAdmit(r) ==
    /\ run[r].st = "claimed"
    /\ LeaseHolds(r)
    /\ AttemptIs(r, "claimed")


\* Mutant of AdmitClaimed: the attempt row is bound but keeps its state.
AdmitClaimedRunOnly(r) ==
    /\ CanAdmit(r)
    /\ run' = [run EXCEPT ![r].st = "admitted"]
    /\ attempt' = [attempt EXCEPT ![r][run[r].att] = [@ EXCEPT !.bound = TRUE]]
    /\ UNCHANGED <<lease, worker>>

\* admit_claimed_run
AdmitClaimed(r) ==
    /\ CanAdmit(r)
    /\ run' = [run EXCEPT ![r].st = "admitted"]
    /\ attempt' = [attempt EXCEPT ![r][run[r].att] =
                                     [@ EXCEPT !.st = "admitted", !.bound = TRUE]]
    /\ UNCHANGED <<lease, worker>>

\* The guard of mark_run_runtime_invoked: the queue wait must still be open and in time.  The
\* processor calls it right after validate_host_run_start_reservation, under the
\* worker's lifecycle flock, which every claim takes too: no claim is pending.
CanInvoke(r) ==
    /\ run[r].st = "admitted"
    /\ W(r).kind = "none" /\ ~W(r).stop
    /\ LeaseHolds(r)
    /\ AttemptIs(r, "admitted")
    /\ attempt[r][run[r].att].bound
    /\ ~attempt[r][run[r].att].inv
    /\ run[r].wait /\ ~run[r].late


\* Mutant of MarkInvoked: the queue wait stays open.
MarkInvokedWaiting(r) ==
    /\ CanInvoke(r)
    /\ run' = [run EXCEPT ![r].st = "running", ![r].inv = run[r].att]
    /\ attempt' = [attempt EXCEPT ![r][run[r].att] =
                                     [@ EXCEPT !.st = "running", !.inv = TRUE]]
    /\ UNCHANGED <<lease, worker>>

\* mark_run_runtime_invoked
MarkInvoked(r) ==
    /\ CanInvoke(r)
    /\ run' = [run EXCEPT ![r].st = "running", ![r].inv = run[r].att, ![r].wait = FALSE]
    /\ attempt' = [attempt EXCEPT ![r][run[r].att] =
                                     [@ EXCEPT !.st = "running", !.inv = TRUE]]
    /\ UNCHANGED <<lease, worker>>

\* The guard of confirm_host_run_start.
CanConfirm(r) ==
    /\ run[r].st = "running"
    /\ RunningGenerationExact(r)
    /\ AllowsStart(WorkerOf[r])
    /\ lease[r].start = "reserved"


\* confirm_host_run_start: the durable start evidence of one exact generation.
ConfirmStart(r) ==
    /\ CanConfirm(r)
    /\ lease' = [lease EXCEPT ![r] = [@ EXCEPT !.start = "confirmed", !.ident = TRUE]]
    /\ SetWorker(WorkerOf[r], "running")
    /\ UNCHANGED <<run, attempt>>

-----------------------------------------------------------------------------
\* Recovery: rows whose generation is not exact any more

\* _downgrade_unproven_running_conn for every run of R.  The queue retry is due
\* at once, all leases of the runs are released, a running worker is starting.
Downgrade(R) ==
    /\ run' = [q \in Runs |-> IF q \in R THEN Requeued(run[q], TRUE) ELSE run[q]]
    /\ attempt' = EndCurrent(R)
    /\ lease' = Release(R)
    /\ worker' = [w \in Workers |->
                    IF worker[w].st = "running" /\ \E q \in R : WorkerOf[q] = w
                    THEN [worker[w] EXCEPT !.st = "starting"] ELSE worker[w]]

\* reconcile_invalid_running_runs (store start, active-work reads, reconciliation),
\* and the same repair inside confirm_host_run_start and update_run.
Unproven == {q \in Runs : run[q].st = "running" /\ ~RunningGenerationExact(q)}

ReconcileInvalidRunning ==
    /\ Unproven # {}
    /\ Downgrade(Unproven)

\* confirm_host_run_start and update_run repair the one run they were called for.
RepairRunning(r) ==
    /\ r \in Unproven
    /\ Downgrade({r})

\* reconcile_dead_host_run_lease: the lease of a process proven dead.
ReconcileDeadLease(r) ==
    /\ lease[r].st = "active"
    /\ IF run[r].st = "running" /\ run[r].att = lease[r].att
       THEN Downgrade({r})
       ELSE lease' = Release({r}) /\ UNCHANGED <<run, attempt, worker>>

\* mark_host_run_start_termination_unconfirmed: the spawned identity is ambiguous,
\* an exactly running generation stops being dispatchable.
MarkTerminationUnconfirmed(r) ==
    /\ lease[r].st = "active"
    /\ lease[r].start = "reserved"
    /\ lease' = [lease EXCEPT ![r].start = "termination_unconfirmed"]
    /\ IF /\ run[r].st = "running"
          /\ lease[r].att = run[r].att
          /\ run[r].inv = run[r].att
          /\ AttemptIs(r, "running")
          /\ attempt[r][run[r].att].bound
          /\ attempt[r][run[r].att].inv
       THEN /\ run' = [run EXCEPT ![r].st = "settling"]
            /\ attempt' = [attempt EXCEPT ![r][run[r].att].st = "settling"]
       ELSE UNCHANGED <<run, attempt>>
    /\ UNCHANGED worker

\* Mutant of RequeueUnconfirmed: the state of the run is not compared.
RequeueUnconfirmedAny(r) ==
    /\ run[r].st # "none"
    /\ lease[r].st = "active"
    /\ lease[r].start \in {"reserved", "termination_unconfirmed"}
    /\ run' = [run EXCEPT ![r] = Requeued(run[r], FALSE)]
    /\ attempt' = EndCurrent({r})
    /\ lease' = Release({r})
    /\ SetWorker(WorkerOf[r], IF W(r).st \in FencedStates THEN W(r).st ELSE "starting")

\* requeue_unconfirmed_host_run_start: an unconfirmed startup proven absent.
RequeueUnconfirmed(r) ==
    /\ run[r].st \in DispatchStates \cup {"queued"}
    /\ lease[r].st = "active"
    /\ lease[r].start \in {"reserved", "termination_unconfirmed"}
    /\ run' = [run EXCEPT ![r] = Requeued(run[r], FALSE)]
    /\ attempt' = EndCurrent({r})
    /\ lease' = Release({r})
    /\ SetWorker(WorkerOf[r], IF W(r).st \in FencedStates THEN W(r).st ELSE "starting")

\* The guard of _requeue_run_for_retry_parallel.
CanRequeue(r) ==
    /\ run[r].st \in {"queued", "claimed", "admitted", "running"}
    /\ WorkAdmission(WorkerOf[r])


\* Mutants of RequeueForRetry: the lease survives, the attempt survives, or a
\* paused run is woken as well.
RequeueKeepsLease(r) ==
    /\ CanRequeue(r)
    /\ run' = [run EXCEPT ![r] = Requeued(run[r], FALSE)]
    /\ attempt' = EndCurrent({r})
    /\ UNCHANGED <<lease, worker>>

RequeueKeepsAttempt(r) ==
    /\ CanRequeue(r)
    /\ run' = [run EXCEPT ![r] = Requeued(run[r], FALSE)]
    /\ lease' = IF lease[r].att = run[r].att THEN Release({r}) ELSE lease
    /\ UNCHANGED <<attempt, worker>>

RequeueWakesPaused(r) ==
    /\ run[r].st \in {"queued", "claimed", "admitted", "running", "paused"}
    /\ WorkAdmission(WorkerOf[r])
    /\ run' = [run EXCEPT ![r] = Requeued(run[r], FALSE)]
    /\ attempt' = EndCurrent({r})
    /\ lease' = IF lease[r].att = run[r].att THEN Release({r}) ELSE lease
    /\ UNCHANGED worker

\* _requeue_run_for_retry_parallel with the generation get_run_retry_generation
\* returned.  It releases the lease of that generation only.
RequeueForRetry(r) ==
    /\ CanRequeue(r)
    /\ run' = [run EXCEPT ![r] = Requeued(run[r], FALSE)]
    /\ attempt' = EndCurrent({r})
    /\ lease' = IF lease[r].att = run[r].att THEN Release({r}) ELSE lease
    /\ UNCHANGED worker

\* switch_worker_profile_and_requeue_run
SwitchProfileAndRequeue(r) ==
    /\ run[r].st \in {"claimed", "admitted", "running"}
    /\ WorkAdmission(WorkerOf[r])
    /\ run' = [run EXCEPT ![r] = Requeued(run[r], FALSE)]
    /\ attempt' = EndCurrent({r})
    /\ lease' = Release({r})
    /\ SetWorker(WorkerOf[r], "ready")

-----------------------------------------------------------------------------
\* Outcomes of a run

\* settle_run_if_current: native children are still running; the attempt row
\* keeps its state.
SettleRun(r) ==
    /\ run[r].st = "running"
    /\ GenerationExact(r)
    /\ ~OwnedByClaim(r)
    /\ WorkAdmission(WorkerOf[r])
    /\ run' = [run EXCEPT ![r].st = "settling"]
    /\ UNCHANGED <<attempt, lease, worker>>

\* _finalize_run_if_state_parallel into a terminal state.  The trigger releases
\* the lease and closes the queue wait.
FinalizeRun(r, s) ==
    /\ run[r].st \in NonterminalStates
    /\ GenerationExact(r)
    /\ run' = [run EXCEPT ![r] = Terminated(run[r], s)]
    /\ attempt' = EndCurrent({r})
    /\ lease' = Release({r})
    /\ UNCHANGED worker

\* The same method into 'paused' (pause of an active run that has not started):
\* the attempt ends although the run may resume.
FinalizePaused(r) ==
    /\ run[r].st \in DispatchStates
    /\ GenerationExact(r)
    /\ ~OwnedByClaim(r)
    /\ WorkAdmission(WorkerOf[r])
    /\ run' = [run EXCEPT ![r].st = "paused", ![r].due = TRUE]
    /\ attempt' = EndCurrent({r})
    /\ UNCHANGED <<lease, worker>>

\* transition_run_if_state into a nonterminal state s.
TransitionGuard(r) == WorkAdmission(WorkerOf[r]) /\ ~OwnedByClaim(r)

\* A dispatched run is paused; its attempt stays open.
TransitionPaused(r) ==
    /\ run[r].st \in DispatchStates
    /\ TransitionGuard(r)
    /\ run' = [run EXCEPT ![r].st = "paused"]
    /\ UNCHANGED <<attempt, lease, worker>>

\* mark_run_needs_input, called for a run that was just claimed and whose
\* authority is missing: the attempt ends, the lease is not touched.
MarkNeedsInput(r) ==
    /\ run[r].st = "claimed"
    /\ TransitionGuard(r)
    /\ run' = [run EXCEPT ![r].st = "needs_input", ![r].due = TRUE]
    /\ attempt' = EndCurrent({r})
    /\ UNCHANGED <<lease, worker>>

\* _transition_provider_liveness_attention_conn: a stalled provider.
ProviderStalled(r) ==
    /\ run[r].st = "running"
    /\ RunningGenerationExact(r)
    /\ W(r).kind \notin {"max_duration", "stop_run", "terminate_worker"}
    /\ run' = [run EXCEPT ![r].st = "needs_input"]
    /\ attempt' = EndCurrent({r})
    /\ lease' = Release({r})
    /\ SetWorker(WorkerOf[r], "needs_input")

\* transition_run_if_state from needs_input to queued: the ended attempt and the
\* invocation stay on the row and a closed queue wait stays closed.
TransitionQueued(r) ==
    /\ run[r].st = "needs_input"
    /\ TransitionGuard(r)
    /\ run' = [run EXCEPT ![r].st = "queued", ![r].due = TRUE]
    /\ UNCHANGED <<attempt, lease, worker>>

\* resume_needs_input_active_work_action: the same, but a closed queue wait is
\* reopened and the worker is set starting, whatever its state.
ResumeNeedsInput(r) ==
    /\ run[r].st = "needs_input"
    /\ run' = [run EXCEPT ![r] = [ReopenWait(run[r]) EXCEPT !.st = "queued", !.due = TRUE]]
    /\ SetWorker(WorkerOf[r], "starting")
    /\ UNCHANGED <<attempt, lease>>

\* reopen_direct_provider_needs_input: an exact conversation retry, which does
\* clear the ended attempt and always opens a new wait.
ReopenDirect(r) ==
    /\ run[r].st = "needs_input"
    /\ lease[r].st # "active"
    /\ run[r].att # 0 => AttemptIs(r, "ended")
    /\ W(r).kind = "none"
    /\ W(r).st \in {"needs_input", "ready", "starting", "running"}
    /\ \A q \in Runs : WorkerOf[q] = WorkerOf[r] => run[q].st # "paused"
    /\ WorkAdmission(WorkerOf[r])
    /\ run' = [run EXCEPT ![r] = NewRunRow]
    /\ UNCHANGED <<attempt, lease, worker>>

\* update_run by the conversation provider: a completed run of which no authored
\* response is found is failed.  The lifecycle trigger does not fire again.
MissingResponse(r) ==
    /\ run[r].st = "completed"
    /\ run' = [run EXCEPT ![r].st = "failed"]
    /\ UNCHANGED <<attempt, lease, worker>>

\* Mutant of ExpireQueued: the lease is left to the processor.
ExpireQueuedKeepsLease(r) ==
    /\ run[r].st \in {"queued", "claimed", "admitted", "running"}
    /\ run[r].wait /\ run[r].late
    /\ run' = [run EXCEPT ![r] = Terminated(run[r], "failed")]
    /\ attempt' = EndCurrent({r})
    /\ UNCHANGED <<lease, worker>>

\* expire_queued_run_if_due: the bounded admission wait is over.
ExpireQueued(r) ==
    /\ run[r].st \in {"queued", "claimed", "admitted", "running"}
    /\ run[r].wait /\ run[r].late
    /\ run' = [run EXCEPT ![r] = Terminated(run[r], "failed")]
    /\ attempt' = EndCurrent({r})
    /\ lease' = Release({r})
    /\ UNCHANGED worker

\* cancel_pending_runs: the queued and running runs of the worker become
\* terminal, the open attempts of all its runs end.
CancelPending(w, s) ==
    LET Cancelled == {q \in Runs : WorkerOf[q] = w /\ run[q].st \in {"queued", "running"}}
    IN  /\ run' = [q \in Runs |-> IF q \in Cancelled THEN Terminated(run[q], s) ELSE run[q]]
        /\ attempt' = [q \in Runs |-> [a \in Attempts |->
                        IF WorkerOf[q] = w /\ Open(attempt[q][a])
                        THEN Ended(attempt[q][a]) ELSE attempt[q][a]]]
        /\ lease' = Release(Cancelled)
        /\ UNCHANGED worker

-----------------------------------------------------------------------------
\* Worker rows

\* update_worker / update_worker_state: a write of an open state skips a worker
\* that is being closed.
UpdateWorkerState(w, s) ==
    /\ worker[w].st \notin ClosedStates
    /\ SetWorker(w, s)
    /\ UNCHANGED <<run, attempt, lease>>

\* begin_worker_termination
BeginTermination(w) ==
    /\ worker[w].st \notin {"terminating", "terminated"}
    /\ SetWorker(w, "terminating")
    /\ UNCHANGED <<run, attempt, lease>>

\* fail_worker_termination and record_worker_termination_cleanup_failure, the
\* second of which also moves a worker that is already terminated.
FailTermination(w) ==
    /\ worker[w].st \in ClosedStates
    /\ SetWorker(w, "termination_failed")
    /\ UNCHANGED <<run, attempt, lease>>

\* complete_worker_termination
CompleteTermination(w) ==
    /\ worker[w].st = "terminating"
    /\ SetWorker(w, "terminated")
    /\ UNCHANGED <<run, attempt, lease>>

-----------------------------------------------------------------------------
\* The clock

LeaseExpires(r) ==
    /\ lease[r].st = "active" /\ lease[r].live
    /\ lease' = [lease EXCEPT ![r].live = FALSE]
    /\ UNCHANGED <<run, attempt, worker>>

RetryDue(r) ==
    /\ run[r].st = "queued" /\ ~run[r].due
    /\ run' = [run EXCEPT ![r].due = TRUE]
    /\ UNCHANGED <<attempt, lease, worker>>

QueueDeadlinePasses(r) ==
    /\ run[r].wait /\ ~run[r].late
    /\ run' = [run EXCEPT ![r].late = TRUE]
    /\ UNCHANGED <<attempt, lease, worker>>


-----------------------------------------------------------------------------

RunStep(r) ==
    \/ CreateRun(r)
    \/ \E resumePaused \in BOOLEAN : CreateRunLegacy(r, resumePaused)
    \/ \E e \in Executors : AcquireLease(r, e) \/ TransferLease(r, e)
    \/ \E allowExpired, observed \in BOOLEAN : Heartbeat(r, allowExpired, observed)
    \/ ReleaseLease(r)
    \/ ReleaseExpiredPreaccept(r)
    \/ AdmitClaimed(r)
    \/ MarkInvoked(r)
    \/ ConfirmStart(r)
    \/ RepairRunning(r)
    \/ ReconcileDeadLease(r)
    \/ MarkTerminationUnconfirmed(r)
    \/ RequeueUnconfirmed(r)
    \/ RequeueForRetry(r)
    \/ SwitchProfileAndRequeue(r)
    \/ SettleRun(r)
    \/ \E s \in Outcomes : FinalizeRun(r, s)
    \/ FinalizePaused(r)
    \/ TransitionPaused(r)
    \/ MarkNeedsInput(r)
    \/ ProviderStalled(r)
    \/ TransitionQueued(r)
    \/ ResumeNeedsInput(r)
    \/ ReopenDirect(r)
    \/ MissingResponse(r)
    \/ ExpireQueued(r)

WorkerStep(w) ==
    \/ \E e \in Executors, stateless \in BOOLEAN : ClaimNext(w, e, stateless)
    \/ \E s \in Outcomes \cap {"cancelled", "failed"} : CancelPending(w, s)
    \/ \E s \in WorkerWrites : UpdateWorkerState(w, s)
    \/ BeginTermination(w)
    \/ FailTermination(w)
    \/ CompleteTermination(w)

ClockStep(r) == LeaseExpires(r) \/ RetryDue(r) \/ QueueDeadlinePasses(r)

Next ==
    \/ \E r \in Runs : RunStep(r) \/ ClockStep(r)
    \/ \E w \in Workers : WorkerStep(w)
    \/ ReconcileInvalidRunning

Spec == Init /\ [][Next]_vars

-----------------------------------------------------------------------------
\* What the ledger promises

\* A lease that is active fences the attempt the run row names, never an older
\* one: the recovery paths that compare lease.attempt_id with
\* runs.active_attempt_id find the generation they are looking for.
LeaseFencesCurrentAttempt ==
    \A r \in Runs :
        lease[r].st = "active" => run[r].st # "none" /\ lease[r].att = run[r].att

\* At most one attempt of a run is open and the run row names it: no recovery,
\* requeue or profile switch leaves an orphaned attempt behind.
OneOpenAttempt ==
    \A r \in Runs, a \in Attempts : Open(attempt[r][a]) => a = run[r].att

\* A run that waits, in the queue or for input, has no open attempt: whoever put
\* it back ended the generation first, so the next claim cannot make a second one.
WaitingIsQuiet ==
    \A r \in Runs :
        run[r].st \in {"none", "queued", "needs_input"} =>
            \A a \in Attempts : ~Open(attempt[r][a])

\* A run that is out of the queue has an attempt, whose row is in step with the
\* run row unless it was ended first (cancel_pending_runs).
AttemptInStep ==
    \A r \in Runs :
        /\ run[r].st = "claimed"  => AttemptIs(r, "claimed") \/ AttemptIs(r, "ended")
        /\ run[r].st = "admitted" => AttemptIs(r, "admitted") \/ AttemptIs(r, "ended")
        /\ run[r].st = "running"  => AttemptIs(r, "running") \/ AttemptIs(r, "ended")
        /\ run[r].st = "settling" => \/ AttemptIs(r, "running")
                                    \/ AttemptIs(r, "settling")
                                    \/ AttemptIs(r, "ended")

\* One worker executes at most one run: two dispatched runs never share it.
WorkerExclusive ==
    \A q, r \in Runs :
        /\ WorkerOf[q] = WorkerOf[r]
        /\ run[q].st \in DispatchStates
        /\ run[r].st \in DispatchStates
        => q = r

\* An invoked run has left the bounded queue wait, and its invocation is the
\* current attempt's: the queue timeout (expire_queued_run_if_due, whose state
\* list includes 'running') can only end a run that was never started.
RunningLeftQueueWait ==
    \A r \in Runs :
        /\ run[r].st = "running" => ~run[r].wait /\ run[r].inv = run[r].att
        /\ run[r].inv \in {0, run[r].att}

\* A terminal run holds no execution lease; what may remain is a reservation
\* that no attempt is bound to.
TerminalReleasesExecution ==
    \A r \in Runs :
        run[r].st \in TerminalStates /\ lease[r].st = "active" => lease[r].att = 0

\* Start evidence is confirmed only for an attempt whose runtime was invoked.
ConfirmedWasInvoked ==
    \A r \in Runs :
        /\ lease[r].st = "active"
        /\ lease[r].start = "confirmed"
        => lease[r].att \in Attempts /\ attempt[r][lease[r].att].inv

\* The inductive invariant of the ledger: together the invariants above are
\* preserved by every transaction.
LedgerInv ==
    /\ TypeOK
    /\ LeaseFencesCurrentAttempt
    /\ OneOpenAttempt
    /\ WaitingIsQuiet
    /\ AttemptInStep
    /\ WorkerExclusive
    /\ RunningLeftQueueWait
    /\ TerminalReleasesExecution
    /\ ConfirmedWasInvoked

\* An attempt that ended is history: no transaction reopens or rewrites it.
AttemptNeverReopens ==
    [][\A r \in Runs, a \in Attempts :
          attempt[r][a].st = "ended" => attempt'[r][a] = attempt[r][a]]_vars

\* A terminal run stays what it is: no late callback, retry, resume or recovery
\* moves it.  Only a completed run may still fail, when its provider finds no
\* response of it.
TerminalAbsorbing ==
    [][\A r \in Runs :
          run[r].st \in TerminalStates =>
              \/ run'[r].st = run[r].st
              \/ run[r].st = "completed" /\ run'[r].st = "failed"]_vars

\* resume_needs_input_active_work_action: "Atomically re-admit an attention-blocked
\* run and its action proof."  A run that was put back into the queue can be
\* admitted: the reservation (acquire_host_run_lease) refuses a queued run that
\* still names an attempt.
QueuedIsAdmissible ==
    \A r \in Runs : run[r].st = "queued" => run[r].att = 0

\* begin_worker_termination: "Publish permanent close intent once before any
\* external runtime teardown."  Once published, no transaction reopens the worker.
PermanentClose ==
    [][\A w \in Workers :
          worker[w].st \in ClosedStates => worker'[w].st \in ClosedStates]_vars
=============================================================================
